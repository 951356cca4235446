\* One update to a kernel that hangs.
SPECIFICATION AloneSpec
CONSTANTS
  Kernels = {k1, k2}
  Good = {k1}
  Installed = k1
  None = none
  Attempts = 2
  MaxUpdates = 1
PROPERTY BadUpdateRecovers
CHECK_DEADLOCK FALSE
