SPECIFICATION GuardSpec
CONSTANTS
  Kernels = {k1, k2, k3}
  Good = {k1, k3}
  Installed = k1
  None = none
  Attempts = 2
  MaxUpdates = 2
INVARIANTS DefaultHasKernel
CHECK_DEADLOCK FALSE
