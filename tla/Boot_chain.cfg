\* The ESP writer on both layouts, and the boot guard with three kernels, one
\* of them bad.
CONSTANTS
  Layouts = {"installed", "dual"}
  InstalledLast = 18
  SharedLast = 14
  UnitsPerCluster = 1
  Stride = 1
  LoaderSize = 1
  KernelSize = 2
  MaxOps = 4
  Kernels = {k1, k2, k3}
  Good = {k1, k3}
  Installed = k1
  None = none
  Attempts = 2
  MaxUpdates = 4
SPECIFICATION BootSpec
INVARIANTS EspFilesWhole 
 
CHECK_DEADLOCK FALSE
