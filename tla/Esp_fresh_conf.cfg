SPECIFICATION Spec
CONSTANTS
  Layouts = {"installed"}
  InstalledLast = 18
  SharedLast = 14
  UnitsPerCluster = 1
  Stride = 1
  LoaderSize = 1
  KernelSize = 2
  MaxOps = 3
INVARIANTS BootFilesWhole
CHECK_DEADLOCK FALSE
