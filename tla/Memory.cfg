\* A heap of 26 units, a table of five inodes, and the restore at boot after any
\* three calls of the user and any restarts.
CONSTANTS
  HeapSize = 26
  Header = 2
  MinBlock = 4
  Requests = {1, 3, 4, 9}
  Paths <- MemoryPaths
  Roots <- MCRoots
  SeedTree <- MCSeedTree
  Defaults <- MCDefaults
  UserPaths <- MCUserPaths
  MaxFiles = 24
  MaxCalls = 3
  BufferIds = {1, 2, 3, 4, 5, 6, 7, 8, 9, 10, 11, 12, 13, 14}
SPECIFICATION MemorySpec
INVARIANTS Tiled Joined LiveHeld TableSound
PROPERTIES RestoreIsExact
