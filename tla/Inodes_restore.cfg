SPECIFICATION SpecRestore
CONSTANTS
  Paths <- MCPaths
  Roots <- MCRoots
  SeedTree <- MCSeedTree
  Defaults <- MCDefaults
  UserPaths <- MCFewUserPaths
  MaxFiles = 24
  MaxCalls = 4
  BufferIds = {1, 2, 3, 4, 5, 6, 7, 8, 9, 10, 11, 12, 13, 14}
PROPERTIES RestoreIsExact
