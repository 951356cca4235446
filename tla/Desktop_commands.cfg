\* Three windows on two workspaces and two special ones, four commands; two
\* commands on configuration files, one of them with a refused write or a disk
\* that is gone before it ends.
SPECIFICATION DesktopPartsSpec
CONSTANTS
  MaxClients = 3
  MaxWorkspaces = 2
  SpecialNames = {"default", "chat"}
  Names = {"2", "mail"}
  MaxSpawns = 3
  MaxCommands = 4
  AreaWidth = 240
  AreaHeight = 160
  InnerGap = 6
  StartFiles <- MCStart
  ConfigTexts <- MCTexts
  UserRoom = 12
  SourceRoom = 8
  SourceDepth = 2
  SourceFiles = 3
  MaxConfigCalls = 2
  MaxConfigFaults = 1
INVARIANTS WindowListsAgree WorkspacesInStep TilesDoNotOverlap KeysReachTheShownTerminal ConfigurationSound
PROPERTY OnlyTheFocusedCloses
CHECK_DEADLOCK FALSE
