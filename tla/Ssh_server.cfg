\* The SSH server: two sessions of clients that follow the protocol, the
\* files behind the service, and the file commands of the shell.
CONSTANTS
  Names = {"w", "x", "i", "k"}
  Sensitive = {"k"}
  WriteRoots <- Roots
  Internal <- InternalDir
  HomeDir <- Home
  Dirs0 <- Tree
  MaxArg = 2
  MaxPath = 7
  MaxEntries = 7
  Passwords = {"pw1", "pw2"}
  MaxAttemptsSet = {0, 1, 5}
  LockoutsSet = {1, 9}
  AttemptsLimit = 4
  LockoutLimit = 5
  MaxKeys = 2
  None = None
  Empty = Empty
  MaxFaults = 2
  Peers = {p1, p2}
  NoPeer = NoPeer
  MaxPackets = 9
  MaxUnits = 2
  Window = 3
  IdleTimeout = 0
  ClosePolls = 2
  MaxAttempts = 2
  LockoutTicks = 1
  TextCap = 2
  MaxChunks = 1
  MaxConnections = 2
  MaxCommands = 2
  Chats = {"EXEC", "PTY", "SHELL", "LINE", "EXIT", "EOF"}
SPECIFICATION MCSpec
INVARIANTS SessionIsReadable FreshConnection AnswersComplete IdentityKept ShellKeepsPolicy
