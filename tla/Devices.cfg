\* A receive ring of three entries; two ports and a command ring of three, one
\* wait that gives up; two devices on queues of two; rings of two and three
\* descriptors; two key presses and one mouse move.
CONSTANTS
  Entries = 3
  Sections = 2
  MaxUserCalls = 3
  Ports = {1, 2}
  Endpoints = {3, 5}
  RingLink = 3
  MaxPlugs = 2
  MaxForced = 1
  MaxSends = 1
  MaxTimeouts = 1
  MaxDevices = 2
  Depth = 2
  MaxCid = 7
  Sectors = 2
  Scale = 2
  MaxCalls = 2
  MaxLate = 1
  RxDesc = 3
  TxDesc = 2
  RtlRing = 64
  Lengths = {18, 21}
  MaxFrames = 5
  Keys = {"a", "lshift", "lctrl", "rctrl", "altgr", "num", "pause"}
  UsbKeys = {"x", "caps"}
  QueueSize = 4
  MaxPresses = 2
  MaxMoves = 1
SPECIFICATION DevicesSpec
INVARIANTS RadioSound RingsInStep DevicesKept StorageAgrees RingsKeepFrames InputAgrees
PROPERTY DevicesProgress
CHECK_DEADLOCK FALSE
