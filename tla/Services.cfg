\* Two connections with answers of three records, two attempts at a lease, two
\* queries and a channel of two versions with one refused write; two packages,
\* one in three versions and one in two, four calls, two refused writes or saves
\* and one power failure; digits in base 4 and limbs of 4 bits.
CONSTANTS
  MaxPorts = 2
  Records = 3
  Room = 2
  PlainRoom = 4
  MaxXid = 2
  MaxQueries = 2
  Versions = 2
  Chunk = 2
  MaxRefused = 1
  Artifacts <- MCArtifacts
  PkgNames = {"A", "B"}
  PkgPaths = {"a", "b", "c", "s", "w"}
  Packages1 <- MCPackages
  PayloadOf <- MCPayload
  PreRemoveOf <- MCPreRemove
  PostRemoveOf <- MCPostRemove
  NeedsOf <- MCNeeds
  MaxPkgCalls = 4
  MaxPkgFaults = 2
  MaxPkgCuts = 1
  Base = 4
  Exponent = 5
  LimbBits = 4
  Fold = 3
  A24 = 121665
  Primes = {53, 59, 61}
  SmallPrimes = {3, 5, 11}
  Bases = {3}
  Elements = {0, 1, 2, 15, 16, 17, 255, 65535, 524288, 1048570, 1048571, 1048572, 1048573, 1048574, 1048575, 699050, 349525, 4097, 987654}
  Scalars = {64, 80, 88, 104, 120}
SPECIFICATION ServicesSpec
INVARIANTS StreamsKept TlsKept ConfigKept DownloadsSound PackagesKept PackagesRecoverable ArithmeticAgrees
PROPERTY UpgradeConverges
CHECK_DEADLOCK FALSE
