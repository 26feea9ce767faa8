SPECIFICATION QemuSpec
CONSTANTS
  Names = {n1, n2}
  Procs = {p1}
  Tags = {s1}
  Memories = {m1, m2}
  MaxPort = 12
  Reserved = {6}
  SshBase = 1
  QmpBase = 2
  AdbBase = 3
  SshAsked = {None}
  AdbAsked <- AskedBlocks
  OwnKeys = {FALSE}
  MaxKeys = 2
  None = None
  MaxJobs = 2
  MaxBoxes = 3
  Nobody = Nobody
  LongNames <- SeedNames
  Sizes = {0, 2, 3, 4}
  Clusters = 4
  ClusterBytes = 2
  RootEntries = 9
  Lossy = Lossy
  UserFiles <- WslFiles
  Hosts = {"windows", "linux"}
  LastSecond = 1
  LastRelease = 2
  MaxCommands = 2
  Places <- QemuPlaces
  Roomy = 1
  Redroids = {b1, b2}
  NodeMemory = 22
  Uses = {3, 8}
  BoxMemory = 8
  MaxPolls = 1
  MaxRuns = 3
SYMMETRY Symmetry
CHECK_DEADLOCK FALSE
INVARIANTS
  QemuTypeOK
  LiveDiskUntouched
  RegistryIsTrue
  
  
PROPERTIES
  UpgradesAreReversible
  
  NodeIsAsTold
