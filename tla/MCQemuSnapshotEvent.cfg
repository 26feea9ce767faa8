SPECIFICATION QemuSpec
CONSTANTS
  Names = {n1, n2}
  Procs = {p1}
  Tags = {s1}
  Memories = {m1, m2}
  MaxPort = 12
  Reserved = {6}
  SshBase = 1
  QmpBase = 2
  AdbBase = 3
  SshAsked = {None}
  AdbAsked <- AskedBlocks
  OwnKeys = {FALSE}
  MaxKeys = 2
  None = None
  MaxJobs = 0
  MaxBoxes = 1
  Nobody = Nobody
  LongNames = {}
  Sizes = {0}
  Clusters = 1
  ClusterBytes = 1
  RootEntries = 3
  Lossy = Lossy
  UserFiles <- WslFiles
  Hosts = {"linux"}
  LastSecond = 0
  LastRelease = 1
  MaxCommands = 0
  Places <- QemuPlaces
  Roomy = 1
  Redroids = {}
  NodeMemory = 0
  Uses = {}
  BoxMemory = 0
  MaxPolls = 0
  MaxRuns = 0
SYMMETRY Symmetry
CHECK_DEADLOCK FALSE
INVARIANTS
  RegisteredSnapshotsExist
