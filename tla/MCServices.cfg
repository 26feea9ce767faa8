SPECIFICATION ServicesSpec
CONSTANTS
  Vms = {v1}
  Instances = {i1, i2}
  Protected = {i2}
  Releases = {r1, r2}
  AutoReleases = {a1}
  None = None
  Children = {c1, c2, c3, c4}
  Starts = {s1, s2}
  Readers = {q1, q2}
  Changers = {g1}
  MaxVersion = 2
  MaxClock = 3
  Devices = {d1, d2}
  Loads = {l1, l2, l3}
  Connects = {t1, t2}
  NoDevice = NoDevice
  Waits = {w1, w2}
  Installs = {j1, j2}
  Apks = {apk1, apk2}
  NoApk = NoApk
  Probes = 2
  Rounds = 2
  Managed = {m1, m2}
  NoContainerName = NoContainerName
  LastPort = 2
  Clones = {u1}
  Modules = {"lsposed"}
  Builds = {b1, b2}
  MaxEdition = 2
  MaxImages = 1
  Builtins = {k1, k2}
  Born = k1
  Phones = {ph1}
  Callers = {b1, b2}
  Absent = Absent
  Torn = Torn
  MaxCalls = 2
  MaxStops = 1
CHECK_DEADLOCK FALSE
SYMMETRY Symmetry
INVARIANTS
  ServicesTypeOK
  OneProcessUnlessRaced
  ChangesAreSeen
  
PROPERTIES
  
  DeviceIsAsTold
  ClonesGetPortsOfTheirOwn
  
  ReleasesAreCareful
