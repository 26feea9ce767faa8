SPECIFICATION AuthSpec
CONSTANTS
  Clients = {c1}
  Versions = {v1}
  Capabilities = {preset}
  Handlers = {h1, h2}
  Nonces = {n1, n2}
  SessionIds = {s1, s2}
  None = None
  MaxAge = 0
  MaxSkew = 1
  Retention = 1
  Lease = 1
  Horizon = 1
  Logins = {l1}
  Calls = {h1, h2}
  Asks = {a1}
  Jtis = {j1}
  Transfers = {s1, s2}
  Hashes = {x1, x2}
  Nothing = Nothing
  GrantTtl = 1
  GrantMaxAge = 1
  KeptFor = 1
  TransferTtl = 1
  LoginTtl = 2
  MaxTransfers = 1
  LastSecond = 2
  Threads = {h1, h2}
  Leases = {s1, s2}
  Rights = {preset}
  ClockError = 1
  NoLease = NoLease
  LeaseTtl = 2
  LastTime = 3
  Openers = {h1, h2}
  Ids = {i1, i2, i3}
  Missing = Missing
  Downloads = {d1, d2}
  Contents = {"long", "short"}
  Length <- ChunkCount
  Authorities <- SigningKeys
  Rings <- KeyRings
  MaxChanges = 2
  NoManifest = NoManifest
  Registrants = {"one", "two", "other"}
  DeviceOf <- DeviceOfRegistrant
  KeyOf <- KeyOfRegistrant
  ClientVersions = {"v1", "v2"}
  MaxTries = 1
  NoRow = NoRow
CHECK_DEADLOCK FALSE
SYMMETRY Symmetry
INVARIANTS
  AuthTypeOK
  GrantsAreNotOverspent
  LeaseIsNotOvertrusted
  DeliveredIsWhole
PROPERTIES
  
  WithdrawalIsFinal
  RegistrationIsProved
