SPECIFICATION HostSpec
CONSTANTS
  LastRelease = 2
  MaxCommands = 4
  Places <- Directories
  Roomy = 1
CHECK_DEADLOCK FALSE
INVARIANTS
  BaseImageIsReadOnly
