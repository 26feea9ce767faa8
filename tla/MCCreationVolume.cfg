SPECIFICATION CreationSpec
CONSTANTS
  Names = {a, b}
  NoName = NoName
CHECK_DEADLOCK FALSE
SYMMETRY Symmetry
PROPERTIES
  ExistingVolumesAreKept
