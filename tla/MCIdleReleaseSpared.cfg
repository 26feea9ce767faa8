SPECIFICATION Spec
CONSTANTS
  Vms = {v1}
  Instances = {i1, i2}
  Protected = {i2}
  Releases = {r1}
  AutoReleases = {a1}
  None = None
PROPERTIES
  SparedStayRunning
