SPECIFICATION Spec
CONSTANTS
  b1 = b1
  b2 = b2
  v1 = v1
  v2 = v2
  p1 = p1
  p2 = p2
  Versions = {v1, v2}
  Unsigned = {v2}
  Prefixes = {p1, p2}
  Named <- Names
  Root = {p1, p2}
  Latest = latest
  Boxes = {s1}
  Builders = {b1, b2}
  None = None
  Faults = {"cli", "child", "net", "disk", "unseen"}
  MaxJobs = 2
SYMMETRY Symmetry
INVARIANT InstallsTypeOK
INVARIANT SourceIsGenuine
PROPERTY OlderSandboxKeepsInstall
PROPERTY BuildOkMeansInstalled
CHECK_DEADLOCK FALSE
