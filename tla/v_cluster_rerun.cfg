SPECIFICATION ClusterSpec
CONSTANTS
  A = A
  B = B
  C = C
  c1 = c1
  c2 = c2
  Dirs = {A, B}
  Ports = {1, 2}
  Names = {A, B}
  None = None
  Clients = {c1, c2}
  Ops = {"stop"}
  Faults = {"rm"}
  Disciplined = TRUE
  PortBase = 1
  PortRange = 2
  Asked = {}
  MaxCalls = 3
  Members <- TwoMembers
  Conductor = c1
  OnPath = TRUE
PROPERTY ManifestOutlivesMembers
CHECK_DEADLOCK FALSE
