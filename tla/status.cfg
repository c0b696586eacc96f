SPECIFICATION StatusSpec
CONSTANTS
  A = A
  B = B
  C = C
  c1 = c1
  c2 = c2
  Dirs = {A, B, C}
  Ports = {1, 2, 3}
  Names = {A, B, C}
  None = None
  Clients = {c1, c2}
  Ops = {"deploy", "stop", "destroy"}
  Faults = {"server"}
  Disciplined = TRUE
  PortBase = 1
  PortRange = 2
  Asked = {2}
  MaxCalls = 2
  Members <- TwoMembers
  Conductor = c1
  OnPath = FALSE
INVARIANT StatusTypeOK
INVARIANT ListedOnce
PROPERTY ShownWasTrue
CHECK_DEADLOCK FALSE
