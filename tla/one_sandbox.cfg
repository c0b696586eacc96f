SPECIFICATION Spec
CONSTANTS
  Dirs = {A}
  Ports = {1}
  Names = {x}
  None = None
  Clients = {c1, c2, c3}
  Ops = {"deploy", "start", "stop", "restart", "publish"}
  Faults = {"cli", "server", "pid", "child", "slow", "reboot"}
  Disciplined = FALSE
  PortBase = 1
  PortRange = 1
  Asked = {}
  MaxCalls = 5
SYMMETRY Symmetry
INVARIANT PublicationNeedsLogicalWal
INVARIANT OneDeployerPerDirectory
CHECK_DEADLOCK FALSE
