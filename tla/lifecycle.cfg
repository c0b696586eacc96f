SPECIFICATION Spec
CONSTANTS
  Dirs = {A, B, C}
  Ports = {1, 2}
  Names = {x}
  None = None
  Clients = {c1, c2}
  Ops = {"deploy", "standby", "start", "stop", "restart", "promote", "destroy"}
  Faults = {"cli", "server", "slow", "rm", "reboot"}
  Disciplined = TRUE
  PortBase = 1
  PortRange = 2
  Asked = {}
  MaxCalls = 5
SYMMETRY Symmetry
INVARIANT ConfigMeansDeployed
INVARIANT RecordedPortIsServed
INVARIANT NoStrayServer
PROPERTY StartOkMeansServing
PROPERTY ImplementsCatalog
CHECK_DEADLOCK FALSE
