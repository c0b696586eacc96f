SPECIFICATION Spec
CONSTANTS
  Dirs = {A, B, C}
  Ports = {1, 2}
  Names = {x}
  None = None
  Clients = {c1, c2}
  Ops = {"deploy", "standby", "start", "stop", "restart", "promote", "publish"}
  Faults = {"cli", "child", "slow"}
  Disciplined = TRUE
  PortBase = 1
  PortRange = 2
  Asked = {}
  MaxCalls = 6
SYMMETRY Symmetry
INVARIANT InRecoveryHasSlot
PROPERTY OnlyOwnSlotDropped
PROPERTY OwnServersOnly
CHECK_DEADLOCK FALSE
