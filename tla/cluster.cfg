SPECIFICATION FairClusterSpec
CONSTANTS
  A = A
  B = B
  C = C
  c1 = c1
  c2 = c2
  Dirs = {A, B, C}
  Ports = {1, 2, 3, 4}
  Names = {A, B, C}
  None = None
  Clients = {c1, c2}
  Ops = {"stop", "destroy", "promote"}
  Faults = {"cli", "server", "slow", "rm", "reboot"}
  Disciplined = TRUE
  PortBase = 1
  PortRange = 3
  Asked = {2}
  MaxCalls = 4
  Members <- ThreeMembers
  Conductor = c1
  OnPath = FALSE
INVARIANT ClusterTypeOK
INVARIANT ManifestListsRemains
INVARIANT MemberPortsIncrease
PROPERTY DeployOkMeansAttached
PROPERTY ClusterLeavesNoStray
PROPERTY PrimaryGoesLast
PROPERTY ManifestOutlivesSandboxes
PROPERTY ClusterCommandReturns
CHECK_DEADLOCK FALSE
