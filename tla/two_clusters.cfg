SPECIFICATION Spec
CONSTANTS
  other = other
  A = A
  B = B
  None = None
  Machines = {cp, w, other}
  ControlPlanes = {cp, other}
  Clusters = {A, B}
  ClusterOf <- TwoClusters
  NamespaceOf <- OwnNamespace
  Servers = {s1, s2}
  UserData = {u1}
  Events = {"readError", "getError", "outOfStock", "lateCluster"}
SYMMETRY IDs
INVARIANTS
  FailedByOwnCluster
  ReadyHasProviderID
  NoLostWakeup
PROPERTIES
  SettledKeepsServer
CHECK_DEADLOCK FALSE
