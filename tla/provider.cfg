SPECIFICATION Spec
CONSTANTS
  None = None
  Machines = {cp}
  ControlPlanes = {cp}
  Clusters = {A}
  ClusterOf <- OneCluster
  NamespaceOf <- OneNamespace
  DescriptionOf <- OwnName
  Servers = {s1, s2}
  UserData = {u1}
  VLANs = {v1}
  Foreign = {}
  MachineEvents = {"crash", "delete", "externalDelete"}
  ClusterEvents = {"crash", "apiError", "delete", "invalid"}
SYMMETRY IDs
INVARIANTS
  ReadyHasProviderID
PROPERTIES
  KeepsLifecycle
CHECK_DEADLOCK FALSE
