SPECIFICATION FairSpec
CONSTANTS
  None = None
  Machines = {cp}
  ControlPlanes = {cp}
  Clusters = {A}
  ClusterOf <- OneCluster
  NamespaceOf <- OneNamespace
  DescriptionOf <- OwnName
  Servers = {s1}
  UserData = {u1}
  VLANs = {v0, v1}
  Foreign = {v0}
  MachineEvents = {"delete", "noAddress"}
  ClusterEvents = {"apiError", "lostReply", "delete"}
INVARIANTS
  ReadyRunsOnVLAN
PROPERTIES
  EndpointDiscovered
  TornDown
CHECK_DEADLOCK FALSE
