SPECIFICATION FairSpec
CONSTANTS
  None = None
  Machines = {cp}
  ControlPlanes = {cp}
  Clusters = {A}
  ClusterOf <- OneCluster
  NamespaceOf <- OneNamespace
  Servers = {s1, s2}
  UserData = {u1, u2}
  Events = {"apiError", "outOfStock", "noAddress", "delete", "pause", "lateOwner", "vlan", "badSubnet"}
INVARIANTS
  NoOrphan
  UserDataCreatedOnce
PROPERTIES
  Settles
  DeletionCompletes
CHECK_DEADLOCK FALSE
