SPECIFICATION FairSpec
CONSTANTS
  None = None
  Machines = {cp}
  ControlPlanes = {cp}
  Clusters = {A}
  ClusterOf <- OneCluster
  NamespaceOf <- OneNamespace
  Servers = {s1, s2}
  UserData = {u1, u2}
  Events = {"externalDelete", "delete"}
PROPERTIES
  DeletionCompletes
CHECK_DEADLOCK FALSE
