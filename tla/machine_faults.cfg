SPECIFICATION Spec
CONSTANTS
  None = None
  Machines = {cp}
  ControlPlanes = {cp}
  Clusters = {A}
  ClusterOf <- OneCluster
  NamespaceOf <- OneNamespace
  Servers = {s1, s2}
  UserData = {u1, u2}
  Events = {"crash", "patchError", "apiError", "lostReply", "emptyReply", "outOfStock", "externalDelete", "noAddress", "delete", "pause", "lateOwner"}
SYMMETRY IDs
INVARIANTS
  TypeOK
  ReleasedServer
  ServerBootsRecordedUserData
  NoLostWakeup
PROPERTIES
  SettledGetsNoServer
  DroppedServerIsGone
  KeepsContract
CHECK_DEADLOCK FALSE
