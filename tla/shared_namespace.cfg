SPECIFICATION Spec
CONSTANTS
  other = other
  A = A
  B = B
  None = None
  Machines = {cp, w, other}
  ControlPlanes = {cp, other}
  Clusters = {A, B}
  ClusterOf <- TwoClusters
  NamespaceOf <- OneNamespace
  Servers = {s1, s2}
  UserData = {u1, u2, u3}
  Events = {"outOfStock"}
SYMMETRY IDs
INVARIANTS
  FailedByOwnCluster
CHECK_DEADLOCK FALSE
