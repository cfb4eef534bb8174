SPECIFICATION Spec
CONSTANTS
  d = d
  None = None
  Clusters = {c}
  DescriptionOf <- OwnName
  VLANs = {v0, v1, v2}
  Foreign = {v0}
  Hosts = {h1}
  HostOf <- OneControlPlane
  Events = {"staleCache", "crash", "patchError", "apiError", "lostReply", "externalDelete", "hostGone", "delete", "invalid", "lateOwner"}
SYMMETRY IDs
INVARIANTS
  TypeOK
  ReadyHasVLAN
  VIDOfVLAN
  OneVLANPerDescription
  NoLostWakeup
CHECK_DEADLOCK FALSE
