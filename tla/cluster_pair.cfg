SPECIFICATION Spec
CONSTANTS
  d = d
  None = None
  Clusters = {c, d}
  DescriptionOf <- OwnName
  VLANs = {v0, v1, v2}
  Foreign = {v0}
  Hosts = {h1, h2}
  HostOf <- OneControlPlane
  Events = {"delete", "hostGone", "noVID"}
SYMMETRY IDs
INVARIANTS
  VLANInUseKept
  ForeignVLANKept
  ReleasedVLAN
PROPERTIES
  EndpointStable
CHECK_DEADLOCK FALSE
