SPECIFICATION FairSpec
CONSTANTS
  d = d
  None = None
  Clusters = {c}
  DescriptionOf <- OwnName
  VLANs = {v0, v1}
  Foreign = {v0}
  Hosts = {h1}
  HostOf <- OneControlPlane
  Events = {"apiError", "listError", "externalDelete", "delete", "edit", "invalid"}
PROPERTIES
  EndpointDiscovered
  DeletionCompletes
CHECK_DEADLOCK FALSE
