SPECIFICATION Spec
CONSTANTS
  None = None
  Names <- FewNames
  Half <- Int16
  Subnets <- FewSubnets
  VIDs = {0, 2011}
  Documents <- FewDocuments
INVARIANTS
  TypeOK
  AddressUsable
  HashOfName
  CommandRunsFirst
