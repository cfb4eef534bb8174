SPECIFICATION Spec
CONSTANTS
  None = None
  Names <- TwoNames
  Half <- Int16
  Subnets <- OneSubnet
  VIDs = {2011}
  Documents <- OneDocument
INVARIANTS
  UniqueAddresses
