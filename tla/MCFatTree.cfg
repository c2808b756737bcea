CONSTANTS
  Folder = {"c0", "c1", "c2", "c3"}
  Root = "c0"
  Name = {"long", "longer", "a1", "a2"}
  Alias <- MCAlias
  PerCluster = 3
  LongSlots = 2
  Clusters = 4
  Path <- MCPath
  MaxCalls = 5
SPECIFICATION Spec
INVARIANTS TypeOK NamesUnique TreeIntact ListingComplete
