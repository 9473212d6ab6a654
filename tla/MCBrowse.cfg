SPECIFICATION FairSpec
CONSTANTS
  Ids = {0, 1, 2, 3, 4, 5}
  Root = 0
  Catalogs <- SomeCatalogs
  Clients = {tv}
  Wanted <- SomeWanted
  Bad = Bad
  MaxPublish = 3
CHECK_DEADLOCK FALSE
INVARIANTS
  TypeOK
  PagesAgree
PROPERTY
  CacheCatchesUp
