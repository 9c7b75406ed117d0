SPECIFICATION FairSpec
CONSTANTS
  Databases <- Names
  Existing <- Names
  Dsns <- Urls
  MaxPools = 6
  NoDsn = NoDsn
  Environments <- Starts
  Requests <- Asked
  MaxMessages = 2
  MaxHandlers = 2
  Capacity = 1
INVARIANTS
  TypeOK
  InMessageOrder
PROPERTIES
  ImplementsService
  EveryCallAnswered
