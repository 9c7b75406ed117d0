SPECIFICATION Spec
CONSTANTS
  Callers = {c1, c2}
  Databases <- Names
  Existing <- Real
  Dsns <- Urls
  MaxPools = 3
INVARIANTS
  TypeOK
  RightDatabase
  OnePoolEach
PROPERTIES
  ErrorsAreCurrent
  ImplementsCache
CHECK_DEADLOCK FALSE
