SPECIFICATION Spec
CONSTANTS
  Objects <- HomeTables
  Calls <- TableCalls
  Lower <- Capitals
  MaxObjects = 2
  MaxChanges = 1
INVARIANTS
  TablesAsDefined
