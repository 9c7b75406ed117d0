SPECIFICATION Spec
CONSTANTS
  Objects <- TriggerPool
  Calls <- TriggerCalls
  Lower <- Capitals
  MaxObjects = 2
  MaxChanges = 1
INVARIANTS
  TriggersAsDefined
