SPECIFICATION Spec
CONSTANTS
  Objects <- AnyObject
  Calls <- AnyCall
  Lower <- Capitals
  MaxObjects = 3
  MaxChanges = 2
INVARIANTS
  TypeOK
  ListsWhatIsThere
  SortedByName
  ListedIsDescribed
  ErrorsHaveCauses
