SPECIFICATION Spec
CONSTANTS
  Docs <- FewDocs
  Junk <- Unclosing
  Separators <- Lines
  MaxWrites = 3
  ReadSize = 3
  MaxBuffer = 14
  Valid <- FewDocs
INVARIANTS
  EveryDocPassed
