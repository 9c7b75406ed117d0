SPECIFICATION Spec
CONSTANTS
  Docs <- AllDocs
  Junk <- AllJunk
  Separators <- Gaps
  MaxWrites = 3
  ReadSize = 3
  MaxBuffer = 14
  Valid <- AllDocs
INVARIANTS
  TypeOK
  LossIsReported
PROPERTIES
  FramesMessages
