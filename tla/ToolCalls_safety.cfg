SPECIFICATION Spec
CONSTANTS
  PrefixFlags <- AnyPrefix
  Arguments <- AllArguments
  MaxRows = 2
  MaxSequences = 2
INVARIANTS
  TypeOK
  ListedToolsWork
  ReadOnlyRefuses
  PreviewNeverExecutes
  WritesOnce
  PreviewIsWhole
