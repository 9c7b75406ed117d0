SPECIFICATION FairSpec
CONSTANTS
  Messages <- AllShapes
  MaxMessages = 3
  MaxHandlers = 2
  ReadsResponses = TRUE
INVARIANTS
  TypeOK
  NothingSkipped
  InOrder
  OneReplyEach
  PanicNeedsStop
PROPERTIES
  ParkedIsSafe
  ImplementsSession
  EventuallyDelivered
  ShutdownCompletes
