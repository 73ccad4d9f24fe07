\* One request: its future and its PHP thread against each other.
CONSTANTS
  Data <- MCData
  MaxFrames = 2
SPECIFICATION Spec
INVARIANTS
  TypeOK
  FullBodyComplete
  GatherAfterFinish
  HeadersWithBody
  AbortOnlyIfGone
  ErrorHasCause
  ContextOwnership
  NobodyWaitsInVain
PROPERTIES
  FitsServer
  ImplementsExchange
  Answered
  ThreadReturns
\* The response is sent and the thread returns: the system stops.
CHECK_DEADLOCK FALSE
