\* A Context is lost.
CONSTANTS
  Data <- MCData
  MaxFrames = 2
SPECIFICATION Spec
INVARIANTS
  ContextReleased
\* The response is sent and the thread returns: the system stops.
CHECK_DEADLOCK FALSE
