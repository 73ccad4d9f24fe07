\* The client leaves during pasir_finish_request.
CONSTANTS
  Data <- MCData
  MaxFrames = 2
SPECIFICATION Spec
PROPERTIES
  DeactivateReturns
\* The response is sent and the thread returns: the system stops.
CHECK_DEADLOCK FALSE
