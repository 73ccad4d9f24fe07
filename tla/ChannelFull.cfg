\* ResponseType::Full: the body is collected after abort() has returned.
CONSTANTS
  Data <- MCData
  MaxFrames = 3
  Streaming = FALSE
SPECIFICATION Spec
INVARIANTS
  TypeOK
  NoTruncation
PROPERTIES
  ImplementsBodyStream
\* The writer finishes and the reader ends or drops the body: the system stops.
CHECK_DEADLOCK FALSE
