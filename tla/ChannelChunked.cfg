\* ResponseType::Chunked: hyper polls the body while PHP writes.
CONSTANTS
  Data <- MCData
  MaxFrames = 3
  Streaming = TRUE
SPECIFICATION Spec
INVARIANTS
  Fifo
  NoLostWakeup
PROPERTIES
  BodyEnds
  ChunkDelivered
\* The writer finishes and the reader ends or drops the body: the system stops.
CHECK_DEADLOCK FALSE
