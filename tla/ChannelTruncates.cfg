\* ResponseType::Chunked: the last frame and the end race with one poll_frame.
CONSTANTS
  Data <- MCData
  MaxFrames = 2
  Streaming = TRUE
SPECIFICATION Spec
INVARIANTS
  NoTruncation
CHECK_DEADLOCK FALSE
