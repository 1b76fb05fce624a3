\* A server on a noisy serial line, a TCP client and a client on a noisy serial
\* line, each with the recovery modes advised for it.
CONSTANTS
  Modes <- MCModes
SPECIFICATION FairSpec
INVARIANTS
  BufferBound
  NoReadPastFrame
  ReturnsWholeFrame
  StartsOnBoundary
PROPERTY
  CallReturns
\* A server waits for ever once the client has sent its last request.
CHECK_DEADLOCK FALSE
