\* One call, end to end, for every legal quantity and both backends.
CONSTANTS
  Backends <- MCBackends
  Requests <- MCRequests
  ExceptionCodes = {1, 2, 3, 11, 12}
  IdLength = 10
SPECIFICATION ExchangeSpec
INVARIANTS
  RequestFramed
  ResponseFramed
  FramesFitAdu
  AnswerAccepted
  ExceptionReported
\* A call ends.
CHECK_DEADLOCK FALSE
