CONSTANTS
  Responses <- MCResponses
  InitialBuffer = 8
  Reserve = 4
  ReallocMayFail = TRUE
  FinReports = {"pollin", "pollhup"}
SPECIFICATION Spec
INVARIANT TypeOK
INVARIANT BufferBound
INVARIANT SocketClosed
INVARIANT NoTruncatedSuccess
INVARIANT CompleteIsReported
INVARIANT EndsWhenComplete
INVARIANT TextAgrees
INVARIANT ContentIsOriginal
