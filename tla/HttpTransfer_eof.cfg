CONSTANTS
  Responses <- MCResponses
  InitialBuffer = 8
  Reserve = 4
  ReallocMayFail = FALSE
  FinReports = {"pollin"}
SPECIFICATION FairSpec
PROPERTY TransferEnds
