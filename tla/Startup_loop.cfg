CONSTANTS
  Devices = {"emeter", "pv", "battery"}
  PreRegistered = {"pv", "battery"}
  Required = {"emeter", "pv", "battery"}
  Reliable = {"pv"}
  Wakeable = {"pv", "battery"}
  NoDevice = "none"
  Responses <- MCResponses
  InitialBuffer = 2
  Reserve = 1
  ReallocMayFail = TRUE
  FinReports = {"pollin"}
SPECIFICATION FairSpec
INVARIANT TypeOK
INVARIANT WokenIsFound
PROPERTY LoopIsEntered
\* The main loop is the end of the startup.
CHECK_DEADLOCK FALSE
