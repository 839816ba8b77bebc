CONSTANTS
  pv = pv
  battery = battery
  dc = dc
  ac = ac
  mpp1 = mpp1
  mpp2 = mpp2
  acPower = acPower
  Devices = {pv, battery}
  Commands = {dc, ac}
  Plan <- MCPlan
  Keys = {mpp1}
  Carries <- MCCarries
  Mpp1 = mpp1
  Login = login
  Masked = {dc, login}
  Accepts = {pv, battery}
  Volatile = {}
  LoginTokens = FALSE
  DayInterval = 2
  NightInterval = 3
  MaxElapsed = 4
  PidRounds = 2
  Answers = {"zero", "error"}
  Prompt = TRUE
SPECIFICATION PromptSpec
PROPERTY EveryRoundDerived
