CONSTANTS
  pv = pv
  battery = battery
  dc = dc
  ac = ac
  mpp1 = mpp1
  mpp2 = mpp2
  acPower = acPower
  Devices = {pv, battery}
  Commands = {dc, ac}
  Plan <- MCPlan
  Keys = {mpp1, acPower}
  Carries <- MCCarries
  Mpp1 = mpp1
  Login = login
  Masked = {dc, login}
  Accepts = {pv, battery}
  Volatile = {}
  LoginTokens = FALSE
  DayInterval = 1
  NightInterval = 2
  MaxElapsed = 3
  PidRounds = 2
  Answers = {"zero", "power"}
  Prompt = FALSE
SPECIFICATION SpecDark
PROPERTY NightModeLasts
