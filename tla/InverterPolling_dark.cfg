CONSTANTS
  pv = pv
  battery = battery
  dc = dc
  ac = ac
  mpp1 = mpp1
  mpp2 = mpp2
  acPower = acPower
  Devices = {pv}
  Commands = {dc}
  Plan <- DcPlan
  Keys = {mpp1, mpp2}
  Carries <- OneFragment
  Mpp1 = mpp1
  Login = login
  Masked = {dc, login}
  Accepts = {pv}
  Volatile = {}
  LoginTokens = FALSE
  DayInterval = 1
  NightInterval = 2
  MaxElapsed = 3
  PidRounds = 2
  Answers = {"zero", "error"}
  Prompt = FALSE
SPECIFICATION Spec
PROPERTY DarkInThisRound
