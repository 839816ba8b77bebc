CONSTANTS
  pv = pv
  battery = battery
  dc = dc
  ac = ac
  mpp1 = mpp1
  mpp2 = mpp2
  acPower = acPower
  Devices = {battery}
  Commands = {dc, ac}
  Plan <- RecoveryPlan
  Keys = {mpp1}
  Carries <- MCCarries
  Mpp1 = mpp1
  Login = login
  Masked = {dc, login}
  Accepts = {battery}
  Volatile = {battery}
  LoginTokens = FALSE
  DayInterval = 1
  NightInterval = 2
  MaxElapsed = 3
  PidRounds = 2
  Answers = {"power", "garbled", "unsent"}
  Prompt = FALSE
SPECIFICATION RecoverySpec
PROPERTY RoundsKeepComing
PROPERTY SessionRecovers
