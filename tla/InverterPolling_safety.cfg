CONSTANTS
  pv = pv
  battery = battery
  dc = dc
  ac = ac
  mpp1 = mpp1
  mpp2 = mpp2
  acPower = acPower
  Devices = {pv, battery}
  Commands = {dc, ac}
  Plan <- MCPlan
  Keys = {mpp1, mpp2, acPower}
  Carries <- MCCarries
  Mpp1 = mpp1
  Login = login
  Masked = {dc, login}
  Accepts = {pv, battery}
  Volatile = {battery}
  LoginTokens = TRUE
  DayInterval = 1
  NightInterval = 2
  MaxElapsed = 3
  PidRounds = 2
  Answers = {"zero", "unsent"}
  Prompt = FALSE
SPECIFICATION Spec
INVARIANT TypeOK
INVARIANT TokensCurrent
INVARIANT LoginTokensShortLived
INVARIANT SettledWhenQuiet
PROPERTY NoStaleReading
PROPERTY DerivedFromAnswers
PROPERTY RoundsSpec
