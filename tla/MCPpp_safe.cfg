SPECIFICATION Spec
CONSTANTS
  Auth = "chap"
  Refuses <- RefusesNothing
  GoodPassword = TRUE
  IdMod = 4
  MaxRestarts = 2
  AuthRestarts = 2
  EchoFailures = 0
  MaxLoss = 1
  MaxReset = 1
  MaxStop = 1
  MaxQueue = 1
  PromptLine = FALSE
INVARIANTS TypeOK UpMeansAuthenticated NoAddressBeforeAuth TermsAgreed
CHECK_DEADLOCK FALSE
