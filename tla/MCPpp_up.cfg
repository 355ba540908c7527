SPECIFICATION FairSpec
CONSTANTS
  Auth = "chap"
  Refuses <- RefusesChap
  GoodPassword = TRUE
  IdMod = 16
  MaxRestarts = 2
  AuthRestarts = 2
  EchoFailures = 3
  MaxLoss = 0
  MaxReset = 0
  MaxStop = 0
  MaxQueue = 3
  PromptLine = TRUE
PROPERTIES ComesUp
