SPECIFICATION Spec
CONSTANTS
  Originator = orig
  Answerer = ans
  Mod = 3
  Window <- Both2
  N401 <- Both1
  Compression <- BothFalse
  PollAfter = 1
  RetransmitAfter = 2
  N400 = 1
  Reestablish = 1
  InactivityAfter = 0
  MaxSend <- Orig1Ans3
  MaxLoss = 1
  MaxDisturb = 1
  MaxBusy = 1
  MaxQueue = 3
  PromptLine = TRUE
INVARIANTS TypeOK WindowExact NoDuplicateNoReorder
PROPERTIES HoldSpendsNothing AckIsTruthful
