SPECIFICATION Spec
CONSTANTS
  Originator = orig
  Answerer = ans
  Mod = 3
  Window <- Both2
  N401 <- Both1
  Compression <- BothFalse
  PollAfter = 1
  RetransmitAfter = 2
  N400 = 1
  Reestablish = 1
  InactivityAfter = 3
  MaxSend <- Orig0Ans3
  MaxLoss = 1
  MaxDisturb = 0
  MaxBusy = 0
  MaxQueue = 3
  PromptLine = FALSE
INVARIANTS NoDuplicateNoReorder
