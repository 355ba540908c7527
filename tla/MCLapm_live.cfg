SPECIFICATION FairSpec
CONSTANTS
  Originator = orig
  Answerer = ans
  Mod = 3
  Window <- Orig1Ans2
  N401 <- Orig2Ans1
  Compression <- BothTrue
  PollAfter = 1
  RetransmitAfter = 2
  N400 = 1
  Reestablish = 1
  InactivityAfter = 0
  MaxSend <- Orig1Ans2
  MaxLoss = 1
  MaxDisturb = 0
  MaxBusy = 1
  MaxQueue = 3
  PromptLine = TRUE
INVARIANTS NegotiatedAlike DictionariesAgree
PROPERTIES EstablishmentEnds NothingStuck
