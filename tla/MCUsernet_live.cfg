SPECIFICATION FairSpec
CONSTANTS
  SeqMod = 16
  Irs = 14
  Iss = 15
  ReceiveBuffer = 1
  ReadChunk = 1
  Mss = 1
  MaxRetransmits = 1
  ClientWindow = 1
  MaxUp = 2
  MaxDown = 1
  MaxFault = 0
  MaxPause = 1
  MaxQueue = 1
PROPERTIES FlowEnds WindowReopens
CHECK_DEADLOCK FALSE
