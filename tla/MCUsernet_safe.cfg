SPECIFICATION Spec
CONSTANTS
  SeqMod = 16
  Irs = 14
  Iss = 15
  ReceiveBuffer = 1
  ReadChunk = 1
  Mss = 1
  MaxRetransmits = 1
  ClientWindow = 2
  MaxUp = 2
  MaxDown = 2
  MaxFault = 1
  MaxPause = 0
  MaxQueue = 1
INVARIANTS TypeOK UpstreamExact DownstreamUndisturbed SocketOwned
PROPERTIES WithinWindow
CHECK_DEADLOCK FALSE
