SPECIFICATION Spec
CONSTANTS
  Live = TRUE
  Delay = 1
  EventArm = 1
  SegmentScan = 1
  MaxReported = 4
  MaxLive = 20
  FirstTryDelay = 1
  SearchTail = 2
  RetryFrames = 2
  MaxAttempts = 3
  Heard <- MCHeard
  HeardBy = 1
  MaxFrames = 9
  MaxResets = 0
INVARIANTS UpstreamStaysActive
CHECK_DEADLOCK FALSE
