CONSTANTS
  Types = {0, 1}
  Lookaheads = {1, 2}
  Forever = 99
  Cpu = Cpu
  None = None
  WarpSize = 1
  QueueLength = 2
  Threads = {0, 1}
  HonestLookahead = FALSE
  InitialEvents <- MCInitialEvents
  MaxTs = 3
  MaxEvents = 5
SPECIFICATION Spec
INVARIANTS CountersAgree
PROPERTIES ClockNeverGoesBack
