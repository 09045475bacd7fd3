CONSTANTS
  Types = {0, 1}
  Lookaheads = {1, 2}
  Forever = 99
  Cpu = Cpu
  None = None
  WarpSize = 1
  QueueLength = 2
  Threads = {0, 1}
  HonestLookahead = TRUE
  InitialEvents <- MCInitialEvents
  MaxTs = 3
  MaxEvents = 5
SPECIFICATION FairSpec
INVARIANTS TypeOK EachEventInOnePlace NoStraggler KernelOwnsItsBuffers
PROPERTIES ImplementsDes Termination
