CONSTANTS
  ra = ra
  rb = rb
  rc = rc
  rd = rd
  lan = lan
  SpfRouters = {ra, rb, rc, rd}
  Networks = {lan}
  Root = ra
  RecordOrder <- MCRecordOrder
  Topologies <- MCTopologies
SPECIFICATION SpfSpec
INVARIANT OneExitAssumed
CHECK_DEADLOCK FALSE
