CONSTANTS
  MaxWrites <- MCWrites
  SynRetries = 1
  DataRetries = 1
  Window = 2
  Overtake = 0
  MaxLosses = 1
  MaxForks = 1
  MayShutdown = TRUE
  Neighbours = {n1, n2}
  AliveTimeout = 2
  DeadTimeout = 0
  WaitReplyTimeout = 1
  m_maxRetries = 1
  m_pendingQueueSize = 1
  MaxIpPackets = 2
  Macs = {m1, m2}
  NoMac = NoMac
  m_maxMulticastSolicit = 2
  m_maxUnicastSolicit = 2
  m_unresQlen = 2
  MaxIp6Packets = 3
  IpLengths <- MCLengths
  FragmentSize = 2
  SmallSize = 1
  IdBits = 1
  m_fragmentExpirationTimeout = 2
  MaxCopies = 2
  MaxIpTime = 2
  Hashes = {h1, h2, h3}
  m_expire = 2
  m_purge = 3
  MaxDupTime = 12
  UdpSocks = {us1, us2}
  NetIfs = {if1, if2}
  NoDev = NoDev
  m_portFirst = 5
  m_portLast = 6
  FixedPorts = {6}
  UdpRcvBuf = 2
  MaxUdpOps = 5
  ra = ra
  rb = rb
  rc = rc
  Routers = {ra, rb, rc}
  Links <- MCLinks
  Owner = ra
  m_linkDown = 3
  Strategy = "POISON_REVERSE"
  Distance <- MCDistance
  MaxInFlight = 1
  MaxFlaps = 1
  ObjectSizes = {1, 4}
  MaxEmbedded = 2
  HeaderSize = 2
  SizeModulus = 16
  TxRoom = 7
  RxRoom = 6
  MaxPages = 3
  rd = rd
  lan = lan
  SpfRouters = {ra, rb, rc, rd}
  Networks = {lan}
  Root = ra
  RecordOrder <- MCRecordOrder
  Topologies <- MCTopologies
SPECIFICATION InternetSpec
INVARIANTS InternetTypesOK DataSafe FinishedMeansAll EveryWaitEnds ResolutionEnds
  ReassemblySound DuplicatesFound RoutesSettle PagesComplete EndPointsRight RoutesShortest
CHECK_DEADLOCK FALSE
