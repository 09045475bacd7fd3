CONSTANTS
  Packets = {p1, p2, p3, p4}
  Completion = Completion
  None = None
  m_queueSize = 2
  UintModulus = 256
  MaxKernels = 6
  Tids = {1, 2}
  c1 = c1
  Clients = {c1, c2}
  Unreachable = {c2}
  SizeOf <- MCSizeOf
  PerThread = 2
  QueueCapacity = 1
  m_rcvBufSize = 1
  WordSize = 64
  NoPacket = NoPacket
  MaxPoolKernels = 4
  Ports = {q1, q2, q3}
  Stations = {s1, s2}
  Nobody = Nobody
  BridgeThreads = {1, 2}
  MaxEntries = 2
  MaxBridgeKernels = 3
  UidValid = 1
  UidOffset = 4
  MaxDelay = 1
  MaxCreated = 3
  BytesOf <- MCBytes
  MaxQueue = 5
  Mtu = 3
  PppHeader = 1
  Delay = 1
  m_tInterframeGap = 1
  m_minLimit = 0
  m_maxLimit = 4
  Word = 16
  Buffers = {1, 2}
  MaxZeroes = 1
  MaxLength = 3
  Slack = 0
  MaxOps = 5
  TagLists = {1, 2}
  Kinds = {1, 2, 3}
  MaxTagOps = 7
  BytePackets = {1, 2}
  MaxSize = 3
  MaxByteOps = 4
  Subnets = {{1}, {1, 2}, {1, 2, 3}}
  NetDevices = {v1, v2}
  DeviceMacs = {w1, w2}
  Priorities = {0, 1}
  RouteCapacity = 2
  MAX_CACHE_SIZE = 3
  NoRoute = NoRoute
  SegmentSize = 2
  RetxThresh = 2
  CongWindows = {2, 6}
  MaxBytes = 5
  MaxTimeouts = 1
  LaClients = {"k1", "k2"}
  Devices = {"c", "b1", "b2", "s"}
  DeviceOf <- MCDeviceOf
  PeerOf <- MCPeerOf
  OutOf <- MCOutOf
  LinkDelay <- MCOnes
  ByteTime <- MCOnes
  ClientSize <- MCClientSize
  ClientInterval <- MCThrees
  ClientCount <- MCThrees
  MTU = 4
  Never = 1000
SPECIFICATION DeviceSpec
INVARIANTS TypeOK BusyMeansOneCompletion AtMostOnce ApartAllTransmitted DeviceTypesOK
  PacketsAccounted LearnedAndForwarded SchedulerConsistent LinkFlows BuffersSound AllTagsSound
  LookupsRight ScoreboardSound EarlyOnlyAtHome
PROPERTIES CancelledNeverRuns
