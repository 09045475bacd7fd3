CONSTANTS
  LaClients = {"k1", "k2"}
  Devices = {"c", "b1", "b2", "s"}
  DeviceOf <- MCDeviceOf
  PeerOf <- MCPeerOf
  OutOf <- MCOutOf
  LinkDelay <- MCOnes
  ByteTime <- MCOnes
  ClientSize <- MCClientSize
  ClientInterval <- MCThrees
  ClientCount <- MCThrees
  MTU = 4
  Never = 1000
SPECIFICATION LaSpec
PROPERTY NotInThePast
CHECK_DEADLOCK FALSE
