SPECIFICATION PortSpec
CONSTANTS
  s = s
  d1 = d1
  d2 = d2
  cb = cb
  NoPort = NoPort
  NoCallback = NoCallback
  Port = {s, d1, d2}
  Callback = {cb}
  Type <- MCType
  Dir <- MCDir
  Width <- MCWidth
  Links <- FlatTree
  DriveCalls <- Drives
  SensCalls <- Sens
  MaxConnected = 2
INVARIANTS
  PortTypeOK
  VectorsOwned
  NoDangling
  EdgeIsOfValue
  CountBounded
