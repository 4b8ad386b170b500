SPECIFICATION AssignSpec
CONSTANTS
  reg = reg
  net = net
  tap = tap
  inp = inp
  cb = cb
  NoPort = NoPort
  NoCallback = NoCallback
  Port = {reg, inp, tap, net}
  Callback = {cb}
  Type <- MCType
  Dir <- MCDir
  Width <- MCWidth
  Links <- MCLinks
  DriveCalls <- Drives
  SensCalls <- Sens
  MaxConnected = 1
  AssignCalls <- Assigns
  CondCalls <- Conds
  MaxAssigns = 2
CHECK_DEADLOCK FALSE
INVARIANTS
  AssignTypeOK
  ConstHoldsWhileLast
  InBounds
  AnnouncedByNumber
  OwnerOrAssigner
  InputsNeverDrive
