SPECIFICATION Spec
CONSTANTS
  s = s
  d = d
  e = e
  q = q
  o = o
  cb_d = cb_d
  cb_o = cb_o
  NoPort = NoPort
  NoCallback = NoCallback
  Port = {s, d, e, q, o}
  Callback = {cb_d, cb_o}
  Type <- MCType
  Dir <- MCDir
  Width <- MCWidth
  Links <- MCLinks
  DriveCalls <- Drives
  SensCalls = {}
  MaxConnected = 2
  Request <- MCRequest
  Modules <- MCModules
  DirectLinks <- MCDirect
  Scheduled <- MCScheduled
  Sensitivity <- MCSensitivity
  UpdateScripts <- MCUpdates
  CallbackScripts <- MCCallbacks
  SubMod = 256
  CycleMod = 2
INVARIANTS
  TypeOK
  Settled
  Delivered
  OnlyFirstIsCalled
PROPERTY
  KeepsPromise
