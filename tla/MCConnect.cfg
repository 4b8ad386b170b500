SPECIFICATION ScheduleSpec
CONSTANTS
  s = s
  t = t
  r = r
  d1 = d1
  d2 = d2
  d3 = d3
  NoPort = NoPort
  NoCallback = NoCallback
  Port = {s, t, r, d1, d2, d3}
  Callback = {}
  Type <- MCType
  Dir <- MCDir
  Width <- MCWidth
  Links = {}
  DriveCalls = {}
  SensCalls = {}
  MaxConnected = 8
  Request <- Requests
INVARIANTS
  ForgottenInCrowd
  NoRequestRepeated
  CountsSharers
PROPERTIES
  SecondEraseMisses
  RequestsServed
CHECK_DEADLOCK FALSE
