SPECIFICATION CitrinoSpec
CONSTANTS
  mem_out = mem_out
  mem_in = mem_in
  mem_clk = mem_clk
  cpu_out = cpu_out
  cpu_clk = cpu_clk
  cback = cback
  NoPort = NoPort
  NoCallback = NoCallback
  Port <- CitrinoPorts
  Callback = {cback}
  Type <- CitrinoType
  Dir <- CitrinoDir
  Width <- CitrinoWidth
  Links = {}
  DriveCalls <- CitrinoDrives
  SensCalls = {}
  MaxConnected = 1
  Request <- CitrinoRequests
  Modules <- CitrinoModules
  DirectLinks <- NoLinks
  Scheduled <- CitrinoScheduled
  Sensitivity <- CitrinoSensitivity
  UpdateScripts <- CitrinoUpdates
  CallbackScripts <- CitrinoCallbacks
  SubMod = 256
  CycleMod = 4
INVARIANTS
  ClockDelivered
  InIsUnknown
  ThreePasses
PROPERTY
  ClockTicks
