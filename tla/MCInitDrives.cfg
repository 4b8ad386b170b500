SPECIFICATION Spec
CONSTANTS
  r = r
  d = d
  Order <- SinkFirst
  Driver = r
  Watcher = d
  NoPort = NoPort
  Width = 2
  Drives <- TwoValues
INVARIANTS
  TypeOK
  QuietDriveHeard
PROPERTIES
  OneCallPerDrive
  ChangesBecomeOld
