SPECIFICATION Spec
CONSTANTS
  w1 = w1
  w2 = w2
  w3 = w3
  Waiter = {w1, w2, w3}
  Notifier = n
  Nobody = Nobody
  Target <- Targets
  MaxCount = 3
CHECK_DEADLOCK FALSE
INVARIANTS
  TypeOK
  SleepsOnlyByLateReset
PROPERTY
  AnnouncedReturn
