SPECIFICATION Spec
CONSTANT Modules = 3
CHECK_DEADLOCK FALSE
INVARIANTS
  TypeOK
  NoFault
  ListIsHonest
  WrapperIsSafe
PROPERTIES
  AllJoinedApart
  MainCycles
