SPECIFICATION Spec
CONSTANTS
  Sizes = {8, 16, 32, 64}
  Integer <- Integers8to64
CHECK_DEADLOCK FALSE
INVARIANTS
  RoundTrip
  UpperHalfIsSign
