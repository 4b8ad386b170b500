---------------------------- MODULE WirevalProofs ---------------------------
(***************************************************************************)
(* Proofs about module Wireval, for every choice of the integers that are  *)
(* converted and of the widths at which they are read back.                *)
(***************************************************************************)
EXTENDS Wireval, TLAPS

(* The wires of an integer, and what reading n bits of them returns.       *)
WiresOfVal ==
  [k \in 1 .. w |-> IF val \cap Shifted(Tested(k)) # {} THEN "_1" ELSE "_0"]

Read(n) ==
  Truncated(UNION {Shifted(i) :
              i \in {j \in Positions(n) : wireval[Len(wireval) - j] = "_1"}}, n)

(* An integer is converted once, and read from its wires.                  *)
IInv ==
  /\ drops \in BOOLEAN
  /\ w \in Sizes
  /\ val \subseteq 0 .. w - 1
  /\ wireval \in {<<>>, WiresOfVal}
  /\ sz # 0 => sz \in Sizes /\ wireval = WiresOfVal /\ ret = Read(sz)

LEMMA Invariance == Spec => []IInv
<1>1. Init => IInv
  BY WirevalAssumption DEF Init, IInv
<1>2. IInv /\ [Next]_vars => IInv'
  <2> SUFFICES ASSUME IInv, [Next]_vars PROVE IInv'
    OBVIOUS
  <2>1. UNCHANGED <<drops, w, val>> => WiresOfVal' = WiresOfVal
    BY DEF WiresOfVal, Shifted, Extended, Tested
  <2>2. CASE ToWireval
    <3>1. wireval' = WiresOfVal /\ sz = 0 /\ UNCHANGED <<drops, w, val, sz>>
      <4>1. Len(<<>>) = 0 /\ WiresOfVal # <<>> /\ wireval = <<>>
        BY <2>2, WirevalAssumption DEF ToWireval, WiresOfVal, IInv
      <4> QED
        BY <2>2, <4>1 DEF ToWireval, WiresOfVal, IInv
    <3> QED
      BY <2>1, <3>1 DEF IInv
  <2>3. ASSUME NEW n \in Sizes, FromWireval(n) PROVE IInv'
    <3>1. UNCHANGED <<drops, w, val, wireval>> /\ sz' = n /\ ret' = Read(n)
      BY <2>3 DEF FromWireval, Read
    <3>2. Read(n)' = Read(n)
      BY <3>1 DEF Read, Shifted, Extended, Positions, Truncated
    <3>3. wireval = WiresOfVal
      BY <2>3 DEF FromWireval, IInv
    <3> QED
      BY <2>1, <3>1, <3>2, <3>3 DEF IInv
  <2>4. CASE UNCHANGED vars
    <3>1. UNCHANGED <<drops, w, val, wireval, sz, ret>>
      BY <2>4 DEF vars
    <3>2. Read(sz)' = Read(sz)
      BY <3>1 DEF Read, Shifted, Extended, Positions, Truncated
    <3> QED
      BY <2>1, <3>1, <3>2 DEF IInv
  <2> QED
    BY <2>2, <2>3, <2>4 DEF Next
<1> QED
  BY <1>1, <1>2, PTL DEF Spec

-----------------------------------------------------------------------------
(* What the shifted ones are: below 32 the bit itself, but for bit 31,     *)
(* which becomes the upper half; from 32 on nothing, or those of 32 less.  *)
LEMMA ShiftedBits ==
  ASSUME NEW j \in 0 .. 63
  PROVE  /\ j < 31 => Shifted(j) = {j}
         /\ j = 31 => Shifted(j) = 31 .. 63
         /\ j >= 32 => Shifted(j) \in {{}, {j - 32}, 31 .. 63}
         /\ j \in 32 .. 62 => Shifted(j) \in {{}, {j - 32}}
<1>1. CASE j < 32
  BY <1>1 DEF Shifted, Extended
<1>2. CASE j >= 32
  <2>1. j % 32 = j - 32
    BY <1>2
  <2>2. Shifted(j) = IF drops THEN {} ELSE Extended(j - 32)
    BY <1>2, <2>1 DEF Shifted
  <2> QED
    BY <1>2, <2>2 DEF Extended
<1> QED
  BY <1>1, <1>2

(* Bit i comes back if the ones of some wire cover it.                     *)
LEMMA ReadBits ==
  ASSUME IInv, sz # 0, NEW i \in 0 .. sz - 1
  PROVE  i \in ret <=>
           \E j \in 0 .. sz - 1 : j < w /\ val \cap Shifted(j) # {} /\ i \in Shifted(j)
<1>1. sz \in {8, 16, 32, 64} /\ w \in {8, 16, 32, 64}
  BY WirevalAssumption DEF IInv
<1>2. wireval = WiresOfVal /\ ret = Read(sz)
  BY DEF IInv
<1>3. Len(wireval) = w
  BY <1>1, <1>2 DEF WiresOfVal
<1>4. \A j \in 0 .. w - 1 : wireval[w - j] = "_1" <=> val \cap Shifted(j) # {}
  <2> SUFFICES ASSUME NEW j \in 0 .. w - 1
               PROVE  wireval[w - j] = "_1" <=> val \cap Shifted(j) # {}
    OBVIOUS
  <2>1. w - j \in 1 .. w /\ w - (w - j) = j
    BY <1>1
  <2>2. wireval[w - j] = IF val \cap Shifted(j) # {} THEN "_1" ELSE "_0"
    BY <1>2, <2>1 DEF WiresOfVal, Tested
  <2> QED
    BY <2>2
<1>5. Positions(sz) = {j \in 0 .. sz - 1 : j < w}
  BY <1>3 DEF Positions
<1>6. i \in ret <=> \E j \in Positions(sz) : wireval[w - j] = "_1" /\ i \in Shifted(j)
  BY <1>2, <1>3 DEF Read, Truncated
<1>7. \A j \in Positions(sz) : j \in 0 .. w - 1
  BY <1>1, <1>5
<1> QED
  BY <1>4, <1>5, <1>6, <1>7

-----------------------------------------------------------------------------
(* Of the bits that a reading has, to_wireval and wireval_un keep those    *)
(* below 31 whatever the widths, and bit 31 if the integer and the reading *)
(* have at most 32: whatever the integer is, and whatever the build makes  *)
(* of the undefined shifts.                                                *)
THEOREM BitsSurvive == Spec => []RoundTrip
<1>1. IInv => RoundTrip
  <2> SUFFICES ASSUME IInv, sz # 0, NEW i \in 0 .. sz - 1,
                      i < 31 \/ (sz <= 32 /\ w <= 32)
               PROVE  i \in ret <=> i \in val
    BY DEF RoundTrip
  <2>1. sz \in {8, 16, 32, 64} /\ w \in {8, 16, 32, 64} /\ val \subseteq 0 .. w - 1
    BY WirevalAssumption DEF IInv
  <2>2. ASSUME i \in val PROVE i \in ret
    <3>1. i \in 0 .. 63 /\ i < w /\ i < 32
      BY <2>1, <2>2
    <3>2. i \in Shifted(i)
      BY <3>1, ShiftedBits
    <3> QED
      BY <2>1, <2>2, <3>1, <3>2, ReadBits
  <2>3. ASSUME i \in ret PROVE i \in val
    <3>1. PICK j \in 0 .. sz - 1 : j < w /\ val \cap Shifted(j) # {} /\ i \in Shifted(j)
      BY <2>3, ReadBits
    <3>2. j \in 0 .. 63
      BY <2>1, <3>1
    <3>3. Shifted(j) = {i} \/ Shifted(j) = 31 .. 63
      BY <3>1, <3>2, ShiftedBits
    <3>4. CASE Shifted(j) = {i}
      BY <3>1, <3>4
    <3>5. CASE Shifted(j) = 31 .. 63
      <4>1. i >= 31 /\ sz <= 32 /\ w <= 32
        BY <3>1, <3>5
      <4>2. i = 31
        BY <2>1, <4>1
      <4>3. val \cap 31 .. 63 \subseteq {31}
        BY <2>1, <4>1
      <4> QED
        BY <3>1, <3>5, <4>2, <4>3
    <3> QED
      BY <3>3, <3>4, <3>5
  <2> QED
    BY <2>2, <2>3
<1> QED
  BY <1>1, Invariance, PTL

(* wireval_u64 makes the bits from 31 on all equal: the upper half of a    *)
(* 64-bit integer never survives.                                          *)
THEOREM UpperHalfIsLost == Spec => []UpperHalfIsSign
<1>1. IInv => UpperHalfIsSign
  <2> SUFFICES ASSUME IInv, sz = 64
               PROVE  ret \cap 31 .. 63 = IF val \cap 31 .. 63 = {} THEN {} ELSE 31 .. 63
    BY DEF UpperHalfIsSign
  <2>1. w \in {8, 16, 32, 64} /\ val \subseteq 0 .. w - 1
    BY WirevalAssumption DEF IInv
  <2>2. ASSUME NEW i \in 31 .. 63, i \in ret PROVE val \cap 31 .. 63 # {}
    <3>1. PICK j \in 0 .. sz - 1 : val \cap Shifted(j) # {} /\ i \in Shifted(j)
      <4>1. sz # 0 /\ i \in 0 .. sz - 1
        OBVIOUS
      <4> QED
        BY <2>2, <4>1, ReadBits
    <3>2. Shifted(j) = {i} \/ Shifted(j) = 31 .. 63
      BY <3>1, ShiftedBits
    <3> QED
      BY <2>2, <3>1, <3>2
  <2>3. ASSUME NEW i \in 31 .. 63, NEW x \in val, x \in 31 .. 63 PROVE i \in ret
    <3>1. 31 < w
      BY <2>1, <2>3
    <3>2. i \in Shifted(31) /\ val \cap Shifted(31) # {}
      <4>1. Shifted(31) = 31 .. 63
        BY ShiftedBits
      <4> QED
        BY <2>3, <4>1
    <3>3. sz # 0 /\ i \in 0 .. sz - 1 /\ 31 \in 0 .. sz - 1
      OBVIOUS
    <3> QED
      BY <3>1, <3>2, <3>3, ReadBits
  <2> QED
    BY <2>2, <2>3
<1> QED
  BY <1>1, Invariance, PTL
=============================================================================
