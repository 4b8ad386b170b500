------------------------------ MODULE Wireval -------------------------------
(***************************************************************************)
(* The conversions of wireval.h between integers and sequences of wire     *)
(* values: to_wireval, and wireval_un behind wireval_u8 ... wireval_u64.   *)
(* (wireval_sn has the same body; its result is the same bits, signed.)    *)
(*                                                                         *)
(* An integer of w bits is the set of the positions of its ones.  Both     *)
(* conversions shift the int 1, of 32 bits, to the left; where the result  *)
(* meets a 64-bit integer it is extended as a signed number, so that       *)
(* 1 << 31 becomes the bits 31 to 63.  A shift by 32 or more is undefined: *)
(* a build takes the distance modulo 32, as the shift instruction does, or *)
(* drops the bit.                                                          *)
(*                                                                         *)
(* The specification converts one integer to wires and reads it back with  *)
(* one of the reading functions.                                           *)
(***************************************************************************)
EXTENDS Integers, Sequences

CONSTANTS
  Sizes,     \* the numbers of bits of the integers that are converted and read
  Integer    \* Integer[w]: the integers of w bits that are converted

ASSUME WirevalAssumption ==
  /\ Sizes \subseteq {8, 16, 32, 64}
  /\ \A n \in Sizes : Integer[n] \subseteq SUBSET (0 .. n - 1)

VARIABLES
  drops,     \* does the build drop bits at undefined shifts?
  w,         \* number of bits of the integer
  val,       \* the integer
  wireval,   \* what to_wireval makes of it
  sz,        \* number of bits read back, 0 before
  ret        \* the integer that was read

vars == <<drops, w, val, wireval, sz, ret>>

Init ==
  /\ drops \in BOOLEAN
  /\ w \in Sizes
  /\ val \in Integer[w]
  /\ wireval = <<>>
  /\ sz = 0
  /\ ret = {}

(* The bits of 1 << i, extended to 64.                                     *)
Extended_Unsigned(i) == {i}

Extended(i) == IF i = 31 THEN 31 .. 63 ELSE {i}

Shifted(i) ==
  CASE i < 32           -> Extended(i)
    [] i >= 32 /\ drops  -> {}
    [] i >= 32 /\ ~drops -> Extended(i % 32)

(* to_wireval pushes the highest bit first.                                *)
Tested_LowFirst(k) == k - 1

Tested(k) == w - k

ToWireval ==
  /\ wireval = <<>>
  /\ wireval' = [k \in 1 .. w |-> IF val \cap Shifted(Tested(k)) # {} THEN "_1" ELSE "_0"]
  /\ UNCHANGED <<drops, w, val, sz, ret>>

(* wireval_un for n bits, and the return type of the function that uses it.*)
Positions(n) == {i \in 0 .. n - 1 : i < Len(wireval)}

Truncated(bits, n) == bits \cap 0 .. n - 1

FromWireval(n) ==
  /\ wireval # <<>>
  /\ sz = 0
  /\ sz' = n
  /\ ret' = Truncated(UNION {Shifted(i) :
                        i \in {j \in Positions(n) : wireval[Len(wireval) - j] = "_1"}}, n)
  /\ UNCHANGED <<drops, w, val, wireval>>

Next == ToWireval \/ \E n \in Sizes : FromWireval(n)

Spec == Init /\ [][Next]_vars
-----------------------------------------------------------------------------
(* Of the bits that a reading has, those below 31 are the integer's,       *)
(* whatever the two widths are and whatever the build does with undefined  *)
(* shifts; so is bit 31 when both widths are at most 32.  A reading that   *)
(* is narrower than the integer is cut; one of 64 bits may differ from 31  *)
(* up, also for an integer of 32 bits.                                     *)
RoundTrip ==
  sz # 0 => \A i \in 0 .. sz - 1 :
    i < 31 \/ (sz <= 32 /\ w <= 32) => (i \in ret <=> i \in val)

(* wireval_u64 returns the bits from 31 on all equal: set if the integer   *)
(* has any of them.  The upper half of a 64-bit integer is lost, and an    *)
(* unsigned integer of 32 bits comes back negative.                        *)
UpperHalfIsSign ==
  sz = 64 => ret \cap 31 .. 63 = IF val \cap 31 .. 63 = {} THEN {} ELSE 31 .. 63
=============================================================================
