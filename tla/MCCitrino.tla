------------------------------ MODULE MCCitrino -----------------------------
(* The program at its own size; only the 64-bit cycle counter is reduced.  *)
EXTENDS Citrino

NoLinks == <<>>

ASSUME CitrinoIsCircuit == CitrinoCircuit

(* CircuitIsSafe (RefresherProofs) covers the program.  Its memory drives  *)
(* from a callback of the very port it drives, so that its registers have  *)
(* no levels, and FirstIsCalled, CyclesSettle and PassesCounted do not.    *)
ASSUME CitrinoIsFlat == FlatCircuit /\ ~DriversLast /\ ~Levelled(Cardinality(Port))
=============================================================================
