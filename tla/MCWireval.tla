----------------------------- MODULE MCWireval ------------------------------
(* All integers of 8 bits; of the wider ones, those with at most two ones  *)
(* and those with at most one zero.                                        *)
EXTENDS Wireval

Sparse(n) == {{i, j} : i, j \in 0 .. n - 1} \cup {{}}
Dense(n)  == {(0 .. n - 1) \ {i} : i \in 0 .. n}

Integers8to64 ==
  [n \in Sizes |-> IF n = 8 THEN SUBSET (0 .. 7) ELSE Sparse(n) \cup Dense(n)]
=============================================================================
