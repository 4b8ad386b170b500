------------------------------ MODULE MCConnect -----------------------------
(* Two registers s and t, three wires d1, d2, d3 to link to them, and one  *)
(* register r that is no legal destination.                                *)
EXTENDS ConnectAll, TLC

CONSTANTS s, t, r, d1, d2, d3

MCType  == [p \in Port |-> IF p \in {s, t, r} THEN "PORT_REG" ELSE "PORT_WIRE"]
MCDir   == [p \in Port |-> IF p \in {s, t} THEN "PORT_OUTPUT" ELSE "PORT_INPUT"]
MCWidth == [p \in Port |-> 1]

Ask(dst, found) == [dst |-> dst, found |-> found]

(* four requests that find their port, in both directions, of which two    *)
(* are for the same destination; one that is refused because r is a        *)
(* register; one whose port never exists                                   *)
Requests ==
  {Ask(d1, <<s>>), Ask(d2, <<s>>), Ask(t, <<d3>>), Ask(d1, <<t>>),
   Ask(r, <<s>>), Ask(d1, <<>>)}

ASSUME ConnectProofsApply == OnePortEach /\ FlatRequests /\ DistinctLinks
=============================================================================
