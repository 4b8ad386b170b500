------------------------------- MODULE MCPort -------------------------------
(* One register s and two wires d1, d2 that user code may link to it, in   *)
(* any order and repeatedly, while it drives s and updates the ports.      *)
EXTENDS Port, TLC

CONSTANTS s, d1, d2, cb

MCType  == (s :> "PORT_REG") @@ (d1 :> "PORT_WIRE") @@ (d2 :> "PORT_WIRE")
MCDir   == (s :> "PORT_OUTPUT") @@ (d1 :> "PORT_INOUT") @@ (d2 :> "PORT_INPUT")
MCWidth == [p \in Port |-> 2]

FlatTree == {<<s, d1>>, <<s, d2>>}

(* d2 below d1 below s                                                     *)
Chain == {<<s, d1>>, <<d1, d2>>}

(* a whole drive, a partial one, and refused ones                          *)
Drives ==
  {[port |-> s, off |-> 0, len |-> 2, vals |-> <<"_0", "_1">>],
   [port |-> s, off |-> 1, len |-> 1, vals |-> <<"_1">>],
   [port |-> s, off |-> 2, len |-> 1, vals |-> <<"_1">>],
   [port |-> d1, off |-> 0, len |-> 1, vals |-> <<"_1">>]}

Sens == {[port |-> d1, wire |-> 0, edge |-> "LEVELEDGE", raise |-> cb]}

ASSUME PortProofsApply == EqualWidths
=============================================================================
