----------------------------- MODULE MCRefresher ----------------------------
(* A chain of three modules, sinks declared before their drivers.  Driver  *)
(* 3 drives s from its update(); module 2 watches s through d and drives q *)
(* from the callback; module 1 watches q through o.  d is connected by a   *)
(* scheduled request, o directly; module 3's e asks to share s at any time *)
(* while the simulation runs, and would watch it too.                      *)
EXTENDS Refresher, TLC

CONSTANTS s, d, e, q, o, cb_d, cb_o

MCType  == [p \in Port |-> IF p \in {s, q} THEN "PORT_REG" ELSE "PORT_WIRE"]
MCDir   == [p \in Port |-> IF p \in {s, q} THEN "PORT_OUTPUT" ELSE "PORT_INPUT"]
MCWidth == [p \in Port |-> IF p \in {q, o} THEN 1 ELSE 2]

MCModules == << <<o>>, <<q, d>>, <<s, e>> >>

Ask(dst, found) == [dst |-> dst, found |-> found]

MCLinks     == {<<q, o>>, <<s, e>>}
MCDirect    == << <<q, o>> >>
MCScheduled == << Ask(d, <<s>>) >>
MCRequest   == {Ask(d, <<s>>), Ask(e, <<s>>)}

Whole(p, vals) == [port |-> p, off |-> 0, len |-> Len(vals), vals |-> vals]

SDrives == {Whole(s, v) : v \in {<<"_0", "_1">>, <<"_1", "_1">>, <<"_Z", "_0">>}}
QDrives == {Whole(q, v) : v \in {<<"_0">>, <<"_1">>}}
Refused == {Whole(o, <<"_1">>)}
Drives  == SDrives \cup QDrives \cup Refused

Watch(p) ==
  CASE p = d         -> [raise |-> cb_d, edge_trigger |-> "ALLEDGES"]
    [] p \in {e, o} -> [raise |-> cb_o, edge_trigger |-> "ALLEDGES"]
    [] OTHER         -> NoSignal

MCSensitivity == [p \in Port |-> [i \in Idx(p) |-> Watch(p)]]

MCUpdates ==
  << {<<>>, <<Whole(o, <<"_1">>)>>}, {<<>>}, {<<>>} \cup {<<c>> : c \in SDrives} >>

MCCallbacks ==
  (cb_d :> ({<<>>} \cup {<<c>> : c \in QDrives})) @@ (cb_o :> {<<>>})

ASSUME CircuitProofsApply ==
  /\ FlatCircuit /\ LinkedOnce /\ DriversLast /\ Levelled(1) /\ NoEmptyDrives
  /\ WholeDrives /\ OneSource /\ WatchersInTime
=============================================================================
