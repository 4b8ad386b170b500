-------------------------------- MODULE Wire --------------------------------
(***************************************************************************)
(* One wire of a port, and what port.cpp does to it: the values and edges  *)
(* of port.h, the edge a driven value stands for, the test of a signal's   *)
(* sensitivity, and the effect on one wire (or on one vector of wires) of  *)
(* connect, drive and update.  Everything here is a pure operator; module  *)
(* Port holds the state.                                                   *)
(***************************************************************************)
EXTENDS Integers, Sequences, FiniteSets

WireVal  == {"_0", "_1", "_X", "_Z"}

WireEdge == {"NEGEDGE", "POSEDGE", "LEVELEDGE", "NOEDGE", "ALLEDGES", "NULLEDGE"}

(* A wire is a record.  last_mod_drive is last_port_drive's modparent, so  *)
(* only the port is kept; drivers is the set of ports and of the null      *)
(* pointer.                                                                *)
WireOf(drivers) ==
  [val : WireVal, edge : WireEdge, old_edge : WireEdge,
   modules_connected : Nat, modules_connected_orig : Nat,
   refcount : Nat, last_port_drive : drivers]

NewWire(v, null) ==
  [val |-> v, edge |-> "NULLEDGE", old_edge |-> "NULLEDGE",
   modules_connected |-> 0, modules_connected_orig |-> 0,
   refcount |-> 0, last_port_drive |-> null]

-----------------------------------------------------------------------------
(* The edge that driving the value v puts on a wire.                       *)
EdgeOf(v) ==
  CASE v = "_1" -> "POSEDGE"
    [] v = "_0" -> "NEGEDGE"
    [] v = "_Z" -> "NOEDGE"
    [] OTHER    -> "NULLEDGE"

(* Is a signal with this edge_trigger sensitive to this edge?              *)
Triggered_NoAll(trigger, edge) ==
  \/ trigger = edge
  \/ trigger = "LEVELEDGE" /\ edge \in {"POSEDGE", "NEGEDGE"}

Triggered(trigger, edge) ==
  \/ trigger = edge
  \/ trigger = "LEVELEDGE" /\ edge \in {"POSEDGE", "NEGEDGE"}
  \/ trigger = "ALLEDGES"

-----------------------------------------------------------------------------
(* Port::connect: one more port shares the wire.                           *)
Linked_NoOrig(w) == [w EXCEPT !.modules_connected = @ + 1]

Linked(w) ==
  [w EXCEPT !.modules_connected = @ + 1,
            !.modules_connected_orig = w.modules_connected + 1]

(* Port::drive, first loop: the wire is set to X.                          *)
Nullified_KeepEdge(w) == [w EXCEPT !.val = "_X"]

Nullified_Undriven(w) ==
  IF w.refcount = 0 THEN [w EXCEPT !.edge = "NULLEDGE", !.val = "_X"] ELSE w

Nullified(w) == [w EXCEPT !.edge = "NULLEDGE", !.val = "_X"]

(* Port::drive, second loop: the wire takes the value v from port p.       *)
DrivenBy(w, v, p) ==
  [w EXCEPT !.val = v, !.edge = EdgeOf(v), !.last_port_drive = p,
            !.refcount = @ + 1]

(* Port::update: a wire whose edge has changed is counted down, and the    *)
(* port that finds the count at zero makes the change the old state.       *)
IsChanged(w) == w.edge # w.old_edge

Checked(w) ==
  CASE ~IsChanged(w) -> w
    [] IsChanged(w) /\ w.modules_connected = 0 ->
         [w EXCEPT !.old_edge = w.edge,
                   !.modules_connected = w.modules_connected_orig]
    [] IsChanged(w) /\ w.modules_connected > 0 ->
         [w EXCEPT !.modules_connected = @ - 1]

(* Port::update, end of the loop body.                                     *)
Released_Kept(w) == w

Released_CountedDown(w) == [w EXCEPT !.refcount = @ - 1]

Released(w) == [w EXCEPT !.refcount = 0]

-----------------------------------------------------------------------------
(* Port::drive on a whole vector.  The wires of the window that nobody has *)
(* driven since their last update take the values, the last value first; a *)
(* wire that was driven already is skipped without consuming a value.      *)
Window(ws, off, len) == {i \in DOMAIN ws : off <= i /\ i < off + len}

Undriven_All(ws, off, len) == Window(ws, off, len)

Undriven(ws, off, len) == {i \in Window(ws, off, len) : ws[i].refcount = 0}

Before(S, i) == Cardinality({x \in S : x < i})

Takers(ws, off, len, vals) ==
  {i \in Undriven(ws, off, len) : Before(Undriven(ws, off, len), i) < Len(vals)}

DriveWires(ws, off, len, vals, p) ==
  [i \in DOMAIN ws |->
     IF i \in Takers(ws, off, len, vals)
     THEN DrivenBy(Nullified(ws[i]),
                   vals[Len(vals) - Before(Undriven(ws, off, len), i)], p)
     ELSE Nullified(ws[i])]
=============================================================================
