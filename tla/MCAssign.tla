------------------------------ MODULE MCAssign ------------------------------
(* A register reg of two wires, an input inp that may be linked to it and  *)
(* that watches it, a wire tap that may be linked to it and may have an    *)
(* assignment, and a wire net of one wire.                                 *)
EXTENDS Assign, TLC

CONSTANTS reg, inp, tap, net, cb

MCType  == [p \in Port |-> IF p = reg THEN "PORT_REG" ELSE "PORT_WIRE"]
MCDir   == (reg :> "PORT_OUTPUT") @@ (inp :> "PORT_INPUT")
             @@ (tap :> "PORT_INOUT") @@ (net :> "PORT_INOUT")
MCWidth == [p \in Port |-> IF p = net THEN 1 ELSE 2]

MCLinks == {<<reg, inp>>, <<reg, tap>>}

(* the register's, and one that is refused                                 *)
Drives ==
  {[port |-> p, off |-> 0, len |-> 1, vals |-> <<"_1">>] : p \in {reg, tap}}

Sens == {[port |-> inp, wire |-> 0, edge |-> "ALLEDGES", raise |-> cb]}

Call(p, type, off, len, left, right, returns) ==
  [port |-> p, type |-> type, off |-> off, len |-> len, condition |-> type = "ASSIGN_COND",
   left |-> left, right |-> right, returns |-> returns]

Const(p, off, len, v) == Call(p, "ASSIGN_CONST", off, len, v, <<>>, {})
Cond(p, off, len, l, r) == Call(p, "ASSIGN_COND", off, len, l, r, {})
Cback(p, off, len, returns) == Call(p, "ASSIGN_CBACK", off, len, <<>>, <<>>, returns)

(* whole ports and single wires, values of one and of two wires, a         *)
(* function that is null, offsets and lengths that do not fit, an input    *)
Assigns ==
  {Const(reg, 0, 1, <<"_0", "_1">>), Cond(reg, 1, 1, <<"_1", "_0">>, <<"_0", "_0">>),
   Cback(reg, 1, 1, {<<"_Z">>}), Cback(reg, 2, 2, {}),
   Const(tap, 0, 1, <<"_1", "_0">>),
   Const(net, 0, 0, <<"_0">>), Const(inp, 0, 1, <<"_1", "_1">>)}

Conds == {[port |-> reg, nth |-> 0, condition |-> FALSE]}

ASSUME DriversAreKnownApplies == FlatLinks
=============================================================================
