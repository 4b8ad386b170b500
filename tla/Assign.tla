------------------------------- MODULE Assign -------------------------------
(***************************************************************************)
(* Assignments (port.cpp, and wireval_to_wires of refresher.cpp): a port   *)
(* keeps a list of values that every update of the port puts on its wires, *)
(* before it looks at its signals: constants, one of two values chosen by  *)
(* a condition, or what a function of user code returns.                   *)
(*                                                                         *)
(* An assignment keeps its values twice: as values, from which the edges   *)
(* are made, and as a pointer to converted wires, from which the values of *)
(* the wires are taken.  wireval_to_wires returns the address of one       *)
(* static vector, so that all these pointers are equal and static_wire     *)
(* holds what was converted last.  An assignment of several wires counts   *)
(* and marks the wire that has the assignment's own number.                *)
(*                                                                         *)
(* This module composes the assignments with Port's other operations;      *)
(* Refresher's circuits make none.                                         *)
(***************************************************************************)
EXTENDS Port, SequencesExt

CONSTANTS
  AssignCalls,   \* the assign, assign_cond and assign_const calls of user code
  CondCalls,     \* its update_assign_condition calls
  MaxAssigns     \* bound on the number of assignments of all ports

AssignType == {"ASSIGN_CBACK", "ASSIGN_COND", "ASSIGN_CONST"}

(* returns: the values that the function may return, none for a null one.  *)
(* As in Port.  Here it also keeps an assignment, clipped to the vector of *)
(* the moment, inside the one its port is linked to later.                 *)
ASSUME AssignWidths == EqualWidths

ASSUME AssignAssumption ==
  /\ AssignCalls \subseteq
       [port : Port, type : AssignType, off : Nat, len : Nat, condition : BOOLEAN,
        left : Seq(WireVal), right : Seq(WireVal), returns : SUBSET Seq(WireVal)]
  /\ CondCalls \subseteq [port : Port, nth : Nat, condition : BOOLEAN]
  /\ MaxAssigns \in Nat

VARIABLES
  assigns,       \* assigns[p]: p's list
  static_wire,   \* the values of the static vector of converted wires
  assigning,     \* where Port::update is in the list, and is it in user code?
  fault          \* did an access leave its vector?  Nothing follows a write.

assignVars == <<assigns, static_wire, assigning, fault>>

NotAssigning == [port |-> NoPort, i |-> 0, called |-> FALSE]

AssignInit ==
  /\ PortInit
  /\ assigns = [p \in Port |-> <<>>]
  /\ static_wire = <<>>
  /\ assigning = NotAssigning
  /\ fault = "none"

-----------------------------------------------------------------------------
(* An offset past the wires becomes 0; a length becomes one more than was  *)
(* asked for, so that the last wire's index asks for all wires.            *)
Clipped_Unchecked(p, off) == off

Clipped(p, off) == IF off < Width[wires[p]] THEN off ELSE 0

Lengthened(p, off, len) ==
  CASE len < Width[wires[p]] -> len + 1
    [] len >= Width[wires[p]] /\ Clipped(p, off) + 1 >= Width[wires[p]] -> 0
    [] len >= Width[wires[p]] /\ Clipped(p, off) + 1 < Width[wires[p]]  -> 1

Entry(c) ==
  [assign_type |-> c.type,
   wire_off |-> Clipped(c.port, c.off), wire_len |-> Lengthened(c.port, c.off, c.len),
   condition |-> c.condition, assign_func |-> c.returns,
   left_side_val |-> Reverse(c.left), right_side_val |-> Reverse(c.right)]

(* wireval_to_wires, of the right side last.                               *)
Converted(c) ==
  CASE c.type = "ASSIGN_CBACK" -> static_wire
    [] c.type = "ASSIGN_COND"  -> Reverse(c.right)
    [] c.type = "ASSIGN_CONST" -> Reverse(c.left)

MayAssign_Always(p) == TRUE

MayAssign(p) == Dir[p] # "PORT_INPUT"

Assign(c) ==
  /\ MayAssign(c.port)
  /\ SumFunction([p \in Port |-> Len(assigns[p])]) < MaxAssigns
  /\ assigns' = [assigns EXCEPT ![c.port] = Append(@, Entry(c))]
  /\ static_wire' = Converted(c)
  /\ UNCHANGED <<portVars, assigning, fault>>

UpdateCondition(c) ==
  /\ MayAssign(c.port)
  /\ c.nth < Len(assigns[c.port])
  /\ assigns' = [assigns EXCEPT ![c.port][c.nth + 1].condition = c.condition]
  /\ UNCHANGED <<portVars, static_wire, assigning, fault>>

-----------------------------------------------------------------------------
(* Port::update: first its assignments, from number 0.                     *)
BeginAssigns(p) ==
  /\ frame = Idle
  /\ assigning = NotAssigning
  /\ assigning' = [NotAssigning EXCEPT !.port = p]
  /\ UNCHANGED <<portVars, assigns, static_wire, fault>>

AtAssign == assigning.port # NoPort /\ assigning.i < Len(assigns[assigning.port])

Current == assigns[assigning.port][assigning.i + 1]

CallFunc ==
  /\ AtAssign
  /\ ~assigning.called
  /\ Current.assign_type = "ASSIGN_CBACK"
  /\ Current.assign_func # {}
  /\ assigning' = [assigning EXCEPT !.called = TRUE]
  /\ UNCHANGED <<portVars, assigns, static_wire, fault>>

(* A null function assigns nothing.                                        *)
SkipAssign ==
  /\ AtAssign
  /\ Current.assign_type = "ASSIGN_CBACK"
  /\ Current.assign_func = {}
  /\ assigning' = [assigning EXCEPT !.i = @ + 1]
  /\ UNCHANGED <<portVars, assigns, static_wire, fault>>

(* The value that an assignment has now.                                   *)
Value(a) ==
  CASE a.assign_type = "ASSIGN_CBACK" -> a.assign_func
    [] a.assign_type = "ASSIGN_COND" ->
         {IF a.condition THEN a.left_side_val ELSE a.right_side_val}
    [] a.assign_type = "ASSIGN_CONST" -> {a.left_side_val}

(* The wires it writes when n values were converted.                       *)
Written_PastEnd(p, a, n) ==
  {j \in a.wire_off .. a.wire_off + a.wire_len - 1 : j - a.wire_off < n}

Written(p, a, n) ==
  {j \in a.wire_off .. a.wire_off + a.wire_len - 1 :
     j < Width[wires[p]] /\ j - a.wire_off < n}

(* Where it reads the value for the edge of wire j: a constant is indexed  *)
(* from the offset, the others are not.                                    *)
ReadAt_Next(a, j) == IF a.assign_type = "ASSIGN_CONST" THEN j - a.wire_off + 2 ELSE j + 1

ReadAt(a, j) == IF a.assign_type = "ASSIGN_CONST" THEN j - a.wire_off + 1 ELSE j + 1

(* Reading past the end of the value finds anything.                       *)
Logics(a, v, J) ==
  {l \in [J -> WireVal] : \A j \in J : ReadAt(a, j) <= Len(v) => l[j] = v[ReadAt(a, j)]}

(* The wire it counts and marks.                                           *)
Counted_Next == assigning.i + 1

Counted == assigning.i

Put(p, a, J, logic) ==
  [x \in DOMAIN WiresOf(p) |->
     LET w == WiresOf(p)[x]
         written == IF x \in J
                    THEN [w EXCEPT !.edge = EdgeOf(logic[x]),
                                   !.val = static_wire'[x - a.wire_off + 1]]
                    ELSE w
     IN  IF x = Counted /\ J # {}
         THEN [written EXCEPT !.last_port_drive = p, !.refcount = @ + Cardinality(J)]
         ELSE written]

RunAssign ==
  /\ AtAssign
  /\ Current.assign_type = "ASSIGN_CBACK" => assigning.called
  /\ \E v \in Value(Current) :
       /\ static_wire' = IF assigning.called THEN v ELSE static_wire
       /\ LET J == Written(assigning.port, Current, Len(static_wire'))
          IN  /\ \E l \in Logics(Current, v, J) :
                   heap' = [heap EXCEPT ![wires[assigning.port]] =
                              Put(assigning.port, Current, J, l)]
              /\ fault' = CASE J # {} /\ Counted \notin DOMAIN WiresOf(assigning.port) -> "write"
                            [] \E j \in J : ReadAt(Current, j) > Len(v) -> "read"
                            [] OTHER -> fault
  /\ assigning' = [assigning EXCEPT !.i = @ + 1, !.called = FALSE]
  /\ UNCHANGED <<wires, dirty, freed, signals, driven, frame, assigns>>

EndAssigns ==
  /\ assigning.port # NoPort
  /\ assigning.i >= Len(assigns[assigning.port])
  /\ frame' = [Idle EXCEPT !.port = assigning.port]
  /\ assigning' = NotAssigning
  /\ UNCHANGED <<heap, wires, dirty, freed, signals, driven, assigns, static_wire, fault>>

-----------------------------------------------------------------------------
(* User code runs between updates, in a signal's callback, and in the      *)
(* function of an assignment.                                              *)
UserStep ==
  /\ UserRuns
  /\ assigning.port = NoPort \/ assigning.called
  /\ \/ UserCall /\ UNCHANGED assignVars
     \/ \E c \in AssignCalls : Assign(c)
     \/ \E c \in CondCalls : UpdateCondition(c)

AssignNext ==
  /\ fault # "write"
  /\ \/ UserStep
     \/ \E p \in Port : BeginAssigns(p)
     \/ CallFunc \/ SkipAssign \/ RunAssign \/ EndAssigns
     \/ (CheckWire \/ RaiseSignal \/ SignalReturns) /\ UNCHANGED assignVars

AssignSpec == AssignInit /\ [][AssignNext]_<<portVars, assignVars>>
-----------------------------------------------------------------------------
AssignTypeOK ==
  /\ PortTypeOK
  /\ \A p \in Port : assigns[p] \in
       Seq([assign_type : AssignType, wire_off : Idx(p), wire_len : 0 .. Width[p],
            condition : BOOLEAN, assign_func : SUBSET Seq(WireVal),
            left_side_val : Seq(WireVal), right_side_val : Seq(WireVal)])
  /\ static_wire \in Seq(WireVal)
  /\ assigning \in [port : Port \cup {NoPort}, i : Nat, called : BOOLEAN]
  /\ fault \in {"none", "read", "write"}

(* An update of p has just run p's assignments.                            *)
Assigned(p) == frame.port = p /\ frame.wire = 0 /\ ~frame.raised

Holds(p, a) ==
  \A j \in Written(p, a, Len(a.left_side_val)) :
    LET v == a.left_side_val[j - a.wire_off + 1]
    IN  WiresOf(p)[j].val = v /\ WiresOf(p)[j].edge = EdgeOf(v)

OnlyConst(p) == Len(assigns[p]) = 1 /\ assigns[p][1].assign_type = "ASSIGN_CONST"

(* When the only assignment of a port is a constant, the wires hold it     *)
(* after the port's assignments have run (assign_const: "Assign a constant *)
(* wire value to a single wire, or a set of wires", port.h), whatever was  *)
(* driven before, for as long as it is what was converted last.  Once an   *)
(* assignment of any port has converted another value, the port takes its  *)
(* wires from that one.                                                    *)
ConstHoldsWhileLast ==
  \A p \in Port : OnlyConst(p) /\ Assigned(p) =>
    LET a == assigns[p][1]
        Differs(j) == static_wire[j - a.wire_off + 1] # a.left_side_val[j - a.wire_off + 1]
    IN  /\ static_wire = a.left_side_val => Holds(p, a)
        /\ \A j \in Written(p, a, Len(static_wire)) \cap Written(p, a, Len(a.left_side_val)) :
             Differs(j) => ~Holds(p, a)

(* All values in the lists have the same length, that of all ports, and no *)
(* list has more assignments than its port has wires.                      *)
Uniform ==
  \E n \in {Width[q] : q \in Port} :
    \A p \in Port : \A k \in DOMAIN assigns[p] :
      LET a == assigns[p][k]
      IN  /\ n = Width[p]
          /\ Len(assigns[p]) <= Width[p]
          /\ a.assign_type # "ASSIGN_CBACK" => Len(a.left_side_val) = n
          /\ a.assign_type = "ASSIGN_COND" => Len(a.right_side_val) = n
          /\ \A v \in a.assign_func : Len(v) = n

(* That is enough for the code to be safe: then no access leaves its       *)
(* vector, although edges and values are indexed by different counters and *)
(* the number of an assignment is used as the index of a wire.             *)
InBounds == fault # "none" => ~Uniform

(* What an assignment wrote is announced on the wire that has the          *)
(* assignment's number: no other wire counts as driven unless a drive call *)
(* covers it, so that a signal of such a wire is not called when it is     *)
(* assigned.                                                               *)
AnnouncedByNumber ==
  \A b \in Port : \A i \in Idx(b) :
    LET w == heap[b][i]
    IN  w.refcount > 0 =>
          \/ i < Len(assigns[w.last_port_drive])
          \/ \E c \in DriveCalls :
               c.port = w.last_port_drive /\ i \in c.off .. c.off + c.len - 1

(* With assignments a vector has several drivers, but, when links are flat *)
(* (no port is both a source and a destination), no others than these:     *)
(* the register that allocated it, by its drive calls, and ports with      *)
(* assignments that point to it: the allocator, and the ports it is the    *)
(* source of.  A wire that counts as driven names its driver, so that the  *)
(* null test of update hides no signal.                                    *)
OwnerOrAssigner ==
  \A b \in Port : \A i \in Idx(b) :
    LET d == heap[b][i].last_port_drive
    IN  /\ heap[b][i].refcount > 0 => d # NoPort
        /\ d # NoPort =>
             \/ d = b /\ Type[b] = "PORT_REG"
             \/ (d = b \/ <<b, d>> \in Links) /\ assigns[d] # <<>>

(* An input never drives a wire, through drive or an assignment, not even  *)
(* one that shares its vector with ports that do.                          *)
InputsNeverDrive ==
  \A b \in Port : \A i \in Idx(b) :
    heap[b][i].last_port_drive # NoPort => Dir[heap[b][i].last_port_drive] # "PORT_INPUT"
=============================================================================
