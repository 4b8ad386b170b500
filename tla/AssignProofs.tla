---------------------------- MODULE AssignProofs ----------------------------
(***************************************************************************)
(* Proofs about module Assign, for every circuit and every list of calls.  *)
(***************************************************************************)
EXTENDS Assign, PortProofs, SequenceTheorems

(* Reversing a value keeps its length.                                     *)
LEMMA Reversed ==
  ASSUME NEW v \in Seq(WireVal)
  PROVE  Reverse(v) \in Seq(WireVal) /\ Len(Reverse(v)) = Len(v)
<1>1. Len(v) \in Nat
  BY LenProperties
<1>2. \A i \in 1 .. Len(v) : v[Len(v) - i + 1] \in WireVal
  BY <1>1, ElementOfSeq
<1> QED
  BY <1>1, <1>2 DEF Reverse
-----------------------------------------------------------------------------
(* Typing, with where Port::update is in its list: it has not passed the   *)
(* end of it, no wire is under update, and only a function is called.      *)
EntryOf(p) ==
  [assign_type : AssignType, wire_off : Idx(p), wire_len : 0 .. Width[p],
   condition : BOOLEAN, assign_func : SUBSET Seq(WireVal),
   left_side_val : Seq(WireVal), right_side_val : Seq(WireVal)]

Lists == DOMAIN assigns = Port /\ \A p \in Port : assigns[p] \in Seq(EntryOf(p))

Calling ==
  AtAssign /\ Current.assign_type = "ASSIGN_CBACK" /\ Current.assign_func # {}

Position ==
  /\ assigning \in [port : Port \cup {NoPort}, i : Nat, called : BOOLEAN]
  /\ assigning.port # NoPort =>
       /\ frame = Idle
       /\ assigning.i <= Len(assigns[assigning.port])
  /\ assigning.called => Calling

AssignInv ==
  /\ TypeInv /\ Lists /\ Position
  /\ static_wire \in Seq(WireVal)
  /\ fault \in {"none", "read", "write"}

LEMMA AssignInitType == AssignInit => AssignInv
<1> SUFFICES ASSUME AssignInit PROVE AssignInv
  OBVIOUS
<1>1. TypeInv
  BY TypeInit DEF AssignInit
<1>2. Lists
  BY EmptySeq DEF AssignInit, Lists
<1>3. Position
  BY DEF AssignInit, NotAssigning, Position
<1>4. static_wire \in Seq(WireVal) /\ fault \in {"none", "read", "write"}
  BY EmptySeq DEF AssignInit
<1> QED
  BY <1>1, <1>2, <1>3, <1>4 DEF AssignInv

(* The lists, read.                                                        *)
LEMMA ListTypes ==
  ASSUME Lists, NEW p \in Port
  PROVE  /\ Len(assigns[p]) \in Nat
         /\ \A k \in 1 .. Len(assigns[p]) : assigns[p][k] \in EntryOf(p)
<1>1. assigns[p] \in Seq(EntryOf(p))
  BY DEF Lists
<1>2. Len(assigns[p]) \in Nat
  BY <1>1, LenProperties
<1>3. \A k \in 1 .. Len(assigns[p]) : assigns[p][k] \in EntryOf(p)
  BY <1>1, ElementOfSeq
<1> QED
  BY <1>2, <1>3

LEMMA AtEntry ==
  ASSUME AssignInv, AtAssign
  PROVE  /\ assigning.port \in Port /\ assigning.i \in Nat
         /\ frame = Idle
         /\ Len(assigns[assigning.port]) \in Nat
         /\ assigning.i + 1 \in 1 .. Len(assigns[assigning.port])
         /\ Current \in EntryOf(assigning.port)
<1>1. assigning.port \in Port /\ assigning.i \in Nat /\ frame = Idle
  BY DEF AssignInv, Position, AtAssign
<1>2. Len(assigns[assigning.port]) \in Nat
  BY <1>1, ListTypes DEF AssignInv
<1>3. assigning.i + 1 \in 1 .. Len(assigns[assigning.port])
  BY <1>1, <1>2 DEF AtAssign
<1>4. Current \in EntryOf(assigning.port)
  BY <1>1, <1>3, ListTypes DEF AssignInv, Current
<1> QED
  BY <1>1, <1>2, <1>3, <1>4

-----------------------------------------------------------------------------
(* What assign and update_assign_condition do to the lists.                *)
LEMMA ClippedType ==
  ASSUME TypeInv, NEW p \in Port, NEW off \in Nat, NEW len \in Nat
  PROVE  Clipped(p, off) \in Idx(p) /\ Lengthened(p, off, len) \in 0 .. Width[p]
<1>1. Width[wires[p]] = Width[p] /\ Width[p] \in Nat /\ Width[p] > 0
  BY IdxInterval DEF TypeInv, LinkedWidths
<1>2. Clipped(p, off) \in Idx(p)
  BY <1>1 DEF Clipped, Idx
<1>3. CASE len < Width[wires[p]]
  <2>1. ~(len >= Width[wires[p]])
    BY <1>1, <1>3
  <2>2. Lengthened(p, off, len) = len + 1
    BY <1>3, <2>1 DEF Lengthened
  <2> QED
    BY <1>1, <1>2, <1>3, <2>2
<1>4. CASE len >= Width[wires[p]]
  <2>1. Clipped(p, off) \in Nat
    BY <1>1, <1>2 DEF Idx
  <2>2. Lengthened(p, off, len) \in {0, 1}
    BY <1>1, <1>4, <2>1 DEF Lengthened
  <2> QED
    BY <1>1, <1>2, <2>2
<1> QED
  BY <1>1, <1>2, <1>3, <1>4

LEMMA EntryType ==
  ASSUME TypeInv, NEW c \in AssignCalls
  PROVE  /\ c.port \in Port
         /\ Entry(c) \in EntryOf(c.port)
<1>1. /\ c.port \in Port /\ c.type \in AssignType /\ c.off \in Nat /\ c.len \in Nat
      /\ c.condition \in BOOLEAN /\ c.left \in Seq(WireVal) /\ c.right \in Seq(WireVal)
      /\ c.returns \in SUBSET Seq(WireVal)
  BY AssignAssumption
<1>2. Reverse(c.left) \in Seq(WireVal) /\ Reverse(c.right) \in Seq(WireVal)
  BY <1>1, Reversed
<1>3. Clipped(c.port, c.off) \in Idx(c.port)
      /\ Lengthened(c.port, c.off, c.len) \in 0 .. Width[c.port]
  BY <1>1, ClippedType
<1> QED
  BY <1>1, <1>2, <1>3 DEF Entry, EntryOf

(* assigns grows, and its entries keep everything but their condition.     *)
Grown ==
  \A p \in Port :
    /\ Len(assigns'[p]) >= Len(assigns[p])
    /\ \A k \in 1 .. Len(assigns[p]) :
         LET a == assigns[p][k]
             b == assigns'[p][k]
         IN  /\ b.assign_type = a.assign_type
             /\ b.assign_func = a.assign_func
             /\ b.left_side_val = a.left_side_val
             /\ b.right_side_val = a.right_side_val

LEMMA ListsSame == ASSUME Lists, assigns' = assigns PROVE Lists' /\ Grown
<1>1. \A p \in Port : Len(assigns[p]) \in Nat
  BY ListTypes
<1> QED
  BY <1>1 DEF Lists, Grown

LEMMA ListsAssign ==
  ASSUME TypeInv, Lists, NEW c \in AssignCalls, Assign(c)
  PROVE  Lists' /\ Grown
<1> DEFINE e == Entry(c)
<1>1. c.port \in Port /\ e \in EntryOf(c.port)
  BY EntryType
<1>2. assigns' = [assigns EXCEPT ![c.port] = Append(@, e)]
  BY DEF Assign
<1> HIDE DEF e
<1>3. assigns[c.port] \in Seq(EntryOf(c.port))
  BY <1>1 DEF Lists
<1>4. /\ Append(assigns[c.port], e) \in Seq(EntryOf(c.port))
      /\ Len(Append(assigns[c.port], e)) = Len(assigns[c.port]) + 1
      /\ \A k \in 1 .. Len(assigns[c.port]) : Append(assigns[c.port], e)[k] = assigns[c.port][k]
  BY <1>1, <1>3, AppendProperties
<1>5. /\ DOMAIN assigns' = Port
      /\ assigns'[c.port] = Append(assigns[c.port], e)
      /\ \A p \in Port : p # c.port => assigns'[p] = assigns[p]
  BY <1>1, <1>2 DEF Lists
<1>6. \A p \in Port : Len(assigns[p]) \in Nat
  BY ListTypes
<1>7. Lists'
  BY <1>1, <1>4, <1>5 DEF Lists
<1>8. Grown
  BY <1>1, <1>4, <1>5, <1>6 DEF Grown
<1> QED
  BY <1>7, <1>8

LEMMA ListsCondition ==
  ASSUME Lists, NEW c \in CondCalls, UpdateCondition(c)
  PROVE  Lists' /\ Grown
<1> DEFINE p == c.port
           n == c.nth + 1
           e == [assigns[p][n] EXCEPT !.condition = c.condition]
<1>1. p \in Port /\ c.nth \in Nat /\ c.condition \in BOOLEAN
  BY AssignAssumption
<1>2. assigns[p] \in Seq(EntryOf(p)) /\ Len(assigns[p]) \in Nat
  BY <1>1, ListTypes DEF Lists
<1>3. n \in 1 .. Len(assigns[p])
  BY <1>1, <1>2 DEF UpdateCondition
<1>4. assigns[p][n] \in EntryOf(p)
  BY <1>1, <1>3, ListTypes
<1>5. /\ e \in EntryOf(p)
      /\ e.assign_type = assigns[p][n].assign_type
      /\ e.assign_func = assigns[p][n].assign_func
      /\ e.left_side_val = assigns[p][n].left_side_val
      /\ e.right_side_val = assigns[p][n].right_side_val
  BY <1>1, <1>4 DEF EntryOf
<1>6. assigns' = [assigns EXCEPT ![p] = [@ EXCEPT ![n] = e]]
  BY DEF UpdateCondition
<1> HIDE DEF e, n
<1>7. /\ [assigns[p] EXCEPT ![n] = e] \in Seq(EntryOf(p))
      /\ Len([assigns[p] EXCEPT ![n] = e]) = Len(assigns[p])
      /\ \A k \in 1 .. Len(assigns[p]) :
           [assigns[p] EXCEPT ![n] = e][k] = IF k = n THEN e ELSE assigns[p][k]
  BY <1>2, <1>3, <1>5, ExceptSeq
<1>8. /\ DOMAIN assigns' = Port
      /\ assigns'[p] = [assigns[p] EXCEPT ![n] = e]
      /\ \A q \in Port : q # p => assigns'[q] = assigns[q]
  BY <1>1, <1>6 DEF Lists
<1>9. \A q \in Port : Len(assigns[q]) \in Nat
  BY ListTypes
<1>10. Lists'
  BY <1>1, <1>7, <1>8 DEF Lists
<1>11. Grown
  <2> SUFFICES ASSUME NEW q \in Port
      PROVE /\ Len(assigns'[q]) >= Len(assigns[q])
            /\ \A k \in 1 .. Len(assigns[q]) :
                 /\ assigns'[q][k].assign_type = assigns[q][k].assign_type
                 /\ assigns'[q][k].assign_func = assigns[q][k].assign_func
                 /\ assigns'[q][k].left_side_val = assigns[q][k].left_side_val
                 /\ assigns'[q][k].right_side_val = assigns[q][k].right_side_val
    BY DEF Grown
  <2>1. CASE q # p
    BY <1>8, <1>9, <2>1
  <2>2. CASE q = p
    BY <1>5, <1>7, <1>8, <1>9, <2>2
  <2> QED
    BY <2>1, <2>2
<1> QED
  BY <1>10, <1>11
-----------------------------------------------------------------------------
(* What running an assignment does to the wires.                           *)

(* The wires that it writes, and where it finds their values.              *)
LEMMA WrittenWires ==
  ASSUME TypeInv, NEW p \in Port, NEW a \in EntryOf(p), NEW n \in Nat
  PROVE  /\ Written(p, a, n) \subseteq Idx(wires[p])
         /\ IsFiniteSet(Written(p, a, n))
         /\ Cardinality(Written(p, a, n)) \in Nat
         /\ Written(p, a, n) # {} => Cardinality(Written(p, a, n)) > 0
         /\ \A j \in Written(p, a, n) : j - a.wire_off + 1 \in 1 .. n
<1>1. /\ wires[p] \in Port /\ Width[wires[p]] = Width[p] /\ Width[p] \in Nat /\ Width[p] > 0
  BY IdxInterval DEF TypeInv, PortTypeOK, LinkedWidths
<1>2. a.wire_off \in Nat /\ a.wire_len \in Nat
  BY <1>1 DEF EntryOf, Idx
<1>3. \A j \in Written(p, a, n) :
        j \in Nat /\ a.wire_off <= j /\ j < Width[wires[p]] /\ j - a.wire_off < n
  BY <1>2 DEF Written
<1>4. Written(p, a, n) \subseteq Idx(wires[p])
  BY <1>1, <1>3 DEF Idx
<1>5. IsFiniteSet(Written(p, a, n))
  <2>1. IsFiniteSet(0 .. Width[wires[p]] - 1)
    BY <1>1, FS_Interval
  <2> QED
    BY <1>4, <2>1, FS_Subset DEF Idx
<1>6. Cardinality(Written(p, a, n)) \in Nat
  BY <1>5, FS_CardinalityType
<1>7. Written(p, a, n) # {} => Cardinality(Written(p, a, n)) > 0
  BY <1>5, <1>6, FS_EmptySet
<1>8. \A j \in Written(p, a, n) : j - a.wire_off + 1 \in 1 .. n
  BY <1>2, <1>3
<1> QED
  BY <1>4, <1>5, <1>6, <1>7, <1>8

(* One wire after it.                                                      *)
LEMMA PutWire ==
  ASSUME TypeInv, NEW p \in Port, NEW a \in EntryOf(p), NEW n \in Nat,
         static_wire' \in Seq(WireVal), n = Len(static_wire'),
         NEW J, J = Written(p, a, n), NEW l \in [J -> WireVal]
  PROVE  /\ Put(p, a, J, l) \in [Idx(wires[p]) -> Wire]
         /\ \A x \in Idx(wires[p]) :
              LET w == heap[wires[p]][x]
                  u == Put(p, a, J, l)[x]
              IN  /\ u.val = IF x \in J THEN static_wire'[x - a.wire_off + 1] ELSE w.val
                  /\ u.edge = IF x \in J THEN EdgeOf(l[x]) ELSE w.edge
                  /\ u.last_port_drive = IF x = Counted /\ J # {} THEN p ELSE w.last_port_drive
                  /\ u.refcount = IF x = Counted /\ J # {} THEN w.refcount + Cardinality(J)
                                  ELSE w.refcount
<1> DEFINE b == wires[p]
           ws == heap[b]
<1>1. b \in Port /\ ws \in [Idx(b) -> Wire] /\ DOMAIN WiresOf(p) = Idx(b) /\ WiresOf(p) = ws
  BY DEF TypeInv, PortTypeOK, Wire, Driver, WiresOf
<1>2. Cardinality(J) \in Nat /\ \A j \in J : j - a.wire_off + 1 \in 1 .. n
  BY WrittenWires
<1>3. \A j \in J : static_wire'[j - a.wire_off + 1] \in WireVal /\ EdgeOf(l[j]) \in WireEdge
  <2>1. \A k \in 1 .. n : static_wire'[k] \in WireVal
    BY ElementOfSeq
  <2> QED
    BY <1>2, <2>1, EdgeType
<1>4. ASSUME NEW x \in Idx(b)
      PROVE  LET w == ws[x]
                 u == Put(p, a, J, l)[x]
             IN  /\ u \in Wire
                 /\ u.val = IF x \in J THEN static_wire'[x - a.wire_off + 1] ELSE w.val
                 /\ u.edge = IF x \in J THEN EdgeOf(l[x]) ELSE w.edge
                 /\ u.last_port_drive = IF x = Counted /\ J # {} THEN p ELSE w.last_port_drive
                 /\ u.refcount = IF x = Counted /\ J # {} THEN w.refcount + Cardinality(J)
                                 ELSE w.refcount
  <2> DEFINE w == ws[x]
             v == static_wire'[x - a.wire_off + 1]
             e == EdgeOf(l[x])
             m == w.refcount + Cardinality(J)
             written == IF x \in J THEN [w EXCEPT !.edge = e, !.val = v] ELSE w
  <2>1. w \in Wire /\ m \in Nat /\ p \in Driver
    BY <1>1, <1>2 DEF Wire, WireOf, Driver
  <2>2. x \in J => v \in WireVal /\ e \in WireEdge
    BY <1>3
  <2>3. Put(p, a, J, l)[x] = IF x = Counted /\ J # {}
                             THEN [written EXCEPT !.last_port_drive = p,
                                                  !.refcount = @ + Cardinality(J)]
                             ELSE written
    BY <1>1 DEF Put
  <2> HIDE DEF v, e, w
  <2>4. /\ written \in Wire
        /\ written.val = IF x \in J THEN v ELSE w.val
        /\ written.edge = IF x \in J THEN e ELSE w.edge
        /\ written.last_port_drive = w.last_port_drive
        /\ written.refcount = w.refcount
    BY <2>1, <2>2 DEF Wire, WireOf
  <2> HIDE DEF written
  <2>5. [written EXCEPT !.last_port_drive = p, !.refcount = @ + Cardinality(J)]
          = [written EXCEPT !.last_port_drive = p, !.refcount = m]
    BY <2>4
  <2> HIDE DEF m
  <2> DEFINE u == Put(p, a, J, l)[x]
  <2>6. CASE x = Counted /\ J # {}
    <3>1. u = [written EXCEPT !.last_port_drive = p, !.refcount = m]
      BY <2>3, <2>5, <2>6
    <3>2. /\ u \in Wire
          /\ u.val = written.val /\ u.edge = written.edge
          /\ u.last_port_drive = p /\ u.refcount = m
      BY <2>1, <2>4, <3>1 DEF Wire, WireOf
    <3> HIDE DEF u
    <3> QED
      BY <2>4, <2>6, <3>2 DEF u, v, e, w, m
  <2>7. CASE ~(x = Counted /\ J # {})
    <3>1. u = written
      BY <2>3, <2>7
    <3> HIDE DEF u
    <3> QED
      BY <2>4, <2>7, <3>1 DEF u, v, e, w
  <2> QED
    BY <2>6, <2>7
<1>5. Put(p, a, J, l) \in [Idx(b) -> Wire]
  <2>1. DOMAIN Put(p, a, J, l) = Idx(b)
    BY <1>1 DEF Put
  <2> QED
    BY <1>1, <1>4, <2>1 DEF Put
<1> QED
  BY <1>4, <1>5
(* The value that an assignment has, and the edges made from it.           *)
LEMMA ValueType ==
  ASSUME AssignInv, AtAssign, NEW v \in Value(Current)
  PROVE  v \in Seq(WireVal)
<1>1. /\ Current.assign_type \in AssignType
      /\ Current.assign_func \subseteq Seq(WireVal)
      /\ Current.left_side_val \in Seq(WireVal) /\ Current.right_side_val \in Seq(WireVal)
  BY AtEntry DEF EntryOf
<1> HIDE DEF Current
<1>2. CASE Current.assign_type = "ASSIGN_CBACK"
  BY <1>1, <1>2 DEF Value
<1>3. CASE Current.assign_type = "ASSIGN_COND"
  BY <1>1, <1>3 DEF Value
<1>4. CASE Current.assign_type = "ASSIGN_CONST"
  BY <1>1, <1>4 DEF Value
<1> QED
  BY <1>1, <1>2, <1>3, <1>4 DEF AssignType

(* RunAssign, taken apart.                                                 *)
RunsWith(v, J, l) ==
  /\ v \in Value(Current)
  /\ static_wire' = (IF assigning.called THEN v ELSE static_wire)
  /\ J = Written(assigning.port, Current, Len(static_wire'))
  /\ l \in Logics(Current, v, J)
  /\ heap' = [heap EXCEPT ![wires[assigning.port]] = Put(assigning.port, Current, J, l)]
  /\ fault' = CASE J # {} /\ Counted \notin DOMAIN WiresOf(assigning.port) -> "write"
              [] \E j \in J : ReadAt(Current, j) > Len(v) -> "read"
              [] OTHER -> fault

LEMMA RunParts ==
  ASSUME AssignInv, RunAssign
  PROVE  /\ AtAssign
         /\ assigning.i' = assigning.i + 1 /\ assigning.port' = assigning.port
         /\ assigning.called' = FALSE
         /\ UNCHANGED <<wires, dirty, freed, signals, driven, frame, assigns>>
         /\ static_wire' \in Seq(WireVal)
         /\ \E v, J, l : RunsWith(v, J, l)
<1>1. AtAssign
  BY DEF RunAssign
<1>2. assigning' = [assigning EXCEPT !.i = @ + 1, !.called = FALSE]
  BY DEF RunAssign
<1>3. /\ assigning.i' = assigning.i + 1 /\ assigning.port' = assigning.port
      /\ assigning.called' = FALSE
  BY <1>2 DEF AssignInv, Position
<1>4. UNCHANGED <<wires, dirty, freed, signals, driven, frame, assigns>>
  BY DEF RunAssign
<1>5. \E v, J, l : RunsWith(v, J, l)
  BY DEF RunAssign, RunsWith
<1>6. static_wire' \in Seq(WireVal)
  <2>1. PICK v, J, l : RunsWith(v, J, l)
    BY <1>5
  <2> QED
    BY <1>1, <2>1, ValueType DEF RunsWith, AssignInv
<1> QED
  BY <1>1, <1>3, <1>4, <1>5, <1>6

LEMMA RunType ==
  ASSUME AssignInv, NEW v, NEW J, NEW l, RunsWith(v, J, l), AtAssign,
         static_wire' \in Seq(WireVal)
  PROVE  /\ J = Written(assigning.port, Current, Len(static_wire')) /\ l \in [J -> WireVal]
         /\ Len(static_wire') \in Nat
         /\ Put(assigning.port, Current, J, l) \in [Idx(wires[assigning.port]) -> Wire]
         /\ heap'[wires[assigning.port]] = Put(assigning.port, Current, J, l)
         /\ \A b \in Port : b # wires[assigning.port] => heap'[b] = heap[b]
         /\ DOMAIN heap' = Port
         /\ fault' \in {"none", "read", "write"}
<1>1. J = Written(assigning.port, Current, Len(static_wire')) /\ l \in [J -> WireVal]
  BY DEF RunsWith, Logics
<1>2. Len(static_wire') \in Nat
  BY LenProperties
<1>3. assigning.port \in Port /\ Current \in EntryOf(assigning.port)
  BY AtEntry
<1>4. Put(assigning.port, Current, J, l) \in [Idx(wires[assigning.port]) -> Wire]
  BY <1>1, <1>2, <1>3, PutWire DEF AssignInv
<1>5. wires[assigning.port] \in Port /\ DOMAIN heap = Port
  BY <1>3 DEF AssignInv, TypeInv, PortTypeOK
<1>6. heap' = [heap EXCEPT ![wires[assigning.port]] = Put(assigning.port, Current, J, l)]
  BY DEF RunsWith
<1>7. /\ heap'[wires[assigning.port]] = Put(assigning.port, Current, J, l)
      /\ \A b \in Port : b # wires[assigning.port] => heap'[b] = heap[b]
      /\ DOMAIN heap' = Port
  BY <1>5, <1>6
<1>8. fault' \in {"none", "read", "write"}
  BY DEF RunsWith, AssignInv
<1> QED
  BY <1>1, <1>2, <1>4, <1>7, <1>8

LEMMA TypeRunAssign == ASSUME AssignInv, RunAssign PROVE AssignInv'
<1>1. PICK v, J, l : RunsWith(v, J, l)
  BY RunParts
<1>2. /\ AtAssign
      /\ assigning.i' = assigning.i + 1 /\ assigning.port' = assigning.port
      /\ assigning.called' = FALSE
      /\ UNCHANGED <<wires, dirty, freed, signals, driven, frame, assigns>>
      /\ static_wire' \in Seq(WireVal)
  BY RunParts
<1>3. DOMAIN heap' = Port /\ \A p \in Port : heap'[p] \in [Idx(p) -> Wire]
  <2>1. DOMAIN heap' = Port
    BY <1>1, <1>2, RunType
  <2>2. \A p \in Port : heap'[p] = heap[p] \/ heap'[p] \in [Idx(p) -> Wire]
    BY <1>1, <1>2, RunType
  <2>3. \A p \in Port : heap[p] \in [Idx(p) -> Wire]
    BY DEF AssignInv, TypeInv, PortTypeOK, Wire, Driver
  <2> QED
    BY <2>1, <2>2, <2>3
<1>4. TypeInv'
  <2>1. PortTypeOK'
    BY <1>2, <1>3 DEF AssignInv, TypeInv, PortTypeOK, Wire, Driver
  <2>2. LinkedWidths'
    BY <1>2 DEF AssignInv, TypeInv, LinkedWidths
  <2> QED
    BY <2>1, <2>2 DEF TypeInv
<1>5. Lists'
  BY <1>2, ListsSame DEF AssignInv
<1>6. Position'
  <2>1. assigning' \in [port : Port \cup {NoPort}, i : Nat, called : BOOLEAN]
    <3> DEFINE k == assigning.i + 1
    <3>1. assigning' = [assigning EXCEPT !.i = k, !.called = FALSE]
      BY DEF RunAssign
    <3>2. k \in Nat
      BY DEF AssignInv, Position
    <3> HIDE DEF k
    <3>3. assigning \in [port : Port \cup {NoPort}, i : Nat, called : BOOLEAN]
      BY DEF AssignInv, Position
    <3> QED
      BY <3>1, <3>2, <3>3
  <2> QED
    BY <1>2, <2>1, AtEntry DEF Position
<1>7. fault' \in {"none", "read", "write"}
  BY <1>1, <1>2, RunType
<1> QED
  BY <1>2, <1>4, <1>5, <1>6, <1>7 DEF AssignInv

LEMMA TypeBeginAssigns == ASSUME AssignInv, NEW p \in Port, BeginAssigns(p) PROVE AssignInv'
<1>1. assigning' = [port |-> p, i |-> 0, called |-> FALSE]
  BY DEF BeginAssigns, NotAssigning
<1>2. UNCHANGED <<portVars, assigns, static_wire, fault>> /\ frame = Idle
  BY DEF BeginAssigns
<1>3. TypeInv'
  BY <1>2, TypeNext, AssignWidths DEF AssignInv
<1>4. Lists'
  BY <1>2, ListsSame DEF AssignInv
<1>5. Len(assigns[p]) \in Nat
  BY ListTypes DEF AssignInv
<1>6. Position'
  BY <1>1, <1>2, <1>5 DEF Position, portVars
<1> QED
  BY <1>2, <1>3, <1>4, <1>6 DEF AssignInv

LEMMA TypeCallFunc == ASSUME AssignInv, CallFunc PROVE AssignInv'
<1>1. /\ AtAssign /\ Current.assign_type = "ASSIGN_CBACK" /\ Current.assign_func # {}
      /\ assigning' = [assigning EXCEPT !.called = TRUE]
  BY DEF CallFunc
<1>2. UNCHANGED <<portVars, assigns, static_wire, fault>>
  BY DEF CallFunc
<1>3. TypeInv'
  BY <1>2, TypeNext, AssignWidths DEF AssignInv
<1>4. Lists'
  BY <1>2, ListsSame DEF AssignInv
<1>5. assigning'.port = assigning.port /\ assigning'.i = assigning.i
      /\ assigning' \in [port : Port \cup {NoPort}, i : Nat, called : BOOLEAN]
  BY <1>1 DEF AssignInv, Position
<1>6. Calling'
  BY <1>1, <1>2, <1>5 DEF Calling, AtAssign, Current
<1>7. Position'
  BY <1>2, <1>5, <1>6 DEF AssignInv, Position, portVars
<1> QED
  BY <1>2, <1>3, <1>4, <1>7 DEF AssignInv

LEMMA TypeSkipAssign == ASSUME AssignInv, SkipAssign PROVE AssignInv'
<1>1. AtAssign /\ Current.assign_func = {} /\ assigning' = [assigning EXCEPT !.i = @ + 1]
  BY DEF SkipAssign
<1>2. UNCHANGED <<portVars, assigns, static_wire, fault>>
  BY DEF SkipAssign
<1>3. TypeInv'
  BY <1>2, TypeNext, AssignWidths DEF AssignInv
<1>4. Lists'
  BY <1>2, ListsSame DEF AssignInv
<1>5. /\ assigning'.port = assigning.port /\ assigning'.i = assigning.i + 1
      /\ assigning'.called = assigning.called
      /\ assigning' \in [port : Port \cup {NoPort}, i : Nat, called : BOOLEAN]
  BY <1>1 DEF AssignInv, Position
<1>6. ~assigning.called
  BY <1>1 DEF AssignInv, Position, Calling
<1>7. Position'
  BY <1>1, <1>2, <1>5, <1>6, AtEntry DEF Position, portVars
<1> QED
  BY <1>2, <1>3, <1>4, <1>7 DEF AssignInv
LEMMA TypeEndAssigns == ASSUME AssignInv, EndAssigns PROVE AssignInv'
<1>1. assigning.port \in Port
  BY DEF EndAssigns, AssignInv, Position
<1>2. UNCHANGED <<heap, wires, dirty, freed, signals, driven, assigns, static_wire, fault>>
  BY DEF EndAssigns
<1>3. TypeInv'
  <2>1. 0 \in Idx(assigning.port)
    BY <1>1, IdxInterval DEF Idx
  <2>2. /\ frame' \in [port : Port, wire : Nat, called : SUBSET Signal, raised : BOOLEAN]
        /\ frame'.wire \in Idx(frame'.port) \cap Idx(wires'[frame'.port])
    BY <1>1, <1>2, <2>1 DEF EndAssigns, Idle, AssignInv, TypeInv, LinkedWidths, Idx
  <2> QED
    BY <1>2, <2>2 DEF AssignInv, TypeInv, PortTypeOK, LinkedWidths
<1>4. Lists'
  BY <1>2, ListsSame DEF AssignInv
<1>5. Position'
  BY DEF EndAssigns, NotAssigning, Position
<1> QED
  BY <1>2, <1>3, <1>4, <1>5 DEF AssignInv

(* User code between updates and in a function: the list that is being run *)
(* may grow.                                                               *)
LEMMA UserPosition ==
  ASSUME AssignInv, UserStep, Lists', Grown, assigning' = assigning,
         assigning.called => frame' = frame
  PROVE  Position'
<1>1. CASE assigning.port = NoPort
  <2>1. ~assigning.called
    BY <1>1 DEF AssignInv, Position, Calling, AtAssign
  <2> QED
    BY <1>1, <2>1 DEF AssignInv, Position
<1>2. CASE assigning.port # NoPort
  <2>1. assigning.called /\ frame' = frame
    BY <1>2 DEF UserStep
  <2>2. Calling
    BY <2>1 DEF AssignInv, Position
  <2>3. /\ assigning.port \in Port /\ assigning.i \in Nat
        /\ Len(assigns[assigning.port]) \in Nat
        /\ assigning.i + 1 \in 1 .. Len(assigns[assigning.port])
    BY <2>2, AtEntry DEF Calling
  <2>4. Len(assigns'[assigning.port]) \in Nat
    <3>1. assigns'[assigning.port] \in Seq(EntryOf(assigning.port))
      BY <2>3 DEF Lists
    <3> QED
      BY <3>1, LenProperties
  <2>5. Len(assigns'[assigning.port]) >= Len(assigns[assigning.port])
    BY <2>3 DEF Grown
  <2>6. assigning.i < Len(assigns'[assigning.port])
    BY <2>3, <2>4, <2>5
  <2>7. Calling'
    BY <2>2, <2>3, <2>6, <1>2 DEF Calling, AtAssign, Current, Grown
  <2> QED
    BY <2>1, <2>3, <2>4, <2>6, <2>7 DEF AssignInv, Position
<1> QED
  BY <1>1, <1>2

LEMMA UserParts ==
  ASSUME AssignInv, UserStep
  PROVE  /\ Lists' /\ Grown
         /\ assigning' = assigning /\ fault' = fault /\ frame' = frame
         /\ static_wire' \in Seq(WireVal)
         /\ \/ UserCall /\ UNCHANGED assignVars
            \/ UNCHANGED portVars
<1>1. CASE UserCall /\ UNCHANGED assignVars
  <2>1. frame' = frame
    BY <1>1 DEF UserCall, Connect, Drive, SetSensitivity, OnChange
  <2> QED
    BY <1>1, <2>1, ListsSame DEF AssignInv, assignVars
<1>2. ASSUME NEW c \in AssignCalls, Assign(c)
      PROVE  /\ Lists' /\ Grown
             /\ assigning' = assigning /\ fault' = fault /\ frame' = frame
             /\ static_wire' \in Seq(WireVal)
             /\ UNCHANGED portVars
  <2>1. UNCHANGED <<portVars, assigning, fault>> /\ static_wire' = Converted(c)
    BY <1>2 DEF Assign
  <2>2. Converted(c) \in Seq(WireVal)
    <3>1. c.left \in Seq(WireVal) /\ c.right \in Seq(WireVal) /\ c.type \in AssignType
      BY AssignAssumption
    <3>2. Reverse(c.left) \in Seq(WireVal) /\ Reverse(c.right) \in Seq(WireVal)
      BY <3>1, Reversed
    <3>3. CASE c.type = "ASSIGN_CBACK"
      BY <3>3 DEF Converted, AssignInv
    <3>4. CASE c.type = "ASSIGN_COND"
      BY <3>2, <3>4 DEF Converted
    <3>5. CASE c.type = "ASSIGN_CONST"
      BY <3>2, <3>5 DEF Converted
    <3> QED
      BY <3>1, <3>3, <3>4, <3>5 DEF AssignType
  <2> QED
    BY <1>2, <2>1, <2>2, ListsAssign DEF AssignInv, portVars
<1>3. ASSUME NEW c \in CondCalls, UpdateCondition(c)
      PROVE  /\ Lists' /\ Grown
             /\ assigning' = assigning /\ fault' = fault /\ frame' = frame
             /\ static_wire' \in Seq(WireVal)
             /\ UNCHANGED portVars
  <2>1. UNCHANGED <<portVars, static_wire, assigning, fault>>
    BY <1>3 DEF UpdateCondition
  <2> QED
    BY <1>3, <2>1, ListsCondition DEF AssignInv, portVars
<1> QED
  BY <1>1, <1>2, <1>3 DEF UserStep

LEMMA TypeUserStep == ASSUME AssignInv, UserStep PROVE AssignInv'
<1>1. /\ Lists' /\ Grown
      /\ assigning' = assigning /\ fault' = fault /\ frame' = frame
      /\ static_wire' \in Seq(WireVal)
  BY UserParts
<1>2. [PortNext]_portVars
  BY UserParts DEF PortNext
<1>3. TypeInv'
  BY <1>2, TypeNext, AssignWidths DEF AssignInv
<1>4. Position'
  BY <1>1, UserPosition
<1> QED
  BY <1>1, <1>3, <1>4 DEF AssignInv

LEMMA TypeUpdateStep ==
  ASSUME AssignInv, CheckWire \/ RaiseSignal \/ SignalReturns, UNCHANGED assignVars
  PROVE  AssignInv' /\ assigning.port = NoPort
<1>1. assigning.port = NoPort
  BY DEF AssignInv, Position, CheckWire, RaiseSignal, SignalReturns, Idle
<1>2. TypeInv'
  BY TypeNext, AssignWidths DEF AssignInv, PortNext
<1>3. Lists'
  BY ListsSame DEF AssignInv, assignVars
<1>4. ~assigning.called
  BY <1>1 DEF AssignInv, Position, Calling, AtAssign
<1>5. Position'
  BY <1>1, <1>4 DEF AssignInv, Position, assignVars
<1> QED
  BY <1>1, <1>2, <1>3, <1>5 DEF AssignInv, assignVars

LEMMA AssignTypeNext == AssignInv /\ [AssignNext]_<<portVars, assignVars>> => AssignInv'
<1> SUFFICES ASSUME AssignInv, [AssignNext]_<<portVars, assignVars>> PROVE AssignInv'
  OBVIOUS
<1>1. CASE UNCHANGED <<portVars, assignVars>>
  <2>1. TypeInv'
    BY <1>1, TypeNext, AssignWidths DEF AssignInv
  <2>2. Lists'
    BY <1>1, ListsSame DEF AssignInv, assignVars
  <2>3. Position'
    BY <1>1 DEF AssignInv, Position, Calling, AtAssign, Current, assignVars, portVars
  <2> QED
    BY <1>1, <2>1, <2>2, <2>3 DEF AssignInv, assignVars
<1>2. ASSUME NEW p \in Port, BeginAssigns(p) PROVE AssignInv'
  BY <1>2, TypeBeginAssigns
<1> QED
  BY <1>1, <1>2, TypeUserStep, TypeCallFunc, TypeSkipAssign, TypeRunAssign, TypeEndAssigns,
     TypeUpdateStep DEF AssignNext

LEMMA AssignInvariant == AssignSpec => []AssignInv
  BY AssignInitType, AssignTypeNext, PTL DEF AssignSpec

(* Typing: whatever user code assigns, with offsets and lengths that fit   *)
(* or not, an entry keeps to its port's wires, and update to its list.     *)
THEOREM AssignTypes == AssignSpec => []AssignTypeOK
<1>1. AssignInv => AssignTypeOK
  BY DEF AssignInv, TypeInv, Lists, EntryOf, Position, AssignTypeOK
<1> QED
  BY <1>1, AssignInvariant, PTL
-----------------------------------------------------------------------------
(* Who drives a wire, and what counts on it.                               *)

(* Only a drive call that is accepted and the run of an assignment put a   *)
(* driver on a wire and count on it.                                       *)
DroveNow(b, i) ==
  \E c \in DriveCalls :
    /\ Accepts(c)
    /\ b = wires[c.port]
    /\ i \in c.off .. c.off + c.len - 1
    /\ heap'[b][i].last_port_drive = c.port

AssignedNow(b, i) ==
  /\ AtAssign
  /\ b = wires[assigning.port]
  /\ i = assigning.i
  /\ heap'[b][i].last_port_drive = assigning.port

KeptDriver(b, i) ==
  /\ heap'[b][i].last_port_drive = heap[b][i].last_port_drive
  /\ heap'[b][i].refcount \in {0, heap[b][i].refcount}

LEMMA DriverDrive ==
  ASSUME TypeInv, NEW c \in DriveCalls, Drive(c), NEW b \in Port, NEW i \in Idx(b)
  PROVE  DroveNow(b, i) \/ KeptDriver(b, i)
<1> DEFINE ws == heap[wires[c.port]]
           T == Takers(ws, c.off, c.len, c.vals)
<1>1. /\ c.port \in Port /\ c.off \in Nat /\ c.len \in Nat
      /\ wires[c.port] \in Port /\ DOMAIN heap = Port /\ heap[b] \in [Idx(b) -> Wire]
  BY PortAssumption DEF TypeInv, PortTypeOK, Wire, Driver
<1>2. heap' = [heap EXCEPT ![wires[c.port]] = DriveWires(ws, c.off, c.len, c.vals, c.port)]
  BY DEF Drive
<1>3. CASE b # wires[c.port]
  BY <1>1, <1>2, <1>3 DEF KeptDriver
<1>4. CASE b = wires[c.port]
  <2>1. heap'[b] = DriveWires(ws, c.off, c.len, c.vals, c.port)
    BY <1>1, <1>2, <1>4
  <2>2. ws[i] \in Wire /\ i \in DOMAIN ws
    BY <1>1, <1>4
  <2>3. CASE i \in T
    <3>1. heap'[b][i].last_port_drive = c.port
      <4>1. Nullified(ws[i]) \in Wire
        BY <2>2, NullifiedType
      <4> DEFINE v == c.vals[Len(c.vals) - Before(Undriven(ws, c.off, c.len), i)]
      <4>2. heap'[b][i] = DrivenBy(Nullified(ws[i]), v, c.port)
        BY <2>1, <2>2, <2>3 DEF DriveWires
      <4> HIDE DEF v
      <4> QED
        BY <4>1, <4>2 DEF DrivenBy, Wire, WireOf
    <3>2. i \in c.off .. c.off + c.len - 1
      BY <1>1, <2>3 DEF Takers, Undriven, Window, Idx
    <3> QED
      BY <1>4, <3>1, <3>2 DEF DroveNow, Drive
  <2>4. CASE i \notin T
    <3>1. heap'[b][i] = Nullified(ws[i])
      BY <2>1, <2>2, <2>4 DEF DriveWires
    <3> QED
      BY <1>4, <2>2, <3>1 DEF Nullified, Wire, WireOf, KeptDriver
  <2> QED
    BY <2>3, <2>4
<1> QED
  BY <1>3, <1>4

LEMMA DriverConnect ==
  ASSUME TypeInv, NEW src \in Port, NEW dst \in Port, Connect(src, dst),
         NEW b \in Port, NEW i \in Idx(b)
  PROVE  KeptDriver(b, i)
<1>1. wires[src] \in Port /\ DOMAIN heap = Port /\ heap[b] \in [Idx(b) -> Wire]
  BY DEF TypeInv, PortTypeOK, Wire, Driver
<1>2. heap'[b][i] = heap[b][i] \/ heap'[b][i] = Linked(heap[b][i])
  <2> DEFINE ws == [x \in Idx(wires[src]) |-> Linked(heap[wires[src]][x])]
  <2>1. heap' = [heap EXCEPT ![wires[src]] = ws]
    BY DEF Connect
  <2>2. CASE b = wires[src]
    <3>1. heap'[b] = ws
      BY <1>1, <2>1, <2>2
    <3> QED
      BY <2>2, <3>1
  <2>3. CASE b # wires[src]
    BY <1>1, <2>1, <2>3
  <2> QED
    BY <2>2, <2>3
<1>3. heap[b][i] \in Wire
  BY <1>1
<1> QED
  BY <1>2, <1>3 DEF Linked, Wire, WireOf, KeptDriver

LEMMA DriverUpdate ==
  ASSUME TypeInv, CheckWire \/ RaiseSignal \/ SignalReturns, NEW b \in Port, NEW i \in Idx(b)
  PROVE  KeptDriver(b, i)
<1> DEFINE w == UpdatedWire
<1>1. frame.port # NoPort
  BY DEF CheckWire, RaiseSignal, SignalReturns
<1>2. w \in Wire /\ wires[frame.port] \in Port /\ frame.wire \in Idx(wires[frame.port])
  BY <1>1, Updated
<1>3. DOMAIN heap = Port /\ \A p \in Port : heap[p] \in [Idx(p) -> Wire]
  BY DEF TypeInv, PortTypeOK, Wire, Driver
<1>4. /\ Checked(w).last_port_drive = w.last_port_drive /\ Checked(w).refcount = w.refcount
      /\ Checked(w) \in Wire
  <2> HIDE DEF w
  <2>1. Checked(w).last_port_drive = w.last_port_drive /\ Checked(w).refcount = w.refcount
    BY <1>2 DEF Checked, Wire, WireOf
  <2> QED
    BY <1>2, <2>1, CheckedType
<1>5. ASSUME NEW u \in Wire PROVE Released(u).last_port_drive = u.last_port_drive
                                  /\ Released(u).refcount = 0
  BY DEF Released, Wire, WireOf
<1>6. PICK u : /\ SetUpdatedWire(u)
               /\ u.last_port_drive = w.last_port_drive /\ u.refcount \in {0, w.refcount}
  <2>1. CASE CheckWire
    BY <1>4, <1>5, <2>1 DEF CheckWire
  <2>2. CASE RaiseSignal
    BY <1>4, <2>2 DEF RaiseSignal
  <2>3. CASE SignalReturns
    BY <1>2, <1>5, <2>3 DEF SignalReturns
  <2> QED
    BY <2>1, <2>2, <2>3
<1>7. heap' = [heap EXCEPT ![wires[frame.port]] = [@ EXCEPT ![frame.wire] = u]]
  BY <1>6 DEF SetUpdatedWire
<1>8. w = heap[wires[frame.port]][frame.wire]
  BY DEF UpdatedWire, WiresOf
<1> HIDE DEF w
<1>9. CASE b = wires[frame.port] /\ i = frame.wire
  <2>1. heap'[b][i] = u
    BY <1>2, <1>3, <1>7, <1>9
  <2> QED
    BY <1>6, <1>8, <1>9, <2>1 DEF KeptDriver
<1>10. CASE ~(b = wires[frame.port] /\ i = frame.wire)
  <2>1. heap'[b][i] = heap[b][i]
    BY <1>2, <1>3, <1>7, <1>10
  <2> QED
    BY <2>1 DEF KeptDriver
<1> QED
  BY <1>9, <1>10

LEMMA DriverRun ==
  ASSUME AssignInv, RunAssign, NEW b \in Port, NEW i \in Idx(b)
  PROVE  AssignedNow(b, i) \/ KeptDriver(b, i)
<1> DEFINE p == assigning.port
<1>1. PICK v, J, l : RunsWith(v, J, l)
  BY RunParts
<1>2. AtAssign /\ static_wire' \in Seq(WireVal) /\ p \in Port /\ Current \in EntryOf(p)
  BY RunParts, AtEntry
<1>3. /\ J = Written(p, Current, Len(static_wire')) /\ l \in [J -> WireVal]
      /\ Len(static_wire') \in Nat
      /\ heap'[wires[p]] = Put(p, Current, J, l)
      /\ \A c \in Port : c # wires[p] => heap'[c] = heap[c]
  BY <1>1, <1>2, RunType
<1>4. CASE b # wires[p]
  BY <1>3, <1>4 DEF KeptDriver
<1>5. CASE b = wires[p]
  <2>1. /\ heap'[b][i].last_port_drive =
             (IF i = Counted /\ J # {} THEN p ELSE heap[b][i].last_port_drive)
        /\ heap'[b][i].refcount =
             (IF i = Counted /\ J # {} THEN heap[b][i].refcount + Cardinality(J)
              ELSE heap[b][i].refcount)
    BY <1>2, <1>3, <1>5, PutWire DEF AssignInv
  <2>2. CASE i = Counted /\ J # {}
    BY <1>2, <1>5, <2>1, <2>2 DEF AssignedNow, Counted
  <2>3. CASE ~(i = Counted /\ J # {})
    BY <2>1, <2>3 DEF KeptDriver
  <2> QED
    BY <2>2, <2>3
<1> QED
  BY <1>4, <1>5

LEMMA DriverStep ==
  ASSUME AssignInv, [AssignNext]_<<portVars, assignVars>>, NEW b \in Port, NEW i \in Idx(b)
  PROVE  DroveNow(b, i) \/ AssignedNow(b, i) \/ KeptDriver(b, i)
<1>1. CASE heap' = heap
  BY <1>1 DEF KeptDriver
<1>2. CASE UserStep /\ UserCall
  <2>1. ASSUME NEW c \in Links, Connect(c[1], c[2]) PROVE KeptDriver(b, i)
    <3>1. c[1] \in Port /\ c[2] \in Port
      BY PortAssumption
    <3> QED
      BY <2>1, <3>1, DriverConnect DEF AssignInv
  <2>2. ASSUME NEW c \in DriveCalls, Drive(c) PROVE DroveNow(b, i) \/ KeptDriver(b, i)
    BY <2>2, DriverDrive DEF AssignInv
  <2> QED
    BY <1>1, <1>2, <2>1, <2>2 DEF UserCall, SetSensitivity, OnChange
<1>3. CASE UserStep /\ UNCHANGED portVars
  BY <1>1, <1>3 DEF portVars
<1>4. CASE CheckWire \/ RaiseSignal \/ SignalReturns
  BY <1>4, DriverUpdate DEF AssignInv
<1>5. CASE RunAssign
  BY <1>5, DriverRun
<1>6. CASE CallFunc \/ SkipAssign \/ EndAssigns \/ \E p \in Port : BeginAssigns(p)
  BY <1>1, <1>6 DEF CallFunc, SkipAssign, EndAssigns, BeginAssigns, portVars
<1>7. CASE UNCHANGED <<portVars, assignVars>>
  BY <1>1, <1>7 DEF portVars
<1> QED
  BY <1>2, <1>3, <1>4, <1>5, <1>6, <1>7, UserParts DEF AssignNext

(* The lists only grow.                                                    *)
LEMMA GrownNext ==
  ASSUME AssignInv, [AssignNext]_<<portVars, assignVars>>
  PROVE  Grown
<1>1. CASE assigns' = assigns
  BY <1>1, ListsSame DEF AssignInv
<1>2. CASE UserStep
  BY <1>2, UserParts
<1> QED
  BY <1>1, <1>2 DEF AssignNext, BeginAssigns, CallFunc, SkipAssign, RunAssign, EndAssigns,
                    assignVars

(* An input has no assignments.                                            *)
InputsListNothing == \A p \in Port : Len(assigns[p]) > 0 => Dir[p] # "PORT_INPUT"

LEMMA ListNothingNext ==
  AssignInv /\ InputsListNothing /\ [AssignNext]_<<portVars, assignVars>> => InputsListNothing'
<1> SUFFICES ASSUME AssignInv, InputsListNothing, [AssignNext]_<<portVars, assignVars>>,
                    NEW p \in Port, Len(assigns'[p]) > 0
             PROVE  Dir[p] # "PORT_INPUT"
  BY DEF InputsListNothing
<1>1. CASE assigns'[p] = assigns[p]
  BY <1>1 DEF InputsListNothing
<1>2. ASSUME NEW c \in AssignCalls, Assign(c)
      PROVE  (p = c.port /\ MayAssign(p)) \/ assigns'[p] = assigns[p]
  BY <1>2 DEF Assign, AssignInv, Lists
<1>3. ASSUME NEW c \in CondCalls, UpdateCondition(c)
      PROVE  (p = c.port /\ MayAssign(p)) \/ assigns'[p] = assigns[p]
  BY <1>3 DEF UpdateCondition, AssignInv, Lists
<1> QED
  BY <1>1, <1>2, <1>3 DEF AssignNext, UserStep, MayAssign, BeginAssigns, CallFunc, SkipAssign,
                          RunAssign, EndAssigns, assignVars

LEMMA InputsNext ==
  AssignInv /\ InputsListNothing /\ InputsNeverDrive /\ [AssignNext]_<<portVars, assignVars>>
    => InputsNeverDrive'
<1> SUFFICES ASSUME AssignInv, InputsListNothing, InputsNeverDrive,
                    [AssignNext]_<<portVars, assignVars>>, NEW b \in Port, NEW i \in Idx(b),
                    heap'[b][i].last_port_drive # NoPort
             PROVE  Dir[heap'[b][i].last_port_drive] # "PORT_INPUT"
  BY DEF InputsNeverDrive
<1>1. CASE DroveNow(b, i)
  BY <1>1 DEF DroveNow, Accepts
<1>2. CASE AssignedNow(b, i)
  <2>1. assigning.port \in Port /\ Len(assigns[assigning.port]) > 0
    BY <1>2, AtEntry DEF AssignedNow
  <2> QED
    BY <1>2, <2>1 DEF AssignedNow, InputsListNothing
<1>3. CASE KeptDriver(b, i)
  BY <1>3 DEF KeptDriver, InputsNeverDrive
<1> QED
  BY <1>1, <1>2, <1>3, DriverStep

(* An input never drives a wire, whatever user code calls: port.cpp        *)
(* refuses drive and all assign calls for it, and no update of a port that *)
(* shares its vector names it.                                             *)
THEOREM InputsAreSilent == AssignSpec => []InputsNeverDrive
<1>1. AssignInit => InputsListNothing /\ InputsNeverDrive
  <2> SUFFICES ASSUME AssignInit PROVE InputsListNothing /\ InputsNeverDrive
    OBVIOUS
  <2>1. InputsListNothing
    BY EmptySeq DEF AssignInit, InputsListNothing
  <2>2. InputsNeverDrive
    BY DEF AssignInit, PortInit, NewWire, InputsNeverDrive
  <2> QED
    BY <2>1, <2>2
<1> QED
  BY <1>1, AssignInvariant, ListNothingNext, InputsNext, PTL DEF AssignSpec

(* A pending drive on a wire names its driver.                             *)
Named ==
  \A b \in Port : \A i \in Idx(b) :
    heap[b][i].refcount > 0 => heap[b][i].last_port_drive # NoPort

LEMMA AnnouncedNext ==
  AssignInv /\ Named /\ AnnouncedByNumber /\ [AssignNext]_<<portVars, assignVars>>
    => Named' /\ AnnouncedByNumber'
<1> SUFFICES ASSUME AssignInv, Named, AnnouncedByNumber, [AssignNext]_<<portVars, assignVars>>,
                    NEW b \in Port, NEW i \in Idx(b), heap'[b][i].refcount > 0
             PROVE  LET p == heap'[b][i].last_port_drive
                    IN  /\ p # NoPort
                        /\ \/ i < Len(assigns'[p])
                           \/ \E c \in DriveCalls : c.port = p /\ i \in c.off .. c.off + c.len - 1
  BY DEF Named, AnnouncedByNumber
<1>0. \A p \in Port : /\ Len(assigns[p]) \in Nat /\ Len(assigns'[p]) \in Nat
                      /\ Len(assigns'[p]) >= Len(assigns[p])
  <2>1. Lists'
    BY AssignTypeNext DEF AssignInv
  <2>2. \A p \in Port : Len(assigns'[p]) \in Nat
    BY <2>1, LenProperties DEF Lists
  <2> QED
    BY <2>2, GrownNext, ListTypes DEF Grown, AssignInv
<1>1. CASE DroveNow(b, i)
  BY <1>1, PortAssumption DEF DroveNow
<1>2. CASE AssignedNow(b, i)
  <2>1. assigning.port \in Port /\ i < Len(assigns[assigning.port]) /\ i \in Nat
    BY <1>2, AtEntry DEF AssignedNow, AtAssign
  <2> QED
    BY <1>0, <1>2, <2>1, PortAssumption DEF AssignedNow
<1>3. CASE KeptDriver(b, i)
  <2> DEFINE p == heap[b][i].last_port_drive
  <2>1. heap[b][i].refcount > 0 /\ heap'[b][i].last_port_drive = p
    BY <1>3 DEF KeptDriver
  <2>2. p \in Port
    BY <2>1 DEF Named, AssignInv, TypeInv, PortTypeOK, WireOf
  <2>3. \/ i < Len(assigns[p])
        \/ \E c \in DriveCalls : c.port = p /\ i \in c.off .. c.off + c.len - 1
    BY <2>1 DEF AnnouncedByNumber
  <2>4. i \in Nat
    BY IdxInterval DEF Idx
  <2> QED
    BY <1>0, <2>1, <2>2, <2>3, <2>4, PortAssumption
<1> QED
  BY <1>1, <1>2, <1>3, DriverStep

(* What assignments put on a wire is announced only on the wire that has   *)
(* the number of the assignment (port.cpp counts and marks the wire that   *)
(* the loop over the assignments has for index).                           *)
THEOREM NumbersAnnounce == AssignSpec => []AnnouncedByNumber
<1>1. AssignInit => Named /\ AnnouncedByNumber
  BY DEF AssignInit, PortInit, NewWire, Named, AnnouncedByNumber
<1> QED
  BY <1>1, AssignInvariant, AnnouncedNext, PTL DEF AssignSpec

(* Connections are made by calls of user code only, as in Port.            *)
LEMMA WiresNext ==
  ASSUME AssignInv, FlatLinks, [AssignNext]_<<portVars, assignVars>>
  PROVE  /\ RegsOwn => RegsOwn'
         /\ LinkOrigin(Links) => LinkOrigin(Links)'
<1>1. [PortNext]_portVars \/ UNCHANGED <<wires, dirty>>
  <2>1. CASE UserStep
    BY <2>1, UserParts DEF PortNext
  <2>2. CASE CheckWire \/ RaiseSignal \/ SignalReturns
    BY <2>2 DEF PortNext
  <2> QED
    BY <2>1, <2>2
    DEF AssignNext, BeginAssigns, CallFunc, SkipAssign, RunAssign, EndAssigns, portVars
<1>2. CASE [PortNext]_portVars
  BY <1>2, RegsNext, OriginNext DEF AssignInv
<1>3. CASE UNCHANGED <<wires, dirty>>
  BY <1>3 DEF RegsOwn, LinkOrigin
<1> QED
  BY <1>1, <1>2, <1>3

(* A register points to the vector it allocated, and any other port to its *)
(* own or to that of its source, which gives the vector that a drive call  *)
(* or an assignment writes to.                                             *)
LEMMA DriversNext ==
  ASSUME FlatLinks
  PROVE  AssignInv /\ Named /\ OwnerOrAssigner /\ RegsOwn /\ LinkOrigin(Links)
         /\ Named' /\ [AssignNext]_<<portVars, assignVars>> => OwnerOrAssigner'
<1> SUFFICES ASSUME AssignInv, Named, OwnerOrAssigner, RegsOwn, LinkOrigin(Links), Named',
                    [AssignNext]_<<portVars, assignVars>>, NEW b \in Port, NEW i \in Idx(b),
                    heap'[b][i].last_port_drive # NoPort
             PROVE  LET d == heap'[b][i].last_port_drive
                    IN  \/ d = b /\ Type[b] = "PORT_REG"
                        \/ (d = b \/ <<b, d>> \in Links) /\ assigns'[d] # <<>>
  BY DEF OwnerOrAssigner, Named
<1>1. ASSUME NEW d \in Port, assigns[d] # <<>> PROVE assigns'[d] # <<>>
  <2>1. assigns[d] \in Seq(EntryOf(d)) /\ assigns'[d] \in Seq(EntryOf(d))
    BY AssignTypeNext DEF AssignInv, Lists
  <2>2. /\ Len(assigns[d]) \in Nat /\ Len(assigns[d]) # 0
        /\ Len(assigns'[d]) \in Nat /\ Len(assigns'[d]) >= Len(assigns[d])
    BY <1>1, <2>1, GrownNext, EmptySeq, LenProperties DEF Grown
  <2> QED
    BY <2>2, EmptySeq
<1>2. CASE DroveNow(b, i)
  BY <1>2, PortAssumption DEF DroveNow, Accepts, RegsOwn
<1>3. CASE AssignedNow(b, i)
  <2> DEFINE d == assigning.port
  <2>1. /\ d \in Port /\ Len(assigns[d]) > 0
        /\ b = wires[d] /\ heap'[b][i].last_port_drive = d
    BY <1>3, AtEntry DEF AssignedNow
  <2>2. assigns[d] # <<>>
    BY <2>1, EmptySeq
  <2>3. d = b \/ <<b, d>> \in Links
    BY <2>1 DEF LinkOrigin
  <2> HIDE DEF d
  <2> QED
    BY <1>1, <2>1, <2>2, <2>3
<1>4. CASE KeptDriver(b, i)
  <2> DEFINE d == heap[b][i].last_port_drive
  <2>1. d # NoPort /\ heap'[b][i].last_port_drive = d
    BY <1>4 DEF KeptDriver
  <2>2. d \in Port
    BY <2>1 DEF AssignInv, TypeInv, PortTypeOK, WireOf
  <2>3. \/ d = b /\ Type[b] = "PORT_REG"
        \/ (d = b \/ <<b, d>> \in Links) /\ assigns[d] # <<>>
    BY <2>1 DEF OwnerOrAssigner
  <2> HIDE DEF d
  <2> QED
    BY <1>1, <2>1, <2>2, <2>3
<1> QED
  BY <1>2, <1>3, <1>4, DriverStep

(* With flat links only the register that allocated a vector, and ports    *)
(* with assignments that point to it (the allocator, or a port it is the   *)
(* source of), drive its wires (Port::drive, and the loop over the         *)
(* assignments in Port::update), and a wire that counts as driven names    *)
(* its driver.                                                             *)
THEOREM DriversAreKnown == ASSUME FlatLinks PROVE AssignSpec => []OwnerOrAssigner
<1>1. AssignInit => /\ Named /\ AnnouncedByNumber /\ OwnerOrAssigner
                    /\ RegsOwn /\ LinkOrigin(Links)
  <2>1. AssignInit => Named /\ AnnouncedByNumber /\ OwnerOrAssigner
    BY DEF AssignInit, PortInit, NewWire, Named, AnnouncedByNumber, OwnerOrAssigner
  <2> QED
    BY <2>1, RegsInit, OriginInit DEF AssignInit
<1>2. AssignInv /\ Named /\ AnnouncedByNumber /\ OwnerOrAssigner /\ RegsOwn /\ LinkOrigin(Links)
      /\ [AssignNext]_<<portVars, assignVars>>
        => (Named /\ AnnouncedByNumber /\ OwnerOrAssigner /\ RegsOwn /\ LinkOrigin(Links))'
  BY AnnouncedNext, DriversNext, WiresNext
<1> QED
  BY <1>1, <1>2, AssignInvariant, PTL DEF AssignSpec
-----------------------------------------------------------------------------
(* When no access leaves its vector.                                       *)

(* Uniform, for one length of the values.                                  *)
UniformAt(n) ==
  \A p \in Port : \A k \in 1 .. Len(assigns[p]) :
    LET a == assigns[p][k]
    IN  /\ n = Width[p]
        /\ Len(assigns[p]) <= Width[p]
        /\ a.assign_type # "ASSIGN_CBACK" => Len(a.left_side_val) = n
        /\ a.assign_type = "ASSIGN_COND" => Len(a.right_side_val) = n
        /\ \A v \in a.assign_func : Len(v) = n

LEMMA UniformIs ==
  ASSUME Lists PROVE Uniform <=> \E n \in {Width[q] : q \in Port} : UniformAt(n)
<1>1. \A p \in Port : DOMAIN assigns[p] = 1 .. Len(assigns[p])
  <2> SUFFICES ASSUME NEW p \in Port PROVE DOMAIN assigns[p] = 1 .. Len(assigns[p])
    OBVIOUS
  <2>1. assigns[p] \in Seq(EntryOf(p))
    BY DEF Lists
  <2> QED
    BY <2>1, LenProperties
<1> QED
  BY <1>1 DEF Uniform, UniformAt

(* Lists that are not uniform stay so.                                     *)
LEMMA UniformBack ==
  ASSUME Lists, Lists', Grown, NEW n, UniformAt(n)'
  PROVE  UniformAt(n)
<1> SUFFICES ASSUME NEW p \in Port, NEW k \in 1 .. Len(assigns[p])
    PROVE LET a == assigns[p][k]
          IN  /\ n = Width[p]
              /\ Len(assigns[p]) <= Width[p]
              /\ a.assign_type # "ASSIGN_CBACK" => Len(a.left_side_val) = n
              /\ a.assign_type = "ASSIGN_COND" => Len(a.right_side_val) = n
              /\ \A v \in a.assign_func : Len(v) = n
  BY DEF UniformAt
<1>1. Len(assigns[p]) \in Nat /\ Len(assigns'[p]) \in Nat /\ Len(assigns'[p]) >= Len(assigns[p])
  <2>1. assigns[p] \in Seq(EntryOf(p)) /\ assigns'[p] \in Seq(EntryOf(p))
    BY DEF Lists
  <2> QED
    BY <2>1, LenProperties DEF Grown
<1>2. k \in 1 .. Len(assigns'[p])
  BY <1>1
<1>3. /\ n = Width[p]
      /\ Len(assigns'[p]) <= Width[p]
      /\ assigns'[p][k].assign_type # "ASSIGN_CBACK" => Len(assigns'[p][k].left_side_val) = n
      /\ assigns'[p][k].assign_type = "ASSIGN_COND" => Len(assigns'[p][k].right_side_val) = n
      /\ \A v \in assigns'[p][k].assign_func : Len(v) = n
  BY <1>2 DEF UniformAt
<1>4. /\ assigns'[p][k].assign_type = assigns[p][k].assign_type
      /\ assigns'[p][k].assign_func = assigns[p][k].assign_func
      /\ assigns'[p][k].left_side_val = assigns[p][k].left_side_val
      /\ assigns'[p][k].right_side_val = assigns[p][k].right_side_val
  BY DEF Grown
<1>5. Len(assigns[p]) <= Width[p]
  BY <1>1, <1>3, IdxInterval
<1> QED
  BY <1>3, <1>4, <1>5

(* A run of an assignment of uniform lists stays inside its vectors.       *)
LEMMA UniformRun ==
  ASSUME AssignInv, NEW n, UniformAt(n), RunAssign
  PROVE  fault' = fault
<1> DEFINE p == assigning.port
           a == Current
<1>1. PICK v, J, l : RunsWith(v, J, l)
  BY RunParts
<1>2. /\ AtAssign /\ static_wire' \in Seq(WireVal) /\ p \in Port /\ a \in EntryOf(p)
      /\ assigning.i \in Nat /\ assigning.i + 1 \in 1 .. Len(assigns[p])
      /\ Len(assigns[p]) \in Nat
  BY RunParts, AtEntry
<1>3. /\ n = Width[p] /\ Len(assigns[p]) <= Width[p]
      /\ a.assign_type # "ASSIGN_CBACK" => Len(a.left_side_val) = n
      /\ a.assign_type = "ASSIGN_COND" => Len(a.right_side_val) = n
      /\ \A u \in a.assign_func : Len(u) = n
  BY <1>2 DEF UniformAt, Current
<1>4. /\ J = Written(p, a, Len(static_wire')) /\ Len(static_wire') \in Nat
  BY <1>1, <1>2, RunType
<1>5. wires[p] \in Port /\ Width[wires[p]] = Width[p] /\ Width[p] \in Nat
  BY <1>2, IdxInterval DEF AssignInv, TypeInv, PortTypeOK, LinkedWidths
<1>6. Counted \in DOMAIN WiresOf(p)
  <2>1. DOMAIN WiresOf(p) = Idx(wires[p])
    BY <1>5 DEF WiresOf, AssignInv, TypeInv, PortTypeOK
  <2>2. assigning.i < Width[wires[p]]
    BY <1>2, <1>3, <1>5
  <2> QED
    BY <1>2, <1>5, <2>1, <2>2 DEF Idx, Counted
<1>7. Len(v) = n
  <2>1. v \in Value(a) /\ a.assign_type \in AssignType
    BY <1>1, <1>2 DEF RunsWith, EntryOf
  <2> HIDE DEF a
  <2>2. CASE a.assign_type = "ASSIGN_CBACK"
    BY <1>3, <2>1, <2>2 DEF Value
  <2>3. CASE a.assign_type = "ASSIGN_COND"
    <3>1. v = a.left_side_val \/ v = a.right_side_val
      BY <2>1, <2>3 DEF Value
    <3> QED
      BY <1>3, <2>3, <3>1
  <2>4. CASE a.assign_type = "ASSIGN_CONST"
    BY <1>3, <2>1, <2>4 DEF Value
  <2> QED
    BY <2>1, <2>2, <2>3, <2>4 DEF AssignType
<1>8. \A j \in J : ~(ReadAt(a, j) > Len(v))
  <2> SUFFICES ASSUME NEW j \in J PROVE ~(ReadAt(a, j) > Len(v))
    OBVIOUS
  <2>1. j \in Idx(wires[p])
    BY <1>2, <1>4, WrittenWires DEF AssignInv
  <2>2. j \in Nat /\ j + 1 <= n /\ a.wire_off \in Nat
    BY <1>2, <1>3, <1>5, <2>1 DEF Idx, EntryOf
  <2>3. ReadAt(a, j) = j - a.wire_off + 1 \/ ReadAt(a, j) = j + 1
    BY DEF ReadAt
  <2> HIDE DEF a
  <2> QED
    BY <1>3, <1>5, <1>7, <2>2, <2>3
<1>9. fault' = CASE J # {} /\ Counted \notin DOMAIN WiresOf(p) -> "write"
                 [] \E j \in J : ReadAt(a, j) > Len(v) -> "read"
                 [] OTHER -> fault
  BY <1>1 DEF RunsWith
<1> QED
  BY <1>6, <1>8, <1>9

LEMMA BoundsNext ==
  AssignInv /\ InBounds /\ [AssignNext]_<<portVars, assignVars>> => InBounds'
<1> SUFFICES ASSUME AssignInv, InBounds, [AssignNext]_<<portVars, assignVars>>,
                    fault' # "none", Uniform'
             PROVE  FALSE
  BY DEF InBounds
<1>1. Lists /\ Lists' /\ Grown
  BY AssignTypeNext, GrownNext DEF AssignInv
<1>2. ASSUME NEW p \in Port PROVE DOMAIN assigns'[p] = 1 .. Len(assigns'[p])
  <2>1. assigns'[p] \in Seq(EntryOf(p))
    BY <1>1 DEF Lists
  <2> QED
    BY <2>1, LenProperties
<1>3. PICK n \in {Width[q] : q \in Port} : UniformAt(n)'
  BY <1>2 DEF Uniform, UniformAt
<1>4. UniformAt(n)
  BY <1>1, <1>3, UniformBack
<1>5. Uniform
  BY <1>1, <1>4, UniformIs
<1>6. fault = "none"
  BY <1>5 DEF InBounds
<1>7. RunAssign
  BY <1>6, UserParts DEF AssignNext, BeginAssigns, CallFunc, SkipAssign, EndAssigns, assignVars
<1> QED
  BY <1>4, <1>6, <1>7, UniformRun

(* When all values in the lists have the length of all ports, and no list  *)
(* is longer than its port has wires, no update leaves a vector, although  *)
(* edges are read by the index of the wire, values by the index in the     *)
(* assignment, and wires are counted on by the number of the assignment    *)
(* (port.cpp).                                                             *)
THEOREM BoundsHold == AssignSpec => []InBounds
<1>1. AssignInit => InBounds
  BY DEF AssignInit, InBounds
<1> QED
  BY <1>1, AssignInvariant, BoundsNext, PTL DEF AssignSpec

-----------------------------------------------------------------------------
(* A port whose only assignment is a constant.                             *)

(* Its wires have their values from what was converted last and their      *)
(* edges from the constant.                                                *)
Shown(p) ==
  LET a == assigns[p][1]
  IN  \A j \in Written(p, a, Len(static_wire)) :
        /\ WiresOf(p)[j].val = static_wire[j - a.wire_off + 1]
        /\ j - a.wire_off + 1 <= Len(a.left_side_val) =>
             WiresOf(p)[j].edge = EdgeOf(a.left_side_val[j - a.wire_off + 1])

Ran(p) == assigning.port = p /\ assigning.i = 1

ShownAfter == \A p \in Port : OnlyConst(p) /\ (Ran(p) \/ Assigned(p)) => Shown(p)

LEMMA ShownRun ==
  ASSUME AssignInv, NEW p \in Port, RunAssign, OnlyConst(p)', assigning'.port = p
  PROVE  Shown(p)'
<1> DEFINE a == assigns[p][1]
<1>1. PICK v, J, l : RunsWith(v, J, l)
  BY RunParts
<1>2. /\ AtAssign /\ static_wire' \in Seq(WireVal) /\ UNCHANGED <<wires, assigns>>
      /\ assigning.port = p
      /\ assigning.i \in Nat /\ assigning.i + 1 \in 1 .. Len(assigns[p])
  BY RunParts, AtEntry
<1>3. Len(assigns[p]) = 1 /\ a.assign_type = "ASSIGN_CONST"
  BY <1>2 DEF OnlyConst
<1>4. Current = a /\ a \in EntryOf(p)
  <2>1. assigning.i + 1 = 1
    BY <1>2, <1>3
  <2>2. Current = a
    BY <1>2, <2>1 DEF Current
  <2> QED
    BY <1>2, <2>2, AtEntry
<1>5. v = a.left_side_val
  BY <1>1, <1>3, <1>4 DEF RunsWith, Value
<1>6. /\ J = Written(p, a, Len(static_wire')) /\ l \in [J -> WireVal]
      /\ Len(static_wire') \in Nat
      /\ heap'[wires[p]] = Put(p, a, J, l)
  BY <1>1, <1>2, <1>4, RunType
<1>7. l \in Logics(a, v, J)
  BY <1>1, <1>4 DEF RunsWith
<1> HIDE DEF a
<1> SUFFICES ASSUME NEW j \in Written(p, a, Len(static_wire'))
    PROVE /\ heap'[wires[p]][j].val = static_wire'[j - a.wire_off + 1]
          /\ j - a.wire_off + 1 <= Len(a.left_side_val) =>
               heap'[wires[p]][j].edge = EdgeOf(a.left_side_val[j - a.wire_off + 1])
  BY <1>2 DEF Shown, Written, WiresOf, a
<1>8. j \in J /\ j \in Idx(wires[p])
  BY <1>4, <1>6, WrittenWires DEF AssignInv
<1>9. /\ heap'[wires[p]][j].val = static_wire'[j - a.wire_off + 1]
      /\ heap'[wires[p]][j].edge = EdgeOf(l[j])
  BY <1>2, <1>4, <1>6, <1>8, PutWire DEF AssignInv
<1>10. j - a.wire_off + 1 <= Len(v) => l[j] = v[j - a.wire_off + 1]
  BY <1>3, <1>7, <1>8 DEF Logics, ReadAt
<1> QED
  BY <1>5, <1>9, <1>10

LEMMA ShownNext ==
  AssignInv /\ ShownAfter /\ [AssignNext]_<<portVars, assignVars>> => ShownAfter'
<1> SUFFICES ASSUME AssignInv, ShownAfter, [AssignNext]_<<portVars, assignVars>>,
                    NEW p \in Port, OnlyConst(p)', Ran(p)' \/ Assigned(p)'
             PROVE  Shown(p)'
  BY DEF ShownAfter
<1>0. NoPort \notin Port
  BY PortAssumption
<1>1. CASE UNCHANGED <<heap, wires, assigns, static_wire>> /\ (Ran(p) \/ Assigned(p))
  <2>1. OnlyConst(p)
    BY <1>1 DEF OnlyConst
  <2>2. Shown(p)
    BY <1>1, <2>1 DEF ShownAfter
  <2> QED
    BY <1>1, <2>2 DEF Shown, Written, WiresOf
<1>2. CASE UserStep
  <2>1. /\ assigning' = assigning /\ frame' = frame
        /\ Lists' /\ Grown
    BY <1>2, UserParts
  <2>2. ~Assigned(p)
    BY <1>0, <1>2 DEF UserStep, UserRuns, Assigned
  <2>3. Ran(p)
    BY <2>1, <2>2 DEF Ran, Assigned
  <2>4. assigning.called
    BY <1>0, <1>2, <2>3 DEF UserStep, Ran
  <2>5. 1 < Len(assigns[p])
    BY <2>3, <2>4 DEF AssignInv, Position, Calling, AtAssign, Ran
  <2>6. Len(assigns'[p]) = 1 /\ Len(assigns'[p]) >= Len(assigns[p]) /\ Len(assigns[p]) \in Nat
    BY <2>1, ListTypes DEF OnlyConst, Grown, AssignInv
  <2> QED
    BY <2>5, <2>6
<1>3. ASSUME NEW q \in Port, BeginAssigns(q) PROVE FALSE
  <2>1. assigning' = [port |-> q, i |-> 0, called |-> FALSE] /\ frame' = frame /\ frame = Idle
    BY <1>3 DEF BeginAssigns, NotAssigning, portVars
  <2> QED
    BY <1>0, <2>1 DEF Ran, Assigned, Idle
<1>4. CASE CallFunc
  <2>1. assigning' = [assigning EXCEPT !.called = TRUE] /\ UNCHANGED <<portVars, assigns, static_wire>>
    BY <1>4 DEF CallFunc
  <2>2. assigning'.port = assigning.port /\ assigning'.i = assigning.i
    BY <2>1 DEF AssignInv, Position
  <2> QED
    BY <1>1, <2>1, <2>2 DEF Ran, Assigned, portVars
<1>5. CASE SkipAssign
  <2>1. /\ AtAssign /\ Current.assign_type = "ASSIGN_CBACK"
        /\ assigning' = [assigning EXCEPT !.i = @ + 1]
        /\ UNCHANGED <<portVars, assigns, static_wire>>
    BY <1>5 DEF SkipAssign
  <2>2. assigning'.port = assigning.port /\ assigning'.i = assigning.i + 1
        /\ assigning.i \in Nat /\ frame = Idle
    BY <2>1, AtEntry DEF AssignInv, Position
  <2>3. ~Assigned(p)'
    BY <1>0, <2>1, <2>2 DEF Assigned, Idle, portVars
  <2>4. assigning.port = p /\ assigning.i = 0
    BY <2>2, <2>3 DEF Ran
  <2> QED
    BY <2>1, <2>4 DEF Current, OnlyConst
<1>6. CASE RunAssign
  <2>1. frame' = Idle
    BY <1>6, RunParts, AtEntry
  <2>2. assigning'.port = p
    BY <1>0, <2>1 DEF Ran, Assigned, Idle
  <2> QED
    BY <1>6, <2>2, ShownRun
<1>7. CASE EndAssigns
  <2>1. /\ assigning.port \in Port /\ assigning.i \in Nat
        /\ assigning.i >= Len(assigns[assigning.port])
        /\ assigning.i <= Len(assigns[assigning.port])
    BY <1>7 DEF EndAssigns, AssignInv, Position
  <2>2. /\ assigning'.port = NoPort /\ frame'.port = assigning.port
        /\ UNCHANGED <<heap, wires, assigns, static_wire>>
    BY <1>7 DEF EndAssigns, NotAssigning, Idle
  <2>3. assigning.port = p
    BY <1>0, <2>2 DEF Ran, Assigned
  <2>4. Len(assigns[p]) = 1
    BY <2>2 DEF OnlyConst
  <2>5. Ran(p)
    BY <2>1, <2>3, <2>4 DEF Ran
  <2> QED
    BY <1>1, <2>2, <2>5
<1>8. CASE (CheckWire \/ RaiseSignal \/ SignalReturns) /\ UNCHANGED assignVars
  <2>1. assigning.port = NoPort /\ assigning' = assigning
    BY <1>8, TypeUpdateStep DEF assignVars
  <2>2. Assigned(p)'
    BY <1>0, <2>1 DEF Ran
  <2>3. CASE RaiseSignal
    <3>1. frame'.raised = TRUE
      BY <2>3, Updated DEF RaiseSignal, AssignInv
    <3> QED
      BY <2>2, <3>1 DEF Assigned
  <2>4. CASE CheckWire \/ SignalReturns
    <3>1. frame' = NextFrame /\ frame.port # NoPort
      BY <2>4 DEF CheckWire, SignalReturns
    <3>2. frame \in [port : Port, wire : Nat, called : SUBSET Signal, raised : BOOLEAN]
      BY <3>1, Updated DEF AssignInv
    <3>3. frame'.port = NoPort \/ frame'.wire = frame.wire + 1
      BY <3>1, <3>2 DEF NextFrame, Idle
    <3> QED
      BY <1>0, <2>2, <3>2, <3>3 DEF Assigned
  <2> QED
    BY <1>8, <2>3, <2>4
<1>9. CASE UNCHANGED <<portVars, assignVars>>
  BY <1>1, <1>9 DEF Ran, Assigned, portVars, assignVars
<1> QED
  BY <1>2, <1>3, <1>4, <1>5, <1>6, <1>7, <1>8, <1>9 DEF AssignNext

(* The wires of a port whose only assignment is a constant hold it after   *)
(* the assignments ran exactly while it is what was converted last, since  *)
(* the converted values of all ports are in one static vector              *)
(* (wireval_to_wires, refresher.cpp), and the edges never are.             *)
THEOREM ConstantsHold == AssignSpec => []ConstHoldsWhileLast
<1>1. AssignInit => ShownAfter
  BY PortAssumption DEF AssignInit, ShownAfter, OnlyConst, Ran, Assigned, NotAssigning, PortInit,
     Idle
<1>2. AssignInv /\ ShownAfter => ConstHoldsWhileLast
  <2> SUFFICES ASSUME AssignInv, ShownAfter, NEW p \in Port, OnlyConst(p), Assigned(p)
      PROVE LET a == assigns[p][1]
                Differs(j) ==
                  static_wire[j - a.wire_off + 1] # a.left_side_val[j - a.wire_off + 1]
            IN  /\ static_wire = a.left_side_val => Holds(p, a)
                /\ \A j \in Written(p, a, Len(static_wire)) \cap
                            Written(p, a, Len(a.left_side_val)) : Differs(j) => ~Holds(p, a)
    BY DEF ConstHoldsWhileLast
  <2> DEFINE a == assigns[p][1]
  <2>1. Shown(p)
    BY DEF ShownAfter
  <2>2. ASSUME static_wire = a.left_side_val PROVE Holds(p, a)
    <3>1. a \in EntryOf(p)
      BY ListTypes DEF AssignInv, OnlyConst
    <3>2. Len(static_wire) \in Nat
      BY LenProperties DEF AssignInv
    <3>3. \A j \in Written(p, a, Len(static_wire)) : j - a.wire_off + 1 \in 1 .. Len(static_wire)
      BY <3>1, <3>2, WrittenWires DEF AssignInv
    <3>4. \A j \in Written(p, a, Len(static_wire)) :
            j - a.wire_off + 1 <= Len(a.left_side_val)
      BY <2>2, <3>2, <3>3
    <3> QED
      BY <2>1, <2>2, <3>4 DEF Shown, Holds
  <2>3. ASSUME NEW j \in Written(p, a, Len(static_wire)) \cap Written(p, a, Len(a.left_side_val)),
               static_wire[j - a.wire_off + 1] # a.left_side_val[j - a.wire_off + 1]
        PROVE  ~Holds(p, a)
    BY <2>1, <2>3 DEF Shown, Holds
  <2> QED
    BY <2>2, <2>3
<1> QED
  BY <1>1, <1>2, AssignInvariant, ShownNext, PTL DEF AssignSpec
=============================================================================
