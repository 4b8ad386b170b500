----------------------------- MODULE PortProofs -----------------------------
(***************************************************************************)
(* Proofs about module Port, for every set of ports, links, callbacks and  *)
(* calls of user code.                                                     *)
(***************************************************************************)
EXTENDS Port, FiniteSetTheorems, TLAPS

Driver == Port \cup {NoPort}

Wire == WireOf(Driver)

-----------------------------------------------------------------------------
(* What the operators of module Wire do to a wire: they keep its type.     *)
LEMMA EdgeType == ASSUME NEW v \in WireVal PROVE EdgeOf(v) \in WireEdge
  BY DEF EdgeOf, WireVal, WireEdge

LEMMA NewWireType == NewWire("_0", NoPort) \in Wire
  BY Zenon DEF NewWire, Wire, WireOf, WireVal, WireEdge, Driver

LEMMA LinkedType == ASSUME NEW w \in Wire PROVE Linked(w) \in Wire
<1> DEFINE m == w.modules_connected + 1
<1>1. m \in Nat
  BY DEF Wire, WireOf
<1>2. Linked(w) = [w EXCEPT !.modules_connected = m, !.modules_connected_orig = m]
  BY DEF Linked
<1> HIDE DEF m
<1> QED
  BY <1>1, <1>2 DEF Wire, WireOf

LEMMA NullifiedType == ASSUME NEW w \in Wire PROVE Nullified(w) \in Wire
  BY DEF Nullified, Wire, WireOf, WireVal, WireEdge

LEMMA DrivenByType ==
  ASSUME NEW w \in Wire, NEW v \in WireVal, NEW p \in Port
  PROVE  DrivenBy(w, v, p) \in Wire
<1> DEFINE r == w.refcount + 1
           e == EdgeOf(v)
<1>1. r \in Nat /\ e \in WireEdge /\ p \in Driver
  BY EdgeType DEF Wire, WireOf, Driver
<1>2. DrivenBy(w, v, p) =
        [w EXCEPT !.val = v, !.edge = e, !.last_port_drive = p, !.refcount = r]
  BY DEF DrivenBy
<1> HIDE DEF r, e
<1> QED
  BY <1>1, <1>2 DEF Wire, WireOf

LEMMA CheckedType == ASSUME NEW w \in Wire PROVE Checked(w) \in Wire
<1>1. CASE ~IsChanged(w)
  BY <1>1 DEF Checked
<1>2. CASE IsChanged(w) /\ w.modules_connected = 0
  <2>1. Checked(w) = [w EXCEPT !.old_edge = w.edge,
                               !.modules_connected = w.modules_connected_orig]
    BY <1>2 DEF Checked
  <2> QED
    BY <2>1 DEF Wire, WireOf
<1>3. CASE IsChanged(w) /\ w.modules_connected > 0
  <2> DEFINE m == w.modules_connected - 1
  <2>1. m \in Nat
    BY <1>3 DEF Wire, WireOf
  <2>2. Checked(w) = [w EXCEPT !.modules_connected = m]
    BY <1>3 DEF Checked, Wire, WireOf
  <2> HIDE DEF m
  <2> QED
    BY <2>1, <2>2 DEF Wire, WireOf
<1> QED
  BY <1>1, <1>2, <1>3 DEF Wire, WireOf

LEMMA ReleasedType == ASSUME NEW w \in Wire PROVE Released(w) \in Wire
  BY Zenon DEF Released, Wire, WireOf

(* A wire that takes a value takes one of the values of the call.          *)
LEMMA TakenValue ==
  ASSUME NEW n \in Nat, NEW ws \in [0 .. n - 1 -> Wire],
         NEW off \in Nat, NEW len \in Nat, NEW vals \in Seq(WireVal),
         NEW i \in Takers(ws, off, len, vals)
  PROVE  vals[Len(vals) - Before(Undriven(ws, off, len), i)] \in WireVal
<1> DEFINE S == {x \in Undriven(ws, off, len) : x < i}
<1>1. S \subseteq 0 .. n - 1
  BY DEF Undriven, Window
<1>2. IsFiniteSet(S)
  <2>1. IsFiniteSet(0 .. n - 1)
    BY FS_Interval
  <2> QED
    BY <1>1, <2>1, FS_Subset
<1>3. Cardinality(S) \in Nat
  BY <1>2, FS_CardinalityType
<1>4. Cardinality(S) < Len(vals)
  BY DEF Takers, Before
<1>5. Len(vals) - Cardinality(S) \in 1 .. Len(vals)
  BY <1>3, <1>4
<1> QED
  BY <1>5 DEF Before

LEMMA DriveWiresType ==
  ASSUME NEW n \in Nat, NEW ws \in [0 .. n - 1 -> Wire],
         NEW off \in Nat, NEW len \in Nat, NEW vals \in Seq(WireVal), NEW p \in Port
  PROVE  DriveWires(ws, off, len, vals, p) \in [0 .. n - 1 -> Wire]
<1> SUFFICES ASSUME NEW i \in 0 .. n - 1
             PROVE  DriveWires(ws, off, len, vals, p)[i] \in Wire
  BY DEF DriveWires
<1>1. Nullified(ws[i]) \in Wire
  BY NullifiedType
<1>2. CASE i \in Takers(ws, off, len, vals)
  BY <1>1, <1>2, TakenValue, DrivenByType DEF DriveWires
<1>3. CASE i \notin Takers(ws, off, len, vals)
  BY <1>1, <1>3 DEF DriveWires
<1> QED
  BY <1>2, <1>3

-----------------------------------------------------------------------------
(* The type invariant.  It is inductive together with the fact that a port *)
(* points to a vector of its own width, so that every index that update    *)
(* uses for a port's signals and wires is inside both.                     *)
LinkedWidths == \A p \in Port : Width[wires[p]] = Width[p]

TypeInv == PortTypeOK /\ LinkedWidths

LEMMA IdxInterval == ASSUME NEW p \in Port PROVE Width[p] \in Nat /\ Width[p] > 0
  BY PortAssumption

LEMMA TypeInit == PortInit => TypeInv
<1> SUFFICES ASSUME PortInit PROVE TypeInv
  OBVIOUS
<1>1. \A p \in Port : heap[p] \in [Idx(p) -> Wire]
  BY NewWireType DEF PortInit
<1>2. \A p \in Port : signals[p] \in [Idx(p) -> Signal]
  BY DEF PortInit, NoSignal, Signal, WireEdge
<1>3. PortTypeOK
  BY <1>1, <1>2 DEF PortInit, PortTypeOK, Wire, Driver
<1>4. LinkedWidths
  BY DEF PortInit, LinkedWidths
<1> QED
  BY <1>3, <1>4 DEF TypeInv

LEMMA TypeConnect ==
  ASSUME TypeInv, NEW src \in Port, NEW dst \in Port, Width[src] = Width[dst],
         Connect(src, dst)
  PROVE  TypeInv'
<1> USE DEF Wire, Driver
<1> DEFINE b == wires[src]
           ws == [i \in Idx(b) |-> Linked(heap[b][i])]
<1>1. b \in Port
  BY DEF TypeInv, PortTypeOK
<1>2. ws \in [Idx(b) -> Wire]
  BY <1>1, LinkedType DEF TypeInv, PortTypeOK
<1>3. heap' = [heap EXCEPT ![b] = ws]
  BY DEF Connect
<1> HIDE DEF ws, b
<1>4. DOMAIN heap' = Port /\ \A p \in Port : heap'[p] \in [Idx(p) -> Wire]
  BY <1>1, <1>2, <1>3 DEF TypeInv, PortTypeOK
<1>5. wires' \in [Port -> Port] /\ dirty' \in [Port -> BOOLEAN] /\ freed' \subseteq Port
  BY DEF TypeInv, PortTypeOK, Connect, Repointed, Cleaned
<1>6. LinkedWidths'
  BY DEF TypeInv, PortTypeOK, LinkedWidths, Connect, Repointed
<1>7. PortTypeOK'
  <2>1. \/ frame' = Idle
        \/ /\ frame' \in [port : Port, wire : Nat, called : SUBSET Signal, raised : BOOLEAN]
           /\ frame'.wire \in Idx(frame'.port) \cap Idx(wires'[frame'.port])
    BY <1>6 DEF TypeInv, PortTypeOK, Connect, LinkedWidths, Idx
  <2> QED
    BY <1>4, <1>5, <2>1 DEF TypeInv, PortTypeOK, Connect
<1> QED
  BY <1>6, <1>7 DEF TypeInv

LEMMA TypeDrive ==
  ASSUME TypeInv, NEW c \in DriveCalls, Drive(c)
  PROVE  TypeInv'
<1> USE DEF Wire, Driver
<1> DEFINE b == wires[c.port]
           ws == DriveWires(heap[b], c.off, c.len, c.vals, c.port)
<1>1. c.port \in Port /\ c.off \in Nat /\ c.len \in Nat /\ c.vals \in Seq(WireVal)
  BY PortAssumption
<1>2. b \in Port /\ heap[b] \in [Idx(b) -> Wire] /\ Width[b] \in Nat
  BY <1>1, IdxInterval DEF TypeInv, PortTypeOK
<1>3. ws \in [Idx(b) -> Wire]
  BY <1>1, <1>2, DriveWiresType DEF Idx
<1>4. heap' = [heap EXCEPT ![b] = ws]
  BY DEF Drive
<1>5. driven' \in BOOLEAN
  BY DEF Drive
<1> HIDE DEF ws, b
<1>6. DOMAIN heap' = Port /\ \A p \in Port : heap'[p] \in [Idx(p) -> Wire]
  BY <1>2, <1>3, <1>4 DEF TypeInv, PortTypeOK
<1>7. PortTypeOK'
  BY <1>5, <1>6 DEF TypeInv, PortTypeOK, Drive
<1>8. LinkedWidths'
  BY DEF TypeInv, LinkedWidths, Drive
<1> QED
  BY <1>7, <1>8 DEF TypeInv

LEMMA TypeSensitivity ==
  ASSUME TypeInv, NEW c \in SensCalls, SetSensitivity(c) \/ OnChange(c.port, c.raise)
  PROVE  TypeInv'
<1>1. c.port \in Port /\ c.raise \in Callback /\ c.edge \in WireEdge
  BY PortAssumption
<1>2. [raise |-> c.raise, edge_trigger |-> c.edge] \in Signal
  BY <1>1 DEF Signal
<1>3. [raise |-> c.raise, edge_trigger |-> "ALLEDGES"] \in Signal
  BY <1>1 DEF Signal, WireEdge
<1>4. DOMAIN signals' = Port /\ \A p \in Port : signals'[p] \in [Idx(p) -> Signal]
  <2>1. CASE SetSensitivity(c)
    BY <1>1, <1>2, <2>1 DEF TypeInv, PortTypeOK, SetSensitivity
  <2>2. CASE OnChange(c.port, c.raise)
    BY <1>1, <1>3, <2>2 DEF TypeInv, PortTypeOK, OnChange
  <2> QED
    BY <2>1, <2>2
<1> QED
  BY <1>4 DEF TypeInv, PortTypeOK, LinkedWidths, SetSensitivity, OnChange

(* What update reads while a port is under update.                         *)
LEMMA Updated ==
  ASSUME TypeInv, frame.port # NoPort
  PROVE  /\ frame \in [port : Port, wire : Nat, called : SUBSET Signal, raised : BOOLEAN]
         /\ wires[frame.port] \in Port
         /\ Width[wires[frame.port]] = Width[frame.port]
         /\ frame.wire \in Idx(wires[frame.port])
         /\ UpdatedWire \in Wire
         /\ UpdatedSignal \in Signal
<1>1. /\ frame \in [port : Port, wire : Nat, called : SUBSET Signal, raised : BOOLEAN]
      /\ frame.wire \in Idx(frame.port)
  BY DEF TypeInv, PortTypeOK, Idle
<1>2. frame.port \in Port /\ wires[frame.port] \in Port
  BY <1>1 DEF TypeInv, PortTypeOK
<1>3. Width[wires[frame.port]] = Width[frame.port]
  BY <1>2 DEF TypeInv, LinkedWidths
<1>4. frame.wire \in Idx(wires[frame.port])
  BY <1>1, <1>3 DEF Idx
<1>5. UpdatedWire \in Wire
  BY <1>2, <1>4 DEF TypeInv, PortTypeOK, UpdatedWire, WiresOf, Wire, Driver
<1>6. UpdatedSignal \in Signal
  BY <1>1, <1>2 DEF TypeInv, PortTypeOK, UpdatedSignal
<1> QED
  BY <1>1, <1>2, <1>3, <1>4, <1>5, <1>6

LEMMA TypeSetWire ==
  ASSUME TypeInv, frame.port # NoPort, NEW w \in Wire, SetUpdatedWire(w)
  PROVE  DOMAIN heap' = Port /\ \A p \in Port : heap'[p] \in [Idx(p) -> Wire]
<1> DEFINE b == wires[frame.port]
           ws == [heap[b] EXCEPT ![frame.wire] = w]
<1>1. b \in Port /\ heap[b] \in [Idx(b) -> Wire]
  BY Updated DEF TypeInv, PortTypeOK, Wire, Driver
<1>2. ws \in [Idx(b) -> Wire]
  BY <1>1
<1>3. heap' = [heap EXCEPT ![b] = ws]
  BY DEF SetUpdatedWire
<1> HIDE DEF ws, b
<1> QED
  BY <1>1, <1>2, <1>3 DEF TypeInv, PortTypeOK, Wire, Driver

FrameOK(f) ==
  \/ f = Idle
  \/ /\ f \in [port : Port, wire : Nat, called : SUBSET Signal, raised : BOOLEAN]
     /\ f.wire \in Idx(f.port)

LEMMA FrameNext == ASSUME TypeInv, frame.port # NoPort PROVE FrameOK(NextFrame)
<1> DEFINE k == frame.wire + 1
<1>1. CASE k < Width[wires[frame.port]]
  <2>1. k \in Nat /\ k \in Idx(frame.port)
    BY <1>1, Updated, IdxInterval DEF Idx
  <2>2. NextFrame = [frame EXCEPT !.wire = k, !.raised = FALSE]
    BY <1>1 DEF NextFrame
  <2> HIDE DEF k
  <2> QED
    BY <2>1, <2>2, Updated DEF FrameOK
<1>2. CASE ~(k < Width[wires[frame.port]])
  BY <1>2 DEF NextFrame, FrameOK
<1> QED
  BY <1>1, <1>2

LEMMA FrameRaised ==
  ASSUME TypeInv, frame.port # NoPort
  PROVE  FrameOK([frame EXCEPT !.raised = TRUE, !.called = @ \cup {UpdatedSignal}])
<1> DEFINE called == frame.called \cup {UpdatedSignal}
<1>1. called \in SUBSET Signal
  BY Updated
<1>2. frame.wire \in Idx(frame.port)
  BY Updated DEF Idx
<1> HIDE DEF called
<1>3. FrameOK([frame EXCEPT !.raised = TRUE, !.called = called])
  BY <1>1, <1>2, Updated DEF FrameOK
<1> QED
  BY <1>3 DEF called

(* A step of update writes one wire and moves the frame.                   *)
LEMMA TypeStep ==
  ASSUME TypeInv, frame.port # NoPort, NEW w \in Wire, SetUpdatedWire(w), FrameOK(frame'),
         UNCHANGED <<wires, dirty, freed, signals, driven>>
  PROVE  TypeInv'
<1>1. DOMAIN heap' = Port /\ \A p \in Port : heap'[p] \in [Idx(p) -> Wire]
  BY TypeSetWire
<1>2. PortTypeOK'
  <2>1. \/ frame' = Idle
        \/ /\ frame' \in [port : Port, wire : Nat, called : SUBSET Signal, raised : BOOLEAN]
           /\ frame'.wire \in Idx(frame'.port) \cap Idx(wires'[frame'.port])
    BY DEF TypeInv, LinkedWidths, FrameOK, Idx
  <2> QED
    BY <1>1, <2>1 DEF TypeInv, PortTypeOK, Wire, Driver
<1>3. LinkedWidths'
  BY DEF TypeInv, LinkedWidths
<1> QED
  BY <1>2, <1>3 DEF TypeInv

LEMMA TypeCheckWire == ASSUME TypeInv, CheckWire PROVE TypeInv'
<1>1. Released(Checked(UpdatedWire)) \in Wire
  BY Updated, CheckedType, ReleasedType DEF CheckWire
<1>2. FrameOK(frame')
  BY FrameNext DEF CheckWire
<1> QED
  BY <1>1, <1>2, TypeStep DEF CheckWire

LEMMA TypeRaiseSignal == ASSUME TypeInv, RaiseSignal PROVE TypeInv'
<1>1. Checked(UpdatedWire) \in Wire
  BY Updated, CheckedType DEF RaiseSignal
<1>2. FrameOK(frame')
  BY FrameRaised DEF RaiseSignal
<1> QED
  BY <1>1, <1>2, TypeStep DEF RaiseSignal

LEMMA TypeSignalReturns == ASSUME TypeInv, SignalReturns PROVE TypeInv'
<1>1. Released(UpdatedWire) \in Wire
  BY Updated, ReleasedType DEF SignalReturns
<1>2. FrameOK(frame')
  BY FrameNext DEF SignalReturns
<1> QED
  BY <1>1, <1>2, TypeStep DEF SignalReturns

LEMMA TypeBeginUpdate == ASSUME TypeInv, NEW p \in Port, BeginUpdate(p) PROVE TypeInv'
<1>1. 0 \in Idx(p)
  BY IdxInterval DEF Idx
<1>2. /\ frame' \in [port : Port, wire : Nat, called : SUBSET Signal, raised : BOOLEAN]
      /\ frame'.wire \in Idx(frame'.port) \cap Idx(wires'[frame'.port])
  BY <1>1 DEF BeginUpdate, Idle, TypeInv, LinkedWidths, Idx
<1> QED
  BY <1>2 DEF TypeInv, PortTypeOK, LinkedWidths, BeginUpdate

LEMMA TypeNext ==
  ASSUME EqualWidths PROVE TypeInv /\ [PortNext]_portVars => TypeInv'
<1> SUFFICES ASSUME TypeInv, [PortNext]_portVars PROVE TypeInv'
  OBVIOUS
<1>1. CASE UserCall
  <2>1. ASSUME NEW l \in Links, Connect(l[1], l[2]) PROVE TypeInv'
    <3>1. l[1] \in Port /\ l[2] \in Port /\ Width[l[1]] = Width[l[2]]
      BY PortAssumption DEF EqualWidths
    <3> QED
      BY <2>1, <3>1, TypeConnect
  <2> QED
    BY <1>1, <2>1, TypeDrive, TypeSensitivity DEF UserCall
<1>2. ASSUME NEW p \in Port, BeginUpdate(p) PROVE TypeInv'
  BY <1>2, TypeBeginUpdate
<1>3. CASE CheckWire
  BY <1>3, TypeCheckWire
<1>4. CASE RaiseSignal
  BY <1>4, TypeRaiseSignal
<1>5. CASE SignalReturns
  BY <1>5, TypeSignalReturns
<1>6. CASE UNCHANGED portVars
  BY <1>6 DEF portVars, TypeInv, PortTypeOK, LinkedWidths
<1> QED
  BY <1>1, <1>2, <1>3, <1>4, <1>5, <1>6 DEF PortNext

LEMMA TypeInvariant == ASSUME EqualWidths PROVE PortSpec => []TypeInv
<1>1. TypeInv /\ [PortNext]_portVars => TypeInv'
  BY TypeNext
<1> QED
  BY <1>1, TypeInit, PTL DEF PortSpec

(* While links join ports of equal width, every index that drive,          *)
(* set_sensitivity and update use is inside the vector it is used on,      *)
(* whatever user code does between and inside the updates.  A link of      *)
(* ports of unequal width, which connect makes too, is outside the claim:  *)
(* there update leaves its vectors.                                        *)
THEOREM PortTypes == ASSUME EqualWidths PROVE PortSpec => []PortTypeOK
<1>1. TypeInv => PortTypeOK
  BY DEF TypeInv
<1> QED
  BY <1>1, TypeInvariant, PTL
-----------------------------------------------------------------------------
(* Memory.  A port that is not a wire, and a port that was never made a    *)
(* destination, points to the vector it allocated.                         *)
LEMMA OwnedInit == PortInit => VectorsOwned
  BY DEF PortInit, VectorsOwned

LEMMA OwnedConnect ==
  ASSUME TypeInv, VectorsOwned, NEW src \in Port, NEW dst \in Port, Connect(src, dst)
  PROVE  VectorsOwned'
<1>1. CASE dirty[dst]
  BY <1>1 DEF TypeInv, PortTypeOK, VectorsOwned, Connect, Repointed, Cleaned
<1>2. CASE ~dirty[dst]
  BY <1>2 DEF TypeInv, PortTypeOK, VectorsOwned, Connect, Repointed, Cleaned
<1> QED
  BY <1>1, <1>2

LEMMA OwnedNext == TypeInv /\ VectorsOwned /\ [PortNext]_portVars => VectorsOwned'
<1> SUFFICES ASSUME TypeInv, VectorsOwned, [PortNext]_portVars PROVE VectorsOwned'
  OBVIOUS
<1>1. ASSUME NEW src \in Port, NEW dst \in Port, Connect(src, dst) PROVE VectorsOwned'
  BY <1>1, OwnedConnect
<1>2. CASE UserCall
  <2>1. CASE UNCHANGED <<wires, dirty, freed>>
    BY <2>1 DEF VectorsOwned
  <2>2. CASE \E src, dst \in Port : Connect(src, dst)
    BY <1>1, <2>2
  <2>3. ASSUME NEW l \in Links, Connect(l[1], l[2]) PROVE VectorsOwned'
    BY <2>2, <2>3, PortAssumption
  <2>4. (\E l \in Links : Connect(l[1], l[2])) \/ UNCHANGED <<wires, dirty, freed>>
    BY <1>2 DEF UserCall, Drive, SetSensitivity, OnChange
  <2> QED
    BY <2>1, <2>3, <2>4
<1>3. CASE UNCHANGED <<wires, dirty, freed>>
  BY <1>3 DEF VectorsOwned
<1> QED
  BY <1>2, <1>3
     DEF PortNext, BeginUpdate, CheckWire, RaiseSignal, SignalReturns, portVars

(* No vector is deleted twice and no deleted vector is still counted as    *)
(* its port's own, however ports of equal width are linked.                *)
THEOREM Owned == ASSUME EqualWidths PROVE PortSpec => []VectorsOwned
  BY OwnedInit, OwnedNext, TypeInvariant, PTL DEF PortSpec

(* With flat links, a port either points to the vector it allocated, which *)
(* still exists, or to that of the source it was linked to, which has not  *)
(* been a destination and never will be.  L is the set of links made.      *)
Flat(L) == \A l, k \in L : l[1] # k[2]

LinkOrigin(L) ==
  \A p \in Port : IF dirty[p] THEN wires[p] = p ELSE <<wires[p], p>> \in L

LEMMA OriginConnect ==
  ASSUME NEW L, Flat(L), TypeInv, LinkOrigin(L),
         NEW src \in Port, NEW dst \in Port, <<src, dst>> \in L, Connect(src, dst)
  PROVE  LinkOrigin(L)'
<1>1. dirty[src]
  <2> SUFFICES ASSUME ~dirty[src] PROVE FALSE
    BY DEF TypeInv, PortTypeOK
  <2>1. <<wires[src], src>> \in L
    BY DEF LinkOrigin
  <2> QED
    BY <2>1 DEF Flat
<1>2. wires[src] = src
  BY <1>1 DEF LinkOrigin
<1> QED
  BY <1>2 DEF TypeInv, PortTypeOK, LinkOrigin, Connect, Repointed

LEMMA OriginSafe ==
  ASSUME NEW L, Flat(L), TypeInv, VectorsOwned, LinkOrigin(L) PROVE NoDangling
<1> SUFFICES ASSUME NEW p \in Port, wires[p] \in freed
             PROVE  FALSE
  BY DEF NoDangling
<1>1. wires[p] \in Port /\ ~dirty[wires[p]]
  BY DEF TypeInv, PortTypeOK, VectorsOwned
<1>2. <<wires[wires[p]], wires[p]>> \in L
  BY <1>1 DEF LinkOrigin
<1>3. CASE dirty[p]
  BY <1>1, <1>3 DEF LinkOrigin
<1>4. CASE ~dirty[p]
  <2>1. <<wires[p], p>> \in L
    BY <1>4 DEF LinkOrigin
  <2> QED
    BY <1>2, <2>1 DEF Flat
<1> QED
  BY <1>3, <1>4 DEF TypeInv, PortTypeOK

LEMMA OriginInit == PortInit => LinkOrigin(Links)
  BY DEF PortInit, LinkOrigin

LEMMA OriginNext ==
  ASSUME FlatLinks
  PROVE  TypeInv /\ LinkOrigin(Links) /\ [PortNext]_portVars => LinkOrigin(Links)'
<1> SUFFICES ASSUME TypeInv, LinkOrigin(Links), [PortNext]_portVars PROVE LinkOrigin(Links)'
  OBVIOUS
<1>1. ASSUME NEW l \in Links, Connect(l[1], l[2]) PROVE LinkOrigin(Links)'
  <2>1. l[1] \in Port /\ l[2] \in Port /\ l = <<l[1], l[2]>>
    BY PortAssumption
  <2>2. Flat(Links)
    BY DEF Flat, FlatLinks
  <2> QED
    BY <1>1, <2>1, <2>2, OriginConnect
<1>2. CASE UserCall
  BY <1>1, <1>2 DEF UserCall, Drive, SetSensitivity, OnChange, LinkOrigin
<1>3. CASE UNCHANGED <<wires, dirty>>
  BY <1>3 DEF LinkOrigin
<1> QED
  BY <1>2, <1>3
     DEF PortNext, BeginUpdate, CheckWire, RaiseSignal, SignalReturns, portVars

(* When no port is both a source and a destination, and links join ports   *)
(* of equal width, however often and in whatever order the links are made, *)
(* no port points to a deleted vector.                                     *)
(* (Run port_chain shows that the condition is needed.)                    *)
THEOREM FlatIsSafe == ASSUME FlatLinks, EqualWidths PROVE PortSpec => []NoDangling
<1>1. TypeInv /\ VectorsOwned /\ LinkOrigin(Links) => NoDangling
  BY OriginSafe DEF Flat, FlatLinks
<1> QED
  BY <1>1, OriginInit, OriginNext, TypeInvariant, Owned, PTL DEF PortSpec

-----------------------------------------------------------------------------
(* The state of one wire of the vector that b allocated.                   *)
DrivenByOwner(b, w) ==
  /\ w.last_port_drive \in {b, NoPort}
  /\ w.refcount > 0 => w.last_port_drive = b /\ Type[b] = "PORT_REG"

EdgeShowsValue(w) == w.last_port_drive # NoPort => w.edge = EdgeOf(w.val)

CountsDown(w) == w.modules_connected <= w.modules_connected_orig

GoodWire(b, w) == DrivenByOwner(b, w) /\ EdgeShowsValue(w) /\ CountsDown(w)

LEMMA GoodNew == ASSUME NEW b \in Port PROVE GoodWire(b, NewWire("_0", NoPort))
  BY DEF GoodWire, DrivenByOwner, EdgeShowsValue, CountsDown, NewWire

LEMMA GoodLinked ==
  ASSUME NEW b \in Port, NEW w \in Wire, GoodWire(b, w) PROVE GoodWire(b, Linked(w))
<1>1. /\ Linked(w).val = w.val /\ Linked(w).edge = w.edge
      /\ Linked(w).refcount = w.refcount /\ Linked(w).last_port_drive = w.last_port_drive
      /\ Linked(w).modules_connected = Linked(w).modules_connected_orig
      /\ Linked(w).modules_connected \in Nat
  BY DEF Linked, Wire, WireOf
<1> QED
  BY <1>1 DEF GoodWire, DrivenByOwner, EdgeShowsValue, CountsDown

LEMMA GoodNullified ==
  ASSUME NEW b \in Port, NEW w \in Wire, GoodWire(b, w) PROVE GoodWire(b, Nullified(w))
  BY DEF GoodWire, DrivenByOwner, EdgeShowsValue, CountsDown, Nullified, EdgeOf, Wire, WireOf

LEMMA GoodDriven ==
  ASSUME NEW b \in Port, NEW w \in Wire, NEW v \in WireVal,
         GoodWire(b, w), Type[b] = "PORT_REG"
  PROVE  GoodWire(b, DrivenBy(w, v, b))
<1>1. /\ DrivenBy(w, v, b).last_port_drive = b
      /\ DrivenBy(w, v, b).edge = EdgeOf(v) /\ DrivenBy(w, v, b).val = v
      /\ DrivenBy(w, v, b).modules_connected = w.modules_connected
      /\ DrivenBy(w, v, b).modules_connected_orig = w.modules_connected_orig
  BY DEF DrivenBy, Wire, WireOf
<1> QED
  BY <1>1 DEF GoodWire, DrivenByOwner, EdgeShowsValue, CountsDown

LEMMA GoodChecked ==
  ASSUME NEW b \in Port, NEW w \in Wire, GoodWire(b, w) PROVE GoodWire(b, Checked(w))
<1>1. /\ Checked(w).val = w.val /\ Checked(w).edge = w.edge
      /\ Checked(w).refcount = w.refcount /\ Checked(w).last_port_drive = w.last_port_drive
  BY DEF Checked, Wire, WireOf
<1>2. CountsDown(Checked(w))
  BY DEF Checked, CountsDown, GoodWire, Wire, WireOf
<1> QED
  BY <1>1, <1>2 DEF GoodWire, DrivenByOwner, EdgeShowsValue

LEMMA GoodReleased ==
  ASSUME NEW b \in Port, NEW w \in Wire, GoodWire(b, w) PROVE GoodWire(b, Released(w))
  BY DEF Released, GoodWire, DrivenByOwner, EdgeShowsValue, CountsDown, Wire, WireOf

(* A register is never relinked, so a port that can drive points to the    *)
(* vector it allocated: this is what makes the wires' invariant inductive. *)
RegsOwn == \A p \in Port : Type[p] = "PORT_REG" => wires[p] = p

GoodWires == \A b \in Port : \A i \in Idx(b) : GoodWire(b, heap[b][i])

WireInv == TypeInv /\ RegsOwn /\ GoodWires

LEMMA RegsInit == PortInit => RegsOwn
  BY DEF PortInit, RegsOwn

LEMMA RegsConnect ==
  ASSUME TypeInv, RegsOwn, NEW src \in Port, NEW dst \in Port, Connect(src, dst)
  PROVE  RegsOwn'
  BY DEF TypeInv, PortTypeOK, RegsOwn, Connect, Repointed

LEMMA RegsNext == TypeInv /\ RegsOwn /\ [PortNext]_portVars => RegsOwn'
<1> SUFFICES ASSUME TypeInv, RegsOwn, [PortNext]_portVars PROVE RegsOwn'
  OBVIOUS
<1>1. ASSUME NEW src \in Port, NEW dst \in Port, Connect(src, dst) PROVE RegsOwn'
  BY <1>1, RegsConnect
<1>2. CASE UserCall
  BY <1>1, <1>2, PortAssumption DEF UserCall, Drive, SetSensitivity, OnChange, RegsOwn
<1>3. CASE UNCHANGED wires
  BY <1>3 DEF RegsOwn
<1> QED
  BY <1>2, <1>3
     DEF PortNext, BeginUpdate, CheckWire, RaiseSignal, SignalReturns, portVars

LEMMA GoodInit == PortInit => GoodWires
  BY GoodNew DEF PortInit, GoodWires

LEMMA GoodConnect ==
  ASSUME WireInv, NEW src \in Port, NEW dst \in Port, Connect(src, dst)
  PROVE  GoodWires'
<1> DEFINE s == wires[src]
<1>1. s \in Port
  BY DEF WireInv, TypeInv, PortTypeOK
<1>2. heap' = [heap EXCEPT ![s] = [i \in Idx(s) |-> Linked(heap[s][i])]]
  BY DEF Connect
<1> HIDE DEF s
<1> SUFFICES ASSUME NEW b \in Port, NEW i \in Idx(b) PROVE GoodWire(b, heap'[b][i])
  BY DEF GoodWires
<1>3. heap[b][i] \in Wire /\ GoodWire(b, heap[b][i])
  BY DEF WireInv, TypeInv, PortTypeOK, GoodWires, Wire, Driver
<1>4. CASE b = s
  <2>1. heap'[b][i] = Linked(heap[b][i])
    BY <1>1, <1>2, <1>4 DEF WireInv, TypeInv, PortTypeOK
  <2> QED
    BY <1>3, <2>1, GoodLinked
<1>5. CASE b # s
  BY <1>1, <1>2, <1>3, <1>5 DEF WireInv, TypeInv, PortTypeOK
<1> QED
  BY <1>4, <1>5

LEMMA GoodDrive ==
  ASSUME WireInv, NEW c \in DriveCalls, Drive(c)
  PROVE  GoodWires'
<1>1. /\ c.port \in Port /\ c.off \in Nat /\ c.len \in Nat /\ c.vals \in Seq(WireVal)
      /\ Type[c.port] = "PORT_REG"
  BY PortAssumption DEF Drive, Accepts
<1>2. wires[c.port] = c.port
  BY <1>1 DEF WireInv, RegsOwn
<1> DEFINE ws == DriveWires(heap[c.port], c.off, c.len, c.vals, c.port)
<1>3. heap' = [heap EXCEPT ![c.port] = ws]
  BY <1>2 DEF Drive
<1> SUFFICES ASSUME NEW b \in Port, NEW i \in Idx(b) PROVE GoodWire(b, heap'[b][i])
  BY DEF GoodWires
<1>4. /\ heap[b] \in [Idx(b) -> Wire] /\ heap[b][i] \in Wire
      /\ GoodWire(b, heap[b][i]) /\ Width[b] \in Nat
  BY IdxInterval DEF WireInv, TypeInv, PortTypeOK, GoodWires, Wire, Driver
<1>5. Nullified(heap[b][i]) \in Wire /\ GoodWire(b, Nullified(heap[b][i]))
  BY <1>4, NullifiedType, GoodNullified
<1>6. CASE b = c.port
  <2>1. heap'[b][i] = ws[i]
    BY <1>1, <1>3, <1>6 DEF WireInv, TypeInv, PortTypeOK
  <2> DEFINE v == c.vals[Len(c.vals) - Before(Undriven(heap[b], c.off, c.len), i)]
  <2>2. CASE i \in Takers(heap[b], c.off, c.len, c.vals)
    <3>1. v \in WireVal
      BY <1>1, <1>4, <2>2, TakenValue DEF Idx
    <3>2. ws[i] = DrivenBy(Nullified(heap[b][i]), v, b)
      BY <1>4, <1>6, <2>2 DEF DriveWires
    <3> HIDE DEF v
    <3> QED
      BY <1>1, <1>5, <1>6, <2>1, <3>1, <3>2, GoodDriven
  <2>3. CASE i \notin Takers(heap[b], c.off, c.len, c.vals)
    <3>1. ws[i] = Nullified(heap[b][i])
      BY <1>4, <1>6, <2>3 DEF DriveWires
    <3> QED
      BY <1>5, <2>1, <3>1
  <2> QED
    BY <2>2, <2>3
<1>7. CASE b # c.port
  BY <1>1, <1>3, <1>4, <1>7 DEF WireInv, TypeInv, PortTypeOK
<1> QED
  BY <1>6, <1>7

LEMMA GoodStep ==
  ASSUME WireInv, frame.port # NoPort, NEW w \in Wire, SetUpdatedWire(w),
         GoodWire(wires[frame.port], w)
  PROVE  GoodWires'
<1> DEFINE u == wires[frame.port]
<1>1. u \in Port /\ heap[u] \in [Idx(u) -> Wire] /\ frame.wire \in Idx(u)
  BY Updated DEF WireInv, TypeInv, PortTypeOK, Wire, Driver
<1>2. heap' = [heap EXCEPT ![u] = [heap[u] EXCEPT ![frame.wire] = w]] /\ GoodWire(u, w)
  BY DEF SetUpdatedWire
<1> HIDE DEF u
<1> SUFFICES ASSUME NEW b \in Port, NEW i \in Idx(b) PROVE GoodWire(b, heap'[b][i])
  BY DEF GoodWires
<1>3. GoodWire(b, heap[b][i])
  BY DEF WireInv, GoodWires
<1>4. CASE b = u /\ i = frame.wire
  <2>1. heap'[b][i] = w
    BY <1>1, <1>2, <1>4 DEF WireInv, TypeInv, PortTypeOK
  <2> QED
    BY <1>2, <1>4, <2>1
<1>5. CASE ~(b = u /\ i = frame.wire)
  <2>1. heap'[b][i] = heap[b][i]
    BY <1>1, <1>2, <1>5 DEF WireInv, TypeInv, PortTypeOK
  <2> QED
    BY <1>3, <2>1
<1> QED
  BY <1>4, <1>5

LEMMA GoodUpdated ==
  ASSUME WireInv, frame.port # NoPort
  PROVE  wires[frame.port] \in Port /\ UpdatedWire \in Wire
         /\ GoodWire(wires[frame.port], UpdatedWire)
  BY Updated DEF WireInv, GoodWires, UpdatedWire, WiresOf

LEMMA GoodNext == WireInv /\ [PortNext]_portVars => GoodWires'
<1> SUFFICES ASSUME WireInv, [PortNext]_portVars PROVE GoodWires'
  OBVIOUS
<1>1. CASE UserCall
  <2>1. ASSUME NEW l \in Links, Connect(l[1], l[2]) PROVE GoodWires'
    <3>1. l[1] \in Port /\ l[2] \in Port
      BY PortAssumption
    <3> QED
      BY <2>1, <3>1, GoodConnect
  <2>2. CASE UNCHANGED heap
    BY <2>2 DEF WireInv, GoodWires
  <2> QED
    BY <1>1, <2>1, <2>2, GoodDrive DEF UserCall, SetSensitivity, OnChange
<1>2. CASE CheckWire
  <2> DEFINE w == Released(Checked(UpdatedWire))
  <2>1. w \in Wire /\ GoodWire(wires[frame.port], w)
    BY <1>2, GoodUpdated, CheckedType, ReleasedType, GoodChecked, GoodReleased DEF CheckWire
  <2>2. frame.port # NoPort /\ SetUpdatedWire(w)
    BY <1>2 DEF CheckWire
  <2> HIDE DEF w
  <2> QED
    BY <2>1, <2>2, GoodStep
<1>3. CASE RaiseSignal
  <2> DEFINE w == Checked(UpdatedWire)
  <2>1. w \in Wire /\ GoodWire(wires[frame.port], w)
    BY <1>3, GoodUpdated, CheckedType, GoodChecked DEF RaiseSignal
  <2>2. frame.port # NoPort /\ SetUpdatedWire(w)
    BY <1>3 DEF RaiseSignal
  <2> HIDE DEF w
  <2> QED
    BY <2>1, <2>2, GoodStep
<1>4. CASE SignalReturns
  <2> DEFINE w == Released(UpdatedWire)
  <2>1. w \in Wire /\ GoodWire(wires[frame.port], w)
    BY <1>4, GoodUpdated, ReleasedType, GoodReleased DEF SignalReturns
  <2>2. frame.port # NoPort /\ SetUpdatedWire(w)
    BY <1>4 DEF SignalReturns
  <2> HIDE DEF w
  <2> QED
    BY <2>1, <2>2, GoodStep
<1>5. CASE UNCHANGED heap
  BY <1>5 DEF WireInv, GoodWires
<1> QED
  BY <1>1, <1>2, <1>3, <1>4, <1>5 DEF PortNext, BeginUpdate, portVars

LEMMA WireInvariant == ASSUME EqualWidths PROVE PortSpec => []WireInv
<1>1. PortInit => WireInv
  BY TypeInit, RegsInit, GoodInit DEF WireInv
<1>2. WireInv /\ [PortNext]_portVars => WireInv'
  BY TypeNext, RegsNext, GoodNext DEF WireInv
<1> QED
  BY <1>1, <1>2, PTL DEF PortSpec

(* While no port has assignments, one port drives a vector, the one that   *)
(* allocated it: a wire that counts as driven was driven by its owner,     *)
(* whatever ports share it.                                                *)
LEMMA OwnerDrives == ASSUME EqualWidths PROVE PortSpec => []OneDriver
<1>1. WireInv => OneDriver
  BY DEF WireInv, GoodWires, GoodWire, DrivenByOwner, OneDriver
<1> QED
  BY <1>1, WireInvariant, PTL

(* The edge of a wire that was ever driven is the edge of its value.       *)
THEOREM EdgesShowValues == ASSUME EqualWidths PROVE PortSpec => []EdgeIsOfValue
<1>1. WireInv => EdgeIsOfValue
  BY DEF WireInv, GoodWires, GoodWire, EdgeShowsValue, EdgeIsOfValue
<1> QED
  BY <1>1, WireInvariant, PTL

(* The countdown of a wire stays within the count it is restored to.       *)
THEOREM CountsStayBounded == ASSUME EqualWidths PROVE PortSpec => []CountBounded
<1>1. WireInv => CountBounded
  BY DEF WireInv, GoodWires, GoodWire, CountsDown, CountBounded
<1> QED
  BY <1>1, WireInvariant, PTL
=============================================================================
