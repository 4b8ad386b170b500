-------------------------- MODULE InitDrivesProofs --------------------------
(***************************************************************************)
(* Proofs about module InitDrives, for every number of ports and wires.    *)
(***************************************************************************)
EXTENDS InitDrives, SequenceTheorems, TLAPS

(* Typing, with what it takes to be inductive: a wire that is being driven *)
(* has no drive counted, since the other thread never counts one, and      *)
(* there is a value left for every wire that may still take one.           *)
Buses ==
  /\ bus \in [Idx -> WireOf({Driver, NoPort})]
  /\ \A x \in Idx : /\ bus[x].refcount \in 0 .. 1
                    /\ bus[x].modules_connected < Len(Order)
                    /\ bus[x].modules_connected_orig = Len(Order) - 1

Updating ==
  upd \in [at : {"outside", "check", "settle", "signal", "counted", "call", "release"},
           port : 1 .. Len(Order), wire : Idx, called : BOOLEAN, reads : Idx]

Nulling == drv.at \in {"null edge", "null val"}

Testing == drv.at = "test"

Taking == drv.at \in {"name", "edge", "val", "count"}

Named == drv.at \in {"edge", "val", "count"}

Driving ==
  /\ drv \in [at : {"none", "null edge", "null val", "test", "name", "edge", "val", "count"},
              wire : Idx, left : Seq(WireVal)]
  /\ Len(drv.left) <= Width
  /\ Nulling => Len(drv.left) = Width
  /\ Testing \/ Taking => Len(drv.left) >= Width - drv.wire
  /\ Taking => bus[drv.wire].refcount = 0

History ==
  /\ seen \in [Idx -> WireVal]
  /\ told \subseteq Idx
  /\ alone \in BOOLEAN
  /\ due \in BOOLEAN

TypeInv == Buses /\ Updating /\ Driving /\ History

(* A wire that was called back for is not counted on until it is driven    *)
(* again; the main thread may still be on its way to reset the count.      *)
InCall(x) == upd.wire = x /\ upd.called /\ upd.at \in {"call", "release"}

Spent == \A x \in told : bus[x].refcount = 0 \/ InCall(x)

(* A count that the main thread found is still there: only it resets one.  *)
StillCounted == MainAt("counted") => TheWire.refcount = 1

(* A drive that has stayed outside the passes has counted on every wire    *)
(* that it has reached, and on no other.                                   *)
Reached(x) == drv.at = "none" \/ ((Testing \/ Taking) /\ x < drv.wire)

Undisturbed ==
  alone =>
    /\ MainAt("outside")
    /\ Named => bus[drv.wire].last_port_drive = Driver
    /\ \A x \in Idx : /\ Reached(x) => bus[x].refcount = 1 /\ bus[x].last_port_drive = Driver
                      /\ ~Reached(x) => bus[x].refcount = 0

(* From the pass that follows it, until the next drive, the callback has   *)
(* read all wires, or the first port's update is still to call it, or has  *)
(* called it and it is reading.                                            *)
Ahead(x) ==
  \/ upd.wire < x
  \/ upd.wire = x /\ upd.at # "release"

Countable == \A x \in Idx : Ahead(x) => bus[x].refcount = 1 /\ bus[x].last_port_drive = Driver

Pending ==
  \/ /\ ~upd.called
     /\ Countable
     /\ \/ upd.at = "check" /\ \E x \in Idx : upd.wire <= x /\ IsChanged(bus[x])
        \/ upd.at = "release" /\ \E x \in Idx : upd.wire < x /\ IsChanged(bus[x])
        \/ upd.at \in {"settle", "signal", "counted"}
  \/ /\ upd.at = "call"
     /\ \A x \in Idx : x > upd.reads => seen[x] = bus[x].val

Heard ==
  due =>
    /\ drv.at = "none"
    /\ seen = BusValues \/ (upd.port = 1 /\ ~MainAt("outside") /\ Pending)
-----------------------------------------------------------------------------
(* The order of the ports, and the indices of the wires.                   *)
LEMMA Orders ==
  /\ Len(Order) \in Nat /\ Len(Order) > 0
  /\ DOMAIN Order = 1 .. Len(Order)
  /\ \A k \in 1 .. Len(Order) : Order[k] \in Port
  /\ Width \in Nat /\ Width > 0
  /\ \A x \in Idx : x \in Nat /\ x < Width
  /\ \A x \in Nat : x < Width => x \in Idx
  /\ Driver # NoPort
<1>1. Len(Order) \in Nat /\ DOMAIN Order = 1 .. Len(Order)
  BY LenProperties, InitDrivesAssumption
<1>2. PICK d \in DOMAIN Order : Order[d] = Driver
  BY InitDrivesAssumption DEF Port
<1>3. Len(Order) > 0
  BY <1>1, <1>2
<1>4. Width \in Nat /\ Width > 0
  BY InitDrivesAssumption
<1>5. /\ \A x \in Idx : x \in Nat /\ x < Width
      /\ \A x \in Nat : x < Width => x \in Idx
  BY <1>4 DEF Idx
<1>6. \A k \in 1 .. Len(Order) : Order[k] \in Port
  BY <1>1 DEF Port
<1>7. Driver # NoPort
  BY InitDrivesAssumption
<1> QED
  BY <1>1, <1>3, <1>4, <1>5, <1>6, <1>7

(* A wire whose counts are in range.                                       *)
Fit(w) ==
  /\ w \in WireOf({Driver, NoPort})
  /\ w.refcount \in 0 .. 1
  /\ w.modules_connected < Len(Order)
  /\ w.modules_connected_orig = Len(Order) - 1

(* Replacing one wire by a wire that fits.                                 *)
LEMMA OneWire ==
  ASSUME Buses, NEW x \in Idx, NEW w, Fit(w), SetWire(x, w)
  PROVE  /\ Buses'
         /\ bus'[x] = w
         /\ \A y \in Idx : y # x => bus'[y] = bus[y]
<1>1. bus' \in [Idx -> WireOf({Driver, NoPort})]
  BY DEF Buses, SetWire, Fit
<1>2. bus'[x] = w /\ \A y \in Idx : y # x => bus'[y] = bus[y]
  BY DEF Buses, SetWire
<1>3. \A y \in Idx : Fit(bus'[y])
  BY <1>2 DEF Buses, Fit
<1> QED
  BY <1>1, <1>2, <1>3 DEF Buses, Fit

(* What the steps of the two threads write.                                *)
LEMMA FitCounted ==
  ASSUME NEW w, Fit(w), w.modules_connected > 0
  PROVE  Fit([w EXCEPT !.modules_connected = @ - 1])
BY Orders DEF Fit, WireOf

LEMMA FitSettled == ASSUME NEW w, Fit(w) PROVE Fit(SettledTo(w))
<1>1. w.edge \in WireEdge /\ w.modules_connected_orig \in Nat
  BY DEF Fit, WireOf
<1>2. w.modules_connected_orig < Len(Order)
  BY Orders DEF Fit
<1> DEFINE e == w.edge
           n == w.modules_connected_orig
<1> HIDE DEF e, n
<1>3. SettledTo(w) = [w EXCEPT !.old_edge = e, !.modules_connected = n]
  BY DEF SettledTo, e, n
<1>4. e \in WireEdge /\ n \in Nat /\ n < Len(Order)
  BY <1>1, <1>2 DEF e, n
<1> QED
  BY <1>3, <1>4 DEF Fit, WireOf

LEMMA FitReleased == ASSUME NEW w, Fit(w) PROVE Fit(Released(w))
BY Orders DEF Fit, WireOf, Released

LEMMA FitEdge ==
  ASSUME NEW w, Fit(w), NEW e \in WireEdge
  PROVE  Fit([w EXCEPT !.edge = e])
BY DEF Fit, WireOf

LEMMA FitVal ==
  ASSUME NEW w, Fit(w), NEW v \in WireVal
  PROVE  Fit([w EXCEPT !.val = v])
BY DEF Fit, WireOf

LEMMA FitOwned == ASSUME NEW w, Fit(w) PROVE Fit([w EXCEPT !.last_port_drive = Driver])
BY DEF Fit, WireOf

LEMMA FitDriven ==
  ASSUME NEW w, Fit(w), w.refcount = 0
  PROVE  Fit([w EXCEPT !.refcount = @ + 1])
BY DEF Fit, WireOf

LEMMA EdgeType == ASSUME NEW v \in WireVal PROVE EdgeOf(v) \in WireEdge
BY DEF WireVal, WireEdge, EdgeOf

LEMMA TypeInit == Init => TypeInv
<1> SUFFICES ASSUME Init PROVE TypeInv
  OBVIOUS
<1>1. Buses
  <2> DEFINE w == [NewWire("_0", NoPort) EXCEPT
                     !.modules_connected = Len(Order) - 1,
                     !.modules_connected_orig = Len(Order) - 1]
  <2>1. Fit(w)
    <3> DEFINE n == Len(Order) - 1
    <3>1. n \in Nat /\ n < Len(Order)
      BY Orders
    <3>2. w = [NewWire("_0", NoPort) EXCEPT !.modules_connected = n, !.modules_connected_orig = n]
      OBVIOUS
    <3> HIDE DEF n, w
    <3>3. w = [val |-> "_0", edge |-> "NULLEDGE", old_edge |-> "NULLEDGE",
               modules_connected |-> n, modules_connected_orig |-> n,
               refcount |-> 0, last_port_drive |-> NoPort]
      BY <3>2 DEF NewWire
    <3>4. w \in WireOf({Driver, NoPort})
      <4>1. /\ n \in Nat /\ NoPort \in {Driver, NoPort}
            /\ "_0" \in WireVal /\ "NULLEDGE" \in WireEdge /\ 0 \in Nat
        BY <3>1 DEF WireVal, WireEdge
      <4> QED
        BY <3>3, <4>1 DEF WireOf
    <3>5. w.refcount = 0 /\ w.modules_connected = n /\ w.modules_connected_orig = n
      BY <3>3
    <3> QED
      BY <3>1, <3>4, <3>5 DEF Fit, n
  <2>2. bus = [x \in Idx |-> w]
    BY DEF Init
  <2> HIDE DEF w
  <2> QED
    BY <2>1, <2>2 DEF Buses, Fit
<1>2. 0 \in Idx
  BY Orders
<1>3. Updating
  BY <1>2, Orders DEF Init, Updating, Outside
<1>4. Driving
  <2>1. <<>> \in Seq(WireVal) /\ Len(<<>>) = 0
    BY EmptySeq
  <2> DEFINE none == <<>>
  <2> HIDE DEF none
  <2>2. none \in Seq(WireVal) /\ Len(none) = 0 /\ drv = [at |-> "none", wire |-> 0, left |-> none]
    BY <2>1 DEF Init, NotDriving, none
  <2>3. drv.left = none
    BY <2>2
  <2>4. Len(drv.left) <= Width
    BY <2>2, <2>3, Orders
  <2> QED
    BY <1>2, <2>2, <2>4 DEF Driving, Nulling, Testing, Taking
<1>5. History
  BY <1>1 DEF Init, History, BusValues, Buses, WireOf
<1> QED
  BY <1>1, <1>3, <1>4, <1>5 DEF TypeInv

-----------------------------------------------------------------------------
(* The parts of the typing that a step of one thread leaves alone.         *)
LEMMA MainKeeps ==
  ASSUME TypeInv, Buses', Updating',
         \A x \in Idx : bus[x].refcount = 0 => bus'[x].refcount = 0,
         UNCHANGED <<drv, told>>, seen' = seen \/ History',
         alone' \in BOOLEAN, due' \in BOOLEAN
  PROVE  TypeInv'
<1>1. Driving'
  <2>1. (Nulling <=> Nulling') /\ (Testing <=> Testing') /\ (Taking <=> Taking')
    BY DEF Nulling, Testing, Taking
  <2> QED
    BY <2>1 DEF TypeInv, Driving
<1>2. History'
  BY DEF TypeInv, History
<1> QED
  BY <1>1, <1>2 DEF TypeInv

LEMMA TypeBeginPass == ASSUME TypeInv, BeginPass PROVE TypeInv'
<1>1. Buses'
  BY DEF TypeInv, BeginPass, Buses
<1>2. Updating'
  <2>1. 0 \in Idx /\ 1 \in 1 .. Len(Order)
    BY Orders
  <2>2. upd' = [at |-> "check", port |-> 1, wire |-> 0, called |-> FALSE, reads |-> 0]
    BY DEF BeginPass, Outside
  <2> QED
    BY <2>1, <2>2 DEF Updating
<1>3. \A x \in Idx : bus[x].refcount = 0 => bus'[x].refcount = 0
  BY DEF BeginPass
<1>4. due' \in BOOLEAN /\ alone' \in BOOLEAN /\ seen' = seen
  BY DEF BeginPass, TypeInv, History
<1>5. UNCHANGED <<drv, told>>
  BY DEF BeginPass
<1> QED
  BY <1>1, <1>2, <1>3, <1>4, <1>5, MainKeeps

(* The wire that the main thread is at.                                    *)
LEMMA AtWire == ASSUME TypeInv PROVE upd.wire \in Idx /\ Fit(TheWire)
BY DEF TypeInv, Updating, Buses, Fit, TheWire

LEMMA TypeCheckEdge == ASSUME TypeInv, CheckEdge PROVE TypeInv'
<1>1. Updating'
  BY DEF TypeInv, CheckEdge, Updating
<1>2. Buses' /\ \A x \in Idx : bus[x].refcount = 0 => bus'[x].refcount = 0
  <2>1. CASE UNCHANGED bus
    BY <2>1 DEF TypeInv, Buses
  <2>2. CASE /\ TheWire.modules_connected > 0
             /\ SetWire(upd.wire, [TheWire EXCEPT !.modules_connected = @ - 1])
    <3> DEFINE w == [TheWire EXCEPT !.modules_connected = @ - 1]
    <3>1. Fit(w) /\ w.refcount = TheWire.refcount
      BY <2>2, AtWire, FitCounted DEF Fit, WireOf
    <3> HIDE DEF w
    <3>2. SetWire(upd.wire, w)
      BY <2>2 DEF w
    <3>3. /\ Buses' /\ bus'[upd.wire] = w
          /\ \A y \in Idx : y # upd.wire => bus'[y] = bus[y]
      BY <3>1, <3>2, AtWire, OneWire DEF TypeInv
    <3> QED
      BY <3>1, <3>3 DEF TheWire
  <2> QED
    BY <2>1, <2>2 DEF CheckEdge
<1>3. UNCHANGED <<drv, told, seen>> /\ alone' \in BOOLEAN /\ due' \in BOOLEAN
  BY DEF TypeInv, CheckEdge, History
<1> QED
  BY <1>1, <1>2, <1>3, MainKeeps

LEMMA TypeSettleEdge == ASSUME TypeInv, SettleEdge PROVE TypeInv'
<1>1. Updating'
  BY DEF TypeInv, SettleEdge, Updating
<1>2. Buses' /\ \A x \in Idx : bus[x].refcount = 0 => bus'[x].refcount = 0
  <2>1. Fit(SettledTo(TheWire)) /\ SettledTo(TheWire).refcount = TheWire.refcount
    BY AtWire, FitSettled DEF SettledTo, Fit, WireOf
  <2>2. /\ Buses' /\ bus'[upd.wire] = SettledTo(TheWire)
        /\ \A y \in Idx : y # upd.wire => bus'[y] = bus[y]
    BY <2>1, AtWire, OneWire DEF TypeInv, SettleEdge
  <2> QED
    BY <2>1, <2>2 DEF TheWire
<1>3. UNCHANGED <<drv, told, seen>> /\ alone' \in BOOLEAN /\ due' \in BOOLEAN
  BY DEF TypeInv, SettleEdge, History
<1> QED
  BY <1>1, <1>2, <1>3, MainKeeps

LEMMA TypeTestSignal == ASSUME TypeInv, TestSignal PROVE TypeInv'
<1>1. Updating'
  BY DEF TypeInv, TestSignal, Updating
<1>2. Buses' /\ \A x \in Idx : bus[x].refcount = 0 => bus'[x].refcount = 0
  BY DEF TypeInv, TestSignal, Buses
<1>3. UNCHANGED <<drv, told, seen>> /\ alone' \in BOOLEAN /\ due' \in BOOLEAN
  BY DEF TypeInv, TestSignal, History
<1> QED
  BY <1>1, <1>2, <1>3, MainKeeps

LEMMA TypeTestDriver == ASSUME TypeInv, TestDriver PROVE TypeInv'
<1>1. Updating'
  <2>1. Width - 1 \in Idx
    BY Orders
  <2> QED
    BY <2>1 DEF TypeInv, TestDriver, Updating
<1>2. Buses'
  BY DEF TypeInv, TestDriver, Buses
<1>3. Driving'
  <2>1. UNCHANGED <<drv, bus>>
    BY DEF TestDriver
  <2>2. (Nulling <=> Nulling') /\ (Testing <=> Testing') /\ (Taking <=> Taking')
    BY <2>1 DEF Nulling, Testing, Taking
  <2> QED
    BY <2>1, <2>2 DEF TypeInv, Driving
<1>4. History'
  BY AtWire DEF TypeInv, TestDriver, History
<1> QED
  BY <1>1, <1>2, <1>3, <1>4 DEF TypeInv

LEMMA TypeCallbackReads == ASSUME TypeInv, CallbackReads PROVE TypeInv'
<1>1. Updating'
  <2>1. upd.reads \in Idx /\ (upd.reads > 0 => upd.reads - 1 \in Idx)
    BY Orders DEF TypeInv, Updating
  <2> QED
    BY <2>1 DEF TypeInv, CallbackReads, Updating
<1>2. Buses' /\ \A x \in Idx : bus[x].refcount = 0 => bus'[x].refcount = 0
  BY DEF TypeInv, CallbackReads, Buses
<1>3. UNCHANGED <<drv, told>> /\ alone' \in BOOLEAN /\ due' \in BOOLEAN
  BY DEF TypeInv, CallbackReads, History
<1>4. History'
  <2>1. upd.reads \in Idx /\ bus[upd.reads].val \in WireVal
    BY DEF TypeInv, Updating, Buses, WireOf
  <2>2. seen' \in [Idx -> WireVal]
    BY <2>1 DEF TypeInv, History, CallbackReads
  <2> QED
    BY <1>3, <2>2 DEF TypeInv, History
<1> QED
  BY <1>1, <1>2, <1>3, <1>4, MainKeeps

LEMMA NextWireType == ASSUME TypeInv PROVE NextWire \in
    [at : {"outside", "check", "settle", "signal", "counted", "call", "release"},
     port : 1 .. Len(Order), wire : Idx, called : BOOLEAN, reads : Idx]
<1>1. upd.wire \in Nat /\ upd.wire < Width /\ upd.port \in 1 .. Len(Order) /\ 0 \in Idx
  BY Orders DEF TypeInv, Updating
<1>2. CASE upd.wire + 1 < Width
  <2>1. upd.wire + 1 \in Idx
    BY <1>1, <1>2, Orders
  <2>2. NextWire = [upd EXCEPT !.wire = @ + 1, !.at = "check"]
    BY <1>1, <1>2, Orders DEF NextWire
  <2> QED
    BY <2>1, <2>2 DEF TypeInv, Updating
<1>3. CASE upd.wire + 1 = Width /\ upd.port < Len(Order)
  <2>1. upd.port + 1 \in 1 .. Len(Order)
    BY <1>1, <1>3, Orders
  <2>2. NextWire = [Outside EXCEPT !.port = upd.port + 1, !.at = "check"]
    BY <1>1, <1>3, Orders DEF NextWire
  <2> QED
    BY <1>1, <2>1, <2>2 DEF Outside
<1>4. CASE upd.wire + 1 = Width /\ upd.port = Len(Order)
  <2>1. NextWire = Outside
    BY <1>1, <1>4, Orders DEF NextWire
  <2> QED
    BY <1>1, <2>1, Orders DEF Outside
<1>5. upd.wire + 1 < Width \/ upd.wire + 1 = Width
  BY <1>1, Orders
<1>6. upd.port < Len(Order) \/ upd.port = Len(Order)
  BY <1>1, Orders
<1> QED
  BY <1>2, <1>3, <1>4, <1>5, <1>6

LEMMA TypeReleaseWire == ASSUME TypeInv, ReleaseWire PROVE TypeInv'
<1>1. Updating'
  BY NextWireType DEF ReleaseWire, Updating
<1>2. Buses' /\ \A x \in Idx : bus[x].refcount = 0 => bus'[x].refcount = 0
  <2>1. Fit(Released(TheWire)) /\ Released(TheWire).refcount = 0
    BY AtWire, FitReleased DEF Released, Fit, WireOf
  <2>2. /\ Buses' /\ bus'[upd.wire] = Released(TheWire)
        /\ \A y \in Idx : y # upd.wire => bus'[y] = bus[y]
    BY <2>1, AtWire, OneWire DEF TypeInv, ReleaseWire
  <2> QED
    BY <2>1, <2>2
<1>3. UNCHANGED <<drv, told, seen>> /\ alone' \in BOOLEAN /\ due' \in BOOLEAN
  BY DEF TypeInv, ReleaseWire, History
<1> QED
  BY <1>1, <1>2, <1>3, MainKeeps

-----------------------------------------------------------------------------
(* The parts of the typing that a step of a drive leaves alone.            *)
LEMMA DriveKeeps ==
  ASSUME TypeInv, Buses', Driving', UNCHANGED <<upd, seen>>,
         told' \subseteq told, alone' \in BOOLEAN, due' \in BOOLEAN
  PROVE  TypeInv'
<1>1. Updating'
  BY DEF TypeInv, Updating
<1>2. History'
  BY DEF TypeInv, History
<1> QED
  BY <1>1, <1>2 DEF TypeInv

LEMMA TypeBeginDrive == ASSUME TypeInv, BeginDrive PROVE TypeInv'
<1>1. PICK v \in Drives : drv' = [at |-> "null edge", wire |-> 0, left |-> v]
  BY DEF BeginDrive
<1>2. v \in Seq(WireVal) /\ Len(v) = Width
  BY InitDrivesAssumption
<1>3. Driving'
  <2>1. drv'.at = "null edge" /\ drv'.left = v /\ 0 \in Idx
    BY <1>1, Orders
  <2>2. drv' \in [at : {"none", "null edge", "null val", "test", "name", "edge", "val", "count"},
                  wire : Idx, left : Seq(WireVal)]
    BY <1>1, <1>2, <2>1
  <2>3. Len(drv'.left) = Width
    BY <1>2, <2>1
  <2>4. Len(drv'.left) <= Width
    BY <2>3, Orders
  <2>5. ~Testing' /\ ~Taking'
    BY <2>1 DEF Testing, Taking
  <2> QED
    BY <2>2, <2>3, <2>4, <2>5 DEF Driving
<1>4. Buses'
  BY DEF TypeInv, BeginDrive, Buses
<1>5. UNCHANGED <<upd, seen, told>> /\ due' \in BOOLEAN
  BY DEF BeginDrive
<1>6. alone' \in BOOLEAN
  BY DEF BeginDrive
<1> QED
  BY <1>3, <1>4, <1>5, <1>6, DriveKeeps

(* The wire that the drive is at.                                          *)
LEMMA AtDriven ==
  ASSUME TypeInv
  PROVE  /\ drv.wire \in Idx /\ drv.wire \in Nat /\ drv.wire < Width
         /\ Fit(bus[drv.wire])
         /\ drv.left \in Seq(WireVal) /\ Len(drv.left) \in Nat
<1>1. drv.wire \in Idx /\ drv.left \in Seq(WireVal)
  BY DEF TypeInv, Driving
<1>2. Len(drv.left) \in Nat
  BY <1>1, LenProperties
<1> QED
  BY <1>1, <1>2, Orders DEF TypeInv, Buses, Fit

LEMMA TypeNullifyEdge == ASSUME TypeInv, NullifyEdge PROVE TypeInv'
<1> DEFINE w == [bus[drv.wire] EXCEPT !.edge = "NULLEDGE"]
<1>1. Fit(w)
  BY AtDriven, FitEdge DEF WireEdge
<1> HIDE DEF w
<1>2. Buses'
  BY <1>1, AtDriven, OneWire DEF TypeInv, NullifyEdge, w
<1>3. Driving'
  BY DEF TypeInv, NullifyEdge, Driving, Nulling, Testing, Taking
<1>4. UNCHANGED <<upd, seen, told, alone, due>>
  BY DEF NullifyEdge
<1> QED
  BY <1>2, <1>3, <1>4, DriveKeeps DEF TypeInv, History

LEMMA TypeNullifyVal == ASSUME TypeInv, NullifyVal PROVE TypeInv'
<1> DEFINE w == [bus[drv.wire] EXCEPT !.val = "_X"]
<1>1. Fit(w)
  BY AtDriven, FitVal DEF WireVal
<1> HIDE DEF w
<1>2. Buses'
  BY <1>1, AtDriven, OneWire DEF TypeInv, NullifyVal, w
<1>3. Driving'
  <2>1. Len(drv.left) = Width
    BY DEF TypeInv, Driving, Nulling, NullifyVal
  <2>2. CASE drv.wire + 1 < Width
    <3>1. drv' = [drv EXCEPT !.wire = @ + 1, !.at = "null edge"]
      BY <2>2 DEF NullifyVal, NextDriven
    <3>2. drv.wire + 1 \in Idx
      BY <2>2, AtDriven, Orders
    <3> QED
      BY <2>1, <3>1, <3>2 DEF TypeInv, Driving, Nulling, Testing, Taking
  <2>3. CASE ~(drv.wire + 1 < Width)
    <3>1. drv' = [drv EXCEPT !.wire = 0, !.at = "test"]
      BY <2>3 DEF NullifyVal, NextDriven
    <3>2. drv'.wire = 0 /\ drv'.at = "test" /\ drv'.left = drv.left /\ 0 \in Idx
      BY <3>1, Orders DEF TypeInv, Driving
    <3>3. drv' \in [at : {"none", "null edge", "null val", "test", "name", "edge", "val", "count"},
                    wire : Idx, left : Seq(WireVal)]
      BY <3>1, <3>2 DEF TypeInv, Driving
    <3>4. Len(drv'.left) >= Width - drv'.wire /\ Len(drv'.left) <= Width
      BY <2>1, <3>2, Orders
    <3> QED
      BY <3>2, <3>3, <3>4 DEF Driving, Nulling, Testing, Taking
  <2> QED
    BY <2>2, <2>3
<1>4. UNCHANGED <<upd, seen, told, alone, due>>
  BY DEF NullifyVal
<1> QED
  BY <1>2, <1>3, <1>4, DriveKeeps DEF TypeInv, History

LEMMA TypeTestWire == ASSUME TypeInv, TestWire PROVE TypeInv'
<1>1. Buses'
  BY DEF TypeInv, TestWire, Buses
<1>3. Driving'
  <2>1. drv' = [drv EXCEPT !.at = "name"] /\ drv.at = "test" /\ bus' = bus
    BY DEF TestWire
  <2>2. drv'.wire = drv.wire /\ drv'.at = "name" /\ drv'.left = drv.left
    BY <2>1 DEF TypeInv, Driving
  <2>3. bus'[drv'.wire].refcount = 0
    BY <2>1, <2>2 DEF TestWire, Free
  <2>4. Len(drv.left) >= Width - drv.wire
    BY <2>1 DEF TypeInv, Driving, Testing
  <2>5. drv' \in [at : {"none", "null edge", "null val", "test", "name", "edge", "val", "count"},
                  wire : Idx, left : Seq(WireVal)]
    BY <2>1 DEF TypeInv, Driving
  <2> QED
    BY <2>2, <2>3, <2>4, <2>5 DEF TypeInv, Driving, Nulling, Testing, Taking
<1>4. UNCHANGED <<upd, seen, told, alone, due>>
  BY DEF TestWire
<1> QED
  BY <1>1, <1>3, <1>4, DriveKeeps DEF TypeInv, History

LEMMA NoDrive ==
  ASSUME drv' = NotDriving
  PROVE  Driving'
<1> DEFINE none == <<>>
<1>1. none \in Seq(WireVal) /\ Len(none) = 0
  BY EmptySeq
<1> HIDE DEF none
<1>2. drv' = [at |-> "none", wire |-> 0, left |-> none]
  BY DEF NotDriving, none
<1>3. Len(drv'.left) <= Width
  BY <1>1, <1>2, Orders
<1> QED
  BY <1>1, <1>2, <1>3, Orders DEF Driving, Nulling, Testing, Taking

LEMMA TypeSkipWire == ASSUME TypeInv, SkipWire PROVE TypeInv'
<1>1. Buses'
  BY DEF TypeInv, SkipWire, Buses
<1>2. Driving'
  <2>1. CASE drv.wire + 1 < Width
    <3>1. drv' = [drv EXCEPT !.wire = @ + 1] /\ drv.at = "test"
      BY <2>1 DEF SkipWire
    <3>2. drv.wire + 1 \in Idx
      BY <2>1, AtDriven, Orders
    <3>3. drv'.wire = drv.wire + 1 /\ drv'.at = "test" /\ drv'.left = drv.left
      BY <3>1 DEF TypeInv, Driving
    <3>4. Len(drv.left) >= Width - drv.wire
      BY <3>1 DEF TypeInv, Driving, Testing
    <3>5. drv' \in [at : {"none", "null edge", "null val", "test", "name", "edge", "val", "count"},
                    wire : Idx, left : Seq(WireVal)]
      BY <3>1, <3>2 DEF TypeInv, Driving
    <3>6. Len(drv'.left) >= Width - drv'.wire
      BY <3>3, <3>4, AtDriven, Orders
    <3> QED
      BY <3>3, <3>5, <3>6 DEF TypeInv, Driving, Nulling, Testing, Taking
  <2>2. CASE ~(drv.wire + 1 < Width)
    BY <2>2, NoDrive DEF SkipWire
  <2> QED
    BY <2>1, <2>2
<1>3. UNCHANGED <<upd, seen, told, alone, due>>
  BY DEF SkipWire
<1> QED
  BY <1>1, <1>2, <1>3, DriveKeeps DEF TypeInv, History

(* The value for the wire that is being driven.                            *)
LEMMA LogicType == ASSUME TypeInv, Taking PROVE Logic \in WireVal /\ Len(drv.left) > 0
<1>1. Len(drv.left) >= Width - drv.wire
  BY DEF TypeInv, Driving
<1>2. Len(drv.left) > 0
  BY <1>1, AtDriven, Orders
<1> QED
  BY <1>2, AtDriven, ElementOfSeq DEF Logic

(* Another step of a drive on the same wire that leaves its count alone.   *)
LEMMA SameDriven ==
  ASSUME TypeInv, Taking, NEW at \in {"edge", "val", "count"}, drv' = [drv EXCEPT !.at = at],
         bus'[drv.wire].refcount = 0
  PROVE  Driving'
<1>1. drv'.wire = drv.wire /\ drv'.at = at /\ drv'.left = drv.left
  BY DEF TypeInv, Driving
<1>2. drv' \in [at : {"none", "null edge", "null val", "test", "name", "edge", "val", "count"},
                wire : Idx, left : Seq(WireVal)]
  BY DEF TypeInv, Driving
<1> QED
  BY <1>1, <1>2 DEF TypeInv, Driving, Nulling, Testing, Taking

LEMMA TypeNameDriver == ASSUME TypeInv, NameDriver PROVE TypeInv'
<1>0. Taking
  BY DEF NameDriver, Taking
<1> DEFINE w == [bus[drv.wire] EXCEPT !.last_port_drive = Driver]
<1>1. Fit(w) /\ w.refcount = bus[drv.wire].refcount
  BY AtDriven, FitOwned DEF Fit, WireOf
<1> HIDE DEF w
<1>2. Buses' /\ bus'[drv.wire] = w
  BY <1>1, AtDriven, OneWire DEF TypeInv, NameDriver, w
<1>3. bus'[drv.wire].refcount = 0
  BY <1>0, <1>1, <1>2 DEF TypeInv, Driving
<1>4. Driving'
  BY <1>0, <1>3, SameDriven DEF NameDriver
<1>5. UNCHANGED <<upd, seen, told, alone, due>>
  BY DEF NameDriver
<1> QED
  BY <1>2, <1>4, <1>5, DriveKeeps DEF TypeInv, History

LEMMA TypeDriveEdge == ASSUME TypeInv, DriveEdge PROVE TypeInv'
<1>0. Taking
  BY DEF DriveEdge, Taking
<1> DEFINE e == EdgeOf(Logic)
           w == [bus[drv.wire] EXCEPT !.edge = e]
<1>1. e \in WireEdge
  BY <1>0, LogicType, EdgeType
<1> HIDE DEF e
<1>2. Fit(w) /\ w.refcount = bus[drv.wire].refcount
  BY <1>1, AtDriven, FitEdge DEF Fit, WireOf
<1> HIDE DEF w
<1>3. Buses' /\ bus'[drv.wire] = w
  BY <1>2, AtDriven, OneWire DEF TypeInv, DriveEdge, w, e
<1>4. bus'[drv.wire].refcount = 0
  BY <1>0, <1>2, <1>3 DEF TypeInv, Driving
<1>5. Driving'
  BY <1>0, <1>4, SameDriven DEF DriveEdge
<1>6. UNCHANGED <<upd, seen, told, alone, due>>
  BY DEF DriveEdge
<1> QED
  BY <1>3, <1>5, <1>6, DriveKeeps DEF TypeInv, History

LEMMA TypeDriveVal == ASSUME TypeInv, DriveVal PROVE TypeInv'
<1>0. Taking
  BY DEF DriveVal, Taking
<1> DEFINE w == [bus[drv.wire] EXCEPT !.val = Logic]
<1>2. Fit(w) /\ w.refcount = bus[drv.wire].refcount
  BY <1>0, LogicType, AtDriven, FitVal DEF Fit, WireOf
<1> HIDE DEF w
<1>3. Buses' /\ bus'[drv.wire] = w
  BY <1>2, AtDriven, OneWire DEF TypeInv, DriveVal, w
<1>4. bus'[drv.wire].refcount = 0
  BY <1>0, <1>2, <1>3 DEF TypeInv, Driving
<1>5. Driving'
  BY <1>0, <1>4, SameDriven DEF DriveVal
<1>6. UNCHANGED <<upd, seen, told, alone, due>>
  BY DEF DriveVal
<1> QED
  BY <1>3, <1>5, <1>6, DriveKeeps DEF TypeInv, History

LEMMA TypeCountDrive == ASSUME TypeInv, CountDrive PROVE TypeInv'
<1>0. Taking
  BY DEF CountDrive, Taking
<1> DEFINE w == [bus[drv.wire] EXCEPT !.refcount = @ + 1]
<1>1. Fit(w)
  BY <1>0, AtDriven, FitDriven DEF TypeInv, Driving
<1> HIDE DEF w
<1>2. Buses'
  BY <1>1, AtDriven, OneWire DEF TypeInv, CountDrive, w
<1>3. Driving'
  <2>1. CASE drv.wire + 1 < Width
    <3> DEFINE rest == SubSeq(drv.left, 1, Len(drv.left) - 1)
    <3>1. Len(drv.left) >= Width - drv.wire /\ Len(drv.left) > 0 /\ Len(drv.left) <= Width
      BY <1>0, LogicType DEF TypeInv, Driving
    <3>2. \A k \in 1 .. Len(drv.left) - 1 : drv.left[k] \in WireVal
      BY AtDriven, ElementOfSeq
    <3>3. rest \in Seq(WireVal) /\ Len(rest) = Len(drv.left) - 1
      BY <3>1, <3>2, AtDriven, SubSeqProperties
    <3>4. drv' = [at |-> "test", wire |-> drv.wire + 1, left |-> rest]
      BY <2>1 DEF CountDrive
    <3> HIDE DEF rest
    <3>5. drv.wire + 1 \in Idx
      BY <2>1, AtDriven, Orders
    <3>6. Len(rest) >= Width - (drv.wire + 1) /\ Len(rest) <= Width
      BY <3>1, <3>3, AtDriven, Orders
    <3> QED
      BY <3>3, <3>4, <3>5, <3>6 DEF Driving, Nulling, Testing, Taking
  <2>2. CASE ~(drv.wire + 1 < Width)
    BY <2>2, NoDrive DEF CountDrive
  <2> QED
    BY <2>1, <2>2
<1>4. UNCHANGED <<upd, seen, alone, due>> /\ told' \subseteq told
  BY DEF CountDrive
<1> QED
  BY <1>2, <1>3, <1>4, DriveKeeps DEF TypeInv, History

LEMMA TypeNext == TypeInv /\ [Next]_vars => TypeInv'
<1> SUFFICES ASSUME TypeInv, [Next]_vars PROVE TypeInv'
  OBVIOUS
<1>1. CASE MainStep
  BY <1>1, TypeBeginPass, TypeCheckEdge, TypeSettleEdge, TypeTestSignal, TypeTestDriver,
     TypeCallbackReads, TypeReleaseWire DEF MainStep
<1>2. CASE BeginDrive
  BY <1>2, TypeBeginDrive
<1>3. CASE DriveStep
  BY <1>3, TypeNullifyEdge, TypeNullifyVal, TypeTestWire, TypeNameDriver, TypeSkipWire,
     TypeDriveEdge, TypeDriveVal, TypeCountDrive DEF DriveStep
<1>4. CASE UNCHANGED vars
  BY <1>4 DEF vars, TypeInv, Buses, Updating, Driving, Nulling, Testing, Taking, History
<1> QED
  BY <1>1, <1>2, <1>3, <1>4 DEF Next

LEMMA TypeInvariant == Spec => []TypeInv
  BY TypeInit, TypeNext, PTL DEF Spec

(* Typing: at most one drive is counted on a wire, whatever the two        *)
(* threads interleave, and the pass and the drive stay inside their        *)
(* vectors.                                                                *)
THEOREM DriveTypes == Spec => []TypeOK
<1>1. TypeInv => TypeOK
  <2> SUFFICES ASSUME TypeInv PROVE TypeOK
    OBVIOUS
  <2>1. bus \in [Idx -> WireOf({Driver, NoPort})]
    BY DEF TypeInv, Buses
  <2>2. \A x \in Idx : bus[x].refcount \in 0 .. 1 /\ bus[x].modules_connected < Len(Order)
    BY DEF TypeInv, Buses
  <2>3. upd \in [at : {"outside", "check", "settle", "signal", "counted", "call", "release"},
                 port : DOMAIN Order, wire : Idx, called : BOOLEAN, reads : Idx]
    BY Orders DEF TypeInv, Updating
  <2>4. /\ drv.at \in {"none", "null edge", "null val", "test", "name", "edge", "val", "count"}
        /\ drv.wire \in Idx
        /\ drv.left \in Seq(WireVal) /\ Len(drv.left) <= Width
    BY DEF TypeInv, Driving
  <2>5. seen \in [Idx -> WireVal] /\ told \subseteq Idx /\ alone \in BOOLEAN /\ due \in BOOLEAN
    BY DEF TypeInv, History
  <2> QED
    BY <2>1, <2>2, <2>3, <2>4, <2>5 DEF TypeOK
<1> QED
  BY <1>1, TypeInvariant, PTL

-----------------------------------------------------------------------------
(* One call per drive.                                                     *)

(* What a step of the main thread does to the counts, and when it calls.   *)
LEMMA SpentMain == ASSUME TypeInv, Spent, StillCounted, MainStep PROVE Spent'
<1> SUFFICES ASSUME NEW x \in told' PROVE bus'[x].refcount = 0 \/ InCall(x)'
  BY DEF Spent
<1>0. x \in Idx
  <2>1. told' \subseteq Idx
    BY AtWire DEF TypeInv, History, MainStep, BeginPass, CheckEdge, SettleEdge, TestSignal,
                  TestDriver, CallbackReads, ReleaseWire
  <2> QED
    BY <2>1
<1>1. CASE BeginPass
  <2>1. bus' = bus /\ told' = told /\ ~(upd.at \in {"call", "release"})
    BY <1>1 DEF BeginPass, MainAt
  <2> QED
    BY <2>1 DEF Spent, InCall
<1>2. CASE CheckEdge
  <2>1. told' = told /\ ~(upd.at \in {"call", "release"})
    BY <1>2 DEF CheckEdge, MainAt
  <2>2. bus[x].refcount = 0
    BY <2>1 DEF Spent, InCall
  <2>3. bus'[x].refcount = bus[x].refcount
    BY <1>0, <1>2, AtWire DEF CheckEdge, SetWire, TheWire, TypeInv, Buses, Fit, WireOf
  <2> QED
    BY <2>2, <2>3
<1>3. CASE SettleEdge
  <2>1. told' = told /\ ~(upd.at \in {"call", "release"})
    BY <1>3 DEF SettleEdge, MainAt
  <2>2. bus[x].refcount = 0
    BY <2>1 DEF Spent, InCall
  <2>3. bus'[x].refcount = bus[x].refcount
    BY <1>0, <1>3, AtWire DEF SettleEdge, SetWire, SettledTo, TheWire, TypeInv, Buses, Fit, WireOf
  <2> QED
    BY <2>2, <2>3
<1>4. CASE TestSignal
  <2>1. bus' = bus /\ told' = told /\ ~(upd.at \in {"call", "release"})
    BY <1>4 DEF TestSignal, MainAt
  <2> QED
    BY <2>1 DEF Spent, InCall
<1>7. CASE TestDriver
  <2>1. bus' = bus /\ ~(upd.at \in {"call", "release"})
    BY <1>7 DEF TestDriver, MainAt
  <2>2. CASE x \in told
    BY <2>1, <2>2 DEF Spent, InCall
  <2>3. CASE x \notin told
    <3>1. Calls /\ x = upd.wire
      BY <1>7, <2>3 DEF TestDriver
    <3>2. upd' = [upd EXCEPT !.at = "call", !.called = TRUE, !.reads = Width - 1]
      BY <1>7, <3>1 DEF TestDriver
    <3> QED
      BY <3>1, <3>2 DEF InCall, TypeInv, Updating
  <2> QED
    BY <2>2, <2>3
<1>5. CASE CallbackReads
  <2>1. bus' = bus /\ told' = told
    BY <1>5 DEF CallbackReads
  <2>2. upd'.wire = upd.wire /\ upd'.called = upd.called /\ upd'.at \in {"call", "release"}
    BY <1>5 DEF CallbackReads, MainAt, TypeInv, Updating
  <2> QED
    BY <2>1, <2>2 DEF Spent, InCall
<1>6. CASE ReleaseWire
  <2>1. told' = told /\ bus' = [bus EXCEPT ![upd.wire] = Released(TheWire)]
    BY <1>6 DEF ReleaseWire, SetWire
  <2>2. CASE x = upd.wire
    BY <1>0, <2>1, <2>2, AtWire DEF Released, TypeInv, Buses, Fit, WireOf
  <2>3. CASE x # upd.wire
    <3>1. bus[x].refcount = 0
      BY <2>1, <2>3 DEF Spent, InCall
    <3> QED
      BY <1>0, <2>1, <2>3, <3>1 DEF TypeInv, Buses
  <2> QED
    BY <2>2, <2>3
<1> QED
  BY <1>1, <1>2, <1>3, <1>4, <1>5, <1>6, <1>7 DEF MainStep

(* Only CountDrive changes a count, and the wire has no call then.         *)
LEMMA DriveCounts ==
  ASSUME TypeInv, BeginDrive \/ DriveStep
  PROVE  /\ upd' = upd
         /\ told' \subseteq told
         /\ \A x \in told' : bus'[x].refcount = bus[x].refcount
<1>0. told \subseteq Idx /\ DOMAIN bus = Idx
  BY DEF TypeInv, History, Buses
<1>1. CASE BeginDrive
  BY <1>1 DEF BeginDrive
<1>2. CASE NullifyEdge
  BY <1>0, <1>2, AtDriven DEF NullifyEdge, SetWire, Fit, WireOf
<1>3. CASE NullifyVal
  BY <1>0, <1>3, AtDriven DEF NullifyVal, SetWire, Fit, WireOf
<1>4. CASE NameDriver
  BY <1>0, <1>4, AtDriven DEF NameDriver, SetWire, Fit, WireOf
<1>5. CASE TestWire \/ SkipWire
  BY <1>5 DEF TestWire, SkipWire
<1>6. CASE DriveEdge
  BY <1>0, <1>6, AtDriven DEF DriveEdge, SetWire, Fit, WireOf
<1>7. CASE DriveVal
  BY <1>0, <1>7, AtDriven DEF DriveVal, SetWire, Fit, WireOf
<1>8. CASE CountDrive
  BY <1>0, <1>8, AtDriven DEF CountDrive, SetWire, Fit, WireOf
<1> QED
  BY <1>1, <1>2, <1>3, <1>4, <1>5, <1>6, <1>7, <1>8 DEF DriveStep

(* Which count and which driver a step of a drive changes.                 *)
LEMMA DriveCount ==
  ASSUME TypeInv, CountDrive
  PROVE  /\ bus'[drv.wire].refcount = bus[drv.wire].refcount + 1
         /\ bus'[drv.wire].last_port_drive = bus[drv.wire].last_port_drive
         /\ \A y \in Idx : y # drv.wire => bus'[y] = bus[y]
BY AtDriven DEF TypeInv, Buses, CountDrive, SetWire, WireOf

LEMMA DriveOther ==
  ASSUME TypeInv, NullifyEdge \/ NullifyVal \/ NameDriver \/ DriveEdge \/ DriveVal
  PROVE  /\ \A y \in Idx : bus'[y].refcount = bus[y].refcount
         /\ \A y \in Idx : \/ bus'[y].last_port_drive = bus[y].last_port_drive
                           \/ NameDriver /\ y = drv.wire
         /\ NameDriver => bus'[drv.wire].last_port_drive = Driver
<1>1. CASE NullifyEdge
  <2>1. ~NameDriver
    BY <1>1 DEF NullifyEdge, NameDriver
  <2>2. /\ \A y \in Idx : bus'[y].refcount = bus[y].refcount
        /\ \A y \in Idx : bus'[y].last_port_drive = bus[y].last_port_drive
    BY <1>1, AtDriven DEF TypeInv, Buses, NullifyEdge, SetWire, WireOf
  <2> QED
    BY <2>1, <2>2
<1>2. CASE NullifyVal
  <2>1. ~NameDriver
    BY <1>2 DEF NullifyVal, NameDriver
  <2>2. /\ \A y \in Idx : bus'[y].refcount = bus[y].refcount
        /\ \A y \in Idx : bus'[y].last_port_drive = bus[y].last_port_drive
    BY <1>2, AtDriven DEF TypeInv, Buses, NullifyVal, SetWire, WireOf
  <2> QED
    BY <2>1, <2>2
<1>3. CASE NameDriver
  BY <1>3, AtDriven DEF TypeInv, Buses, NameDriver, SetWire, WireOf
<1>4. CASE DriveEdge
  <2>1. ~NameDriver
    BY <1>4 DEF DriveEdge, NameDriver
  <2>2. /\ \A y \in Idx : bus'[y].refcount = bus[y].refcount
        /\ \A y \in Idx : bus'[y].last_port_drive = bus[y].last_port_drive
    BY <1>4, AtDriven DEF TypeInv, Buses, DriveEdge, SetWire, WireOf
  <2> QED
    BY <2>1, <2>2
<1>5. CASE DriveVal
  <2>1. ~NameDriver
    BY <1>5 DEF DriveVal, NameDriver
  <2>2. /\ \A y \in Idx : bus'[y].refcount = bus[y].refcount
        /\ \A y \in Idx : bus'[y].last_port_drive = bus[y].last_port_drive
    BY <1>5, AtDriven DEF TypeInv, Buses, DriveVal, SetWire, WireOf
  <2> QED
    BY <2>1, <2>2
<1> QED
  BY <1>1, <1>2, <1>3, <1>4, <1>5

(* While the main thread is between its two tests, nothing resets.         *)
LEMMA StillCountedNext == TypeInv /\ StillCounted /\ [Next]_vars => StillCounted'
<1> SUFFICES ASSUME TypeInv, StillCounted, [Next]_vars, MainAt("counted")'
             PROVE  TheWire'.refcount = 1
  BY DEF StillCounted
<1>1. CASE MainStep
  <2>1. TestSignal
    <3>1. ~CheckEdge /\ ~SettleEdge /\ ~CallbackReads
      BY DEF CheckEdge, SettleEdge, CallbackReads, MainAt, TypeInv, Updating
    <3>2. ~TestDriver
      BY DEF TestDriver, MainAt, TypeInv, Updating
    <3>3. ~BeginPass
      BY DEF BeginPass, Outside, MainAt
    <3>4. ~ReleaseWire
      <4>1. NextWire.at # "counted"
        <5>1. upd.wire + 1 < Width \/ upd.wire + 1 = Width
          BY AtWire, Orders
        <5>2. upd.port < Len(Order) \/ upd.port = Len(Order)
          BY Orders DEF TypeInv, Updating
        <5>3. upd \in [at : {"outside", "check", "settle", "signal", "counted", "call", "release"},
                       port : 1 .. Len(Order), wire : Idx, called : BOOLEAN, reads : Idx]
          BY DEF TypeInv, Updating
        <5> QED
          BY <5>1, <5>2, <5>3, Orders DEF NextWire, Outside
      <4> QED
        BY <4>1 DEF ReleaseWire, MainAt
    <3> QED
      BY <1>1, <3>1, <3>2, <3>3, <3>4 DEF MainStep
  <2>2. Counted /\ bus' = bus /\ upd' = [upd EXCEPT !.at = "counted"]
    BY <2>1 DEF TestSignal, MainAt, TypeInv, Updating
  <2>3. upd'.wire = upd.wire
    BY <2>2 DEF TypeInv, Updating
  <2> QED
    BY <2>2, <2>3 DEF Counted, TheWire
<1>2. CASE BeginDrive \/ DriveStep
  <2>1. upd' = upd /\ bus[upd.wire].refcount = 1 /\ upd.wire \in Idx
    BY <1>2, AtWire, DriveCounts DEF StillCounted, MainAt, TheWire
  <2>2. CASE CountDrive
    <3>1. bus[drv.wire].refcount = 0
      BY <2>2 DEF CountDrive, TypeInv, Driving, Taking
    <3> QED
      BY <2>1, <2>2, <3>1, DriveCount DEF TheWire
  <2>3. CASE NullifyEdge \/ NullifyVal \/ NameDriver \/ DriveEdge \/ DriveVal
    BY <2>1, <2>3, DriveOther DEF TheWire
  <2>4. CASE BeginDrive \/ TestWire \/ SkipWire
    BY <2>1, <2>4 DEF BeginDrive, TestWire, SkipWire, TheWire
  <2> QED
    BY <1>2, <2>2, <2>3, <2>4 DEF DriveStep
<1>3. CASE UNCHANGED vars
  BY <1>3 DEF vars, StillCounted, MainAt, TheWire
<1> QED
  BY <1>1, <1>2, <1>3 DEF Next

LEMMA SpentNext == TypeInv /\ Spent /\ StillCounted /\ [Next]_vars => Spent'
<1> SUFFICES ASSUME TypeInv, Spent, StillCounted, [Next]_vars PROVE Spent'
  OBVIOUS
<1>1. CASE MainStep
  BY <1>1, SpentMain
<1>2. CASE BeginDrive \/ DriveStep
  BY <1>2, DriveCounts DEF Spent, InCall
<1>3. CASE UNCHANGED vars
  BY <1>3 DEF vars, Spent, InCall
<1> QED
  BY <1>1, <1>2, <1>3 DEF Next

(* However the two threads interleave, a drive of a wire is called back    *)
(* for at most once (port.cpp tests refcount for the call and resets it    *)
(* after it; nothing but refcount++ of a drive sets it in between).        *)
THEOREM CalledOnce == Spec => OneCallPerDrive
<1>1. Init => Spent /\ StillCounted
  BY DEF Init, Spent, StillCounted, Outside, MainAt
<1>2. TypeInv /\ Spent /\ StillCounted /\ [Next]_vars =>
        [\A x \in told : ~(MainAt("counted") /\ upd.wire = x /\ upd'.at = "call")]_vars
  <2> SUFFICES ASSUME TypeInv, Spent, StillCounted,
                      NEW x \in told, MainAt("counted"), upd.wire = x
               PROVE  FALSE
    OBVIOUS
  <2>1. bus[x].refcount = 0
    BY DEF Spent, InCall, MainAt
  <2> QED
    BY <2>1 DEF StillCounted, TheWire
<1> QED
  BY <1>1, <1>2, TypeInvariant, SpentNext, StillCountedNext, PTL DEF Spec, OneCallPerDrive
-----------------------------------------------------------------------------
(* A drive that no pass disturbs.                                          *)

LEMMA UndisturbedMain == ASSUME Undisturbed, MainStep PROVE Undisturbed'
<1>1. CASE BeginPass
  BY <1>1 DEF BeginPass, Undisturbed
<1>2. CASE CheckEdge \/ SettleEdge \/ TestSignal \/ TestDriver \/ CallbackReads \/ ReleaseWire
  BY <1>2 DEF CheckEdge, SettleEdge, TestSignal, TestDriver, CallbackReads,
             ReleaseWire, MainAt, Undisturbed
<1> QED
  BY <1>1, <1>2 DEF MainStep

LEMMA UndisturbedDrive ==
  ASSUME TypeInv, Undisturbed, DriveStep
  PROVE  Undisturbed'
<1> SUFFICES ASSUME alone' PROVE
      /\ MainAt("outside")'
      /\ Named' => bus'[drv'.wire].last_port_drive = Driver
      /\ \A x \in Idx : /\ Reached(x)' => bus'[x].refcount = 1 /\ bus'[x].last_port_drive = Driver
                        /\ ~Reached(x)' => bus'[x].refcount = 0
  BY DEF Undisturbed
<1>0. /\ alone /\ upd' = upd /\ MainAt("outside")
      /\ Named => bus[drv.wire].last_port_drive = Driver
      /\ \A x \in Idx : /\ Reached(x) => bus[x].refcount = 1 /\ bus[x].last_port_drive = Driver
                        /\ ~Reached(x) => bus[x].refcount = 0
  <2>1. alone /\ upd' = upd
    BY DEF DriveStep, NullifyEdge, NullifyVal, TestWire, NameDriver, SkipWire, DriveEdge,
           DriveVal, CountDrive
  <2> QED
    BY <2>1 DEF Undisturbed
<1>1. MainAt("outside")'
  BY <1>0 DEF MainAt
<1>2. ~Reached(drv.wire) /\ bus[drv.wire].refcount = 0
  <2>1. drv.at # "none"
    BY DEF DriveStep, NullifyEdge, NullifyVal, TestWire, NameDriver, SkipWire, DriveEdge,
           DriveVal, CountDrive
  <2>2. ~Reached(drv.wire)
    BY <2>1, AtDriven DEF Reached
  <2> QED
    BY <1>0, <2>2, AtDriven
<1>3. CASE NullifyEdge \/ NullifyVal
  <2>1. drv.at \in {"null edge", "null val"}
    BY <1>3 DEF NullifyEdge, NullifyVal
  <2>2. \A x \in Idx : ~Reached(x)
    BY <2>1 DEF Reached, Testing, Taking
  <2>3. drv'.at \in {"null edge", "null val"} \/ (drv'.at = "test" /\ drv'.wire = 0)
    BY <1>3 DEF NullifyEdge, NullifyVal, NextDriven, TypeInv, Driving
  <2>4. \A x \in Idx : ~Reached(x)'
    <3>1. CASE drv'.at \in {"null edge", "null val"}
      BY <3>1 DEF Reached, Testing, Taking
    <3>2. CASE drv'.at = "test" /\ drv'.wire = 0
      <4>1. \A x \in Idx : ~(x < 0)
        BY Orders
      <4> QED
        BY <3>2, <4>1 DEF Reached, Testing, Taking
    <3> QED
      BY <2>3, <3>1, <3>2
  <2>5. ~Named'
    BY <2>3 DEF Named
  <2> QED
    BY <1>0, <1>1, <1>3, <2>2, <2>4, <2>5, DriveOther
<1>4. CASE NameDriver \/ DriveEdge \/ DriveVal
  <2>1. drv.at \in {"name", "edge", "val"} /\ drv'.at \in {"edge", "val", "count"}
        /\ drv'.wire = drv.wire
    BY <1>4 DEF NameDriver, DriveEdge, DriveVal, TypeInv, Driving
  <2>2. \A x \in Idx : Reached(x)' <=> Reached(x)
    BY <2>1 DEF Reached, Testing, Taking
  <2>3. bus'[drv.wire].last_port_drive = Driver
    <3>1. CASE NameDriver
      BY <3>1, DriveOther
    <3>2. CASE DriveEdge \/ DriveVal
      BY <1>0, <3>2, AtDriven, DriveOther DEF Named, DriveEdge, DriveVal
    <3> QED
      BY <1>4, <3>1, <3>2
  <2>4. \A x \in Idx : bus'[x].refcount = bus[x].refcount
    BY <1>4, DriveOther
  <2>5. \A x \in Idx : Reached(x) => bus'[x].last_port_drive = Driver
    BY <1>0, <1>2, <1>4, DriveOther
  <2> QED
    BY <1>0, <1>1, <2>1, <2>2, <2>3, <2>4, <2>5
<1>5. CASE SkipWire
  BY <1>2, <1>5 DEF SkipWire, Free
<1>7. CASE TestWire
  <2>1. drv.at = "test" /\ drv'.at = "name" /\ drv'.wire = drv.wire /\ bus' = bus
    BY <1>7 DEF TestWire, TypeInv, Driving
  <2>2. (\A x \in Idx : Reached(x)' <=> Reached(x)) /\ ~Named'
    BY <2>1 DEF Reached, Testing, Taking, Named
  <2> QED
    BY <1>0, <1>1, <2>1, <2>2
<1>6. CASE CountDrive
  <2>1. /\ bus'[drv.wire].refcount = 1 /\ bus'[drv.wire].last_port_drive = Driver
        /\ \A y \in Idx : y # drv.wire => bus'[y] = bus[y]
    BY <1>0, <1>2, <1>6, DriveCount DEF CountDrive, Named
  <2>2. \A x \in Idx : Reached(x) <=> x < drv.wire
    BY <1>6 DEF CountDrive, Reached, Taking
  <2>3. \A x \in Idx : Reached(x)' <=> x < drv.wire + 1
    <3>1. CASE drv.wire + 1 < Width
      <4>1. drv'.at = "test" /\ drv'.wire = drv.wire + 1
        BY <1>6, <3>1 DEF CountDrive
      <4> QED
        BY <4>1 DEF Reached, Testing, Taking
    <3>2. CASE ~(drv.wire + 1 < Width)
      <4>1. drv'.at = "none"
        BY <1>6, <3>2 DEF CountDrive, NotDriving
      <4>2. \A x \in Idx : x < drv.wire + 1
        BY <3>2, AtDriven, Orders
      <4> QED
        BY <4>1, <4>2 DEF Reached
    <3> QED
      BY <3>1, <3>2
  <2>4. ~Named'
    BY <1>6 DEF CountDrive, NotDriving, Named
  <2>5. \A x \in Idx : /\ x < drv.wire + 1 => x < drv.wire \/ x = drv.wire
                       /\ ~(x < drv.wire + 1) => ~(x < drv.wire) /\ x # drv.wire
    BY AtDriven, Orders
  <2> QED
    BY <1>0, <1>1, <2>1, <2>2, <2>3, <2>4, <2>5
<1> QED
  BY <1>3, <1>4, <1>5, <1>6, <1>7 DEF DriveStep

LEMMA UndisturbedNext == TypeInv /\ Undisturbed /\ [Next]_vars => Undisturbed'
<1> SUFFICES ASSUME TypeInv, Undisturbed, [Next]_vars PROVE Undisturbed'
  OBVIOUS
<1>1. CASE MainStep
  BY <1>1, UndisturbedMain
<1>2. CASE BeginDrive
  <2>0. bus' = bus /\ upd' = upd /\ drv'.at = "null edge"
    <3>1. PICK v \in Drives : drv' = [at |-> "null edge", wire |-> 0, left |-> v]
      BY <1>2 DEF BeginDrive
    <3>2. UNCHANGED <<bus, upd>>
      BY <1>2 DEF BeginDrive
    <3> QED
      BY <3>1, <3>2
  <2>1. alone' => MainAt("outside") /\ \A x \in Idx : bus[x].refcount = 0
    BY <1>2 DEF BeginDrive, Clean
  <2>2. ~Named' /\ \A x \in Idx : ~Reached(x)'
    BY <2>0 DEF Named, Taking, Testing, Reached
  <2> QED
    BY <2>0, <2>1, <2>2 DEF Undisturbed, MainAt
<1>3. CASE DriveStep
  BY <1>3, UndisturbedDrive
<1>4. CASE UNCHANGED vars
  BY <1>4 DEF vars, Undisturbed, MainAt, Reached, Named, Taking, Testing
<1> QED
  BY <1>1, <1>2, <1>3, <1>4 DEF Next

-----------------------------------------------------------------------------
(* The pass that follows it.                                               *)

(* A step of a pass before the callback leaves the values, the edges that  *)
(* it has not reached, and the counts that it has not reset.               *)
LEMMA PassLeaves ==
  ASSUME TypeInv, CheckEdge \/ SettleEdge \/ ReleaseWire
  PROVE  /\ BusValues' = BusValues /\ seen' = seen
         /\ \A y \in Idx : y # upd.wire => bus'[y] = bus[y]
         /\ ~ReleaseWire => \A y \in Idx : /\ bus'[y].refcount = bus[y].refcount
                                           /\ bus'[y].last_port_drive = bus[y].last_port_drive
<1>0. upd.wire \in Idx /\ TheWire = bus[upd.wire] /\ bus \in [Idx -> WireOf({Driver, NoPort})]
  BY AtWire DEF TypeInv, Buses, TheWire
<1>1. CASE UNCHANGED bus /\ CheckEdge
  BY <1>1 DEF BusValues, CheckEdge
<1>2. CASE CheckEdge /\ SetWire(upd.wire, [TheWire EXCEPT !.modules_connected = @ - 1])
  BY <1>0, <1>2 DEF BusValues, CheckEdge, SetWire, WireOf, MainAt, ReleaseWire
<1>3. CASE SettleEdge
  BY <1>0, <1>3 DEF BusValues, SettleEdge, SetWire, SettledTo, WireOf, MainAt, ReleaseWire
<1>4. CASE ReleaseWire
  BY <1>0, <1>4 DEF BusValues, ReleaseWire, SetWire, Released, WireOf
<1> QED
  BY <1>1, <1>2, <1>3, <1>4 DEF CheckEdge

LEMMA HeardMain ==
  ASSUME WatcherFirst, TypeInv, Undisturbed, Heard, MainStep
  PROVE  Heard'
<1> SUFFICES ASSUME due' PROVE
      /\ drv'.at = "none"
      /\ seen' = BusValues' \/ (upd'.port = 1 /\ ~MainAt("outside")' /\ Pending')
  BY DEF Heard
<1>0. drv' = drv
  BY DEF MainStep, BeginPass, CheckEdge, SettleEdge, TestSignal, TestDriver, CallbackReads,
         ReleaseWire
<1>1. CASE BeginPass
  <2>1. CASE due
    BY <1>0, <1>1, <2>1 DEF BeginPass, Heard, BusValues
  <2>2. CASE ~due
    <3>1. /\ alone /\ drv.at = "none" /\ bus' = bus
          /\ \E x \in Idx : IsChanged(bus[x])
          /\ upd' = [at |-> "check", port |-> 1, wire |-> 0, called |-> FALSE, reads |-> 0]
      BY <1>1, <2>2 DEF BeginPass, Outside
    <3>2. \A x \in Idx : bus[x].refcount = 1 /\ bus[x].last_port_drive = Driver
      BY <3>1 DEF Undisturbed, Reached
    <3>3. Countable' /\ ~upd'.called /\ upd'.at = "check" /\ upd'.port = 1
      BY <3>1, <3>2 DEF Countable
    <3>4. \E x \in Idx : upd'.wire <= x /\ IsChanged(bus'[x])
      BY <3>1, Orders
    <3> QED
      BY <1>0, <3>1, <3>3, <3>4 DEF Pending, MainAt
  <2> QED
    BY <2>1, <2>2
<1>2. ASSUME ~BeginPass
      PROVE  due /\ drv.at = "none"
             /\ (seen = BusValues \/ (upd.port = 1 /\ ~MainAt("outside") /\ Pending))
  <2>1. due
    BY <1>2 DEF MainStep, CheckEdge, SettleEdge, TestSignal, TestDriver, CallbackReads, ReleaseWire
  <2> QED
    BY <2>1 DEF Heard
<1>3. CASE CheckEdge
  <2>0. ~BeginPass /\ upd.at = "check"
    BY <1>3 DEF CheckEdge, BeginPass, MainAt
  <2>1. CASE seen = BusValues
    BY <1>0, <1>2, <1>3, <2>0, <2>1, PassLeaves
  <2>2. CASE upd.port = 1 /\ Pending
    <3>1. ~upd.called /\ Countable /\ \E x \in Idx : upd.wire <= x /\ IsChanged(bus[x])
      BY <2>0, <2>2 DEF Pending
    <3>2. /\ upd'.port = 1 /\ ~upd'.called /\ upd'.wire = upd.wire
          /\ \/ ~IsChanged(TheWire) /\ upd'.at = "release" /\ bus' = bus
             \/ upd'.at \in {"settle", "signal"}
      BY <1>3, <2>2, <3>1 DEF CheckEdge, TypeInv, Updating
    <3>3. Countable'
      <4>1. \A x \in Idx : Ahead(x)' => Ahead(x)
        BY <2>0, <3>2 DEF Ahead
      <4>2. ~ReleaseWire
        BY <2>0 DEF ReleaseWire, MainAt
      <4> QED
        BY <1>3, <3>1, <4>1, <4>2, PassLeaves DEF Countable
    <3>4. CASE ~IsChanged(TheWire) /\ upd'.at = "release" /\ bus' = bus
      <4>1. \E x \in Idx : upd.wire < x /\ IsChanged(bus[x])
        BY <3>1, <3>4, AtWire, Orders DEF TheWire
      <4> QED
        BY <1>0, <1>2, <2>0, <3>2, <3>3, <3>4, <4>1 DEF Pending, MainAt
    <3>5. CASE upd'.at \in {"settle", "signal"}
      BY <1>0, <1>2, <2>0, <3>2, <3>3, <3>5 DEF Pending, MainAt
    <3> QED
      BY <3>2, <3>4, <3>5
  <2> QED
    BY <1>2, <2>0, <2>1, <2>2
<1>4. CASE SettleEdge
  <2>0. ~BeginPass /\ upd.at = "settle" /\ ~ReleaseWire
    BY <1>4 DEF SettleEdge, BeginPass, MainAt, ReleaseWire
  <2>1. CASE seen = BusValues
    BY <1>0, <1>2, <1>4, <2>0, <2>1, PassLeaves
  <2>2. CASE upd.port = 1 /\ Pending
    <3>1. ~upd.called /\ Countable
      BY <2>0, <2>2 DEF Pending
    <3>2. upd'.port = 1 /\ ~upd'.called /\ upd'.wire = upd.wire /\ upd'.at = "signal"
      BY <1>4, <2>2, <3>1 DEF SettleEdge, TypeInv, Updating
    <3>3. Countable'
      <4>1. \A x \in Idx : Ahead(x)' => Ahead(x)
        BY <2>0, <3>2 DEF Ahead
      <4> QED
        BY <1>4, <2>0, <3>1, <4>1, PassLeaves DEF Countable
    <3> QED
      BY <1>0, <1>2, <2>0, <3>2, <3>3 DEF Pending, MainAt
  <2> QED
    BY <1>2, <2>0, <2>1, <2>2
<1>5. CASE TestSignal
  <2>0. ~BeginPass /\ upd.at = "signal" /\ bus' = bus /\ seen' = seen
    BY <1>5 DEF TestSignal, BeginPass, MainAt
  <2>1. CASE seen = BusValues
    BY <1>0, <1>2, <2>0, <2>1 DEF BusValues
  <2>2. CASE upd.port = 1 /\ Pending
    <3>1. ~upd.called /\ Countable
      BY <2>0, <2>2 DEF Pending
    <3>2. TheWire.refcount = 1 /\ TheWire.last_port_drive = Driver
      BY <2>0, <3>1, AtWire DEF Countable, Ahead, TheWire
    <3>3. Counted
      BY <2>2, <3>1, <3>2, Orders DEF Counted, WatcherFirst
    <3>4. upd'.at = "counted" /\ upd'.wire = upd.wire /\ upd'.port = 1 /\ ~upd'.called
      BY <1>5, <2>2, <3>1, <3>3 DEF TestSignal, TypeInv, Updating
    <3>5. Countable'
      BY <2>0, <3>1, <3>4 DEF Countable, Ahead
    <3> QED
      BY <1>0, <1>2, <2>0, <3>4, <3>5 DEF Pending, MainAt
  <2> QED
    BY <1>2, <2>0, <2>1, <2>2
<1>8. CASE TestDriver
  <2>0. ~BeginPass /\ upd.at = "counted" /\ bus' = bus /\ seen' = seen
    BY <1>8 DEF TestDriver, BeginPass, MainAt
  <2>1. CASE seen = BusValues
    BY <1>0, <1>2, <2>0, <2>1 DEF BusValues
  <2>2. CASE upd.port = 1 /\ Pending
    <3>1. Countable
      BY <2>0, <2>2 DEF Pending
    <3>2. Calls
      BY <2>0, <3>1, AtWire, Orders DEF Countable, Ahead, TheWire, Calls
    <3>3. upd' = [upd EXCEPT !.at = "call", !.called = TRUE, !.reads = Width - 1]
      BY <1>8, <3>2 DEF TestDriver
    <3>4. upd'.at = "call" /\ upd'.reads = Width - 1 /\ upd'.port = 1
      BY <2>2, <3>3 DEF TypeInv, Updating
    <3>5. \A x \in Idx : ~(x > Width - 1)
      BY Orders
    <3> QED
      BY <1>0, <1>2, <2>0, <3>4, <3>5 DEF Pending, MainAt
  <2> QED
    BY <1>2, <2>0, <2>1, <2>2
<1>6. CASE CallbackReads
  <2>0. ~BeginPass /\ upd.at = "call" /\ bus' = bus
        /\ seen' = [seen EXCEPT ![upd.reads] = bus[upd.reads].val]
    BY <1>6 DEF CallbackReads, BeginPass, MainAt
  <2>1. upd.reads \in Idx /\ seen \in [Idx -> WireVal] /\ BusValues' = BusValues
    BY <2>0 DEF TypeInv, Updating, History, BusValues
  <2>2. CASE seen = BusValues
    <3>1. seen' = BusValues
      BY <2>0, <2>1, <2>2 DEF BusValues
    <3> QED
      BY <1>0, <1>2, <2>0, <2>1, <3>1
  <2>3. CASE upd.port = 1 /\ Pending
    <3>1. \A x \in Idx : x > upd.reads => seen[x] = bus[x].val
      BY <2>0, <2>3 DEF Pending
    <3>2. \A x \in Idx : x > upd.reads - 1 => seen'[x] = bus[x].val
      <4>1. \A x \in Idx : x > upd.reads - 1 => x > upd.reads \/ x = upd.reads
        BY <2>1, Orders
      <4> QED
        BY <2>0, <2>1, <3>1, <4>1
    <3>3. CASE upd.reads > 0
      <4>1. upd' = [upd EXCEPT !.reads = @ - 1]
        BY <1>6, <3>3 DEF CallbackReads
      <4>2. upd'.at = "call" /\ upd'.port = 1 /\ upd'.reads = upd.reads - 1
        BY <2>0, <2>3, <4>1 DEF TypeInv, Updating
      <4> QED
        BY <1>0, <1>2, <2>0, <3>2, <4>2 DEF Pending, MainAt
    <3>4. CASE ~(upd.reads > 0)
      <4>1. \A x \in Idx : x > upd.reads - 1
        BY <2>1, <3>4, Orders
      <4>2. seen' = BusValues
        BY <2>0, <2>1, <3>2, <4>1 DEF BusValues
      <4> QED
        BY <1>0, <1>2, <2>0, <2>1, <4>2
    <3> QED
      BY <3>3, <3>4
  <2> QED
    BY <1>2, <2>0, <2>2, <2>3
<1>7. CASE ReleaseWire
  <2>0. ~BeginPass /\ upd.at = "release"
    BY <1>7 DEF ReleaseWire, BeginPass, MainAt
  <2>1. CASE seen = BusValues
    BY <1>0, <1>2, <1>7, <2>0, <2>1, PassLeaves
  <2>2. CASE upd.port = 1 /\ Pending
    <3>1. ~upd.called /\ Countable
      BY <2>0, <2>2 DEF Pending
    <3>2. PICK x \in Idx : upd.wire < x /\ IsChanged(bus[x])
      BY <2>0, <2>2 DEF Pending
    <3>3. upd.wire + 1 < Width /\ upd.wire + 1 <= x
      BY <3>2, AtWire, Orders
    <3>4. upd' = [upd EXCEPT !.wire = @ + 1, !.at = "check"]
      BY <1>7, <3>3, AtWire, Orders DEF ReleaseWire, NextWire
    <3>5. upd'.port = 1 /\ ~upd'.called /\ upd'.wire = upd.wire + 1 /\ upd'.at = "check"
      BY <2>2, <3>1, <3>4 DEF TypeInv, Updating
    <3>6. Countable'
      <4>1. \A y \in Idx : Ahead(y)' => upd.wire < y
        BY <3>5, AtWire, Orders DEF Ahead
      <4>2. \A y \in Idx : upd.wire < y => bus'[y] = bus[y]
        BY <1>7, AtWire, Orders, PassLeaves
      <4> QED
        BY <3>1, <4>1, <4>2 DEF Countable, Ahead
    <3>7. upd'.wire <= x /\ IsChanged(bus'[x])
      BY <1>7, <3>2, <3>3, <3>5, AtWire, Orders, PassLeaves
    <3> QED
      BY <1>0, <1>2, <2>0, <3>5, <3>6, <3>7 DEF Pending, MainAt
  <2> QED
    BY <1>2, <2>0, <2>1, <2>2
<1> QED
  BY <1>1, <1>3, <1>4, <1>5, <1>6, <1>7, <1>8 DEF MainStep

LEMMA HeardNext ==
  ASSUME WatcherFirst
  PROVE  TypeInv /\ Undisturbed /\ Heard /\ [Next]_vars => Heard'
<1> SUFFICES ASSUME TypeInv, Undisturbed, Heard, [Next]_vars PROVE Heard'
  OBVIOUS
<1>1. CASE MainStep
  BY <1>1, HeardMain
<1>2. CASE BeginDrive
  BY <1>2 DEF BeginDrive, Heard
<1>3. CASE DriveStep
  <2>1. drv.at # "none" /\ due' = due
    BY <1>3 DEF DriveStep, NullifyEdge, NullifyVal, TestWire, NameDriver, SkipWire, DriveEdge,
                DriveVal,
                CountDrive
  <2> QED
    BY <2>1 DEF Heard
<1>4. CASE UNCHANGED vars
  BY <1>4 DEF vars, Heard, Pending, Countable, Ahead, MainAt, BusValues
<1> QED
  BY <1>1, <1>2, <1>3, <1>4 DEF Next

(* A drive that begins with no drive counted and ends while no pass is     *)
(* running is heard by the port that the pass updates first, however wide  *)
(* the vector and however many ports share it (port.cpp: refcount is one   *)
(* on every wire, and the port finds a wire whose edge changed).           *)
THEOREM QuietHeard == ASSUME WatcherFirst PROVE Spec => []QuietDriveHeard
<1>1. Init => Undisturbed /\ Heard
  BY DEF Init, Undisturbed, Heard
<1>2. TypeInv /\ Heard => QuietDriveHeard
  <2> SUFFICES ASSUME TypeInv, Heard, due, Updated(Watcher) PROVE seen = BusValues
    BY DEF QuietDriveHeard
  <2>1. CASE MainAt("outside")
    BY <2>1 DEF Heard
  <2>2. CASE \E k \in DOMAIN Order : Order[k] = Watcher /\ k < upd.port
    <3>1. PICK k \in DOMAIN Order : Order[k] = Watcher /\ k < upd.port
      BY <2>2
    <3>2. k = 1
      BY <3>1, InitDrivesAssumption, Orders DEF WatcherFirst
    <3> QED
      BY <3>1, <3>2 DEF Heard
  <2> QED
    BY <2>1, <2>2 DEF Updated
<1> QED
  BY <1>1, <1>2, TypeInvariant, UndisturbedNext, HeardNext, PTL DEF Spec
=============================================================================
