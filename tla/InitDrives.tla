----------------------------- MODULE InitDrives -----------------------------
(***************************************************************************)
(* An initial block that drives a port while the main thread updates it    *)
(* (port.cpp, refresher.cpp).                                              *)
(*                                                                         *)
(* Refresher::run lets every initial() run in a thread of its own and goes *)
(* on with refresh_always in the main thread.  Nothing guards the wires:   *)
(* drive in the one thread and update in the other read and write the      *)
(* fields of the same wires one after the other.  Every step here is one   *)
(* access to a field that both threads use, in the order of the program    *)
(* (memory is sequentially consistent); fields that one thread alone uses  *)
(* are read and written along with them.  Two reads or writes are left     *)
(* together where no step of the other thread can come between them:       *)
(* refcount++, as the other thread can write only the zero that was read,  *)
(* and last_mod_drive with last_port_drive, which only drives write.       *)
(*                                                                         *)
(* One vector of wires is shared by the port that the block drives and the *)
(* ports linked to it; Order is the order in which a pass updates them.    *)
(* driven_wires_on_update is left out: it decides whether the next pass    *)
(* belongs to the same cycle, and this module does not tell cycles apart.  *)
(* InitThreads is about the rest of a cycle, and about how the block ends. *)
(***************************************************************************)
EXTENDS Wire

CONSTANTS
  Order,     \* the ports that share the vector, as a pass updates them
  Driver,    \* the one that the initial block drives
  Watcher,   \* the one that has a signal, for all edges of all wires
  NoPort,    \* the null Port pointer
  Width,     \* number of wires
  Drives     \* the values that the initial block gives to drive_all

Port == {Order[k] : k \in DOMAIN Order}

ASSUME InitDrivesAssumption ==
  /\ Order \in Seq(Port)
  /\ \A k, l \in DOMAIN Order : Order[k] = Order[l] => k = l
  /\ Driver \in Port /\ Watcher \in Port /\ NoPort \notin Port
  /\ Width \in Nat \ {0}
  /\ \A v \in Drives : v \in Seq(WireVal) /\ Len(v) = Width

VARIABLES
  bus,    \* the wires
  upd,    \* where the main thread is in its pass
  drv,    \* where the initial thread is in its call of drive_all
  seen,   \* the values that Watcher's callback read last
  told,   \* the wires called back for since they were driven (history)
  alone,  \* the last drive began, and stayed, outside every pass (history)
  due     \* such a drive changed a wire, and a pass began since (history)

vars == <<bus, upd, drv, seen, told, alone, due>>

Idx == 0 .. Width - 1

Outside == [at |-> "outside", port |-> 1, wire |-> 0, called |-> FALSE, reads |-> 0]

NotDriving == [at |-> "none", wire |-> 0, left |-> <<>>]

BusValues == [x \in Idx |-> bus[x].val]

(* Every other port was connected once.                                    *)
Init ==
  /\ bus = [x \in Idx |-> [NewWire("_0", NoPort) EXCEPT
                             !.modules_connected = Len(Order) - 1,
                             !.modules_connected_orig = Len(Order) - 1]]
  /\ upd = Outside
  /\ drv = NotDriving
  /\ seen = BusValues
  /\ told = {}
  /\ alone = FALSE
  /\ due = FALSE

-----------------------------------------------------------------------------
(* The main thread: one pass after the other, in each Port::update of the  *)
(* ports of Order, wire by wire.                                           *)
MainAt(step) == upd.at = step

TheWire == bus[upd.wire]

SetWire(x, w) == bus' = [bus EXCEPT ![x] = w]

BeginPass ==
  /\ MainAt("outside")
  /\ upd' = [Outside EXCEPT !.at = "check"]
  /\ due' = (due \/ (alone /\ drv.at = "none" /\ \E x \in Idx : IsChanged(bus[x])))
  /\ alone' = FALSE
  /\ UNCHANGED <<bus, drv, seen, told>>

(* Only the main thread uses modules_connected and old_edge.               *)
CheckEdge ==
  /\ MainAt("check")
  /\ \/ /\ ~IsChanged(TheWire)
        /\ upd' = [upd EXCEPT !.at = "release"]
        /\ UNCHANGED bus
     \/ /\ IsChanged(TheWire)
        /\ TheWire.modules_connected = 0
        /\ upd' = [upd EXCEPT !.at = "settle"]
        /\ UNCHANGED bus
     \/ /\ IsChanged(TheWire)
        /\ TheWire.modules_connected > 0
        /\ upd' = [upd EXCEPT !.at = "signal"]
        /\ SetWire(upd.wire, [TheWire EXCEPT !.modules_connected = @ - 1])
  /\ UNCHANGED <<drv, seen, told, alone, due>>

(* The edge is read again: it need not be the one that was checked.        *)
SettledTo_OldKept(w) == [w EXCEPT !.modules_connected = w.modules_connected_orig]

SettledTo(w) ==
  [w EXCEPT !.old_edge = w.edge, !.modules_connected = w.modules_connected_orig]

SettleEdge ==
  /\ MainAt("settle")
  /\ SetWire(upd.wire, SettledTo(TheWire))
  /\ upd' = [upd EXCEPT !.at = "signal"]
  /\ UNCHANGED <<drv, seen, told, alone, due>>

Counted_Always == Order[upd.port] = Watcher /\ ~upd.called

Counted_Settled ==
  Order[upd.port] = Watcher /\ TheWire.refcount = 1 /\ ~upd.called /\ ~IsChanged(TheWire)

Counted == Order[upd.port] = Watcher /\ TheWire.refcount = 1 /\ ~upd.called

TestSignal ==
  /\ MainAt("signal")
  /\ upd' = [upd EXCEPT !.at = IF Counted THEN "counted" ELSE "release"]
  /\ UNCHANGED <<bus, drv, seen, told, alone, due>>

Calls == TheWire.last_port_drive # NoPort

TestDriver ==
  /\ MainAt("counted")
  /\ upd' = IF Calls THEN [upd EXCEPT !.at = "call", !.called = TRUE, !.reads = Width - 1]
            ELSE [upd EXCEPT !.at = "release"]
  /\ told' = IF Calls THEN told \cup {upd.wire} ELSE told
  /\ UNCHANGED <<bus, drv, seen, alone, due>>

(* The callback reads its port as memory.cpp's does, which converts the    *)
(* values: the last wire first.                                            *)
CallbackReads ==
  /\ MainAt("call")
  /\ seen' = [seen EXCEPT ![upd.reads] = bus[upd.reads].val]
  /\ upd' = IF upd.reads > 0 THEN [upd EXCEPT !.reads = @ - 1]
            ELSE [upd EXCEPT !.at = "release"]
  /\ UNCHANGED <<bus, drv, told, alone, due>>

NextWire ==
  CASE upd.wire + 1 < Width -> [upd EXCEPT !.wire = @ + 1, !.at = "check"]
    [] upd.wire + 1 = Width /\ upd.port < Len(Order) ->
         [Outside EXCEPT !.port = upd.port + 1, !.at = "check"]
    [] upd.wire + 1 = Width /\ upd.port = Len(Order) -> Outside

ReleaseWire ==
  /\ MainAt("release")
  /\ SetWire(upd.wire, Released(TheWire))
  /\ upd' = NextWire
  /\ UNCHANGED <<drv, seen, told, alone, due>>

MainStep ==
  \/ BeginPass \/ CheckEdge \/ SettleEdge
  \/ TestSignal \/ TestDriver \/ CallbackReads \/ ReleaseWire

-----------------------------------------------------------------------------
(* The initial thread: Port::drive on all wires.  left holds the values    *)
(* that no wire has taken yet; the last one is next.                       *)
Clean == \A x \in Idx : bus[x].refcount = 0

BeginDrive ==
  /\ drv.at = "none"
  /\ \E v \in Drives : drv' = [at |-> "null edge", wire |-> 0, left |-> v]
  /\ alone' = (MainAt("outside") /\ Clean)
  /\ due' = FALSE
  /\ UNCHANGED <<bus, upd, seen, told>>

NextDriven(then, after) ==
  drv' = IF drv.wire + 1 < Width THEN [drv EXCEPT !.wire = @ + 1, !.at = then]
         ELSE [drv EXCEPT !.wire = 0, !.at = after]

NullifyEdge ==
  /\ drv.at = "null edge"
  /\ SetWire(drv.wire, [bus[drv.wire] EXCEPT !.edge = "NULLEDGE"])
  /\ drv' = [drv EXCEPT !.at = "null val"]
  /\ UNCHANGED <<upd, seen, told, alone, due>>

NullifyVal ==
  /\ drv.at = "null val"
  /\ SetWire(drv.wire, [bus[drv.wire] EXCEPT !.val = "_X"])
  /\ NextDriven("null edge", "test")
  /\ UNCHANGED <<upd, seen, told, alone, due>>

Logic == drv.left[Len(drv.left)]

(* A wire whose refcount is set is skipped and takes no value.             *)
Free_Always(w) == TRUE

Free(w) == w.refcount = 0

TestWire ==
  /\ drv.at = "test"
  /\ Free(bus[drv.wire])
  /\ drv' = [drv EXCEPT !.at = "name"]
  /\ UNCHANGED <<bus, upd, seen, told, alone, due>>

SkipWire ==
  /\ drv.at = "test"
  /\ ~Free(bus[drv.wire])
  /\ drv' = IF drv.wire + 1 < Width THEN [drv EXCEPT !.wire = @ + 1] ELSE NotDriving
  /\ UNCHANGED <<bus, upd, seen, told, alone, due>>

NameDriver ==
  /\ drv.at = "name"
  /\ SetWire(drv.wire, [bus[drv.wire] EXCEPT !.last_port_drive = Driver])
  /\ drv' = [drv EXCEPT !.at = "edge"]
  /\ UNCHANGED <<upd, seen, told, alone, due>>

DriveEdge ==
  /\ drv.at = "edge"
  /\ SetWire(drv.wire, [bus[drv.wire] EXCEPT !.edge = EdgeOf(Logic)])
  /\ drv' = [drv EXCEPT !.at = "val"]
  /\ UNCHANGED <<upd, seen, told, alone, due>>

DriveVal ==
  /\ drv.at = "val"
  /\ SetWire(drv.wire, [bus[drv.wire] EXCEPT !.val = Logic])
  /\ drv' = [drv EXCEPT !.at = "count"]
  /\ UNCHANGED <<upd, seen, told, alone, due>>

(* refcount++ : found zero before, and the other thread only resets it.    *)
CountDrive ==
  /\ drv.at = "count"
  /\ SetWire(drv.wire, [bus[drv.wire] EXCEPT !.refcount = @ + 1])
  /\ told' = told \ {drv.wire}
  /\ drv' = IF drv.wire + 1 < Width
            THEN [at |-> "test", wire |-> drv.wire + 1,
                  left |-> SubSeq(drv.left, 1, Len(drv.left) - 1)]
            ELSE NotDriving
  /\ UNCHANGED <<upd, seen, alone, due>>

DriveStep ==
  \/ NullifyEdge \/ NullifyVal \/ TestWire \/ SkipWire
  \/ NameDriver \/ DriveEdge \/ DriveVal \/ CountDrive

Next == MainStep \/ BeginDrive \/ DriveStep

(* Both threads run; the block need not drive again.                       *)
Spec == Init /\ [][Next]_vars /\ WF_vars(MainStep) /\ WF_vars(DriveStep)
-----------------------------------------------------------------------------
TypeOK ==
  /\ bus \in [Idx -> WireOf({Driver, NoPort})]
  /\ \A x \in Idx : bus[x].refcount \in 0 .. 1 /\ bus[x].modules_connected < Len(Order)
  /\ upd \in [at : {"outside", "check", "settle", "signal", "counted", "call", "release"},
              port : DOMAIN Order, wire : Idx, called : BOOLEAN, reads : Idx]
  /\ drv.at \in {"none", "null edge", "null val", "test", "name", "edge", "val", "count"}
  /\ drv.wire \in Idx
  /\ drv.left \in Seq(WireVal) /\ Len(drv.left) <= Width
  /\ seen \in [Idx -> WireVal]
  /\ told \subseteq Idx
  /\ alone \in BOOLEAN
  /\ due \in BOOLEAN

(* However the two threads interleave, a drive of a wire is called back    *)
(* for at most once: between two calls for a wire, some drive has counted  *)
(* on it.  (port.cpp: refcount is tested for the call and reset after it.) *)
OneCallPerDrive ==
  [][\A x \in told : ~(MainAt("counted") /\ upd.wire = x /\ upd'.at = "call")]_vars

(* The passes after the last drive make every change old, though drives    *)
(* that passes overtook left the countdowns out of step.                   *)
ChangesBecomeOld ==
  []<>(drv.at # "none" \/ \A x \in Idx : ~IsChanged(bus[x]))

(* A drive that begins with no drive counted, and ends, while no pass is   *)
(* running, is heard by the port that is updated first, if it leaves a     *)
(* change on a wire: once the next pass has updated that port, and until   *)
(* the next drive, the callback has read the values on the wires.          *)
WatcherFirst == Order[1] = Watcher

Updated(p) == MainAt("outside") \/ \E k \in DOMAIN Order : Order[k] = p /\ k < upd.port

QuietDriveHeard == due /\ Updated(Watcher) => seen = BusValues

(* "Call callback if a delta signal is detected" (port.cpp): once the      *)
(* block drives no more, the callback will have read the values on the     *)
(* wires.  It need not have: an update of any of the ports that comes      *)
(* between the drive and the update of the watching port takes the         *)
(* refcount away, and one that overlaps the drive makes the change old.    *)
LastDriveHeard == []<>(drv.at # "none" \/ seen = BusValues)
=============================================================================
