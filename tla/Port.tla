-------------------------------- MODULE Port --------------------------------
(***************************************************************************)
(* Port (port.h, port.cpp): the wire vectors, who points to which, the     *)
(* signals, and the operations connect, drive, set_sensitivity and update, *)
(* as the main thread calls them.                                          *)
(*                                                                         *)
(* A port's constructor allocates one vector of wires; connect makes the   *)
(* destination point to the source's vector and deletes its own.  Vectors  *)
(* are named after the port that allocated them.  update is cut into one   *)
(* step per wire, because a signal's callback runs user code, which may    *)
(* drive, connect or change sensitivities, between the check of a wire and *)
(* the reset of its refcount.                                              *)
(*                                                                         *)
(* PortSpec lets user code make any sequence of calls of ports that have   *)
(* no assignments: the loop over them with which update begins is module   *)
(* Assign's.  Module Refresher makes the calls the simulator's main loop   *)
(* makes.                                                                  *)
(***************************************************************************)
EXTENDS Wire

CONSTANTS
  Port,          \* the ports
  NoPort,        \* the null Port pointer
  Type,          \* Type[p]: "PORT_REG" or "PORT_WIRE"
  Dir,           \* Dir[p]: direction of p
  Width,         \* Width[p]: number of wires p was declared with
  Callback,      \* signal callbacks of user code
  NoCallback,    \* the null callback
  Links,         \* the <<source, destination>> pairs user code connects
  DriveCalls,    \* the drive calls user code makes
  SensCalls,     \* the set_sensitivity calls user code makes
  MaxConnected   \* bound on modules_connected_orig

PortDir == {"PORT_INPUT", "PORT_OUTPUT", "PORT_INOUT", "PORT_NODIR"}

Signal == [raise : Callback \cup {NoCallback}, edge_trigger : WireEdge]

ASSUME PortAssumption ==
  /\ NoPort \notin Port
  /\ NoCallback \notin Callback
  /\ Type \in [Port -> {"PORT_REG", "PORT_WIRE"}]
  /\ Dir \in [Port -> PortDir]
  /\ Width \in [Port -> Nat \ {0}]
  /\ Links \subseteq Port \X Port
  /\ DriveCalls \subseteq [port : Port, off : Nat, len : Nat, vals : Seq(WireVal)]
  /\ SensCalls \subseteq [port : Port, wire : Nat, edge : WireEdge, raise : Callback]
  /\ MaxConnected \in Nat

(* Linked ports have the same number of wires.  Nothing in connect checks  *)
(* it, and code that links others is undefined: update indexes a port's    *)
(* signals by the wires of its source, past their end when the source is   *)
(* wider, and resets the refcount of a wire by an index it took before the *)
(* callback, past the end when the callback links the port under update to *)
(* a narrower source.  It is a hypothesis of the theorems that need it.    *)
EqualWidths == \A l \in Links : Width[l[1]] = Width[l[2]]

VARIABLES
  heap,      \* heap[b]: the vector of wires that b's constructor allocated
  wires,     \* wires[p]: the allocator of the vector p points to
  dirty,     \* wires_dirty: p still has the vector it allocated
  freed,     \* the allocators whose vector was deleted
  signals,   \* signals[p][i]: callback and sensitivity of p for wire i
  driven,    \* Refresher::driven_wires_on_update
  frame      \* where Port::update is, and the signals it has called

portVars == <<heap, wires, dirty, freed, signals, driven, frame>>

Idx(p) == 0 .. Width[p] - 1

NoSignal == [raise |-> NoCallback, edge_trigger |-> "NULLEDGE"]

Idle == [port |-> NoPort, wire |-> 0, called |-> {}, raised |-> FALSE]

(* The vector a port points to.                                            *)
WiresOf(p) == heap[wires[p]]

(* Port::Port, with default_val 0, the only one the program passes.        *)
PortInit ==
  /\ heap = [p \in Port |-> [i \in Idx(p) |-> NewWire("_0", NoPort)]]
  /\ wires = [p \in Port |-> p]
  /\ dirty = [p \in Port |-> TRUE]
  /\ freed = {}
  /\ signals = [p \in Port |-> [i \in Idx(p) |-> NoSignal]]
  /\ driven = FALSE
  /\ frame = Idle

-----------------------------------------------------------------------------
(* Port::connect.  A destination that is not a wire is refused; a          *)
(* destination that still has its own vector deletes it (clean_wires).     *)
Cleaned_Leak(dst) == freed

Cleaned_Always(dst) == freed \cup {wires[dst]}

Cleaned(dst) == IF dirty[dst] THEN freed \cup {wires[dst]} ELSE freed

Repointed_Swapped(src, dst) == [wires EXCEPT ![src] = wires[dst]]

Repointed(src, dst) == [wires EXCEPT ![dst] = wires[src]]

Connect(src, dst) ==
  /\ Type[dst] = "PORT_WIRE"
  /\ \A i \in Idx(wires[src]) : heap[wires[src]][i].modules_connected < MaxConnected
  /\ freed' = Cleaned(dst)
  /\ dirty' = [dirty EXCEPT ![dst] = FALSE]
  /\ wires' = Repointed(src, dst)
  /\ heap' = [heap EXCEPT ![wires[src]] = [i \in Idx(wires[src]) |-> Linked(@[i])]]
  /\ UNCHANGED <<signals, driven, frame>>

(* Port::set_sensitivity; an index past the signals is refused.            *)
SetSensitivity(c) ==
  /\ c.wire \in Idx(c.port)
  /\ signals' = [signals EXCEPT ![c.port][c.wire] =
                   [raise |-> c.raise, edge_trigger |-> c.edge]]
  /\ UNCHANGED <<heap, wires, dirty, freed, driven, frame>>

(* Port::set_sensitivity_bus, Port::onchange: all edges, for every wire of *)
(* the vector that is one of the port's signals.                           *)
OnChange(p, cb) ==
  /\ signals' = [signals EXCEPT ![p] =
                   [i \in Idx(p) |-> IF i \in Idx(wires[p])
                                    THEN [raise |-> cb, edge_trigger |-> "ALLEDGES"]
                                    ELSE @[i]]]
  /\ UNCHANGED <<heap, wires, dirty, freed, driven, frame>>

(* Port::drive.  Only a register that is not an input can be driven, and   *)
(* only from an offset inside it; a refused call changes nothing.          *)
Accepts_AnyType(c) ==
  /\ Dir[c.port] # "PORT_INPUT"
  /\ c.off < Width[wires[c.port]]

Accepts(c) ==
  /\ Type[c.port] = "PORT_REG"
  /\ Dir[c.port] # "PORT_INPUT"
  /\ c.off < Width[wires[c.port]]

Drive(c) ==
  /\ Accepts(c)
  /\ heap' = [heap EXCEPT ![wires[c.port]] =
                DriveWires(@, c.off, c.len, c.vals, c.port)]
  /\ driven' = (driven \/ Takers(WiresOf(c.port), c.off, c.len, c.vals) # {})
  /\ UNCHANGED <<wires, dirty, freed, signals, frame>>

-----------------------------------------------------------------------------
(* Port::update(p) of a port with no assignments: one wire after the       *)
(* other, from wire 0.                                                     *)
BeginUpdate(p) ==
  /\ frame = Idle
  /\ frame' = [Idle EXCEPT !.port = p]
  /\ UNCHANGED <<heap, wires, dirty, freed, signals, driven>>

(* The wire under update and the signal p has for it.                      *)
UpdatedWire == WiresOf(frame.port)[frame.wire]

UpdatedSignal == signals[frame.port][frame.wire]

(* The callback is called: the wire changed, the signal is sensitive to    *)
(* the new edge, no equal signal was called in this update, and exactly    *)
(* one driver, a known one, drove the wire.                                *)
Raises ==
  /\ IsChanged(UpdatedWire)
  /\ UpdatedSignal.raise # NoCallback
  /\ Triggered(UpdatedSignal.edge_trigger, UpdatedWire.edge)
  /\ UpdatedWire.refcount = 1
  /\ UpdatedSignal \notin frame.called
  /\ UpdatedWire.last_port_drive # NoPort

NextFrame ==
  IF frame.wire + 1 < Width[wires[frame.port]]
  THEN [frame EXCEPT !.wire = @ + 1, !.raised = FALSE]
  ELSE Idle

SetUpdatedWire(w) ==
  heap' = [heap EXCEPT ![wires[frame.port]] = [@ EXCEPT ![frame.wire] = w]]

(* A wire whose callback is not called: check it, reset its refcount, go   *)
(* on to the next wire.                                                    *)
CheckWire ==
  /\ frame.port # NoPort
  /\ ~frame.raised
  /\ ~Raises
  /\ SetUpdatedWire(Released(Checked(UpdatedWire)))
  /\ frame' = NextFrame
  /\ UNCHANGED <<wires, dirty, freed, signals, driven>>

(* A wire whose callback is called: user code runs next.                   *)
RaiseSignal ==
  /\ frame.port # NoPort
  /\ ~frame.raised
  /\ Raises
  /\ SetUpdatedWire(Checked(UpdatedWire))
  /\ frame' = [frame EXCEPT !.raised = TRUE, !.called = @ \cup {UpdatedSignal}]
  /\ UNCHANGED <<wires, dirty, freed, signals, driven>>

(* The callback returned.                                                  *)
SignalReturns ==
  /\ frame.port # NoPort
  /\ frame.raised
  /\ SetUpdatedWire(Released(UpdatedWire))
  /\ frame' = NextFrame
  /\ UNCHANGED <<wires, dirty, freed, signals, driven>>

-----------------------------------------------------------------------------
(* User code runs between updates and in callbacks.                        *)
UserRuns == frame.port = NoPort \/ frame.raised

UserCall ==
  /\ UserRuns
  /\ \/ \E l \in Links : Connect(l[1], l[2])
     \/ \E c \in DriveCalls : Drive(c)
     \/ \E c \in SensCalls : SetSensitivity(c)
     \/ \E c \in SensCalls : OnChange(c.port, c.raise)

PortNext ==
  \/ UserCall
  \/ \E p \in Port : BeginUpdate(p)
  \/ CheckWire
  \/ RaiseSignal
  \/ SignalReturns

PortSpec == PortInit /\ [][PortNext]_portVars
-----------------------------------------------------------------------------
PortTypeOK ==
  /\ DOMAIN heap = Port
  /\ \A p \in Port : heap[p] \in [Idx(p) -> WireOf(Port \cup {NoPort})]
  /\ wires \in [Port -> Port]
  /\ dirty \in [Port -> BOOLEAN]
  /\ freed \subseteq Port
  /\ DOMAIN signals = Port
  /\ \A p \in Port : signals[p] \in [Idx(p) -> Signal]
  /\ driven \in BOOLEAN
  /\ \/ frame = Idle
     \/ /\ frame \in [port : Port, wire : Nat, called : SUBSET Signal, raised : BOOLEAN]
        /\ frame.wire \in Idx(frame.port) \cap Idx(wires[frame.port])

(* Memory.  clean_wires deletes a vector exactly when its port is first    *)
(* made a destination: no vector is deleted twice, and none is left        *)
(* allocated that no port points to.                                       *)
VectorsOwned ==
  /\ \A p \in Port : dirty[p] => wires[p] = p
  /\ \A b \in Port : b \in freed <=> ~dirty[b]

(* Memory.  No port points to a deleted vector: every later get_wires,     *)
(* drive or update of the port reads live memory.                          *)
NoDangling == \A p \in Port : wires[p] \notin freed

(* The links are flat when no port is both a source and a destination.     *)
FlatLinks == \A l, k \in Links : l[1] # k[2]

(* While no port has assignments, a vector has one port that can drive it, *)
(* however ports are linked: the one that allocated it.  (An assignment of *)
(* a linked wire drives its source's vector: OwnerOrAssigner in Assign.)   *)
OneDriver ==
  \A b \in Port : \A i \in Idx(b) :
    LET w == heap[b][i]
    IN  /\ w.last_port_drive \in {b, NoPort}
        /\ w.refcount > 0 => w.last_port_drive = b /\ Type[b] = "PORT_REG"

(* Once driven, the edge of a wire is the edge of its value, whatever      *)
(* partial, conflicting or interrupted drives follow.                      *)
EdgeIsOfValue ==
  \A b \in Port : \A i \in Idx(b) :
    LET w == heap[b][i]
    IN  w.last_port_drive # NoPort => w.edge = EdgeOf(w.val)

(* The count of ports that still have to see a change never exceeds the    *)
(* count it is restored to: a pending change is always made the old state  *)
(* after finitely many updates.                                            *)
CountBounded ==
  \A b \in Port : \A i \in Idx(b) :
    heap[b][i].modules_connected <= heap[b][i].modules_connected_orig
=============================================================================
