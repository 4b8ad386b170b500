------------------------------ MODULE Refresher ------------------------------
(***************************************************************************)
(* The main thread (main.cpp, refresher.cpp): module constructors, then    *)
(* Refresher::run, then refresh_always for ever.                           *)
(*                                                                         *)
(* A refresh cycle first makes the scheduled connections, then passes over *)
(* the modules in the order they were declared: every port of a module is  *)
(* updated, then, in the first pass of the cycle only, the module itself.  *)
(* Passes repeat while a pass drove some wire.                             *)
(*                                                                         *)
(* User code is a module's update() and a signal's callback.  It runs a    *)
(* script: a sequence of drive calls, chosen among those the constants     *)
(* allow.  A callback begins by reading the port it is called for, as      *)
(* memory.cpp's does.  Two history variables are for the properties: seen  *)
(* keeps what a callback read last, ran the modules updated in this cycle. *)
(*                                                                         *)
(* Joining the threads of the initial blocks is modelled in InitThreads.   *)
(***************************************************************************)
EXTENDS ConnectAll

CONSTANTS
  Modules,          \* Modules[m]: the sequence of the ports of module m
  DirectLinks,      \* connections constructors make directly, in order
  Scheduled,        \* connections constructors schedule, in order
  Sensitivity,      \* signals after the constructors
  UpdateScripts,    \* UpdateScripts[m]: what m's update() may do
  CallbackScripts,  \* CallbackScripts[cb]: what callback cb may do
  SubMod,           \* 2^8, number of values of the char sub_refresh_count
  CycleMod          \* 2^64, number of values of refresh_cycle

Script == Seq(DriveCalls)

Module == DOMAIN Modules

ASSUME RefresherAssumption ==
  /\ Modules \in Seq(Seq(Port)) /\ Modules # <<>>
  /\ \A p \in Port : \E m \in Module : \E k \in DOMAIN Modules[m] : Modules[m][k] = p
  /\ \A m, n \in Module : \A k \in DOMAIN Modules[m], l \in DOMAIN Modules[n] :
       Modules[m][k] = Modules[n][l] => m = n /\ k = l
  /\ DirectLinks \in Seq(Links)
  /\ Scheduled \in Seq(Request)
  /\ DOMAIN Sensitivity = Port
  /\ \A p \in Port : Sensitivity[p] \in [Idx(p) -> Signal]
  /\ \A m \in Module : UpdateScripts[m] \subseteq Script /\ UpdateScripts[m] # {}
  /\ \A cb \in Callback : CallbackScripts[cb] \subseteq Script /\ CallbackScripts[cb] # {}
  /\ SubMod \in Nat \ {0}
  /\ CycleMod \in Nat \ {0}

VARIABLES
  pc,                 \* where the main thread is
  links,              \* direct connections that constructors still make
  mod,                \* module of the current pass
  next,               \* its port to update next
  script,             \* drive calls left in the running user code
  sub_refresh_count,
  refresh_cycle,
  ran,                \* the modules whose update() this cycle has called
  seen                \* seen[p]: the values p's callback read last

loopVars == <<pc, links, mod, next, script, sub_refresh_count, refresh_cycle, ran, seen>>

vars == <<portVars, connVars, loopVars>>

Values(p) == [i \in DOMAIN WiresOf(p) |-> WiresOf(p)[i].val]

(* The registry: modules and their ports by number, from 0.                *)
GetPort(modid, portid) ==
  IF modid < Len(Modules) /\ portid < Len(Modules[modid + 1])
  THEN Modules[modid + 1][portid + 1]
  ELSE NoPort

GetWireval(modid, portid) ==
  IF GetPort(modid, portid) = NoPort THEN <<>> ELSE Values(GetPort(modid, portid))

Init ==
  /\ heap = [p \in Port |-> [i \in Idx(p) |-> NewWire("_0", NoPort)]]
  /\ wires = [p \in Port |-> p]
  /\ dirty = [p \in Port |-> TRUE]
  /\ freed = {}
  /\ signals = Sensitivity
  /\ driven = FALSE
  /\ frame = Idle
  /\ connection_schedules = Scheduled
  /\ unasked = Request \ {Scheduled[i] : i \in DOMAIN Scheduled}
  /\ conn = NotConnecting
  /\ crowded = FALSE
  /\ pc = "construct"
  /\ links = DirectLinks
  /\ mod = 1
  /\ next = 1
  /\ script = <<>>
  /\ sub_refresh_count = 0
  /\ refresh_cycle = 0
  /\ ran = <<>>
  /\ seen = [p \in Port |-> Values(p)]

-----------------------------------------------------------------------------
(* main: the module constructors run before the simulator.                 *)
ConnectDirect ==
  /\ pc = "construct"
  /\ links # <<>>
  /\ Connect(Head(links)[1], Head(links)[2])
  /\ links' = Tail(links)
  /\ UNCHANGED <<connVars, pc, mod, next, script, sub_refresh_count, refresh_cycle,
                 ran, seen>>

Run ==
  /\ pc = "construct"
  /\ links = <<>>
  /\ pc' = "run"
  /\ UNCHANGED <<portVars, connVars, links, mod, next, script, sub_refresh_count,
                 refresh_cycle, ran, seen>>

(* connect_all is called once by run and then at the top of every cycle.   *)
CallConnectAll ==
  /\ pc \in {"run", "cycle"}
  /\ BeginConnectAll \/ ConnectStep
  /\ UNCHANGED loopVars

ConnectAllReturns ==
  /\ pc \in {"run", "cycle"}
  /\ ConnectReturns
  /\ pc' = IF pc = "run" THEN "cycle" ELSE "pass"
  /\ UNCHANGED <<links, mod, next, script, sub_refresh_count, refresh_cycle, ran, seen>>

-----------------------------------------------------------------------------
(* One pass over the modules.                                              *)
BeginPass ==
  /\ pc = "pass"
  /\ driven' = FALSE
  /\ pc' = "ports"
  /\ mod' = 1
  /\ next' = 1
  /\ UNCHANGED <<heap, wires, dirty, freed, signals, frame, connVars, links, script,
                 sub_refresh_count, refresh_cycle, ran, seen>>

UpdatePort ==
  /\ pc = "ports"
  /\ next <= Len(Modules[mod])
  /\ BeginUpdate(Modules[mod][next])
  /\ next' = next + 1
  /\ UNCHANGED <<connVars, pc, links, mod, script, sub_refresh_count, refresh_cycle,
                 ran, seen>>

UpdateWire ==
  /\ CheckWire
  /\ UNCHANGED <<connVars, loopVars>>

(* The callback reads its port, by the numbers that update gives it of the *)
(* module in the pass and of the port in the module, and starts its script.*)
CallBack ==
  /\ RaiseSignal
  /\ script' \in CallbackScripts[UpdatedSignal.raise]
  /\ seen' = [seen EXCEPT ![frame.port] = GetWireval(mod - 1, next - 2)]
  /\ UNCHANGED <<connVars, pc, links, mod, next, sub_refresh_count, refresh_cycle, ran>>

CallBackReturns ==
  /\ script = <<>>
  /\ SignalReturns
  /\ UNCHANGED <<connVars, loopVars>>

(* The next drive call of the running user code; it may be refused.        *)
RunScript ==
  /\ script # <<>>
  /\ \/ Drive(Head(script))
     \/ ~Accepts(Head(script)) /\ UNCHANGED portVars
  /\ script' = Tail(script)
  /\ UNCHANGED <<connVars, pc, links, mod, next, sub_refresh_count, refresh_cycle,
                 ran, seen>>

(* PORT_CONNECT called while the simulation runs.                          *)
ScheduleLive ==
  /\ pc = "update" \/ frame.raised
  /\ \E r \in Request : Schedule(r)
  /\ UNCHANGED loopVars

-----------------------------------------------------------------------------
(* All ports of the module were updated.                                   *)
PortsDone == pc = "ports" /\ frame = Idle /\ next > Len(Modules[mod])

FirstPass_Always == TRUE

FirstPass == sub_refresh_count = 0

UpdateModule ==
  /\ PortsDone
  /\ FirstPass
  /\ pc' = "update"
  /\ script' \in UpdateScripts[mod]
  /\ ran' = Append(ran, mod)
  /\ UNCHANGED <<portVars, connVars, links, mod, next, sub_refresh_count,
                 refresh_cycle, seen>>

NextModule ==
  /\ \/ PortsDone /\ ~FirstPass
     \/ pc = "update" /\ script = <<>>
  /\ IF mod < Len(Modules)
     THEN mod' = mod + 1 /\ next' = 1 /\ pc' = "ports"
     ELSE pc' = "passed" /\ UNCHANGED <<mod, next>>
  /\ UNCHANGED <<portVars, connVars, links, script, sub_refresh_count,
                 refresh_cycle, ran, seen>>

(* do ... while(driven_wires_on_update): another pass of this cycle.       *)
PassAgain ==
  /\ pc = "passed"
  /\ driven
  /\ pc' = "pass"
  /\ sub_refresh_count' = (sub_refresh_count + 1) % SubMod
  /\ UNCHANGED <<portVars, connVars, links, mod, next, script, refresh_cycle,
                 ran, seen>>

EndCycle ==
  /\ pc = "passed"
  /\ ~driven
  /\ pc' = "cycle"
  /\ sub_refresh_count' = 0
  /\ refresh_cycle' = (refresh_cycle + 1) % CycleMod
  /\ ran' = <<>>
  /\ UNCHANGED <<portVars, connVars, links, mod, next, script, seen>>

Next ==
  \/ ConnectDirect
  \/ Run
  \/ CallConnectAll
  \/ ConnectAllReturns
  \/ BeginPass
  \/ UpdatePort
  \/ UpdateWire
  \/ CallBack
  \/ CallBackReturns
  \/ RunScript
  \/ ScheduleLive
  \/ UpdateModule
  \/ NextModule
  \/ PassAgain
  \/ EndCycle

(* The main thread never waits for anything but itself.                    *)
Spec == Init /\ [][Next]_vars /\ WF_vars(Next)
-----------------------------------------------------------------------------
LoopTypeOK ==
  /\ pc \in {"construct", "run", "cycle", "pass", "ports", "update", "passed"}
  /\ links \in Seq(Links)
  /\ mod \in Module
  /\ next \in 1 .. Len(Modules[mod]) + 1
  /\ script \in Script
  /\ sub_refresh_count \in 0 .. SubMod - 1
  /\ refresh_cycle \in 0 .. CycleMod - 1
  /\ ran \in Seq(Module)
  /\ DOMAIN seen = Port
  /\ \A p \in Port : seen[p] \in [Idx(p) -> WireVal]

TypeOK == PortTypeOK /\ ConnectTypeOK /\ LoopTypeOK

(* Between two cycles, before the scheduled connections are made.          *)
BetweenCycles == pc = "cycle" /\ conn.at = "idle"

(* The passes of a cycle go on until nothing is left to do: between two    *)
(* cycles no wire has a change that some port has not been told of, every  *)
(* wire's countdown has been restored, and no wire counts as driven.       *)
Settled ==
  BetweenCycles =>
    \A b \in Port \ freed : \A i \in Idx(b) :
      LET w == heap[b][i]
      IN  /\ ~IsChanged(w)
          /\ w.modules_connected = w.modules_connected_orig
          /\ w.refcount = 0

(* The order of update.                                                    *)
UpdatedBefore(p, q) ==
  \E m, n \in Module : \E k \in DOMAIN Modules[m], l \in DOMAIN Modules[n] :
    /\ Modules[m][k] = p /\ Modules[n][l] = q
    /\ m < n \/ (m = n /\ k < l)

UpdatedBy(p, m) == \E n \in 1 .. m : \E k \in DOMAIN Modules[n] : Modules[n][k] = p

(* Circuits that are wired as the loop expects.  No port is a source of    *)
(* one link and a destination of another.                                  *)
CircuitLinks ==
  Links \cup
  {l \in Port \X Port :
     \E r \in Request : \E k \in DOMAIN r.found : l = Linking(r, r.found[k])}

FlatCircuit == \A l, k \in CircuitLinks : l[1] # k[2]

(* Each destination is linked once, by a constructor or by one request.    *)
LinkedOnce ==
  /\ OnePortEach
  /\ \A j, k \in DOMAIN DirectLinks : DirectLinks[j][2] = DirectLinks[k][2] => j = k
  /\ \A j, k \in DOMAIN Scheduled : Scheduled[j] = Scheduled[k] => j = k
  /\ \A q, r \in Request : Findable(q) /\ Findable(r) /\ Link(q)[2] = Link(r)[2] => q = r
  /\ \A r \in Request : \A j \in DOMAIN DirectLinks :
       Findable(r) => Link(r)[2] # DirectLinks[j][2]

(* User code drives a port only when every port that can share its wires   *)
(* has been updated in the pass: drivers come after their sinks.           *)
CanShare(b) == {b} \cup {p \in Port : <<b, p>> \in CircuitLinks}

Reg(p) == Type[p] = "PORT_REG" /\ Dir[p] # "PORT_INPUT"

DriversLast ==
  /\ \A m \in Module : \A calls \in UpdateScripts[m] : \A j \in DOMAIN calls :
       Reg(calls[j].port) => \A p \in CanShare(calls[j].port) : UpdatedBy(p, m)
  /\ \A q \in Port : \A i \in Idx(q) : Sensitivity[q][i].raise # NoCallback =>
       \A calls \in CallbackScripts[Sensitivity[q][i].raise] : \A j \in DOMAIN calls :
         Reg(calls[j].port) => \A p \in CanShare(calls[j].port) : UpdatedBefore(p, q)

(* Callbacks do not drive in circles: registers have levels, and a         *)
(* callback drives only registers of a higher level than the one whose     *)
(* wires it may be called for.  Each pass goes at least one level up, and  *)
(* the char tells as many passes apart as it has values.                   *)
Climbs(level) ==
  \A q \in Port : \A i \in Idx(q) : Sensitivity[q][i].raise # NoCallback =>
    \A calls \in CallbackScripts[Sensitivity[q][i].raise] : \A j \in DOMAIN calls :
      Reg(calls[j].port) =>
        \A b \in Port : Reg(b) /\ q \in CanShare(b) => level[b] < level[calls[j].port]

Levelled(n) == \E level \in [Port -> 0 .. n] : Climbs(level)

(* No drive is of no wires or of no values.                                *)
NoEmptyDrives == \A c \in DriveCalls : Reg(c.port) => c.len > 0 /\ c.vals # <<>>

(* Each drive is of all wires of its port, and gives each a definite value.*)
WholeDrives ==
  \A c \in DriveCalls : Reg(c.port) =>
    /\ c.off = 0 /\ c.len >= Width[c.port] /\ Len(c.vals) >= Width[c.port]
    /\ \A k \in DOMAIN c.vals : c.vals[k] # "_X"

(* One piece of user code drives a register, the update() of a module or   *)
(* what one signal of a port calls, and once each time it runs.            *)
UpdateDrives(m, b) ==
  \E calls \in UpdateScripts[m] : \E j \in DOMAIN calls : calls[j].port = b

SignalDrives(p, s, b) ==
  /\ s.raise # NoCallback
  /\ \E i \in Idx(p) : Sensitivity[p][i] = s
  /\ \E calls \in CallbackScripts[s.raise] : \E j \in DOMAIN calls : calls[j].port = b

DrivesOnce(calls) ==
  \A j, k \in DOMAIN calls : Reg(calls[j].port) /\ calls[j].port = calls[k].port => j = k

OneSource ==
  /\ \A m \in Module : \A calls \in UpdateScripts[m] : DrivesOnce(calls)
  /\ \A cb \in Callback : \A calls \in CallbackScripts[cb] : DrivesOnce(calls)
  /\ \A b \in Port : Reg(b) =>
       /\ \A m, n \in Module : UpdateDrives(m, b) /\ UpdateDrives(n, b) => m = n
       /\ \A p, q \in Port : \A s, t \in Signal :
            SignalDrives(p, s, b) /\ SignalDrives(q, t, b) => p = q /\ s = t
       /\ \A m \in Module : \A p \in Port : \A s \in Signal :
            ~(UpdateDrives(m, b) /\ SignalDrives(p, s, b))

(* A port that watches its wires, when it is linked while cycles run, has  *)
(* a port before it that constructors link to the same source, or the      *)
(* source itself.                                                          *)
EarlyRequest == {Scheduled[k] : k \in DOMAIN Scheduled}

EarlyLinks ==
  {DirectLinks[k] : k \in DOMAIN DirectLinks}
    \cup {Link(r) : r \in {q \in EarlyRequest : Findable(q)}}

Watches(sigs, p) ==
  \A i \in Idx(p) : sigs[p][i].raise # NoCallback /\ sigs[p][i].edge_trigger = "ALLEDGES"

WatchersInTime ==
  \A r \in Request \ EarlyRequest :
    Findable(r) /\ Watches(Sensitivity, Link(r)[2]) =>
      \E q \in Port :
        /\ UpdatedBefore(q, Link(r)[2])
        /\ q = Link(r)[1] \/ (Type[q] = "PORT_WIRE" /\ <<Link(r)[1], q>> \in EarlyLinks)

(* The port is the first to be updated of those that share its wires.      *)
First(p) == \A q \in Sharers(wires[p]) : ~UpdatedBefore(q, p)

(* Such a port, when it watches every wire for any edge, has read the      *)
(* values that are on it when the cycle ends: no change was missed, and    *)
(* what the callback read has not been overwritten since.  ("Call callback *)
(* if a delta signal is detected", port.cpp.)                              *)
Watching(p) == Watches(signals, p)

Delivered ==
  BetweenCycles => \A p \in Port : Watching(p) /\ First(p) => seen[p] = Values(p)

(* No other port is ever called back, whatever signals it has ("each port  *)
(* may have different signals", port.h): when drivers come after their     *)
(* sinks, the first sink's update takes the refcount of every wire away.   *)
OnlyFirstIsCalled == frame.raised => First(frame.port)

(* Every cycle runs each module's update() once, in the order the modules  *)
(* were declared, however many passes the drives make necessary; and       *)
(* cycles never stop coming.  Module Cycle is this promise.                *)
Promise == INSTANCE Cycle WITH Modules <- Len(Modules)

KeepsPromise == Promise!Spec
=============================================================================
