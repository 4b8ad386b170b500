--------------------------- MODULE RefresherProofs --------------------------
(***************************************************************************)
(* Proofs about module Refresher, for every circuit: any modules, ports,   *)
(* links, requests, signals and scripts of user code.  The last part is    *)
(* about module Citrino, the circuit of the program: its theorems have the *)
(* hypothesis CitrinoCircuit, and no other theorem depends on it.          *)
(***************************************************************************)
EXTENDS Citrino, ConnectAllProofs

(* A port under update is the one before next in the module of the pass,   *)
(* so that the numbers a callback is given find the port it is called for. *)
Updating ==
  frame.port # NoPort =>
    /\ pc = "ports"
    /\ next - 1 \in DOMAIN Modules[mod]
    /\ Modules[mod][next - 1] = frame.port

Typed == TypeInv /\ ConnectTypeOK /\ LoopTypeOK /\ Updating

-----------------------------------------------------------------------------
LEMMA Placed ==
  ASSUME LoopTypeOK
  PROVE  /\ Len(Modules) \in Nat \ {0} /\ Module = 1 .. Len(Modules)
         /\ mod \in Nat /\ 1 <= mod /\ mod <= Len(Modules)
         /\ Modules[mod] \in Seq(Port) /\ Len(Modules[mod]) \in Nat
         /\ DOMAIN Modules[mod] = 1 .. Len(Modules[mod])
         /\ next \in Nat /\ 1 <= next /\ next <= Len(Modules[mod]) + 1
<1>1. Modules \in Seq(Seq(Port)) /\ Modules # <<>>
  BY RefresherAssumption
<1>2. Len(Modules) \in Nat \ {0} /\ Module = 1 .. Len(Modules)
  BY <1>1, EmptySeq, LenProperties DEF Module
<1>3. mod \in 1 .. Len(Modules) /\ next \in 1 .. Len(Modules[mod]) + 1
  BY <1>2 DEF LoopTypeOK
<1>4. Modules[mod] \in Seq(Port)
  BY <1>1, <1>3, ElementOfSeq
<1> QED
  BY <1>2, <1>3, <1>4

LEMMA IdleFrame == ASSUME TypeInv, frame.port = NoPort PROVE frame = Idle
  BY PortAssumption DEF TypeInv, PortTypeOK

(* What a callback reads of a port: its values.                            *)
LEMMA ValuesType ==
  ASSUME TypeInv, NEW p \in Port PROVE Values(p) \in [Idx(p) -> WireVal]
<1>1. wires[p] \in Port /\ Width[wires[p]] = Width[p]
  BY DEF TypeInv, PortTypeOK, LinkedWidths
<1>2. heap[wires[p]] \in [Idx(p) -> Wire]
  BY <1>1 DEF TypeInv, PortTypeOK, Idx, Wire, Driver
<1> QED
  BY <1>2 DEF Values, WiresOf, Wire, WireOf

LEMMA CallbackReads ==
  ASSUME Typed, frame.port # NoPort
  PROVE  GetWireval(mod - 1, next - 2) = Values(frame.port)
<1>1. /\ mod - 1 < Len(Modules) /\ mod - 1 + 1 = mod
      /\ next - 2 < Len(Modules[mod]) /\ next - 2 + 1 = next - 1
  BY Placed DEF Typed, Updating
<1>2. GetPort(mod - 1, next - 2) = Modules[mod][next - 1]
  BY <1>1 DEF GetPort
<1>3. GetPort(mod - 1, next - 2) = frame.port
  BY <1>2 DEF Typed, Updating
<1> QED
  BY <1>3 DEF GetWireval

LEMMA TypedInit == Init => Typed
<1> SUFFICES ASSUME Init PROVE Typed
  OBVIOUS
<1>1. \A p \in Port : heap[p] \in [Idx(p) -> Wire]
  BY NewWireType DEF Init
<1>2. DOMAIN signals = Port /\ \A p \in Port : signals[p] \in [Idx(p) -> Signal]
  BY RefresherAssumption DEF Init
<1>3. PortTypeOK
  BY <1>1, <1>2 DEF Init, PortTypeOK, Wire, Driver
<1>4. TypeInv
  BY <1>3 DEF Init, TypeInv, LinkedWidths
<1>5. ConnectTypeOK
  <2>1. connection_schedules \in Seq(Request)
    BY RefresherAssumption DEF Init
  <2>2. conn \in
          [at : {"idle", "scan", "erase", "done", "stopped"}, i : Nat \ {0},
           found : Nat \ {0}, erase_index : Seq(Nat \ {0})]
    BY DEF Init, NotConnecting
  <2>3. unasked \subseteq Request /\ crowded \in BOOLEAN
    BY DEF Init
  <2> QED
    BY <2>1, <2>2, <2>3, Zenon DEF ConnectTypeOK
<1>6. LoopTypeOK
  <2>1. 1 \in Module /\ Modules[1] \in Seq(Port) /\ Len(Modules[1]) \in Nat
    <3>1. Modules \in Seq(Seq(Port)) /\ Modules # <<>>
      BY RefresherAssumption
    <3>2. 1 \in 1 .. Len(Modules) /\ Module = 1 .. Len(Modules)
      BY <3>1, EmptySeq, LenProperties DEF Module
    <3> QED
      BY <3>1, <3>2, ElementOfSeq, LenProperties
  <2>2. mod \in Module /\ next \in 1 .. Len(Modules[mod]) + 1
    BY <2>1 DEF Init
  <2>3. links \in Seq(Links) /\ script \in Script /\ ran \in Seq(Module)
    BY RefresherAssumption DEF Init, Script
  <2>4. sub_refresh_count \in 0 .. SubMod - 1 /\ refresh_cycle \in 0 .. CycleMod - 1
    BY RefresherAssumption DEF Init
  <2>5. DOMAIN seen = Port /\ \A p \in Port : seen[p] \in [Idx(p) -> WireVal]
    BY <1>4, ValuesType DEF Init
  <2>6. pc = "construct"
    BY DEF Init
  <2> QED
    BY <2>2, <2>3, <2>4, <2>5, <2>6 DEF LoopTypeOK
<1>7. Updating
  BY DEF Init, Idle, Updating
<1> QED
  BY <1>4, <1>5, <1>6, <1>7 DEF Typed

-----------------------------------------------------------------------------
(* Each action keeps the types.                                            *)
LEMMA PortsStay == ASSUME TypeInv, UNCHANGED portVars PROVE TypeInv'
  BY TypeNext, ConnectWidths

LEMMA ConnStays == ASSUME ConnectTypeOK, UNCHANGED connVars PROVE ConnectTypeOK'
  BY DEF ConnectTypeOK, connVars

LEMMA TypedDirect == ASSUME Typed, ConnectDirect PROVE Typed'
<1>1. /\ links \in Seq(Links) /\ links # <<>> /\ Head(links) \in Links
      /\ Tail(links) \in Seq(Links) /\ links' = Tail(links)
  BY DEF Typed, LoopTypeOK, ConnectDirect
<1>2. /\ Head(links)[1] \in Port /\ Head(links)[2] \in Port
      /\ Width[Head(links)[1]] = Width[Head(links)[2]]
  BY <1>1, PortAssumption, ConnectWidths DEF EqualWidths
<1>3. TypeInv'
  BY <1>2, TypeConnect DEF Typed, ConnectDirect
<1>4. ConnectTypeOK'
  BY ConnStays DEF Typed, ConnectDirect
<1>5. LoopTypeOK'
  BY <1>1 DEF Typed, LoopTypeOK, ConnectDirect
<1>6. Updating'
  BY DEF Typed, Updating, ConnectDirect, Connect
<1> QED
  BY <1>3, <1>4, <1>5, <1>6 DEF Typed

LEMMA TypedRun == ASSUME Typed, Run PROVE Typed'
<1>1. TypeInv' /\ ConnectTypeOK'
  BY PortsStay, ConnStays DEF Typed, Run
<1>2. LoopTypeOK'
  BY DEF Typed, LoopTypeOK, Run
<1>3. Updating'
  BY DEF Typed, Updating, Run, portVars
<1> QED
  BY <1>1, <1>2, <1>3 DEF Typed

(* connect_all runs between updates and leaves the frame alone.            *)
LEMMA CallFrame ==
  ASSUME BeginConnectAll \/ ConnectStep \/ ConnectReturns PROVE frame' = frame
  BY DEF BeginConnectAll, ConnectStep, ConnectFound, NextRequest, EndScan, EraseNoted,
         ErasePastEnd, EndErase, ConnectReturns, Connect, portVars

LEMMA TypedCall == ASSUME Typed, CallConnectAll \/ ConnectAllReturns PROVE Typed'
<1>1. BeginConnectAll \/ ConnectStep \/ ConnectReturns
  BY DEF CallConnectAll, ConnectAllReturns
<1>2. TypeInv' /\ ConnectTypeOK'
  BY <1>1, CallTypes DEF Typed
<1>3. LoopTypeOK'
  <2>1. CASE CallConnectAll
    BY <2>1 DEF Typed, LoopTypeOK, CallConnectAll, loopVars
  <2>2. CASE ConnectAllReturns
    BY <2>2 DEF Typed, LoopTypeOK, ConnectAllReturns
  <2> QED
    BY <2>1, <2>2
<1>4. pc \in {"run", "cycle"}
  BY DEF CallConnectAll, ConnectAllReturns
<1>5. Updating'
  BY <1>1, <1>4, CallFrame DEF Typed, Updating
<1> QED
  BY <1>2, <1>3, <1>5 DEF Typed

LEMMA TypedBeginPass == ASSUME Typed, BeginPass PROVE Typed'
<1>1. UNCHANGED <<heap, wires, dirty, freed, signals, frame>> /\ driven' \in BOOLEAN
  BY DEF BeginPass
<1>2. TypeInv'
  BY <1>1 DEF Typed, TypeInv, PortTypeOK, LinkedWidths
<1>3. ConnectTypeOK'
  BY ConnStays DEF Typed, BeginPass
<1>4. 1 \in Module /\ Len(Modules[1]) \in Nat
  <2>1. Modules \in Seq(Seq(Port)) /\ 1 \in 1 .. Len(Modules)
    BY RefresherAssumption, Placed DEF Typed
  <2> QED
    BY <2>1, ElementOfSeq, LenProperties DEF Module
<1>5. LoopTypeOK'
  BY <1>4 DEF Typed, LoopTypeOK, BeginPass
<1>6. Updating'
  BY <1>1 DEF Typed, Updating, BeginPass
<1> QED
  BY <1>2, <1>3, <1>5, <1>6 DEF Typed

LEMMA TypedUpdatePort == ASSUME Typed, UpdatePort PROVE Typed'
<1>1. /\ next \in DOMAIN Modules[mod] /\ Modules[mod][next] \in Port
      /\ next + 1 \in 1 .. Len(Modules[mod]) + 1 /\ next + 1 - 1 = next
  BY Placed DEF Typed, UpdatePort
<1>2. TypeInv'
  BY <1>1, TypeBeginUpdate DEF Typed, UpdatePort
<1>3. ConnectTypeOK'
  BY ConnStays DEF Typed, UpdatePort
<1>4. LoopTypeOK'
  BY <1>1 DEF Typed, LoopTypeOK, UpdatePort
<1>5. Updating'
  BY <1>1 DEF Updating, UpdatePort, BeginUpdate, Idle
<1> QED
  BY <1>2, <1>3, <1>4, <1>5 DEF Typed

(* A step of update leaves the port under update, or leaves none.          *)
LEMMA FramePort ==
  ASSUME TypeInv, CheckWire \/ RaiseSignal \/ SignalReturns
  PROVE  frame'.port \in {frame.port, NoPort}
<1>1. frame \in [port : Port, wire : Nat, called : SUBSET Signal, raised : BOOLEAN]
  BY Updated DEF CheckWire, RaiseSignal, SignalReturns
<1>2. NextFrame.port \in {frame.port, NoPort}
  BY <1>1 DEF NextFrame, Idle
<1>3. CASE RaiseSignal
  BY <1>1, <1>3 DEF RaiseSignal
<1> QED
  BY <1>2, <1>3 DEF CheckWire, SignalReturns

LEMMA TypedUpdateWire == ASSUME Typed, UpdateWire \/ CallBackReturns PROVE Typed'
<1>1. (CheckWire \/ SignalReturns) /\ UNCHANGED <<connVars, loopVars>>
  BY DEF UpdateWire, CallBackReturns
<1>2. TypeInv'
  BY <1>1, TypeCheckWire, TypeSignalReturns DEF Typed
<1>3. ConnectTypeOK'
  BY <1>1, ConnStays DEF Typed
<1>4. LoopTypeOK'
  BY <1>1 DEF Typed, LoopTypeOK, loopVars
<1>5. Updating'
  BY <1>1, FramePort DEF Typed, Updating, loopVars
<1> QED
  BY <1>2, <1>3, <1>4, <1>5 DEF Typed

LEMMA TypedCallBack == ASSUME Typed, CallBack PROVE Typed'
<1>1. /\ frame.port \in Port /\ frame.port # NoPort
      /\ UpdatedSignal.raise \in Callback
  <2>1. frame.port # NoPort /\ UpdatedSignal.raise # NoCallback
    BY DEF CallBack, RaiseSignal, Raises
  <2>2. frame.port \in Port /\ UpdatedSignal \in Signal
    BY <2>1, Updated DEF Typed
  <2> QED
    BY <2>1, <2>2 DEF Signal
<1>2. TypeInv'
  BY TypeRaiseSignal DEF Typed, CallBack
<1>3. ConnectTypeOK'
  BY ConnStays DEF Typed, CallBack
<1>4. script' \in Script
  BY <1>1, RefresherAssumption DEF CallBack
<1>5. DOMAIN seen' = Port /\ \A p \in Port : seen'[p] \in [Idx(p) -> WireVal]
  <2> DEFINE v == GetWireval(mod - 1, next - 2)
  <2>1. v \in [Idx(frame.port) -> WireVal]
    BY <1>1, CallbackReads, ValuesType DEF Typed
  <2>2. seen' = [seen EXCEPT ![frame.port] = v]
    BY DEF CallBack
  <2> HIDE DEF v
  <2> QED
    BY <1>1, <2>1, <2>2 DEF Typed, LoopTypeOK
<1>6. LoopTypeOK'
  BY <1>4, <1>5 DEF Typed, LoopTypeOK, CallBack
<1>7. Updating'
  BY FramePort DEF Typed, Updating, CallBack
<1> QED
  BY <1>2, <1>3, <1>6, <1>7 DEF Typed

LEMMA TypedRunScript == ASSUME Typed, RunScript PROVE Typed'
<1>1. /\ Head(script) \in DriveCalls /\ Tail(script) \in Script /\ script' = Tail(script)
  BY DEF Typed, LoopTypeOK, RunScript, Script
<1>2. TypeInv' /\ frame' = frame
  <2>1. CASE Drive(Head(script))
    BY <1>1, <2>1, TypeDrive DEF Typed, Drive
  <2>2. CASE UNCHANGED portVars
    BY <2>2, PortsStay DEF Typed, portVars
  <2> QED
    BY <2>1, <2>2 DEF RunScript
<1>3. ConnectTypeOK'
  BY ConnStays DEF Typed, RunScript
<1>4. LoopTypeOK'
  BY <1>1 DEF Typed, LoopTypeOK, RunScript
<1>5. Updating'
  BY <1>2 DEF Typed, Updating, RunScript
<1> QED
  BY <1>2, <1>3, <1>4, <1>5 DEF Typed

LEMMA TypedScheduleLive == ASSUME Typed, ScheduleLive PROVE Typed'
<1>1. PICK r \in Request : Schedule(r)
  BY DEF ScheduleLive
<1>2. TypeInv' /\ ConnectTypeOK'
  BY <1>1, PortsStay, ScheduleTypes DEF Typed, Schedule
<1>3. LoopTypeOK' /\ Updating'
  BY <1>1 DEF Typed, LoopTypeOK, Updating, ScheduleLive, Schedule, loopVars, portVars
<1> QED
  BY <1>2, <1>3 DEF Typed

LEMMA TypedUpdateModule == ASSUME Typed, UpdateModule PROVE Typed'
<1>1. TypeInv' /\ ConnectTypeOK'
  BY PortsStay, ConnStays DEF Typed, UpdateModule
<1>2. mod \in Module /\ script' \in Script
  BY RefresherAssumption DEF Typed, LoopTypeOK, UpdateModule
<1>3. ran' \in Seq(Module)
  BY <1>2, AppendProperties DEF Typed, LoopTypeOK, UpdateModule
<1>4. LoopTypeOK'
  BY <1>2, <1>3 DEF Typed, LoopTypeOK, UpdateModule
<1>5. Updating'
  BY DEF Updating, UpdateModule, PortsDone, Idle, portVars
<1> QED
  BY <1>1, <1>4, <1>5 DEF Typed

(* Between modules no port is under update.                                *)
LEMMA NextModuleIdle == ASSUME Typed, NextModule PROVE frame.port = NoPort /\ frame' = frame
  BY DEF Typed, Updating, NextModule, PortsDone, Idle, portVars

LEMMA TypedNextModule == ASSUME Typed, NextModule PROVE Typed'
<1>1. TypeInv' /\ ConnectTypeOK'
  BY PortsStay, ConnStays DEF Typed, NextModule
<1>2. mod' \in Module /\ next' \in 1 .. Len(Modules[mod']) + 1
  <2>1. CASE mod < Len(Modules)
    <3>1. mod + 1 \in 1 .. Len(Modules) /\ Module = 1 .. Len(Modules)
      BY <2>1, Placed DEF Typed
    <3>2. Len(Modules[mod + 1]) \in Nat
      BY <3>1, RefresherAssumption, ElementOfSeq, LenProperties
    <3> QED
      BY <2>1, <3>1, <3>2 DEF NextModule
  <2>2. CASE ~(mod < Len(Modules))
    BY <2>2 DEF Typed, LoopTypeOK, NextModule
  <2> QED
    BY <2>1, <2>2
<1>3. pc' \in {"ports", "passed"}
  BY DEF NextModule
<1>4. LoopTypeOK'
  BY <1>2, <1>3 DEF Typed, LoopTypeOK, NextModule
<1>5. Updating'
  BY NextModuleIdle DEF Updating
<1> QED
  BY <1>1, <1>4, <1>5 DEF Typed

LEMMA TypedPassed == ASSUME Typed, PassAgain \/ EndCycle PROVE Typed'
<1>1. TypeInv' /\ ConnectTypeOK'
  BY PortsStay, ConnStays DEF Typed, PassAgain, EndCycle
<1>2. LoopTypeOK'
  <2>1. SubMod \in Nat \ {0} /\ CycleMod \in Nat \ {0}
    BY RefresherAssumption
  <2>2. CASE PassAgain
    <3>1. sub_refresh_count' \in 0 .. SubMod - 1
      BY <2>1, <2>2 DEF Typed, LoopTypeOK, PassAgain
    <3> QED
      BY <2>2, <3>1 DEF Typed, LoopTypeOK, PassAgain
  <2>3. CASE EndCycle
    <3>1. refresh_cycle' \in 0 .. CycleMod - 1 /\ sub_refresh_count' \in 0 .. SubMod - 1
      BY <2>1, <2>3 DEF Typed, LoopTypeOK, EndCycle
    <3>2. ran' \in Seq(Module)
      BY <2>3 DEF EndCycle
    <3> QED
      BY <2>3, <3>1, <3>2 DEF Typed, LoopTypeOK, EndCycle
  <2> QED
    BY <2>2, <2>3
<1>3. Updating'
  BY DEF Typed, Updating, PassAgain, EndCycle, portVars
<1> QED
  BY <1>1, <1>2, <1>3 DEF Typed

LEMMA TypedStep == Typed /\ [Next]_vars => Typed'
<1> SUFFICES ASSUME Typed, [Next]_vars PROVE Typed'
  OBVIOUS
<1>1. CASE UNCHANGED vars
  <2>1. TypeInv' /\ ConnectTypeOK'
    BY <1>1, PortsStay, ConnStays DEF Typed, vars
  <2> QED
    BY <1>1, <2>1 DEF Typed, vars, loopVars, portVars, LoopTypeOK, Updating
<1> QED
  BY <1>1, TypedDirect, TypedRun, TypedCall, TypedBeginPass, TypedUpdatePort,
     TypedUpdateWire, TypedCallBack, TypedRunScript, TypedScheduleLive,
     TypedUpdateModule, TypedNextModule, TypedPassed DEF Next

LEMMA TypedInvariant == Spec => []Typed
  BY TypedInit, TypedStep, PTL DEF Spec

(* Whatever the circuit and the scripts of its modules, every index of the *)
(* loop and of the updates is inside the sequence it is used on, and the   *)
(* numbers a callback is given find a port of the registry.                *)
THEOREM LoopTypes == Spec => []TypeOK
<1>1. Typed => TypeOK
  BY DEF Typed, TypeInv, TypeOK
<1> QED
  BY <1>1, TypedInvariant, PTL

-----------------------------------------------------------------------------
(* The promise of a cycle.  A module's update() runs in the first pass     *)
(* only, which is told by a char that counts the passes: the promise holds *)
(* as long as no cycle takes more passes than the char can tell apart.     *)
CounterHolds == ~(pc = "passed" /\ driven /\ sub_refresh_count = SubMod - 1)

(* How many modules have been updated, from where the loop is.             *)
Progress ==
  /\ pc \in {"construct", "run", "cycle"} => ran = <<>> /\ sub_refresh_count = 0
  /\ pc = "pass" =>
       IF sub_refresh_count = 0 THEN ran = <<>> ELSE Len(ran) = Len(Modules)
  /\ pc = "ports" =>
       IF sub_refresh_count = 0 THEN Len(ran) = mod - 1 ELSE Len(ran) = Len(Modules)
  /\ pc = "update" => Len(ran) = mod /\ sub_refresh_count = 0
  /\ pc = "passed" => Len(ran) = Len(Modules)

LEMMA ProgressInit == Init => Progress
  BY DEF Init, Progress

LEMMA LoopStays ==
  ASSUME Progress, UNCHANGED <<pc, mod, sub_refresh_count, ran>> PROVE Progress'
  BY DEF Progress

LEMMA ProgressStep == Typed /\ Progress /\ CounterHolds /\ [Next]_vars => Progress'
<1> SUFFICES ASSUME Typed, Progress, CounterHolds, [Next]_vars PROVE Progress'
  OBVIOUS
<1>1. CASE UNCHANGED <<pc, mod, sub_refresh_count, ran>>
  BY <1>1, LoopStays
<1>2. CASE Run
  BY <1>2 DEF Progress, Run
<1>3. CASE ConnectAllReturns
  BY <1>3 DEF Progress, ConnectAllReturns
<1>4. CASE BeginPass
  BY <1>4, EmptySeq DEF Progress, BeginPass
<1>5. CASE UpdateModule
  <2>1. Len(ran) = mod - 1 /\ sub_refresh_count = 0
    BY <1>5 DEF Progress, UpdateModule, PortsDone, FirstPass
  <2>2. Len(ran') = Len(ran) + 1
    BY <1>5 DEF UpdateModule, Typed, LoopTypeOK
  <2>3. Len(ran') = mod
    BY <2>1, <2>2, Placed DEF Typed
  <2> QED
    BY <1>5, <2>1, <2>3 DEF Progress, UpdateModule
<1>6. CASE NextModule
  <2>1. /\ \/ pc = "ports" /\ sub_refresh_count # 0 /\ Len(ran) = Len(Modules)
           \/ pc = "update" /\ sub_refresh_count = 0 /\ Len(ran) = mod
        /\ UNCHANGED <<ran, sub_refresh_count>>
    BY <1>6 DEF Progress, NextModule, PortsDone, FirstPass
  <2>2. CASE mod < Len(Modules)
    <3>1. pc' = "ports" /\ mod' = mod + 1 /\ mod' - 1 = mod
      BY <1>6, <2>2, Placed DEF NextModule, Typed
    <3> QED
      BY <2>1, <3>1 DEF Progress
  <2>3. CASE ~(mod < Len(Modules))
    <3>1. pc' = "passed" /\ mod = Len(Modules)
      BY <1>6, <2>3, Placed DEF NextModule, Typed
    <3> QED
      BY <2>1, <3>1 DEF Progress
  <2> QED
    BY <2>2, <2>3
<1>7. CASE PassAgain
  <2>1. /\ pc = "passed" /\ driven /\ pc' = "pass" /\ ran' = ran
        /\ sub_refresh_count' = (sub_refresh_count + 1) % SubMod
    BY <1>7 DEF PassAgain
  <2>2. /\ SubMod \in Nat \ {0} /\ sub_refresh_count \in 0 .. SubMod - 1
        /\ sub_refresh_count # SubMod - 1
    BY <2>1, RefresherAssumption DEF Typed, LoopTypeOK, CounterHolds
  <2>3. sub_refresh_count' = sub_refresh_count + 1 /\ sub_refresh_count' # 0
    BY <2>1, <2>2
  <2> QED
    BY <2>1, <2>3 DEF Progress
<1>8. CASE EndCycle
  BY <1>8 DEF Progress, EndCycle
<1> QED
  BY <1>1, <1>2, <1>3, <1>4, <1>5, <1>6, <1>7, <1>8
     DEF Next, ConnectDirect, CallConnectAll, UpdatePort, UpdateWire, CallBack,
         CallBackReturns, RunScript, ScheduleLive, loopVars, vars

(* Every step of the loop is a step of module Cycle, or none of its        *)
(* variables changes.                                                      *)
LEMMA StepPromised ==
  Typed /\ Progress /\ [Next]_vars => [Promise!Next]_<<refresh_cycle, ran>>
<1> SUFFICES ASSUME Typed, Progress, [Next]_vars
             PROVE  Promise!Next \/ UNCHANGED <<refresh_cycle, ran>>
  OBVIOUS
<1>1. CASE UpdateModule
  <2>1. /\ Len(ran) = mod - 1 /\ ran' = Append(ran, mod) /\ refresh_cycle' = refresh_cycle
    BY <1>1 DEF Progress, UpdateModule, PortsDone, FirstPass
  <2>2. Len(ran) < Len(Modules) /\ Len(ran) + 1 = mod
    BY <2>1, Placed DEF Typed
  <2>3. Promise!UpdateNext
    BY <2>1, <2>2 DEF Promise!UpdateNext
  <2> QED
    BY <2>3 DEF Promise!Next
<1>2. CASE EndCycle
  <2>1. Promise!EndCycle
    BY <1>2 DEF Progress, EndCycle, Promise!EndCycle
  <2> QED
    BY <2>1 DEF Promise!Next
<1>3. CASE UNCHANGED <<refresh_cycle, ran>>
  BY <1>3
<1> QED
  BY <1>1, <1>2, <1>3
     DEF Next, ConnectDirect, Run, CallConnectAll, ConnectAllReturns, BeginPass, UpdatePort,
         UpdateWire, CallBack, CallBackReturns, RunScript, ScheduleLive, NextModule,
         PassAgain, loopVars, vars

(* The safety part of KeepsPromise: for every circuit, as long as no cycle *)
(* takes more passes than sub_refresh_count can count, each cycle calls    *)
(* each module's update() once, in the order the modules were declared,    *)
(* however many passes the drives make necessary.                          *)
THEOREM CyclesInOrder ==
  Spec /\ []CounterHolds => Promise!Init /\ [][Promise!Next]_<<refresh_cycle, ran>>
<1>1. Spec /\ []CounterHolds => []Progress
  BY ProgressInit, ProgressStep, TypedInvariant, PTL DEF Spec
<1>2. Init => Promise!Init
  BY DEF Init, Promise!Init
<1> QED
  BY <1>1, <1>2, StepPromised, TypedInvariant, PTL DEF Spec

-----------------------------------------------------------------------------
(* The port layer under the loop: the links a circuit can make are those   *)
(* of its constructors and those that its requests find.                   *)
LEMMA CircuitPorts ==
  ASSUME NEW l \in CircuitLinks
  PROVE  l[1] \in Port /\ l[2] \in Port /\ l = <<l[1], l[2]>>
  BY PortAssumption DEF CircuitLinks

LEMMA LinkEffect ==
  ASSUME Typed, ConnectDirect \/ ConnectFound
  PROVE  UNCHANGED portVars \/ \E l \in CircuitLinks : Connect(l[1], l[2])
<1>1. CASE ConnectDirect
  <2>1. Head(links) \in Links
    BY <1>1 DEF Typed, LoopTypeOK, ConnectDirect
  <2> QED
    BY <1>1, <2>1 DEF ConnectDirect, CircuitLinks
<1>2. CASE ConnectFound
  <2>1. Scanned \in Request /\ conn.found \in DOMAIN Scanned.found
    BY <1>2, PlacesOfRequests, ScannedRequest DEF Typed, ConnectFound
  <2> DEFINE l == Linking(Scanned, Scanned.found[conn.found])
  <2>2. l \in Port \X Port
    BY <2>1, ConnectAssumption DEF Linking
  <2>3. l \in CircuitLinks
    BY <2>1, <2>2 DEF CircuitLinks
  <2>4. Connect(l[1], l[2]) \/ UNCHANGED portVars
    BY <1>2 DEF ConnectFound
  <2> HIDE DEF l
  <2> QED
    BY <2>3, <2>4
<1> QED
  BY <1>1, <1>2

UpdateStep ==
  (\E p \in Port : BeginUpdate(p)) \/ CheckWire \/ RaiseSignal \/ SignalReturns

(* What a step of the simulator does to ports and wires.                   *)
LEMMA PortEffect ==
  ASSUME Typed, [Next]_vars
  PROVE  \/ \E l \in CircuitLinks : Connect(l[1], l[2])
         \/ \E c \in DriveCalls : Drive(c)
         \/ UpdateStep
         \/ UNCHANGED <<heap, wires, dirty, freed>>
<1>1. CASE ConnectDirect \/ ConnectFound
  BY <1>1, LinkEffect DEF portVars
<1>2. CASE (CallConnectAll /\ ~ConnectFound) \/ ConnectAllReturns
  BY <1>2
     DEF CallConnectAll, ConnectAllReturns, BeginConnectAll, ConnectStep, NextRequest, EndScan,
         EraseNoted, ErasePastEnd, EndErase, ConnectReturns, portVars
<1>3. CASE RunScript
  <2>1. Head(script) \in DriveCalls
    BY <1>3 DEF Typed, LoopTypeOK, RunScript, Script
  <2> QED
    BY <1>3, <2>1 DEF RunScript, portVars
<1>4. CASE UpdatePort
  <2>1. Modules[mod][next] \in Port
    BY <1>4, Placed DEF Typed, UpdatePort
  <2> QED
    BY <1>4, <2>1 DEF UpdatePort, UpdateStep
<1>5. CASE UpdateWire \/ CallBack \/ CallBackReturns
  BY <1>5 DEF UpdateWire, CallBack, CallBackReturns, UpdateStep
<1>6. CASE UNCHANGED <<heap, wires, dirty, freed>>
  BY <1>6
<1> QED
  BY <1>1, <1>2, <1>3, <1>4, <1>5, <1>6
     DEF Next, Run, BeginPass, ScheduleLive, Schedule, UpdateModule, NextModule, PassAgain,
         EndCycle, vars, portVars

LEMMA UpdateIsPortStep == UpdateStep => [PortNext]_portVars
  BY DEF UpdateStep, PortNext

Memory == VectorsOwned /\ RegsOwn /\ GoodWires

LEMMA MemoryInit == Init => Memory
<1> SUFFICES ASSUME Init PROVE Memory
  OBVIOUS
<1>1. VectorsOwned /\ RegsOwn
  BY DEF Init, VectorsOwned, RegsOwn
<1>2. GoodWires
  BY GoodNew DEF Init, GoodWires
<1> QED
  BY <1>1, <1>2 DEF Memory

LEMMA MemoryStep == Typed /\ Memory /\ [Next]_vars => Memory'
<1> SUFFICES ASSUME Typed, Memory, [Next]_vars PROVE Memory'
  OBVIOUS
<1>1. TypeInv /\ VectorsOwned /\ RegsOwn /\ WireInv
  BY DEF Typed, Memory, WireInv
<1>2. ASSUME NEW l \in CircuitLinks, Connect(l[1], l[2]) PROVE Memory'
  <2>1. l[1] \in Port /\ l[2] \in Port
    BY CircuitPorts
  <2> QED
    BY <1>1, <1>2, <2>1, OwnedConnect, RegsConnect, GoodConnect DEF Memory
<1>3. ASSUME NEW c \in DriveCalls, Drive(c) PROVE Memory'
  <2>1. GoodWires'
    BY <1>1, <1>3, GoodDrive
  <2>2. VectorsOwned' /\ RegsOwn'
    BY <1>1, <1>3 DEF Drive, VectorsOwned, RegsOwn
  <2> QED
    BY <2>1, <2>2 DEF Memory
<1>4. CASE UpdateStep
  BY <1>1, <1>4, UpdateIsPortStep, OwnedNext, RegsNext, GoodNext DEF Memory
<1>5. CASE UNCHANGED <<heap, wires, dirty, freed>>
  BY <1>5 DEF Memory, VectorsOwned, RegsOwn, GoodWires
<1> QED
  BY <1>2, <1>3, <1>4, <1>5, PortEffect

LEMMA MemoryInvariant == Spec => []Memory
  BY MemoryInit, MemoryStep, TypedInvariant, PTL DEF Spec

(* What is proved of the port layer alone holds under the loop: in every   *)
(* circuit without assignments whose links join ports of equal width,      *)
(* whenever the links are made, a vector is deleted once, only the port    *)
(* that allocated it drives it, a driven wire has the edge of its value,   *)
(* and countdowns stay within their counts.                                *)
THEOREM WiresUnderLoop ==
  Spec => [](VectorsOwned /\ OneDriver /\ EdgeIsOfValue /\ CountBounded)
<1>1. Memory => VectorsOwned /\ OneDriver /\ EdgeIsOfValue /\ CountBounded
  BY DEF Memory, GoodWires, GoodWire, DrivenByOwner, EdgeShowsValue, CountsDown,
         OneDriver, EdgeIsOfValue, CountBounded
<1> QED
  BY <1>1, MemoryInvariant, PTL

LEMMA OriginStep ==
  ASSUME FlatCircuit
  PROVE  Typed /\ LinkOrigin(CircuitLinks) /\ [Next]_vars => LinkOrigin(CircuitLinks)'
<1> SUFFICES ASSUME Typed, LinkOrigin(CircuitLinks), [Next]_vars
             PROVE  LinkOrigin(CircuitLinks)'
  OBVIOUS
<1>1. ASSUME NEW l \in CircuitLinks, Connect(l[1], l[2]) PROVE LinkOrigin(CircuitLinks)'
  BY <1>1, CircuitPorts, OriginConnect DEF Typed, FlatCircuit, Flat
<1>2. ASSUME UNCHANGED <<wires, dirty>> PROVE LinkOrigin(CircuitLinks)'
  BY <1>2 DEF LinkOrigin
<1>3. UpdateStep => UNCHANGED <<wires, dirty>>
  BY DEF UpdateStep, BeginUpdate, CheckWire, RaiseSignal, SignalReturns
<1> QED
  BY <1>1, <1>2, <1>3, PortEffect DEF Drive

LEMMA OriginInvariant == ASSUME FlatCircuit PROVE Spec => []LinkOrigin(CircuitLinks)
<1>1. Init => LinkOrigin(CircuitLinks)
  BY DEF Init, LinkOrigin
<1> QED
  BY <1>1, OriginStep, TypedInvariant, PTL DEF Spec

LEMMA NeverDangles ==
  ASSUME FlatCircuit, Typed, Memory, LinkOrigin(CircuitLinks) PROVE NoDangling
  BY OriginSafe DEF Typed, Memory, FlatCircuit, Flat

(* If no port of the circuit is a source of one link and a destination of  *)
(* another, whether constructors or requests make them, no port ever       *)
(* points to a deleted vector.                                             *)
THEOREM CircuitIsSafe == ASSUME FlatCircuit PROVE Spec => []NoDangling
  BY NeverDangles, OriginInvariant, TypedInvariant, MemoryInvariant, PTL

-----------------------------------------------------------------------------
(* The course of a pass.  Ahead is the set of the ports that it has not    *)
(* begun to update.                                                        *)
Later(m, k) == m > mod \/ (m = mod /\ k >= next)

Ahead ==
  {p \in Port :
     /\ pc \in {"ports", "update"}
     /\ \E m \in Module : \E k \in DOMAIN Modules[m] : Modules[m][k] = p /\ Later(m, k)}

(* User code runs in an update() or in a callback and nowhere else; links  *)
(* are made before the passes, when nothing is driven.                     *)
Phase ==
  /\ pc = "update" => next > Len(Modules[mod])
  /\ pc \notin {"run", "cycle"} => conn.at = "idle"
  /\ pc \in {"construct", "run", "cycle"} => ~driven
  /\ signals = Sensitivity
  /\ script # <<>> => pc = "update" \/ frame.raised

LEMMA PositionOnce ==
  ASSUME NEW m \in Module, NEW n \in Module,
         NEW k \in DOMAIN Modules[m], NEW l \in DOMAIN Modules[n],
         Modules[m][k] = Modules[n][l]
  PROVE  m = n /\ k = l
  BY RefresherAssumption

LEMMA Positions ==
  ASSUME NEW m \in Module
  PROVE  /\ m \in Nat /\ Len(Modules[m]) \in Nat
         /\ DOMAIN Modules[m] = 1 .. Len(Modules[m])
         /\ \A k \in DOMAIN Modules[m] : Modules[m][k] \in Port
<1>1. Modules \in Seq(Seq(Port))
  BY RefresherAssumption
<1>2. Module = 1 .. Len(Modules) /\ Len(Modules) \in Nat
  BY <1>1, LenProperties DEF Module
<1>3. Modules[m] \in Seq(Port)
  BY <1>1, <1>2, ElementOfSeq
<1> QED
  BY <1>2, <1>3, LenProperties, ElementOfSeq

LEMMA PhaseInit == Init => Phase
  BY DEF Init, Phase, NotConnecting

(* An update is under way in the ports of a module only.                   *)
LEMMA Raised == ASSUME Typed, frame.raised PROVE frame.port # NoPort /\ pc = "ports"
  BY IdleFrame DEF Typed, Updating, Idle

LEMMA PhaseStep == Typed /\ Phase /\ [Next]_vars => Phase'
<1> SUFFICES ASSUME Typed, Phase, [Next]_vars PROVE Phase'
  OBVIOUS
<1>1. CASE ConnectDirect
  BY <1>1 DEF Phase, ConnectDirect, Connect, connVars
<1>2. CASE Run
  BY <1>2 DEF Phase, Run, portVars, connVars
<1>3. CASE CallConnectAll
  <2>1. UNCHANGED <<signals, driven, frame>>
    BY <1>3 DEF CallConnectAll, BeginConnectAll, ConnectStep, ConnectFound, NextRequest, EndScan,
                EraseNoted, ErasePastEnd, EndErase, Connect, portVars
  <2> QED
    BY <1>3, <2>1 DEF Phase, CallConnectAll, loopVars
<1>4. CASE ConnectAllReturns
  <2>1. conn'.at = "idle" /\ UNCHANGED <<signals, driven, frame, script>> /\ script = <<>>
    BY <1>4, Raised DEF Phase, ConnectAllReturns, ConnectReturns, NotConnecting, portVars
  <2>2. pc' \in {"cycle", "pass"} /\ ~driven
    BY <1>4 DEF Phase, ConnectAllReturns
  <2> QED
    BY <2>1, <2>2 DEF Phase
<1>5. CASE BeginPass
  BY <1>5, Raised DEF Phase, BeginPass, connVars
<1>6. CASE UpdatePort
  <2>1. frame = Idle /\ script = <<>>
    BY <1>6 DEF Phase, UpdatePort, BeginUpdate, Idle
  <2> QED
    BY <1>6, <2>1 DEF Phase, UpdatePort, BeginUpdate, connVars
<1>7. CASE UpdateWire \/ CallBackReturns
  <2>1. script = <<>>
    BY <1>7 DEF Phase, Typed, Updating, UpdateWire, CheckWire, CallBackReturns
  <2> QED
    BY <1>7, <2>1
       DEF Phase, UpdateWire, CheckWire, CallBackReturns, SignalReturns, connVars, loopVars
<1>8. CASE CallBack
  <2>1. frame'.raised /\ UNCHANGED <<pc, mod, next, conn, driven, signals>>
    BY <1>8, Updated DEF CallBack, RaiseSignal, connVars, Typed
  <2> QED
    BY <2>1 DEF Phase
<1>9. CASE RunScript
  <2>1. UNCHANGED <<frame, signals>> /\ script # <<>>
    BY <1>9 DEF RunScript, Drive, portVars
  <2>2. pc \in {"update", "ports"}
    BY <2>1, Raised DEF Phase
  <2> QED
    BY <1>9, <2>1, <2>2 DEF Phase, RunScript, connVars
<1>10. CASE ScheduleLive
  BY <1>10 DEF Phase, ScheduleLive, Schedule, loopVars, portVars
<1>11. CASE UpdateModule
  BY <1>11 DEF Phase, UpdateModule, PortsDone, portVars, connVars
<1>12. CASE NextModule
  <2>1. script = <<>> /\ pc' \in {"ports", "passed"} /\ conn.at = "idle"
    BY <1>12 DEF Phase, NextModule, PortsDone, Idle
  <2> QED
    BY <1>12, <2>1 DEF Phase, NextModule, portVars, connVars
<1>13. CASE PassAgain \/ EndCycle
  <2>1. script = <<>> /\ pc' \in {"pass", "cycle"} /\ conn.at = "idle"
    BY <1>13, Raised DEF Phase, PassAgain, EndCycle
  <2>2. pc' = "cycle" => ~driven
    BY <1>13 DEF PassAgain, EndCycle
  <2> QED
    BY <1>13, <2>1, <2>2 DEF Phase, PassAgain, EndCycle, portVars, connVars
<1>14. CASE UNCHANGED vars
  BY <1>14 DEF Phase, vars, portVars, connVars, loopVars
<1> QED
  BY <1>1, <1>2, <1>3, <1>4, <1>5, <1>6, <1>7, <1>8, <1>9, <1>10, <1>11, <1>12, <1>13,
     <1>14 DEF Next

(* What a step does to Ahead.                                              *)
LEMMA NothingAhead == ASSUME pc \notin {"ports", "update"} PROVE Ahead = {}
  BY DEF Ahead

LEMMA AheadStays ==
  ASSUME pc \in {"ports", "update"} <=> pc' \in {"ports", "update"}, UNCHANGED <<mod, next>>
  PROVE  Ahead' = Ahead
  BY DEF Ahead, Later

LEMMA AllAhead == ASSUME BeginPass PROVE Ahead' = Port
<1>1. ASSUME NEW p \in Port PROVE p \in Ahead'
  <2>1. PICK m \in Module : \E k \in DOMAIN Modules[m] : Modules[m][k] = p
    BY RefresherAssumption
  <2>2. PICK k \in DOMAIN Modules[m] : Modules[m][k] = p
    BY <2>1
  <2>3. m \in Module /\ m \in Nat /\ 1 <= m /\ k \in Nat /\ 1 <= k
    <3>1. Len(Modules) \in Nat /\ Module = 1 .. Len(Modules)
      BY RefresherAssumption, LenProperties DEF Module
    <3> QED
      BY <3>1, Positions
  <2>4. Later(m, k)'
    BY <2>3 DEF BeginPass, Later
  <2> QED
    BY <2>2, <2>4 DEF Ahead, BeginPass
<1> QED
  BY <1>1 DEF Ahead

LEMMA OneLessAhead ==
  ASSUME Typed, UpdatePort
  PROVE  /\ Modules[mod][next] \in Ahead
         /\ Ahead' = Ahead \ {Modules[mod][next]}
<1>1. mod \in Module /\ next \in DOMAIN Modules[mod] /\ Modules[mod][next] \in Port
  BY Placed, Positions DEF Typed, UpdatePort, LoopTypeOK
<1>2. mod \in Nat /\ next \in Nat /\ mod' = mod /\ next' = next + 1 /\ pc = "ports" /\ pc' = "ports"
  BY Placed DEF Typed, UpdatePort
<1>3. Modules[mod][next] \in Ahead
  BY <1>1, <1>2 DEF Ahead, Later
<1>4. \A m \in Module : \A k \in DOMAIN Modules[m] :
        Later(m, k)' <=> Later(m, k) /\ ~(m = mod /\ k = next)
  BY <1>2, Positions DEF Later
<1>5. ASSUME NEW p \in Port PROVE p \in Ahead' <=> p \in Ahead /\ p # Modules[mod][next]
  <2>1. ASSUME p \in Ahead' PROVE p \in Ahead /\ p # Modules[mod][next]
    <3>1. PICK m \in Module : \E k \in DOMAIN Modules[m] : Modules[m][k] = p /\ Later(m, k)'
      BY <2>1 DEF Ahead
    <3>2. PICK k \in DOMAIN Modules[m] : Modules[m][k] = p /\ Later(m, k)'
      BY <3>1
    <3>3. Later(m, k) /\ ~(m = mod /\ k = next)
      BY <1>4, <3>2
    <3> QED
      BY <1>1, <1>2, <3>2, <3>3, PositionOnce DEF Ahead
  <2>2. ASSUME p \in Ahead, p # Modules[mod][next] PROVE p \in Ahead'
    <3>1. PICK m \in Module : \E k \in DOMAIN Modules[m] : Modules[m][k] = p /\ Later(m, k)
      BY <2>2 DEF Ahead
    <3>2. PICK k \in DOMAIN Modules[m] : Modules[m][k] = p /\ Later(m, k)
      BY <3>1
    <3>3. Later(m, k)'
      BY <1>4, <2>2, <3>2
    <3> QED
      BY <1>2, <3>2, <3>3 DEF Ahead
  <2> QED
    BY <2>1, <2>2
<1>6. Ahead \subseteq Port /\ Ahead' \subseteq Port
  BY DEF Ahead
<1> QED
  BY <1>3, <1>5, <1>6

LEMMA NextModuleAhead == ASSUME Typed, Phase, NextModule PROVE Ahead' = Ahead
<1>1. /\ next > Len(Modules[mod]) /\ pc \in {"ports", "update"}
      /\ mod \in Nat /\ next \in Nat /\ mod \in Module /\ mod <= Len(Modules)
      /\ Len(Modules) \in Nat /\ Module = 1 .. Len(Modules)
  BY Placed DEF Typed, LoopTypeOK, Phase, NextModule, PortsDone
<1>2. \A m \in Module : \A k \in DOMAIN Modules[m] : Later(m, k) <=> m > mod
  BY <1>1, Positions DEF Later
<1>3. CASE mod < Len(Modules)
  <2>1. mod' = mod + 1 /\ next' = 1 /\ pc' = "ports"
    BY <1>3 DEF NextModule
  <2>2. \A m \in Module : \A k \in DOMAIN Modules[m] : Later(m, k)' <=> m > mod
    BY <1>1, <2>1, Positions DEF Later
  <2> QED
    BY <1>1, <1>2, <2>1, <2>2 DEF Ahead
<1>4. CASE ~(mod < Len(Modules))
  <2>1. Ahead' = {}
    BY <1>4 DEF NextModule, Ahead
  <2>2. Ahead = {}
    BY <1>1, <1>2, <1>4 DEF Ahead
  <2> QED
    BY <2>1, <2>2
<1> QED
  BY <1>3, <1>4

(* The port under update is not ahead; nor is one that was updated before  *)
(* it, nor, in a module's update(), a port of that module or of an earlier.*)
LEMMA FrontPlace ==
  ASSUME Typed, frame.port # NoPort
  PROVE  /\ frame.port \in Port
         /\ mod \in Module /\ mod \in Nat
         /\ next - 1 \in DOMAIN Modules[mod] /\ next \in Nat
         /\ Modules[mod][next - 1] = frame.port
  BY Placed, Updated DEF Typed, Updating, LoopTypeOK

LEMMA FrontNotAhead == ASSUME Typed, frame.port # NoPort PROVE frame.port \notin Ahead
<1> SUFFICES ASSUME NEW m \in Module, NEW k \in DOMAIN Modules[m],
                    Modules[m][k] = frame.port, Later(m, k)
             PROVE  FALSE
  BY DEF Ahead
<1>1. m = mod /\ k = next - 1
  BY FrontPlace, PositionOnce
<1> QED
  BY <1>1, FrontPlace DEF Later

LEMMA BeforeFront ==
  ASSUME Typed, frame.port # NoPort, NEW q, UpdatedBefore(q, frame.port)
  PROVE  q \notin Ahead /\ q # frame.port
<1>1. PICK m \in Module, n \in Module :
        \E k \in DOMAIN Modules[m], l \in DOMAIN Modules[n] :
          /\ Modules[m][k] = q /\ Modules[n][l] = frame.port
          /\ m < n \/ (m = n /\ k < l)
  BY DEF UpdatedBefore
<1>2. PICK k \in DOMAIN Modules[m], l \in DOMAIN Modules[n] :
          /\ Modules[m][k] = q /\ Modules[n][l] = frame.port
          /\ m < n \/ (m = n /\ k < l)
  BY <1>1
<1>3. n = mod /\ l = next - 1
  BY <1>2, FrontPlace, PositionOnce
<1>4. m \in Nat /\ k \in Nat /\ mod \in Nat /\ next \in Nat
  BY Positions, FrontPlace
<1>5. ~Later(m, k) /\ ~(m = mod /\ k = next - 1)
  BY <1>2, <1>3, <1>4 DEF Later
<1>6. q # frame.port
  BY <1>2, <1>5, FrontPlace, PositionOnce
<1>7. q \notin Ahead
  <2> SUFFICES ASSUME NEW a \in Module, NEW b \in DOMAIN Modules[a],
                      Modules[a][b] = q, Later(a, b)
               PROVE  FALSE
    BY DEF Ahead
  <2>1. a = m /\ b = k
    BY <1>2, PositionOnce
  <2> QED
    BY <1>5, <2>1
<1> QED
  BY <1>6, <1>7

LEMMA UpToModule ==
  ASSUME Typed, next > Len(Modules[mod]), NEW q, UpdatedBy(q, mod)
  PROVE  q \notin Ahead
<1>1. PICK n \in 1 .. mod : \E k \in DOMAIN Modules[n] : Modules[n][k] = q
  BY DEF UpdatedBy
<1>2. PICK k \in DOMAIN Modules[n] : Modules[n][k] = q
  BY <1>1
<1>3. n \in Module /\ n \in Nat /\ n <= mod /\ mod \in Nat /\ next \in Nat
  BY Placed DEF Typed
<1>4. ~Later(n, k)
  BY <1>3, Positions DEF Later
<1> SUFFICES ASSUME NEW a \in Module, NEW b \in DOMAIN Modules[a],
                    Modules[a][b] = q, Later(a, b)
             PROVE  FALSE
  BY DEF Ahead
<1>5. a = n /\ b = k
  BY <1>2, <1>3, PositionOnce
<1> QED
  BY <1>4, <1>5

-----------------------------------------------------------------------------
(* The steps of a pass, by what they do to wires, to Ahead and to the      *)
(* update under way.                                                       *)
PassBegins ==
  /\ frame = Idle /\ Ahead = {} /\ Ahead' = Port /\ ~driven'
  /\ UNCHANGED <<heap, wires, dirty, freed, frame>>

PortBegins == \E p \in Ahead : BeginUpdate(p) /\ Ahead' = Ahead \ {p}

WireStep == (CheckWire \/ RaiseSignal \/ SignalReturns) /\ Ahead' = Ahead

UserStep == RunScript /\ Ahead' = Ahead

LinkStep ==
  /\ ConnectDirect \/ (CallConnectAll /\ ConnectFound)
  /\ frame = Idle /\ Ahead = {} /\ Ahead' = {} /\ ~driven

NoPortStep == UNCHANGED <<heap, wires, dirty, freed, frame, driven>> /\ Ahead' = Ahead

LEMMA PassSteps ==
  ASSUME Typed, Phase, [Next]_vars
  PROVE  \/ PassBegins \/ PortBegins \/ WireStep \/ UserStep \/ LinkStep \/ NoPortStep
<1>1. CASE BeginPass
  <2>1. frame = Idle
    BY <1>1, IdleFrame DEF Typed, Updating, BeginPass
  <2>2. Ahead = {} /\ Ahead' = Port
    BY <1>1, NothingAhead, AllAhead DEF BeginPass
  <2> QED
    BY <1>1, <2>1, <2>2 DEF BeginPass, PassBegins
<1>2. CASE UpdatePort
  BY <1>2, OneLessAhead DEF UpdatePort, PortBegins
<1>3. CASE UpdateWire \/ CallBack \/ CallBackReturns
  <2>1. Ahead' = Ahead
    BY <1>3, AheadStays DEF UpdateWire, CallBack, CallBackReturns, loopVars
  <2> QED
    BY <1>3, <2>1 DEF UpdateWire, CallBack, CallBackReturns, WireStep
<1>4. CASE RunScript
  BY <1>4, AheadStays DEF RunScript, UserStep
<1>5. CASE ConnectDirect \/ (CallConnectAll /\ ConnectFound)
  <2>1. pc \in {"construct", "run", "cycle"} /\ pc' = pc
    BY <1>5 DEF ConnectDirect, CallConnectAll, loopVars
  <2>2. frame = Idle
    BY <2>1, IdleFrame DEF Typed, Updating
  <2>3. Ahead = {} /\ Ahead' = {}
    BY <2>1 DEF Ahead
  <2> QED
    BY <1>5, <2>1, <2>2, <2>3 DEF Phase, LinkStep
<1>6. CASE (CallConnectAll /\ ~ConnectFound) \/ ConnectAllReturns
  <2>1. UNCHANGED portVars
    BY <1>6 DEF CallConnectAll, ConnectAllReturns, BeginConnectAll, ConnectStep, NextRequest,
                EndScan, EraseNoted, ErasePastEnd, EndErase, ConnectReturns
  <2>2. Ahead' = Ahead
    BY <1>6 DEF CallConnectAll, ConnectAllReturns, Ahead, loopVars
  <2> QED
    BY <2>1, <2>2 DEF NoPortStep, portVars
<1>7. CASE UpdateModule
  <2>1. Ahead' = Ahead
    BY <1>7, AheadStays DEF UpdateModule, PortsDone
  <2> QED
    BY <1>7, <2>1 DEF UpdateModule, NoPortStep, portVars
<1>8. CASE NextModule
  BY <1>8, NextModuleAhead DEF NextModule, NoPortStep, portVars
<1>9. CASE Run \/ PassAgain \/ EndCycle
  BY <1>9 DEF Run, PassAgain, EndCycle, Ahead, NoPortStep, portVars
<1>10. CASE ScheduleLive
  BY <1>10, AheadStays DEF ScheduleLive, Schedule, NoPortStep, portVars, loopVars
<1>11. CASE UNCHANGED vars
  BY <1>11, AheadStays DEF vars, portVars, loopVars, NoPortStep
<1> QED
  BY <1>1, <1>2, <1>3, <1>4, <1>5, <1>6, <1>7, <1>8, <1>9, <1>10, <1>11 DEF Next

(* The drives that are left to the running user code are of ports whose    *)
(* sharers have all been updated in this pass.                             *)
Visited(p) == p \notin Ahead /\ p # frame.port
SinksVisited(c) == Reg(c.port) => \A p \in CanShare(c.port) : Visited(p)

LateCalls == \A j \in DOMAIN script : SinksVisited(script[j])

LEMMA LateInit == Init => LateCalls
  BY DEF Init, LateCalls

LEMMA LateStays ==
  ASSUME LateCalls, script' = script, Ahead' = Ahead, frame'.port = frame.port
  PROVE  LateCalls'
  BY DEF LateCalls, SinksVisited, Visited

LEMMA LateEmpty == ASSUME script' = <<>> PROVE LateCalls'
  BY DEF LateCalls

LEMMA LateStep ==
  ASSUME DriversLast
  PROVE  Typed /\ Phase /\ LateCalls /\ [Next]_vars => LateCalls'
<1> SUFFICES ASSUME Typed, Phase, LateCalls, [Next]_vars PROVE LateCalls'
  OBVIOUS
<1>1. CASE UpdateModule
  <2>1. /\ frame = Idle /\ frame' = frame /\ next > Len(Modules[mod])
        /\ pc' = "update" /\ script' \in UpdateScripts[mod] /\ UNCHANGED <<mod, next>>
    BY <1>1 DEF UpdateModule, PortsDone, portVars
  <2>2. Ahead' = Ahead
    BY <1>1, AheadStays DEF UpdateModule, PortsDone
  <2>3. mod \in Module
    BY DEF Typed, LoopTypeOK
  <2> SUFFICES ASSUME NEW j \in DOMAIN script', Reg(script'[j].port),
                      NEW p \in CanShare(script'[j].port)
               PROVE  Visited(p)'
    BY DEF LateCalls, SinksVisited
  <2>4. UpdatedBy(p, mod)
    BY <2>1, <2>3 DEF DriversLast
  <2>5. p \notin Ahead
    BY <2>1, <2>4, UpToModule
  <2>6. p \in Port
    <3>1. UpdateScripts[mod] \subseteq Seq(DriveCalls)
      BY <2>3, RefresherAssumption DEF Script
    <3>2. script'[j] \in DriveCalls
      BY <2>1, <3>1, ElementOfSeq
    <3> QED
      BY <3>2, PortAssumption DEF CanShare
  <2> QED
    BY <2>1, <2>2, <2>5, <2>6, PortAssumption DEF Visited, Idle
<1>2. CASE CallBack
  <2>1. /\ frame.port # NoPort /\ frame'.port = frame.port
        /\ script' \in CallbackScripts[UpdatedSignal.raise]
        /\ UpdatedSignal.raise # NoCallback
    BY <1>2, Updated DEF Typed, CallBack, RaiseSignal, Raises
  <2>2. Ahead' = Ahead
    BY <1>2, AheadStays DEF CallBack
  <2>3. /\ frame.port \in Port /\ frame.wire \in Idx(frame.port)
        /\ UpdatedSignal = Sensitivity[frame.port][frame.wire]
    BY <2>1, FrontPlace, Updated DEF Typed, TypeInv, PortTypeOK, Phase, UpdatedSignal, Idle
  <2> SUFFICES ASSUME NEW j \in DOMAIN script', Reg(script'[j].port),
                      NEW p \in CanShare(script'[j].port)
               PROVE  Visited(p)'
    BY DEF LateCalls, SinksVisited
  <2>4. UpdatedBefore(p, frame.port)
    BY <2>1, <2>3 DEF DriversLast
  <2> QED
    BY <2>1, <2>2, <2>4, BeforeFront DEF Visited
<1>3. CASE RunScript
  <2>1. frame' = frame /\ Ahead' = Ahead /\ script' = Tail(script) /\ script # <<>>
    BY <1>3, AheadStays DEF RunScript, Drive, portVars
  <2>2. script \in Seq(DriveCalls)
    BY DEF Typed, LoopTypeOK, Script
  <2>3. \A j \in DOMAIN script' : j + 1 \in DOMAIN script /\ script'[j] = script[j + 1]
    BY <2>1, <2>2, HeadTailProperties
  <2>4. \A c : SinksVisited(c)' <=> SinksVisited(c)
    BY <2>1 DEF SinksVisited, Visited
  <2> QED
    BY <2>3, <2>4 DEF LateCalls
<1>4. CASE ScheduleLive
  BY <1>4, LateStays, AheadStays DEF ScheduleLive, Schedule, portVars, loopVars
<1>5. CASE NextModule
  BY <1>5, LateEmpty DEF NextModule, PortsDone, Phase, Idle
<1>6. CASE UpdateWire \/ CallBackReturns
  <2>1. script = <<>>
    BY <1>6 DEF Phase, Typed, Updating, UpdateWire, CheckWire, CallBackReturns
  <2> QED
    BY <1>6, <2>1, LateEmpty DEF UpdateWire, CallBackReturns, loopVars
<1>7. CASE UpdatePort
  <2>1. script = <<>>
    BY <1>7 DEF Phase, UpdatePort, BeginUpdate, Idle
  <2> QED
    BY <1>7, <2>1, LateEmpty DEF UpdatePort
<1>8. CASE ConnectDirect \/ Run \/ CallConnectAll \/ ConnectAllReturns \/ BeginPass
           \/ PassAgain \/ EndCycle
  <2>1. script = <<>>
    BY <1>8, Raised DEF Phase, ConnectDirect, Run, CallConnectAll, ConnectAllReturns, BeginPass,
                        PassAgain, EndCycle
  <2> QED
    BY <1>8, <2>1, LateEmpty
       DEF ConnectDirect, Run, CallConnectAll, ConnectAllReturns, BeginPass, PassAgain, EndCycle,
           loopVars
<1>9. CASE UNCHANGED vars
  BY <1>9, LateStays, AheadStays DEF vars, portVars, loopVars
<1> QED
  BY <1>1, <1>2, <1>3, <1>4, <1>5, <1>6, <1>7, <1>8, <1>9 DEF Next

-----------------------------------------------------------------------------
(* Who has still to check wire i of vector b in this pass, and who has     *)
(* still to reset its refcount.                                            *)
Checks(p, i) ==
  p \in Ahead \/ (p = frame.port /\ (i > frame.wire \/ (i = frame.wire /\ ~frame.raised)))

Releases(p, i) == p \in Ahead \/ (p = frame.port /\ i >= frame.wire)

Unchecked(b, i) == {p \in Sharers(b) : Checks(p, i)}

Unreleased(b, i) == {p \in Sharers(b) : Releases(p, i)}

Course == Typed /\ Memory /\ LinkOrigin(CircuitLinks) /\ Phase /\ LateCalls

(* A live vector is that of its port, and is shared only by links.         *)
LEMMA LiveVector ==
  ASSUME FlatCircuit, Course, NEW b \in Port \ freed
  PROVE  dirty[b] /\ wires[b] = b /\ b \in Sharers(b) /\ Sharers(b) \subseteq CanShare(b)
<1>1. dirty[b] /\ wires[b] = b
  BY DEF Course, Memory, VectorsOwned
<1>2. ASSUME NEW p \in Sharers(b) PROVE p \in CanShare(b)
  BY DEF Sharers, CanShare, Course, LinkOrigin
<1> QED
  BY <1>1, <1>2 DEF Sharers

LEMMA NobodyLeft ==
  ASSUME NEW b, \A p \in Sharers(b) : Visited(p)
  PROVE  \A i : Unchecked(b, i) = {} /\ Unreleased(b, i) = {}
  BY DEF Visited, Unchecked, Unreleased, Checks, Releases

LEMMA OutsidePass ==
  ASSUME frame = Idle, Ahead = {} PROVE \A b, i : Unchecked(b, i) = {} /\ Unreleased(b, i) = {}
<1>1. \A p \in Port : p # frame.port
  BY PortAssumption DEF Idle
<1> QED
  BY <1>1 DEF Unchecked, Unreleased, Checks, Releases, Sharers

LEMMA BeforePass ==
  ASSUME Ahead' = Port
  PROVE  \A b, i : Unchecked(b, i)' = Sharers(b)' /\ Unreleased(b, i)' = Sharers(b)'
  BY DEF Unchecked, Unreleased, Checks, Releases, Sharers

LEMMA SetsStay ==
  ASSUME UNCHANGED <<wires, frame>>, Ahead' = Ahead
  PROVE  \A b, i : /\ Sharers(b)' = Sharers(b)
                   /\ Unchecked(b, i)' = Unchecked(b, i)
                   /\ Unreleased(b, i)' = Unreleased(b, i)
  BY DEF Sharers, Unchecked, Unreleased, Checks, Releases

(* A port whose update begins has all its wires to check and to release.   *)
LEMMA BeginSets ==
  ASSUME NEW p \in Port, p \in Ahead, BeginUpdate(p), Ahead' = Ahead \ {p},
         NEW b \in Port, NEW i \in Idx(b)
  PROVE  /\ Sharers(b)' = Sharers(b)
         /\ Unchecked(b, i)' = Unchecked(b, i)
         /\ Unreleased(b, i)' = Unreleased(b, i)
<1>1. frame = Idle /\ frame'.port = p /\ frame'.wire = 0 /\ frame'.raised = FALSE /\ wires' = wires
  BY DEF BeginUpdate, Idle
<1>2. i \in Nat /\ (i > 0 \/ i = 0) /\ i >= 0
  BY PortAssumption DEF Idx
<1>3. \A q \in Port : Checks(q, i)' <=> Checks(q, i)
  BY <1>1, <1>2, PortAssumption DEF Checks, Idle
<1>4. \A q \in Port : Releases(q, i)' <=> Releases(q, i)
  BY <1>1, <1>2, PortAssumption DEF Releases, Idle
<1> QED
  BY <1>1, <1>3, <1>4 DEF Sharers, Unchecked, Unreleased

(* What an update of one wire leaves to be done.                           *)
Here(b, i) == b = wires[frame.port] /\ i = frame.wire

LEMMA HereLeft ==
  ASSUME Typed, frame.port # NoPort
  PROVE  LET b == wires[frame.port]
             i == frame.wire
         IN  /\ b \in Port /\ i \in Idx(b) /\ frame.port \in Sharers(b)
             /\ frame.port \in Unreleased(b, i)
             /\ frame.port \in Unchecked(b, i) <=> ~frame.raised
<1>1. /\ frame.port \in Port /\ frame.port \notin Ahead /\ frame.wire \in Nat
      /\ wires[frame.port] \in Port /\ frame.wire \in Idx(wires[frame.port])
  BY FrontPlace, FrontNotAhead, Updated DEF Typed
<1> QED
  BY <1>1 DEF Sharers, Unreleased, Unchecked, Releases, Checks

LEMMA WireDone ==
  ASSUME Typed, frame.port # NoPort, frame' = NextFrame, wires' = wires, Ahead' = Ahead,
         NEW b \in Port, NEW i \in Idx(b)
  PROVE  /\ Sharers(b)' = Sharers(b)
         /\ Unchecked(b, i)' = IF Here(b, i) THEN Unchecked(b, i) \ {frame.port}
                               ELSE Unchecked(b, i)
         /\ Unreleased(b, i)' = IF Here(b, i) THEN Unreleased(b, i) \ {frame.port}
                                ELSE Unreleased(b, i)
<1>0. PICK p \in Port : p = frame.port
  BY FrontPlace
<1> DEFINE j == frame.wire
           n == Width[wires[frame.port]]
<1>1. /\ p \in Port /\ p \notin Ahead /\ j \in Nat /\ n \in Nat /\ j < n /\ i \in Nat
      /\ wires[p] \in Port
      /\ frame \in [port : Port, wire : Nat, called : SUBSET Signal, raised : BOOLEAN]
  BY <1>0, FrontPlace, FrontNotAhead, Updated, IdxInterval DEF Typed, Idx
<1>2. ASSUME NEW q \in Port, q # p
      PROVE  (Checks(q, i)' <=> Checks(q, i)) /\ (Releases(q, i)' <=> Releases(q, i))
  <2>1. frame'.port \in {p, NoPort}
    BY <1>0, <1>1 DEF NextFrame, Idle
  <2> QED
    BY <1>0, <1>1, <1>2, <2>1, PortAssumption DEF Checks, Releases
<1>3. ASSUME wires[p] = b
      PROVE  (Checks(p, i)' <=> i > j) /\ (Releases(p, i)' <=> i > j)
  <2>1. i < n
    BY <1>0, <1>1, <1>3 DEF Idx
  <2>2. CASE j + 1 < n
    <3>1. frame'.port = p /\ frame'.wire = j + 1 /\ ~frame'.raised
      BY <1>0, <1>1, <2>2 DEF NextFrame
    <3>2. (i > j + 1 \/ i = j + 1) <=> i > j
      BY <1>1
    <3>3. i >= j + 1 <=> i > j
      BY <1>1
    <3> QED
      BY <1>1, <3>1, <3>2, <3>3 DEF Checks, Releases
  <2>3. CASE ~(j + 1 < n)
    <3>1. frame'.port = NoPort
      BY <2>3 DEF NextFrame, Idle
    <3>2. ~(i > j) /\ p # frame'.port
      BY <1>1, <2>1, <2>3, <3>1, PortAssumption
    <3>3. ~Checks(p, i)' /\ ~Releases(p, i)'
      BY <1>1, <3>2 DEF Checks, Releases
    <3> QED
      BY <3>2, <3>3
  <2> QED
    BY <2>2, <2>3
<1>4. /\ Checks(p, i) <=> (i > j \/ (i = j /\ ~frame.raised))
      /\ Releases(p, i) <=> (i > j \/ i = j)
  BY <1>0, <1>1 DEF Checks, Releases
<1> HIDE DEF j, n
<1>5. Sharers(b)' = Sharers(b)
  BY DEF Sharers
<1>6. p \in Sharers(b) <=> wires[p] = b
  BY <1>1 DEF Sharers
<1>7. Here(b, i) <=> b = wires[p] /\ i = j
  BY <1>0 DEF Here, j
<1>8. ~(j > j)
  BY <1>1
<1>9. ASSUME NEW q \in Sharers(b)
      PROVE  /\ Checks(q, i)' <=> Checks(q, i) /\ ~(Here(b, i) /\ q = p)
             /\ Releases(q, i)' <=> Releases(q, i) /\ ~(Here(b, i) /\ q = p)
  <2>1. CASE q # p
    BY <1>2, <2>1 DEF Sharers
  <2>2. CASE q = p
    <3>1. wires[p] = b
      BY <1>6, <2>2
    <3>2. (Checks(p, i)' <=> i > j) /\ (Releases(p, i)' <=> i > j)
      BY <1>3, <3>1
    <3>3. Here(b, i) <=> i = j
      BY <1>7, <3>1
    <3> QED
      BY <1>4, <1>8, <2>2, <3>2, <3>3
  <2> QED
    BY <2>1, <2>2
<1>10. Unchecked(b, i)' = IF Here(b, i) THEN Unchecked(b, i) \ {p} ELSE Unchecked(b, i)
  BY <1>5, <1>9 DEF Unchecked
<1>11. Unreleased(b, i)' = IF Here(b, i) THEN Unreleased(b, i) \ {p} ELSE Unreleased(b, i)
  BY <1>5, <1>9 DEF Unreleased
<1> QED
  BY <1>0, <1>5, <1>10, <1>11

LEMMA WireRaised ==
  ASSUME Typed, frame.port # NoPort, ~frame.raised, wires' = wires, Ahead' = Ahead,
         frame' = [frame EXCEPT !.raised = TRUE, !.called = @ \cup {UpdatedSignal}],
         NEW b \in Port, NEW i \in Idx(b)
  PROVE  /\ Sharers(b)' = Sharers(b)
         /\ Unchecked(b, i)' = IF Here(b, i) THEN Unchecked(b, i) \ {frame.port}
                               ELSE Unchecked(b, i)
         /\ Unreleased(b, i)' = Unreleased(b, i)
<1>1. /\ frame.port \in Port /\ frame.port \notin Ahead /\ frame.wire \in Nat /\ i \in Nat
      /\ frame \in [port : Port, wire : Nat, called : SUBSET Signal, raised : BOOLEAN]
  BY FrontPlace, FrontNotAhead, Updated, IdxInterval DEF Typed, Idx
<1>2. frame'.port = frame.port /\ frame'.wire = frame.wire /\ frame'.raised
  BY <1>1
<1>3. Sharers(b)' = Sharers(b)
  BY DEF Sharers
<1>4. \A q : Releases(q, i)' <=> Releases(q, i)
  BY <1>2 DEF Releases
<1>5. ~(frame.wire > frame.wire)
  BY <1>1
<1>6. ASSUME NEW q \in Sharers(b)
      PROVE  Checks(q, i)' <=> Checks(q, i) /\ ~(Here(b, i) /\ q = frame.port)
  BY <1>1, <1>2, <1>5 DEF Checks, Here, Sharers
<1> QED
  BY <1>3, <1>4, <1>6 DEF Unchecked, Unreleased

LEMMA HeapStep ==
  ASSUME TypeInv, frame.port # NoPort, NEW w, SetUpdatedWire(w), NEW b \in Port, NEW i \in Idx(b)
  PROVE  heap'[b][i] = IF Here(b, i) THEN w ELSE heap[b][i]
  BY Updated DEF SetUpdatedWire, Here, TypeInv, PortTypeOK

(* What user code and links do, in the course of a pass.                   *)
DrivesLate(c) ==
  /\ Drive(c) /\ Reg(c.port) /\ script # <<>> /\ c = Head(script)
  /\ c.port \in Port \ freed /\ wires[c.port] = c.port /\ c.off \in Idx(c.port)
  /\ \A i : Unchecked(c.port, i) = {} /\ Unreleased(c.port, i) = {}

LEMMA HeadCall ==
  ASSUME FlatCircuit, Course, script # <<>>, Accepts(Head(script))
  PROVE  LET c == Head(script)
         IN  /\ c \in DriveCalls /\ c = script[1] /\ 1 \in DOMAIN script /\ Reg(c.port)
             /\ c.port \in Port \ freed /\ wires[c.port] = c.port /\ c.off \in Idx(c.port)
             /\ \A i : Unchecked(c.port, i) = {} /\ Unreleased(c.port, i) = {}
<1>1. script \in Seq(DriveCalls)
  BY DEF Course, Typed, LoopTypeOK, Script
<1>2. PICK c \in DriveCalls : c = Head(script) /\ c = script[1] /\ 1 \in DOMAIN script
  BY <1>1, HeadTailProperties, EmptySeq
<1>3. /\ c.port \in Port /\ c.off \in Nat /\ Reg(c.port) /\ c.off < Width[wires[c.port]]
      /\ Type[c.port] = "PORT_REG"
  BY <1>2, PortAssumption DEF Accepts, Reg
<1>4. wires[c.port] = c.port
  BY <1>3 DEF Course, Memory, RegsOwn
<1>5. c.port \notin freed
  BY <1>3, <1>4, NeverDangles DEF NoDangling, Course
<1>6. c.off \in Idx(c.port)
  BY <1>3, <1>4, IdxInterval DEF Idx
<1>7. \A p \in CanShare(c.port) : Visited(p)
  BY <1>2, <1>3 DEF Course, LateCalls, SinksVisited
<1>8. \A p \in Sharers(c.port) : Visited(p)
  BY <1>3, <1>5, <1>7, LiveVector
<1> QED
  BY <1>2, <1>3, <1>4, <1>5, <1>6, <1>8, NobodyLeft

LEMMA UserEffect ==
  ASSUME FlatCircuit, Course, UserStep
  PROVE  UNCHANGED portVars \/ \E c \in DriveCalls : DrivesLate(c)
<1> SUFFICES ASSUME Drive(Head(script)) PROVE \E c \in DriveCalls : DrivesLate(c)
  BY DEF UserStep, RunScript
<1>1. script # <<>> /\ Accepts(Head(script))
  BY DEF UserStep, RunScript, Drive
<1>2. Head(script) \in DriveCalls /\ DrivesLate(Head(script))
  BY <1>1, HeadCall DEF DrivesLate
<1> QED
  BY <1>2

LEMMA DriveHeap ==
  ASSUME TypeInv, NEW c \in DriveCalls, Drive(c), wires[c.port] = c.port,
         NEW b \in Port, NEW i \in Idx(b)
  PROVE  IF b = c.port
         THEN /\ heap'[b][i].modules_connected = heap[b][i].modules_connected
              /\ heap'[b][i].modules_connected_orig = heap[b][i].modules_connected_orig
         ELSE heap'[b][i] = heap[b][i]
<1>1. c.port \in Port
  BY PortAssumption
<1>2. heap' = [heap EXCEPT ![c.port] =
                 DriveWires(heap[c.port], c.off, c.len, c.vals, c.port)]
  BY DEF Drive
<1>3. heap[b] \in [Idx(b) -> Wire] /\ heap[b][i] \in Wire /\ DOMAIN heap = Port
  BY DEF TypeInv, PortTypeOK, Wire, Driver
<1>4. \A v : /\ DrivenBy(Nullified(heap[b][i]), v, b).modules_connected
                  = heap[b][i].modules_connected
             /\ DrivenBy(Nullified(heap[b][i]), v, b).modules_connected_orig
                  = heap[b][i].modules_connected_orig
             /\ Nullified(heap[b][i]).modules_connected = heap[b][i].modules_connected
             /\ Nullified(heap[b][i]).modules_connected_orig = heap[b][i].modules_connected_orig
  BY <1>3 DEF DrivenBy, Nullified, Wire, WireOf
<1>5. CASE b = c.port
  <2>1. \/ heap'[b][i] = Nullified(heap[b][i])
        \/ \E v : heap'[b][i] = DrivenBy(Nullified(heap[b][i]), v, b)
    BY <1>1, <1>2, <1>3, <1>5 DEF DriveWires
  <2> QED
    BY <1>4, <1>5, <2>1
<1>6. CASE b # c.port
  BY <1>2, <1>6
<1> QED
  BY <1>5, <1>6

LEMMA LinkHeap ==
  ASSUME TypeInv, NEW src \in Port, NEW dst \in Port, Connect(src, dst),
         NEW b \in Port, NEW i \in Idx(b)
  PROVE  heap'[b][i] = IF b = wires[src] THEN Linked(heap[b][i]) ELSE heap[b][i]
  BY DEF Connect, TypeInv, PortTypeOK

LEMMA FreedGrows == ASSUME Typed, Phase, [Next]_vars PROVE freed \subseteq freed'
<1>1. ASSUME NEW l \in CircuitLinks, Connect(l[1], l[2]) PROVE freed \subseteq freed'
  BY <1>1 DEF Connect, Cleaned
<1> QED
  BY <1>1, PassSteps, LinkEffect
     DEF PassBegins, PortBegins, BeginUpdate, UserStep, RunScript, Drive, NoPortStep, portVars,
         LinkStep, WireStep, CheckWire, RaiseSignal, SignalReturns

(* Once a port that shares a vector has been updated in the pass, and as   *)
(* long as not all have, its wires count as undriven: a drive in between   *)
(* would be of a port whose sharers have not all been updated.             *)
Claims ==
  \A b \in Port \ freed : \A i \in Idx(b) :
    Unreleased(b, i) # {} /\ Unreleased(b, i) # Sharers(b) => heap[b][i].refcount = 0

(* When all have been updated, only a drive of this pass is left.          *)
Unclaimed ==
  ~driven =>
    \A b \in Port \ freed : \A i \in Idx(b) :
      Unreleased(b, i) = {} => heap[b][i].refcount = 0

LEMMA ReleasedCount == \A w \in Wire : Released(w).refcount = 0
  BY DEF Released, Wire, WireOf

LEMMA CheckedCount == \A w \in Wire : Checked(w).refcount = w.refcount
  BY DEF Checked, IsChanged, Wire, WireOf

LEMMA LinkedCount == \A w \in Wire : Linked(w).refcount = w.refcount
  BY DEF Linked, Wire, WireOf

LEMMA LiveWire ==
  ASSUME TypeInv, NEW b \in Port, NEW i \in Idx(b) PROVE heap[b][i] \in Wire
  BY DEF TypeInv, PortTypeOK, Wire, Driver

(* The three kinds of wire step.                                           *)
LEMMA WireCases ==
  ASSUME Typed, WireStep
  PROVE  /\ frame.port # NoPort /\ UpdatedWire \in Wire /\ TypeInv
         /\ UNCHANGED <<wires, dirty, freed, driven>> /\ Ahead' = Ahead
         /\ \/ /\ CheckWire /\ ~frame.raised /\ frame' = NextFrame
               /\ SetUpdatedWire(Released(Checked(UpdatedWire)))
            \/ /\ RaiseSignal /\ ~frame.raised /\ Raises
               /\ frame' = [frame EXCEPT !.raised = TRUE, !.called = @ \cup {UpdatedSignal}]
               /\ SetUpdatedWire(Checked(UpdatedWire))
            \/ /\ SignalReturns /\ frame.raised /\ frame' = NextFrame
               /\ SetUpdatedWire(Released(UpdatedWire))
  BY Updated DEF WireStep, CheckWire, RaiseSignal, SignalReturns, Typed

LEMMA HereWire == \A b, i : Here(b, i) => heap[b][i] = UpdatedWire
  BY DEF Here, UpdatedWire, WiresOf

(* What a wire step does to a refcount and to those who have to reset it.  *)
LEMMA WireReleases ==
  ASSUME Typed, WireStep, NEW b \in Port, NEW i \in Idx(b)
  PROVE  /\ Sharers(b)' = Sharers(b)
         /\ \/ /\ Unreleased(b, i)' = Unreleased(b, i)
               /\ heap'[b][i].refcount = heap[b][i].refcount
            \/ heap'[b][i].refcount = 0
<1>1. UpdatedWire \in Wire /\ Checked(UpdatedWire) \in Wire
  BY WireCases, CheckedType
<1>2. CASE ~RaiseSignal
  <2>1. PICK w \in Wire : SetUpdatedWire(Released(w)) /\ frame' = NextFrame
    BY <1>1, <1>2, WireCases
  <2>2. heap'[b][i] = IF Here(b, i) THEN Released(w) ELSE heap[b][i]
    BY <2>1, WireCases, HeapStep
  <2>3. Sharers(b)' = Sharers(b)
    BY <2>1, WireCases, WireDone
  <2>4. Unreleased(b, i)' = IF Here(b, i) THEN Unreleased(b, i) \ {frame.port}
                            ELSE Unreleased(b, i)
    BY <2>1, WireCases, WireDone
  <2> QED
    BY <2>2, <2>3, <2>4, ReleasedCount
<1>3. CASE RaiseSignal
  <2>1. /\ ~frame.raised
        /\ frame' = [frame EXCEPT !.raised = TRUE, !.called = @ \cup {UpdatedSignal}]
        /\ SetUpdatedWire(Checked(UpdatedWire))
    BY <1>3 DEF RaiseSignal
  <2>2. heap'[b][i] = IF Here(b, i) THEN Checked(UpdatedWire) ELSE heap[b][i]
    BY <2>1, WireCases, HeapStep
  <2>3. Sharers(b)' = Sharers(b) /\ Unreleased(b, i)' = Unreleased(b, i)
    BY <2>1, WireCases, WireRaised
  <2> QED
    BY <1>1, <2>2, <2>3, CheckedCount, HereWire
<1> QED
  BY <1>2, <1>3

LEMMA ClaimsInit == Init => Claims /\ Unclaimed
<1> SUFFICES ASSUME Init, NEW b \in Port, NEW i \in Idx(b) PROVE heap[b][i].refcount = 0
  BY DEF Claims, Unclaimed
<1> QED
  BY DEF Init, NewWire

LEMMA ClaimsStep ==
  ASSUME FlatCircuit
  PROVE  Course /\ Claims /\ [Next]_vars => Claims'
<1> SUFFICES ASSUME Course, Claims, [Next]_vars,
                    NEW b \in Port \ freed', NEW i \in Idx(b),
                    Unreleased(b, i)' # {}, Unreleased(b, i)' # Sharers(b)'
             PROVE  heap'[b][i].refcount = 0
  BY DEF Claims
<1>1. Typed /\ Phase /\ TypeInv /\ b \in Port /\ heap[b][i] \in Wire
  BY LiveWire DEF Course, Typed
<1>2. CASE PassBegins
  BY <1>2, BeforePass DEF PassBegins
<1>3. CASE PortBegins
  <2>1. PICK p \in Ahead : BeginUpdate(p) /\ Ahead' = Ahead \ {p}
    BY <1>3 DEF PortBegins
  <2>2. p \in Port
    BY DEF Ahead
  <2>3. Sharers(b)' = Sharers(b) /\ Unreleased(b, i)' = Unreleased(b, i)
    BY <2>1, <2>2, BeginSets
  <2> QED
    BY <2>1, <2>3 DEF BeginUpdate, Claims
<1>4. CASE WireStep
  BY <1>1, <1>4, WireReleases, WireCases DEF Claims
<1>5. CASE UserStep
  <2>1. frame' = frame /\ wires' = wires /\ freed' = freed /\ Ahead' = Ahead
    BY <1>5 DEF UserStep, RunScript, Drive, portVars
  <2>2. Sharers(b)' = Sharers(b) /\ Unreleased(b, i)' = Unreleased(b, i)
    BY <2>1, SetsStay
  <2>3. CASE UNCHANGED portVars
    BY <2>1, <2>2, <2>3 DEF Claims, portVars
  <2>4. ASSUME NEW c \in DriveCalls, DrivesLate(c) PROVE heap'[b][i].refcount = 0
    <3>1. b # c.port
      BY <2>2, <2>4 DEF DrivesLate
    <3>2. heap'[b][i] = heap[b][i]
      BY <1>1, <2>4, <3>1, DriveHeap DEF DrivesLate
    <3> QED
      BY <2>1, <2>2, <3>2 DEF Claims
  <2> QED
    BY <1>5, <2>3, <2>4, UserEffect
<1>6. CASE LinkStep
  <2>1. frame' = Idle /\ Ahead' = {}
    BY <1>1, <1>6, LinkEffect DEF LinkStep, Connect, portVars
  <2>2. \A p \in Port : p # frame'.port
    BY <2>1, PortAssumption DEF Idle
  <2>3. Unreleased(b, i)' = {}
    BY <2>1, <2>2 DEF Unreleased, Releases, Sharers
  <2> QED
    BY <2>3
<1>7. CASE NoPortStep
  BY <1>7, SetsStay DEF NoPortStep, Claims
<1> QED
  BY <1>1, <1>2, <1>3, <1>4, <1>5, <1>6, <1>7, PassSteps

LEMMA CourseInvariant ==
  ASSUME FlatCircuit, DriversLast PROVE Spec => [](Course /\ Claims)
<1>1. Spec => []Phase
  BY PhaseInit, PhaseStep, TypedInvariant, PTL DEF Spec
<1>2. Spec => []LateCalls
  BY <1>1, LateInit, LateStep, TypedInvariant, PTL DEF Spec
<1>3. Typed /\ Memory /\ LinkOrigin(CircuitLinks) /\ Phase /\ LateCalls => Course
  BY DEF Course
<1>4. Spec => []Course
  BY <1>1, <1>2, <1>3, TypedInvariant, MemoryInvariant, OriginInvariant, PTL
<1>5. Init => Claims
  BY ClaimsInit
<1> QED
  BY <1>4, <1>5, ClaimsStep, PTL DEF Spec

LEMMA FirstRaises ==
  ASSUME FlatCircuit, Course, Claims, RaiseSignal PROVE First(frame.port)
<1> DEFINE b == wires[frame.port]
           i == frame.wire
<1>1. Typed /\ TypeInv /\ frame.port # NoPort
  BY DEF Course, Typed, RaiseSignal
<1>2. /\ b \in Port \ freed /\ i \in Idx(b) /\ frame.port \in Port
      /\ frame.port \in Unreleased(b, i)
  BY <1>1, HereLeft, FrontPlace, NeverDangles DEF NoDangling, Course
<1>3. heap[b][i].refcount = 1
  BY DEF RaiseSignal, Raises, UpdatedWire, WiresOf
<1> HIDE DEF b, i
<1>4. Unreleased(b, i) = Sharers(b)
  BY <1>2, <1>3 DEF Claims
<1>5. ASSUME NEW q \in Sharers(b) PROVE ~UpdatedBefore(q, frame.port)
  <2>1. q \in Ahead \/ q = frame.port
    BY <1>4 DEF Unreleased, Releases
  <2> QED
    BY <1>1, <2>1, BeforeFront
<1> QED
  BY <1>5 DEF First, b

(* In a circuit without chains of links, whose user code drives a port     *)
(* only when all ports that can share its wires were updated in the pass,  *)
(* only the first of the ports that share a vector is ever called back.    *)
THEOREM FirstIsCalled ==
  ASSUME FlatCircuit, DriversLast PROVE Spec => []OnlyFirstIsCalled
<1>1. Init => OnlyFirstIsCalled
  BY DEF Init, OnlyFirstIsCalled, Idle
<1>2. Course /\ Claims /\ OnlyFirstIsCalled /\ [Next]_vars => OnlyFirstIsCalled'
  <2> SUFFICES ASSUME Course, Claims, OnlyFirstIsCalled, [Next]_vars, frame'.raised
               PROVE  First(frame.port)'
    BY DEF OnlyFirstIsCalled
  <2>1. Typed /\ Phase
    BY DEF Course
  <2>2. ASSUME UNCHANGED <<frame, wires>> PROVE First(frame.port)'
    BY <2>2 DEF OnlyFirstIsCalled, First, Sharers
  <2>3. CASE WireStep
    <3>1. RaiseSignal
      <4>1. NextFrame.raised = FALSE
        BY <2>1, <2>3, WireCases, Updated DEF NextFrame, Idle
      <4> QED
        BY <2>1, <2>3, <4>1, WireCases
    <3>2. wires' = wires /\ frame'.port = frame.port
      BY <2>1, <3>1, Updated DEF RaiseSignal, Typed
    <3>3. First(frame.port)
      BY <3>1, FirstRaises
    <3> QED
      BY <3>2, <3>3 DEF First, Sharers
  <2>4. CASE PassBegins \/ NoPortStep
    BY <2>2, <2>4 DEF PassBegins, NoPortStep
  <2>5. CASE PortBegins
    BY <2>5 DEF PortBegins, BeginUpdate, Idle
  <2>6. CASE UserStep
    BY <2>2, <2>6 DEF UserStep, RunScript, Drive, portVars
  <2>7. CASE LinkStep
    <3>1. frame' = Idle
      BY <2>1, <2>7, LinkEffect DEF LinkStep, Connect, portVars
    <3> QED
      BY <3>1 DEF Idle
  <2> QED
    BY <2>1, <2>3, <2>4, <2>5, <2>6, <2>7, PassSteps
<1> QED
  BY <1>1, <1>2, CourseInvariant, PTL DEF Spec

LEMMA TakesSome ==
  ASSUME FlatCircuit, NoEmptyDrives, Course, Unclaimed,
         NEW c \in DriveCalls, DrivesLate(c)
  PROVE  driven'
<1> SUFFICES ASSUME ~driven
             PROVE  Takers(heap[c.port], c.off, c.len, c.vals) # {}
  BY DEF DrivesLate, Drive, WiresOf
<1> DEFINE U == Undriven(heap[c.port], c.off, c.len)
<1>1. /\ c.off \in Nat /\ c.len \in Nat /\ c.len > 0 /\ c.vals \in Seq(WireVal) /\ c.vals # <<>>
  BY PortAssumption DEF NoEmptyDrives, DrivesLate
<1>2. /\ DOMAIN heap[c.port] = Idx(c.port) /\ c.off \in Idx(c.port)
      /\ heap[c.port][c.off].refcount = 0
  BY DEF DrivesLate, Unclaimed, Course, Typed, TypeInv, PortTypeOK
<1>3. c.off \in U
  BY <1>1, <1>2 DEF Undriven, Window
<1>4. {x \in U : x < c.off} = {}
  BY <1>1, <1>2, IdxInterval DEF Undriven, Window, Idx
<1>5. Before(U, c.off) = 0
  BY <1>4, FS_EmptySet DEF Before
<1>6. Len(c.vals) > 0
  BY <1>1, EmptySeq
<1> QED
  BY <1>3, <1>5, <1>6 DEF Takers

LEMMA UnclaimedStep ==
  ASSUME FlatCircuit, NoEmptyDrives
  PROVE  Course /\ Unclaimed /\ [Next]_vars => Unclaimed'
<1> SUFFICES ASSUME Course, Unclaimed, [Next]_vars, ~driven',
                    NEW b \in Port \ freed', NEW i \in Idx(b), Unreleased(b, i)' = {}
             PROVE  heap'[b][i].refcount = 0
  BY DEF Unclaimed
<1>1. Typed /\ Phase /\ TypeInv /\ b \in Port /\ heap[b][i] \in Wire
  BY LiveWire DEF Course, Typed
<1>2. CASE PassBegins
  <2>1. Sharers(b)' = {} /\ wires' = wires /\ freed' = freed
    BY <1>2, BeforePass DEF PassBegins
  <2>2. b \in Sharers(b)
    BY <2>1, LiveVector
  <2> QED
    BY <2>1, <2>2 DEF Sharers
<1>3. CASE PortBegins
  <2>1. PICK p \in Ahead : BeginUpdate(p) /\ Ahead' = Ahead \ {p}
    BY <1>3 DEF PortBegins
  <2>2. p \in Port
    BY DEF Ahead
  <2>3. Unreleased(b, i)' = Unreleased(b, i)
    BY <2>1, <2>2, BeginSets
  <2> QED
    BY <2>1, <2>3 DEF BeginUpdate, Unclaimed
<1>4. CASE WireStep
  BY <1>1, <1>4, WireReleases, WireCases DEF Unclaimed
<1>5. CASE UserStep
  <2>1. frame' = frame /\ wires' = wires /\ freed' = freed /\ Ahead' = Ahead
    BY <1>5 DEF UserStep, RunScript, Drive, portVars
  <2>2. Unreleased(b, i)' = Unreleased(b, i)
    BY <2>1, SetsStay
  <2>3. UNCHANGED portVars
    BY <1>5, UserEffect, TakesSome
  <2> QED
    BY <2>2, <2>3 DEF Unclaimed, portVars
<1>6. CASE LinkStep
  <2>1. Unreleased(b, i) = {} /\ ~driven
    BY <1>6, OutsidePass DEF LinkStep
  <2>2. CASE UNCHANGED portVars
    BY <2>1, <2>2 DEF Unclaimed, portVars
  <2>3. ASSUME NEW l \in CircuitLinks, Connect(l[1], l[2]) PROVE heap'[b][i].refcount = 0
    <3>1. b \notin freed
      BY <2>3 DEF Connect, Cleaned
    <3>2. heap[b][i].refcount = 0
      BY <1>1, <2>1, <3>1 DEF Unclaimed
    <3>3. heap'[b][i] \in {heap[b][i], Linked(heap[b][i])}
      BY <1>1, <2>3, CircuitPorts, LinkHeap
    <3> QED
      BY <1>1, <3>2, <3>3, LinkedCount
  <2> QED
    BY <1>1, <1>6, <2>2, <2>3, LinkEffect DEF LinkStep
<1>7. CASE NoPortStep
  BY <1>7, SetsStay DEF NoPortStep, Unclaimed
<1> QED
  BY <1>1, <1>2, <1>3, <1>4, <1>5, <1>6, <1>7, PassSteps

-----------------------------------------------------------------------------
(* Who is still to be linked, as long as no call of connect_all noted two  *)
(* indices: destinations that no link was made to yet.                     *)
FreshLinks ==
  /\ \A j, k \in DOMAIN links : links[j][2] = links[k][2] => j = k
  /\ \A j \in DOMAIN links :
       /\ dirty[links[j][2]]
       /\ \E k \in DOMAIN DirectLinks : DirectLinks[k] = links[j]
  /\ \A r \in Request \ Connected : Findable(r) => dirty[Link(r)[2]]

Orders == Listed /\ (crowded \/ (Noting /\ Asked /\ FreshLinks))

LEMMA CourseLinkage == ASSUME Course, Listed PROVE Linkage
  BY DEF Course, Typed, Memory, Linkage

LEMMA OrdersInit == ASSUME LinkedOnce PROVE Init => Orders
<1> SUFFICES ASSUME Init PROVE Orders
  OBVIOUS
<1>1. /\ connection_schedules = Scheduled /\ conn = NotConnecting /\ links = DirectLinks
      /\ unasked = Request \ Waiting /\ \A p \in Port : dirty[p]
  BY DEF Init, Waiting
<1>2. Scheduled \in Seq(Request) /\ DirectLinks \in Seq(Links)
  BY RefresherAssumption
<1>3. Listed
  BY <1>1 DEF Listed, LinkedOnce, Waiting
<1>4. \A j \in DOMAIN connection_schedules : ~Passed(j)
  <2>1. DOMAIN connection_schedules = 1 .. Len(Scheduled)
    BY <1>1, <1>2, LenProperties
  <2> QED
    BY <1>1, <2>1 DEF Passed, NotConnecting
<1>5. Noting
  BY <1>1, <1>4 DEF Noting, NotConnecting
<1>6. Asked
  BY <1>1 DEF Asked
<1>7. FreshLinks
  <2>1. \A j \in DOMAIN links : links[j][2] \in Port
    BY <1>1, <1>2, ElementOfSeq, PortAssumption
  <2>2. \A r \in Request : Findable(r) => Link(r)[2] \in Port
    BY LinkPorts
  <2> QED
    BY <1>1, <2>1, <2>2 DEF FreshLinks, LinkedOnce
<1> QED
  BY <1>3, <1>5, <1>6, <1>7 DEF Orders

LEMMA OrderKept ==
  ASSUME Noting, Asked, UNCHANGED connVars
  PROVE  Noting' /\ Asked' /\ Connected' = Connected
<1>1. UNCHANGED <<connection_schedules, unasked, conn>>
  BY DEF connVars
<1>2. \A j : Passed(j)' <=> Passed(j)
  BY <1>1 DEF Passed
<1> QED
  BY <1>1, <1>2 DEF Noting, Asked, Waiting, Connected

LEMMA CrowdGrows == ASSUME [Next]_vars, crowded PROVE crowded'
  BY DEF Next, ConnectDirect, Run, CallConnectAll, ConnectAllReturns, BeginConnectAll, ConnectStep,
         ConnectFound, NextRequest, EndScan, EraseNoted, ErasePastEnd, EndErase, ConnectReturns,
         BeginPass, UpdatePort, UpdateWire, CallBack, CallBackReturns, RunScript, ScheduleLive,
         Schedule, UpdateModule, NextModule, PassAgain, EndCycle, vars, connVars

LEMMA ListedStep == ASSUME Course, Listed, [Next]_vars PROVE Listed'
<1>1. ConnectTypeOK
  BY DEF Course, Typed
<1>2. CASE UNCHANGED connVars
  BY <1>2 DEF Listed, connVars
<1>3. CASE CallConnectAll \/ ConnectAllReturns
  BY <1>1, <1>3, CallListed DEF CallConnectAll, ConnectAllReturns
<1>4. CASE ScheduleLive
  BY <1>1, <1>4, ScheduleListed DEF ScheduleLive
<1> QED
  BY <1>2, <1>3, <1>4
     DEF Next, ConnectDirect, Run, BeginPass, UpdatePort, UpdateWire, CallBack, CallBackReturns,
         RunScript, UpdateModule, NextModule, PassAgain, EndCycle, vars

LEMMA OrderStep ==
  ASSUME Course, Listed, Noting, Asked, [Next]_vars, ~(CallConnectAll /\ ConnectFound), ~crowded'
  PROVE  Noting' /\ Asked' /\ Connected' = Connected
<1>1. Linkage
  BY CourseLinkage
<1>2. CASE UNCHANGED connVars
  BY <1>2, OrderKept
<1>3. CASE CallConnectAll \/ ConnectAllReturns
  BY <1>1, <1>3, BeginOrder, NextRequestOrder, EndScanOrder, EraseOrder, EndEraseOrder,
     ReturnsOrder, NoPastEnd DEF CallConnectAll, ConnectAllReturns, ConnectStep
<1>4. CASE ScheduleLive
  <2>1. PICK r \in Request : Schedule(r)
    BY <1>4 DEF ScheduleLive
  <2>2. pc \in {"update", "ports"}
    BY <1>4, Raised DEF ScheduleLive, Course
  <2>3. conn.at = "idle"
    BY <2>2 DEF Course, Phase
  <2> QED
    BY <1>1, <2>1, <2>3, ScheduleOrder
<1> QED
  BY <1>2, <1>3, <1>4
     DEF Next, ConnectDirect, Run, BeginPass, UpdatePort, UpdateWire, CallBack, CallBackReturns,
         RunScript, UpdateModule, NextModule, PassAgain, EndCycle, vars

LEMMA RequestIsLink ==
  ASSUME NEW r \in Request, Findable(r) PROVE Link(r) \in CircuitLinks
<1>1. 1 \in DOMAIN r.found
  BY ConnectAssumption, EmptySeq, LenProperties DEF Findable
<1>2. Link(r) \in Port \X Port
  BY LinkPorts
<1> QED
  BY <1>1, <1>2 DEF CircuitLinks, Link

(* A link that is made is the first of its destination.                    *)
LEMMA FreshEffect ==
  ASSUME LinkedOnce, Course, Orders, ~crowded, LinkStep
  PROVE  UNCHANGED portVars \/ \E l \in CircuitLinks : Connect(l[1], l[2]) /\ dirty[l[2]]
<1>1. CASE ConnectDirect
  <2>1. /\ links # <<>> /\ links \in Seq(Links) /\ Connect(Head(links)[1], Head(links)[2])
    BY <1>1 DEF Course, Typed, LoopTypeOK, ConnectDirect
  <2>2. Head(links) = links[1] /\ 1 \in DOMAIN links /\ links[1] \in Links
    BY <2>1, HeadTailProperties, EmptySeq
  <2>3. dirty[links[1][2]]
    BY <2>2 DEF Orders, FreshLinks
  <2> QED
    BY <2>1, <2>2, <2>3 DEF CircuitLinks
<1>2. CASE ConnectFound
  <2>1. Linkage /\ OnePortEach /\ Noting /\ Asked
    BY CourseLinkage DEF Orders, LinkedOnce
  <2>2. /\ Scanned \in Request /\ Findable(Scanned) /\ conn.found = 1
        /\ Scanned \notin Connected
    BY <1>2, <2>1, FoundOrder
  <2>3. Connect(Link(Scanned)[1], Link(Scanned)[2]) \/ UNCHANGED portVars
    BY <1>2, <2>1, FoundLinks
  <2>4. dirty[Link(Scanned)[2]]
    BY <2>2 DEF Orders, FreshLinks
  <2>5. Link(Scanned) \in CircuitLinks
    BY <2>2, RequestIsLink
  <2> QED
    BY <2>3, <2>4, <2>5
<1> QED
  BY <1>1, <1>2 DEF LinkStep

LEMMA FreshDirect ==
  ASSUME LinkedOnce, Course, FreshLinks, ConnectDirect, Connected' = Connected
  PROVE  FreshLinks'
<1>1. /\ links # <<>> /\ links \in Seq(Links) /\ links' = Tail(links)
      /\ Connect(Head(links)[1], Head(links)[2])
  BY DEF Course, Typed, LoopTypeOK, ConnectDirect
<1>2. /\ Head(links) = links[1] /\ 1 \in DOMAIN links
      /\ \A j \in DOMAIN links' : j + 1 \in DOMAIN links /\ links'[j] = links[j + 1] /\ j + 1 # 1
      /\ \A j \in DOMAIN links' : j \in Nat
  BY <1>1, HeadTailProperties, EmptySeq
<1>3. \A p \in Port : p # links[1][2] => dirty'[p] = dirty[p]
  BY <1>1, <1>2 DEF Connect, Course, Typed, TypeInv, PortTypeOK
<1>4. \A j \in DOMAIN links : links[j][2] \in Port
  BY <1>1, ElementOfSeq, PortAssumption
<1>5. ASSUME NEW j \in DOMAIN links', NEW k \in DOMAIN links', links'[j][2] = links'[k][2]
      PROVE  j = k
  <2>1. j + 1 = k + 1
    BY <1>2, <1>5 DEF FreshLinks
  <2> QED
    BY <1>2, <2>1
<1>6. ASSUME NEW j \in DOMAIN links'
      PROVE  /\ dirty'[links'[j][2]]
             /\ \E k \in DOMAIN DirectLinks : DirectLinks[k] = links'[j]
  <2>1. links'[j] = links[j + 1] /\ j + 1 \in DOMAIN links /\ links[j + 1][2] # links[1][2]
    BY <1>2 DEF FreshLinks
  <2> QED
    BY <1>3, <1>4, <2>1 DEF FreshLinks
<1>7. ASSUME NEW r \in Request \ Connected, Findable(r) PROVE dirty'[Link(r)[2]]
  <2>1. Link(r)[2] \in Port /\ Link(r)[2] # links[1][2]
    BY <1>2, <1>7, LinkPorts DEF FreshLinks, LinkedOnce
  <2> QED
    BY <1>3, <1>7, <2>1 DEF FreshLinks
<1> QED
  BY <1>5, <1>6, <1>7 DEF FreshLinks

LEMMA FreshFound ==
  ASSUME LinkedOnce, Course, Listed, Noting, Asked, FreshLinks, ConnectFound, links' = links
  PROVE  Noting' /\ Asked' /\ FreshLinks'
<1>1. Linkage /\ OnePortEach
  BY CourseLinkage DEF LinkedOnce
<1>2. /\ Noting' /\ Asked' /\ Connected' = Connected \cup {Scanned}
      /\ Scanned \in Request /\ Findable(Scanned)
  BY <1>1, FoundOrder
<1>3. Connect(Link(Scanned)[1], Link(Scanned)[2]) \/ UNCHANGED portVars
  BY <1>1, FoundLinks
<1>4. \A p \in Port : p # Link(Scanned)[2] => dirty'[p] = dirty[p]
  BY <1>2, <1>3, LinkPorts DEF Connect, Course, Typed, TypeInv, PortTypeOK, portVars
<1>5. ASSUME NEW j \in DOMAIN links PROVE dirty'[links[j][2]]
  <2>1. links \in Seq(Links)
    BY DEF Course, Typed, LoopTypeOK
  <2>2. links[j][2] \in Port
    BY <2>1, ElementOfSeq, PortAssumption
  <2>3. links[j][2] # Link(Scanned)[2]
    BY <1>2 DEF FreshLinks, LinkedOnce
  <2> QED
    BY <1>4, <2>2, <2>3 DEF FreshLinks
<1>6. ASSUME NEW r \in Request \ Connected', Findable(r) PROVE dirty'[Link(r)[2]]
  <2>1. Link(r)[2] \in Port /\ Link(r)[2] # Link(Scanned)[2]
    BY <1>2, <1>6, LinkPorts DEF LinkedOnce
  <2> QED
    BY <1>2, <1>4, <1>6, <2>1 DEF FreshLinks
<1> QED
  BY <1>2, <1>5, <1>6 DEF FreshLinks

LEMMA OrdersStep == ASSUME LinkedOnce PROVE Course /\ Orders /\ [Next]_vars => Orders'
<1> SUFFICES ASSUME Course, Orders, [Next]_vars, ~crowded'
             PROVE  Noting' /\ Asked' /\ FreshLinks'
  BY ListedStep DEF Orders
<1>1. Listed /\ Noting /\ Asked /\ FreshLinks
  BY CrowdGrows DEF Orders
<1>2. CASE CallConnectAll /\ ConnectFound
  BY <1>1, <1>2, FreshFound DEF CallConnectAll, loopVars
<1>3. CASE ~(CallConnectAll /\ ConnectFound)
  <2>1. Noting' /\ Asked' /\ Connected' = Connected
    BY <1>1, <1>3, OrderStep
  <2>2. CASE ConnectDirect
    BY <1>1, <2>1, <2>2, FreshDirect
  <2>3. CASE ~ConnectDirect
    <3>1. UNCHANGED <<dirty, links>>
      BY <1>3, <2>3
         DEF Next, Run, CallConnectAll, ConnectAllReturns, BeginConnectAll, ConnectStep,
             NextRequest, EndScan, EraseNoted, ErasePastEnd, EndErase, ConnectReturns, BeginPass,
             UpdatePort, BeginUpdate, UpdateWire, CheckWire, CallBack, RaiseSignal,
             CallBackReturns, SignalReturns, RunScript, Drive, ScheduleLive, Schedule,
             UpdateModule, NextModule, PassAgain, EndCycle, vars, loopVars, portVars
    <3> QED
      BY <1>1, <2>1, <3>1 DEF FreshLinks
  <2> QED
    BY <2>1, <2>2, <2>3
<1> QED
  BY <1>2, <1>3

-----------------------------------------------------------------------------
(* The countdown.  While a change of a wire is on its way, the wire counts *)
(* the ports that still have to check it in this pass, less one; else it   *)
(* is restored.  A change is left only by a drive of this pass.            *)
CountFits(w, sharers, left, drove) ==
  /\ w.modules_connected_orig + 1 = Cardinality(sharers)
  /\ ~IsChanged(w) \/ left = {} => w.modules_connected = w.modules_connected_orig
  /\ IsChanged(w) /\ left # {} => w.modules_connected + 1 = Cardinality(left)
  /\ ~drove /\ left = {} => ~IsChanged(w)

Counted ==
  \A b \in Port \ freed :
    /\ IsFiniteSet(Sharers(b))
    /\ \A i \in Idx(b) : CountFits(heap[b][i], Sharers(b), Unchecked(b, i), driven)

(* What a wire step does to a count and to those who have to check.        *)
SameCount(v, w) ==
  /\ v.modules_connected = w.modules_connected
  /\ v.modules_connected_orig = w.modules_connected_orig
  /\ v.edge = w.edge /\ v.old_edge = w.old_edge

LEMMA ReleasedSame == \A w \in Wire : SameCount(Released(w), w)
  BY DEF Released, SameCount, Wire, WireOf

LEMMA WireChecks ==
  ASSUME Typed, WireStep, NEW b \in Port, NEW i \in Idx(b)
  PROVE  /\ Sharers(b)' = Sharers(b)
         /\ \/ /\ Unchecked(b, i)' = Unchecked(b, i)
               /\ SameCount(heap'[b][i], heap[b][i])
            \/ /\ frame.port \in Unchecked(b, i)
               /\ Unchecked(b, i)' = Unchecked(b, i) \ {frame.port}
               /\ SameCount(heap'[b][i], Checked(heap[b][i]))
<1>1. /\ UpdatedWire \in Wire /\ Checked(UpdatedWire) \in Wire
      /\ frame.port # NoPort /\ TypeInv /\ wires' = wires /\ Ahead' = Ahead
  BY WireCases, CheckedType
<1>2. Here(b, i) => heap[b][i] = UpdatedWire /\ (frame.port \in Unchecked(b, i) <=> ~frame.raised)
  BY <1>1, HereWire, HereLeft DEF Here
<1>3. \A w : SameCount(w, w)
  BY DEF SameCount
<1>4. CASE CheckWire
  <2>1. /\ ~frame.raised /\ frame' = NextFrame
        /\ SetUpdatedWire(Released(Checked(UpdatedWire)))
    BY <1>4 DEF CheckWire
  <2>2. heap'[b][i] = IF Here(b, i) THEN Released(Checked(UpdatedWire)) ELSE heap[b][i]
    BY <1>1, <2>1, HeapStep
  <2>3. /\ Sharers(b)' = Sharers(b)
        /\ Unchecked(b, i)' = IF Here(b, i) THEN Unchecked(b, i) \ {frame.port}
                              ELSE Unchecked(b, i)
    BY <1>1, <2>1, WireDone
  <2> QED
    BY <1>1, <1>2, <1>3, <2>1, <2>2, <2>3, ReleasedSame
<1>5. CASE RaiseSignal
  <2>1. /\ ~frame.raised
        /\ frame' = [frame EXCEPT !.raised = TRUE, !.called = @ \cup {UpdatedSignal}]
        /\ SetUpdatedWire(Checked(UpdatedWire))
    BY <1>5 DEF RaiseSignal
  <2>2. heap'[b][i] = IF Here(b, i) THEN Checked(UpdatedWire) ELSE heap[b][i]
    BY <1>1, <2>1, HeapStep
  <2>3. /\ Sharers(b)' = Sharers(b)
        /\ Unchecked(b, i)' = IF Here(b, i) THEN Unchecked(b, i) \ {frame.port}
                              ELSE Unchecked(b, i)
    BY <1>1, <2>1, WireRaised
  <2> QED
    BY <1>2, <1>3, <2>1, <2>2, <2>3
<1>6. CASE SignalReturns
  <2>1. frame.raised /\ frame' = NextFrame /\ SetUpdatedWire(Released(UpdatedWire))
    BY <1>6 DEF SignalReturns
  <2>2. heap'[b][i] = IF Here(b, i) THEN Released(UpdatedWire) ELSE heap[b][i]
    BY <1>1, <2>1, HeapStep
  <2>3. /\ Sharers(b)' = Sharers(b)
        /\ Unchecked(b, i)' = IF Here(b, i) THEN Unchecked(b, i) \ {frame.port}
                              ELSE Unchecked(b, i)
    BY <1>1, <2>1, WireDone
  <2>4. Unchecked(b, i)' = Unchecked(b, i)
    BY <1>2, <2>1, <2>3
  <2> QED
    BY <1>1, <1>2, <1>3, <2>2, <2>3, <2>4, ReleasedSame
<1> QED
  BY <1>4, <1>5, <1>6, WireCases

LEMMA SameFits ==
  ASSUME NEW v, NEW w, SameCount(v, w), NEW S, NEW U, NEW d, CountFits(w, S, U, d)
  PROVE  CountFits(v, S, U, d)
  BY DEF SameCount, CountFits, IsChanged

LEMMA CheckedFits ==
  ASSUME NEW w \in Wire, NEW S, NEW U, IsFiniteSet(U), NEW p \in U, NEW d, CountFits(w, S, U, d)
  PROVE  CountFits(Checked(w), S, U \ {p}, d)
<1>1. /\ w.modules_connected \in Nat /\ w.modules_connected_orig \in Nat
      /\ Cardinality(U) \in Nat /\ IsFiniteSet(U \ {p})
      /\ Cardinality(U \ {p}) = Cardinality(U) - 1
  BY FS_RemoveElement, FS_CardinalityType DEF Wire, WireOf
<1>2. CASE ~IsChanged(w)
  <2>1. Checked(w) = w
    BY <1>2 DEF Checked
  <2> QED
    BY <1>2, <2>1 DEF CountFits
<1>3. CASE IsChanged(w) /\ w.modules_connected = 0
  <2>1. Checked(w) = [w EXCEPT !.old_edge = w.edge,
                               !.modules_connected = w.modules_connected_orig]
    BY <1>3 DEF Checked
  <2>2. /\ Checked(w).modules_connected_orig = w.modules_connected_orig
        /\ Checked(w).modules_connected = w.modules_connected_orig
        /\ ~IsChanged(Checked(w))
    BY <2>1 DEF IsChanged, Wire, WireOf
  <2> QED
    BY <2>2 DEF CountFits
<1>4. CASE IsChanged(w) /\ w.modules_connected > 0
  <2>1. Checked(w) = [w EXCEPT !.modules_connected = w.modules_connected - 1]
    BY <1>1, <1>4 DEF Checked
  <2>2. /\ Checked(w).modules_connected_orig = w.modules_connected_orig
        /\ Checked(w).modules_connected = w.modules_connected - 1
        /\ IsChanged(Checked(w))
    BY <1>4, <2>1 DEF IsChanged, Wire, WireOf
  <2>3. w.modules_connected + 1 = Cardinality(U)
    BY <1>4 DEF CountFits
  <2>4. Cardinality(U \ {p}) = w.modules_connected /\ U \ {p} # {}
    BY <1>1, <1>4, <2>3, FS_EmptySet
  <2> QED
    BY <1>1, <2>2, <2>4 DEF CountFits
<1> QED
  BY <1>1, <1>2, <1>3, <1>4

LEMMA CountedInit == Init => Counted
<1> SUFFICES ASSUME Init, NEW b \in Port
             PROVE  /\ IsFiniteSet(Sharers(b))
                    /\ \A i \in Idx(b) :
                         CountFits(heap[b][i], Sharers(b), Unchecked(b, i), driven)
  BY DEF Counted
<1>1. Sharers(b) = {b}
  BY DEF Init, Sharers
<1>2. IsFiniteSet({b}) /\ Cardinality({b}) = 1
  BY FS_Singleton
<1>3. \A i : Unchecked(b, i) = {}
  BY OutsidePass, NothingAhead DEF Init
<1>4. \A i \in Idx(b) : heap[b][i] = NewWire("_0", NoPort)
  BY DEF Init
<1> QED
  BY <1>1, <1>2, <1>3, <1>4 DEF CountFits, NewWire, IsChanged

(* A new link, made when nothing is driven, adds one to sharers and counts.*)
LEMMA CountedLink ==
  ASSUME FlatCircuit, LinkedOnce, Course, Orders, ~crowded, Counted, LinkStep
  PROVE  Counted'
<1>1. Typed /\ TypeInv /\ ~driven
  BY DEF Course, Typed, LinkStep
<1>2. CASE UNCHANGED portVars
  <2>1. Ahead' = Ahead /\ UNCHANGED <<heap, wires, freed, frame, driven>>
    BY <1>2 DEF LinkStep, portVars
  <2> QED
    BY <2>1, SetsStay DEF Counted
<1>3. ASSUME NEW l \in CircuitLinks, Connect(l[1], l[2]), dirty[l[2]] PROVE Counted'
  <2>1. PICK src \in Port, dst \in Port : src = l[1] /\ dst = l[2] /\ l = <<src, dst>>
    BY CircuitPorts
  <2>2. /\ wires[dst] = dst /\ dirty[dst] /\ wires[src] = src /\ src # dst
    <3>1. dirty[src]
      <4> SUFFICES ASSUME ~dirty[src] PROVE FALSE
        OBVIOUS
      <4>1. <<wires[src], src>> \in CircuitLinks
        BY DEF Course, LinkOrigin
      <4> QED
        BY <2>1, <4>1 DEF FlatCircuit
    <3> QED
      BY <1>3, <2>1, <3>1 DEF Course, LinkOrigin, FlatCircuit
  <2>3. /\ freed' = freed \cup {dst} /\ frame' = Idle /\ Ahead' = {} /\ driven' = FALSE
        /\ \A p \in Port : wires'[p] = IF p = dst THEN src ELSE wires[p]
    BY <1>1, <1>3, <2>1, <2>2
       DEF Connect, Cleaned, Repointed, TypeInv, PortTypeOK, LinkStep
  <2> SUFFICES ASSUME NEW b \in Port \ freed'
               PROVE  /\ IsFiniteSet(Sharers(b)')
                      /\ \A i \in Idx(b) :
                           CountFits(heap'[b][i], Sharers(b)', Unchecked(b, i)', driven')
    BY DEF Counted
  <2>4. b \in Port \ freed /\ b # dst /\ IsFiniteSet(Sharers(b))
    BY <2>3 DEF Counted
  <2>5. \A i \in Idx(b) : /\ heap[b][i] \in Wire /\ ~IsChanged(heap[b][i])
                          /\ heap[b][i].modules_connected = heap[b][i].modules_connected_orig
                          /\ heap[b][i].modules_connected_orig + 1 = Cardinality(Sharers(b))
    BY <1>1, <2>4, OutsidePass, LiveWire DEF Counted, CountFits, LinkStep
  <2>6. \A i : Unchecked(b, i)' = {}
    <3>1. \A p \in Port : p # frame'.port
      BY <2>3, PortAssumption DEF Idle
    <3> QED
      BY <2>3, <3>1 DEF Unchecked, Checks, Sharers
  <2>7. \A i \in Idx(b) :
          heap'[b][i] = IF b = src THEN Linked(heap[b][i]) ELSE heap[b][i]
    BY <1>1, <1>3, <2>1, <2>2, <2>4, LinkHeap
  <2>8. CASE b = src
    <3>1. dst \notin Sharers(b) /\ Sharers(b)' = Sharers(b) \cup {dst}
      BY <2>2, <2>3, <2>8 DEF Sharers
    <3>2. /\ IsFiniteSet(Sharers(b)') /\ Cardinality(Sharers(b)) \in Nat
          /\ Cardinality(Sharers(b)') = Cardinality(Sharers(b)) + 1
      BY <2>4, <3>1, FS_AddElement, FS_CardinalityType
    <3>3. ASSUME NEW w \in Wire
          PROVE  /\ Linked(w).modules_connected = w.modules_connected + 1
                 /\ Linked(w).modules_connected_orig = w.modules_connected + 1
                 /\ IsChanged(Linked(w)) <=> IsChanged(w)
      BY DEF Linked, IsChanged, Wire, WireOf
    <3>4. ASSUME NEW i \in Idx(b)
          PROVE  CountFits(heap'[b][i], Sharers(b)', Unchecked(b, i)', driven')
      BY <2>5, <2>6, <2>7, <2>8, <3>2, <3>3 DEF CountFits
    <3> QED
      BY <3>2, <3>4
  <2>9. CASE b # src
    <3>1. Sharers(b)' = Sharers(b)
      BY <2>2, <2>3, <2>4, <2>9 DEF Sharers
    <3> QED
      BY <2>4, <2>5, <2>6, <2>7, <2>9, <3>1 DEF CountFits
  <2> QED
    BY <2>8, <2>9
<1> QED
  BY <1>2, <1>3, FreshEffect

LEMMA CountedStep ==
  ASSUME FlatCircuit, LinkedOnce, NoEmptyDrives
  PROVE  Course /\ Unclaimed /\ Orders /\ Counted /\ [Next]_vars /\ ~crowded => Counted'
<1> SUFFICES ASSUME Course, Unclaimed, Orders, Counted, [Next]_vars, ~crowded
             PROVE  Counted'
  OBVIOUS
<1>1. Typed /\ Phase /\ TypeInv
  BY DEF Course, Typed
<1>2. CASE LinkStep
  BY <1>2, CountedLink
<1>3. CASE ~LinkStep
  <2> SUFFICES ASSUME NEW b \in Port \ freed'
               PROVE  /\ IsFiniteSet(Sharers(b)')
                      /\ \A i \in Idx(b) :
                           CountFits(heap'[b][i], Sharers(b)', Unchecked(b, i)', driven')
    BY DEF Counted
  <2>1. UNCHANGED <<wires, freed>>
    BY <1>1, <1>3, PassSteps, WireCases
       DEF PassBegins, PortBegins, BeginUpdate, UserStep, RunScript, Drive, NoPortStep, portVars
  <2>2. b \in Port \ freed /\ b \in Port /\ Sharers(b)' = Sharers(b) /\ IsFiniteSet(Sharers(b))
    BY <2>1 DEF Counted, Sharers
  <2> SUFFICES ASSUME NEW i \in Idx(b)
               PROVE  CountFits(heap'[b][i], Sharers(b), Unchecked(b, i)', driven')
    BY <2>2
  <2>3. /\ heap[b][i] \in Wire
        /\ CountFits(heap[b][i], Sharers(b), Unchecked(b, i), driven)
    BY <1>1, <2>2, LiveWire DEF Counted
  <2>4. CASE PassBegins
    <3>1. /\ Unchecked(b, i) = {} /\ Unchecked(b, i)' = Sharers(b)
          /\ heap' = heap /\ Sharers(b) # {}
      BY <2>2, <2>4, OutsidePass, BeforePass, LiveVector DEF PassBegins
    <3> QED
      BY <2>3, <3>1 DEF CountFits
  <2>5. CASE PortBegins
    <3>1. PICK p \in Ahead : BeginUpdate(p) /\ Ahead' = Ahead \ {p}
      BY <2>5 DEF PortBegins
    <3>2. p \in Port
      BY DEF Ahead
    <3>3. Unchecked(b, i)' = Unchecked(b, i)
      BY <2>2, <3>1, <3>2, BeginSets
    <3> QED
      BY <2>3, <3>1, <3>3 DEF BeginUpdate
  <2>6. CASE WireStep
    <3>1. driven' = driven /\ IsFiniteSet(Unchecked(b, i))
      BY <1>1, <2>2, <2>6, WireCases, FS_Subset DEF Unchecked
    <3>2. CASE Unchecked(b, i)' = Unchecked(b, i) /\ SameCount(heap'[b][i], heap[b][i])
      BY <2>3, <3>1, <3>2, SameFits
    <3>3. CASE /\ frame.port \in Unchecked(b, i)
               /\ Unchecked(b, i)' = Unchecked(b, i) \ {frame.port}
               /\ SameCount(heap'[b][i], Checked(heap[b][i]))
      <4>1. CountFits(Checked(heap[b][i]), Sharers(b), Unchecked(b, i) \ {frame.port}, driven)
        BY <2>3, <3>1, <3>3, CheckedFits
      <4> QED
        BY <3>1, <3>3, <4>1, SameFits
    <3> QED
      BY <1>1, <2>2, <2>6, <3>2, <3>3, WireChecks
  <2>7. CASE UserStep
    <3>1. Unchecked(b, i)' = Unchecked(b, i)
      BY <2>7, SetsStay DEF UserStep, RunScript, Drive, portVars
    <3>2. CASE UNCHANGED portVars
      BY <2>3, <3>1, <3>2 DEF portVars
    <3>3. ASSUME NEW c \in DriveCalls, DrivesLate(c)
          PROVE  CountFits(heap'[b][i], Sharers(b), Unchecked(b, i)', driven')
      <4>1. driven'
        BY <3>3, TakesSome
      <4>2. CASE b # c.port
        <5>1. heap'[b][i] = heap[b][i]
          BY <1>1, <2>2, <3>3, <4>2, DriveHeap DEF DrivesLate
        <5> QED
          BY <2>3, <3>1, <4>1, <5>1 DEF CountFits
      <4>3. CASE b = c.port
        <5>1. /\ Unchecked(b, i) = {}
              /\ heap'[b][i].modules_connected = heap[b][i].modules_connected
              /\ heap'[b][i].modules_connected_orig = heap[b][i].modules_connected_orig
          BY <1>1, <2>2, <3>3, <4>3, DriveHeap DEF DrivesLate
        <5> QED
          BY <2>3, <3>1, <4>1, <5>1 DEF CountFits
      <4> QED
        BY <4>2, <4>3
    <3> QED
      BY <2>7, <3>2, <3>3, UserEffect
  <2>8. CASE NoPortStep
    BY <2>3, <2>8, SetsStay DEF NoPortStep
  <2> QED
    BY <1>1, <1>3, <2>4, <2>5, <2>6, <2>7, <2>8, PassSteps
<1> QED
  BY <1>2, <1>3

LEMMA CountedSettles ==
  ASSUME Course, Unclaimed, Counted PROVE Settled
<1> SUFFICES ASSUME BetweenCycles, NEW b \in Port \ freed, NEW i \in Idx(b)
             PROVE  /\ ~IsChanged(heap[b][i])
                    /\ heap[b][i].modules_connected = heap[b][i].modules_connected_orig
                    /\ heap[b][i].refcount = 0
  BY DEF Settled
<1>1. frame = Idle /\ Ahead = {} /\ ~driven
  BY IdleFrame, NothingAhead DEF BetweenCycles, Course, Typed, Updating, Phase
<1>2. Unchecked(b, i) = {} /\ Unreleased(b, i) = {}
  BY <1>1, OutsidePass
<1> QED
  BY <1>1, <1>2 DEF Unclaimed, Counted, CountFits

(* In a circuit without chains of links, whose destinations are linked     *)
(* once and whose user code drives a port only when all ports that can     *)
(* share its wires were updated in the pass, the passes of a cycle go on   *)
(* until no wire has a change left or counts as driven, and every          *)
(* countdown is restored, whatever is driven and however often the cycles  *)
(* link more ports; unless connect_all links a port twice, which takes a   *)
(* call that noted two indices.                                            *)
THEOREM CyclesSettle ==
  ASSUME FlatCircuit, LinkedOnce, DriversLast, NoEmptyDrives
  PROVE  Spec => [](crowded \/ Settled)
<1>1. Spec => [](Course /\ Unclaimed)
  BY CourseInvariant, ClaimsInit, UnclaimedStep, PTL DEF Spec
<1>2. Spec => [](Course /\ Unclaimed /\ Orders)
  BY <1>1, OrdersInit, OrdersStep, PTL DEF Spec
<1>3. Course /\ Unclaimed /\ Orders /\ (crowded \/ Counted) /\ [Next]_vars
        => (crowded \/ Counted)'
  BY CountedStep, CrowdGrows
<1>4. Spec => [](crowded \/ Counted)
  BY <1>2, <1>3, CountedInit, PTL DEF Spec
<1>5. Course /\ Unclaimed /\ (crowded \/ Counted) => crowded \/ Settled
  BY CountedSettles
<1> QED
  BY <1>1, <1>4, <1>5, PTL
-----------------------------------------------------------------------------
(* Delivery.  It rests on two facts that are shown of the circuits below:  *)
(* no drive finds wires that another drive left and no update has come by  *)
(* since,                                                                  *)
DriveOnce ==
  script # <<>> /\ Accepts(Head(script)) =>
    \A i \in Idx(Head(script).port) : WiresOf(Head(script).port)[i].refcount = 0

(* and a watcher that would be the first of a vector's sharers to be       *)
(* updated does not ask to join once the vector has been driven.           *)
NeverDriven(b) == \A i \in Idx(b) : heap[b][i].last_port_drive = NoPort

JoinsInTime ==
  \A r \in Waiting :
    LET b == Link(r)[1]
        p == Link(r)[2]
    IN  Findable(r) /\ Watching(p) /\ (\A q \in Sharers(b) : ~UpdatedBefore(q, p))
          => NeverDriven(b)

(* Such a drive reaches each wire of its port.                             *)
LEMMA DriveWhole ==
  ASSUME WholeDrives, DriveOnce, Typed, NEW c \in DriveCalls, DrivesLate(c), NEW i \in Idx(c.port)
  PROVE  /\ heap[c.port][i].refcount = 0
         /\ \E v \in WireVal \ {"_X"} :
              heap'[c.port][i] = DrivenBy(Nullified(heap[c.port][i]), v, c.port)
<1> DEFINE b == c.port
           U == Undriven(heap[b], c.off, c.len)
           k == Len(c.vals) - Before(U, i)
<1>1. /\ b \in Port /\ wires[b] = b /\ Reg(b) /\ Drive(c) /\ Accepts(c) /\ c = Head(script)
      /\ script # <<>>
  BY DEF DrivesLate, Drive
<1>2. /\ c.off = 0 /\ c.len \in Nat /\ c.vals \in Seq(WireVal) /\ Len(c.vals) \in Nat
      /\ Width[b] \in Nat /\ c.len >= Width[b] /\ Len(c.vals) >= Width[b]
      /\ \A j \in DOMAIN c.vals : c.vals[j] # "_X"
  BY <1>1, PortAssumption, LenProperties DEF WholeDrives
<1>3. DOMAIN heap = Port /\ DOMAIN heap[b] = Idx(b)
  BY <1>1 DEF Typed, TypeInv, PortTypeOK
<1>4. \A j \in Idx(b) : heap[b][j].refcount = 0
  BY <1>1 DEF DriveOnce, WiresOf
<1>5. U = 0 .. Width[b] - 1
  BY <1>2, <1>3, <1>4 DEF Undriven, Window, Idx
<1>6. i \in 0 .. Width[b] - 1 /\ {x \in U : x < i} = 0 .. i - 1
  BY <1>2, <1>5 DEF Idx
<1>7. Before(U, i) = i
  <2>1. i \in Int /\ i - 1 \in Int /\ 0 \in Int /\ i >= 0
    BY <1>2, <1>6
  <2>2. Cardinality(0 .. i - 1) = IF 0 > i - 1 THEN 0 ELSE (i - 1) - 0 + 1
    BY <2>1, FS_Interval
  <2>3. Cardinality(0 .. i - 1) = i
    BY <2>1, <2>2
  <2> HIDE DEF U
  <2> QED
    BY <1>6, <2>3 DEF Before
<1>8. i \in Takers(heap[b], c.off, c.len, c.vals) /\ k \in 1 .. Len(c.vals)
  BY <1>2, <1>5, <1>6, <1>7 DEF Takers
<1>9. c.vals[k] \in WireVal \ {"_X"}
  BY <1>2, <1>8, LenProperties, ElementOfSeq
<1>10. heap'[b] = DriveWires(heap[b], c.off, c.len, c.vals, b)
  BY <1>1, <1>3 DEF Drive
<1> HIDE DEF U
<1>11. heap'[b][i] = DrivenBy(Nullified(heap[b][i]), c.vals[k], b)
  BY <1>3, <1>8, <1>10 DEF DriveWires, U
<1> QED
  BY <1>4, <1>9, <1>11

LEMMA DrivenFields ==
  ASSUME NEW w \in Wire, NEW v, NEW b, NEW x, x = DrivenBy(Nullified(w), v, b)
  PROVE  /\ x.val = v /\ x.edge = EdgeOf(v) /\ x.old_edge = w.old_edge
         /\ x.refcount = w.refcount + 1 /\ x.last_port_drive = b
  BY DEF DrivenBy, Nullified, Wire, WireOf

LEMMA EdgesDiffer ==
  ASSUME NEW u \in WireVal, NEW v \in WireVal, EdgeOf(u) = EdgeOf(v) PROVE u = v
  BY DEF WireVal, EdgeOf

(* What a wire step and a link leave as it was.                            *)
SameSignal(v, w) ==
  /\ v.val = w.val /\ v.edge = w.edge /\ v.last_port_drive = w.last_port_drive
  /\ v.old_edge \in {w.old_edge, w.edge}

LEMMA SameAfter ==
  ASSUME NEW w \in Wire
  PROVE  /\ SameSignal(w, w) /\ SameSignal(Linked(w), w)
         /\ SameSignal(Checked(w), w) /\ SameSignal(Released(w), w)
         /\ SameSignal(Released(Checked(w)), w)
<1>1. SameSignal(Checked(w), w) /\ Checked(w) \in Wire
  <2>1. \/ Checked(w) = w
        \/ Checked(w) = [w EXCEPT !.old_edge = w.edge,
                                  !.modules_connected = w.modules_connected_orig]
        \/ Checked(w) = [w EXCEPT !.modules_connected = w.modules_connected - 1]
    BY DEF Checked, Wire, WireOf
  <2> QED
    BY <2>1, CheckedType DEF SameSignal, Wire, WireOf
<1>2. \A x \in Wire : /\ Released(x).val = x.val /\ Released(x).edge = x.edge
                      /\ Released(x).last_port_drive = x.last_port_drive
                      /\ Released(x).old_edge = x.old_edge
  BY DEF Released, Wire, WireOf
<1>3. SameSignal(Released(w), w) /\ SameSignal(Released(Checked(w)), w)
  BY <1>1, <1>2 DEF SameSignal
<1>4. SameSignal(w, w) /\ SameSignal(Linked(w), w)
  BY DEF SameSignal, Linked, Wire, WireOf
<1> QED
  BY <1>1, <1>3, <1>4

LEMMA WireSignal ==
  ASSUME Typed, WireStep, NEW b \in Port, NEW i \in Idx(b)
  PROVE  SameSignal(heap'[b][i], heap[b][i])
<1>1. /\ frame.port # NoPort /\ TypeInv /\ UpdatedWire \in Wire /\ heap[b][i] \in Wire
  BY WireCases, LiveWire DEF Typed
<1>2. PICK x \in {Released(Checked(UpdatedWire)), Checked(UpdatedWire), Released(UpdatedWire)} :
        SetUpdatedWire(x)
  BY WireCases
<1>3. heap'[b][i] = IF Here(b, i) THEN x ELSE heap[b][i]
  BY <1>1, <1>2, HeapStep
<1> QED
  BY <1>1, <1>2, <1>3, HereWire, SameAfter

(* A link that a constructor or the schedule makes.                        *)
LEMMA LinkMade ==
  ASSUME LinkedOnce, Course, Orders, ~crowded, LinkStep, JoinsInTime
  PROVE  \/ UNCHANGED portVars
         \/ \E l \in CircuitLinks :
              /\ Connect(l[1], l[2]) /\ dirty[l[2]]
              /\ \/ pc = "construct"
                 \/ Watching(l[2]) /\ (\A q \in Sharers(l[1]) : ~UpdatedBefore(q, l[2]))
                      => NeverDriven(l[1])
<1>1. CASE ConnectDirect
  BY <1>1, FreshEffect DEF ConnectDirect
<1>2. CASE ConnectFound
  <2>1. Linkage /\ OnePortEach /\ Noting /\ Asked
    BY CourseLinkage DEF Orders, LinkedOnce
  <2>2. /\ Scanned \in Request /\ Findable(Scanned) /\ conn.found = 1
        /\ Scanned \notin Connected
    BY <1>2, <2>1, FoundOrder
  <2>3. Connect(Link(Scanned)[1], Link(Scanned)[2]) \/ UNCHANGED portVars
    BY <1>2, <2>1, FoundLinks
  <2>4. dirty[Link(Scanned)[2]]
    BY <2>2 DEF Orders, FreshLinks
  <2>5. Link(Scanned) \in CircuitLinks
    BY <2>2, RequestIsLink
  <2>6. Scanned \in Waiting
    <3>1. conn.i \in 1 .. Len(connection_schedules)
      BY <1>2 DEF ConnectFound, Scanning, Course, Typed, ConnectTypeOK
    <3> QED
      BY <3>1, LenProperties DEF Waiting, Scanned, Course, Typed, ConnectTypeOK
  <2> QED
    BY <2>2, <2>3, <2>4, <2>5, <2>6 DEF JoinsInTime
<1> QED
  BY <1>1, <1>2 DEF LinkStep

LEMMA SignalEffect ==
  ASSUME FlatCircuit, WholeDrives, DriveOnce, Course, [Next]_vars, NEW b \in Port, NEW i \in Idx(b)
  PROVE  \/ SameSignal(heap'[b][i], heap[b][i])
         \/ /\ UserStep /\ Reg(b) /\ heap[b][i].refcount = 0
            /\ \E v \in WireVal \ {"_X"} : heap'[b][i] = DrivenBy(Nullified(heap[b][i]), v, b)
<1>1. Typed /\ Phase /\ TypeInv /\ heap[b][i] \in Wire
  BY LiveWire DEF Course, Typed
<1>2. CASE UNCHANGED heap
  BY <1>1, <1>2, SameAfter
<1>3. CASE WireStep
  BY <1>1, <1>3, WireSignal
<1>4. CASE LinkStep
  <2>1. ASSUME NEW l \in CircuitLinks, Connect(l[1], l[2])
        PROVE  SameSignal(heap'[b][i], heap[b][i])
    <3>1. heap'[b][i] \in {heap[b][i], Linked(heap[b][i])}
      BY <1>1, <2>1, CircuitPorts, LinkHeap
    <3> QED
      BY <1>1, <3>1, SameAfter
  <2> QED
    BY <1>1, <1>2, <1>4, <2>1, LinkEffect DEF LinkStep, portVars
<1>5. CASE UserStep
  <2>1. ASSUME NEW c \in DriveCalls, DrivesLate(c), b # c.port
        PROVE  SameSignal(heap'[b][i], heap[b][i])
    <3>1. heap'[b][i] = heap[b][i]
      BY <1>1, <2>1, DriveHeap DEF DrivesLate
    <3> QED
      BY <1>1, <3>1, SameAfter
  <2>2. ASSUME NEW c \in DriveCalls, DrivesLate(c), b = c.port
        PROVE  /\ Reg(b) /\ heap[b][i].refcount = 0
               /\ \E v \in WireVal \ {"_X"} : heap'[b][i] = DrivenBy(Nullified(heap[b][i]), v, b)
    BY <1>1, <2>2, DriveWhole DEF DrivesLate
  <2> QED
    BY <1>2, <1>5, <2>1, <2>2, UserEffect DEF portVars
<1> QED
  BY <1>1, <1>2, <1>3, <1>4, <1>5, PassSteps
     DEF PassBegins, PortBegins, BeginUpdate, NoPortStep

(* A wire that was never driven is as its constructor left it; only        *)
(* registers' wires are driven, and none before the passes.                *)
Traces ==
  \A b \in Port : \A i \in Idx(b) :
    LET w == heap[b][i]
    IN  IF w.last_port_drive = NoPort
        THEN w.val = "_0" /\ w.edge = "NULLEDGE" /\ w.old_edge = "NULLEDGE"
        ELSE Type[b] = "PORT_REG" /\ pc \notin {"construct", "run"}

LEMMA TracesInit == Init => Traces
  BY DEF Init, Traces, NewWire

LEMMA BeginsOnce ==
  ASSUME [Next]_vars, pc' \in {"construct", "run"} PROVE pc \in {"construct", "run"}
  BY DEF Next, ConnectDirect, Run, CallConnectAll, ConnectAllReturns, BeginPass, UpdatePort,
         UpdateWire, CallBack, CallBackReturns, RunScript, ScheduleLive, UpdateModule, NextModule,
         PassAgain, EndCycle, vars, loopVars

LEMMA TracesStep ==
  ASSUME FlatCircuit, WholeDrives, DriveOnce, Course, Traces, [Next]_vars PROVE Traces'
<1> SUFFICES ASSUME NEW b \in Port, NEW i \in Idx(b)
             PROVE  IF heap'[b][i].last_port_drive = NoPort
                    THEN /\ heap'[b][i].val = "_0" /\ heap'[b][i].edge = "NULLEDGE"
                         /\ heap'[b][i].old_edge = "NULLEDGE"
                    ELSE Type[b] = "PORT_REG" /\ pc' \notin {"construct", "run"}
  BY DEF Traces
<1>1. /\ IF heap[b][i].last_port_drive = NoPort
         THEN /\ heap[b][i].val = "_0" /\ heap[b][i].edge = "NULLEDGE"
              /\ heap[b][i].old_edge = "NULLEDGE"
         ELSE Type[b] = "PORT_REG" /\ pc \notin {"construct", "run"}
      /\ heap[b][i] \in Wire /\ Phase
  BY LiveWire DEF Traces, Course, Typed
<1>2. CASE SameSignal(heap'[b][i], heap[b][i])
  BY <1>1, <1>2, BeginsOnce DEF SameSignal
<1>3. ASSUME UserStep, Reg(b), NEW v, heap'[b][i] = DrivenBy(Nullified(heap[b][i]), v, b)
      PROVE  heap'[b][i].last_port_drive = b /\ pc \notin {"construct", "run"}
  <2>1. pc \in {"update", "ports"}
    BY <1>1, <1>3, Raised DEF UserStep, RunScript, Phase, Course
  <2> QED
    BY <1>1, <1>3, <2>1, DrivenFields
<1> QED
  BY <1>1, <1>2, <1>3, SignalEffect, BeginsOnce, PortAssumption DEF Reg

LEMMA WireElsewhere ==
  ASSUME Typed, WireStep, NEW b \in Port, NEW i \in Idx(b), ~Here(b, i)
  PROVE  /\ heap'[b][i] = heap[b][i]
         /\ Unchecked(b, i)' = Unchecked(b, i) /\ Unreleased(b, i)' = Unreleased(b, i)
<1>1. /\ frame.port # NoPort /\ TypeInv /\ wires' = wires /\ Ahead' = Ahead
  BY WireCases
<1>2. PICK x : SetUpdatedWire(x)
  BY WireCases
<1>3. heap'[b][i] = heap[b][i]
  BY <1>1, <1>2, HeapStep
<1> QED
  BY <1>1, <1>3, WireCases, WireDone, WireRaised

(* A change that all ports have had the occasion to check, and that is not *)
(* old, was driven since the last of them was updated.                     *)
Recent ==
  \A b \in Port \ freed : \A i \in Idx(b) :
    Unchecked(b, i) = {} /\ IsChanged(heap[b][i]) =>
      heap[b][i].refcount = 1 /\ Unreleased(b, i) = {}

LEMMA RecentInit == Init => Recent
  BY DEF Init, Recent, NewWire, IsChanged

LEMMA LastCheck ==
  ASSUME NEW w \in Wire, NEW S, NEW p, NEW U, U \ {p} = {}, p \in U, NEW d, CountFits(w, S, U, d)
  PROVE  ~IsChanged(Checked(w))
<1>1. U = {p}
  OBVIOUS
<1>2. Cardinality(U) = 1
  BY <1>1, FS_Singleton
<1>3. CASE ~IsChanged(w)
  BY <1>3 DEF Checked
<1>4. CASE IsChanged(w)
  <2>1. w.modules_connected = 0
    BY <1>2, <1>4 DEF CountFits, Wire, WireOf
  <2>2. Checked(w) = [w EXCEPT !.old_edge = w.edge,
                               !.modules_connected = w.modules_connected_orig]
    BY <1>4, <2>1 DEF Checked
  <2> QED
    BY <2>2 DEF IsChanged, Wire, WireOf
<1> QED
  BY <1>3, <1>4

LEMMA RecentStep ==
  ASSUME FlatCircuit, LinkedOnce, WholeDrives, DriveOnce,
         Course, Orders, Counted, Recent, ~crowded, [Next]_vars
  PROVE  Recent'
<1>1. Typed /\ Phase /\ TypeInv
  BY DEF Course, Typed
<1> SUFFICES ASSUME NEW b \in Port \ freed', NEW i \in Idx(b), IsChanged(heap'[b][i]),
                    Unchecked(b, i)' = {}
             PROVE  heap'[b][i].refcount = 1 /\ Unreleased(b, i)' = {}
  BY DEF Recent
<1>2. b \in Port \ freed /\ b \in Port
  BY <1>1, FreedGrows
<1>3. /\ heap[b][i] \in Wire
      /\ CountFits(heap[b][i], Sharers(b), Unchecked(b, i), driven)
      /\ Unchecked(b, i) = {} /\ IsChanged(heap[b][i]) =>
           heap[b][i].refcount = 1 /\ Unreleased(b, i) = {}
  BY <1>1, <1>2, LiveWire DEF Counted, Recent
<1>4. ASSUME heap'[b][i] = heap[b][i], Unchecked(b, i)' = Unchecked(b, i),
             Unreleased(b, i)' = Unreleased(b, i)
      PROVE  heap'[b][i].refcount = 1 /\ Unreleased(b, i)' = {}
  BY <1>3, <1>4
<1>5. CASE LinkStep
  <2>1. ~IsChanged(heap[b][i])
    BY <1>3, <1>5, OutsidePass DEF LinkStep, CountFits
  <2>2. heap'[b][i] \in {heap[b][i], Linked(heap[b][i])}
    BY <1>1, <1>2, <1>5, CircuitPorts, LinkHeap, LinkEffect DEF LinkStep, portVars
  <2>3. IsChanged(Linked(heap[b][i])) <=> IsChanged(heap[b][i])
    BY <1>3 DEF Linked, IsChanged, Wire, WireOf
  <2> QED
    BY <2>1, <2>2, <2>3
<1>6. CASE PassBegins
  <2>1. Unchecked(b, i)' = Sharers(b) /\ Sharers(b) # {}
    BY <1>2, <1>6, BeforePass, LiveVector DEF PassBegins, Sharers
  <2> QED
    BY <2>1
<1>7. CASE PortBegins
  <2>1. PICK p \in Ahead : BeginUpdate(p) /\ Ahead' = Ahead \ {p}
    BY <1>7 DEF PortBegins
  <2>2. p \in Port /\ heap' = heap
    BY <2>1 DEF Ahead, BeginUpdate
  <2> QED
    BY <1>2, <1>4, <2>1, <2>2, BeginSets
<1>8. CASE WireStep
  <2>1. CASE ~Here(b, i)
    BY <1>1, <1>2, <1>4, <1>8, <2>1, WireElsewhere
  <2>2. CASE Here(b, i)
    <3>1. Unreleased(b, i) # {}
      BY <1>1, <1>8, <2>2, HereLeft, WireCases DEF Here
    <3>2. CASE Unchecked(b, i)' = Unchecked(b, i) /\ SameCount(heap'[b][i], heap[b][i])
      BY <1>3, <3>1, <3>2 DEF SameCount, IsChanged
    <3>3. CASE /\ frame.port \in Unchecked(b, i)
               /\ Unchecked(b, i)' = Unchecked(b, i) \ {frame.port}
               /\ SameCount(heap'[b][i], Checked(heap[b][i]))
      <4>1. ~IsChanged(Checked(heap[b][i]))
        BY <1>3, <3>3, LastCheck
      <4> QED
        BY <3>3, <4>1 DEF SameCount, IsChanged
    <3> QED
      BY <1>1, <1>2, <1>8, <3>2, <3>3, WireChecks
  <2> QED
    BY <2>1, <2>2
<1>9. CASE UserStep
  <2>1. /\ Unchecked(b, i)' = Unchecked(b, i) /\ Unreleased(b, i)' = Unreleased(b, i)
    BY <1>9, SetsStay DEF UserStep, RunScript, Drive, portVars
  <2>2. CASE heap'[b][i] = heap[b][i]
    BY <1>4, <2>1, <2>2
  <2>3. ASSUME NEW c \in DriveCalls, DrivesLate(c), b = c.port
        PROVE  heap'[b][i].refcount = 1 /\ Unreleased(b, i) = {}
    <3>1. Unreleased(b, i) = {}
      BY <2>3 DEF DrivesLate
    <3>2. PICK v : heap[b][i].refcount = 0 /\ heap'[b][i] = DrivenBy(Nullified(heap[b][i]), v, b)
      BY <1>1, <2>3, DriveWhole
    <3> QED
      BY <1>3, <3>1, <3>2, DrivenFields
  <2>4. ASSUME NEW c \in DriveCalls, DrivesLate(c), b # c.port PROVE heap'[b][i] = heap[b][i]
    BY <1>1, <1>2, <2>4, DriveHeap DEF DrivesLate
  <2> QED
    BY <1>9, <2>1, <2>2, <2>3, <2>4, UserEffect DEF portVars
<1>10. CASE NoPortStep
  BY <1>4, <1>10, SetsStay DEF NoPortStep
<1> QED
  BY <1>1, <1>5, <1>6, <1>7, <1>8, <1>9, <1>10, PassSteps

(* The first of a vector's sharers to be updated, if it watches all its    *)
(* wires, has read what is on them, or is still to be updated and will be  *)
(* called back for what was driven.                                        *)
Untold(p, i) ==
  LET w == WiresOf(p)[i]
  IN  /\ IsChanged(w) /\ w.refcount = 1 /\ w.last_port_drive # NoPort
      /\ Unreleased(wires[p], i) = {} \/ p \in Unchecked(wires[p], i)
      /\ frame.port = p => frame.called = {}

Told ==
  \A p \in Port : Watching(p) /\ First(p) =>
    \A i \in Idx(p) : seen[p][i] = WiresOf(p)[i].val \/ Untold(p, i)

LEMMA ToldInit == Init => Told
<1> SUFFICES ASSUME Init, NEW p \in Port, NEW i \in Idx(p)
             PROVE  seen[p][i] = WiresOf(p)[i].val
  BY DEF Told
<1>1. seen[p] = Values(p) /\ WiresOf(p) = heap[p] /\ DOMAIN heap[p] = Idx(p)
  BY DEF Init, WiresOf
<1> QED
  BY <1>1 DEF Values

LEMMA FrontBefore ==
  ASSUME Typed, frame.port # NoPort, NEW q \in Ahead PROVE UpdatedBefore(frame.port, q)
<1>1. PICK m \in Module : \E k \in DOMAIN Modules[m] : Modules[m][k] = q /\ Later(m, k)
  BY DEF Ahead
<1>2. PICK k \in DOMAIN Modules[m] : Modules[m][k] = q /\ Later(m, k)
  BY <1>1
<1>3. m \in Nat /\ k \in Nat
  BY Positions
<1>4. mod < m \/ (mod = m /\ next - 1 < k)
  BY <1>2, <1>3, FrontPlace DEF Later
<1> QED
  BY <1>2, <1>4, FrontPlace DEF UpdatedBefore

(* What a callback reads is the only thing that changes seen.              *)
LEMMA SeenStep ==
  ASSUME Typed, [Next]_vars
  PROVE  IF RaiseSignal THEN seen' = [seen EXCEPT ![frame.port] = Values(frame.port)]
                        ELSE seen' = seen
<1>1. CASE CallBack
  BY <1>1, CallbackReads DEF CallBack, RaiseSignal
<1>2. CASE ~CallBack
  <2>1. seen' = seen
    BY <1>2 DEF Next, ConnectDirect, Run, CallConnectAll, ConnectAllReturns, BeginPass, UpdatePort,
                UpdateWire, CallBackReturns, RunScript, ScheduleLive, UpdateModule, NextModule,
                PassAgain, EndCycle, vars, loopVars
  <2>2. ASSUME RaiseSignal PROVE FALSE
    <3>1. frame.port # NoPort /\ frame.port \in Port /\ ~frame.raised /\ frame'.raised /\ Raises
      BY <2>2, Updated DEF RaiseSignal, Typed
    <3>2. frame # Idle /\ frame' # frame
      BY <3>1, PortAssumption DEF Idle
    <3> QED
      BY <1>2, <3>1, <3>2
         DEF Next, ConnectDirect, Connect, Run, CallConnectAll, ConnectAllReturns,
             BeginConnectAll, ConnectStep, ConnectFound, NextRequest, EndScan, EraseNoted,
             ErasePastEnd, EndErase, ConnectReturns, BeginPass, UpdatePort, BeginUpdate,
             UpdateWire, CheckWire, CallBackReturns, SignalReturns, RunScript, Drive,
             ScheduleLive, Schedule, UpdateModule, NextModule, PassAgain, EndCycle, vars, portVars
  <2> QED
    BY <2>1, <2>2
<1> QED
  BY <1>1, <1>2

(* A wire that the first sharer was not told of is not passed over: when   *)
(* an update comes to it, that sharer's callback is called.                *)
LEMMA FirstIsTold ==
  ASSUME Typed, WireStep, NEW p \in Port, Watching(p), First(p), NEW i \in Idx(p),
         Here(wires[p], i), Untold(p, i)
  PROVE  RaiseSignal /\ p = frame.port
<1>1. /\ frame.port # NoPort /\ wires[p] = wires[frame.port] /\ i = frame.wire
      /\ frame.port \in Sharers(wires[p]) /\ frame.port \in Unreleased(wires[p], i)
      /\ frame.port \in Port /\ frame.wire \in Nat
  BY WireCases, HereLeft, FrontPlace, Updated DEF Here
<1>2. Checks(p, i)
  BY <1>1 DEF Untold, Unchecked
<1>3. p = frame.port
  BY <1>1, <1>2, FrontBefore DEF Checks, First
<1>4. ~frame.raised
  BY <1>1, <1>2, <1>3, FrontNotAhead DEF Checks
<1>5. UpdatedSignal = signals[p][i] /\ UpdatedWire = WiresOf(p)[i]
  BY <1>1, <1>3 DEF UpdatedSignal, UpdatedWire
<1>6. Raises
  BY <1>3, <1>5 DEF Raises, Watching, Watches, Untold, Triggered
<1> QED
  BY <1>3, <1>4, <1>6, WireCases DEF CheckWire, SignalReturns

LEMMA CircuitWidths == ASSUME NEW l \in CircuitLinks PROVE Width[l[1]] = Width[l[2]]
<1>1. CASE l \in Links
  BY <1>1, ConnectWidths DEF EqualWidths
<1>2. CASE l \notin Links
  <2>1. PICK r \in Request : \E k \in DOMAIN r.found : l = Linking(r, r.found[k])
    BY <1>2 DEF CircuitLinks
  <2>2. PICK k \in DOMAIN r.found : l = Linking(r, r.found[k])
    BY <2>1
  <2> QED
    BY <2>2, ConnectWidths DEF Linking
<1> QED
  BY <1>1, <1>2

LEMMA NotBeforeItself == ASSUME NEW p \in Port PROVE ~UpdatedBefore(p, p)
<1> SUFFICES ASSUME UpdatedBefore(p, p) PROVE FALSE
  OBVIOUS
<1>1. PICK m \in Module, n \in Module :
        \E k \in DOMAIN Modules[m], l \in DOMAIN Modules[n] :
          /\ Modules[m][k] = p /\ Modules[n][l] = p
          /\ m < n \/ (m = n /\ k < l)
  BY DEF UpdatedBefore
<1>2. PICK k \in DOMAIN Modules[m], l \in DOMAIN Modules[n] :
          /\ Modules[m][k] = p /\ Modules[n][l] = p
          /\ m < n \/ (m = n /\ k < l)
  BY <1>1
<1>3. m = n /\ k = l /\ m \in Nat /\ k \in Nat
  BY <1>2, PositionOnce, Positions
<1> QED
  BY <1>2, <1>3

(* A link that is made neither puts a told port in doubt nor lets an       *)
(* untold one join.                                                        *)
LEMMA ToldLink ==
  ASSUME FlatCircuit, LinkedOnce, JoinsInTime, Course, Unclaimed, Orders, ~crowded, Traces, Told,
         LinkStep, seen' = seen, signals' = signals
  PROVE  Told'
<1>1. Typed /\ TypeInv /\ Memory /\ LinkOrigin(CircuitLinks)
  BY DEF Course, Typed
<1>2. ASSUME NEW p \in Port, Watching(p), First(p), NEW i \in Idx(p)
      PROVE  seen[p][i] = WiresOf(p)[i].val
  <2>1. wires[p] \in Port \ freed /\ i \in Idx(wires[p])
    BY <1>1, NeverDangles DEF NoDangling, TypeInv, PortTypeOK, LinkedWidths, Idx
  <2>2. WiresOf(p)[i].refcount = 0
    BY <2>1, OutsidePass DEF Unclaimed, LinkStep, WiresOf
  <2> QED
    BY <1>2, <2>2 DEF Told, Untold
<1>3. CASE UNCHANGED portVars
  <2>1. UNCHANGED <<heap, wires>>
    BY <1>3 DEF portVars
  <2> QED
    BY <1>2, <2>1 DEF Told, Watching, Watches, First, Sharers, WiresOf
<1>4. ASSUME NEW l \in CircuitLinks, Connect(l[1], l[2]), dirty[l[2]],
             \/ pc = "construct"
             \/ Watching(l[2]) /\ (\A q \in Sharers(l[1]) : ~UpdatedBefore(q, l[2]))
                  => NeverDriven(l[1])
      PROVE  Told'
  <2>1. PICK src \in Port, dst \in Port : src = l[1] /\ dst = l[2] /\ l = <<src, dst>>
    BY CircuitPorts
  <2>2. wires[dst] = dst /\ wires[src] = src /\ src # dst /\ Type[dst] = "PORT_WIRE"
    <3>1. dirty[src]
      <4> SUFFICES ASSUME ~dirty[src] PROVE FALSE
        OBVIOUS
      <4>1. <<wires[src], src>> \in CircuitLinks
        BY <1>1 DEF LinkOrigin
      <4> QED
        BY <2>1, <4>1 DEF FlatCircuit
    <3> QED
      BY <1>1, <1>4, <2>1, <3>1 DEF LinkOrigin, FlatCircuit, Connect
  <2>3. \A p \in Port : wires[p] = dst => p = dst
    <3> SUFFICES ASSUME NEW p \in Port, wires[p] = dst, p # dst PROVE FALSE
      OBVIOUS
    <3>1. <<dst, p>> \in CircuitLinks
      BY <1>1 DEF LinkOrigin
    <3> QED
      BY <2>1, <3>1 DEF FlatCircuit
  <2>4. \A p \in Port : wires'[p] = IF p = dst THEN src ELSE wires[p]
    BY <1>1, <1>4, <2>1, <2>2 DEF Connect, Repointed, TypeInv, PortTypeOK
  <2>5. \A b \in Port : \A j \in Idx(b) : heap'[b][j].val = heap[b][j].val
    <3> SUFFICES ASSUME NEW b \in Port, NEW j \in Idx(b)
                 PROVE  SameSignal(heap'[b][j], heap[b][j])
      BY DEF SameSignal
    <3> QED
      BY <1>1, <1>4, <2>1, LinkHeap, SameAfter, LiveWire
  <2> SUFFICES ASSUME NEW p \in Port, Watching(p)', First(p)', NEW i \in Idx(p)
               PROVE  seen[p][i] = heap'[wires'[p]][i].val
    BY DEF Told, WiresOf
  <2>6. Watching(p) /\ wires[p] \in Port /\ i \in Idx(wires[p]) /\ i \in Idx(wires'[p])
    <3>1. TypeInv'
      BY <1>1, <1>4, <2>1, TypeConnect, CircuitWidths
    <3> QED
      BY <1>1, <3>1 DEF Watching, Watches, TypeInv, PortTypeOK, LinkedWidths, Idx
  <2>7. CASE p # dst
    <3>1. wires'[p] = wires[p] /\ Sharers(wires[p]) \subseteq Sharers(wires[p])'
      <4>1. wires'[p] = wires[p] /\ wires[p] # dst
        BY <2>3, <2>4, <2>7
      <4>2. \A q \in Sharers(wires[p]) : wires'[q] = wires[p]
        BY <2>2, <2>4, <4>1 DEF Sharers
      <4> QED
        BY <4>1, <4>2 DEF Sharers
    <3>2. First(p)
      BY <3>1 DEF First
    <3> QED
      BY <1>2, <2>5, <2>6, <3>1, <3>2 DEF WiresOf
  <2>8. CASE p = dst
    <3>1. First(dst)
      <4>1. Sharers(dst) = {dst} /\ ~UpdatedBefore(dst, dst)
        BY <2>2, <2>3, NotBeforeItself DEF Sharers
      <4> QED
        BY <2>2, <4>1 DEF First
    <3>2. seen[p][i] = heap[dst][i].val
      BY <1>2, <2>2, <2>6, <2>8, <3>1 DEF WiresOf
    <3>3. heap[dst][i].val = "_0"
      BY <2>2, <2>6, <2>8 DEF Traces
    <3>4. heap[src][i].val = "_0"
      <4>1. i \in Idx(src)
        BY <2>4, <2>6, <2>8
      <4>2. Sharers(src) \subseteq Sharers(src)'
        BY <2>2, <2>4 DEF Sharers
      <4>3. \A q \in Sharers(src) : ~UpdatedBefore(q, dst)
        BY <2>4, <2>8, <4>2 DEF First
      <4>4. heap[src][i].last_port_drive = NoPort
        BY <1>4, <2>1, <2>6, <2>8, <4>1, <4>3 DEF NeverDriven, Traces
      <4> QED
        BY <4>1, <4>4 DEF Traces
    <3> QED
      BY <2>4, <2>5, <2>6, <2>8, <3>2, <3>3, <3>4
  <2> QED
    BY <2>7, <2>8
<1> QED
  BY <1>3, <1>4, LinkMade

LEMMA ToldStep ==
  ASSUME FlatCircuit, LinkedOnce, WholeDrives, DriveOnce, JoinsInTime, Course, Course',
         Unclaimed, Orders, Counted, Traces, Recent, Told, ~crowded, [Next]_vars
  PROVE  Told'
<1>1. Typed /\ Phase /\ TypeInv /\ Memory /\ signals' = signals
  BY DEF Course, Typed, Phase
<1>2. CASE LinkStep
  <2>1. ~RaiseSignal
    BY <1>2 DEF LinkStep, RaiseSignal, Idle
  <2> QED
    BY <1>1, <1>2, <2>1, SeenStep, ToldLink
<1>3. CASE ~LinkStep
  <2>1. UNCHANGED <<wires, freed>>
    BY <1>1, <1>3, PassSteps, WireCases
       DEF PassBegins, PortBegins, BeginUpdate, UserStep, RunScript, Drive, NoPortStep, portVars
  <2> SUFFICES ASSUME NEW p \in Port, Watching(p), First(p), NEW i \in Idx(p),
                      seen'[p][i] # heap'[wires[p]][i].val
               PROVE  Untold(p, i)'
    BY <1>1, <2>1 DEF Told, Watching, Watches, First, Sharers, WiresOf
  <2>2. PICK b \in Port \ freed :
          b = wires[p] /\ wires'[p] = b /\ i \in Idx(b) /\ p \in Sharers(b)
    BY <1>1, <2>1, NeverDangles DEF Course, NoDangling, TypeInv, PortTypeOK, LinkedWidths, Idx, Sharers
  <2>3. heap[b][i] \in Wire /\ (seen[p][i] = heap[b][i].val \/ Untold(p, i))
    BY <1>1, <2>2, LiveWire DEF Told, WiresOf
  <2>4. ASSUME Untold(p, i), heap'[b][i] = heap[b][i], Unchecked(b, i)' = Unchecked(b, i),
               Unreleased(b, i)' = Unreleased(b, i),
               frame'.port = p =>
                 frame'.called = {} \/ (frame.port = p /\ frame'.called = frame.called)
        PROVE  Untold(p, i)'
    BY <2>1, <2>2, <2>4 DEF Untold, WiresOf
  <2>5. ASSUME heap' = heap, ~RaiseSignal PROVE Untold(p, i)
    BY <1>1, <2>2, <2>3, <2>5, SeenStep
  <2>6. CASE PassBegins
    <3>1. Untold(p, i) /\ frame'.port # p
      BY <2>5, <2>6, PortAssumption DEF PassBegins, RaiseSignal, Idle
    <3>2. p \in Unchecked(b, i)'
      BY <2>1, <2>2, <2>6, BeforePass DEF PassBegins, Sharers
    <3> QED
      BY <2>1, <2>2, <2>6, <3>1, <3>2 DEF Untold, WiresOf, PassBegins
  <2>7. CASE PortBegins
    <3>1. PICK q \in Ahead : BeginUpdate(q) /\ Ahead' = Ahead \ {q}
      BY <2>7 DEF PortBegins
    <3>2. q \in Port /\ heap' = heap /\ frame'.called = {} /\ frame.port = NoPort
      BY <3>1 DEF Ahead, BeginUpdate, Idle
    <3>3. Untold(p, i)
      BY <2>5, <3>2 DEF RaiseSignal
    <3>4. Unchecked(b, i)' = Unchecked(b, i) /\ Unreleased(b, i)' = Unreleased(b, i)
      BY <2>2, <3>1, <3>2, BeginSets
    <3> QED
      BY <2>4, <3>2, <3>3, <3>4
  <2>8. CASE WireStep
    <3>1. heap'[b][i].val = heap[b][i].val
      BY <1>1, <2>2, <2>8, WireSignal DEF SameSignal
    <3>2. ~(RaiseSignal /\ p = frame.port)
      <4> SUFFICES ASSUME RaiseSignal, p = frame.port PROVE FALSE
        OBVIOUS
      <4>1. seen'[p] = Values(p)
        BY <1>1, SeenStep DEF Typed, LoopTypeOK
      <4>2. i \in DOMAIN WiresOf(p)
        BY <1>1, <2>2 DEF TypeInv, PortTypeOK, WiresOf
      <4> QED
        BY <2>2, <3>1, <4>1, <4>2 DEF Values, WiresOf
    <3>3. Untold(p, i)
      <4>1. seen'[p] = seen[p]
        BY <1>1, <3>2, SeenStep DEF Typed, LoopTypeOK
      <4> QED
        BY <2>2, <2>3, <3>1, <4>1
    <3>4. ~Here(b, i)
      BY <1>1, <2>2, <2>8, <3>2, <3>3, FirstIsTold
    <3>5. frame'.port = p => frame.port = p /\ frame'.called = frame.called
      <4>1. CASE RaiseSignal
        BY <1>1, <3>2, <4>1, Updated DEF RaiseSignal
      <4>2. CASE ~RaiseSignal
        <5>1. frame' = NextFrame /\ frame.port # NoPort
          BY <1>1, <2>8, <4>2, WireCases
        <5> QED
          BY <1>1, <5>1, Updated, PortAssumption DEF NextFrame, Idle
      <4> QED
        BY <4>1, <4>2
    <3>6. /\ heap'[b][i] = heap[b][i]
          /\ Unchecked(b, i)' = Unchecked(b, i) /\ Unreleased(b, i)' = Unreleased(b, i)
      BY <1>1, <2>2, <2>8, <3>4, WireElsewhere
    <3> QED
      BY <2>4, <3>3, <3>5, <3>6
  <2>9. CASE UserStep
    <3>1. /\ frame' = frame /\ ~RaiseSignal /\ wires' = wires
          /\ Unchecked(b, i)' = Unchecked(b, i) /\ Unreleased(b, i)' = Unreleased(b, i)
      <4>1. UNCHANGED <<frame, wires>>
        BY <2>9 DEF UserStep, RunScript, Drive, portVars
      <4>2. ~RaiseSignal
        BY <1>1, <4>1, Updated DEF RaiseSignal
      <4> QED
        BY <2>9, <4>1, <4>2, SetsStay DEF UserStep
    <3>2. CASE heap'[b][i] = heap[b][i]
      BY <1>1, <2>2, <2>3, <2>4, <3>1, <3>2, SeenStep
    <3>3. ASSUME NEW c \in DriveCalls, DrivesLate(c), b # c.port PROVE heap'[b][i] = heap[b][i]
      BY <1>1, <2>2, <3>3, DriveHeap DEF DrivesLate
    <3>4. ASSUME NEW c \in DriveCalls, DrivesLate(c), b = c.port PROVE Untold(p, i)'
      <4>1. PICK v \in WireVal \ {"_X"} :
              heap[b][i].refcount = 0 /\ heap'[b][i] = DrivenBy(Nullified(heap[b][i]), v, b)
        BY <1>1, <2>2, <3>4, DriveWhole
      <4>2. Unchecked(b, i) = {} /\ Unreleased(b, i) = {}
        BY <3>4 DEF DrivesLate
      <4>3. ~IsChanged(heap[b][i]) /\ seen[p][i] = heap[b][i].val
        BY <2>2, <2>3, <4>1, <4>2 DEF Recent, Untold, WiresOf
      <4>4. /\ heap'[b][i].val = v /\ heap'[b][i].edge = EdgeOf(v)
            /\ heap'[b][i].old_edge = heap[b][i].edge
            /\ heap'[b][i].refcount = 1 /\ heap'[b][i].last_port_drive = b
        BY <2>3, <4>1, <4>3, DrivenFields DEF IsChanged
      <4>5. seen[p][i] # v /\ heap[b][i].val # v
        BY <1>1, <2>2, <3>1, <4>3, <4>4, SeenStep
      <4>6. EdgeOf(v) # heap[b][i].edge
        <5>1. CASE heap[b][i].last_port_drive = NoPort
          BY <2>2, <5>1 DEF Traces, EdgeOf, WireVal
        <5>2. CASE heap[b][i].last_port_drive # NoPort
          <6>1. heap[b][i].edge = EdgeOf(heap[b][i].val) /\ heap[b][i].val \in WireVal
            BY <1>1, <2>2, <2>3, <5>2
               DEF Memory, GoodWires, GoodWire, EdgeShowsValue, Wire, WireOf
          <6> QED
            BY <4>5, <6>1, EdgesDiffer
        <5> QED
          BY <5>1, <5>2
      <4>7. frame.port # p
        <5> SUFFICES ASSUME frame.port = p PROVE FALSE
          OBVIOUS
        <5>1. frame.port # NoPort
          BY PortAssumption
        <5>2. p \in Unreleased(b, frame.wire)
          BY <1>1, <2>2, <5>1, HereLeft
        <5> QED
          BY <3>4, <5>2 DEF DrivesLate
      <4> QED
        BY <2>2, <3>1, <4>2, <4>4, <4>6, <4>7, PortAssumption DEF Untold, WiresOf, IsChanged
    <3> QED
      BY <2>9, <3>2, <3>3, <3>4, UserEffect DEF portVars
  <2>10. CASE NoPortStep
    <3>1. ~RaiseSignal
      BY <1>1, <2>10, Updated DEF NoPortStep, RaiseSignal
    <3>2. Untold(p, i)
      BY <2>5, <2>10, <3>1 DEF NoPortStep
    <3> QED
      BY <2>4, <2>10, <3>2, SetsStay DEF NoPortStep
  <2> QED
    BY <1>1, <1>3, <2>6, <2>7, <2>8, <2>9, <2>10, PassSteps
<1> QED
  BY <1>2, <1>3

LEMMA ToldDelivers == ASSUME FlatCircuit, Course, Unclaimed, Told PROVE Delivered
<1> SUFFICES ASSUME BetweenCycles, NEW p \in Port, Watching(p), First(p)
             PROVE  seen[p] = Values(p)
  BY DEF Delivered
<1>1. Typed /\ TypeInv /\ Memory
  BY DEF Course, Typed
<1>2. frame = Idle /\ Ahead = {} /\ ~driven
  BY IdleFrame, NothingAhead DEF BetweenCycles, Course, Typed, Updating, Phase
<1>3. wires[p] \in Port \ freed /\ Idx(wires[p]) = Idx(p)
  BY <1>1, NeverDangles DEF Course, NoDangling, TypeInv, PortTypeOK, LinkedWidths, Idx
<1>4. ASSUME NEW i \in Idx(p) PROVE seen[p][i] = WiresOf(p)[i].val
  <2>1. WiresOf(p)[i].refcount = 0
    BY <1>2, <1>3, OutsidePass DEF Unclaimed, WiresOf
  <2> QED
    BY <2>1 DEF Told, Untold
<1>5. DOMAIN WiresOf(p) = Idx(p)
  BY <1>1, <1>3 DEF TypeInv, PortTypeOK, WiresOf
<1>6. seen[p] \in [Idx(p) -> WireVal] /\ Values(p) \in [Idx(p) -> WireVal]
  BY <1>1, ValuesType DEF Typed, LoopTypeOK
<1>7. \A i \in Idx(p) : seen[p][i] = Values(p)[i]
  BY <1>4, <1>5 DEF Values
<1> QED
  BY <1>6, <1>7

-----------------------------------------------------------------------------
(* No drive finds a wire that another drive left, since each register is   *)
(* driven by one piece of user code.                                       *)
CallsLeft ==
  /\ DrivesOnce(script)
  /\ \A j \in DOMAIN script : Reg(script[j].port) =>
       \/ pc = "update" /\ UpdateDrives(mod, script[j].port)
       \/ /\ frame.raised
          /\ \E s \in frame.called : SignalDrives(frame.port, s, script[j].port)

(* None of the user code that the pass has still to run drives b.          *)
Exhausted(b) ==
  /\ \A j \in DOMAIN script : script[j].port # b
  /\ \A m \in Module : UpdateDrives(m, b) => m < mod \/ (m = mod /\ pc # "ports")
  /\ \A p \in Port : \A s \in Signal :
       SignalDrives(p, s, b) => p \notin Ahead /\ (p = frame.port => s \in frame.called)

DrivenLast ==
  \A b \in Port \ freed : Reg(b) =>
    \A i \in Idx(b) : Unreleased(b, i) = {} /\ heap[b][i].refcount # 0 => Exhausted(b)

LEMMA DrivenInit == Init => CallsLeft /\ DrivenLast
<1> SUFFICES ASSUME Init PROVE CallsLeft /\ DrivenLast
  OBVIOUS
<1>1. script = <<>> /\ \A b \in Port : \A i \in Idx(b) : heap[b][i].refcount = 0
  BY DEF Init, NewWire
<1> QED
  BY <1>1 DEF CallsLeft, DrivesOnce, DrivenLast

(* What a callback may run is what its signal drives.                      *)
LEMMA RaisedSource ==
  ASSUME Typed, Phase, CallBack
  PROVE  /\ frame.port # NoPort /\ frame.port \in Port /\ frame'.port = frame.port
         /\ frame'.raised /\ frame'.called = frame.called \cup {UpdatedSignal}
         /\ UpdatedSignal \in Signal \ frame.called /\ UpdatedSignal.raise \in Callback
         /\ script' \in CallbackScripts[UpdatedSignal.raise]
         /\ \A j \in DOMAIN script' : SignalDrives(frame.port, UpdatedSignal, script'[j].port)
<1>1. /\ frame.port # NoPort /\ RaiseSignal /\ script' \in CallbackScripts[UpdatedSignal.raise]
      /\ UpdatedSignal.raise # NoCallback /\ UpdatedSignal \notin frame.called
  BY DEF CallBack, RaiseSignal, Raises
<1>2. /\ frame.port \in Port /\ frame.wire \in Idx(frame.port) /\ UpdatedSignal \in Signal
      /\ frame \in [port : Port, wire : Nat, called : SUBSET Signal, raised : BOOLEAN]
  BY <1>1, FrontPlace, Updated DEF Typed, Idx
<1>3. UpdatedSignal = Sensitivity[frame.port][frame.wire]
  BY DEF Phase, UpdatedSignal
<1>4. UpdatedSignal.raise \in Callback
  BY <1>1, <1>2 DEF Signal
<1>5. \A j \in DOMAIN script' : SignalDrives(frame.port, UpdatedSignal, script'[j].port)
  BY <1>1, <1>2, <1>3 DEF SignalDrives
<1> QED
  BY <1>1, <1>2, <1>4, <1>5 DEF RaiseSignal

LEMMA TailCalls ==
  ASSUME Typed, RunScript
  PROVE  /\ script # <<>> /\ 1 \in DOMAIN script /\ Head(script) = script[1]
         /\ Head(script) \in DriveCalls
         /\ \A j \in DOMAIN script' :
              j \in Nat /\ j + 1 # 1 /\ j + 1 \in DOMAIN script /\ script'[j] = script[j + 1]
<1>1. script # <<>> /\ script' = Tail(script) /\ script \in Seq(DriveCalls)
  BY DEF RunScript, Typed, LoopTypeOK, Script
<1> QED
  BY <1>1, HeadTailProperties, EmptySeq

LEMMA CallsStep ==
  ASSUME OneSource PROVE Typed /\ Phase /\ CallsLeft /\ [Next]_vars => CallsLeft'
<1> SUFFICES ASSUME Typed, Phase, CallsLeft, [Next]_vars PROVE CallsLeft'
  OBVIOUS
<1>0. ASSUME script' = <<>> PROVE CallsLeft'
  BY <1>0 DEF CallsLeft, DrivesOnce
<1>1. CASE UpdateModule
  <2>1. mod \in Module /\ mod' = mod /\ pc' = "update" /\ script' \in UpdateScripts[mod]
    BY <1>1 DEF UpdateModule, Typed, LoopTypeOK
  <2>2. \A j \in DOMAIN script' : UpdateDrives(mod, script'[j].port)
    BY <2>1 DEF UpdateDrives
  <2> QED
    BY <2>1, <2>2 DEF OneSource, CallsLeft, DrivesOnce
<1>2. CASE CallBack
  <2>1. \A j \in DOMAIN script' : \E s \in frame'.called :
          SignalDrives(frame'.port, s, script'[j].port)
    BY <1>2, RaisedSource
  <2>2. DrivesOnce(script')
    BY <1>2, RaisedSource DEF OneSource
  <2> QED
    BY <1>2, <2>1, <2>2, RaisedSource DEF CallsLeft, DrivesOnce
<1>3. CASE RunScript
  <2>1. UNCHANGED <<frame, pc, mod>>
    BY <1>3 DEF RunScript, Drive, portVars
  <2>2. \A j \in DOMAIN script' :
          j \in Nat /\ j + 1 \in DOMAIN script /\ script'[j] = script[j + 1]
    BY <1>3, TailCalls
  <2>3. DrivesOnce(script)'
    <3> SUFFICES ASSUME NEW j \in DOMAIN script', NEW k \in DOMAIN script',
                        Reg(script'[j].port), script'[j].port = script'[k].port
                 PROVE  j = k
      BY DEF DrivesOnce
    <3>1. j + 1 = k + 1
      BY <2>2 DEF CallsLeft, DrivesOnce
    <3> QED
      BY <2>2, <3>1
  <2> QED
    BY <2>1, <2>2, <2>3 DEF CallsLeft
<1>4. CASE ScheduleLive \/ UNCHANGED vars
  <2>1. UNCHANGED <<script, pc, mod, frame>>
    BY <1>4 DEF ScheduleLive, Schedule, vars, portVars, loopVars
  <2> QED
    BY <2>1 DEF CallsLeft, DrivesOnce
<1>5. CASE NextModule
  BY <1>0, <1>5 DEF NextModule, PortsDone, Phase, Idle
<1>6. CASE UpdateWire \/ CallBackReturns
  <2>1. script = <<>>
    BY <1>6 DEF Phase, Typed, Updating, UpdateWire, CheckWire, CallBackReturns
  <2> QED
    BY <1>0, <1>6, <2>1 DEF UpdateWire, CallBackReturns, loopVars
<1>7. CASE UpdatePort
  <2>1. script = <<>>
    BY <1>7 DEF Phase, UpdatePort, BeginUpdate, Idle
  <2> QED
    BY <1>0, <1>7, <2>1 DEF UpdatePort
<1>8. CASE ConnectDirect \/ Run \/ CallConnectAll \/ ConnectAllReturns \/ BeginPass
           \/ PassAgain \/ EndCycle
  <2>1. script = <<>>
    BY <1>8, Raised DEF Phase, ConnectDirect, Run, CallConnectAll, ConnectAllReturns, BeginPass,
                        PassAgain, EndCycle
  <2> QED
    BY <1>0, <1>8, <2>1
       DEF ConnectDirect, Run, CallConnectAll, ConnectAllReturns, BeginPass, PassAgain, EndCycle,
           loopVars
<1> QED
  BY <1>1, <1>2, <1>3, <1>4, <1>5, <1>6, <1>7, <1>8 DEF Next

(* Until the next pass begins, what was exhausted stays so.                *)
LEMMA ExhaustedStays ==
  ASSUME NEW b, Exhausted(b), UNCHANGED <<mod, script, frame>>, Ahead' = Ahead,
         pc' = "ports" => pc = "ports"
  PROVE  Exhausted(b)'
  BY DEF Exhausted

LEMMA ExhaustedStep ==
  ASSUME Typed, Phase, [Next]_vars, ~BeginPass, NEW b \in Port, Exhausted(b)
  PROVE  Exhausted(b)'
<1>1. CASE ConnectDirect \/ Run \/ CallConnectAll \/ ConnectAllReturns \/ PassAgain \/ EndCycle
  <2>1. /\ UNCHANGED <<mod, script, frame>>
        /\ pc \notin {"ports", "update"} /\ pc' \notin {"ports", "update"}
    BY <1>1
       DEF ConnectDirect, Connect, Run, CallConnectAll, BeginConnectAll, ConnectStep, ConnectFound,
           NextRequest, EndScan, EraseNoted, ErasePastEnd, EndErase, ConnectAllReturns,
           ConnectReturns, PassAgain, EndCycle, portVars, loopVars
  <2>2. Ahead = {} /\ Ahead' = {}
    BY <2>1 DEF Ahead
  <2> QED
    BY <2>1, <2>2, ExhaustedStays
<1>2. CASE ScheduleLive \/ UNCHANGED vars
  <2>1. UNCHANGED <<mod, next, pc, script, frame>>
    BY <1>2 DEF ScheduleLive, Schedule, vars, portVars, loopVars
  <2> QED
    BY <2>1, AheadStays, ExhaustedStays
<1>3. CASE UpdatePort
  <2>1. PICK p \in Ahead : BeginUpdate(p) /\ Ahead' = Ahead \ {p}
    BY <1>3, OneLessAhead DEF UpdatePort
  <2>2. frame'.port = p /\ UNCHANGED <<mod, pc, script>>
    BY <1>3, <2>1 DEF UpdatePort, BeginUpdate, Idle
  <2> QED
    BY <2>1, <2>2 DEF Exhausted
<1>4. CASE UpdateWire \/ CallBackReturns
  <2>1. frame' = NextFrame /\ frame.port # NoPort /\ UNCHANGED <<mod, next, pc, script>>
    BY <1>4 DEF UpdateWire, CheckWire, CallBackReturns, SignalReturns, loopVars
  <2>2. Ahead' = Ahead
    BY <2>1, AheadStays
  <2>3. frame'.port = NoPort \/ (frame'.port = frame.port /\ frame'.called = frame.called)
    BY <2>1, Updated DEF NextFrame, Idle, Typed
  <2> QED
    BY <2>1, <2>2, <2>3, PortAssumption DEF Exhausted
<1>5. CASE CallBack
  <2>1. UNCHANGED <<mod, next, pc>> /\ Ahead' = Ahead
    BY <1>5, AheadStays DEF CallBack
  <2>2. \A j \in DOMAIN script' : script'[j].port # b
    BY <1>5, RaisedSource DEF Exhausted
  <2>3. frame'.port = frame.port /\ frame.called \subseteq frame'.called
    BY <1>5, RaisedSource
  <2> QED
    BY <2>1, <2>2, <2>3 DEF Exhausted
<1>6. CASE RunScript
  <2>1. UNCHANGED <<mod, next, pc, frame>> /\ Ahead' = Ahead
    BY <1>6, AheadStays DEF RunScript, Drive, portVars
  <2>2. \A j \in DOMAIN script' : script'[j].port # b
    BY <1>6, TailCalls DEF Exhausted
  <2> QED
    BY <2>1, <2>2 DEF Exhausted
<1>7. CASE UpdateModule
  <2>1. /\ UNCHANGED <<mod, next, frame>> /\ mod \in Module /\ mod \in Nat
        /\ pc = "ports" /\ pc' = "update" /\ script' \in UpdateScripts[mod]
    BY <1>7, Placed DEF UpdateModule, PortsDone, portVars, Typed, LoopTypeOK
  <2>2. ~UpdateDrives(mod, b)
    BY <2>1 DEF Exhausted
  <2>3. \A j \in DOMAIN script' : script'[j].port # b
    BY <2>1, <2>2 DEF UpdateDrives
  <2>4. Ahead' = Ahead
    BY <2>1, AheadStays
  <2> QED
    BY <2>1, <2>3, <2>4 DEF Exhausted
<1>8. CASE NextModule
  <2>1. Ahead' = Ahead /\ frame' = frame /\ script' = script
    BY <1>8, NextModuleAhead DEF NextModule, portVars
  <2>2. \/ mod' = mod + 1 /\ mod \in Nat
        \/ mod' = mod /\ pc' # "ports"
    BY <1>8, Placed DEF NextModule, Typed
  <2>3. \A m \in Module : m \in Nat
    BY Positions
  <2>4. ASSUME NEW m \in Module, UpdateDrives(m, b)
        PROVE  m < mod' \/ (m = mod' /\ pc' # "ports")
    BY <2>2, <2>3, <2>4 DEF Exhausted
  <2> QED
    BY <2>1, <2>4 DEF Exhausted
<1> QED
  BY <1>1, <1>2, <1>3, <1>4, <1>5, <1>6, <1>7, <1>8 DEF Next

(* The user code that drives a register has no second drive of it left,    *)
(* and no other user code drives it.                                       *)
LEMMA DriveExhausts ==
  ASSUME OneSource, Typed, Phase, CallsLeft, NEW c \in DriveCalls, DrivesLate(c), RunScript,
         Ahead' = Ahead
  PROVE  Exhausted(c.port)'
<1> PICK b \in Port : b = c.port
  BY PortAssumption
<1>1. Reg(b) /\ script[1].port = b /\ 1 \in DOMAIN script
  BY TailCalls DEF DrivesLate
<1>2. UNCHANGED <<frame, pc, mod>>
  BY DEF RunScript, Drive, portVars
<1>3. \A j \in DOMAIN script' : script'[j].port # b
  BY <1>1, TailCalls DEF CallsLeft, DrivesOnce
<1>4. CASE pc = "update" /\ UpdateDrives(mod, b)
  <2>1. mod \in Module /\ mod \in Nat
    BY Placed DEF Typed, LoopTypeOK
  <2>2. \A m \in Module : UpdateDrives(m, b) => m = mod
    BY <1>1, <1>4, <2>1 DEF OneSource
  <2>3. \A p \in Port : \A s \in Signal : ~SignalDrives(p, s, b)
    BY <1>1, <1>4, <2>1 DEF OneSource
  <2> QED
    BY <1>2, <1>3, <1>4, <2>2, <2>3 DEF Exhausted
<1>5. ASSUME frame.raised, NEW s \in frame.called, SignalDrives(frame.port, s, b)
      PROVE  Exhausted(b)'
  <2>1. frame.port # NoPort /\ frame.port \in Port /\ frame.port \notin Ahead /\ s \in Signal
    BY <1>5, Raised, FrontPlace, FrontNotAhead, Updated DEF Typed
  <2>2. \A m \in Module : ~UpdateDrives(m, b)
    BY <1>1, <1>5, <2>1 DEF OneSource
  <2>3. \A p \in Port : \A t \in Signal : SignalDrives(p, t, b) => p = frame.port /\ t = s
    BY <1>1, <1>5, <2>1 DEF OneSource
  <2> QED
    BY <1>2, <1>3, <1>5, <2>1, <2>2, <2>3 DEF Exhausted
<1> QED
  BY <1>1, <1>4, <1>5 DEF CallsLeft

LEMMA DrivenStep ==
  ASSUME FlatCircuit, OneSource
  PROVE  Course /\ CallsLeft /\ DrivenLast /\ [Next]_vars => DrivenLast'
<1> SUFFICES ASSUME Course, CallsLeft, DrivenLast, [Next]_vars,
                    NEW b \in Port \ freed', Reg(b), NEW i \in Idx(b),
                    Unreleased(b, i)' = {}, heap'[b][i].refcount # 0
             PROVE  Exhausted(b)'
  BY DEF DrivenLast
<1>1. /\ Typed /\ Phase /\ TypeInv /\ b \in Port \ freed /\ b \in Port
      /\ heap[b][i] \in Wire
  BY FreedGrows, LiveWire DEF Course, Typed
<1>2. ~(Ahead' = Port /\ wires' = wires)
  BY <1>1, BeforePass, LiveVector DEF Sharers
<1>3. ~BeginPass
  BY <1>2, AllAhead DEF BeginPass
<1>4. ASSUME Unreleased(b, i) = {}, heap[b][i].refcount # 0 PROVE Exhausted(b)'
  BY <1>1, <1>3, <1>4, ExhaustedStep DEF DrivenLast
<1>5. CASE PassBegins
  BY <1>2, <1>5 DEF PassBegins
<1>6. CASE PortBegins
  <2>1. PICK p \in Ahead : BeginUpdate(p) /\ Ahead' = Ahead \ {p}
    BY <1>6 DEF PortBegins
  <2>2. p \in Port /\ heap' = heap
    BY <2>1 DEF Ahead, BeginUpdate
  <2> QED
    BY <1>1, <1>4, <2>1, <2>2, BeginSets
<1>7. CASE WireStep
  BY <1>1, <1>4, <1>7, WireReleases
<1>8. CASE UserStep
  <2>1. Unreleased(b, i)' = Unreleased(b, i)
    BY <1>8, SetsStay DEF UserStep, RunScript, Drive, portVars
  <2>2. CASE heap'[b][i] = heap[b][i]
    BY <1>4, <2>1, <2>2
  <2>3. ASSUME NEW c \in DriveCalls, DrivesLate(c), b # c.port PROVE heap'[b][i] = heap[b][i]
    BY <1>1, <2>3, DriveHeap DEF DrivesLate
  <2>4. ASSUME NEW c \in DriveCalls, DrivesLate(c), b = c.port PROVE Exhausted(b)'
    BY <1>1, <1>8, <2>4, DriveExhausts DEF UserStep
  <2> QED
    BY <1>8, <2>2, <2>3, <2>4, UserEffect DEF portVars
<1>9. CASE LinkStep
  <2>1. Unreleased(b, i) = {}
    BY <1>9, OutsidePass DEF LinkStep
  <2>2. heap'[b][i] \in {heap[b][i], Linked(heap[b][i])}
    BY <1>1, <1>9, CircuitPorts, LinkHeap, LinkEffect DEF LinkStep, portVars
  <2> QED
    BY <1>1, <1>4, <2>1, <2>2, LinkedCount
<1>10. CASE NoPortStep
  BY <1>4, <1>10, SetsStay DEF NoPortStep
<1> QED
  BY <1>1, <1>5, <1>6, <1>7, <1>8, <1>9, <1>10, PassSteps

LEMMA DrivenOnce == ASSUME FlatCircuit, Course, DrivenLast PROVE DriveOnce
<1> SUFFICES ASSUME script # <<>>, Accepts(Head(script)), NEW i \in Idx(Head(script).port)
             PROVE  WiresOf(Head(script).port)[i].refcount = 0
  BY DEF DriveOnce
<1>1. PICK c \in DriveCalls : c = Head(script) /\ c = script[1] /\ 1 \in DOMAIN script
  BY HeadCall
<1>2. /\ Reg(c.port) /\ c.port \in Port \ freed /\ wires[c.port] = c.port
      /\ Unreleased(c.port, i) = {}
  BY <1>1, HeadCall
<1>3. ~Exhausted(c.port)
  BY <1>1 DEF Exhausted
<1> QED
  BY <1>1, <1>2, <1>3 DEF DrivenLast, WiresOf

-----------------------------------------------------------------------------
(* Links stand once they are made, and what constructors asked for is made *)
(* before the first pass.                                                  *)
LinkStands(l) == Type[l[2]] = "PORT_WIRE" => wires[l[2]] = l[1]

LinksStand ==
  /\ \A k \in DOMAIN DirectLinks :
       LinkStands(DirectLinks[k]) \/ \E j \in DOMAIN links : links[j] = DirectLinks[k]
  /\ \A r \in Connected : LinkStands(Link(r))

EarlyMade ==
  /\ pc # "construct" => links = <<>>
  /\ \A r \in EarlyRequest :
       /\ r \notin unasked
       /\ pc \notin {"construct", "run"} /\ Findable(r) => r \notin Waiting

LEMMA DirectIsLink ==
  ASSUME NEW k \in DOMAIN DirectLinks PROVE DirectLinks[k] \in CircuitLinks
<1>1. DirectLinks \in Seq(Links)
  BY RefresherAssumption
<1>2. DirectLinks[k] \in Links
  BY <1>1, LenProperties, ElementOfSeq
<1> QED
  BY <1>2 DEF CircuitLinks

LEMMA SourceKept ==
  ASSUME FlatCircuit, Course, NEW l \in CircuitLinks PROVE wires[l[1]] = l[1]
<1>1. l[1] \in Port
  BY CircuitPorts
<1>2. ASSUME ~dirty[l[1]] PROVE FALSE
  <2>1. <<wires[l[1]], l[1]>> \in CircuitLinks
    BY <1>1, <1>2 DEF Course, LinkOrigin
  <2> QED
    BY <2>1 DEF FlatCircuit
<1> QED
  BY <1>1, <1>2 DEF Course, LinkOrigin

LEMMA LinkPlaced ==
  ASSUME FlatCircuit, Course, NEW l \in CircuitLinks, Connect(l[1], l[2])
  PROVE  wires'[l[2]] = l[1] /\ \A p \in Port : p # l[2] => wires'[p] = wires[p]
<1>1. wires[l[1]] = l[1] /\ l[2] \in Port
  BY SourceKept, CircuitPorts
<1> QED
  BY <1>1 DEF Connect, Repointed, Course, Typed, TypeInv, PortTypeOK

LEMMA StandInit == Init => LinksStand /\ EarlyMade
<1> SUFFICES ASSUME Init PROVE LinksStand /\ EarlyMade
  OBVIOUS
<1>1. /\ connection_schedules = Scheduled /\ conn = NotConnecting /\ links = DirectLinks
      /\ unasked = Request \ EarlyRequest /\ pc = "construct"
  BY DEF Init, EarlyRequest
<1>2. DOMAIN Scheduled = 1 .. Len(Scheduled) /\ EarlyRequest \subseteq Request
  BY RefresherAssumption, LenProperties, ElementOfSeq DEF EarlyRequest
<1>3. \A j \in DOMAIN Scheduled : ~Passed(j)
  BY <1>1, <1>2 DEF Passed, NotConnecting
<1>4. Connected = {}
  BY <1>1, <1>3 DEF Connected, EarlyRequest
<1> QED
  BY <1>1, <1>4 DEF LinksStand, EarlyMade

LEMMA DirectStands ==
  ASSUME FlatCircuit, LinkedOnce, Course, FreshLinks, LinksStand, ConnectDirect,
         Connected' = Connected
  PROVE  LinksStand'
<1>1. /\ links # <<>> /\ links \in Seq(Links) /\ links' = Tail(links)
      /\ Connect(Head(links)[1], Head(links)[2])
  BY DEF Course, Typed, LoopTypeOK, ConnectDirect
<1>2. /\ Head(links) = links[1] /\ 1 \in DOMAIN links
      /\ \A j \in DOMAIN links : j # 1 => j - 1 \in DOMAIN links' /\ links'[j - 1] = links[j]
  <2>1. /\ Head(links) = links[1] /\ Len(links) \in Nat \ {0} /\ DOMAIN links = 1 .. Len(links)
        /\ DOMAIN links' = 1 .. Len(links) - 1
        /\ \A j \in 1 .. Len(links) - 1 : links'[j] = links[j + 1]
    BY <1>1, HeadTailProperties, EmptySeq, LenProperties
  <2>2. \A j \in DOMAIN links : j # 1 => j - 1 \in 1 .. Len(links) - 1 /\ (j - 1) + 1 = j
    BY <2>1
  <2> QED
    BY <2>1, <2>2
<1>3. PICK n \in DOMAIN DirectLinks : DirectLinks[n] = links[1]
  BY <1>2 DEF FreshLinks
<1>4. /\ wires'[links[1][2]] = links[1][1]
      /\ \A p \in Port : p # links[1][2] => wires'[p] = wires[p]
  BY <1>1, <1>2, <1>3, DirectIsLink, LinkPlaced
<1>5. ASSUME NEW k \in DOMAIN DirectLinks
      PROVE  LinkStands(DirectLinks[k])' \/ \E j \in DOMAIN links' : links'[j] = DirectLinks[k]
  <2>1. CASE DirectLinks[k] = links[1]
    BY <1>4, <2>1 DEF LinkStands
  <2>2. CASE DirectLinks[k] # links[1] /\ LinkStands(DirectLinks[k])
    <3>1. DirectLinks[k][2] # links[1][2] /\ DirectLinks[k][2] \in Port
      BY <1>3, <2>2, DirectIsLink, CircuitPorts DEF LinkedOnce
    <3> QED
      BY <1>4, <2>2, <3>1 DEF LinkStands
  <2>3. ASSUME NEW j \in DOMAIN links, links[j] = DirectLinks[k], DirectLinks[k] # links[1]
        PROVE  \E i \in DOMAIN links' : links'[i] = DirectLinks[k]
    BY <1>2, <2>3
  <2> QED
    BY <2>1, <2>2, <2>3 DEF LinksStand
<1>6. ASSUME NEW r \in Connected PROVE LinkStands(Link(r))'
  <2>1. r \in Request /\ Findable(r)
    BY DEF Connected
  <2>2. Link(r)[2] \in Port /\ Link(r)[2] # links[1][2]
    BY <1>3, <2>1, LinkPorts DEF LinkedOnce
  <2> QED
    BY <1>4, <2>2 DEF LinksStand, LinkStands
<1> QED
  BY <1>5, <1>6 DEF LinksStand

LEMMA FoundStands ==
  ASSUME FlatCircuit, LinkedOnce, Course, Listed, Noting, Asked, LinksStand, ConnectFound,
         links' = links
  PROVE  LinksStand'
<1>1. Linkage /\ OnePortEach
  BY CourseLinkage DEF LinkedOnce
<1>2. Connected' = Connected \cup {Scanned} /\ Scanned \in Request /\ Findable(Scanned)
  BY <1>1, FoundOrder
<1> DEFINE l == Link(Scanned)
<1>3. l \in CircuitLinks /\ l[2] \in Port
  BY <1>2, RequestIsLink, LinkPorts
<1>4. /\ Type[l[2]] = "PORT_WIRE" => wires'[l[2]] = l[1]
      /\ \A p \in Port : p # l[2] => wires'[p] = wires[p]
  <2>1. Connect(l[1], l[2]) \/ (Type[l[2]] # "PORT_WIRE" /\ UNCHANGED portVars)
    BY <1>1, FoundLinks
  <2> HIDE DEF l
  <2> QED
    BY <1>3, <2>1, LinkPlaced DEF portVars
<1>5. ASSUME NEW k \in DOMAIN DirectLinks
      PROVE  LinkStands(DirectLinks[k])' \/ \E j \in DOMAIN links' : links'[j] = DirectLinks[k]
  <2>1. DirectLinks[k][2] \in Port /\ DirectLinks[k][2] # l[2]
    BY <1>2, DirectIsLink, CircuitPorts DEF LinkedOnce
  <2> HIDE DEF l
  <2> QED
    BY <1>4, <2>1 DEF LinksStand, LinkStands
<1>6. ASSUME NEW r \in Connected' PROVE LinkStands(Link(r))'
  <2>1. CASE r = Scanned
    BY <1>4, <2>1 DEF LinkStands
  <2>2. CASE r # Scanned
    <3>1. r \in Connected /\ r \in Request /\ Findable(r)
      BY <1>2, <2>2 DEF Connected
    <3>2. Link(r)[2] \in Port /\ Link(r)[2] # l[2]
      BY <1>2, <2>2, <3>1, LinkPorts DEF LinkedOnce
    <3> HIDE DEF l
    <3> QED
      BY <1>4, <3>1, <3>2 DEF LinksStand, LinkStands
  <2> QED
    BY <2>1, <2>2
<1> QED
  BY <1>5, <1>6 DEF LinksStand

LEMMA StandStep ==
  ASSUME FlatCircuit, LinkedOnce, Course, Orders, LinksStand, [Next]_vars, ~crowded'
  PROVE  LinksStand'
<1>1. Listed /\ Noting /\ Asked /\ FreshLinks
  BY CrowdGrows DEF Orders
<1>2. CASE CallConnectAll /\ ConnectFound
  BY <1>1, <1>2, FoundStands DEF CallConnectAll, loopVars
<1>3. CASE ~(CallConnectAll /\ ConnectFound)
  <2>1. Connected' = Connected
    BY <1>1, <1>3, OrderStep
  <2>2. CASE ConnectDirect
    BY <1>1, <2>1, <2>2, DirectStands
  <2>3. CASE ~ConnectDirect
    <3>1. UNCHANGED <<wires, links>>
      BY <1>3, <2>3
         DEF Next, Run, CallConnectAll, ConnectAllReturns, BeginConnectAll, ConnectStep,
             NextRequest, EndScan, EraseNoted, ErasePastEnd, EndErase, ConnectReturns, BeginPass,
             UpdatePort, BeginUpdate, UpdateWire, CheckWire, CallBack, RaiseSignal,
             CallBackReturns, SignalReturns, RunScript, Drive, ScheduleLive, Schedule,
             UpdateModule, NextModule, PassAgain, EndCycle, vars, loopVars, portVars
    <3> QED
      BY <2>1, <3>1 DEF LinksStand, LinkStands
  <2> QED
    BY <2>1, <2>2, <2>3
<1> QED
  BY <1>2, <1>3

(* Nothing waits but what waited before or has just been asked for.        *)
LEMMA WaitingGrows ==
  ASSUME Course, Listed, Noting, [Next]_vars
  PROVE  unasked' \subseteq unasked /\ Waiting' \subseteq Waiting \cup unasked
<1>1. Linkage /\ ConnectTypeOK
  BY CourseLinkage DEF Course, Typed
<1>2. CASE UNCHANGED <<connection_schedules, unasked>>
  BY <1>2 DEF Waiting
<1>3. CASE EraseNoted
  <2> DEFINE e == Head(conn.erase_index)
  <2>1. /\ e \in 1 .. Len(connection_schedules) /\ Len(connection_schedules) \in Nat
        /\ DOMAIN connection_schedules = 1 .. Len(connection_schedules)
        /\ DOMAIN connection_schedules' = 1 .. Len(connection_schedules) - 1
        /\ \A j \in DOMAIN connection_schedules' :
             connection_schedules'[j] = connection_schedules[IF j < e THEN j ELSE j + 1]
    BY <1>1, <1>3, ErasedPart
  <2> HIDE DEF e
  <2>2. \A j \in DOMAIN connection_schedules' :
          (IF j < e THEN j ELSE j + 1) \in DOMAIN connection_schedules
    BY <2>1
  <2> QED
    BY <1>3, <2>1, <2>2 DEF Waiting, EraseNoted
<1>4. CASE ScheduleLive
  <2>1. PICK r \in Request : Schedule(r)
    BY <1>4 DEF ScheduleLive
  <2>2. Waiting' \subseteq Waiting \cup {r}
    BY <1>1, <2>1, ScheduleAppends DEF Waiting
  <2> QED
    BY <2>1, <2>2 DEF Schedule
<1>5. ~ErasePastEnd
  BY <1>1, NoPastEnd
<1> QED
  BY <1>2, <1>3, <1>4, <1>5
     DEF Next, ConnectDirect, Run, CallConnectAll, ConnectAllReturns, BeginConnectAll,
         ConnectStep, ConnectFound, NextRequest, EndScan, EndErase, ConnectReturns, BeginPass,
         UpdatePort, UpdateWire, CallBack, CallBackReturns, RunScript, UpdateModule, NextModule,
         PassAgain, EndCycle, vars, connVars

(* The call of connect_all in run makes all links that wait for it.        *)
LEMMA EarlyStep ==
  ASSUME Course, Orders, EarlyMade, [Next]_vars, ~crowded' PROVE EarlyMade'
<1>1. Listed /\ Noting /\ Linkage
  BY CrowdGrows, CourseLinkage DEF Orders
<1>2. pc' # "construct" => links' = <<>>
  BY DEF EarlyMade, Next, ConnectDirect, Run, CallConnectAll, ConnectAllReturns, BeginPass,
         UpdatePort, UpdateWire, CallBack, CallBackReturns, RunScript, ScheduleLive,
         UpdateModule, NextModule, PortsDone, PassAgain, EndCycle, vars, loopVars
<1>3. unasked' \subseteq unasked /\ Waiting' \subseteq Waiting \cup unasked
  BY <1>1, WaitingGrows
<1>4. ASSUME pc \in {"construct", "run"}, pc' \notin {"construct", "run"}
      PROVE  \A r \in Waiting' : ~Findable(r)
  <2>1. ConnectAllReturns
    BY <1>4 DEF Next, ConnectDirect, Run, CallConnectAll, BeginPass, UpdatePort, UpdateWire,
                CallBack, CallBackReturns, RunScript, ScheduleLive, UpdateModule, NextModule,
                PortsDone, PassAgain, EndCycle, vars, loopVars
  <2>2. /\ conn.at = "done" /\ conn.erase_index = <<>> /\ UNCHANGED connection_schedules
        /\ conn.i > Len(connection_schedules) /\ conn.i \in Nat
        /\ DOMAIN connection_schedules = 1 .. Len(connection_schedules)
        /\ Len(connection_schedules) \in Nat
    BY <1>1, <2>1, PlacesOfRequests DEF ConnectAllReturns, ConnectReturns, Linkage, Noting
  <2>3. \A j \in DOMAIN connection_schedules : Passed(j)
    BY <2>2 DEF Passed
  <2>4. \A j \in DOMAIN connection_schedules : ~Findable(connection_schedules[j])
    BY <1>1, <2>2, <2>3 DEF Noting
  <2> QED
    BY <2>2, <2>4 DEF Waiting
<1> QED
  BY <1>2, <1>3, <1>4 DEF EarlyMade

(* What constructors asked for stands once the passes have begun.          *)
LEMMA EarlyStands ==
  ASSUME LinksStand, EarlyMade, pc \notin {"construct", "run"}, NEW l \in EarlyLinks
  PROVE  LinkStands(l)
<1>1. CASE \E k \in DOMAIN DirectLinks : l = DirectLinks[k]
  <2>1. DOMAIN links = {}
    BY DEF EarlyMade
  <2> QED
    BY <1>1, <2>1 DEF LinksStand
<1>2. ASSUME NEW r \in EarlyRequest, Findable(r), l = Link(r) PROVE LinkStands(l)
  <2>1. r \in Request
    BY RefresherAssumption, LenProperties, ElementOfSeq DEF EarlyRequest
  <2>2. r \notin unasked /\ r \notin Waiting
    BY <1>2 DEF EarlyMade
  <2>3. r \in Connected
    BY <1>2, <2>1, <2>2 DEF Connected, Waiting
  <2> QED
    BY <1>2, <2>3 DEF LinksStand
<1> QED
  BY <1>1, <1>2 DEF EarlyLinks

(* So a watcher that joins while cycles run is not the first of its        *)
(* vector, and one that joins before them finds a vector never driven.     *)
LEMMA JoinersInTime ==
  ASSUME FlatCircuit, WatchersInTime, Course, Traces, LinksStand, EarlyMade PROVE JoinsInTime
<1> SUFFICES ASSUME NEW r \in Waiting, Findable(r), Watching(Link(r)[2]),
                    \A q \in Sharers(Link(r)[1]) : ~UpdatedBefore(q, Link(r)[2])
             PROVE  NeverDriven(Link(r)[1])
  BY DEF JoinsInTime
<1>1. r \in Request
  BY PlacesOfRequests DEF Waiting, Course, Typed
<1>2. Link(r)[1] \in Port /\ Link(r)[2] \in Port /\ Link(r) \in CircuitLinks
  BY <1>1, LinkPorts, RequestIsLink
<1>3. CASE pc \in {"construct", "run"}
  BY <1>2, <1>3 DEF Traces, NeverDriven
<1>4. CASE pc \notin {"construct", "run"}
  <2>1. r \notin EarlyRequest /\ signals = Sensitivity
    BY <1>4 DEF EarlyMade, Course, Phase
  <2>2. PICK q \in Port :
          /\ UpdatedBefore(q, Link(r)[2])
          /\ q = Link(r)[1] \/ (Type[q] = "PORT_WIRE" /\ <<Link(r)[1], q>> \in EarlyLinks)
    BY <1>1, <2>1 DEF WatchersInTime, Watching
  <2>3. CASE q = Link(r)[1]
    BY <1>2, <2>2, <2>3, SourceKept DEF Sharers
  <2>4. CASE Type[q] = "PORT_WIRE" /\ <<Link(r)[1], q>> \in EarlyLinks
    <3>1. wires[q] = Link(r)[1]
      BY <1>4, <2>4, EarlyStands DEF LinkStands
    <3> QED
      BY <2>2, <3>1 DEF Sharers
  <2> QED
    BY <2>2, <2>3, <2>4
<1> QED
  BY <1>3, <1>4

(* In a circuit as of CyclesSettle, whose drives are of whole ports and of *)
(* definite values, with one source of drives for each register and no     *)
(* watcher that joins late as the first of its vector: at the end of each  *)
(* cycle the first of the ports that share a vector has read what is on    *)
(* it, whatever was driven and however many passes it took.  No change is  *)
(* missed, and none is overwritten after it was read.                      *)
THEOREM ChangesDelivered ==
  ASSUME FlatCircuit, LinkedOnce, DriversLast, NoEmptyDrives, WholeDrives, OneSource,
         WatchersInTime
  PROVE  Spec => [](crowded \/ Delivered)
<1>1. Spec => [](Course /\ Unclaimed)
  BY CourseInvariant, ClaimsInit, UnclaimedStep, PTL DEF Spec
<1>2. Spec => [](Course /\ Unclaimed /\ Orders)
  BY <1>1, OrdersInit, OrdersStep, PTL DEF Spec
<1>3. Spec => [](crowded \/ Counted)
  <2>1. Course /\ Unclaimed /\ Orders /\ (crowded \/ Counted) /\ [Next]_vars
          => (crowded \/ Counted)'
    BY CountedStep, CrowdGrows
  <2> QED
    BY <1>2, <2>1, CountedInit, PTL DEF Spec
<1>4. Spec => []DriveOnce
  <2>1. Course /\ CallsLeft /\ DrivenLast /\ [Next]_vars => (CallsLeft /\ DrivenLast)'
    BY CallsStep, DrivenStep DEF Course
  <2>2. Course /\ DrivenLast => DriveOnce
    BY DrivenOnce
  <2> QED
    BY <1>1, <2>1, <2>2, DrivenInit, PTL DEF Spec
<1>5. Spec => []Traces
  <2>1. Course /\ DriveOnce /\ Traces /\ [Next]_vars => Traces'
    BY TracesStep
  <2> QED
    BY <1>1, <1>4, <2>1, TracesInit, PTL DEF Spec
<1>6. Spec => [](crowded \/ JoinsInTime)
  <2>1. Course /\ Orders /\ (crowded \/ (LinksStand /\ EarlyMade)) /\ [Next]_vars
          => (crowded \/ (LinksStand /\ EarlyMade))'
    BY StandStep, EarlyStep, CrowdGrows
  <2>2. Spec => [](crowded \/ (LinksStand /\ EarlyMade))
    BY <1>2, <2>1, StandInit, PTL DEF Spec
  <2>3. Course /\ Traces /\ (crowded \/ (LinksStand /\ EarlyMade)) => crowded \/ JoinsInTime
    BY JoinersInTime
  <2> QED
    BY <1>1, <1>5, <2>2, <2>3, PTL
<1>7. Spec => [](crowded \/ Recent)
  <2>1. ASSUME Course, Orders, DriveOnce, crowded \/ Counted, crowded \/ Recent, [Next]_vars
        PROVE  (crowded \/ Recent)'
    <3>1. CASE crowded
      BY <2>1, <3>1, CrowdGrows
    <3>2. CASE ~crowded
      BY <2>1, <3>2, RecentStep
    <3> QED
      BY <3>1, <3>2
  <2> QED
    BY <1>2, <1>3, <1>4, <2>1, RecentInit, PTL DEF Spec
<1>8. Spec => [](crowded \/ Told)
  <2>1. ASSUME Course, Course', Unclaimed, Orders, DriveOnce, crowded \/ JoinsInTime, Traces,
               crowded \/ Counted, crowded \/ Recent, crowded \/ Told, [Next]_vars
        PROVE  (crowded \/ Told)'
    <3>1. CASE crowded
      BY <2>1, <3>1, CrowdGrows
    <3>2. CASE ~crowded
      BY <2>1, <3>2, ToldStep
    <3> QED
      BY <3>1, <3>2
  <2> QED
    BY <1>2, <1>3, <1>4, <1>5, <1>6, <1>7, <2>1, ToldInit, PTL DEF Spec
<1>9. Course /\ Unclaimed /\ (crowded \/ Told) => crowded \/ Delivered
  BY ToldDelivers
<1> QED
  BY <1>1, <1>8, <1>9, PTL
-----------------------------------------------------------------------------
(* The passes of a cycle in a levelled circuit.  In pass k, counted from   *)
(* 0, user code drives registers of level k and up only.  So a wire that   *)
(* counts as driven is of such a register, or of one a level lower while   *)
(* some port has still to reset its refcount: it was driven a pass ago.    *)
StartsAtZero == pc \in {"construct", "run", "cycle"} => sub_refresh_count = 0

DrivenRegs == \A b \in Port : \A i \in Idx(b) : heap[b][i].refcount > 0 => Reg(b)

DrivenReach(level) ==
  \A b \in Port \ freed : \A i \in Idx(b) : heap[b][i].refcount > 0 =>
    /\ sub_refresh_count <= level[b] + 1
    /\ Unreleased(b, i) = {} /\ pc # "pass" => sub_refresh_count <= level[b]

CallsReach(level) ==
  \A j \in DOMAIN script :
    Reg(script[j].port) => sub_refresh_count <= level[script[j].port]

PassReaches(n) == driven /\ pc # "pass" => sub_refresh_count <= n

Reaches(n, level) == DrivenReach(level) /\ CallsReach(level) /\ PassReaches(n)

(* What holds in every flat circuit, whoever drives when.                  *)
Ground ==
  Typed /\ Memory /\ LinkOrigin(CircuitLinks) /\ Phase /\ StartsAtZero /\ DrivenRegs

LEMMA StartsStep == StartsAtZero /\ [Next]_vars => StartsAtZero'
  BY DEF StartsAtZero, Next, ConnectDirect, Run, CallConnectAll, ConnectAllReturns, BeginPass,
         UpdatePort, UpdateWire, CallBack, CallBackReturns, RunScript, ScheduleLive,
         UpdateModule, NextModule, PassAgain, EndCycle, loopVars, vars

(* A drive is of a register that points to its own vector.                 *)
LEMMA DriveReg ==
  ASSUME Memory, NEW c \in DriveCalls, Drive(c)
  PROVE  Reg(c.port) /\ c.port \in Port /\ wires[c.port] = c.port
  BY PortAssumption DEF Drive, Accepts, Reg, Memory, RegsOwn

LEMMA RegsDrivenStep == Typed /\ Memory /\ DrivenRegs /\ [Next]_vars => DrivenRegs'
<1> SUFFICES ASSUME Typed, Memory, DrivenRegs, [Next]_vars PROVE DrivenRegs'
  OBVIOUS
<1>0. \A b \in Port : \A i \in Idx(b) : heap'[b][i].refcount \in Nat
  <2>1. Typed'
    BY TypedStep
  <2> QED
    BY <2>1 DEF Typed, TypeInv, PortTypeOK, WireOf
<1> SUFFICES ASSUME NEW b \in Port, NEW i \in Idx(b), ~Reg(b)
             PROVE  heap'[b][i].refcount = 0
  BY <1>0 DEF DrivenRegs
<1>1. heap[b][i] \in Wire /\ heap[b][i].refcount = 0 /\ TypeInv
  <2>1. TypeInv /\ heap[b][i] \in Wire
    BY LiveWire DEF Typed
  <2>2. heap[b][i].refcount \in Nat
    BY <2>1 DEF Wire, WireOf
  <2> QED
    BY <2>1, <2>2 DEF DrivenRegs
<1>2. ASSUME NEW l \in CircuitLinks, Connect(l[1], l[2]) PROVE heap'[b][i].refcount = 0
  <2>1. heap'[b][i] \in {heap[b][i], Linked(heap[b][i])}
    BY <1>1, <1>2, CircuitPorts, LinkHeap
  <2> QED
    BY <1>1, <2>1, LinkedCount
<1>3. ASSUME NEW c \in DriveCalls, Drive(c) PROVE heap'[b][i].refcount = 0
  <2>1. Reg(c.port) /\ c.port \in Port /\ wires[c.port] = c.port
    BY <1>3, DriveReg
  <2>2. heap'[b][i] = heap[b][i]
    BY <1>1, <1>3, <2>1, DriveHeap
  <2> QED
    BY <1>1, <2>2
<1>4. CASE UpdateStep
  <2>1. CASE \E p \in Port : BeginUpdate(p)
    BY <1>1, <2>1 DEF BeginUpdate
  <2>2. CASE CheckWire \/ RaiseSignal \/ SignalReturns
    <3>1. frame.port # NoPort
      BY <2>2 DEF CheckWire, RaiseSignal, SignalReturns
    <3>2. UpdatedWire \in Wire /\ Checked(UpdatedWire) \in Wire
      BY <3>1, Updated, CheckedType DEF Typed
    <3>3. PICK w \in Wire : SetUpdatedWire(w) /\ (w.refcount = 0 \/ w = Checked(UpdatedWire))
      <4>1. ASSUME NEW v \in Wire PROVE Released(v) \in Wire
        BY DEF Released, Wire, WireOf
      <4> QED
        BY <2>2, <3>2, <4>1, ReleasedCount DEF CheckWire, RaiseSignal, SignalReturns
    <3>4. heap'[b][i] = IF Here(b, i) THEN w ELSE heap[b][i]
      BY <1>1, <3>1, <3>3, HeapStep
    <3> QED
      BY <1>1, <3>2, <3>3, <3>4, CheckedCount, HereWire
  <2> QED
    BY <1>4, <2>1, <2>2 DEF UpdateStep
<1>5. CASE UNCHANGED <<heap, wires, dirty, freed>>
  BY <1>1, <1>5
<1> QED
  BY <1>2, <1>3, <1>4, <1>5, PortEffect

LEMMA GroundInvariant == ASSUME FlatCircuit PROVE Spec => []Ground
<1>1. Init => StartsAtZero /\ DrivenRegs
  BY DEF Init, StartsAtZero, DrivenRegs, NewWire
<1>2. Spec => []Phase
  BY PhaseInit, PhaseStep, TypedInvariant, PTL DEF Spec
<1>3. Spec => [](StartsAtZero /\ DrivenRegs)
  BY <1>1, StartsStep, RegsDrivenStep, TypedInvariant, MemoryInvariant, PTL DEF Spec
<1>4. Typed /\ Memory /\ LinkOrigin(CircuitLinks) /\ Phase /\ StartsAtZero /\ DrivenRegs
        => Ground
  BY DEF Ground
<1> QED
  BY <1>2, <1>3, <1>4, TypedInvariant, MemoryInvariant, OriginInvariant, PTL

(* The steps by what they do to the number of the pass.                    *)
LEMMA CountSteps ==
  ASSUME [Next]_vars
  PROVE  PassAgain \/ EndCycle \/ sub_refresh_count' = sub_refresh_count
  BY DEF Next, ConnectDirect, Run, CallConnectAll, ConnectAllReturns, BeginPass,
         UpdatePort, UpdateWire, CallBack, CallBackReturns, RunScript, ScheduleLive,
         UpdateModule, NextModule, loopVars, vars

LEMMA PassOnlyBegins ==
  ASSUME Typed, Phase, [Next]_vars, pc = "pass" PROVE BeginPass \/ UNCHANGED vars
<1>1. frame.port = NoPort /\ ~frame.raised /\ script = <<>>
  BY Raised DEF Typed, Updating, Phase
<1> QED
  BY <1>1 DEF Next, ConnectDirect, Run, CallConnectAll, ConnectAllReturns, UpdatePort,
              UpdateWire, CheckWire, CallBack, RaiseSignal, CallBackReturns, SignalReturns,
              RunScript, ScheduleLive, UpdateModule, PortsDone, NextModule, PassAgain, EndCycle

LEMMA LevelBounds ==
  ASSUME NEW n \in 0 .. SubMod - 2, NEW level \in [Port -> 0 .. n], NEW b \in Port
  PROVE  level[b] \in Nat /\ level[b] <= n
<1>1. level[b] \in 0 .. n
  OBVIOUS
<1> QED
  BY <1>1, RefresherAssumption

LEMMA PassNumber ==
  ASSUME Typed, NEW n \in 0 .. SubMod - 2
  PROVE  /\ sub_refresh_count \in Nat /\ SubMod \in Nat \ {0}
         /\ n \in Nat /\ n + 2 <= SubMod
  BY RefresherAssumption DEF Typed, LoopTypeOK

LEMMA ScriptPorts == ASSUME Typed PROVE \A j \in DOMAIN script : script[j].port \in Port
<1>1. script \in Seq(DriveCalls)
  BY DEF Typed, LoopTypeOK, Script
<1> QED
  BY <1>1, PortAssumption

(* In the first pass nothing is asked of the levels.                       *)
LEMMA FirstPassReaches ==
  ASSUME Typed, sub_refresh_count = 0,
         NEW n \in 0 .. SubMod - 2, NEW level \in [Port -> 0 .. n]
  PROVE  Reaches(n, level)
<1>1. \A b \in Port : 0 <= level[b] /\ 0 <= level[b] + 1
  BY LevelBounds
<1>2. 0 <= n
  BY PassNumber
<1> QED
  BY <1>1, <1>2, ScriptPorts DEF Reaches, DrivenReach, CallsReach, PassReaches

LEMMA FirstPassAfter ==
  ASSUME Typed', sub_refresh_count' = 0,
         NEW n \in 0 .. SubMod - 2, NEW level \in [Port -> 0 .. n]
  PROVE  Reaches(n, level)'
<1>1. \A b \in Port : 0 <= level[b] /\ 0 <= level[b] + 1
  BY LevelBounds
<1>2. 0 <= n
  BY RefresherAssumption
<1>3. \A j \in DOMAIN script' : script'[j].port \in Port
  <2>1. script' \in Seq(DriveCalls)
    BY DEF Typed, LoopTypeOK, Script
  <2> QED
    BY <2>1, PortAssumption
<1> QED
  BY <1>1, <1>2, <1>3 DEF Reaches, DrivenReach, CallsReach, PassReaches

(* What user code may drive.  A callback is called for a wire driven once: *)
(* what it drives is of a higher level.                                    *)
LEMMA CalledClimbs ==
  ASSUME FlatCircuit, NEW n \in 0 .. SubMod - 2, NEW level \in [Port -> 0 .. n],
         Climbs(level), Ground, DrivenReach(level), CallBack
  PROVE  CallsReach(level)'
<1> DEFINE b == wires[frame.port]
           i == frame.wire
<1>1. /\ Typed /\ TypeInv /\ Phase /\ frame.port # NoPort /\ frame.port \in Port
      /\ sub_refresh_count' = sub_refresh_count
      /\ UpdatedWire.refcount = 1
  BY RaisedSource DEF Ground, Typed, CallBack, RaiseSignal, Raises
<1>2. b \in Port \ freed /\ i \in Idx(b) /\ frame.wire \in Idx(frame.port)
  BY <1>1, HereLeft, Updated, NeverDangles DEF Ground, NoDangling, Typed, Idx
<1>3. heap[b][i].refcount > 0
  BY <1>1 DEF UpdatedWire, WiresOf
<1>4. Reg(b) /\ sub_refresh_count <= level[b] + 1
  BY <1>2, <1>3 DEF Ground, DrivenRegs, DrivenReach
<1>5. frame.port \in CanShare(b)
  BY <1>1 DEF Ground, LinkOrigin, CanShare
<1>6. /\ UpdatedSignal = Sensitivity[frame.port][frame.wire]
      /\ UpdatedSignal.raise # NoCallback
      /\ script' \in CallbackScripts[UpdatedSignal.raise]
  BY DEF Ground, Phase, UpdatedSignal, CallBack, RaiseSignal, Raises
<1> HIDE DEF b, i
<1>7. \A j \in DOMAIN script' :
        Reg(script'[j].port) => level[b] < level[script'[j].port]
  BY <1>1, <1>2, <1>4, <1>5, <1>6 DEF Climbs
<1>8. \A j \in DOMAIN script' : script'[j].port \in Port
  <2>1. Typed'
    BY <1>1, TypedCallBack
  <2>2. script' \in Seq(DriveCalls)
    BY <2>1 DEF Typed, LoopTypeOK, Script
  <2> QED
    BY <2>2, PortAssumption
<1>9. ASSUME NEW p \in Port, level[b] < level[p] PROVE sub_refresh_count <= level[p]
  <2>1. level[b] \in Nat /\ level[p] \in Nat /\ sub_refresh_count \in Nat
    BY <1>1, <1>2, LevelBounds, PassNumber
  <2> QED
    BY <1>4, <1>9, <2>1
<1> QED
  BY <1>1, <1>7, <1>8, <1>9 DEF CallsReach

LEMMA CallsReachStep ==
  ASSUME FlatCircuit, NEW n \in 0 .. SubMod - 2, NEW level \in [Port -> 0 .. n],
         Climbs(level), Ground, Reaches(n, level), [Next]_vars,
         sub_refresh_count' = sub_refresh_count, sub_refresh_count # 0
  PROVE  CallsReach(level)'
<1>1. CASE CallBack
  BY <1>1, CalledClimbs DEF Reaches
<1>2. CASE RunScript
  <2>1. script' = Tail(script) /\ script \in Seq(DriveCalls) /\ script # <<>>
    BY <1>2 DEF RunScript, Ground, Typed, LoopTypeOK, Script
  <2>2. \A j \in DOMAIN script' : j + 1 \in DOMAIN script /\ script'[j] = script[j + 1]
    BY <2>1, HeadTailProperties, LenProperties
  <2> QED
    BY <2>2 DEF CallsReach, Reaches
<1>3. CASE script' = script
  BY <1>3 DEF CallsReach, Reaches
<1>4. ~UpdateModule
  BY DEF UpdateModule, FirstPass
<1> QED
  BY <1>1, <1>2, <1>3, <1>4
     DEF Next, ConnectDirect, Run, CallConnectAll, ConnectAllReturns, BeginPass, UpdatePort,
         UpdateWire, CallBackReturns, ScheduleLive, NextModule, PassAgain, EndCycle, loopVars,
         vars

(* The wires, in a step of the pass.                                       *)
LEMMA DrivenReachStep ==
  ASSUME FlatCircuit, NEW n \in 0 .. SubMod - 2, NEW level \in [Port -> 0 .. n],
         Ground, Reaches(n, level), [Next]_vars,
         sub_refresh_count' = sub_refresh_count, pc # "pass"
  PROVE  DrivenReach(level)'
<1> SUFFICES ASSUME NEW b \in Port \ freed', NEW i \in Idx(b), heap'[b][i].refcount > 0
             PROVE  /\ sub_refresh_count <= level[b] + 1
                    /\ Unreleased(b, i)' = {} => sub_refresh_count <= level[b]
  BY DEF DrivenReach
<1>0. /\ Typed /\ Phase /\ TypeInv /\ Memory /\ b \in Port \ freed /\ heap[b][i] \in Wire
      /\ level[b] \in Nat /\ sub_refresh_count \in Nat
  BY FreedGrows, LiveWire, LevelBounds, PassNumber DEF Ground, Typed
<1>1. ASSUME heap[b][i].refcount > 0, Unreleased(b, i)' = {} => Unreleased(b, i) = {}
      PROVE  /\ sub_refresh_count <= level[b] + 1
             /\ Unreleased(b, i)' = {} => sub_refresh_count <= level[b]
  BY <1>0, <1>1 DEF Reaches, DrivenReach
<1>2. CASE PassBegins
  <2>1. wires' = wires /\ heap' = heap
    BY <1>2 DEF PassBegins
  <2>2. wires[b] = b
    BY <1>0 DEF Memory, VectorsOwned
  <2>3. b \in Unreleased(b, i)'
    BY <1>2, <2>1, <2>2, BeforePass DEF PassBegins, Sharers
  <2> QED
    BY <1>1, <2>1, <2>3
<1>3. CASE PortBegins
  <2>1. PICK p \in Ahead : BeginUpdate(p) /\ Ahead' = Ahead \ {p}
    BY <1>3 DEF PortBegins
  <2>2. p \in Port
    BY DEF Ahead
  <2>3. Unreleased(b, i)' = Unreleased(b, i)
    BY <2>1, <2>2, BeginSets
  <2> QED
    BY <1>1, <2>1, <2>3 DEF BeginUpdate
<1>4. CASE WireStep
  <2>1. Unreleased(b, i)' = Unreleased(b, i) /\ heap'[b][i].refcount = heap[b][i].refcount
    BY <1>0, <1>4, WireReleases
  <2> QED
    BY <1>1, <2>1
<1>5. CASE UserStep
  <2>1. frame' = frame /\ wires' = wires /\ Ahead' = Ahead
    BY <1>5 DEF UserStep, RunScript, Drive, portVars
  <2>2. Unreleased(b, i)' = Unreleased(b, i)
    BY <2>1, SetsStay
  <2>3. CASE heap'[b][i] = heap[b][i]
    BY <1>1, <2>2, <2>3
  <2>4. CASE heap'[b][i] # heap[b][i]
    <3>1. Drive(Head(script)) /\ script # <<>>
      BY <1>5, <2>4 DEF UserStep, RunScript, portVars
    <3>2. script \in Seq(DriveCalls)
      BY <1>0 DEF Typed, LoopTypeOK, Script
    <3>3. PICK c \in DriveCalls : c = Head(script) /\ c = script[1] /\ 1 \in DOMAIN script
      BY <3>1, <3>2, HeadTailProperties, EmptySeq
    <3>4. Reg(c.port) /\ wires[c.port] = c.port
      BY <1>0, <3>1, <3>3, DriveReg
    <3>5. b = c.port
      BY <1>0, <2>4, <3>1, <3>3, <3>4, DriveHeap
    <3>6. sub_refresh_count <= level[b]
      BY <3>3, <3>4, <3>5 DEF Reaches, CallsReach
    <3> QED
      BY <1>0, <3>6
  <2> QED
    BY <2>3, <2>4
<1>6. CASE LinkStep
  <2>1. sub_refresh_count = 0
    BY <1>6 DEF LinkStep, ConnectDirect, CallConnectAll, Ground, StartsAtZero
  <2> QED
    BY <1>0, <2>1
<1>7. CASE NoPortStep
  BY <1>1, <1>7, SetsStay DEF NoPortStep
<1> QED
  BY <1>0, <1>2, <1>3, <1>4, <1>5, <1>6, <1>7, PassSteps

(* The number of the pass, when a register is driven.                      *)
LEMMA PassReachesStep ==
  ASSUME NEW n \in 0 .. SubMod - 2, NEW level \in [Port -> 0 .. n],
         Ground, Reaches(n, level), [Next]_vars,
         sub_refresh_count' = sub_refresh_count, pc # "pass"
  PROVE  PassReaches(n)'
<1>1. CASE driven' = driven
  BY <1>1 DEF Reaches, PassReaches
<1>2. CASE driven' # driven /\ RunScript
  <2>1. Drive(Head(script)) /\ script # <<>> /\ Typed /\ Memory
    BY <1>2 DEF RunScript, portVars, Ground
  <2>2. script \in Seq(DriveCalls)
    BY <2>1 DEF Typed, LoopTypeOK, Script
  <2>3. PICK c \in DriveCalls : c = Head(script) /\ c = script[1] /\ 1 \in DOMAIN script
    BY <2>1, <2>2, HeadTailProperties, EmptySeq
  <2>4. Reg(c.port) /\ c.port \in Port
    BY <2>1, <2>3, DriveReg
  <2>5. sub_refresh_count <= level[c.port]
    BY <2>3, <2>4 DEF Reaches, CallsReach
  <2>6. level[c.port] \in Nat /\ level[c.port] <= n /\ n \in Nat /\ sub_refresh_count \in Nat
    BY <2>1, <2>4, LevelBounds, PassNumber
  <2> QED
    BY <2>5, <2>6 DEF PassReaches
<1> QED
  BY <1>1, <1>2
     DEF Next, ConnectDirect, Run, CallConnectAll, ConnectAllReturns, BeginConnectAll,
         ConnectStep, ConnectFound, NextRequest, EndScan, EraseNoted, ErasePastEnd, EndErase,
         ConnectReturns, Connect, BeginPass, UpdatePort, BeginUpdate, UpdateWire, CheckWire,
         CallBack, RaiseSignal, CallBackReturns, SignalReturns, ScheduleLive, Schedule,
         UpdateModule, NextModule, PassAgain, EndCycle, portVars, vars

(* Another pass: the wires that count as driven were driven in the last    *)
(* one, and the char does not wrap.                                        *)
LEMMA AgainReaches ==
  ASSUME NEW n \in 0 .. SubMod - 2, NEW level \in [Port -> 0 .. n],
         Ground, Reaches(n, level), PassAgain
  PROVE  Reaches(n, level)'
<1>1. /\ Typed /\ Phase /\ pc = "passed" /\ driven /\ pc' = "pass"
      /\ sub_refresh_count' = (sub_refresh_count + 1) % SubMod
      /\ UNCHANGED <<portVars, script>>
  BY DEF Ground, PassAgain
<1>2. frame = Idle /\ Ahead = {} /\ script = <<>>
  BY <1>1, IdleFrame, NothingAhead, Raised DEF Typed, Updating, Phase
<1>3. sub_refresh_count' = sub_refresh_count + 1
  <2>1. sub_refresh_count <= n
    BY <1>1 DEF Reaches, PassReaches
  <2> QED
    BY <1>1, <2>1, PassNumber
<1>4. ASSUME NEW b \in Port \ freed, NEW i \in Idx(b), heap[b][i].refcount > 0
      PROVE  sub_refresh_count' <= level[b] + 1
  <2>1. sub_refresh_count <= level[b]
    BY <1>1, <1>2, <1>4, OutsidePass DEF Reaches, DrivenReach
  <2>2. level[b] \in Nat /\ sub_refresh_count \in Nat
    BY <1>1, LevelBounds, PassNumber
  <2> QED
    BY <1>3, <2>1, <2>2
<1>5. DrivenReach(level)'
  BY <1>1, <1>4 DEF DrivenReach, portVars
<1>6. CallsReach(level)'
  BY <1>1, <1>2 DEF CallsReach
<1> QED
  BY <1>1, <1>5, <1>6 DEF Reaches, PassReaches

LEMMA ReachesStep ==
  ASSUME FlatCircuit, NEW n \in 0 .. SubMod - 2, NEW level \in [Port -> 0 .. n], Climbs(level)
  PROVE  Ground /\ Reaches(n, level) /\ [Next]_vars => Reaches(n, level)'
<1> SUFFICES ASSUME Ground, Reaches(n, level), [Next]_vars PROVE Reaches(n, level)'
  OBVIOUS
<1>0. Typed /\ Phase /\ Typed'
  BY TypedStep DEF Ground
<1>1. CASE sub_refresh_count' = 0
  BY <1>0, <1>1, FirstPassAfter
<1>2. CASE PassAgain
  BY <1>2, AgainReaches
<1>3. CASE sub_refresh_count' = sub_refresh_count /\ sub_refresh_count # 0 /\ pc # "pass"
  BY <1>3, DrivenReachStep, CallsReachStep, PassReachesStep DEF Reaches
<1>4. CASE pc = "pass" /\ BeginPass
  <2>1. Ahead' = Port
    BY <1>4, AllAhead
  <2>2. ASSUME NEW b \in Port \ freed, NEW i \in Idx(b) PROVE b \in Unreleased(b, i)'
    <3>1. wires'[b] = b
      BY <1>4 DEF BeginPass, Ground, Memory, VectorsOwned
    <3> QED
      BY <2>1, <3>1, BeforePass DEF Sharers
  <2>3. UNCHANGED <<heap, freed, script, sub_refresh_count>> /\ ~driven'
    BY <1>4 DEF BeginPass
  <2> QED
    BY <2>2, <2>3 DEF Reaches, DrivenReach, CallsReach, PassReaches
<1>5. CASE UNCHANGED vars
  <2>1. \A b, i : Unreleased(b, i)' = Unreleased(b, i)
    BY <1>5, AheadStays, SetsStay DEF vars, portVars, loopVars
  <2> QED
    BY <1>5, <2>1 DEF Reaches, DrivenReach, CallsReach, PassReaches, vars, portVars, loopVars
<1>6. CASE EndCycle
  BY <1>1, <1>6 DEF EndCycle
<1> QED
  BY <1>0, <1>1, <1>2, <1>3, <1>4, <1>5, <1>6, CountSteps, PassOnlyBegins

(* In a circuit with fewer levels than the char has values, no cycle takes *)
(* more passes than the char can count.                                    *)
THEOREM PassesCounted ==
  ASSUME FlatCircuit, NEW n \in 0 .. SubMod - 2, Levelled(n)
  PROVE  Spec => []CounterHolds
<1>1. PICK level \in [Port -> 0 .. n] : Climbs(level)
  BY DEF Levelled
<1>2. Init => Reaches(n, level)
  BY TypedInit, FirstPassReaches DEF Init
<1>3. Ground /\ Reaches(n, level) /\ [Next]_vars => Reaches(n, level)'
  BY <1>1, ReachesStep
<1>4. Ground /\ Reaches(n, level) => CounterHolds
  BY PassNumber DEF Ground, Reaches, PassReaches, CounterHolds
<1> QED
  BY <1>2, <1>3, <1>4, GroundInvariant, PTL DEF Spec

(* So the promise of a cycle is kept in every levelled circuit, and        *)
(* nothing has to be watched while it runs.                                *)
THEOREM LevelledInOrder ==
  ASSUME FlatCircuit, NEW n \in 0 .. SubMod - 2, Levelled(n)
  PROVE  Spec => Promise!Init /\ [][Promise!Next]_<<refresh_cycle, ran>>
  BY PassesCounted, CyclesInOrder, PTL

-----------------------------------------------------------------------------
(* The program.  Its circuit is flat, but its drivers do not come last, so *)
(* that what it does is shown from its course alone: where a cycle is, by  *)
(* the number of the pass and by how far the pass has come, says what each *)
(* wire of the clock and of the register in holds.                         *)

(* Begun counts the ports that the pass has begun to update: mem_in is the *)
(* second, mem_clk the third, cpu_clk the fifth.  Stage is even between    *)
(* two updates and odd in one.                                             *)
InPass == pc \in {"pass", "ports", "update", "passed"}

Begun ==
  CASE pc = "pass" -> 0
    [] pc # "pass" /\ mod = 1 -> next - 1
    [] OTHER -> next + 2

Stage == 2 * Begun - (IF frame.port # NoPort THEN 1 ELSE 0)

Pass(s) == InPass /\ sub_refresh_count = s

(* What cpu drives on the clock in this cycle, and drove in the last.      *)
Tick == IF refresh_cycle % 2 = 0 THEN "_0" ELSE "_1"

Tock == IF refresh_cycle % 2 = 0 THEN "_1" ELSE "_0"

ByteOf(v) == IF v = "_0" THEN 0 ELSE 255

(* cpu has been updated in this cycle, and has driven.                     *)
CpuRan ==
  \/ Pass(1)
  \/ Pass(2)
  \/ Pass(0) /\ (pc = "passed" \/ (pc = "update" /\ mod = cpu))

Ticked == CpuRan /\ (pc = "update" => script = <<>>)

(* The callback on the clock has driven in.                                *)
InDriven == Pass(1) /\ (Stage >= 6 \/ (frame.raised /\ script = <<>>))

ControlCourse ==
  /\ sub_refresh_count \in 0 .. 2
  /\ ~InPass => sub_refresh_count = 0 /\ script = <<>>
  /\ pc = "update" => sub_refresh_count = 0 /\ next = Len(Modules[mod]) + 1
  /\ pc = "passed" => mod = cpu /\ next = 3
  /\ pc = "update" /\ mod = cpu => script \in {<<>>, <<DriveClk(Tick)>>}
  /\ frame.raised =>
       /\ (Pass(1) /\ Stage = 5) \/ (Pass(2) /\ Stage = 3)
       /\ frame.wire = 0 /\ script \in {<<>>, <<DriveIn>>}
  /\ frame.port # NoPort /\ frame.wire = 0 /\ ~frame.raised => frame.called = {}
  /\ script # <<>> => frame.raised \/ (pc = "update" /\ mod = cpu)
  /\ clk_val = ByteOf(IF CpuRan THEN Tock ELSE Tick)

(* The clock is connected by the call of connect_all that run makes.       *)
Wired == wires[mem_clk] = cpu_clk

ConnectCourse ==
  /\ signals = CitrinoSensitivity
  /\ \A p \in Port : p # mem_clk => wires[p] = p
  /\ wires[mem_clk] \in {mem_clk, cpu_clk}
  /\ pc = "construct" => conn = NotConnecting /\ ~Wired
  /\ pc \in {"construct", "run"} => refresh_cycle = 0 /\ ~Ticking
  /\ pc \notin {"construct", "run"} =>
       Wired /\ connection_schedules = <<>> /\ conn.at \in {"idle", "done"}
  /\ pc \in {"construct", "run"} /\ ~Wired =>
       /\ connection_schedules = <<ClkRequest>> /\ conn.at \in {"idle", "scan"}
       /\ conn.i = 1 /\ conn.found = 1 /\ conn.erase_index = <<>>
  /\ pc = "run" /\ Wired =>
       \/ /\ connection_schedules = <<ClkRequest>> /\ conn.erase_index = << 1 >>
          /\ \/ conn.at = "scan" /\ <<conn.i, conn.found>> \in {<<1, 2>>, <<2, 1>>}
             \/ conn.at = "erase"
       \/ /\ connection_schedules = <<>> /\ conn.erase_index = <<>>
          /\ conn.at \in {"erase", "done"}

(* The wire of the clock: its counts, what it shows, whether both ports    *)
(* know of it.                                                             *)
ClkWire == heap[cpu_clk][0]

ClkCounts(m, r) ==
  /\ ClkWire.modules_connected_orig = IF Wired THEN 1 ELSE 0
  /\ ClkWire.modules_connected = m /\ ClkWire.refcount = r

ClkShows(v) ==
  ClkWire.val = v /\ ClkWire.edge = EdgeOf(v) /\ ClkWire.last_port_drive = cpu_clk

ClkOld ==
  /\ ClkCounts(IF Wired THEN 1 ELSE 0, 0) /\ ~IsChanged(ClkWire)
  /\ \/ ClkWire.last_port_drive = NoPort /\ ClkWire.edge = "NULLEDGE"
     \/ ClkShows(Tock) /\ seen[mem_clk][0] = Tock

ClkNew(m, r) == ClkCounts(m, r) /\ ClkShows(Tick) /\ IsChanged(ClkWire)

ClkHeard == ClkShows(Tick) /\ seen[mem_clk][0] = Tick

ClkCourse ==
  /\ ~Ticked => ClkOld
  /\ Ticked /\ Pass(0) => ClkNew(1, 1)
  /\ Pass(1) /\ Stage <= 5 /\ ~frame.raised => ClkNew(1, 1)
  /\ Pass(1) /\ frame.raised => ClkNew(0, 1) /\ ClkHeard
  /\ Pass(1) /\ Stage \in 6 .. 9 => ClkNew(0, 0) /\ ClkHeard
  /\ Pass(2) \/ (Pass(1) /\ Stage = 10) => ClkCounts(1, 0) /\ ~IsChanged(ClkWire) /\ ClkHeard

(* The wires of in.  What the third pass leaves on the first of them is    *)
(* seen as a change by the first pass of the next cycle (InStale).         *)
InWire(i) == heap[mem_in][i]

InStale ==
  \/ ~InPass
  \/ Pass(0) /\ (Stage <= 2 \/ (Stage = 3 /\ frame.wire = 0))
  \/ Pass(2) /\ (Stage >= 4 \/ (Stage = 3 /\ (frame.raised \/ frame.wire > 0)))

InQuiet(w) == w.edge = "NULLEDGE" /\ w.refcount = 0

InZero(w) ==
  /\ w.val = "_0" /\ w.edge = "NEGEDGE" /\ w.refcount = 1
  /\ w.last_port_drive = mem_in

InLost(w, r) == w.val = "_X" /\ w.edge = "NULLEDGE" /\ w.refcount = r

InCourse ==
  \A i \in Idx(mem_in) :
    LET w == InWire(i)
    IN  /\ w.modules_connected = 0 /\ w.modules_connected_orig = 0
        /\ w.old_edge = "NULLEDGE" \/ (w.old_edge = "NEGEDGE" /\ i = 0 /\ InStale)
        /\ ~InPass \/ Pass(0) \/ (Pass(1) /\ ~InDriven) => InQuiet(w)
        /\ pc = "cycle" /\ Ticking => w.val = "_X"
        /\ InDriven => InZero(w)
        /\ Pass(2) =>
             /\ Stage <= 2 \/ (Stage = 3 /\ frame.wire = 0 /\ ~frame.raised) => InZero(w)
             /\ frame.raised => w.refcount = 1
             /\ frame.raised /\ i = 0 => w.old_edge = "NEGEDGE"
             /\ frame.raised /\ script = <<>> => InLost(w, 1)
             /\ Stage = 3 /\ frame.wire > 0 => InLost(w, IF i < frame.wire THEN 0 ELSE 1)
             /\ Stage >= 4 => InLost(w, 0)

(* Which passes ask for another one.                                       *)
DrivenCourse ==
  /\ Pass(0) /\ Ticked => driven
  /\ InDriven => driven
  /\ Pass(2) /\ pc # "pass" => ~driven

CitrinoCourse == ControlCourse /\ ConnectCourse /\ ClkCourse /\ InCourse /\ DrivenCourse

(* The constants of the program.                                           *)
LEMMA CitrinoRegistry ==
  ASSUME CitrinoCircuit
  PROVE  /\ Len(Modules) = 2 /\ Module = 1 .. 2
         /\ Len(Modules[1]) = 3 /\ DOMAIN Modules[1] = 1 .. 3
         /\ Len(Modules[2]) = 2 /\ DOMAIN Modules[2] = 1 .. 2
         /\ Modules[1][1] = mem_out /\ Modules[1][2] = mem_in /\ Modules[1][3] = mem_clk
         /\ Modules[2][1] = cpu_out /\ Modules[2][2] = cpu_clk
<1>1. Modules = << <<mem_out, mem_in, mem_clk>>, <<cpu_out, cpu_clk>> >>
  BY DEF CitrinoCircuit, CitrinoModules
<1>2. Modules[1] = <<mem_out, mem_in, mem_clk>> /\ Modules[2] = <<cpu_out, cpu_clk>>
  BY <1>1
<1>3. Len(Modules) = 2 /\ DOMAIN Modules = 1 .. 2
  BY <1>1
<1> QED
  BY <1>2, <1>3 DEF Module

LEMMA CitrinoDistinct ==
  ASSUME CitrinoCircuit
  PROVE  /\ Port = {mem_out, mem_in, mem_clk, cpu_out, cpu_clk}
         /\ mem_out # mem_in /\ mem_out # mem_clk /\ mem_out # cpu_out /\ mem_out # cpu_clk
         /\ mem_in # mem_clk /\ mem_in # cpu_out /\ mem_in # cpu_clk
         /\ mem_clk # cpu_out /\ mem_clk # cpu_clk /\ cpu_out # cpu_clk
         /\ NoPort \notin Port /\ cback # NoCallback
<1>1. \A m, n \in Module : \A k \in DOMAIN Modules[m], l \in DOMAIN Modules[n] :
        Modules[m][k] = Modules[n][l] => m = n /\ k = l
  BY RefresherAssumption
<1>2. /\ 1 \in Module /\ 2 \in Module
      /\ 1 \in DOMAIN Modules[1] /\ 2 \in DOMAIN Modules[1] /\ 3 \in DOMAIN Modules[1]
      /\ 1 \in DOMAIN Modules[2] /\ 2 \in DOMAIN Modules[2]
  BY CitrinoRegistry
<1>3. Modules[1][1] # Modules[1][2] /\ Modules[1][1] # Modules[1][3]
      /\ Modules[1][2] # Modules[1][3] /\ Modules[2][1] # Modules[2][2]
  BY <1>1, <1>2
<1>4. \A k \in DOMAIN Modules[1], l \in DOMAIN Modules[2] : Modules[1][k] # Modules[2][l]
  BY <1>1, <1>2
<1>5. /\ Modules[1][1] # Modules[2][1] /\ Modules[1][1] # Modules[2][2]
      /\ Modules[1][2] # Modules[2][1] /\ Modules[1][2] # Modules[2][2]
      /\ Modules[1][3] # Modules[2][1] /\ Modules[1][3] # Modules[2][2]
  BY <1>2, <1>4
<1>6. Port = {mem_out, mem_in, mem_clk, cpu_out, cpu_clk} /\ Callback = {cback}
  BY DEF CitrinoCircuit, CitrinoPorts
<1> QED
  BY <1>3, <1>5, <1>6, CitrinoRegistry, PortAssumption

LEMMA CitrinoShape ==
  ASSUME CitrinoCircuit
  PROVE  /\ Width[mem_clk] = 1 /\ Width[cpu_clk] = 1 /\ Width[mem_in] = 32
         /\ Idx(mem_clk) = {0} /\ Idx(cpu_clk) = {0} /\ Idx(mem_in) = 0 .. 31
         /\ 0 \in Idx(mem_in)
         /\ Type[mem_clk] = "PORT_WIRE" /\ Dir[mem_clk] = "PORT_INPUT"
         /\ Type[mem_in] = "PORT_REG" /\ Dir[mem_in] = "PORT_OUTPUT"
         /\ Type[cpu_clk] = "PORT_REG" /\ Dir[cpu_clk] = "PORT_OUTPUT"
         /\ SubMod = 256 /\ CycleMod \in Nat \ {0} /\ CycleMod % 2 = 0
<1>1. Width[mem_clk] = 1 /\ Width[cpu_clk] = 1 /\ Width[mem_in] = 32
  BY CitrinoDistinct DEF CitrinoCircuit, CitrinoWidth
<1>2. Idx(mem_clk) = {0} /\ Idx(cpu_clk) = {0} /\ Idx(mem_in) = 0 .. 31
  BY <1>1 DEF Idx
<1>3. /\ Type[mem_clk] = "PORT_WIRE" /\ Dir[mem_clk] = "PORT_INPUT"
      /\ Type[mem_in] = "PORT_REG" /\ Dir[mem_in] = "PORT_OUTPUT"
      /\ Type[cpu_clk] = "PORT_REG" /\ Dir[cpu_clk] = "PORT_OUTPUT"
  BY CitrinoDistinct DEF CitrinoCircuit, CitrinoType, CitrinoDir
<1>4. SubMod = 256 /\ CycleMod \in Nat \ {0} /\ CycleMod % 2 = 0
  BY RefresherAssumption DEF CitrinoCircuit
<1> QED
  BY <1>1, <1>2, <1>3, <1>4

ClkSignal == [raise |-> cback, edge_trigger |-> "LEVELEDGE"]
InSignal  == [raise |-> cback, edge_trigger |-> "ALLEDGES"]

LEMMA CitrinoSignals ==
  ASSUME CitrinoCircuit
  PROVE  /\ CitrinoSensitivity[mem_clk][0] = ClkSignal
         /\ CitrinoSensitivity[mem_in][0] = InSignal
         /\ \A p \in Port : \A i \in Idx(p) :
              (p \notin {mem_clk, mem_in} \/ i # 0) => CitrinoSensitivity[p][i] = NoSignal
<1>1. \A p \in Port : \A i \in Idx(p) :
        CitrinoSensitivity[p][i] =
          CASE p = mem_clk /\ i = 0 -> [raise |-> cback, edge_trigger |-> "LEVELEDGE"]
            [] p = mem_in /\ i = 0  -> [raise |-> cback, edge_trigger |-> "ALLEDGES"]
            [] OTHER                -> NoSignal
  BY DEF CitrinoSensitivity
<1>2. mem_clk \in Port /\ mem_in \in Port /\ 0 \in Idx(mem_clk) /\ 0 \in Idx(mem_in)
      /\ mem_clk # mem_in
  BY CitrinoDistinct, CitrinoShape
<1>3. CitrinoSensitivity[mem_clk][0] = ClkSignal
  BY <1>1, <1>2 DEF ClkSignal
<1>4. CitrinoSensitivity[mem_in][0] = InSignal
  BY <1>1, <1>2 DEF InSignal
<1> QED
  BY <1>1, <1>3, <1>4

(* Where the pass is, and which port is under update.                      *)
LEMMA CitrinoPlace ==
  ASSUME CitrinoCircuit, Typed, ControlCourse
  PROVE  /\ mod \in {1, 2} /\ next \in 1 .. 4 /\ (mod = 2 => next <= 3)
         /\ Len(Modules[mod]) = 4 - mod
         /\ Begun \in 0 .. 5 /\ Stage \in 0 .. 10
         /\ pc # "pass" => Begun = IF mod = 1 THEN next - 1 ELSE next + 2
         /\ pc = "pass" => Begun = 0
         /\ frame.port = NoPort => frame = Idle /\ Stage = 2 * Begun
         /\ frame.port # NoPort =>
              /\ pc = "ports" /\ Stage = 2 * Begun - 1
              /\ frame.port = mem_out <=> Begun = 1
              /\ frame.port = mem_in <=> Begun = 2
              /\ frame.port = mem_clk <=> Begun = 3
              /\ frame.port = cpu_out <=> Begun = 4
              /\ frame.port = cpu_clk <=> Begun = 5
<1>1. mod \in {1, 2} /\ next \in 1 .. 4 /\ (mod = 2 => next <= 3) /\ Len(Modules[mod]) = 4 - mod
  <2>1. /\ mod \in Nat /\ 1 <= mod /\ mod <= 2
        /\ next \in Nat /\ 1 <= next /\ next <= Len(Modules[mod]) + 1
    BY Placed, CitrinoRegistry DEF Typed
  <2>2. mod = 1 \/ mod = 2
    BY <2>1
  <2>3. Len(Modules[1]) = 3 /\ Len(Modules[2]) = 2
    BY CitrinoRegistry
  <2>4. Len(Modules[mod]) = IF mod = 1 THEN 3 ELSE 2
    BY <2>2, <2>3
  <2> QED
    BY <2>1, <2>2, <2>4
<1>2. /\ pc # "pass" => Begun = IF mod = 1 THEN next - 1 ELSE next + 2
      /\ pc = "pass" => Begun = 0
  BY <1>1 DEF Begun
<1>3. Begun \in 0 .. 5
  BY <1>1, <1>2
<1>4. frame.port = NoPort => frame = Idle /\ Stage = 2 * Begun
  BY <1>3, IdleFrame DEF Typed, Stage
<1>5. ASSUME frame.port # NoPort
      PROVE  /\ pc = "ports" /\ Stage = 2 * Begun - 1 /\ Begun \in 1 .. 5
             /\ frame.port = mem_out <=> Begun = 1
             /\ frame.port = mem_in <=> Begun = 2
             /\ frame.port = mem_clk <=> Begun = 3
             /\ frame.port = cpu_out <=> Begun = 4
             /\ frame.port = cpu_clk <=> Begun = 5
  <2>1. pc = "ports" /\ next - 1 \in DOMAIN Modules[mod] /\ Modules[mod][next - 1] = frame.port
    BY <1>5 DEF Typed, Updating
  <2>2. Stage = 2 * Begun - 1
    BY <1>3, <1>5 DEF Stage
  <2>3. CASE mod = 1
    <3>1. next - 1 \in 1 .. 3 /\ Begun = next - 1 /\ frame.port = Modules[1][Begun]
      BY <1>2, <2>1, <2>3, CitrinoRegistry
    <3>2. CASE Begun = 1
      BY <2>1, <2>2, <3>1, <3>2, CitrinoRegistry, CitrinoDistinct
    <3>3. CASE Begun = 2
      BY <2>1, <2>2, <3>1, <3>3, CitrinoRegistry, CitrinoDistinct
    <3>4. CASE Begun = 3
      BY <2>1, <2>2, <3>1, <3>4, CitrinoRegistry, CitrinoDistinct
    <3> QED
      BY <3>1, <3>2, <3>3, <3>4
  <2>4. CASE mod = 2
    <3>1. next - 1 \in 1 .. 2 /\ Begun = next + 2 /\ frame.port = Modules[2][next - 1]
      <4>1. next - 1 \in DOMAIN Modules[2] /\ Modules[2][next - 1] = frame.port
        BY <2>1, <2>4
      <4>2. Begun = next + 2
        BY <1>2, <2>1, <2>4
      <4> QED
        BY <4>1, <4>2, CitrinoRegistry
    <3>2. CASE next - 1 = 1
      BY <2>1, <2>2, <3>1, <3>2, CitrinoRegistry, CitrinoDistinct
    <3>3. CASE next - 1 = 2
      BY <2>1, <2>2, <3>1, <3>3, CitrinoRegistry, CitrinoDistinct
    <3> QED
      BY <3>1, <3>2, <3>3
  <2> QED
    BY <1>1, <2>3, <2>4
<1>6. Stage \in 0 .. 10
  BY <1>3, <1>4, <1>5
<1> QED
  BY <1>1, <1>2, <1>3, <1>4, <1>5, <1>6

(* The end of a wire's update: the next wire, or no port at all.           *)
LEMMA CitrinoFrame ==
  ASSUME CitrinoCircuit, Typed, ControlCourse, frame.port # NoPort, frame' = NextFrame,
         UNCHANGED <<pc, mod, next>>
  PROVE  /\ frame'.raised = FALSE
         /\ IF frame.wire + 1 < Width[frame.port]
            THEN /\ frame'.port = frame.port /\ frame'.wire = frame.wire + 1
                 /\ Stage' = Stage
            ELSE frame' = Idle /\ frame'.port = NoPort /\ Stage' = Stage + 1
<1>1. /\ Width[wires[frame.port]] = Width[frame.port]
      /\ frame \in [port : Port, wire : Nat, called : SUBSET Signal, raised : BOOLEAN]
  BY Updated DEF Typed
<1>2. Begun' = Begun /\ Begun \in 0 .. 5 /\ Stage = 2 * Begun - 1
  BY CitrinoPlace DEF Begun
<1>3. CASE frame.wire + 1 < Width[frame.port]
  <2>1. frame' = [frame EXCEPT !.wire = frame.wire + 1, !.raised = FALSE]
    BY <1>1, <1>3 DEF NextFrame
  <2>2. /\ frame'.port = frame.port /\ frame'.wire = frame.wire + 1
        /\ frame'.raised = FALSE
    BY <1>1, <2>1
  <2>3. Stage' = Stage
    BY <1>2, <2>2 DEF Stage
  <2> QED
    BY <1>3, <2>2, <2>3
<1>4. CASE ~(frame.wire + 1 < Width[frame.port])
  <2>1. frame' = Idle /\ frame'.port = NoPort /\ frame'.raised = FALSE
    BY <1>1, <1>4 DEF NextFrame, Idle
  <2>2. Stage' = Stage + 1
    BY <1>2, <2>1 DEF Stage
  <2> QED
    BY <1>4, <2>1, <2>2
<1> QED
  BY <1>3, <1>4

(* The clock and in, where neither is touched.                             *)
LEMMA ClkStays ==
  ASSUME ClkWire' = ClkWire, seen'[mem_clk] = seen[mem_clk],
         UNCHANGED <<wires, refresh_cycle>>
  PROVE  /\ ClkOld' = ClkOld /\ ClkHeard' = ClkHeard
         /\ \A m, r \in Nat : /\ ClkNew(m, r)' = ClkNew(m, r)
                              /\ ClkCounts(m, r)' = ClkCounts(m, r)
         /\ IsChanged(ClkWire)' = IsChanged(ClkWire) /\ Tick' = Tick /\ Tock' = Tock
<1>1. Wired' = Wired /\ Tick' = Tick /\ Tock' = Tock /\ seen'[mem_clk] = seen[mem_clk]
  BY DEF Wired, Tick, Tock
<1>2. \A m, r : ClkCounts(m, r)' = ClkCounts(m, r)
  BY <1>1 DEF ClkCounts
<1>3. \A v : ClkShows(v)' = ClkShows(v)
  BY DEF ClkShows
<1>4. ClkShows(Tick)' = ClkShows(Tick) /\ ClkShows(Tock)' = ClkShows(Tock)
  BY <1>1 DEF ClkShows
<1>5. IsChanged(ClkWire)' = IsChanged(ClkWire)
  BY DEF IsChanged
<1>6. ClkHeard' = ClkHeard
  BY <1>1, <1>4 DEF ClkHeard
<1>7. \A m, r \in Nat : ClkNew(m, r)' = ClkNew(m, r)
  BY <1>2, <1>4, <1>5 DEF ClkNew
<1>8. ClkOld' = ClkOld
  <2>1. (ClkCounts(IF Wired THEN 1 ELSE 0, 0))' = ClkCounts(IF Wired THEN 1 ELSE 0, 0)
    BY <1>1 DEF ClkCounts
  <2> QED
    BY <1>1, <1>4, <1>5, <2>1 DEF ClkOld
<1> QED
  BY <1>1, <1>2, <1>5, <1>6, <1>7, <1>8

(* Most steps of a pass leave the clock and in as they are, and the pass   *)
(* at most one stage further, where nothing depends on it.                 *)
Onward ==
  /\ InPass /\ InPass' /\ sub_refresh_count' = sub_refresh_count
  /\ ~frame.raised /\ ~frame'.raised /\ (Ticked' <=> Ticked)
  /\ Stage' \in {Stage, Stage + 1}
  /\ Pass(1) /\ Stage \in {5, 9} => Stage' = Stage
  /\ Stage' = 3 /\ ~Pass(1) => Stage # 3 /\ frame'.wire = 0
  /\ Stage = 3 => Pass(1)
  /\ ClkWire' = ClkWire /\ \A i \in Idx(mem_in) : InWire(i)' = InWire(i)
  /\ UNCHANGED <<wires, seen, refresh_cycle>>

LEMMA PassSame ==
  ASSUME UNCHANGED sub_refresh_count, InPass, InPass' PROVE \A s : Pass(s)' = Pass(s)
  BY DEF Pass

LEMMA OnwardClk ==
  ASSUME CitrinoCircuit, Typed, CitrinoCourse, Onward PROVE ClkCourse'
<1>1. /\ \A s : Pass(s)' = Pass(s)
      /\ ~frame.raised /\ ~frame'.raised /\ (Ticked' <=> Ticked)
      /\ Stage' \in {Stage, Stage + 1} /\ Stage \in 0 .. 10
      /\ Pass(1) /\ Stage \in {5, 9} => Stage' = Stage
  BY PassSame, CitrinoPlace DEF Onward, CitrinoCourse
<1>2. /\ ClkOld' = ClkOld /\ ClkHeard' = ClkHeard
      /\ ClkNew(1, 1)' = ClkNew(1, 1) /\ ClkNew(0, 0)' = ClkNew(0, 0)
      /\ ClkCounts(1, 0)' = ClkCounts(1, 0)
      /\ IsChanged(ClkWire)' = IsChanged(ClkWire)
  BY ClkStays DEF Onward
<1>3. ClkCourse
  BY DEF CitrinoCourse
<1>4. ~Ticked' => ClkOld'
  BY <1>1, <1>2, <1>3 DEF ClkCourse
<1>5. Ticked' /\ Pass(0)' => ClkNew(1, 1)'
  BY <1>1, <1>2, <1>3 DEF ClkCourse
<1>6. Pass(1)' /\ Stage' <= 5 /\ ~frame'.raised => ClkNew(1, 1)'
  BY <1>1, <1>2, <1>3 DEF ClkCourse
<1>7. Pass(1)' /\ Stage' \in 6 .. 9 => ClkNew(0, 0)' /\ ClkHeard'
  BY <1>1, <1>2, <1>3 DEF ClkCourse
<1>8. Pass(2)' \/ (Pass(1)' /\ Stage' = 10)
        => ClkCounts(1, 0)' /\ ~IsChanged(ClkWire)' /\ ClkHeard'
  BY <1>1, <1>2, <1>3 DEF ClkCourse
<1> QED
  BY <1>1, <1>4, <1>5, <1>6, <1>7, <1>8 DEF ClkCourse

LEMMA OnwardIn ==
  ASSUME CitrinoCircuit, Typed, CitrinoCourse, Onward PROVE InCourse' /\ InDriven' = InDriven
<1>1. /\ \A s : Pass(s)' = Pass(s)
      /\ ~frame.raised /\ ~frame'.raised
      /\ Stage' \in {Stage, Stage + 1} /\ Stage \in 0 .. 10
      /\ Pass(1) /\ Stage = 5 => Stage' = Stage
      /\ Stage' = 3 /\ ~Pass(1) => Stage # 3 /\ frame'.wire = 0
      /\ Stage = 3 => Pass(1)
      /\ InPass /\ InPass'
  BY PassSame, CitrinoPlace DEF Onward, CitrinoCourse
<1>2. \A s, t : Pass(s) /\ Pass(t) => s = t
  BY DEF Pass
<1>3. InDriven' = InDriven
  BY <1>1 DEF InDriven
<1>4. InStale => InStale'
  BY <1>1, <1>2 DEF InStale
<1> SUFFICES ASSUME NEW i \in Idx(mem_in)
             PROVE  LET w == InWire(i)'
    IN  /\ w.modules_connected = 0 /\ w.modules_connected_orig = 0
        /\ w.old_edge = "NULLEDGE" \/ (w.old_edge = "NEGEDGE" /\ i = 0 /\ InStale')
        /\ ~InPass' \/ Pass(0)' \/ (Pass(1)' /\ ~InDriven') => InQuiet(w)
        /\ pc' = "cycle" /\ Ticking' => w.val = "_X"
        /\ InDriven' => InZero(w)
        /\ Pass(2)' =>
             /\ Stage' <= 2 \/ (Stage' = 3 /\ frame'.wire = 0 /\ ~frame'.raised) => InZero(w)
             /\ frame'.raised => w.refcount = 1
             /\ frame'.raised /\ i = 0 => w.old_edge = "NEGEDGE"
             /\ frame'.raised /\ script' = <<>> => InLost(w, 1)
             /\ Stage' = 3 /\ frame'.wire > 0 => InLost(w, IF i < frame'.wire THEN 0 ELSE 1)
             /\ Stage' >= 4 => InLost(w, 0)
  BY <1>3 DEF InCourse, InQuiet, InZero, InLost
<1> DEFINE w == InWire(i)
<1>5. /\ InWire(i)' = w
      /\ w.modules_connected = 0 /\ w.modules_connected_orig = 0
      /\ w.old_edge = "NULLEDGE" \/ (w.old_edge = "NEGEDGE" /\ i = 0 /\ InStale)
      /\ ~InPass \/ Pass(0) \/ (Pass(1) /\ ~InDriven) => InQuiet(w)
      /\ InDriven => InZero(w)
      /\ Pass(2) =>
           /\ Stage <= 2 \/ (Stage = 3 /\ frame.wire = 0 /\ ~frame.raised) => InZero(w)
           /\ Stage >= 4 => InLost(w, 0)
  BY DEF CitrinoCourse, InCourse, Onward
<1>6. pc' # "cycle"
  BY <1>1 DEF InPass
<1> HIDE DEF w
<1>7. Pass(2) => /\ Stage' <= 2 \/ (Stage' = 3 /\ frame'.wire = 0) => InZero(w)
                 /\ ~(Stage' = 3 /\ frame'.wire > 0)
                 /\ Stage' >= 4 => InLost(w, 0)
  BY <1>1, <1>2, <1>5
<1> QED
  BY <1>1, <1>3, <1>4, <1>5, <1>6, <1>7

LEMMA WiringStays ==
  ASSUME ConnectCourse, pc \notin {"construct", "run"}, pc' \notin {"construct", "run"},
         UNCHANGED <<wires, signals, conn, connection_schedules>>
  PROVE  ConnectCourse'
  BY DEF ConnectCourse, Wired

(* Steps between two updates.                                              *)
LEMMA CitrinoBegin ==
  ASSUME CitrinoCircuit, Typed, CitrinoCourse, BeginPass, clk_val' = clk_val
  PROVE  CitrinoCourse'
<1>1. /\ pc = "pass" /\ pc' = "ports" /\ mod' = 1 /\ next' = 1 /\ driven' = FALSE
      /\ UNCHANGED <<heap, wires, signals, frame, conn, connection_schedules, script>>
      /\ UNCHANGED <<sub_refresh_count, refresh_cycle, seen>>
  BY DEF BeginPass, connVars
<1>2. frame.port = NoPort /\ ~frame.raised /\ Stage = 0
  BY <1>1, CitrinoPlace DEF Idle, CitrinoCourse
<1>3. Stage' = 0
  BY <1>1, <1>2 DEF Stage, Begun
<1>4. /\ InPass /\ InPass' /\ (CpuRan' <=> CpuRan) /\ (Ticked' <=> Ticked)
      /\ Tick' = Tick /\ Tock' = Tock
  BY <1>1 DEF InPass, Pass, CpuRan, Ticked, Tick, Tock
<1>5. Onward
  BY <1>1, <1>2, <1>3, <1>4 DEF Onward, ClkWire, InWire
<1>6. ControlCourse'
  BY <1>1, <1>2, <1>3, <1>4 DEF CitrinoCourse, ControlCourse
<1>7. DrivenCourse'
  BY <1>1, <1>2, <1>3, <1>4, OnwardIn DEF DrivenCourse, Pass, Ticked, CpuRan, InDriven
<1>8. ConnectCourse'
  BY <1>1, WiringStays DEF CitrinoCourse
<1> QED
  BY <1>5, <1>6, <1>7, <1>8, OnwardClk, OnwardIn DEF CitrinoCourse

LEMMA CitrinoUpdatePort ==
  ASSUME CitrinoCircuit, Typed, Typed', CitrinoCourse, UpdatePort, clk_val' = clk_val
  PROVE  CitrinoCourse'
<1>1. /\ pc = "ports" /\ pc' = "ports" /\ mod' = mod /\ next' = next + 1 /\ driven' = driven
      /\ next <= Len(Modules[mod]) /\ frame = Idle
      /\ frame' = [Idle EXCEPT !.port = Modules[mod][next]]
      /\ UNCHANGED <<heap, wires, signals, conn, connection_schedules, script>>
      /\ UNCHANGED <<sub_refresh_count, refresh_cycle, seen>>
  BY DEF UpdatePort, BeginUpdate, connVars
<1>2. /\ frame.port = NoPort /\ ~frame.raised /\ Stage = 2 * Begun /\ Begun \in 0 .. 5
      /\ frame'.wire = 0 /\ ~frame'.raised /\ frame'.called = {}
  BY <1>1, CitrinoPlace DEF Idle, CitrinoCourse
<1>3. frame'.port # NoPort
  <2>1. Modules[mod][next] \in Port
    BY <1>1, Placed DEF Typed
  <2> QED
    BY <1>1, <2>1, PortAssumption DEF Idle
<1>4. Begun' = Begun + 1 /\ Stage' = Stage + 1
  <2>1. /\ Begun = IF mod = 1 THEN next - 1 ELSE next + 2
        /\ mod \in {1, 2} /\ next \in 1 .. 4
    BY <1>1, CitrinoPlace DEF CitrinoCourse
  <2>2. pc' # "pass" /\ mod' = mod /\ next' = next + 1
    BY <1>1
  <2>3. Begun' = Begun + 1
    <3>1. CASE mod = 1
      BY <2>1, <2>2, <3>1 DEF Begun
    <3>2. CASE mod # 1
      BY <2>1, <2>2, <3>2 DEF Begun
    <3> QED
      BY <3>1, <3>2
  <2> QED
    BY <1>2, <1>3, <2>3 DEF Stage
<1>5. /\ InPass /\ InPass' /\ (CpuRan' <=> CpuRan) /\ (Ticked' <=> Ticked)
      /\ Tick' = Tick /\ Tock' = Tock
  BY <1>1 DEF InPass, Pass, CpuRan, Ticked, Tick, Tock
<1>6. Onward
  BY <1>1, <1>2, <1>4, <1>5 DEF Onward, ClkWire, InWire
<1>7. ControlCourse'
  BY <1>1, <1>2, <1>5 DEF CitrinoCourse, ControlCourse
<1>8. DrivenCourse'
  BY <1>1, <1>5, <1>6, OnwardIn, PassSame DEF DrivenCourse, CitrinoCourse
<1>9. ConnectCourse'
  BY <1>1, WiringStays DEF CitrinoCourse
<1> QED
  BY <1>6, <1>7, <1>8, <1>9, OnwardClk, OnwardIn DEF CitrinoCourse

LEMMA CitrinoNextModule ==
  ASSUME CitrinoCircuit, Typed, CitrinoCourse, NextModule, clk_val' = clk_val
  PROVE  CitrinoCourse'
<1>1. /\ driven' = driven /\ frame' = frame /\ frame.port = NoPort
      /\ UNCHANGED <<heap, wires, signals, conn, connection_schedules, script>>
      /\ UNCHANGED <<sub_refresh_count, refresh_cycle, seen>>
  BY NextModuleIdle DEF NextModule, connVars, portVars
<1>2. /\ ~frame.raised /\ Stage = 2 * Begun /\ Begun \in 0 .. 5 /\ Len(Modules) = 2
      /\ mod \in {1, 2} /\ next \in 1 .. 4 /\ Len(Modules[mod]) = 4 - mod
      /\ Begun = (IF mod = 1 THEN next - 1 ELSE next + 2) \/ pc = "pass"
      /\ (mod = 2 => next <= 3)
  BY <1>1, CitrinoPlace, CitrinoRegistry DEF Idle, CitrinoCourse
<1>3. /\ \/ pc = "ports" /\ sub_refresh_count # 0
         \/ pc = "update" /\ script = <<>> /\ sub_refresh_count = 0
      /\ next = 5 - mod /\ pc # "pass"
      /\ IF mod = 1 THEN mod' = 2 /\ next' = 1 /\ pc' = "ports"
                    ELSE pc' = "passed" /\ mod' = 2 /\ next' = 3
  <2>1. /\ \/ pc = "ports" /\ sub_refresh_count # 0 /\ next > Len(Modules[mod])
           \/ pc = "update" /\ script = <<>>
        /\ IF mod < 2 THEN mod' = mod + 1 /\ next' = 1 /\ pc' = "ports"
                      ELSE pc' = "passed" /\ mod' = mod /\ next' = next
    BY <1>2 DEF NextModule, PortsDone, FirstPass
  <2>2. pc = "update" => sub_refresh_count = 0 /\ next = Len(Modules[mod]) + 1
    BY DEF CitrinoCourse, ControlCourse
  <2>3. next = 5 - mod
    BY <1>2, <2>1, <2>2
  <2> QED
    BY <1>2, <2>1, <2>2, <2>3
<1>4. Begun' = Begun /\ Stage' = Stage
  <2>1. Begun' = IF mod' = 1 THEN next' - 1 ELSE next' + 2
    BY <1>3 DEF Begun
  <2>2. Begun' = Begun
    BY <1>2, <1>3, <2>1
  <2> QED
    BY <1>1, <2>2 DEF Stage
<1>5. InPass /\ InPass' /\ Tick' = Tick /\ Tock' = Tock
  BY <1>1, <1>3 DEF InPass, Tick, Tock
<1>6. sub_refresh_count \in 0 .. 2
  BY DEF CitrinoCourse, ControlCourse
<1>7. script = <<>>
  BY <1>2, <1>3 DEF CitrinoCourse, ControlCourse
<1>8. (CpuRan' <=> CpuRan) /\ (Ticked' <=> Ticked)
  <2>1. CpuRan <=> (sub_refresh_count # 0 \/ mod = 2)
    BY <1>2, <1>3, <1>5, <1>6 DEF CpuRan, Pass, cpu
  <2>2. CpuRan' <=> (sub_refresh_count # 0 \/ mod = 2)
    BY <1>1, <1>2, <1>3, <1>5, <1>6 DEF CpuRan, Pass, cpu
  <2> QED
    BY <1>1, <1>7, <2>1, <2>2 DEF Ticked
<1>9. Stage # 3 /\ Stage' # 3
  BY <1>2, <1>4
<1>10. Onward
  BY <1>1, <1>2, <1>4, <1>5, <1>8, <1>9 DEF Onward, ClkWire, InWire
<1>11. ControlCourse'
  BY <1>1, <1>2, <1>3, <1>5, <1>7, <1>8 DEF CitrinoCourse, ControlCourse, cpu
<1>12. DrivenCourse'
  BY <1>1, <1>3, <1>5, <1>8, <1>10, OnwardIn, PassSame DEF DrivenCourse, CitrinoCourse
<1>13. ConnectCourse'
  BY <1>1, <1>3, WiringStays DEF CitrinoCourse
<1> QED
  BY <1>10, <1>11, <1>12, <1>13, OnwardClk, OnwardIn DEF CitrinoCourse

(* mem's update() does nothing; cpu's complements clk_val and will drive.  *)
LEMMA CitrinoModule ==
  ASSUME CitrinoCircuit, Typed, CitrinoCourse, CitrinoUpdate
  PROVE  CitrinoCourse'
<1>1. /\ pc = "ports" /\ pc' = "update" /\ sub_refresh_count = 0 /\ frame = Idle
      /\ next > Len(Modules[mod]) /\ script' \in UpdateScripts[mod]
      /\ UNCHANGED <<driven, frame, heap, wires, signals, conn, connection_schedules>>
      /\ UNCHANGED <<mod, next, sub_refresh_count, refresh_cycle, seen>>
  BY DEF CitrinoUpdate, UpdateModule, PortsDone, FirstPass, portVars, connVars
<1>2. /\ frame.port = NoPort /\ ~frame.raised /\ Stage = 2 * Begun /\ Begun \in 0 .. 5
      /\ mod \in {1, 2} /\ next \in 1 .. 4 /\ Len(Modules[mod]) = 4 - mod
      /\ (mod = 2 => next <= 3) /\ next = Len(Modules[mod]) + 1
      /\ script = <<>>
  BY <1>1, CitrinoPlace DEF Idle, CitrinoCourse, ControlCourse
<1>3. Begun' = Begun /\ Stage' = Stage /\ Stage # 3
  BY <1>1, <1>2 DEF Begun, Stage
<1>4. InPass /\ InPass' /\ Tick' = Tick /\ Tock' = Tock
  BY <1>1 DEF InPass, Tick, Tock
<1>5. ~CpuRan /\ ~Ticked /\ clk_val = ByteOf(Tick)
  BY <1>1 DEF CitrinoCourse, ControlCourse, CpuRan, Pass, Ticked
<1>6. CpuRan' <=> (mod = 2)
  BY <1>1, <1>4 DEF CpuRan, Pass, cpu
<1>7. /\ script' \in IF mod = 2 THEN {<<DriveClk(Tick)>>} ELSE {<<>>}
      /\ clk_val' = ByteOf(IF CpuRan' THEN Tock ELSE Tick)
  <2>1. CASE mod = 1
    <3>1. UpdateScripts[1] = {<<>>}
      BY DEF CitrinoCircuit, CitrinoUpdates
    <3>2. clk_val' = clk_val
      BY <2>1 DEF CitrinoUpdate, cpu
    <3> QED
      BY <1>1, <1>5, <1>6, <2>1, <3>1, <3>2
  <2>2. CASE mod = 2
    <3>1. /\ script' = <<DriveClk(IF clk_val = 0 THEN "_0" ELSE "_1")>>
          /\ clk_val' = Complement(clk_val)
      BY <2>2 DEF CitrinoUpdate, cpu
    <3>2. (IF clk_val = 0 THEN "_0" ELSE "_1") = Tick
      BY <1>5 DEF ByteOf, Tick
    <3>3. Complement(clk_val) = ByteOf(Tock)
      BY <1>5 DEF ByteOf, Tick, Tock, Complement
    <3> QED
      BY <1>6, <2>2, <3>1, <3>2, <3>3
  <2> QED
    BY <1>2, <2>1, <2>2
<1>8. ~Ticked'
  <2>1. CASE mod = 1
    BY <1>6, <2>1 DEF Ticked
  <2>2. CASE mod = 2
    <3>1. script' = <<DriveClk(Tick)>>
      BY <1>7, <2>2
    <3> QED
      BY <1>1, <3>1, EmptySeq DEF Ticked
  <2> QED
    BY <1>2, <2>1, <2>2
<1>9. Onward
  BY <1>1, <1>2, <1>3, <1>4, <1>5, <1>8 DEF Onward, ClkWire, InWire
<1>10. ControlCourse'
  <2>1. pc' = "update" => sub_refresh_count' = 0 /\ next' = Len(Modules[mod]') + 1
    BY <1>1, <1>2
  <2>2. /\ pc' = "update" /\ mod' = cpu => script' \in {<<>>, <<DriveClk(Tick)'>>}
        /\ script' # <<>> => pc' = "update" /\ mod' = cpu
    BY <1>1, <1>2, <1>4, <1>7 DEF cpu, DriveClk
  <2> QED
    BY <1>1, <1>2, <1>4, <1>7, <2>1, <2>2 DEF CitrinoCourse, ControlCourse
<1>11. DrivenCourse'
  BY <1>1, <1>8, <1>9, OnwardIn, PassSame DEF DrivenCourse, CitrinoCourse, Onward
<1>12. ConnectCourse'
  BY <1>1, WiringStays DEF CitrinoCourse
<1> QED
  BY <1>9, <1>10, <1>11, <1>12, OnwardClk, OnwardIn DEF CitrinoCourse

(* One wire's update: which wire it is, and which wires it leaves.         *)
LEMMA CitrinoWire ==
  ASSUME CitrinoCircuit, Typed, CitrinoCourse, frame.port # NoPort
  PROVE  /\ pc = "ports" /\ InPass /\ frame.port \in Port /\ frame.wire \in Idx(frame.port)
         /\ wires[frame.port] = IF frame.port = mem_clk THEN cpu_clk ELSE frame.port
         /\ Wired
         /\ frame.port = mem_in => UpdatedWire = InWire(frame.wire)
         /\ frame.port \in {mem_clk, cpu_clk} => frame.wire = 0 /\ UpdatedWire = ClkWire
         /\ UpdatedSignal = CitrinoSensitivity[frame.port][frame.wire]
<1>1. pc = "ports" /\ InPass /\ frame.port \in Port /\ frame.wire \in Idx(frame.port)
  BY CitrinoPlace, Updated DEF CitrinoCourse, InPass, Typed, Idx
<1>2. Wired /\ signals = CitrinoSensitivity /\ \A p \in Port : p # mem_clk => wires[p] = p
  BY <1>1 DEF CitrinoCourse, ConnectCourse
<1>3. wires[frame.port] = IF frame.port = mem_clk THEN cpu_clk ELSE frame.port
  BY <1>1, <1>2 DEF Wired
<1>4. frame.port = mem_in => UpdatedWire = InWire(frame.wire)
  BY <1>3, CitrinoDistinct DEF UpdatedWire, WiresOf, InWire
<1>5. frame.port \in {mem_clk, cpu_clk} => frame.wire = 0 /\ UpdatedWire = ClkWire
  BY <1>1, <1>3, CitrinoDistinct, CitrinoShape DEF UpdatedWire, WiresOf, ClkWire
<1>6. UpdatedSignal = CitrinoSensitivity[frame.port][frame.wire]
  BY <1>2 DEF UpdatedSignal
<1> QED
  BY <1>1, <1>2, <1>3, <1>4, <1>5, <1>6

LEMMA CitrinoSetWire ==
  ASSUME CitrinoCircuit, Typed, CitrinoCourse, frame.port # NoPort, NEW w, SetUpdatedWire(w)
  PROVE  /\ ClkWire' = IF frame.port \in {mem_clk, cpu_clk} THEN w ELSE ClkWire
         /\ \A i \in Idx(mem_in) :
              InWire(i)' = IF frame.port = mem_in /\ i = frame.wire THEN w ELSE InWire(i)
<1>1. \A b \in Port : \A i \in Idx(b) : heap'[b][i] = IF Here(b, i) THEN w ELSE heap[b][i]
  BY HeapStep DEF Typed
<1>2. /\ cpu_clk \in Port /\ 0 \in Idx(cpu_clk) /\ mem_in \in Port
      /\ Here(cpu_clk, 0) <=> frame.port \in {mem_clk, cpu_clk}
      /\ \A i : Here(mem_in, i) <=> frame.port = mem_in /\ i = frame.wire
  BY CitrinoWire, CitrinoDistinct, CitrinoShape DEF Here
<1>3. ClkWire' = IF frame.port \in {mem_clk, cpu_clk} THEN w ELSE ClkWire
  BY <1>1, <1>2 DEF ClkWire
<1> QED
  BY <1>1, <1>2, <1>3 DEF InWire

LEMMA CitrinoWires ==
  ASSUME CitrinoCircuit, Typed
  PROVE  ClkWire \in Wire /\ \A i \in Idx(mem_in) : InWire(i) \in Wire
  BY CitrinoDistinct, CitrinoShape, LiveWire DEF Typed, ClkWire, InWire

LEMMA QuietWire ==
  ASSUME NEW w \in Wire, ~IsChanged(w), w.refcount = 0 PROVE Released(Checked(w)) = w
  BY DEF Released, Checked, Wire, WireOf

(* The end of a wire's update, and what it leaves alone.                   *)
LEMMA CitrinoWireDone ==
  ASSUME CitrinoCircuit, Typed, CitrinoCourse, UpdateWire \/ CallBackReturns,
         clk_val' = clk_val
  PROVE  /\ ControlCourse' /\ ConnectCourse'
         /\ frame.port # NoPort /\ script = <<>> /\ driven' = driven /\ frame' = NextFrame
         /\ UNCHANGED <<wires, pc, mod, next, script, sub_refresh_count, refresh_cycle, seen>>
         /\ InPass /\ InPass'
         /\ (CpuRan' <=> CpuRan) /\ (Ticked' <=> Ticked)
<1>1. /\ frame.port # NoPort /\ frame' = NextFrame /\ driven' = driven
      /\ UNCHANGED <<wires, signals, conn, connection_schedules>>
      /\ UNCHANGED <<pc, mod, next, script, sub_refresh_count, refresh_cycle, seen>>
      /\ frame.raised => script = <<>>
  BY DEF UpdateWire, CallBackReturns, CheckWire, SignalReturns, connVars, loopVars
<1>2. pc = "ports" /\ InPass /\ ControlCourse /\ ConnectCourse
  BY <1>1, CitrinoWire DEF CitrinoCourse
<1>3. script = <<>>
  BY <1>1, <1>2 DEF ControlCourse
<1>4. InPass' /\ (CpuRan' <=> CpuRan) /\ (Ticked' <=> Ticked) /\ Tick' = Tick /\ Tock' = Tock
  BY <1>1, <1>2 DEF InPass, CpuRan, Ticked, Pass, Tick, Tock
<1>5. frame'.raised = FALSE /\ (frame'.port # NoPort => frame'.wire # 0)
  <2>1. frame.wire \in Nat
    BY <1>1, Updated DEF Typed
  <2>2. /\ frame'.raised = FALSE
        /\ frame'.wire = frame.wire + 1 \/ frame'.port = NoPort
    BY <1>1, <1>2, CitrinoFrame
  <2> QED
    BY <2>1, <2>2
<1>6. ControlCourse'
  BY <1>1, <1>2, <1>3, <1>4, <1>5 DEF ControlCourse
<1>7. ConnectCourse'
  BY <1>1, <1>2, WiringStays
<1> QED
  BY <1>1, <1>2, <1>3, <1>4, <1>6, <1>7

(* The clock is on the wire, and mem's clk is being updated: it raises.    *)
LEMMA ClkRaises ==
  ASSUME CitrinoCircuit, Typed, CitrinoCourse, frame.port = mem_clk, ~frame.raised
  PROVE  Raises <=> Pass(1)
<1>1. /\ frame.port # NoPort /\ frame.wire = 0 /\ UpdatedWire = ClkWire /\ InPass
      /\ UpdatedSignal = ClkSignal /\ pc = "ports" /\ Stage = 5
  BY CitrinoWire, CitrinoDistinct, CitrinoSignals, CitrinoPlace DEF CitrinoCourse
<1>2. CASE Pass(1)
  <2>1. ClkNew(1, 1) /\ frame.called = {}
    BY <1>1, <1>2 DEF CitrinoCourse, ClkCourse, ControlCourse
  <2>2. EdgeOf(Tick) \in {"POSEDGE", "NEGEDGE"}
    BY DEF Tick, EdgeOf
  <2> QED
    BY <1>1, <1>2, <2>1, <2>2, CitrinoDistinct
    DEF Raises, ClkNew, ClkCounts, ClkShows, ClkSignal, Triggered
<1>3. CASE ~Pass(1)
  <2>1. ~IsChanged(ClkWire)
    <3>1. CASE Pass(2)
      BY <3>1 DEF CitrinoCourse, ClkCourse
    <3>2. CASE ~Pass(2)
      <4>1. ~Ticked
        BY <1>1, <1>3, <3>2 DEF Ticked, CpuRan
      <4> QED
        BY <4>1 DEF CitrinoCourse, ClkCourse, ClkOld
    <3> QED
      BY <3>1, <3>2
  <2> QED
    BY <1>1, <1>3, <2>1 DEF Raises
<1> QED
  BY <1>2, <1>3

(* Most wires are found as they were left.                                 *)
LEMMA CitrinoQuiet ==
  ASSUME CitrinoCircuit, Typed, CitrinoCourse, UpdateWire, clk_val' = clk_val,
         Stage # 3 \/ Pass(1), ~(Pass(1) /\ Stage = 9)
  PROVE  CitrinoCourse'
<1>1. /\ ControlCourse' /\ ConnectCourse'
      /\ frame.port # NoPort /\ driven' = driven /\ frame' = NextFrame /\ InPass /\ InPass'
      /\ UNCHANGED <<wires, pc, mod, next, sub_refresh_count, refresh_cycle, seen>>
      /\ (CpuRan' <=> CpuRan) /\ (Ticked' <=> Ticked) /\ pc = "ports"
  BY CitrinoWireDone, CitrinoWire
<1>2. /\ ~frame.raised /\ ~Raises /\ SetUpdatedWire(Released(Checked(UpdatedWire)))
  BY DEF UpdateWire, CheckWire
<1>3. /\ Stage \in 1 .. 9 /\ frame'.raised = FALSE /\ Stage' \in {Stage, Stage + 1}
      /\ Stage = 3 <=> frame.port = mem_in
      /\ Stage = 5 <=> frame.port = mem_clk
      /\ Stage = 9 <=> frame.port = cpu_clk
      /\ Stage' # 3 \/ Stage = 3
  <2>1. frame'.raised = FALSE /\ Stage' \in {Stage, Stage + 1}
    BY <1>1, CitrinoFrame DEF CitrinoCourse
  <2>2. /\ Begun \in 0 .. 5 /\ Stage = 2 * Begun - 1 /\ Stage \in 0 .. 10
        /\ frame.port = mem_in <=> Begun = 2
        /\ frame.port = mem_clk <=> Begun = 3
        /\ frame.port = cpu_clk <=> Begun = 5
    BY <1>1, CitrinoPlace DEF CitrinoCourse
  <2> QED
    BY <2>1, <2>2
<1>4. ~(Pass(1) /\ Stage = 5)
  BY <1>2, <1>3, ClkRaises
<1>5. ASSUME frame.port \in {mem_clk, cpu_clk} PROVE Released(Checked(ClkWire)) = ClkWire
  <2>1. ~IsChanged(ClkWire) /\ ClkWire.refcount = 0
    <3>1. CASE Pass(2)
      BY <3>1 DEF CitrinoCourse, ClkCourse, ClkCounts
    <3>2. CASE ~Pass(2)
      <4>1. ~Ticked
        BY <1>1, <1>3, <1>4, <1>5, <3>2 DEF Ticked, CpuRan
      <4> QED
        BY <4>1 DEF CitrinoCourse, ClkCourse, ClkOld, ClkCounts
    <3> QED
      BY <3>1, <3>2
  <2> QED
    BY <2>1, CitrinoWires, QuietWire
<1>6. ASSUME frame.port = mem_in
      PROVE  Released(Checked(InWire(frame.wire))) = InWire(frame.wire)
  <2>1. Pass(1) /\ Stage = 3 /\ frame.wire \in Idx(mem_in) /\ ~InDriven /\ ~InStale
    <3>1. Pass(1) /\ Stage = 3 /\ frame.wire \in Idx(mem_in)
      BY <1>1, <1>3, <1>6, CitrinoWire
    <3> QED
      BY <1>1, <1>2, <3>1 DEF InDriven, InStale, Pass
  <2>2. LET w == InWire(frame.wire)
        IN  w.edge = "NULLEDGE" /\ w.old_edge = "NULLEDGE" /\ w.refcount = 0
    BY <2>1 DEF CitrinoCourse, InCourse, InQuiet
  <2> QED
    BY <2>1, <2>2, CitrinoWires, QuietWire DEF IsChanged
<1>7. ClkWire' = ClkWire /\ \A i \in Idx(mem_in) : InWire(i)' = InWire(i)
  BY <1>1, <1>2, <1>5, <1>6, CitrinoSetWire, CitrinoWire
<1>8. Onward
  BY <1>1, <1>2, <1>3, <1>4, <1>7 DEF Onward
<1>9. DrivenCourse'
  BY <1>1, <1>8, OnwardIn, PassSame DEF DrivenCourse, CitrinoCourse
<1> QED
  BY <1>1, <1>8, <1>9, OnwardClk, OnwardIn DEF CitrinoCourse

LEMMA CitrinoStage ==
  ASSUME CitrinoCircuit, Typed, CitrinoCourse, frame.port # NoPort
  PROVE  /\ Stage \in 1 .. 9
         /\ Stage = 3 <=> frame.port = mem_in
         /\ Stage = 5 <=> frame.port = mem_clk
         /\ Stage = 9 <=> frame.port = cpu_clk
<1>1. /\ Begun \in 0 .. 5 /\ Stage = 2 * Begun - 1 /\ Stage \in 0 .. 10
      /\ frame.port = mem_in <=> Begun = 2
      /\ frame.port = mem_clk <=> Begun = 3
      /\ frame.port = cpu_clk <=> Begun = 5
  BY CitrinoPlace DEF CitrinoCourse
<1> QED
  BY <1>1

LEMMA CheckedFields ==
  ASSUME NEW w \in Wire, NEW x, x \in {Checked(w), Released(Checked(w))}
  PROVE  /\ x.val = w.val /\ x.edge = w.edge /\ x.last_port_drive = w.last_port_drive
         /\ x.modules_connected_orig = w.modules_connected_orig
         /\ x = Checked(w) => x.refcount = w.refcount
         /\ x = Released(Checked(w)) => x.refcount = 0
         /\ IsChanged(w) /\ w.modules_connected = 0 =>
              x.old_edge = w.edge /\ x.modules_connected = w.modules_connected_orig
         /\ IsChanged(w) /\ w.modules_connected > 0 =>
              x.old_edge = w.old_edge /\ x.modules_connected = w.modules_connected - 1
         /\ ~IsChanged(w) =>
              x.old_edge = w.old_edge /\ x.modules_connected = w.modules_connected
<1> DEFINE c == Checked(w)
<1>1. /\ c \in Wire /\ c.val = w.val /\ c.edge = w.edge
      /\ c.last_port_drive = w.last_port_drive /\ c.refcount = w.refcount
      /\ c.modules_connected_orig = w.modules_connected_orig
      /\ IsChanged(w) /\ w.modules_connected = 0 =>
           c.old_edge = w.edge /\ c.modules_connected = w.modules_connected_orig
      /\ IsChanged(w) /\ w.modules_connected > 0 =>
           c.old_edge = w.old_edge /\ c.modules_connected = w.modules_connected - 1
      /\ ~IsChanged(w) =>
           c.old_edge = w.old_edge /\ c.modules_connected = w.modules_connected
  <2>1. CASE ~IsChanged(w)
    BY <2>1, CheckedType DEF Checked, Wire, WireOf
  <2>2. CASE IsChanged(w) /\ w.modules_connected = 0
    <3>1. Checked(w) = [w EXCEPT !.old_edge = w.edge,
                                 !.modules_connected = w.modules_connected_orig]
      BY <2>2 DEF Checked
    <3> QED
      BY <2>2, <3>1, CheckedType DEF Wire, WireOf
  <2>3. CASE IsChanged(w) /\ w.modules_connected > 0
    <3>1. Checked(w) = [w EXCEPT !.modules_connected = w.modules_connected - 1]
      BY <2>3 DEF Checked, Wire, WireOf
    <3> QED
      BY <2>3, <3>1, CheckedType DEF Wire, WireOf
  <2> QED
    BY <2>1, <2>2, <2>3 DEF Wire, WireOf
<1> HIDE DEF c
<1>2. /\ Released(c).val = c.val /\ Released(c).edge = c.edge
      /\ Released(c).old_edge = c.old_edge /\ Released(c).refcount = 0
      /\ Released(c).last_port_drive = c.last_port_drive
      /\ Released(c).modules_connected = c.modules_connected
      /\ Released(c).modules_connected_orig = c.modules_connected_orig
  BY <1>1 DEF Released, Wire, WireOf
<1>3. x = c \/ x = Released(c)
  BY DEF c
<1>4. x = Checked(w) => x = c
  BY DEF c
<1>5. x = Released(Checked(w)) => x = Released(c)
  BY DEF c
<1>6. CASE x = c
  BY <1>1, <1>2, <1>5, <1>6
<1>7. CASE x = Released(c)
  BY <1>1, <1>2, <1>4, <1>7
<1> QED
  BY <1>3, <1>6, <1>7

(* The first pass finds the first wire of in as the last cycle left it.    *)
LEMMA CitrinoInFirst ==
  ASSUME CitrinoCircuit, Typed, CitrinoCourse, UpdateWire, clk_val' = clk_val,
         Stage = 3, Pass(0)
  PROVE  CitrinoCourse'
<1>1. /\ ControlCourse' /\ ConnectCourse'
      /\ frame.port # NoPort /\ driven' = driven /\ InPass /\ InPass'
      /\ UNCHANGED <<wires, pc, mod, next, sub_refresh_count, refresh_cycle, seen>>
      /\ (CpuRan' <=> CpuRan) /\ (Ticked' <=> Ticked) /\ pc = "ports"
  BY CitrinoWireDone, CitrinoWire
<1>2. ~frame.raised /\ SetUpdatedWire(Released(Checked(UpdatedWire)))
  BY DEF UpdateWire, CheckWire
<1>3. frame.port = mem_in /\ frame.wire \in Idx(mem_in) /\ UpdatedWire = InWire(frame.wire)
  BY <1>1, CitrinoStage, CitrinoWire
<1>4. Pass(0)' /\ ~Pass(1) /\ ~Pass(1)' /\ ~Pass(2) /\ ~Pass(2)'
  BY <1>1 DEF Pass
<1>5. ~Ticked /\ ~InDriven /\ ~InDriven' /\ ~Ticked'
  BY <1>1, <1>4 DEF Ticked, CpuRan, InDriven
<1>6. ClkWire' = ClkWire /\
      \A i \in Idx(mem_in) :
        InWire(i)' = IF i = frame.wire THEN Released(Checked(InWire(i))) ELSE InWire(i)
  BY <1>1, <1>2, <1>3, CitrinoSetWire, CitrinoDistinct
<1>7. ClkCourse'
  BY <1>1, <1>4, <1>5, <1>6, ClkStays DEF CitrinoCourse, ClkCourse
<1>8. ASSUME NEW i \in Idx(mem_in)
      PROVE  /\ InWire(i)'.modules_connected = 0 /\ InWire(i)'.modules_connected_orig = 0
             /\ InWire(i)'.old_edge = "NULLEDGE" /\ InQuiet(InWire(i)')
  <2> DEFINE w == InWire(i)
  <2>1. /\ w \in Wire /\ w.modules_connected = 0 /\ w.modules_connected_orig = 0
        /\ w.old_edge = "NULLEDGE" \/ (i = 0 /\ InStale)
        /\ w.edge = "NULLEDGE" /\ w.refcount = 0
    BY <1>4, CitrinoWires DEF CitrinoCourse, InCourse, InQuiet
  <2> HIDE DEF w
  <2>2. CASE i = frame.wire
    <3>1. InWire(i)' = Released(Checked(w))
      BY <1>6, <2>2 DEF w
    <3> QED
      BY <2>1, <3>1, CheckedFields DEF IsChanged, InQuiet
  <2>3. CASE i # frame.wire
    <3>1. i = 0 => ~InStale
      BY <1>1, <1>4, <2>3 DEF InStale
    <3>2. InWire(i)' = w
      BY <1>6, <2>3 DEF w
    <3> QED
      BY <2>1, <3>1, <3>2 DEF InQuiet
  <2> QED
    BY <2>2, <2>3
<1>9. InCourse'
  <2>1. pc' # "cycle" /\ ~Pass(2)'
    BY <1>1, <1>4
  <2> QED
    BY <1>5, <1>8, <2>1 DEF InCourse, InQuiet
<1>10. DrivenCourse'
  BY <1>4, <1>5 DEF DrivenCourse
<1> QED
  BY <1>1, <1>7, <1>9, <1>10 DEF CitrinoCourse

(* The third pass: the first wire of in calls back, the others follow.     *)
LEMMA InRaises ==
  ASSUME CitrinoCircuit, Typed, CitrinoCourse, frame.port = mem_in, ~frame.raised
  PROVE  Raises <=> Pass(2) /\ frame.wire = 0
<1>1. /\ frame.port # NoPort /\ UpdatedWire = InWire(frame.wire) /\ InPass
      /\ frame.wire \in Idx(mem_in) /\ Stage = 3
      /\ UpdatedSignal = CitrinoSensitivity[mem_in][frame.wire] /\ mem_in \in Port
  BY CitrinoWire, CitrinoDistinct, CitrinoStage
<1>2. CASE Pass(2) /\ frame.wire = 0
  <2>1. InZero(InWire(0)) /\ frame.called = {} /\ 0 \in Idx(mem_in) /\ ~InStale
    <3>1. InZero(InWire(0)) /\ 0 \in Idx(mem_in)
      BY <1>1, <1>2 DEF CitrinoCourse, InCourse
    <3>2. frame.called = {}
      BY <1>1, <1>2 DEF CitrinoCourse, ControlCourse
    <3> QED
      BY <1>1, <1>2, <3>1, <3>2 DEF InStale, Pass
  <2>2. InWire(0).old_edge = "NULLEDGE"
    BY <2>1 DEF CitrinoCourse, InCourse
  <2>3. UpdatedSignal = InSignal
    BY <1>1, <1>2, CitrinoSignals
  <2> QED
    BY <1>1, <1>2, <2>1, <2>2, <2>3, CitrinoDistinct
    DEF Raises, InZero, IsChanged, InSignal, Triggered
<1>3. CASE frame.wire # 0
  <2>1. UpdatedSignal = NoSignal
    BY <1>1, <1>3, CitrinoSignals
  <2> QED
    BY <1>3, <2>1 DEF Raises, NoSignal
<1>4. CASE ~Pass(2) /\ frame.wire = 0
  <2>1. InWire(0).refcount = 0
    <3>1. ~InDriven /\ (Pass(0) \/ Pass(1))
      <4>1. sub_refresh_count \in 0 .. 2
        BY DEF CitrinoCourse, ControlCourse
      <4> QED
        BY <1>1, <1>4, <4>1 DEF InDriven, Pass
    <3> QED
      BY <1>1, <1>4, <3>1 DEF CitrinoCourse, InCourse, InQuiet
  <2> QED
    BY <1>1, <1>4, <2>1 DEF Raises
<1> QED
  BY <1>2, <1>3, <1>4

LEMMA CitrinoInLast ==
  ASSUME CitrinoCircuit, Typed, CitrinoCourse, UpdateWire, clk_val' = clk_val,
         Stage = 3, Pass(2)
  PROVE  CitrinoCourse'
<1>1. /\ ControlCourse' /\ ConnectCourse'
      /\ frame.port # NoPort /\ driven' = driven /\ InPass /\ InPass' /\ frame' = NextFrame
      /\ UNCHANGED <<wires, pc, mod, next, script, sub_refresh_count, refresh_cycle, seen>>
      /\ (CpuRan' <=> CpuRan) /\ (Ticked' <=> Ticked) /\ pc = "ports"
  BY CitrinoWireDone, CitrinoWire
<1>2. ~frame.raised /\ ~Raises /\ SetUpdatedWire(Released(Checked(UpdatedWire)))
  BY DEF UpdateWire, CheckWire
<1>3. /\ frame.port = mem_in /\ frame.wire \in 1 .. 31 /\ UpdatedWire = InWire(frame.wire)
      /\ frame.wire \in Idx(mem_in)
  <2>1. frame.port = mem_in
    BY <1>1, CitrinoStage
  <2> QED
    BY <1>1, <1>2, <2>1, CitrinoWire, CitrinoShape, InRaises
<1>4. Pass(2)' /\ ~Pass(0) /\ ~Pass(0)' /\ ~Pass(1) /\ ~Pass(1)'
  BY <1>1 DEF Pass
<1>5. /\ frame'.raised = FALSE
      /\ \/ Stage' = 3 /\ frame'.wire = frame.wire + 1
         \/ Stage' = 4 /\ frame.wire = 31
  <2>1. /\ frame'.raised = FALSE
        /\ IF frame.wire + 1 < Width[frame.port]
           THEN frame'.wire = frame.wire + 1 /\ Stage' = Stage
           ELSE Stage' = Stage + 1
    BY <1>1, CitrinoFrame DEF CitrinoCourse
  <2>2. Width[frame.port] = 32
    BY <1>3, CitrinoShape
  <2> QED
    BY <1>3, <2>1, <2>2
<1>6. ~InDriven' /\ InStale'
  <2>1. Stage' >= 4 \/ (Stage' = 3 /\ frame'.wire > 0)
    BY <1>3, <1>5
  <2>2. InStale'
    BY <1>4, <2>1 DEF InStale
  <2> QED
    BY <1>4, <2>2 DEF InDriven
<1>7. ClkWire' = ClkWire /\
      \A i \in Idx(mem_in) :
        InWire(i)' = IF i = frame.wire THEN Released(Checked(InWire(i))) ELSE InWire(i)
  BY <1>1, <1>2, <1>3, CitrinoSetWire, CitrinoDistinct
<1>8. ClkCourse'
  <2>1. Ticked'
    BY <1>1, <1>4 DEF Ticked, CpuRan
  <2> QED
    BY <1>1, <1>4, <1>7, <2>1, ClkStays DEF CitrinoCourse, ClkCourse
<1>9. ASSUME NEW i \in Idx(mem_in)
      PROVE  /\ InWire(i)'.modules_connected = 0 /\ InWire(i)'.modules_connected_orig = 0
             /\ InWire(i)'.old_edge = "NULLEDGE" \/ (InWire(i)'.old_edge = "NEGEDGE" /\ i = 0)
             /\ InLost(InWire(i)', IF i <= frame.wire THEN 0 ELSE 1)
  <2> DEFINE w == InWire(i)
  <2>1. /\ w \in Wire /\ w.modules_connected = 0 /\ w.modules_connected_orig = 0
        /\ w.old_edge = "NULLEDGE" \/ (w.old_edge = "NEGEDGE" /\ i = 0)
        /\ InLost(w, IF i < frame.wire THEN 0 ELSE 1)
    <3>1. /\ w.modules_connected = 0 /\ w.modules_connected_orig = 0
          /\ w.old_edge = "NULLEDGE" \/ (w.old_edge = "NEGEDGE" /\ i = 0)
          /\ frame.wire > 0 => InLost(w, IF i < frame.wire THEN 0 ELSE 1)
      BY DEF CitrinoCourse, InCourse
    <3> QED
      BY <1>3, <3>1, CitrinoWires
  <2>2. i \in 0 .. 31
    BY CitrinoShape
  <2> HIDE DEF w
  <2>3. CASE i = frame.wire
    <3>1. InWire(i)' = Released(Checked(w))
      BY <1>7, <2>3 DEF w
    <3>2. ~IsChanged(w)
      BY <1>3, <2>1, <2>3 DEF IsChanged, InLost
    <3> QED
      BY <1>3, <2>1, <2>3, <3>1, <3>2, CheckedFields DEF InLost
  <2>4. CASE i # frame.wire
    <3>1. InWire(i)' = w
      BY <1>7, <2>4 DEF w
    <3>2. i <= frame.wire <=> i < frame.wire
      BY <1>3, <2>2, <2>4
    <3> QED
      BY <2>1, <3>1, <3>2 DEF InLost
  <2> QED
    BY <2>3, <2>4
<1>10. InCourse'
  <2> SUFFICES ASSUME NEW i \in Idx(mem_in)
               PROVE  /\ Stage' = 3 /\ frame'.wire > 0 =>
                           InLost(InWire(i)', IF i < frame'.wire THEN 0 ELSE 1)
                      /\ Stage' >= 4 => InLost(InWire(i)', 0)
                      /\ ~(Stage' <= 2 \/ (Stage' = 3 /\ frame'.wire = 0))
    <3>1. InPass' /\ ~Pass(0)' /\ ~Pass(1)' /\ pc' # "cycle" /\ frame'.raised = FALSE
      BY <1>1, <1>4, <1>5
    <3> QED
      BY <1>6, <1>9, <3>1 DEF InCourse, InLost
  <2>1. i \in 0 .. 31
    BY CitrinoShape
  <2>2. (i <= frame.wire <=> i < frame.wire + 1) /\ (frame.wire = 31 => i <= frame.wire)
    BY <1>3, <2>1
  <2> QED
    BY <1>3, <1>5, <1>9, <2>2
<1>11. DrivenCourse'
  BY <1>1, <1>4, <1>6 DEF DrivenCourse, CitrinoCourse
<1> QED
  BY <1>1, <1>8, <1>10, <1>11 DEF CitrinoCourse

(* The second pass ends with the change of the clock made the old state.   *)
LEMMA CitrinoClkLast ==
  ASSUME CitrinoCircuit, Typed, CitrinoCourse, UpdateWire, clk_val' = clk_val,
         Stage = 9, Pass(1)
  PROVE  CitrinoCourse'
<1>1. /\ ControlCourse' /\ ConnectCourse'
      /\ frame.port # NoPort /\ driven' = driven /\ InPass /\ InPass' /\ frame' = NextFrame
      /\ UNCHANGED <<wires, pc, mod, next, script, sub_refresh_count, refresh_cycle, seen>>
      /\ (CpuRan' <=> CpuRan) /\ (Ticked' <=> Ticked) /\ pc = "ports" /\ Wired
  BY CitrinoWireDone, CitrinoWire
<1>2. ~frame.raised /\ SetUpdatedWire(Released(Checked(UpdatedWire)))
  BY DEF UpdateWire, CheckWire
<1>3. frame.port = cpu_clk /\ frame.wire = 0 /\ UpdatedWire = ClkWire
  BY <1>1, CitrinoStage, CitrinoWire
<1>4. Pass(1)' /\ ~Pass(0) /\ ~Pass(0)' /\ ~Pass(2) /\ ~Pass(2)'
  BY <1>1 DEF Pass
<1>5. frame'.raised = FALSE /\ Stage' = 10
  <2>1. /\ frame'.raised = FALSE
        /\ ~(frame.wire + 1 < Width[frame.port]) => Stage' = Stage + 1
    BY <1>1, CitrinoFrame DEF CitrinoCourse
  <2>2. Width[frame.port] = 1
    BY <1>3, CitrinoShape
  <2> QED
    BY <1>3, <2>1, <2>2
<1>6. /\ ClkWire' = Released(Checked(ClkWire))
      /\ \A i \in Idx(mem_in) : InWire(i)' = InWire(i)
  BY <1>1, <1>2, <1>3, CitrinoSetWire, CitrinoDistinct
<1>7. ClkNew(0, 0) /\ ClkHeard
  BY DEF CitrinoCourse, ClkCourse
<1>8. ClkCounts(1, 0)' /\ ~IsChanged(ClkWire)' /\ ClkHeard'
  <2>1. /\ ClkWire \in Wire /\ IsChanged(ClkWire) /\ ClkWire.modules_connected = 0
        /\ ClkWire.modules_connected_orig = 1
    BY <1>1, <1>7, CitrinoWires DEF ClkNew, ClkCounts
  <2>2. /\ ClkWire'.val = ClkWire.val /\ ClkWire'.edge = ClkWire.edge
        /\ ClkWire'.last_port_drive = ClkWire.last_port_drive
        /\ ClkWire'.refcount = 0 /\ ClkWire'.modules_connected_orig = 1
        /\ ClkWire'.modules_connected = 1 /\ ClkWire'.old_edge = ClkWire.edge
    BY <1>6, <2>1, CheckedFields
  <2>3. Wired' /\ Tick' = Tick
    BY <1>1 DEF Wired, Tick
  <2> QED
    BY <1>1, <1>7, <2>2, <2>3 DEF ClkCounts, IsChanged, ClkHeard, ClkShows
<1>9. ClkCourse'
  <2>1. Ticked' /\ ~Pass(0)' /\ ~Pass(2)'
    BY <1>1, <1>4 DEF Ticked, CpuRan
  <2> QED
    BY <1>5, <1>8, <2>1 DEF ClkCourse
<1>10. InDriven /\ InDriven' /\ ~InStale
  BY <1>1, <1>4, <1>5 DEF InDriven, InStale
<1>11. InCourse'
  <2>1. ~Pass(0)' /\ ~Pass(2)' /\ pc' # "cycle" /\ InPass'
    BY <1>1, <1>4
  <2> QED
    BY <1>6, <1>10, <2>1 DEF CitrinoCourse, InCourse, InZero
<1>12. DrivenCourse'
  BY <1>1, <1>4, <1>10 DEF DrivenCourse, CitrinoCourse
<1> QED
  BY <1>1, <1>9, <1>11, <1>12 DEF CitrinoCourse

LEMMA CitrinoUpdateWire ==
  ASSUME CitrinoCircuit, Typed, CitrinoCourse, UpdateWire, clk_val' = clk_val
  PROVE  CitrinoCourse'
<1>1. InPass /\ sub_refresh_count \in 0 .. 2
  BY CitrinoWireDone DEF CitrinoCourse, ControlCourse
<1>2. Pass(0) \/ Pass(1) \/ Pass(2)
  BY <1>1 DEF Pass
<1> QED
  BY <1>2, CitrinoQuiet, CitrinoInFirst, CitrinoInLast, CitrinoClkLast

(* A signal is raised.                                                     *)
LEMMA OneCall == ASSUME NEW c PROVE Head(<<c>>) = c /\ Tail(<<c>>) = <<>> /\ <<c>> # <<>>
  OBVIOUS

LEMMA CitrinoCallBack ==
  ASSUME CitrinoCircuit, Typed, CitrinoCourse, CallBack, clk_val' = clk_val
  PROVE  CitrinoCourse'
<1>1. /\ frame.port # NoPort /\ ~frame.raised /\ Raises /\ driven' = driven
      /\ SetUpdatedWire(Checked(UpdatedWire))
      /\ frame' = [frame EXCEPT !.raised = TRUE, !.called = @ \cup {UpdatedSignal}]
      /\ script' \in CallbackScripts[UpdatedSignal.raise]
      /\ seen' = [seen EXCEPT ![frame.port] = GetWireval(mod - 1, next - 2)]
      /\ UNCHANGED <<wires, signals, conn, connection_schedules>>
      /\ UNCHANGED <<pc, mod, next, sub_refresh_count, refresh_cycle>>
  BY DEF CallBack, RaiseSignal, connVars
<1>2. /\ pc = "ports" /\ InPass /\ InPass' /\ frame.port \in Port
      /\ frame.wire \in Idx(frame.port)
      /\ UpdatedSignal = CitrinoSensitivity[frame.port][frame.wire]
  BY <1>1, CitrinoWire DEF InPass
<1>3. UpdatedSignal.raise = cback /\ frame.wire = 0
  <2>1. UpdatedSignal # NoSignal
    BY <1>1 DEF Raises, NoSignal
  <2>2. frame.port \in {mem_clk, mem_in} /\ frame.wire = 0
    BY <1>2, <2>1, CitrinoSignals
  <2> QED
    BY <1>2, <2>2, CitrinoSignals DEF ClkSignal, InSignal
<1>4. script' = <<DriveIn>> /\ script' # <<>>
  <2>1. CallbackScripts[cback] = {<<DriveIn>>}
    BY DEF CitrinoCircuit, CitrinoCallbacks
  <2> QED
    BY <1>1, <1>3, <2>1, OneCall
<1>5. /\ frame'.port = frame.port /\ frame'.wire = 0 /\ frame'.raised = TRUE
      /\ Stage' = Stage
  <2>1. frame \in [port : Port, wire : Nat, called : SUBSET Signal, raised : BOOLEAN]
    BY <1>1, Updated DEF Typed
  <2>2. frame'.port = frame.port /\ frame'.wire = 0 /\ frame'.raised = TRUE
    BY <1>1, <1>3, <2>1
  <2>3. Begun' = Begun
    BY <1>1, <1>2 DEF Begun
  <2> QED
    BY <2>2, <2>3 DEF Stage
<1>6. (CpuRan' <=> CpuRan) /\ Tick' = Tick /\ Tock' = Tock
  BY <1>1, <1>2 DEF CpuRan, Pass, InPass, Tick, Tock
<1>7. \A p : p # frame.port => seen'[p] = seen[p]
  BY <1>1, <1>2 DEF Typed, LoopTypeOK
<1>8. ConnectCourse'
  BY <1>1, <1>2, WiringStays DEF CitrinoCourse
<1>9. ASSUME (Pass(1) /\ Stage = 5) \/ (Pass(2) /\ Stage = 3) PROVE ControlCourse'
  <2>1. (Pass(1)' /\ Stage' = 5) \/ (Pass(2)' /\ Stage' = 3)
    BY <1>1, <1>2, <1>5, <1>9 DEF Pass
  <2> QED
    BY <1>1, <1>2, <1>4, <1>5, <1>6, <2>1 DEF CitrinoCourse, ControlCourse
<1>10. CASE frame.port = mem_clk
  <2>1. Pass(1) /\ Stage = 5 /\ UpdatedWire = ClkWire
    BY <1>1, <1>10, ClkRaises, CitrinoStage, CitrinoWire
  <2>2. Pass(1)' /\ ~Pass(0) /\ ~Pass(0)' /\ ~Pass(2) /\ ~Pass(2)'
    BY <1>1, <1>2, <2>1 DEF Pass
  <2>3. ClkWire' = Checked(ClkWire) /\ \A i \in Idx(mem_in) : InWire(i)' = InWire(i)
    BY <1>1, <1>10, <2>1, CitrinoSetWire, CitrinoDistinct
  <2>4. ClkNew(1, 1)
    BY <1>1, <2>1 DEF CitrinoCourse, ClkCourse
  <2>5. seen'[mem_clk][0] = Tick
    <3>1. seen'[mem_clk] = Values(mem_clk)
      BY <1>1, <1>2, <1>10, CallbackReads DEF Typed, LoopTypeOK
    <3>2. WiresOf(mem_clk) = heap[cpu_clk] /\ 0 \in DOMAIN heap[cpu_clk]
      <4>1. wires[mem_clk] = cpu_clk
        BY <1>1, CitrinoWire DEF Wired
      <4>2. heap[cpu_clk] \in [Idx(cpu_clk) -> Wire]
        BY CitrinoDistinct DEF Typed, TypeInv, PortTypeOK, Wire, Driver
      <4> QED
        BY <4>1, <4>2, CitrinoShape DEF WiresOf
    <3> QED
      BY <2>4, <3>1, <3>2 DEF Values, ClkNew, ClkShows, ClkWire
  <2>6. ClkNew(0, 1)' /\ ClkHeard'
    <3>1. /\ ClkWire \in Wire /\ IsChanged(ClkWire) /\ ClkWire.modules_connected = 1
          /\ ClkWire.refcount = 1 /\ ClkWire.modules_connected > 0
      BY <2>4, CitrinoWires DEF ClkNew, ClkCounts
    <3>2. /\ ClkWire'.val = ClkWire.val /\ ClkWire'.edge = ClkWire.edge
          /\ ClkWire'.last_port_drive = ClkWire.last_port_drive
          /\ ClkWire'.refcount = 1 /\ ClkWire'.modules_connected = 0
          /\ ClkWire'.modules_connected_orig = ClkWire.modules_connected_orig
          /\ ClkWire'.old_edge = ClkWire.old_edge
      BY <2>3, <3>1, CheckedFields
    <3>3. Wired' <=> Wired
      BY <1>1 DEF Wired
    <3> QED
      BY <1>6, <2>4, <2>5, <3>2, <3>3 DEF ClkNew, ClkCounts, IsChanged, ClkHeard, ClkShows
  <2>7. ClkCourse'
    <3>1. Ticked' /\ Stage' = 5
      BY <1>1, <1>2, <1>5, <2>1, <2>2 DEF Ticked, CpuRan
    <3> QED
      BY <1>5, <2>2, <2>6, <3>1 DEF ClkCourse
  <2>8. ~InDriven /\ ~InDriven' /\ ~InStale
    BY <1>1, <1>2, <1>4, <1>5, <2>1, <2>2 DEF InDriven, InStale
  <2>9. InCourse'
    <3>1. pc' # "cycle"
      BY <1>1, <1>2
    <3> QED
      BY <1>2, <2>1, <2>2, <2>3, <2>8, <3>1 DEF CitrinoCourse, InCourse, InQuiet
  <2>10. DrivenCourse'
    BY <2>2, <2>8 DEF DrivenCourse
  <2> QED
    BY <1>8, <1>9, <2>1, <2>7, <2>9, <2>10 DEF CitrinoCourse
<1>11. CASE frame.port = mem_in
  <2>1. Pass(2) /\ Stage = 3 /\ UpdatedWire = InWire(0)
    BY <1>1, <1>3, <1>11, InRaises, CitrinoStage, CitrinoWire
  <2>2. Pass(2)' /\ ~Pass(0) /\ ~Pass(0)' /\ ~Pass(1) /\ ~Pass(1)'
    BY <1>1, <1>2, <2>1 DEF Pass
  <2>3. /\ ClkWire' = ClkWire
        /\ \A i \in Idx(mem_in) : InWire(i)' = IF i = 0 THEN Checked(InWire(i)) ELSE InWire(i)
    BY <1>1, <1>3, <1>11, <2>1, CitrinoSetWire, CitrinoDistinct
  <2>4. ClkCourse'
    <3>1. Ticked' /\ Stage' = 3
      BY <1>1, <1>2, <1>5, <2>1, <2>2 DEF Ticked, CpuRan
    <3>2. seen'[mem_clk] = seen[mem_clk]
      BY <1>7, <1>11, CitrinoDistinct
    <3> QED
      BY <1>1, <2>1, <2>2, <2>3, <3>1, <3>2, ClkStays DEF CitrinoCourse, ClkCourse
  <2>5. ~InDriven' /\ InStale' /\ ~InStale
    BY <1>1, <1>2, <1>3, <1>5, <2>1, <2>2 DEF InDriven, InStale
  <2>6. ASSUME NEW i \in Idx(mem_in)
        PROVE  /\ InWire(i)'.modules_connected = 0 /\ InWire(i)'.modules_connected_orig = 0
               /\ InWire(i)'.old_edge = IF i = 0 THEN "NEGEDGE" ELSE "NULLEDGE"
               /\ InWire(i)'.refcount = 1
    <3> DEFINE w == InWire(i)
    <3>1. /\ w.modules_connected = 0 /\ w.modules_connected_orig = 0
          /\ w.old_edge = "NULLEDGE" /\ InZero(w) /\ w \in Wire
      BY <1>1, <1>3, <2>1, <2>5, CitrinoWires DEF CitrinoCourse, InCourse
    <3>2. IsChanged(w)
      BY <3>1 DEF IsChanged, InZero
    <3> HIDE DEF w
    <3>3. InWire(i)' = IF i = 0 THEN Checked(w) ELSE w
      BY <2>3 DEF w
    <3> QED
      BY <3>1, <3>2, <3>3, CheckedFields DEF InZero
  <2>7. InCourse'
    <3>1. pc' # "cycle" /\ Stage' = 3 /\ InPass' /\ frame'.wire = 0 /\ frame'.raised
      BY <1>1, <1>2, <1>5, <2>1
    <3> QED
      BY <1>4, <2>2, <2>5, <2>6, <3>1 DEF InCourse
  <2>8. DrivenCourse'
    BY <1>1, <1>2, <2>1, <2>2, <2>5 DEF CitrinoCourse, DrivenCourse
  <2> QED
    BY <1>8, <1>9, <2>1, <2>4, <2>7, <2>8 DEF CitrinoCourse
<1> QED
  <2>1. UpdatedSignal # NoSignal
    BY <1>1 DEF Raises, NoSignal
  <2> QED
    BY <1>2, <1>10, <1>11, <2>1, CitrinoSignals

(* The callback returns.                                                   *)
LEMMA ReleasedFields ==
  ASSUME NEW w \in Wire
  PROVE  LET x == Released(w)
         IN  /\ x.val = w.val /\ x.edge = w.edge /\ x.old_edge = w.old_edge
             /\ x.last_port_drive = w.last_port_drive /\ x.refcount = 0
             /\ x.modules_connected = w.modules_connected
             /\ x.modules_connected_orig = w.modules_connected_orig
  BY DEF Released, Wire, WireOf

LEMMA CitrinoReturns ==
  ASSUME CitrinoCircuit, Typed, CitrinoCourse, CallBackReturns, clk_val' = clk_val
  PROVE  CitrinoCourse'
<1>1. /\ ControlCourse' /\ ConnectCourse'
      /\ frame.port # NoPort /\ driven' = driven /\ InPass /\ InPass' /\ frame' = NextFrame
      /\ UNCHANGED <<wires, pc, mod, next, script, sub_refresh_count, refresh_cycle, seen>>
      /\ (CpuRan' <=> CpuRan) /\ (Ticked' <=> Ticked) /\ pc = "ports" /\ script = <<>>
  BY CitrinoWireDone, CitrinoWire
<1>2. frame.raised /\ SetUpdatedWire(Released(UpdatedWire))
  BY DEF CallBackReturns, SignalReturns
<1>3. ((Pass(1) /\ Stage = 5) \/ (Pass(2) /\ Stage = 3)) /\ frame.wire = 0
  BY <1>2 DEF CitrinoCourse, ControlCourse
<1>4. /\ frame'.raised = FALSE
      /\ IF 1 < Width[frame.port]
         THEN frame'.wire = 1 /\ Stage' = Stage
         ELSE Stage' = Stage + 1
  <2>1. /\ frame'.raised = FALSE
        /\ IF frame.wire + 1 < Width[frame.port]
           THEN frame'.wire = frame.wire + 1 /\ Stage' = Stage
           ELSE Stage' = Stage + 1
    BY <1>1, CitrinoFrame DEF CitrinoCourse
  <2> QED
    BY <1>3, <2>1
<1>5. CASE Pass(1) /\ Stage = 5
  <2>1. frame.port = mem_clk /\ UpdatedWire = ClkWire /\ Stage' = 6
    <3>1. frame.port = mem_clk
      BY <1>1, <1>5, CitrinoStage
    <3> QED
      BY <1>1, <1>4, <1>5, <3>1, CitrinoWire, CitrinoShape
  <2>2. Pass(1)' /\ ~Pass(0) /\ ~Pass(0)' /\ ~Pass(2) /\ ~Pass(2)'
    BY <1>1, <1>5 DEF Pass
  <2>3. ClkWire' = Released(ClkWire) /\ \A i \in Idx(mem_in) : InWire(i)' = InWire(i)
    BY <1>1, <1>2, <2>1, CitrinoSetWire, CitrinoDistinct
  <2>4. ClkNew(0, 1) /\ ClkHeard
    BY <1>2, <1>5 DEF CitrinoCourse, ClkCourse
  <2>5. ClkNew(0, 0)' /\ ClkHeard'
    <3>1. /\ ClkWire'.val = ClkWire.val /\ ClkWire'.edge = ClkWire.edge
          /\ ClkWire'.last_port_drive = ClkWire.last_port_drive
          /\ ClkWire'.refcount = 0 /\ ClkWire'.modules_connected = ClkWire.modules_connected
          /\ ClkWire'.modules_connected_orig = ClkWire.modules_connected_orig
          /\ ClkWire'.old_edge = ClkWire.old_edge
      BY <2>3, CitrinoWires, ReleasedFields
    <3>2. (Wired' <=> Wired) /\ Tick' = Tick
      BY <1>1 DEF Wired, Tick
    <3> QED
      BY <1>1, <2>4, <3>1, <3>2 DEF ClkNew, ClkCounts, IsChanged, ClkHeard, ClkShows
  <2>6. ClkCourse'
    <3>1. Ticked'
      BY <1>1, <2>2 DEF Ticked, CpuRan
    <3> QED
      BY <1>4, <2>1, <2>2, <2>5, <3>1 DEF ClkCourse
  <2>7. InDriven /\ InDriven' /\ ~InStale
    BY <1>1, <1>2, <1>5, <2>1, <2>2 DEF InDriven, InStale
  <2>8. InCourse'
    <3>1. pc' # "cycle" /\ InPass'
      BY <1>1
    <3> QED
      BY <2>2, <2>3, <2>7, <3>1 DEF CitrinoCourse, InCourse, InZero
  <2>9. DrivenCourse'
    BY <1>1, <2>2, <2>7 DEF DrivenCourse, CitrinoCourse
  <2> QED
    BY <1>1, <2>6, <2>8, <2>9 DEF CitrinoCourse
<1>6. CASE Pass(2) /\ Stage = 3
  <2>1. frame.port = mem_in /\ UpdatedWire = InWire(0) /\ Stage' = 3 /\ frame'.wire = 1
    <3>1. frame.port = mem_in
      BY <1>1, <1>6, CitrinoStage
    <3> QED
      BY <1>1, <1>3, <1>4, <1>6, <3>1, CitrinoWire, CitrinoShape
  <2>2. Pass(2)' /\ ~Pass(0) /\ ~Pass(0)' /\ ~Pass(1) /\ ~Pass(1)'
    BY <1>1, <1>6 DEF Pass
  <2>3. /\ ClkWire' = ClkWire
        /\ \A i \in Idx(mem_in) : InWire(i)' = IF i = 0 THEN Released(InWire(i)) ELSE InWire(i)
    BY <1>1, <1>2, <1>3, <2>1, CitrinoSetWire, CitrinoDistinct
  <2>4. ClkCourse'
    <3>1. Ticked'
      BY <1>1, <2>2 DEF Ticked, CpuRan
    <3> QED
      BY <1>1, <1>6, <2>2, <2>3, <3>1, ClkStays DEF CitrinoCourse, ClkCourse
  <2>5. ~InDriven' /\ InStale'
    BY <1>1, <2>1, <2>2 DEF InDriven, InStale
  <2>6. ASSUME NEW i \in Idx(mem_in)
        PROVE  /\ InWire(i)'.modules_connected = 0 /\ InWire(i)'.modules_connected_orig = 0
               /\ InWire(i)'.old_edge = "NULLEDGE" \/ (InWire(i)'.old_edge = "NEGEDGE" /\ i = 0)
               /\ InLost(InWire(i)', IF i < 1 THEN 0 ELSE 1)
    <3> DEFINE w == InWire(i)
    <3>1. /\ w.modules_connected = 0 /\ w.modules_connected_orig = 0
          /\ w.old_edge = "NULLEDGE" \/ (w.old_edge = "NEGEDGE" /\ i = 0)
          /\ InLost(w, 1) /\ w \in Wire
      BY <1>1, <1>2, <1>6, CitrinoWires DEF CitrinoCourse, InCourse
    <3>2. i \in Nat
      BY CitrinoShape
    <3> HIDE DEF w
    <3>3. InWire(i)' = IF i = 0 THEN Released(w) ELSE w
      BY <2>3 DEF w
    <3> QED
      BY <3>1, <3>2, <3>3, ReleasedFields DEF InLost
  <2>7. InCourse'
    <3>1. /\ pc' # "cycle" /\ Stage' = 3 /\ InPass' /\ frame'.wire = 1 /\ ~frame'.raised
          /\ ~(Stage' <= 2) /\ ~(Stage' >= 4)
      BY <1>1, <1>4, <2>1
    <3> QED
      BY <2>2, <2>5, <2>6, <3>1 DEF InCourse, InLost
  <2>8. DrivenCourse'
    BY <1>1, <1>6, <2>2, <2>5 DEF CitrinoCourse, DrivenCourse
  <2> QED
    BY <1>1, <2>4, <2>7, <2>8 DEF CitrinoCourse
<1> QED
  BY <1>3, <1>5, <1>6

(* A drive of all wires: all are taken, or none.                           *)
LEMMA DriveAll ==
  ASSUME TypeInv, NEW c \in DriveCalls, Drive(c), wires[c.port] = c.port,
         c.off = 0, c.len >= Width[c.port], Len(c.vals) >= Width[c.port],
         \A j \in Idx(c.port) : heap[c.port][j].refcount = 0
  PROVE  /\ driven'
         /\ \A i \in Idx(c.port) : \E k \in DOMAIN c.vals :
              heap'[c.port][i] = DrivenBy(Nullified(heap[c.port][i]), c.vals[k], c.port)
<1> DEFINE b == c.port
           U == Undriven(heap[b], c.off, c.len)
<1>1. /\ b \in Port /\ c.len \in Nat /\ c.vals \in Seq(WireVal) /\ Len(c.vals) \in Nat
      /\ Width[b] \in Nat \ {0}
  BY PortAssumption, LenProperties
<1>2. DOMAIN heap = Port /\ DOMAIN heap[b] = Idx(b)
  BY <1>1 DEF TypeInv, PortTypeOK
<1>3. U = 0 .. Width[b] - 1
  BY <1>1, <1>2 DEF Undriven, Window, Idx
<1>4. ASSUME NEW i \in Idx(b)
      PROVE  /\ i \in Takers(heap[b], c.off, c.len, c.vals)
             /\ Len(c.vals) - Before(U, i) \in DOMAIN c.vals
  <2>1. i \in 0 .. Width[b] - 1 /\ {x \in U : x < i} = 0 .. i - 1
    BY <1>1, <1>3 DEF Idx
  <2>2. i \in Int /\ i - 1 \in Int /\ 0 \in Int /\ i >= 0
    BY <1>1, <2>1
  <2>3. Cardinality(0 .. i - 1) = IF 0 > i - 1 THEN 0 ELSE (i - 1) - 0 + 1
    BY <2>2, FS_Interval
  <2>4. Before(U, i) = i
    <3>1. Cardinality(0 .. i - 1) = i
      BY <2>2, <2>3
    <3> HIDE DEF U
    <3> QED
      BY <2>1, <3>1 DEF Before
  <2>5. i < Len(c.vals)
    BY <1>1, <2>1
  <2>6. Len(c.vals) - Before(U, i) \in DOMAIN c.vals
    BY <1>1, <2>2, <2>4, <2>5, LenProperties
  <2> QED
    BY <1>3, <2>1, <2>4, <2>5, <2>6 DEF Takers
<1>5. heap'[b] = DriveWires(heap[b], c.off, c.len, c.vals, b)
  BY <1>1, <1>2 DEF Drive
<1>6. driven'
  <2>1. 0 \in Idx(b)
    BY <1>1 DEF Idx
  <2> QED
    BY <1>4, <2>1 DEF Drive, WiresOf
<1> HIDE DEF U
<1>7. ASSUME NEW i \in Idx(b)
      PROVE  heap'[b][i] =
               DrivenBy(Nullified(heap[b][i]), c.vals[Len(c.vals) - Before(U, i)], b)
  BY <1>2, <1>4, <1>5 DEF DriveWires, U
<1> QED
  BY <1>4, <1>6, <1>7

LEMMA DriveNone ==
  ASSUME TypeInv, NEW c \in DriveCalls, Drive(c), wires[c.port] = c.port,
         \A j \in Idx(c.port) : heap[c.port][j].refcount # 0
  PROVE  /\ driven' = driven
         /\ \A i \in Idx(c.port) : heap'[c.port][i] = Nullified(heap[c.port][i])
<1> DEFINE b == c.port
<1>1. b \in Port /\ driven \in BOOLEAN /\ DOMAIN heap = Port /\ DOMAIN heap[b] = Idx(b)
  BY PortAssumption DEF TypeInv, PortTypeOK
<1>2. Takers(heap[b], c.off, c.len, c.vals) = {}
  BY <1>1 DEF Takers, Undriven, Window
<1>3. heap'[b] = DriveWires(heap[b], c.off, c.len, c.vals, b)
  BY <1>1 DEF Drive
<1>4. \A i \in Idx(b) : heap'[b][i] = Nullified(heap[b][i])
  BY <1>1, <1>2, <1>3 DEF DriveWires
<1>5. driven' = driven
  <2>1. driven' = (driven \/ Takers(heap[b], c.off, c.len, c.vals) # {})
    BY DEF Drive, WiresOf
  <2> QED
    BY <1>1, <1>2, <2>1
<1> QED
  BY <1>4, <1>5

LEMMA NullifiedFields ==
  ASSUME NEW w \in Wire
  PROVE  LET x == Nullified(w)
         IN  /\ x.val = "_X" /\ x.edge = "NULLEDGE" /\ x.old_edge = w.old_edge
             /\ x.last_port_drive = w.last_port_drive /\ x.refcount = w.refcount
  BY DEF Nullified, Wire, WireOf

(* The calls of the program.                                               *)
LEMMA CitrinoCalls ==
  ASSUME CitrinoCircuit
  PROVE  /\ DriveIn \in DriveCalls /\ DriveIn.port = mem_in /\ DriveIn.off = 0
         /\ DriveIn.len = 32 /\ Len(DriveIn.vals) >= 32
         /\ \A k \in DOMAIN DriveIn.vals : DriveIn.vals[k] = "_0"
         /\ \A v \in {"_0", "_1"} :
              /\ DriveClk(v) \in DriveCalls /\ DriveClk(v).port = cpu_clk
              /\ DriveClk(v).off = 0 /\ DriveClk(v).len = 1 /\ Len(DriveClk(v).vals) >= 1
              /\ \A k \in DOMAIN DriveClk(v).vals : DriveClk(v).vals[k] = v
<1>1. \A n, v : DOMAIN Bits(n, v) = 1 .. n /\ \A k \in 1 .. n : Bits(n, v)[k] = v
  BY DEF Bits
<1>2. \A c \in DriveCalls : Len(c.vals) \in Nat /\ DOMAIN c.vals = 1 .. Len(c.vals)
  BY PortAssumption, LenProperties
<1>3. DriveIn \in DriveCalls /\ \A v \in {"_0", "_1"} : DriveClk(v) \in DriveCalls
  BY DEF CitrinoCircuit, CitrinoDrives
<1>4. /\ DriveIn.port = mem_in /\ DriveIn.off = 0 /\ DriveIn.len = 32
      /\ DriveIn.vals = Bits(32, "_0")
  BY DEF DriveIn
<1>5. Len(DriveIn.vals) >= 32 /\ \A k \in DOMAIN DriveIn.vals : DriveIn.vals[k] = "_0"
  <2>1. 32 \in 1 .. Len(DriveIn.vals) /\ Len(DriveIn.vals) \in Nat
    <3>1. 32 \in 1 .. 32
      OBVIOUS
    <3>2. 32 \in DOMAIN DriveIn.vals
      BY <1>1, <1>4, <3>1
    <3> QED
      BY <1>2, <1>3, <3>2
  <2> QED
    BY <1>1, <1>4, <2>1
<1>6. ASSUME NEW v \in {"_0", "_1"}
      PROVE  /\ DriveClk(v).port = cpu_clk /\ DriveClk(v).off = 0 /\ DriveClk(v).len = 1
             /\ Len(DriveClk(v).vals) >= 1
             /\ \A k \in DOMAIN DriveClk(v).vals : DriveClk(v).vals[k] = v
  <2>1. /\ DriveClk(v).port = cpu_clk /\ DriveClk(v).off = 0 /\ DriveClk(v).len = 1
        /\ DriveClk(v).vals = Bits(8, v)
    BY DEF DriveClk
  <2>2. 8 \in 1 .. Len(DriveClk(v).vals) /\ Len(DriveClk(v).vals) \in Nat
    <3>1. 8 \in 1 .. 8
      OBVIOUS
    <3>2. 8 \in DOMAIN DriveClk(v).vals
      BY <1>1, <2>1, <3>1
    <3> QED
      BY <1>2, <1>3, <3>2
  <2> QED
    BY <1>1, <2>1, <2>2
<1> QED
  BY <1>3, <1>4, <1>5, <1>6

(* The drive that runs; none is refused.                                   *)
LEMMA CitrinoDriveMade ==
  ASSUME CitrinoCircuit, Typed, CitrinoCourse, RunScript, clk_val' = clk_val
  PROVE  LET c == IF frame.raised THEN DriveIn ELSE DriveClk(Tick)
         IN  /\ script = <<c>> /\ script' = <<>> /\ Drive(c)
             /\ c \in DriveCalls /\ wires[c.port] = c.port
             /\ c.off = 0 /\ c.len >= Width[c.port] /\ Len(c.vals) >= Width[c.port]
             /\ ~frame.raised => pc = "update" /\ mod = cpu
             /\ \A i \in Idx(cpu_clk) : frame.raised => heap'[cpu_clk][i] = heap[cpu_clk][i]
             /\ \A i \in Idx(mem_in) : ~frame.raised => heap'[mem_in][i] = heap[mem_in][i]
             /\ ControlCourse' /\ ConnectCourse'
             /\ UNCHANGED <<wires, frame, pc, mod, next, sub_refresh_count, refresh_cycle, seen>>
             /\ InPass /\ InPass' /\ Stage' = Stage /\ (CpuRan' <=> CpuRan)
<1> DEFINE c == IF frame.raised THEN DriveIn ELSE DriveClk(Tick)
<1>1. /\ script # <<>> /\ script' = Tail(script)
      /\ Drive(Head(script)) \/ (~Accepts(Head(script)) /\ UNCHANGED portVars)
      /\ UNCHANGED <<wires, signals, frame, conn, connection_schedules>>
      /\ UNCHANGED <<pc, mod, next, sub_refresh_count, refresh_cycle, seen>>
  BY DEF RunScript, Drive, portVars, connVars
<1>2. Tick \in {"_0", "_1"}
  BY DEF Tick
<1>3. script = <<c>> /\ (~frame.raised => pc = "update" /\ mod = cpu)
  BY <1>1 DEF CitrinoCourse, ControlCourse
<1>4. c \in DriveCalls /\ c.off = 0 /\ c.port \in {mem_in, cpu_clk}
      /\ c.port = IF frame.raised THEN mem_in ELSE cpu_clk
  BY <1>2, CitrinoCalls
<1>5. c.len >= Width[c.port] /\ Len(c.vals) >= Width[c.port]
  BY <1>2, CitrinoCalls, CitrinoShape
<1>6. InPass
  BY <1>1, <1>3 DEF CitrinoCourse, ControlCourse
<1>7. wires[c.port] = c.port
  <2>1. \A p \in Port : p # mem_clk => wires[p] = p
    BY DEF CitrinoCourse, ConnectCourse
  <2> QED
    BY <1>4, <2>1, CitrinoDistinct
<1> HIDE DEF c
<1>8. Accepts(c)
  <2>1. Type[c.port] = "PORT_REG" /\ Dir[c.port] # "PORT_INPUT" /\ Width[c.port] > 0
    BY <1>4, CitrinoShape
  <2> QED
    BY <1>4, <1>7, <2>1 DEF Accepts
<1>9. script' = <<>> /\ Drive(c)
  BY <1>1, <1>3, <1>8, OneCall
<1>10. \A b \in Port : b # c.port => heap'[b] = heap[b]
  BY <1>7, <1>9 DEF Drive, Typed, TypeInv, PortTypeOK
<1>11. /\ \A i \in Idx(cpu_clk) : frame.raised => heap'[cpu_clk][i] = heap[cpu_clk][i]
       /\ \A i \in Idx(mem_in) : ~frame.raised => heap'[mem_in][i] = heap[mem_in][i]
  BY <1>4, <1>10, CitrinoDistinct
<1>12. InPass' /\ Stage' = Stage /\ (CpuRan' <=> CpuRan) /\ Tick' = Tick /\ Tock' = Tock
  BY <1>1, <1>6 DEF InPass, Stage, Begun, CpuRan, Pass, Tick, Tock
<1>13. ControlCourse'
  <2>1. \A s : Pass(s)' <=> Pass(s)
    BY <1>1, <1>6, <1>12 DEF Pass
  <2> QED
    BY <1>1, <1>6, <1>9, <1>12, <2>1 DEF CitrinoCourse, ControlCourse
<1>14. ConnectCourse'
  <2>1. pc \notin {"construct", "run"} /\ pc' \notin {"construct", "run"}
    BY <1>1, <1>6 DEF InPass
  <2> QED
    BY <1>1, <2>1, WiringStays DEF CitrinoCourse
<1> QED
  BY <1>1, <1>3, <1>4, <1>5, <1>6, <1>7, <1>9, <1>11, <1>12, <1>13, <1>14 DEF c

(* in is driven: from the clock's callback, it takes zeroes; from its own, *)
(* it takes nothing and is lost.                                           *)
LEMMA InTakes ==
  ASSUME CitrinoCircuit, Typed, CitrinoCourse, RunScript, clk_val' = clk_val, frame.raised
  PROVE  CitrinoCourse'
<1>1. /\ script = <<DriveIn>> /\ script # <<>> /\ script' = <<>> /\ Drive(DriveIn)
      /\ DriveIn \in DriveCalls /\ DriveIn.port = mem_in /\ wires[mem_in] = mem_in
      /\ DriveIn.off = 0 /\ DriveIn.len >= Width[mem_in] /\ Len(DriveIn.vals) >= Width[mem_in]
      /\ \A i \in Idx(cpu_clk) : heap'[cpu_clk][i] = heap[cpu_clk][i]
      /\ ControlCourse' /\ ConnectCourse' /\ frame' = frame
      /\ UNCHANGED <<wires, pc, mod, next, sub_refresh_count, refresh_cycle, seen>>
      /\ InPass /\ InPass' /\ Stage' = Stage /\ (CpuRan' <=> CpuRan)
  <2>1. /\ script = <<DriveIn>> /\ script' = <<>> /\ Drive(DriveIn)
        /\ DriveIn \in DriveCalls /\ wires[DriveIn.port] = DriveIn.port
        /\ DriveIn.off = 0 /\ DriveIn.len >= Width[DriveIn.port]
        /\ Len(DriveIn.vals) >= Width[DriveIn.port]
        /\ \A i \in Idx(cpu_clk) : heap'[cpu_clk][i] = heap[cpu_clk][i]
    BY CitrinoDriveMade
  <2>2. /\ ControlCourse' /\ ConnectCourse' /\ frame' = frame
        /\ UNCHANGED <<wires, pc, mod, next, sub_refresh_count, refresh_cycle, seen>>
        /\ InPass /\ InPass' /\ Stage' = Stage /\ (CpuRan' <=> CpuRan)
    BY CitrinoDriveMade
  <2>3. DriveIn.port = mem_in /\ script # <<>>
    BY <2>1, CitrinoCalls, OneCall
  <2> QED
    BY <2>1, <2>2, <2>3
<1>2. pc = "ports" /\ pc' = "ports" /\ (Ticked' <=> Ticked)
  <2>1. pc = "ports" /\ pc' = "ports"
    BY <1>1, Raised
  <2> QED
    BY <1>1, <2>1 DEF Ticked
<1>3. ((Pass(1) /\ Stage = 5) \/ (Pass(2) /\ Stage = 3)) /\ frame.wire = 0
  BY DEF CitrinoCourse, ControlCourse
<1>4. ClkWire' = ClkWire
  BY <1>1, CitrinoShape DEF ClkWire
<1>5. \A i \in Idx(mem_in) :
        /\ InWire(i)'.modules_connected = InWire(i).modules_connected
        /\ InWire(i)'.modules_connected_orig = InWire(i).modules_connected_orig
  BY <1>1, DriveHeap, CitrinoDistinct DEF InWire, Typed
<1>6. CASE Pass(1) /\ Stage = 5
  <2>1. Pass(1)' /\ ~Pass(0) /\ ~Pass(0)' /\ ~Pass(2) /\ ~Pass(2)'
    BY <1>1, <1>6 DEF Pass
  <2>2. ~InDriven /\ InDriven' /\ ~InStale
    BY <1>1, <1>2, <1>6, <2>1 DEF InDriven, InStale
  <2>3. \A i \in Idx(mem_in) :
          /\ InWire(i) \in Wire /\ InWire(i).old_edge = "NULLEDGE" /\ InWire(i).refcount = 0
          /\ InWire(i).modules_connected = 0 /\ InWire(i).modules_connected_orig = 0
    BY <1>6, <2>2, CitrinoWires DEF CitrinoCourse, InCourse, InQuiet
  <2>4. driven' /\ \A i \in Idx(mem_in) :
                     InWire(i)' = DrivenBy(Nullified(InWire(i)), "_0", mem_in)
    BY <1>1, <2>3, DriveAll, CitrinoCalls DEF InWire, Typed
  <2>5. ASSUME NEW i \in Idx(mem_in)
        PROVE  /\ InZero(InWire(i)') /\ InWire(i)'.old_edge = "NULLEDGE"
               /\ InWire(i)'.modules_connected = 0 /\ InWire(i)'.modules_connected_orig = 0
    <3> DEFINE w == InWire(i)
               x == InWire(i)'
    <3>1. /\ w \in Wire /\ w.old_edge = "NULLEDGE" /\ w.refcount = 0
          /\ x.modules_connected = 0 /\ x.modules_connected_orig = 0
          /\ x = DrivenBy(Nullified(w), "_0", mem_in)
      BY <1>5, <2>3, <2>4
    <3> HIDE DEF w, x
    <3>2. EdgeOf("_0") = "NEGEDGE"
      BY DEF EdgeOf
    <3>3. InZero(x) /\ x.old_edge = "NULLEDGE"
      BY <3>1, <3>2, DrivenFields DEF InZero
    <3> QED
      BY <3>1, <3>3 DEF x
  <2>6. InCourse'
    BY <1>2, <2>1, <2>2, <2>5, <1>1 DEF InCourse, InZero
  <2>7. ClkCourse'
    BY <1>1, <1>2, <1>4, <1>6, <2>1, ClkStays DEF CitrinoCourse, ClkCourse
  <2>8. DrivenCourse'
    BY <2>1, <2>4 DEF DrivenCourse
  <2> QED
    BY <1>1, <2>6, <2>7, <2>8 DEF CitrinoCourse
<1>7. CASE Pass(2) /\ Stage = 3
  <2>1. Pass(2)' /\ ~Pass(0) /\ ~Pass(0)' /\ ~Pass(1) /\ ~Pass(1)'
    BY <1>1, <1>7 DEF Pass
  <2>2. ~InDriven' /\ InStale' /\ InStale
    BY <1>1, <1>7, <2>1 DEF InDriven, InStale
  <2>3. \A i \in Idx(mem_in) :
          /\ InWire(i) \in Wire /\ InWire(i).refcount = 1
          /\ InWire(i).old_edge = "NULLEDGE" \/ (InWire(i).old_edge = "NEGEDGE" /\ i = 0)
          /\ i = 0 => InWire(i).old_edge = "NEGEDGE"
          /\ InWire(i).modules_connected = 0 /\ InWire(i).modules_connected_orig = 0
    BY <1>7, CitrinoWires DEF CitrinoCourse, InCourse
  <2>4. (driven' <=> driven) /\ \A i \in Idx(mem_in) : InWire(i)' = Nullified(InWire(i))
    BY <1>1, <2>3, DriveNone DEF InWire, Typed
  <2>5. ASSUME NEW i \in Idx(mem_in)
        PROVE  /\ InLost(InWire(i)', 1) /\ InWire(i)'.refcount = 1
               /\ InWire(i)'.old_edge = "NULLEDGE" \/ (InWire(i)'.old_edge = "NEGEDGE" /\ i = 0)
               /\ i = 0 => InWire(i)'.old_edge = "NEGEDGE"
               /\ InWire(i)'.modules_connected = 0 /\ InWire(i)'.modules_connected_orig = 0
    BY <1>5, <2>3, <2>4, NullifiedFields DEF InLost
  <2>6. InCourse'
    <3>1. /\ pc' # "cycle" /\ Stage' = 3 /\ InPass' /\ frame'.wire = 0 /\ frame'.raised
          /\ ~(Stage' <= 2) /\ ~(Stage' >= 4)
      BY <1>1, <1>2, <1>3, <1>7
    <3> QED
      BY <2>1, <2>2, <2>5, <3>1 DEF InCourse
  <2>7. ClkCourse'
    BY <1>1, <1>2, <1>4, <1>7, <2>1, ClkStays DEF CitrinoCourse, ClkCourse
  <2>8. DrivenCourse'
    BY <1>1, <1>7, <2>1, <2>2, <2>4, <1>2 DEF DrivenCourse, CitrinoCourse
  <2> QED
    BY <1>1, <2>6, <2>7, <2>8 DEF CitrinoCourse
<1> QED
  BY <1>3, <1>6, <1>7

(* The clock is driven, once in a cycle.                                   *)
LEMMA ClkTakes ==
  ASSUME CitrinoCircuit, Typed, CitrinoCourse, RunScript, clk_val' = clk_val, ~frame.raised
  PROVE  CitrinoCourse'
<1> DEFINE c == DriveClk(Tick)
<1>1. Tick \in {"_0", "_1"}
  BY DEF Tick
<1>2. /\ script = <<c>> /\ script # <<>> /\ script' = <<>> /\ Drive(c) /\ c \in DriveCalls
      /\ c.port = cpu_clk /\ wires[cpu_clk] = cpu_clk
      /\ c.off = 0 /\ c.len >= Width[cpu_clk] /\ Len(c.vals) >= Width[cpu_clk]
      /\ \A k \in DOMAIN c.vals : c.vals[k] = Tick
      /\ \A i \in Idx(mem_in) : heap'[mem_in][i] = heap[mem_in][i]
      /\ ControlCourse' /\ ConnectCourse' /\ frame' = frame /\ pc = "update" /\ mod = cpu
      /\ UNCHANGED <<wires, pc, mod, next, sub_refresh_count, refresh_cycle, seen>>
      /\ InPass /\ InPass' /\ Stage' = Stage /\ (CpuRan' <=> CpuRan)
  BY <1>1, CitrinoDriveMade, CitrinoCalls, OneCall
<1> HIDE DEF c
<1>3. /\ Pass(0) /\ Pass(0)' /\ ~Pass(1) /\ ~Pass(1)' /\ ~Pass(2) /\ ~Pass(2)'
      /\ CpuRan /\ CpuRan' /\ ~Ticked /\ Ticked'
  <2>1. Pass(0) /\ Pass(0)' /\ ~Pass(1) /\ ~Pass(1)' /\ ~Pass(2) /\ ~Pass(2)'
    BY <1>2 DEF Pass, CitrinoCourse, ControlCourse
  <2>2. CpuRan /\ CpuRan'
    BY <1>2, <2>1 DEF CpuRan
  <2> QED
    BY <1>2, <2>1, <2>2 DEF Ticked
<1>4. Wired /\ Wired' /\ Tick' = Tick
  BY <1>2 DEF CitrinoCourse, ConnectCourse, Wired, Tick
<1>5. /\ ClkWire \in Wire /\ ClkWire.refcount = 0
      /\ ClkWire.modules_connected = 1 /\ ClkWire.modules_connected_orig = 1
      /\ ClkWire.old_edge = ClkWire.edge /\ ClkWire.edge \in {"NULLEDGE", EdgeOf(Tock)}
  <2>1. ClkOld /\ ClkWire \in Wire
    BY <1>3, CitrinoWires DEF CitrinoCourse, ClkCourse
  <2> QED
    BY <1>4, <2>1 DEF ClkOld, ClkCounts, ClkShows, IsChanged
<1>6. driven' /\ ClkWire' = DrivenBy(Nullified(ClkWire), Tick, cpu_clk)
  <2>1. c.port = cpu_clk /\ Idx(cpu_clk) = {0} /\ heap[cpu_clk][0].refcount = 0
    BY <1>2, <1>5, CitrinoShape DEF ClkWire
  <2>2. \A j \in Idx(c.port) : heap[c.port][j].refcount = 0
    BY <2>1
  <2>3. /\ driven'
        /\ \A i \in Idx(c.port) : \E k \in DOMAIN c.vals :
             heap'[c.port][i] = DrivenBy(Nullified(heap[c.port][i]), c.vals[k], c.port)
    BY <1>2, <2>2, DriveAll DEF Typed
  <2>4. \E k \in DOMAIN c.vals :
          heap'[cpu_clk][0] = DrivenBy(Nullified(heap[cpu_clk][0]), c.vals[k], cpu_clk)
    BY <2>1, <2>3
  <2> QED
    BY <1>2, <2>3, <2>4 DEF ClkWire
<1>7. ClkNew(1, 1)'
  <2>1. ClkWire'.modules_connected = 1 /\ ClkWire'.modules_connected_orig = 1
    BY <1>2, <1>5, DriveHeap, CitrinoDistinct, CitrinoShape DEF ClkWire, Typed
  <2>2. /\ ClkWire'.val = Tick /\ ClkWire'.edge = EdgeOf(Tick)
        /\ ClkWire'.old_edge = ClkWire.edge
        /\ ClkWire'.refcount = 1 /\ ClkWire'.last_port_drive = cpu_clk
    BY <1>5, <1>6, DrivenFields
  <2>3. EdgeOf(Tick) # EdgeOf(Tock) /\ EdgeOf(Tick) # "NULLEDGE"
    BY DEF Tick, Tock, EdgeOf
  <2> QED
    BY <1>4, <1>5, <2>1, <2>2, <2>3 DEF ClkNew, ClkCounts, ClkShows, IsChanged
<1>8. ClkCourse'
  BY <1>3, <1>7 DEF ClkCourse
<1>9. ~InDriven /\ ~InDriven' /\ (InStale => InStale')
  BY <1>2, <1>3 DEF InDriven, InStale
<1>10. InCourse'
  <2>1. pc' # "cycle" /\ \A i \in Idx(mem_in) : InWire(i)' = InWire(i)
    BY <1>2 DEF InWire
  <2> QED
    BY <1>2, <1>3, <1>9, <2>1 DEF CitrinoCourse, InCourse, InQuiet
<1>11. DrivenCourse'
  BY <1>3, <1>6, <1>9 DEF DrivenCourse
<1> QED
  BY <1>2, <1>8, <1>10, <1>11 DEF CitrinoCourse

LEMMA CitrinoRunScript ==
  ASSUME CitrinoCircuit, Typed, CitrinoCourse, RunScript, clk_val' = clk_val
  PROVE  CitrinoCourse'
  BY InTakes, ClkTakes

(* The next pass, and the next cycle.                                      *)
LEMMA PassEnds ==
  ASSUME CitrinoCircuit, Typed, CitrinoCourse, pc = "passed"
  PROVE  /\ frame.port = NoPort /\ ~frame.raised /\ script = <<>> /\ InPass /\ Stage = 10
         /\ CpuRan /\ Ticked
         /\ Pass(0) \/ Pass(1) \/ Pass(2)
         /\ driven <=> ~Pass(2)
<1>1. mod = 2 /\ next = 3 /\ InPass
  BY DEF CitrinoCourse, ControlCourse, cpu, InPass
<1>2. frame.port = NoPort /\ ~frame.raised /\ Stage = 10
  <2>1. frame.port = NoPort /\ frame = Idle /\ Stage = 2 * Begun /\ Begun = next + 2
    BY <1>1, CitrinoPlace DEF CitrinoCourse
  <2> QED
    BY <1>1, <2>1 DEF Idle
<1>3. script = <<>> /\ sub_refresh_count \in 0 .. 2
  BY <1>2 DEF CitrinoCourse, ControlCourse
<1>4. Pass(0) \/ Pass(1) \/ Pass(2)
  BY <1>1, <1>3 DEF Pass
<1>5. CpuRan /\ Ticked
  BY <1>4 DEF CpuRan, Ticked
<1>6. Pass(1) => InDriven
  BY <1>2 DEF InDriven
<1>7. driven <=> ~Pass(2)
  BY <1>4, <1>5, <1>6 DEF CitrinoCourse, DrivenCourse
<1> QED
  BY <1>1, <1>2, <1>3, <1>4, <1>5, <1>7

LEMMA CitrinoAgain ==
  ASSUME CitrinoCircuit, Typed, CitrinoCourse, PassAgain, clk_val' = clk_val
  PROVE  CitrinoCourse'
<1>1. /\ pc = "passed" /\ driven /\ pc' = "pass" /\ driven' = driven /\ frame' = frame
      /\ sub_refresh_count' = (sub_refresh_count + 1) % SubMod /\ script' = script
      /\ UNCHANGED <<heap, wires, signals, conn, connection_schedules>>
      /\ UNCHANGED <<mod, next, refresh_cycle, seen>>
  BY DEF PassAgain, portVars, connVars
<1>2. /\ frame.port = NoPort /\ ~frame.raised /\ script = <<>> /\ InPass /\ Stage = 10
      /\ CpuRan /\ Ticked /\ (Pass(0) \/ Pass(1))
  BY <1>1, PassEnds
<1>3. InPass' /\ Stage' = 0
  BY <1>1, <1>2 DEF InPass, Stage, Begun
<1>4. \/ Pass(0) /\ Pass(1)' /\ sub_refresh_count' = 1
      \/ Pass(1) /\ Pass(2)' /\ sub_refresh_count' = 2
  BY <1>1, <1>2, <1>3, CitrinoShape DEF Pass
<1>5. /\ ~Pass(0)' /\ ~Pass(2) /\ (Pass(1)' => Pass(0) /\ ~Pass(1)) /\ (Pass(2)' => Pass(1))
      /\ ~(Pass(1)' /\ Pass(2)')
  BY <1>4 DEF Pass
<1>6. CpuRan' /\ Ticked' /\ Tick' = Tick /\ Tock' = Tock
  BY <1>1, <1>4 DEF CpuRan, Ticked, Tick, Tock
<1>7. ClkWire' = ClkWire /\ \A i \in Idx(mem_in) : InWire(i)' = InWire(i)
  BY <1>1 DEF ClkWire, InWire
<1>8. ControlCourse'
  BY <1>1, <1>2, <1>3, <1>4, <1>6 DEF CitrinoCourse, ControlCourse
<1>9. ConnectCourse'
  BY <1>1, WiringStays DEF CitrinoCourse
<1>10. ClkCourse'
  BY <1>1, <1>2, <1>3, <1>5, <1>6, <1>7, ClkStays DEF CitrinoCourse, ClkCourse
<1>11. ~InStale /\ (Pass(1) => InDriven) /\ ~InDriven'
  BY <1>1, <1>2, <1>3, <1>5 DEF InStale, InDriven
<1>12. InCourse'
  BY <1>1, <1>2, <1>3, <1>4, <1>5, <1>7, <1>11 DEF CitrinoCourse, InCourse, InQuiet, InZero
<1>13. DrivenCourse'
  BY <1>1, <1>5, <1>11 DEF DrivenCourse
<1> QED
  BY <1>8, <1>9, <1>10, <1>12, <1>13 DEF CitrinoCourse

(* The number of cycles wraps at an even number: the clock takes turns.    *)
LEMMA CycleParity ==
  ASSUME CitrinoCircuit, NEW n \in 0 .. CycleMod - 1
  PROVE  ((n + 1) % CycleMod) % 2 = 0 <=> n % 2 # 0
<1>1. CycleMod \in Nat \ {0} /\ CycleMod % 2 = 0
  BY CitrinoShape
<1>2. CASE n + 1 = CycleMod
  <2>1. (n + 1) % CycleMod = 0
    BY <1>1, <1>2
  <2>2. n % 2 # 0
    BY <1>1, <1>2
  <2> QED
    BY <2>1, <2>2
<1>3. CASE n + 1 < CycleMod
  <2>1. (n + 1) % CycleMod = n + 1
    BY <1>1, <1>3
  <2>2. (n + 1) % 2 = 0 <=> n % 2 # 0
    OBVIOUS
  <2> QED
    BY <2>1, <2>2
<1> QED
  BY <1>1, <1>2, <1>3

LEMMA CitrinoEnd ==
  ASSUME CitrinoCircuit, Typed, CitrinoCourse, EndCycle, clk_val' = clk_val
  PROVE  CitrinoCourse'
<1>1. /\ pc = "passed" /\ ~driven /\ pc' = "cycle" /\ driven' = driven /\ frame' = frame
      /\ sub_refresh_count' = 0 /\ script' = script
      /\ refresh_cycle' = (refresh_cycle + 1) % CycleMod
      /\ UNCHANGED <<heap, wires, signals, conn, connection_schedules>>
      /\ UNCHANGED <<mod, next, seen>>
  BY DEF EndCycle, portVars, connVars
<1>2. /\ frame.port = NoPort /\ ~frame.raised /\ script = <<>> /\ InPass /\ Stage = 10
      /\ CpuRan /\ Ticked /\ Pass(2)
  BY <1>1, PassEnds
<1>3. ~InPass' /\ (\A s : ~Pass(s)') /\ ~CpuRan' /\ ~Ticked'
  BY <1>1 DEF InPass, Pass, CpuRan, Ticked
<1>4. Tick' = Tock /\ Tock' = Tick
  <2>1. refresh_cycle \in 0 .. CycleMod - 1
    BY DEF Typed, LoopTypeOK
  <2>2. refresh_cycle' % 2 = 0 <=> refresh_cycle % 2 # 0
    BY <1>1, <2>1, CycleParity
  <2> QED
    BY <2>2 DEF Tick, Tock
<1>5. ClkWire' = ClkWire /\ \A i \in Idx(mem_in) : InWire(i)' = InWire(i)
  BY <1>1 DEF ClkWire, InWire
<1>6. ControlCourse'
  <2>1. clk_val' = ByteOf(Tick')
    BY <1>2, <1>4 DEF CitrinoCourse, ControlCourse
  <2> QED
    BY <1>1, <1>2, <1>3, <2>1 DEF CitrinoCourse, ControlCourse
<1>7. Wired /\ Wired'
  BY <1>1 DEF CitrinoCourse, ConnectCourse, Wired
<1>8. ConnectCourse'
  BY <1>1, WiringStays DEF CitrinoCourse
<1>9. ClkOld'
  <2>1. ClkCounts(1, 0) /\ ~IsChanged(ClkWire) /\ ClkHeard
    BY <1>2 DEF CitrinoCourse, ClkCourse
  <2>2. ClkShows(Tick)
    BY <2>1 DEF ClkHeard
  <2>3. /\ ClkWire.val = Tock' /\ ClkWire.edge = EdgeOf(Tock')
        /\ ClkWire.last_port_drive = cpu_clk /\ seen'[mem_clk][0] = Tock'
    BY <1>1, <1>4, <2>1, <2>2 DEF ClkShows, ClkHeard
  <2> QED
    BY <1>5, <1>7, <2>1, <2>3 DEF ClkOld, ClkCounts, IsChanged, ClkShows
<1>10. ClkCourse'
  BY <1>3, <1>9 DEF ClkCourse
<1>11. ~InDriven' /\ InStale'
  BY <1>3 DEF InDriven, InStale
<1>12. InCourse'
  <2>1. \A i \in Idx(mem_in) :
          /\ InLost(InWire(i), 0)
          /\ InWire(i).modules_connected = 0 /\ InWire(i).modules_connected_orig = 0
          /\ InWire(i).old_edge = "NULLEDGE" \/ (InWire(i).old_edge = "NEGEDGE" /\ i = 0)
    BY <1>2 DEF CitrinoCourse, InCourse
  <2> QED
    BY <1>3, <1>5, <1>11, <2>1 DEF InCourse, InQuiet, InLost
<1>13. DrivenCourse'
  BY <1>3, <1>11 DEF DrivenCourse
<1> QED
  BY <1>6, <1>8, <1>10, <1>12, <1>13 DEF CitrinoCourse

(* Outside of the passes.                                                  *)
LEMMA CitrinoOutside ==
  ASSUME CitrinoCircuit, Typed, CitrinoCourse, ~InPass
  PROVE  /\ pc \in {"construct", "run", "cycle"} /\ frame.port = NoPort /\ frame = Idle
         /\ ~frame.raised /\ script = <<>> /\ sub_refresh_count = 0
         /\ ClkOld /\ ~CpuRan /\ ~Ticked
<1>1. pc \in {"construct", "run", "cycle"}
  BY DEF Typed, LoopTypeOK, InPass
<1>2. frame.port = NoPort
  BY <1>1 DEF Typed, Updating
<1>3. frame = Idle /\ ~frame.raised
  BY <1>2, IdleFrame DEF Typed, Idle
<1>4. ~CpuRan /\ ~Ticked
  BY DEF CpuRan, Ticked, Pass, InPass
<1> QED
  BY <1>1, <1>2, <1>3, <1>4 DEF CitrinoCourse, ControlCourse, ClkCourse

LEMMA OutsideCourse ==
  ASSUME CitrinoCircuit, Typed, CitrinoCourse, ~InPass, ~InPass',
         UNCHANGED <<frame, script, sub_refresh_count, refresh_cycle, clk_val>>,
         ConnectCourse', ClkOld', \A i \in Idx(mem_in) : InWire(i)' = InWire(i),
         pc' = "cycle" /\ Ticking' => \A i \in Idx(mem_in) : InWire(i).val = "_X"
  PROVE  CitrinoCourse'
<1>1. /\ pc \in {"construct", "run", "cycle"} /\ frame.port = NoPort
      /\ ~frame.raised /\ script = <<>> /\ sub_refresh_count = 0 /\ ~CpuRan
  BY CitrinoOutside
<1>2. (\A s : ~Pass(s)') /\ ~CpuRan' /\ ~Ticked' /\ ~InDriven' /\ InStale' /\ InStale
  BY DEF InPass, Pass, CpuRan, Ticked, InDriven, InStale
<1>3. Tick' = Tick
  BY DEF Tick
<1>4. ControlCourse'
  <2>1. pc' \notin {"update", "passed"}
    BY DEF InPass
  <2>2. clk_val' = ByteOf(Tick')
    BY <1>1, <1>3 DEF CitrinoCourse, ControlCourse
  <2> QED
    BY <1>1, <1>2, <2>1, <2>2 DEF ControlCourse
<1>5. ClkCourse'
  BY <1>2 DEF ClkCourse
<1>6. InCourse'
  BY <1>1, <1>2 DEF CitrinoCourse, InCourse, InQuiet
<1>7. DrivenCourse'
  BY <1>2 DEF DrivenCourse
<1> QED
  BY <1>4, <1>5, <1>6, <1>7 DEF CitrinoCourse

LEMMA CitrinoRun ==
  ASSUME CitrinoCircuit, Typed, CitrinoCourse, Run, clk_val' = clk_val
  PROVE  CitrinoCourse'
<1>1. /\ pc = "construct" /\ pc' = "run"
      /\ UNCHANGED <<heap, wires, signals, frame, conn, connection_schedules>>
      /\ UNCHANGED <<script, sub_refresh_count, refresh_cycle, seen, clk_val>>
  BY DEF Run, portVars, connVars
<1>2. ~InPass /\ ~InPass'
  BY <1>1 DEF InPass
<1>3. ConnectCourse'
  <2>1. (Wired' <=> Wired) /\ (Ticking' <=> Ticking)
    BY <1>1 DEF Wired, Ticking, Clk, WiresOf
  <2> QED
    BY <1>1, <2>1 DEF CitrinoCourse, ConnectCourse
<1>4. ClkOld'
  BY <1>1, <1>2, CitrinoOutside, ClkStays DEF ClkWire
<1> QED
  BY <1>1, <1>2, <1>3, <1>4, OutsideCourse DEF InWire

(* connect_all: the first call connects the clocks and erases the request, *)
(* the others find nothing to do.                                          *)
LEMMA OneRequest ==
  ASSUME CitrinoCircuit
  PROVE  /\ ClkRequest.dst = mem_clk /\ ClkRequest.found = <<cpu_clk>>
         /\ Len(ClkRequest.found) = 1 /\ ClkRequest.found[1] = cpu_clk
         /\ Linking(ClkRequest, cpu_clk) = <<cpu_clk, mem_clk>>
         /\ <<ClkRequest>> # <<>> /\ Len(<<ClkRequest>>) = 1 /\ <<ClkRequest>>[1] = ClkRequest
         /\ RemovedAt(<<ClkRequest>>, 1) = <<>>
<1>1. ClkRequest.dst = mem_clk /\ ClkRequest.found = <<cpu_clk>>
  BY DEF ClkRequest
<1>2. Linking(ClkRequest, cpu_clk) = <<cpu_clk, mem_clk>>
  BY <1>1, CitrinoShape DEF Linking
<1>3. \A r : <<r>> # <<>> /\ Len(<<r>>) = 1 /\ <<r>>[1] = r /\ RemovedAt(<<r>>, 1) = <<>>
  BY DEF RemovedAt
<1> QED
  BY <1>1, <1>2, <1>3

LEMMA CitrinoConnects ==
  ASSUME CitrinoCircuit, Typed, CitrinoCourse, CallConnectAll, ConnectFound, clk_val' = clk_val
  PROVE  CitrinoCourse'
<1>1. /\ pc \in {"run", "cycle"} /\ conn.at = "scan" /\ conn.i <= Len(connection_schedules)
      /\ conn.found <= Len(Scanned.found) /\ UNCHANGED connection_schedules
      /\ conn' = [conn EXCEPT !.found = @ + 1, !.erase_index = NotedIndex]
      /\ UNCHANGED <<pc, script, sub_refresh_count, refresh_cycle, seen, clk_val>>
  BY DEF CallConnectAll, ConnectFound, Scanning, loopVars
<1>2. ~InPass /\ ~InPass'
  BY <1>1 DEF InPass
<1>3. /\ pc = "run" /\ ~Wired /\ connection_schedules = <<ClkRequest>>
      /\ conn.i = 1 /\ conn.found = 1 /\ conn.erase_index = <<>>
      /\ signals = CitrinoSensitivity /\ refresh_cycle = 0 /\ ~Ticking
      /\ \A p \in Port : p # mem_clk => wires[p] = p
  <2>1. /\ pc = "run" /\ signals = CitrinoSensitivity /\ refresh_cycle = 0 /\ ~Ticking
        /\ \A p \in Port : p # mem_clk => wires[p] = p
    BY <1>1 DEF CitrinoCourse, ConnectCourse
  <2>2. ~Wired
    <3>1. SUFFICES ASSUME Wired PROVE FALSE
      OBVIOUS
    <3>2. /\ connection_schedules = <<ClkRequest>>
          /\ (conn.i = 1 /\ conn.found = 2) \/ (conn.i = 2 /\ conn.found = 1)
      BY <1>1, <2>1, <3>1 DEF CitrinoCourse, ConnectCourse
    <3>3. conn.i = 1 /\ conn.found = 2 /\ Scanned = ClkRequest
      BY <1>1, <3>2, OneRequest DEF Scanned
    <3> QED
      BY <1>1, <3>3, OneRequest
  <2> QED
    BY <1>1, <2>1, <2>2 DEF CitrinoCourse, ConnectCourse
<1>4. Connect(cpu_clk, mem_clk)
  <2>1. Scanned = ClkRequest
    BY <1>3, OneRequest DEF Scanned
  <2>2. Linking(Scanned, Scanned.found[conn.found]) = <<cpu_clk, mem_clk>>
    BY <1>3, <2>1, OneRequest
  <2> QED
    BY <2>2, CitrinoShape DEF ConnectFound
<1>5. /\ wires' = [wires EXCEPT ![mem_clk] = cpu_clk] /\ wires[cpu_clk] = cpu_clk
      /\ wires' \in [Port -> Port] /\ wires'[mem_clk] = cpu_clk
      /\ \A p \in Port : p # mem_clk => wires'[p] = p
      /\ UNCHANGED <<signals, frame>>
  <2>1. wires[cpu_clk] = cpu_clk /\ wires \in [Port -> Port] /\ mem_clk \in Port
        /\ cpu_clk \in Port
    BY <1>3, CitrinoDistinct DEF Typed, TypeInv, PortTypeOK
  <2> QED
    BY <1>3, <1>4, <2>1 DEF Connect, Repointed
<1>6. /\ ClkWire' = Linked(ClkWire) /\ \A i \in Idx(mem_in) : InWire(i)' = InWire(i)
  BY <1>4, <1>5, LinkHeap, CitrinoDistinct, CitrinoShape DEF ClkWire, InWire, Typed
<1>7. /\ ClkWire'.modules_connected = 1 /\ ClkWire'.modules_connected_orig = 1
      /\ ClkWire'.refcount = 0 /\ ClkWire'.edge = ClkWire.edge
      /\ ClkWire'.old_edge = ClkWire.old_edge /\ ClkWire'.val = ClkWire.val
      /\ ClkWire'.last_port_drive = ClkWire.last_port_drive /\ ~IsChanged(ClkWire)
  <2>1. /\ ClkWire.modules_connected = 0 /\ ClkWire.refcount = 0 /\ ClkWire \in Wire
        /\ ~IsChanged(ClkWire)
    BY <1>2, <1>3, CitrinoOutside, CitrinoWires DEF ClkOld, ClkCounts
  <2>2. /\ Linked(ClkWire).modules_connected = 1
        /\ Linked(ClkWire).modules_connected_orig = 1
        /\ Linked(ClkWire).refcount = 0 /\ Linked(ClkWire).edge = ClkWire.edge
        /\ Linked(ClkWire).old_edge = ClkWire.old_edge /\ Linked(ClkWire).val = ClkWire.val
        /\ Linked(ClkWire).last_port_drive = ClkWire.last_port_drive
    BY <2>1 DEF Linked, Wire, WireOf
  <2> QED
    BY <1>6, <2>1, <2>2
<1>8. Wired' /\ ~Ticking' /\ ClkWire.last_port_drive = NoPort
  <2>1. Wired'
    BY <1>5 DEF Wired
  <2>2. ClkWire.last_port_drive = NoPort
    BY <1>3, <1>5 DEF Ticking, Clk, WiresOf, ClkWire
  <2>3. wires'[cpu_clk] = cpu_clk
    BY <1>5, CitrinoDistinct
  <2> QED
    BY <1>7, <2>1, <2>2, <2>3 DEF Ticking, Clk, WiresOf, ClkWire
<1>9. ClkOld'
  <2>1. ClkOld
    BY <1>2, CitrinoOutside
  <2>2. ClkWire.edge = "NULLEDGE"
    BY <1>8, <2>1, CitrinoDistinct DEF ClkOld, ClkShows
  <2> QED
    BY <1>7, <1>8, <2>2 DEF ClkOld, ClkCounts, IsChanged
<1>10. ConnectCourse'
  <2>1. /\ conn'.at = "scan" /\ conn'.i = 1 /\ conn'.found = 2 /\ conn'.erase_index = << 1 >>
    BY <1>1, <1>3 DEF NotedIndex, Typed, ConnectTypeOK
  <2> QED
    BY <1>1, <1>3, <1>5, <1>8, <2>1 DEF ConnectCourse
<1> QED
  BY <1>1, <1>2, <1>3, <1>5, <1>6, <1>8, <1>9, <1>10, OutsideCourse

(* The other steps of connect_all touch no wire.                           *)
LEMMA CitrinoSchedules ==
  ASSUME CitrinoCircuit, Typed, CitrinoCourse, CallConnectAll, ~ConnectFound, clk_val' = clk_val
  PROVE  CitrinoCourse'
<1>1. /\ pc \in {"run", "cycle"} /\ UNCHANGED <<heap, wires, signals, frame>>
      /\ UNCHANGED <<pc, script, sub_refresh_count, refresh_cycle, seen, clk_val>>
      /\ \/ BeginConnectAll \/ NextRequest \/ EndScan \/ EraseNoted \/ ErasePastEnd
         \/ EndErase
  BY DEF CallConnectAll, ConnectStep, BeginConnectAll, NextRequest, EndScan, EraseNoted,
         ErasePastEnd, EndErase, loopVars, portVars
<1>2. ~InPass /\ ~InPass' /\ (Wired' <=> Wired) /\ (Ticking' <=> Ticking)
  BY <1>1 DEF InPass, Wired, Ticking, Clk, WiresOf
<1>3. /\ signals = CitrinoSensitivity /\ (\A p \in Port : p # mem_clk => wires[p] = p)
      /\ wires[mem_clk] \in {mem_clk, cpu_clk}
      /\ pc = "run" => refresh_cycle = 0 /\ ~Ticking
      /\ pc = "cycle" => Wired /\ connection_schedules = <<>> /\ conn.at \in {"idle", "done"}
      /\ pc = "run" /\ ~Wired =>
           /\ connection_schedules = <<ClkRequest>> /\ conn.at \in {"idle", "scan"}
           /\ conn.i = 1 /\ conn.found = 1 /\ conn.erase_index = <<>>
      /\ pc = "run" /\ Wired =>
           \/ /\ connection_schedules = <<ClkRequest>> /\ conn.erase_index = << 1 >>
              /\ \/ conn.at = "scan" /\ (  (conn.i = 1 /\ conn.found = 2)
                                        \/ (conn.i = 2 /\ conn.found = 1))
                 \/ conn.at = "erase"
           \/ /\ connection_schedules = <<>> /\ conn.erase_index = <<>>
              /\ conn.at \in {"erase", "done"}
  BY <1>1 DEF CitrinoCourse, ConnectCourse
<1>4. conn \in [at : {"idle", "scan", "erase", "done", "stopped"}, i : Nat \ {0},
                found : Nat \ {0}, erase_index : Seq(Nat \ {0})]
  BY DEF Typed, ConnectTypeOK
<1>5. ASSUME /\ pc = "cycle" => connection_schedules' = <<>> /\ conn'.at \in {"idle", "done"}
             /\ pc = "run" /\ ~Wired =>
                  /\ connection_schedules' = <<ClkRequest>> /\ conn'.at \in {"idle", "scan"}
                  /\ conn'.i = 1 /\ conn'.found = 1 /\ conn'.erase_index = <<>>
             /\ pc = "run" /\ Wired =>
                  \/ /\ connection_schedules' = <<ClkRequest>> /\ conn'.erase_index = << 1 >>
                     /\ \/ /\ conn'.at = "scan"
                           /\ (conn'.i = 1 /\ conn'.found = 2) \/ (conn'.i = 2 /\ conn'.found = 1)
                        \/ conn'.at = "erase"
                  \/ /\ connection_schedules' = <<>> /\ conn'.erase_index = <<>>
                     /\ conn'.at \in {"erase", "done"}
      PROVE  ConnectCourse'
  BY <1>1, <1>2, <1>3, <1>5 DEF ConnectCourse
<1>6. ConnectCourse'
  <2>1. CASE BeginConnectAll
    <3>1. /\ conn.at = "idle" /\ UNCHANGED connection_schedules
          /\ conn' = [conn EXCEPT !.at = IF connection_schedules = <<>> THEN "done" ELSE "scan"]
      BY <2>1 DEF BeginConnectAll
    <3>2. /\ conn'.at = IF connection_schedules = <<>> THEN "done" ELSE "scan"
          /\ conn'.i = conn.i /\ conn'.found = conn.found
          /\ conn'.erase_index = conn.erase_index
      BY <1>4, <3>1
    <3> QED
      BY <1>1, <1>3, <1>5, <3>1, <3>2, OneRequest
  <2>2. CASE NextRequest
    <3>1. /\ conn.at = "scan" /\ conn.i <= Len(connection_schedules)
          /\ conn.found > Len(Scanned.found) /\ UNCHANGED connection_schedules
          /\ conn' = [conn EXCEPT !.i = @ + 1, !.found = 1]
      BY <2>2 DEF NextRequest, Scanning
    <3>2. /\ conn'.at = "scan" /\ conn'.i = conn.i + 1 /\ conn'.found = 1
          /\ conn'.erase_index = conn.erase_index
      BY <1>4, <3>1
    <3>3. pc = "run" /\ connection_schedules = <<ClkRequest>> /\ conn.i = 1
      BY <1>1, <1>3, <3>1, OneRequest
    <3>4. Scanned = ClkRequest
      BY <3>3, OneRequest DEF Scanned
    <3>5. conn.found = 2 /\ Wired
      BY <1>3, <3>1, <3>3, <3>4, OneRequest
    <3>6. conn.erase_index = << 1 >>
      BY <1>3, <3>1, <3>3, <3>5
    <3> QED
      BY <1>5, <3>1, <3>2, <3>3, <3>5, <3>6
  <2>3. CASE EndScan
    <3>1. /\ conn.at = "scan" /\ conn.i > Len(connection_schedules)
          /\ UNCHANGED connection_schedules /\ conn' = [conn EXCEPT !.at = "erase"]
      BY <2>3 DEF EndScan
    <3>2. conn'.at = "erase" /\ conn'.erase_index = conn.erase_index
      BY <1>4, <3>1
    <3>3. pc = "run" /\ Wired /\ connection_schedules = <<ClkRequest>>
          /\ conn.erase_index = << 1 >>
      BY <1>1, <1>3, <3>1, OneRequest
    <3> QED
      BY <1>5, <3>1, <3>2, <3>3
  <2>4. CASE EraseNoted
    <3>1. /\ conn.at = "erase" /\ conn.erase_index # <<>>
          /\ connection_schedules' = RemovedAt(connection_schedules, Head(conn.erase_index))
          /\ conn' = [conn EXCEPT !.erase_index = Tail(@)]
      BY <2>4 DEF EraseNoted, Erased
    <3>2. conn'.at = "erase" /\ conn'.erase_index = Tail(conn.erase_index)
      BY <1>4, <3>1
    <3>3. pc = "run" /\ Wired /\ connection_schedules = <<ClkRequest>>
          /\ conn.erase_index = << 1 >>
      BY <1>1, <1>3, <3>1
    <3>4. connection_schedules' = <<>> /\ conn'.erase_index = <<>>
      BY <3>1, <3>2, <3>3, OneRequest, OneCall
    <3> QED
      BY <1>5, <3>2, <3>3, <3>4
  <2>5. CASE ErasePastEnd
    <3>1. /\ conn.at = "erase" /\ conn.erase_index # <<>>
          /\ Head(conn.erase_index) > Len(connection_schedules)
      BY <2>5 DEF ErasePastEnd
    <3>2. connection_schedules = <<ClkRequest>> /\ conn.erase_index = << 1 >>
      BY <1>1, <1>3, <3>1
    <3> QED
      BY <3>1, <3>2, OneRequest, OneCall
  <2>6. CASE EndErase
    <3>1. /\ conn.at = "erase" /\ conn.erase_index = <<>> /\ UNCHANGED connection_schedules
          /\ conn' = [conn EXCEPT !.at = "done"]
      BY <2>6 DEF EndErase
    <3>2. conn'.at = "done" /\ conn'.erase_index = <<>>
      BY <1>4, <3>1
    <3>3. pc = "run" /\ Wired /\ connection_schedules = <<>>
      BY <1>1, <1>3, <3>1, OneCall
    <3> QED
      BY <1>5, <3>1, <3>2, <3>3
  <2> QED
    BY <1>1, <2>1, <2>2, <2>3, <2>4, <2>5, <2>6
<1>7. ClkOld'
  BY <1>1, <1>2, CitrinoOutside, ClkStays DEF ClkWire
<1>8. pc' = "cycle" /\ Ticking' => \A i \in Idx(mem_in) : InWire(i).val = "_X"
  BY <1>1, <1>2 DEF CitrinoCourse, InCourse
<1> QED
  BY <1>1, <1>2, <1>6, <1>7, <1>8, OutsideCourse DEF InWire

(* connect_all returns, to the first cycle or to the first pass of one.    *)
LEMMA CitrinoConnected ==
  ASSUME CitrinoCircuit, Typed, CitrinoCourse, ConnectAllReturns, clk_val' = clk_val
  PROVE  CitrinoCourse'
<1>1. /\ pc \in {"run", "cycle"} /\ conn.at = "done" /\ conn' = NotConnecting
      /\ pc' = IF pc = "run" THEN "cycle" ELSE "pass"
      /\ UNCHANGED <<heap, wires, signals, frame, connection_schedules>>
      /\ UNCHANGED <<mod, next, script, sub_refresh_count, refresh_cycle, seen, clk_val>>
  BY DEF ConnectAllReturns, ConnectReturns, portVars
<1>2. ~InPass /\ (Wired' <=> Wired) /\ (Ticking' <=> Ticking)
  BY <1>1 DEF InPass, Wired, Ticking, Clk, WiresOf
<1>3. ConnectCourse'
  <2>1. Wired /\ connection_schedules = <<>>
    BY <1>1 DEF CitrinoCourse, ConnectCourse
  <2>2. conn'.at = "idle" /\ pc' \notin {"construct", "run"}
    BY <1>1 DEF NotConnecting
  <2> QED
    BY <1>1, <1>2, <2>1, <2>2 DEF CitrinoCourse, ConnectCourse
<1>4. ClkOld'
  BY <1>1, <1>2, CitrinoOutside, ClkStays DEF ClkWire
<1>5. \A i \in Idx(mem_in) : InWire(i)' = InWire(i)
  BY <1>1 DEF InWire
<1>6. CASE pc = "run"
  <2>1. ~InPass' /\ ~Ticking'
    BY <1>1, <1>2, <1>6 DEF InPass, CitrinoCourse, ConnectCourse
  <2> QED
    BY <1>1, <1>2, <1>3, <1>4, <1>5, <2>1, OutsideCourse
<1>7. CASE pc = "cycle"
  <2>1. /\ frame.port = NoPort /\ ~frame.raised /\ script = <<>> /\ sub_refresh_count = 0
        /\ ~CpuRan
    BY <1>2, CitrinoOutside
  <2>2. /\ pc' = "pass" /\ InPass' /\ Pass(0)' /\ Stage' = 0 /\ ~Pass(1)' /\ ~Pass(2)'
    BY <1>1, <1>7, <2>1 DEF InPass, Pass, Stage, Begun
  <2>3. ~CpuRan' /\ ~Ticked' /\ ~InDriven' /\ InStale' /\ InStale /\ Tick' = Tick
    BY <1>1, <1>2, <2>2 DEF CpuRan, Ticked, InDriven, InStale, Tick
  <2>4. ControlCourse'
    <3>1. clk_val' = ByteOf(Tick')
      BY <1>1, <2>1, <2>3 DEF CitrinoCourse, ControlCourse
    <3> QED
      BY <1>1, <2>1, <2>2, <2>3, <3>1 DEF ControlCourse
  <2>5. ClkCourse'
    BY <1>4, <2>2, <2>3 DEF ClkCourse
  <2>6. InCourse'
    BY <1>2, <1>5, <2>2, <2>3 DEF CitrinoCourse, InCourse, InQuiet
  <2>7. DrivenCourse'
    BY <2>2, <2>3 DEF DrivenCourse
  <2> QED
    BY <1>3, <2>4, <2>5, <2>6, <2>7 DEF CitrinoCourse
<1> QED
  BY <1>1, <1>6, <1>7

-----------------------------------------------------------------------------
(* The course is kept.                                                     *)
LEMMA CitrinoBegins == ASSUME CitrinoCircuit, CitrinoInit PROVE CitrinoCourse
<1>1. /\ pc = "construct" /\ frame = Idle /\ script = <<>> /\ sub_refresh_count = 0
      /\ refresh_cycle = 0 /\ signals = CitrinoSensitivity /\ conn = NotConnecting
      /\ connection_schedules = <<ClkRequest>> /\ wires = [p \in Port |-> p] /\ clk_val = 0
      /\ heap = [p \in Port |-> [i \in Idx(p) |-> NewWire("_0", NoPort)]]
  BY DEF CitrinoInit, Init, CitrinoCircuit, CitrinoScheduled
<1>2. ~InPass /\ (\A s : ~Pass(s)) /\ ~CpuRan /\ ~Ticked /\ ~InDriven /\ InStale
      /\ frame.port = NoPort /\ ~frame.raised
  BY <1>1 DEF InPass, Pass, CpuRan, Ticked, InDriven, InStale, Idle
<1>3. Tick = "_0"
  BY <1>1 DEF Tick
<1>4. ControlCourse
  BY <1>1, <1>2, <1>3 DEF ControlCourse, ByteOf
<1>5. \A p \in Port : wires[p] = p
  BY <1>1
<1>6. ClkWire = NewWire("_0", NoPort) /\ \A i \in Idx(mem_in) : InWire(i) = NewWire("_0", NoPort)
  BY <1>1, CitrinoDistinct, CitrinoShape DEF ClkWire, InWire
<1>7. ~Wired /\ ~Ticking
  <2>1. ~Wired
    BY <1>5, CitrinoDistinct DEF Wired
  <2>2. Clk = NewWire("_0", NoPort)
    BY <1>5, <1>6, CitrinoDistinct DEF Clk, WiresOf, ClkWire
  <2> QED
    BY <2>1, <2>2 DEF Ticking, NewWire
<1>8. ConnectCourse
  BY <1>1, <1>5, <1>7, CitrinoDistinct DEF ConnectCourse, NotConnecting
<1>9. ClkOld
  BY <1>6, <1>7 DEF ClkOld, ClkCounts, IsChanged, NewWire
<1>10. ClkCourse
  BY <1>2, <1>9 DEF ClkCourse
<1>11. InCourse
  BY <1>1, <1>2, <1>6 DEF InCourse, InQuiet, NewWire
<1>12. DrivenCourse
  BY <1>2 DEF DrivenCourse
<1> QED
  BY <1>4, <1>8, <1>10, <1>11, <1>12 DEF CitrinoCourse

LEMMA CitrinoStays ==
  ASSUME CitrinoCourse, UNCHANGED citrinoVars PROVE CitrinoCourse'
<1>1. /\ UNCHANGED <<heap, wires, signals, driven, frame, connection_schedules, conn>>
      /\ UNCHANGED <<pc, mod, next, script, sub_refresh_count, refresh_cycle, seen, clk_val>>
  BY DEF citrinoVars, vars, portVars, connVars, loopVars
<1>2. /\ InPass' = InPass /\ Stage' = Stage /\ Tick' = Tick /\ Tock' = Tock
      /\ (Wired' <=> Wired) /\ (Ticking' <=> Ticking) /\ ClkWire' = ClkWire
      /\ \A i : InWire(i)' = InWire(i)
  BY <1>1 DEF InPass, Stage, Begun, Tick, Tock, Wired, Ticking, Clk, WiresOf, ClkWire, InWire
<1>3. /\ \A s : Pass(s)' <=> Pass(s)
      /\ (CpuRan' <=> CpuRan) /\ (Ticked' <=> Ticked)
      /\ (InDriven' <=> InDriven) /\ (InStale' <=> InStale)
  BY <1>1, <1>2 DEF Pass, CpuRan, Ticked, InDriven, InStale
<1>4. ControlCourse'
  BY <1>1, <1>2, <1>3 DEF CitrinoCourse, ControlCourse
<1>5. ConnectCourse'
  BY <1>1, <1>2 DEF CitrinoCourse, ConnectCourse
<1>6. ClkCourse'
  BY <1>1, <1>2, <1>3, ClkStays DEF CitrinoCourse, ClkCourse
<1>7. InCourse'
  BY <1>1, <1>2, <1>3 DEF CitrinoCourse, InCourse, InQuiet, InZero, InLost
<1>8. DrivenCourse'
  BY <1>1, <1>3 DEF CitrinoCourse, DrivenCourse
<1> QED
  BY <1>4, <1>5, <1>6, <1>7, <1>8 DEF CitrinoCourse

LEMMA CitrinoIsLoop == [CitrinoNext]_citrinoVars => [Next]_vars
  BY DEF CitrinoNext, CitrinoUpdate, Simulate, Next, citrinoVars

LEMMA CitrinoStep ==
  ASSUME CitrinoCircuit
  PROVE  Typed /\ CitrinoCourse /\ [CitrinoNext]_citrinoVars => CitrinoCourse'
<1> SUFFICES ASSUME Typed, CitrinoCourse, [CitrinoNext]_citrinoVars PROVE CitrinoCourse'
  OBVIOUS
<1>1. Typed'
  BY CitrinoIsLoop, TypedStep
<1>2. CASE CitrinoUpdate
  BY <1>2, CitrinoModule
<1>3. CASE Simulate
  <2>1. clk_val' = clk_val
    BY <1>3 DEF Simulate
  <2>2. ~ConnectDirect
    <3>1. SUFFICES ASSUME ConnectDirect PROVE FALSE
      OBVIOUS
    <3>2. links # <<>> /\ links \in Seq({})
      BY <3>1 DEF ConnectDirect, Typed, LoopTypeOK, CitrinoCircuit
    <3>3. Head(links) \in {}
      BY <3>2
    <3> QED
      BY <3>3
  <2> QED
    BY <1>1, <1>3, <2>1, <2>2, CitrinoRun, CitrinoConnects, CitrinoSchedules,
       CitrinoConnected, CitrinoBegin, CitrinoUpdatePort, CitrinoUpdateWire, CitrinoCallBack,
       CitrinoReturns, CitrinoRunScript, CitrinoNextModule, CitrinoAgain, CitrinoEnd
    DEF Simulate
<1>4. CASE UNCHANGED citrinoVars
  BY <1>4, CitrinoStays
<1> QED
  BY <1>2, <1>3, <1>4 DEF CitrinoNext

LEMMA CitrinoTypes == CitrinoSpec => []Typed
<1>1. CitrinoInit => Typed
  BY TypedInit DEF CitrinoInit
<1>2. Typed /\ [CitrinoNext]_citrinoVars => Typed'
  BY CitrinoIsLoop, TypedStep
<1> QED
  BY <1>1, <1>2, PTL DEF CitrinoSpec

LEMMA CitrinoInvariant == ASSUME CitrinoCircuit PROVE CitrinoSpec => [](Typed /\ CitrinoCourse)
<1>1. CitrinoInit => CitrinoCourse
  BY CitrinoBegins
<1>2. Typed /\ CitrinoCourse /\ [CitrinoNext]_citrinoVars => CitrinoCourse'
  BY CitrinoStep
<1> QED
  BY <1>1, <1>2, CitrinoTypes, PTL DEF CitrinoSpec

(* The program is one of the behaviours of the loop.                       *)
THEOREM CitrinoIsRefresher == CitrinoSpec => Init /\ [][Next]_vars
<1>1. CitrinoInit => Init
  BY DEF CitrinoInit
<1> QED
  BY <1>1, CitrinoIsLoop, PTL DEF CitrinoSpec

(* A cycle of the program settles within three passes, in every cycle.     *)
THEOREM CitrinoThreePasses == ASSUME CitrinoCircuit PROVE CitrinoSpec => []ThreePasses
<1>1. Typed /\ CitrinoCourse => ThreePasses
  BY DEF CitrinoCourse, ControlCourse, ThreePasses, Typed, LoopTypeOK
<1> QED
  BY <1>1, CitrinoInvariant, PTL

(* What the course says of a circuit between two cycles.                    *)
LEMMA CourseDelivers ==
  ASSUME CitrinoCircuit, Typed, CitrinoCourse PROVE ClockDelivered /\ InIsUnknown
<1> SUFFICES ASSUME BetweenCycles, Ticking PROVE ClockDelivered /\ InIsUnknown
  BY DEF ClockDelivered, InIsUnknown
<1>1. pc = "cycle" /\ ~InPass
  BY DEF BetweenCycles, InPass
<1>2. /\ Wired /\ \A p \in Port : p # mem_clk => wires[p] = p
  BY <1>1 DEF CitrinoCourse, ConnectCourse
<1>3. /\ wires[cpu_clk] = cpu_clk /\ wires[mem_in] = mem_in /\ Clk = ClkWire
      /\ WiresOf(cpu_clk) = heap[cpu_clk] /\ WiresOf(mem_in) = heap[mem_in]
  BY <1>2, CitrinoDistinct DEF Clk, WiresOf, ClkWire
<1>4. ClkOld
  BY <1>1, CitrinoOutside
<1>5. Clk.val = Tock /\ seen[mem_clk][0] = Tock
  BY <1>3, <1>4 DEF Ticking, ClkOld, ClkShows
<1>6. Tock = IF refresh_cycle % 2 = 1 THEN "_0" ELSE "_1"
  <2>1. refresh_cycle \in Nat
    BY CitrinoShape DEF Typed, LoopTypeOK
  <2> QED
    BY <2>1 DEF Tock
<1>7. seen[mem_clk] = Values(cpu_clk)
  <2>1. Values(cpu_clk) \in [{0} -> WireVal] /\ seen[mem_clk] \in [{0} -> WireVal]
    BY ValuesType, CitrinoDistinct, CitrinoShape DEF Typed, LoopTypeOK
  <2>2. Values(cpu_clk)[0] = Clk.val
    <3>1. 0 \in DOMAIN WiresOf(cpu_clk)
      BY <1>3, CitrinoDistinct, CitrinoShape DEF Typed, TypeInv, PortTypeOK
    <3> QED
      BY <3>1 DEF Values, Clk
  <2> QED
    BY <1>5, <2>1, <2>2
<1>8. \A i \in Idx(mem_in) : WiresOf(mem_in)[i].val = "_X"
  BY <1>1, <1>3 DEF CitrinoCourse, InCourse, InWire
<1> QED
  BY <1>5, <1>6, <1>7, <1>8 DEF ClockDelivered, InIsUnknown

(* Between two cycles, the memory has seen the edge of the cycle before,   *)
(* whatever the number of the cycle, also when the counter has wrapped.    *)
THEOREM CitrinoClock == ASSUME CitrinoCircuit PROVE CitrinoSpec => []ClockDelivered
  BY CourseDelivers, CitrinoInvariant, PTL

(* in is unknown to every reader between two cycles, in every cycle.       *)
THEOREM CitrinoInUnknown == ASSUME CitrinoCircuit PROVE CitrinoSpec => []InIsUnknown
  BY CourseDelivers, CitrinoInvariant, PTL

(* The char that counts passes does not wrap, so that every cycle runs     *)
(* mem's update() and then cpu's, once each.                               *)
THEOREM CitrinoInOrder ==
  ASSUME CitrinoCircuit
  PROVE  CitrinoSpec => Promise!Init /\ [][Promise!Next]_<<refresh_cycle, ran>>
<1>1. Typed /\ CitrinoCourse => CounterHolds
  BY CitrinoShape DEF CounterHolds, CitrinoCourse, ControlCourse
<1>2. CitrinoSpec => []CounterHolds
  BY <1>1, CitrinoInvariant, PTL
<1>3. CitrinoSpec => []Progress
  BY <1>2, ProgressInit, ProgressStep, CitrinoTypes, CitrinoIsRefresher, PTL
<1>4. Init => Promise!Init
  BY DEF Init, Promise!Init
<1> QED
  BY <1>3, <1>4, StepPromised, CitrinoTypes, CitrinoIsRefresher, PTL

(* The one link of the program is from cpu's clk to mem's.                 *)
LEMMA CitrinoIsFlat == ASSUME CitrinoCircuit PROVE FlatCircuit
<1>1. ASSUME NEW l \in CircuitLinks PROVE l = <<cpu_clk, mem_clk>>
  <2>1. \E r \in Request : \E k \in DOMAIN r.found : l = Linking(r, r.found[k])
    BY DEF CircuitLinks, CitrinoCircuit
  <2>2. \E k \in DOMAIN ClkRequest.found : l = Linking(ClkRequest, ClkRequest.found[k])
    BY <2>1 DEF CitrinoCircuit, CitrinoRequests
  <2>3. DOMAIN ClkRequest.found = {1}
    BY OneRequest
  <2> QED
    BY <2>2, <2>3, OneRequest
<1>2. cpu_clk # mem_clk
  BY CitrinoDistinct
<1> QED
  BY <1>1, <1>2 DEF FlatCircuit

(* No port of the program ever points to a deleted vector.                 *)
THEOREM CitrinoIsSafe == ASSUME CitrinoCircuit PROVE CitrinoSpec => []NoDangling
<1>1. Init => LinkOrigin(CircuitLinks)
  BY DEF Init, LinkOrigin
<1>2. Typed /\ LinkOrigin(CircuitLinks) /\ [Next]_vars => LinkOrigin(CircuitLinks)'
  BY CitrinoIsFlat, OriginStep
<1>3. CitrinoSpec => [](Memory /\ LinkOrigin(CircuitLinks))
  BY <1>1, <1>2, MemoryInit, MemoryStep, CitrinoTypes, CitrinoIsRefresher, PTL
<1> QED
  BY <1>3, NeverDangles, CitrinoIsFlat, CitrinoTypes, PTL
=============================================================================
