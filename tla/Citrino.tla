------------------------------- MODULE Citrino ------------------------------
(***************************************************************************)
(* The program itself (main.cpp, citrino.cpp, memory.cpp): the circuit of  *)
(* two modules, mem and cpu, run by Refresher.                             *)
(*                                                                         *)
(* main declares mem before cpu.  mem asks for the connection of its clk   *)
(* to cpu's before cpu exists, watches clk for level edges and the first   *)
(* wire of its register in for any edge, with the same callback, which     *)
(* drives in with zeroes.  cpu drives its clk with the bits of clk_val,    *)
(* which it complements, in every cycle.  Widths are those of the program. *)
(***************************************************************************)
EXTENDS Refresher

CONSTANTS
  mem_out, mem_in, mem_clk,   \* MainMemory's ports
  cpu_out, cpu_clk,           \* Citrino's ports
  cback                       \* memory.cpp's signal callback

VARIABLE clk_val              \* the global char of citrino.cpp, as a byte

citrinoVars == <<vars, clk_val>>

CitrinoPorts == {mem_out, mem_in, mem_clk, cpu_out, cpu_clk}

(* MODULE_OBJDECL(MainMemory, mem), then MODULE_OBJDECL(Citrino, cpu).     *)
CitrinoModules == << <<mem_out, mem_in, mem_clk>>, <<cpu_out, cpu_clk>> >>

cpu == 2

CitrinoType ==
  [p \in Port |-> IF p \in {mem_out, mem_clk} THEN "PORT_WIRE" ELSE "PORT_REG"]

CitrinoDir ==
  [p \in Port |-> IF p \in {mem_clk, cpu_out} THEN "PORT_INPUT" ELSE "PORT_OUTPUT"]

CitrinoWidth ==
  [p \in Port |-> CASE p \in {mem_out, cpu_out} -> 8
                    [] p = mem_in -> 32
                    [] OTHER -> 1]

(* PORT_CONNECT(cpu, clk, clk): mem's clk is no output, so it is the       *)
(* destination.                                                            *)
ClkRequest == [dst |-> mem_clk, found |-> <<cpu_clk>>]

CitrinoRequests  == {ClkRequest}
CitrinoScheduled == <<ClkRequest>>

CitrinoSensitivity ==
  [p \in Port |-> [i \in Idx(p) |->
     CASE p = mem_clk /\ i = 0 -> [raise |-> cback, edge_trigger |-> "LEVELEDGE"]
       [] p = mem_in /\ i = 0  -> [raise |-> cback, edge_trigger |-> "ALLEDGES"]
       [] OTHER                -> NoSignal]]

(* to_wireval of an integer of n bits that are all equal to v.             *)
Bits(n, v) == [k \in 1 .. n |-> v]

DriveClk(v) == [port |-> cpu_clk, off |-> 0, len |-> 1, vals |-> Bits(8, v)]

DriveIn == [port |-> mem_in, off |-> 0, len |-> 32, vals |-> Bits(32, "_0")]

CitrinoDrives == {DriveIn, DriveClk("_0"), DriveClk("_1")}

CitrinoUpdates   == << {<<>>}, {<<DriveClk("_0")>>, <<DriveClk("_1")>>} >>
CitrinoCallbacks == [c \in {cback} |-> {<<DriveIn>>}]

(* The constants of Refresher are those of the program.  sub_refresh_count *)
(* is a char; refresh_cycle has 64 bits, so that its parity outlives its   *)
(* wrap.                                                                   *)
CitrinoCircuit ==
  /\ Port = CitrinoPorts /\ Modules = CitrinoModules
  /\ Type = CitrinoType /\ Dir = CitrinoDir /\ Width = CitrinoWidth
  /\ Request = CitrinoRequests /\ Scheduled = CitrinoScheduled /\ DirectLinks = <<>>
  /\ Callback = {cback} /\ Sensitivity = CitrinoSensitivity
  /\ DriveCalls = CitrinoDrives /\ Links = {}
  /\ UpdateScripts = CitrinoUpdates /\ CallbackScripts = CitrinoCallbacks
  /\ SubMod = 256 /\ CycleMod % 2 = 0

-----------------------------------------------------------------------------
CitrinoInit == Init /\ clk_val = 0

(* clk_val = ~clk_val, on a byte that is 0 or 255.                         *)
Complement_Negate(b) == (256 - b) % 256

Complement(b) == 255 - b

(* MODULE_UPDATE: mem's does nothing; cpu's drives clk with clk_val.       *)
CitrinoUpdate ==
  /\ UpdateModule
  /\ IF mod = cpu
     THEN /\ script' = <<DriveClk(IF clk_val = 0 THEN "_0" ELSE "_1")>>
          /\ clk_val' = Complement(clk_val)
     ELSE UNCHANGED clk_val

(* The rest is the simulator, and cback on a port of mem.                  *)
Simulate ==
  /\ \/ ConnectDirect \/ Run \/ CallConnectAll \/ ConnectAllReturns
     \/ BeginPass \/ UpdatePort \/ UpdateWire \/ CallBack \/ CallBackReturns
     \/ RunScript \/ NextModule \/ PassAgain \/ EndCycle
  /\ UNCHANGED clk_val

CitrinoNext == CitrinoUpdate \/ Simulate

CitrinoSpec ==
  CitrinoInit /\ [][CitrinoNext]_citrinoVars /\ WF_citrinoVars(CitrinoNext)
-----------------------------------------------------------------------------
(* The wire that both clk ports share, once cpu has driven it.             *)
Clk == WiresOf(cpu_clk)[0]

Ticking == Clk.last_port_drive # NoPort

(* The memory has seen every clock edge by the end of its cycle, and the   *)
(* clock takes turns, 0 in the first cycle, 1 in the second, and so on.    *)
(* (CycleMod is even, as 2^64 is.)                                         *)
ClockDelivered ==
  BetweenCycles /\ Ticking =>
    /\ Clk.val = IF refresh_cycle % 2 = 1 THEN "_0" ELSE "_1"
    /\ seen[mem_clk] = Values(cpu_clk)

(* The memory drives in with zeroes in every cycle, and yet in is unknown  *)
(* between two cycles: the callback on in's first wire drives in again     *)
(* while the wires still count as driven, so drive sets them to X and      *)
(* skips them.  (port.cpp: "Nullify the undriven wires.  Then overwrite    *)
(* undriven wires with driven ones"; the loop nullifies all of them.)      *)
InIsUnknown ==
  BetweenCycles /\ Ticking => \A i \in Idx(mem_in) : WiresOf(mem_in)[i].val = "_X"

(* A cycle settles within three passes: the clock is driven in the first,  *)
(* the callback drives in in the second, and its drive of wires that are   *)
(* already driven ends the third.  The char that counts passes never wraps.*)
ThreePasses == sub_refresh_count <= 2

(* The clock never stops.                                                  *)
ClockTicks ==
  /\ []<>(BetweenCycles /\ Clk.val = "_0" /\ Ticking)
  /\ []<>(BetweenCycles /\ Clk.val = "_1")
=============================================================================
