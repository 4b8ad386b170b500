-------------------------------- MODULE Cycle -------------------------------
(***************************************************************************)
(* What a refresh cycle promises the modules of the simulated circuit: in  *)
(* every cycle each module's update() runs exactly once, in the order in   *)
(* which the modules were declared, and there is always a next cycle.      *)
(* Nothing here says how signals travel; Refresher implements this.        *)
(***************************************************************************)
EXTENDS Naturals, Sequences

CONSTANTS
  Modules,   \* number of modules
  CycleMod   \* number of values of the cycle counter

VARIABLES
  refresh_cycle,   \* the cycle counter
  ran              \* the modules updated in this cycle

Init == refresh_cycle = 0 /\ ran = <<>>

UpdateNext ==
  /\ Len(ran) < Modules
  /\ ran' = Append(ran, Len(ran) + 1)
  /\ UNCHANGED refresh_cycle

EndCycle ==
  /\ Len(ran) = Modules
  /\ ran' = <<>>
  /\ refresh_cycle' = (refresh_cycle + 1) % CycleMod

Next == UpdateNext \/ EndCycle

Spec == Init /\ [][Next]_<<refresh_cycle, ran>> /\ WF_<<refresh_cycle, ran>>(Next)
=============================================================================
