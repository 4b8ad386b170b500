---------------------------- MODULE MCInitDrives ----------------------------
(* A bus of two wires, a register r that an initial block drives, and a    *)
(* port d linked to it, of a module declared before r's.                   *)
EXTENDS InitDrives

CONSTANTS r, d

SinkFirst == <<d, r>>

ASSUME QuietDriveHeardApplies == WatcherFirst

TwoValues == {<<"_0", "_1">>, <<"_1", "_1">>}
=============================================================================
