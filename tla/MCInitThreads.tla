---------------------------- MODULE MCInitThreads ---------------------------
(* Every thread may be the one whose creation fails, whose initial block   *)
(* never returns, or which exits before or after it is joined.             *)
EXTENDS InitThreads
=============================================================================
