----------------------------- MODULE ConnectAll -----------------------------
(***************************************************************************)
(* Connection scheduling (refresher.cpp, refresher.h, module_api.h).       *)
(*                                                                         *)
(* PORT_CONNECT cannot name the other module's port directly, because that *)
(* module may not exist yet: it appends a request to                       *)
(* Refresher::connection_schedules, and the simulator's main loop calls    *)
(* connect_all before every refresh cycle to make the connections whose    *)
(* module and port exist by then.                                          *)
(*                                                                         *)
(* connect_all first scans the requests, connecting each to every port the *)
(* names find and noting its index once per port found; it then erases the *)
(* noted indices from the vector, one at a time, first to last.            *)
(***************************************************************************)
EXTENDS Port

CONSTANT Request   \* the requests user code makes

(* found: the ports that the module and port names of the request find, in *)
(* the order of the nested loops; empty while there is no such port.       *)
ASSUME ConnectAssumption == Request \subseteq [dst : Port, found : Seq(Port)]

(* Requests ask for links of ports of equal width, as EqualWidths in Port  *)
(* and for the same reason: neither connect_schedule nor connect checks.   *)
ASSUME ConnectWidths ==
  /\ EqualWidths
  /\ \A r \in Request : \A k \in DOMAIN r.found : Width[r.found[k]] = Width[r.dst]

VARIABLES
  connection_schedules,  \* the waiting requests
  unasked,               \* requests that user code has not made yet
  conn,                  \* where connect_all is, and the indices it noted
  crowded                \* did a call of connect_all note two indices?  (history)

connVars == <<connection_schedules, unasked, conn, crowded>>

NotConnecting == [at |-> "idle", i |-> 1, found |-> 1, erase_index |-> <<>>]

ConnectInit ==
  /\ connection_schedules = <<>>
  /\ unasked = Request
  /\ conn = NotConnecting
  /\ crowded = FALSE

Findable(r) == r.found # <<>>

Waiting == {connection_schedules[i] : i \in DOMAIN connection_schedules}

-----------------------------------------------------------------------------
(* Refresher::connect_schedule.  User code asks for a connection once.     *)
Schedule(r) ==
  /\ r \in unasked
  /\ unasked' = unasked \ {r}
  /\ connection_schedules' = Append(connection_schedules, r)
  /\ UNCHANGED <<conn, crowded, portVars>>

-----------------------------------------------------------------------------
(* connect_all returns at once when nothing is scheduled.                  *)
BeginConnectAll ==
  /\ conn.at = "idle"
  /\ conn' = [conn EXCEPT !.at = IF connection_schedules = <<>> THEN "done" ELSE "scan"]
  /\ UNCHANGED <<connection_schedules, unasked, crowded, portVars>>

Scanned == connection_schedules[conn.i]

Scanning == conn.at = "scan" /\ conn.i <= Len(connection_schedules)

(* One port that the request names: connect it and note the index, also    *)
(* when the destination is not a wire and connect refuses.  PORT_CONNECT   *)
(* makes an output the source of the connection.                           *)
Linking(r, p) ==
  IF Dir[r.dst] = "PORT_OUTPUT" THEN <<r.dst, p>> ELSE <<p, r.dst>>

NotedIndex == Append(conn.erase_index, conn.i)

ConnectFound ==
  /\ Scanning
  /\ conn.found <= Len(Scanned.found)
  /\ LET l == Linking(Scanned, Scanned.found[conn.found])
     IN  \/ Connect(l[1], l[2])
         \/ Type[l[2]] # "PORT_WIRE" /\ UNCHANGED portVars
  /\ conn' = [conn EXCEPT !.found = @ + 1, !.erase_index = NotedIndex]
  /\ UNCHANGED <<connection_schedules, unasked, crowded>>

NextRequest ==
  /\ Scanning
  /\ conn.found > Len(Scanned.found)
  /\ conn' = [conn EXCEPT !.i = @ + 1, !.found = 1]
  /\ UNCHANGED <<connection_schedules, unasked, crowded, portVars>>

EndScan ==
  /\ conn.at = "scan"
  /\ conn.i > Len(connection_schedules)
  /\ conn' = [conn EXCEPT !.at = "erase"]
  /\ crowded' = (crowded \/ Len(conn.erase_index) > 1)
  /\ UNCHANGED <<connection_schedules, unasked, portVars>>

(* connection_schedules.erase(begin() + idx).  The indices were noted      *)
(* before the first erasure moved the later requests down.                 *)
RemovedAt_Next(seq, i) ==
  SubSeq(seq, 1, i) \o SubSeq(seq, i + 2, Len(seq))

RemovedAt_Before(seq, i) ==
  SubSeq(seq, 1, i - 2) \o SubSeq(seq, i, Len(seq))

RemovedAt(seq, i) ==
  SubSeq(seq, 1, i - 1) \o SubSeq(seq, i + 1, Len(seq))

Erased == RemovedAt(connection_schedules, Head(conn.erase_index))

EraseNoted ==
  /\ conn.at = "erase"
  /\ conn.erase_index # <<>>
  /\ Head(conn.erase_index) <= Len(connection_schedules)
  /\ connection_schedules' = Erased
  /\ conn' = [conn EXCEPT !.erase_index = Tail(@)]
  /\ UNCHANGED <<unasked, crowded, portVars>>

(* Erasing at or past the end is undefined: a build either drops the last  *)
(* request (libstdc++ on a vector that is not empty) or stops.             *)
ErasePastEnd ==
  /\ conn.at = "erase"
  /\ conn.erase_index # <<>>
  /\ Head(conn.erase_index) > Len(connection_schedules)
  /\ \/ /\ connection_schedules # <<>>
        /\ connection_schedules' =
             SubSeq(connection_schedules, 1, Len(connection_schedules) - 1)
        /\ conn' = [conn EXCEPT !.erase_index = Tail(@)]
     \/ /\ conn' = [conn EXCEPT !.at = "stopped"]
        /\ UNCHANGED connection_schedules
  /\ UNCHANGED <<unasked, crowded, portVars>>

EndErase ==
  /\ conn.at = "erase"
  /\ conn.erase_index = <<>>
  /\ conn' = [conn EXCEPT !.at = "done"]
  /\ UNCHANGED <<connection_schedules, unasked, crowded, portVars>>

ConnectStep ==
  \/ ConnectFound
  \/ NextRequest
  \/ EndScan
  \/ EraseNoted
  \/ ErasePastEnd
  \/ EndErase

(* connect_all returns to the main loop.                                   *)
ConnectReturns ==
  /\ conn.at = "done"
  /\ conn' = NotConnecting
  /\ UNCHANGED <<connection_schedules, unasked, crowded, portVars>>

-----------------------------------------------------------------------------
(* The connections alone: user code schedules between calls of connect_all.*)
ScheduleNext ==
  \/ conn.at = "idle" /\ \E r \in Request : Schedule(r)
  \/ BeginConnectAll
  \/ ConnectStep
  \/ ConnectReturns

ScheduleSpec ==
  /\ PortInit /\ ConnectInit
  /\ [][ScheduleNext]_<<portVars, connVars>>
  /\ WF_<<portVars, connVars>>(BeginConnectAll \/ ConnectStep \/ ConnectReturns)
-----------------------------------------------------------------------------
ConnectTypeOK ==
  /\ connection_schedules \in Seq(Request)
  /\ unasked \subseteq Request
  /\ conn \in [at : {"idle", "scan", "erase", "done", "stopped"}, i : Nat \ {0},
               found : Nat \ {0}, erase_index : Seq(Nat \ {0})]
  /\ crowded \in BOOLEAN

(* Requests as the program makes them: its names find one port or none, no *)
(* port is the source of one request and the destination of another, and   *)
(* no two requests ask for the same link.                                  *)
Link(r) == Linking(r, r.found[1])

OnePortEach == \A r \in Request : Len(r.found) <= 1

FlatRequests ==
  \A q, r \in Request : Findable(q) /\ Findable(r) => Link(q)[1] # Link(r)[2]

DistinctLinks ==
  \A q, r \in Request :
    Findable(q) /\ Findable(r) /\ Link(q) = Link(r) => q = r

(* What a request asks for: it is served when each port it names shares    *)
(* its vector with the destination, or when connect would refuse it.       *)
Served(r) ==
  \A k \in DOMAIN r.found :
    LET l == Linking(r, r.found[k])
    IN  wires[l[1]] = wires[l[2]] \/ Type[l[2]] # "PORT_WIRE"

(* A destination keeps the last connection it was given.                   *)
LinksTo(r) == {Linking(r, r.found[k])[2] : k \in DOMAIN r.found}

Overruled(r) ==
  \E q \in Request \ (unasked \cup {r}) : LinksTo(q) \cap LinksTo(r) # {} /\ Served(q)

(* Every request that was made is still waiting, or has been served, or    *)
(* its destination is linked as another request asked: no connection is    *)
(* forgotten (connect_all: "Connect all the ports that are intended to be  *)
(* connected"), unless a call of connect_all found more than one port:     *)
(* erasing at stale indices is the only way to lose one.                   *)
NoRequestForgotten ==
  \A r \in Request \ unasked :
    r \in Waiting \/ (Findable(r) /\ (Served(r) \/ Overruled(r)))

ForgottenInCrowd == crowded \/ NoRequestForgotten

(* A call that found ports for two requests, with another request behind   *)
(* the second, always erases that one in place of the second, which is     *)
(* left to be connected again.                                             *)
Behind(q, r) ==
  /\ conn.at = "scan" /\ conn.i > Len(connection_schedules)
  /\ Len(conn.erase_index) = 2
  /\ conn.erase_index[1] < conn.erase_index[2]
  /\ conn.erase_index[2] < Len(connection_schedules)
  /\ q = connection_schedules[conn.erase_index[2]]
  /\ r = connection_schedules[conn.erase_index[2] + 1]

SecondEraseMisses ==
  \A q, r \in Request :
    Behind(q, r) ~> conn.at = "done" /\ q \in Waiting /\ r \notin Waiting

(* Short of that, a request that found its port is connected once: outside *)
(* connect_all, no request that was already served waits to be connected.  *)
NoRequestRepeated ==
  crowded \/
    (conn.at = "idle" =>
       \A r \in Waiting : Findable(r) =>
         \E k \in DOMAIN r.found : wires[r.dst] # wires[r.found[k]])

(* ... and the count of a live vector's wires, which port.h calls the      *)
(* number of modules that share the wire, is that of the ports that ever   *)
(* did, less the one that allocated them: connect counts a destination of  *)
(* the new source but never counts it down at the old one, so that every   *)
(* change of the old vector takes one update more to become old for each   *)
(* port that left (a stray).                                               *)
Sharers(b) == {p \in Port : wires[p] = b}

Strays(b) ==
  {p \in Port : wires[p] # b /\ ~dirty[p] /\
     \E r \in Request \ (unasked \cup Waiting) : \E k \in DOMAIN r.found :
       Linking(r, r.found[k]) = <<b, p>>}

CountsSharers ==
  (conn.at = "idle" /\ ~crowded) =>
    \A b \in Port \ freed : \A i \in Idx(b) :
      heap[b][i].modules_connected_orig = Cardinality(Sharers(b) \cup Strays(b)) - 1

(* Every request whose port exists is served, or its destination linked as *)
(* another request asked, in a crowd too: whatever is erased wrongly was   *)
(* connected by the scan before, or cannot be connected yet.  (It holds    *)
(* where an erase past the end stops the process, too: the scan before it  *)
(* has linked all that could be linked; what was not made is not claimed.) *)
RequestsServed ==
  \A r \in Request :
    (Findable(r) /\ r \notin unasked) ~> (Served(r) \/ Overruled(r))
=============================================================================
