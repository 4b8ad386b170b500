-------------------------- MODULE ConnectAllProofs --------------------------
(***************************************************************************)
(* Proofs about module ConnectAll, for every set of ports and requests:    *)
(* what a call of connect_all that notes one index at most does, however   *)
(* many requests are waiting and whatever was connected before; and what   *)
(* remains true when a call notes more.                                    *)
(***************************************************************************)
EXTENDS ConnectAll, PortProofs, SequenceTheorems

(* The requests that connect_all has come past in the running scan, and    *)
(* those that have been connected since the simulation began.              *)
Passed(j) == j < conn.i \/ (j = conn.i /\ conn.found > 1)

Connected ==
  {r \in Request \ unasked :
     /\ Findable(r)
     /\ \A j \in DOMAIN connection_schedules : connection_schedules[j] = r => Passed(j)}

(* A request waits once, and not before it was made.                       *)
Listed ==
  /\ \A j, k \in DOMAIN connection_schedules :
       connection_schedules[j] = connection_schedules[k] => j = k
  /\ \A j \in DOMAIN connection_schedules : connection_schedules[j] \notin unasked

(* The indices noted are those of the requests passed that found a port;   *)
(* without a crowd, at most one of them is left to erase after the scan.   *)
Noting ==
  /\ conn.at # "stopped"
  /\ conn.at = "idle" => conn = NotConnecting
  /\ conn.at \in {"erase", "done"} => conn.i > Len(connection_schedules)
  /\ conn.at = "erase" => Len(conn.erase_index) <= 1
  /\ conn.at = "done" => conn.erase_index = <<>>
  /\ \A n \in DOMAIN conn.erase_index :
       /\ conn.erase_index[n] \in DOMAIN connection_schedules
       /\ Findable(connection_schedules[conn.erase_index[n]])
  /\ \A j \in DOMAIN connection_schedules :
       Passed(j) /\ Findable(connection_schedules[j]) =>
         \E n \in DOMAIN conn.erase_index : conn.erase_index[n] = j

(* Only a request that found its port leaves the schedule.                 *)
Asked == \A r \in Request \ (unasked \cup Waiting) : Findable(r)

(* Every link comes from a request that was connected, and every such      *)
(* request has linked its destination, unless connect refused.             *)
LinksKnown ==
  /\ \A p \in Port :
       IF dirty[p] THEN wires[p] = p
       ELSE Type[p] = "PORT_WIRE" /\ \E r \in Connected : Link(r) = <<wires[p], p>>
  /\ \A r \in Connected : Type[Link(r)[2]] = "PORT_WIRE" => ~dirty[Link(r)[2]]

(* The ports that were linked to b's vector, and the count of them.        *)
Made(b) ==
  {p \in Port : Type[p] = "PORT_WIRE" /\ \E r \in Connected : Link(r) = <<b, p>>}

Counting ==
  \A b \in Port : dirty[b] =>
    /\ IsFiniteSet(Made(b))
    /\ \A i \in Idx(b) :
         /\ heap[b][i].modules_connected = Cardinality(Made(b))
         /\ heap[b][i].modules_connected_orig = Cardinality(Made(b))

Linkage == TypeInv /\ VectorsOwned /\ ConnectTypeOK /\ Listed

Orderly == Noting /\ Asked /\ LinksKnown

-----------------------------------------------------------------------------
(* Erasing an entry moves the later ones down by one.                      *)
LEMMA ErasingOne ==
  ASSUME NEW S, NEW seq \in Seq(S), NEW k \in 1 .. Len(seq)
  PROVE  /\ RemovedAt(seq, k) \in Seq(S)
         /\ Len(RemovedAt(seq, k)) = Len(seq) - 1
         /\ \A l \in 1 .. Len(seq) - 1 :
              RemovedAt(seq, k)[l] = IF l < k THEN seq[l] ELSE seq[l + 1]
<1> DEFINE front == SubSeq(seq, 1, k - 1)
           back == SubSeq(seq, k + 1, Len(seq))
<1>1. Len(seq) \in Nat /\ \A l \in 1 .. Len(seq) : seq[l] \in S
  BY LenProperties, ElementOfSeq
<1>2. /\ front \in Seq(S) /\ Len(front) = k - 1
      /\ \A l \in 1 .. k - 1 : front[l] = seq[l]
  <2>1. \A l \in 1 .. k - 1 : seq[l] \in S
    BY <1>1
  <2> QED
    BY <1>1, <2>1, SubSeqProperties
<1>3. /\ back \in Seq(S) /\ Len(back) = Len(seq) - k
      /\ \A l \in 1 .. Len(seq) - k : back[l] = seq[k + l]
  <2>1. \A l \in k + 1 .. Len(seq) : seq[l] \in S
    BY <1>1
  <2>2. /\ back \in Seq(S)
        /\ Len(back) = IF k + 1 <= Len(seq) THEN Len(seq) - (k + 1) + 1 ELSE 0
        /\ \A l \in 1 .. Len(seq) - (k + 1) + 1 : back[l] = seq[k + 1 + l - 1]
    BY <1>1, <2>1, SubSeqProperties
  <2> QED
    BY <1>1, <2>2
<1>4. /\ front \o back \in Seq(S)
      /\ Len(front \o back) = Len(front) + Len(back)
      /\ \A l \in 1 .. Len(front) + Len(back) :
           (front \o back)[l] = IF l <= Len(front) THEN front[l] ELSE back[l - Len(front)]
  BY <1>2, <1>3, ConcatProperties
<1> HIDE DEF front, back
<1>5. Len(front) + Len(back) = Len(seq) - 1
  BY <1>1, <1>2, <1>3
<1>6. ASSUME NEW l \in 1 .. Len(seq) - 1
      PROVE  (front \o back)[l] = IF l < k THEN seq[l] ELSE seq[l + 1]
  <2>1. CASE l < k
    BY <1>1, <1>2, <1>4, <1>5, <2>1
  <2>2. CASE l >= k
    <3>1. l - (k - 1) \in 1 .. Len(seq) - k /\ k + (l - (k - 1)) = l + 1
      BY <1>1, <2>2
    <3>2. (front \o back)[l] = back[l - (k - 1)]
      BY <1>1, <1>2, <1>4, <1>5, <2>2
    <3>3. back[l - (k - 1)] = seq[k + (l - (k - 1))]
      BY <1>3, <3>1
    <3> QED
      BY <1>1, <2>2, <3>1, <3>2, <3>3
  <2>3. l < k \/ l >= k
    BY <1>1
  <2> QED
    BY <2>1, <2>2, <2>3
<1> QED
  BY <1>4, <1>5, <1>6 DEF RemovedAt, front, back

(* Dropping the last entry.                                                *)
LEMMA DroppingLast ==
  ASSUME NEW S, NEW seq \in Seq(S), seq # <<>>
  PROVE  /\ SubSeq(seq, 1, Len(seq) - 1) \in Seq(S)
         /\ Len(SubSeq(seq, 1, Len(seq) - 1)) = Len(seq) - 1
         /\ \A l \in 1 .. Len(seq) - 1 : SubSeq(seq, 1, Len(seq) - 1)[l] = seq[l]
<1>1. Len(seq) \in Nat /\ Len(seq) > 0 /\ \A l \in 1 .. Len(seq) : seq[l] \in S
  BY LenProperties, EmptySeq, ElementOfSeq
<1> DEFINE n == Len(seq) - 1
           front == SubSeq(seq, 1, n)
<1>2. n \in Nat /\ \A l \in 1 .. n : seq[l] \in S
  BY <1>1
<1>3. /\ front \in Seq(S)
      /\ Len(front) = IF 1 <= n THEN n - 1 + 1 ELSE 0
      /\ \A l \in 1 .. n - 1 + 1 : front[l] = seq[1 + l - 1]
  BY <1>2, SubSeqProperties
<1> HIDE DEF n, front
<1>4. Len(front) = n /\ \A l \in 1 .. n : front[l] = seq[l]
  BY <1>2, <1>3
<1> QED
  BY <1>3, <1>4 DEF n, front

LEMMA SingleEntry ==
  ASSUME NEW S, NEW seq \in Seq(S), seq # <<>>, Len(seq) <= 1
  PROVE  Len(seq) = 1 /\ DOMAIN seq = {1} /\ seq[1] = Head(seq) /\ Tail(seq) = <<>>
<1>1. Len(seq) = 1
  <2>1. Len(seq) \in Nat \ {0}
    BY EmptySeq
  <2> QED
    BY <2>1
<1>2. DOMAIN seq = {1}
  BY <1>1, LenProperties
<1>3. Tail(seq) \in Seq(S) /\ Len(Tail(seq)) = 0
  BY <1>1, HeadTailProperties
<1>4. Tail(seq) = <<>>
  BY <1>3, EmptySeq
<1> QED
  BY <1>1, <1>2, <1>4

-----------------------------------------------------------------------------
(* Types.                                                                  *)
LEMMA LinkingPorts ==
  ASSUME NEW r \in Request, NEW k \in DOMAIN r.found
  PROVE  LET l == Linking(r, r.found[k])
         IN  l[1] \in Port /\ l[2] \in Port /\ Width[l[1]] = Width[l[2]]
<1>1. r.dst \in Port /\ r.found[k] \in Port /\ Width[r.found[k]] = Width[r.dst]
  BY ConnectAssumption, ConnectWidths
<1> QED
  BY <1>1 DEF Linking

LEMMA ScheduleTypes ==
  ASSUME ConnectTypeOK, NEW r \in Request, Schedule(r) PROVE ConnectTypeOK'
  BY DEF ConnectTypeOK, Schedule

LEMMA ScannedRequest ==
  ASSUME ConnectTypeOK, Scanning
  PROVE  /\ conn.i \in DOMAIN connection_schedules
         /\ Scanned \in Request
         /\ Len(Scanned.found) \in Nat
         /\ DOMAIN Scanned.found = 1 .. Len(Scanned.found)
<1>1. conn.i \in 1 .. Len(connection_schedules)
  BY DEF ConnectTypeOK, Scanning
<1>2. Scanned \in Request
  BY <1>1 DEF ConnectTypeOK, Scanned
<1>3. Scanned.found \in Seq(Port)
  BY <1>2, ConnectAssumption
<1> QED
  BY <1>1, <1>2, <1>3 DEF ConnectTypeOK

LEMMA ConnectFoundTypes ==
  ASSUME TypeInv, ConnectTypeOK, ConnectFound PROVE TypeInv' /\ ConnectTypeOK'
<1>1. /\ Scanned \in Request /\ conn.i \in Nat \ {0} /\ conn.found \in Nat \ {0}
      /\ conn.found \in DOMAIN Scanned.found
  BY ScannedRequest DEF ConnectFound, ConnectTypeOK
<1> DEFINE l == Linking(Scanned, Scanned.found[conn.found])
<1>2. TypeInv'
  <2>1. l[1] \in Port /\ l[2] \in Port /\ Width[l[1]] = Width[l[2]]
    BY <1>1, LinkingPorts
  <2>2. Connect(l[1], l[2]) \/ UNCHANGED portVars
    BY DEF ConnectFound
  <2> HIDE DEF l
  <2>3. CASE UNCHANGED portVars
    BY <2>3, TypeNext, ConnectWidths
  <2> QED
    BY <2>1, <2>2, <2>3, TypeConnect
<1>3. NotedIndex \in Seq(Nat \ {0})
  BY <1>1 DEF NotedIndex, ConnectTypeOK
<1>4. conn'.at = conn.at /\ conn' \in
        [at : {"idle", "scan", "erase", "done", "stopped"}, i : Nat \ {0},
         found : Nat \ {0}, erase_index : Seq(Nat \ {0})]
  <2> DEFINE f == conn.found + 1
             e == NotedIndex
  <2>1. f \in Nat \ {0} /\ e \in Seq(Nat \ {0})
    BY <1>1, <1>3
  <2>2. conn' = [conn EXCEPT !.found = f, !.erase_index = e]
    BY DEF ConnectFound
  <2> HIDE DEF f, e
  <2> QED
    BY <2>1, <2>2 DEF ConnectTypeOK
<1>5. ConnectTypeOK'
  BY <1>4 DEF ConnectTypeOK, ConnectFound
<1> QED
  BY <1>2, <1>5

LEMMA ErasedTypes ==
  ASSUME ConnectTypeOK, EraseNoted \/ ErasePastEnd PROVE ConnectTypeOK'
<1>1. /\ conn.erase_index \in Seq(Nat \ {0}) /\ conn.erase_index # <<>>
      /\ Head(conn.erase_index) \in Nat \ {0}
      /\ Tail(conn.erase_index) \in Seq(Nat \ {0})
  BY DEF ConnectTypeOK, EraseNoted, ErasePastEnd
<1> DEFINE tail == Tail(conn.erase_index)
<1>2. connection_schedules' \in Seq(Request)
  <2>1. CASE EraseNoted
    <3>1. Head(conn.erase_index) \in 1 .. Len(connection_schedules)
      BY <1>1, <2>1 DEF ConnectTypeOK, EraseNoted
    <3> QED
      BY <2>1, <3>1, ErasingOne DEF ConnectTypeOK, EraseNoted, Erased
  <2>2. CASE ErasePastEnd
    <3>1. \/ UNCHANGED connection_schedules
          \/ /\ connection_schedules # <<>>
             /\ connection_schedules' =
                  SubSeq(connection_schedules, 1, Len(connection_schedules) - 1)
      BY <2>2 DEF ErasePastEnd
    <3>2. connection_schedules \in Seq(Request)
      BY DEF ConnectTypeOK
    <3> QED
      BY <3>1, <3>2, DroppingLast
  <2> QED
    BY <2>1, <2>2
<1>3. conn' = [conn EXCEPT !.erase_index = tail] \/ conn' = [conn EXCEPT !.at = "stopped"]
  BY DEF EraseNoted, ErasePastEnd
<1>4. tail \in Seq(Nat \ {0})
  BY <1>1
<1> HIDE DEF tail
<1>5. conn' \in
        [at : {"idle", "scan", "erase", "done", "stopped"}, i : Nat \ {0},
         found : Nat \ {0}, erase_index : Seq(Nat \ {0})]
  BY <1>3, <1>4 DEF ConnectTypeOK
<1> QED
  BY <1>2, <1>5 DEF ConnectTypeOK, EraseNoted, ErasePastEnd

LEMMA CallTypes ==
  ASSUME TypeInv, ConnectTypeOK, BeginConnectAll \/ ConnectStep \/ ConnectReturns
  PROVE  TypeInv' /\ ConnectTypeOK'
<1>1. CASE ConnectFound
  BY <1>1, ConnectFoundTypes
<1>2. CASE UNCHANGED portVars
  <2>1. TypeInv'
    BY <1>2, TypeNext, ConnectWidths
  <2>2. CASE BeginConnectAll \/ EndScan \/ EndErase
    BY <2>1, <2>2 DEF ConnectTypeOK, BeginConnectAll, EndScan, EndErase
  <2>3. CASE NextRequest
    <3> DEFINE k == conn.i + 1
               f == 1
    <3>1. k \in Nat \ {0} /\ f \in Nat \ {0}
      BY DEF ConnectTypeOK
    <3>2. conn' = [conn EXCEPT !.i = k, !.found = f]
      BY <2>3 DEF NextRequest
    <3> HIDE DEF k, f
    <3>3. conn' \in
            [at : {"idle", "scan", "erase", "done", "stopped"}, i : Nat \ {0},
             found : Nat \ {0}, erase_index : Seq(Nat \ {0})]
      BY <3>1, <3>2 DEF ConnectTypeOK
    <3> QED
      BY <2>1, <2>3, <3>3 DEF ConnectTypeOK, NextRequest
  <2>4. CASE EraseNoted \/ ErasePastEnd
    BY <2>1, <2>4, ErasedTypes
  <2>5. CASE ConnectReturns
    BY <2>1, <2>5 DEF ConnectTypeOK, ConnectReturns, NotConnecting
  <2>6. CASE ConnectFound
    BY <2>6, ConnectFoundTypes
  <2> QED
    BY <2>2, <2>3, <2>4, <2>5, <2>6 DEF ConnectStep
<1> QED
  BY <1>1, <1>2
     DEF BeginConnectAll, ConnectStep, NextRequest, EndScan, EraseNoted, ErasePastEnd,
         EndErase, ConnectReturns

-----------------------------------------------------------------------------
(* A request waits once, in a crowd too: whatever is erased, nothing is    *)
(* appended but requests made for the first time.                          *)
LEMMA ScheduleAppends ==
  ASSUME ConnectTypeOK, NEW r \in Request, Schedule(r)
  PROVE  /\ Len(connection_schedules) \in Nat
         /\ Len(connection_schedules') = Len(connection_schedules) + 1
         /\ connection_schedules'[Len(connection_schedules) + 1] = r
         /\ \A j \in 1 .. Len(connection_schedules) :
              connection_schedules'[j] = connection_schedules[j]
         /\ DOMAIN connection_schedules = 1 .. Len(connection_schedules)
         /\ DOMAIN connection_schedules' = 1 .. Len(connection_schedules) + 1
<1>1. /\ connection_schedules \in Seq(Request)
      /\ connection_schedules' = Append(connection_schedules, r)
  BY DEF ConnectTypeOK, Schedule
<1> QED
  BY <1>1, AppendProperties

LEMMA ScheduleListed ==
  ASSUME ConnectTypeOK, Listed, NEW r \in Request, Schedule(r)
  PROVE  Listed'
<1>1. r \in unasked /\ unasked' = unasked \ {r}
  BY DEF Schedule
<1>2. \A j \in 1 .. Len(connection_schedules) : connection_schedules[j] # r
  BY <1>1, ScheduleAppends DEF Listed
<1>3. ASSUME NEW j \in DOMAIN connection_schedules', NEW k \in DOMAIN connection_schedules',
             connection_schedules'[j] = connection_schedules'[k]
      PROVE  j = k
  BY <1>2, <1>3, ScheduleAppends DEF Listed
<1>4. \A j \in DOMAIN connection_schedules' : connection_schedules'[j] \notin unasked'
  BY <1>1, ScheduleAppends DEF Listed
<1> QED
  BY <1>3, <1>4 DEF Listed

(* What an erase leaves is a part of what was there.                       *)
LEMMA ErasedPart ==
  ASSUME ConnectTypeOK, EraseNoted
  PROVE  LET e == Head(conn.erase_index)
         IN  /\ e \in DOMAIN connection_schedules
             /\ Len(connection_schedules) \in Nat
             /\ DOMAIN connection_schedules = 1 .. Len(connection_schedules)
             /\ Len(connection_schedules') = Len(connection_schedules) - 1
             /\ DOMAIN connection_schedules' = 1 .. Len(connection_schedules) - 1
             /\ \A j \in DOMAIN connection_schedules' :
                  connection_schedules'[j] =
                    connection_schedules[IF j < e THEN j ELSE j + 1]
<1> DEFINE e == Head(conn.erase_index)
<1>1. connection_schedules \in Seq(Request) /\ conn.erase_index \in Seq(Nat \ {0})
  BY DEF ConnectTypeOK
<1>2. e \in Nat \ {0} /\ e <= Len(connection_schedules)
  BY <1>1 DEF EraseNoted
<1>3. e \in 1 .. Len(connection_schedules)
  BY <1>1, <1>2
<1>4. connection_schedules' = RemovedAt(connection_schedules, e)
  BY DEF EraseNoted, Erased
<1> HIDE DEF e
<1>5. /\ RemovedAt(connection_schedules, e) \in Seq(Request)
      /\ Len(RemovedAt(connection_schedules, e)) = Len(connection_schedules) - 1
      /\ \A l \in 1 .. Len(connection_schedules) - 1 :
           RemovedAt(connection_schedules, e)[l] =
             IF l < e THEN connection_schedules[l] ELSE connection_schedules[l + 1]
  BY <1>1, <1>3, ErasingOne
<1>6. DOMAIN connection_schedules' = 1 .. Len(connection_schedules) - 1
  BY <1>4, <1>5
<1>7. \A j \in DOMAIN connection_schedules' :
        connection_schedules'[j] = connection_schedules[IF j < e THEN j ELSE j + 1]
  BY <1>4, <1>5, <1>6
<1> QED
  BY <1>1, <1>3, <1>4, <1>5, <1>6, <1>7 DEF e

LEMMA CallListed ==
  ASSUME ConnectTypeOK, Listed, BeginConnectAll \/ ConnectStep \/ ConnectReturns
  PROVE  Listed'
<1>1. CASE UNCHANGED <<connection_schedules, unasked>>
  BY <1>1 DEF Listed
<1>2. CASE EraseNoted
  <2> DEFINE e == Head(conn.erase_index)
             from(j) == IF j < e THEN j ELSE j + 1
  <2>1. /\ e \in 1 .. Len(connection_schedules) /\ Len(connection_schedules) \in Nat
        /\ DOMAIN connection_schedules = 1 .. Len(connection_schedules)
        /\ DOMAIN connection_schedules' = 1 .. Len(connection_schedules) - 1
        /\ \A j \in DOMAIN connection_schedules' :
             connection_schedules'[j] = connection_schedules[from(j)]
    BY <1>2, ErasedPart
  <2> HIDE DEF e
  <2>2. \A j, k \in DOMAIN connection_schedules' :
          from(j) \in DOMAIN connection_schedules /\ (from(j) = from(k) => j = k)
    BY <2>1
  <2> HIDE DEF from
  <2>3. unasked' = unasked
    BY <1>2 DEF EraseNoted
  <2> QED
    BY <2>1, <2>2, <2>3 DEF Listed
<1>3. CASE ErasePastEnd /\ connection_schedules # <<>> /\ connection_schedules' =
             SubSeq(connection_schedules, 1, Len(connection_schedules) - 1)
  <2>1. connection_schedules \in Seq(Request)
    BY DEF ConnectTypeOK
  <2>2. /\ Len(connection_schedules) \in Nat
        /\ DOMAIN connection_schedules = 1 .. Len(connection_schedules)
        /\ DOMAIN connection_schedules' = 1 .. Len(connection_schedules) - 1
        /\ \A l \in 1 .. Len(connection_schedules) - 1 :
             connection_schedules'[l] = connection_schedules[l]
    BY <1>3, <2>1, DroppingLast
  <2>3. unasked' = unasked
    BY <1>3 DEF ErasePastEnd
  <2> QED
    BY <2>2, <2>3 DEF Listed
<1> QED
  BY <1>1, <1>2, <1>3
     DEF BeginConnectAll, ConnectStep, ConnectFound, NextRequest, EndScan, ErasePastEnd,
         EndErase, ConnectReturns

-----------------------------------------------------------------------------
(* Without a crowd: what each action does to the indices noted, and to the *)
(* requests that were connected.                                           *)
LEMMA PlacesOfRequests ==
  ASSUME ConnectTypeOK
  PROVE  /\ Len(connection_schedules) \in Nat
         /\ DOMAIN connection_schedules = 1 .. Len(connection_schedules)
         /\ \A j \in DOMAIN connection_schedules : connection_schedules[j] \in Request
         /\ conn.i \in Nat \ {0} /\ conn.found \in Nat \ {0}
         /\ conn.erase_index \in Seq(Nat \ {0})
  BY DEF ConnectTypeOK

LEMMA ScheduleOrder ==
  ASSUME Linkage, Noting, Asked, conn.at = "idle", NEW r \in Request, Schedule(r)
  PROVE  Noting' /\ Asked' /\ Connected' = Connected
<1>1. /\ conn = NotConnecting /\ conn' = conn
      /\ r \in unasked /\ unasked' = unasked \ {r}
  BY DEF Noting, Schedule
<1>2. /\ \A j \in Nat \ {0} : ~Passed(j) /\ ~Passed(j)'
  BY <1>1 DEF Passed, NotConnecting
<1>3. /\ DOMAIN connection_schedules \subseteq Nat \ {0}
      /\ DOMAIN connection_schedules' \subseteq Nat \ {0}
      /\ Waiting' = Waiting \cup {r}
  BY ScheduleAppends DEF Waiting, Linkage
<1>4. Noting'
  <2>1. DOMAIN conn'.erase_index = {} /\ conn'.at = "idle"
    BY <1>1 DEF NotConnecting
  <2> QED
    BY <1>1, <1>2, <1>3, <2>1 DEF Noting
<1>5. Asked'
  BY <1>1, <1>3 DEF Asked
<1>6. \A x : x \in Connected <=> x \in Request \ (unasked \cup Waiting) /\ Findable(x)
  BY <1>2, <1>3 DEF Connected, Waiting
<1>7. \A x : x \in Connected' <=> x \in Request \ (unasked' \cup Waiting') /\ Findable(x)
  BY <1>2, <1>3 DEF Connected, Waiting
<1> QED
  BY <1>1, <1>3, <1>4, <1>5, <1>6, <1>7

LEMMA BeginOrder ==
  ASSUME Linkage, Noting, Asked, BeginConnectAll
  PROVE  Noting' /\ Asked' /\ Connected' = Connected
<1>1. /\ conn = NotConnecting /\ conn'.i = conn.i /\ conn'.found = conn.found
      /\ conn'.erase_index = conn.erase_index
      /\ conn'.at = IF connection_schedules = <<>> THEN "done" ELSE "scan"
      /\ UNCHANGED <<connection_schedules, unasked>>
  BY DEF Noting, BeginConnectAll, NotConnecting
<1>2. \A j : Passed(j)' <=> Passed(j)
  BY <1>1 DEF Passed
<1>3. Noting'
  BY <1>1, <1>2, PlacesOfRequests DEF Noting, NotConnecting, Linkage
<1> QED
  BY <1>1, <1>2, <1>3 DEF Asked, Waiting, Connected

LEMMA NextRequestOrder ==
  ASSUME Linkage, Noting, Asked, NextRequest
  PROVE  Noting' /\ Asked' /\ Connected' = Connected
<1>1. /\ conn'.i = conn.i + 1 /\ conn'.found = 1 /\ conn'.at = conn.at
      /\ conn'.erase_index = conn.erase_index /\ conn.at = "scan"
      /\ UNCHANGED <<connection_schedules, unasked>>
  BY PlacesOfRequests DEF Linkage, NextRequest, Scanning, ConnectTypeOK
<1>2. /\ conn.i \in Nat \ {0} /\ conn.found \in Nat \ {0}
      /\ conn.found > Len(connection_schedules[conn.i].found)
      /\ conn.i \in DOMAIN connection_schedules
      /\ connection_schedules[conn.i].found \in Seq(Port)
  BY PlacesOfRequests, ScannedRequest, ConnectAssumption
     DEF Linkage, NextRequest, Scanned
<1>3. conn.found > 1 \/ ~Findable(connection_schedules[conn.i])
  BY <1>2 DEF Findable
<1>4. \A j \in DOMAIN connection_schedules :
        Findable(connection_schedules[j]) => (Passed(j)' <=> Passed(j))
  BY <1>1, <1>2, <1>3, PlacesOfRequests DEF Passed, Linkage
<1>5. Noting'
  BY <1>1, <1>4 DEF Noting
<1>6. Asked'
  BY <1>1 DEF Asked, Waiting
<1> QED
  BY <1>1, <1>4, <1>5, <1>6 DEF Connected

LEMMA EndScanOrder ==
  ASSUME Linkage, Noting, Asked, EndScan, ~crowded'
  PROVE  Noting' /\ Asked' /\ Connected' = Connected
<1>1. /\ conn'.i = conn.i /\ conn'.found = conn.found /\ conn'.at = "erase"
      /\ conn'.erase_index = conn.erase_index
      /\ conn.i > Len(connection_schedules) /\ Len(conn.erase_index) <= 1
      /\ UNCHANGED <<connection_schedules, unasked>>
  <2>1. ~(Len(conn.erase_index) > 1)
    BY DEF EndScan
  <2>2. Len(conn.erase_index) \in Nat
    BY PlacesOfRequests DEF Linkage
  <2>3. Len(conn.erase_index) <= 1
    BY <2>1, <2>2
  <2>4. /\ conn' = [conn EXCEPT !.at = "erase"] /\ conn.i > Len(connection_schedules)
        /\ UNCHANGED <<connection_schedules, unasked>>
    BY DEF EndScan
  <2> QED
    BY <2>3, <2>4 DEF Linkage, ConnectTypeOK
<1>2. \A j : Passed(j)' <=> Passed(j)
  BY <1>1 DEF Passed
<1>3. Noting'
  BY <1>1, <1>2 DEF Noting
<1> QED
  BY <1>1, <1>2, <1>3 DEF Asked, Waiting, Connected

LEMMA EraseOrder ==
  ASSUME Linkage, Noting, Asked, EraseNoted
  PROVE  Noting' /\ Asked' /\ Connected' = Connected
<1> DEFINE e == Head(conn.erase_index)
<1>1. /\ conn'.i = conn.i /\ conn'.found = conn.found /\ conn'.at = "erase"
      /\ conn.at = "erase" /\ conn.i > Len(connection_schedules)
      /\ unasked' = unasked
  BY DEF Noting, EraseNoted, ConnectTypeOK, Linkage
<1>2. /\ Len(conn.erase_index) = 1 /\ conn.erase_index[1] = e
      /\ DOMAIN conn.erase_index = {1} /\ conn'.erase_index = <<>>
  <2>1. /\ conn.erase_index \in Seq(Nat \ {0}) /\ conn.erase_index # <<>>
        /\ Len(conn.erase_index) <= 1 /\ conn'.erase_index = Tail(conn.erase_index)
    BY <1>1, PlacesOfRequests DEF Linkage, Noting, EraseNoted, ConnectTypeOK
  <2> QED
    BY <2>1, SingleEntry
<1>3. /\ e \in DOMAIN connection_schedules /\ Findable(connection_schedules[e])
  BY <1>2 DEF Noting
<1> DEFINE from(j) == IF j < e THEN j ELSE j + 1
<1>4. /\ Len(connection_schedules) \in Nat
      /\ DOMAIN connection_schedules = 1 .. Len(connection_schedules)
      /\ Len(connection_schedules') = Len(connection_schedules) - 1
      /\ DOMAIN connection_schedules' = 1 .. Len(connection_schedules) - 1
      /\ \A j \in DOMAIN connection_schedules' :
           connection_schedules'[j] = connection_schedules[from(j)]
  BY ErasedPart DEF Linkage
<1>5. conn.i \in Nat
  BY PlacesOfRequests DEF Linkage
<1> HIDE DEF e
<1>6. \A j \in DOMAIN connection_schedules' :
        from(j) \in DOMAIN connection_schedules /\ from(j) # e
  BY <1>3, <1>4
<1>7. \A j \in DOMAIN connection_schedules : Passed(j)
  BY <1>1, <1>4, <1>5 DEF Passed
<1>8. \A j \in DOMAIN connection_schedules' : Passed(j)'
  BY <1>1, <1>4, <1>5 DEF Passed
<1>9. \A j \in DOMAIN connection_schedules :
        Findable(connection_schedules[j]) => j = e
  BY <1>2, <1>7 DEF Noting
<1>10. \A j \in DOMAIN connection_schedules' : ~Findable(connection_schedules'[j])
  BY <1>4, <1>6, <1>9
<1>11. Noting'
  <2>1. conn'.i > Len(connection_schedules')
    BY <1>1, <1>4, <1>5
  <2>2. DOMAIN conn'.erase_index = {} /\ Len(conn'.erase_index) = 0
    BY <1>2
  <2> QED
    BY <1>1, <1>2, <1>10, <2>1, <2>2 DEF Noting
<1>12. Asked'
  <2> SUFFICES ASSUME NEW r \in Request, r \notin unasked, r \notin Waiting'
               PROVE  Findable(r)
    BY <1>1 DEF Asked
  <2>1. CASE r \in Waiting
    <3>1. PICK j \in DOMAIN connection_schedules : r = connection_schedules[j]
      BY <2>1 DEF Waiting
    <3>2. CASE j = e
      BY <1>3, <3>1, <3>2
    <3>3. CASE j < e
      <4>1. j \in DOMAIN connection_schedules' /\ from(j) = j
        BY <1>3, <1>4, <3>3
      <4> QED
        BY <1>4, <3>1, <4>1 DEF Waiting
    <3>4. CASE j > e
      <4>1. j - 1 \in DOMAIN connection_schedules' /\ from(j - 1) = j
        BY <1>3, <1>4, <3>4
      <4> QED
        BY <1>4, <3>1, <4>1 DEF Waiting
    <3> QED
      BY <1>3, <1>4, <3>2, <3>3, <3>4
  <2>2. CASE r \notin Waiting
    BY <2>2 DEF Asked
  <2> QED
    BY <2>1, <2>2
<1>13. Connected' = Connected
  BY <1>1, <1>7, <1>8 DEF Connected
<1> QED
  BY <1>11, <1>12, <1>13

LEMMA EndEraseOrder ==
  ASSUME Linkage, Noting, Asked, EndErase
  PROVE  Noting' /\ Asked' /\ Connected' = Connected
<1>1. /\ conn'.i = conn.i /\ conn'.found = conn.found /\ conn'.at = "done"
      /\ conn'.erase_index = conn.erase_index /\ conn.erase_index = <<>>
      /\ conn.at = "erase"
      /\ UNCHANGED <<connection_schedules, unasked>>
  BY PlacesOfRequests DEF Linkage, EndErase, ConnectTypeOK
<1>2. \A j : Passed(j)' <=> Passed(j)
  BY <1>1 DEF Passed
<1>3. Noting'
  BY <1>1, <1>2 DEF Noting
<1> QED
  BY <1>1, <1>2, <1>3 DEF Asked, Waiting, Connected

LEMMA ReturnsOrder ==
  ASSUME Linkage, Noting, Asked, ConnectReturns
  PROVE  Noting' /\ Asked' /\ Connected' = Connected
<1>1. /\ conn' = NotConnecting /\ conn.at = "done" /\ conn.erase_index = <<>>
      /\ conn.i > Len(connection_schedules) /\ conn.i \in Nat
      /\ UNCHANGED <<connection_schedules, unasked>>
      /\ DOMAIN connection_schedules = 1 .. Len(connection_schedules)
      /\ Len(connection_schedules) \in Nat
  BY PlacesOfRequests DEF Linkage, Noting, ConnectReturns
<1>2. \A j \in DOMAIN connection_schedules : Passed(j) /\ ~Passed(j)'
  BY <1>1 DEF Passed, NotConnecting
<1>3. \A j \in DOMAIN connection_schedules : ~Findable(connection_schedules[j])
  BY <1>1, <1>2 DEF Noting
<1>4. Noting'
  BY <1>1, <1>2 DEF Noting, NotConnecting
<1> QED
  BY <1>1, <1>2, <1>3, <1>4 DEF Asked, Waiting, Connected

(* Erasing past the end happens in a crowd only.                           *)
LEMMA NoPastEnd == ASSUME Linkage, Noting PROVE ~ErasePastEnd
<1> SUFFICES ASSUME ErasePastEnd PROVE FALSE
  OBVIOUS
<1>1. /\ conn.erase_index \in Seq(Nat \ {0}) /\ conn.erase_index # <<>>
      /\ Head(conn.erase_index) > Len(connection_schedules)
  BY PlacesOfRequests DEF Linkage, ErasePastEnd
<1>2. 1 \in DOMAIN conn.erase_index /\ Head(conn.erase_index) = conn.erase_index[1]
  BY <1>1
<1>3. Head(conn.erase_index) \in 1 .. Len(connection_schedules)
  BY <1>2, PlacesOfRequests DEF Noting, Linkage
<1> QED
  BY <1>1, <1>3, PlacesOfRequests DEF Linkage

(* The scan connects a request: it is passed and noted.                    *)
LEMMA FoundOrder ==
  ASSUME OnePortEach, Linkage, Noting, Asked, ConnectFound
  PROVE  /\ Noting' /\ Asked' /\ Connected' = Connected \cup {Scanned}
         /\ Scanned \in Request /\ Findable(Scanned) /\ conn.found = 1
         /\ Scanned \notin Connected
<1>1. /\ conn.i \in DOMAIN connection_schedules /\ Scanned = connection_schedules[conn.i]
      /\ Scanned \in Request /\ Scanned.found \in Seq(Port)
      /\ conn.found <= Len(Scanned.found)
      /\ conn.i \in Nat \ {0} /\ conn.found \in Nat \ {0}
  BY PlacesOfRequests, ScannedRequest, ConnectAssumption
     DEF Linkage, ConnectFound, Scanned
<1>2. conn.found = 1 /\ Findable(Scanned)
  BY <1>1 DEF OnePortEach, Findable
<1>3. /\ conn'.i = conn.i /\ conn'.found = 2 /\ conn'.at = "scan"
      /\ conn'.erase_index = Append(conn.erase_index, conn.i)
      /\ UNCHANGED <<connection_schedules, unasked>>
  BY <1>2 DEF Linkage, ConnectTypeOK, ConnectFound, Scanning, NotedIndex
<1>4. \A j \in DOMAIN connection_schedules : Passed(j)' <=> Passed(j) \/ j = conn.i
  BY <1>1, <1>2, <1>3, PlacesOfRequests DEF Passed, Linkage
<1>5. ~Passed(conn.i)
  BY <1>1, <1>2 DEF Passed
<1>6. /\ DOMAIN conn.erase_index = 1 .. Len(conn.erase_index)
      /\ DOMAIN conn'.erase_index = 1 .. Len(conn.erase_index) + 1
      /\ Len(conn.erase_index) \in Nat
      /\ \A n \in DOMAIN conn.erase_index : conn'.erase_index[n] = conn.erase_index[n]
      /\ conn'.erase_index[Len(conn.erase_index) + 1] = conn.i
  BY <1>1, <1>3, PlacesOfRequests DEF Linkage
<1>7. \A n \in DOMAIN conn'.erase_index :
        /\ conn'.erase_index[n] \in DOMAIN connection_schedules
        /\ Findable(connection_schedules[conn'.erase_index[n]])
  BY <1>1, <1>2, <1>6 DEF Noting
<1>8. ASSUME NEW j \in DOMAIN connection_schedules, Passed(j)',
             Findable(connection_schedules[j])
      PROVE  \E n \in DOMAIN conn'.erase_index : conn'.erase_index[n] = j
  <2>1. CASE j = conn.i
    BY <1>6, <2>1
  <2>2. CASE j # conn.i
    <3>1. PICK n \in DOMAIN conn.erase_index : conn.erase_index[n] = j
      BY <1>4, <1>8, <2>2 DEF Noting
    <3> QED
      BY <1>6, <3>1
  <2> QED
    BY <2>1, <2>2
<1>9. Noting'
  BY <1>3, <1>7, <1>8 DEF Noting
<1>10. Asked'
  BY <1>3 DEF Asked, Waiting
<1>11. Scanned \notin Connected
  BY <1>1, <1>5 DEF Connected
<1>12. Connected' = Connected \cup {Scanned}
  <2>1. \A j \in DOMAIN connection_schedules : connection_schedules[j] = Scanned => j = conn.i
    BY <1>1 DEF Linkage, Listed
  <2>2. Scanned \in Request \ unasked
    BY <1>1 DEF Linkage, Listed
  <2>3. Scanned \in Connected'
    BY <1>2, <1>3, <1>4, <2>1, <2>2 DEF Connected
  <2>4. \A r : r # Scanned => (r \in Connected' <=> r \in Connected)
    BY <1>1, <1>3, <1>4 DEF Connected
  <2> QED
    BY <2>3, <2>4
<1> QED
  BY <1>1, <1>2, <1>9, <1>10, <1>11, <1>12

-----------------------------------------------------------------------------
(* Links.                                                                  *)
LEMMA LinkPorts ==
  ASSUME NEW r \in Request, Findable(r)
  PROVE  /\ Link(r)[1] \in Port /\ Link(r)[2] \in Port
         /\ Link(r) = <<Link(r)[1], Link(r)[2]>>
         /\ {Link(r)[1], Link(r)[2]} = {r.dst, r.found[1]}
<1>1. r.dst \in Port /\ r.found \in Seq(Port) /\ 1 \in DOMAIN r.found
  BY ConnectAssumption DEF Findable
<1> QED
  BY <1>1 DEF Link, Linking

(* The source of a request has never been a destination.                   *)
LEMMA SourceOwns ==
  ASSUME FlatRequests, Linkage, LinksKnown, NEW r \in Request, Findable(r)
  PROVE  /\ dirty[Link(r)[1]] /\ wires[Link(r)[1]] = Link(r)[1]
         /\ Link(r)[1] # Link(r)[2]
<1>1. \A q \in Connected : q \in Request /\ Findable(q)
  BY DEF Connected
<1>2. Link(r)[1] \in Port
  BY LinkPorts
<1>3. dirty[Link(r)[1]]
  <2> SUFFICES ASSUME ~dirty[Link(r)[1]] PROVE FALSE
    OBVIOUS
  <2>1. PICK q \in Connected : Link(q) = <<wires[Link(r)[1]], Link(r)[1]>>
    BY <1>2 DEF LinksKnown
  <2>2. Link(q)[2] = Link(r)[1]
    BY <2>1
  <2> QED
    BY <1>1, <2>2 DEF FlatRequests
<1> QED
  BY <1>2, <1>3 DEF LinksKnown, FlatRequests

LEMMA LinksStay ==
  ASSUME LinksKnown, Connected' = Connected, UNCHANGED <<wires, dirty>>
  PROVE  LinksKnown'
  BY DEF LinksKnown

(* What ConnectFound does to the ports.                                    *)
LEMMA FoundLinks ==
  ASSUME OnePortEach, Linkage, Noting, Asked, ConnectFound
  PROVE  \/ Connect(Link(Scanned)[1], Link(Scanned)[2])
         \/ Type[Link(Scanned)[2]] # "PORT_WIRE" /\ UNCHANGED portVars
<1>1. conn.found = 1
  BY FoundOrder
<1> QED
  BY <1>1 DEF ConnectFound, Link

LEMMA LinksMove ==
  ASSUME OnePortEach, FlatRequests, Linkage, Orderly, ConnectFound
  PROVE  LinksKnown'
<1>1. /\ Connected' = Connected \cup {Scanned}
      /\ Scanned \in Request /\ Findable(Scanned)
  BY FoundOrder DEF Orderly
<1> DEFINE src == Link(Scanned)[1]
           dst == Link(Scanned)[2]
<1>2. /\ src \in Port /\ dst \in Port /\ Link(Scanned) = <<src, dst>> /\ src # dst
      /\ dirty[src] /\ wires[src] = src
  BY <1>1, LinkPorts, SourceOwns DEF Orderly
<1>3. LinksKnown
  BY DEF Orderly
<1>4. CASE Type[dst] # "PORT_WIRE" /\ UNCHANGED portVars
  BY <1>1, <1>3, <1>4 DEF LinksKnown, portVars
<1>5. CASE Connect(src, dst)
  <2>1. /\ Type[dst] = "PORT_WIRE"
        /\ \A p \in Port : /\ wires'[p] = IF p = dst THEN src ELSE wires[p]
                           /\ dirty'[p] = IF p = dst THEN FALSE ELSE dirty[p]
    BY <1>2, <1>5 DEF Connect, Repointed, Linkage, TypeInv, PortTypeOK
  <2> HIDE DEF src, dst
  <2>2. ASSUME NEW p \in Port
        PROVE  IF dirty'[p] THEN wires'[p] = p
               ELSE Type[p] = "PORT_WIRE" /\ \E r \in Connected' : Link(r) = <<wires'[p], p>>
    <3>1. CASE p = dst
      BY <1>1, <1>2, <2>1, <3>1
    <3>2. CASE p # dst
      BY <1>1, <1>3, <2>1, <3>2 DEF LinksKnown
    <3> QED
      BY <3>1, <3>2
  <2>3. ASSUME NEW r \in Connected', Type[Link(r)[2]] = "PORT_WIRE"
        PROVE  ~dirty'[Link(r)[2]]
    <3>1. Link(r)[2] \in Port
      BY <1>1, LinkPorts DEF Connected
    <3>2. r = Scanned \/ r \in Connected
      BY <1>1
    <3>3. Link(Scanned)[2] = dst
      BY DEF dst
    <3> QED
      BY <1>3, <2>1, <2>3, <3>1, <3>2, <3>3 DEF LinksKnown
  <2> QED
    BY <2>2, <2>3 DEF LinksKnown
<1> QED
  BY <1>4, <1>5, FoundLinks DEF Orderly

(* Two requests never ask for one link, so that each connection made adds  *)
(* a port to those that were linked to the vector.                         *)
LEMMA CountsMove ==
  ASSUME OnePortEach, FlatRequests, DistinctLinks, Linkage, Orderly, Counting, ConnectFound
  PROVE  Counting'
<1>1. /\ Connected' = Connected \cup {Scanned}
      /\ Scanned \in Request /\ Findable(Scanned) /\ Scanned \notin Connected
      /\ \A r \in Connected : r \in Request /\ Findable(r)
  BY FoundOrder DEF Orderly, Connected
<1> DEFINE src == Link(Scanned)[1]
           dst == Link(Scanned)[2]
<1>2. /\ src \in Port /\ dst \in Port /\ Link(Scanned) = <<src, dst>> /\ src # dst
      /\ dirty[src] /\ wires[src] = src
  BY <1>1, LinkPorts, SourceOwns DEF Orderly
<1>3. CASE Type[dst] # "PORT_WIRE" /\ UNCHANGED portVars
  <2>1. \A b : Made(b)' = Made(b)
    BY <1>1, <1>2, <1>3 DEF Made
  <2> QED
    BY <1>3, <2>1 DEF Counting, portVars
<1>4. CASE Connect(src, dst)
  <2>1. /\ Type[dst] = "PORT_WIRE"
        /\ \A p \in Port : dirty'[p] = IF p = dst THEN FALSE ELSE dirty[p]
        /\ heap' = [heap EXCEPT ![src] = [i \in Idx(src) |-> Linked(heap[src][i])]]
        /\ DOMAIN heap = Port
    BY <1>2, <1>4 DEF Connect, Linkage, TypeInv, PortTypeOK
  <2> HIDE DEF src, dst
  <2> SUFFICES ASSUME NEW b \in Port, dirty'[b]
               PROVE  /\ IsFiniteSet(Made(b)')
                      /\ \A i \in Idx(b) :
                           /\ heap'[b][i].modules_connected = Cardinality(Made(b)')
                           /\ heap'[b][i].modules_connected_orig = Cardinality(Made(b)')
    BY DEF Counting
  <2>2. dirty[b] /\ b # dst
    BY <2>1
  <2>3. IsFiniteSet(Made(b)) /\ Cardinality(Made(b)) \in Nat
    BY <2>2, FS_CardinalityType DEF Counting
  <2>4. CASE b = src
    <3>1. dst \notin Made(b)
      <4> SUFFICES ASSUME NEW r \in Connected, Link(r) = <<b, dst>> PROVE FALSE
        BY DEF Made
      <4> QED
        BY <1>1, <1>2, <2>4 DEF DistinctLinks
    <3>2. Made(b)' = Made(b) \cup {dst}
      BY <1>1, <1>2, <2>1, <2>4 DEF Made
    <3>3. /\ IsFiniteSet(Made(b)')
          /\ Cardinality(Made(b)') = Cardinality(Made(b)) + 1
      BY <2>3, <3>1, <3>2, FS_AddElement
    <3>4. \A i \in Idx(b) :
            /\ heap'[b][i].modules_connected = Cardinality(Made(b)) + 1
            /\ heap'[b][i].modules_connected_orig = Cardinality(Made(b)) + 1
      <4> SUFFICES ASSUME NEW i \in Idx(b)
                   PROVE  /\ heap'[b][i].modules_connected = Cardinality(Made(b)) + 1
                          /\ heap'[b][i].modules_connected_orig = Cardinality(Made(b)) + 1
        OBVIOUS
      <4>1. heap'[b][i] = Linked(heap[b][i])
        BY <2>1, <2>4
      <4>2. heap[b][i] \in Wire /\ heap[b][i].modules_connected = Cardinality(Made(b))
        BY <2>2 DEF Linkage, TypeInv, PortTypeOK, Counting, Wire, Driver
      <4> QED
        BY <4>1, <4>2 DEF Linked, Wire, WireOf
    <3> QED
      BY <3>3, <3>4
  <2>5. CASE b # src
    <3>1. Made(b)' = Made(b)
      BY <1>1, <1>2, <2>5 DEF Made
    <3>2. heap'[b] = heap[b]
      BY <2>1, <2>5
    <3> QED
      BY <2>2, <3>1, <3>2 DEF Counting
  <2> QED
    BY <2>4, <2>5
<1> QED
  BY <1>3, <1>4, FoundLinks DEF Orderly

-----------------------------------------------------------------------------
(* The invariants.                                                         *)
allVars == <<portVars, connVars>>

LEMMA LinkageInit == PortInit /\ ConnectInit => Linkage
<1> SUFFICES ASSUME PortInit, ConnectInit PROVE Linkage
  OBVIOUS
<1>1. TypeInv /\ VectorsOwned
  BY TypeInit, OwnedInit
<1>2. ConnectTypeOK
  <2>1. /\ connection_schedules = <<>> /\ unasked = Request /\ conn = NotConnecting
        /\ crowded = FALSE
    BY DEF ConnectInit
  <2>2. NotConnecting \in
          [at : {"idle", "scan", "erase", "done", "stopped"}, i : Nat \ {0},
           found : Nat \ {0}, erase_index : Seq(Nat \ {0})]
    BY DEF NotConnecting
  <2>3. connection_schedules \in Seq(Request) /\ unasked \subseteq Request
    BY <2>1, EmptySeq
  <2>4. crowded \in BOOLEAN
    BY <2>1
  <2> QED
    BY <2>1, <2>2, <2>3, <2>4, Zenon DEF ConnectTypeOK
<1>3. Listed
  BY DEF ConnectInit, Listed
<1> QED
  BY <1>1, <1>2, <1>3 DEF Linkage

LEMMA OwnedStay == ASSUME VectorsOwned, UNCHANGED portVars PROVE VectorsOwned'
  BY DEF VectorsOwned, portVars

LEMMA CallOwned ==
  ASSUME Linkage, BeginConnectAll \/ ConnectStep \/ ConnectReturns PROVE VectorsOwned'
<1>1. CASE ConnectFound
  <2>1. Scanned \in Request /\ conn.found \in DOMAIN Scanned.found
    BY <1>1, PlacesOfRequests, ScannedRequest DEF Linkage, ConnectFound
  <2> DEFINE l == Linking(Scanned, Scanned.found[conn.found])
  <2>2. l[1] \in Port /\ l[2] \in Port
    BY <2>1, LinkingPorts
  <2>3. Connect(l[1], l[2]) \/ UNCHANGED portVars
    BY <1>1 DEF ConnectFound
  <2> HIDE DEF l
  <2> QED
    BY <2>2, <2>3, OwnedConnect, OwnedStay DEF Linkage
<1>2. CASE UNCHANGED portVars
  BY <1>2, OwnedStay DEF Linkage
<1> QED
  BY <1>1, <1>2
     DEF BeginConnectAll, ConnectStep, NextRequest, EndScan, EraseNoted, ErasePastEnd,
         EndErase, ConnectReturns

LEMMA LinkageStep == Linkage /\ [ScheduleNext]_allVars => Linkage'
<1> SUFFICES ASSUME Linkage, [ScheduleNext]_allVars PROVE Linkage'
  OBVIOUS
<1>1. ASSUME NEW r \in Request, Schedule(r) PROVE Linkage'
  <2>1. TypeInv' /\ VectorsOwned'
    BY <1>1, TypeNext, ConnectWidths, OwnedStay DEF Schedule, Linkage
  <2> QED
    BY <1>1, <2>1, ScheduleTypes, ScheduleListed DEF Linkage
<1>2. CASE BeginConnectAll \/ ConnectStep \/ ConnectReturns
  BY <1>2, CallTypes, CallListed, CallOwned DEF Linkage
<1>3. CASE UNCHANGED allVars
  <2>1. TypeInv' /\ VectorsOwned'
    BY <1>3, TypeNext, ConnectWidths, OwnedStay DEF allVars, Linkage
  <2> QED
    BY <1>3, <2>1 DEF allVars, connVars, Linkage, ConnectTypeOK, Listed
<1> QED
  BY <1>1, <1>2, <1>3 DEF ScheduleNext

(* Every action but ConnectFound leaves the links and their requests.      *)
LEMMA OrderStays ==
  ASSUME Linkage, Orderly, [ScheduleNext]_allVars, ~ConnectFound, ~crowded'
  PROVE  Noting' /\ Asked' /\ Connected' = Connected /\ UNCHANGED portVars
<1> USE DEF Orderly
<1>1. ASSUME conn.at = "idle", NEW r \in Request, Schedule(r)
      PROVE  Noting' /\ Asked' /\ Connected' = Connected /\ UNCHANGED portVars
  BY <1>1, ScheduleOrder DEF Schedule
<1>2. CASE BeginConnectAll
  BY <1>2, BeginOrder DEF BeginConnectAll
<1>3. CASE NextRequest
  BY <1>3, NextRequestOrder DEF NextRequest
<1>4. CASE EndScan
  BY <1>4, EndScanOrder DEF EndScan
<1>5. CASE EraseNoted
  BY <1>5, EraseOrder DEF EraseNoted
<1>6. CASE EndErase
  BY <1>6, EndEraseOrder DEF EndErase
<1>7. CASE ConnectReturns
  BY <1>7, ReturnsOrder DEF ConnectReturns
<1>8. CASE UNCHANGED allVars
  <2>1. UNCHANGED <<connection_schedules, unasked, conn, portVars>>
    BY <1>8 DEF allVars, connVars
  <2>2. \A j : Passed(j)' <=> Passed(j)
    BY <2>1 DEF Passed
  <2> QED
    BY <2>1, <2>2 DEF Noting, Asked, Waiting, Connected
<1> QED
  BY <1>1, <1>2, <1>3, <1>4, <1>5, <1>6, <1>7, <1>8, NoPastEnd
     DEF ScheduleNext, ConnectStep

LEMMA OrderlyStep ==
  ASSUME OnePortEach, FlatRequests,
         Linkage, Orderly, [ScheduleNext]_allVars, ~crowded'
  PROVE  Orderly'
<1>1. CASE ConnectFound
  BY <1>1, FoundOrder, LinksMove DEF Orderly
<1>2. CASE ~ConnectFound
  BY <1>2, OrderStays, LinksStay DEF Orderly, portVars
<1> QED
  BY <1>1, <1>2

LEMMA CountingStep ==
  ASSUME OnePortEach, FlatRequests, DistinctLinks,
         Linkage, Orderly, Counting, [ScheduleNext]_allVars, ~crowded'
  PROVE  Counting'
<1>1. CASE ConnectFound
  BY <1>1, CountsMove
<1>2. CASE ~ConnectFound
  <2>1. Connected' = Connected /\ UNCHANGED portVars
    BY <1>2, OrderStays
  <2>2. \A b : Made(b)' = Made(b)
    BY <2>1 DEF Made
  <2> QED
    BY <2>1, <2>2 DEF Counting, portVars
<1> QED
  BY <1>1, <1>2

LEMMA OrderlyInit == PortInit /\ ConnectInit => Orderly /\ Counting /\ ~crowded
<1> SUFFICES ASSUME PortInit, ConnectInit PROVE Orderly /\ Counting /\ ~crowded
  OBVIOUS
<1>1. /\ connection_schedules = <<>> /\ unasked = Request /\ conn = NotConnecting
      /\ ~crowded
  BY DEF ConnectInit
<1>2. Connected = {}
  BY <1>1 DEF Connected
<1>3. Noting
  BY <1>1 DEF Noting, NotConnecting
<1>4. Asked
  BY <1>1 DEF Asked
<1>5. LinksKnown
  BY <1>2 DEF LinksKnown, PortInit
<1>6. \A b : Made(b) = {}
  BY <1>2 DEF Made
<1>7. Counting
  BY <1>6, FS_EmptySet DEF Counting, PortInit, NewWire
<1> QED
  BY <1>1, <1>3, <1>4, <1>5, <1>7 DEF Orderly

LEMMA CrowdStays == [ScheduleNext]_allVars /\ crowded => crowded'
  BY DEF ScheduleNext, Schedule, BeginConnectAll, ConnectStep, ConnectFound, NextRequest,
         EndScan, EraseNoted, ErasePastEnd, EndErase, ConnectReturns, allVars, connVars

LEMMA OrderlyInvariant ==
  ASSUME OnePortEach, FlatRequests
  PROVE  ScheduleSpec => [](Linkage /\ (crowded \/ Orderly))
<1>1. PortInit /\ ConnectInit => Linkage /\ (crowded \/ Orderly)
  BY LinkageInit, OrderlyInit
<1>2. Linkage /\ (crowded \/ Orderly) /\ [ScheduleNext]_allVars =>
        (Linkage /\ (crowded \/ Orderly))'
  BY LinkageStep, OrderlyStep, CrowdStays
<1> QED
  BY <1>1, <1>2, PTL DEF ScheduleSpec, allVars

LEMMA CountingInvariant ==
  ASSUME OnePortEach, FlatRequests, DistinctLinks
  PROVE  ScheduleSpec => [](Linkage /\ (crowded \/ (Orderly /\ Counting)))
<1>1. PortInit /\ ConnectInit => Linkage /\ (crowded \/ (Orderly /\ Counting))
  BY LinkageInit, OrderlyInit
<1>2. Linkage /\ (crowded \/ (Orderly /\ Counting)) /\ [ScheduleNext]_allVars =>
        (Linkage /\ (crowded \/ (Orderly /\ Counting)))'
  BY LinkageStep, OrderlyStep, CountingStep, CrowdStays
<1> QED
  BY <1>1, <1>2, PTL DEF ScheduleSpec, allVars

-----------------------------------------------------------------------------
(* Whatever user code asks for and whenever, the schedule holds requests,  *)
(* each once and none that was not made, and ports, vectors and indices    *)
(* keep their types, in a crowd too.                                       *)
THEOREM ScheduleTyped == ScheduleSpec => [](PortTypeOK /\ ConnectTypeOK /\ Listed)
<1>1. ScheduleSpec => []Linkage
  BY LinkageInit, LinkageStep, PTL DEF ScheduleSpec, allVars
<1>2. Linkage => PortTypeOK /\ ConnectTypeOK /\ Listed
  BY DEF Linkage, TypeInv
<1> QED
  BY <1>1, <1>2, PTL

(* A request has linked its destination, unless connect refused.           *)
Bound(r) == Type[Link(r)[2]] = "PORT_WIRE" => ~dirty[Link(r)[2]]

(* A request whose name finds a port asks for one link.                    *)
LEMMA OneFound ==
  ASSUME OnePortEach, NEW r \in Request, Findable(r)
  PROVE  DOMAIN r.found = {1} /\ Linking(r, r.found[1]) = Link(r)
<1>1. r.found \in Seq(Port) /\ Len(r.found) <= 1
  BY ConnectAssumption DEF OnePortEach
<1> QED
  BY <1>1, SingleEntry DEF Findable, Link

(* A request whose destination is linked was served, or another one was in *)
(* its place.                                                              *)
LEMMA BoundIsServed ==
  ASSUME OnePortEach,
         \A q \in Request : Findable(q) => wires[Link(q)[1]] = Link(q)[1],
         \A p \in Port : ~dirty[p] =>
           \E q \in Request \ unasked : Findable(q) /\ Link(q) = <<wires[p], p>>,
         NEW r \in Request \ unasked, Findable(r), Bound(r)
  PROVE  Served(r) \/ Overruled(r)
<1>1. DOMAIN r.found = {1} /\ Linking(r, r.found[1]) = Link(r)
  BY OneFound
<1>2. CASE Type[Link(r)[2]] # "PORT_WIRE"
  BY <1>1, <1>2 DEF Served
<1>3. CASE Type[Link(r)[2]] = "PORT_WIRE"
  <2>1. ~dirty[Link(r)[2]] /\ Link(r)[2] \in Port
    BY <1>3, LinkPorts DEF Bound
  <2>2. PICK q \in Request \ unasked :
          Findable(q) /\ Link(q) = <<wires[Link(r)[2]], Link(r)[2]>>
    BY <2>1
  <2>3. DOMAIN q.found = {1} /\ Linking(q, q.found[1]) = Link(q)
    BY <2>2, OneFound
  <2>4. wires[Link(q)[1]] = Link(q)[1]
    BY <2>2
  <2>5. Served(q)
    BY <2>2, <2>3, <2>4 DEF Served
  <2>6. Link(r)[2] \in LinksTo(q) \cap LinksTo(r)
    BY <1>1, <2>2, <2>3 DEF LinksTo
  <2> QED
    BY <2>2, <2>5, <2>6 DEF Overruled
<1> QED
  BY <1>2, <1>3

(* As long as no call of connect_all notes two indices, every request made *)
(* is waiting, or was served, or another one was served in its place: for  *)
(* any number of requests whose names find one port each and which make no *)
(* port both a source and a destination.                                   *)
THEOREM NothingForgotten ==
  ASSUME OnePortEach, FlatRequests
  PROVE  ScheduleSpec => []ForgottenInCrowd
<1>1. ASSUME Linkage, Orderly, NEW r \in Request \ unasked, r \notin Waiting
      PROVE  Findable(r) /\ (Served(r) \/ Overruled(r))
  <2> USE DEF Orderly
  <2>1. Findable(r)
    BY <1>1 DEF Asked
  <2>2. r \in Connected
    BY <1>1, <2>1 DEF Connected, Waiting
  <2>3. Bound(r)
    BY <1>1, <2>2 DEF LinksKnown, Bound
  <2>4. \A q \in Request : Findable(q) => wires[Link(q)[1]] = Link(q)[1]
    BY <1>1, SourceOwns
  <2>5. \A p \in Port : ~dirty[p] =>
          \E q \in Request \ unasked : Findable(q) /\ Link(q) = <<wires[p], p>>
    BY <1>1 DEF LinksKnown, Connected
  <2> QED
    BY <1>1, <2>1, <2>3, <2>4, <2>5, BoundIsServed
<1>2. Linkage /\ (crowded \/ Orderly) => ForgottenInCrowd
  BY <1>1 DEF ForgottenInCrowd, NoRequestForgotten
<1> QED
  BY <1>2, OrderlyInvariant, PTL

(* ... and no request that was connected waits to be connected again, if   *)
(* no two requests ask for the same link.                                  *)
THEOREM NothingRepeated ==
  ASSUME OnePortEach, FlatRequests, DistinctLinks
  PROVE  ScheduleSpec => []NoRequestRepeated
<1>1. ASSUME Linkage, Orderly, conn.at = "idle", NEW r \in Waiting, Findable(r)
      PROVE  \E k \in DOMAIN r.found : wires[r.dst] # wires[r.found[k]]
  <2> USE DEF Orderly
  <2>1. PICK j \in DOMAIN connection_schedules : r = connection_schedules[j]
    BY DEF Waiting
  <2>2. r \in Request /\ j \in Nat \ {0}
    BY <1>1, <2>1, PlacesOfRequests DEF Linkage
  <2>3. r \notin Connected
    BY <1>1, <2>1, <2>2 DEF Connected, Noting, Passed, NotConnecting
  <2> DEFINE src == Link(r)[1]
             dst == Link(r)[2]
  <2>4. /\ src \in Port /\ dst \in Port /\ Link(r) = <<src, dst>>
        /\ {src, dst} = {r.dst, r.found[1]}
    BY <1>1, <2>2, LinkPorts
  <2>5. wires[src] = src /\ src # dst
    BY <1>1, <2>2, SourceOwns
  <2> HIDE DEF src, dst
  <2>6. wires[dst] # src
    <3>1. CASE dirty[dst]
      BY <1>1, <2>4, <2>5, <3>1 DEF LinksKnown
    <3>2. CASE ~dirty[dst] /\ wires[dst] = src
      <4>1. PICK q \in Connected : Link(q) = <<src, dst>>
        BY <1>1, <2>4, <3>2 DEF LinksKnown
      <4>2. q = r
        BY <1>1, <2>2, <2>4, <4>1 DEF DistinctLinks, Connected
      <4> QED
        BY <2>3, <4>1, <4>2
    <3> QED
      BY <3>1, <3>2
  <2>7. wires[r.dst] # wires[r.found[1]]
    BY <2>4, <2>5, <2>6
  <2>8. 1 \in DOMAIN r.found
    BY <1>1, <2>2, ConnectAssumption DEF Findable
  <2> QED
    BY <2>7, <2>8
<1>2. Linkage /\ (crowded \/ Orderly) => NoRequestRepeated
  BY <1>1 DEF NoRequestRepeated
<1> QED
  BY <1>2, OrderlyInvariant, PTL

(* ... and every wire of a live vector counts the ports that share it, and *)
(* those that did before they were linked elsewhere.                       *)
THEOREM SharersCounted ==
  ASSUME OnePortEach, FlatRequests, DistinctLinks
  PROVE  ScheduleSpec => []CountsSharers
<1>1. ASSUME Linkage, Orderly, Counting, conn.at = "idle", NEW b \in Port \ freed,
             NEW i \in Idx(b)
      PROVE  heap[b][i].modules_connected_orig = Cardinality(Sharers(b) \cup Strays(b)) - 1
  <2> USE DEF Orderly
  <2>1. dirty[b] /\ wires[b] = b
    BY <1>1 DEF Linkage, VectorsOwned
  <2>2. \A r \in Connected : r \in Request /\ Findable(r) /\ r \notin unasked \cup Waiting
    BY <1>1, PlacesOfRequests DEF Connected, Waiting, Noting, Passed, NotConnecting, Linkage
  <2>3. \A r \in Request \ (unasked \cup Waiting) : Findable(r) /\ r \in Connected
    BY <1>1 DEF Asked, Connected, Waiting
  <2>4. \A r \in Request : Findable(r) =>
          DOMAIN r.found = {1} /\ Linking(r, r.found[1]) = Link(r)
    <3> SUFFICES ASSUME NEW r \in Request, Findable(r)
                 PROVE  DOMAIN r.found = {1} /\ Linking(r, r.found[1]) = Link(r)
      OBVIOUS
    <3>1. r.found \in Seq(Port) /\ Len(r.found) <= 1
      BY ConnectAssumption DEF OnePortEach
    <3> QED
      BY <3>1, SingleEntry DEF Findable, Link
  <2>5. b \notin Made(b)
    BY <1>1, <2>1, <2>2, SourceOwns DEF Made
  <2>6. ASSUME NEW p \in Port, p # b
        PROVE  p \in Sharers(b) \cup Strays(b) <=> p \in Made(b)
    <3>1. CASE dirty[p]
      <4>1. p \notin Sharers(b) /\ p \notin Strays(b)
        BY <1>1, <2>6, <3>1 DEF Sharers, Strays, LinksKnown
      <4>2. p \notin Made(b)
        BY <1>1, <3>1 DEF Made, LinksKnown
      <4> QED
        BY <4>1, <4>2
    <3>2. CASE ~dirty[p]
      <4>1. Type[p] = "PORT_WIRE" /\ (wires[p] = b => p \in Made(b))
        BY <1>1, <3>2 DEF Made, LinksKnown
      <4>2. p \in Strays(b) => p \in Made(b)
        BY <2>3, <2>4, <4>1 DEF Strays, Made
      <4>3. p \in Made(b) => wires[p] = b \/ p \in Strays(b)
        BY <2>2, <2>4, <3>2 DEF Strays, Made
      <4> QED
        BY <4>1, <4>2, <4>3 DEF Sharers, Strays
    <3> QED
      BY <3>1, <3>2
  <2>7. b \in Sharers(b)
    BY <2>1 DEF Sharers
  <2>8. Sharers(b) \cup Strays(b) = Made(b) \cup {b}
    <3>1. Sharers(b) \subseteq Port /\ Strays(b) \subseteq Port /\ Made(b) \subseteq Port
      BY DEF Sharers, Strays, Made
    <3> QED
      BY <2>6, <2>7, <3>1
  <2>9. IsFiniteSet(Made(b)) /\ heap[b][i].modules_connected_orig = Cardinality(Made(b))
    BY <1>1, <2>1 DEF Counting
  <2>10. /\ Cardinality(Made(b) \cup {b}) = Cardinality(Made(b)) + 1
         /\ Cardinality(Made(b)) \in Nat
    BY <2>5, <2>9, FS_AddElement, FS_CardinalityType
  <2>11. Cardinality(Made(b) \cup {b}) - 1 = Cardinality(Made(b))
    BY <2>10
  <2> QED
    BY <2>8, <2>9, <2>11, Zenon
<1>2. Linkage /\ (crowded \/ (Orderly /\ Counting)) => CountsSharers
  BY <1>1 DEF CountsSharers
<1> QED
  BY <1>2, CountingInvariant, PTL
-----------------------------------------------------------------------------
(* In a crowd the indices noted say little, but whatever is erased, the    *)
(* scan has linked every request that found its port before.               *)
ScanBinds ==
  /\ conn.at = "idle" => conn = NotConnecting
  /\ \A p \in Port :
       IF dirty[p] THEN wires[p] = p
       ELSE \E r \in Request \ unasked : Findable(r) /\ Link(r) = <<wires[p], p>>
  /\ \A r \in Request \ (unasked \cup Waiting) : Findable(r) => Bound(r)
  /\ \A j \in DOMAIN connection_schedules :
       /\ Findable(connection_schedules[j])
       /\ conn.at = "erase" \/ (conn.at = "scan" /\ Passed(j))
       => Bound(connection_schedules[j])

(* No request that finds its port is forgotten, a crowd or not.             *)
NoLinkForgotten ==
  \A r \in Request \ unasked :
    Findable(r) => r \in Waiting \/ Served(r) \/ Overruled(r)

LEMMA SourceIsOwn ==
  ASSUME FlatRequests, ScanBinds, NEW r \in Request, Findable(r)
  PROVE  dirty[Link(r)[1]] /\ wires[Link(r)[1]] = Link(r)[1] /\ Link(r)[1] # Link(r)[2]
<1>1. Link(r)[1] \in Port
  BY LinkPorts
<1>2. dirty[Link(r)[1]]
  <2> SUFFICES ASSUME ~dirty[Link(r)[1]] PROVE FALSE
    OBVIOUS
  <2>1. PICK q \in Request \ unasked :
          Findable(q) /\ Link(q) = <<wires[Link(r)[1]], Link(r)[1]>>
    BY <1>1 DEF ScanBinds
  <2>2. Link(q)[2] = Link(r)[1]
    BY <2>1
  <2> QED
    BY <2>1, <2>2 DEF FlatRequests
<1> QED
  BY <1>1, <1>2 DEF ScanBinds, FlatRequests

(* After the scan every request made that finds its port is bound, so that *)
(* an erase takes away nothing that is still to be done.                   *)
LEMMA BindsStay ==
  ASSUME Linkage, Linkage', ScanBinds, UNCHANGED portVars,
         [ScheduleNext]_allVars, ~ConnectFound
  PROVE  ScanBinds'
<1>1. \A r : Bound(r)' <=> Bound(r)
  BY DEF Bound, portVars
<1>2. unasked' \subseteq unasked
  BY DEF ScheduleNext, Schedule, BeginConnectAll, ConnectStep, NextRequest, EndScan,
         EraseNoted, ErasePastEnd, EndErase, ConnectReturns, allVars, connVars
<1>3. \A p \in Port :
        IF dirty'[p] THEN wires'[p] = p
        ELSE \E r \in Request \ unasked' : Findable(r) /\ Link(r) = <<wires'[p], p>>
  BY <1>2 DEF ScanBinds, portVars
<1>4. /\ DOMAIN connection_schedules = 1 .. Len(connection_schedules)
      /\ Len(connection_schedules) \in Nat /\ conn.i \in Nat \ {0} /\ conn.found \in Nat \ {0}
      /\ \A j \in DOMAIN connection_schedules : connection_schedules[j] \in Request \ unasked
  BY PlacesOfRequests DEF Linkage, Listed
<1>5. \A j \in DOMAIN connection_schedules' : connection_schedules'[j] \in Request \ unasked'
  <2>1. connection_schedules' \in Seq(Request)
    BY DEF Linkage, ConnectTypeOK
  <2> QED
    BY <2>1 DEF Linkage, Listed
<1>6. ASSUME conn.at = "idle", NEW r \in Request, Schedule(r) PROVE ScanBinds'
  <2>1. conn' = conn /\ unasked' = unasked \ {r}
    BY <1>6 DEF Schedule
  <2>2. Waiting' = Waiting \cup {r}
    BY <1>6, ScheduleAppends DEF Waiting, Linkage
  <2> QED
    BY <1>1, <1>3, <1>6, <2>1, <2>2 DEF ScanBinds, NotConnecting
<1>7. CASE BeginConnectAll
  <2>1. /\ conn = NotConnecting /\ conn'.i = 1 /\ conn'.found = 1
        /\ conn'.at \in {"done", "scan"} /\ UNCHANGED <<connection_schedules, unasked>>
    BY <1>7 DEF ScanBinds, BeginConnectAll, NotConnecting
  <2>2. \A j \in DOMAIN connection_schedules : ~Passed(j)'
    BY <1>4, <2>1 DEF Passed
  <2> QED
    BY <1>1, <1>3, <2>1, <2>2 DEF ScanBinds, Waiting
<1>8. CASE NextRequest
  <2>1. /\ conn'.i = conn.i + 1 /\ conn'.found = 1 /\ conn'.at = "scan" /\ conn.at = "scan"
        /\ UNCHANGED <<connection_schedules, unasked>>
    BY <1>8 DEF Linkage, NextRequest, Scanning, ConnectTypeOK
  <2>2. conn.found > 1 \/ ~Findable(connection_schedules[conn.i])
    <3>1. /\ conn.found > Len(connection_schedules[conn.i].found)
          /\ connection_schedules[conn.i].found \in Seq(Port)
      BY <1>8, ScannedRequest, ConnectAssumption DEF Linkage, NextRequest, Scanned
    <3> QED
      BY <1>4, <3>1 DEF Findable
  <2>3. \A j \in DOMAIN connection_schedules :
          Findable(connection_schedules[j]) => (Passed(j)' <=> Passed(j))
    BY <1>4, <2>1, <2>2 DEF Passed
  <2> QED
    BY <1>1, <1>3, <2>1, <2>3 DEF ScanBinds, Waiting
<1>9. CASE EndScan
  <2>1. /\ conn'.at = "erase" /\ conn.at = "scan" /\ conn.i > Len(connection_schedules)
        /\ UNCHANGED <<connection_schedules, unasked>>
    BY <1>9 DEF EndScan, Linkage, ConnectTypeOK
  <2>2. \A j \in DOMAIN connection_schedules : Passed(j)
    BY <1>4, <2>1 DEF Passed
  <2> QED
    BY <1>1, <1>3, <2>1, <2>2 DEF ScanBinds, Waiting
<1>10. CASE EraseNoted \/ ErasePastEnd \/ EndErase
  <2>1. conn.at = "erase" /\ conn'.at # "idle" /\ unasked' = unasked
    BY <1>10 DEF EraseNoted, ErasePastEnd, EndErase, Linkage, ConnectTypeOK
  <2>2. \A r \in Request \ unasked : Findable(r) => Bound(r)
    BY <2>1 DEF ScanBinds, Waiting
  <2> QED
    BY <1>1, <1>3, <1>5, <2>1, <2>2 DEF ScanBinds
<1>11. CASE ConnectReturns
  <2>1. conn' = NotConnecting /\ UNCHANGED <<connection_schedules, unasked>>
    BY <1>11 DEF ConnectReturns
  <2> QED
    BY <1>1, <1>3, <2>1 DEF ScanBinds, Waiting, NotConnecting
<1>12. CASE UNCHANGED allVars
  <2>1. UNCHANGED <<connection_schedules, unasked, conn>>
    BY <1>12 DEF allVars, connVars
  <2> QED
    BY <1>1, <1>3, <2>1 DEF ScanBinds, Waiting, Passed
<1> QED
  BY <1>6, <1>7, <1>8, <1>9, <1>10, <1>11, <1>12 DEF ScheduleNext, ConnectStep

LEMMA BindsMove ==
  ASSUME OnePortEach, FlatRequests, Linkage, ScanBinds, ConnectFound
  PROVE  ScanBinds'
<1>1. /\ conn.i \in DOMAIN connection_schedules /\ Scanned = connection_schedules[conn.i]
      /\ Scanned \in Request \ unasked /\ Scanned.found \in Seq(Port)
      /\ conn.found <= Len(Scanned.found)
      /\ conn.i \in Nat \ {0} /\ conn.found \in Nat \ {0}
  BY PlacesOfRequests, ScannedRequest, ConnectAssumption
     DEF Linkage, Listed, ConnectFound, Scanned
<1>2. conn.found = 1 /\ Findable(Scanned)
  BY <1>1 DEF OnePortEach, Findable
<1>3. /\ conn'.i = conn.i /\ conn'.found = 2 /\ conn'.at = "scan" /\ conn.at = "scan"
      /\ UNCHANGED <<connection_schedules, unasked>>
  BY <1>2 DEF Linkage, ConnectTypeOK, ConnectFound, Scanning
<1>4. \A j \in DOMAIN connection_schedules : Passed(j)' => Passed(j) \/ j = conn.i
  BY <1>1, <1>3, PlacesOfRequests DEF Passed, Linkage
<1> DEFINE src == Link(Scanned)[1]
           dst == Link(Scanned)[2]
<1>5. /\ src \in Port /\ dst \in Port /\ Link(Scanned) = <<src, dst>> /\ src # dst
      /\ wires[src] = src
  BY <1>1, <1>2, LinkPorts, SourceIsOwn
<1>6. Connect(src, dst) \/ (Type[dst] # "PORT_WIRE" /\ UNCHANGED portVars)
  BY <1>2 DEF ConnectFound, Link
<1>7. /\ \/ Type[dst] # "PORT_WIRE" /\ wires' = wires /\ dirty' = dirty
         \/ \A p \in Port : /\ wires'[p] = IF p = dst THEN src ELSE wires[p]
                            /\ dirty'[p] = IF p = dst THEN FALSE ELSE dirty[p]
  BY <1>5, <1>6 DEF Connect, Repointed, Linkage, TypeInv, PortTypeOK, portVars
<1>8. Link(Scanned)[2] = dst
  OBVIOUS
<1> HIDE DEF src, dst
<1>9. \A p \in Port :
        IF dirty'[p] THEN wires'[p] = p
        ELSE \E r \in Request \ unasked : Findable(r) /\ Link(r) = <<wires'[p], p>>
  <2> TAKE p \in Port
  <2>1. CASE p = dst
    BY <1>1, <1>2, <1>5, <1>7, <2>1 DEF ScanBinds
  <2>2. CASE p # dst
    BY <1>7, <2>2 DEF ScanBinds
  <2> QED
    BY <2>1, <2>2
<1>10. \A r \in Request : Findable(r) /\ (Bound(r) \/ r = Scanned) => Bound(r)'
  <2>1. \A r \in Request : Findable(r) => Link(r)[2] \in Port
    BY LinkPorts
  <2> QED
    BY <1>5, <1>7, <1>8, <2>1 DEF Bound
<1>11. \A j \in DOMAIN connection_schedules : connection_schedules[j] \in Request
  BY PlacesOfRequests DEF Linkage
<1> QED
  BY <1>1, <1>3, <1>4, <1>9, <1>10, <1>11 DEF ScanBinds, Waiting

LEMMA BindsInit == PortInit /\ ConnectInit => ScanBinds
  BY DEF PortInit, ConnectInit, ScanBinds, NotConnecting

LEMMA BindsStep ==
  ASSUME OnePortEach, FlatRequests
  PROVE  Linkage /\ ScanBinds /\ [ScheduleNext]_allVars => ScanBinds'
<1> SUFFICES ASSUME Linkage, ScanBinds, [ScheduleNext]_allVars PROVE ScanBinds'
  OBVIOUS
<1>1. CASE ConnectFound
  BY <1>1, BindsMove
<1>2. CASE ~ConnectFound
  <2>1. UNCHANGED portVars
    BY <1>2 DEF ScheduleNext, Schedule, BeginConnectAll, ConnectStep, NextRequest, EndScan,
                EraseNoted, ErasePastEnd, EndErase, ConnectReturns, allVars
  <2> QED
    BY <1>2, <2>1, LinkageStep, BindsStay
<1> QED
  BY <1>1, <1>2

(* In a crowd too no request that finds its port is lost: a scan links all *)
(* that wait before anything is erased, so that what is erased wrongly was *)
(* served, or names no port that exists.                                   *)
THEOREM NoLinkIsForgotten ==
  ASSUME OnePortEach, FlatRequests
  PROVE  ScheduleSpec => []NoLinkForgotten
<1>1. ScheduleSpec => [](Linkage /\ ScanBinds)
  BY LinkageInit, LinkageStep, BindsInit, BindsStep, PTL DEF ScheduleSpec, allVars
<1>2. ASSUME Linkage, ScanBinds PROVE NoLinkForgotten
  <2> SUFFICES ASSUME NEW r \in Request \ unasked, Findable(r), r \notin Waiting
               PROVE  Served(r) \/ Overruled(r)
    BY DEF NoLinkForgotten
  <2>1. Bound(r)
    BY <1>2 DEF ScanBinds
  <2>2. \A q \in Request : Findable(q) => wires[Link(q)[1]] = Link(q)[1]
    BY <1>2, SourceIsOwn
  <2>3. \A p \in Port : ~dirty[p] =>
          \E q \in Request \ unasked : Findable(q) /\ Link(q) = <<wires[p], p>>
    BY <1>2 DEF ScanBinds
  <2> QED
    BY <2>1, <2>2, <2>3, BoundIsServed
<1> QED
  BY <1>1, <1>2, PTL

-----------------------------------------------------------------------------
(* The two indices noted of q and of the request r behind it, and what is  *)
(* left of them after each erase.                                          *)
Missing(q, r) ==
  /\ conn.at = "erase"
  /\ \/ \E a, b \in DOMAIN connection_schedules :
          /\ conn.erase_index = <<a, b>> /\ a < b /\ b + 1 \in DOMAIN connection_schedules
          /\ q = connection_schedules[b] /\ r = connection_schedules[b + 1]
     \/ \E b \in DOMAIN connection_schedules :
          /\ conn.erase_index = <<b>> /\ b > 1
          /\ q = connection_schedules[b - 1] /\ r = connection_schedules[b]
     \/ conn.erase_index = <<>> /\ q \in Waiting /\ r \notin Waiting

Missed(q, r) == conn.at = "done" /\ q \in Waiting /\ r \notin Waiting

LEMMA ErasedPlaces ==
  ASSUME ConnectTypeOK, EraseNoted, NEW e, e = Head(conn.erase_index)
  PROVE  /\ e \in 1 .. Len(connection_schedules) /\ Len(connection_schedules) \in Nat
         /\ DOMAIN connection_schedules = 1 .. Len(connection_schedules)
         /\ DOMAIN connection_schedules' = 1 .. Len(connection_schedules) - 1
         /\ \A j \in 1 .. Len(connection_schedules) - 1 :
              connection_schedules'[j] = connection_schedules[IF j < e THEN j ELSE j + 1]
         /\ conn'.at = "erase" /\ conn'.erase_index = Tail(conn.erase_index)
<1>1. conn'.at = "erase" /\ conn'.erase_index = Tail(conn.erase_index)
  BY DEF EraseNoted, ConnectTypeOK
<1> QED
  BY <1>1, ErasedPart

LEMMA Indices ==
  /\ \A b : <<b>> # <<>> /\ Head(<<b>>) = b /\ Tail(<<b>>) = <<>>
  /\ \A a, b : <<a, b>> # <<>> /\ Head(<<a, b>>) = a /\ Tail(<<a, b>>) = <<b>>
  OBVIOUS

LEMMA BehindIsMissing ==
  ASSUME Linkage, [ScheduleNext]_allVars, NEW q \in Request, NEW r \in Request, Behind(q, r)
  PROVE  Missing(q, r)' \/ UNCHANGED allVars
<1>1. /\ conn.at = "scan" /\ conn.i > Len(connection_schedules)
      /\ conn.erase_index \in Seq(Nat \ {0}) /\ Len(conn.erase_index) = 2
      /\ DOMAIN connection_schedules = 1 .. Len(connection_schedules)
      /\ Len(connection_schedules) \in Nat /\ conn.i \in Nat
  BY PlacesOfRequests DEF Behind, Linkage
<1> DEFINE a == conn.erase_index[1]
           b == conn.erase_index[2]
<1>2. /\ a \in Nat \ {0} /\ b \in Nat \ {0} /\ a < b /\ b < Len(connection_schedules)
      /\ conn.erase_index = <<a, b>>
      /\ q = connection_schedules[b] /\ r = connection_schedules[b + 1]
  BY <1>1 DEF Behind
<1> HIDE DEF a, b
<1>3. /\ a \in DOMAIN connection_schedules /\ b \in DOMAIN connection_schedules
      /\ b + 1 \in DOMAIN connection_schedules
  BY <1>1, <1>2
<1>4. EndScan \/ UNCHANGED allVars
  BY <1>1 DEF ScheduleNext, BeginConnectAll, ConnectStep, ConnectFound, NextRequest, Scanning,
              EraseNoted, ErasePastEnd, EndErase, ConnectReturns
<1>5. ASSUME EndScan PROVE Missing(q, r)'
  <2>1. /\ conn'.at = "erase" /\ conn'.erase_index = <<a, b>>
        /\ connection_schedules' = connection_schedules
    BY <1>2, <1>5 DEF EndScan, Linkage, ConnectTypeOK
  <2> QED
    BY <1>2, <1>3, <2>1 DEF Missing
<1> QED
  BY <1>4, <1>5

LEMMA MissingGoesOn ==
  ASSUME Linkage, [ScheduleNext]_allVars, NEW q \in Request, NEW r \in Request, Missing(q, r)
  PROVE  Missing(q, r)' \/ Missed(q, r)'
<1>1. /\ conn.at = "erase" /\ DOMAIN connection_schedules = 1 .. Len(connection_schedules)
      /\ Len(connection_schedules) \in Nat
  BY PlacesOfRequests DEF Missing, Linkage
<1>2. EraseNoted \/ ErasePastEnd \/ EndErase \/ UNCHANGED allVars
  BY <1>1 DEF ScheduleNext, BeginConnectAll, ConnectStep, ConnectFound, NextRequest, Scanning,
              EndScan, ConnectReturns
<1>3. CASE UNCHANGED allVars
  <2>1. UNCHANGED <<connection_schedules, conn>>
    BY <1>3 DEF allVars, connVars
  <2> QED
    BY <2>1 DEF Missing, Waiting
<1>4. CASE conn.erase_index = <<>> /\ q \in Waiting /\ r \notin Waiting
  <2>1. EndErase \/ UNCHANGED allVars
    BY <1>2, <1>4 DEF EraseNoted, ErasePastEnd
  <2>2. CASE EndErase
    <3>1. conn'.at = "done" /\ connection_schedules' = connection_schedules
      BY <2>2 DEF EndErase, Linkage, ConnectTypeOK
    <3> QED
      BY <1>4, <3>1 DEF Missed, Waiting
  <2> QED
    BY <1>3, <2>1, <2>2
<1>5. CASE \E a, b \in DOMAIN connection_schedules :
             /\ conn.erase_index = <<a, b>> /\ a < b /\ b + 1 \in DOMAIN connection_schedules
             /\ q = connection_schedules[b] /\ r = connection_schedules[b + 1]
  <2>1. PICK a, b \in DOMAIN connection_schedules :
             /\ conn.erase_index = <<a, b>> /\ a < b /\ b + 1 \in DOMAIN connection_schedules
             /\ q = connection_schedules[b] /\ r = connection_schedules[b + 1]
    BY <1>5
  <2>2. /\ conn.erase_index # <<>> /\ Head(conn.erase_index) = a
        /\ Tail(conn.erase_index) = <<b>>
    BY <2>1, Indices
  <2>3. EraseNoted \/ UNCHANGED allVars
    BY <1>1, <1>2, <2>1, <2>2 DEF ErasePastEnd, EndErase
  <2>4. CASE EraseNoted
    <3>1. /\ DOMAIN connection_schedules' = 1 .. Len(connection_schedules) - 1
          /\ \A j \in 1 .. Len(connection_schedules) - 1 :
               connection_schedules'[j] = connection_schedules[IF j < a THEN j ELSE j + 1]
          /\ conn'.at = "erase" /\ conn'.erase_index = <<b>>
      BY <2>2, <2>4, ErasedPlaces DEF Linkage
    <3>2. b > 1 /\ b \in DOMAIN connection_schedules'
      BY <1>1, <2>1, <3>1
    <3>3. connection_schedules'[b - 1] = q /\ connection_schedules'[b] = r
      BY <1>1, <2>1, <3>1
    <3> QED
      BY <3>1, <3>2, <3>3 DEF Missing
  <2> QED
    BY <1>3, <2>3, <2>4
<1>6. CASE \E b \in DOMAIN connection_schedules :
             /\ conn.erase_index = <<b>> /\ b > 1
             /\ q = connection_schedules[b - 1] /\ r = connection_schedules[b]
  <2>1. PICK b \in DOMAIN connection_schedules :
             /\ conn.erase_index = <<b>> /\ b > 1
             /\ q = connection_schedules[b - 1] /\ r = connection_schedules[b]
    BY <1>6
  <2>2. /\ conn.erase_index # <<>> /\ Head(conn.erase_index) = b
        /\ Tail(conn.erase_index) = <<>>
    BY <2>1, Indices
  <2>3. EraseNoted \/ UNCHANGED allVars
    BY <1>1, <1>2, <2>1, <2>2 DEF ErasePastEnd, EndErase
  <2>4. CASE EraseNoted
    <3>1. /\ DOMAIN connection_schedules' = 1 .. Len(connection_schedules) - 1
          /\ \A j \in 1 .. Len(connection_schedules) - 1 :
               connection_schedules'[j] = connection_schedules[IF j < b THEN j ELSE j + 1]
          /\ conn'.at = "erase" /\ conn'.erase_index = <<>>
      BY <2>2, <2>4, ErasedPlaces DEF Linkage
    <3>2. b - 1 \in DOMAIN connection_schedules' /\ connection_schedules'[b - 1] = q
      BY <1>1, <2>1, <3>1
    <3>3. \A j \in DOMAIN connection_schedules' : connection_schedules'[j] # r
      BY <1>1, <2>1, <3>1 DEF Linkage, Listed
    <3> QED
      BY <3>1, <3>2, <3>3 DEF Missing, Waiting
  <2> QED
    BY <1>3, <2>3, <2>4
<1> QED
  BY <1>4, <1>5, <1>6 DEF Missing

(* A call that noted two indices, with a request r behind the second, q,   *)
(* can only erase until it is done with q still waiting and r gone.  What  *)
(* is left of SecondEraseMisses is that the call goes on.                  *)
THEOREM SecondEraseGoesWrong ==
  ASSUME NEW q \in Request, NEW r \in Request
  PROVE  ScheduleSpec =>
           [][/\ Behind(q, r) => Missing(q, r)'
              /\ Missing(q, r) => Missing(q, r)' \/ Missed(q, r)']_allVars
<1>1. ScheduleSpec => []Linkage
  BY LinkageInit, LinkageStep, PTL DEF ScheduleSpec, allVars
<1>2. ASSUME Linkage, [ScheduleNext]_allVars
      PROVE  [/\ Behind(q, r) => Missing(q, r)'
              /\ Missing(q, r) => Missing(q, r)' \/ Missed(q, r)']_allVars
  BY <1>2, BehindIsMissing, MissingGoesOn
<1> QED
  BY <1>1, <1>2, PTL DEF ScheduleSpec, allVars
=============================================================================
