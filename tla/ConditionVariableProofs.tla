----------------------- MODULE ConditionVariableProofs ----------------------
(***************************************************************************)
(* Proofs about module ConditionVariable, for every finite set of waiters, *)
(* every target and every bound on the counter.                            *)
(***************************************************************************)
EXTENDS ConditionVariable, FiniteSetTheorems, TLAPS

(* The waiters that mWaitersCount counts.                                  *)
Counted ==
  {w \in Waiter : pc[w] \in {"unlock", "wait", "blocked", "woken by one", "woken by all"}}

CountsWaiters == mWaitersCount = Cardinality(Counted)

(* A notify_all has returned since the condition of w came true.           *)
Announced(w) == announced >= Target[w]

(* Counted, and not yet in WaitForMultipleObjects.                         *)
AboutToWait == {w \in Waiter : pc[w] \in {"unlock", "wait"}}

(* A waiter that was notified before it waits finds ALL set, ...           *)
FindsAll == \A w \in AboutToWait : Announced(w) => "ALL" \in events \/ late

(* ... because every reset still to come was overtaken by that notify_all: *)
(* whoever is about to reset counted nobody, so w was counted in later.    *)
ResetsAreLate ==
  \A w \in AboutToWait : Announced(w) =>
    \A r \in Waiter : pc[r] = "reset" => r \in overtaken \/ late

Place ==
  {"lock", "test", "unlock", "wait", "blocked", "woken by one", "woken by all", "reset",
   "done", "increment", "one", "all", "set one", "set all"}

PcTyped == pc \in [Thread -> Place]

IInv ==
  /\ TypeOK /\ PcTyped
  /\ CountsWaiters
  /\ FindsAll
  /\ ResetsAreLate
  /\ SleepsOnlyByLateReset

-----------------------------------------------------------------------------
LEMMA SomeWaiters ==
  ASSUME NEW S \in SUBSET Waiter
  PROVE  /\ IsFiniteSet(S)
         /\ Cardinality(S) \in 0 .. Cardinality(Waiter)
<1>1. IsFiniteSet(Waiter)
  BY ConditionVariableAssumption
<1>2. IsFiniteSet(S) /\ Cardinality(S) <= Cardinality(Waiter)
  BY <1>1, FS_Subset
<1>3. Cardinality(S) \in Nat /\ Cardinality(Waiter) \in Nat
  BY <1>1, <1>2, FS_CardinalityType
<1> QED
  BY <1>2, <1>3

LEMMA CountedAreWaiters == Counted \in SUBSET Waiter
  BY DEF Counted

(* A waiter that counts itself in, or out, changes Counted by one.         *)
LEMMA CountedIn ==
  ASSUME NEW w \in Waiter, w \notin Counted, Counted' = Counted \cup {w}, CountsWaiters
  PROVE  Cardinality(Counted') = mWaitersCount + 1
  BY CountedAreWaiters, SomeWaiters, FS_AddElement DEF CountsWaiters

LEMMA CountedOut ==
  ASSUME NEW w \in Waiter, w \in Counted, Counted' = Counted \ {w}, CountsWaiters
  PROVE  Cardinality(Counted') = mWaitersCount - 1
  BY CountedAreWaiters, SomeWaiters, FS_RemoveElement DEF CountsWaiters

(* When the count is zero, nobody is counted.                              *)
LEMMA NobodyCounted ==
  ASSUME CountsWaiters, mWaitersCount = 0
  PROVE  Counted = {}
  BY CountedAreWaiters, SomeWaiters, FS_EmptySet DEF CountsWaiters

-----------------------------------------------------------------------------
LEMMA Initially == Init => IInv
<1> SUFFICES ASSUME Init PROVE IInv
  OBVIOUS
<1>1. Counted = {} /\ AboutToWait = {} /\ Blocked = {}
  BY DEF Init, Counted, AboutToWait, Blocked, Thread
<1>2. CountsWaiters
  BY <1>1, FS_EmptySet DEF Init, CountsWaiters
<1>3. PcTyped
  BY DEF Init, PcTyped, Place
<1>4. mWaitersCount \in 0 .. Cardinality(Waiter)
  BY <1>1, <1>2, SomeWaiters, CountedAreWaiters DEF CountsWaiters
<1>5. TypeOK
  <2>1. /\ \A w \in Waiter : pc[w] = "lock"
        /\ pc[Notifier] = "lock"
    BY DEF Init, Thread
  <2>2. count \in 0 .. MaxCount /\ announced \in 0 .. count
    BY ConditionVariableAssumption DEF Init
  <2>3. owner \in Thread \cup {Nobody} /\ events \subseteq {"ONE", "ALL"} /\ late \in BOOLEAN
    BY DEF Init
  <2>4. overtaken \subseteq {w \in Waiter : pc[w] = "reset"}
    BY DEF Init
  <2> QED
    BY <1>4, <2>1, <2>2, <2>3, <2>4 DEF TypeOK
<1> QED
  BY <1>1, <1>2, <1>3, <1>5 DEF IInv, FindsAll, ResetsAreLate, SleepsOnlyByLateReset

-----------------------------------------------------------------------------
(* Every action but SetOne and SetAll moves one thread.                    *)
LEMMA Moved ==
  ASSUME PcTyped, NEW t \in Thread, NEW from, NEW to \in Place, Goes(t, from, to)
  PROVE  /\ PcTyped'
         /\ pc[t] = from /\ pc'[t] = to
         /\ \A x \in Thread \ {t} : pc'[x] = pc[x]
  BY DEF Goes, PcTyped

LEMMA WaiterMoved ==
  ASSUME IInv, NEW w \in Waiter, NEW from, NEW to \in Place, Goes(w, from, to)
  PROVE  /\ PcTyped' /\ pc[w] = from /\ pc'[w] = to
         /\ \A x \in Waiter \ {w} : pc'[x] = pc[x]
         /\ pc'[Notifier] = pc[Notifier]
  BY Moved, ConditionVariableAssumption DEF IInv, Thread

LEMMA NotifierMoved ==
  ASSUME IInv, NEW from, NEW to \in Place, Goes(Notifier, from, to)
  PROVE  /\ PcTyped' /\ pc[Notifier] = from /\ pc'[Notifier] = to
         /\ \A x \in Waiter : pc'[x] = pc[x]
  BY Moved, ConditionVariableAssumption DEF IInv, Thread

-----------------------------------------------------------------------------
(* Types: what a move of a waiter, or of the notifier, leaves to check.    *)
WaiterPlace ==
  {"lock", "test", "unlock", "wait", "blocked", "woken by one", "woken by all", "reset",
   "done"}

NotifierPlace == {"lock", "increment", "one", "all", "set one", "set all", "unlock"}

SharedTyped ==
  owner \in Thread \cup {Nobody} /\ events \subseteq {"ONE", "ALL"} /\ late \in BOOLEAN

LEMMA CountTyped ==
  ASSUME CountsWaiters' PROVE mWaitersCount' \in 0 .. Cardinality(Waiter)
<1>1. Counted' \in SUBSET Waiter
  BY DEF Counted
<1> QED
  BY <1>1, SomeWaiters DEF CountsWaiters

LEMMA WaiterTypes ==
  ASSUME IInv, NEW w \in Waiter, NEW from \in Place, NEW to \in WaiterPlace,
         Goes(w, from, to), from # "reset", UNCHANGED <<count, announced, overtaken>>,
         CountsWaiters', SharedTyped'
  PROVE  TypeOK' /\ PcTyped'
<1>1. to \in Place
  BY DEF Place, WaiterPlace
<1>2. /\ PcTyped' /\ pc[w] = from /\ pc'[w] = to
      /\ \A x \in Waiter \ {w} : pc'[x] = pc[x]
      /\ pc'[Notifier] = pc[Notifier]
  BY <1>1, WaiterMoved
<1>3. \A x \in Waiter : pc'[x] \in WaiterPlace
  BY <1>2 DEF IInv, TypeOK, WaiterPlace
<1>4. overtaken' \subseteq {x \in Waiter : pc'[x] = "reset"}
  BY <1>2 DEF IInv, TypeOK
<1>5. count' \in 0 .. MaxCount /\ announced' \in 0 .. count' /\ pc'[Notifier] \in NotifierPlace
  BY <1>2 DEF IInv, TypeOK, NotifierPlace
<1> QED
  BY <1>2, <1>3, <1>4, <1>5, CountTyped DEF TypeOK, SharedTyped, WaiterPlace, NotifierPlace

LEMMA NotifierTypes ==
  ASSUME IInv, NEW from \in Place, NEW to \in NotifierPlace,
         Goes(Notifier, from, to), UNCHANGED <<overtaken, mWaitersCount>>,
         count' \in 0 .. MaxCount, announced' \in 0 .. count', SharedTyped'
  PROVE  TypeOK' /\ PcTyped'
<1>1. to \in Place
  BY DEF Place, NotifierPlace
<1>2. PcTyped' /\ pc'[Notifier] = to /\ \A x \in Waiter : pc'[x] = pc[x]
  BY <1>1, NotifierMoved
<1>3. \A x \in Waiter : pc'[x] \in WaiterPlace
  BY <1>2 DEF IInv, TypeOK, WaiterPlace
<1>4. overtaken' \subseteq {x \in Waiter : pc'[x] = "reset"}
  BY <1>2 DEF IInv, TypeOK
<1>5. mWaitersCount' \in 0 .. Cardinality(Waiter)
  BY DEF IInv, TypeOK
<1> QED
  BY <1>2, <1>3, <1>4, <1>5 DEF TypeOK, SharedTyped, WaiterPlace, NotifierPlace

-----------------------------------------------------------------------------
(* A thread moves between two places that are not counted, which changes   *)
(* nothing that the invariant relates.                                     *)
Related == CountsWaiters /\ FindsAll /\ ResetsAreLate /\ SleepsOnlyByLateReset

LEMMA UncountedMoved ==
  ASSUME IInv, UNCHANGED <<mWaitersCount, events, history>>,
         Counted' = Counted, AboutToWait' = AboutToWait, Blocked' = Blocked,
         \A r \in Waiter : pc'[r] = "reset" => pc[r] = "reset"
  PROVE  Related'
  BY DEF IInv, Related, CountsWaiters, FindsAll, ResetsAreLate, SleepsOnlyByLateReset,
         Announced, history

LEMMA NotifierOnlyMoved ==
  ASSUME IInv, NEW from, NEW to \in Place, Goes(Notifier, from, to),
         UNCHANGED <<mWaitersCount, events, history>>
  PROVE  Related'
<1>1. \A x \in Waiter : pc'[x] = pc[x]
  BY NotifierMoved
<1>2. Counted' = Counted /\ AboutToWait' = AboutToWait /\ Blocked' = Blocked
  BY <1>1 DEF Counted, AboutToWait, Blocked
<1> QED
  BY <1>1, <1>2, UncountedMoved

LEMMA WaiterLocksKeeps ==
  ASSUME IInv, NEW w \in Waiter, WaiterLocks(w) PROVE IInv'
<1>1. "lock" \in Place /\ "test" \in Place /\ "test" \in WaiterPlace /\ Goes(w, "lock", "test")
  BY DEF WaiterLocks, Place, WaiterPlace
<1>2. pc[w] = "lock" /\ pc'[w] = "test" /\ \A x \in Waiter \ {w} : pc'[x] = pc[x]
  BY <1>1, WaiterMoved
<1>3. Related'
  <2>1. Counted' = Counted /\ AboutToWait' = AboutToWait /\ Blocked' = Blocked
    BY <1>2 DEF Counted, AboutToWait, Blocked
  <2> QED
    BY <1>2, <2>1, UncountedMoved DEF WaiterLocks
<1>4. SharedTyped'
  BY DEF IInv, TypeOK, SharedTyped, WaiterLocks, Lock, Thread, history
<1>5. TypeOK' /\ PcTyped'
  BY <1>1, <1>3, <1>4, WaiterTypes DEF WaiterLocks, history, Related
<1> QED
  BY <1>3, <1>5 DEF IInv, Related

LEMMA WaiterReturnsKeeps ==
  ASSUME IInv, NEW w \in Waiter, WaiterReturns(w) PROVE IInv'
<1>1. "test" \in Place /\ "done" \in Place /\ "done" \in WaiterPlace /\ Goes(w, "test", "done")
  BY DEF WaiterReturns, Place, WaiterPlace
<1>2. pc[w] = "test" /\ pc'[w] = "done" /\ \A x \in Waiter \ {w} : pc'[x] = pc[x]
  BY <1>1, WaiterMoved
<1>3. Related'
  <2>1. Counted' = Counted /\ AboutToWait' = AboutToWait /\ Blocked' = Blocked
    BY <1>2 DEF Counted, AboutToWait, Blocked
  <2> QED
    BY <1>2, <2>1, UncountedMoved DEF WaiterReturns
<1>4. SharedTyped'
  BY DEF IInv, TypeOK, SharedTyped, WaiterReturns, Unlock, Thread, history
<1>5. TypeOK' /\ PcTyped'
  BY <1>1, <1>3, <1>4, WaiterTypes DEF WaiterReturns, history, Related
<1> QED
  BY <1>3, <1>5 DEF IInv, Related

LEMMA CountInKeeps ==
  ASSUME IInv, NEW w \in Waiter, CountIn(w) PROVE IInv'
<1>1. "test" \in Place /\ "unlock" \in Place /\ "unlock" \in WaiterPlace /\ Goes(w, "test", "unlock")
  BY DEF CountIn, Place, WaiterPlace
<1>2. pc[w] = "test" /\ pc'[w] = "unlock" /\ \A x \in Waiter \ {w} : pc'[x] = pc[x]
  BY <1>1, WaiterMoved
<1>3. Related'
  <2>1. /\ w \notin Counted /\ Counted' = Counted \cup {w}
        /\ AboutToWait' = AboutToWait \cup {w} /\ Blocked' = Blocked
    BY <1>2 DEF Counted, AboutToWait, Blocked
  <2>2. CountsWaiters'
    BY <2>1, CountedIn DEF IInv, CountsWaiters, CountIn
  <2>3. ~Announced(w)'
    <3>1. count < Target[w] /\ announced' = announced
      BY DEF CountIn, history
    <3>2. count \in 0 .. MaxCount /\ announced \in 0 .. count
      BY DEF IInv, TypeOK
    <3>3. Target[w] \in Nat /\ MaxCount \in Nat
      BY ConditionVariableAssumption
    <3> QED
      BY <3>1, <3>2, <3>3 DEF Announced
  <2>4. FindsAll' /\ ResetsAreLate' /\ SleepsOnlyByLateReset'
    BY <1>2, <2>1, <2>3
    DEF IInv, FindsAll, ResetsAreLate, SleepsOnlyByLateReset, Announced, CountIn, history
  <2> QED
    BY <2>2, <2>4 DEF Related
<1>4. SharedTyped'
  BY DEF IInv, TypeOK, SharedTyped, CountIn, history
<1>5. TypeOK' /\ PcTyped'
  BY <1>1, <1>3, <1>4, WaiterTypes DEF CountIn, history, Related
<1> QED
  BY <1>3, <1>5 DEF IInv, Related

LEMMA WaitUnlocksKeeps ==
  ASSUME IInv, NEW w \in Waiter, WaitUnlocks(w) PROVE IInv'
<1>1. "unlock" \in Place /\ "wait" \in Place /\ "wait" \in WaiterPlace /\ Goes(w, "unlock", "wait")
  BY DEF WaitUnlocks, Place, WaiterPlace
<1>2. pc[w] = "unlock" /\ pc'[w] = "wait" /\ \A x \in Waiter \ {w} : pc'[x] = pc[x]
  BY <1>1, WaiterMoved
<1>3. Related'
  <2>1. Counted' = Counted /\ AboutToWait' = AboutToWait /\ Blocked' = Blocked
    BY <1>2 DEF Counted, AboutToWait, Blocked
  <2> QED
    BY <1>2, <2>1, UncountedMoved DEF WaitUnlocks
<1>4. SharedTyped'
  BY DEF IInv, TypeOK, SharedTyped, WaitUnlocks, Unlock, Thread, history
<1>5. TypeOK' /\ PcTyped'
  BY <1>1, <1>3, <1>4, WaiterTypes DEF WaitUnlocks, history, Related
<1> QED
  BY <1>3, <1>5 DEF IInv, Related

(* A waiter blocks only when nothing is set, so that no notify_all that it *)
(* has not heard was for it.                                               *)
LEMMA WaitForEventsKeeps ==
  ASSUME IInv, NEW w \in Waiter, WaitForEvents(w) PROVE IInv'
<1>1. PICK to \in {"woken by one", "woken by all", "blocked"} :
        /\ Goes(w, "wait", to)
        /\ events' \subseteq events /\ ("ALL" \in events => "ALL" \in events')
        /\ to = "blocked" => events = {}
  BY DEF WaitForEvents
<1>2. "wait" \in Place /\ to \in Place /\ to \in WaiterPlace
  BY DEF Place, WaiterPlace
<1>3. pc[w] = "wait" /\ pc'[w] = to /\ \A x \in Waiter \ {w} : pc'[x] = pc[x]
  BY <1>1, <1>2, WaiterMoved
<1>4. Related'
  <2>1. Counted' = Counted /\ AboutToWait' = AboutToWait \ {w} /\ w \in AboutToWait
    BY <1>3 DEF Counted, AboutToWait
  <2>2. Blocked' \subseteq Blocked \cup {w} /\ (w \in Blocked' => to = "blocked")
    BY <1>3 DEF Blocked
  <2>3. CountsWaiters'
    BY <2>1 DEF IInv, CountsWaiters, WaitForEvents
  <2>4. UNCHANGED <<announced, overtaken, late>>
    BY DEF WaitForEvents, history
  <2>5. FindsAll' /\ ResetsAreLate'
    BY <1>1, <1>3, <2>1, <2>4 DEF IInv, FindsAll, ResetsAreLate, Announced
  <2>6. SleepsOnlyByLateReset'
    BY <1>1, <2>1, <2>2, <2>4 DEF IInv, FindsAll, SleepsOnlyByLateReset, Announced
  <2> QED
    BY <2>3, <2>5, <2>6 DEF Related
<1>5. SharedTyped'
  BY <1>1 DEF IInv, TypeOK, SharedTyped, WaitForEvents, history
<1>6. TypeOK' /\ PcTyped'
  BY <1>1, <1>2, <1>4, <1>5, WaiterTypes DEF WaitForEvents, history, Related
<1> QED
  BY <1>4, <1>6 DEF IInv, Related

(* Whoever is about to reset has counted itself out as the last.           *)
LEMMA CountOutKeeps ==
  ASSUME IInv, NEW w \in Waiter, CountOut(w) PROVE IInv'
<1>1. PICK from \in {"woken by one", "woken by all"}, to \in {"lock", "reset"} :
        /\ Goes(w, from, to)
        /\ to = "reset" => mWaitersCount' = 0
  BY DEF CountOut, IsLast
<1>2. from \in Place /\ from # "reset" /\ to \in Place /\ to \in WaiterPlace
  BY DEF Place, WaiterPlace
<1>3. pc[w] = from /\ pc'[w] = to /\ \A x \in Waiter \ {w} : pc'[x] = pc[x]
  BY <1>1, <1>2, WaiterMoved
<1>4. Related'
  <2>1. /\ w \in Counted /\ Counted' = Counted \ {w}
        /\ AboutToWait' = AboutToWait /\ Blocked' = Blocked
    BY <1>3 DEF Counted, AboutToWait, Blocked
  <2>2. CountsWaiters'
    BY <2>1, CountedOut DEF IInv, CountsWaiters, CountOut, OneLess
  <2>3. UNCHANGED <<events, announced, overtaken, late>>
    BY DEF CountOut, history
  <2>4. FindsAll' /\ SleepsOnlyByLateReset'
    BY <2>1, <2>3 DEF IInv, FindsAll, SleepsOnlyByLateReset, Announced
  <2>5. to = "reset" => AboutToWait' = {}
    <3> SUFFICES ASSUME to = "reset" PROVE AboutToWait' = {}
      OBVIOUS
    <3>1. Cardinality(Counted') = 0
      BY <1>1, <2>2 DEF CountsWaiters
    <3>2. Counted' \in SUBSET Waiter
      BY DEF Counted
    <3>3. Counted' = {}
      BY <3>1, <3>2, SomeWaiters, FS_EmptySet
    <3> QED
      BY <3>3 DEF Counted, AboutToWait
  <2>6. ResetsAreLate'
    BY <1>3, <2>1, <2>3, <2>5 DEF IInv, ResetsAreLate, Announced
  <2> QED
    BY <2>2, <2>4, <2>6 DEF Related
<1>5. SharedTyped'
  BY DEF IInv, TypeOK, SharedTyped, CountOut, history
<1>6. TypeOK' /\ PcTyped'
  BY <1>1, <1>2, <1>4, <1>5, WaiterTypes DEF CountOut, history, Related
<1> QED
  BY <1>4, <1>6 DEF IInv, Related

(* A reset that leaves a notified waiter behind is late.                   *)
LEMMA ResetAllKeeps ==
  ASSUME IInv, NEW w \in Waiter, ResetAll(w) PROVE IInv'
<1>1. "lock" \in Place /\ Goes(w, "reset", "lock")
  BY DEF ResetAll, Place
<1>2. /\ PcTyped' /\ pc[w] = "reset" /\ pc'[w] = "lock"
      /\ \A x \in Waiter \ {w} : pc'[x] = pc[x]
      /\ pc'[Notifier] = pc[Notifier]
  BY <1>1, WaiterMoved
<1>3. Counted' = Counted /\ AboutToWait' = AboutToWait /\ Blocked' = Blocked
  BY <1>2 DEF Counted, AboutToWait, Blocked
<1>4. /\ announced' = announced /\ mWaitersCount' = mWaitersCount
      /\ overtaken' = overtaken \ {w} /\ (late \/ w \in overtaken <=> late')
  BY DEF ResetAll
<1>5. CountsWaiters'
  BY <1>3, <1>4 DEF IInv, CountsWaiters
<1>6. FindsAll' /\ SleepsOnlyByLateReset'
  BY <1>2, <1>3, <1>4
  DEF IInv, FindsAll, ResetsAreLate, SleepsOnlyByLateReset, Announced
<1>7. ResetsAreLate'
  BY <1>2, <1>3, <1>4 DEF IInv, ResetsAreLate, Announced
<1>8. TypeOK'
  <2>1. \A x \in Waiter : pc'[x] \in WaiterPlace
    BY <1>2 DEF IInv, TypeOK, WaiterPlace
  <2>2. overtaken' \subseteq {x \in Waiter : pc'[x] = "reset"}
    BY <1>2, <1>4 DEF IInv, TypeOK
  <2>3. SharedTyped'
    BY DEF IInv, TypeOK, SharedTyped, ResetAll
  <2>4. /\ count' \in 0 .. MaxCount /\ announced' \in 0 .. count'
        /\ pc'[Notifier] \in NotifierPlace
    BY <1>2 DEF IInv, TypeOK, NotifierPlace, ResetAll
  <2> QED
    BY <1>5, <2>1, <2>2, <2>3, <2>4, CountTyped
    DEF TypeOK, SharedTyped, WaiterPlace, NotifierPlace
<1> QED
  BY <1>2, <1>5, <1>6, <1>7, <1>8 DEF IInv

-----------------------------------------------------------------------------
LEMMA NotifierLocksKeeps == ASSUME IInv, NotifierLocks PROVE IInv'
<1>1. PICK from \in NotifierPlace, to \in NotifierPlace : Goes(Notifier, from, to)
  BY DEF NotifierLocks, NotifierPlace
<1>2. from \in Place /\ to \in Place
  BY DEF Place, NotifierPlace
<1>3. Related'
  BY <1>1, <1>2, NotifierOnlyMoved DEF NotifierLocks
<1>4. SharedTyped'
  BY DEF IInv, TypeOK, SharedTyped, NotifierLocks, Lock, Thread, history
<1>5. count' \in 0 .. MaxCount /\ announced' \in 0 .. count'
  BY DEF IInv, TypeOK, NotifierLocks, history
<1>6. TypeOK' /\ PcTyped'
  BY <1>1, <1>2, <1>4, <1>5, NotifierTypes DEF NotifierLocks, history
<1> QED
  BY <1>3, <1>6 DEF IInv, Related

LEMMA FindWaitersKeeps == ASSUME IInv, FindWaiters PROVE IInv'
<1>1. PICK from \in NotifierPlace, to \in NotifierPlace : Goes(Notifier, from, to)
  BY DEF FindWaiters, NotifierPlace
<1>2. from \in Place /\ to \in Place
  BY DEF Place, NotifierPlace
<1>3. Related'
  BY <1>1, <1>2, NotifierOnlyMoved DEF FindWaiters
<1>4. SharedTyped'
  BY DEF IInv, TypeOK, SharedTyped, FindWaiters, history
<1>5. count' \in 0 .. MaxCount /\ announced' \in 0 .. count'
  BY DEF IInv, TypeOK, FindWaiters, history
<1>6. TypeOK' /\ PcTyped'
  BY <1>1, <1>2, <1>4, <1>5, NotifierTypes DEF FindWaiters, history
<1> QED
  BY <1>3, <1>6 DEF IInv, Related

LEMMA NotifierUnlocksKeeps == ASSUME IInv, NotifierUnlocks PROVE IInv'
<1>1. PICK from \in NotifierPlace, to \in NotifierPlace : Goes(Notifier, from, to)
  BY DEF NotifierUnlocks, NotifierPlace
<1>2. from \in Place /\ to \in Place
  BY DEF Place, NotifierPlace
<1>3. Related'
  BY <1>1, <1>2, NotifierOnlyMoved DEF NotifierUnlocks
<1>4. SharedTyped'
  BY DEF IInv, TypeOK, SharedTyped, NotifierUnlocks, Unlock, Thread, history
<1>5. count' \in 0 .. MaxCount /\ announced' \in 0 .. count'
  BY DEF IInv, TypeOK, NotifierUnlocks, history
<1>6. TypeOK' /\ PcTyped'
  BY <1>1, <1>2, <1>4, <1>5, NotifierTypes DEF NotifierUnlocks, history
<1> QED
  BY <1>3, <1>6 DEF IInv, Related

LEMMA IncrementKeeps == ASSUME IInv, count < MaxCount, Increment PROVE IInv'
<1>1. PICK to \in {"one", "all"} : Goes(Notifier, "increment", to)
  BY DEF Increment
<1>2. "increment" \in Place /\ to \in Place /\ "increment" \in NotifierPlace /\ to \in NotifierPlace
  BY DEF Place, NotifierPlace
<1>3. Related'
  BY <1>1, <1>2, NotifierOnlyMoved DEF Increment
<1>4. SharedTyped'
  BY DEF IInv, TypeOK, SharedTyped, Increment, history
<1>5. count' \in 0 .. MaxCount /\ announced' \in 0 .. count'
  <2>1. count' = count + 1 /\ announced' = announced
    BY DEF Increment, history
  <2>2. count \in 0 .. MaxCount /\ announced \in 0 .. count
    BY DEF IInv, TypeOK
  <2> QED
    BY <2>1, <2>2, ConditionVariableAssumption
<1>6. TypeOK' /\ PcTyped'
  BY <1>1, <1>2, <1>4, <1>5, NotifierTypes DEF Increment, history
<1> QED
  BY <1>3, <1>6 DEF IInv, Related

(* notify_all announces without an event only when nobody is counted.      *)
LEMMA FindNoWaitersKeeps == ASSUME IInv, FindNoWaiters PROVE IInv'
<1>1. PICK from \in {"one", "all"} : Goes(Notifier, from, "unlock")
  BY DEF FindNoWaiters
<1>2. from \in Place /\ "unlock" \in Place /\ "unlock" \in NotifierPlace
  BY DEF Place, NotifierPlace
<1>3. \A x \in Waiter : pc'[x] = pc[x]
  BY <1>1, <1>2, NotifierMoved
<1>4. mWaitersCount' = mWaitersCount /\ announced' \in {announced, count} /\ count' = count
  BY DEF FindNoWaiters
<1>5. mWaitersCount = 0
  <2>1. mWaitersCount \in Nat
    BY CountedAreWaiters, SomeWaiters DEF IInv, CountsWaiters
  <2> QED
    BY <2>1 DEF FindNoWaiters, HaveWaiters
<1>6. Counted = {}
  BY <1>5, NobodyCounted DEF IInv
<1>7. Counted' = {} /\ AboutToWait' = {} /\ Blocked' = {}
  BY <1>3, <1>6 DEF Counted, AboutToWait, Blocked
<1>8. CountsWaiters'
  BY <1>4, <1>6, <1>7 DEF IInv, CountsWaiters
<1>9. FindsAll' /\ ResetsAreLate' /\ SleepsOnlyByLateReset'
  BY <1>7 DEF FindsAll, ResetsAreLate, SleepsOnlyByLateReset
<1>10. SharedTyped'
  BY DEF IInv, TypeOK, SharedTyped, FindNoWaiters
<1>11. count' \in 0 .. MaxCount /\ announced' \in 0 .. count'
  <2>1. count \in 0 .. MaxCount /\ announced \in 0 .. count
    BY DEF IInv, TypeOK
  <2>2. count \in 0 .. count
    BY <2>1, ConditionVariableAssumption
  <2> QED
    BY <1>4, <2>1, <2>2
<1>12. TypeOK' /\ PcTyped'
  BY <1>1, <1>2, <1>10, <1>11, NotifierTypes DEF FindNoWaiters
<1> QED
  BY <1>8, <1>9, <1>12 DEF IInv

(* The events wake waiters, who stay counted.                              *)
LEMMA Woken ==
  ASSUME IInv, pc[Notifier] \in NotifierPlace, NEW woken \in SUBSET Blocked,
         NEW as \in {"woken by one", "woken by all"},
         pc' = [t \in Thread |-> CASE t = Notifier -> "unlock"
                                   [] t \in woken -> as
                                   [] OTHER -> pc[t]]
  PROVE  /\ PcTyped'
         /\ \A x \in Waiter : pc'[x] \in WaiterPlace /\ (x \notin woken => pc'[x] = pc[x])
         /\ pc'[Notifier] \in NotifierPlace
         /\ Counted' = Counted /\ AboutToWait' = AboutToWait /\ Blocked' = Blocked \ woken
         /\ \A r \in Waiter : pc'[r] = "reset" <=> pc[r] = "reset"
<1>1. \A x \in Waiter : x # Notifier /\ x \in Thread
  BY ConditionVariableAssumption DEF Thread
<1>2. \A x \in Waiter : pc'[x] = IF x \in woken THEN as ELSE pc[x]
  BY <1>1
<1>3. pc'[Notifier] = "unlock"
  <2>1. Notifier \in Thread /\ Notifier \notin woken
    BY ConditionVariableAssumption DEF Thread, Blocked
  <2> QED
    BY <2>1
<1>4. \A x \in woken : x \in Waiter /\ pc[x] = "blocked"
  BY DEF Blocked
<1>5. PcTyped'
  BY <1>1 DEF IInv, PcTyped, Place
<1>6. \A x \in Waiter : pc[x] \in WaiterPlace
  BY DEF IInv, TypeOK, WaiterPlace
<1>7. \A x \in Waiter : pc'[x] \in WaiterPlace
  BY <1>2, <1>6 DEF WaiterPlace
<1>8. Counted' = Counted /\ AboutToWait' = AboutToWait /\ Blocked' = Blocked \ woken
  <2>1. \A x \in Waiter : IF x \in woken THEN pc'[x] = as /\ pc[x] = "blocked"
                                       ELSE pc'[x] = pc[x]
    BY <1>2, <1>4
  <2>2. Counted' = Counted
    BY <2>1 DEF Counted
  <2>3. AboutToWait' = AboutToWait
    BY <2>1 DEF AboutToWait
  <2>4. Blocked' = Blocked \ woken
    BY <2>1 DEF Blocked
  <2> QED
    BY <2>2, <2>3, <2>4
<1>9. \A r \in Waiter : pc'[r] = "reset" <=> pc[r] = "reset"
  BY <1>2, <1>4
<1> QED
  BY <1>2, <1>3, <1>5, <1>7, <1>8, <1>9 DEF NotifierPlace

(* SetEvent(ONE) announces nothing.                                        *)
LEMMA SetOneKeeps == ASSUME IInv, SetOne PROVE IInv'
<1>1. /\ UNCHANGED <<count, owner, mWaitersCount, announced, overtaken, late>>
      /\ events \subseteq events' /\ events' \subseteq events \cup {"ONE"}
  BY DEF SetOne, history
<1> DEFINE Wakes(woken) ==
      pc' = [t \in Thread |-> CASE t = Notifier -> "unlock"
                                [] t \in woken -> "woken by one"
                                [] OTHER -> pc[t]]
<1>2. PICK woken \in SUBSET Blocked : Wakes(woken)
  <2>1. pc \in [Thread -> Place] /\ Notifier \notin Blocked
    BY ConditionVariableAssumption DEF IInv, PcTyped, Blocked
  <2>2. ASSUME pc' = [pc EXCEPT ![Notifier] = "unlock"] PROVE Wakes({})
    BY <2>1, <2>2
  <2>3. ASSUME NEW w \in Blocked,
               pc' = [pc EXCEPT ![Notifier] = "unlock", ![w] = "woken by one"]
        PROVE  Wakes({w})
    BY <2>1, <2>3
  <2>4. (\E w \in Blocked : Wakes({w})) \/ Wakes({})
    BY <2>2, <2>3 DEF SetOne
  <2> HIDE DEF Wakes
  <2> QED
    BY <2>4
<1>3. pc[Notifier] \in NotifierPlace
  BY DEF SetOne, NotifierPlace
<1>4. /\ PcTyped'
      /\ \A x \in Waiter : pc'[x] \in WaiterPlace
      /\ pc'[Notifier] \in NotifierPlace
      /\ Counted' = Counted /\ AboutToWait' = AboutToWait /\ Blocked' = Blocked \ woken
      /\ \A r \in Waiter : pc'[r] = "reset" <=> pc[r] = "reset"
  BY <1>2, <1>3, Woken
<1>5. CountsWaiters'
  BY <1>1, <1>4 DEF IInv, CountsWaiters
<1>6. FindsAll' /\ ResetsAreLate' /\ SleepsOnlyByLateReset'
  BY <1>1, <1>4 DEF IInv, FindsAll, ResetsAreLate, SleepsOnlyByLateReset, Announced
<1>7. TypeOK'
  <2>1. overtaken' \subseteq {x \in Waiter : pc'[x] = "reset"}
    BY <1>1, <1>4 DEF IInv, TypeOK
  <2>2. SharedTyped'
    BY <1>1 DEF IInv, TypeOK, SharedTyped
  <2>3. count' \in 0 .. MaxCount /\ announced' \in 0 .. count'
    BY <1>1 DEF IInv, TypeOK
  <2> QED
    BY <1>4, <1>5, <2>1, <2>2, <2>3, CountTyped
    DEF TypeOK, SharedTyped, WaiterPlace, NotifierPlace
<1> QED
  BY <1>4, <1>5, <1>6, <1>7 DEF IInv

(* SetEvent(ALL) announces the counter: it wakes whoever is blocked, leaves *)
(* ALL set for whoever is about to wait, and overtakes every reset to come. *)
LEMMA SetAllKeeps == ASSUME IInv, SetAll PROVE IInv'
<1>1. /\ UNCHANGED <<count, owner, mWaitersCount, late>>
      /\ events' = events \cup {"ALL"} /\ announced' = count
      /\ overtaken' = overtaken \cup {w \in Waiter : pc[w] = "reset"}
  BY DEF SetAll
<1>2. pc[Notifier] \in NotifierPlace
  BY DEF SetAll, NotifierPlace
<1>3. /\ PcTyped'
      /\ \A x \in Waiter : pc'[x] \in WaiterPlace
      /\ pc'[Notifier] \in NotifierPlace
      /\ Counted' = Counted /\ AboutToWait' = AboutToWait /\ Blocked' = {}
      /\ \A r \in Waiter : pc'[r] = "reset" <=> pc[r] = "reset"
  BY <1>2, Woken DEF SetAll
<1>4. CountsWaiters'
  BY <1>1, <1>3 DEF IInv, CountsWaiters
<1>5. FindsAll' /\ ResetsAreLate' /\ SleepsOnlyByLateReset'
  BY <1>1, <1>3 DEF FindsAll, ResetsAreLate, SleepsOnlyByLateReset
<1>6. TypeOK'
  <2>1. overtaken' \subseteq {x \in Waiter : pc'[x] = "reset"}
    BY <1>1, <1>3 DEF IInv, TypeOK
  <2>2. SharedTyped'
    BY <1>1 DEF IInv, TypeOK, SharedTyped
  <2>3. count' \in 0 .. MaxCount /\ announced' \in 0 .. count'
    <3>1. count \in 0 .. MaxCount
      BY DEF IInv, TypeOK
    <3> QED
      BY <1>1, <3>1, ConditionVariableAssumption
  <2> QED
    BY <1>3, <1>4, <2>1, <2>2, <2>3, CountTyped
    DEF TypeOK, SharedTyped, WaiterPlace, NotifierPlace
<1> QED
  BY <1>3, <1>4, <1>5, <1>6 DEF IInv

-----------------------------------------------------------------------------
(* The bound on the counter, tested before the notifier locks.             *)
CountRoom == pc[Notifier] = "increment" => count < MaxCount

LEMMA RoomStays == ASSUME IInv, CountRoom, Next PROVE CountRoom'
<1>1. ASSUME NEW w \in Waiter, NEW from, NEW to, Goes(w, from, to)
      PROVE  pc'[Notifier] = pc[Notifier]
  BY <1>1, ConditionVariableAssumption DEF Goes, IInv, PcTyped, Thread
<1>2. ASSUME NEW w \in Waiter, WaiterLocks(w) \/ WaiterStep(w) PROVE CountRoom'
  <2>1. \E from, to : Goes(w, from, to)
    BY <1>2 DEF WaiterLocks, WaiterStep, WaiterReturns, CountIn, WaitUnlocks,
                WaitForEvents, CountOut, ResetAll
  <2>2. count' = count
    BY <1>2 DEF WaiterLocks, WaiterStep, WaiterReturns, CountIn, WaitUnlocks,
                WaitForEvents, CountOut, ResetAll
  <2> QED
    BY <1>1, <2>1, <2>2 DEF CountRoom
<1>3. ASSUME NEW from, NEW to, Goes(Notifier, from, to) PROVE pc'[Notifier] = to
  BY <1>3 DEF Goes, IInv, PcTyped, Thread
<1>4. CASE NotifierLocks
  BY <1>4 DEF NotifierLocks, CountRoom
<1>5. CASE Increment
  BY <1>3, <1>5 DEF Increment, CountRoom
<1>6. CASE FindWaiters
  BY <1>3, <1>6 DEF FindWaiters, CountRoom
<1>7. CASE FindNoWaiters
  BY <1>3, <1>7 DEF FindNoWaiters, CountRoom
<1>8. CASE SetOne
  <2>1. Notifier \notin Blocked /\ Notifier \in Thread /\ pc \in [Thread -> Place]
    BY ConditionVariableAssumption DEF Blocked, Thread, IInv, PcTyped
  <2> QED
    BY <1>8, <2>1 DEF SetOne, CountRoom
<1>9. CASE SetAll
  <2>1. Notifier \in Thread /\ Notifier \notin Blocked
    BY ConditionVariableAssumption DEF Thread, Blocked
  <2>2. pc'[Notifier] = "unlock"
    BY <1>9, <2>1 DEF SetAll
  <2> QED
    BY <2>2 DEF CountRoom
<1>10. CASE NotifierUnlocks
  BY <1>3, <1>10 DEF NotifierUnlocks, CountRoom
<1> QED
  BY <1>2, <1>4, <1>5, <1>6, <1>7, <1>8, <1>9, <1>10 DEF Next, NotifierStep

LEMMA Steps == IInv /\ CountRoom /\ [Next]_vars => IInv' /\ CountRoom'
<1> SUFFICES ASSUME IInv, CountRoom, [Next]_vars PROVE IInv' /\ CountRoom'
  OBVIOUS
<1>1. ASSUME NEW w \in Waiter, WaiterLocks(w) \/ WaiterStep(w) PROVE IInv'
  BY <1>1, WaiterLocksKeeps, WaiterReturnsKeeps, CountInKeeps, WaitUnlocksKeeps,
     WaitForEventsKeeps, CountOutKeeps, ResetAllKeeps DEF WaiterStep
<1>2. ASSUME NotifierLocks \/ NotifierStep PROVE IInv'
  <2>1. Increment => count < MaxCount
    BY DEF Increment, Goes, CountRoom
  <2> QED
    BY <1>2, <2>1, NotifierLocksKeeps, IncrementKeeps, FindWaitersKeeps,
       FindNoWaitersKeeps, SetOneKeeps, SetAllKeeps, NotifierUnlocksKeeps DEF NotifierStep
<1>3. CASE Next
  BY <1>1, <1>2, <1>3, RoomStays DEF Next
<1>4. CASE UNCHANGED vars
  <2>1. Counted' = Counted /\ AboutToWait' = AboutToWait /\ Blocked' = Blocked
    BY <1>4 DEF vars, Counted, AboutToWait, Blocked
  <2>2. TypeOK' /\ PcTyped' /\ CountRoom'
    BY <1>4 DEF vars, IInv, TypeOK, PcTyped, CountRoom
  <2>3. CountsWaiters' /\ FindsAll' /\ ResetsAreLate' /\ SleepsOnlyByLateReset'
    BY <1>4, <2>1
    DEF vars, IInv, CountsWaiters, FindsAll, ResetsAreLate, SleepsOnlyByLateReset, Announced
  <2> QED
    BY <2>2, <2>3 DEF IInv
<1> QED
  BY <1>3, <1>4

LEMMA Invariance == Spec => [](IInv /\ CountRoom)
<1>1. Init => CountRoom
  BY DEF Init, CountRoom, Thread
<1> QED
  BY <1>1, Initially, Steps, PTL DEF Spec

(* Types, among them that mWaitersCount never goes below zero and never    *)
(* exceeds the number of the waiters, although wait counts a thread in and *)
(* out in two critical sections with the wait itself between them.         *)
THEOREM ConditionTypes == Spec => []TypeOK
<1>1. IInv => TypeOK
  BY DEF IInv
<1> QED
  BY <1>1, Invariance, PTL

(* A thread is left asleep by a notify_all that found its condition true   *)
(* only when a late ResetEvent of an earlier waiter erased that notify's   *)
(* SetEvent: for any number of waiters, wait loses no wake-up otherwise.   *)
THEOREM SleepersWereErased == Spec => []SleepsOnlyByLateReset
<1>1. IInv => SleepsOnlyByLateReset
  BY DEF IInv
<1> QED
  BY <1>1, Invariance, PTL
=============================================================================
