-------------------------- MODULE InitThreadsProofs -------------------------
(***************************************************************************)
(* Proofs about module InitThreads, for every number of modules.           *)
(***************************************************************************)
EXTENDS InitThreads, SequenceTheorems, TLAPS

(* Erasing an entry moves the later ones down by one.                      *)
LEMMA Erasing ==
  ASSUME NEW S, NEW seq \in Seq(S), NEW k \in 1 .. Len(seq)
  PROVE  /\ RemovedAt(seq, k) \in Seq(S)
         /\ Len(RemovedAt(seq, k)) = Len(seq) - 1
         /\ \A l \in 1 .. Len(seq) - 1 :
              RemovedAt(seq, k)[l] = IF l < k THEN seq[l] ELSE seq[l + 1]
<1> DEFINE front == SubSeq(seq, 1, k - 1)
           back == SubSeq(seq, k + 1, Len(seq))
<1>1. Len(seq) \in Nat /\ \A l \in 1 .. Len(seq) : seq[l] \in S
  BY LenProperties, ElementOfSeq
<1>2. /\ front \in Seq(S) /\ Len(front) = k - 1
      /\ \A l \in 1 .. k - 1 : front[l] = seq[l]
  <2>1. \A l \in 1 .. k - 1 : seq[l] \in S
    BY <1>1
  <2> QED
    BY <1>1, <2>1, SubSeqProperties
<1>3. /\ back \in Seq(S) /\ Len(back) = Len(seq) - k
      /\ \A l \in 1 .. Len(seq) - k : back[l] = seq[k + l]
  <2>1. \A l \in k + 1 .. Len(seq) : seq[l] \in S
    BY <1>1
  <2>2. /\ back \in Seq(S)
        /\ Len(back) = IF k + 1 <= Len(seq) THEN Len(seq) - (k + 1) + 1 ELSE 0
        /\ \A l \in 1 .. Len(seq) - (k + 1) + 1 : back[l] = seq[k + 1 + l - 1]
    BY <1>1, <2>1, SubSeqProperties
  <2> QED
    BY <1>1, <2>2
<1>4. /\ front \o back \in Seq(S)
      /\ Len(front \o back) = Len(front) + Len(back)
      /\ \A l \in 1 .. Len(front) + Len(back) :
           (front \o back)[l] = IF l <= Len(front) THEN front[l] ELSE back[l - Len(front)]
  BY <1>2, <1>3, ConcatProperties
<1> HIDE DEF front, back
<1>5. Len(front) + Len(back) = Len(seq) - 1
  BY <1>1, <1>2, <1>3
<1>6. ASSUME NEW l \in 1 .. Len(seq) - 1
      PROVE  (front \o back)[l] = IF l < k THEN seq[l] ELSE seq[l + 1]
  <2>1. CASE l < k
    BY <1>1, <1>2, <1>4, <1>5, <2>1
  <2>2. CASE l >= k
    <3>1. l - (k - 1) \in 1 .. Len(seq) - k /\ k + (l - (k - 1)) = l + 1
      BY <1>1, <2>2
    <3>2. (front \o back)[l] = back[l - (k - 1)]
      BY <1>1, <1>2, <1>4, <1>5, <2>2
    <3>3. back[l - (k - 1)] = seq[k + (l - (k - 1))]
      BY <1>3, <3>1
    <3> QED
      BY <1>1, <2>2, <3>1, <3>2, <3>3
  <2>3. l < k \/ l >= k
    BY <1>1
  <2> QED
    BY <2>1, <2>2, <2>3
<1> QED
  BY <1>4, <1>5, <1>6 DEF RemovedAt, front, back

-----------------------------------------------------------------------------
(* The thread that is being started is one of those there are.             *)
Starting == pc \in {"start", "started"} => started < Modules

LEMMA TypesInit == Init => TypeOK /\ Starting
<1> SUFFICES ASSUME Init PROVE TypeOK /\ Starting
  OBVIOUS
<1>1. 1 \in Thread /\ <<>> \in Seq(Thread)
  BY InitThreadsAssumption, EmptySeq DEF Thread
<1> QED
  BY <1>1, InitThreadsAssumption DEF Init, TypeOK, Starting

LEMMA StartingStep == TypeOK /\ Starting /\ [Next]_vars => Starting'
<1> SUFFICES ASSUME TypeOK, Starting, [Next]_vars PROVE Starting'
  OBVIOUS
<1>1. CASE StartThread
  BY <1>1 DEF StartThread, Starting
<1>2. CASE ThreadStarted
  <2>1. started' = started + 1 /\ started < Modules /\ started \in 0 .. Modules
    BY <1>2 DEF ThreadStarted, Starting, TypeOK
  <2>2. started' # Modules => started' < Modules
    BY <2>1, InitThreadsAssumption
  <2> QED
    BY <1>2, <2>2 DEF ThreadStarted, Starting
<1>3. CASE ~StartThread /\ ~ThreadStarted
  <2>1. started' = started /\ (pc' = pc \/ pc' \notin {"start", "started"})
    BY <1>3
    DEF Next, vars, MainStep, BeginJoins, CheckList, ReadTarget, ReadGarbage, Fails, Join,
        PthreadJoin, Delete, Terminate, UseDeleted, BeginErase, EndErase, ErasePastEnd,
        Corrupt, ThreadStep, BeginPush, EndPush, LockObject, Mark, Exit, InitialReturns
  <2> QED
    BY <2>1 DEF Starting
<1> QED
  BY <1>1, <1>2, <1>3

LEMMA TypesStep == TypeOK /\ Starting /\ [Next]_vars => TypeOK'
<1> SUFFICES ASSUME TypeOK, Starting, [Next]_vars PROVE TypeOK'
  OBVIOUS
<1>0. i \in Nat \ {0} /\ i + 1 \in Nat \ {0} /\ 1 \in Nat \ {0}
  <2>1. i \in Nat /\ i # 0
    BY DEF TypeOK
  <2> QED
    BY <2>1
<1>1. CASE UNCHANGED vars
  BY <1>1 DEF vars, TypeOK
<1>2. ASSUME NEW f, Fails(f), UNCHANGED racing,
             f \in {"terminate", "main used a deleted thread",
                    "no such thread", "heap corrupted"}
      PROVE  TypeOK'
  BY <1>2 DEF Fails, TypeOK
<1>3. CASE MainStep
  <2>1. CASE StartThread
    BY <1>3, <2>1 DEF MainStep, StartThread, TypeOK, Thread
  <2>2. CASE ThreadStarted
    <3>1. started' \in 0 .. Modules
      <4>1. started' = started + 1 /\ started < Modules /\ started \in 0 .. Modules
        BY <2>2 DEF ThreadStarted, Starting, TypeOK
      <4> QED
        BY <4>1, InitThreadsAssumption
    <3>2. mDataMutex' \in [Thread -> Thread \cup {Main, NoOne}]
      BY <2>2 DEF ThreadStarted, TypeOK
    <3>3. pc' \in {"cycle", "start"}
      BY <2>2 DEF ThreadStarted
    <3> QED
      BY <1>3, <2>2, <3>1, <3>2, <3>3 DEF MainStep, ThreadStarted, TypeOK
  <2>3. CASE BeginJoins \/ CheckList
    <3>1. pc' \in {"check", "read", "cycle"} /\ i' \in Nat \ {0}
      BY <1>0, <2>3 DEF BeginJoins, CheckList
    <3> QED
      BY <1>3, <2>3, <3>1 DEF MainStep, BeginJoins, CheckList, TypeOK
  <2>4. CASE ReadTarget
    <3>1. Listed \subseteq Thread
      <4>1. joinlist \in Seq(Thread)
        BY DEF TypeOK
      <4>2. i <= Len(joinlist) => joinlist[i] \in Thread
        BY <1>0, <4>1, LenProperties, ElementOfSeq
      <4> QED
        BY <4>2 DEF Listed
    <3> QED
      BY <1>3, <2>4, <3>1 DEF MainStep, ReadTarget, TypeOK
  <2>5. CASE ReadGarbage
    BY <1>2, <1>3, <2>5 DEF MainStep, ReadGarbage
  <2>6. CASE Join \/ PthreadJoin \/ Delete
    BY <1>3, <2>6 DEF MainStep, Join, PthreadJoin, Delete, TypeOK
  <2>7. CASE Terminate \/ UseDeleted
    BY <1>2, <1>3, <2>7 DEF MainStep, Terminate, UseDeleted
  <2>8. CASE BeginErase
    BY <1>3, <2>8 DEF MainStep, BeginErase, ReadList, TypeOK
  <2>9. CASE EndErase
    <3>1. copy[Main] \in Seq(Thread) /\ i \in 1 .. Len(copy[Main])
      <4>1. copy[Main] \in Seq(Thread) /\ i \in Nat \ {0}
        BY <1>0 DEF TypeOK
      <4> QED
        BY <2>9, <4>1, LenProperties DEF EndErase
    <3>2. joinlist' \in Seq(Thread) /\ copy' \in [Thread \cup {Main} -> Seq(Thread)]
      BY <2>9, <3>1, Erasing, EmptySeq DEF TypeOK, EndErase, WriteList
    <3> QED
      BY <1>3, <2>9, <3>2 DEF MainStep, EndErase, TypeOK
  <2>10. CASE ErasePastEnd
    <3>1. CASE Fails("heap corrupted")
      BY <1>2, <1>3, <3>1 DEF MainStep
    <3>2. CASE ~Fails("heap corrupted")
      <4>1. copy[Main] \in Seq(Thread)
        BY DEF TypeOK
      <4>2. SubSeq(copy[Main], 1, Len(copy[Main]) - 1) \in Seq(Thread)
        <5>1. /\ Len(copy[Main]) - 1 \in Int
              /\ \A l \in 1 .. Len(copy[Main]) - 1 : copy[Main][l] \in Thread
          BY <4>1, LenProperties, ElementOfSeq
        <5> QED
          BY <5>1, SubSeqProperties
      <4>3. joinlist' \in Seq(Thread) /\ copy' \in [Thread \cup {Main} -> Seq(Thread)]
        <5>1. /\ joinlist' = SubSeq(copy[Main], 1, Len(copy[Main]) - 1)
              /\ copy' = [copy EXCEPT ![Main] = <<>>]
          BY <2>10, <3>2 DEF ErasePastEnd, WriteList
        <5> QED
          BY <4>2, <5>1, EmptySeq DEF TypeOK
      <4>4. i' \in Nat \ {0} /\ pc' = "check"
        BY <1>0, <2>10, <3>2 DEF ErasePastEnd
      <4>5. UNCHANGED <<started, target, th, mNotAThread, mDataMutex, deleted, fault>>
        BY <2>10, <3>2 DEF ErasePastEnd
      <4> QED
        BY <1>3, <4>3, <4>4, <4>5 DEF MainStep, TypeOK
    <3> QED
      BY <3>1, <3>2
  <2>11. CASE Corrupt(Main)
    BY <1>2, <1>3, <2>11 DEF MainStep, Corrupt
  <2> QED
    BY <1>3, <2>1, <2>2, <2>3, <2>4, <2>5, <2>6, <2>7, <2>8, <2>9, <2>10, <2>11 DEF MainStep
<1>4. ASSUME NEW t \in Thread, ThreadStep(t) PROVE TypeOK'
  <2>1. CASE BeginPush(t)
    BY <1>4, <2>1 DEF ThreadStep, BeginPush, Moves, ReadList, TypeOK
  <2>2. CASE EndPush(t)
    <3>1. joinlist' \in Seq(Thread) /\ copy' \in [Thread \cup {Main} -> Seq(Thread)]
      BY <2>2, AppendProperties, EmptySeq DEF TypeOK, EndPush, WriteList
    <3> QED
      BY <1>4, <2>2, <3>1 DEF ThreadStep, EndPush, Moves, TypeOK
  <2>3. CASE Corrupt(t)
    BY <1>2, <1>4, <2>3 DEF ThreadStep, Corrupt
  <2>4. CASE LockObject(t)
    BY <1>4, <2>4 DEF ThreadStep, LockObject, Moves, TypeOK
  <2>5. CASE Mark(t)
    BY <1>4, <2>5 DEF ThreadStep, Mark, Moves, TypeOK
  <2>6. CASE Exit(t)
    BY <1>4, <2>6 DEF ThreadStep, Exit, Moves, TypeOK
  <2> QED
    BY <1>4, <2>1, <2>2, <2>3, <2>4, <2>5, <2>6 DEF ThreadStep
<1>5. ASSUME NEW t \in Thread, InitialReturns(t), UNCHANGED racing PROVE TypeOK'
  BY <1>5 DEF InitialReturns, Moves, TypeOK
<1> QED
  BY <1>1, <1>3, <1>4, <1>5 DEF Next

(* Every variable keeps its type, racing or not: whatever an overlapping   *)
(* push_back or erase leaves on joinlist, it names threads.                *)
THEOREM ThreadTypes == Spec => []TypeOK
<1>1. Spec => [](TypeOK /\ Starting)
  BY TypesInit, TypesStep, StartingStep, PTL DEF Spec
<1> QED
  BY <1>1, PTL
-----------------------------------------------------------------------------
(* The thread object.  Until it marks its object a thread can be joined,   *)
(* and from locking the object until it exits it holds the object's mutex; *)
(* the main thread holds the mutex while it starts the thread.             *)
Unmarked == {"initial", "push", "pushing", "wrapper", "locked"}

Marks ==
  \A t \in Thread :
    /\ th[t] \in Unmarked => ~mNotAThread[t]
    /\ th[t] \in {"marked", "exited"} => mNotAThread[t]

Locks ==
  /\ \A t \in Thread : th[t] \in {"locked", "marked"} => mDataMutex[t] = t
  /\ pc = "started" => mDataMutex[started + 1] = Main

(* Nothing is deleted, and no later thread exists, while threads start.    *)
Fresh ==
  /\ pc \in {"start", "started"} => deleted = {}
  /\ pc = "start" => \A t \in Thread : t > started => th[t] = "none"
  /\ pc = "started" => \A t \in Thread : t > started + 1 => th[t] = "none"

Handover == TypeOK /\ Starting /\ Marks /\ Locks /\ Fresh /\ WrapperIsSafe

LEMMA HandoverInit == Init => Handover
<1> SUFFICES ASSUME Init PROVE Handover
  OBVIOUS
<1>1. \A t \in Thread : th[t] = "none"
  BY DEF Init
<1>2. deleted = {} /\ pc = "start"
  BY DEF Init
<1> QED
  BY <1>1, <1>2, TypesInit DEF Handover, Marks, Locks, Fresh, WrapperIsSafe, Unmarked

LEMMA ThreadNumbers ==
  ASSUME TypeOK
  PROVE  /\ Main \notin Thread /\ NoOne \notin Thread /\ Main # NoOne
         /\ started < Modules => started + 1 \in Thread
         /\ \A u \in Thread : u > started + 1 => u > started /\ u # started + 1
<1>1. started \in 0 .. Modules
  BY DEF TypeOK
<1> QED
  BY <1>1, InitThreadsAssumption DEF Thread, Main, NoOne

(* What one thread's own step does to it, and to nothing else.             *)
LEMMA Moving ==
  ASSUME TypeOK, NEW t \in Thread, NEW from, NEW to, Moves(t, from, to)
  PROVE  /\ th[t] = from /\ th'[t] = to
         /\ \A u \in Thread \ {t} : th'[u] = th[u]
  BY DEF Moves, TypeOK

(* Most steps leave the objects alone.                                     *)
LEMMA ObjectsUntouched ==
  ASSUME Handover, UNCHANGED <<th, mNotAThread, mDataMutex, deleted, started>>,
         pc' = pc \/ pc' \notin {"start", "started"}
  PROVE  (Marks /\ Locks /\ Fresh /\ WrapperIsSafe)'
  BY DEF Handover, Marks, Locks, Fresh, WrapperIsSafe

LEMMA MainHandover ==
  ASSUME Handover, MainStep PROVE (Marks /\ Locks /\ Fresh /\ WrapperIsSafe)'
<1> USE DEF Handover
<1>1. CASE StartThread
  <2> DEFINE t == started + 1
  <2>1. t \in Thread /\ Main # NoOne /\ Main \notin Thread
    BY <1>1, ThreadNumbers DEF StartThread
  <2>2. /\ th'[t] \in {"initial", "failed"}
        /\ th'[t] = "initial" => ~mNotAThread'[t]
        /\ mDataMutex'[t] = Main
        /\ \A u \in Thread \ {t} :
             th'[u] = th[u] /\ mNotAThread'[u] = mNotAThread[u] /\ mDataMutex'[u] = mDataMutex[u]
    <3> HIDE DEF t
    <3>1. /\ mDataMutex' = [mDataMutex EXCEPT ![t] = Main]
          /\ \/ /\ mNotAThread' = [mNotAThread EXCEPT ![t] = FALSE]
                /\ th' = [th EXCEPT ![t] = "initial"]
             \/ th' = [th EXCEPT ![t] = "failed"] /\ mNotAThread' = mNotAThread
      BY <1>1 DEF StartThread, t
    <3>2. CASE th' = [th EXCEPT ![t] = "failed"] /\ mNotAThread' = mNotAThread
      BY <2>1, <3>1, <3>2 DEF TypeOK
    <3>3. CASE /\ mNotAThread' = [mNotAThread EXCEPT ![t] = FALSE]
               /\ th' = [th EXCEPT ![t] = "initial"]
      BY <2>1, <3>1, <3>3 DEF TypeOK
    <3> QED
      BY <3>1, <3>2, <3>3
  <2>3. pc = "start" /\ pc' = "started" /\ started' = started /\ deleted' = deleted /\ deleted = {}
    BY <1>1 DEF StartThread, Fresh
  <2>4. Marks'
    BY <2>2 DEF Marks, Unmarked
  <2>5. Locks'
    BY <2>2, <2>3 DEF Locks
  <2>6. Fresh'
    <3>1. \A u \in Thread : u > started + 1 => u > started /\ u # t
      BY ThreadNumbers
    <3> QED
      BY <2>2, <2>3, <3>1 DEF Fresh
  <2>7. WrapperIsSafe'
    BY <2>3 DEF WrapperIsSafe
  <2> QED
    BY <2>4, <2>5, <2>6, <2>7
<1>2. CASE ThreadStarted
  <2> DEFINE t == started + 1
  <2>1. t \in Thread /\ Main \notin Thread
    BY <1>2, ThreadNumbers DEF ThreadStarted, Starting
  <2>2. /\ pc = "started" /\ pc' \in {"start", "cycle"} /\ started' = t
        /\ UNCHANGED <<th, mNotAThread, deleted>>
        /\ mDataMutex[t] = Main
        /\ \A u \in Thread \ {t} : mDataMutex'[u] = mDataMutex[u]
    BY <1>2, <2>1 DEF ThreadStarted, Locks, TypeOK
  <2>3. th[t] \notin {"locked", "marked"}
    BY <2>1, <2>2 DEF Locks
  <2>4. Locks'
    BY <2>2, <2>3 DEF Locks
  <2> QED
    BY <2>2, <2>4 DEF Marks, Fresh, WrapperIsSafe
<1>3. CASE Delete
  <2>1. /\ target \in Thread /\ deleted' = deleted \cup {target}
        /\ mDataMutex[target] = NoOne /\ mNotAThread[target]
        /\ pc' = "erase" /\ UNCHANGED <<th, mNotAThread, mDataMutex, started>>
    BY <1>3 DEF Delete, Joinable, TypeOK
  <2>2. th[target] \notin Unmarked
    BY <2>1 DEF Marks
  <2>3. th[target] # "marked"
    BY <2>1 DEF Locks, Thread, NoOne
  <2>4. WrapperIsSafe'
    BY <2>1, <2>2, <2>3 DEF WrapperIsSafe, Unmarked
  <2> QED
    BY <2>1, <2>4 DEF Marks, Locks, Fresh
<1>4. CASE ~StartThread /\ ~ThreadStarted /\ ~Delete
  <2>1. /\ UNCHANGED <<th, mNotAThread, mDataMutex, deleted, started>>
        /\ pc' = pc \/ pc' \notin {"start", "started"}
    BY <1>4
    DEF MainStep, BeginJoins, CheckList, ReadTarget, ReadGarbage, Fails, Join,
        PthreadJoin, Terminate, UseDeleted, BeginErase, EndErase, ErasePastEnd, Corrupt
  <2> QED
    BY <2>1, ObjectsUntouched
<1> QED
  BY <1>1, <1>2, <1>3, <1>4

(* A thread that moves has started, and its object was not deleted.        *)
LEMMA MovedOn ==
  ASSUME Handover, NEW t \in Thread, th[t] \in Unmarked \cup {"marked"},
         \A u \in Thread \ {t} : th'[u] = th[u], UNCHANGED <<deleted, started, pc>>
  PROVE  Fresh' /\ WrapperIsSafe'
<1>1. deleted \subseteq Thread /\ t \notin deleted
  BY DEF Handover, TypeOK, WrapperIsSafe, Unmarked
<1>2. WrapperIsSafe'
  BY <1>1 DEF Handover, WrapperIsSafe
<1>3. th[t] # "none"
  BY DEF Unmarked
<1> QED
  BY <1>2, <1>3 DEF Handover, Fresh

LEMMA ThreadHandover ==
  ASSUME Handover, NEW t \in Thread, ThreadStep(t) \/ InitialReturns(t)
  PROVE  (Marks /\ Locks /\ Fresh /\ WrapperIsSafe)'
<1> USE DEF Handover
<1>1. CASE InitialReturns(t) \/ BeginPush(t) \/ EndPush(t)
  <2>1. PICK from \in {"initial", "push", "pushing"}, to \in {"push", "pushing", "wrapper"} :
          Moves(t, from, to)
    BY <1>1 DEF InitialReturns, BeginPush, EndPush
  <2>2. th[t] = from /\ th'[t] = to /\ \A u \in Thread \ {t} : th'[u] = th[u]
    BY <2>1, Moving
  <2>3. UNCHANGED <<mNotAThread, mDataMutex, deleted, started, pc>>
    BY <1>1 DEF InitialReturns, BeginPush, EndPush
  <2>4. Marks' /\ Locks'
    BY <2>2, <2>3 DEF Marks, Locks, Unmarked
  <2>5. Fresh' /\ WrapperIsSafe'
    BY <2>2, <2>3, MovedOn DEF Unmarked
  <2> QED
    BY <2>4, <2>5
<1>2. CASE LockObject(t)
  <2>1. Moves(t, "wrapper", "locked")
    BY <1>2 DEF LockObject
  <2>2. th[t] = "wrapper" /\ th'[t] = "locked" /\ \A u \in Thread \ {t} : th'[u] = th[u]
    BY <2>1, Moving
  <2>3. /\ mDataMutex[t] = NoOne /\ mDataMutex'[t] = t
        /\ \A u \in Thread \ {t} : mDataMutex'[u] = mDataMutex[u]
        /\ UNCHANGED <<mNotAThread, deleted, started, pc>>
    BY <1>2 DEF LockObject, TypeOK
  <2>4. Locks'
    <3>1. pc = "started" => started + 1 \in Thread /\ started + 1 # t
      BY <2>3, ThreadNumbers DEF Locks, Starting
    <3> QED
      BY <2>2, <2>3, <3>1 DEF Locks
  <2>5. Marks'
    BY <2>2, <2>3 DEF Marks, Unmarked
  <2>6. Fresh' /\ WrapperIsSafe'
    BY <2>2, <2>3, MovedOn DEF Unmarked
  <2> QED
    BY <2>4, <2>5, <2>6
<1>3. CASE Mark(t)
  <2>1. Moves(t, "locked", "marked")
    BY <1>3 DEF Mark
  <2>2. th[t] = "locked" /\ th'[t] = "marked" /\ \A u \in Thread \ {t} : th'[u] = th[u]
    BY <2>1, Moving
  <2>3. /\ mNotAThread'[t]
        /\ \A u \in Thread \ {t} : mNotAThread'[u] = mNotAThread[u]
        /\ UNCHANGED <<mDataMutex, deleted, started, pc>>
    BY <1>3 DEF Mark, TypeOK
  <2>4. Marks' /\ Locks'
    BY <2>2, <2>3 DEF Marks, Locks, Unmarked
  <2>5. Fresh' /\ WrapperIsSafe'
    BY <2>2, <2>3, MovedOn DEF Unmarked
  <2> QED
    BY <2>4, <2>5
<1>4. CASE Exit(t)
  <2>1. Moves(t, "marked", "exited")
    BY <1>4 DEF Exit
  <2>2. th[t] = "marked" /\ th'[t] = "exited" /\ \A u \in Thread \ {t} : th'[u] = th[u]
    BY <2>1, Moving
  <2>3. /\ \A u \in Thread \ {t} : mDataMutex'[u] = mDataMutex[u]
        /\ UNCHANGED <<mNotAThread, deleted, started, pc>>
    BY <1>4 DEF Exit, TypeOK
  <2>4. Locks'
    <3>1. pc = "started" => started + 1 \in Thread /\ started + 1 # t
      BY <2>2, ThreadNumbers DEF Locks, Starting
    <3> QED
      BY <2>2, <2>3, <3>1 DEF Locks
  <2>5. Marks'
    BY <2>2, <2>3 DEF Marks, Unmarked
  <2>6. Fresh' /\ WrapperIsSafe'
    BY <2>2, <2>3, MovedOn DEF Unmarked
  <2> QED
    BY <2>4, <2>5, <2>6
<1>5. CASE Corrupt(t)
  BY <1>5, ObjectsUntouched DEF Corrupt, Fails
<1> QED
  BY <1>1, <1>2, <1>3, <1>4, <1>5 DEF ThreadStep

LEMMA HandoverStep == Handover /\ [Next]_vars => Handover'
<1> SUFFICES ASSUME Handover, [Next]_vars PROVE Handover'
  OBVIOUS
<1>1. TypeOK' /\ Starting'
  BY TypesStep, StartingStep DEF Handover
<1>2. (Marks /\ Locks /\ Fresh /\ WrapperIsSafe)'
  <2>1. CASE UNCHANGED vars
    BY <2>1, ObjectsUntouched DEF vars
  <2> QED
    BY <2>1, MainHandover, ThreadHandover DEF Next
<1> QED
  BY <1>1, <1>2 DEF Handover

(* However the operations on joinlist overlap, an object is deleted only   *)
(* when the wrapper of its thread is through with it: the mark, read under *)
(* the object's mutex, is enough to tell.                                  *)
THEOREM WrapperOutlived == Spec => []WrapperIsSafe
<1>1. Spec => []Handover
  BY HandoverInit, HandoverStep, PTL DEF Spec
<1>2. Handover => WrapperIsSafe
  BY DEF Handover
<1> QED
  BY <1>1, <1>2, PTL
-----------------------------------------------------------------------------
(* While operations on joinlist do not overlap.                            *)
Distinct == \A k, l \in DOMAIN joinlist : joinlist[k] = joinlist[l] => k = l

Ended == {"wrapper", "locked", "marked", "exited"}

OnlyEnded == \A k \in DOMAIN joinlist : th[joinlist[k]] \in Ended

OnlyErased ==
  \A k \in DOMAIN joinlist : joinlist[k] \in deleted => pc \in {"erase", "erasing"} /\ k = i

(* One operation at a time works on joinlist, and on what joinlist is.     *)
Apart ==
  /\ \A x, y \in Thread \cup {Main} : OnList(x) /\ OnList(y) => x = y
  /\ \A x \in Thread \cup {Main} : OnList(x) => copy[x] = joinlist

(* From reading an entry to erasing it, the entry is that of the target,   *)
(* whose thread is gone when the object is deleted.                        *)
AtEntry ==
  /\ pc \in {"read", "join", "pthread_join", "reread", "delete", "erase", "erasing"} =>
       i <= Len(joinlist)
  /\ pc \in {"join", "pthread_join", "reread", "delete", "erase", "erasing"} =>
       target = joinlist[i]
  /\ pc \in {"reread", "delete"} => th[target] = "exited"

Quiet ==
  /\ fault = "none"
  /\ Distinct /\ OnlyEnded /\ OnlyErased
  /\ Apart
  /\ AtEntry

IInv == Handover /\ (racing \/ Quiet)

LEMMA ListTyped ==
  ASSUME Handover
  PROVE  /\ joinlist \in Seq(Thread) /\ Len(joinlist) \in Nat
         /\ DOMAIN joinlist = 1 .. Len(joinlist)
         /\ i \in Nat \ {0} /\ target \in Thread /\ Main \notin Thread
         /\ i <= Len(joinlist) => i \in DOMAIN joinlist
<1>1. joinlist \in Seq(Thread) /\ i \in Nat \ {0} /\ target \in Thread
  BY DEF Handover, TypeOK
<1>2. Len(joinlist) \in Nat /\ DOMAIN joinlist = 1 .. Len(joinlist)
  BY <1>1, LenProperties
<1>3. Main \notin Thread
  BY ThreadNumbers DEF Handover
<1> QED
  BY <1>1, <1>2, <1>3

LEMMA QuietInit == Init => Quiet
<1> SUFFICES ASSUME Init PROVE Quiet
  OBVIOUS
<1>1. DOMAIN joinlist = {}
  BY DEF Init
<1>2. \A x \in Thread \cup {Main} : ~OnList(x)
  BY DEF Init, OnList, Thread, Main
<1> QED
  BY <1>1, <1>2 DEF Init, Quiet, Distinct, OnlyEnded, OnlyErased, Apart, AtEntry

-----------------------------------------------------------------------------
(* The main thread works on the entry: the list stays as it is.            *)
LEMMA ListUntouched ==
  ASSUME Quiet, UNCHANGED <<th, joinlist, copy, deleted, fault>>,
         pc \notin {"erase", "erasing"}, pc' \notin {"erase", "erasing"}, AtEntry'
  PROVE  Quiet'
<1>1. \A x \in Thread \cup {Main} : OnList(x)' => OnList(x)
  BY DEF OnList
<1>2. Apart'
  BY <1>1 DEF Quiet, Apart
<1>3. Distinct' /\ OnlyEnded' /\ OnlyErased'
  BY DEF Quiet, Distinct, OnlyEnded, OnlyErased
<1> QED
  BY <1>2, <1>3 DEF Quiet

LEMMA StartQuiet ==
  ASSUME Handover, Quiet, StartThread PROVE Quiet'
<1> DEFINE t == started + 1
<1>1. t \in Thread
  BY ThreadNumbers DEF Handover, StartThread
<1>2. th[t] = "none"
  <2>1. started \in 0 .. Modules
    BY DEF Handover, TypeOK
  <2>2. started + 1 > started
    BY <2>1
  <2> QED
    BY <1>1, <2>2 DEF StartThread, Handover, Fresh
<1>3. th'[t] \in {"initial", "failed"} /\ \A u \in Thread \ {t} : th'[u] = th[u]
  <2> HIDE DEF t
  <2>1. th' = [th EXCEPT ![t] = "initial"] \/ th' = [th EXCEPT ![t] = "failed"]
    BY DEF StartThread, t
  <2> QED
    BY <1>1, <2>1 DEF Handover, TypeOK
<1>4. /\ pc = "start" /\ pc' = "started" /\ deleted = {}
      /\ UNCHANGED <<joinlist, copy, deleted, fault, i, target>>
  BY DEF StartThread, Handover, Fresh
<1>5. OnlyEnded'
  BY <1>2, <1>3, <1>4, ListTyped, ElementOfSeq DEF Quiet, OnlyEnded, Ended
<1>6. \A x \in Thread \cup {Main} : OnList(x)' => OnList(x)
  BY <1>3, <1>4 DEF OnList
<1>7. Apart'
  BY <1>4, <1>6 DEF Quiet, Apart
<1> QED
  BY <1>4, <1>5, <1>7 DEF Quiet, Distinct, OnlyErased, AtEntry

(* The target has unlocked its marked object, and so has ended.            *)
LEMMA MarkedHasExited ==
  ASSUME Handover, Quiet, pc = "join", mDataMutex[target] = NoOne, mNotAThread[target]
  PROVE  th[target] = "exited"
<1>1. th[target] \in Ended
  BY ListTyped DEF Quiet, AtEntry, OnlyEnded
<1>2. target \in Thread /\ NoOne # target
  BY ListTyped, ThreadNumbers DEF Handover
<1> QED
  BY <1>1, <1>2 DEF Handover, Marks, Locks, Ended, Unmarked

LEMMA LoopQuiet ==
  ASSUME Handover, Quiet, ~racing,
         ThreadStarted \/ BeginJoins \/ CheckList \/ ReadTarget \/ Join \/ PthreadJoin
  PROVE  Quiet'
<1>1. /\ UNCHANGED <<th, joinlist, copy, deleted, fault>>
      /\ pc \notin {"erase", "erasing"} /\ pc' \notin {"erase", "erasing"}
  BY DEF ThreadStarted, BeginJoins, CheckList, ReadTarget, Join, PthreadJoin
<1>2. AtEntry'
  <2>1. CASE ThreadStarted \/ BeginJoins
    BY <2>1 DEF ThreadStarted, BeginJoins, AtEntry
  <2>2. CASE CheckList
    <3>1. ~Disturbed
      BY <2>2 DEF CheckList, MayUseList, Disturbed
    <3> QED
      BY <2>2, <3>1 DEF CheckList, AtEntry
  <2>3. CASE ReadTarget
    <3>0. ~Disturbed
      BY <2>3 DEF ReadTarget, MayUseList, Disturbed
    <3>1. i <= Len(joinlist) /\ target' = joinlist[i] /\ UNCHANGED <<i, joinlist, th>>
      BY <2>3, <3>0 DEF ReadTarget, Listed, Quiet, AtEntry
    <3>2. \/ pc' = "join"
          \/ pc' = "delete" /\ target = joinlist[i] /\ th[target] = "exited"
      BY <2>3 DEF ReadTarget, Quiet, AtEntry
    <3> QED
      BY <3>1, <3>2 DEF AtEntry, Quiet
  <2>4. CASE Join
    <3>1. pc' = "reread" => mNotAThread[target]
      BY <2>4 DEF Join, Joinable
    <3>2. pc' = "reread" => th[target] = "exited"
      BY <2>4, <3>1, MarkedHasExited DEF Join
    <3> QED
      BY <2>4, <3>2 DEF Join, AtEntry, Quiet
  <2>5. CASE PthreadJoin
    BY <2>5 DEF PthreadJoin, AtEntry, Quiet
  <2> QED
    BY <2>1, <2>2, <2>3, <2>4, <2>5
<1> QED
  BY <1>1, <1>2, ListUntouched

LEMMA DeleteQuiet ==
  ASSUME Handover, Quiet, Delete PROVE Quiet'
<1>1. /\ pc = "delete" /\ pc' = "erase" /\ deleted' = deleted \cup {target}
      /\ UNCHANGED <<th, joinlist, copy, fault, i, target>>
  BY DEF Delete
<1>2. target = joinlist[i] /\ i \in DOMAIN joinlist
  BY <1>1, ListTyped DEF Quiet, AtEntry
<1>3. OnlyErased'
  BY <1>1, <1>2 DEF Quiet, Distinct, OnlyErased
<1>4. Apart'
  BY <1>1 DEF Quiet, Apart, OnList
<1> QED
  BY <1>1, <1>3, <1>4 DEF Quiet, Distinct, OnlyEnded, AtEntry

LEMMA BeginEraseQuiet ==
  ASSUME Handover, Quiet, ~racing, BeginErase PROVE Quiet'
<1>1. /\ pc = "erase" /\ pc' = "erasing" /\ copy'[Main] = joinlist
      /\ UNCHANGED <<th, joinlist, fault, i, target, deleted>>
  BY DEF BeginErase, ReadList, Handover, TypeOK
<1>2. \A x \in Thread : ~OnList(x)'
  BY <1>1, ListTyped DEF BeginErase, MayUseList, OnList
<1>3. Apart'
  BY <1>1, <1>2 DEF Apart
<1> QED
  BY <1>1, <1>3 DEF Quiet, Distinct, OnlyEnded, OnlyErased, AtEntry

LEMMA EndEraseQuiet ==
  ASSUME Handover, Quiet, EndErase PROVE Quiet'
<1>1. /\ pc = "erasing" /\ pc' = "check" /\ joinlist' = RemovedAt(copy[Main], i)
      /\ UNCHANGED <<th, fault, target, deleted>>
  BY DEF EndErase, WriteList
<1>2. OnList(Main) /\ \A x \in Thread : ~OnList(x)
  BY <1>1, ListTyped DEF Quiet, Apart, OnList
<1>3. copy[Main] = joinlist /\ i \in 1 .. Len(joinlist)
  BY <1>1, <1>2, ListTyped DEF Quiet, Apart, AtEntry
<1>4. /\ joinlist' \in Seq(Thread) /\ Len(joinlist') = Len(joinlist) - 1
      /\ \A l \in 1 .. Len(joinlist) - 1 :
           joinlist'[l] = IF l < i THEN joinlist[l] ELSE joinlist[l + 1]
  BY <1>1, <1>3, ListTyped, Erasing
<1>5. DOMAIN joinlist' = 1 .. Len(joinlist) - 1
  BY <1>4, LenProperties
<1>6. ASSUME NEW k \in DOMAIN joinlist'
      PROVE  \E l \in DOMAIN joinlist :
               l # i /\ joinlist'[k] = joinlist[l] /\ l = IF k < i THEN k ELSE k + 1
  BY <1>4, <1>5, ListTyped
<1>7. Distinct'
  BY <1>5, <1>6, ListTyped DEF Quiet, Distinct
<1>8. OnlyEnded' /\ OnlyErased'
  BY <1>1, <1>6 DEF Quiet, OnlyEnded, OnlyErased
<1>9. \A x \in Thread \cup {Main} : ~OnList(x)'
  BY <1>1, <1>2 DEF OnList
<1> QED
  BY <1>1, <1>7, <1>8, <1>9 DEF Quiet, Apart, AtEntry

(* None of the steps that lose the process can be taken.                   *)
LEMMA NothingFails ==
  ASSUME Handover, Quiet, ~racing, NEW x \in Thread \cup {Main}
  PROVE  ~ReadGarbage /\ ~Terminate /\ ~UseDeleted /\ ~ErasePastEnd /\ ~Corrupt(x)
<1> i \in Nat /\ Len(joinlist) \in Nat /\ (i > Len(joinlist) => ~(i <= Len(joinlist)))
  BY ListTyped
<1>1. ~ReadGarbage
  BY DEF ReadGarbage, MayUseList, Disturbed, Quiet, AtEntry
<1>2. ~Terminate
  BY ListTyped DEF Terminate, Joinable, Quiet, AtEntry, Handover, Marks
<1>3. ~UseDeleted
  BY ListTyped DEF UseDeleted, Quiet, AtEntry, OnlyErased
<1>4. ~ErasePastEnd
  <2> SUFFICES ASSUME pc = "erasing" PROVE ~(i > Len(copy[Main]))
    BY DEF ErasePastEnd
  <2>1. copy[Main] = joinlist
    BY DEF Quiet, Apart, OnList
  <2> QED
    BY <2>1 DEF Quiet, AtEntry
<1>5. ~Corrupt(x)
  BY DEF Corrupt, Overlapped, Quiet, Apart
<1> QED
  BY <1>1, <1>2, <1>3, <1>4, <1>5

-----------------------------------------------------------------------------
(* A thread that is not on the list, or stays fit for it, moves.           *)
LEMMA MoveQuiet ==
  ASSUME Handover, Quiet, NEW t \in Thread,
         th[t] # "exited", th[t] \in Ended => th'[t] \in Ended, th'[t] # "pushing",
         \A u \in Thread \ {t} : th'[u] = th[u],
         UNCHANGED <<pc, i, target, deleted, joinlist, copy, fault>>
  PROVE  Quiet'
<1>1. OnlyEnded'
  BY ListTyped, ElementOfSeq DEF Quiet, OnlyEnded
<1>2. \A x \in Thread \cup {Main} : OnList(x)' => OnList(x)
  BY ListTyped DEF OnList
<1>3. Apart'
  BY <1>2 DEF Quiet, Apart
<1>4. AtEntry'
  BY ListTyped DEF Quiet, AtEntry
<1> QED
  BY <1>1, <1>3, <1>4 DEF Quiet, Distinct, OnlyErased

LEMMA BeginPushQuiet ==
  ASSUME Handover, Quiet, ~racing, NEW t \in Thread, BeginPush(t) PROVE Quiet'
<1>1. Moves(t, "push", "pushing") /\ UNCHANGED <<pc, i, target, deleted, joinlist, fault>>
  BY DEF BeginPush
<1>2. th[t] = "push" /\ th'[t] = "pushing" /\ \A u \in Thread \ {t} : th'[u] = th[u]
  BY <1>1, Moving DEF Handover
<1>3. \A x \in Thread \cup {Main} : OnList(x)' => x = t
  BY <1>1, <1>2 DEF BeginPush, MayUseList, OnList
<1>4. copy'[t] = joinlist
  BY DEF BeginPush, ReadList, Handover, TypeOK
<1>5. Apart'
  BY <1>1, <1>3, <1>4 DEF Apart
<1>6. OnlyEnded'
  BY <1>1, <1>2, ListTyped, ElementOfSeq DEF Quiet, OnlyEnded, Ended
<1>7. AtEntry'
  BY <1>1, <1>2, ListTyped DEF Quiet, AtEntry
<1> QED
  BY <1>1, <1>5, <1>6, <1>7 DEF Quiet, Distinct, OnlyErased

LEMMA EndPushQuiet ==
  ASSUME Handover, Quiet, NEW t \in Thread, EndPush(t) PROVE Quiet'
<1>1. Moves(t, "pushing", "wrapper") /\ UNCHANGED <<pc, i, target, deleted, fault>>
  BY DEF EndPush
<1>2. th[t] = "pushing" /\ th'[t] = "wrapper" /\ \A u \in Thread \ {t} : th'[u] = th[u]
  BY <1>1, Moving DEF Handover
<1>3. \A x \in Thread \cup {Main} : OnList(x) <=> x = t
  BY <1>2, ListTyped DEF Quiet, Apart, OnList
<1>4. joinlist' = Append(joinlist, t)
  BY <1>3 DEF EndPush, WriteList, Quiet, Apart
<1>5. /\ joinlist' \in Seq(Thread) /\ Len(joinlist') = Len(joinlist) + 1
      /\ \A l \in 1 .. Len(joinlist) : joinlist'[l] = joinlist[l]
      /\ joinlist'[Len(joinlist) + 1] = t
  BY <1>4, ListTyped, AppendProperties
<1>6. DOMAIN joinlist' = 1 .. Len(joinlist) + 1
  BY <1>5, LenProperties
<1>7. \A k \in DOMAIN joinlist' :
        \/ k \in DOMAIN joinlist /\ joinlist'[k] = joinlist[k]
        \/ k = Len(joinlist) + 1 /\ joinlist'[k] = t
  BY <1>5, <1>6, ListTyped
<1>8. t \notin deleted /\ \A k \in DOMAIN joinlist : joinlist[k] # t
  BY <1>2 DEF Handover, WrapperIsSafe, Quiet, OnlyEnded, Ended
<1>9. Distinct'
  BY <1>7, <1>8 DEF Quiet, Distinct
<1>10. OnlyEnded'
  BY <1>2, <1>7, <1>8, ListTyped, ElementOfSeq DEF Quiet, OnlyEnded, Ended
<1>11. OnlyErased'
  BY <1>1, <1>7, <1>8 DEF Quiet, OnlyErased
<1>12. \A x \in Thread \cup {Main} : ~OnList(x)'
  <2>1. ~OnList(Main)'
    BY <1>1, <1>3, ListTyped DEF OnList
  <2>2. ASSUME NEW x \in Thread PROVE ~OnList(x)'
    <3>1. x # Main /\ (x = t \/ th'[x] = th[x])
      BY <1>2, ListTyped
    <3>2. th'[x] # "pushing"
      BY <1>2, <1>3, <3>1 DEF OnList
    <3> QED
      BY <3>1, <3>2 DEF OnList
  <2> QED
    BY <2>1, <2>2
<1>13. AtEntry'
  <2>1. i <= Len(joinlist) => i <= Len(joinlist') /\ joinlist'[i] = joinlist[i]
    BY <1>5, ListTyped
  <2> QED
    BY <1>1, <1>2, <2>1, ListTyped DEF Quiet, AtEntry
<1> QED
  BY <1>1, <1>9, <1>10, <1>11, <1>12, <1>13 DEF Quiet, Apart

LEMMA ThreadQuiet ==
  ASSUME Handover, Quiet, ~racing, NEW t \in Thread, ThreadStep(t) \/ InitialReturns(t)
  PROVE  Quiet'
<1>1. CASE \/ InitialReturns(t) \/ LockObject(t) \/ Mark(t) \/ Exit(t)
  <2>1. PICK from \in {"initial", "wrapper", "locked", "marked"},
             to \in {"push", "locked", "marked", "exited"} :
          Moves(t, from, to) /\ (from = "initial" \/ to # "push")
    BY <1>1 DEF InitialReturns, LockObject, Mark, Exit
  <2>2. th[t] = from /\ th'[t] = to /\ \A u \in Thread \ {t} : th'[u] = th[u]
    BY <2>1, Moving DEF Handover
  <2>3. UNCHANGED <<pc, i, target, deleted, joinlist, copy, fault>>
    BY <1>1 DEF InitialReturns, LockObject, Mark, Exit
  <2> QED
    BY <2>1, <2>2, <2>3, MoveQuiet DEF Ended
<1>2. CASE BeginPush(t)
  BY <1>2, BeginPushQuiet
<1>3. CASE EndPush(t)
  BY <1>3, EndPushQuiet
<1>4. ~Corrupt(t)
  BY NothingFails
<1> QED
  BY <1>1, <1>2, <1>3, <1>4 DEF ThreadStep

LEMMA MainQuiet == ASSUME Handover, Quiet, ~racing, MainStep PROVE Quiet'
<1>1. ~ReadGarbage /\ ~Terminate /\ ~UseDeleted /\ ~ErasePastEnd /\ ~Corrupt(Main)
  BY NothingFails
<1> QED
  BY <1>1, StartQuiet, LoopQuiet, DeleteQuiet, BeginEraseQuiet, EndEraseQuiet DEF MainStep

LEMMA Invariance == Spec => []IInv
<1>1. Init => IInv
  BY HandoverInit, QuietInit DEF IInv
<1>2. IInv /\ [Next]_vars => IInv'
  <2> SUFFICES ASSUME IInv, [Next]_vars PROVE IInv'
    OBVIOUS
  <2>1. Handover'
    BY HandoverStep DEF IInv
  <2>2. racing' = racing
    BY DEF Next, MainStep, ThreadStep, vars
  <2>3. ASSUME ~racing PROVE Quiet'
    <3>1. Handover /\ Quiet
      BY <2>3 DEF IInv
    <3>2. CASE UNCHANGED vars
      BY <3>1, <3>2
      DEF vars, Quiet, Distinct, OnlyEnded, OnlyErased, Apart, OnList, AtEntry
    <3> QED
      BY <2>3, <3>1, <3>2, MainQuiet, ThreadQuiet DEF Next
  <2> QED
    BY <2>1, <2>2, <2>3 DEF IInv
<1> QED
  BY <1>1, <1>2, PTL DEF Spec

(* While operations on joinlist do not overlap, the main thread never uses *)
(* an object after deleting it, never deletes one whose thread it has not  *)
(* joined, and never reads or erases past the end of the list, although    *)
(* threads go on pushing while it is in the loop.                          *)
THEOREM NothingIsLost == Spec => []NoFault
<1>1. IInv => NoFault
  BY DEF IInv, Quiet, NoFault
<1> QED
  BY <1>1, Invariance, PTL

(* ... and joinlist names each thread at most once, only threads whose     *)
(* initial block has returned, and only objects that exist.                *)
THEOREM HonestList == Spec => []ListIsHonest
<1>1. IInv => ListIsHonest
  BY DEF IInv, Quiet, Distinct, OnlyEnded, OnlyErased, Ended, ListIsHonest
<1> QED
  BY <1>1, Invariance, PTL
=============================================================================
