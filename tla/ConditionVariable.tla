-------------------------- MODULE ConditionVariable -------------------------
(***************************************************************************)
(* tinythread's condition_variable as it is built for Win32 (tinythread.h, *)
(* tinythread.cpp), used as its documentation shows: threads that wait     *)
(* until a counter has reached their target, and one that increments it    *)
(* and notifies, all under one mutex.                                      *)
(*                                                                         *)
(* A condition_variable has two kernel events: ONE, which is reset by the  *)
(* thread that it wakes, and ALL, which stays set until the last waiter    *)
(* resets it.  mWaitersCount tells a notify whether anybody waits, and a   *)
(* woken thread whether it is the last.  It is guarded by a critical       *)
(* section of its own, mWaitersCountLock, but events are set and reset     *)
(* after that section was left.  (Elsewhere the class is a pthread_cond_t.)*)
(***************************************************************************)
EXTENDS Integers, FiniteSets

CONSTANTS
  Waiter,    \* the threads that call wait_counter
  Notifier,  \* the thread that calls increment
  Nobody,
  Target,    \* Target[w]: the targetCount of w
  MaxCount   \* bound on the counter

Thread == Waiter \cup {Notifier}

ASSUME ConditionVariableAssumption ==
  /\ IsFiniteSet(Waiter)
  /\ Notifier \notin Waiter
  /\ Nobody \notin Thread
  /\ Target \in [Waiter -> Nat]
  /\ MaxCount \in Nat

VARIABLES
  pc,             \* pc[t]: where thread t is
  count,          \* the client's counter
  owner,          \* the thread that has locked the client's mutex, or Nobody
  mWaitersCount,
  events,         \* which of mEvents are set
  announced,      \* the counter when notify_all last returned (history)
  overtaken,      \* waiters about to reset ALL, set again since (history)
  late            \* did such a reset happen?  (history)

vars == <<pc, count, owner, mWaitersCount, events, announced, overtaken, late>>

history == <<announced, overtaken, late>>

Init ==
  /\ pc = [t \in Thread |-> "lock"]
  /\ count = 0
  /\ owner = Nobody
  /\ mWaitersCount = 0
  /\ events = {}
  /\ announced = 0
  /\ overtaken = {}
  /\ late = FALSE

Goes(t, from, to) == pc[t] = from /\ pc' = [pc EXCEPT ![t] = to]

-----------------------------------------------------------------------------
(* mutex::lock and unlock.  No thread locks twice, so that mAlreadyLocked  *)
(* is set exactly while the mutex has an owner.                            *)
Lock(t) == owner = Nobody /\ owner' = t

Unlock(t) == owner = t /\ owner' = Nobody

-----------------------------------------------------------------------------
(* wait_counter: while(count < targetCount) cond.wait(m).                  *)
WaiterLocks(w) ==
  /\ Goes(w, "lock", "test")
  /\ Lock(w)
  /\ UNCHANGED <<count, mWaitersCount, events, history>>

WaiterReturns(w) ==
  /\ count >= Target[w]
  /\ Goes(w, "test", "done")
  /\ Unlock(w)
  /\ UNCHANGED <<count, mWaitersCount, events, history>>

(* condition_variable::wait.                                               *)
CountIn(w) ==
  /\ count < Target[w]
  /\ Goes(w, "test", "unlock")
  /\ mWaitersCount' = mWaitersCount + 1
  /\ UNCHANGED <<count, owner, events, history>>

WaitUnlocks(w) ==
  /\ Goes(w, "unlock", "wait")
  /\ Unlock(w)
  /\ UNCHANGED <<count, mWaitersCount, events, history>>

(* WaitForMultipleObjects: of two events that are set it takes ONE, the    *)
(* first, and resets it.                                                   *)
WaitForEvents(w) ==
  /\ \/ /\ "ONE" \in events
        /\ Goes(w, "wait", "woken by one")
        /\ events' = events \ {"ONE"}
     \/ /\ events = {"ALL"}
        /\ Goes(w, "wait", "woken by all")
        /\ UNCHANGED events
     \/ /\ events = {}
        /\ Goes(w, "wait", "blocked")
        /\ UNCHANGED events
  /\ UNCHANGED <<count, owner, mWaitersCount, history>>

(* Only the last of the waiters that ALL has woken resets it.              *)
IsLast_Any(n) == TRUE

IsLast(n) == n = 0

OneLess_Kept(n) == n

OneLess(n) == n - 1

CountOut(w) ==
  /\ mWaitersCount' = OneLess(mWaitersCount)
  /\ \/ Goes(w, "woken by one", "lock")
     \/ ~IsLast(mWaitersCount') /\ Goes(w, "woken by all", "lock")
     \/ IsLast(mWaitersCount') /\ Goes(w, "woken by all", "reset")
  /\ UNCHANGED <<count, owner, events, history>>

ResetAll(w) ==
  /\ Goes(w, "reset", "lock")
  /\ events' = events \ {"ALL"}
  /\ overtaken' = overtaken \ {w}
  /\ late' = (late \/ w \in overtaken)
  /\ UNCHANGED <<count, owner, mWaitersCount, announced>>

-----------------------------------------------------------------------------
(* increment, with notify_one or notify_all.                               *)
NotifierLocks ==
  /\ count < MaxCount
  /\ Goes(Notifier, "lock", "increment")
  /\ Lock(Notifier)
  /\ UNCHANGED <<count, mWaitersCount, events, history>>

Increment ==
  /\ count' = count + 1
  /\ \E call \in {"one", "all"} : Goes(Notifier, "increment", call)
  /\ UNCHANGED <<owner, mWaitersCount, events, history>>

HaveWaiters_Several == mWaitersCount > 1

HaveWaiters == mWaitersCount > 0

FindWaiters ==
  /\ HaveWaiters
  /\ Goes(Notifier, "one", "set one") \/ Goes(Notifier, "all", "set all")
  /\ UNCHANGED <<count, owner, mWaitersCount, events, history>>

FindNoWaiters ==
  /\ ~HaveWaiters
  /\ Goes(Notifier, "one", "unlock") \/ Goes(Notifier, "all", "unlock")
  /\ announced' = IF pc[Notifier] = "all" THEN count ELSE announced
  /\ UNCHANGED <<count, owner, mWaitersCount, events, overtaken, late>>

Blocked == {w \in Waiter : pc[w] = "blocked"}

(* SetEvent(ONE): an event that was set already stays as it is.            *)
SetOne ==
  /\ pc[Notifier] = "set one"
  /\ \/ /\ Blocked = {}
        /\ events' = events \cup {"ONE"}
        /\ pc' = [pc EXCEPT ![Notifier] = "unlock"]
     \/ \E w \in Blocked :
          /\ pc' = [pc EXCEPT ![Notifier] = "unlock", ![w] = "woken by one"]
          /\ UNCHANGED events
  /\ UNCHANGED <<count, owner, mWaitersCount, history>>

SetAll ==
  /\ pc[Notifier] = "set all"
  /\ events' = events \cup {"ALL"}
  /\ pc' = [t \in Thread |-> CASE t = Notifier -> "unlock"
                               [] t \in Blocked -> "woken by all"
                               [] OTHER -> pc[t]]
  /\ announced' = count
  /\ overtaken' = overtaken \cup {w \in Waiter : pc[w] = "reset"}
  /\ UNCHANGED <<count, owner, mWaitersCount, late>>

NotifierUnlocks ==
  /\ Goes(Notifier, "unlock", "lock")
  /\ Unlock(Notifier)
  /\ UNCHANGED <<count, mWaitersCount, events, history>>

-----------------------------------------------------------------------------
WaiterStep(w) ==
  \/ WaiterReturns(w) \/ CountIn(w) \/ WaitUnlocks(w) \/ WaitForEvents(w)
  \/ CountOut(w) \/ ResetAll(w)

NotifierStep ==
  Increment \/ FindWaiters \/ FindNoWaiters \/ SetOne \/ SetAll \/ NotifierUnlocks

Next ==
  \/ \E w \in Waiter : WaiterLocks(w) \/ WaiterStep(w)
  \/ NotifierLocks \/ NotifierStep

(* Every thread runs, and gets a mutex that is free again and again; the   *)
(* counter need not be incremented.                                        *)
Spec ==
  /\ Init /\ [][Next]_vars
  /\ WF_vars(NotifierStep)
  /\ \A w \in Waiter : WF_vars(WaiterStep(w)) /\ SF_vars(WaiterLocks(w))
-----------------------------------------------------------------------------
TypeOK ==
  /\ \A w \in Waiter :
       pc[w] \in {"lock", "test", "unlock", "wait", "blocked", "woken by one",
                  "woken by all", "reset", "done"}
  /\ pc[Notifier] \in {"lock", "increment", "one", "all", "set one", "set all", "unlock"}
  /\ count \in 0 .. MaxCount
  /\ owner \in Thread \cup {Nobody}
  /\ mWaitersCount \in 0 .. Cardinality(Waiter)
  /\ events \subseteq {"ONE", "ALL"}
  /\ announced \in 0 .. count
  /\ overtaken \subseteq {w \in Waiter : pc[w] = "reset"}
  /\ late \in BOOLEAN

(* "All threads that are blocked waiting for this condition variable will  *)
(* be woken up" (notify_all, tinythread.h): no thread sleeps although a    *)
(* notify_all was called after its condition came true, unless the last    *)
(* waiter of an earlier notify_all was so late with its ResetEvent that it *)
(* erased the later SetEvent.                                              *)
SleepsOnlyByLateReset ==
  \A w \in Blocked : announced >= Target[w] => late

(* Short of that, every thread whose condition a notify_all announced      *)
(* returns from wait_counter, although others are woken with it for        *)
(* nothing, wait again while ALL is still set, and compete for the mutex.  *)
AnnouncedReturn ==
  \A w \in Waiter : announced >= Target[w] ~> pc[w] = "done" \/ late
=============================================================================
