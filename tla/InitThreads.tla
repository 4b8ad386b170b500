----------------------------- MODULE InitThreads ----------------------------
(***************************************************************************)
(* The threads of the initial blocks (refresher.cpp, tinythread.cpp).      *)
(*                                                                         *)
(* Refresher::run starts one thread per module, which runs the module's    *)
(* initial(), puts the module's number on joinlist, and leaves through     *)
(* tinythread's wrapper, which marks the thread object under its mutex.    *)
(* Every refresh cycle of the main thread goes through joinlist, joins and *)
(* deletes the threads it finds there, and erases them from the list.      *)
(*                                                                         *)
(* joinlist is a std::vector and nothing guards it.  A push_back or an     *)
(* erase is therefore two steps, a read of the vector and the write of the *)
(* new one; an operation that overlaps another's two steps undoes it, or   *)
(* corrupts the heap when the vector is moved to new storage, and what is  *)
(* read of the vector between the two steps is undefined.  In half of the  *)
(* behaviours (racing FALSE) the initial blocks end so far apart that no   *)
(* operation on the list, a read included, overlaps another.               *)
(***************************************************************************)
EXTENDS Integers, Sequences, FiniteSets

CONSTANT Modules   \* number of modules, and of threads

ASSUME InitThreadsAssumption == Modules \in Nat \ {0}

Thread == 1 .. Modules

Main == 0

VARIABLES
  racing,      \* do operations on joinlist overlap?  (chosen once)
  pc,          \* where the main thread is
  started,     \* number of thread objects constructed, Len(thlist)
  i,           \* index of the join loop, from 1
  target,      \* the thread that the loop works on
  th,          \* th[t]: where thread t is
  mNotAThread, \* mNotAThread[t] of t's thread object
  mDataMutex,  \* the holder of the mutex of t's thread object, or NoOne
  deleted,     \* thread objects that were deleted
  joinlist,
  copy,        \* copy[x]: joinlist as x read it, inside an operation of x
  fault        \* "none", or how the process was lost

vars == <<racing, pc, started, i, target, th, mNotAThread, mDataMutex, deleted, joinlist, copy, fault>>

NoOne == -1

Init ==
  /\ racing \in BOOLEAN
  /\ pc = "start"
  /\ started = 0
  /\ i = 1
  /\ target = 1
  /\ th = [t \in Thread |-> "none"]
  /\ mNotAThread = [t \in Thread |-> TRUE]
  /\ mDataMutex = [t \in Thread |-> NoOne]
  /\ deleted = {}
  /\ joinlist = <<>>
  /\ copy = [x \in Thread \cup {Main} |-> <<>>]
  /\ fault = "none"

Fails(f) ==
  /\ fault' = f
  /\ UNCHANGED <<pc, started, i, target, th, mNotAThread, mDataMutex, deleted, joinlist, copy>>

-----------------------------------------------------------------------------
(* thread::thread: holds the mutex while it creates the thread.  When that *)
(* fails the object is marked as no thread.                                *)
StartThread ==
  /\ pc = "start"
  /\ started < Modules
  /\ LET t == started + 1
     IN  /\ mDataMutex' = [mDataMutex EXCEPT ![t] = Main]
         /\ \/ /\ mNotAThread' = [mNotAThread EXCEPT ![t] = FALSE]
               /\ th' = [th EXCEPT ![t] = "initial"]
            \/ /\ th' = [th EXCEPT ![t] = "failed"]
               /\ UNCHANGED mNotAThread
  /\ pc' = "started"
  /\ UNCHANGED <<started, i, target, deleted, joinlist, copy, fault>>

ThreadStarted ==
  /\ pc = "started"
  /\ mDataMutex' = [mDataMutex EXCEPT ![started + 1] = NoOne]
  /\ started' = started + 1
  /\ pc' = IF started' = Modules THEN "cycle" ELSE "start"
  /\ UNCHANGED <<i, target, th, mNotAThread, deleted, joinlist, copy, fault>>

-----------------------------------------------------------------------------
(* refresh_always: the loop over joinlist; the rest of the cycle is at     *)
(* pc = "cycle".                                                           *)
BeginJoins ==
  /\ pc = "cycle"
  /\ i' = 1
  /\ pc' = "check"
  /\ UNCHANGED <<started, target, th, mNotAThread, mDataMutex, deleted, joinlist, copy, fault>>

(* x is between the two steps of its push_back or erase.                   *)
OnList(x) ==
  IF x = Main THEN pc = "erasing" ELSE th[x] = "pushing"

MayUseList == racing \/ \A x \in Thread \cup {Main} : ~OnList(x)

(* A push_back moves the vector while the loop reads its size or an entry. *)
Disturbed == \E t \in Thread : OnList(t)

CheckList ==
  /\ pc = "check"
  /\ MayUseList
  /\ pc' \in IF Disturbed THEN {"read", "cycle"}
            ELSE {IF i <= Len(joinlist) THEN "read" ELSE "cycle"}
  /\ UNCHANGED <<started, i, target, th, mNotAThread, mDataMutex, deleted, joinlist, copy, fault>>

(* joinlist[i].  Past the end, and in storage that the vector has left,    *)
(* memory holds anything: any index of thlist (0, the first one, as fresh  *)
(* memory often does) or none.                                             *)
Listed == IF i <= Len(joinlist) /\ ~Disturbed THEN {joinlist[i]} ELSE Thread

(* The expression is read anew by the statement that deletes.              *)
ReadTarget ==
  /\ pc \in {"read", "reread"}
  /\ MayUseList
  /\ target' \in Listed
  /\ pc' = IF pc = "read" THEN "join" ELSE "delete"
  /\ UNCHANGED <<started, i, th, mNotAThread, mDataMutex, deleted, joinlist, copy, fault>>

ReadGarbage ==
  /\ pc \in {"read", "reread"}
  /\ MayUseList
  /\ i > Len(joinlist) \/ Disturbed
  /\ Fails("no such thread")

(* joinable() locks the mutex, reads the mark and unlocks.                 *)
Joinable_Inverted(t) == mNotAThread[t]

Joinable(t) == ~mNotAThread[t]

Join ==
  /\ pc = "join"
  /\ target \notin deleted
  /\ mDataMutex[target] = NoOne
  /\ pc' = IF Joinable(target) THEN "pthread_join" ELSE "reread"
  /\ UNCHANGED <<started, i, target, th, mNotAThread, mDataMutex, deleted, joinlist, copy, fault>>

PthreadJoin ==
  /\ pc = "pthread_join"
  /\ th[target] = "exited"
  /\ pc' = "reread"
  /\ UNCHANGED <<started, i, target, th, mNotAThread, mDataMutex, deleted, joinlist, copy, fault>>

(* thread::~thread.                                                        *)
Delete ==
  /\ pc = "delete"
  /\ target \notin deleted
  /\ mDataMutex[target] = NoOne
  /\ ~Joinable(target)
  /\ deleted' = deleted \cup {target}
  /\ pc' = "erase"
  /\ UNCHANGED <<started, i, target, th, mNotAThread, mDataMutex, joinlist, copy, fault>>

Terminate ==
  /\ pc = "delete"
  /\ target \notin deleted
  /\ mDataMutex[target] = NoOne
  /\ Joinable(target)
  /\ Fails("terminate")

UseDeleted ==
  /\ pc \in {"join", "delete"}
  /\ target \in deleted
  /\ Fails("main used a deleted thread")

-----------------------------------------------------------------------------
(* joinlist.push_back and joinlist.erase.                                  *)
ReadList(x) == copy' = [copy EXCEPT ![x] = joinlist]

WriteList(x, list) ==
  /\ joinlist' = list
  /\ copy' = [copy EXCEPT ![x] = <<>>]

(* Another operation was completed inside this one: the vector may be in   *)
(* other storage by now.                                                   *)
Overlapped(x) == joinlist # copy[x]

Corrupt(x) ==
  /\ OnList(x)
  /\ Overlapped(x)
  /\ Fails("heap corrupted")

RemovedAt_Next(seq, k) == SubSeq(seq, 1, k) \o SubSeq(seq, k + 2, Len(seq))

RemovedAt_ToEnd(seq, k) == SubSeq(seq, 1, k - 1)

RemovedAt(seq, k) == SubSeq(seq, 1, k - 1) \o SubSeq(seq, k + 1, Len(seq))

BeginErase ==
  /\ pc = "erase"
  /\ MayUseList
  /\ ReadList(Main)
  /\ pc' = "erasing"
  /\ UNCHANGED <<started, i, target, th, mNotAThread, mDataMutex, deleted, joinlist, fault>>

(* The loop goes on at i + 1: the entry that moved to i is left for the    *)
(* next cycle.                                                             *)
EndErase ==
  /\ pc = "erasing"
  /\ i <= Len(copy[Main])
  /\ WriteList(Main, RemovedAt(copy[Main], i))
  /\ i' = i + 1
  /\ pc' = "check"
  /\ UNCHANGED <<started, target, th, mNotAThread, mDataMutex, deleted, fault>>

(* Erasing past the end is undefined: it drops the last entry (libstdc++)  *)
(* or writes outside the vector.                                           *)
ErasePastEnd ==
  /\ pc = "erasing"
  /\ i > Len(copy[Main])
  /\ \/ /\ copy[Main] # <<>>
        /\ WriteList(Main, SubSeq(copy[Main], 1, Len(copy[Main]) - 1))
        /\ i' = i + 1
        /\ pc' = "check"
        /\ UNCHANGED <<started, target, th, mNotAThread, mDataMutex, deleted, fault>>
     \/ Fails("heap corrupted")

-----------------------------------------------------------------------------
(* init_dispatch_call in thread t, then the rest of wrapper_function.      *)
Moves(t, from, to) == th[t] = from /\ th' = [th EXCEPT ![t] = to]

InitialReturns(t) ==
  /\ Moves(t, "initial", "push")
  /\ UNCHANGED <<pc, started, i, target, mNotAThread, mDataMutex, deleted, joinlist, copy, fault>>

BeginPush(t) ==
  /\ Moves(t, "push", "pushing")
  /\ MayUseList
  /\ ReadList(t)
  /\ UNCHANGED <<pc, started, i, target, mNotAThread, mDataMutex, deleted, joinlist, fault>>

EndPush_ZeroBased(t) ==
  /\ Moves(t, "pushing", "wrapper")
  /\ WriteList(t, Append(copy[t], t - 1))
  /\ UNCHANGED <<pc, started, i, target, mNotAThread, mDataMutex, deleted, fault>>

EndPush_NextNumber(t) ==
  /\ Moves(t, "pushing", "wrapper")
  /\ WriteList(t, Append(copy[t], 1 + (t % Modules)))
  /\ UNCHANGED <<pc, started, i, target, mNotAThread, mDataMutex, deleted, fault>>

EndPush(t) ==
  /\ Moves(t, "pushing", "wrapper")
  /\ WriteList(t, Append(copy[t], t))
  /\ UNCHANGED <<pc, started, i, target, mNotAThread, mDataMutex, deleted, fault>>

LockObject(t) ==
  /\ Moves(t, "wrapper", "locked")
  /\ mDataMutex[t] = NoOne
  /\ mDataMutex' = [mDataMutex EXCEPT ![t] = t]
  /\ UNCHANGED <<pc, started, i, target, mNotAThread, deleted, joinlist, copy, fault>>

Mark(t) ==
  /\ Moves(t, "locked", "marked")
  /\ mNotAThread' = [mNotAThread EXCEPT ![t] = TRUE]
  /\ UNCHANGED <<pc, started, i, target, mDataMutex, deleted, joinlist, copy, fault>>

Exit(t) ==
  /\ Moves(t, "marked", "exited")
  /\ mDataMutex' = [mDataMutex EXCEPT ![t] = NoOne]
  /\ UNCHANGED <<pc, started, i, target, mNotAThread, deleted, joinlist, copy, fault>>

-----------------------------------------------------------------------------
MainStep ==
  /\ fault = "none"
  /\ UNCHANGED racing
  /\ \/ StartThread \/ ThreadStarted
     \/ BeginJoins \/ CheckList \/ ReadTarget \/ ReadGarbage
     \/ Join \/ PthreadJoin \/ Delete \/ Terminate \/ UseDeleted
     \/ BeginErase \/ EndErase \/ ErasePastEnd \/ Corrupt(Main)

(* What a thread does once its initial block has returned.                 *)
ThreadStep(t) ==
  /\ fault = "none"
  /\ UNCHANGED racing
  /\ \/ BeginPush(t) \/ EndPush(t) \/ Corrupt(t)
     \/ LockObject(t) \/ Mark(t) \/ Exit(t)

Next ==
  \/ MainStep
  \/ \E t \in Thread : ThreadStep(t)
  \/ fault = "none" /\ UNCHANGED racing /\ \E t \in Thread : InitialReturns(t)

(* The scheduler runs every thread; an initial block need not return.      *)
Spec ==
  /\ Init /\ [][Next]_vars
  /\ WF_vars(MainStep)
  /\ \A t \in Thread : WF_vars(ThreadStep(t))
-----------------------------------------------------------------------------
TypeOK ==
  /\ racing \in BOOLEAN
  /\ pc \in {"start", "started", "cycle", "check", "read", "join", "pthread_join",
             "reread", "delete", "erase", "erasing"}
  /\ started \in 0 .. Modules
  /\ i \in Nat \ {0}
  /\ target \in Thread
  /\ th \in [Thread -> {"none", "failed", "initial", "push", "pushing", "wrapper",
                        "locked", "marked", "exited"}]
  /\ mNotAThread \in [Thread -> BOOLEAN]
  /\ mDataMutex \in [Thread -> Thread \cup {Main, NoOne}]
  /\ deleted \subseteq Thread
  /\ joinlist \in Seq(Thread)
  /\ copy \in [Thread \cup {Main} -> Seq(Thread)]
  /\ fault \in {"none", "terminate", "main used a deleted thread",
                "no such thread", "heap corrupted"}

(* While operations on joinlist do not overlap, the main thread never      *)
(* joins or deletes an object it has deleted, and never deletes one whose  *)
(* thread it has not joined (which would end the process).                 *)
NoFault == racing \/ fault = "none"

(* ... and joinlist names threads whose initial block has returned, each   *)
(* once, and only objects that exist, but for the one about to be erased.  *)
ListIsHonest ==
  \/ racing
  \/ /\ \A k, l \in DOMAIN joinlist : joinlist[k] = joinlist[l] => k = l
     /\ \A k \in DOMAIN joinlist :
          /\ th[joinlist[k]] \in {"wrapper", "locked", "marked", "exited"}
          /\ joinlist[k] \in deleted => pc \in {"erase", "erasing"} /\ k = i

(* Even when they overlap, no wrapper marks an object that is gone: an     *)
(* object is deleted only once its thread has let go of the mutex.         *)
WrapperIsSafe ==
  \A t \in deleted : th[t] \notin {"initial", "push", "pushing", "wrapper", "locked", "marked"}

(* "Join all threads": a thread whose initial block returns is joined and  *)
(* its object deleted in the end, unless the process is lost before.       *)
AllJoined ==
  \A t \in Thread : th[t] = "push" ~> t \in deleted \/ fault # "none"

AllJoinedApart == ~racing => AllJoined

(* While operations on joinlist do not overlap, the simulation goes on     *)
(* whether or not the initial blocks ever return: the main thread waits    *)
(* only for threads that are on their way out.  When they overlap it may   *)
(* take an index from where no push_back has stored one, and wait for a    *)
(* thread whose initial block does not return.                             *)
MainCycles == ~racing => []<>(pc = "cycle")
=============================================================================
