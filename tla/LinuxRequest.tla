------------------------------ MODULE LinuxRequest ------------------------------
(***************************************************************************)
(* The completion of one request, LinuxRequest.java: threads wait in       *)
(* waitUntilCompleted, the thread that ends the request calls setCompleted *)
(* and then looks at waitCount, without the lock, to see if it need notify.*)
(*                                                                         *)
(* completed and waitCount are plain fields.  The Java memory model lets a *)
(* thread's store reach memory after its next load, unless it takes or     *)
(* leaves a lock in between; with StoreBuffering the model does the same.  *)
(***************************************************************************)
EXTENDS Naturals, FiniteSets

CONSTANTS
  Waiters,        \* threads that call waitUntilCompleted
  Nobody,         \* waitLock is free
  StoreBuffering  \* whether a store may reach memory after a later load

ASSUME WaitersAssumption == IsFiniteSet(Waiters) /\ Nobody \notin Waiters
ASSUME BufferingAssumption == StoreBuffering \in BOOLEAN

VARIABLES
  completed,      \* LinuxRequest.completed, in memory
  waitCount,      \* LinuxRequest.waitCount, in memory
  completedStore, \* the setter's store to completed is still on its way
  countStore,     \* so is the lock owner's store to waitCount
  waitLock,       \* the owner of waitLock
  stage,          \* where every waiter is in waitUntilCompleted
  setter          \* where the ending thread is in setCompleted

memoryVars == <<completed, waitCount, completedStore, countStore>>
vars == <<memoryVars, waitLock, stage, setter>>

Init ==
  /\ completed = FALSE /\ waitCount = 0
  /\ completedStore = FALSE /\ countStore = FALSE
  /\ waitLock = Nobody
  /\ stage = [w \in Waiters |-> "out"]
  /\ setter = "begin"

Goto(w, from, to) == stage[w] = from /\ stage' = [stage EXCEPT ![w] = to]

\* What waitCount is for the owner of waitLock, who sees its own store.
OwnCount == IF countStore THEN waitCount + 1 ELSE waitCount

(***************************************************************************)
(* waitUntilCompleted.                                                     *)
(***************************************************************************)
\* synchronized (waitLock) { waitCount++; ...
Enter(w) ==
  /\ waitLock = Nobody
  /\ Goto(w, "out", "check")
  /\ waitLock' = w
  /\ IF StoreBuffering
     THEN countStore' = TRUE /\ waitCount' = waitCount
     ELSE waitCount' = waitCount + 1 /\ countStore' = countStore
  /\ UNCHANGED <<completed, completedStore, setter>>

\* while (!isCompleted()): the loop goes on to wait ...
CheckFails(w) ==
  /\ ~ completed
  /\ Goto(w, "check", "wait")
  /\ UNCHANGED <<memoryVars, waitLock, setter>>

\* Mutant: the method returns when wait was interrupted.
LeaveAnyway(w) ==
  /\ Goto(w, "check", "returned")
  /\ waitCount' = OwnCount - 1 /\ countStore' = FALSE
  /\ waitLock' = Nobody
  /\ UNCHANGED <<completed, completedStore, setter>>

\* ... or it ends: waitCount--, and the lock is left.
Leave(w) ==
  /\ completed
  /\ Goto(w, "check", "returned")
  /\ waitCount' = OwnCount - 1 /\ countStore' = FALSE
  /\ waitLock' = Nobody
  /\ UNCHANGED <<completed, completedStore, setter>>

\* waitLock.wait() leaves the lock, so that the thread's stores reach memory.
Wait(w) ==
  /\ Goto(w, "wait", "waiting")
  /\ waitCount' = OwnCount /\ countStore' = FALSE
  /\ waitLock' = Nobody
  /\ UNCHANGED <<completed, completedStore, setter>>

\* wait() ends with InterruptedException, which is ignored.
Interrupted(w) ==
  /\ Goto(w, "waiting", "woken")
  /\ UNCHANGED <<memoryVars, waitLock, setter>>

\* A thread that leaves wait() takes the lock again.
Reacquire(w) ==
  /\ waitLock = Nobody
  /\ Goto(w, "woken", "check")
  /\ waitLock' = w
  /\ UNCHANGED <<memoryVars, setter>>

(***************************************************************************)
(* setCompleted(true) and notifyCompleted.                                 *)
(***************************************************************************)
\* Mutant: waiters are counted before completed is set.
setCompletedLate ==
  /\ setter = "begin" /\ setter' = "count"
  /\ completedStore' = TRUE
  /\ UNCHANGED <<completed, waitCount, countStore, waitLock, stage>>

\* completed = c
setCompleted ==
  /\ setter = "begin" /\ setter' = "count"
  /\ IF StoreBuffering
     THEN completedStore' = TRUE /\ completed' = completed
     ELSE completed' = TRUE /\ completedStore' = completedStore
  /\ UNCHANGED <<waitCount, countStore, waitLock, stage>>

\* if (0 < waitCount), outside the lock
CountWaiters ==
  /\ setter = "count"
  /\ setter' = IF 0 < waitCount THEN "notify" ELSE "end"
  /\ UNCHANGED <<memoryVars, waitLock, stage>>

\* Mutant: notify, not notifyAll.
NotifyOne ==
  /\ setter = "notify" /\ setter' = "end"
  /\ waitLock = Nobody
  /\ IF \E w \in Waiters : stage[w] = "waiting"
     THEN \E w \in Waiters : Goto(w, "waiting", "woken")
     ELSE stage' = stage
  /\ completed' = (completed \/ completedStore) /\ completedStore' = FALSE
  /\ UNCHANGED <<waitCount, countStore, waitLock>>

\* synchronized (waitLock) { waitLock.notifyAll(); }
NotifyAll ==
  /\ setter = "notify" /\ setter' = "end"
  /\ waitLock = Nobody
  /\ stage' = [w \in Waiters |-> IF stage[w] = "waiting" THEN "woken" ELSE stage[w]]
  /\ completed' = (completed \/ completedStore) /\ completedStore' = FALSE
  /\ UNCHANGED <<waitCount, countStore, waitLock>>

(***************************************************************************)
(* A store that was on its way reaches memory.                             *)
(***************************************************************************)
CompletedArrives ==
  /\ completedStore
  /\ completed' = TRUE /\ completedStore' = FALSE
  /\ UNCHANGED <<waitCount, countStore, waitLock, stage, setter>>

CountArrives ==
  /\ countStore
  /\ waitCount' = waitCount + 1 /\ countStore' = FALSE
  /\ UNCHANGED <<completed, completedStore, waitLock, stage, setter>>

StoresArrive == CompletedArrives \/ CountArrives

WaiterStep(w) == CheckFails(w) \/ Leave(w) \/ Wait(w) \/ Reacquire(w)

SetterStep == CountWaiters \/ NotifyAll

Next ==
  \/ \E w \in Waiters : Enter(w) \/ WaiterStep(w) \/ Interrupted(w)
  \/ setCompleted \/ SetterStep

Spec == Init /\ [][Next]_vars

\* The threads are scheduled.  Nothing is assumed of who gets waitLock, nor
\* that the request ends.
Fairness == (\A w \in Waiters : WF_vars(WaiterStep(w))) /\ WF_vars(SetterStep)

FairSpec == Spec /\ Fairness

\* The same with stores on their way, which arrive sometime.
NextOrArrival == Next \/ StoresArrive

BufferedSpec == Init /\ [][NextOrArrival]_vars /\ Fairness /\ WF_vars(StoresArrive)

--------------------------------------------------------------------------------
(***************************************************************************)
(* Correctness.                                                            *)
(***************************************************************************)
Stages == {"out", "check", "wait", "waiting", "woken", "returned"}
InsideStages == {"check", "wait", "waiting", "woken"}
Inside == {w \in Waiters : stage[w] \in InsideStages}

\* The values the variables take.
TypeOK ==
  /\ completed \in BOOLEAN /\ waitCount \in Nat
  /\ completedStore \in BOOLEAN /\ countStore \in BOOLEAN
  /\ waitLock \in Waiters \cup {Nobody}
  /\ stage \in [Waiters -> Stages]
  /\ setter \in {"begin", "count", "notify", "end"}

\* "Notify waiteers of completion": once setCompleted has returned, nobody is
\* in waitLock.wait(), or on the way there, although notifyCompleted reads
\* waitCount without the lock.
NobodyLeftWaiting ==
  setter = "end" => \A w \in Waiters : stage[w] \notin {"wait", "waiting"}

\* waitUntilCompleted returns only when the request has ended.
ReturnsCompleted == \A w \in Waiters : stage[w] = "returned" => setter # "begin"

\* Why these hold if stores arrive in order: waitCount counts the threads that
\* are inside, and who has seen "not completed" keeps waitLock until it waits.
OrderedInv ==
  /\ TypeOK /\ NobodyLeftWaiting /\ ReturnsCompleted
  /\ ~ completedStore /\ ~ countStore
  /\ completed <=> setter # "begin"
  /\ waitCount = Cardinality(Inside)
  /\ \A w \in Waiters : stage[w] \in {"check", "wait"} <=> waitLock = w

\* "Wait until completed": who waits for a request that ends returns.
WaitersReturn ==
  \A w \in Waiters : setter # "begin" /\ w \in Inside ~> stage[w] = "returned"
================================================================================
