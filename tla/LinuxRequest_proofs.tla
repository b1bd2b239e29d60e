-------------------------- MODULE LinuxRequest_proofs --------------------------
(***************************************************************************)
(* Proofs about LinuxRequest: if stores reach memory in order, no waiting  *)
(* thread misses the end of its request, for any number of threads.        *)
(***************************************************************************)
EXTENDS LinuxRequest, FiniteSetTheorems, TLAPS

\* The threads inside waitUntilCompleted are finitely many.
LEMMA InsideFinite == IsFiniteSet(Inside) /\ Cardinality(Inside) \in Nat
<1>1. Inside \in SUBSET Waiters
  BY DEF Inside
<1>2. IsFiniteSet(Inside)
  BY <1>1, WaitersAssumption, FS_Subset
<1>. QED BY <1>2, FS_CardinalityType

\* Nobody waits when the request is created.
LEMMA InvInit == Init => OrderedInv
<1> SUFFICES ASSUME Init PROVE OrderedInv
  OBVIOUS
<1>1. Inside = {}
  BY DEF Init, Inside, InsideStages
<1>2. Cardinality(Inside) = 0
  BY <1>1, FS_EmptySet
<1>. QED
  BY <1>2, WaitersAssumption
     DEF Init, OrderedInv, TypeOK, NobodyLeftWaiting, ReturnsCompleted, Stages

\* A thread takes waitLock for the first time and is counted.
LEMMA EnterInv ==
  ASSUME ~ StoreBuffering, OrderedInv, NEW w \in Waiters, Enter(w)
  PROVE  OrderedInv'
<1>1. /\ stage[w] = "out" /\ stage' = [stage EXCEPT ![w] = "check"]
      /\ waitLock = Nobody /\ waitLock' = w
      /\ waitCount' = waitCount + 1
      /\ UNCHANGED <<completed, completedStore, countStore, setter>>
  BY DEF Enter, Goto
<1>2. w \notin Inside /\ Inside' = Inside \cup {w}
  BY <1>1 DEF OrderedInv, TypeOK, Inside, InsideStages
<1>3. waitCount' = Cardinality(Inside')
  BY <1>1, <1>2, InsideFinite, FS_AddElement DEF OrderedInv
<1>4. \A v \in Waiters : stage'[v] \in {"check", "wait"} <=> waitLock' = v
  BY <1>1, WaitersAssumption DEF OrderedInv, TypeOK
<1>. QED
  BY <1>1, <1>3, <1>4
     DEF OrderedInv, TypeOK, NobodyLeftWaiting, ReturnsCompleted, Stages

\* A thread that finds the request completed is no longer counted.
LEMMA LeaveInv ==
  ASSUME OrderedInv, NEW w \in Waiters, Leave(w)
  PROVE  OrderedInv'
<1>1. /\ stage[w] = "check" /\ stage' = [stage EXCEPT ![w] = "returned"]
      /\ waitLock' = Nobody /\ completed
      /\ waitCount' = waitCount - 1
      /\ UNCHANGED <<completed, completedStore, setter>> /\ countStore' = FALSE
  BY DEF Leave, Goto, OwnCount, OrderedInv
<1>2. w \in Inside /\ Inside' = Inside \ {w}
  BY <1>1 DEF OrderedInv, TypeOK, Inside, InsideStages
<1>3. waitCount' = Cardinality(Inside')
  BY <1>1, <1>2, InsideFinite, FS_RemoveElement DEF OrderedInv
<1>4. IsFiniteSet(Inside')
  BY <1>2, InsideFinite, FS_RemoveElement
<1>5. waitCount' \in Nat
  BY <1>3, <1>4, FS_CardinalityType
<1>6. \A v \in Waiters : stage'[v] \in {"check", "wait"} <=> waitLock' = v
  BY <1>1, WaitersAssumption DEF OrderedInv, TypeOK
<1>. QED
  BY <1>1, <1>3, <1>5, <1>6
     DEF OrderedInv, TypeOK, NobodyLeftWaiting, ReturnsCompleted, Stages

\* The other steps of a waiting thread: it stays inside.  It goes to wait only
\* if the request is not completed, and keeps waitLock on the way.
LEMMA WaiterInv ==
  ASSUME OrderedInv, NEW w \in Waiters,
         CheckFails(w) \/ Wait(w) \/ Interrupted(w) \/ Reacquire(w)
  PROVE  OrderedInv'
<1>1. /\ UNCHANGED <<completed, completedStore, setter>>
      /\ waitCount' = waitCount /\ ~ countStore'
  BY DEF CheckFails, Wait, Interrupted, Reacquire, OwnCount, OrderedInv, memoryVars
<1>2. Inside' = Inside
  BY DEF CheckFails, Wait, Interrupted, Reacquire, Goto, OrderedInv, TypeOK, Inside, InsideStages
<1>3. TypeOK'
  BY <1>1 DEF CheckFails, Wait, Interrupted, Reacquire, Goto, OrderedInv, TypeOK, Stages, memoryVars
<1>4. NobodyLeftWaiting' /\ ReturnsCompleted'
  BY <1>1 DEF CheckFails, Wait, Interrupted, Reacquire, Goto, OrderedInv, TypeOK,
              NobodyLeftWaiting, ReturnsCompleted
<1>5. \A v \in Waiters : stage'[v] \in {"check", "wait"} <=> waitLock' = v
  BY WaitersAssumption DEF CheckFails, Wait, Interrupted, Reacquire, Goto, OrderedInv, TypeOK
<1>. QED BY <1>1, <1>2, <1>3, <1>4, <1>5 DEF OrderedInv

\* setCompleted and notifyCompleted: a count of 0 means that nobody is inside,
\* and notifyAll, under waitLock, reaches everybody who waits.
LEMMA SetterInv ==
  ASSUME ~ StoreBuffering, OrderedInv, setCompleted \/ SetterStep
  PROVE  OrderedInv'
<1>1. CASE setCompleted
  <2>1. Inside' = Inside
    BY <1>1 DEF setCompleted, Inside
  <2>. QED BY <1>1, <2>1 DEF setCompleted, OrderedInv, TypeOK, NobodyLeftWaiting, ReturnsCompleted
<1>2. CASE CountWaiters
  <2>1. Inside' = Inside
    BY <1>2 DEF CountWaiters, Inside
  <2>2. ASSUME setter' = "end"
        PROVE  Inside = {}
    BY <1>2, <2>2, InsideFinite, FS_EmptySet DEF CountWaiters, OrderedInv
  <2>3. NobodyLeftWaiting'
    BY <1>2, <2>2 DEF CountWaiters, NobodyLeftWaiting, Inside, InsideStages
  <2>. QED
    BY <1>2, <2>1, <2>3 DEF CountWaiters, memoryVars, OrderedInv, TypeOK, ReturnsCompleted
<1>3. CASE NotifyAll
  <2>1. Inside' = Inside
    BY <1>3 DEF NotifyAll, Inside, InsideStages, OrderedInv, TypeOK
  <2>2. NobodyLeftWaiting'
    BY <1>3, WaitersAssumption DEF NotifyAll, NobodyLeftWaiting, OrderedInv, TypeOK
  <2>. QED
    BY <1>3, <2>1, <2>2 DEF NotifyAll, OrderedInv, TypeOK, ReturnsCompleted, Stages
<1>. QED BY <1>1, <1>2, <1>3 DEF SetterStep

\* The invariant of a build in which stores reach memory in order.
THEOREM OrderedInvariance == ~ StoreBuffering /\ Spec => []OrderedInv
<1> SUFFICES ASSUME ~ StoreBuffering PROVE Spec => []OrderedInv
  OBVIOUS
<1>1. OrderedInv /\ [Next]_vars => OrderedInv'
  <2> SUFFICES ASSUME OrderedInv, [Next]_vars PROVE OrderedInv'
    OBVIOUS
  <2>1. CASE UNCHANGED vars
    BY <2>1 DEF vars, memoryVars, OrderedInv, TypeOK, NobodyLeftWaiting, ReturnsCompleted,
                      Inside
  <2>. QED
    BY <2>1, EnterInv, LeaveInv, WaiterInv, SetterInv DEF Next, WaiterStep
<1>. QED BY <1>1, InvInit, PTL DEF Spec

\* Once setCompleted has returned nobody waits any more, with any number of
\* threads: notifyCompleted may read waitCount without the lock.
THEOREM NobodyLeftWaitingHolds == ~ StoreBuffering /\ Spec => []NobodyLeftWaiting
<1>1. OrderedInv => NobodyLeftWaiting
  BY DEF OrderedInv
<1>. QED BY <1>1, OrderedInvariance, PTL

(***************************************************************************)
(* What is left if stores may be late.  waitCount may then be read too     *)
(* low (wait_buffered shows a waiter left behind); but the lock is still   *)
(* kept and the count, with the store on its way, is still exact, so that  *)
(* nobody returns early, and a notification, if there is one, is enough.   *)
(***************************************************************************)
BufferedInv ==
  /\ TypeOK /\ ReturnsCompleted
  /\ completed \/ completedStore <=> setter # "begin"
  /\ countStore => waitLock # Nobody
  /\ OwnCount = Cardinality(Inside)
  /\ \A w \in Waiters : stage[w] \in {"check", "wait"} <=> waitLock = w

LEMMA BufferedInit == Init => BufferedInv
<1>. SUFFICES ASSUME Init PROVE BufferedInv
  OBVIOUS
<1>1. Inside = {} /\ Cardinality(Inside) = 0
  BY FS_EmptySet DEF Init, Inside, InsideStages
<1>. QED
  BY <1>1, WaitersAssumption DEF Init, BufferedInv, TypeOK, OwnCount, ReturnsCompleted, Stages

\* A thread that enters counts itself, in memory or in its own store.
LEMMA BufferedEnter ==
  ASSUME BufferedInv, NEW w \in Waiters, Enter(w)
  PROVE  BufferedInv'
<1>1. /\ stage[w] = "out" /\ stage' = [stage EXCEPT ![w] = "check"]
      /\ waitLock = Nobody /\ waitLock' = w /\ ~ countStore
      /\ UNCHANGED <<completed, completedStore, setter>>
  BY DEF Enter, Goto, BufferedInv
<1>2. w \notin Inside /\ Inside' = Inside \cup {w}
  BY <1>1 DEF BufferedInv, TypeOK, Inside, InsideStages
<1>3. /\ waitCount' \in Nat /\ countStore' \in BOOLEAN
      /\ OwnCount' = OwnCount + 1
  <2>1. waitCount \in Nat /\ countStore = FALSE /\ OwnCount = waitCount
    BY <1>1 DEF BufferedInv, TypeOK, OwnCount
  <2>2. CASE StoreBuffering
    BY <2>1, <2>2 DEF Enter, OwnCount
  <2>3. CASE ~ StoreBuffering
    <3>1. waitCount' = waitCount + 1 /\ countStore' = FALSE
      BY <2>1, <2>3 DEF Enter
    <3>2. countStore' \in BOOLEAN /\ OwnCount' = waitCount'
      BY <3>1 DEF OwnCount
    <3>3. waitCount' = waitCount + 1
      BY <3>1
    <3>4. waitCount' \in Nat /\ OwnCount' = OwnCount + 1
      BY <2>1, <3>2, <3>3
    <3>. QED BY <3>2, <3>4
  <2>. QED BY <2>2, <2>3
<1>4. OwnCount' = Cardinality(Inside')
  BY <1>2, <1>3, InsideFinite, FS_AddElement DEF BufferedInv
<1>5. \A v \in Waiters : stage'[v] \in {"check", "wait"} <=> waitLock' = v
  BY <1>1, WaitersAssumption DEF BufferedInv, TypeOK
<1>. QED
  BY <1>1, <1>3, <1>4, <1>5, WaitersAssumption DEF BufferedInv, TypeOK, ReturnsCompleted, Stages

\* A thread leaves only when it has read completed.
LEMMA BufferedLeave ==
  ASSUME BufferedInv, NEW w \in Waiters, Leave(w)
  PROVE  BufferedInv'
<1>1. /\ stage[w] = "check" /\ stage' = [stage EXCEPT ![w] = "returned"]
      /\ waitLock' = Nobody /\ completed
      /\ waitCount' = OwnCount - 1 /\ countStore' = FALSE
      /\ UNCHANGED <<completed, completedStore, setter>>
  BY DEF Leave, Goto
<1>2. w \in Inside /\ Inside' = Inside \ {w}
  BY <1>1 DEF BufferedInv, TypeOK, Inside, InsideStages
<1>3. waitCount' = Cardinality(Inside')
  BY <1>1, <1>2, InsideFinite, FS_RemoveElement DEF BufferedInv
<1>4. IsFiniteSet(Inside')
  BY <1>2, InsideFinite, FS_RemoveElement
<1>5. waitCount' \in Nat /\ OwnCount' = waitCount'
  BY <1>1, <1>3, <1>4, FS_CardinalityType DEF OwnCount
<1>6. \A v \in Waiters : stage'[v] \in {"check", "wait"} <=> waitLock' = v
  BY <1>1, WaitersAssumption DEF BufferedInv, TypeOK
<1>. QED
  BY <1>1, <1>3, <1>5, <1>6 DEF BufferedInv, TypeOK, ReturnsCompleted, Stages

\* Waiting, being woken and stores that arrive change where the count is, not
\* what it is.
LEMMA BufferedWaiter ==
  ASSUME BufferedInv, NEW w \in Waiters,
         CheckFails(w) \/ Wait(w) \/ Interrupted(w) \/ Reacquire(w)
  PROVE  BufferedInv'
<1>1. UNCHANGED <<completed, completedStore, setter>>
  BY DEF CheckFails, Wait, Interrupted, Reacquire, memoryVars
<1>2. Inside' = Inside
  BY DEF CheckFails, Wait, Interrupted, Reacquire, Goto, BufferedInv, TypeOK, Inside, InsideStages
<1>3. waitCount' \in Nat /\ countStore' \in BOOLEAN /\ OwnCount' = OwnCount
  <2>1. waitCount \in Nat /\ countStore \in BOOLEAN /\ OwnCount \in Nat
    BY DEF BufferedInv, TypeOK, OwnCount
  <2>2. CASE Wait(w)
    BY <2>1, <2>2 DEF Wait, OwnCount
  <2>3. CASE CheckFails(w) \/ Interrupted(w) \/ Reacquire(w)
    BY <2>1, <2>3 DEF CheckFails, Interrupted, Reacquire, memoryVars, OwnCount
  <2>. QED BY <2>2, <2>3
<1>4. \A v \in Waiters : stage'[v] \in {"check", "wait"} <=> waitLock' = v
  BY WaitersAssumption DEF CheckFails, Wait, Interrupted, Reacquire, Goto, BufferedInv, TypeOK
<1>5. TypeOK' /\ ReturnsCompleted' /\ (countStore' => waitLock' # Nobody)
  BY <1>1, <1>3, WaitersAssumption DEF CheckFails, Wait, Interrupted, Reacquire, Goto, BufferedInv,
     TypeOK, ReturnsCompleted, Stages, memoryVars
<1>. QED BY <1>1, <1>2, <1>3, <1>4, <1>5 DEF BufferedInv

LEMMA BufferedRest ==
  ASSUME BufferedInv, setCompleted \/ SetterStep \/ StoresArrive \/ UNCHANGED vars
  PROVE  BufferedInv'
<1>1. Inside' = Inside
  BY DEF setCompleted, SetterStep, CountWaiters, NotifyAll, StoresArrive, CompletedArrives,
     CountArrives, vars, BufferedInv, TypeOK, Inside, InsideStages
<1>2. waitCount' \in Nat /\ countStore' \in BOOLEAN /\ OwnCount' = OwnCount
  <2>1. waitCount \in Nat /\ countStore \in BOOLEAN
    BY DEF BufferedInv, TypeOK
  <2>2. CASE CountArrives
    <3>1. countStore = TRUE /\ countStore' = FALSE /\ waitCount' = waitCount + 1
      BY <2>1, <2>2 DEF CountArrives
    <3>2. countStore' \in BOOLEAN /\ OwnCount' = OwnCount
      BY <3>1 DEF OwnCount
    <3>3. waitCount' \in Nat
      BY <2>1, <3>1
    <3>. QED BY <3>2, <3>3
  <2>3. CASE setCompleted \/ SetterStep \/ CompletedArrives \/ UNCHANGED vars
    BY <2>1, <2>3 DEF setCompleted, SetterStep, CountWaiters, NotifyAll, CompletedArrives, vars,
       memoryVars, OwnCount
  <2>. QED BY <2>2, <2>3 DEF StoresArrive
<1>3. waitLock' = waitLock /\ (countStore' => countStore)
  BY DEF setCompleted, SetterStep, CountWaiters, NotifyAll, StoresArrive, CompletedArrives,
     CountArrives, vars, memoryVars
<1>4. \A v \in Waiters : stage'[v] \in {"check", "wait"} <=> waitLock' = v
  BY DEF setCompleted, SetterStep, CountWaiters, NotifyAll, StoresArrive, CompletedArrives,
     CountArrives, vars, memoryVars, BufferedInv, TypeOK
<1>5. /\ completed' \in BOOLEAN /\ completedStore' \in BOOLEAN
      /\ setter' \in {"begin", "count", "notify", "end"}
      /\ completed' \/ completedStore' <=> setter' # "begin"
      /\ setter # "begin" => setter' # "begin"
  <2>1. /\ completed \in BOOLEAN /\ completedStore \in BOOLEAN
        /\ setter \in {"begin", "count", "notify", "end"}
        /\ completed = TRUE \/ completedStore = TRUE <=> setter # "begin"
    BY DEF BufferedInv, TypeOK
  <2>2. CASE setCompleted
    <3>1. CASE StoreBuffering
      BY <2>1, <2>2, <3>1 DEF setCompleted
    <3>2. CASE ~ StoreBuffering
      BY <2>1, <2>2, <3>2 DEF setCompleted
    <3>. QED BY <3>1, <3>2
  <2>3. CASE CountWaiters
    BY <2>1, <2>3 DEF CountWaiters, memoryVars
  <2>4. CASE NotifyAll
    <3>1. completed' = TRUE /\ completedStore' = FALSE
      BY <2>1, <2>4 DEF NotifyAll
    <3>. QED BY <3>1, <2>4 DEF NotifyAll
  <2>5. CASE CompletedArrives
    <3>1. completed' = TRUE /\ completedStore' = FALSE /\ setter # "begin" /\ setter' = setter
      BY <2>1, <2>5 DEF CompletedArrives
    <3>. QED BY <2>1, <3>1
  <2>6. CASE CountArrives \/ UNCHANGED vars
    BY <2>1, <2>6 DEF CountArrives, vars, memoryVars
  <2>. QED BY <2>2, <2>3, <2>4, <2>5, <2>6 DEF SetterStep, StoresArrive
<1>6. stage' \in [Waiters -> Stages] /\ \A v \in Waiters : stage'[v] = "returned" => stage[v] = "returned"
  BY DEF setCompleted, SetterStep, CountWaiters, NotifyAll, StoresArrive, CompletedArrives,
     CountArrives, vars, memoryVars, BufferedInv, TypeOK, Stages
<1>. QED BY <1>1, <1>2, <1>3, <1>4, <1>5, <1>6 DEF BufferedInv, TypeOK, ReturnsCompleted

\* The invariant of a build in which stores may be late, and of one in which
\* they are not.
THEOREM BufferedInvariance == Spec \/ BufferedSpec => []BufferedInv
<1>1. BufferedInv /\ [NextOrArrival]_vars => BufferedInv'
  BY BufferedEnter, BufferedLeave, BufferedWaiter, BufferedRest DEF NextOrArrival, Next, WaiterStep
<1>2. [Next]_vars => [NextOrArrival]_vars
  BY DEF NextOrArrival
<1>. QED BY <1>1, <1>2, BufferedInit, PTL DEF Spec, BufferedSpec

\* waitUntilCompleted does not return before the request has ended, however
\* late stores are.
THEOREM ReturnsCompletedHolds == Spec \/ BufferedSpec => []ReturnsCompleted
<1>1. BufferedInv => ReturnsCompleted
  BY DEF BufferedInv
<1>. QED BY <1>1, BufferedInvariance, PTL

\* The request has ended for all to see, and nobody waits for that.
Served == completed /\ \A w \in Waiters : stage[w] \notin {"wait", "waiting"}

\* One notification is enough for ever, however late stores are: so the only
\* way to be left behind is that notifyCompleted, reading waitCount without
\* the lock, sends none.
THEOREM NotificationReachesAll ==
  Spec \/ BufferedSpec => [][NotifyAll \/ Served => Served']_vars
<1>1. ASSUME BufferedInv, NotifyAll PROVE Served'
  <2>1. completed'
    BY <1>1 DEF NotifyAll, BufferedInv, TypeOK
  <2>2. \A w \in Waiters : stage[w] # "wait"
    BY <1>1, WaitersAssumption DEF NotifyAll, BufferedInv
  <2>. QED BY <1>1, <2>1, <2>2 DEF NotifyAll, Served
<1>2. ASSUME BufferedInv, Served, NextOrArrival PROVE Served'
  <2>1. completed'
    BY <1>2 DEF Served, BufferedInv, TypeOK, NextOrArrival, Next, Enter, WaiterStep, CheckFails, Leave, Wait,
       Interrupted, Reacquire, setCompleted, SetterStep, CountWaiters, NotifyAll, StoresArrive,
       CompletedArrives, CountArrives, memoryVars
  <2>2. ASSUME NEW v \in Waiters, Enter(v) \/ WaiterStep(v) \/ Interrupted(v)
        PROVE  \A w \in Waiters : stage'[w] \notin {"wait", "waiting"}
    BY <1>2, <2>2 DEF Served, BufferedInv, TypeOK, Enter, WaiterStep, CheckFails, Leave, Wait,
       Interrupted, Reacquire, Goto
  <2>3. ASSUME setCompleted \/ SetterStep \/ StoresArrive
        PROVE  \A w \in Waiters : stage'[w] \notin {"wait", "waiting"}
    BY <1>2, <2>3 DEF Served, setCompleted, SetterStep, CountWaiters, NotifyAll, StoresArrive,
       CompletedArrives, CountArrives
  <2>. QED BY <1>2, <2>1, <2>2, <2>3 DEF Served, NextOrArrival, Next
<1>3. BufferedInv /\ [NextOrArrival]_vars => [NotifyAll \/ Served => Served']_vars
  BY <1>1, <1>2
<1>4. [Next]_vars => [NextOrArrival]_vars
  BY DEF NextOrArrival
<1>. QED BY <1>3, <1>4, BufferedInvariance, PTL DEF Spec, BufferedSpec
================================================================================
