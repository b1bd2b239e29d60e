------------------------- MODULE LinuxUsbServices_proofs -------------------------
(***************************************************************************)
(* Proofs about LinuxUsbServices: what getUsbRootHub answers, and that who *)
(* waits in it has something to wait for, for any number of threads.       *)
(***************************************************************************)
EXTENDS LinuxUsbServices, TopologyUpdater_proofs

\* What holds of the updates holds of them here: callers and the listener change
\* nothing that an update uses but the queue and the change to be reported.
LEMMA UpdaterUsed == Spec => TopologySpec
<1>1. Init => TopologyInit
  BY DEF Init
<1>2. [Next]_vars => [TopologyNext]_topologyVars
  BY DEF Next, Call, ListenerCalls, getUsbRootHub, Interrupted, Answer, ListenerStep, open, PollIn,
     topologyListenerExit, ListenerEnds, PollError, Update, TopologyNext, UpdaterStep, vars
<1>. QED BY <1>1, <1>2, PTL DEF Spec, TopologySpec

\* What a step of the updater does to the result of the last update.
LEMMA ResultStep ==
  ASSUME UpdaterStep, updateResult \in {0, Error}
  PROVE  /\ updateResult' \in {0, Error}
         /\ updateResult = Error => updateResult' = Error \/ ScanEnds
         /\ updater' \notin {"idle", "scan"} /\ ~ ScanEnds =>
              (updater \notin {"idle", "scan"} /\ updateResult' = updateResult) \/ updateResult' = Error
BY DEF UpdaterStep, updateTopology, build_device, ScanEnds, disconnect, attachUsbDeviceImp,
   UpdateEnds, UpdaterGoes

\* Only the owner of the monitor starts a listener, and it does not wait yet.
LEMMA CallerInv ==
  ASSUME ServicesInv,
         \/ (\E c \in Clients : Call(c)) \/ ListenerCalls
         \/ \E t \in Threads : getUsbRootHub(t) \/ Interrupted(t) \/ Answer(t)
  PROVE  ServicesInv'
<1>. USE ThreadsAssumption DEF ServicesInv, ServicesTypeOK, InMonitor, Goto, Threads,
         topologyVars, listenerVars
<1>1. ASSUME NEW t \in Threads, Call(t) PROVE ServicesInv'
  BY <1>1 DEF Call
<1>2. ASSUME NEW t \in Threads, getUsbRootHub(t) PROVE ServicesInv'
  <2>1. CASE isListening
    BY <1>2, <2>1 DEF getUsbRootHub
  <2>2. CASE ~ isListening
    <3>1. /\ listener' = "opening" /\ pollingError' = 0 /\ listenerError' = 0 /\ owner' = t
          /\ owner = Nobody /\ stage' = [stage EXCEPT ![t] = "waiting"]
          /\ UNCHANGED <<updater, updateResult, scanned>>
      BY <1>2, <2>2 DEF getUsbRootHub, startTopologyListener
    <3>2. 0 \in 0 .. MAX_POLLING_ERRORS + 1 /\ 0 <= MAX_POLLING_ERRORS
      BY PollingAssumption
    <3>3. \A u \in Threads \ {t} : ~ InMonitor(u)
      BY <3>1
    <3>. QED BY <3>1, <3>2, <3>3
  <2>. QED BY <2>1, <2>2
<1>3. ASSUME NEW t \in Threads, Interrupted(t) \/ Answer(t) PROVE ServicesInv'
  BY <1>3 DEF Interrupted, Answer
<1>. QED BY <1>1, <1>2, <1>3 DEF ListenerCalls

\* The listener keeps its error before it notifies.
LEMMA ListenerStepInv ==
  ASSUME ServicesInv, ListenerStep \/ PollError
  PROVE  ServicesInv'
<1>. USE DEF ServicesInv, ServicesTypeOK, InMonitor, Listener, topologyVars, callVars
<1>1. CASE open
  BY <1>1 DEF open, Opened
<1>2. CASE PollIn
  BY <1>2 DEF PollIn, topologyChange, listenerVars
<1>3. CASE topologyListenerExit \/ ListenerEnds
  BY <1>3 DEF topologyListenerExit, ListenerEnds, NotifyAll, Waiting
<1>4. CASE PollError
  <2>1. /\ pollingError' = pollingError + 1 /\ pollingError \in Nat /\ pollingError <= MAX_POLLING_ERRORS
        /\ listener' = IF MAX_POLLING_ERRORS < pollingError + 1 THEN "exiting" ELSE "polling"
    BY <1>4, PollingAssumption DEF PollError
  <2>2. /\ pollingError' \in 0 .. MAX_POLLING_ERRORS + 1
        /\ listener' \in {"exiting", "polling"}
        /\ listener' = "polling" => pollingError' <= MAX_POLLING_ERRORS
    BY <2>1, PollingAssumption
  <2>. QED BY <1>4, <2>2 DEF PollError
<1>. QED BY <1>1, <1>2, <1>3, <1>4 DEF ListenerStep

\* An update notifies when its result is known.
LEMMA UpdateInv ==
  ASSUME ServicesInv, Update
  PROVE  ServicesInv'
<1>. USE DEF ServicesInv, ServicesTypeOK, InMonitor, listenerVars, callVars
<1>1. UpdaterStep /\ updateResult \in {0, Error}
  BY DEF Update, UpdaterStep
<1>2. CASE ScanEnds /\ scanned' = TRUE
  BY <1>1, <1>2, ResultStep DEF Update, ScanEnds, UpdateEnds, UpdaterGoes, updateTopology,
     build_device, disconnect, attachUsbDeviceImp
<1>3. CASE UpdateEnds /\ NotifyAll /\ UNCHANGED <<listenerVars, scanned, owner>>
  BY <1>3 DEF UpdateEnds, UpdaterGoes, NotifyAll, Waiting
<1>4. CASE (updateTopology \/ (\E q \in Places : build_device(q)) \/ disconnect \/ attachUsbDeviceImp)
           /\ UNCHANGED <<listenerVars, scanned, callVars>>
  <2>1. ~ ScanEnds
    BY <1>4 DEF ScanEnds, updateTopology, build_device, disconnect, attachUsbDeviceImp, UpdaterGoes
  <2>. QED BY <1>1, <1>4, <2>1, ResultStep
<1>. QED BY <1>2, <1>3, <1>4 DEF Update

LEMMA ServicesInvNext == ServicesInv /\ [Next]_vars => ServicesInv'
<1>1. ServicesInv /\ Kernel /\ UNCHANGED <<listenerVars, scanned, callVars>> => ServicesInv'
  BY DEF ServicesInv, ServicesTypeOK, InMonitor, Kernel, BusComes, BusGoes, Plug, Unplug, Changed,
     listenerVars, callVars
<1>2. ServicesInv /\ UNCHANGED vars => ServicesInv'
  BY DEF ServicesInv, ServicesTypeOK, InMonitor, vars, topologyVars, listenerVars, callVars
<1>. QED BY <1>1, <1>2, CallerInv, ListenerStepInv, UpdateInv DEF Next

\* A thread that waits keeps the monitor of LinuxUsbServices, so that no other can
\* start a listener and clear the error between notification and answer; and a
\* listener that goes on has not had more errors than it may.
THEOREM ServicesInvariance == Spec => []ServicesInv
<1>1. Init => ServicesInv
  <2>1. 0 \in 0 .. MAX_POLLING_ERRORS + 1
    BY PollingAssumption
  <2>2. Init => ServicesTypeOK
    BY <2>1, Zenon DEF Init, TopologyInit, ServicesTypeOK
  <2>. QED BY <2>2 DEF Init, TopologyInit, ServicesInv, InMonitor
<1>. QED BY <1>1, ServicesInvNext, PTL DEF Spec

\* getUsbRootHub answers a waiter truthfully, whatever listeners end, updates
\* fail and callers are interrupted.
THEOREM AnswerEnumeratedHolds == Spec => AnswerEnumerated
<1>1. ServicesInv /\ [Next]_vars =>
        [\A t \in Threads : stage[t] = "woken" /\ stage'[t] = "got" => scanned]_vars
  <2>. SUFFICES ASSUME ServicesInv, Next, NEW t \in Threads, stage[t] = "woken", stage'[t] = "got"
                PROVE  scanned
    OBVIOUS
  <2>. USE DEF ServicesInv, ServicesTypeOK
  <2>1. listenerError = 0 /\ updateResult = 0
    <3>1. CASE \/ Kernel /\ UNCHANGED <<listenerVars, scanned, callVars>>
               \/ ListenerStep \/ PollError \/ Update
      BY <3>1 DEF ListenerStep, open, PollIn, topologyListenerExit, ListenerEnds, PollError, Update,
         NotifyAll, Waiting, callVars
    <3>2. CASE \/ (\E c \in Clients : Call(c)) \/ ListenerCalls
               \/ \E u \in Threads : getUsbRootHub(u) \/ Interrupted(u)
      BY <3>2, ThreadsAssumption DEF Call, ListenerCalls, getUsbRootHub, Interrupted, Goto, Threads
    <3>3. CASE \E u \in Threads : Answer(u)
      BY <3>3 DEF Answer, Goto
    <3>. QED BY <3>1, <3>2, <3>3 DEF Next
  <2>. QED BY <2>1 DEF Error
<1>. QED BY <1>1, ServicesInvariance, PTL DEF Spec, AnswerEnumerated

(***************************************************************************)
(* Who waits has something to wait for.  Each of the four reasons ends     *)
(* only by handing on to the next one, or by a notification after which    *)
(* nobody waits.                                                           *)
(***************************************************************************)
\* Callers start a listener before they wait.
LEMMA WaitFoundedCaller ==
  ASSUME ServicesTypeOK, WaitFounded,
         \/ (\E c \in Clients : Call(c)) \/ ListenerCalls
         \/ \E t \in Threads : getUsbRootHub(t) \/ Interrupted(t) \/ Answer(t)
  PROVE  WaitFounded'
<1>. USE DEF ServicesTypeOK, WaitFounded, Waiting, Goto, Threads, topologyVars, listenerVars
<1>1. ASSUME NEW t \in Threads, Call(t) PROVE WaitFounded'
  BY <1>1 DEF Call
<1>2. ASSUME NEW t \in Threads, getUsbRootHub(t) PROVE WaitFounded'
  BY <1>2 DEF getUsbRootHub, startTopologyListener, isListening
<1>3. ASSUME NEW t \in Threads, Interrupted(t) \/ Answer(t) PROVE WaitFounded'
  BY <1>3 DEF Interrupted, Answer
<1>. QED BY <1>1, <1>2, <1>3 DEF ListenerCalls

\* A new listener that can open the file finds a change at once; one that ends
\* notifies; the first change it reports is an update in the queue.
LEMMA WaitFoundedListener ==
  ASSUME WaitFounded, queue \in Nat, ListenerStep \/ PollError
  PROVE  WaitFounded'
<1>. USE DEF WaitFounded, Waiting, Listener, topologyVars, listenerVars, callVars
<1>1. CASE open
  BY <1>1 DEF open, Opened
<1>2. CASE PollIn
  BY <1>2 DEF PollIn, topologyChange
<1>3. CASE topologyListenerExit
  BY <1>3 DEF topologyListenerExit, NotifyAll
<1>4. CASE ListenerEnds \/ PollError
  BY <1>4 DEF ListenerEnds, PollError
<1>. QED BY <1>1, <1>2, <1>3, <1>4 DEF ListenerStep

\* An update that was queued runs, and notifies at its end.
LEMMA WaitFoundedUpdater ==
  ASSUME WaitFounded, Update
  PROVE  WaitFounded'
<1>. USE DEF WaitFounded, Waiting, callVars
<1>1. CASE UpdateEnds /\ NotifyAll
  BY <1>1 DEF NotifyAll
<1>2. CASE (updateTopology \/ (\E q \in Places : build_device(q)) \/ ScanEnds \/ disconnect
            \/ attachUsbDeviceImp) /\ UNCHANGED callVars
  BY <1>2 DEF updateTopology, build_device, ScanEnds, disconnect, attachUsbDeviceImp, UpdaterGoes
<1>. QED BY <1>1, <1>2 DEF Update

\* No call of getUsbRootHub is left waiting for a notification that nothing
\* under way will send: no wakeup is lost between listener, queue and update.
THEOREM WaitFoundedHolds == Spec => []WaitFounded
<1>1. Init => WaitFounded
  BY DEF Init, WaitFounded, Waiting
<1>2. TopologyTypeOK /\ ServicesInv /\ WaitFounded /\ [Next]_vars => WaitFounded'
  <2>. SUFFICES ASSUME TopologyTypeOK, ServicesInv, WaitFounded, [Next]_vars PROVE WaitFounded'
    OBVIOUS
  <2>1. ServicesTypeOK /\ queue \in Nat
    BY QueueAssumption DEF ServicesInv, TopologyTypeOK
  <2>2. CASE Kernel /\ UNCHANGED <<listenerVars, scanned, callVars>>
    BY <2>2 DEF WaitFounded, Waiting, Kernel, BusComes, BusGoes, Plug, Unplug, Changed,
       listenerVars, callVars
  <2>3. CASE UNCHANGED vars
    BY <2>3 DEF WaitFounded, Waiting, vars, topologyVars, listenerVars, callVars
  <2>. QED BY <2>1, <2>2, <2>3, WaitFoundedCaller, WaitFoundedListener, WaitFoundedUpdater DEF Next
<1>. QED BY <1>1, <1>2, UpdaterUsed, TopologyTypeCorrect, ServicesInvariance, PTL DEF Spec
================================================================================
