---------------------------- MODULE LinuxUsbServices ----------------------------
(***************************************************************************)
(* Who asks for the tree, and who has it updated: getUsbRootHub of         *)
(* LinuxUsbServices.java with the native listener that polls for changes   *)
(* (JavaxUsbTopologyListener.c), around the updates of TopologyUpdater.    *)
(* Four kinds of thread take part: those that call getUsbRootHub, the      *)
(* listener, the thread that runs topologyUpdateManager's queue, and the   *)
(* kernel.                                                                 *)
(***************************************************************************)
EXTENDS TopologyUpdater

CONSTANTS
  Clients,             \* threads that call getUsbRootHub
  Updater,             \* the thread of topologyUpdateManager
  Nobody,              \* the monitor of the LinuxUsbServices is free
  MAX_POLLING_ERRORS   \* 64 in JavaxUsb.h

Threads == Clients \cup {Updater}

ASSUME ThreadsAssumption == Updater \notin Clients /\ Nobody \notin Threads

ASSUME PollingAssumption == MAX_POLLING_ERRORS \in Nat

VARIABLES
  listener,       \* what the listener thread does
  pollingError,   \* its local pollingError
  listenerError,  \* topologyListenerError
  scanned,        \* history: a scan has succeeded
  stage,          \* where every thread is in getUsbRootHub
  owner           \* the thread inside the synchronized getUsbRootHub

listenerVars == <<listener, pollingError, listenerError>>
callVars == <<stage, owner>>
vars == <<topologyVars, listenerVars, scanned, callVars>>

Init ==
  /\ TopologyInit
  /\ listener = "none" /\ pollingError = 0 /\ listenerError = 0
  /\ scanned = FALSE
  /\ stage = [t \in Threads |-> "out"]
  /\ owner = Nobody

(***************************************************************************)
(* getUsbRootHub, for a client or for a UsbServicesListener that the       *)
(* updater thread has called.                                              *)
(***************************************************************************)
Goto(t, from, to) == stage[t] = from /\ stage' = [stage EXCEPT ![t] = to]
Waiting(t) == stage[t] = "waiting"
InMonitor(t) == stage[t] \in {"listening", "waiting", "woken"}
InCall(t) == stage[t] = "enter" \/ InMonitor(t)

isListening == listener \in {"opening", "polling", "exiting", "ending"}

Call(t) ==
  /\ \E last \in {"out", "got", "failed"} : Goto(t, last, "enter")
  /\ UNCHANGED <<topologyVars, listenerVars, scanned, owner>>

\* The events, if there is anything to tell: AbstractUsbServices is external, and
\* runs every UsbServicesListener on the updater's thread.
ListenerCalls ==
  /\ updater = "fire" /\ (disconnected # {} \/ connected # NoDevices)
  /\ Call(Updater)

\* startTopologyListener
startTopologyListener ==
  /\ listener' = "opening"
  /\ pollingError' = 0
  /\ listenerError' = 0

\* topologyLock is held from before the start until wait(), so that no
\* notification can come in between.
getUsbRootHub(t) ==
  /\ owner = Nobody /\ owner' = t
  /\ IF isListening
     THEN Goto(t, "enter", "listening") /\ UNCHANGED listenerVars
     ELSE Goto(t, "enter", "waiting") /\ startTopologyListener
  /\ UNCHANGED <<topologyVars, scanned>>

\* "Interrupted while enumerating USB devices, try again"
Interrupted(t) ==
  /\ Goto(t, "waiting", "failed")
  /\ owner' = Nobody
  /\ UNCHANGED <<topologyVars, listenerVars, scanned>>

\* An exception if there was an error, the root hub if not.
Answer(t) ==
  /\ \E from \in {"listening", "woken"} :
       Goto(t, from, IF listenerError = 0 /\ updateResult = 0 THEN "got" ELSE "failed")
  /\ owner' = Nobody
  /\ UNCHANGED <<topologyVars, listenerVars, scanned>>

\* topologyLock.notifyAll()
NotifyAll == stage' = [t \in Threads |-> IF Waiting(t) THEN "woken" ELSE stage[t]]

(***************************************************************************)
(* nativeTopologyListener, and topologyListenerExit after it.              *)
(***************************************************************************)
Listener(from, to) == listener = from /\ listener' = to

\* open(USBDEVFS_DEVICES)
open ==
  /\ \/ Listener("opening", "polling") /\ Opened
     \/ Listener("opening", "exiting") /\ UNCHANGED topologyVars
  /\ UNCHANGED <<pollingError, listenerError, scanned, callVars>>

\* poll reports POLLIN.
PollIn ==
  /\ listener = "polling" /\ topologyChange
  /\ UNCHANGED <<listenerVars, scanned, callVars>>

\* Mutant: the listener goes on for ever.
PollErrorContinues ==
  /\ Listener("polling", "polling")
  /\ pollingError' = pollingError + 1
  /\ UNCHANGED <<topologyVars, listenerError, scanned, callVars>>

\* poll reports POLLERR: counted, and the count never falls.
PollError ==
  /\ Listener("polling", IF MAX_POLLING_ERRORS < pollingError + 1 THEN "exiting" ELSE "polling")
  /\ pollingError' = pollingError + 1
  /\ UNCHANGED <<topologyVars, listenerError, scanned, callVars>>

\* Mutants: the error is not kept; or nobody is told.
ExitForgets ==
  /\ Listener("exiting", "ending") /\ NotifyAll
  /\ UNCHANGED <<topologyVars, pollingError, listenerError, scanned, owner>>

ExitSilently ==
  /\ Listener("exiting", "ending") /\ listenerError' = Error
  /\ UNCHANGED <<topologyVars, pollingError, scanned, callVars>>

topologyListenerExit ==
  /\ Listener("exiting", "ending") /\ listenerError' = Error /\ NotifyAll
  /\ UNCHANGED <<topologyVars, pollingError, scanned, owner>>

ListenerEnds ==
  /\ Listener("ending", "none")
  /\ UNCHANGED <<topologyVars, pollingError, listenerError, scanned, callVars>>

(***************************************************************************)
(* updateTopology, one update after the other on one thread.               *)
(***************************************************************************)
Update ==
  \/ /\ \/ updateTopology \/ (\E q \in Places : build_device(q))
        \/ disconnect \/ attachUsbDeviceImp
     /\ UNCHANGED <<listenerVars, scanned, callVars>>
  \/ ScanEnds /\ scanned' = TRUE /\ UNCHANGED <<listenerVars, callVars>>
  \/ /\ UpdateEnds /\ ~ InCall(Updater)
     /\ NotifyAll /\ UNCHANGED <<listenerVars, scanned, owner>>

ListenerStep == open \/ PollIn \/ topologyListenerExit \/ ListenerEnds

Next ==
  \/ Kernel /\ UNCHANGED <<listenerVars, scanned, callVars>>
  \/ (\E c \in Clients : Call(c)) \/ ListenerCalls
  \/ \E t \in Threads : getUsbRootHub(t) \/ Interrupted(t) \/ Answer(t)
  \/ ListenerStep \/ PollError \/ Update

Spec == Init /\ [][Next]_vars

\* Threads are scheduled and system calls return; nothing is assumed of
\* callers, of the kernel, of polling errors or of interruptions.
Fairness ==
  /\ WF_vars(ListenerStep) /\ WF_vars(Update)
  /\ \A t \in Threads : WF_vars(getUsbRootHub(t)) /\ WF_vars(Answer(t))

FairSpec == Spec /\ Fairness

--------------------------------------------------------------------------------
(***************************************************************************)
(* Correctness.                                                            *)
(***************************************************************************)
\* The values the variables take.
ServicesTypeOK ==
  /\ listener \in {"none", "opening", "polling", "exiting", "ending"}
  /\ pollingError \in 0 .. MAX_POLLING_ERRORS + 1
  /\ listenerError \in {0, Error} /\ updateResult \in {0, Error}
  /\ scanned \in BOOLEAN
  /\ stage \in [Threads -> {"out", "enter", "listening", "waiting", "woken", "got", "failed"}]
  /\ owner \in Threads \cup {Nobody}

\* A listener that goes on has not had too many errors.  A thread that waits keeps
\* the monitor, so that no other can start a listener and clear the error before it
\* has answered, and it is woken only when there is an answer.
ServicesInv ==
  /\ ServicesTypeOK
  /\ listener \in {"opening", "polling"} => pollingError <= MAX_POLLING_ERRORS
  /\ \A t \in Threads : InMonitor(t) => owner = t
  /\ updater \notin {"idle", "scan"} => scanned \/ updateResult = Error
  /\ \A t \in Threads : stage[t] = "woken" =>
       scanned \/ updateResult = Error \/ listenerError = Error

\* Who has waited for the enumeration gets the root hub only if the buses have
\* been scanned, and an exception if the listener ended before that.
AnswerEnumerated ==
  [][\A t \in Threads : stage[t] = "woken" /\ stage'[t] = "got" => scanned]_vars

\* A thread that waits in getUsbRootHub for the first enumeration is answered,
\* if no UsbServicesListener calls back.
WaitEnds == \A t \in Threads : Waiting(t) ~> stage[t] \in {"got", "failed"}
WaitEndsWithoutCallback == [](stage[Updater] = "out") => WaitEnds

\* What makes it so: nobody waits for a notification that nobody will send.  A
\* new listener ends or finds a change, a change is queued, a queued update
\* runs, and an update that runs notifies.
WaitFounded ==
  \A t \in Threads : Waiting(t) =>
    \/ listener \in {"opening", "exiting"} \/ (listener = "polling" /\ event)
    \/ queue > 0 \/ updater # "idle"

\* "Interrupted while enumerating USB devices, try again"
\* (LinuxUsbServices.java:49): whoever gets the root hub, at the first try or
\* at the second, gets it after the buses have been scanned.
HubScanned == [][\A t \in Threads : Answer(t) /\ stage'[t] = "got" => scanned]_vars
================================================================================
