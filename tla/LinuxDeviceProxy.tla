---------------------------- MODULE LinuxDeviceProxy ----------------------------
(***************************************************************************)
(* How a device's proxy thread comes to run: LinuxDeviceOsImp.java         *)
(* (getLinuxDeviceProxy), LinuxDeviceProxy.java (isRunning, start,         *)
(* startCompleted) and the beginning of nativeDeviceProxy in               *)
(* JavaxUsbDeviceProxy.c.  Every Java thread that submits or cancels a     *)
(* request comes through here first.                                       *)
(*                                                                         *)
(* startLock is held for one step at a time: start() creates its thread    *)
(* and waits, which leaves the lock, and startCompleted sets startError    *)
(* and notifies.                                                           *)
(***************************************************************************)
EXTENDS Integers

CONSTANTS
  Clients,    \* Java threads that call getLinuxDeviceProxy
  Natives,    \* native threads that start() can create
  NoThread,   \* the thread field is null
  Nobody      \* the monitor of the LinuxDeviceProxy is free

ASSUME NamesAssumption == NoThread \notin Natives /\ Nobody \notin Clients

VARIABLES
  thread,      \* LinuxDeviceProxy.thread
  startError,  \* LinuxDeviceProxy.startError
  monitor,     \* the client inside synchronized(linuxDeviceProxy)
  stage,       \* where every client is in getLinuxDeviceProxy
  created,     \* the local variable t of start(), per client
  native       \* what every native thread does

vars == <<thread, startError, monitor, stage, created, native>>

NotStarted == -1  \* the initial startError
Errno == 19       \* any error number of open

Init ==
  /\ thread = NoThread
  /\ startError = NotStarted
  /\ monitor = Nobody
  /\ stage = [c \in Clients |-> "out"]
  /\ created = [c \in Clients |-> NoThread]
  /\ native = [n \in Natives |-> "new"]

Goto(c, from, to) == stage[c] = from /\ stage' = [stage EXCEPT ![c] = to]

Alive(n) == native[n] \in {"opening", "opened", "refused", "serving", "exiting"}

\* A thread that has not started is not alive either.
isRunning == thread # NoThread /\ Alive(thread)

(***************************************************************************)
(* getLinuxDeviceProxy.                                                    *)
(***************************************************************************)
\* if (!isRunning()), outside the monitor
getLinuxDeviceProxy(c) ==
  /\ \E last \in {"out", "got", "failed"} :
       Goto(c, last, IF isRunning THEN "got" ELSE "enter")
  /\ UNCHANGED <<thread, startError, monitor, created, native>>

\* Mutant: start is not synchronized.
EnterUnlocked(c) ==
  /\ Goto(c, "enter", "start")
  /\ UNCHANGED <<thread, startError, monitor, created, native>>

\* synchronized (linuxDeviceProxy); isRunning is not asked again
Enter(c) ==
  /\ monitor = Nobody
  /\ Goto(c, "enter", "start")
  /\ monitor' = c
  /\ UNCHANGED <<thread, startError, created, native>>

\* new Thread(proxyRunnable), t.start(), startLock.wait().  A thread that has
\* ended and that nothing refers to is as good as a new one.
start(c) ==
  /\ Goto(c, "start", "waiting")
  /\ \E n \in Natives \ {thread} :
       /\ native[n] \in {"new", "dead"}
       /\ native' = [native EXCEPT ![n] = "opening"]
       /\ created' = [created EXCEPT ![c] = n]
  /\ UNCHANGED <<thread, startError, monitor>>

\* wait() ends with InterruptedException, which is ignored: startError may then
\* be the initial value, or another start's.
Interrupted(c) ==
  /\ Goto(c, "waiting", "woken")
  /\ UNCHANGED <<thread, startError, monitor, created, native>>

\* Mutant: startError is not looked at.
StartSucceeds(c) ==
  /\ Goto(c, "woken", "got")
  /\ thread' = created[c]
  /\ monitor' = Nobody
  /\ created' = [created EXCEPT ![c] = NoThread]
  /\ UNCHANGED <<startError, native>>

\* if (0 != startError) throw ... else thread = t; the monitor is left
StartEnds(c) ==
  /\ Goto(c, "woken", IF startError = 0 THEN "got" ELSE "failed")
  /\ thread' = IF startError = 0 THEN created[c] ELSE thread
  /\ monitor' = Nobody
  /\ created' = [created EXCEPT ![c] = NoThread]
  /\ UNCHANGED <<startError, native>>

(***************************************************************************)
(* nativeDeviceProxy, up to its loop.                                      *)
(***************************************************************************)
NativeGoes(n, from, to) == native[n] = from /\ native' = [native EXCEPT ![n] = to]

open_device(n) ==
  /\ \E result \in {"opened", "refused"} : NativeGoes(n, "opening", result)
  /\ UNCHANGED <<thread, startError, monitor, stage, created>>

\* startLock.notifyAll()
NotifyAll == stage' = [c \in Clients |-> IF stage[c] = "waiting" THEN "woken" ELSE stage[c]]

\* Mutant: a failure tells nobody.
startCompletedSilent(n) ==
  /\ \/ NativeGoes(n, "opened", "serving") /\ startError' = 0 /\ NotifyAll
     \/ NativeGoes(n, "refused", "exiting") /\ UNCHANGED <<startError, stage>>
  /\ UNCHANGED <<thread, monitor, created>>

\* startCompleted(0) before the loop, startCompleted(errno) before the return
startCompleted(n) ==
  /\ \/ NativeGoes(n, "opened", "serving") /\ startError' = 0
     \/ NativeGoes(n, "refused", "exiting") /\ startError' = Errno
  /\ NotifyAll
  /\ UNCHANGED <<thread, monitor, created>>

\* nativeDeviceProxy has returned; a thread that serves requests never does.
ThreadEnds(n) ==
  /\ NativeGoes(n, "exiting", "dead")
  /\ UNCHANGED <<thread, startError, monitor, stage, created>>

ClientStep(c) == Enter(c) \/ start(c) \/ StartEnds(c)

NativeStep(n) == open_device(n) \/ startCompleted(n) \/ ThreadEnds(n)

Next ==
  \/ \E c \in Clients : getLinuxDeviceProxy(c) \/ ClientStep(c)
  \/ \E n \in Natives : NativeStep(n)

Spec == Init /\ [][Next]_vars

\* Threads are scheduled, and open returns.  Nobody need call, and nothing is
\* assumed of who gets the monitor.
Fairness ==
  /\ \A c \in Clients : WF_vars(ClientStep(c))
  /\ \A n \in Natives : WF_vars(NativeStep(n))

FairSpec == Spec /\ Fairness

\* The same if the application interrupts its threads; the correctness
\* properties are about an application that does not.
NextOrInterrupt == Next \/ \E c \in Clients : Interrupted(c)

InterruptSpec == Init /\ [][NextOrInterrupt]_vars /\ Fairness

--------------------------------------------------------------------------------
(***************************************************************************)
(* Correctness.                                                            *)
(***************************************************************************)
InsideStages == {"start", "waiting", "woken"}
StartedStages == {"opening", "opened", "refused"}

\* The values the variables take.
TypeOK ==
  /\ thread \in Natives \cup {NoThread}
  /\ startError \in {NotStarted, 0, Errno}
  /\ monitor \in Clients \cup {Nobody}
  /\ stage \in [Clients -> {"out", "got", "failed", "enter"} \cup InsideStages]
  /\ created \in [Clients -> Natives \cup {NoThread}]
  /\ native \in [Natives -> StartedStages \cup {"new", "serving", "exiting", "dead"}]

\* "Signal startup completed": a thread that start() wakes up reads the result
\* of its own native thread, although all starts share one startError.
OwnAnswer ==
  \A c \in Clients : stage[c] = "woken" =>
    \/ startError = 0 /\ native[created[c]] = "serving"
    \/ startError = Errno /\ native[created[c]] \in {"exiting", "dead"}

\* Once a start has succeeded the device has a thread that serves it, and
\* keeps it, whatever later starts do: what a caller got can be submitted to.
GotRunning ==
  (\E c \in Clients : stage[c] = "got") => thread # NoThread /\ native[thread] = "serving"

\* Why these hold for any number of clients: start() is entered by one client
\* at a time, which waits for the only native thread that is on its way.
StartInv ==
  /\ TypeOK /\ OwnAnswer /\ GotRunning
  /\ \A c \in Clients :
       /\ stage[c] \in InsideStages <=> monitor = c
       /\ stage[c] \in {"waiting", "woken"} => created[c] \in Natives
       /\ stage[c] = "waiting" => native[created[c]] \in StartedStages
  /\ \A n \in Natives : native[n] \in StartedStages =>
       \E c \in Clients : stage[c] = "waiting" /\ created[c] = n
  /\ thread # NoThread => native[thread] = "serving"

\* start() returns: startCompleted cannot come before wait().
StartReturns == \A c \in Clients : stage[c] = "waiting" ~> stage[c] \in {"got", "failed"}
================================================================================
