----------------------------- MODULE LinuxPipeOsImp -----------------------------
(***************************************************************************)
(* The calls a Java thread makes on an interface and on one of its pipes,  *)
(* on top of the request path: LinuxPipeOsImp.java (asyncSubmit and        *)
(* abortAllSubmissions, which share inProgressList with every completion)  *)
(* and LinuxInterfaceOsImp.java (claim, release and isClaimed: submit one  *)
(* request and wait for it).                                               *)
(*                                                                         *)
(* A call is made of steps of LinuxRequestProxy: the thread is between two *)
(* of them while its pc there is "idle".  All PipeRequests belong to one   *)
(* pipe.  inProgressList is modelled as a set: its order only decides in   *)
(* which order requests are cancelled, and here any order is possible.     *)
(***************************************************************************)
EXTENDS LinuxRequestProxy

VARIABLES
  inProgressList, \* LinuxPipeOsImp.inProgressList
  call,           \* the call every client is in, "out" if none
  toCancel,       \* abortAllSubmissions: what its first loop has not cancelled yet
  awaited,        \* the requests a call waits for or is about to add
  atStart         \* history: the requests accepted when the client's abort began

callVars == <<call, toCancel, awaited, atStart>>
pipeVars == <<inProgressList, callVars>>
allVars == <<vars, pipeVars>>

PipeInit ==
  /\ Init
  /\ inProgressList = {}
  /\ call = [c \in Clients |-> "out"]
  /\ toCancel = [c \in Clients |-> {}]
  /\ awaited = [c \in Clients |-> {}]
  /\ atStart = [c \in Clients |-> {}]

\* Client c, not inside LinuxRequestProxy, goes from one stage of a call to the next.
Call(c, from, to) ==
  /\ pc[c] = "idle" /\ call[c] = from
  /\ call' = [call EXCEPT ![c] = to]

\* Client c waits for, or works on, the requests in R.
Await(c, R) == awaited' = [awaited EXCEPT ![c] = R]

\* asyncSubmit has returned for these requests.
Accepted ==
  {r \in PipeRequests \cap submitted :
     \A c \in Clients : call[c] = "adding" => r \notin awaited[c]}

\* asyncSubmit: the request goes to the proxy first ...
asyncSubmit(c, r) ==
  /\ Call(c, "out", "adding")
  /\ Submit(c, r)
  /\ Await(c, {r})
  /\ UNCHANGED <<inProgressList, toCancel, atStart>>

\* ... and is put in the in-progress list after that, completed or not.
addInProgress(c) ==
  /\ Call(c, "adding", "out")
  /\ inProgressList' = inProgressList \cup awaited[c]
  /\ Await(c, {})
  /\ UNCHANGED <<vars, toCancel, atStart>>

\* Mutant: the list is copied and not cleared.
abortWithoutClear(c) ==
  /\ Call(c, "out", "cancelling")
  /\ toCancel' = [toCancel EXCEPT ![c] = inProgressList]
  /\ Await(c, inProgressList)
  /\ atStart' = [atStart EXCEPT ![c] = Accepted]
  /\ UNCHANGED <<vars, inProgressList>>

\* abortAllSubmissions takes every request off the list ...
abortAllSubmissions(c) ==
  /\ Call(c, "out", "cancelling")
  /\ toCancel' = [toCancel EXCEPT ![c] = inProgressList]
  /\ Await(c, inProgressList)
  /\ inProgressList' = {}
  /\ atStart' = [atStart EXCEPT ![c] = Accepted]
  /\ UNCHANGED vars

\* Mutant: the requests are waited for and not cancelled.
cancelNone(c) ==
  /\ call[c] = "cancelling" /\ pc[c] = "idle"
  /\ toCancel' = [toCancel EXCEPT ![c] = {}]
  /\ UNCHANGED <<vars, inProgressList, call, awaited, atStart>>

\* ... cancels one after the other ...
cancelNext(c) ==
  /\ call[c] = "cancelling"
  /\ \E r \in toCancel[c] :
       /\ Cancel(c, r)
       /\ toCancel' = [toCancel EXCEPT ![c] = @ \ {r}]
  /\ UNCHANGED <<inProgressList, call, awaited, atStart>>

\* Mutant: abort does not wait.
waitForNone(c) ==
  /\ toCancel[c] = {}
  /\ Call(c, "cancelling", "waiting")
  /\ Await(c, {})
  /\ UNCHANGED <<vars, inProgressList, toCancel, atStart>>

\* ... and then waits for each of them.
waitForAll(c) ==
  /\ toCancel[c] = {}
  /\ Call(c, "cancelling", "waiting")
  /\ UNCHANGED <<vars, inProgressList, toCancel, awaited, atStart>>

\* claim, release and isClaimed; open calls isClaimed.
interfaceCall(c, k) ==
  /\ Call(c, "out", "waiting")
  /\ Submit(c, k)
  /\ Await(c, {k})
  /\ UNCHANGED <<inProgressList, toCancel, atStart>>

\* waitUntilCompleted returns for every request, in whatever order it is asked.
callReturns(c) ==
  /\ Call(c, "waiting", "out")
  /\ awaited[c] \subseteq completed
  /\ Await(c, {})
  /\ atStart' = [atStart EXCEPT ![c] = {}]
  /\ UNCHANGED <<vars, inProgressList, toCancel>>

\* LinuxDeviceOsImp.asyncSubmit: a dcp or setting request, nobody waits.
deviceAsyncSubmit(c, r) ==
  /\ call[c] = "out" /\ pc[c] = "idle"
  /\ Submit(c, r)
  /\ UNCHANGED pipeVars

\* Mutant: the whole list is cleared.
clearInProgress(t) ==
  /\ Detach(t)
  /\ inProgressList' = {}
  /\ UNCHANGED callVars

\* linuxPipeRequestCompleted, called by LinuxPipeRequest.setCompleted
linuxPipeRequestCompleted(t) ==
  /\ Detach(t)
  /\ inProgressList' = inProgressList \ {req[t]}
  /\ UNCHANGED callVars

Completing(t) ==
  \/ linuxPipeRequestCompleted(t)
  \/ (CompleteIrp(t) \/ Notify(t)) /\ UNCHANGED pipeVars

PipeClientStep(c) ==
  \/ addInProgress(c) \/ cancelNext(c) \/ waitForAll(c) \/ callReturns(c)
  \/ Defer(c) /\ UNCHANGED pipeVars
  \/ Completing(c)

PipeProxyStep(p) ==
  \/ Completing(p)
  \/ /\ \/ Poll(p) \/ getReadyRequest(p) \/ submitRequest(p) \/ setUrbAddress(p)
        \/ getCancelRequest(p) \/ cancelRequest(p) \/ Reap(p)
     /\ UNCHANGED pipeVars

NewCall(c) ==
  \/ \E r \in PipeRequests : asyncSubmit(c, r)
  \/ \E k \in ClaimRequests : interfaceCall(c, k)
  \/ \E r \in DcpRequests \cup SettingRequests : deviceAsyncSubmit(c, r)
  \/ abortAllSubmissions(c)

PipeNext ==
  \/ \E c \in Clients : NewCall(c) \/ PipeClientStep(c)
  \/ \E p \in Proxies : PipeProxyStep(p)
  \/ Kernel /\ UNCHANGED pipeVars

PipeSpec == PipeInit /\ [][PipeNext]_allVars

\* A call, once made, and the proxy thread go on; no call need ever be made.
PipeFairSpec ==
  /\ PipeSpec
  /\ \A c \in Clients : WF_allVars(PipeClientStep(c))
  /\ \A p \in Proxies : WF_allVars(PipeProxyStep(p))

--------------------------------------------------------------------------------
(***************************************************************************)
(* Correctness.                                                            *)
(***************************************************************************)
\* The values the variables take.
PipeTypeOK ==
  /\ inProgressList \subseteq PipeRequests
  /\ call \in [Clients -> {"out", "adding", "cancelling", "waiting"}]
  /\ toCancel \in [Clients -> SUBSET PipeRequests]
  /\ awaited \in [Clients -> SUBSET Requests]
  /\ atStart \in [Clients -> SUBSET PipeRequests]

\* Some thread's abortAllSubmissions has taken r off the list and has not returned.
Taken(r) == \E c \in Clients : call[c] \in {"cancelling", "waiting"} /\ r \in awaited[c]

\* linuxPipeRequestCompleted was called for r: its irp is, or is about to be, completed.
Detached(r) == irpCompletions[r] > 0 \/ \E t \in Threads : pc[t] = "complete" /\ req[t] = r

\* What abort relies on: no request slips away between submission, completion
\* and other aborts.  Once asyncSubmit has returned, a request that is not yet
\* completing is in the list or in the hands of an abort.
InProgressFound == \A r \in Accepted : r \in inProgressList \/ Taken(r) \/ Detached(r)

\* What LinuxRequestProxy relies on: no two calls cancel the same request,
\* whichever threads abort and however late asyncSubmit adds it.
CancelledOnce ==
  /\ \A c \in Clients : toCancel[c] \cap (cancelled \cup inProgressList) = {}
  /\ \A c, d \in Clients : c # d => toCancel[c] \cap toCancel[d] = {}

\* "Stop all submissions in progress": when abortAllSubmissions returns, the
\* transfers accepted before it began are out of readyList and of the kernel,
\* but for those another thread's abort is about to stop.
Stopped(r) ==
  /\ ~ Ready(r)
  /\ \A t \in Threads : pc[t] \in {"submit", "address"} => req[t] # r
  /\ \A p \in Proxies, a \in Urbs : InKernel(p, a) => usercontext[a] # r

Returns(c) == call[c] = "waiting" /\ call'[c] = "out"

AbortStops ==
  [][\A c \in Clients : Returns(c) => \A r \in atStart[c] : Stopped(r)' \/ Taken(r)']_allVars

(***************************************************************************)
(* Why these hold: a pipe request is at one of the places a call keeps it. *)
(***************************************************************************)
\* The request a call of c is about to add.
Adding(c) == IF call[c] = "adding" THEN awaited[c] ELSE {}

PlacesInv ==
  /\ inProgressList \cup cancelled \subseteq submitted
  /\ inProgressList \cap cancelled = {}
  /\ \A c \in Clients :
       /\ toCancel[c] \subseteq submitted
       /\ Adding(c) \subseteq (submitted \cap PipeRequests) \ (inProgressList \cup cancelled)
  /\ \A c, d \in Clients :
       /\ Adding(c) \cap toCancel[d] = {}
       /\ c # d => Adding(c) \cap Adding(d) = {}

\* What an abort must stop is in its hands, in another's, or is completing.
AbortTracked == \A c \in Clients : \A r \in atStart[c] : Taken(r) \/ Detached(r)

PipeIInv == PipeTypeOK /\ PlacesInv /\ CancelledOnce /\ InProgressFound /\ AbortTracked

\* Every call returns, although the device may never answer; only a call that
\* waits for an URB of a device that is gone waits for ever, because
\* nativeDeviceProxy takes ENODEV for "nothing to reap" (line 90).
StuckInKernel(c) ==
  ~ plugged /\ \E r \in awaited[c], p \in Proxies, a \in Urbs :
                  InKernel(p, a) /\ usercontext[a] = r

CallsReturn == \A c \in Clients : call[c] # "out" ~> call[c] = "out" \/ StuckInKernel(c)

\* What makes it so: no call waits for a request that nobody will end.  An abort
\* waits for requests whose cancel has yet to be served or that are ending, an
\* interface call for a request that is queued or in the hands of a thread.
NoHopelessWait ==
  \A c \in Clients : call[c] = "waiting" =>
    \A r \in awaited[c] \ completed :
      \/ CancelComing(r) \/ Ending(r) \/ StuckInKernel(c)
      \/ r \in ClaimRequests /\ (Ready(r) \/ \E t \in Threads : Held(t, r))

\* What a call waits for was submitted, and an abort cancels all it waits for.
AwaitInv ==
  \A c \in Clients :
    /\ call[c] # "cancelling" => toCancel[c] = {}
    /\ call[c] \in {"cancelling", "waiting"} =>
         /\ awaited[c] \subseteq submitted \cap (PipeRequests \cup ClaimRequests)
         /\ awaited[c] \cap PipeRequests \subseteq cancelled \cup toCancel[c]
================================================================================
