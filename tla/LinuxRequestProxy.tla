--------------------------- MODULE LinuxRequestProxy ---------------------------
(***************************************************************************)
(* How a request travels from a Java thread to the kernel and back:        *)
(* LinuxRequestProxy.java (the ready and cancel lists every thread of the  *)
(* JVM shares), JavaxUsbDeviceProxy.c (the native thread that serves them  *)
(* in an endless loop), JavaxUsbPipeRequest.c and JavaxUsbDcpRequest.c (an *)
(* URB is allocated, submitted, reaped and freed) and the setCompleted     *)
(* methods of the request classes.                                         *)
(*                                                                         *)
(* A thread is between two steps wherever another thread can see or change *)
(* what it works on.  A client thread is "idle" when it is not inside      *)
(* LinuxRequestProxy; a proxy thread runs nativeDeviceProxy's loop.  More  *)
(* than one proxy thread for one LinuxRequestProxy is possible (see        *)
(* LinuxDeviceProxy.tla), so Proxies is a set.                             *)
(***************************************************************************)
EXTENDS Naturals, Sequences, SequencesExt

CONSTANTS
  PipeRequests,     \* LinuxPipeRequest objects
  DcpRequests,      \* LinuxDcpRequest objects
  SettingRequests,  \* LinuxSetInterfaceRequest, LinuxSetConfigurationRequest
  ClaimRequests,    \* LinuxInterfaceRequest objects (claim, release, query)
  Clients,          \* Java threads that call submit and cancel
  Proxies,          \* native threads in nativeDeviceProxy, one fd each
  Urbs,             \* heap addresses that malloc can return for an URB
  NoRequest,        \* no request: the usercontext of a free address
  NoUrb,            \* the urbAddress 0
  NoThread,         \* the readyList monitor is free
  CanUnplug         \* whether the device may be unplugged

UrbRequests == PipeRequests \cup DcpRequests
SyncRequests == SettingRequests \cup ClaimRequests
Requests == UrbRequests \cup SyncRequests
Threads == Clients \cup Proxies

ASSUME KindsAssumption ==
  /\ PipeRequests \cap DcpRequests = {}
  /\ UrbRequests \cap SyncRequests = {}
  /\ SettingRequests \cap ClaimRequests = {}

ASSUME ThreadsAssumption == Clients \cap Proxies = {} /\ CanUnplug \in BOOLEAN

ASSUME NullAssumption ==
  /\ NoRequest \notin Requests
  /\ NoUrb \notin Urbs
  /\ NoThread \notin Threads

VARIABLES
  readyList,      \* LinuxRequestProxy.readyList
  cancelList,     \* LinuxRequestProxy.cancelList
  readyOwner,     \* the thread that stays inside synchronized(readyList)
  submitted,      \* requests given to submit so far
  cancelled,      \* requests given to cancel so far
  urbAddress,     \* urbAddress of every pipe and dcp request
  error,          \* requests whose setError was called
  irpCompletions, \* how often the UsbIrpImp or RequestImp was completed
  completed,      \* requests whose LinuxRequest.completed is set
  usercontext,    \* the heap: the usercontext of every URB, NoRequest if free
  badStatus,      \* URBs whose status is an error
  pending,        \* URBs the kernel works on, per proxy (fd)
  reapable,       \* URBs the kernel has completed, per proxy (fd)
  performed,      \* requests the device has carried out
  plugged,        \* whether the device is still there
  globalRefs,     \* requests that hold a JNI global reference
  pc,             \* where every thread is
  req,            \* the request a thread works on
  urb,            \* the URB a proxy thread has just submitted
  resume          \* where a thread goes on when setCompleted returns

listVars == <<readyList, cancelList, readyOwner>>
clientVars == <<submitted, cancelled>>
requestVars == <<urbAddress, error, irpCompletions, completed>>
kernelVars == <<badStatus, pending, reapable, performed, plugged>>
nativeVars == <<usercontext, globalRefs>>
threadVars == <<pc, req, urb, resume>>
vars == <<listVars, clientVars, requestVars, kernelVars, nativeVars, threadVars>>

Init ==
  /\ readyList = <<>> /\ cancelList = <<>> /\ readyOwner = NoThread
  /\ submitted = {} /\ cancelled = {}
  /\ urbAddress = [r \in UrbRequests |-> NoUrb]
  /\ error = {}
  /\ irpCompletions = [r \in Requests |-> 0]
  /\ completed = {}
  /\ usercontext = [a \in Urbs |-> NoRequest]
  /\ badStatus = {}
  /\ pending = [p \in Proxies |-> {}]
  /\ reapable = [p \in Proxies |-> {}]
  /\ performed = {} /\ plugged = TRUE
  /\ globalRefs = {}
  /\ pc = [t \in Threads |-> IF t \in Clients THEN "idle" ELSE "poll"]
  /\ req = [t \in Threads |-> NoRequest]
  /\ urb = [p \in Proxies |-> NoUrb]
  /\ resume = [t \in Threads |-> IF t \in Clients THEN "idle" ELSE "poll"]

\* A local variable goes out of scope.
Release(t) == req' = [req EXCEPT ![t] = NoRequest]

Goto(t, from, to) == pc[t] = from /\ pc' = [pc EXCEPT ![t] = to]

(***************************************************************************)
(* setCompleted.  A pipe request first leaves its pipe's in-progress list  *)
(* ("detach"), then its irp is completed ("complete"), then its own        *)
(* completed flag is set ("notify").  Dcp and setting requests have no     *)
(* in-progress list; interface requests only have the flag.                *)
(***************************************************************************)
FirstStage(r) ==
  CASE r \in PipeRequests -> "detach"
    [] r \in DcpRequests \cup SettingRequests -> "complete"
    [] r \in ClaimRequests -> "notify"

\* Thread t, now at pc from, calls r.setCompleted(true) and then goes on at to.
CallSetCompleted(t, r, from, to) ==
  /\ Goto(t, from, FirstStage(r))
  /\ resume' = [resume EXCEPT ![t] = to]

\* LinuxPipeRequest.setCompleted: getLinuxPipeOsImp().linuxPipeRequestCompleted
Detach(t) ==
  /\ Goto(t, "detach", "complete")
  /\ UNCHANGED <<listVars, clientVars, requestVars, kernelVars, nativeVars, req, urb, resume>>

\* getUsbIrpImp().complete() or getRequestImp().complete(): the user sees the end
CompleteIrp(t) ==
  /\ Goto(t, "complete", "notify")
  /\ irpCompletions' = [irpCompletions EXCEPT ![req[t]] = @ + 1]
  /\ UNCHANGED <<listVars, clientVars, urbAddress, error, completed, kernelVars,
                 nativeVars, req, urb, resume>>

\* Mutant: nativeDeviceProxy forgets DeleteGlobalRef.
NotifyKeepsRef(t) ==
  /\ Goto(t, "notify", resume[t])
  /\ completed' = completed \cup {req[t]}
  /\ readyOwner' = IF readyOwner = t THEN NoThread ELSE readyOwner
  /\ Release(t)
  /\ UNCHANGED <<readyList, cancelList, clientVars, urbAddress, error, irpCompletions,
                 kernelVars, nativeVars, urb, resume>>

\* LinuxRequest.setCompleted, and what the caller does last: the end of
\* LinuxRequestProxy.cancel's synchronized block, or DeleteGlobalRef after a reap.
Notify(t) ==
  /\ Goto(t, "notify", resume[t])
  /\ completed' = completed \cup {req[t]}
  /\ readyOwner' = IF readyOwner = t THEN NoThread ELSE readyOwner
  /\ globalRefs' = IF resume[t] = "poll" THEN globalRefs \ {req[t]} ELSE globalRefs
  /\ Release(t)
  /\ UNCHANGED <<readyList, cancelList, clientVars, urbAddress, error, irpCompletions,
                 kernelVars, usercontext, urb, resume>>

(***************************************************************************)
(* The client threads.                                                     *)
(***************************************************************************)
Submit(c, r) ==
  /\ pc[c] = "idle" /\ readyOwner = NoThread
  /\ r \notin submitted
  /\ submitted' = submitted \cup {r}
  /\ readyList' = Append(readyList, r)
  /\ UNCHANGED <<cancelList, readyOwner, cancelled, requestVars, kernelVars,
                 nativeVars, threadVars>>

\* Mutants: the cancelled request stays in readyList; or it gets no error.
CancelReadyKeeps(c, r) ==
  /\ Contains(readyList, r) /\ UNCHANGED readyList
  /\ error' = error \cup {r}
  /\ readyOwner' = c
  /\ CallSetCompleted(c, r, "idle", "idle")
  /\ UNCHANGED <<urbAddress, irpCompletions, completed>>

CancelReadySilent(c, r) ==
  /\ \E i \in DOMAIN readyList :
       readyList[i] = r /\ readyList' = RemoveAt(readyList, i)
  /\ readyOwner' = c
  /\ CallSetCompleted(c, r, "idle", "idle")
  /\ UNCHANGED requestVars

\* cancel finds the request in readyList: it ends here, inside the monitor.
CancelReady(c, r) ==
  /\ \E i \in DOMAIN readyList :
       readyList[i] = r /\ readyList' = RemoveAt(readyList, i)
  /\ error' = error \cup {r}
  /\ readyOwner' = c
  /\ CallSetCompleted(c, r, "idle", "idle")
  /\ UNCHANGED <<urbAddress, irpCompletions, completed>>

\* cancel does not find it: the monitor is left before cancelList is locked.
CancelMissed(c, r) ==
  /\ ~ Contains(readyList, r)
  /\ Goto(c, "idle", "defer")
  /\ UNCHANGED <<readyList, readyOwner, requestVars, resume>>

\* Only abortAllSubmissions cancels, pipe requests only, and each request at
\* most once, because it takes them off its in-progress list.
Cancel(c, r) ==
  /\ r \in (PipeRequests \cap submitted) \ cancelled
  /\ readyOwner = NoThread
  /\ cancelled' = cancelled \cup {r}
  /\ req' = [req EXCEPT ![c] = r]
  /\ CancelReady(c, r) \/ CancelMissed(c, r)
  /\ UNCHANGED <<cancelList, submitted, kernelVars, nativeVars, urb>>

Defer(c) ==
  /\ Goto(c, "defer", "idle")
  /\ cancelList' = Append(cancelList, req[c])
  /\ Release(c)
  /\ UNCHANGED <<readyList, readyOwner, clientVars, requestVars, kernelVars,
                 nativeVars, urb, resume>>

(***************************************************************************)
(* The proxy thread: the loop of nativeDeviceProxy.                        *)
(***************************************************************************)
\* Mutants: only one of the two lists is looked at.
isReadyWaiting == readyList # <<>>
isCancelWaiting == cancelList # <<>>

\* Neither list is locked, and the two are looked at one after the other.  A
\* request added in between is missed for one turn, as if Poll had come earlier;
\* a cancel taken in between by another proxy as if Poll had found it waiting
\* and the two get methods then found nothing.
isRequestWaiting == readyList # <<>> \/ cancelList # <<>>

Poll(p) ==
  /\ Goto(p, "poll", IF isRequestWaiting THEN "ready" ELSE "reap")
  /\ UNCHANGED <<listVars, clientVars, requestVars, kernelVars, nativeVars, req, urb, resume>>

\* Mutant: the youngest request is taken first.
getYoungestRequest(p) ==
  /\ readyOwner = NoThread
  /\ IF readyList = <<>>
     THEN Goto(p, "ready", "cancel") /\ UNCHANGED <<readyList, req>>
     ELSE /\ Goto(p, "ready", "submit")
          /\ req' = [req EXCEPT ![p] = Last(readyList)]
          /\ readyList' = Front(readyList)
  /\ UNCHANGED <<cancelList, readyOwner, clientVars, requestVars, kernelVars,
                 nativeVars, urb, resume>>

getReadyRequest(p) ==
  /\ readyOwner = NoThread
  /\ IF readyList = <<>>
     THEN Goto(p, "ready", "cancel") /\ UNCHANGED <<readyList, req>>
     ELSE /\ Goto(p, "ready", "submit")
          /\ req' = [req EXCEPT ![p] = Head(readyList)]
          /\ readyList' = Tail(readyList)
  /\ UNCHANGED <<cancelList, readyOwner, clientVars, requestVars, kernelVars,
                 nativeVars, urb, resume>>

\* Mutant: the failure is recorded, and the request is not completed.
SubmissionForgotten(p) ==
  /\ error' = error \cup {req[p]}
  /\ Goto(p, "submit", "cancel")
  /\ UNCHANGED <<urbAddress, irpCompletions, completed, kernelVars, nativeVars, urb, resume>>

\* submitRequest: a request whose submission fails ends with an error at once.
SubmissionFails(p) ==
  /\ error' = error \cup {req[p]}
  /\ CallSetCompleted(p, req[p], "submit", "cancel")
  /\ UNCHANGED <<urbAddress, irpCompletions, completed, kernelVars, nativeVars, urb>>

\* Mutant: usercontext is a local reference, no NewGlobalRef.
UrbSubmittedUnreferenced(p, a) ==
  /\ usercontext[a] = NoRequest
  /\ usercontext' = [usercontext EXCEPT ![a] = req[p]]
  /\ badStatus' = badStatus \ {a}
  /\ pending' = [pending EXCEPT ![p] = @ \cup {a}]
  /\ urb' = [urb EXCEPT ![p] = a]
  /\ Goto(p, "submit", "address")
  /\ UNCHANGED <<requestVars, reapable, performed, plugged, globalRefs, resume>>

\* malloc gives URB a and ioctl(USBDEVFS_SUBMITURB) accepts it.
UrbSubmitted(p, a) ==
  /\ usercontext[a] = NoRequest
  /\ usercontext' = [usercontext EXCEPT ![a] = req[p]]
  /\ globalRefs' = globalRefs \cup {req[p]}
  /\ badStatus' = badStatus \ {a}
  /\ pending' = [pending EXCEPT ![p] = @ \cup {a}]
  /\ urb' = [urb EXCEPT ![p] = a]
  /\ Goto(p, "submit", "address")
  /\ UNCHANGED <<requestVars, reapable, performed, plugged, resume>>

SubmitUrb(p) ==
  \/ SubmissionFails(p)
  \/ plugged /\ \E a \in Urbs : UrbSubmitted(p, a)

\* The synchronous ioctls: done or failed when they return.
SyncIoctl(p) ==
  \/ SubmissionFails(p)
  \/ /\ plugged
     /\ performed' = performed \cup {req[p]}
     /\ CallSetCompleted(p, req[p], "submit", "cancel")
     /\ UNCHANGED <<requestVars, badStatus, pending, reapable, plugged, nativeVars, urb>>

pipe_request(p) == req[p] \in PipeRequests /\ SubmitUrb(p)
dcp_request(p) == req[p] \in DcpRequests /\ SubmitUrb(p)
set_setting(p) == req[p] \in SettingRequests /\ SyncIoctl(p)
claim_interface(p) == req[p] \in ClaimRequests /\ SyncIoctl(p)

submitRequest(p) ==
  /\ pc[p] = "submit"
  /\ pipe_request(p) \/ dcp_request(p) \/ set_setting(p) \/ claim_interface(p)
  /\ UNCHANGED <<listVars, clientVars, req>>

\* Mutant: the address is not stored.
setUrbAddressForgotten(p) ==
  /\ Goto(p, "address", "cancel")
  /\ urb' = [urb EXCEPT ![p] = NoUrb]
  /\ Release(p)
  /\ UNCHANGED <<listVars, clientVars, requestVars, kernelVars, nativeVars, resume>>

\* pipe_request, dcp_request: setUrbAddress comes after the ioctl.
setUrbAddress(p) ==
  /\ Goto(p, "address", "cancel")
  /\ urbAddress' = [urbAddress EXCEPT ![req[p]] = urb[p]]
  /\ urb' = [urb EXCEPT ![p] = NoUrb]
  /\ Release(p)
  /\ UNCHANGED <<listVars, clientVars, error, irpCompletions, completed, kernelVars,
                 nativeVars, resume>>

getCancelRequest(p) ==
  /\ IF cancelList = <<>>
     THEN Goto(p, "cancel", "reap") /\ UNCHANGED <<cancelList, req>>
     ELSE /\ Goto(p, "cancel", "discard")
          /\ req' = [req EXCEPT ![p] = Head(cancelList)]
          /\ cancelList' = Tail(cancelList)
  /\ UNCHANGED <<readyList, readyOwner, clientVars, requestVars, kernelVars,
                 nativeVars, urb, resume>>

\* ioctl(USBDEVFS_DISCARDURB): the kernel looks the address up among the
\* pending URBs of this fd; any other address is an error the code ignores, as
\* is ENODEV.
DiscardUrb(p, a) ==
  IF plugged /\ a \in pending[p]
  THEN /\ pending' = [pending EXCEPT ![p] = @ \ {a}]
       /\ reapable' = [reapable EXCEPT ![p] = @ \cup {a}]
       /\ badStatus' = badStatus \cup {a}
  ELSE UNCHANGED <<pending, reapable, badStatus>>

cancel_pipe_request(p) == DiscardUrb(p, urbAddress[req[p]])

cancelRequest(p) ==
  /\ Goto(p, "discard", "reap")
  /\ cancel_pipe_request(p)
  /\ Release(p)
  /\ UNCHANGED <<listVars, clientVars, requestVars, performed, plugged, nativeVars, urb,
                 resume>>

\* Mutant: the status of the URB is not looked at.
complete_urb_blindly(r) ==
  LET u == urbAddress[r]
  IN  /\ error' = IF u = NoUrb THEN error \cup {r} ELSE error
      /\ usercontext' = [a \in Urbs |-> IF a = u THEN NoRequest ELSE usercontext[a]]
      /\ badStatus' = badStatus \ {u}

\* The URB is read from the request, not from the ioctl; its status is the
\* result, and it is freed.
complete_urb_request(r) ==
  LET u == urbAddress[r]
      err == u = NoUrb \/ u \in badStatus
  IN  /\ error' = IF err THEN error \cup {r} ELSE error
      /\ usercontext' = [a \in Urbs |-> IF a = u THEN NoRequest ELSE usercontext[a]]
      /\ badStatus' = badStatus \ {u}

complete_pipe_request(r) == r \in PipeRequests /\ complete_urb_request(r)
complete_dcp_request(r) == r \in DcpRequests /\ complete_urb_request(r)

ReapUrb(p, a) ==
  LET r == usercontext[a]
  IN  /\ reapable' = [reapable EXCEPT ![p] = @ \ {a}]
      /\ req' = [req EXCEPT ![p] = r]
      /\ complete_pipe_request(r) \/ complete_dcp_request(r)
      /\ CallSetCompleted(p, r, "reap", "poll")
      /\ UNCHANGED <<listVars, clientVars, urbAddress, irpCompletions, completed,
                     pending, performed, plugged, globalRefs, urb>>

\* ioctl(USBDEVFS_REAPURBNDELAY): any error, ENODEV too, is taken for "nothing
\* to reap".
Reap(p) ==
  \/ plugged /\ \E a \in reapable[p] : ReapUrb(p, a)
  \/ /\ ~ plugged \/ reapable[p] = {}
     /\ Goto(p, "reap", "poll")
     /\ UNCHANGED <<listVars, clientVars, requestVars, kernelVars, nativeVars, req, urb, resume>>

(***************************************************************************)
(* The kernel finishes an URB, with or without success, or the device goes *)
(* away: from then on every ioctl on its fds fails with ENODEV.            *)
(***************************************************************************)
UrbCompletes(p, a) ==
  /\ a \in pending[p]
  /\ pending' = [pending EXCEPT ![p] = @ \ {a}]
  /\ reapable' = [reapable EXCEPT ![p] = @ \cup {a}]
  /\ \/ plugged /\ performed' = performed \cup {usercontext[a]} /\ badStatus' = badStatus
     \/ badStatus' = badStatus \cup {a} /\ performed' = performed
  /\ UNCHANGED <<listVars, clientVars, requestVars, plugged, nativeVars, threadVars>>

Unplug ==
  /\ CanUnplug /\ plugged /\ plugged' = FALSE
  /\ UNCHANGED <<listVars, clientVars, requestVars, badStatus, pending, reapable, performed,
                 nativeVars, threadVars>>

SetCompleted(t) == Detach(t) \/ CompleteIrp(t) \/ Notify(t)

ClientCall(c) == \E r \in Requests : Submit(c, r) \/ Cancel(c, r)

ClientStep(c) == Defer(c) \/ SetCompleted(c)

ProxyStep(p) ==
  \/ Poll(p) \/ getReadyRequest(p) \/ submitRequest(p) \/ setUrbAddress(p)
  \/ getCancelRequest(p) \/ cancelRequest(p) \/ Reap(p) \/ SetCompleted(p)

Kernel == Unplug \/ \E p \in Proxies, a \in Urbs : UrbCompletes(p, a)

Next ==
  \/ \E c \in Clients : ClientCall(c) \/ ClientStep(c)
  \/ \E p \in Proxies : ProxyStep(p)
  \/ Kernel

Spec == Init /\ [][Next]_vars

(***************************************************************************)
(* The JVM schedules every thread, and no thread stays in LinuxRequestProxy *)
(* for ever.  Nothing is assumed of the callers (they need not call) nor   *)
(* of the device (an URB nobody discards may stay pending for ever).       *)
(***************************************************************************)
Fairness ==
  /\ \A c \in Clients : WF_vars(ClientStep(c))
  /\ \A p \in Proxies : WF_vars(ProxyStep(p))

FairSpec == Spec /\ Fairness

--------------------------------------------------------------------------------
(***************************************************************************)
(* Correctness.                                                            *)
(***************************************************************************)
ProxyStages == {"poll", "ready", "submit", "address", "cancel", "discard", "reap",
                "detach", "complete", "notify"}
ClientStages == {"idle", "defer", "detach", "complete", "notify"}
SetCompletedStages == {"detach", "complete", "notify"}

\* The values the variables take.
TypeOK ==
  /\ readyList \in Seq(Requests) /\ cancelList \in Seq(PipeRequests)
  /\ readyOwner \in Clients \cup {NoThread}
  /\ submitted \subseteq Requests /\ cancelled \subseteq PipeRequests
  /\ urbAddress \in [UrbRequests -> Urbs \cup {NoUrb}]
  /\ error \subseteq Requests
  /\ irpCompletions \in [Requests -> Nat]
  /\ completed \subseteq Requests
  /\ usercontext \in [Urbs -> UrbRequests \cup {NoRequest}]
  /\ badStatus \subseteq Urbs
  /\ pending \in [Proxies -> SUBSET Urbs]
  /\ reapable \in [Proxies -> SUBSET Urbs]
  /\ performed \subseteq Requests /\ plugged \in BOOLEAN
  /\ globalRefs \subseteq UrbRequests
  /\ pc \in [Threads -> ProxyStages \cup ClientStages]
  /\ \A c \in Clients : pc[c] \in ClientStages /\ resume[c] = "idle"
  /\ \A p \in Proxies : pc[p] \in ProxyStages /\ resume[p] \in {"poll", "cancel"}
  /\ req \in [Threads -> Requests \cup {NoRequest}]
  /\ urb \in [Proxies -> Urbs \cup {NoUrb}]
  /\ resume \in [Threads -> {"idle", "poll", "cancel"}]

\* Where a request is: in readyList, in the hands of a thread, or in the kernel.
Ready(r) == \E i \in DOMAIN readyList : readyList[i] = r
HeldStages == {"submit", "address"} \cup SetCompletedStages
Held(t, r) == req[t] = r /\ pc[t] \in HeldStages
InKernel(p, a) == a \in pending[p] \cup reapable[p]

\* The user sees the end of a request that has an irp when the irp completes.
Ended(r) == IF r \in ClaimRequests THEN r \in completed ELSE irpCompletions[r] > 0

\* An irp is completed at most once, whoever completes it (a canceller or a
\* proxy), and a thread that sees LinuxRequest.isCompleted also sees it done.
CompletedOnce ==
  \A r \in Requests \ ClaimRequests :
    /\ irpCompletions[r] <= 1
    /\ r \in completed => irpCompletions[r] = 1

\* What the ioctls and the reap path rely on: an URB the kernel holds is not
\* free memory, belongs to one fd, and leads back to a request that is not
\* garbage, not completed, and has this URB's address (once it is stored).
KernelUrbsValid ==
  \A p \in Proxies, a \in Urbs : InKernel(p, a) =>
    /\ usercontext[a] \in globalRefs \ completed
    /\ \/ urbAddress[usercontext[a]] = a
       \/ pc[p] = "address" /\ urb[p] = a /\ req[p] = usercontext[a]
    /\ \A q \in Proxies \ {p} : ~ InKernel(q, a)

\* A request that has completed keeps neither its URB nor a global reference,
\* except while its completion is on the stack of the thread that reaped it.
NothingLeaked ==
  /\ \A a \in Urbs : usercontext[a] # NoRequest => \E p \in Proxies : InKernel(p, a)
  /\ \A r \in globalRefs :
       \/ \E a \in Urbs : usercontext[a] = r
       \/ \E p \in Proxies : Held(p, r) /\ resume[p] = "poll"

\* The kernel has an URB of r.
HasUrb(r) == \E p \in Proxies, a \in Urbs : InKernel(p, a) /\ usercontext[a] = r

\* No request is dropped between the lists, the threads and the kernel: until it
\* has completed, somebody has it.
Located(r) == Ready(r) \/ (\E t \in Threads : Held(t, r)) \/ HasUrb(r)

NoRequestLost == \A r \in submitted \ completed : Located(r)

\* setError tells the truth: an ended request has no error exactly if the
\* device, or the kernel, has carried it out.
OutcomeTruthful ==
  \A r \in Requests : Ended(r) => (r \in error <=> r \notin performed)

(***************************************************************************)
(* Why these hold, for any number of requests, clients and proxies: at any *)
(* time a request is at one place, and each place fixes its record.        *)
(***************************************************************************)
\* Nobody has worked on r yet.
Untouched(r) ==
  /\ r \notin error \cup completed \cup performed \cup globalRefs
  /\ irpCompletions[r] = 0
  /\ \A t \in Threads : ~ Held(t, r)
  /\ \A a \in Urbs : usercontext[a] # r

\* The result of r is fixed: an error, or the device has done its work.
Resolved(r) == r \in error <=> r \notin performed

ReadyInv ==
  /\ \A i, j \in DOMAIN readyList : readyList[i] = readyList[j] => i = j
  /\ \A r \in Requests :
       /\ Ready(r) => r \in submitted
       /\ Ready(r) \/ r \notin submitted => Untouched(r)

\* What each stage knows of the request its thread holds.
HeldInv ==
  /\ \A t, u \in Threads, r \in Requests : Held(t, r) /\ Held(u, r) => t = u
  /\ \A t \in Threads, r \in Requests : Held(t, r) =>
       /\ r \notin completed
       /\ pc[t] # "notify" => irpCompletions[r] = 0
       /\ pc[t] = "notify" /\ r \notin ClaimRequests => irpCompletions[r] = 1
       /\ pc[t] = "detach" => r \in PipeRequests
       /\ pc[t] = "complete" => r \notin ClaimRequests
       /\ pc[t] = "submit" => r \notin error \cup performed \cup globalRefs
       /\ pc[t] = "address" =>
            t \in Proxies /\ r \in UrbRequests /\ urb[t] \in Urbs /\ usercontext[urb[t]] = r
       /\ pc[t] \in SetCompletedStages => Resolved(r)
       /\ pc[t] \in SetCompletedStages /\ resume[t] # "poll" => r \notin globalRefs
       /\ \A a \in Urbs : usercontext[a] = r =>
            pc[t] = "address" /\ urb[t] = a /\ InKernel(t, a)
  /\ \A t \in Threads :
       pc[t] \in HeldStages => req[t] \in Requests
  /\ \A t \in Threads : pc[t] \in {"defer", "discard"} => req[t] \in PipeRequests

\* What is known of the URBs and requests the kernel works on.
KernelInv ==
  /\ \A a, b \in Urbs : usercontext[a] = usercontext[b] /\ a # b => usercontext[a] = NoRequest
  /\ \A p \in Proxies, a \in Urbs : InKernel(p, a) =>
       /\ usercontext[a] # NoRequest
       /\ usercontext[a] \in globalRefs \ (completed \cup error)
       /\ irpCompletions[usercontext[a]] = 0
       /\ a \in pending[p] => usercontext[a] \notin performed /\ a \notin reapable[p] \cup badStatus
       /\ a \in reapable[p] => (a \in badStatus <=> usercontext[a] \notin performed)

\* What is left of a request that has ended.
DoneInv ==
  /\ \A r \in completed : r \notin globalRefs /\ Resolved(r) /\ \A a \in Urbs : usercontext[a] # r
  /\ \A r \in Requests \ ClaimRequests : irpCompletions[r] > 0 =>
       r \in completed \/ \E t \in Threads : Held(t, r) /\ pc[t] = "notify"

IInv ==
  /\ TypeOK
  /\ ReadyInv /\ HeldInv /\ KernelInv /\ DoneInv
  /\ CompletedOnce /\ KernelUrbsValid /\ NothingLeaked

\* The detailed request path implements the service callers rely on.
Active == {r \in submitted : ~ Contains(readyList, r) /\ ~ Ended(r)}
EndedRequests == {r \in Requests : Ended(r)}

PromisedService == INSTANCE RequestService WITH
  Withdrawable <- PipeRequests,
  queue <- readyList,
  active <- Active,
  failed <- error,
  ended <- EndedRequests

ImplementsService == PromisedService!Service

\* Cancelling is effective: a request given to cancel completes, although the
\* device may never answer (JavaxUsbDeviceProxy.c, cancelRequest), unless the
\* device is gone, for then its URB is never reaped (line 90).  It takes that
\* one thread serves the device.
CancelEffective == \A r \in PipeRequests : r \in cancelled ~> r \in completed \/ ~ plugged

\* What makes it so: while a cancelled request has not completed, somebody is
\* about to end it.  Either its cancel has yet to be served, or it is in
\* setCompleted, or its URB waits to be reaped; or the device is gone.
CancelComing(r) ==
  \/ Contains(cancelList, r)
  \/ \E t \in Threads : pc[t] \in {"defer", "discard"} /\ req[t] = r

Ending(r) ==
  \/ \E t \in Threads : Held(t, r) /\ pc[t] \in SetCompletedStages
  \/ \E p \in Proxies, a \in Urbs : a \in reapable[p] /\ usercontext[a] = r

CancelNotLost ==
  \A r \in cancelled \ completed : CancelComing(r) \/ Ending(r) \/ (~ plugged /\ HasUrb(r))

\* With several threads a cancel may be taken by one whose fd did not submit the
\* URB, and then nothing ends the request.  No other cancel is lost: one that
\* is served by the URB's own fd takes it from the device.
CancelReachesOwnFd ==
  [][\A p \in Proxies : cancelRequest(p) /\ plugged =>
       \A a \in pending'[p] : usercontext[a] # req[p]]_vars

\* The proxy thread takes up every request, whatever the other requests do.
RequestsTaken == \A r \in Requests : r \in submitted ~> ~ Contains(readyList, r)

\* "Cancel a LinuxRequest. @param linuxRequest The LinuxRequest."  A discard
\* takes no URB but the one of the request that is cancelled.
DiscardHitsTarget ==
  [][\A p \in Proxies, a \in Urbs :
       cancelRequest(p) /\ a \in pending[p] \ pending'[p] => usercontext[a] = req[p]]_vars
================================================================================
