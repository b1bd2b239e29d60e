-------------------------- MODULE LinuxInterfaceOsImp --------------------------
(***************************************************************************)
(* Claiming an interface, from the first call on a device nobody has used: *)
(* LinuxInterfaceOsImp.java (claim, release, isClaimed; LinuxPipeOsImp's   *)
(* open is a call of isClaimed), LinuxDeviceOsImp.java (submit starts the  *)
(* proxy thread, see LinuxDeviceProxy.tla) and JavaxUsbInterfaceRequest.c. *)
(*                                                                         *)
(* Each call makes one request and waits for it, so a request is named by  *)
(* the client whose call it is.  The kernel keeps a claim for a file       *)
(* descriptor, which is that of one native thread.  The model has one      *)
(* interface: the kernel treats each alone.                                *)
(***************************************************************************)
EXTENDS LinuxDeviceProxy, Sequences

CONSTANTS
  Free,   \* nobody has the interface
  Other   \* a driver of the kernel or another program has it

ASSUME OwnersAssumption == Free \notin Natives /\ Other \notin Natives /\ Free # Other

VARIABLES
  op,        \* the call every client is in, "none" if none
  request,   \* what has become of the request of its call
  error,     \* whether the request's setError was called
  claimed,   \* the request's claimed
  readyList, \* LinuxRequestProxy.readyList
  serves,    \* the client whose request a native thread works on
  owner      \* whose claim the kernel has recorded

requestVars == <<op, request, error, claimed>>
interfaceVars == <<requestVars, readyList, serves, owner>>
allVars == <<vars, interfaceVars>>

InterfaceInit ==
  /\ Init
  /\ op = [c \in Clients |-> "none"]
  /\ request = [c \in Clients |-> "none"]
  /\ error = [c \in Clients |-> FALSE]
  /\ claimed = [c \in Clients |-> FALSE]
  /\ readyList = <<>>
  /\ serves = [n \in Natives |-> Nobody]
  /\ owner \in {Free, Other}

RequestGoes(c, from, to) == request[c] = from /\ request' = [request EXCEPT ![c] = to]

(***************************************************************************)
(* The calls.                                                              *)
(***************************************************************************)
\* A new request is made, and submit asks whether the proxy thread is running.
Invoke(c, k) ==
  /\ getLinuxDeviceProxy(c)
  /\ RequestGoes(c, "none", "new")
  /\ op' = [op EXCEPT ![c] = k]
  /\ error' = [error EXCEPT ![c] = FALSE]
  /\ claimed' = [claimed EXCEPT ![c] = FALSE]
  /\ UNCHANGED <<readyList, serves, owner>>

\* Mutant: the exception of getLinuxDeviceProxy is ignored, as cancel does.
submitAnyway(c) ==
  /\ stage[c] \in {"got", "failed"}
  /\ RequestGoes(c, "new", "ready")
  /\ readyList' = Append(readyList, c)
  /\ UNCHANGED <<vars, op, error, claimed, serves, owner>>

\* getLinuxDeviceProxy().submit(request)
submit(c) ==
  /\ stage[c] = "got"
  /\ RequestGoes(c, "new", "ready")
  /\ readyList' = Append(readyList, c)
  /\ UNCHANGED <<vars, op, error, claimed, serves, owner>>

\* The call returns: the start failed, or waitUntilCompleted has returned.
Returns(c) ==
  /\ \/ stage[c] = "failed" /\ RequestGoes(c, "new", "none")
     \/ RequestGoes(c, "completed", "none")
  /\ op' = [op EXCEPT ![c] = "none"]
  /\ UNCHANGED <<vars, error, claimed, readyList, serves, owner>>

(***************************************************************************)
(* A proxy thread in its loop.                                             *)
(***************************************************************************)
getReadyRequest(n) ==
  /\ native[n] = "serving" /\ serves[n] = Nobody /\ readyList # <<>>
  /\ serves' = [serves EXCEPT ![n] = Head(readyList)]
  /\ RequestGoes(Head(readyList), "ready", "held")
  /\ readyList' = Tail(readyList)
  /\ UNCHANGED <<vars, op, error, claimed, owner>>

\* ioctl(USBDEVFS_CLAIMINTERFACE): the kernel refuses what another fd has.
claim_interface(n, c) ==
  /\ op[c] = "claim" /\ owner \in {Free, n}
  /\ owner' = n
  /\ UNCHANGED <<error, claimed>>

\* ioctl(USBDEVFS_RELEASEINTERFACE)
release_interface(n, c) ==
  /\ op[c] = "release" /\ owner = n
  /\ owner' = Free
  /\ UNCHANGED <<error, claimed>>

\* Mutant: the claimed flag is not taken from the ioctl's result.
is_claimed_always(c) ==
  /\ op[c] = "isClaimed"
  /\ claimed' = [claimed EXCEPT ![c] = TRUE]
  /\ UNCHANGED <<error, owner>>

\* ioctl(USBDEVFS_GETDRIVER): ENODATA if nobody has it, which is no error
is_claimed(c) ==
  /\ op[c] = "isClaimed"
  /\ claimed' = [claimed EXCEPT ![c] = owner # Free]
  /\ UNCHANGED <<error, owner>>

\* Any of them may fail: out of memory, EBUSY, EINVAL of a release by an fd
\* that has no claim, ENODEV.
ioctl_fails(c) == error' = [error EXCEPT ![c] = TRUE] /\ UNCHANGED <<claimed, owner>>

submitRequest(n) ==
  /\ \E c \in Clients :
       /\ serves[n] = c /\ RequestGoes(c, "held", "performed")
       /\ claim_interface(n, c) \/ release_interface(n, c) \/ is_claimed(c) \/ ioctl_fails(c)
  /\ UNCHANGED <<vars, op, readyList, serves>>

\* Mutant: a request that failed is not completed.
setCompletedUnlessError(n) ==
  /\ \E c \in Clients : serves[n] = c /\ request[c] = "performed" /\
       request' = [request EXCEPT ![c] = IF error[c] THEN @ ELSE "completed"]
  /\ serves' = [serves EXCEPT ![n] = Nobody]
  /\ UNCHANGED <<vars, op, error, claimed, readyList, owner>>

setCompleted(n) ==
  /\ \E c \in Clients : serves[n] = c /\ RequestGoes(c, "performed", "completed")
  /\ serves' = [serves EXCEPT ![n] = Nobody]
  /\ UNCHANGED <<vars, op, error, claimed, readyList, owner>>

\* Drivers of the kernel, and other programs.
OtherDriver ==
  /\ \/ owner = Free /\ owner' = Other
     \/ owner = Other /\ owner' = Free
  /\ UNCHANGED <<vars, requestVars, readyList, serves>>

CallStep(c) == (ClientStep(c) /\ UNCHANGED interfaceVars) \/ submit(c) \/ Returns(c)

ProxyStep(n) ==
  \/ NativeStep(n) /\ UNCHANGED interfaceVars
  \/ getReadyRequest(n) \/ submitRequest(n) \/ setCompleted(n)

InterfaceNext ==
  \/ \E c \in Clients : CallStep(c) \/ \E k \in {"claim", "release", "isClaimed"} : Invoke(c, k)
  \/ \E n \in Natives : ProxyStep(n)
  \/ OtherDriver

InterfaceSpec == InterfaceInit /\ [][InterfaceNext]_allVars

\* Threads are scheduled, open and the ioctls return; no call need be made.
InterfaceFairSpec ==
  /\ InterfaceSpec
  /\ \A c \in Clients : WF_allVars(CallStep(c))
  /\ \A n \in Natives : WF_allVars(ProxyStep(n))

--------------------------------------------------------------------------------
(***************************************************************************)
(* Correctness.                                                            *)
(***************************************************************************)
\* The values the variables take.
InterfaceTypeOK ==
  /\ op \in [Clients -> {"none", "claim", "release", "isClaimed"}]
  /\ request \in [Clients -> {"none", "new", "ready", "held", "performed", "completed"}]
  /\ error \in [Clients -> BOOLEAN] /\ claimed \in [Clients -> BOOLEAN]
  /\ readyList \in Seq(Clients)
  /\ serves \in [Natives -> Clients \cup {Nobody}]
  /\ owner \in Natives \cup {Free, Other}

\* Where the request of every call is: not made, or with its caller, in the
\* list, or in the hands of one thread that serves; and a claim is recorded for
\* the descriptor of a thread that still serves, so it can be released again.
ClaimInv ==
  /\ InterfaceTypeOK
  /\ \A c \in Clients :
       /\ request[c] = "none" <=> op[c] = "none"
       /\ request[c] \notin {"none", "new"} => stage[c] = "got"
       /\ request[c] = "none" => stage[c] \in {"out", "got", "failed"}
       /\ request[c] = "new" => stage[c] # "out"
       /\ request[c] \in {"new", "ready", "held"} => ~ error[c]
       /\ request[c] = "ready" <=> \E i \in DOMAIN readyList : readyList[i] = c
       /\ request[c] \in {"held", "performed"} <=> \E n \in Natives : serves[n] = c
  /\ \A i, j \in DOMAIN readyList : readyList[i] = readyList[j] => i = j
  /\ \A n, m \in Natives : serves[n] # Nobody /\ serves[n] = serves[m] => n = m
  /\ \A n \in Natives : serves[n] # Nobody \/ owner = n => native[n] = "serving"

\* With what the start keeps, all that the calls rely on.
InterfaceInv == StartInv /\ ClaimInv

\* Each call acts on the interface at one moment between its beginning and its
\* return, and tells its caller what came of it: whichever of several proxy
\* threads serves it, and if none can be started.
Done(c) ==
  IF request[c] \in {"performed", "completed"}
  THEN CASE error[c] -> "error"
         [] ~ error[c] /\ op[c] # "isClaimed" -> "ok"
         [] ~ error[c] /\ op[c] = "isClaimed" -> IF claimed[c] THEN "true" ELSE "false"
  ELSE IF request[c] = "new" /\ stage[c] = "failed" THEN "error" ELSE "no"

Owner == CASE owner = Free -> "free" [] owner = Other -> "other" [] owner \in Natives -> "us"

Promised == INSTANCE InterfaceService WITH
  done <- [c \in Clients |-> Done(c)],
  owner <- Owner

ImplementsClaims == Promised!Service

\* A call whose request was submitted returns, although nothing limits its wait
\* and other threads go on calling.
CallsAnswered == \A c \in Clients : request[c] = "ready" ~> request[c] = "none"
================================================================================
