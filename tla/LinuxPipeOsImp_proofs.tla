------------------------- MODULE LinuxPipeOsImp_proofs -------------------------
(***************************************************************************)
(* Proofs about the pipe's calls: they use the request path as             *)
(* LinuxRequestProxy.tla says, so its theorems hold of them; no request    *)
(* slips away from abortAllSubmissions; none is cancelled twice; and what  *)
(* an abort was to stop is stopped when it returns.                        *)
(***************************************************************************)
EXTENDS LinuxPipeOsImp, LinuxRequestProxy_proofs

USE DEF Requests, UrbRequests, SyncRequests, Threads, pipeVars, callVars, allVars

\* Every step of a call is a step of the request path, or none.
LEMMA PipeStepIsStep == [PipeNext]_allVars => [Next]_vars
<1> SUFFICES ASSUME [PipeNext]_allVars PROVE [Next]_vars
  OBVIOUS
<1>1. ASSUME NEW c \in Clients, NewCall(c)
      PROVE  [Next]_vars
  <2>1. (\E r \in Requests : Submit(c, r)) \/ UNCHANGED vars
    BY <1>1 DEF NewCall, asyncSubmit, interfaceCall, deviceAsyncSubmit, abortAllSubmissions
  <2>. QED BY <2>1 DEF Next, ClientCall
<1>2. ASSUME NEW c \in Clients, PipeClientStep(c)
      PROVE  [Next]_vars
  <2>1. CASE addInProgress(c) \/ waitForAll(c) \/ callReturns(c)
    BY <2>1 DEF addInProgress, waitForAll, callReturns
  <2>2. CASE cancelNext(c)
    <3>1. PICK r \in toCancel[c] : Cancel(c, r)
      BY <2>2 DEF cancelNext
    <3>2. r \in Requests
      BY <3>1 DEF Cancel
    <3>. QED BY <3>1, <3>2 DEF Next, ClientCall
  <2>3. CASE Defer(c)
    BY <2>3 DEF Next, ClientStep
  <2>4. CASE Completing(c)
    BY <2>4 DEF Completing, linuxPipeRequestCompleted, Next, ClientStep, SetCompleted
  <2>. QED BY <1>2, <2>1, <2>2, <2>3, <2>4 DEF PipeClientStep
<1>3. ASSUME NEW p \in Proxies, PipeProxyStep(p)
      PROVE  [Next]_vars
  <2>1. ProxyStep(p)
    BY <1>3 DEF PipeProxyStep, Completing, linuxPipeRequestCompleted, ProxyStep, SetCompleted
  <2>. QED BY <2>1 DEF Next
<1>4. CASE Kernel
  BY <1>4 DEF Next
<1>. QED BY <1>1, <1>2, <1>3, <1>4 DEF PipeNext

\* The pipe's calls, as they are composed, take steps of the request path, so that
\* what is proved of its clients holds of these.  That Cancel's guard, which the
\* code of the calls does not have, keeps no call from cancelling is CancelledOnceHolds.
LEMMA RequestPathUsed == PipeSpec => Spec
<1>1. PipeInit => Init
  BY DEF PipeInit
<1>. QED BY <1>1, PipeStepIsStep, PTL DEF PipeSpec, Spec

\* So the invariant of the request path holds while the calls are made.
THEOREM PipePathInvariance == PipeSpec => []IInv
BY RequestPathUsed, Invariance, PTL

(***************************************************************************)
(* A request that is in the hands of an abort, or completing, stays there. *)
(***************************************************************************)
\* No step but CompleteIrp takes a thread away from the completion of an irp.
LEMMA DetachedPersists ==
  ASSUME IInv, [Next]_vars, NEW r \in PipeRequests, Detached(r)
  PROVE  Detached(r)'
<1>1. irpCompletions \in [Requests -> Nat] /\ pc \in [Threads -> ProxyStages \cup ClientStages]
      /\ req \in [Threads -> Requests \cup {NoRequest}]
  BY DEF IInv, TypeOK
<1>2. ASSUME irpCompletions' = irpCompletions,
             \A t \in Threads : pc[t] = "complete" => pc'[t] = "complete" /\ req'[t] = req[t]
      PROVE  Detached(r)'
  BY <1>2 DEF Detached
<1>3. ASSUME NEW t \in Threads, SetCompleted(t)
      PROVE  Detached(r)'
  <2>1. CASE Detach(t)
    BY <1>1, <1>2, <2>1 DEF Detach, Goto, requestVars
  <2>2. CASE CompleteIrp(t)
    <3>1. irpCompletions' = [irpCompletions EXCEPT ![req[t]] = @ + 1] /\ req' = req
          /\ pc' = [pc EXCEPT ![t] = "notify"]
      BY <2>2 DEF CompleteIrp, Goto
    <3>2. CASE req[t] = r
      BY <1>1, <3>1, <3>2 DEF Detached
    <3>3. CASE req[t] # r
      BY <1>1, <3>1, <3>3 DEF Detached
    <3>. QED BY <3>2, <3>3
  <2>3. CASE Notify(t)
    BY <1>1, <1>2, <2>3 DEF Notify, Goto, Release
  <2>. QED BY <1>3, <2>1, <2>2, <2>3 DEF SetCompleted
<1>4. ASSUME NEW c \in Clients, ClientCall(c)
      PROVE  Detached(r)'
  BY <1>1, <1>2, <1>4
     DEF ClientCall, Submit, Cancel, CancelReady, CancelMissed, CallSetCompleted, Goto,
         requestVars, threadVars
<1>5. ASSUME NEW c \in Clients, Defer(c)
      PROVE  Detached(r)'
  BY <1>1, <1>2, <1>5 DEF Defer, Goto, Release, requestVars
<1>6. ASSUME NEW p \in Proxies, ProxyStep(p), ~ SetCompleted(p)
      PROVE  Detached(r)'
  <2>1. CASE Poll(p) \/ getReadyRequest(p) \/ getCancelRequest(p) \/ cancelRequest(p)
             \/ setUrbAddress(p)
    BY <1>1, <1>2, <2>1
       DEF Poll, getReadyRequest, getCancelRequest, cancelRequest, setUrbAddress, Goto,
           Release, requestVars
  <2>2. CASE submitRequest(p)
    BY <1>1, <1>2, <2>2
       DEF submitRequest, pipe_request, dcp_request, set_setting, claim_interface, SubmitUrb,
           SyncIoctl, SubmissionFails, UrbSubmitted, CallSetCompleted, Goto, requestVars
  <2>3. CASE Reap(p)
    BY <1>1, <1>2, <2>3 DEF Reap, ReapUrb, CallSetCompleted, Goto, requestVars
  <2>. QED BY <1>6, <2>1, <2>2, <2>3 DEF ProxyStep
<1>7. CASE Kernel \/ UNCHANGED vars
  BY <1>2, <1>7 DEF Kernel, UrbCompletes, Unplug, vars, requestVars, threadVars
<1>. QED BY <1>3, <1>4, <1>5, <1>6, <1>7 DEF Next, ClientStep

\* A call that returns has waited for what it took, which is thus completing.
LEMMA TrackedPersists ==
  ASSUME IInv, PipeTypeOK, [PipeNext]_allVars, NEW r \in PipeRequests, Taken(r) \/ Detached(r)
  PROVE  Taken(r)' \/ Detached(r)'
<1>1. [Next]_vars
  BY PipeStepIsStep
<1>2. CASE Detached(r)
  BY <1>1, <1>2, DetachedPersists
<1>3. ASSUME NEW c \in Clients, call[c] \in {"cancelling", "waiting"}, r \in awaited[c]
      PROVE  Taken(r)' \/ Detached(r)'
  <2>1. CASE call'[c] \in {"cancelling", "waiting"} /\ awaited'[c] = awaited[c]
    BY <1>3, <2>1 DEF Taken
  <2>2. CASE callReturns(c)
    <3>1. r \in completed
      BY <1>3, <2>2 DEF callReturns
    <3>2. irpCompletions[r] = 1
      BY <3>1, KindsAssumption DEF IInv, CompletedOnce
    <3>3. Detached(r)
      BY <3>2 DEF Detached
    <3>. QED BY <1>1, <3>3, DetachedPersists
  <2>3. ASSUME NEW d \in Clients, NewCall(d) \/ PipeClientStep(d), ~ callReturns(c)
        PROVE  call'[c] \in {"cancelling", "waiting"} /\ awaited'[c] = awaited[c]
    BY <1>3, <2>3
       DEF NewCall, PipeClientStep, asyncSubmit, interfaceCall, deviceAsyncSubmit,
           abortAllSubmissions, addInProgress, cancelNext, waitForAll, callReturns, Completing,
           linuxPipeRequestCompleted, Call, Await, PipeTypeOK
  <2>4. ASSUME UNCHANGED callVars
        PROVE  call'[c] \in {"cancelling", "waiting"} /\ awaited'[c] = awaited[c]
    BY <1>3, <2>4
  <2>. QED BY <2>1, <2>2, <2>3, <2>4 DEF PipeNext, PipeProxyStep, Completing,
                                         linuxPipeRequestCompleted
<1>. QED BY <1>2, <1>3 DEF Taken

\* So what every abort must stop stays tracked, if new aborts only add such requests.
LEMMA AbortTrackedPersists ==
  ASSUME IInv, PipeTypeOK, [PipeNext]_allVars, AbortTracked,
         \A c \in Clients : atStart'[c] \subseteq atStart[c]
  PROVE  AbortTracked'
<1>1. ASSUME NEW c \in Clients, NEW r \in atStart'[c]
      PROVE  Taken(r)' \/ Detached(r)'
  <2>1. r \in PipeRequests /\ (Taken(r) \/ Detached(r))
    BY <1>1 DEF AbortTracked, PipeTypeOK
  <2>. QED BY <2>1, TrackedPersists
<1>. QED BY <1>1 DEF AbortTracked

\* And an accepted request stays found, if only tracked ones leave the list.
LEMMA FoundPersists ==
  ASSUME IInv, PipeTypeOK, [PipeNext]_allVars, InProgressFound,
         \A r \in Accepted' \ Accepted : r \in inProgressList',
         \A r \in inProgressList \ inProgressList' : Taken(r)' \/ Detached(r)'
  PROVE  InProgressFound'
<1>1. ASSUME NEW r \in Accepted'
      PROVE  r \in inProgressList' \/ Taken(r)' \/ Detached(r)'
  <2>1. r \in PipeRequests
    BY <1>1 DEF Accepted
  <2>2. CASE r \in Accepted
    BY <2>1, <2>2, TrackedPersists DEF InProgressFound
  <2>. QED BY <1>1, <2>2
<1>. QED BY <1>1 DEF InProgressFound

(***************************************************************************)
(* The steps of the calls.                                                 *)
(***************************************************************************)
\* The pipe is created with nothing submitted.
LEMMA PipeInvInit == PipeInit => PipeIInv
BY DEF PipeInit, Init, PipeIInv, PipeTypeOK, PlacesInv, CancelledOnce, InProgressFound,
       AbortTracked, Accepted, Adding

\* A request is submitted and not yet listed: nothing else knows of it.
LEMMA AsyncSubmitInv ==
  ASSUME IInv, PipeIInv, NEW c \in Clients, NEW r \in PipeRequests, asyncSubmit(c, r)
  PROVE  PipeIInv'
<1>1. PipeTypeOK /\ PlacesInv /\ CancelledOnce /\ InProgressFound /\ AbortTracked
  BY DEF PipeIInv
<1>2. [PipeNext]_allVars
  BY DEF PipeNext, NewCall
<1>3. /\ call[c] = "out" /\ call' = [call EXCEPT ![c] = "adding"]
      /\ awaited' = [awaited EXCEPT ![c] = {r}]
      /\ r \notin submitted /\ submitted' = submitted \cup {r}
      /\ cancelled' = cancelled
      /\ UNCHANGED <<inProgressList, toCancel, atStart>>
  BY DEF asyncSubmit, Call, Await, Submit
<1>4. PipeTypeOK'
  BY <1>1, <1>3 DEF PipeTypeOK
<1>5. PlacesInv'
  BY <1>1, <1>3 DEF PlacesInv, Adding, PipeTypeOK
<1>6. CancelledOnce'
  BY <1>1, <1>3 DEF CancelledOnce
<1>7. Accepted' \subseteq Accepted
  BY <1>1, <1>3 DEF Accepted, PipeTypeOK
<1>8. InProgressFound'
  BY <1>1, <1>2, <1>3, <1>7, FoundPersists
<1>9. AbortTracked'
  BY <1>1, <1>2, <1>3, AbortTrackedPersists
<1>. QED BY <1>4, <1>5, <1>6, <1>8, <1>9 DEF PipeIInv

\* A request of another kind is submitted: no pipe request is touched.
LEMMA OtherSubmitInv ==
  ASSUME IInv, PipeIInv, NEW c \in Clients, NEW k \in Requests \ PipeRequests,
         interfaceCall(c, k) \/ deviceAsyncSubmit(c, k),
         k \in ClaimRequests \/ deviceAsyncSubmit(c, k),
         NewCall(c)
  PROVE  PipeIInv'
<1>1. PipeTypeOK /\ PlacesInv /\ CancelledOnce /\ InProgressFound /\ AbortTracked
  BY DEF PipeIInv
<1>2. [PipeNext]_allVars
  BY DEF PipeNext
<1>3. /\ call[c] = "out"
      /\ \/ call' = call /\ awaited' = awaited
         \/ /\ call' = [call EXCEPT ![c] = "waiting"]
            /\ awaited' = [awaited EXCEPT ![c] = {k}]
      /\ submitted' = submitted \cup {k}
      /\ cancelled' = cancelled
      /\ UNCHANGED <<inProgressList, toCancel, atStart>>
  BY DEF interfaceCall, deviceAsyncSubmit, Call, Await, Submit
<1>4. PipeTypeOK'
  BY <1>1, <1>3 DEF PipeTypeOK
<1>5. PlacesInv'
  BY <1>1, <1>3 DEF PlacesInv, Adding, PipeTypeOK
<1>6. CancelledOnce'
  BY <1>1, <1>3 DEF CancelledOnce
<1>7. Accepted' \subseteq Accepted
  BY <1>1, <1>3 DEF Accepted, PipeTypeOK
<1>8. InProgressFound'
  BY <1>1, <1>2, <1>3, <1>7, FoundPersists
<1>9. AbortTracked'
  BY <1>1, <1>2, <1>3, AbortTrackedPersists
<1>. QED BY <1>4, <1>5, <1>6, <1>8, <1>9 DEF PipeIInv

\* asyncSubmit adds its request, which is now accepted, to the list.
LEMMA AddInProgressInv ==
  ASSUME IInv, PipeIInv, NEW c \in Clients, addInProgress(c)
  PROVE  PipeIInv'
<1>1. PipeTypeOK /\ PlacesInv /\ CancelledOnce /\ InProgressFound /\ AbortTracked
  BY DEF PipeIInv
<1>2. [PipeNext]_allVars
  BY DEF PipeNext, PipeClientStep
<1>3. /\ call[c] = "adding" /\ call' = [call EXCEPT ![c] = "out"]
      /\ awaited' = [awaited EXCEPT ![c] = {}]
      /\ inProgressList' = inProgressList \cup awaited[c]
      /\ submitted' = submitted /\ cancelled' = cancelled
      /\ UNCHANGED <<toCancel, atStart>>
  BY DEF addInProgress, Call, Await, vars, clientVars
<1>4. awaited[c] \subseteq PipeRequests /\ Adding(c) = awaited[c]
  BY <1>1, <1>3 DEF PlacesInv, Adding
<1>5. PipeTypeOK'
  BY <1>1, <1>3, <1>4 DEF PipeTypeOK
<1>6. PlacesInv'
  <2>1. \A d \in Clients : Adding(d)' = IF d = c THEN {} ELSE Adding(d)
    BY <1>1, <1>3 DEF Adding, PipeTypeOK
  <2>. QED BY <1>1, <1>3, <1>4, <2>1 DEF PlacesInv
<1>7. CancelledOnce'
  BY <1>1, <1>3, <1>4 DEF CancelledOnce, PlacesInv
<1>8. \A r \in Accepted' \ Accepted : r \in inProgressList'
  BY <1>1, <1>3 DEF Accepted, PipeTypeOK
<1>9. InProgressFound'
  BY <1>1, <1>2, <1>3, <1>8, FoundPersists
<1>10. AbortTracked'
  BY <1>1, <1>2, <1>3, AbortTrackedPersists
<1>. QED BY <1>5, <1>6, <1>7, <1>9, <1>10 DEF PipeIInv

\* abortAllSubmissions takes over the list; what is not there is tracked already.
LEMMA AbortInv ==
  ASSUME IInv, PipeIInv, NEW c \in Clients, abortAllSubmissions(c)
  PROVE  PipeIInv'
<1>1. PipeTypeOK /\ PlacesInv /\ CancelledOnce /\ InProgressFound /\ AbortTracked
  BY DEF PipeIInv
<1>2. [PipeNext]_allVars
  BY DEF PipeNext, NewCall
<1>3. /\ call[c] = "out" /\ call' = [call EXCEPT ![c] = "cancelling"]
      /\ toCancel' = [toCancel EXCEPT ![c] = inProgressList]
      /\ awaited' = [awaited EXCEPT ![c] = inProgressList]
      /\ inProgressList' = {}
      /\ atStart' = [atStart EXCEPT ![c] = Accepted]
      /\ submitted' = submitted /\ cancelled' = cancelled
  BY DEF abortAllSubmissions, Call, Await, vars, clientVars
<1>4. PipeTypeOK'
  BY <1>1, <1>3 DEF PipeTypeOK, Accepted
<1>5. PlacesInv'
  BY <1>1, <1>3 DEF PlacesInv, Adding, PipeTypeOK
<1>6. CancelledOnce'
  BY <1>1, <1>3 DEF CancelledOnce, PlacesInv, PipeTypeOK
<1>7. Accepted' \subseteq Accepted
  BY <1>1, <1>3 DEF Accepted, PipeTypeOK
<1>8. \A r \in inProgressList : Taken(r)'
  BY <1>1, <1>3 DEF Taken, PipeTypeOK
<1>9. InProgressFound'
  BY <1>1, <1>2, <1>7, <1>8, FoundPersists
<1>10. AbortTracked'
  <2>1. ASSUME NEW d \in Clients, NEW r \in atStart'[d]
        PROVE  Taken(r)' \/ Detached(r)'
    <3>1. CASE d = c /\ r \in inProgressList
      BY <1>8, <3>1
    <3>2. CASE d = c /\ r \notin inProgressList
      <4>1. r \in PipeRequests /\ (Taken(r) \/ Detached(r))
        BY <1>1, <1>3, <2>1, <3>2 DEF InProgressFound, PipeTypeOK, Accepted
      <4>. QED BY <1>1, <1>2, <4>1, TrackedPersists
    <3>3. CASE d # c
      <4>1. r \in PipeRequests /\ (Taken(r) \/ Detached(r))
        BY <1>1, <1>3, <2>1, <3>3 DEF AbortTracked, PipeTypeOK
      <4>. QED BY <1>1, <1>2, <4>1, TrackedPersists
    <3>. QED BY <3>1, <3>2, <3>3
  <2>. QED BY <2>1 DEF AbortTracked
<1>. QED BY <1>4, <1>5, <1>6, <1>9, <1>10 DEF PipeIInv

\* abortAllSubmissions cancels one of the requests it took.
LEMMA CancelNextInv ==
  ASSUME IInv, PipeIInv, NEW c \in Clients, cancelNext(c)
  PROVE  PipeIInv'
<1>1. PipeTypeOK /\ PlacesInv /\ CancelledOnce /\ InProgressFound /\ AbortTracked
  BY DEF PipeIInv
<1>2. [PipeNext]_allVars
  BY DEF PipeNext, PipeClientStep
<1>3. PICK r \in toCancel[c] :
        /\ Cancel(c, r)
        /\ toCancel' = [toCancel EXCEPT ![c] = @ \ {r}]
  BY DEF cancelNext
<1>4. cancelled' = cancelled \cup {r} /\ submitted' = submitted
      /\ UNCHANGED <<inProgressList, call, awaited, atStart>>
  BY <1>3 DEF Cancel, cancelNext
<1>5. r \in submitted /\ r \notin inProgressList \cup cancelled
      /\ \A d \in Clients : r \notin Adding(d) /\ (d # c => r \notin toCancel[d])
  BY <1>1, <1>3 DEF PlacesInv, CancelledOnce
<1>6. PipeTypeOK'
  BY <1>1, <1>3, <1>4 DEF PipeTypeOK
<1>7. PlacesInv'
  <2>1. \A d \in Clients : Adding(d)' = Adding(d) /\ toCancel'[d] \subseteq toCancel[d]
    BY <1>1, <1>3, <1>4 DEF Adding, PipeTypeOK
  <2>. QED BY <1>1, <1>4, <1>5, <2>1 DEF PlacesInv
<1>8. CancelledOnce'
  BY <1>1, <1>3, <1>4, <1>5 DEF CancelledOnce, PipeTypeOK
<1>9. Accepted' = Accepted
  BY <1>4 DEF Accepted
<1>10. InProgressFound'
  BY <1>1, <1>2, <1>4, <1>9, FoundPersists
<1>11. AbortTracked'
  BY <1>1, <1>2, <1>4, AbortTrackedPersists
<1>. QED BY <1>6, <1>7, <1>8, <1>10, <1>11 DEF PipeIInv

\* abortAllSubmissions begins to wait, or a call that waited returns.
LEMMA WaitInv ==
  ASSUME IInv, PipeIInv, NEW c \in Clients, waitForAll(c) \/ callReturns(c)
  PROVE  PipeIInv'
<1>1. PipeTypeOK /\ PlacesInv /\ CancelledOnce /\ InProgressFound /\ AbortTracked
  BY DEF PipeIInv
<1>2. [PipeNext]_allVars
  BY DEF PipeNext, PipeClientStep
<1>3. /\ call[c] # "adding"
      /\ call' = [call EXCEPT ![c] = "waiting"] \/ call' = [call EXCEPT ![c] = "out"]
      /\ awaited' = awaited \/ awaited' = [awaited EXCEPT ![c] = {}]
      /\ atStart' = atStart \/ atStart' = [atStart EXCEPT ![c] = {}]
      /\ submitted' = submitted /\ cancelled' = cancelled
      /\ UNCHANGED <<inProgressList, toCancel>>
  BY DEF waitForAll, callReturns, Call, Await, vars, clientVars
<1>4. PipeTypeOK'
  BY <1>1, <1>3 DEF PipeTypeOK
<1>5. \A d \in Clients :
        /\ call'[d] = "adding" <=> call[d] = "adding"
        /\ call[d] = "adding" => awaited'[d] = awaited[d]
        /\ atStart'[d] \subseteq atStart[d]
  BY <1>1, <1>3 DEF PipeTypeOK
<1>6. PlacesInv'
  <2>1. \A d \in Clients : Adding(d)' = Adding(d)
    BY <1>5 DEF Adding
  <2>. QED BY <1>1, <1>3, <2>1 DEF PlacesInv
<1>7. CancelledOnce'
  BY <1>1, <1>3 DEF CancelledOnce
<1>8. Accepted' \subseteq Accepted
  BY <1>3, <1>5 DEF Accepted
<1>9. InProgressFound'
  BY <1>1, <1>2, <1>3, <1>8, FoundPersists
<1>10. AbortTracked'
  BY <1>1, <1>2, <1>5, AbortTrackedPersists
<1>. QED BY <1>4, <1>6, <1>7, <1>9, <1>10 DEF PipeIInv

\* A request leaves the list when it is completing; the other steps of the
\* request path do not touch what the calls keep.
LEMMA PathStepInv ==
  ASSUME IInv, PipeIInv, [PipeNext]_allVars,
         UNCHANGED <<submitted, cancelled, callVars>>,
         UNCHANGED inProgressList \/ \E t \in Threads : linuxPipeRequestCompleted(t)
  PROVE  PipeIInv'
<1>1. PipeTypeOK /\ PlacesInv /\ CancelledOnce /\ InProgressFound /\ AbortTracked
  BY DEF PipeIInv
<1>2. inProgressList' \subseteq inProgressList
  BY DEF linuxPipeRequestCompleted
<1>3. \A r \in inProgressList \ inProgressList' : Detached(r)'
  <2>1. ASSUME NEW t \in Threads, linuxPipeRequestCompleted(t)
        PROVE  pc'[t] = "complete" /\ req' = req
    BY <2>1 DEF linuxPipeRequestCompleted, Detach, Goto, IInv, TypeOK
  <2>. QED BY <2>1 DEF linuxPipeRequestCompleted, Detached
<1>4. PipeTypeOK'
  BY <1>1, <1>2 DEF PipeTypeOK
<1>5. PlacesInv'
  <2>1. \A d \in Clients : Adding(d)' = Adding(d)
    BY DEF Adding
  <2>. QED BY <1>1, <1>2, <2>1 DEF PlacesInv
<1>6. CancelledOnce'
  BY <1>1, <1>2 DEF CancelledOnce
<1>7. Accepted' = Accepted
  BY DEF Accepted
<1>8. InProgressFound'
  BY <1>1, <1>3, <1>7, FoundPersists
<1>9. AbortTracked'
  BY <1>1, AbortTrackedPersists
<1>. QED BY <1>4, <1>5, <1>6, <1>8, <1>9 DEF PipeIInv

(***************************************************************************)
(* The theorems.                                                           *)
(***************************************************************************)
\* Every step of the calls and of the request path preserves the invariant.
LEMMA PipeInvNext == IInv /\ PipeIInv /\ [PipeNext]_allVars => PipeIInv'
<1> SUFFICES ASSUME IInv, PipeIInv, [PipeNext]_allVars
             PROVE  PipeIInv'
  OBVIOUS
<1>1. ASSUME NEW t \in Threads, Completing(t)
      PROVE  PipeIInv'
  <2>1. UNCHANGED <<submitted, cancelled, callVars>>
    BY <1>1 DEF Completing, linuxPipeRequestCompleted, Detach, CompleteIrp, Notify, clientVars
  <2>2. UNCHANGED inProgressList \/ linuxPipeRequestCompleted(t)
    BY <1>1 DEF Completing
  <2>. QED BY <2>1, <2>2, PathStepInv
<1>2. ASSUME NEW c \in Clients, NewCall(c)
      PROVE  PipeIInv'
  <2>1. ASSUME NEW k \in ClaimRequests, interfaceCall(c, k)
        PROVE  PipeIInv'
    BY <1>2, <2>1, OtherSubmitInv, KindsAssumption
  <2>2. ASSUME NEW r \in DcpRequests \cup SettingRequests, deviceAsyncSubmit(c, r)
        PROVE  PipeIInv'
    BY <1>2, <2>2, OtherSubmitInv, KindsAssumption
  <2>. QED BY <1>2, <2>1, <2>2, AsyncSubmitInv, AbortInv DEF NewCall
<1>3. ASSUME NEW c \in Clients, PipeClientStep(c)
      PROVE  PipeIInv'
  <2>1. CASE Defer(c) /\ UNCHANGED pipeVars
    BY <2>1, PathStepInv DEF Defer, clientVars
  <2>. QED BY <1>1, <1>3, <2>1, AddInProgressInv, CancelNextInv, WaitInv DEF PipeClientStep
<1>4. ASSUME NEW p \in Proxies, PipeProxyStep(p), ~ Completing(p)
      PROVE  PipeIInv'
  <2>1. UNCHANGED <<submitted, cancelled, pipeVars>>
    BY <1>4 DEF PipeProxyStep, Poll, getReadyRequest, submitRequest, setUrbAddress,
                getCancelRequest, cancelRequest, Reap, ReapUrb, clientVars
  <2>. QED BY <2>1, PathStepInv
<1>5. CASE Kernel /\ UNCHANGED pipeVars
  BY <1>5, PathStepInv DEF Kernel, UrbCompletes, Unplug, clientVars
<1>6. CASE UNCHANGED allVars
  BY <1>6, PathStepInv DEF vars, clientVars
<1>. QED BY <1>1, <1>2, <1>3, <1>4, <1>5, <1>6 DEF PipeNext

\* The invariant of the calls holds in every state of every behaviour.
THEOREM PipeInvariance == PipeSpec => []PipeIInv
<1>1. IInv /\ PipeIInv /\ [PipeNext]_allVars => PipeIInv'
  BY PipeInvNext
<1>. QED BY <1>1, PipeInvInit, PipePathInvariance, PTL DEF PipeSpec

\* The list and the calls keep their types.
THEOREM PipeTypeCorrect == PipeSpec => []PipeTypeOK
<1>1. PipeIInv => PipeTypeOK
  BY DEF PipeIInv
<1>. QED BY <1>1, PipeInvariance, PTL

\* abortAllSubmissions finds every accepted request that is not yet completing,
\* whatever asyncSubmits, completions and other aborts run at the same time.
THEOREM InProgressFoundHolds == PipeSpec => []InProgressFound
<1>1. PipeIInv => InProgressFound
  BY DEF PipeIInv
<1>. QED BY <1>1, PipeInvariance, PTL

\* No request is cancelled twice, with any number of aborting threads.
THEOREM CancelledOnceHolds == PipeSpec => []CancelledOnce
<1>1. PipeIInv => CancelledOnce
  BY DEF PipeIInv
<1>. QED BY <1>1, PipeInvariance, PTL

\* A request that is completing has left readyList and the kernel.
LEMMA DetachedStopped ==
  ASSUME IInv, NEW r \in PipeRequests, Detached(r)
  PROVE  Stopped(r)
<1>1. TypeOK /\ ReadyInv /\ HeldInv /\ KernelInv
  BY DEF IInv
<1>2. CASE irpCompletions[r] > 0
  <2>1. irpCompletions[r] # 0
    BY <1>1, <1>2 DEF TypeOK
  <2>2. ~ Ready(r)
    BY <1>1, <2>1 DEF ReadyInv, Untouched
  <2>3. \A t \in Threads : pc[t] \in {"submit", "address"} => req[t] # r
    BY <1>1, <2>1 DEF HeldInv, Held, HeldStages
  <2>4. \A p \in Proxies, a \in Urbs : InKernel(p, a) => usercontext[a] # r
    BY <1>1, <2>1 DEF KernelInv
  <2>. QED BY <2>2, <2>3, <2>4 DEF Stopped
<1>3. ASSUME NEW t \in Threads, pc[t] = "complete", req[t] = r
      PROVE  Stopped(r)
  <2>1. Held(t, r)
    BY <1>3 DEF Held, HeldStages, SetCompletedStages
  <2>2. ~ Ready(r)
    BY <1>1, <2>1 DEF ReadyInv, Untouched
  <2>3. \A u \in Threads : pc[u] \in {"submit", "address"} => req[u] # r
    BY <1>1, <1>3, <2>1 DEF HeldInv, Held, HeldStages
  <2>4. \A a \in Urbs : usercontext[a] # r
    BY <1>1, <1>3, <2>1 DEF HeldInv
  <2>. QED BY <2>2, <2>3, <2>4 DEF Stopped
<1>. QED BY <1>2, <1>3 DEF Detached

\* The step in which a call that waited returns leaves the request path alone.
LEMMA CallReturnsOnly ==
  ASSUME PipeTypeOK, [PipeNext]_allVars, NEW c \in Clients, Returns(c)
  PROVE  UNCHANGED vars
<1>1. ASSUME NEW d \in Clients, NewCall(d)
      PROVE  FALSE
  BY <1>1 DEF Returns, NewCall, asyncSubmit, interfaceCall, deviceAsyncSubmit,
              abortAllSubmissions, Call, PipeTypeOK
<1>2. ASSUME NEW d \in Clients, PipeClientStep(d), ~ callReturns(d)
      PROVE  FALSE
  BY <1>2 DEF Returns, PipeClientStep, addInProgress, cancelNext, waitForAll, Completing,
              linuxPipeRequestCompleted, Call, PipeTypeOK
<1>3. ASSUME NEW p \in Proxies, PipeProxyStep(p)
      PROVE  FALSE
  BY <1>3 DEF Returns, PipeProxyStep, Completing, linuxPipeRequestCompleted
<1>. QED BY <1>1, <1>2, <1>3 DEF PipeNext, Returns, callReturns

\* What was accepted before an abort began is out of readyList and of the
\* kernel when it returns, but for what another thread's abort has taken.
THEOREM AbortStopsHolds == PipeSpec => AbortStops
<1>1. ASSUME IInv, PipeIInv, [PipeNext]_allVars, NEW c \in Clients, Returns(c),
             NEW r \in atStart[c], ~ Taken(r)'
      PROVE  Stopped(r)'
  <2>1. r \in PipeRequests /\ (Taken(r) \/ Detached(r))
    BY <1>1 DEF PipeIInv, PipeTypeOK, AbortTracked
  <2>2. Detached(r)'
    BY <1>1, <2>1, TrackedPersists DEF PipeIInv
  <2>3. UNCHANGED vars
    BY <1>1, CallReturnsOnly DEF PipeIInv
  <2>4. Detached(r)
    BY <2>2, <2>3 DEF Detached, vars, requestVars, threadVars
  <2>5. Stopped(r)
    BY <1>1, <2>1, <2>4, DetachedStopped
  <2>. QED BY <2>3, <2>5 DEF Stopped, Ready, InKernel, vars, listVars, kernelVars, nativeVars,
                             threadVars
<1>2. IInv /\ PipeIInv /\ [PipeNext]_allVars =>
        [\A c \in Clients : Returns(c) => \A r \in atStart[c] : Stopped(r)' \/ Taken(r)']_allVars
  BY <1>1
<1>. QED BY <1>2, PipePathInvariance, PipeInvariance, PTL DEF PipeSpec, AbortStops

(***************************************************************************)
(* What was proved of the request path holds while the calls are made.     *)
(***************************************************************************)
\* The pipe's and the interfaces' calls keep the request path's promises, and
\* the service their users see is the abstract one.
THEOREM PipeKeepsPromises ==
  PipeSpec => /\ ImplementsService
              /\ [](CompletedOnce /\ KernelUrbsValid /\ NothingLeaked)
              /\ [](OutcomeTruthful /\ NoRequestLost)
BY RequestPathUsed, Refinement, CompletedOnceHolds, KernelUrbsValidHolds, NothingLeakedHolds,
   OutcomeTruthfulHolds, NoRequestLostHolds, PTL

\* Nor does a call lose a cancel, if one thread serves the device.
THEOREM PipeCancelNotLost == ASSUME NEW p, Proxies = {p} PROVE PipeSpec => []CancelNotLost
<1>1. Spec => []CancelNotLost
  BY CancelNotLostHolds
<1>. QED BY <1>1, RequestPathUsed, PTL

(***************************************************************************)
(* Nobody waits for what nobody will do.                                   *)
(***************************************************************************)
\* What an abort has taken off the list it has cancelled, or will, before it waits.
LEMMA AwaitInvNext ==
  ASSUME IInv, PipeIInv, AwaitInv, [PipeNext]_allVars
  PROVE  AwaitInv'
<1>0. PipeTypeOK /\ inProgressList \subseteq submitted
  BY DEF PipeIInv, PlacesInv
<1>1. submitted \subseteq submitted' /\ cancelled \subseteq cancelled'
  BY PipeStepIsStep, HistorySteps
<1>2. ASSUME UNCHANGED callVars
      PROVE  AwaitInv'
  BY <1>1, <1>2 DEF AwaitInv
<1>3. ASSUME NEW c \in Clients, NewCall(c)
      PROVE  AwaitInv'
  <2>1. ASSUME NEW r \in PipeRequests, asyncSubmit(c, r)
        PROVE  AwaitInv'
    BY <1>0, <1>1, <2>1 DEF asyncSubmit, Call, Await, AwaitInv, PipeTypeOK
  <2>2. ASSUME NEW k \in ClaimRequests, interfaceCall(c, k)
        PROVE  AwaitInv'
    <3>1. k \notin PipeRequests /\ k \in submitted'
      BY <2>2, KindsAssumption DEF interfaceCall, Submit
    <3>. QED BY <1>0, <1>1, <2>2, <3>1 DEF interfaceCall, Call, Await, AwaitInv, PipeTypeOK
  <2>3. CASE abortAllSubmissions(c)
    BY <1>0, <1>1, <2>3 DEF abortAllSubmissions, Call, Await, AwaitInv, PipeTypeOK
  <2>. QED BY <1>2, <1>3, <2>1, <2>2, <2>3 DEF NewCall, deviceAsyncSubmit
<1>4. ASSUME NEW c \in Clients, cancelNext(c)
      PROVE  AwaitInv'
  <2>. PICK r \in toCancel[c] : Cancel(c, r) /\ toCancel' = [toCancel EXCEPT ![c] = @ \ {r}]
    BY <1>4 DEF cancelNext
  <2>1. r \in cancelled' /\ call[c] = "cancelling" /\ UNCHANGED <<call, awaited>>
    BY <1>4 DEF cancelNext, Cancel
  <2>. QED BY <1>0, <1>1, <2>1 DEF AwaitInv, PipeTypeOK
<1>5. ASSUME NEW c \in Clients, addInProgress(c) \/ waitForAll(c) \/ callReturns(c)
      PROVE  AwaitInv'
  BY <1>0, <1>1, <1>5
     DEF addInProgress, waitForAll, callReturns, Call, Await, AwaitInv, PipeTypeOK
<1>. QED BY <1>2, <1>3, <1>4, <1>5
     DEF PipeNext, PipeClientStep, PipeProxyStep, Completing, linuxPipeRequestCompleted

\* If one thread serves the device, a call that waits for a request waits for
\* something that is about to happen, or for an URB of a device that is gone.
THEOREM NoHopelessWaitHolds == ASSUME NEW p, Proxies = {p} PROVE PipeSpec => []NoHopelessWait
<1>1. PipeInit => AwaitInv
  BY DEF PipeInit, AwaitInv
<1>2. IInv /\ PipeIInv /\ AwaitInv /\ [PipeNext]_allVars => AwaitInv'
  BY AwaitInvNext
<1>3. PipeSpec => []AwaitInv
  BY <1>1, <1>2, PipePathInvariance, PipeInvariance, PTL DEF PipeSpec
<1>4. IInv /\ AwaitInv /\ NoRequestLost /\ CancelNotLost => NoHopelessWait
  <2> SUFFICES ASSUME IInv, AwaitInv, NoRequestLost, CancelNotLost,
                      NEW c \in Clients, call[c] = "waiting", NEW r \in awaited[c] \ completed
               PROVE  \/ CancelComing(r) \/ Ending(r) \/ StuckInKernel(c)
                      \/ r \in ClaimRequests /\ (Ready(r) \/ \E t \in Threads : Held(t, r))
    BY DEF NoHopelessWait
  <2>1. r \in submitted /\ (r \in PipeRequests => r \in cancelled) /\ r \in PipeRequests \cup ClaimRequests
    BY DEF AwaitInv
  <2>2. CASE r \in PipeRequests
    BY <2>1, <2>2 DEF CancelNotLost, HasUrb, StuckInKernel
  <2>3. CASE r \in ClaimRequests
    <3>1. ~ HasUrb(r)
      BY <2>3, KindsAssumption, NullAssumption DEF HasUrb, IInv, TypeOK
    <3>2. Ready(r) \/ \E t \in Threads : Held(t, r)
      BY <2>1, <3>1 DEF NoRequestLost, Located
    <3>. QED BY <2>3, <3>2
  <2>. QED BY <2>1, <2>2, <2>3
<1>5. PipeSpec => []CancelNotLost
  BY PipeCancelNotLost
<1>. QED BY <1>3, <1>4, <1>5, PipePathInvariance, PipeKeepsPromises, PTL
================================================================================
