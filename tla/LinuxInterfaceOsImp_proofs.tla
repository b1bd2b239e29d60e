----------------------- MODULE LinuxInterfaceOsImp_proofs -----------------------
(***************************************************************************)
(* Proofs about claim, release and isClaimed, for any number of clients    *)
(* and of native threads that serve them.                                  *)
(***************************************************************************)
EXTENDS LinuxInterfaceOsImp, LinuxDeviceProxy_proofs, SequenceTheorems

USE DEF requestVars, interfaceVars

(***************************************************************************)
(* The calls start the proxy thread as LinuxDeviceProxy says.              *)
(***************************************************************************)
LEMMA StepUsesStart == [InterfaceNext]_allVars => [Next]_vars
BY DEF InterfaceNext, CallStep, ProxyStep, Invoke, submit, Returns, getReadyRequest,
       submitRequest, setCompleted, OtherDriver, allVars, Next

\* Every behaviour of the calls is one of LinuxDeviceProxy.
THEOREM StartUsed == InterfaceSpec => Spec
<1>1. InterfaceInit => Init
  BY DEF InterfaceInit
<1>. QED BY <1>1, StepUsesStart, PTL DEF InterfaceSpec, Spec

\* So what is proved of the start holds of the calls.
THEOREM InterfaceStartInvariance == InterfaceSpec => []StartInv
BY StartUsed, StartInvariance, PTL

(***************************************************************************)
(* The inductive invariant.                                                *)
(***************************************************************************)
LEMMA ClaimInvInit == InterfaceInit => ClaimInv
BY NamesAssumption, OwnersAssumption
   DEF InterfaceInit, Init, ClaimInv, InterfaceTypeOK

\* A step of the start: a thread that serves goes on, and a client that is not
\* inside a call stays outside getLinuxDeviceProxy.
LEMMA StartStepClaimInv ==
  ASSUME StartInv, ClaimInv, UNCHANGED interfaceVars,
         (\E c \in Clients : ClientStep(c)) \/ (\E n \in Natives : NativeStep(n))
  PROVE  ClaimInv'
<1>1. \A n \in Natives : native[n] = "serving" => native'[n] = "serving"
  BY DEF ClientStep, Enter, start, StartEnds, NativeStep, open_device, startCompleted,
         ThreadEnds, NativeGoes, StartInv, TypeOK
<1>2. \A c \in Clients :
        \/ stage'[c] = stage[c]
        \/ stage[c] \in {"enter", "start", "waiting", "woken"} /\ stage'[c] # "out"
  <2>1. ASSUME NEW d \in Clients, NEW to,
               stage[d] \in {"enter", "start", "waiting", "woken"}, to # "out",
               stage' = [stage EXCEPT ![d] = to], NEW c \in Clients
        PROVE  \/ stage'[c] = stage[c]
               \/ stage[c] \in {"enter", "start", "waiting", "woken"} /\ stage'[c] # "out"
    BY <2>1 DEF StartInv, TypeOK
  <2>2. CASE \E d \in Clients : ClientStep(d)
    BY <2>1, <2>2 DEF ClientStep, Enter, start, StartEnds, Goto
  <2>3. CASE \E n \in Natives : NativeStep(n)
    BY <2>3 DEF NativeStep, open_device, startCompleted, ThreadEnds, NotifyAll
  <2>. QED BY <2>2, <2>3
<1>3. InterfaceTypeOK'
  BY DEF ClaimInv, InterfaceTypeOK
<1>. QED BY <1>1, <1>2, <1>3 DEF ClaimInv

LEMMA InvokeInv ==
  ASSUME StartInv, ClaimInv, NEW c \in Clients, NEW k \in {"claim", "release", "isClaimed"},
         Invoke(c, k)
  PROVE  ClaimInv'
<1>1. InterfaceTypeOK'
  BY DEF ClaimInv, InterfaceTypeOK, Invoke, RequestGoes
<1>2. stage' = [stage EXCEPT ![c] = IF isRunning THEN "got" ELSE "enter"]
      /\ UNCHANGED native
  BY DEF Invoke, getLinuxDeviceProxy, Goto
<1>3. /\ request[c] = "none" /\ request' = [request EXCEPT ![c] = "new"]
      /\ op' = [op EXCEPT ![c] = k] /\ error' = [error EXCEPT ![c] = FALSE]
      /\ UNCHANGED <<readyList, serves, owner>>
  BY DEF Invoke, RequestGoes
<1>. QED BY <1>1, <1>2, <1>3 DEF ClaimInv, InterfaceTypeOK, StartInv, TypeOK

LEMMA SubmitInv ==
  ASSUME ClaimInv, NEW c \in Clients, submit(c)
  PROVE  ClaimInv'
<1>1. /\ request[c] = "new" /\ request' = [request EXCEPT ![c] = "ready"]
      /\ stage[c] = "got" /\ readyList' = Append(readyList, c)
      /\ UNCHANGED <<vars, op, error, claimed, serves, owner>>
  BY DEF submit, RequestGoes
<1>2. InterfaceTypeOK'
  BY <1>1 DEF ClaimInv, InterfaceTypeOK
<1>3. readyList \in Seq(Clients) /\ \A i \in DOMAIN readyList : readyList[i] # c
  BY <1>1 DEF ClaimInv, InterfaceTypeOK
<1>4. /\ DOMAIN readyList' = 1 .. Len(readyList) + 1 /\ DOMAIN readyList = 1 .. Len(readyList)
      /\ Len(readyList) \in Nat /\ readyList'[Len(readyList) + 1] = c
      /\ \A i \in 1 .. Len(readyList) : readyList'[i] = readyList[i]
  BY <1>1, <1>3
<1>5. \A d \in Clients : (\E i \in DOMAIN readyList' : readyList'[i] = d)
                         <=> (\E i \in DOMAIN readyList : readyList[i] = d) \/ d = c
  BY <1>4
<1>6. \A i, j \in DOMAIN readyList' : readyList'[i] = readyList'[j] => i = j
  BY <1>3, <1>4 DEF ClaimInv
<1>. QED BY <1>1, <1>2, <1>5, <1>6 DEF ClaimInv, InterfaceTypeOK, vars

LEMMA ReturnsInv ==
  ASSUME ClaimInv, NEW c \in Clients, Returns(c)
  PROVE  ClaimInv'
<1>1. /\ request[c] \in {"new", "completed"} /\ stage[c] \in {"got", "failed"}
      /\ request' = [request EXCEPT ![c] = "none"] /\ op' = [op EXCEPT ![c] = "none"]
      /\ UNCHANGED <<vars, error, claimed, readyList, serves, owner>>
  BY DEF Returns, RequestGoes, ClaimInv
<1>2. InterfaceTypeOK'
  BY <1>1 DEF ClaimInv, InterfaceTypeOK
<1>. QED BY <1>1, <1>2 DEF ClaimInv, InterfaceTypeOK, vars

LEMMA GetReadyRequestInv ==
  ASSUME ClaimInv, NEW n \in Natives, getReadyRequest(n)
  PROVE  ClaimInv'
<1>1. readyList \in Seq(Clients) /\ readyList # <<>>
  BY DEF ClaimInv, InterfaceTypeOK, getReadyRequest
<1>. PICK c \in Clients : c = Head(readyList)
  BY <1>1
<1>2. /\ Len(readyList) \in Nat \ {0} /\ DOMAIN readyList = 1 .. Len(readyList)
      /\ readyList[1] = c
      /\ Tail(readyList) \in Seq(Clients)
      /\ DOMAIN Tail(readyList) = 1 .. Len(readyList) - 1
      /\ \A i \in 1 .. Len(readyList) - 1 : Tail(readyList)[i] = readyList[i + 1]
  BY <1>1
<1>3. /\ native[n] = "serving" /\ serves[n] = Nobody /\ serves' = [serves EXCEPT ![n] = c]
      /\ request[c] = "ready" /\ request' = [request EXCEPT ![c] = "held"]
      /\ readyList' = Tail(readyList)
      /\ UNCHANGED <<vars, op, error, claimed, owner>>
  BY DEF getReadyRequest, RequestGoes
<1>4. InterfaceTypeOK'
  BY <1>2, <1>3 DEF ClaimInv, InterfaceTypeOK
<1>5. \A d \in Clients : (\E i \in DOMAIN readyList' : readyList'[i] = d)
                         <=> (\E i \in DOMAIN readyList : readyList[i] = d) /\ d # c
  <2>1. ASSUME NEW i \in 1 .. Len(readyList) - 1
        PROVE  i + 1 \in 1 .. Len(readyList) /\ i + 1 # 1 /\ readyList'[i] = readyList[i + 1]
    BY <1>2, <1>3
  <2>2. ASSUME NEW i \in 1 .. Len(readyList), i # 1
        PROVE  i - 1 \in 1 .. Len(readyList) - 1 /\ readyList'[i - 1] = readyList[i]
    BY <1>2, <1>3, <2>2
  <2>3. 1 \in 1 .. Len(readyList) /\ \A i \in 1 .. Len(readyList) : readyList[i] = c <=> i = 1
    BY <1>2 DEF ClaimInv
  <2>4. ASSUME NEW d \in Clients, NEW i \in DOMAIN readyList', readyList'[i] = d
        PROVE  d # c /\ \E j \in DOMAIN readyList : readyList[j] = d
    BY <1>2, <1>3, <2>1, <2>3, <2>4
  <2>5. ASSUME NEW d \in Clients, NEW i \in DOMAIN readyList, readyList[i] = d, d # c
        PROVE  \E j \in DOMAIN readyList' : readyList'[j] = d
    BY <1>2, <1>3, <2>2, <2>3, <2>5
  <2>. QED BY <2>4, <2>5
<1>6. \A i, j \in DOMAIN readyList' : readyList'[i] = readyList'[j] => i = j
  BY <1>2, <1>3 DEF ClaimInv
<1>7. \A m \in Natives : serves[m] # c
  BY <1>3 DEF ClaimInv
<1>. QED BY <1>3, <1>4, <1>5, <1>6, <1>7, NamesAssumption DEF ClaimInv, InterfaceTypeOK, vars

LEMMA SubmitRequestInv ==
  ASSUME ClaimInv, NEW n \in Natives, submitRequest(n)
  PROVE  ClaimInv'
<1>. PICK c \in Clients :
       /\ serves[n] = c /\ RequestGoes(c, "held", "performed")
       /\ claim_interface(n, c) \/ release_interface(n, c) \/ is_claimed(c) \/ ioctl_fails(c)
  BY DEF submitRequest
<1>1. /\ request[c] = "held" /\ request' = [request EXCEPT ![c] = "performed"]
      /\ UNCHANGED <<vars, op, readyList, serves>>
  BY DEF submitRequest, RequestGoes
<1>2. /\ error' = error \/ error' = [error EXCEPT ![c] = TRUE]
      /\ claimed' = claimed \/ claimed' = [claimed EXCEPT ![c] = owner # Free]
      /\ owner' \in {owner, n, Free}
  BY DEF claim_interface, release_interface, is_claimed, ioctl_fails
<1>3. InterfaceTypeOK'
  BY <1>1, <1>2 DEF ClaimInv, InterfaceTypeOK
<1>. QED BY <1>1, <1>2, <1>3, OwnersAssumption, NamesAssumption
         DEF ClaimInv, InterfaceTypeOK, vars

LEMMA SetCompletedInv ==
  ASSUME ClaimInv, NEW n \in Natives, setCompleted(n)
  PROVE  ClaimInv'
<1>. PICK c \in Clients : serves[n] = c /\ RequestGoes(c, "performed", "completed")
  BY DEF setCompleted
<1>1. /\ request[c] = "performed" /\ request' = [request EXCEPT ![c] = "completed"]
      /\ serves' = [serves EXCEPT ![n] = Nobody]
      /\ UNCHANGED <<vars, op, error, claimed, readyList, owner>>
  BY DEF setCompleted, RequestGoes
<1>2. InterfaceTypeOK'
  BY <1>1 DEF ClaimInv, InterfaceTypeOK
<1>3. \A m \in Natives : serves[m] = c => m = n
  BY NamesAssumption DEF ClaimInv
<1>. QED BY <1>1, <1>2, <1>3, NamesAssumption DEF ClaimInv, InterfaceTypeOK, vars

\* Others take only what no descriptor of the program has.
LEMMA OtherDriverInv ==
  ASSUME ClaimInv, OtherDriver
  PROVE  ClaimInv'
<1>1. InterfaceTypeOK'
  BY DEF OtherDriver, ClaimInv, InterfaceTypeOK
<1>. QED BY <1>1, OwnersAssumption DEF OtherDriver, ClaimInv, vars

\* The invariant holds, with any number of native threads.
THEOREM ClaimInvariance == InterfaceSpec => []ClaimInv
<1>1. StartInv /\ ClaimInv /\ [InterfaceNext]_allVars => ClaimInv'
  <2>1. ASSUME ClaimInv, UNCHANGED allVars
        PROVE  ClaimInv'
    BY <2>1 DEF allVars, vars, ClaimInv, InterfaceTypeOK
  <2>. QED BY <2>1, StartStepClaimInv, InvokeInv, SubmitInv, ReturnsInv, GetReadyRequestInv,
              SubmitRequestInv, SetCompletedInv, OtherDriverInv
           DEF InterfaceNext, CallStep, ProxyStep
<1>. QED BY <1>1, ClaimInvInit, InterfaceStartInvariance, PTL DEF InterfaceSpec

\* The inductive invariant of the calls together with the start they share.
THEOREM InterfaceInvariance == InterfaceSpec => []InterfaceInv
BY InterfaceStartInvariance, ClaimInvariance, PTL DEF InterfaceInv

\* While clients call, whoever start() wakes up reads the result of its own
\* thread, and whoever was told that a thread runs has one that serves.
THEOREM StartInCalls == InterfaceSpec => [](OwnAnswer /\ GotRunning)
<1>1. Spec => [](OwnAnswer /\ GotRunning)
  BY OwnAnswerHolds, GotRunningHolds, PTL
<1>. QED BY <1>1, StartUsed, PTL

\* A request that was submitted has a thread that serves it: it is in the list
\* of which the device's thread takes the next, or already in the hands of one.
Served(c) ==
  \/ /\ thread # NoThread /\ native[thread] = "serving"
     /\ \E i \in DOMAIN readyList : readyList[i] = c
  \/ \E n \in Natives : native[n] = "serving" /\ serves[n] = c

\* No call waits for a request that nobody will take: submit comes only after
\* a start that has succeeded, and no thread that serves ends.
THEOREM SubmittedIsServed ==
  InterfaceSpec =>
    [](\A c \in Clients : request[c] \in {"ready", "held", "performed"} => Served(c))
<1>1. InterfaceInv =>
        \A c \in Clients : request[c] \in {"ready", "held", "performed"} => Served(c)
  <2>. SUFFICES ASSUME InterfaceInv, NEW c \in Clients,
                       request[c] \in {"ready", "held", "performed"}
                PROVE  Served(c)
    OBVIOUS
  <2>1. CASE request[c] = "ready"
    <3>1. stage[c] = "got" /\ \E i \in DOMAIN readyList : readyList[i] = c
      BY <2>1 DEF InterfaceInv, ClaimInv
    <3>. QED BY <3>1 DEF InterfaceInv, StartInv, GotRunning, Served
  <2>2. CASE request[c] \in {"held", "performed"}
    <3>1. PICK n \in Natives : serves[n] = c
      BY <2>2 DEF InterfaceInv, ClaimInv
    <3>2. native[n] = "serving"
      BY <3>1, NamesAssumption DEF InterfaceInv, ClaimInv
    <3>. QED BY <3>1, <3>2 DEF Served
  <2>. QED BY <2>1, <2>2
<1>. QED BY <1>1, InterfaceInvariance, PTL

(***************************************************************************)
(* The calls implement InterfaceService.                                   *)
(***************************************************************************)
Outcomes == [c \in Clients |-> Done(c)]

\* A step that changes no outcome and no owner is invisible.
LEMMA StutterStep ==
  ASSUME UNCHANGED <<op, owner>>, \A c \in Clients : Done(c)' = Done(c)
  PROVE  UNCHANGED Promised!serviceVars
BY DEF Promised!serviceVars, Owner

\* One call gets its outcome.
LEMMA OutcomeStep ==
  ASSUME NEW c \in Clients, NEW how, Done(c) = "no", Done(c)' = how, UNCHANGED op,
         \A d \in Clients \ {c} : Done(d)' = Done(d)
  PROVE  Promised!Ends(c, op[c], how)
BY DEF Promised!Ends

\* A start that fails ends the call with an error; the rest of a start is invisible.
LEMMA StartSimulates ==
  ASSUME StartInv, ClaimInv, UNCHANGED interfaceVars,
         (\E c \in Clients : ClientStep(c)) \/ (\E n \in Natives : NativeStep(n))
  PROVE  [Promised!ServiceNext]_Promised!serviceVars
<1>1. CASE \E c \in Clients : StartEnds(c) /\ startError # 0
  <2>. PICK c \in Clients : StartEnds(c) /\ startError # 0
    BY <1>1
  <2>1. stage[c] = "woken" /\ stage' = [stage EXCEPT ![c] = "failed"]
    BY DEF StartEnds, Goto
  <2>2. request[c] = "new"
    BY <2>1 DEF ClaimInv, InterfaceTypeOK
  <2>3. stage'[c] = "failed" /\ \A d \in Clients \ {c} : stage'[d] = stage[d]
    BY <2>1 DEF StartInv, TypeOK
  <2>4. Done(c) = "no" /\ Done(c)' = "error" /\ \A d \in Clients \ {c} : Done(d)' = Done(d)
    BY <2>1, <2>2, <2>3 DEF Done
  <2>5. op[c] # "none" /\ UNCHANGED Owner
    BY <2>2 DEF ClaimInv, Owner
  <2>6. Promised!Fails(c)
    BY <2>4, <2>5, OutcomeStep DEF Promised!Fails
  <2>. QED BY <2>6 DEF Promised!ServiceNext
<1>2. CASE ~ \E c \in Clients : StartEnds(c) /\ startError # 0
  <2>1. \A c \in Clients : stage'[c] = "failed" <=> stage[c] = "failed"
    BY <1>2 DEF ClientStep, Enter, start, StartEnds, NativeStep, open_device, startCompleted,
                ThreadEnds, NotifyAll, Goto, StartInv, TypeOK
  <2>2. \A c \in Clients : Done(c)' = Done(c)
    BY <2>1 DEF Done
  <2>. QED BY <2>2, StutterStep
<1>. QED BY <1>1, <1>2

\* The moment a call takes effect is its ioctl.
LEMMA SubmitRequestSimulates ==
  ASSUME ClaimInv, NEW n \in Natives, submitRequest(n)
  PROVE  Promised!ServiceNext
<1>. PICK c \in Clients :
       /\ serves[n] = c /\ RequestGoes(c, "held", "performed")
       /\ claim_interface(n, c) \/ release_interface(n, c) \/ is_claimed(c) \/ ioctl_fails(c)
  BY DEF submitRequest
<1>1. /\ request[c] = "held" /\ request'[c] = "performed" /\ ~ error[c]
      /\ \A d \in Clients \ {c} : request'[d] = request[d]
      /\ UNCHANGED <<op, stage>>
  BY DEF submitRequest, RequestGoes, vars, ClaimInv, InterfaceTypeOK
<1>2. /\ \A d \in Clients \ {c} : error'[d] = error[d] /\ claimed'[d] = claimed[d]
      /\ op[c] # "none"
  BY <1>1 DEF claim_interface, release_interface, is_claimed, ioctl_fails,
              ClaimInv, InterfaceTypeOK
<1>3. Done(c) = "no" /\ \A d \in Clients \ {c} : Done(d)' = Done(d)
  BY <1>1, <1>2 DEF Done
<1>4. \A how : Done(c)' = how => Promised!Ends(c, op[c], how)
  BY <1>1, <1>3, OutcomeStep
<1>5. CASE claim_interface(n, c)
  <2>1. Done(c)' = "ok" /\ Owner # "other" /\ Owner' = "us" /\ op[c] = "claim"
    BY <1>1, <1>5, OwnersAssumption DEF claim_interface, Done, Owner
  <2>. QED BY <1>4, <2>1 DEF Promised!Claim, Promised!ServiceNext
<1>6. CASE release_interface(n, c)
  <2>1. Done(c)' = "ok" /\ Owner = "us" /\ Owner' = "free" /\ op[c] = "release"
    BY <1>1, <1>6, OwnersAssumption DEF release_interface, Done, Owner
  <2>. QED BY <1>4, <2>1 DEF Promised!Release, Promised!ServiceNext
<1>7. CASE is_claimed(c)
  <2>1. /\ op[c] = "isClaimed" /\ Owner' = Owner
        /\ Done(c)' = IF Owner = "free" THEN "false" ELSE "true"
    <3>1. claimed'[c] = (owner # Free) /\ ~ error'[c] /\ op'[c] = "isClaimed" /\ owner' = owner
      BY <1>1, <1>7 DEF is_claimed, ClaimInv, InterfaceTypeOK
    <3>2. Owner = "free" <=> owner = Free
      BY OwnersAssumption DEF Owner, ClaimInv, InterfaceTypeOK
    <3>. QED BY <1>1, <3>1, <3>2 DEF Done, Owner
  <2>. QED BY <1>4, <2>1 DEF Promised!IsClaimed, Promised!ServiceNext
<1>8. CASE ioctl_fails(c)
  <2>1. Done(c)' = "error" /\ Owner' = Owner
    BY <1>1, <1>8 DEF ioctl_fails, Done, Owner, ClaimInv, InterfaceTypeOK
  <2>. QED BY <1>2, <1>4, <2>1 DEF Promised!Fails, Promised!ServiceNext
<1>. QED BY <1>5, <1>6, <1>7, <1>8

LEMMA InvokeSimulates ==
  ASSUME ClaimInv, StartInv, NEW c \in Clients,
         NEW k \in {"claim", "release", "isClaimed"}, Invoke(c, k)
  PROVE  Promised!ServiceNext
<1>1. /\ request[c] = "none" /\ request'[c] = "new" /\ stage'[c] # "failed"
      /\ \A d \in Clients \ {c} :
           UNCHANGED <<request[d], stage[d], error[d], claimed[d], op[d]>>
      /\ op' = [op EXCEPT ![c] = k] /\ owner' = owner
  BY DEF Invoke, RequestGoes, getLinuxDeviceProxy, Goto, ClaimInv, InterfaceTypeOK,
         StartInv, TypeOK
<1>2. \A d \in Clients : Done(d)' = Done(d)
  BY <1>1 DEF Done
<1>3. op[c] = "none"
  BY <1>1 DEF ClaimInv
<1>. QED BY <1>1, <1>2, <1>3 DEF Promised!Invoke, Promised!ServiceNext, Owner

LEMMA ReturnsSimulates ==
  ASSUME ClaimInv, NEW c \in Clients, Returns(c)
  PROVE  Promised!ServiceNext
<1>1. /\ request'[c] = "none" /\ op' = [op EXCEPT ![c] = "none"] /\ op[c] # "none"
      /\ \A d \in Clients \ {c} : request'[d] = request[d] /\ op'[d] = op[d]
      /\ UNCHANGED <<stage, error, claimed, owner>>
  BY DEF Returns, RequestGoes, vars, ClaimInv, InterfaceTypeOK
<1>2. Done(c) # "no"
  BY DEF Returns, RequestGoes, Done
<1>3. Done(c)' = "no" /\ \A d \in Clients \ {c} : Done(d)' = Done(d)
  BY <1>1 DEF Done
<1>. QED BY <1>1, <1>2, <1>3 DEF Promised!Return, Promised!ServiceNext, Owner

\* Appending to the list, taking from it and completing change no outcome.
LEMMA PathSimulates ==
  ASSUME ClaimInv,
         \/ \E c \in Clients : submit(c)
         \/ \E n \in Natives : getReadyRequest(n) \/ setCompleted(n)
  PROVE  UNCHANGED Promised!serviceVars
<1>1. \A c \in Clients :
        /\ request'[c] \in {"performed", "completed"}
             <=> request[c] \in {"performed", "completed"}
        /\ request'[c] = "new" /\ stage'[c] = "failed"
             <=> request[c] = "new" /\ stage[c] = "failed"
  BY DEF submit, getReadyRequest, setCompleted, RequestGoes, vars, ClaimInv, InterfaceTypeOK
<1>2. UNCHANGED <<op, owner, error, claimed>>
  BY DEF submit, getReadyRequest, setCompleted
<1>3. \A c \in Clients : Done(c)' = Done(c)
  BY <1>1, <1>2 DEF Done
<1>. QED BY <1>2, <1>3, StutterStep

\* Each call has one moment of effect, and its caller is told what it was.
THEOREM ClaimsRefinement == InterfaceSpec => ImplementsClaims
<1>1. InterfaceInit => Promised!ServiceInit
  BY OwnersAssumption DEF InterfaceInit, Init, Promised!ServiceInit, Done, Owner
<1>2. StartInv /\ ClaimInv /\ [InterfaceNext]_allVars
        => [Promised!ServiceNext]_Promised!serviceVars
  <2>. SUFFICES ASSUME StartInv, ClaimInv, [InterfaceNext]_allVars
                PROVE  [Promised!ServiceNext]_Promised!serviceVars
    OBVIOUS
  <2>1. CASE OtherDriver
    <3>1. Owner # "us" /\ Owner' \in {"free", "other"} /\ op' = op
      BY <2>1, OwnersAssumption DEF OtherDriver, Owner
    <3>2. \A c \in Clients : Done(c)' = Done(c)
      BY <2>1 DEF OtherDriver, vars, Done
    <3>. QED BY <3>1, <3>2 DEF Promised!Others, Promised!ServiceNext
  <2>2. CASE UNCHANGED allVars
    <3>1. \A c \in Clients : Done(c)' = Done(c)
      BY <2>2 DEF allVars, vars, Done
    <3>. QED BY <2>2, <3>1, StutterStep DEF allVars
  <2>. QED BY <2>1, <2>2, StartSimulates, InvokeSimulates, ReturnsSimulates, PathSimulates,
              SubmitRequestSimulates
           DEF InterfaceNext, CallStep, ProxyStep
<1>. QED BY <1>1, <1>2, ClaimInvariance, InterfaceStartInvariance, PTL
         DEF InterfaceSpec, ImplementsClaims, Promised!Service
================================================================================
