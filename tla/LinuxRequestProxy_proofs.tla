------------------------ MODULE LinuxRequestProxy_proofs ------------------------
EXTENDS LinuxRequestProxy, SequenceTheorems, TLAPS

(***************************************************************************)
(* Removing one element of a sequence.                                     *)
(***************************************************************************)
LEMMA RemoveAtProperties ==
  ASSUME NEW S, NEW s \in Seq(S), NEW i \in DOMAIN s
  PROVE  /\ RemoveAt(s, i) \in Seq(S)
         /\ Len(RemoveAt(s, i)) = Len(s) - 1
         /\ \A j \in 1 .. Len(s) - 1 :
              RemoveAt(s, i)[j] = IF j < i THEN s[j] ELSE s[j + 1]
<1>1. i \in 1 .. Len(s) /\ Len(s) \in Nat
  OBVIOUS
<1> DEFINE front == SubSeq(s, 1, i - 1)
           back == SubSeq(s, i + 1, Len(s))
<1>2. front \in Seq(S) /\ Len(front) = i - 1 /\ \A j \in 1 .. i - 1 : front[j] = s[j]
  BY <1>1
<1>3. back \in Seq(S) /\ Len(back) = Len(s) - i
      /\ \A j \in 1 .. Len(s) - i : back[j] = s[i + j]
  BY <1>1
<1>4. RemoveAt(s, i) = front \o back
  BY DEF RemoveAt
<1>. HIDE DEF front, back
<1>5. /\ front \o back \in Seq(S)
      /\ Len(front \o back) = Len(s) - 1
  BY <1>1, <1>2, <1>3
<1>6. ASSUME NEW j \in 1 .. Len(s) - 1
      PROVE  (front \o back)[j] = IF j < i THEN s[j] ELSE s[j + 1]
  BY <1>1, <1>2, <1>3
<1>. QED BY <1>4, <1>5, <1>6

(***************************************************************************)
(* The inductive invariant.                                                *)
(***************************************************************************)
USE DEF Requests, UrbRequests, SyncRequests, Threads

\* Nothing is submitted, held or allocated when the proxy is created.
LEMMA InvInit == Init => IInv
<1>. SUFFICES ASSUME Init PROVE IInv
  OBVIOUS
<1>1. TypeOK
  BY ThreadsAssumption DEF Init, TypeOK, ClientStages, ProxyStages
<1>2. \A t \in Threads, r \in Requests : ~ Held(t, r)
  BY ThreadsAssumption DEF Init, Held, HeldStages, SetCompletedStages
<1>3. \A p \in Proxies, a \in Urbs : ~ InKernel(p, a)
  BY DEF Init, InKernel
<1>4. ReadyInv
  BY <1>2, NullAssumption DEF Init, ReadyInv, Ready, Untouched
<1>5. HeldInv
  BY <1>2, ThreadsAssumption DEF Init, HeldInv, HeldStages, SetCompletedStages
<1>6. KernelInv /\ KernelUrbsValid /\ NothingLeaked
  BY <1>3 DEF Init, KernelInv, KernelUrbsValid, NothingLeaked
<1>7. DoneInv /\ CompletedOnce
  BY DEF Init, DoneInv, CompletedOnce
<1>. QED BY <1>1, <1>4, <1>5, <1>6, <1>7 DEF IInv


\* What the invariant says of the request that a thread holds.
LEMMA HeldFacts ==
  ASSUME IInv, NEW t \in Threads, pc[t] \in HeldStages
  PROVE  /\ req[t] \in Requests /\ Held(t, req[t])
         /\ req[t] \in submitted /\ ~ Ready(req[t])
         /\ req[t] \notin completed
         /\ \A u \in Threads : Held(u, req[t]) => u = t
         /\ pc[t] # "notify" => irpCompletions[req[t]] = 0
         /\ pc[t] = "notify" /\ req[t] \notin ClaimRequests => irpCompletions[req[t]] = 1
         /\ pc[t] = "detach" => req[t] \in PipeRequests
         /\ pc[t] = "complete" => req[t] \notin ClaimRequests
         /\ pc[t] = "submit" => req[t] \notin error \cup performed \cup globalRefs
         /\ pc[t] = "address" =>
              /\ t \in Proxies /\ req[t] \in UrbRequests
              /\ urb[t] \in Urbs /\ usercontext[urb[t]] = req[t]
         /\ pc[t] \in SetCompletedStages => Resolved(req[t])
         /\ pc[t] \in SetCompletedStages /\ resume[t] # "poll" => req[t] \notin globalRefs
         /\ pc[t] # "address" => \A a \in Urbs : usercontext[a] # req[t]
<1>1. req[t] \in Requests
  BY DEF IInv, HeldInv
<1>2. Held(t, req[t])
  BY DEF Held
<1>3. req[t] \in submitted /\ ~ Ready(req[t])
  BY <1>1, <1>2 DEF IInv, ReadyInv, Untouched
<1>. QED BY <1>1, <1>2, <1>3 DEF IInv, HeldInv

\* LinuxPipeRequest.setCompleted leaves the in-progress list first.
LEMMA DetachInv ==
  ASSUME IInv, NEW t \in Threads, Detach(t)
  PROVE  IInv'
<1> USE ThreadsAssumption DEF listVars, clientVars, requestVars, kernelVars, nativeVars
<1>1. TypeOK /\ ReadyInv /\ HeldInv /\ KernelInv /\ DoneInv
      /\ CompletedOnce /\ KernelUrbsValid /\ NothingLeaked
  BY DEF IInv
<1>2. /\ pc[t] = "detach" /\ pc'[t] = "complete"
      /\ \A u \in Threads \ {t} : pc'[u] = pc[u]
      /\ UNCHANGED <<listVars, clientVars, requestVars, kernelVars, nativeVars, req, urb, resume>>
  BY <1>1 DEF TypeOK, Detach, Goto
<1>3. req[t] \in PipeRequests
  BY <1>2, HeldFacts DEF HeldStages, SetCompletedStages
<1>4. TypeOK'
  BY <1>1, <1>2 DEF Detach, Goto, TypeOK, ClientStages, ProxyStages
<1>5. \A u \in Threads, q \in Requests : Held(u, q)' <=> Held(u, q)
  BY <1>2 DEF Held, HeldStages, SetCompletedStages
<1>6. \A p \in Proxies, a \in Urbs : InKernel(p, a)' <=> InKernel(p, a)
  BY <1>2 DEF InKernel
<1>7. ReadyInv'
  BY <1>1, <1>2, <1>5 DEF ReadyInv, Ready, Untouched
<1>8. HeldInv'
  BY <1>1, <1>2, <1>3, <1>5, <1>6, KindsAssumption
     DEF HeldInv, HeldStages, SetCompletedStages, Resolved, InKernel
<1>9. KernelInv' /\ KernelUrbsValid'
  BY <1>1, <1>2, <1>6 DEF KernelInv, KernelUrbsValid
<1>10. DoneInv' /\ CompletedOnce'
  BY <1>1, <1>2, <1>5 DEF DoneInv, CompletedOnce, Resolved
<1>11. NothingLeaked'
  BY <1>1, <1>2, <1>5, <1>6 DEF NothingLeaked, TypeOK
<1>. QED BY <1>4, <1>7, <1>8, <1>9, <1>10, <1>11 DEF IInv

\* The irp of a held request is completed for the first time.
LEMMA CompleteIrpInv ==
  ASSUME IInv, NEW t \in Threads, CompleteIrp(t)
  PROVE  IInv'
<1> USE ThreadsAssumption DEF listVars, clientVars, requestVars, kernelVars, nativeVars
<1>1. TypeOK /\ ReadyInv /\ HeldInv /\ KernelInv /\ DoneInv
      /\ CompletedOnce /\ KernelUrbsValid /\ NothingLeaked
  BY DEF IInv
<1>2. pc[t] = "complete" /\ t \in DOMAIN pc
  BY <1>1 DEF TypeOK, CompleteIrp, Goto
<1>. PICK r \in Requests : r = req[t]
  BY <1>2, HeldFacts DEF HeldStages, SetCompletedStages
<1>3. /\ r = req[t] /\ r \notin ClaimRequests /\ r \in submitted /\ ~ Ready(r)
      /\ r \notin completed /\ irpCompletions[r] = 0 /\ Held(t, r) /\ Resolved(r)
      /\ \A a \in Urbs : usercontext[a] # r
      /\ \A u \in Threads : Held(u, r) => u = t
  BY <1>2, HeldFacts DEF HeldStages, SetCompletedStages
<1>4. /\ pc'[t] = "notify"
      /\ \A u \in Threads \ {t} : pc'[u] = pc[u]
      /\ irpCompletions'[r] = 1
      /\ \A q \in Requests \ {r} : irpCompletions'[q] = irpCompletions[q]
      /\ UNCHANGED <<listVars, clientVars, urbAddress, error, completed, kernelVars,
                     nativeVars, req, urb, resume>>
  BY <1>1, <1>3 DEF TypeOK, CompleteIrp, Goto
<1>5. TypeOK'
  BY <1>1, <1>3 DEF CompleteIrp, Goto, TypeOK, ClientStages, ProxyStages
<1>6. \A u \in Threads, q \in Requests : Held(u, q)' <=> Held(u, q)
  BY <1>2, <1>4 DEF Held, HeldStages, SetCompletedStages
<1>7. \A p \in Proxies, a \in Urbs : InKernel(p, a)' <=> InKernel(p, a)
  BY <1>4 DEF InKernel
<1>8. ReadyInv'
  BY <1>1, <1>3, <1>4, <1>6 DEF ReadyInv, Ready, Untouched
<1>9. HeldInv'
  BY <1>1, <1>2, <1>3, <1>4, <1>6, <1>7
     DEF HeldInv, HeldStages, SetCompletedStages, Resolved, Held
<1>10. KernelInv' /\ KernelUrbsValid'
  <2>. \A p \in Proxies, a \in Urbs : InKernel(p, a) => usercontext[a] \in Requests \ {r}
    BY <1>1, <1>3 DEF KernelInv, TypeOK
  <2>. QED BY <1>1, <1>2, <1>4, <1>7 DEF KernelInv, KernelUrbsValid
<1>11. CompletedOnce'
  BY <1>1, <1>3, <1>4 DEF CompletedOnce
<1>12. DoneInv'
  <2>1. \A q \in completed' : q \in completed /\ (Resolved(q)' <=> Resolved(q))
    BY <1>4 DEF Resolved
  <2>2. Held(t, r)' /\ pc'[t] = "notify"
    BY <1>3, <1>4, <1>6
  <2>3. \A u \in Threads, q \in Requests :
          Held(u, q) /\ pc[u] = "notify" => Held(u, q)' /\ pc'[u] = "notify"
    BY <1>2, <1>4, <1>6
  <2>. QED BY <1>1, <1>3, <1>4, <2>1, <2>2, <2>3 DEF DoneInv
<1>13. NothingLeaked'
  BY <1>1, <1>4, <1>6, <1>7 DEF NothingLeaked, TypeOK
<1>. QED BY <1>5, <1>8, <1>9, <1>10, <1>11, <1>12, <1>13 DEF IInv

\* The completed flag is set, and the thread lets go of the request.
LEMMA NotifyInv ==
  ASSUME IInv, NEW t \in Threads, Notify(t)
  PROVE  IInv'
<1> USE ThreadsAssumption DEF listVars, clientVars, requestVars, kernelVars, nativeVars
<1>1. TypeOK /\ ReadyInv /\ HeldInv /\ KernelInv /\ DoneInv
      /\ CompletedOnce /\ KernelUrbsValid /\ NothingLeaked
  BY DEF IInv
<1>2. pc[t] = "notify" /\ t \in DOMAIN pc
  BY <1>1 DEF TypeOK, Notify, Goto
<1>. PICK r \in Requests : r = req[t]
  BY <1>2, HeldFacts DEF HeldStages, SetCompletedStages
<1>3. /\ r = req[t] /\ r \in submitted /\ ~ Ready(r)
      /\ r \notin completed /\ Held(t, r) /\ Resolved(r)
      /\ r \notin ClaimRequests => irpCompletions[r] = 1
      /\ resume[t] # "poll" => r \notin globalRefs
      /\ \A a \in Urbs : usercontext[a] # r
      /\ \A u \in Threads : Held(u, r) => u = t
  BY <1>2, HeldFacts DEF HeldStages, SetCompletedStages
<1>4. /\ pc'[t] \in {"idle", "poll", "cancel"}
      /\ \A u \in Threads \ {t} : pc'[u] = pc[u] /\ req'[u] = req[u]
      /\ completed' = completed \cup {r}
      /\ globalRefs' = globalRefs \ {r}
      /\ UNCHANGED <<readyList, cancelList, clientVars, urbAddress, error, irpCompletions,
                     kernelVars, usercontext, urb, resume>>
  BY <1>1, <1>2, <1>3 DEF TypeOK, Notify, Goto, Release
<1>5. TypeOK'
  BY <1>1, <1>2, <1>3, <1>4, NullAssumption
     DEF Notify, Goto, Release, TypeOK, ClientStages, ProxyStages
<1>6. \A u \in Threads, q \in Requests : Held(u, q)' <=> Held(u, q) /\ u # t
  BY <1>2, <1>4 DEF Held, HeldStages, SetCompletedStages
<1>7. \A p \in Proxies, a \in Urbs : InKernel(p, a)' <=> InKernel(p, a)
  BY <1>4 DEF InKernel
<1>8. \A p \in Proxies, a \in Urbs : InKernel(p, a) => usercontext[a] \in Requests \ {r}
  BY <1>1, <1>3 DEF KernelInv, TypeOK
<1>9. ReadyInv'
  BY <1>1, <1>3, <1>4, <1>6 DEF ReadyInv, Ready, Untouched
<1>10. HeldInv'
  BY <1>1, <1>2, <1>3, <1>4, <1>6, <1>7
     DEF HeldInv, HeldStages, SetCompletedStages, Resolved, Held
<1>11. KernelInv' /\ KernelUrbsValid'
  BY <1>1, <1>2, <1>4, <1>7, <1>8 DEF KernelInv, KernelUrbsValid
<1>12. CompletedOnce'
  BY <1>1, <1>3, <1>4 DEF CompletedOnce
<1>13. DoneInv'
  <2>1. \A q \in Requests : Resolved(q)' <=> Resolved(q)
    BY <1>4 DEF Resolved
  <2>2. \A u \in Threads, q \in Requests :
          Held(u, q) /\ pc[u] = "notify" => q = r \/ (Held(u, q)' /\ pc'[u] = "notify")
    BY <1>2, <1>3, <1>4, <1>6 DEF Held
  <2>. QED BY <1>1, <1>3, <1>4, <2>1, <2>2 DEF DoneInv, TypeOK
<1>14. NothingLeaked'
  <2>1. \A p \in Proxies, q \in Requests \ {r} : Held(p, q) => Held(p, q)'
    BY <1>3, <1>6 DEF Held
  <2>. QED BY <1>1, <1>4, <1>7, <2>1 DEF NothingLeaked, TypeOK
<1>. QED BY <1>5, <1>9, <1>10, <1>11, <1>12, <1>13, <1>14 DEF IInv

(***************************************************************************)
(* A step of a thread that holds no request before or after it.            *)
(***************************************************************************)
LEMMA EmptyHanded ==
  ASSUME IInv, TypeOK', NEW t \in Threads,
         pc[t] \notin HeldStages, pc'[t] \notin HeldStages,
         \A u \in Threads \ {t} : pc'[u] = pc[u] /\ req'[u] = req[u],
         pc'[t] \in {"defer", "discard"} => req'[t] \in PipeRequests,
         UNCHANGED <<readyList, submitted, requestVars, kernelVars, nativeVars, urb, resume>>
  PROVE  IInv'
<1> USE DEF requestVars, kernelVars, nativeVars
<1>1. TypeOK /\ ReadyInv /\ HeldInv /\ KernelInv /\ DoneInv
      /\ CompletedOnce /\ KernelUrbsValid /\ NothingLeaked
  BY DEF IInv
<1>0. completed \subseteq Requests /\ globalRefs \subseteq Requests
  BY DEF IInv, TypeOK
<1>2. \A u \in Threads, q \in Requests : Held(u, q)' <=> Held(u, q)
  BY DEF Held
<1>3. \A p \in Proxies, a \in Urbs : InKernel(p, a)' <=> InKernel(p, a)
  BY DEF InKernel
<1>4. ReadyInv'
  BY <1>1, <1>2 DEF ReadyInv, Ready, Untouched
<1>5. HeldInv'
  BY <1>1, <1>2, <1>3 DEF HeldInv, HeldStages, SetCompletedStages, Resolved, Held
<1>6. KernelInv'
  BY <1>1, <1>3 DEF KernelInv
<1>7. KernelUrbsValid'
  BY <1>1, <1>3 DEF KernelUrbsValid, HeldStages
<1>8. CompletedOnce' /\ DoneInv'
  <2>1. \A q \in Requests : Resolved(q)' <=> Resolved(q)
    BY DEF Resolved
  <2>2. \A u \in Threads, q \in Requests : Held(u, q) => pc'[u] = pc[u]
    BY DEF Held
  <2>. QED BY <1>0, <1>1, <1>2, <2>1, <2>2 DEF CompletedOnce, DoneInv
<1>9. NothingLeaked'
  BY <1>0, <1>1, <1>2, <1>3 DEF NothingLeaked
<1>. QED BY <1>4, <1>5, <1>6, <1>7, <1>8, <1>9 DEF IInv

\* isRequestWaiting only decides where the loop goes on.
LEMMA PollInv ==
  ASSUME IInv, NEW p \in Proxies, Poll(p)
  PROVE  IInv'
<1> USE ThreadsAssumption
    DEF listVars, clientVars, requestVars, kernelVars, nativeVars, Goto
<1>1. TypeOK
  BY DEF IInv
<1>2. TypeOK'
  BY <1>1 DEF Poll, TypeOK, ClientStages, ProxyStages
<1>3. pc[p] = "poll" /\ pc'[p] \in {"ready", "reap"} /\ \A u \in Threads \ {p} : pc'[u] = pc[u]
  BY <1>1 DEF Poll, TypeOK
<1>. QED BY <1>2, <1>3, EmptyHanded DEF Poll, HeldStages, SetCompletedStages

\* Taking a request from cancelList does not touch the request.
LEMMA GetCancelRequestInv ==
  ASSUME IInv, NEW p \in Proxies, getCancelRequest(p)
  PROVE  IInv'
<1> USE ThreadsAssumption
    DEF listVars, clientVars, requestVars, kernelVars, nativeVars, Goto
<1>1. TypeOK
  BY DEF IInv
<1>2. /\ pc[p] = "cancel" /\ pc'[p] \in {"reap", "discard"}
      /\ pc'[p] = "discard" => req'[p] \in PipeRequests
      /\ \A u \in Threads \ {p} : pc'[u] = pc[u] /\ req'[u] = req[u]
      /\ req'[p] \in PipeRequests \cup {req[p]}
      /\ cancelList' \in Seq(PipeRequests)
  <2>1. CASE cancelList = <<>>
    BY <1>1, <2>1 DEF getCancelRequest, TypeOK
  <2>2. CASE cancelList # <<>>
    <3>1. Head(cancelList) \in PipeRequests /\ Tail(cancelList) \in Seq(PipeRequests)
      BY <1>1, <2>2 DEF TypeOK
    <3>. QED BY <1>1, <2>2, <3>1 DEF getCancelRequest, TypeOK
  <2>. QED BY <2>1, <2>2
<1>3. TypeOK'
  BY <1>1, <1>2 DEF getCancelRequest, TypeOK, ClientStages, ProxyStages
<1>. QED BY <1>2, <1>3, EmptyHanded DEF getCancelRequest, HeldStages, SetCompletedStages

\* Putting a request in cancelList does not touch the request.
LEMMA DeferInv ==
  ASSUME IInv, NEW c \in Clients, Defer(c)
  PROVE  IInv'
<1> USE ThreadsAssumption
    DEF listVars, clientVars, requestVars, kernelVars, nativeVars, Goto, Release
<1>1. TypeOK
  BY DEF IInv
<1>2. /\ pc[c] = "defer" /\ pc'[c] = "idle" /\ req[c] \in PipeRequests
      /\ \A u \in Threads \ {c} : pc'[u] = pc[u] /\ req'[u] = req[u]
  BY <1>1 DEF Defer, TypeOK, IInv, HeldInv
<1>3. TypeOK'
  BY <1>1, <1>2 DEF Defer, TypeOK, ClientStages, ProxyStages
<1>. QED BY <1>2, <1>3, EmptyHanded DEF Defer, HeldStages, SetCompletedStages

\* A turn of the loop in which no URB is ready.
LEMMA ReapNothingInv ==
  ASSUME IInv, NEW p \in Proxies, Goto(p, "reap", "poll"),
         UNCHANGED <<listVars, clientVars, requestVars, kernelVars, nativeVars, req, urb, resume>>
  PROVE  IInv'
<1> USE ThreadsAssumption
    DEF listVars, clientVars, requestVars, kernelVars, nativeVars, Goto
<1>1. TypeOK
  BY DEF IInv
<1>2. TypeOK'
  BY <1>1 DEF TypeOK, ClientStages, ProxyStages
<1>3. pc[p] = "reap" /\ pc'[p] = "poll" /\ \A u \in Threads \ {p} : pc'[u] = pc[u]
  BY <1>1 DEF TypeOK
<1>. QED BY <1>2, <1>3, EmptyHanded DEF HeldStages, SetCompletedStages

(***************************************************************************)
(* A thread begins setCompleted for a request: it may have taken it from   *)
(* readyList, failed to submit it, done it synchronously, or reaped it.    *)
(***************************************************************************)
LEMMA BeginSetCompleted ==
  ASSUME IInv, TypeOK', NEW t \in Threads, NEW r \in Requests,
         \* before: no other thread holds r, and t holds nothing else
         r \in submitted \ completed, irpCompletions[r] = 0,
         \A u \in Threads : Held(u, r) => u = t,
         pc[t] \in HeldStages => req[t] = r,
         \* the step: r leaves readyList and the kernel, with a result
         pc'[t] = FirstStage(r), req'[t] = r,
         \A u \in Threads \ {t} : pc'[u] = pc[u] /\ req'[u] = req[u] /\ resume'[u] = resume[u],
         \A i, j \in DOMAIN readyList' : readyList'[i] = readyList'[j] => i = j,
         \A q \in Requests : Ready(q)' => Ready(q) /\ q # r,
         Resolved(r)', resume'[t] # "poll" => r \notin globalRefs,
         r \in globalRefs => t \in Proxies /\ resume'[t] = "poll",
         \A q \in Requests \ {r} : (q \in error' <=> q \in error)
                                /\ (q \in performed' <=> q \in performed),
         \A a \in Urbs : usercontext'[a] = IF usercontext[a] = r THEN NoRequest ELSE usercontext[a],
         \A p \in Proxies, a \in Urbs :
           /\ InKernel(p, a)' <=> InKernel(p, a) /\ usercontext[a] # r
           /\ usercontext[a] # r =>
                /\ a \in pending'[p] <=> a \in pending[p]
                /\ a \in reapable'[p] <=> a \in reapable[p]
                /\ a \in badStatus' <=> a \in badStatus,
         UNCHANGED <<submitted, urbAddress, irpCompletions, completed, globalRefs, urb>>
  PROVE  IInv'
<1> USE NullAssumption, KindsAssumption
<1>0. /\ completed \subseteq Requests /\ globalRefs \subseteq Requests
      /\ \A a \in Urbs : usercontext[a] \in Requests \cup {NoRequest}
  BY DEF IInv, TypeOK
<1>1. ReadyInv /\ HeldInv /\ KernelInv /\ DoneInv
      /\ CompletedOnce /\ KernelUrbsValid /\ NothingLeaked
  BY DEF IInv
<1>2. /\ FirstStage(r) \in SetCompletedStages
      /\ FirstStage(r) = "detach" => r \in PipeRequests
      /\ FirstStage(r) = "complete" => r \notin ClaimRequests
      /\ FirstStage(r) = "notify" => r \in ClaimRequests
  BY DEF FirstStage, SetCompletedStages
<1>3. \A u \in Threads, q \in Requests :
        Held(u, q)' <=> (u = t /\ q = r) \/ (u # t /\ Held(u, q))
  BY <1>2 DEF Held, HeldStages
<1>4. \A u \in Threads, q \in Requests : Held(u, q) => q = r \/ u # t
  BY DEF Held
<1>5. ReadyInv'
  <2>1. \A q \in Requests : Ready(q)' => q \in submitted'
    BY <1>1 DEF ReadyInv
  <2>2. \A q \in Requests : Ready(q)' \/ q \notin submitted' => Untouched(q) /\ q # r
    BY <1>1 DEF ReadyInv
  <2>3. \A q \in Requests : Untouched(q) /\ q # r => Untouched(q)'
    BY <1>3 DEF Untouched
  <2>. QED BY <2>1, <2>2, <2>3 DEF ReadyInv
<1>6. HeldInv'
  <2>1. \A u, v \in Threads, q \in Requests : Held(u, q)' /\ Held(v, q)' => u = v
    BY <1>1, <1>3 DEF HeldInv
  <2>2. \A u \in Threads : pc'[u] \in HeldStages => req'[u] \in Requests
    BY <1>1 DEF HeldInv
  <2>3. \A u \in Threads : pc'[u] \in {"defer", "discard"} => req'[u] \in PipeRequests
    BY <1>1, <1>2 DEF HeldInv, SetCompletedStages
  <2>4. \A a \in Urbs : usercontext'[a] # r
    OBVIOUS
  <2>5. ASSUME NEW u \in Threads \ {t}, NEW q \in Requests \ {r}, Held(u, q)
        PROVE  /\ q \notin completed'
               /\ pc'[u] # "notify" => irpCompletions'[q] = 0
               /\ pc'[u] = "notify" /\ q \notin ClaimRequests => irpCompletions'[q] = 1
               /\ pc'[u] = "detach" => q \in PipeRequests
               /\ pc'[u] = "complete" => q \notin ClaimRequests
               /\ pc'[u] = "submit" => q \notin error' \cup performed' \cup globalRefs'
               /\ pc'[u] = "address" =>
                    u \in Proxies /\ q \in UrbRequests /\ urb'[u] \in Urbs /\ usercontext'[urb'[u]] = q
               /\ pc'[u] \in SetCompletedStages => Resolved(q)'
               /\ pc'[u] \in SetCompletedStages /\ resume'[u] # "poll" => q \notin globalRefs'
    BY <1>1, <2>5 DEF HeldInv, Resolved
  <2>6. ASSUME NEW u \in Threads \ {t}, NEW q \in Requests \ {r}, Held(u, q),
               NEW a \in Urbs, usercontext'[a] = q
        PROVE  pc'[u] = "address" /\ urb'[u] = a /\ InKernel(u, a)'
    <3>1. usercontext[a] = q
      BY <2>6
    <3>2. pc[u] = "address" /\ urb[u] = a /\ InKernel(u, a) /\ u \in Proxies
      BY <1>1, <2>6, <3>1 DEF HeldInv
    <3>. QED BY <3>1, <3>2
  <2>. QED BY <1>2, <1>3, <2>1, <2>2, <2>3, <2>4, <2>5, <2>6
           DEF HeldInv, SetCompletedStages
<1>7. KernelInv'
  BY <1>0, <1>1 DEF KernelInv
<1>8. KernelUrbsValid'
  <2>1. \A p \in Proxies, a \in Urbs : InKernel(p, a) /\ usercontext[a] # r /\ pc[p] = "address"
          /\ req[p] = usercontext[a] => p # t
    BY <1>2 DEF HeldStages
  <2>. QED BY <1>0, <1>1, <2>1 DEF KernelUrbsValid
<1>9. CompletedOnce' /\ DoneInv'
  <2>1. \A q \in completed' : q # r /\ (Resolved(q)' <=> Resolved(q))
    BY <1>0 DEF Resolved
  <2>2. \A u \in Threads, q \in Requests : Held(u, q) /\ pc[u] = "notify" =>
          q = r \/ (Held(u, q)' /\ pc'[u] = "notify")
    BY <1>3, <1>4
  <2>. QED BY <1>0, <1>1, <2>1, <2>2 DEF CompletedOnce, DoneInv
<1>10. NothingLeaked'
  <2>1. \A a \in Urbs : usercontext'[a] # NoRequest => \E p \in Proxies : InKernel(p, a)'
    BY <1>1 DEF NothingLeaked
  <2>2. ASSUME NEW q \in globalRefs'
        PROVE  \/ \E a \in Urbs : usercontext'[a] = q
               \/ \E p \in Proxies : Held(p, q)' /\ resume'[p] = "poll"
    <3>1. CASE q = r
      BY <1>3, <3>1
    <3>2. CASE q # r
      BY <1>0, <1>1, <1>3, <1>4, <3>2 DEF NothingLeaked
    <3>. QED BY <3>1, <3>2
  <2>. QED BY <2>1, <2>2 DEF NothingLeaked
<1>. QED BY <1>5, <1>6, <1>7, <1>8, <1>9, <1>10 DEF IInv

(***************************************************************************)
(* The steps that fix a request's result and begin its setCompleted.       *)
(***************************************************************************)
LEMMA CancelReadyInv ==
  ASSUME IInv, NEW c \in Clients, NEW r \in PipeRequests, Cancel(c, r), CancelReady(c, r)
  PROVE  IInv'
<1> USE ThreadsAssumption, KindsAssumption
    DEF listVars, clientVars, requestVars, kernelVars, nativeVars
<1>1. TypeOK /\ ReadyInv
  BY DEF IInv
<1>. PICK i \in DOMAIN readyList :
       readyList[i] = r /\ readyList' = RemoveAt(readyList, i)
  BY DEF CancelReady
<1>2. /\ readyList' \in Seq(Requests) /\ Len(readyList') = Len(readyList) - 1
      /\ \A j \in 1 .. Len(readyList) - 1 :
           readyList'[j] = IF j < i THEN readyList[j] ELSE readyList[j + 1]
  <2>1. readyList \in Seq(Requests)
    BY <1>1 DEF TypeOK
  <2>. HIDE DEF Requests
  <2>. QED BY <2>1, RemoveAtProperties
<1>3. Ready(r) /\ Untouched(r) /\ r \in submitted
  BY <1>1 DEF ReadyInv, Ready
<1>4. /\ \A q \in Requests : Ready(q)' => Ready(q) /\ q # r
      /\ \A j, k \in DOMAIN readyList' : readyList'[j] = readyList'[k] => j = k
  <2>1. /\ i \in 1 .. Len(readyList) /\ DOMAIN readyList = 1 .. Len(readyList)
        /\ Len(readyList) \in Nat /\ DOMAIN readyList' = 1 .. Len(readyList) - 1
    BY <1>1, <1>2 DEF TypeOK
  <2>2. \A j, k \in 1 .. Len(readyList) : readyList[j] = readyList[k] => j = k
    BY <1>1, <2>1 DEF ReadyInv
  <2>3. ASSUME NEW q \in Requests, Ready(q)'
        PROVE  Ready(q) /\ q # r
    <3>. PICK j \in 1 .. Len(readyList) - 1 : readyList'[j] = q
      BY <2>1, <2>3 DEF Ready
    <3>. DEFINE k == IF j < i THEN j ELSE j + 1
    <3>1. k \in 1 .. Len(readyList) /\ k # i /\ readyList[k] = q
      BY <1>2, <2>1
    <3>. QED BY <2>1, <2>2, <3>1 DEF Ready
  <2>4. \A j, k \in DOMAIN readyList' : readyList'[j] = readyList'[k] => j = k
    BY <1>2, <2>1, <2>2
  <2>. QED BY <2>3, <2>4
<1>5. /\ pc[c] = "idle" /\ pc'[c] = FirstStage(r) /\ req'[c] = r /\ resume'[c] = "idle"
      /\ \A u \in Threads \ {c} : pc'[u] = pc[u] /\ req'[u] = req[u] /\ resume'[u] = resume[u]
      /\ error' = error \cup {r}
      /\ UNCHANGED <<submitted, urbAddress, irpCompletions, completed, kernelVars,
                     nativeVars, urb>>
  BY <1>1 DEF TypeOK, Cancel, CancelReady, CallSetCompleted, Goto
<1>6. TypeOK'
  BY <1>1, <1>2 DEF TypeOK, Cancel, CancelReady, CallSetCompleted, Goto, FirstStage,
                    ClientStages, ProxyStages
<1>7. Resolved(r)'
  BY <1>3, <1>5 DEF Resolved, Untouched
<1>8. \A p \in Proxies, a \in Urbs : InKernel(p, a)' <=> InKernel(p, a)
  BY <1>5 DEF InKernel
<1>9. pc[c] \notin HeldStages
  BY <1>5 DEF HeldStages, SetCompletedStages
<1>. QED
  BY <1>3, <1>4, <1>5, <1>6, <1>7, <1>8, <1>9, BeginSetCompleted DEF Untouched

\* cancel leaves the readyList monitor without having found the request.
LEMMA CancelMissedInv ==
  ASSUME IInv, NEW c \in Clients, NEW r \in PipeRequests, Cancel(c, r), CancelMissed(c, r)
  PROVE  IInv'
<1> USE ThreadsAssumption DEF listVars, clientVars, requestVars, kernelVars, nativeVars
<1>1. TypeOK
  BY DEF IInv
<1>2. /\ pc[c] = "idle" /\ pc'[c] = "defer" /\ req'[c] = r
      /\ \A u \in Threads \ {c} : pc'[u] = pc[u] /\ req'[u] = req[u]
  BY <1>1 DEF Cancel, CancelMissed, TypeOK, Goto
<1>3. TypeOK'
  BY <1>1 DEF Cancel, CancelMissed, TypeOK, Goto, ClientStages, ProxyStages
<1>. QED BY <1>2, <1>3, EmptyHanded DEF Cancel, CancelMissed, HeldStages, SetCompletedStages

\* A submission that fails, or a synchronous ioctl that is done.
LEMMA SubmissionEndsInv ==
  ASSUME IInv, NEW p \in Proxies, submitRequest(p),
         CallSetCompleted(p, req[p], "submit", "cancel"),
         \/ error' = error \cup {req[p]} /\ performed' = performed
         \/ error' = error /\ performed' = performed \cup {req[p]},
         UNCHANGED <<urbAddress, irpCompletions, completed, badStatus, pending,
                     reapable, plugged, nativeVars, urb>>
  PROVE  IInv'
<1> USE ThreadsAssumption, KindsAssumption
    DEF listVars, clientVars, requestVars, kernelVars, nativeVars
<1>1. TypeOK /\ ReadyInv
  BY DEF IInv
<1>2. pc[p] = "submit"
  BY DEF submitRequest
<1>. PICK r \in Requests : r = req[p]
  BY <1>2, HeldFacts DEF HeldStages
<1>3. /\ r = req[p] /\ r \in submitted \ completed /\ ~ Ready(r) /\ irpCompletions[r] = 0
      /\ r \notin error \cup performed \cup globalRefs
      /\ \A a \in Urbs : usercontext[a] # r
      /\ \A u \in Threads : Held(u, r) => u = p
  BY <1>2, HeldFacts DEF HeldStages
<1>4. /\ pc'[p] = FirstStage(r) /\ req' = req /\ resume'[p] = "cancel"
      /\ \A u \in Threads \ {p} : pc'[u] = pc[u] /\ resume'[u] = resume[u]
      /\ UNCHANGED <<readyList, submitted>>
  BY <1>1, <1>3 DEF TypeOK, submitRequest, CallSetCompleted, Goto
<1>5. TypeOK'
  BY <1>1, <1>3 DEF TypeOK, submitRequest, CallSetCompleted, Goto, FirstStage,
                    ClientStages, ProxyStages
<1>6. Resolved(r)'
  BY <1>3 DEF Resolved
<1>7. /\ \A q \in Requests : Ready(q)' => Ready(q) /\ q # r
      /\ \A i, j \in DOMAIN readyList' : readyList'[i] = readyList'[j] => i = j
  BY <1>1, <1>3, <1>4 DEF Ready, ReadyInv
<1>8. \A q \in Requests \ {r} : (q \in error' <=> q \in error)
                             /\ (q \in performed' <=> q \in performed)
  BY <1>3
<1>9. \A q \in Proxies, a \in Urbs : InKernel(q, a)' <=> InKernel(q, a)
  BY DEF InKernel
<1>. QED
  BY <1>3, <1>4, <1>5, <1>6, <1>7, <1>8, <1>9, BeginSetCompleted

\* A reaped URB is the one its request records, and is freed once.
LEMMA ReapUrbInv ==
  ASSUME IInv, NEW p \in Proxies, NEW a \in reapable[p], ReapUrb(p, a)
  PROVE  IInv'
<1> USE ThreadsAssumption, KindsAssumption, NullAssumption
    DEF listVars, clientVars, requestVars, kernelVars, nativeVars
<1>1. TypeOK /\ ReadyInv /\ HeldInv /\ KernelInv /\ KernelUrbsValid
  BY DEF IInv
<1>2. a \in Urbs /\ InKernel(p, a) /\ pc[p] = "reap"
  BY <1>1 DEF TypeOK, InKernel, ReapUrb, CallSetCompleted, Goto
<1>. PICK r \in Requests : r = usercontext[a]
  BY <1>1, <1>2 DEF TypeOK, KernelInv
<1>3. /\ r = usercontext[a] /\ r \in UrbRequests /\ r \in globalRefs \ (completed \cup error)
      /\ irpCompletions[r] = 0 /\ (a \in badStatus <=> r \notin performed)
      /\ \A b \in Urbs \ {a} : usercontext[b] # r
      /\ \A q \in Proxies \ {p} : ~ InKernel(q, a)
  BY <1>1, <1>2 DEF TypeOK, KernelInv, KernelUrbsValid
<1>4. urbAddress[r] = a
  BY <1>1, <1>2, <1>3 DEF KernelUrbsValid
<1>5. r \in submitted /\ ~ Ready(r)
  BY <1>1, <1>2, <1>3 DEF ReadyInv, Untouched
<1>6. \A u \in Threads : ~ Held(u, r)
  BY <1>1, <1>2, <1>3 DEF HeldInv
<1>7. /\ pc'[p] = FirstStage(r) /\ req'[p] = r /\ resume'[p] = "poll"
      /\ \A u \in Threads \ {p} : pc'[u] = pc[u] /\ req'[u] = req[u] /\ resume'[u] = resume[u]
      /\ error' = IF a \in badStatus THEN error \cup {r} ELSE error
      /\ \A b \in Urbs : usercontext'[b] = IF b = a THEN NoRequest ELSE usercontext[b]
      /\ badStatus' = badStatus \ {a}
      /\ reapable'[p] = reapable[p] \ {a}
      /\ \A q \in Proxies \ {p} : reapable'[q] = reapable[q]
      /\ UNCHANGED <<listVars, clientVars, urbAddress, irpCompletions, completed,
                     pending, performed, plugged, globalRefs, urb>>
  BY <1>1, <1>2, <1>3, <1>4
     DEF TypeOK, ReapUrb, complete_pipe_request, complete_dcp_request, complete_urb_request,
         CallSetCompleted, Goto
<1>8. TypeOK'
  BY <1>1, <1>2, <1>3, <1>4
     DEF TypeOK, ReapUrb, complete_pipe_request, complete_dcp_request, complete_urb_request,
         CallSetCompleted, Goto, FirstStage, ClientStages, ProxyStages
<1>9. Resolved(r)'
  BY <1>3, <1>7 DEF Resolved
<1>10. /\ \A q \in Requests : Ready(q)' => Ready(q) /\ q # r
       /\ \A i, j \in DOMAIN readyList' : readyList'[i] = readyList'[j] => i = j
  BY <1>1, <1>5, <1>7 DEF Ready, ReadyInv
<1>11. \A b \in Urbs : usercontext'[b] = IF usercontext[b] = r THEN NoRequest ELSE usercontext[b]
  BY <1>3, <1>7
<1>12. \A q \in Proxies, b \in Urbs :
         /\ InKernel(q, b)' <=> InKernel(q, b) /\ usercontext[b] # r
         /\ usercontext[b] # r =>
              /\ b \in pending'[q] <=> b \in pending[q]
              /\ b \in reapable'[q] <=> b \in reapable[q]
              /\ b \in badStatus' <=> b \in badStatus
  <2>1. a \notin pending[p]
    BY <1>1, <1>2 DEF KernelInv
  <2>. QED BY <1>2, <1>3, <1>7, <2>1 DEF InKernel
<1>13. pc[p] \notin HeldStages
  BY <1>2 DEF HeldStages, SetCompletedStages
<1>. QED
  BY <1>3, <1>5, <1>6, <1>7, <1>8, <1>9, <1>10, <1>11, <1>12, <1>13, BeginSetCompleted

(***************************************************************************)
(* A request enters readyList, and leaves it for the proxy thread.         *)
(***************************************************************************)
LEMMA SubmitInv ==
  ASSUME IInv, NEW c \in Clients, NEW r \in Requests, Submit(c, r)
  PROVE  IInv'
<1> USE ThreadsAssumption
    DEF listVars, clientVars, requestVars, kernelVars, nativeVars, threadVars
<1>1. TypeOK /\ ReadyInv /\ HeldInv /\ KernelInv /\ DoneInv
      /\ CompletedOnce /\ KernelUrbsValid /\ NothingLeaked
  BY DEF IInv
<1>2. /\ r \notin submitted /\ ~ Ready(r) /\ Untouched(r)
      /\ submitted' = submitted \cup {r}
      /\ UNCHANGED <<requestVars, kernelVars, nativeVars, pc, req, urb, resume>>
  BY <1>1 DEF Submit, ReadyInv
<1>3. readyList \in Seq(Requests) /\ readyList' = Append(readyList, r)
  BY <1>1 DEF TypeOK, Submit
<1>4. /\ DOMAIN readyList = 1 .. Len(readyList) /\ Len(readyList) \in Nat
      /\ DOMAIN readyList' = 1 .. Len(readyList) + 1
      /\ \A i \in 1 .. Len(readyList) : readyList'[i] = readyList[i]
      /\ readyList'[Len(readyList) + 1] = r
  BY <1>3
<1>5. \A q \in Requests : Ready(q)' <=> Ready(q) \/ q = r
  BY <1>4 DEF Ready
<1>6. \A i, j \in DOMAIN readyList' : readyList'[i] = readyList'[j] => i = j
  <2>1. \A i \in 1 .. Len(readyList) : readyList'[i] # r
    BY <1>2, <1>4 DEF Ready
  <2>. QED BY <1>1, <1>4, <2>1 DEF ReadyInv
<1>7. TypeOK'
  BY <1>1, <1>3 DEF Submit, TypeOK
<1>8. ReadyInv'
  BY <1>1, <1>2, <1>5, <1>6 DEF ReadyInv, Untouched, Held
<1>9. HeldInv' /\ KernelInv' /\ DoneInv' /\ CompletedOnce' /\ KernelUrbsValid' /\ NothingLeaked'
  BY <1>1, <1>2 DEF HeldInv, KernelInv, DoneInv, CompletedOnce, KernelUrbsValid, NothingLeaked,
                    Held, InKernel, Resolved
<1>. QED BY <1>7, <1>8, <1>9 DEF IInv

\* The proxy thread takes the first request, or finds none.
LEMMA GetReadyRequestInv ==
  ASSUME IInv, NEW p \in Proxies, getReadyRequest(p)
  PROVE  IInv'
<1> USE ThreadsAssumption
    DEF listVars, clientVars, requestVars, kernelVars, nativeVars, Goto
<1>1. TypeOK /\ ReadyInv /\ HeldInv /\ KernelInv /\ DoneInv
      /\ CompletedOnce /\ KernelUrbsValid /\ NothingLeaked
  BY DEF IInv
<1>2. pc[p] = "ready" /\ readyList \in Seq(Requests)
  BY <1>1 DEF getReadyRequest, TypeOK
<1>3. CASE readyList = <<>>
  <2>1. TypeOK'
    BY <1>1, <1>3 DEF getReadyRequest, TypeOK, ClientStages, ProxyStages
  <2>2. pc'[p] = "cancel" /\ \A u \in Threads \ {p} : pc'[u] = pc[u] /\ req'[u] = req[u]
    BY <1>1, <1>3 DEF getReadyRequest, TypeOK
  <2>. QED BY <1>2, <1>3, <2>1, <2>2, EmptyHanded
           DEF getReadyRequest, HeldStages, SetCompletedStages
<1>4. CASE readyList # <<>>
  <2>. PICK r \in Requests : r = Head(readyList)
    BY <1>2, <1>4
  <2>1. /\ Len(readyList) \in Nat \ {0} /\ DOMAIN readyList = 1 .. Len(readyList)
        /\ readyList[1] = r
        /\ Tail(readyList) \in Seq(Requests)
        /\ DOMAIN Tail(readyList) = 1 .. Len(readyList) - 1
        /\ \A i \in 1 .. Len(readyList) - 1 : Tail(readyList)[i] = readyList[i + 1]
    BY <1>2, <1>4
  <2>2. /\ readyList' = Tail(readyList) /\ pc'[p] = "submit" /\ req'[p] = r
        /\ \A u \in Threads \ {p} : pc'[u] = pc[u] /\ req'[u] = req[u]
        /\ UNCHANGED <<submitted, requestVars, kernelVars, nativeVars, urb, resume>>
    BY <1>1, <1>4 DEF getReadyRequest, TypeOK
  <2>3. \A i, j \in 1 .. Len(readyList) : readyList[i] = readyList[j] => i = j
    BY <1>1, <2>1 DEF ReadyInv
  <2>4. /\ \A q \in Requests : Ready(q)' => Ready(q) /\ q # r
        /\ \A i, j \in DOMAIN readyList' : readyList'[i] = readyList'[j] => i = j
    <3>1. ASSUME NEW q \in Requests, Ready(q)'
          PROVE  Ready(q) /\ q # r
      <4>. PICK i \in 1 .. Len(readyList) - 1 : readyList[i + 1] = q
        BY <2>1, <2>2, <3>1 DEF Ready
      <4>1. i + 1 \in 1 .. Len(readyList) /\ i + 1 # 1 /\ 1 \in 1 .. Len(readyList)
        BY <2>1
      <4>. QED BY <2>1, <2>3, <4>1 DEF Ready
    <3>2. \A i, j \in DOMAIN readyList' : readyList'[i] = readyList'[j] => i = j
      BY <2>1, <2>2, <2>3
    <3>. QED BY <3>1, <3>2
  <2>5. r \in submitted /\ Untouched(r)
    <3>1. Ready(r)
      BY <2>1 DEF Ready
    <3>. QED BY <1>1, <3>1 DEF ReadyInv
  <2>6. TypeOK'
    <3>1. /\ pc' = [pc EXCEPT ![p] = "submit"] /\ req' = [req EXCEPT ![p] = r]
          /\ readyList' \in Seq(Requests)
          /\ UNCHANGED <<cancelList, readyOwner, clientVars, requestVars, kernelVars,
                         nativeVars, urb, resume>>
      BY <1>4, <2>1 DEF getReadyRequest
    <3>. QED BY <1>1, <3>1 DEF TypeOK, ClientStages, ProxyStages
  <2>7. \A u \in Threads, q \in Requests :
          Held(u, q)' <=> (u = p /\ q = r) \/ (u # p /\ Held(u, q))
    BY <1>2, <2>2 DEF Held, HeldStages, SetCompletedStages
  <2>8. \A u \in Threads, q \in Requests : Held(u, q) => u # p /\ q # r
    BY <1>2, <2>5 DEF Held, HeldStages, SetCompletedStages, Untouched
  <2>9. ReadyInv'
    BY <1>1, <2>2, <2>4, <2>5, <2>7 DEF ReadyInv, Untouched
  <2>10. HeldInv'
    <3>1. \A u, v \in Threads, q \in Requests : Held(u, q)' /\ Held(v, q)' => u = v
      BY <1>1, <2>7, <2>8 DEF HeldInv
    <3>2. \A u \in Threads : pc'[u] \in HeldStages => req'[u] \in Requests
      BY <1>1, <2>2 DEF HeldInv
    <3>3. \A u \in Threads : pc'[u] \in {"defer", "discard"} => req'[u] \in PipeRequests
      BY <1>1, <2>2 DEF HeldInv
    <3>4. \A u \in Threads \ {p} : pc'[u] = pc[u]
      BY <2>2
    <3>5. \A u \in Threads, a \in Urbs : InKernel(u, a)' <=> InKernel(u, a)
      BY <2>2 DEF InKernel
    <3>. QED BY <1>1, <2>2, <2>5, <2>7, <3>1, <3>2, <3>3, <3>4, <3>5
             DEF HeldInv, SetCompletedStages, Untouched, Resolved
  <2>11. KernelInv' /\ KernelUrbsValid'
    BY <1>1, <1>2, <2>2 DEF KernelInv, KernelUrbsValid, InKernel
  <2>12. CompletedOnce' /\ DoneInv' /\ NothingLeaked'
    <3>1. completed \subseteq Requests /\ globalRefs \subseteq Requests
      BY <1>1 DEF TypeOK
    <3>2. \A u \in Threads, q \in Requests : Held(u, q) => Held(u, q)' /\ pc'[u] = pc[u]
      BY <2>2, <2>7, <2>8
    <3>. QED BY <1>1, <2>2, <3>1, <3>2
             DEF CompletedOnce, DoneInv, NothingLeaked, InKernel, Resolved
  <2>. QED BY <2>6, <2>9, <2>10, <2>11, <2>12 DEF IInv
<1>. QED BY <1>3, <1>4

(***************************************************************************)
(* The URB steps that do not end a request.                                *)
(***************************************************************************)
LEMMA UrbSubmittedInv ==
  ASSUME IInv, NEW p \in Proxies, submitRequest(p), NEW a \in Urbs,
         req[p] \in UrbRequests, UrbSubmitted(p, a)
  PROVE  IInv'
<1> USE ThreadsAssumption, KindsAssumption, NullAssumption
    DEF listVars, clientVars, requestVars, kernelVars, nativeVars
<1>1. TypeOK /\ ReadyInv /\ HeldInv /\ KernelInv /\ DoneInv
      /\ CompletedOnce /\ KernelUrbsValid /\ NothingLeaked
  BY DEF IInv
<1>2. pc[p] = "submit"
  BY DEF submitRequest
<1>. PICK r \in UrbRequests : r = req[p]
  OBVIOUS
<1>3. /\ r = req[p] /\ r \in submitted \ completed /\ ~ Ready(r) /\ irpCompletions[r] = 0
      /\ r \notin error \cup performed \cup globalRefs /\ Held(p, r)
      /\ \A b \in Urbs : usercontext[b] # r
      /\ \A u \in Threads : Held(u, r) => u = p
  BY <1>2, HeldFacts DEF HeldStages
<1>4. usercontext[a] = NoRequest /\ \A q \in Proxies : ~ InKernel(q, a)
  BY <1>1 DEF UrbSubmitted, KernelInv
<1>5. /\ pc' = [pc EXCEPT ![p] = "address"]
      /\ usercontext' = [usercontext EXCEPT ![a] = r]
      /\ globalRefs' = globalRefs \cup {r}
      /\ badStatus' = badStatus \ {a}
      /\ pending' = [pending EXCEPT ![p] = @ \cup {a}]
      /\ urb' = [urb EXCEPT ![p] = a]
      /\ UNCHANGED <<listVars, clientVars, requestVars, reapable, performed, plugged, req, resume>>
  BY <1>3 DEF UrbSubmitted, submitRequest, Goto
<1>6. TypeOK'
  BY <1>1, <1>5 DEF TypeOK, ClientStages, ProxyStages
<1>7. /\ pc'[p] = "address" /\ \A u \in Threads \ {p} : pc'[u] = pc[u]
      /\ usercontext'[a] = r /\ \A b \in Urbs \ {a} : usercontext'[b] = usercontext[b]
      /\ urb'[p] = a /\ \A q \in Proxies \ {p} : urb'[q] = urb[q]
      /\ pending'[p] = pending[p] \cup {a}
      /\ \A q \in Proxies \ {p} : pending'[q] = pending[q]
  BY <1>1, <1>5 DEF TypeOK
<1>8. \A u \in Threads, q \in Requests : Held(u, q)' <=> Held(u, q)
  BY <1>2, <1>5, <1>7 DEF Held, HeldStages
<1>9. \A q \in Proxies, b \in Urbs : InKernel(q, b)' <=> InKernel(q, b) \/ (q = p /\ b = a)
  BY <1>5, <1>7 DEF InKernel
<1>10. ReadyInv'
  BY <1>1, <1>3, <1>5, <1>7, <1>8 DEF ReadyInv, Ready, Untouched
<1>11. HeldInv'
  <2>1. \A u \in Threads, q \in Requests : Held(u, q) => (u = p <=> q = r)
    BY <1>3 DEF Held
  <2>2. ASSUME NEW u \in Threads \ {p}, NEW q \in Requests \ {r}, Held(u, q)
        PROVE  /\ pc'[u] = "address" =>
                    u \in Proxies /\ q \in UrbRequests /\ urb'[u] \in Urbs /\ usercontext'[urb'[u]] = q
               /\ \A b \in Urbs : usercontext'[b] = q =>
                    pc'[u] = "address" /\ urb'[u] = b /\ InKernel(u, b)'
    BY <1>1, <1>4, <1>7, <1>9, <2>2 DEF HeldInv
  <2>3. \A b \in Urbs : usercontext'[b] = r => b = a
    BY <1>3, <1>7
  <2>. QED BY <1>1, <1>2, <1>3, <1>5, <1>7, <1>8, <1>9, <2>1, <2>2, <2>3
           DEF HeldInv, HeldStages, SetCompletedStages, Resolved
<1>12. KernelInv'
  BY <1>1, <1>3, <1>4, <1>5, <1>7, <1>9 DEF KernelInv, InKernel
<1>13. KernelUrbsValid'
  BY <1>1, <1>2, <1>3, <1>4, <1>5, <1>7, <1>9 DEF KernelUrbsValid, KernelInv
<1>14. CompletedOnce' /\ DoneInv'
  <2>1. completed \subseteq Requests
    BY <1>1 DEF TypeOK
  <2>2. \A u \in Threads, q \in Requests : Held(u, q) /\ pc[u] = "notify" => pc'[u] = "notify"
    BY <1>2, <1>7
  <2>. QED BY <1>1, <1>3, <1>5, <1>7, <1>8, <2>1, <2>2 DEF CompletedOnce, DoneInv, Resolved
<1>15. NothingLeaked'
  <2>1. globalRefs \subseteq Requests
    BY <1>1 DEF TypeOK
  <2>. QED BY <1>1, <1>4, <1>5, <1>7, <1>8, <1>9, <2>1 DEF NothingLeaked
<1>. QED BY <1>6, <1>10, <1>11, <1>12, <1>13, <1>14, <1>15 DEF IInv

\* The address stored after the ioctl is that of the URB just submitted.
LEMMA SetUrbAddressInv ==
  ASSUME IInv, NEW p \in Proxies, setUrbAddress(p)
  PROVE  IInv'
<1> USE ThreadsAssumption, KindsAssumption, NullAssumption
    DEF listVars, clientVars, requestVars, kernelVars, nativeVars
<1>1. TypeOK /\ ReadyInv /\ HeldInv /\ KernelInv /\ DoneInv
      /\ CompletedOnce /\ KernelUrbsValid /\ NothingLeaked
  BY DEF IInv
<1>2. pc[p] = "address"
  BY DEF setUrbAddress, Goto
<1>. PICK r \in UrbRequests : r = req[p]
  BY <1>2, HeldFacts DEF HeldStages
<1>3. /\ r = req[p] /\ Held(p, r) /\ urb[p] \in Urbs /\ usercontext[urb[p]] = r
      /\ r \notin completed
      /\ \A u \in Threads : Held(u, r) => u = p
  BY <1>2, HeldFacts DEF HeldStages
<1>4. /\ pc' = [pc EXCEPT ![p] = "cancel"] /\ req' = [req EXCEPT ![p] = NoRequest]
      /\ urb' = [urb EXCEPT ![p] = NoUrb]
      /\ urbAddress' = [urbAddress EXCEPT ![r] = urb[p]]
      /\ UNCHANGED <<listVars, clientVars, error, irpCompletions, completed, kernelVars,
                     nativeVars, resume>>
  BY <1>3 DEF setUrbAddress, Goto, Release
<1>5. TypeOK'
  BY <1>1, <1>3, <1>4 DEF TypeOK, ClientStages, ProxyStages
<1>6. /\ pc'[p] = "cancel"
      /\ \A u \in Threads \ {p} : pc'[u] = pc[u] /\ req'[u] = req[u]
      /\ \A q \in Proxies \ {p} : urb'[q] = urb[q]
      /\ urbAddress'[r] = urb[p]
      /\ \A q \in UrbRequests \ {r} : urbAddress'[q] = urbAddress[q]
  BY <1>1, <1>4 DEF TypeOK
<1>7. \A u \in Threads, q \in Requests : Held(u, q)' <=> Held(u, q) /\ u # p
  BY <1>6 DEF Held, HeldStages, SetCompletedStages
<1>8. \A q \in Proxies, a \in Urbs : InKernel(q, a)' <=> InKernel(q, a)
  BY <1>4 DEF InKernel
<1>9. ReadyInv'
  BY <1>1, <1>4, <1>7 DEF ReadyInv, Ready, Untouched
<1>10. HeldInv'
  BY <1>1, <1>4, <1>6, <1>7, <1>8
     DEF HeldInv, HeldStages, SetCompletedStages, Resolved
<1>11. KernelInv'
  BY <1>1, <1>4, <1>8 DEF KernelInv
<1>12. KernelUrbsValid'
  <2>1. \A q \in Proxies, a \in Urbs : InKernel(q, a) =>
          usercontext[a] \in UrbRequests /\ (usercontext[a] = r => a = urb[p])
    BY <1>1, <1>3 DEF KernelInv, TypeOK
  <2>. QED BY <1>1, <1>2, <1>3, <1>4, <1>6, <1>8, <2>1 DEF KernelUrbsValid
<1>13. CompletedOnce' /\ DoneInv'
  <2>1. completed \subseteq Requests
    BY <1>1 DEF TypeOK
  <2>2. \A u \in Threads, q \in Requests : Held(u, q) /\ pc[u] = "notify" =>
          Held(u, q)' /\ pc'[u] = "notify"
    BY <1>2, <1>6, <1>7
  <2>. QED BY <1>1, <1>4, <2>1, <2>2 DEF CompletedOnce, DoneInv, Resolved
<1>14. NothingLeaked'
  <2>1. globalRefs \subseteq Requests
    BY <1>1 DEF TypeOK
  <2>2. \A q \in Requests : Held(p, q) => q = r
    BY <1>3 DEF Held
  <2>. QED BY <1>1, <1>3, <1>4, <1>7, <1>8, <2>1, <2>2 DEF NothingLeaked
<1>. QED BY <1>5, <1>9, <1>10, <1>11, <1>12, <1>13, <1>14 DEF IInv

\* The kernel puts a pending URB on the completed ones: by itself or discarded.
LEMMA UrbMoves ==
  ASSUME IInv, TypeOK', NEW p \in Proxies, NEW a \in pending[p],
         pending' = [pending EXCEPT ![p] = @ \ {a}],
         reapable' = [reapable EXCEPT ![p] = @ \cup {a}],
         \/ badStatus' = badStatus \cup {a} /\ performed' = performed
         \/ badStatus' = badStatus /\ performed' = performed \cup {usercontext[a]},
         UNCHANGED <<readyList, submitted, requestVars, nativeVars, urb, resume>>,
         \A u \in Threads, q \in Requests : Held(u, q)' <=> Held(u, q),
         \A u \in Threads : pc[u] \in HeldStages => pc'[u] = pc[u] /\ req'[u] = req[u],
         \A u \in Threads : pc'[u] \in HeldStages => pc'[u] = pc[u] /\ req'[u] = req[u],
         \A u \in Threads : pc'[u] \in {"defer", "discard"} => pc'[u] = pc[u] /\ req'[u] = req[u]
  PROVE  IInv'
<1> USE NullAssumption, KindsAssumption DEF requestVars, nativeVars
<1>1. ReadyInv /\ HeldInv /\ KernelInv /\ DoneInv
      /\ CompletedOnce /\ KernelUrbsValid /\ NothingLeaked
  BY DEF IInv
<1>2. /\ a \in Urbs /\ InKernel(p, a)
      /\ completed \subseteq Requests /\ globalRefs \subseteq Requests
      /\ \A b \in Urbs : usercontext[b] \in UrbRequests \cup {NoRequest}
      /\ \A q \in Proxies : q \in Threads
      /\ pending'[p] = pending[p] \ {a} /\ reapable'[p] = reapable[p] \cup {a}
      /\ \A q \in Proxies \ {p} : pending'[q] = pending[q] /\ reapable'[q] = reapable[q]
  BY DEF IInv, TypeOK, InKernel
<1>. PICK r \in UrbRequests : r = usercontext[a]
  BY <1>1, <1>2 DEF KernelInv
<1>3. /\ r = usercontext[a] /\ r \in submitted /\ ~ Ready(r)
      /\ r \in globalRefs \ (completed \cup error) /\ r \notin performed /\ irpCompletions[r] = 0
      /\ a \notin badStatus
      /\ \A b \in Urbs \ {a} : usercontext[b] # r
      /\ \A q \in Proxies \ {p} : ~ InKernel(q, a)
  BY <1>1, <1>2 DEF KernelInv, KernelUrbsValid, ReadyInv, Untouched
<1>4. \A q \in Proxies, b \in Urbs : InKernel(q, b)' <=> InKernel(q, b)
  BY <1>2, <1>3 DEF InKernel
<1>5. \A q \in Requests \ {r} : Resolved(q)' <=> Resolved(q)
  BY <1>3 DEF Resolved
<1>6. \A u \in Threads : Held(u, r) => pc[u] = "address" /\ pc'[u] = "address"
  BY <1>1, <1>2, <1>3 DEF HeldInv, Held
<1>7. ReadyInv'
  BY <1>1, <1>3 DEF ReadyInv, Ready, Untouched
<1>8. HeldInv'
  <2>1. \A u \in Threads : pc'[u] \in HeldStages => req'[u] \in Requests
    BY <1>1 DEF HeldInv
  <2>2. \A u \in Threads : pc'[u] \in {"defer", "discard"} => req'[u] \in PipeRequests
    BY <1>1 DEF HeldInv
  <2>3. \A u \in Threads, q \in Requests : Held(u, q) => pc'[u] = pc[u]
    BY DEF Held
  <2>4. \A q \in Requests \ {r} : q \in performed' => q \in performed
    BY <1>3
  <2>. QED BY <1>1, <1>4, <1>5, <1>6, <2>1, <2>2, <2>3, <2>4 DEF HeldInv, SetCompletedStages
<1>9. KernelInv'
  BY <1>1, <1>2, <1>3, <1>4 DEF KernelInv, InKernel
<1>10. KernelUrbsValid'
  <2>1. \A q \in Proxies : pc[q] = "address" => pc'[q] = "address" /\ req'[q] = req[q]
    BY <1>2 DEF HeldStages
  <2>. QED BY <1>1, <1>4, <2>1 DEF KernelUrbsValid
<1>11. CompletedOnce' /\ DoneInv'
  <2>1. \A u \in Threads, q \in Requests : Held(u, q) /\ pc[u] = "notify" => pc'[u] = "notify"
    BY DEF Held
  <2>2. r \notin completed
    BY <1>3
  <2>. QED BY <1>1, <1>2, <1>5, <2>1, <2>2 DEF CompletedOnce, DoneInv
<1>12. NothingLeaked'
  BY <1>1, <1>2, <1>4 DEF NothingLeaked
<1>. QED BY <1>7, <1>8, <1>9, <1>10, <1>11, <1>12 DEF IInv

\* The device answers.
LEMMA UrbCompletesInv ==
  ASSUME IInv, NEW p \in Proxies, NEW a \in Urbs, UrbCompletes(p, a)
  PROVE  IInv'
<1> USE DEF listVars, clientVars, requestVars, nativeVars, threadVars
<1>1. TypeOK /\ KernelInv
  BY DEF IInv
<1>2. usercontext[a] \in Requests
  BY <1>1 DEF UrbCompletes, KernelInv, InKernel, TypeOK
<1>3. TypeOK'
  BY <1>1, <1>2 DEF UrbCompletes, TypeOK
<1>4. \A u \in Threads, q \in Requests : Held(u, q)' <=> Held(u, q)
  BY DEF UrbCompletes, Held
<1>. QED BY <1>3, <1>4, UrbMoves DEF UrbCompletes

\* The device goes: the kernel keeps its URBs.
LEMMA UnplugInv ==
  ASSUME IInv, Unplug
  PROVE  IInv'
<1> USE DEF IInv, Unplug, listVars, clientVars, requestVars, nativeVars, threadVars
<1>1. TypeOK'
  BY DEF TypeOK
<1>2. ReadyInv' /\ HeldInv' /\ KernelInv'
  BY DEF ReadyInv, Ready, Untouched, HeldInv, Held, KernelInv, InKernel, Resolved
<1>3. DoneInv' /\ CompletedOnce' /\ KernelUrbsValid' /\ NothingLeaked'
  BY DEF DoneInv, Held, CompletedOnce, KernelUrbsValid, NothingLeaked, InKernel, Resolved
<1>. QED BY <1>1, <1>2, <1>3

\* A discard, of whatever address the request records.
LEMMA CancelRequestInv ==
  ASSUME IInv, NEW p \in Proxies, cancelRequest(p)
  PROVE  IInv'
<1> USE ThreadsAssumption
    DEF listVars, clientVars, requestVars, nativeVars, Goto, Release
<1>1. TypeOK /\ HeldInv
  BY DEF IInv
<1>2. /\ pc[p] = "discard" /\ pc'[p] = "reap"
      /\ \A u \in Threads \ {p} : pc'[u] = pc[u] /\ req'[u] = req[u]
      /\ UNCHANGED <<listVars, clientVars, requestVars, performed, plugged, nativeVars, urb, resume>>
  BY <1>1 DEF cancelRequest, TypeOK
<1>. PICK a \in Urbs \cup {NoUrb} : a = urbAddress[req[p]]
  BY <1>1, <1>2 DEF HeldInv, TypeOK
<1>. DiscardUrb(p, a)
  BY DEF cancelRequest, cancel_pipe_request
<1>3. TypeOK'
  <2>1. /\ pending' \in [Proxies -> SUBSET Urbs] /\ reapable' \in [Proxies -> SUBSET Urbs]
        /\ badStatus' \subseteq Urbs
    <3>1. CASE plugged /\ a \in pending[p]
      <4>1. /\ pending' = [pending EXCEPT ![p] = @ \ {a}]
            /\ reapable' = [reapable EXCEPT ![p] = @ \cup {a}]
            /\ badStatus' = badStatus \cup {a}
        BY <3>1 DEF DiscardUrb
      <4>2. a \in Urbs
        BY <1>1, <3>1 DEF TypeOK
      <4>. QED BY <1>1, <4>1, <4>2 DEF TypeOK
    <3>2. CASE ~ (plugged /\ a \in pending[p])
      BY <1>1, <3>2 DEF DiscardUrb, TypeOK
    <3>. QED BY <3>1, <3>2
  <2>2. pc' = [pc EXCEPT ![p] = "reap"] /\ req' = [req EXCEPT ![p] = NoRequest]
    BY DEF cancelRequest
  <2>. QED BY <1>1, <1>2, <2>1, <2>2 DEF TypeOK, ClientStages, ProxyStages
<1>4. \A u \in Threads, q \in Requests : Held(u, q)' <=> Held(u, q)
  BY <1>2 DEF Held, HeldStages, SetCompletedStages
<1>5. CASE plugged /\ a \in pending[p]
  <2>1. /\ pending' = [pending EXCEPT ![p] = @ \ {a}]
        /\ reapable' = [reapable EXCEPT ![p] = @ \cup {a}]
        /\ badStatus' = badStatus \cup {a}
    BY <1>5 DEF DiscardUrb
  <2>2. \A u \in Threads : pc[u] \in HeldStages => u # p
    BY <1>2 DEF HeldStages, SetCompletedStages
  <2>3. \A u \in Threads : pc'[u] \in HeldStages \cup {"defer", "discard"} => u # p
    BY <1>2 DEF HeldStages, SetCompletedStages
  <2>. QED BY <1>2, <1>3, <1>4, <1>5, <2>1, <2>2, <2>3, UrbMoves
<1>6. CASE ~ (plugged /\ a \in pending[p])
  <2>1. UNCHANGED kernelVars
    BY <1>2, <1>6 DEF DiscardUrb, kernelVars
  <2>. QED BY <1>2, <1>3, <2>1, EmptyHanded DEF HeldStages, SetCompletedStages
<1>. QED BY <1>5, <1>6

(***************************************************************************)
(* The theorems.                                                           *)
(***************************************************************************)
LEMMA InvNext == IInv /\ [Next]_vars => IInv'
<1> SUFFICES ASSUME IInv, [Next]_vars PROVE IInv'
  OBVIOUS
<1>1. ASSUME NEW c \in Clients, NEW r \in Requests, Submit(c, r)
      PROVE  IInv'
  BY <1>1, SubmitInv
<1>2. ASSUME NEW c \in Clients, NEW r \in Requests, Cancel(c, r)
      PROVE  IInv'
  BY <1>2, CancelReadyInv, CancelMissedInv DEF Cancel
<1>3. ASSUME NEW c \in Clients, Defer(c)
      PROVE  IInv'
  BY <1>3, DeferInv
<1>4. ASSUME NEW t \in Threads, SetCompleted(t)
      PROVE  IInv'
  BY <1>4, DetachInv, CompleteIrpInv, NotifyInv DEF SetCompleted
<1>5. ASSUME NEW p \in Proxies, submitRequest(p)
      PROVE  IInv'
  <2> USE DEF requestVars, kernelVars, nativeVars
  <2>1. CASE SubmissionFails(p)
    BY <1>5, <2>1, SubmissionEndsInv DEF SubmissionFails
  <2>2. CASE SyncIoctl(p)
    BY <1>5, <2>1, <2>2, SubmissionEndsInv DEF SyncIoctl
  <2>3. CASE req[p] \in UrbRequests /\ \E a \in Urbs : UrbSubmitted(p, a)
    BY <1>5, <2>3, UrbSubmittedInv
  <2>. QED BY <1>5, <2>1, <2>2, <2>3
           DEF submitRequest, pipe_request, dcp_request, set_setting, claim_interface, SubmitUrb
<1>6. ASSUME NEW p \in Proxies, Reap(p)
      PROVE  IInv'
  BY <1>6, ReapUrbInv, ReapNothingInv DEF Reap
<1>7. ASSUME NEW p \in Proxies, ProxyStep(p)
      PROVE  IInv'
  BY <1>4, <1>5, <1>6, <1>7, PollInv, GetReadyRequestInv, SetUrbAddressInv,
     GetCancelRequestInv, CancelRequestInv DEF ProxyStep
<1>8. CASE Kernel
  BY <1>8, UrbCompletesInv, UnplugInv DEF Kernel
<1>9. CASE UNCHANGED vars
  <2> USE DEF vars, listVars, clientVars, requestVars, kernelVars, nativeVars, threadVars
  <2>1. TypeOK' /\ ReadyInv' /\ HeldInv' /\ KernelInv'
    BY <1>9 DEF IInv, TypeOK, ReadyInv, Ready, Untouched, HeldInv, Held, KernelInv, InKernel, Resolved
  <2>2. DoneInv' /\ CompletedOnce' /\ KernelUrbsValid' /\ NothingLeaked'
    BY <1>9 DEF IInv, DoneInv, Held, CompletedOnce, KernelUrbsValid, NothingLeaked, InKernel, Resolved
  <2>. QED BY <2>1, <2>2 DEF IInv
<1>. QED BY <1>1, <1>2, <1>3, <1>4, <1>7, <1>8, <1>9 DEF Next, ClientCall, ClientStep

\* The invariant holds in every state of every behaviour.
THEOREM Invariance == Spec => []IInv
<1>1. Init => IInv
  BY InvInit
<1>2. IInv /\ [Next]_vars => IInv'
  BY InvNext
<1>. QED BY <1>1, <1>2, PTL DEF Spec

\* Every variable keeps its type.
THEOREM TypeCorrect == Spec => []TypeOK
<1>1. IInv => TypeOK
  BY DEF IInv
<1>. QED BY <1>1, Invariance, PTL

\* No irp is completed twice, whichever of a canceller, a submitting and a
\* reaping proxy thread completes it, with any number of each.
THEOREM CompletedOnceHolds == Spec => []CompletedOnce
<1>1. IInv => CompletedOnce
  BY DEF IInv
<1>. QED BY <1>1, Invariance, PTL

\* The kernel never holds an URB that is freed, shared by two descriptors, or
\* whose request is garbage, completed, or records another URB.
THEOREM KernelUrbsValidHolds == Spec => []KernelUrbsValid
<1>1. IInv => KernelUrbsValid
  BY DEF IInv
<1>. QED BY <1>1, Invariance, PTL

\* A completed request leaves neither an URB nor a global reference behind.
THEOREM NothingLeakedHolds == Spec => []NothingLeaked
<1>1. IInv => NothingLeaked
  BY DEF IInv
<1>. QED BY <1>1, Invariance, PTL

\* The result of an ended request tells whether it was performed.
THEOREM OutcomeTruthfulHolds == Spec => []OutcomeTruthful
<1>1. IInv => OutcomeTruthful
  <2> SUFFICES ASSUME IInv, NEW r \in Requests, Ended(r)
               PROVE  r \in error <=> r \notin performed
    BY DEF OutcomeTruthful
  <2>1. r \in completed \/ \E t \in Threads : Held(t, r) /\ pc[t] = "notify"
    BY DEF Ended, IInv, DoneInv
  <2>2. Resolved(r)
    BY <2>1 DEF IInv, DoneInv, HeldInv, SetCompletedStages
  <2>. QED BY <2>2 DEF Resolved
<1>. QED BY <1>1, Invariance, PTL

\* A cancel that is served by the fd of the URB takes the URB from the device:
\* its address, if the kernel has it, is the one the request records.
THEOREM CancelReachesOwnFdHolds == Spec => CancelReachesOwnFd
<1>1. ASSUME IInv, NEW p \in Proxies, cancelRequest(p), plugged, NEW a \in pending'[p]
      PROVE  usercontext[a] # req[p]
  <2>1. p \in Threads /\ pc[p] = "discard" /\ pending \in [Proxies -> SUBSET Urbs]
    BY <1>1 DEF cancelRequest, Goto, IInv, TypeOK
  <2>2. a \in pending[p] /\ a # urbAddress[req[p]]
    BY <1>1, <2>1 DEF cancelRequest, cancel_pipe_request, DiscardUrb
  <2>3. a \in Urbs /\ InKernel(p, a) /\ urbAddress[usercontext[a]] = a
    BY <2>1, <2>2, <1>1 DEF IInv, KernelUrbsValid, InKernel
  <2>. QED BY <2>2, <2>3
<1>2. IInv /\ [Next]_vars =>
        [\A p \in Proxies : cancelRequest(p) /\ plugged =>
           \A a \in pending'[p] : usercontext[a] # req[p]]_vars
  BY <1>1
<1>. QED BY <1>2, Invariance, PTL DEF Spec, CancelReachesOwnFd

(***************************************************************************)
(* What a step does to readyList.                                          *)
(***************************************************************************)
\* submit adds its request.
LEMMA SubmitReady ==
  ASSUME IInv, NEW c \in Clients, NEW r \in Requests, Submit(c, r)
  PROVE  \A q \in Requests : Ready(q)' <=> Ready(q) \/ q = r
<1>1. readyList \in Seq(Requests) /\ readyList' = Append(readyList, r)
  BY DEF IInv, TypeOK, Submit
<1>2. /\ DOMAIN readyList = 1 .. Len(readyList) /\ Len(readyList) \in Nat
      /\ DOMAIN readyList' = 1 .. Len(readyList) + 1
      /\ \A i \in 1 .. Len(readyList) : readyList'[i] = readyList[i]
      /\ readyList'[Len(readyList) + 1] = r
  BY <1>1
<1>. QED BY <1>2 DEF Ready

\* A cancel that finds its request takes that one out.
LEMMA CancelReadyTakes ==
  ASSUME IInv, NEW c \in Clients, NEW r \in PipeRequests, Cancel(c, r), CancelReady(c, r)
  PROVE  Ready(r) /\ \A q \in Requests : Ready(q)' <=> Ready(q) /\ q # r
<1>. PICK i \in DOMAIN readyList :
       readyList[i] = r /\ readyList' = RemoveAt(readyList, i)
  BY DEF CancelReady
<1>1. readyList \in Seq(Requests)
  BY DEF IInv, TypeOK
<1>2. Ready(r) /\ \A j \in DOMAIN readyList : readyList[j] = r => j = i
  BY <1>1 DEF IInv, ReadyInv, Ready
<1>3. /\ readyList' \in Seq(Requests) /\ Len(readyList') = Len(readyList) - 1
      /\ \A j \in 1 .. Len(readyList) - 1 :
           readyList'[j] = IF j < i THEN readyList[j] ELSE readyList[j + 1]
  <2>. HIDE DEF Requests
  <2>. QED BY <1>1, RemoveAtProperties
<1>4. /\ DOMAIN readyList = 1 .. Len(readyList) /\ Len(readyList) \in Nat
      /\ DOMAIN readyList' = 1 .. Len(readyList) - 1 /\ i \in 1 .. Len(readyList)
  BY <1>1, <1>3
<1>5. ASSUME NEW q \in Requests, Ready(q)'
      PROVE  Ready(q) /\ q # r
  <2>. PICK j \in 1 .. Len(readyList) - 1 : readyList'[j] = q
    BY <1>4, <1>5 DEF Ready
  <2>. DEFINE k == IF j < i THEN j ELSE j + 1
  <2>1. k \in 1 .. Len(readyList) /\ k # i /\ readyList[k] = q
    BY <1>3, <1>4
  <2>. QED BY <1>2, <1>4, <2>1 DEF Ready
<1>6. ASSUME NEW q \in Requests, Ready(q), q # r
      PROVE  Ready(q)'
  <2>. PICK k \in 1 .. Len(readyList) : readyList[k] = q
    BY <1>4, <1>6 DEF Ready
  <2>. DEFINE j == IF k < i THEN k ELSE k - 1
  <2>1. k # i
    BY <1>6
  <2>2. j \in 1 .. Len(readyList) - 1 /\ readyList'[j] = q
    BY <1>3, <1>4, <2>1
  <2>. QED BY <1>4, <2>2 DEF Ready
<1>. QED BY <1>2, <1>5, <1>6

\* getReadyRequest takes the first one.
LEMMA GetReadyTakes ==
  ASSUME IInv, NEW p \in Proxies, getReadyRequest(p), readyList # <<>>
  PROVE  /\ Head(readyList) \in Requests /\ Ready(Head(readyList))
         /\ \A q \in Requests : Ready(q)' <=> Ready(q) /\ q # Head(readyList)
<1>1. readyList \in Seq(Requests) /\ readyList' = Tail(readyList)
  BY DEF IInv, TypeOK, getReadyRequest
<1>. PICK r \in Requests : r = Head(readyList)
  BY <1>1
<1>2. /\ Len(readyList) \in Nat \ {0} /\ DOMAIN readyList = 1 .. Len(readyList)
      /\ readyList[1] = r /\ DOMAIN readyList' = 1 .. Len(readyList) - 1
      /\ \A i \in 1 .. Len(readyList) - 1 : readyList'[i] = readyList[i + 1]
  BY <1>1
<1>3. Ready(r)
  BY <1>2 DEF Ready
<1>4. \A i \in 1 .. Len(readyList) : readyList[i] = r => i = 1
  BY <1>2 DEF IInv, ReadyInv
<1>5. ASSUME NEW q \in Requests, Ready(q)'
      PROVE  Ready(q) /\ q # r
  <2>. PICK j \in 1 .. Len(readyList) - 1 : readyList[j + 1] = q
    BY <1>2, <1>5 DEF Ready
  <2>1. j + 1 \in 1 .. Len(readyList) /\ j + 1 # 1
    BY <1>2
  <2>. QED BY <1>2, <1>4, <2>1 DEF Ready
<1>6. ASSUME NEW q \in Requests, Ready(q), q # r
      PROVE  Ready(q)'
  <2>. PICK k \in 1 .. Len(readyList) : readyList[k] = q
    BY <1>2, <1>6 DEF Ready
  <2>1. k - 1 \in 1 .. Len(readyList) - 1 /\ readyList[(k - 1) + 1] = q
    BY <1>2, <1>6
  <2>. QED BY <1>2, <2>1 DEF Ready
<1>. QED BY <1>3, <1>5, <1>6

(***************************************************************************)
(* No request is lost: what leaves one place enters the next, or is done.  *)
(***************************************************************************)
\* The actions, one by one.
LEMMA Steps ==
  ASSUME [Next]_vars
  PROVE  \/ \E c \in Clients, r \in Requests : Submit(c, r)
         \/ \E c \in Clients, r \in PipeRequests : Cancel(c, r) /\ CancelReady(c, r)
         \/ \E c \in Clients, r \in PipeRequests : Cancel(c, r) /\ CancelMissed(c, r)
         \/ \E c \in Clients : Defer(c)
         \/ \E t \in Threads : Detach(t) \/ CompleteIrp(t) \/ Notify(t)
         \/ \E p \in Proxies : Poll(p) \/ (getReadyRequest(p) /\ readyList = <<>>)
         \/ \E p \in Proxies : getReadyRequest(p) /\ readyList # <<>>
         \/ \E p \in Proxies : submitRequest(p)
         \/ \E p \in Proxies : setUrbAddress(p)
         \/ \E p \in Proxies : getCancelRequest(p)
         \/ \E p \in Proxies : cancelRequest(p)
         \/ \E p \in Proxies : \E a \in reapable[p] : plugged /\ ReapUrb(p, a)
         \/ \E p \in Proxies :
              /\ Goto(p, "reap", "poll")
              /\ UNCHANGED <<listVars, clientVars, requestVars, kernelVars, nativeVars,
                             req, urb, resume>>
         \/ Kernel
         \/ UNCHANGED vars
<1>1. ASSUME NEW c \in Clients, NEW r \in Requests, Cancel(c, r)
      PROVE  r \in PipeRequests /\ (CancelReady(c, r) \/ CancelMissed(c, r))
  BY <1>1 DEF Cancel
<1>. QED BY <1>1 DEF Next, ClientCall, ClientStep, ProxyStep, SetCompleted, Reap

\* A thread in setCompleted keeps its request until the request has completed.
LEMMA HeldPersists ==
  ASSUME IInv, [Next]_vars, NEW t \in Threads, NEW r \in Requests,
         Held(t, r), pc[t] \in SetCompletedStages
  PROVE  (Held(t, r)' /\ pc'[t] \in SetCompletedStages) \/ r \in completed'
<1> USE ThreadsAssumption DEF Goto, SetCompletedStages, HeldStages
<1>0. pc \in [Threads -> ProxyStages \cup ClientStages] /\ req \in [Threads -> Requests \cup {NoRequest}]
  BY DEF IInv, TypeOK
<1>1. ASSUME pc'[t] \in SetCompletedStages, req'[t] = req[t]
      PROVE  Held(t, r)' /\ pc'[t] \in SetCompletedStages
  BY <1>1 DEF Held
<1>2. pc[t] \in SetCompletedStages /\ req[t] = r
  BY DEF Held
<1>3. ASSUME NEW u \in Threads, Detach(u) \/ CompleteIrp(u) \/ Notify(u)
      PROVE  (pc'[t] \in SetCompletedStages /\ req'[t] = req[t]) \/ r \in completed'
  BY <1>0, <1>2, <1>3 DEF Detach, CompleteIrp, Notify, Release
<1>4. ASSUME \/ \E c \in Clients, q \in Requests : Submit(c, q)
             \/ \E c \in Clients, q \in PipeRequests : Cancel(c, q)
             \/ \E c \in Clients : Defer(c)
             \/ Kernel \/ UNCHANGED vars
      PROVE  pc'[t] \in SetCompletedStages /\ req'[t] = req[t]
  BY <1>0, <1>2, <1>4
     DEF Submit, Cancel, CancelReady, CancelMissed, CallSetCompleted, Defer, Release, Kernel,
         UrbCompletes, Unplug, vars, threadVars
<1>5. ASSUME NEW p \in Proxies,
             \/ Poll(p) \/ getReadyRequest(p) \/ submitRequest(p) \/ setUrbAddress(p)
             \/ getCancelRequest(p) \/ cancelRequest(p)
             \/ \E a \in reapable[p] : ReapUrb(p, a)
             \/ Goto(p, "reap", "poll") /\ req' = req
      PROVE  pc'[t] \in SetCompletedStages /\ req'[t] = req[t]
  <2>1. pc[p] \notin SetCompletedStages /\ \A u \in Threads \ {p} : pc'[u] = pc[u] /\ req'[u] = req[u]
    BY <1>0, <1>5
       DEF Poll, getReadyRequest, submitRequest, setUrbAddress, getCancelRequest, cancelRequest,
           ReapUrb, CallSetCompleted, Release, pipe_request, dcp_request, set_setting,
           claim_interface, SubmitUrb, SyncIoctl, SubmissionFails, UrbSubmitted
  <2>. QED BY <1>2, <2>1
<1>. QED BY <1>1, <1>3, <1>4, <1>5, Steps

\* An URB stays with the kernel, and with its request, until it is reaped.
LEMMA UrbPersists ==
  ASSUME IInv, [Next]_vars, NEW p \in Proxies, NEW a \in Urbs, InKernel(p, a),
         NEW r \in Requests, usercontext[a] = r
  PROVE  \/ /\ InKernel(p, a)' /\ usercontext'[a] = r
            /\ a \in reapable[p] => a \in reapable'[p]
         \/ Held(p, r)' /\ pc'[p] \in SetCompletedStages
<1> DEFINE Stays == /\ InKernel(p, a)' /\ usercontext'[a] = r
                    /\ a \in reapable[p] => a \in reapable'[p]
<1>0. TypeOK
  BY DEF IInv
<1>1. ASSUME UNCHANGED <<pending, reapable, usercontext>>
      PROVE  Stays
  BY <1>1 DEF InKernel
<1>2. ASSUME NEW q \in Proxies, submitRequest(q)
      PROVE  Stays
  <2>1. CASE \E b \in Urbs : UrbSubmitted(q, b)
    <3>. PICK b \in Urbs : UrbSubmitted(q, b)
      BY <2>1
    <3>1. usercontext[a] # NoRequest /\ usercontext[b] = NoRequest
      BY DEF IInv, KernelInv, UrbSubmitted
    <3>. QED BY <1>0, <3>1 DEF UrbSubmitted, InKernel, TypeOK
  <2>2. CASE ~ \E b \in Urbs : UrbSubmitted(q, b)
    BY <1>1, <1>2, <2>2
       DEF submitRequest, pipe_request, dcp_request, set_setting, claim_interface, SubmitUrb,
           SyncIoctl, SubmissionFails, kernelVars, nativeVars
  <2>. QED BY <2>1, <2>2
<1>3. ASSUME NEW q \in Proxies, cancelRequest(q)
      PROVE  Stays
  BY <1>0, <1>3 DEF cancelRequest, cancel_pipe_request, DiscardUrb, nativeVars, InKernel, TypeOK
<1>4. ASSUME NEW q \in Proxies, NEW b \in reapable[q], ReapUrb(q, b)
      PROVE  Stays \/ (Held(p, r)' /\ pc'[p] \in SetCompletedStages)
  <2>1. b \in Urbs /\ InKernel(q, b)
    BY <1>0 DEF TypeOK, InKernel
  <2>2. usercontext[b] \in UrbRequests /\ usercontext[b] \notin ClaimRequests
    BY <1>0, <2>1, KindsAssumption DEF IInv, KernelInv, TypeOK
  <2>3. urbAddress[usercontext[b]] = b
    BY <1>4, <2>1 DEF IInv, KernelUrbsValid, ReapUrb, CallSetCompleted, Goto
  <2>4. /\ pc'[q] = FirstStage(usercontext[b]) /\ req'[q] = usercontext[b]
        /\ reapable' = [reapable EXCEPT ![q] = @ \ {b}] /\ pending' = pending
        /\ usercontext' = [c \in Urbs |-> IF c = b THEN NoRequest ELSE usercontext[c]]
    BY <1>0, <1>4, <2>3
       DEF ReapUrb, CallSetCompleted, Goto, complete_pipe_request, complete_dcp_request,
           complete_urb_request, TypeOK
  <2>5. FirstStage(usercontext[b]) \in SetCompletedStages
    BY <2>2 DEF FirstStage, SetCompletedStages
  <2>6. CASE a = b
    <3>1. p = q
      BY <2>1, <2>6 DEF IInv, KernelUrbsValid
    <3>. QED BY <2>4, <2>5, <2>6, <3>1 DEF Held, HeldStages
  <2>7. CASE a # b
    BY <1>0, <2>4, <2>7 DEF InKernel, TypeOK
  <2>. QED BY <2>6, <2>7
<1>5. CASE Kernel
  <2>1. CASE Unplug
    BY <1>1, <2>1 DEF Unplug, nativeVars
  <2>2. ASSUME NEW q \in Proxies, NEW b \in Urbs, UrbCompletes(q, b)
        PROVE  Stays
    BY <1>0, <2>2 DEF UrbCompletes, nativeVars, InKernel, TypeOK
  <2>. QED BY <1>5, <2>1, <2>2 DEF Kernel
<1>6. ASSUME ~ Kernel, \A q \in Proxies : /\ ~ submitRequest(q) /\ ~ cancelRequest(q)
                                          /\ \A b \in reapable[q] : ~ ReapUrb(q, b)
      PROVE  UNCHANGED <<pending, reapable, usercontext>>
  BY <1>6, Steps
     DEF Submit, Cancel, Defer, Detach, CompleteIrp, Notify, Poll, getReadyRequest, setUrbAddress,
         getCancelRequest, kernelVars, nativeVars, vars
<1>. QED BY <1>1, <1>2, <1>3, <1>4, <1>5, <1>6

\* A request in readyList stays there until a thread has it.
LEMMA ReadyPersists ==
  ASSUME IInv, [Next]_vars, NEW r \in Requests, Ready(r)
  PROVE  Ready(r)' \/ \E t \in Threads : Held(t, r)'
<1>0. TypeOK
  BY DEF IInv
<1>1. ASSUME NEW c \in Clients, NEW q \in PipeRequests, Cancel(c, q), CancelReady(c, q)
      PROVE  Ready(r)' \/ Held(c, r)'
  <2>1. Ready(r)' <=> r # q
    BY <1>1, CancelReadyTakes
  <2>2. pc'[c] = "detach" /\ req'[c] = q
    BY <1>0, <1>1, KindsAssumption
       DEF Cancel, CancelReady, CallSetCompleted, Goto, FirstStage, TypeOK
  <2>. QED BY <2>1, <2>2 DEF Held, HeldStages, SetCompletedStages
<1>2. ASSUME NEW p \in Proxies, getReadyRequest(p), readyList # <<>>
      PROVE  Ready(r)' \/ Held(p, r)'
  <2>1. Ready(r)' <=> r # Head(readyList)
    BY <1>2, GetReadyTakes
  <2>2. pc'[p] = "submit" /\ req'[p] = Head(readyList)
    BY <1>0, <1>2 DEF getReadyRequest, Goto, TypeOK
  <2>. QED BY <2>1, <2>2 DEF Held, HeldStages
<1>3. ASSUME NEW c \in Clients, NEW q \in Requests, Submit(c, q)
      PROVE  Ready(r)'
  BY <1>3, SubmitReady
<1>4. ASSUME UNCHANGED readyList
      PROVE  Ready(r)'
  BY <1>4 DEF Ready
<1>. QED BY <1>1, <1>2, <1>3, <1>4, Steps
     DEF CancelMissed, Defer, Detach, CompleteIrp, Notify, Poll, getReadyRequest, submitRequest,
         setUrbAddress, getCancelRequest, cancelRequest, ReapUrb, Kernel, UrbCompletes, Unplug,
         vars, listVars

\* A request that is being submitted stays with its thread or goes to the kernel.
LEMMA SubmitPersists ==
  ASSUME IInv, [Next]_vars, NEW t \in Threads, NEW r \in Requests, Held(t, r), pc[t] = "submit"
  PROVE  Held(t, r)'
<1> USE ThreadsAssumption DEF Goto, HeldStages, SetCompletedStages
<1>0. TypeOK /\ req[t] = r
  BY DEF IInv, Held
<1>1. CASE t \in Proxies /\ submitRequest(t)
  <2>1. pc'[t] \in {"address", FirstStage(r)} /\ req'[t] = r
    BY <1>0, <1>1
       DEF submitRequest, pipe_request, dcp_request, set_setting, claim_interface, SubmitUrb,
           SyncIoctl, SubmissionFails, UrbSubmitted, CallSetCompleted, TypeOK
  <2>2. FirstStage(r) \in SetCompletedStages
    BY DEF FirstStage
  <2>. QED BY <2>1, <2>2 DEF Held
<1>2. ASSUME pc'[t] = "submit", req'[t] = r
      PROVE  Held(t, r)'
  BY <1>2 DEF Held
<1>3. ASSUME NEW u \in Threads, Detach(u) \/ CompleteIrp(u) \/ Notify(u)
      PROVE  pc'[t] = "submit" /\ req'[t] = r
  BY <1>0, <1>3 DEF Detach, CompleteIrp, Notify, Release, TypeOK
<1>4. ASSUME \/ \E c \in Clients, q \in Requests : Submit(c, q)
             \/ \E c \in Clients, q \in PipeRequests : Cancel(c, q)
             \/ \E c \in Clients : Defer(c)
             \/ Kernel \/ UNCHANGED vars
      PROVE  pc'[t] = "submit" /\ req'[t] = r
  BY <1>0, <1>4
     DEF Submit, Cancel, CancelReady, CancelMissed, CallSetCompleted, Defer, Release, Kernel,
         UrbCompletes, Unplug, vars, threadVars, TypeOK
<1>5. ASSUME NEW p \in Proxies, p # t \/ ~ submitRequest(p),
             \/ Poll(p) \/ getReadyRequest(p) \/ submitRequest(p) \/ setUrbAddress(p)
             \/ getCancelRequest(p) \/ cancelRequest(p)
             \/ \E a \in reapable[p] : ReapUrb(p, a)
             \/ Goto(p, "reap", "poll") /\ req' = req
      PROVE  pc'[t] = "submit" /\ req'[t] = r
  <2>1. /\ p = t => pc[p] # "submit"
        /\ \A u \in Threads \ {p} : pc'[u] = pc[u] /\ req'[u] = req[u]
    BY <1>0, <1>5
       DEF Poll, getReadyRequest, submitRequest, setUrbAddress, getCancelRequest, cancelRequest,
           ReapUrb, CallSetCompleted, Release, pipe_request, dcp_request, set_setting,
           claim_interface, SubmitUrb, SyncIoctl, SubmissionFails, UrbSubmitted, TypeOK
  <2>. QED BY <1>0, <2>1
<1>. QED BY <1>1, <1>2, <1>3, <1>4, <1>5, Steps

\* Between storing an URB's address and its reaping the kernel has the URB.
LEMMA AddressHasUrb ==
  ASSUME IInv, NEW t \in Threads, NEW r \in Requests, Held(t, r), pc[t] = "address"
  PROVE  HasUrb(r)
<1>1. urb[t] \in Urbs /\ usercontext[urb[t]] = r
  BY HeldFacts DEF Held
<1>2. \E p \in Proxies : InKernel(p, urb[t])
  BY <1>1, NullAssumption DEF IInv, NothingLeaked
<1>. QED BY <1>1, <1>2 DEF HasUrb

LEMMA LocatedPersists ==
  ASSUME IInv, [Next]_vars, NEW r \in Requests, Located(r)
  PROVE  Located(r)' \/ r \in completed'
<1>1. CASE Ready(r)
  BY <1>1, ReadyPersists DEF Located
<1>2. CASE HasUrb(r)
  <2>. PICK p \in Proxies, a \in Urbs : InKernel(p, a) /\ usercontext[a] = r
    BY <1>2 DEF HasUrb
  <2>1. (InKernel(p, a)' /\ usercontext'[a] = r) \/ Held(p, r)'
    BY UrbPersists
  <2>. QED BY <2>1 DEF Located, HasUrb
<1>3. ASSUME NEW t \in Threads, Held(t, r)
      PROVE  Located(r)' \/ r \in completed'
  <2>1. CASE pc[t] = "submit"
    BY <1>3, <2>1, SubmitPersists DEF Located
  <2>2. CASE pc[t] = "address"
    BY <1>2, <1>3, <2>2, AddressHasUrb
  <2>3. CASE pc[t] \in SetCompletedStages
    BY <1>3, <2>3, HeldPersists DEF Located
  <2>. QED BY <1>3, <2>1, <2>2, <2>3 DEF Held, HeldStages
<1>. QED BY <1>1, <1>2, <1>3 DEF Located

\* What a step does to the histories of calls and completions.
LEMMA HistorySteps ==
  ASSUME IInv, [Next]_vars
  PROVE  /\ completed \subseteq completed'
         /\ \/ submitted' = submitted
            \/ \E c \in Clients, r \in Requests :
                 Submit(c, r) /\ r \notin submitted /\ submitted' = submitted \cup {r}
         /\ \/ cancelled' = cancelled
            \/ \E c \in Clients, r \in PipeRequests :
                 /\ Cancel(c, r) /\ r \in submitted \ cancelled
                 /\ cancelled' = cancelled \cup {r}
<1>1. CASE \E c \in Clients, r \in Requests : Submit(c, r)
  BY <1>1 DEF Submit, requestVars
<1>2. CASE \E c \in Clients, r \in PipeRequests : Cancel(c, r)
  BY <1>2 DEF Cancel, CancelReady, CancelMissed, requestVars
<1>3. CASE \E t \in Threads : Detach(t) \/ CompleteIrp(t) \/ Notify(t)
  BY <1>3 DEF Detach, CompleteIrp, Notify, clientVars, requestVars
<1>4. ASSUME NEW p \in Proxies,
             Poll(p) \/ getReadyRequest(p) \/ submitRequest(p) \/ setUrbAddress(p)
             \/ getCancelRequest(p) \/ cancelRequest(p) \/ \E a \in reapable[p] : ReapUrb(p, a)
      PROVE  UNCHANGED <<completed, submitted, cancelled>>
  BY <1>4
     DEF Poll, getReadyRequest, submitRequest, setUrbAddress, getCancelRequest, cancelRequest,
         ReapUrb, pipe_request, dcp_request, set_setting, claim_interface, SubmitUrb, SyncIoctl,
         SubmissionFails, UrbSubmitted, clientVars, requestVars
<1>5. CASE Kernel \/ (\E c \in Clients : Defer(c)) \/ UNCHANGED vars
           \/ UNCHANGED <<clientVars, requestVars>>
  BY <1>5 DEF Kernel, UrbCompletes, Unplug, Defer, vars, clientVars, requestVars
<1>. QED BY <1>1, <1>2, <1>3, <1>4, <1>5, Steps

LEMMA NoRequestLostNext ==
  ASSUME IInv, NoRequestLost, [Next]_vars
  PROVE  NoRequestLost'
<1>0. submitted \subseteq Requests
  BY DEF IInv, TypeOK
<1>1. ASSUME NEW r \in submitted' \ completed', r \in submitted
      PROVE  Located(r)'
  BY <1>0, <1>1, HistorySteps, LocatedPersists DEF NoRequestLost
<1>2. ASSUME NEW r \in submitted' \ completed', r \notin submitted
      PROVE  Located(r)'
  <2>1. r \in Requests /\ \E c \in Clients : Submit(c, r)
    BY <1>2, HistorySteps
  <2>. QED BY <2>1, SubmitReady DEF Located
<1>. QED BY <1>1, <1>2 DEF NoRequestLost

\* Whatever the threads do and the device answers, a submitted request that has
\* not completed is in readyList, in the hands of a thread or with the kernel.
THEOREM NoRequestLostHolds == Spec => []NoRequestLost
<1>1. Init => NoRequestLost
  BY DEF Init, NoRequestLost
<1>2. IInv /\ NoRequestLost /\ [Next]_vars => NoRequestLost'
  BY NoRequestLostNext
<1>. QED BY <1>1, <1>2, Invariance, PTL DEF Spec

(***************************************************************************)
(* No cancel is lost, if one thread serves the device.                     *)
(***************************************************************************)
\* A cancelled request has been submitted, and is not in readyList.
CancelledGone == \A r \in cancelled : r \in submitted /\ ~ Ready(r)

LEMMA CancelledGoneNext ==
  ASSUME IInv, CancelledGone, [Next]_vars
  PROVE  CancelledGone'
<1>0. submitted \subseteq Requests /\ cancelled \subseteq PipeRequests /\ submitted \subseteq submitted'
  BY HistorySteps DEF IInv, TypeOK
<1>1. ASSUME NEW r \in cancelled
      PROVE  ~ Ready(r)'
  <2>1. r \in Requests /\ r \in submitted /\ ~ Ready(r)
    BY <1>0 DEF CancelledGone
  <2>2. ASSUME NEW c \in Clients, NEW q \in Requests, Submit(c, q)
        PROVE  ~ Ready(r)'
    BY <2>1, <2>2, SubmitReady DEF Submit
  <2>3. ASSUME NEW c \in Clients, NEW q \in PipeRequests, Cancel(c, q), CancelReady(c, q)
        PROVE  ~ Ready(r)'
    BY <2>1, <2>3, CancelReadyTakes
  <2>4. ASSUME NEW p \in Proxies, getReadyRequest(p), readyList # <<>>
        PROVE  ~ Ready(r)'
    BY <2>1, <2>4, GetReadyTakes
  <2>5. ASSUME UNCHANGED readyList
        PROVE  ~ Ready(r)'
    BY <2>1, <2>5 DEF Ready
  <2>. QED BY <2>2, <2>3, <2>4, <2>5, Steps
       DEF CancelMissed, Defer, Detach, CompleteIrp, Notify, Poll, getReadyRequest, submitRequest,
           setUrbAddress, getCancelRequest, cancelRequest, ReapUrb, Kernel, UrbCompletes, Unplug,
           vars, listVars
<1>2. ASSUME NEW c \in Clients, NEW r \in PipeRequests, Cancel(c, r)
      PROVE  r \in submitted /\ ~ Ready(r)'
  <2>1. CASE CancelReady(c, r)
    BY <1>2, <2>1, CancelReadyTakes DEF Cancel
  <2>2. CASE CancelMissed(c, r)
    <3>1. readyList \in Seq(Requests) /\ UNCHANGED readyList
      BY <2>2 DEF IInv, TypeOK, CancelMissed
    <3>2. ~ Ready(r)
      BY <2>2, <3>1 DEF CancelMissed, Contains, Ready
    <3>. QED BY <1>2, <3>1, <3>2 DEF Cancel, Ready
  <2>. QED BY <1>2, <2>1, <2>2 DEF Cancel
<1>. QED BY <1>0, <1>1, <1>2, HistorySteps DEF CancelledGone

\* setCompleted and an URB that waits to be reaped end a request.
LEMMA EndingPersists ==
  ASSUME IInv, [Next]_vars, NEW r \in Requests, Ending(r)
  PROVE  Ending(r)' \/ r \in completed'
<1>1. ASSUME NEW t \in Threads, Held(t, r), pc[t] \in SetCompletedStages
      PROVE  Ending(r)' \/ r \in completed'
  BY <1>1, HeldPersists DEF Ending
<1>2. ASSUME NEW p \in Proxies, NEW a \in Urbs, a \in reapable[p], usercontext[a] = r
      PROVE  Ending(r)'
  BY <1>2, UrbPersists DEF Ending, InKernel
<1>. QED BY <1>1, <1>2 DEF Ending

\* A device that is gone stays away, and the kernel keeps its URBs.
LEMMA GonePersists ==
  ASSUME IInv, [Next]_vars, NEW r \in Requests, ~ plugged, HasUrb(r)
  PROVE  Ending(r)' \/ (~ plugged' /\ HasUrb(r)')
<1>. PICK p \in Proxies, a \in Urbs : InKernel(p, a) /\ usercontext[a] = r
  BY DEF HasUrb
<1>1. HasUrb(r)' \/ Ending(r)'
  BY UrbPersists DEF HasUrb, Ending
<1>2. ~ plugged'
  BY Steps
     DEF Submit, Cancel, Defer, Detach, CompleteIrp, Notify, Poll, getReadyRequest, submitRequest,
         pipe_request, dcp_request, set_setting, claim_interface, SubmitUrb, SyncIoctl,
         SubmissionFails, UrbSubmitted, setUrbAddress, getCancelRequest, cancelRequest, ReapUrb,
         Kernel, UrbCompletes, Unplug, kernelVars, vars
<1>. QED BY <1>1, <1>2

\* A cancel waits for its turn in cancelList, and its turn comes: it leaves only
\* to be served.
LEMMA CancelComingPersists ==
  ASSUME IInv, [Next]_vars, NEW r \in PipeRequests, CancelComing(r),
         \A p \in Proxies : req[p] = r => ~ cancelRequest(p)
  PROVE  CancelComing(r)'
<1> USE ThreadsAssumption DEF Goto
<1>0. TypeOK /\ cancelList \in Seq(PipeRequests)
  BY DEF IInv, TypeOK
<1>1. ASSUME NEW c \in Clients, Defer(c)
      PROVE  CancelComing(r)'
  <2>1. /\ req[c] \in PipeRequests /\ cancelList' = Append(cancelList, req[c])
        /\ pc[c] = "defer" /\ \A t \in Threads \ {c} : pc'[t] = pc[t] /\ req'[t] = req[t]
    BY <1>0, <1>1 DEF Defer, Release, TypeOK, IInv, HeldInv
  <2>2. Contains(cancelList', req[c]) /\ (Contains(cancelList, r) => Contains(cancelList', r))
    BY <1>0, <2>1 DEF Contains
  <2>. QED BY <2>1, <2>2 DEF CancelComing
<1>2. ASSUME NEW p \in Proxies, getCancelRequest(p)
      PROVE  CancelComing(r)'
  <2>1. pc[p] = "cancel" /\ \A t \in Threads \ {p} : pc'[t] = pc[t] /\ req'[t] = req[t]
    BY <1>0, <1>2 DEF getCancelRequest, TypeOK
  <2>2. CASE Contains(cancelList, r)
    <3>1. cancelList # <<>>
      BY <1>0, <2>2 DEF Contains
    <3>2. /\ pc'[p] = "discard" /\ req'[p] = cancelList[1] /\ cancelList' = Tail(cancelList)
      BY <1>0, <1>2, <3>1 DEF getCancelRequest, TypeOK
    <3>3. PICK i \in 1 .. Len(cancelList) : cancelList[i] = r
      BY <1>0, <2>2 DEF Contains
    <3>4. CASE i = 1
      BY <3>2, <3>3, <3>4 DEF CancelComing
    <3>5. CASE i # 1
      <4>1. /\ i - 1 \in 1 .. Len(Tail(cancelList)) /\ Tail(cancelList)[i - 1] = r
        BY <1>0, <3>1, <3>3, <3>5
      <4>2. Contains(cancelList', r)
        BY <1>0, <3>1, <3>2, <4>1 DEF Contains
      <4>. QED BY <4>2 DEF CancelComing
    <3>. QED BY <3>4, <3>5
  <2>3. CASE \E t \in Threads : pc[t] \in {"defer", "discard"} /\ req[t] = r
    BY <2>1, <2>3 DEF CancelComing
  <2>. QED BY <2>2, <2>3 DEF CancelComing
<1>3. ASSUME UNCHANGED cancelList,
             \A t \in Threads : pc[t] \in {"defer", "discard"} /\ req[t] = r =>
                                  pc'[t] = pc[t] /\ req'[t] = req[t]
      PROVE  CancelComing(r)'
  BY <1>3 DEF CancelComing
<1>4. ASSUME NEW t \in Threads, Detach(t) \/ CompleteIrp(t) \/ Notify(t)
      PROVE  CancelComing(r)'
  BY <1>0, <1>3, <1>4 DEF Detach, CompleteIrp, Notify, Release, listVars, TypeOK
<1>5. ASSUME \/ \E c \in Clients, q \in Requests : Submit(c, q)
             \/ \E c \in Clients, q \in PipeRequests : Cancel(c, q)
             \/ Kernel \/ UNCHANGED vars
      PROVE  CancelComing(r)'
  BY <1>0, <1>3, <1>5
     DEF Submit, Cancel, CancelReady, CancelMissed, CallSetCompleted, Kernel,
         UrbCompletes, Unplug, vars, threadVars, listVars, TypeOK
<1>6. ASSUME NEW p \in Proxies,
             \/ Poll(p) \/ getReadyRequest(p) \/ submitRequest(p) \/ setUrbAddress(p)
             \/ \E a \in reapable[p] : ReapUrb(p, a)
             \/ Goto(p, "reap", "poll") /\ UNCHANGED <<listVars, req>>
      PROVE  CancelComing(r)'
  <2>1. /\ pc[p] \notin {"defer", "discard"} /\ UNCHANGED cancelList
        /\ \A u \in Threads \ {p} : pc'[u] = pc[u] /\ req'[u] = req[u]
    BY <1>0, <1>6
       DEF Poll, getReadyRequest, submitRequest, setUrbAddress, listVars,
           ReapUrb, CallSetCompleted, Release, pipe_request, dcp_request, set_setting,
           claim_interface, SubmitUrb, SyncIoctl, SubmissionFails, UrbSubmitted, TypeOK
  <2>. QED BY <1>3, <2>1
<1>7. ASSUME NEW p \in Proxies, cancelRequest(p)
      PROVE  CancelComing(r)'
  BY <1>0, <1>3, <1>7 DEF cancelRequest, Release, listVars, TypeOK
<1>. QED BY <1>1, <1>2, <1>4, <1>5, <1>6, <1>7, Steps

\* The only thread that serves the device finds the URB of a request whose
\* cancel it serves: it has stored the address before it takes a cancel, so the
\* request is in setCompleted, its URB is reapable, or the discard makes it so.
LEMMA CancelServed ==
  ASSUME IInv, [Next]_vars, NEW p, Proxies = {p}, cancelRequest(p),
         NEW r \in Requests, req[p] = r, Located(r), ~ Ready(r)
  PROVE  Ending(r)' \/ r \in completed' \/ (~ plugged' /\ HasUrb(r)')
<1>1. TypeOK /\ pc[p] = "discard" /\ p \in Proxies
  BY DEF IInv, TypeOK, cancelRequest, Goto
<1>2. ASSUME NEW t \in Threads, Held(t, r)
      PROVE  Ending(r)
  <2>1. t \in Clients
    BY <1>1, <1>2 DEF Held, HeldStages, SetCompletedStages
  <2>2. pc[t] \in SetCompletedStages
    BY <1>1, <1>2, <2>1 DEF TypeOK, ClientStages, Held, HeldStages
  <2>. QED BY <1>2, <2>2 DEF Ending
<1>3. ASSUME NEW a \in Urbs, a \in pending[p], usercontext[a] = r, plugged
      PROVE  Ending(r)'
  <2>1. urbAddress[r] = a
    BY <1>1, <1>3 DEF IInv, KernelUrbsValid, InKernel
  <2>2. a \in reapable'[p] /\ usercontext'[a] = r
    BY <1>1, <1>3, <2>1
       DEF cancelRequest, cancel_pipe_request, DiscardUrb, nativeVars, TypeOK
  <2>. QED BY <1>1, <2>2 DEF Ending
<1>4. CASE HasUrb(r)
  <2>. PICK a \in Urbs : InKernel(p, a) /\ usercontext[a] = r
    BY <1>4 DEF HasUrb
  <2>1. CASE a \in reapable[p]
    <3>1. Ending(r)
      BY <1>1, <2>1 DEF Ending
    <3>. QED BY <3>1, EndingPersists
  <2>2. CASE a \in pending[p] /\ plugged
    BY <1>3, <2>2
  <2>3. CASE ~ plugged
    BY <1>4, <2>3, GonePersists
  <2>. QED BY <2>1, <2>2, <2>3 DEF InKernel
<1>. QED BY <1>2, <1>4, EndingPersists DEF Located

LEMMA CancelNotLostNext ==
  ASSUME IInv, NoRequestLost, CancelledGone, CancelNotLost, [Next]_vars, NEW p, Proxies = {p}
  PROVE  CancelNotLost'
<1>0. cancelled \subseteq PipeRequests /\ TypeOK
  BY DEF IInv, TypeOK
<1>1. ASSUME NEW r \in cancelled \ completed', r \in PipeRequests
      PROVE  CancelComing(r)' \/ Ending(r)' \/ (~ plugged' /\ HasUrb(r)')
  <2>1. r \notin completed
    BY <1>1, HistorySteps
  <2>2. CASE Ending(r)
    BY <1>1, <2>2, EndingPersists
  <2>3. CASE ~ plugged /\ HasUrb(r)
    BY <2>3, <1>1, GonePersists
  <2>4. CASE CancelComing(r) /\ ~ (cancelRequest(p) /\ req[p] = r)
    BY <1>1, <2>4, CancelComingPersists
  <2>5. CASE cancelRequest(p) /\ req[p] = r
    <3>1. Located(r) /\ ~ Ready(r)
      BY <2>1 DEF NoRequestLost, CancelledGone
    <3>. QED BY <1>1, <2>5, <3>1, CancelServed
  <2>. QED BY <2>1, <2>2, <2>3, <2>4, <2>5 DEF CancelNotLost
<1>2. ASSUME NEW c \in Clients, NEW r \in PipeRequests, Cancel(c, r)
      PROVE  CancelComing(r)' \/ Ending(r)'
  <2>1. CASE CancelReady(c, r)
    <3>1. pc'[c] = "detach" /\ req'[c] = r
      BY <1>0, <1>2, <2>1, KindsAssumption
         DEF Cancel, CancelReady, CallSetCompleted, Goto, FirstStage, TypeOK
    <3>. QED BY <3>1 DEF Ending, Held, HeldStages, SetCompletedStages
  <2>2. CASE CancelMissed(c, r)
    <3>1. pc'[c] = "defer" /\ req'[c] = r
      BY <1>0, <1>2, <2>2 DEF Cancel, CancelMissed, Goto, TypeOK
    <3>. QED BY <3>1 DEF CancelComing
  <2>. QED BY <1>2, <2>1, <2>2 DEF Cancel
<1>. QED BY <1>0, <1>1, <1>2, HistorySteps DEF CancelNotLost

\* When one thread serves the device, a cancel is never lost: until the request
\* has completed, its cancel is coming, it is about to end, or the device is gone.
THEOREM CancelNotLostHolds == ASSUME NEW p, Proxies = {p} PROVE Spec => []CancelNotLost
<1>1. Init => NoRequestLost /\ CancelledGone /\ CancelNotLost
  BY DEF Init, NoRequestLost, CancelledGone, CancelNotLost
<1>2. IInv /\ NoRequestLost /\ CancelledGone /\ CancelNotLost /\ [Next]_vars =>
        NoRequestLost' /\ CancelledGone' /\ CancelNotLost'
  BY NoRequestLostNext, CancelledGoneNext, CancelNotLostNext
<1>. QED BY <1>1, <1>2, Invariance, PTL DEF Spec

(***************************************************************************)
(* The request path implements RequestService, step by step.               *)
(***************************************************************************)
LEMMA ActiveFacts ==
  ASSUME IInv
  PROVE  /\ \A r \in Requests : Contains(readyList, r) <=> Ready(r)
         /\ \A r \in Requests : r \in ToSet(readyList) <=> Ready(r)
         /\ \A r \in Requests : Untouched(r) => ~ Ended(r)
         /\ \A t \in Threads : pc[t] \in HeldStages \ {"notify"} => req[t] \in Active
         /\ \A t \in Threads : pc[t] = "notify" /\ req[t] \in ClaimRequests => req[t] \in Active
<1>1. readyList \in Seq(Requests)
  BY DEF IInv, TypeOK
<1>2. \A r \in Requests : (Contains(readyList, r) <=> Ready(r))
                       /\ (r \in ToSet(readyList) <=> Ready(r))
  BY <1>1 DEF Contains, Ready, ToSet
<1>3. \A r \in Requests : Untouched(r) => ~ Ended(r)
  BY DEF Untouched, Ended
<1>4. \A t \in Threads : pc[t] \in HeldStages \ {"notify"} => req[t] \in Active
  BY <1>2, HeldFacts DEF Active, Ended
<1>5. \A t \in Threads : pc[t] = "notify" /\ req[t] \in ClaimRequests => req[t] \in Active
  BY <1>2, HeldFacts DEF Active, Ended, HeldStages, SetCompletedStages
<1>. QED BY <1>2, <1>3, <1>4, <1>5

\* submit accepts a request: the step of the service, with its variables mapped.
LEMMA AcceptStep ==
  ASSUME NEW r \in Requests, r \notin ToSet(readyList) \cup Active \cup EndedRequests,
         readyList' = Append(readyList, r), UNCHANGED <<Active, error, EndedRequests>>
  PROVE  PromisedService!ServiceNext
BY DEF PromisedService!ServiceNext, PromisedService!Accept,
       ToSet, PromisedService!ToSet

\* getReadyRequest starts the first request of the queue.
LEMMA StartStep ==
  ASSUME readyList # <<>>, readyList' = Tail(readyList),
         Active' = Active \cup {Head(readyList)}, UNCHANGED <<error, EndedRequests>>
  PROVE  PromisedService!ServiceNext
BY DEF PromisedService!ServiceNext, PromisedService!Start

\* cancel withdraws a request from the queue.
LEMMA WithdrawStep ==
  ASSUME NEW r \in PipeRequests, NEW i \in DOMAIN readyList, readyList[i] = r,
         readyList' = RemoveAt(readyList, i), Active' = Active \cup {r},
         error' = error \cup {r}, UNCHANGED EndedRequests
  PROVE  PromisedService!ServiceNext
BY DEF PromisedService!ServiceNext, PromisedService!Withdraw,
       RemoveAt, PromisedService!RemoveAt

\* setError marks an active request as failed.
LEMMA FailStep ==
  ASSUME NEW r \in Requests, r \in Active, error' = error \cup {r},
         UNCHANGED <<readyList, Active, EndedRequests>>
  PROVE  PromisedService!ServiceNext
BY DEF PromisedService!ServiceNext, PromisedService!Fail

\* The completion of an irp, or of an interface request, ends it.
LEMMA EndStep ==
  ASSUME NEW r \in Requests, r \in Active, Active' = Active \ {r},
         EndedRequests' = EndedRequests \cup {r}, UNCHANGED <<readyList, error>>
  PROVE  PromisedService!ServiceNext
BY DEF PromisedService!ServiceNext, PromisedService!End

\* A step that changes no list, no error and no completion is invisible.
LEMMA StutterStep ==
  ASSUME UNCHANGED <<readyList, submitted, error, completed, irpCompletions>>
  PROVE  UNCHANGED PromisedService!serviceVars
BY DEF PromisedService!serviceVars, Active, EndedRequests, Ended

\* setCompleted ends a request once, where its user sees the end.
LEMMA SetCompletedSimulates ==
  ASSUME IInv, NEW t \in Threads, SetCompleted(t)
  PROVE  [PromisedService!ServiceNext]_PromisedService!serviceVars
<1> USE KindsAssumption
    DEF listVars, clientVars, requestVars, kernelVars, nativeVars, Goto
<1>1. CASE Detach(t)
  BY <1>1, StutterStep DEF Detach
<1>2. CASE CompleteIrp(t)
  <2>. PICK r \in Requests : r = req[t]
    BY <1>2, HeldFacts DEF CompleteIrp, HeldStages, SetCompletedStages
  <2>1. r = req[t] /\ r \in Active /\ r \notin ClaimRequests /\ irpCompletions[r] = 0
    BY <1>2, HeldFacts, ActiveFacts DEF CompleteIrp, HeldStages, SetCompletedStages
  <2>2. irpCompletions' = [irpCompletions EXCEPT ![r] = 1]
        /\ UNCHANGED <<readyList, submitted, error, completed>>
    BY <1>2, <2>1 DEF CompleteIrp
  <2>3. irpCompletions \in [Requests -> Nat]
    BY DEF IInv, TypeOK
  <2>4. \A q \in Requests : Ended(q)' <=> Ended(q) \/ q = r
    BY <2>1, <2>2, <2>3 DEF Ended
  <2>5. submitted \subseteq Requests
    BY DEF IInv, TypeOK
  <2>6. Active' = Active \ {r} /\ EndedRequests' = EndedRequests \cup {r}
    BY <2>1, <2>2, <2>4, <2>5 DEF Active, EndedRequests
  <2>. QED BY <2>1, <2>2, <2>6, EndStep
<1>3. CASE Notify(t)
  <2>. PICK r \in Requests : r = req[t]
    BY <1>3, HeldFacts DEF Notify, HeldStages, SetCompletedStages
  <2>1. r = req[t] /\ r \notin completed /\ completed' = completed \cup {r}
        /\ UNCHANGED <<readyList, submitted, error, irpCompletions>>
    BY <1>3, HeldFacts DEF Notify, HeldStages, SetCompletedStages
  <2>2. submitted \subseteq Requests
    BY DEF IInv, TypeOK
  <2>3. CASE r \in ClaimRequests
    <3>1. r \in Active
      BY <1>3, <2>1, <2>3, ActiveFacts DEF Notify
    <3>2. \A q \in Requests : Ended(q)' <=> Ended(q) \/ q = r
      BY <2>1, <2>3 DEF Ended
    <3>3. Active' = Active \ {r} /\ EndedRequests' = EndedRequests \cup {r}
      BY <2>1, <2>2, <3>2 DEF Active, EndedRequests
    <3>. QED BY <2>1, <3>1, <3>3, EndStep
  <2>4. CASE r \notin ClaimRequests
    <3>1. \A q \in Requests : Ended(q)' <=> Ended(q)
      BY <2>1, <2>4 DEF Ended
    <3>2. UNCHANGED <<readyList, Active, error, EndedRequests>>
      BY <2>1, <2>2, <3>1 DEF Active, EndedRequests
    <3>. QED BY <3>2 DEF PromisedService!serviceVars
  <2>. QED BY <2>3, <2>4
<1>. QED BY <1>1, <1>2, <1>3 DEF SetCompleted

\* submit is the step Accept of the service.
LEMMA SubmitSimulates ==
  ASSUME IInv, NEW c \in Clients, NEW r \in Requests, Submit(c, r)
  PROVE  PromisedService!ServiceNext
<1> USE DEF listVars, clientVars, requestVars
<1>1. r \notin submitted /\ Untouched(r) /\ ~ Ready(r)
  BY DEF IInv, ReadyInv, Submit
<1>2. readyList' = Append(readyList, r) /\ submitted' = submitted \cup {r}
      /\ UNCHANGED <<error, completed, irpCompletions>>
  BY DEF Submit
<1>3. readyList \in Seq(Requests)
  BY DEF IInv, TypeOK
<1>4. Contains(readyList', r) /\ \A q \in Requests :
        q # r => (Contains(readyList', q) <=> Contains(readyList, q))
  BY <1>2, <1>3 DEF Contains
<1>5. \A q \in Requests : Ended(q)' <=> Ended(q)
  BY <1>2 DEF Ended
<1>6. submitted \subseteq Requests
  BY DEF IInv, TypeOK
<1>7. UNCHANGED <<Active, EndedRequests>>
  BY <1>1, <1>2, <1>4, <1>5, <1>6 DEF Active, EndedRequests
<1>8. r \notin ToSet(readyList) \cup Active \cup EndedRequests
  BY <1>1, ActiveFacts DEF Active, EndedRequests
<1>. QED BY <1>2, <1>7, <1>8, AcceptStep

\* A cancel that finds the request is the step Withdraw.
LEMMA CancelReadySimulates ==
  ASSUME IInv, NEW c \in Clients, NEW r \in PipeRequests, Cancel(c, r), CancelReady(c, r)
  PROVE  PromisedService!ServiceNext
<1>. PICK i \in DOMAIN readyList :
       readyList[i] = r /\ readyList' = RemoveAt(readyList, i)
  BY DEF CancelReady
<1>1. readyList' \in Seq(Requests) /\ submitted \subseteq Requests
  BY CancelReadyInv DEF IInv, TypeOK
<1>2. Untouched(r) /\ r \in submitted
  BY CancelReadyTakes DEF IInv, ReadyInv
<1>3. error' = error \cup {r} /\ UNCHANGED <<submitted, completed, irpCompletions>>
  BY DEF Cancel, CancelReady
<1>4. \A q \in Requests : Contains(readyList', q) <=> Ready(q)'
  BY <1>1 DEF Contains, Ready
<1>5. \A q \in Requests : Contains(readyList', q) <=> Contains(readyList, q) /\ q # r
  BY <1>4, CancelReadyTakes, ActiveFacts
<1>6. \A q \in Requests : Ended(q)' <=> Ended(q)
  BY <1>3 DEF Ended
<1>7. Active' = Active \cup {r} /\ UNCHANGED EndedRequests
  <2>1. ~ Ended(r)
    BY <1>2 DEF Untouched, Ended
  <2>. QED BY <1>1, <1>2, <1>3, <1>5, <1>6, <2>1 DEF Active, EndedRequests
<1>. QED BY <1>3, <1>7, WithdrawStep

\* Taking the first request is the step Start; finding none is invisible.
LEMMA GetReadyRequestSimulates ==
  ASSUME IInv, NEW p \in Proxies, getReadyRequest(p), readyList # <<>>
  PROVE  PromisedService!ServiceNext
<1> USE DEF listVars, clientVars, requestVars
<1>1. readyList' \in Seq(Requests) /\ submitted \subseteq Requests
  BY GetReadyRequestInv DEF IInv, TypeOK
<1>. PICK r \in Requests : r = Head(readyList)
  BY GetReadyTakes
<1>2. r \in submitted /\ Untouched(r)
  BY GetReadyTakes DEF IInv, ReadyInv
<1>3. readyList' = Tail(readyList) /\ UNCHANGED <<submitted, error, completed, irpCompletions>>
  BY DEF getReadyRequest
<1>4. \A q \in Requests : Contains(readyList', q) <=> Ready(q)'
  BY <1>1 DEF Contains, Ready
<1>5. \A q \in Requests : Contains(readyList', q) <=> Contains(readyList, q) /\ q # r
  BY <1>4, GetReadyTakes, ActiveFacts
<1>6. \A q \in Requests : Ended(q)' <=> Ended(q)
  BY <1>3 DEF Ended
<1>7. Active' = Active \cup {r} /\ UNCHANGED EndedRequests
  <2>1. ~ Ended(r)
    BY <1>2 DEF Untouched, Ended
  <2>. QED BY <1>1, <1>2, <1>3, <1>5, <1>6, <2>1 DEF Active, EndedRequests
<1>. QED BY <1>3, <1>7, StartStep

\* A thread records an error for a request that is active, or nothing.
LEMMA ErrorSimulates ==
  ASSUME IInv, NEW r \in Requests, r \in Active,
         error' = error \/ error' = error \cup {r},
         UNCHANGED <<readyList, submitted, completed, irpCompletions>>
  PROVE  [PromisedService!ServiceNext]_PromisedService!serviceVars
<1>1. UNCHANGED <<Active, EndedRequests>>
  BY DEF Active, EndedRequests, Ended
<1>2. CASE error' = error
  BY <1>2, StutterStep
<1>3. CASE error' = error \cup {r}
  BY <1>1, <1>3, FailStep
<1>. QED BY <1>2, <1>3

\* A submission is invisible, or it fails and is the step Fail.
LEMMA SubmitRequestSimulates ==
  ASSUME IInv, NEW p \in Proxies, submitRequest(p)
  PROVE  [PromisedService!ServiceNext]_PromisedService!serviceVars
<1> USE DEF listVars, clientVars, requestVars
<1>. PICK r \in Requests : r = req[p]
  BY HeldFacts DEF submitRequest, HeldStages
<1>1. r \in Active
  BY ActiveFacts DEF submitRequest, HeldStages
<1>2. /\ error' = error \/ error' = error \cup {r}
      /\ UNCHANGED <<readyList, submitted, completed, irpCompletions>>
  BY DEF submitRequest, pipe_request, dcp_request, set_setting, claim_interface,
         SubmitUrb, UrbSubmitted, SyncIoctl, SubmissionFails
<1>. QED BY <1>1, <1>2, ErrorSimulates

\* Reaping an URB with a bad status is the step Fail, a good one invisible.
LEMMA ReapUrbSimulates ==
  ASSUME IInv, NEW p \in Proxies, NEW a \in reapable[p], ReapUrb(p, a)
  PROVE  [PromisedService!ServiceNext]_PromisedService!serviceVars
<1> USE DEF listVars, clientVars, requestVars
<1>1. a \in Urbs /\ InKernel(p, a)
  BY DEF IInv, TypeOK, InKernel
<1>. PICK r \in Requests : r = usercontext[a]
  BY <1>1 DEF IInv, TypeOK, KernelInv
<1>2. r \in submitted /\ ~ Ready(r)
  BY <1>1 DEF IInv, ReadyInv, Untouched
<1>3. ~ Ended(r)
  BY <1>1 DEF IInv, KernelInv, Ended
<1>4. r \in Active
  BY <1>2, <1>3, ActiveFacts DEF Active
<1>5. /\ error' = error \/ error' = error \cup {r}
      /\ UNCHANGED <<readyList, submitted, completed, irpCompletions>>
  BY DEF ReapUrb, complete_pipe_request, complete_dcp_request, complete_urb_request
<1>. QED BY <1>4, <1>5, ErrorSimulates

\* Every step of the request path is a step of the service, or invisible.
LEMMA StepSimulation ==
  IInv /\ [Next]_vars => [PromisedService!ServiceNext]_PromisedService!serviceVars
<1> SUFFICES ASSUME IInv, [Next]_vars
             PROVE  [PromisedService!ServiceNext]_PromisedService!serviceVars
  OBVIOUS
<1> USE DEF listVars, clientVars, requestVars
<1>1. ASSUME NEW c \in Clients, ClientCall(c)
      PROVE  [PromisedService!ServiceNext]_PromisedService!serviceVars
  <2>1. ASSUME NEW r \in Requests, Submit(c, r)
        PROVE  PromisedService!ServiceNext
    BY <2>1, SubmitSimulates
  <2>2. ASSUME NEW r \in PipeRequests, Cancel(c, r), CancelReady(c, r)
        PROVE  PromisedService!ServiceNext
    BY <2>2, CancelReadySimulates
  <2>3. ASSUME NEW r \in PipeRequests, Cancel(c, r), CancelMissed(c, r)
        PROVE  UNCHANGED PromisedService!serviceVars
    BY <2>3, StutterStep DEF Cancel, CancelMissed
  <2>. QED BY <1>1, <2>1, <2>2, <2>3 DEF ClientCall, Cancel
<1>2. ASSUME NEW t \in Threads, SetCompleted(t)
      PROVE  [PromisedService!ServiceNext]_PromisedService!serviceVars
  BY <1>2, SetCompletedSimulates
<1>3. ASSUME NEW c \in Clients, Defer(c)
      PROVE  UNCHANGED PromisedService!serviceVars
  BY <1>3, StutterStep DEF Defer
<1>4. ASSUME NEW p \in Proxies, getReadyRequest(p)
      PROVE  [PromisedService!ServiceNext]_PromisedService!serviceVars
  BY <1>4, GetReadyRequestSimulates, StutterStep DEF getReadyRequest
<1>5. ASSUME NEW p \in Proxies, Reap(p)
      PROVE  [PromisedService!ServiceNext]_PromisedService!serviceVars
  BY <1>5, ReapUrbSimulates, StutterStep DEF Reap
<1>6. ASSUME NEW p \in Proxies,
             Poll(p) \/ setUrbAddress(p) \/ getCancelRequest(p) \/ cancelRequest(p)
      PROVE  UNCHANGED PromisedService!serviceVars
  BY <1>6, StutterStep DEF Poll, setUrbAddress, getCancelRequest, cancelRequest
<1>7. ASSUME NEW p \in Proxies, ProxyStep(p)
      PROVE  [PromisedService!ServiceNext]_PromisedService!serviceVars
  BY <1>2, <1>4, <1>5, <1>6, <1>7, SubmitRequestSimulates DEF ProxyStep
<1>8. CASE Kernel
  BY <1>8, StutterStep DEF Kernel, UrbCompletes, Unplug
<1>9. CASE UNCHANGED vars
  BY <1>9, StutterStep DEF vars
<1>. QED BY <1>1, <1>2, <1>3, <1>7, <1>8, <1>9 DEF Next, ClientStep

\* The lists, threads, URBs and callbacks implement the promised service.
THEOREM Refinement == Spec => ImplementsService
<1>1. Init => PromisedService!ServiceInit
  BY DEF Init, PromisedService!ServiceInit, Active, EndedRequests, Ended
<1>2. IInv /\ [Next]_vars => [PromisedService!ServiceNext]_PromisedService!serviceVars
  BY StepSimulation
<1>. QED BY <1>1, <1>2, Invariance, PTL DEF Spec, ImplementsService, PromisedService!Service
================================================================================
