------------------------ MODULE LinuxDeviceProxy_proofs ------------------------
(***************************************************************************)
(* Proofs about the start of a device's proxy thread, for any number of    *)
(* clients that ask for it at the same time.                               *)
(***************************************************************************)
EXTENDS LinuxDeviceProxy, TLAPS

USE DEF InsideStages, StartedStages

\* No thread is started before somebody asks for it.
LEMMA InvInit == Init => StartInv
BY NamesAssumption DEF Init, StartInv, TypeOK, OwnAnswer, GotRunning

\* isRunning is asked; a client that is told yes has a thread that serves it.
LEMMA GetInv ==
  ASSUME StartInv, NEW c \in Clients, getLinuxDeviceProxy(c)
  PROVE  StartInv'
<1>1. TypeOK'
  BY DEF getLinuxDeviceProxy, Goto, StartInv, TypeOK
<1>2. OwnAnswer' /\ GotRunning'
  BY DEF getLinuxDeviceProxy, Goto, StartInv, TypeOK, OwnAnswer, GotRunning, isRunning
<1>. QED BY <1>1, <1>2 DEF getLinuxDeviceProxy, Goto, StartInv, TypeOK

\* A client enters start(), when no other is inside.
LEMMA EnterInv ==
  ASSUME StartInv, NEW c \in Clients, Enter(c)
  PROVE  StartInv'
BY NamesAssumption DEF Enter, Goto, StartInv, TypeOK, OwnAnswer, GotRunning

\* A native thread is created, and its creator waits for it.
LEMMA StartStepInv ==
  ASSUME StartInv, NEW c \in Clients, start(c)
  PROVE  StartInv'
<1>1. PICK n \in Natives \ {thread} :
        /\ native[n] \in {"new", "dead"}
        /\ native' = [native EXCEPT ![n] = "opening"]
        /\ created' = [created EXCEPT ![c] = n]
  BY DEF start
<1>2. /\ stage[c] = "start" /\ stage' = [stage EXCEPT ![c] = "waiting"]
      /\ UNCHANGED <<thread, startError, monitor>>
  BY DEF start, Goto
<1>3. TypeOK'
  BY <1>1, <1>2 DEF StartInv, TypeOK
<1>4. \A d \in Clients \ {c} : stage[d] \notin InsideStages
  BY <1>2 DEF StartInv
<1>5. OwnAnswer' /\ GotRunning'
  BY <1>1, <1>2, <1>4 DEF StartInv, TypeOK, OwnAnswer, GotRunning
<1>6. \A m \in Natives : native'[m] \in StartedStages =>
        \E d \in Clients : stage'[d] = "waiting" /\ created'[d] = m
  BY <1>1, <1>2, <1>4 DEF StartInv, TypeOK
<1>7. \A d \in Clients :
        /\ stage'[d] \in InsideStages <=> monitor' = d
        /\ stage'[d] \in {"waiting", "woken"} => created'[d] \in Natives
        /\ stage'[d] = "waiting" => native'[created'[d]] \in StartedStages
  BY <1>1, <1>2, <1>4 DEF StartInv, TypeOK
<1>8. thread' # NoThread => native'[thread'] = "serving"
  BY <1>1, <1>2 DEF StartInv, TypeOK
<1>. QED BY <1>3, <1>5, <1>6, <1>7, <1>8 DEF StartInv

\* start() ends with the answer of its own native thread.
LEMMA StartEndsInv ==
  ASSUME StartInv, NEW c \in Clients, StartEnds(c)
  PROVE  StartInv'
<1>1. /\ stage[c] = "woken"
      /\ stage' = [stage EXCEPT ![c] = IF startError = 0 THEN "got" ELSE "failed"]
      /\ thread' = IF startError = 0 THEN created[c] ELSE thread
      /\ monitor' = Nobody
      /\ created' = [created EXCEPT ![c] = NoThread]
      /\ UNCHANGED <<startError, native>>
  BY DEF StartEnds, Goto
<1>2. created[c] \in Natives /\ (startError = 0 => native[created[c]] = "serving")
  BY <1>1 DEF StartInv, OwnAnswer, Errno
<1>3. monitor = c /\ \A d \in Clients \ {c} : stage[d] \notin InsideStages
  BY <1>1 DEF StartInv
<1>4. TypeOK'
  BY <1>1, <1>2 DEF StartInv, TypeOK
<1>5. OwnAnswer'
  BY <1>1, <1>3 DEF StartInv, TypeOK, OwnAnswer
<1>6. thread' # NoThread => native'[thread'] = "serving"
  BY <1>1, <1>2 DEF StartInv
<1>7. GotRunning'
  <2>1. ASSUME NEW d \in Clients, stage'[d] = "got"
        PROVE  thread' # NoThread
    <3>1. CASE startError = 0
      BY <1>1, <1>2, <3>1, NamesAssumption
    <3>2. CASE startError # 0
      BY <1>1, <2>1, <3>2 DEF StartInv, TypeOK, GotRunning
    <3>. QED BY <3>1, <3>2
  <2>. QED BY <1>6, <2>1 DEF GotRunning
<1>8. \A d \in Clients :
        /\ stage'[d] \in InsideStages <=> monitor' = d
        /\ stage'[d] \in {"waiting", "woken"} => created'[d] \in Natives
        /\ stage'[d] = "waiting" => native'[created'[d]] \in StartedStages
  BY <1>1, <1>3, NamesAssumption DEF StartInv, TypeOK
<1>9. \A m \in Natives : native'[m] \in StartedStages =>
        \E d \in Clients : stage'[d] = "waiting" /\ created'[d] = m
  BY <1>1, <1>3 DEF StartInv, TypeOK
<1>. QED BY <1>4, <1>5, <1>6, <1>7, <1>8, <1>9 DEF StartInv

\* The native thread opens the device, or ends after it could not.
LEMMA NativeInv ==
  ASSUME StartInv, NEW n \in Natives, open_device(n) \/ ThreadEnds(n)
  PROVE  StartInv'
<1>1. UNCHANGED <<thread, startError, monitor, stage, created>>
  BY DEF open_device, ThreadEnds
<1>2. PICK to \in {"opened", "refused", "dead"} :
        /\ native' = [native EXCEPT ![n] = to]
        /\ native[n] \in {"opening", "exiting"}
        /\ native[n] = "opening" <=> to \in StartedStages
  BY DEF open_device, ThreadEnds, NativeGoes
<1>3. TypeOK'
  BY <1>1, <1>2 DEF StartInv, TypeOK
<1>4. \A m \in Natives :
        /\ native'[m] \in StartedStages <=> native[m] \in StartedStages
        /\ native'[m] = "serving" <=> native[m] = "serving"
        /\ native[m] \in {"exiting", "dead"} => native'[m] \in {"exiting", "dead"}
  BY <1>2 DEF StartInv, TypeOK
<1>5. thread # NoThread => thread \in Natives
  BY DEF StartInv, TypeOK
<1>6. OwnAnswer' /\ GotRunning'
  BY <1>1, <1>4, <1>5 DEF StartInv, OwnAnswer, GotRunning
<1>. QED BY <1>1, <1>3, <1>4, <1>5, <1>6 DEF StartInv

\* Who is woken by a native thread has waited for this one.
LEMMA StartCompletedInv ==
  ASSUME StartInv, NEW n \in Natives, startCompleted(n)
  PROVE  StartInv'
<1>1. /\ UNCHANGED <<thread, monitor, created>>
      /\ stage' = [c \in Clients |-> IF stage[c] = "waiting" THEN "woken" ELSE stage[c]]
      /\ native[n] \in StartedStages
      /\ \/ native' = [native EXCEPT ![n] = "serving"] /\ startError' = 0
         \/ native' = [native EXCEPT ![n] = "exiting"] /\ startError' = Errno
  BY DEF startCompleted, NativeGoes, NotifyAll
<1>2. PICK c \in Clients : stage[c] = "waiting" /\ created[c] = n
  BY <1>1 DEF StartInv
<1>3. \A d \in Clients \ {c} : stage[d] \notin InsideStages
  BY <1>2 DEF StartInv
<1>4. thread # n
  BY <1>1, NamesAssumption DEF StartInv, TypeOK
<1>5. TypeOK'
  BY <1>1 DEF StartInv, TypeOK
<1>6. OwnAnswer'
  BY <1>1, <1>2, <1>3 DEF StartInv, TypeOK, OwnAnswer
<1>7. thread' # NoThread => native'[thread'] = "serving"
  BY <1>1, <1>4 DEF StartInv, TypeOK
<1>8. GotRunning'
  BY <1>1, <1>7 DEF StartInv, TypeOK, GotRunning
<1>9. \A d \in Clients :
        /\ stage'[d] \in InsideStages <=> monitor' = d
        /\ stage'[d] \in {"waiting", "woken"} => created'[d] \in Natives
        /\ stage'[d] # "waiting"
  BY <1>1 DEF StartInv, TypeOK
<1>10. \A m \in Natives : native'[m] \notin StartedStages
  BY <1>1, <1>2, <1>3 DEF StartInv, TypeOK
<1>. QED BY <1>5, <1>6, <1>7, <1>8, <1>9, <1>10 DEF StartInv

\* The invariant holds in every state of every behaviour without interrupts.
THEOREM StartInvariance == Spec => []StartInv
<1>1. StartInv /\ [Next]_vars => StartInv'
  <2>1. ASSUME StartInv, UNCHANGED vars
        PROVE  StartInv'
    BY <2>1 DEF vars, StartInv, TypeOK, OwnAnswer, GotRunning
  <2>. QED BY <2>1, GetInv, EnterInv, StartStepInv, StartEndsInv, NativeInv, StartCompletedInv
           DEF Next, ClientStep, NativeStep
<1>. QED BY <1>1, InvInit, PTL DEF Spec

\* A client that start() wakes up reads the answer of its own native thread.
THEOREM OwnAnswerHolds == Spec => []OwnAnswer
<1>1. StartInv => OwnAnswer
  BY DEF StartInv
<1>. QED BY <1>1, StartInvariance, PTL

\* What getLinuxDeviceProxy returned is served by a thread, for ever.
THEOREM GotRunningHolds == Spec => []GotRunning
<1>1. StartInv => GotRunning
  BY DEF StartInv
<1>. QED BY <1>1, StartInvariance, PTL
================================================================================
