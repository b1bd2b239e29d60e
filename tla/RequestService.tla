----------------------------- MODULE RequestService -----------------------------
(***************************************************************************)
(* What the request path promises its callers: an accepted request waits   *)
(* in the order of submission, is started from the front or withdrawn, its *)
(* result is fixed while it is active, and it ends.  LinuxRequestProxy.tla *)
(* implements this with threads, lists, URBs and completion callbacks.     *)
(***************************************************************************)
EXTENDS Naturals, Sequences, SequencesExt

CONSTANTS
  Requests,     \* the requests callers may submit
  Withdrawable  \* those a caller may take back

VARIABLES
  queue,   \* accepted, not started
  active,  \* started or withdrawn, its end not reported
  failed,  \* ends with an error
  ended    \* its end was reported

serviceVars == <<queue, active, failed, ended>>

ServiceInit == queue = <<>> /\ active = {} /\ failed = {} /\ ended = {}

Accept(r) ==
  /\ r \notin ToSet(queue) \cup active \cup ended
  /\ queue' = Append(queue, r)
  /\ UNCHANGED <<active, failed, ended>>

Start ==
  /\ queue # <<>>
  /\ active' = active \cup {Head(queue)}
  /\ queue' = Tail(queue)
  /\ UNCHANGED <<failed, ended>>

Withdraw(r) ==
  /\ \E i \in DOMAIN queue : queue[i] = r /\ queue' = RemoveAt(queue, i)
  /\ active' = active \cup {r}
  /\ failed' = failed \cup {r}
  /\ UNCHANGED ended

Fail(r) ==
  /\ r \in active
  /\ failed' = failed \cup {r}
  /\ UNCHANGED <<queue, active, ended>>

End(r) ==
  /\ r \in active
  /\ active' = active \ {r}
  /\ ended' = ended \cup {r}
  /\ UNCHANGED <<queue, failed>>

ServiceNext ==
  \/ Start
  \/ \E r \in Requests : Accept(r) \/ Fail(r) \/ End(r)
  \/ \E r \in Withdrawable : Withdraw(r)

Service == ServiceInit /\ [][ServiceNext]_serviceVars
================================================================================
