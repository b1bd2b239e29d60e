---------------------------- MODULE InterfaceService ----------------------------
(***************************************************************************)
(* What a program may rely on when it claims, releases or asks about an    *)
(* interface, as one atomic effect between a call and its return.  The     *)
(* program is one owner ("us"), however many threads and file descriptors  *)
(* serve it.  Any call may fail; a release that fails says so to nobody.   *)
(***************************************************************************)
CONSTANT Clients  \* threads of the program

VARIABLES
  op,     \* the call a client is in, "none" if none
  done,   \* how its effect ended: "no" (not yet), "ok", "error", "true", "false"
  owner   \* who has the interface: "us", "other", "free"

serviceVars == <<op, done, owner>>

ServiceInit ==
  /\ op = [c \in Clients |-> "none"]
  /\ done = [c \in Clients |-> "no"]
  /\ owner \in {"free", "other"}

Invoke(c) ==
  /\ op[c] = "none"
  /\ \E k \in {"claim", "release", "isClaimed"} : op' = [op EXCEPT ![c] = k]
  /\ UNCHANGED <<done, owner>>

Ends(c, k, how) ==
  /\ op[c] = k /\ done[c] = "no"
  /\ done' = [done EXCEPT ![c] = how]
  /\ UNCHANGED op

\* A claim succeeds only on an interface nobody else has.
Claim(c) == owner # "other" /\ Ends(c, "claim", "ok") /\ owner' = "us"

\* A release takes the interface from nobody else.
Release(c) ==
  /\ owner' = owner \/ (owner = "us" /\ owner' = "free")
  /\ Ends(c, "release", "ok")

IsClaimed(c) == Ends(c, "isClaimed", IF owner = "free" THEN "false" ELSE "true") /\ UNCHANGED owner

Fails(c) == Ends(c, op[c], "error") /\ op[c] # "none" /\ UNCHANGED owner

Return(c) ==
  /\ op[c] # "none" /\ done[c] # "no"
  /\ op' = [op EXCEPT ![c] = "none"] /\ done' = [done EXCEPT ![c] = "no"]
  /\ UNCHANGED owner

\* A driver of the kernel, or another program, takes the interface or leaves it.
Others ==
  /\ owner # "us" /\ owner' \in {"free", "other"}
  /\ UNCHANGED <<op, done>>

ServiceNext ==
  \/ \E c \in Clients :
       Invoke(c) \/ Claim(c) \/ Release(c) \/ IsClaimed(c) \/ Fails(c) \/ Return(c)
  \/ Others

Service == ServiceInit /\ [][ServiceNext]_serviceVars
================================================================================
