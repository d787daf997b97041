------------------------------ MODULE JobLife ------------------------------
(***************************************************************************)
(* What the job queue promises its callers (spec.md 10.1 and the header of *)
(* crates/db/src/jobs.rs): a job waits, is held by at most one worker, and *)
(* is finished once; a worker holds at most one job; a held job is settled *)
(* or goes back to waiting; a finished job is only reopened by an operator *)
(* or forgotten.  How leases, attempts and timers bring this about is      *)
(* JobQueue's business.                                                    *)
(***************************************************************************)
CONSTANTS Jobs, Workers, NoOne

VARIABLES
  phase,   \* where each job is in its life
  holder   \* the worker that holds it

vars == <<phase, holder>>

Finished == {"succeeded", "failed", "cancelled"}

Init ==
  /\ phase = [j \in Jobs |-> "unborn"]
  /\ holder = [j \in Jobs |-> NoOne]

Post(j) ==
  /\ phase[j] = "unborn"
  /\ phase' = [phase EXCEPT ![j] = "waiting"]
  /\ UNCHANGED holder

(* One worker takes one job, and only with empty hands. *)
Take(j, w) ==
  /\ phase[j] = "waiting"
  /\ \A i \in Jobs : holder[i] # w
  /\ phase' = [phase EXCEPT ![j] = "held"]
  /\ holder' = [holder EXCEPT ![j] = w]

(* A retry gives back one job, an expiry sweep all that were abandoned. *)
GiveBack(S) ==
  /\ \A j \in S : phase[j] = "held"
  /\ phase' = [j \in Jobs |-> IF j \in S THEN "waiting" ELSE phase[j]]
  /\ holder' = [j \in Jobs |-> IF j \in S THEN NoOne ELSE holder[j]]

Settle(j) ==
  /\ phase[j] = "held"
  /\ \E outcome \in {"succeeded", "failed"} : phase' = [phase EXCEPT ![j] = outcome]
  /\ holder' = [holder EXCEPT ![j] = NoOne]

Withdraw(j) ==
  /\ phase[j] \in {"waiting", "held"}
  /\ phase' = [phase EXCEPT ![j] = "cancelled"]
  /\ holder' = [holder EXCEPT ![j] = NoOne]

Reopen(j) ==
  /\ phase[j] \in Finished
  /\ phase' = [phase EXCEPT ![j] = "waiting"]
  /\ UNCHANGED holder

Forget(S) ==
  /\ \A j \in S : phase[j] \in Finished
  /\ phase' = [j \in Jobs |-> IF j \in S THEN "purged" ELSE phase[j]]
  /\ UNCHANGED holder

Next ==
  \/ \E j \in Jobs : Post(j) \/ Settle(j) \/ Withdraw(j) \/ Reopen(j)
  \/ \E j \in Jobs, w \in Workers : Take(j, w)
  \/ \E S \in SUBSET Jobs : GiveBack(S) \/ Forget(S)

Spec == Init /\ [][Next]_vars
=============================================================================
