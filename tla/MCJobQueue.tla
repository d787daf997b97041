----------------------------- MODULE MCJobQueue -----------------------------
(* Values for the constants of JobQueue: two jobs of one reader or of the    *)
(* system, equal or urgent, and two workers that are interchangeable.        *)
EXTENDS JobQueue, TLC

CONSTANTS j1, j2, w1, w2, alice

(* Both jobs were asked for by the same reader, with equal priority. *)
SameRequester == [j \in Jobs |-> alice]

(* j1 is a reader's job, j2 one the system queued for itself. *)
OneSystemJob == [j \in Jobs |-> IF j = j1 THEN alice ELSE NoOne]

Even == [j \in Jobs |-> 0]

(* Nobody asked for either: no one may cancel them. *)
AllSystem == [j \in Jobs |-> NoOne]

(* j2 runs before j1 when both are runnable. *)
Urgent2 == [j \in Jobs |-> IF j = j2 THEN 1 ELSE 0]

OneAttempt == [j \in Jobs |-> 1]

(* The row's own budget is smaller than the worker's policy for j1 only. *)
MixedBudget == [j \in Jobs |-> IF j = j1 THEN 1 ELSE 2]

AnyWorker == Permutations(Workers)
=============================================================================
