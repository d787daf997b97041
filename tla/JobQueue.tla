------------------------------ MODULE JobQueue ------------------------------
(***************************************************************************)
(* The job queue of Lorehaven: the rows of `jobs` and `job_attempts`       *)
(* (crates/db/src/jobs.rs) and the workers that claim, run and settle them *)
(* (crates/app/src/worker.rs, run_once and record_outcome), with the       *)
(* owner's cancel and the operator's retry (crates/app/src/routes/jobs.rs).*)
(*                                                                         *)
(* One action is one SQL statement: that is the grain at which workers,    *)
(* the expiry sweep and the routes interleave.  Time is kept as timers     *)
(* that Tick counts down, so "lease_expires_at <= now" is lease[j] = 0 and *)
(* "available_at <= now" is delay[j] = 0.                                  *)
(*                                                                         *)
(* A worker identity is a fresh uuid per process: a worker that dies is    *)
(* gone for good, and a restart is another member of Workers.              *)
(***************************************************************************)
EXTENDS Integers, FiniteSets

CONSTANTS
  Jobs,          \* job rows: j names one INSERT, never reused
  Workers,       \* worker identities
  NoOne,         \* NULL: no lease owner, no requester, no current job
  Requester,     \* jobs.requested_by, NoOne for a system job
  Priority,      \* jobs.priority
  Bulk,          \* the rows whose kind is bulk_export
  Reporting,     \* rows whose handler calls progress and is_cancelled
  Requested,     \* jobs.max_attempts, the budget asked for at enqueue
  PolicyMax,     \* RetryPolicy.max_attempts of the workers
  MaxBulk,       \* WorkerOptions.max_bulk_concurrent; 0 switches the cap off
  Fairness,      \* WorkerOptions.fairness
  SkipLocked,    \* PostgreSQL's claim (FOR UPDATE SKIP LOCKED), else SQLite's
  Operator,      \* whether the operator's retry route is used
  Prompt,        \* whether a handler always returns before its lease runs out
  LeaseTime,     \* ticks a claim is held
  RetryDelay,    \* ticks before a failed attempt may run again, at most
  Retention,     \* ticks a terminal row is kept
  AttemptCap     \* where the attempts counter saturates (bound of the model)

ASSUME QueueAssumption ==
  /\ NoOne \notin Jobs /\ NoOne \notin Workers
  /\ Priority \in [Jobs -> Int]
  /\ Requested \in [Jobs -> Nat]
  /\ Bulk \subseteq Jobs /\ Reporting \subseteq Jobs
  /\ PolicyMax \in Nat /\ MaxBulk \in Nat
  /\ LeaseTime \in Nat /\ RetryDelay \in Nat \ {0} /\ Retention \in Nat
  /\ AttemptCap \in Nat \ {0}
  /\ Fairness \in BOOLEAN /\ SkipLocked \in BOOLEAN
  /\ Operator \in BOOLEAN /\ Prompt \in BOOLEAN

VARIABLES
  state,     \* jobs.state; "unborn" before the INSERT, "purged" after the DELETE
  attempts,  \* jobs.attempts
  owner,     \* jobs.lease_owner
  lease,     \* time left until jobs.lease_expires_at
  delay,     \* time left until jobs.available_at
  kept,      \* time left until updated_at + retention
  making,    \* the open rows of job_attempts (finished_at NULL): job and worker
  history,   \* the outcomes of the closed rows of job_attempts, per job
  pc,        \* where each worker is in run_once
  task,      \* the job it claimed
  attempt,   \* the attempt number it holds in a local
  verdict    \* the outcome it holds in a local

jobVars == <<state, attempts, owner, lease, delay, kept>>
workerVars == <<pc, task, attempt, verdict>>
logVars == <<making, history>>
vars == <<state, attempts, owner, lease, delay, kept, making, history,
          pc, task, attempt, verdict>>

Held     == {"leased", "running"}
Terminal == {"succeeded", "failed", "cancelled"}
Stored   == {"queued"} \cup Held \cup Terminal
States   == {"unborn", "purged"} \cup Stored

(* The stages of run_once that hold a claimed row, in code order; "closing" *)
(* comes after the statement that gave the row up.                          *)
Holding == {"reading", "starting", "logging", "handling", "completing", "failing",
            "recording"}
Stages  == {"idle", "sweeping", "claiming", "closing", "gone"} \cup Holding

Outcomes == {"succeeded", "queued", "failed", "lost_lease", "cancelled"}
Verdicts == {"none", "transient", "fatal"} \cup Outcomes

Live == {w \in Workers : pc[w] # "gone"}

TypeOK ==
  /\ state \in [Jobs -> States]
  /\ attempts \in [Jobs -> 0..AttemptCap]
  /\ owner \in [Jobs -> Workers \cup {NoOne}]
  /\ lease \in [Jobs -> 0..LeaseTime]
  /\ delay \in [Jobs -> 0..RetryDelay]
  /\ kept \in [Jobs -> 0..Retention]
  /\ making \subseteq Jobs \X Workers
  /\ history \in [Jobs -> SUBSET Outcomes]
  /\ pc \in [Workers -> Stages]
  /\ task \in [Workers -> Jobs \cup {NoOne}]
  /\ attempt \in [Workers -> 0..AttemptCap]
  /\ verdict \in [Workers -> Verdicts]

Init ==
  /\ state = [j \in Jobs |-> "unborn"]
  /\ attempts = [j \in Jobs |-> 0]
  /\ owner = [j \in Jobs |-> NoOne]
  /\ lease = [j \in Jobs |-> 0]
  /\ delay = [j \in Jobs |-> 0]
  /\ kept = [j \in Jobs |-> 0]
  /\ making = {}
  /\ history = [j \in Jobs |-> {}]
  /\ pc = [w \in Workers |-> "idle"]
  /\ task = [w \in Workers |-> NoOne]
  /\ attempt = [w \in Workers |-> 0]
  /\ verdict = [w \in Workers |-> "none"]

-----------------------------------------------------------------------------
(* The routes and the services that queue, cancel and retry. *)

(* Mutant of Locked: FOR UPDATE left out, a picked row is anybody's. *)
NeverLocked(j) == j \notin Jobs

(* PostgreSQL only: the row a claim has locked but not yet updated. *)
Locked(j) == \E w \in Workers : pc[w] = "claiming" /\ task[w] = j

(* enqueue: a new row.  A replayed idempotency key inserts nothing and is a  *)
(* stutter here.                                                            *)
Enqueue(j) ==
  /\ state[j] = "unborn"
  /\ state' = [state EXCEPT ![j] = "queued"]
  /\ UNCHANGED <<attempts, owner, lease, delay, kept, logVars, workerVars>>

(* What every statement that ends a lease writes to the row. *)
Released(j, s) ==
  /\ state' = [state EXCEPT ![j] = s]
  /\ owner' = [owner EXCEPT ![j] = NoOne]
  /\ lease' = [lease EXCEPT ![j] = 0]
  /\ kept' = [kept EXCEPT ![j] = IF s \in Terminal THEN Retention ELSE 0]

(* Mutant of Cancel: the lease columns are left on the cancelled row. *)
CancelKeepsLease(j) ==
  /\ Requester[j] # NoOne
  /\ state[j] \in {"queued"} \cup Held
  /\ ~Locked(j)
  /\ state' = [state EXCEPT ![j] = "cancelled"]
  /\ UNCHANGED <<attempts, owner, lease, kept, delay, logVars, workerVars>>

(* cancel_job and jobs::cancel: the requester may stop an unfinished job,   *)
(* whatever a worker is doing with it.                                      *)
Cancel(j) ==
  /\ Requester[j] # NoOne
  /\ state[j] \in {"queued"} \cup Held
  /\ ~Locked(j)
  /\ Released(j, "cancelled")
  /\ UNCHANGED <<attempts, delay, logVars, workerVars>>

(* retry_job and jobs::requeue: a finished row starts over. *)
Requeue(j) ==
  /\ Operator
  /\ state[j] \in Terminal
  /\ Released(j, "queued")
  /\ attempts' = [attempts EXCEPT ![j] = 0]
  /\ delay' = [delay EXCEPT ![j] = 0]
  /\ UNCHANGED <<logVars, workerVars>>

-----------------------------------------------------------------------------
(* claim_next *)

(* The fairness subquery counts rows in state 'leased' only. *)
RequesterBusy(j) ==
  /\ Fairness
  /\ Requester[j] # NoOne
  /\ \E i \in Jobs : state[i] = "leased" /\ Requester[i] = Requester[j]

LeasedBulk == {i \in Bulk : state[i] = "leased"}

(* Mutant of BulkFull: off by one. *)
BulkOverfull(j) == MaxBulk > 0 /\ j \in Bulk /\ Cardinality(LeasedBulk) > MaxBulk

BulkFull(j) == MaxBulk > 0 /\ j \in Bulk /\ Cardinality(LeasedBulk) >= MaxBulk

Runnable == {j \in Jobs : /\ state[j] = "queued" /\ delay[j] = 0
                          /\ ~RequesterBusy(j)
                          /\ ~BulkFull(j)
                          /\ ~Locked(j)}

(* ORDER BY priority DESC, available_at ASC; ties on priority are left open. *)
NextUp == {j \in Runnable : \A i \in Runnable : Priority[i] <= Priority[j]}

Bump(n) == IF n < AttemptCap THEN n + 1 ELSE n

(* The UPDATE of the claim. *)
TakeLease(w, j) ==
  /\ state' = [state EXCEPT ![j] = "leased"]
  /\ owner' = [owner EXCEPT ![j] = w]
  /\ lease' = [lease EXCEPT ![j] = LeaseTime]
  /\ UNCHANGED <<attempts, delay, kept, logVars, verdict>>

(* SQLite: subquery, UPDATE and SELECT are one transaction under the write   *)
(* lock.                                                                    *)
ClaimNext(w) ==
  /\ ~SkipLocked
  /\ pc[w] = "idle"
  /\ \E j \in NextUp :
       /\ TakeLease(w, j)
       /\ task' = [task EXCEPT ![w] = j]
       /\ attempt' = [attempt EXCEPT ![w] = Bump(attempts[j])]
  /\ pc' = [pc EXCEPT ![w] = "starting"]

(* PostgreSQL: the subqueries read the statement's snapshot and lock the row *)
(* they choose; rows locked by another claim are skipped.                   *)
PickRow(w) ==
  /\ SkipLocked
  /\ pc[w] = "idle"
  /\ \E j \in NextUp : task' = [task EXCEPT ![w] = j]
  /\ pc' = [pc EXCEPT ![w] = "claiming"]
  /\ UNCHANGED <<jobVars, logVars, attempt, verdict>>

TakeRow(w) ==
  /\ pc[w] = "claiming"
  /\ TakeLease(w, task[w])
  /\ pc' = [pc EXCEPT ![w] = "reading"]
  /\ UNCHANGED <<task, attempt>>

(* The SELECT of the claimed row comes after the claim has committed: it may *)
(* find what others have made of the row since, or no row at all.            *)
ReadRow(w) ==
  /\ pc[w] = "reading"
  /\ IF state[task[w]] = "purged"
     THEN /\ pc' = [pc EXCEPT ![w] = "idle"]
          /\ task' = [task EXCEPT ![w] = NoOne]
          /\ UNCHANGED attempt
     ELSE /\ pc' = [pc EXCEPT ![w] = "starting"]
          /\ attempt' = [attempt EXCEPT ![w] = Bump(attempts[task[w]])]
          /\ UNCHANGED task
  /\ UNCHANGED <<jobVars, logVars, verdict>>

-----------------------------------------------------------------------------
(* One attempt, statement by statement. *)

(* Mutant of CountAttempt: the attempt is counted but not logged. *)
CountUnlogged(w) ==
  LET j == task[w] IN
  /\ pc[w] = "starting"
  /\ ~Locked(j)
  /\ pc' = [pc EXCEPT ![w] = "handling"]
  /\ attempts' = [attempts EXCEPT ![j] = attempt[w]]
  /\ attempt' = [attempt EXCEPT ![w] = 0]
  /\ UNCHANGED <<state, owner, lease, delay, kept, logVars, task, verdict>>

(* attempt_started, first statement: guarded by the row's id alone. *)
CountAttempt(w) ==
  LET j == task[w] IN
  /\ pc[w] = "starting"
  /\ ~Locked(j)
  /\ pc' = [pc EXCEPT ![w] = "logging"]
  /\ IF state[j] = "purged"
     THEN UNCHANGED <<attempts, kept>>
     ELSE /\ attempts' = [attempts EXCEPT ![j] = attempt[w]]
          /\ kept' = [kept EXCEPT ![j] = IF state[j] \in Terminal THEN Retention ELSE 0]
  /\ UNCHANGED <<state, owner, lease, delay, logVars, task, attempt, verdict>>

(* attempt_started, second statement.  The foreign key refuses a row for a  *)
(* purged job, and that error ends the worker's loop.                       *)
LogAttempt(w) ==
  LET j == task[w] IN
  /\ pc[w] = "logging"
  /\ IF state[j] = "purged"
     THEN pc' = [pc EXCEPT ![w] = "gone"] /\ UNCHANGED making
     ELSE /\ pc' = [pc EXCEPT ![w] = "handling"]
          /\ making' = making \cup {<<j, w>>}
  /\ attempt' = [attempt EXCEPT ![w] = 0]
  /\ UNCHANGED <<jobVars, history, task, verdict>>

(* progress: guarded by the row's state, not by its owner. *)
Progress(w) ==
  LET j == task[w] IN
  /\ pc[w] = "handling"
  /\ j \in Reporting
  /\ state[j] = "leased"
  /\ state' = [state EXCEPT ![j] = "running"]
  /\ UNCHANGED <<attempts, owner, lease, delay, kept, logVars, workerVars>>

(* Mutant of NoticeCancel: the stored state is not looked at. *)
AssumeCancel(w) ==
  /\ pc[w] = "handling"
  /\ task[w] \in Reporting
  /\ pc' = [pc EXCEPT ![w] = "closing"]
  /\ verdict' = [verdict EXCEPT ![w] = "cancelled"]
  /\ UNCHANGED <<jobVars, logVars, task, attempt>>

(* is_cancelled between two units of work, and the Cancelled arm of          *)
(* record_outcome.                                                          *)
NoticeCancel(w) ==
  /\ pc[w] = "handling"
  /\ task[w] \in Reporting
  /\ state[task[w]] = "cancelled"
  /\ pc' = [pc EXCEPT ![w] = "closing"]
  /\ verdict' = [verdict EXCEPT ![w] = "cancelled"]
  /\ UNCHANGED <<jobVars, logVars, task, attempt>>

(* run_handler returns Ok, Transient or Fatal. *)
HandlerReturns(w) ==
  /\ pc[w] = "handling"
  /\ \/ /\ pc' = [pc EXCEPT ![w] = "completing"]
        /\ UNCHANGED verdict
     \/ \E v \in {"transient", "fatal"} :
          /\ pc' = [pc EXCEPT ![w] = "failing"]
          /\ verdict' = [verdict EXCEPT ![w] = v]
  /\ UNCHANGED <<jobVars, logVars, task, attempt>>

(* Mutant of Complete: WHERE id = ? only. *)
CompleteUnguarded(w) ==
  /\ pc[w] = "completing"
  /\ Released(task[w], "succeeded")
  /\ pc' = [pc EXCEPT ![w] = "closing"]
  /\ verdict' = [verdict EXCEPT ![w] = "succeeded"]
  /\ UNCHANGED <<attempts, delay, logVars, task, attempt>>

(* complete: the guarded UPDATE; the attempt is closed whatever it matched. *)
Complete(w) ==
  LET j == task[w] IN
  /\ pc[w] = "completing"
  /\ IF owner[j] = w /\ state[j] \in Held
     THEN Released(j, "succeeded")
     ELSE UNCHANGED <<state, owner, lease, kept>>
  /\ pc' = [pc EXCEPT ![w] = "closing"]
  /\ verdict' = [verdict EXCEPT ![w] = "succeeded"]
  /\ UNCHANGED <<attempts, delay, logVars, task, attempt>>

Max1(n) == IF n < 1 THEN 1 ELSE n

Budget(j) == IF PolicyMax < Requested[j] THEN PolicyMax ELSE Requested[j]

(* fail, the SELECT under the lease and the decision made from it. *)
FailRead(w) ==
  LET j == task[w]
      made == Max1(attempts[j])
      retry == verdict[w] # "fatal" /\ made < Budget(j)
  IN
  /\ pc[w] = "failing"
  /\ IF owner[j] = w
     THEN /\ pc' = [pc EXCEPT ![w] = "recording"]
          /\ attempt' = [attempt EXCEPT ![w] = made]
          /\ verdict' = [verdict EXCEPT ![w] = IF retry THEN "queued" ELSE "failed"]
     ELSE /\ pc' = [pc EXCEPT ![w] = "closing"]
          /\ verdict' = [verdict EXCEPT ![w] = "lost_lease"]
          /\ UNCHANGED attempt
  /\ UNCHANGED <<jobVars, logVars, task>>

(* fail, the UPDATE, which is guarded by the owner again. *)
FailWrite(w) ==
  LET j == task[w] IN
  /\ pc[w] = "recording"
  /\ IF owner[j] = w
     THEN /\ Released(j, verdict[w])
          /\ attempts' = [attempts EXCEPT ![j] = attempt[w]]
          /\ \E d \in IF verdict[w] = "queued" THEN 1..RetryDelay ELSE {0} :
               delay' = [delay EXCEPT ![j] = d]
     ELSE UNCHANGED <<state, attempts, owner, lease, delay, kept>>
  /\ pc' = [pc EXCEPT ![w] = "closing"]
  /\ attempt' = [attempt EXCEPT ![w] = 0]
  /\ UNCHANGED <<logVars, task, verdict>>

(* Mutant of CloseAttempt: a lost lease leaves the attempt open. *)
CloseUnlessLost(w) ==
  LET j == task[w] IN
  /\ pc[w] = "closing"
  /\ IF verdict[w] = "lost_lease"
     THEN UNCHANGED logVars
     ELSE /\ making' = making \ {<<j, w>>}
          /\ history' = [history EXCEPT ![j] = @ \cup {verdict[w]}]
  /\ pc' = [pc EXCEPT ![w] = "idle"]
  /\ task' = [task EXCEPT ![w] = NoOne]
  /\ verdict' = [verdict EXCEPT ![w] = "none"]
  /\ UNCHANGED <<jobVars, attempt>>

(* close_attempt: every open row of this job and this worker. *)
CloseAttempt(w) ==
  LET j == task[w] IN
  /\ pc[w] = "closing"
  /\ making' = making \ {<<j, w>>}
  /\ history' = IF <<j, w>> \in making
                THEN [history EXCEPT ![j] = @ \cup {verdict[w]}] ELSE history
  /\ pc' = [pc EXCEPT ![w] = "idle"]
  /\ task' = [task EXCEPT ![w] = NoOne]
  /\ verdict' = [verdict EXCEPT ![w] = "none"]
  /\ UNCHANGED <<jobVars, attempt>>

-----------------------------------------------------------------------------
(* maintenance_pass, which a worker runs between two units of work. *)

(* Mutant of Expired: the sweep forgets rows that never reported progress. *)
LapsedRunning == {j \in Jobs : state[j] = "running" /\ lease[j] = 0}

Expired == {j \in Jobs : state[j] \in Held /\ lease[j] = 0}

(* Mutant of RequeueExpiredLeases: lease_owner is not cleared. *)
RequeueKeepsOwner(w) ==
  /\ pc[w] = "idle"
  /\ state' = [j \in Jobs |-> IF j \in Expired THEN "queued" ELSE state[j]]
  /\ pc' = [pc EXCEPT ![w] = "sweeping"]
  /\ UNCHANGED <<attempts, owner, lease, delay, kept, logVars, task, attempt, verdict>>

RequeueExpiredLeases(w) ==
  /\ pc[w] = "idle"
  /\ state' = [j \in Jobs |-> IF j \in Expired THEN "queued" ELSE state[j]]
  /\ owner' = [j \in Jobs |-> IF j \in Expired THEN NoOne ELSE owner[j]]
  /\ pc' = [pc EXCEPT ![w] = "sweeping"]
  /\ UNCHANGED <<attempts, lease, delay, kept, logVars, task, attempt, verdict>>

Stale == {j \in Jobs : state[j] \in Terminal /\ kept[j] = 0}

(* The attempts of a purged job go with it (ON DELETE CASCADE). *)
PurgeTerminalJobs(w) ==
  /\ pc[w] = "sweeping"
  /\ state' = [j \in Jobs |-> IF j \in Stale THEN "purged" ELSE state[j]]
  /\ making' = {r \in making : r[1] \notin Stale}
  /\ history' = [j \in Jobs |-> IF j \in Stale THEN {} ELSE history[j]]
  /\ pc' = [pc EXCEPT ![w] = "idle"]
  /\ UNCHANGED <<attempts, owner, lease, delay, kept, task, attempt, verdict>>

-----------------------------------------------------------------------------
(* The environment. *)

(* A worker is killed, or a statement's error ends its loop.  Bound of the   *)
(* model: one worker is left.                                               *)
Stop(w) ==
  /\ pc[w] # "gone"
  /\ \E v \in Live : v # w
  /\ pc' = [pc EXCEPT ![w] = "gone"]
  /\ attempt' = [attempt EXCEPT ![w] = 0]
  /\ UNCHANGED <<jobVars, logVars, task, verdict>>

(* Under Prompt an attempt outlives neither its lease nor, when its job was  *)
(* cancelled under it, the retention of the finished row.                   *)
InTime(w) ==
  LET j == task[w] IN
  pc[w] \in Holding => /\ owner[j] = w => lease[j] > 1
                       /\ state[j] \in Terminal => kept[j] > 1

Down(n) == IF n > 0 THEN n - 1 ELSE 0

Tick ==
  /\ \E j \in Jobs : lease[j] + delay[j] + kept[j] > 0
  /\ Prompt => \A w \in Workers : InTime(w)
  /\ lease' = [j \in Jobs |-> Down(lease[j])]
  /\ delay' = [j \in Jobs |-> Down(delay[j])]
  /\ kept' = [j \in Jobs |-> Down(kept[j])]
  /\ UNCHANGED <<state, attempts, owner, logVars, workerVars>>

-----------------------------------------------------------------------------
Attempting(w) ==
  \/ CountAttempt(w) \/ LogAttempt(w) \/ HandlerReturns(w) \/ NoticeCancel(w)
  \/ Complete(w) \/ FailRead(w) \/ FailWrite(w) \/ CloseAttempt(w)

Work(w) ==
  \/ ClaimNext(w) \/ PickRow(w) \/ TakeRow(w) \/ ReadRow(w)
  \/ Progress(w) \/ Attempting(w)
  \/ RequeueExpiredLeases(w) \/ PurgeTerminalJobs(w)

Next ==
  \/ \E j \in Jobs : Enqueue(j) \/ Cancel(j) \/ Requeue(j)
  \/ \E w \in Workers : Work(w) \/ Stop(w)
  \/ Tick

Spec == Init /\ [][Next]_vars

(* What the worker loop guarantees: a live worker keeps taking the next step *)
(* of its attempt, keeps claiming while there is work, and runs the sweep    *)
(* again and again (every 30th pass), whatever else it does in between.      *)
Scheduling ==
  /\ WF_vars(Tick)
  /\ \A w \in Workers :
       /\ WF_vars(TakeRow(w)) /\ WF_vars(ReadRow(w)) /\ WF_vars(Attempting(w))
       /\ WF_vars(PurgeTerminalJobs(w))
       /\ SF_vars(ClaimNext(w)) /\ SF_vars(PickRow(w))
       /\ SF_vars(RequeueExpiredLeases(w))

FairSpec == Spec /\ Scheduling

-----------------------------------------------------------------------------
(* Properties *)

(* A row names an owner exactly while it is leased or running: no statement  *)
(* of any worker, route or sweep leaves a lease on a row that is not held or *)
(* a held row that nobody owns and the sweep could not give back.            *)
LeaseCoherent ==
  \A j \in Jobs : (owner[j] # NoOne) <=> (state[j] \in Held)

(* The lease on a row belongs to a worker that is between claiming it and    *)
(* writing its outcome, or that died there.  A live worker never returns to  *)
(* its loop with a lease left behind (worker.rs, run).                       *)
HolderIsAtWork ==
  \A j \in Jobs : \A w \in Workers :
    owner[j] = w => task[w] = j /\ pc[w] \in Holding \cup {"gone"}

(* An attempt that never finished is being made now, or its worker died: no  *)
(* path through complete, fail, cancel and lost leases forgets to close it.  *)
OpenAttemptIsBeingMade ==
  \A r \in making :
    /\ task[r[2]] = r[1]
    /\ pc[r[2]] \in {"handling", "completing", "failing", "recording", "closing", "gone"}

(* A finished job has an attempt that explains its state: one closed with    *)
(* that outcome, or about to be, or cut off by a crash before it was.        *)
Explained(j) ==
  \/ state[j] \in history[j]
  \/ \E w \in Workers : /\ <<j, w>> \in making
                       /\ verdict[w] = state[j]
                       /\ pc[w] \in {"closing", "gone"}

HistoryExplainsOutcome ==
  \A j \in Jobs : state[j] \in {"succeeded", "failed"} => Explained(j)

(* At most max_bulk_concurrent bulk rows hold a lease at once. *)
BulkCap ==
  MaxBulk > 0 => Cardinality({j \in Bulk : state[j] \in Held}) <= MaxBulk

(* A finished row changes state only by the operator's retry, which starts   *)
(* it over with no attempts, or by the purge, and then only after its        *)
(* retention has passed: an attempt that ends after the cancel does not      *)
(* un-cancel the job.                                                       *)
FinishedStaysFinished ==
  [][\A j \in Jobs : state[j] \in Terminal /\ state'[j] # state[j] =>
       \/ state'[j] = "queued" /\ attempts'[j] = 0 /\ Operator
       \/ state'[j] = "purged" /\ kept[j] = 0]_vars

(* The queue implements JobLife: leased and running are both "held". *)
Phase == [j \in Jobs |-> CASE state[j] = "queued" -> "waiting"
                          [] state[j] \in Held   -> "held"
                          [] OTHER -> state[j]]

Life == INSTANCE JobLife WITH phase <- Phase, holder <- owner

(* Each statement of a worker, a route or a sweep is a step of JobLife or    *)
(* changes nothing it can see: in particular a claim never takes a row from  *)
(* another worker, and never gives a worker a second one.                    *)
ImplementsJobLife == Life!Spec

(* Every queued job is eventually finished, whatever workers die: claims,    *)
(* retries and the expiry sweep leave no row waiting for ever.              *)
EveryJobSettles == \A j \in Jobs :
  state[j] \in {"queued"} \cup Held ~> state[j] \in Terminal \cup {"purged"}

(* The inductive invariant behind the properties above: what each stage of   *)
(* run_once knows about the row it works on.                                *)
StagesCoherent ==
  \A w \in Workers :
    /\ pc[w] \in Holding \cup {"claiming", "closing"} => task[w] \in Jobs
    /\ pc[w] = "claiming" => /\ state[task[w]] = "queued"
                            /\ \A v \in Workers \ {w} :
                                 pc[v] = "claiming" => task[v] # task[w]
    /\ pc[w] \in {"handling", "completing", "failing", "recording", "closing"} =>
         <<task[w], w>> \in making \/ state[task[w]] = "purged"
    /\ pc[w] = "recording" => verdict[w] \in {"queued", "failed"}
    /\ pc[w] = "closing" => verdict[w] \in Outcomes

IndInv ==
  /\ TypeOK
  /\ LeaseCoherent
  /\ HolderIsAtWork
  /\ OpenAttemptIsBeingMade
  /\ StagesCoherent
  /\ HistoryExplainsOutcome

-----------------------------------------------------------------------------
(* What a comment says, and the code does not keep.                         *)

(* Requeueing only finished rows is meant to rule out "two workers on one    *)
(* row" (jobs.rs, requeue); a cancelled row is finished before its worker is. *)
OneWorkerPerRow ==
  \A v, w \in Live :
    v # w /\ pc[v] \in Holding /\ pc[w] \in Holding => task[v] # task[w]
=============================================================================
