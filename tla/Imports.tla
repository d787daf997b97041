------------------------------- MODULE Imports -------------------------------
(***************************************************************************)
(* One import of a work from a source: its row in import_jobs and its       *)
(* import_units (crates/db/src/imports.rs), the readers' requests to start, *)
(* cancel and retry it (crates/app/src/routes/imports.rs) and the runs of   *)
(* the queue's workers (crates/app/src/imports.rs).                         *)
(*                                                                         *)
(* The queue underneath is what JobLife promises and JobQueue implements.   *)
(* A worker whose lease is taken away does not notice: it runs on, and the  *)
(* statement that would settle its job finds no row.  Time, attempts and    *)
(* what the source says are nondeterministic.  A failed read or write of    *)
(* the database is the error that stage returns.                            *)
(***************************************************************************)
EXTENDS Naturals, FiniteSets

CONSTANTS
  Units,      \* the units of the work, by ordinal and by source_unit_key
  Jobs,       \* queue rows that may be posted for the import
  Workers,    \* the queue's workers
  Tabs,       \* the reader's requests: one at a time in each tab
  NoOne,      \* no worker, no job, no unit
  Adapters,   \* which values the capability per_unit_fetch has
  Storing,    \* FALSE: a dry run, or an instance that only aggregates
  MaxTrouble  \* bound: faults, lost leases and retries by an operator

ASSUME ImportsAssumption ==
  /\ NoOne \notin Jobs \cup Workers \cup Units
  /\ Adapters \subseteq BOOLEAN /\ Storing \subseteq BOOLEAN
  /\ Units \subseteq Nat
  /\ MaxTrouble \in Nat

VARIABLES
  phase,    \* the queue's rows, as in JobLife
  holder,   \* the worker that holds each
  keeps,    \* whether this import stores bodies: fixed when it is started
  perUnit,  \* whether its adapter can fetch one unit: fixed
  row,      \* import_jobs.state; "none" before the INSERT and after a cascade
  linked,   \* import_jobs.job_id
  units,    \* import_units.state by source_unit_key, "none" without a row
  ghosts,   \* failed rows keyed "ordinal-n" instead of the unit's own key
  held,     \* units whose body has a blob that the library item references
  tab,      \* where each tab's request is
  posted,   \* the queue row a start or a retry has enqueued
  at,       \* where each worker is in imports::run
  task,     \* the queue row it runs
  stored,   \* the local already_stored
  wanted,   \* failed ordinals it has still to read again, one by one
  fetched,  \* units it has in memory and has still to store
  spoiled,  \* the local any_failed
  late,     \* units it has put since its queue row was cancelled
  trouble   \* faults so far

queue == <<phase, holder>>
kind == <<keeps, perUnit>>
import == <<row, linked, units, ghosts, held>>
tabs == <<tab, posted>>
runs == <<at, task, stored, wanted, fetched, spoiled, late>>
vars == <<queue, kind, import, tabs, runs, trouble>>

Queue == INSTANCE JobLife

Over == {"completed", "failed", "cancelled"}
Verdicts == {"ok", "transient", "fatal", "cancelled"}
(* The stages of run in code order; "unsaved" is the arm that handles an     *)
(* error of store_units.                                                    *)
Stages == {"idle", "find", "check", "preview", "list", "reread", "fetch", "next",
           "put", "record", "note", "finish", "unsaved-transient", "unsaved-fatal",
           "unsaved-cancelled"} \cup Verdicts

TypeOK ==
  /\ phase \in [Jobs -> {"unborn", "waiting", "held", "succeeded", "failed",
                         "cancelled", "purged"}]
  /\ holder \in [Jobs -> Workers \cup {NoOne}]
  /\ keeps \in BOOLEAN /\ perUnit \in BOOLEAN
  /\ row \in {"none", "queued", "running"} \cup Over
  /\ linked \in Jobs \cup {NoOne}
  /\ units \in [Units -> {"none", "stored", "failed"}]
  /\ ghosts \subseteq Units
  /\ held \subseteq Units
  /\ tab \in [Tabs -> {"idle", "insert", "cancelRow", "cancelJob", "post", "mark"}]
  /\ posted \in [Tabs -> Jobs \cup {NoOne}]
  /\ at \in [Workers -> Stages]
  /\ task \in [Workers -> Jobs \cup {NoOne}]
  /\ stored \in [Workers -> SUBSET Units]
  /\ wanted \in [Workers -> SUBSET Units]
  /\ fetched \in [Workers -> SUBSET Units]
  /\ spoiled \in [Workers -> BOOLEAN]
  /\ late \in [Workers -> Nat]
  /\ trouble \in 0..MaxTrouble

Init ==
  /\ Queue!Init
  /\ keeps \in Storing /\ perUnit \in Adapters
  /\ row = "none" /\ linked = NoOne
  /\ units = [u \in Units |-> "none"] /\ ghosts = {} /\ held = {}
  /\ tab = [t \in Tabs |-> "idle"] /\ posted = [t \in Tabs |-> NoOne]
  /\ at = [w \in Workers |-> "idle"] /\ task = [w \in Workers |-> NoOne]
  /\ stored = [w \in Workers |-> {}]
  /\ wanted = [w \in Workers |-> {}]
  /\ fetched = [w \in Workers |-> {}]
  /\ spoiled = [w \in Workers |-> FALSE]
  /\ late = [w \in Workers |-> 0]
  /\ trouble = 0

Trouble == trouble < MaxTrouble /\ trouble' = trouble + 1

(* set_import_state: unconditional, and without effect on a missing row. *)
RowTo(s) == row' = IF row = "none" THEN "none" ELSE s

-----------------------------------------------------------------------------
(* The readers' requests. *)

(* start_import enqueues first: the payload names an import that is not      *)
(* there yet.                                                               *)
PostStart(t, j) ==
  /\ tab[t] = "idle"
  /\ \A i \in Jobs : phase[i] = "unborn"
  /\ Queue!Post(j)
  /\ tab' = [tab EXCEPT ![t] = "insert"]
  /\ posted' = [posted EXCEPT ![t] = j]
  /\ UNCHANGED <<kind, import, runs, trouble>>

(* create_import_job; its foreign key needs the queue row. *)
InsertImport(t) ==
  /\ tab[t] = "insert"
  /\ phase[posted[t]] # "purged"
  /\ row' = "queued"
  /\ linked' = posted[t]
  /\ tab' = [tab EXCEPT ![t] = "idle"]
  /\ UNCHANGED <<queue, kind, units, ghosts, held, posted, runs, trouble>>

AskCancel(t) ==
  /\ tab[t] = "idle"
  /\ row \in {"queued", "running"}
  /\ tab' = [tab EXCEPT ![t] = "cancelRow"]
  /\ UNCHANGED <<queue, kind, import, posted, runs, trouble>>

CancelRow(t) ==
  /\ tab[t] = "cancelRow"
  /\ RowTo("cancelled")
  /\ tab' = [tab EXCEPT ![t] = "cancelJob"]
  /\ UNCHANGED <<queue, kind, linked, units, ghosts, held, posted, runs, trouble>>

(* The row the import was started with; jobs::cancel leaves a finished one. *)
CancelJob(t) ==
  /\ tab[t] = "cancelJob"
  /\ IF row # "none" /\ phase[linked] \in {"waiting", "held"}
     THEN Queue!Withdraw(linked)
     ELSE UNCHANGED queue
  /\ tab' = [tab EXCEPT ![t] = "idle"]
  /\ UNCHANGED <<kind, import, posted, runs, trouble>>

(* retry_failed_units: for a finished import with a failed row of either kind. *)
AskRetry(t) ==
  /\ tab[t] = "idle"
  /\ row \in Over
  /\ ghosts # {} \/ \E u \in Units : units[u] = "failed"
  /\ tab' = [tab EXCEPT ![t] = "post"]
  /\ UNCHANGED <<queue, kind, import, posted, runs, trouble>>

PostRetry(t, j) ==
  /\ tab[t] = "post"
  /\ Queue!Post(j)
  /\ tab' = [tab EXCEPT ![t] = "mark"]
  /\ posted' = [posted EXCEPT ![t] = j]
  /\ UNCHANGED <<kind, import, runs, trouble>>

MarkQueued(t) ==
  /\ tab[t] = "mark"
  /\ RowTo("queued")
  /\ tab' = [tab EXCEPT ![t] = "idle"]
  /\ UNCHANGED <<queue, kind, linked, units, ghosts, held, posted, runs, trouble>>

(* The server dies, or a statement fails, between two statements. *)
RequestDies(t) ==
  /\ tab[t] # "idle"
  /\ Trouble
  /\ tab' = [tab EXCEPT ![t] = "idle"]
  /\ UNCHANGED <<queue, kind, import, posted, runs>>

-----------------------------------------------------------------------------
(* imports::run, one worker. *)

GoTo(w, s) == at' = [at EXCEPT ![w] = s]

(* What a run leaves alone when only its stage changes. *)
locals == <<task, stored, wanted, fetched, spoiled, late>>

Take(w, j) ==
  /\ at[w] = "idle"
  /\ Queue!Take(j, w)
  /\ GoTo(w, "find")
  /\ task' = [task EXCEPT ![w] = j]
  /\ stored' = [stored EXCEPT ![w] = {}]
  /\ wanted' = [wanted EXCEPT ![w] = {}]
  /\ fetched' = [fetched EXCEPT ![w] = {}]
  /\ spoiled' = [spoiled EXCEPT ![w] = FALSE]
  /\ late' = [late EXCEPT ![w] = 0]
  /\ UNCHANGED <<kind, import, tabs, trouble>>

(* get_import_job; a missing row is fatal. *)
FindImport(w) ==
  /\ at[w] = "find"
  /\ GoTo(w, IF row = "none" THEN "fatal" ELSE "check")
  /\ UNCHANGED <<queue, kind, import, tabs, locals, trouble>>

(* The source is switched off, or the credential is missing, expired or      *)
(* refused.                                                                 *)
Refuse(w) ==
  /\ at[w] = "check"
  /\ Trouble
  /\ RowTo("failed")
  /\ GoTo(w, "fatal")
  /\ UNCHANGED <<queue, kind, linked, units, ghosts, held, tabs, locals>>

StartRunning(w) ==
  /\ at[w] = "check"
  /\ RowTo("running")
  /\ GoTo(w, "preview")
  /\ UNCHANGED <<queue, kind, linked, units, ghosts, held, tabs, locals, trouble>>

(* The source answers that the work is gone or withheld. *)
OriginGone(w) ==
  /\ at[w] = "preview"
  /\ Trouble
  /\ RowTo("failed")
  /\ GoTo(w, "fatal")
  /\ UNCHANGED <<queue, kind, linked, units, ghosts, held, tabs, locals>>

(* Any other failure outside store_units returns without a word on the row: *)
(* a statement, the adapter, the source's answer to the preview.            *)
RunFails(w) ==
  /\ at[w] \in {"find", "check", "preview", "finish"}
  /\ Trouble
  /\ \/ GoTo(w, "transient")
     \/ at[w] \in {"check", "preview"} /\ GoTo(w, "fatal")
  /\ UNCHANGED <<queue, kind, import, tabs, locals>>

Preview(w) ==
  /\ at[w] = "preview"
  /\ GoTo(w, IF keeps THEN "list" ELSE "finish")
  /\ UNCHANGED <<queue, kind, import, tabs, locals, trouble>>

(* Mutant of FailedUnits: ordinals counted from zero. *)
FailedPositions == {u - 1 : u \in {v \in Units : units[v] = "failed"} \cup ghosts}

FailedUnits == {u \in Units : units[u] = "failed"} \cup ghosts

(* Mutant of AlreadyStored: every unit with a row is skipped. *)
AnyRow == {u \in Units : units[u] # "none"}

AlreadyStored == {u \in Units : units[u] = "stored"}

(* store_units reads the rows once.  A failed row sends an adapter with      *)
(* per_unit_fetch after the failed ordinals alone.                          *)
ListUnits(w) ==
  /\ at[w] = "list"
  /\ stored' = [stored EXCEPT ![w] = AlreadyStored]
  /\ IF perUnit /\ FailedUnits # {}
     THEN /\ wanted' = [wanted EXCEPT ![w] = FailedUnits]
          /\ GoTo(w, "reread")
     ELSE /\ GoTo(w, "fetch")
          /\ UNCHANGED wanted
  /\ UNCHANGED <<queue, kind, import, tabs, task, fetched, spoiled, late, trouble>>

Cancelled(w) == phase[task[w]] = "cancelled"

(* The check between units of work: is_cancelled on the run's own row. *)
SeeCancel(w) ==
  /\ at[w] \in {"reread", "next"}
  /\ wanted[w] \cup fetched[w] # {}
  /\ Cancelled(w)
  /\ GoTo(w, "unsaved-cancelled")
  /\ UNCHANGED <<queue, kind, import, tabs, locals, trouble>>

(* fetch_unit of one failed ordinal. *)
Reread(w, u) ==
  /\ at[w] = "reread"
  /\ u \in wanted[w]
  /\ ~Cancelled(w)
  /\ wanted' = [wanted EXCEPT ![w] = @ \ {u}]
  /\ \/ /\ fetched' = [fetched EXCEPT ![w] = @ \cup {u}]
        /\ UNCHANGED <<ghosts, trouble>>
     \/ /\ Trouble
        /\ row # "none"
        /\ ghosts' = ghosts \cup {u}
        /\ UNCHANGED fetched
  /\ UNCHANGED <<queue, kind, row, linked, units, held, tabs, at, task, stored,
                 spoiled, late>>

RereadDone(w) ==
  /\ at[w] = "reread"
  /\ wanted[w] = {}
  /\ GoTo(w, "next")
  /\ UNCHANGED <<queue, kind, import, tabs, locals, trouble>>

(* fetch_units: the whole work in one request. *)
FetchAll(w) ==
  /\ at[w] = "fetch"
  /\ fetched' = [fetched EXCEPT ![w] = Units]
  /\ GoTo(w, "next")
  /\ UNCHANGED <<queue, kind, import, tabs, task, stored, wanted, spoiled, late,
                 trouble>>

FetchFails(w) ==
  /\ at[w] = "fetch"
  /\ Trouble
  /\ \E s \in {"unsaved-transient", "unsaved-fatal"} : GoTo(w, s)
  /\ UNCHANGED <<queue, kind, import, tabs, locals>>

(* The units are taken in the order of the source. *)
Current(w, u) == u \in fetched[w] /\ \A v \in fetched[w] : u <= v

Skip(w, u) ==
  /\ at[w] = "next"
  /\ Current(w, u)
  /\ ~Cancelled(w)
  /\ u \in stored[w]
  /\ fetched' = [fetched EXCEPT ![w] = @ \ {u}]
  /\ UNCHANGED <<queue, kind, import, tabs, at, task, stored, wanted, spoiled, late,
                 trouble>>

(* Mutant of Begin: the row is asked once, before the first unit. *)
BeginUnasked(w, u) ==
  /\ at[w] = "next"
  /\ Current(w, u)
  /\ ~Cancelled(w) \/ fetched[w] # Units
  /\ u \notin stored[w]
  /\ GoTo(w, "put")
  /\ UNCHANGED <<queue, kind, import, tabs, locals, trouble>>

Begin(w, u) ==
  /\ at[w] = "next"
  /\ Current(w, u)
  /\ ~Cancelled(w)
  /\ u \notin stored[w]
  /\ GoTo(w, "put")
  /\ UNCHANGED <<queue, kind, import, tabs, locals, trouble>>

(* put and reference: the body is in the blob store and the item owns it. *)
PutUnit(w, u) ==
  /\ at[w] = "put"
  /\ Current(w, u)
  /\ held' = held \cup {u}
  /\ late' = [late EXCEPT ![w] = IF Cancelled(w) THEN @ + 1 ELSE 0]
  /\ GoTo(w, "record")
  /\ UNCHANGED <<queue, kind, row, linked, units, ghosts, tabs, task, stored, wanted,
                 fetched, spoiled, trouble>>

PutFails(w) ==
  /\ at[w] = "put"
  /\ Trouble
  /\ GoTo(w, "note")
  /\ UNCHANGED <<queue, kind, import, tabs, locals>>

(* Mutant of UnitState: the row is written as the unit was meant to end. *)
UnitStored(w) == "stored"

(* "stored" after a put, "failed" after a failed one. *)
UnitState(w) == IF at[w] = "record" THEN "stored" ELSE "failed"

(* upsert_import_unit, whatever the row said before.  Without the import's   *)
(* row the foreign key refuses it.                                          *)
RecordUnit(w, u) ==
  /\ at[w] \in {"record", "note"}
  /\ Current(w, u)
  /\ row # "none"
  /\ units' = [units EXCEPT ![u] = UnitState(w)]
  /\ spoiled' = [spoiled EXCEPT ![w] = @ \/ at[w] = "note"]
  /\ fetched' = [fetched EXCEPT ![w] = @ \ {u}]
  /\ GoTo(w, "next")
  /\ UNCHANGED <<queue, kind, row, linked, ghosts, held, tabs, task, stored, wanted,
                 late, trouble>>

(* A statement of store_units fails: the rows, the check of the job, the     *)
(* reference, the unit's row.  The last always does once the import's row is *)
(* gone.                                                                    *)
StoreFails(w) ==
  /\ at[w] \in {"list", "reread", "next", "put", "record", "note"}
  /\ IF row = "none" /\ at[w] \in {"record", "note"} THEN UNCHANGED trouble ELSE Trouble
  /\ GoTo(w, "unsaved-transient")
  /\ UNCHANGED <<queue, kind, import, tabs, locals>>

LoopDone(w) ==
  /\ at[w] = "next"
  /\ fetched[w] = {}
  /\ GoTo(w, IF spoiled[w] THEN "unsaved-transient" ELSE "finish")
  /\ UNCHANGED <<queue, kind, import, tabs, locals, trouble>>

Failing == [s \in {"unsaved-transient", "unsaved-fatal", "unsaved-cancelled"} |->
              CASE s = "unsaved-transient" -> "transient"
                [] s = "unsaved-fatal"     -> "fatal"
                [] s = "unsaved-cancelled" -> "cancelled"]

(* fail_import, whatever the error was: a cancellation too. *)
FailImport(w) ==
  /\ at[w] \in DOMAIN Failing
  /\ RowTo("failed")
  /\ GoTo(w, Failing[at[w]])
  /\ UNCHANGED <<queue, kind, linked, units, ghosts, held, tabs, locals, trouble>>

Finish(w) ==
  /\ at[w] = "finish"
  /\ RowTo("completed")
  /\ GoTo(w, "ok")
  /\ UNCHANGED <<queue, kind, linked, units, ghosts, held, tabs, locals, trouble>>

(* record_outcome: the verdict counts for a worker that still holds the row; *)
(* a transient one is tried again while attempts are left.                  *)
Settle(w) ==
  /\ at[w] \in Verdicts
  /\ IF holder[task[w]] # w \/ at[w] = "cancelled"
     THEN UNCHANGED queue
     ELSE \/ Queue!Settle(task[w]) /\ phase'[task[w]] = (IF at[w] = "ok" THEN "succeeded" ELSE "failed")
          \/ at[w] = "transient" /\ Queue!GiveBack({task[w]})
  /\ GoTo(w, "idle")
  /\ UNCHANGED <<kind, import, tabs, locals, trouble>>

-----------------------------------------------------------------------------
(* A worker process is killed; its row stays held until the lease runs out. *)
Kill(w) ==
  /\ at[w] # "idle"
  /\ Trouble
  /\ GoTo(w, "idle")
  /\ UNCHANGED <<queue, kind, import, tabs, locals>>

(* The lease runs out under a living worker, or after a dead one. *)
LeaseEnds(j) ==
  /\ phase[j] = "held"
  /\ IF \E w \in Workers : task[w] = j /\ at[w] # "idle"
     THEN Trouble
     ELSE UNCHANGED trouble
  /\ Queue!GiveBack({j})
  /\ UNCHANGED <<kind, import, tabs, runs>>

(* An operator retries a finished queue row. *)
Reopen(j) ==
  /\ Trouble
  /\ Queue!Reopen(j)
  /\ late' = [w \in Workers |-> IF task[w] = j THEN 0 ELSE late[w]]
  /\ UNCHANGED <<kind, import, tabs, at, task, stored, wanted, fetched, spoiled>>

(* purge_terminal: the DELETE of a queue row cascades to the import it is    *)
(* linked to and on to its units.  The library item and its references stay. *)
Purge(S) ==
  /\ S # {}
  /\ Trouble
  /\ Queue!Forget(S)
  /\ IF linked \in S
     THEN row' = "none" /\ units' = [u \in Units |-> "none"] /\ ghosts' = {}
     ELSE UNCHANGED <<row, units, ghosts>>
  /\ UNCHANGED <<kind, linked, held, tabs, runs>>

Request(t) ==
  \/ \E j \in Jobs : PostStart(t, j) \/ PostRetry(t, j)
  \/ InsertImport(t) \/ AskCancel(t) \/ CancelRow(t) \/ CancelJob(t)
  \/ AskRetry(t) \/ MarkQueued(t) \/ RequestDies(t)

Run(w) ==
  \/ \E j \in Jobs : Take(w, j)
  \/ FindImport(w) \/ Refuse(w) \/ StartRunning(w)
  \/ OriginGone(w) \/ RunFails(w) \/ Preview(w)
  \/ ListUnits(w) \/ SeeCancel(w) \/ RereadDone(w) \/ FetchAll(w) \/ FetchFails(w)
  \/ \E u \in Units : Reread(w, u) \/ Skip(w, u) \/ Begin(w, u)
                      \/ PutUnit(w, u) \/ RecordUnit(w, u)
  \/ PutFails(w) \/ StoreFails(w) \/ LoopDone(w) \/ FailImport(w) \/ Finish(w)
  \/ Settle(w) \/ Kill(w)

Next ==
  \/ \E t \in Tabs : Request(t)
  \/ \E w \in Workers : Run(w)
  \/ \E j \in Jobs : LeaseEnds(j) \/ Reopen(j)
  \/ \E S \in SUBSET Jobs : Purge(S)

Spec == Init /\ [][Next]_vars

-----------------------------------------------------------------------------
(* An import that stores bodies says "completed" only when every unit of the *)
(* work has its body in the library, whatever runs, retries, crashes,       *)
(* cancellations and purges came before: where the source serves whole      *)
(* works, so that every run goes through all the units (run, store_units).  *)
BulkImportHoldsEveryBody == row = "completed" /\ keeps /\ ~perUnit => held = Units

(* The same of every source.  "On a retry, only the units that failed are    *)
(* fetched again" takes for granted that a unit without a row was stored.    *)
CompletedHoldsEveryBody == row = "completed" /\ keeps => held = Units

(* The row of a unit says "stored" only when the body is referenced: what a   *)
(* later run skips is really there (store_units).                           *)
StoredRowsHaveBodies == \A u \in Units : units[u] = "stored" => u \in held

(* "Between units of work: a ten-minute import that ignores a cancel is a    *)
(* lie about what cancelling does": once its queue row is cancelled a run    *)
(* stores at most the unit it was at.                                       *)
CancelStopsWithinAUnit == \A w \in Workers : late[w] <= 1
=============================================================================
