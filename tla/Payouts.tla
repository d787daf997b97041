------------------------------- MODULE Payouts -------------------------------
(***************************************************************************)
(* The weekly payout to authors: the pass that pays (run_for_window of      *)
(* crates/app/src/payout_recalc.rs, payout_work of                          *)
(* crates/db/src/payout_store.rs, post_transaction of                       *)
(* crates/db/src/economy.rs) and the maintenance pass that queues it        *)
(* (crates/app/src/worker.rs).                                              *)
(*                                                                         *)
(* Days are numbered from a Monday.  The signals of a work on a day (views,  *)
(* finished readings, ratings, bookmarks) are one read.  The base of a       *)
(* payout stays under the cap, so the amount is a function of the reads      *)
(* counted: the model keeps those.  A read can be changed long after its day: *)
(* a bookmark or a reading status is deleted, stars are edited, finished_at  *)
(* is cleared, and an import of a shelf writes an old one.                   *)
(***************************************************************************)
EXTENDS Naturals, FiniteSets

CONSTANTS
  PayWorks,     \* works that can earn
  PayWorkers,   \* the queue's workers
  WeekDays,     \* days in a week (7 in the code)
  WindowDays,   \* WINDOW_DAYS
  BatchLimit,   \* BATCH_LIMIT
  LastDay,      \* bound: the days of the model
  MaxReads,     \* bound: the reads there are at a time
  MaxAmends     \* bound: works and days whose reads are changed afterwards

ASSUME PayoutAssumption ==
  /\ WeekDays \in Nat \ {0} /\ WindowDays \in Nat \ {0}
  /\ BatchLimit \in Nat /\ LastDay \in Nat /\ LastDay >= WeekDays
  /\ MaxReads \in Nat /\ MaxAmends \in Nat

Days == 0..LastDay

VARIABLES
  day,      \* the clock
  reads,    \* reader signals: work and day
  job,      \* the queue row keyed payout:{boundary}, per boundary
  worker,   \* the worker that holds it, or none
  pass,     \* each worker's pass: where it is, its row, window end and works left
  ledger,   \* credit_transactions: the key (work and window end), the reads counted
  amended   \* history: reads that were changed when their day was over

payVars == <<day, reads, job, worker, pass, ledger, amended>>

(* Mutant of Boundary: the window ends now. *)
BoundaryNow(d) == d

(* closed_window: the Monday of the current week is the exclusive end. *)
Boundary(d) == d - (d % WeekDays)

Window(until) == {d \in Days : d < until /\ d + WindowDays >= until}

Signals(w, until) == {d \in Window(until) : <<w, d>> \in reads}

NoPass == [at |-> "idle", row |-> 0, until |-> 0, todo |-> {}, work |-> {}, counted |-> {}]

PayTypeOK ==
  /\ day \in Days
  /\ reads \subseteq PayWorks \X Days /\ amended \subseteq PayWorks \X Days
  /\ job \in [Days -> {"none", "waiting", "held", "over"}]
  /\ worker \in [Days -> SUBSET PayWorkers]
  /\ pass \in [PayWorkers -> [at : {"idle", "pay", "insert"}, row : Days, until : Days,
                              todo : SUBSET PayWorks, work : SUBSET PayWorks,
                              counted : SUBSET Days]]
  /\ \A x \in ledger : x.work \in PayWorks /\ x.until \in Days /\ x.counted \subseteq Days

(* A week of reading lies behind. *)
PayInit ==
  /\ day = WeekDays
  /\ reads \in SUBSET (PayWorks \X (0..(WeekDays - 1)))
  /\ Cardinality(reads) <= MaxReads
  /\ job = [b \in Days |-> "none"]
  /\ worker = [b \in Days |-> {}]
  /\ pass = [w \in PayWorkers |-> NoPass]
  /\ ledger = {} /\ amended = {}

PayDay ==
  /\ day < LastDay
  /\ day' = day + 1
  /\ UNCHANGED <<reads, job, worker, pass, ledger, amended>>

(* A reader is at work: what they do is stamped with the time they do it. *)
PayRead(w) ==
  /\ reads' = reads \cup {<<w, day>>}
  /\ Cardinality(reads') <= MaxReads
  /\ UNCHANGED <<day, job, worker, pass, ledger, amended>>

(* A read is withdrawn, edited in place, or written with the date of an import. *)
PayAmend(w, d) ==
  /\ d <= day
  /\ reads' \in {reads \cup {<<w, d>>}, reads \ {<<w, d>>}}
  /\ Cardinality(reads') <= MaxReads
  /\ amended' = IF d < day THEN amended \cup {<<w, d>>} ELSE amended
  /\ Cardinality(amended') <= MaxAmends
  /\ UNCHANGED <<day, job, worker, pass, ledger>>

(* maintenance_pass: one row per closed week, as long as that row exists. *)
PayQueue ==
  /\ job[Boundary(day)] = "none"
  /\ job' = [job EXCEPT ![Boundary(day)] = "waiting"]
  /\ UNCHANGED <<day, reads, worker, pass, ledger, amended>>

(* purge_terminal_jobs forgets the row, so the week can be queued again. *)
PayPurge(b) ==
  /\ job[b] = "over"
  /\ job' = [job EXCEPT ![b] = "none"]
  /\ UNCHANGED <<day, reads, worker, pass, ledger, amended>>

Earning(until) == {w \in PayWorks : Signals(w, until) # {}}

(* A worker takes the row, computes the window from its own clock and lists   *)
(* the works with earnings: any BatchLimit of them, the query has no order.   *)
PayTake(k, b) ==
  /\ pass[k].at = "idle"
  /\ \A c \in Days : k \notin worker[c]
  /\ job[b] = "waiting"
  /\ job' = [job EXCEPT ![b] = "held"]
  /\ worker' = [worker EXCEPT ![b] = {k}]
  /\ LET until == Boundary(day)
         works == Earning(until) IN
     \E todo \in SUBSET works :
       /\ IF Cardinality(works) <= BatchLimit THEN todo = works
          ELSE Cardinality(todo) = BatchLimit
       /\ pass' = [pass EXCEPT ![k] = [at |-> "pay", row |-> b, until |-> until,
                                       todo |-> todo, work |-> {}, counted |-> {}]]
  /\ UNCHANGED <<day, reads, ledger, amended>>

(* payout_work reads the signals, then post_transaction looks for the key. *)
PayFind(k, w) ==
  LET until == pass[k].until IN
  /\ pass[k].at = "pay"
  /\ w \in pass[k].todo
  /\ IF \E x \in ledger : x.work = w /\ x.until = until
     THEN pass' = [pass EXCEPT ![k].todo = @ \ {w}]
     ELSE pass' = [pass EXCEPT ![k].todo = @ \ {w}, ![k].work = {w}, ![k].at = "insert",
                             ![k].counted = Signals(w, until)]
  /\ UNCHANGED <<day, reads, job, worker, ledger, amended>>

(* Mutant of KeyIsFree: credit_transactions without its unique index. *)
KeyUnchecked(w, until) == w \in PayWorks

(* The unique index on the key. *)
KeyIsFree(w, until) == ~\E x \in ledger : x.work = w /\ x.until = until

(* The INSERT; a conflict is an error like any other. *)
PayInsert(k, w) ==
  /\ pass[k].at = "insert"
  /\ pass[k].work = {w}
  /\ IF KeyIsFree(w, pass[k].until)
     THEN ledger' = ledger \cup {[work |-> w, until |-> pass[k].until, by |-> k,
                                  counted |-> pass[k].counted]}
     ELSE UNCHANGED ledger
  /\ pass' = [pass EXCEPT ![k].at = "pay", ![k].work = {}, ![k].counted = {}]
  /\ UNCHANGED <<day, reads, job, worker, amended>>

(* A payout fails: the pass logs it and goes on to the next work. *)
PayFails(k, w) ==
  /\ pass[k].at \in {"pay", "insert"}
  /\ IF pass[k].at = "pay" THEN w \in pass[k].todo ELSE pass[k].work = {w}
  /\ pass' = [pass EXCEPT ![k].todo = @ \ {w}, ![k].work = {}, ![k].counted = {},
                        ![k].at = "pay"]
  /\ UNCHANGED <<day, reads, job, worker, ledger, amended>>

(* The pass succeeds whatever failed in it, and settles the row it holds. *)
PayDone(k) ==
  /\ pass[k].at = "pay"
  /\ pass[k].todo = {}
  /\ pass' = [pass EXCEPT ![k] = NoPass]
  /\ LET b == pass[k].row IN
     IF worker[b] = {k}
     THEN job' = [job EXCEPT ![b] = "over"] /\ worker' = [worker EXCEPT ![b] = {}]
     ELSE UNCHANGED <<job, worker>>
  /\ UNCHANGED <<day, reads, ledger, amended>>

(* A worker is killed. *)
PayKill(k) ==
  /\ pass[k].at # "idle"
  /\ pass' = [pass EXCEPT ![k] = NoPass]
  /\ UNCHANGED <<day, reads, job, worker, ledger, amended>>

(* The lease runs out under a slow pass or after a dead one. *)
PayExpire(b) ==
  /\ job[b] = "held"
  /\ job' = [job EXCEPT ![b] = "waiting"]
  /\ worker' = [worker EXCEPT ![b] = {}]
  /\ UNCHANGED <<day, reads, pass, ledger, amended>>

PayNext ==
  \/ PayDay \/ PayQueue
  \/ \E w \in PayWorks : PayRead(w) \/ \E d \in Days : PayAmend(w, d)
  \/ \E b \in Days : PayPurge(b) \/ PayExpire(b)
  \/ \E k \in PayWorkers : \/ \E b \in Days : PayTake(k, b)
                           \/ \E w \in PayWorks : PayFind(k, w) \/ PayInsert(k, w)
                                                  \/ PayFails(k, w)
                           \/ PayDone(k) \/ PayKill(k)

PaySpec == PayInit /\ [][PayNext]_payVars

-----------------------------------------------------------------------------
(* What was counted for a window are its reads, but for those that were        *)
(* changed when their day was over.                                         *)
Tallied(w, until, counted) ==
  /\ counted \subseteq Window(until)
  /\ \A d \in Window(until) :
       <<w, d>> \notin amended => (d \in counted <=> <<w, d>> \in reads)

(* A work is paid at most once for a window, though passes overlap, die, are  *)
(* repeated and are queued again after a purge (post_transaction); and what   *)
(* is read while a pass runs, or after it, belongs to another window          *)
(* (closed_window), so that the payout differs from the window's reads only   *)
(* by those that readers change or backdate when their day is over.  Such a    *)
(* change after the payout is never made good: the code has no correction.    *)
WindowPaidOnce ==
  /\ \A x, y \in ledger : x.work = y.work /\ x.until = y.until => x = y
  /\ \A x \in ledger : Tallied(x.work, x.until, x.counted)

(* A window is longer than a week, so a read is paid more than once; but no   *)
(* more often than there are Mondays in a window, however many passes are     *)
(* made, repeated, late or killed (closed_window, the key of payout_work).    *)
(* A read that is dated anew is another one.                                *)
ReadPaidBoundedly ==
  \A r \in reads :
    Cardinality({x \in ledger : x.work = r[1] /\ r[2] \in x.counted}) * WeekDays
      < WindowDays + WeekDays
=============================================================================
