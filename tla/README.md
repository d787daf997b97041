# Lorehaven in TLA+

Lorehaven (the crates are still called `darkhold`) is a self-hosted server for
fan fiction: a Rust HTTP application over SQLite or PostgreSQL, a background
worker that may run inside the server or beside it, a content-addressed file
store, and a Svelte client. This directory holds TLA+ models of the parts whose
correctness depends on the order in which several processes take their steps,
the TLC configurations that check them on small instances, and TLAPS proofs of
the results that matter most.

## 1. Inventory

State is in the database unless said otherwise; every HTTP handler and every
worker is a process of its own, and each SQL statement (or explicit transaction)
is where they interleave. Components marked *modelled* have a module below.

| component | state | operations | interacts with | what is hard, and what must hold |
|---|---|---|---|---|
| job queue and worker (`db/jobs.rs`, `app/worker.rs`) — *modelled* | `jobs`, `job_attempts`; in each worker its claimed job | enqueue, claim, attempt, progress, complete, fail, cancel, retry, sweep, purge | every service enqueues; handlers call all of it | leases against slow or dead workers; outcome and attempt in two statements; cancel against completion. A row has at most one holder, a finished job stays finished, history explains outcomes, every job settles |
| outbox and delivery (`db/outbox.rs`, `worker.rs`, `server.rs`, `webhook_delivery.rs`) — *modelled* | `outbox_events`; in each worker its batch | enqueue in the cause's transaction, pending, handler, mark | publication writes it; handlers enqueue jobs, delete index rows, post webhooks | no claim on a row, crashes before the mark, handlers that are missing. Marks are earned and final, effects repeat only from stale batches, events are delivered |
| blob storage (`db/storage.rs`) — *modelled* | `content_blobs`, `content_references`, files | put, reference, unreference, delete if unreferenced | imports, exports, narration, derivatives, collection job | database and file system change in separate steps. A referenced blob has its row and its whole bytes |
| works, units, revisions, publication (`db/content.rs`, `routes/works.rs`) — *partly modelled* | `works`, `units`, `revisions`, `publication_events`; the page in each author's browser | add, save, rename, restore, delete and reorder units; publish, withdraw, edit a work | outbox, contributors | optimistic versions taken from pages read earlier; checks made before the transaction. Revisions are dense and never bury an unread one; whatever passes the version check was decided about the work as it is |
| search index (`db/search.rs`, reindex handler) | `works_index`, `works_index_terms` | rebuild, deindex, query | outbox, job queue | index lags behind or is overtaken; idempotency keys outlive their purpose |
| lending (`db/lending.rs`, `routes/lending.rs`) — *modelled* | `work_loans` | lend, revoke; a loan ends by itself | – | two counts and a check before an insert, a count that fails taken for zero. How far concurrent requests pass the limits; no running loan carries an expiry stamp |
| imports (`app/imports.rs`, `routes/imports.rs`, `db/imports.rs`) — *partly modelled* | `import_jobs`, `import_units`, bodies' references; each run's locals | start, run, cancel, retry, operator's retry, purge | job queue, blobs, scrapers | two state machines for one piece of work, reruns beside a run that lost its lease. Stored rows have bodies, a completed import of a source fetched whole has them all, a cancelled one stops within a unit |
| exports (`app/exports.rs`, `bulk_export.rs`, `routes/exports.rs`, `db/exports.rs`) — *partly modelled* | `export_jobs`, `download_grants`, the file's reference | request, run, link, download, forget, sweep, purge | job queue, blobs | removal against a running job or a download. An export that names a file has it; a link opens once |
| media resilience, preservation | media references, mirrors, rechecks | fetch, recheck, repair | job queue, outside hosts | retries against outside failure |
| retention (`db/retention.rs`, `db/retention_proposals.rs`, `routes/retention*.rs`) — *modelled* | policy, overrides, proposals, ballots, changes | propose, vote, settle, answer, override, set | job queue (settling pass) | write, record and close are three statements of two kinds of actors. Passed means applied, a commit had its quorum, decisions stay |
| bounties, monetization, payouts (`db/bounties.rs`, `routes/monetization.rs`, `payout_recalc.rs`) — *partly modelled*; ledger, holds and caps | bounties and pledges; prices, entitlements, earnings; the payout ledger | contribute, claim; price, buy, tip; the weekly pass | job queue (weekly pass) | read, then write unconditionally; keys as the only guard against a second post. No claim without funds, one sale per reader, one payout per window |
| gift exchanges, adoption, translation, narration editions | small state machines | sign-up, claim, review, close | job queue | claims of two actors at once |
| reader body copies (`db/reader_body_copies.rs`, `routes/reader_body_copies.rs`, `routes/reader_body_fetch.rs`) — *partly modelled* | `reader_body_copies` | ask, fetch, settle | job queue, outside hosts | the row is upserted by every request and settled by jobs that may have lost their lease. A text once given stays |
| collaboration (`db/collaboration.rs`, `routes/collaborators.rs`) — *partly modelled* | `collaboration_invites`, `work_contributors` | invite, answer, revoke, change a role, remove | works | contributors read before the statement that depends on them. Nobody joins but by an invitation that was open |
| directory entries moved or removed by vote (`routes/directory.rs`, `db/category_governance.rs`) — *partly modelled* | proposals, ballots, the entry | propose, vote, apply, delete | – | ballots counted in concurrent transactions, the decision applied after the commit. No change without its quorum |
| governance, votes, roadmap, moderation, trust | proposals, ballots, sanctions, reports, levels | vote, decide, act, appeal | – | thresholds read before they are acted on |
| identity, sessions, erasure, secrets | accounts, sessions, keys | sign in, rotate, erase | nearly everything | erasure is many statements over many tables |
| rate limiter | buckets in memory | check | HTTP | refill arithmetic, shared map |
| community, library, reading, taxonomy, discovery, taste, analytics, federation, scrapers, decisions | rows of their own | reads and single-row writes | – | data rather than control |
| configuration, migrations, CLI, frontend | – | – | – | wiring |

`PROJECT.json` lists each of these with its files and its status, and the
hazards of the code, each at its line.

## 2. Modules

| module | models | extends / uses |
|---|---|---|
| `JobQueue` | `jobs.rs`, `run_once`, `record_outcome`, `maintenance_pass`, cancel and retry | – |
| `JobLife` | what the queue promises: a job waits, is held by one worker, is finished once | instantiated by `JobQueue` |
| `JobQueueProofs` | theorems about both | `JobQueue`, `FiniteSetTheorems`, `TLAPS` |
| `BlobStore` | `storage.rs` for one checksum | – |
| `BlobStoreProofs` | theorems | `BlobStore`, `TLAPS` |
| `Outbox` | `outbox.rs`, `deliver_outbox` | – |
| `OutboxProofs` | theorems | `Outbox`, `TLAPS` |
| `Manuscript` | units and revisions of `content.rs`, `update_unit` and `restore_revision` of `routes/works.rs` | – |
| `ManuscriptProofs` | theorems | `Manuscript`, `TLAPS` |
| `Publication` | `publish_work`, `withdraw_work` and `update_work`, with the routes that call them | – |
| `PublicationProofs` | theorems | `Publication`, `TLAPS` |
| `Imports` | one import: `imports.rs` of both crates and its routes | `JobLife` |
| `Exports` | one export, single or bulk, its file and its link | `JobLife` |
| `Lending` | `lend_work`, `revoke_loan` | – |
| `Bounties` | contributions to a crowdfunded bounty and its claim | – |
| `Sales` | pricing, purchase and tip of one work | – |
| `Payouts` | `payout_recalc.rs` and the pass that queues it | – |
| `Retention` | the setting, its proposals, the settling pass, the operator | – |
| `BodyCopies` | a reader's copy of an external text and the job that fetches it | `JobLife` |
| `Contributors` | invitations to a work and the roles they give | – |
| `EntryModeration` | proposals to move or remove a directory's entry | – |
| `PeopleProofs` | theorems about `Contributors`, `EntryModeration`, `Lending`, `Bounties`, `Sales` | these, `FiniteSetTheorems`, `TLAPS` |
| `HandlersProofs` | theorems about `Imports`, `Exports`, `Payouts`, `Retention`, `BodyCopies`, and their composition | `MCHandlers`, `FiniteSetTheorems`, `TLAPS` |
| `MCJobQueue`, `MCBlobStore`, `MCOutbox`, `MCImports`, `MCRetention` | values for TLC | their component |
| `MCWorks` | what requests do to a work | `Manuscript`, `Publication`, `BlobStore`, `Lending`, `Bounties`, `Sales`, `Contributors`, `EntryModeration` |
| `MCHandlers` | what the queue's jobs do | `Imports`, `Exports`, `Payouts`, `Retention`, `BodyCopies` |
| `WorksProofs` | theorems about the composition `MCWorks` | `MCWorks`, `ManuscriptProofs`, `PublicationProofs`, `BlobStoreProofs`, `PeopleProofs` |

`MCWorks` and `MCHandlers` put components side by side that share no variable.
Interleaving them would multiply their states and show nothing new, so `part`
chooses one of them and the others stay at rest.

Definitions named as a mutant in their comment (`CancelKeepsLease`, `DueAgain`,
...) are plausible mistakes in one action. No specification uses them; each
stands beside the action it would replace, and replacing it breaks the property
`PROJECT.json` names.

### JobQueue

One action is one SQL statement. `state`, `attempts`, `owner` are the columns;
`lease`, `delay` and `kept` are the time left until `lease_expires_at`,
`available_at` and the end of the retention, counted down by `Tick`. `making`
holds the open rows of `job_attempts`, `history` the outcomes of the closed
ones. `pc` follows a worker through `run_once`:

    idle -> (claiming -> reading ->) starting -> logging -> handling
         -> completing | failing -> recording -> closing -> idle

Deliberate points:

- `ClaimNext` is SQLite's claim, one statement under the write lock. `PickRow`
  and `TakeRow` are PostgreSQL's: the subqueries (fairness, the bulk cap) are
  read with the row that is locked, the `UPDATE` comes later, and rows locked by
  another claim are skipped. `ReadRow` is the `SELECT` of the claimed row, which
  PostgreSQL's branch runs after the claim has committed and SQLite's inside it.
- Guards are exactly the statements': `complete` and `fail` check the owner,
  `attempt_started` and `progress` do not; `close_attempt` runs whatever
  `complete` matched.
- The fairness rule and the bulk cap count rows in state `leased`, as the SQL does.
- A handler is its return value, its calls of `progress` and its look at
  `is_cancelled`, for the kinds that make them (`Reporting`).
- A worker identity is fresh per process, so a restart is a new member of
  `Workers` and `Stop` is for good.

Left out: `heartbeat` (no caller), `resource_classes` (always `None`), the order
by `available_at` among equal priorities (left open, which allows more), the
idempotency key (a replay inserts nothing, a stutter), retry jitter (a delay is
any number of ticks up to `RetryDelay`), the `checkpoint` and progress values.

### BlobStore

One checksum; blobs of different bytes share nothing. `row` and `refs` are the
two tables, `file` the bytes at the final path, `tmp` those at the temporary
path of each process, whose name is the checksum and the process id. A file being
written is represented by the operation that truncated it last: `WriteBytes`
completes it wherever it has been renamed to meanwhile, as a write through an
open handle does. `Crash` kills all operations of a process.
`delete_if_unreferenced` is three steps: the `DELETE`'s check (`CheckReferences`), its
write and commit (`DeleteRow`), and the file (`RemoveFile`). With `Postgres` FALSE the
database is SQLite, which has one writer at a time, and nothing is written to it
between the first two. With `Postgres` TRUE the check is a snapshot, and a
reference may commit after it: the write then takes the row, and by the schema's
`ON DELETE CASCADE` the reference too. `robbed` remembers that a `remove_file` met
bytes that were put after its `DELETE`.

### Outbox

Events are numbered by `created_at`. `Pending` reads the oldest due rows; the
loop then defers, or runs the handler and writes a mark. `effects` counts how
often the handler's side effect happened. `Handles` says which topics a worker
has a handler for: the server's worker has three, a worker process started on
its own has none, and `unit.revised`, `visibility.deindex` and `rating.reindex`
have none anywhere. A webhook's post may fail without the handler failing.

### Manuscript

`units` and `revisions` are the tables, `save` the request each browser tab has
open: the version and the revision on its page (`expected`, `over`), and how far
the server has come with it.

    idle -> sent -> numbered -> (renaming ->) idle

`append_revision` is two steps, because on PostgreSQL another transaction may
commit between the `SELECT MAX(revision_number) + 1` and the `INSERT`; the
`UNIQUE` index is the guard `NumberIsFree`. A save is refused on a version that
moved; a restore expects none and moves the pointer anyway. `AddUnit` and
`DeleteUnit` are single statements. Every way a request has of ending without a
write (refused, in conflict, a constraint, a fault, a killed server) is `SaveEnds`.

Left out: titles, the order of units, the spoiler gate, who may edit, and the
word count beyond there being any.

### Publication

One work. `decision` is a tab's publish or withdraw request and `edit` its
`update_work`, each with what was read for it and when:

    decision: idle -> sent -> found -> keyed -> (allowed ->) ready -> idle
    edit:     idle -> sent -> found -> dating -> (delisting ->) idle

The work is loaded, the key looked up, the role checked and the units counted in
statements of their own; only `Decide` is the transaction. `update_work` is
three: the row, its event, and the enqueue of `visibility.deindex`, whose dedupe
key names the version found on reloading. Between any two, units come and go
(`UnitsChange`: what `Manuscript` does, seen from here), roles change, and other
tabs write. The unique index on the key is the second guard of `Decide`.

Left out: the metadata but the title's emptiness and the visibility;
`rating.reindex`, incentives and notices; `write_redistribution`, which only a
test calls; scheduled and deleted works, which nothing in the build writes.

### Imports

One import of a work of two units. `row` is `import_jobs`, `units` the
`import_units` by their source's key, `ghosts` the failed rows keyed by ordinal,
`held` the bodies the library item references. A request is its next statement
(`tab`); a run follows `imports::run` and what it calls:

    idle -> find -> check -> preview -> list -> (reread ->) fetch
         -> next -> put -> record -> ... -> note -> finish -> idle

The queue underneath is `JobLife`, the promise `JobQueue` implements: a worker may
lose its lease at any time (`LoseLease`) and runs on. `perUnit` is the adapter's
capability, `keeps` whether the instance stores bodies. A database error is a
choice at each stage and leaves by the arm the code has for it; `MaxTrouble`
bounds faults, lost leases and operator's retries. The purge of the queue row
cascades to the import.

Left out: credentials, subscriptions to a source, recommendations found on the
way, the titles and order of units, what the fetched text is.

### Exports

`export` is the row of `export_jobs`, `blobs` the rows of `content_blobs`, `disk` the
files, `kept` the references `content_references` keeps for this export, `token` and
`got` the one-time link and what each download came to. A run is

    idle -> find -> start -> produce
         -> put -> look -> write -> insert -> reference -> (tidy ->) record -> idle

with a choice of failure at each statement; the second line stops early when the
bytes are stored already. `remover` is where each deletion is: the reader who
forgets the export, the sweep of old ones, the collection job, and a run whose
reference failed. The first two read the row, delete it, drop the reference and
delete the blob, in the orders the code has. Deleting a blob is the three steps
of `BlobStore`, with the same `Postgres`, so a put may fall between the `DELETE` and
`remove_file`. A rerun may render other bytes, so two checksums. Only a put's
temporary file, which is `BlobStore`'s subject, is left out.

Left out: rendering, devices and deliveries, the per-item rows of a bundle, the
text that is added to an exported work.

### Lending, Bounties, Sales, Payouts

`Lending` keeps of a loan what is left of its window; `lend` is a request between
its counts. `Bounties` keeps the row and, as history, everything contributors
were told is added; a contribution reads the row and later writes back what it
read plus its gift. `Sales` has the price of one work, its purchases' entitlements
and the earnings, keyed as the code keys them: the key is all that stops a second
sale. `Payouts` numbers days from a Monday; a queue row per boundary, a pass that
takes works in batches, and a ledger keyed by work and window end, with the reads
each payout counted instead of the amount. A read is any signal `reader_signals`
counts. Readers make them with the time of the day (`PayRead`), and take them back,
edit them in place or have an import write them with an older date (`PayAmend`);
`amended` remembers those that were changed when their day was over.

### Retention

`policy` and `override` are the setting (one source, chosen by the proposal's
`scope`), `proposal`, `supporters` and `changes` the tables, `settler` each
settling pass (the job's, and the operator's button), `answer` the operator's
request, `ballot` a reader's between check and write:

    pass:   next -> counting -> expiring | writing -> recording -> closing -> next
    answer: sent -> weighed -> writing -> recording -> closing

Time is one flag, whether the window is over. `changes` notes beside the mode that
was recorded the mode that was written, and `carried` which proposals have had
the minimum of supporters: both are history.

Left out: what the lanes and modes mean for a source, notices, and the list of a
source's overrides but the one in question (`write_source_override`'s check and
its upsert are one step here).

### BodyCopies

`copy` is the row of `reader_body_copies` for one reader and one work, `wish` each
request (`Ask`, `WriteRequest`, `ReadBack`, `EnqueueFetch`), `fetcher` each
worker's run of the job:

    idle -> find -> fetch -> ok | transient -> idle

A text is named by the source it came from, which is enough to see whether it is
the one the reader was given. The request's upsert, `Asked`, resets every state
but `ready`; the three outcomes share the guard `state = 'pending'` (`Settled`).
The queue underneath is `JobLife`, and its key makes one row of it per copy until
that row is purged.

### Contributors

`role` is `work_contributors`, `invite` the rows of `collaboration_invites`, and
`request` what a tab's request has decided on the contributors it read (`AskTo...`,
`AskAbout`); its statement is a step of its own and finds whatever has become of
them. `Accept` is the one transaction that writes both tables. The owner is
fixed: no request grants that role or takes it away.

Left out: a request by a co-author (who may manage what the owner may manage, so
no step is added), notices, the message of an invitation.

### EntryModeration

`entry` is one entry, `poll` the proposals on it, `ballots` their votes, `member` the
request each member has open:

    idle -> propose -> idle
    idle -> vote -> counted -> (passed -> apply ->) idle

A ballot is one transaction, in two steps because two of them may overlap on
PostgreSQL, where each counts the ballots of its own snapshot (`Count`) and
writes its own ballot and the verdict (`CommitVote`); SQLite's order is one
of these. The change is made after the commit (`ReadPassed`, `Apply`) and is lost if
the server dies in between. `DeleteEntry` is the operator's, and cascades.

Left out: the standing a member needs, the proposals on categories (the same
code with no caller that fills the table), the vetoes.

## 3. Runs

Passing runs:

| run | bounds | shows |
|---|---|---|
| `queue_two_jobs` | 2 jobs of one reader, 2 workers, lease 1 tick, budget 2 | `LeaseCoherent`, `HolderIsAtWork`, `OpenAttemptIsBeingMade`, `HistoryExplainsOutcome`, `FinishedStaysFinished` |
| `queue_postgres` | a reader's job and one of the system's, 2 workers, two-part claim, operator retries, budget 1 | the proofs' `IndInv`; `JobQueue` implements `JobLife` |
| `queue_settles` | 2 bulk exports under a cap of 1, SQLite, fair, prompt handlers | `BulkCap`, `EveryJobSettles` |
| `outbox_two_workers` | 3 events, one of them unhandled, 2 workers, batch 2, 1 failure each, 1 kill, fair | `DeliveredWasHandled`, `OverIsOver`, `EveryEventIsDelivered` |
| `works` | see below | text: `HistoryIsDense`, `SavesBuildOnWhatWasRead`; publication: `MatchingVersionIsInformed`, `ReplayMeetsTheVersion`; blob: `NeverHalfWritten`, `BytesAreLostOnlyToALateRemoval`, `ReferenceOutlivesCollection`; loans: `LimitsBoundedByRequests`, `ExpiredIsOver`; bounty: `OpenIsFunded`; sales: `PaidOnceForAccess`, `FeeCompletesItsTip`; contributors: `MembershipIsInvited`; entry: `EntryChangesWereVoted` |
| `handlers` | see below | import: `BulkImportHoldsEveryBody`, `StoredRowsHaveBodies`, `CancelStopsWithinAUnit`; export: `NamedFileIsKept`, `LinkOpensOnce`; payouts: `WindowPaidOnce`, `ReadPaidBoundedly`; retention: `PassedWasApplied`, `CommitsWereCarried`, `DecidedStaysDecided`; body copy: `FetchedBodyStays` |

Each module has one type invariant, checked by the run that explores the module
(`works` and `handlers` check the conjunctions `WorksTypeOK` and `HandlersTypeOK`;
`JobQueue`'s is a conjunct of `IndInv`).

Violation runs, each a sentence of the repository the code does not keep (the
quotations and lines are under "findings" in `PROJECT.json`):

| run | what happens |
|---|---|
| `queue_retry_after_cancel` | cancel and retry put two live workers on one row |
| `blob_shared_temporary` | two puts in one process expose half a file |
| `blob_lost_bytes` | a collection removes bytes stored again after its `DELETE` |
| `outbox_blocked` | a batch of unhandled events starves all others |
| `imports_per_unit` | an import fetched unit by unit completes without a body: a failed unit is noted under an ordinal, and the rerun skips or forgets it |
| `retention_override` | an override of a source's proposal sets the readers' mode and records the operator's |

Other sentences the models contradict, for which no run is kept. Each is a
consequence of the definitions named, and is listed so that nobody reads a
passing run as denying it:

- `jobs.rs:269` and `worker.rs:70` speak of one leased *or running* job per
  requester; `RequesterBusy` counts leased rows, so a reader's second job starts
  once the first reports progress.
- `worker.rs:239` says only a killed process leaves a lease behind; nothing calls
  `heartbeat`, so a handler slower than its lease has its row swept (`Expired`).
- `jobs.rs:730` says a kill charges no attempt; `CountAttempt` has charged it.
- `worker.rs:68` caps bulk jobs across all workers; a cancelled export leaves
  `LeasedBulk` while its handler runs on, and two PostgreSQL claims
  (`PickRow`) may count the same leases.
- `spec.md:1699` has unreferenced blobs collected eventually; a crash between
  `Rename` and `InsertRow`, or `DeleteRow` and `RemoveFile`, leaves a file
  without a row, and collectors list rows.
- `storage.rs:341-343` has a reference that arrives after the check find "a blob row
  that is already gone". On SQLite it does. On PostgreSQL the `NOT EXISTS` is a
  snapshot: a reference that commits after it, and before the `DELETE` has locked the
  row, finds the row, and the cascade (`0005_jobs_and_storage.sql` of `postgres`, line 68) deletes
  it with the row. `ReferenceOutlivesCollection` and `NamedFileIsKept` are therefore said
  of SQLite; with `Postgres = TRUE` TLC finds the first violated in nine states.
- `outbox.rs:3` speaks of effects that happen exactly once; no row is claimed, so
  two workers may both run `HandlerSucceeds` for one event.
- `jobs.rs:535-537` says that writing an outcome after a lost lease "would
  attribute one worker's work to another"; `Complete` spares the row and
  `CloseAttempt` records `succeeded` all the same.
- `webhook_delivery.rs:78` says "retries handled by outbox"; after `PostFails` the
  handler has returned `Ok` and `MarkDelivered` follows.
- `content.rs:13-15` and `1663-1664` put the contributor and readiness checks in
  the transaction; `ChangeRole` or `UnitsChange` may come between `CheckRole` or
  `CheckReadiness` and `Decide`, which publishes a work with nothing to read, or
  by someone who has been removed.
- `content.rs:845` writes an update's event "in the same breath as the change"; a
  kill between `EditWork` and `DateEdit` (`EditEnds`) loses it, and one before `Delist`
  leaves a hidden work in the index.
- `content.rs:5` has every mutating statement carry the expected version;
  `DeleteUnit` and a restore's `SaveRevision` carry none.
- `works.rs:1245-1247` saves the text first because the rename "would conflict
  with itself"; it does conflict with the version its own text counted up, so
  `RenameUnit` never follows `SaveRevision`, and the request succeeds without it.

Imports:

- `routes/imports.rs:1003` has the import's id exist before its row of the queue;
  the row is enqueued before the import is inserted, and a worker that takes it at
  once finds no import and fails it for good.
- A cancellation is overwritten by a run's next `running`, `failed` or `completed`;
  a retry's new queue row is not noted on the import, so a later cancel reaches the
  old one, though `routes/imports.rs:1421` has "the worker stops between units".
- `imports.rs:392-397` means to leave no import without an end; a run that lost
  its lease, or a cancelled row, leaves it `running`.
- `0006_imports.sql:8` calls `import_jobs` permanent; the purge of the queue row
  cascades to it.
- A failed unit's row is keyed `ordinal-N` and no later success replaces it.

Exports:

- `db/exports.rs:492-495` has the next sweep collect an orphaned file; the sweep
  lists rows, so a failure after `routes/exports.rs:302-304` has deleted one leaks
  its file for ever. A purge of the queue row cascades and leaks it likewise.
- A removal killed after the reference is dropped leaves a ready export without
  its file to the collection.
- A transient failure writes `failed`, and the retry it asked for finds that and
  returns `Ok`. A cancelled job leaves its export `queued` or `running`; a worker
  whose lease has lapsed may move a ready export back.

Loans, bounties, sales and payouts:

- `0029_lending.sql` never multiplies copies beyond the cap; concurrent requests
  pass it (`LimitsBoundedByRequests` says by how many), and a count that fails is
  taken for zero. Two loans may carry one copy number.
- A contribution written back over another is lost; one written back over a claim
  reopens the bounty; the claim's route answers `claimed: true` whatever it did.
- A crash between `grant_entitlement` and `post_earnings` leaves a reader with
  access and an author without pay: the retry finds the entitlement and posts
  nothing. A second tip of the same amount is swallowed by its
  key. Two purchases at once may answer one price and book another.
- `payout_recalc.rs` swallows a payout's error and the job succeeds, though a
  comment near line 133 has the pass retry; the key of that job then finds it
  finished. A late pass pays the window of the day it runs on. Batches without an
  order may leave out the same works every time. Windows of thirty days queued
  weekly count a read several times (`ReadPaidBoundedly` says how often). A bookmark or
  a reading status that is deleted, a rating that is edited, a `finished_at` that is
  cleared or imported with an old date changes the signals of a window that may
  have been paid: the key keeps the payout as it is, and nothing corrects it.

Retention:

- `retention_proposals.rs:205-208` leaves the race for the one open proposal to
  the database; it is two reads and an `INSERT` without a unique index.
- `0094` names when the ballot closes; a ballot is accepted until the pass has
  settled it.
- `worker.rs` has each outcome close the proposal it settled so that none is
  applied twice; a crash between the write and the close applies and records again.
- The operator has the last word; a pass that is already counting writes the
  readers' mode over the operator's. An answer to a proposal decided meanwhile
  writes and records, then tells the operator that it was already decided.
- `mode_in_force` takes an override wider than the instance's mode, `current_mode`
  the narrowest. The module doc of `retention_settle.rs` has an advisory pass close
  as `passed`; `settle_one` leaves it open for the operator.

Body copies:

- `reader_body_fetch.rs` says its key "cannot suppress a fetch the reader genuinely
  needs"; after `SettleFailed` the queue's own retry finds `failed` and succeeds,
  and a new request finds that finished row: the copy waits until it is purged.
- `reader_body_copies.rs:191` returns a ready row untouched; its source is
  overwritten. Another comment has a request in flight not re-pointed; it is. The
  audit row at 267 is not in the transaction it speaks of, and a ready outcome has
  none. `settle_failed` leaves a refusal alone, the next request does not.

Contributors and entries:

- `collaboration.rs:494-497` calls an accepted invitation that granted nothing
  wrong; the second of two invitations of one pseud does that, and lets a pseud who
  was removed rejoin. A manager's request decided before their removal still lands.
- `spec.md` 45.2 and 45.6 apply a decision in the transaction of the vote; it is
  applied afterwards, lost by a crash, repeated by a late ballot, and may undo what
  another proposal has done since.
- Two ballots counted side by side on PostgreSQL both miss the quorum they reach
  together, until a third is cast. A vote goes to the newest open proposal, not to
  the one on the member's page. `closes_at` is never enforced, and a move without a
  target passes and does nothing.

**Bounds.** Interference here is pairwise: a lease is lost to one other worker,
a row is taken by one other claim, a file by one other operation, so two
workers, two rows or two operations reach each kind of step between each pair
of statements; the theorems cover any number. Leases and delays of one or two
ticks make every timer expire at every point. `AttemptCap` saturates the
attempts counter at the budget; `MaxFailures` and `MaxCrashes` bound counters of
the environment; one worker is always left alive by `Stop`. The batch of 50 is
2, with as many unhandled events as fill it in `outbox_blocked` and one fewer in
`outbox_two_workers`. `queue_postgres` has a budget of one attempt, since its two
claim steps multiply the states; budgets of one and two, mixed, are in
`queue_two_jobs`. Names that differ in nothing are permuted by `SYMMETRY` where
only invariants and action properties are checked.

The parts of `works` and `handlers`, each explored with the others at rest:

| part | bounds | why they are enough |
|---|---|---|
| text | one unit, two tabs, four versions | a save, a restore over it, a rename, and one more save that must see them; units share no history |
| publication | one work, two tabs, one key, three versions | two decisions or edits in a row, with a third request left behind by each; the owner's tab decides and edits, the other decides and loses its role; with edits of both, explored once (2.3 million states), no error |
| blob | one checksum, two operations in two processes | every file operation meets every other; `blob_shared_temporary` has them in one process |
| copies, limits, lending | many borrowers of one work; many works of one borrower; two of each; one copy, one loan each, one tick, one failed count | a limit is passed by every request that counted before the first insert, for each limit alone and both together |
| bounty | gifts of 1 and 2, 2 required, 5 at most | one gift that funds it, one that does not, and one that is lost to the other |
| sales | prices 3 and 20, a fee of 15 % | one price whose fee rounds to nothing and one whose fee does not; two tabs of one reader, and the author's |
| contributors | two guests, two invitations, two tabs, two roles | two invitations of one pseud, or of two, answered side by side |
| entry | two members, two shelves, two proposals, quorum 2 as in the code | two ballots counted side by side on one proposal, or one on each; three members with two requests open were explored once: 16.7 million states, no error |
| import | 2 units, 2 queue rows, 2 workers, `MaxTrouble` 2 | a rerun beside a run that lost its lease; with 3, explored once (6.4 million states), no error; `imports_per_unit` uses 3 |
| blob's backend | SQLite, in the parts blob, file and link | the properties that fail on PostgreSQL are said of SQLite; the others are proved for both |
| file | 2 checksums and one run at a time, or 2 runs that render the same bytes; one removal at a time; no link, no cancellation, no failed rendering | a rerun that renders other bytes while the export is forgotten; a put between a collection's `DELETE` and its `remove_file`, by either of two runs |
| link | 1 checksum, one run at a time, 2 downloads | two downloads of one link, while the export fails, is cancelled, rerun, forgotten or swept |
| payouts | weeks of 2 days, windows of 3, batches of one work, 4 days, 2 reads; one work's reads of the day two windows share are changed, after a payout of the work (`MaxAmends` 1), and from then on nothing more is read and passes do not overlap | two overlapping windows, two runs of one, and a read in both, beside a read in one; a read withdrawn or backdated when one of its windows is paid and the other not, also between a pass's count and its insert; with 3 reads and none changed, explored once (910 000 states), no error |
| retention | 1 proposal, 2 voters, quorum of 1 or 2, 2 operator's answers, two passes, ballots or answers open at once | each pair of the three kinds of actors; all four open at once, explored once (3.2 million states), no error |
| copy | 2 sources, 2 queue rows, two requests or fetches at once | a late outcome beside a rerun or a new request; without the limit of two, explored once (550 000 states), no error |

**Deadlock** is checked in every run whose configuration does not say otherwise.
`queue_two_jobs`, `queue_postgres`, `queue_retry_after_cancel`, `works`,
`handlers`, `imports_per_unit` and `retention_override` switch it off: a queue whose
jobs are finished and purged, a unit that has been deleted, an import whose row is
gone or a proposal that is closed really stops, when nobody asks for anything
more.

**Fairness.** The worker loop never ends unless the process does, so a live
worker takes its next statement (weak fairness of `Attempting`, `TakeRow`,
`PurgeTerminalJobs`, and of a pass over the outbox). It comes back to claiming
again and again, and to the sweep on every thirtieth pass, between which other
workers may disable those steps: strong fairness of `ClaimNext`, `PickRow` and
`RequeueExpiredLeases`. Time passes (weak fairness of `Tick`, `FallsDue`).
Nobody has to queue, cancel, retry, crash, publish or put. The models of requests state no fairness, because nobody has to
finish one. `EveryJobSettles` also
assumes `Prompt`, a handler that returns within its lease: without it a handler
slower than 120 seconds is swept and rerun for ever.

## 4. Proofs

All are for every value of the constants allowed by the named `ASSUME` of the
module. These say that constants are of their kind (numbers, subsets, distinct
names), that the people, requests or voters that are counted are finitely many
(`Lending`, `Bounties`, `EntryModeration`, `Retention`: the tables and the requests
in flight are finite), and that `Lending` has at least one request to speak of,
since its bound is written "requests in flight, less one". Four theorems have
hypotheses of their own, stated below: `BulkIsCapped`, `CollectionSparesReferences` and
`NamedFilesAreKept`, which are said of SQLite, and `PathIsNeverHalfWritten`.
Every safety property the passing runs check is stated by a theorem.

- `JobQueueProofs`. `IndInv` strengthens the type invariant with what each stage
  of `run_once` knows about its row (`StagesCoherent`): without it nothing says
  that `close_attempt` finds the attempt it closes, or that two PostgreSQL claims
  hold different rows. There is one lemma per action, one step per conjunct, and
  `NextInv` combines them, and `Invariance` says it of every reachable state. From
  it follow `TypeCorrect`, `LeasesCoherent`,
  `HoldersAtWork`, `OpenAttempts`, `OutcomesExplained`, the action property
  `FinishedIsFinal`, and `QueueImplementsJobLife`, by mapping each statement to a
  step of `JobLife` or a stutter. `BulkIsCapped` (`BulkCap`) assumes SQLite's claim
  (`~SkipLocked`), finitely many bulk rows, and that no bulk handler reports
  progress (`Bulk \cap Reporting = {}`): `run_bulk` never calls `progress`. The
  last is needed because the claim counts leased rows only: a row that had become
  running would no longer be counted. The invariant is `BulkInv`: nobody is
  between the two parts of a claim, no bulk row is running, and the leased ones
  are within the cap; `OnlyClaimsLease` goes through every other action to show
  that none leases a row.
- `BlobStoreProofs`. `RowsKeepTheirBytes` (`BytesAreLostOnlyToALateRemoval`) holds on both
  backends: a put that is about to insert has its bytes at the path, or a late
  `remove_file` has taken them (`BytesStand`). `CollectionSparesReferences` assumes SQLite
  (`~ Postgres`): the invariant (`Collecting`, `DeleteIsAlone`) is that between a
  `DELETE`'s check and its write there is no reference and no other `DELETE`; of
  PostgreSQL the statement is false (section 3). `PathIsNeverHalfWritten` says
  `BlobSpec /\ []OneWriterPerProcess => []NeverHalfWritten`: its hypothesis is about the
  behaviour, not about the deployment. Clients may share processes, as the code's
  handlers do, and the conclusion holds for as long as no two of them are
  writing these bytes in one process; `blob_shared_temporary` shows what
  happens when they are.
- `OutboxProofs`. `MarksAreEarned` rests on `MarkIsEarned`: a worker about to
  write `delivered_at` has run the handler of the event it is at.
  `RepeatsNeedAStaleBatch` (with its lemma `DeliveryIsFinal`) is `OverIsOver`, a
  property of each step.
- `ManuscriptProofs`. `HistoriesAreDense` needs the `UNIQUE` index: two requests
  may hold the same number. `NoSaveOverwritesTheUnread` needs `Honest`: while a
  checked request's version still matches, the unit's pointer is the revision
  its tab shows, because every write of the pointer, checked or not, counts the
  version up.
- `PublicationProofs`. `RequestsAreOld` adds to the two properties that no request
  is ahead of the row; a write then leaves every other request behind it, where
  nothing is asked of it (`CountingUpIsSound`). Hence `DecisionsAreInformed` and
  `ReplaysAreConflicts`.

- `PeopleProofs`. One section per module.
  - `Contributors`: `NobodyJoinsUninvited`, a property of each step.
  - `EntryModeration`: `EntryInv` follows a ballot from the read of the tally to the
    act on the entry: the yes votes a member has counted are ones the poll holds once
    the member's own ballot is in (`CountStands`), a poll that reads passed has its
    quorum of yes votes (`PassedStands`), and whoever is about to change the entry
    has a proposal for that change with its quorum behind it (`ApplyStands`). Hence
    `ChangesWereVoted`.
  - `Lending`: `LimitsBoundedByRequests` is not inductive. `LoanInv` counts the loans
    written and the requests past their check together (`CopiesBound`,
    `ReaderBound`): a request comes past its check with the loans it counted below
    the limit, or its count failed, and the others in flight may add one each. Hence
    `LimitsHold`; `ExpiredStaysOver` is inductive with the types.
  - `Bounties`: `BountyInv` adds that what is in the audit trail, with the gifts still
    to be written there, is no more than what was pledged. The sum over backers is
    the cardinality of a set of units (`Owed`), so that the library's theorems about
    cardinality apply. Hence `BountyIsFunded`.
  - `Sales`: `SaleInv` says what each kind of earning looks like, that keys are
    unique, and what each request has done so far. Hence `SoldOnce`, `FeeFollowsTip`.
- `HandlersProofs`. One section per handler.
  - `Imports`: `ImportInv`. What a worker believes stored is held, and the body is put
    before the row is written (`Bodies`); a worker of a whole work that has not
    spoiled a unit holds every unit it has passed (`Whole`); a worker that stored a
    unit after the cancel has nothing between it and the next check (`InTime`).
    Hence `StoredIsHeld`, `CompletedIsWhole`, `CancelIsHeeded`. `LinkInv` (an import with
    a row has a queue row behind it) is what `ImportsKeepJobLife` needs.
  - `Exports`: `FilesInv`, on both backends, says that a reference has its blob's row
    and the row its file, unless a deletion that was under way when the bytes were
    put again has unlinked it. `KeptInv`, on SQLite, that between a `DELETE`'s check and
    its write its blob has no reference, and so that the checksum a worker is about
    to record, and the one the row names, have their reference, or one that a
    remover has dropped since. `TokenInv` says that a link not yet used has opened
    nothing. Hence `NamedFilesAreKept` (assuming `~ Postgres`) and, on both, `LinksOpenOnce`.
  - `Payouts`: `PayInv`. A pass under way and a row of the ledger end on a Monday that
    has come, so the window they name is closed: what they counted is the window's
    reads, but for those that are changed when their day is over (`Tallied`). Hence
    `WindowsPaidOnce`. `ReadsPaidBoundedly` maps each row that pays a read to its
    Monday, an injection into an interval whose length `MondaysInWindow` bounds: no
    sum over the ledger is needed.
  - `Retention`: `RetentionInv` says what a pass knows of the proposal it is at
    (`PassInv`: its window is over; past the count it was carried; before the close
    its change is on record), what the operator's request knows (`AnswerInv`), and
    that whatever has its quorum now has been carried (`SupportedCarried`). Hence
    `PassedMeansApplied`, `ChangesHadReaders`, and `DecisionsStay`.
  - `BodyCopies`: `BodiesStay` is a property of each step.
  - `ImportsKeepJobLife`, `ExportImplementsJobLife`, `CopyImplementsJobLife`: the queue
    rows these modules take for granted live the life of `JobLife`, and
    `QueueImplementsJobLife` says that the queue's rows do. So handlers and queue meet
    at one abstract specification.
- `HandlersComposed` (in `HandlersProofs`) and `WorksComposed` (in `WorksProofs`): what
  the runs `handlers` and `works` explore, each part with the others at rest, is a
  behaviour of every part's own specification. `HandlersTyped` and `WorksTyped`
  follow, and every theorem about a part holds of the composition.

Only model-checked: liveness (`EveryJobSettles`, `EveryEventIsDelivered`), which is
beyond the prover, and the six violations, which are counterexamples. Proofs
cover the bodies of the modules; that a module renders its code is for the
reader of `map` to judge.

## 5. Plan

Every safety property of a passing run has its theorem. What could still be proved:

1. One composition of `JobQueue` with a handler, in which the rows the handler reads
   are the queue's under the mapping of `QueueImplementsJobLife`. Today the two sides
   are proved to meet at `JobLife`, and the handlers take only what it allows.
2. Steps towards liveness: from `IndInv`, that no step but a crash or a sweep takes a
   held row away from the outcome its worker is at. TLC checks `EveryJobSettles`
   under fairness; the leads-to itself stays out of the prover's reach.
3. Theorems for the models below, as they are written.

Models, in this order:

1. The search index: one work from `Publication` through the outbox event and the
   reindex job to its index row. What a reading of it shows already: the key
   `reindex:{work}` finds the finished job of an earlier publication; a text that
   cannot be read is indexed as empty; the text of deleted units is indexed
   (`worker.rs`, arm `Reindex`, has no `deleted_at IS NULL`); and on PostgreSQL two
   rebuilds at once may leave the terms of both, since the second's `DELETE` waits
   for the first's and does not see what it inserted. What is left to say in its
   favour, that an anonymous search shows public works only, is the query's own
   predicate, so the module is worth its place once these are settled.
2. The order of units (`reorder_units`) in `Manuscript`.
3. Gift exchanges, adoption and sanctions with their appeals.
4. The rate limiter, whose clock is read before its lock: `last_refill` may go
   back, and pruning drops an idle bucket that has not refilled.

### Not modelled

- *Nothing calls it*: `supply::complete`, `grant_credits`, holds, caps, charging and
  the fair queue of `domain`, `create_bounty`, `create_payout`, `seed_categories` and
  `upsert_category` (so every proposal on a category is refused), `expire_proposal`,
  `add_contributor`, `heartbeat`. A model would be of a call nobody makes.
- *Single statements over rows nobody else relates*: community, library, reading
  progress, tags, links, notifications, taste, inventory. Their correctness is in the
  SQL's data, and tests reach it.
- *Numbers rather than control*: ranking, taste, analytics, decay, the typed
  votes' weights, configuration and its validation, feature flags.
- *Parsing and I/O*: scrapers and their safety rules, federation's signatures, exports'
  rendering, narration, translation services, cryptography of sessions and secrets.
- *Many statements over many tables*: the erasure of an account. It touches every
  component, and a model of it without them would have nothing to violate.
- *Outside the server*: the frontend, migrations, the command line.
