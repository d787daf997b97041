------------------------------ MODULE Exports -------------------------------
(***************************************************************************)
(* One export of a work or, in bulk, of a query's works: the request, the    *)
(* worker's run (crates/app/src/exports.rs, bulk_export.rs), the file it        *)
(* leaves behind, the one-time download link, and the two ways the file goes: *)
(* the reader forgets the export, or the sweep of old ones takes it          *)
(* (crates/db/src/exports.rs, crates/app/src/routes/exports.rs).            *)
(*                                                                         *)
(* One step is one statement or one call of the file system; a put's         *)
(* temporary file, which BlobStore follows, is left out.  Of what was         *)
(* rendered only the checksum is kept, and a rerun may render other bytes.    *)
(* A row of content_blobs, its reference and its file are three things: they  *)
(* come in that many steps, and go in as many.                               *)
(***************************************************************************)
EXTENDS Naturals, FiniteSets

CONSTANTS
  ExportJob,   \* the queue row
  Exporters,   \* workers
  NoExporter,
  Sums,        \* checksums of what may be rendered
  NoSum,
  Postgres,    \* the backend: PostgreSQL, else SQLite
  Downloads    \* requests that present the token

ASSUME ExportsAssumption ==
  /\ NoSum \notin Sums /\ NoExporter \notin Exporters
  /\ {"reader", "sweep", "collector"} \cap Exporters = {}
  /\ Postgres \in BOOLEAN

VARIABLES
  jobPhase,    \* the queue row, as in JobLife
  jobHolder,   \* the worker that holds it
  bulk,        \* whether it is a bulk export: fixed
  asking,      \* the request that creates it
  export,      \* the row of export_jobs
  blobs,       \* checksums with a row in content_blobs
  disk,        \* checksums with a file
  kept,        \* checksums that content_references keeps for this export
  exporter,    \* where each worker is in its run
  remover,     \* where each removal is: the reader's request to forget the
               \* export, the sweep, the collection of unreferenced blobs, and
               \* what a worker's run does when a reference fails
  token,       \* the row of download_grants
  got,         \* what each download has come to
  unkept,      \* history: checksums whose reference a remover has dropped
  robbed       \* history: checksums whose bytes, put again since their row was
               \* deleted, went by that deletion's remove_file

exportVars ==
  <<jobPhase, jobHolder, bulk, asking, export, blobs, disk, kept, exporter, remover, token, got,
    unkept, robbed>>

Queued == INSTANCE JobLife WITH Jobs <- {ExportJob}, Workers <- Exporters,
                               NoOne <- NoExporter, phase <- jobPhase, holder <- jobHolder

NoExport == [state |-> "none", sum |-> NoSum]
NoToken == [there |-> FALSE, used |-> FALSE, over |-> FALSE]
NoWork == [at |-> "idle", sum |-> NoSum]

Removers == {"reader", "sweep", "collector"} \cup Exporters

ExportTypeOK ==
  /\ bulk \in BOOLEAN
  /\ asking \in {"not yet", "queued", "created", "over"}
  /\ export \in [state : {"none", "queued", "running", "ready", "failed"}, sum : Sums \cup {NoSum}]
  /\ kept \subseteq Sums /\ blobs \subseteq Sums /\ disk \subseteq Sums
  /\ unkept \subseteq Sums /\ robbed \subseteq Sums
  /\ exporter \in [Exporters -> [at : {"idle", "find", "start", "produce", "put", "look", "write",
       "insert", "reference", "tidy", "record", "ok", "transient", "fatal"}, sum : Sums \cup {NoSum}]]
  /\ remover \in [Removers -> [at : {"idle", "row", "reference", "blob", "delete", "unlink"},
                               sum : Sums \cup {NoSum}]]
  /\ token \in [there : BOOLEAN, used : BOOLEAN, over : BOOLEAN]
  /\ got \in [Downloads -> {"nothing", "opened", "file", "missing"}]

ExportInit ==
  /\ Queued!Init
  /\ bulk \in BOOLEAN
  /\ asking = "not yet"
  /\ export = NoExport
  /\ blobs = {} /\ disk = {} /\ kept = {} /\ unkept = {} /\ robbed = {}
  /\ exporter = [w \in Exporters |-> NoWork]
  /\ remover = [r \in Removers |-> NoWork]
  /\ token = NoToken
  /\ got = [d \in Downloads |-> "nothing"]

Exists == export.state # "none"

(* SQLite has one writer at a time: nothing that is written about a blob comes  *)
(* between a DELETE's check and its write.                                   *)
Unlocked == Postgres \/ \A r \in Removers : remover[r].at # "delete"

\* What one part of the program leaves alone.
queueRow == <<jobPhase, jobHolder>>
files == <<blobs, disk, kept, unkept, robbed>>
links == <<token, got>>

-----------------------------------------------------------------------------
(* The request *)

(* request and request_bulk queue first: the export names the queue row. *)
QueueExport ==
  /\ asking = "not yet"
  /\ Queued!Post(ExportJob)
  /\ asking' = "queued"
  /\ UNCHANGED <<bulk, export, files, exporter, remover, links>>

(* create_export, refused when the queue row is gone by then. *)
CreateExport ==
  /\ asking = "queued" /\ jobPhase[ExportJob] # "purged"
  /\ export' = [NoExport EXCEPT !.state = "queued"]
  /\ asking' = "created"
  /\ UNCHANGED <<queueRow, bulk, files, exporter, remover, links>>

AskingFails ==
  /\ asking = "queued"
  /\ asking' = "over"
  /\ UNCHANGED <<queueRow, bulk, export, files, exporter, remover, links>>

-----------------------------------------------------------------------------
(* The run *)

Step(w, at) == exporter' = [exporter EXCEPT ![w].at = at]

TakeExport(w) ==
  /\ exporter[w].at = "idle"
  /\ Queued!Take(ExportJob, w)
  /\ Step(w, "find")
  /\ UNCHANGED <<bulk, asking, export, files, remover, links>>

(* run: a missing row is waited for, a finished export left alone.  run_bulk  *)
(* gives a missing row up.                                                  *)
FindExport(w) ==
  /\ exporter[w].at = "find"
  /\ Step(w, CASE ~ Exists /\ bulk -> "fatal"
               [] ~ Exists /\ ~ bulk -> "transient"
               [] export.state \in {"ready", "failed"} -> "ok"
               [] OTHER -> "start")
  /\ UNCHANGED <<queueRow, bulk, asking, export, files, remover, links>>

(* set_export_state, record_output and fail_export find the row by its id     *)
(* alone, or not at all.                                                    *)
Update(row) == export' = IF Exists THEN row ELSE export

SetRunning(w) ==
  /\ exporter[w].at = "start"
  /\ Update([export EXCEPT !.state = "running"])
  /\ Step(w, "produce")
  /\ UNCHANGED <<queueRow, bulk, asking, files, remover, links>>

Produce(w, sum) ==
  /\ exporter[w].at = "produce"
  /\ exporter' = [exporter EXCEPT ![w] = [at |-> "put", sum |-> sum]]
  /\ UNCHANGED <<queueRow, bulk, asking, export, files, remover, links>>

(* produce fails: the reader is told, and the queue whether to try again. *)
FailExport(w) ==
  /\ exporter[w].at = "produce"
  /\ Update([export EXCEPT !.state = "failed"])
  /\ \E verdict \in {"transient", "fatal"} : Step(w, verdict)
  /\ UNCHANGED <<queueRow, bulk, asking, files, remover, links>>

(* BlobStore::put: with a row and a file there is nothing to do. *)
StatFile(w) ==
  /\ exporter[w].at = "put"
  /\ Step(w, IF exporter[w].sum \in blobs THEN "look" ELSE "write")
  /\ UNCHANGED <<queueRow, bulk, asking, export, files, remover, links>>

LookAtDisk(w) ==
  /\ exporter[w].at = "look"
  /\ Step(w, IF exporter[w].sum \in disk THEN "reference" ELSE "write")
  /\ UNCHANGED <<queueRow, bulk, asking, export, files, remover, links>>

(* The bytes are at their path once the temporary is renamed. *)
WriteFile(w) ==
  /\ exporter[w].at = "write"
  /\ disk' = disk \cup {exporter[w].sum}
  /\ robbed' = robbed \ {exporter[w].sum}
  /\ Step(w, "insert")
  /\ UNCHANGED <<queueRow, bulk, asking, export, blobs, kept, unkept, remover, links>>

InsertBlob(w) ==
  /\ exporter[w].at = "insert" /\ Unlocked
  /\ blobs' = blobs \cup {exporter[w].sum}
  /\ Step(w, "reference")
  /\ UNCHANGED <<queueRow, bulk, asking, export, disk, kept, unkept, robbed, remover, links>>

(* Mutant of KeepFile: the row is written first. *)
KeepFileUnreferenced(w) ==
  /\ exporter[w].at = "reference"
  /\ Step(w, "record")
  /\ UNCHANGED <<queueRow, bulk, asking, export, files, remover, links>>

(* BlobStore::reference: a reference to a blob row that is gone is refused. *)
KeepFile(w) ==
  /\ exporter[w].at = "reference" /\ exporter[w].sum \in blobs /\ Unlocked
  /\ kept' = kept \cup {exporter[w].sum}
  /\ Step(w, "record")
  /\ UNCHANGED <<queueRow, bulk, asking, export, blobs, disk, unkept, robbed, remover, links>>

(* Then the blob is removed again, if nothing else refers to it. *)
KeepFails(w) ==
  /\ exporter[w].at = "reference"
  /\ Step(w, "tidy")
  /\ remover' = [remover EXCEPT ![w] = [at |-> "blob", sum |-> exporter[w].sum]]
  /\ UNCHANGED <<queueRow, bulk, asking, export, files, links>>

Tidied(w) ==
  /\ exporter[w].at = "tidy" /\ remover[w].at = "idle"
  /\ Step(w, "transient")
  /\ UNCHANGED <<queueRow, bulk, asking, export, files, remover, links>>

RecordOutput(w) ==
  /\ exporter[w].at = "record"
  /\ Update([state |-> "ready", sum |-> exporter[w].sum])
  /\ Step(w, "ok")
  /\ UNCHANGED <<queueRow, bulk, asking, files, remover, links>>

(* A statement of the run fails. *)
RunBreaks(w) ==
  /\ exporter[w].at \in {"find", "start", "produce", "put", "write", "insert", "record"}
  /\ Step(w, "transient")
  /\ UNCHANGED <<queueRow, bulk, asking, export, files, remover, links>>

(* record_outcome counts for the worker that still holds the row. *)
SettleExport(w) ==
  /\ exporter[w].at \in {"ok", "transient", "fatal"}
  /\ IF jobHolder[ExportJob] # w THEN UNCHANGED queueRow
     ELSE \/ /\ Queued!Settle(ExportJob)
             /\ (jobPhase'[ExportJob] = "succeeded") = (exporter[w].at = "ok")
          \/ exporter[w].at = "transient" /\ Queued!GiveBack({ExportJob})
  /\ exporter' = [exporter EXCEPT ![w] = NoWork]
  /\ UNCHANGED <<bulk, asking, export, files, remover, links>>

KillExporter(w) ==
  /\ exporter[w].at # "idle"
  /\ exporter' = [exporter EXCEPT ![w] = NoWork]
  /\ remover' = [remover EXCEPT ![w] = NoWork]
  /\ UNCHANGED <<queueRow, bulk, asking, export, files, links>>

(* The lease ends, whoever still runs; the row is cancelled, which the run does *)
(* not ask about, or retried by an operator.                                *)
QueueMoves ==
  /\ \/ Queued!GiveBack({ExportJob}) \/ Queued!Withdraw(ExportJob) \/ Queued!Reopen(ExportJob)
  /\ UNCHANGED <<bulk, asking, export, files, exporter, remover, links>>

(* purge_terminal_jobs: the export and its link go with the queue row. *)
PurgeQueueRow ==
  /\ Queued!Forget({ExportJob})
  /\ jobPhase' # jobPhase
  /\ export' = NoExport
  /\ token' = NoToken
  /\ UNCHANGED <<bulk, asking, files, exporter, remover, got>>

-----------------------------------------------------------------------------
(* The end of an export *)

(* delete_export and the DELETE of purge_expired, grants included. *)
DropRow == export' = NoExport /\ token' = NoToken

(* The checksum that is read here decides what is unreferenced later. *)
StartRemoval(r) ==
  /\ r \in {"reader", "sweep"}
  /\ remover[r].at = "idle" /\ Exists
  /\ remover' = [remover EXCEPT ![r] =
       [at |-> IF r = "sweep" THEN "row" ELSE "reference", sum |-> export.sum]]
  /\ UNCHANGED <<queueRow, bulk, asking, export, files, exporter, links>>

(* collect_blobs, or another deletion of a blob nothing refers to. *)
StartCollection(sum) ==
  /\ remover["collector"].at = "idle" /\ sum \in blobs \ kept
  /\ remover' = [remover EXCEPT !["collector"] = [at |-> "blob", sum |-> sum]]
  /\ UNCHANGED <<queueRow, bulk, asking, export, files, exporter, links>>

\* The stages of a removal: the sweep deletes the row first, forget_export last.
After(r) ==
  CASE remover[r].at = "row" /\ r = "sweep" -> "reference"
    [] remover[r].at = "reference" -> "blob"
    [] remover[r].at \in {"blob", "delete", "unlink"} /\ r = "reader" -> "row"
    [] OTHER -> "idle"

Onward(r) == IF After(r) = "idle" THEN NoWork ELSE [at |-> After(r), sum |-> remover[r].sum]

GoesOn(r) == remover' = [remover EXCEPT ![r] = Onward(r)]

RemoveRow(r) ==
  /\ remover[r].at = "row"
  /\ DropRow
  /\ GoesOn(r)
  /\ UNCHANGED <<queueRow, bulk, asking, files, exporter, got>>

(* Nothing to do without a checksum. *)
DropReference(r) ==
  /\ remover[r].at = "reference" /\ Unlocked
  /\ kept' = kept \ {remover[r].sum}
  /\ unkept' = unkept \cup ({remover[r].sum} \ {NoSum})
  /\ GoesOn(r)
  /\ UNCHANGED <<queueRow, bulk, asking, export, blobs, disk, robbed, exporter, links>>

Unreferenced(sum) == sum \in blobs /\ sum \notin kept

(* delete_if_unreferenced: the DELETE finds the row and no reference to it, on *)
(* PostgreSQL as its snapshot has them, or removes nothing.                  *)
CheckBlob(r) ==
  /\ remover[r].at = "blob" /\ Unlocked
  /\ IF Unreferenced(remover[r].sum)
     THEN remover' = [remover EXCEPT ![r].at = "delete"]
     ELSE GoesOn(r)
  /\ UNCHANGED <<queueRow, bulk, asking, export, files, exporter, links>>

(* The row goes, and by ON DELETE CASCADE a reference that came after the check. *)
(* Another DELETE that had found the row removes nothing.                     *)
DeleteBlob(r) ==
  LET Late == {x \in Removers : remover[x].at = "delete" /\ remover[x].sum = remover[r].sum} IN
  /\ remover[r].at = "delete"
  /\ blobs' = blobs \ {remover[r].sum}
  /\ kept' = kept \ {remover[r].sum}
  /\ remover' = [x \in Removers |->
       IF x = r THEN [at |-> "unlink", sum |-> remover[r].sum]
       ELSE IF x \in Late THEN Onward(x) ELSE remover[x]]
  /\ UNCHANGED <<queueRow, bulk, asking, export, disk, unkept, robbed, exporter, links>>

(* remove_file, after the commit. *)
Unlink(r) ==
  LET sum == remover[r].sum IN
  /\ remover[r].at = "unlink"
  /\ disk' = disk \ {sum}
  /\ robbed' = IF \/ sum \in blobs
                  \/ \E w \in Exporters : exporter[w].at = "insert" /\ exporter[w].sum = sum
               THEN robbed \cup {sum} ELSE robbed
  /\ GoesOn(r)
  /\ UNCHANGED <<queueRow, bulk, asking, export, blobs, kept, unkept, exporter, links>>

RemovalBreaks(r) ==
  /\ remover[r].at # "idle"
  /\ remover' = [remover EXCEPT ![r] = NoWork]
  /\ UNCHANGED <<queueRow, bulk, asking, export, files, exporter, links>>

-----------------------------------------------------------------------------
(* The link *)

(* mint_grant, for an export with a file when it was asked. *)
Mint ==
  /\ Exists /\ export.sum # NoSum /\ ~ token.there
  /\ \A d \in Downloads : got[d] = "nothing"
  /\ token' = [NoToken EXCEPT !.there = TRUE]
  /\ UNCHANGED <<queueRow, bulk, asking, export, files, exporter, remover, got>>

TokenExpires ==
  /\ token.there
  /\ token' = [token EXCEPT !.over = TRUE]
  /\ UNCHANGED <<queueRow, bulk, asking, export, files, exporter, remover, got>>

(* Mutant of Spendable: spent or not. *)
SpendableTwice == token.there /\ ~ token.over

Spendable == token.there /\ ~ token.used /\ ~ token.over

(* redeem_grant: the check is the statement's own. *)
Redeem(d) ==
  /\ got[d] = "nothing" /\ Spendable
  /\ token' = [token EXCEPT !.used = TRUE]
  /\ got' = [got EXCEPT ![d] = "opened"]
  /\ UNCHANGED <<queueRow, bulk, asking, export, files, exporter, remover>>

(* serve *)
Serve(d) ==
  /\ got[d] = "opened"
  /\ got' = [got EXCEPT ![d] = IF Exists /\ export.sum \in blobs \cap disk THEN "file" ELSE "missing"]
  /\ UNCHANGED <<queueRow, bulk, asking, export, files, exporter, remover, token>>

-----------------------------------------------------------------------------
Exporting(w) ==
  \/ TakeExport(w) \/ FindExport(w) \/ SetRunning(w) \/ FailExport(w)
  \/ StatFile(w) \/ LookAtDisk(w) \/ WriteFile(w) \/ InsertBlob(w)
  \/ (\E sum \in Sums : Produce(w, sum))
  \/ KeepFile(w) \/ KeepFails(w) \/ Tidied(w) \/ RecordOutput(w)
  \/ RunBreaks(w) \/ SettleExport(w) \/ KillExporter(w)

Removing(r) ==
  \/ StartRemoval(r) \/ RemoveRow(r) \/ DropReference(r)
  \/ CheckBlob(r) \/ DeleteBlob(r) \/ Unlink(r) \/ RemovalBreaks(r)

ExportNext ==
  \/ QueueExport \/ CreateExport \/ AskingFails
  \/ \E w \in Exporters : Exporting(w)
  \/ QueueMoves \/ PurgeQueueRow
  \/ \E r \in Removers : Removing(r)
  \/ \E sum \in Sums : StartCollection(sum)
  \/ Mint \/ TokenExpires \/ (\E d \in Downloads : Redeem(d) \/ Serve(d))

ExportSpec == ExportInit /\ [][ExportNext]_exportVars

-----------------------------------------------------------------------------
(* Properties *)

(* The reference is written first and the row second: on SQLite an export that *)
(* names a file has its reference and its blob's row, whatever a second worker, *)
(* a collector or a dead request does, unless somebody has begun to remove     *)
(* that very file; and the bytes are on the disk, unless a deletion that was   *)
(* under way when they were put again has unlinked them.                      *)
NamedFileIsKept ==
  export.sum # NoSum =>
    \/ export.sum \in unkept
    \/ export.sum \in kept \cap blobs /\ export.sum \in disk \cup robbed

(* A link opens one download, however many present the token at once. *)
LinkOpensOnce == Cardinality({d \in Downloads : got[d] # "nothing"}) <= 1
=============================================================================
