----------------------------- MODULE MCHandlers ------------------------------
(* What the queue's jobs do, side by side: an import, an export, two weeks of  *)
(* payouts, the settling of a retention proposal, a reader's copy of a text.   *)
(* They share no variable, so each is explored with the others at rest: an     *)
(* invariant of one cannot tell.                                            *)
(* An export is explored twice: its file with two workers, its link with one. *)
EXTENDS Imports, Exports, Payouts, Retention, BodyCopies, TLC

\* The two of anything: rows, checksums, works, passes; workers, downloads, voters.
CONSTANTS first, second, ann, bob

VARIABLE part

handlersVars == <<part, vars, exportVars, payVars, retentionVars, copyVars>>

HandlersInit ==
  /\ part \in {"import", "file", "link", "payouts", "retention", "copy"}
  /\ Init /\ ExportInit /\ PayInit /\ RetentionInit /\ CopyInit
  /\ part # "import" => keeps /\ perUnit
  /\ part # "link" => bulk
  /\ part # "payouts" => reads = {}
  /\ part # "retention" => binding /\ policy = "cache"

ImportStep ==
  /\ part = "import"
  /\ Next
  /\ UNCHANGED <<part, exportVars, payVars, retentionVars, copyVars>>

\* The checksums an export's rows, files and runs are about.
SumsInPlay == (blobs \cup disk \cup {exporter[w].sum : w \in Exporters}) \ {NoSum}

(* One removal at a time: the reader's, the sweep's, a collection's or a run's. *)
(* The file: one run at a time that may render either bytes, or two that       *)
(* render the same; none fails and none is cancelled.  The link: one run.      *)
ExportStep ==
  /\ part \in {"file", "link"}
  /\ ExportNext
  /\ Cardinality({r \in Removers : remover'[r].at # "idle"}) <= 1
  /\ (\E w \in Exporters : exporter'[w].at = "idle") \/ Cardinality(SumsInPlay') <= 1
  /\ part = "file" =>
       ~ token'.there /\ jobPhase'[ExportJob] # "cancelled" /\ export'.state # "failed"
  /\ part = "link" =>
       (\E w \in Exporters : exporter'[w].at = "idle") /\ Cardinality(SumsInPlay') <= 1
  /\ UNCHANGED <<part, vars, payVars, retentionVars, copyVars>>

(* A work's reads of a day that two windows share are changed once it has been *)
(* paid; from then on nothing more is read, and passes do not overlap.        *)
PayStep ==
  /\ part = "payouts"
  /\ PayNext
  /\ reads \subseteq reads' \/ amended' # amended
  /\ amended # {} => reads' = reads
  /\ amended' \subseteq {<<x.work, WeekDays - 1>> : x \in ledger}
  /\ amended' # {} => \E k \in PayWorkers : pass[k].at = "idle" /\ pass'[k].at = "idle"
  /\ UNCHANGED <<part, vars, exportVars, retentionVars, copyVars>>

\* Passes, ballots and answers under way.
UnderWay ==
  Cardinality({s \in Passes : settler[s].stage # "idle"})
  + Cardinality({r \in {ballot, answer} : r.stage # "idle"})

(* Two of them at a time: two passes, or one and the operator, or a ballot. *)
RetentionStep ==
  /\ part = "retention"
  /\ RetentionNext
  /\ UnderWay' <= 2
  /\ UNCHANGED <<part, vars, exportVars, payVars, copyVars>>

(* Two requests or fetches at a time: two of either, or one of each. *)
CopyStep ==
  /\ part = "copy"
  /\ CopyNext
  /\ Cardinality({t \in CopyTabs : wish'[t].at # "idle"})
       + Cardinality({w \in Fetchers : fetcher'[w].at # "idle"}) <= 2
  /\ UNCHANGED <<part, vars, exportVars, payVars, retentionVars>>

HandlersNext == ImportStep \/ ExportStep \/ PayStep \/ RetentionStep \/ CopyStep

HandlersSpec == HandlersInit /\ [][HandlersNext]_handlersVars

(* They are told apart by their names only. *)
Alike == Permutations({first, second}) \cup Permutations({ann, bob})

HandlersTypeOK == TypeOK /\ ExportTypeOK /\ PayTypeOK /\ RetentionTypeOK /\ CopyTypeOK
=============================================================================
