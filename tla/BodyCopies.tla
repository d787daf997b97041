----------------------------- MODULE BodyCopies -----------------------------
(***************************************************************************)
(* A reader's own copy of an external text: the request                     *)
(* (crates/app/src/routes/reader_body_copies.rs, request_copy of            *)
(* crates/db/src/reader_body_copies.rs) and the job that fetches the text   *)
(* (routes/reader_body_fetch.rs).                                           *)
(*                                                                         *)
(* One work and one reader, hence one row, UNIQUE over the two and never    *)
(* deleted here.  One step is one statement; a text is the source it was    *)
(* fetched from.  What the source, the mode and the trust bar refuse is no  *)
(* request, and the audit rows are left out but for their failing.          *)
(***************************************************************************)
EXTENDS Naturals, FiniteSets

CONSTANTS
  FetchJobs,   \* queue rows
  Fetchers,    \* workers
  NoFetcher,
  CopyTabs,    \* requests in flight at once
  Origins,     \* sources the work may name when it is asked for
  NoOrigin

ASSUME BodyCopiesAssumption == NoOrigin \notin Origins /\ NoFetcher \notin Fetchers

VARIABLES
  fetchPhase,  \* the queue rows, as in JobLife
  fetchHolder, \* the workers that hold them
  copy,        \* the row of reader_body_copies
  wish,        \* each tab's request: where it is, and its source
  fetcher      \* where each worker is, the job it took and the source it read

copyVars == <<fetchPhase, fetchHolder, copy, wish, fetcher>>

Fetching == INSTANCE JobLife WITH Jobs <- FetchJobs, Workers <- Fetchers,
              NoOne <- NoFetcher, phase <- fetchPhase, holder <- fetchHolder

NoCopy == [state |-> "none", source |-> NoOrigin, text |-> NoOrigin]
NoWish == [at |-> "idle", source |-> NoOrigin]
NoFetch == [at |-> "idle", job |-> NoFetcher, source |-> NoOrigin]

CopyTypeOK ==
  /\ copy \in [state : {"none", "pending", "ready", "refused", "failed"},
               source : Origins \cup {NoOrigin}, text : Origins \cup {NoOrigin}]
  /\ wish \in [CopyTabs -> [at : {"idle", "known", "new", "look", "enqueue"},
                            source : Origins \cup {NoOrigin}]]
  /\ fetcher \in [Fetchers -> [at : {"idle", "find", "fetch", "ok", "transient"},
                               job : FetchJobs \cup {NoFetcher},
                               source : Origins \cup {NoOrigin}]]

CopyInit ==
  /\ Fetching!Init
  /\ copy = NoCopy
  /\ wish = [t \in CopyTabs |-> NoWish]
  /\ fetcher = [w \in Fetchers |-> NoFetch]

fetchRows == <<fetchPhase, fetchHolder>>

-----------------------------------------------------------------------------
(* The request *)

(* copy_id_for: the row's id, or a fresh one. *)
Ask(t, s) ==
  /\ wish[t].at = "idle"
  /\ wish' = [wish EXCEPT ![t] =
       [at |-> IF copy = NoCopy THEN "new" ELSE "known", source |-> s]]
  /\ UNCHANGED <<fetchRows, copy, fetcher>>

(* The upsert: a ready copy stays ready and keeps its text, but not its source. *)
Asked(s) ==
  IF copy.state = "ready" THEN [copy EXCEPT !.source = s]
  ELSE [state |-> "pending", source |-> s, text |-> NoOrigin]

(* A fresh id is not the row's if another request has inserted it meanwhile: *)
(* the row is then not found, and nothing is queued.                        *)
WriteRequest(t) ==
  /\ wish[t].at \in {"known", "new"}
  /\ copy' = Asked(wish[t].source)
  /\ wish' = [wish EXCEPT ![t] =
       IF wish[t].at = "new" /\ copy # NoCopy THEN NoWish ELSE [@ EXCEPT !.at = "look"]]
  /\ UNCHANGED <<fetchRows, fetcher>>

(* copy_by_id: a ready copy is not queued for. *)
ReadBack(t) ==
  /\ wish[t].at = "look"
  /\ wish' = [wish EXCEPT ![t] =
       IF copy.state = "ready" THEN NoWish ELSE [@ EXCEPT !.at = "enqueue"]]
  /\ UNCHANGED <<fetchRows, copy, fetcher>>

(* The key is the copy's id: one row of the queue per copy, finished or not, *)
(* until it is purged.                                                      *)
EnqueueFetch(t) ==
  /\ wish[t].at = "enqueue"
  /\ IF \A j \in FetchJobs : fetchPhase[j] \in {"unborn", "purged"}
     THEN \E j \in FetchJobs : Fetching!Post(j)
     ELSE UNCHANGED fetchRows
  /\ wish' = [wish EXCEPT ![t] = NoWish]
  /\ UNCHANGED <<copy, fetcher>>

(* A statement of the request fails, or the server dies. *)
WishEnds(t) ==
  /\ wish[t].at # "idle"
  /\ wish' = [wish EXCEPT ![t] = NoWish]
  /\ UNCHANGED <<fetchRows, copy, fetcher>>

-----------------------------------------------------------------------------
(* The job *)

FetchOn(w, at) == fetcher' = [fetcher EXCEPT ![w].at = at]

TakeFetch(w, j) ==
  /\ fetcher[w].at = "idle"
  /\ Fetching!Take(j, w)
  /\ fetcher' = [fetcher EXCEPT ![w] = [at |-> "find", job |-> j, source |-> NoOrigin]]
  /\ UNCHANGED <<copy, wish>>

(* status_by_id: only a pending copy is fetched for, from the source the row  *)
(* names now.                                                               *)
FindCopy(w) ==
  /\ fetcher[w].at = "find"
  /\ fetcher' = [fetcher EXCEPT ![w] =
       IF copy.state = "pending" THEN [@ EXCEPT !.at = "fetch", !.source = copy.source]
       ELSE [@ EXCEPT !.at = "ok"]]
  /\ UNCHANGED <<fetchRows, copy, wish>>

(* Mutant of Settled: whatever the copy has come to. *)
SettledOver(row) == row

(* settle_ready, settle_refused, settle_failed: WHERE state = 'pending'. *)
Settled(row) == IF copy.state = "pending" THEN row ELSE copy

SettleReady(w) ==
  /\ fetcher[w].at = "fetch"
  /\ copy' = Settled([copy EXCEPT !.state = "ready", !.text = fetcher[w].source])
  /\ FetchOn(w, "ok")
  /\ UNCHANGED <<fetchRows, wish>>

(* The instance's posture, or a 403: the job has done what it was for, unless *)
(* the outcome cannot be noted.                                             *)
SettleRefused(w) ==
  /\ fetcher[w].at = "fetch"
  /\ copy' = Settled([copy EXCEPT !.state = "refused", !.text = NoOrigin])
  /\ \E verdict \in {"ok", "transient"} : FetchOn(w, verdict)
  /\ UNCHANGED <<fetchRows, wish>>

(* No answer, or another one: the queue will try again. *)
SettleFailed(w) ==
  /\ fetcher[w].at = "fetch"
  /\ copy' = Settled([copy EXCEPT !.state = "failed", !.text = NoOrigin])
  /\ FetchOn(w, "transient")
  /\ UNCHANGED <<fetchRows, wish>>

FetchBreaks(w) ==
  /\ fetcher[w].at \in {"find", "fetch"}
  /\ FetchOn(w, "transient")
  /\ UNCHANGED <<fetchRows, copy, wish>>

(* record_outcome counts for the worker that still holds the row. *)
SettleFetch(w) ==
  /\ fetcher[w].at \in {"ok", "transient"}
  /\ LET j == fetcher[w].job IN
     IF fetchHolder[j] # w THEN UNCHANGED fetchRows
     ELSE \/ /\ Fetching!Settle(j)
             /\ (fetchPhase'[j] = "succeeded") = (fetcher[w].at = "ok")
          \/ fetcher[w].at = "transient" /\ Fetching!GiveBack({j})
  /\ fetcher' = [fetcher EXCEPT ![w] = NoFetch]
  /\ UNCHANGED <<copy, wish>>

KillFetcher(w) ==
  /\ fetcher[w].at # "idle"
  /\ fetcher' = [fetcher EXCEPT ![w] = NoFetch]
  /\ UNCHANGED <<fetchRows, copy, wish>>

(* A lease ends, whoever still runs; a row is cancelled, retried or purged. *)
FetchRowMoves ==
  /\ \E j \in FetchJobs :
       \/ Fetching!GiveBack({j}) \/ Fetching!Withdraw(j) \/ Fetching!Reopen(j)
       \/ Fetching!Forget({j})
  /\ UNCHANGED <<copy, wish, fetcher>>

-----------------------------------------------------------------------------
CopyNext ==
  \/ \E t \in CopyTabs :
       \/ \E s \in Origins : Ask(t, s)
       \/ WriteRequest(t) \/ ReadBack(t) \/ EnqueueFetch(t) \/ WishEnds(t)
  \/ \E w \in Fetchers :
       \/ \E j \in FetchJobs : TakeFetch(w, j)
       \/ FindCopy(w) \/ SettleReady(w) \/ SettleRefused(w) \/ SettleFailed(w)
       \/ FetchBreaks(w) \/ SettleFetch(w) \/ KillFetcher(w)
  \/ FetchRowMoves

CopySpec == CopyInit /\ [][CopyNext]_copyVars

-----------------------------------------------------------------------------
(* A text a reader has been given stays, as it was fetched: no second request, *)
(* no worker that has lost its lease and comes late with a failure, a refusal  *)
(* or another source's text takes it away (request_copy, settle_ready,        *)
(* settle_refused, settle_failed).                                          *)
FetchedBodyStays ==
  [][copy.state = "ready" => copy'.state = "ready" /\ copy'.text = copy.text]_copyVars
=============================================================================
