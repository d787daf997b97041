------------------------------- MODULE Outbox -------------------------------
(***************************************************************************)
(* The transactional outbox (crates/db/src/outbox.rs) and its delivery by   *)
(* the workers (Worker::deliver_outbox in crates/app/src/worker.rs).        *)
(*                                                                         *)
(* Events are numbered in the order of created_at, the order pending reads  *)
(* them in.  Nothing in the build sets claimed_at, so the filter on it is   *)
(* always true and the column is left out.  A worker reads a batch, runs    *)
(* the handler of each event's topic and marks the row; each of these is a  *)
(* step, and other workers run in between.                                  *)
(***************************************************************************)
EXTENDS Naturals, Sequences, FiniteSets

CONSTANTS
  Workers,
  Topics,
  TopicOf,      \* the topic of each event, in the order they are recorded
  Handles,      \* the topics each worker has a handler for
  Webhooks,     \* the topics whose handler posts to webhook endpoints
  Batch,        \* WorkerOptions::batch
  MaxFailures,  \* bound: failed posts and handler errors per event
  MaxCrashes    \* bound: workers killed

ASSUME OutboxAssumption ==
  /\ TopicOf \in Seq(Topics)
  /\ Handles \in [Workers -> SUBSET Topics]
  /\ Webhooks \subseteq Topics
  /\ Batch \in Nat \ {0}
  /\ MaxFailures \in Nat
  /\ MaxCrashes \in Nat

Events == 1..Len(TopicOf)

VARIABLES
  recorded,   \* rows of outbox_events: the events 1..recorded
  delivered,  \* rows with delivered_at set
  waiting,    \* rows whose available_at is in the future
  effects,    \* how often the handler's side effect happened, per event
  failures,   \* how often a post or a handler failed, per event
  batch,      \* what is left of the rows each worker has read
  pc,         \* "idle", "loop", or the mark it is about to write
  crashes

vars == <<recorded, delivered, waiting, effects, failures, batch, pc, crashes>>

Rows == 1..recorded

TypeOK ==
  /\ recorded \in Nat /\ Rows \subseteq Events
  /\ delivered \subseteq Rows
  /\ waiting \subseteq Rows
  /\ effects \in [Events -> Nat]
  /\ failures \in [Events -> Nat]
  /\ batch \in [Workers -> SUBSET Rows]
  /\ pc \in [Workers -> {"idle", "loop", "succeeded", "failed"}]
  /\ crashes \in 0..MaxCrashes

Init ==
  /\ recorded = 0
  /\ delivered = {}
  /\ waiting = {}
  /\ effects = [e \in Events |-> 0]
  /\ failures = [e \in Events |-> 0]
  /\ batch = [w \in Workers |-> {}]
  /\ pc = [w \in Workers |-> "idle"]
  /\ crashes = 0

-----------------------------------------------------------------------------
(* A publication, withdrawal, revision or edit commits, and its event with   *)
(* it.  A replay meets the dedupe key and records nothing.                  *)
Enqueue ==
  /\ recorded + 1 \in Events
  /\ recorded' = recorded + 1
  /\ UNCHANGED <<delivered, waiting, effects, failures, batch, pc, crashes>>

(* Mutant of Due: a query that sees rows not yet committed. *)
DueUncommitted == (Events \ delivered) \ waiting

(* Mutant of Due: a query that reads delivered rows again. *)
DueAgain == Rows \ waiting

(* What pending may return: undelivered and due. *)
Due == (Rows \ delivered) \ waiting

(* Mutant of Oldest: a batch one short. *)
OldestButOne(rows) == {e \in rows : Cardinality({d \in rows : d < e}) < Batch - 1}

Oldest(rows) == {e \in rows : Cardinality({d \in rows : d < e}) < Batch}

(* pending: the oldest due rows, as many as a batch holds. *)
Pending(w) ==
  /\ pc[w] = "idle"
  /\ batch' = [batch EXCEPT ![w] = Oldest(Due)]
  /\ pc' = [pc EXCEPT ![w] = "loop"]
  /\ UNCHANGED <<recorded, delivered, waiting, effects, failures, crashes>>

(* The event the loop is at. *)
Current(w, e) == e \in batch[w] /\ \A d \in batch[w] : e <= d

(* No handler for the topic: deferred, the row is left alone. *)
Defer(w, e) ==
  /\ pc[w] = "loop"
  /\ Current(w, e)
  /\ TopicOf[e] \notin Handles[w]
  /\ batch' = [batch EXCEPT ![w] = @ \ {e}]
  /\ UNCHANGED <<recorded, delivered, waiting, effects, failures, pc, crashes>>

(* The handler has its effect and returns success. *)
HandlerSucceeds(w, e) ==
  /\ pc[w] = "loop"
  /\ Current(w, e)
  /\ TopicOf[e] \in Handles[w]
  /\ effects' = [effects EXCEPT ![e] = @ + 1]
  /\ pc' = [pc EXCEPT ![w] = "succeeded"]
  /\ UNCHANGED <<recorded, delivered, waiting, failures, batch, crashes>>

(* The post to a webhook endpoint fails.  deliver_notification logs it in    *)
(* webhook_deliveries and returns success all the same.                     *)
PostFails(w, e) ==
  /\ pc[w] = "loop"
  /\ Current(w, e)
  /\ TopicOf[e] \in Handles[w] \cap Webhooks
  /\ failures[e] < MaxFailures
  /\ failures' = [failures EXCEPT ![e] = @ + 1]
  /\ pc' = [pc EXCEPT ![w] = "succeeded"]
  /\ UNCHANGED <<recorded, delivered, waiting, effects, batch, crashes>>

(* The handler returns an error. *)
HandlerFails(w, e) ==
  /\ pc[w] = "loop"
  /\ Current(w, e)
  /\ TopicOf[e] \in Handles[w]
  /\ failures[e] < MaxFailures
  /\ failures' = [failures EXCEPT ![e] = @ + 1]
  /\ pc' = [pc EXCEPT ![w] = "failed"]
  /\ UNCHANGED <<recorded, delivered, waiting, effects, batch, crashes>>

(* mark_delivered *)
MarkDelivered(w, e) ==
  /\ pc[w] = "succeeded"
  /\ Current(w, e)
  /\ delivered' = delivered \cup {e}
  /\ batch' = [batch EXCEPT ![w] = @ \ {e}]
  /\ pc' = [pc EXCEPT ![w] = "loop"]
  /\ UNCHANGED <<recorded, waiting, effects, failures, crashes>>

(* Mutant of MarkFailed: the attempt ends the event as a success does. *)
MarkFailedAsDelivered(w, e) ==
  /\ pc[w] = "failed"
  /\ Current(w, e)
  /\ delivered' = delivered \cup {e}
  /\ batch' = [batch EXCEPT ![w] = @ \ {e}]
  /\ pc' = [pc EXCEPT ![w] = "loop"]
  /\ UNCHANGED <<recorded, waiting, effects, failures, crashes>>

(* mark_failed: the row waits for its next attempt. *)
MarkFailed(w, e) ==
  /\ pc[w] = "failed"
  /\ Current(w, e)
  /\ waiting' = waiting \cup {e}
  /\ batch' = [batch EXCEPT ![w] = @ \ {e}]
  /\ pc' = [pc EXCEPT ![w] = "loop"]
  /\ UNCHANGED <<recorded, delivered, effects, failures, crashes>>

(* The batch is through; the pass goes on to a job, then to the next pass. *)
BatchDone(w) ==
  /\ pc[w] = "loop"
  /\ batch[w] = {}
  /\ pc' = [pc EXCEPT ![w] = "idle"]
  /\ UNCHANGED <<recorded, delivered, waiting, effects, failures, batch, crashes>>

(* The clock passes a row's available_at. *)
FallsDue(e) ==
  /\ e \in waiting
  /\ waiting' = waiting \ {e}
  /\ UNCHANGED <<recorded, delivered, effects, failures, batch, pc, crashes>>

(* A worker is killed, and another started in its place. *)
Crash(w) ==
  /\ crashes < MaxCrashes
  /\ crashes' = crashes + 1
  /\ batch' = [batch EXCEPT ![w] = {}]
  /\ pc' = [pc EXCEPT ![w] = "idle"]
  /\ UNCHANGED <<recorded, delivered, waiting, effects, failures>>

-----------------------------------------------------------------------------
AtEvent(w, e) ==
  \/ Defer(w, e) \/ HandlerSucceeds(w, e) \/ PostFails(w, e) \/ HandlerFails(w, e)
  \/ MarkDelivered(w, e) \/ MarkFailed(w, e)

Pass(w) == Pending(w) \/ BatchDone(w) \/ \E e \in Events : AtEvent(w, e)

Next ==
  \/ Enqueue
  \/ \E w \in Workers : Pass(w) \/ Crash(w)
  \/ \E e \in Events : FallsDue(e)

Spec == Init /\ [][Next]_vars

(* A worker polls for as long as it runs, and the clock goes on. *)
FairSpec ==
  /\ Spec
  /\ \A w \in Workers : WF_vars(Pass(w))
  /\ \A e \in Events : WF_vars(FallsDue(e))

-----------------------------------------------------------------------------
(* Properties *)

(* "An event is deleted only after its handler returns success": a row is    *)
(* marked only once its handler has run and had its effect, whatever other   *)
(* workers did to the row meanwhile.  (A webhook's post may have failed.)    *)
DeliveredWasHandled ==
  \A e \in delivered :
    effects[e] > 0 \/ (TopicOf[e] \in Webhooks /\ failures[e] > 0)

(* A delivered row stays delivered, though a slower worker still fails on it; *)
(* and its side effect is repeated only by a worker that read the row before  *)
(* it was marked: no batch gains a delivered row, so once the workers that    *)
(* hold it are through with it, the event is over for good.                  *)
OverIsOver ==
  [][/\ delivered \subseteq delivered'
     /\ \A e \in delivered : \A w \in Workers : e \notin batch[w] => e \notin batch'[w]]_vars

(* "Delivery is at least once" (spec.md): an event some worker can deliver is *)
(* delivered in the end, as long as the events nobody handles do not fill a  *)
(* whole batch.                                                             *)
Deliverable(e) == \E w \in Workers : TopicOf[e] \in Handles[w]
EveryEventIsDelivered ==
  \A e \in Events : (e \in Rows /\ Deliverable(e)) ~> e \in delivered
=============================================================================
