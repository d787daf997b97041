---------------------------- MODULE OutboxProofs ----------------------------
(***************************************************************************)
(* Proofs about Outbox, for any events, workers, handlers and batch size:   *)
(* what a delivery mark vouches for, and that it is final.                  *)
(***************************************************************************)
EXTENDS Outbox, TLAPS

LEMMA EventsAreNumbers == Events \subseteq Nat /\ TopicOf \in [Events -> Topics]
BY OutboxAssumption DEF Events

(* A loop is at one event at a time. *)
LEMMA CurrentIsUnique ==
  ASSUME TypeOK, NEW w \in Workers, NEW d, NEW e, Current(w, d), Current(w, e)
  PROVE  d = e
<1>1. d \in Nat /\ e \in Nat
  BY EventsAreNumbers DEF TypeOK, Current, Rows
<1> QED
  BY <1>1 DEF Current

-----------------------------------------------------------------------------
LEMMA TypeStep == TypeOK /\ [Next]_vars => TypeOK'
<1> SUFFICES ASSUME TypeOK, [Next]_vars PROVE TypeOK'
  OBVIOUS
<1> USE OutboxAssumption, EventsAreNumbers DEF TypeOK, Rows
<1>1. CASE Enqueue
  <2>1. recorded + 1 \in Nat /\ recorded' = recorded + 1 /\ recorded' \in Events
    BY <1>1 DEF Enqueue
  <2>2. 1..recorded \subseteq 1..recorded'
    BY <2>1
  <2>3. 1..recorded' \subseteq Events
    BY <2>1 DEF Events
  <2> QED
    BY <1>1, <2>1, <2>2, <2>3 DEF Enqueue
<1>2. ASSUME NEW w \in Workers, Pending(w) PROVE TypeOK'
  BY <1>2 DEF Pending, Oldest, Due
<1>3. ASSUME NEW w \in Workers, BatchDone(w) PROVE TypeOK'
  BY <1>3 DEF BatchDone
<1>4. ASSUME NEW w \in Workers, NEW e \in Events, Defer(w, e) PROVE TypeOK'
  BY <1>4 DEF Defer, Current
<1>5. ASSUME NEW w \in Workers, NEW e \in Events, HandlerSucceeds(w, e) PROVE TypeOK'
  <2>1. effects[e] + 1 \in Nat
    OBVIOUS
  <2>2. effects' \in [Events -> Nat]
    BY <1>5, <2>1, Zenon DEF HandlerSucceeds
  <2>3. pc' \in [Workers -> {"idle", "loop", "succeeded", "failed"}]
    BY <1>5 DEF HandlerSucceeds
  <2> QED
    BY <1>5, <2>2, <2>3 DEF HandlerSucceeds
<1>6. ASSUME NEW w \in Workers, NEW e \in Events, PostFails(w, e) PROVE TypeOK'
  <2>1. failures[e] + 1 \in Nat
    OBVIOUS
  <2>2. failures' \in [Events -> Nat]
    BY <1>6, <2>1, Zenon DEF PostFails
  <2>3. pc' \in [Workers -> {"idle", "loop", "succeeded", "failed"}]
    BY <1>6 DEF PostFails
  <2> QED
    BY <1>6, <2>2, <2>3 DEF PostFails
<1>7. ASSUME NEW w \in Workers, NEW e \in Events, HandlerFails(w, e) PROVE TypeOK'
  <2>1. failures[e] + 1 \in Nat
    OBVIOUS
  <2>2. failures' \in [Events -> Nat]
    BY <1>7, <2>1, Zenon DEF HandlerFails
  <2>3. pc' \in [Workers -> {"idle", "loop", "succeeded", "failed"}]
    BY <1>7 DEF HandlerFails
  <2> QED
    BY <1>7, <2>2, <2>3 DEF HandlerFails
<1>8. ASSUME NEW w \in Workers, NEW e \in Events, MarkDelivered(w, e) PROVE TypeOK'
  BY <1>8 DEF MarkDelivered, Current
<1>9. ASSUME NEW w \in Workers, NEW e \in Events, MarkFailed(w, e) PROVE TypeOK'
  BY <1>9 DEF MarkFailed, Current
<1>10. ASSUME NEW w \in Workers, Crash(w) PROVE TypeOK'
  BY <1>10 DEF Crash
<1>11. ASSUME NEW e \in Events, FallsDue(e) PROVE TypeOK'
  BY <1>11 DEF FallsDue
<1>12. CASE UNCHANGED vars
  BY <1>12 DEF vars
<1> QED
  BY <1>1, <1>2, <1>3, <1>4, <1>5, <1>6, <1>7, <1>8, <1>9, <1>10, <1>11, <1>12
  DEF Next, Pass, AtEvent

LEMMA TypeInit == Init => TypeOK
<1> SUFFICES ASSUME Init PROVE TypeOK
  OBVIOUS
<1>1. Rows = {}
  BY DEF Init, Rows
<1> QED
  BY <1>1, OutboxAssumption DEF Init, TypeOK

(* TypeOK holds in every reachable state of the outbox: in particular no     *)
(* mark is made for a row that was never recorded.                          *)
THEOREM TypeCorrect == Spec => []TypeOK
BY TypeInit, TypeStep, PTL DEF Spec

-----------------------------------------------------------------------------
Handled(e) == effects[e] > 0 \/ (TopicOf[e] \in Webhooks /\ failures[e] > 0)

(* A worker about to mark an event delivered has run its handler. *)
MarkIsEarned ==
  \A w \in Workers, e \in Events :
    pc[w] = "succeeded" /\ Current(w, e) => Handled(e)

Earned == TypeOK /\ MarkIsEarned /\ DeliveredWasHandled

(* What was handled stays handled: the counters never go down. *)
LEMMA HandledStays ==
  ASSUME TypeOK, Next, NEW e \in Events, Handled(e)
  PROVE  Handled(e)'
<1> USE DEF TypeOK, Handled
<1>1. ASSUME NEW w \in Workers, NEW d \in Events, AtEvent(w, d) PROVE Handled(e)'
  BY <1>1 DEF AtEvent, Defer, HandlerSucceeds, PostFails, HandlerFails, MarkDelivered, MarkFailed
<1>2. ASSUME NEW w \in Workers, Pending(w) \/ BatchDone(w) \/ Crash(w) PROVE Handled(e)'
  BY <1>2 DEF Pending, BatchDone, Crash
<1>3. ASSUME NEW d \in Events, FallsDue(d) PROVE Handled(e)'
  BY <1>3 DEF FallsDue
<1>4. ASSUME Enqueue PROVE Handled(e)'
  BY <1>4 DEF Enqueue
<1> QED
  BY <1>1, <1>2, <1>3, <1>4 DEF Next, Pass

LEMMA EarnedStep == Earned /\ [Next]_vars => Earned'
<1> SUFFICES ASSUME Earned, [Next]_vars PROVE Earned'
  OBVIOUS
<1>0. TypeOK /\ TypeOK'
  BY TypeStep DEF Earned
<1>1. ASSUME Next PROVE MarkIsEarned'
  <2> SUFFICES ASSUME NEW w \in Workers, NEW e \in Events,
                      pc'[w] = "succeeded", Current(w, e)'
               PROVE  Handled(e)'
    BY DEF MarkIsEarned
  <2>1. CASE pc[w] = "succeeded" /\ Current(w, e)
    BY <2>1, <1>0, <1>1, HandledStays DEF Earned, MarkIsEarned
  <2>2. CASE ~(pc[w] = "succeeded" /\ Current(w, e))
    <3>1. ASSUME NEW v \in Workers, Pass(v) \/ Crash(v) PROVE Handled(e)'
      <4>1. CASE v # w
        <5>1. pc'[w] = pc[w] /\ batch'[w] = batch[w]
          BY <3>1, <4>1, <1>0 DEF Pass, AtEvent, Pending, BatchDone, Defer, HandlerSucceeds,
             PostFails, HandlerFails, MarkDelivered, MarkFailed, Crash, TypeOK
        <5> QED
          BY <5>1, <2>2 DEF Current
      <4>2. CASE v = w
        <5>1. PICK d \in Events : HandlerSucceeds(w, d) \/ PostFails(w, d)
          BY <3>1, <4>2, <1>0, <2>2 DEF Pass, AtEvent, Pending, BatchDone, Defer, HandlerFails,
             MarkDelivered, MarkFailed, Crash, TypeOK
        <5>2. batch' = batch /\ Current(w, d)
          BY <5>1 DEF HandlerSucceeds, PostFails
        <5>3. Current(w, e)
          BY <5>2 DEF Current
        <5>4. d = e
          BY <5>2, <5>3, <1>0, CurrentIsUnique
        <5> QED
          BY <5>1, <5>4, <1>0 DEF HandlerSucceeds, PostFails, Handled, TypeOK
      <4> QED
        BY <4>1, <4>2
    <3>2. ASSUME Enqueue \/ \E d \in Events : FallsDue(d) PROVE Handled(e)'
      BY <3>2, <2>2 DEF Enqueue, FallsDue, Current
    <3> QED
      BY <1>1, <3>1, <3>2 DEF Next
  <2> QED
    BY <2>1, <2>2
<1>2. ASSUME Next PROVE DeliveredWasHandled'
  <2> SUFFICES ASSUME NEW e \in delivered' PROVE Handled(e)'
    BY DEF DeliveredWasHandled, Handled
  <2>1. e \in Events
    BY <1>0 DEF TypeOK
  <2>2. CASE e \in delivered
    BY <2>1, <2>2, <1>0, <1>2, HandledStays DEF Earned, DeliveredWasHandled, Handled
  <2>3. CASE e \notin delivered
    <3>1. PICK w \in Workers : MarkDelivered(w, e)
      BY <1>2, <2>3 DEF Next, Pass, AtEvent, Enqueue, FallsDue, Pending, BatchDone, Defer,
         HandlerSucceeds, PostFails, HandlerFails, MarkDelivered, MarkFailed, Crash
    <3>2. Handled(e)
      BY <3>1, <2>1 DEF MarkDelivered, Earned, MarkIsEarned
    <3> QED
      BY <3>2, <2>1, <1>0, <1>2, HandledStays
  <2> QED
    BY <2>2, <2>3
<1>3. CASE UNCHANGED vars
  BY <1>3, <1>0 DEF Earned, MarkIsEarned, DeliveredWasHandled, Handled, Current, vars
<1> QED
  BY <1>0, <1>1, <1>2, <1>3 DEF Earned

(* A delivered mark vouches for the handler: whatever interleaving, failure  *)
(* or crash, no row is marked delivered that no handler has run for.        *)
THEOREM MarksAreEarned == Spec => []DeliveredWasHandled
<1>1. Init => Earned
  BY TypeInit DEF Init, Earned, MarkIsEarned, DeliveredWasHandled
<1>2. Earned => DeliveredWasHandled
  BY DEF Earned
<1> QED
  BY <1>1, <1>2, EarnedStep, PTL DEF Spec

-----------------------------------------------------------------------------
(* A delivered row stays delivered: a slower worker's mark_failed moves its  *)
(* available_at, never its delivered_at.                                    *)
LEMMA DeliveryIsFinal == ASSUME Next PROVE delivered \subseteq delivered'
  BY DEF Next, Pass, AtEvent, Enqueue, FallsDue, Pending, BatchDone, Defer, HandlerSucceeds,
     PostFails, HandlerFails, MarkDelivered, MarkFailed, Crash

(* A delivered event enters no batch, so its side effect is repeated only by *)
(* a worker that read the row before the mark.                              *)
THEOREM RepeatsNeedAStaleBatch == Spec => OverIsOver
<1> DEFINE Over ==
      /\ delivered \subseteq delivered'
      /\ \A e \in delivered : \A w \in Workers : e \notin batch[w] => e \notin batch'[w]
<1>1. TypeOK /\ [Next]_vars => [Over]_vars
  <2> SUFFICES ASSUME TypeOK, Next, NEW e \in delivered, NEW w \in Workers, e \notin batch[w]
               PROVE  e \notin batch'[w]
    BY DeliveryIsFinal DEF vars
  <2>1. ASSUME NEW v \in Workers, Pending(v)
        PROVE  e \notin batch'[w]
    BY <2>1 DEF Pending, Oldest, Due, TypeOK
  <2>2. ASSUME NEW v \in Workers, Crash(v)
        PROVE  e \notin batch'[w]
    BY <2>2 DEF Crash, TypeOK
  <2>3. ASSUME NEW v \in Workers, NEW d \in Events, AtEvent(v, d)
        PROVE  e \notin batch'[w]
    BY <2>3 DEF AtEvent, Defer, HandlerSucceeds, PostFails, HandlerFails,
       MarkDelivered, MarkFailed, TypeOK
  <2>4. CASE Enqueue \/ \E d \in Events : FallsDue(d)
    BY <2>4 DEF Enqueue, FallsDue
  <2>5. ASSUME NEW v \in Workers, BatchDone(v)
        PROVE  e \notin batch'[w]
    BY <2>5 DEF BatchDone
  <2> QED
    BY <2>1, <2>2, <2>3, <2>4, <2>5 DEF Next, Pass
<1> QED
  BY <1>1, TypeInit, TypeStep, PTL DEF Spec, OverIsOver
=============================================================================
