--------------------------- MODULE JobQueueProofs ---------------------------
(***************************************************************************)
(* Proofs about JobQueue, for every set of jobs and workers and all limits *)
(* that QueueAssumption allows.  IndInv is inductive: one lemma per action *)
(* shows that the action preserves it, conjunct by conjunct.  The safety   *)
(* theorems and the refinement of JobLife follow.                          *)
(***************************************************************************)
EXTENDS JobQueue, FiniteSetTheorems, TLAPS

(* A part of a set with one more element has at most one more.             *)
LEMMA PartOfOneMore ==
  ASSUME NEW S, IsFiniteSet(S), NEW x, NEW T, T \subseteq S \cup {x}
  PROVE  /\ Cardinality(T) \in Nat /\ Cardinality(S) \in Nat
         /\ Cardinality(T) <= Cardinality(S) + 1
<1>1. IsFiniteSet(S \cup {x}) /\ Cardinality(S \cup {x}) \in Nat /\ Cardinality(S) \in Nat
  BY FS_AddElement, FS_CardinalityType
<1>2. Cardinality(S \cup {x}) = IF x \in S THEN Cardinality(S) ELSE Cardinality(S) + 1
  BY FS_AddElement
<1>3. IsFiniteSet(T) /\ Cardinality(T) \in Nat /\ Cardinality(T) <= Cardinality(S \cup {x})
  BY <1>1, FS_Subset, FS_CardinalityType
<1> QED
  BY <1>1, <1>2, <1>3

USE QueueAssumption
USE DEF QueueAssumption, States, Stored, Held, Terminal, Stages, Holding,
        Verdicts, Outcomes, jobVars, workerVars, logVars

(* A finished row stays explained when its state stays, its closed attempts  *)
(* stay, and an open attempt that explains it stays or is closed so.         *)
LEMMA StillExplained ==
  ASSUME HistoryExplainsOutcome, NEW i \in Jobs,
         state[i] \in {"succeeded", "failed"}, state'[i] = state[i],
         history[i] \subseteq history'[i],
         \A v \in Workers : <<i, v>> \in making /\ pc[v] \in {"closing", "gone"} =>
           \/ <<i, v>> \in making' /\ verdict'[v] = verdict[v] /\ pc'[v] \in {"closing", "gone"}
           \/ verdict[v] \in history'[i]
  PROVE  Explained(i)'
  BY DEF HistoryExplainsOutcome, Explained

LEMMA InitInv == Init => IndInv
  BY DEF Init, IndInv, TypeOK, LeaseCoherent, HolderIsAtWork,
         OpenAttemptIsBeingMade, StagesCoherent, HistoryExplainsOutcome

(* A new row has no owner and nothing has worked on it.                      *)
LEMMA EnqueueInv ==
  ASSUME IndInv, NEW j \in Jobs, Enqueue(j)
  PROVE  IndInv'
<1>1. TypeOK'
  BY DEF IndInv, Enqueue, TypeOK, StagesCoherent
<1>2. LeaseCoherent'
  BY DEF IndInv, Enqueue, TypeOK, LeaseCoherent, StagesCoherent
<1>3. HolderIsAtWork'
  BY DEF IndInv, Enqueue, TypeOK, LeaseCoherent, HolderIsAtWork, StagesCoherent
<1>4. OpenAttemptIsBeingMade'
  BY DEF IndInv, Enqueue, TypeOK, OpenAttemptIsBeingMade, StagesCoherent
<1>5. StagesCoherent'
  BY DEF IndInv, Enqueue, TypeOK, LeaseCoherent, StagesCoherent
<1>6. HistoryExplainsOutcome'
  <2> SUFFICES ASSUME NEW i \in Jobs, state'[i] \in {"succeeded", "failed"}
               PROVE Explained(i)'
    BY DEF HistoryExplainsOutcome
  <2>1. state'[i] = state[i]
    BY DEF IndInv, TypeOK, Enqueue, StagesCoherent
  <2>2. history[i] \subseteq history'[i]
    BY <2>1 DEF IndInv, TypeOK, Enqueue
  <2>3. \A v \in Workers : <<i, v>> \in making /\ pc[v] \in {"closing", "gone"} =>
          \/ <<i, v>> \in making' /\ verdict'[v] = verdict[v] /\ pc'[v] \in {"closing", "gone"}
          \/ verdict[v] \in history'[i]
    BY <2>1 DEF IndInv, TypeOK, Enqueue, OpenAttemptIsBeingMade, StagesCoherent
  <2> QED
    BY <2>1, <2>2, <2>3, StillExplained DEF IndInv
<1> QED
  BY <1>1, <1>2, <1>3, <1>4, <1>5, <1>6 DEF IndInv

(* A picked row is locked, so no claim is between its two halves on it.      *)
LEMMA CancelInv ==
  ASSUME IndInv, NEW j \in Jobs, Cancel(j)
  PROVE  IndInv'
<1>1. TypeOK'
  BY DEF IndInv, Cancel, Released, Locked, TypeOK, StagesCoherent
<1>2. LeaseCoherent'
  BY DEF IndInv, Cancel, Released, Locked,
         TypeOK, LeaseCoherent, StagesCoherent
<1>3. HolderIsAtWork'
  BY DEF IndInv, Cancel, Released, Locked,
         TypeOK, LeaseCoherent, HolderIsAtWork, StagesCoherent
<1>4. OpenAttemptIsBeingMade'
  BY DEF IndInv, Cancel, Released, Locked,
         TypeOK, OpenAttemptIsBeingMade, StagesCoherent
<1>5. StagesCoherent'
  BY DEF IndInv, Cancel, Released, Locked,
         TypeOK, LeaseCoherent, StagesCoherent
<1>6. HistoryExplainsOutcome'
  <2> SUFFICES ASSUME NEW i \in Jobs, state'[i] \in {"succeeded", "failed"}
               PROVE Explained(i)'
    BY DEF HistoryExplainsOutcome
  <2>1. state'[i] = state[i]
    BY DEF IndInv, TypeOK, Cancel, Released, Locked, StagesCoherent
  <2>2. history[i] \subseteq history'[i]
    BY <2>1 DEF IndInv, TypeOK, Cancel, Released, Locked
  <2>3. \A v \in Workers : <<i, v>> \in making /\ pc[v] \in {"closing", "gone"} =>
          \/ <<i, v>> \in making' /\ verdict'[v] = verdict[v] /\ pc'[v] \in {"closing", "gone"}
          \/ verdict[v] \in history'[i]
    BY <2>1 DEF IndInv, TypeOK, Cancel, Released, Locked,
           OpenAttemptIsBeingMade, StagesCoherent
  <2> QED
    BY <2>1, <2>2, <2>3, StillExplained DEF IndInv
<1> QED
  BY <1>1, <1>2, <1>3, <1>4, <1>5, <1>6 DEF IndInv

(* A finished row has no owner, and is not picked.                           *)
LEMMA RequeueInv ==
  ASSUME IndInv, NEW j \in Jobs, Requeue(j)
  PROVE  IndInv'
<1>1. TypeOK'
  BY DEF IndInv, Requeue, Released, TypeOK, StagesCoherent
<1>2. LeaseCoherent'
  BY DEF IndInv, Requeue, Released, TypeOK, LeaseCoherent, StagesCoherent
<1>3. HolderIsAtWork'
  BY DEF IndInv, Requeue, Released,
         TypeOK, LeaseCoherent, HolderIsAtWork, StagesCoherent
<1>4. OpenAttemptIsBeingMade'
  BY DEF IndInv, Requeue, Released,
         TypeOK, OpenAttemptIsBeingMade, StagesCoherent
<1>5. StagesCoherent'
  BY DEF IndInv, Requeue, Released, TypeOK, LeaseCoherent, StagesCoherent
<1>6. HistoryExplainsOutcome'
  <2> SUFFICES ASSUME NEW i \in Jobs, state'[i] \in {"succeeded", "failed"}
               PROVE Explained(i)'
    BY DEF HistoryExplainsOutcome
  <2>1. state'[i] = state[i]
    BY DEF IndInv, TypeOK, Requeue, Released, StagesCoherent
  <2>2. history[i] \subseteq history'[i]
    BY <2>1 DEF IndInv, TypeOK, Requeue, Released
  <2>3. \A v \in Workers : <<i, v>> \in making /\ pc[v] \in {"closing", "gone"} =>
          \/ <<i, v>> \in making' /\ verdict'[v] = verdict[v] /\ pc'[v] \in {"closing", "gone"}
          \/ verdict[v] \in history'[i]
    BY <2>1 DEF IndInv, TypeOK, Requeue, Released, OpenAttemptIsBeingMade,
           StagesCoherent
  <2> QED
    BY <2>1, <2>2, <2>3, StillExplained DEF IndInv
<1> QED
  BY <1>1, <1>2, <1>3, <1>4, <1>5, <1>6 DEF IndInv

(* The claimed row was queued, and the worker had no row before.             *)
LEMMA ClaimNextInv ==
  ASSUME IndInv, NEW w \in Workers, ClaimNext(w)
  PROVE  IndInv'
<1>1. TypeOK'
  BY DEF IndInv, ClaimNext, NextUp, Runnable, Locked, TakeLease, Bump,
         TypeOK, StagesCoherent
<1>2. LeaseCoherent'
  BY DEF IndInv, ClaimNext, NextUp, Runnable, Locked, TakeLease, Bump,
         TypeOK, LeaseCoherent, StagesCoherent
<1>3. HolderIsAtWork'
  BY DEF IndInv, ClaimNext, NextUp, Runnable, Locked, TakeLease, Bump,
         TypeOK, LeaseCoherent, HolderIsAtWork, StagesCoherent
<1>4. OpenAttemptIsBeingMade'
  BY DEF IndInv, ClaimNext, NextUp, Runnable, Locked, TakeLease, Bump,
         TypeOK, OpenAttemptIsBeingMade, StagesCoherent
<1>5. StagesCoherent'
  BY DEF IndInv, ClaimNext, NextUp, Runnable, Locked, TakeLease, Bump,
         TypeOK, LeaseCoherent, StagesCoherent
<1>6. HistoryExplainsOutcome'
  <2> SUFFICES ASSUME NEW i \in Jobs, state'[i] \in {"succeeded", "failed"}
               PROVE Explained(i)'
    BY DEF HistoryExplainsOutcome
  <2>1. state'[i] = state[i]
    BY DEF IndInv, TypeOK, ClaimNext, NextUp, Runnable, Locked, TakeLease,
           Bump, StagesCoherent
  <2>2. history[i] \subseteq history'[i]
    BY <2>1 DEF IndInv, TypeOK, ClaimNext, NextUp, Runnable, Locked, TakeLease,
           Bump
  <2>3. \A v \in Workers : <<i, v>> \in making /\ pc[v] \in {"closing", "gone"} =>
          \/ <<i, v>> \in making' /\ verdict'[v] = verdict[v] /\ pc'[v] \in {"closing", "gone"}
          \/ verdict[v] \in history'[i]
    BY <2>1 DEF IndInv, TypeOK, ClaimNext, NextUp, Runnable, Locked, TakeLease,
           Bump, OpenAttemptIsBeingMade, StagesCoherent
  <2> QED
    BY <2>1, <2>2, <2>3, StillExplained DEF IndInv
<1> QED
  BY <1>1, <1>2, <1>3, <1>4, <1>5, <1>6 DEF IndInv

(* The picked row is queued and picked by nobody else.                       *)
LEMMA PickRowInv ==
  ASSUME IndInv, NEW w \in Workers, PickRow(w)
  PROVE  IndInv'
<1>1. TypeOK'
  BY DEF IndInv, PickRow, NextUp, Runnable, Locked, TypeOK, StagesCoherent
<1>2. LeaseCoherent'
  BY DEF IndInv, PickRow, NextUp, Runnable, Locked,
         TypeOK, LeaseCoherent, StagesCoherent
<1>3. HolderIsAtWork'
  BY DEF IndInv, PickRow, NextUp, Runnable, Locked,
         TypeOK, LeaseCoherent, HolderIsAtWork, StagesCoherent
<1>4. OpenAttemptIsBeingMade'
  BY DEF IndInv, PickRow, NextUp, Runnable, Locked,
         TypeOK, OpenAttemptIsBeingMade, StagesCoherent
<1>5. StagesCoherent'
  BY DEF IndInv, PickRow, NextUp, Runnable, Locked,
         TypeOK, LeaseCoherent, StagesCoherent
<1>6. HistoryExplainsOutcome'
  <2> SUFFICES ASSUME NEW i \in Jobs, state'[i] \in {"succeeded", "failed"}
               PROVE Explained(i)'
    BY DEF HistoryExplainsOutcome
  <2>1. state'[i] = state[i]
    BY DEF IndInv, TypeOK, PickRow, NextUp, Runnable, Locked, StagesCoherent
  <2>2. history[i] \subseteq history'[i]
    BY <2>1 DEF IndInv, TypeOK, PickRow, NextUp, Runnable, Locked
  <2>3. \A v \in Workers : <<i, v>> \in making /\ pc[v] \in {"closing", "gone"} =>
          \/ <<i, v>> \in making' /\ verdict'[v] = verdict[v] /\ pc'[v] \in {"closing", "gone"}
          \/ verdict[v] \in history'[i]
    BY <2>1 DEF IndInv, TypeOK, PickRow, NextUp, Runnable, Locked,
           OpenAttemptIsBeingMade, StagesCoherent
  <2> QED
    BY <2>1, <2>2, <2>3, StillExplained DEF IndInv
<1> QED
  BY <1>1, <1>2, <1>3, <1>4, <1>5, <1>6 DEF IndInv

(* The picked row is still queued when its lease is written.                 *)
LEMMA TakeRowInv ==
  ASSUME IndInv, NEW w \in Workers, TakeRow(w)
  PROVE  IndInv'
<1>0. task[w] \in Jobs /\ state[task[w]] = "queued"
  BY DEF IndInv, TakeRow, StagesCoherent
<1>1. TypeOK'
  <2>0. LeaseTime \in 0..LeaseTime
    OBVIOUS
  <2>1. (state \in [Jobs -> States])'
    BY <1>0, <2>0 DEF IndInv, TakeRow, TakeLease, TypeOK
  <2>2. (attempts \in [Jobs -> 0..AttemptCap])'
    BY <1>0, <2>0 DEF IndInv, TakeRow, TakeLease, TypeOK
  <2>3. (owner \in [Jobs -> Workers \cup {NoOne}])'
    BY <1>0, <2>0 DEF IndInv, TakeRow, TakeLease, TypeOK
  <2>4. (lease \in [Jobs -> 0..LeaseTime])'
    BY <1>0, <2>0 DEF IndInv, TakeRow, TakeLease, TypeOK
  <2>5. (delay \in [Jobs -> 0..RetryDelay])'
    BY <1>0, <2>0 DEF IndInv, TakeRow, TakeLease, TypeOK
  <2>6. (kept \in [Jobs -> 0..Retention])'
    BY <1>0, <2>0 DEF IndInv, TakeRow, TakeLease, TypeOK
  <2>7. (making \subseteq Jobs \X Workers)'
    BY <1>0, <2>0 DEF IndInv, TakeRow, TakeLease, TypeOK
  <2>8. (history \in [Jobs -> SUBSET Outcomes])'
    BY <1>0, <2>0 DEF IndInv, TakeRow, TakeLease, TypeOK
  <2>9. (pc \in [Workers -> Stages])'
    BY <1>0, <2>0 DEF IndInv, TakeRow, TakeLease, TypeOK
  <2>10. (task \in [Workers -> Jobs \cup {NoOne}])'
    BY <1>0, <2>0 DEF IndInv, TakeRow, TakeLease, TypeOK
  <2>11. (attempt \in [Workers -> 0..AttemptCap])'
    BY <1>0, <2>0 DEF IndInv, TakeRow, TakeLease, TypeOK
  <2>12. (verdict \in [Workers -> Verdicts])'
    BY <1>0, <2>0 DEF IndInv, TakeRow, TakeLease, TypeOK
  <2> QED
    BY <2>1, <2>2, <2>3, <2>4, <2>5, <2>6, <2>7, <2>8, <2>9, <2>10,
       <2>11, <2>12 DEF TypeOK
<1>2. LeaseCoherent'
  BY <1>0 DEF IndInv, TakeRow, TakeLease, TypeOK, LeaseCoherent, StagesCoherent
<1>3. HolderIsAtWork'
  BY <1>0 DEF IndInv, TakeRow, TakeLease,
         TypeOK, LeaseCoherent, HolderIsAtWork, StagesCoherent
<1>4. OpenAttemptIsBeingMade'
  BY <1>0 DEF IndInv, TakeRow, TakeLease,
         TypeOK, OpenAttemptIsBeingMade, StagesCoherent
<1>5. StagesCoherent'
  BY <1>0 DEF IndInv, TakeRow, TakeLease, TypeOK, LeaseCoherent, StagesCoherent
<1>6. HistoryExplainsOutcome'
  <2> SUFFICES ASSUME NEW i \in Jobs, state'[i] \in {"succeeded", "failed"}
               PROVE Explained(i)'
    BY DEF HistoryExplainsOutcome
  <2>1. state'[i] = state[i]
    BY DEF IndInv, TypeOK, TakeRow, TakeLease, Bump, StagesCoherent
  <2>2. history[i] \subseteq history'[i]
    BY <2>1 DEF IndInv, TypeOK, TakeRow, TakeLease, Bump
  <2>3. \A v \in Workers : <<i, v>> \in making /\ pc[v] \in {"closing", "gone"} =>
          \/ <<i, v>> \in making' /\ verdict'[v] = verdict[v] /\ pc'[v] \in {"closing", "gone"}
          \/ verdict[v] \in history'[i]
    BY <2>1 DEF IndInv, TypeOK, TakeRow, TakeLease, Bump,
           OpenAttemptIsBeingMade, StagesCoherent
  <2> QED
    BY <2>1, <2>2, <2>3, StillExplained DEF IndInv
<1> QED
  BY <1>1, <1>2, <1>3, <1>4, <1>5, <1>6 DEF IndInv

(* The worker goes on with the row, or lets go of one that is purged.       *)
LEMMA ReadRowInv ==
  ASSUME IndInv, NEW w \in Workers, ReadRow(w)
  PROVE  IndInv'
<1>1. TypeOK'
  <2>1. task[w] \in Jobs
    BY DEF IndInv, StagesCoherent, ReadRow
  <2>2. Bump(attempts[task[w]]) \in 0..AttemptCap
    BY <2>1 DEF IndInv, TypeOK, Bump
  <2>3. (attempt \in [Workers -> 0..AttemptCap])'
    BY <2>2 DEF IndInv, TypeOK, ReadRow
  <2>4. (pc \in [Workers -> Stages])' /\ (task \in [Workers -> Jobs \cup {NoOne}])'
    BY DEF IndInv, TypeOK, ReadRow
  <2> QED
    BY <2>3, <2>4 DEF IndInv, TypeOK, ReadRow
<1>2. LeaseCoherent'
  BY DEF IndInv, ReadRow, TypeOK, LeaseCoherent, StagesCoherent
<1>3. HolderIsAtWork'
  BY DEF IndInv, ReadRow,
         TypeOK, LeaseCoherent, HolderIsAtWork, StagesCoherent
<1>4. OpenAttemptIsBeingMade'
  BY DEF IndInv, ReadRow, TypeOK, OpenAttemptIsBeingMade, StagesCoherent
<1>5. StagesCoherent'
  BY DEF IndInv, ReadRow, TypeOK, LeaseCoherent, StagesCoherent
<1>6. HistoryExplainsOutcome'
  <2> SUFFICES ASSUME NEW i \in Jobs, state'[i] \in {"succeeded", "failed"}
               PROVE Explained(i)'
    BY DEF HistoryExplainsOutcome
  <2>1. state'[i] = state[i]
    BY DEF IndInv, TypeOK, ReadRow, StagesCoherent
  <2>2. history[i] \subseteq history'[i]
    BY <2>1 DEF IndInv, TypeOK, ReadRow
  <2>3. \A v \in Workers : <<i, v>> \in making /\ pc[v] \in {"closing", "gone"} =>
          \/ <<i, v>> \in making' /\ verdict'[v] = verdict[v] /\ pc'[v] \in {"closing", "gone"}
          \/ verdict[v] \in history'[i]
    BY <2>1 DEF IndInv, TypeOK, ReadRow, OpenAttemptIsBeingMade,
           StagesCoherent
  <2> QED
    BY <2>1, <2>2, <2>3, StillExplained DEF IndInv
<1> QED
  BY <1>1, <1>2, <1>3, <1>4, <1>5, <1>6 DEF IndInv

LEMMA CountAttemptInv ==
  ASSUME IndInv, NEW w \in Workers, CountAttempt(w)
  PROVE  IndInv'
<1>1. TypeOK'
  BY DEF IndInv, CountAttempt, TypeOK, StagesCoherent
<1>2. LeaseCoherent'
  BY DEF IndInv, CountAttempt, TypeOK, LeaseCoherent, StagesCoherent
<1>3. HolderIsAtWork'
  BY DEF IndInv, CountAttempt,
         TypeOK, LeaseCoherent, HolderIsAtWork, StagesCoherent
<1>4. OpenAttemptIsBeingMade'
  BY DEF IndInv, CountAttempt, TypeOK, OpenAttemptIsBeingMade, StagesCoherent
<1>5. StagesCoherent'
  BY DEF IndInv, CountAttempt, TypeOK, LeaseCoherent, StagesCoherent
<1>6. HistoryExplainsOutcome'
  <2> SUFFICES ASSUME NEW i \in Jobs, state'[i] \in {"succeeded", "failed"}
               PROVE Explained(i)'
    BY DEF HistoryExplainsOutcome
  <2>1. state'[i] = state[i]
    BY DEF IndInv, TypeOK, CountAttempt, StagesCoherent
  <2>2. history[i] \subseteq history'[i]
    BY <2>1 DEF IndInv, TypeOK, CountAttempt
  <2>3. \A v \in Workers : <<i, v>> \in making /\ pc[v] \in {"closing", "gone"} =>
          \/ <<i, v>> \in making' /\ verdict'[v] = verdict[v] /\ pc'[v] \in {"closing", "gone"}
          \/ verdict[v] \in history'[i]
    BY <2>1 DEF IndInv, TypeOK, CountAttempt, OpenAttemptIsBeingMade,
           StagesCoherent
  <2> QED
    BY <2>1, <2>2, <2>3, StillExplained DEF IndInv
<1> QED
  BY <1>1, <1>2, <1>3, <1>4, <1>5, <1>6 DEF IndInv

(* The new open row is the worker's own, at its current job.                 *)
LEMMA LogAttemptInv ==
  ASSUME IndInv, NEW w \in Workers, LogAttempt(w)
  PROVE  IndInv'
<1>1. TypeOK'
  BY DEF IndInv, LogAttempt, TypeOK, StagesCoherent
<1>2. LeaseCoherent'
  BY DEF IndInv, LogAttempt, TypeOK, LeaseCoherent, StagesCoherent
<1>3. HolderIsAtWork'
  BY DEF IndInv, LogAttempt,
         TypeOK, LeaseCoherent, HolderIsAtWork, StagesCoherent
<1>4. OpenAttemptIsBeingMade'
  BY DEF IndInv, LogAttempt, TypeOK, OpenAttemptIsBeingMade, StagesCoherent
<1>5. StagesCoherent'
  BY DEF IndInv, LogAttempt, TypeOK, LeaseCoherent, StagesCoherent
<1>6. HistoryExplainsOutcome'
  <2> SUFFICES ASSUME NEW i \in Jobs, state'[i] \in {"succeeded", "failed"}
               PROVE Explained(i)'
    BY DEF HistoryExplainsOutcome
  <2>1. state'[i] = state[i]
    BY DEF IndInv, TypeOK, LogAttempt, StagesCoherent
  <2>2. history[i] \subseteq history'[i]
    BY <2>1 DEF IndInv, TypeOK, LogAttempt
  <2>3. \A v \in Workers : <<i, v>> \in making /\ pc[v] \in {"closing", "gone"} =>
          \/ <<i, v>> \in making' /\ verdict'[v] = verdict[v] /\ pc'[v] \in {"closing", "gone"}
          \/ verdict[v] \in history'[i]
    BY <2>1 DEF IndInv, TypeOK, LogAttempt, OpenAttemptIsBeingMade,
           StagesCoherent
  <2> QED
    BY <2>1, <2>2, <2>3, StillExplained DEF IndInv
<1> QED
  BY <1>1, <1>2, <1>3, <1>4, <1>5, <1>6 DEF IndInv

LEMMA ProgressInv ==
  ASSUME IndInv, NEW w \in Workers, Progress(w)
  PROVE  IndInv'
<1>1. TypeOK'
  BY DEF IndInv, Progress, TypeOK, StagesCoherent
<1>2. LeaseCoherent'
  BY DEF IndInv, Progress, TypeOK, LeaseCoherent, StagesCoherent
<1>3. HolderIsAtWork'
  BY DEF IndInv, Progress,
         TypeOK, LeaseCoherent, HolderIsAtWork, StagesCoherent
<1>4. OpenAttemptIsBeingMade'
  BY DEF IndInv, Progress, TypeOK, OpenAttemptIsBeingMade, StagesCoherent
<1>5. StagesCoherent'
  BY DEF IndInv, Progress, TypeOK, LeaseCoherent, StagesCoherent
<1>6. HistoryExplainsOutcome'
  <2> SUFFICES ASSUME NEW i \in Jobs, state'[i] \in {"succeeded", "failed"}
               PROVE Explained(i)'
    BY DEF HistoryExplainsOutcome
  <2>1. state'[i] = state[i]
    BY DEF IndInv, TypeOK, Progress, StagesCoherent
  <2>2. history[i] \subseteq history'[i]
    BY <2>1 DEF IndInv, TypeOK, Progress
  <2>3. \A v \in Workers : <<i, v>> \in making /\ pc[v] \in {"closing", "gone"} =>
          \/ <<i, v>> \in making' /\ verdict'[v] = verdict[v] /\ pc'[v] \in {"closing", "gone"}
          \/ verdict[v] \in history'[i]
    BY <2>1 DEF IndInv, TypeOK, Progress, OpenAttemptIsBeingMade,
           StagesCoherent
  <2> QED
    BY <2>1, <2>2, <2>3, StillExplained DEF IndInv
<1> QED
  BY <1>1, <1>2, <1>3, <1>4, <1>5, <1>6 DEF IndInv

(* A cancelled row has no owner: the worker gives nothing up by closing.     *)
LEMMA NoticeCancelInv ==
  ASSUME IndInv, NEW w \in Workers, NoticeCancel(w)
  PROVE  IndInv'
<1>1. TypeOK'
  BY DEF IndInv, NoticeCancel, TypeOK, StagesCoherent
<1>2. LeaseCoherent'
  BY DEF IndInv, NoticeCancel, TypeOK, LeaseCoherent, StagesCoherent
<1>3. HolderIsAtWork'
  BY DEF IndInv, NoticeCancel,
         TypeOK, LeaseCoherent, HolderIsAtWork, StagesCoherent
<1>4. OpenAttemptIsBeingMade'
  BY DEF IndInv, NoticeCancel, TypeOK, OpenAttemptIsBeingMade, StagesCoherent
<1>5. StagesCoherent'
  BY DEF IndInv, NoticeCancel, TypeOK, LeaseCoherent, StagesCoherent
<1>6. HistoryExplainsOutcome'
  <2> SUFFICES ASSUME NEW i \in Jobs, state'[i] \in {"succeeded", "failed"}
               PROVE Explained(i)'
    BY DEF HistoryExplainsOutcome
  <2>1. state'[i] = state[i]
    BY DEF IndInv, TypeOK, NoticeCancel, StagesCoherent
  <2>2. history[i] \subseteq history'[i]
    BY <2>1 DEF IndInv, TypeOK, NoticeCancel
  <2>3. \A v \in Workers : <<i, v>> \in making /\ pc[v] \in {"closing", "gone"} =>
          \/ <<i, v>> \in making' /\ verdict'[v] = verdict[v] /\ pc'[v] \in {"closing", "gone"}
          \/ verdict[v] \in history'[i]
    BY <2>1 DEF IndInv, TypeOK, NoticeCancel, OpenAttemptIsBeingMade,
           StagesCoherent
  <2> QED
    BY <2>1, <2>2, <2>3, StillExplained DEF IndInv
<1> QED
  BY <1>1, <1>2, <1>3, <1>4, <1>5, <1>6 DEF IndInv

LEMMA HandlerReturnsInv ==
  ASSUME IndInv, NEW w \in Workers, HandlerReturns(w)
  PROVE  IndInv'
<1>1. TypeOK'
  BY DEF IndInv, HandlerReturns, TypeOK, StagesCoherent
<1>2. LeaseCoherent'
  BY DEF IndInv, HandlerReturns, TypeOK, LeaseCoherent, StagesCoherent
<1>3. HolderIsAtWork'
  BY DEF IndInv, HandlerReturns,
         TypeOK, LeaseCoherent, HolderIsAtWork, StagesCoherent
<1>4. OpenAttemptIsBeingMade'
  BY DEF IndInv, HandlerReturns, TypeOK, OpenAttemptIsBeingMade, StagesCoherent
<1>5. StagesCoherent'
  BY DEF IndInv, HandlerReturns, TypeOK, LeaseCoherent, StagesCoherent
<1>6. HistoryExplainsOutcome'
  <2> SUFFICES ASSUME NEW i \in Jobs, state'[i] \in {"succeeded", "failed"}
               PROVE Explained(i)'
    BY DEF HistoryExplainsOutcome
  <2>1. state'[i] = state[i]
    BY DEF IndInv, TypeOK, HandlerReturns, StagesCoherent
  <2>2. history[i] \subseteq history'[i]
    BY <2>1 DEF IndInv, TypeOK, HandlerReturns
  <2>3. \A v \in Workers : <<i, v>> \in making /\ pc[v] \in {"closing", "gone"} =>
          \/ <<i, v>> \in making' /\ verdict'[v] = verdict[v] /\ pc'[v] \in {"closing", "gone"}
          \/ verdict[v] \in history'[i]
    BY <2>1 DEF IndInv, TypeOK, HandlerReturns, OpenAttemptIsBeingMade,
           StagesCoherent
  <2> QED
    BY <2>1, <2>2, <2>3, StillExplained DEF IndInv
<1> QED
  BY <1>1, <1>2, <1>3, <1>4, <1>5, <1>6 DEF IndInv

(* The row turns succeeded only under its owner, whose attempt is open and   *)
(* about to be closed with that outcome.                                     *)
LEMMA CompleteInv ==
  ASSUME IndInv, NEW w \in Workers, Complete(w)
  PROVE  IndInv'
<1>0. task[w] \in Jobs
  BY DEF IndInv, Complete, StagesCoherent
<1>1. TypeOK'
  BY <1>0 DEF IndInv, Complete, Released, TypeOK, StagesCoherent
<1>2. LeaseCoherent'
  BY <1>0 DEF IndInv, Complete, Released, TypeOK, LeaseCoherent, StagesCoherent
<1>3. HolderIsAtWork'
  BY <1>0 DEF IndInv, Complete, Released,
         TypeOK, LeaseCoherent, HolderIsAtWork, StagesCoherent
<1>4. OpenAttemptIsBeingMade'
  BY <1>0 DEF IndInv, Complete, Released,
         TypeOK, OpenAttemptIsBeingMade, StagesCoherent
<1>5. StagesCoherent'
  BY <1>0 DEF IndInv, Complete, Released, TypeOK, LeaseCoherent, StagesCoherent
<1>6. HistoryExplainsOutcome'
  <2> SUFFICES ASSUME NEW i \in Jobs, state'[i] \in {"succeeded", "failed"}
               PROVE Explained(i)'
    BY DEF HistoryExplainsOutcome
  <2>1. CASE state'[i] = state[i]
    <3>1. \A v \in Workers : <<i, v>> \in making /\ pc[v] \in {"closing", "gone"} =>
            <<i, v>> \in making' /\ verdict'[v] = verdict[v] /\ pc'[v] \in {"closing", "gone"}
      BY DEF IndInv, TypeOK, Complete
    <3>2. history'[i] = history[i]
      BY DEF Complete
    <3> QED
      BY <2>1, <3>1, <3>2, StillExplained DEF IndInv
  <2>2. CASE state'[i] # state[i]
    <3>1. /\ i = task[w] /\ owner[i] = w
          /\ state'[i] = verdict'[w] /\ pc'[w] = "closing"
      BY <1>0, <2>2 DEF IndInv, TypeOK, Complete, Released
    <3>2. <<i, w>> \in making'
      BY <3>1 DEF IndInv, TypeOK, LeaseCoherent, StagesCoherent, Complete
    <3> QED
      BY <3>1, <3>2 DEF Explained
  <2> QED
    BY <2>1, <2>2
<1> QED
  BY <1>1, <1>2, <1>3, <1>4, <1>5, <1>6 DEF IndInv

LEMMA FailReadInv ==
  ASSUME IndInv, NEW w \in Workers, FailRead(w)
  PROVE  IndInv'
<1>1. TypeOK'
  <2>0. task[w] \in Jobs /\ Max1(attempts[task[w]]) \in 0..AttemptCap
    <3>1. task[w] \in Jobs
      BY DEF IndInv, FailRead, StagesCoherent
    <3>2. attempts[task[w]] \in 0..AttemptCap
      BY <3>1 DEF IndInv, TypeOK
    <3> QED
      BY <3>1, <3>2 DEF Max1
  <2>1. (state \in [Jobs -> States])'
    BY <2>0 DEF IndInv, FailRead, TypeOK
  <2>2. (attempts \in [Jobs -> 0..AttemptCap])'
    BY <2>0 DEF IndInv, FailRead, TypeOK
  <2>3. (owner \in [Jobs -> Workers \cup {NoOne}])'
    BY <2>0 DEF IndInv, FailRead, TypeOK
  <2>4. (lease \in [Jobs -> 0..LeaseTime])'
    BY <2>0 DEF IndInv, FailRead, TypeOK
  <2>5. (delay \in [Jobs -> 0..RetryDelay])'
    BY <2>0 DEF IndInv, FailRead, TypeOK
  <2>6. (kept \in [Jobs -> 0..Retention])'
    BY <2>0 DEF IndInv, FailRead, TypeOK
  <2>7. (making \subseteq Jobs \X Workers)'
    BY <2>0 DEF IndInv, FailRead, TypeOK
  <2>8. (history \in [Jobs -> SUBSET Outcomes])'
    BY <2>0 DEF IndInv, FailRead, TypeOK
  <2>9. (pc \in [Workers -> Stages])'
    BY <2>0 DEF IndInv, FailRead, TypeOK
  <2>10. (task \in [Workers -> Jobs \cup {NoOne}])'
    BY <2>0 DEF IndInv, FailRead, TypeOK
  <2>11. (attempt \in [Workers -> 0..AttemptCap])'
    BY <2>0 DEF IndInv, FailRead, TypeOK
  <2>12. (verdict \in [Workers -> Verdicts])'
    BY <2>0 DEF IndInv, FailRead, TypeOK
  <2> QED
    BY <2>1, <2>2, <2>3, <2>4, <2>5, <2>6, <2>7, <2>8, <2>9, <2>10,
       <2>11, <2>12 DEF TypeOK
<1>2. LeaseCoherent'
  BY DEF IndInv, FailRead, Max1, TypeOK, LeaseCoherent, StagesCoherent
<1>3. HolderIsAtWork'
  BY DEF IndInv, FailRead, Max1,
         TypeOK, LeaseCoherent, HolderIsAtWork, StagesCoherent
<1>4. OpenAttemptIsBeingMade'
  BY DEF IndInv, FailRead, Max1, TypeOK, OpenAttemptIsBeingMade, StagesCoherent
<1>5. StagesCoherent'
  BY DEF IndInv, FailRead, Max1, TypeOK, LeaseCoherent, StagesCoherent
<1>6. HistoryExplainsOutcome'
  <2> SUFFICES ASSUME NEW i \in Jobs, state'[i] \in {"succeeded", "failed"}
               PROVE Explained(i)'
    BY DEF HistoryExplainsOutcome
  <2>1. state'[i] = state[i]
    BY DEF IndInv, TypeOK, FailRead, Max1, StagesCoherent
  <2>2. history[i] \subseteq history'[i]
    BY <2>1 DEF IndInv, TypeOK, FailRead, Max1
  <2>3. \A v \in Workers : <<i, v>> \in making /\ pc[v] \in {"closing", "gone"} =>
          \/ <<i, v>> \in making' /\ verdict'[v] = verdict[v] /\ pc'[v] \in {"closing", "gone"}
          \/ verdict[v] \in history'[i]
    BY <2>1 DEF IndInv, TypeOK, FailRead, Max1, OpenAttemptIsBeingMade,
           StagesCoherent
  <2> QED
    BY <2>1, <2>2, <2>3, StillExplained DEF IndInv
<1> QED
  BY <1>1, <1>2, <1>3, <1>4, <1>5, <1>6 DEF IndInv

(* Like Complete, with the outcome that FailRead decided.                    *)
LEMMA FailWriteInv ==
  ASSUME IndInv, NEW w \in Workers, FailWrite(w)
  PROVE  IndInv'
<1>0. task[w] \in Jobs
  BY DEF IndInv, FailWrite, StagesCoherent
<1>1. TypeOK'
  <2>0. verdict[w] \in {"queued", "failed"}
    BY DEF IndInv, FailWrite, StagesCoherent
  <2>1. (state \in [Jobs -> States])'
    BY <1>0, <2>0 DEF IndInv, FailWrite, Released, TypeOK
  <2>2. (attempts \in [Jobs -> 0..AttemptCap])'
    BY <1>0, <2>0 DEF IndInv, FailWrite, Released, TypeOK
  <2>3. (owner \in [Jobs -> Workers \cup {NoOne}])'
    BY <1>0, <2>0 DEF IndInv, FailWrite, Released, TypeOK
  <2>4. (lease \in [Jobs -> 0..LeaseTime])'
    BY <1>0, <2>0 DEF IndInv, FailWrite, Released, TypeOK
  <2>5. (delay \in [Jobs -> 0..RetryDelay])'
    BY <1>0, <2>0 DEF IndInv, FailWrite, Released, TypeOK
  <2>6. (kept \in [Jobs -> 0..Retention])'
    BY <1>0, <2>0 DEF IndInv, FailWrite, Released, TypeOK
  <2>7. (making \subseteq Jobs \X Workers)'
    BY <1>0, <2>0 DEF IndInv, FailWrite, Released, TypeOK
  <2>8. (history \in [Jobs -> SUBSET Outcomes])'
    BY <1>0, <2>0 DEF IndInv, FailWrite, Released, TypeOK
  <2>9. (pc \in [Workers -> Stages])'
    BY <1>0, <2>0 DEF IndInv, FailWrite, Released, TypeOK
  <2>10. (task \in [Workers -> Jobs \cup {NoOne}])'
    BY <1>0, <2>0 DEF IndInv, FailWrite, Released, TypeOK
  <2>11. (attempt \in [Workers -> 0..AttemptCap])'
    BY <1>0, <2>0 DEF IndInv, FailWrite, Released, TypeOK
  <2>12. (verdict \in [Workers -> Verdicts])'
    BY <1>0, <2>0 DEF IndInv, FailWrite, Released, TypeOK
  <2> QED
    BY <2>1, <2>2, <2>3, <2>4, <2>5, <2>6, <2>7, <2>8, <2>9, <2>10,
       <2>11, <2>12 DEF TypeOK
<1>2. LeaseCoherent'
  BY <1>0 DEF IndInv, FailWrite, Released,
         TypeOK, LeaseCoherent, StagesCoherent
<1>3. HolderIsAtWork'
  BY <1>0 DEF IndInv, FailWrite, Released,
         TypeOK, LeaseCoherent, HolderIsAtWork, StagesCoherent
<1>4. OpenAttemptIsBeingMade'
  BY <1>0 DEF IndInv, FailWrite, Released,
         TypeOK, OpenAttemptIsBeingMade, StagesCoherent
<1>5. StagesCoherent'
  BY <1>0 DEF IndInv, FailWrite, Released,
         TypeOK, LeaseCoherent, StagesCoherent
<1>6. HistoryExplainsOutcome'
  <2> SUFFICES ASSUME NEW i \in Jobs, state'[i] \in {"succeeded", "failed"}
               PROVE Explained(i)'
    BY DEF HistoryExplainsOutcome
  <2>1. CASE state'[i] = state[i]
    <3>1. \A v \in Workers : <<i, v>> \in making /\ pc[v] \in {"closing", "gone"} =>
            <<i, v>> \in making' /\ verdict'[v] = verdict[v] /\ pc'[v] \in {"closing", "gone"}
      BY DEF IndInv, TypeOK, FailWrite
    <3>2. history'[i] = history[i]
      BY DEF FailWrite
    <3> QED
      BY <2>1, <3>1, <3>2, StillExplained DEF IndInv
  <2>2. CASE state'[i] # state[i]
    <3>1. /\ i = task[w] /\ owner[i] = w
          /\ state'[i] = verdict'[w] /\ pc'[w] = "closing"
      BY <1>0, <2>2 DEF IndInv, TypeOK, FailWrite, Released
    <3>2. <<i, w>> \in making'
      BY <3>1 DEF IndInv, TypeOK, LeaseCoherent, StagesCoherent, FailWrite
    <3> QED
      BY <3>1, <3>2 DEF Explained
  <2> QED
    BY <2>1, <2>2
<1> QED
  BY <1>1, <1>2, <1>3, <1>4, <1>5, <1>6 DEF IndInv

(* A worker that closes holds no lease; the row's explanation moves from the *)
(* open attempt to the closed one.                                           *)
LEMMA CloseAttemptInv ==
  ASSUME IndInv, NEW w \in Workers, CloseAttempt(w)
  PROVE  IndInv'
<1>1. TypeOK'
  BY DEF IndInv, CloseAttempt, TypeOK, StagesCoherent
<1>2. LeaseCoherent'
  BY DEF IndInv, CloseAttempt, TypeOK, LeaseCoherent, StagesCoherent
<1>3. HolderIsAtWork'
  BY DEF IndInv, CloseAttempt,
         TypeOK, LeaseCoherent, HolderIsAtWork, StagesCoherent
<1>4. OpenAttemptIsBeingMade'
  BY DEF IndInv, CloseAttempt, TypeOK, OpenAttemptIsBeingMade, StagesCoherent
<1>5. StagesCoherent'
  BY DEF IndInv, CloseAttempt, TypeOK, LeaseCoherent, StagesCoherent
<1>6. HistoryExplainsOutcome'
  <2> SUFFICES ASSUME NEW i \in Jobs, state'[i] \in {"succeeded", "failed"}
               PROVE Explained(i)'
    BY DEF HistoryExplainsOutcome
  <2>1. state'[i] = state[i]
    BY DEF IndInv, TypeOK, CloseAttempt, StagesCoherent
  <2>2. history[i] \subseteq history'[i]
    BY <2>1 DEF IndInv, TypeOK, CloseAttempt
  <2>3. \A v \in Workers : <<i, v>> \in making /\ pc[v] \in {"closing", "gone"} =>
          \/ <<i, v>> \in making' /\ verdict'[v] = verdict[v] /\ pc'[v] \in {"closing", "gone"}
          \/ verdict[v] \in history'[i]
    BY <2>1 DEF IndInv, TypeOK, CloseAttempt, OpenAttemptIsBeingMade,
           StagesCoherent
  <2> QED
    BY <2>1, <2>2, <2>3, StillExplained DEF IndInv
<1> QED
  BY <1>1, <1>2, <1>3, <1>4, <1>5, <1>6 DEF IndInv

LEMMA RequeueExpiredLeasesInv ==
  ASSUME IndInv, NEW w \in Workers, RequeueExpiredLeases(w)
  PROVE  IndInv'
<1>1. TypeOK'
  BY DEF IndInv, RequeueExpiredLeases, Expired, TypeOK, StagesCoherent
<1>2. LeaseCoherent'
  BY DEF IndInv, RequeueExpiredLeases, Expired,
         TypeOK, LeaseCoherent, StagesCoherent
<1>3. HolderIsAtWork'
  BY DEF IndInv, RequeueExpiredLeases, Expired,
         TypeOK, LeaseCoherent, HolderIsAtWork, StagesCoherent
<1>4. OpenAttemptIsBeingMade'
  BY DEF IndInv, RequeueExpiredLeases, Expired,
         TypeOK, OpenAttemptIsBeingMade, StagesCoherent
<1>5. StagesCoherent'
  BY DEF IndInv, RequeueExpiredLeases, Expired,
         TypeOK, LeaseCoherent, StagesCoherent
<1>6. HistoryExplainsOutcome'
  <2> SUFFICES ASSUME NEW i \in Jobs, state'[i] \in {"succeeded", "failed"}
               PROVE Explained(i)'
    BY DEF HistoryExplainsOutcome
  <2>1. state'[i] = state[i]
    BY DEF IndInv, TypeOK, RequeueExpiredLeases, Expired, StagesCoherent
  <2>2. history[i] \subseteq history'[i]
    BY <2>1 DEF IndInv, TypeOK, RequeueExpiredLeases, Expired
  <2>3. \A v \in Workers : <<i, v>> \in making /\ pc[v] \in {"closing", "gone"} =>
          \/ <<i, v>> \in making' /\ verdict'[v] = verdict[v] /\ pc'[v] \in {"closing", "gone"}
          \/ verdict[v] \in history'[i]
    BY <2>1 DEF IndInv, TypeOK, RequeueExpiredLeases, Expired,
           OpenAttemptIsBeingMade, StagesCoherent
  <2> QED
    BY <2>1, <2>2, <2>3, StillExplained DEF IndInv
<1> QED
  BY <1>1, <1>2, <1>3, <1>4, <1>5, <1>6 DEF IndInv

(* Only finished rows go, and finished rows have no owner.                   *)
LEMMA PurgeTerminalJobsInv ==
  ASSUME IndInv, NEW w \in Workers, PurgeTerminalJobs(w)
  PROVE  IndInv'
<1>1. TypeOK'
  BY DEF IndInv, PurgeTerminalJobs, Stale, TypeOK, StagesCoherent
<1>2. LeaseCoherent'
  BY DEF IndInv, PurgeTerminalJobs, Stale,
         TypeOK, LeaseCoherent, StagesCoherent
<1>3. HolderIsAtWork'
  BY DEF IndInv, PurgeTerminalJobs, Stale,
         TypeOK, LeaseCoherent, HolderIsAtWork, StagesCoherent
<1>4. OpenAttemptIsBeingMade'
  BY DEF IndInv, PurgeTerminalJobs, Stale,
         TypeOK, OpenAttemptIsBeingMade, StagesCoherent
<1>5. StagesCoherent'
  BY DEF IndInv, PurgeTerminalJobs, Stale,
         TypeOK, LeaseCoherent, StagesCoherent
<1>6. HistoryExplainsOutcome'
  <2> SUFFICES ASSUME NEW i \in Jobs, state'[i] \in {"succeeded", "failed"}
               PROVE Explained(i)'
    BY DEF HistoryExplainsOutcome
  <2>1. state'[i] = state[i]
    BY DEF IndInv, TypeOK, PurgeTerminalJobs, Stale, StagesCoherent
  <2>2. history[i] \subseteq history'[i]
    BY <2>1 DEF IndInv, TypeOK, PurgeTerminalJobs, Stale
  <2>3. \A v \in Workers : <<i, v>> \in making /\ pc[v] \in {"closing", "gone"} =>
          \/ <<i, v>> \in making' /\ verdict'[v] = verdict[v] /\ pc'[v] \in {"closing", "gone"}
          \/ verdict[v] \in history'[i]
    BY <2>1 DEF IndInv, TypeOK, PurgeTerminalJobs, Stale,
           OpenAttemptIsBeingMade, StagesCoherent
  <2> QED
    BY <2>1, <2>2, <2>3, StillExplained DEF IndInv
<1> QED
  BY <1>1, <1>2, <1>3, <1>4, <1>5, <1>6 DEF IndInv

(* A dead worker keeps its lease and its open attempt.                       *)
LEMMA StopInv ==
  ASSUME IndInv, NEW w \in Workers, Stop(w)
  PROVE  IndInv'
<1>1. TypeOK'
  BY DEF IndInv, Stop, TypeOK, StagesCoherent
<1>2. LeaseCoherent'
  BY DEF IndInv, Stop, TypeOK, LeaseCoherent, StagesCoherent
<1>3. HolderIsAtWork'
  BY DEF IndInv, Stop, TypeOK, LeaseCoherent, HolderIsAtWork, StagesCoherent
<1>4. OpenAttemptIsBeingMade'
  BY DEF IndInv, Stop, TypeOK, OpenAttemptIsBeingMade, StagesCoherent
<1>5. StagesCoherent'
  BY DEF IndInv, Stop, TypeOK, LeaseCoherent, StagesCoherent
<1>6. HistoryExplainsOutcome'
  <2> SUFFICES ASSUME NEW i \in Jobs, state'[i] \in {"succeeded", "failed"}
               PROVE Explained(i)'
    BY DEF HistoryExplainsOutcome
  <2>1. state'[i] = state[i]
    BY DEF IndInv, TypeOK, Stop, StagesCoherent
  <2>2. history[i] \subseteq history'[i]
    BY <2>1 DEF IndInv, TypeOK, Stop
  <2>3. \A v \in Workers : <<i, v>> \in making /\ pc[v] \in {"closing", "gone"} =>
          \/ <<i, v>> \in making' /\ verdict'[v] = verdict[v] /\ pc'[v] \in {"closing", "gone"}
          \/ verdict[v] \in history'[i]
    BY <2>1 DEF IndInv, TypeOK, Stop, OpenAttemptIsBeingMade, StagesCoherent
  <2> QED
    BY <2>1, <2>2, <2>3, StillExplained DEF IndInv
<1> QED
  BY <1>1, <1>2, <1>3, <1>4, <1>5, <1>6 DEF IndInv

LEMMA TickInv ==
  ASSUME IndInv, Tick
  PROVE  IndInv'
<1>1. TypeOK'
  BY DEF IndInv, Tick, Down, TypeOK, StagesCoherent
<1>2. LeaseCoherent'
  BY DEF IndInv, Tick, Down, TypeOK, LeaseCoherent, StagesCoherent
<1>3. HolderIsAtWork'
  BY DEF IndInv, Tick, Down,
         TypeOK, LeaseCoherent, HolderIsAtWork, StagesCoherent
<1>4. OpenAttemptIsBeingMade'
  BY DEF IndInv, Tick, Down, TypeOK, OpenAttemptIsBeingMade, StagesCoherent
<1>5. StagesCoherent'
  BY DEF IndInv, Tick, Down, TypeOK, LeaseCoherent, StagesCoherent
<1>6. HistoryExplainsOutcome'
  <2> SUFFICES ASSUME NEW i \in Jobs, state'[i] \in {"succeeded", "failed"}
               PROVE Explained(i)'
    BY DEF HistoryExplainsOutcome
  <2>1. state'[i] = state[i]
    BY DEF IndInv, TypeOK, Tick, Down, StagesCoherent
  <2>2. history[i] \subseteq history'[i]
    BY <2>1 DEF IndInv, TypeOK, Tick, Down
  <2>3. \A v \in Workers : <<i, v>> \in making /\ pc[v] \in {"closing", "gone"} =>
          \/ <<i, v>> \in making' /\ verdict'[v] = verdict[v] /\ pc'[v] \in {"closing", "gone"}
          \/ verdict[v] \in history'[i]
    BY <2>1 DEF IndInv, TypeOK, Tick, Down, OpenAttemptIsBeingMade,
           StagesCoherent
  <2> QED
    BY <2>1, <2>2, <2>3, StillExplained DEF IndInv
<1> QED
  BY <1>1, <1>2, <1>3, <1>4, <1>5, <1>6 DEF IndInv

-----------------------------------------------------------------------------
(* Every step of the queue preserves the inductive invariant. *)
LEMMA NextInv == IndInv /\ [Next]_vars => IndInv'
<1> SUFFICES ASSUME IndInv, [Next]_vars PROVE IndInv'
  OBVIOUS
<1>1. CASE UNCHANGED vars
  <2>1. TypeOK' /\ LeaseCoherent'
    BY <1>1 DEF vars, IndInv, TypeOK, LeaseCoherent
  <2>2. HolderIsAtWork' /\ OpenAttemptIsBeingMade'
    BY <1>1 DEF vars, IndInv, HolderIsAtWork, OpenAttemptIsBeingMade
  <2>3. StagesCoherent'
    BY <1>1 DEF vars, IndInv, StagesCoherent
  <2>4. HistoryExplainsOutcome'
    BY <1>1 DEF vars, IndInv, HistoryExplainsOutcome, Explained
  <2> QED
    BY <2>1, <2>2, <2>3, <2>4 DEF IndInv
<1>2. ASSUME NEW j \in Jobs, Enqueue(j) \/ Cancel(j) \/ Requeue(j) PROVE IndInv'
  BY <1>2, EnqueueInv, CancelInv, RequeueInv
<1>3. ASSUME NEW w \in Workers, Attempting(w) PROVE IndInv'
  BY <1>3, CountAttemptInv, LogAttemptInv, HandlerReturnsInv, NoticeCancelInv,
     CompleteInv, FailReadInv, FailWriteInv, CloseAttemptInv DEF Attempting
<1>4. ASSUME NEW w \in Workers, Work(w) PROVE IndInv'
  BY <1>3, <1>4, ClaimNextInv, PickRowInv, TakeRowInv, ReadRowInv, ProgressInv,
     RequeueExpiredLeasesInv, PurgeTerminalJobsInv DEF Work
<1> QED
  BY <1>1, <1>2, <1>4, StopInv, TickInv DEF Next

(* What a crash, a sweep and a late worker leave behind is always a state the *)
(* others can go on from: the whole strengthening, in every reachable state.  *)
THEOREM Invariance == Spec => []IndInv
  BY InitInv, NextInv, PTL DEF Spec

(* No statement writes a value outside a column's range, however workers,    *)
(* sweeps and routes interleave.                                            *)
THEOREM TypeCorrect == Spec => []TypeOK
  BY Invariance, PTL DEF IndInv

(* lease_owner is set exactly on leased and running rows.                    *)
THEOREM LeasesCoherent == Spec => []LeaseCoherent
  BY Invariance, PTL DEF IndInv

(* A lease belongs to a worker that is still on the way to its outcome, or   *)
(* died on that way: run never leaves one behind.                            *)
THEOREM HoldersAtWork == Spec => []HolderIsAtWork
  BY Invariance, PTL DEF IndInv

(* An unfinished attempt is being made, or its worker died making it.        *)
THEOREM OpenAttempts == Spec => []OpenAttemptIsBeingMade
  BY Invariance, PTL DEF IndInv

(* Every succeeded or failed row has an attempt with that outcome.           *)
THEOREM OutcomesExplained == Spec => []HistoryExplainsOutcome
  BY Invariance, PTL DEF IndInv

-----------------------------------------------------------------------------
(* One step changes the state of a finished row only to retry or purge it.   *)
LEMMA FinishedStep ==
  ASSUME IndInv, [Next]_vars, NEW i \in Jobs,
         state[i] \in Terminal, state'[i] # state[i]
  PROVE  \/ state'[i] = "queued" /\ attempts'[i] = 0 /\ Operator
         \/ state'[i] = "purged" /\ kept[i] = 0
<1>1. owner[i] = NoOne
  BY DEF IndInv, TypeOK, LeaseCoherent
<1>2. ASSUME NEW j \in Jobs, Enqueue(j) \/ Cancel(j) PROVE state'[i] = state[i]
  BY <1>2 DEF IndInv, TypeOK, Enqueue, Cancel, Released
<1>3. ASSUME NEW j \in Jobs, Requeue(j)
      PROVE  state'[i] = "queued" /\ attempts'[i] = 0 /\ Operator
  BY <1>3 DEF IndInv, TypeOK, Requeue, Released
<1>4. ASSUME NEW w \in Workers, Attempting(w) PROVE state'[i] = state[i]
  BY <1>1, <1>4 DEF IndInv, TypeOK, Attempting, CountAttempt, LogAttempt,
     HandlerReturns, NoticeCancel, Complete, FailRead, FailWrite, CloseAttempt, Released
<1>5. ASSUME NEW w \in Workers,
             ClaimNext(w) \/ PickRow(w) \/ TakeRow(w) \/ ReadRow(w)
      PROVE  state'[i] = state[i]
  <2>1. ASSUME NEW j \in Jobs, TakeLease(w, j), state[j] = "queued"
        PROVE  state'[i] = state[i]
    BY <2>1 DEF IndInv, TypeOK, TakeLease
  <2>2. ClaimNext(w) => \E j \in Jobs : TakeLease(w, j) /\ state[j] = "queued"
    BY DEF ClaimNext, NextUp, Runnable
  <2>3. TakeRow(w) => \E j \in Jobs : TakeLease(w, j) /\ state[j] = "queued"
    BY DEF TakeRow, IndInv, StagesCoherent
  <2>4. PickRow(w) \/ ReadRow(w) => state'[i] = state[i]
    BY DEF PickRow, ReadRow
  <2> QED
    BY <1>5, <2>1, <2>2, <2>3, <2>4
<1>6. ASSUME NEW w \in Workers, Progress(w) \/ RequeueExpiredLeases(w)
      PROVE  state'[i] = state[i]
  BY <1>6 DEF IndInv, TypeOK, Progress, RequeueExpiredLeases, Expired
<1>7. ASSUME NEW w \in Workers, PurgeTerminalJobs(w)
      PROVE  state'[i] = "purged" /\ kept[i] = 0
  BY <1>7 DEF IndInv, TypeOK, PurgeTerminalJobs, Stale
<1>8. ASSUME NEW w \in Workers, Stop(w) PROVE state'[i] = state[i]
  BY <1>8 DEF Stop
<1>9. CASE Tick \/ UNCHANGED vars
  BY <1>9 DEF Tick, vars
<1> QED
  BY <1>2, <1>3, <1>4, <1>5, <1>6, <1>7, <1>8, <1>9 DEF Next, Work

(* A finished job stays finished until the operator retries it, from zero    *)
(* attempts, or its retention has passed: no late attempt un-cancels it.     *)
THEOREM FinishedIsFinal == Spec => FinishedStaysFinished
<1>1. IndInv /\ [Next]_vars =>
        [\A j \in Jobs : state[j] \in Terminal /\ state'[j] # state[j] =>
           \/ state'[j] = "queued" /\ attempts'[j] = 0 /\ Operator
           \/ state'[j] = "purged" /\ kept[j] = 0]_vars
  BY FinishedStep
<1> QED
  BY <1>1, Invariance, PTL DEF Spec, FinishedStaysFinished

-----------------------------------------------------------------------------
(* The refinement. *)

(* A claim, in either dialect, is Take: the worker held nothing. *)
LEMMA TakeStep ==
  ASSUME IndInv, NEW w \in Workers, NEW j \in Jobs, TakeLease(w, j),
         state[j] = "queued", pc[w] \in {"idle", "claiming"}
  PROVE  Life!Take(j, w)
<1>1. \A i \in Jobs : owner[i] # w
  BY DEF IndInv, HolderIsAtWork
<1>2. Phase' = [Phase EXCEPT ![j] = "held"]
  BY DEF IndInv, TypeOK, TakeLease, Phase
<1> QED
  BY <1>1, <1>2 DEF TakeLease, Life!Take, Phase, IndInv, TypeOK

(* Ending a lease is Settle, Withdraw or giving one row back. *)
LEMMA ReleaseStep ==
  ASSUME IndInv, NEW j \in Jobs, state[j] \in Held,
         NEW s \in {"queued", "succeeded", "failed"}, Released(j, s)
  PROVE  Life!Settle(j) \/ Life!GiveBack({j})
<1>1. CASE s = "queued"
  <2>1. Phase' = [i \in Jobs |-> IF i \in {j} THEN "waiting" ELSE Phase[i]]
    BY <1>1 DEF IndInv, TypeOK, Released, Phase
  <2>2. owner' = [i \in Jobs |-> IF i \in {j} THEN NoOne ELSE owner[i]]
    BY DEF IndInv, TypeOK, Released
  <2> QED
    BY <2>1, <2>2 DEF Life!GiveBack, Phase
<1>2. CASE s # "queued"
  <2>1. Phase' = [Phase EXCEPT ![j] = s]
    BY <1>2 DEF IndInv, TypeOK, Released, Phase
  <2> QED
    BY <1>2, <2>1 DEF Life!Settle, Released, Phase
<1> QED
  BY <1>1, <1>2

LEMMA LifeStep == IndInv /\ [Next]_vars => [Life!Next]_(Life!vars)
<1> SUFFICES ASSUME IndInv, [Next]_vars
             PROVE  Life!Next \/ (Phase' = Phase /\ owner' = owner)
  BY DEF Life!vars
<1>1. ASSUME NEW j \in Jobs, Enqueue(j) PROVE Life!Post(j)
  <2>1. Phase' = [Phase EXCEPT ![j] = "waiting"]
    BY <1>1 DEF IndInv, TypeOK, Enqueue, Phase
  <2> QED
    BY <1>1, <2>1 DEF Enqueue, Life!Post, Phase
<1>2. ASSUME NEW j \in Jobs, Cancel(j) PROVE Life!Withdraw(j)
  <2>1. Phase' = [Phase EXCEPT ![j] = "cancelled"]
    BY <1>2 DEF IndInv, TypeOK, Cancel, Released, Phase
  <2> QED
    BY <1>2, <2>1 DEF Cancel, Released, Life!Withdraw, Phase
<1>3. ASSUME NEW j \in Jobs, Requeue(j) PROVE Life!Reopen(j)
  <2>1. Phase' = [Phase EXCEPT ![j] = "waiting"]
    BY <1>3 DEF IndInv, TypeOK, Requeue, Released, Phase
  <2>2. owner' = owner
    BY <1>3 DEF IndInv, TypeOK, LeaseCoherent, Requeue, Released
  <2> QED
    BY <1>3, <2>1, <2>2 DEF Requeue, Life!Reopen, Life!Finished, Phase
<1>4. ASSUME NEW w \in Workers, ClaimNext(w) \/ TakeRow(w)
      PROVE  \E j \in Jobs : Life!Take(j, w)
  <2>1. PICK j \in Jobs : /\ TakeLease(w, j) /\ state[j] = "queued"
                         /\ pc[w] \in {"idle", "claiming"}
    BY <1>4 DEF IndInv, StagesCoherent, ClaimNext, TakeRow, NextUp, Runnable
  <2> QED
    BY <2>1, TakeStep
<1>5. ASSUME NEW w \in Workers, Complete(w) \/ FailWrite(w)
      PROVE  Life!Next \/ (Phase' = Phase /\ owner' = owner)
  <2>0. task[w] \in Jobs
    BY <1>5 DEF IndInv, StagesCoherent, Complete, FailWrite
  <2>1. CASE owner[task[w]] = w
    <3>1. state[task[w]] \in Held
      BY <2>0, <2>1 DEF IndInv, LeaseCoherent
    <3>2. \E s \in {"queued", "succeeded", "failed"} : Released(task[w], s)
      BY <1>5, <2>1, <3>1 DEF IndInv, StagesCoherent, Complete, FailWrite
    <3> QED
      BY <2>0, <3>1, <3>2, ReleaseStep DEF Life!Next
  <2>2. CASE owner[task[w]] # w
    BY <1>5, <2>2 DEF Complete, FailWrite, Phase
  <2> QED
    BY <2>1, <2>2
<1>6. ASSUME NEW w \in Workers, RequeueExpiredLeases(w) PROVE Life!GiveBack(Expired)
  <2>1. Phase' = [j \in Jobs |-> IF j \in Expired THEN "waiting" ELSE Phase[j]]
    BY <1>6 DEF IndInv, TypeOK, RequeueExpiredLeases, Expired, Phase
  <2> QED
    BY <1>6, <2>1 DEF RequeueExpiredLeases, Expired, Life!GiveBack, Phase
<1>7. ASSUME NEW w \in Workers, PurgeTerminalJobs(w) PROVE Life!Forget(Stale)
  <2>1. Phase' = [j \in Jobs |-> IF j \in Stale THEN "purged" ELSE Phase[j]]
    BY <1>7 DEF IndInv, TypeOK, PurgeTerminalJobs, Stale, Phase
  <2> QED
    BY <1>7, <2>1 DEF PurgeTerminalJobs, Stale, Life!Forget, Life!Finished, Phase
<1>8. ASSUME NEW w \in Workers, Progress(w) PROVE Phase' = Phase /\ owner' = owner
  BY <1>8 DEF IndInv, TypeOK, StagesCoherent, Progress, Phase
<1>9. ASSUME NEW w \in Workers,
             \/ PickRow(w) \/ ReadRow(w) \/ CountAttempt(w) \/ LogAttempt(w) \/ HandlerReturns(w)
             \/ NoticeCancel(w) \/ FailRead(w) \/ CloseAttempt(w) \/ Stop(w)
      PROVE  Phase' = Phase /\ owner' = owner
  BY <1>9 DEF PickRow, ReadRow, CountAttempt, LogAttempt, HandlerReturns, NoticeCancel,
     FailRead, CloseAttempt, Stop, Phase
<1>10. CASE Tick \/ UNCHANGED vars
  BY <1>10 DEF Tick, vars, Phase
<1>11. Expired \in SUBSET Jobs /\ Stale \in SUBSET Jobs
  BY DEF Expired, Stale
<1> QED
  BY <1>1, <1>2, <1>3, <1>4, <1>5, <1>6, <1>7, <1>8, <1>9, <1>10, <1>11
     DEF Next, Work, Attempting, Life!Next

(* The queue implements JobLife: every statement of a worker, a route or a   *)
(* sweep is one of its steps or invisible to it.                            *)
THEOREM QueueImplementsJobLife == Spec => ImplementsJobLife
<1>1. Init => Life!Init
  BY DEF Init, Life!Init, Phase
<1> QED
  BY <1>1, LifeStep, Invariance, PTL DEF Spec, ImplementsJobLife, Life!Spec

-----------------------------------------------------------------------------
(* The cap on bulk exports.  The claim counts leased rows only; it caps what  *)
(* is held because no bulk row reports progress, and SQLite serialises it.   *)
BulkInv ==
  /\ \A w \in Workers : pc[w] # "claiming"
  /\ \A j \in Bulk : state[j] # "running"
  /\ MaxBulk > 0 => Cardinality(LeasedBulk) <= MaxBulk

(* Any other step leases no row and starts none running. *)
Leases == \E i \in Jobs : state'[i] \in Held /\ state'[i] # state[i]
Picks == \E w \in Workers : pc'[w] = "claiming" /\ pc[w] # "claiming"

LEMMA OnlyClaimsLease ==
  ASSUME IndInv, [Next]_vars, Leases
  PROVE  \E w \in Workers : ClaimNext(w) \/ TakeRow(w) \/ Progress(w)
<1>1. ASSUME NEW j \in Jobs, Enqueue(j) \/ Cancel(j) \/ Requeue(j) PROVE ~ Leases
  BY <1>1 DEF Leases, IndInv, TypeOK, Enqueue, Cancel, Requeue, Released
<1>2. ASSUME NEW w \in Workers, Complete(w) PROVE ~ Leases
  BY <1>2 DEF Leases, IndInv, TypeOK, Complete, Released
<1>3. ASSUME NEW w \in Workers, FailWrite(w) PROVE ~ Leases
  <2>1. verdict[w] \in {"queued", "failed"}
    BY <1>3 DEF FailWrite, IndInv, StagesCoherent
  <2>2. \/ state' = [state EXCEPT ![task[w]] = verdict[w]]
        \/ state' = state
    BY <1>3 DEF FailWrite, Released
  <2> QED
    BY <2>1, <2>2 DEF Leases, IndInv, TypeOK
<1>4. ASSUME NEW w \in Workers, RequeueExpiredLeases(w) \/ PurgeTerminalJobs(w) PROVE ~ Leases
  BY <1>4 DEF Leases, IndInv, TypeOK, RequeueExpiredLeases, PurgeTerminalJobs
<1>5. ASSUME NEW w \in Workers,
             \/ PickRow(w) \/ ReadRow(w) \/ CountAttempt(w) \/ LogAttempt(w) \/ HandlerReturns(w)
             \/ NoticeCancel(w) \/ FailRead(w) \/ CloseAttempt(w) \/ Stop(w)
      PROVE  ~ Leases
  BY <1>5 DEF Leases, PickRow, ReadRow, CountAttempt, LogAttempt, HandlerReturns, NoticeCancel,
     FailRead, CloseAttempt, Stop
<1>6. CASE Tick \/ UNCHANGED vars
  BY <1>6 DEF Leases, Tick, vars
<1> QED
  BY <1>1, <1>2, <1>3, <1>4, <1>5, <1>6 DEF Next, Work, Attempting

LEMMA OnlyPostgresPicks ==
  ASSUME IndInv, [Next]_vars, Picks
  PROVE  SkipLocked
<1>1. ASSUME NEW j \in Jobs, Enqueue(j) \/ Cancel(j) \/ Requeue(j) PROVE ~ Picks
  BY <1>1 DEF Picks, Enqueue, Cancel, Requeue
<1>2. ASSUME NEW w \in Workers, Attempting(w) PROVE ~ Picks
  BY <1>2 DEF Picks, IndInv, TypeOK, Attempting, CountAttempt, LogAttempt,
     HandlerReturns, NoticeCancel, Complete, FailRead, FailWrite, CloseAttempt
<1>3. ASSUME NEW w \in Workers,
             \/ ClaimNext(w) \/ TakeRow(w) \/ ReadRow(w) \/ Progress(w)
             \/ RequeueExpiredLeases(w) \/ PurgeTerminalJobs(w) \/ Stop(w)
      PROVE  ~ Picks
  BY <1>3 DEF Picks, IndInv, TypeOK, ClaimNext, TakeRow, ReadRow, Progress,
     RequeueExpiredLeases, PurgeTerminalJobs, Stop
<1>4. CASE Tick \/ UNCHANGED vars
  BY <1>4 DEF Picks, Tick, vars
<1> QED
  BY <1>1, <1>2, <1>3, <1>4 DEF Next, Work, PickRow

LEMMA BulkStep ==
  ASSUME IsFiniteSet(Bulk), Bulk \cap Reporting = {}, ~ SkipLocked,
         IndInv, BulkInv, [Next]_vars
  PROVE  BulkInv'
<1>1. TypeOK /\ TypeOK'
  BY NextInv DEF IndInv
<1>2. \A w \in Workers : pc'[w] # "claiming"
  BY OnlyPostgresPicks DEF Picks, BulkInv
<1>3. IsFiniteSet(LeasedBulk) /\ Cardinality(LeasedBulk) \in Nat
  BY FS_Subset, FS_CardinalityType DEF LeasedBulk
<1>4. ASSUME ~ Leases PROVE BulkInv'
  <2>1. LeasedBulk' \subseteq LeasedBulk /\ \A j \in Bulk : state'[j] # "running"
    BY <1>4 DEF Leases, LeasedBulk, BulkInv
  <2>2. Cardinality(LeasedBulk') <= Cardinality(LeasedBulk) /\ Cardinality(LeasedBulk') \in Nat
    BY <1>3, <2>1, FS_Subset, FS_CardinalityType
  <2>3. MaxBulk > 0 => Cardinality(LeasedBulk') <= MaxBulk
    BY <1>3, <2>2 DEF BulkInv
  <2>4. Cardinality(LeasedBulk)' = Cardinality(LeasedBulk')
    OBVIOUS
  <2> QED
    BY <1>2, <2>1, <2>3, <2>4 DEF BulkInv
<1>5. ASSUME NEW w \in Workers, ClaimNext(w) PROVE BulkInv'
  <2>1. PICK j \in Jobs : j \in NextUp /\ TakeLease(w, j)
    BY <1>5 DEF ClaimNext, NextUp, Runnable
  <2>2. state' = [state EXCEPT ![j] = "leased"] /\ ~ BulkFull(j)
    BY <2>1 DEF TakeLease, NextUp, Runnable
  <2>3. \A i \in Bulk : state'[i] # "running"
    BY <1>1, <2>2 DEF TypeOK, BulkInv
  <2>4. CASE j \in Bulk
    <3>1. LeasedBulk' \subseteq LeasedBulk \cup {j}
      BY <1>1, <2>2 DEF LeasedBulk, TypeOK
    <3>2. Cardinality(LeasedBulk') \in Nat /\ Cardinality(LeasedBulk') <= Cardinality(LeasedBulk) + 1
      BY <1>3, <3>1, PartOfOneMore
    <3>4. MaxBulk > 0 => ~ (Cardinality(LeasedBulk) >= MaxBulk)
      BY <2>2, <2>4 DEF BulkFull
    <3>5. MaxBulk \in Nat
      BY QueueAssumption
    <3>6. MaxBulk > 0 => Cardinality(LeasedBulk') <= MaxBulk
      BY <1>3, <3>2, <3>4, <3>5
    <3> QED
      BY <1>2, <2>3, <3>6 DEF BulkInv
  <2>5. CASE j \notin Bulk
    <3>1. LeasedBulk' = LeasedBulk
      BY <1>1, <2>2, <2>5 DEF LeasedBulk, TypeOK
    <3> QED
      BY <1>2, <2>3, <3>1 DEF BulkInv
  <2> QED
    BY <2>4, <2>5
<1>6. ASSUME NEW w \in Workers, TakeRow(w) PROVE FALSE
  BY <1>6 DEF TakeRow, BulkInv
<1>7. ASSUME NEW w \in Workers, Progress(w) PROVE BulkInv'
  <2>1. task[w] \notin Bulk /\ state' = [state EXCEPT ![task[w]] = "running"]
    BY <1>7 DEF Progress
  <2>2. LeasedBulk' = LeasedBulk /\ \A i \in Bulk : state'[i] # "running"
    BY <1>1, <2>1 DEF LeasedBulk, TypeOK, BulkInv
  <2> QED
    BY <1>2, <2>2 DEF BulkInv
<1> QED
  BY <1>4, <1>5, <1>6, <1>7, OnlyClaimsLease

(* With SQLite's claim, and bulk handlers that report no progress, no more    *)
(* bulk rows are ever held than the configured number.                      *)
THEOREM BulkIsCapped ==
  ASSUME IsFiniteSet(Bulk), Bulk \cap Reporting = {}, ~ SkipLocked
  PROVE  Spec => []BulkCap
<1>1. ASSUME Init PROVE BulkInv
  <2>1. LeasedBulk = {}
    BY <1>1 DEF Init, LeasedBulk
  <2>2. Cardinality(LeasedBulk) = 0
    BY <2>1, FS_EmptySet
  <2>3. \A w \in Workers : pc[w] # "claiming"
    BY <1>1 DEF Init
  <2>4. \A j \in Bulk : state[j] # "running"
    BY <1>1 DEF Init
  <2> QED
    BY <2>2, <2>3, <2>4 DEF BulkInv
<1>2. IndInv /\ BulkInv /\ [Next]_vars => BulkInv'
  BY BulkStep
<1>3. IndInv /\ BulkInv => BulkCap
  <2> SUFFICES ASSUME BulkInv PROVE BulkCap
    OBVIOUS
  <2>1. {j \in Bulk : state[j] \in Held} = LeasedBulk
    BY DEF BulkInv, LeasedBulk
  <2> QED
    BY <2>1 DEF BulkInv, BulkCap
<1> QED
  BY <1>1, <1>2, <1>3, Invariance, PTL DEF Spec

=============================================================================
