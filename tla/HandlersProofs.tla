---------------------------- MODULE HandlersProofs ----------------------------
(***************************************************************************)
(* Proofs about what the queue's jobs do: imports, exports, payouts, the   *)
(* settling of retention proposals and readers' copies, for any number of  *)
(* workers, rows, readers and passes.  Each part has an inductive          *)
(* invariant of its own; the last section puts the parts side by side.     *)
(***************************************************************************)
EXTENDS MCHandlers, FiniteSetTheorems, TLAPS

-----------------------------------------------------------------------------
(* Imports: what a worker holds of a unit, and what the rows say of it. *)

QueueTyped ==
  /\ phase \in [Jobs -> {"unborn", "waiting", "held", "succeeded", "failed",
                         "cancelled", "purged"}]
  /\ holder \in [Jobs -> Workers \cup {NoOne}]
RowTyped ==
  /\ row \in {"none", "queued", "running"} \cup Over
  /\ linked \in Jobs \cup {NoOne}
  /\ units \in [Units -> {"none", "stored", "failed"}]
  /\ ghosts \subseteq Units
  /\ held \subseteq Units
TabsTyped ==
  /\ tab \in [Tabs -> {"idle", "insert", "cancelRow", "cancelJob", "post", "mark"}]
  /\ posted \in [Tabs -> Jobs \cup {NoOne}]
RunsTyped ==
  /\ at \in [Workers -> Stages]
  /\ task \in [Workers -> Jobs \cup {NoOne}]
  /\ stored \in [Workers -> SUBSET Units]
  /\ wanted \in [Workers -> SUBSET Units]
  /\ fetched \in [Workers -> SUBSET Units]
  /\ spoiled \in [Workers -> BOOLEAN]
  /\ late \in [Workers -> Nat]

LEMMA TypeParts ==
  TypeOK <=> /\ QueueTyped /\ RowTyped /\ TabsTyped /\ RunsTyped
             /\ keeps \in BOOLEAN /\ perUnit \in BOOLEAN /\ trouble \in 0..MaxTrouble
  BY DEF TypeOK, QueueTyped, RowTyped, TabsTyped, RunsTyped

LEMMA QueueKept ==
  ASSUME QueueTyped,
         \/ UNCHANGED queue
         \/ \E j \in Jobs : Queue!Post(j)
         \/ \E j : Queue!Settle(j) \/ Queue!Withdraw(j) \/ Queue!Reopen(j)
         \/ \E j \in Jobs, w \in Workers : Queue!Take(j, w)
         \/ \E S : Queue!GiveBack(S) \/ Queue!Forget(S)
  PROVE  QueueTyped'
<1> USE DEF QueueTyped
<1>1. CASE UNCHANGED queue
  BY <1>1 DEF queue
<1>2. ASSUME NEW j \in Jobs, Queue!Post(j) PROVE QueueTyped'
  BY <1>2 DEF Queue!Post
<1>3. ASSUME NEW j, Queue!Settle(j) PROVE QueueTyped'
  BY <1>3 DEF Queue!Settle
<1>4. ASSUME NEW j, Queue!Withdraw(j) PROVE QueueTyped'
  BY <1>4 DEF Queue!Withdraw
<1>5. ASSUME NEW j, Queue!Reopen(j) PROVE QueueTyped'
  BY <1>5 DEF Queue!Reopen
<1>6. ASSUME NEW j \in Jobs, NEW w \in Workers, Queue!Take(j, w) PROVE QueueTyped'
  BY <1>6 DEF Queue!Take
<1>7. ASSUME NEW S, Queue!GiveBack(S) PROVE QueueTyped'
  BY <1>7 DEF Queue!GiveBack
<1>8. ASSUME NEW S, Queue!Forget(S) PROVE QueueTyped'
  BY <1>8 DEF Queue!Forget
<1> QED
  BY <1>1, <1>2, <1>3, <1>4, <1>5, <1>6, <1>7, <1>8

LEMMA Counted == trouble \in 0..MaxTrouble /\ Trouble => trouble' \in 0..MaxTrouble
  BY ImportsAssumption DEF Trouble

(* A request leaves the runs, the units and the bodies alone; it sets the     *)
(* import's row to queued or cancelled.                                     *)
LEMMA RequestStep ==
  ASSUME TypeOK, NEW t \in Tabs, Request(t)
  PROVE  /\ TypeOK'
         /\ UNCHANGED <<kind, units, ghosts, held, runs>>
         /\ row' = row \/ row' \in {"queued", "cancelled"}
<1> DEFINE Goal == /\ TypeOK'
                   /\ UNCHANGED <<kind, units, ghosts, held, runs>>
                   /\ row' = row \/ row' \in {"queued", "cancelled"}
<1>1. QueueTyped /\ RowTyped /\ TabsTyped /\ RunsTyped
      /\ keeps \in BOOLEAN /\ perUnit \in BOOLEAN /\ trouble \in 0..MaxTrouble
  BY TypeParts
<1> DEFINE Apart == /\ UNCHANGED <<kind, units, ghosts, held, runs>>
                    /\ row' = row \/ row' \in {"queued", "cancelled"}
                    /\ trouble' = trouble \/ Trouble
<1>2. ASSUME QueueTyped', RowTyped', TabsTyped', Apart PROVE Goal
  <2>1. trouble' \in 0..MaxTrouble
    BY <1>1, <1>2, Counted
  <2>2. RunsTyped' /\ keeps' \in BOOLEAN /\ perUnit' \in BOOLEAN
    BY <1>1, <1>2 DEF RunsTyped, runs, kind
  <2> QED
    BY <1>2, <2>1, <2>2 DEF Goal, TypeOK, QueueTyped, RowTyped, TabsTyped, RunsTyped
<1> HIDE DEF Goal, Apart
<1>3. ASSUME NEW j \in Jobs, PostStart(t, j) \/ PostRetry(t, j) PROVE Goal
  <2>1. QueueTyped'
    BY <1>1, <1>3, QueueKept DEF PostStart, PostRetry
  <2>2. RowTyped' /\ TabsTyped'
    BY <1>1, <1>3 DEF PostStart, PostRetry, RowTyped, TabsTyped, import
  <2>3. Apart
    BY <1>3 DEF Apart, PostStart, PostRetry, import
  <2> QED
    BY <1>2, <2>1, <2>2, <2>3
<1>4. ASSUME InsertImport(t) PROVE Goal
  <2>1. QueueTyped'
    BY <1>1, <1>4, QueueKept DEF InsertImport
  <2>2. RowTyped' /\ TabsTyped'
    BY <1>1, <1>4 DEF InsertImport, RowTyped, TabsTyped
  <2>3. Apart
    BY <1>4 DEF Apart, InsertImport
  <2> QED
    BY <1>2, <2>1, <2>2, <2>3
<1>5. ASSUME AskCancel(t) \/ AskRetry(t) \/ RequestDies(t) PROVE Goal
  <2>1. QueueTyped'
    BY <1>1, <1>5, QueueKept DEF AskCancel, AskRetry, RequestDies
  <2>2. RowTyped' /\ TabsTyped'
    BY <1>1, <1>5 DEF AskCancel, AskRetry, RequestDies, RowTyped, TabsTyped, import
  <2>3. Apart
    BY <1>5 DEF Apart, AskCancel, AskRetry, RequestDies, import
  <2> QED
    BY <1>2, <2>1, <2>2, <2>3
<1>6. ASSUME CancelRow(t) \/ MarkQueued(t) PROVE Goal
  <2>1. QueueTyped'
    BY <1>1, <1>6, QueueKept DEF CancelRow, MarkQueued
  <2>2. RowTyped' /\ TabsTyped'
    BY <1>1, <1>6 DEF CancelRow, MarkQueued, RowTo, RowTyped, TabsTyped, Over
  <2>3. Apart
    BY <1>6 DEF Apart, CancelRow, MarkQueued, RowTo
  <2> QED
    BY <1>2, <2>1, <2>2, <2>3
<1>7. ASSUME CancelJob(t) PROVE Goal
  <2>1. QueueTyped'
    BY <1>1, <1>7, QueueKept DEF CancelJob
  <2>2. RowTyped' /\ TabsTyped'
    BY <1>1, <1>7 DEF CancelJob, RowTyped, TabsTyped, import
  <2>3. Apart
    BY <1>7 DEF Apart, CancelJob, import
  <2> QED
    BY <1>2, <2>1, <2>2, <2>3
<1> QED
  BY <1>3, <1>4, <1>5, <1>6, <1>7 DEF Request, Goal

LEMMA RunTyped ==
  ASSUME TypeOK, NEW w \in Workers, Run(w)
  PROVE  RowTyped' /\ TabsTyped' /\ RunsTyped' /\ keeps' \in BOOLEAN /\ perUnit' \in BOOLEAN
         /\ UNCHANGED <<kind, tabs>>
<1> DEFINE Goal == /\ RowTyped' /\ TabsTyped' /\ RunsTyped' /\ keeps' \in BOOLEAN
                   /\ perUnit' \in BOOLEAN /\ UNCHANGED <<kind, tabs>>
<1>1. RowTyped /\ TabsTyped /\ RunsTyped /\ keeps \in BOOLEAN /\ perUnit \in BOOLEAN
  BY TypeParts
<1>2. ASSUME RowTyped', RunsTyped', UNCHANGED <<kind, tabs>> PROVE Goal
  BY <1>1, <1>2 DEF TabsTyped, kind, tabs
<1>3. ASSUME UNCHANGED import PROVE RowTyped'
  BY <1>1, <1>3 DEF RowTyped, import
<1>4. ASSUME NEW s \in Stages, GoTo(w, s), UNCHANGED locals PROVE RunsTyped'
  BY <1>1, <1>4 DEF RunsTyped, GoTo, locals
<1>5. ASSUME NEW s \in {"failed", "running", "completed"}, RowTo(s),
             UNCHANGED <<linked, units, ghosts, held>>
      PROVE  RowTyped'
  BY <1>1, <1>5 DEF RowTyped, RowTo, Over
<1> HIDE DEF Goal
<1>6. ASSUME NEW s \in Stages, GoTo(w, s), UNCHANGED <<kind, import, tabs, locals>> PROVE Goal
  <2>1. UNCHANGED locals /\ UNCHANGED import /\ UNCHANGED <<kind, tabs>>
    BY <1>6
  <2> QED
    BY <1>2, <1>3, <1>4, <1>6, <2>1
<1>7. ASSUME NEW r \in {"failed", "running", "completed"}, RowTo(r), NEW s \in Stages, GoTo(w, s),
             UNCHANGED <<kind, linked, units, ghosts, held, tabs, locals>>
      PROVE Goal
  <2>1. /\ UNCHANGED locals /\ UNCHANGED <<linked, units, ghosts, held>>
        /\ UNCHANGED <<kind, tabs>>
    BY <1>7
  <2> QED
    BY <1>2, <1>4, <1>5, <1>7, <2>1
<1>8. ASSUME NEW j \in Jobs, Take(w, j) PROVE Goal
  <2>1. RunsTyped'
    BY <1>1, <1>8 DEF Take, RunsTyped, GoTo, Stages
  <2>2. UNCHANGED import /\ UNCHANGED <<kind, tabs>>
    BY <1>8 DEF Take
  <2> QED
    BY <1>2, <1>3, <2>1, <2>2
<1>9. ASSUME FindImport(w) \/ RunFails(w) \/ Preview(w) \/ SeeCancel(w) \/ RereadDone(w)
             \/ FetchFails(w) \/ PutFails(w) \/ StoreFails(w) \/ LoopDone(w) \/ Settle(w) \/ Kill(w)
      PROVE Goal
  <2>1. UNCHANGED <<kind, import, tabs, locals>>
    BY <1>9 DEF FindImport, RunFails, Preview, SeeCancel, RereadDone, FetchFails, PutFails,
                StoreFails, LoopDone, Settle, Kill
  <2>2. \E s \in Stages : GoTo(w, s)
    BY <1>9 DEF FindImport, RunFails, Preview, SeeCancel, RereadDone, FetchFails, PutFails,
                StoreFails, LoopDone, Settle, Kill, Stages, Verdicts
  <2> QED
    BY <1>6, <2>1, <2>2
<1>10. ASSUME \E u \in Units : Begin(w, u) PROVE Goal
  <2>1. GoTo(w, "put") /\ UNCHANGED <<kind, import, tabs, locals>> /\ "put" \in Stages
    BY <1>10 DEF Begin, Stages
  <2> QED
    BY <1>6, <2>1
<1>11. ASSUME Refuse(w) \/ StartRunning(w) \/ OriginGone(w) \/ FailImport(w) \/ Finish(w) PROVE Goal
  <2>1. UNCHANGED <<kind, linked, units, ghosts, held, tabs, locals>>
    BY <1>11 DEF Refuse, StartRunning, OriginGone, FailImport, Finish
  <2>2. \E r \in {"failed", "running", "completed"} : RowTo(r)
    BY <1>11 DEF Refuse, StartRunning, OriginGone, FailImport, Finish
  <2>3. \E s \in Stages : GoTo(w, s)
    BY <1>11 DEF Refuse, StartRunning, OriginGone, FailImport, Finish, Failing, Stages, Verdicts
  <2> QED
    BY <1>7, <2>1, <2>2, <2>3
<1>12. ASSUME ListUnits(w) PROVE Goal
  <2>1. AlreadyStored \subseteq Units /\ FailedUnits \subseteq Units
    BY <1>1 DEF AlreadyStored, FailedUnits, RowTyped
  <2>2. RunsTyped'
    BY <1>1, <1>12, <2>1 DEF ListUnits, RunsTyped, GoTo, Stages
  <2>3. UNCHANGED import /\ UNCHANGED <<kind, tabs>>
    BY <1>12 DEF ListUnits
  <2> QED
    BY <1>2, <1>3, <2>2, <2>3
<1>13. ASSUME NEW u \in Units, Reread(w, u) PROVE Goal
  <2>1. RunsTyped'
    BY <1>1, <1>13 DEF Reread, RunsTyped
  <2>2. RowTyped'
    BY <1>1, <1>13 DEF Reread, RowTyped
  <2>3. UNCHANGED <<kind, tabs>>
    BY <1>13 DEF Reread
  <2> QED
    BY <1>2, <2>1, <2>2, <2>3
<1>14. ASSUME FetchAll(w) \/ (\E u \in Units : Skip(w, u)) PROVE Goal
  <2>1. RunsTyped'
    BY <1>1, <1>14 DEF FetchAll, Skip, RunsTyped, GoTo, Stages
  <2>2. UNCHANGED import /\ UNCHANGED <<kind, tabs>>
    BY <1>14 DEF FetchAll, Skip
  <2> QED
    BY <1>2, <1>3, <2>1, <2>2
<1>15. ASSUME NEW u \in Units, PutUnit(w, u) PROVE Goal
  <2>1. \A n \in Nat : n + 1 \in Nat
    OBVIOUS
  <2>2. late' \in [Workers -> Nat]
    BY <1>1, <1>15, <2>1 DEF PutUnit, RunsTyped
  <2>3. RunsTyped'
    BY <1>1, <1>15, <2>2 DEF PutUnit, RunsTyped, GoTo, Stages
  <2>4. RowTyped' /\ UNCHANGED <<kind, tabs>>
    BY <1>1, <1>15 DEF PutUnit, RowTyped
  <2> QED
    BY <1>2, <2>3, <2>4
<1>16. ASSUME NEW u \in Units, RecordUnit(w, u) PROVE Goal
  <2>1. UnitState(w) \in {"stored", "failed"}
    BY DEF UnitState
  <2>2. RowTyped' /\ UNCHANGED <<kind, tabs>>
    BY <1>1, <1>16, <2>1 DEF RecordUnit, RowTyped
  <2>3. RunsTyped'
    BY <1>1, <1>16 DEF RecordUnit, RunsTyped, GoTo, Stages
  <2> QED
    BY <1>2, <2>2, <2>3
<1> QED
  BY <1>8, <1>9, <1>10, <1>11, <1>12, <1>13, <1>14, <1>15, <1>16 DEF Run, Goal

(* What a run does to the queue: it takes a row, or settles the one it holds. *)
LEMMA RunOnQueue ==
  ASSUME NEW w \in Workers, Run(w)
  PROVE  /\ \/ UNCHANGED queue
            \/ \E j \in Jobs : Take(w, j)
            \/ Settle(w)
         /\ trouble' = trouble \/ Trouble
  BY DEF Run, Take, FindImport, Refuse, StartRunning, OriginGone, RunFails, Preview,
         ListUnits, SeeCancel,
         RereadDone, FetchAll, FetchFails, Reread, Skip, Begin, PutUnit, RecordUnit, PutFails,
         StoreFails, LoopDone, FailImport, Finish, Settle, Kill

LEMMA ImportTypeStep == TypeOK /\ [Next]_vars => TypeOK'
<1> SUFFICES ASSUME TypeOK, [Next]_vars PROVE TypeOK'
  OBVIOUS
<1>1. /\ QueueTyped /\ RowTyped /\ TabsTyped /\ RunsTyped
      /\ keeps \in BOOLEAN /\ perUnit \in BOOLEAN /\ trouble \in 0..MaxTrouble
  BY TypeParts
<1>2. ASSUME QueueTyped', RowTyped', TabsTyped', RunsTyped', keeps' \in BOOLEAN,
             perUnit' \in BOOLEAN, trouble' = trouble \/ Trouble
      PROVE  TypeOK'
  <2>1. trouble' \in 0..MaxTrouble
    BY <1>1, <1>2, Counted
  <2> QED
    BY <1>2, <2>1 DEF TypeOK, QueueTyped, RowTyped, TabsTyped, RunsTyped
<1>3. ASSUME UNCHANGED <<kind, tabs, at, task, stored, wanted, fetched, spoiled>>
      PROVE  /\ keeps' \in BOOLEAN /\ perUnit' \in BOOLEAN /\ TabsTyped'
             /\ late' \in [Workers -> Nat] => RunsTyped'
  BY <1>1, <1>3 DEF kind, tabs, TabsTyped, RunsTyped
<1>4. ASSUME NEW w \in Workers, Run(w) PROVE TypeOK'
  <2>1. QueueTyped'
    <3>1. UNCHANGED queue => QueueTyped'
      BY <1>1, QueueKept
    <3>2. ASSUME NEW j \in Jobs, Take(w, j) PROVE QueueTyped'
      BY <1>1, <3>2, QueueKept DEF Take
    <3>3. ASSUME Settle(w) PROVE QueueTyped'
      <4>1. \/ UNCHANGED queue
            \/ Queue!Settle(task[w])
            \/ Queue!GiveBack({task[w]})
        BY <3>3 DEF Settle
      <4> QED
        BY <1>1, <4>1, QueueKept
    <3> QED
      BY <1>4, <3>1, <3>2, <3>3, RunOnQueue
  <2> QED
    BY <1>2, <1>4, <2>1, RunTyped, RunOnQueue
<1>5. ASSUME NEW j \in Jobs, LeaseEnds(j) PROVE TypeOK'
  <2>1. QueueTyped'
    BY <1>1, <1>5, QueueKept DEF LeaseEnds
  <2>2. RowTyped' /\ UNCHANGED <<kind, tabs, at, task, stored, wanted, fetched, spoiled>>
    BY <1>1, <1>5 DEF LeaseEnds, RowTyped, import, runs
  <2>3. late' \in [Workers -> Nat] /\ (trouble' = trouble \/ Trouble)
    BY <1>1, <1>5 DEF LeaseEnds, RunsTyped, runs
  <2> QED
    BY <1>2, <1>3, <2>1, <2>2, <2>3
<1>6. ASSUME NEW j \in Jobs, Reopen(j) PROVE TypeOK'
  <2>1. QueueTyped'
    BY <1>1, <1>6, QueueKept DEF Reopen
  <2>2. RowTyped' /\ UNCHANGED <<kind, tabs, at, task, stored, wanted, fetched, spoiled>>
    BY <1>1, <1>6 DEF Reopen, RowTyped, import
  <2>3. late' \in [Workers -> Nat] /\ (trouble' = trouble \/ Trouble)
    BY <1>1, <1>6 DEF Reopen, RunsTyped
  <2> QED
    BY <1>2, <1>3, <2>1, <2>2, <2>3
<1>7. ASSUME NEW S \in SUBSET Jobs, Purge(S) PROVE TypeOK'
  <2>1. QueueTyped'
    BY <1>1, <1>7, QueueKept DEF Purge
  <2>2. UNCHANGED <<kind, tabs, at, task, stored, wanted, fetched, spoiled>>
    BY <1>7 DEF Purge, runs
  <2>3. RowTyped'
    BY <1>1, <1>7 DEF Purge, RowTyped
  <2>4. late' \in [Workers -> Nat] /\ (trouble' = trouble \/ Trouble)
    BY <1>1, <1>7 DEF Purge, RunsTyped, runs
  <2> QED
    BY <1>2, <1>3, <2>1, <2>2, <2>3, <2>4
<1>8. CASE UNCHANGED vars
  BY <1>8 DEF TypeOK, vars, queue, kind, import, tabs, runs
<1> QED
  BY <1>4, <1>5, <1>6, <1>7, <1>8, RequestStep DEF Next

LEMMA ImportTypeInit == Init => TypeOK
<1> SUFFICES ASSUME Init PROVE TypeOK
  OBVIOUS
<1>1. keeps \in BOOLEAN /\ perUnit \in BOOLEAN /\ trouble \in 0..MaxTrouble
  BY ImportsAssumption DEF Init
<1> QED
  BY <1>1 DEF Init, Queue!Init, TypeOK, Stages

-----------------------------------------------------------------------------
(* The invariant *)

(* What a later run skips, or a row calls stored, is in the library; and so   *)
(* is the unit a run is about to record.                                    *)
Bodies(w) ==
  /\ stored[w] \subseteq held
  /\ at[w] = "record" => \A u \in Units : Current(w, u) => u \in held

(* Of a whole work, what an unspoiled run has still to store is in its hands. *)
Whole(w) ==
  /\ at[w] = "reread" => perUnit
  /\ keeps /\ ~perUnit =>
       /\ at[w] \in {"next", "put", "record", "note"} /\ ~spoiled[w] => Units \ fetched[w] \subseteq held
       /\ at[w] = "finish" => held = Units

(* One body too many at most, and after it no other: only a purged row may    *)
(* have let the run go on.                                                  *)
InTime(w) ==
  /\ at[w] # "idle" => task[w] \in Jobs
  /\ late[w] <= 1
  /\ late[w] = 1 => /\ task[w] \in Jobs /\ phase[task[w]] \in {"cancelled", "purged"}
                    /\ at[w] = "put" => phase[task[w]] = "purged"

ImportInv ==
  /\ TypeOK
  /\ StoredRowsHaveBodies
  /\ BulkImportHoldsEveryBody
  /\ \A w \in Workers : Bodies(w) /\ Whole(w) /\ InTime(w)

LEMMA CurrentUnique ==
  ASSUME TypeOK, NEW w \in Workers, NEW u \in Units, NEW v \in Units, Current(w, u), Current(w, v)
  PROVE  u = v
<1>1. u \in Nat /\ v \in Nat
  BY ImportsAssumption
<1>2. u <= v /\ v <= u
  BY DEF Current
<1> QED
  BY <1>1, <1>2

(* A cancelled row stays so until an operator reopens it or it is purged, a   *)
(* purged one for ever.                                                     *)
LEMMA Buried ==
  ASSUME TypeOK, [Next]_vars, NEW j \in Jobs, ~ Reopen(j)
  PROVE  /\ phase[j] = "cancelled" => phase'[j] \in {"cancelled", "purged"}
         /\ phase[j] = "purged" => phase'[j] = "purged"
<1> DEFINE Goal == /\ phase[j] = "cancelled" => phase'[j] \in {"cancelled", "purged"}
                   /\ phase[j] = "purged" => phase'[j] = "purged"
<1>1. QueueTyped
  BY TypeParts
<1>2. ASSUME UNCHANGED queue PROVE Goal
  BY <1>2 DEF queue
<1>3. ASSUME NEW i, Queue!Post(i) \/ Queue!Settle(i) \/ Queue!Withdraw(i) PROVE Goal
  BY <1>1, <1>3 DEF Queue!Post, Queue!Settle, Queue!Withdraw, QueueTyped
<1>4. ASSUME NEW i, NEW w, Queue!Take(i, w) PROVE Goal
  BY <1>1, <1>4 DEF Queue!Take, QueueTyped
<1>5. ASSUME NEW S, Queue!GiveBack(S) \/ Queue!Forget(S) PROVE Goal
  BY <1>1, <1>5 DEF Queue!GiveBack, Queue!Forget, Queue!Finished, QueueTyped
<1>6. ASSUME NEW i \in Jobs, Reopen(i) PROVE Goal
  <2>1. i # j
    BY <1>6
  <2> QED
    BY <1>1, <1>6, <2>1 DEF Reopen, Queue!Reopen, QueueTyped
<1> HIDE DEF Goal
<1>7. ASSUME NEW t \in Tabs, Request(t) PROVE Goal
  <2>1. \/ UNCHANGED queue
        \/ \E i : Queue!Post(i) \/ Queue!Withdraw(i)
    BY <1>7 DEF Request, PostStart, PostRetry, InsertImport, AskCancel, CancelRow,
                CancelJob, AskRetry,
                MarkQueued, RequestDies
  <2> QED
    BY <1>2, <1>3, <2>1
<1>8. ASSUME NEW w \in Workers, Run(w) PROVE Goal
  <2>1. \/ UNCHANGED queue
        \/ \E i : Queue!Take(i, w)
        \/ \E i : Queue!Settle(i) \/ Queue!GiveBack({i})
    BY <1>8, RunOnQueue DEF Take, Settle
  <2> QED
    BY <1>2, <1>3, <1>4, <1>5, <2>1
<1>9. ASSUME NEW i \in Jobs, LeaseEnds(i) PROVE Goal
  BY <1>5, <1>9 DEF LeaseEnds
<1>10. ASSUME NEW S, Purge(S) PROVE Goal
  BY <1>5, <1>10 DEF Purge
<1>11. ASSUME UNCHANGED vars PROVE Goal
  BY <1>2, <1>11 DEF vars
<1> QED
  BY <1>6, <1>7, <1>8, <1>9, <1>10, <1>11 DEF Next, Goal

LEMMA InTimeStands ==
  ASSUME ImportInv, [Next]_vars, NEW w \in Workers,
         task'[w] = task[w], late'[w] = late[w] \/ late'[w] = 0,
         at'[w] # "idle" => at[w] # "idle", at'[w] = "put" => at[w] = "put"
  PROVE  InTime(w)'
<1>1. InTime(w)
  BY DEF ImportInv
<1>2. ASSUME late'[w] = 1
      PROVE  /\ task[w] \in Jobs /\ phase'[task[w]] \in {"cancelled", "purged"}
             /\ phase[task[w]] = "purged" => phase'[task[w]] = "purged"
  <2>1. late[w] = 1
    BY <1>2
  <2>3. task[w] \in Jobs /\ phase[task[w]] \in {"cancelled", "purged"}
    BY <1>1, <2>1 DEF InTime
  <2>2. ~ Reopen(task[w])
    BY <1>2 DEF Reopen
  <2> QED
    BY <2>2, <2>3, Buried DEF ImportInv
<1>3. late'[w] <= 1
  BY <1>1 DEF InTime
<1>4. at'[w] # "idle" => task'[w] \in Jobs
  BY <1>1 DEF InTime
<1>5. ASSUME late'[w] = 1, at'[w] = "put" PROVE phase[task[w]] = "purged"
  <2>1. late[w] = 1
    BY <1>5
  <2> QED
    BY <1>1, <1>5, <2>1 DEF InTime
<1> QED
  BY <1>2, <1>3, <1>4, <1>5 DEF InTime

(* A worker that does not move is not disturbed. *)
LEMMA StandsAside ==
  ASSUME ImportInv, [Next]_vars, NEW w \in Workers, UNCHANGED kind, held \subseteq held',
         at'[w] = at[w], task'[w] = task[w], stored'[w] = stored[w], fetched'[w] = fetched[w],
         spoiled'[w] = spoiled[w], late'[w] = late[w] \/ late'[w] = 0
  PROVE  Bodies(w)' /\ Whole(w)' /\ InTime(w)'
<1>1. InTime(w)'
  BY InTimeStands
<1>2. Bodies(w) /\ Whole(w)
  BY DEF ImportInv
<1>3. held' \subseteq Units
  BY ImportTypeStep DEF ImportInv, TypeOK
<1>4. Bodies(w)'
  BY <1>2 DEF Bodies, Current
<1>5. Whole(w)'
  BY <1>2, <1>3 DEF Whole, kind
<1> QED
  BY <1>1, <1>4, <1>5

Unmoved(v) ==
  /\ at'[v] = at[v] /\ task'[v] = task[v] /\ stored'[v] = stored[v]
  /\ fetched'[v] = fetched[v] /\ spoiled'[v] = spoiled[v] /\ late'[v] = late[v]

(* A run moves nobody else, and takes no body away. *)
LEMMA RunAlone ==
  ASSUME TypeOK, NEW w \in Workers, Run(w)
  PROVE  /\ UNCHANGED kind /\ held \subseteq held'
         /\ \A v \in Workers \ {w} : Unmoved(v)
<1> DEFINE Goal == /\ held \subseteq held'
                   /\ \A v \in Workers \ {w} : Unmoved(v)
<1>0. RunsTyped
  BY TypeParts
<1>1. ASSUME NEW s, GoTo(w, s), UNCHANGED held, UNCHANGED locals PROVE Goal
  BY <1>0, <1>1 DEF GoTo, locals, RunsTyped, Unmoved
<1>2. ASSUME NEW j \in Jobs, Take(w, j) PROVE Goal
  BY <1>0, <1>2 DEF Take, GoTo, RunsTyped, import, Unmoved
<1>3. ASSUME ListUnits(w) \/ FetchAll(w) PROVE Goal
  BY <1>0, <1>3 DEF ListUnits, FetchAll, GoTo, RunsTyped, import, Unmoved
<1>4. ASSUME NEW u \in Units, Reread(w, u) \/ Skip(w, u) PROVE Goal
  BY <1>0, <1>4 DEF Reread, Skip, RunsTyped, import, Unmoved
<1>5. ASSUME NEW u \in Units, PutUnit(w, u) PROVE Goal
  BY <1>0, <1>5 DEF PutUnit, GoTo, RunsTyped, Unmoved
<1>6. ASSUME NEW u \in Units, RecordUnit(w, u) PROVE Goal
  BY <1>0, <1>6 DEF RecordUnit, GoTo, RunsTyped, Unmoved
<1> HIDE DEF Goal
<1>7. ASSUME FindImport(w) \/ RunFails(w) \/ Preview(w) \/ SeeCancel(w) \/ RereadDone(w)
             \/ FetchFails(w) \/ PutFails(w) \/ StoreFails(w) \/ LoopDone(w) \/ Settle(w) \/ Kill(w)
             \/ Refuse(w) \/ StartRunning(w) \/ OriginGone(w) \/ FailImport(w) \/ Finish(w)
             \/ \E u \in Units : Begin(w, u)
      PROVE Goal
  <2>1. UNCHANGED held /\ UNCHANGED locals /\ \E s : GoTo(w, s)
    BY <1>7 DEF FindImport, RunFails, Preview, SeeCancel, RereadDone, FetchFails, PutFails,
                StoreFails, LoopDone, Settle, Kill, Refuse, StartRunning, OriginGone,
                FailImport,
                Finish, Begin, import
  <2> QED
    BY <1>1, <2>1
<1>8. UNCHANGED kind
  BY RunTyped
<1>9. Goal
  BY <1>2, <1>3, <1>4, <1>5, <1>6, <1>7 DEF Run
<1> QED
  BY <1>8, <1>9 DEF Goal

(* What the run itself takes for granted. *)
LEMMA RunKeepsOwn ==
  ASSUME ImportInv, NEW w \in Workers, Run(w)
  PROVE  Bodies(w)' /\ Whole(w)' /\ InTime(w)'
<1> DEFINE Goal == Bodies(w)' /\ Whole(w)' /\ InTime(w)'
           Working == {"reread", "next", "put", "record", "note", "finish"}
<1>1. TypeOK /\ RunsTyped /\ [Next]_vars /\ TypeOK'
  BY TypeParts, ImportTypeStep DEF ImportInv, Next
<1>2. /\ Bodies(w) /\ Whole(w) /\ InTime(w)
      /\ UNCHANGED kind /\ held \subseteq held' /\ held' \subseteq Units
  BY <1>1, RunAlone DEF ImportInv, TypeOK
<1> HIDE DEF Goal
<1>3. ASSUME NEW s \in Stages \ Working, GoTo(w, s), UNCHANGED locals, at[w] # "idle"
      PROVE  Goal
  <2>1. at'[w] = s /\ task'[w] = task[w] /\ stored'[w] = stored[w] /\ late'[w] = late[w]
    BY <1>1, <1>3 DEF GoTo, locals, RunsTyped
  <2>2. InTime(w)'
    BY <1>1, <1>3, <2>1, InTimeStands
  <2> QED
    BY <1>2, <2>1, <2>2 DEF Goal, Bodies, Whole
<1>4. ASSUME NEW j \in Jobs, Take(w, j) PROVE Goal
  <2>1. /\ at'[w] = "find" /\ task'[w] = j /\ stored'[w] = {} /\ late'[w] = 0
    BY <1>1, <1>4 DEF Take, GoTo, RunsTyped
  <2> QED
    BY <2>1 DEF Goal, Bodies, Whole, InTime
<1>5. ASSUME FindImport(w) \/ Refuse(w) \/ StartRunning(w) \/ OriginGone(w) \/ RunFails(w) \/ SeeCancel(w)
             \/ FetchFails(w) \/ StoreFails(w) \/ FailImport(w) \/ Finish(w) \/ Settle(w) \/ Kill(w)
      PROVE Goal
  <2>1. UNCHANGED locals /\ at[w] # "idle"
    BY <1>5 DEF FindImport, Refuse, StartRunning, OriginGone, RunFails, SeeCancel, FetchFails,
                StoreFails, FailImport, Finish, Settle, Kill, Failing, Verdicts
  <2>2. \E s \in Stages \ Working : GoTo(w, s)
    BY <1>5 DEF FindImport, Refuse, StartRunning, OriginGone, RunFails, SeeCancel, FetchFails,
                StoreFails, FailImport, Finish, Settle, Kill, Failing, Stages, Verdicts
  <2> QED
    BY <1>3, <2>1, <2>2
<1>6. ASSUME Preview(w) PROVE Goal
  <2>1. /\ at'[w] = IF keeps THEN "list" ELSE "finish"
        /\ task'[w] = task[w] /\ stored'[w] = stored[w] /\ late'[w] = late[w] /\ at[w] = "preview"
    BY <1>1, <1>6 DEF Preview, GoTo, locals, RunsTyped
  <2>2. InTime(w)'
    BY <1>1, <2>1, InTimeStands DEF ImportInv
  <2> QED
    BY <1>2, <2>1, <2>2 DEF Goal, Bodies, Whole, kind
<1>7. ASSUME ListUnits(w) PROVE Goal
  <2>1. /\ at'[w] = "fetch" \/ (at'[w] = "reread" /\ perUnit)
        /\ task'[w] = task[w] /\ stored'[w] = AlreadyStored /\ late'[w] = late[w] /\ at[w] = "list"
    BY <1>1, <1>7 DEF ListUnits, GoTo, RunsTyped
  <2>2. InTime(w)'
    BY <1>1, <2>1, InTimeStands
  <2>3. AlreadyStored \subseteq held
    BY DEF AlreadyStored, ImportInv, StoredRowsHaveBodies
  <2> QED
    BY <1>2, <2>1, <2>2, <2>3 DEF Goal, Bodies, Whole, kind
<1>8. ASSUME NEW u \in Units, Reread(w, u) PROVE Goal
  <2>1. /\ at'[w] = "reread" /\ at[w] = "reread"
        /\ task'[w] = task[w] /\ stored'[w] = stored[w] /\ late'[w] = late[w]
    BY <1>1, <1>8 DEF Reread
  <2>2. InTime(w)'
    BY <1>1, <2>1, InTimeStands
  <2> QED
    BY <1>2, <2>1, <2>2 DEF Goal, Bodies, Whole, kind
<1>9. ASSUME RereadDone(w) PROVE Goal
  <2>1. /\ at'[w] = "next" /\ at[w] = "reread"
        /\ task'[w] = task[w] /\ stored'[w] = stored[w] /\ late'[w] = late[w]
    BY <1>1, <1>9 DEF RereadDone, GoTo, locals, RunsTyped
  <2>2. InTime(w)'
    BY <1>1, <2>1, InTimeStands
  <2> QED
    BY <1>2, <2>1, <2>2 DEF Goal, Bodies, Whole, kind
<1>10. ASSUME FetchAll(w) PROVE Goal
  <2>1. /\ at'[w] = "next" /\ at[w] = "fetch" /\ fetched'[w] = Units
        /\ task'[w] = task[w] /\ stored'[w] = stored[w] /\ late'[w] = late[w]
    BY <1>1, <1>10 DEF FetchAll, GoTo, RunsTyped
  <2>2. InTime(w)'
    BY <1>1, <2>1, InTimeStands
  <2> QED
    BY <1>2, <2>1, <2>2 DEF Goal, Bodies, Whole, kind
<1>11. ASSUME NEW u \in Units, Skip(w, u) PROVE Goal
  <2>1. /\ at'[w] = "next" /\ at[w] = "next" /\ fetched'[w] = fetched[w] \ {u} /\ u \in stored[w]
        /\ task'[w] = task[w] /\ stored'[w] = stored[w] /\ late'[w] = late[w]
        /\ spoiled'[w] = spoiled[w]
    BY <1>1, <1>11 DEF Skip, RunsTyped
  <2>2. InTime(w)'
    BY <1>1, <2>1, InTimeStands
  <2> QED
    BY <1>2, <2>1, <2>2 DEF Goal, Bodies, Whole, kind
<1>12. ASSUME NEW u \in Units, Begin(w, u) PROVE Goal
  <2>1. /\ at'[w] = "put" /\ at[w] = "next" /\ fetched'[w] = fetched[w]
        /\ task'[w] = task[w] /\ stored'[w] = stored[w] /\ late'[w] = late[w]
        /\ spoiled'[w] = spoiled[w] /\ phase' = phase /\ phase[task[w]] # "cancelled"
    BY <1>1, <1>12 DEF Begin, GoTo, locals, RunsTyped, queue, Cancelled
  <2>2. InTime(w)'
    BY <1>2, <2>1 DEF InTime
  <2> QED
    BY <1>2, <2>1, <2>2 DEF Goal, Bodies, Whole, kind
<1>13. ASSUME NEW u \in Units, PutUnit(w, u) PROVE Goal
  <2>1. /\ at'[w] = "record" /\ at[w] = "put" /\ fetched' = fetched
        /\ task'[w] = task[w] /\ stored'[w] = stored[w] /\ phase' = phase
        /\ spoiled'[w] = spoiled[w] /\ held' = held \cup {u} /\ Current(w, u)
    BY <1>1, <1>13 DEF PutUnit, GoTo, RunsTyped, queue
  <2>2. /\ phase[task[w]] = "cancelled" => late'[w] = late[w] + 1
        /\ phase[task[w]] # "cancelled" => late'[w] = 0
    BY <1>1, <1>13 DEF PutUnit, RunsTyped, Cancelled
  <2>3. phase[task[w]] = "cancelled" => late[w] = 0
    <3>2. late[w] \in Nat /\ late[w] <= 1
      BY <1>1, <1>2 DEF InTime, RunsTyped
    <3>3. late[w] = 0 \/ late[w] = 1
      BY <3>2
    <3>4. late[w] = 1 => phase[task[w]] = "purged"
      BY <1>2, <2>1 DEF InTime
    <3> QED
      BY <3>3, <3>4
  <2>4. /\ phase[task[w]] = "cancelled" => late'[w] = 1
        /\ phase[task[w]] # "cancelled" => late'[w] = 0
    BY <2>2, <2>3
  <2>5. InTime(w)'
    BY <1>2, <2>1, <2>4 DEF InTime
  <2>6. \A v \in Units : Current(w, v) => v = u
    BY <1>1, <2>1, CurrentUnique
  <2>7. Bodies(w)'
    BY <1>2, <2>1, <2>6 DEF Bodies, Current
  <2> QED
    BY <1>2, <2>1, <2>5, <2>7 DEF Goal, Whole, kind
<1>14. ASSUME PutFails(w) PROVE Goal
  <2>1. /\ at'[w] = "note" /\ at[w] = "put" /\ fetched'[w] = fetched[w]
        /\ task'[w] = task[w] /\ stored'[w] = stored[w] /\ late'[w] = late[w]
        /\ spoiled'[w] = spoiled[w]
    BY <1>1, <1>14 DEF PutFails, GoTo, locals, RunsTyped
  <2>2. InTime(w)'
    BY <1>1, <2>1, InTimeStands
  <2> QED
    BY <1>2, <2>1, <2>2 DEF Goal, Bodies, Whole, kind
<1>15. ASSUME NEW u \in Units, RecordUnit(w, u) PROVE Goal
  <2>1. /\ at'[w] = "next" /\ at[w] \in {"record", "note"} /\ fetched'[w] = fetched[w] \ {u}
        /\ task'[w] = task[w] /\ stored'[w] = stored[w] /\ late'[w] = late[w]
        /\ spoiled'[w] = (spoiled[w] \/ at[w] = "note") /\ Current(w, u)
    BY <1>1, <1>15 DEF RecordUnit, GoTo, RunsTyped
  <2>2. InTime(w)'
    BY <1>1, <2>1, InTimeStands
  <2>3. ~ spoiled'[w] => at[w] = "record" /\ ~ spoiled[w]
    BY <2>1
  <2>4. at[w] = "record" => u \in held
    BY <1>2, <2>1 DEF Bodies
  <2> QED
    BY <1>2, <2>1, <2>2, <2>3, <2>4 DEF Goal, Bodies, Whole, kind
<1>16. ASSUME LoopDone(w) PROVE Goal
  <2>1. /\ at'[w] = IF spoiled[w] THEN "unsaved-transient" ELSE "finish"
        /\ at[w] = "next" /\ fetched[w] = {}
        /\ task'[w] = task[w] /\ stored'[w] = stored[w] /\ late'[w] = late[w]
    BY <1>1, <1>16 DEF LoopDone, GoTo, locals, RunsTyped
  <2>2. InTime(w)'
    BY <1>1, <2>1, InTimeStands
  <2> QED
    BY <1>2, <2>1, <2>2 DEF Goal, Bodies, Whole, kind
<1> QED
  BY <1>4, <1>5, <1>6, <1>7, <1>8, <1>9, <1>10, <1>11, <1>12, <1>13, <1>14, <1>15,
     <1>16 DEF Run, Goal

LEMMA RunOnRows ==
  ASSUME NEW w \in Workers, Run(w)
  PROVE  /\ units' = units \/ \E u \in Units : RecordUnit(w, u)
         /\ row' = row \/ row' \in {"failed", "running"} \/ Finish(w)
<1>1. units' = units \/ \E u \in Units : RecordUnit(w, u)
  BY DEF Run, Take, FindImport, Refuse, StartRunning, OriginGone, RunFails, Preview,
         ListUnits, SeeCancel,
         RereadDone, FetchAll, FetchFails, Reread, Skip, Begin, PutUnit, PutFails,
         StoreFails, LoopDone,
         FailImport, Finish, Settle, Kill, import
<1>2. row' = row \/ row' \in {"failed", "running"} \/ Finish(w)
  BY DEF Run, Take, FindImport, Refuse, StartRunning, OriginGone, RunFails, Preview,
         ListUnits, SeeCancel,
         RereadDone, FetchAll, FetchFails, Reread, Skip, Begin, PutUnit, RecordUnit, PutFails,
         StoreFails, LoopDone, FailImport, Settle, Kill, RowTo, import
<1> QED
  BY <1>1, <1>2

LEMMA ImportKeepsInv == ImportInv /\ [Next]_vars => ImportInv'
<1> SUFFICES ASSUME ImportInv, [Next]_vars PROVE ImportInv'
  OBVIOUS
<1>1. TypeOK /\ TypeOK' /\ held' \subseteq Units
  BY ImportTypeStep DEF ImportInv, TypeOK
<1>2. StoredRowsHaveBodies /\ BulkImportHoldsEveryBody
  BY DEF ImportInv
<1>3. ASSUME UNCHANGED kind, held \subseteq held', units' = units, row' = row \/ row' # "completed"
      PROVE  StoredRowsHaveBodies' /\ BulkImportHoldsEveryBody'
  BY <1>1, <1>2, <1>3 DEF StoredRowsHaveBodies, BulkImportHoldsEveryBody, kind
<1>4. ASSUME NEW t \in Tabs, Request(t) PROVE ImportInv'
  <2>1. UNCHANGED <<kind, units, held, runs>> /\ (row' = row \/ row' # "completed")
    BY <1>1, <1>4, RequestStep
  <2>2. \A w \in Workers : Bodies(w)' /\ Whole(w)' /\ InTime(w)'
    BY <2>1, StandsAside DEF runs
  <2> QED
    BY <1>1, <1>3, <2>1, <2>2 DEF ImportInv
<1>5. ASSUME NEW w \in Workers, Run(w) PROVE ImportInv'
  <2>1. /\ UNCHANGED kind /\ held \subseteq held'
        /\ \A v \in Workers \ {w} : Unmoved(v)
    BY <1>1, <1>5, RunAlone
  <2>2. \A v \in Workers \ {w} : Bodies(v)' /\ Whole(v)' /\ InTime(v)'
    BY <2>1, StandsAside DEF Unmoved
  <2>3. Bodies(w)' /\ Whole(w)' /\ InTime(w)'
    BY <1>5, RunKeepsOwn
  <2>4. Bodies(w) /\ Whole(w)
    BY DEF ImportInv
  <2>5. StoredRowsHaveBodies'
    <3>1. ASSUME NEW u \in Units, RecordUnit(w, u) PROVE StoredRowsHaveBodies'
      <4>1. /\ units' = [units EXCEPT ![u] = UnitState(w)]
            /\ at[w] = "record" => u \in held
        BY <2>4, <3>1 DEF RecordUnit, Bodies
      <4>2. UnitState(w) = "stored" => at[w] = "record"
        BY DEF UnitState
      <4> QED
        BY <1>1, <1>2, <2>1, <4>1, <4>2 DEF StoredRowsHaveBodies, TypeOK
    <3>2. ASSUME units' = units PROVE StoredRowsHaveBodies'
      BY <1>2, <2>1, <3>2 DEF StoredRowsHaveBodies
    <3> QED
      BY <1>5, <3>1, <3>2, RunOnRows
  <2>6. BulkImportHoldsEveryBody'
    <3>1. ASSUME Finish(w) PROVE BulkImportHoldsEveryBody'
      BY <1>1, <2>1, <2>4, <3>1 DEF Finish, Whole, BulkImportHoldsEveryBody, kind
    <3>2. ASSUME row' = row \/ row' \in {"failed", "running"} PROVE BulkImportHoldsEveryBody'
      BY <1>1, <1>2, <2>1, <3>2 DEF BulkImportHoldsEveryBody, kind
    <3> QED
      BY <1>5, <3>1, <3>2, RunOnRows
  <2> QED
    BY <1>1, <2>2, <2>3, <2>5, <2>6 DEF ImportInv
<1>6. ASSUME NEW j \in Jobs, LeaseEnds(j) PROVE ImportInv'
  <2>1. UNCHANGED <<kind, import, runs>>
    BY <1>6 DEF LeaseEnds
  <2>2. \A w \in Workers : Bodies(w)' /\ Whole(w)' /\ InTime(w)'
    BY <2>1, StandsAside DEF runs, import
  <2> QED
    BY <1>1, <1>3, <2>1, <2>2 DEF ImportInv, import
<1>7. ASSUME NEW j \in Jobs, Reopen(j) PROVE ImportInv'
  <2>1. UNCHANGED <<kind, import, at, task, stored, wanted, fetched, spoiled>>
        /\ \A w \in Workers : late'[w] = late[w] \/ late'[w] = 0
    BY <1>7 DEF Reopen
  <2>2. \A w \in Workers : Bodies(w)' /\ Whole(w)' /\ InTime(w)'
    BY <2>1, StandsAside DEF import
  <2> QED
    BY <1>1, <1>3, <2>1, <2>2 DEF ImportInv, import
<1>8. ASSUME NEW S \in SUBSET Jobs, Purge(S) PROVE ImportInv'
  <2>1. UNCHANGED <<kind, held, runs>>
    BY <1>8 DEF Purge
  <2>2. \A w \in Workers : Bodies(w)' /\ Whole(w)' /\ InTime(w)'
    BY <2>1, StandsAside DEF runs
  <2>3. \/ row' = row /\ units' = units
        \/ row' = "none" /\ units' = [u \in Units |-> "none"]
    BY <1>8 DEF Purge
  <2>4. StoredRowsHaveBodies'
    BY <1>2, <2>1, <2>3 DEF StoredRowsHaveBodies
  <2>5. BulkImportHoldsEveryBody'
    BY <1>2, <2>1, <2>3 DEF BulkImportHoldsEveryBody, kind
  <2> QED
    BY <1>1, <2>2, <2>4, <2>5 DEF ImportInv
<1>9. CASE UNCHANGED vars
  <2>1. UNCHANGED <<kind, import, runs>>
    BY <1>9 DEF vars
  <2>2. \A w \in Workers : Bodies(w)' /\ Whole(w)' /\ InTime(w)'
    BY <2>1, StandsAside DEF runs, import
  <2> QED
    BY <1>1, <1>3, <2>1, <2>2 DEF ImportInv, import
<1> QED
  BY <1>4, <1>5, <1>6, <1>7, <1>8, <1>9 DEF Next

LEMMA ImportInitially == Init => ImportInv
<1> SUFFICES ASSUME Init PROVE ImportInv
  OBVIOUS
<1>1. StoredRowsHaveBodies /\ BulkImportHoldsEveryBody
  BY DEF Init, StoredRowsHaveBodies, BulkImportHoldsEveryBody
<1>2. \A w \in Workers : Bodies(w) /\ Whole(w) /\ InTime(w)
  BY DEF Init, Bodies, Whole, InTime
<1> QED
  BY <1>1, <1>2, ImportTypeInit DEF ImportInv

(* The import's row, its units' rows, the reader's tabs and the worker's locals *)
(* keep their ranges through every statement of run and store_units.          *)
THEOREM ImportsTyped == Spec => []TypeOK
  BY ImportTypeInit, ImportTypeStep, PTL DEF Spec

(* A unit's row says "stored" only when the body is referenced, though a worker *)
(* dies at any statement and another takes the run over (store_units).        *)
THEOREM StoredIsHeld == Spec => []StoredRowsHaveBodies
<1>1. ImportInv => StoredRowsHaveBodies
  BY DEF ImportInv
<1> QED
  BY ImportInitially, ImportKeepsInv, <1>1, PTL DEF Spec

(* Where the source serves whole works, an import that says "completed" has   *)
(* every body, whatever runs, retries, crashes and cancellations came before  *)
(* (run, store_units).                                                        *)
THEOREM CompletedIsWhole == Spec => []BulkImportHoldsEveryBody
<1>1. ImportInv => BulkImportHoldsEveryBody
  BY DEF ImportInv
<1> QED
  BY ImportInitially, ImportKeepsInv, <1>1, PTL DEF Spec

(* Once its queue row is cancelled, a run stores at most the unit it was at:  *)
(* run asks the queue between two units (store_units).                         *)
THEOREM CancelIsHeeded == Spec => []CancelStopsWithinAUnit
<1>1. ImportInv => CancelStopsWithinAUnit
  BY DEF ImportInv, InTime, CancelStopsWithinAUnit
<1> QED
  BY ImportInitially, ImportKeepsInv, <1>1, PTL DEF Spec

-----------------------------------------------------------------------------
(* The queue underneath *)

(* An import that is there was linked to a queue row. *)
LinkInv ==
  /\ row # "none" => linked \in Jobs
  /\ \A t \in Tabs : tab[t] = "insert" => posted[t] \in Jobs

LEMMA LinkStep == TypeOK /\ LinkInv /\ [Next]_vars => LinkInv'
<1> SUFFICES ASSUME TypeOK, LinkInv, [Next]_vars PROVE LinkInv'
  OBVIOUS
<1>1. TabsTyped
  BY TypeParts
<1>2. ASSUME UNCHANGED tabs, linked' = linked, row = "none" => row' = "none" PROVE LinkInv'
  BY <1>2 DEF LinkInv, tabs
<1>3. ASSUME NEW t \in Tabs, Request(t) PROVE LinkInv'
  <2>1. ASSUME NEW j \in Jobs, PostStart(t, j) \/ PostRetry(t, j) PROVE LinkInv'
    BY <1>1, <2>1 DEF PostStart, PostRetry, LinkInv, TabsTyped, import
  <2>2. CASE InsertImport(t)
    BY <1>1, <2>2 DEF InsertImport, LinkInv, TabsTyped
  <2>3. CASE CancelRow(t) \/ MarkQueued(t)
    BY <1>1, <2>3 DEF CancelRow, MarkQueued, RowTo, LinkInv, TabsTyped
  <2>4. CASE AskCancel(t) \/ AskRetry(t) \/ RequestDies(t) \/ CancelJob(t)
    BY <1>1, <2>4 DEF AskCancel, AskRetry, RequestDies, CancelJob, LinkInv, TabsTyped, import
  <2> QED
    BY <1>3, <2>1, <2>2, <2>3, <2>4 DEF Request
<1>4. ASSUME NEW w \in Workers, Run(w) PROVE LinkInv'
  <2>1. linked' = linked /\ (row = "none" => row' = "none")
    BY <1>4 DEF Run, Take, FindImport, Refuse, StartRunning, OriginGone, RunFails, Preview,
                ListUnits,
         SeeCancel, RereadDone, FetchAll, FetchFails, Reread, Skip, Begin, PutUnit,
         RecordUnit, PutFails,
         StoreFails, LoopDone, FailImport, Finish, Settle, Kill, RowTo, import
  <2> QED
    BY <1>2, <1>4, <2>1, RunTyped
<1>5. ASSUME NEW j \in Jobs, LeaseEnds(j) \/ Reopen(j) PROVE LinkInv'
  BY <1>2, <1>5 DEF LeaseEnds, Reopen, import
<1>6. ASSUME NEW S, Purge(S) PROVE LinkInv'
  BY <1>2, <1>6 DEF Purge
<1>7. CASE UNCHANGED vars
  BY <1>2, <1>7 DEF vars, import
<1> QED
  BY <1>3, <1>4, <1>5, <1>6, <1>7 DEF Next

(* Whatever an import, its reader and its workers do, the queue rows live the *)
(* life that JobQueue implements: a handler assumes of the queue no more than *)
(* the queue was proved to give.                                              *)
THEOREM ImportsKeepJobLife == Spec => Queue!Spec
<1>1. Init => Queue!Init /\ ImportInv /\ LinkInv
  <2>1. Init => LinkInv
    BY DEF Init, LinkInv
  <2> QED
    BY <2>1, ImportInitially DEF Init
<1>2. ImportInv /\ LinkInv /\ [Next]_vars => [Queue!Next]_(Queue!vars)
  <2> SUFFICES ASSUME ImportInv, LinkInv, [Next]_vars PROVE [Queue!Next]_(Queue!vars)
    OBVIOUS
  <2>1. ASSUME UNCHANGED queue PROVE [Queue!Next]_(Queue!vars)
    BY <2>1 DEF queue, Queue!vars
  <2>2. ASSUME NEW t \in Tabs, Request(t) PROVE [Queue!Next]_(Queue!vars)
    <3>1. \/ UNCHANGED queue
          \/ \E j \in Jobs : Queue!Post(j)
          \/ row # "none" /\ Queue!Withdraw(linked)
      BY <2>2 DEF Request, PostStart, PostRetry, InsertImport, AskCancel, CancelRow,
                  CancelJob, AskRetry,
                  MarkQueued, RequestDies
    <3> QED
      BY <2>1, <3>1 DEF LinkInv, Queue!Next
  <2>3. ASSUME NEW w \in Workers, Run(w) PROVE [Queue!Next]_(Queue!vars)
    <3>1. ASSUME NEW j \in Jobs, Take(w, j) PROVE [Queue!Next]_(Queue!vars)
      BY <3>1 DEF Take, Queue!Next
    <3>2. ASSUME Settle(w) PROVE [Queue!Next]_(Queue!vars)
      <4>1. task[w] \in Jobs
        BY <3>2 DEF Settle, Verdicts, ImportInv, InTime
      <4>2. \/ UNCHANGED queue
            \/ Queue!Settle(task[w])
            \/ Queue!GiveBack({task[w]})
        BY <3>2 DEF Settle
      <4>3. {task[w]} \in SUBSET Jobs
        BY <4>1
      <4> QED
        BY <2>1, <4>1, <4>2, <4>3 DEF Queue!Next
    <3> QED
      BY <2>1, <2>3, <3>1, <3>2, RunOnQueue
  <2>4. ASSUME NEW j \in Jobs, LeaseEnds(j) PROVE [Queue!Next]_(Queue!vars)
    <3>1. {j} \in SUBSET Jobs
      OBVIOUS
    <3> QED
      BY <2>4, <3>1 DEF LeaseEnds, Queue!Next
  <2>5. ASSUME NEW j \in Jobs, Reopen(j) PROVE [Queue!Next]_(Queue!vars)
    BY <2>5 DEF Reopen, Queue!Next
  <2>6. ASSUME NEW S \in SUBSET Jobs, Purge(S) PROVE [Queue!Next]_(Queue!vars)
    BY <2>6 DEF Purge, Queue!Next
  <2>7. CASE UNCHANGED vars
    BY <2>1, <2>7 DEF vars
  <2> QED
    BY <2>2, <2>3, <2>4, <2>5, <2>6, <2>7 DEF Next
<1>3. ImportInv => TypeOK
  BY DEF ImportInv
<1> QED
  BY <1>1, <1>2, <1>3, ImportKeepsInv, LinkStep, PTL DEF Spec, Queue!Spec

-----------------------------------------------------------------------------
(* Exports: the file a row names, its link, and the row's life in the queue. *)

ExporterTypes ==
  [Exporters -> [at : {"idle", "find", "start", "produce", "put", "look", "write", "insert",
                       "reference", "tidy", "record", "ok", "transient", "fatal"},
                 sum : Sums \cup {NoSum}]]
RowTypes == [state : {"none", "queued", "running", "ready", "failed"}, sum : Sums \cup {NoSum}]
RemoverRecord ==
  [at : {"idle", "row", "reference", "blob", "delete", "unlink"}, sum : Sums \cup {NoSum}]
RemoverTypes == [Removers -> RemoverRecord]

(* A reference has its blob's row, and the row its file, unless a deletion     *)
(* that was under way when the bytes were put again has unlinked it: the put   *)
(* writes the file before the row.                                           *)
FilesInv ==
  /\ asking \in {"not yet", "queued", "created", "over"} /\ bulk \in BOOLEAN
  /\ export \in RowTypes /\ exporter \in ExporterTypes /\ remover \in RemoverTypes
  /\ blobs \subseteq Sums /\ disk \subseteq Sums /\ unkept \subseteq Sums /\ robbed \subseteq Sums
  /\ kept \subseteq blobs
  /\ blobs \subseteq disk \cup robbed
  /\ \A w \in Exporters :
       /\ exporter[w].at \in {"put", "look", "write", "insert"} => exporter[w].sum \in Sums
       /\ exporter[w].at = "insert" => exporter[w].sum \in disk \cup robbed

(* On SQLite no reference comes between a DELETE's check and its write.  So    *)
(* behind a file the row names is a reference that was written before it and  *)
(* has not gone unless a remover dropped it.                                 *)
FileStands(sum) == sum \in kept \cup unkept
KeptInv ==
  /\ \A r \in Removers : remover[r].at = "delete" => remover[r].sum \notin kept
  /\ \A w \in Exporters : exporter[w].at = "record" => FileStands(exporter[w].sum)
  /\ export.sum # NoSum => FileStands(export.sum)

(* Who has come with the token, and whether another still may. *)
TokenInv ==
  /\ token.there /\ ~ token.used => \A d \in Downloads : got[d] = "nothing"
  /\ \A d, e \in Downloads : got[d] # "nothing" /\ got[e] # "nothing" => d = e

ExportInv == ExportTypeOK /\ FilesInv /\ TokenInv /\ (~ Postgres => KeptInv)

LEMMA ExportInvInit == ExportInit => ExportInv
<1> SUFFICES ASSUME ExportInit PROVE ExportInv
  OBVIOUS
<1>1. FilesInv /\ KeptInv
  BY DEF ExportInit, FilesInv, KeptInv, ExporterTypes, RowTypes, RemoverTypes, RemoverRecord,
         NoExport, NoWork
<1>2. token \in [there : BOOLEAN, used : BOOLEAN, over : BOOLEAN]
      /\ got \in [Downloads -> {"nothing", "opened", "file", "missing"}] /\ TokenInv
  BY DEF ExportInit, TokenInv, NoToken
<1> QED
  BY <1>1, <1>2 DEF ExportInv, FilesInv, ExportTypeOK, ExporterTypes, RowTypes, RemoverTypes,
                    RemoverRecord

(* The links and the files are moved by disjoint parts of the program. *)
LEMMA LinksStep ==
  ASSUME ExportTypeOK, ExportNext
  PROVE  /\ token' \in [there : BOOLEAN, used : BOOLEAN, over : BOOLEAN]
         /\ got' \in [Downloads -> {"nothing", "opened", "file", "missing"}]
         /\ TokenInv => TokenInv'
<1> USE DEF ExportTypeOK, TokenInv
<1> DEFINE Goal ==
      /\ token' \in [there : BOOLEAN, used : BOOLEAN, over : BOOLEAN]
      /\ got' \in [Downloads -> {"nothing", "opened", "file", "missing"}]
      /\ TokenInv => TokenInv'
<1>1. ASSUME token' = NoToken, got' = got PROVE Goal
  BY <1>1 DEF NoToken
<1>2. ASSUME UNCHANGED links PROVE Goal
  BY <1>2 DEF links
<1>3. CASE Mint
  BY <1>3 DEF Mint, NoToken
<1>4. CASE TokenExpires
  BY <1>4 DEF TokenExpires
<1>5. ASSUME NEW d \in Downloads, Redeem(d) PROVE Goal
  BY <1>5 DEF Redeem, Spendable
<1>6. ASSUME NEW d \in Downloads, Serve(d) PROVE Goal
  BY <1>6 DEF Serve
<1>7. CASE PurgeQueueRow
  BY <1>1, <1>7 DEF PurgeQueueRow
<1>8. ASSUME NEW r \in Removers, Removing(r) PROVE Goal
  BY <1>1, <1>2, <1>8
  DEF Removing, StartRemoval, RemoveRow, DropRow, DropReference, CheckBlob, DeleteBlob, Unlink,
      RemovalBreaks
<1>9. ASSUME NEW w \in Exporters, Exporting(w) PROVE Goal
  BY <1>2, <1>9
  DEF Exporting, TakeExport, FindExport, SetRunning, FailExport, StatFile, LookAtDisk, WriteFile,
      InsertBlob, Produce, KeepFile, KeepFails, Tidied, RecordOutput, RunBreaks, SettleExport,
      KillExporter
<1>10. ASSUME NEW sum \in Sums, StartCollection(sum) PROVE Goal
  BY <1>2, <1>10 DEF StartCollection
<1>11. CASE QueueExport \/ CreateExport \/ AskingFails \/ QueueMoves
  BY <1>2, <1>11 DEF QueueExport, CreateExport, AskingFails, QueueMoves
<1> QED
  BY <1>3, <1>4, <1>5, <1>6, <1>7, <1>8, <1>9, <1>10, <1>11 DEF ExportNext

LEMMA StepsOn ==
  ASSUME exporter \in ExporterTypes, NEW w \in Exporters,
         NEW a \in {"idle", "find", "start", "produce", "put", "look", "write", "insert",
                     "reference", "tidy", "record", "ok", "transient", "fatal"},
         Step(w, a)
  PROVE  /\ exporter' \in ExporterTypes
         /\ exporter'[w].at = a /\ exporter'[w].sum = exporter[w].sum
         /\ \A v \in Exporters \ {w} : exporter'[v] = exporter[v]
  BY DEF ExporterTypes, Step

LEMMA RunKeepsFiles ==
  ASSUME FilesInv, NEW w \in Exporters, Exporting(w)
  PROVE  FilesInv'
<1> USE DEF FilesInv, files
<1>1. ASSUME NEW a \in {"idle", "find", "start", "produce", "reference", "tidy", "record", "ok",
                         "transient", "fatal"},
             Step(w, a), UNCHANGED <<bulk, asking, files>>, remover' \in RemoverTypes,
             export' \in RowTypes
      PROVE  FilesInv'
  BY <1>1, StepsOn
<1>2. CASE TakeExport(w) \/ RunBreaks(w) \/ Tidied(w)
  BY <1>1, <1>2 DEF TakeExport, RunBreaks, Tidied
<1>3. CASE FindExport(w)
  <2>1. \E a \in {"fatal", "transient", "ok", "start"} : Step(w, a)
    BY <1>3 DEF FindExport
  <2> QED
    BY <1>1, <1>3, <2>1 DEF FindExport
<1>4. CASE SetRunning(w)
  <2>1. export' \in RowTypes
    BY <1>4 DEF SetRunning, Update, RowTypes
  <2> QED
    BY <1>1, <1>4, <2>1 DEF SetRunning
<1>5. CASE FailExport(w)
  <2>1. export' \in RowTypes
    BY <1>5 DEF FailExport, Update, RowTypes
  <2> QED
    BY <1>1, <1>5, <2>1 DEF FailExport
<1>6. CASE StatFile(w)
  <2>1. exporter[w].sum \in Sums /\ (Step(w, "look") \/ Step(w, "write"))
    BY <1>6 DEF StatFile
  <2>2. UNCHANGED <<bulk, asking, export, files, remover>>
    BY <1>6 DEF StatFile
  <2> QED
    BY <2>1, <2>2, StepsOn
<1>7. CASE LookAtDisk(w)
  <2>1. exporter[w].sum \in Sums /\ (Step(w, "reference") \/ Step(w, "write"))
    BY <1>7 DEF LookAtDisk
  <2>2. UNCHANGED <<bulk, asking, export, files, remover>>
    BY <1>7 DEF LookAtDisk
  <2> QED
    BY <2>1, <2>2, StepsOn
<1>8. CASE WriteFile(w)
  <2>1. exporter[w].sum \in Sums /\ Step(w, "insert")
    BY <1>8 DEF WriteFile
  <2>2. /\ UNCHANGED <<bulk, asking, export, blobs, kept, unkept, remover>>
        /\ disk' = disk \cup {exporter[w].sum} /\ robbed' = robbed \ {exporter[w].sum}
    BY <1>8 DEF WriteFile
  <2> QED
    BY <2>1, <2>2, StepsOn
<1>9. CASE InsertBlob(w)
  <2>1. /\ exporter[w].sum \in Sums /\ exporter[w].sum \in disk \cup robbed
        /\ Step(w, "reference")
    BY <1>9 DEF InsertBlob
  <2>2. /\ UNCHANGED <<bulk, asking, export, disk, kept, unkept, robbed, remover>>
        /\ blobs' = blobs \cup {exporter[w].sum}
    BY <1>9 DEF InsertBlob
  <2> QED
    BY <2>1, <2>2, StepsOn
<1>10. ASSUME NEW sum \in Sums, Produce(w, sum) PROVE FilesInv'
  BY <1>10 DEF Produce, ExporterTypes
<1>11. CASE KeepFile(w)
  <2>1. exporter[w].sum \in blobs /\ Step(w, "record") /\ kept' = kept \cup {exporter[w].sum}
    BY <1>11 DEF KeepFile
  <2>2. UNCHANGED <<bulk, asking, export, blobs, disk, unkept, robbed, remover>>
    BY <1>11 DEF KeepFile
  <2> QED
    BY <2>1, <2>2, StepsOn
<1>12. CASE KeepFails(w)
  <2>1. remover' \in RemoverTypes
    BY <1>12 DEF KeepFails, RemoverTypes, RemoverRecord, ExporterTypes
  <2> QED
    BY <1>1, <1>12, <2>1 DEF KeepFails
<1>13. CASE RecordOutput(w)
  <2>1. export' \in RowTypes
    BY <1>13 DEF RecordOutput, Update, RowTypes, ExporterTypes
  <2> QED
    BY <1>1, <1>13, <2>1 DEF RecordOutput
<1>14. CASE SettleExport(w) \/ KillExporter(w)
  <2>1. exporter' = [exporter EXCEPT ![w] = NoWork] /\ UNCHANGED <<bulk, asking, export, files>>
    BY <1>14 DEF SettleExport, KillExporter
  <2>2. remover' \in RemoverTypes
    <3>1. remover' = remover \/ remover' = [remover EXCEPT ![w] = NoWork]
      BY <1>14 DEF SettleExport, KillExporter
    <3>2. NoWork \in RemoverRecord
      BY DEF NoWork, RemoverRecord
    <3> QED
      BY <3>1, <3>2 DEF RemoverTypes
  <2> QED
    BY <2>1, <2>2 DEF NoWork, ExporterTypes
<1> QED
  BY <1>2, <1>3, <1>4, <1>5, <1>6, <1>7, <1>8, <1>9, <1>10, <1>11, <1>12, <1>13, <1>14
  DEF Exporting

LEMMA OnwardIsTyped ==
  ASSUME remover \in RemoverTypes, NEW r \in Removers
  PROVE  Onward(r) \in RemoverRecord /\ Onward(r).at # "delete"
<1>1. After(r) \in {"idle", "row", "reference", "blob"}
  BY DEF After
<1> QED
  BY <1>1 DEF Onward, NoWork, RemoverTypes, RemoverRecord

LEMMA RemovalKeepsFiles ==
  ASSUME FilesInv, NEW r \in Removers, Removing(r)
  PROVE  FilesInv'
<1> USE DEF FilesInv, files
<1>1. ASSUME GoesOn(r) PROVE remover' \in RemoverTypes
  <2>1. Onward(r) \in RemoverRecord
    BY OnwardIsTyped
  <2> QED
    BY <1>1, <2>1 DEF GoesOn, RemoverTypes
<1>2. CASE StartRemoval(r) \/ RemovalBreaks(r)
  <2>1. remover' \in RemoverTypes
    <3>1. CASE StartRemoval(r)
      BY <3>1 DEF StartRemoval, RemoverTypes, RemoverRecord, RowTypes
    <3>2. CASE RemovalBreaks(r)
      BY <3>2 DEF RemovalBreaks, NoWork, RemoverTypes, RemoverRecord
    <3> QED
      BY <1>2, <3>1, <3>2
  <2> QED
    BY <1>2, <2>1 DEF StartRemoval, RemovalBreaks
<1>3. CASE RemoveRow(r)
  <2>1. export' \in RowTypes
    BY <1>3 DEF RemoveRow, DropRow, NoExport, RowTypes
  <2> QED
    BY <1>1, <1>3, <2>1 DEF RemoveRow
<1>4. CASE DropReference(r)
  <2>1. /\ UNCHANGED <<bulk, asking, export, blobs, disk, robbed, exporter>>
        /\ kept' = kept \ {remover[r].sum}
        /\ unkept' = unkept \cup ({remover[r].sum} \ {NoSum})
    BY <1>4 DEF DropReference
  <2>2. remover[r].sum \in Sums \cup {NoSum} /\ remover' \in RemoverTypes
    BY <1>1, <1>4 DEF DropReference, RemoverTypes, RemoverRecord
  <2> QED
    BY <2>1, <2>2
<1>5. CASE CheckBlob(r)
  <2>1. remover' \in RemoverTypes
    BY <1>1, <1>5 DEF CheckBlob, RemoverTypes, RemoverRecord
  <2> QED
    BY <1>5, <2>1 DEF CheckBlob
<1>6. CASE DeleteBlob(r)
  <2>1. remover' \in RemoverTypes
    <3>1. \A x \in Removers : Onward(x) \in RemoverRecord /\ remover[x] \in RemoverRecord
      BY OnwardIsTyped DEF RemoverTypes
    <3>2. [at |-> "unlink", sum |-> remover[r].sum] \in RemoverRecord
      BY DEF RemoverTypes, RemoverRecord
    <3> QED
      BY <1>6, <3>1, <3>2 DEF DeleteBlob, RemoverTypes
  <2>2. /\ UNCHANGED <<bulk, asking, export, disk, unkept, robbed, exporter>>
        /\ blobs' = blobs \ {remover[r].sum} /\ kept' = kept \ {remover[r].sum}
    BY <1>6 DEF DeleteBlob
  <2> QED
    BY <2>1, <2>2
<1>7. CASE Unlink(r)
  <2> DEFINE sum == remover[r].sum
  <2>1. /\ UNCHANGED <<bulk, asking, export, blobs, kept, unkept, exporter>>
        /\ disk' = disk \ {sum} /\ robbed \subseteq robbed' /\ robbed' \subseteq robbed \cup {sum}
        /\ sum \in blobs => sum \in robbed'
    BY <1>7 DEF Unlink
  <2>2. \A w \in Exporters : exporter[w].at = "insert" /\ exporter[w].sum = sum => sum \in robbed'
    BY <1>7 DEF Unlink
  <2>3. robbed' \subseteq Sums
    <3>1. robbed' # robbed => sum \in Sums
      BY <1>7 DEF Unlink
    <3> QED
      BY <2>1, <3>1
  <2>4. remover' \in RemoverTypes
    BY <1>1, <1>7 DEF Unlink
  <2> QED
    BY <2>1, <2>2, <2>3, <2>4
<1> QED
  BY <1>2, <1>3, <1>4, <1>5, <1>6, <1>7 DEF Removing

LEMMA FilesStep == ASSUME FilesInv, ExportNext PROVE FilesInv'
<1>1. CASE QueueExport \/ CreateExport \/ AskingFails \/ QueueMoves
  BY <1>1 DEF QueueExport, CreateExport, AskingFails, QueueMoves, FilesInv,
              NoExport, RowTypes, files
<1>2. CASE PurgeQueueRow
  BY <1>2 DEF PurgeQueueRow, FilesInv, NoExport, RowTypes, files
<1>3. ASSUME NEW sum \in Sums, StartCollection(sum) PROVE FilesInv'
  <2>1. remover' \in RemoverTypes
    BY <1>3 DEF StartCollection, FilesInv, RemoverTypes, RemoverRecord
  <2> QED
    BY <1>3, <2>1 DEF StartCollection, FilesInv, files
<1>4. CASE Mint \/ TokenExpires \/ \E d \in Downloads : Redeem(d) \/ Serve(d)
  BY <1>4 DEF Mint, TokenExpires, Redeem, Serve, FilesInv, files
<1> QED
  BY <1>1, <1>2, <1>3, <1>4, RunKeepsFiles, RemovalKeepsFiles DEF ExportNext

(* On SQLite: a reference is only written while no DELETE is between its check  *)
(* and its write, and so the write takes none away.                          *)
LEMMA KeptStep ==
  ASSUME FilesInv, KeptInv, ~ Postgres, ExportNext
  PROVE  KeptInv'
<1> USE DEF KeptInv, FileStands
<1>1. ASSUME UNCHANGED <<kept, unkept, remover>>,
             export'.sum \in {export.sum, NoSum},
             \A w \in Exporters : exporter'[w].at = "record" => exporter'[w] = exporter[w]
      PROVE  KeptInv'
  BY <1>1
<1>2. ASSUME UNCHANGED <<kept, unkept, export, exporter>>,
             \A x \in Removers : remover'[x].at = "delete" => remover'[x] = remover[x]
      PROVE  KeptInv'
  BY <1>2
<1>3. ASSUME NEW w \in Exporters, Exporting(w) PROVE KeptInv'
  <2>1. CASE KeepFile(w)
    <3>1. \A r \in Removers : remover[r].at # "delete"
      BY <2>1 DEF KeepFile, Unlocked
    <3>2. /\ Step(w, "record") /\ kept' = kept \cup {exporter[w].sum}
          /\ UNCHANGED <<export, unkept, remover>>
      BY <2>1 DEF KeepFile
    <3> QED
      BY <3>1, <3>2, StepsOn DEF FilesInv
  <2>2. CASE RecordOutput(w)
    <3>1. /\ Step(w, "ok") /\ UNCHANGED <<kept, unkept, remover>>
          /\ FileStands(exporter[w].sum)
          /\ export'.sum = export.sum \/ export'.sum = exporter[w].sum
      BY <2>2 DEF RecordOutput, Update, files
    <3> QED
      BY <3>1, StepsOn DEF FilesInv
  <2>3. CASE KeepFails(w)
    <3>1. /\ Step(w, "tidy") /\ UNCHANGED <<export, kept, unkept>>
          /\ \A x \in Removers : remover'[x].at = "delete" => remover'[x] = remover[x]
      BY <2>3 DEF KeepFails, files, FilesInv, RemoverTypes
    <3> QED
      BY <3>1, StepsOn DEF FilesInv
  <2>4. CASE KillExporter(w)
    <3>1. /\ UNCHANGED <<export, kept, unkept>>
          /\ \A x \in Removers : remover'[x].at = "delete" => remover'[x] = remover[x]
          /\ \A v \in Exporters : exporter'[v].at = "record" => exporter'[v] = exporter[v]
      BY <2>4 DEF KillExporter, files, FilesInv, RemoverTypes, ExporterTypes, NoWork
    <3> QED
      BY <3>1
  <2>5. ASSUME NEW a \in {"idle", "find", "start", "produce", "put", "look", "write", "insert",
                           "reference", "tidy", "ok", "transient", "fatal"},
               Step(w, a), export'.sum = export.sum, UNCHANGED <<kept, unkept, remover>>
        PROVE  KeptInv'
    <3>1. \A v \in Exporters : exporter'[v].at = "record" => exporter'[v] = exporter[v]
      BY <2>5, StepsOn DEF FilesInv
    <3> QED
      BY <1>1, <2>5, <3>1
  <2>6. CASE TakeExport(w) \/ FindExport(w) \/ SetRunning(w) \/ FailExport(w)
    <3>1. \E a \in {"find", "fatal", "transient", "ok", "start", "produce"} : Step(w, a)
      BY <2>6 DEF TakeExport, FindExport, SetRunning, FailExport
    <3>2. export'.sum = export.sum /\ UNCHANGED <<kept, unkept, remover>>
      BY <2>6 DEF TakeExport, FindExport, SetRunning, FailExport, Update, FilesInv, RowTypes, files
    <3> QED
      BY <2>5, <3>1, <3>2
  <2>7. CASE StatFile(w) \/ LookAtDisk(w) \/ WriteFile(w) \/ InsertBlob(w) \/ Tidied(w) \/ RunBreaks(w)
    <3>1. \E a \in {"look", "write", "insert", "reference", "transient"} : Step(w, a)
      BY <2>7 DEF StatFile, LookAtDisk, WriteFile, InsertBlob, Tidied, RunBreaks
    <3>2. UNCHANGED <<kept, unkept, remover, export>>
      BY <2>7 DEF StatFile, LookAtDisk, WriteFile, InsertBlob, Tidied, RunBreaks, files
    <3> QED
      BY <2>5, <3>1, <3>2
  <2>8. CASE SettleExport(w) \/ \E sum \in Sums : Produce(w, sum)
    <3>1. UNCHANGED <<kept, unkept, remover, export>>
      BY <2>8 DEF SettleExport, Produce, files
    <3>2. exporter'[w].at # "record" /\ \A v \in Exporters \ {w} : exporter'[v] = exporter[v]
      <4>1. CASE SettleExport(w)
        BY <4>1 DEF SettleExport, FilesInv, ExporterTypes, NoWork
      <4>2. ASSUME NEW sum \in Sums, Produce(w, sum)
            PROVE  exporter'[w].at # "record" /\ \A v \in Exporters \ {w} : exporter'[v] = exporter[v]
        BY <4>2 DEF Produce, FilesInv, ExporterTypes
      <4> QED
        BY <2>8, <4>1, <4>2
    <3> QED
      BY <1>1, <3>1, <3>2
  <2> QED
    BY <1>3, <2>1, <2>2, <2>3, <2>4, <2>6, <2>7, <2>8 DEF Exporting
<1>4. ASSUME NEW r \in Removers, Removing(r) PROVE KeptInv'
  <2>1. ASSUME GoesOn(r)
        PROVE  \A x \in Removers : remover'[x].at = "delete" => remover'[x] = remover[x]
    <3>1. Onward(r).at # "delete"
      BY OnwardIsTyped DEF FilesInv
    <3> QED
      BY <2>1, <3>1 DEF GoesOn, FilesInv, RemoverTypes
  <2>2. CASE StartRemoval(r) \/ RemovalBreaks(r)
    <3>1. remover'[r].at # "delete" /\ \A x \in Removers \ {r} : remover'[x] = remover[x]
      <4>1. CASE StartRemoval(r)
        BY <4>1 DEF StartRemoval, FilesInv, RemoverTypes
      <4>2. CASE RemovalBreaks(r)
        BY <4>2 DEF RemovalBreaks, NoWork, FilesInv, RemoverTypes
      <4> QED
        BY <2>2, <4>1, <4>2
    <3> QED
      BY <1>2, <2>2, <3>1 DEF StartRemoval, RemovalBreaks, files
  <2>3. CASE RemoveRow(r)
    <3>1. export'.sum = NoSum /\ UNCHANGED <<kept, unkept, exporter>>
      BY <2>3 DEF RemoveRow, DropRow, NoExport, files
    <3>2. \A x \in Removers : remover'[x].at = "delete" => remover'[x] = remover[x]
      BY <2>1, <2>3 DEF RemoveRow
    <3> QED
      BY <3>1, <3>2
  <2>4. CASE DropReference(r)
    <3>1. /\ UNCHANGED <<export, exporter>> /\ kept' = kept \ {remover[r].sum}
          /\ unkept' = unkept \cup ({remover[r].sum} \ {NoSum})
      BY <2>4 DEF DropReference
    <3>2. \A x \in Removers : remover'[x].at = "delete" => remover'[x] = remover[x]
      BY <2>1, <2>4 DEF DropReference
    <3>3. NoSum \notin kept
      BY ExportsAssumption DEF FilesInv
    <3> QED
      BY <3>1, <3>2, <3>3
  <2>5. CASE CheckBlob(r)
    <3>1. UNCHANGED <<kept, unkept, export, exporter>>
      BY <2>5 DEF CheckBlob, files
    <3>2. \A x \in Removers : remover'[x].at = "delete" =>
            remover'[x] = remover[x] \/ remover'[x].sum \notin kept
      BY <2>1, <2>5 DEF CheckBlob, Unreferenced, FilesInv, RemoverTypes, RemoverRecord
    <3> QED
      BY <3>1, <3>2
  <2>6. CASE DeleteBlob(r)
    <3>1. UNCHANGED <<unkept, export, exporter>> /\ kept' = kept
      BY <2>6 DEF DeleteBlob
    <3>2. \A x \in Removers : remover'[x].at = "delete" => remover'[x] = remover[x]
      <4>1. \A x \in Removers : Onward(x).at # "delete"
        BY OnwardIsTyped DEF FilesInv
      <4> QED
        BY <2>6, <4>1 DEF DeleteBlob
    <3> QED
      BY <1>2, <3>1, <3>2
  <2>7. CASE Unlink(r)
    <3>1. \A x \in Removers : remover'[x].at = "delete" => remover'[x] = remover[x]
      BY <2>1, <2>7 DEF Unlink
    <3> QED
      BY <1>2, <2>7, <3>1 DEF Unlink
  <2> QED
    BY <1>4, <2>2, <2>3, <2>4, <2>5, <2>6, <2>7 DEF Removing
<1>5. ASSUME NEW sum \in Sums, StartCollection(sum) PROVE KeptInv'
  <2>1. \A x \in Removers : remover'[x].at = "delete" => remover'[x] = remover[x]
    BY <1>5 DEF StartCollection, FilesInv, RemoverTypes
  <2> QED
    BY <1>2, <1>5, <2>1 DEF StartCollection, files
<1>6. CASE QueueExport \/ CreateExport \/ AskingFails \/ QueueMoves \/ PurgeQueueRow
  <2>1. UNCHANGED <<kept, unkept, remover, exporter>>
    BY <1>6 DEF QueueExport, CreateExport, AskingFails, QueueMoves, PurgeQueueRow, files
  <2>2. NoExport.sum = NoSum /\ [NoExport EXCEPT !.state = "queued"].sum = NoSum
    BY DEF NoExport
  <2>3. export' \in {export, NoExport, [NoExport EXCEPT !.state = "queued"]}
    BY <1>6 DEF QueueExport, CreateExport, AskingFails, QueueMoves, PurgeQueueRow
  <2>4. export'.sum \in {export.sum, NoSum}
    BY <2>2, <2>3
  <2> QED
    BY <1>1, <2>1, <2>4
<1>7. CASE Mint \/ TokenExpires \/ \E d \in Downloads : Redeem(d) \/ Serve(d)
  <2>1. UNCHANGED <<kept, unkept, remover, exporter, export>>
    BY <1>7 DEF Mint, TokenExpires, Redeem, Serve, files
  <2> QED
    BY <1>1, <2>1
<1> QED
  BY <1>3, <1>4, <1>5, <1>6, <1>7 DEF ExportNext

LEMMA ExportInvStep == ExportInv /\ [ExportNext]_exportVars => ExportInv'
<1> SUFFICES ASSUME ExportInv, [ExportNext]_exportVars PROVE ExportInv'
  OBVIOUS
<1>3. CASE ExportNext
  <2>1. FilesInv' /\ token' \in [there : BOOLEAN, used : BOOLEAN, over : BOOLEAN]
        /\ got' \in [Downloads -> {"nothing", "opened", "file", "missing"}] /\ TokenInv'
    BY <1>3, FilesStep, LinksStep DEF ExportInv
  <2>2. ExportTypeOK'
    BY <2>1 DEF FilesInv, ExportTypeOK, ExporterTypes, RowTypes, RemoverTypes, RemoverRecord
  <2>3. ~ Postgres => KeptInv'
    BY <1>3, KeptStep DEF ExportInv
  <2> QED
    BY <2>1, <2>2, <2>3 DEF ExportInv
<1>4. CASE UNCHANGED exportVars
  BY <1>4 DEF exportVars, ExportInv, ExportTypeOK, FilesInv, KeptInv, FileStands, TokenInv
<1> QED
  BY <1>3, <1>4

(* The export's row, its files, its link and its workers' locals keep their   *)
(* ranges through every statement of the export and of its removal.           *)
THEOREM ExportsTyped == ExportSpec => []ExportTypeOK
<1>1. ExportInv => ExportTypeOK
  BY DEF ExportInv
<1> QED
  BY <1>1, ExportInvInit, ExportInvStep, PTL DEF ExportSpec

(* On SQLite the file an export names is referenced and has its row, until     *)
(* somebody begins to remove it, though any workers, removers and collectors  *)
(* run at once; its bytes are on the disk, unless a deletion that was under    *)
(* way when they were put again has unlinked them.                           *)
THEOREM NamedFilesAreKept ==
  ASSUME ~ Postgres
  PROVE  ExportSpec => []NamedFileIsKept
<1>1. ExportInv => NamedFileIsKept
  BY DEF ExportInv, FilesInv, KeptInv, FileStands, NamedFileIsKept
<1> QED
  BY <1>1, ExportInvInit, ExportInvStep, PTL DEF ExportSpec

(* A link opens one download, however many present the token at once: the     *)
(* UPDATE that consumes it is one statement.                                  *)
THEOREM LinksOpenOnce == ExportSpec => []LinkOpensOnce
<1>1. ExportInv => LinkOpensOnce
  <2> SUFFICES ASSUME ExportInv PROVE LinkOpensOnce
    OBVIOUS
  <2> DEFINE S == {d \in Downloads : got[d] # "nothing"}
  <2>1. S = {} \/ \E d : S = {d}
    BY DEF ExportInv, TokenInv
  <2> HIDE DEF S
  <2>2. Cardinality(S) \in {0, 1}
    BY <2>1, FS_EmptySet, FS_Singleton
  <2> QED
    BY <2>2 DEF S, LinkOpensOnce
<1> QED
  BY <1>1, ExportInvInit, ExportInvStep, PTL DEF ExportSpec

(* The queue row of an export lives the life that JobQueue implements.        *)
THEOREM ExportImplementsJobLife == ExportSpec => Queued!Spec
<1>1. ExportInit => Queued!Init
  BY DEF ExportInit
<1>2. ExportNext => [Queued!Next]_(Queued!vars)
  <2> USE DEF Queued!vars, queueRow
  <2>1. CASE QueueExport
    BY <2>1 DEF QueueExport, Queued!Next
  <2>2. ASSUME NEW w \in Exporters, TakeExport(w) PROVE [Queued!Next]_(Queued!vars)
    BY <2>2 DEF TakeExport, Queued!Next
  <2>3. ASSUME NEW w \in Exporters, SettleExport(w) PROVE [Queued!Next]_(Queued!vars)
    BY <2>3 DEF SettleExport, Queued!Next
  <2>4. CASE QueueMoves
    BY <2>4 DEF QueueMoves, Queued!Next
  <2>5. CASE PurgeQueueRow
    BY <2>5 DEF PurgeQueueRow, Queued!Next
  <2>6. CASE UNCHANGED queueRow
    BY <2>6
  <2> QED
    BY <2>1, <2>2, <2>3, <2>4, <2>5, <2>6
    DEF ExportNext, CreateExport, AskingFails, Exporting, FindExport, SetRunning, FailExport,
        StatFile, LookAtDisk, WriteFile, InsertBlob, Produce, KeepFile, KeepFails, Tidied,
        RecordOutput, RunBreaks, KillExporter, Removing, StartRemoval, StartCollection,
        RemoveRow, DropReference, CheckBlob, DeleteBlob, Unlink, RemovalBreaks, Mint,
        TokenExpires, Redeem, Serve
<1>3. [ExportNext]_exportVars => [Queued!Next]_(Queued!vars)
  BY <1>2 DEF exportVars, Queued!vars
<1> QED
  BY <1>1, <1>3, PTL DEF ExportSpec, Queued!Spec

-----------------------------------------------------------------------------
(* Payouts: a window paid once, a read paid a bounded number of times. *)

(* What division by the days of a week comes to. *)
LEMMA WeeksInDays ==
  ASSUME NEW W \in Int, 0 < W, NEW d \in Int
  PROVE  /\ d \div W \in Int /\ d % W \in Int /\ 0 <= d % W
         /\ d = W * (d \div W) + (d % W)
         /\ W * (d \div W) <= d /\ d < W * (d \div W) + W
  OBVIOUS

LEMMA TimesIsMonotone ==
  ASSUME NEW W \in Int, 0 < W, NEW p \in Int, NEW q \in Int, W * p < W * q
  PROVE  p < q
<1>1. SUFFICES ASSUME q <= p PROVE FALSE
  OBVIOUS
<1>2. (p - q) * W >= 0
  BY <1>1
<1> QED
  BY <1>2

LEMMA PayNumbers ==
  /\ WeekDays \in Int /\ 0 < WeekDays /\ WindowDays \in Int /\ 0 < WindowDays
  /\ LastDay \in Int /\ WeekDays <= LastDay
  BY PayoutAssumption

(* A window's end is a Monday, and not later than the day it is computed on. *)
Monday(d) == \E q \in Nat : d = WeekDays * q

LEMMA BoundaryIsMonday ==
  ASSUME NEW d \in Days
  PROVE  Boundary(d) \in Days /\ Boundary(d) <= d /\ Monday(Boundary(d))
<1>1. d \in Int /\ 0 <= d /\ d <= LastDay
  BY PayNumbers DEF Days
<1>2. /\ d \div WeekDays \in Int /\ d % WeekDays \in Int /\ 0 <= d % WeekDays
      /\ d = WeekDays * (d \div WeekDays) + (d % WeekDays)
      /\ d < WeekDays * (d \div WeekDays) + WeekDays
  BY <1>1, PayNumbers, WeeksInDays
<1> DEFINE q == d \div WeekDays
<1>3. Boundary(d) = WeekDays * q
  BY <1>1, <1>2, PayNumbers DEF Boundary
<1>4. q \in Nat
  <2>1. WeekDays * (-1) < WeekDays * q
    BY <1>1, <1>2, PayNumbers
  <2>2. -1 < q
    BY <1>2, <2>1, PayNumbers, TimesIsMonotone
  <2> QED
    BY <1>2, <2>2
<1>5. WeekDays * q >= 0 /\ WeekDays * q <= d
  BY <1>1, <1>2, <1>4, PayNumbers
<1> QED
  BY <1>1, <1>3, <1>4, <1>5, PayNumbers DEF Days, Monday

(* A row stands for its window's reads, but for those that are changed when    *)
(* their day is over; it ends on a Monday that has come, and is the only one   *)
(* of its work and window.  So does what a pass has counted and will insert.  *)
PassStands(k) ==
  /\ pass[k].at # "idle" => pass[k].until <= day /\ Monday(pass[k].until)
  /\ pass[k].at = "insert" =>
       \A w \in pass[k].work : Tallied(w, pass[k].until, pass[k].counted)
RowStands(x) == x.until <= day /\ Monday(x.until) /\ Tallied(x.work, x.until, x.counted)
PaidOnce == \A x, y \in ledger : x.work = y.work /\ x.until = y.until => x = y
PayInv ==
  /\ PayTypeOK
  /\ \A k \in PayWorkers : PassStands(k)
  /\ \A x \in ledger : RowStands(x)
  /\ PaidOnce

LEMMA PayInvInit == PayInit => PayInv
<1> SUFFICES ASSUME PayInit PROVE PayInv
  OBVIOUS
<1>1. 0 \in Days /\ day \in Days /\ 0..(WeekDays - 1) \subseteq Days
  BY PayNumbers DEF PayInit, Days
<1>2. PayTypeOK
  BY <1>1 DEF PayInit, PayTypeOK, NoPass
<1> QED
  BY <1>2 DEF PayInit, PayInv, PassStands, PaidOnce, NoPass

LEMMA SignalsAreDays ==
  ASSUME NEW w, NEW until PROVE Signals(w, until) \subseteq Days
  BY DEF Signals, Window

PassRecord == [at : {"idle", "pay", "insert"}, row : Days, until : Days,
               todo : SUBSET PayWorks, work : SUBSET PayWorks, counted : SUBSET Days]

(* A pass may change what it does, its works and what it has counted. *)
LEMMA PassFields ==
  ASSUME NEW p \in [PayWorkers -> PassRecord], NEW k \in PayWorkers
  PROVE  /\ \A a \in {"idle", "pay", "insert"} : [p EXCEPT ![k].at = a] \in [PayWorkers -> PassRecord]
         /\ \A S \in SUBSET PayWorks : /\ [p EXCEPT ![k].todo = S] \in [PayWorkers -> PassRecord]
                                       /\ [p EXCEPT ![k].work = S] \in [PayWorkers -> PassRecord]
         /\ \A S \in SUBSET Days : [p EXCEPT ![k].counted = S] \in [PayWorkers -> PassRecord]
  BY DEF PassRecord

LEMMA PayTypeStep == PayTypeOK /\ [PayNext]_payVars => PayTypeOK'
<1> SUFFICES ASSUME PayTypeOK, [PayNext]_payVars PROVE PayTypeOK'
  OBVIOUS
<1> USE DEF PayTypeOK
<1>1. CASE PayDay
  <2>1. day + 1 \in Days
    BY <1>1, PayNumbers DEF PayDay, Days
  <2> QED
    BY <1>1, <2>1 DEF PayDay
<1>2. ASSUME NEW w \in PayWorks, PayRead(w) PROVE PayTypeOK'
  BY <1>2 DEF PayRead
<1>2a. ASSUME NEW w \in PayWorks, NEW d \in Days, PayAmend(w, d) PROVE PayTypeOK'
  <2>1. reads' \subseteq PayWorks \X Days /\ amended' \subseteq PayWorks \X Days
    BY <1>2a DEF PayAmend
  <2>2. UNCHANGED <<day, job, worker, pass, ledger>>
    BY <1>2a DEF PayAmend
  <2> QED
    BY <2>1, <2>2
<1>3. CASE PayQueue
  BY <1>3 DEF PayQueue
<1>4. ASSUME NEW b \in Days, PayPurge(b) \/ PayExpire(b) PROVE PayTypeOK'
  BY <1>4 DEF PayPurge, PayExpire
<1>5. ASSUME NEW k \in PayWorkers, NEW b \in Days, PayTake(k, b) PROVE PayTypeOK'
  <2>1. Boundary(day) \in Days
    BY BoundaryIsMonday
  <2>2. Earning(Boundary(day)) \subseteq PayWorks
    BY DEF Earning
  <2>3. PICK todo \in SUBSET PayWorks :
          pass' = [pass EXCEPT ![k] = [at |-> "pay", row |-> b, until |-> Boundary(day),
                                       todo |-> todo, work |-> {}, counted |-> {}]]
    BY <1>5, <2>2 DEF PayTake
  <2>4. pass' \in [PayWorkers -> [at : {"idle", "pay", "insert"}, row : Days, until : Days,
                                  todo : SUBSET PayWorks, work : SUBSET PayWorks,
                                  counted : SUBSET Days]]
    BY <2>1, <2>3
  <2> QED
    BY <1>5, <2>4 DEF PayTake
<1>6. ASSUME NEW k \in PayWorkers, NEW w \in PayWorks, PayFind(k, w) PROVE PayTypeOK'
  <2>1. Signals(w, pass[k].until) \subseteq Days
    BY SignalsAreDays
  <2> DEFINE p1 == [pass EXCEPT ![k].todo = @ \ {w}]
             p2 == [p1 EXCEPT ![k].work = {w}]
             p3 == [p2 EXCEPT ![k].at = "insert"]
             p4 == [p3 EXCEPT ![k].counted = Signals(w, pass[k].until)]
  <2>2. pass' = p1 \/ pass' = p4
    BY <1>6 DEF PayFind
  <2>3. p1 \in [PayWorkers -> PassRecord]
    BY DEF PassRecord
  <2> HIDE DEF p1
  <2>4. p2 \in [PayWorkers -> PassRecord]
    <3>1. {w} \in SUBSET PayWorks
      OBVIOUS
    <3> QED
      BY <2>3, <3>1, PassFields
  <2> HIDE DEF p2
  <2>5. p3 \in [PayWorkers -> PassRecord]
    BY <2>4, PassFields
  <2> HIDE DEF p3
  <2>6. p4 \in [PayWorkers -> PassRecord]
    BY <2>1, <2>5, PassFields
  <2> HIDE DEF p4
  <2> QED
    BY <1>6, <2>2, <2>3, <2>6 DEF PayFind, PassRecord
<1>7. ASSUME NEW k \in PayWorkers, NEW w \in PayWorks, PayInsert(k, w) PROVE PayTypeOK'
  <2> DEFINE p1 == [pass EXCEPT ![k].at = "pay"]
             p2 == [p1 EXCEPT ![k].work = {}]
             p3 == [p2 EXCEPT ![k].counted = {}]
  <2>1. pass' = p3
    BY <1>7 DEF PayInsert
  <2>2. p1 \in [PayWorkers -> PassRecord]
    BY DEF PassRecord
  <2> HIDE DEF p1
  <2>3. p2 \in [PayWorkers -> PassRecord]
    BY <2>2, PassFields
  <2> HIDE DEF p2
  <2>4. p3 \in [PayWorkers -> PassRecord]
    BY <2>3, PassFields
  <2>5. \A x \in ledger' : x.work \in PayWorks /\ x.until \in Days /\ x.counted \subseteq Days
    BY <1>7 DEF PayInsert
  <2> HIDE DEF p3
  <2> QED
    BY <1>7, <2>1, <2>4, <2>5 DEF PayInsert, PassRecord
<1>8. ASSUME NEW k \in PayWorkers, NEW w \in PayWorks, PayFails(k, w) PROVE PayTypeOK'
  <2> DEFINE p1 == [pass EXCEPT ![k].todo = @ \ {w}]
             p2 == [p1 EXCEPT ![k].work = {}]
             p3 == [p2 EXCEPT ![k].counted = {}]
             p4 == [p3 EXCEPT ![k].at = "pay"]
  <2>1. pass' = p4
    BY <1>8 DEF PayFails
  <2>2. p1 \in [PayWorkers -> PassRecord]
    BY DEF PassRecord
  <2> HIDE DEF p1
  <2>3. p2 \in [PayWorkers -> PassRecord]
    BY <2>2, PassFields
  <2> HIDE DEF p2
  <2>4. p3 \in [PayWorkers -> PassRecord]
    BY <2>3, PassFields
  <2> HIDE DEF p3
  <2>5. p4 \in [PayWorkers -> PassRecord]
    BY <2>4, PassFields
  <2> HIDE DEF p4
  <2> QED
    BY <1>8, <2>1, <2>5 DEF PayFails, PassRecord
<1>9. ASSUME NEW k \in PayWorkers, PayDone(k) \/ PayKill(k) PROVE PayTypeOK'
  <2>1. 0 \in Days
    BY PayNumbers DEF Days
  <2> QED
    BY <1>9, <2>1 DEF PayDone, PayKill, NoPass
<1>10. CASE UNCHANGED payVars
  BY <1>10 DEF payVars
<1> QED
  BY <1>1, <1>2, <1>3, <1>4, <1>5, <1>6, <1>7, <1>8, <1>9, <1>10, <1>2a DEF PayNext

LEMMA PayInvStep == PayInv /\ [PayNext]_payVars => PayInv'
<1> SUFFICES ASSUME PayInv, [PayNext]_payVars PROVE PayInv'
  OBVIOUS
<1>0. PayTypeOK'
  BY PayTypeStep DEF PayInv
<1> DEFINE Rest == /\ \A k \in PayWorkers : PassStands(k)'
                   /\ \A x \in ledger' : RowStands(x)'
                   /\ PaidOnce'
<1>1. ASSUME UNCHANGED <<day, reads, ledger, amended>>, NEW k \in PayWorkers,
             \A l \in PayWorkers \ {k} : pass'[l] = pass[l], PassStands(k)'
      PROVE  Rest
  <2>1. \A w, until, c : Tallied(w, until, c)' <=> Tallied(w, until, c)
    BY <1>1 DEF Tallied, Window
  <2>2. \A l \in PayWorkers : PassStands(l)'
    BY <1>1, <2>1 DEF PayInv, PassStands
  <2> QED
    BY <1>1, <2>1, <2>2 DEF PayInv, RowStands, PaidOnce
<1>2. ASSUME UNCHANGED <<pass, ledger>>, day' \in Int, day <= day',
             \A w \in PayWorks, until \in Days, c \in SUBSET Days :
               until <= day /\ Tallied(w, until, c) => Tallied(w, until, c)'
      PROVE  Rest
  <2> USE DEF PayInv, PayTypeOK, Days
  <2>1. \A l \in PayWorkers : PassStands(l)'
    BY <1>2, PayNumbers DEF PassStands
  <2>2. \A x \in ledger' : RowStands(x)'
    BY <1>2, PayNumbers DEF RowStands
  <2> QED
    BY <1>2, <2>1, <2>2 DEF PaidOnce
<1>3. ASSUME UNCHANGED <<day, reads, pass, ledger, amended>> PROVE Rest
  <2>1. \A w, until, c : Tallied(w, until, c)' <=> Tallied(w, until, c)
    BY <1>3 DEF Tallied, Window
  <2> QED
    BY <1>3, <2>1 DEF PayInv, PassStands, RowStands, PaidOnce
<1> HIDE DEF Rest
<1>4. ASSUME PayDay PROVE Rest
  <2>1. \A w, until, c : Tallied(w, until, c)' <=> Tallied(w, until, c)
    BY <1>4 DEF PayDay, Tallied, Window
  <2>2. day' \in Int /\ day <= day'
    BY <1>4, PayNumbers DEF PayDay, PayInv, PayTypeOK, Days
  <2> QED
    <3>1. UNCHANGED <<pass, ledger>>
      BY <1>4 DEF PayDay
    <3> QED
      BY <1>2, <2>1, <2>2, <3>1
<1>5. ASSUME NEW v \in PayWorks, PayRead(v) PROVE Rest
  <2>1. UNCHANGED <<day, pass, ledger, amended>> /\ reads' = reads \cup {<<v, day>>}
    BY <1>5 DEF PayRead
  <2>2. ASSUME NEW w \in PayWorks, NEW until \in Days, NEW c \in SUBSET Days,
               until <= day, Tallied(w, until, c)
        PROVE  Tallied(w, until, c)'
    <3>1. \A d \in Window(until) : d # day
      BY <2>2, PayNumbers DEF Window, Days, PayInv, PayTypeOK
    <3> QED
      BY <2>1, <2>2, <3>1 DEF Tallied, Window
  <2>3. day' \in Int /\ day <= day'
    BY <2>1, PayNumbers DEF PayInv, PayTypeOK, Days
  <2> QED
    BY <1>2, <2>1, <2>2, <2>3
<1>5a. ASSUME NEW v \in PayWorks, NEW e \in Days, PayAmend(v, e) PROVE Rest
  <2>1. /\ UNCHANGED <<day, pass, ledger>> /\ e <= day
        /\ reads' = reads \cup {<<v, e>>} \/ reads' = reads \ {<<v, e>>}
        /\ amended' = IF e < day THEN amended \cup {<<v, e>>} ELSE amended
    BY <1>5a DEF PayAmend
  <2>2. ASSUME NEW w \in PayWorks, NEW until \in Days, NEW c \in SUBSET Days,
               until <= day, Tallied(w, until, c)
        PROVE  Tallied(w, until, c)'
    <3>1. \A d \in Window(until) : d < day
      BY <2>2, PayNumbers DEF Window, Days, PayInv, PayTypeOK
    <3>2. ASSUME NEW d \in Window(until), <<w, d>> \notin amended'
          PROVE  <<w, d>> \notin amended /\ (<<w, d>> \in reads <=> <<w, d>> \in reads')
      <4>1. CASE <<w, d>> = <<v, e>>
        BY <2>1, <3>1, <3>2, <4>1
      <4>2. CASE <<w, d>> # <<v, e>>
        BY <2>1, <3>2, <4>2
      <4> QED
        BY <4>1, <4>2
    <3> QED
      BY <2>2, <3>2 DEF Tallied, Window
  <2>3. day' \in Int /\ day <= day'
    BY <2>1, PayNumbers DEF PayInv, PayTypeOK, Days
  <2> QED
    BY <1>2, <2>1, <2>2, <2>3
<1>6. ASSUME NEW k \in PayWorkers, NEW b \in Days, PayTake(k, b) PROVE Rest
  <2>1. Boundary(day) <= day /\ Monday(Boundary(day))
    BY BoundaryIsMonday DEF PayInv, PayTypeOK
  <2>2. /\ UNCHANGED <<day, reads, ledger, amended>>
        /\ \A l \in PayWorkers \ {k} : pass'[l] = pass[l]
        /\ pass'[k].at = "pay" /\ pass'[k].until = Boundary(day)
    BY <1>6 DEF PayTake, PayInv, PayTypeOK
  <2>3. PassStands(k)'
    BY <2>1, <2>2 DEF PassStands
  <2> QED
    BY <1>1, <2>2, <2>3
<1>7. ASSUME NEW k \in PayWorkers, NEW w \in PayWorks, PayFind(k, w) PROVE Rest
  <2>1. /\ UNCHANGED <<day, reads, ledger, amended>>
        /\ \A l \in PayWorkers \ {k} : pass'[l] = pass[l]
        /\ pass[k].at = "pay" /\ pass'[k].until = pass[k].until
        /\ \/ pass'[k].at = "pay"
           \/ pass'[k].work = {w} /\ pass'[k].counted = Signals(w, pass[k].until)
    BY <1>7 DEF PayFind, PayInv, PayTypeOK
  <2>2. Tallied(w, pass[k].until, Signals(w, pass[k].until))'
    BY <2>1 DEF Tallied, Signals, Window
  <2>3. PassStands(k)'
    BY <2>1, <2>2 DEF PassStands, PayInv, Tallied, Signals, Window
  <2> QED
    BY <1>1, <2>1, <2>3
<1>8. ASSUME NEW k \in PayWorkers, NEW w \in PayWorks, PayInsert(k, w) PROVE Rest
  <2> DEFINE new == [work |-> w, until |-> pass[k].until, by |-> k, counted |-> pass[k].counted]
  <2>1. /\ UNCHANGED <<day, reads, amended>>
        /\ \A l \in PayWorkers \ {k} : pass'[l] = pass[l]
        /\ pass[k].at = "insert" /\ pass[k].work = {w}
        /\ pass'[k].at = "pay" /\ pass'[k].until = pass[k].until
        /\ ledger' = IF KeyIsFree(w, pass[k].until) THEN ledger \cup {new} ELSE ledger
    BY <1>8 DEF PayInsert, PayInv, PayTypeOK
  <2>2. \A v, until, c : Tallied(v, until, c)' <=> Tallied(v, until, c)
    BY <2>1 DEF Tallied, Window
  <2>3. \A l \in PayWorkers : PassStands(l)'
    BY <2>1, <2>2 DEF PassStands, PayInv
  <2>4. RowStands(new)
    BY <2>1 DEF PassStands, RowStands, PayInv
  <2>5. \A x \in ledger' : RowStands(x)
    BY <2>1, <2>4 DEF PayInv
  <2>6. \A x \in ledger' : RowStands(x)'
    BY <2>1, <2>2, <2>5 DEF RowStands
  <2>7. PaidOnce'
    BY <2>1 DEF PaidOnce, PayInv, KeyIsFree
  <2> QED
    BY <2>3, <2>6, <2>7 DEF Rest
<1>9. ASSUME NEW k \in PayWorkers, NEW w \in PayWorks, PayFails(k, w) PROVE Rest
  <2>1. /\ UNCHANGED <<day, reads, ledger, amended>>
        /\ \A l \in PayWorkers \ {k} : pass'[l] = pass[l]
        /\ pass[k].at # "idle" /\ pass'[k].at = "pay" /\ pass'[k].until = pass[k].until
    BY <1>9 DEF PayFails, PayInv, PayTypeOK
  <2>2. PassStands(k)'
    BY <2>1 DEF PassStands, PayInv
  <2> QED
    BY <1>1, <2>1, <2>2
<1>10. ASSUME NEW k \in PayWorkers, PayDone(k) \/ PayKill(k) PROVE Rest
  <2>1. /\ UNCHANGED <<day, reads, ledger, amended>>
        /\ \A l \in PayWorkers \ {k} : pass'[l] = pass[l]
        /\ pass'[k].at = "idle"
    BY <1>10 DEF PayDone, PayKill, NoPass, PayInv, PayTypeOK
  <2>2. PassStands(k)'
    BY <2>1 DEF PassStands
  <2> QED
    BY <1>1, <2>1, <2>2
<1>11. ASSUME PayQueue \/ \E b \in Days : PayPurge(b) \/ PayExpire(b) PROVE Rest
  <2>1. UNCHANGED <<day, reads, pass, ledger, amended>>
    BY <1>11 DEF PayQueue, PayPurge, PayExpire
  <2> QED
    BY <1>3, <2>1
<1>12. ASSUME UNCHANGED payVars PROVE Rest
  <2>1. UNCHANGED <<day, reads, pass, ledger, amended>>
    BY <1>12 DEF payVars
  <2> QED
    BY <1>3, <2>1
<1>13. Rest
  BY <1>4, <1>5, <1>6, <1>7, <1>8, <1>9, <1>10, <1>11, <1>12, <1>5a DEF PayNext
<1> QED
  BY <1>0, <1>13 DEF Rest, PayInv

(* The ledger, the reads and the passes' locals keep their ranges.            *)
THEOREM PayoutsTyped == PaySpec => []PayTypeOK
<1>1. PayInv => PayTypeOK
  BY DEF PayInv
<1> QED
  BY <1>1, PayInvInit, PayInvStep, PTL DEF PaySpec

(* A work is paid at most once for a window, though passes overlap, die, are  *)
(* rerun and queued again; and what was counted differs from the window's     *)
(* reads only by those that are changed when their day is over, before or     *)
(* after the payout (closed_window, post_transaction).                        *)
THEOREM WindowsPaidOnce == PaySpec => []WindowPaidOnce
<1>1. PayInv => WindowPaidOnce
  BY DEF PayInv, PaidOnce, RowStands, WindowPaidOnce
<1> QED
  BY <1>1, PayInvInit, PayInvStep, PTL DEF PaySpec

(* The windows that hold a day end on the Mondays after it, and there are     *)
(* fewer of these than days in a window, and a week more, divided by a week.  *)
LEMMA MondaysInWindow ==
  ASSUME NEW W \in Int, 0 < W, NEW n \in Int, 0 < n, NEW d \in Int, 0 <= d
  PROVE  LET lo == (d \div W) + 1
             hi == (d + n) \div W IN
         /\ lo \in Int /\ hi \in Int
         /\ \A q \in Int : d < W * q /\ W * q <= d + n => q \in lo..hi
         /\ IsFiniteSet(lo..hi) /\ Cardinality(lo..hi) \in Nat
         /\ Cardinality(lo..hi) * W < n + W
<1> DEFINE p == d \div W
           hi == (d + n) \div W
<1>1. p \in Int /\ W * p <= d /\ d < W * p + W
  BY WeeksInDays
<1>2. hi \in Int /\ W * hi <= d + n /\ d + n < W * hi + W
  <2>1. d + n \in Int
    OBVIOUS
  <2> QED
    BY <2>1, WeeksInDays
<1> HIDE DEF p, hi
<1>3. ASSUME NEW q \in Int, d < W * q, W * q <= d + n PROVE q \in (p + 1)..hi
  <2>1. p < q
    <3>1. W * p < W * q
      BY <1>1, <1>3
    <3> QED
      BY <1>1, <3>1, TimesIsMonotone
  <2>2. q < hi + 1
    <3>1. W * q < W * (hi + 1)
      BY <1>2, <1>3
    <3> QED
      BY <1>2, <3>1, TimesIsMonotone
  <2> QED
    BY <1>1, <1>2, <2>1, <2>2
<1>4. /\ IsFiniteSet((p + 1)..hi)
      /\ Cardinality((p + 1)..hi) = IF p + 1 > hi THEN 0 ELSE hi - (p + 1) + 1
  BY <1>1, <1>2, FS_Interval
<1>5. (hi - p) * W < n + W
  BY <1>1, <1>2
<1>6. Cardinality((p + 1)..hi) \in Nat /\ Cardinality((p + 1)..hi) * W < n + W
  <2>1. CASE p + 1 > hi
    BY <1>4, <2>1
  <2>2. CASE p + 1 <= hi
    <3>1. Cardinality((p + 1)..hi) = hi - p /\ hi - p \in Nat
      BY <1>1, <1>2, <1>4, <2>2
    <3> QED
      BY <1>5, <3>1
  <2> QED
    BY <1>1, <1>2, <2>1, <2>2
<1> QED
  BY <1>1, <1>2, <1>3, <1>4, <1>6 DEF p, hi

(* A read is paid no more often than there are Mondays in a window, whatever  *)
(* the lengths of week and window (closed_window).                            *)
THEOREM ReadsPaidBoundedly == PaySpec => []ReadPaidBoundedly
<1>1. PayInv => ReadPaidBoundedly
  <2> SUFFICES ASSUME PayInv, NEW r \in reads
               PROVE  Cardinality({x \in ledger : x.work = r[1] /\ r[2] \in x.counted}) * WeekDays
                        < WindowDays + WeekDays
    BY DEF ReadPaidBoundedly
  <2> DEFINE S == {x \in ledger : x.work = r[1] /\ r[2] \in x.counted}
  <2>1. PICK d \in Days : d = r[2]
    BY DEF PayInv, PayTypeOK
  <2>2. d \in Int /\ 0 <= d
    BY PayNumbers DEF Days
  <2> DEFINE M == ((d \div WeekDays) + 1)..((d + WindowDays) \div WeekDays)
  <2>3. /\ IsFiniteSet(M) /\ Cardinality(M) \in Nat
        /\ Cardinality(M) * WeekDays < WindowDays + WeekDays
        /\ \A q \in Int : d < WeekDays * q /\ WeekDays * q <= d + WindowDays => q \in M
    BY <2>2, PayNumbers, MondaysInWindow
  <2> HIDE DEF M
  <2>4. ASSUME NEW x \in S PROVE \E q \in M : x.until = WeekDays * q
    <3>1. Monday(x.until) /\ d \in Window(x.until)
      BY <2>1 DEF PayInv, RowStands, Tallied
    <3>2. PICK q \in Nat : x.until = WeekDays * q
      BY <3>1 DEF Monday
    <3>3. d < x.until /\ d + WindowDays >= x.until
      BY <3>1 DEF Window
    <3>4. d < WeekDays * q /\ WeekDays * q <= d + WindowDays
      BY <2>2, <3>2, <3>3, PayNumbers
    <3> QED
      BY <2>3, <3>2, <3>4
  <2> DEFINE f == [x \in S |-> CHOOSE q \in M : x.until = WeekDays * q]
  <2>5. \A x \in S : f[x] \in M /\ x.until = WeekDays * f[x]
    BY <2>4
  <2>6. \A x, y \in S : x.until = y.until => x = y
    BY DEF PayInv, PaidOnce
  <2>7. f \in Injection(S, M)
    <3>1. f \in [S -> M]
      BY <2>5
    <3>2. \A x, y \in S : f[x] = f[y] => x = y
      BY <2>5, <2>6
    <3> HIDE DEF f
    <3> QED
      BY <3>1, <3>2 DEF Injection, IsInjective
  <2> HIDE DEF S, f
  <2>8. IsFiniteSet(S) /\ Cardinality(S) <= Cardinality(M) /\ Cardinality(S) \in Nat
    BY <2>3, <2>7, FS_Injection, FS_CardinalityType
  <2>9. Cardinality(S) * WeekDays <= Cardinality(M) * WeekDays
    BY <2>3, <2>8, PayNumbers
  <2>10. Cardinality(S) * WeekDays < WindowDays + WeekDays
    BY <2>3, <2>8, <2>9, PayNumbers
  <2> QED
    BY <2>10 DEF S
<1> QED
  BY <1>1, PayInvInit, PayInvStep, PTL DEF PaySpec

-----------------------------------------------------------------------------
(* Retention: a proposal's life, and the settings that follow it. *)

SettlingRecord ==
  [stage : {"idle", "next", "counting", "expiring", "writing", "recording", "closing"},
   todo : SUBSET Proposals, at : SUBSET Proposals, widens : BOOLEAN]
AnswerRecord ==
  [stage : {"sent", "weighed", "writing", "recording", "closing"}, of : Proposals,
   act : {"accept", "decline", "override"}, mode : Modes, widens : BOOLEAN, decided : BOOLEAN]
BallotRecord == [stage : {"checked"}, reader : Voters, of : Proposals, support : BOOLEAN]
ProposalRecord ==
  [state : {"none", "checked", "open"} \cup Decided, mode : Modes, scope : Scopes, over : BOOLEAN]

(* The type invariant, with the requests whole. *)
RetentionRecords ==
  /\ RetentionTypeOK
  /\ ballot = NoBallot \/ ballot \in BallotRecord
  /\ answer = NoAnswer \/ answer \in AnswerRecord

LEMMA SettingTyped ==
  ASSUME NEW mode \in Modes, NEW scope \in Scopes, RetentionTypeOK, Write(scope, mode)
  PROVE  policy' \in Modes /\ override' \in Modes \cup {"inherit"}
  BY DEF Write, RetentionTypeOK

LEMMA ClosedTyped ==
  ASSUME RetentionTypeOK, NEW p \in Proposals, NEW state \in Decided, Close(p, state)
  PROVE  proposal' \in [Proposals -> ProposalRecord]
<1> DEFINE closed == [proposal EXCEPT ![p].state = state]
<1>1. closed \in [Proposals -> ProposalRecord]
  BY DEF RetentionTypeOK, ProposalRecord
<1> QED
  BY <1>1 DEF Close, RetentionTypeOK, ProposalRecord

LEMMA PassTyped ==
  ASSUME RetentionTypeOK, NEW s \in Passes,
         \/ Leave(s)
         \/ \E stage \in {"expiring", "writing", "recording", "closing"} : To(s, stage)
  PROVE  settler' \in [Passes -> SettlingRecord]
<1>1. CASE Leave(s)
  BY <1>1 DEF RetentionTypeOK, SettlingRecord, Leave
<1>2. ASSUME NEW stage \in {"expiring", "writing", "recording", "closing"}, To(s, stage)
      PROVE settler' \in [Passes -> SettlingRecord]
  BY <1>2 DEF RetentionTypeOK, SettlingRecord, To
<1> QED
  BY <1>1, <1>2

(* Where a settling pass and the readers may bring the records. *)
LEMMA SettlingTyped ==
  ASSUME RetentionRecords, NEW s \in Passes, Settling(s)
  PROVE  RetentionRecords'
<1> USE DEF RetentionRecords
<1>1. CASE StartPass(s)
  <2>1. settler' \in [Passes -> SettlingRecord]
    BY <1>1 DEF StartPass, RetentionTypeOK, SettlingRecord, NoSettling, Overdue
  <2>2. UNCHANGED <<setting, proposal, votes, changes, answer>>
    BY <1>1 DEF StartPass
  <2> QED
    BY <2>1, <2>2 DEF RetentionTypeOK, SettlingRecord, setting, votes
<1>2. CASE GiveUp(s)
  <2>1. settler' \in [Passes -> SettlingRecord]
    BY <1>2, PassTyped DEF GiveUp
  <2>2. UNCHANGED <<setting, proposal, votes, changes, answer>>
    BY <1>2 DEF GiveUp
  <2> QED
    BY <2>1, <2>2 DEF RetentionTypeOK, SettlingRecord, setting, votes
<1>3. CASE EndPass(s)
  <2>1. settler' \in [Passes -> SettlingRecord]
    BY <1>3 DEF EndPass, RetentionTypeOK, SettlingRecord, NoSettling
  <2>2. UNCHANGED <<setting, proposal, votes, changes, answer>>
    BY <1>3 DEF EndPass
  <2> QED
    BY <2>1, <2>2 DEF RetentionTypeOK, SettlingRecord, setting, votes
<1>4. ASSUME NEW p \in Proposals, ReadBar(s, p) PROVE RetentionRecords'
  <2>1. settler' \in [Passes -> SettlingRecord]
    BY <1>4 DEF ReadBar, RetentionTypeOK, SettlingRecord, Widens
  <2>2. UNCHANGED <<setting, proposal, votes, changes, answer>>
    BY <1>4 DEF ReadBar
  <2> QED
    BY <2>1, <2>2 DEF RetentionTypeOK, SettlingRecord, setting, votes
<1>5. ASSUME NEW p \in Proposals, CountBallots(s, p) PROVE RetentionRecords'
  <2>1. settler' \in [Passes -> SettlingRecord]
    BY <1>5, PassTyped DEF CountBallots
  <2>2. UNCHANGED <<setting, proposal, votes, changes, answer>>
    BY <1>5 DEF CountBallots
  <2> QED
    BY <2>1, <2>2 DEF RetentionTypeOK, SettlingRecord, setting, votes
<1>6. ASSUME NEW p \in Proposals, Expire(s, p) PROVE RetentionRecords'
  <2>1. settler' \in [Passes -> SettlingRecord] /\ proposal' \in [Proposals -> ProposalRecord]
    BY <1>6, PassTyped, ClosedTyped DEF Expire, Decided
  <2>2. UNCHANGED <<setting, votes, changes, answer>>
    BY <1>6 DEF Expire
  <2> QED
    BY <2>1, <2>2 DEF RetentionTypeOK, SettlingRecord, ProposalRecord, setting, votes
<1>7. ASSUME NEW p \in Proposals, Commit(s, p) PROVE RetentionRecords'
  <2>1. settler' \in [Passes -> SettlingRecord]
    BY <1>7, PassTyped DEF Commit
  <2>2. policy' \in Modes /\ override' \in Modes \cup {"inherit"}
    <3>1. proposal[p].scope \in Scopes /\ proposal[p].mode \in Modes
      BY DEF RetentionTypeOK
    <3> QED
      BY <1>7, <3>1, SettingTyped DEF Commit
  <2>3. UNCHANGED <<binding, proposal, votes, changes, answer>>
    BY <1>7 DEF Commit
  <2> QED
    BY <2>1, <2>2, <2>3 DEF RetentionTypeOK, SettlingRecord, votes
<1>8. ASSUME NEW p \in Proposals, RecordCommit(s, p) PROVE RetentionRecords'
  <2>1. settler' \in [Passes -> SettlingRecord]
    BY <1>8, PassTyped DEF RecordCommit
  <2>2. changes' \subseteq [of : Proposals, by : {"instance", "operator"}, to : Modes, set : Modes]
    BY <1>8 DEF RecordCommit, Record, RetentionTypeOK
  <2>3. UNCHANGED <<setting, proposal, votes, answer>>
    BY <1>8 DEF RecordCommit
  <2> QED
    BY <2>1, <2>2, <2>3 DEF RetentionTypeOK, SettlingRecord, setting, votes
<1>9. ASSUME NEW p \in Proposals, PassProposal(s, p) PROVE RetentionRecords'
  <2>1. settler' \in [Passes -> SettlingRecord] /\ proposal' \in [Proposals -> ProposalRecord]
    BY <1>9, PassTyped, ClosedTyped DEF PassProposal, Decided
  <2>2. UNCHANGED <<setting, votes, changes, answer>>
    BY <1>9 DEF PassProposal
  <2> QED
    BY <2>1, <2>2 DEF RetentionTypeOK, SettlingRecord, ProposalRecord, setting, votes
<1> QED
  BY <1>1, <1>2, <1>3, <1>4, <1>5, <1>6, <1>7, <1>8, <1>9 DEF Settling

LEMMA AnsweringTyped == RetentionRecords /\ Answering => RetentionRecords'
<1> SUFFICES ASSUME RetentionRecords, Answering PROVE RetentionRecords'
  OBVIOUS
<1> USE DEF RetentionRecords
<1>1. ASSUME NEW p \in Proposals, NEW act \in {"accept", "decline", "override"}, NEW mode \in Modes,
             AskAnswer(p, act, mode)
      PROVE RetentionRecords'
  <2>1. answer' \in AnswerRecord
    BY <1>1 DEF AskAnswer, AnswerRecord
  <2>2. UNCHANGED <<setting, proposal, votes, changes, settler>>
    BY <1>1 DEF AskAnswer
  <2> QED
    BY <2>1, <2>2 DEF RetentionTypeOK, AnswerRecord, setting, votes
<1>2. CASE LoadProposal
  <2>1. answer \in AnswerRecord
    BY <1>2 DEF LoadProposal, NoAnswer
  <2>2. answer' \in AnswerRecord
    BY <1>2, <2>1 DEF LoadProposal, AnswerRecord, Widens
  <2>3. UNCHANGED <<setting, proposal, votes, changes, settler>>
    BY <1>2 DEF LoadProposal
  <2> QED
    BY <2>2, <2>3 DEF RetentionTypeOK, AnswerRecord, setting, votes
<1>3. CASE Weigh
  <2>1. answer \in AnswerRecord
    BY <1>3 DEF Weigh, NoAnswer
  <2>2. answer' \in AnswerRecord
    BY <1>3, <2>1 DEF Weigh, AnswerRecord
  <2>3. UNCHANGED <<setting, proposal, votes, changes, settler>>
    BY <1>3 DEF Weigh
  <2> QED
    BY <2>2, <2>3 DEF RetentionTypeOK, AnswerRecord, setting, votes
<1>4. CASE Apply
  <2>1. answer \in AnswerRecord
    BY <1>4 DEF Apply, NoAnswer
  <2>2. answer' \in AnswerRecord
    BY <1>4, <2>1 DEF Apply, AnswerRecord
  <2>3. proposal[answer.of].scope \in Scopes /\ SetByOperator(answer.of) \in Modes
    BY <2>1 DEF RetentionTypeOK, SetByOperator, AnswerRecord
  <2>4. policy' \in Modes /\ override' \in Modes \cup {"inherit"}
    BY <1>4, <2>3, SettingTyped DEF Apply
  <2>5. UNCHANGED <<binding, proposal, votes, changes, settler>>
    BY <1>4 DEF Apply
  <2> QED
    BY <2>2, <2>4, <2>5 DEF RetentionTypeOK, AnswerRecord, votes
<1>5. CASE RecordAnswer
  <2>1. answer \in AnswerRecord
    BY <1>5 DEF RecordAnswer, NoAnswer
  <2>2. answer' \in AnswerRecord
    BY <1>5, <2>1 DEF RecordAnswer, AnswerRecord
  <2>3. answer.of \in Proposals /\ answer.mode \in Modes /\ SetByOperator(answer.of) \in Modes
    BY <2>1 DEF RetentionTypeOK, SetByOperator, AnswerRecord
  <2>4. changes' \subseteq [of : Proposals, by : {"instance", "operator"}, to : Modes, set : Modes]
    BY <1>5, <2>3 DEF RecordAnswer, Record, RetentionTypeOK
  <2>5. UNCHANGED <<setting, proposal, votes, settler>>
    BY <1>5 DEF RecordAnswer
  <2> QED
    BY <2>2, <2>4, <2>5 DEF RetentionTypeOK, AnswerRecord, setting, votes
<1>6. CASE CloseAnswered
  <2>1. answer.of \in Proposals
    BY <1>6 DEF CloseAnswered, NoAnswer, AnswerRecord
  <2>2. proposal' \in [Proposals -> ProposalRecord]
    BY <1>6, <2>1, ClosedTyped DEF CloseAnswered, Decided, RetentionTypeOK, ProposalRecord
  <2>3. answer' = NoAnswer /\ UNCHANGED <<setting, votes, changes, settler>>
    BY <1>6 DEF CloseAnswered
  <2> QED
    BY <2>2, <2>3 DEF RetentionTypeOK, ProposalRecord, NoAnswer, setting, votes
<1>7. CASE EndAnswer
  BY <1>7 DEF EndAnswer, RetentionTypeOK, NoAnswer, setting, votes
<1> QED
  BY <1>1, <1>2, <1>3, <1>4, <1>5, <1>6, <1>7 DEF Answering

LEMMA VotingTyped == RetentionRecords /\ Voting => RetentionRecords'
<1> SUFFICES ASSUME RetentionRecords, Voting PROVE RetentionRecords'
  OBVIOUS
<1> USE DEF RetentionRecords
<1>1. ASSUME NEW p \in Proposals, NEW scope \in Scopes, NEW mode \in Modes,
             CheckProposal(p, scope, mode)
      PROVE RetentionRecords'
  <2>1. proposal' \in [Proposals -> ProposalRecord]
    BY <1>1 DEF CheckProposal, RetentionTypeOK, ProposalRecord
  <2>2. UNCHANGED <<setting, votes, changes, settler, answer>>
    BY <1>1 DEF CheckProposal
  <2> QED
    BY <2>1, <2>2 DEF RetentionTypeOK, ProposalRecord, setting, votes
<1>2. ASSUME NEW p \in Proposals, OpenProposal(p) \/ WindowEnds(p) PROVE RetentionRecords'
  <2>1. proposal' \in [Proposals -> ProposalRecord]
    <3>1. CASE OpenProposal(p)
      BY <3>1 DEF OpenProposal, RetentionTypeOK, ProposalRecord
    <3>2. CASE WindowEnds(p)
      BY <3>2 DEF WindowEnds, RetentionTypeOK, ProposalRecord
    <3> QED
      BY <1>2, <3>1, <3>2
  <2>2. UNCHANGED <<setting, votes, changes, settler, answer>>
    BY <1>2 DEF OpenProposal, WindowEnds
  <2> QED
    BY <2>1, <2>2 DEF RetentionTypeOK, ProposalRecord, setting, votes
<1>3. ASSUME NEW r \in Voters, NEW p \in Proposals, NEW support \in BOOLEAN,
             CheckBallot(r, p, support)
      PROVE RetentionRecords'
  <2>1. ballot' \in BallotRecord
    BY <1>3 DEF CheckBallot, BallotRecord
  <2>2. UNCHANGED <<setting, proposal, supporters, changes, carried, settler, answer>>
    BY <1>3 DEF CheckBallot
  <2> QED
    BY <2>1, <2>2 DEF RetentionTypeOK, BallotRecord, setting
<1>4. CASE CastBallot
  <2>1. ballot \in BallotRecord
    BY <1>4 DEF CastBallot, NoBallot
  <2>2. supporters' \in [Proposals -> SUBSET Voters]
    BY <1>4, <2>1 DEF CastBallot, BallotRecord, RetentionTypeOK
  <2>3. carried' \subseteq Proposals
    BY <1>4 DEF CastBallot, RetentionTypeOK
  <2>4. ballot' = NoBallot /\ UNCHANGED <<setting, proposal, changes, settler, answer>>
    BY <1>4 DEF CastBallot
  <2> QED
    BY <2>2, <2>3, <2>4 DEF RetentionTypeOK, NoBallot, setting
<1> QED
  BY <1>1, <1>2, <1>3, <1>4 DEF Voting

LEMMA RecordsStep == RetentionRecords /\ [RetentionNext]_retentionVars => RetentionRecords'
<1> SUFFICES ASSUME RetentionRecords, [RetentionNext]_retentionVars PROVE RetentionRecords'
  OBVIOUS
<1>1. CASE Setting
  <2>1. policy' \in Modes /\ override' \in Modes \cup {"inherit"}
    BY <1>1, SettingTyped
       DEF Setting, SetPolicy, SetSource, ClearSource, Scopes, RetentionRecords, RetentionTypeOK
  <2>2. UNCHANGED <<binding, proposal, votes, changes, settler, answer>>
    BY <1>1 DEF Setting, SetPolicy, SetSource, ClearSource
  <2> QED
    BY <2>1, <2>2 DEF RetentionRecords, RetentionTypeOK, votes
<1>2. CASE UNCHANGED retentionVars
  BY <1>2 DEF RetentionRecords, RetentionTypeOK, retentionVars
<1> QED
  BY <1>1, <1>2, SettlingTyped, AnsweringTyped, VotingTyped DEF RetentionNext

-----------------------------------------------------------------------------
(* What no step takes back. *)

Posted(p) == proposal[p].state \in Decided \cup {"open"}
OnRecord(p, mode) == \E c \in changes : c.of = p /\ c.to = mode
Backed(p) == OnRecord(p, proposal[p].mode)

(* A posted proposal stays one, asks for the same and is not reopened. *)
ProposalStands(p) ==
  /\ proposal'[p].mode = proposal[p].mode
  /\ proposal[p].over => proposal'[p].over
  /\ Posted(p)'
  /\ proposal[p].state \in Decided =>
       \/ proposal'[p].state = proposal[p].state
       \/ proposal[p].state = "passed" /\ proposal'[p].state = "overridden"

LEMMA ClosedAs ==
  ASSUME RetentionTypeOK, NEW q \in Proposals, NEW state \in Decided, Close(q, state)
  PROVE  \A p \in Proposals : proposal'[p] = proposal[p] \/ (p = q /\ proposal'[p].state = state)
<1> DEFINE closed == [proposal EXCEPT ![q].state = state]
<1>1. proposal' = proposal \/ proposal' = closed
  BY DEF Close
<1>2. \A p \in Proposals : p # q => closed[p] = proposal[p]
  BY DEF RetentionTypeOK
<1>3. closed[q].state = state
  BY DEF RetentionTypeOK
<1> HIDE DEF closed
<1> QED
  BY <1>1, <1>2, <1>3

LEMMA ClosedStands ==
  ASSUME RetentionTypeOK, NEW q \in Proposals, NEW state \in Decided, Close(q, state),
         NEW p \in Proposals, Posted(p)
  PROVE  ProposalStands(p)
<1>1. CASE proposal[q].state \in ClosableFrom(state) /\ p = q
  BY <1>1 DEF Close, ClosableFrom, ProposalStands, Posted, Decided, RetentionTypeOK
<1>2. CASE ~ (proposal[q].state \in ClosableFrom(state) /\ p = q)
  <2>1. proposal'[p] = proposal[p]
    BY <1>2 DEF Close, RetentionTypeOK
  <2> QED
    BY <2>1 DEF ProposalStands, Posted
<1> QED
  BY <1>1, <1>2

LEMMA ProposalsStand ==
  ASSUME RetentionRecords, [RetentionNext]_retentionVars, NEW p \in Proposals, Posted(p)
  PROVE  ProposalStands(p)
<1>1. CASE proposal' = proposal
  BY <1>1 DEF ProposalStands, Posted
<1>2. ASSUME NEW s \in Passes, NEW q \in Proposals, Expire(s, q) \/ PassProposal(s, q)
      PROVE ProposalStands(p)
  BY <1>2, ClosedStands DEF Expire, PassProposal, Decided, RetentionRecords
<1>3. CASE CloseAnswered
  <2>1. answer.of \in Proposals
    BY <1>3 DEF CloseAnswered, NoAnswer, AnswerRecord, RetentionRecords
  <2> QED
    BY <1>1, <1>3, <2>1, ClosedStands DEF CloseAnswered, Decided, RetentionRecords
<1>4. ASSUME NEW q \in Proposals, NEW scope \in Scopes, NEW mode \in Modes,
             CheckProposal(q, scope, mode)
      PROVE ProposalStands(p)
  <2>1. p # q
    BY <1>4 DEF CheckProposal, Posted, Decided
  <2>2. proposal'[p] = proposal[p]
    BY <1>4, <2>1 DEF CheckProposal, RetentionRecords, RetentionTypeOK
  <2> QED
    BY <2>2 DEF ProposalStands, Posted
<1>5. ASSUME NEW q \in Proposals, OpenProposal(q) PROVE ProposalStands(p)
  <2>1. p # q
    BY <1>5 DEF OpenProposal, Posted, Decided
  <2>2. proposal'[p] = proposal[p]
    BY <1>5, <2>1 DEF OpenProposal, RetentionRecords, RetentionTypeOK
  <2> QED
    BY <2>2 DEF ProposalStands, Posted
<1>6. ASSUME NEW q \in Proposals, WindowEnds(q) PROVE ProposalStands(p)
  <2>1. CASE p = q
    BY <1>6, <2>1 DEF WindowEnds, ProposalStands, Posted, Decided, RetentionRecords,
                      RetentionTypeOK
  <2>2. CASE p # q
    <3>1. proposal'[p] = proposal[p]
      BY <1>6, <2>2 DEF WindowEnds, RetentionRecords, RetentionTypeOK
    <3> QED
      BY <3>1 DEF ProposalStands, Posted
  <2> QED
    BY <2>1, <2>2
<1>7. ASSUME NEW s \in Passes, Settling(s) PROVE ProposalStands(p)
  <2>1. \/ proposal' = proposal
        \/ \E q \in Proposals : Expire(s, q) \/ PassProposal(s, q)
    BY <1>7 DEF Settling, StartPass, GiveUp, EndPass, ReadBar, CountBallots, Commit,
                RecordCommit
  <2> QED
    BY <1>1, <1>2, <2>1
<1>8. CASE Answering
  <2>1. proposal' = proposal \/ CloseAnswered
    BY <1>8 DEF Answering, AskAnswer, LoadProposal, Weigh, Apply, RecordAnswer, EndAnswer
  <2> QED
    BY <1>1, <1>3, <2>1
<1>9. CASE Voting
  <2>1. \/ proposal' = proposal
        \/ \E q \in Proposals, scope \in Scopes, mode \in Modes : CheckProposal(q, scope, mode)
        \/ \E q \in Proposals : OpenProposal(q) \/ WindowEnds(q)
    BY <1>9 DEF Voting, CheckBallot, CastBallot
  <2> QED
    BY <1>1, <1>4, <1>5, <1>6, <2>1
<1>10. CASE Setting \/ UNCHANGED retentionVars
  BY <1>1, <1>10 DEF Setting, SetPolicy, SetSource, ClearSource, retentionVars
<1> QED
  BY <1>7, <1>8, <1>9, <1>10 DEF RetentionNext

(* Only records are added; and a proposal that carried has carried. *)
LEMMA HistoryGrows ==
  ASSUME [RetentionNext]_retentionVars
  PROVE  changes \subseteq changes' /\ carried \subseteq carried'
<1>1. ASSUME NEW s \in Passes, Settling(s) PROVE changes \subseteq changes' /\ carried = carried'
  BY <1>1 DEF Settling, StartPass, GiveUp, EndPass, ReadBar, CountBallots, Commit, RecordCommit,
              Expire, PassProposal, Record, votes
<1>2. CASE Answering
  BY <1>2 DEF Answering, AskAnswer, LoadProposal, Weigh, Apply, RecordAnswer, EndAnswer,
              CloseAnswered, Record, votes
<1>3. CASE Voting
  BY <1>3 DEF Voting, CheckProposal, OpenProposal, WindowEnds, CheckBallot, CastBallot, votes
<1>4. CASE Setting \/ UNCHANGED retentionVars
  BY <1>4 DEF Setting, SetPolicy, SetSource, ClearSource, retentionVars, votes
<1> QED
  BY <1>1, <1>2, <1>3, <1>4 DEF RetentionNext

-----------------------------------------------------------------------------
(* A pass works on posted proposals whose window is over, and writes for the  *)
(* carried ones.                                                            *)
PassInv(s) ==
  /\ \A p \in settler[s].todo \cup settler[s].at : Posted(p) /\ proposal[p].over
  /\ \A p, q \in settler[s].at : p = q
  /\ settler[s].stage \in {"writing", "recording", "closing"} => settler[s].at \subseteq carried
  /\ settler[s].stage = "closing" => \A p \in settler[s].at : Backed(p)

(* The operator accepts what the readers proposed, and closes it after the    *)
(* record.                                                                  *)
AnswerInv ==
  answer # NoAnswer =>
    /\ Posted(answer.of)
    /\ answer.act # "override" => answer.mode = proposal[answer.of].mode
    /\ answer.stage = "closing" /\ answer.act = "accept" => OnRecord(answer.of, answer.mode)

SupportedCarried ==
  \A p \in Proposals : Cardinality(supporters[p]) >= MinimumQuorum => p \in carried

ChangesPosted == \A c \in changes : Posted(c.of)

RetentionInv ==
  /\ RetentionRecords
  /\ ChangesPosted
  /\ SupportedCarried
  /\ \A s \in Passes : PassInv(s)
  /\ AnswerInv
  /\ PassedWasApplied
  /\ CommitsWereCarried

(* Whatever the bar, who reaches it has the minimum. *)
LEMMA ReachedIsCarried ==
  ASSUME RetentionRecords, SupportedCarried, NEW p \in Proposals, NEW widens \in BOOLEAN,
         Reached(p, widens)
  PROVE  p \in carried
<1>1. IsFiniteSet(supporters[p])
  BY RetentionAssumption, FS_Subset DEF RetentionRecords, RetentionTypeOK
<1>2. Cardinality(supporters[p]) \in Nat
  BY <1>1, FS_CardinalityType
<1>3. MinimumQuorum \in Nat /\ WidenQuorum \in Nat
  BY RetentionAssumption
<1>4. Cardinality(supporters[p]) >= MinimumQuorum
  BY <1>2, <1>3 DEF Reached, Quorum
<1> QED
  BY <1>4 DEF SupportedCarried

(* A pass, or an answer, that does nothing is not disturbed by the others. *)
LEMMA PassUndisturbed ==
  ASSUME RetentionInv, [RetentionNext]_retentionVars, NEW s \in Passes, settler'[s] = settler[s]
  PROVE  PassInv(s)'
<1>1. \A p \in settler[s].todo \cup settler[s].at : p \in Proposals /\ Posted(p) /\ proposal[p].over
  BY DEF RetentionInv, RetentionRecords, RetentionTypeOK, PassInv
<1>2. \A p \in settler[s].todo \cup settler[s].at : ProposalStands(p)
  BY <1>1, ProposalsStand DEF RetentionInv
<1>3. \A p \in settler[s].todo \cup settler[s].at :
        Posted(p)' /\ proposal'[p].over /\ proposal'[p].mode = proposal[p].mode
  BY <1>1, <1>2 DEF ProposalStands
<1>4. PassInv(s)
  BY DEF RetentionInv
<1> QED
  BY <1>3, <1>4, HistoryGrows DEF PassInv, Backed, OnRecord

LEMMA AnswerUndisturbed ==
  ASSUME RetentionInv, [RetentionNext]_retentionVars, answer' = answer
  PROVE  AnswerInv'
<1> SUFFICES ASSUME answer # NoAnswer PROVE AnswerInv'
  BY DEF AnswerInv, NoAnswer
<1>1. answer.of \in Proposals /\ Posted(answer.of)
  BY DEF RetentionInv, RetentionRecords, AnswerRecord, AnswerInv
<1>2. ProposalStands(answer.of)
  BY <1>1, ProposalsStand DEF RetentionInv
<1>3. AnswerInv
  BY DEF RetentionInv
<1> QED
  BY <1>2, <1>3, HistoryGrows DEF AnswerInv, ProposalStands, Backed, OnRecord

(* The records made before the step. *)
LEMMA RecordsStand ==
  ASSUME RetentionInv, [RetentionNext]_retentionVars
  PROVE  /\ \A c \in changes : proposal'[c.of].state \in Decided \cup {"open"}
         /\ \A c \in changes : c.by = "instance" => c.of \in carried' /\ proposal'[c.of].over
         /\ \A p \in Proposals : proposal[p].state = "passed" => Backed(p)'
<1>1. \A c \in changes : c.of \in Proposals /\ Posted(c.of)
  BY DEF RetentionInv, RetentionRecords, RetentionTypeOK, ChangesPosted
<1>2. \A c \in changes : ProposalStands(c.of)
  BY <1>1, ProposalsStand DEF RetentionInv
<1>3. \A p \in Proposals : proposal[p].state = "passed" => ProposalStands(p)
  BY ProposalsStand DEF RetentionInv, Posted, Decided
<1>4. CommitsWereCarried /\ PassedWasApplied
  BY DEF RetentionInv
<1>5. /\ \A c \in changes : proposal'[c.of].state \in Decided \cup {"open"}
      /\ \A c \in changes : c.by = "instance" => c.of \in carried' /\ proposal'[c.of].over
  BY <1>2, <1>4, HistoryGrows DEF ProposalStands, Posted, CommitsWereCarried
<1>6. \A p \in Proposals : proposal[p].state = "passed" => Backed(p)'
  BY <1>3, <1>4, HistoryGrows DEF ProposalStands, PassedWasApplied, Backed, OnRecord
<1> QED
  BY <1>5, <1>6

(* A step that adds no record and passes no proposal keeps what they say. *)
LEMMA Quiet ==
  ASSUME RetentionInv, [RetentionNext]_retentionVars, changes' = changes,
         \A p \in Proposals : proposal'[p].state = "passed" => proposal[p].state = "passed"
  PROVE  ChangesPosted' /\ CommitsWereCarried' /\ PassedWasApplied'
<1>1. ChangesPosted'
  BY RecordsStand DEF ChangesPosted, Posted
<1>2. CommitsWereCarried'
  BY RecordsStand DEF CommitsWereCarried
<1>3. PassedWasApplied'
  BY RecordsStand DEF PassedWasApplied, Backed, OnRecord
<1> QED
  BY <1>1, <1>2, <1>3

(* Where To and Leave bring a pass. *)
LEMMA Moved ==
  ASSUME RetentionRecords, NEW s \in Passes
  PROVE  /\ \A stage \in {"expiring", "writing", "recording", "closing"} : To(s, stage) =>
              /\ settler'[s].stage = stage
              /\ settler'[s].todo = settler[s].todo /\ settler'[s].at = settler[s].at
         /\ Leave(s) => /\ settler'[s].stage = "next" /\ settler'[s].at = {}
                        /\ settler'[s].todo = settler[s].todo
<1>1. settler \in [Passes -> SettlingRecord]
  BY DEF RetentionRecords, RetentionTypeOK, SettlingRecord
<1>2. ASSUME NEW stage, To(s, stage)
      PROVE /\ settler'[s].stage = stage
            /\ settler'[s].todo = settler[s].todo /\ settler'[s].at = settler[s].at
  BY <1>1, <1>2 DEF To, SettlingRecord
<1>3. ASSUME Leave(s)
      PROVE  /\ settler'[s].stage = "next" /\ settler'[s].at = {}
             /\ settler'[s].todo = settler[s].todo
  BY <1>1, <1>3 DEF Leave, SettlingRecord
<1> QED
  BY <1>2, <1>3

LEMMA SettlingKeepsInv == ASSUME RetentionInv, NEW s \in Passes, Settling(s) PROVE RetentionInv'
<1> DEFINE Told == ChangesPosted' /\ CommitsWereCarried' /\ PassedWasApplied'
<1>1. [RetentionNext]_retentionVars
  BY DEF RetentionNext
<1>2. RetentionRecords /\ RetentionRecords'
  BY <1>1, RecordsStep DEF RetentionInv
<1>3. UNCHANGED <<votes, answer>>
  BY DEF Settling, StartPass, GiveUp, EndPass, ReadBar, CountBallots, Commit, RecordCommit,
         Expire, PassProposal
<1>4. AnswerInv' /\ SupportedCarried'
  BY <1>1, <1>3, AnswerUndisturbed DEF RetentionInv, SupportedCarried, votes
<1>5. \A l \in Passes : l # s => settler'[l] = settler[l]
  BY <1>2 DEF Settling, StartPass, GiveUp, EndPass, ReadBar, CountBallots, Commit, RecordCommit,
              Expire, PassProposal, To, Leave, RetentionRecords, RetentionTypeOK
<1>6. \A l \in Passes : l # s => PassInv(l)'
  BY <1>1, <1>5, PassUndisturbed
<1> SUFFICES PassInv(s)' /\ Told
  BY <1>2, <1>4, <1>6 DEF RetentionInv
<1> HIDE DEF Told
<1>7. PassInv(s)
  BY DEF RetentionInv
<1>8. \A p \in Proposals : p \in settler[s].todo \cup settler[s].at =>
        /\ Posted(p)' /\ proposal'[p].over /\ proposal'[p].mode = proposal[p].mode
  BY <1>1, <1>2, <1>7, ProposalsStand DEF PassInv, ProposalStands
<1>9. settler[s].todo \subseteq Proposals /\ settler[s].at \subseteq Proposals /\ settler[s].widens \in BOOLEAN
  BY <1>2 DEF RetentionRecords, RetentionTypeOK
<1>10. CASE StartPass(s)
  <2>1. /\ settler'[s].stage = "next" /\ settler'[s].todo = Overdue /\ settler'[s].at = {}
        /\ proposal' = proposal /\ changes' = changes
    BY <1>2, <1>10 DEF StartPass, NoSettling, RetentionRecords, RetentionTypeOK
  <2>2. PassInv(s)'
    BY <2>1 DEF PassInv, Overdue, Posted
  <2>3. Told
    BY <1>1, <2>1, Quiet DEF Told
  <2> QED
    BY <2>2, <2>3
<1>11. CASE GiveUp(s) \/ EndPass(s)
  <2>1. /\ settler'[s].stage \in {"next", "idle"} /\ settler'[s].todo \subseteq settler[s].todo
        /\ settler'[s].at = {} /\ proposal' = proposal /\ changes' = changes
    <3>1. CASE GiveUp(s)
      BY <1>2, <3>1, Moved DEF GiveUp
    <3>2. CASE EndPass(s)
      BY <1>2, <3>2 DEF EndPass, NoSettling, RetentionRecords, RetentionTypeOK
    <3> QED
      BY <1>11, <3>1, <3>2
  <2>2. PassInv(s)'
    BY <1>7, <2>1 DEF PassInv, Posted
  <2>3. Told
    BY <1>1, <2>1, Quiet DEF Told
  <2> QED
    BY <2>2, <2>3
<1>12. ASSUME NEW p \in Proposals, ReadBar(s, p) PROVE PassInv(s)' /\ Told
  <2>1. /\ settler'[s].stage = "counting" /\ settler'[s].todo \subseteq settler[s].todo
        /\ settler'[s].at = {p} /\ proposal' = proposal /\ changes' = changes
        /\ p \in settler[s].todo
    BY <1>2, <1>12 DEF ReadBar, RetentionRecords, RetentionTypeOK
  <2>2. PassInv(s)'
    BY <1>7, <2>1 DEF PassInv, Posted
  <2>3. Told
    BY <1>1, <2>1, Quiet DEF Told
  <2> QED
    BY <2>2, <2>3
<1>13. ASSUME NEW p \in Proposals, CountBallots(s, p) PROVE PassInv(s)' /\ Told
  <2>1. /\ settler'[s].todo = settler[s].todo /\ proposal' = proposal /\ changes' = changes
        /\ \/ settler'[s].at = settler[s].at /\ settler'[s].stage = "expiring"
           \/ /\ settler'[s].at = settler[s].at /\ settler'[s].stage = "writing"
              /\ Reached(p, settler[s].widens) /\ p \in settler[s].at
           \/ settler'[s].at = {} /\ settler'[s].stage = "next"
    BY <1>2, <1>13, Moved DEF CountBallots, Turn
  <2>2. Reached(p, settler[s].widens) => p \in carried
    BY <1>2, <1>9, ReachedIsCarried DEF RetentionInv
  <2>3. carried' = carried
    BY <1>3 DEF votes
  <2>4. PassInv(s)'
    BY <1>7, <2>1, <2>2, <2>3 DEF PassInv, Posted
  <2>5. Told
    BY <1>1, <2>1, Quiet DEF Told
  <2> QED
    BY <2>4, <2>5
<1>14. ASSUME NEW p \in Proposals, Expire(s, p) PROVE PassInv(s)' /\ Told
  <2>1. /\ settler'[s].todo = settler[s].todo /\ settler'[s].at = {} /\ settler'[s].stage = "next"
        /\ changes' = changes
    BY <1>2, <1>14 DEF Expire, Leave, RetentionRecords, RetentionTypeOK
  <2>2. PassInv(s)'
    BY <1>8, <1>9, <2>1 DEF PassInv
  <2>3. \A q \in Proposals : proposal'[q].state = "passed" => proposal[q].state = "passed"
    BY <1>2, <1>14 DEF Expire, Close, RetentionRecords, RetentionTypeOK
  <2>4. Told
    BY <1>1, <2>1, <2>3, Quiet DEF Told
  <2> QED
    BY <2>2, <2>4
<1>15. ASSUME NEW p \in Proposals, Commit(s, p) PROVE PassInv(s)' /\ Told
  <2>1. /\ settler'[s].todo = settler[s].todo /\ settler'[s].at = settler[s].at
        /\ settler[s].stage = "writing" /\ settler'[s].stage = "recording"
        /\ proposal' = proposal /\ changes' = changes
    BY <1>2, <1>15 DEF Commit, To, RetentionRecords, RetentionTypeOK
  <2>2. carried' = carried
    BY <1>3 DEF votes
  <2>3. PassInv(s)'
    BY <1>7, <2>1, <2>2 DEF PassInv, Posted
  <2>4. Told
    BY <1>1, <2>1, Quiet DEF Told
  <2> QED
    BY <2>3, <2>4
<1>16. ASSUME NEW p \in Proposals, RecordCommit(s, p) PROVE PassInv(s)' /\ Told
  <2> DEFINE c == [of |-> p, by |-> "instance", to |-> proposal[p].mode, set |-> proposal[p].mode]
  <2>1. /\ settler'[s].todo = settler[s].todo /\ settler'[s].at = settler[s].at
        /\ settler[s].stage = "recording" /\ settler'[s].stage = "closing"
        /\ proposal' = proposal /\ changes' = changes \cup {c} /\ p \in settler[s].at
    BY <1>2, <1>16, Moved DEF RecordCommit, Record, Turn
  <2> HIDE DEF c
  <2>8. c.of = p /\ c.to = proposal[p].mode
    BY DEF c
  <2>2. carried' = carried
    BY <1>3 DEF votes
  <2>3. p \in carried /\ Posted(p)' /\ proposal'[p].over
    BY <1>7, <1>8, <2>1 DEF PassInv
  <2>4. Backed(p)'
    BY <2>1, <2>8 DEF Backed, OnRecord
  <2>5. PassInv(s)'
    BY <1>7, <2>1, <2>2, <2>4 DEF PassInv, Posted
  <2>6. ChangesPosted' /\ CommitsWereCarried'
    BY <1>1, <2>1, <2>2, <2>3, <2>8, RecordsStand DEF ChangesPosted, CommitsWereCarried, Posted
  <2>7. PassedWasApplied'
    BY <1>1, <2>1, RecordsStand DEF PassedWasApplied, Backed, OnRecord
  <2> QED
    BY <2>5, <2>6, <2>7 DEF Told
<1>17. ASSUME NEW p \in Proposals, PassProposal(s, p) PROVE PassInv(s)' /\ Told
  <2>1. /\ settler'[s].todo = settler[s].todo /\ settler'[s].at = {} /\ settler'[s].stage = "next"
        /\ changes' = changes /\ p \in settler[s].at /\ settler[s].stage = "closing"
    BY <1>2, <1>17 DEF PassProposal, Leave, Turn, RetentionRecords, RetentionTypeOK
  <2>2. PassInv(s)'
    BY <1>8, <1>9, <2>1 DEF PassInv
  <2>3. Backed(p)'
    BY <1>7, <1>8, <2>1 DEF PassInv, Backed, OnRecord
  <2>4. \A q \in Proposals : q # p => proposal'[q] = proposal[q]
    BY <1>2, <1>17 DEF PassProposal, Close, RetentionRecords, RetentionTypeOK
  <2>5. PassedWasApplied'
    BY <1>1, <2>3, <2>4, RecordsStand DEF PassedWasApplied, Backed, OnRecord
  <2>6. ChangesPosted' /\ CommitsWereCarried'
    BY <1>1, <2>1, RecordsStand DEF ChangesPosted, CommitsWereCarried, Posted
  <2> QED
    BY <2>2, <2>5, <2>6 DEF Told
<1> QED
  BY <1>10, <1>11, <1>12, <1>13, <1>14, <1>15, <1>16, <1>17 DEF Settling

LEMMA AnsweringKeepsInv == RetentionInv /\ Answering => RetentionInv'
<1> SUFFICES ASSUME RetentionInv, Answering PROVE RetentionInv'
  OBVIOUS
<1> DEFINE Told == ChangesPosted' /\ CommitsWereCarried' /\ PassedWasApplied'
<1>1. [RetentionNext]_retentionVars
  BY DEF RetentionNext
<1>2. RetentionRecords /\ RetentionRecords'
  BY <1>1, RecordsStep DEF RetentionInv
<1>3. UNCHANGED <<votes, settler>>
  BY DEF Answering, AskAnswer, LoadProposal, Weigh, Apply, RecordAnswer, EndAnswer,
         CloseAnswered
<1>4. SupportedCarried' /\ \A s \in Passes : PassInv(s)'
  BY <1>1, <1>3, PassUndisturbed DEF RetentionInv, SupportedCarried, votes
<1> SUFFICES AnswerInv' /\ Told
  BY <1>2, <1>4 DEF RetentionInv
<1> HIDE DEF Told
<1>5. AnswerInv
  BY DEF RetentionInv
<1>6. ASSUME answer # NoAnswer
      PROVE /\ answer \in AnswerRecord /\ answer.of \in Proposals
            /\ Posted(answer.of)' /\ proposal'[answer.of].mode = proposal[answer.of].mode
  <2>1. answer \in AnswerRecord /\ answer.of \in Proposals
    BY <1>2, <1>6 DEF RetentionRecords, AnswerRecord
  <2>2. ProposalStands(answer.of)
    BY <1>1, <1>2, <1>5, <1>6, <2>1, ProposalsStand DEF AnswerInv
  <2> QED
    BY <2>1, <2>2 DEF ProposalStands
<1>7. ASSUME NEW p \in Proposals, NEW act \in {"accept", "decline", "override"}, NEW mode \in Modes,
             AskAnswer(p, act, mode)
      PROVE AnswerInv' /\ Told
  <2>1. /\ answer'.of = p /\ answer'.act = act /\ answer'.mode = mode /\ answer'.stage = "sent"
        /\ act # "override" => mode = proposal[p].mode
        /\ Posted(p) /\ proposal' = proposal /\ changes' = changes
    BY <1>7 DEF AskAnswer, Posted
  <2>2. Told
    BY <1>1, <2>1, Quiet DEF Told
  <2> QED
    BY <2>1, <2>2 DEF AnswerInv, Posted
<1>8. CASE LoadProposal \/ Weigh \/ Apply
  <2>1. answer # NoAnswer
    BY <1>8 DEF LoadProposal, Weigh, Apply, NoAnswer
  <2>2. /\ answer'.of = answer.of /\ answer'.act = answer.act /\ answer'.mode = answer.mode
        /\ answer'.stage = "closing" => answer'.act # "accept"
    BY <1>6, <1>8, <2>1 DEF LoadProposal, Weigh, Apply, AnswerRecord
  <2>3. proposal' = proposal /\ changes' = changes
    BY <1>8 DEF LoadProposal, Weigh, Apply
  <2>4. AnswerInv'
    BY <1>5, <1>6, <2>1, <2>2, <2>3 DEF AnswerInv
  <2>5. Told
    BY <1>1, <2>3, Quiet DEF Told
  <2> QED
    BY <2>4, <2>5
<1>9. CASE RecordAnswer
  <2> DEFINE c == [of |-> answer.of, by |-> "operator", to |-> answer.mode,
                   set |-> SetByOperator(answer.of)]
  <2>1. answer # NoAnswer
    BY <1>9 DEF RecordAnswer, NoAnswer
  <2>2. /\ answer'.of = answer.of /\ answer'.act = answer.act /\ answer'.mode = answer.mode
        /\ proposal' = proposal /\ changes' = changes \cup {c}
    BY <1>6, <1>9, <2>1 DEF RecordAnswer, Record, AnswerRecord
  <2> HIDE DEF c
  <2>3. c.of = answer.of /\ c.to = answer.mode /\ c.by = "operator"
    BY DEF c
  <2>4. AnswerInv'
    BY <1>5, <1>6, <2>1, <2>2, <2>3 DEF AnswerInv, Backed, OnRecord
  <2>5. ChangesPosted' /\ CommitsWereCarried'
    BY <1>1, <1>6, <2>1, <2>2, <2>3, RecordsStand DEF ChangesPosted, CommitsWereCarried, Posted
  <2>6. PassedWasApplied'
    BY <1>1, <2>2, RecordsStand DEF PassedWasApplied, Backed, OnRecord
  <2> QED
    BY <2>4, <2>5, <2>6 DEF Told
<1>10. CASE CloseAnswered
  <2>1. answer # NoAnswer /\ answer' = NoAnswer /\ changes' = changes /\ answer.stage = "closing"
    BY <1>10 DEF CloseAnswered, NoAnswer
  <2>2. AnswerInv'
    BY <2>1 DEF AnswerInv
  <2>3. \A q \in Proposals : proposal'[q].state = "passed" =>
          proposal[q].state = "passed" \/ (q = answer.of /\ answer.act = "accept")
    <3>1. \/ proposal' = proposal
          \/ Close(answer.of, "passed") /\ answer.act = "accept"
          \/ Close(answer.of, "overridden")
      BY <1>10 DEF CloseAnswered
    <3>2. RetentionTypeOK /\ answer.of \in Proposals /\ {"passed", "overridden"} \subseteq Decided
      BY <1>2, <1>6, <2>1 DEF RetentionRecords, Decided
    <3>3. Close(answer.of, "overridden") => \A q \in Proposals :
            proposal'[q] = proposal[q] \/ (q = answer.of /\ proposal'[q].state = "overridden")
      BY <3>2, ClosedAs
    <3>4. Close(answer.of, "passed") => \A q \in Proposals :
            proposal'[q] = proposal[q] \/ (q = answer.of /\ proposal'[q].state = "passed")
      BY <3>2, ClosedAs
    <3> QED
      BY <3>1, <3>3, <3>4
  <2>4. answer.act = "accept" => \E c \in changes' : c.of = answer.of /\ c.to = proposal'[answer.of].mode
    BY <1>5, <1>6, <2>1 DEF AnswerInv, Backed, OnRecord
  <2>5. PassedWasApplied'
    BY <1>1, <2>3, <2>4, RecordsStand DEF PassedWasApplied, Backed, OnRecord
  <2>6. ChangesPosted' /\ CommitsWereCarried'
    BY <1>1, <2>1, RecordsStand DEF ChangesPosted, CommitsWereCarried, Posted
  <2> QED
    BY <2>2, <2>5, <2>6 DEF Told
<1>11. CASE EndAnswer
  <2>1. answer' = NoAnswer /\ proposal' = proposal /\ changes' = changes
    BY <1>11 DEF EndAnswer
  <2> QED
    BY <1>1, <2>1, Quiet DEF Told, AnswerInv
<1> QED
  BY <1>7, <1>8, <1>9, <1>10, <1>11 DEF Answering

LEMMA VotingKeepsInv == RetentionInv /\ (Voting \/ Setting) => RetentionInv'
<1> SUFFICES ASSUME RetentionInv, Voting \/ Setting PROVE RetentionInv'
  OBVIOUS
<1>1. [RetentionNext]_retentionVars
  BY DEF RetentionNext
<1>2. RetentionRecords /\ RetentionRecords'
  BY <1>1, RecordsStep DEF RetentionInv
<1>3. UNCHANGED <<changes, settler, answer>>
  BY DEF Voting, Setting, CheckProposal, OpenProposal, WindowEnds, CheckBallot, CastBallot,
         SetPolicy, SetSource, ClearSource
<1>4. AnswerInv' /\ \A s \in Passes : PassInv(s)'
  BY <1>1, <1>3, PassUndisturbed, AnswerUndisturbed
<1>5. SupportedCarried'
  <2>1. CASE CastBallot
    BY <2>1 DEF CastBallot, SupportedCarried
  <2>2. CASE supporters' = supporters /\ carried' = carried
    BY <2>2 DEF SupportedCarried, RetentionInv
  <2> QED
    BY <2>1, <2>2 DEF Voting, Setting, CheckProposal, OpenProposal, WindowEnds, CheckBallot,
                      SetPolicy, SetSource, ClearSource, votes
<1>6. \A q \in Proposals : proposal'[q].state = "passed" => proposal[q].state = "passed"
  BY <1>2 DEF Voting, Setting, CheckProposal, OpenProposal, WindowEnds, CheckBallot, CastBallot,
              SetPolicy, SetSource, ClearSource, RetentionRecords, RetentionTypeOK
<1> QED
  BY <1>1, <1>2, <1>3, <1>4, <1>5, <1>6, Quiet DEF RetentionInv

LEMMA RetentionInitially == RetentionInit => RetentionInv
<1> SUFFICES ASSUME RetentionInit PROVE RetentionInv
  OBVIOUS
<1>1. RetentionRecords
  BY DEF RetentionInit, RetentionRecords, RetentionTypeOK, NoProposal, NoSettling, NoBallot,
         NoAnswer, Modes, Scopes, Decided
<1>2. SupportedCarried
  <2>1. Cardinality({}) = 0
    BY FS_EmptySet
  <2>2. MinimumQuorum \in Nat \ {0}
    BY RetentionAssumption
  <2> QED
    BY <2>1, <2>2 DEF RetentionInit, SupportedCarried
<1>3. \A s \in Passes : PassInv(s)
  BY DEF RetentionInit, PassInv, NoSettling
<1>4. ChangesPosted /\ CommitsWereCarried /\ AnswerInv /\ PassedWasApplied
  BY DEF RetentionInit, ChangesPosted, CommitsWereCarried, AnswerInv, PassedWasApplied,
         NoProposal
<1> QED
  BY <1>1, <1>2, <1>3, <1>4 DEF RetentionInv

LEMMA RetentionKeepsInv == RetentionInv /\ [RetentionNext]_retentionVars => RetentionInv'
<1>1. RetentionInv /\ UNCHANGED retentionVars => RetentionInv'
  BY DEF RetentionInv, RetentionRecords, RetentionTypeOK, retentionVars, ChangesPosted,
         SupportedCarried, PassInv, AnswerInv, PassedWasApplied, CommitsWereCarried,
         Posted, Backed, OnRecord
<1> QED
  BY <1>1, SettlingKeepsInv, AnsweringKeepsInv, VotingKeepsInv DEF RetentionNext

(* The records are whole: settings, proposals, ballots, changes, passes and   *)
(* requests have their types.                                               *)
THEOREM RetentionTyped == RetentionSpec => []RetentionTypeOK
<1>1. RetentionInv => RetentionTypeOK
  BY DEF RetentionInv, RetentionRecords
<1> QED
  BY RetentionInitially, RetentionKeepsInv, <1>1, PTL DEF RetentionSpec

(* A proposal whose row says it passed had its setting written, for any        *)
(* number of proposals, readers and passes.                                 *)
THEOREM PassedMeansApplied == RetentionSpec => []PassedWasApplied
<1>1. RetentionInv => PassedWasApplied
  BY DEF RetentionInv
<1> QED
  BY RetentionInitially, RetentionKeepsInv, <1>1, PTL DEF RetentionSpec

(* What the instance changed in its own name had its readers and its window,   *)
(* whatever the quorum.                                                     *)
THEOREM ChangesHadReaders == RetentionSpec => []CommitsWereCarried
<1>1. RetentionInv => CommitsWereCarried
  BY DEF RetentionInv
<1> QED
  BY RetentionInitially, RetentionKeepsInv, <1>1, PTL DEF RetentionSpec

(* Two passes and the operator close the same proposal: the first decision    *)
(* stays, but for an override of one that passed.                           *)
THEOREM DecisionsStay == RetentionSpec => DecidedStaysDecided
<1> DEFINE Stays == \A p \in Proposals : proposal[p].state \in Decided =>
       \/ proposal'[p].state = proposal[p].state
       \/ proposal[p].state = "passed" /\ proposal'[p].state = "overridden"
<1>1. RetentionInv /\ [RetentionNext]_retentionVars => [Stays]_retentionVars
  BY ProposalsStand DEF RetentionInv, ProposalStands, Posted
<1> QED
  BY RetentionInitially, RetentionKeepsInv, <1>1, PTL DEF RetentionSpec, DecidedStaysDecided

-----------------------------------------------------------------------------
(* A reader's copy of a text: requests and fetches that come late. *)

LEMMA CopyTypeInit == CopyInit => CopyTypeOK
  BY DEF CopyInit, CopyTypeOK, NoCopy, NoWish, NoFetch

LEMMA CopyTypeStep == CopyTypeOK /\ [CopyNext]_copyVars => CopyTypeOK'
<1> SUFFICES ASSUME CopyTypeOK, [CopyNext]_copyVars PROVE CopyTypeOK'
  OBVIOUS
<1> USE DEF CopyTypeOK, NoWish, NoFetch
<1>1. ASSUME NEW t \in CopyTabs, NEW s \in Origins, Ask(t, s) PROVE CopyTypeOK'
  BY <1>1 DEF Ask
<1>2. ASSUME NEW t \in CopyTabs, WriteRequest(t) PROVE CopyTypeOK'
  <2>1. copy' \in [state : {"none", "pending", "ready", "refused", "failed"},
                   source : Origins \cup {NoOrigin}, text : Origins \cup {NoOrigin}]
    BY <1>2 DEF WriteRequest, Asked
  <2> QED
    BY <1>2, <2>1 DEF WriteRequest
<1>3. ASSUME NEW t \in CopyTabs, ReadBack(t) \/ EnqueueFetch(t) \/ WishEnds(t) PROVE CopyTypeOK'
  BY <1>3 DEF ReadBack, EnqueueFetch, WishEnds
<1>4. ASSUME NEW w \in Fetchers, NEW j \in FetchJobs, TakeFetch(w, j) PROVE CopyTypeOK'
  BY <1>4 DEF TakeFetch
<1>5. ASSUME NEW w \in Fetchers, FindCopy(w) PROVE CopyTypeOK'
  BY <1>5 DEF FindCopy
<1>6. ASSUME NEW w \in Fetchers, SettleReady(w) \/ SettleRefused(w) \/ SettleFailed(w)
      PROVE  CopyTypeOK'
  <2>1. copy' \in [state : {"none", "pending", "ready", "refused", "failed"},
                   source : Origins \cup {NoOrigin}, text : Origins \cup {NoOrigin}]
    BY <1>6 DEF SettleReady, SettleRefused, SettleFailed, Settled
  <2>2. wish' = wish /\ \E a \in {"ok", "transient"} : FetchOn(w, a)
    BY <1>6 DEF SettleReady, SettleRefused, SettleFailed
  <2> QED
    BY <2>1, <2>2 DEF FetchOn
<1>7. ASSUME NEW w \in Fetchers, FetchBreaks(w) PROVE CopyTypeOK'
  BY <1>7 DEF FetchBreaks, FetchOn
<1>8. ASSUME NEW w \in Fetchers, SettleFetch(w) \/ KillFetcher(w) PROVE CopyTypeOK'
  BY <1>8 DEF SettleFetch, KillFetcher
<1>9. CASE FetchRowMoves \/ UNCHANGED copyVars
  BY <1>9 DEF FetchRowMoves, copyVars
<1> QED
  BY <1>1, <1>2, <1>3, <1>4, <1>5, <1>6, <1>7, <1>8, <1>9 DEF CopyNext

(* A copy's row, its requests and its fetches keep their ranges.              *)
THEOREM CopiesTyped == CopySpec => []CopyTypeOK
  BY CopyTypeInit, CopyTypeStep, PTL DEF CopySpec

(* A text a reader has stays with them as it was fetched: no second request   *)
(* and no late worker takes it away (request_copy, settle_ready,              *)
(* settle_refused, settle_failed).                                            *)
THEOREM BodiesStay == CopySpec => FetchedBodyStays
<1> DEFINE Stays == copy.state = "ready" => copy'.state = "ready" /\ copy'.text = copy.text
<1>1. CopyTypeOK /\ CopyNext => Stays
  <2> SUFFICES ASSUME CopyTypeOK, CopyNext PROVE Stays
    OBVIOUS
  <2>1. ASSUME NEW t \in CopyTabs, WriteRequest(t) PROVE Stays
    BY <2>1 DEF WriteRequest, Asked, CopyTypeOK
  <2>2. ASSUME NEW w \in Fetchers, SettleReady(w) \/ SettleRefused(w) \/ SettleFailed(w)
        PROVE  Stays
    BY <2>2 DEF SettleReady, SettleRefused, SettleFailed, Settled
  <2>3. CASE UNCHANGED copy
    BY <2>3
  <2> QED
    BY <2>1, <2>2, <2>3
    DEF CopyNext, Ask, ReadBack, EnqueueFetch, WishEnds, TakeFetch, FindCopy, FetchBreaks,
        SettleFetch, KillFetcher, FetchRowMoves
<1>2. CopyTypeOK /\ [CopyNext]_copyVars => [Stays]_copyVars
  BY <1>1
<1> QED
  BY <1>2, CopyTypeInit, CopyTypeStep, PTL DEF CopySpec, FetchedBodyStays

(* A worker with a job in hand knows which. *)
FetcherInv == \A w \in Fetchers : fetcher[w].at # "idle" => fetcher[w].job \in FetchJobs

LEMMA FetcherInvStep == CopyTypeOK /\ FetcherInv /\ [CopyNext]_copyVars => FetcherInv'
<1> SUFFICES ASSUME CopyTypeOK, FetcherInv, [CopyNext]_copyVars PROVE FetcherInv'
  OBVIOUS
<1> USE DEF CopyTypeOK, FetcherInv
<1>1. ASSUME NEW w \in Fetchers, NEW j \in FetchJobs, TakeFetch(w, j) PROVE FetcherInv'
  BY <1>1 DEF TakeFetch
<1>2. ASSUME NEW w \in Fetchers,
             SettleReady(w) \/ SettleRefused(w) \/ SettleFailed(w) \/ FetchBreaks(w)
      PROVE  FetcherInv'
  BY <1>2 DEF SettleReady, SettleRefused, SettleFailed, FetchBreaks, FetchOn
<1>3. ASSUME NEW w \in Fetchers, FindCopy(w) PROVE FetcherInv'
  BY <1>3 DEF FindCopy
<1>4. ASSUME NEW w \in Fetchers, SettleFetch(w) \/ KillFetcher(w) PROVE FetcherInv'
  BY <1>4 DEF SettleFetch, KillFetcher, NoFetch
<1>5. CASE UNCHANGED fetcher
  BY <1>5
<1> QED
  BY <1>1, <1>2, <1>3, <1>4, <1>5
  DEF CopyNext, Ask, WriteRequest, ReadBack, EnqueueFetch, WishEnds, FetchRowMoves, copyVars

(* The queue rows that fetch a copy live the life that JobQueue implements.   *)
THEOREM CopyImplementsJobLife == CopySpec => Fetching!Spec
<1>1. CopyInit => Fetching!Init /\ CopyTypeOK /\ FetcherInv
  BY CopyTypeInit DEF CopyInit, FetcherInv, NoFetch
<1>2. FetcherInv /\ CopyNext => [Fetching!Next]_(Fetching!vars)
  <2> SUFFICES ASSUME FetcherInv, CopyNext PROVE [Fetching!Next]_(Fetching!vars)
    OBVIOUS
  <2> USE DEF Fetching!vars, fetchRows
  <2>1. ASSUME NEW t \in CopyTabs, EnqueueFetch(t) PROVE [Fetching!Next]_(Fetching!vars)
    BY <2>1 DEF EnqueueFetch, Fetching!Next
  <2>2. ASSUME NEW w \in Fetchers, NEW j \in FetchJobs, TakeFetch(w, j)
        PROVE  [Fetching!Next]_(Fetching!vars)
    BY <2>2 DEF TakeFetch, Fetching!Next
  <2>3. ASSUME NEW w \in Fetchers, SettleFetch(w) PROVE [Fetching!Next]_(Fetching!vars)
    <3>1. fetcher[w].job \in FetchJobs
      BY <2>3 DEF SettleFetch, FetcherInv
    <3> QED
      BY <2>3, <3>1 DEF SettleFetch, Fetching!Next
  <2>4. CASE FetchRowMoves
    BY <2>4 DEF FetchRowMoves, Fetching!Next
  <2>5. CASE UNCHANGED fetchRows
    BY <2>5
  <2> QED
    BY <2>1, <2>2, <2>3, <2>4, <2>5
    DEF CopyNext, Ask, WriteRequest, ReadBack, WishEnds, FindCopy, SettleReady, SettleRefused,
        SettleFailed, FetchBreaks, KillFetcher
<1>3. FetcherInv /\ [CopyNext]_copyVars => [Fetching!Next]_(Fetching!vars)
  BY <1>2 DEF copyVars, Fetching!vars
<1> QED
  BY <1>1, <1>3, CopyTypeStep, FetcherInvStep, PTL DEF CopySpec, Fetching!Spec

-----------------------------------------------------------------------------
(* The parts side by side: what is explored of all is a behaviour of each. *)

LEMMA HandlersStepEach ==
  ASSUME [HandlersNext]_handlersVars
  PROVE  /\ [Next]_vars /\ [ExportNext]_exportVars /\ [PayNext]_payVars
         /\ [RetentionNext]_retentionVars /\ [CopyNext]_copyVars
  BY DEF HandlersNext, ImportStep, ExportStep, PayStep, RetentionStep, CopyStep, handlersVars

(* Every behaviour explored of the handlers side by side is one of imports, one *)
(* of exports, of payouts, of retention and of readers' copies: what is proved *)
(* of each holds of all.                                                    *)
THEOREM HandlersComposed ==
  HandlersSpec => Spec /\ ExportSpec /\ PaySpec /\ RetentionSpec /\ CopySpec
<1>1. HandlersInit => Init /\ ExportInit /\ PayInit /\ RetentionInit /\ CopyInit
  BY DEF HandlersInit
<1> QED
  BY <1>1, HandlersStepEach, PTL
  DEF HandlersSpec, Spec, ExportSpec, PaySpec, RetentionSpec, CopySpec

(* Every variable of every handler keeps its range, side by side too.         *)
THEOREM HandlersTyped == HandlersSpec => []HandlersTypeOK
  BY HandlersComposed, ImportsTyped, ExportsTyped, PayoutsTyped, RetentionTyped,
  CopiesTyped, PTL
  DEF HandlersTypeOK

=============================================================================
