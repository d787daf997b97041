-------------------------- MODULE PublicationProofs -------------------------
(***************************************************************************)
(* Proofs about Publication, for any tabs, keys and roles: a request whose   *)
(* version matches decides about the work as it is, and a replayed key is    *)
(* turned away before the unique index has to.                              *)
(***************************************************************************)
EXTENDS Publication, TLAPS

(* No request is ahead of the row, and an edit that has been written is       *)
(* behind it.                                                               *)
RequestsAreOld ==
  \A t \in Tabs :
    /\ decision[t].stage # "idle" => decision[t].expected <= work.version
    /\ edit[t].stage # "idle" => edit[t].expected <= work.version
    /\ edit[t].stage \in {"dating", "delisting"} => edit[t].expected < work.version

WorkIndInv == TypeOK /\ RequestsAreOld /\ MatchingVersionIsInformed /\ ReplayMeetsTheVersion

LEMMA NoRequestType == NoDecision \in Decisions /\ NoEdit \in Edits
BY PublicationAssumption DEF NoDecision, NoEdit, Decisions, Edits, Versions, Lifecycles

(* The parts of a tab's requests and of the row. *)
LEMMA Parts ==
  ASSUME TypeOK, NEW t \in Tabs
  PROVE  /\ decision[t] \in Decisions /\ edit[t] \in Edits
         /\ decision[t].expected \in Versions /\ edit[t].expected \in Versions
         /\ decision[t].key \in Keys \cup {NoKey}
         /\ work.version \in Versions /\ work.lifecycle \in Lifecycles
         /\ work.titled \in BOOLEAN /\ work.listed \in BOOLEAN
BY DEF TypeOK, Decisions, Edits

-----------------------------------------------------------------------------
LEMMA WorkTypeInit == Init => TypeOK
<1> SUFFICES ASSUME Init PROVE TypeOK
  OBVIOUS
<1>1. 1 \in Versions /\ "draft" \in Lifecycles
  BY PublicationAssumption DEF Versions, Lifecycles
<1>2. work \in [version : Versions, lifecycle : Lifecycles, titled : BOOLEAN, listed : BOOLEAN]
  BY <1>1 DEF Init
<1>3. decision \in [Tabs -> Decisions] /\ edit \in [Tabs -> Edits]
  BY NoRequestType DEF Init
<1> QED
  BY <1>2, <1>3, PublicationAssumption DEF Init, TypeOK

LEMMA DecidingType ==
  ASSUME TypeOK, NEW t \in Tabs, Deciding(t)
  PROVE  TypeOK'
<1> USE DEF TypeOK
<1>0. decision[t] \in Decisions
  OBVIOUS
<1>1. ASSUME NEW act \in {"publish", "withdraw"}, NEW key \in Keys \cup {NoKey},
             AskDecision(t, act, key)
      PROVE  TypeOK'
  <2>1. [stage |-> "sent", act |-> act, key |-> key, expected |-> work.version,
         saw |-> work.lifecycle, titled |-> FALSE] \in Decisions
    BY DEF Decisions
  <2> QED
    BY <1>1, <2>1 DEF AskDecision
<1>2. ASSUME FindWork(t) PROVE TypeOK'
  <2>1. [decision[t] EXCEPT !.stage = "found", !.titled = work.titled] \in Decisions
    BY <1>0 DEF Decisions
  <2> QED
    BY <1>2, <2>1 DEF FindWork
<1>3. ASSUME NEW s \in {"keyed", "allowed", "ready"},
             decision' = [decision EXCEPT ![t].stage = s],
             UNCHANGED <<work, readable, publishers, events, outbox, edit>>
      PROVE  TypeOK'
  <2>1. [decision[t] EXCEPT !.stage = s] \in Decisions
    BY <1>0 DEF Decisions
  <2> QED
    BY <1>3, <2>1
<1>4. ASSUME Decide(t) PROVE TypeOK'
  <2>1. work.version + 1 \in Versions
    BY <1>4, PublicationAssumption DEF Decide, Versions
  <2>2. Outcome(decision[t].act) \in Lifecycles
    BY DEF Outcome, Lifecycles
  <2>3. work' \in [version : Versions, lifecycle : Lifecycles, titled : BOOLEAN, listed : BOOLEAN]
    BY <1>4, <2>1, <2>2 DEF Decide
  <2>4. [act |-> decision[t].act, key |-> decision[t].key, at |-> work.version + 1]
          \in [act : {"publish", "withdraw", "update"}, key : Keys \cup {NoKey}, at : Versions]
    BY <1>0, <2>1 DEF Decisions
  <2> QED
    BY <1>4, <2>3, <2>4, NoRequestType DEF Decide
<1> QED
  BY <1>1, <1>2, <1>3, <1>4 DEF Deciding, CheckKey, CheckRole, CheckReadiness

LEMMA EditingType ==
  ASSUME TypeOK, RequestsAreOld, NEW t \in Tabs, Editing(t)
  PROVE  TypeOK'
<1> USE DEF TypeOK
<1>0. edit[t] \in Edits
  OBVIOUS
<1>1. ASSUME NEW titled \in BOOLEAN, NEW listed \in BOOLEAN, AskEdit(t, titled, listed)
      PROVE  TypeOK'
  <2>1. [stage |-> "sent", expected |-> work.version, titled |-> titled, listed |-> listed,
         wasListed |-> FALSE] \in Edits
    BY DEF Edits
  <2> QED
    BY <1>1, <2>1 DEF AskEdit
<1>2. ASSUME FindListing(t) PROVE TypeOK'
  <2>1. [edit[t] EXCEPT !.stage = "found", !.wasListed = work.listed] \in Edits
    BY <1>0 DEF Edits
  <2> QED
    BY <1>2, <2>1 DEF FindListing
<1>3. ASSUME EditWork(t) PROVE TypeOK'
  <2>1. work.version + 1 \in Versions
    BY <1>3, PublicationAssumption DEF EditWork, Versions
  <2>2. edit[t].titled \in BOOLEAN /\ edit[t].listed \in BOOLEAN
    BY <1>0 DEF Edits
  <2>3. work' \in [version : Versions, lifecycle : Lifecycles, titled : BOOLEAN, listed : BOOLEAN]
    BY <1>3, <2>1, <2>2 DEF EditWork
  <2>4. [edit[t] EXCEPT !.stage = "dating"] \in Edits
    BY <1>0 DEF Edits
  <2> QED
    BY <1>3, <2>3, <2>4 DEF EditWork
<1>4. ASSUME DateEdit(t) PROVE TypeOK'
  <2>1. edit[t].expected + 1 \in Versions
    <3>1. edit[t].expected \in Versions /\ work.version \in Versions
      BY Parts
    <3>2. edit[t].expected < work.version
      BY <1>4 DEF DateEdit, RequestsAreOld
    <3> QED
      BY <3>1, <3>2, PublicationAssumption DEF Versions
  <2>2. [edit[t] EXCEPT !.stage = "delisting"] \in Edits
    BY <1>0 DEF Edits
  <2>3. [act |-> "update", key |-> NoKey, at |-> edit[t].expected + 1]
          \in [act : {"publish", "withdraw", "update"}, key : Keys \cup {NoKey}, at : Versions]
    BY <2>1
  <2> QED
    BY <1>4, <2>2, <2>3, NoRequestType DEF DateEdit
<1>5. ASSUME Delist(t) PROVE TypeOK'
  BY <1>5, NoRequestType DEF Delist
<1> QED
  BY <1>1, <1>2, <1>3, <1>4, <1>5 DEF Editing

LEMMA WorkTypeStep == WorkIndInv /\ [Next]_vars => TypeOK'
<1> SUFFICES ASSUME WorkIndInv, [Next]_vars PROVE TypeOK'
  OBVIOUS
<1>0. TypeOK /\ RequestsAreOld
  BY DEF WorkIndInv
<1>1. ASSUME NEW t \in Tabs, Ends(t) PROVE TypeOK'
  BY <1>0, <1>1, NoRequestType DEF Ends, TypeOK
<1>2. ASSUME NEW t \in Tabs, ChangeRole(t) PROVE TypeOK'
  BY <1>0, <1>2 DEF ChangeRole, TypeOK
<1>3. ASSUME UnitsChange PROVE TypeOK'
  BY <1>0, <1>3 DEF UnitsChange, TypeOK
<1>4. ASSUME UNCHANGED vars PROVE TypeOK'
  BY <1>0, <1>4 DEF vars, TypeOK
<1> QED
  BY <1>0, <1>1, <1>2, <1>3, <1>4, DecidingType, EditingType DEF Next

-----------------------------------------------------------------------------
(* What a tab's two requests are held to. *)
Sound(t) ==
  /\ decision[t].stage # "idle" => decision[t].expected <= work.version
  /\ edit[t].stage # "idle" => edit[t].expected <= work.version
  /\ edit[t].stage \in {"dating", "delisting"} => edit[t].expected < work.version
  /\ decision[t].stage # "idle" /\ decision[t].expected = work.version =>
       /\ decision[t].saw = work.lifecycle
       /\ decision[t].stage # "sent" => decision[t].titled = work.titled
  /\ edit[t].stage = "found" /\ edit[t].expected = work.version =>
       edit[t].wasListed = work.listed
  /\ decision[t].stage \in {"keyed", "allowed", "ready"} /\ decision[t].key \in UsedKeys =>
       decision[t].expected # work.version

LEMMA SoundMeans ==
  (\A t \in Tabs : Sound(t)) <=>
    RequestsAreOld /\ MatchingVersionIsInformed /\ ReplayMeetsTheVersion
BY DEF Sound, RequestsAreOld, MatchingVersionIsInformed, ReplayMeetsTheVersion

(* A tab that has asked nothing. *)
LEMMA IdleIsSound ==
  ASSUME NEW t \in Tabs, decision[t] = NoDecision, edit[t] = NoEdit
  PROVE  Sound(t)
BY DEF Sound, NoDecision, NoEdit

(* Whatever else another tab writes, it counts the version up: the requests   *)
(* of this one fall behind, where nothing is asked of them.                 *)
LEMMA CountingUpIsSound ==
  ASSUME TypeOK, NEW t \in Tabs, Sound(t), work'.version = work.version + 1,
         decision'[t] = decision[t], edit'[t] = edit[t]
  PROVE  Sound(t)'
<1>1. /\ decision[t].expected \in Nat /\ edit[t].expected \in Nat /\ work.version \in Nat
  BY Parts, PublicationAssumption DEF Versions
<1>2. /\ decision[t].stage # "idle" => decision[t].expected < work'.version
      /\ edit[t].stage # "idle" => edit[t].expected < work'.version
  BY <1>1 DEF Sound
<1>3. work'.version \in Nat
  BY <1>1
<1> QED
  BY <1>1, <1>2, <1>3 DEF Sound

LEMMA DecidingSound ==
  ASSUME TypeOK, NEW t \in Tabs, Deciding(t), NEW q \in Tabs, Sound(q)
  PROVE  Sound(q)'
<1>0. /\ decision[t] \in Decisions /\ work.version \in Nat
      /\ decision[t].expected \in Nat
  BY Parts, PublicationAssumption DEF Versions
<1>1. CASE Decide(t)
  <2>1. work'.version = work.version + 1
    BY <1>1 DEF Decide, TypeOK
  <2>2. CASE q # t
    BY <1>1, <2>1, <2>2, CountingUpIsSound DEF Decide, TypeOK
  <2>3. CASE q = t
    <3>1. decision'[t] = NoDecision /\ edit' = edit
      BY <1>1 DEF Decide, TypeOK
    <3>2. edit[t].expected \in Nat
      BY Parts, PublicationAssumption DEF Versions
    <3>3. edit[t].stage # "idle" => edit[t].expected < work'.version
      BY <1>0, <2>1, <2>3, <3>2 DEF Sound
    <3> QED
      BY <1>0, <2>1, <2>3, <3>1, <3>2, <3>3 DEF Sound, NoDecision
  <2> QED
    BY <2>2, <2>3
<1>2. CASE q # t /\ ~ Decide(t)
  <2>1. /\ decision'[q] = decision[q]
        /\ UNCHANGED <<work, events, edit>>
    BY <1>2 DEF Deciding, AskDecision, FindWork, CheckKey, CheckRole, CheckReadiness, TypeOK
  <2> QED
    BY <2>1 DEF Sound, UsedKeys
<1>3. CASE q = t /\ \E act \in {"publish", "withdraw"}, key \in Keys \cup {NoKey} :
                      AskDecision(t, act, key)
  <2>1. PICK act \in {"publish", "withdraw"}, key \in Keys \cup {NoKey} : AskDecision(t, act, key)
    BY <1>3
  <2>2. /\ decision'[t] = [stage |-> "sent", act |-> act, key |-> key, expected |-> work.version,
                           saw |-> work.lifecycle, titled |-> FALSE]
        /\ UNCHANGED <<work, events, edit>>
    BY <2>1 DEF AskDecision, TypeOK
  <2> QED
    BY <1>0, <1>3, <2>2 DEF Sound
<1>4. CASE q = t /\ FindWork(t)
  <2>1. /\ decision'[t] = [decision[t] EXCEPT !.stage = "found", !.titled = work.titled]
        /\ UNCHANGED <<work, events, edit>>
    BY <1>4 DEF FindWork, TypeOK
  <2>2. /\ decision'[t].stage = "found" /\ decision'[t].titled = work.titled
        /\ decision'[t].expected = decision[t].expected /\ decision'[t].saw = decision[t].saw
    BY <1>0, <2>1 DEF Decisions
  <2> QED
    BY <1>4, <2>1, <2>2 DEF Sound, FindWork
<1>5. CASE q = t /\ CheckKey(t)
  <2>1. /\ decision'[t] = [decision[t] EXCEPT !.stage = "keyed"]
        /\ UNCHANGED <<work, events, edit>>
    BY <1>5 DEF CheckKey, TypeOK
  <2>2. /\ decision'[t].stage = "keyed" /\ decision'[t].titled = decision[t].titled
        /\ decision'[t].expected = decision[t].expected /\ decision'[t].saw = decision[t].saw
        /\ decision'[t].key = decision[t].key
    BY <1>0, <2>1 DEF Decisions
  <2>3. UsedKeys' = UsedKeys
    BY <2>1 DEF UsedKeys
  <2> QED
    BY <1>5, <2>1, <2>2, <2>3 DEF Sound, CheckKey
<1>6. CASE q = t /\ (CheckRole(t) \/ CheckReadiness(t))
  <2>1. PICK s \in {"allowed", "ready"} : decision'[t] = [decision[t] EXCEPT !.stage = s]
    BY <1>6 DEF CheckRole, CheckReadiness, TypeOK
  <2>2. /\ decision'[t].stage = s /\ decision'[t].titled = decision[t].titled
        /\ decision'[t].expected = decision[t].expected /\ decision'[t].saw = decision[t].saw
        /\ decision'[t].key = decision[t].key
    BY <1>0, <2>1 DEF Decisions
  <2>3. UsedKeys' = UsedKeys /\ UNCHANGED <<work, edit>>
    BY <1>6 DEF CheckRole, CheckReadiness, UsedKeys
  <2>4. decision[t].stage \in {"keyed", "allowed"}
    BY <1>6 DEF CheckRole, CheckReadiness
  <2> QED
    BY <1>6, <2>2, <2>3, <2>4 DEF Sound
<1> QED
  BY <1>1, <1>2, <1>3, <1>4, <1>5, <1>6 DEF Deciding

LEMMA EditingSound ==
  ASSUME TypeOK, NEW t \in Tabs, Editing(t), NEW q \in Tabs, Sound(q)
  PROVE  Sound(q)'
<1>0. /\ edit[t] \in Edits /\ work.version \in Nat /\ edit[t].expected \in Nat
      /\ decision[q].expected \in Nat
  BY Parts, PublicationAssumption DEF Versions
<1>1. CASE EditWork(t)
  <2>1. work'.version = work.version + 1 /\ decision' = decision
    BY <1>1 DEF EditWork, TypeOK
  <2>2. CASE q # t
    BY <1>1, <2>1, <2>2, CountingUpIsSound DEF EditWork, TypeOK
  <2>3. CASE q = t
    <3>1. edit'[t] = [edit[t] EXCEPT !.stage = "dating"]
      BY <1>1 DEF EditWork, TypeOK
    <3>2. edit'[t].stage = "dating" /\ edit'[t].expected = work.version
      BY <1>0, <1>1, <3>1 DEF EditWork, Edits
    <3>3. decision[t].stage # "idle" => decision[t].expected < work'.version
      BY <1>0, <2>1, <2>3 DEF Sound
    <3> QED
      BY <1>0, <2>1, <2>3, <3>2, <3>3 DEF Sound
  <2> QED
    BY <2>2, <2>3
<1>2. UsedKeys' = UsedKeys
  BY DEF Editing, AskEdit, FindListing, EditWork, DateEdit, Delist, UsedKeys
<1>3. CASE q # t /\ ~ EditWork(t)
  <2>1. edit'[q] = edit[q] /\ UNCHANGED <<work, decision>>
    BY <1>3 DEF Editing, AskEdit, FindListing, DateEdit, Delist, TypeOK
  <2> QED
    BY <1>2, <2>1 DEF Sound
<1>4. CASE q = t /\ \E titled, listed \in BOOLEAN : AskEdit(t, titled, listed)
  <2>1. edit'[t].stage = "sent" /\ edit'[t].expected = work.version
    BY <1>4 DEF AskEdit, TypeOK
  <2>2. UNCHANGED <<work, decision>>
    BY <1>4 DEF AskEdit
  <2> QED
    BY <1>0, <1>2, <1>4, <2>1, <2>2 DEF Sound
<1>5. CASE q = t /\ FindListing(t)
  <2>1. edit'[t] = [edit[t] EXCEPT !.stage = "found", !.wasListed = work.listed]
    BY <1>5 DEF FindListing, TypeOK
  <2>2. /\ edit'[t].stage = "found" /\ edit'[t].wasListed = work.listed
        /\ edit'[t].expected = edit[t].expected
    BY <1>0, <2>1 DEF Edits
  <2>3. UNCHANGED <<work, decision>> /\ edit[t].stage = "sent"
    BY <1>5 DEF FindListing
  <2> QED
    BY <1>2, <1>5, <2>2, <2>3 DEF Sound
<1>6. CASE q = t /\ (DateEdit(t) \/ Delist(t))
  <2>1. edit'[t] \in {[edit[t] EXCEPT !.stage = "delisting"], NoEdit}
    BY <1>6 DEF DateEdit, Delist, TypeOK
  <2>2. \/ edit'[t].stage = "idle"
        \/ edit'[t].stage = "delisting" /\ edit'[t].expected = edit[t].expected
    BY <1>0, <2>1 DEF Edits, NoEdit
  <2>3. UNCHANGED <<work, decision>> /\ edit[t].stage \in {"dating", "delisting"}
    BY <1>6 DEF DateEdit, Delist
  <2> QED
    BY <1>2, <1>6, <2>2, <2>3 DEF Sound
<1> QED
  BY <1>1, <1>3, <1>4, <1>5, <1>6 DEF Editing

LEMMA SoundStep ==
  ASSUME WorkIndInv, [Next]_vars, NEW q \in Tabs
  PROVE  Sound(q)'
<1>0. TypeOK /\ Sound(q)
  BY SoundMeans DEF WorkIndInv
<1>1. ASSUME NEW t \in Tabs, Ends(t) PROVE Sound(q)'
  <2>1. UNCHANGED <<work, events>>
    BY <1>1 DEF Ends
  <2>2. \/ decision'[q] = decision[q] /\ edit'[q] = edit[q]
        \/ decision'[q] = NoDecision /\ edit'[q] = NoEdit
    BY <1>0, <1>1 DEF Ends, TypeOK
  <2>3. CASE decision'[q] = decision[q] /\ edit'[q] = edit[q]
    BY <1>0, <2>1, <2>3 DEF Sound, UsedKeys
  <2>4. CASE decision'[q] = NoDecision /\ edit'[q] = NoEdit
    BY <2>4 DEF Sound, NoDecision, NoEdit
  <2> QED
    BY <2>2, <2>3, <2>4
<1>2. ASSUME NEW t \in Tabs, ChangeRole(t) PROVE Sound(q)'
  BY <1>0, <1>2 DEF ChangeRole, Sound, UsedKeys
<1>3. ASSUME UnitsChange PROVE Sound(q)'
  BY <1>0, <1>3 DEF UnitsChange, Sound, UsedKeys
<1>4. ASSUME UNCHANGED vars PROVE Sound(q)'
  BY <1>0, <1>4 DEF vars, Sound, UsedKeys
<1> QED
  BY <1>0, <1>1, <1>2, <1>3, <1>4, DecidingSound, EditingSound DEF Next

-----------------------------------------------------------------------------
LEMMA WorkIndInvHolds == Spec => []WorkIndInv
<1>1. Init => WorkIndInv
  <2> SUFFICES ASSUME Init PROVE WorkIndInv
    OBVIOUS
  <2>1. \A t \in Tabs : decision[t] = NoDecision /\ edit[t] = NoEdit
    BY DEF Init
  <2> QED
    BY <2>1, WorkTypeInit, IdleIsSound, SoundMeans DEF WorkIndInv
<1>2. WorkIndInv /\ [Next]_vars => WorkIndInv'
  <2> SUFFICES ASSUME WorkIndInv, [Next]_vars PROVE WorkIndInv'
    OBVIOUS
  <2>1. \A q \in Tabs : Sound(q)'
    BY SoundStep
  <2>2. (RequestsAreOld /\ MatchingVersionIsInformed /\ ReplayMeetsTheVersion)'
    BY <2>1 DEF Sound, RequestsAreOld, MatchingVersionIsInformed, ReplayMeetsTheVersion
  <2> QED
    BY <2>2, WorkTypeStep DEF WorkIndInv
<1> QED
  BY <1>1, <1>2, PTL DEF Spec

(* The rows and the requests keep their ranges, for any tabs, keys and roles. *)
THEOREM WorkTyped == Spec => []TypeOK
BY WorkIndInvHolds, PTL DEF WorkIndInv

(* A request that will not be refused for its version decides about the       *)
(* lifecycle, the title and the visibility that the row holds.              *)
THEOREM DecisionsAreInformed == Spec => []MatchingVersionIsInformed
BY WorkIndInvHolds, PTL DEF WorkIndInv

(* A replayed key never reaches the unique index. *)
THEOREM ReplaysAreConflicts == Spec => []ReplayMeetsTheVersion
BY WorkIndInvHolds, PTL DEF WorkIndInv
=============================================================================
