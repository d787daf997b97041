-------------------------- MODULE ManuscriptProofs --------------------------
(***************************************************************************)
(* Proofs about Manuscript, for any tabs and units: the history of a unit   *)
(* has no gap, and no checked save is written over what its author had not   *)
(* read.                                                                    *)
(***************************************************************************)
EXTENDS Manuscript, TLAPS

(* What a request in flight knows.  Its version is not ahead of the row's;    *)
(* while it still matches, so does the revision on screen.  A number once    *)
(* read is at most one past the unit's last.                                *)
SaveIsHonest(s) ==
  /\ s.checked => s.expected <= units[s.unit].version
  /\ s.checked /\ s.expected = units[s.unit].version => s.over = units[s.unit].head
  /\ s.stage = "numbered" => s.number <= units[s.unit].head + 1

Honest == \A t \in TextTabs : SaveIsHonest(save[t])

TextIndInv == TextTypeOK /\ HistoryIsDense /\ SavesBuildOnWhatWasRead /\ Honest

-----------------------------------------------------------------------------
LEMMA TextTypeInit == TextInit => TextTypeOK
<1> SUFFICES ASSUME TextInit PROVE TextTypeOK
  OBVIOUS
<1>1. PICK u \in Units : save = [t \in TextTabs |-> NoSave(u)]
  BY DEF TextInit
<1>2. NoSave(u) \in Saves
  BY ManuscriptAssumption DEF NoSave, Saves, TextVersions
<1> QED
  BY <1>1, <1>2, ManuscriptAssumption DEF TextInit, TextTypeOK, TextVersions

LEMMA NoSaveType == ASSUME NEW u \in Units PROVE NoSave(u) \in Saves
BY ManuscriptAssumption DEF NoSave, Saves, TextVersions

(* The parts of a save, and that its unit is one. *)
LEMMA SaveParts ==
  ASSUME TextTypeOK, NEW t \in TextTabs
  PROVE  /\ save[t] \in Saves
         /\ save[t].unit \in Units
         /\ save[t].expected \in Nat /\ save[t].over \in Nat
         /\ save[t].number \in TextVersions
         /\ units[save[t].unit].version \in TextVersions
         /\ units[save[t].unit].head \in 0..MaxSaves
BY ManuscriptAssumption DEF TextTypeOK, Saves, TextVersions

LEMMA TextTypeStep == TextTypeOK /\ [TextNext]_textVars => TextTypeOK'
<1> SUFFICES ASSUME TextTypeOK, [TextNext]_textVars PROVE TextTypeOK'
  OBVIOUS
<1> USE ManuscriptAssumption DEF TextTypeOK, TextVersions
<1>1. ASSUME NEW t \in TextTabs, NEW u \in Units, NEW text \in BOOLEAN, NEW words \in BOOLEAN,
             NEW renames \in BOOLEAN, AskSave(t, u, text, words, renames)
      PROVE  TextTypeOK'
  BY <1>1 DEF AskSave, Saves
<1>2. ASSUME NEW t \in TextTabs, NEW u \in Units, NEW r \in revisions[u], AskRestore(t, u, r)
      PROVE  TextTypeOK'
  <2>1. r.words \in BOOLEAN
    BY DEF Revisions
  <2> QED
    BY <1>2, <2>1 DEF AskRestore, Saves
<1>3. ASSUME NEW t \in TextTabs, NEW n \in TextVersions, ReadNumber(t, n) PROVE TextTypeOK'
  <2>1. [save[t] EXCEPT !.stage = "numbered", !.number = n] \in Saves
    BY DEF Saves
  <2> QED
    BY <1>3, <2>1 DEF ReadNumber
<1>4. ASSUME NEW t \in TextTabs, SaveRevision(t) PROVE TextTypeOK'
  <2> DEFINE s == save[t]
             r == [number |-> s.number, words |-> s.words, checked |-> s.checked, over |-> s.over]
  <2>1. s \in Saves /\ s.unit \in Units /\ s.number \in 1..MaxSaves
    BY DEF Saves
  <2>2. r \in Revisions
    BY <2>1 DEF Revisions, Saves
  <2>3. revisions' \in [Units -> SUBSET Revisions]
    BY <1>4, <2>1, <2>2 DEF SaveRevision
  <2>4. VersionAfter(s) \in 1..MaxSaves
    BY <1>4, <2>1 DEF SaveRevision, VersionAfter
  <2>5. units' \in [Units -> [state : {"absent", "live", "deleted"}, version : 1..MaxSaves,
                              head : 0..MaxSaves]]
    BY <1>4, <2>1, <2>4 DEF SaveRevision
  <2>6. save' \in [TextTabs -> Saves]
    <3>1. [s EXCEPT !.stage = "renaming"] \in Saves
      BY <2>1 DEF Saves
    <3> QED
      BY <1>4, <2>1, <3>1, NoSaveType DEF SaveRevision
  <2>7. revised' \subseteq [unit : Units, number : 1..MaxSaves]
    BY <1>4, <2>1 DEF SaveRevision
  <2> QED
    BY <2>3, <2>5, <2>6, <2>7
<1>5. ASSUME NEW t \in TextTabs, RenameUnit(t) PROVE TextTypeOK'
  <2>1. save[t].unit \in Units
    BY DEF Saves
  <2> QED
    BY <1>5, <2>1, NoSaveType DEF RenameUnit
<1>6. ASSUME NEW t \in TextTabs, SaveEnds(t) PROVE TextTypeOK'
  <2>1. save[t].unit \in Units
    BY DEF Saves
  <2> QED
    BY <1>6, <2>1, NoSaveType DEF SaveEnds
<1>7. ASSUME NEW u \in Units, AddUnit(u) PROVE TextTypeOK'
  BY <1>7 DEF AddUnit
<1>8. ASSUME NEW u \in Units, DeleteUnit(u) PROVE TextTypeOK'
  BY <1>8 DEF DeleteUnit
<1>9. CASE UNCHANGED textVars
  BY <1>9 DEF textVars
<1> QED
  BY <1>1, <1>2, <1>3, <1>4, <1>5, <1>6, <1>7, <1>8, <1>9 DEF TextNext, Writing

(* The rows of units and revisions and the requests keep their ranges.       *)
THEOREM TextTyped == TextSpec => []TextTypeOK
BY TextTypeInit, TextTypeStep, PTL DEF TextSpec

-----------------------------------------------------------------------------
(* The numbers a unit has used are those up to its head. *)
LEMMA NumbersUpToHead ==
  ASSUME HistoryIsDense, NEW u \in Units, NEW n
  PROVE  (\E r \in revisions[u] : r.number = n) <=> n \in 1..units[u].head
BY DEF HistoryIsDense

(* A number that is next in a dense history is one past the head. *)
LEMMA NextIsOnePast ==
  ASSUME TextTypeOK, HistoryIsDense, NEW u \in Units, NEW n \in TextVersions, IsNextNumber(n, u)
  PROVE  n <= units[u].head + 1
<1>1. units[u].head \in Nat /\ n \in Nat
  BY ManuscriptAssumption DEF TextTypeOK, TextVersions
<1>2. CASE n = 1
  BY <1>1, <1>2
<1>3. CASE n # 1
  <2>1. n - 1 \in 1..units[u].head
    BY <1>3, NumbersUpToHead DEF IsNextNumber
  <2> QED
    BY <1>1, <2>1
<1> QED
  BY <1>2, <1>3

(* The number a save commits is the one after the head. *)
LEMMA CommitIsNext ==
  ASSUME TextIndInv, NEW t \in TextTabs, SaveRevision(t)
  PROVE  save[t].number = units[save[t].unit].head + 1
<1> DEFINE s == save[t]
<1>1. s.unit \in Units /\ s.number \in TextVersions /\ units[s.unit].head \in 0..MaxSaves
  BY SaveParts DEF TextIndInv
<1>2. s.number \notin 1..units[s.unit].head
  BY <1>1, NumbersUpToHead DEF TextIndInv, SaveRevision, NumberIsFree
<1>3. s.number <= units[s.unit].head + 1
  BY DEF TextIndInv, Honest, SaveIsHonest, SaveRevision
<1> QED
  BY <1>1, <1>2, <1>3, ManuscriptAssumption DEF TextVersions

-----------------------------------------------------------------------------
LEMMA HistoryStep == TextIndInv /\ [TextNext]_textVars => HistoryIsDense' /\ SavesBuildOnWhatWasRead'
<1> SUFFICES ASSUME TextIndInv, [TextNext]_textVars
             PROVE  HistoryIsDense' /\ SavesBuildOnWhatWasRead'
  OBVIOUS
<1>1. CASE revisions' = revisions /\ \A u \in Units : units'[u].head = units[u].head
  BY <1>1 DEF TextIndInv, HistoryIsDense, SavesBuildOnWhatWasRead
<1>2. ASSUME NEW t \in TextTabs, SaveRevision(t)
      PROVE  HistoryIsDense' /\ SavesBuildOnWhatWasRead'
  <2> DEFINE s == save[t]
             r == [number |-> s.number, words |-> s.words, checked |-> s.checked, over |-> s.over]
  <2>1. /\ s.unit \in Units /\ units[s.unit].head \in Nat
        /\ units[s.unit].head + 1 \in Nat
    BY SaveParts, ManuscriptAssumption DEF TextIndInv
  <2>2. s.number = units[s.unit].head + 1
    BY <1>2, CommitIsNext
  <2>3. /\ revisions'[s.unit] = revisions[s.unit] \cup {r}
        /\ units'[s.unit].head = s.number
    BY <1>2, <2>1 DEF SaveRevision, TextIndInv, TextTypeOK
  <2>4. \A u \in Units \ {s.unit} : revisions'[u] = revisions[u] /\ units'[u] = units[u]
    BY <1>2 DEF SaveRevision, TextIndInv, TextTypeOK
  <2>5. s.checked => s.over = s.number - 1
    BY <1>2, <2>1, <2>2 DEF SaveRevision, TextIndInv, Honest, SaveIsHonest
  <2>6. SavesBuildOnWhatWasRead'
    BY <2>3, <2>4, <2>5 DEF SavesBuildOnWhatWasRead, TextIndInv
  <2>7. HistoryIsDense'
    <3> SUFFICES ASSUME NEW u \in Units
                 PROVE  /\ {q.number : q \in revisions'[u]} = 1..units'[u].head
                        /\ \A p, q \in revisions'[u] : p.number = q.number => p = q
      BY DEF HistoryIsDense
    <3>1. CASE u # s.unit
      BY <2>4, <3>1 DEF HistoryIsDense, TextIndInv
    <3>2. CASE u = s.unit
      <4>1. {q.number : q \in revisions[u]} = 1..units[u].head
        BY DEF HistoryIsDense, TextIndInv
      <4>2. {q.number : q \in revisions'[u]} = (1..units[u].head) \cup {s.number}
        <5> HIDE DEF r, s
        <5>1. r.number = s.number
          BY DEF r
        <5>2. \A n : (\E q \in revisions'[u] : q.number = n)
                      <=> (\E q \in revisions[u] : q.number = n) \/ n = s.number
          BY <2>3, <3>2, <5>1
        <5> QED
          BY <4>1, <5>2
      <4>3. (1..units[u].head) \cup {s.number} = 1..s.number
        BY <2>1, <2>2, <3>2
      <4>4. \A q \in revisions[u] : q.number # s.number
        BY <1>2, <3>2 DEF SaveRevision, NumberIsFree
      <4>5. \A p, q \in revisions'[u] : p.number = q.number => p = q
        BY <2>3, <3>2, <4>4 DEF HistoryIsDense, TextIndInv
      <4> QED
        BY <2>3, <3>2, <4>2, <4>3, <4>5
    <3> QED
      BY <3>1, <3>2
  <2> QED
    BY <2>6, <2>7
<1>3. ASSUME NEW t \in TextTabs, RenameUnit(t) PROVE \A u \in Units : units'[u].head = units[u].head
  BY <1>3 DEF RenameUnit, TextIndInv, TextTypeOK
<1>4. ASSUME NEW v \in Units, AddUnit(v) \/ DeleteUnit(v)
      PROVE  \A u \in Units : units'[u].head = units[u].head
  BY <1>4 DEF AddUnit, DeleteUnit, TextIndInv, TextTypeOK
<1> QED
  BY <1>1, <1>2, <1>3, <1>4
  DEF TextNext, Writing, AskSave, AskRestore, ReadNumber, RenameUnit, SaveEnds, AddUnit, DeleteUnit, textVars

-----------------------------------------------------------------------------
(* A change of a unit that counts its version up leaves every request that   *)
(* knew the old version behind.                                             *)
LEMMA RowChangeKeepsHonest ==
  ASSUME TextTypeOK, Honest, NEW t \in TextTabs, save'[t] = save[t],
         \A u \in Units : \/ /\ units'[u].version = units[u].version
                             /\ units'[u].head = units[u].head
                          \/ /\ units'[u].version = units[u].version + 1
                             /\ units'[u].head >= units[u].head
                             /\ units'[u].head \in Nat
  PROVE  SaveIsHonest(save[t])'
<1> DEFINE s == save[t]
<1>1. /\ s.unit \in Units /\ s.expected \in Nat /\ s.number \in Nat
      /\ units[s.unit].version \in Nat /\ units[s.unit].head \in Nat
  BY SaveParts, ManuscriptAssumption DEF TextVersions
<1>2. SaveIsHonest(s)
  BY DEF Honest
<1> QED
  BY <1>1, <1>2 DEF SaveIsHonest

LEMMA IdleIsHonest == ASSUME NEW u \in Units PROVE SaveIsHonest(NoSave(u))
BY DEF SaveIsHonest, NoSave

LEMMA HonestStep == TextIndInv /\ [TextNext]_textVars => Honest'
<1> SUFFICES ASSUME TextIndInv, [TextNext]_textVars, NEW q \in TextTabs PROVE SaveIsHonest(save[q])'
  BY DEF Honest
<1>0. TextTypeOK /\ Honest /\ HistoryIsDense
  BY DEF TextIndInv
<1>1. ASSUME NEW t \in TextTabs, SaveRevision(t) PROVE SaveIsHonest(save[q])'
  <2> DEFINE s == save[t]
  <2>1. /\ s.unit \in Units /\ s.number = units[s.unit].head + 1
        /\ s.expected \in Nat
        /\ units[s.unit].version \in Nat /\ units[s.unit].head \in Nat
    BY <1>0, <1>1, CommitIsNext, SaveParts, ManuscriptAssumption DEF TextVersions
  <2>2. /\ units'[s.unit].version = units[s.unit].version + 1
        /\ units'[s.unit].head = units[s.unit].head + 1
        /\ \A u \in Units \ {s.unit} : units'[u] = units[u]
    BY <1>0, <1>1, <2>1 DEF SaveRevision, VersionAfter, TextTypeOK
  <2>3. CASE q # t
    <3>1. save'[q] = save[q]
      BY <1>0, <1>1, <2>3 DEF SaveRevision, TextTypeOK
    <3> QED
      BY <1>0, <2>1, <2>2, <3>1, RowChangeKeepsHonest
  <2>4. CASE q = t /\ ~ s.renames
    <3>1. save'[q] = NoSave(s.unit)
      BY <1>0, <1>1, <2>4 DEF SaveRevision, TextTypeOK
    <3> QED
      BY <3>1 DEF SaveIsHonest, NoSave
  <2>5. CASE q = t /\ s.renames
    <3>1. save'[q] = [s EXCEPT !.stage = "renaming"]
      BY <1>0, <1>1, <2>5 DEF SaveRevision, TextTypeOK
    <3>2. /\ save'[q].unit = s.unit /\ save'[q].expected = s.expected
          /\ save'[q].checked = s.checked /\ save'[q].stage = "renaming"
      BY <1>0, <3>1 DEF TextTypeOK, Saves
    <3>3. s.checked => s.expected < units'[s.unit].version
      BY <1>0, <2>1, <2>2 DEF Honest, SaveIsHonest
    <3>4. units'[s.unit].version \in Nat
      BY <2>1, <2>2
    <3> QED
      BY <2>1, <3>2, <3>3, <3>4 DEF SaveIsHonest
  <2> QED
    BY <2>3, <2>4, <2>5
<1>2. ASSUME NEW t \in TextTabs, RenameUnit(t) PROVE SaveIsHonest(save[q])'
  <2>1. /\ save[t].unit \in Units
        /\ units[save[t].unit].version \in Nat /\ units[save[t].unit].head \in Nat
    BY <1>0, SaveParts, ManuscriptAssumption DEF TextVersions
  <2>2. /\ units'[save[t].unit].version = units[save[t].unit].version + 1
        /\ units'[save[t].unit].head = units[save[t].unit].head
        /\ \A u \in Units \ {save[t].unit} : units'[u] = units[u]
    BY <1>0, <1>2, <2>1 DEF RenameUnit, TextTypeOK
  <2>3. CASE q # t
    <3>1. save'[q] = save[q]
      BY <1>0, <1>2, <2>3 DEF RenameUnit, TextTypeOK
    <3> QED
      BY <1>0, <2>1, <2>2, <3>1, RowChangeKeepsHonest
  <2>4. CASE q = t
    <3>1. save'[q] = NoSave(save[t].unit)
      BY <1>0, <1>2, <2>4 DEF RenameUnit, TextTypeOK
    <3> QED
      BY <3>1 DEF SaveIsHonest, NoSave
  <2> QED
    BY <2>3, <2>4
<1>3. ASSUME NEW t \in TextTabs, SaveEnds(t) PROVE SaveIsHonest(save[q])'
  <2>1. CASE q # t
    BY <1>0, <1>3, <2>1 DEF SaveEnds, TextTypeOK, Honest, SaveIsHonest
  <2>2. CASE q = t
    <3>1. save'[q] = NoSave(save[t].unit)
      BY <1>0, <1>3, <2>2 DEF SaveEnds, TextTypeOK
    <3> QED
      BY <3>1 DEF SaveIsHonest, NoSave
  <2> QED
    BY <2>1, <2>2
<1>4. ASSUME NEW t \in TextTabs, NEW u \in Units, NEW text \in BOOLEAN, NEW words \in BOOLEAN,
             NEW renames \in BOOLEAN, AskSave(t, u, text, words, renames)
      PROVE  SaveIsHonest(save[q])'
  <2>1. units[u].version \in Nat /\ units[u].head \in Nat /\ units' = units
    BY <1>0, <1>4, ManuscriptAssumption DEF AskSave, TextTypeOK, TextVersions
  <2>2. CASE q # t
    BY <1>0, <1>4, <2>2 DEF AskSave, TextTypeOK, Honest, SaveIsHonest
  <2>3. CASE q = t
    <3>1. save'[q] = [stage |-> IF text THEN "sent" ELSE "renaming", unit |-> u, checked |-> TRUE,
                      expected |-> units[u].version, over |-> units[u].head, words |-> words,
                      renames |-> renames, number |-> 1]
      BY <1>0, <1>4, <2>3 DEF AskSave, TextTypeOK
    <3> QED
      BY <2>1, <3>1 DEF SaveIsHonest
  <2> QED
    BY <2>2, <2>3
<1>5. ASSUME NEW t \in TextTabs, NEW u \in Units, NEW r \in revisions[u], AskRestore(t, u, r)
      PROVE  SaveIsHonest(save[q])'
  <2>1. CASE q # t
    BY <1>0, <1>5, <2>1 DEF AskRestore, TextTypeOK, Honest, SaveIsHonest
  <2>2. CASE q = t
    <3>1. ~ save'[q].checked /\ save'[q].stage = "sent"
      BY <1>0, <1>5, <2>2 DEF AskRestore, TextTypeOK
    <3> QED
      BY <3>1 DEF SaveIsHonest
  <2> QED
    BY <2>1, <2>2
<1>6. ASSUME NEW t \in TextTabs, NEW n \in TextVersions, ReadNumber(t, n) PROVE SaveIsHonest(save[q])'
  <2>1. CASE q # t
    BY <1>0, <1>6, <2>1 DEF ReadNumber, TextTypeOK, Honest, SaveIsHonest
  <2>2. CASE q = t
    <3>1. n <= units[save[t].unit].head + 1
      BY <1>0, <1>6, SaveParts, NextIsOnePast DEF ReadNumber
    <3>2. /\ save'[q].unit = save[t].unit /\ save'[q].expected = save[t].expected
          /\ save'[q].checked = save[t].checked /\ save'[q].over = save[t].over
          /\ save'[q].number = n
      BY <1>0, <1>6, <2>2 DEF ReadNumber, TextTypeOK, Saves
    <3>3. units' = units /\ SaveIsHonest(save[t])
      BY <1>0, <1>6 DEF ReadNumber, Honest
    <3> QED
      BY <3>1, <3>2, <3>3 DEF SaveIsHonest
  <2> QED
    BY <2>1, <2>2
<1>7. ASSUME NEW v \in Units, AddUnit(v) \/ DeleteUnit(v) PROVE SaveIsHonest(save[q])'
  <2>1. save' = save
    BY <1>7 DEF AddUnit, DeleteUnit
  <2>2. \A u \in Units : units[u].version \in Nat /\ units[u].head \in Nat
    BY <1>0, ManuscriptAssumption DEF TextTypeOK, TextVersions
  <2>3. \A u \in Units : units'[u].head = units[u].head
                         /\ units'[u].version \in {units[u].version, units[u].version + 1}
    BY <1>0, <1>7 DEF AddUnit, DeleteUnit, TextTypeOK
  <2> QED
    BY <1>0, <2>1, <2>2, <2>3, RowChangeKeepsHonest
<1>8. CASE UNCHANGED textVars
  BY <1>0, <1>8 DEF textVars, Honest, SaveIsHonest
<1> QED
  BY <1>1, <1>2, <1>3, <1>4, <1>5, <1>6, <1>7, <1>8 DEF TextNext, Writing

-----------------------------------------------------------------------------
LEMMA TextIndInvHolds == TextSpec => []TextIndInv
<1>1. TextInit => TextIndInv
  <2> SUFFICES ASSUME TextInit PROVE TextIndInv
    OBVIOUS
  <2>1. TextTypeOK
    BY TextTypeInit
  <2>2. HistoryIsDense /\ SavesBuildOnWhatWasRead
    BY DEF TextInit, HistoryIsDense, SavesBuildOnWhatWasRead
  <2>3. Honest
    <3>1. PICK u \in Units : save = [t \in TextTabs |-> NoSave(u)]
      BY DEF TextInit
    <3>2. SaveIsHonest(NoSave(u))
      BY IdleIsHonest
    <3> QED
      BY <3>1, <3>2 DEF Honest
  <2> QED
    BY <2>1, <2>2, <2>3 DEF TextIndInv
<1>2. TextIndInv /\ [TextNext]_textVars => TextIndInv'
  BY TextTypeStep, HistoryStep, HonestStep DEF TextIndInv
<1> QED
  BY <1>1, <1>2, PTL DEF TextSpec

(* Whatever saves and restores run at once, a unit's revisions are numbered   *)
(* without gap or repetition and the unit points at the last of them.       *)
THEOREM HistoriesAreDense == TextSpec => []HistoryIsDense
BY TextIndInvHolds, PTL DEF TextIndInv

(* A checked save lands on the very revision its author had on screen.       *)
THEOREM NoSaveOverwritesTheUnread == TextSpec => []SavesBuildOnWhatWasRead
BY TextIndInvHolds, PTL DEF TextIndInv
=============================================================================
