----------------------------- MODULE Manuscript -----------------------------
(***************************************************************************)
(* The units of a work and their revisions (crates/db/src/content.rs), and  *)
(* the saves, renames, restores and deletions of several browser tabs       *)
(* (crates/app/src/routes/works.rs).                                       *)
(*                                                                         *)
(* A save carries the version its tab has on screen.  The number of a new    *)
(* revision is read in the transaction that inserts it, and on PostgreSQL    *)
(* another may commit in between: the read and the rest are two steps.       *)
(* (SQLite refuses the write of a transaction whose snapshot is stale, which *)
(* is one of the ways SaveEnds has.)                                         *)
(*                                                                         *)
(* A text is whether it has words.  Left out: titles, the order of units,    *)
(* and who may edit.                                                        *)
(***************************************************************************)
EXTENDS Integers

CONSTANTS
  TextTabs,        \* browser tabs, one request at a time each
  Units,
  MaxSaves     \* bound: versions of a unit

ASSUME ManuscriptAssumption == MaxSaves \in Nat \ {0} /\ Units # {}

VARIABLES
  units,       \* the rows of units
  revisions,   \* the rows of revisions, per unit
  revised,      \* unit.revised rows of outbox_events
  save         \* the update_unit or restore_revision request of each tab

textVars == <<units, revisions, revised, save>>

TextVersions == 1..MaxSaves

(* A save keeps the revision its tab shows.  One that is not checked is a     *)
(* restore, which expects no version.                                       *)
NoSave(u) ==
  [stage |-> "idle", unit |-> u, checked |-> FALSE, expected |-> 1, over |-> 0,
   words |-> FALSE, renames |-> FALSE, number |-> 1]

Saves ==
  [stage : {"idle", "sent", "numbered", "renaming"}, unit : Units, checked : BOOLEAN,
   expected : TextVersions, over : 0..MaxSaves, words : BOOLEAN, renames : BOOLEAN,
   number : TextVersions]
Revisions == [number : TextVersions, words : BOOLEAN, checked : BOOLEAN, over : 0..MaxSaves]

TextTypeOK ==
  /\ units \in [Units -> [state : {"absent", "live", "deleted"}, version : TextVersions,
                          head : 0..MaxSaves]]
  /\ revisions \in [Units -> SUBSET Revisions]
  /\ revised \subseteq [unit : Units, number : TextVersions]
  /\ save \in [TextTabs -> Saves]

TextInit ==
  /\ units = [u \in Units |-> [state |-> "absent", version |-> 1, head |-> 0]]
  /\ revisions = [u \in Units |-> {}]
  /\ revised = {}
  /\ \E u \in Units : save = [t \in TextTabs |-> NoSave(u)]

-----------------------------------------------------------------------------
AddUnit(u) ==
  /\ units[u].state = "absent"
  /\ units' = [units EXCEPT ![u].state = "live"]
  /\ UNCHANGED <<revisions, revised, save>>

DeleteUnit(u) ==
  /\ units[u].state = "live"
  /\ units[u].version < MaxSaves
  /\ units' = [units EXCEPT ![u].state = "deleted", ![u].version = @ + 1]
  /\ UNCHANGED <<revisions, revised, save>>

(* The tab saves a unit it shows: its text, its title or both (without a     *)
(* text, words says nothing and is FALSE).                                  *)
AskSave(t, u, text, words, renames) ==
  /\ save[t].stage = "idle"
  /\ units[u].state = "live"
  /\ text \/ (renames /\ ~ words)
  /\ save' = [save EXCEPT ![t] =
       [stage |-> IF text THEN "sent" ELSE "renaming", unit |-> u, checked |-> TRUE,
        expected |-> units[u].version, over |-> units[u].head, words |-> words,
        renames |-> renames, number |-> 1]]
  /\ UNCHANGED <<units, revisions, revised>>

(* The tab brings a revision back.  A restore expects no version. *)
AskRestore(t, u, r) ==
  /\ save[t].stage = "idle"
  /\ units[u].state = "live"
  /\ r \in revisions[u]
  /\ save' = [save EXCEPT ![t] =
       [stage |-> "sent", unit |-> u, checked |-> FALSE, expected |-> 1,
        over |-> 0, words |-> r.words, renames |-> FALSE, number |-> 1]]
  /\ UNCHANGED <<units, revisions, revised>>

(* COALESCE(MAX(revision_number), 0) + 1 *)
IsNextNumber(n, u) ==
  /\ \A r \in revisions[u] : r.number < n
  /\ n = 1 \/ \E r \in revisions[u] : r.number = n - 1

ReadNumber(t, n) ==
  /\ save[t].stage = "sent"
  /\ IsNextNumber(n, save[t].unit)
  /\ save' = [save EXCEPT ![t].stage = "numbered", ![t].number = n]
  /\ UNCHANGED <<units, revisions, revised>>

(* Mutant of NumberIsFree: no UNIQUE (unit_id, revision_number). *)
AnyNumber(s) == TRUE

NumberIsFree(s) == \A r \in revisions[s.unit] : r.number # s.number

(* Mutant of VersionAfter: a restore does not count the version up. *)
VersionUnlessRestored(s) ==
  IF s.checked THEN units[s.unit].version + 1 ELSE units[s.unit].version

VersionAfter(s) == units[s.unit].version + 1

(* append_revision: the revision, the unit's pointer, the revised row. *)
SaveRevision(t) ==
  LET s == save[t]
  IN /\ s.stage = "numbered"
     /\ NumberIsFree(s)
     /\ units[s.unit].state = "live"
     /\ s.checked => s.expected = units[s.unit].version
     /\ units[s.unit].version < MaxSaves
     /\ revisions' = [revisions EXCEPT ![s.unit] = @ \cup
          {[number |-> s.number, words |-> s.words, checked |-> s.checked, over |-> s.over]}]
     /\ units' = [units EXCEPT ![s.unit].head = s.number, ![s.unit].version = VersionAfter(s)]
     /\ revised' = revised \cup {[unit |-> s.unit, number |-> s.number]}
     /\ save' = [save EXCEPT ![t] =
          IF s.renames THEN [s EXCEPT !.stage = "renaming"] ELSE NoSave(s.unit)]

(* update_unit.  After a text it meets the version the text counted up, and  *)
(* the route ends the request without it.                                   *)
RenameUnit(t) ==
  LET s == save[t]
  IN /\ s.stage = "renaming"
     /\ units[s.unit].state = "live"
     /\ s.expected = units[s.unit].version
     /\ units[s.unit].version < MaxSaves
     /\ units' = [units EXCEPT ![s.unit].version = @ + 1]
     /\ save' = [save EXCEPT ![t] = NoSave(s.unit)]
     /\ UNCHANGED <<revisions, revised>>

(* A request ends where it is: refused, in conflict, failed, or its server    *)
(* killed.  An open transaction is undone.                                  *)
SaveEnds(t) ==
  /\ save[t].stage # "idle"
  /\ save' = [save EXCEPT ![t] = NoSave(@.unit)]
  /\ UNCHANGED <<units, revisions, revised>>

Writing(t) ==
  \/ \E u \in Units, text, words, renames \in BOOLEAN : AskSave(t, u, text, words, renames)
  \/ \E u \in Units : \E r \in revisions[u] : AskRestore(t, u, r)
  \/ \E n \in TextVersions : ReadNumber(t, n)
  \/ SaveRevision(t) \/ RenameUnit(t) \/ SaveEnds(t)

TextNext ==
  \/ \E t \in TextTabs : Writing(t)
  \/ \E u \in Units : AddUnit(u) \/ DeleteUnit(u)

TextSpec == TextInit /\ [][TextNext]_textVars

-----------------------------------------------------------------------------
(* Properties *)

(* Revisions are append-only: whatever saves and restores run at once, a     *)
(* unit's revisions are numbered without gap or repetition, and the unit     *)
(* points at the last of them.                                              *)
HistoryIsDense ==
  \A u \in Units :
    /\ {r.number : r \in revisions[u]} = 1..units[u].head
    /\ \A r, s \in revisions[u] : r.number = s.number => r = s

(* "REVISION_CONFLICT rather than a silently lost chapter": a checked save    *)
(* lands on the very revision its author had on screen.                     *)
SavesBuildOnWhatWasRead ==
  \A u \in Units : \A r \in revisions[u] : r.checked => r.over = r.number - 1
=============================================================================
