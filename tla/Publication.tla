---------------------------- MODULE Publication -----------------------------
(***************************************************************************)
(* One work: publishing, withdrawing and editing it                         *)
(* (crates/db/src/content.rs), in the requests its authors' browser tabs    *)
(* make (crates/app/src/routes/works.rs).                                   *)
(*                                                                         *)
(* A request carries the version its tab has on screen and is one step per  *)
(* statement or transaction; what other tabs do comes in between.  Of the    *)
(* units, which Manuscript models, a publication only asks whether there is  *)
(* something to read.                                                       *)
(*                                                                         *)
(* Of the metadata the title (empty or not) and the visibility (public or    *)
(* not) are kept; rating.reindex, which follows a change of rating as        *)
(* visibility.deindex follows one of visibility, is left out with the rating. *)
(***************************************************************************)
EXTENDS Integers

CONSTANTS
  Tabs,        \* browser tabs, one request at a time each, acting as one pseud
  Owners,      \* the tabs of the owner, whose role cannot change
  Keys,        \* idempotency keys
  NoKey,
  MaxVersion   \* bound: versions of the work

ASSUME PublicationAssumption ==
  /\ Owners \subseteq Tabs
  /\ NoKey \notin Keys
  /\ MaxVersion \in Nat \ {0}

VARIABLES
  work,        \* the row of works
  readable,    \* whether a live unit has words
  publishers,  \* tabs whose role in work_contributors may publish
  events,      \* publication_events
  outbox,      \* outbox_events about the work
  decision,    \* the publish or withdraw request of each tab
  edit         \* the update_work request of each tab

vars == <<work, readable, publishers, events, outbox, decision, edit>>

Lifecycles == {"draft", "published", "withdrawn"}
Versions == 1..MaxVersion

(* A decision keeps the lifecycle its tab shows and the title its handler     *)
(* loads; an edit, the visibility its handler loads.                        *)
NoDecision ==
  [stage |-> "idle", act |-> "publish", key |-> NoKey, expected |-> 1,
   saw |-> "draft", titled |-> FALSE]
NoEdit ==
  [stage |-> "idle", expected |-> 1, titled |-> FALSE, listed |-> FALSE,
   wasListed |-> FALSE]

Decisions ==
  [stage : {"idle", "sent", "found", "keyed", "allowed", "ready"},
   act : {"publish", "withdraw"}, key : Keys \cup {NoKey}, expected : Versions,
   saw : Lifecycles, titled : BOOLEAN]
Edits ==
  [stage : {"idle", "sent", "found", "dating", "delisting"}, expected : Versions,
   titled : BOOLEAN, listed : BOOLEAN, wasListed : BOOLEAN]

TypeOK ==
  /\ work \in [version : Versions, lifecycle : Lifecycles, titled : BOOLEAN, listed : BOOLEAN]
  /\ readable \in BOOLEAN
  /\ publishers \subseteq Tabs
  /\ events \subseteq [act : {"publish", "withdraw", "update"}, key : Keys \cup {NoKey},
                       at : Versions]
  /\ decision \in [Tabs -> Decisions]
  /\ edit \in [Tabs -> Edits]

(* create_work takes a work with a title or without; a fork, the visibility   *)
(* of its parent.                                                           *)
Init ==
  /\ work \in [version : {1}, lifecycle : {"draft"}, titled : BOOLEAN, listed : BOOLEAN]
  /\ readable = FALSE
  /\ publishers = Owners
  /\ events = {}
  /\ outbox = {}
  /\ decision = [t \in Tabs |-> NoDecision]
  /\ edit = [t \in Tabs |-> NoEdit]

(* A tab makes one request at a time. *)
Free(t) == decision[t].stage = "idle" /\ edit[t].stage = "idle"

(* Saves, restores and deletions of units come and go; none of them counts   *)
(* the work's version up.                                                   *)
UnitsChange ==
  /\ readable' = ~ readable
  /\ UNCHANGED <<work, publishers, events, outbox, decision, edit>>

-----------------------------------------------------------------------------
(* Publishing and withdrawing *)

UsedKeys == {e.key : e \in events} \ {NoKey}

(* The tab asks for what it shows to be published or withdrawn. *)
AskDecision(t, act, key) ==
  /\ Free(t)
  /\ decision' = [decision EXCEPT ![t] =
       [stage |-> "sent", act |-> act, key |-> key, expected |-> work.version,
        saw |-> work.lifecycle, titled |-> FALSE]]
  /\ UNCHANGED <<work, readable, publishers, events, outbox, edit>>

(* author_work: the title that publish_work will judge is loaded. *)
FindWork(t) ==
  /\ decision[t].stage = "sent"
  /\ decision' = [decision EXCEPT ![t].stage = "found", ![t].titled = work.titled]
  /\ UNCHANGED <<work, readable, publishers, events, outbox, edit>>

(* Mutant of CheckKey: the key is left to the index. *)
CheckNothing(t) ==
  /\ decision[t].stage = "found"
  /\ decision' = [decision EXCEPT ![t].stage = "keyed"]
  /\ UNCHANGED <<work, readable, publishers, events, outbox, edit>>

(* A key an event carries already is AlreadyApplied: the request ends. *)
CheckKey(t) ==
  /\ decision[t].stage = "found"
  /\ decision[t].key \notin UsedKeys
  /\ decision' = [decision EXCEPT ![t].stage = "keyed"]
  /\ UNCHANGED <<work, readable, publishers, events, outbox, edit>>

(* can_publish_work *)
CheckRole(t) ==
  /\ decision[t].stage = "keyed"
  /\ t \in publishers
  /\ decision' = [decision EXCEPT ![t].stage =
       IF decision[t].act = "publish" THEN "allowed" ELSE "ready"]
  /\ UNCHANGED <<work, readable, publishers, events, outbox, edit>>

(* publication_readiness, of the units as they are and the work as it was *)
(* loaded.                                                                  *)
CheckReadiness(t) ==
  /\ decision[t].stage = "allowed"
  /\ decision[t].titled
  /\ readable
  /\ decision' = [decision EXCEPT ![t].stage = "ready"]
  /\ UNCHANGED <<work, readable, publishers, events, outbox, edit>>

Outcome(act) == IF act = "publish" THEN "published" ELSE "withdrawn"
Topics(act) ==
  IF act = "publish" THEN {"publish.notify", "publish.index"} ELSE {"withdraw.deindex"}

(* The transaction of publish_work and of withdraw_work: the change guarded  *)
(* by the version, the event under the unique key, the outbox rows.         *)
Decide(t) ==
  /\ decision[t].stage = "ready"
  /\ decision[t].expected = work.version
  /\ decision[t].key \notin UsedKeys
  /\ work.version < MaxVersion
  /\ work' = [work EXCEPT !.lifecycle = Outcome(decision[t].act), !.version = @ + 1]
  /\ events' = events \cup {[act |-> decision[t].act, key |-> decision[t].key,
                             at |-> work.version + 1]}
  /\ outbox' = outbox \cup {[topic |-> p, at |-> work.version + 1] : p \in Topics(decision[t].act)}
  /\ decision' = [decision EXCEPT ![t] = NoDecision]
  /\ UNCHANGED <<readable, publishers, edit>>

(* add_contributor, update_contributor and remove_contributor *)
ChangeRole(t) ==
  /\ t \notin Owners
  /\ publishers' = IF t \in publishers THEN publishers \ {t} ELSE publishers \cup {t}
  /\ UNCHANGED <<work, readable, events, outbox, decision, edit>>

-----------------------------------------------------------------------------
(* Editing the work: the row, then its event, then the outbox row, each a     *)
(* statement of its own.                                                    *)

AskEdit(t, titled, listed) ==
  /\ Free(t)
  /\ edit' = [edit EXCEPT ![t] =
       [stage |-> "sent", expected |-> work.version, titled |-> titled, listed |-> listed,
        wasListed |-> FALSE]]
  /\ UNCHANGED <<work, readable, publishers, events, outbox, decision>>

(* author_work, from which was_listable is taken. *)
FindListing(t) ==
  /\ edit[t].stage = "sent"
  /\ edit' = [edit EXCEPT ![t].stage = "found", ![t].wasListed = work.listed]
  /\ UNCHANGED <<work, readable, publishers, events, outbox, decision>>

(* Mutant of EditWork: the version is not counted up. *)
EditKeepsVersion(t) ==
  /\ edit[t].stage = "found"
  /\ edit[t].expected = work.version
  /\ work' = [work EXCEPT !.titled = edit[t].titled, !.listed = edit[t].listed]
  /\ edit' = [edit EXCEPT ![t].stage = "dating"]
  /\ UNCHANGED <<readable, publishers, events, outbox, decision>>

(* update_work: the UPDATE. *)
EditWork(t) ==
  /\ edit[t].stage = "found"
  /\ edit[t].expected = work.version
  /\ work.version < MaxVersion
  /\ work' = [work EXCEPT !.titled = edit[t].titled, !.listed = edit[t].listed, !.version = @ + 1]
  /\ edit' = [edit EXCEPT ![t].stage = "dating"]
  /\ UNCHANGED <<readable, publishers, events, outbox, decision>>

(* update_work: the event, and back in the route, was_listable. *)
DateEdit(t) ==
  /\ edit[t].stage = "dating"
  /\ events' = events \cup {[act |-> "update", key |-> NoKey, at |-> edit[t].expected + 1]}
  /\ edit' = [edit EXCEPT ![t] =
       IF @.wasListed /\ ~ @.listed THEN [@ EXCEPT !.stage = "delisting"] ELSE NoEdit]
  /\ UNCHANGED <<work, readable, publishers, outbox, decision>>

(* The dedupe key names the version found when the work is loaded again. *)
Delist(t) ==
  /\ edit[t].stage = "delisting"
  /\ outbox' = outbox \cup {[topic |-> "visibility.deindex", at |-> work.version]}
  /\ edit' = [edit EXCEPT ![t] = NoEdit]
  /\ UNCHANGED <<work, readable, publishers, events, decision>>

-----------------------------------------------------------------------------
(* A request ends where it is: refused, answered AlreadyApplied or in        *)
(* conflict, failed, or its server killed.  An open transaction is undone.   *)
Ends(t) ==
  /\ ~ Free(t)
  /\ decision' = [decision EXCEPT ![t] = NoDecision]
  /\ edit' = [edit EXCEPT ![t] = NoEdit]
  /\ UNCHANGED <<work, readable, publishers, events, outbox>>

Deciding(t) ==
  \/ \E act \in {"publish", "withdraw"}, key \in Keys \cup {NoKey} : AskDecision(t, act, key)
  \/ FindWork(t) \/ CheckKey(t) \/ CheckRole(t) \/ CheckReadiness(t) \/ Decide(t)

Editing(t) ==
  \/ \E titled, listed \in BOOLEAN : AskEdit(t, titled, listed)
  \/ FindListing(t) \/ EditWork(t) \/ DateEdit(t) \/ Delist(t)

Next ==
  \/ \E t \in Tabs : Deciding(t) \/ Editing(t) \/ ChangeRole(t) \/ Ends(t)
  \/ UnitsChange

Spec == Init /\ [][Next]_vars

-----------------------------------------------------------------------------
(* Properties *)

(* A request whose version still matches knows what it decides about: the    *)
(* lifecycle its tab shows, the title and the listing its handler loaded are  *)
(* the row's, however long ago they were read.                              *)
MatchingVersionIsInformed ==
  \A t \in Tabs :
    /\ decision[t].stage # "idle" /\ decision[t].expected = work.version =>
         /\ decision[t].saw = work.lifecycle
         /\ decision[t].stage # "sent" => decision[t].titled = work.titled
    /\ edit[t].stage = "found" /\ edit[t].expected = work.version =>
         edit[t].wasListed = work.listed

(* The publication service is idempotent: a replay that passes the check of   *)
(* its key before the first delivery commits meets the version, a conflict    *)
(* the author can read, and never the unique index, an internal fault.      *)
ReplayMeetsTheVersion ==
  \A t \in Tabs :
    decision[t].stage \in {"keyed", "allowed", "ready"} /\ decision[t].key \in UsedKeys =>
      decision[t].expected # work.version
=============================================================================
