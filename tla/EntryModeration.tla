--------------------------- MODULE EntryModeration ---------------------------
(***************************************************************************)
(* Moving and removing a directory's entry by vote: propose_entry_mod and   *)
(* vote_entry_mod of crates/app/src/routes/directory.rs, with               *)
(* crates/db/src/category_governance.rs.                                    *)
(*                                                                         *)
(* One approved entry.  Members have the privilege and one request each.    *)
(* A ballot's transaction is two steps: on PostgreSQL the counting reads    *)
(* the ballots committed when it begins, and its own; SQLite lets one       *)
(* transaction in at a time, which is one order of these steps.             *)
(***************************************************************************)
EXTENDS Naturals, FiniteSets

CONSTANTS
  Members,
  Shelves,     \* categories of the directory
  FirstShelf,  \* where the entry was submitted to
  NoShelf,     \* a move may name no target
  MaxPolls     \* bound on the proposals made

ASSUME EntryModerationAssumption ==
  /\ FirstShelf \in Shelves /\ NoShelf \notin Shelves
  /\ IsFiniteSet(Members) /\ MaxPolls \in Nat

EntryModQuorum == 2

Polls == 1..MaxPolls

VARIABLES
  entry,     \* the row of directory_entries
  poll,      \* entry_moderation_proposals, in the order of created_at
  ballots,   \* entry_moderation_votes: who said yes and who no, committed
  member     \* each member's request

entryVars == <<entry, poll, ballots, member>>

Motions == [action : {"move"}, to : Shelves \cup {NoShelf}]
             \cup [action : {"remove"}, to : {NoShelf}]
NoPoll == [status |-> "none"]
NoBallots == [yes |-> {}, no |-> {}]
Away == [at |-> "idle"]

EntryTypeOK ==
  /\ entry \in [there : BOOLEAN, shelf : Shelves, removed : BOOLEAN]
  /\ poll \in [Polls -> {NoPoll} \cup [status : {"open", "passed", "failed"}, motion : Motions]]
  /\ ballots \in [Polls -> [yes : SUBSET Members, no : SUBSET Members]]
  /\ member \in [Members ->
       {Away} \cup [at : {"propose"}, motion : Motions]
         \cup [at : {"vote"}, poll : Polls, value : {"yes", "no"}]
         \cup [at : {"counted"}, poll : Polls, value : {"yes", "no"},
               counts : [yes : SUBSET Members, no : SUBSET Members]]
         \cup [at : {"passed"}, poll : Polls] \cup [at : {"apply"}, motion : Motions]]

EntryInit ==
  /\ entry = [there |-> TRUE, shelf |-> FirstShelf, removed |-> FALSE]
  /\ poll = [p \in Polls |-> NoPoll]
  /\ ballots = [p \in Polls |-> NoBallots]
  /\ member = [m \in Members |-> Away]

-----------------------------------------------------------------------------
MemberIs(m, what) == member' = [member EXCEPT ![m] = what]

(* An entry that shows may be moved or removed; proposals are not compared. *)
Propose(m, motion) ==
  /\ member[m] = Away
  /\ entry.there /\ ~ entry.removed
  /\ MemberIs(m, [at |-> "propose", motion |-> motion])
  /\ UNCHANGED <<entry, poll, ballots>>

(* The row refers to the entry's, which must still be there. *)
InsertPoll(m) ==
  /\ member[m].at = "propose"
  /\ IF entry.there
     THEN \E p \in Polls :
            /\ poll[p] = NoPoll
            /\ \A q \in 1..(p - 1) : poll[q] # NoPoll
            /\ poll' = [poll EXCEPT ![p] = [status |-> "open", motion |-> member[m].motion]]
     ELSE UNCHANGED poll
  /\ MemberIs(m, Away)
  /\ UNCHANGED <<entry, ballots>>

(* The vote names the entry: it goes to the newest proposal open now. *)
Vote(m, value) ==
  /\ member[m] = Away
  /\ \E p \in Polls :
       /\ poll[p].status = "open"
       /\ \A q \in Polls : q > p => poll[q].status # "open"
       /\ MemberIs(m, [at |-> "vote", poll |-> p, value |-> value])
  /\ UNCHANGED <<entry, poll, ballots>>

(* A member's first ballot on a proposal is the one that stands. *)
With(b, m, value) ==
  IF m \in b.yes \cup b.no THEN b
  ELSE IF value = "yes" THEN [b EXCEPT !.yes = @ \cup {m}] ELSE [b EXCEPT !.no = @ \cup {m}]

Count(m) ==
  /\ member[m].at = "vote"
  /\ LET p == member[m].poll IN
     MemberIs(m, IF poll[p] = NoPoll THEN Away
                 ELSE [at |-> "counted", poll |-> p, value |-> member[m].value,
                       counts |-> With(ballots[p], m, member[m].value)])
  /\ UNCHANGED <<entry, poll, ballots>>

(* Mutant of Verdict: the quorum is of those who voted. *)
VerdictOfTurnout(b) ==
  IF Cardinality(b.yes \cup b.no) < EntryModQuorum THEN "none"
  ELSE IF b.yes # {} THEN "passed" ELSE "failed"

(* proposal_decided. *)
Verdict(b) ==
  IF Cardinality(b.yes) >= EntryModQuorum THEN "passed"
  ELSE IF Cardinality(b.no) >= EntryModQuorum THEN "failed"
  ELSE "none"

(* The status is written whatever it has become meanwhile. *)
CommitVote(m) ==
  /\ member[m].at = "counted"
  /\ LET p == member[m].poll
         verdict == Verdict(member[m].counts) IN
     /\ ballots' = [ballots EXCEPT ![p] = With(@, m, member[m].value)]
     /\ poll' = [poll EXCEPT ![p].status = IF verdict = "none" THEN @ ELSE verdict]
     /\ MemberIs(m, IF verdict = "passed" THEN [at |-> "passed", poll |-> p] ELSE Away)
  /\ UNCHANGED entry

(* apply_entry_mod_action, after the commit: the proposal is read again. *)
ReadPassed(m) ==
  /\ member[m].at = "passed"
  /\ LET p == member[m].poll IN
     MemberIs(m, IF poll[p] # NoPoll /\ poll[p].status = "passed"
                    /\ poll[p].motion # [action |-> "move", to |-> NoShelf]
                 THEN [at |-> "apply", motion |-> poll[p].motion] ELSE Away)
  /\ UNCHANGED <<entry, poll, ballots>>

Apply(m) ==
  /\ member[m].at = "apply"
  /\ entry' = IF ~ entry.there THEN entry
             ELSE IF member[m].motion.action = "remove" THEN [entry EXCEPT !.removed = TRUE]
             ELSE [entry EXCEPT !.shelf = member[m].motion.to]
  /\ MemberIs(m, Away)
  /\ UNCHANGED <<poll, ballots>>

(* A statement fails or the server dies: what has not committed is lost. *)
MemberFails(m) ==
  /\ member[m] # Away
  /\ MemberIs(m, Away)
  /\ UNCHANGED <<entry, poll, ballots>>

(* An operator deletes the row, once no open transaction refers to it; the   *)
(* proposals and ballots go with it.                                        *)
DeleteEntry ==
  /\ entry.there
  /\ \A m \in Members : member[m].at # "counted"
  /\ entry' = [entry EXCEPT !.there = FALSE]
  /\ poll' = [p \in Polls |-> NoPoll]
  /\ ballots' = [p \in Polls |-> NoBallots]
  /\ UNCHANGED member

-----------------------------------------------------------------------------
EntryNext ==
  \/ \E m \in Members :
       \/ \E motion \in Motions : Propose(m, motion)
       \/ \E value \in {"yes", "no"} : Vote(m, value)
       \/ InsertPoll(m) \/ Count(m) \/ CommitVote(m) \/ ReadPassed(m) \/ Apply(m)
       \/ MemberFails(m)
  \/ DeleteEntry

EntrySpec == EntryInit /\ [][EntryNext]_entryVars

-----------------------------------------------------------------------------
(* An entry is moved or taken off the lists only as two different members    *)
(* have asked for in one proposal, though ballots are counted side by side,  *)
(* a member votes again and again, other proposals on the entry pass at the  *)
(* same time, and the change is made after the commit that decided it        *)
(* (vote_entry_mod, vote_on_entry_mod, apply_entry_mod_action).             *)
Backed(motion) ==
  \E p \in Polls : /\ poll[p] # NoPoll /\ poll[p].motion = motion
                   /\ Cardinality(ballots[p].yes) >= EntryModQuorum
EntryChangesWereVoted ==
  [][/\ entry'.shelf # entry.shelf => Backed([action |-> "move", to |-> entry'.shelf])
     /\ entry'.removed # entry.removed => Backed([action |-> "remove", to |-> NoShelf])]_entryVars
=============================================================================
