---------------------------- MODULE PeopleProofs ----------------------------
(***************************************************************************)
(* Proofs about what people do around a work: who comes to contribute, how  *)
(* a directory's entry is moved by vote, how loans, a bounty and sales fare, *)
(* for any number of people, requests, prices and limits.                   *)
(***************************************************************************)
EXTENDS Contributors, EntryModeration, Lending, Bounties, Sales,
        FiniteSetTheorems, TLAPS

(* A part of a finite set has no more members, and one member more at most    *)
(* adds one to their number.                                                *)
LEMMA PartIsSmaller ==
  ASSUME NEW T, IsFiniteSet(T), NEW S \in SUBSET T
  PROVE  /\ IsFiniteSet(S) /\ Cardinality(S) \in Nat /\ Cardinality(T) \in Nat
         /\ Cardinality(S) <= Cardinality(T)
  BY FS_Subset, FS_CardinalityType

LEMMA OneMoreAtMost ==
  ASSUME NEW T, IsFiniteSet(T), NEW x, NEW S \in SUBSET (T \cup {x})
  PROVE  Cardinality(S) <= Cardinality(T) + 1
<1>1. /\ IsFiniteSet(T \cup {x}) /\ Cardinality(T) \in Nat
      /\ Cardinality(T \cup {x}) <= Cardinality(T) + 1
  BY FS_AddElement, FS_CardinalityType
<1>2. Cardinality(S) <= Cardinality(T \cup {x}) /\ Cardinality(S) \in Nat
      /\ Cardinality(T \cup {x}) \in Nat
  BY <1>1, PartIsSmaller
<1> QED
  BY <1>1, <1>2

LEMMA OneLess ==
  ASSUME NEW T, IsFiniteSet(T), NEW x \in T, NEW S \in SUBSET (T \ {x})
  PROVE  Cardinality(S) + 1 <= Cardinality(T)
<1>1. /\ IsFiniteSet(T \ {x}) /\ Cardinality(T) \in Nat
      /\ Cardinality(T \ {x}) = Cardinality(T) - 1
  BY FS_RemoveElement, FS_CardinalityType
<1>2. Cardinality(S) <= Cardinality(T \ {x}) /\ Cardinality(S) \in Nat
      /\ Cardinality(T \ {x}) \in Nat
  BY <1>1, PartIsSmaller
<1> QED
  BY <1>1, <1>2

-----------------------------------------------------------------------------
(* Contributors *)

LEMMA ContributorTypeInit == ContributorInit => ContributorTypeOK
  BY ContributorsAssumption DEF ContributorInit, ContributorTypeOK, Guests

LEMMA ContributorTypeStep ==
  ContributorTypeOK /\ [ContributorNext]_contributorVars => ContributorTypeOK'
<1> SUFFICES ASSUME ContributorTypeOK, [ContributorNext]_contributorVars
             PROVE  ContributorTypeOK'
  OBVIOUS
<1> USE ContributorsAssumption DEF ContributorTypeOK, Guests, Invitation, EndRequest, AtRest, NoInvite
<1>1. ASSUME NEW t \in ContributorTabs, NEW p \in Guests, AskToRemove(t, p)
      PROVE  ContributorTypeOK'
  BY <1>1 DEF AskToRemove, BeginRequest
<1>2. ASSUME NEW t \in ContributorTabs, NEW p \in Guests, NEW r \in RolesGiven,
             AskToInvite(t, p, r) \/ AskToUpdate(t, p, r)
      PROVE  ContributorTypeOK'
  BY <1>2 DEF AskToInvite, AskToUpdate, BeginRequest
<1>3. ASSUME NEW t \in ContributorTabs, NEW i \in Invites,
             NEW at \in {"accept", "decline", "revoke"}, AskAbout(t, i, at)
      PROVE  ContributorTypeOK'
  BY <1>3 DEF AskAbout, BeginRequest
<1>4. ASSUME NEW t \in ContributorTabs, NEW i \in Invites, CreateInvite(t, i)
      PROVE  ContributorTypeOK'
  <2>1. request[t].who \in Guests /\ request[t].role \in RolesGiven
    BY <1>4 DEF CreateInvite
  <2>2. invite' \in [Invites -> Invitation \cup {NoInvite}]
    BY <1>4, <2>1 DEF CreateInvite
  <2> QED
    BY <1>4, <2>2 DEF CreateInvite
<1>5. ASSUME NEW t \in ContributorTabs, UpdateContributor(t)
      PROVE  ContributorTypeOK'
  BY <1>5 DEF UpdateContributor
<1>6. ASSUME NEW t \in ContributorTabs, RemoveContributor(t)
      PROVE  ContributorTypeOK'
  BY <1>6 DEF RemoveContributor
<1>7. ASSUME NEW t \in ContributorTabs, Accept(t)
      PROVE  ContributorTypeOK'
  BY <1>7 DEF Accept, Answered, Open
<1>8. ASSUME NEW t \in ContributorTabs, Decline(t) \/ Revoke(t)
      PROVE  ContributorTypeOK'
  BY <1>8 DEF Decline, Revoke, Answered, Open
<1>9. ASSUME NEW t \in ContributorTabs, RequestFails(t)
      PROVE  ContributorTypeOK'
  BY <1>9 DEF RequestFails
<1>10. CASE UNCHANGED contributorVars
  BY <1>10 DEF contributorVars
<1> QED
  BY <1>1, <1>2, <1>3, <1>4, <1>5, <1>6, <1>7, <1>8, <1>9, <1>10 DEF ContributorNext

(* Invitations, contributors and requests keep their ranges; in particular the *)
(* owner is the only owner (update_contributor, respond_to_invite).           *)
THEOREM ContributorsTyped == ContributorSpec => []ContributorTypeOK
  BY ContributorTypeInit, ContributorTypeStep, PTL DEF ContributorSpec

(* Whatever requests are decided on contributors read earlier, an answered    *)
(* invitation stays as it was answered, and whoever is on the work without    *)
(* having been there accepts in that step an invitation still open.          *)
THEOREM NobodyJoinsUninvited == ContributorSpec => MembershipIsInvited
<1> DEFINE Invited ==
      /\ \A i \in Invites : invite[i].status \notin {"none", "pending"} => invite'[i] = invite[i]
      /\ \A p \in Guests : role[p] = "none" /\ role'[p] # "none" =>
           \E i \in Invites : /\ invite[i].status = "pending" /\ invite'[i].status = "accepted"
                              /\ invite[i].to = p /\ invite[i].role = role'[p]
<1>1. ContributorTypeOK /\ ContributorNext => Invited
  <2> SUFFICES ASSUME ContributorTypeOK, ContributorNext PROVE Invited
    OBVIOUS
  <2> USE DEF ContributorTypeOK, EndRequest, NoInvite, Invitation
  <2>1. ASSUME NEW t \in ContributorTabs, Accept(t) PROVE Invited
    <3>1. request[t].invite \in Invites
      BY <2>1 DEF Accept, AtRest
    <3> QED
      BY <2>1, <3>1 DEF Accept, Answered, Open
  <2>2. ASSUME NEW t \in ContributorTabs, Decline(t) \/ Revoke(t) PROVE Invited
    BY <2>2 DEF Decline, Revoke, Answered, Open
  <2>3. ASSUME NEW t \in ContributorTabs, NEW i \in Invites, CreateInvite(t, i) PROVE Invited
    BY <2>3 DEF CreateInvite
  <2>4. ASSUME NEW t \in ContributorTabs, UpdateContributor(t) \/ RemoveContributor(t)
        PROVE  Invited
    BY <2>4 DEF UpdateContributor, RemoveContributor, AtRest, Guests
  <2>5. CASE UNCHANGED <<role, invite>>
    BY <2>5
  <2> QED
    BY <2>1, <2>2, <2>3, <2>4, <2>5 DEF ContributorNext, AskToRemove, AskToInvite,
       AskToUpdate, AskAbout, BeginRequest, RequestFails
<1>2. ContributorTypeOK /\ [ContributorNext]_contributorVars => [Invited]_contributorVars
  BY <1>1
<1> QED
  BY <1>2, ContributorTypeInit, ContributorTypeStep, PTL
  DEF ContributorSpec, MembershipIsInvited

-----------------------------------------------------------------------------
(* EntryModeration *)

(* What the vote of an entry rests on: a ballot being counted will be there  *)
(* with all it counted, a poll that passed has its ballots, and a change     *)
(* about to be made to an entry that is there is one that they asked for.    *)
CountStands(m) ==
  member[m].at = "counted" =>
    /\ poll[member[m].poll] # NoPoll
    /\ member[m].counts.yes \subseteq
         With(ballots[member[m].poll], m, member[m].value).yes
PassedStands(p) ==
  poll[p].status = "passed" => Cardinality(ballots[p].yes) >= EntryModQuorum
ApplyStands(m) ==
  member[m].at = "apply" =>
    /\ member[m].motion # [action |-> "move", to |-> NoShelf]
    /\ entry.there => Backed(member[m].motion)
EntryInv ==
  /\ EntryTypeOK
  /\ \A m \in Members : CountStands(m) /\ ApplyStands(m)
  /\ \A p \in Polls : PassedStands(p)

(* More ballots are no fewer. *)
LEMMA BallotsGrow ==
  ASSUME NEW S \in SUBSET Members, NEW T \in SUBSET Members, S \subseteq T
  PROVE  Cardinality(S) <= Cardinality(T) /\ Cardinality(S) \in Nat /\ Cardinality(T) \in Nat
  BY EntryModerationAssumption, FS_Subset, FS_CardinalityType

(* A ballot is added and none is taken away. *)
LEMMA WithGrows ==
  ASSUME NEW b \in [yes : SUBSET Members, no : SUBSET Members],
         NEW m \in Members, NEW value \in {"yes", "no"}
  PROVE  /\ With(b, m, value) \in [yes : SUBSET Members, no : SUBSET Members]
         /\ b.yes \subseteq With(b, m, value).yes
         /\ \A n \in Members \ {m}, v \in {"yes", "no"} :
              With(b, n, v).yes \subseteq With(With(b, m, value), n, v).yes
  BY DEF With

LEMMA EntryInvInit == EntryInit => EntryInv
<1> SUFFICES ASSUME EntryInit PROVE EntryInv
  OBVIOUS
<1>1. EntryTypeOK
  BY EntryModerationAssumption DEF EntryInit, EntryTypeOK, NoBallots, NoPoll, Away
<1> QED
  BY <1>1 DEF EntryInv, EntryInit, CountStands, ApplyStands, PassedStands, NoPoll, Away

LEMMA EntryTypeStep ==
  ASSUME EntryInv, [EntryNext]_entryVars PROVE EntryTypeOK'
<1> USE DEF EntryInv, EntryTypeOK, MemberIs, NoPoll, NoBallots, Away
<1>1. ASSUME NEW m \in Members, NEW motion \in Motions, Propose(m, motion) PROVE EntryTypeOK'
  BY <1>1 DEF Propose
<1>2. ASSUME NEW m \in Members, NEW value \in {"yes", "no"}, Vote(m, value) PROVE EntryTypeOK'
  BY <1>2 DEF Vote
<1>3. ASSUME NEW m \in Members, InsertPoll(m) PROVE EntryTypeOK'
  <2>1. member[m].motion \in Motions
    BY <1>3 DEF InsertPoll
  <2> QED
    BY <1>3, <2>1 DEF InsertPoll
<1>4. ASSUME NEW m \in Members, Count(m) PROVE EntryTypeOK'
  <2>1. member[m].poll \in Polls /\ member[m].value \in {"yes", "no"}
    BY <1>4 DEF Count
  <2>2. With(ballots[member[m].poll], m, member[m].value)
          \in [yes : SUBSET Members, no : SUBSET Members]
    BY <2>1, WithGrows
  <2> QED
    BY <1>4, <2>1, <2>2 DEF Count
<1>5. ASSUME NEW m \in Members, CommitVote(m) PROVE EntryTypeOK'
  <2>1. /\ member[m].poll \in Polls /\ member[m].value \in {"yes", "no"}
        /\ poll[member[m].poll] # NoPoll
    BY <1>5 DEF CommitVote, CountStands
  <2>2. With(ballots[member[m].poll], m, member[m].value)
          \in [yes : SUBSET Members, no : SUBSET Members]
    BY <2>1, WithGrows
  <2>3. Verdict(member[m].counts) \in {"none", "passed", "failed"}
    BY DEF Verdict
  <2>4. /\ ballots' \in [Polls -> [yes : SUBSET Members, no : SUBSET Members]]
        /\ member' \in [Members -> {member[n] : n \in Members} \cup {Away}
                                     \cup [at : {"passed"}, poll : Polls]]
        /\ poll' \in [Polls -> {NoPoll} \cup
                       [status : {"open", "passed", "failed"}, motion : Motions]]
    BY <1>5, <2>1, <2>2, <2>3 DEF CommitVote
  <2> QED
    BY <1>5, <2>1, <2>4 DEF CommitVote
<1>6. ASSUME NEW m \in Members, ReadPassed(m) PROVE EntryTypeOK'
  <2>1. member[m].poll \in Polls
    BY <1>6 DEF ReadPassed
  <2> QED
    BY <1>6, <2>1 DEF ReadPassed
<1>7. ASSUME NEW m \in Members, Apply(m) PROVE EntryTypeOK'
  <2>1. member[m].motion \in Motions /\ ApplyStands(m)
    BY <1>7 DEF Apply
  <2> QED
    BY <1>7, <2>1 DEF Apply, ApplyStands, Motions
<1>8. ASSUME NEW m \in Members, MemberFails(m) PROVE EntryTypeOK'
  BY <1>8 DEF MemberFails
<1>9. CASE DeleteEntry
  BY <1>9 DEF DeleteEntry
<1>10. CASE UNCHANGED entryVars
  BY <1>10 DEF entryVars
<1> QED
  BY <1>1, <1>2, <1>3, <1>4, <1>5, <1>6, <1>7, <1>8, <1>9, <1>10 DEF EntryNext

LEMMA EntryInvStep == EntryInv /\ [EntryNext]_entryVars => EntryInv'
<1> SUFFICES ASSUME EntryInv, [EntryNext]_entryVars PROVE EntryInv'
  OBVIOUS
<1>0. EntryTypeOK'
  BY EntryTypeStep
<1> USE <1>0 DEF EntryInv, EntryTypeOK, MemberIs
<1> DEFINE Rest == /\ \A m \in Members : CountStands(m)' /\ ApplyStands(m)'
                   /\ \A p \in Polls : PassedStands(p)'
<1>1. ASSUME UNCHANGED <<entry, poll, ballots>>, NEW m \in Members,
             \A n \in Members \ {m} : member'[n] = member[n],
             member'[m].at \notin {"counted", "apply"}
      PROVE  Rest
  BY <1>1 DEF CountStands, ApplyStands, PassedStands, Backed
<1>2. ASSUME NEW m \in Members, InsertPoll(m) PROVE Rest
  <2>1. \A p \in Polls : poll'[p] = poll[p] \/ (poll[p] = NoPoll /\ poll'[p].status = "open"
                                                 /\ poll'[p] # NoPoll)
    BY <1>2 DEF InsertPoll, NoPoll
  <2>2. \A n \in Members : member'[n] = member[n] \/ member'[n] = Away
    BY <1>2 DEF InsertPoll
  <2>3. UNCHANGED <<entry, ballots>>
    BY <1>2 DEF InsertPoll
  <2> QED
    BY <2>1, <2>2, <2>3 DEF CountStands, ApplyStands, PassedStands, Backed, Away
<1>3. ASSUME NEW m \in Members, Count(m) PROVE Rest
  <2>1. UNCHANGED <<entry, poll, ballots>> /\ \A n \in Members \ {m} : member'[n] = member[n]
    BY <1>3 DEF Count
  <2>2. member'[m] = Away \/
        (/\ poll[member'[m].poll] # NoPoll
         /\ member'[m].at = "counted"
         /\ member'[m].counts = With(ballots[member'[m].poll], m, member'[m].value))
    BY <1>3 DEF Count
  <2> QED
    BY <2>1, <2>2 DEF CountStands, ApplyStands, PassedStands, Backed, Away
<1>4. ASSUME NEW m \in Members, CommitVote(m) PROVE Rest
  <2>0. PICK p \in Polls, v \in {"yes", "no"}, verdict \in {"none", "passed", "failed"} :
          p = member[m].poll /\ v = member[m].value /\ verdict = Verdict(member[m].counts)
    BY <1>4 DEF CommitVote, Verdict, Away
  <2>1. /\ poll[p] # NoPoll
        /\ member[m].counts.yes \subseteq With(ballots[p], m, v).yes
        /\ member[m].counts \in [yes : SUBSET Members, no : SUBSET Members]
    BY <1>4, <2>0 DEF CommitVote, CountStands, Away
  <2>2. /\ ballots'[p] = With(ballots[p], m, v)
        /\ \A q \in Polls \ {p} : ballots'[q] = ballots[q] /\ poll'[q] = poll[q]
        /\ poll'[p] = [poll[p] EXCEPT !.status = IF verdict = "none" THEN @ ELSE verdict]
        /\ poll'[p].motion = poll[p].motion /\ poll'[p] # NoPoll
        /\ entry' = entry
        /\ \A n \in Members \ {m} : member'[n] = member[n]
        /\ member'[m].at \notin {"counted", "apply"}
    BY <1>4, <2>0, <2>1 DEF CommitVote, Away, NoPoll
  <2>3. \A q \in Polls : ballots[q].yes \subseteq ballots'[q].yes
    BY <2>1, <2>2, WithGrows
  <2>4. \A q \in Polls : Cardinality(ballots[q].yes) <= Cardinality(ballots'[q].yes)
                         /\ Cardinality(ballots[q].yes) \in Nat
                         /\ Cardinality(ballots'[q].yes) \in Nat
    BY <2>3, BallotsGrow
  <2>5. PassedStands(p)'
    <3>1. CASE verdict = "passed"
      <4>1. Cardinality(member[m].counts.yes) >= EntryModQuorum
        BY <2>0, <3>1 DEF Verdict, EntryModQuorum
      <4>2. /\ Cardinality(member[m].counts.yes) <= Cardinality(ballots'[p].yes)
            /\ Cardinality(member[m].counts.yes) \in Nat
            /\ Cardinality(ballots'[p].yes) \in Nat
        BY <2>1, <2>2, BallotsGrow
      <4> QED
        BY <4>1, <4>2 DEF PassedStands, EntryModQuorum
    <3>2. CASE verdict # "passed"
      <4>1. poll'[p].status = "passed" => poll[p].status = "passed"
        BY <2>1, <2>2, <3>2
      <4> QED
        BY <4>1, <2>1, <2>4 DEF PassedStands, EntryModQuorum
    <3> QED
      BY <3>1, <3>2
  <2>6. \A q \in Polls : PassedStands(q)'
    BY <2>2, <2>5 DEF PassedStands
  <2>7. \A n \in Members : ApplyStands(n)'
    <3>1. \A motion : Backed(motion) => Backed(motion)'
      BY <2>2, <2>4 DEF Backed, EntryModQuorum
    <3> QED
      BY <2>2, <3>1 DEF ApplyStands
  <2>8. ASSUME NEW n \in Members PROVE CountStands(n)'
    <3>1. CASE n = m
      BY <3>1, <2>2 DEF CountStands
    <3>2. CASE n # m /\ member[n].at = "counted"
      <4>1. /\ member[n].poll \in Polls /\ member[n].value \in {"yes", "no"}
            /\ member[n].counts.yes \subseteq With(ballots[member[n].poll], n, member[n].value).yes
            /\ poll[member[n].poll] # NoPoll
        BY <3>2 DEF CountStands, Away
      <4>2. With(ballots[member[n].poll], n, member[n].value).yes
              \subseteq With(ballots'[member[n].poll], n, member[n].value).yes
        <5>1. CASE member[n].poll = p
          <6>1. n \in Members \ {m}
            BY <3>2
          <6>2. ballots[p] \in [yes : SUBSET Members, no : SUBSET Members]
            OBVIOUS
          <6>3. With(ballots[p], n, member[n].value).yes
                  \subseteq With(With(ballots[p], m, v), n, member[n].value).yes
            BY <6>1, <6>2, <4>1, WithGrows
          <6> QED
            BY <5>1, <6>3, <2>2
        <5>2. CASE member[n].poll # p
          BY <5>2, <2>2, <4>1
        <5> QED
          BY <5>1, <5>2
      <4>3. poll'[member[n].poll] # NoPoll
        BY <2>2, <4>1
      <4> QED
        BY <4>1, <4>2, <4>3, <3>2, <2>2 DEF CountStands
    <3>3. CASE n # m /\ member[n].at # "counted"
      BY <3>3, <2>2 DEF CountStands
    <3> QED
      BY <3>1, <3>2, <3>3
  <2> QED
    BY <2>6, <2>7, <2>8
<1>5. ASSUME NEW m \in Members, ReadPassed(m) PROVE Rest
  <2>1. UNCHANGED <<entry, poll, ballots>> /\ \A n \in Members \ {m} : member'[n] = member[n]
    BY <1>5 DEF ReadPassed
  <2>2. member[m].poll \in Polls
    BY <1>5 DEF ReadPassed, Away
  <2>3. member'[m] = Away \/
        (/\ poll[member[m].poll] # NoPoll /\ poll[member[m].poll].status = "passed"
         /\ member'[m] = [at |-> "apply", motion |-> poll[member[m].poll].motion]
         /\ member'[m].motion # [action |-> "move", to |-> NoShelf])
    BY <1>5 DEF ReadPassed
  <2> QED
    BY <2>1, <2>2, <2>3 DEF CountStands, ApplyStands, PassedStands, Backed, Away
<1>6. ASSUME NEW m \in Members, Apply(m) PROVE Rest
  <2>1. /\ UNCHANGED <<poll, ballots>> /\ entry'.there = entry.there
        /\ \A n \in Members \ {m} : member'[n] = member[n]
        /\ member'[m] = Away
    BY <1>6 DEF Apply
  <2> QED
    BY <2>1 DEF CountStands, ApplyStands, PassedStands, Backed, Away
<1>7. CASE DeleteEntry
  BY <1>7 DEF DeleteEntry, CountStands, ApplyStands, PassedStands, NoPoll
<1>8. ASSUME NEW m \in Members, NEW motion \in Motions, Propose(m, motion) PROVE Rest
  BY <1>1, <1>8 DEF Propose
<1>9. ASSUME NEW m \in Members, NEW value \in {"yes", "no"}, Vote(m, value) PROVE Rest
  BY <1>1, <1>9 DEF Vote
<1>10. ASSUME NEW m \in Members, MemberFails(m) PROVE Rest
  BY <1>1, <1>10 DEF MemberFails, Away
<1>11. CASE UNCHANGED entryVars
  BY <1>11 DEF entryVars, CountStands, ApplyStands, PassedStands, Backed
<1> QED
  BY <1>0, <1>2, <1>3, <1>4, <1>5, <1>6, <1>7, <1>8, <1>9, <1>10, <1>11 DEF EntryNext

(* The entry, its polls, ballots and the members' requests keep their ranges. *)
THEOREM EntryTyped == EntrySpec => []EntryTypeOK
<1>1. EntryInv => EntryTypeOK
  BY DEF EntryInv
<1> QED
  BY <1>1, EntryInvInit, EntryInvStep, PTL DEF EntrySpec

(* However ballots and polls cross, the entry changes only as two different   *)
(* members asked for in one proposal (vote_on_entry_mod,                      *)
(* apply_entry_mod_action).                                                   *)
THEOREM ChangesWereVoted == EntrySpec => EntryChangesWereVoted
<1> DEFINE Voted ==
      /\ entry'.shelf # entry.shelf => Backed([action |-> "move", to |-> entry'.shelf])
      /\ entry'.removed # entry.removed => Backed([action |-> "remove", to |-> NoShelf])
<1>1. EntryInv /\ EntryNext => Voted
  <2> SUFFICES ASSUME EntryInv, EntryNext PROVE Voted
    OBVIOUS
  <2>1. ASSUME NEW m \in Members, Apply(m) PROVE Voted
    <3>1. member[m].motion \in Motions /\ ApplyStands(m)
      BY <2>1 DEF EntryInv, EntryTypeOK, Apply, Away
    <3> QED
      BY <2>1, <3>1 DEF EntryInv, EntryTypeOK, Apply, ApplyStands, Motions
  <2>2. CASE DeleteEntry
    BY <2>2 DEF EntryInv, EntryTypeOK, DeleteEntry
  <2>3. CASE UNCHANGED entry
    BY <2>3
  <2> QED
    BY <2>1, <2>2, <2>3
    DEF EntryNext, Propose, Vote, InsertPoll, Count, CommitVote, ReadPassed, MemberFails
<1>2. EntryInv /\ [EntryNext]_entryVars => [Voted]_entryVars
  BY <1>1
<1> QED
  BY <1>2, EntryInvInit, EntryInvStep, PTL DEF EntrySpec, EntryChangesWereVoted

-----------------------------------------------------------------------------
(* Lending *)

(* Whoever has passed the check of a work's copies, or of their own limit,   *)
(* and has no row yet, is counted with the rows.                             *)
Asking(w) == {t \in LoanTabs : lend[t].at \in {"limit", "grant"} /\ lend[t].work = w}
Granting(b) == {t \in LoanTabs : lend[t].at = "grant" /\ lend[t].reader = b}

LoanAbout(t) ==
  lend[t].at # "idle" => lend[t].work \in LoanWorks /\ lend[t].reader \in Borrowers
CopiesBound(w) ==
  Cardinality(OnLoan(w)) + Cardinality(Asking(w)) + 1 <= Copies + Cardinality(LoanTabs) + misread
ReaderBound(b) ==
  Cardinality(Holding(b)) + Cardinality(Granting(b)) + 1
    <= MaxLoans + Cardinality(LoanTabs) + misread
LoanInv ==
  /\ LoanTypeOK
  /\ \A t \in LoanTabs : LoanAbout(t)
  /\ \A w \in LoanWorks : CopiesBound(w)
  /\ \A b \in Borrowers : ReaderBound(b)

LEMMA LoanTabsCount ==
  /\ Cardinality(LoanTabs) \in Nat /\ Cardinality(LoanTabs) >= 1
  /\ Copies \in Nat /\ MaxLoans \in Nat
<1>1. Cardinality(LoanTabs) \in Nat /\ Cardinality(LoanTabs) # 0
  BY LendingAssumption, FS_CardinalityType, FS_EmptySet
<1> QED
  BY <1>1, LendingAssumption

LEMMA LoanSetsFinite ==
  ASSUME NEW w, NEW b
  PROVE  /\ IsFiniteSet(OnLoan(w)) /\ Cardinality(OnLoan(w)) \in Nat
         /\ IsFiniteSet(Holding(b)) /\ Cardinality(Holding(b)) \in Nat
         /\ IsFiniteSet(Asking(w)) /\ Cardinality(Asking(w)) \in Nat
         /\ IsFiniteSet(Granting(b)) /\ Cardinality(Granting(b)) \in Nat
<1>1. /\ OnLoan(w) \in SUBSET Borrowers /\ Holding(b) \in SUBSET LoanWorks
      /\ Asking(w) \in SUBSET LoanTabs /\ Granting(b) \in SUBSET LoanTabs
  BY DEF OnLoan, Holding, Asking, Granting
<1> QED
  BY <1>1, LendingAssumption, PartIsSmaller

LEMMA LoanInvInit == LoanInit => LoanInv
<1> SUFFICES ASSUME LoanInit PROVE LoanInv
  OBVIOUS
<1>1. LoanTypeOK
  BY LendingAssumption DEF LoanInit, LoanTypeOK, NoLoan, NoLend
<1>2. \A w \in LoanWorks : OnLoan(w) = {} /\ Asking(w) = {}
  BY DEF LoanInit, OnLoan, Active, Asking, NoLoan, NoLend
<1>3. \A b \in Borrowers : Holding(b) = {} /\ Granting(b) = {}
  BY DEF LoanInit, Holding, Active, Granting, NoLoan, NoLend
<1>4. misread = 0 /\ \A t \in LoanTabs : LoanAbout(t)
  BY DEF LoanInit, LoanAbout, NoLend
<1>5. Cardinality({}) = 0
  BY FS_EmptySet
<1>6. \A w \in LoanWorks : Cardinality(OnLoan(w)) = 0 /\ Cardinality(Asking(w)) = 0
  BY <1>2, <1>5
<1>7. \A b \in Borrowers : Cardinality(Holding(b)) = 0 /\ Cardinality(Granting(b)) = 0
  BY <1>3, <1>5
<1>8. \A w \in LoanWorks : CopiesBound(w)
  BY <1>4, <1>6, LoanTabsCount, LendingAssumption DEF CopiesBound
<1>9. \A b \in Borrowers : ReaderBound(b)
  BY <1>4, <1>7, LoanTabsCount, LendingAssumption DEF ReaderBound
<1> QED
  BY <1>1, <1>4, <1>8, <1>9 DEF LoanInv

LEMMA LoanTypeStep ==
  LoanInv /\ [LoanNext]_loanVars => LoanTypeOK' /\ (\A t \in LoanTabs : LoanAbout(t))'
<1> SUFFICES ASSUME LoanInv, [LoanNext]_loanVars
             PROVE  LoanTypeOK' /\ \A t \in LoanTabs : LoanAbout(t)'
  OBVIOUS
<1> USE LendingAssumption DEF LoanInv, LoanTypeOK, LoanAbout, LoanOver, NoLend
<1> DEFINE Goal == LoanTypeOK' /\ \A t \in LoanTabs : LoanAbout(t)'
<1>1. ASSUME NEW t \in LoanTabs, NEW w \in LoanWorks, NEW b \in Borrowers,
             LoanAsk(t, w, b) \/ LoanFind(t, w, b)
      PROVE  Goal
  BY <1>1 DEF LoanAsk, LoanFind, Counted
<1>2. ASSUME NEW t \in LoanTabs, LoanLimit(t) \/ LoanEnds(t) PROVE Goal
  <2>1. CASE LoanLimit(t)
    BY <2>1 DEF LoanLimit, Counted
  <2>2. CASE LoanEnds(t)
    BY <2>2 DEF LoanEnds
  <2> QED
    BY <1>2, <2>1, <2>2
<1>3. ASSUME NEW t \in LoanTabs, LoanGrant(t) PROVE Goal
  BY <1>3 DEF LoanGrant, Granted
<1>4. ASSUME NEW t \in LoanTabs, LoanRevoke(t) PROVE Goal
  BY <1>4 DEF LoanRevoke
<1>5. CASE LoanSweep
  BY <1>5 DEF LoanSweep
<1>6. CASE LoanTick
  <2>1. ASSUME NEW k \in LoanWorks \X Borrowers
        PROVE  [loans[k] EXCEPT !.left = IF @ > 0 THEN @ - 1 ELSE 0]
                 \in [row : {"absent", "granted", "revoked"}, left : 0..LoanTime,
                      expired : BOOLEAN]
    OBVIOUS
  <2> QED
    BY <1>6, <2>1 DEF LoanTick
<1>7. CASE UNCHANGED loanVars
  BY <1>7 DEF loanVars
<1> QED
  BY <1>1, <1>2, <1>3, <1>4, <1>5, <1>6, <1>7 DEF LoanNext

(* A step that brings no loan and no new check keeps the bounds. *)
LEMMA LoanSetsShrink ==
  ASSUME LoanInv, misread' = misread,
         \A w \in LoanWorks : OnLoan(w)' \subseteq OnLoan(w) /\ Asking(w)' \subseteq Asking(w),
         \A b \in Borrowers : Holding(b)' \subseteq Holding(b) /\ Granting(b)' \subseteq Granting(b)
  PROVE  (\A w \in LoanWorks : CopiesBound(w)') /\ (\A b \in Borrowers : ReaderBound(b)')
<1> USE LoanTabsCount DEF LoanInv, LoanTypeOK
<1>1. ASSUME NEW w \in LoanWorks PROVE CopiesBound(w)'
  <2>1. /\ Cardinality(OnLoan(w)') <= Cardinality(OnLoan(w)) /\ Cardinality(OnLoan(w)') \in Nat
        /\ Cardinality(Asking(w)') <= Cardinality(Asking(w)) /\ Cardinality(Asking(w)') \in Nat
        /\ Cardinality(OnLoan(w)) \in Nat /\ Cardinality(Asking(w)) \in Nat
    BY LoanSetsFinite, PartIsSmaller
  <2> QED
    BY <2>1 DEF CopiesBound
<1>2. ASSUME NEW b \in Borrowers PROVE ReaderBound(b)'
  <2>1. /\ Cardinality(Holding(b)') <= Cardinality(Holding(b)) /\ Cardinality(Holding(b)') \in Nat
        /\ Cardinality(Granting(b)') <= Cardinality(Granting(b)) /\ Cardinality(Granting(b)') \in Nat
        /\ Cardinality(Holding(b)) \in Nat /\ Cardinality(Granting(b)) \in Nat
    BY LoanSetsFinite, PartIsSmaller
  <2> QED
    BY <2>1 DEF ReaderBound
<1> QED
  BY <1>1, <1>2

LEMMA LoanBoundsStep ==
  LoanInv /\ [LoanNext]_loanVars =>
    (\A w \in LoanWorks : CopiesBound(w))' /\ (\A b \in Borrowers : ReaderBound(b))'
<1> SUFFICES ASSUME LoanInv, [LoanNext]_loanVars
             PROVE  (\A w \in LoanWorks : CopiesBound(w)') /\ \A b \in Borrowers : ReaderBound(b)'
  OBVIOUS
<1>0. misread \in Nat
  BY LendingAssumption DEF LoanInv, LoanTypeOK
<1> USE <1>0, LoanTabsCount DEF LoanInv, LoanTypeOK
<1> DEFINE Goal == (\A w \in LoanWorks : CopiesBound(w)') /\ \A b \in Borrowers : ReaderBound(b)'
<1>1. ASSUME NEW t \in LoanTabs, NEW w \in LoanWorks, NEW b \in Borrowers, LoanAsk(t, w, b)
      PROVE  Goal
  <2>1. /\ \A v \in LoanWorks : OnLoan(v)' = OnLoan(v)
        /\ \A c \in Borrowers : Holding(c)' = Holding(c) /\ Granting(c)' = Granting(c)
        /\ \A v \in LoanWorks \ {w} : Asking(v)' = Asking(v)
        /\ Asking(w) \subseteq LoanTabs \ {t} /\ Asking(w)' \subseteq Asking(w) \cup {t}
    BY <1>1 DEF LoanAsk, OnLoan, Holding, Active, Granting, Asking
  <2>2. /\ misread' \in Nat /\ misread' >= misread
        /\ Cardinality(OnLoan(w)) < Copies \/ misread' = misread + 1
    BY <1>1 DEF LoanAsk, Counted, CopyFree
  <2>3. /\ Cardinality(Asking(w)') \in Nat
        /\ Cardinality(Asking(w)') <= Cardinality(Asking(w)) + 1
        /\ Cardinality(Asking(w)) + 1 <= Cardinality(LoanTabs)
    <3>1. Asking(w)' \in SUBSET LoanTabs
      BY <2>1
    <3> QED
      BY <2>1, <3>1, LendingAssumption, LoanSetsFinite, PartIsSmaller, OneMoreAtMost, OneLess
  <2>4. CopiesBound(w)'
    BY <2>1, <2>2, <2>3, LoanSetsFinite DEF CopiesBound
  <2>5. \A v \in LoanWorks \ {w} : CopiesBound(v)'
    BY <2>1, <2>2, LoanSetsFinite DEF CopiesBound
  <2>6. \A c \in Borrowers : ReaderBound(c)'
    BY <2>1, <2>2, LoanSetsFinite DEF ReaderBound
  <2> QED
    BY <2>4, <2>5, <2>6
<1>2. ASSUME NEW t \in LoanTabs, LoanLimit(t) PROVE Goal
  <2>0. PICK b \in Borrowers : b = lend[t].reader
    BY <1>2 DEF LoanLimit, LoanAbout
  <2>1. /\ \A v \in LoanWorks : OnLoan(v)' = OnLoan(v) /\ Asking(v)' = Asking(v)
        /\ \A c \in Borrowers : Holding(c)' = Holding(c)
        /\ \A c \in Borrowers \ {b} : Granting(c)' = Granting(c)
        /\ Granting(b) \subseteq LoanTabs \ {t} /\ Granting(b)' \subseteq Granting(b) \cup {t}
    BY <1>2, <2>0 DEF LoanLimit, OnLoan, Holding, Active, Granting, Asking
  <2>2. /\ misread' \in Nat /\ misread' >= misread
        /\ Cardinality(Holding(b)) < MaxLoans \/ misread' = misread + 1
    BY <1>2, <2>0 DEF LoanLimit, Counted, UnderLimit
  <2>3. /\ Cardinality(Granting(b)') \in Nat
        /\ Cardinality(Granting(b)') <= Cardinality(Granting(b)) + 1
        /\ Cardinality(Granting(b)) + 1 <= Cardinality(LoanTabs)
    <3>1. Granting(b)' \in SUBSET LoanTabs
      BY <2>1
    <3> QED
      BY <2>1, <3>1, LendingAssumption, LoanSetsFinite, PartIsSmaller, OneMoreAtMost, OneLess
  <2>4. ReaderBound(b)'
    BY <2>1, <2>2, <2>3, LoanSetsFinite DEF ReaderBound
  <2>5. \A c \in Borrowers \ {b} : ReaderBound(c)'
    BY <2>1, <2>2, LoanSetsFinite DEF ReaderBound
  <2>6. \A v \in LoanWorks : CopiesBound(v)'
    BY <2>1, <2>2, LoanSetsFinite DEF CopiesBound
  <2> QED
    BY <2>4, <2>5, <2>6
<1>3. ASSUME NEW t \in LoanTabs, LoanGrant(t) PROVE Goal
  <2>0. PICK w \in LoanWorks, b \in Borrowers : w = lend[t].work /\ b = lend[t].reader
    BY <1>3 DEF LoanGrant, LoanAbout
  <2>1. /\ misread' = misread
        /\ \A v \in LoanWorks, c \in Borrowers :
             <<v, c>> # <<w, b>> => loans'[<<v, c>>] = loans[<<v, c>>]
        /\ \A s \in LoanTabs \ {t} : lend'[s] = lend[s]
        /\ lend'[t].at = "idle" /\ lend[t].at = "grant"
    BY <1>3, <2>0 DEF LoanGrant, LoanOver, NoLend
  <2>2. /\ \A v \in LoanWorks \ {w} : OnLoan(v)' = OnLoan(v)
        /\ OnLoan(w)' \subseteq OnLoan(w) \cup {b}
        /\ \A c \in Borrowers \ {b} : Holding(c)' = Holding(c)
        /\ Holding(b)' \subseteq Holding(b) \cup {w}
    BY <2>1 DEF OnLoan, Holding, Active
  <2>3. /\ \A v \in LoanWorks \ {w} : Asking(v)' = Asking(v)
        /\ t \in Asking(w) /\ Asking(w)' = Asking(w) \ {t}
        /\ \A c \in Borrowers \ {b} : Granting(c)' = Granting(c)
        /\ t \in Granting(b) /\ Granting(b)' = Granting(b) \ {t}
    <3>1. /\ \A v \in LoanWorks \ {w} : Asking(v)' = Asking(v)
          /\ t \in Asking(w) /\ Asking(w)' = Asking(w) \ {t}
      BY <2>0, <2>1 DEF Asking
    <3>2. /\ \A c \in Borrowers \ {b} : Granting(c)' = Granting(c)
          /\ t \in Granting(b) /\ Granting(b)' = Granting(b) \ {t}
      BY <2>0, <2>1 DEF Granting
    <3> QED
      BY <3>1, <3>2
  <2>4. CopiesBound(w)'
    <3>1. /\ Cardinality(Asking(w)') + 1 <= Cardinality(Asking(w))
          /\ Cardinality(Asking(w)') \in Nat
      BY <2>3, LoanSetsFinite, OneLess, PartIsSmaller
    <3>2. Cardinality(OnLoan(w)') <= Cardinality(OnLoan(w)) + 1
      BY <2>2, LoanSetsFinite, OneMoreAtMost
    <3>3. Cardinality(OnLoan(w)') \in Nat
      <4>1. OnLoan(w)' \in SUBSET Borrowers
        BY DEF OnLoan
      <4> QED
        BY <4>1, LendingAssumption, PartIsSmaller
    <3>4. /\ Cardinality(OnLoan(w)) \in Nat /\ Cardinality(Asking(w)) \in Nat
          /\ Cardinality(LoanTabs) \in Nat /\ Copies \in Nat /\ misread \in Nat
      BY LoanSetsFinite
    <3>6. Cardinality(OnLoan(w)) + Cardinality(Asking(w)) + 1
            <= Copies + Cardinality(LoanTabs) + misread
      BY DEF CopiesBound
    <3>5. Cardinality(OnLoan(w)') + Cardinality(Asking(w)') + 1
            <= Copies + Cardinality(LoanTabs) + misread'
      BY <2>1, <3>1, <3>2, <3>3, <3>4, <3>6
    <3> QED
      BY <3>5 DEF CopiesBound
  <2>5. ReaderBound(b)'
    <3>1. /\ Cardinality(Granting(b)') + 1 <= Cardinality(Granting(b))
          /\ Cardinality(Granting(b)') \in Nat
      BY <2>3, LoanSetsFinite, OneLess, PartIsSmaller
    <3>2. Cardinality(Holding(b)') <= Cardinality(Holding(b)) + 1
      BY <2>2, LoanSetsFinite, OneMoreAtMost
    <3>3. Cardinality(Holding(b)') \in Nat
      <4>1. Holding(b)' \in SUBSET LoanWorks
        BY DEF Holding
      <4> QED
        BY <4>1, LendingAssumption, PartIsSmaller
    <3>4. /\ Cardinality(Holding(b)) \in Nat /\ Cardinality(Granting(b)) \in Nat
          /\ Cardinality(LoanTabs) \in Nat /\ MaxLoans \in Nat /\ misread \in Nat
      BY LoanSetsFinite
    <3>6. Cardinality(Holding(b)) + Cardinality(Granting(b)) + 1
            <= MaxLoans + Cardinality(LoanTabs) + misread
      BY DEF ReaderBound
    <3>5. Cardinality(Holding(b)') + Cardinality(Granting(b)') + 1
            <= MaxLoans + Cardinality(LoanTabs) + misread'
      BY <2>1, <3>1, <3>2, <3>3, <3>4, <3>6
    <3> QED
      BY <3>5 DEF ReaderBound
  <2>6. \A v \in LoanWorks \ {w} : CopiesBound(v)'
    BY <2>1, <2>2, <2>3, LoanSetsFinite DEF CopiesBound
  <2>7. \A c \in Borrowers \ {b} : ReaderBound(c)'
    BY <2>1, <2>2, <2>3, LoanSetsFinite DEF ReaderBound
  <2> QED
    BY <2>4, <2>5, <2>6, <2>7
<1>4. ASSUME NEW t \in LoanTabs, LoanRevoke(t) \/ LoanEnds(t) PROVE Goal
  <2>1. /\ misread' = misread
        /\ \A s \in LoanTabs : lend'[s] = lend[s] \/ lend'[s].at = "idle"
        /\ \A v \in LoanWorks, c \in Borrowers :
             loans'[<<v, c>>] = loans[<<v, c>>] \/ loans'[<<v, c>>].row = "revoked"
    <3>1. CASE LoanRevoke(t)
      BY <3>1 DEF LoanRevoke, LoanOver, NoLend, LoanAbout
    <3>2. CASE LoanEnds(t)
      BY <3>2 DEF LoanEnds, LoanOver, NoLend
    <3> QED
      BY <1>4, <3>1, <3>2
  <2>2. \A w \in LoanWorks : OnLoan(w)' \subseteq OnLoan(w) /\ Asking(w)' \subseteq Asking(w)
    BY <2>1 DEF OnLoan, Active, Asking
  <2>3. \A b \in Borrowers : Holding(b)' \subseteq Holding(b) /\ Granting(b)' \subseteq Granting(b)
    BY <2>1 DEF Holding, Active, Granting
  <2> QED
    BY <2>1, <2>2, <2>3, LoanSetsShrink
<1>5. CASE LoanSweep \/ LoanTick \/ UNCHANGED loanVars
  <2>1. /\ UNCHANGED <<lend, misread>>
        /\ \A v \in LoanWorks, c \in Borrowers : Active(<<v, c>>)' => Active(<<v, c>>)
    BY <1>5 DEF LoanSweep, LoanTick, loanVars, Active, LoanDue
  <2>2. \A w \in LoanWorks : OnLoan(w)' \subseteq OnLoan(w) /\ Asking(w)' \subseteq Asking(w)
    BY <2>1 DEF OnLoan, Asking
  <2>3. \A b \in Borrowers : Holding(b)' \subseteq Holding(b) /\ Granting(b)' \subseteq Granting(b)
    BY <2>1 DEF Holding, Granting
  <2> QED
    BY <2>1, <2>2, <2>3, LoanSetsShrink
<1>6. ASSUME NEW t \in LoanTabs, NEW w \in LoanWorks, NEW b \in Borrowers, LoanFind(t, w, b)
      PROVE  Goal
  <2>1. /\ UNCHANGED <<loans, misread>>
        /\ \A s \in LoanTabs : lend'[s] = lend[s] \/ lend'[s].at = "revoke"
    BY <1>6 DEF LoanFind
  <2>2. \A v \in LoanWorks : OnLoan(v)' \subseteq OnLoan(v) /\ Asking(v)' \subseteq Asking(v)
    BY <2>1 DEF OnLoan, Active, Asking
  <2>3. \A c \in Borrowers : Holding(c)' \subseteq Holding(c) /\ Granting(c)' \subseteq Granting(c)
    BY <2>1 DEF Holding, Active, Granting
  <2> QED
    BY <2>1, <2>2, <2>3, LoanSetsShrink
<1> QED
  BY <1>1, <1>2, <1>3, <1>4, <1>5, <1>6 DEF LoanNext

LEMMA LoanInvStep == LoanInv /\ [LoanNext]_loanVars => LoanInv'
  BY LoanTypeStep, LoanBoundsStep DEF LoanInv

(* Loans, requests and the sweep's reading keep their ranges.                 *)
THEOREM LoansTyped == LoanSpec => []LoanTypeOK
<1>1. LoanInv => LoanTypeOK
  BY DEF LoanInv
<1> QED
  BY <1>1, LoanInvInit, LoanInvStep, PTL DEF LoanSpec

(* Copies and loans go beyond their limits by no more than the requests that  *)
(* were in flight together and the counts that failed (lend_work).            *)
THEOREM LimitsHold == LoanSpec => []LimitsBoundedByRequests
<1>1. LoanInv => LimitsBoundedByRequests
  <2> SUFFICES ASSUME LoanInv PROVE LimitsBoundedByRequests
    OBVIOUS
  <2>1. misread \in Nat /\ Copies \in Nat /\ MaxLoans \in Nat
    BY LendingAssumption DEF LoanInv, LoanTypeOK
  <2> QED
    BY <2>1, LoanTabsCount, LoanSetsFinite
    DEF LoanInv, CopiesBound, ReaderBound, LimitsBoundedByRequests
<1> QED
  BY <1>1, LoanInvInit, LoanInvStep, PTL DEF LoanSpec

(* The stamp of an expired loan and its window never contradict each other,   *)
(* through any re-grant and sweep (grant_loan, expire_due_loans).             *)
THEOREM ExpiredStaysOver == LoanSpec => []ExpiredIsOver
<1> DEFINE Inv == LoanInv /\ ExpiredIsOver
<1>1. LoanInit => Inv
  BY LoanInvInit DEF LoanInit, ExpiredIsOver, NoLoan
<1>2. Inv /\ [LoanNext]_loanVars => Inv'
  <2> SUFFICES ASSUME LoanInv, ExpiredIsOver, [LoanNext]_loanVars PROVE ExpiredIsOver'
    BY LoanInvStep
  <2> USE DEF ExpiredIsOver, LoanInv, LoanTypeOK
  <2>1. ASSUME NEW t \in LoanTabs, LoanGrant(t) PROVE ExpiredIsOver'
    BY <2>1 DEF LoanGrant, Granted
  <2>2. ASSUME NEW t \in LoanTabs, LoanRevoke(t) PROVE ExpiredIsOver'
    BY <2>2 DEF LoanRevoke
  <2>3. CASE LoanSweep
    BY <2>3 DEF LoanSweep, LoanDue
  <2>4. CASE LoanTick
    BY <2>4 DEF LoanTick
  <2>5. CASE UNCHANGED loans
    BY <2>5
  <2> QED
    BY <2>1, <2>2, <2>3, <2>4, <2>5
    DEF LoanNext, LoanAsk, LoanFind, LoanLimit, LoanEnds, loanVars
<1> QED
  BY <1>1, <1>2, PTL DEF LoanSpec

-----------------------------------------------------------------------------
(* Bounties *)

(* What is pledged and not audited yet, unit by unit: the sum of the gifts   *)
(* between the two writes is the size of this set.                           *)
UnitsOf(b, gift) == {b} \X (1..gift)
Owed == {u \in Backers \X (1..MaxFunded) :
           backing[u[1]].at = "audit" /\ u[2] <= backing[u[1]].gift}

(* A contribution read no more than was pledged by then, and pledges only     *)
(* grow; what waits for the audit trail is pledged already.                  *)
BackingFits(b) ==
  /\ backing[b].at = "write" => /\ backing[b].read <= pledged
                                /\ backing[b].read + backing[b].gift <= MaxFunded
  /\ backing[b].at = "audit" => backing[b].gift <= MaxFunded
BountyInv ==
  /\ BountyTypeOK
  /\ \A b \in Backers : BackingFits(b)
  /\ audited + Cardinality(Owed) <= pledged
  /\ OpenIsFunded

LEMMA OwedIsFinite == IsFiniteSet(Owed) /\ Cardinality(Owed) \in Nat
<1>1. IsFiniteSet(1..MaxFunded)
  BY BountyAssumption, FS_Interval
<1>2. IsFiniteSet(Backers \X (1..MaxFunded))
  BY <1>1, BountyAssumption, FS_Product
<1>3. Owed \in SUBSET (Backers \X (1..MaxFunded))
  BY DEF Owed
<1>4. IsFiniteSet(Owed)
  BY <1>2, <1>3, FS_Subset
<1> QED
  BY <1>4, FS_CardinalityType

LEMMA UnitsCounted ==
  ASSUME NEW b, NEW gift \in Nat
  PROVE  IsFiniteSet(UnitsOf(b, gift)) /\ Cardinality(UnitsOf(b, gift)) = gift
<1>1. IsFiniteSet(1..gift) /\ Cardinality(1..gift) = gift
  BY FS_Interval
<1>2. IsFiniteSet({b}) /\ Cardinality({b}) = 1
  BY FS_Singleton
<1> QED
  BY <1>1, <1>2, FS_Product DEF UnitsOf

LEMMA GiftsAreNat == Gifts \cup {0} \subseteq Nat
  BY BountyAssumption

LEMMA BountyInvInit == BountyInit => BountyInv
<1> SUFFICES ASSUME BountyInit PROVE BountyInv
  OBVIOUS
<1>1. BountyTypeOK
  BY BountyAssumption DEF BountyInit, BountyTypeOK, NoGift
<1>2. Owed = {}
  BY DEF Owed, BountyInit, NoGift
<1> QED
  BY <1>1, <1>2, FS_EmptySet DEF BountyInv, BountyInit, BackingFits, NoGift, OpenIsFunded

LEMMA BountyInvStep == BountyInv /\ [BountyNext]_bountyVars => BountyInv'
<1> SUFFICES ASSUME BountyInv, [BountyNext]_bountyVars PROVE BountyInv'
  OBVIOUS
<1> USE BountyAssumption DEF BountyInv, BountyTypeOK
<1>0. Cardinality(Owed) \in Nat /\ IsFiniteSet(Owed)
  BY OwedIsFinite
<1>1. CASE BountyCreate
  <2>1. Owed' = Owed
    BY <1>1 DEF BountyCreate, Owed
  <2>2. BountyTypeOK'
    BY <1>1 DEF BountyCreate
  <2> QED
    BY <1>0, <1>1, <2>1, <2>2 DEF BountyCreate, BackingFits, OpenIsFunded
<1>2. CASE BountyClaim
  <2>1. Owed' = Owed
    BY <1>2 DEF BountyClaim, Owed
  <2>2. BountyTypeOK'
    BY <1>2 DEF BountyClaim
  <2> QED
    BY <1>0, <1>2, <2>1, <2>2 DEF BountyClaim, BackingFits, OpenIsFunded
<1>3. ASSUME NEW b \in Backers, NEW gift \in Gifts, BountyRead(b, gift) PROVE BountyInv'
  <2>1. Owed' = Owed
    BY <1>3 DEF BountyRead, Owed
  <2>2. BountyTypeOK'
    BY <1>3 DEF BountyRead
  <2>3. \A c \in Backers : BackingFits(c)'
    BY <1>3 DEF BountyRead, BackingFits, OpenIsFunded
  <2>4. UNCHANGED <<bounty, pledged, audited>>
    BY <1>3 DEF BountyRead
  <2> QED
    BY <2>1, <2>2, <2>3, <2>4 DEF OpenIsFunded
<1>4. ASSUME NEW b \in Backers, BountyWrite(b) PROVE BountyInv'
  <2> DEFINE gift == backing[b].gift
             sum == backing[b].read + gift
  <2>1. /\ gift \in Nat /\ backing[b].read \in Nat /\ sum \in 0..MaxFunded
        /\ backing[b].read <= pledged
    BY <1>4 DEF BountyWrite, BackingFits
  <2>2. /\ bounty' = FundedRow(sum) /\ pledged' = pledged + gift
        /\ pledged' \in 0..MaxFunded /\ audited' = audited
        /\ backing' = [backing EXCEPT ![b].at = "audit"]
    BY <1>4, <2>1 DEF BountyWrite
  <2>3. BountyTypeOK'
    BY <2>1, <2>2 DEF FundedRow
  <2>4. \A c \in Backers : BackingFits(c)'
    BY <2>1, <2>2 DEF BackingFits
  <2>5. OpenIsFunded'
    BY <2>1, <2>2 DEF OpenIsFunded, FundedRow
  <2>6. Cardinality(Owed') = Cardinality(Owed) + gift
    <3>1. Owed' = Owed \cup UnitsOf(b, gift)
      BY <1>4, <2>1, <2>2 DEF Owed, UnitsOf, BountyWrite
    <3>2. Owed \cap UnitsOf(b, gift) = {}
      BY <1>4 DEF Owed, UnitsOf, BountyWrite
    <3>3. IsFiniteSet(UnitsOf(b, gift)) /\ Cardinality(UnitsOf(b, gift)) = gift
      BY <2>1, UnitsCounted
    <3>4. Cardinality(Owed \cup UnitsOf(b, gift)) =
            Cardinality(Owed) + Cardinality(UnitsOf(b, gift))
              - Cardinality(Owed \cap UnitsOf(b, gift))
      BY <1>0, <3>3, FS_Union
    <3>5. Cardinality(Owed \cap UnitsOf(b, gift)) = 0
      BY <3>2, FS_EmptySet
    <3>6. Cardinality(Owed \cup UnitsOf(b, gift)) = Cardinality(Owed) + gift
      BY <1>0, <2>1, <3>3, <3>4, <3>5
    <3> QED
      BY <3>1, <3>6
  <2>7. audited' + Cardinality(Owed') <= pledged'
    BY <1>0, <2>1, <2>2, <2>6
  <2> QED
    BY <2>3, <2>4, <2>5, <2>7
<1>5. ASSUME NEW b \in Backers, BountyAudit(b) PROVE BountyInv'
  <2> DEFINE gift == backing[b].gift
  <2>1. gift \in 0..MaxFunded
    <3>1. backing[b].gift \in Nat
      <4>1. backing[b].gift \in Gifts \cup {0}
        OBVIOUS
      <4> QED
        BY <4>1, GiftsAreNat
    <3>2. backing[b].gift <= MaxFunded
      BY <1>5 DEF BountyAudit, BackingFits
    <3> QED
      BY <3>1, <3>2
  <2>2. /\ UNCHANGED <<bounty, pledged>> /\ audited' = audited + gift
        /\ audited' \in 0..MaxFunded /\ backing' = [backing EXCEPT ![b] = NoGift]
    BY <1>5, <2>1 DEF BountyAudit, Written
  <2>3. Cardinality(Owed') = Cardinality(Owed) - gift
    <3>1. Owed' = Owed \ UnitsOf(b, gift)
      BY <1>5, <2>1, <2>2 DEF Owed, UnitsOf, BountyAudit, NoGift
    <3>2. Owed \cap UnitsOf(b, gift) = UnitsOf(b, gift)
      BY <1>5, <2>1 DEF Owed, UnitsOf, BountyAudit
    <3>3. Cardinality(UnitsOf(b, gift)) = gift
      BY <2>1, UnitsCounted
    <3>4. Cardinality(Owed \ UnitsOf(b, gift)) =
            Cardinality(Owed) - Cardinality(Owed \cap UnitsOf(b, gift))
      BY <1>0, FS_Difference
    <3> QED
      BY <3>1, <3>2, <3>3, <3>4
  <2>4. BountyTypeOK'
    BY <2>1, <2>2 DEF NoGift
  <2>5. \A c \in Backers : BackingFits(c)'
    BY <2>2 DEF BackingFits, NoGift
  <2>6. audited' + Cardinality(Owed') <= pledged' /\ audited' <= pledged'
    <3>1. UnitsOf(b, gift) \in SUBSET Owed
      BY <1>5, <2>1 DEF Owed, UnitsOf, BountyAudit
    <3>2. Cardinality(UnitsOf(b, gift)) = gift /\ Cardinality(UnitsOf(b, gift)) <= Cardinality(Owed)
      BY <1>0, <2>1, <3>1, UnitsCounted, FS_Subset
    <3> QED
      BY <1>0, <2>1, <2>2, <2>3, <3>2
  <2> QED
    BY <2>2, <2>4, <2>5, <2>6 DEF OpenIsFunded
<1>6. ASSUME NEW b \in Backers, BountyEnds(b) PROVE BountyInv'
  <2>1. UNCHANGED <<bounty, pledged, audited>> /\ backing' = [backing EXCEPT ![b] = NoGift]
    BY <1>6 DEF BountyEnds
  <2>2. Owed' \in SUBSET Owed
    BY <2>1 DEF Owed, NoGift
  <2>3. Cardinality(Owed') <= Cardinality(Owed) /\ Cardinality(Owed') \in Nat
    BY <1>0, <2>2, FS_Subset, FS_CardinalityType
  <2>4. BountyTypeOK'
    BY <2>1 DEF NoGift
  <2>5. \A c \in Backers : BackingFits(c)'
    BY <2>1 DEF BackingFits, NoGift
  <2> QED
    BY <1>0, <2>1, <2>3, <2>4, <2>5 DEF OpenIsFunded
<1>7. CASE UNCHANGED bountyVars
  BY <1>7 DEF bountyVars, BackingFits, Owed, OpenIsFunded
<1> QED
  BY <1>1, <1>2, <1>3, <1>4, <1>5, <1>6, <1>7 DEF BountyNext

(* The bounty, its backers' requests and its audit trail keep their ranges.   *)
THEOREM BountyTyped == BountySpec => []BountyTypeOK
<1>1. BountyInv => BountyTypeOK
  BY DEF BountyInv
<1> QED
  BY <1>1, BountyInvInit, BountyInvStep, PTL DEF BountySpec

(* Whatever updates are lost, a bounty open to claim has what it takes, and   *)
(* neither the row nor the audit trail holds more than was given              *)
(* (contribute_to_bounty).                                                    *)
THEOREM BountyIsFunded == BountySpec => []OpenIsFunded
<1>1. BountyInv => OpenIsFunded
  BY DEF BountyInv
<1> QED
  BY <1>1, BountyInvInit, BountyInvStep, PTL DEF BountySpec

-----------------------------------------------------------------------------
(* Sales *)

(* The two shares of an amount are natural numbers that add up to it. *)
LEMMA SharesAddUp ==
  ASSUME NEW a \in Nat
  PROVE  /\ PlatformShare(a) \in Nat /\ AuthorShare(a) \in Nat
         /\ AuthorShare(a) + PlatformShare(a) = a
<1>1. FeeBp \in Nat /\ FeeBp <= 10000
  BY SalesAssumption
<1>2. a * FeeBp \in Nat /\ a * FeeBp <= a * 10000
  BY <1>1
<1>3. (a * FeeBp) \div 10000 \in Nat /\ (a * FeeBp) \div 10000 <= a
  <2> DEFINE n == a * FeeBp
             q == n \div 10000
  <2>1. n \in Nat /\ n <= 10000 * a
    BY <1>2
  <2> HIDE DEF n
  <2>2. q \in Nat /\ 10000 * q <= n
    BY <2>1
  <2> HIDE DEF q
  <2>3. q <= a
    BY <2>1, <2>2
  <2> QED
    BY <2>2, <2>3 DEF q, n
<1> QED
  BY <1>3 DEF PlatformShare, AuthorShare

(* What the rows of the ledger are: a sale to somebody entitled, the author's *)
(* share of a tip, or the platform's share of one that is there too.         *)
TipPosted(r, a) == \E e \in earnings : e.key = TipKey(r, a) /\ e.amount = AuthorShare(a)
SaleRow(e) == \E r \in entitled : e.key = SaleKey(r, 0)
TipRow(e) == \E r \in Readers, a \in Prices \cup {0} :
               e.key = TipKey(r, a) /\ e.amount = AuthorShare(a)
FeeRow(e) == \E r \in Readers, a \in Prices \cup {0} :
               e.key = FeeKey(r, a) /\ e.amount = PlatformShare(a) /\ TipPosted(r, a)
KeyIsUnique == \A e, f \in earnings : e.key = f.key => e = f
SaleStands(t) ==
  /\ sale[t].at = "post" => ReaderOf[t] \in entitled
  /\ sale[t].at = "fee" => TipPosted(ReaderOf[t], sale[t].amount)
SaleInv ==
  /\ SaleTypeOK
  /\ pricing.enabled => pricing.price \in Prices
  /\ KeyIsUnique
  /\ \A e \in earnings : SaleRow(e) \/ TipRow(e) \/ FeeRow(e)
  /\ \A t \in SaleTabs : SaleStands(t)

LEMMA SaleInvInit == SaleInit => SaleInv
  BY DEF SaleInit, SaleInv, SaleTypeOK, KeyIsUnique, SaleStands, NotPriced, NoRequest

(* A row with a new key is added and no row is lost. *)
LEMMA PostKeeps ==
  ASSUME SaleInv, NEW key, NEW amount, Posted(key, amount)
  PROVE  /\ earnings \subseteq earnings'
         /\ \A e \in earnings' : e \in earnings \/ e = [key |-> key, amount |-> amount]
         /\ \E e \in earnings' : e.key = key
         /\ (\A e \in earnings : e.key # key) => [key |-> key, amount |-> amount] \in earnings'
         /\ KeyIsUnique'
  BY DEF SaleInv, Posted, KeyIsUnique

LEMMA SaleInvStep == SaleInv /\ [SaleNext]_saleVars => SaleInv'
<1> SUFFICES ASSUME SaleInv, [SaleNext]_saleVars PROVE SaleInv'
  OBVIOUS
<1> USE DEF SaleInv
<1>1. ASSUME UNCHANGED <<entitled, earnings>>,
             pricing' \in [price : Prices \cup {-1}, enabled : BOOLEAN],
             pricing'.enabled => pricing'.price \in Prices,
             sale' \in [SaleTabs -> [at : {"idle", "find", "grant", "insert", "post", "tip", "fee"},
                                     amount : Prices \cup {0}]],
             \A t \in SaleTabs : \/ sale'[t] = sale[t]
                                 \/ sale'[t].at \notin {"post", "fee"}
                                 \/ sale'[t].at = "post" /\ ReaderOf[t] \in entitled
      PROVE  SaleInv'
  <2>1. SaleTypeOK'
    BY <1>1 DEF SaleTypeOK
  <2>2. \A t \in SaleTabs : SaleStands(t)'
    BY <1>1 DEF SaleStands, TipPosted
  <2>3. KeyIsUnique' /\ \A e \in earnings' : SaleRow(e)' \/ TipRow(e)' \/ FeeRow(e)'
    <3>1. \A r, a : TipPosted(r, a)' <=> TipPosted(r, a)
      BY <1>1 DEF TipPosted
    <3>2. \A e : (SaleRow(e)' <=> SaleRow(e)) /\ (TipRow(e)' <=> TipRow(e))
                 /\ (FeeRow(e)' <=> FeeRow(e))
      BY <1>1, <3>1 DEF SaleRow, TipRow, FeeRow
    <3>3. KeyIsUnique'
      BY <1>1 DEF KeyIsUnique
    <3> QED
      BY <1>1, <3>2, <3>3
  <2> QED
    BY <1>1, <2>1, <2>2, <2>3
<1>2. ASSUME NEW p \in Prices, SetPricing(p) PROVE SaleInv'
  BY <1>1, <1>2 DEF SetPricing, SaleTypeOK
<1>3. CASE DisablePricing
  <2>1. /\ UNCHANGED <<entitled, earnings, sale>> /\ ~ pricing'.enabled
        /\ pricing' \in [price : Prices \cup {-1}, enabled : BOOLEAN]
    BY <1>3 DEF DisablePricing, SaleTypeOK
  <2>2. sale' \in [SaleTabs -> [at : {"idle", "find", "grant", "insert", "post", "tip", "fee"},
                                amount : Prices \cup {0}]]
    BY <2>1 DEF SaleTypeOK
  <2> QED
    BY <1>1, <2>1, <2>2
<1>4. ASSUME NEW t \in SaleTabs, ReadPrice(t) PROVE SaleInv'
  BY <1>1, <1>4 DEF ReadPrice, SaleTypeOK
<1>5. ASSUME NEW t \in SaleTabs, FindEntitlement(t) PROVE SaleInv'
  BY <1>1, <1>5 DEF FindEntitlement, SaleStep, SaleOver, NoRequest, SaleTypeOK
<1>6. ASSUME NEW t \in SaleTabs, FindGrant(t) PROVE SaleInv'
  BY <1>1, <1>6 DEF FindGrant, SaleStep, SaleTypeOK
<1>7. ASSUME NEW t \in SaleTabs, NEW amount \in Prices, AskTip(t, amount) PROVE SaleInv'
  BY <1>1, <1>7 DEF AskTip, SaleTypeOK
<1>8. ASSUME NEW t \in SaleTabs, SaleEnds(t) PROVE SaleInv'
  BY <1>1, <1>8 DEF SaleEnds, SaleOver, NoRequest, SaleTypeOK
<1>9. ASSUME NEW t \in SaleTabs, InsertEntitlement(t) PROVE SaleInv'
  <2>1. /\ UNCHANGED <<pricing, earnings>> /\ entitled' = entitled \cup {ReaderOf[t]}
        /\ sale' \in [SaleTabs -> [at : {"idle", "find", "grant", "insert", "post", "tip", "fee"},
                                   amount : Prices \cup {0}]]
        /\ \A s \in SaleTabs \ {t} : sale'[s] = sale[s]
        /\ sale'[t].at \in {"idle", "post"}
    BY <1>9 DEF InsertEntitlement, SaleOver, SaleStep, NoRequest, SaleTypeOK
  <2>2. SaleTypeOK'
    BY <2>1 DEF SaleTypeOK, Readers
  <2>3. \A s \in SaleTabs : SaleStands(s)'
    BY <2>1 DEF SaleStands, TipPosted
  <2>4. KeyIsUnique' /\ \A e \in earnings' : SaleRow(e)' \/ TipRow(e)' \/ FeeRow(e)'
    BY <2>1 DEF KeyIsUnique, SaleRow, TipRow, FeeRow, TipPosted
  <2> QED
    BY <2>1, <2>2, <2>3, <2>4
<1>10. ASSUME NEW t \in SaleTabs, NEW key, NEW amount \in Nat,
              Posted(key, amount), UNCHANGED <<pricing, entitled>>,
              key[1] \in {"sale", "tip", "platform_fee"},
              (SaleRow([key |-> key, amount |-> amount])
                \/ TipRow([key |-> key, amount |-> amount])
                \/ FeeRow([key |-> key, amount |-> amount])),
              sale' \in [SaleTabs -> [at : {"idle", "find", "grant", "insert", "post", "tip", "fee"},
                                      amount : Prices \cup {0}]],
              \A s \in SaleTabs \ {t} : sale'[s] = sale[s],
              SaleStands(t)'
       PROVE  SaleInv'
  <2> DEFINE row == [key |-> key, amount |-> amount]
  <2>1. /\ earnings \subseteq earnings'
        /\ \A e \in earnings' : e \in earnings \/ e = row
        /\ KeyIsUnique'
    BY <1>10, PostKeeps
  <2>2. SaleTypeOK'
    BY <1>10, <2>1 DEF SaleTypeOK
  <2>3. \A r, a : TipPosted(r, a) => TipPosted(r, a)'
    BY <2>1 DEF TipPosted
  <2>4. \A e : /\ SaleRow(e) => SaleRow(e)'
               /\ TipRow(e) => TipRow(e)'
               /\ FeeRow(e) => FeeRow(e)'
    BY <1>10, <2>3 DEF SaleRow, TipRow, FeeRow
  <2>5. \A e \in earnings' : SaleRow(e)' \/ TipRow(e)' \/ FeeRow(e)'
    BY <1>10, <2>1, <2>4
  <2>6. \A s \in SaleTabs : SaleStands(s)'
    BY <1>10, <2>3 DEF SaleStands
  <2> QED
    BY <1>10, <2>1, <2>2, <2>5, <2>6
<1>11. ASSUME NEW t \in SaleTabs, NEW a \in Prices \cup {0}
       PROVE  a \in Nat /\ PlatformShare(a) \in Nat /\ AuthorShare(a) \in Nat
  BY SalesAssumption, SharesAddUp
<1>12. ASSUME NEW t \in SaleTabs, PostSale(t) PROVE SaleInv'
  <2>0. sale[t].amount \in Prices \cup {0}
    BY DEF SaleTypeOK
  <2>1. PICK a \in Prices \cup {0} : a = sale[t].amount
    BY <2>0
  <2>2. /\ Posted(SaleKey(ReaderOf[t], a), AuthorShare(a))
        /\ UNCHANGED <<pricing, entitled>>
        /\ sale' = [sale EXCEPT ![t] = NoRequest]
    BY <1>12, <2>1 DEF PostSale, SaleOver
  <2>3. SaleRow([key |-> SaleKey(ReaderOf[t], a), amount |-> AuthorShare(a)])
    BY <1>12 DEF PostSale, SaleStands, SaleRow, SaleKey
  <2>4. SaleKey(ReaderOf[t], a)[1] = "sale"
    BY DEF SaleKey
  <2>5. SaleStands(t)'
    BY <2>2 DEF SaleStands, NoRequest, SaleTypeOK
  <2>6. sale' \in [SaleTabs -> [at : {"idle", "find", "grant", "insert", "post", "tip", "fee"},
                                amount : Prices \cup {0}]]
    BY <2>2 DEF NoRequest, SaleTypeOK
  <2>7. \A s \in SaleTabs \ {t} : sale'[s] = sale[s]
    BY <2>2 DEF SaleTypeOK
  <2> QED
    BY <1>10, <1>11, <2>2, <2>3, <2>4, <2>5, <2>6, <2>7
<1>13. ASSUME NEW t \in SaleTabs, PostTip(t) PROVE SaleInv'
  <2>0. sale[t].amount \in Prices \cup {0}
    BY DEF SaleTypeOK
  <2>1. PICK a \in Prices \cup {0} : a = sale[t].amount
    BY <2>0
  <2> DEFINE row == [key |-> TipKey(ReaderOf[t], a), amount |-> AuthorShare(a)]
  <2>2. /\ Posted(TipKey(ReaderOf[t], a), AuthorShare(a))
        /\ UNCHANGED <<pricing, entitled>>
        /\ sale' = [sale EXCEPT ![t].at = "fee"]
    BY <1>13, <2>1 DEF PostTip, SaleStep
  <2>3. TipRow(row)
    BY DEF TipRow, Readers
  <2>4. TipKey(ReaderOf[t], a)[1] = "tip"
    BY DEF TipKey
  <2>5. TipPosted(ReaderOf[t], a)'
    <3>0. /\ \A e \in earnings' : e \in earnings \/ e = row
          /\ \E e \in earnings' : e.key = TipKey(ReaderOf[t], a)
      <4> HIDE DEF SaleInv
      <4> QED
        BY <2>2, PostKeeps
    <3>1. PICK e \in earnings' : e.key = TipKey(ReaderOf[t], a)
      BY <3>0
    <3>2. e \in earnings \/ e = row
      BY <3>0
    <3>3. e.amount = AuthorShare(a)
      <4>1. CASE e \in earnings
        <5>1. ~ SaleRow(e) /\ ~ FeeRow(e)
          BY <3>1 DEF SaleRow, FeeRow, SaleKey, FeeKey, TipKey
        <5>2. TipRow(e)
          BY <4>1, <5>1
        <5> QED
          BY <3>1, <5>2 DEF TipRow, TipKey
      <4>2. CASE e = row
        BY <4>2
      <4> QED
        BY <3>2, <4>1, <4>2
    <3> QED
      BY <3>1, <3>3 DEF TipPosted
  <2>6. SaleStands(t)'
    <3>1. sale'[t].at = "fee" /\ sale'[t].amount = a
      BY <2>1, <2>2 DEF SaleTypeOK
    <3> QED
      BY <2>5, <3>1 DEF SaleStands
  <2>7. sale' \in [SaleTabs -> [at : {"idle", "find", "grant", "insert", "post", "tip", "fee"},
                                amount : Prices \cup {0}]]
    BY <2>2 DEF SaleTypeOK
  <2>8. \A s \in SaleTabs \ {t} : sale'[s] = sale[s]
    BY <2>2 DEF SaleTypeOK
  <2> QED
    BY <1>10, <1>11, <2>2, <2>3, <2>4, <2>6, <2>7, <2>8
<1>14. ASSUME NEW t \in SaleTabs, PostFee(t) PROVE SaleInv'
  <2>0. sale[t].amount \in Prices \cup {0}
    BY DEF SaleTypeOK
  <2>1. PICK a \in Prices \cup {0} : a = sale[t].amount
    BY <2>0
  <2> DEFINE row == [key |-> FeeKey(ReaderOf[t], a), amount |-> PlatformShare(a)]
  <2>2. /\ Posted(FeeKey(ReaderOf[t], a), PlatformShare(a))
        /\ UNCHANGED <<pricing, entitled>>
        /\ sale' = [sale EXCEPT ![t] = NoRequest]
    BY <1>14, <2>1 DEF PostFee, SaleOver
  <2>3. FeeRow(row)
    <3>1. TipPosted(ReaderOf[t], a)
      BY <1>14, <2>1 DEF PostFee, SaleStands
    <3>2. ReaderOf[t] \in Readers
      BY DEF Readers
    <3> QED
      BY <3>1, <3>2 DEF FeeRow
  <2>4. FeeKey(ReaderOf[t], a)[1] = "platform_fee"
    BY DEF FeeKey
  <2>5. SaleStands(t)'
    BY <2>2 DEF SaleStands, NoRequest, SaleTypeOK
  <2>6. sale' \in [SaleTabs -> [at : {"idle", "find", "grant", "insert", "post", "tip", "fee"},
                                amount : Prices \cup {0}]]
    BY <2>2 DEF NoRequest, SaleTypeOK
  <2>7. \A s \in SaleTabs \ {t} : sale'[s] = sale[s]
    BY <2>2 DEF SaleTypeOK
  <2> QED
    BY <1>10, <1>11, <2>2, <2>3, <2>4, <2>5, <2>6, <2>7
<1>15. CASE UNCHANGED saleVars
  BY <1>1, <1>15 DEF saleVars, SaleTypeOK
<1> QED
  BY <1>2, <1>3, <1>4, <1>5, <1>6, <1>7, <1>8, <1>9, <1>12, <1>13, <1>14, <1>15 DEF SaleNext

(* Prices, entitlements, earnings and requests keep their ranges.             *)
THEOREM SalesTyped == SaleSpec => []SaleTypeOK
<1>1. SaleInv => SaleTypeOK
  BY DEF SaleInv
<1> QED
  BY <1>1, SaleInvInit, SaleInvStep, PTL DEF SaleSpec

(* A reader pays for the work once, whatever the price was, and is entitled   *)
(* before the sale is posted (purchase).                                      *)
THEOREM SoldOnce == SaleSpec => []PaidOnceForAccess
<1>1. SaleInv => PaidOnceForAccess
  <2> SUFFICES ASSUME SaleInv PROVE PaidOnceForAccess
    OBVIOUS
  <2>1. ASSUME NEW e \in Rows("sale")
        PROVE  e \in earnings /\ \E r \in entitled : e.key = <<"sale", r, 0>>
    BY <2>1 DEF SaleInv, Rows, SaleRow, TipRow, FeeRow, SaleKey, TipKey, FeeKey
  <2>2. ASSUME NEW r \in Readers
        PROVE  Cardinality({e \in Rows("sale") : e.key[2] = r}) <= 1
    <3> DEFINE S == {e \in Rows("sale") : e.key[2] = r}
    <3>1. \A e, f \in S : e = f
      BY <2>1 DEF SaleInv, KeyIsUnique
    <3>2. S = {} \/ \E e : S = {e}
      BY <3>1
    <3> HIDE DEF S
    <3>3. Cardinality(S) \in {0, 1}
      BY <3>2, FS_EmptySet, FS_Singleton
    <3> QED
      BY <3>3 DEF S
  <2>3. \A e \in Rows("sale") : e.key[2] \in entitled
    BY <2>1
  <2> QED
    BY <2>2, <2>3 DEF PaidOnceForAccess
<1> QED
  BY <1>1, SaleInvInit, SaleInvStep, PTL DEF SaleSpec

(* No fee without its tip, and the two shares add up to what was given, though *)
(* a crash falls between them and the request is repeated (tip).              *)
THEOREM FeeFollowsTip == SaleSpec => []FeeCompletesItsTip
<1>1. SaleInv => FeeCompletesItsTip
  <2> SUFFICES ASSUME SaleInv, NEW fee \in Rows("platform_fee")
               PROVE  \E e \in Rows("tip") : /\ e.key = TipKey(fee.key[2], fee.key[3])
                                             /\ e.amount + fee.amount = fee.key[3]
    BY DEF FeeCompletesItsTip
  <2>1. FeeRow(fee)
    BY DEF SaleInv, Rows, SaleRow, TipRow, SaleKey, TipKey
  <2>2. PICK r \in Readers, a \in Prices \cup {0} :
          fee.key = FeeKey(r, a) /\ fee.amount = PlatformShare(a) /\ TipPosted(r, a)
    BY <2>1 DEF FeeRow
  <2>3. fee.key[2] = r /\ fee.key[3] = a
    BY <2>2 DEF FeeKey
  <2>4. PICK e \in earnings : e.key = TipKey(r, a) /\ e.amount = AuthorShare(a)
    BY <2>2 DEF TipPosted
  <2>5. e \in Rows("tip")
    BY <2>4 DEF Rows, TipKey
  <2>6. e.amount + fee.amount = a
    BY <2>2, <2>4, SharesAddUp, SalesAssumption
  <2> QED
    BY <2>3, <2>4, <2>5, <2>6
<1> QED
  BY <1>1, SaleInvInit, SaleInvStep, PTL DEF SaleSpec
=============================================================================
