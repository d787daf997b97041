------------------------------ MODULE Retention -----------------------------
(***************************************************************************)
(* What the instance stores of the texts it fetches, and the readers' say in  *)
(* it: the policy and its override for one source                           *)
(* (crates/db/src/retention.rs), the proposals and ballots                  *)
(* (crates/db/src/retention_proposals.rs and their routes), the operator who  *)
(* answers or overrides them (routes/retention_proposal_admin.rs) and the     *)
(* pass that settles them when their window is over                         *)
(* (routes/retention_settle.rs).                                            *)
(*                                                                         *)
(* One step is one statement.  A ballot against is kept as no support, since  *)
(* only supporters count; rationales, names and times are left out, and of a  *)
(* window whether it is over.                                               *)
(***************************************************************************)
EXTENDS Naturals, FiniteSets

CONSTANTS
  Voters,        \* accounts with the trust to vote
  Proposals,      \* identifiers of proposals
  Passes,         \* settling passes: the job's and the operator's button
  MinimumQuorum,  \* MINIMUM_QUORUM
  WidenQuorum,    \* retention_governance.widen_quorum
  MaxAnswers      \* bound: changes on record when the operator last answers

ASSUME RetentionAssumption ==
  /\ IsFiniteSet(Voters)
  /\ MinimumQuorum \in Nat \ {0}
  /\ WidenQuorum \in Nat
  /\ MaxAnswers \in Nat

VARIABLES
  binding,    \* retention_governance.binding_mode, fixed at start-up
  policy,     \* instance_retention_policy
  override,   \* the row of instance_retention_source_overrides, if any
  proposal,   \* retention_proposals
  supporters, \* retention_proposal_votes with support
  ballot,     \* the vote request between its check and its write
  changes,    \* retention_policy_changes, with the mode that was really set
  carried,    \* history: proposals that have had the minimum of supporters
  settler,    \* each settling pass
  answer      \* the operator's request

retentionVars ==
  <<binding, policy, override, proposal, supporters, ballot, changes, carried, settler, answer>>

setting == <<binding, policy, override>>
votes == <<supporters, ballot, carried>>

Modes == {"cache", "aggregate"}
Scopes == {"instance", "source"}
Decided == {"passed", "overridden", "expired"}

NoProposal == [state |-> "none", mode |-> "cache", scope |-> "instance", over |-> FALSE]
NoBallot == [stage |-> "idle"]
NoSettling == [stage |-> "idle", todo |-> {}, at |-> {}, widens |-> FALSE]
NoAnswer == [stage |-> "idle"]

RetentionTypeOK ==
  /\ binding \in BOOLEAN
  /\ policy \in Modes
  /\ override \in Modes \cup {"inherit"}
  /\ proposal \in [Proposals -> [state : {"none", "checked", "open"} \cup Decided,
                                 mode : Modes, scope : Scopes, over : BOOLEAN]]
  /\ supporters \in [Proposals -> SUBSET Voters]
  /\ ballot.stage \in {"idle", "checked"}
  /\ changes \subseteq [of : Proposals, by : {"instance", "operator"}, to : Modes, set : Modes]
  /\ carried \subseteq Proposals
  /\ settler \in [Passes -> [stage : {"idle", "next", "counting", "expiring", "writing", "recording",
                                  "closing"},
                         todo : SUBSET Proposals, at : SUBSET Proposals, widens : BOOLEAN]]
  /\ answer.stage \in {"idle", "sent", "weighed", "writing", "recording", "closing"}

RetentionInit ==
  /\ binding \in BOOLEAN
  /\ policy \in Modes
  /\ override = "inherit"
  /\ proposal = [p \in Proposals |-> NoProposal]
  /\ supporters = [p \in Proposals |-> {}]
  /\ ballot = NoBallot
  /\ changes = {}
  /\ carried = {}
  /\ settler = [s \in Passes |-> NoSettling]
  /\ answer = NoAnswer

-----------------------------------------------------------------------------
(* The setting *)

(* mode_in_force *)
InForce(scope) == IF scope = "source" /\ override # "inherit" THEN override ELSE policy

Widens(mode, current) == mode = "cache" /\ current = "aggregate"

(* Mutant of Quorum: one supporter short. *)
QuorumButOne(widens) == MinimumQuorum - 1

(* quorum_for: the configured bar for a widening, never below the minimum. *)
Quorum(widens) ==
  IF widens /\ WidenQuorum > MinimumQuorum THEN WidenQuorum ELSE MinimumQuorum

(* write_source_override refuses to widen a source past the instance.  It     *)
(* reads the policy in one statement and writes in the next; here they are    *)
(* one step, since no property asks how wide an override is.                *)
MayWrite(scope, mode) == scope = "source" => ~ Widens(mode, policy)

(* write_policy, or write_source_override's upsert. *)
Write(scope, mode) ==
  IF scope = "instance" THEN policy' = mode /\ override' = override
                        ELSE override' = mode /\ policy' = policy

(* The operator's own routes: the policy, a source, or its override removed. *)
SetPolicy(mode) ==
  /\ Write("instance", mode)
  /\ UNCHANGED <<binding, proposal, votes, changes, settler, answer>>

SetSource(mode) ==
  /\ MayWrite("source", mode)
  /\ Write("source", mode)
  /\ UNCHANGED <<binding, proposal, votes, changes, settler, answer>>

ClearSource ==
  /\ override' = "inherit"
  /\ UNCHANGED <<binding, policy, proposal, votes, changes, settler, answer>>

-----------------------------------------------------------------------------
(* Proposals and ballots *)

OpenOn(scope) == {p \in Proposals : proposal[p].state = "open" /\ proposal[p].scope = scope}

(* create_proposal: the mode is another than the one in force and no proposal *)
(* is open on the setting, each asked in a statement of its own.            *)
CheckProposal(p, scope, mode) ==
  /\ proposal[p].state = "none"
  /\ mode # InForce(scope)
  /\ OpenOn(scope) = {}
  /\ proposal' = [proposal EXCEPT ![p] =
       [state |-> "checked", mode |-> mode, scope |-> scope, over |-> FALSE]]
  /\ UNCHANGED <<setting, votes, changes, settler, answer>>

(* create_proposal: the INSERT, which no index restricts. *)
OpenProposal(p) ==
  /\ proposal[p].state = "checked"
  /\ proposal' = [proposal EXCEPT ![p].state = "open"]
  /\ UNCHANGED <<setting, votes, changes, settler, answer>>

(* closes_at is reached. *)
WindowEnds(p) ==
  /\ proposal[p].state = "open"
  /\ proposal' = [proposal EXCEPT ![p].over = TRUE]
  /\ UNCHANGED <<setting, votes, changes, settler, answer>>

(* cast_vote: the state is read; the window is not asked about. *)
CheckBallot(r, p, support) ==
  /\ ballot.stage = "idle"
  /\ proposal[p].state = "open"
  /\ ballot' = [stage |-> "checked", reader |-> r, of |-> p, support |-> support]
  /\ UNCHANGED <<setting, proposal, supporters, changes, carried, settler, answer>>

(* cast_vote: the upsert, whatever has become of the proposal. *)
CastBallot ==
  /\ ballot.stage = "checked"
  /\ supporters' = [supporters EXCEPT ![ballot.of] =
       IF ballot.support THEN @ \cup {ballot.reader} ELSE @ \ {ballot.reader}]
  /\ carried' = carried \cup
       {p \in Proposals : Cardinality(supporters'[p]) >= MinimumQuorum}
  /\ ballot' = NoBallot
  /\ UNCHANGED <<setting, proposal, changes, settler, answer>>

-----------------------------------------------------------------------------
(* close_proposal: the states a proposal may be closed from. *)

(* Mutant of ClosableFrom: whatever the proposal's state. *)
ClosableFromAny(state) == Decided \cup {"open"}

ClosableFrom(state) == IF state = "overridden" THEN {"open", "passed"} ELSE {"open"}

Close(p, state) ==
  proposal' = IF proposal[p].state \in ClosableFrom(state)
                THEN [proposal EXCEPT ![p].state = state] ELSE proposal

Record(p, by, to, set) == changes' = changes \cup {[of |-> p, by |-> by, to |-> to, set |-> set]}

-----------------------------------------------------------------------------
(* The pass *)

Overdue == {p \in Proposals : proposal[p].state = "open" /\ proposal[p].over}

(* overdue_proposals *)
StartPass(s) ==
  /\ settler[s].stage = "idle"
  /\ settler' = [settler EXCEPT ![s] = [NoSettling EXCEPT !.stage = "next", !.todo = Overdue]]
  /\ UNCHANGED <<setting, proposal, votes, changes, answer>>

(* The proposal the pass is at; the pass moved to a stage, or to the next one. *)
Turn(s, p) == p \in settler[s].at
To(s, stage) == settler' = [settler EXCEPT ![s] = [@ EXCEPT !.stage = stage, !.widens = FALSE]]
Leave(s) == settler' = [settler EXCEPT ![s] = [@ EXCEPT !.stage = "next", !.at = {}, !.widens = FALSE]]

(* tally: the mode in force is read for the bar. *)
ReadBar(s, p) ==
  /\ settler[s].stage = "next" /\ p \in settler[s].todo
  /\ settler' = [settler EXCEPT ![s] =
       [stage |-> "counting", todo |-> settler[s].todo \ {p}, at |-> {p},
        widens |-> Widens(proposal[p].mode, InForce(proposal[p].scope))]]
  /\ UNCHANGED <<setting, proposal, votes, changes, answer>>

Reached(p, widens) == Cardinality(supporters[p]) >= Quorum(widens)

(* tally: the count.  Short of the bar the proposal expires; past it an       *)
(* advisory instance leaves it to the operator.                             *)
CountBallots(s, p) ==
  /\ settler[s].stage = "counting" /\ Turn(s, p)
  /\ IF ~ Reached(p, settler[s].widens) THEN To(s, "expiring")
     ELSE IF binding THEN To(s, "writing") ELSE Leave(s)
  /\ UNCHANGED <<setting, proposal, votes, changes, answer>>

Expire(s, p) ==
  /\ settler[s].stage = "expiring" /\ Turn(s, p)
  /\ Close(p, "expired")
  /\ Leave(s)
  /\ UNCHANGED <<setting, votes, changes, answer>>

(* Mutant of Commit: the proposal is closed with the write. *)
CommitClosing(s, p) ==
  /\ settler[s].stage = "writing" /\ Turn(s, p)
  /\ MayWrite(proposal[p].scope, proposal[p].mode)
  /\ Write(proposal[p].scope, proposal[p].mode)
  /\ Close(p, "passed")
  /\ To(s, "recording")
  /\ UNCHANGED <<binding, votes, changes, answer>>

Commit(s, p) ==
  /\ settler[s].stage = "writing" /\ Turn(s, p)
  /\ MayWrite(proposal[p].scope, proposal[p].mode)
  /\ Write(proposal[p].scope, proposal[p].mode)
  /\ To(s, "recording")
  /\ UNCHANGED <<binding, proposal, votes, changes, answer>>

RecordCommit(s, p) ==
  /\ settler[s].stage = "recording" /\ Turn(s, p)
  /\ Record(p, "instance", proposal[p].mode, proposal[p].mode)
  /\ To(s, "closing")
  /\ UNCHANGED <<setting, proposal, votes, answer>>

PassProposal(s, p) ==
  /\ settler[s].stage = "closing" /\ Turn(s, p)
  /\ Close(p, "passed")
  /\ Leave(s)
  /\ UNCHANGED <<setting, votes, changes, answer>>

(* settle_one: a statement fails or a widening is refused, which leaves this  *)
(* proposal to another pass.                                                *)
GiveUp(s) ==
  /\ settler[s].stage \notin {"idle", "next"}
  /\ Leave(s)
  /\ UNCHANGED <<setting, proposal, votes, changes, answer>>

(* The pass is over, or its process is killed. *)
EndPass(s) ==
  /\ settler[s].stage # "idle"
  /\ settler' = [settler EXCEPT ![s] = NoSettling]
  /\ UNCHANGED <<setting, proposal, votes, changes, answer>>

-----------------------------------------------------------------------------
(* The operator *)

(* respond and override_setting.  An override names a mode of the operator's; *)
(* an acceptance applies the readers'.                                      *)
AskAnswer(p, act, mode) ==
  /\ answer.stage = "idle" /\ Cardinality(changes) < MaxAnswers
  /\ proposal[p].state \in Decided \cup {"open"}
  /\ act # "override" => ~ binding /\ mode = proposal[p].mode
  /\ answer' = [stage |-> "sent", of |-> p, act |-> act, mode |-> mode, widens |-> FALSE,
                decided |-> FALSE]
  /\ UNCHANGED <<setting, proposal, votes, changes, settler>>

(* The proposal is loaded; respond reads the mode in force for its tally. *)
LoadProposal ==
  /\ answer.stage = "sent"
  /\ LET p == answer.of IN
       answer' = IF answer.act = "override"
         THEN [answer EXCEPT !.stage = "writing",
                 !.decided = proposal[p].state \notin {"open", "passed"}]
         ELSE [answer EXCEPT !.stage = "weighed",
                 !.widens = Widens(proposal[p].mode, InForce(proposal[p].scope))]
  /\ UNCHANGED <<setting, proposal, votes, changes, settler>>

(* respond: an acceptance needs the readers' quorum, a refusal does not. *)
Weigh ==
  /\ answer.stage = "weighed"
  /\ answer.act = "accept" => Reached(answer.of, answer.widens)
  /\ answer' = [answer EXCEPT !.widens = FALSE,
                            !.stage = IF answer.act = "accept" THEN "writing" ELSE "closing"]
  /\ UNCHANGED <<setting, proposal, votes, changes, settler>>

(* apply: on a source the mode written is the proposal's. *)
SetByOperator(p) == IF proposal[p].scope = "source" THEN proposal[p].mode ELSE answer.mode

(* apply: the write. *)
Apply ==
  /\ answer.stage = "writing"
  /\ LET p == answer.of IN
       /\ MayWrite(proposal[p].scope, SetByOperator(p))
       /\ Write(proposal[p].scope, SetByOperator(p))
  /\ answer' = [answer EXCEPT !.stage = "recording"]
  /\ UNCHANGED <<binding, proposal, votes, changes, settler>>

(* apply: the record names the mode that was asked for. *)
RecordAnswer ==
  /\ answer.stage = "recording"
  /\ Record(answer.of, "operator", answer.mode, SetByOperator(answer.of))
  /\ answer' = [answer EXCEPT !.stage = "closing"]
  /\ UNCHANGED <<setting, proposal, votes, settler>>

(* respond closes it as it decided; override_setting as overridden, unless    *)
(* it was decided otherwise when it was loaded.                             *)
CloseAnswered ==
  /\ answer.stage = "closing"
  /\ IF answer.decided THEN proposal' = proposal
     ELSE Close(answer.of, IF answer.act = "accept" THEN "passed" ELSE "overridden")
  /\ answer' = NoAnswer
  /\ UNCHANGED <<setting, votes, changes, settler>>

(* The request is refused, fails, or its server is killed. *)
EndAnswer ==
  /\ answer.stage # "idle"
  /\ answer' = NoAnswer
  /\ UNCHANGED <<setting, proposal, votes, changes, settler>>

-----------------------------------------------------------------------------
Settling(s) ==
  \/ StartPass(s) \/ GiveUp(s) \/ EndPass(s)
  \/ \E p \in Proposals :
       \/ ReadBar(s, p) \/ CountBallots(s, p) \/ Expire(s, p)
       \/ Commit(s, p) \/ RecordCommit(s, p) \/ PassProposal(s, p)

Answering ==
  \/ \E p \in Proposals, act \in {"accept", "decline", "override"}, mode \in Modes :
       AskAnswer(p, act, mode)
  \/ LoadProposal \/ Weigh \/ Apply \/ RecordAnswer \/ CloseAnswered \/ EndAnswer

Voting ==
  \/ \E p \in Proposals, scope \in Scopes, mode \in Modes : CheckProposal(p, scope, mode)
  \/ \E p \in Proposals : OpenProposal(p) \/ WindowEnds(p)
  \/ \E r \in Voters, p \in Proposals, support \in BOOLEAN : CheckBallot(r, p, support)
  \/ CastBallot

Setting == (\E mode \in Modes : SetPolicy(mode) \/ SetSource(mode)) \/ ClearSource

RetentionNext == (\E s \in Passes : Settling(s)) \/ Answering \/ Voting \/ Setting

RetentionSpec == RetentionInit /\ [][RetentionNext]_retentionVars

-----------------------------------------------------------------------------
(* Properties *)

(* Apply, then close: a proposal reads passed only when the mode it proposed  *)
(* has been set and the change is on record, whoever died on the way.       *)
PassedWasApplied ==
  \A p \in Proposals : proposal[p].state = "passed" =>
    \E c \in changes : c.of = p /\ c.to = proposal[p].mode

(* The instance changes its setting in its own name only for a proposal that  *)
(* has had the minimum quorum of readers behind it and whose window is over,   *)
(* however ballots are changed while the pass counts and writes.            *)
CommitsWereCarried ==
  \A c \in changes : c.by = "instance" => c.of \in carried /\ proposal[c.of].over

(* Two passes and an operator may each close a proposal they read as open: a   *)
(* decision stays, but that an operator may override one that passed.       *)
DecidedStaysDecided ==
  [][\A p \in Proposals : proposal[p].state \in Decided =>
       \/ proposal'[p].state = proposal[p].state
       \/ proposal[p].state = "passed" /\ proposal'[p].state = "overridden"]_retentionVars

(* retention_proposal_admin.rs: the record of a change names the mode that was *)
(* written.  It does not for an override of a source's proposal.            *)
RecordsTellWhatWasSet == \A c \in changes : c.to = c.set
=============================================================================
