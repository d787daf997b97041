---------------------------- MODULE Contributors ----------------------------
(***************************************************************************)
(* Who contributes to a work: invitations and roles                         *)
(* (crates/app/src/routes/collaborators.rs, crates/db/src/collaboration.rs). *)
(*                                                                         *)
(* One work.  Its owner never changes: no request grants the role, and the  *)
(* owner's row is neither updated nor removed.  A tab holds what a request  *)
(* decided on the contributors it read; the statement is a step of its own, *)
(* whatever became of them meanwhile.                                      *)
(***************************************************************************)
CONSTANTS
  Pseuds,
  WorkOwner,
  Invites,    \* rows of collaboration_invites, in any order
  RolesGiven, \* roles but the owner's: coauthor, editor, beta_reader
  ContributorTabs  \* requests in flight at once

ASSUME ContributorsAssumption ==
  WorkOwner \in Pseuds /\ {"owner", "none"} \cap RolesGiven = {}

VARIABLES
  role,       \* work_contributors: each pseud's role
  invite,     \* collaboration_invites
  request     \* each tab's request

contributorVars == <<role, invite, request>>

Guests == Pseuds \ {WorkOwner}

NoInvite == [status |-> "none"]
Invitation == [status : {"pending", "accepted", "declined", "revoked"},
               to : Guests, role : RolesGiven]
AtRest == [at |-> "idle"]

ContributorTypeOK ==
  /\ role \in [Pseuds -> RolesGiven \cup {"owner", "none"}]
  /\ \A p \in Pseuds : role[p] = "owner" <=> p = WorkOwner
  /\ invite \in [Invites -> Invitation \cup {NoInvite}]
  /\ request \in [ContributorTabs ->
       {AtRest} \cup [at : {"invite", "update"}, who : Guests, role : RolesGiven]
         \cup [at : {"remove"}, who : Guests]
         \cup [at : {"accept", "decline", "revoke"}, invite : Invites]]

ContributorInit ==
  /\ role = [p \in Pseuds |-> IF p = WorkOwner THEN "owner" ELSE "none"]
  /\ invite = [i \in Invites |-> NoInvite]
  /\ request = [t \in ContributorTabs |-> AtRest]

-----------------------------------------------------------------------------
(* What a request reads: a manager's, or the invited pseud's *)

BeginRequest(t, what) ==
  /\ request[t] = AtRest
  /\ request' = [request EXCEPT ![t] = what]
  /\ UNCHANGED <<role, invite>>

(* owned_work and manage_decision: the owner may always manage, so no request *)
(* here waits for a co-author.  Who contributes already is not invited.      *)
AskToInvite(t, p, r) ==
  role[p] = "none" /\ BeginRequest(t, [at |-> "invite", who |-> p, role |-> r])

AskToUpdate(t, p, r) == BeginRequest(t, [at |-> "update", who |-> p, role |-> r])

AskToRemove(t, p) == BeginRequest(t, [at |-> "remove", who |-> p])

(* find_invite: that it is still pending is for the statement to find out. *)
AskAbout(t, i, at) ==
  invite[i] # NoInvite /\ BeginRequest(t, [at |-> at, invite |-> i])

-----------------------------------------------------------------------------
(* What it writes *)

EndRequest(t) == request' = [request EXCEPT ![t] = AtRest]

CreateInvite(t, i) ==
  /\ request[t].at = "invite"
  /\ invite[i] = NoInvite
  /\ invite' = [invite EXCEPT ![i] =
       [status |-> "pending", to |-> request[t].who, role |-> request[t].role]]
  /\ EndRequest(t)
  /\ UNCHANGED role

(* A contributor who is gone meanwhile is not brought back. *)
UpdateContributor(t) ==
  /\ request[t].at = "update"
  /\ role' = [role EXCEPT ![request[t].who] = IF @ = "none" THEN @ ELSE request[t].role]
  /\ EndRequest(t)
  /\ UNCHANGED invite

RemoveContributor(t) ==
  /\ request[t].at = "remove"
  /\ role' = [role EXCEPT ![request[t].who] = "none"]
  /\ EndRequest(t)
  /\ UNCHANGED invite

(* Mutant of Open: whatever the invitation has come to. *)
OpenOnce(i) == TRUE

(* UPDATE ... WHERE status = 'pending'. *)
Open(i) == invite[i].status = "pending"

Answered(t, i, status) ==
  /\ invite' = IF Open(i) THEN [invite EXCEPT ![i].status = status] ELSE invite
  /\ EndRequest(t)

(* The answer and the grant commit together; a contributor keeps their role. *)
Accept(t) ==
  /\ request[t].at = "accept"
  /\ LET i == request[t].invite IN
     /\ Answered(t, i, "accepted")
     /\ role' = IF Open(i) /\ role[invite[i].to] = "none"
                THEN [role EXCEPT ![invite[i].to] = invite[i].role] ELSE role

Decline(t) ==
  /\ request[t].at = "decline"
  /\ Answered(t, request[t].invite, "declined")
  /\ UNCHANGED role

Revoke(t) ==
  /\ request[t].at = "revoke"
  /\ Answered(t, request[t].invite, "revoked")
  /\ UNCHANGED role

(* The statement fails, or the server dies. *)
RequestFails(t) ==
  /\ request[t] # AtRest
  /\ EndRequest(t)
  /\ UNCHANGED <<role, invite>>

-----------------------------------------------------------------------------
ContributorNext ==
  \E t \in ContributorTabs :
    \/ \E p \in Guests : \/ AskToRemove(t, p)
                         \/ \E r \in RolesGiven : AskToInvite(t, p, r) \/ AskToUpdate(t, p, r)
    \/ \E i \in Invites : \/ CreateInvite(t, i)
                          \/ \E at \in {"accept", "decline", "revoke"} : AskAbout(t, i, at)
    \/ UpdateContributor(t) \/ RemoveContributor(t)
    \/ Accept(t) \/ Decline(t) \/ Revoke(t) \/ RequestFails(t)

ContributorSpec == ContributorInit /\ [][ContributorNext]_contributorVars

-----------------------------------------------------------------------------
(* An invitation is answered once, whoever answers it at the same moment, from *)
(* however many tabs, and however late; and nobody comes to a work but by     *)
(* accepting one that was still open, in that role: neither an invitation     *)
(* taken back, nor a change of role that lost its race with a removal, lets   *)
(* anybody in (respond_to_invite, revoke_invite, update_contributor).        *)
MembershipIsInvited ==
  [][/\ \A i \in Invites : invite[i].status \notin {"none", "pending"} => invite'[i] = invite[i]
     /\ \A p \in Guests : role[p] = "none" /\ role'[p] # "none" =>
          \E i \in Invites : /\ invite[i].status = "pending" /\ invite'[i].status = "accepted"
                             /\ invite[i].to = p /\ invite[i].role = role'[p]]_contributorVars
=============================================================================
