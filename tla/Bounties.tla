------------------------------ MODULE Bounties -------------------------------
(***************************************************************************)
(* One crowdfunded bounty: contribute_to_bounty of crates/db/src/bounties.rs,*)
(* claim_bounty of crates/db/src/economy.rs and their routes in             *)
(* crates/app/src/routes/economy.rs.                                        *)
(*                                                                         *)
(* A contribution reads the row, adds to what it read and writes back amount*)
(* and state unconditionally: two contributions may lose one, and a slow one*)
(* may reopen a bounty that was claimed.  The audit row is best effort.     *)
(***************************************************************************)
EXTENDS Naturals, FiniteSets

CONSTANTS
  Backers,    \* contributions in flight at once
  Gifts,      \* amounts a backer may add, all positive
  Required,   \* ceil(amount * crowdfund_activation_threshold)
  MaxFunded   \* bound: what is pledged in all

ASSUME BountyAssumption ==
  /\ Gifts \subseteq Nat \ {0}
  /\ IsFiniteSet(Backers)
  /\ Required \in Nat /\ MaxFunded \in Nat

VARIABLES
  bounty,     \* the row: state and funded_amount
  pledged,    \* everything that contributors were told is added
  audited,    \* the sum of bounty_contributions
  backing     \* each contribution: where it is, the amount, the funds it read

bountyVars == <<bounty, pledged, audited, backing>>

NoGift == [at |-> "idle", gift |-> 0, read |-> 0]

BountyTypeOK ==
  /\ bounty \in [state : {"none", "funding", "open", "claimed"}, funded : 0..MaxFunded]
  /\ pledged \in 0..MaxFunded
  /\ audited \in 0..MaxFunded
  /\ backing \in [Backers -> [at : {"idle", "write", "audit"}, gift : Gifts \cup {0},
                              read : 0..MaxFunded]]

BountyInit ==
  /\ bounty = [state |-> "none", funded |-> 0]
  /\ pledged = 0 /\ audited = 0
  /\ backing = [b \in Backers |-> NoGift]

(* create_bounty: a crowdfunded one starts empty. *)
BountyCreate ==
  /\ bounty.state = "none"
  /\ bounty' = [state |-> "funding", funded |-> 0]
  /\ UNCHANGED <<pledged, audited, backing>>

(* fetch_bounty and the checks of it. *)
BountyRead(b, gift) ==
  /\ backing[b].at = "idle"
  /\ bounty.state = "funding"
  /\ bounty.funded + gift <= MaxFunded
  /\ backing' = [backing EXCEPT ![b] = [at |-> "write", gift |-> gift, read |-> bounty.funded]]
  /\ UNCHANGED <<bounty, pledged, audited>>

(* Mutant of FundedRow: the state is written only to open the bounty. *)
FundedRowOpens(sum) ==
  [state |-> IF Required > 0 /\ sum >= Required THEN "open" ELSE bounty.state, funded |-> sum]

FundedRow(sum) ==
  [state |-> IF Required > 0 /\ sum >= Required THEN "open" ELSE "funding", funded |-> sum]

(* The UPDATE, whatever happened to the row since. *)
BountyWrite(b) ==
  /\ backing[b].at = "write"
  /\ pledged + backing[b].gift <= MaxFunded
  /\ bounty' = FundedRow(backing[b].read + backing[b].gift)
  /\ pledged' = pledged + backing[b].gift
  /\ backing' = [backing EXCEPT ![b].at = "audit"]
  /\ UNCHANGED audited

Written(b) == backing[b].gift

(* record_contribution; a failure is logged and swallowed. *)
BountyAudit(b) ==
  /\ backing[b].at = "audit"
  /\ audited + Written(b) <= MaxFunded
  /\ audited' = audited + Written(b)
  /\ backing' = [backing EXCEPT ![b] = NoGift]
  /\ UNCHANGED <<bounty, pledged>>

(* claim_bounty answers "claimed" whether or not a row was open. *)
BountyClaim ==
  /\ bounty.state = "open"
  /\ bounty' = [bounty EXCEPT !.state = "claimed"]
  /\ UNCHANGED <<pledged, audited, backing>>

BountyEnds(b) ==
  /\ backing[b].at # "idle"
  /\ backing' = [backing EXCEPT ![b] = NoGift]
  /\ UNCHANGED <<bounty, pledged, audited>>

BountyNext ==
  \/ BountyCreate \/ BountyClaim
  \/ \E b \in Backers : \/ \E gift \in Gifts : BountyRead(b, gift)
                        \/ BountyWrite(b) \/ BountyAudit(b) \/ BountyEnds(b)

BountySpec == BountyInit /\ [][BountyNext]_bountyVars

-----------------------------------------------------------------------------
(* A bounty that is open to claim, or claimed, holds at least what it takes   *)
(* to activate it, whatever lost updates came before: amount and state are    *)
(* written in one statement (contribute_to_bounty).  And neither the row nor  *)
(* the audit trail holds more than contributors gave: updates are lost, never *)
(* invented.                                                                *)
OpenIsFunded ==
  /\ bounty.state \in {"open", "claimed"} => bounty.funded >= Required
  /\ bounty.funded <= pledged /\ audited <= pledged
=============================================================================
