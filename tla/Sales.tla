-------------------------------- MODULE Sales --------------------------------
(***************************************************************************)
(* Selling one work and tipping its author: set_pricing, delete_pricing,    *)
(* purchase and tip of crates/app/src/routes/monetization.rs with their     *)
(* statements in crates/db/src/monetization.rs.                             *)
(*                                                                         *)
(* A purchase reads the price, looks for an entitlement, grants one and     *)
(* posts the author's share, each in a transaction of its own.  Nothing is  *)
(* charged in the build: the ledger row is the sale.                        *)
(***************************************************************************)
EXTENDS Integers, FiniteSets

CONSTANTS
  SaleTabs,   \* requests in flight at once
  ReaderOf,   \* whose tab each is
  Author,     \* the work's owner, who may be among the readers
  Prices,     \* prices and tips, in minor units
  FeeBp       \* the platform's share in basis points

ASSUME SalesAssumption ==
  /\ Prices \subseteq Nat
  /\ FeeBp \in 0..10000

VARIABLES
  pricing,    \* work_pricing: the price, and whether it is enabled
  entitled,   \* work_entitlements of kind purchase, by account
  earnings,   \* author_earnings_ledger: rows with key, kind and amount
  sale        \* each tab's request: where it is and the amount it goes by

saleVars == <<pricing, entitled, earnings, sale>>

Readers == {ReaderOf[t] : t \in SaleTabs}

NotPriced == [price |-> -1, enabled |-> FALSE]
NoRequest == [at |-> "idle", amount |-> 0]

(* Mutant of PlatformShare: the share is taken for a percentage. *)
PercentShare(amount) == (amount * FeeBp) \div 100

(* Rules::split: the platform's share is rounded down. *)
PlatformShare(amount) == (amount * FeeBp) \div 10000
AuthorShare(amount) == amount - PlatformShare(amount)

(* The idempotency keys: one sale per reader, one tip per reader and amount. *)
TipKey(r, amount) == <<"tip", r, amount>>
FeeKey(r, amount) == <<"platform_fee", r, amount>>

(* Mutant of SaleKey: the price is part of the key. *)
SaleKeyOfPrice(r, amount) == <<"sale", r, amount>>

SaleKey(r, amount) == <<"sale", r, 0>>

SaleTypeOK ==
  /\ pricing \in [price : Prices \cup {-1}, enabled : BOOLEAN]
  /\ entitled \subseteq Readers
  /\ \A e \in earnings : e.key[1] \in {"sale", "tip", "platform_fee"} /\ e.amount \in Nat
  /\ sale \in [SaleTabs -> [at : {"idle", "find", "grant", "insert", "post", "tip", "fee"},
                            amount : Prices \cup {0}]]

SaleInit ==
  /\ pricing = NotPriced
  /\ entitled = {}
  /\ earnings = {}
  /\ sale = [t \in SaleTabs |-> NoRequest]

SaleStep(t, s) == sale' = [sale EXCEPT ![t].at = s]
SaleOver(t) == sale' = [sale EXCEPT ![t] = NoRequest]

(* set_pricing: the UPDATE of an existing row leaves enabled as it is, so a   *)
(* work that was taken off sale stays off sale.                             *)
SetPricing(p) ==
  /\ pricing' = IF pricing.price = -1 THEN [price |-> p, enabled |-> TRUE]
                ELSE [pricing EXCEPT !.price = p]
  /\ UNCHANGED <<entitled, earnings, sale>>

DisablePricing ==
  /\ pricing' = [pricing EXCEPT !.enabled = FALSE]
  /\ UNCHANGED <<entitled, earnings, sale>>

-----------------------------------------------------------------------------
(* purchase *)
ReadPrice(t) ==
  /\ sale[t].at = "idle"
  /\ pricing.enabled
  /\ sale' = [sale EXCEPT ![t] = [at |-> "find", amount |-> pricing.price]]
  /\ UNCHANGED <<pricing, entitled, earnings>>

(* has_entitlement: an entitled reader is told so, and nothing is posted. *)
FindEntitlement(t) ==
  /\ sale[t].at = "find"
  /\ IF ReaderOf[t] \in entitled THEN SaleOver(t) ELSE SaleStep(t, "grant")
  /\ UNCHANGED <<pricing, entitled, earnings>>

(* grant_entitlement looks again, and returns the row it finds. *)
FindGrant(t) ==
  /\ sale[t].at = "grant"
  /\ SaleStep(t, IF ReaderOf[t] \in entitled THEN "post" ELSE "insert")
  /\ UNCHANGED <<pricing, entitled, earnings>>

(* Its INSERT; UNIQUE (account, work, kind) ends the request of a tab that   *)
(* lost the race.                                                           *)
InsertEntitlement(t) ==
  /\ sale[t].at = "insert"
  /\ IF ReaderOf[t] \in entitled THEN SaleOver(t) ELSE SaleStep(t, "post")
  /\ entitled' = entitled \cup {ReaderOf[t]}
  /\ UNCHANGED <<pricing, earnings>>

(* post_earnings: one transaction; a key that is there already posts nothing. *)
Posted(key, amount) ==
  earnings' = IF \E e \in earnings : e.key = key THEN earnings
              ELSE earnings \cup {[key |-> key, amount |-> amount]}

PostSale(t) ==
  /\ sale[t].at = "post"
  /\ Posted(SaleKey(ReaderOf[t], sale[t].amount), AuthorShare(sale[t].amount))
  /\ SaleOver(t)
  /\ UNCHANGED <<pricing, entitled>>

-----------------------------------------------------------------------------
(* tip with money; the author may not tip their own work. *)
AskTip(t, amount) ==
  /\ sale[t].at = "idle"
  /\ ReaderOf[t] # Author
  /\ sale' = [sale EXCEPT ![t] = [at |-> "tip", amount |-> amount]]
  /\ UNCHANGED <<pricing, entitled, earnings>>

(* Mutant of PostTip: the whole tip goes to the author. *)
PostWholeTip(t) ==
  /\ sale[t].at = "tip"
  /\ Posted(TipKey(ReaderOf[t], sale[t].amount), sale[t].amount)
  /\ SaleStep(t, "fee")
  /\ UNCHANGED <<pricing, entitled>>

PostTip(t) ==
  /\ sale[t].at = "tip"
  /\ Posted(TipKey(ReaderOf[t], sale[t].amount), AuthorShare(sale[t].amount))
  /\ SaleStep(t, "fee")
  /\ UNCHANGED <<pricing, entitled>>

(* The platform's share is a second transaction. *)
PostFee(t) ==
  /\ sale[t].at = "fee"
  /\ Posted(FeeKey(ReaderOf[t], sale[t].amount), PlatformShare(sale[t].amount))
  /\ SaleOver(t)
  /\ UNCHANGED <<pricing, entitled>>

(* A request ends early: a statement fails, or the server dies. *)
SaleEnds(t) ==
  /\ sale[t].at # "idle"
  /\ SaleOver(t)
  /\ UNCHANGED <<pricing, entitled, earnings>>

SaleNext ==
  \/ \E p \in Prices : SetPricing(p)
  \/ DisablePricing
  \/ \E t \in SaleTabs :
       \/ ReadPrice(t) \/ FindEntitlement(t) \/ FindGrant(t) \/ InsertEntitlement(t)
       \/ PostSale(t) \/ PostTip(t) \/ PostFee(t) \/ SaleEnds(t)
       \/ \E amount \in Prices : AskTip(t, amount)

SaleSpec == SaleInit /\ [][SaleNext]_saleVars

-----------------------------------------------------------------------------
Rows(kind) == {e \in earnings : e.key[1] = kind}

(* A reader pays for the work once, and only if they may read it: whatever    *)
(* tabs, crashes and changes of price there are, there is at most one sale    *)
(* per reader, and it comes after the entitlement (purchase).               *)
PaidOnceForAccess ==
  /\ \A r \in Readers : Cardinality({e \in Rows("sale") : e.key[2] = r}) <= 1
  /\ \A e \in Rows("sale") : e.key[2] \in entitled

(* A platform fee has its tip beside it, and the two rows add up to what the  *)
(* reader gave: a crash between them loses the platform's share only, and a   *)
(* repeated request restores it (tip).                                      *)
FeeCompletesItsTip ==
  \A fee \in Rows("platform_fee") :
    \E e \in Rows("tip") : /\ e.key = TipKey(fee.key[2], fee.key[3])
                           /\ e.amount + fee.amount = fee.key[3]
=============================================================================
