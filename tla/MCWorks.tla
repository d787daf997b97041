------------------------------- MODULE MCWorks -------------------------------
(* A unit's text, a work's publication, its contributors, a stored blob,      *)
(* loans, a bounty, sales and a directory's entry side by side.  They share   *)
(* no variable, so each is explored with the others at rest: an invariant of  *)
(* one cannot tell.                                                         *)
(* Two tabs on one unit; the owner's tab and a contributor's, with one key;  *)
(* two operations on one blob in two processes.  Lending is explored three   *)
(* times: many borrowers of one work, many works of one borrower, two of each. *)
EXTENDS Manuscript, Publication, BlobStore, Lending, Bounties, Sales,
        Contributors, EntryModeration, TLC

CONSTANTS author, guest, c1, o1, front, back,
          ann, bob, cid, phone, laptop, book, essay, poem

VARIABLE part

economyVars == <<loanVars, bountyVars, saleVars, entryVars>>
contentVars == <<textVars, vars, blobVars, contributorVars>>
worksVars == <<part, contentVars, economyVars>>

Apart == [c \in Clients |-> IF c = c1 THEN front ELSE back]

(* Ann has two tabs open; Bob owns the work on sale. *)
WhoseTab == (phone :> ann) @@ (laptop :> ann) @@ (bob :> bob)

(* What is asked for in each exploration of lending. *)
Asked == [copies |-> {poem} \X Borrowers,
          limits |-> LoanWorks \X {ann},
          lending |-> {book, essay} \X {ann, bob}]

WorksInit ==
  /\ part \in {"text", "publication", "blob", "copies", "limits", "lending", "bounty", "sales",
              "contributors", "entry"}
  /\ TextInit /\ Init /\ BlobInit /\ LoanInit /\ BountyInit /\ SaleInit
  /\ ContributorInit /\ EntryInit
  /\ part # "publication" => work.titled /\ work.listed
  /\ part # "blob" => owner = [c \in Clients |-> o1]

TextStep ==
  /\ part = "text"
  /\ TextNext
  /\ UNCHANGED <<part, vars, blobVars, contributorVars, economyVars>>

(* Edits are the owner's here; the guest decides and loses their role. *)
PublicationStep ==
  /\ part = "publication"
  /\ Next
  /\ edit'[guest].stage = "idle"
  /\ UNCHANGED <<part, textVars, blobVars, contributorVars, economyVars>>

BlobStep ==
  /\ part = "blob"
  /\ BlobNext
  /\ UNCHANGED <<part, textVars, vars, contributorVars, economyVars>>

LendingStep ==
  /\ part \in DOMAIN Asked
  /\ LoanNext
  /\ \A t \in LoanTabs : lend'[t].at # "idle" =>
       <<lend'[t].work, lend'[t].reader>> \in Asked[part]
  /\ UNCHANGED <<part, contentVars, bountyVars, saleVars, entryVars>>

BountyStep ==
  /\ part = "bounty"
  /\ BountyNext
  /\ UNCHANGED <<part, contentVars, loanVars, saleVars, entryVars>>

SalesStep ==
  /\ part = "sales"
  /\ SaleNext
  /\ UNCHANGED <<part, contentVars, loanVars, bountyVars, entryVars>>

ContributorStep ==
  /\ part = "contributors"
  /\ ContributorNext
  /\ UNCHANGED <<part, textVars, vars, blobVars, economyVars>>

EntryStep ==
  /\ part = "entry"
  /\ EntryNext
  /\ UNCHANGED <<part, contentVars, loanVars, bountyVars, saleVars>>

WorksNext ==
  \/ TextStep \/ PublicationStep \/ BlobStep \/ ContributorStep
  \/ LendingStep \/ BountyStep \/ SalesStep \/ EntryStep

WorksSpec == WorksInit /\ [][WorksNext]_worksVars

WorksTypeOK ==
  /\ TextTypeOK /\ TypeOK /\ BlobTypeOK /\ LoanTypeOK /\ BountyTypeOK /\ SaleTypeOK
  /\ ContributorTypeOK /\ EntryTypeOK
=============================================================================
