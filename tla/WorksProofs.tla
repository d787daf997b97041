----------------------------- MODULE WorksProofs -----------------------------
(***************************************************************************)
(* What is explored of a work side by side -- its text, publication, stored *)
(* blobs, contributors, loans, bounties, sales and directory entries -- is a *)
(* behaviour of each part: what is proved of a part holds of the whole.     *)
(***************************************************************************)
EXTENDS MCWorks, ManuscriptProofs, PublicationProofs, BlobStoreProofs, PeopleProofs

LEMMA WorksStepEach ==
  ASSUME [WorksNext]_worksVars
  PROVE  /\ [TextNext]_textVars /\ [Next]_vars /\ [BlobNext]_blobVars
         /\ [ContributorNext]_contributorVars /\ [LoanNext]_loanVars
         /\ [BountyNext]_bountyVars /\ [SaleNext]_saleVars /\ [EntryNext]_entryVars
  BY DEF WorksNext, TextStep, PublicationStep, BlobStep, ContributorStep, LendingStep,
     BountyStep, SalesStep, EntryStep, worksVars, contentVars, economyVars

(* Every behaviour explored of a work and the people around it is a behaviour *)
(* of each part's specification.                                            *)
THEOREM WorksComposed ==
  WorksSpec => /\ TextSpec /\ Spec /\ BlobSpec /\ ContributorSpec
               /\ LoanSpec /\ BountySpec /\ SaleSpec /\ EntrySpec
<1>1. WorksInit => /\ TextInit /\ Init /\ BlobInit /\ ContributorInit
                   /\ LoanInit /\ BountyInit /\ SaleInit /\ EntryInit
  BY DEF WorksInit
<1> QED
  BY <1>1, WorksStepEach, PTL
  DEF WorksSpec, TextSpec, Spec, BlobSpec, ContributorSpec, LoanSpec, BountySpec, SaleSpec,
      EntrySpec

(* Every variable of every part keeps its range. *)
THEOREM WorksTyped == WorksSpec => []WorksTypeOK
  BY WorksComposed, TextTyped, WorkTyped, BlobsTyped, ContributorsTyped, LoansTyped,
     BountyTyped, SalesTyped, EntryTyped, PTL DEF WorksTypeOK

=============================================================================
