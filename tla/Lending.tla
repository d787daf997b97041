------------------------------- MODULE Lending -------------------------------
(***************************************************************************)
(* Loans of works: crates/db/src/lending.rs and the routes lend_work and    *)
(* revoke_loan of crates/app/src/routes/lending.rs.                         *)
(*                                                                         *)
(* A request counts and checks twice before it writes its row, each in a   *)
(* statement of its own, so requests pass one another, and a count that     *)
(* fails is taken for zero (unwrap_or).  A window is what is left of it:    *)
(* LoanTick counts down, "expires_at > now" is left > 0.  There is one row  *)
(* per work and borrower (UNIQUE).  The copy number, a third count, labels  *)
(* the row and decides nothing: left out.                                   *)
(***************************************************************************)
EXTENDS Naturals, FiniteSets

CONSTANTS
  NoWork,
  LoanTabs,    \* requests in flight at once
  NoReader,
  Borrowers,   \* the accounts that ask
  LoanWorks,   \* works that may be lent
  Copies,      \* lending_config.copies_per_work
  MaxLoans,    \* lending_config.borrower_max_loans
  LoanTime,    \* ticks a loan lasts (bound of the model)
  MaxMisreads  \* bound: the counts that fail

ASSUME LendingAssumption ==
  /\ Copies \in Nat /\ MaxLoans \in Nat /\ LoanTime \in Nat \ {0}
  /\ MaxMisreads \in Nat
  /\ NoWork \notin LoanWorks /\ NoReader \notin Borrowers
  /\ LoanTabs # {}
  /\ IsFiniteSet(LoanTabs) /\ IsFiniteSet(LoanWorks) /\ IsFiniteSet(Borrowers)

VARIABLES
  loans,     \* work_loans, by work and borrower
  lend,      \* each tab's request: where it is, its work and who asks
  misread    \* counts that failed so far

loanVars == <<loans, lend, misread>>

(* "absent", or a row; expired is expired_at being set. *)
NoLoan == [row |-> "absent", left |-> 0, expired |-> FALSE]
NoLend == [at |-> "idle", work |-> NoWork, reader |-> NoReader]

LoanTypeOK ==
  /\ loans \in [LoanWorks \X Borrowers ->
                  [row : {"absent", "granted", "revoked"}, left : 0..LoanTime,
                   expired : BOOLEAN]]
  /\ lend \in [LoanTabs -> [at : {"idle", "limit", "grant", "revoke"},
                            work : LoanWorks \cup {NoWork},
                            reader : Borrowers \cup {NoReader}]]
  /\ misread \in 0..MaxMisreads

LoanInit ==
  /\ loans = [k \in LoanWorks \X Borrowers |-> NoLoan]
  /\ lend = [t \in LoanTabs |-> NoLend]
  /\ misread = 0

Active(k) == loans[k].row = "granted" /\ loans[k].left > 0

(* count_active_loans and count_borrower_loans *)
OnLoan(w) == {b \in Borrowers : Active(<<w, b>>)}
Holding(b) == {w \in LoanWorks : Active(<<w, b>>)}

LoanOver(t) == lend' = [lend EXCEPT ![t] = NoLend]

(* Mutant of CopyFree: one copy more than there are. *)
CopyFreeOrLast(w) == Cardinality(OnLoan(w)) <= Copies

CopyFree(w) == Cardinality(OnLoan(w)) < Copies

(* lending_capacity and the borrower's limit: passed by the count, or by a    *)
(* count that failed, since zero is under any limit but zero.               *)
Counted(free, limit) ==
  \/ free /\ UNCHANGED misread
  \/ limit > 0 /\ misread < MaxMisreads /\ misread' = misread + 1

LoanAsk(t, w, b) ==
  /\ lend[t].at = "idle"
  /\ Counted(CopyFree(w), Copies)
  /\ lend' = [lend EXCEPT ![t] = [at |-> "limit", work |-> w, reader |-> b]]
  /\ UNCHANGED loans

UnderLimit(b) == Cardinality(Holding(b)) < MaxLoans

LoanLimit(t) ==
  /\ lend[t].at = "limit"
  /\ Counted(UnderLimit(lend[t].reader), MaxLoans)
  /\ lend' = [lend EXCEPT ![t].at = "grant"]
  /\ UNCHANGED loans

(* Mutant of Granted: a re-grant leaves expired_at as it was. *)
GrantedAgain(old) == [old EXCEPT !.row = "granted", !.left = LoanTime]

Granted(old) == [row |-> "granted", left |-> LoanTime, expired |-> FALSE]

(* grant_loan: an INSERT, or the borrower's old row for this work again. *)
LoanGrant(t) ==
  /\ lend[t].at = "grant"
  /\ loans' = [loans EXCEPT ![<<lend[t].work, lend[t].reader>>] = Granted(@)]
  /\ LoanOver(t)
  /\ UNCHANGED misread

(* revoke_loan finds the active loan, and revokes that row if it is not      *)
(* revoked by then; it may have been granted anew in between.               *)
LoanFind(t, w, b) ==
  /\ lend[t].at = "idle"
  /\ Active(<<w, b>>)
  /\ lend' = [lend EXCEPT ![t] = [at |-> "revoke", work |-> w, reader |-> b]]
  /\ UNCHANGED <<loans, misread>>

LoanRevoke(t) ==
  /\ lend[t].at = "revoke"
  /\ loans' = [loans EXCEPT ![<<lend[t].work, lend[t].reader>>].row = "revoked"]
  /\ LoanOver(t)
  /\ UNCHANGED misread

LoanDue(k) == loans[k].row = "granted" /\ ~loans[k].expired /\ loans[k].left = 0

(* expire_due_loans, from the workers' maintenance pass. *)
LoanSweep ==
  /\ \E k \in DOMAIN loans : LoanDue(k)
  /\ loans' = [k \in DOMAIN loans |->
                 IF LoanDue(k) THEN [loans[k] EXCEPT !.expired = TRUE] ELSE loans[k]]
  /\ UNCHANGED <<lend, misread>>

LoanTick ==
  /\ \E k \in DOMAIN loans : loans[k].left > 0
  /\ loans' = [k \in DOMAIN loans |->
                 [loans[k] EXCEPT !.left = IF @ > 0 THEN @ - 1 ELSE 0]]
  /\ UNCHANGED <<lend, misread>>

(* A request ends early: refused by a check, a statement fails, or the       *)
(* server dies.                                                             *)
LoanEnds(t) ==
  /\ lend[t].at # "idle"
  /\ LoanOver(t)
  /\ UNCHANGED <<loans, misread>>

LoanNext ==
  \/ \E t \in LoanTabs, w \in LoanWorks, b \in Borrowers :
       LoanAsk(t, w, b) \/ LoanFind(t, w, b)
  \/ \E t \in LoanTabs : LoanLimit(t) \/ LoanGrant(t)
                         \/ LoanRevoke(t) \/ LoanEnds(t)
  \/ LoanSweep \/ LoanTick

LoanSpec == LoanInit /\ [][LoanNext]_loanVars

-----------------------------------------------------------------------------
(* The cap on a work's copies is checked before the row is written, so it     *)
(* can be exceeded, but only by requests in flight together and by counts     *)
(* that failed: alone, with counts that answer, it holds (lend_work).        *)
(* So can the borrower's own limit, by the same requests and no more.        *)
LimitsBoundedByRequests ==
  /\ \A w \in LoanWorks :
       Cardinality(OnLoan(w)) + 1 <= Copies + Cardinality(LoanTabs) + misread
  /\ \A b \in Borrowers :
       Cardinality(Holding(b)) + 1 <= MaxLoans + Cardinality(LoanTabs) + misread

(* A row stamped as expired has no time left, through any re-grant,          *)
(* revocation and sweep: the stamp and the window never contradict each      *)
(* other (grant_loan, expire_due_loans).                                    *)
ExpiredIsOver == \A k \in DOMAIN loans : loans[k].expired => loans[k].left = 0
=============================================================================
