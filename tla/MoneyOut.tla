-------------------------------- MODULE MoneyOut --------------------------------
(***************************************************************************)
(* What refunds and payouts promise about money that leaves a wallet       *)
(* through a provider: it is ordered at most once, it leaves the books     *)
(* only if the provider paid, and it comes back to the wallet only if the  *)
(* provider never will have it.                                            *)
(***************************************************************************)

VARIABLES
  book,   \* the money in the ledger: held, paid out, or returned
  order   \* the provider's record

Init == book = "held" /\ order = "none"

\* The provider gets the order, while the money is held for it.
Place ==
  /\ book = "held" /\ order = "none"
  /\ order' \in {"pending", "successful"} /\ UNCHANGED book

\* The provider pays or not; a payout may come back from the bank later.
Answer ==
  /\ \/ order = "pending" /\ order' \in {"successful", "failed"}
     \/ order = "successful" /\ order' = "reversed"
  /\ UNCHANGED book

\* The books follow, perhaps late.
BookPayment ==
  /\ book = "held" /\ order \in {"successful", "reversed"}
  /\ book' = "paid" /\ UNCHANGED order

BookReturn ==
  /\ \/ book = "held" /\ order \in {"none", "failed", "reversed"}
     \/ book = "paid" /\ order = "reversed"
  /\ book' = "returned" /\ UNCHANGED order

Next == Place \/ Answer \/ BookPayment \/ BookReturn

Spec == Init /\ [][Next]_<<book, order>>
=================================================================================
