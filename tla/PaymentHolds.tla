------------------------------ MODULE PaymentHolds ------------------------------
(***************************************************************************)
(* What payments and their refunds do to one wallet: the credit of a       *)
(* settled payment (PaymentSettlementService), the end of its settlement   *)
(* hold (SettlementReleaseService), and refunds of it, which hold money,   *)
(* then pay it out or give it back (RefundsService).                       *)
(*                                                                         *)
(* The wallet's three balances are ledger accounts (module Ledger); the    *)
(* payments.pending_amount column and the refund rows must agree with      *)
(* them.  A database transaction is one step unless it reads, without a    *)
(* lock, something that others may change before it commits: a request     *)
(* reads what other refunds have committed, a completion counts the        *)
(* successful ones.  A request that is refused changes nothing and is not  *)
(* a step.                                                                 *)
(***************************************************************************)
EXTENDS ConversionReversal, Sums

CONSTANTS
  Payments,      \* payments into the wallet
  Refunds,       \* refund rows that may come to exist
  Charged,       \* what each payment charges
  Credits,       \* what its quote, or a late re-quote, may convert that into
  Fee,           \* the fee locked at initialisation
  Held           \* payments credited while settlementDelaySeconds > 0

ASSUME PaymentsAssumption ==
  /\ IsFiniteSet(Payments) /\ IsFiniteSet(Refunds)
  /\ Charged \in [Payments -> Nat \ {0}]
  /\ Credits \in [Payments -> SUBSET (Nat \ {0})]
  /\ Fee \in [Payments -> Nat]
  /\ Held \subseteq Payments

VARIABLES
  status,       \* the payment's transaction
  credited,     \* what its quote credited (the charge, if there is no quote)
  pendingAmount,  \* how much of the credit is in the settlement hold
  availableAt,  \* payments.funds_available_at against the clock
  settled,      \* the amount posted under settlement:<payment>, 0 if none is
  available, pending, reserved,  \* the wallet's balances
  active,       \* the wallet is not frozen
  refund,       \* refund rows, committed
  request,      \* open createWithHold transactions
  completion    \* open complete() transactions

payments == <<status, credited, pendingAmount, availableAt, settled>>
wallet == <<available, pending, reserved, active>>
vars == <<payments, wallet, refund, request, completion>>

NoRefund == [status |-> "none"]
NoRequest == [status |-> "none"]

Init ==
  /\ status = [p \in Payments |-> "pending"]
  /\ credited = [p \in Payments |-> 0]
  /\ pendingAmount = [p \in Payments |-> 0]
  /\ availableAt = [p \in Payments |-> "unset"]
  /\ settled = [p \in Payments |-> 0]
  /\ available = 0 /\ pending = 0 /\ reserved = 0
  /\ active = TRUE
  /\ refund = [r \in Refunds |-> NoRefund]
  /\ request = [r \in Refunds |-> NoRequest]
  /\ completion = [r \in Refunds |-> "none"]

-----------------------------------------------------------------------------
(* Helpers. *)

Smaller(x, y) == IF x < y THEN x ELSE y

\* The refunds of a payment that are in one of these states.
RefundsOf(p, states) ==
  {r \in Refunds : refund[r].status \in states /\ refund[r].payment = p}

\* The columns of the refunds table that are added up.
Amount == [r \in Refunds |-> IF refund[r].status = "none" THEN 0 ELSE refund[r].amount]
WalletDebitAmount ==
  [r \in Refunds |-> IF refund[r].status = "none" THEN 0 ELSE refund[r].walletDebit]
PendingHoldAmount ==
  [r \in Refunds |-> IF refund[r].status = "none" THEN 0 ELSE refund[r].fromPending]

\* Refunds that count against the payment.
CommittedAmount(p) == SumOver(Amount, RefundsOf(p, {"processing", "successful"}))

\* RefundsService.reversal: without a quote the wallet pays what is refunded.
Reversal(p, refundedBefore, amount) ==
  IF credited[p] = Charged[p] THEN amount
  ELSE WalletDebit(Charged[p], credited[p], refundedBefore, amount)

\* Mutant of PaymentLocked: the payment's row is read without FOR UPDATE.
PaymentLocked_Never(p) == FALSE

\* Somebody has locked the payment's row, or the wallet's reserved account.
PaymentLocked(p) == \E r \in Refunds : request[r].status = "open" /\ request[r].payment = p

\* Mutant of ReservedLocked: the refund's posting does not lock its account.
ReservedLocked_Never == FALSE

ReservedLocked == \E r \in Refunds : completion[r] # "none"

-----------------------------------------------------------------------------
(* Payments. *)

\* credit(): the transaction row lock serialises webhook and verify calls.
Credit(p) ==
  /\ status[p] = "pending"
  /\ active
  /\ \E c \in Credits[p] :
       LET net == c - Smaller(Fee[p], c) IN
       /\ credited' = [credited EXCEPT ![p] = c]
       /\ IF p \in Held
          THEN /\ pending' = pending + net
               /\ available' = available
               /\ pendingAmount' = [pendingAmount EXCEPT ![p] = net]
          ELSE /\ available' = available + net
               /\ UNCHANGED <<pending, pendingAmount>>
  /\ status' = [status EXCEPT ![p] = "successful"]
  /\ availableAt' = [availableAt EXCEPT ![p] = IF p \in Held THEN "future" ELSE "past"]
  /\ UNCHANGED <<settled, reserved, active, refund, request, completion>>

FailPayment(p) ==
  /\ status[p] = "pending"
  /\ status' = [status EXCEPT ![p] = "failed"]
  /\ UNCHANGED <<credited, pendingAmount, availableAt, settled, wallet, refund, request, completion>>

\* The clock reaches fundsAvailableAt.
HoldEnds(p) ==
  /\ availableAt[p] = "future"
  /\ availableAt' = [availableAt EXCEPT ![p] = "past"]
  /\ UNCHANGED <<status, credited, pendingAmount, settled, wallet, refund, request, completion>>

\* Mutant of Release: the payment's row is not updated.
Release_KeepsHold(p) ==
  /\ ~PaymentLocked(p)
  /\ pendingAmount[p] > 0 /\ settled[p] = 0
  /\ pending' = pending - pendingAmount[p]
  /\ available' = available + pendingAmount[p]
  /\ settled' = [settled EXCEPT ![p] = pendingAmount[p]]
  /\ UNCHANGED <<status, credited, pendingAmount, availableAt, reserved, active, refund, request, completion>>

\* release(): pending -> available under the reference settlement:<payment>.
\* If that reference is posted already the ledger replays it and moves
\* nothing; if it was posted for another amount, it throws.
Release(p) ==
  LET moved == IF settled[p] = 0 THEN pendingAmount[p] ELSE 0 IN
  /\ ~PaymentLocked(p)
  /\ pendingAmount[p] > 0
  /\ settled[p] \in {0, pendingAmount[p]}
  /\ pending' = pending - moved
  /\ available' = available + moved
  /\ settled' = [settled EXCEPT ![p] = pendingAmount[p]]
  /\ pendingAmount' = [pendingAmount EXCEPT ![p] = 0]
  /\ availableAt' = [availableAt EXCEPT ![p] = "past"]
  /\ UNCHANGED <<status, credited, reserved, active, refund, request, completion>>

\* Mutant of ReleaseDue: a frozen wallet's holds wait.
ReleaseDue_IfActive(p) == availableAt[p] = "past" /\ active /\ Release(p)

\* The maintenance worker; an admin may release before the hold ends.
ReleaseDue(p) == availableAt[p] = "past" /\ Release(p)
ReleaseEarly(p) == availableAt[p] = "future" /\ Release(p)

-----------------------------------------------------------------------------
(* Refunds. *)

\* createWithHold up to the sum of the other refunds: the payment is locked.
Request(r, p, amount) ==
  LET refundedBefore == CommittedAmount(p) IN
  /\ refund[r].status = "none" /\ request[r].status = "none"
  /\ ~PaymentLocked(p)
  /\ status[p] = "successful"
  /\ amount \in 1..(Charged[p] - refundedBefore)
  /\ request' = [request EXCEPT ![r] =
       [status |-> "open", payment |-> p, amount |-> amount, before |-> refundedBefore]]
  /\ UNCHANGED <<payments, wallet, refund, completion>>

\* Mutant of Covered: the available balance is not checked.
Covered_Always(fromAvailable) == TRUE

\* The ledger's check on the part that comes from the available balance.
Covered(fromAvailable) == fromAvailable <= available

\* The rest of it: from the payment's pending credit first, then from the
\* available balance.  The ledger refuses a posting of nothing.
Hold(r) ==
  LET p == request[r].payment
      walletDebit == Reversal(p, request[r].before, request[r].amount)
      fromPending == Smaller(pendingAmount[p], walletDebit)
  IN
  /\ request[r].status = "open"
  /\ active
  /\ walletDebit > 0
  /\ Covered(walletDebit - fromPending)
  /\ ~ReservedLocked
  /\ pending' = pending - fromPending
  /\ available' = available - (walletDebit - fromPending)
  /\ reserved' = reserved + walletDebit
  /\ pendingAmount' = [pendingAmount EXCEPT ![p] = @ - fromPending]
  /\ refund' = [refund EXCEPT ![r] =
       [status |-> "processing", payment |-> p, amount |-> request[r].amount,
        walletDebit |-> walletDebit, fromPending |-> fromPending]]
  /\ request' = [request EXCEPT ![r] = NoRequest]
  /\ UNCHANGED <<status, credited, availableAt, settled, active, completion>>

\* It is refused or its connection is lost.
RollbackRequest(r) ==
  /\ request[r].status = "open"
  /\ request' = [request EXCEPT ![r] = NoRequest]
  /\ UNCHANGED <<payments, wallet, refund, completion>>

\* complete(): the refund's transaction row and, by the posting that takes the
\* money out of the wallet, the reserved account are locked.
PostRefund(r) ==
  /\ refund[r].status = "processing" /\ completion[r] = "none"
  /\ ~ReservedLocked
  /\ completion' = [completion EXCEPT ![r] = "posted"]
  /\ UNCHANGED <<payments, wallet, refund, request>>

\* markPaymentReversedIfFullyRefunded: sees its own transition, and what others
\* have committed.
CountRefunds(r) ==
  LET p == refund[r].payment
      total == SumOver(Amount, RefundsOf(p, {"successful"}) \cup {r})
  IN
  /\ completion[r] = "posted"
  /\ completion' = [completion EXCEPT ![r] =
                      IF total = Charged[p] THEN "full" ELSE "partial"]
  /\ UNCHANGED <<payments, wallet, refund, request>>

\* Mutant of Complete: the charged amount leaves the wallet, not the converted one.
Complete_ChargedAmount(r) ==
  LET p == refund[r].payment IN
  /\ completion[r] \in {"full", "partial"}
  /\ reserved' = reserved - refund[r].amount
  /\ refund' = [refund EXCEPT ![r].status = "successful"]
  /\ status' = [status EXCEPT ![p] = IF completion[r] = "full" THEN "reversed" ELSE @]
  /\ completion' = [completion EXCEPT ![r] = "none"]
  /\ UNCHANGED <<credited, pendingAmount, availableAt, settled, available, pending, active, request>>

\* The commit of complete().
Complete(r) ==
  LET p == refund[r].payment IN
  /\ completion[r] \in {"full", "partial"}
  /\ reserved' = reserved - refund[r].walletDebit
  /\ refund' = [refund EXCEPT ![r].status = "successful"]
  /\ status' = [status EXCEPT ![p] = IF completion[r] = "full" THEN "reversed" ELSE @]
  /\ completion' = [completion EXCEPT ![r] = "none"]
  /\ UNCHANGED <<credited, pendingAmount, availableAt, settled, available, pending, active, request>>

AbortCompletion(r) ==
  /\ completion[r] # "none"
  /\ completion' = [completion EXCEPT ![r] = "none"]
  /\ UNCHANGED <<payments, wallet, refund, request>>

\* Mutant of ReturnToPending: the hold is taken to go on as long as it is unpaid.
ReturnToPending_Always(r) == refund[r].fromPending

\* Mutant of ReturnToPending: everything becomes available.
ReturnToPending_Never(r) == 0

\* How much of a failed refund goes back into the settlement hold.
ReturnToPending(r) ==
  LET p == refund[r].payment IN
  IF pendingAmount[p] > 0 \/ availableAt[p] = "future" THEN refund[r].fromPending ELSE 0

\* fail(): works on frozen wallets too.
Fail(r) ==
  LET p == refund[r].payment
      toPending == ReturnToPending(r)
  IN
  /\ refund[r].status = "processing"
  /\ completion[r] = "none"
  /\ refund[r].fromPending > 0 => ~PaymentLocked(p)
  /\ ~ReservedLocked
  /\ reserved' = reserved - refund[r].walletDebit
  /\ pending' = pending + toPending
  /\ available' = available + (refund[r].walletDebit - toPending)
  /\ pendingAmount' = [pendingAmount EXCEPT ![p] = @ + toPending]
  /\ refund' = [refund EXCEPT ![r].status = "failed"]
  /\ UNCHANGED <<status, credited, availableAt, settled, active, request, completion>>

-----------------------------------------------------------------------------
(* The rest of the wallet. *)

\* The owner spends available money (transfers, payouts, conversions).
Spend ==
  /\ active
  /\ available > 0
  /\ available' = available - 1
  /\ UNCHANGED <<payments, pending, reserved, active, refund, request, completion>>

\* WalletsService.setStatus: freezing and unfreezing.
SetStatus ==
  /\ active' = ~active
  /\ UNCHANGED <<payments, available, pending, reserved, refund, request, completion>>

Next ==
  \/ \E p \in Payments :
       Credit(p) \/ FailPayment(p) \/ HoldEnds(p) \/ ReleaseDue(p) \/ ReleaseEarly(p)
  \/ \E r \in Refunds, p \in Payments : \E amount \in 1..Charged[p] : Request(r, p, amount)
  \/ \E r \in Refunds :
       \/ Hold(r) \/ RollbackRequest(r)
       \/ PostRefund(r) \/ CountRefunds(r) \/ Complete(r) \/ AbortCompletion(r)
       \/ Fail(r)
  \/ Spend \/ SetStatus

Spec == Init /\ [][Next]_vars

\* The maintenance worker releases what is due every minute, and a request
\* that is refused or dies lets go of the payment's row.  PostgreSQL serves
\* those who wait for a row in turn, so the worker gets it in the end.
Fairness ==
  /\ \A p \in Payments : SF_vars(ReleaseDue(p))
  /\ \A r \in Refunds : WF_vars(Hold(r) \/ RollbackRequest(r))

FairSpec == Spec /\ Fairness
-----------------------------------------------------------------------------
(* Properties. *)

RefundRow ==
  [status : {"processing", "successful", "failed"}, payment : Payments,
   amount : Nat \ {0}, walletDebit : Nat \ {0}, fromPending : Nat]
RequestRow ==
  [status : {"open"}, payment : Payments, amount : Nat \ {0}, before : Nat]

\* Every variable has its type, and the available balance is not negative.
TypeOK ==
  /\ status \in [Payments -> {"pending", "successful", "failed", "reversed"}]
  /\ credited \in [Payments -> Nat]
  /\ pendingAmount \in [Payments -> Nat]
  /\ availableAt \in [Payments -> {"unset", "future", "past"}]
  /\ settled \in [Payments -> Nat]
  /\ available \in Nat /\ pending \in Int /\ reserved \in Int
  /\ active \in BOOLEAN
  /\ refund \in [Refunds -> RefundRow \cup {NoRefund}]
  /\ request \in [Refunds -> RequestRow \cup {NoRequest}]
  /\ completion \in [Refunds -> {"none", "posted", "full", "partial"}]

\* The wallet's pending account holds exactly what the payments' rows say is in
\* their settlement holds, through credits, releases, refunds out of the hold
\* and failed refunds that grow it back.
PendingIsHeld == pending = SumOver(pendingAmount, Payments)

\* The reserved account holds exactly what processing refunds may still have to
\* pay out: no hold is lost, released twice or paid twice.
ReservedIsOwed ==
  reserved = SumOver(WalletDebitAmount, {r \in Refunds : refund[r].status = "processing"})

\* createWithHold: "Serialises concurrent refunds of one payment, so the
\* remaining amount can't be over-committed."
NeverOverRefunded == \A p \in Payments : CommittedAmount(p) <= Charged[p]

\* A payment is reversed exactly when its successful refunds add up to it, also
\* when the last two complete at the same time: each counts under the lock on
\* the wallet's reserved account, so one of them sees the other.
FullyRefundedIsReversed ==
  \A p \in Payments :
    status[p] = "reversed" <=> SumOver(Amount, RefundsOf(p, {"successful"})) = Charged[p]

\* Until its hold ends, a payment's credit is nowhere but in the hold or in
\* refunds that took it from there: none of it has become spendable.
HoldIsKept ==
  \A p \in Held :
    availableAt[p] = "future" =>
      pendingAmount[p]
        + SumOver(PendingHoldAmount, RefundsOf(p, {"processing", "successful"}))
        = credited[p] - Smaller(Fee[p], credited[p])

\* Once a hold has been released it never grows back: release() has one ledger
\* reference per payment, so a second release would move no money or fail.
SettledOnce == \A p \in Payments : settled[p] # 0 => pendingAmount[p] = 0

\* What is due is released, whatever refunds and freezes happen meanwhile
\* (makeAvailableWithin: "Works on frozen wallets too").
DueIsReleased ==
  \A p \in Payments :
    pendingAmount[p] > 0 /\ availableAt[p] = "past" ~> pendingAmount[p] = 0

\* Every unit that a wallet does not let its owner spend is explained by a row: pending
\* money by the payments that are on hold, reserved money by the refunds under way.
HoldsAreExplained == TypeOK /\ PendingIsHeld /\ ReservedIsOwed
=================================================================================
