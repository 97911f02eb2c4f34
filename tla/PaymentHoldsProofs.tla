--------------------------- MODULE PaymentHoldsProofs ---------------------------
(***************************************************************************)
(* Proofs about PaymentHolds, for every set of payments and refunds, every *)
(* charge, quote and fee.                                                  *)
(***************************************************************************)
EXTENDS PaymentHolds, SumsProofs

Committed == {"processing", "successful"}
ProcessingRefunds == {r \in Refunds : refund[r].status = "processing"}
PaidAmount(p) == SumOver(Amount, RefundsOf(p, {"successful"}))
Net(p) == credited[p] - Smaller(Fee[p], credited[p])

\* A payment that is not credited has moved nothing, and one that was released
\* stays released: its hold is over.
PaymentInv ==
  \A p \in Payments :
    /\ status[p] = "pending" => pendingAmount[p] = 0 /\ settled[p] = 0
    /\ settled[p] # 0 => pendingAmount[p] = 0 /\ availableAt[p] = "past"

\* Only credited payments have refunds.
RowsInv ==
  \A r \in Refunds : refund[r].status # "none" =>
    /\ refund[r].fromPending <= refund[r].walletDebit
    /\ status[refund[r].payment] \in {"successful", "reversed"}

\* What an open request has read is still on the safe side: the payment's row
\* is its own, so other refunds of it can only go away.
RequestInv ==
  /\ \A r \in Refunds, p \in Payments :
       request[r].status = "open" /\ request[r].payment = p =>
         /\ refund[r] = NoRefund
         /\ status[p] \in {"successful", "reversed"}
         /\ CommittedAmount(p) <= request[r].before
         /\ request[r].before + request[r].amount <= Charged[p]
  /\ \A r, s \in Refunds :
       /\ request[r].status = "open" /\ request[s].status = "open"
       /\ request[r].payment = request[s].payment
       => r = s

\* One completion at a time holds the reserved account, so what it has counted
\* stays true until it commits.
CompletionInv ==
  /\ \A r \in Refunds : completion[r] # "none" => refund[r].status = "processing"
  /\ \A r \in Refunds, p \in Payments :
       completion[r] # "none" /\ refund[r].payment = p =>
         /\ completion[r] = "full" => PaidAmount(p) + refund[r].amount = Charged[p]
         /\ completion[r] = "partial" => PaidAmount(p) + refund[r].amount # Charged[p]
  /\ \A r, s \in Refunds : completion[r] # "none" /\ completion[s] # "none" => r = s

IInv ==
  /\ TypeOK /\ PaymentInv /\ RowsInv /\ RequestInv /\ CompletionInv
  /\ PendingIsHeld /\ ReservedIsOwed /\ NeverOverRefunded
  /\ FullyRefundedIsReversed /\ HoldIsKept

-----------------------------------------------------------------------------
(* Columns and sums. *)

\* The columns are natural numbers over a finite table.
LEMMA Columns ==
  ASSUME TypeOK
  PROVE  /\ Amount \in [Refunds -> Nat]
         /\ WalletDebitAmount \in [Refunds -> Nat]
         /\ PendingHoldAmount \in [Refunds -> Nat]
         /\ IsFiniteSet(ProcessingRefunds)
         /\ \A p \in Payments : \A states : IsFiniteSet(RefundsOf(p, states))
  <1>1. /\ Amount \in [Refunds -> Nat]
        /\ WalletDebitAmount \in [Refunds -> Nat]
        /\ PendingHoldAmount \in [Refunds -> Nat]
    BY DEF TypeOK, Amount, WalletDebitAmount, PendingHoldAmount, RefundRow, NoRefund
  <1>2. ProcessingRefunds \subseteq Refunds
    BY DEF ProcessingRefunds
  <1>3. \A p \in Payments : \A states : RefundsOf(p, states) \subseteq Refunds
    BY DEF RefundsOf
  <1>4. IsFiniteSet(Refunds)
    BY PaymentsAssumption
  <1>5. \A S \in SUBSET Refunds : IsFiniteSet(S)
    BY <1>4, FS_Subset
  <1>6. QED
    BY <1>1, <1>2, <1>3, <1>5

\* So are their sums.
LEMMA SumsAreNat ==
  ASSUME TypeOK
  PROVE  /\ SumOver(WalletDebitAmount, ProcessingRefunds) \in Nat
         /\ \A p \in Payments :
              /\ CommittedAmount(p) \in Nat
              /\ PaidAmount(p) \in Nat
              /\ SumOver(PendingHoldAmount, RefundsOf(p, Committed)) \in Nat
  <1>1. /\ \A r \in Refunds : Amount[r] \in Nat
        /\ \A r \in Refunds : WalletDebitAmount[r] \in Nat
        /\ \A r \in Refunds : PendingHoldAmount[r] \in Nat
    BY Columns
  <1>2. SumOver(WalletDebitAmount, ProcessingRefunds) \in Nat
    <2>1. \A r \in ProcessingRefunds : WalletDebitAmount[r] \in Nat
      BY <1>1 DEF ProcessingRefunds
    <2>2. QED
      BY <2>1, Columns, SumType
  <1>3. ASSUME NEW p \in Payments, NEW states
        PROVE  /\ SumOver(Amount, RefundsOf(p, states)) \in Nat
               /\ SumOver(PendingHoldAmount, RefundsOf(p, states)) \in Nat
    <2>1. \A r \in RefundsOf(p, states) : Amount[r] \in Nat /\ PendingHoldAmount[r] \in Nat
      BY <1>1 DEF RefundsOf
    <2>2. IsFiniteSet(RefundsOf(p, states))
      BY Columns
    <2>3. QED
      BY <2>1, <2>2, SumType
  <1>4. QED
    BY <1>2, <1>3 DEF CommittedAmount, PaidAmount

\* A step that leaves the refund rows alone leaves every sum over them alone.
LEMMA SumsFrame ==
  ASSUME refund' = refund
  PROVE  /\ SumOver(WalletDebitAmount, ProcessingRefunds)'
              = SumOver(WalletDebitAmount, ProcessingRefunds)
         /\ \A p \in Payments :
              /\ CommittedAmount(p)' = CommittedAmount(p)
              /\ PaidAmount(p)' = PaidAmount(p)
              /\ SumOver(PendingHoldAmount, RefundsOf(p, Committed))'
                   = SumOver(PendingHoldAmount, RefundsOf(p, Committed))
  BY DEF CommittedAmount, PaidAmount, RefundsOf, ProcessingRefunds, Amount,
         WalletDebitAmount, PendingHoldAmount, Committed, SumOver, Units
\* The prime of a sum is the sum of the primes.
LEMMA PrimedSums ==
  /\ SumOver(WalletDebitAmount, ProcessingRefunds)'
       = SumOver(WalletDebitAmount', ProcessingRefunds')
  /\ \A p \in Payments :
       /\ CommittedAmount(p)' = SumOver(Amount', RefundsOf(p, Committed)')
       /\ PaidAmount(p)' = SumOver(Amount', RefundsOf(p, {"successful"})')
       /\ SumOver(PendingHoldAmount, RefundsOf(p, Committed))'
            = SumOver(PendingHoldAmount', RefundsOf(p, Committed)')
  BY DEF CommittedAmount, PaidAmount, Committed, SumOver, Units

\* A new refund adds its own amounts to the sums over processing refunds.
LEMMA NewRefundSums ==
  ASSUME TypeOK, NEW r \in Refunds, refund[r] = NoRefund,
         NEW row \in RefundRow, row.status = "processing",
         refund' = [refund EXCEPT ![r] = row]
  PROVE  /\ SumOver(WalletDebitAmount, ProcessingRefunds)'
              = SumOver(WalletDebitAmount, ProcessingRefunds) + row.walletDebit
         /\ \A p \in Payments :
              /\ PaidAmount(p)' = PaidAmount(p)
              /\ p = row.payment =>
                   /\ CommittedAmount(p)' = CommittedAmount(p) + row.amount
                   /\ SumOver(PendingHoldAmount, RefundsOf(p, Committed))'
                        = SumOver(PendingHoldAmount, RefundsOf(p, Committed)) + row.fromPending
              /\ p # row.payment =>
                   /\ CommittedAmount(p)' = CommittedAmount(p)
                   /\ SumOver(PendingHoldAmount, RefundsOf(p, Committed))'
                        = SumOver(PendingHoldAmount, RefundsOf(p, Committed))
  <1>0. /\ row.amount \in Nat /\ row.walletDebit \in Nat /\ row.fromPending \in Nat
        /\ refund[r].status = "none"
        /\ refund \in [Refunds -> RefundRow \cup {NoRefund}]
    BY DEF TypeOK, RefundRow, NoRefund
  <1>1. /\ Amount' \in [Refunds -> Nat] /\ Amount'[r] = row.amount
        /\ \A x \in Refunds \ {r} : Amount'[x] = Amount[x]
    BY <1>0, Columns DEF Amount
  <1>2. /\ WalletDebitAmount' \in [Refunds -> Nat] /\ WalletDebitAmount'[r] = row.walletDebit
        /\ \A x \in Refunds \ {r} : WalletDebitAmount'[x] = WalletDebitAmount[x]
    BY <1>0, Columns DEF WalletDebitAmount
  <1>3. /\ PendingHoldAmount' \in [Refunds -> Nat] /\ PendingHoldAmount'[r] = row.fromPending
        /\ \A x \in Refunds \ {r} : PendingHoldAmount'[x] = PendingHoldAmount[x]
    BY <1>0, Columns DEF PendingHoldAmount
  <1>4. ProcessingRefunds' = ProcessingRefunds \cup {r} /\ r \notin ProcessingRefunds
    BY <1>0 DEF ProcessingRefunds
  <1>5. ASSUME NEW p \in Payments
        PROVE  /\ r \notin RefundsOf(p, Committed) /\ r \notin RefundsOf(p, {"successful"})
               /\ RefundsOf(p, {"successful"})' = RefundsOf(p, {"successful"})
               /\ p = row.payment => RefundsOf(p, Committed)' = RefundsOf(p, Committed) \cup {r}
               /\ p # row.payment => RefundsOf(p, Committed)' = RefundsOf(p, Committed)
    BY <1>0 DEF RefundsOf, Committed
  <1>6. ASSUME NEW S \in SUBSET Refunds, r \notin S, NEW f \in [Refunds -> Nat],
               NEW g \in [Refunds -> Nat], \A x \in Refunds \ {r} : g[x] = f[x]
        PROVE  SumOver(g, S) = SumOver(f, S) /\ SumOver(g, S \cup {r}) = SumOver(f, S) + g[r]
    <2>1. SumOver(g, S) = SumOver(f, S)
      BY <1>6, SumEqual
    <2>2. IsFiniteSet(S)
      BY PaymentsAssumption, FS_Subset
    <2>3. \A y \in S \cup {r} : g[y] \in Nat
      BY <1>6
    <2>4. SumOver(g, S \cup {r}) = SumOver(g, S) + g[r]
      BY <1>6, <2>2, <2>3, SumAdd
    <2>5. QED
      BY <2>1, <2>4
  <1>7. SumOver(WalletDebitAmount, ProcessingRefunds)'
          = SumOver(WalletDebitAmount, ProcessingRefunds) + row.walletDebit
    <2>1. ProcessingRefunds \in SUBSET Refunds
      BY DEF ProcessingRefunds
    <2>2. SumOver(WalletDebitAmount', ProcessingRefunds \cup {r})
            = SumOver(WalletDebitAmount, ProcessingRefunds) + WalletDebitAmount'[r]
      BY <1>2, <1>4, <1>6, <2>1, Columns
    <2>3. QED
      BY <1>2, <1>4, <2>2, PrimedSums
  <1>8. ASSUME NEW p \in Payments
        PROVE  /\ PaidAmount(p)' = PaidAmount(p)
               /\ p = row.payment =>
                    /\ CommittedAmount(p)' = CommittedAmount(p) + row.amount
                    /\ SumOver(PendingHoldAmount, RefundsOf(p, Committed))'
                         = SumOver(PendingHoldAmount, RefundsOf(p, Committed)) + row.fromPending
               /\ p # row.payment =>
                    /\ CommittedAmount(p)' = CommittedAmount(p)
                    /\ SumOver(PendingHoldAmount, RefundsOf(p, Committed))'
                         = SumOver(PendingHoldAmount, RefundsOf(p, Committed))
    <2>1. RefundsOf(p, Committed) \in SUBSET Refunds /\ RefundsOf(p, {"successful"}) \in SUBSET Refunds
      BY DEF RefundsOf
    <2>0. Amount \in [Refunds -> Nat] /\ PendingHoldAmount \in [Refunds -> Nat]
      BY Columns
    <2>a. SumOver(Amount', RefundsOf(p, {"successful"})) = SumOver(Amount, RefundsOf(p, {"successful"}))
      BY <1>1, <1>5, <1>6, <2>0, <2>1
    <2>2. /\ SumOver(Amount', RefundsOf(p, Committed)) = SumOver(Amount, RefundsOf(p, Committed))
          /\ SumOver(Amount', RefundsOf(p, Committed) \cup {r})
               = SumOver(Amount, RefundsOf(p, Committed)) + Amount'[r]
      BY <1>1, <1>5, <1>6, <2>0, <2>1
    <2>3. /\ SumOver(PendingHoldAmount', RefundsOf(p, Committed))
               = SumOver(PendingHoldAmount, RefundsOf(p, Committed))
          /\ SumOver(PendingHoldAmount', RefundsOf(p, Committed) \cup {r})
               = SumOver(PendingHoldAmount, RefundsOf(p, Committed)) + PendingHoldAmount'[r]
      BY <1>3, <1>5, <1>6, <2>0, <2>1
    <2>4. /\ PaidAmount(p) = SumOver(Amount, RefundsOf(p, {"successful"}))
          /\ CommittedAmount(p) = SumOver(Amount, RefundsOf(p, Committed))
      BY DEF PaidAmount, CommittedAmount, Committed
    <2>5. QED
      BY <1>1, <1>3, <1>5, <2>a, <2>2, <2>3, <2>4, PrimedSums
  <1>9. QED
    BY <1>7, <1>8

\* Settling a refund moves its amounts from one sum to another.
LEMMA SettledRefundSums ==
  ASSUME TypeOK, NEW r \in Refunds, refund[r].status = "processing",
         NEW s \in {"successful", "failed"},
         refund' = [refund EXCEPT ![r].status = s]
  PROVE  /\ SumOver(WalletDebitAmount, ProcessingRefunds)'
              = SumOver(WalletDebitAmount, ProcessingRefunds) - refund[r].walletDebit
         /\ \A p \in Payments : p # refund[r].payment =>
              /\ CommittedAmount(p)' = CommittedAmount(p)
              /\ PaidAmount(p)' = PaidAmount(p)
              /\ SumOver(PendingHoldAmount, RefundsOf(p, Committed))'
                   = SumOver(PendingHoldAmount, RefundsOf(p, Committed))
         /\ \A p \in Payments : p = refund[r].payment /\ s = "successful" =>
              /\ CommittedAmount(p)' = CommittedAmount(p)
              /\ PaidAmount(p)' = PaidAmount(p) + refund[r].amount
              /\ PaidAmount(p) + refund[r].amount <= CommittedAmount(p)
              /\ SumOver(PendingHoldAmount, RefundsOf(p, Committed))'
                   = SumOver(PendingHoldAmount, RefundsOf(p, Committed))
         /\ \A p \in Payments : p = refund[r].payment /\ s = "failed" =>
              /\ CommittedAmount(p)' = CommittedAmount(p) - refund[r].amount
              /\ PaidAmount(p)' = PaidAmount(p)
              /\ SumOver(PendingHoldAmount, RefundsOf(p, Committed))'
                   = SumOver(PendingHoldAmount, RefundsOf(p, Committed)) - refund[r].fromPending
  <1>0. /\ refund \in [Refunds -> RefundRow \cup {NoRefund}]
        /\ refund[r] \in RefundRow
    BY DEF TypeOK, NoRefund
  <1>1. /\ refund'[r].status = s
        /\ refund'[r].payment = refund[r].payment
        /\ refund'[r].amount = refund[r].amount
        /\ refund'[r].walletDebit = refund[r].walletDebit
        /\ refund'[r].fromPending = refund[r].fromPending
        /\ \A x \in Refunds \ {r} : refund'[x] = refund[x]
    BY <1>0 DEF RefundRow
  <1>2. Amount' = Amount /\ WalletDebitAmount' = WalletDebitAmount
        /\ PendingHoldAmount' = PendingHoldAmount
    BY <1>1 DEF Amount, WalletDebitAmount, PendingHoldAmount
  <1>3. /\ Amount[r] = refund[r].amount /\ WalletDebitAmount[r] = refund[r].walletDebit
        /\ PendingHoldAmount[r] = refund[r].fromPending
    BY DEF Amount, WalletDebitAmount, PendingHoldAmount
  <1>4. SumOver(WalletDebitAmount, ProcessingRefunds)'
          = SumOver(WalletDebitAmount, ProcessingRefunds) - refund[r].walletDebit
    <2>1. ProcessingRefunds' = ProcessingRefunds \ {r} /\ r \in ProcessingRefunds
      BY <1>1 DEF ProcessingRefunds
    <2>2. \A y \in ProcessingRefunds : WalletDebitAmount[y] \in Nat
      BY Columns DEF ProcessingRefunds
    <2>3. SumOver(WalletDebitAmount, ProcessingRefunds \ {r})
            = SumOver(WalletDebitAmount, ProcessingRefunds) - WalletDebitAmount[r]
      BY <2>1, <2>2, Columns, SumRemove
    <2>4. QED
      BY <1>2, <1>3, <2>1, <2>3, PrimedSums
  <1>5. ASSUME NEW p \in Payments
        PROVE  /\ CommittedAmount(p) = SumOver(Amount, RefundsOf(p, Committed))
               /\ PaidAmount(p) = SumOver(Amount, RefundsOf(p, {"successful"}))
               /\ CommittedAmount(p)' = SumOver(Amount, RefundsOf(p, Committed)')
               /\ PaidAmount(p)' = SumOver(Amount, RefundsOf(p, {"successful"})')
               /\ SumOver(PendingHoldAmount, RefundsOf(p, Committed))'
                    = SumOver(PendingHoldAmount, RefundsOf(p, Committed)')
    BY <1>2, PrimedSums DEF CommittedAmount, PaidAmount, Committed
  <1>6. ASSUME NEW p \in Payments, p # refund[r].payment
        PROVE  /\ RefundsOf(p, Committed)' = RefundsOf(p, Committed)
               /\ RefundsOf(p, {"successful"})' = RefundsOf(p, {"successful"})
    BY <1>1, <1>6 DEF RefundsOf
  <1>7. ASSUME NEW p \in Payments, p = refund[r].payment
        PROVE  /\ r \in RefundsOf(p, Committed) /\ r \notin RefundsOf(p, {"successful"})
               /\ RefundsOf(p, {"successful"}) \cup {r} \in SUBSET RefundsOf(p, Committed)
               /\ IsFiniteSet(RefundsOf(p, Committed))
               /\ IsFiniteSet(RefundsOf(p, {"successful"}))
               /\ \A x \in RefundsOf(p, Committed) :
                    Amount[x] \in Nat /\ PendingHoldAmount[x] \in Nat
    BY <1>7, Columns DEF RefundsOf, Committed
  <1>8. ASSUME NEW p \in Payments, p = refund[r].payment, s = "successful"
        PROVE  /\ RefundsOf(p, Committed)' = RefundsOf(p, Committed)
               /\ PaidAmount(p)' = PaidAmount(p) + refund[r].amount
               /\ PaidAmount(p) + refund[r].amount <= CommittedAmount(p)
    <2>1. RefundsOf(p, Committed)' = RefundsOf(p, Committed)
      BY <1>1, <1>8 DEF RefundsOf, Committed
    <2>2. RefundsOf(p, {"successful"})' = RefundsOf(p, {"successful"}) \cup {r}
      BY <1>1, <1>8 DEF RefundsOf
    <2>3. \A x \in RefundsOf(p, {"successful"}) \cup {r} : Amount[x] \in Nat
      BY <1>7, <1>8
    <2>4. SumOver(Amount, RefundsOf(p, {"successful"}) \cup {r})
            = SumOver(Amount, RefundsOf(p, {"successful"})) + Amount[r]
      BY <1>7, <1>8, <2>3, SumAdd
    <2>5. SumOver(Amount, RefundsOf(p, {"successful"}) \cup {r})
            <= SumOver(Amount, RefundsOf(p, Committed))
      BY <1>7, <1>8, SumSubset
    <2>6. QED
      BY <1>3, <1>5, <2>1, <2>2, <2>4, <2>5
  <1>9. ASSUME NEW p \in Payments, p = refund[r].payment, s = "failed"
        PROVE  /\ CommittedAmount(p)' = CommittedAmount(p) - refund[r].amount
               /\ RefundsOf(p, {"successful"})' = RefundsOf(p, {"successful"})
               /\ SumOver(PendingHoldAmount, RefundsOf(p, Committed))'
                   = SumOver(PendingHoldAmount, RefundsOf(p, Committed)) - refund[r].fromPending
    <2>1. RefundsOf(p, Committed)' = RefundsOf(p, Committed) \ {r}
      BY <1>1, <1>9 DEF RefundsOf, Committed
    <2>2. RefundsOf(p, {"successful"})' = RefundsOf(p, {"successful"})
      BY <1>1, <1>9 DEF RefundsOf
    <2>3. SumOver(Amount, RefundsOf(p, Committed) \ {r})
            = SumOver(Amount, RefundsOf(p, Committed)) - Amount[r]
      BY <1>7, <1>9, SumRemove
    <2>4. SumOver(PendingHoldAmount, RefundsOf(p, Committed) \ {r})
            = SumOver(PendingHoldAmount, RefundsOf(p, Committed)) - PendingHoldAmount[r]
      BY <1>7, <1>9, SumRemove
    <2>5. QED
      BY <1>3, <1>5, <2>1, <2>2, <2>3, <2>4
  <1>10. QED
    BY <1>4, <1>5, <1>6, <1>8, <1>9

\* One payment's hold changes: so does their sum.
LEMMA PendingSum ==
  ASSUME TypeOK, NEW p \in Payments, NEW v \in Nat,
         pendingAmount' = [pendingAmount EXCEPT ![p] = v]
  PROVE  SumOver(pendingAmount, Payments)'
           = SumOver(pendingAmount, Payments) - pendingAmount[p] + v
  <1>1. /\ \A x \in Payments : pendingAmount[x] \in Nat /\ pendingAmount'[x] \in Nat
        /\ \A x \in Payments \ {p} : pendingAmount'[x] = pendingAmount[x]
        /\ pendingAmount'[p] = v
    BY DEF TypeOK
  <1>2. SumOver(pendingAmount', Payments)
          = SumOver(pendingAmount, Payments) - pendingAmount[p] + pendingAmount'[p]
    <2>1. ASSUME NEW f \in [Payments -> Nat], NEW g \in [Payments -> Nat],
                 \A x \in Payments \ {p} : g[x] = f[x]
          PROVE  SumOver(g, Payments) = SumOver(f, Payments) - f[p] + g[p]
      <3>1. IsFiniteSet(Payments)
        BY PaymentsAssumption
      <3>2. QED
        BY <2>1, <3>1, SumUpdate
    <2>2. pendingAmount \in [Payments -> Nat] /\ pendingAmount' \in [Payments -> Nat]
      BY DEF TypeOK
    <2>3. QED
      BY <1>1, <2>1, <2>2
  <1>3. SumOver(pendingAmount, Payments)' = SumOver(pendingAmount', Payments)
    BY DEF SumOver, Units
  <1>4. QED
    BY <1>1, <1>2, <1>3

\* No hold, no sum of holds.
LEMMA NoHolds ==
  ASSUME NEW S, IsFiniteSet(S), NEW f, \A x \in S : f[x] = 0
  PROVE  SumOver(f, S) = 0
  <1>1. Units(f, S) = {}
    BY DEF Units
  <1>2. QED
    BY <1>1, FS_EmptySet DEF SumOver

-----------------------------------------------------------------------------
(* The invariant. *)

LEMMA InitInv ==
  ASSUME Init
  PROVE  IInv
  <1>1. TypeOK
    BY DEF Init, TypeOK
  <1>2. PaymentInv /\ RowsInv
    BY DEF Init, PaymentInv, RowsInv, NoRefund
  <1>3. RequestInv
    BY DEF Init, RequestInv, NoRequest
  <1>4. CompletionInv
    BY DEF Init, CompletionInv
  <1>5. PendingIsHeld
    <2>1. \A x \in Payments : pendingAmount[x] = 0
      BY DEF Init
    <2>2. SumOver(pendingAmount, Payments) = 0
      BY <2>1, NoHolds, PaymentsAssumption
    <2>3. QED
      BY <2>2 DEF Init, PendingIsHeld
  <1>6. \A r \in Refunds : refund[r].status = "none"
    BY DEF Init, NoRefund
  <1>7. ReservedIsOwed
    <2>1. {r \in Refunds : refund[r].status = "processing"} = {}
      BY <1>6
    <2>2. QED
      BY <2>1, SumEmpty DEF Init, ReservedIsOwed
  <1>8. ASSUME NEW p \in Payments, NEW states, "none" \notin states, NEW f
        PROVE  SumOver(f, RefundsOf(p, states)) = 0
    <2>1. RefundsOf(p, states) = {}
      BY <1>6, <1>8 DEF RefundsOf
    <2>2. QED
      BY <2>1, SumEmpty
  <1>9. NeverOverRefunded
    <2>1. \A p \in Payments : CommittedAmount(p) = 0
      BY <1>8 DEF CommittedAmount
    <2>2. QED
      BY <2>1, PaymentsAssumption DEF NeverOverRefunded
  <1>10. FullyRefundedIsReversed
    <2>1. \A p \in Payments : SumOver(Amount, RefundsOf(p, {"successful"})) = 0
      BY <1>8
    <2>2. QED
      BY <2>1, PaymentsAssumption DEF FullyRefundedIsReversed, Init
  <1>11. HoldIsKept
    BY PaymentsAssumption DEF Init, HoldIsKept
  <1>12. QED
    BY <1>1, <1>2, <1>3, <1>4, <1>5, <1>7, <1>9, <1>10, <1>11 DEF IInv

\* A payment that is still pending has no refunds.
LEMMA NoRefundsYet ==
  ASSUME TypeOK, RowsInv, NEW p \in Payments, status[p] = "pending"
  PROVE  /\ \A r \in Refunds : refund[r].status # "none" => refund[r].payment # p
         /\ SumOver(PendingHoldAmount, RefundsOf(p, Committed)) = 0
         /\ PaidAmount(p) = 0
  <1>1. \A r \in Refunds : refund[r].status # "none" => refund[r].payment # p
    BY DEF RowsInv
  <1>2. RefundsOf(p, Committed) = {} /\ RefundsOf(p, {"successful"}) = {}
    BY <1>1 DEF RefundsOf, Committed
  <1>3. QED
    BY <1>1, <1>2, SumEmpty DEF PaidAmount

LEMMA CreditInv ==
  ASSUME IInv, NEW p \in Payments, Credit(p)
  PROVE  IInv'
  <1>0. PICK c \in Credits[p] :
          LET net == c - Smaller(Fee[p], c) IN
          /\ credited' = [credited EXCEPT ![p] = c]
          /\ IF p \in Held
             THEN /\ pending' = pending + net
                  /\ available' = available
                  /\ pendingAmount' = [pendingAmount EXCEPT ![p] = net]
             ELSE /\ available' = available + net
                  /\ UNCHANGED <<pending, pendingAmount>>
    BY DEF Credit
  <1> DEFINE net == c - Smaller(Fee[p], c)
  <1>1. c \in Nat /\ net \in Nat
    BY PaymentsAssumption DEF Smaller
  <1>2. /\ status[p] = "pending"
        /\ status' = [status EXCEPT ![p] = "successful"]
        /\ availableAt' = [availableAt EXCEPT ![p] = IF p \in Held THEN "future" ELSE "past"]
        /\ UNCHANGED <<settled, reserved, active, refund, request, completion>>
    BY DEF Credit
  <1>3. TypeOK /\ PaymentInv /\ RowsInv /\ RequestInv /\ CompletionInv
        /\ PendingIsHeld /\ ReservedIsOwed /\ NeverOverRefunded
        /\ FullyRefundedIsReversed /\ HoldIsKept
    BY DEF IInv
  <1>4. TypeOK'
    <2>1. available' \in Nat /\ pending' \in Int /\ pendingAmount' \in [Payments -> Nat]
      BY <1>0, <1>1, <1>3 DEF TypeOK
    <2>2. QED
      BY <1>0, <1>1, <1>2, <1>3, <2>1 DEF TypeOK
  <1>5. PaymentInv'
    BY <1>0, <1>1, <1>2, <1>3 DEF PaymentInv, TypeOK
  <1>6. RowsInv' /\ \A r \in Refunds : refund[r].status # "none" => refund[r].payment # p
    BY <1>2, <1>3, NoRefundsYet DEF RowsInv, TypeOK
  <1>7. RequestInv'
    BY <1>2, <1>3, SumsFrame DEF RequestInv, TypeOK
  <1>8. CompletionInv'
    BY <1>2, <1>3, SumsFrame DEF CompletionInv
  <1>9. PendingIsHeld'
    <2>1. CASE p \in Held
      <3>1. SumOver(pendingAmount, Payments)' = SumOver(pendingAmount, Payments) - pendingAmount[p] + net
        BY <1>0, <1>1, <1>3, <2>1, PendingSum
      <3>2. QED
        BY <1>0, <1>1, <1>2, <1>3, <2>1, <3>1 DEF PendingIsHeld, PaymentInv, TypeOK
    <2>2. CASE p \notin Held
      BY <1>0, <1>3, <2>2 DEF PendingIsHeld
    <2>3. QED
      BY <2>1, <2>2
  <1>10. ReservedIsOwed'
    BY <1>2, <1>3, SumsFrame DEF ReservedIsOwed, ProcessingRefunds
  <1>11. NeverOverRefunded'
    BY <1>2, <1>3, SumsFrame DEF NeverOverRefunded
  <1>12. FullyRefundedIsReversed'
    BY <1>2, <1>3, SumsFrame, NoRefundsYet, PaymentsAssumption
       DEF FullyRefundedIsReversed, TypeOK, PaidAmount
  <1>13. HoldIsKept'
    BY <1>0, <1>1, <1>2, <1>3, SumsFrame, NoRefundsYet, PaymentsAssumption
       DEF HoldIsKept, TypeOK, Committed
  <1>14. QED
    BY <1>4, <1>5, <1>6, <1>7, <1>8, <1>9, <1>10, <1>11, <1>12, <1>13 DEF IInv

\* A step that leaves the refunds, their requests and completions, and the
\* payments' states alone keeps what is said about those.
LEMMA RefundsFrame ==
  ASSUME IInv, UNCHANGED <<status, reserved, refund, request, completion>>
  PROVE  /\ RowsInv' /\ RequestInv' /\ CompletionInv'
         /\ ReservedIsOwed' /\ NeverOverRefunded' /\ FullyRefundedIsReversed'
  <1>1. RowsInv'
    BY DEF IInv, RowsInv
  <1>2. RequestInv'
    BY SumsFrame DEF IInv, RequestInv
  <1>3. CompletionInv'
    BY SumsFrame DEF IInv, CompletionInv
  <1>4. ReservedIsOwed'
    BY SumsFrame DEF IInv, ReservedIsOwed, ProcessingRefunds
  <1>5. NeverOverRefunded'
    BY SumsFrame DEF IInv, NeverOverRefunded
  <1>6. FullyRefundedIsReversed'
    BY SumsFrame DEF IInv, FullyRefundedIsReversed, PaidAmount
  <1>7. QED
    BY <1>1, <1>2, <1>3, <1>4, <1>5, <1>6

LEMMA FailPaymentInv ==
  ASSUME IInv, NEW p \in Payments, FailPayment(p)
  PROVE  IInv'
  <1>1. /\ status[p] = "pending"
        /\ status' = [status EXCEPT ![p] = "failed"]
        /\ UNCHANGED <<credited, pendingAmount, availableAt, settled, available, pending,
                       reserved, active, refund, request, completion>>
    BY DEF FailPayment, wallet
  <1>2. TypeOK /\ PaymentInv /\ RowsInv /\ RequestInv /\ CompletionInv
        /\ PendingIsHeld /\ ReservedIsOwed /\ NeverOverRefunded
        /\ FullyRefundedIsReversed /\ HoldIsKept
    BY DEF IInv
  <1>3. TypeOK'
    BY <1>1, <1>2 DEF TypeOK
  <1>4. PaymentInv'
    BY <1>1, <1>2 DEF PaymentInv, TypeOK
  <1>5. RowsInv'
    BY <1>1, <1>2, NoRefundsYet DEF RowsInv, TypeOK
  <1>6. RequestInv'
    BY <1>1, <1>2, SumsFrame DEF RequestInv, TypeOK
  <1>7. CompletionInv' /\ NeverOverRefunded'
    BY <1>1, <1>2, SumsFrame DEF CompletionInv, NeverOverRefunded
  <1>8. ReservedIsOwed'
    BY <1>1, <1>2, SumsFrame DEF ReservedIsOwed, ProcessingRefunds
  <1>9. PendingIsHeld'
    BY <1>1, <1>2 DEF PendingIsHeld
  <1>10. FullyRefundedIsReversed'
    BY <1>1, <1>2, SumsFrame, NoRefundsYet, PaymentsAssumption
       DEF FullyRefundedIsReversed, TypeOK, PaidAmount
  <1>11. HoldIsKept'
    BY <1>1, <1>2, SumsFrame, PaymentsAssumption DEF HoldIsKept, Committed
  <1>12. QED
    BY <1>3, <1>4, <1>5, <1>6, <1>7, <1>8, <1>9, <1>10, <1>11 DEF IInv

LEMMA HoldEndsInv ==
  ASSUME IInv, NEW p \in Payments, HoldEnds(p)
  PROVE  IInv'
  <1>1. /\ availableAt' = [availableAt EXCEPT ![p] = "past"]
        /\ UNCHANGED <<status, credited, pendingAmount, settled, available, pending,
                       reserved, active, refund, request, completion>>
    BY DEF HoldEnds, wallet
  <1>2. TypeOK /\ PaymentInv /\ RowsInv /\ RequestInv /\ CompletionInv
        /\ PendingIsHeld /\ ReservedIsOwed /\ NeverOverRefunded
        /\ FullyRefundedIsReversed /\ HoldIsKept
    BY DEF IInv
  <1>3. TypeOK' /\ PaymentInv'
    BY <1>1, <1>2 DEF TypeOK, PaymentInv
  <1>4. PendingIsHeld'
    BY <1>1, <1>2 DEF PendingIsHeld
  <1>5. HoldIsKept'
    BY <1>1, <1>2, SumsFrame, PaymentsAssumption DEF HoldIsKept, TypeOK, Committed
  <1>6. QED
    BY <1>1, <1>3, <1>4, <1>5, RefundsFrame DEF IInv

\* release() finds its reference unused: a payment that was released has
\* nothing left to release.
LEMMA ReleaseInv ==
  ASSUME IInv, NEW p \in Payments, Release(p)
  PROVE  IInv'
  <1>2. TypeOK /\ PaymentInv /\ RowsInv /\ RequestInv /\ CompletionInv
        /\ PendingIsHeld /\ ReservedIsOwed /\ NeverOverRefunded
        /\ FullyRefundedIsReversed /\ HoldIsKept
    BY DEF IInv
  <1>1. /\ pendingAmount[p] \in Nat \ {0} /\ settled[p] = 0
        /\ pending' = pending - pendingAmount[p]
        /\ available' = available + pendingAmount[p]
        /\ settled' = [settled EXCEPT ![p] = pendingAmount[p]]
        /\ pendingAmount' = [pendingAmount EXCEPT ![p] = 0]
        /\ availableAt' = [availableAt EXCEPT ![p] = "past"]
        /\ UNCHANGED <<status, credited, reserved, active, refund, request, completion>>
    BY <1>2 DEF Release, PaymentInv, TypeOK
  <1>3. TypeOK'
    BY <1>1, <1>2 DEF TypeOK
  <1>4. PaymentInv'
    BY <1>1, <1>2 DEF PaymentInv, TypeOK
  <1>5. PendingIsHeld'
    <2>1. SumOver(pendingAmount, Payments)' = SumOver(pendingAmount, Payments) - pendingAmount[p]
      <3>1. PICK v \in Nat : v = 0
        OBVIOUS
      <3>2. pendingAmount' = [pendingAmount EXCEPT ![p] = v]
        BY <1>1, <3>1
      <3>3. SumOver(pendingAmount, Payments)' = SumOver(pendingAmount, Payments) - pendingAmount[p] + v
        BY <1>2, <3>2, PendingSum
      <3>4. pending = SumOver(pendingAmount, Payments) /\ pending \in Int
        BY <1>2 DEF PendingIsHeld, TypeOK
      <3>5. QED
        BY <1>1, <3>1, <3>3, <3>4
    <2>2. QED
      BY <1>1, <1>2, <2>1 DEF PendingIsHeld, TypeOK
  <1>6. HoldIsKept'
    BY <1>1, <1>2, SumsFrame, PaymentsAssumption DEF HoldIsKept, TypeOK, Committed
  <1>7. QED
    BY <1>1, <1>3, <1>4, <1>5, <1>6, RefundsFrame DEF IInv

\* The payment's row is locked from here on, so there is no other request.
LEMMA RequestStepInv ==
  ASSUME IInv, NEW r \in Refunds, NEW p \in Payments, NEW amount \in 1..Charged[p],
         Request(r, p, amount)
  PROVE  IInv'
  <1>2. TypeOK /\ PaymentInv /\ RowsInv /\ RequestInv /\ CompletionInv
        /\ PendingIsHeld /\ ReservedIsOwed /\ NeverOverRefunded
        /\ FullyRefundedIsReversed /\ HoldIsKept
    BY DEF IInv
  <1> DEFINE row == [status |-> "open", payment |-> p, amount |-> amount, before |-> CommittedAmount(p)]
  <1>1. /\ refund[r].status = "none" /\ status[p] = "successful"
        /\ amount \in 1..(Charged[p] - CommittedAmount(p))
        /\ request' = [request EXCEPT ![r] = row]
        /\ UNCHANGED <<status, credited, pendingAmount, availableAt, settled, available,
                       pending, reserved, active, refund, completion>>
    BY DEF Request, payments, wallet
  <1>3. CommittedAmount(p) \in Nat /\ Charged[p] \in Nat
    BY <1>2, SumsAreNat, PaymentsAssumption
  <1>4. row \in RequestRow
    BY <1>1, <1>3 DEF RequestRow
  <1>5. TypeOK'
    BY <1>1, <1>2, <1>4 DEF TypeOK
  <1>6. RequestInv'
    <2>1. refund[r] = NoRefund
      BY <1>1, <1>2 DEF TypeOK, RefundRow
    <2>2. CommittedAmount(p) + amount <= Charged[p]
      BY <1>1, <1>3
    <2>3. \A q \in Payments : CommittedAmount(q)' = CommittedAmount(q)
      BY <1>1, SumsFrame
    <2>4. request'[r] = row /\ \A x \in Refunds \ {r} : request'[x] = request[x]
      BY <1>1, <1>2 DEF TypeOK
    <2>5. \A x \in Refunds : ~(request[x].status = "open" /\ request[x].payment = p)
      BY DEF Request, PaymentLocked
    <2>6. ASSUME NEW x \in Refunds, NEW q \in Payments,
                 request'[x].status = "open", request'[x].payment = q
          PROVE  /\ refund'[x] = NoRefund
                 /\ status'[q] \in {"successful", "reversed"}
                 /\ CommittedAmount(q) <= request'[x].before
                 /\ request'[x].before + request'[x].amount <= Charged[q]
      <3>1. CASE x = r
        BY <1>1, <1>3, <2>1, <2>2, <2>4, <2>6, <3>1
      <3>2. CASE x # r
        BY <1>1, <1>2, <2>4, <2>6, <3>2 DEF RequestInv
      <3>3. QED
        BY <3>1, <3>2
    <2>7. ASSUME NEW x \in Refunds, NEW y \in Refunds,
                 request'[x].status = "open", request'[y].status = "open",
                 request'[x].payment = request'[y].payment
          PROVE  x = y
      BY <1>2, <2>4, <2>5, <2>7 DEF RequestInv
    <2>8. QED
      BY <2>3, <2>6, <2>7 DEF RequestInv
  <1>7. PaymentInv' /\ RowsInv'
    BY <1>1, <1>2 DEF PaymentInv, RowsInv
  <1>8. CompletionInv' /\ NeverOverRefunded'
    BY <1>1, <1>2, SumsFrame DEF CompletionInv, NeverOverRefunded
  <1>9. PendingIsHeld' 
    BY <1>1, <1>2 DEF PendingIsHeld
  <1>10. ReservedIsOwed'
    BY <1>1, <1>2, SumsFrame DEF ReservedIsOwed, ProcessingRefunds
  <1>11. FullyRefundedIsReversed'
    BY <1>1, <1>2, SumsFrame DEF FullyRefundedIsReversed, PaidAmount
  <1>12. HoldIsKept'
    BY <1>1, <1>2, SumsFrame, PaymentsAssumption DEF HoldIsKept, Committed
  <1>13. QED
    BY <1>5, <1>6, <1>7, <1>8, <1>9, <1>10, <1>11, <1>12 DEF IInv

\* What the wallet pays for a refund is an integer.
LEMMA ReversalType ==
  ASSUME TypeOK, NEW p \in Payments, NEW before \in Nat, NEW amount \in Nat
  PROVE  Reversal(p, before, amount) \in Int
  <1>1. Charged[p] \in Nat \ {0} /\ credited[p] \in Nat
    BY PaymentsAssumption DEF TypeOK
  <1>2. ASSUME NEW a \in Nat, NEW b \in Nat \ {0}
        PROVE  CeilDiv(a, b) \in Int
    BY DEF CeilDiv
  <1>3. ASSUME NEW n \in Nat \ {0}, NEW c \in Nat, NEW x \in Nat
        PROVE  DebitUpTo(n, c, x) \in Int
    <2>1. c * x \in Nat
      OBVIOUS
    <2>2. QED
      BY <1>2, <2>1 DEF DebitUpTo
  <1>4. WalletDebit(Charged[p], credited[p], before, amount) \in Int
    BY <1>1, <1>3 DEF WalletDebit
  <1>5. QED
    BY <1>4 DEF Reversal

\* The hold takes its money from the two balances it says, and counts against
\* the payment only what was left when the payment's row was locked.
LEMMA HoldInv ==
  ASSUME IInv, NEW r \in Refunds, Hold(r)
  PROVE  IInv'
  <1>2. TypeOK /\ PaymentInv /\ RowsInv /\ RequestInv /\ CompletionInv
        /\ PendingIsHeld /\ ReservedIsOwed /\ NeverOverRefunded
        /\ FullyRefundedIsReversed /\ HoldIsKept
    BY DEF IInv
  <1> DEFINE p == request[r].payment
             debit == Reversal(p, request[r].before, request[r].amount)
             part == Smaller(pendingAmount[p], debit)
             row == [status |-> "processing", payment |-> p, amount |-> request[r].amount,
                     walletDebit |-> debit, fromPending |-> part]
  <1>1. /\ request[r].status = "open" /\ debit > 0 /\ debit - part <= available
        /\ pending' = pending - part
        /\ available' = available - (debit - part)
        /\ reserved' = reserved + debit
        /\ pendingAmount' = [pendingAmount EXCEPT ![p] = pendingAmount[p] - part]
        /\ refund' = [refund EXCEPT ![r] = row]
        /\ request' = [request EXCEPT ![r] = NoRequest]
        /\ \A x \in Refunds : completion[x] = "none"
        /\ UNCHANGED <<status, credited, availableAt, settled, active, completion>>
    BY DEF Hold, Covered, ReservedLocked
  <1>3. /\ request[r] \in RequestRow /\ p \in Payments
        /\ request[r].amount \in Nat \ {0} /\ request[r].before \in Nat
    BY <1>1, <1>2 DEF TypeOK, NoRequest, RequestRow
  <1>4. /\ refund[r] = NoRefund /\ status[p] \in {"successful", "reversed"}
        /\ CommittedAmount(p) <= request[r].before
        /\ request[r].before + request[r].amount <= Charged[p]
        /\ \A x \in Refunds \ {r} : ~(request[x].status = "open" /\ request[x].payment = p)
    BY <1>1, <1>2, <1>3 DEF RequestInv
  <1>5. debit \in Int
    BY <1>2, <1>3, ReversalType
  <1>6. debit \in Nat \ {0} /\ part \in Nat /\ part <= debit /\ part <= pendingAmount[p]
        /\ pendingAmount[p] \in Nat
    BY <1>1, <1>2, <1>3, <1>5 DEF Smaller, TypeOK
  <1>7. row \in RefundRow
    BY <1>3, <1>6 DEF RefundRow
  <1> HIDE DEF debit, part
  <1>8. TypeOK'
    BY <1>1, <1>2, <1>3, <1>6, <1>7 DEF TypeOK
  <1>9. /\ SumOver(WalletDebitAmount, ProcessingRefunds)'
             = SumOver(WalletDebitAmount, ProcessingRefunds) + debit
        /\ \A q \in Payments :
              /\ PaidAmount(q)' = PaidAmount(q)
              /\ q = p =>
                   /\ CommittedAmount(q)' = CommittedAmount(q) + request[r].amount
                   /\ SumOver(PendingHoldAmount, RefundsOf(q, Committed))'
                        = SumOver(PendingHoldAmount, RefundsOf(q, Committed)) + part
              /\ q # p =>
                   /\ CommittedAmount(q)' = CommittedAmount(q)
                   /\ SumOver(PendingHoldAmount, RefundsOf(q, Committed))'
                        = SumOver(PendingHoldAmount, RefundsOf(q, Committed))
    BY <1>1, <1>2, <1>4, <1>7, NewRefundSums
  <1>10. PaymentInv'
    BY <1>1, <1>2, <1>3, <1>4, <1>6 DEF PaymentInv, TypeOK
  <1>11. refund'[r] = row /\ \A x \in Refunds \ {r} : refund'[x] = refund[x]
    BY <1>1, <1>2 DEF TypeOK
  <1>12. RowsInv'
    BY <1>1, <1>2, <1>4, <1>6, <1>11 DEF RowsInv
  <1>13. RequestInv'
    <2>1. \A x \in Refunds : request'[x].status = "open" =>
             x # r /\ request'[x] = request[x] /\ request[x].payment # p
      BY <1>1, <1>2, <1>4 DEF TypeOK, NoRequest
    <2>2. QED
      BY <1>1, <1>2, <1>9, <1>11, <2>1 DEF RequestInv
  <1>14. CompletionInv'
    BY <1>1, <1>2 DEF CompletionInv
  <1>15. PendingIsHeld'
    <2>1. SumOver(pendingAmount, Payments)'
            = SumOver(pendingAmount, Payments) - pendingAmount[p] + (pendingAmount[p] - part)
      <3>1. pendingAmount[p] - part \in Nat
        BY <1>6
      <3>2. QED
        BY <1>1, <1>2, <1>3, <3>1, PendingSum
    <2>2. QED
      BY <1>1, <1>2, <1>6, <2>1 DEF PendingIsHeld, TypeOK
  <1>16. ReservedIsOwed'
    BY <1>1, <1>2, <1>9 DEF ReservedIsOwed, ProcessingRefunds
  <1>17. NeverOverRefunded'
    <2>1. CommittedAmount(p) \in Nat /\ Charged[p] \in Nat
      BY <1>2, <1>3, SumsAreNat, PaymentsAssumption
    <2>2. QED
      BY <1>2, <1>3, <1>4, <1>9, <2>1 DEF NeverOverRefunded
  <1>18. FullyRefundedIsReversed'
    BY <1>1, <1>2, <1>9 DEF FullyRefundedIsReversed, PaidAmount
  <1>19. HoldIsKept'
    <2>1. ASSUME NEW q \in Held, availableAt[q] = "future"
          PROVE  pendingAmount'[q] + SumOver(PendingHoldAmount, RefundsOf(q, Committed))' = Net(q)
      <3>1. /\ q \in Payments
            /\ pendingAmount[q] + SumOver(PendingHoldAmount, RefundsOf(q, Committed)) = Net(q)
            /\ SumOver(PendingHoldAmount, RefundsOf(q, Committed)) \in Nat
        BY <1>2, <2>1, SumsAreNat, PaymentsAssumption DEF HoldIsKept, Net, Committed
      <3>2. CASE q = p
        <4>1. pendingAmount'[q] = pendingAmount[q] - part
          BY <1>1, <1>2, <1>3, <3>2 DEF TypeOK
        <4>2. QED
          BY <1>6, <1>9, <3>1, <3>2, <4>1
      <3>3. CASE q # p
        BY <1>1, <1>2, <1>9, <3>1, <3>3 DEF TypeOK
      <3>4. QED
        BY <3>2, <3>3
    <2>2. QED
      BY <1>1, <2>1 DEF HoldIsKept, Net, Committed
  <1>20. QED
    BY <1>8, <1>10, <1>12, <1>13, <1>14, <1>15, <1>16, <1>17, <1>18, <1>19 DEF IInv

\* A step of which only an open request or completion takes notice keeps what
\* is said about payments, rows and balances.
LEMMA TableFrame ==
  ASSUME IInv, UNCHANGED <<status, credited, pendingAmount, availableAt, settled, pending, reserved, refund>>
  PROVE  /\ PaymentInv' /\ RowsInv' /\ PendingIsHeld' /\ ReservedIsOwed'
         /\ NeverOverRefunded' /\ FullyRefundedIsReversed' /\ HoldIsKept'
  <1>1. PaymentInv' /\ RowsInv'
    BY DEF IInv, PaymentInv, RowsInv
  <1>2. PendingIsHeld'
    BY DEF IInv, PendingIsHeld
  <1>3. ReservedIsOwed'
    BY SumsFrame DEF IInv, ReservedIsOwed, ProcessingRefunds
  <1>4. NeverOverRefunded'
    BY SumsFrame DEF IInv, NeverOverRefunded
  <1>5. FullyRefundedIsReversed'
    BY SumsFrame DEF IInv, FullyRefundedIsReversed, PaidAmount
  <1>6. HoldIsKept'
    BY SumsFrame, PaymentsAssumption DEF IInv, HoldIsKept, Committed
  <1>7. QED
    BY <1>1, <1>2, <1>3, <1>4, <1>5, <1>6

LEMMA RollbackRequestInv ==
  ASSUME IInv, NEW r \in Refunds, RollbackRequest(r)
  PROVE  IInv'
  <1>1. /\ request' = [request EXCEPT ![r] = NoRequest]
        /\ UNCHANGED <<status, credited, pendingAmount, availableAt, settled, available,
                       pending, reserved, active, refund, completion>>
    BY DEF RollbackRequest, payments, wallet
  <1>2. TypeOK'
    BY <1>1 DEF IInv, TypeOK
  <1>3. \A x \in Refunds : request'[x].status = "open" => request'[x] = request[x]
    BY <1>1 DEF IInv, TypeOK, NoRequest
  <1>4. RequestInv'
    BY <1>1, <1>3, SumsFrame DEF IInv, RequestInv
  <1>5. CompletionInv'
    BY <1>1, SumsFrame DEF IInv, CompletionInv
  <1>6. QED
    BY <1>1, <1>2, <1>4, <1>5, TableFrame DEF IInv

LEMMA PostRefundInv ==
  ASSUME IInv, NEW r \in Refunds, PostRefund(r)
  PROVE  IInv'
  <1>1. /\ refund[r].status = "processing"
        /\ \A x \in Refunds : completion[x] = "none"
        /\ completion' = [completion EXCEPT ![r] = "posted"]
        /\ UNCHANGED <<status, credited, pendingAmount, availableAt, settled, available,
                       pending, reserved, active, refund, request>>
    BY DEF PostRefund, ReservedLocked, payments, wallet
  <1>2. TypeOK'
    BY <1>1 DEF IInv, TypeOK
  <1>3. RequestInv'
    BY <1>1, SumsFrame DEF IInv, RequestInv
  <1>4. completion'[r] = "posted" /\ \A x \in Refunds : completion'[x] # "none" => x = r
    BY <1>1 DEF IInv, TypeOK
  <1>5. CompletionInv'
    BY <1>1, <1>4 DEF CompletionInv
  <1>6. QED
    BY <1>1, <1>2, <1>3, <1>5, TableFrame DEF IInv

\* The sum that complete() reads is that of the committed refunds and its own.
LEMMA CountRefundsInv ==
  ASSUME IInv, NEW r \in Refunds, CountRefunds(r)
  PROVE  IInv'
  <1> DEFINE p == refund[r].payment
             total == SumOver(Amount, RefundsOf(p, {"successful"}) \cup {r})
  <1>1. /\ completion[r] = "posted"
        /\ completion' = [completion EXCEPT ![r] = IF total = Charged[p] THEN "full" ELSE "partial"]
        /\ UNCHANGED <<status, credited, pendingAmount, availableAt, settled, available,
                       pending, reserved, active, refund, request>>
    BY DEF CountRefunds, payments, wallet
  <1>2. refund[r].status = "processing" /\ refund[r] \in RefundRow /\ p \in Payments
    BY <1>1 DEF IInv, CompletionInv, TypeOK, NoRefund, RefundRow
  <1>3. total = PaidAmount(p) + refund[r].amount
    <2>1. r \notin RefundsOf(p, {"successful"}) /\ Amount[r] = refund[r].amount
      BY <1>2 DEF RefundsOf, Amount
    <2>2. Amount \in [Refunds -> Nat] /\ IsFiniteSet(RefundsOf(p, {"successful"}))
      BY <1>2, Columns DEF IInv
    <2>3. \A x \in RefundsOf(p, {"successful"}) \cup {r} : Amount[x] \in Nat
      BY <2>2 DEF RefundsOf
    <2>4. QED
      BY <2>1, <2>2, <2>3, SumAdd DEF PaidAmount
  <1> HIDE DEF total
  <1>4. TypeOK'
    BY <1>1 DEF IInv, TypeOK
  <1>5. RequestInv'
    BY <1>1, SumsFrame DEF IInv, RequestInv
  <1>6. /\ completion'[r] = IF total = Charged[p] THEN "full" ELSE "partial"
        /\ \A x \in Refunds : completion'[x] # "none" => x = r
    BY <1>1 DEF IInv, TypeOK, CompletionInv
  <1>7. CompletionInv'
    BY <1>1, <1>2, <1>3, <1>6, SumsFrame DEF CompletionInv
  <1>8. QED
    BY <1>1, <1>4, <1>5, <1>7, TableFrame DEF IInv

LEMMA AbortCompletionInv ==
  ASSUME IInv, NEW r \in Refunds, AbortCompletion(r)
  PROVE  IInv'
  <1>1. /\ completion' = [completion EXCEPT ![r] = "none"]
        /\ UNCHANGED <<status, credited, pendingAmount, availableAt, settled, available,
                       pending, reserved, active, refund, request>>
    BY DEF AbortCompletion, payments, wallet
  <1>2. TypeOK'
    BY <1>1 DEF IInv, TypeOK
  <1>3. RequestInv'
    BY <1>1, SumsFrame DEF IInv, RequestInv
  <1>4. \A x \in Refunds : completion'[x] # "none" => completion'[x] = completion[x]
    BY <1>1 DEF IInv, TypeOK
  <1>5. CompletionInv'
    BY <1>1, <1>4, SumsFrame DEF IInv, CompletionInv
  <1>6. QED
    BY <1>1, <1>2, <1>3, <1>5, TableFrame DEF IInv

LEMMA SpendInv ==
  ASSUME IInv, Spend
  PROVE  IInv'
  <1>1. /\ available > 0 /\ available' = available - 1
        /\ UNCHANGED <<status, credited, pendingAmount, availableAt, settled,
                       pending, reserved, active, refund, request, completion>>
    BY DEF Spend, payments
  <1>2. TypeOK'
    BY <1>1 DEF IInv, TypeOK
  <1>3. QED
    BY <1>1, <1>2, TableFrame, RefundsFrame DEF IInv

LEMMA SetStatusInv ==
  ASSUME IInv, SetStatus
  PROVE  IInv'
  <1>1. /\ active' \in BOOLEAN
        /\ UNCHANGED <<status, credited, pendingAmount, availableAt, settled, available,
                       pending, reserved, refund, request, completion>>
    BY DEF SetStatus, payments, IInv, TypeOK
  <1>2. TypeOK'
    BY <1>1 DEF IInv, TypeOK
  <1>3. QED
    BY <1>1, <1>2, TableFrame, RefundsFrame DEF IInv

\* What the completion counted still holds when it commits, and a payment that
\* is reversed already leaves nothing for another refund.
LEMMA CompleteInv ==
  ASSUME IInv, NEW r \in Refunds, Complete(r)
  PROVE  IInv'
  <1>2. TypeOK /\ PaymentInv /\ RowsInv /\ RequestInv /\ CompletionInv
        /\ PendingIsHeld /\ ReservedIsOwed /\ NeverOverRefunded
        /\ FullyRefundedIsReversed /\ HoldIsKept
    BY DEF IInv
  <1> DEFINE p == refund[r].payment
  <1>1. /\ completion[r] \in {"full", "partial"}
        /\ reserved' = reserved - refund[r].walletDebit
        /\ refund' = [refund EXCEPT ![r].status = "successful"]
        /\ status' = [status EXCEPT ![p] = IF completion[r] = "full" THEN "reversed" ELSE @]
        /\ completion' = [completion EXCEPT ![r] = "none"]
        /\ UNCHANGED <<credited, pendingAmount, availableAt, settled, available, pending, active, request>>
    BY DEF Complete
  <1>3. /\ refund[r].status = "processing" /\ refund[r] \in RefundRow /\ p \in Payments
        /\ refund[r].amount \in Nat \ {0} /\ refund[r].walletDebit \in Nat
    BY <1>1, <1>2 DEF CompletionInv, TypeOK, NoRefund, RefundRow
  <1>4. /\ refund'[r] = [refund[r] EXCEPT !.status = "successful"]
        /\ refund'[r] \in RefundRow
        /\ \A x \in Refunds \ {r} : refund'[x] = refund[x]
    BY <1>1, <1>2, <1>3 DEF TypeOK, RefundRow
  <1>5. /\ SumOver(WalletDebitAmount, ProcessingRefunds)'
             = SumOver(WalletDebitAmount, ProcessingRefunds) - refund[r].walletDebit
        /\ \A q \in Payments :
             /\ CommittedAmount(q)' = CommittedAmount(q)
             /\ SumOver(PendingHoldAmount, RefundsOf(q, Committed))'
                  = SumOver(PendingHoldAmount, RefundsOf(q, Committed))
             /\ q # p => PaidAmount(q)' = PaidAmount(q)
             /\ q = p => /\ PaidAmount(q)' = PaidAmount(q) + refund[r].amount
                         /\ PaidAmount(q) + refund[r].amount <= CommittedAmount(q)
    BY <1>1, <1>2, <1>3, SettledRefundSums
  <1>6. TypeOK'
    <2>1. refund' \in [Refunds -> RefundRow \cup {NoRefund}]
      BY <1>1, <1>2, <1>4 DEF TypeOK
    <2>2. status' \in [Payments -> {"pending", "successful", "failed", "reversed"}]
      BY <1>1, <1>2 DEF TypeOK
    <2>3. QED
      BY <1>1, <1>2, <1>3, <2>1, <2>2 DEF TypeOK
  <1>7. status[p] \in {"successful", "reversed"}
    BY <1>2, <1>3 DEF RowsInv
  <1>8. \A q \in Payments : \/ status'[q] = status[q]
                            \/ q = p /\ status'[q] = "reversed"
    BY <1>1, <1>2 DEF TypeOK
  <1>9. PaymentInv'
    BY <1>1, <1>2, <1>8 DEF PaymentInv
  <1>10. RowsInv'
    <2>1. ASSUME NEW x \in Refunds, refund'[x].status # "none"
          PROVE  /\ refund'[x].fromPending <= refund'[x].walletDebit
                 /\ status'[refund'[x].payment] \in {"successful", "reversed"}
      <3>1. /\ refund[x].status # "none" /\ refund'[x].payment = refund[x].payment
            /\ refund'[x].fromPending = refund[x].fromPending
            /\ refund'[x].walletDebit = refund[x].walletDebit
        BY <1>3, <1>4, <2>1 DEF RefundRow
      <3>2. refund[x].payment \in Payments
        BY <1>2, <3>1 DEF TypeOK, RefundRow, NoRefund
      <3>3. QED
        BY <1>2, <1>8, <3>1, <3>2 DEF RowsInv
    <2>2. QED
      BY <2>1 DEF RowsInv
  <1>11. RequestInv'
    <2>1. \A x \in Refunds : request[x].status = "open" => x # r
      BY <1>2, <1>3 DEF RequestInv, TypeOK, RequestRow, NoRequest, NoRefund
    <2>2. QED
      BY <1>1, <1>2, <1>4, <1>5, <1>8, <2>1 DEF RequestInv
  <1>12. CompletionInv'
    <2>1. \A x \in Refunds : completion'[x] = "none"
      BY <1>1, <1>2 DEF CompletionInv, TypeOK
    <2>2. QED
      BY <2>1 DEF CompletionInv
  <1>13. PendingIsHeld'
    BY <1>1, <1>2 DEF PendingIsHeld
  <1>14. ReservedIsOwed'
    BY <1>1, <1>2, <1>5 DEF ReservedIsOwed, ProcessingRefunds
  <1>15. NeverOverRefunded'
    BY <1>2, <1>5 DEF NeverOverRefunded
  <1>16. FullyRefundedIsReversed'
    <2>1. /\ completion[r] = "full" => PaidAmount(p) + refund[r].amount = Charged[p]
          /\ completion[r] = "partial" => PaidAmount(p) + refund[r].amount # Charged[p]
      BY <1>1, <1>2, <1>3 DEF CompletionInv
    <2>2. status[p] # "reversed"
      <3>1. PaidAmount(p) \in Nat /\ CommittedAmount(p) \in Nat /\ Charged[p] \in Nat
        BY <1>2, <1>3, SumsAreNat, PaymentsAssumption
      <3>2. CommittedAmount(p) <= Charged[p] /\ PaidAmount(p) + refund[r].amount <= CommittedAmount(p)
        BY <1>2, <1>3, <1>5 DEF NeverOverRefunded
      <3>3. status[p] = "reversed" <=> PaidAmount(p) = Charged[p]
        BY <1>2, <1>3 DEF FullyRefundedIsReversed, PaidAmount
      <3>4. QED
        BY <1>3, <3>1, <3>2, <3>3
    <2>3. ASSUME NEW q \in Payments
          PROVE  status'[q] = "reversed" <=> PaidAmount(q)' = Charged[q]
      <3>1. CASE q = p
        <4>1. status'[p] = IF completion[r] = "full" THEN "reversed" ELSE status[p]
          BY <1>1, <1>2, <1>3 DEF TypeOK
        <4>2. QED
          BY <1>1, <1>5, <2>1, <2>2, <3>1, <4>1
      <3>2. CASE q # p
        BY <1>2, <1>5, <1>8, <3>2 DEF FullyRefundedIsReversed, PaidAmount
      <3>3. QED
        BY <3>1, <3>2
    <2>4. QED
      BY <2>3 DEF FullyRefundedIsReversed, PaidAmount
  <1>17. HoldIsKept'
    BY <1>1, <1>2, <1>5, PaymentsAssumption DEF HoldIsKept, Committed
  <1>18. QED
    BY <1>6, <1>9, <1>10, <1>11, <1>12, <1>13, <1>14, <1>15, <1>16, <1>17 DEF IInv

\* A refund that fails while the hold goes on returns to it all that it took,
\* and one that fails later returns nothing to it.
LEMMA FailInv ==
  ASSUME IInv, NEW r \in Refunds, Fail(r)
  PROVE  IInv'
  <1>2. TypeOK /\ PaymentInv /\ RowsInv /\ RequestInv /\ CompletionInv
        /\ PendingIsHeld /\ ReservedIsOwed /\ NeverOverRefunded
        /\ FullyRefundedIsReversed /\ HoldIsKept
    BY DEF IInv
  <1> DEFINE p == refund[r].payment
             back == ReturnToPending(r)
  <1>1. /\ refund[r].status = "processing" /\ completion[r] = "none"
        /\ \A x \in Refunds : completion[x] = "none"
        /\ reserved' = reserved - refund[r].walletDebit
        /\ pending' = pending + back
        /\ available' = available + (refund[r].walletDebit - back)
        /\ pendingAmount' = [pendingAmount EXCEPT ![p] = pendingAmount[p] + back]
        /\ refund' = [refund EXCEPT ![r].status = "failed"]
        /\ UNCHANGED <<status, credited, availableAt, settled, active, request, completion>>
    BY DEF Fail, ReservedLocked
  <1>3. /\ refund[r] \in RefundRow /\ p \in Payments
        /\ refund[r].amount \in Nat \ {0} /\ refund[r].walletDebit \in Nat
        /\ refund[r].fromPending \in Nat
    BY <1>1, <1>2 DEF TypeOK, NoRefund, RefundRow
  <1>4. /\ back \in Nat /\ back <= refund[r].walletDebit
        /\ pendingAmount[p] \in Nat
        /\ availableAt[p] = "future" => back = refund[r].fromPending
        /\ settled[p] # 0 => back = 0
        /\ status[p] \in {"successful", "reversed"}
    BY <1>1, <1>2, <1>3 DEF ReturnToPending, PaymentInv, RowsInv, TypeOK
  <1> HIDE DEF back
  <1>5. /\ refund'[r] = [refund[r] EXCEPT !.status = "failed"]
        /\ refund'[r] \in RefundRow
        /\ \A x \in Refunds \ {r} : refund'[x] = refund[x]
    BY <1>1, <1>2, <1>3 DEF TypeOK, RefundRow
  <1>6. /\ SumOver(WalletDebitAmount, ProcessingRefunds)'
             = SumOver(WalletDebitAmount, ProcessingRefunds) - refund[r].walletDebit
        /\ \A q \in Payments :
             /\ PaidAmount(q)' = PaidAmount(q)
             /\ q # p =>
                  /\ CommittedAmount(q)' = CommittedAmount(q)
                  /\ SumOver(PendingHoldAmount, RefundsOf(q, Committed))'
                       = SumOver(PendingHoldAmount, RefundsOf(q, Committed))
             /\ q = p =>
                  /\ CommittedAmount(q)' = CommittedAmount(q) - refund[r].amount
                  /\ SumOver(PendingHoldAmount, RefundsOf(q, Committed))'
                       = SumOver(PendingHoldAmount, RefundsOf(q, Committed)) - refund[r].fromPending
    BY <1>1, <1>2, <1>3, SettledRefundSums
  <1>7. TypeOK'
    <2>1. refund' \in [Refunds -> RefundRow \cup {NoRefund}]
      BY <1>1, <1>2, <1>5 DEF TypeOK
    <2>2. pendingAmount' \in [Payments -> Nat] /\ available' \in Nat /\ pending' \in Int /\ reserved' \in Int
      BY <1>1, <1>2, <1>3, <1>4 DEF TypeOK
    <2>3. QED
      BY <1>1, <1>2, <2>1, <2>2 DEF TypeOK
  <1>8. PaymentInv'
    BY <1>1, <1>2, <1>3, <1>4 DEF PaymentInv, TypeOK
  <1>9. RowsInv'
    BY <1>1, <1>2, <1>3, <1>5 DEF RowsInv, RefundRow
  <1>10. ASSUME NEW q \in Payments
         PROVE  /\ CommittedAmount(q) \in Nat /\ CommittedAmount(q)' \in Int
                /\ CommittedAmount(q)' <= CommittedAmount(q)
    BY <1>2, <1>3, <1>6, SumsAreNat
  <1>11. RequestInv'
    <2>1. \A x \in Refunds : request[x].status = "open" => x # r
      BY <1>1, <1>2 DEF RequestInv, TypeOK, RequestRow, NoRequest, NoRefund
    <2>2. ASSUME NEW x \in Refunds, NEW q \in Payments,
                 request[x].status = "open", request[x].payment = q
          PROVE  /\ refund'[x] = NoRefund
                 /\ status[q] \in {"successful", "reversed"}
                 /\ CommittedAmount(q)' <= request[x].before
                 /\ request[x].before + request[x].amount <= Charged[q]
      <3>1. request[x].before \in Nat
        BY <1>2, <2>2 DEF TypeOK, RequestRow, NoRequest
      <3>2. /\ refund[x] = NoRefund /\ status[q] \in {"successful", "reversed"}
            /\ CommittedAmount(q) <= request[x].before
            /\ request[x].before + request[x].amount <= Charged[q]
        BY <1>2, <2>2 DEF RequestInv
      <3>3. QED
        BY <1>5, <1>10, <2>1, <2>2, <3>1, <3>2
    <2>3. QED
      BY <1>1, <1>2, <2>2 DEF RequestInv
  <1>12. CompletionInv'
    BY <1>1 DEF CompletionInv
  <1>13. PendingIsHeld'
    <2>1. pendingAmount[p] + back \in Nat
      BY <1>4
    <2>2. SumOver(pendingAmount, Payments)'
            = SumOver(pendingAmount, Payments) - pendingAmount[p] + (pendingAmount[p] + back)
      BY <1>1, <1>2, <1>3, <2>1, PendingSum
    <2>3. QED
      BY <1>1, <1>2, <1>4, <2>2 DEF PendingIsHeld, TypeOK
  <1>14. ReservedIsOwed'
    BY <1>1, <1>2, <1>6 DEF ReservedIsOwed, ProcessingRefunds
  <1>15. NeverOverRefunded'
    <2>1. \A q \in Payments : CommittedAmount(q) <= Charged[q] /\ Charged[q] \in Nat
      BY <1>2, PaymentsAssumption DEF NeverOverRefunded
    <2>2. QED
      BY <1>10, <2>1 DEF NeverOverRefunded
  <1>16. FullyRefundedIsReversed'
    BY <1>1, <1>2, <1>6 DEF FullyRefundedIsReversed, PaidAmount
  <1>17. HoldIsKept'
    <2>1. ASSUME NEW q \in Held, availableAt[q] = "future"
          PROVE  pendingAmount'[q] + SumOver(PendingHoldAmount, RefundsOf(q, Committed))' = Net(q)
      <3>1. /\ q \in Payments
            /\ pendingAmount[q] + SumOver(PendingHoldAmount, RefundsOf(q, Committed)) = Net(q)
            /\ SumOver(PendingHoldAmount, RefundsOf(q, Committed)) \in Nat
        BY <1>2, <2>1, SumsAreNat, PaymentsAssumption DEF HoldIsKept, Net, Committed
      <3>2. CASE q = p
        <4>1. pendingAmount'[q] = pendingAmount[q] + refund[r].fromPending
          BY <1>1, <1>2, <1>3, <1>4, <2>1, <3>2 DEF TypeOK
        <4>2. QED
          BY <1>3, <1>4, <1>6, <3>1, <3>2, <4>1
      <3>3. CASE q # p
        BY <1>1, <1>2, <1>6, <3>1, <3>3 DEF TypeOK
      <3>4. QED
        BY <3>2, <3>3
    <2>2. QED
      BY <1>1, <2>1 DEF HoldIsKept, Net, Committed
  <1>18. QED
    BY <1>7, <1>8, <1>9, <1>11, <1>12, <1>13, <1>14, <1>15, <1>16, <1>17 DEF IInv

-----------------------------------------------------------------------------
(* The theorems. *)

\* The invariant holds however credits, releases, refunds, failures and freezes
\* of the wallet interleave.
THEOREM PaymentHoldsInvariant == Spec => []IInv
  <1>1. IInv /\ [Next]_vars => IInv'
    <2> SUFFICES ASSUME IInv, [Next]_vars PROVE IInv'
      OBVIOUS
    <2>1. ASSUME NEW p \in Payments,
                 Credit(p) \/ FailPayment(p) \/ HoldEnds(p) \/ ReleaseDue(p) \/ ReleaseEarly(p)
          PROVE  IInv'
      BY <2>1, CreditInv, FailPaymentInv, HoldEndsInv, ReleaseInv DEF ReleaseDue, ReleaseEarly
    <2>2. ASSUME NEW r \in Refunds, NEW p \in Payments, NEW amount \in 1..Charged[p],
                 Request(r, p, amount)
          PROVE  IInv'
      BY <2>2, RequestStepInv
    <2>3. ASSUME NEW r \in Refunds,
                 \/ Hold(r) \/ RollbackRequest(r)
                 \/ PostRefund(r) \/ CountRefunds(r) \/ Complete(r) \/ AbortCompletion(r)
                 \/ Fail(r)
          PROVE  IInv'
      BY <2>3, HoldInv, RollbackRequestInv, PostRefundInv, CountRefundsInv, CompleteInv,
         AbortCompletionInv, FailInv
    <2>4. ASSUME Spend \/ SetStatus PROVE IInv'
      BY <2>4, SpendInv, SetStatusInv
    <2>5. ASSUME UNCHANGED vars PROVE IInv'
      <3>1. UNCHANGED <<status, credited, pendingAmount, availableAt, settled, available,
                        pending, reserved, active, refund, request, completion>>
        BY <2>5 DEF vars, payments, wallet
      <3>2. TypeOK'
        BY <3>1 DEF IInv, TypeOK
      <3>3. QED
        BY <3>1, <3>2, TableFrame, RefundsFrame DEF IInv
    <2>6. QED
      BY <2>1, <2>2, <2>3, <2>4, <2>5 DEF Next
  <1>2. QED
    BY InitInv, <1>1, PTL DEF Spec

\* Every reachable state has its types; the available balance never goes below
\* zero, whatever a refund takes from it.
THEOREM PaymentHoldsTypeCorrect == Spec => []TypeOK
  BY PaymentHoldsInvariant, PTL DEF IInv

\* The two sums the ledger and the tables must agree on: what the wallet's
\* pending account holds and what its reserved account owes.
THEOREM HoldsAreBacked == Spec => []HoldsAreExplained
  <1>1. IInv => HoldsAreExplained
    BY DEF IInv, HoldsAreExplained
  <1>2. QED
    BY PaymentHoldsInvariant, <1>1, PTL

\* Concurrent refunds of one payment never add up to more than it.
THEOREM RefundsStayWithinPayment == Spec => []NeverOverRefunded
  BY PaymentHoldsInvariant, PTL DEF IInv

\* complete() marks a payment reversed exactly when it is fully refunded.
THEOREM ReversedIffFullyRefunded == Spec => []FullyRefundedIsReversed
  BY PaymentHoldsInvariant, PTL DEF IInv

\* No money leaves a settlement hold early, through a failed refund either.
THEOREM HoldKept == Spec => []HoldIsKept
  BY PaymentHoldsInvariant, PTL DEF IInv

\* A settlement hold is released once: after that it never grows back.
THEOREM HoldSettledOnce == Spec => []SettledOnce
  <1>1. IInv => SettledOnce
    BY DEF IInv, PaymentInv, SettledOnce
  <1>2. QED
    BY PaymentHoldsInvariant, <1>1, PTL
=================================================================================
