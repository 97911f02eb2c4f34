--------------------------- MODULE ConversionReversal ---------------------------
(***************************************************************************)
(* src/src/refunds/refund-math.ts: how a refund of a converted payment     *)
(* unwinds the conversion.  The customer was charged `charged`, the wallet *)
(* was credited `credited` out of `gross`, and the platform kept           *)
(* gross - credited.  Amounts are bigints, so nothing overflows.           *)
(***************************************************************************)
EXTENDS Integers

\* BigInt division truncates; it equals \div on the non-negative numbers here.
CeilDiv(a, b) == (a + b - 1) \div b

\* What the wallet owes once `refunded` of the charge is refunded: rounded up.
DebitUpTo(charged, credited, refunded) == CeilDiv(credited * refunded, charged)

\* The revenue given back by then: rounded down.
RevenueUpTo(charged, credited, gross, refunded) ==
  ((gross - credited) * refunded) \div charged

\* Mutant of Refundable: the remaining amount is not checked.
Refundable_Unbounded(charged, refundedBefore, amount) == amount > 0

\* reverseConversion refuses anything else.
Refundable(charged, refundedBefore, amount) ==
  amount > 0 /\ refundedBefore >= 0 /\ refundedBefore + amount <= charged

\* Mutant of WalletDebit: each refund is converted by itself.
WalletDebit_NotCumulative(charged, credited, refundedBefore, amount) ==
  CeilDiv(credited * amount, charged)

WalletDebit(charged, credited, refundedBefore, amount) ==
  DebitUpTo(charged, credited, refundedBefore + amount)
    - DebitUpTo(charged, credited, refundedBefore)

\* Mutant of RevenueReversal: each refund rounds, and rounds up.
RevenueReversal_RoundsUp(charged, credited, gross, refundedBefore, amount) ==
  CeilDiv((gross - credited) * amount, charged)

RevenueReversal(charged, credited, gross, refundedBefore, amount) ==
  RevenueUpTo(charged, credited, gross, refundedBefore + amount)
    - RevenueUpTo(charged, credited, gross, refundedBefore)
=================================================================================
