----------------------------- MODULE PartialRefunds -----------------------------
(***************************************************************************)
(* The refunds of one converted payment, one after the other and none of   *)
(* them failing: refundedBefore is then what the earlier ones add up to    *)
(* (RefundsService.reversal).  What happens when one fails in between is   *)
(* in PaymentHolds.                                                        *)
(***************************************************************************)
EXTENDS ConversionReversal

CONSTANTS
  MaxAmount   \* bound on the amounts of the payment

ASSUME MaxAmountAssumption == MaxAmount \in Nat

VARIABLES
  charged, credited, gross,  \* the quote used for the credit
  refunded,                  \* refunds so far, in the charged currency
  debited,                   \* taken from the wallet for them
  revenueReversed,           \* FX revenue given back for them
  positionUnwound            \* the FX position given back for them

quote == <<charged, credited, gross>>
vars == <<charged, credited, gross, refunded, debited, revenueReversed, positionUnwound>>

\* A quote converts a positive amount into a positive one, and its margin is
\* never negative (FxService.createQuote).
Init ==
  /\ charged \in 1..MaxAmount
  /\ gross \in 1..MaxAmount
  /\ credited \in 1..gross
  /\ refunded = 0
  /\ debited = 0
  /\ revenueReversed = 0
  /\ positionUnwound = 0

Refund(amount) ==
  LET walletDebit == WalletDebit(charged, credited, refunded, amount)
      revenueReversal == RevenueReversal(charged, credited, gross, refunded, amount)
  IN
  /\ Refundable(charged, refunded, amount)
  /\ walletDebit > 0   \* the ledger refuses a hold of nothing
  /\ refunded' = refunded + amount
  /\ debited' = debited + walletDebit
  /\ revenueReversed' = revenueReversed + revenueReversal
  /\ positionUnwound' = positionUnwound + walletDebit + revenueReversal
  /\ UNCHANGED quote

Next == \E amount \in 1..MaxAmount : Refund(amount)

Spec == Init /\ [][Next]_vars
-----------------------------------------------------------------------------
\* Every variable has its type, and the quote is one the FX service makes.
TypeOK ==
  /\ charged \in Nat \ {0} /\ credited \in Nat \ {0} /\ gross \in Nat
  /\ credited <= gross
  /\ refunded \in 0..charged
  /\ debited \in Int /\ revenueReversed \in Int /\ positionUnwound \in Int

\* "once the whole payment is refunded, the reversals sum exactly to the
\* original credit, gross and revenue", however it was split and however each
\* part was rounded.
FullRefundIsExact ==
  refunded = charged =>
    /\ debited = credited
    /\ revenueReversed = gross - credited
    /\ positionUnwound = gross

\* "the platform never reverses more revenue than it earned", and never takes
\* more from the wallet than it was credited, at any point on the way.
NeverReversesTooMuch ==
  /\ 0 <= revenueReversed /\ revenueReversed <= gross - credited
  /\ 0 <= debited /\ debited <= credited

\* The refunds of a converted payment add up: to exactly the credit and the revenue when
\* all is refunded, and to no more than that on the way, however it is split.
RefundsAddUp == TypeOK /\ FullRefundIsExact /\ NeverReversesTooMuch
=================================================================================
