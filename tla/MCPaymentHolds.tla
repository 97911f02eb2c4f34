----------------------------- MODULE MCPaymentHolds -----------------------------
(***************************************************************************)
(* Small instances of PaymentHolds.                                        *)
(***************************************************************************)
EXTENDS PaymentHolds, TLC

CONSTANTS p1, p2

\* A payment of 2, credited as it is.
PlainCharge == (p1 :> 2)
PlainCredit == (p1 :> {2})
NoFee == (p1 :> 0)

\* Two payments into the wallet: one held and perhaps converted, one available
\* at once, with a fee.
TwoCharges == (p1 :> 2 @@ p2 :> 2)
TwoCredits == (p1 :> {2, 3} @@ p2 :> {2})
TwoFees == (p1 :> 0 @@ p2 :> 1)

\* A charge of 2 that a quote, or a late re-quote, converts into 3 or 4.
ConvertedCredit == (p1 :> {3, 4})

RefundSymmetry == Permutations(Refunds)
=================================================================================
