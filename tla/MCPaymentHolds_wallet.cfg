SPECIFICATION FairSpec
CONSTANTS
  p1 = p1
  p2 = p2
  Payments = {p1, p2}
  Refunds = {r1, r2, r3}
  Charged <- TwoCharges
  Credits <- TwoCredits
  Fee <- TwoFees
  Held = {p1}
INVARIANTS
  HoldsAreExplained
  NeverOverRefunded
  FullyRefundedIsReversed
  HoldIsKept
  SettledOnce
PROPERTIES
  DueIsReleased
