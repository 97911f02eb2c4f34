------------------------------ MODULE MCSubmissions ------------------------------
(***************************************************************************)
(* The submission of a refund or of a payout, one of them per behaviour:   *)
(* they use the variables that the two modules have in common in turn, and *)
(* each one's steps and fairness are its module's.                         *)
(***************************************************************************)
EXTENDS RefundSubmission

CONSTANTS Amount, Fee   \* of the payout

ASSUME PayoutAssumption == Amount \in Nat \ {0} /\ Fee \in Nat

VARIABLES kind, available, reserved, clearing, feeRevenue

Payout == INSTANCE PayoutSubmission

payoutAccounts == <<available, reserved, clearing, feeRevenue>>
submissionVars == <<vars, payoutAccounts>>

SubmissionsInit ==
  /\ kind \in {"refund", "payout"}
  /\ providerRef = 0
  /\ IF kind = "refund" THEN Init /\ available = 0 /\ reserved = 0 /\ clearing = 0 /\ feeRevenue = 0
                        ELSE Payout!Init

\* A step of the refund, or the corresponding one of the payout.
Either(refundStep, payoutStep) ==
  \/ kind = "refund" /\ refundStep /\ UNCHANGED payoutAccounts
  \/ kind = "payout" /\ payoutStep /\ UNCHANGED providerRef

SubmissionsNext == UNCHANGED kind /\ Either(Next, Payout!Next)

SubmissionFairness ==
  /\ WF_submissionVars(Either(SubmissionSettles, Payout!SubmissionSettles))
  /\ WF_submissionVars(Either(WindowPasses, Payout!WindowPasses))
  /\ WF_submissionVars(Either(LateRequest, Payout!LateRequest))
  /\ \A w \in Workers :
       /\ WF_submissionVars(Either(Load(w), status = "processing" /\ Payout!Load(w)))
       /\ SF_submissionVars(Either(Claim(w), Payout!Claim(w)))
       /\ SF_submissionVars(Either(Ask(w), Payout!Find(w)))
       /\ SF_submissionVars(Either(SendAnswered(w), Payout!SendAnswered(w)))
       /\ SF_submissionVars(Either(Record(w), FALSE))
       /\ SF_submissionVars(Either(Apply(w), Payout!Apply(w)))

SubmissionsSpec ==
  SubmissionsInit /\ [][SubmissionsNext]_<<kind, submissionVars>> /\ SubmissionFairness

-----------------------------------------------------------------------------
(* The properties of the submissions, of whichever kind they are. *)

\* A refund's variables have their types, and a payout's theirs.
SubmissionTypeOK == IF kind = "refund" THEN TypeOK ELSE Payout!TypeOK

Submission ==
  INSTANCE MoneyOut WITH book <- IF kind = "refund" THEN Book ELSE Payout!Book,
                         order <- IF kind = "refund" THEN Order ELSE Payout!Order

\* submit of refunds and of payouts implements MoneyOut: whatever is lost, late or
\* concurrent, the provider is never given the order twice, it is booked as paid only
\* if it was, and its hold is given back only if nobody gets the money.
MoneyLeavesOnce == Submission!Spec

\* What the provider has settled is settled here (refunds: OutcomeIsBooked), whichever
\* answers and workers were lost on the way.
RefundOutcomeIsBooked ==
  (kind = "refund" /\ \E i \in 1..Len(records) : records[i] # "pending") ~> status # "processing"

\* The same of payouts, also of those the bank returns afterwards.
PayoutOutcomeIsBooked ==
  (kind = "payout" /\ \E i \in 1..Len(records) : records[i] # "pending") ~> status # "processing"

\* A refund that the provider will not take is failed, and its hold given back, also
\* when an earlier attempt to send it was lost.
RefundRefusalIsBooked ==
  (kind = "refund" /\ refusing /\ records = << >>) ~> (status # "processing" \/ records # << >>)

\* Every outcome at the provider is booked in the end, of refunds, of payouts, and of
\* refunds that the provider refuses, as one of the statuses there are.
OutcomesAreBooked ==
  /\ []SubmissionTypeOK
  /\ RefundOutcomeIsBooked /\ PayoutOutcomeIsBooked /\ RefundRefusalIsBooked
=================================================================================
