---------------------------- MODULE PayoutSubmission ----------------------------
(***************************************************************************)
(* PayoutsService.submit for one payout: several workers (the request, the *)
(* admin's sync, webhooks, the maintenance sweep) send it to the provider  *)
(* or find out what became of it, and settle it.  Unlike a refund, a       *)
(* payout is loaded anew by every submit, is always looked up by our own   *)
(* reference, and may be reversed by the provider after it was paid.  (The *)
(* provider's own reference is saved too, but only as a hint for lookups.) *)
(* Time is as in RefundSubmission.                                         *)
(***************************************************************************)
EXTENDS Integers, Sequences

CONSTANTS
  Workers,   \* callers of submit
  Amount,    \* the payout
  Fee,       \* its fee, held with it
  MaxSends   \* bound on the payouts the provider creates for us

VARIABLES
  status,       \* the payout's transaction
  submittedAt,  \* never, recent, settled or old
  available, reserved, clearing, feeRevenue,  \* what it has done to the accounts
  records,      \* the provider's payouts with our reference
  refusing,     \* the provider rejects new payouts to this destination
  late,         \* a request is under way whose sender no longer waits
  job,          \* where each worker is in submit, and what it knows there
  stragglers    \* workers that have not moved since submittedAt settled

accounts == <<available, reserved, clearing, feeRevenue>>
provider == <<records, refusing, late>>
vars == <<status, submittedAt, accounts, provider, job, stragglers>>

Idle == [at |-> "idle"]

\* createWithHold has committed: amount and fee are on hold.
Init ==
  /\ status = "processing"
  /\ submittedAt = "never"
  /\ available = -(Amount + Fee) /\ reserved = Amount + Fee
  /\ clearing = 0 /\ feeRevenue = 0
  /\ records = << >>
  /\ refusing = FALSE
  /\ late = FALSE
  /\ job = [w \in Workers |-> Idle]
  /\ stragglers = {}

Goto(w, next) ==
  /\ job' = [job EXCEPT ![w] = next]
  /\ stragglers' = stragglers \ {w}

-----------------------------------------------------------------------------
(* The provider (external). *)

\* Creates a payout; it may have one with our reference already.
ProviderCreates ==
  /\ ~refusing /\ Len(records) < MaxSends
  /\ \E s \in {"pending", "successful"} : records' = Append(records, s)

ProviderDecides ==
  \E i \in 1..Len(records) :
    /\ \/ /\ records[i] = "pending"
          /\ \E s \in {"successful", "failed"} : records' = [records EXCEPT ![i] = s]
       \/ /\ records[i] = "successful"
          /\ records' = [records EXCEPT ![i] = "reversed"]
    /\ UNCHANGED <<status, submittedAt, accounts, refusing, late, job, stragglers>>

ProviderRefuses ==
  /\ ~refusing /\ refusing' = TRUE
  /\ UNCHANGED <<status, submittedAt, accounts, records, late, job, stragglers>>

\* A request whose sender gave up on it gets through after all, or is lost.
LateRequest ==
  /\ late /\ late' = FALSE
  /\ ProviderCreates \/ records' = records
  /\ UNCHANGED <<status, submittedAt, accounts, refusing, job, stragglers>>

-----------------------------------------------------------------------------
(* submit(). *)

\* Mutant of Load: what has been sent is not looked at again.
Load_OnlyUnsent(w) ==
  /\ job[w] = Idle
  /\ status \in {"processing", "successful"} /\ submittedAt = "never"
  /\ Goto(w, [at |-> "loaded", submitted |-> FALSE, status |-> status])
  /\ UNCHANGED <<status, submittedAt, accounts, provider>>

\* Nothing is left to learn about a payout that failed or was reversed.
Load(w) ==
  /\ job[w] = Idle
  /\ status \in {"processing", "successful"}
  /\ Goto(w, [at |-> "loaded", submitted |-> submittedAt # "never", status |-> status])
  /\ UNCHANGED <<status, submittedAt, accounts, provider>>

\* find() by our reference, if the payout was sent before.
Find(w) ==
  /\ job[w].at = "loaded" /\ job[w].submitted
  /\ \/ \E i \in 1..Len(records) : Goto(w, [at |-> "apply", result |-> records[i]])
     \/ /\ records = << >> /\ job[w].status = "processing"
        /\ Goto(w, [at |-> "claim"])
  /\ UNCHANGED <<status, submittedAt, accounts, provider>>

\* claimSubmission's WHERE clause.
Claimable == submittedAt \in {"never", "old"}

\* claimSubmission; `first`: the payout had never been sent when it was loaded.
Claim(w) ==
  /\ job[w].at = "claim" \/ (job[w].at = "loaded" /\ ~job[w].submitted)
  /\ \/ /\ Claimable
        /\ submittedAt' = "recent"
        /\ Goto(w, [at |-> "send", first |-> job[w].at = "loaded"])
     \/ /\ ~Claimable
        /\ Goto(w, Idle)
        /\ UNCHANGED submittedAt
  /\ UNCHANGED <<status, accounts, provider>>

\* initiate() gets through and so does its answer.  Only the rejection of a
\* first send fails the payout; after that a rejection leaves it processing.
SendAnswered(w) ==
  /\ job[w].at = "send"
  /\ \/ /\ ProviderCreates
        /\ Goto(w, [at |-> "apply", result |-> records'[Len(records')]])
     \/ /\ refusing /\ job[w].first
        /\ Goto(w, [at |-> "apply", result |-> "failed"])
        /\ UNCHANGED records
     \/ /\ refusing /\ ~job[w].first
        /\ Goto(w, Idle)
        /\ UNCHANGED records
  /\ UNCHANGED <<status, submittedAt, accounts, refusing, late>>

\* It times out: it was lost, its answer was lost, or it is still under way.
SendTimesOut(w) ==
  /\ job[w].at = "send"
  /\ \/ late' = TRUE /\ UNCHANGED records
     \/ (ProviderCreates \/ UNCHANGED records) /\ UNCHANGED late
  /\ Goto(w, Idle)
  /\ UNCHANGED <<status, submittedAt, accounts, refusing>>

\* A lookup fails, or the worker dies.
GiveUp(w) ==
  /\ job[w].at \notin {"idle", "send"}
  /\ Goto(w, Idle)
  /\ UNCHANGED <<status, submittedAt, accounts, provider>>

\* complete(): reserved -> clearing, and the fee to its revenue account.
Complete ==
  /\ status' = "successful"
  /\ reserved' = reserved - (Amount + Fee)
  /\ clearing' = clearing + Amount
  /\ feeRevenue' = feeRevenue + Fee
  /\ UNCHANGED available

\* fail(): reserved -> available.
Release ==
  /\ status' = "failed"
  /\ reserved' = reserved - (Amount + Fee)
  /\ available' = available + (Amount + Fee)
  /\ UNCHANGED <<clearing, feeRevenue>>

\* reverse(): clearing -> available, and the fee back.
CreditBack ==
  /\ status' = "reversed"
  /\ clearing' = clearing - Amount
  /\ feeRevenue' = feeRevenue - Fee
  /\ available' = available + (Amount + Fee)
  /\ UNCHANGED reserved

\* Mutant of Apply: the provider's status becomes the transaction's.
Apply_ProviderStatus(w) ==
  /\ job[w].at = "apply"
  /\ Goto(w, Idle)
  /\ status' = job[w].result
  /\ UNCHANGED <<submittedAt, accounts, provider>>

\* Mutant of Apply: complete does not look at the status under the lock.
Apply_Unguarded(w) ==
  /\ job[w].at = "apply"
  /\ \/ job[w].result = "successful" /\ Complete /\ Goto(w, Idle)
     \/ job[w].result = "failed" /\ Release /\ Goto(w, Idle)
     \/ job[w].result = "reversed" /\ Release /\ Goto(w, [at |-> "credit"])
     \/ job[w].result = "pending" /\ Goto(w, Idle) /\ UNCHANGED <<status, accounts>>
  /\ UNCHANGED <<submittedAt, provider>>

\* The answer is applied, each part under the lock on the transaction row:
\* complete and fail act only while the payout is processing.  A reversed
\* payout is first failed, then credited back.
Apply(w) ==
  LET processing == status = "processing"
      result == job[w].result
  IN
  /\ job[w].at = "apply"
  /\ Goto(w, IF result = "reversed" THEN [at |-> "credit"] ELSE Idle)
  /\ \/ processing /\ result = "successful" /\ Complete
     \/ processing /\ result \in {"failed", "reversed"} /\ Release
     \/ ~processing /\ UNCHANGED <<status, accounts>>
     \/ result = "pending" /\ UNCHANGED <<status, accounts>>
  /\ UNCHANGED <<submittedAt, provider>>

\* reverse() acts only on a payout that was successful.
Credit(w) ==
  /\ job[w].at = "credit"
  /\ Goto(w, Idle)
  /\ \/ status = "successful" /\ CreditBack
     \/ status # "successful" /\ UNCHANGED <<status, accounts>>
  /\ UNCHANGED <<submittedAt, provider>>

\* What was sent has reached the provider, or never will.
SubmissionSettles ==
  /\ submittedAt = "recent"
  /\ ~late
  /\ \A w \in Workers : job[w].at # "send"
  /\ submittedAt' = "settled"
  /\ stragglers' = {w \in Workers : job[w].at \in {"loaded", "claim"}}
  /\ UNCHANGED <<status, accounts, provider, job>>

\* RESUBMIT_AFTER_MS has passed.
WindowPasses ==
  /\ submittedAt = "settled"
  /\ stragglers = {}
  /\ submittedAt' = "old"
  /\ UNCHANGED <<status, accounts, provider, job, stragglers>>

Next ==
  \/ \E w \in Workers :
       \/ Load(w) \/ Find(w) \/ Claim(w) \/ SendAnswered(w) \/ SendTimesOut(w)
       \/ GiveUp(w) \/ Apply(w) \/ Credit(w)
  \/ ProviderDecides \/ ProviderRefuses \/ LateRequest
  \/ SubmissionSettles \/ WindowPasses

Spec == Init /\ [][Next]_vars

\* The sweep looks at a processing payout every five minutes, and time passes.
\* Neither the provider nor our processes fail every time.
Fairness ==
  /\ WF_vars(SubmissionSettles) /\ WF_vars(WindowPasses) /\ WF_vars(LateRequest)
  /\ \A w \in Workers :
       /\ WF_vars(status = "processing" /\ Load(w)) /\ SF_vars(Claim(w))
       /\ SF_vars(Find(w)) /\ SF_vars(SendAnswered(w)) /\ SF_vars(Apply(w))

FairSpec == Spec /\ Fairness
-----------------------------------------------------------------------------
(* Properties. *)

Result == {"pending", "successful", "failed", "reversed"}
Job ==
  {Idle, [at |-> "claim"], [at |-> "credit"]}
    \cup [at : {"loaded"}, submitted : BOOLEAN, status : {"processing", "successful"}]
    \cup [at : {"send"}, first : BOOLEAN]
    \cup [at : {"apply"}, result : Result]

\* Every variable has its type.
TypeOK ==
  /\ status \in {"processing", "successful", "failed", "reversed"}
  /\ submittedAt \in {"never", "recent", "settled", "old"}
  /\ available \in Int /\ reserved \in Int /\ clearing \in Int /\ feeRevenue \in Int
  /\ records \in Seq(Result) /\ Len(records) <= MaxSends
  /\ refusing \in BOOLEAN /\ late \in BOOLEAN
  /\ job \in [Workers -> Job]
  /\ stragglers \subseteq Workers

\* Where the money is, as the accounts say: none of it is ever in two places,
\* or applied twice by two workers with the same or with different answers.
Book ==
  CASE reserved = Amount + Fee /\ available = -(Amount + Fee)
         /\ clearing = 0 /\ feeRevenue = 0 -> "held"
    [] reserved = 0 /\ available = -(Amount + Fee)
         /\ clearing = Amount /\ feeRevenue = Fee -> "paid"
    [] reserved = 0 /\ available = 0 /\ clearing = 0 /\ feeRevenue = 0 -> "returned"
    [] OTHER -> "wrong"

Order == IF records = << >> THEN "none"
         ELSE IF Len(records) = 1 THEN records[1] ELSE "twice"

Abstract == INSTANCE MoneyOut WITH book <- Book, order <- Order

\* The protocol implements MoneyOut: "a lost response can't pay out twice", the
\* money leaves the books only if it was paid, and it is back in the wallet only
\* if the provider never paid it or returned it.
PaysOutOnce == Abstract!Spec

\* A payout that the provider has settled is settled here.
OutcomeIsBooked ==
  (\E i \in 1..Len(records) : records[i] # "pending") ~> status # "processing"
=================================================================================
