---------------------------- MODULE RefundSubmission ----------------------------
(***************************************************************************)
(* RefundsService.submit for one refund: several workers (the request,     *)
(* admin retries, webhooks, the maintenance sweep) send it to the provider *)
(* or find out what became of it, and settle it.  HTTP calls may fail at   *)
(* every point, and a worker may die between any two steps.                *)
(*                                                                         *)
(* Time is the age of submitted_at against RESUBMIT_AFTER_MS (5 minutes):  *)
(* it is recent, then settled (what was sent has reached the provider or   *)
(* never will: RESUBMIT_AFTER_MS rests on this, "never arrived"), then old *)
(* enough to send again.  One step of a worker (an HTTP call times out     *)
(* after seconds) takes less than the time between two of these, except    *)
(* that a sweep may reach a refund long after it has loaded it.            *)
(***************************************************************************)
EXTENDS Integers, Sequences

CONSTANTS
  Workers,       \* callers of submit
  BatchWorkers,  \* those that load a batch and reach the refund much later
  MaxSends       \* bound on the refunds the provider creates for us

ASSUME WorkersAssumption == BatchWorkers \subseteq Workers /\ MaxSends \in Nat \ {0}

VARIABLES
  status,       \* the refund's transaction
  submittedAt,  \* never, recent, settled or old
  providerRef,  \* refunds.provider_refund_reference: an index of records, or 0
  records,      \* the provider's refunds with our reference
  refusing,     \* the provider rejects new refunds of this payment
  late,         \* a request is under way whose sender no longer waits
  job,          \* where each worker is in submit, and what it knows there: the
                \* refund row as it loaded it, then the provider's answer
  stragglers    \* workers that have not moved since submittedAt settled

provider == <<records, refusing, late>>
row == <<status, submittedAt, providerRef>>
vars == <<row, provider, job, stragglers>>

Idle == [at |-> "idle"]

Init ==
  /\ status = "processing"
  /\ submittedAt = "never"
  /\ providerRef = 0
  /\ records = << >>
  /\ refusing = FALSE
  /\ late = FALSE
  /\ job = [w \in Workers |-> Idle]
  /\ stragglers = {}

Goto(w, next) ==
  /\ job' = [job EXCEPT ![w] = next]
  /\ stragglers' = stragglers \ {w}

-----------------------------------------------------------------------------
(* The provider (external). *)

\* Creates a refund; it may have one with our reference already.
ProviderCreates ==
  /\ ~refusing /\ Len(records) < MaxSends
  /\ \E s \in {"pending", "successful"} : records' = Append(records, s)

ProviderDecides ==
  \E i \in 1..Len(records) :
    /\ records[i] = "pending"
    /\ \E s \in {"successful", "failed"} : records' = [records EXCEPT ![i] = s]
    /\ UNCHANGED <<row, refusing, late, job, stragglers>>

ProviderRefuses ==
  /\ ~refusing /\ refusing' = TRUE
  /\ UNCHANGED <<row, records, late, job, stragglers>>

\* A request whose sender gave up on it gets through after all, or is lost.
LateRequest ==
  /\ late /\ late' = FALSE
  /\ ProviderCreates \/ records' = records
  /\ UNCHANGED <<row, refusing, job, stragglers>>

-----------------------------------------------------------------------------
(* submit(). *)

\* retry, syncFromWebhook and syncStale load the refund while it is processing;
\* request has just inserted it.
Load(w) ==
  /\ job[w] = Idle
  /\ status = "processing"
  /\ Goto(w, [at |-> "loaded", submitted |-> submittedAt # "never", ref |-> providerRef])
  /\ UNCHANGED <<row, provider>>

\* Mutant of MustAsk: what was sent without an answer is not looked up.
MustAsk_OnlyIfAnswered(w) == job[w].ref # 0

\* The provider is asked about a refund that was, or may have been, sent.
MustAsk(w) == job[w].ref # 0 \/ job[w].submitted

\* getRefund or findRefund answers: a refund of ours, or none (null).
Ask(w) ==
  /\ job[w].at = "loaded"
  /\ MustAsk(w)
  /\ \/ \E i \in 1..Len(records) :
          /\ job[w].ref \in {0, i}
          /\ Goto(w, [at |-> "answered", ref |-> i, status |-> records[i]])
     \/ /\ job[w].ref = 0 /\ records = << >>
        /\ Goto(w, [at |-> "claim"])
  /\ UNCHANGED <<row, provider>>

\* Mutant of Claimable: what was sent once is never sent again.
Claimable_Once == submittedAt = "never"

\* claimSubmission's WHERE clause.
Claimable == submittedAt \in {"never", "old"}

\* claimSubmission: one UPDATE, which one caller wins.
Claim(w) ==
  /\ job[w].at = "claim" \/ (job[w].at = "loaded" /\ ~MustAsk(w))
  /\ \/ /\ Claimable
        /\ submittedAt' = "recent"
        /\ Goto(w, [at |-> "send"])
     \/ /\ ~Claimable
        /\ Goto(w, Idle)
        /\ UNCHANGED submittedAt
  /\ UNCHANGED <<status, providerRef, provider>>

\* refundPayment gets through and so does its answer.
SendAnswered(w) ==
  /\ job[w].at = "send"
  /\ \/ /\ ProviderCreates
        /\ Goto(w, [at |-> "answered", ref |-> Len(records'), status |-> records'[Len(records')]])
     \/ /\ refusing
        /\ Goto(w, [at |-> "apply", status |-> "rejected"])
        /\ UNCHANGED records
  /\ UNCHANGED <<row, refusing, late>>

\* It times out: it was lost, its answer was lost, or it is still under way.
SendTimesOut(w) ==
  /\ job[w].at = "send"
  /\ \/ late' = TRUE /\ UNCHANGED records
     \/ (ProviderCreates \/ UNCHANGED records) /\ UNCHANGED late
  /\ Goto(w, Idle)
  /\ UNCHANGED <<row, refusing>>

\* A lookup fails, or the worker dies.
GiveUp(w) ==
  /\ job[w].at \notin {"idle", "send"}
  /\ Goto(w, Idle)
  /\ UNCHANGED <<row, provider>>

\* The provider's reference is saved before the refund is settled.
Record(w) ==
  /\ job[w].at = "answered"
  /\ providerRef' = job[w].ref
  /\ Goto(w, IF job[w].status = "pending" THEN Idle
             ELSE [at |-> "apply", status |-> job[w].status])
  /\ UNCHANGED <<status, submittedAt, provider>>

\* Mutant of Apply: the provider's status becomes the transaction's.
Apply_ProviderStatus(w) ==
  /\ job[w].at = "apply"
  /\ status' = IF status # "processing" THEN status ELSE job[w].status
  /\ Goto(w, Idle)
  /\ UNCHANGED <<submittedAt, providerRef, provider>>

\* Mutant of Apply: a definite failure is taken for an unknown outcome.
Apply_FailureIgnored(w) ==
  /\ job[w].at = "apply"
  /\ status' = IF job[w].status = "successful" THEN "successful" ELSE status
  /\ Goto(w, Idle)
  /\ UNCHANGED <<submittedAt, providerRef, provider>>

\* complete() or fail(), under the lock on the refund's transaction row.
Apply(w) ==
  /\ job[w].at = "apply"
  /\ status' = IF status # "processing" THEN status
               ELSE IF job[w].status = "successful" THEN "successful" ELSE "failed"
  /\ Goto(w, Idle)
  /\ UNCHANGED <<submittedAt, providerRef, provider>>

\* What was sent has reached the provider, or never will.
SubmissionSettles ==
  /\ submittedAt = "recent"
  /\ ~late
  /\ \A w \in Workers : job[w].at # "send"
  /\ submittedAt' = "settled"
  /\ stragglers' = {w \in Workers : \/ job[w].at = "claim"
                                    \/ job[w].at = "loaded" /\ w \notin BatchWorkers}
  /\ UNCHANGED <<status, providerRef, provider, job>>

\* RESUBMIT_AFTER_MS has passed.
WindowPasses ==
  /\ submittedAt = "settled"
  /\ stragglers = {}
  /\ submittedAt' = "old"
  /\ UNCHANGED <<status, providerRef, provider, job, stragglers>>

Next ==
  \/ \E w \in Workers :
       \/ Load(w) \/ Ask(w) \/ Claim(w) \/ SendAnswered(w) \/ SendTimesOut(w)
       \/ GiveUp(w) \/ Record(w) \/ Apply(w)
  \/ ProviderDecides \/ ProviderRefuses \/ LateRequest
  \/ SubmissionSettles \/ WindowPasses

Spec == Init /\ [][Next]_vars

\* The sweep runs every five minutes, so a refund is looked at again and again,
\* and time passes.  Neither the provider nor our processes fail every time.
Fairness ==
  /\ WF_vars(SubmissionSettles) /\ WF_vars(WindowPasses) /\ WF_vars(LateRequest)
  /\ \A w \in Workers :
       /\ WF_vars(Load(w)) /\ SF_vars(Claim(w))
       /\ SF_vars(Ask(w)) /\ SF_vars(SendAnswered(w))
       /\ SF_vars(Record(w)) /\ SF_vars(Apply(w))

FairSpec == Spec /\ Fairness
-----------------------------------------------------------------------------
(* Properties. *)

Job ==
  {Idle, [at |-> "claim"], [at |-> "send"]}
    \cup [at : {"loaded"}, submitted : BOOLEAN, ref : 0..MaxSends]
    \cup [at : {"answered"}, ref : 1..MaxSends, status : {"pending", "successful", "failed"}]
    \cup [at : {"apply"}, status : {"successful", "failed", "rejected"}]

\* Every variable has its type.
TypeOK ==
  /\ status \in {"processing", "successful", "failed"}
  /\ submittedAt \in {"never", "recent", "settled", "old"}
  /\ providerRef \in 0..MaxSends
  /\ records \in Seq({"pending", "successful", "failed"}) /\ Len(records) <= MaxSends
  /\ refusing \in BOOLEAN /\ late \in BOOLEAN
  /\ job \in [Workers -> Job]
  /\ stragglers \subseteq Workers

Book == CASE status = "processing" -> "held" [] status = "successful" -> "paid"
          [] status = "failed" -> "returned"
Order == IF records = << >> THEN "none"
         ELSE IF Len(records) = 1 THEN records[1] ELSE "twice"

Abstract == INSTANCE MoneyOut WITH book <- Book, order <- Order

\* The protocol implements MoneyOut: whatever is lost, late or concurrent, the
\* provider is never given the refund twice, a refund is booked as paid only if
\* it was, and its hold is given back only if the customer never gets the money.
RefundsOnce == Abstract!Spec

\* submit's comment: "Never sends twice: once a refund has been sent, it is only
\* sent again after the provider confirms it has no refund with our reference".
NeverSentTwice == Len(records) <= 1

\* A refund that the provider has settled is settled here, whichever answers
\* and workers were lost on the way.
OutcomeIsBooked ==
  (\E i \in 1..Len(records) : records[i] # "pending") ~> status # "processing"

\* A refund that the provider will not take is failed, and its hold given back,
\* also when an earlier attempt to send it was lost.
RefusalIsBooked == (refusing /\ records = << >>) ~> (status # "processing" \/ records # << >>)
=================================================================================
