---------------------------- MODULE PaymentIntakeProofs ----------------------------
(***************************************************************************)
(* Proofs about PaymentIntake for any numbers of requests, webhooks,       *)
(* replays, relays, attempts and failures: types, settlement as charged,   *)
(* and no outbox row that is marked without a job.                         *)
(***************************************************************************)
EXTENDS PaymentIntake, TLAPS

Placed == client \in [Clients -> Place] /\ worker \in [Commands -> Place]

PaymentTypeOK ==
  /\ status \in {"none", "pending", "successful", "failed"}
  /\ providerReference \in BOOLEAN
  /\ charge \in {"none", "open", "rejected", "successful", "mismatch", "failed", "late", "reversed"}
  /\ credits \in Nat

\* The provider knows the payment.
Exists == charge \in {"open", "successful", "mismatch", "failed", "late", "reversed"}

\* A checkout that is saved, or about to be, exists at the provider.
CheckoutExists ==
  /\ providerReference => Exists
  /\ \A c \in Clients : client[c].at = "save" => Exists

\* A request that heard of a rejection is right, for good.
RejectedIsFinal == \A c \in Clients : client[c].at = "reject" => charge = "rejected"

\* What a caller of settle was told may be out of date, but it was true: who heard of
\* a success heard of money that was collected in full, who heard of a failure heard
\* of a charge that has not been paid as asked at the first attempt, and kept.
WasTrue(verified) ==
  \/ verified = "successful" /\ charge \in {"successful", "late", "reversed"}
  \/ verified = "failed" /\ charge \in {"mismatch", "failed", "late", "reversed"}

AnswersHold ==
  /\ \A c \in Clients : client[c].at = "settle" => WasTrue(client[c].verified)
  /\ \A o \in Commands : worker[o].at = "settle" => WasTrue(worker[o].verified)
  /\ \A o \in Commands : worker[o].at = "verify" => providerReference

PaymentInv ==
  /\ Placed /\ PaymentTypeOK /\ SettledAsCharged
  /\ CheckoutExists /\ RejectedIsFinal /\ AnswersHold

paymentSide == <<payment, charge, client, worker>>

-----------------------------------------------------------------------------
(* Settlement. *)

LEMMA PaymentInit == Init => PaymentInv
<1>. SUFFICES ASSUME Init PROVE PaymentInv
  OBVIOUS
<1>1. At("idle") \in Place /\ At("idle").at = "idle"
  BY DEF At, Place
<1>2. Placed /\ (\A c \in Clients : client[c].at = "idle") /\ \A o \in Commands : worker[o].at = "idle"
  BY <1>1 DEF Init, Placed
<1>3. PaymentTypeOK /\ SettledAsCharged /\ ~providerReference
  BY DEF Init, PaymentTypeOK, SettledAsCharged
<1>. QED
  BY <1>2, <1>3 DEF PaymentInv, CheckoutExists, RejectedIsFinal, AnswersHold

\* Whoever asks about a charge that exists is told what it is, or that it is pending.
LEMMA Answered ==
  ASSUME Exists, Answer # "pending"
  PROVE  Answer \in {"successful", "failed"} /\ WasTrue(Answer)
  BY DEF Exists, Answer, WasTrue

\* Who settles on an answer that was true leaves the payment settled as charged.
LEMMA SettleAsCharged ==
  ASSUME NEW v, PaymentTypeOK, SettledAsCharged, WasTrue(v), Settle(v), UNCHANGED charge
  PROVE  PaymentTypeOK' /\ SettledAsCharged' /\ UNCHANGED providerReference
  BY DEF PaymentTypeOK, SettledAsCharged, WasTrue, Settle, Open, payment

LEMMA ClientPlace ==
  ASSUME NEW c \in Clients, NEW p, p \in Place, client \in [Clients -> Place],
         client' = [client EXCEPT ![c] = p]
  PROVE  /\ client' \in [Clients -> Place]
         /\ client'[c] = p
         /\ \A d \in Clients : d # c => client'[d] = client[d]
  OBVIOUS

LEMMA WorkerPlace ==
  ASSUME NEW o \in Commands, NEW p, p \in Place, worker \in [Commands -> Place],
         worker' = [worker EXCEPT ![o] = p]
  PROVE  /\ worker' \in [Commands -> Place]
         /\ worker'[o] = p
         /\ \A q \in Commands : q # o => worker'[q] = worker[q]
  OBVIOUS

LEMMA AtPlace ==
  /\ \A at \in {"idle", "create", "call", "save", "reject", "verify", "ignore",
                "refuse", "process"} :
       At(at) \in Place /\ At(at).at = at
  /\ \A v \in {"successful", "failed"} :
       Verified(v) \in Place /\ Verified(v).at = "settle" /\ Verified(v).verified = v
  BY DEF At, Verified, Place

\* A worker that goes anywhere but to verify or settle disturbs nothing.
LEMMA WorkerLeaves ==
  ASSUME PaymentInv, NEW o \in Commands, NEW at \in {"idle", "ignore", "refuse", "process"},
         worker' = [worker EXCEPT ![o] = At(at)], UNCHANGED <<payment, charge, client>>
  PROVE  PaymentInv'
<1>1. /\ At(at) \in Place /\ At(at).at = at
  BY AtPlace
<1>2. /\ worker' \in [Commands -> Place]
      /\ worker'[o].at = at
      /\ \A q \in Commands : q # o => worker'[q] = worker[q]
  BY <1>1, WorkerPlace DEF PaymentInv, Placed
<1>. QED
  BY <1>2 DEF PaymentInv, Placed, PaymentTypeOK, SettledAsCharged, CheckoutExists,
              RejectedIsFinal, AnswersHold, WasTrue, Exists, payment

\* Neither does a request that ends or goes on to the next step.
LEMMA ClientLeaves ==
  ASSUME PaymentInv, NEW c \in Clients, NEW at \in {"idle", "create", "call"},
         Goto(c, at), UNCHANGED <<charge, worker, providerReference>>,
         PaymentTypeOK', SettledAsCharged'
  PROVE  PaymentInv'
<1>1. /\ At(at) \in Place /\ At(at).at = at
  BY AtPlace
<1>2. /\ client' \in [Clients -> Place]
      /\ client'[c].at = at
      /\ \A d \in Clients : d # c => client'[d] = client[d]
  BY <1>1, ClientPlace DEF PaymentInv, Placed, Goto
<1>. QED
  BY <1>2 DEF PaymentInv, Placed, CheckoutExists, RejectedIsFinal, AnswersHold, WasTrue, Exists

LEMMA PaymentUnchanged ==
  ASSUME PaymentInv, UNCHANGED paymentSide
  PROVE  PaymentInv'
  BY DEF PaymentInv, paymentSide, payment, Placed, PaymentTypeOK, SettledAsCharged, CheckoutExists,
         RejectedIsFinal, AnswersHold, WasTrue, Exists

LEMMA ClientStepPayment ==
  ASSUME PaymentInv, NEW c \in Clients, ClientStep(c)
  PROVE  PaymentInv'
<1>. USE DEF payment
<1>a. PaymentTypeOK /\ SettledAsCharged /\ client \in [Clients -> Place]
  BY DEF PaymentInv, Placed
<1>1. CASE Initialize(c)
  <2>1. PaymentTypeOK' /\ SettledAsCharged'
    BY <1>1, <1>a DEF Initialize, PaymentTypeOK, SettledAsCharged
  <2>2. \E at \in {"idle", "create", "call"} : Goto(c, at)
    BY <1>1 DEF Initialize, Ensured
  <2>. QED
    BY <1>1, <2>1, <2>2, ClientLeaves DEF Initialize
<1>2. CASE Create(c)
  <2>1. PaymentTypeOK' /\ SettledAsCharged'
    BY <1>2, <1>a DEF Create, PaymentTypeOK, SettledAsCharged
  <2>2. \E at \in {"idle", "call"} : Goto(c, at)
    BY <1>2 DEF Create
  <2>. QED
    BY <1>2, <2>1, <2>2, ClientLeaves DEF Create
<1>4. CASE CallProvider(c)
  <2>1. UNCHANGED <<status, providerReference, credits, worker>>
    BY <1>4 DEF CallProvider
  <2>2. PICK at \in {"idle", "save", "reject"} : Goto(c, at)
    BY <1>4 DEF CallProvider
  <2>3. /\ client' \in [Clients -> Place]
        /\ client'[c].at = at
        /\ \A d \in Clients : d # c => client'[d] = client[d]
    BY <2>2, <1>a, AtPlace, ClientPlace DEF Goto
  <2>4. PaymentTypeOK' /\ SettledAsCharged'
    BY <1>4, <1>a, <2>1 DEF CallProvider, PaymentTypeOK, SettledAsCharged
  <2>5. /\ Exists => charge' = charge
        /\ charge = "rejected" => charge' = charge
        /\ \A v : WasTrue(v) => WasTrue(v)'
    BY <1>4, <1>a DEF CallProvider, Exists, WasTrue, PaymentTypeOK
  <2>6. (at = "save" => Exists') /\ (at = "reject" => charge' = "rejected")
    <3>1. \A x, y \in {"idle", "save", "reject"} : Goto(c, x) /\ Goto(c, y) => x = y
      BY <1>a DEF Goto, At
    <3>. QED
      BY <1>4, <1>a, <2>2, <3>1 DEF CallProvider, Exists, PaymentTypeOK
  <2>7. CheckoutExists' /\ RejectedIsFinal'
    BY <2>1, <2>3, <2>5, <2>6 DEF PaymentInv, CheckoutExists, RejectedIsFinal, Exists
  <2>8. AnswersHold'
    BY <2>1, <2>2, <2>3, <2>5 DEF PaymentInv, AnswersHold, WasTrue
  <2>. QED
    BY <2>1, <2>3, <2>4, <2>7, <2>8 DEF PaymentInv, Placed
<1>5. CASE SaveCheckout(c)
  <2>1. /\ client' \in [Clients -> Place]
        /\ client'[c].at = "idle"
        /\ \A d \in Clients : d # c => client'[d] = client[d]
    BY <1>5, <1>a, AtPlace, ClientPlace DEF SaveCheckout, Goto
  <2>2. client[c].at = "save"
    BY <1>5 DEF SaveCheckout, At
  <2>. QED
    BY <1>5, <2>1, <2>2 DEF SaveCheckout, PaymentInv, Placed, PaymentTypeOK, SettledAsCharged,
       CheckoutExists, RejectedIsFinal, AnswersHold, WasTrue, Exists
<1>6. CASE Reject(c)
  <2>1. charge = "rejected"
    BY <1>6 DEF Reject, At, PaymentInv, RejectedIsFinal
  <2>2. PaymentTypeOK' /\ SettledAsCharged'
    BY <1>6, <1>a, <2>1 DEF Reject, PaymentTypeOK, SettledAsCharged
  <2>. QED
    BY <1>6, <2>2, ClientLeaves DEF Reject
<1>7. CASE RequestDies(c)
  <2>1. PaymentTypeOK' /\ SettledAsCharged'
    BY <1>7, <1>a DEF RequestDies, PaymentTypeOK, SettledAsCharged
  <2>. QED
    BY <1>7, <2>1, ClientLeaves DEF RequestDies
<1>8. CASE VerifyCharge(c)
  <2>1. Answer \in {"successful", "failed"} /\ WasTrue(Answer)
    BY <1>8, Answered DEF VerifyCharge, PaymentInv, CheckoutExists
  <2>2. /\ client' \in [Clients -> Place]
        /\ client'[c].at = "settle" /\ client'[c].verified = Answer
        /\ \A d \in Clients : d # c => client'[d] = client[d]
    BY <1>8, <1>a, <2>1, AtPlace, ClientPlace DEF VerifyCharge
  <2>3. UNCHANGED <<charge, worker, status, providerReference, credits>>
    BY <1>8 DEF VerifyCharge
  <2>. QED
    BY <1>8, <2>1, <2>2, <2>3 DEF VerifyCharge, PaymentInv, Placed, PaymentTypeOK, SettledAsCharged,
       CheckoutExists, RejectedIsFinal, AnswersHold, WasTrue, Exists
<1>9. CASE VerifySettles(c)
  <2>1. WasTrue(client[c].verified)
    BY <1>9 DEF VerifySettles, PaymentInv, AnswersHold
  <2>2. PaymentTypeOK' /\ SettledAsCharged' /\ UNCHANGED providerReference
    BY <1>9, <1>a, <2>1, SettleAsCharged DEF VerifySettles
  <2>. QED
    BY <1>9, <2>2, ClientLeaves DEF VerifySettles
<1>. QED
  BY <1>1, <1>2, <1>4, <1>5, <1>6, <1>7, <1>8, <1>9 DEF ClientStep

\* What the provider's customers do makes no answer wrong, nor what was booked on it.
LEMMA ChargeMovesPayment ==
  ASSUME PaymentInv, CustomerPays \/ CustomerPaysLate \/ ChargeReversed
  PROVE  PaymentInv'
<1>1. /\ \/ charge = "open" /\ charge' \in {"successful", "mismatch", "failed"}
         \/ charge = "failed" /\ charge' \in {"late", "mismatch"}
         \/ charge \in {"successful", "late"} /\ charge' = "reversed"
      /\ UNCHANGED <<status, providerReference, credits, client, worker>>
  BY DEF CustomerPays, CustomerPaysLate, ChargeReversed, payment
<1>2. Exists /\ Exists' /\ \A v : WasTrue(v) => WasTrue(v)'
  BY <1>1 DEF Exists, WasTrue
<1>3. CheckoutExists' /\ RejectedIsFinal'
  BY <1>1, <1>2 DEF PaymentInv, CheckoutExists, RejectedIsFinal
<1>4. AnswersHold'
  BY <1>1, <1>2 DEF PaymentInv, AnswersHold, WasTrue
<1>5. PaymentTypeOK' /\ SettledAsCharged' /\ Placed'
  <2>1. PaymentTypeOK /\ SettledAsCharged /\ Placed
    BY DEF PaymentInv
  <2>2. PaymentTypeOK' /\ Placed'
    BY <1>1, <2>1 DEF PaymentTypeOK, Placed
  <2>3. SettledAsCharged'
    BY <1>1, <2>1 DEF SettledAsCharged
  <2>. QED
    BY <2>2, <2>3
<1>. QED
  BY <1>3, <1>4, <1>5 DEF PaymentInv

LEMMA WorkerStepPayment ==
  ASSUME PaymentInv, NEW o \in Commands, WorkerStep(o)
  PROVE  PaymentInv'
<1>. USE DEF payment
<1>a. PaymentTypeOK /\ SettledAsCharged /\ worker \in [Commands -> Place]
  BY DEF PaymentInv, Placed
<1>1. CASE Process(o)
  <2>1. CASE UNCHANGED worker
    BY <1>1, <2>1, PaymentUnchanged DEF Process, paymentSide
  <2>2. CASE worker' = [worker EXCEPT ![o] = At("ignore")]
    BY <1>1, <2>2, WorkerLeaves DEF Process
  <2>3. CASE providerReference /\ worker' = [worker EXCEPT ![o] = At("verify")]
    <3>1. /\ worker' \in [Commands -> Place]
          /\ worker'[o].at = "verify"
          /\ \A q \in Commands : q # o => worker'[q] = worker[q]
      BY <2>3, <1>a, AtPlace, WorkerPlace
    <3>. QED
      BY <1>1, <2>3, <3>1 DEF Process, PaymentInv, Placed, PaymentTypeOK, SettledAsCharged,
         CheckoutExists, RejectedIsFinal, AnswersHold, WasTrue, Exists
  <2>. QED
    BY <1>1, <2>1, <2>2, <2>3 DEF Process
<1>2. CASE WorkerVerifies(o)
  <2>1. UNCHANGED <<charge, client, status, providerReference, credits>>
    BY <1>2 DEF WorkerVerifies
  <2>2. CASE Answer = "pending"
    BY <1>2, <2>1, <2>2, WorkerLeaves DEF WorkerVerifies
  <2>3. CASE Answer # "pending"
    <3>1. Answer \in {"successful", "failed"} /\ WasTrue(Answer)
      BY <1>2, <2>3, Answered DEF WorkerVerifies, At, PaymentInv, AnswersHold, CheckoutExists
    <3>2. /\ worker' \in [Commands -> Place]
          /\ worker'[o].at = "settle" /\ worker'[o].verified = Answer
          /\ \A q \in Commands : q # o => worker'[q] = worker[q]
      BY <1>2, <1>a, <2>3, <3>1, AtPlace, WorkerPlace DEF WorkerVerifies
    <3>. QED
      BY <2>1, <3>1, <3>2 DEF PaymentInv, Placed, PaymentTypeOK, SettledAsCharged,
         CheckoutExists, RejectedIsFinal, AnswersHold, WasTrue, Exists
  <2>. QED
    BY <2>2, <2>3
<1>3. CASE WorkerSettles(o)
  <2>1. WasTrue(worker[o].verified)
    BY <1>3 DEF WorkerSettles, PaymentInv, AnswersHold
  <2>2. PaymentTypeOK' /\ SettledAsCharged' /\ UNCHANGED providerReference
    BY <1>3, <1>a, <2>1, SettleAsCharged DEF WorkerSettles
  <2>3. /\ worker' \in [Commands -> Place]
        /\ worker'[o].at = "process"
        /\ \A q \in Commands : q # o => worker'[q] = worker[q]
    BY <1>3, <1>a, AtPlace, WorkerPlace DEF WorkerSettles
  <2>. QED
    BY <1>3, <2>2, <2>3 DEF WorkerSettles, PaymentInv, Placed, CheckoutExists, RejectedIsFinal,
       AnswersHold, WasTrue, Exists
<1>4. CASE VerificationRefused(o)
  BY <1>4, WorkerLeaves DEF VerificationRefused
<1>5. CASE Finish(o)
  BY <1>5, WorkerLeaves DEF Finish
<1>6. CASE ProcessFails(o)
  BY <1>6, WorkerLeaves DEF ProcessFails
<1>7. CASE RecordingFails(o)
  BY <1>7, WorkerLeaves DEF RecordingFails
<1>8. CASE WorkerDies(o)
  BY <1>8, WorkerLeaves DEF WorkerDies
<1>. QED
  BY <1>1, <1>2, <1>3, <1>4, <1>5, <1>6, <1>7, <1>8 DEF WorkerStep, WorkerProgress

LEMMA PaymentStep == PaymentInv /\ [Next]_vars => PaymentInv'
<1>. SUFFICES ASSUME PaymentInv, [Next]_vars PROVE PaymentInv'
  OBVIOUS
<1>1. CASE \E c \in Clients : ClientStep(c)
  BY <1>1, ClientStepPayment
<1>2. CASE \E e \in Events : Receive(e) \/ Replay(e)
  BY <1>2, PaymentUnchanged DEF Receive, Replay, paymentSide
<1>3. CASE \E o \in Commands : WorkerStep(o)
  BY <1>3, WorkerStepPayment
<1>4. CASE CustomerPays \/ CustomerPaysLate \/ ChargeReversed
  BY <1>4, ChargeMovesPayment
<1>5. CASE QueueStep
  BY <1>5, PaymentUnchanged DEF QueueStep, paymentSide
<1>6. CASE UNCHANGED vars
  BY <1>6, PaymentUnchanged DEF vars, paymentSide
<1>. QED
  BY <1>1, <1>2, <1>3, <1>4, <1>5, <1>6 DEF Next

\* Whatever requests, webhooks, replays, repeated jobs and verify calls do, in
\* whatever order, on answers however old and with whatever failures, the wallet is
\* credited at most once, exactly when the payment is successful, and only if the
\* provider has collected what was asked for; a payment whose charge was paid as
\* asked at the first attempt, and kept, is never failed.
THEOREM IntakeSettledAsCharged == Spec => []SettledAsCharged
<1>1. PaymentInv => SettledAsCharged
  BY DEF PaymentInv
<1>. QED
  BY <1>1, PaymentInit, PaymentStep, PTL DEF Spec
-----------------------------------------------------------------------------
(* The outbox and the queue. *)

JobType == [state : {"none", "waiting", "active", "completed", "dead", "removed"},
            left : 0..MaxAttempts, stalled : BOOLEAN]

\* A job that may run has an attempt left.
HasAttempts(j) == j.state \in {"waiting", "active"} => j.left > 0

JobsOK == job \in [Rows -> JobType] /\ \A o \in Rows : HasAttempts(job[o])

RowsTypeOK ==
  /\ outbox \in [Rows -> {"none", "pending", "published"}]
  /\ relay \in [Relays -> [locked : SUBSET Rows, tried : SUBSET Rows, added : SUBSET Rows]]
  /\ failures \in 0..MaxFailures

WebhooksTypeOK ==
  /\ event \in [Events -> {"none", "received", "processed", "refused", "ignored", "failed"}]
  /\ replays \in [Events -> 0..MaxReplays]

\* A worker is busy only with a job that the queue knows to be active.
WorkersHaveJobs == \A o \in Commands : worker[o].at # "idle" => job[o].state = "active"

\* What a relay will mark as published has its job already.
AddedIsQueued == \A r \in Relays : \A o \in relay[r].added : job[o].state # "none"

QueueInv ==
  /\ RowsTypeOK /\ WebhooksTypeOK /\ JobsOK
  /\ WorkersHaveJobs /\ AddedIsQueued /\ PublishedIsQueued

LEMMA CommandsHaveRows == Commands \subseteq Rows
  BY RowsAssumption DEF IntakeRows

LEMMA QueueInit == Init => QueueInv
<1>. SUFFICES ASSUME Init PROVE QueueInv
  OBVIOUS
<1>1. NoJob \in JobType /\ HasAttempts(NoJob)
  BY OutboxAssumption DEF NoJob, JobType, HasAttempts
<1>2. NoBatch \in [locked : SUBSET Rows, tried : SUBSET Rows, added : SUBSET Rows] /\ NoBatch.added = {}
  BY DEF NoBatch
<1>3. RowsTypeOK /\ WebhooksTypeOK /\ JobsOK
  BY <1>1, <1>2, OutboxAssumption, IntakeAssumption
     DEF Init, InitOutbox, RowsTypeOK, WebhooksTypeOK, JobsOK
<1>4. WorkersHaveJobs
  BY DEF Init, At, WorkersHaveJobs
<1>5. AddedIsQueued /\ PublishedIsQueued
  BY <1>2 DEF Init, InitOutbox, AddedIsQueued, PublishedIsQueued
<1>. QED
  BY <1>3, <1>4, <1>5 DEF QueueInv

LEMMA Failing ==
  ASSUME failures \in 0..MaxFailures, Failure
  PROVE  failures' \in 0..MaxFailures
  BY OutboxAssumption DEF Failure

\* One job changes, and does not disappear.
LEMMA JobChanges ==
  ASSUME JobsOK, NEW o \in Rows, NEW j \in JobType, j.state # "none", HasAttempts(j),
         job' = [job EXCEPT ![o] = j]
  PROVE  /\ JobsOK'
         /\ job'[o] = j
         /\ \A q \in Rows : q # o => job'[q] = job[q]
         /\ \A q \in Rows : job[q].state # "none" => job'[q].state # "none"
  BY DEF JobsOK, HasAttempts

\* What the queue makes of a job it knows.
LEMMA QueueJobs ==
  ASSUME JobsOK, NEW o \in Rows
  PROVE  /\ \E j \in JobType : j.state = "completed" /\ Completed(o) = [job EXCEPT ![o] = j]
         /\ job[o].state = "waiting" =>
              \E j \in JobType : j.state = "active" /\ HasAttempts(j) /\ Taken(o) = [job EXCEPT ![o] = j]
         /\ job[o].state = "active" =>
              \E j \in JobType : j.state \in {"waiting", "dead"} /\ HasAttempts(j)
                                 /\ Retried(o) = [job EXCEPT ![o] = j]
         /\ job[o].state = "active" =>
              \E j \in JobType : j.state \in {"waiting", "dead"} /\ HasAttempts(j)
                                 /\ Stalled(o) = [job EXCEPT ![o] = j]
<1>a. job[o] \in JobType /\ job[o].left \in 0..MaxAttempts /\ job[o].stalled \in BOOLEAN
  BY DEF JobsOK, JobType
<1>b. HasAttempts(job[o]) /\ MaxAttempts \in Nat
  BY OutboxAssumption DEF JobsOK
<1>1. \E j \in JobType : j.state = "completed" /\ Completed(o) = [job EXCEPT ![o] = j]
  <2>. DEFINE j == [NoJob EXCEPT !.state = "completed"]
  <2>1. NoJob \in JobType
    BY <1>b DEF NoJob, JobType
  <2>2. j \in JobType /\ j.state = "completed"
    BY <2>1 DEF JobType
  <2>. QED
    BY <2>2 DEF Completed
<1>2. ASSUME job[o].state = "waiting"
      PROVE  \E j \in JobType : j.state = "active" /\ HasAttempts(j) /\ Taken(o) = [job EXCEPT ![o] = j]
  <2>. DEFINE j == [job[o] EXCEPT !.state = "active"]
  <2>1. j \in JobType /\ j.state = "active" /\ j.left = job[o].left
    BY <1>a DEF JobType
  <2>2. HasAttempts(j)
    BY <1>b, <1>2, <2>1 DEF HasAttempts
  <2>3. Taken(o) = [job EXCEPT ![o] = j]
    BY DEF Taken
  <2>. QED
    BY <2>1, <2>2, <2>3
<1>3. ASSUME job[o].state = "active"
      PROVE  \E j \in JobType : j.state \in {"waiting", "dead"} /\ HasAttempts(j)
                                /\ Retried(o) = [job EXCEPT ![o] = j]
  <2>. DEFINE s == IF job[o].left > 1 THEN "waiting" ELSE "dead"
  <2>. DEFINE n == job[o].left - 1
  <2>. DEFINE j == [job[o] EXCEPT !.state = s, !.left = n]
  <2>1. job[o].left > 0
    BY <1>b, <1>3 DEF HasAttempts
  <2>2. n \in 0..MaxAttempts /\ s \in {"waiting", "dead"} /\ (s = "waiting" => n > 0)
    BY <1>a, <1>b, <2>1
  <2>3. Retried(o) = [job EXCEPT ![o] = j]
    BY DEF Retried, JobsOK
  <2>. HIDE DEF s, n
  <2>4. j \in JobType /\ j.left = n /\ j.state = s
    BY <1>a, <2>2 DEF JobType
  <2>5. HasAttempts(j)
    BY <2>2, <2>4 DEF HasAttempts
  <2>. QED
    BY <2>2, <2>3, <2>4, <2>5
<1>4. ASSUME job[o].state = "active"
      PROVE  \E j \in JobType : j.state \in {"waiting", "dead"} /\ HasAttempts(j)
                                /\ Stalled(o) = [job EXCEPT ![o] = j]
  <2>. DEFINE j == [job[o] EXCEPT !.state = IF job[o].stalled THEN "dead" ELSE "waiting",
                                  !.stalled = TRUE]
  <2>1. /\ j \in JobType /\ j.left = job[o].left
        /\ j.state = IF job[o].stalled THEN "dead" ELSE "waiting"
    BY <1>a DEF JobType
  <2>2. HasAttempts(j)
    BY <1>b, <1>4, <2>1 DEF HasAttempts
  <2>3. Stalled(o) = [job EXCEPT ![o] = j]
    BY DEF Stalled, JobsOK
  <2>. QED
    BY <2>1, <2>2, <2>3
<1>. QED
  BY <1>1, <1>2, <1>3, <1>4

\* A worker's step: its job changes, the rows do not.
LEMMA WorkerJobChanges ==
  ASSUME QueueInv, NEW o \in Commands, NEW j \in JobType, j.state # "none", HasAttempts(j),
         job' = [job EXCEPT ![o] = j], UNCHANGED <<outbox, relay>>
  PROVE  /\ JobsOK' /\ AddedIsQueued' /\ PublishedIsQueued'
         /\ job'[o] = j
         /\ \A q \in Commands : q # o => job'[q] = job[q]
<1>1. o \in Rows /\ Commands \subseteq Rows
  BY CommandsHaveRows
<1>2. /\ JobsOK'
      /\ job'[o] = j
      /\ \A q \in Rows : q # o => job'[q] = job[q]
      /\ \A q \in Rows : job[q].state # "none" => job'[q].state # "none"
  BY <1>1, JobChanges DEF QueueInv
<1>3. AddedIsQueued'
  BY <1>2 DEF QueueInv, AddedIsQueued, RowsTypeOK
<1>4. PublishedIsQueued'
  BY <1>2 DEF QueueInv, PublishedIsQueued
<1>. QED
  BY <1>1, <1>2, <1>3, <1>4

\* The end of an attempt, however it ends.
LEMMA AttemptEnds ==
  ASSUME QueueInv, Placed, NEW o \in Commands, NEW j \in JobType, j.state # "none", HasAttempts(j),
         job' = [job EXCEPT ![o] = j], UNCHANGED <<outbox, relay, replays>>,
         failures' \in 0..MaxFailures, WebhooksTypeOK',
         worker' = [worker EXCEPT ![o] = At("idle")]
  PROVE  QueueInv'
<1>1. /\ JobsOK' /\ AddedIsQueued' /\ PublishedIsQueued'
      /\ \A q \in Commands : q # o => job'[q] = job[q]
  BY WorkerJobChanges
<1>2. /\ worker'[o].at = "idle"
      /\ \A q \in Commands : q # o => worker'[q] = worker[q]
  BY AtPlace, WorkerPlace DEF Placed
<1>3. WorkersHaveJobs'
  BY <1>1, <1>2 DEF QueueInv, WorkersHaveJobs
<1>4. RowsTypeOK'
  BY DEF QueueInv, RowsTypeOK
<1>. QED
  BY <1>1, <1>3, <1>4 DEF QueueInv

LEMMA WorkerStepQueue ==
  ASSUME QueueInv, Placed, NEW o \in Commands, WorkerStep(o)
  PROVE  QueueInv'
<1>a. JobsOK /\ failures \in 0..MaxFailures /\ o \in Rows /\ o[1] \in Events
  BY CommandsHaveRows DEF QueueInv, RowsTypeOK, Commands
<1>b. WebhooksTypeOK /\ WorkersHaveJobs
  BY DEF QueueInv
<1>1. CASE Process(o)
  <2>. USE DEF Process
  <2>1. CASE job' = Completed(o) /\ UNCHANGED worker
    <3>1. PICK j \in JobType : j.state = "completed" /\ job' = [job EXCEPT ![o] = j]
      BY <1>a, <2>1, QueueJobs
    <3>2. HasAttempts(j)
      BY <3>1 DEF HasAttempts
    <3>3. /\ JobsOK' /\ AddedIsQueued' /\ PublishedIsQueued'
          /\ \A q \in Commands : q # o => job'[q] = job[q]
      BY <1>1, <3>1, <3>2, WorkerJobChanges
    <3>4. WorkersHaveJobs'
      BY <1>1, <1>b, <2>1, <3>3 DEF WorkersHaveJobs
    <3>. QED
      BY <1>1, <3>3, <3>4 DEF QueueInv, RowsTypeOK, WebhooksTypeOK
  <2>2. CASE job' = Taken(o) /\ \E at \in {"ignore", "verify"} : worker' = [worker EXCEPT ![o] = At(at)]
    <3>1. PICK j \in JobType : j.state = "active" /\ HasAttempts(j) /\ job' = [job EXCEPT ![o] = j]
      BY <1>a, <1>1, <2>2, QueueJobs
    <3>2. /\ JobsOK' /\ AddedIsQueued' /\ PublishedIsQueued'
          /\ job'[o] = j
          /\ \A q \in Commands : q # o => job'[q] = job[q]
      BY <1>1, <3>1, WorkerJobChanges
    <3>3. \A q \in Commands : q # o => worker'[q] = worker[q]
      BY <2>2 DEF Placed
    <3>4. WorkersHaveJobs'
      BY <1>b, <3>1, <3>2, <3>3 DEF WorkersHaveJobs
    <3>. QED
      BY <1>1, <3>2, <3>4 DEF QueueInv, RowsTypeOK, WebhooksTypeOK
  <2>. QED
    BY <1>1, <2>1, <2>2
<1>2. CASE WorkerVerifies(o) \/ VerificationRefused(o) \/ WorkerSettles(o)
  <2>1. /\ UNCHANGED <<relay, job, event, replays>>
        /\ failures' \in 0..MaxFailures
    BY <1>2, <1>a, Failing DEF WorkerVerifies, VerificationRefused, WorkerSettles, outboxVars
  <2>2. worker[o].at # "idle" /\ \A q \in Commands : q # o => worker'[q] = worker[q]
    BY <1>2 DEF WorkerVerifies, VerificationRefused, WorkerSettles, At, Placed
  <2>3. outbox' = outbox \/ \E q : outbox' = WithRow(q)
    BY <1>2 DEF WorkerVerifies, VerificationRefused, WorkerSettles, Settle, outboxVars
  <2>4. WorkersHaveJobs'
    BY <1>b, <2>1, <2>2 DEF WorkersHaveJobs
  <2>5. RowsTypeOK' /\ PublishedIsQueued'
    BY <2>1, <2>3 DEF QueueInv, RowsTypeOK, PublishedIsQueued, WithRow
  <2>. QED
    BY <2>1, <2>4, <2>5 DEF QueueInv, WebhooksTypeOK, JobsOK, AddedIsQueued
<1>3. CASE Finish(o)
  <2>1. PICK j \in JobType : j.state = "completed" /\ job' = [job EXCEPT ![o] = j]
    BY <1>a, <1>3, QueueJobs DEF Finish
  <2>2. HasAttempts(j)
    BY <2>1 DEF HasAttempts
  <2>3. WebhooksTypeOK'
    BY <1>3, <1>a, <1>b DEF Finish, Status, WebhooksTypeOK
  <2>. QED
    BY <1>3, <1>a, <2>1, <2>2, <2>3, AttemptEnds DEF Finish
<1>4. CASE ProcessFails(o) \/ RecordingFails(o)
  <2>1. job[o].state = "active"
    BY <1>4, <1>b DEF ProcessFails, RecordingFails, WorkersHaveJobs
  <2>2. PICK j \in JobType : /\ j.state \in {"waiting", "dead"} /\ HasAttempts(j)
                             /\ job' = [job EXCEPT ![o] = j]
    BY <1>a, <1>4, <2>1, QueueJobs DEF ProcessFails, RecordingFails
  <2>3. WebhooksTypeOK' /\ failures' \in 0..MaxFailures
    BY <1>4, <1>a, <1>b, Failing DEF ProcessFails, RecordingFails, WebhooksTypeOK
  <2>. QED
    BY <1>4, <2>2, <2>3, AttemptEnds DEF ProcessFails, RecordingFails
<1>5. CASE WorkerDies(o)
  <2>1. job[o].state = "active"
    BY <1>5, <1>b DEF WorkerDies, WorkersHaveJobs
  <2>2. PICK j \in JobType : /\ j.state \in {"waiting", "dead"} /\ HasAttempts(j)
                             /\ job' = [job EXCEPT ![o] = j]
    BY <1>a, <1>5, <2>1, QueueJobs DEF WorkerDies
  <2>3. WebhooksTypeOK' /\ failures' \in 0..MaxFailures
    BY <1>5, <1>a, <1>b, Failing DEF WorkerDies, WebhooksTypeOK
  <2>. QED
    BY <1>5, <2>2, <2>3, AttemptEnds DEF WorkerDies
<1>. QED
  BY <1>1, <1>2, <1>3, <1>4, <1>5 DEF WorkerStep, WorkerProgress

\* A row is added, or none is.
LEMMA RowAdded ==
  ASSUME QueueInv, outbox' = outbox \/ \E q : outbox' = WithRow(q),
         UNCHANGED <<relay, job, failures, worker>>, WebhooksTypeOK'
  PROVE  QueueInv'
  BY DEF QueueInv, RowsTypeOK, PublishedIsQueued, WithRow, JobsOK, WorkersHaveJobs, AddedIsQueued

LEMMA ClientStepQueue ==
  ASSUME QueueInv, NEW c \in Clients, ClientStep(c)
  PROVE  QueueInv'
<1>1. UNCHANGED <<relay, job, failures, worker, event, replays>>
  BY DEF ClientStep, Initialize, Create, CallProvider, SaveCheckout, Reject,
         RequestDies, VerifyCharge, VerifySettles, outboxVars
<1>2. outbox' = outbox \/ \E q : outbox' = WithRow(q)
  BY DEF ClientStep, Initialize, Create, CallProvider, SaveCheckout, Reject,
         RequestDies, VerifyCharge, VerifySettles, Settle, outboxVars
<1>. QED
  BY <1>1, <1>2, RowAdded DEF QueueInv, WebhooksTypeOK

LEMMA WebhookStepQueue ==
  ASSUME QueueInv, NEW e \in Events, Receive(e) \/ Replay(e)
  PROVE  QueueInv'
<1>1. /\ UNCHANGED <<relay, job, failures, worker>>
      /\ \E q : outbox' = WithRow(q)
  BY DEF Receive, Replay
<1>2. WebhooksTypeOK'
  BY IntakeAssumption DEF Receive, Replay, QueueInv, WebhooksTypeOK
<1>. QED
  BY <1>1, <1>2, RowAdded

LEMMA QueueStepQueue ==
  ASSUME QueueInv, QueueStep
  PROVE  QueueInv'
<1>a. /\ UNCHANGED <<event, replays, worker>>
      /\ RowsTypeOK /\ JobsOK /\ AddedIsQueued /\ PublishedIsQueued /\ WorkersHaveJobs
      /\ WebhooksTypeOK'
  BY DEF QueueStep, QueueInv, WebhooksTypeOK
<1>b. failures \in 0..MaxFailures /\ Commands \subseteq Rows
  BY <1>a, CommandsHaveRows DEF RowsTypeOK
<1>1. ASSUME NEW r \in Relays, ClaimBatch(r)
      PROVE  QueueInv'
  BY <1>a, <1>1 DEF ClaimBatch, QueueInv, RowsTypeOK, JobsOK, AddedIsQueued, PublishedIsQueued,
     WorkersHaveJobs
<1>2. ASSUME NEW r \in Relays, NEW o \in Rows, Publish(r, o)
      PROVE  QueueInv'
  <2>1. /\ \A q \in Rows : job[q].state # "none" => job'[q].state # "none"
        /\ job'[o].state # "none"
        /\ JobsOK'
        /\ \A q \in Rows : job[q].state = "active" => job'[q].state = "active"
    <3>1. CASE job[o].state \in {"none", "removed"}
      <4>. DEFINE j == [state |-> "waiting", left |-> MaxAttempts, stalled |-> FALSE]
      <4>1. j \in JobType /\ j.state = "waiting" /\ HasAttempts(j)
        BY OutboxAssumption DEF JobType, HasAttempts
      <4>2. job' = [job EXCEPT ![o] = j]
        BY <1>2, <3>1 DEF Publish, WithJob
      <4>. HIDE DEF j
      <4>. QED
        BY <1>a, <3>1, <4>1, <4>2, JobChanges
    <3>2. CASE job[o].state \notin {"none", "removed"}
      BY <1>a, <1>2, <3>2 DEF Publish, WithJob, JobsOK
    <3>. QED
      BY <3>1, <3>2
  <2>2. AddedIsQueued'
    BY <1>a, <1>2, <2>1 DEF Publish, AddedIsQueued, RowsTypeOK
  <2>3. RowsTypeOK' /\ PublishedIsQueued'
    BY <1>a, <1>2, <2>1 DEF Publish, RowsTypeOK, PublishedIsQueued
  <2>4. WorkersHaveJobs'
    BY <1>a, <1>b, <2>1 DEF WorkersHaveJobs
  <2>. QED
    BY <1>a, <2>1, <2>2, <2>3, <2>4 DEF QueueInv
<1>3. ASSUME NEW r \in Relays, NEW o \in Rows, PublishFails(r, o)
      PROVE  QueueInv'
  <2>1. failures' \in 0..MaxFailures
    BY <1>3, <1>b, Failing DEF PublishFails
  <2>. QED
    BY <1>a, <1>3, <2>1 DEF PublishFails, QueueInv, RowsTypeOK, JobsOK, AddedIsQueued,
       PublishedIsQueued, WorkersHaveJobs
<1>4. ASSUME NEW r \in Relays, CommitBatch(r)
      PROVE  QueueInv'
  <2>1. NoBatch \in [locked : SUBSET Rows, tried : SUBSET Rows, added : SUBSET Rows] /\ NoBatch.added = {}
    BY DEF NoBatch
  <2>2. RowsTypeOK' /\ AddedIsQueued'
    BY <1>a, <1>4, <2>1 DEF CommitBatch, RowsTypeOK, AddedIsQueued
  <2>3. PublishedIsQueued'
    BY <1>a, <1>4 DEF CommitBatch, PublishedIsQueued, AddedIsQueued
  <2>. QED
    BY <1>a, <1>4, <2>2, <2>3 DEF CommitBatch, QueueInv, JobsOK, WorkersHaveJobs
<1>5. ASSUME NEW r \in Relays, RelayDies(r)
      PROVE  QueueInv'
  <2>1. NoBatch \in [locked : SUBSET Rows, tried : SUBSET Rows, added : SUBSET Rows] /\ NoBatch.added = {}
    BY DEF NoBatch
  <2>2. failures' \in 0..MaxFailures
    BY <1>5, <1>b, Failing DEF RelayDies
  <2>3. RowsTypeOK' /\ AddedIsQueued'
    BY <1>a, <1>5, <2>1, <2>2 DEF RelayDies, RowsTypeOK, AddedIsQueued
  <2>. QED
    BY <1>a, <1>5, <2>3 DEF RelayDies, QueueInv, JobsOK, WorkersHaveJobs, PublishedIsQueued
<1>6. ASSUME NEW o \in Rows, RemoveJob(o)
      PROVE  QueueInv'
  <2>. DEFINE j == [job[o] EXCEPT !.state = "removed"]
  <2>1. j \in JobType /\ j.state = "removed" /\ HasAttempts(j)
    BY <1>a DEF JobsOK, JobType, HasAttempts
  <2>2. job' = [job EXCEPT ![o] = j] /\ UNCHANGED <<outbox, relay, failures>>
    BY <1>6 DEF RemoveJob
  <2>. HIDE DEF j
  <2>3. /\ JobsOK'
        /\ \A q \in Rows : q # o => job'[q] = job[q]
        /\ \A q \in Rows : job[q].state # "none" => job'[q].state # "none"
    BY <1>a, <2>1, <2>2, JobChanges
  <2>4. AddedIsQueued' /\ PublishedIsQueued' /\ RowsTypeOK'
    BY <1>a, <2>2, <2>3 DEF AddedIsQueued, PublishedIsQueued, RowsTypeOK
  <2>5. WorkersHaveJobs'
    BY <1>a, <1>b, <1>6, <2>3 DEF RemoveJob, WorkersHaveJobs
  <2>. QED
    BY <1>a, <2>3, <2>4, <2>5 DEF QueueInv
<1>. QED
  BY <1>1, <1>2, <1>3, <1>4, <1>5, <1>6 DEF QueueStep, RelayStep, RelayProgress

LEMMA QueueStepInv == Placed /\ QueueInv /\ [Next]_vars => QueueInv'
<1>. SUFFICES ASSUME Placed, QueueInv, [Next]_vars PROVE QueueInv'
  OBVIOUS
<1>1. CASE \E c \in Clients : ClientStep(c)
  BY <1>1, ClientStepQueue
<1>2. CASE \E e \in Events : Receive(e) \/ Replay(e)
  BY <1>2, WebhookStepQueue
<1>3. CASE \E o \in Commands : WorkerStep(o)
  BY <1>3, WorkerStepQueue
<1>4. CASE CustomerPays \/ CustomerPaysLate \/ ChargeReversed \/ UNCHANGED vars
  BY <1>4, RowAdded DEF CustomerPays, CustomerPaysLate, ChargeReversed, vars, outboxVars, QueueInv, WebhooksTypeOK
<1>5. CASE QueueStep
  BY <1>5, QueueStepQueue
<1>. QED
  BY <1>1, <1>2, <1>3, <1>4, <1>5 DEF Next

\* Every reachable state has its types; in particular no job is tried more often
\* than it may be.
THEOREM IntakeTypeCorrect == Spec => []TypeOK
<1>1. PaymentInv /\ QueueInv => TypeOK
  BY DEF PaymentInv, QueueInv, TypeOK, OutboxTypeOK, RowsTypeOK, WebhooksTypeOK, JobsOK, JobType,
         Placed, PaymentTypeOK
<1>2. PaymentInv => Placed
  BY DEF PaymentInv
<1>. QED
  BY <1>1, <1>2, PaymentInit, PaymentStep, QueueInit, QueueStepInv, PTL DEF Spec

\* However many relays share the outbox, whatever Redis refuses and wherever a
\* relay dies, no row is marked as published unless its job was added.
THEOREM OutboxPublishesWhatItMarks == Spec => []PublishedIsQueued
<1>1. QueueInv => PublishedIsQueued
  BY DEF QueueInv
<1>2. PaymentInv => Placed
  BY DEF PaymentInv
<1>. QED
  BY <1>1, <1>2, PaymentInit, PaymentStep, QueueInit, QueueStepInv, PTL DEF Spec
=====================================================================================
