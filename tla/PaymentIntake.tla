------------------------------- MODULE PaymentIntake -------------------------------
(***************************************************************************)
(* A payment from the request to its settlement: PaymentsService (the row, *)
(* the checkout), WebhooksService (receive, process, replay) with its      *)
(* worker, and PaymentSettlementService, over the outbox and its queues.   *)
(*                                                                         *)
(* Clients repeat one initialisation under one idempotency key and call    *)
(* the verify endpoint.  The provider is external: it treats our reference *)
(* as idempotent, its rejection of a reference is final, a customer pays   *)
(* at a checkout whose URL we have answered with, perhaps after the charge *)
(* counted as failed, what was collected may be reversed, and it repeats a *)
(* webhook until it is acknowledged.  What a credit does to the wallet is  *)
(* in PaymentHolds.                                                        *)
(***************************************************************************)
EXTENDS Outbox

CONSTANTS
  Clients,     \* concurrent requests
  Verifiers,   \* those of them that may also call the verify endpoint
  Events,      \* webhooks the provider sends
  MaxReplays   \* bound on the replays of one event

ASSUME IntakeAssumption == MaxReplays \in Nat /\ Verifiers \subseteq Clients

VARIABLES
  status,             \* the payment's transaction: none, pending, successful or failed
  providerReference,  \* whether payments.provider_reference is set
  charge,             \* the provider's view of the payment
  event,              \* status of each webhook_events row
  replays,            \* how often each was replayed
  client,             \* where each request is
  worker,             \* where the worker of each job is
  credits             \* how often the wallet was credited

payment == <<status, providerReference, credits>>
vars == <<outboxVars, payment, charge, event, replays, client, worker>>

Commands == Events \X (0..MaxReplays)
Announced(s) == <<s, 0>>
\* The rows that webhooks (webhook.received) and settlements (payment.*) add.
IntakeRows == Commands \cup {Announced("successful"), Announced("failed")}

\* Every command has its row in the outbox.
ASSUME RowsAssumption == IntakeRows \subseteq Rows

At(place) == [at |-> place, verified |-> "none"]
Verified(s) == [at |-> "settle", verified |-> s]

Init ==
  /\ InitOutbox
  /\ status = "none" /\ providerReference = FALSE /\ credits = 0
  /\ charge = "none"
  /\ event = [e \in Events |-> "none"]
  /\ replays = [e \in Events |-> 0]
  /\ client = [c \in Clients |-> At("idle")]
  /\ worker = [o \in Commands |-> At("idle")]

Goto(c, place) == client' = [client EXCEPT ![c] = At(place)]
-----------------------------------------------------------------------------
(* payments.service.ts: initialize and ensureInitialized. *)

\* ensureInitialized: only a payment that is still pending goes to the provider, and
\* none that had its checkout when it was loaded.
Ensured == IF providerReference \/ status # "pending" THEN "idle" ELSE "call"

\* findByIdempotencyKey and findByTransaction: a retry finds the payment.
Initialize(c) ==
  /\ client[c] = At("idle")
  /\ Goto(c, IF status = "none" THEN "create" ELSE Ensured)
  /\ UNCHANGED <<outboxVars, payment, charge, event, replays, worker>>

\* Transaction and payment rows, and ensureInitialized of the new payment; who loses
\* the race for the idempotency key answers with the winner's payment as it is.
Create(c) ==
  /\ client[c] = At("create")
  /\ \/ /\ status = "none" /\ status' = "pending" /\ Goto(c, "call")
     \/ /\ status # "none" /\ Goto(c, "idle") /\ UNCHANGED status
  /\ UNCHANGED <<outboxVars, providerReference, credits, charge, event, replays, worker>>

\* initializePayment, idempotent by our reference, outside any transaction.
CallProvider(c) ==
  /\ client[c] = At("call")
  /\ \/ /\ charge # "rejected"
        /\ charge' = IF charge = "none" THEN "open" ELSE charge
        /\ Goto(c, "save") \/ Goto(c, "idle")     \* answered, or a timeout
     \/ /\ charge \in {"none", "rejected"}
        /\ charge' = "rejected"
        /\ Goto(c, "reject")
     \/ /\ UNCHANGED charge                       \* never arrived
        /\ Goto(c, "idle")
  /\ UNCHANGED <<outboxVars, payment, event, replays, worker>>

SaveCheckout(c) ==
  /\ client[c] = At("save")
  /\ providerReference' = TRUE
  /\ Goto(c, "idle")
  /\ UNCHANGED <<outboxVars, status, credits, charge, event, replays, worker>>

\* A definite rejection; transition refuses what is not open any more.
Reject(c) ==
  /\ client[c] = At("reject")
  /\ status' = IF status = "pending" THEN "failed" ELSE status
  /\ Goto(c, "idle")
  /\ UNCHANGED <<outboxVars, providerReference, credits, charge, event, replays, worker>>

\* The request's process dies, or its connection does.
RequestDies(c) ==
  /\ client[c] # At("idle")
  /\ Goto(c, "idle")
  /\ UNCHANGED <<outboxVars, payment, charge, event, replays, worker>>

-----------------------------------------------------------------------------
(* The provider (external). *)

\* The customer pays at the checkout we answered with, in part or with another
\* currency perhaps, or the charge fails.
CustomerPays ==
  /\ charge = "open" /\ providerReference
  /\ \E s \in {"successful", "mismatch", "failed"} : charge' = s
  /\ UNCHANGED <<outboxVars, payment, event, replays, client, worker>>

\* A charge that counted as failed (it was abandoned, say) is paid after all.
CustomerPaysLate ==
  /\ charge = "failed"
  /\ \E s \in {"late", "mismatch"} : charge' = s
  /\ UNCHANGED <<outboxVars, payment, event, replays, client, worker>>

\* What was collected in full is taken back.
ChargeReversed ==
  /\ charge \in {"successful", "late"}
  /\ charge' = "reversed"
  /\ UNCHANGED <<outboxVars, payment, event, replays, client, worker>>

\* verifyPayment, as settle takes it: a success with another amount or currency
\* than we asked for fails the payment as a failure does.
Answer ==
  CASE charge = "open" -> "pending"
    [] charge \in {"successful", "late"} -> "successful"
    [] OTHER -> "failed"

-----------------------------------------------------------------------------
(* webhooks.service.ts: receive and replay. *)

\* Once per provider event id: the event and its command commit together.  The
\* provider tells of attempts to pay (from the moment it has the charge) and of
\* the outcome.
Receive(e) ==
  /\ event[e] = "none"
  /\ charge \notin {"none", "rejected"}
  /\ event' = [event EXCEPT ![e] = "received"]
  /\ outbox' = WithRow(<<e, 0>>)
  /\ UNCHANGED <<relay, job, failures, payment, charge, replays, client, worker>>

\* A failed or ignored event is received again, under the row's lock, with a
\* command of its own.
Replay(e) ==
  /\ event[e] \in {"failed", "ignored"}
  /\ replays[e] < MaxReplays
  /\ event' = [event EXCEPT ![e] = "received"]
  /\ replays' = [replays EXCEPT ![e] = @ + 1]
  /\ outbox' = WithRow(<<e, replays[e] + 1>>)
  /\ UNCHANGED <<relay, job, failures, payment, charge, client, worker>>

-----------------------------------------------------------------------------
(* payment-settlement.service.ts: settle. *)

\* Mutant of Open: the status is not looked at.
Open_Always == TRUE

\* OPEN_STATUSES, checked under the lock on the transaction's row.
Open == status = "pending"

\* Mutant of Settle: the credit is committed without its event.
Settle_NotAnnounced(verified) ==
  \/ /\ verified \in {"successful", "failed"} /\ Open
     /\ status' = IF verified = "successful" THEN "successful" ELSE "failed"
     /\ credits' = credits + IF verified = "successful" THEN 1 ELSE 0
     /\ UNCHANGED <<providerReference, outbox>>
  \/ /\ ~Open
     /\ UNCHANGED <<payment, outbox>>

\* credit and fail: status, wallet and event commit together.  A payment that is
\* settled is not settled again; one that failed before the customer paid is left as
\* it is ("needs manual review").
Settle(verified) ==
  \/ /\ verified = "successful" /\ Open
     /\ status' = "successful"
     /\ credits' = credits + 1
     /\ outbox' = WithRow(Announced("successful"))
     /\ UNCHANGED providerReference
  \/ /\ verified = "failed" /\ Open
     /\ status' = "failed"
     /\ outbox' = WithRow(Announced("failed"))
     /\ UNCHANGED <<providerReference, credits>>
  \/ /\ ~Open
     /\ UNCHANGED <<payment, outbox>>

-----------------------------------------------------------------------------
(* The verify endpoint: settle, on behalf of a client.  A charge that is pending *)
(* settles nothing.                                                               *)

VerifyCharge(c) ==
  /\ c \in Verifiers
  /\ client[c] = At("idle")
  /\ providerReference
  /\ Answer # "pending"
  /\ client' = [client EXCEPT ![c] = Verified(Answer)]
  /\ UNCHANGED <<outboxVars, payment, charge, event, replays, worker>>

VerifySettles(c) ==
  /\ client[c].at = "settle"
  /\ Settle(client[c].verified)
  /\ Goto(c, "idle")
  /\ UNCHANGED <<relay, job, failures, charge, event, replays, worker>>

-----------------------------------------------------------------------------
(* webhooks.processor.ts and WebhooksService.process. *)

Handled == {"processed", "refused", "ignored"}

\* Mutant of Process: the event is marked before its effect has committed.
Process_MarksFirst(o) ==
  LET e == o[1] IN
  /\ job[o].state = "waiting"
  /\ \/ /\ event[e] \in Handled
        /\ job' = Completed(o)
        /\ UNCHANGED <<worker, event>>
     \/ /\ event[e] \notin Handled
        /\ job' = Taken(o)
        /\ event' = [event EXCEPT ![e] = "processed"]
        /\ worker' = [worker EXCEPT ![o] = At(IF providerReference THEN "verify" ELSE "ignore")]
  /\ UNCHANGED <<outbox, relay, failures, payment, charge, replays, client>>

\* What was handled before is not handled again.  findByProviderReference: what
\* matches no payment is ignored, a webhook that overtakes SaveCheckout too.
Process(o) ==
  LET e == o[1] IN
  /\ job[o].state = "waiting"
  /\ \/ /\ event[e] \in Handled
        /\ job' = Completed(o)
        /\ UNCHANGED worker
     \/ /\ event[e] \notin Handled
        /\ job' = Taken(o)
        /\ worker' = [worker EXCEPT ![o] =
             At(IF providerReference THEN "verify" ELSE "ignore")]
  /\ UNCHANGED <<outbox, relay, failures, payment, charge, event, replays, client>>

\* settle asks the provider first: the payload is not trusted.
WorkerVerifies(o) ==
  /\ worker[o] = At("verify")
  /\ worker' = [worker EXCEPT ![o] = IF Answer = "pending" THEN At("process") ELSE Verified(Answer)]
  /\ UNCHANGED <<outboxVars, payment, charge, event, replays, client>>

\* The provider refuses to verify (a 4xx, say of an expired key): the event will
\* count as processed, with outcome ignored.
VerificationRefused(o) ==
  /\ worker[o] = At("verify")
  /\ Failure
  /\ worker' = [worker EXCEPT ![o] = At("refuse")]
  /\ UNCHANGED <<outbox, relay, job, payment, charge, event, replays, client>>

WorkerSettles(o) ==
  /\ worker[o].at = "settle"
  /\ Settle(worker[o].verified)
  /\ worker' = [worker EXCEPT ![o] = At("process")]
  /\ UNCHANGED <<relay, job, failures, charge, event, replays, client>>

\* The status with which an attempt that came this far ends.
Status(place) ==
  CASE place = "ignore" -> "ignored" [] place = "refuse" -> "refused" [] OTHER -> "processed"

\* Mutant of Finish: status and outcome are swapped.
Finish_OutcomeAsStatus(o) ==
  /\ worker[o].at \in {"ignore", "refuse", "process"}
  /\ event' = [event EXCEPT ![o[1]] = "already_settled"]
  /\ job' = Completed(o)
  /\ worker' = [worker EXCEPT ![o] = At("idle")]
  /\ UNCHANGED <<outbox, relay, failures, payment, charge, replays, client>>

Finish(o) ==
  /\ worker[o].at \in {"ignore", "refuse", "process"}
  /\ event' = [event EXCEPT ![o[1]] = Status(worker[o].at)]
  /\ job' = Completed(o)
  /\ worker' = [worker EXCEPT ![o] = At("idle")]
  /\ UNCHANGED <<outbox, relay, failures, payment, charge, replays, client>>

\* Mutant of ProcessFails: the error is recorded, but not thrown again.
ProcessFails_Swallowed(o) ==
  /\ worker[o].at # "idle"
  /\ Failure
  /\ event' = [event EXCEPT ![o[1]] = "failed"]
  /\ job' = Completed(o)
  /\ worker' = [worker EXCEPT ![o] = At("idle")]
  /\ UNCHANGED <<outbox, relay, payment, charge, replays, client>>

\* The provider, the database or anything else fails: the error is recorded on
\* the event and the worker throws, so that the queue tries again.
ProcessFails(o) ==
  /\ worker[o].at # "idle"
  /\ Failure
  /\ event' = [event EXCEPT ![o[1]] = "failed"]
  /\ job' = Retried(o)
  /\ worker' = [worker EXCEPT ![o] = At("idle")]
  /\ UNCHANGED <<outbox, relay, payment, charge, replays, client>>

\* Recording the error fails too (the database is down): process itself throws.
RecordingFails(o) ==
  /\ worker[o].at # "idle"
  /\ Failure
  /\ job' = Retried(o)
  /\ worker' = [worker EXCEPT ![o] = At("idle")]
  /\ UNCHANGED <<outbox, relay, payment, charge, event, replays, client>>

WorkerDies(o) ==
  /\ worker[o].at # "idle"
  /\ Failure
  /\ job' = Stalled(o)
  /\ worker' = [worker EXCEPT ![o] = At("idle")]
  /\ UNCHANGED <<outbox, relay, payment, charge, event, replays, client>>

-----------------------------------------------------------------------------

ClientStep(c) ==
  \/ Initialize(c) \/ Create(c) \/ CallProvider(c)
  \/ SaveCheckout(c) \/ Reject(c) \/ RequestDies(c)
  \/ VerifyCharge(c) \/ VerifySettles(c)

\* What the worker of a job does while nothing fails.
WorkerProgress(o) == Process(o) \/ WorkerVerifies(o) \/ WorkerSettles(o) \/ Finish(o)

WorkerStep(o) ==
  \/ WorkerProgress(o) \/ VerificationRefused(o)
  \/ ProcessFails(o) \/ RecordingFails(o) \/ WorkerDies(o)

QueueStep ==
  /\ RelayStep \/ \E o \in Rows : RemoveJob(o)
  /\ UNCHANGED <<payment, charge, event, replays, client, worker>>

Next ==
  \/ \E c \in Clients : ClientStep(c)
  \/ \E e \in Events : Receive(e) \/ Replay(e)
  \/ \E o \in Commands : WorkerStep(o)
  \/ CustomerPays \/ CustomerPaysLate \/ ChargeReversed \/ QueueStep

Spec == Init /\ [][Next]_vars

\* Relays poll, the queue's workers run what is waiting, and the provider repeats
\* a webhook until it is acknowledged.  Nothing is assumed of clients, customers
\* or administrators.
Fairness ==
  /\ \A e \in Events : WF_vars(Receive(e))
  /\ \A r \in Relays :
       WF_vars(RelayProgress(r) /\ UNCHANGED <<payment, charge, event, replays, client, worker>>)
  /\ \A o \in Commands : WF_vars(WorkerProgress(o))

FairSpec == Spec /\ Fairness
-----------------------------------------------------------------------------
(* Properties. *)

Place == [at : {"idle", "create", "call", "save", "reject", "verify", "settle",
                "ignore", "refuse", "process"},
          verified : {"none", "successful", "failed"}]

\* Every variable has its type.
TypeOK ==
  /\ OutboxTypeOK
  /\ status \in {"none", "pending", "successful", "failed"}
  /\ providerReference \in BOOLEAN
  /\ charge \in {"none", "open", "rejected", "successful", "mismatch", "failed", "late", "reversed"}
  /\ event \in [Events -> {"none", "received", "processed", "refused", "ignored", "failed"}]
  /\ replays \in [Events -> 0..MaxReplays]
  /\ client \in [Clients -> Place]
  /\ worker \in [Commands -> Place]
  /\ credits \in Nat

\* "both paths are safe to run any number of times, concurrently": however many
\* webhooks, replays, repeated jobs and verify calls settle the payment, on answers
\* that may be out of date, the wallet is credited once, and only for what the
\* provider has collected in full; a payment is failed only if its charge was
\* rejected, paid otherwise than asked, reversed, or has counted as failed, even if
\* it was paid late.
SettledAsCharged ==
  /\ credits = IF status = "successful" THEN 1 ELSE 0
  /\ status = "successful" => charge \in {"successful", "late", "reversed"}
  /\ status = "failed" => charge \in {"rejected", "mismatch", "failed", "late", "reversed"}

\* The queue has given up on the event: it waits for an administrator.
GivenUp(e) ==
  /\ \E n \in 0..MaxReplays : job[<<e, n>>].state = "dead"
  /\ \A n \in 0..MaxReplays :
       outbox[<<e, n>>] # "pending" /\ job[<<e, n>>].state \notin {"waiting", "active"}

\* "a stored webhook is never lost": what was received, or received again by a
\* replay, is handled, or tried until the queue gives up, although relays and
\* workers die, jobs run twice and replays race the queue's own attempts.
StoredIsHandled ==
  \A e \in Events : event[e] = "received" ~> (event[e] \in Handled \/ GivenUp(e))

\* A customer's money reaches the wallet without anyone's asking for it, once the
\* provider tells of it, unless the queue gives up on that webhook, the provider
\* refuses to verify or takes the money back.  What is paid late is excepted: its
\* payment may have failed, and is left to reconciliation.
PaidIsCredited ==
  \A e \in Events :
    charge = "successful" /\ event[e] = "none" ~>
      status = "successful" \/ charge = "reversed" \/ GivenUp(e) \/ event[e] = "refused"

\* Who was credited hears of it: payment.successful reaches its queue.
CreditIsAnnounced ==
  status = "successful" ~> job[Announced("successful")].state # "none"

\* The money arrives: a stored webhook is handled, what was paid is credited, and the
\* credit is announced, whichever jobs, relays and calls fail on the way.
MoneyArrives == StoredIsHandled /\ PaidIsCredited /\ CreditIsAnnounced
=====================================================================================
