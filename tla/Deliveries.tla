------------------------------- MODULE Deliveries -------------------------------
(***************************************************************************)
(* Deliveries to one endpoint of an organization: of a domain event, and   *)
(* of a test.  Their jobs send them and are retried; people redeliver,     *)
(* disable and re-enable; workers, the database and Redis fail.            *)
(***************************************************************************)
EXTENDS Integers, FiniteSets

CONSTANTS
  DeliverTries,     \* attempts of a delivery job
  DisableAfter,     \* final failures in a row that disable the endpoint
  MaxRedeliveries,  \* bound on redeliver requests
  MaxFaults,        \* bound on failures and crashes
  MaxUpdates        \* bound on changes of the endpoint

ASSUME DeliveriesAssumption ==
  /\ DeliverTries \in Nat \ {0} /\ DisableAfter \in Nat \ {0}
  /\ MaxRedeliveries \in Nat /\ MaxFaults \in Nat /\ MaxUpdates \in Nat

VARIABLES
  endpoint,   \* webhook_endpoints: the one endpoint of the organization
  delivery,   \* webhook_deliveries: of the event, and of the test
  job,        \* delivery jobs in the queue, and what their workers know
  redeliver,  \* the redeliver requests
  got,        \* the deliveries that the receiver has accepted
  faults, updates,
  finals      \* history: final failures recorded

deliveryVars == <<endpoint, delivery, job, redeliver, got, faults, updates, finals>>

Items == {"event", "test"}
NoDelivery == "none"

\* Jobs of an item: the first one, and one for each redelivery.
JobIds == Items \X (0..MaxRedeliveries)
NoJob == [at |-> "none"]
Queued(tries) == [at |-> "queued", tries |-> tries]

DeliveriesInit ==
  /\ endpoint = [enabled |-> TRUE, deleted |-> FALSE, failures |-> 0, why |-> "none"]
  /\ delivery = [i \in Items |-> NoDelivery]
  /\ job = [j \in JobIds |-> NoJob]
  /\ redeliver = [n \in 1..MaxRedeliveries |-> "idle"]
  /\ got = {}
  /\ faults = 0
  /\ updates = 0
  /\ finals = 0

Fault == faults < MaxFaults /\ faults' = faults + 1

\* The queue ignores a job whose id it has.
Enqueue(j) == job' = IF job[j] = NoJob THEN [job EXCEPT ![j] = Queued(0)] ELSE job

CreateDelivery_EnqueueFirst(i) ==
  /\ delivery[i] = NoDelivery /\ (i = "event" => endpoint.enabled) /\ ~endpoint.deleted
  /\ IF job[<<i, 0>>] = NoJob THEN Enqueue(<<i, 0>>) /\ UNCHANGED delivery
     ELSE delivery' = [delivery EXCEPT ![i] = "pending"] /\ UNCHANGED job
  /\ UNCHANGED <<endpoint, redeliver, got, faults, updates, finals>>

\* fanOut (see DomainEvents) or sendTest: the row, then its job, which may be lost.
CreateDelivery(i) ==
  /\ delivery[i] = NoDelivery /\ (i = "event" => endpoint.enabled) /\ ~endpoint.deleted
  /\ delivery' = [delivery EXCEPT ![i] = "pending"]
  /\ \/ Enqueue(<<i, 0>>) /\ UNCHANGED faults
     \/ Fault /\ UNCHANGED job
  /\ UNCHANGED <<endpoint, redeliver, got, updates, finals>>

\* redeliver: back to pending, then a job with an id of its own.
Redeliver(n, i) ==
  /\ redeliver[n] = "idle" /\ delivery[i] # NoDelivery /\ ~endpoint.deleted
  /\ delivery' = [delivery EXCEPT ![i] = "pending"]
  /\ redeliver' = [redeliver EXCEPT ![n] = i]
  /\ UNCHANGED <<endpoint, job, got, faults, updates, finals>>

RedeliverEnqueue(n) ==
  /\ redeliver[n] \in Items
  /\ \/ Enqueue(<<redeliver[n], n>>) /\ UNCHANGED faults
     \/ Fault /\ UNCHANGED job
  /\ redeliver' = [redeliver EXCEPT ![n] = "done"]
  /\ UNCHANGED <<endpoint, delivery, got, updates, finals>>

-----------------------------------------------------------------------------
(* OutboundWebhooksService.deliver, run by OutboundWebhooksProcessor *)

SetJob(j, next) == job' = [job EXCEPT ![j] = next]
Over(j) == [at |-> "over", tries |-> job[j].tries]
Last(j) == job[j].tries + 1 >= DeliverTries

\* Reads the delivery and its endpoint, and signs for what it read.
TakeDelivery(j) ==
  /\ job[j].at = "queued"
  /\ CASE delivery[j[1]] \in {NoDelivery, "succeeded"} -> SetJob(j, Over(j)) /\ UNCHANGED delivery
       [] delivery[j[1]] \notin {NoDelivery, "succeeded"} /\ (~endpoint.enabled \/ endpoint.deleted) ->
            /\ delivery' = [delivery EXCEPT ![j[1]] = "failed"]
            /\ SetJob(j, Over(j))
       [] OTHER ->
            /\ SetJob(j, [at |-> "send", tries |-> job[j].tries, failures |-> endpoint.failures])
            /\ UNCHANGED delivery
  /\ UNCHANGED <<endpoint, redeliver, got, faults, updates, finals>>

Send_AnyAnswer(j, accepted, ok) ==
  /\ job[j].at = "send"
  /\ got' = IF accepted THEN got \union {j[1]} ELSE got
  /\ SetJob(j, [at |-> "record", tries |-> job[j].tries, failures |-> job[j].failures, ok |-> ok])
  /\ UNCHANGED <<endpoint, delivery, redeliver, faults, updates, finals>>

\* The URL is resolved and checked, the event is posted: the answer is a 2xx, or it is
\* not, or it is lost after the receiver has accepted.
Send(j, accepted, ok) ==
  /\ job[j].at = "send" /\ (ok => accepted)
  /\ got' = IF accepted THEN got \union {j[1]} ELSE got
  /\ SetJob(j, [at |-> "record", tries |-> job[j].tries, failures |-> job[j].failures, ok |-> ok])
  /\ UNCHANGED <<endpoint, delivery, redeliver, faults, updates, finals>>

RecordAttempt_Status(j) ==
  /\ job[j].at = "record"
  /\ delivery' = [delivery EXCEPT ![j[1]] = IF job[j].ok THEN "succeeded" ELSE IF Last(j) THEN "failed" ELSE "retry"]
  /\ SetJob(j, IF ~job[j].ok /\ ~Last(j) THEN Queued(job[j].tries + 1) ELSE Over(j))
  /\ UNCHANGED <<endpoint, redeliver, got, faults, updates, finals>>

\* Updates the delivery; the processor throws for a retry, and BullMQ requeues it.
RecordAttempt(j) ==
  /\ job[j].at = "record"
  /\ delivery' = [delivery EXCEPT ![j[1]] =
                    IF job[j].ok THEN "succeeded" ELSE IF Last(j) THEN "failed" ELSE "pending"]
  /\ SetJob(j, CASE job[j].ok /\ job[j].failures > 0 -> [at |-> "reset", tries |-> job[j].tries]
                 [] job[j].ok /\ job[j].failures = 0 -> Over(j)
                 [] ~job[j].ok /\ ~Last(j) -> Queued(job[j].tries + 1)
                 [] OTHER -> [at |-> "count", tries |-> job[j].tries])
  /\ UNCHANGED <<endpoint, redeliver, got, faults, updates, finals>>

ResetFailures(j) ==
  /\ job[j].at = "reset"
  /\ endpoint' = [endpoint EXCEPT !.failures = 0]
  /\ SetJob(j, Over(j))
  /\ UNCHANGED <<delivery, redeliver, got, faults, updates, finals>>

CountFailure_OffByOne(j) ==
  /\ job[j].at = "count"
  /\ endpoint' = [endpoint EXCEPT !.failures = @ + 1]
  /\ finals' = finals + 1
  /\ SetJob(j, IF endpoint.failures + 1 >= DisableAfter - 1 THEN [at |-> "disable", tries |-> job[j].tries] ELSE Over(j))
  /\ UNCHANGED <<delivery, redeliver, got, faults, updates>>

\* recordFinalFailure counts in one UPDATE ...
CountFailure(j) ==
  /\ job[j].at = "count"
  /\ endpoint' = [endpoint EXCEPT !.failures = @ + 1]
  /\ finals' = finals + 1
  /\ SetJob(j, IF endpoint.failures + 1 >= DisableAfter THEN [at |-> "disable", tries |-> job[j].tries] ELSE Over(j))
  /\ UNCHANGED <<delivery, redeliver, got, faults, updates>>

\* ... and disables in another.
DisableEndpoint(j) ==
  /\ job[j].at = "disable"
  /\ endpoint' = [endpoint EXCEPT !.enabled = FALSE, !.why = "failures"]
  /\ SetJob(j, Over(j))
  /\ UNCHANGED <<delivery, redeliver, got, faults, updates, finals>>

\* A statement fails (an attempt is used up), or the worker stops (the job is taken again).
DeliverFails(j) ==
  /\ job[j].at \in {"queued", "send", "record", "reset", "count", "disable"} /\ Fault
  /\ \/ SetJob(j, IF Last(j) THEN Over(j) ELSE Queued(job[j].tries + 1))
     \/ SetJob(j, Queued(job[j].tries))
  /\ UNCHANGED <<endpoint, delivery, redeliver, got, updates, finals>>

\* update and remove, by the organization.
UpdateEndpoint(enable) ==
  /\ ~endpoint.deleted /\ updates < MaxUpdates
  /\ endpoint' = [enabled |-> enable, deleted |-> FALSE, why |-> "none",
                  failures |-> IF enable THEN 0 ELSE endpoint.failures]
  /\ updates' = updates + 1
  /\ UNCHANGED <<delivery, job, redeliver, got, faults, finals>>

RemoveEndpoint ==
  /\ ~endpoint.deleted /\ updates < MaxUpdates
  /\ endpoint' = [endpoint EXCEPT !.deleted = TRUE, !.enabled = FALSE]
  /\ updates' = updates + 1
  /\ UNCHANGED <<delivery, job, redeliver, got, faults, finals>>

-----------------------------------------------------------------------------

JobStep(j) ==
  \/ TakeDelivery(j) \/ RecordAttempt(j) \/ ResetFailures(j) \/ CountFailure(j) \/ DisableEndpoint(j)
  \/ \E accepted, ok \in BOOLEAN : Send(j, accepted, ok)

DeliveriesNext ==
  \/ \E i \in Items : CreateDelivery(i)
  \/ \E n \in 1..MaxRedeliveries : RedeliverEnqueue(n) \/ \E i \in Items : Redeliver(n, i)
  \/ \E j \in JobIds : JobStep(j) \/ DeliverFails(j)
  \/ \E enable \in BOOLEAN : UpdateEndpoint(enable)
  \/ RemoveEndpoint

DeliveriesSpec == DeliveriesInit /\ [][DeliveriesNext]_deliveryVars

-----------------------------------------------------------------------------
(* Properties *)

\* States are well formed; a delivery that is not there has not been sent.
DeliveriesTypeOK ==
  /\ delivery \in [Items -> {NoDelivery, "pending", "succeeded", "failed"}]
  /\ finals \in Nat /\ endpoint.failures \in 0..finals
  /\ \A i \in Items : delivery[i] = NoDelivery => i \notin got

\* A delivery counts as succeeded only if its receiver has accepted it.
SuccessIsReal == \A i \in Items : delivery[i] = "succeeded" => i \in got

Alive(j) == job[j].at \notin {"none", "over"}

\* Without a failure of the system's own, a pending delivery always has a job that will
\* send it, whatever the receiver answers and however redeliveries race the queue.
PendingIsQueued ==
  faults = 0 =>
    \A i \in Items : delivery[i] = "pending" =>
      \/ \E j \in JobIds : j[1] = i /\ Alive(j)
      \/ \E n \in 1..MaxRedeliveries : redeliver[n] = i

\* A job counts its final failure once, unless a fault makes it run again.
CountedOnce == finals <= Cardinality({j \in JobIds : job[j].at \in {"disable", "over"}}) + faults

\* The system disables an endpoint only after that many final failures.
DisabledForCause == endpoint.why = "failures" => finals >= DisableAfter

\* A delivery is reported as what it is: succeeded if the receiver has it, pending if a
\* job will send it, and its endpoint disabled by the system only for its failures, which
\* are counted once.
DeliveriesAreSound ==
  DeliveriesTypeOK /\ SuccessIsReal /\ PendingIsQueued /\ CountedOnce /\ DisabledForCause
=================================================================================
