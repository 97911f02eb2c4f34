---------------------------------- MODULE Outbox ----------------------------------
(***************************************************************************)
(* The transactional outbox (src/src/outbox) and the BullMQ queues behind  *)
(* it.  A row is added in the database transaction of the change it is     *)
(* about; relays of several instances claim pending rows with FOR UPDATE   *)
(* SKIP LOCKED, add a job per row to a queue in Redis, mark the rows and   *)
(* commit.  Redis may refuse a job, and a relay may die before it commits. *)
(*                                                                         *)
(* The module has no behaviours of its own: modules that extend it add     *)
(* rows and run jobs.                                                      *)
(***************************************************************************)
EXTENDS Integers, FiniteSets

CONSTANTS
  Rows,         \* ids of outbox_events, which are also the ids of their jobs
  Relays,       \* app instances with workersEnabled
  MaxAttempts,  \* attempts of a job: webhookMaxAttempts
  MaxFailures   \* bound on the failures of Redis, relays and workers

ASSUME OutboxAssumption == MaxAttempts \in Nat \ {0} /\ MaxFailures \in Nat

VARIABLES
  outbox,  \* status of each row: none, pending or published
  relay,   \* a relay's open transaction: the rows it has locked, those it has
           \* tried and those of them whose job was added
  job,     \* per row: state of its job, the attempts left, whether it stalled once
  failures \* failures so far

outboxVars == <<outbox, relay, job, failures>>

NoBatch == [locked |-> {}, tried |-> {}, added |-> {}]
NoJob == [state |-> "none", left |-> 0, stalled |-> FALSE]

InitOutbox ==
  /\ outbox = [o \in Rows |-> "none"]
  /\ relay = [r \in Relays |-> NoBatch]
  /\ job = [o \in Rows |-> NoJob]
  /\ failures = 0

Failure == failures < MaxFailures /\ failures' = failures + 1

-----------------------------------------------------------------------------
(* outbox.service.ts *)

\* add: the row commits with the caller's transaction, whose new outbox this is.
WithRow(o) == [outbox EXCEPT ![o] = "pending"]

-----------------------------------------------------------------------------
(* outbox-publisher.ts, and BullMQ (external). *)

\* A job whose id the queue still knows is not added again.
WithJob(o) ==
  IF job[o].state \in {"none", "removed"}
  THEN [job EXCEPT ![o] = [state |-> "waiting", left |-> MaxAttempts, stalled |-> FALSE]]
  ELSE job

\* A worker takes the job.
Taken(o) == [job EXCEPT ![o].state = "active"]

\* The processor returns.
Completed(o) == [job EXCEPT ![o] = [NoJob EXCEPT !.state = "completed"]]

\* The processor throws: another attempt after a backoff, or none is left.
Retried(o) ==
  [job EXCEPT ![o].state = IF job[o].left > 1 THEN "waiting" ELSE "dead",
              ![o].left = @ - 1]

\* The worker died: BullMQ finds the job stalled and hands it out again, once.
Stalled(o) ==
  [job EXCEPT ![o].state = IF job[o].stalled THEN "dead" ELSE "waiting",
              ![o].stalled = TRUE]

\* removeOnComplete: a finished job, and with it its id, is forgotten.  This makes
\* a difference only while its row may be published again.
RemoveJob(o) ==
  /\ job[o].state = "completed"
  /\ outbox[o] = "pending"
  /\ job' = [job EXCEPT ![o].state = "removed"]
  /\ UNCHANGED <<outbox, relay, failures>>

-----------------------------------------------------------------------------
(* outbox-relay.service.ts *)

Locked == UNION {relay[r].locked : r \in Relays}

\* relayBatch's SELECT: pending rows that no other relay has locked.  One that
\* waits for its available_at is as good as one whose publication fails again.
ClaimBatch(r) ==
  LET batch == {o \in Rows \ Locked : outbox[o] = "pending"} IN
  /\ relay[r] = NoBatch
  /\ batch # {}
  /\ relay' = [relay EXCEPT ![r].locked = batch]
  /\ UNCHANGED <<outbox, job, failures>>

Publish(r, o) ==
  /\ o \in relay[r].locked \ relay[r].tried
  /\ job' = WithJob(o)
  /\ relay' = [relay EXCEPT ![r].tried = @ \cup {o}, ![r].added = @ \cup {o}]
  /\ UNCHANGED <<outbox, failures>>

\* Mutant of PublishFails: the error is swallowed.
PublishFails_Swallowed(r, o) ==
  /\ o \in relay[r].locked \ relay[r].tried
  /\ relay' = [relay EXCEPT ![r].tried = @ \cup {o}, ![r].added = @ \cup {o}]
  /\ Failure
  /\ UNCHANGED <<outbox, job>>

\* Redis is down: the row stays pending, with a backoff.
PublishFails(r, o) ==
  /\ o \in relay[r].locked \ relay[r].tried
  /\ relay' = [relay EXCEPT ![r].tried = @ \cup {o}]
  /\ Failure
  /\ UNCHANGED <<outbox, job>>

CommitBatch(r) ==
  /\ relay[r] # NoBatch
  /\ relay[r].tried = relay[r].locked
  /\ outbox' = [o \in Rows |-> IF o \in relay[r].added THEN "published" ELSE outbox[o]]
  /\ relay' = [relay EXCEPT ![r] = NoBatch]
  /\ UNCHANGED <<job, failures>>

\* The instance or its connection dies: jobs were added, no row is marked.
RelayDies(r) ==
  /\ relay[r] # NoBatch
  /\ relay' = [relay EXCEPT ![r] = NoBatch]
  /\ Failure
  /\ UNCHANGED <<outbox, job>>

\* What a relay does while nothing fails.
RelayProgress(r) == ClaimBatch(r) \/ CommitBatch(r) \/ \E o \in Rows : Publish(r, o)

RelayStep ==
  \E r \in Relays :
    RelayProgress(r) \/ RelayDies(r) \/ \E o \in Rows : PublishFails(r, o)

-----------------------------------------------------------------------------

OutboxTypeOK ==
  /\ outbox \in [Rows -> {"none", "pending", "published"}]
  /\ relay \in [Relays -> [locked : SUBSET Rows, tried : SUBSET Rows, added : SUBSET Rows]]
  /\ job \in [Rows -> [state : {"none", "waiting", "active", "completed", "dead", "removed"},
                       left : 0..MaxAttempts, stalled : BOOLEAN]]
  /\ failures \in 0..MaxFailures

\* "a stored webhook is never lost even if Redis is down": a row is marked as
\* published only when its job was added, whatever fails or dies in between.
PublishedIsQueued == \A o \in Rows : outbox[o] = "published" => job[o].state # "none"
===================================================================================
