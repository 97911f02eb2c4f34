----------------------------- MODULE Reconciliation -----------------------------
(***************************************************************************)
(* ReconciliationService: runs that compare a provider's records of one    *)
(* period with ours, while payments and payouts go on.  There is one       *)
(* payment or one payout (subject); the daily job runs in several worker   *)
(* processes, and an admin may ask for a run of the same period.           *)
(***************************************************************************)
EXTENDS FiniteSets, Naturals

CONSTANTS
  DailyJobs,   \* executions of the daily job for this period
  AdminRuns,   \* runs an admin asks for
  MaxTroubles  \* bound on provider errors and crashes

Runs == DailyJobs \cup AdminRuns

VARIABLES
  subject,    \* payment or payout
  listing,    \* whether it is in the provider's list of the period and in ours,
              \* whether we know the provider's reference, and whether amount
              \* and currency are equal
  theirs,     \* its status at the provider; "none": the provider has no record
  ours,       \* the status of our transaction
  scheduled,  \* the daily jobs whose run has been inserted
  run,        \* each run: where it is, the record it compares, whether it asked
              \* for it, what it found
  items,      \* the items written, with the run that wrote them
  troubles

reconciliationVars == <<subject, listing, theirs, ours, scheduled, run, items, troubles>>
world == <<subject, listing, theirs, ours>>

Nothing == "none"
NotStarted == [at |-> "not-started", record |-> Nothing, asked |-> FALSE, found |-> {}]

COLLECTED == {"successful", "refunded"}
CREDITED == {"successful", "reversed"}
OPEN_PAYMENT == {"pending", "processing"}

\* Which provider status each status of ours agrees with.
PayoutAgrees(status, record) ==
  <<status, record>> \in {<<"processing", "pending">>, <<"successful", "successful">>,
                          <<"failed", "failed">>, <<"reversed", "reversed">>}

ReconciliationInit ==
  /\ subject \in {"payment", "payout"}
  /\ listing \in [theirs : BOOLEAN, ours : BOOLEAN, known : BOOLEAN, equal : BOOLEAN]
  /\ theirs = IF subject = "payment" THEN "pending" ELSE Nothing
  /\ ours = "processing"
  /\ scheduled = {}
  /\ run = [r \in Runs |-> NotStarted]
  /\ items = {}
  /\ troubles = 0

-----------------------------------------------------------------------------
(* What happens meanwhile: PaymentSettlementService.settle and              *)
(* PayoutsService.sync as PaymentHolds and PayoutSubmission have them.      *)

\* An abandoned charge may be paid after all; a payout request may arrive
\* late, after it was given up.
ProviderMoves ==
  /\ theirs' \in CASE theirs = Nothing -> {"pending"}
                   [] theirs = "pending" -> {"successful", "failed"}
                   [] theirs = "successful" -> IF subject = "payment" THEN {"refunded"} ELSE {"reversed"}
                   [] theirs = "failed" /\ subject = "payment" -> {"successful"}
                   [] OTHER -> {}
  /\ UNCHANGED <<subject, listing, ours, scheduled, run, items, troubles>>

\* Settlement credits a payment that was collected in full, and no other.
Settled ==
  CASE ours \in OPEN_PAYMENT /\ theirs = "successful" /\ listing.equal -> "successful"
    [] ours \in OPEN_PAYMENT /\ theirs = "failed" -> "failed"
    [] OTHER -> ours

Synced ==
  CASE ours = "processing" /\ theirs \in {"successful", "failed"} -> theirs
    [] ours \in {"processing", "successful"} /\ theirs = "reversed" -> "reversed"
    [] OTHER -> ours

Webhook ==
  /\ listing.known
  /\ ours' = (IF subject = "payment" THEN Settled ELSE Synced)
  /\ ours' # ours
  /\ UNCHANGED <<subject, listing, theirs, scheduled, run, items, troubles>>

\* A full refund reverses the credit; a first send that is rejected fails the
\* payout.
OursMoves ==
  /\ \/ subject = "payment" /\ theirs = "refunded" /\ ours = "successful" /\ ours' = "reversed"
     \/ subject = "payout" /\ theirs = Nothing /\ ours = "processing" /\ ours' = "failed"
  /\ UNCHANGED <<subject, listing, theirs, scheduled, run, items, troubles>>

-----------------------------------------------------------------------------

Goes(r, at) == run' = [run EXCEPT ![r].at = at]
Found(r, issue, status, at) ==
  run' = [run EXCEPT ![r].at = at,
                     ![r].found = @ \cup {[run |-> r, issue |-> issue, status |-> status]}]
Only(vars) == UNCHANGED <<vars, scheduled, items, troubles>>

\* createRun: a scheduled run is unique per check and period; a duplicate is
\* null, and the job goes on to the next check.
CreateRun_NoIndex(r) ==
  /\ run[r].at = "not-started"
  /\ Goes(r, "created") /\ scheduled' = scheduled \cup ({r} \cap DailyJobs)
  /\ UNCHANGED <<world, items, troubles>>

CreateRun(r) ==
  /\ run[r].at = "not-started"
  /\ IF r \in DailyJobs /\ scheduled # {}
       THEN Goes(r, "duplicate") /\ UNCHANGED scheduled
       ELSE Goes(r, "created") /\ scheduled' = scheduled \cup ({r} \cap DailyJobs)
  /\ UNCHANGED <<world, items, troubles>>

\* A provider error fails the run; a crash leaves it running.
Trouble(r) ==
  /\ run[r].at \notin {"not-started", "duplicate", "completed", "failed", "crashed"}
  /\ troubles < MaxTroubles /\ troubles' = troubles + 1
  /\ \/ run[r].at \in {"created", "unlisted", "resend"} /\ Goes(r, "failed")
     \/ Goes(r, "crashed")
  /\ UNCHANGED <<world, scheduled, items>>

\* MaintenanceProcessor: the job of a run that was asked for is executed again when its
\* worker has died, and starts anew as the run is still running.  (The daily job, executed
\* again, finds the period taken and leaves its run running for good.)
Reexecute(r) ==
  /\ r \in AdminRuns /\ run[r].at = "crashed"
  /\ run' = [run EXCEPT ![r] = [NotStarted EXCEPT !.at = "created"]]
  /\ Only(world)

\* listPayments and listPayouts, and ours of the period.
ListPayments(r) ==
  /\ run[r].at = "created" /\ subject = "payment"
  /\ IF listing.theirs
       THEN run' = [run EXCEPT ![r].at = "payment", ![r].record = theirs]
       ELSE Goes(r, IF listing.ours /\ listing.known THEN "unlisted" ELSE "found")
  /\ Only(world)

ListPayouts(r) ==
  /\ run[r].at = "created" /\ subject = "payout"
  /\ IF listing.theirs /\ theirs # Nothing
       THEN run' = [run EXCEPT ![r].at = "payout", ![r].record = theirs]
       ELSE Goes(r, IF listing.ours /\ listing.known THEN "unlisted" ELSE "found")
  /\ Only(world)

\* A record we cannot match is an item if money is at stake.
Missing(r, atStake) ==
  IF run[r].record \in atStake THEN Found(r, "missing_in_finstack", "open", "found") ELSE Goes(r, "found")

ComparePayment(r) ==
  LET collected == run[r].record \in COLLECTED
  IN /\ run[r].at = "payment"
     /\ CASE ~listing.known -> Missing(r, COLLECTED)
          [] listing.known /\ collected /\ ~listing.equal -> Found(r, "amount_mismatch", "open", "found")
          [] listing.known /\ collected /\ listing.equal /\ ours \in OPEN_PAYMENT -> Goes(r, "settle")
          [] listing.known /\ collected /\ listing.equal /\ ours \notin OPEN_PAYMENT \cup CREDITED ->
               Found(r, "not_credited", "open", "found")
          [] listing.known /\ ~collected /\ ours \in CREDITED ->
               Found(r, "credited_without_payment", "open", "found")
          [] OTHER -> Goes(r, "found")
     /\ Only(world)

\* Settled the normal way; an exception is swallowed.
SettleLate(r) ==
  /\ run[r].at = "settle"
  /\ Goes(r, "settled")
  /\ ours' \in {Settled, ours}
  /\ Only(<<subject, listing, theirs>>)

Reread_Quiet(r) ==
  /\ run[r].at = "settled"
  /\ IF ours \in CREDITED THEN Found(r, "late_settlement", "auto_resolved", "found") ELSE Goes(r, "found")
  /\ Only(world)

Reread_Assumed(r) ==
  /\ run[r].at = "settled"
  /\ Found(r, "late_settlement", "auto_resolved", "found")
  /\ Only(world)

Reread(r) ==
  /\ run[r].at = "settled"
  /\ IF ours \in CREDITED THEN Found(r, "late_settlement", "auto_resolved", "found")
     ELSE Found(r, "not_credited", "open", "found")
  /\ Only(world)

\* Ours that the list did not include: a credited payment is verified, a sent
\* payout looked for.  A provider that refuses to verify knows of no payment.
VerifyUnlisted(r) ==
  /\ run[r].at = "unlisted" /\ subject = "payment"
  /\ \/ ours \notin CREDITED /\ Goes(r, "found")
     \/ /\ ours \in CREDITED
        /\ \E s \in (IF theirs = "refunded" THEN {"successful", "failed"} ELSE {theirs}) :
             run' = [run EXCEPT ![r].at = "payment", ![r].record = s]
     \/ ours \in CREDITED /\ Found(r, "credited_without_payment", "open", "found")
  /\ Only(world)

FindUnlisted(r) ==
  /\ run[r].at = "unlisted" /\ subject = "payout"
  /\ IF theirs # Nothing
       THEN run' = [run EXCEPT ![r].at = "payout", ![r].record = theirs, ![r].asked = TRUE]
       ELSE Goes(r, "absent")
  /\ Only(world)

\* The provider had no record of it when it was asked; ours is read after the answer.
CompareAbsent(r) ==
  /\ run[r].at = "absent"
  /\ CASE ours = "failed" -> Goes(r, "found")
       [] ours = "processing" -> Goes(r, "resend")
       [] OTHER -> Found(r, "status_mismatch", "open", "found")
  /\ Only(world)

\* Never arrived: sync sends it again once that is safe; then it is looked for.
Resend(r) ==
  /\ run[r].at = "resend"
  /\ \/ theirs = Nothing /\ ours = "processing" /\ theirs' = "pending" /\ Goes(r, "resend")
     \/ /\ UNCHANGED theirs
        /\ IF theirs # Nothing
             THEN run' = [run EXCEPT ![r].at = "payout", ![r].record = theirs, ![r].asked = TRUE]
             ELSE Found(r, "status_mismatch", "open", "found")
  /\ Only(<<subject, listing, ours>>)

\* A payout that was asked about is compared with its own amount.
AmountDiffers(r) == ~listing.equal /\ ~run[r].asked

ComparePayout_FailedFirst(r) ==
  /\ run[r].at = "payout"
  /\ CASE ~listing.known -> Missing(r, {"pending", "successful", "reversed"})
       [] listing.known /\ AmountDiffers(r) -> Found(r, "amount_mismatch", "open", "found")
       [] listing.known /\ ~AmountDiffers(r) /\ ours # "failed" /\ ~PayoutAgrees(ours, run[r].record) -> Goes(r, "sync")
       [] OTHER -> Goes(r, "found")
  /\ Only(world)

ComparePayout(r) ==
  /\ run[r].at = "payout"
  /\ CASE ~listing.known -> Missing(r, {"pending", "successful", "reversed"})
       [] listing.known /\ AmountDiffers(r) -> Found(r, "amount_mismatch", "open", "found")
       [] listing.known /\ ~AmountDiffers(r) /\ ~PayoutAgrees(ours, run[r].record) -> Goes(r, "sync")
       [] OTHER -> Goes(r, "found")
  /\ Only(world)

SyncLate(r) ==
  /\ run[r].at = "sync"
  /\ Goes(r, "synced")
  /\ ours' \in {Synced, ours}
  /\ Only(<<subject, listing, theirs>>)

AfterSync(r) ==
  /\ run[r].at = "synced"
  /\ IF PayoutAgrees(ours, run[r].record) THEN Found(r, "late_settlement", "auto_resolved", "found")
     ELSE Found(r, "status_mismatch", "open", "found")
  /\ Only(world)

\* The items, the run's completion and its event commit together.
Complete(r) ==
  /\ run[r].at = "found"
  /\ items' = items \cup run[r].found
  /\ Goes(r, "completed")
  /\ UNCHANGED <<world, scheduled, troubles>>

\* An admin resolves an open item, once.
Resolve ==
  /\ \E i \in items :
       i.status = "open" /\ items' = (items \ {i}) \cup {[i EXCEPT !.status = "resolved"]}
  /\ UNCHANGED <<world, scheduled, run, troubles>>

ReconciliationNext ==
  \/ ProviderMoves
  \/ Webhook
  \/ OursMoves
  \/ Resolve
  \/ \E r \in Runs :
       \/ CreateRun(r)
       \/ Trouble(r)
       \/ Reexecute(r)
       \/ ListPayments(r)
       \/ ListPayouts(r)
       \/ ComparePayment(r)
       \/ SettleLate(r)
       \/ Reread(r)
       \/ VerifyUnlisted(r)
       \/ FindUnlisted(r)
       \/ CompareAbsent(r)
       \/ Resend(r)
       \/ ComparePayout(r)
       \/ SyncLate(r)
       \/ AfterSync(r)
       \/ Complete(r)

ReconciliationSpec == ReconciliationInit /\ [][ReconciliationNext]_reconciliationVars

-----------------------------------------------------------------------------

\* A completed run whose list showed a charge as collected leaves it credited
\* or reported, whatever the settlement and the webhooks did meanwhile.
CollectedIsAccountedFor ==
  \A r \in Runs :
    subject = "payment" /\ run[r].at = "completed" /\ run[r].record \in COLLECTED =>
      ours \in CREDITED \/ \E i \in items : i.run = r

\* A payout we failed, returning its money, and that the provider nevertheless
\* paid, is reported by every completed run that saw it paid.
PaidTwiceIsReported ==
  \A r \in Runs :
    subject = "payout" /\ run[r].at = "completed" /\ run[r].record = "successful" /\ ours = "failed" =>
      \E i \in items : i.run = r

\* What a run reports as settled late and resolved by itself is settled.
AutoResolvedIsSettled ==
  \A i \in items : i.status = "auto_resolved" =>
    IF subject = "payment" THEN ours \in CREDITED ELSE ours # "processing"

\* However many instances start the daily job, a period is reported once.
ScheduledReportsOnce == Cardinality({i.run : i \in items} \cap DailyJobs) <= 1

\* A completed run misses nothing that went wrong, settles nothing that is open, and is
\* not repeated by another instance.
ReconciliationIsComplete ==
  CollectedIsAccountedFor /\ PaidTwiceIsReported /\ AutoResolvedIsSettled /\ ScheduledReportsOnce
=============================================================================
