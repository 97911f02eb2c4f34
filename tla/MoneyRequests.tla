------------------------------ MODULE MoneyRequests ------------------------------
(***************************************************************************)
(* One owner's requests to move money: POST /transfers or POST /payouts.   *)
(* Each call claims its Idempotency-Key, looks for the key's transaction,  *)
(* reads the limit rule, takes the owner's limit lock, and commits the     *)
(* transaction with its posting; then it completes or frees the key.       *)
(* Calls interleave at every statement, may stop for good at any of them,  *)
(* and keys age meanwhile.                                                 *)
(***************************************************************************)
EXTENDS Integers, Sequences, FiniteSetsExt, Sums

CONSTANTS
  Calls,         \* HTTP calls; the retry of a call is another one
  KeyNames,      \* Idempotency-Keys
  Bodies,        \* what the calls may send: functions from calls to keys and amounts
  Deposit,       \* what the wallet holds at the start
  Rules,         \* limit rules that staff may set
  MaxRows,       \* bound on the idempotency rows created
  MaxRuleChanges,
  MaxFailures    \* bound on crashes and database failures

\* A cap of a rule; -1 where the rule has none.
Caps == Nat \union {-1}

ASSUME MoneyRequestsAssumption ==
  /\ Deposit \in Nat /\ MaxRows \in Nat /\ MaxRuleChanges \in Nat /\ MaxFailures \in Nat
  /\ Bodies \subseteq [Calls -> [key : KeyNames, amount : Nat \ {0}]]
  /\ Rules \subseteq [perTransaction : Caps, dailyAmount : Caps, dailyCount : Caps, monthlyAmount : Caps]

VARIABLES
  service,      \* "transfer" (of a user) or "payout" (of an organization)
  body,         \* what each call sends
  keyRow,       \* idempotency_keys
  rowIds,       \* rows created so far
  call,         \* where each call is
  transactions, \* the owner's transactions, in order of commit
  available,    \* the balance of the wallet
  rules,        \* the active rules: the organization's own, and the default
  ruleChanges,
  destination,  \* of the payouts
  failures

moneyVars == <<service, body, keyRow, rowIds, call, transactions, available, rules, ruleChanges, destination, failures>>

-----------------------------------------------------------------------------
(* State *)

NoRow == [id |-> 0]
NoRule == [perTransaction |-> -1, dailyAmount |-> -1, dailyCount |-> -1, monthlyAmount |-> -1]
CallIdle == [at |-> "idle"]
Answered(status, tx) == [at |-> "done", status |-> status, tx |-> tx]

MoneyInit ==
  /\ service \in {"transfer", "payout"}
  /\ body \in Bodies
  /\ keyRow = [k \in KeyNames |-> NoRow]
  /\ rowIds = 0
  /\ call = [c \in Calls |-> CallIdle]
  /\ transactions = << >>
  /\ available = Deposit
  /\ rules \in [own : {NoRule}, default : Rules]
  /\ ruleChanges = 0
  /\ destination = "none"
  /\ failures = 0

Goto(c, next) == call' = [call EXCEPT ![c] = next]
Row(c) == keyRow[body[c].key]
OfKey(k) == {i \in DOMAIN transactions : transactions[i].key = k}

\* The call holds the row's id: its statements name it, whoever has the key now.
Owns(c) == Row(c).id = call[c].row /\ Row(c) # NoRow

-----------------------------------------------------------------------------
(* IdempotencyService.begin: up to two attempts. *)

NextAttempt(c) == IF call[c].attempt = 1 THEN [at |-> "begin", attempt |-> 2] ELSE Answered("in-progress", 0)

TryInsert(c) ==
  /\ call[c] = CallIdle \/ call[c].at = "begin"
  /\ LET attempt == IF call[c] = CallIdle THEN 1 ELSE call[c].attempt IN
       IF Row(c) = NoRow
       THEN /\ rowIds < MaxRows
            /\ rowIds' = rowIds + 1
            /\ keyRow' = [keyRow EXCEPT ![body[c].key] =
                 [id |-> rowIds + 1, amount |-> body[c].amount, status |-> "processing",
                  stale |-> FALSE, expired |-> FALSE, answer |-> 0]]
            /\ Goto(c, [at |-> "find", row |-> rowIds + 1])
       ELSE /\ Goto(c, [at |-> "look", attempt |-> attempt])
            /\ UNCHANGED <<keyRow, rowIds>>
  /\ UNCHANGED <<service, body, transactions, available, rules, ruleChanges, destination, failures>>

\* findOneBy, and what begin decides from what it finds.
Look(c) ==
  /\ call[c].at = "look"
  /\ Goto(c, CASE Row(c) = NoRow -> NextAttempt(c)
               [] Row(c) # NoRow /\ Row(c).expired -> [at |-> "drop", attempt |-> call[c].attempt, row |-> Row(c).id]
               [] Row(c) # NoRow /\ ~Row(c).expired /\ Row(c).amount # body[c].amount -> Answered("reused", 0)
               [] Row(c) # NoRow /\ ~Row(c).expired /\ Row(c).amount = body[c].amount /\ Row(c).status = "completed"
                    -> Answered("ok", Row(c).answer)
               [] OTHER -> [at |-> "takeOver", row |-> Row(c).id])
  /\ UNCHANGED <<service, body, keyRow, rowIds, transactions, available, rules, ruleChanges, destination, failures>>

DropExpired(c) ==
  /\ call[c].at = "drop"
  /\ keyRow' = IF Owns(c) THEN [keyRow EXCEPT ![body[c].key] = NoRow] ELSE keyRow
  /\ Goto(c, NextAttempt(c))
  /\ UNCHANGED <<service, body, rowIds, transactions, available, rules, ruleChanges, destination, failures>>

TakeOverStale(c) ==
  /\ call[c].at = "takeOver"
  /\ IF Owns(c) /\ Row(c).status = "processing" /\ Row(c).stale
     THEN /\ keyRow' = [keyRow EXCEPT ![body[c].key].stale = FALSE]
          /\ Goto(c, [at |-> "find", row |-> call[c].row])
     ELSE /\ Goto(c, Answered("in-progress", 0))
          /\ UNCHANGED keyRow
  /\ UNCHANGED <<service, body, rowIds, transactions, available, rules, ruleChanges, destination, failures>>

-----------------------------------------------------------------------------
(* TransfersService.transfer and PayoutsService.request *)

Refuse(c) == [at |-> "release", row |-> call[c].row, status |-> "refused"]
Succeed(c, tx) == [at |-> "complete", row |-> call[c].row, tx |-> tx]

\* findByIdempotencyKey, before the handler and after a unique violation.
FindExisting(c) ==
  /\ call[c].at = "find"
  /\ Goto(c, IF OfKey(body[c].key) # {} THEN Succeed(c, Min(OfKey(body[c].key)))
             ELSE [at |-> IF service = "payout" THEN "destination" ELSE "rule", row |-> call[c].row])
  /\ UNCHANGED <<service, body, keyRow, rowIds, transactions, available, rules, ruleChanges, destination, failures>>

\* getActive, and the end of the cooling-off period.
CheckDestination(c) ==
  /\ call[c].at = "destination"
  /\ Goto(c, IF destination = "ready" THEN [call[c] EXCEPT !.at = "rule"] ELSE Refuse(c))
  /\ UNCHANGED <<service, body, keyRow, rowIds, transactions, available, rules, ruleChanges, destination, failures>>

\* activeRule: read on a connection of its own.  Only organizations have own rules.
ActiveRule == IF service = "payout" /\ rules.own # NoRule THEN rules.own ELSE rules.default

Within(value, cap) == cap = -1 \/ value <= cap

\* What a call still has to pass under a rule.
ReadRule(c) ==
  /\ call[c].at = "rule"
  /\ LET rule == ActiveRule IN
       Goto(c, IF ~Within(body[c].amount, rule.perTransaction) THEN Refuse(c)
               ELSE [at |-> IF rule.dailyAmount = -1 /\ rule.dailyCount = -1 /\ rule.monthlyAmount = -1
                            THEN "commit" ELSE "lock",
                     row |-> call[c].row, rule |-> rule, locked |-> FALSE])
  /\ UNCHANGED <<service, body, keyRow, rowIds, transactions, available, rules, ruleChanges, destination, failures>>

\* Failed transactions do not count.
Used(txs, windows) == {i \in DOMAIN txs : txs[i].window \in windows /\ txs[i].status # "failed"}
AmountOf(txs, ids) == SumOver([i \in DOMAIN txs |-> txs[i].amount], ids)
Daily == {"day"}
Monthly == {"day", "month"}

\* Whether a transaction of this amount fits in what a rule leaves.
Fits(rule, amount) ==
  /\ Within(Cardinality(Used(transactions, Daily)) + 1, rule.dailyCount)
  /\ Within(AmountOf(transactions, Used(transactions, Daily)) + amount, rule.dailyAmount)
  /\ Within(AmountOf(transactions, Used(transactions, Monthly)) + amount, rule.monthlyAmount)

LockFree(c) == \A d \in Calls \ {c} : ~(call[d].at = "commit" /\ call[d].locked)

LockAndCheck_Unlocked(c) ==
  /\ call[c].at = "lock"
  /\ Goto(c, IF Fits(call[c].rule, body[c].amount) THEN [call[c] EXCEPT !.at = "commit"] ELSE Refuse(c))
  /\ UNCHANGED <<service, body, keyRow, rowIds, transactions, available, rules, ruleChanges, destination, failures>>

\* pg_advisory_xact_lock, then the usage; the lock is kept until the transaction ends.
LockAndCheck(c) ==
  /\ call[c].at = "lock"
  /\ LockFree(c)
  /\ Goto(c, IF Fits(call[c].rule, body[c].amount)
             THEN [call[c] EXCEPT !.at = "commit", !.locked = TRUE] ELSE Refuse(c))
  /\ UNCHANGED <<service, body, keyRow, rowIds, transactions, available, rules, ruleChanges, destination, failures>>

UniqueKey_None(k) == TRUE

\* The unique index on (owner, idempotency key).
UniqueKey(k) == OfKey(k) = {}

\* The row, its posting and its status, in one transaction.
Commit(c) ==
  /\ call[c].at = "commit"
  /\ IF ~UniqueKey(body[c].key)
     THEN /\ Goto(c, [at |-> "find", row |-> call[c].row])
          /\ UNCHANGED <<transactions, available>>
     ELSE IF available < body[c].amount
     THEN /\ Goto(c, Refuse(c))
          /\ UNCHANGED <<transactions, available>>
     ELSE /\ transactions' = Append(transactions,
               [key |-> body[c].key, amount |-> body[c].amount, rule |-> call[c].rule, window |-> "day",
                status |-> IF service = "payout" THEN "processing" ELSE "successful"])
          /\ available' = available - body[c].amount
          /\ Goto(c, Succeed(c, Len(transactions) + 1))
  /\ UNCHANGED <<service, body, keyRow, rowIds, rules, ruleChanges, destination, failures>>

-----------------------------------------------------------------------------
(* The end of the interceptor *)

\* A row that has gone, or was completed by a successor, is left as it is.
Complete(c) ==
  /\ call[c].at = "complete"
  /\ keyRow' = IF Owns(c) /\ Row(c).status = "processing"
               THEN [keyRow EXCEPT ![body[c].key].status = "completed", ![body[c].key].answer = call[c].tx]
               ELSE keyRow
  /\ Goto(c, Answered("ok", call[c].tx))
  /\ UNCHANGED <<service, body, rowIds, transactions, available, rules, ruleChanges, destination, failures>>

Release_Completed(c) ==
  /\ call[c].at = "release"
  /\ keyRow' = IF Owns(c) THEN [keyRow EXCEPT ![body[c].key] = NoRow] ELSE keyRow
  /\ Goto(c, Answered(call[c].status, 0))
  /\ UNCHANGED <<service, body, rowIds, transactions, available, rules, ruleChanges, destination, failures>>

Release(c) ==
  /\ call[c].at = "release"
  /\ keyRow' = IF Owns(c) /\ Row(c).status = "processing" THEN [keyRow EXCEPT ![body[c].key] = NoRow] ELSE keyRow
  /\ Goto(c, Answered(call[c].status, 0))
  /\ UNCHANGED <<service, body, rowIds, transactions, available, rules, ruleChanges, destination, failures>>

InHandler(c) == call[c].at \in {"find", "destination", "rule", "lock", "commit", "complete"}

\* A statement fails: of the handler, of submit after a payout's commit, or of complete
\* itself.  The interceptor frees the key and passes the error on.
HandlerFails(c) ==
  /\ InHandler(c) /\ failures < MaxFailures
  /\ failures' = failures + 1
  /\ Goto(c, [at |-> "release", row |-> call[c].row, status |-> "error"])
  /\ UNCHANGED <<service, body, keyRow, rowIds, transactions, available, rules, ruleChanges, destination>>

\* The server stops: its transaction is rolled back, its key stays.
Dies(c) ==
  /\ InHandler(c) \/ call[c].at = "release"
  /\ failures < MaxFailures
  /\ failures' = failures + 1
  /\ Goto(c, Answered("lost", 0))
  /\ UNCHANGED <<service, body, keyRow, rowIds, transactions, available, rules, ruleChanges, destination>>

-----------------------------------------------------------------------------
(* Time, and everyone else *)

LockTimesOut(k) ==
  /\ keyRow[k] # NoRow /\ keyRow[k].status = "processing" /\ ~keyRow[k].stale
  /\ keyRow' = [keyRow EXCEPT ![k].stale = TRUE]
  /\ UNCHANGED <<service, body, rowIds, call, transactions, available, rules, ruleChanges, destination, failures>>

KeyExpires(k) ==
  /\ keyRow[k] # NoRow /\ ~keyRow[k].expired
  /\ keyRow[k].stale \/ keyRow[k].status = "completed"
  /\ keyRow' = [keyRow EXCEPT ![k].expired = TRUE]
  /\ UNCHANGED <<service, body, rowIds, call, transactions, available, rules, ruleChanges, destination, failures>>

\* The hourly clean-up.
DeleteExpired(k) ==
  /\ keyRow[k] # NoRow /\ keyRow[k].expired
  /\ keyRow' = [keyRow EXCEPT ![k] = NoRow]
  /\ UNCHANGED <<service, body, rowIds, call, transactions, available, rules, ruleChanges, destination, failures>>

\* A day, and then a month, has passed since the oldest transactions.
LeavesWindow(i) ==
  /\ transactions[i].window # "past"
  /\ \A j \in 1..i-1 : transactions[j].window \notin {"day", transactions[i].window}
  /\ transactions' = [transactions EXCEPT ![i].window = IF @ = "day" THEN "month" ELSE "past"]
  /\ UNCHANGED <<service, body, keyRow, rowIds, call, available, rules, ruleChanges, destination, failures>>

Settle_NotReturned(i, status) ==
  /\ service = "payout" /\ transactions[i].status = "processing"
  /\ transactions' = [transactions EXCEPT ![i].status = status]
  /\ UNCHANGED <<service, body, keyRow, rowIds, call, available, rules, ruleChanges, destination, failures>>

\* PayoutsService settles the payout: a failed one returns the money.
Settle(i, status) ==
  /\ service = "payout" /\ transactions[i].status = "processing"
  /\ transactions' = [transactions EXCEPT ![i].status = status]
  /\ available' = IF status = "failed" THEN available + transactions[i].amount ELSE available
  /\ UNCHANGED <<service, body, keyRow, rowIds, call, rules, ruleChanges, destination, failures>>

\* LimitsService.setRule supersedes the active rule of its scope; retire leaves none.
SetRule(scope, rule) ==
  /\ ruleChanges < MaxRuleChanges
  /\ rules[scope] # rule /\ (rule = NoRule => rules[scope] # NoRule)
  /\ scope = "own" => service = "payout"
  /\ rules' = [rules EXCEPT ![scope] = rule]
  /\ ruleChanges' = ruleChanges + 1
  /\ UNCHANGED <<service, body, keyRow, rowIds, call, transactions, available, destination, failures>>

\* PayoutDestinationsService: add, the end of the cooling-off period, remove.
AddDestination ==
  /\ service = "payout" /\ destination = "none"
  /\ destination' = "cooling"
  /\ UNCHANGED <<service, body, keyRow, rowIds, call, transactions, available, rules, ruleChanges, failures>>

CooldownEnds ==
  /\ destination = "cooling"
  /\ destination' = "ready"
  /\ UNCHANGED <<service, body, keyRow, rowIds, call, transactions, available, rules, ruleChanges, failures>>

RemoveDestination ==
  /\ destination \in {"cooling", "ready"}
  /\ destination' = "removed"
  /\ UNCHANGED <<service, body, keyRow, rowIds, call, transactions, available, rules, ruleChanges, failures>>

CallStep(c) ==
  \/ TryInsert(c) \/ Look(c) \/ DropExpired(c) \/ TakeOverStale(c)
  \/ FindExisting(c) \/ CheckDestination(c) \/ ReadRule(c) \/ LockAndCheck(c) \/ Commit(c)
  \/ Complete(c) \/ Release(c)

MoneyNext ==
  \/ \E c \in Calls : CallStep(c) \/ HandlerFails(c) \/ Dies(c)
  \/ \E k \in KeyNames : LockTimesOut(k) \/ KeyExpires(k) \/ DeleteExpired(k)
  \/ \E i \in DOMAIN transactions : LeavesWindow(i) \/ \E status \in {"successful", "failed"} : Settle(i, status)
  \/ \E scope \in {"own", "default"}, rule \in Rules \union {NoRule} : SetRule(scope, rule)
  \/ AddDestination \/ CooldownEnds \/ RemoveDestination

MoneySpec == MoneyInit /\ [][MoneyNext]_moneyVars

-----------------------------------------------------------------------------
(* Properties *)

\* Rows, transactions and the balance are well formed; the balance is what the
\* transactions that did not fail leave of the deposit.
MoneyTypeOK ==
  /\ \A k \in KeyNames : keyRow[k] = NoRow \/
       /\ keyRow[k].id \in 1..rowIds /\ keyRow[k].status \in {"processing", "completed"}
       /\ keyRow[k].answer \in (IF keyRow[k].status = "completed" THEN DOMAIN transactions ELSE {0})
  /\ available \in Nat
  /\ available = Deposit - AmountOf(transactions, Used(transactions, {"day", "month", "past"}))

\* Calls with one key that are told they succeeded are told of the same transaction,
\* across takeovers of a stale key, its release and its expiry.
RetriesAgree ==
  \A c, d \in Calls :
    /\ call[c].at = "done" /\ call[d].at = "done"
    /\ call[c].status = "ok" /\ call[d].status = "ok"
    /\ body[c].key = body[d].key
    => call[c].tx = call[d].tx

\* What was let through under one rule stays within it, however the calls race and
\* the rule changes (the advisory lock of assertWithinLimitsWithin).
LimitsHold ==
  \A rule \in Rules :
    LET under(windows) == {i \in Used(transactions, windows) : transactions[i].rule = rule} IN
      /\ \A i \in DOMAIN transactions : transactions[i].rule = rule => Within(transactions[i].amount, rule.perTransaction)
      /\ Within(Cardinality(under(Daily)), rule.dailyCount)
      /\ Within(AmountOf(transactions, under(Daily)), rule.dailyAmount)
      /\ Within(AmountOf(transactions, under(Monthly)), rule.monthlyAmount)

AnswerStays ==
  \A k \in KeyNames :
    (keyRow[k] # NoRow /\ keyRow[k].status = "completed" /\ ~keyRow[k].expired) =>
       keyRow'[k] # NoRow /\ keyRow'[k].id = keyRow[k].id /\ keyRow'[k].answer = keyRow[k].answer

\* A stored response is kept until it expires: a call that was taken over and finishes
\* late neither frees nor overwrites it (the status conditions of complete and release).
AnswersAreKept == [][AnswerStays]_moneyVars

\* Money requests: retries of a request move its money once and hear the same of it, and
\* the requests of a wallet together stay within the limits, however they race.
RequestsAreHonoured == MoneyTypeOK /\ RetriesAgree /\ LimitsHold
=================================================================================
