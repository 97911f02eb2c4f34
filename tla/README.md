# TLA+ verification of FinStack

FinStack moves other people's money: wallets over a double-entry ledger, card
payments in, refunds and payouts out through payment providers, with PostgreSQL
as the only arbiter between concurrent requests, webhooks and workers. This
directory holds models of it, checked with TLC on small instances, and proofs
checked with TLAPS for instances of any size. `PROJECT.json` maps every definition
to the lines it models and lists runs, mutants, hazards, findings and theorems.

Run a model with `tlc -config MCLedger_postings.cfg MCLedger`, check a proof with
`tlapm LedgerProofs.tla`.

## The system

| Part | State | Operations | Talks to | Module |
|---|---|---|---|---|
| Ledger (`ledger/`) | accounts with cached balances, immutable transactions and entries | post, post within a caller's transaction, reverse, replay | everything that moves money calls it | Ledger |
| Wallets (`wallets/`) | wallet rows, three ledger accounts each (available, pending, reserved) | open, make primary, freeze, deposit, transfer, reserve, release, make available | ledger | Wallets |
| Payments (`payments/`) | payment row: quote, fee, `pending_amount`, `funds_available_at` | initialise, settle, release the settlement hold | providers, wallets, FX, outbox | PaymentIntake, PaymentHolds |
| Refunds (`refunds/`) | refund row: amounts, `submitted_at`, provider reference | request with hold, submit, complete, fail, retry, sweep, webhook | providers, wallets, payments | PaymentHolds, RefundSubmission, PartialRefunds |
| Payouts (`payouts/`) | payout row: amount, fee, `submitted_at`; saved destinations | request with hold, submit, complete, fail, reverse, sweep | providers, wallets, proposals | MoneyRequests, PayoutSubmission |
| Proposals (`proposals/`) | proposals | propose, approve, reject, expire | payouts | Proposals |
| FX (`fx/`) | rate history, single-use quotes | set a rate, quote, convert (one ledger leg per currency) | ledger | FxQuotes, Ledger |
| Fees, limits | rules per scope | set, retire, quote; check usage | payments, payouts, transfers | Fees, MoneyRequests |
| Idempotency keys | keys with a stored answer | begin, take over, complete, release, expire | HTTP interceptor | MoneyRequests |
| Providers (`payment-providers/`) | remote records | charge, refund, pay out, look up, list; webhooks | external | ProviderRecords, Providers, ProviderChoice |
| Inbound webhooks (`webhooks/`) | stored events | receive, process, replay | queue, payments, refunds, payouts | PaymentIntake |
| Outbox, domain events, notifications | outbox rows, jobs, e-mail rows | add, relay, fan out, e-mail | queues | Outbox, DomainEvents |
| Outbound webhooks | endpoints, secrets, deliveries | deliver, redeliver, test, disable, rotate the secret | receivers | DomainEvents, Deliveries, Endpoints |
| Auth, users, admin | refresh tokens, status, platform roles | log in, rotate, detect reuse, revoke; suspend, change role | | Accounts |
| Organizations, API keys | memberships, keys, status | add, change, remove, transfer ownership; create and revoke keys | | Organizations |
| Reconciliation | runs and items | list, compare, settle late, re-check, resolve | providers, payments, payouts | Reconciliation |
| Maintenance worker | schedules | sweeps and clean-ups | all of the above | (actions and fairness of the others) |

What is hard here: database transactions that interleave between statements
(row locks, unique indexes, READ COMMITTED reads), provider calls outside any
transaction whose answers are lost or late, the same operation driven by a
request, a webhook and a sweep at once, jobs that run twice or half, rows that were
read before a lock, balances kept in two places, and rounding.

What makes each part correct: the ledger never overdraws, posts each reference
once, reverses each transaction once and balances; holds equal the rows that
explain them; a payment is never over-refunded and money on hold does not become
spendable early; what is sent to a provider is sent once, what the provider decides
is booked, and money is given back only if it did not leave; a retry hears what the
first call heard; limits hold for calls that race; a session has one working token,
an organization one owner, the platform an admin; what a completed reconciliation
saw is accounted for; what a receiver or an addressee is owed is queued or reported.

## The modules

**Ledger** (`ledger.service.ts` and its triggers). A caller runs a *program*: one
posting (`post`, `reverse`) or several in one database transaction (`postWithin`,
as `FxService.convertWithin` does). Its steps are the statements that can block or
see others: `Check` (validation, the lookup of the reference, `assertNotReversed`,
whether the accounts exist), `LockAccount` (one row lock after another, in id
order), `Insert` (funds and currency checks on the locked rows, the unique
indexes, the balance trigger), `Commit`, `Replay` (who lost the race for its
reference), `Abort` (a lost connection). Uncommitted entries and balance changes are
`written` and `delta`; `acked` records what callers were told.

**ConversionReversal, PartialRefunds** (`refund-math.ts`). The arithmetic as
operators, and any sequence of partial refunds of one quote.

**PaymentHolds** (`payment-settlement.service.ts`, `settlement-release.service.ts`,
`refunds.service.ts`). One wallet, its payments and their refunds. Transactions that
only act under locks are one step; `createWithHold` is two (it reads the other
refunds' sum, then takes the hold), `complete` is three (it locks by posting,
counts, commits), because what they read in between can change. `Sums` gives SQL's
`SUM` as a cardinality, so that sums can be reasoned about without recursion.

**MoneyOut** is the abstract specification of sending money out once: an order at
the provider and a hold in the books. **RefundSubmission** and **PayoutSubmission**
are the two submission protocols (`submit`, `claimSubmission`, the sweeps, the
webhooks), with a provider that answers, answers late, refuses or stays silent, and
workers that die; each is shown to implement `MoneyOut`. `submitted_at` is abstracted
to never, recent, settled (the request has arrived or never will) and old (five
minutes have passed). A worker between loading a row and claiming it is assumed to
move within the five minutes, except a *batch worker*, which stands for a place in
`syncStale`'s loop: there a row may wait behind 49 others. A payout that is refused when it
is sent again stays processing on purpose (ADR 0018: the first request may have gone
through), and only what the provider decides about an order it has is booked.

**Outbox** (`outbox/`, BullMQ) has rows, relays with their open transactions, and jobs. A
relay claims pending rows that no other has locked, adds one job after the other and
commits; Redis may refuse a job and the relay may die in between. BullMQ is external: it
knows a job by its id until the job is removed, retries what throws up to a limit and
hands out a stalled job once more. **PaymentIntake** extends it: requests that initialise
one payment under one idempotency key, the provider, webhooks (`receive`, `process`,
`replay` and the worker) and `PaymentSettlementService.settle`, called by workers and by
the verify endpoint. A step is what happens between two database transactions or calls:
reading the event and looking up the payment, asking the provider, settling, marking the
event. A charge that counted as failed may be paid late (Paystack's `abandoned`), and what
was collected may be reversed; an answer that was read before stays what it was, so
`settle` may act on one that is out of date. An event that counts as processed although
the provider refused to verify (`outcome` ignored) has the status *refused* in the model.

**DomainEvents** (the domain-event processor, `fanOut`, `notification-rules.ts`,
`notifications.service.ts`). The job of one event runs the webhook fan-out and the
e-mails side by side; when one throws, the job is tried again while the other goes on,
so attempts overlap. Recipients follow the rules per event type; the mail is sent
between two statements on its row.

**Proposals** (`proposals.service.ts`). An approval locks the proposal and the payout
commits in a transaction of its own, each on a connection of the pool; the approval
may be cut short in between, and the next one finds the payout by its key.

**Accounts** (`auth/`, `refresh-token.service.ts`, `admin.service.ts`, `users/`). Sessions
are families of refresh tokens. A rotation is two steps (lock, commit), and the UPDATE
that revokes a family takes the rows of its snapshot and waits for the locked ones.
Staff loads a user, then applies the change under the advisory lock of
`assertNotLastAdmin`. **Organizations** (`organizations/`, `api-keys/`): the access
guard reads the membership and the organization, the handler may load a member, its
transaction comes later; `held` records what was true while the request ran.

**MoneyRequests** (`idempotency/`, `limits/`, transfers and payout requests). A call claims
its key, looks for its transaction, reads the rule, takes the owner's lock, posts, and
completes or frees the key; keys go stale, are taken over, and expire; staff changes
rules; a payout's destination cools down.

**Wallets** (`wallets.service.ts`), **Fees** (`fees/`) and **FxQuotes** (`fx/`) have the
operations of those services, split where a statement reads what a later one uses.
Their arithmetic (fee schedules, rates, spreads, minor units, the rounding of both
directions) is integer arithmetic as in the code, with small scales for 10^n and
10 000.

**ProviderRecords** turns the native statuses, event names and ids and list pages of
the five adapters into FinStack's vocabulary; how a provider's records change is
external. **Providers** puts a caller in front of one adapter: every request may end in
each response `JsonHttpClient` tells apart, with the provider having acted or not. One is
a success, or a 429, whose body is not JSON: the client's error for it is not retryable,
so services take it for a rejection; the model keeps it apart (*unreadable*).
**ProviderChoice** has the payments configuration a process starts with and the routing.
**Reconciliation** has runs that list and compare while payments and payouts go on; the
provider's answer and our row are read in two steps, and BullMQ executes the stalled job
of an admin's run again.
**Deliveries** has one endpoint, the deliveries of an event and of a test, their jobs and
redeliveries; **Endpoints** the secrets and the address of an endpoint, whose rotations
read outside their transaction and may overlap.

**Composition.** PaymentIntake composes Outbox with payments, webhooks and settlement;
PaymentHolds composes settlement, holds and refunds on one wallet; MoneyRequests
composes keys, limits and postings; Proposals the decision, the payout and the pool.
`MCSubmissions`, `MCAsync`, `MCApi` and `MCIntegrations` put several modules under one
run: a variable (`kind`, `part`) says which of them a behaviour is about, and the others,
which share no state with it, stay in one initial state.

**Proof modules**: `SumsProofs` (lemmas), `LedgerProofs`, `PaymentHoldsProofs`,
`SubmissionProofs`, `PaymentIntakeProofs`, `AsyncProofs` (the rest of `MCAsync`),
`ApiProofs` (`MCApi`) and `IntegrationsProofs` (`MCIntegrations`).

## The runs

Bounds are in the `.cfg` files and, for functions, in the MC modules. A property that
joins several (`BooksBalance`, `SessionsAreSafe`, ...) is a conjunction of named parts,
each with its own comment and its own mutant: a plausible bug in one mapped definition
that TLC must find under the same configuration.

| Run | Instance | Shows |
|---|---|---|
| `ledger_postings` | 3 callers, one wallet: deposit, hold, withdrawal, reversals under two references | `NoOverdraft`, `OnePostingPerReference`, `ReversedAtMostOnce`, `NoWaitCycle` |
| `ledger_retries` | 2 callers, same reference with other and unbalanced content, two-leg conversions one way, fair | `AcknowledgedIsPosted`; `BooksBalance` (cached balances, trial balance, atomic legs); `CallsReturn` |
| `payment_holds` | 2 payments of 2 (one held and converted, one with a fee), 3 refunds, fair | `HoldsAreExplained` (columns equal accounts), `NeverOverRefunded`, `FullyRefundedIsReversed`, `HoldIsKept`, `SettledOnce`, `DueIsReleased` |
| `submissions` | a refund or a payout, 2 workers, at most 2 records at the provider, fair | `MoneyLeavesOnce` (both implement MoneyOut), `OutcomesAreBooked` |
| `async_work` | intake: 2 requests (one may verify), one webhook with one replay, 2 attempts per job, one failure; events: 2 attempts, one failure; proposals: 2, two deciders, 5 connections, 2 outages; fair | `SettledAsCharged`, `PublishedIsQueued`, `MoneyArrives`; `EmailsGoOut`; `OutcomeMatchesPayout`, `DecisionsAreFinal` |
| `api_requests` | accounts: 2 users, 3 requests, 3 tokens; organization: 2 people, 2 requests, one key, 3 memberships; money: 2 calls, 2 keys, one failure; wallets: 3 of 2 owners; fees: 2 admins, a quote, 2 rules; FX: a 4:1 pair of minor units, 2 quotes, 2 converters; refunds: all quotes up to 6, all splits | `SessionsAreSafe`, `RemovalLeavesAnAdmin`; `AuthorityIsSound`, `OwnerLostOnlyToStaleRole`; `RequestsAreHonoured`, `AnswersAreKept`; `WalletsAreSound`, `FrozenSpendsNothing`; `FeesAreSound`; `QuotesAreSound`; `RefundsAddUp` |
| `integrations` | five adapters, a page of 2 and 2 refunds by others, 5 requests; all configurations of up to 2 providers; 2 daily jobs and an admin's run, one trouble; 2 deliveries, 2 attempts, one redelivery, one failure; 3 secrets | `RequestsMadeOnce`, `StatusesAreKept`; `RoutedCanBeServed`; `ReconciliationIsComplete`; `DeliveriesAreSound`; `EndpointsAreSound` |
| `ledger_conversions` (violation) | conversions in both directions | circular wait |
| `refund_batch` (violation) | one batch worker | a refund is sent twice |
| `unreadable_success` (violation) | as `integrations` | an error that is not retryable, although the provider did what it was asked |
| `unqueued_delivery` (violation) | as `async_work` | an event counts as handled and its delivery has no job |
| `session_survives` (violation) | as `api_requests` | a session outlives its revocation |

Why the bounds are enough: two callers suffice for each race between a check and
an insert, the third shows waiting chains; amounts of 2 let a refund be partial;
three refunds let one fail and two complete a payment; a second record at the
provider is the error itself. In the intake up to three parties settle at once
(the job, the replay's job and a verify call), and the one failure (of Redis, a relay,
a worker, the provider or the database) may strike at any step; two failures within
one event are beyond the bound. Three account requests are a rotation, its reuse
and a revocation, or two demotions and a refresh; one more refund by others than a
page holds cuts the list in which a refund is looked up; two rules make the second
supersede the first under a quote; three secrets let a receiver lag one behind. The
fee and FX scales (10 instead of 10 000, 2 instead of 10^n) keep every rounding case:
exact, below and above. Failures strike any call but two payouts under two keys, which
the calls of one key and the transfers already have (`TwoPayouts`).

Runs of the parts that end by themselves (each request is served once, each failure is
counted) disable the deadlock check: once all is served nothing is left to do. The
ledger and hold runs keep it.

Fairness: a request runs until it answers, and PostgreSQL queues those who wait for
a row, hence strong fairness for lock steps (Ledger) and for the release of due holds
(every minute by the maintenance worker). In the submission modules the sweep
re-loads what is processing every five minutes, time passes, and the provider does
not fail every single call (strong fairness of asking, sending and applying); no
fairness is assumed of the provider's decisions or of crashes. In PaymentIntake and
DomainEvents weak fairness of the polling relay, of the queue's workers and of the
provider's delivery of webhooks (it repeats them until they are acknowledged) is
enough, because the failures are counted; requests, customers and administrators may
stop anywhere. In Proposals a decider that has begun goes on, and the pool is assumed
to have more than two connections per concurrent decider (`PoolAssumption`): with fewer,
approvals that hold all of them wait for a connection that none gives back. `MCApi` and
`MCIntegrations` check safety only and assume no fairness.

## The proofs

Every safety property that a run checks is a theorem as well, for any values of the
constants that satisfy the named ASSUMEs of the modules (TLC evaluates those on every
run). Each proof has the same shape: an inductive invariant, one lemma per action that
the action keeps it, the initial states, and a last step that joins them. Where several
actions move the same record, a lemma about the move comes first. The runs of
`MCAsync`, `MCApi` and `MCIntegrations` put one part at a time in motion, so their
theorems (`AsyncIsSafe`, `ApiIsSound`, `ApiStepsAreSafe`, `IntegrationsAreSound`) follow
from those of the parts.

`SumsProofs` is about `SumOver` and `NetOver`, SQL's `SUM` as a cardinality: adding,
removing and changing a row, fewer rows, disjoint sets, two columns side by side, zero,
and sums by group.

`LedgerProofs`. Four invariants that build on each other:
- `IInv`: a caller's uncommitted changes touch only accounts it has locked and leave them
  covered on top of the committed balance; uncommitted postings of different callers have
  different keys. Hence no overdraft, one posting per reference, one reversal per
  transaction, and honest acknowledgements.
- `BooksInv`: a cached balance is the sum of the committed entries and an uncommitted
  change the sum of the caller's own; each posting has equal sides in its own currency.
- `AtomInv`: the legs of a program are committed together or not at all, and what a caller
  has written are legs of the program it is making. This needs `ReferencesAssumption`: the
  references of a program of several postings belong to that program alone, as those that
  `FxService.convertWithin` derives from the movement (`...:fx-source`, `...:fx-target`)
  do. Otherwise a leg may be found already posted by somebody else.
- `OrderInv`: a caller that makes one posting holds only accounts whose ids come before
  the one it waits for.

`LedgerBooksBalance` (`BooksBalance`) follows from the second and third.
`LedgerNoDeadlock` (`NoWaitCycle`) follows from the fourth for programs of one posting, which
is all that `LedgerService.post` makes: along a circle of waiting callers the ids would
have to grow for ever. For programs of two it is false (`ledger_conversions`).

`PaymentHoldsProofs` proves all safety properties of `PaymentHolds` for any number of
payments and refunds. The invariant says in addition that an open request has the
payment's row to itself and that what it read is still an upper bound; that only
one completion at a time holds the reserved account, so what it counted is still
true when it commits; and that a released payment's hold is over.

`SubmissionProofs` proves that submitting a refund or a payout implements `MoneyOut`
(`SubmissionsImplementMoneyOut`, the property `MoneyLeavesOnce`), step by step. `OnceInv`,
which both kinds share, ties the claim to time: at most one request is on its way, and
then the provider has nothing and `submitted_at` is recent; whoever is about to claim
has seen that the provider has nothing, or is a straggler that the window waits for.
`RefundInv` and `PayoutInv` say that what a worker has been told, and what is booked, is
still true of the order; for payouts also that the accounts are those of the status. The
hypothesis for refunds, no batch worker, is the one without which TLC finds the
refund sent twice (`refund_batch`); payouts need none, since each is loaded anew.

`PaymentIntakeProofs` proves types, `SettledAsCharged` and `PublishedIsQueued` for any
numbers of requests, webhooks, replays, relays, attempts and failures. The invariant
has two halves. About the payment: a checkout that is saved or about to be exists at
the provider, a rejection is final, and the charge only moves on (open, collected or
failed, paid late, reversed), so that what a caller of `settle` was told is of now or of
earlier: collected means collected, if perhaps reversed since, and failed means that it
counted as failed, if perhaps paid since.
About the queue: a busy worker's job is active and has an attempt left, and what a
relay will mark has its job.

`AsyncProofs`. Proposals: whoever has a row locked has it alone, and it is still to be
decided; what is about to be saved is what became of the payout; a payout that its
proposal does not show is about to be saved, or an approval was cut short. The
connections in use are counted per decider, so that one is left (`PoolAssumption`).
Domain events: the attempts of a job share the e-mail rows; each attempt sends an e-mail
at most once, one that marks a row has sent it, and so no more goes out than attempts
have passed the row. `EmailsGoOut` and `DecisionsAreFinal` also have a liveness half,
which stays with TLC; their safety halves are `SentOnceIsNotRepeated` and
`ProposalsDecidedOnce`.

`ApiProofs`, one invariant per part:
- Organizations: rows are numbered as they are created, so that an id names one
  membership; a request beyond a guard `held` what that guard asks for, and what it has
  loaded to change or remove was not the owner.
- Accounts: a session has one unrevoked token; a rotation between its two steps holds a
  token that works, alone; a barred request is past issuing, or its user is suspended.
- MoneyRequests: a stored answer is the transaction of its key; who holds the owner's lock
  has room under the rule it read; the balance is the deposit less the transactions.
- Wallets: clearing, revenue and the balances of all wallets add up; every owner of a
  wallet has one primary; a movement takes what can be spent only from wallets it holds,
  and found active.
- Fees: a scope has one active rule at most, and who is replacing it has read it; a quote
  that fell back on the default ran while the organization had no rule of its own.
- FX: a quote stands at the rate it read; a conversion past its lock holds a quote nobody
  has used, alone. Rates, spreads and both roundings follow from the defining
  inequalities of the quotient.
- Refunds (`refund-math.ts`): the reversals so far equal those of one refund of the total
  so far, for every quote and every split.

`IntegrationsProofs`. Endpoints: the previous secret is the one that the current one
replaced, unless the rotation was overtaken by another between its read and its store.
ProviderChoice: the routes of a configuration that is accepted can charge their currency.
Reconciliation: what a run has found agrees with what it read and with what is settled
since, and one daily job per period runs. Deliveries: each failure is counted by the job
that reached its last attempt (`CountedOnce`), a pending delivery has a sender, a success
was received. Providers: our refund carries our reference where the provider keeps one, is
sent once, and is absent if the provider rejected it; a final status moves only as
`StatusesAreKept` allows. None of this has an assumption beyond the sorts of the
constants.

Only model-checked: liveness (`CallsReturn`, `DueIsReleased`, `OutcomesAreBooked`,
`MoneyArrives`, `EventIsHandled`, `DecisionsEnd`), which is out of the prover's reach, and
the five runs that expect a violation.

## Findings

1. Conversions in opposite directions can deadlock (`ledger_conversions`).
2. The refund sweep can send a refund twice if its batch takes longer than the
   in-flight window (`refund_batch`).
3. A success whose body is not JSON (a proxy's page, a body that ends early) is an error
   that is not retryable (`json-http-client.ts:67`, as its spec expects). Refunds and
   payouts take it for a definite rejection and give the money back, although the
   provider has acted (`unreadable_success`).
4. A fan-out that fails between inserting a delivery and enqueuing it is tried again,
   finds the row and enqueues nothing (`unqueued_delivery`).
5. A rotation that commits while its session is being revoked leaves a working token
   (`session_survives`).

Smaller gaps that the models show and that the properties leave out, in so many words:

- after a *failed* refund the reversals of a converted payment need not add up to its
  credit, because `refundedBefore` counts what is processing (`refund-math.ts:51`;
  `PartialRefunds` has refunds that succeed);
- a webhook whose last attempt cannot record its error stays received: no job is left
  and replay refuses it (`webhooks.service.ts:257`; `GivenUp` in `MoneyArrives`);
- whether a change removes an admin is decided on a row read before the lock, so a
  request that loaded a user before its promotion can still demote the last admin
  (`RemovalLeavesAnAdmin` is about changes decided on an active admin's row); a role
  change that loaded a member before it became the owner demotes the owner
  (`OwnerLostOnlyToStaleRole`);
- a key that has expired and is used again with another body is a new request
  (`AnswersAreKept` is about keys that have not);
- a fan-out's row without a job stays pending until someone redelivers
  (`PendingIsQueued` is about behaviours without a failure of the system's own);
- a charge that is paid after its payment has failed is not credited: `settle` logs it and
  leaves it to reconciliation (`payment-settlement.service.ts:122-127`; ADR 0012), so
  `PaidIsCredited` excepts what is paid late, and `SettledAsCharged` lets a failed
  payment's charge be paid late;
- `RejectedIsNotMade` is about what the provider refuses; with the unreadable successes of
  finding 3 it is `NonRetryableIsNotMade`, which fails. A 429 with such a body is not
  retryable either, so that a request turned away for its rate counts as rejected;
- a Stripe session whose asynchronous payment fails stays pending in the adapter's eyes;
  the mock's final statuses may be changed by its tester (`StatusesAreKept` excepts it);
  `verifyPayment` takes a Paystack success back while a reversal is pending, and a failure
  when an abandoned charge is paid (both named in `PaymentSticks`);
- a payout that is refused when it is sent again stays processing, on purpose (ADR 0018):
  `OutcomesAreBooked` is about orders that the provider has;
- two overlapping `rotateSecret` calls both keep the secret they read as the previous one,
  so that the new secret of the one that stores first stops signing, without a grace
  period, when the other stores (`overtaken` in `SwitchLosesNothing`); a second rotation
  within the grace period cuts the first one's short;
- a reconciliation run compares with the list it read: what changes at the provider
  afterwards is for the next run (`CollectedIsAccountedFor` is about the listed record).

## Not modelled

The sandbox endpoints, audit rows, HTTP and rate limits, other configuration, CLI,
observability and presentation; webhook signatures, recipients (`createRecipient`),
checkout pages, and the token and certificate caches of adapters; the mock provider's
loss of its records at a restart; templates and the mail transport; the clean-up of
published outbox rows; a reconciliation run's job that BullMQ takes for stalled while its
worker is still alive, so that two executions of one run overlap; the stay of a reversal
between requested and done in `PaymentIntake` (`Providers` has it);
`checkLedger`, which restates the ledger's own invariants; a
payout sweep over more rows than one, where one that throws stops the ones behind it
(`payouts.service.ts:285`). The clock is one clock: skew between processes could end a
hold for one and not for another. The provider is assumed to treat our reference as
idempotent when a payment is initialised again, as `payments.service.ts` does.

## Plan

1. An abstract ledger whose programs take place at once, and `Ledger` shown to implement
   it: `BooksInv` and `AtomInv` are the invariants it needs.
2. Absence of waiting for ever beyond circles: conversions that go one way.
3. The same step-by-step implementation for idempotent requests (`MoneyRequests`): a call
   and its retries as one call.
