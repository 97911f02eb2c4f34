-------------------------------- MODULE Ledger --------------------------------
(***************************************************************************)
(* The double-entry ledger (src/src/ledger): LedgerService.post,           *)
(* postWithin, reverse and the database triggers behind them.              *)
(*                                                                         *)
(* A caller opens one database transaction and makes the postings of one   *)
(* program in it: a program of one posting is LedgerService.post, a longer *)
(* one is a caller of postWithin (FxService.convert posts one leg per      *)
(* currency).  Each SQL statement that can block or see other callers'     *)
(* commits is a step of its own; PostgreSQL's default READ COMMITTED       *)
(* isolation is assumed, as no code sets another one:                      *)
(*   - a read sees what is committed and what its own transaction wrote;   *)
(*   - SELECT ... FOR UPDATE waits for the row's lock and then returns the *)
(*     row as it is now;                                                   *)
(*   - an INSERT into a unique index waits while another transaction has   *)
(*     inserted the same key, and fails once that one has committed.       *)
(* The CHECK constraint on balances and the deferred trigger that rejects  *)
(* an unbalanced transaction at commit are left out: NoOverdraft and       *)
(* TrialBalance show that the service alone never makes them fire.         *)
(***************************************************************************)
EXTENDS Integers, Sequences, FiniteSets, Sums

CONSTANTS
  Accounts,            \* rows that ledger_accounts may come to hold
  AccountId,           \* their ids, the order in which rows are locked
  Currency,            \* the currency of each account
  DebitNormal,         \* accounts whose type is asset or expense
  AllowNegative,       \* accounts with allowNegativeBalance
  Callers,             \* concurrent requests and workers
  References,          \* idempotency references of postings
  Programs,            \* the sequences of postings callers make
  ReversalReferences,  \* references given to LedgerService.reverse
  NoReference,         \* reversalOfId of a posting that reverses nothing
  Nobody               \* the holder of a lock that is free

ASSUME ConstantsAssumption ==
  /\ IsFiniteSet(Accounts)
  /\ AccountId \in [Accounts -> Int]
  /\ \A a, b \in Accounts : AccountId[a] = AccountId[b] => a = b
  /\ DebitNormal \subseteq Accounts
  /\ AllowNegative \subseteq Accounts
  /\ ReversalReferences \subseteq References
  /\ NoReference \notin References
  /\ Nobody \notin Callers

(***************************************************************************)
(* A posting: per account, what its debit entries and what its credit      *)
(* entries add up to (0: no such entry).  Descriptions and metadata are    *)
(* left out.  Amounts range over the integers because a request may hold a *)
(* wrong one.                                                              *)
(***************************************************************************)
Posting == [reference : References, currency : {Currency[a] : a \in Accounts},
            debit : [Accounts -> Int], credit : [Accounts -> Int],
            reversalOf : References \cup {NoReference}]

ASSUME ProgramsAssumption ==
  \A postings \in Programs : postings \in Seq(Posting) /\ postings # << >>

\* The references of a longer program are its own: FxService.convertWithin makes
\* them from the movement's reference ("...:fx-source", "...:fx-target"), which
\* names one movement.
ASSUME ReferencesAssumption ==
  \A P, Q \in Programs : \A i \in 1..Len(P), j \in 1..Len(Q) :
    Len(P) > 1 =>
      /\ P[i].reference \notin ReversalReferences
      /\ P[i].reference = Q[j].reference => P = Q /\ i = j

VARIABLES
  opened,    \* the accounts that exist
  balance,   \* ledger_accounts.balance, as committed
  posted,    \* ledger_transactions and their ledger_entries, as committed
  lock,      \* who holds each account's row lock
  pc,        \* where each caller is
  program,   \* the postings it makes
  leg,       \* the one it is making
  written,   \* postings its open transaction has inserted
  delta,     \* balance changes its open transaction has applied
  acked      \* postings a caller was told are posted (fresh or replayed)

vars == <<opened, balance, posted, lock, pc, program, leg, written, delta, acked>>
txVars == <<program, leg, written, delta>>

NoChange == [a \in Accounts |-> 0]

Init ==
  /\ opened = {}
  /\ balance = NoChange
  /\ posted = {}
  /\ lock = [a \in Accounts |-> Nobody]
  /\ pc = [c \in Callers |-> "idle"]
  /\ program = [c \in Callers |-> << >>]
  /\ leg = [c \in Callers |-> 1]
  /\ written = [c \in Callers |-> {}]
  /\ delta = [c \in Callers |-> NoChange]
  /\ acked = {}

-----------------------------------------------------------------------------
(* Postings. *)

SumOf(f) == SumOver(f, Accounts)

\* Mutant of ValidPosting: debits and credits need not be equal.
ValidPosting_Unbalanced(p) ==
  /\ \A a \in Accounts : p.debit[a] >= 0 /\ p.credit[a] >= 0
  /\ SumOf(p.debit) > 0

\* Entries are positive, there are debits and credits, and they are equal.
ValidPosting(p) ==
  /\ \A a \in Accounts : p.debit[a] >= 0 /\ p.credit[a] >= 0
  /\ SumOf(p.debit) > 0
  /\ SumOf(p.debit) = SumOf(p.credit)

AccountsOf(p) == {a \in Accounts : p.debit[a] # 0 \/ p.credit[a] # 0}

\* What the posting adds to an account's balance.
Change(p, a) == IF a \in DebitNormal THEN p.debit[a] - p.credit[a]
                                     ELSE p.credit[a] - p.debit[a]

\* What replay() compares: the currency and the entries.
SameContent(p, q) ==
  /\ p.currency = q.currency
  /\ p.debit = q.debit
  /\ p.credit = q.credit

\* Mutant of Mirror: the wrong field where the original's id belongs.
Mirror_WrongField(p, reference) ==
  [reference |-> reference, currency |-> p.currency,
   debit |-> p.credit, credit |-> p.debit, reversalOf |-> p.currency]

\* The mirror image that reverse() posts.
Mirror(p, reference) ==
  [reference |-> reference, currency |-> p.currency,
   debit |-> p.credit, credit |-> p.debit, reversalOf |-> p.reference]

AssertCurrency(p) == \A a \in AccountsOf(p) : Currency[a] = p.currency

\* On the balances the caller has locked, its own earlier legs included.
AssertSufficientFunds(c, p) ==
  \A a \in AccountsOf(p) \ AllowNegative :
    balance[a] + delta[c][a] + Change(p, a) >= 0

-----------------------------------------------------------------------------
(* The open transaction of a caller. *)

Input(c) == program[c][leg[c]]

Visible(c) == posted \cup written[c]

Held(c) == {a \in Accounts : lock[a] = c}

\* Mutant of ToLock: the accounts are read without FOR UPDATE.
ToLock_None(c) == {}

ToLock(c) == AccountsOf(Input(c)) \ Held(c)

\* Mutant of Released: the locks outlive the transaction.
Released_Kept(c) == lock

Released(c) == [a \in Accounts |-> IF lock[a] = c THEN Nobody ELSE lock[a]]

\* Mutant of EndTransaction: uncommitted balance changes stay behind.
EndTransaction_KeepsDelta(c) ==
  /\ lock' = Released(c)
  /\ written' = [written EXCEPT ![c] = {}]
  /\ delta' = delta

\* Leaves the transaction: locks and uncommitted writes are gone.
EndTransaction(c) ==
  /\ lock' = Released(c)
  /\ written' = [written EXCEPT ![c] = {}]
  /\ delta' = [delta EXCEPT ![c] = NoChange]

\* The call returns or throws.
Return(c) ==
  /\ pc' = [pc EXCEPT ![c] = "idle"]
  /\ program' = [program EXCEPT ![c] = << >>]
  /\ leg' = [leg EXCEPT ![c] = 1]

\* Mutant of Rollback: every leg commits on its own.
Rollback_KeepsLegs(c) ==
  /\ posted' = posted \cup written[c]
  /\ balance' = [a \in Accounts |-> balance[a] + delta[c][a]]
  /\ EndTransaction(c)
  /\ Return(c)
  /\ UNCHANGED <<opened, acked>>

Rollback(c) ==
  /\ EndTransaction(c)
  /\ Return(c)
  /\ UNCHANGED <<opened, balance, posted, acked>>

\* The posting in hand is done: the next one, or the commit.
NextLeg(c) ==
  IF leg[c] < Len(program[c])
  THEN /\ leg' = [leg EXCEPT ![c] = @ + 1]
       /\ pc' = [pc EXCEPT ![c] = "check"]
  ELSE /\ leg' = leg
       /\ pc' = [pc EXCEPT ![c] = "commit"]

-----------------------------------------------------------------------------
(* Actions. *)

\* createAccount, and ensureSystemAccount on its own connection.
OpenAccount(a) ==
  /\ a \notin opened
  /\ opened' = opened \cup {a}
  /\ UNCHANGED <<balance, posted, lock, pc, txVars, acked>>

Start(c, postings) ==
  /\ pc[c] = "idle"
  /\ pc' = [pc EXCEPT ![c] = "check"]
  /\ program' = [program EXCEPT ![c] = postings]
  /\ leg' = [leg EXCEPT ![c] = 1]
  /\ UNCHANGED <<opened, balance, posted, lock, written, delta, acked>>

Post(c) == \E postings \in Programs : Start(c, postings)

\* Reads the original and its entries, which are committed and immutable.
Reverse(c) ==
  \E original \in posted, reference \in ReversalReferences :
    Start(c, <<Mirror(original, reference)>>)

\* postWithin up to lockAccounts: validation, the reference, the reversal,
\* and whether every account exists (lockAccounts' SELECT finds the rows that
\* existed when it started; it fails after locking them if one is missing).
Check(c) ==
  LET input == Input(c)
      existing == {t \in Visible(c) : t.reference = input.reference}
      reversals == {t \in Visible(c) : t.reversalOf = input.reversalOf}
  IN
  /\ pc[c] = "check"
  /\ \/ /\ ~ValidPosting(input)
        /\ Rollback(c)
     \/ /\ ValidPosting(input)
        /\ existing # {}
        /\ \A t \in existing : SameContent(t, input)
        /\ NextLeg(c)
        /\ UNCHANGED <<opened, balance, posted, lock, program, written, delta, acked>>
     \/ /\ ValidPosting(input)
        /\ \E t \in existing : ~SameContent(t, input)
        /\ Rollback(c)
     \/ /\ ValidPosting(input)
        /\ existing = {}
        /\ input.reversalOf # NoReference /\ reversals # {}
        /\ Rollback(c)
     \/ /\ ValidPosting(input)
        /\ existing = {}
        /\ input.reversalOf = NoReference \/ reversals = {}
        /\ ~(AccountsOf(input) \subseteq opened)
        /\ Rollback(c)
     \/ /\ ValidPosting(input)
        /\ existing = {}
        /\ input.reversalOf = NoReference \/ reversals = {}
        /\ AccountsOf(input) \subseteq opened
        /\ pc' = [pc EXCEPT ![c] = "lock"]
        /\ UNCHANGED <<opened, balance, posted, lock, txVars, acked>>

\* Mutant of LockAccount: no ORDER BY.
LockAccount_AnyOrder(c) ==
  /\ pc[c] = "lock"
  /\ \E a \in ToLock(c) :
       /\ lock[a] = Nobody
       /\ lock' = [lock EXCEPT ![a] = c]
  /\ UNCHANGED <<opened, balance, posted, pc, txVars, acked>>

\* SELECT ... ORDER BY id FOR UPDATE takes the row locks one by one.
LockAccount(c) ==
  /\ pc[c] = "lock"
  /\ \E a \in ToLock(c) :
       /\ \A b \in ToLock(c) : AccountId[a] <= AccountId[b]
       /\ lock[a] = Nobody
       /\ lock' = [lock EXCEPT ![a] = c]
  /\ UNCHANGED <<opened, balance, posted, pc, txVars, acked>>

\* Mutants of the unique indexes on reference and reversal_of_id: not there.
ReferenceCommitted_No(p) == FALSE
ReversalCommitted_No(p) == FALSE

\* A committed posting has the same key in a unique index.
ReferenceCommitted(p) == \E t \in posted : t.reference = p.reference
ReversalCommitted(p) ==
  p.reversalOf # NoReference /\ \E t \in posted : t.reversalOf = p.reversalOf

\* Another open transaction has the same key in a unique index.
KeyTaken(c, p) ==
  \E d \in Callers \ {c} : \E t \in written[d] :
    \/ t.reference = p.reference
    \/ p.reversalOf # NoReference /\ t.reversalOf = p.reversalOf

\* All accounts are locked: the checks, the INSERTs and the balance trigger.
Insert(c) ==
  LET input == Input(c)
      sameReference == ReferenceCommitted(input)
      sameReversal == ReversalCommitted(input)
      accepted == /\ AssertCurrency(input)
                  /\ AssertSufficientFunds(c, input)
  IN
  /\ pc[c] = "lock"
  /\ ToLock(c) = {}
  /\ \/ /\ ~accepted
        /\ Rollback(c)
     \/ /\ accepted
        /\ ~KeyTaken(c, input)
        /\ sameReference
        \* only post() replays the winner; postWithin leaves it to its caller
        /\ IF Len(program[c]) = 1
           THEN /\ EndTransaction(c)
                /\ pc' = [pc EXCEPT ![c] = "replay"]
                /\ UNCHANGED <<opened, balance, posted, program, leg, acked>>
           ELSE Rollback(c)
     \/ /\ accepted
        /\ ~KeyTaken(c, input)
        /\ ~sameReference /\ sameReversal
        /\ Rollback(c)
     \/ /\ accepted
        /\ ~KeyTaken(c, input)
        /\ ~sameReference /\ ~sameReversal
        /\ written' = [written EXCEPT ![c] = @ \cup {input}]
        /\ delta' = [delta EXCEPT ![c] = [a \in Accounts |-> @[a] + Change(input, a)]]
        /\ NextLeg(c)
        /\ UNCHANGED <<opened, balance, posted, lock, program, acked>>

Acknowledge(c) ==
  acked' = acked \cup {program[c][i] : i \in 1..Len(program[c])}

Commit(c) ==
  /\ pc[c] = "commit"
  /\ balance' = [a \in Accounts |-> balance[a] + delta[c][a]]
  /\ posted' = posted \cup written[c]
  /\ Acknowledge(c)
  /\ EndTransaction(c)
  /\ Return(c)
  /\ UNCHANGED opened

\* Mutant of Replay: the winner's content is not compared.
Replay_Blind(c) ==
  /\ pc[c] = "replay"
  /\ Acknowledge(c)
  /\ Return(c)
  /\ UNCHANGED <<opened, balance, posted, lock, written, delta>>

\* post() lost the race for its reference and answers with the winner's.
Replay(c) ==
  /\ pc[c] = "replay"
  /\ \E t \in posted :
       /\ t.reference = Input(c).reference
       /\ IF SameContent(t, Input(c)) THEN Acknowledge(c) ELSE acked' = acked
  /\ Return(c)
  /\ UNCHANGED <<opened, balance, posted, lock, written, delta>>

\* The connection is lost, or a statement times out, before the commit.
Abort(c) ==
  /\ pc[c] \in {"check", "lock", "commit"}
  /\ Rollback(c)

Step(c) == Check(c) \/ LockAccount(c) \/ Insert(c) \/ Commit(c) \/ Replay(c)

Next ==
  \/ \E a \in Accounts : OpenAccount(a)
  \/ \E c \in Callers : Post(c) \/ Reverse(c) \/ Step(c) \/ Abort(c)

Spec == Init /\ [][Next]_vars

\* A request runs on until it answers.  PostgreSQL queues the transactions
\* that wait for a row lock or for another's insert of the same key, so one
\* that can go on again and again does.
Fairness ==
  \A c \in Callers :
    /\ WF_vars(Check(c)) /\ WF_vars(Commit(c)) /\ WF_vars(Replay(c))
    /\ SF_vars(LockAccount(c)) /\ SF_vars(Insert(c))

FairSpec == Spec /\ Fairness
-----------------------------------------------------------------------------
(* Properties. *)

\* Every variable has its type.
TypeOK ==
  /\ opened \subseteq Accounts
  /\ balance \in [Accounts -> Int]
  /\ posted \subseteq Posting
  /\ lock \in [Accounts -> Callers \cup {Nobody}]
  /\ pc \in [Callers -> {"idle", "check", "lock", "commit", "replay"}]
  /\ program \in [Callers -> Seq(Posting)]
  /\ leg \in [Callers -> Nat]
  /\ written \in [Callers -> SUBSET Posting]
  /\ delta \in [Callers -> [Accounts -> Int]]
  /\ acked \subseteq Posting

\* No interleaving of postings overdraws an account that may not be negative:
\* assertSufficientFunds reads balances that nobody else can change until the
\* caller commits ("Checked against the locked (current) balances, so it cannot
\* be raced").
NoOverdraft == \A a \in Accounts \ AllowNegative : balance[a] >= 0

\* A reference is posted once, however many callers post it at the same time,
\* retry it after a lost answer, or reuse it for something else.
OnePostingPerReference ==
  \A t, u \in posted : t.reference = u.reference => t = u

\* A transaction is reversed at most once, even by concurrent reversals under
\* different references (reverse: "Each transaction reverses at most once").
ReversedAtMostOnce ==
  \A t, u \in posted :
    t.reversalOf = u.reversalOf /\ t.reversalOf # NoReference => t = u

\* What the debit entries and the credit entries of an account add up to.
DebitsOf(a, S) == SumOver([t \in S |-> t.debit[a]], S)
CreditsOf(a, S) == SumOver([t \in S |-> t.credit[a]], S)

\* The balance that the entries of the postings in S give an account.
EntriesOf(a, S) == IF a \in DebitNormal THEN DebitsOf(a, S) - CreditsOf(a, S)
                                        ELSE CreditsOf(a, S) - DebitsOf(a, S)

\* findBalanceDiscrepancies is always empty: the cached balance is the sum of
\* the account's entries, so no posting is applied twice or lost.
NoBalanceDiscrepancies == \A a \in Accounts : balance[a] = EntriesOf(a, posted)

\* The debit-normal and the credit-normal accounts of a currency.
DebitSide(currency) == {a \in DebitNormal : Currency[a] = currency}
CreditSide(currency) == {a \in Accounts \ DebitNormal : Currency[a] = currency}

\* trialBalance: in every currency the debit-normal balances add up to what
\* the credit-normal ones add up to, at every commit.
TrialBalance ==
  \A currency \in {Currency[a] : a \in Accounts} :
    NetOver(balance, DebitSide(currency)) = NetOver(balance, CreditSide(currency))

\* Whoever was told that a posting is there (posted by it, found under its
\* reference, or replayed after losing the race) asked for what is posted.
AcknowledgedIsPosted ==
  \A p \in acked : \E t \in posted : t.reference = p.reference /\ SameContent(t, p)

\* The legs of one database transaction are posted together or not at all,
\* whatever fails after the first one (FxService.convert: funds, a lost race for
\* a reference, a lost connection).
TransactionsAreAtomic ==
  \A postings \in Programs : \A i, j \in 1..Len(postings) :
    postings[i] \in posted => postings[j] \in posted

\* Caller c cannot go on before caller d ends its transaction.
WaitsFor(c, d) ==
  /\ pc[c] = "lock"
  /\ \/ \E a \in ToLock(c) :
          /\ \A b \in ToLock(c) : AccountId[a] <= AccountId[b]
          /\ lock[a] = d
     \/ /\ ToLock(c) = {}
        /\ \E t \in written[d] :
             \/ t.reference = Input(c).reference
             \/ /\ Input(c).reversalOf # NoReference
                /\ t.reversalOf = Input(c).reversalOf

\* lockAccounts' comment: "concurrent postings touching the same accounts queue
\* up instead of deadlocking".  In every set of callers some caller waits for
\* none of them.
NoWaitCycle ==
  \A S \in (SUBSET Callers) \ {{}} : \E c \in S : \A d \in S \ {c} : ~WaitsFor(c, d)

\* Every call of the ledger returns, posted, replayed or refused.
CallsReturn == \A c \in Callers : pc[c] # "idle" ~> pc[c] = "idle"

\* The committed books are right at every moment, whatever is aborted, refused or retried:
\* every balance is the sum of its entries, the accounts of a currency add up, and no
\* transaction is there in part.
BooksBalance == NoBalanceDiscrepancies /\ TrialBalance /\ TransactionsAreAtomic
=============================================================================
