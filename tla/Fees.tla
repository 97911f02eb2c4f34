-------------------------------- MODULE Fees --------------------------------
(***************************************************************************)
(* Fee rules and fee quotes, for one operation in one currency: the rules  *)
(* of the platform ("default") and the ones negotiated by an organization  *)
(* ("own").  A rule is never edited: a new one supersedes the active one   *)
(* of its scope, or an admin retires it.  A quote reads the organization's *)
(* rule and then, in another statement, the default.                       *)
(***************************************************************************)
EXTENDS Integers, FiniteSets

CONSTANTS Admins,      \* concurrent setRule requests
          Quoters,     \* concurrent fee quotes
          Schedules,   \* [fixed, bps, min, max]; max = NoMax is no maximum
          MaxRules,    \* bound: rules ever inserted
          MaxQuoted,   \* bound: amounts quoted
          Bps          \* basis points of the whole: 10 000 in the code

VARIABLES feeRules,    \* rule id -> [scope, schedule, active]
          setters,     \* admin -> progress of its setRule transaction
          feeQuotes,   \* quoter -> progress and answer of its quote
          priced       \* scopes an admin last gave a rule (not retired): ghost

feesVars == <<feeRules, setters, feeQuotes, priced>>

Scopes == {"own", "default"}
NoMax == -1
NoFeeRule == 0

(* The checks of fee-rule.entity.ts on the amounts of a rule. *)
ASSUME FeesAssumption ==
  /\ MaxRules \in Nat /\ MaxQuoted \in Nat /\ Bps \in Nat \ {0}
  /\ Schedules \subseteq [fixed : Nat, bps : Nat, min : Nat, max : Nat \cup {NoMax}]

(* fee-math.ts: fixed + the percentage rounded up, held within [min, max]. *)
CalculateFee_RoundDown(amount, s) ==
  LET fee == s.fixed + (amount * s.bps) \div Bps
      atLeast == IF fee < s.min THEN s.min ELSE fee
  IN  IF s.max # NoMax /\ atLeast > s.max THEN s.max ELSE atLeast

CalculateFee(amount, s) ==
  LET fee == s.fixed + (amount * s.bps + Bps - 1) \div Bps
      atLeast == IF fee < s.min THEN s.min ELSE fee
  IN  IF s.max # NoMax /\ atLeast > s.max THEN s.max ELSE atLeast

(* The active rule of a scope, or NoFeeRule. *)
ActiveIn(scope) ==
  LET found == {r \in DOMAIN feeRules : feeRules[r].scope = scope /\ feeRules[r].active}
  IN  IF found = {} THEN NoFeeRule ELSE CHOOSE r \in found : TRUE

FreeSetter == [pc |-> "idle", scope |-> "own", previous |-> NoFeeRule]
FreshQuote == [pc |-> "idle", org |-> FALSE, amount |-> 1, covered |-> FALSE,
               rule |-> NoFeeRule, fee |-> 0, throughout |-> {}]

FeesInit ==
  /\ feeRules = [r \in {} |-> FreshQuote]
  /\ setters = [a \in Admins |-> FreeSetter]
  /\ feeQuotes = [q \in Quoters |-> FreshQuote]
  /\ priced = {}

(* A scope left without a rule was not priced throughout a quote under way. *)
StillPriced(scopes) ==
  [q \in Quoters |-> [feeQuotes[q] EXCEPT !.throughout = @ \cap scopes]]

-----------------------------------------------------------------------------
(* setRule takes the scope's advisory lock, then reads the active rule. *)
LockScope_Unlocked(a) ==
  \E scope \in Scopes :
    /\ setters[a].pc = "idle"
    /\ setters' = [setters EXCEPT ![a] = [pc |-> "locked", scope |-> scope,
                                          previous |-> ActiveIn(scope)]]
    /\ UNCHANGED <<feeRules, feeQuotes, priced>>

LockScope_SupersedesFirst(a) ==
  \E scope \in Scopes :
    /\ setters[a].pc = "idle"
    /\ ~ \E other \in Admins : setters[other].pc = "locked" /\ setters[other].scope = scope
    /\ setters' = [setters EXCEPT ![a] = [pc |-> "locked", scope |-> scope,
                                          previous |-> ActiveIn(scope)]]
    /\ feeRules' = [r \in DOMAIN feeRules |->
                      [feeRules[r] EXCEPT !.active = @ /\ r # ActiveIn(scope)]]
    /\ UNCHANGED <<feeQuotes, priced>>

LockScope(a) ==
  \E scope \in Scopes :
    /\ setters[a].pc = "idle"
    /\ ~ \E other \in Admins : setters[other].pc = "locked" /\ setters[other].scope = scope
    /\ setters' = [setters EXCEPT ![a] = [pc |-> "locked", scope |-> scope,
                                          previous |-> ActiveIn(scope)]]
    /\ UNCHANGED <<feeRules, feeQuotes, priced>>

(* It supersedes the rule it read and inserts its own.  The unique index of   *)
(* the active rules refuses a second one, and the transaction is rolled back. *)
InsertRule(a) ==
  \E schedule \in Schedules :
    LET scope == setters[a].scope
        previous == setters[a].previous
        after == [r \in DOMAIN feeRules |->
                    [feeRules[r] EXCEPT !.active = @ /\ r # previous]]
        refused == \E r \in DOMAIN after : after[r].scope = scope /\ after[r].active
        id == Cardinality(DOMAIN feeRules) + 1
    IN  /\ setters[a].pc = "locked"
        /\ id <= MaxRules
        /\ setters' = [setters EXCEPT ![a].pc = IF refused THEN "conflict" ELSE "idle"]
        /\ feeRules' = IF refused THEN feeRules
                       ELSE [r \in 1 .. id |->
                               IF r = id THEN [scope |-> scope, schedule |-> schedule,
                                               active |-> TRUE]
                               ELSE after[r]]
        /\ priced' = IF refused THEN priced ELSE priced \cup {scope}
        /\ UNCHANGED feeQuotes

(* retire takes no lock: it ends the rule only if it is still the active one. *)
RetireRule ==
  \E r \in DOMAIN feeRules :
    /\ feeRules[r].active
    /\ feeRules' = [feeRules EXCEPT ![r].active = FALSE]
    /\ priced' = priced \ {feeRules[r].scope}
    /\ feeQuotes' = StillPriced(priced')
    /\ UNCHANGED setters

-----------------------------------------------------------------------------
(* The answer of a quote: quoteCovered refuses an amount its fee consumes. *)
Answer(quote, rule) ==
  LET fee == IF rule = NoFeeRule THEN 0
             ELSE CalculateFee(quote.amount, feeRules[rule].schedule)
      refused == quote.covered /\ fee >= quote.amount /\ fee > 0
  IN  [quote EXCEPT !.pc = IF refused THEN "refused" ELSE "done",
                    !.rule = rule, !.fee = fee]

(* activeRule reads the organization's own rule first ... *)
QuoteOwn(q) ==
  \E org, covered \in BOOLEAN, amount \in 1 .. MaxQuoted :
    LET begun == [feeQuotes[q] EXCEPT !.org = org, !.covered = covered,
                                      !.amount = amount, !.throughout = priced]
        own == IF org THEN ActiveIn("own") ELSE NoFeeRule
    IN  /\ feeQuotes[q].pc # "default"
        /\ feeQuotes' = [feeQuotes EXCEPT ![q] =
             IF own # NoFeeRule THEN Answer(begun, own)
             ELSE [begun EXCEPT !.pc = "default", !.rule = NoFeeRule, !.fee = 0]]
        /\ UNCHANGED <<feeRules, setters, priced>>

(* ... and falls back to the platform's. *)
QuoteDefault(q) ==
  /\ feeQuotes[q].pc = "default"
  /\ feeQuotes' = [feeQuotes EXCEPT ![q] = Answer(@, ActiveIn("default"))]
  /\ UNCHANGED <<feeRules, setters, priced>>

FeesNext ==
  \/ \E a \in Admins : LockScope(a) \/ InsertRule(a)
  \/ RetireRule
  \/ \E q \in Quoters : QuoteOwn(q) \/ QuoteDefault(q)

FeesSpec == FeesInit /\ [][FeesNext]_feesVars

-----------------------------------------------------------------------------
(* Cutting an amount in two never makes it cheaper, under any rule an admin  *)
(* has set: the percentage is rounded up and the bounds keep the order       *)
(* (calculateFee).                                                           *)
SplittingNeverSaves ==
  \A r \in DOMAIN feeRules : \A a, b \in 1 .. MaxQuoted :
    LET s == feeRules[r].schedule
    IN  CalculateFee(a + b, s) <= CalculateFee(a, s) + CalculateFee(b, s)

(* The advisory lock of setRule is enough to keep the unique index from ever *)
(* refusing an admin, although retire, which also ends rules, takes no lock. *)
NoRuleConflict ==
  \A a \in Admins : setters[a].pc # "conflict"

(* A scope that had a rule during the whole of a quote is charged under it:  *)
(* replacing a rule never lets a request through free of charge, or at the   *)
(* platform's price (activeRule reads twice, setRule commits once).          *)
QuotesFindTheRule ==
  \A q \in Quoters :
    LET quote == feeQuotes[q] IN
      quote.pc \in {"done", "refused"} =>
        /\ "own" \in quote.throughout /\ quote.org =>
             quote.rule # NoFeeRule /\ feeRules[quote.rule].scope = "own"
        /\ "default" \in quote.throughout => quote.rule # NoFeeRule

(* What is charged: splitting a payment never makes it cheaper, two admins   *)
(* never leave two rules for one scope, and a quote uses the rule there is.  *)
FeesAreSound == SplittingNeverSaves /\ NoRuleConflict /\ QuotesFindTheRule
=============================================================================
