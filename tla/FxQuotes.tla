------------------------------ MODULE FxQuotes ------------------------------
(***************************************************************************)
(* Exchange rates, quotes and their conversion, between two currencies.    *)
(* Admins append rates and the newest one wins; a quote fixes the amounts  *)
(* of a conversion at the rate it read, until it expires; a conversion     *)
(* consumes a quote under its row lock and posts the two ledger legs in    *)
(* the same transaction (the legs themselves are Ledger's postings).       *)
(***************************************************************************)
EXTENDS Integers, Sequences

CONSTANTS FxCurrencies,  \* the two currencies of the pair
          MinorUnit,     \* currency -> minor units of one unit (10^minorUnits)
          RateScale,     \* 10^RATE_DECIMALS in the code
          SpreadScale,   \* 10 000 basis points in the code
          Spread,        \* config.spreadBps
          ScaledRates,   \* rates an admin may set
          MaxRates,      \* bound: rates ever set
          MaxQuotes,     \* bound: quotes ever created
          MaxAsked,      \* bound: amounts asked for
          Converters     \* concurrent conversions, each with its own reference

VARIABLES rates,         \* rate history, newest last: [base, scaled, stale]
          fxQuotes,      \* quotes in order of creation
          conversions,   \* converter -> [pc, quote]
          fxLegs         \* <<reference, quote>> pairs whose legs are posted

fxVars == <<rates, fxQuotes, conversions, fxLegs>>

(* validateSpread and parseRate refuse anything else. *)
ASSUME FxAssumption ==
  /\ \E a, b \in FxCurrencies : a # b /\ FxCurrencies = {a, b}
  /\ MinorUnit \in [FxCurrencies -> Nat \ {0}]
  /\ RateScale \in Nat \ {0} /\ SpreadScale \in Nat \ {0}
  /\ Spread \in Nat /\ Spread < SpreadScale
  /\ ScaledRates \subseteq Nat \ {0}
  /\ MaxRates \in Nat /\ MaxQuotes \in Nat /\ MaxAsked \in Nat
  /\ "none" \notin Converters

Other(currency) == CHOOSE c \in FxCurrencies : c # currency

(* factor: target minor units per source minor unit, as a fraction n/d. *)
Factor_ExponentsSwapped(rate, source) ==
  LET es == MinorUnit[source]
      et == MinorUnit[Other(source)]
  IN  IF source = rate.base THEN [n |-> rate.scaled * et, d |-> RateScale * es]
                            ELSE [n |-> RateScale * es, d |-> rate.scaled * et]

Factor(rate, source) ==
  LET es == MinorUnit[source]
      et == MinorUnit[Other(source)]
  IN  IF source = rate.base THEN [n |-> rate.scaled * et, d |-> RateScale * es]
                            ELSE [n |-> RateScale * et, d |-> rate.scaled * es]

FxCeilDiv_AddOne(a, b) == a \div b + 1

FxCeilDiv(a, b) == (a + b - 1) \div b

(* The customer pays sourceAmount; what is credited is rounded down. *)
ConvertFromSource(rate, source, sourceAmount) ==
  LET f == Factor(rate, source)
  IN  [sourceAmount |-> sourceAmount,
       gross |-> (sourceAmount * f.n) \div f.d,
       targetAmount |-> (sourceAmount * f.n * (SpreadScale - Spread)) \div (f.d * SpreadScale)]

(* The customer wants targetAmount; what is charged is rounded up. *)
ConvertToTarget(rate, source, targetAmount) ==
  LET f == Factor(rate, source)
  IN  ConvertFromSource(rate, source,
        FxCeilDiv(targetAmount * f.d * SpreadScale, f.n * (SpreadScale - Spread)))

FxInit ==
  /\ rates = <<>>
  /\ fxQuotes = <<>>
  /\ conversions = [c \in Converters |-> [pc |-> "idle", quote |-> 0]]
  /\ fxLegs = {}

-----------------------------------------------------------------------------
(* setRate stores a row with its own orientation; history is kept. *)
SetRate ==
  \E base \in FxCurrencies, scaled \in ScaledRates :
    /\ Len(rates) < MaxRates
    /\ rates' = Append(rates, [base |-> base, scaled |-> scaled, stale |-> FALSE])
    /\ UNCHANGED <<fxQuotes, conversions, fxLegs>>

(* FX_RATE_MAX_AGE passes with no newer rate. *)
RatesAge ==
  /\ \E r \in DOMAIN rates : ~rates[r].stale
  /\ rates' = [r \in DOMAIN rates |-> [rates[r] EXCEPT !.stale = TRUE]]
  /\ UNCHANGED <<fxQuotes, conversions, fxLegs>>

(* createQuote: the newest rate in either orientation, refused when stale, and *)
(* an amount that converts to nothing refused.                                 *)
CreateQuote_AnyAmount ==
  \E source \in FxCurrencies, kind \in {"pay", "receive"}, asked \in 1 .. MaxAsked :
    LET rate == rates[Len(rates)]
        made == IF kind = "pay" THEN ConvertFromSource(rate, source, asked)
                                ELSE ConvertToTarget(rate, source, asked)
    IN  /\ rates # <<>> /\ ~rate.stale
        /\ Len(fxQuotes) < MaxQuotes
        /\ fxQuotes' = Append(fxQuotes,
             [source |-> source, kind |-> kind, asked |-> asked, rate |-> Len(rates),
              amounts |-> made, expired |-> FALSE, reference |-> "none"])
        /\ UNCHANGED <<rates, conversions, fxLegs>>

CreateQuote ==
  \E source \in FxCurrencies, kind \in {"pay", "receive"}, asked \in 1 .. MaxAsked :
    LET rate == rates[Len(rates)]
        made == IF kind = "pay" THEN ConvertFromSource(rate, source, asked)
                                ELSE ConvertToTarget(rate, source, asked)
    IN  /\ rates # <<>> /\ ~rate.stale
        /\ Len(fxQuotes) < MaxQuotes
        /\ made.targetAmount > 0
        /\ fxQuotes' = Append(fxQuotes,
             [source |-> source, kind |-> kind, asked |-> asked, rate |-> Len(rates),
              amounts |-> made, expired |-> FALSE, reference |-> "none"])
        /\ UNCHANGED <<rates, conversions, fxLegs>>

(* A quote that is neither consumed nor expired. *)
Usable(q) == fxQuotes[q].reference = "none" /\ ~fxQuotes[q].expired

(* A consumed quote is replayed to its own reference, refused to any other. *)
Consumed(c, q) == IF fxQuotes[q].reference = c THEN "replayed" ELSE "refused"

ExpireQuote ==
  \E q \in DOMAIN fxQuotes :
    /\ Usable(q)
    /\ fxQuotes' = [fxQuotes EXCEPT ![q].expired = TRUE]
    /\ UNCHANGED <<rates, conversions, fxLegs>>

-----------------------------------------------------------------------------
(* convertWithin: the quote's row is locked; a consumed quote is replayed to *)
(* its own reference and refused to any other, an expired one is refused.    *)
LockQuote_Unlocked(c) ==
  \E q \in DOMAIN fxQuotes :
    /\ conversions[c].pc # "locked"
    /\ conversions' = [conversions EXCEPT ![c] =
         [pc |-> IF Usable(q) THEN "locked" ELSE Consumed(c, q), quote |-> q]]
    /\ UNCHANGED <<rates, fxQuotes, fxLegs>>

LockQuote(c) ==
  \E q \in DOMAIN fxQuotes :
    /\ conversions[c].pc # "locked"
    /\ ~ \E other \in Converters :
           conversions[other].pc = "locked" /\ conversions[other].quote = q
    /\ conversions' = [conversions EXCEPT ![c] =
         [pc |-> IF Usable(q) THEN "locked" ELSE Consumed(c, q), quote |-> q]]
    /\ UNCHANGED <<rates, fxQuotes, fxLegs>>

(* The legs are posted under the reference, the quote records it and the      *)
(* transaction commits.  A reference that consumed another quote is refused:  *)
(* its legs exist with other amounts, or the unique index on the quotes'      *)
(* reference rolls the transaction back.                                      *)
CommitConversion(c) ==
  LET q == conversions[c].quote
      refused == \E leg \in fxLegs : leg[1] = c
  IN
    /\ conversions[c].pc = "locked"
    /\ fxLegs' = IF refused THEN fxLegs ELSE fxLegs \cup {<<c, q>>}
    /\ fxQuotes' = IF refused THEN fxQuotes ELSE [fxQuotes EXCEPT ![q].reference = c]
    /\ conversions' = [conversions EXCEPT ![c].pc = IF refused THEN "refused" ELSE "converted"]
    /\ UNCHANGED rates

(* The process dies, or a check of the caller fails: everything is rolled back. *)
AbandonConversion(c) ==
  /\ conversions[c].pc = "locked"
  /\ conversions' = [conversions EXCEPT ![c].pc = "idle"]
  /\ UNCHANGED <<rates, fxQuotes, fxLegs>>

FxNext ==
  \/ SetRate \/ RatesAge \/ CreateQuote \/ ExpireQuote
  \/ \E c \in Converters : LockQuote(c) \/ CommitConversion(c) \/ AbandonConversion(c)

FxSpec == FxInit /\ [][FxNext]_fxVars

-----------------------------------------------------------------------------
(* A quote is converted at most once and by one reference, and a reference   *)
(* converts one quote, although converters race, die and retry: the posted   *)
(* legs and the quotes' references are the same pairs (convertWithin).       *)
QuotesConvertOnce ==
  /\ \A x, y \in fxLegs : (x[1] = y[1]) <=> (x[2] = y[2])
  /\ fxLegs = {<<fxQuotes[q].reference, q>> :
                 q \in {p \in DOMAIN fxQuotes : fxQuotes[p].reference # "none"}}

(* Converting there and back at one rate never gains: what a quote pays out  *)
(* of one currency never buys back more than it cost (convertFromSource and  *)
(* convertToTarget round against the customer in both orientations).         *)
RoundTripNeverGains ==
  \A p, q \in DOMAIN fxQuotes :
    LET there == fxQuotes[p].amounts
        back == fxQuotes[q].amounts
    IN  /\ fxQuotes[p].rate = fxQuotes[q].rate
        /\ fxQuotes[p].source # fxQuotes[q].source
        /\ back.sourceAmount <= there.targetAmount
        => back.targetAmount <= there.sourceAmount

(* A quote for an amount to receive charges the smallest amount that yields  *)
(* it (the comment of convertToTarget).                                      *)
ChargedIsSmallest ==
  \A q \in DOMAIN fxQuotes :
    LET quote == fxQuotes[q]
        paid == quote.amounts.sourceAmount
    IN  quote.kind = "receive" =>
          /\ quote.amounts.targetAmount >= quote.asked
          /\ \A less \in 1 .. paid - 1 :
               ConvertFromSource(rates[quote.rate], quote.source, less).targetAmount < quote.asked

(* The rows the quotes table accepts: positive amounts, the credited amount  *)
(* within the gross one (the checks of fx-quote.entity.ts).                  *)
FxTypeOK ==
  \A q \in DOMAIN fxQuotes :
    /\ fxQuotes[q].amounts.sourceAmount > 0
    /\ fxQuotes[q].amounts.targetAmount \in 1 .. fxQuotes[q].amounts.gross
    /\ fxQuotes[q].reference \in Converters \cup {"none"}

(* What is converted: a quote once and by one caller, at amounts that never  *)
(* let a round trip gain and never charge more than the target needs.        *)
QuotesAreSound == FxTypeOK /\ QuotesConvertOnce /\ RoundTripNeverGains /\ ChargedIsSmallest
=============================================================================
