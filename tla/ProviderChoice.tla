---------------------------- MODULE ProviderChoice ----------------------------
(***************************************************************************)
(* Which provider a payment or a payout goes to: the payments configuration *)
(* that a process starts with (or refuses to), and PaymentProvidersService. *)
(***************************************************************************)
EXTENDS ProviderRecords, Integers, FiniteSets

CONSTANTS
  Currencies,   \* the supported currencies of the instance
  MaxEnabled    \* bound on PAYMENT_PROVIDERS

VARIABLES
  settings,  \* the configuration the process runs with; NoSettings: not running
  routed     \* the last payment or payout that was routed: its kind, currency
             \* and provider

choiceVars == <<settings, routed>>

None == "none"
NoSettings == [enabled |-> {}, default |-> None, routes |-> [c \in Currencies |-> None],
               live |-> FALSE, keys |-> [a \in {} |-> None]]

-----------------------------------------------------------------------------
(* What the adapters can do. *)

SupportedCurrencies(a) ==
  CASE a = "mock" -> Currencies
    [] a = "paystack" -> {"NGN", "USD", "GHS", "ZAR", "KES"}
    [] a = "stripe" -> {"USD", "EUR", "GBP", "JPY", "NGN", "KES", "ZAR"}
    [] a = "flutterwave" -> {"NGN", "USD", "GHS", "KES", "ZAR", "EUR", "GBP"}
    [] a = "paypal" -> {"USD", "EUR", "GBP", "JPY"}

PayoutCurrencies(a) ==
  CASE a = "mock" -> Currencies
    [] a = "paystack" -> {"NGN", "GHS", "ZAR"}
    [] a = "stripe" -> {}
    [] a = "flutterwave" -> {"NGN"}
    [] a = "paypal" -> {"USD", "EUR", "GBP", "JPY"}

\* PROVIDER_PREFERENCES
Preference(c) == IF c \in {"NGN", "GHS", "KES", "ZAR"} THEN "paystack" ELSE "stripe"

-----------------------------------------------------------------------------
(* The configuration.  Its keys: a key (for PayPal, the API host) is for    *)
(* testing, for live money, or missing.                                     *)

KeyKinds == {"test", "live", None}

Configurations ==
  UNION {[enabled : {E}, default : Adapters \cup {None}, routes : [Currencies -> Adapters \cup {None}],
          live : BOOLEAN, keys : [E -> KeyKinds]] :
           E \in {F \in SUBSET Adapters : F # {} /\ Cardinality(F) <= MaxEnabled}}

\* DEFAULT_PAYMENT_PROVIDER or the first of PAYMENT_PROVIDERS.
Defaults(s) == IF s.default = None THEN s.enabled ELSE {s.default}

\* The mock's webhook secret says nothing of the environment.
KeyFits(a, live, key) ==
  /\ key # None
  /\ IF a = "mock" THEN ~live ELSE (key = "live") = live

\* paymentsConfig: no violation is reported.
ConfigAccepted(s) ==
  /\ Defaults(s) \subseteq s.enabled
  /\ \A a \in s.enabled : KeyFits(a, s.live, s.keys[a])
  /\ \A c \in Currencies : s.routes[c] # None => s.routes[c] \in s.enabled

\* PaymentProvidersService's constructor refuses a route to a provider that
\* cannot charge the currency.
RoutesCharge_Unchecked(s) == TRUE

RoutesCharge(s) == \A c \in Currencies : s.routes[c] # None => c \in SupportedCurrencies(s.routes[c])

ChoiceInit == settings = NoSettings /\ routed = [kind |-> None]

Start(s) ==
  /\ settings = NoSettings
  /\ ConfigAccepted(s) /\ RoutesCharge(s)
  /\ \E d \in Defaults(s) : settings' = [s EXCEPT !.default = d]
  /\ UNCHANGED routed

-----------------------------------------------------------------------------

\* Suggested providers that are enabled and able to charge.
Preferred(c) ==
  IF Preference(c) \in settings.enabled /\ c \in SupportedCurrencies(Preference(c))
    THEN Preference(c) ELSE None

Route(kind, c, a) ==
  /\ routed' = [kind |-> kind, currency |-> c, provider |-> a]
  /\ UNCHANGED settings

\* select: the route is a rule; then what was asked for, the suggestion, the
\* default.  An exception routes nothing.
Select(c, requested) ==
  LET name == IF requested # None THEN requested
              ELSE IF Preferred(c) # None THEN Preferred(c) ELSE settings.default
  IN /\ settings # NoSettings
     /\ IF settings.routes[c] # None
          THEN /\ requested \in {None, settings.routes[c]}
               /\ Route("payment", c, settings.routes[c])
          ELSE /\ name \in settings.enabled /\ c \in SupportedCurrencies(name)
               /\ Route("payment", c, name)

CanPayOut(a, c) == a \in settings.enabled /\ c \in PayoutCurrencies(a)

\* selectForPayout: the one asked for, or else the route, the suggestion, the
\* default, or any that can.
SelectForPayout(c, requested) ==
  LET inOrder == <<settings.routes[c], Preferred(c), settings.default>>
      able == {i \in 1..3 : CanPayOut(inOrder[i], c)}
  IN /\ settings # NoSettings
     /\ IF requested # None
          THEN CanPayOut(requested, c) /\ Route("payout", c, requested)
          ELSE IF able # {}
            THEN Route("payout", c, inOrder[CHOOSE i \in able : \A j \in able : i <= j])
            ELSE \E a \in settings.enabled : CanPayOut(a, c) /\ Route("payout", c, a)

ChoiceNext ==
  \/ settings = NoSettings /\ \E s \in Configurations : Start(s)
  \/ \E c \in Currencies, requested \in Adapters \cup {None} :
       Select(c, requested) \/ SelectForPayout(c, requested)

ChoiceSpec == ChoiceInit /\ [][ChoiceNext]_choiceVars

-----------------------------------------------------------------------------

\* Every payment is routed to a provider that can charge its currency, every
\* payout to one that can pay it, whatever the routes, suggestions and
\* defaults: nothing is accepted that fails at the provider.
RoutedCanBeServed ==
  /\ routed.kind = "payment" => routed.currency \in SupportedCurrencies(routed.provider)
  /\ routed.kind = "payout" => routed.currency \in PayoutCurrencies(routed.provider)

=============================================================================
