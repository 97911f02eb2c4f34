---------------------------------- MODULE MCApi ----------------------------------
(***************************************************************************)
(* Requests that clients make at the same time, to one part of the API per *)
(* behaviour: accounts and sessions, an organization and its keys, money   *)
(* requests, wallets, fees, conversions, or the refunds of a payment.  The *)
(* parts share no state; the ones that a behaviour is not about stay in    *)
(* one initial state of theirs.                                            *)
(***************************************************************************)
EXTENDS Accounts, Organizations, MoneyRequests, Wallets, Fees, FxQuotes, PartialRefunds, TLC

CONSTANTS alice, bob, c1, c2, k1, k2   \* users, calls and keys

VARIABLE part

MCStartRoles == alice :> "admin" @@ bob :> "user"

\* The second is refused: a key cannot manage its organization.
MCKeyScopes == {{"payments:create"}, {"payouts:create", "organization:manage"}}

\* A retry, a key reused for another amount, and two keys.
Sent(key, amount, otherKey, otherAmount) ==
  c1 :> [key |-> key, amount |-> amount] @@ c2 :> [key |-> otherKey, amount |-> otherAmount]
MCBodies == {Sent(k1, 2, k1, 2), Sent(k1, 2, k1, 1), Sent(k1, 2, k2, 1)}

MCRules == {[perTransaction |-> -1, dailyAmount |-> 2, dailyCount |-> -1, monthlyAmount |-> -1]}

MCOwnerOf == [aUSD |-> "a", aNGN |-> "a", bUSD |-> "b"]
MCCurrencyOf == [aUSD |-> "USD", aNGN |-> "NGN", bUSD |-> "USD"]

MCSchedules == {[fixed |-> 1, bps |-> 3, min |-> 2, max |-> 3],
                [fixed |-> 0, bps |-> 5, min |-> 0, max |-> NoMax]}

MCMinorUnit == [USD |-> 4, JPY |-> 1]

ApiInit ==
  /\ part \in {"accounts", "organizations", "money", "wallets", "fees", "fx", "refunds"}
  /\ AccountsInit /\ OrganizationsInit /\ MoneyInit /\ WalletsInit /\ FeesInit /\ FxInit /\ Init
  /\ part # "money" => service = "transfer" /\ body = Sent(k1, 2, k1, 2)
  /\ part # "wallets" => mode = "single"
  /\ part # "refunds" => charged = 1 /\ gross = 1

\* Two payouts under two keys: without failures, which the other calls have.
TwoPayouts == service = "payout" /\ body[c1].key # body[c2].key

ApiNext ==
  /\ UNCHANGED part
  /\ \/ /\ part = "accounts" /\ AccountsNext
        /\ UNCHANGED <<organizationsVars, moneyVars, walletVars, feesVars, fxVars, vars>>
     \/ /\ part = "organizations" /\ OrganizationsNext
        /\ UNCHANGED <<accountsVars, moneyVars, walletVars, feesVars, fxVars, vars>>
     \/ /\ part = "money" /\ MoneyNext
        /\ TwoPayouts => failures' = 0
        /\ UNCHANGED <<accountsVars, organizationsVars, walletVars, feesVars, fxVars, vars>>
     \/ /\ part = "wallets" /\ WalletsNext
        /\ UNCHANGED <<accountsVars, organizationsVars, moneyVars, feesVars, fxVars, vars>>
     \/ /\ part = "fees" /\ FeesNext
        /\ UNCHANGED <<accountsVars, organizationsVars, moneyVars, walletVars, fxVars, vars>>
     \/ /\ part = "fx" /\ FxNext
        /\ UNCHANGED <<accountsVars, organizationsVars, moneyVars, walletVars, feesVars, vars>>
     \/ /\ part = "refunds" /\ Next
        /\ UNCHANGED <<accountsVars, organizationsVars, moneyVars, walletVars, feesVars, fxVars>>

ApiSpec ==
  ApiInit /\ [][ApiNext]_<<part, accountsVars, organizationsVars, moneyVars, walletVars,
                          feesVars, fxVars, vars>>
=================================================================================
