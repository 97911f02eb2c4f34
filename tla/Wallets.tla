--------------------------------- MODULE Wallets ---------------------------------
(***************************************************************************)
(* WalletsService: wallets are opened, one of each owner's is primary,     *)
(* staff freezes them, and money moves between their three balances, the   *)
(* clearing account and fee revenue.  A movement locks its wallets FOR     *)
(* SHARE and posts later in the same transaction; opening a wallet reads   *)
(* whether it is the first before it inserts.                              *)
(***************************************************************************)
EXTENDS Integers, FiniteSets, Sums

CONSTANTS
  WalletIds,
  OwnerOf,        \* the owner of each wallet; one wallet per owner and currency
  CurrencyOf,
  Movers,         \* transactions that move money at one time
  MaxFunds        \* bound on what is ever deposited

ASSUME WalletsAssumption == MaxFunds \in Nat /\ IsFiniteSet(WalletIds)

VARIABLES
  mode,       \* WALLETS_PER_OWNER
  wallet,     \* the row of each wallet
  creating,   \* requests that are opening a wallet: what existsBy told them
  balance,    \* of each wallet's three accounts
  clearing,   \* what has come in from outside, less what has gone out
  revenue,    \* collected fees
  mover       \* the open transactions

walletVars == <<mode, wallet, creating, balance, clearing, revenue, mover>>

NoWallet == [status |-> "none", primary |-> FALSE]
Balances == {"available", "pending", "reserved"}
Nothing == [b \in Balances |-> 0]

WalletsInit ==
  /\ mode \in {"single", "multiple"}
  /\ wallet = [w \in WalletIds |-> NoWallet]
  /\ creating = [w \in WalletIds |-> "no"]
  /\ balance = [w \in WalletIds |-> Nothing]
  /\ clearing = 0
  /\ revenue = 0
  /\ mover = [m \in Movers |-> [at |-> "idle"]]

OfOwner(w) == {v \in WalletIds : OwnerOf[v] = OwnerOf[w] /\ wallet[v] # NoWallet}
Primaries(w) == {v \in OfOwner(w) : wallet[v].primary}

\* Rows locked FOR SHARE by open transactions.
Shared(w) == \E m \in Movers : mover[m].at = "post" /\ w \in mover[m].locks

-----------------------------------------------------------------------------
(* Opening wallets, and the primary one *)

\* insertWallet's existsBy, at the start of its transaction ('if-first').
BeginCreate(w) ==
  /\ wallet[w] = NoWallet /\ creating[w] = "no"
  /\ creating' = [creating EXCEPT ![w] = IF mode = "single" \/ Primaries(w) = {} THEN "primary" ELSE "plain"]
  /\ UNCHANGED <<mode, wallet, balance, clearing, revenue, mover>>

PrimaryIndex_None(w) == TRUE

\* The partial unique index on the owner's primary wallet.
PrimaryIndex(w) == Primaries(w) = {}

\* A request that loses the race to be primary inserts again as a plain one, or is
\* told that the wallet exists.
InsertWallet(w) ==
  /\ creating[w] # "no"
  /\ IF creating[w] = "primary" /\ ~PrimaryIndex(w)
     THEN /\ creating' = [creating EXCEPT ![w] = IF mode = "single" THEN "no" ELSE "plain"]
          /\ UNCHANGED wallet
     ELSE /\ wallet' = [wallet EXCEPT ![w] = [status |-> "active", primary |-> creating[w] = "primary"]]
          /\ creating' = [creating EXCEPT ![w] = "no"]
  /\ UNCHANGED <<mode, balance, clearing, revenue, mover>>

\* Under FOR UPDATE on all the owner's wallets: it waits for movements that share them.
SetPrimary(w) ==
  /\ wallet[w].status = "active" /\ ~wallet[w].primary
  /\ \A v \in OfOwner(w) : ~Shared(v)
  /\ wallet' = [v \in WalletIds |-> IF v \in OfOwner(w) THEN [wallet[v] EXCEPT !.primary = v = w] ELSE wallet[v]]
  /\ UNCHANGED <<mode, creating, balance, clearing, revenue, mover>>

SetWalletStatus_NoWait(w, status) ==
  /\ wallet[w] # NoWallet /\ wallet[w].status # status
  /\ wallet' = [wallet EXCEPT ![w].status = status]
  /\ UNCHANGED <<mode, creating, balance, clearing, revenue, mover>>

\* AdminService.setWalletStatus; the UPDATE waits for the FOR SHARE locks.
SetWalletStatus(w, status) ==
  /\ wallet[w] # NoWallet /\ wallet[w].status # status
  /\ ~Shared(w)
  /\ wallet' = [wallet EXCEPT ![w].status = status]
  /\ UNCHANGED <<mode, creating, balance, clearing, revenue, mover>>

-----------------------------------------------------------------------------
(* Movements *)

\* Each operation: the wallets it locks and the legs it posts.  A leg's place is a
\* wallet's balance, outside (the clearing and FX position accounts) or fee revenue;
\* one transaction posts all the legs of a movement or none.
Place(w, b) == [wallet |-> w, balance |-> b]
Places == {Place(w, b) : w \in WalletIds, b \in Balances}
Outside == [outside |-> "clearing"]
FeeRevenue == [outside |-> "revenue"]
Leg(from, to, n) == [from |-> from, to |-> to, amount |-> n]
Movement(locks, legs) == [locks |-> locks, legs |-> legs]
Open == {w \in WalletIds : wallet[w] # NoWallet}

\* collectFeeWithin, in the transaction of what it is charged for.
CollectFee(w, from, n) == Leg(Place(w, from), FeeRevenue, n)

\* depositWithin with the fee of the payment, taken from the balance it credits.
DepositWithin(w) ==
  {Movement({w}, {Leg(Outside, Place(w, into), n), CollectFee(w, into, fee)}) :
     into \in {"available", "pending"}, n \in 1..2, fee \in 0..1}

\* depositWithConversionWithin: what the quote makes of the amount paid.
DepositWithConversion(w) ==
  {Movement({w}, {Leg(Outside, Place(w, into), 1)}) : into \in {"available", "pending"}}

\* convertBetweenWallets: one owner, two currencies, two for one.
ConvertBetweenWallets(w) ==
  {Movement({w, v}, {Leg(Place(w, "available"), Outside, 2), Leg(Outside, Place(v, "available"), 1)}) :
     v \in {u \in Open : OwnerOf[u] = OwnerOf[w] /\ CurrencyOf[u] # CurrencyOf[w]}}

Withdraw(w) == {Movement({w}, {Leg(Place(w, "available"), Outside, 1)})}

\* transferWithin; the sender pays the fee on top of the amount.
Transfer(w) ==
  {Movement({w, v}, {Leg(Place(w, "available"), Place(v, "available"), 1), CollectFee(w, "available", fee)}) :
     v \in {u \in Open \ {w} : CurrencyOf[u] = CurrencyOf[w]}, fee \in 0..1}

Reserve(w) == {Movement({w}, {Leg(Place(w, "available"), Place(w, "reserved"), 1)})}

\* release locks its wallet; releaseWithin does not: returning held funds is not
\* blocked by a freeze.
ReleaseWithin(w) ==
  {Movement(locks, {Leg(Place(w, "reserved"), Place(w, "available"), 1)}) : locks \in {{w}, {}}}

\* A settlement hold ends.
MakeAvailable(w) == {Movement({}, {Leg(Place(w, "pending"), Place(w, "available"), 1)})}

\* splitEntries: pending first, the rest from (or back to) available.
SplitLegs(w, n, pending, undo) ==
  LET leg(b, k) == IF undo THEN Leg(Place(w, "reserved"), Place(w, b), k)
                           ELSE Leg(Place(w, b), Place(w, "reserved"), k)
  IN  {leg("pending", pending), leg("available", n - pending)}

ReserveSplit(w) == {Movement({w}, SplitLegs(w, 2, pending, FALSE)) : pending \in 0..2}
ReleaseSplit(w) == {Movement({}, SplitLegs(w, 2, pending, TRUE)) : pending \in 0..2}

\* A payout's fee is collected out of its hold, and given back when it fails.
CollectHeldFee(w) == {Movement({}, {CollectFee(w, "reserved", 1)})}
RefundFee(w) == {Movement({}, {Leg(FeeRevenue, Place(w, "available"), 1)})}

Movements(w) ==
  UNION {DepositWithin(w), DepositWithConversion(w), ConvertBetweenWallets(w), Withdraw(w), Transfer(w),
         Reserve(w), ReleaseWithin(w), MakeAvailable(w), ReserveSplit(w), ReleaseSplit(w),
         CollectHeldFee(w), RefundFee(w)}

SumOfLegs(legs) == SumOver([l \in legs |-> l.amount], legs)

\* What a movement adds to a place.
Net(legs, place) ==
  SumOfLegs({l \in legs : l.to = place}) - SumOfLegs({l \in legs : l.from = place})

\* lockActiveWallets, at the start of the transaction.
LockActiveWallets(m, w, mv) ==
  /\ mover[m].at = "idle" /\ wallet[w] # NoWallet
  /\ \A v \in mv.locks : wallet[v].status = "active"
  /\ mover' = [mover EXCEPT ![m] = [at |-> "post", locks |-> mv.locks, legs |-> mv.legs]]
  /\ UNCHANGED <<mode, wallet, creating, balance, clearing, revenue>>

After(legs) == [w \in WalletIds |-> [b \in Balances |-> balance[w][b] + Net(legs, Place(w, b))]]

Covered_Ignored(legs) == TRUE

\* The ledger refuses to overdraw a wallet's account.
Covered(legs) == \A w \in WalletIds, b \in Balances : After(legs)[w][b] >= 0

\* postWithin and the commit, or the roll-back of the whole movement.
PostMovement(m) ==
  /\ mover[m].at = "post"
  /\ LET legs == mover[m].legs IN
       IF /\ Covered(legs) /\ revenue + Net(legs, FeeRevenue) >= 0
          /\ clearing - Net(legs, Outside) <= MaxFunds
       THEN /\ balance' = After(legs)
            /\ revenue' = revenue + Net(legs, FeeRevenue)
            /\ clearing' = clearing - Net(legs, Outside)
       ELSE UNCHANGED <<balance, revenue, clearing>>
  /\ mover' = [mover EXCEPT ![m] = [at |-> "idle"]]
  /\ UNCHANGED <<mode, wallet, creating>>

WalletsNext ==
  \/ \E w \in WalletIds : BeginCreate(w) \/ InsertWallet(w) \/ SetPrimary(w)
  \/ \E w \in WalletIds, status \in {"active", "frozen"} : SetWalletStatus(w, status)
  \/ \E m \in Movers, w \in WalletIds : \E mv \in Movements(w) : LockActiveWallets(m, w, mv)
  \/ \E m \in Movers : PostMovement(m)

WalletsSpec == WalletsInit /\ [][WalletsNext]_walletVars

-----------------------------------------------------------------------------
(* Properties *)

\* No wallet is overdrawn, and what came in is in the wallets or in revenue.
WalletsTypeOK ==
  /\ wallet \in [WalletIds -> [status : {"active", "frozen"}, primary : BOOLEAN] \union {NoWallet}]
  /\ \A w \in WalletIds, b \in Balances : balance[w][b] \in Nat
  /\ clearing = revenue + SumOver([p \in Places |-> balance[p.wallet][p.balance]], Places)

\* An owner with a wallet has exactly one primary wallet, whoever opens wallets or
\* switches the primary one at the same time: incoming payments have one target.
ExactlyOnePrimary ==
  \A w \in WalletIds : wallet[w] # NoWallet => Cardinality(Primaries(w)) = 1

FrozenKeeps ==
  \A w \in WalletIds : wallet[w].status = "frozen" =>
    balance'[w]["available"] + balance'[w]["pending"] >= balance[w]["available"] + balance[w]["pending"]

\* Nothing is spent from a frozen wallet, not even by a movement that began before the
\* freeze: FOR SHARE makes the freeze wait for it.  What was on hold may still come back.
FrozenSpendsNothing == [][FrozenKeeps]_walletVars

\* No wallet is overdrawn, the money that came in is all there, and every owner of a
\* wallet has one primary wallet.
WalletsAreSound == WalletsTypeOK /\ ExactlyOnePrimary
=================================================================================
