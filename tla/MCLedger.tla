------------------------------- MODULE MCLedger -------------------------------
(***************************************************************************)
(* Small instances of Ledger: one wallet's accounts against the clearing   *)
(* account in one currency, and two wallets with the FX position accounts  *)
(* of two currencies.                                                      *)
(***************************************************************************)
EXTENDS Ledger, TLC

\* A posting that moves amount from the debited to the credited account.
Move(reference, from, to, amount) ==
  [reference |-> reference, currency |-> Currency[from],
   debit |-> [a \in Accounts |-> IF a = from THEN amount ELSE 0],
   credit |-> [a \in Accounts |-> IF a = to THEN amount ELSE 0],
   reversalOf |-> NoReference]

-----------------------------------------------------------------------------
\* One wallet: available and reserved money, and the clearing account.
WalletAccounts == {"available", "clearing", "reserved"}
WalletIds == [a \in WalletAccounts |->
                CASE a = "available" -> 1 [] a = "clearing" -> 2 [] a = "reserved" -> 3]
OneCurrency == [a \in WalletAccounts |-> "NGN"]
Clearing == {"clearing"}

Deposit == Move("deposit", "clearing", "available", 2)
Hold == Move("hold", "available", "reserved", 2)
Withdraw == Move("withdraw", "available", "clearing", 1)

WalletPrograms == {<<Deposit>>, <<Hold>>, <<Withdraw>>}
WalletReferences == {"deposit", "hold", "withdraw", "undo", "undo2"}

UndoOnce == {"undo"}
UndoTwice == {"undo", "undo2"}
NoUndo == {}

-----------------------------------------------------------------------------
\* Two currencies: a wallet and the FX position account of each.
FxAccounts == {"walletNGN", "positionNGN", "walletUSD", "positionUSD"}
FxIds == [a \in FxAccounts |->
            CASE a = "walletNGN" -> 1 [] a = "positionNGN" -> 2
              [] a = "walletUSD" -> 3 [] a = "positionUSD" -> 4]
FxCurrency == [a \in FxAccounts |-> IF a \in {"walletNGN", "positionNGN"} THEN "NGN" ELSE "USD"]
Positions == {"positionNGN", "positionUSD"}

\* FxService.convertWithin: the source leg, then the target leg.
ToUSD == <<Move("toUSD-source", "walletNGN", "positionNGN", 1),
           Move("toUSD-target", "positionUSD", "walletUSD", 1)>>
ToNGN == <<Move("toNGN-source", "walletUSD", "positionUSD", 1),
           Move("toNGN-target", "positionNGN", "walletNGN", 1)>>
FxPrograms == {ToUSD, ToNGN}
\* One direction only, after a deposit that callers repeat, repeat with another
\* amount, or get wrong so that debits and credits differ.
FundNGN == Move("fund", "positionNGN", "walletNGN", 1)
OtherFund == Move("fund", "positionNGN", "walletNGN", 2)
Unbalanced == [FundNGN EXCEPT !.credit["walletNGN"] = 2]
OneWayPrograms == {<<FundNGN>>, <<OtherFund>>, <<Unbalanced>>, ToUSD}
OneWayReferences == {"fund", "toUSD-source", "toUSD-target", "undo", "undo2"}
FxReferences == {"toUSD-source", "toUSD-target", "toNGN-source", "toNGN-target"}
\* Wallets are funded elsewhere: here every account may go below zero.
FxAllowNegative == FxAccounts

CallerSymmetry == Permutations(Callers)
==============================================================================
