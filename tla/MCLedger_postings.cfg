SPECIFICATION Spec
CONSTANTS
  Accounts <- WalletAccounts
  AccountId <- WalletIds
  Currency <- OneCurrency
  DebitNormal <- Clearing
  AllowNegative <- Clearing
  Callers = {c1, c2, c3}
  References <- WalletReferences
  Programs <- WalletPrograms
  ReversalReferences <- UndoTwice
  NoReference = NoReference
  Nobody = Nobody
SYMMETRY CallerSymmetry
INVARIANTS
  TypeOK
  NoOverdraft
  OnePostingPerReference
  ReversedAtMostOnce
  NoWaitCycle
