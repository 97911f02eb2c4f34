SPECIFICATION Spec
CONSTANTS
  Accounts <- FxAccounts
  AccountId <- FxIds
  Currency <- FxCurrency
  DebitNormal <- Positions
  AllowNegative <- FxAllowNegative
  Callers = {c1, c2}
  References <- FxReferences
  Programs <- FxPrograms
  ReversalReferences <- NoUndo
  NoReference = NoReference
  Nobody = Nobody
INVARIANT
  NoWaitCycle
