SPECIFICATION FairSpec
CONSTANTS
  Accounts <- FxAccounts
  AccountId <- FxIds
  Currency <- FxCurrency
  DebitNormal <- Positions
  AllowNegative <- Positions
  Callers = {c1, c2}
  References <- OneWayReferences
  Programs <- OneWayPrograms
  ReversalReferences <- UndoOnce
  NoReference = NoReference
  Nobody = Nobody
INVARIANTS
  AcknowledgedIsPosted
  BooksBalance
PROPERTIES
  CallsReturn
