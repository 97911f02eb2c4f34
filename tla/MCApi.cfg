SPECIFICATION ApiSpec
CONSTANTS
  alice = alice
  bob = bob
  c1 = c1
  c2 = c2
  k1 = k1
  k2 = k2
  Users = {alice, bob}
  StartRoles <- MCStartRoles
  Requests = {r1, r2, r3}
  MaxTokens = 3
  People = {p, q}
  OrgRequests = {r1, r2}
  Keys = {key}
  KeyScopes <- MCKeyScopes
  MaxMemberships = 3
  Calls = {c1, c2}
  KeyNames = {k1, k2}
  Bodies <- MCBodies
  Rules <- MCRules
  Deposit = 3
  MaxRows = 2
  MaxRuleChanges = 1
  MaxFailures = 1
  WalletIds = {"aUSD", "aNGN", "bUSD"}
  OwnerOf <- MCOwnerOf
  CurrencyOf <- MCCurrencyOf
  Movers = {m1}
  MaxFunds = 2
  Admins = {a1, a2}
  Quoters = {q1}
  Schedules <- MCSchedules
  MaxRules = 2
  MaxQuoted = 2
  Bps = 10
  FxCurrencies = {"USD", "JPY"}
  MinorUnit <- MCMinorUnit
  RateScale = 2
  SpreadScale = 10
  Spread = 2
  ScaledRates = {3}
  MaxRates = 1
  MaxQuotes = 2
  MaxAsked = 2
  Converters = {v1, v2}
  MaxAmount = 6
INVARIANTS
  SessionsAreSafe
  AuthorityIsSound
  RequestsAreHonoured
  WalletsAreSound
  FeesAreSound
  QuotesAreSound
  RefundsAddUp
PROPERTIES
  RemovalLeavesAnAdmin
  OwnerLostOnlyToStaleRole
  AnswersAreKept
  FrozenSpendsNothing
CHECK_DEADLOCK FALSE
