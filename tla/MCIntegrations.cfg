SPECIFICATION IntegrationsSpec
CONSTANTS
  DeliverTries = 2
  DisableAfter = 2
  MaxRedeliveries = 1
  MaxFaults = 1
  MaxUpdates = 1
  MaxSecrets = 3
  PageSize = 2
  OtherRefunds = 2
  MaxAttempts = 5
  Currencies = {"NGN", "JPY"}
  MaxEnabled = 2
  DailyJobs = {d1, d2}
  AdminRuns = {a}
  MaxTroubles = 1
INVARIANTS
  DeliveriesAreSound
  EndpointsAreSound
  RequestsMadeOnce
  RoutedCanBeServed
  ReconciliationIsComplete
PROPERTIES
  StatusesAreKept
CHECK_DEADLOCK FALSE
