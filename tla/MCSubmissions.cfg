SPECIFICATION SubmissionsSpec
CONSTANTS
  Workers = {w1, w2}
  BatchWorkers = {}
  MaxSends = 2
  Amount = 2
  Fee = 1
PROPERTIES
  MoneyLeavesOnce
  OutcomesAreBooked
CHECK_DEADLOCK FALSE
