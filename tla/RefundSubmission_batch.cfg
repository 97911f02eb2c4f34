SPECIFICATION Spec
CONSTANTS
  Workers = {w1, w2}
  BatchWorkers = {w2}
  MaxSends = 2
INVARIANT
  NeverSentTwice
CHECK_DEADLOCK FALSE
