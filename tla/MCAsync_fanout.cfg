SPECIFICATION AsyncSpec
CONSTANTS
  Rows <- IntakeRows
  Relays = {r1}
  MaxAttempts = 2
  MaxFailures = 1
  Clients = {c1, c2}
  Verifiers = {c1}
  Events = {e1}
  MaxReplays = 1
  Occurrences <- MCOccurrences
  AdminsOf <- MCAdminsOf
  EventTries = 2
  MaxEventFaults = 1
  ProposalIds = {p1, p2}
  Deciders = {d1, d2}
  PoolMax = 5
  MaxOutages = 2
INVARIANT HandledIsQueued
CHECK_DEADLOCK FALSE
