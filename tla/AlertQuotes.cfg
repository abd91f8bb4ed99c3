SPECIFICATION FairSpec
CONSTANTS
  None = None
  a1 = a1
  a2 = a2
  Alerts = {a1, a2}
  Direction <- MCDirection
  Prices = {0, 2}
  Level = 1
  Capacity = 1
  Limit = 2
  MaxEvents = 3
  MaxGen = 2
  MaxErrors = 1
  MaxSleeps = 1
CHECK_DEADLOCK FALSE
INVARIANTS
  CrossingsAreSeen
PROPERTIES
  EventsArePassed
