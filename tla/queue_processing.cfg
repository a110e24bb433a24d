SPECIFICATION Spec
CONSTANTS
  e1 = e1
  e2 = e2
  l1 = l1
  none = none
  Entries = {e1, e2}
  Lists = {l1}
  NoList = none
  NoEntry = none
  NoPath = none
  ListOf <- OneOfEach
  MaxItems = 2
  Paths = {p1}
  Slots = {s1, s2}
  Monitor = "monitor"
  MaxAlternatives = 1
  MaxCrashes = 0
  MaxDeletes = 0
INVARIANT ProcessingHasTask
SYMMETRY Symmetry
CHECK_DEADLOCK FALSE
