SPECIFICATION FairSpec
CONSTANTS
  e1 = e1
  e2 = e2
  l1 = l1
  none = none
  Entries = {e1}
  Lists = {l1}
  NoList = none
  NoEntry = none
  NoPath = none
  ListOf <- OneStandalone
  MaxItems = 3
  Paths = {p1}
  Slots = {s1, s2}
  Monitor = "monitor"
  MaxAlternatives = 1
  MaxCrashes = 1
  MaxDeletes = 0
PROPERTIES
  QueueDrains
  DownloadsResolve
CHECK_DEADLOCK FALSE
