SPECIFICATION Spec
CONSTANTS
  e1 = e1
  e2 = e2
  l1 = l1
  none = none
  Entries = {e1, e2}
  Lists = {l1}
  NoList = none
  NoEntry = none
  NoPath = none
  ListOf <- OneOfEach
  MaxItems = 3
  Paths = {p1}
  Slots = {s1, s2}
  Monitor = "monitor"
  MaxAlternatives = 1
  MaxCrashes = 1
  MaxDeletes = 1
INVARIANTS
  TypeOK
  DownloadingHasOwner
  PendingIsIdle
  LiveTransferHasItem
PROPERTIES
  RestartReleasesLists
  ImplementsLifecycle
CONSTRAINT InScope
SYMMETRY Symmetry
CHECK_DEADLOCK FALSE
