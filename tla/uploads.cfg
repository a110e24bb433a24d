SPECIFICATION FairSpec
CONSTANTS
  f1 = f1
  Uploads = {u1, u2}
  Files = {f1}
  FileOf <- OneFile
  FileSize = 2
  Chunk = 1
  SlotChoices = {1, 2}
  RateChoices = {0, 1}
  InitialConfig <- FullConfig
  Admins = {a1}
  MaxUpdates = 1
  Second = 1
  MaxClock = 2
INVARIANTS
  TypeOK
  ActiveIsRunning
  SlotsRespected
  RateLimitHolds
PROPERTIES
  PlaceOnlyImproves
  UploadsFinish
CHECK_DEADLOCK FALSE
