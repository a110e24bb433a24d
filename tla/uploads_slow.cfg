SPECIFICATION FairSpec
CONSTANTS
  f1 = f1
  Uploads = {u1}
  Files = {f1}
  FileOf <- OneFile
  FileSize = 2
  Chunk = 2
  SlotChoices = {1, 2}
  RateChoices = {0, 1}
  InitialConfig <- SlowConfig
  Admins = {a1}
  MaxUpdates = 1
  Second = 1
  MaxClock = 2
PROPERTY
  ConsumeReturns
CHECK_DEADLOCK FALSE
