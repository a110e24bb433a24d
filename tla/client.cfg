SPECIFICATION Spec
CONSTANTS
  d1 = d1
  d2 = d2
  peer = peer
  Downloads = {d1, d2}
  Peers = {peer}
  Callers <- MCCallers
  PeerOf <- MCPeerOf
  Tokens = {t1, t2}
  NoToken = NoToken
  NoDownload = NoDownload
  MaxSize = 1
  s1 = s1
  s2 = s2
  r1 = r1
  r2 = r2
  Searches = {s1, s2}
  Responses = {r1, r2}
  SearchOf <- MCSearchOf
  OfferOf <- MCOfferOf
  FilterOf <- MCFilterOf
  Oversized = {r2}
  Permits = 1
  Capacity = 1
  Few = 1
  Many = 2
INVARIANTS
  TransfersTypeOK
  WaiterIsWaiting
  ConnectionsReachTheirDownload
  AddressReplyNotLost
  SearchesTypeOK
  NothingLeftBehind
  EarlyResultsReturned
  ResultsAreOwnAndDistinct
  ExactMatchOffered
  PermitsAtWork
PROPERTIES
  ImplementsOutcome
  CallsEnd
  SearchEnds
CHECK_DEADLOCK FALSE
