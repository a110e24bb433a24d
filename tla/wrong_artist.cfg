SPECIFICATION Spec
CONSTANTS
  Requests = {q1, q2}
  Names = {"n"}
  Founders = 2
  MaxId = 4
  MaxToken = 3
  Users = {"u", "v"}
  ExternalAccounts = {"a", "b"}
  MaxFlow = 2
  MaxGrant = 3
  Items = {"i"}
  Pages = {"p"}
  MaxMessage = 3
  PageSize = 1
  Backlog = 2
  Tracks = {"t", "u"}
  Words = {"w", "x"}
  WordsOf <- MCWordsOf
  Arts = {"art"}
  Inside = {}
  Precise = {"u"}
  QueryOf <- LongQueryOf
  Answers <- LongAnswers
  MaxLookups = 2
SYMMETRY RequestSymmetry
INVARIANT NoWrongArtist
CHECK_DEADLOCK FALSE
