SPECIFICATION Spec
CONSTANTS
  Requests = {q1}
  Tracks = {"t"}
  Words = {"w"}
  WordsOf <- MCWordsOf
  Arts = {"art"}
  Inside = {}
  Precise = {}
  QueryOf <- MCQueryOf
  Answers <- MCAnswers
  MaxLookups = 2
INVARIANT SizeOnDisk
CHECK_DEADLOCK FALSE
