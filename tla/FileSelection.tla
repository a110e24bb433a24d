--------------------------- MODULE FileSelection ---------------------------
(***************************************************************************)
(* src/src/protocol/file_selection.rs: which files of a search's results   *)
(* the queue tries, and in which order.  A filename is known by what the   *)
(* scoring can tell of it: how its track name relates to the title looked  *)
(* for, its extension, and whether it names a version the query does not.  *)
(***************************************************************************)
EXTENDS Integers, Sequences, FiniteSets

Unknown == -1     \* a bit rate that the peer did not send

TitleScores == [exact |-> 100, contains |-> 90, within |-> 70,
                words |-> 30, none |-> 0]
Formats     == {"flac", "wav", "aiff", "mp3", "ogg", "m4a", "aac", "other"}

\* bitrate matters in steps only.
File == [title    : DOMAIN TitleScores,
         format   : Formats,
         bitrate  : {Unknown, 64, 128, 192, 256, 320},
         remix    : BOOLEAN,    \* names a version, and the query does not
         extended : BOOLEAN]

\* What a peer says of itself with its files; speed in 25ths of a MB/s, queue
\* in tens of files.
Offer == [slots : BOOLEAN, speed : 0..25, queue : 0..5, files : Seq(File)]

ByStep(br, steps) ==      \* the points for the bit rate's step
  IF br >= 320 THEN steps[1] ELSE IF br >= 256 THEN steps[2]
  ELSE IF br >= 192 THEN steps[3] ELSE IF br >= 128 THEN steps[4] ELSE 0

FormatScore(f) ==
  CASE f.format = "flac" -> 30
    [] f.format \in {"wav", "aiff"} -> 25
    [] f.format = "mp3" ->
         IF f.bitrate = Unknown THEN 5 ELSE ByStep(f.bitrate, <<20, 15, 8, 2>>)
    [] f.format \in {"m4a", "aac"} -> 12
    [] f.format = "ogg" ->
         IF f.bitrate = Unknown THEN 10 ELSE ByStep(f.bitrate, <<18, 14, 8, 3>>)
    [] OTHER -> 0

\* score_file
FileScore(f) ==
  TitleScores[f.title] + FormatScore(f)
    - (IF f.remix THEN 30 ELSE 0) + (IF f.extended THEN 10 ELSE 0)

Score(offer, f) == FileScore(f) + offer.speed - offer.queue

IsAudio(f) == f.format # "other"
MatchesFormat(f, filter) == filter = "any" \/ f.format = filter

Candidate(offer, f, filter) ==
  /\ offer.slots
  /\ IsAudio(f) /\ MatchesFormat(f, filter)
  /\ Score(offer, f) > 50

\* A candidate with its place in the results and its score.
Entry(results, i, j) ==
  LET f == results[i].files[j]
  IN [from |-> i, nth |-> j, file |-> f, score |-> Score(results[i], f)]

Chosen(results, filter) ==
  UNION {{Entry(results, i, j) :
            j \in {n \in DOMAIN results[i].files : Candidate(results[i], results[i].files[n], filter)}} :
         i \in DOMAIN results}

\* The sort is stable: of equal scores the earlier result comes first.
Before(a, b) ==
  \/ a.score > b.score
  \/ a.score = b.score /\ a.from < b.from
  \/ a.score = b.score /\ a.from = b.from /\ a.nth < b.nth

\* Faulty: the lowest score first.
RankUp(cs) ==
  [n \in 1..Cardinality(cs) |-> CHOOSE c \in cs : Cardinality({d \in cs : Before(c, d)}) = n - 1]

\* The n-th candidate has n - 1 before it.
Rank(cs) ==
  [n \in 1..Cardinality(cs) |-> CHOOSE c \in cs : Cardinality({d \in cs : Before(d, c)}) = n - 1]

\* find_best_files; results is a sequence of offers.
FindBestFiles(results, filter) == Rank(Chosen(results, filter))
=============================================================================
