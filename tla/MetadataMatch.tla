---------------------------- MODULE MetadataMatch ----------------------------
(***************************************************************************)
(* Which of MusicBrainz's answers to a query is taken for the track        *)
(* (src/src/services/metadata/musicbrainz.rs).  A name is the sequence of  *)
(* its words, in lower case and without the stop words, all of a length    *)
(* that counts.                                                            *)
(***************************************************************************)
EXTENDS Integers, Sequences, FiniteSets

CONSTANTS Inside      \* pairs <<w, v>> of different words, w a part of v

NoMatch == [artist |-> <<>>, title |-> <<>>]

MinMatchScore == 20

IsName(name) == name \in Seq({name[n] : n \in DOMAIN name})

Related(w, v)     == w = v \/ <<w, v>> \in Inside
Contains(name, w) == \E n \in DOMAIN name : Related(w, name[n])
Says(name, w)     == \E n \in DOMAIN name : name[n] = w

Hits(name, query)  == Cardinality({n \in DOMAIN query : Contains(name, query[n])})
Exact(name, query) == Cardinality({n \in DOMAIN query : Says(name, query[n])})

Foreign(name, query) ==
  Cardinality({n \in DOMAIN name :
    \A m \in DOMAIN query : ~Related(name[n], query[m]) /\ ~Related(query[m], name[n])})

ArtistMatched(rec, query) == Hits(rec.artist, query) > 0

If(condition, points) == IF condition THEN points ELSE 0

Score(rec, query) ==
  10 * (Hits(rec.artist, query) + Hits(rec.title, query))
    + 5 * (Exact(rec.artist, query) + Exact(rec.title, query))
    + If(query \in {rec.artist, rec.title}, 50)
    - If(~ArtistMatched(rec, query), 50)
    + If(ArtistMatched(rec, query) /\ Hits(rec.title, query) > 0, 20)
    - 2 * (Foreign(rec.artist, query) + Foreign(rec.title, query))

\* The first of the best, if it is good enough.
SelectBestMatch(query, recs) ==
  LET best == {n \in DOMAIN recs : \A m \in DOMAIN recs :
                 \/ Score(recs[n], query) > Score(recs[m], query)
                 \/ Score(recs[n], query) = Score(recs[m], query) /\ n <= m}
      good == {n \in best : Score(recs[n], query) >= MinMatchScore}
  IN IF good = {} THEN NoMatch ELSE recs[CHOOSE n \in good : TRUE]

\* With artist and title given apart, the first answer is taken as it is.
FirstAnswer(recs) == IF recs = <<>> THEN NoMatch ELSE recs[1]
==============================================================================
