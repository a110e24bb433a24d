------------------------------ MODULE MCServices ------------------------------
(* What the program does beside its queue.  The parts share the request      *)
(* slots and none of their state, so a behaviour of several is an            *)
(* interleaving that none can tell from one of its own (ServicesProofs,      *)
(* PartsBesideOthers): TLC takes them one at a time (part), each with two    *)
(* concurrent requests, but for the metadata lookups, whose background tasks *)
(* are concurrency enough for one request.  The requests are symmetric.      *)
(* ShareIndex and Metadata do share the files; MCSharedSizes composes them,  *)
(* here each has them to itself.                                             *)
EXTENDS Services, TLC

VARIABLE part

vars == <<servicesVars, part>>

MCWordsOf == "t" :> <<"w", "w", "x">> @@ "u" :> <<"w">>

\* The recordings of an answer: another artist's of the same title, and the right one.
MCQueryOf == "t" :> <<"a", "b", "c", "d">> @@ "u" :> <<"a", "b">>
Foreigner == [artist |-> <<"z">>, title |-> <<"b", "c", "d">>]
Right     == [artist |-> <<"a">>, title |-> <<"b">>]
MCAnswers == {<<>>, <<Foreigner>>, <<Foreigner, Right>>}

\* A query of an artist and a title of five words, and another artist's of the same title.
LongQueryOf == "t" :> <<"a", "b", "c", "d", "e", "f">> @@ "u" :> <<"a", "b">>
LongAnswers == {<<>>, <<[artist |-> <<"z">>, title |-> <<"b", "c", "d", "e", "f">>]>>}

Init ==
  /\ AccountsInit /\ OAuthInit /\ EventsInit /\ ShareInit /\ MetadataInit /\ RequestsInit
  /\ part \in {"accounts", "oauth", "events", "shares", "metadata"}
  /\ IF part = "metadata" THEN FullFolder ELSE EmptyFolder

Next ==
  /\ \/ part = "accounts" /\ AccountsTurn
     \/ part = "oauth" /\ OAuthTurn
     \/ part = "events" /\ EventsTurn
     \/ /\ part = "shares" /\ ShareNext
        /\ UNCHANGED <<accountVars, oauthVars, eventVars, libraryVars>>
     \/ /\ part = "metadata" /\ MetadataNext
        /\ Cardinality({r \in Requests : ~Arrives(r)'}) <= 1
        /\ UNCHANGED <<accountVars, oauthVars, eventVars, indexVars>>
  /\ UNCHANGED part

Spec == Init /\ [][Next]_vars

TypeOK ==
  /\ AccountsTypeOK /\ OAuthTypeOK /\ EventsTypeOK /\ ShareTypeOK /\ MetadataTypeOK
  /\ req \in [Requests -> CASE part = "accounts" -> AccountRequest
                            [] part = "oauth"    -> OAuthRequest
                            [] part = "events"   -> EventRequest
                            [] part = "shares"   -> ShareRequest
                            [] part = "metadata" -> MetadataRequest]

RequestSymmetry == Permutations(Requests)

\* Of the two tracks a lookup follows the download of one, and only its format
\* takes tags; requests and jobs are about both.
InScope == part = "metadata" => task["u"] = Idle /\ disk["u"] = Whole
===============================================================================
