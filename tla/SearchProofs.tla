--------------------------- MODULE SearchProofs ---------------------------
(***************************************************************************)
(* What a search leaves behind and returns, and the permits of the tasks   *)
(* that bring it results, for any number of searches and responses.        *)
(***************************************************************************)
EXTENDS Searches, FiniteSetTheorems, TLAPS

Collecting == {"check", "wait", "collect"}
Over       == {"grace", "untoken", "unbucket", "results", "empty"}

SearchState == [pc : SearchLabels, age : Ages, quiet : BOOLEAN, got : Seq(Responses)]

In(r, q)    == \E i \in 1..Len(q) : q[i] = r
Distinct(q) == \A i, j \in 1..Len(q) : q[i] = q[j] => i = j
Apart(p, q) == \A i \in 1..Len(p), j \in 1..Len(q) : p[i] # q[j]

\* The mutex is held by a dispatch that has found its token active.
Lock ==
  /\ locked # Nobody => resp[locked] = "checked" /\ SearchOf[locked] \in active
  /\ \A r \in Responses : resp[r] = "checked" => locked = r

\* A search that has not begun or has removed its token is not active.
Tokens ==
  \A s \in Searches :
    /\ search[s].pc \in {"idle", "unbucket", "results", "empty"} => s \notin active
    /\ search[s].pc \in {"results", "empty"} => s \notin buckets

\* The bucket and the results taken so far hold delivered responses to the
\* search, none of them twice.
Delivered(q, s) ==
  \A i \in 1..Len(q) : resp[q[i]] = "delivered" /\ SearchOf[q[i]] = s

Contents ==
  \A s \in Searches :
    /\ Delivered(search[s].got, s) /\ Distinct(search[s].got)
    /\ Delivered(bucket[s], s) /\ Distinct(bucket[s])
    /\ Apart(search[s].got, bucket[s])

\* An early result is in the bucket until it has been taken.
Kept(r) ==
  LET s == SearchOf[r] IN
  \/ search[s].pc \in Collecting /\ In(r, bucket[s])
  \/ search[s].pc \in Over /\ In(r, search[s].got)

IInv == /\ SearchesTypeOK /\ Lock /\ PermitsAtWork /\ Tokens /\ Contents
        /\ \A r \in early : Kept(r)

-----------------------------------------------------------------------------
(* Sequences of responses *)

LEMMA ConcatFacts ==
  ASSUME NEW S, NEW p \in Seq(S), NEW q \in Seq(S),
         Distinct(p), Distinct(q), Apart(p, q)
  PROVE  /\ p \o q \in Seq(S) /\ Distinct(p \o q)
         /\ \A r : In(r, p) \/ In(r, q) => In(r, p \o q)
         /\ \A r : In(r, p \o q) => In(r, p) \/ In(r, q)
<1>1. /\ p \o q \in Seq(S) /\ Len(p \o q) = Len(p) + Len(q)
      /\ \A i \in 1..Len(p) : (p \o q)[i] = p[i]
      /\ \A i \in 1..Len(q) : (p \o q)[Len(p) + i] = q[i]
      /\ Len(p) \in Nat /\ Len(q) \in Nat
  OBVIOUS
<1>2. \A i \in 1..Len(p \o q) :
        \/ i \in 1..Len(p) /\ (p \o q)[i] = p[i]
        \/ \E k \in 1..Len(q) : i = Len(p) + k /\ (p \o q)[i] = q[k]
  <2>1. ASSUME NEW i \in 1..Len(p \o q), i \notin 1..Len(p)
        PROVE  \E k \in 1..Len(q) : i = Len(p) + k
    <3>1. i - Len(p) \in 1..Len(q) /\ i = Len(p) + (i - Len(p))
      BY <1>1, <2>1
    <3> QED
      BY <3>1
  <2> QED
    BY <1>1, <2>1
<1>3. Distinct(p \o q)
  <2>1. SUFFICES ASSUME NEW i \in 1..Len(p \o q), NEW j \in 1..Len(p \o q),
                        (p \o q)[i] = (p \o q)[j]
                 PROVE  i = j
    BY DEF Distinct
  <2> QED
    BY <1>2, <2>1 DEF Distinct, Apart
<1>4. ASSUME NEW r, In(r, p) \/ In(r, q) PROVE In(r, p \o q)
  <2>1. CASE In(r, p)
    BY <1>1, <2>1 DEF In
  <2>2. CASE In(r, q)
    <3>1. PICK k \in 1..Len(q) : q[k] = r
      BY <2>2 DEF In
    <3>2. Len(p) + k \in 1..Len(p \o q) /\ (p \o q)[Len(p) + k] = r
      BY <1>1, <3>1
    <3> QED
      BY <3>2 DEF In
  <2> QED
    BY <1>4, <2>1, <2>2
<1>5. \A r : In(r, p \o q) => In(r, p) \/ In(r, q)
  BY <1>2 DEF In
<1> QED
  BY <1>1, <1>3, <1>4, <1>5

LEMMA AppendFacts ==
  ASSUME NEW S, NEW q \in Seq(S), NEW r \in S, Distinct(q), ~In(r, q)
  PROVE  /\ Append(q, r) \in Seq(S) /\ Distinct(Append(q, r))
         /\ \A x : In(x, Append(q, r)) <=> In(x, q) \/ x = r
<1>1. /\ Append(q, r) \in Seq(S) /\ Len(Append(q, r)) = Len(q) + 1 /\ Len(q) \in Nat
      /\ \A i \in 1..Len(q) : Append(q, r)[i] = q[i]
      /\ Append(q, r)[Len(q) + 1] = r
  OBVIOUS
<1>2. \A i \in 1..(Len(q) + 1) : i \in 1..Len(q) \/ i = Len(q) + 1
  BY <1>1
<1>3. 1..Len(q) \subseteq 1..(Len(q) + 1) /\ Len(q) + 1 \in 1..(Len(q) + 1)
  BY <1>1
<1> QED
  BY <1>1, <1>2, <1>3 DEF Distinct, In

\* What a sequence of delivered responses does not hold.
LEMMA NotDelivered ==
  ASSUME NEW q, NEW s, NEW r, Delivered(q, s), resp[r] # "delivered"
  PROVE  ~In(r, q)
BY DEF Delivered, In

-----------------------------------------------------------------------------
(* Actions *)

LEMMA InitIInv == SearchesInit => IInv
<1> SUFFICES ASSUME SearchesInit PROVE IInv
  OBVIOUS
<1> USE DEF SearchesInit
<1>1. SearchesTypeOK
  BY DEF SearchesTypeOK, SearchLabels, Ages, Places, NoMail
<1>2. Lock /\ PermitsAtWork /\ Tokens
  BY DEF Lock, PermitsAtWork, Tokens
<1>3. Contents
  BY DEF Contents, Delivered, Distinct, Apart
<1> QED
  BY <1>1, <1>2, <1>3 DEF IInv

-----------------------------------------------------------------------------
(* Steps of a search *)

\* A search goes on and leaves results and buckets as they are.
LEMMA MoveInv ==
  ASSUME IInv, NEW s \in Searches,
         search' \in [Searches -> SearchState],
         \A x \in Searches : x # s => search'[x] = search[x],
         search'[s].got = search[s].got,
         inbox' \in [Searches -> [msgs : Seq(Searches), lagged : BOOLEAN]],
         UNCHANGED <<buckets, bucket, peerVars, early>>,
         active' \subseteq Searches,
         \A x \in Searches : x # s => (x \in active' <=> x \in active),
         active' = active \/ Free,
         search'[s].pc \in {"idle", "unbucket"} => s \notin active',
         search'[s].pc \notin {"results", "empty"},
         search[s].pc \in Collecting => search'[s].pc \in Collecting,
         search[s].pc \in Over => search'[s].pc \in Over
  PROVE  IInv'
<1> USE DEF IInv, peerVars
<1>1. SearchesTypeOK'
  BY DEF SearchesTypeOK, SearchState
<1>2. Lock' /\ PermitsAtWork'
  BY DEF Lock, PermitsAtWork, Free
<1>3. Tokens'
  BY DEF Tokens
<1>4. Contents'
  <2>1. ASSUME NEW x \in Searches
        PROVE  /\ Delivered(search[x].got, x)' /\ Distinct(search[x].got)'
               /\ Delivered(bucket[x], x)' /\ Distinct(bucket[x])'
               /\ Apart(search[x].got, bucket[x])'
    <3>1. bucket'[x] = bucket[x] /\ resp' = resp /\ search'[x].got = search[x].got
      OBVIOUS
    <3> QED
      BY <3>1 DEF Contents, Delivered
  <2> QED
    BY <2>1 DEF Contents
<1>5. (\A r \in early : Kept(r))'
  <2>1. ASSUME NEW r \in early PROVE Kept(r)'
    <3>1. Kept(r) /\ SearchOf[r] \in Searches
      BY SearchOfAssumption DEF SearchesTypeOK
    <3>2. CASE SearchOf[r] = s
      BY <3>1, <3>2 DEF Kept
    <3>3. CASE SearchOf[r] # s
      BY <3>1, <3>3 DEF Kept
    <3> QED
      BY <3>2, <3>3
  <2> QED
    BY <2>1
<1> QED
  BY <1>1, <1>2, <1>3, <1>4, <1>5

\* A search empties its bucket, after it has taken from it what it needs.
LEMMA TakeInv ==
  ASSUME IInv, NEW s \in Searches,
         search' \in [Searches -> SearchState],
         \A x \in Searches : x # s => search'[x] = search[x],
         inbox' \in [Searches -> [msgs : Seq(Searches), lagged : BOOLEAN]],
         UNCHANGED <<active, peerVars, early>>,
         bucket' = [bucket EXCEPT ![s] = <<>>],
         buckets' \subseteq Searches,
         \A x \in Searches : x # s => (x \in buckets' <=> x \in buckets),
         search'[s].pc \in {"idle", "unbucket", "results", "empty"} => s \notin active,
         search'[s].pc \in {"results", "empty"} => s \notin buckets',
         Delivered(search'[s].got, s), Distinct(search'[s].got),
         \A r \in early : SearchOf[r] = s =>
           search'[s].pc \in Over /\ In(r, search'[s].got)
  PROVE  IInv'
<1> USE DEF IInv, peerVars
<1>0. /\ bucket' \in [Searches -> Seq(Responses)] /\ bucket'[s] = <<>>
      /\ \A x \in Searches : x # s => bucket'[x] = bucket[x]
  BY DEF SearchesTypeOK
<1>1. SearchesTypeOK'
  BY <1>0 DEF SearchesTypeOK, SearchState
<1>2. Lock' /\ PermitsAtWork'
  BY DEF Lock, PermitsAtWork
<1>3. Tokens'
  BY DEF Tokens
<1>4. Contents'
  <2>1. ASSUME NEW x \in Searches, x # s
        PROVE  /\ Delivered(search[x].got, x)' /\ Distinct(search[x].got)'
               /\ Delivered(bucket[x], x)' /\ Distinct(bucket[x])'
               /\ Apart(search[x].got, bucket[x])'
    <3>1. bucket'[x] = bucket[x] /\ resp' = resp /\ search'[x] = search[x]
      BY <1>0, <2>1
    <3> QED
      BY <3>1 DEF Contents, Delivered
  <2>2. /\ Delivered(search[s].got, s)' /\ Distinct(search[s].got)'
        /\ Delivered(bucket[s], s)' /\ Distinct(bucket[s])'
        /\ Apart(search[s].got, bucket[s])'
    BY <1>0 DEF Delivered, Distinct, Apart
  <2> QED
    BY <2>1, <2>2 DEF Contents
<1>5. (\A r \in early : Kept(r))'
  <2>1. ASSUME NEW r \in early PROVE Kept(r)'
    <3>1. Kept(r) /\ SearchOf[r] \in Searches
      BY SearchOfAssumption DEF SearchesTypeOK
    <3>2. CASE SearchOf[r] = s
      BY <3>1, <3>2 DEF Kept
    <3>3. CASE SearchOf[r] # s
      BY <1>0, <3>1, <3>3 DEF Kept
    <3> QED
      BY <3>2, <3>3
  <2> QED
    BY <2>1
<1> QED
  BY <1>1, <1>2, <1>3, <1>4, <1>5

\* What changing the place of a search does.
LEMMA GotoFacts ==
  ASSUME SearchesTypeOK, NEW s \in Searches, NEW label \in SearchLabels, SearchGoto(s, label)
  PROVE  /\ search' \in [Searches -> SearchState]
         /\ \A x \in Searches : x # s => search'[x] = search[x]
         /\ search'[s].got = search[s].got /\ search'[s].pc = label
BY DEF SearchesTypeOK, SearchGoto, SearchState

LEMMA ReceiveFacts ==
  ASSUME SearchesTypeOK, NEW s \in Searches, Mail(s), inbox' = Receive(s)
  PROVE  inbox' \in [Searches -> [msgs : Seq(Searches), lagged : BOOLEAN]]
<1>1. inbox[s] \in [msgs : Seq(Searches), lagged : BOOLEAN]
  BY DEF SearchesTypeOK
<1>2. CASE inbox[s].lagged
  BY <1>1, <1>2 DEF Receive, SearchesTypeOK
<1>3. CASE ~inbox[s].lagged
  <2>1. inbox[s].msgs # <<>>
    BY <1>1, <1>3 DEF Mail, NoMail
  <2>2. Tail(inbox[s].msgs) \in Seq(Searches)
    BY <1>1, <2>1
  <2> QED
    BY <1>1, <1>3, <2>2 DEF Receive, SearchesTypeOK
<1> QED
  BY <1>2, <1>3

\* The steps that only go on.
LEMMA WalkInv ==
  ASSUME IInv, NEW s \in Searches,
         AddToken(s) \/ Send(s) \/ Check(s) \/ GraceEnds(s) \/ RemoveToken(s)
  PROVE  IInv'
<1> USE DEF IInv
<1>1. inbox' \in [Searches -> [msgs : Seq(Searches), lagged : BOOLEAN]]
      /\ UNCHANGED <<buckets, bucket, peerVars, early>>
  BY DEF SearchesTypeOK, AddToken, Send, Check, GraceEnds, RemoveToken, sharedVars
<1>2. active \subseteq Searches
  BY DEF SearchesTypeOK
<1>3. CASE AddToken(s)
  <2>1. /\ search[s].pc = "idle" /\ Free /\ active' = active \cup {s} /\ SearchGoto(s, "bucket")
    BY <1>3 DEF AddToken, SearchAt
  <2> QED
    BY <1>1, <1>2, <2>1, GotoFacts, MoveInv DEF SearchLabels, Collecting, Over
<1>4. CASE RemoveToken(s)
  <2>1. /\ search[s].pc = "untoken" /\ Free /\ active' = active \ {s} /\ SearchGoto(s, "unbucket")
    BY <1>4 DEF RemoveToken, SearchAt
  <2> QED
    BY <1>1, <1>2, <2>1, GotoFacts, MoveInv DEF SearchLabels, Collecting, Over
<1>5. CASE Send(s) \/ Check(s) \/ GraceEnds(s)
  <2>1. PICK label \in SearchLabels :
          /\ SearchGoto(s, label) /\ active' = active
          /\ label \notin {"idle", "unbucket", "results", "empty"}
          /\ search[s].pc \in Collecting => label \in Collecting
          /\ search[s].pc \in Over => label \in Over
    BY <1>5 DEF Send, Check, GraceEnds, SearchAt, SearchLabels, Collecting, Over, sharedVars
  <2> QED
    BY <1>1, <1>2, <2>1, GotoFacts, MoveInv
<1> QED
  BY <1>3, <1>4, <1>5

\* The steps that change the clock of a search too.
LEMMA TimeInv ==
  ASSUME IInv, NEW s \in Searches, Tick(s) \/ Quiet(s) \/ Wait(s)
  PROVE  IInv'
<1> USE DEF IInv
<1>1. /\ UNCHANGED <<active, buckets, bucket, peerVars, early>>
      /\ search[s].pc \in Collecting
  BY DEF Tick, Quiet, Wait, SearchAt, Collecting, sharedVars
<1>2. inbox' \in [Searches -> [msgs : Seq(Searches), lagged : BOOLEAN]]
  BY ReceiveFacts DEF SearchesTypeOK, Tick, Quiet, Wait
<1>3. /\ search' \in [Searches -> SearchState]
      /\ \A x \in Searches : x # s => search'[x] = search[x]
      /\ search'[s].got = search[s].got /\ search'[s].pc \in Collecting
  <2>0. search \in [Searches -> SearchState] /\ search[s] \in SearchState
    BY DEF SearchesTypeOK, SearchState
  <2>1. CASE Tick(s)
    <3>1. PICK age \in Ages : search' = [search EXCEPT ![s].age = age]
      BY <2>1 DEF Tick, Ages
    <3> QED
      BY <1>1, <2>0, <3>1 DEF SearchState
  <2>2. CASE Quiet(s)
    BY <1>1, <2>0, <2>2 DEF Quiet, SearchState
  <2>3. CASE Wait(s)
    <3>1. PICK quiet \in BOOLEAN : search' = [search EXCEPT ![s].pc = "check", ![s].quiet = quiet]
      BY <2>0, <2>3 DEF Wait, SearchState
    <3>2. [search[s] EXCEPT !.pc = "check", !.quiet = quiet] \in SearchState
      BY <2>0 DEF SearchState, SearchLabels
    <3> QED
      BY <2>0, <3>1, <3>2 DEF SearchState, Collecting
  <2> QED
    BY <2>1, <2>2, <2>3
<1>4. active \subseteq Searches
  BY DEF SearchesTypeOK
<1> QED
  BY <1>1, <1>2, <1>3, <1>4, MoveInv DEF Collecting, Over

\* The steps that take or empty the bucket.
LEMMA BucketInv ==
  ASSUME IInv, NEW s \in Searches,
         AddBucket(s) \/ Collect(s) \/ Grace(s) \/ RemoveBucket(s)
  PROVE  IInv'
<1> USE DEF IInv
<1>1. /\ search \in [Searches -> SearchState] /\ search[s] \in SearchState
      /\ bucket[s] \in Seq(Responses) /\ buckets \subseteq Searches
      /\ inbox \in [Searches -> [msgs : Seq(Searches), lagged : BOOLEAN]]
  BY DEF SearchesTypeOK, SearchState
<1>2. /\ UNCHANGED <<active, peerVars, early>>
      /\ bucket' = [bucket EXCEPT ![s] = <<>>]
      /\ buckets' = buckets \cup {s} \/ buckets' = buckets \ {s}
  BY DEF AddBucket, Collect, Grace, RemoveBucket, TakeBucket
<1>3. /\ Delivered(search[s].got, s) /\ Distinct(search[s].got)
      /\ Delivered(bucket[s], s) /\ Distinct(bucket[s])
      /\ Apart(search[s].got, bucket[s])
  BY DEF Contents
<1>4. inbox' \in [Searches -> [msgs : Seq(Searches), lagged : BOOLEAN]]
  <2>1. NoMail \in [msgs : Seq(Searches), lagged : BOOLEAN]
    BY DEF NoMail
  <2>2. CASE Grace(s)
    BY <2>2, ReceiveFacts DEF Grace, OwnNext
  <2>3. CASE RemoveBucket(s)
    BY <1>1, <2>1, <2>3 DEF RemoveBucket
  <2>4. CASE AddBucket(s) \/ Collect(s)
    BY <1>1, <2>4 DEF AddBucket, Collect
  <2> QED
    BY <2>2, <2>3, <2>4
<1>5. CASE AddBucket(s)
  <2>1. search[s].pc = "bucket" /\ SearchGoto(s, "send")
    BY <1>5 DEF AddBucket, SearchAt
  <2>2. \A r \in early : SearchOf[r] # s
    BY <2>1 DEF Kept, Collecting, Over
  <2>3. /\ search' \in [Searches -> SearchState]
        /\ \A x \in Searches : x # s => search'[x] = search[x]
        /\ search'[s].got = search[s].got /\ search'[s].pc = "send"
    BY <2>1, GotoFacts DEF SearchLabels
  <2> QED
    BY <1>1, <1>2, <1>3, <1>4, <2>2, <2>3, TakeInv
<1>6. CASE RemoveBucket(s)
  <2>1. PICK label \in {"empty", "results"} : SearchGoto(s, label)
    BY <1>6 DEF RemoveBucket
  <2>2. search[s].pc = "unbucket" /\ s \notin buckets' /\ s \notin active
    BY <1>6 DEF RemoveBucket, TakeBucket, SearchAt, Tokens
  <2>3. /\ search' \in [Searches -> SearchState]
        /\ \A x \in Searches : x # s => search'[x] = search[x]
        /\ search'[s].got = search[s].got /\ search'[s].pc = label
    BY <2>1, GotoFacts DEF SearchLabels
  <2>4. \A r \in early : SearchOf[r] = s => In(r, search[s].got)
    BY <2>2 DEF Kept, Collecting
  <2> QED
    BY <1>1, <1>2, <1>3, <1>4, <2>2, <2>3, <2>4, TakeInv DEF Over
<1>7. CASE Collect(s)
  <2>1. search[s].pc = "collect" /\ search' = [search EXCEPT ![s].pc = "grace", ![s].got = bucket[s]]
    BY <1>7 DEF Collect, SearchAt
  <2>2. [search[s] EXCEPT !.pc = "grace", !.got = bucket[s]] \in SearchState
    BY <1>1 DEF SearchState, SearchLabels
  <2>3. /\ search' \in [Searches -> SearchState]
        /\ \A x \in Searches : x # s => search'[x] = search[x]
        /\ search'[s].got = bucket[s] /\ search'[s].pc = "grace"
    BY <1>1, <2>1, <2>2 DEF SearchState
  <2>4. \A r \in early : SearchOf[r] = s => In(r, bucket[s])
    BY <2>1 DEF Kept, Over
  <2> QED
    BY <1>1, <1>2, <1>3, <1>4, <2>3, <2>4, TakeInv DEF Over
<1>8. CASE Grace(s)
  <2> DEFINE q == search[s].got \o bucket[s]
  <2>0. search[s].got \in Seq(Responses)
    BY <1>1 DEF SearchState
  <2>1. search[s].pc = "grace" /\ search' = [search EXCEPT ![s].got = q]
    BY <1>8 DEF Grace, SearchAt
  <2>2. /\ q \in Seq(Responses) /\ Distinct(q)
        /\ \A r : In(r, search[s].got) \/ In(r, bucket[s]) => In(r, q)
    BY <1>1, <1>3, <2>0, ConcatFacts
  <2>3. Delivered(q, s)
    <3>1. ASSUME NEW i \in 1..Len(q) PROVE resp[q[i]] = "delivered" /\ SearchOf[q[i]] = s
      <4>1. In(q[i], search[s].got) \/ In(q[i], bucket[s])
        <5>1. In(q[i], q)
          BY <3>1 DEF In
        <5> QED
          BY <5>1, <1>1, <1>3, <2>0, ConcatFacts
      <4> QED
        BY <1>3, <4>1 DEF Delivered, In
    <3> QED
      BY <3>1 DEF Delivered
  <2>4. /\ search' \in [Searches -> SearchState]
        /\ \A x \in Searches : x # s => search'[x] = search[x]
        /\ search'[s].got = q /\ search'[s].pc = "grace"
    BY <1>1, <2>1, <2>2 DEF SearchState
  <2>5. \A r \in early : SearchOf[r] = s => In(r, q)
    BY <2>1, <2>2 DEF Kept, Collecting
  <2> HIDE DEF q
  <2> QED
    BY <1>1, <1>2, <1>4, <2>2, <2>3, <2>4, <2>5, TakeInv DEF Over
<1> QED
  BY <1>5, <1>6, <1>7, <1>8

-----------------------------------------------------------------------------
(* Steps of the peers and of the tasks that serve them *)

\* A step that neither delivers nor changes a search.
LEMMA PeerInv ==
  ASSUME IInv, NEW r \in Responses, NEW place \in Places,
         UNCHANGED <<searchVars, sharedVars, sharing, early>>,
         resp' = [resp EXCEPT ![r] = place],
         resp[r] \notin {"delivered", "checked"}, place # "delivered",
         holders' \subseteq holders \cup {r},
         r \in holders' => place \in {"connecting", "reading", "checked"},
         \/ locked' = locked /\ place # "checked"
         \/ Free /\ locked' = r /\ place = "checked" /\ SearchOf[r] \in active
  PROVE  IInv'
<1> USE DEF IInv, searchVars, sharedVars
<1>1. /\ resp' \in [Responses -> Places] /\ resp'[r] = place
      /\ \A q \in Responses : q # r => resp'[q] = resp[q]
  BY DEF SearchesTypeOK
<1>2. SearchesTypeOK'
  BY <1>1 DEF SearchesTypeOK
<1>3. Lock'
  <2>1. Nobody \notin Responses /\ locked \in Responses \cup {Nobody} /\ active' = active
    BY NobodyAssumption DEF SearchesTypeOK
  <2>2. CASE locked' = locked /\ place # "checked"
    BY <1>1, <2>1, <2>2 DEF Lock
  <2>3. CASE Free /\ locked' = r /\ place = "checked" /\ SearchOf[r] \in active
    <3>1. \A q \in Responses : resp[q] # "checked"
      BY <2>1, <2>3 DEF Lock, Free
    <3> QED
      BY <1>1, <2>1, <2>3, <3>1 DEF Lock
  <2> QED
    BY <2>2, <2>3
<1>4. PermitsAtWork'
  BY <1>1 DEF PermitsAtWork, SearchesTypeOK
<1>5. Tokens' /\ (\A q \in early : Kept(q))'
  BY DEF Tokens, Kept
<1>6. Contents'
  <2>1. ASSUME NEW q, NEW s, Delivered(q, s), q \in Seq(Responses)
        PROVE  \A i \in 1..Len(q) : resp'[q[i]] = "delivered" /\ SearchOf[q[i]] = s
    <3>1. \A i \in 1..Len(q) : q[i] \in Responses /\ q[i] # r
      BY <2>1 DEF Delivered
    <3> QED
      BY <1>1, <2>1, <3>1 DEF Delivered
  <2>2. \A s \in Searches : search[s].got \in Seq(Responses) /\ bucket[s] \in Seq(Responses)
    BY DEF SearchesTypeOK
  <2>3. ASSUME NEW x \in Searches
        PROVE  /\ Delivered(search[x].got, x)' /\ Distinct(search[x].got)'
               /\ Delivered(bucket[x], x)' /\ Distinct(bucket[x])'
               /\ Apart(search[x].got, bucket[x])'
    <3>1. bucket'[x] = bucket[x] /\ search'[x].got = search[x].got
      OBVIOUS
    <3>2. Delivered(search[x].got, x)' /\ Delivered(bucket[x], x)'
      BY <2>1, <2>2, <3>1 DEF Contents, Delivered
    <3> QED
      BY <3>1, <3>2 DEF Contents
  <2> QED
    BY <2>3 DEF Contents
<1> QED
  BY <1>2, <1>3, <1>4, <1>5, <1>6

LEMMA RespondInv ==
  ASSUME IInv, NEW r \in Responses, NEW place \in {"brokered", "reading"}, Respond(r, place)
  PROVE  IInv'
<1>1. r \notin holders
  BY DEF IInv, PermitsAtWork, Respond
<1> QED
  BY <1>1, PeerInv DEF Respond, Places

LEMMA TaskInv ==
  ASSUME IInv, NEW r \in Responses,
         Broker(r) \/ Connect(r) \/ ConnectBack(r) \/ NotRead(r) \/ Look(r)
  PROVE  IInv'
<1>1. CASE Broker(r)
  <2>1. r \notin holders
    BY <1>1 DEF IInv, PermitsAtWork, Broker
  <2>2. CASE resp' = [resp EXCEPT ![r] = "dropped"] /\ UNCHANGED holders
    BY <1>1, <2>1, <2>2, PeerInv DEF Broker, Places
  <2>3. CASE resp' = [resp EXCEPT ![r] = "connecting"] /\ holders' = holders \cup {r}
    BY <1>1, <2>3, PeerInv DEF Broker, Places
  <2> QED
    BY <1>1, <2>2, <2>3 DEF Broker
<1>2. CASE Connect(r)
  <2>1. PICK place \in {"reading", "told", "dropped"} :
          /\ resp' = [resp EXCEPT ![r] = place]
          /\ holders' = IF place = "reading" THEN holders ELSE holders \ {r}
    BY <1>2 DEF Connect
  <2> QED
    BY <1>2, <2>1, PeerInv DEF Connect, Places
<1>3. CASE ConnectBack(r)
  <2>1. r \notin holders \/ "reading" \in {"connecting", "reading", "checked"}
    OBVIOUS
  <2> QED
    BY <1>3, PeerInv DEF ConnectBack, Places
<1>4. CASE NotRead(r)
  BY <1>4, PeerInv DEF NotRead, Places
<1>5. CASE Look(r)
  <2>1. CASE SearchOf[r] \in active
    BY <1>5, <2>1, PeerInv DEF Look, Places
  <2>2. CASE SearchOf[r] \notin active
    BY <1>5, <2>2, PeerInv DEF Look, Places
  <2> QED
    BY <2>1, <2>2
<1> QED
  BY <1>1, <1>2, <1>3, <1>4, <1>5

LEMMA NotifiedFacts ==
  ASSUME SearchesTypeOK, NEW x \in Searches, NEW s \in Searches
  PROVE  Notified(x, s) \in [msgs : Seq(Searches), lagged : BOOLEAN]
<1> DEFINE q == inbox[x].msgs
<1>1. inbox[x] \in [msgs : Seq(Searches), lagged : BOOLEAN] /\ q \in Seq(Searches)
  BY DEF SearchesTypeOK
<1>2. CASE ~Subscribed(x)
  BY <1>1, <1>2 DEF Notified
<1>3. CASE Subscribed(x) /\ Len(q) < Capacity
  <2>1. Append(q, s) \in Seq(Searches)
    BY <1>1
  <2>2. Notified(x, s) = [inbox[x] EXCEPT !.msgs = Append(q, s)]
    BY <1>3 DEF Notified
  <2> HIDE DEF q
  <2> QED
    BY <1>1, <2>1, <2>2
<1>4. CASE Subscribed(x) /\ ~(Len(q) < Capacity)
  <2>1. q # <<>>
    BY <1>1, <1>4, LimitsAssumption
  <2>2. Append(Tail(q), s) \in Seq(Searches)
    BY <1>1, <2>1
  <2> QED
    BY <1>4, <2>2 DEF Notified
<1> QED
  BY <1>2, <1>3, <1>4

LEMMA PushInv == ASSUME IInv, NEW r \in Responses, Push(r) PROVE IInv'
<1> USE DEF IInv
<1> DEFINE s == SearchOf[r]
<1>1. s \in Searches /\ r # Nobody
  BY SearchOfAssumption, NobodyAssumption
<1>2. resp[r] = "checked" /\ locked = r /\ s \in active
  BY <1>1 DEF Push, Lock
<1>3. /\ resp' \in [Responses -> Places] /\ resp'[r] = "delivered"
      /\ \A q \in Responses : q # r => resp'[q] = resp[q]
      /\ holders' = holders \ {r} /\ locked' = Nobody
      /\ UNCHANGED <<search, active, sharing>>
  BY DEF Push, SearchesTypeOK, Places
<1>4. /\ bucket' = [bucket EXCEPT ![s] = Append(@, r)]
      /\ buckets' = buckets \cup {s}
      /\ bucket[s] \in Seq(Responses)
  BY <1>1 DEF Push, SearchesTypeOK
<1>5. /\ ~In(r, bucket[s]) /\ ~In(r, search[s].got)
      /\ \A x \in Searches : ~In(r, bucket[x]) /\ ~In(r, search[x].got)
  BY <1>1, <1>2, NotDelivered DEF Contents
<1>6. /\ Append(bucket[s], r) \in Seq(Responses) /\ Distinct(Append(bucket[s], r))
      /\ \A x : In(x, Append(bucket[s], r)) <=> In(x, bucket[s]) \/ x = r
  BY <1>1, <1>4, <1>5, AppendFacts DEF Contents
<1>7. /\ bucket' \in [Searches -> Seq(Responses)] /\ bucket'[s] = Append(bucket[s], r)
      /\ \A x \in Searches : x # s => bucket'[x] = bucket[x]
  BY <1>1, <1>4, <1>6 DEF SearchesTypeOK
<1>8. inbox' \in [Searches -> [msgs : Seq(Searches), lagged : BOOLEAN]]
  BY <1>1, NotifiedFacts DEF Push
<1>9. early' \subseteq early \cup {r} /\ (r \in early' => r \in early \/ search[s].pc \in Collecting)
  BY DEF Push, Collecting
<1>10. SearchesTypeOK'
  BY <1>1, <1>3, <1>4, <1>7, <1>8, <1>9 DEF SearchesTypeOK
<1>11. Lock'
  BY <1>1, <1>2, <1>3 DEF Lock
<1>12. PermitsAtWork'
  BY <1>3 DEF PermitsAtWork, SearchesTypeOK
<1>13. Tokens'
  BY <1>2, <1>3, <1>4 DEF Tokens
<1>14. Contents'
  <2>1. ASSUME NEW q, NEW x, Delivered(q, x), q \in Seq(Responses)
        PROVE  \A i \in 1..Len(q) : resp'[q[i]] = "delivered" /\ SearchOf[q[i]] = x
    BY <1>3, <2>1 DEF Delivered
  <2>2. \A x \in Searches : search[x].got \in Seq(Responses) /\ bucket[x] \in Seq(Responses)
    BY DEF SearchesTypeOK
  <2>3. ASSUME NEW x \in Searches
        PROVE  /\ Delivered(search[x].got, x)' /\ Distinct(search[x].got)'
               /\ Delivered(bucket[x], x)' /\ Distinct(bucket[x])'
               /\ Apart(search[x].got, bucket[x])'
    <3>1. Delivered(search[x].got, x)' /\ Distinct(search[x].got)'
      BY <1>3, <2>1, <2>2 DEF Contents, Delivered
    <3>2. CASE x # s
      <4>1. bucket'[x] = bucket[x] /\ search'[x].got = search[x].got
        BY <1>3, <1>7, <3>2
      <4>2. Delivered(bucket[x], x)'
        <5>1. \A i \in 1..Len(bucket[x]) :
                resp'[bucket[x][i]] = "delivered" /\ SearchOf[bucket[x][i]] = x
          BY <2>1, <2>2 DEF Contents
        <5> QED
          BY <4>1, <5>1 DEF Delivered
      <4> QED
        BY <3>1, <4>1, <4>2 DEF Contents
    <3>3. CASE x = s
      <4>1. Delivered(bucket[x], x)'
        <5>1. ASSUME NEW i \in 1..Len(bucket'[x])
              PROVE  resp'[bucket'[x][i]] = "delivered" /\ SearchOf[bucket'[x][i]] = x
          <6>1. In(bucket'[x][i], bucket[x]) \/ bucket'[x][i] = r
            BY <1>6, <1>7, <3>3, <5>1 DEF In
          <6>2. CASE In(bucket'[x][i], bucket[x])
            BY <2>1, <2>2, <6>2 DEF In, Contents
          <6> QED
            BY <1>3, <3>3, <6>1, <6>2
        <5> QED
          BY <5>1 DEF Delivered
      <4>2. Apart(search[x].got, bucket[x])'
        <5>1. ASSUME NEW i \in 1..Len(search[x].got), NEW j \in 1..Len(bucket'[x])
              PROVE  search[x].got[i] # bucket'[x][j]
          <6>1. In(bucket'[x][j], bucket[x]) \/ bucket'[x][j] = r
            BY <1>6, <1>7, <3>3, <5>1 DEF In
          <6> QED
            BY <1>5, <6>1 DEF In, Contents, Apart
        <5> QED
          BY <1>3, <5>1 DEF Apart
      <4> QED
        BY <1>6, <1>7, <3>1, <3>3, <4>1, <4>2
    <3> QED
      BY <3>2, <3>3
  <2> QED
    BY <2>3 DEF Contents
<1>15. (\A q \in early : Kept(q))'
  <2>1. ASSUME NEW q \in early' PROVE Kept(q)'
    <3>1. CASE q \in early
      <4>1. Kept(q) /\ SearchOf[q] \in Searches
        BY <3>1, SearchOfAssumption DEF SearchesTypeOK
      <4>2. In(q, bucket[SearchOf[q]]) => In(q, bucket'[SearchOf[q]])
        BY <1>6, <1>7, <4>1
      <4> QED
        BY <1>3, <4>1, <4>2 DEF Kept
    <3>2. CASE q = r /\ search[s].pc \in Collecting
      <4>1. In(r, bucket'[s])
        BY <1>6, <1>7
      <4> QED
        BY <1>3, <3>2, <4>1 DEF Kept
    <3> QED
      BY <1>9, <2>1, <3>1, <3>2
  <2> QED
    BY <2>1
<1> QED
  BY <1>10, <1>11, <1>12, <1>13, <1>14, <1>15

-----------------------------------------------------------------------------
LEMMA NextIInv == IInv /\ [SearchesNext]_searchingVars => IInv'
<1> SUFFICES ASSUME IInv, [SearchesNext]_searchingVars PROVE IInv'
  OBVIOUS
<1>1. ASSUME NEW s \in Searches, AddToken(s) \/ SearchStep(s) \/ Tick(s) \/ Quiet(s) PROVE IInv'
  BY <1>1, WalkInv, TimeInv, BucketInv DEF SearchStep
<1>2. ASSUME NEW r \in Responses,
             \/ \E place \in {"brokered", "reading"} : Respond(r, place)
             \/ TaskStep(r) \/ ConnectBack(r)
      PROVE  IInv'
  BY <1>2, RespondInv, TaskInv, PushInv DEF TaskStep
<1>3. CASE UNCHANGED searchingVars
  <2> USE <1>3 DEF searchingVars, searchVars, sharedVars, peerVars, IInv
  <2>1. SearchesTypeOK' /\ Lock' /\ PermitsAtWork' /\ Tokens'
    BY DEF SearchesTypeOK, Lock, PermitsAtWork, Tokens
  <2>2. Contents' /\ (\A r \in early : Kept(r))'
    BY DEF Contents, Delivered, Kept
  <2> QED
    BY <2>1, <2>2
<1> QED
  BY <1>1, <1>2, <1>3 DEF SearchesNext

LEMMA Invariance == SearchesSpec => []IInv
BY InitIInv, NextIInv, PTL DEF SearchesSpec

\* Every search's state, the shared maps and the connection tasks keep their types.
THEOREM SearchTypeCorrect == SearchesSpec => []SearchesTypeOK
BY Invariance, PTL DEF IInv

\* search's clean-up against handle_peer_message_dispatch: however many
\* responses are on their way, a search that has ended leaves neither its token
\* nor a bucket, because a dispatch keeps the mutex until it has pushed.
THEOREM SearchesLeaveNothing == SearchesSpec => []NothingLeftBehind
<1>1. IInv => NothingLeftBehind
  BY DEF IInv, Tokens, NothingLeftBehind, Ended
<1> QED
  BY <1>1, Invariance, PTL

\* search: what was accepted before it stopped collecting is in what it returns.
THEOREM EarlyResultsAreReturned == SearchesSpec => []EarlyResultsReturned
<1>1. IInv => EarlyResultsReturned
  <2> SUFFICES ASSUME IInv, NEW s \in Searches, NEW r \in early, Ended(s), SearchOf[r] = s
               PROVE  r \in ToSet(search[s].got)
    BY DEF EarlyResultsReturned
  <2>1. In(r, search[s].got) /\ search[s].got \in Seq(Responses)
    BY DEF IInv, Kept, Ended, Collecting, SearchesTypeOK
  <2> QED
    BY <2>1 DEF In, ToSet
<1> QED
  BY <1>1, Invariance, PTL

\* search returns responses to its own token only, and each of them once.
THEOREM SearchesReturnOwnResults == SearchesSpec => []ResultsAreOwnAndDistinct
<1>1. IInv => ResultsAreOwnAndDistinct
  <2> SUFFICES ASSUME IInv, NEW s \in Searches
               PROVE  /\ IsInjective(search[s].got)
                      /\ \A r \in ToSet(search[s].got) : SearchOf[r] = s
    BY DEF ResultsAreOwnAndDistinct
  <2>1. search[s].got \in Seq(Responses) /\ DOMAIN search[s].got = 1..Len(search[s].got)
    BY DEF IInv, SearchesTypeOK
  <2> QED
    BY <2>1 DEF IInv, Contents, Delivered, Distinct, IsInjective, ToSet
<1> QED
  BY <1>1, Invariance, PTL

\* The ConnectToPeer handler: no task ends with a permit, for any number of
\* permits and peers.
THEOREM PermitsComeBack == SearchesSpec => []PermitsAtWork
BY Invariance, PTL DEF IInv

-----------------------------------------------------------------------------
(* The ranking *)

LEMMA FormatRange ==
  ASSUME NEW f \in File
  PROVE  FormatScore(f) \in 0..30
<1>1. f.format \in Formats /\ f.bitrate \in {Unknown, 64, 128, 192, 256, 320}
  BY DEF File
<1>2. f.bitrate \in Int
  BY <1>1 DEF Unknown
<1>3. ByStep(f.bitrate, <<20, 15, 8, 2>>) \in 0..30
  BY <1>2 DEF ByStep
<1>4. ByStep(f.bitrate, <<18, 14, 8, 3>>) \in 0..30
  BY <1>2 DEF ByStep
<1> HIDE DEF File
<1> QED
  BY <1>1, <1>3, <1>4 DEF FormatScore, Formats

\* What a peer offers adds or takes less than the title decides.
LEMMA ScoreFacts ==
  ASSUME NEW offer \in Offer, NEW f \in File
  PROVE  /\ Score(offer, f) \in Int
         /\ f.title = "exact" /\ ~f.remix => Score(offer, f) >= 95
         /\ f.title = "none" => Score(offer, f) <= 65
<1>1. /\ f.title \in {"exact", "contains", "within", "words", "none"}
      /\ f.remix \in BOOLEAN /\ f.extended \in BOOLEAN
  BY DEF File, TitleScores
<1>2. offer.speed \in 0..25 /\ offer.queue \in 0..5
  BY DEF Offer
<1>3. FormatScore(f) \in 0..30
  BY FormatRange
<1>4. /\ TitleScores[f.title] \in 0..100
      /\ f.title = "exact" => TitleScores[f.title] = 100
      /\ f.title = "none" => TitleScores[f.title] = 0
  BY <1>1 DEF TitleScores
<1> DEFINE t == TitleScores[f.title]
           m == FormatScore(f)
           p == IF f.remix THEN 30 ELSE 0
           e == IF f.extended THEN 10 ELSE 0
<1>5. p \in 0..30 /\ e \in 0..10 /\ (~f.remix => p = 0)
  OBVIOUS
<1>6. Score(offer, f) = t + m - p + e + offer.speed - offer.queue
  BY DEF Score, FileScore
<1> HIDE DEF t, m, p, e
<1>7. t \in 0..100 /\ m \in 0..30
  BY <1>3, <1>4 DEF t, m
<1>8. Score(offer, f) \in Int
  BY <1>2, <1>5, <1>6, <1>7
<1>9. ASSUME f.title = "exact", ~f.remix PROVE Score(offer, f) >= 95
  <2>1. t = 100 /\ p = 0
    BY <1>4, <1>5, <1>9 DEF t
  <2> QED
    BY <1>2, <1>5, <1>6, <1>7, <2>1
<1>10. ASSUME f.title = "none" PROVE Score(offer, f) <= 65
  <2>1. t = 0
    BY <1>4, <1>10 DEF t
  <2> QED
    BY <1>2, <1>5, <1>6, <1>7, <2>1
<1> QED
  BY <1>8, <1>9, <1>10

LEMMA EntryFacts ==
  ASSUME NEW results \in Seq(Offer), NEW filter, NEW c \in Chosen(results, filter)
  PROVE  /\ c.from \in DOMAIN results /\ c.nth \in DOMAIN results[c.from].files
         /\ c = Entry(results, c.from, c.nth)
         /\ c.file \in File /\ c.file = results[c.from].files[c.nth]
         /\ c.score = Score(results[c.from], c.file) /\ c.score \in Int
<1>1. PICK i \in DOMAIN results :
        \E j \in DOMAIN results[i].files : c = Entry(results, i, j)
  BY DEF Chosen
<1>2. PICK j \in DOMAIN results[i].files : c = Entry(results, i, j)
  BY <1>1
<1>3. /\ c.from = i /\ c.nth = j /\ c.file = results[i].files[j]
      /\ c.score = Score(results[i], results[i].files[j])
  BY <1>2 DEF Entry
<1>4. results[i] \in Offer
  OBVIOUS
<1>5. results[i].files[j] \in File
  <2>1. results[i].files \in Seq(File)
    BY <1>4 DEF Offer
  <2> QED
    BY <2>1
<1> QED
  BY <1>2, <1>3, <1>4, <1>5, ScoreFacts

LEMMA ChosenFinite ==
  ASSUME NEW results \in Seq(Offer), NEW filter
  PROVE  IsFiniteSet(Chosen(results, filter))
<1> DEFINE Of(i) == {Entry(results, i, j) :
             j \in {n \in DOMAIN results[i].files : Candidate(results[i], results[i].files[n], filter)}}
           S == {Of(i) : i \in DOMAIN results}
<1>1. ASSUME NEW i \in DOMAIN results PROVE IsFiniteSet(Of(i))
  <2> DEFINE N == {n \in DOMAIN results[i].files : Candidate(results[i], results[i].files[n], filter)}
             g == [j \in N |-> Entry(results, i, j)]
  <2>1. results[i].files \in Seq(File)
    <3>1. results[i] \in Offer
      OBVIOUS
    <3> QED
      BY <3>1 DEF Offer
  <2>2. IsFiniteSet(N)
    <3>1. DOMAIN results[i].files = 1..Len(results[i].files) /\ Len(results[i].files) \in Int /\ 1 \in Int
      BY <2>1
    <3>2. IsFiniteSet(DOMAIN results[i].files)
      BY <3>1, FS_Interval
    <3> QED
      BY <3>2, FS_Subset
  <2>3. g \in Surjection(N, Of(i))
    <3> HIDE DEF N
    <3>1. g \in [N -> Of(i)] /\ \A x \in Of(i) : \E j \in N : g[j] = x
      BY DEF N
    <3> QED
      BY <3>1 DEF Surjection
  <2> QED
    BY <2>2, <2>3, FS_Surjection
<1>2. IsFiniteSet(S)
  <2> DEFINE g == [i \in DOMAIN results |-> Of(i)]
  <2>1. DOMAIN results = 1..Len(results) /\ Len(results) \in Int /\ 1 \in Int
    OBVIOUS
  <2>2. IsFiniteSet(DOMAIN results)
    BY <2>1, FS_Interval
  <2> HIDE DEF Of
  <2>3. g \in [DOMAIN results -> S] /\ \A x \in S : \E i \in DOMAIN results : g[i] = x
    OBVIOUS
  <2>4. g \in Surjection(DOMAIN results, S)
    BY <2>3 DEF Surjection
  <2> QED
    BY <2>2, <2>4, FS_Surjection
<1>3. Chosen(results, filter) = UNION S
  BY DEF Chosen
<1> HIDE DEF Of
<1>4. \A T \in S : IsFiniteSet(T)
  BY <1>1
<1> HIDE DEF S
<1> QED
  BY <1>2, <1>3, <1>4, FS_UNION

\* Before puts any two candidates of a search in one order or the other.
LEMMA BeforeIsTotal ==
  ASSUME NEW results \in Seq(Offer), NEW filter
  PROVE  LET cs == Chosen(results, filter) IN
         /\ \A a \in cs : ~Before(a, a)
         /\ \A a, b \in cs : a = b \/ Before(a, b) \/ Before(b, a)
         /\ \A a, b, c \in cs : Before(a, b) /\ Before(b, c) => Before(a, c)
<1> DEFINE cs == Chosen(results, filter)
<1>1. \A c \in cs : c.score \in Int /\ c.from \in Int /\ c.nth \in Int
  <2>1. ASSUME NEW c \in cs PROVE c.score \in Int /\ c.from \in Int /\ c.nth \in Int
    <3>1. c.score \in Int /\ c.from \in DOMAIN results /\ c.nth \in DOMAIN results[c.from].files
      BY EntryFacts
    <3>2. results[c.from].files \in Seq(File)
      <4>1. results[c.from] \in Offer
        BY <3>1
      <4> QED
        BY <4>1 DEF Offer
    <3> QED
      BY <3>1, <3>2
  <2> QED
    BY <2>1
<1>2. \A a, b \in cs : a.from = b.from /\ a.nth = b.nth => a = b
  <2>1. \A c \in cs : c = Entry(results, c.from, c.nth)
    BY EntryFacts
  <2> HIDE DEF cs
  <2> QED
    BY <2>1
<1> HIDE DEF cs
<1>3. \A a \in cs : ~Before(a, a)
  BY <1>1 DEF Before
<1>4. \A a, b \in cs : a = b \/ Before(a, b) \/ Before(b, a)
  BY <1>1, <1>2 DEF Before
<1>5. \A a, b, c \in cs : Before(a, b) /\ Before(b, c) => Before(a, c)
  BY <1>1 DEF Before
<1> QED
  BY <1>3, <1>4, <1>5 DEF cs

\* The ranking is the one sequence of all candidates in that order: how many
\* come before a candidate tells one from the other, so there is one of them
\* at every place.
LEMMA RankSorts ==
  ASSUME NEW cs, IsFiniteSet(cs),
         \A a \in cs : ~Before(a, a),
         \A a, b \in cs : a = b \/ Before(a, b) \/ Before(b, a),
         \A a, b, c \in cs : Before(a, b) /\ Before(b, c) => Before(a, c)
  PROVE  /\ DOMAIN Rank(cs) = 1..Cardinality(cs) /\ Cardinality(cs) \in Nat
         /\ \A n \in 1..Cardinality(cs) : Rank(cs)[n] \in cs
         /\ \A c \in cs : \E n \in 1..Cardinality(cs) : Rank(cs)[n] = c
         /\ \A m, n \in 1..Cardinality(cs) : m < n => Before(Rank(cs)[m], Rank(cs)[n])
<1> DEFINE N == Cardinality(cs)
           over(c) == {d \in cs : Before(d, c)}
           pos == [c \in cs |-> Cardinality(over(c)) + 1]
<1>1. N \in Nat
  BY FS_CardinalityType
<1>2. \A c \in cs : IsFiniteSet(over(c)) /\ Cardinality(over(c)) \in Nat
  <2>1. ASSUME NEW c \in cs PROVE IsFiniteSet(over(c)) /\ Cardinality(over(c)) \in Nat
    <3>1. IsFiniteSet(over(c))
      BY FS_Subset
    <3> QED
      BY <3>1, FS_CardinalityType
  <2> QED
    BY <2>1
<1>3. ASSUME NEW a \in cs, NEW b \in cs, Before(a, b) PROVE Cardinality(over(a)) < Cardinality(over(b))
  <2>1. over(a) \subseteq over(b) /\ a \in over(b) /\ a \notin over(a)
    BY <1>3
  <2> HIDE DEF over
  <2>2. /\ Cardinality(over(a)) <= Cardinality(over(b))
        /\ Cardinality(over(b)) = Cardinality(over(a)) => over(b) = over(a)
    BY <1>2, <2>1, FS_Subset
  <2> QED
    BY <1>2, <2>1, <2>2
<1>4. ASSUME NEW c \in cs PROVE Cardinality(over(c)) < N
  <2>1. over(c) \subseteq cs /\ c \notin over(c)
    OBVIOUS
  <2> HIDE DEF over
  <2>2. /\ Cardinality(over(c)) <= N
        /\ N = Cardinality(over(c)) => cs = over(c)
    BY <2>1, FS_Subset
  <2> QED
    BY <1>1, <1>2, <2>1, <2>2
<1> HIDE DEF over, N
<1>5. \A c \in cs : pos[c] \in 1..N
  BY <1>1, <1>2, <1>4
<1>6. \A a, b \in cs : Before(a, b) => pos[a] < pos[b]
  BY <1>2, <1>3
<1>7. \A c \in cs : pos[c] = Cardinality(over(c)) + 1
  OBVIOUS
<1>8. pos \in [cs -> 1..N]
  BY <1>5
<1> HIDE DEF pos
<1>9. \A a, b \in cs : pos[a] = pos[b] => a = b
  <2>1. SUFFICES ASSUME NEW a \in cs, NEW b \in cs, pos[a] = pos[b], a # b PROVE FALSE
    OBVIOUS
  <2>2. pos[a] < pos[b] \/ pos[b] < pos[a]
    BY <2>1, <1>6
  <2> QED
    BY <2>1, <2>2, <1>1, <1>5
<1>10. \A n \in 1..N : \E c \in cs : pos[c] = n
  <2>1. pos \in Injection(cs, 1..N)
    BY <1>8, <1>9 DEF Injection, IsInjective
  <2>2. IsFiniteSet(1..N) /\ Cardinality(1..N) = N
    <3>1. 1 \in Int /\ N \in Int
      BY <1>1
    <3>2. IsFiniteSet(1..N) /\ Cardinality(1..N) = IF 1 > N THEN 0 ELSE N - 1 + 1
      BY <3>1, FS_Interval
    <3> QED
      BY <1>1, <3>2
  <2>3. pos \in Surjection(cs, 1..N)
    BY <2>1, <2>2, FS_Injection DEF N
  <2> QED
    BY <2>3 DEF Surjection
<1>11. DOMAIN Rank(cs) = 1..N /\ \A n \in 1..N :
         Rank(cs)[n] = CHOOSE c \in cs : Cardinality(over(c)) = n - 1
  BY DEF Rank, N, over
<1>12. ASSUME NEW n \in 1..N
       PROVE  Rank(cs)[n] \in cs /\ pos[Rank(cs)[n]] = n
  <2>1. PICK c \in cs : pos[c] = n
    BY <1>10
  <2>2. Cardinality(over(c)) = n - 1
    BY <1>1, <1>2, <1>7, <2>1
  <2>3. Rank(cs)[n] \in cs /\ Cardinality(over(Rank(cs)[n])) = n - 1
    BY <2>2, <1>11
  <2> QED
    BY <2>3, <1>1, <1>7
<1>13. ASSUME NEW c \in cs PROVE \E n \in 1..N : Rank(cs)[n] = c
  <2>1. pos[c] \in 1..N
    BY <1>5
  <2>2. Rank(cs)[pos[c]] \in cs /\ pos[Rank(cs)[pos[c]]] = pos[c]
    BY <2>1, <1>12
  <2> QED
    BY <2>1, <2>2, <1>9
<1>14. ASSUME NEW m \in 1..N, NEW n \in 1..N, m < n
       PROVE  Before(Rank(cs)[m], Rank(cs)[n])
  <2> DEFINE a == Rank(cs)[m]
             b == Rank(cs)[n]
  <2>1. a \in cs /\ b \in cs /\ pos[a] = m /\ pos[b] = n
    BY <1>12
  <2> HIDE DEF a, b
  <2>2. a # b /\ ~(pos[b] < pos[a])
    BY <2>1, <1>14, <1>1
  <2>3. Before(a, b)
    BY <2>1, <2>2, <1>6
  <2> QED
    BY <2>3 DEF a, b
<1> QED
  BY <1>1, <1>11, <1>12, <1>13, <1>14 DEF N

-----------------------------------------------------------------------------
(* What the queue is offered *)

LEMMA OffersTyped ==
  ASSUME SearchesTypeOK, NEW s \in Searches
  PROVE  /\ Offers(s) \in Seq(Offer)
         /\ DOMAIN Offers(s) = 1..Len(search[s].got)
         /\ \A i \in 1..Len(search[s].got) : Offers(s)[i] = Parsed(search[s].got[i])
<1>1. search[s].got \in Seq(Responses)
  BY DEF SearchesTypeOK
<1>2. \A r \in Responses : Parsed(r) \in Offer
  <2>1. ASSUME NEW r \in Responses PROVE Parsed(r) \in Offer
    <3>1. OfferOf[r] \in Offer
      BY OfferOfAssumption
    <3>2. OfferOf[r].files \in Seq(File)
      BY <3>1 DEF Offer
    <3> QED
      BY <3>1, <3>2 DEF Parsed, Offer
  <2> QED
    BY <2>1
<1>3. Offers(s) = [i \in 1..Len(search[s].got) |-> Parsed(search[s].got[i])]
  BY <1>1 DEF Offers
<1>4. Len(search[s].got) \in Nat /\ \A i \in 1..Len(search[s].got) : search[s].got[i] \in Responses
  BY <1>1
<1>5. Offers(s) \in [1..Len(search[s].got) -> Offer]
  BY <1>2, <1>3, <1>4
<1>6. Offers(s) \in Seq(Offer)
  BY <1>4, <1>5
<1> QED
  BY <1>3, <1>6

LEMMA ExactIsOffered == IInv => ExactMatchOffered
<1> SUFFICES ASSUME IInv, NEW s \in Searches, Ended(s), NEW r \in early \ Oversized,
                    NEW f \in ToSet(OfferOf[r].files),
                    SearchOf[r] = s, OfferOf[r].slots, f.title = "exact", ~f.remix,
                    IsAudio(f), MatchesFormat(f, FilterOf[s])
             PROVE  \E i \in DOMAIN Candidates(s) :
                      /\ Candidates(s)[i].file = f /\ search[s].got[Candidates(s)[i].from] = r
                      /\ \A j \in 1..i : Candidates(s)[j].file.title # "none"
  BY DEF ExactMatchOffered
<1> DEFINE results == Offers(s)
           cs == Chosen(results, FilterOf[s])
           got == search[s].got
<1>1. SearchesTypeOK
  BY DEF IInv
<1>2. r \in Responses /\ OfferOf[r] \in Offer
  BY <1>1, OfferOfAssumption DEF SearchesTypeOK
<1>3. PICK i \in 1..Len(got) : got[i] = r
  <2>1. search[s].pc \in {"results", "empty"} /\ Kept(r)
    BY DEF IInv, Ended
  <2>2. In(r, got)
    BY <2>1 DEF Kept, Collecting
  <2> QED
    BY <2>2 DEF In
<1>4. results \in Seq(Offer) /\ i \in DOMAIN results /\ results[i] = OfferOf[r]
  <2>1. Parsed(r) = OfferOf[r]
    BY DEF Parsed
  <2> QED
    BY <1>1, <1>3, <2>1, OffersTyped
<1>5. PICK j \in DOMAIN OfferOf[r].files : OfferOf[r].files[j] = f
  BY DEF ToSet
<1>6. f \in File
  <2>1. OfferOf[r].files \in Seq(File)
    BY <1>2 DEF Offer
  <2> QED
    BY <1>5, <2>1
<1>7. Score(OfferOf[r], f) \in Int /\ Score(OfferOf[r], f) >= 95
  BY <1>2, <1>6, ScoreFacts
<1> HIDE DEF results
<1>8. PICK e \in cs : e = Entry(results, i, j)
  <2>1. Candidate(results[i], results[i].files[j], FilterOf[s])
    BY <1>4, <1>5, <1>7 DEF Candidate
  <2> QED
    BY <2>1, <1>4, <1>5 DEF Chosen
<1>9. e.from = i /\ e.file = f /\ e.score = Score(OfferOf[r], f)
  BY <1>4, <1>5, <1>8 DEF Entry
<1> DEFINE N == Cardinality(cs)
<1>10. /\ DOMAIN Rank(cs) = 1..N /\ N \in Nat
       /\ \A n \in 1..N : Rank(cs)[n] \in cs
       /\ \A c \in cs : \E n \in 1..N : Rank(cs)[n] = c
       /\ \A m, n \in 1..N : m < n => Before(Rank(cs)[m], Rank(cs)[n])
  <2>1. IsFiniteSet(cs)
    BY <1>4, ChosenFinite
  <2>2. /\ \A a \in cs : ~Before(a, a)
        /\ \A a, b \in cs : a = b \/ Before(a, b) \/ Before(b, a)
        /\ \A a, b, c \in cs : Before(a, b) /\ Before(b, c) => Before(a, c)
    BY <1>4, BeforeIsTotal, Zenon
  <2> HIDE DEF cs
  <2> QED
    BY <2>1, <2>2, RankSorts, Zenon
<1>11. \A c \in cs : c.file.title = "none" => c.score \in Int /\ c.score <= 65
  <2>1. ASSUME NEW c \in cs, c.file.title = "none" PROVE c.score \in Int /\ c.score <= 65
    <3>1. /\ c.from \in DOMAIN results /\ c.file \in File
          /\ c.score = Score(results[c.from], c.file)
      BY <1>4, EntryFacts
    <3>2. results[c.from] \in Offer
      BY <1>4, <3>1
    <3> QED
      BY <2>1, <3>1, <3>2, ScoreFacts
  <2> QED
    BY <2>1
<1>12. Candidates(s) = Rank(cs)
  BY DEF Candidates, FindBestFiles, results
<1> HIDE DEF cs, N
<1>13. PICK n \in 1..N : Rank(cs)[n] = e
  BY <1>8, <1>10
<1>14. ASSUME NEW m \in 1..n PROVE Rank(cs)[m].file.title # "none"
  <2>1. m \in 1..N /\ (m = n \/ m < n)
    BY <1>10, <1>13
  <2>2. CASE m = n
    BY <2>2, <1>9, <1>13
  <2>3. CASE m < n
    <3> DEFINE c == Rank(cs)[m]
    <3>1. c \in cs /\ Before(c, e)
      BY <1>10, <1>13, <2>1, <2>3
    <3> HIDE DEF c
    <3>2. ASSUME c.file.title = "none" PROVE FALSE
      <4>1. c.score \in Int /\ c.score <= 65 /\ e.score \in Int /\ e.score >= 95
        BY <3>1, <3>2, <1>7, <1>9, <1>11
      <4> QED
        BY <3>1, <4>1 DEF Before
    <3> QED
      BY <3>2 DEF c
  <2> QED
    BY <2>1, <2>2, <2>3
<1>15. got[e.from] = r
  BY <1>3, <1>9
<1> QED
  BY <1>9, <1>10, <1>12, <1>13, <1>14, <1>15

\* A file that is the title itself, in the format asked for and from a peer
\* with a free slot, is tried if its response came in time, and before every
\* file unrelated to the title.
THEOREM ExactMatchIsOffered == SearchesSpec => []ExactMatchOffered
<1> QED
  BY Invariance, ExactIsOffered, PTL
=============================================================================
