---------------------------- MODULE LibraryProofs ----------------------------
(***************************************************************************)
(* The share index and the metadata lookups, each by itself and together   *)
(* on the same files and request slots, for any files, words, queries and  *)
(* answers and any number of requests.                                     *)
(*                                                                         *)
(* Either part keeps its inductive invariant whatever requests of the      *)
(* other there are: the type of a slot allows both (LibraryReqOK).         *)
(***************************************************************************)
EXTENDS Library, FiniteSetTheorems, WellFoundedInduction, TLAPS

LibraryReqOK == req \in [Requests -> LibraryRequest]

-----------------------------------------------------------------------------
(* The share index.  A lemma on AppendFile says what an entry adds to it;   *)
(* IndexOf repeats it, so what holds of a built index follows by looking at *)
(* the shortest prefix of the files for which it would not.                 *)

\* The index is typed, a path leads to the file of that name, and a file is
\* under exactly the words of its name.
Sound(idx) ==
  /\ idx.files \in Seq(SharedFile)
  /\ idx.words \in [Words -> Seq(DOMAIN idx.files)]
  /\ idx.paths \in [Tracks -> {NotIndexed} \cup DOMAIN idx.files]
  /\ \A t \in Tracks : idx.paths[t] # NotIndexed => idx.files[idx.paths[t]].track = t
  /\ \A k \in DOMAIN idx.files, w \in Words :
       (\E n \in DOMAIN idx.words[w] : idx.words[w][n] = k)
         <=> \E n \in DOMAIN WordsOf[idx.files[k].track] : WordsOf[idx.files[k].track][n] = w

ShareTypeInv == ShareTypeOK /\ LibraryReqOK

FoundBy(r) == {req[r].files[n].track : n \in DOMAIN req[r].files}

\* What was added is in the directory, so a later listing has it ...
AddedOnDisk == added \subseteq OnDisk

\* ... and a scan that is still to be swapped in lists all it calls known.
ScansList == \A r \in InFlight("swap") : req[r].known \subseteq FoundBy(r)

AddedIndexed == \A t \in added \ overtaken : index.paths[t] # NotIndexed

ShareInv == ShareTypeInv /\ Sound(index) /\ AddedOnDisk /\ ScansList /\ AddedIndexed

-----------------------------------------------------------------------------
(* Building the index *)

LEMMA CopiesOf ==
  ASSUME NEW t \in Tracks, NEW w \in Words
  PROVE  /\ Copies(t, w) \in Nat
         /\ Copies(t, w) # 0 <=> \E n \in DOMAIN WordsOf[t] : WordsOf[t][n] = w
<1> DEFINE C == {k \in DOMAIN WordsOf[t] : WordsOf[t][k] = w}
<1>1. IsFiniteSet(C)
  <2>1. WordsOf[t] \in Seq(Words)
    BY WordsAssumption
  <2>2. DOMAIN WordsOf[t] = 1..Len(WordsOf[t]) /\ Len(WordsOf[t]) \in Int /\ 1 \in Int
    BY <2>1
  <2>3. IsFiniteSet(DOMAIN WordsOf[t])
    BY <2>2, FS_Interval
  <2> QED
    BY <2>3, FS_Subset
<1>2. Cardinality(C) \in Nat /\ (Cardinality(C) = 0 <=> C = {})
  BY <1>1, FS_CardinalityType, FS_EmptySet
<1> QED
  BY <1>2 DEF Copies

\* A file that is appended is the last, found by its path and under its words.
LEMMA AppendSound ==
  ASSUME NEW idx, Sound(idx), NEW file \in SharedFile
  PROVE  /\ Sound(AppendFile(idx, file))
         /\ \A t \in Tracks : AppendFile(idx, file).paths[t] # NotIndexed
                                <=> idx.paths[t] # NotIndexed \/ t = file.track
<1> DEFINE new == AppendFile(idx, file)
           k == Len(idx.files) + 1
           more(w) == [c \in 1..Copies(file.track, w) |-> k]
<1>1. /\ idx.files \in Seq(SharedFile) /\ file.track \in Tracks
      /\ idx.words \in [Words -> Seq(DOMAIN idx.files)]
      /\ idx.paths \in [Tracks -> {NotIndexed} \cup DOMAIN idx.files]
  BY DEF Sound, SharedFile
<1>2. /\ new.files = Append(idx.files, file)
      /\ new.words = [w \in Words |-> idx.words[w] \o more(w)]
      /\ new.paths = [idx.paths EXCEPT ![file.track] = k]
  BY DEF AppendFile
<1> HIDE DEF new
<1>3. /\ new.files \in Seq(SharedFile)
      /\ DOMAIN idx.files = 1..Len(idx.files) /\ Len(idx.files) \in Nat
      /\ DOMAIN new.files = 1..k
      /\ \A i \in 1..Len(idx.files) : new.files[i] = idx.files[i]
      /\ new.files[k] = file
  BY <1>1, <1>2
<1>4. k \in Nat /\ k # NotIndexed /\ k \in 1..k /\ k \notin 1..Len(idx.files)
      /\ 1..k = 1..Len(idx.files) \cup {k}
  BY <1>3 DEF NotIndexed
<1> HIDE DEF k
<1>5. \A w \in Words : Copies(file.track, w) \in Nat
  BY <1>1, CopiesOf
<1>6. ASSUME NEW w \in Words
      PROVE  /\ new.words[w] \in Seq(1..k)
             /\ \A i \in 1..k : (\E n \in DOMAIN new.words[w] : new.words[w][n] = i)
                  <=> \/ i # k /\ \E n \in DOMAIN idx.words[w] : idx.words[w][n] = i
                      \/ i = k /\ Copies(file.track, w) # 0
  <2> DEFINE s == idx.words[w]
             c == Copies(file.track, w)
             m == [j \in 1..c |-> k]
  <2>1. c \in Nat
    BY <1>5
  <2>2. s \in Seq(1..Len(idx.files))
    BY <1>1, <1>3
  <2>3. new.words[w] = s \o m
    BY <1>2
  <2> HIDE DEF s, c
  <2>4. m \in Seq(1..k) /\ Len(m) = c /\ \A j \in 1..c : m[j] = k
    BY <2>1, <1>4
  <2>5. s \in Seq(1..k) /\ Len(s) \in Nat /\ DOMAIN s = 1..Len(s)
        /\ \A j \in 1..Len(s) : s[j] \in 1..Len(idx.files) /\ s[j] # k
    BY <2>2, <1>4
  <2> HIDE DEF m
  <2>6. /\ s \o m \in Seq(1..k) /\ DOMAIN (s \o m) = 1..(Len(s) + c)
        /\ \A j \in 1..(Len(s) + c) : (s \o m)[j] = IF j <= Len(s) THEN s[j] ELSE m[j - Len(s)]
    BY <2>1, <2>4, <2>5
  <2>7. ASSUME NEW i \in 1..k
        PROVE  (\E n \in DOMAIN (s \o m) : (s \o m)[n] = i)
                  <=> \/ i # k /\ \E n \in DOMAIN s : s[n] = i
                      \/ i = k /\ c # 0
    <3>1. ASSUME NEW n \in DOMAIN (s \o m), (s \o m)[n] = i
          PROVE  \/ i # k /\ \E j \in DOMAIN s : s[j] = i
                 \/ i = k /\ c # 0
      <4>1. n \in Nat /\ n >= 1 /\ n <= Len(s) + c
        BY <2>1, <2>5, <2>6
      <4>2. CASE n <= Len(s)
        <5>1. n \in 1..Len(s) /\ (s \o m)[n] = s[n]
          BY <4>1, <4>2, <2>5, <2>6
        <5> QED
          BY <5>1, <3>1, <2>5
      <4>3. CASE ~(n <= Len(s))
        <5>1. n - Len(s) \in 1..c /\ c # 0 /\ (s \o m)[n] = m[n - Len(s)]
          BY <4>1, <4>3, <2>1, <2>5, <2>6
        <5> QED
          BY <5>1, <3>1, <2>4
      <4> QED
        BY <4>2, <4>3
    <3>2. ASSUME i # k, NEW j \in DOMAIN s, s[j] = i
          PROVE  \E n \in DOMAIN (s \o m) : (s \o m)[n] = i
      <4>1. j \in DOMAIN (s \o m) /\ (s \o m)[j] = s[j]
        BY <2>1, <2>5, <2>6
      <4> QED
        BY <4>1, <3>2
    <3>3. ASSUME i = k, c # 0
          PROVE  \E n \in DOMAIN (s \o m) : (s \o m)[n] = i
      <4>1. /\ Len(s) + 1 \in DOMAIN (s \o m) /\ 1 \in 1..c
            /\ (s \o m)[Len(s) + 1] = m[(Len(s) + 1) - Len(s)] /\ (Len(s) + 1) - Len(s) = 1
        BY <2>1, <2>5, <2>6, <3>3
      <4>2. (s \o m)[Len(s) + 1] = k
        BY <4>1, <2>4
      <4> QED
        BY <4>1, <4>2, <3>3
    <3> QED
      BY <3>1, <3>2, <3>3
  <2> QED
    BY <2>3, <2>6, <2>7 DEF s, c
<1>7. /\ new.words \in [Words -> Seq(DOMAIN new.files)]
      /\ new.paths \in [Tracks -> {NotIndexed} \cup DOMAIN new.files]
  <2>1. DOMAIN new.words = Words /\ new.words = [w \in Words |-> new.words[w]]
    BY <1>2
  <2>2. new.words \in [Words -> Seq(1..k)]
    BY <2>1, <1>6
  <2>3. new.paths \in [Tracks -> {NotIndexed} \cup 1..k]
    BY <1>1, <1>2, <1>3, <1>4
  <2> QED
    BY <2>2, <2>3, <1>3
<1>8. \A t \in Tracks : new.paths[t] = IF t = file.track THEN k ELSE idx.paths[t]
  BY <1>1, <1>2
<1>9. ASSUME NEW t \in Tracks, new.paths[t] # NotIndexed
      PROVE  new.files[new.paths[t]].track = t
  <2>1. CASE t = file.track
    BY <2>1, <1>3, <1>8
  <2>2. CASE t # file.track
    <3>1. new.paths[t] = idx.paths[t] /\ idx.paths[t] # NotIndexed
      BY <2>2, <1>8, <1>9
    <3>2. idx.paths[t] \in 1..Len(idx.files) /\ idx.files[idx.paths[t]].track = t
      BY <3>1, <1>1, <1>3 DEF Sound
    <3> QED
      BY <3>1, <3>2, <1>3
  <2> QED
    BY <2>1, <2>2
<1>10. ASSUME NEW i \in 1..k, NEW w \in Words
       PROVE  (\E n \in DOMAIN new.words[w] : new.words[w][n] = i)
                <=> \E n \in DOMAIN WordsOf[new.files[i].track] : WordsOf[new.files[i].track][n] = w
  <2>1. CASE i = k
    <3>1. new.files[i] = file
      BY <2>1, <1>3
    <3>2. Copies(file.track, w) # 0
            <=> \E n \in DOMAIN WordsOf[file.track] : WordsOf[file.track][n] = w
      BY <1>1, CopiesOf
    <3>3. (\E n \in DOMAIN new.words[w] : new.words[w][n] = i) <=> Copies(file.track, w) # 0
      BY <2>1, <1>6
    <3> QED
      BY <3>1, <3>2, <3>3
  <2>2. CASE i # k
    <3>1. i \in 1..Len(idx.files) /\ new.files[i] = idx.files[i]
      BY <2>2, <1>3, <1>4
    <3>2. (\E n \in DOMAIN idx.words[w] : idx.words[w][n] = i)
            <=> \E n \in DOMAIN WordsOf[idx.files[i].track] : WordsOf[idx.files[i].track][n] = w
      BY <3>1, <1>3 DEF Sound
    <3>3. (\E n \in DOMAIN new.words[w] : new.words[w][n] = i)
            <=> \E n \in DOMAIN idx.words[w] : idx.words[w][n] = i
      BY <2>2, <1>6
    <3> QED
      BY <3>1, <3>2, <3>3
  <2> QED
    BY <2>1, <2>2
<1>11. Sound(new)
  BY <1>3, <1>7, <1>9, <1>10 DEF Sound
<1>12. \A t \in Tracks : new.paths[t] # NotIndexed <=> idx.paths[t] # NotIndexed \/ t = file.track
  BY <1>4, <1>8
<1> QED
  BY <1>11, <1>12 DEF new

LEMMA EmptySound == Sound(EmptyIndex)
<1>1. <<>> \in Seq(SharedFile) /\ DOMAIN <<>> = {}
  OBVIOUS
<1>2. [w \in Words |-> <<>>] \in [Words -> Seq(DOMAIN <<>>)]
  OBVIOUS
<1> QED
  BY <1>1, <1>2 DEF Sound, EmptyIndex, NotIndexed

\* A set of naturals has a least member.
LEMMA LeastNatural ==
  ASSUME NEW T, T \subseteq Nat, T # {}
  PROVE  \E m \in T : \A k \in T : m <= k
<1> DEFINE F == FiniteSubsetsOf(Nat)
           Q == {0..n : n \in T}
           R == StrictSubsetOrdering(Nat)
<1>1. IsWellFoundedOn(R, F)
  BY FS_StrictSubsetOrderingWellFounded
<1>2. Q \subseteq F /\ Q # {}
  <2>1. ASSUME NEW n \in T PROVE 0..n \in F
    <3>1. n \in Int /\ 0 \in Int
      OBVIOUS
    <3>2. IsFiniteSet(0..n)
      BY <3>1, FS_Interval
    <3>3. 0..n \subseteq Nat
      OBVIOUS
    <3> QED
      BY <3>2, <3>3 DEF FiniteSubsetsOf
  <2> HIDE DEF F
  <2> QED
    BY <2>1
<1> HIDE DEF F, R, Q
<1>3. \E x \in Q : \A y \in Q : ~(<<y, x>> \in R)
  BY <1>1, <1>2, WFMin
<1> QED
  <2>1. PICK m \in T : \A k \in T : ~(<<0..k, 0..m>> \in R)
    BY <1>3 DEF Q
  <2>2. ASSUME NEW k \in T, k < m PROVE FALSE
    <3>1. k \in Nat /\ m \in Nat
      OBVIOUS
    <3>2. 0..k \subseteq 0..m /\ 0..k \in SUBSET Nat /\ 0..m \in SUBSET Nat
      BY <2>2, <3>1
    <3>3. m \in 0..m /\ m \notin 0..k
      BY <2>2, <3>1
    <3>4. 0..k # 0..m
      BY <3>3, Zenon
    <3>5. <<0..k, 0..m>> \in R
      BY <3>2, <3>4 DEF R, StrictSubsetOrdering
    <3> QED
      BY <2>1, <3>5
  <2> QED
    BY <2>2

\* IndexOf appends the files one by one: what its recursion defines exists.
LEMMA BuiltIndex ==
  ASSUME NEW files \in Seq(SharedFile)
  PROVE  \E built :
           /\ IndexOf(files) = built[Len(files)]
           /\ built[0] = EmptyIndex
           /\ \A n \in 1..Len(files) : built[n] = AppendFile(built[n - 1], files[n])
<1> DEFINE L == Len(files)
           Body(m, g) == [n \in 0..m |-> IF n = 0 THEN EmptyIndex ELSE AppendFile(g[n - 1], files[n])]
           Bad == {m \in Nat : ~\E g : g = Body(m, g)}
<1>1. L \in Nat
  OBVIOUS
<1>2. IndexOf(files) = (CHOOSE g : g = Body(L, g))[L]
  BY DEF IndexOf
<1> HIDE DEF L
<1>3. Bad = {}
  <2>1. SUFFICES ASSUME Bad # {} PROVE FALSE
    OBVIOUS
  <2>2. PICK m \in Bad : \A k \in Bad : m <= k
    <3>1. Bad \subseteq Nat
      OBVIOUS
    <3> HIDE DEF Bad
    <3> QED
      BY <2>1, <3>1, LeastNatural
  <2>3. m \in Nat /\ ~\E g : g = Body(m, g)
    BY <2>2
  <2>4. CASE m = 0
    <3> DEFINE g == [n \in 0..0 |-> EmptyIndex]
    <3>1. \A n \in 0..0 : n = 0
      OBVIOUS
    <3>2. Body(0, g) = g
      BY <3>1
    <3> QED
      BY <2>3, <2>4, <3>2
  <2>5. CASE m # 0
    <3>1. m - 1 \in Nat /\ m - 1 < m
      BY <2>3, <2>5
    <3>2. PICK g : g = Body(m - 1, g)
      <4>1. m - 1 \notin Bad
        <5>1. ~(m <= m - 1)
          BY <2>3
        <5> HIDE DEF Bad
        <5> QED
          BY <2>2, <5>1
      <4> QED
        BY <4>1, <3>1
    <3> DEFINE h == [n \in 0..m |-> IF n = m THEN AppendFile(g[m - 1], files[m]) ELSE g[n]]
    <3>3. \A n \in 0..(m - 1) : g[n] = IF n = 0 THEN EmptyIndex ELSE AppendFile(g[n - 1], files[n])
      BY <3>2
    <3> HIDE DEF Body
    <3>4. ASSUME NEW n \in 0..m
          PROVE  h[n] = IF n = 0 THEN EmptyIndex ELSE AppendFile(h[n - 1], files[n])
      <4>1. n \in Nat /\ n <= m
        BY <2>3
      <4>2. CASE n = m
        <5>1. h[n] = AppendFile(g[m - 1], files[m])
          BY <4>2
        <5>2. h[m - 1] = g[m - 1]
          BY <2>3, <3>1
        <5> QED
          BY <5>1, <5>2, <4>2, <2>5
      <4>3. CASE n # m /\ n = 0
        <5>1. h[n] = g[n] /\ n \in 0..(m - 1)
          BY <4>3, <4>1, <2>3
        <5> QED
          BY <5>1, <3>3, <4>3
      <4>4. CASE n # m /\ n # 0
        <5>1. n \in 0..(m - 1) /\ n - 1 \in 0..m /\ n - 1 # m
          BY <4>4, <4>1, <2>3
        <5>2. h[n] = g[n] /\ h[n - 1] = g[n - 1]
          BY <5>1, <4>4
        <5> QED
          BY <5>1, <5>2, <3>3, <4>4
      <4> QED
        BY <4>2, <4>3, <4>4
    <3>5. h = Body(m, h)
      <4>1. h = [n \in 0..m |-> h[n]]
        OBVIOUS
      <4> HIDE DEF h
      <4> QED
        BY <4>1, <3>4 DEF Body
    <3> QED
      BY <2>3, <3>5
  <2> QED
    BY <2>4, <2>5
<1>4. PICK built : built = Body(L, built) /\ IndexOf(files) = built[L]
  <2>1. \E g : g = Body(L, g)
    BY <1>1, <1>3
  <2> DEFINE c == CHOOSE g : g = Body(L, g)
  <2> HIDE DEF Body
  <2>2. c = Body(L, c)
    BY <2>1
  <2> QED
    BY <2>2, <1>2
<1>5. \A n \in 0..L : built[n] = IF n = 0 THEN EmptyIndex ELSE AppendFile(built[n - 1], files[n])
  BY <1>4
<1>6. built[0] = EmptyIndex /\ \A n \in 1..L : built[n] = AppendFile(built[n - 1], files[n])
  BY <1>1, <1>5
<1> QED
  BY <1>4, <1>6 DEF L

\* A rebuilt index is as sound as one that grew, and has every file listed.
LEMMA IndexOfSound ==
  ASSUME NEW files \in Seq(SharedFile)
  PROVE  /\ Sound(IndexOf(files))
         /\ \A n \in DOMAIN files : IndexOf(files).paths[files[n].track] # NotIndexed
<1>1. PICK built :
        /\ IndexOf(files) = built[Len(files)]
        /\ built[0] = EmptyIndex
        /\ \A n \in 1..Len(files) : built[n] = AppendFile(built[n - 1], files[n])
  BY BuiltIndex
<1> DEFINE L == Len(files)
           Good(m) == /\ Sound(built[m])
                      /\ \A n \in 1..m : built[m].paths[files[n].track] # NotIndexed
           Bad == {m \in 0..L : ~Good(m)}
<1>2. L \in Nat /\ DOMAIN files = 1..L /\ \A n \in 1..L : files[n] \in SharedFile /\ files[n].track \in Tracks
  <2>1. \A file \in SharedFile : file.track \in Tracks
    BY DEF SharedFile
  <2>2. L \in Nat /\ DOMAIN files = 1..L /\ \A n \in 1..L : files[n] \in SharedFile
    OBVIOUS
  <2> QED
    BY <2>1, <2>2
<1> HIDE DEF L
<1>3. Good(0)
  BY <1>1, EmptySound
<1>4. ASSUME NEW m \in 1..L, Good(m - 1) PROVE Good(m)
  <2>1. built[m] = AppendFile(built[m - 1], files[m]) /\ files[m] \in SharedFile
    BY <1>1, <1>2 DEF L
  <2>2. /\ Sound(built[m])
        /\ \A t \in Tracks : built[m].paths[t] # NotIndexed
                               <=> built[m - 1].paths[t] # NotIndexed \/ t = files[m].track
    BY <1>4, <2>1, AppendSound
  <2>3. ASSUME NEW n \in 1..m PROVE built[m].paths[files[n].track] # NotIndexed
    <3>1. n \in 1..L /\ (n = m \/ n \in 1..(m - 1))
      BY <1>2
    <3>2. files[n].track \in Tracks
      BY <3>1, <1>2
    <3> QED
      BY <3>1, <3>2, <2>2, <1>4
  <2> QED
    BY <2>2, <2>3
<1> HIDE DEF Good
<1>5. Bad = {}
  <2>1. SUFFICES ASSUME Bad # {} PROVE FALSE
    OBVIOUS
  <2>2. PICK m \in Bad : \A k \in Bad : m <= k
    <3>1. Bad \subseteq Nat
      BY <1>2
    <3> HIDE DEF Bad
    <3> QED
      BY <2>1, <3>1, LeastNatural
  <2>3. m \in 0..L /\ ~Good(m) /\ m # 0
    BY <2>2, <1>3
  <2>4. m \in 1..L /\ m - 1 \in 0..L /\ ~(m <= m - 1)
    BY <2>3, <1>2
  <2>5. Good(m - 1)
    BY <2>2, <2>4
  <2> QED
    BY <2>3, <2>4, <2>5, <1>4
<1>6. Good(L)
  BY <1>2, <1>5
<1> QED
  BY <1>6, <1>1, <1>2 DEF Good, L

-----------------------------------------------------------------------------
(* Requests and the directory *)

LEMMA ScanTypes ==
  ASSUME ShareTypeInv, NEW r \in Requests, At(r, "swap")
  PROVE  req[r].files \in Seq(SharedFile) /\ req[r].known \subseteq Tracks
<1>1. req[r] \in LibraryRequest
  BY DEF ShareTypeInv, LibraryReqOK
<1> QED
  BY <1>1 DEF LibraryRequest, ShareRequest, MetadataRequest, Looking, At, Idle

\* Only the request that moves changes its place.
LEMMA SlotMoves ==
  ASSUME ShareTypeInv, NEW r \in Requests, NEW state, Goto(r, state)
  PROVE  req'[r] = state /\ \A q \in Requests \ {r} : req'[q] = req[q]
BY DEF ShareTypeInv, LibraryReqOK, Goto

LEMMA ReqStays ==
  ASSUME ShareTypeInv, NEW r \in Requests, NEW state \in LibraryRequest, Goto(r, state)
  PROVE  LibraryReqOK'
<1>1. req \in [Requests -> LibraryRequest] /\ req' = [req EXCEPT ![r] = state]
  BY DEF ShareTypeInv, LibraryReqOK, Goto
<1> HIDE DEF LibraryRequest
<1> QED
  BY <1>1 DEF LibraryReqOK

\* A scan in flight keeps what it listed.
LEMMA ScansKept ==
  ASSUME ShareTypeInv, ScansList, NEW r \in Requests, NEW state, Goto(r, state),
         state.at = "swap" =>
           state.known \subseteq {state.files[n].track : n \in DOMAIN state.files}
  PROVE  ScansList'
<1>1. req'[r] = state /\ \A q \in Requests \ {r} : req'[q] = req[q]
  BY SlotMoves
<1> SUFFICES ASSUME NEW q \in Requests, At(q, "swap")'
             PROVE  (req[q].known \subseteq FoundBy(q))'
  BY DEF ScansList, InFlight
<1>2. CASE q = r
  BY <1>1, <1>2 DEF At, FoundBy
<1>3. CASE q # r
  <2>1. req'[q] = req[q] /\ req[q].at = "swap"
    BY <1>1, <1>3 DEF At
  <2>2. req[q].known \subseteq FoundBy(q)
    BY <2>1 DEF ScansList, InFlight, At
  <2> QED
    BY <2>1, <2>2 DEF FoundBy
<1> QED
  BY <1>2, <1>3

\* A file written, or created, stays in the directory.
LEMMA Written ==
  ASSUME ShareTypeInv, AddedOnDisk, NEW t \in Tracks, NEW size \in Sizes, Write(t, size),
         added' = added
  PROVE  FilesTypeOK' /\ AddedOnDisk'
<1>1. disk \in [Tracks -> Sizes \cup {Missing}] /\ disk' = [disk EXCEPT ![t] = size]
  BY DEF ShareTypeInv, ShareTypeOK, FilesTypeOK, Write
<1>2. size # Missing
  BY DEF Sizes, Partial, Whole, Tagged, Missing
<1>3. disk' \in [Tracks -> Sizes \cup {Missing}]
  BY <1>1
<1>4. \A u \in Tracks : disk'[u] = IF u = t THEN size ELSE disk[u]
  BY <1>1
<1> QED
  BY <1>2, <1>3, <1>4 DEF FilesTypeOK, AddedOnDisk, OnDisk

\* What is left of the type invariant when the request slots stay.
LEMMA SameRequests ==
  ASSUME ShareInv, req' = req
  PROVE  LibraryReqOK' /\ ScansList'
BY DEF ShareInv, ShareTypeInv, LibraryReqOK, ScansList, InFlight, At, FoundBy

LEMMA SameIndex ==
  ASSUME ShareInv, index' = index
  PROVE  Sound(index')
BY DEF ShareInv

-----------------------------------------------------------------------------
(* The transfer monitor *)

MonitorType ==
  {NoFile} \cup [at : {"transfer", "read"}, track : Tracks] \cup [at : {"add"}, file : SharedFile]

LEMMA MonitorTyped == ShareTypeInv => monitor \in MonitorType
BY DEF ShareTypeInv, ShareTypeOK, MonitorType

\* The parts of the invariant, after a step.
LEMMA Together ==
  ASSUME FilesTypeOK', Sound(index)', monitor' \in MonitorType, LibraryReqOK',
         added' \subseteq Tracks, overtaken' \subseteq added',
         AddedOnDisk', ScansList', AddedIndexed'
  PROVE  ShareInv'
BY DEF ShareInv, ShareTypeInv, ShareTypeOK, MonitorType, Sound

LEMMA SameHistory ==
  ASSUME ShareInv, index' = index, added' = added, overtaken' = overtaken
  PROVE  Sound(index)' /\ added' \subseteq Tracks /\ overtaken' \subseteq added' /\ AddedIndexed'
BY DEF ShareInv, ShareTypeInv, ShareTypeOK, AddedIndexed, Sound

LEMMA SameFolder ==
  ASSUME ShareInv, disk' = disk, added' = added
  PROVE  FilesTypeOK' /\ AddedOnDisk'
BY DEF ShareInv, ShareTypeInv, ShareTypeOK, FilesTypeOK, AddedOnDisk, OnDisk

LEMMA StartTransferStep ==
  ASSUME ShareInv, NEW t \in Tracks, StartTransfer(t)
  PROVE  ShareInv'
<1>1. /\ Write(t, Partial) /\ monitor' = [at |-> "transfer", track |-> t]
      /\ req' = req /\ index' = index /\ added' = added /\ overtaken' = overtaken
  BY DEF StartTransfer
<1>2. FilesTypeOK' /\ AddedOnDisk'
  BY <1>1, Written DEF ShareInv, Sizes
<1>3. monitor' \in MonitorType
  BY <1>1 DEF MonitorType
<1> QED
  BY <1>1, <1>2, <1>3, SameRequests, SameHistory, Together

LEMMA EndTransferStep ==
  ASSUME ShareInv, EndTransfer
  PROVE  ShareInv'
<1>1. /\ monitor.at = "transfer" /\ Write(monitor.track, Whole)
      /\ monitor' = [monitor EXCEPT !.at = "read"]
      /\ req' = req /\ index' = index /\ added' = added /\ overtaken' = overtaken
  BY DEF EndTransfer
<1>2. monitor \in [at : {"transfer", "read"}, track : Tracks]
  BY <1>1, MonitorTyped DEF ShareInv, MonitorType, NoFile
<1>3. FilesTypeOK' /\ AddedOnDisk'
  <2>1. monitor.track \in Tracks /\ Whole \in Sizes
    BY <1>2 DEF Sizes
  <2> QED
    BY <2>1, <1>1, Written DEF ShareInv
<1>4. monitor' \in MonitorType
  BY <1>1, <1>2 DEF MonitorType
<1> QED
  BY <1>1, <1>3, <1>4, SameRequests, SameHistory, Together

LEMMA ReadFileStep ==
  ASSUME ShareInv, ReadFile
  PROVE  ShareInv'
<1> DEFINE file == [track |-> monitor.track, size |-> disk[monitor.track]]
<1>1. /\ monitor.at = "read"
      /\ monitor' = IF disk[monitor.track] = Missing THEN NoFile
                    ELSE [at |-> "add", file |-> file]
      /\ req' = req /\ disk' = disk /\ index' = index /\ added' = added /\ overtaken' = overtaken
  BY DEF ReadFile
<1>2. monitor.track \in Tracks
  BY <1>1, MonitorTyped DEF ShareInv, MonitorType, NoFile
<1>3. disk[monitor.track] # Missing => file \in SharedFile
  BY <1>2 DEF ShareInv, ShareTypeInv, ShareTypeOK, FilesTypeOK, SharedFile
<1> HIDE DEF file
<1>4. monitor' \in MonitorType
  BY <1>1, <1>3 DEF MonitorType
<1> QED
  BY <1>1, <1>4, SameFolder, SameRequests, SameHistory, Together

\* The entry is there after add_file, whether it was made now or before.
LEMMA AddFileStep ==
  ASSUME ShareInv, AddFile
  PROVE  ShareInv'
<1> DEFINE t == monitor.file.track
<1>1. /\ monitor.at = "add"
      /\ index' = IF index.paths[t] # NotIndexed THEN index ELSE AppendFile(index, monitor.file)
      /\ added' = IF disk[t] = Missing THEN added ELSE added \cup {t}
      /\ overtaken' = overtaken \ {t}
      /\ monitor' = NoFile /\ req' = req /\ disk' = disk
  BY DEF AddFile
<1>2. monitor.file \in SharedFile
  BY <1>1, MonitorTyped DEF ShareInv, MonitorType, NoFile
<1>3. t \in Tracks
  BY <1>2 DEF SharedFile
<1>4. Sound(index)
  BY DEF ShareInv
<1>5. Sound(index') /\ \A u \in Tracks : index.paths[u] # NotIndexed \/ u = t => index'.paths[u] # NotIndexed
  <2>1. CASE index.paths[t] # NotIndexed
    BY <2>1, <1>1, <1>4
  <2>2. CASE ~(index.paths[t] # NotIndexed)
    <3>1. index' = AppendFile(index, monitor.file)
      BY <2>2, <1>1
    <3> QED
      BY <3>1, <1>2, <1>4, AppendSound
  <2> QED
    BY <2>1, <2>2
<1>6. FilesTypeOK' /\ AddedOnDisk'
  BY <1>1, <1>3 DEF ShareInv, ShareTypeInv, ShareTypeOK, FilesTypeOK, AddedOnDisk, OnDisk
<1>7. added' \subseteq Tracks /\ overtaken' \subseteq added'
  BY <1>1, <1>3 DEF ShareInv, ShareTypeInv, ShareTypeOK
<1>8. AddedIndexed'
  <2> SUFFICES ASSUME NEW u \in added' \ overtaken' PROVE index'.paths[u] # NotIndexed
    BY DEF AddedIndexed
  <2>1. u \in Tracks /\ (u = t \/ u \in added \ overtaken)
    BY <1>1, <1>3, <1>7
  <2> QED
    BY <2>1, <1>5 DEF ShareInv, AddedIndexed
<1>9. monitor' \in MonitorType
  BY <1>1 DEF MonitorType
<1>10. Sound(index)'
  BY <1>5
<1> QED
  BY <1>1, <1>6, <1>7, <1>8, <1>9, <1>10, SameRequests, Together

LEMMA TagFileStep ==
  ASSUME ShareInv, NEW t \in Tracks, TagFile(t)
  PROVE  ShareInv'
<1>1. /\ Write(t, Tagged) /\ monitor' = monitor
      /\ req' = req /\ index' = index /\ added' = added /\ overtaken' = overtaken
  BY DEF TagFile
<1>2. FilesTypeOK' /\ AddedOnDisk'
  BY <1>1, Written DEF ShareInv, Sizes
<1>3. monitor' \in MonitorType
  BY <1>1, MonitorTyped DEF ShareInv
<1> QED
  BY <1>1, <1>2, <1>3, SameRequests, SameHistory, Together

LEMMA RemoveFileStep ==
  ASSUME ShareInv, NEW t \in Tracks, RemoveFile(t)
  PROVE  ShareInv'
<1>1. /\ disk' = [disk EXCEPT ![t] = Missing]
      /\ added' = added \ {t} /\ overtaken' = overtaken \ {t}
      /\ monitor' = monitor /\ req' = req /\ index' = index
  BY DEF RemoveFile, Write
<1>2. disk \in [Tracks -> Sizes \cup {Missing}]
  BY DEF ShareInv, ShareTypeInv, ShareTypeOK, FilesTypeOK
<1>3. FilesTypeOK' /\ \A u \in Tracks \ {t} : disk'[u] = disk[u]
  BY <1>1, <1>2 DEF FilesTypeOK
<1>4. AddedOnDisk'
  BY <1>1, <1>3 DEF ShareInv, AddedOnDisk, OnDisk
<1>5. Sound(index)' /\ AddedIndexed' /\ added' \subseteq Tracks /\ overtaken' \subseteq added'
  BY <1>1 DEF ShareInv, ShareTypeInv, ShareTypeOK, AddedIndexed, Sound
<1>6. monitor' \in MonitorType
  BY <1>1, MonitorTyped DEF ShareInv
<1> QED
  BY <1>1, <1>3, <1>4, <1>5, <1>6, SameRequests, Together

-----------------------------------------------------------------------------
(* A rescan *)

\* A listing names every file of the directory, so all that was added.
LEMMA ScanDirectoryStep ==
  ASSUME ShareInv, NEW r \in Requests, ScanDirectory(r)
  PROVE  ShareInv'
<1>1. PICK s \in Listings :
        Goto(r, [at |-> "swap", known |-> added,
                 files |-> [n \in DOMAIN s |-> [track |-> s[n], size |-> disk[s[n]]]]])
  BY DEF ScanDirectory
<1> DEFINE found == [n \in DOMAIN s |-> [track |-> s[n], size |-> disk[s[n]]]]
           state == [at |-> "swap", known |-> added, files |-> found]
<1>2. /\ disk' = disk /\ index' = index /\ monitor' = monitor
      /\ added' = added /\ overtaken' = overtaken
  BY DEF ScanDirectory, shareVars, indexVars
<1>3. s \in [1..Cardinality(OnDisk) -> OnDisk] /\ \A t \in OnDisk : \E n \in DOMAIN s : s[n] = t
  BY <1>1 DEF Listings
<1>4. Cardinality(OnDisk) \in Nat
  <2>1. IsFiniteSet(OnDisk)
    BY TracksAssumption, FS_Subset DEF OnDisk
  <2> QED
    BY <2>1, FS_CardinalityType
<1>5. \A n \in DOMAIN s : s[n] \in Tracks /\ disk[s[n]] \in Sizes
  <2>1. disk \in [Tracks -> Sizes \cup {Missing}]
    BY DEF ShareInv, ShareTypeInv, ShareTypeOK, FilesTypeOK
  <2> QED
    BY <2>1, <1>3 DEF OnDisk
<1>6. found \in Seq(SharedFile)
  <2>1. DOMAIN s = 1..Cardinality(OnDisk)
    BY <1>3
  <2>2. found \in [1..Cardinality(OnDisk) -> SharedFile]
    BY <2>1, <1>5 DEF SharedFile
  <2> HIDE DEF found
  <2> QED
    BY <2>2, <1>4
<1>7. added \subseteq {found[n].track : n \in DOMAIN found}
  <2> SUFFICES ASSUME NEW t \in added
               PROVE  \E n \in DOMAIN found : t = found[n].track
    OBVIOUS
  <2>1. t \in OnDisk
    BY DEF ShareInv, AddedOnDisk
  <2> QED
    BY <2>1, <1>3
<1>8. added \subseteq Tracks
  BY DEF ShareInv, ShareTypeInv, ShareTypeOK
<1> HIDE DEF found
<1>9. /\ state \in LibraryRequest
      /\ state.known \subseteq {state.files[n].track : n \in DOMAIN state.files}
  BY <1>6, <1>7, <1>8 DEF LibraryRequest, ShareRequest
<1>10. Goto(r, state)
  BY <1>1 DEF found
<1> HIDE DEF state
<1>11. LibraryReqOK' /\ ScansList'
  BY <1>9, <1>10, ReqStays, ScansKept DEF ShareInv
<1>12. monitor' \in MonitorType
  BY <1>2, MonitorTyped DEF ShareInv
<1> QED
  BY <1>2, <1>11, <1>12, SameFolder, SameHistory, Together

LEMMA ScanOver ==
  ASSUME ShareInv, NEW r \in Requests, Finish(r)
  PROVE  LibraryReqOK' /\ ScansList'
<1>1. Goto(r, Idle) /\ Idle \in LibraryRequest /\ Idle.at # "swap"
  BY DEF Finish, LibraryRequest, ShareRequest, Idle
<1> QED
  BY <1>1, ReqStays, ScansKept DEF ShareInv

\* What the new index lacks was added after its scan had begun.
LEMMA SwapIndexStep ==
  ASSUME ShareInv, NEW r \in Requests, SwapIndex(r)
  PROVE  ShareInv'
<1> DEFINE files == req[r].files
<1>1. /\ At(r, "swap")
      /\ overtaken' = (overtaken \cup (added \ req[r].known)) \ FoundBy(r)
      /\ index' = IndexOf(files)
      /\ Finish(r) /\ disk' = disk /\ monitor' = monitor /\ added' = added
  BY DEF SwapIndex, FoundBy
<1>2. files \in Seq(SharedFile) /\ req[r].known \subseteq FoundBy(r)
  BY <1>1, ScanTypes DEF ShareInv, ScansList, InFlight
<1>3. Sound(index') /\ \A u \in FoundBy(r) : index'.paths[u] # NotIndexed
  <2>1. /\ Sound(IndexOf(files))
        /\ \A n \in DOMAIN files : IndexOf(files).paths[files[n].track] # NotIndexed
    BY <1>2, IndexOfSound
  <2> QED
    BY <2>1, <1>1 DEF FoundBy
<1>4. AddedIndexed'
  <2> SUFFICES ASSUME NEW u \in added' \ overtaken' PROVE index'.paths[u] # NotIndexed
    BY DEF AddedIndexed
  <2>1. u \in FoundBy(r)
    BY <1>1, <1>2
  <2> QED
    BY <2>1, <1>3
<1>5. added' \subseteq Tracks /\ overtaken' \subseteq added'
  BY <1>1 DEF ShareInv, ShareTypeInv, ShareTypeOK
<1>6. monitor' \in MonitorType
  BY <1>1, MonitorTyped DEF ShareInv
<1>7. Sound(index)'
  BY <1>3
<1> QED
  BY <1>1, <1>4, <1>5, <1>6, <1>7, SameFolder, ScanOver, Together

LEMMA AbandonScanStep ==
  ASSUME ShareInv, NEW r \in Requests, AbandonScan(r)
  PROVE  ShareInv'
<1>1. /\ Finish(r) /\ disk' = disk /\ index' = index /\ monitor' = monitor
      /\ added' = added /\ overtaken' = overtaken
  BY DEF AbandonScan, shareVars, indexVars
<1>2. monitor' \in MonitorType
  BY <1>1, MonitorTyped DEF ShareInv
<1> QED
  BY <1>1, <1>2, ScanOver, SameFolder, SameHistory, Together

-----------------------------------------------------------------------------
(* The theorems *)

LEMMA ShareInitInv == EmptyFolder /\ ShareInit /\ RequestsInit => ShareInv
<1> SUFFICES ASSUME EmptyFolder, ShareInit, RequestsInit PROVE ShareInv
  OBVIOUS
<1>1. Sound(index)
  BY EmptySound DEF ShareInit
<1>2. /\ index.files \in Seq(SharedFile)
      /\ index.words \in [Words -> Seq(DOMAIN index.files)]
      /\ index.paths \in [Tracks -> {NotIndexed} \cup DOMAIN index.files]
  BY <1>1 DEF Sound
<1>3. FilesTypeOK /\ LibraryReqOK /\ ScansList
  BY DEF EmptyFolder, RequestsInit, FilesTypeOK, LibraryReqOK, LibraryRequest, ShareRequest, ScansList, InFlight, At, Idle
<1>4. added = {} /\ overtaken = {} /\ monitor = NoFile
  BY DEF ShareInit
<1> QED
  BY <1>1, <1>2, <1>3, <1>4 DEF ShareInv, ShareTypeInv, ShareTypeOK, AddedOnDisk, AddedIndexed

LEMMA ShareStutter ==
  ASSUME ShareInv, UNCHANGED <<req, shareVars>>
  PROVE  ShareInv'
<1>1. /\ req' = req /\ disk' = disk /\ index' = index /\ monitor' = monitor
      /\ added' = added /\ overtaken' = overtaken
  BY DEF shareVars, indexVars
<1>2. monitor' \in MonitorType
  BY <1>1, MonitorTyped DEF ShareInv
<1> QED
  BY <1>1, <1>2, SameRequests, SameFolder, SameHistory, Together

LEMMA ShareNextInv == ShareInv /\ [ShareNext]_<<req, shareVars>> => ShareInv'
<1> SUFFICES ASSUME ShareInv, [ShareNext]_<<req, shareVars>> PROVE ShareInv'
  OBVIOUS
<1>1. CASE MonitorStep
  BY <1>1, StartTransferStep, EndTransferStep, ReadFileStep, AddFileStep DEF MonitorStep
<1>2. CASE \E t \in Tracks : TagFile(t) \/ RemoveFile(t)
  BY <1>2, TagFileStep, RemoveFileStep
<1>3. CASE \E r \in Requests : ScanStep(r)
  BY <1>3, ScanDirectoryStep, SwapIndexStep, AbandonScanStep DEF ScanStep
<1>4. CASE UNCHANGED <<req, shareVars>>
  BY <1>4, ShareStutter
<1> QED
  BY <1>1, <1>2, <1>3, <1>4 DEF ShareNext

\* The inductive invariant: the index is sound, what was added is on disk,
\* and only what a late scan overtook is without an entry.
THEOREM ShareInvariance == ShareSpec => []ShareInv
<1> QED
  BY ShareInitInv, ShareNextInv, PTL DEF ShareSpec

-----------------------------------------------------------------------------
(* What a search finds *)

LEMMA UnderItsWords ==
  ASSUME Sound(index), NEW k \in DOMAIN index.files, NEW w \in Words
  PROVE  Under(k, w) <=> \E n \in DOMAIN WordsOf[index.files[k].track] :
                           WordsOf[index.files[k].track][n] = w
BY Zenon DEF Sound, Under

\* A search of one word, for as many files as are under it, misses none.
LEMMA OneWord ==
  ASSUME Sound(index), NEW w \in Words, NEW k \in DOMAIN index.files, Under(k, w)
  PROVE  index.files[k] \in Search(<<w>>, {}, Len(index.words[w]))
<1> DEFINE include == <<w>>
           entries(n) == index.words[include[n]]
           rarest == CHOOSE n \in DOMAIN include : \A m \in DOMAIN include :
                       \/ Len(entries(n)) < Len(entries(m))
                       \/ Len(entries(n)) = Len(entries(m)) /\ n <= m
           found == index.words[w]
           hits == {e \in DOMAIN found : /\ \A n \in DOMAIN include : Under(found[e], include[n])
                                         /\ \A v \in {} : ~Under(found[e], v)}
<1>1. DOMAIN include = {1} /\ include[1] = w /\ include # <<>>
  OBVIOUS
<1>2. found \in Seq(DOMAIN index.files)
  BY DEF Sound
<1>3. DOMAIN found = 1..Len(found) /\ Len(found) \in Nat
  BY <1>2
<1>4. rarest = 1
  <2> HIDE DEF include
  <2>1. \E n \in DOMAIN include : \A m \in DOMAIN include :
          \/ Len(entries(n)) < Len(entries(m))
          \/ Len(entries(n)) = Len(entries(m)) /\ n <= m
    BY <1>1
  <2>2. rarest \in DOMAIN include
    BY <2>1
  <2> QED
    BY <2>2, <1>1
<1>5. Search(include, {}, Len(found)) = {index.files[found[e]] : e \in First(hits, Len(found))}
  <2>1. Search(include, {}, Len(found)) =
          {index.files[entries(rarest)[e]] :
            e \in First({e \in DOMAIN entries(rarest) :
                           /\ \A n \in DOMAIN include : Under(entries(rarest)[e], include[n])
                           /\ \A v \in {} : ~Under(entries(rarest)[e], v)}, Len(found))}
    BY <1>1 DEF Search
  <2>2. entries(rarest) = found
    BY <1>4, <1>1
  <2> QED
    BY <2>1, <2>2
<1>6. PICK e \in DOMAIN found : found[e] = k
  BY DEF Under
<1>7. e \in hits
  BY <1>1, <1>6
<1>8. e \in First(hits, Len(found))
  <2> DEFINE before == {m \in hits : m < e}
  <2>1. before \subseteq 1..(e - 1) /\ e \in Nat /\ e >= 1 /\ e <= Len(found)
    BY <1>3, <1>6
  <2> HIDE DEF before, found
  <2>2. IsFiniteSet(1..(e - 1)) /\ Cardinality(1..(e - 1)) = e - 1
    <3>1. 1 \in Int /\ e - 1 \in Int /\ e - 1 >= 0
      BY <2>1
    <3>2. IsFiniteSet(1..(e - 1)) /\ Cardinality(1..(e - 1)) = IF 1 > e - 1 THEN 0 ELSE (e - 1) - 1 + 1
      BY <3>1, FS_Interval
    <3> QED
      BY <2>1, <3>2
  <2>3. IsFiniteSet(before) /\ Cardinality(before) <= Cardinality(1..(e - 1))
    BY <2>1, <2>2, FS_Subset
  <2>4. Cardinality(before) \in Nat
    BY <2>3, FS_CardinalityType
  <2>5. Cardinality(before) < Len(found)
    BY <2>1, <2>2, <2>3, <2>4, <1>3
  <2> QED
    BY <1>7, <2>5 DEF First, before
<1> QED
  BY <1>5, <1>6, <1>8

\* An answer has all words of the query and none of the excluded ones.
LEMMA AllWords ==
  ASSUME Sound(index), NEW v \in Words, NEW w \in Words, NEW x \in Words,
         NEW file \in Search(<<v, w>>, {x}, 2)
  PROVE  {v, w} \subseteq {WordsOf[file.track][n] : n \in DOMAIN WordsOf[file.track]} \ {x}
<1>1. PICK k : file = index.files[k] /\ Under(k, v) /\ Under(k, w) /\ ~Under(k, x)
  <2> DEFINE include == <<v, w>>
             entries(n) == index.words[include[n]]
             rarest == CHOOSE n \in DOMAIN include : \A m \in DOMAIN include :
                         \/ Len(entries(n)) < Len(entries(m))
                         \/ Len(entries(n)) = Len(entries(m)) /\ n <= m
             found == entries(rarest)
             hits == {e \in DOMAIN found : /\ \A n \in DOMAIN include : Under(found[e], include[n])
                                           /\ \A y \in {x} : ~Under(found[e], y)}
  <2>1. DOMAIN include = {1, 2} /\ include[1] = v /\ include[2] = w /\ include # <<>>
    OBVIOUS
  <2>2. Search(include, {x}, 2) = {index.files[found[e]] : e \in First(hits, 2)}
    BY <2>1 DEF Search
  <2>3. PICK e \in hits : file = index.files[found[e]]
    BY <2>2 DEF First
  <2> HIDE DEF rarest, entries
  <2>4. /\ \A n \in DOMAIN include : Under(found[e], include[n])
        /\ ~Under(found[e], x)
    BY <2>3
  <2> QED
    BY <2>1, <2>3, <2>4
<1>2. k \in DOMAIN index.files
  <2>1. index.words[v] \in Seq(DOMAIN index.files)
    BY DEF Sound
  <2> QED
    BY <1>1, <2>1 DEF Under
<1>3. \A y \in Words : Under(k, y) <=>
        \E n \in DOMAIN WordsOf[file.track] : WordsOf[file.track][n] = y
  BY <1>1, <1>2, UnderItsWords
<1> QED
  BY <1>1, <1>3

LEMMA SoundFinds == ShareInv => SharedFilesFound
<1> SUFFICES ASSUME ShareInv PROVE SharedFilesFound
  OBVIOUS
<1>1. Sound(index)
  BY DEF ShareInv
<1>2. ASSUME NEW t \in added \ overtaken
      PROVE  /\ \E file \in Lookup(t) : file.track = t
             /\ \A n \in DOMAIN WordsOf[t] : LET w == WordsOf[t][n]
                  IN \E file \in Search(<<w>>, {}, Len(index.words[w])) : file.track = t
  <2> DEFINE k == index.paths[t]
  <2>1. t \in Tracks
    BY DEF ShareInv, ShareTypeInv, ShareTypeOK
  <2>2. k # NotIndexed
    BY DEF ShareInv, AddedIndexed
  <2>3. k \in DOMAIN index.files /\ index.files[k].track = t
    BY <1>1, <2>1, <2>2 DEF Sound
  <2>4. \E file \in Lookup(t) : file.track = t
    BY <2>2, <2>3 DEF Lookup
  <2>5. ASSUME NEW n \in DOMAIN WordsOf[t]
        PROVE  \E file \in Search(<<WordsOf[t][n]>>, {}, Len(index.words[WordsOf[t][n]])) : file.track = t
    <3> DEFINE w == WordsOf[t][n]
    <3>1. w \in Words
      <4>1. WordsOf[t] \in Seq(Words)
        BY <2>1, WordsAssumption
      <4> QED
        BY <4>1
    <3>2. Under(k, w)
      <4>1. WordsOf[index.files[k].track][n] = w /\ n \in DOMAIN WordsOf[index.files[k].track]
        BY <2>3
      <4> HIDE DEF k, w
      <4> QED
        BY <4>1, <3>1, <2>3, <1>1, UnderItsWords
    <3> HIDE DEF w, k
    <3>3. index.files[k] \in Search(<<w>>, {}, Len(index.words[w]))
      BY <1>1, <3>1, <3>2, <2>3, OneWord
    <3> QED
      BY <3>3, <2>3 DEF w
  <2> QED
    BY <2>4, <2>5
<1> QED
  BY <1>1, <1>2, AllWords DEF SharedFilesFound

\* Peers find what was downloaded: a file whose entry no late scan dropped is
\* looked up by its path and found by every word of its name, and a search
\* answers with files that have all its words and none it excludes.
THEOREM SharesAreFound == ShareSpec => []SharedFilesFound
<1> QED
  BY ShareInvariance, SoundFinds, PTL

-----------------------------------------------------------------------------
(* The metadata lookups: the rate limit towards MusicBrainz and the jobs    *)

LookLabels == {"wait", "sleep", "due", "call", "cover", "flag", "store"}
TaskPlace  == {Idle} \cup Looking \cup [at : {"begin", "next"}]

MetadataTypeInv == MetadataTypeOK /\ LibraryReqOK

\* Who sleeps until the next request is allowed holds the mutex, and so will
\* find nobody has sent one since.
MutexHeld ==
  \A w \in Workers : Place(w).at \in {"sleep", "due"} =>
    lock = w /\ (Place(w).at = "due" => ~recent)

\* A job that has yet to list its tracks has none, and the backfill looks
\* nothing up.
JobPlaces ==
  /\ \A j \in Jobs : task[j].at \in {"idle", "begin"} => listed[j] = {}
  /\ task["backfill"].at \in {"idle", "next", "cover", "flag"}

\* METADATA_JOB_RUNNING, COVER_BACKFILL_RUNNING: while a request is to start a
\* job, or the job is at work, nobody else starts it.
Starts(r, j) == req[r].at = "list" /\ req[r].job = j

JobOnce ==
  \A j \in Jobs :
    /\ task[j] # Idle => running[j]
    /\ \A r \in Requests : Starts(r, j) =>
         running[j] /\ task[j] = Idle /\ \A q \in Requests : Starts(q, j) => q = r

\* What a job listed and has no result for, it has yet to do or is at.
AtWork(j, t) ==
  \/ \E work \in todo[j] : work.track = t
  \/ task[j].at \in LookLabels /\ task[j].track = t

Reached ==
  \A j \in Jobs : \A t \in listed[j] \ excused[j] : HasResult(j, t) \/ AtWork(j, t)

MetadataInv == MetadataTypeInv /\ MutexHeld /\ JobPlaces /\ JobOnce /\ Reached

-----------------------------------------------------------------------------
(* Places *)

LEMMA WorkerKinds ==
  /\ Jobs \subseteq Tasks /\ Tracks \subseteq Tasks
  /\ Requests \subseteq Workers /\ Tasks \subseteq Workers
  /\ \A w \in Tasks : w \notin Requests
  /\ \A w \in Workers : w \notin Requests => w \in Tasks
  /\ \A t \in Tracks : t \notin Jobs
  /\ Free \notin Workers
BY WorkersAssumption DEF Workers, Tasks

LEMMA PlaceType ==
  ASSUME MetadataTypeInv, NEW w \in Workers
  PROVE  /\ w \in Requests => Place(w) = req[w] /\ Place(w) \in LibraryRequest
         /\ w \in Tasks => Place(w) = task[w] /\ Place(w) \in TaskPlace
BY WorkerKinds DEF MetadataTypeInv, LibraryReqOK, MetadataTypeOK, Place, TaskPlace

LEMMA LookingPlace ==
  ASSUME MetadataTypeInv, NEW w \in Workers, Place(w).at \in LookLabels
  PROVE  Place(w) \in Looking
<1>1. CASE w \in Requests
  BY <1>1, PlaceType DEF LibraryRequest, ShareRequest, MetadataRequest, Idle, LookLabels
<1>2. CASE w \in Tasks
  BY <1>2, PlaceType DEF TaskPlace, Idle, LookLabels
<1> QED
  BY <1>1, <1>2, WorkerKinds

LEMMA LookingFields ==
  ASSUME NEW look \in Looking
  PROVE  /\ look.at \in LookLabels /\ look.for \in {"search", "release"}
         /\ look.track \in Tracks /\ look.match \in Recordings \cup {NoMatch}
         /\ look.art \in Arts \cup {NoArt}
         /\ look \in LibraryRequest /\ look \in TaskPlace /\ look # Idle
BY DEF Looking, LookLabels, LibraryRequest, ShareRequest, MetadataRequest, TaskPlace, Idle

\* One worker moves, the others stand where they stood.
LEMMA Moves ==
  ASSUME MetadataTypeInv, NEW w \in Workers, NEW s, To(w, s)
  PROVE  Place(w)' = s /\ \A v \in Workers \ {w} : Place(v)' = Place(v)
<1>1. req \in [Requests -> LibraryRequest] /\ task \in [Tasks -> TaskPlace]
  BY DEF MetadataTypeInv, LibraryReqOK, MetadataTypeOK, TaskPlace
<1>2. CASE w \in Requests
  <2>1. req' = [req EXCEPT ![w] = s] /\ task' = task
    BY <1>2 DEF To, Goto
  <2> QED
    BY <1>1, <1>2, <2>1 DEF Place
<1>3. CASE w \notin Requests
  <2>1. task' = [task EXCEPT ![w] = s] /\ req' = req
    BY <1>3 DEF To
  <2>2. w \in Tasks
    BY <1>3, WorkerKinds
  <2> QED
    BY <1>1, <1>3, <2>1, <2>2, WorkerKinds DEF Place
<1> QED
  BY <1>2, <1>3

LEMMA Move ==
  ASSUME MetadataTypeInv, NEW w \in Workers, NEW s, To(w, s),
         w \in Requests => s \in LibraryRequest, w \notin Requests => s \in TaskPlace
  PROVE  /\ req' \in [Requests -> LibraryRequest]
         /\ task' \in [Tasks -> TaskPlace]
         /\ Place(w)' = s
         /\ \A v \in Workers \ {w} : Place(v)' = Place(v)
<1>1. req \in [Requests -> LibraryRequest] /\ task \in [Tasks -> TaskPlace]
  BY DEF MetadataTypeInv, LibraryReqOK, MetadataTypeOK, TaskPlace
<1>2. /\ req' \in [Requests -> LibraryRequest]
      /\ task' \in [Tasks -> TaskPlace]
  BY <1>1, WorkerKinds DEF To, Goto
<1> QED
  BY <1>2, Moves

\* What is taken for a track is one of the answers, or nothing.
LEMMA MatchedRecording ==
  ASSUME NEW t \in Tracks, NEW recs \in Answers
  PROVE  Matched(t, recs) \in Recordings \cup {NoMatch}
<1>1. \A n \in DOMAIN recs : recs[n] \in Recordings
  BY DEF Recordings
<1>2. recs # <<>> => 1 \in DOMAIN recs
  BY QueriesAssumption
<1>3. CASE t \in Precise
  BY <1>1, <1>2, <1>3 DEF Matched, FirstAnswer
<1>4. CASE t \notin Precise
  <2>1. SelectBestMatch(QueryOf[t], recs) = NoMatch
          \/ \E n \in DOMAIN recs : SelectBestMatch(QueryOf[t], recs) = recs[n]
    BY Zenon DEF SelectBestMatch
  <2> QED
    BY <1>1, <1>4, <2>1 DEF Matched
<1> QED
  BY <1>3, <1>4

-----------------------------------------------------------------------------
(* A step that moves one worker *)

\* What a step leaves alone keeps its type.
LEMMA Types ==
  ASSUME MetadataInv
  PROVE  /\ limited \subseteq Tracks /\ running \in [Jobs -> BOOLEAN]
         /\ lock \in Workers \cup {Free} /\ recent \in BOOLEAN
         /\ todo \in [Jobs -> SUBSET Work] /\ begun \in 0..MaxLookups
         /\ disk \in [Tracks -> Sizes \cup {Missing}]
         /\ row \in [Tracks -> [fetched : BOOLEAN, art : Arts \cup {NoArt}, cached : BOOLEAN]]
         /\ listed \in [Jobs -> SUBSET Tracks] /\ excused \in [Jobs -> SUBSET Tracks]
         /\ task \in [Tasks -> TaskPlace] /\ req \in [Requests -> LibraryRequest]
BY DEF MetadataInv, MetadataTypeInv, MetadataTypeOK, FilesTypeOK, TaskPlace, LibraryReqOK

LEMMA JobPlace ==
  ASSUME NEW j \in Jobs
  PROVE  /\ j \in Tasks /\ j \in Workers /\ j \notin Requests
         /\ Place(j) = task[j] /\ Place(j)' = task'[j]
<1>1. j \in Tasks /\ j \in Workers /\ j \notin Requests
  BY WorkerKinds
<1> QED
  BY <1>1 DEF Place

\* Nobody else's place changes, and a job that moves is still at work.
LEMMA OneMoves ==
  ASSUME MetadataInv, NEW w \in Workers, NEW s, To(w, s),
         w \in Requests => s \in LibraryRequest, w \notin Requests => s \in TaskPlace,
         w \in Jobs => s.at \notin {"idle", "begin"},
         w = "backfill" => s.at \in {"next", "cover", "flag"}
  PROVE  /\ LibraryReqOK' /\ task' \in [Tasks -> TaskPlace]
         /\ Place(w)' = s /\ \A v \in Workers \ {w} : Place(v)' = Place(v)
         /\ \A j \in Jobs : task'[j] = IF j = w THEN s ELSE task[j]
         /\ task'["backfill"].at \in {"idle", "next", "cover", "flag"}
<1>1. /\ req' \in [Requests -> LibraryRequest] /\ task' \in [Tasks -> TaskPlace]
      /\ Place(w)' = s /\ \A v \in Workers \ {w} : Place(v)' = Place(v)
  BY Move DEF MetadataInv
<1>2. \A j \in Jobs : task'[j] = IF j = w THEN s ELSE task[j]
  BY <1>1, JobPlace
<1>3. task'["backfill"].at \in {"idle", "next", "cover", "flag"}
  <2>1. "backfill" \in Jobs /\ task["backfill"].at \in {"idle", "next", "cover", "flag"}
    BY DEF MetadataInv, JobPlaces, Jobs
  <2> QED
    BY <1>2, <2>1
<1> QED
  BY <1>1, <1>2, <1>3 DEF LibraryReqOK

\* ... and who moves does not go to sleep or come from there with the mutex.
LEMMA MutexKept ==
  ASSUME MetadataInv, NEW w \in Workers, NEW s, To(w, s),
         w \in Requests => s \in LibraryRequest, w \notin Requests => s \in TaskPlace,
         s.at \notin {"sleep", "due"}, lock' = lock, recent' = recent
  PROVE  MutexHeld'
<1>1. Place(w)' = s /\ \A v \in Workers \ {w} : Place(v)' = Place(v)
  BY Move DEF MetadataInv
<1>2. MutexHeld
  BY DEF MetadataInv
<1> QED
  BY <1>1, <1>2 DEF MutexHeld

\* Who moves starts no job, and a job only moves while it is at work.
LEMMA OnceKept ==
  ASSUME MetadataInv, NEW w \in Workers, NEW s, To(w, s),
         w \in Requests => s \in LibraryRequest, w \notin Requests => s \in TaskPlace,
         s.at # "list", w \in Jobs => task[w] # Idle, running' = running
  PROVE  JobOnce'
<1>1. Place(w)' = s /\ \A v \in Workers \ {w} : Place(v)' = Place(v)
  BY Move DEF MetadataInv
<1>2. \A j \in Jobs : task'[j] # Idle => task[j] # Idle
  BY <1>1, JobPlace
<1>3. ASSUME NEW j \in Jobs, NEW r \in Requests, Starts(r, j)'
      PROVE  Starts(r, j) /\ r # w
  <2>1. r \in Workers /\ Place(r) = req[r] /\ Place(r)' = req'[r]
    BY WorkerKinds DEF Place
  <2> QED
    BY <1>1, <1>3, <2>1 DEF Starts
<1>4. \A j \in Jobs, r \in Requests : Starts(r, j) => task[j] = Idle
  BY DEF MetadataInv, JobOnce
<1>5. ASSUME NEW j \in Jobs, NEW r \in Requests, Starts(r, j), task[j] = Idle
      PROVE  task'[j] = Idle
  <2>1. j # w
    BY <1>5
  <2> QED
    BY <1>1, <2>1, JobPlace, <1>5
<1> QED
  BY <1>2, <1>3, <1>4, <1>5 DEF MetadataInv, JobOnce

\* No job loses sight of a track it has no result for.
LEMMA ReachedKept ==
  ASSUME MetadataInv,
         \A j \in Jobs :
           /\ listed'[j] = listed[j] /\ excused[j] \subseteq excused'[j]
           /\ \A t \in listed[j] \ excused'[j] :
                /\ HasResult(j, t) => HasResult(j, t)'
                /\ AtWork(j, t) => AtWork(j, t)' \/ HasResult(j, t)'
  PROVE  Reached'
<1>1. Reached
  BY DEF MetadataInv
<1> QED
  BY <1>1 DEF Reached

\* Whoever but a job moves, the jobs' work is what it was.
LEMMA JobsUndisturbed ==
  ASSUME MetadataInv, NEW w \in Workers \ Jobs, NEW s, To(w, s), todo' = todo
  PROVE  \A j \in Jobs : \A t : AtWork(j, t)' = AtWork(j, t)
<1>1. \A v \in Workers \ {w} : Place(v)' = Place(v)
  BY Moves DEF MetadataInv
<1>2. \A j \in Jobs : task'[j] = task[j]
  BY <1>1, JobPlace
<1> QED
  BY <1>2 DEF AtWork

\* A job at a track that goes on with it.
LEMMA JobGoesOn ==
  ASSUME MetadataInv, NEW w \in Workers, Place(w).at \in LookLabels,
         NEW s, To(w, s), s.at \in LookLabels, s.track = Place(w).track, todo' = todo
  PROVE  \A j \in Jobs : \A t : AtWork(j, t)' = AtWork(j, t)
<1>1. Place(w)' = s /\ \A v \in Workers \ {w} : Place(v)' = Place(v)
  BY Moves DEF MetadataInv
<1>2. ASSUME NEW j \in Jobs, NEW t PROVE AtWork(j, t)' = AtWork(j, t)
  <2>1. CASE j = w
    <3>1. task[j].at \in LookLabels /\ task'[j].at \in LookLabels /\ task'[j].track = task[j].track
      BY <1>1, <2>1, JobPlace
    <3> QED
      BY <3>1 DEF AtWork
  <2>2. CASE j # w
    <3>1. task'[j] = task[j]
      BY <1>1, <2>2, JobPlace
    <3> QED
      BY <3>1 DEF AtWork
  <2> QED
    BY <2>1, <2>2
<1> QED
  BY <1>2

LEMMA Worked ==
  ASSUME MetadataInv, NEW w \in Workers, NEW s, To(w, s),
         w \in Requests => s \in LibraryRequest, w \notin Requests => s \in TaskPlace,
         w \in Jobs => s.at \notin {"idle", "begin"},
         w = "backfill" => s.at \in {"next", "cover", "flag"},
         FilesTypeOK', row' \in [Tracks -> [fetched : BOOLEAN, art : Arts \cup {NoArt}, cached : BOOLEAN]],
         limited' \subseteq Tracks, running' \in [Jobs -> BOOLEAN], todo' \in [Jobs -> SUBSET Work],
         lock' \in Workers \cup {Free}, recent' \in BOOLEAN, begun' \in 0..MaxLookups,
         listed' \in [Jobs -> SUBSET Tracks], excused' \in [Jobs -> SUBSET Tracks],
         \A j \in Jobs : j # w => listed'[j] = listed[j],
         MutexHeld', JobOnce', Reached'
  PROVE  MetadataInv'
<1>1. /\ LibraryReqOK' /\ task' \in [Tasks -> TaskPlace]
      /\ \A j \in Jobs : task'[j] = IF j = w THEN s ELSE task[j]
      /\ task'["backfill"].at \in {"idle", "next", "cover", "flag"}
  BY OneMoves
<1>2. MetadataTypeOK'
  BY <1>1 DEF MetadataTypeOK, TaskPlace
<1>3. JobPlaces'
  BY <1>1 DEF MetadataInv, JobPlaces
<1> QED
  BY <1>1, <1>2, <1>3 DEF MetadataInv, MetadataTypeInv

\* ... and nothing else that the properties look at changes.
LEMMA Quiet ==
  ASSUME MetadataInv, NEW w \in Workers, NEW s, To(w, s),
         w \in Requests => s \in LibraryRequest, w \notin Requests => s \in TaskPlace,
         w \in Jobs => s.at \notin {"idle", "begin"},
         w = "backfill" => s.at \in {"next", "cover", "flag"},
         begun' \in 0..MaxLookups, limited' \subseteq Tracks, running' \in [Jobs -> BOOLEAN],
         todo' \in [Jobs -> SUBSET Work], lock' \in Workers \cup {Free}, recent' \in BOOLEAN,
         MutexHeld', JobOnce',
         \A j \in Jobs : \A t \in Tracks : AtWork(j, t) => AtWork(j, t)',
         UNCHANGED <<disk, row, listed, excused>>
  PROVE  MetadataInv'
<1>1. /\ FilesTypeOK' /\ row' \in [Tracks -> [fetched : BOOLEAN, art : Arts \cup {NoArt}, cached : BOOLEAN]]
      /\ listed' \in [Jobs -> SUBSET Tracks] /\ excused' \in [Jobs -> SUBSET Tracks]
      /\ \A j \in Jobs : listed'[j] = listed[j] /\ listed[j] \subseteq Tracks
  BY Types DEF FilesTypeOK
<1>2. \A j \in Jobs : \A t : HasResult(j, t)' = HasResult(j, t)
  BY DEF HasResult
<1>3. Reached'
  BY <1>1, <1>2, ReachedKept
<1> QED
  BY <1>1, <1>3, Worked

\* The facts about a worker looking a track up that its steps start from.
LEMMA LookingNow ==
  ASSUME MetadataInv, NEW w \in Workers, Place(w).at \in LookLabels
  PROVE  /\ Place(w) \in Looking /\ Place(w).track \in Tracks
         /\ w \in Tasks => task[w] # Idle
         /\ w \in Jobs => w = "scan" \/ w = "backfill"
<1>1. Place(w) \in Looking
  BY LookingPlace DEF MetadataInv
<1>2. w \in Tasks => task[w] # Idle
  BY <1>1, LookingFields, PlaceType DEF MetadataInv
<1> QED
  BY <1>1, <1>2, LookingFields DEF Jobs

\* The backfill never waits for MusicBrainz.
LEMMA NotTheBackfill ==
  ASSUME MetadataInv, NEW w \in Workers, Place(w).at \in LookLabels \ {"cover", "flag"}
  PROVE  w # "backfill"
<1> SUFFICES ASSUME w = "backfill" PROVE FALSE
  OBVIOUS
<1>1. "backfill" \in Tasks
  BY WorkerKinds DEF Jobs
<1>2. Place(w) = task["backfill"]
  BY <1>1, PlaceType DEF MetadataInv
<1> QED
  BY <1>2 DEF MetadataInv, JobPlaces, LookLabels

LEMMA ToLooking ==
  ASSUME NEW s \in Looking
  PROVE  /\ s \in LibraryRequest /\ s \in TaskPlace
         /\ s.at \notin {"idle", "begin", "list"}
BY LookingFields DEF LookLabels

\* A lookup that goes on.
LEMMA GoesOn ==
  ASSUME NEW look \in Looking, NEW at \in LookLabels
  PROVE  /\ [look EXCEPT !.at = at] \in Looking
         /\ [look EXCEPT !.at = at].at = at
         /\ [look EXCEPT !.at = at].track = look.track
BY DEF Looking, LookLabels

LEMMA GoesOnWithArt ==
  ASSUME NEW look \in Looking, NEW at \in LookLabels, NEW art \in Arts \cup {NoArt}
  PROVE  /\ [look EXCEPT !.at = at, !.art = art] \in Looking
         /\ [look EXCEPT !.at = at, !.art = art].at = at
         /\ [look EXCEPT !.at = at, !.art = art].track = look.track
BY DEF Looking, LookLabels

\* It disturbs neither the flags of the jobs nor their lists.
LEMMA StillAtWork ==
  ASSUME MetadataInv, NEW w \in Workers, Place(w).at \in LookLabels,
         NEW s \in Looking, To(w, s), s.track = Place(w).track, UNCHANGED <<running, todo>>
  PROVE  JobOnce' /\ \A j \in Jobs : \A t \in Tracks : AtWork(j, t) => AtWork(j, t)'
<1>1. s.at \in LookLabels /\ s.at # "list" /\ s \in LibraryRequest /\ s \in TaskPlace
  BY LookingFields DEF LookLabels
<1>2. w \in Jobs => task[w] # Idle
  BY LookingNow, WorkerKinds
<1>3. JobOnce'
  BY <1>1, <1>2, OnceKept
<1>4. \A j \in Jobs : \A t : AtWork(j, t)' = AtWork(j, t)
  BY <1>1, JobGoesOn
<1> QED
  BY <1>3, <1>4

-----------------------------------------------------------------------------
(* The actions *)

LEMMA AcquireStep ==
  ASSUME MetadataInv, NEW w \in Workers, Acquire(w)
  PROVE  MetadataInv'
<1> DEFINE look == Place(w)
<1>1. /\ look.at = "wait" /\ look.at \in LookLabels /\ lock = Free
      /\ UNCHANGED <<disk, row, limited, running, todo, begun, listed, excused>>
  BY DEF Acquire, On, LookLabels
<1>2. look \in Looking /\ w # "backfill"
  BY <1>1, LookingNow, NotTheBackfill DEF LookLabels
<1>3. PICK at \in {"sleep", "call"} :
         /\ To(w, [look EXCEPT !.at = at])
         /\ at = "sleep" => lock' = w /\ recent' = recent
         /\ at = "call" => lock' = Free /\ recent' = TRUE
  BY <1>1 DEF Acquire
<1> DEFINE s == [look EXCEPT !.at = at]
<1>4. s \in Looking /\ s.at = at /\ s.track = look.track
  <2>1. at \in LookLabels
    BY DEF LookLabels
  <2> QED
    BY <1>2, <2>1, GoesOn
<1> HIDE DEF s
<1>5. Place(w)' = s /\ \A v \in Workers \ {w} : Place(v)' = Place(v)
  BY <1>3, <1>4, ToLooking, Move DEF MetadataInv, s
<1>6. MutexHeld'
  BY <1>1, <1>3, <1>4, <1>5, WorkerKinds DEF MetadataInv, MutexHeld
<1>7. JobOnce' /\ \A j \in Jobs : \A t \in Tracks : AtWork(j, t) => AtWork(j, t)'
  BY <1>1, <1>3, <1>4, StillAtWork DEF s
<1>8. lock' \in Workers \cup {Free} /\ recent' \in BOOLEAN
  BY <1>3, Types
<1> QED
  BY <1>1, <1>2, <1>3, <1>4, <1>6, <1>7, <1>8, Types, ToLooking, Quiet DEF s

LEMMA WakeStep ==
  ASSUME MetadataInv, NEW w \in Workers, Wake(w)
  PROVE  MetadataInv'
<1> DEFINE look == Place(w)
           s == [look EXCEPT !.at = "call"]
<1>1. /\ look.at = "due" /\ look.at \in LookLabels /\ To(w, s) /\ recent' = TRUE /\ lock' = Free
      /\ UNCHANGED <<disk, row, limited, running, todo, begun, listed, excused>>
  BY DEF Wake, On, LookLabels
<1>2. look \in Looking /\ w # "backfill"
  BY <1>1, LookingNow, NotTheBackfill DEF LookLabels
<1>3. s \in Looking /\ s.at = "call" /\ s.track = look.track
  <2>1. "call" \in LookLabels
    BY DEF LookLabels
  <2> QED
    BY <1>2, <2>1, GoesOn
<1> HIDE DEF s
<1>4. Place(w)' = s /\ \A v \in Workers \ {w} : Place(v)' = Place(v)
  BY <1>1, <1>3, ToLooking, Move DEF MetadataInv
<1>5. MutexHeld'
  <2>1. lock = w /\ \A v \in Workers \ {w} : Place(v).at \notin {"sleep", "due"}
    BY <1>1 DEF MetadataInv, MutexHeld
  <2> QED
    BY <1>3, <1>4, <2>1 DEF MutexHeld
<1>6. JobOnce' /\ \A j \in Jobs : \A t \in Tracks : AtWork(j, t) => AtWork(j, t)'
  BY <1>1, <1>3, StillAtWork
<1> QED
  BY <1>1, <1>2, <1>3, <1>5, <1>6, Types, ToLooking, Quiet

\* Who slept has slept enough.
LEMMA SecondStep ==
  ASSUME MetadataInv, Second
  PROVE  MetadataInv'
<1>1. /\ recent' = FALSE
      /\ req' = [w \in Requests |-> Slept(w)] /\ task' = [w \in Tasks |-> Slept(w)]
      /\ UNCHANGED <<disk, row, limited, running, todo, lock, begun, listed, excused>>
  BY DEF Second
<1>2. \A w \in Workers : Place(w)' = Slept(w)
  BY <1>1, WorkerKinds DEF Place
<1>3. ASSUME NEW w \in Workers, Place(w).at = "sleep"
      PROVE  /\ Slept(w) \in Looking /\ Slept(w).at = "due" /\ Slept(w).track = Place(w).track
             /\ w # "backfill"
  <2>1. Place(w) \in Looking /\ w # "backfill"
    BY <1>3, LookingNow, NotTheBackfill DEF LookLabels
  <2>2. "due" \in LookLabels
    BY DEF LookLabels
  <2> DEFINE s == [Place(w) EXCEPT !.at = "due"]
  <2>3. Slept(w) = s
    BY <1>3 DEF Slept, On
  <2>4. s \in Looking /\ s.at = "due" /\ s.track = Place(w).track
    BY <2>1, <2>2, GoesOn
  <2> HIDE DEF s
  <2> QED
    BY <2>1, <2>3, <2>4
<1>4. ASSUME NEW w \in Workers, Place(w).at # "sleep"
      PROVE  Slept(w) = Place(w)
  BY <1>4 DEF Slept, On
<1>5. req' \in [Requests -> LibraryRequest] /\ task' \in [Tasks -> TaskPlace]
  <2>1. \A w \in Requests : Slept(w) \in LibraryRequest
    BY <1>3, <1>4, PlaceType, ToLooking, WorkerKinds DEF MetadataInv
  <2>2. \A w \in Tasks : Slept(w) \in TaskPlace
    BY <1>3, <1>4, PlaceType, ToLooking, WorkerKinds DEF MetadataInv
  <2> QED
    BY <1>1, <2>1, <2>2
<1>6. MetadataTypeOK' /\ LibraryReqOK'
  BY <1>1, <1>5 DEF MetadataInv, MetadataTypeInv, MetadataTypeOK, FilesTypeOK, TaskPlace, LibraryReqOK
<1>7. MutexHeld'
  BY <1>1, <1>2, <1>3, <1>4 DEF MetadataInv, MutexHeld
<1>8. \A j \in Jobs : \/ task'[j] = task[j]
                      \/ /\ task[j].at = "sleep" /\ task'[j].at = "due"
                         /\ task'[j].track = task[j].track /\ j # "backfill"
  BY <1>2, <1>3, <1>4, JobPlace
<1>9. JobPlaces'
  <2>1. task'["backfill"] = task["backfill"]
    BY <1>8 DEF Jobs
  <2> QED
    BY <1>1, <1>8, <2>1 DEF MetadataInv, JobPlaces
<1>10. JobOnce'
  <2>1. \A r \in Requests : req'[r] = req[r] \/ req'[r].at = "due"
    BY <1>2, <1>3, <1>4, WorkerKinds DEF Place
  <2>2. \A r \in Requests, j \in Jobs : Starts(r, j)' => Starts(r, j)
    BY <2>1 DEF Starts
  <2>3. \A j \in Jobs : task[j] = Idle <=> task'[j] = Idle
    BY <1>8 DEF Idle
  <2> QED
    BY <1>1, <2>2, <2>3 DEF MetadataInv, JobOnce
<1>11. Reached'
  <2>1. \A j \in Jobs : \A t : AtWork(j, t) => AtWork(j, t)'
    BY <1>1, <1>8 DEF AtWork, LookLabels
  <2>2. \A j \in Jobs : \A t : HasResult(j, t)' = HasResult(j, t)
    BY <1>1 DEF HasResult
  <2> QED
    BY <1>1, <2>1, <2>2, ReachedKept
<1> QED
  BY <1>6, <1>7, <1>9, <1>10, <1>11 DEF MetadataInv, MetadataTypeInv

\* A lookup goes on with the mutex and the rest as they were.
LEMMA LookupGoesOn ==
  ASSUME MetadataInv, NEW w \in Workers, Place(w).at \in LookLabels,
         NEW s \in Looking, To(w, s), s.track = Place(w).track,
         s.at \notin {"sleep", "due"}, w = "backfill" => s.at \in {"cover", "flag"},
         UNCHANGED <<disk, row, limited, running, todo, lock, recent, begun, listed, excused>>
  PROVE  MetadataInv'
<1>1. MutexHeld'
  BY ToLooking, MutexKept
<1>2. JobOnce' /\ \A j \in Jobs : \A t \in Tracks : AtWork(j, t) => AtWork(j, t)'
  BY StillAtWork
<1> QED
  BY <1>1, <1>2, Types, ToLooking, Quiet

LEMMA ArtStep ==
  ASSUME MetadataInv, NEW w \in Workers, Place(w).at = "call", w # "backfill",
         NEW art \in Arts \cup {NoArt}, To(w, WithArt(w, art)),
         UNCHANGED <<disk, row, limited, running, todo, lock, recent, begun, listed, excused>>
  PROVE  MetadataInv'
<1> DEFINE look == Place(w)
           at == IF art = NoArt THEN "store" ELSE "cover"
           s == [look EXCEPT !.at = at, !.art = art]
<1>1. To(w, s)
  BY DEF WithArt
<1>2. look \in Looking /\ look.at \in LookLabels
  BY LookingNow DEF LookLabels
<1>3. s \in Looking /\ s.at = at /\ s.track = look.track
  <2>1. at \in LookLabels
    BY DEF LookLabels
  <2>2. \A a \in LookLabels : /\ [look EXCEPT !.at = a, !.art = art] \in Looking
                              /\ [look EXCEPT !.at = a, !.art = art].at = a
                              /\ [look EXCEPT !.at = a, !.art = art].track = look.track
    <3> HIDE DEF look
    <3> QED
      BY <1>2 DEF Looking, LookLabels
  <2> HIDE DEF at, look
  <2> QED
    BY <2>1, <2>2, Zenon
<1>4. at \notin {"sleep", "due"}
  OBVIOUS
<1> HIDE DEF s, at
<1> QED
  BY <1>1, <1>2, <1>3, <1>4, LookupGoesOn

LEMMA SearchRecordingStep ==
  ASSUME MetadataInv, NEW w \in Workers, SearchRecording(w)
  PROVE  MetadataInv'
<1> DEFINE look == Place(w)
<1>1. /\ look.at = "call" /\ look.at \in LookLabels
      /\ UNCHANGED <<disk, row, limited, running, todo, lock, recent, begun, listed, excused>>
  BY DEF SearchRecording, On, LookLabels
<1>2. look \in Looking /\ w # "backfill" /\ look.track \in Tracks
  BY <1>1, LookingNow, NotTheBackfill DEF LookLabels
<1>3. PICK recs \in Answers :
        LET match == Matched(look.track, recs)
        IN IF match # NoMatch
           THEN To(w, [look EXCEPT !.at = "wait", !.for = "release", !.match = match])
           ELSE \E art \in DiscogsArt : To(w, WithArt(w, art))
  BY DEF SearchRecording
<1> DEFINE match == Matched(look.track, recs)
<1>4. match \in Recordings \cup {NoMatch}
  BY <1>2, MatchedRecording
<1>5. CASE match # NoMatch
  <2> DEFINE s == [look EXCEPT !.at = "wait", !.for = "release", !.match = match]
  <2>1. To(w, s)
    BY <1>3, <1>5
  <2>2. s \in Looking /\ s.at = "wait" /\ s.track = look.track
    <3> HIDE DEF match
    <3> QED
      BY <1>2, <1>4 DEF Looking
  <2> HIDE DEF s
  <2> QED
    BY <1>1, <1>2, <2>1, <2>2, LookupGoesOn
<1>6. CASE match = NoMatch
  <2>1. PICK art \in DiscogsArt : To(w, WithArt(w, art))
    BY <1>3, <1>6
  <2>2. art \in Arts \cup {NoArt}
    BY DEF DiscogsArt
  <2> QED
    BY <1>1, <1>2, <2>1, <2>2, ArtStep
<1> QED
  BY <1>5, <1>6

LEMMA GetReleaseStep ==
  ASSUME MetadataInv, NEW w \in Workers, GetRelease(w)
  PROVE  MetadataInv'
<1>1. /\ Place(w).at = "call"
      /\ UNCHANGED <<disk, row, limited, running, todo, lock, recent, begun, listed, excused>>
  BY DEF GetRelease, On
<1>2. w # "backfill"
  BY <1>1, NotTheBackfill DEF LookLabels
<1>3. PICK art \in CoverArt : To(w, WithArt(w, art))
  BY DEF GetRelease
<1> QED
  BY <1>1, <1>2, <1>3, ArtStep DEF CoverArt

\* A job that is through with the track it was at: the track has its result,
\* or is excused.
LEMMA TrackOver ==
  ASSUME MetadataInv, NEW w \in Workers, Place(w).at \in LookLabels, NEW s, To(w, s),
         NEW t \in Tracks, t = Place(w).track,
         w \in Requests => s \in LibraryRequest, w \notin Requests => s \in TaskPlace,
         s.at \notin {"sleep", "due", "list"}, w \in Jobs => s.at = "next",
         FilesTypeOK', row' \in [Tracks -> [fetched : BOOLEAN, art : Arts \cup {NoArt}, cached : BOOLEAN]],
         excused' \in [Jobs -> SUBSET Tracks],
         UNCHANGED <<limited, running, todo, lock, recent, begun, listed>>,
         \A j \in Jobs : /\ excused[j] \subseteq excused'[j]
                         /\ \A u \in Tracks : HasResult(j, u) => HasResult(j, u)',
         w \in Jobs => HasResult(w, t)' \/ t \in excused'[w] \/ t \notin listed[w]
  PROVE  MetadataInv'
<1>1. MutexHeld'
  BY MutexKept
<1>2. JobOnce'
  BY LookingNow, WorkerKinds, OnceKept
<1>3. Place(w)' = s /\ \A v \in Workers \ {w} : Place(v)' = Place(v)
  BY Moves DEF MetadataInv
<1>4. ASSUME NEW j \in Jobs, NEW u \in listed[j] \ excused'[j], AtWork(j, u)
      PROVE  AtWork(j, u)' \/ HasResult(j, u)'
  <2>1. CASE j = w /\ u = t
    BY <2>1
  <2>2. CASE j = w /\ u # t
    <3>1. task[j] = Place(w)
      BY <2>2, JobPlace
    <3> QED
      BY <1>4, <2>2, <3>1 DEF AtWork
  <2>3. CASE j # w
    <3>1. task'[j] = task[j]
      BY <1>3, <2>3, JobPlace
    <3> QED
      BY <1>4, <3>1 DEF AtWork
  <2> QED
    BY <2>1, <2>2, <2>3
<1>5. Reached'
  <2>1. \A j \in Jobs : listed[j] \subseteq Tracks
    BY Types
  <2> QED
    BY <1>4, <2>1, ReachedKept
<1>6. w \in Jobs => s.at \notin {"idle", "begin"} /\ s.at \in {"next", "cover", "flag"}
  OBVIOUS
<1>7. /\ limited' \subseteq Tracks /\ running' \in [Jobs -> BOOLEAN] /\ todo' \in [Jobs -> SUBSET Work]
      /\ lock' \in Workers \cup {Free} /\ recent' \in BOOLEAN /\ begun' \in 0..MaxLookups
      /\ listed' \in [Jobs -> SUBSET Tracks] /\ \A j \in Jobs : listed'[j] = listed[j]
  BY Types
<1>8. w = "backfill" => w \in Jobs
  BY DEF Jobs
<1> QED
  BY <1>1, <1>2, <1>5, <1>6, <1>7, <1>8, Worked

LEMMA CacheCoverStep ==
  ASSUME MetadataInv, NEW w \in Workers, CacheCover(w)
  PROVE  MetadataInv'
<1> DEFINE look == Place(w)
<1>1. /\ look.at = "cover" /\ look.at \in LookLabels
      /\ UNCHANGED <<disk, row, limited, running, todo, lock, recent, begun, listed>>
  BY DEF CacheCover, On, LookLabels
<1>2. look \in Looking /\ look.track \in Tracks
  BY <1>1, LookingNow
<1>3. ASSUME NEW at \in {"flag", "store"}, To(w, [look EXCEPT !.at = at]),
             w = "backfill" => at = "flag", UNCHANGED excused
      PROVE  MetadataInv'
  <2> DEFINE s == [look EXCEPT !.at = at]
  <2>1. s \in Looking /\ s.at = at /\ s.track = look.track
    <3>1. at \in LookLabels
      BY DEF LookLabels
    <3> QED
      BY <1>2, <3>1, GoesOn
  <2> HIDE DEF s
  <2> QED
    BY <1>1, <1>3, <2>1, LookupGoesOn DEF s
<1>4. CASE w = "backfill" /\ To(w, [at |-> "next"]) /\ Excuse(w, look.track)
  <2> DEFINE s == [at |-> "next"]
  <2>1. w \in Jobs /\ w \notin Requests
    BY <1>4, WorkerKinds DEF Jobs
  <2>2. s \in TaskPlace /\ s.at = "next"
    BY DEF TaskPlace
  <2>0. PICK t \in Tracks : t = look.track
    BY <1>2
  <2>3. /\ excused' \in [Jobs -> SUBSET Tracks]
        /\ \A j \in Jobs : excused[j] \subseteq excused'[j]
        /\ t \in excused'[w] \/ t \notin listed[w]
    BY <2>0, <1>4, <2>1, Types DEF Excuse
  <2>4. \A j \in Jobs : \A u \in Tracks : HasResult(j, u) => HasResult(j, u)'
    BY <1>1 DEF HasResult
  <2>5. FilesTypeOK' /\ row' \in [Tracks -> [fetched : BOOLEAN, art : Arts \cup {NoArt}, cached : BOOLEAN]]
    BY <1>1, Types DEF FilesTypeOK
  <2>6. s.at \notin {"sleep", "due", "list"} /\ To(w, s)
    BY <1>4
  <2> HIDE DEF s
  <2> QED
    BY <1>1, <2>0, <2>1, <2>2, <2>3, <2>4, <2>5, <2>6, TrackOver
<1>5. \/ To(w, [look EXCEPT !.at = "flag"]) /\ UNCHANGED excused
      \/ w # "backfill" /\ To(w, [look EXCEPT !.at = "store"]) /\ UNCHANGED excused
      \/ w = "backfill" /\ To(w, [at |-> "next"]) /\ Excuse(w, look.track)
  BY Zenon DEF CacheCover
<1> QED
  BY <1>3, <1>4, <1>5

LEMMA SetCoverCachedStep ==
  ASSUME MetadataInv, NEW w \in Workers, SetCoverCached(w)
  PROVE  MetadataInv'
<1> DEFINE look == Place(w)
           t == look.track
<1>1. /\ look.at = "flag" /\ look.at \in LookLabels /\ row' = [row EXCEPT ![t].cached = TRUE]
      /\ UNCHANGED <<disk, limited, running, todo, lock, recent, begun, listed, excused>>
  BY DEF SetCoverCached, On, LookLabels
<1>2. look \in Looking /\ t \in Tracks
  BY <1>1, LookingNow
<1>3. /\ row' \in [Tracks -> [fetched : BOOLEAN, art : Arts \cup {NoArt}, cached : BOOLEAN]]
      /\ \A u \in Tracks : /\ row'[u].fetched = row[u].fetched
                           /\ row[u].cached \/ u = t => row'[u].cached
  <2> DEFINE Entry == [fetched : BOOLEAN, art : Arts \cup {NoArt}, cached : BOOLEAN]
             new   == [row EXCEPT ![t].cached = TRUE]
  <2>1. row \in [Tracks -> Entry]
    BY Types
  <2>2. /\ new \in [Tracks -> Entry]
        /\ \A u \in Tracks : /\ new[u].fetched = row[u].fetched
                             /\ row[u].cached \/ u = t => new[u].cached
    BY <1>2, <2>1
  <2> HIDE DEF new
  <2>3. row' = new
    BY <1>1 DEF new
  <2> QED
    BY <2>2, <2>3
<1>4. \A j \in Jobs : \A u \in Tracks : HasResult(j, u) => HasResult(j, u)'
  BY <1>3 DEF HasResult
<1>5. FilesTypeOK' /\ excused' \in [Jobs -> SUBSET Tracks]
  BY <1>1, Types DEF FilesTypeOK
<1>6. CASE w = "backfill"
  <2> DEFINE s == [at |-> "next"]
  <2>1. To(w, s)
    BY <1>6 DEF SetCoverCached
  <2>2. w \in Jobs /\ w \notin Requests /\ s \in TaskPlace /\ s.at = "next"
    BY <1>6, WorkerKinds DEF TaskPlace, Jobs
  <2>3. PICK u \in Tracks : u = t
    BY <1>2
  <2>4. HasResult(w, u)'
    BY <1>3, <1>6, <2>3 DEF HasResult
  <2>5. s.at \notin {"sleep", "due", "list"}
    BY <2>2
  <2> HIDE DEF s, t
  <2> QED
    BY <1>1, <1>3, <1>4, <1>5, <2>1, <2>2, <2>3, <2>4, <2>5, TrackOver DEF t
<1>7. CASE w # "backfill"
  <2> DEFINE s == [look EXCEPT !.at = "store"]
  <2>1. To(w, s)
    BY <1>7 DEF SetCoverCached
  <2>2. s \in Looking /\ s.at = "store" /\ s.track = look.track
    <3>1. "store" \in LookLabels
      BY DEF LookLabels
    <3> QED
      BY <1>2, <3>1, GoesOn
  <2> HIDE DEF s
  <2>3. s \in LibraryRequest /\ s \in TaskPlace
    BY <2>2, ToLooking
  <2>4. MutexHeld'
    BY <1>1, <2>1, <2>2, <2>3, MutexKept
  <2>5. JobOnce' /\ \A j \in Jobs : \A u \in Tracks : AtWork(j, u) => AtWork(j, u)'
    BY <1>1, <2>1, <2>2, StillAtWork
  <2>6. Reached'
    <3>1. \A j \in Jobs : listed[j] \subseteq Tracks
      BY Types
    <3> QED
      BY <1>1, <1>4, <2>5, <3>1, ReachedKept
  <2> QED
    BY <1>1, <1>3, <1>5, <1>7, <2>1, <2>2, <2>3, <2>4, <2>5, <2>6, Types, Worked
<1> QED
  BY <1>6, <1>7

LEMMA AfterPlace ==
  ASSUME MetadataInv, NEW w \in Workers, Place(w).track \in Tracks, w # "backfill"
  PROVE  /\ w \in Requests => After(w) \in LibraryRequest
         /\ w \notin Requests => After(w) \in TaskPlace
         /\ After(w).at \notin {"sleep", "due", "list"}
         /\ w \in Jobs => After(w).at = "next"
<1>1. w \in Jobs => w = "scan" /\ w \notin Requests
  BY WorkerKinds DEF Jobs
<1>2. [at |-> "limit", track |-> Place(w).track] \in LibraryRequest
  BY DEF LibraryRequest, ShareRequest, MetadataRequest
<1>3. [at |-> "next"] \in TaskPlace /\ Idle \in TaskPlace /\ Idle.at = "idle"
  BY DEF TaskPlace, Idle
<1> QED
  BY <1>1, <1>2, <1>3 DEF After

LEMMA RowUpdated ==
  ASSUME MetadataInv, NEW t \in Tracks, NEW b \in BOOLEAN, NEW art \in Arts \cup {NoArt}
  PROVE  LET new == [row EXCEPT ![t].fetched = b, ![t].art = art]
         IN /\ new \in [Tracks -> [fetched : BOOLEAN, art : Arts \cup {NoArt}, cached : BOOLEAN]]
            /\ new[t].fetched = b
            /\ \A u \in Tracks : /\ new[u].cached = row[u].cached
                                 /\ u # t => new[u] = row[u]
<1> DEFINE Entry == [fetched : BOOLEAN, art : Arts \cup {NoArt}, cached : BOOLEAN]
           mid == [row EXCEPT ![t].fetched = b]
           new == [mid EXCEPT ![t].art = art]
<1>1. row \in [Tracks -> Entry]
  BY Types
<1>2. /\ mid \in [Tracks -> Entry] /\ mid[t].fetched = b
      /\ \A u \in Tracks : mid[u].cached = row[u].cached /\ (u # t => mid[u] = row[u])
  BY <1>1
<1> HIDE DEF mid
<1>3. /\ new \in [Tracks -> Entry] /\ new[t].fetched = b
      /\ \A u \in Tracks : new[u].cached = row[u].cached /\ (u # t => new[u] = row[u])
  BY <1>2
<1> QED
  BY <1>3 DEF mid

\* Whoever stores, or fails to, the scan is through with the track only if it
\* is stored or excused.
LEMMA StoreStep ==
  ASSUME MetadataInv, NEW w \in Workers, Store(w)
  PROVE  MetadataInv'
<1> DEFINE look == Place(w)
           t == look.track
<1>1. /\ look.at = "store" /\ look.at \in LookLabels /\ To(w, After(w))
      /\ UNCHANGED <<limited, running, todo, lock, recent, begun, listed>>
  BY DEF Store, On, LookLabels
<1>2. look \in Looking /\ t \in Tracks /\ w # "backfill" /\ (w \in Jobs => w = "scan")
  BY <1>1, LookingNow, NotTheBackfill DEF LookLabels
<1>3. /\ \/ UpdateItem(t, look.art) /\ UNCHANGED excused
         \/ Excuse(w, t) /\ UNCHANGED row
      /\ (disk[t] \in {Whole, Tagged} /\ Write(t, Tagged)) \/ UNCHANGED disk
  BY DEF Store
<1>4. FilesTypeOK'
  BY <1>2, <1>3, Types DEF FilesTypeOK, Write, Sizes
<1>5. row' \in [Tracks -> [fetched : BOOLEAN, art : Arts \cup {NoArt}, cached : BOOLEAN]]
  <2>1. look.art \in Arts \cup {NoArt}
    BY <1>2, LookingFields
  <2> QED
    <3>1. row' = [row EXCEPT ![t].fetched = TRUE, ![t].art = look.art] \/ row' = row
      BY <1>3 DEF UpdateItem
    <3>2. [row EXCEPT ![t].fetched = TRUE, ![t].art = look.art]
            \in [Tracks -> [fetched : BOOLEAN, art : Arts \cup {NoArt}, cached : BOOLEAN]]
      <4>1. TRUE \in BOOLEAN
        OBVIOUS
      <4> HIDE DEF look
      <4> QED
        BY <1>2, <2>1, <4>1, RowUpdated, ZenonT(30)
    <3> QED
      BY <3>1, <3>2, Types, Zenon
<1>6. /\ excused' \in [Jobs -> SUBSET Tracks]
      /\ \A j \in Jobs : excused[j] \subseteq excused'[j]
      /\ Excuse(w, t) /\ w \in Jobs => t \in excused'[w] \/ t \notin listed[w]
  <2> HIDE DEF t
  <2>1. excused' = excused \/ (w \in Jobs /\ excused' = [excused EXCEPT ![w] = @ \cup {t}])
    BY <1>3 DEF Excuse
  <2>2. Excuse(w, t) /\ w \in Jobs /\ t \in listed[w] => excused' = [excused EXCEPT ![w] = @ \cup {t}]
    BY DEF Excuse
  <2> QED
    BY <1>2, <2>1, <2>2, Types
<1>7. \A u \in Tracks : /\ row'[u].cached = row[u].cached
                        /\ row[u].fetched => row'[u].fetched
  BY <1>2, <1>3, Types DEF UpdateItem
<1>8. \A j \in Jobs : \A u \in Tracks : HasResult(j, u) => HasResult(j, u)'
  BY <1>7 DEF HasResult
<1>9. PICK u \in Tracks : u = t
  BY <1>2
<1>10. w \in Jobs => HasResult(w, u)' \/ u \in excused'[w] \/ u \notin listed[w]
  <2>1. UpdateItem(t, look.art) => row'[u].fetched
    <3> HIDE DEF look
    <3> QED
      BY <1>9, Types DEF UpdateItem
  <2> QED
    BY <1>2, <1>3, <1>6, <1>9, <2>1 DEF HasResult
<1> DEFINE s == After(w)
<1>11. /\ To(w, s) /\ s.at \notin {"sleep", "due", "list"} /\ (w \in Jobs => s.at = "next")
       /\ w \in Requests => s \in LibraryRequest
       /\ w \notin Requests => s \in TaskPlace
  BY <1>1, <1>2, AfterPlace
<1> HIDE DEF s
<1> QED
  BY <1>1, <1>4, <1>5, <1>6, <1>8, <1>9, <1>10, <1>11, TrackOver

\* A lookup begins at the mutex.
LEMMA BeginStep ==
  ASSUME MetadataInv, NEW w \in Workers, NEW t \in Tracks, Begin(w, t), w # "backfill",
         w \in Jobs => task[w] # Idle, todo' \in [Jobs -> SUBSET Work],
         \A j \in Jobs : \A u \in Tracks : AtWork(j, u) => AtWork(j, u)',
         UNCHANGED <<disk, row, limited, running, lock, recent, listed, excused>>
  PROVE  MetadataInv'
<1> DEFINE s == [at |-> "wait", for |-> "search", track |-> t, match |-> NoMatch, art |-> NoArt]
<1>1. To(w, s) /\ begun' = begun + 1 /\ begun < MaxLookups
  BY DEF Begin
<1>2. s \in Looking /\ s.at = "wait"
  BY DEF Looking
<1> HIDE DEF s
<1>3. MutexHeld'
  BY <1>1, <1>2, ToLooking, MutexKept
<1>4. begun' \in 0..MaxLookups
  BY <1>1, Types, MaxLookupsAssumption
<1>5. JobOnce'
  BY <1>1, <1>2, ToLooking, OnceKept
<1> QED
  BY <1>1, <1>2, <1>3, <1>4, <1>5, Types, ToLooking, Quiet

\* ... and whoever else begins one, the jobs do not notice.
LEMMA BeginElse ==
  ASSUME MetadataInv, NEW w \in Workers \ Jobs, NEW t \in Tracks, Begin(w, t),
         UNCHANGED <<disk, row, limited, running, todo, lock, recent, listed, excused>>
  PROVE  MetadataInv'
<1>1. \A j \in Jobs : \A u : AtWork(j, u)' = AtWork(j, u)
  <2>1. PICK s : To(w, s)
    BY DEF Begin
  <2> QED
    BY <2>1, JobsUndisturbed
<1>2. w # "backfill"
  BY DEF Jobs
<1> QED
  BY <1>1, <1>2, Types, BeginStep

LEMMA SpawnLookupStep ==
  ASSUME MetadataInv, NEW t \in Tracks, SpawnLookup(t)
  PROVE  MetadataInv'
<1>1. t \in Workers \ Jobs
  BY WorkerKinds
<1> QED
  BY <1>1, BeginElse DEF SpawnLookup

LEMMA RefreshStep ==
  ASSUME MetadataInv, NEW r \in Requests, NEW t \in Tracks, RefreshMetadata(r, t)
  PROVE  MetadataInv'
<1>1. r \in Workers \ Jobs
  BY WorkerKinds
<1> QED
  BY <1>1, BeginElse DEF RefreshMetadata

\* What a job takes from its list it works on.
LEMMA TakenUp ==
  ASSUME MetadataInv, NEW job \in Jobs, NEW work \in Work, On(job, "next"),
         todo' = [todo EXCEPT ![job] = @ \ {work}],
         NEW s, To(job, s), s.at \in LookLabels, s.track = work.track
  PROVE  \A j \in Jobs : \A t : AtWork(j, t) => AtWork(j, t)'
<1>1. job \in Workers /\ task[job].at = "next"
  BY JobPlace DEF On
<1>2. Place(job)' = s /\ \A v \in Workers \ {job} : Place(v)' = Place(v)
  BY <1>1, Moves DEF MetadataInv
<1>3. ASSUME NEW j \in Jobs, NEW t, AtWork(j, t) PROVE AtWork(j, t)'
  <2>1. CASE j = job
    <3>1. task'[j] = s
      BY <1>2, <2>1, JobPlace
    <3>2. PICK other \in todo[j] : other.track = t
      BY <1>1, <1>3, <2>1 DEF AtWork, LookLabels
    <3>3. other = work \/ other \in todo'[j]
      BY <2>1, Types
    <3> QED
      BY <3>1, <3>2, <3>3 DEF AtWork
  <2>2. CASE j # job
    <3>1. task'[j] = task[j] /\ todo'[j] = todo[j]
      BY <1>2, <2>2, JobPlace, Types
    <3> QED
      BY <1>3, <3>1 DEF AtWork
  <2> QED
    BY <2>1, <2>2
<1> QED
  BY <1>3

LEMMA NextTrackStep ==
  ASSUME MetadataInv, NEW work \in Work, NextTrack(work)
  PROVE  MetadataInv'
<1> DEFINE s == [at |-> "wait", for |-> "search", track |-> work.track, match |-> NoMatch, art |-> NoArt]
<1>1. "scan" \in Jobs /\ "scan" \in Workers /\ work.track \in Tracks
  BY WorkerKinds DEF Jobs, Work
<1>2. todo' = [todo EXCEPT !["scan"] = @ \ {work}] /\ todo' \in [Jobs -> SUBSET Work]
  BY Types DEF NextTrack
<1>3. task["scan"] # Idle
  BY <1>1, JobPlace DEF NextTrack, On, Idle
<1>4. To("scan", s) /\ s.at \in LookLabels /\ s.track = work.track
  BY DEF NextTrack, Begin, LookLabels
<1> HIDE DEF s
<1>5. \A j \in Jobs : \A t : AtWork(j, t) => AtWork(j, t)'
  BY <1>1, <1>2, <1>4, TakenUp DEF NextTrack
<1> QED
  BY <1>1, <1>2, <1>3, <1>5, BeginStep DEF NextTrack

\* A handler goes on, and no lookup.
LEMMA ElseGoesOn ==
  ASSUME MetadataInv, NEW r \in Requests, NEW s \in LibraryRequest, To(r, s),
         s.at \notin {"sleep", "due"}, JobOnce',
         limited' \subseteq Tracks, running' \in [Jobs -> BOOLEAN],
         UNCHANGED <<disk, row, todo, lock, recent, begun, listed, excused>>
  PROVE  MetadataInv'
<1>1. r \in Workers \ Jobs /\ r # "backfill"
  BY WorkerKinds DEF Jobs
<1>2. MutexHeld'
  BY <1>1, MutexKept
<1>3. \A j \in Jobs : \A t : AtWork(j, t)' = AtWork(j, t)
  BY <1>1, JobsUndisturbed
<1> QED
  BY <1>1, <1>2, <1>3, Types, Quiet

LEMMA Elsewhere ==
  /\ Idle \in LibraryRequest /\ Idle \in TaskPlace /\ Idle.at = "idle"
  /\ \A t \in Tracks : [at |-> "unlimit", track |-> t] \in LibraryRequest
  /\ \A j \in Jobs : [at |-> "list", job |-> j] \in LibraryRequest
  /\ \A l \in {"begin", "next"} : [at |-> l] \in TaskPlace
BY DEF LibraryRequest, ShareRequest, MetadataRequest, TaskPlace, Idle

LEMMA RequestPlace ==
  ASSUME MetadataInv, NEW r \in Requests
  PROVE  /\ r \in Workers /\ r \notin Jobs /\ r # "backfill" /\ Place(r) = req[r]
         /\ req[r].at \in {"limit", "unlimit"} => req[r].track \in Tracks
         /\ req[r].at = "list" => req[r].job \in Jobs
<1>1. r \in Workers /\ r \notin Jobs /\ r # "backfill" /\ Place(r) = req[r]
  BY WorkerKinds DEF Jobs, Place
<1>2. req[r] \in LibraryRequest
  BY DEF MetadataInv, MetadataTypeInv, LibraryReqOK
<1> QED
  BY <1>1, <1>2 DEF LibraryRequest, ShareRequest, MetadataRequest, Looking, Idle

LEMMA UpdateLimitStep ==
  ASSUME MetadataInv, NEW r \in Requests, UpdateLimit(r)
  PROVE  MetadataInv'
<1>1. limited' \subseteq Tracks
  BY Types, RequestPlace DEF UpdateLimit, On
<1>2. To(r, Idle) /\ JobOnce'
  BY RequestPlace, Elsewhere, OnceKept DEF UpdateLimit
<1> QED
  BY <1>1, <1>2, Types, RequestPlace, Elsewhere, ElseGoesOn DEF UpdateLimit

LEMMA ClearLimitStep ==
  ASSUME MetadataInv, NEW r \in Requests, ClearLimit(r)
  PROVE  MetadataInv'
<1>1. limited' \subseteq Tracks
  BY Types DEF ClearLimit
<1>2. To(r, Idle) /\ JobOnce'
  BY RequestPlace, Elsewhere, OnceKept DEF ClearLimit
<1> QED
  BY <1>1, <1>2, Types, RequestPlace, Elsewhere, ElseGoesOn DEF ClearLimit

LEMMA StartJobStep ==
  ASSUME MetadataInv, NEW r \in Requests, NEW job \in Jobs, StartJob(r, job)
  PROVE  MetadataInv'
<1> DEFINE s == [at |-> "list", job |-> job]
<1>1. /\ ~running[job] /\ running' = [running EXCEPT ![job] = TRUE]
      /\ To(r, s) /\ UNCHANGED <<disk, row, limited, todo, lock, recent, begun, listed, excused>>
      /\ req' = [req EXCEPT ![r] = s] /\ task' = task
  BY DEF StartJob, To, Goto
<1>2. s \in LibraryRequest /\ s.at = "list" /\ s.job = job
  BY Elsewhere
<1> HIDE DEF s
<1>3. \A q \in Requests, j \in Jobs :
        Starts(q, j)' => Starts(q, j) \/ (q = r /\ j = job)
  BY <1>1, <1>2, Types DEF Starts
<1>4. ~\E q \in Requests : Starts(q, job)
  BY <1>1 DEF MetadataInv, JobOnce
<1>5. JobOnce'
  BY <1>1, <1>3, <1>4, Types DEF MetadataInv, JobOnce
<1> QED
  BY <1>1, <1>2, <1>5, Types, ElseGoesOn

LEMMA RefuseJobStep ==
  ASSUME MetadataInv, NEW r \in Requests, RefuseJob(r)
  PROVE  MetadataInv'
<1>0. PICK job \in Jobs : job = req[r].job
  BY RequestPlace DEF RefuseJob, On
<1>1. /\ Starts(r, job) /\ running' = [running EXCEPT ![job] = FALSE] /\ To(r, Idle)
      /\ req' = [req EXCEPT ![r] = Idle] /\ task' = task
  BY <1>0, RequestPlace DEF RefuseJob, On, Starts, To, Goto
<1>2. \A q \in Requests, j \in Jobs : Starts(q, j)' => Starts(q, j) /\ q # r
  BY <1>1, Elsewhere, Types DEF Starts
<1>3. JobOnce'
  BY <1>1, <1>2, Types DEF MetadataInv, JobOnce
<1>4. running' \in [Jobs -> BOOLEAN]
  BY <1>1, Types
<1> QED
  BY <1>1, <1>3, <1>4, Types, Elsewhere, ElseGoesOn DEF RefuseJob

LEMMA NextCoverStep ==
  ASSUME MetadataInv, NEW work \in Work, NextCover(work)
  PROVE  MetadataInv'
<1> DEFINE s == [at |-> "cover", for |-> "release", track |-> work.track,
                 match |-> NoMatch, art |-> work.art]
<1>1. /\ To("backfill", s) /\ On("backfill", "next")
      /\ todo' = [todo EXCEPT !["backfill"] = @ \ {work}]
      /\ UNCHANGED <<disk, row, limited, running, lock, recent, begun, listed, excused>>
  BY DEF NextCover
<1>2. s \in Looking /\ s.at = "cover" /\ s.at \in LookLabels /\ s.track = work.track
  BY DEF Work, Looking, LookLabels
<1>3. todo' \in [Jobs -> SUBSET Work]
  BY <1>1, Types
<1>4. "backfill" \in Workers /\ "backfill" \in Jobs
  BY WorkerKinds DEF Jobs
<1> HIDE DEF s
<1>5. MutexHeld'
  BY <1>1, <1>2, <1>4, ToLooking, MutexKept
<1>6. \A j \in Jobs : \A t : AtWork(j, t) => AtWork(j, t)'
  BY <1>1, <1>2, <1>4, TakenUp
<1>7. JobOnce'
  <2>1. task["backfill"] # Idle
    BY <1>1, <1>4, JobPlace DEF On, Idle
  <2> QED
    BY <1>1, <1>2, <1>4, <2>1, ToLooking, OnceKept
<1> QED
  BY <1>1, <1>2, <1>3, <1>4, <1>5, <1>6, <1>7, Types, ToLooking, Quiet

LEMMA Unmoved ==
  ASSUME MetadataInv, limited' \subseteq Tracks,
         UNCHANGED <<req, disk, row, running, todo, task, lock, recent, begun, listed, excused>>
  PROVE  MetadataInv'
<1>1. \A w \in Workers : Place(w)' = Place(w)
  BY DEF Place
<1>2. MetadataTypeOK' /\ LibraryReqOK'
  BY DEF MetadataInv, MetadataTypeInv, MetadataTypeOK, FilesTypeOK, LibraryReqOK
<1>3. MutexHeld'
  BY <1>1 DEF MetadataInv, MutexHeld
<1>4. JobPlaces' /\ JobOnce'
  BY DEF MetadataInv, JobPlaces, JobOnce, Starts
<1>5. Reached'
  BY DEF MetadataInv, Reached, AtWork, HasResult
<1> QED
  BY <1>2, <1>3, <1>4, <1>5 DEF MetadataInv, MetadataTypeInv

LEMMA DayPassesStep ==
  ASSUME MetadataInv, NEW t \in Tracks, DayPasses(t)
  PROVE  MetadataInv'
<1>1. limited' \subseteq Tracks
  BY Types DEF DayPasses
<1>2. UNCHANGED <<req, disk, row, running, todo, task, lock, recent, begun, listed, excused>>
  BY DEF DayPasses
<1> QED
  BY <1>1, <1>2, Unmoved

\* The track may be one the scan has a result for: it is excused then.
LEMMA ClearMetadataStep ==
  ASSUME MetadataInv, NEW r \in Requests, NEW t \in Tracks, ClearMetadata(r, t)
  PROVE  MetadataInv'
<1> DEFINE s == [at |-> "unlimit", track |-> t]
<1>1. /\ row' = [row EXCEPT ![t].fetched = FALSE, ![t].art = NoArt]
      /\ Excuse("scan", t) /\ To(r, s)
      /\ UNCHANGED <<disk, limited, running, todo, lock, recent, begun, listed>>
  BY DEF ClearMetadata
<1>2. s \in LibraryRequest /\ s.at = "unlimit"
  BY Elsewhere
<1>3. /\ row' \in [Tracks -> [fetched : BOOLEAN, art : Arts \cup {NoArt}, cached : BOOLEAN]]
      /\ \A u \in Tracks : /\ row'[u].cached = row[u].cached
                           /\ u # t => row'[u] = row[u]
  <2> DEFINE new == [row EXCEPT ![t].fetched = FALSE, ![t].art = NoArt]
  <2>1. FALSE \in BOOLEAN /\ NoArt \in Arts \cup {NoArt}
    OBVIOUS
  <2>2. new \in [Tracks -> [fetched : BOOLEAN, art : Arts \cup {NoArt}, cached : BOOLEAN]]
    BY <2>1, RowUpdated, ZenonT(30)
  <2>3. \A u \in Tracks : new[u].cached = row[u].cached /\ (u # t => new[u] = row[u])
    BY <2>1, RowUpdated, ZenonT(30)
  <2> HIDE DEF new
  <2>4. row' = new
    BY <1>1 DEF new
  <2> QED
    BY <2>2, <2>3, <2>4
<1>4. /\ excused' \in [Jobs -> SUBSET Tracks]
      /\ \A j \in Jobs : excused[j] \subseteq excused'[j]
      /\ t \in excused'["scan"] \/ t \notin listed["scan"]
  BY <1>1, Types DEF Excuse, Jobs
<1> HIDE DEF s
<1>5. r \in Workers \ Jobs /\ r # "backfill"
  BY RequestPlace
<1>6. Reached'
  <2>1. \A j \in Jobs : \A u : AtWork(j, u)' = AtWork(j, u)
    BY <1>1, <1>5, JobsUndisturbed
  <2>2. ASSUME NEW j \in Jobs, NEW u \in listed[j] \ excused'[j], HasResult(j, u)
        PROVE  HasResult(j, u)'
    <3>1. u \in Tracks
      BY Types
    <3>2. CASE j = "scan"
      BY <1>3, <1>4, <2>2, <3>1, <3>2 DEF HasResult
    <3>3. CASE j # "scan"
      BY <1>3, <2>2, <3>1, <3>3 DEF HasResult
    <3> QED
      BY <3>2, <3>3
  <2> QED
    BY <1>1, <1>4, <2>1, <2>2, ReachedKept
<1>7. FilesTypeOK' /\ listed' \in [Jobs -> SUBSET Tracks] /\ \A j \in Jobs : listed'[j] = listed[j]
  BY <1>1, Types DEF FilesTypeOK
<1>8. MutexHeld'
  BY <1>1, <1>2, <1>5, MutexKept
<1>9. JobOnce'
  BY <1>1, <1>2, <1>5, OnceKept
<1> QED
  BY <1>1, <1>2, <1>3, <1>4, <1>5, <1>6, <1>7, <1>8, <1>9, Types, WorkerKinds, Worked

\* What a job lists is on its list.
LEMMA Taken ==
  ASSUME MetadataInv, NEW job \in Jobs, Take(job)
  PROVE  /\ todo' \in [Jobs -> SUBSET Work] /\ listed' \in [Jobs -> SUBSET Tracks]
         /\ \A t \in listed'[job] : AtWork(job, t)'
         /\ \A j \in Jobs \ {job} : todo'[j] = todo[j] /\ listed'[j] = listed[j]
<1>1. Listed(job) \subseteq Work
  <2>1. \A u \in Tracks : row[u].art \in Arts \cup {NoArt}
    BY Types
  <2> QED
    BY <2>1 DEF Listed, WithoutMetadata, UncachedCovers, Work
<1>2. {work.track : work \in Listed(job)} \subseteq Tracks
  BY <1>1 DEF Work
<1>3. todo'[job] = Listed(job) /\ listed'[job] = {work.track : work \in Listed(job)}
  BY Types DEF Take
<1>4. \A t \in listed'[job] : AtWork(job, t)'
  BY <1>3 DEF AtWork
<1> QED
  BY <1>1, <1>2, <1>4, Types DEF Take

\* The handler is through and its job begins: it was not at work.
LEMMA SpawnJobStep ==
  ASSUME MetadataInv, NEW r \in Requests, SpawnJob(r)
  PROVE  MetadataInv'
<1>0. PICK job \in Jobs : job = req[r].job
  BY RequestPlace DEF SpawnJob, On
<1> DEFINE first == [at |-> IF job = "scan" THEN "begin" ELSE "next"]
<1>1. /\ req' = [req EXCEPT ![r] = Idle] /\ task' = [task EXCEPT ![job] = first]
      /\ IF job = "scan" THEN UNCHANGED <<todo, listed>> ELSE Take(job)
      /\ Starts(r, job)
      /\ UNCHANGED <<disk, row, limited, running, lock, recent, begun, excused>>
  BY <1>0, RequestPlace DEF SpawnJob, Finish, Goto, On, Starts
<1>2. job \in Jobs /\ job \in Tasks /\ job \notin Requests /\ job \in Workers
  BY WorkerKinds
<1>3. /\ first \in TaskPlace
      /\ first.at = IF job = "scan" THEN "begin" ELSE "next"
  BY Elsewhere
<1> HIDE DEF first
<1>4. req' \in [Requests -> LibraryRequest] /\ task' \in [Tasks -> TaskPlace]
  BY <1>1, <1>2, <1>3, Elsewhere, Types
<1>5. /\ todo' \in [Jobs -> SUBSET Work] /\ listed' \in [Jobs -> SUBSET Tracks]
      /\ \A j \in Jobs \ {job} : todo'[j] = todo[j] /\ listed'[j] = listed[j]
  BY <1>1, Taken, Types
<1>6. MetadataTypeOK' /\ LibraryReqOK'
  BY <1>1, <1>4, <1>5 DEF MetadataInv, MetadataTypeInv, MetadataTypeOK, FilesTypeOK, LibraryReqOK, TaskPlace
<1>7. /\ Place(r)' = Idle /\ Place(job)' = first
      /\ \A w \in Workers \ {r, job} : Place(w)' = Place(w)
  BY <1>1, <1>2, Types, WorkerKinds DEF Place
<1>8. MutexHeld'
  BY <1>1, <1>3, <1>7, Elsewhere DEF MetadataInv, MutexHeld
<1>9. task[job] = Idle /\ running[job] /\ \A q \in Requests : Starts(q, job) => q = r
  BY <1>1, <1>2 DEF MetadataInv, JobOnce
<1>10. \A j \in Jobs : task'[j] = IF j = job THEN first ELSE task[j]
  BY <1>1, <1>2, Types, WorkerKinds
<1>11. JobPlaces'
  <2>1. job = "scan" => listed'[job] = {}
    BY <1>1, <1>9 DEF MetadataInv, JobPlaces, Idle
  <2>2. "backfill" \in Jobs
    BY DEF Jobs
  <2> QED
    BY <1>3, <1>5, <1>10, <2>1, <2>2 DEF MetadataInv, JobPlaces, Jobs
<1>12. JobOnce'
  <2>1. \A q \in Requests, j \in Jobs : Starts(q, j)' => Starts(q, j) /\ j # job
    BY <1>1, <1>9, Elsewhere, Types DEF Starts
  <2> QED
    BY <1>1, <1>9, <1>10, <2>1 DEF MetadataInv, JobOnce
<1>13. Reached'
  <2> SUFFICES ASSUME NEW j \in Jobs, NEW t \in listed'[j] \ excused'[j]
               PROVE  HasResult(j, t)' \/ AtWork(j, t)'
    BY DEF Reached
  <2>1. CASE j # job
    <3>1. HasResult(j, t) \/ AtWork(j, t)
      BY <1>1, <1>5, <2>1 DEF MetadataInv, Reached
    <3> QED
      BY <1>1, <1>5, <1>10, <2>1, <3>1 DEF HasResult, AtWork
  <2>2. CASE j = job
    <3>1. job = "scan" => listed'[job] = {}
      BY <1>1, <1>9 DEF MetadataInv, JobPlaces, Idle
    <3> QED
      BY <1>1, <2>2, <3>1, Taken
  <2> QED
    BY <2>1, <2>2
<1> QED
  BY <1>6, <1>8, <1>11, <1>12, <1>13 DEF MetadataInv, MetadataTypeInv

LEMMA JobOverStep ==
  ASSUME MetadataInv, NEW job \in Jobs, JobOver(job), task[job] # Idle,
         UNCHANGED <<disk, row, limited, todo, lock, recent, begun>>
  PROVE  MetadataInv'
<1>1. /\ To(job, Idle) /\ running' = [running EXCEPT ![job] = FALSE]
      /\ listed' = [listed EXCEPT ![job] = {}] /\ excused' = [excused EXCEPT ![job] = {}]
  BY DEF JobOver
<1>2. job \in Workers /\ job \in Tasks /\ job \notin Requests
  BY WorkerKinds
<1>3. /\ req' = req /\ task' = [task EXCEPT ![job] = Idle]
  BY <1>1, <1>2 DEF To
<1>4. Idle \in TaskPlace /\ Idle.at = "idle"
  BY Elsewhere
<1>5. /\ req' \in [Requests -> LibraryRequest] /\ task' \in [Tasks -> TaskPlace]
      /\ Place(job)' = Idle /\ \A w \in Workers \ {job} : Place(w)' = Place(w)
  BY <1>1, <1>2, <1>4, Move DEF MetadataInv
<1>6. MetadataTypeOK' /\ LibraryReqOK'
  <2>1. /\ running' \in [Jobs -> BOOLEAN] /\ listed' \in [Jobs -> SUBSET Tracks]
        /\ excused' \in [Jobs -> SUBSET Tracks]
    BY <1>1, Types
  <2> QED
    BY <1>5, <2>1 DEF MetadataInv, MetadataTypeInv, MetadataTypeOK, FilesTypeOK, LibraryReqOK, TaskPlace
<1>7. MutexHeld'
  BY <1>4, <1>5 DEF MetadataInv, MutexHeld
<1>8. \A j \in Jobs : /\ task'[j] = IF j = job THEN Idle ELSE task[j]
                      /\ listed'[j] = IF j = job THEN {} ELSE listed[j]
                      /\ excused'[j] = IF j = job THEN {} ELSE excused[j]
                      /\ running'[j] = IF j = job THEN FALSE ELSE running[j]
  BY <1>1, <1>3, Types, WorkerKinds
<1>9. JobPlaces'
  <2>1. "backfill" \in Jobs
    BY DEF Jobs
  <2> QED
    BY <1>4, <1>8, <2>1 DEF MetadataInv, JobPlaces
<1>10. JobOnce'
  <2>1. \A q \in Requests : ~Starts(q, job)
    BY DEF MetadataInv, JobOnce
  <2>2. \A q \in Requests, j \in Jobs : Starts(q, j)' <=> Starts(q, j)
    BY <1>3 DEF Starts
  <2> QED
    BY <1>8, <2>1, <2>2 DEF MetadataInv, JobOnce
<1>11. Reached'
  <2>1. \A j \in Jobs \ {job} : \A t : AtWork(j, t)' = AtWork(j, t) /\ HasResult(j, t)' = HasResult(j, t)
    BY <1>8 DEF AtWork, HasResult
  <2>2. Reached
    BY DEF MetadataInv
  <2> QED
    BY <1>8, <2>1, <2>2 DEF Reached
<1> QED
  BY <1>6, <1>7, <1>9, <1>10, <1>11 DEF MetadataInv, MetadataTypeInv

LEMMA EndJobStep ==
  ASSUME MetadataInv, NEW job \in Jobs, EndJob(job)
  PROVE  MetadataInv'
<1>1. task[job] # Idle
  BY JobPlace DEF EndJob, On, Idle
<1> QED
  BY <1>1, JobOverStep DEF EndJob

LEMMA ListLibraryStep ==
  ASSUME MetadataInv, ListLibrary
  PROVE  MetadataInv'
<1>1. "scan" \in Jobs /\ "scan" \in Workers /\ "scan" \notin Requests
  BY WorkerKinds DEF Jobs
<1>2. UNCHANGED <<disk, row, limited, lock, recent, begun>> /\ task["scan"] # Idle
  BY <1>1, JobPlace DEF ListLibrary, On, Idle
<1>3. CASE /\ Take("scan")
           /\ To("scan", [at |-> "next"])
           /\ UNCHANGED <<running, excused>>
  <2> DEFINE s == [at |-> "next"]
  <2>1. s \in TaskPlace /\ s.at = "next" /\ To("scan", s)
    BY <1>3, Elsewhere
  <2> HIDE DEF s
  <2>2. /\ todo' \in [Jobs -> SUBSET Work] /\ listed' \in [Jobs -> SUBSET Tracks]
        /\ \A t \in listed'["scan"] : AtWork("scan", t)'
        /\ \A j \in Jobs \ {"scan"} : todo'[j] = todo[j] /\ listed'[j] = listed[j]
    BY <1>1, <1>3, Taken
  <2>3. MutexHeld' /\ JobOnce'
    BY <1>1, <1>2, <1>3, <2>1, MutexKept, OnceKept
  <2>4. FilesTypeOK' /\ row' \in [Tracks -> [fetched : BOOLEAN, art : Arts \cup {NoArt}, cached : BOOLEAN]]
    BY <1>2, Types DEF FilesTypeOK
  <2>5. \A v \in Workers \ {"scan"} : Place(v)' = Place(v)
    BY <1>1, <2>1, Moves DEF MetadataInv
  <2>6. Reached'
    <3> SUFFICES ASSUME NEW j \in Jobs, NEW t \in listed'[j] \ excused'[j], j # "scan"
                 PROVE  HasResult(j, t)' \/ AtWork(j, t)'
      BY <2>2 DEF Reached
    <3>1. HasResult(j, t) \/ AtWork(j, t)
      BY <1>3, <2>2 DEF MetadataInv, Reached
    <3>2. task'[j] = task[j]
      BY <2>5, JobPlace
    <3> QED
      BY <1>2, <2>2, <3>1, <3>2 DEF HasResult, AtWork
  <2> QED
    BY <1>1, <1>2, <1>3, <2>1, <2>2, <2>3, <2>4, <2>6, Types, Worked
<1>4. CASE JobOver("scan") /\ UNCHANGED todo
  BY <1>1, <1>2, <1>4, JobOverStep
<1> QED
  BY <1>3, <1>4 DEF ListLibrary

\* A request dropped in its sleep lets the mutex go.
LEMMA AbandonStep ==
  ASSUME MetadataInv, NEW r \in Requests, AbandonRefresh(r)
  PROVE  MetadataInv'
<1>1. /\ To(r, Idle) /\ lock' = IF lock = r THEN Free ELSE lock
      /\ UNCHANGED <<disk, row, limited, running, todo, recent, begun, listed, excused>>
  BY DEF AbandonRefresh
<1>2. Idle \in LibraryRequest /\ Idle.at = "idle"
  BY Elsewhere
<1>3. r \in Workers \ Jobs /\ r # "backfill"
  BY RequestPlace
<1>4. Place(r)' = Idle /\ \A w \in Workers \ {r} : Place(w)' = Place(w)
  BY <1>1, <1>2, <1>3, Move DEF MetadataInv
<1>5. MutexHeld'
  BY <1>1, <1>2, <1>4 DEF MetadataInv, MutexHeld
<1>6. JobOnce'
  BY <1>1, <1>2, <1>3, OnceKept
<1>7. \A j \in Jobs : \A t : AtWork(j, t)' = AtWork(j, t)
  BY <1>1, <1>3, JobsUndisturbed
<1>8. lock' \in Workers \cup {Free}
  BY <1>1, Types
<1> QED
  BY <1>1, <1>2, <1>3, <1>5, <1>6, <1>7, <1>8, Types, Quiet

-----------------------------------------------------------------------------
(* The rate limit: while the last request is less than a second old, nobody *)
(* gets from waiting to the next.                                           *)

LEMMA StillWaits ==
  ASSUME MetadataInv, NEW w \in Workers, Place(w).at = "wait",
         NEW v \in Workers, NEW s, To(v, s), s.at # "call" \/ Place(v).at # "wait"
  PROVE  Place(w)'.at # "call"
<1>1. Place(v)' = s /\ \A u \in Workers \ {v} : Place(u)' = Place(u)
  BY Moves DEF MetadataInv
<1>2. CASE v = w
  BY <1>1, <1>2
<1>3. CASE v # w
  BY <1>1, <1>3
<1> QED
  BY <1>2, <1>3

LEMMA LookupRate ==
  ASSUME MetadataInv, recent, NEW w \in Workers, Place(w).at = "wait",
         NEW v \in Workers, LookupStep(v)
  PROVE  Place(w)'.at # "call"
<1>1. ASSUME NEW s, To(v, s), Place(v).at # "wait" PROVE Place(w)'.at # "call"
  BY <1>1, StillWaits
<1>2. CASE Acquire(v)
  <2> DEFINE s == [Place(v) EXCEPT !.at = "sleep"]
  <2>1. To(v, s) /\ Place(v).at = "wait"
    BY <1>2 DEF Acquire, On
  <2>2. s.at = "sleep"
    <3>1. Place(v) \in Looking /\ "sleep" \in LookLabels
      BY <2>1, LookingNow DEF LookLabels
    <3> QED
      BY <3>1, GoesOn
  <2> HIDE DEF s
  <2> QED
    BY <2>1, <2>2, StillWaits
<1>3. CASE Wake(v)
  BY <1>3 DEF Wake, On, MetadataInv, MutexHeld
<1>4. CASE SearchRecording(v)
  <2>1. Place(v).at = "call" /\ \E s : To(v, s)
    BY <1>4 DEF SearchRecording, On
  <2> QED
    BY <1>1, <2>1
<1>5. CASE GetRelease(v)
  <2>1. Place(v).at = "call" /\ \E s : To(v, s)
    BY <1>5 DEF GetRelease, On
  <2> QED
    BY <1>1, <2>1
<1>6. CASE CacheCover(v)
  <2>1. Place(v).at = "cover" /\ \E s : To(v, s)
    BY <1>6 DEF CacheCover, On
  <2> QED
    BY <1>1, <2>1
<1>7. CASE SetCoverCached(v)
  <2>1. Place(v).at = "flag" /\ \E s : To(v, s)
    BY <1>7 DEF SetCoverCached, On
  <2> QED
    BY <1>1, <2>1
<1>8. CASE Store(v)
  <2>1. Place(v).at = "store" /\ \E s : To(v, s)
    BY <1>8 DEF Store, On
  <2> QED
    BY <1>1, <2>1
<1> QED
  BY <1>2, <1>3, <1>4, <1>5, <1>6, <1>7, <1>8 DEF LookupStep

\* The requests and jobs only ever move to a place that is not a call.
LEMMA ElseRate ==
  ASSUME MetadataInv, NEW w \in Workers, Place(w).at = "wait",
         NEW v \in Workers, NEW s, To(v, s), s.at # "call"
  PROVE  Place(w)'.at # "call"
BY StillWaits

LEMMA BeginRate ==
  ASSUME MetadataInv, NEW w \in Workers, Place(w).at = "wait",
         NEW v \in Workers, NEW t, Begin(v, t)
  PROVE  Place(w)'.at # "call"
<1> DEFINE s == [at |-> "wait", for |-> "search", track |-> t, match |-> NoMatch, art |-> NoArt]
<1>1. To(v, s) /\ s.at = "wait"
  BY DEF Begin
<1> HIDE DEF s
<1> QED
  BY <1>1, ElseRate

LEMMA SpawnJobRate ==
  ASSUME MetadataInv, NEW w \in Workers, Place(w).at = "wait", NEW r \in Requests, SpawnJob(r)
  PROVE  Place(w)'.at # "call"
<1>0. PICK job \in Jobs : job = req[r].job
  BY RequestPlace DEF SpawnJob, On
<1> DEFINE first == [at |-> IF job = "scan" THEN "begin" ELSE "next"]
<1>1. /\ req' = [req EXCEPT ![r] = Idle] /\ task' = [task EXCEPT ![job] = first]
  BY <1>0 DEF SpawnJob, Finish, Goto
<1>2. first.at # "call" /\ Idle.at # "call"
  BY DEF Idle
<1>3. req \in [Requests -> LibraryRequest] /\ task \in [Tasks -> TaskPlace]
  BY DEF MetadataInv, MetadataTypeInv, LibraryReqOK, MetadataTypeOK, TaskPlace
<1> HIDE DEF first
<1>4. Place(w)' \in {Idle, first, Place(w)}
  BY <1>1, <1>3, WorkerKinds DEF Place
<1> QED
  BY <1>2, <1>4

LEMMA RateStep ==
  ASSUME MetadataInv, [MetadataNext]_<<req, metadataVars>>, NEW w \in Workers,
         Place(w).at \in {"wait", "due"}, Place(w)'.at = "call"
  PROVE  ~recent
<1> SUFFICES ASSUME recent PROVE Place(w)'.at # "call"
  BY Types
<1>1. Place(w).at = "wait"
  BY DEF MetadataInv, MutexHeld
<1>2. ASSUME NEW v \in Workers, LookupStep(v) PROVE Place(w)'.at # "call"
  BY <1>1, <1>2, LookupRate
<1>3. CASE Second
  <2>1. Place(w)' = Slept(w)
    BY <1>3, WorkerKinds DEF Second, Place
  <2> QED
    BY <1>1, <2>1 DEF Slept, On
<1>4. ASSUME NEW t \in Tracks, SpawnLookup(t) PROVE Place(w)'.at # "call"
  BY <1>1, <1>4, BeginRate, WorkerKinds DEF SpawnLookup
<1>5. ASSUME NEW r \in Requests, NEW t \in Tracks, RefreshMetadata(r, t) PROVE Place(w)'.at # "call"
  BY <1>1, <1>5, BeginRate, WorkerKinds DEF RefreshMetadata
<1>6. ASSUME NEW work \in Work, NextTrack(work) PROVE Place(w)'.at # "call"
  BY <1>1, <1>6, BeginRate, WorkerKinds DEF NextTrack, Jobs
<1>7. ASSUME NEW r \in Requests, NEW t \in Tracks, ClearMetadata(r, t) PROVE Place(w)'.at # "call"
  <2> DEFINE s == [at |-> "unlimit", track |-> t]
  <2>1. To(r, s) /\ s.at = "unlimit"
    BY <1>7 DEF ClearMetadata
  <2> HIDE DEF s
  <2> QED
    BY <1>1, <2>1, ElseRate, WorkerKinds
<1>8. ASSUME NEW r \in Requests, NEW job \in Jobs, StartJob(r, job) PROVE Place(w)'.at # "call"
  <2> DEFINE s == [at |-> "list", job |-> job]
  <2>1. To(r, s) /\ s.at = "list"
    BY <1>8 DEF StartJob
  <2> HIDE DEF s
  <2> QED
    BY <1>1, <2>1, ElseRate, WorkerKinds
<1>9. ASSUME NEW r \in Requests,
             UpdateLimit(r) \/ ClearLimit(r) \/ RefuseJob(r) \/ AbandonRefresh(r)
      PROVE  Place(w)'.at # "call"
  <2>1. To(r, Idle) /\ Idle.at # "call"
    BY <1>9 DEF UpdateLimit, ClearLimit, RefuseJob, AbandonRefresh, Idle
  <2> QED
    BY <1>1, <2>1, ElseRate, WorkerKinds
<1>10. ASSUME NEW r \in Requests, SpawnJob(r) PROVE Place(w)'.at # "call"
  BY <1>1, <1>10, SpawnJobRate
<1>11. ASSUME NEW job \in Jobs, EndJob(job) \/ ListLibrary PROVE Place(w)'.at # "call"
  <2>1. PICK v \in Jobs : To(v, Idle) \/ To(v, [at |-> "next"])
    BY <1>11 DEF EndJob, ListLibrary, JobOver, Jobs
  <2>2. Idle.at # "call" /\ [at |-> "next"].at # "call"
    BY DEF Idle
  <2> QED
    BY <1>1, <2>1, <2>2, ElseRate, WorkerKinds
<1>12. ASSUME NEW work \in Work, NextCover(work) PROVE Place(w)'.at # "call"
  <2> DEFINE s == [at |-> "cover", for |-> "release", track |-> work.track,
                   match |-> NoMatch, art |-> work.art]
  <2>1. To("backfill", s) /\ s.at = "cover" /\ "backfill" \in Workers
    BY <1>12, WorkerKinds DEF NextCover, Jobs
  <2> HIDE DEF s
  <2> QED
    BY <1>1, <2>1, ElseRate
<1>13. ASSUME UNCHANGED <<req, task>> PROVE Place(w)'.at # "call"
  BY <1>1, <1>13 DEF Place
<1>14. ASSUME NEW t \in Tracks, DayPasses(t) PROVE Place(w)'.at # "call"
  BY <1>13, <1>14 DEF DayPasses
<1>15. CASE UNCHANGED <<req, metadataVars>>
  BY <1>13, <1>15 DEF metadataVars, libraryVars
<1>16. "scan" \in Jobs
  BY DEF Jobs
<1> QED
  BY <1>2, <1>3, <1>4, <1>5, <1>6, <1>7, <1>8, <1>9, <1>10, <1>11, <1>12, <1>14, <1>15, <1>16
     DEF MetadataNext

-----------------------------------------------------------------------------
LEMMA MetadataInitInv == FilesTypeOK /\ MetadataInit /\ RequestsInit => MetadataInv
<1> SUFFICES ASSUME FilesTypeOK, MetadataInit, RequestsInit PROVE MetadataInv
  OBVIOUS
<1> USE DEF MetadataInit, RequestsInit
<1>1. \A w \in Workers : Place(w) = Idle
  BY WorkerKinds DEF Place
<1>2. Idle \in LibraryRequest /\ Idle \in TaskPlace /\ Idle.at = "idle"
  BY Elsewhere
<1>3. MetadataTypeOK
  <2>1. /\ disk \in [Tracks -> Sizes \cup {Missing}]
        /\ row \in [Tracks -> [fetched : BOOLEAN, art : Arts \cup {NoArt}, cached : BOOLEAN]]
    BY DEF FilesTypeOK
  <2>2. task \in [Tasks -> TaskPlace]
    BY <1>2
  <2>3. /\ running \in [Jobs -> BOOLEAN] /\ todo \in [Jobs -> SUBSET Work] /\ limited \subseteq Tracks
        /\ listed \in [Jobs -> SUBSET Tracks] /\ excused \in [Jobs -> SUBSET Tracks]
    OBVIOUS
  <2>4. lock \in Workers \cup {Free} /\ begun \in 0..MaxLookups
    BY MaxLookupsAssumption
  <2>5. recent \in BOOLEAN
    OBVIOUS
  <2> QED
    BY <2>1, <2>2, <2>3, <2>4, <2>5 DEF MetadataTypeOK, FilesTypeOK, TaskPlace
<1>4. LibraryReqOK
  BY <1>2 DEF LibraryReqOK
<1>5. MutexHeld
  BY <1>1, <1>2 DEF MutexHeld
<1>6. JobPlaces /\ JobOnce /\ Reached
  BY <1>2, WorkerKinds DEF JobPlaces, JobOnce, Starts, Reached, Jobs
<1> QED
  BY <1>3, <1>4, <1>5, <1>6 DEF MetadataInv, MetadataTypeInv

LEMMA MetadataNextInv == MetadataInv /\ [MetadataNext]_<<req, metadataVars>> => MetadataInv'
<1> SUFFICES ASSUME MetadataInv, [MetadataNext]_<<req, metadataVars>> PROVE MetadataInv'
  OBVIOUS
<1>1. CASE UNCHANGED <<req, metadataVars>>
  BY <1>1, Types, Unmoved DEF metadataVars, libraryVars
<1>2. CASE Second
  BY <1>2, SecondStep
<1>3. ASSUME NEW w \in Workers, LookupStep(w) PROVE MetadataInv'
  BY <1>3, AcquireStep, WakeStep, SearchRecordingStep, GetReleaseStep, CacheCoverStep,
     SetCoverCachedStep, StoreStep DEF LookupStep
<1>4. ASSUME NEW t \in Tracks, SpawnLookup(t) \/ DayPasses(t) PROVE MetadataInv'
  BY <1>4, SpawnLookupStep, DayPassesStep
<1>5. ASSUME NEW r \in Requests, NEW t \in Tracks, RefreshMetadata(r, t) \/ ClearMetadata(r, t)
      PROVE  MetadataInv'
  BY <1>5, RefreshStep, ClearMetadataStep
<1>6. ASSUME NEW r \in Requests, NEW job \in Jobs, StartJob(r, job) PROVE MetadataInv'
  BY <1>6, StartJobStep
<1>7. ASSUME NEW r \in Requests,
             \/ UpdateLimit(r) \/ ClearLimit(r) \/ RefuseJob(r) \/ SpawnJob(r) \/ AbandonRefresh(r)
      PROVE  MetadataInv'
  BY <1>7, UpdateLimitStep, ClearLimitStep, RefuseJobStep, SpawnJobStep, AbandonStep
<1>8. CASE ListLibrary
  BY <1>8, ListLibraryStep
<1>9. ASSUME NEW work \in Work, NextTrack(work) \/ NextCover(work) PROVE MetadataInv'
  BY <1>9, NextTrackStep, NextCoverStep
<1>10. ASSUME NEW job \in Jobs, EndJob(job) PROVE MetadataInv'
  BY <1>10, EndJobStep
<1> QED
  BY <1>1, <1>2, <1>3, <1>4, <1>5, <1>6, <1>7, <1>8, <1>9, <1>10 DEF MetadataNext

\* The inductive invariant: who is next at MusicBrainz holds the mutex, no job
\* runs twice, and what a job listed has its result, is excused or is still
\* before the job.
THEOREM MetadataInvariance == MetadataSpec => []MetadataInv
<1>1. FullFolder => FilesTypeOK
  BY DEF FullFolder, FilesTypeOK, Sizes
<1> QED
  BY <1>1, MetadataInitInv, MetadataNextInv, PTL DEF MetadataSpec

\* A lookup moves its worker and nobody else, a job to work it is still at.
LEMMA LookupMoves ==
  ASSUME MetadataInv, NEW v \in Workers, LookupStep(v)
  PROVE  \E s : To(v, s) /\ s.at # "swap" /\ (v \in Jobs => s.at # "idle")
<1>1. Place(v).at \in LookLabels
  BY DEF LookupStep, Acquire, Wake, SearchRecording, GetRelease, CacheCover, SetCoverCached, Store,
         On, LookLabels
<1>2. Place(v) \in Looking /\ Place(v).track \in Tracks
  BY <1>1, LookingNow
<1>3. \A at \in LookLabels : at # "swap" /\ at # "idle"
  BY DEF LookLabels
<1>4. ASSUME NEW at \in LookLabels, To(v, [Place(v) EXCEPT !.at = at])
      PROVE  \E s : To(v, s) /\ s.at # "swap" /\ (v \in Jobs => s.at # "idle")
  <2> DEFINE s == [Place(v) EXCEPT !.at = at]
  <2>1. To(v, s) /\ s.at = at
    BY <1>2, <1>4, GoesOn
  <2> HIDE DEF s
  <2> QED
    BY <1>3, <2>1
<1>5. ASSUME NEW art \in Arts \cup {NoArt}, To(v, WithArt(v, art))
      PROVE  \E s : To(v, s) /\ s.at # "swap" /\ (v \in Jobs => s.at # "idle")
  <2> DEFINE at == IF art = NoArt THEN "store" ELSE "cover"
             s == [Place(v) EXCEPT !.at = at, !.art = art]
  <2>1. To(v, s)
    BY <1>5 DEF WithArt
  <2>2. at \in LookLabels
    BY DEF LookLabels
  <2>3. s.at = at
    <3> HIDE DEF at
    <3> QED
      BY <1>2, <2>2, GoesOnWithArt
  <2> HIDE DEF s, at
  <2> QED
    BY <1>3, <2>1, <2>2, <2>3
<1>6. \A l \in {"wait", "sleep", "call", "flag", "store"} : l \in LookLabels
  BY DEF LookLabels
<1>7. CASE Acquire(v)
  BY <1>4, <1>6, <1>7 DEF Acquire
<1>8. CASE Wake(v)
  BY <1>4, <1>6, <1>8 DEF Wake
<1>9. CASE SearchRecording(v)
  <2>1. PICK recs \in Answers :
          LET match == Matched(Place(v).track, recs)
          IN IF match # NoMatch
             THEN To(v, [Place(v) EXCEPT !.at = "wait", !.for = "release", !.match = match])
             ELSE \E art \in DiscogsArt : To(v, WithArt(v, art))
    BY <1>9 DEF SearchRecording
  <2> DEFINE match == Matched(Place(v).track, recs)
             s == [Place(v) EXCEPT !.at = "wait", !.for = "release", !.match = match]
  <2>2. CASE match # NoMatch
    <3>1. To(v, s)
      BY <2>1, <2>2
    <3>2. s.at = "wait"
      <4> HIDE DEF match
      <4> QED
        BY <1>2 DEF Looking
    <3> HIDE DEF s
    <3> QED
      BY <3>1, <3>2
  <2>3. CASE match = NoMatch
    BY <2>1, <2>3, <1>5 DEF DiscogsArt
  <2> QED
    BY <2>2, <2>3
<1>10. CASE GetRelease(v)
  BY <1>5, <1>10 DEF GetRelease, CoverArt
<1>11. ASSUME To(v, [at |-> "next"])
       PROVE  \E s : To(v, s) /\ s.at # "swap" /\ (v \in Jobs => s.at # "idle")
  <2>1. [at |-> "next"].at # "swap" /\ [at |-> "next"].at # "idle"
    OBVIOUS
  <2> QED
    BY <1>11, <2>1
<1>12. CASE CacheCover(v)
  BY <1>4, <1>6, <1>11, <1>12 DEF CacheCover
<1>13. CASE SetCoverCached(v)
  BY <1>4, <1>6, <1>11, <1>13 DEF SetCoverCached
<1>14. CASE Store(v)
  <2>1. v # "backfill"
    BY <1>14, NotTheBackfill DEF Store, On, LookLabels
  <2>2. After(v).at # "swap" /\ (v \in Jobs => After(v).at # "idle") /\ To(v, After(v))
    BY <1>2, <1>14, <2>1, WorkerKinds DEF Store, After, Idle, Jobs
  <2> QED
    BY <2>2
<1> QED
  BY <1>7, <1>8, <1>9, <1>10, <1>12, <1>13, <1>14 DEF LookupStep

\* A job leaves its work only with its list worked off, or with none.
LEMMA LeavesWork ==
  ASSUME MetadataInv, [MetadataNext]_<<req, metadataVars>>,
         NEW job \in Jobs, task[job] # Idle, task'[job] = Idle
  PROVE  (task[job].at = "next" /\ todo[job] = {}) \/ task[job].at = "begin"
<1>1. ASSUME NEW w \in Workers, NEW s, To(w, s), w \in Jobs => s.at # "idle" PROVE FALSE
  <2>1. Place(w)' = s /\ \A v \in Workers \ {w} : Place(v)' = Place(v)
    BY <1>1, Moves DEF MetadataInv
  <2> QED
    BY <1>1, <2>1, JobPlace DEF Idle
<1>2. ASSUME UNCHANGED task PROVE FALSE
  BY <1>2
<1>3. ASSUME NEW w \in Workers, LookupStep(w) PROVE FALSE
  BY <1>1, <1>3, LookupMoves
<1>4. ASSUME NEW w \in Workers, NEW t, Begin(w, t) PROVE FALSE
  <2> DEFINE s == [at |-> "wait", for |-> "search", track |-> t, match |-> NoMatch, art |-> NoArt]
  <2>1. To(w, s) /\ s.at # "idle"
    BY <1>4 DEF Begin
  <2> HIDE DEF s
  <2> QED
    BY <1>1, <2>1
<1>5. ASSUME NEW r \in Requests, NEW s, To(r, s) PROVE FALSE
  BY <1>1, <1>5, WorkerKinds
<1>6. CASE Second
  <2>1. task'[job] = Slept(job)
    BY <1>6, JobPlace DEF Second
  <2>2. Slept(job) # Idle
    <3>1. CASE On(job, "sleep")
      <4>1. Place(job) \in Looking /\ "due" \in LookLabels
        BY <3>1, LookingNow, JobPlace DEF LookLabels, On
      <4>2. [Place(job) EXCEPT !.at = "due"].at = "due"
        BY <4>1, GoesOn
      <4>3. Slept(job).at = "due"
        BY <3>1, <4>2 DEF Slept
      <4> QED
        BY <4>3 DEF Idle
    <3>2. CASE ~On(job, "sleep")
      BY <3>2, JobPlace DEF Slept
    <3> QED
      BY <3>1, <3>2
  <2> QED
    BY <2>1, <2>2
<1>7. ASSUME NEW t \in Tracks, SpawnLookup(t) \/ DayPasses(t) PROVE FALSE
  BY <1>2, <1>4, <1>7, WorkerKinds DEF SpawnLookup, DayPasses
<1>8. ASSUME NEW r \in Requests, NEW t \in Tracks, RefreshMetadata(r, t) \/ ClearMetadata(r, t) PROVE FALSE
  BY <1>4, <1>5, <1>8, WorkerKinds DEF RefreshMetadata, ClearMetadata
<1>9. ASSUME NEW r \in Requests, NEW j \in Jobs, StartJob(r, j) PROVE FALSE
  BY <1>5, <1>9 DEF StartJob
<1>10. ASSUME NEW r \in Requests, UpdateLimit(r) \/ ClearLimit(r) \/ RefuseJob(r) \/ AbandonRefresh(r)
       PROVE  FALSE
  BY <1>5, <1>10 DEF UpdateLimit, ClearLimit, RefuseJob, AbandonRefresh
<1>11. ASSUME NEW r \in Requests, SpawnJob(r) PROVE FALSE
  <2>1. PICK j \in Jobs : j = req[r].job
    BY <1>11, RequestPlace DEF SpawnJob, On
  <2> DEFINE first == [at |-> IF j = "scan" THEN "begin" ELSE "next"]
  <2>2. task' = [task EXCEPT ![j] = first]
    BY <1>11, <2>1 DEF SpawnJob
  <2>3. first.at # "idle"
    OBVIOUS
  <2> HIDE DEF first
  <2> QED
    BY <2>2, <2>3, Types, JobPlace DEF Idle
<1>12. CASE ListLibrary
  <2>1. "scan" \in Jobs /\ "scan" \in Workers /\ task["scan"].at = "begin"
    BY <1>12, JobPlace DEF ListLibrary, On, Jobs
  <2>2. PICK s : To("scan", s)
    BY <1>12 DEF ListLibrary, JobOver
  <2>3. Place("scan")' = s /\ \A v \in Workers \ {"scan"} : Place(v)' = Place(v)
    BY <2>1, <2>2, Moves DEF MetadataInv
  <2>4. job = "scan"
    BY <2>3, JobPlace
  <2> QED
    BY <2>1, <2>4
<1>13. ASSUME NEW work \in Work, NextTrack(work) \/ NextCover(work) PROVE FALSE
  <2>1. "scan" \in Workers /\ "backfill" \in Workers
    BY WorkerKinds DEF Jobs
  <2>2. CASE NextTrack(work)
    BY <1>4, <2>1, <2>2 DEF NextTrack
  <2>3. CASE NextCover(work)
    <3> DEFINE s == [at |-> "cover", for |-> "release", track |-> work.track,
                     match |-> NoMatch, art |-> work.art]
    <3>1. To("backfill", s) /\ s.at # "idle"
      BY <2>3 DEF NextCover
    <3> HIDE DEF s
    <3> QED
      BY <1>1, <2>1, <3>1
  <2> QED
    BY <1>13, <2>2, <2>3
<1>14. ASSUME NEW j \in Jobs, EndJob(j) PROVE task[job].at = "next" /\ todo[job] = {}
  <2>1. j \in Workers /\ task[j].at = "next" /\ todo[j] = {} /\ To(j, Idle)
    BY <1>14, JobPlace DEF EndJob, On, JobOver
  <2>2. \A v \in Workers \ {j} : Place(v)' = Place(v)
    BY <2>1, Moves DEF MetadataInv
  <2>3. job = j
    BY <2>2, JobPlace
  <2> QED
    BY <2>1, <2>3
<1>15. ~UNCHANGED <<req, metadataVars>>
  BY <1>2 DEF metadataVars, libraryVars
<1> QED
  BY <1>3, <1>6, <1>7, <1>8, <1>9, <1>10, <1>11, <1>12, <1>13, <1>14, <1>15 DEF MetadataNext

\* So what it listed has its result, or is excused.
LEMMA ReachedAtEnd ==
  ASSUME MetadataInv, [MetadataNext]_<<req, metadataVars>>,
         NEW job \in Jobs, task[job] # Idle, task'[job] = Idle
  PROVE  \A t \in listed[job] \ excused[job] : HasResult(job, t)
<1>1. CASE task[job].at = "next" /\ todo[job] = {}
  BY <1>1 DEF MetadataInv, Reached, AtWork, LookLabels
<1>2. CASE task[job].at = "begin"
  BY <1>2 DEF MetadataInv, JobPlaces
<1> QED
  BY <1>1, <1>2, LeavesWork

\* The scan and the cover backfill: whatever lookups, refreshes and clearings
\* happen beside them, a job ends only when every track it listed has a result
\* or is excused, by a failure of the database or of the download, or by its
\* metadata being cleared meanwhile.
THEOREM JobsReachEveryTrack == MetadataSpec => JobsReachEvery
<1>1. MetadataInv /\ [MetadataNext]_<<req, metadataVars>>
        => [\A job \in Jobs : task[job] # Idle /\ task'[job] = Idle =>
              \A t \in listed[job] \ excused[job] : HasResult(job, t)]_<<req, metadataVars>>
  BY ReachedAtEnd
<1> QED
  BY MetadataInvariance, <1>1, PTL DEF MetadataSpec, JobsReachEvery

\* wait_for_rate_limit: however many lookups run, a request is sent to
\* MusicBrainz only a second after the one before.
THEOREM RateIsKept == MetadataSpec => MusicBrainzRate
<1>1. MetadataInv /\ [MetadataNext]_<<req, metadataVars>>
        => [\A w \in Workers : Place(w).at \in {"wait", "due"} /\ Place(w)'.at = "call"
              => ~recent]_<<req, metadataVars>>
  BY RateStep
<1> QED
  BY MetadataInvariance, <1>1, PTL DEF MetadataSpec, MusicBrainzRate

-----------------------------------------------------------------------------
(* The two parts together.  Neither touches a request of the other: a       *)
(* metadata step begins no scan and changes none, and a step of the index   *)
(* moves only requests that scan.                                           *)

LEMMA ScanKept ==
  ASSUME MetadataInv, NEW w \in Workers, NEW s, To(w, s), s.at # "swap",
         NEW r \in Requests, req'[r].at = "swap"
  PROVE  req'[r] = req[r]
<1>1. Place(w)' = s /\ \A v \in Workers \ {w} : Place(v)' = Place(v)
  BY Moves DEF MetadataInv
<1>2. r \in Workers /\ Place(r) = req[r] /\ Place(r)' = req'[r]
  BY WorkerKinds DEF Place
<1> QED
  BY <1>1, <1>2

LEMMA LookupKeepsScans ==
  ASSUME MetadataInv, NEW v \in Workers, LookupStep(v),
         NEW r \in Requests, req'[r].at = "swap"
  PROVE  req'[r] = req[r]
BY LookupMoves, ScanKept

LEMMA ScansUntouched ==
  ASSUME MetadataInv, [MetadataNext]_<<req, metadataVars>>,
         NEW r \in Requests, req'[r].at = "swap"
  PROVE  req'[r] = req[r]
<1>1. ASSUME NEW w \in Workers, NEW t, Begin(w, t) PROVE req'[r] = req[r]
  <2> DEFINE s == [at |-> "wait", for |-> "search", track |-> t, match |-> NoMatch, art |-> NoArt]
  <2>1. To(w, s) /\ s.at # "swap"
    BY <1>1 DEF Begin
  <2> HIDE DEF s
  <2> QED
    BY <2>1, ScanKept
<1>2. ASSUME NEW v \in Workers, LookupStep(v) PROVE req'[r] = req[r]
  BY <1>2, LookupKeepsScans
<1>3. CASE Second
  <2>1. req'[r] = Slept(r) /\ Place(r) = req[r]
    BY <1>3, WorkerKinds DEF Second, Place
  <2>2. Slept(r).at = "due" \/ Slept(r) = Place(r)
    <3>1. CASE On(r, "sleep")
      <4>1. Place(r) \in Looking /\ "due" \in LookLabels
        BY <3>1, LookingNow, WorkerKinds DEF LookLabels, On
      <4> QED
        BY <3>1, <4>1, GoesOn DEF Slept
    <3> QED
      BY <3>1 DEF Slept
  <2> QED
    BY <2>1, <2>2
<1>4. ASSUME NEW t \in Tracks, SpawnLookup(t) PROVE req'[r] = req[r]
  BY <1>1, <1>4, WorkerKinds DEF SpawnLookup
<1>5. ASSUME NEW q \in Requests, NEW t \in Tracks, RefreshMetadata(q, t) PROVE req'[r] = req[r]
  BY <1>1, <1>5, WorkerKinds DEF RefreshMetadata
<1>6. ASSUME NEW work \in Work, NextTrack(work) PROVE req'[r] = req[r]
  BY <1>1, <1>6, WorkerKinds DEF NextTrack, Jobs
<1>7. ASSUME NEW q \in Requests, NEW t \in Tracks, ClearMetadata(q, t) PROVE req'[r] = req[r]
  <2> DEFINE s == [at |-> "unlimit", track |-> t]
  <2>1. To(q, s) /\ s.at # "swap"
    BY <1>7 DEF ClearMetadata
  <2> HIDE DEF s
  <2> QED
    BY <2>1, ScanKept, WorkerKinds
<1>8. ASSUME NEW q \in Requests, NEW job \in Jobs, StartJob(q, job) PROVE req'[r] = req[r]
  <2> DEFINE s == [at |-> "list", job |-> job]
  <2>1. To(q, s) /\ s.at # "swap"
    BY <1>8 DEF StartJob
  <2> HIDE DEF s
  <2> QED
    BY <2>1, ScanKept, WorkerKinds
<1>9. ASSUME NEW q \in Requests,
             UpdateLimit(q) \/ ClearLimit(q) \/ RefuseJob(q) \/ AbandonRefresh(q)
      PROVE  req'[r] = req[r]
  <2>1. To(q, Idle) /\ Idle.at # "swap"
    BY <1>9 DEF UpdateLimit, ClearLimit, RefuseJob, AbandonRefresh, Idle
  <2> QED
    BY <2>1, ScanKept, WorkerKinds
<1>10. ASSUME NEW q \in Requests, SpawnJob(q) PROVE req'[r] = req[r]
  <2>1. req' = [req EXCEPT ![q] = Idle] /\ req \in [Requests -> LibraryRequest] /\ Idle.at # "swap"
    BY <1>10 DEF SpawnJob, Finish, Goto, MetadataInv, MetadataTypeInv, LibraryReqOK, Idle
  <2> QED
    BY <2>1
<1>11. ASSUME NEW job \in Jobs, EndJob(job) \/ ListLibrary PROVE req'[r] = req[r]
  <2>1. PICK v \in Jobs : To(v, Idle) \/ To(v, [at |-> "next"])
    BY <1>11 DEF EndJob, ListLibrary, JobOver, Jobs
  <2>2. Idle.at # "swap" /\ [at |-> "next"].at # "swap"
    BY DEF Idle
  <2> QED
    BY <2>1, <2>2, ScanKept, WorkerKinds
<1>12. ASSUME NEW work \in Work, NextCover(work) PROVE req'[r] = req[r]
  <2> DEFINE s == [at |-> "cover", for |-> "release", track |-> work.track,
                   match |-> NoMatch, art |-> work.art]
  <2>1. To("backfill", s) /\ s.at # "swap" /\ "backfill" \in Workers
    BY <1>12, WorkerKinds DEF NextCover, Jobs
  <2> HIDE DEF s
  <2> QED
    BY <2>1, ScanKept
<1>13. ASSUME NEW t \in Tracks, DayPasses(t) PROVE req'[r] = req[r]
  BY <1>13 DEF DayPasses
<1>14. CASE UNCHANGED <<req, metadataVars>>
  BY <1>14
<1>15. "scan" \in Jobs
  BY DEF Jobs
<1> QED
  BY <1>2, <1>3, <1>4, <1>5, <1>6, <1>7, <1>8, <1>9, <1>10, <1>11, <1>12, <1>13, <1>14, <1>15
     DEF MetadataNext

\* By itself the metadata service has no scans ...
NoScans == \A r \in Requests : req[r].at # "swap"

LEMMA NoScansKept == MetadataInv /\ NoScans /\ [MetadataNext]_<<req, metadataVars>> => NoScans'
BY ScansUntouched DEF NoScans

LEMMA MetadataRequests == LibraryReqOK /\ NoScans => req \in [Requests -> MetadataRequest]
BY DEF LibraryReqOK, NoScans, LibraryRequest, ShareRequest, MetadataRequest

\* ... and the index nothing else.
ScansOnly == req \in [Requests -> ShareRequest]

AtRest == {"idle", "swap"}

LEMMA ShareMoves ==
  ASSUME ShareInv, [ShareNext]_<<req, shareVars>>, NEW r \in Requests
  PROVE  req'[r] = req[r] \/ (req[r].at \in AtRest /\ req'[r].at \in AtRest)
<1>0. Idle.at = "idle" /\ ShareTypeInv
  BY DEF Idle, ShareInv
<1>1. ASSUME NEW q \in Requests, NEW s, Goto(q, s), s.at \in AtRest, req[q].at \in AtRest
      PROVE  req'[r] = req[r] \/ (req[r].at \in AtRest /\ req'[r].at \in AtRest)
  BY <1>0, <1>1, SlotMoves
<1>2. CASE MonitorStep
  BY <1>2 DEF MonitorStep, StartTransfer, EndTransfer, ReadFile, AddFile
<1>3. CASE \E t \in Tracks : TagFile(t) \/ RemoveFile(t)
  BY <1>3 DEF TagFile, RemoveFile
<1>4. ASSUME NEW q \in Requests, ScanDirectory(q)
      PROVE  req'[r] = req[r] \/ (req[r].at \in AtRest /\ req'[r].at \in AtRest)
  <2>1. PICK s : Goto(q, s) /\ s.at = "swap"
    BY <1>4 DEF ScanDirectory
  <2>2. req[q].at = "idle"
    BY <1>0, <1>4 DEF ScanDirectory, Arrives
  <2> QED
    BY <1>1, <2>1, <2>2 DEF AtRest
<1>5. ASSUME NEW q \in Requests, SwapIndex(q) \/ AbandonScan(q)
      PROVE  req'[r] = req[r] \/ (req[r].at \in AtRest /\ req'[r].at \in AtRest)
  BY <1>0, <1>1, <1>5 DEF SwapIndex, AbandonScan, At, Finish, AtRest
<1>6. CASE UNCHANGED <<req, shareVars>>
  BY <1>6
<1> QED
  BY <1>2, <1>3, <1>4, <1>5, <1>6 DEF ShareNext, ScanStep

LEMMA ScansOnlyKept == ShareInv /\ ScansOnly /\ [ShareNext]_<<req, shareVars>> => ScansOnly'
<1> SUFFICES ASSUME ShareInv, ScansOnly, [ShareNext]_<<req, shareVars>> PROVE ScansOnly'
  OBVIOUS
<1>1. req' \in [Requests -> LibraryRequest]
  BY ShareNextInv DEF ShareInv, ShareTypeInv, LibraryReqOK
<1>2. ASSUME NEW r \in Requests PROVE req'[r] \in ShareRequest
  <2>1. req[r] \in ShareRequest /\ req'[r] \in LibraryRequest
    BY <1>1 DEF ScansOnly
  <2>2. CASE req'[r] = req[r]
    BY <2>1, <2>2
  <2>3. CASE req'[r].at \in AtRest
    BY <2>1, <2>3 DEF AtRest, LibraryRequest, ShareRequest, MetadataRequest, Looking
  <2> QED
    BY <2>2, <2>3, ShareMoves
<1> QED
  BY <1>1, <1>2 DEF ScansOnly

\* A lookup may write its tags into a file, and no more.
LEMMA OnlyTags ==
  ASSUME [MetadataNext]_<<req, metadataVars>>
  PROVE  disk' = disk \/ \E t : disk' = [disk EXCEPT ![t] = Tagged]
<1>1. ASSUME NEW w, LookupStep(w)
      PROVE  disk' = disk \/ \E t : disk' = [disk EXCEPT ![t] = Tagged]
  <2>1. CASE Store(w)
    BY <2>1 DEF Store, Write
  <2>2. CASE ~Store(w)
    BY <1>1, <2>2 DEF LookupStep, Acquire, Wake, SearchRecording, GetRelease, CacheCover, SetCoverCached
  <2> QED
    BY <2>1, <2>2
<1>2. CASE \E w \in Workers : LookupStep(w)
  BY <1>1, <1>2
<1>3. CASE ~\E w \in Workers : LookupStep(w)
  <2>1. CASE UNCHANGED <<req, metadataVars>>
    BY <2>1 DEF metadataVars
  <2>2. CASE \E t \in Tracks : SpawnLookup(t) \/ DayPasses(t)
    BY <2>2 DEF SpawnLookup, DayPasses
  <2>3. CASE \E r \in Requests, t \in Tracks : RefreshMetadata(r, t) \/ ClearMetadata(r, t)
    BY <2>3 DEF RefreshMetadata, ClearMetadata
  <2>4. CASE \E r \in Requests, job \in Jobs : StartJob(r, job)
    BY <2>4 DEF StartJob
  <2>5. CASE \E r \in Requests :
               UpdateLimit(r) \/ ClearLimit(r) \/ RefuseJob(r) \/ SpawnJob(r) \/ AbandonRefresh(r)
    BY <2>5 DEF UpdateLimit, ClearLimit, RefuseJob, SpawnJob, AbandonRefresh
  <2>6. CASE Second \/ ListLibrary
    BY <2>6 DEF Second, ListLibrary
  <2>7. CASE \E work \in Work : NextTrack(work) \/ NextCover(work)
    BY <2>7 DEF NextTrack, NextCover
  <2>8. CASE \E job \in Jobs : EndJob(job)
    BY <2>8 DEF EndJob
  <2> QED
    BY <1>3, <2>1, <2>2, <2>3, <2>4, <2>5, <2>6, <2>7, <2>8 DEF MetadataNext
<1> QED
  BY <1>2, <1>3

LibraryInv == ShareInv /\ MetadataInv

LEMMA ShareStepKeeps ==
  ASSUME LibraryInv, ShareStep
  PROVE  LibraryInv'
<1>1. ShareNext
  BY DEF ShareStep, ShareNext
<1>2. ShareInv'
  BY <1>1, ShareNextInv DEF LibraryInv
<1>3. /\ row' = row /\ limited' = limited /\ running' = running /\ todo' = todo
      /\ task' = task /\ lock' = lock /\ recent' = recent /\ begun' = begun
      /\ listed' = listed /\ excused' = excused
  BY DEF ShareStep, libraryVars
<1>4. MetadataTypeInv'
  <2>1. FilesTypeOK' /\ LibraryReqOK'
    BY <1>2 DEF ShareInv, ShareTypeInv, ShareTypeOK
  <2>2. MetadataTypeOK
    BY DEF LibraryInv, MetadataInv, MetadataTypeInv
  <2> QED
    BY <1>3, <2>1, <2>2 DEF MetadataTypeInv, MetadataTypeOK
<1>5. ASSUME NEW w \in Workers
      PROVE  Place(w)' = Place(w) \/ Place(w)'.at \in AtRest
  <2>1. CASE w \in Requests
    <3>1. Place(w) = req[w] /\ Place(w)' = req'[w]
      BY <2>1 DEF Place
    <3> QED
      BY <2>1, <3>1, <1>1, ShareMoves DEF LibraryInv
  <2>2. CASE w \notin Requests
    BY <2>2, <1>3 DEF Place
  <2> QED
    BY <2>1, <2>2
<1>6. MutexHeld'
  BY <1>3, <1>5 DEF LibraryInv, MetadataInv, MutexHeld, AtRest
<1>7. JobPlaces'
  BY <1>3 DEF LibraryInv, MetadataInv, JobPlaces
<1>8. JobOnce'
  <2>1. \A r \in Requests : Place(r) = req[r] /\ Place(r)' = req'[r] /\ r \in Workers
    BY WorkerKinds DEF Place
  <2>2. \A r \in Requests : \A j : Starts(r, j)' => Starts(r, j)
    BY <1>5, <2>1 DEF Starts, AtRest
  <2> QED
    BY <1>3, <2>2 DEF LibraryInv, MetadataInv, JobOnce
<1>9. Reached'
  BY <1>3 DEF LibraryInv, MetadataInv, Reached, AtWork, HasResult
<1> QED
  BY <1>2, <1>4, <1>6, <1>7, <1>8, <1>9 DEF LibraryInv, MetadataInv

LEMMA MetadataStepKeeps ==
  ASSUME LibraryInv, MetadataStep
  PROVE  LibraryInv'
<1>1. MetadataNext /\ index' = index /\ monitor' = monitor /\ added' = added /\ overtaken' = overtaken
  BY DEF MetadataStep, indexVars
<1>2. MetadataInv'
  BY <1>1, MetadataNextInv DEF LibraryInv
<1>3. FilesTypeOK' /\ LibraryReqOK'
  BY <1>2 DEF MetadataInv, MetadataTypeInv, MetadataTypeOK
<1>4. AddedOnDisk'
  <2>1. AddedOnDisk /\ disk \in [Tracks -> Sizes \cup {Missing}] /\ Tagged # Missing
    BY DEF LibraryInv, ShareInv, ShareTypeInv, ShareTypeOK, FilesTypeOK, Tagged, Missing
  <2>2. disk' = disk \/ \E t : disk' = [disk EXCEPT ![t] = Tagged]
    BY <1>1, OnlyTags
  <2> QED
    BY <1>1, <2>1, <2>2 DEF AddedOnDisk, OnDisk
<1>5. ScansList'
  <2> SUFFICES ASSUME NEW r \in Requests, req'[r].at = "swap"
               PROVE  req'[r].known \subseteq {req'[r].files[n].track : n \in DOMAIN req'[r].files}
    BY DEF ScansList, InFlight, At, FoundBy
  <2>1. req'[r] = req[r]
    BY <1>1, ScansUntouched DEF LibraryInv
  <2> QED
    BY <2>1 DEF LibraryInv, ShareInv, ScansList, InFlight, At, FoundBy
<1>6. monitor' \in MonitorType
  BY <1>1, MonitorTyped DEF LibraryInv, ShareInv
<1>7. ShareInv'
  BY <1>1, <1>3, <1>4, <1>5, <1>6, SameHistory, Together DEF LibraryInv
<1> QED
  BY <1>2, <1>7 DEF LibraryInv

LEMMA LibraryInitInv == LibraryInit => LibraryInv
<1> SUFFICES ASSUME EmptyFolder, ShareInit, MetadataInit, RequestsInit PROVE LibraryInv
  BY DEF LibraryInit
<1>1. FilesTypeOK
  BY DEF EmptyFolder, FilesTypeOK
<1> QED
  BY <1>1, ShareInitInv, MetadataInitInv DEF LibraryInv

LEMMA LibraryNextInv == LibraryInv /\ [LibraryNext]_folderVars => LibraryInv'
<1> SUFFICES ASSUME LibraryInv, [LibraryNext]_folderVars PROVE LibraryInv'
  OBVIOUS
<1>1. CASE ShareStep
  BY <1>1, ShareStepKeeps
<1>2. CASE MetadataStep
  BY <1>2, MetadataStepKeeps
<1>3. CASE UNCHANGED folderVars
  <2>1. UNCHANGED <<req, shareVars>> /\ UNCHANGED <<req, metadataVars>>
    BY <1>3 DEF folderVars, shareVars, metadataVars
  <2>2. ShareInv'
    BY <2>1, ShareStutter DEF LibraryInv
  <2>3. MetadataInv'
    BY <2>1, MetadataNextInv DEF LibraryInv
  <2> QED
    BY <2>2, <2>3 DEF LibraryInv
<1> QED
  BY <1>1, <1>2, <1>3 DEF LibraryNext

-----------------------------------------------------------------------------
(* The theorems on each part by itself: what its slots hold *)

\* The index, the monitor's place and the scans in flight keep their types.
THEOREM ShareTypeCorrect == ShareSpec => [](ShareTypeOK /\ ScansOnly)
<1>1. EmptyFolder /\ ShareInit /\ RequestsInit => ScansOnly
  BY DEF RequestsInit, ScansOnly, ShareRequest, Idle
<1>2. ShareInv => ShareTypeOK
  BY DEF ShareInv, ShareTypeInv
<1> QED
  BY <1>1, <1>2, ShareInitInv, ShareNextInv, ScansOnlyKept, PTL DEF ShareSpec

\* The types of the rows, of the jobs and of every place of a lookup.
THEOREM MetadataTypeCorrect ==
  MetadataSpec => [](MetadataTypeOK /\ req \in [Requests -> MetadataRequest])
<1>1. FullFolder /\ MetadataInit /\ RequestsInit => MetadataInv /\ NoScans
  <2>1. FullFolder => FilesTypeOK
    BY DEF FullFolder, FilesTypeOK, Sizes
  <2>2. RequestsInit => NoScans
    <3>1. RequestsInit => \A r \in Requests : req[r] = Idle
      BY DEF RequestsInit
    <3>2. Idle.at # "swap"
      BY DEF Idle
    <3> QED
      BY <3>1, <3>2 DEF NoScans
  <2> QED
    BY <2>1, <2>2, MetadataInitInv
<1>2. MetadataInv /\ NoScans => MetadataTypeOK /\ req \in [Requests -> MetadataRequest]
  BY MetadataRequests DEF MetadataInv, MetadataTypeInv
<1> QED
  BY <1>1, <1>2, MetadataNextInv, NoScansKept, PTL DEF MetadataSpec

-----------------------------------------------------------------------------
(* The theorems on both *)

\* Index and lookups beside each other: both invariants are inductive for
\* the steps of both.
THEOREM LibraryInvariance == LibrarySpec => []LibraryInv
<1> QED
  BY LibraryInitInv, LibraryNextInv, PTL DEF LibrarySpec

\* Tags written into a shared file, by a lookup that may outlast it, hide no
\* file from peers: what was added is found, but for what a late scan overtook.
THEOREM SharesAreFoundBesideLookups == LibrarySpec => []SharedFilesFound
<1>1. LibraryInv => SharedFilesFound
  BY SoundFinds DEF LibraryInv
<1> QED
  BY LibraryInvariance, <1>1, PTL

\* A step of the share index moves no lookup, neither a request's nor a task's.
LEMMA CallsApart ==
  ASSUME LibraryInv, [LibraryNext]_folderVars, NEW w \in Workers,
         Place(w).at \in {"wait", "due"}, Place(w)'.at = "call"
  PROVE  ~recent
<1>1. CASE [MetadataNext]_<<req, metadataVars>>
  BY <1>1, RateStep DEF LibraryInv
<1>2. CASE ShareStep
  <2>1. ShareNext /\ task' = task
    BY <1>2 DEF ShareStep, ShareNext, libraryVars
  <2>2. CASE w \in Requests
    <3>1. Place(w) = req[w] /\ Place(w)' = req'[w]
      BY <2>2 DEF Place
    <3>2. req'[w] = req[w] \/ req'[w].at \in AtRest
      BY <2>1, <2>2, ShareMoves DEF LibraryInv
    <3>3. req[w].at \in {"wait", "due"} /\ req'[w].at = "call"
      BY <3>1
    <3> QED
      BY <3>2, <3>3 DEF AtRest
  <2>3. CASE w \notin Requests
    BY <2>1, <2>3 DEF Place
  <2> QED
    BY <2>2, <2>3
<1>3. [MetadataNext]_<<req, metadataVars>> \/ ShareStep
  BY DEF LibraryNext, MetadataStep, folderVars, metadataVars
<1> QED
  BY <1>1, <1>2, <1>3

\* Downloads and rescans give no lookup an early request to MusicBrainz.
THEOREM RateBesideShares == LibrarySpec => MusicBrainzRate
<1>1. LibraryInv /\ [LibraryNext]_folderVars
        => [\A w \in Workers : Place(w).at \in {"wait", "due"} /\ Place(w)'.at = "call"
              => ~recent]_<<req, metadataVars>>
  BY CallsApart
<1> QED
  BY LibraryInvariance, <1>1, PTL DEF LibrarySpec, MusicBrainzRate

\* A step of the share index ends no job either.
LEMMA EndsApart ==
  ASSUME LibraryInv, [LibraryNext]_folderVars,
         NEW job \in Jobs, task[job] # Idle, task'[job] = Idle
  PROVE  \A t \in listed[job] \ excused[job] : HasResult(job, t)
<1>1. CASE [MetadataNext]_<<req, metadataVars>>
  BY <1>1, ReachedAtEnd DEF LibraryInv
<1>2. CASE ShareStep
  BY <1>2 DEF ShareStep, libraryVars
<1>3. [MetadataNext]_<<req, metadataVars>> \/ ShareStep
  BY DEF LibraryNext, MetadataStep, folderVars, metadataVars
<1> QED
  BY <1>1, <1>2, <1>3

\* With files that come and go under the lookups, by downloads and rescans, a
\* job still ends only when every track it listed has a result or is excused.
THEOREM LookupsBesideShares == LibrarySpec => JobsReachEvery
<1>1. LibraryInv /\ [LibraryNext]_folderVars
        => [\A job \in Jobs : task[job] # Idle /\ task'[job] = Idle =>
              \A t \in listed[job] \ excused[job] : HasResult(job, t)]_<<req, metadataVars>>
  BY EndsApart
<1> QED
  BY LibraryInvariance, <1>1, PTL DEF LibrarySpec, JobsReachEvery
==============================================================================
