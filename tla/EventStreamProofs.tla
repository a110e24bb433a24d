-------------------------- MODULE EventStreamProofs --------------------------
(***************************************************************************)
(* What a page shows and which messages it has, for any number of items,   *)
(* pages, messages and requests, any page size and any backlog.            *)
(*                                                                         *)
(* The invariant follows what a page is yet to be told of an item: the     *)
(* last event in its queue, or else the snapshot, or else what is on       *)
(* screen, agrees with the row, unless the row's writer has yet to speak   *)
(* or will not: then it agrees with what was last announced of the item.   *)
(***************************************************************************)
EXTENDS EventStream, FiniteSetTheorems, WellFoundedInduction, TLAPS

Event == ItemUpdated \cup NewMessage

About(event, i) == event \in ItemUpdated /\ event.item = i

Silent(q, i) == \A k \in DOMAIN q : ~About(q[k], i)

\* The last event of a queue about an item, if there is one, has the status.
SaysLast(q, i, s) ==
  \A k \in DOMAIN q :
    About(q[k], i) /\ (\A l \in DOMAIN q : l > k => ~About(q[l], i)) => q[k].status = s

\* What was last announced of an item: of an end that nobody announced, or of
\* a completion yet to be read back, what came before it.
LastTold(i) == IF i \in hushed THEN LastSaid(i)
               ELSE IF untold[i] = "completed" THEN "downloading" ELSE status[i]

Tells(p, i) ==
  /\ SaysLast(queue[p], i, LastTold(i))
  /\ socket[p].at = "open" /\ Silent(queue[p], i) =>
       /\ \A event \in socket[p].snapshot : event.item = i => event.status = LastTold(i)
       /\ \/ \E event \in socket[p].snapshot : event.item = i
          \/ view[p][i] = LastTold(i)
          \/ view[p][i] = "none" /\ (status[i] # "downloading" \/ p \in blind)

\* Nobody is to announce more than the completion of the item.
Settled == {Said, "completed"}

Told == \A p \in Pages \ lagged, i \in Items : untold[i] \in Settled => Tells(p, i)

\* An announcement on its way says what the row says.
Ahead == \A i \in Items : untold[i] # Said => untold[i] = status[i]

Hushed == \A i \in hushed : status[i] \in {"completed", "failed"} /\ untold[i] = Said

Sockets ==
  \A p \in Pages :
    /\ socket[p].at # "open" => socket[p].snapshot = {} /\ \A i \in Items : view[p][i] = "none"
    /\ ~Listening(p) => queue[p] = <<>> /\ loaded[p] = {}

EventReqOK == req \in [Requests -> EventRequest]

EventTypeInv == EventsTypeOK /\ EventReqOK

EventInv == EventTypeInv /\ Ahead /\ Hushed /\ Sockets /\ Told /\ NoMessageBetween

-----------------------------------------------------------------------------
(* Events and queues *)

LEMMA EventKinds ==
  /\ \A event \in ItemUpdated : /\ "message" \notin DOMAIN event
                                /\ event.item \in Items /\ event.status \in Statuses
  /\ \A event \in NewMessage : /\ "message" \in DOMAIN event /\ event.message \in Message
                               /\ event = [message |-> event.message]
                               /\ event \notin ItemUpdated
  /\ \A i \in Items, s \in Statuses : [item |-> i, status |-> s] \in ItemUpdated
  /\ \A m \in Message : [message |-> m] \in NewMessage
<1>1. \A event \in ItemUpdated : /\ DOMAIN event = {"item", "status"}
                                 /\ event.item \in Items /\ event.status \in Statuses
  BY DEF ItemUpdated
<1>2. \A event \in NewMessage : /\ DOMAIN event = {"message"} /\ event.message \in Message
                                /\ event = [message |-> event.message]
  BY DEF NewMessage
<1>3. /\ \A i \in Items, s \in Statuses : [item |-> i, status |-> s] \in ItemUpdated
      /\ \A m \in Message : [message |-> m] \in NewMessage
  BY DEF ItemUpdated, NewMessage
<1>4. "message" \notin {"item", "status"} /\ "message" \in {"message"}
  OBVIOUS
<1>5. \A event \in NewMessage : event \notin ItemUpdated
  BY <1>1, <1>2, <1>4
<1> QED
  BY <1>1, <1>2, <1>3, <1>4, <1>5

LEMMA AppendEvent ==
  ASSUME NEW E, NEW q \in Seq(E), NEW event \in E, NEW i, NEW s
  PROVE  /\ ~About(event, i) /\ SaysLast(q, i, s) => SaysLast(Append(q, event), i, s)
         /\ About(event, i) /\ event.status = s => SaysLast(Append(q, event), i, s)
         /\ Silent(Append(q, event), i) => Silent(q, i) /\ ~About(event, i)
<1> DEFINE new == Append(q, event)
           n == Len(q)
<1>1. /\ n \in Nat /\ DOMAIN q = 1..n /\ DOMAIN new = 1..(n + 1)
      /\ new[n + 1] = event /\ \A k \in 1..n : new[k] = q[k]
  OBVIOUS
<1> HIDE DEF new, n
<1>2. ASSUME ~About(event, i), SaysLast(q, i, s) PROVE SaysLast(new, i, s)
  <2> SUFFICES ASSUME NEW k \in DOMAIN new, About(new[k], i),
                      \A l \in DOMAIN new : l > k => ~About(new[l], i)
               PROVE  new[k].status = s
    BY DEF SaysLast
  <2>1. k \in 1..n /\ new[k] = q[k]
    <3>1. k # n + 1
      BY <1>1, <1>2
    <3> QED
      BY <1>1, <3>1
  <2>2. \A l \in DOMAIN q : l > k => ~About(q[l], i)
    BY <1>1
  <2> QED
    BY <1>1, <1>2, <2>1, <2>2 DEF SaysLast
<1>3. ASSUME About(event, i), event.status = s PROVE SaysLast(new, i, s)
  <2> SUFFICES ASSUME NEW k \in DOMAIN new, \A l \in DOMAIN new : l > k => ~About(new[l], i)
               PROVE  new[k].status = s
    BY DEF SaysLast
  <2>1. k = n + 1
    <3>1. n + 1 \in DOMAIN new /\ About(new[n + 1], i)
      BY <1>1, <1>3
    <3>2. ~(n + 1 > k)
      BY <3>1
    <3> QED
      BY <1>1, <3>2
  <2> QED
    BY <1>1, <1>3, <2>1
<1>4. Silent(new, i) => Silent(q, i) /\ ~About(event, i)
  BY <1>1 DEF Silent
<1> QED
  BY <1>2, <1>3, <1>4 DEF new

LEMMA TakeEvent ==
  ASSUME NEW E, NEW q \in Seq(E), q # <<>>, NEW i, NEW s
  PROVE  /\ SaysLast(q, i, s) => SaysLast(Tail(q), i, s)
         /\ Silent(Tail(q), i) /\ ~About(Head(q), i) => Silent(q, i)
         /\ Silent(Tail(q), i) /\ About(Head(q), i) /\ SaysLast(q, i, s) => Head(q).status = s
<1> DEFINE rest == Tail(q)
           n == Len(q)
<1>1. /\ n \in Nat /\ n > 0 /\ DOMAIN q = 1..n /\ DOMAIN rest = 1..(n - 1)
      /\ Head(q) = q[1] /\ \A k \in 1..(n - 1) : rest[k] = q[k + 1]
  OBVIOUS
<1> HIDE DEF rest, n
<1>2. ASSUME SaysLast(q, i, s) PROVE SaysLast(rest, i, s)
  <2> SUFFICES ASSUME NEW k \in DOMAIN rest, About(rest[k], i),
                      \A l \in DOMAIN rest : l > k => ~About(rest[l], i)
               PROVE  rest[k].status = s
    BY DEF SaysLast
  <2>1. k + 1 \in DOMAIN q /\ q[k + 1] = rest[k]
    BY <1>1
  <2>2. ASSUME NEW l \in DOMAIN q, l > k + 1 PROVE ~About(q[l], i)
    <3>1. l - 1 \in DOMAIN rest /\ l - 1 > k /\ rest[l - 1] = q[l]
      BY <1>1, <2>2
    <3> QED
      BY <3>1
  <2> QED
    BY <1>2, <2>1, <2>2 DEF SaysLast
<1>3. ASSUME Silent(rest, i) PROVE \A l \in DOMAIN q : l > 1 => ~About(q[l], i)
  <2> SUFFICES ASSUME NEW l \in DOMAIN q, l > 1 PROVE ~About(q[l], i)
    OBVIOUS
  <2>1. l - 1 \in DOMAIN rest /\ rest[l - 1] = q[l]
    BY <1>1
  <2> QED
    BY <1>3, <2>1 DEF Silent
<1>4. Silent(rest, i) /\ ~About(Head(q), i) => Silent(q, i)
  BY <1>1, <1>3 DEF Silent
<1>5. Silent(rest, i) /\ About(Head(q), i) /\ SaysLast(q, i, s) => Head(q).status = s
  <2>1. 1 \in DOMAIN q
    BY <1>1
  <2> QED
    BY <1>1, <1>3, <2>1 DEF SaysLast
<1> QED
  BY <1>2, <1>4, <1>5 DEF rest

\* A page that keeps up gets every event at the end of its queue.
LEMMA Broadcasts ==
  ASSUME EventTypeInv, NEW event \in Event, Broadcast(event)
  PROVE  /\ queue' \in [Pages -> Seq(Event)] /\ \A p \in Pages : Len(queue'[p]) <= Backlog
         /\ lagged' \subseteq Pages /\ lagged \subseteq lagged'
         /\ \A p \in Pages : ~Listening(p) => queue'[p] = queue[p]
         /\ \A p \in Pages \ lagged' : Listening(p) => queue'[p] = Append(queue[p], event)
<1>1. /\ queue \in [Pages -> Seq(Event)] /\ lagged \subseteq Pages
      /\ \A p \in Pages : Len(queue[p]) <= Backlog
  BY DEF EventTypeInv, EventsTypeOK, Event
<1>2. /\ \A p \in Pages : queue'[p] = IF ~Listening(p) THEN queue[p]
                                      ELSE IF Len(queue[p]) < Backlog THEN Append(queue[p], event)
                                      ELSE Append(Tail(queue[p]), event)
      /\ queue' = [p \in Pages |-> queue'[p]]
      /\ lagged' = lagged \cup {p \in Pages : Listening(p) /\ Len(queue[p]) = Backlog}
  BY DEF Broadcast
<1>3. ASSUME NEW p \in Pages
      PROVE  queue'[p] \in Seq(Event) /\ Len(queue'[p]) <= Backlog
  <2>1. queue[p] \in Seq(Event) /\ Len(queue[p]) \in Nat /\ Len(queue[p]) <= Backlog /\ Backlog \in Nat \ {0}
    BY <1>1, EventBounds
  <2>2. CASE ~Listening(p)
    BY <1>2, <2>1, <2>2
  <2>3. CASE Listening(p) /\ Len(queue[p]) < Backlog
    BY <1>2, <2>1, <2>3
  <2>4. CASE Listening(p) /\ ~(Len(queue[p]) < Backlog)
    <3>1. queue[p] # <<>>
      BY <2>1, <2>4
    <3>2. Tail(queue[p]) \in Seq(Event) /\ Len(Tail(queue[p])) = Len(queue[p]) - 1
      BY <2>1, <3>1
    <3> DEFINE rest == Tail(queue[p])
    <3>3. queue'[p] = Append(rest, event)
      BY <1>2, <2>4
    <3> HIDE DEF rest
    <3>4. rest \in Seq(Event) /\ Len(rest) < Backlog
      BY <2>1, <3>2 DEF rest
    <3>5. Append(rest, event) \in Seq(Event) /\ Len(Append(rest, event)) = Len(rest) + 1
      BY <3>4
    <3> QED
      BY <2>1, <3>3, <3>4, <3>5
  <2> QED
    BY <2>2, <2>3, <2>4
<1>4. ASSUME NEW p \in Pages \ lagged', Listening(p)
      PROVE  queue'[p] = Append(queue[p], event)
  <2>1. Len(queue[p]) \in Nat /\ Len(queue[p]) <= Backlog /\ Len(queue[p]) # Backlog /\ Backlog \in Nat
    BY <1>1, <1>2, <1>4, EventBounds
  <2> QED
    BY <1>2, <1>4, <2>1
<1> QED
  BY <1>1, <1>2, <1>3, <1>4

-----------------------------------------------------------------------------
(* Numbers of messages *)

\* A set of naturals has a least member.
LEMMA LeastIndex ==
  ASSUME NEW T, T \subseteq Nat, T # {}
  PROVE  \E m \in T : \A k \in T : m <= k
<1> DEFINE F == FiniteSubsetsOf(Nat)
           Q == {0..n : n \in T}
           R == StrictSubsetOrdering(Nat)
<1>1. IsWellFoundedOn(R, F)
  BY FS_StrictSubsetOrderingWellFounded
<1>2. Q \subseteq F /\ Q # {}
  <2>1. ASSUME NEW n \in T PROVE 0..n \in F
    <3>1. n \in Int /\ 0 \in Int
      OBVIOUS
    <3>2. IsFiniteSet(0..n)
      BY <3>1, FS_Interval
    <3>3. 0..n \subseteq Nat
      OBVIOUS
    <3> QED
      BY <3>2, <3>3 DEF FiniteSubsetsOf
  <2> HIDE DEF F
  <2> QED
    BY <2>1
<1> HIDE DEF F, R, Q
<1>3. \E x \in Q : \A y \in Q : ~(<<y, x>> \in R)
  BY <1>1, <1>2, WFMin
<1> QED
  <2>1. PICK m \in T : \A k \in T : ~(<<0..k, 0..m>> \in R)
    BY <1>3 DEF Q
  <2>2. ASSUME NEW k \in T, k < m PROVE FALSE
    <3>1. k \in Nat /\ m \in Nat
      OBVIOUS
    <3>2. 0..k \subseteq 0..m /\ 0..k \in SUBSET Nat /\ 0..m \in SUBSET Nat
      BY <2>2, <3>1
    <3>3. m \in 0..m /\ m \notin 0..k
      BY <2>2, <3>1
    <3>4. 0..k # 0..m
      BY <3>3, Zenon
    <3>5. <<0..k, 0..m>> \in R
      BY <3>2, <3>4 DEF R, StrictSubsetOrdering
    <3> QED
      BY <2>1, <3>5
  <2> QED
    BY <2>2

LEMMA OldestIsLeast ==
  ASSUME NEW ids, ids \subseteq Message, ids # {}
  PROVE  Oldest(ids) \in ids /\ \A n \in ids : Oldest(ids) <= n
<1>1. ids \subseteq Nat
  BY EventBounds DEF Message
<1>2. \E m \in ids : \A n \in ids : m <= n
  BY <1>1, LeastIndex
<1> QED
  BY <1>2, Zenon DEF Oldest

\* A page of messages has no gap: what is newer than one of it is in it too.
LEMMA NewestHasNoGap ==
  ASSUME NEW ids, ids \subseteq Message, NEW m \in Newest(ids), NEW n \in ids, m <= n
  PROVE  n \in Newest(ids)
<1> DEFINE over(k) == {l \in ids : l > k}
<1>1. IsFiniteSet(ids)
  <2>1. IsFiniteSet(Message)
    BY EventBounds, FS_Interval DEF Message
  <2> QED
    BY <2>1, FS_Subset
<1>2. m \in ids /\ Cardinality(over(m)) < PageSize
  BY DEF Newest
<1>3. over(n) \subseteq over(m) /\ over(m) \subseteq ids
  <2>1. ids \subseteq Nat /\ m \in Nat /\ n \in Nat
    BY EventBounds, <1>2 DEF Message
  <2>2. \A l \in ids : l > n => l > m
    BY <2>1
  <2> QED
    BY <2>2
<1>4. /\ Cardinality(over(m)) \in Nat /\ Cardinality(over(n)) \in Nat
      /\ Cardinality(over(n)) <= Cardinality(over(m))
  <2> DEFINE a == over(m)
             b == over(n)
  <2>1. b \subseteq a /\ a \subseteq ids
    BY <1>3
  <2> HIDE DEF a, b
  <2>2. IsFiniteSet(a)
    BY <1>1, <2>1, FS_Subset
  <2>3. IsFiniteSet(b) /\ Cardinality(b) <= Cardinality(a)
    BY <2>1, <2>2, FS_Subset
  <2>4. Cardinality(a) \in Nat /\ Cardinality(b) \in Nat
    BY <2>2, <2>3, FS_CardinalityType
  <2> QED
    BY <2>3, <2>4 DEF a, b
<1>5. Cardinality(over(n)) < PageSize
  BY <1>2, <1>4, EventBounds
<1> QED
  BY <1>5 DEF Newest

LEMMA RowsAreMessages == EventTypeInv => Rows \subseteq Message
BY EventBounds DEF EventTypeInv, EventsTypeOK, Rows, Message

-----------------------------------------------------------------------------
(* Requests *)

LEMMA ReqTypes ==
  ASSUME EventReqOK, NEW r \in Requests
  PROVE  At(r, "broadcast") => req[r].message \in Message
<1>1. req[r] \in EventRequest
  BY DEF EventReqOK
<1> QED
  BY <1>1 DEF EventRequest, At, Idle

LEMMA ReqStates ==
  /\ Idle \in EventRequest /\ Idle.at = "idle"
  /\ \A m \in Message : [at |-> "broadcast", message |-> m] \in EventRequest
BY DEF EventRequest, Idle

LEMMA EventMove ==
  ASSUME EventReqOK, NEW r \in Requests, NEW s \in EventRequest, Goto(r, s)
  PROVE  EventReqOK' /\ req'[r] = s /\ \A o \in Requests \ {r} : req'[o] = req[o]
BY DEF EventReqOK, Goto

Sending == {req[r].message : r \in InFlight("broadcast")}
Queued(p) == {m \in Message : \E k \in DOMAIN queue[p] : queue[p][k] = [message |-> m]}

\* NoMessageBetween, of one page.
Gapless(p) ==
  loaded[p] # {} =>
    \A m \in Rows : m >= Oldest(loaded[p]) =>
      m \in loaded[p] \cup received[p] \cup Queued(p) \cup Sending \cup muted

LEMMA GaplessPages == NoMessageBetween <=> \A p \in Pages \ lagged : Gapless(p)
BY DEF NoMessageBetween, Gapless, Sending, Queued

LEMMA GaplessKept ==
  ASSUME NEW p \in Pages, Gapless(p), UNCHANGED <<messages, loaded>>,
         received[p] \cup Queued(p) \cup Sending \cup muted
           \subseteq received'[p] \cup Queued(p)' \cup Sending' \cup muted'
  PROVE  Gapless(p)'
BY DEF Gapless, Rows, Oldest

LEMMA QueuedStays ==
  ASSUME EventTypeInv, NEW p \in Pages, NEW event \in Event,
         ~Listening(p) => queue'[p] = queue[p],
         Listening(p) => queue'[p] = Append(queue[p], event)
  PROVE  Queued(p) \subseteq Queued(p)'
<1>1. queue[p] \in Seq(Event)
  BY DEF EventTypeInv, EventsTypeOK, Event
<1>2. \A k \in DOMAIN queue[p] : k \in DOMAIN queue'[p] /\ queue'[p][k] = queue[p][k]
  BY <1>1
<1> QED
  BY <1>2 DEF Queued

LEMMA EventTypes ==
  ASSUME EventInv
  PROVE  /\ status \in [Items -> Statuses \cup {"none"}] /\ untold \in [Items -> Statuses \cup {Said}]
         /\ messages \in 0..MaxMessage /\ muted \subseteq Message /\ hushed \subseteq Items /\ blind \subseteq Pages
         /\ socket \in [Pages -> [at : {"closed", "subscribed", "open"}, snapshot : SUBSET ItemUpdated]]
         /\ queue \in [Pages -> Seq(Event)] /\ \A p \in Pages : Len(queue[p]) <= Backlog
         /\ lagged \subseteq Pages
         /\ view \in [Pages -> [Items -> Statuses \cup {"none"}]]
         /\ loaded \in [Pages -> SUBSET Message] /\ received \in [Pages -> SUBSET Message]
         /\ EventReqOK
BY DEF EventInv, EventTypeInv, EventsTypeOK, Event

LEMMA Typed ==
  /\ status \in [Items -> Statuses \cup {"none"}] /\ untold \in [Items -> Statuses \cup {Said}]
  /\ messages \in 0..MaxMessage /\ muted \subseteq Message /\ hushed \subseteq Items /\ blind \subseteq Pages
  /\ socket \in [Pages -> [at : {"closed", "subscribed", "open"}, snapshot : SUBSET ItemUpdated]]
  /\ queue \in [Pages -> Seq(Event)] /\ (\A p \in Pages : Len(queue[p]) <= Backlog)
  /\ lagged \subseteq Pages
  /\ view \in [Pages -> [Items -> Statuses \cup {"none"}]]
  /\ loaded \in [Pages -> SUBSET Message] /\ received \in [Pages -> SUBSET Message]
  /\ EventReqOK
  => EventTypeInv
BY DEF EventTypeInv, EventsTypeOK, Event

\* What the parts of the invariant are about.
LEMMA ToldKept ==
  ASSUME EventInv, lagged \subseteq lagged', UNCHANGED <<status, untold, hushed, socket, queue, blind, view>>
  PROVE  Told'
BY DEF EventInv, Told, Tells, LastTold, LastSaid

LEMMA SocketsKept ==
  ASSUME EventInv, UNCHANGED <<socket, queue, view, loaded>>
  PROVE  Sockets'
BY DEF EventInv, Sockets, Listening

-----------------------------------------------------------------------------
(* The items *)

LEMMA WriteStatusStep ==
  ASSUME EventInv, NEW i \in Items, WriteStatus(i)
  PROVE  EventInv'
<1>1. PICK s \in NextStatus[status[i]] :
        /\ status' = [status EXCEPT ![i] = s]
        /\ untold' = [untold EXCEPT ![i] = IF s = "pending" THEN Said ELSE s]
  BY DEF WriteStatus
<1>2. /\ untold[i] = Said /\ i \notin hushed
      /\ UNCHANGED <<req, hushed, messages, muted, socket, queue, blind, lagged, view, loaded, received>>
  BY DEF WriteStatus
<1>3. /\ s \in Statuses /\ s # Said
      /\ s = "pending" => status[i] = "none"
      /\ s = "completed" => status[i] = "downloading"
  <2>1. status[i] \in {"none", "pending", "downloading", "completed", "failed"}
    BY EventTypes DEF Statuses, Active
  <2>2. NextStatus[status[i]] =
          CASE status[i] = "none"        -> {"pending"}
            [] status[i] = "pending"     -> {"downloading"}
            [] status[i] = "downloading" -> {"completed", "failed"}
            [] status[i] = "failed"      -> {"failed"}
            [] OTHER                     -> {}
    BY EventTypes DEF NextStatus
  <2> QED
    BY <2>1, <2>2 DEF Statuses, Active, Said
<1>4. EventTypeInv'
  <2>1. /\ status' \in [Items -> Statuses \cup {"none"}] /\ untold' \in [Items -> Statuses \cup {Said}]
    BY <1>1, <1>3, EventTypes
  <2>2. EventsTypeOK'
    BY <1>2, <2>1 DEF EventInv, EventTypeInv, EventsTypeOK
  <2> QED
    BY <1>2, <2>2 DEF EventInv, EventTypeInv, EventReqOK
<1>5. Ahead' /\ Hushed'
  BY <1>1, <1>2, <1>3, EventTypes DEF EventInv, Ahead, Hushed
<1>6. Sockets'
  BY <1>2, SocketsKept
<1>7. Told'
  <2> SUFFICES ASSUME NEW p \in Pages \ lagged, NEW j \in Items, untold'[j] \in Settled
               PROVE  Tells(p, j)'
    BY <1>2 DEF Told
  <2>1. CASE j # i
    <3>1. status'[j] = status[j] /\ untold'[j] = untold[j]
      BY <1>1, <2>1, EventTypes
    <3>2. Tells(p, j)
      BY <3>1 DEF EventInv, Told
    <3> QED
      BY <1>2, <3>1, <3>2 DEF Tells, LastTold, LastSaid
  <2>2. CASE j = i
    <3>1. /\ status'[i] = s /\ untold'[i] = (IF s = "pending" THEN Said ELSE s)
          /\ s \in {"pending", "completed"}
      BY <1>1, <1>3, <2>2, EventTypes DEF Settled, Statuses, Active, Said
    <3>2. Tells(p, i) /\ LastTold(i) = status[i]
      BY <1>2 DEF EventInv, Told, Settled, LastTold, Said
    <3>3. CASE s = "completed"
      <4>1. LastTold(i)' = LastTold(i) /\ status'[i] # "downloading"
        BY <1>2, <1>3, <3>1, <3>2, <3>3 DEF LastTold, Said
      <4> QED
        BY <1>2, <2>2, <3>2, <4>1 DEF Tells
    <3>4. CASE s = "pending"
      <4>1. LastTold(i)' = "pending" /\ LastTold(i) = "none" /\ status'[i] # "downloading"
        BY <1>2, <1>3, <3>1, <3>2, <3>4 DEF LastTold, Said
      <4>2. \A k \in DOMAIN queue[p] : About(queue[p][k], i) => queue[p][k].status # "none"
        BY EventKinds DEF About, Statuses, Active
      <4>3. SaysLast(queue[p], i, LastTold(i)')
        BY <3>2, <4>1, <4>2 DEF Tells, SaysLast
      <4>4. socket[p].at = "open" /\ Silent(queue[p], i) =>
              /\ \A event \in socket[p].snapshot : event.item # i
              /\ view[p][i] = "none"
        <5>1. \A event \in socket[p].snapshot : event.status # "none"
          BY EventKinds, EventTypes DEF Statuses, Active
        <5> QED
          BY <3>2, <4>1, <5>1 DEF Tells
      <4> QED
        BY <1>2, <2>2, <4>1, <4>3, <4>4 DEF Tells
    <3> QED
      BY <3>1, <3>3, <3>4
  <2> QED
    BY <2>1, <2>2
<1>8. NoMessageBetween'
  <2>1. ASSUME NEW p \in Pages \ lagged PROVE Gapless(p)'
    <3>1. Gapless(p)
      BY GaplessPages DEF EventInv
    <3> QED
      BY <1>2, <3>1 DEF Gapless, Rows, Oldest, Queued, Sending, InFlight, At
  <2> QED
    BY <1>2, <2>1 DEF NoMessageBetween, Gapless, Sending, Queued
<1> QED
  BY <1>4, <1>5, <1>6, <1>7, <1>8 DEF EventInv

\* An end that nobody announces leaves what was last announced.
LEMMA HushedStep ==
  ASSUME EventInv, NEW i \in Items, FailPlaceholder(i) \/ Unread(i)
  PROVE  EventInv'
<1>1. /\ untold' \in {untold, [untold EXCEPT ![i] = Said]} /\ untold'[i] = Said
      /\ untold[i] \in Settled
      /\ status' \in {status, [status EXCEPT ![i] = "failed"]}
      /\ status'[i] \in {"completed", "failed"} /\ i \notin hushed
      /\ LastTold(i) = LastSaid(i)'
  BY EventTypes DEF EventInv, Ahead, Hushed, FailPlaceholder, Unread, Settled, LastTold, LastSaid, Said
<1>2. /\ hushed' = hushed \cup {i}
      /\ UNCHANGED <<req, messages, muted, socket, queue, blind, lagged, view, loaded, received>>
  BY DEF FailPlaceholder, Unread
<1>3. \A j \in Items : j # i => status'[j] = status[j] /\ untold'[j] = untold[j]
  BY <1>1, EventTypes
<1>4. EventTypeInv'
  <2>1. /\ status' \in [Items -> Statuses \cup {"none"}] /\ untold' \in [Items -> Statuses \cup {Said}]
        /\ hushed' \subseteq Items
    BY <1>1, <1>2, EventTypes DEF Statuses
  <2>2. EventsTypeOK'
    BY <1>2, <2>1 DEF EventInv, EventTypeInv, EventsTypeOK
  <2> QED
    BY <1>2, <2>2 DEF EventInv, EventTypeInv, EventReqOK
<1>5. Ahead' /\ Hushed'
  BY <1>1, <1>2, <1>3, EventTypes DEF EventInv, Ahead, Hushed
<1>6. Sockets'
  BY <1>2, SocketsKept
<1>7. Told'
  <2> SUFFICES ASSUME NEW p \in Pages \ lagged, NEW j \in Items, untold'[j] \in Settled
               PROVE  Tells(p, j)'
    BY <1>2 DEF Told
  <2>1. untold[j] \in Settled /\ Tells(p, j)
    BY <1>1, <1>3 DEF EventInv, Told
  <2>2. LastTold(j)' = LastTold(j)
    <3>1. CASE j = i
      BY <1>1, <1>2, <3>1 DEF LastTold
    <3>2. CASE j # i
      BY <1>2, <1>3, <3>2 DEF LastTold, LastSaid
    <3> QED
      BY <3>1, <3>2
  <2>3. status'[j] = "downloading" => status[j] = "downloading"
    BY <1>1, <1>3
  <2> QED
    BY <1>2, <2>1, <2>2, <2>3 DEF Tells
<1>8. NoMessageBetween'
  <2>1. ASSUME NEW p \in Pages \ lagged PROVE Gapless(p)'
    <3>1. Gapless(p)
      BY GaplessPages DEF EventInv
    <3> QED
      BY <1>2, <3>1 DEF Gapless, Rows, Oldest, Queued, Sending, InFlight, At
  <2> QED
    BY <1>2, <2>1 DEF NoMessageBetween, Gapless, Sending, Queued
<1> QED
  BY <1>4, <1>5, <1>6, <1>7, <1>8 DEF EventInv

LEMMA AnnounceStatusStep ==
  ASSUME EventInv, NEW i \in Items, AnnounceStatus(i)
  PROVE  EventInv'
<1> DEFINE event == [item |-> i, status |-> untold[i]]
<1>1. /\ untold[i] # Said /\ untold' = [untold EXCEPT ![i] = Said]
      /\ Broadcast(event)
      /\ UNCHANGED <<req, status, hushed, messages, muted, socket, blind, view, loaded, received>>
  BY DEF AnnounceStatus
<1>2. /\ event \in ItemUpdated /\ event.item = i /\ event.status = status[i]
      /\ event \in Event
  <2>1. untold[i] \in Statuses /\ untold[i] = status[i]
    BY <1>1, EventTypes DEF EventInv, Ahead
  <2> QED
    BY <2>1, EventKinds DEF Event
<1> HIDE DEF event
<1>3. /\ queue' \in [Pages -> Seq(Event)] /\ \A p \in Pages : Len(queue'[p]) <= Backlog
      /\ lagged' \subseteq Pages /\ lagged \subseteq lagged'
      /\ \A p \in Pages : ~Listening(p) => queue'[p] = queue[p]
      /\ \A p \in Pages \ lagged' : Listening(p) => queue'[p] = Append(queue[p], event)
  BY <1>1, <1>2, Broadcasts DEF EventInv
<1>4. EventTypeInv'
  <2>1. untold' \in [Items -> Statuses \cup {Said}]
    BY <1>1, EventTypes
  <2>2. EventsTypeOK'
    BY <1>1, <1>3, <2>1 DEF EventInv, EventTypeInv, EventsTypeOK, Event
  <2> QED
    BY <1>1, <2>2 DEF EventInv, EventTypeInv, EventReqOK
<1>5. Ahead' /\ Hushed'
  BY <1>1, EventTypes DEF EventInv, Ahead, Hushed
<1>6. Sockets'
  BY <1>1, <1>3 DEF EventInv, Sockets, Listening
<1>7. Told'
  <2> SUFFICES ASSUME NEW p \in Pages \ lagged', NEW j \in Items, untold'[j] \in Settled
               PROVE  Tells(p, j)'
    BY DEF Told
  <2>1. p \notin lagged /\ queue[p] \in Seq(Event)
    BY <1>3, EventTypes
  <2>2. CASE ~Listening(p)
    <3>1. queue'[p] = <<>> /\ socket'[p].at # "open"
      BY <1>1, <1>3, <2>2 DEF EventInv, Sockets, Listening
    <3>2. SaysLast(queue'[p], j, LastTold(j)')
      BY <3>1 DEF SaysLast
    <3> QED
      BY <3>1, <3>2 DEF Tells, LastTold, LastSaid
  <2>3. CASE Listening(p) /\ j = i
    <3>1. queue'[p] = Append(queue[p], event)
      BY <1>3, <2>3
    <3>2. About(event, i)
      BY <1>2 DEF About
    <3>3. SaysLast(queue'[p], i, status[i]) /\ ~Silent(queue'[p], i)
      BY <1>2, <2>1, <3>1, <3>2, AppendEvent
    <3>4. LastTold(i)' = status[i]
      BY <1>1, EventTypes DEF EventInv, Hushed, LastTold, Said
    <3> QED
      BY <1>1, <2>3, <3>3, <3>4 DEF Tells
  <2>4. CASE Listening(p) /\ j # i
    <3>1. queue'[p] = Append(queue[p], event)
      BY <1>3, <2>4
    <3>2. ~About(event, j)
      BY <1>2, <2>4 DEF About
    <3>3. Tells(p, j)
      BY <1>1, <2>1, <2>4, EventTypes DEF EventInv, Told
    <3>4. SaysLast(queue'[p], j, LastTold(j)) /\ (Silent(queue'[p], j) => Silent(queue[p], j))
      BY <1>2, <2>1, <3>1, <3>2, <3>3, AppendEvent DEF Tells
    <3>5. LastTold(j)' = LastTold(j)
      BY <1>1, <2>4, EventTypes DEF LastTold, LastSaid
    <3> QED
      BY <1>1, <3>3, <3>4, <3>5 DEF Tells
  <2> QED
    BY <2>2, <2>3, <2>4
<1>8. NoMessageBetween'
  <2>1. ASSUME NEW p \in Pages \ lagged' PROVE Gapless(p)'
    <3>1. Gapless(p) /\ p \notin lagged
      BY <1>3, GaplessPages DEF EventInv
    <3>2. Queued(p) \subseteq Queued(p)'
      BY <1>2, <1>3, QueuedStays DEF EventInv
    <3>3. Sending' = Sending
      BY <1>1 DEF Sending, InFlight, At
    <3> QED
      BY <1>1, <3>1, <3>2, <3>3, GaplessKept
  <2> QED
    BY <2>1 DEF NoMessageBetween, Gapless, Sending, Queued
<1> QED
  BY <1>4, <1>5, <1>6, <1>7, <1>8 DEF EventInv

-----------------------------------------------------------------------------
(* The messages *)

LEMMA InsertMessageStep ==
  ASSUME EventInv, NEW r \in Requests, InsertMessage(r)
  PROVE  EventInv'
<1> DEFINE m == messages + 1
           s == [at |-> "broadcast", message |-> m]
<1>1. /\ req[r] = Idle /\ messages < MaxMessage /\ messages' = m /\ Goto(r, s)
      /\ UNCHANGED <<status, untold, hushed, muted, socket, queue, blind, lagged, view, loaded, received>>
  BY DEF InsertMessage, itemVars, Arrives
<1>2. m \in Message /\ m \in 0..MaxMessage /\ messages \in Nat
  BY <1>1, EventTypes, EventBounds DEF Message
<1>3. s \in EventRequest /\ s.at = "broadcast" /\ s.message = m
  BY <1>2, ReqStates
<1> HIDE DEF s
<1>4. EventReqOK' /\ req'[r] = s /\ \A o \in Requests \ {r} : req'[o] = req[o]
  BY <1>1, <1>3, EventTypes, EventMove
<1>5. EventTypeInv'
  BY <1>1, <1>2, <1>4 DEF EventInv, EventTypeInv, EventsTypeOK
<1>6. Ahead' /\ Hushed' /\ Sockets' /\ Told'
  BY <1>1, SocketsKept, ToldKept DEF EventInv, Ahead, Hushed
<1>7. NoMessageBetween'
  <2>1. Sending \cup {m} \subseteq Sending'
    BY <1>1, <1>3, <1>4, ReqStates DEF Sending, InFlight, At
  <2>2. ASSUME NEW p \in Pages \ lagged PROVE Gapless(p)'
    <3>1. Gapless(p)
      BY GaplessPages DEF EventInv
    <3>2. Queued(p)' = Queued(p)
      BY <1>1 DEF Queued
    <3>3. Rows' = Rows \cup {m}
      BY <1>1, <1>2 DEF Rows
    <3> QED
      BY <1>1, <2>1, <3>1, <3>2, <3>3 DEF Gapless, Oldest
  <2> QED
    BY <1>1, <2>2 DEF NoMessageBetween, Gapless, Sending, Queued
<1> QED
  BY <1>5, <1>6, <1>7 DEF EventInv

LEMMA BroadcastMessageStep ==
  ASSUME EventInv, NEW r \in Requests, BroadcastMessage(r)
  PROVE  EventInv'
<1> DEFINE m == req[r].message
           event == [message |-> m]
<1>1. /\ At(r, "broadcast") /\ Broadcast(event) /\ Goto(r, Idle)
      /\ UNCHANGED <<status, untold, hushed, messages, muted, socket, blind, view, loaded, received>>
  BY DEF BroadcastMessage, itemVars, Finish
<1>2. /\ m \in Message /\ event \in NewMessage /\ event \in Event /\ event \notin ItemUpdated
  BY <1>1, ReqTypes, EventTypes, EventKinds DEF Event
<1>3. /\ queue' \in [Pages -> Seq(Event)] /\ \A p \in Pages : Len(queue'[p]) <= Backlog
      /\ lagged' \subseteq Pages /\ lagged \subseteq lagged'
      /\ \A p \in Pages : ~Listening(p) => queue'[p] = queue[p]
      /\ \A p \in Pages \ lagged' : Listening(p) => queue'[p] = Append(queue[p], event)
  BY <1>1, <1>2, Broadcasts DEF EventInv
<1>4. EventReqOK' /\ req'[r] = Idle /\ \A o \in Requests \ {r} : req'[o] = req[o]
  BY <1>1, EventTypes, EventMove, ReqStates
<1>5. EventTypeInv'
  BY <1>1, <1>3, <1>4 DEF EventInv, EventTypeInv, EventsTypeOK, Event
<1>6. Ahead' /\ Hushed' /\ Sockets'
  BY <1>1, <1>3 DEF EventInv, Ahead, Hushed, Sockets, Listening
<1> HIDE DEF event
<1>7. Told'
  <2> SUFFICES ASSUME NEW p \in Pages \ lagged', NEW j \in Items, untold'[j] \in Settled
               PROVE  Tells(p, j)'
    BY DEF Told
  <2>1. p \notin lagged /\ queue[p] \in Seq(Event) /\ Tells(p, j)
    BY <1>1, <1>3, EventTypes DEF EventInv, Told
  <2>2. SaysLast(queue'[p], j, LastTold(j)) /\ (Silent(queue'[p], j) => Silent(queue[p], j))
    <3>1. CASE ~Listening(p)
      BY <1>3, <2>1, <3>1 DEF Tells, LastTold, LastSaid
    <3>2. CASE Listening(p)
      <4>1. queue'[p] = Append(queue[p], event) /\ ~About(event, j)
        BY <1>2, <1>3, <3>2 DEF About
      <4> QED
        BY <1>2, <2>1, <4>1, AppendEvent DEF Tells, LastTold, LastSaid
    <3> QED
      BY <3>1, <3>2
  <2> QED
    BY <1>1, <2>1, <2>2 DEF Tells, LastTold, LastSaid
<1>8. NoMessageBetween'
  <2>1. ASSUME NEW p \in Pages \ lagged' PROVE Gapless(p)'
    <3>1. Gapless(p) /\ p \notin lagged /\ queue[p] \in Seq(Event)
      BY <1>3, EventTypes, GaplessPages DEF EventInv
    <3>2. Queued(p) \subseteq Queued(p)'
      BY <1>2, <1>3, QueuedStays DEF EventInv
    <3>3. Sending \subseteq Sending' \cup {m}
      BY <1>4 DEF Sending, InFlight, At
    <3>4. Listening(p) => m \in Queued(p)'
      <4> SUFFICES ASSUME Listening(p) PROVE m \in Queued(p)'
        OBVIOUS
      <4>1. queue'[p] = Append(queue[p], event)
        BY <1>3
      <4>2. /\ Len(queue[p]) + 1 \in DOMAIN queue'[p]
            /\ queue'[p][Len(queue[p]) + 1] = event
        BY <1>2, <3>1, <4>1
      <4> QED
        BY <1>2, <4>2 DEF Queued, event
    <3>5. CASE Listening(p)
      BY <1>1, <3>1, <3>2, <3>3, <3>4, <3>5, GaplessKept
    <3>6. CASE ~Listening(p)
      BY <1>1, <3>6 DEF EventInv, Sockets, Gapless
    <3> QED
      BY <3>5, <3>6
  <2> QED
    BY <2>1 DEF NoMessageBetween, Gapless, Sending, Queued
<1> QED
  BY <1>5, <1>6, <1>7, <1>8 DEF EventInv

LEMMA AbandonMessageStep ==
  ASSUME EventInv, NEW r \in Requests, AbandonMessage(r)
  PROVE  EventInv'
<1> DEFINE m == req[r].message
<1>1. /\ At(r, "broadcast") /\ Goto(r, Idle) /\ muted' = muted \cup {m}
      /\ UNCHANGED <<status, untold, hushed, messages, socket, queue, blind, lagged, view, loaded, received>>
  BY DEF AbandonMessage, itemVars, Finish
<1>2. m \in Message
  BY <1>1, ReqTypes, EventTypes
<1>3. EventReqOK' /\ req'[r] = Idle /\ \A o \in Requests \ {r} : req'[o] = req[o]
  BY <1>1, EventTypes, EventMove, ReqStates
<1>4. EventTypeInv'
  BY <1>1, <1>2, <1>3 DEF EventInv, EventTypeInv, EventsTypeOK
<1>5. Ahead' /\ Hushed' /\ Sockets' /\ Told'
  BY <1>1, SocketsKept, ToldKept DEF EventInv, Ahead, Hushed
<1>6. NoMessageBetween'
  <2>1. Sending \subseteq Sending' \cup {m}
    BY <1>3 DEF Sending, InFlight, At
  <2>2. ASSUME NEW p \in Pages \ lagged PROVE Gapless(p)'
    <3>1. Gapless(p) /\ Queued(p)' = Queued(p)
      BY <1>1, GaplessPages DEF EventInv, Queued
    <3> QED
      BY <1>1, <2>1, <3>1, GaplessKept
  <2> QED
    BY <1>1, <2>2 DEF NoMessageBetween, Gapless, Sending, Queued
<1> QED
  BY <1>4, <1>5, <1>6 DEF EventInv

-----------------------------------------------------------------------------
(* The pages *)

\* A step of one page leaves the others, the rows and the requests alone.
LEMMA OtherPages ==
  ASSUME EventInv, NEW p \in Pages, NEW q \in Pages \ {p},
         UNCHANGED <<req, status, untold, hushed, messages, muted>>,
         socket'[q] = socket[q], queue'[q] = queue[q], view'[q] = view[q],
         loaded'[q] = loaded[q], received'[q] = received[q], q \in lagged <=> q \in lagged',
         q \in blind <=> q \in blind'
  PROVE  /\ q \notin lagged' => (\A i \in Items : untold'[i] \in Settled => Tells(q, i)') /\ Gapless(q)'
         /\ socket'[q].at # "open" => socket'[q].snapshot = {} /\ \A i \in Items : view'[q][i] = "none"
         /\ ~Listening(q)' => queue'[q] = <<>> /\ loaded'[q] = {}
<1>1. ASSUME q \notin lagged' PROVE Gapless(q)'
  <2>1. Gapless(q)
    BY <1>1, GaplessPages DEF EventInv
  <2> QED
    BY <2>1 DEF Gapless, Rows, Oldest, Queued, Sending, InFlight, At
<1>2. ASSUME q \notin lagged', NEW i \in Items, untold'[i] \in Settled PROVE Tells(q, i)'
  BY <1>2 DEF EventInv, Told, Tells, LastTold, LastSaid
<1>3. /\ socket'[q].at # "open" => socket'[q].snapshot = {} /\ \A i \in Items : view'[q][i] = "none"
      /\ ~Listening(q)' => queue'[q] = <<>> /\ loaded'[q] = {}
  BY DEF EventInv, Sockets, Listening
<1> QED
  BY <1>1, <1>2, <1>3

\* ... so what it needs is the invariant of this page.
LEMMA PageStep ==
  ASSUME EventInv, NEW p \in Pages,
         UNCHANGED <<req, status, untold, hushed, messages, muted>>,
         EventTypeInv', lagged' \in {lagged, lagged \ {p}}, blind' \in {blind, blind \ {p}, blind \cup {p}},
         \A q \in Pages \ {p} : /\ socket'[q] = socket[q] /\ queue'[q] = queue[q]
                               /\ view'[q] = view[q] /\ loaded'[q] = loaded[q]
                               /\ received'[q] = received[q],
         p \notin lagged' => (\A i \in Items : untold[i] \in Settled => Tells(p, i)') /\ Gapless(p)',
         socket'[p].at # "open" => socket'[p].snapshot = {} /\ \A i \in Items : view'[p][i] = "none",
         ~Listening(p)' => queue'[p] = <<>> /\ loaded'[p] = {}
  PROVE  EventInv'
<1>1. \A q \in Pages \ {p} :
         /\ q \notin lagged' => (\A i \in Items : untold'[i] \in Settled => Tells(q, i)') /\ Gapless(q)'
         /\ socket'[q].at # "open" => socket'[q].snapshot = {} /\ \A i \in Items : view'[q][i] = "none"
         /\ ~Listening(q)' => queue'[q] = <<>> /\ loaded'[q] = {}
  <2> SUFFICES ASSUME NEW q \in Pages \ {p}
               PROVE
         /\ q \notin lagged' => (\A i \in Items : untold'[i] \in Settled => Tells(q, i)') /\ Gapless(q)'
         /\ socket'[q].at # "open" => socket'[q].snapshot = {} /\ \A i \in Items : view'[q][i] = "none"
         /\ ~Listening(q)' => queue'[q] = <<>> /\ loaded'[q] = {}
    OBVIOUS
  <2>1. (q \in lagged <=> q \in lagged') /\ (q \in blind <=> q \in blind')
    OBVIOUS
  <2> QED
    BY <2>1, OtherPages
<1>2. Ahead' /\ Hushed'
  BY DEF EventInv, Ahead, Hushed
<1>3. Sockets'
  BY <1>1 DEF Sockets
<1>4. Told'
  BY <1>1 DEF Told
<1>5. \A q \in Pages \ lagged' : Gapless(q)'
  BY <1>1
<1>6. NoMessageBetween'
  BY <1>5 DEF NoMessageBetween, Gapless, Sending, Queued
<1> QED
  BY <1>2, <1>3, <1>4, <1>6 DEF EventInv

\* What a page has of the messages, if the step does not load any.
LEMMA PageGapless ==
  ASSUME EventInv, NEW p \in Pages \ lagged, UNCHANGED <<req, messages, muted>>, loaded'[p] = loaded[p],
         received[p] \cup Queued(p) \subseteq received'[p] \cup Queued(p)'
  PROVE  Gapless(p)'
<1>1. Gapless(p)
  BY GaplessPages DEF EventInv
<1> QED
  BY <1>1 DEF Gapless, Rows, Oldest, Sending, InFlight, At

\* A message in the queue is its head or stays in it.
LEMMA HeadOrTail ==
  ASSUME NEW p \in Pages, queue[p] \in Seq(Event), queue[p] # <<>>, queue'[p] = Tail(queue[p]),
         NEW m \in Queued(p)
  PROVE  Head(queue[p]) = [message |-> m] \/ m \in Queued(p)'
<1>1. PICK k \in DOMAIN queue[p] : m \in Message /\ queue[p][k] = [message |-> m]
  BY DEF Queued
<1>2. CASE k = 1
  BY <1>1, <1>2
<1>3. CASE k # 1
  <2>1. k - 1 \in DOMAIN queue'[p] /\ queue'[p][k - 1] = queue[p][k]
    BY <1>3
  <2> QED
    BY <1>1, <2>1 DEF Queued
<1> QED
  BY <1>2, <1>3

LEMMA SubscribeStep ==
  ASSUME EventInv, NEW p \in Pages, Subscribe(p)
  PROVE  EventInv'
<1>1. /\ socket[p] = Closed /\ socket' = [socket EXCEPT ![p].at = "subscribed"]
      /\ UNCHANGED <<req, status, untold, hushed, messages, muted, queue, blind, lagged, view, loaded, received>>
  BY DEF Subscribe, itemVars
<1>2. /\ socket[p].at = "closed" /\ socket[p].snapshot = {}
      /\ socket'[p].at = "subscribed" /\ socket'[p].snapshot = {}
      /\ \A q \in Pages \ {p} : socket'[q] = socket[q]
      /\ socket' \in [Pages -> [at : {"closed", "subscribed", "open"}, snapshot : SUBSET ItemUpdated]]
  BY <1>1, EventTypes DEF Closed
<1>3. EventTypeInv'
  BY <1>1, <1>2 DEF EventInv, EventTypeInv, EventsTypeOK, EventReqOK
<1>4. queue[p] = <<>> /\ loaded[p] = {} /\ \A i \in Items : view[p][i] = "none"
  BY <1>2 DEF EventInv, Sockets, Listening
<1>5. \A i \in Items : Tells(p, i)'
  BY <1>1, <1>2, <1>4 DEF Tells, LastTold, LastSaid, SaysLast
<1>6. Gapless(p)'
  BY <1>1, <1>4 DEF Gapless
<1>7. ~Listening(p)' => queue'[p] = <<>> /\ loaded'[p] = {}
  BY <1>2 DEF Listening
<1> QED
  BY <1>1, <1>2, <1>3, <1>4, <1>5, <1>6, <1>7, PageStep

LEMMA ReadItemsStep ==
  ASSUME EventInv, NEW p \in Pages, ReadItems(p)
  PROVE  EventInv'
<1>1. /\ socket[p].at = "subscribed"
      /\ UNCHANGED <<req, status, untold, hushed, messages, muted, queue, lagged, view, loaded, received>>
  BY DEF ReadItems, itemVars
<1>0. PICK shown \in {ItemsAtWork, {}} :
        /\ socket' = [socket EXCEPT ![p] = [at |-> "open", snapshot |-> shown]]
        /\ blind' \in {blind, blind \cup {p}}
        /\ shown = {} => p \in blind' \/ ItemsAtWork = {}
  BY DEF ReadItems
<1>2. ItemsAtWork \subseteq ItemUpdated
  <2>1. Active \subseteq Statuses
    BY DEF Statuses
  <2> QED
    BY <2>1, EventKinds DEF ItemsAtWork
<1>3. /\ socket'[p].at = "open" /\ socket'[p].snapshot = shown
      /\ \A q \in Pages \ {p} : socket'[q] = socket[q]
      /\ socket' \in [Pages -> [at : {"closed", "subscribed", "open"}, snapshot : SUBSET ItemUpdated]]
  BY <1>0, <1>2, EventTypes
<1>4. EventTypeInv'
  BY <1>0, <1>1, <1>3 DEF EventInv, EventTypeInv, EventsTypeOK, EventReqOK
<1>5. ASSUME p \notin lagged, NEW i \in Items, untold[i] \in Settled PROVE Tells(p, i)'
  <2>1. SaysLast(queue[p], i, LastTold(i)) /\ view[p][i] = "none"
    BY <1>1, <1>5 DEF EventInv, Told, Tells, Sockets
  <2>2. LastTold(i)' = LastTold(i)
    BY <1>1 DEF LastTold, LastSaid
  <2>3. \A event \in shown : event.item = i => event.status = LastTold(i)
    <3> SUFFICES ASSUME NEW event \in ItemsAtWork, event.item = i
                 PROVE  event.status = LastTold(i)
      OBVIOUS
    <3>1. event.status = status[i] /\ status[i] \in Active
      BY DEF ItemsAtWork
    <3>2. untold[i] = Said /\ i \notin hushed
      BY <1>5, <3>1 DEF EventInv, Ahead, Hushed, Settled, Active
    <3> QED
      BY <3>1, <3>2 DEF LastTold, Said
  <2>4. status[i] = "downloading" /\ p \notin blind' => \E event \in shown : event.item = i
    <3> SUFFICES ASSUME status[i] = "downloading", p \notin blind'
                 PROVE  \E event \in shown : event.item = i
      OBVIOUS
    <3> DEFINE event == [item |-> i, status |-> status[i]]
    <3>1. event \in ItemsAtWork /\ event.item = i
      BY DEF ItemsAtWork, Active
    <3> HIDE DEF event
    <3> QED
      BY <1>0, <3>1
  <2> QED
    BY <1>1, <1>3, <2>1, <2>2, <2>3, <2>4 DEF Tells
<1>6. p \notin lagged => Gapless(p)'
  BY <1>1, PageGapless DEF Queued
<1>7. ~Listening(p)' => queue'[p] = <<>> /\ loaded'[p] = {}
  BY <1>3 DEF Listening
<1> QED
  BY <1>0, <1>1, <1>3, <1>4, <1>5, <1>6, <1>7, PageStep

\* The snapshot has one status of an item, unless a later event tells another.
LEMMA SendItemStep ==
  ASSUME EventInv, NEW p \in Pages, SendItem(p)
  PROVE  EventInv'
<1>1. PICK event \in socket[p].snapshot :
        /\ socket' = [socket EXCEPT ![p].snapshot = @ \ {event}]
        /\ view' = [view EXCEPT ![p][event.item] = event.status]
  BY DEF SendItem, itemVars, Hear
<1>2. UNCHANGED <<req, status, untold, hushed, messages, muted, queue, blind, lagged, loaded, received>>
  BY DEF SendItem, itemVars
<1>3. socket[p].at = "open" /\ event \in ItemUpdated /\ event.item \in Items /\ event.status \in Statuses
  BY EventTypes, EventKinds DEF EventInv, Sockets
<1>4. /\ socket'[p].at = "open" /\ socket'[p].snapshot = socket[p].snapshot \ {event}
      /\ \A q \in Pages \ {p} : socket'[q] = socket[q]
      /\ socket' \in [Pages -> [at : {"closed", "subscribed", "open"}, snapshot : SUBSET ItemUpdated]]
  BY <1>1, <1>3, EventTypes
<1>5. /\ view'[p][event.item] = event.status
      /\ \A j \in Items : j # event.item => view'[p][j] = view[p][j]
      /\ \A q \in Pages \ {p} : view'[q] = view[q]
      /\ view' \in [Pages -> [Items -> Statuses \cup {"none"}]]
  BY <1>1, <1>3, EventTypes
<1>6. EventTypeInv'
  BY <1>2, <1>4, <1>5 DEF EventInv, EventTypeInv, EventsTypeOK, EventReqOK
<1>7. ASSUME p \notin lagged, NEW i \in Items, untold[i] \in Settled PROVE Tells(p, i)'
  <2>1. Tells(p, i)
    BY <1>7 DEF EventInv, Told
  <2>2. CASE i = event.item
    BY <1>2, <1>3, <1>4, <1>5, <2>1, <2>2 DEF Tells, LastTold, LastSaid
  <2>3. CASE i # event.item
    BY <1>2, <1>3, <1>4, <1>5, <2>1, <2>3 DEF Tells, LastTold, LastSaid
  <2> QED
    BY <2>2, <2>3
<1>8. p \notin lagged => Gapless(p)'
  BY <1>2, PageGapless DEF Queued
<1>9. ~Listening(p)' => queue'[p] = <<>> /\ loaded'[p] = {}
  BY <1>4 DEF Listening
<1> QED
  BY <1>2, <1>4, <1>5, <1>6, <1>7, <1>8, <1>9, PageStep

LEMMA ForwardStep ==
  ASSUME EventInv, NEW p \in Pages, Forward(p)
  PROVE  EventInv'
<1> DEFINE event == Head(queue[p])
<1>1. /\ socket[p].at = "open" /\ socket[p].snapshot = {} /\ queue[p] # <<>>
      /\ queue' = [queue EXCEPT ![p] = Tail(queue[p])]
      /\ UNCHANGED <<req, status, untold, hushed, messages, muted, socket, blind, lagged, loaded>>
  BY DEF Forward, itemVars
<1>2. /\ queue[p] \in Seq(Event) /\ event \in Event /\ Len(queue[p]) <= Backlog
      /\ Tail(queue[p]) \in Seq(Event) /\ Len(Tail(queue[p])) <= Backlog
  <2>1. queue[p] \in Seq(Event) /\ Len(queue[p]) \in Nat /\ Len(queue[p]) <= Backlog /\ Backlog \in Nat
    BY EventTypes, EventBounds
  <2>2. Len(Tail(queue[p])) = Len(queue[p]) - 1 /\ Tail(queue[p]) \in Seq(Event) /\ event \in Event
    BY <1>1, <2>1
  <2> QED
    BY <2>1, <2>2
<1>3. /\ queue'[p] = Tail(queue[p]) /\ \A q \in Pages \ {p} : queue'[q] = queue[q]
      /\ queue' \in [Pages -> Seq(Event)] /\ \A q \in Pages : Len(queue'[q]) <= Backlog
  BY <1>1, <1>2, EventTypes
<1> HIDE DEF event
<1>4. CASE event \in NewMessage
  <2>1. /\ received' = [received EXCEPT ![p] = @ \cup {event.message}] /\ view' = view
    BY <1>4, EventKinds DEF Forward, itemVars, event
  <2>2. /\ received' \in [Pages -> SUBSET Message] /\ received'[p] = received[p] \cup {event.message}
        /\ \A q \in Pages \ {p} : received'[q] = received[q]
    BY <1>4, <2>1, EventKinds, EventTypes
  <2>3. EventTypeInv'
    BY <1>1, <1>3, <2>1, <2>2 DEF EventInv, EventTypeInv, EventsTypeOK, EventReqOK, Event
  <2>4. ASSUME p \notin lagged, NEW i \in Items, untold[i] \in Settled PROVE Tells(p, i)'
    <3>1. Tells(p, i)
      BY <2>4 DEF EventInv, Told
    <3>2. ~About(event, i)
      BY <1>4, EventKinds DEF About
    <3>3. /\ SaysLast(Tail(queue[p]), i, LastTold(i))
          /\ Silent(Tail(queue[p]), i) => Silent(queue[p], i)
      BY <1>1, <1>2, <3>1, <3>2, TakeEvent DEF Tells, LastTold, LastSaid, event
    <3> QED
      BY <1>1, <1>3, <2>1, <3>1, <3>3 DEF Tells, LastTold, LastSaid
  <2>5. p \notin lagged => Gapless(p)'
    <3>1. \A m \in Queued(p) : m = event.message \/ m \in Queued(p)'
      BY <1>1, <1>2, <1>3, <1>4, HeadOrTail, EventKinds DEF event
    <3> QED
      BY <1>1, <2>2, <3>1, PageGapless
  <2> QED
    BY <1>1, <1>3, <2>1, <2>2, <2>3, <2>4, <2>5, PageStep DEF Listening
<1>5. CASE event \in ItemUpdated
  <2>1. /\ view' = [view EXCEPT ![p][event.item] = event.status] /\ received' = received
    BY <1>5, EventKinds DEF Forward, itemVars, Hear, event
  <2>2. /\ view'[p][event.item] = event.status
        /\ \A j \in Items : j # event.item => view'[p][j] = view[p][j]
        /\ \A q \in Pages \ {p} : view'[q] = view[q]
        /\ view' \in [Pages -> [Items -> Statuses \cup {"none"}]]
    BY <1>5, <2>1, EventKinds, EventTypes
  <2>3. EventTypeInv'
    BY <1>1, <1>3, <2>1, <2>2 DEF EventInv, EventTypeInv, EventsTypeOK, EventReqOK, Event
  <2>4. ASSUME p \notin lagged, NEW i \in Items, untold[i] \in Settled PROVE Tells(p, i)'
    <3>1. Tells(p, i)
      BY <2>4 DEF EventInv, Told
    <3>2. /\ SaysLast(Tail(queue[p]), i, LastTold(i))
          /\ Silent(Tail(queue[p]), i) /\ ~About(event, i) => Silent(queue[p], i)
          /\ Silent(Tail(queue[p]), i) /\ About(event, i) => event.status = LastTold(i)
      BY <1>1, <1>2, <3>1, TakeEvent DEF Tells, LastTold, LastSaid, event
    <3>3. About(event, i) <=> event.item = i
      BY <1>5 DEF About
    <3> QED
      BY <1>1, <1>3, <2>2, <3>1, <3>2, <3>3 DEF Tells, LastTold, LastSaid
  <2>5. p \notin lagged => Gapless(p)'
    <3>1. Queued(p) \subseteq Queued(p)'
      BY <1>1, <1>2, <1>3, <1>5, HeadOrTail, EventKinds DEF event
    <3> QED
      BY <1>1, <2>1, <3>1, PageGapless
  <2> QED
    BY <1>1, <1>3, <2>1, <2>2, <2>3, <2>4, <2>5, PageStep DEF Listening
<1> QED
  BY <1>2, <1>4, <1>5 DEF Event

LEMMA CloseStep ==
  ASSUME EventInv, NEW p \in Pages, Close(p)
  PROVE  EventInv'
<1>1. /\ socket'   = [socket   EXCEPT ![p] = Closed]
      /\ queue'    = [queue    EXCEPT ![p] = <<>>]
      /\ blind'    = blind \ {p}
      /\ lagged'   = lagged \ {p}
      /\ view'     = [view     EXCEPT ![p] = [i \in Items |-> "none"]]
      /\ loaded'   = [loaded   EXCEPT ![p] = {}]
      /\ received' = [received EXCEPT ![p] = {}]
      /\ UNCHANGED <<req, status, untold, hushed, messages, muted>>
  BY DEF Close, itemVars
<1>2. /\ socket'[p].at = "closed" /\ socket'[p].snapshot = {} /\ queue'[p] = <<>>
      /\ loaded'[p] = {} /\ \A i \in Items : view'[p][i] = "none"
      /\ \A q \in Pages \ {p} : /\ socket'[q] = socket[q] /\ queue'[q] = queue[q]
                               /\ view'[q] = view[q] /\ loaded'[q] = loaded[q]
                               /\ received'[q] = received[q]
  BY <1>1, EventTypes DEF Closed
<1>3. EventTypeInv'
  <2>1. <<>> \in Seq(Event) /\ Len(<<>>) <= Backlog
    BY EventBounds
  <2>2. /\ socket' \in [Pages -> [at : {"closed", "subscribed", "open"}, snapshot : SUBSET ItemUpdated]]
        /\ queue' \in [Pages -> Seq(Event)] /\ \A q \in Pages : Len(queue'[q]) <= Backlog
        /\ view' \in [Pages -> [Items -> Statuses \cup {"none"}]]
        /\ loaded' \in [Pages -> SUBSET Message] /\ received' \in [Pages -> SUBSET Message]
        /\ lagged' \subseteq Pages /\ blind' \subseteq Pages
    BY <1>1, <2>1, EventTypes DEF Closed
  <2> QED
    BY <1>1, <2>2 DEF EventInv, EventTypeInv, EventsTypeOK, EventReqOK, Event
<1>4. \A i \in Items : Tells(p, i)'
  BY <1>2 DEF Tells, LastTold, LastSaid, SaysLast
<1>5. Gapless(p)'
  BY <1>2 DEF Gapless
<1> QED
  BY <1>1, <1>2, <1>3, <1>4, <1>5, PageStep

\* Loading changes what a page has of the messages and nothing else.
LEMMA LoadStep ==
  ASSUME EventInv, NEW p \in Pages, Listening(p), NEW more \in SUBSET Message,
         loaded' = [loaded EXCEPT ![p] = more],
         UNCHANGED <<req, status, untold, hushed, messages, muted, socket, queue, blind, lagged, view, received>>,
         p \notin lagged => Gapless(p)'
  PROVE  EventInv'
<1>1. /\ loaded'[p] = more /\ \A q \in Pages \ {p} : loaded'[q] = loaded[q]
      /\ loaded' \in [Pages -> SUBSET Message]
  BY EventTypes
<1>2. EventTypeInv'
  BY <1>1 DEF EventInv, EventTypeInv, EventsTypeOK, EventReqOK
<1>3. ASSUME p \notin lagged, NEW i \in Items, untold[i] \in Settled PROVE Tells(p, i)'
  BY <1>3 DEF EventInv, Told, Tells, LastTold, LastSaid
<1>4. /\ socket'[p].at # "open" => socket'[p].snapshot = {} /\ \A i \in Items : view'[p][i] = "none"
      /\ Listening(p)'
  BY DEF EventInv, Sockets, Listening
<1> QED
  BY <1>1, <1>2, <1>3, <1>4, PageStep

LEMMA LoadMessagesStep ==
  ASSUME EventInv, NEW p \in Pages, LoadMessages(p)
  PROVE  EventInv'
<1>1. /\ Listening(p) /\ loaded' = [loaded EXCEPT ![p] = Newest(Rows)]
      /\ UNCHANGED <<req, status, untold, hushed, messages, muted, socket, queue, blind, lagged, view, received>>
  BY DEF LoadMessages, itemVars
<1>2. Rows \subseteq Message /\ Newest(Rows) \subseteq Rows /\ Message \subseteq Nat
  BY RowsAreMessages, EventBounds DEF EventInv, Newest, Message
<1>3. loaded'[p] = Newest(Rows)
  BY <1>1, EventTypes
<1>4. Gapless(p)'
  <2> SUFFICES ASSUME Newest(Rows) # {}, NEW m \in Rows, m >= Oldest(Newest(Rows))
               PROVE  m \in Newest(Rows)
    BY <1>1, <1>3 DEF Gapless, Rows, Oldest
  <2> DEFINE o == Oldest(Newest(Rows))
  <2>1. o \in Newest(Rows)
    BY <1>2, OldestIsLeast
  <2>2. m >= o
    OBVIOUS
  <2> HIDE DEF o
  <2>3. o \in Nat /\ m \in Nat
    BY <1>2, <2>1
  <2>4. o <= m
    BY <2>2, <2>3
  <2> QED
    BY <1>2, <2>1, <2>4, NewestHasNoGap
<1> QED
  BY <1>1, <1>2, <1>4, LoadStep

\* The older page ends just before the oldest message on screen.
LEMMA LoadOlderStep ==
  ASSUME EventInv, NEW p \in Pages, LoadOlder(p)
  PROVE  EventInv'
<1> DEFINE ids  == Before(p)
           more == loaded[p] \cup Newest(ids)
           old  == Oldest(loaded[p])
           new  == Oldest(more)
<1>1. /\ loaded[p] # {} /\ loaded' = [loaded EXCEPT ![p] = more]
      /\ UNCHANGED <<req, status, untold, hushed, messages, muted, socket, queue, blind, lagged, view, received>>
  BY DEF LoadOlder, itemVars
<1>2. Listening(p)
  BY <1>1 DEF EventInv, Sockets
<1>3. /\ Rows \subseteq Message /\ Message \subseteq Nat /\ loaded[p] \subseteq Message
      /\ ids \subseteq Rows /\ Newest(ids) \subseteq ids /\ more \subseteq Message
  BY RowsAreMessages, EventTypes, EventBounds DEF EventInv, Newest, Before, Message
<1>4. loaded'[p] = more
  BY <1>1, EventTypes
<1>5. /\ old \in loaded[p] /\ new \in more /\ (\A n \in more : new <= n)
      /\ \A n \in loaded[p] : old <= n
  BY <1>1, <1>3, OldestIsLeast
<1>6. \A m \in ids : m < old
  BY DEF Before
<1>7. \A m \in Rows : m < old => m \in ids
  BY DEF Before
<1>8. ASSUME p \notin lagged PROVE Gapless(p)'
  <2>1. Gapless(p)
    BY <1>8, GaplessPages DEF EventInv
  <2> SUFFICES ASSUME NEW m \in Rows, m >= new
               PROVE  m \in more \cup received[p] \cup Queued(p) \cup Sending \cup muted
    BY <1>1, <1>4 DEF Gapless, Rows, Oldest, Queued, Sending, InFlight, At
  <2>2. CASE m >= old
    BY <1>1, <2>1, <2>2 DEF Gapless
  <2>3. CASE ~(m >= old)
    <3>1. m \in Nat /\ old \in Nat /\ new \in Nat
      BY <1>3, <1>5
    <3> HIDE DEF old, new, ids
    <3>2. m \in ids /\ new \notin loaded[p]
      BY <1>5, <1>7, <2>3, <3>1
    <3>3. new \in Newest(ids)
      BY <1>5, <3>2
    <3>4. new <= m
      BY <3>1
    <3>5. m \in Newest(ids)
      BY <1>3, <3>2, <3>3, <3>4, NewestHasNoGap
    <3> QED
      BY <3>5
  <2> QED
    BY <2>2, <2>3
<1> QED
  BY <1>1, <1>2, <1>3, <1>8, LoadStep

-----------------------------------------------------------------------------
LEMMA EventInitInv == EventsInit /\ RequestsInit => EventInv
<1> SUFFICES ASSUME EventsInit, RequestsInit PROVE EventInv
  OBVIOUS
<1> USE DEF EventsInit, RequestsInit
<1>1. EventTypeInv
  <2>1. <<>> \in Seq(Event) /\ Len(<<>>) <= Backlog
    BY EventBounds
  <2>2. /\ status \in [Items -> Statuses \cup {"none"}] /\ untold \in [Items -> Statuses \cup {Said}]
        /\ messages \in 0..MaxMessage /\ muted \subseteq Message /\ lagged \subseteq Pages
        /\ hushed \subseteq Items /\ blind \subseteq Pages
    BY EventBounds
  <2>3. /\ socket \in [Pages -> [at : {"closed", "subscribed", "open"}, snapshot : SUBSET ItemUpdated]]
        /\ view \in [Pages -> [Items -> Statuses \cup {"none"}]]
        /\ loaded \in [Pages -> SUBSET Message] /\ received \in [Pages -> SUBSET Message]
    BY DEF Closed
  <2>4. queue \in [Pages -> Seq(Event)] /\ \A p \in Pages : Len(queue[p]) <= Backlog
    BY <2>1
  <2>5. EventReqOK
    BY ReqStates DEF EventReqOK
  <2> QED
    BY <2>2, <2>3, <2>4, <2>5, Typed
<1>2. Ahead /\ Hushed
  BY DEF Ahead, Hushed
<1>3. Sockets
  BY DEF Sockets, Closed
<1>4. Told
  BY DEF Told, Tells, LastTold, LastSaid, SaysLast, Closed
<1>5. NoMessageBetween
  BY DEF NoMessageBetween
<1> QED
  BY <1>1, <1>2, <1>3, <1>4, <1>5 DEF EventInv

LEMMA StutterStep ==
  ASSUME EventInv, UNCHANGED <<req, eventVars>>
  PROVE  EventInv'
<1> USE DEF eventVars, itemVars
<1>1. EventTypeInv'
  BY DEF EventInv, EventTypeInv, EventsTypeOK, EventReqOK
<1>2. Ahead' /\ Hushed' /\ Sockets' /\ Told'
  BY SocketsKept, ToldKept DEF EventInv, Ahead, Hushed
<1>3. ASSUME NEW p \in Pages \ lagged PROVE Gapless(p)'
  <2>1. Gapless(p)
    BY GaplessPages DEF EventInv
  <2> QED
    BY <2>1 DEF Gapless, Rows, Oldest, Queued, Sending, InFlight, At
<1>4. NoMessageBetween'
  BY <1>3 DEF NoMessageBetween, Gapless, Sending, Queued
<1> QED
  BY <1>1, <1>2, <1>4 DEF EventInv

LEMMA EventNextInv == EventInv /\ [EventsNext]_<<req, eventVars>> => EventInv'
<1> SUFFICES ASSUME EventInv, [EventsNext]_<<req, eventVars>> PROVE EventInv'
  OBVIOUS
<1>1. CASE UNCHANGED <<req, eventVars>>
  BY <1>1, StutterStep
<1>2. ASSUME NEW i \in Items, WriteStatus(i) \/ FailPlaceholder(i) \/ AnnounceStatus(i) \/ Unread(i)
      PROVE  EventInv'
  BY <1>2, WriteStatusStep, HushedStep, AnnounceStatusStep
<1>3. ASSUME NEW r \in Requests, InsertMessage(r) \/ BroadcastMessage(r) \/ AbandonMessage(r)
      PROVE  EventInv'
  BY <1>3, InsertMessageStep, BroadcastMessageStep, AbandonMessageStep
<1>4. ASSUME NEW p \in Pages,
             \/ Subscribe(p) \/ ReadItems(p) \/ SendItem(p) \/ Forward(p) \/ Close(p)
             \/ LoadMessages(p) \/ LoadOlder(p)
      PROVE  EventInv'
  BY <1>4, SubscribeStep, ReadItemsStep, SendItemStep, ForwardStep, CloseStep, LoadMessagesStep,
     LoadOlderStep
<1> QED
  BY <1>1, <1>2, <1>3, <1>4 DEF EventsNext

\* The inductive invariant: what a page is yet to be told agrees with the rows,
\* and it has every message between those it shows.
THEOREM EventInvariance == EventsSpec => []EventInv
<1> QED
  BY EventInitInv, EventNextInv, PTL DEF EventsSpec

\* The types of the rows, the queues, the pages and the handlers.
THEOREM EventTypeCorrect == EventsSpec => [](EventsTypeOK /\ EventReqOK)
<1>1. EventInv => EventsTypeOK /\ EventReqOK
  BY DEF EventInv, EventTypeInv
<1> QED
  BY EventInvariance, <1>1, PTL

\* A page that has read everything sent to it was told of every row.
LEMMA ToldPages == EventInv => PageShowsRow
<1> SUFFICES ASSUME EventInv, NEW p \in Pages \ lagged, NEW i \in Items,
                    socket[p].at = "open", socket[p].snapshot = {}, queue[p] = <<>>, untold[i] = Said
             PROVE  \/ view[p][i] = status[i]
                    \/ view[p][i] = "none" /\ (status[i] \notin Active \ {"pending"} \/ p \in blind)
                    \/ i \in hushed /\ view[p][i] = LastSaid(i)
  BY DEF PageShowsRow
<1>1. Tells(p, i)
  BY DEF EventInv, Told, Settled
<1>2. Silent(queue[p], i)
  BY DEF Silent
<1>3. Active \ {"pending"} = {"downloading"}
  BY DEF Active
<1>4. LastTold(i) = (IF i \in hushed THEN LastSaid(i) ELSE status[i])
  BY DEF LastTold, Said
<1> QED
  BY <1>1, <1>2, <1>3, <1>4 DEF Tells

\* handle_socket: a page that has read everything sent to it shows the items
\* as their rows have them, however the snapshot and the events interleave; an
\* item whose end is announced to nobody, as it was last announced.
THEOREM PagesShowRows == EventsSpec => []PageShowsRow
<1> QED
  BY EventInvariance, ToldPages, PTL

\* get_messages, get_thread and the stream together: no message falls between
\* the pages that were loaded and what the socket forwards.
THEOREM NoMessageIsMissed == EventsSpec => []NoMessageBetween
<1>1. EventInv => NoMessageBetween
  BY DEF EventInv
<1> QED
  BY EventInvariance, <1>1, PTL
=============================================================================
