----------------------------- MODULE EventStream -----------------------------
(***************************************************************************)
(* What an open page is told: the broadcast channel of WsEvents, the       *)
(* sockets of src/src/api/ws.rs, the status changes of items the queue     *)
(* announces, and the messages of the local chat and of direct threads     *)
(* (src/src/api/local_chat.rs, src/src/api/direct_messages.rs).            *)
(*                                                                         *)
(* An item's status is written to its row first and announced afterwards;  *)
(* so is a message.  A socket subscribes, sends the items at work once,    *)
(* and forwards.  External: the page, which opens its socket and then      *)
(* loads a page of messages and older ones when it scrolls.  Two ends of   *)
(* an item are announced to nobody, and a snapshot may fail: the history   *)
(* variables hushed and blind remember them.  Left out: events that tell   *)
(* of no row (progress, search results), the deletion of items, which is   *)
(* not announced, updates of a row that fail, and read marks.              *)
(***************************************************************************)
EXTENDS Requests, Naturals, Sequences, FiniteSets

CONSTANTS Items, Pages,
          MaxMessage,   \* bound on the messages sent
          PageSize,     \* messages per request: 50
          Backlog       \* capacity of the broadcast channel: 256

ASSUME EventBounds == MaxMessage \in Nat /\ PageSize \in Nat \ {0} /\ Backlog \in Nat \ {0}

VARIABLES
  status,     \* download_status of the items
  untold,     \* the status of an item that its writer has yet to announce
  messages,   \* ids of the rows: 1 .. messages
  hushed,     \* history: items whose end was announced to nobody
  muted,      \* messages whose sender hung up before the announcement
  socket,     \* place of each page's socket, and the items its snapshot read
  queue,      \* its receiver of the broadcast channel
  blind,      \* history: pages whose snapshot failed
  lagged,     \* the channel dropped events it had not received
  view,       \* the page: status of the items it was told, ...
  loaded,     \* ... messages it loaded, ...
  received    \* ... and messages it was told

itemVars  == <<status, untold, hushed>>
eventVars == <<itemVars, messages, muted, socket, queue, blind, lagged, view, loaded, received>>

Message  == 1..MaxMessage
Active   == {"pending", "downloading"}   \* and queued, which no item reaches
Statuses == Active \cup {"completed", "failed"}
Said     == "told"      \* nothing left to announce

ItemUpdated == [item : Items, status : Statuses]
NewMessage  == [message : Message]

EventsTypeOK ==
  /\ status   \in [Items -> Statuses \cup {"none"}]
  /\ untold   \in [Items -> Statuses \cup {Said}]
  /\ hushed   \subseteq Items
  /\ messages \in 0..MaxMessage
  /\ muted    \subseteq Message
  /\ socket   \in [Pages -> [at : {"closed", "subscribed", "open"}, snapshot : SUBSET ItemUpdated]]
  /\ queue    \in [Pages -> Seq(ItemUpdated \cup NewMessage)]
  /\ \A p \in Pages : Len(queue[p]) <= Backlog
  /\ blind    \subseteq Pages
  /\ lagged   \subseteq Pages
  /\ view     \in [Pages -> [Items -> Statuses \cup {"none"}]]
  /\ loaded   \in [Pages -> SUBSET Message]
  /\ received \in [Pages -> SUBSET Message]

EventRequest == {Idle} \cup [at : {"broadcast"}, message : Message]

Closed == [at |-> "closed", snapshot |-> {}]
Listening(p) == socket[p].at # "closed"

EventsInit ==
  /\ status = [i \in Items |-> "none"] /\ untold = [i \in Items |-> Said] /\ hushed = {}
  /\ messages = 0 /\ muted = {}
  /\ socket = [p \in Pages |-> Closed] /\ queue = [p \in Pages |-> <<>>]
  /\ blind = {} /\ lagged = {}
  /\ view = [p \in Pages |-> [i \in Items |-> "none"]]
  /\ loaded = [p \in Pages |-> {}] /\ received = [p \in Pages |-> {}]

\* broadcast::Sender::send: every receiver gets the event; one that is full
\* loses its oldest.
Broadcast(event) ==
  /\ queue' = [p \in Pages |->
       IF ~Listening(p) THEN queue[p]
       ELSE IF Len(queue[p]) < Backlog THEN Append(queue[p], event)
       ELSE Append(Tail(queue[p]), event)]
  /\ lagged' = lagged \cup {p \in Pages : Listening(p) /\ Len(queue[p]) = Backlog}

-----------------------------------------------------------------------------
(* An item, as the worker and the transfer monitor change it *)

\* A failure may be written twice, by the worker and by the monitor.
NextStatus ==
  [s \in Statuses \cup {"none"} |->
     CASE s = "none"        -> {"pending"}
       [] s = "pending"     -> {"downloading"}
       [] s = "downloading" -> {"completed", "failed"}
       [] s = "failed"      -> {"failed"}
       [] OTHER             -> {}]

\* create_item tells nobody, the other writers announce what they wrote.  A
\* failed search's placeholder has no transfer, nobody writes it again.
WriteStatus(i) ==
  /\ untold[i] = Said /\ i \notin hushed
  /\ \E s \in NextStatus[status[i]] :
       /\ status' = [status EXCEPT ![i] = s]
       /\ untold' = [untold EXCEPT ![i] = IF s = "pending" THEN Said ELSE s]
  /\ UNCHANGED <<req, hushed, messages, muted, socket, queue, blind, lagged, view, loaded, received>>

\* The placeholder item of a list's search that failed for good: created as
\* pending, then failed, and what is announced is the search.
FailPlaceholder(i) ==
  /\ status[i] = "pending" /\ untold[i] = Said
  /\ status' = [status EXCEPT ![i] = "failed"]
  /\ hushed' = hushed \cup {i}
  /\ UNCHANGED <<req, untold, messages, muted, socket, queue, blind, lagged, view, loaded, received>>

AnnounceStatus(i) ==
  /\ untold[i] # Said
  /\ Broadcast([item |-> i, status |-> untold[i]])
  /\ untold' = [untold EXCEPT ![i] = Said]
  /\ UNCHANGED <<req, status, hushed, messages, muted, socket, blind, view, loaded, received>>

\* A completed item that cannot be read back is not announced.
Unread(i) ==
  /\ untold[i] = "completed"
  /\ untold' = [untold EXCEPT ![i] = Said]
  /\ hushed' = hushed \cup {i}
  /\ UNCHANGED <<req, status, messages, muted, socket, queue, blind, lagged, view, loaded, received>>

-----------------------------------------------------------------------------
(* A message: INSERT, read it back with the names, broadcast *)

InsertMessage(r) ==
  /\ Arrives(r) /\ messages < MaxMessage
  /\ messages' = messages + 1
  /\ Goto(r, [at |-> "broadcast", message |-> messages + 1])
  /\ UNCHANGED <<itemVars, muted, socket, queue, blind, lagged, view, loaded, received>>

BroadcastMessage(r) ==
  /\ At(r, "broadcast")
  /\ Broadcast([message |-> req[r].message])
  /\ Finish(r)
  /\ UNCHANGED <<itemVars, messages, muted, socket, blind, view, loaded, received>>

AbandonMessage(r) ==
  /\ At(r, "broadcast") /\ Finish(r)
  /\ muted' = muted \cup {req[r].message}
  /\ UNCHANGED <<itemVars, messages, socket, queue, blind, lagged, view, loaded, received>>

-----------------------------------------------------------------------------
(* handle_socket *)

Subscribe(p) ==
  /\ socket[p] = Closed
  /\ socket' = [socket EXCEPT ![p].at = "subscribed"]
  /\ UNCHANGED <<req, itemVars, messages, muted, queue, blind, lagged, view, loaded, received>>

ItemsAtWork == {[item |-> i, status |-> status[i]] : i \in {j \in Items : status[j] \in Active}}

\* get_all_items, of which the items at work are sent; none if it fails.
ReadItems(p) ==
  /\ socket[p].at = "subscribed"
  /\ \/ /\ socket' = [socket EXCEPT ![p] = [at |-> "open", snapshot |-> ItemsAtWork]]
        /\ UNCHANGED blind
     \/ /\ socket' = [socket EXCEPT ![p] = [at |-> "open", snapshot |-> {}]]
        /\ blind'  = blind \cup {p}
  /\ UNCHANGED <<req, itemVars, messages, muted, queue, lagged, view, loaded, received>>

Hear(p, event) == view' = [view EXCEPT ![p][event.item] = event.status]

SendItem(p) ==
  /\ \E event \in socket[p].snapshot :
       /\ socket' = [socket EXCEPT ![p].snapshot = @ \ {event}]
       /\ Hear(p, event)
  /\ UNCHANGED <<req, itemVars, messages, muted, queue, blind, lagged, loaded, received>>

\* Faulty variant: events are forwarded beside the snapshot.
ForwardBeside(p) ==
  /\ socket[p].at = "open" /\ queue[p] # <<>>
  /\ LET event == Head(queue[p])
     IN IF "message" \in DOMAIN event
        THEN /\ received' = [received EXCEPT ![p] = @ \cup {event.message}]
             /\ UNCHANGED view
        ELSE Hear(p, event) /\ UNCHANGED received
  /\ queue' = [queue EXCEPT ![p] = Tail(@)]
  /\ UNCHANGED <<req, itemVars, messages, muted, socket, blind, lagged, loaded>>

Forward(p) ==
  /\ socket[p].at = "open" /\ socket[p].snapshot = {} /\ queue[p] # <<>>
  /\ LET event == Head(queue[p])
     IN IF "message" \in DOMAIN event
        THEN /\ received' = [received EXCEPT ![p] = @ \cup {event.message}]
             /\ UNCHANGED view
        ELSE Hear(p, event) /\ UNCHANGED received
  /\ queue' = [queue EXCEPT ![p] = Tail(@)]
  /\ UNCHANGED <<req, itemVars, messages, muted, socket, blind, lagged, loaded>>

\* The page goes; a page that comes back starts afresh.
Close(p) ==
  /\ Listening(p)
  /\ socket'   = [socket   EXCEPT ![p] = Closed]
  /\ queue'    = [queue    EXCEPT ![p] = <<>>]
  /\ blind'    = blind \ {p}
  /\ lagged'   = lagged \ {p}
  /\ view'     = [view     EXCEPT ![p] = [i \in Items |-> "none"]]
  /\ loaded'   = [loaded   EXCEPT ![p] = {}]
  /\ received' = [received EXCEPT ![p] = {}]
  /\ UNCHANGED <<req, itemVars, messages, muted>>

-----------------------------------------------------------------------------
(* get_messages and get_thread: the newest PageSize rows, or those before an id *)

Newest(ids) == {m \in ids : Cardinality({n \in ids : n > m}) < PageSize}
Rows        == 1..messages
Oldest(ids) == CHOOSE m \in ids : \A n \in ids : m <= n

LoadMessages(p) ==
  /\ Listening(p) /\ loaded[p] = {} /\ messages > 0
  /\ loaded' = [loaded EXCEPT ![p] = Newest(Rows)]
  /\ UNCHANGED <<req, itemVars, messages, muted, socket, queue, blind, lagged, view, received>>

Before(p) == {m \in Rows : m < Oldest(loaded[p])}

\* Faulty variant: the page is cut from the wrong end (ORDER BY id ASC).
LoadAscending(p) ==
  /\ loaded[p] # {}
  /\ loaded' = [loaded EXCEPT ![p] =
       @ \cup {m \in Before(p) : Cardinality({n \in Before(p) : n < m}) < PageSize}]
  /\ UNCHANGED <<req, itemVars, messages, muted, socket, queue, blind, lagged, view, received>>

LoadOlder(p) ==
  /\ loaded[p] # {}
  /\ loaded' = [loaded EXCEPT ![p] = @ \cup Newest(Before(p))]
  /\ UNCHANGED <<req, itemVars, messages, muted, socket, queue, blind, lagged, view, received>>

-----------------------------------------------------------------------------
EventsNext ==
  \/ \E i \in Items : WriteStatus(i) \/ FailPlaceholder(i) \/ AnnounceStatus(i) \/ Unread(i)
  \/ \E r \in Requests : InsertMessage(r) \/ BroadcastMessage(r) \/ AbandonMessage(r)
  \/ \E p \in Pages : \/ Subscribe(p) \/ ReadItems(p) \/ SendItem(p) \/ Forward(p) \/ Close(p)
                      \/ LoadMessages(p) \/ LoadOlder(p)

EventsSpec == EventsInit /\ RequestsInit /\ [][EventsNext]_<<req, eventVars>>

-----------------------------------------------------------------------------
(* Properties *)

\* What the pages were last told of an item whose end nobody announced: a
\* placeholder was only ever pending, what was not read back was downloading.
LastSaid(i) == IF status[i] = "failed" THEN "pending" ELSE "downloading"

\* A page that was told everything sent to it shows an item as its row has
\* it, or not at all if the item is new or had ended before the page came, or
\* if the snapshot failed; in particular no item is shown at work for ever
\* because it ended between the snapshot and the first event.  Only an item
\* whose end is announced to nobody is, and as it was last announced.
PageShowsRow ==
  \A p \in Pages \ lagged, i \in Items :
    socket[p].at = "open" /\ socket[p].snapshot = {} /\ queue[p] = <<>> /\ untold[i] = Said =>
      \/ view[p][i] = status[i]
      \/ view[p][i] = "none" /\ (status[i] \notin Active \ {"pending"} \/ p \in blind)
      \/ i \in hushed /\ view[p][i] = LastSaid(i)

\* No message falls between the loaded pages and the stream: from the oldest
\* message it loaded, a page has every message, in its stream's queue if not
\* yet on screen, or the message was not announced yet (or ever: the sender
\* hung up).
NoMessageBetween ==
  \A p \in Pages \ lagged :
    LET queued == {m \in Message : \E k \in DOMAIN queue[p] : queue[p][k] = [message |-> m]}
        sending == {req[r].message : r \in InFlight("broadcast")}
    IN loaded[p] # {} =>
         {m \in Rows : m >= Oldest(loaded[p])}
           \subseteq loaded[p] \cup received[p] \cup queued \cup sending \cup muted
=============================================================================
