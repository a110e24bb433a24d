------------------------------ MODULE Searches ------------------------------
(***************************************************************************)
(* SoulseekClient::search and the tasks that bring it results              *)
(* (src/src/protocol/client.rs): the handler of ConnectToPeer "P" messages *)
(* with its fifty permits, the listener, and the dispatch of a peer's      *)
(* message, which puts a result into the bucket of its token if the token  *)
(* is active.  The queue then ranks what the search returned.              *)
(*                                                                         *)
(* A token is random and identified with its search.  A response is one    *)
(* P connection of one peer.  Left out: peer messages other than search    *)
(* results (UploadService handles them), and the permit such a message     *)
(* keeps while the peer does not read the answer.                          *)
(***************************************************************************)
EXTENDS FileSelection, SequencesExt

CONSTANTS
  Searches,    \* calls of search
  Responses,   \* answers of peers
  SearchOf,    \* the search a response is for
  OfferOf,     \* what it offers
  Oversized,   \* responses with more files than are parsed (100)
  FilterOf,    \* the format the queue asks for
  Permits,     \* 50 in the code
  Capacity,    \* of the notification channel: 256
  Few, Many    \* results that end a search early: 5 and 10

Nobody == "nobody"

ASSUME SearchOfAssumption == SearchOf \in [Responses -> Searches]
ASSUME OfferOfAssumption == OfferOf \in [Responses -> Offer]
ASSUME OversizedAssumption == Oversized \subseteq Responses
ASSUME LimitsAssumption ==
  /\ Permits \in Nat \ {0} /\ Capacity \in Nat \ {0}
  /\ Few \in Nat /\ Many \in Nat
ASSUME NobodyAssumption == Nobody \notin Responses

VARIABLES
  search,    \* each call: its place, its clock and what it has collected
  active,    \* active_search_tokens
  buckets,   \* the keys of search_results ...
  bucket,    \* ... and the result lists
  inbox,     \* each call's receiver of result_notify
  resp,      \* where each response is
  holders,   \* connection tasks that hold a permit
  locked,    \* who holds the mutex of active_search_tokens
  sharing,   \* the sharing service is set
  early      \* history: accepted before its search stopped collecting

searchVars    == <<search, inbox>>
sharedVars    == <<active, buckets, bucket>>
peerVars      == <<resp, holders, locked, sharing>>
searchingVars == <<searchVars, sharedVars, peerVars, early>>

SearchLabels ==
  {"idle", "bucket", "send", "check", "wait", "collect",
   "grace", "untoken", "unbucket", "results", "empty", "notsent"}
Ages   == {"young", "mid", "late", "over"}    \* 3 s, 7 s, the time limit
Places == {"unsent", "brokered", "connecting", "told", "reading", "checked",
           "delivered", "dropped"}

SearchesTypeOK ==
  /\ search  \in [Searches -> [pc : SearchLabels, age : Ages, quiet : BOOLEAN,
                               got : Seq(Responses)]]
  /\ active  \subseteq Searches
  /\ buckets \subseteq Searches
  /\ bucket  \in [Searches -> Seq(Responses)]
  /\ inbox   \in [Searches -> [msgs : Seq(Searches), lagged : BOOLEAN]]
  /\ resp    \in [Responses -> Places]
  /\ holders \subseteq Responses
  /\ locked  \in Responses \cup {Nobody}
  /\ sharing \in BOOLEAN
  /\ early   \subseteq Responses

NoMail == [msgs |-> <<>>, lagged |-> FALSE]

SearchesInit ==
  /\ search  = [s \in Searches |->
                  [pc |-> "idle", age |-> "young", quiet |-> FALSE, got |-> <<>>]]
  /\ active  = {} /\ buckets = {}
  /\ bucket  = [s \in Searches |-> <<>>]
  /\ inbox   = [s \in Searches |-> NoMail]
  /\ resp    = [r \in Responses |-> "unsent"]
  /\ holders = {} /\ locked = Nobody
  /\ sharing \in BOOLEAN
  /\ early   = {}

SearchAt(s, label)   == search[s].pc = label
SearchGoto(s, label) == search' = [search EXCEPT ![s].pc = label]
Subscribed(s)  == search[s].pc \in {"send", "check", "wait", "collect", "grace",
                                    "untoken", "unbucket"}
Free == locked = Nobody

-----------------------------------------------------------------------------
(* SoulseekClient::search *)

AddToken(s) ==
  /\ SearchAt(s, "idle") /\ Free
  /\ active' = active \cup {s}
  /\ SearchGoto(s, "bucket")
  /\ UNCHANGED <<inbox, buckets, bucket, peerVars, early>>

\* ... and subscribe to the notifications.
AddBucket(s) ==
  /\ SearchAt(s, "bucket")
  /\ buckets' = buckets \cup {s}
  /\ bucket'  = [bucket EXCEPT ![s] = <<>>]
  /\ SearchGoto(s, "send")
  /\ UNCHANGED <<inbox, active, peerVars, early>>

\* If the request cannot be sent, token and bucket stay behind.
Send(s) ==
  /\ SearchAt(s, "send")
  /\ \E label \in {"check", "notsent"} : SearchGoto(s, label)
  /\ UNCHANGED <<inbox, sharedVars, peerVars, early>>

Tick(s) ==
  /\ search[s].pc \in {"check", "wait"} /\ search[s].age # "over"
  /\ search' = [search EXCEPT ![s].age =
                  CASE @ = "young" -> "mid" [] @ = "mid" -> "late" [] OTHER -> "over"]
  /\ UNCHANGED <<inbox, sharedVars, peerVars, early>>

\* Two seconds without a result of its own (which nothing asks before 3 s).
Quiet(s) ==
  /\ search[s].pc \in {"check", "wait"}
  /\ search[s].age # "young" /\ ~search[s].quiet
  /\ search' = [search EXCEPT ![s].quiet = TRUE]
  /\ UNCHANGED <<inbox, sharedVars, peerVars, early>>

WithFiles(rs) == Len(SelectSeq(rs, LAMBDA r : OfferOf[r].files # <<>>))

\* Faulty: leaves the loop only with results.
EnoughResults(s) ==
  LET n == WithFiles(bucket[s]) IN
  search[s].age # "young" /\ (n >= Many \/ (n >= Few /\ search[s].quiet))

Enough(s) ==
  LET n == WithFiles(bucket[s]) IN
  \/ search[s].age = "over"
  \/ search[s].age = "late" /\ n = 0
  \/ search[s].age # "young" /\ n >= Many
  \/ search[s].age # "young" /\ n >= Few /\ search[s].quiet

\* The head of the waiting loop.
Check(s) ==
  /\ SearchAt(s, "check")
  /\ SearchGoto(s, IF Enough(s) THEN "collect" ELSE "wait")
  /\ UNCHANGED <<inbox, sharedVars, peerVars, early>>

\* The receiver's next value; after an overrun that is the error Lagged.
Receive(s) ==
  IF inbox[s].lagged THEN [inbox EXCEPT ![s].lagged = FALSE]
  ELSE [inbox EXCEPT ![s].msgs = Tail(@)]
Mail(s) == inbox[s] # NoMail
OwnNext(s) == /\ Mail(s) /\ ~inbox[s].lagged
              /\ Head(inbox[s].msgs) = s

\* A notification, or 200 ms without one.
Wait(s) ==
  /\ SearchAt(s, "wait")
  /\ search' = [search EXCEPT ![s].pc = "check",
                              ![s].quiet = @ /\ ~OwnNext(s)]
  /\ inbox' = IF Mail(s) THEN Receive(s) ELSE inbox
  /\ UNCHANGED <<sharedVars, peerVars, early>>

TakeBucket(s) ==
  /\ buckets' = buckets \ {s}
  /\ bucket'  = [bucket EXCEPT ![s] = <<>>]
  /\ UNCHANGED active

\* Faulty: copies the bucket and leaves it in the map.
CollectCopies(s) ==
  /\ SearchAt(s, "collect")
  /\ search' = [search EXCEPT ![s].pc = "grace", ![s].got = bucket[s]]
  /\ UNCHANGED <<inbox, sharedVars, peerVars, early>>

Collect(s) ==
  /\ SearchAt(s, "collect")
  /\ search' = [search EXCEPT ![s].pc = "grace", ![s].got = bucket[s]]
  /\ TakeBucket(s)
  /\ UNCHANGED <<inbox, peerVars, early>>

\* Faulty: late results replace the collected ones.
GraceReplaces(s) ==
  /\ SearchAt(s, "grace") /\ OwnNext(s)
  /\ inbox' = Receive(s)
  /\ search' = IF s \in buckets THEN [search EXCEPT ![s].got = bucket[s]] ELSE search
  /\ TakeBucket(s)
  /\ UNCHANGED <<peerVars, early>>

\* The grace period, as long as its own notifications keep coming.
Grace(s) ==
  /\ SearchAt(s, "grace") /\ OwnNext(s)
  /\ inbox' = Receive(s)
  /\ search' = [search EXCEPT ![s].got = @ \o bucket[s]]
  /\ TakeBucket(s)
  /\ UNCHANGED <<peerVars, early>>

\* It ends after 500 ms, after 100 ms without a notification, or with one for
\* another search.
GraceEnds(s) ==
  /\ SearchAt(s, "grace")
  /\ SearchGoto(s, "untoken")
  /\ UNCHANGED <<inbox, sharedVars, peerVars, early>>

\* Faulty: does not wait for the dispatch that is looking at the tokens.
RemoveTokenAtOnce(s) ==
  /\ SearchAt(s, "untoken")
  /\ active' = active \ {s}
  /\ SearchGoto(s, "unbucket")
  /\ UNCHANGED <<inbox, buckets, bucket, peerVars, early>>

RemoveToken(s) ==
  /\ SearchAt(s, "untoken") /\ Free
  /\ active' = active \ {s}
  /\ SearchGoto(s, "unbucket")
  /\ UNCHANGED <<inbox, buckets, bucket, peerVars, early>>

RemoveBucket(s) ==
  /\ SearchAt(s, "unbucket")
  /\ TakeBucket(s)
  /\ SearchGoto(s, IF search[s].got = <<>> THEN "empty" ELSE "results")
  /\ inbox' = [inbox EXCEPT ![s] = NoMail]
  /\ UNCHANGED <<peerVars, early>>

-----------------------------------------------------------------------------
(* Peers' connections *)

Sent(s) == search[s].pc \notin {"idle", "bucket", "send", "notsent"}

\* A peer that has the search answers through the server, or connects to us.
Respond(r, place) ==
  /\ resp[r] = "unsent" /\ Sent(SearchOf[r])
  /\ resp' = [resp EXCEPT ![r] = place]
  /\ UNCHANGED <<searchVars, sharedVars, holders, locked, sharing, early>>

\* Faulty: the permit is noted for the search, not for the connection.
BrokerByToken(r) ==
  /\ resp[r] = "brokered" /\ Free
  /\ IF (active = {} /\ ~sharing) \/ Cardinality(holders) >= Permits
     THEN resp' = [resp EXCEPT ![r] = "dropped"] /\ UNCHANGED holders
     ELSE /\ resp' = [resp EXCEPT ![r] = "connecting"]
          /\ holders' = holders \cup {SearchOf[r]}
  /\ UNCHANGED <<searchVars, sharedVars, locked, sharing, early>>

\* The ConnectToPeer handler: nobody would take the result, no permit, or a
\* task that connects.
Broker(r) ==
  /\ resp[r] = "brokered" /\ Free
  /\ IF (active = {} /\ ~sharing) \/ Cardinality(holders) >= Permits
     THEN resp' = [resp EXCEPT ![r] = "dropped"] /\ UNCHANGED holders
     ELSE /\ resp' = [resp EXCEPT ![r] = "connecting"]
          /\ holders' = holders \cup {r}
  /\ UNCHANGED <<searchVars, sharedVars, locked, sharing, early>>

\* Faulty: the task ends but its permit does not come back.
ConnectLeaks(r) ==
  /\ resp[r] = "connecting"
  /\ \E place \in {"reading", "told", "dropped"} :
       resp' = [resp EXCEPT ![r] = place]
  /\ UNCHANGED <<searchVars, sharedVars, holders, locked, sharing, early>>

\* connect_to_peer_for_dispatch; on failure the server is told, so that the
\* peer connects to us, and the permit is released.
Connect(r) ==
  /\ resp[r] = "connecting"
  /\ \E place \in {"reading", "told", "dropped"} :
       /\ resp' = [resp EXCEPT ![r] = place]
       /\ holders' = IF place = "reading" THEN holders ELSE holders \ {r}
  /\ UNCHANGED <<searchVars, sharedVars, locked, sharing, early>>

\* The listener accepts the connection of a peer that could not be reached.
ConnectBack(r) ==
  /\ resp[r] = "told"
  /\ resp' = [resp EXCEPT ![r] = "reading"]
  /\ UNCHANGED <<searchVars, sharedVars, holders, locked, sharing, early>>

\* 10 seconds without a message, or one that cannot be parsed
NotRead(r) ==
  /\ resp[r] = "reading"
  /\ resp' = [resp EXCEPT ![r] = "dropped"]
  /\ holders' = holders \ {r}
  /\ UNCHANGED <<searchVars, sharedVars, locked, sharing, early>>

\* A parsed result: the token's mutex is taken, and kept if it is active.
Look(r) ==
  /\ resp[r] = "reading" /\ Free
  /\ IF SearchOf[r] \in active
     THEN /\ resp' = [resp EXCEPT ![r] = "checked"]
          /\ locked' = r
          /\ UNCHANGED holders
     ELSE /\ resp' = [resp EXCEPT ![r] = "dropped"]
          /\ holders' = holders \ {r}
          /\ UNCHANGED locked
  /\ UNCHANGED <<searchVars, sharedVars, sharing, early>>

Notified(s, token) ==
  IF ~Subscribed(s) THEN inbox[s]
  ELSE IF Len(inbox[s].msgs) < Capacity
       THEN [inbox[s] EXCEPT !.msgs = Append(@, token)]
       ELSE [msgs |-> Append(Tail(inbox[s].msgs), token), lagged |-> TRUE]

\* Push it, creating the bucket again if the search has just taken it, notify
\* every search, and release the mutex.
Push(r) ==
  LET s == SearchOf[r] IN
  /\ resp[r] = "checked"
  /\ bucket'  = [bucket EXCEPT ![s] = Append(@, r)]
  /\ buckets' = buckets \cup {s}
  /\ inbox'   = [x \in Searches |-> Notified(x, s)]
  /\ resp'    = [resp EXCEPT ![r] = "delivered"]
  /\ holders' = holders \ {r}
  /\ locked'  = Nobody
  /\ early'   = IF search[s].pc \in {"check", "wait", "collect"}
                THEN early \cup {r} ELSE early
  /\ UNCHANGED <<search, active, sharing>>

-----------------------------------------------------------------------------
SearchStep(s) ==
  \/ AddBucket(s) \/ Send(s) \/ Check(s) \/ Wait(s) \/ Collect(s)
  \/ Grace(s) \/ GraceEnds(s) \/ RemoveToken(s) \/ RemoveBucket(s)

TaskStep(r) ==
  \/ Broker(r) \/ Connect(r) \/ NotRead(r) \/ Look(r) \/ Push(r)

SearchesNext ==
  \/ \E s \in Searches : AddToken(s) \/ SearchStep(s) \/ Tick(s) \/ Quiet(s)
  \/ \E r \in Responses :
       \/ \E place \in {"brokered", "reading"} : Respond(r, place)
       \/ TaskStep(r) \/ ConnectBack(r)

(* Tasks run, every wait in them is limited, and time passes.  A task that  *)
(* waits for the mutex gets it in the end: each response takes it once.     *)
SearchesFairness ==
  /\ \A s \in Searches : WF_searchingVars(SearchStep(s)) /\ WF_searchingVars(Tick(s))
  /\ \A r \in Responses : WF_searchingVars(TaskStep(r))

SearchesSpec == SearchesInit /\ [][SearchesNext]_searchingVars /\ SearchesFairness

-----------------------------------------------------------------------------
(* What the queue gets: the search's results, ranked *)

\* parse_file_search_response stops after 100 files and reads the peer's
\* figures from where it stands.  In a longer response that is the next file:
\* its code 1 becomes a free slot, the length of its name the speed, and the
\* name's first letters a long queue.
Parsed(r) ==
  IF r \in Oversized THEN [slots |-> TRUE, speed |-> 0, queue |-> 5, files |-> OfferOf[r].files]
  ELSE OfferOf[r]

Offers(s)     == [i \in DOMAIN search[s].got |-> Parsed(search[s].got[i])]
Candidates(s) == FindBestFiles(Offers(s), FilterOf[s])

-----------------------------------------------------------------------------
(* Properties *)

Ended(s) == search[s].pc \in {"results", "empty"}

\* A search that has ended leaves neither its token nor a bucket: a dispatch
\* that found the token active cannot put a bucket back afterwards, which
\* nobody would ever remove (search's clean-up against handle_peer_message_dispatch,
\* which keeps the tokens' mutex until it has pushed).
NothingLeftBehind ==
  \A s \in Searches : Ended(s) => s \notin active /\ s \notin buckets

\* Every result accepted before the search stopped collecting is returned,
\* however its arrival interleaves with the taking of the bucket and with the
\* late results of the grace period.
EarlyResultsReturned ==
  \A s \in Searches, r \in early :
    Ended(s) /\ SearchOf[r] = s => r \in ToSet(search[s].got)

\* A search returns results of its own token only, and none of them twice.
ResultsAreOwnAndDistinct ==
  \A s \in Searches :
    /\ IsInjective(search[s].got)
    /\ \A r \in ToSet(search[s].got) : SearchOf[r] = s

\* What the search promises the queue: a file whose track name is the title,
\* in the format asked for, from a peer with a free slot, is tried if its
\* response came in time, and before every file unrelated to the title.
ExactMatchOffered ==
  \A s \in Searches : Ended(s) =>
    \A r \in early \ Oversized :
      LET cs == Candidates(s) IN
      \A f \in ToSet(OfferOf[r].files) :
        /\ SearchOf[r] = s /\ OfferOf[r].slots
        /\ f.title = "exact" /\ ~f.remix
        /\ IsAudio(f) /\ MatchesFormat(f, FilterOf[s])
        => \E i \in DOMAIN cs :
             /\ cs[i].file = f /\ search[s].got[cs[i].from] = r
             /\ \A j \in 1..i : cs[j].file.title # "none"

\* A permit is held only by a task at work: whether the peer can be reached,
\* sends anything, or not, the task gives it back (ConnectToPeer handler).
PermitsAtWork ==
  \A r \in holders : resp[r] \in {"connecting", "reading", "checked"}

\* Every search ends, with results, without, or because it was not sent: each
\* is made once, so a time comes when none is at work.
SearchEnds ==
  []<>(\A s \in Searches : search[s].pc \in {"idle", "results", "empty", "notsent"})
=============================================================================
