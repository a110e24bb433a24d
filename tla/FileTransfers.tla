--------------------------- MODULE FileTransfers ---------------------------
(***************************************************************************)
(* initiate_download of src/src/protocol/client.rs with the peer's side of *)
(* src/src/protocol/peer.rs: a call asks the server for the peer's         *)
(* address, opens a P connection, queues the file and waits for the peer's *)
(* TransferRequest, then for an F connection with the token the peer       *)
(* chose.  Every F connection, whoever opened it, goes through one channel *)
(* to a dispatcher that hands it to the waiter registered for its token.   *)
(* If none arrives the call opens an F connection itself.                  *)
(*                                                                         *)
(* Left out, because nothing can reach it or nothing reads it: the cache   *)
(* of P connections (never filled), a known peer address (search results   *)
(* carry port 0), pending_downloads (negotiation never returns Queued),    *)
(* the downloads map, progress callbacks.  The bytes of a handshake matter *)
(* only by the token that comes out of it or its failure.                  *)
(***************************************************************************)
EXTENDS ServerRouter, FiniteSets

CONSTANTS
  Downloads,   \* calls of initiate_download; each is for a file of its own
  PeerOf,      \* the peer each file is requested from
  Tokens,      \* transfer tokens; every peer chooses its own
  NoToken,
  NoDownload,  \* also: no waiter, no connection
  MaxSize      \* bound: chunks in a file

\* One request of the address for the P connection, one for the F connection.
Legs == {"P", "F"}

ASSUME CallersAssumption == Callers = Downloads \X Legs
ASSUME PeerAssumption    == PeerOf \in [Downloads -> Peers]
ASSUME NullAssumption    == NoDownload \notin Downloads /\ NoToken \notin Tokens
ASSUME SizeAssumption    == MaxSize \in Nat

VARIABLES
  call,     \* each call of initiate_download: its place and its local variables
  queued,   \* the files each peer has been asked for and has not offered yet
  link,     \* the F connection the peer opens after the exchange on call d
  waiters   \* file_conn_waiters

ftVars       == <<call, queued, link, waiters>>
transferVars == <<routerVars, ftVars>>

Labels == {"idle", "register", "ask", "await", "connect", "negotiate",
           "allowed", "wait", "unregister", "proactive", "receive", "report",
           "refuse", "fail", "done"}

Call == [pc     : Labels,
         leg    : Legs,
         token  : Tokens \cup {NoToken},
         size   : 0..MaxSize,                      \* actual_size
         got    : 0..MaxSize,                      \* total_bytes
         conn   : Downloads \cup {NoDownload},     \* whose link it was handed
         ended  : {"none", "refused", "failed", "receiving", "ok", "err"}]

Link == [at    : {"none", "opening", "queued", "handed", "dropped"},
         token : Tokens \cup {NoToken}]

TransfersTypeOK ==
  /\ RouterTypeOK
  /\ call    \in [Downloads -> Call]
  /\ queued  \in SUBSET Downloads
  /\ link    \in [Downloads -> Link]
  /\ waiters \in [Tokens -> Downloads \cup {NoDownload}]

TransfersInit ==
  /\ RouterInit
  /\ call    = [d \in Downloads |->
                  [pc |-> "idle", leg |-> "P", token |-> NoToken, size |-> 0,
                   got |-> 0, conn |-> NoDownload, ended |-> "none"]]
  /\ queued  = {}
  /\ link    = [d \in Downloads |->
                  [at |-> "none", token |-> NoToken]]
  /\ waiters = [t \in Tokens |-> NoDownload]

At(d, label)   == call[d].pc = label
Goto(d, label) == call' = [call EXCEPT ![d].pc = label]
Chan(d)        == <<d, call[d].leg>>
Peer(d)        == PeerOf[d]

-----------------------------------------------------------------------------
(* Address and P connection *)

Start(d) ==
  /\ At(d, "idle")
  /\ Goto(d, "register")
  /\ UNCHANGED <<routerVars, queued, link, waiters>>

\* get_peer_address: put the channel into the map ...
Register(d) ==
  /\ At(d, "register")
  /\ RegisterCaller(Peer(d), Chan(d))
  /\ Goto(d, "ask")
  /\ UNCHANGED <<queued, link, waiters>>

\* Where a call goes on that cannot get the address.
NoAddress(d) == IF call[d].leg = "P" THEN "refuse" ELSE "fail"

\* ... and send the request.  If that fails the channel stays in the map.
Ask(d) ==
  /\ At(d, "ask")
  /\ \/ SendRequest(Peer(d)) /\ Goto(d, "await")
     \/ ~online /\ Goto(d, NoAddress(d)) /\ UNCHANGED routerVars
  /\ UNCHANGED <<queued, link, waiters>>

\* The reply, or 10 seconds without one.  Nobody removes the channel.
HaveAddress(d) ==
  /\ At(d, "await")
  /\ \/ /\ answer[Chan(d)] = "address"
        /\ Goto(d, IF call[d].leg = "P" THEN "connect" ELSE "proactive")
     \/ answer[Chan(d)] # "address" /\ Goto(d, NoAddress(d))
  /\ UNCHANGED <<routerVars, queued, link, waiters>>

\* connect_to_peer_for_download, PeerInit, queue_upload
ConnectPeer(d) ==
  /\ At(d, "connect")
  /\ \/ Goto(d, "negotiate") /\ queued' = queued \cup {d}
     \/ Goto(d, "refuse") /\ UNCHANGED queued
  /\ UNCHANGED <<routerVars, link, waiters>>

-----------------------------------------------------------------------------
(* Negotiation *)

\* wait_for_transfer_request takes the first upload the peer announces on this
\* connection, whatever file of ours it is for, and allows it; the peer will
\* then open an F connection for it.  Other messages are skipped.
Allowed(d, f, t, n) ==
  /\ At(d, "negotiate")
  /\ f \in queued /\ Peer(f) = Peer(d)
  /\ queued' = queued \ {f}
  /\ link' = [link EXCEPT ![d] = [at |-> "opening", token |-> t]]
  /\ call' = [call EXCEPT ![d].pc = "allowed", ![d].token = t, ![d].size = n]
  /\ UNCHANGED <<routerVars, waiters>>

\* UploadDenied or UploadFailed; a closed connection or 60 seconds
NotAllowed(d) ==
  /\ At(d, "negotiate")
  /\ \/ Goto(d, "fail")
     \/ Goto(d, "refuse")
  /\ UNCHANGED <<routerVars, queued, link, waiters>>

-----------------------------------------------------------------------------
(* The peer's F connection and the dispatcher *)

\* wait_for_f_connection_routed: insert replaces the sender that another call
\* may have there, which that call sees as its channel closing.
AddWaiter(d) ==
  /\ At(d, "allowed")
  /\ Goto(d, "wait")
  /\ waiters' = [waiters EXCEPT ![call[d].token] = d]
  /\ UNCHANGED <<routerVars, queued, link>>

\* The listener's task for an F connection, or the task the router spawns for
\* ConnectToPeer "F": handshake, then file_conn_tx; the peer may also fail.
Arrive(d, direct) ==
  /\ link[d].at = "opening"
  /\ direct \/ online
  /\ \E at \in {"queued", "dropped"} : link' = [link EXCEPT ![d].at = at]
  /\ UNCHANGED <<routerVars, call, queued, waiters>>

\* A oneshot receiver is alive until its call stops waiting.
Listening(w) == w # NoDownload /\ At(w, "wait") /\ call[w].conn = NoDownload

\* Faulty: hands the connection to whichever call waits.
DispatchAny(d) ==
  /\ link[d].at = "queued"
  /\ IF \E w \in Downloads : Listening(w)
     THEN \E w \in Downloads :
            /\ Listening(w)
            /\ call' = [call EXCEPT ![w].conn = d]
            /\ waiters' = [waiters EXCEPT ![call[w].token] = NoDownload]
            /\ link' = [link EXCEPT ![d].at = "handed"]
     ELSE /\ link' = [link EXCEPT ![d].at = "dropped"]
          /\ UNCHANGED <<call, waiters>>
  /\ UNCHANGED <<routerVars, queued>>

\* start_file_conn_dispatcher: remove the waiter and send it the connection; a
\* connection without a waiter, or whose waiter has just given up, is closed.
Dispatch(d) ==
  LET w == waiters[link[d].token] IN
  /\ link[d].at = "queued"
  /\ waiters' = [waiters EXCEPT ![link[d].token] = NoDownload]
  /\ IF Listening(w)
     THEN /\ call' = [call EXCEPT ![w].conn = d]
          /\ link' = [link EXCEPT ![d].at = "handed"]
     ELSE /\ link' = [link EXCEPT ![d].at = "dropped"]
          /\ UNCHANGED call
  /\ UNCHANGED <<routerVars, queued>>

\* The waiting call gets its connection and spawns the transfer.
Routed(d) ==
  /\ At(d, "wait") /\ call[d].conn # NoDownload
  /\ call' = [call EXCEPT ![d].pc = "receive", ![d].ended = "receiving"]
  /\ UNCHANGED <<routerVars, queued, link, waiters>>

\* 30 seconds without a connection, or the channel was closed by another call.
WaitEnds(d) ==
  /\ Listening(d)
  /\ Goto(d, "unregister")
  /\ UNCHANGED <<routerVars, queued, link, waiters>>

\* Faulty: forgets to take its waiter out of the map.
LeaveWaiter(d) ==
  /\ At(d, "unregister")
  /\ call' = [call EXCEPT ![d].pc = "register", ![d].leg = "F"]
  /\ UNCHANGED <<routerVars, queued, link, waiters>>

\* Whatever waiter the token has now is removed; then the call asks for the
\* peer's address once more.
RemoveWaiter(d) ==
  /\ At(d, "unregister")
  /\ waiters' = [waiters EXCEPT ![call[d].token] = NoDownload]
  /\ call' = [call EXCEPT ![d].pc = "register", ![d].leg = "F"]
  /\ UNCHANGED <<routerVars, queued, link>>

\* proactive_f_connection: connect and send the token.
Proactive(d) ==
  /\ At(d, "proactive")
  /\ \/ call' = [call EXCEPT ![d].pc = "receive", ![d].ended = "receiving",
                              ![d].conn = d]
     \/ Goto(d, "fail")
  /\ UNCHANGED <<routerVars, queued, link, waiters>>

-----------------------------------------------------------------------------
(* The end of a call, and the transfer *)

\* Faulty: reads what the connection has to give.
ChunkBeyond(d) ==
  /\ At(d, "receive")
  /\ call' = [call EXCEPT ![d].got = @ + 1]
  /\ UNCHANGED <<routerVars, queued, link, waiters>>

\* receive_file_data reads until it has the size announced.
Chunk(d) ==
  /\ At(d, "receive") /\ call[d].got < call[d].size
  /\ call' = [call EXCEPT ![d].got = @ + 1]
  /\ UNCHANGED <<routerVars, queued, link, waiters>>

\* Faulty: reports a completion and reads on.
ReportAndGoOn(d, verdict) ==
  /\ At(d, "receive")
  /\ call' = [call EXCEPT ![d].ended = verdict]
  /\ UNCHANGED <<routerVars, queued, link, waiters>>

\* Ok(total_bytes): everything is there, or the peer closes the connection,
\* breaks it or is silent for 30 seconds; Err: sending the offset or writing
\* the file failed.  The spawned task sends the completion.
Report(d, verdict) ==
  /\ At(d, "receive")
  /\ call' = [call EXCEPT ![d].pc = "done", ![d].ended = verdict]
  /\ UNCHANGED <<routerVars, queued, link, waiters>>

\* Faulty: a failed F connection is returned but not reported.
FailSilently(d) ==
  /\ At(d, "fail")
  /\ call' = [call EXCEPT ![d].pc = "done"]
  /\ UNCHANGED <<routerVars, queued, link, waiters>>

\* DownloadInitResult::Failed after the completion channel was told
Fail(d) ==
  /\ At(d, "fail")
  /\ call' = [call EXCEPT ![d].pc = "done", ![d].ended = "failed"]
  /\ UNCHANGED <<routerVars, queued, link, waiters>>

\* DownloadInitResult::Failed from before the negotiation's result
Refuse(d) ==
  /\ At(d, "refuse")
  /\ call' = [call EXCEPT ![d].pc = "done", ![d].ended = "refused"]
  /\ UNCHANGED <<routerVars, queued, link, waiters>>

-----------------------------------------------------------------------------
Server ==
  /\ \/ \E p \in Peers, a \in {"address", "offline"} : Answer(p, a)
     \/ ConnectionLost
  /\ UNCHANGED ftVars

CallStep(d) ==
  \/ Register(d) \/ Ask(d) \/ HaveAddress(d) \/ ConnectPeer(d)
  \/ \E f \in Downloads, t \in Tokens, n \in 0..MaxSize : Allowed(d, f, t, n)
  \/ NotAllowed(d) \/ AddWaiter(d) \/ Routed(d) \/ WaitEnds(d)
  \/ RemoveWaiter(d) \/ Proactive(d) \/ Fail(d) \/ Refuse(d)
  \/ \E verdict \in {"ok", "err"} : Report(d, verdict)

TransfersNext ==
  \/ \E d \in Downloads : Start(d) \/ CallStep(d) \/ Chunk(d) \/ Dispatch(d)
  \/ \E d \in Downloads, direct \in BOOLEAN : Arrive(d, direct)
  \/ Server

(* Every wait of a call is limited by a timeout (except inside a message of *)
(* the peer, see QueueService), and the dispatcher is a task of its own.    *)
(* The server, the peers and their connections owe nothing.                 *)
TransfersFairness ==
  \A d \in Downloads : WF_transferVars(CallStep(d)) /\ WF_transferVars(Dispatch(d))

TransfersSpec == TransfersInit /\ [][TransfersNext]_transferVars /\ TransfersFairness

-----------------------------------------------------------------------------
(* Properties *)

\* A waiter in the map belongs to a call that is still waiting for exactly that
\* token, or is just about to take it out: no call ends, is served or moves on
\* to its own F connection and leaves an entry that would swallow the next
\* connection with the token (wait_for_f_connection_routed, the dispatcher).
WaiterIsWaiting ==
  \A t \in Tokens, d \in Downloads :
    waiters[t] = d => call[d].token = t /\ call[d].pc \in {"wait", "unregister"}

\* Peers choose the tokens, so two may choose the same.  As long as they do
\* not, a call receives the F connection of its own exchange and no other, in
\* whatever order the connections arrive (start_file_conn_dispatcher).
SharedToken(d) == \E e \in Downloads \ {d} : link[e].token = link[d].token
ConnectionsReachTheirDownload ==
  \A d \in Downloads :
    call[d].conn \notin {NoDownload, d} => SharedToken(call[d].conn)

\* A reply names only the user and answers every call that waits for that user:
\* while the server connection is up, a call that has sent its request and has
\* no answer is still registered and a reply to somebody is outstanding
\* (get_peer_address and the dispatch of code 3).
AddressReplyNotLost ==
  online => \A d \in Downloads :
    At(d, "await") /\ answer[Chan(d)] = "none" =>
      Chan(d) \in subs[Peer(d)] /\ unanswered[Peer(d)] > 0

\* initiate_download keeps what the queue relies on: one result per call and
\* one completion per spawned transfer, none before its spawn.
Promise == INSTANCE DownloadOutcome
             WITH outcome <- [d \in Downloads |-> call[d].ended]
ImplementsOutcome == Promise!Spec

\* Every call that is started ends with one of the results, whatever the
\* server and the peer do and whichever connections never come: a file is asked
\* for once, so a time comes when no call is at work.
CallsEnd ==
  []<>(\A d \in Downloads :
         call[d].pc = "idle" \/ call[d].ended \in {"refused", "failed", "ok", "err"})
=============================================================================
