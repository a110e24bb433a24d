------------------------ MODULE FileTransferProofs ------------------------
(***************************************************************************)
(* Address requests, F connections and outcomes of initiate_download, for  *)
(* any number of calls, peers and tokens.                                  *)
(***************************************************************************)
EXTENDS FileTransfers, TLAPS

\* Before its negotiation a call has no token; from then on until it fails or
\* is done it has one, and the peer's connection for it has the same.
Early(d) == \/ call[d].pc \in {"idle", "connect", "negotiate"}
            \/ call[d].pc \in {"register", "ask", "await"} /\ call[d].leg = "P"

TokenKept ==
  \A d \in Downloads :
    /\ call[d].pc \in {"idle", "connect", "negotiate"} => call[d].leg = "P"
    /\ Early(d) => call[d].token = NoToken
    /\ ~Early(d) /\ call[d].pc \notin {"refuse", "fail", "done"} => call[d].token \in Tokens

LinkKept ==
  \A d \in Downloads :
    /\ link[d].token = call[d].token
    /\ link[d].at # "none" => link[d].token \in Tokens

\* A call that was handed a connection keeps it to its end, and is no longer
\* in the map.
ConnKept ==
  /\ \A d \in Downloads : call[d].conn # NoDownload =>
       call[d].pc \in {"wait", "receive", "done"} /\ link[call[d].conn].token \in Tokens
  /\ \A t \in Tokens, d \in Downloads : waiters[t] = d => call[d].conn = NoDownload

\* Between registering and asking the channel is in the map or was answered.
Asked ==
  \A d \in Downloads :
    At(d, "ask") /\ answer[Chan(d)] = "none" => Chan(d) \in subs[Peer(d)]

\* The outcome of a call follows from its place.
EndKept ==
  \A d \in Downloads :
    /\ At(d, "receive") => call[d].ended = "receiving"
    /\ call[d].pc \notin {"receive", "done"} => call[d].ended = "none"

IInv == /\ TransfersTypeOK /\ TokenKept /\ LinkKept /\ ConnKept /\ WaiterIsWaiting
        /\ ConnectionsReachTheirDownload /\ Asked /\ AddressReplyNotLost /\ EndKept

LEMMA InitIInv == TransfersInit => IInv
<1> SUFFICES ASSUME TransfersInit PROVE IInv
  OBVIOUS
<1> USE DEF TransfersInit, RouterInit
<1>1. TransfersTypeOK
  BY NullAssumption, SizeAssumption DEF TransfersTypeOK, RouterTypeOK, Call, Link, Labels, Legs
<1>2. TokenKept /\ LinkKept /\ EndKept
  BY DEF TokenKept, LinkKept, EndKept, Early, At
<1>3. ConnKept /\ WaiterIsWaiting /\ ConnectionsReachTheirDownload
  BY NullAssumption DEF ConnKept, WaiterIsWaiting, ConnectionsReachTheirDownload
<1>4. Asked /\ AddressReplyNotLost
  BY DEF Asked, AddressReplyNotLost, At
<1> QED
  BY <1>1, <1>2, <1>3, <1>4 DEF IInv

-----------------------------------------------------------------------------
\* A call that goes on without touching anything but its place.
LEMMA GotoInv ==
  ASSUME IInv, NEW d \in Downloads, NEW label \in Labels, Goto(d, label),
         queued' \subseteq Downloads, UNCHANGED <<routerVars, link, waiters>>,
         call[d].pc \notin {"receive", "done"}, call[d].conn = NoDownload,
         \/ label \in {"refuse", "fail"}
         \/ label \in {"register", "connect", "negotiate"} /\ call[d].leg = "P" /\ call[d].token = NoToken
         \/ label \in {"proactive", "unregister"} /\ call[d].token \in Tokens,
         label = "unregister" \/ call[d].pc \notin {"wait", "unregister"}
  PROVE  IInv'
<1> USE DEF IInv, TransfersTypeOK, Goto, routerVars
<1>1. /\ call' \in [Downloads -> Call]
      /\ \A e \in Downloads : e # d => call'[e] = call[e]
      /\ call'[d].pc = label
      /\ call'[d].leg = call[d].leg /\ call'[d].token = call[d].token
      /\ call'[d].conn = call[d].conn /\ call'[d].ended = call[d].ended
  BY DEF Call
<1> HIDE DEF Goto
<1>2. TransfersTypeOK'
  <2>1. RouterTypeOK'
    BY DEF RouterTypeOK
  <2> QED
    BY <1>1, <2>1
<1>3. TokenKept'
  BY <1>1, NullAssumption DEF TokenKept, Early, At, Labels
<1>4. LinkKept'
  BY <1>1 DEF LinkKept
<1>5. ConnKept'
  BY <1>1 DEF ConnKept
<1>6. WaiterIsWaiting'
  BY <1>1 DEF WaiterIsWaiting
<1>7. ConnectionsReachTheirDownload'
  BY <1>1 DEF ConnectionsReachTheirDownload, SharedToken
<1>8. Asked' /\ AddressReplyNotLost'
  BY <1>1 DEF Asked, AddressReplyNotLost, At, Chan, Peer
<1>9. EndKept'
  BY <1>1 DEF EndKept, At
<1> QED
  BY <1>2, <1>3, <1>4, <1>5, <1>6, <1>7, <1>8, <1>9

\* No call has a connection before it waits for one.
LEMMA NoConnYet ==
  ASSUME IInv, NEW d \in Downloads, call[d].pc \notin {"wait", "receive", "done"}
  PROVE  call[d].conn = NoDownload
BY DEF IInv, ConnKept

LEMMA StartInv == ASSUME IInv, NEW d \in Downloads, Start(d) PROVE IInv'
BY GotoInv, NoConnYet, NullAssumption DEF IInv, Start, At, TokenKept, Early, Labels, TransfersTypeOK

LEMMA HaveAddressInv == ASSUME IInv, NEW d \in Downloads, HaveAddress(d) PROVE IInv'
<1> DEFINE next == IF call[d].leg = "P" THEN "connect" ELSE "proactive"
<1>1. At(d, "await") /\ call[d].conn = NoDownload /\ queued' \subseteq Downloads
  BY NoConnYet DEF HaveAddress, IInv, TransfersTypeOK, At
<1>2. UNCHANGED <<routerVars, link, waiters>>
  BY DEF HaveAddress
<1>3. CASE Goto(d, next)
  <2>1. IF call[d].leg = "P" THEN call[d].token = NoToken ELSE call[d].token \in Tokens
    BY <1>1 DEF IInv, TokenKept, Early, At
  <2> QED
    BY <1>1, <1>2, <1>3, <2>1, GotoInv DEF At, Labels
<1>4. CASE Goto(d, NoAddress(d))
  BY <1>1, <1>2, <1>4, GotoInv DEF At, Labels, NoAddress
<1> QED
  BY <1>3, <1>4 DEF HaveAddress

LEMMA ConnectInv == ASSUME IInv, NEW d \in Downloads, ConnectPeer(d) PROVE IInv'
<1>1. /\ At(d, "connect") /\ call[d].conn = NoDownload
      /\ UNCHANGED <<routerVars, link, waiters>>
  BY NoConnYet DEF ConnectPeer, At
<1>2. queued' \subseteq Downloads
  BY DEF ConnectPeer, IInv, TransfersTypeOK
<1>3. call[d].leg = "P" /\ call[d].token = NoToken
  BY <1>1 DEF IInv, TokenKept, Early, At
<1>4. Goto(d, "negotiate") \/ Goto(d, "refuse")
  BY DEF ConnectPeer
<1> QED
  BY <1>1, <1>2, <1>3, <1>4, GotoInv DEF At, Labels

LEMMA NotAllowedInv == ASSUME IInv, NEW d \in Downloads, NotAllowed(d) PROVE IInv'
<1>1. /\ At(d, "negotiate") /\ call[d].conn = NoDownload /\ queued' \subseteq Downloads
      /\ UNCHANGED <<routerVars, link, waiters>>
  BY NoConnYet DEF NotAllowed, IInv, TransfersTypeOK, At
<1>2. Goto(d, "fail") \/ Goto(d, "refuse")
  BY DEF NotAllowed
<1> QED
  BY <1>1, <1>2, GotoInv DEF At, Labels

LEMMA WaitEndsInv == ASSUME IInv, NEW d \in Downloads, WaitEnds(d) PROVE IInv'
<1>1. /\ At(d, "wait") /\ call[d].conn = NoDownload /\ queued' \subseteq Downloads
      /\ UNCHANGED <<routerVars, link, waiters>> /\ Goto(d, "unregister")
      /\ call[d].token \in Tokens
  BY DEF WaitEnds, Listening, IInv, TransfersTypeOK, At, TokenKept, Early
<1> QED
  BY <1>1, GotoInv DEF At, Labels

LEMMA RegisterInv == ASSUME IInv, NEW d \in Downloads, Register(d) PROVE IInv'
<1> USE DEF IInv, TransfersTypeOK
<1>1. /\ call' \in [Downloads -> Call]
      /\ \A e \in Downloads : e # d => call'[e] = call[e]
      /\ call[d].pc = "register" /\ call'[d].pc = "ask"
      /\ call'[d].leg = call[d].leg /\ call'[d].token = call[d].token
      /\ call'[d].conn = call[d].conn /\ call'[d].ended = call[d].ended
      /\ UNCHANGED <<queued, link, waiters>>
  BY DEF Register, Goto, At, Call, Labels
<1>2. UNCHANGED <<online, unanswered, answer>> /\ subs' = [subs EXCEPT ![Peer(d)] = @ \cup {Chan(d)}]
  BY DEF Register, RegisterCaller
<1>3. Peer(d) \in Peers /\ Chan(d) \in Callers
  BY CallersAssumption, PeerAssumption DEF Peer, Chan, Call
<1>4. /\ subs' \in [Peers -> SUBSET Callers] /\ Chan(d) \in subs'[Peer(d)]
      /\ \A p \in Peers : subs[p] \subseteq subs'[p]
  BY <1>2, <1>3 DEF RouterTypeOK
<1>5. TransfersTypeOK'
  <2>1. RouterTypeOK'
    BY <1>2, <1>4 DEF RouterTypeOK
  <2> QED
    BY <1>1, <2>1
<1>6. TokenKept'
  BY <1>1 DEF TokenKept, Early, At
<1>7. LinkKept' /\ EndKept'
  BY <1>1 DEF LinkKept, EndKept, At
<1>8. ConnKept' /\ WaiterIsWaiting' /\ ConnectionsReachTheirDownload'
  BY <1>1 DEF ConnKept, WaiterIsWaiting, ConnectionsReachTheirDownload, SharedToken
<1>9. Asked' /\ AddressReplyNotLost'
  <2>1. \A e \in Downloads : Peer(e) \in Peers
    BY PeerAssumption DEF Peer
  <2>2. Chan(d)' = Chan(d) /\ \A e \in Downloads : e # d => Chan(e)' = Chan(e)
    BY <1>1 DEF Chan
  <2> QED
    BY <1>1, <1>2, <1>4, <2>1, <2>2 DEF Asked, AddressReplyNotLost, At, Peer
<1> QED
  BY <1>5, <1>6, <1>7, <1>8, <1>9

LEMMA AskInv == ASSUME IInv, NEW d \in Downloads, Ask(d) PROVE IInv'
<1>1. CASE Goto(d, NoAddress(d)) /\ UNCHANGED routerVars
  <2>1. /\ At(d, "ask") /\ call[d].conn = NoDownload /\ queued' \subseteq Downloads
        /\ UNCHANGED <<routerVars, link, waiters>>
    BY <1>1, NoConnYet DEF Ask, IInv, TransfersTypeOK, At
  <2> QED
    BY <1>1, <2>1, GotoInv DEF At, Labels, NoAddress
<1>2. CASE SendRequest(Peer(d)) /\ Goto(d, "await")
  <2> USE DEF IInv, TransfersTypeOK
  <2>1. /\ call' \in [Downloads -> Call]
        /\ \A e \in Downloads : e # d => call'[e] = call[e]
        /\ call[d].pc = "ask" /\ call'[d].pc = "await"
        /\ call'[d].leg = call[d].leg /\ call'[d].token = call[d].token
        /\ call'[d].conn = call[d].conn /\ call'[d].ended = call[d].ended
        /\ UNCHANGED <<queued, link, waiters>>
    BY <1>2 DEF Ask, Goto, At, Call, Labels
  <2>2. UNCHANGED <<online, subs, answer>>
    BY <1>2 DEF SendRequest
  <2>3. \A e \in Downloads : Peer(e) \in Peers
    BY PeerAssumption DEF Peer
  <2>4. /\ unanswered' \in [Peers -> Nat]
        /\ \A p \in Peers : unanswered'[p] >= unanswered[p]
        /\ online => unanswered'[Peer(d)] > 0
    BY <1>2, <2>3 DEF SendRequest, RouterTypeOK
  <2>5. TransfersTypeOK'
    <3>1. RouterTypeOK'
      BY <2>2, <2>4 DEF RouterTypeOK
    <3> QED
      BY <2>1, <3>1
  <2>6. TokenKept'
    BY <2>1 DEF TokenKept, Early, At
  <2>7. LinkKept' /\ EndKept'
    BY <2>1 DEF LinkKept, EndKept, At
  <2>8. ConnKept' /\ WaiterIsWaiting' /\ ConnectionsReachTheirDownload'
    BY <2>1 DEF ConnKept, WaiterIsWaiting, ConnectionsReachTheirDownload, SharedToken
  <2>9. Asked' /\ AddressReplyNotLost'
    <3>1. Chan(d)' = Chan(d) /\ \A e \in Downloads : e # d => Chan(e)' = Chan(e)
      BY <2>1 DEF Chan
    <3>2. Asked'
      BY <2>1, <2>2, <3>1 DEF Asked, At, Peer
    <3>3. ASSUME online, NEW e \in Downloads, At(e, "await")', answer'[Chan(e)'] = "none"
          PROVE  Chan(e)' \in subs'[Peer(e)] /\ unanswered'[Peer(e)] > 0
      <4>1. CASE e = d
        BY <2>1, <2>2, <2>4, <3>1, <3>3, <4>1 DEF Asked, At
      <4>2. CASE e # d
        <5>1. Chan(e) \in subs[Peer(e)] /\ unanswered[Peer(e)] > 0
          BY <2>1, <2>2, <3>1, <3>3, <4>2 DEF AddressReplyNotLost, At
        <5>2. unanswered[Peer(e)] \in Nat /\ unanswered'[Peer(e)] \in Nat
          BY <2>3, <2>4 DEF RouterTypeOK
        <5> QED
          BY <2>2, <2>3, <2>4, <3>1, <4>2, <5>1, <5>2
      <4> QED
        BY <4>1, <4>2
    <3> QED
      BY <2>2, <3>2, <3>3 DEF AddressReplyNotLost, Peer
  <2> QED
    BY <2>5, <2>6, <2>7, <2>8, <2>9
<1> QED
  BY <1>1, <1>2 DEF Ask

-----------------------------------------------------------------------------
(* Steps that leave the router alone *)

\* What such a step has to show of the address requests.
LEMMA RouterQuiet ==
  ASSUME IInv, NEW d \in Downloads, UNCHANGED routerVars,
         \A e \in Downloads : e # d => /\ call'[e].pc = call[e].pc
                                       /\ call'[e].leg = call[e].leg,
         call'[d].pc \notin {"ask", "await"}
  PROVE  RouterTypeOK' /\ Asked' /\ AddressReplyNotLost'
<1>1. RouterTypeOK'
  BY DEF IInv, TransfersTypeOK, RouterTypeOK, routerVars
<1>2. Asked' /\ AddressReplyNotLost'
  BY DEF IInv, Asked, AddressReplyNotLost, At, Chan, Peer, routerVars
<1> QED
  BY <1>1, <1>2

LEMMA AllowedInv ==
  ASSUME IInv, NEW d \in Downloads, NEW f \in Downloads, NEW t \in Tokens,
         NEW n \in 0..MaxSize, Allowed(d, f, t, n)
  PROVE  IInv'
<1> USE DEF IInv, TransfersTypeOK
<1>1. /\ call' \in [Downloads -> Call]
      /\ \A e \in Downloads : e # d => call'[e] = call[e]
      /\ call[d].pc = "negotiate" /\ call'[d].pc = "allowed"
      /\ call'[d].leg = call[d].leg /\ call'[d].token = t
      /\ call'[d].conn = call[d].conn /\ call'[d].ended = call[d].ended
  <2>1. /\ call[d] \in Call /\ call[d].pc = "negotiate"
        /\ call' = [call EXCEPT ![d] = [call[d] EXCEPT !.pc = "allowed", !.token = t, !.size = n]]
    BY DEF Allowed, At
  <2>2. [call[d] EXCEPT !.pc = "allowed", !.token = t, !.size = n] \in Call
    BY <2>1 DEF Call, Labels
  <2> QED
    BY <2>1, <2>2 DEF Call
<1>2. /\ link' \in [Downloads -> Link]
      /\ \A e \in Downloads : e # d => link'[e] = link[e]
      /\ link'[d].token = t
  BY DEF Allowed, Link
<1>3. UNCHANGED <<routerVars, waiters>> /\ queued' \subseteq Downloads
  BY DEF Allowed
<1>4. RouterTypeOK' /\ Asked' /\ AddressReplyNotLost'
  BY <1>1, <1>3, RouterQuiet
<1>5. link[d].token \notin Tokens /\ call[d].conn = NoDownload
  BY <1>1, NoConnYet, NullAssumption DEF TokenKept, Early, LinkKept
<1>6. TransfersTypeOK'
  BY <1>1, <1>2, <1>3, <1>4
<1>7. TokenKept' /\ LinkKept'
  BY <1>1, <1>2 DEF TokenKept, Early, LinkKept, At
<1>8. ConnKept'
  BY <1>1, <1>2, <1>3, <1>5 DEF ConnKept, Call
<1>9. WaiterIsWaiting' /\ EndKept'
  BY <1>1, <1>3 DEF WaiterIsWaiting, EndKept, At
<1>10. ConnectionsReachTheirDownload'
  <2>1. SUFFICES ASSUME NEW e \in Downloads, call'[e].conn \notin {NoDownload, e}
                 PROVE  SharedToken(call[e].conn)'
    BY <1>1 DEF ConnectionsReachTheirDownload
  <2>2. e # d /\ call'[e].conn = call[e].conn
    BY <1>1, <1>5, <2>1
  <2> DEFINE c == call[e].conn
  <2>3. c \in Downloads /\ link[c].token \in Tokens
    BY <2>1, <2>2 DEF ConnKept, Call
  <2>4. PICK g \in Downloads \ {c} : link[g].token = link[c].token
    BY <2>1, <2>2 DEF ConnectionsReachTheirDownload, SharedToken
  <2>5. g # d /\ c # d
    BY <1>5, <2>3, <2>4
  <2> QED
    BY <1>1, <1>2, <2>2, <2>3, <2>4, <2>5 DEF SharedToken
<1> QED
  BY <1>4, <1>6, <1>7, <1>8, <1>9, <1>10

LEMMA AddWaiterInv == ASSUME IInv, NEW d \in Downloads, AddWaiter(d) PROVE IInv'
<1> USE DEF IInv, TransfersTypeOK
<1>1. /\ call' \in [Downloads -> Call]
      /\ \A e \in Downloads : e # d => call'[e] = call[e]
      /\ call[d].pc = "allowed" /\ call'[d].pc = "wait"
      /\ call'[d].leg = call[d].leg /\ call'[d].token = call[d].token
      /\ call'[d].conn = call[d].conn /\ call'[d].ended = call[d].ended
      /\ UNCHANGED <<routerVars, queued, link>>
  BY DEF AddWaiter, At, Goto, Call, Labels
<1>2. call[d].token \in Tokens /\ call[d].conn = NoDownload
  BY <1>1, NoConnYet DEF TokenKept, Early
<1>3. /\ waiters' \in [Tokens -> Downloads \cup {NoDownload}]
      /\ waiters'[call[d].token] = d
      /\ \A t \in Tokens : t # call[d].token => waiters'[t] = waiters[t]
  BY <1>2 DEF AddWaiter
<1>4. RouterTypeOK' /\ Asked' /\ AddressReplyNotLost'
  BY <1>1, RouterQuiet
<1>5. TransfersTypeOK'
  BY <1>1, <1>3, <1>4
<1>6. TokenKept' /\ LinkKept' /\ EndKept'
  BY <1>1 DEF TokenKept, LinkKept, EndKept, Early, At
<1>7. ConnKept' /\ WaiterIsWaiting'
  BY <1>1, <1>2, <1>3, NullAssumption DEF ConnKept, WaiterIsWaiting
<1>8. ConnectionsReachTheirDownload'
  BY <1>1 DEF ConnectionsReachTheirDownload, SharedToken
<1> QED
  BY <1>4, <1>5, <1>6, <1>7, <1>8

LEMMA ArriveInv ==
  ASSUME IInv, NEW d \in Downloads, NEW direct \in BOOLEAN, Arrive(d, direct)
  PROVE  IInv'
<1> USE DEF IInv, TransfersTypeOK
<1>1. /\ link' \in [Downloads -> Link]
      /\ \A e \in Downloads : link'[e].token = link[e].token
      /\ \A e \in Downloads : link'[e].at # "none" <=> link[e].at # "none"
      /\ UNCHANGED <<routerVars, call, queued, waiters>>
  BY DEF Arrive, Link
<1>2. RouterTypeOK' /\ Asked' /\ AddressReplyNotLost'
  BY <1>1 DEF RouterTypeOK, Asked, AddressReplyNotLost, At, Chan, routerVars
<1>3. TransfersTypeOK'
  BY <1>1, <1>2
<1>4. TokenKept' /\ LinkKept' /\ EndKept' /\ WaiterIsWaiting'
  BY <1>1 DEF TokenKept, LinkKept, EndKept, WaiterIsWaiting, Early, At
<1>5. ConnKept'
  BY <1>1 DEF ConnKept, Call
<1>6. ConnectionsReachTheirDownload'
  <2>1. SUFFICES ASSUME NEW e \in Downloads, call[e].conn \notin {NoDownload, e}
                 PROVE  SharedToken(call[e].conn)'
    BY <1>1 DEF ConnectionsReachTheirDownload
  <2>2. call[e].conn \in Downloads /\ SharedToken(call[e].conn)
    BY <2>1 DEF ConnectionsReachTheirDownload, Call
  <2> QED
    BY <1>1, <2>2 DEF SharedToken
<1> QED
  BY <1>2, <1>3, <1>4, <1>5, <1>6

LEMMA DispatchInv == ASSUME IInv, NEW d \in Downloads, Dispatch(d) PROVE IInv'
<1> USE DEF IInv, TransfersTypeOK
<1> DEFINE t == link[d].token
           w == waiters[t]
<1>1. t \in Tokens /\ w \in Downloads \cup {NoDownload}
  BY DEF Dispatch, LinkKept
<1>2. /\ waiters' \in [Tokens -> Downloads \cup {NoDownload}]
      /\ waiters'[t] = NoDownload
      /\ \A s \in Tokens : s # t => waiters'[s] = waiters[s]
  BY <1>1 DEF Dispatch
<1>3. /\ link' \in [Downloads -> Link]
      /\ \A e \in Downloads : link'[e].token = link[e].token
      /\ \A e \in Downloads : link'[e].at # "none" => link[e].at # "none"
      /\ UNCHANGED <<routerVars, queued>>
  BY DEF Dispatch, Link
<1>4. /\ call' \in [Downloads -> Call]
      /\ \A e \in Downloads : /\ call'[e].pc = call[e].pc /\ call'[e].leg = call[e].leg
                              /\ call'[e].token = call[e].token
                              /\ call'[e].ended = call[e].ended
      /\ \A e \in Downloads : \/ call'[e].conn = call[e].conn
                              \/ e = w /\ call'[e].conn = d /\ At(w, "wait")
  BY <1>1 DEF Dispatch, Listening, Call
<1>5. RouterTypeOK' /\ Asked' /\ AddressReplyNotLost'
  <2>1. UNCHANGED <<online, unanswered, subs, answer>>
    BY <1>3 DEF routerVars
  <2>2. \A e \in Downloads : Chan(e)' = Chan(e)
    BY <1>4 DEF Chan
  <2> QED
    BY <1>4, <2>1, <2>2 DEF RouterTypeOK, Asked, AddressReplyNotLost, At, Peer
<1>6. TransfersTypeOK'
  BY <1>2, <1>3, <1>4, <1>5
<1>7. TokenKept' /\ LinkKept' /\ EndKept'
  BY <1>3, <1>4 DEF TokenKept, LinkKept, EndKept, Early, At
<1>8. WaiterIsWaiting'
  BY <1>2, <1>4, NullAssumption DEF WaiterIsWaiting
<1>9. ConnKept'
  <2>1. ASSUME NEW e \in Downloads, call'[e].conn # NoDownload
        PROVE  call'[e].pc \in {"wait", "receive", "done"} /\ link'[call'[e].conn].token \in Tokens
    <3>1. CASE call'[e].conn = call[e].conn
      BY <1>3, <1>4, <2>1, <3>1 DEF ConnKept, Call
    <3>2. CASE e = w /\ call'[e].conn = d /\ At(w, "wait")
      BY <1>1, <1>3, <1>4, <3>2 DEF At
    <3> QED
      BY <1>4, <3>1, <3>2
  <2>2. ASSUME NEW s \in Tokens, NEW e \in Downloads, waiters'[s] = e
        PROVE  call'[e].conn = NoDownload
    <3>1. s # t /\ waiters[s] = e
      BY <1>2, <2>2, NullAssumption
    <3>2. e # w
      BY <1>1, <3>1 DEF WaiterIsWaiting
    <3> QED
      BY <1>4, <3>1, <3>2 DEF ConnKept
  <2> QED
    BY <2>1, <2>2 DEF ConnKept
<1>10. ConnectionsReachTheirDownload'
  <2>1. ASSUME NEW e \in Downloads, call'[e].conn \notin {NoDownload, e}
        PROVE  \E g \in Downloads \ {call'[e].conn} : link'[g].token = link'[call'[e].conn].token
    <3>1. CASE call'[e].conn = call[e].conn
      <4>1. /\ call[e].conn \in Downloads
            /\ \E g \in Downloads \ {call[e].conn} : link[g].token = link[call[e].conn].token
        BY <2>1, <3>1 DEF ConnectionsReachTheirDownload, SharedToken, Call
      <4> QED
        BY <1>3, <3>1, <4>1
    <3>2. CASE e = w /\ call'[e].conn = d
      <4>1. link[e].token = t /\ e # d
        BY <1>1, <2>1, <3>2 DEF WaiterIsWaiting, LinkKept
      <4> QED
        BY <1>3, <3>2, <4>1
    <3> QED
      BY <1>4, <3>1, <3>2
  <2> QED
    BY <2>1 DEF ConnectionsReachTheirDownload, SharedToken
<1> QED
  BY <1>5, <1>6, <1>7, <1>8, <1>9, <1>10

LEMMA RemoveWaiterInv == ASSUME IInv, NEW d \in Downloads, RemoveWaiter(d) PROVE IInv'
<1> USE DEF IInv, TransfersTypeOK
<1>1. /\ call' \in [Downloads -> Call]
      /\ \A e \in Downloads : e # d => call'[e] = call[e]
      /\ call[d].pc = "unregister" /\ call'[d].pc = "register" /\ call'[d].leg = "F"
      /\ call'[d].token = call[d].token
      /\ call'[d].conn = call[d].conn /\ call'[d].ended = call[d].ended
      /\ UNCHANGED <<routerVars, queued, link>>
  <2>1. /\ call[d] \in Call /\ call[d].pc = "unregister"
        /\ call' = [call EXCEPT ![d] = [call[d] EXCEPT !.pc = "register", !.leg = "F"]]
        /\ UNCHANGED <<routerVars, queued, link>>
    BY DEF RemoveWaiter, At
  <2>2. [call[d] EXCEPT !.pc = "register", !.leg = "F"] \in Call
    BY <2>1 DEF Call, Labels, Legs
  <2> QED
    BY <2>1, <2>2 DEF Call
<1>2. call[d].token \in Tokens /\ call[d].conn = NoDownload
  BY <1>1, NoConnYet DEF TokenKept, Early
<1>3. /\ waiters' \in [Tokens -> Downloads \cup {NoDownload}]
      /\ waiters'[call[d].token] = NoDownload
      /\ \A t \in Tokens : t # call[d].token => waiters'[t] = waiters[t]
  BY <1>2 DEF RemoveWaiter
<1>4. RouterTypeOK' /\ Asked' /\ AddressReplyNotLost'
  BY <1>1, RouterQuiet
<1>5. TransfersTypeOK'
  BY <1>1, <1>3, <1>4
<1>6. TokenKept' /\ LinkKept' /\ EndKept'
  BY <1>1, <1>2 DEF TokenKept, LinkKept, EndKept, Early, At
<1>7. ConnKept' /\ WaiterIsWaiting'
  BY <1>1, <1>2, <1>3, NullAssumption DEF ConnKept, WaiterIsWaiting
<1>8. ConnectionsReachTheirDownload'
  BY <1>1 DEF ConnectionsReachTheirDownload, SharedToken
<1> QED
  BY <1>4, <1>5, <1>6, <1>7, <1>8

-----------------------------------------------------------------------------
(* The transfer and the end of a call *)

\* A call that has left the map and receives, or is done.
LEMMA ReceiveInv ==
  ASSUME IInv, NEW d \in Downloads, UNCHANGED <<routerVars, queued, link, waiters>>,
         call' \in [Downloads -> Call],
         \A e \in Downloads : e # d => call'[e] = call[e],
         call'[d].leg = call[d].leg, call'[d].token = call[d].token,
         call'[d].conn = call[d].conn \/ (call'[d].conn = d /\ call[d].token \in Tokens),
         \A t \in Tokens : waiters[t] # d,
         \/ call'[d].pc = "receive" /\ call'[d].ended = "receiving" /\ call[d].token \in Tokens
         \/ call'[d].pc = "done"
  PROVE  IInv'
<1> USE DEF IInv, TransfersTypeOK
<1>1. RouterTypeOK' /\ Asked' /\ AddressReplyNotLost'
  BY RouterQuiet
<1>2. TransfersTypeOK'
  BY <1>1
<1>3. TokenKept' /\ EndKept'
  BY DEF TokenKept, EndKept, Early, At
<1>4. LinkKept' /\ WaiterIsWaiting'
  BY DEF LinkKept, WaiterIsWaiting
<1>5. ConnKept'
  BY DEF ConnKept, LinkKept
<1>6. ConnectionsReachTheirDownload'
  BY DEF ConnectionsReachTheirDownload, SharedToken
<1> QED
  BY <1>1, <1>2, <1>3, <1>4, <1>5, <1>6

LEMMA RoutedInv == ASSUME IInv, NEW d \in Downloads, Routed(d) PROVE IInv'
<1> USE DEF IInv, TransfersTypeOK
<1>1. /\ call' \in [Downloads -> Call]
      /\ \A e \in Downloads : e # d => call'[e] = call[e]
      /\ call'[d].pc = "receive" /\ call'[d].ended = "receiving"
      /\ call'[d].leg = call[d].leg /\ call'[d].token = call[d].token
      /\ call'[d].conn = call[d].conn
  <2>1. /\ call[d] \in Call
        /\ call' = [call EXCEPT ![d] = [call[d] EXCEPT !.pc = "receive", !.ended = "receiving"]]
    BY DEF Routed
  <2>2. [call[d] EXCEPT !.pc = "receive", !.ended = "receiving"] \in Call
    BY <2>1 DEF Call, Labels
  <2> QED
    BY <2>1, <2>2 DEF Call
<1>2. call[d].pc = "wait" /\ call[d].conn # NoDownload
      /\ UNCHANGED <<routerVars, queued, link, waiters>>
  BY DEF Routed, At
<1>3. call[d].token \in Tokens /\ \A t \in Tokens : waiters[t] # d
  BY <1>2 DEF TokenKept, Early, ConnKept
<1> QED
  BY <1>1, <1>2, <1>3, ReceiveInv

LEMMA ProactiveInv == ASSUME IInv, NEW d \in Downloads, Proactive(d) PROVE IInv'
<1>1. At(d, "proactive") /\ UNCHANGED <<routerVars, queued, link, waiters>>
  BY DEF Proactive
<1>2. call[d].token \in Tokens
  BY <1>1 DEF IInv, TokenKept, Early, At
<1>3. CASE Goto(d, "fail")
  <2>1. call[d].conn = NoDownload /\ queued' \subseteq Downloads
    BY <1>1, NoConnYet DEF IInv, TransfersTypeOK, At
  <2> QED
    BY <1>1, <1>2, <1>3, <2>1, GotoInv DEF At, Labels
<1>4. CASE call' = [call EXCEPT ![d].pc = "receive", ![d].ended = "receiving", ![d].conn = d]
  <2> USE DEF IInv, TransfersTypeOK
  <2>1. /\ call' \in [Downloads -> Call]
        /\ \A e \in Downloads : e # d => call'[e] = call[e]
        /\ call'[d].pc = "receive" /\ call'[d].ended = "receiving"
        /\ call'[d].leg = call[d].leg /\ call'[d].token = call[d].token
        /\ call'[d].conn = d
    <3> DEFINE new == [call[d] EXCEPT !.pc = "receive", !.ended = "receiving", !.conn = d]
    <3>1. call[d] \in Call /\ call' = [call EXCEPT ![d] = new]
      BY <1>4
    <3>2. new \in Call
      BY <3>1 DEF Call, Labels
    <3> QED
      BY <3>1, <3>2 DEF Call
  <2>2. \A t \in Tokens : waiters[t] # d
    BY <1>1 DEF WaiterIsWaiting, At
  <2> QED
    BY <1>1, <1>2, <2>1, <2>2, ReceiveInv
<1> QED
  BY <1>3, <1>4 DEF Proactive

LEMMA ChunkInv == ASSUME IInv, NEW d \in Downloads, Chunk(d) PROVE IInv'
<1> USE DEF IInv, TransfersTypeOK
<1>1. /\ call[d] \in Call /\ At(d, "receive") /\ call[d].got < call[d].size
      /\ UNCHANGED <<routerVars, queued, link, waiters>>
  BY DEF Chunk
<1>2. call[d].got + 1 \in 0..MaxSize
  BY <1>1, SizeAssumption DEF Call
<1>3. [call[d] EXCEPT !.got = @ + 1] \in Call
  BY <1>1, <1>2 DEF Call
<1>4. /\ call' \in [Downloads -> Call]
      /\ \A e \in Downloads : e # d => call'[e] = call[e]
      /\ call'[d].pc = "receive" /\ call'[d].ended = call[d].ended
      /\ call'[d].leg = call[d].leg /\ call'[d].token = call[d].token
      /\ call'[d].conn = call[d].conn
  BY <1>1, <1>3 DEF Chunk, At, Call
<1>5. call[d].token \in Tokens /\ call[d].ended = "receiving" /\ \A t \in Tokens : waiters[t] # d
  BY <1>1 DEF TokenKept, Early, EndKept, WaiterIsWaiting, At
<1> QED
  BY <1>1, <1>4, <1>5, ReceiveInv

LEMMA EndInv ==
  ASSUME IInv, NEW d \in Downloads,
         Fail(d) \/ Refuse(d) \/ \E verdict \in {"ok", "err"} : Report(d, verdict)
  PROVE  IInv'
<1>1. PICK end \in {"failed", "refused", "ok", "err"} :
        /\ call' = [call EXCEPT ![d].pc = "done", ![d].ended = end]
        /\ At(d, "fail") \/ At(d, "refuse") \/ At(d, "receive")
        /\ UNCHANGED <<routerVars, queued, link, waiters>>
  BY DEF Fail, Refuse, Report
<1>2. /\ call' \in [Downloads -> Call]
      /\ \A e \in Downloads : e # d => call'[e] = call[e]
      /\ call'[d].pc = "done"
      /\ call'[d].leg = call[d].leg /\ call'[d].token = call[d].token
      /\ call'[d].conn = call[d].conn
  <2>1. call \in [Downloads -> Call] /\ call[d] \in Call /\ call' = [call EXCEPT ![d] = [call[d] EXCEPT !.pc = "done", !.ended = end]]
    BY <1>1 DEF IInv, TransfersTypeOK
  <2>2. [call[d] EXCEPT !.pc = "done", !.ended = end] \in Call
    BY <2>1 DEF Call, Labels
  <2> QED
    BY <2>1, <2>2 DEF Call
<1>3. \A t \in Tokens : waiters[t] # d
  BY <1>1 DEF IInv, WaiterIsWaiting, At
<1>4. UNCHANGED <<routerVars, queued, link, waiters>>
  BY <1>1
<1> QED
  BY <1>2, <1>3, <1>4, ReceiveInv

-----------------------------------------------------------------------------
(* The server *)

\* What a step of the server has to show.
LEMMA CallsQuiet ==
  ASSUME IInv, UNCHANGED ftVars, RouterTypeOK', Asked', AddressReplyNotLost'
  PROVE  IInv'
<1> USE DEF IInv, ftVars
<1>1. TransfersTypeOK'
  BY DEF TransfersTypeOK
<1>2. TokenKept' /\ LinkKept' /\ EndKept'
  BY DEF TokenKept, LinkKept, EndKept, Early, At
<1>3. ConnKept' /\ WaiterIsWaiting' /\ ConnectionsReachTheirDownload'
  BY DEF ConnKept, WaiterIsWaiting, ConnectionsReachTheirDownload, SharedToken
<1> QED
  BY <1>1, <1>2, <1>3

LEMMA AnswerInv ==
  ASSUME IInv, NEW p \in Peers, NEW a \in {"address", "offline"}, Answer(p, a),
         UNCHANGED ftVars
  PROVE  IInv'
<1> USE DEF IInv, TransfersTypeOK
<1>1. \A e \in Downloads : /\ Peer(e) \in Peers /\ Chan(e) \in Callers
                           /\ Chan(e)' = Chan(e) /\ call'[e].pc = call[e].pc
  BY CallersAssumption, PeerAssumption DEF Peer, Chan, Call, ftVars
<1>2. /\ online' = online /\ online
      /\ unanswered' \in [Peers -> Nat]
      /\ \A q \in Peers : q # p => unanswered'[q] = unanswered[q]
  BY DEF Answer, RouterTypeOK
<1>3. /\ subs' \in [Peers -> SUBSET Callers]
      /\ \A q \in Peers : q # p => subs'[q] = subs[q]
  BY DEF Answer, RouterTypeOK
<1>4. /\ answer' \in [Callers -> {"none", "address", "offline"}]
      /\ \A c \in Callers : IF c \in subs[p] THEN answer'[c] # "none"
                             ELSE answer'[c] = answer[c]
  BY DEF Answer, RouterTypeOK
<1>5. RouterTypeOK'
  BY <1>2, <1>3, <1>4 DEF RouterTypeOK
<1>6. Asked'
  <2>1. ASSUME NEW e \in Downloads, call'[e].pc = "ask", answer'[Chan(e)'] = "none"
        PROVE  Chan(e)' \in subs'[Peer(e)]
    <3>1. Chan(e) \in subs[Peer(e)] /\ Peer(e) # p
      BY <1>1, <1>4, <2>1 DEF Asked, At
    <3> QED
      BY <1>1, <1>3, <3>1
  <2> QED
    BY <2>1 DEF Asked, At, Peer
<1>7. AddressReplyNotLost'
  <2>1. ASSUME NEW e \in Downloads, call'[e].pc = "await", answer'[Chan(e)'] = "none"
        PROVE  Chan(e)' \in subs'[Peer(e)] /\ unanswered'[Peer(e)] > 0
    <3>1. Chan(e) \in subs[Peer(e)] /\ Peer(e) # p /\ unanswered[Peer(e)] > 0
      BY <1>1, <1>2, <1>4, <2>1 DEF AddressReplyNotLost, At
    <3> QED
      BY <1>1, <1>2, <1>3, <3>1
  <2> QED
    BY <2>1 DEF AddressReplyNotLost, At, Peer
<1> QED
  BY <1>5, <1>6, <1>7, CallsQuiet

LEMMA ConnectionLostInv == ASSUME IInv, ConnectionLost, UNCHANGED ftVars PROVE IInv'
<1>1. RouterTypeOK'
  BY DEF IInv, TransfersTypeOK, RouterTypeOK, ConnectionLost
<1>2. Asked' /\ AddressReplyNotLost'
  BY DEF IInv, Asked, AddressReplyNotLost, ConnectionLost, ftVars, At, Chan, Peer
<1> QED
  BY <1>1, <1>2, CallsQuiet

-----------------------------------------------------------------------------
LEMMA NextIInv == IInv /\ [TransfersNext]_transferVars => IInv'
<1> SUFFICES ASSUME IInv, [TransfersNext]_transferVars PROVE IInv'
  OBVIOUS
<1>1. ASSUME NEW d \in Downloads, Start(d) \/ CallStep(d) \/ Chunk(d) \/ Dispatch(d)
      PROVE  IInv'
  <2>1. CASE Start(d) \/ Register(d) \/ Ask(d) \/ HaveAddress(d) \/ ConnectPeer(d) \/ NotAllowed(d)
    BY <2>1, StartInv, RegisterInv, AskInv, HaveAddressInv, ConnectInv, NotAllowedInv
  <2>2. CASE \E f \in Downloads, t \in Tokens, n \in 0..MaxSize : Allowed(d, f, t, n)
    BY <2>2, AllowedInv
  <2>3. CASE AddWaiter(d) \/ Dispatch(d) \/ Routed(d) \/ WaitEnds(d) \/ RemoveWaiter(d) \/ Proactive(d)
    BY <2>3, AddWaiterInv, DispatchInv, RoutedInv, WaitEndsInv, RemoveWaiterInv, ProactiveInv
  <2>4. CASE Chunk(d) \/ Fail(d) \/ Refuse(d) \/ \E verdict \in {"ok", "err"} : Report(d, verdict)
    BY <2>4, ChunkInv, EndInv
  <2> QED
    BY <1>1, <2>1, <2>2, <2>3, <2>4 DEF CallStep
<1>2. ASSUME NEW d \in Downloads, NEW direct \in BOOLEAN, Arrive(d, direct) PROVE IInv'
  BY <1>2, ArriveInv
<1>3. CASE Server
  BY <1>3, AnswerInv, ConnectionLostInv DEF Server
<1>4. CASE UNCHANGED transferVars
  <2>1. RouterTypeOK' /\ Asked' /\ AddressReplyNotLost'
    BY <1>4 DEF transferVars, ftVars, routerVars, IInv, TransfersTypeOK, RouterTypeOK, Asked, AddressReplyNotLost,
                At, Chan, Peer
  <2> QED
    BY <1>4, <2>1, CallsQuiet DEF transferVars
<1> QED
  BY <1>1, <1>2, <1>3, <1>4 DEF TransfersNext

LEMMA Invariance == TransfersSpec => []IInv
BY InitIInv, NextIInv, PTL DEF TransfersSpec

\* The state of every call, of the router and of the waiter map keeps its type.
THEOREM TransferTypeCorrect == TransfersSpec => []TransfersTypeOK
BY Invariance, PTL DEF IInv

\* wait_for_f_connection_routed and the dispatcher: an entry of the waiter map
\* always belongs to a call that waits for that token or is about to remove it.
THEOREM WaitersWait == TransfersSpec => []WaiterIsWaiting
BY Invariance, PTL DEF IInv

\* start_file_conn_dispatcher: a call only ever gets another exchange's F
\* connection if the peers chose the same token twice.
THEOREM OwnConnections == TransfersSpec => []ConnectionsReachTheirDownload
BY Invariance, PTL DEF IInv

\* get_peer_address: while the server connection is up no reply to a waiting
\* call is lost, however many calls ask for the same user.
THEOREM RepliesNotLost == TransfersSpec => []AddressReplyNotLost
BY Invariance, PTL DEF IInv

-----------------------------------------------------------------------------
(* initiate_download keeps the promise the queue builds on *)

LEMMA OutcomeInit == TransfersInit => Promise!Init
BY DEF TransfersInit, Promise!Init

\* A step that changes the outcome of one call at most.
LEMMA OutcomeOf ==
  ASSUME IInv, NEW d \in Downloads, call' \in [Downloads -> Call],
         \A e \in Downloads : e # d => call'[e].ended = call[e].ended,
         \/ call'[d].ended = call[d].ended
         \/ call[d].ended = "none" /\ call'[d].ended \in {"refused", "failed", "receiving"}
         \/ call[d].ended = "receiving" /\ call'[d].ended \in {"ok", "err"}
  PROVE  [Promise!Next]_([e \in Downloads |-> call[e].ended])
<1> DEFINE out == [e \in Downloads |-> call[e].ended]
<1>1. CASE call'[d].ended = call[d].ended
  BY <1>1
<1>2. ASSUME NEW from, NEW to, call[d].ended = from, call'[d].ended = to
      PROVE  Promise!Becomes(d, from, to)
  BY <1>2 DEF Promise!Becomes
<1> QED
  BY <1>1, <1>2 DEF Promise!Next

LEMMA OutcomeNext == IInv /\ [TransfersNext]_transferVars => [Promise!Next]_([d \in Downloads |-> call[d].ended])
<1> SUFFICES ASSUME IInv, [TransfersNext]_transferVars
             PROVE  [Promise!Next]_([d \in Downloads |-> call[d].ended])
  OBVIOUS
<1> USE DEF IInv, TransfersTypeOK
<1>0. IInv'
  BY NextIInv
<1>1. CASE \A e \in Downloads : call'[e].ended = call[e].ended
  BY <1>1
<1>2. ASSUME NEW d \in Downloads, Start(d) \/ CallStep(d) \/ Chunk(d) \/ Dispatch(d)
      PROVE  \/ \A e \in Downloads : call'[e].ended = call[e].ended
             \/ /\ \A e \in Downloads : e # d => call'[e].ended = call[e].ended
                /\ \/ call[d].ended = "none" /\ call'[d].ended \in {"refused", "failed", "receiving"}
                   \/ call[d].ended = "receiving" /\ call'[d].ended \in {"ok", "err"}
  <2>1. CASE Start(d) \/ Register(d) \/ Ask(d) \/ HaveAddress(d) \/ ConnectPeer(d) \/ NotAllowed(d)
             \/ AddWaiter(d) \/ WaitEnds(d)
    BY <2>1 DEF Start, Register, Ask, HaveAddress, ConnectPeer, NotAllowed, AddWaiter, WaitEnds, Goto, Call
  <2>2. ASSUME NEW f \in Downloads, NEW t \in Tokens, NEW n \in 0..MaxSize, Allowed(d, f, t, n)
        PROVE  \A e \in Downloads : call'[e].ended = call[e].ended
    BY <2>2 DEF Allowed, Call
  <2>3. CASE Dispatch(d) \/ Chunk(d) \/ RemoveWaiter(d)
    BY <2>3 DEF Dispatch, Chunk, RemoveWaiter, Call
  <2>4. CASE Routed(d) \/ Proactive(d)
    <3>1. call[d].ended = "none"
      BY <2>4 DEF EndKept, Routed, Proactive, At
    <3> QED
      BY <2>4, <3>1 DEF Routed, Proactive, Goto, Call
  <2>5. CASE Fail(d) \/ Refuse(d)
    <3>1. call[d].ended = "none"
      BY <2>5 DEF EndKept, Fail, Refuse, At
    <3> QED
      BY <2>5, <3>1 DEF Fail, Refuse, Call
  <2>6. ASSUME NEW verdict \in {"ok", "err"}, Report(d, verdict)
        PROVE  /\ \A e \in Downloads : e # d => call'[e].ended = call[e].ended
               /\ call[d].ended = "receiving" /\ call'[d].ended = verdict
    BY <2>6 DEF Report, EndKept, At, Call
  <2> QED
    BY <1>2, <2>1, <2>2, <2>3, <2>4, <2>5, <2>6 DEF CallStep
<1>3. ASSUME NEW d \in Downloads, NEW direct \in BOOLEAN, Arrive(d, direct) PROVE call' = call
  BY <1>3 DEF Arrive
<1>4. CASE Server
  BY <1>1, <1>4 DEF Server, ftVars
<1>5. CASE UNCHANGED transferVars
  BY <1>1, <1>5 DEF transferVars, ftVars
<1> QED
  BY <1>0, <1>1, <1>2, <1>3, <1>4, <1>5, OutcomeOf DEF TransfersNext

\* initiate_download: one result per call, and after a spawned transfer one
\* completion, for any number of calls, tokens and peers.
THEOREM TransfersKeepPromise == TransfersSpec => ImplementsOutcome
<1>1. TransfersInit => Promise!Init
  BY OutcomeInit
<1>2. IInv /\ [TransfersNext]_transferVars => [Promise!Next]_([d \in Downloads |-> call[d].ended])
  BY OutcomeNext
<1>3. TransfersSpec => TransfersInit /\ [][TransfersNext]_transferVars /\ []IInv
  BY Invariance, PTL DEF TransfersSpec
<1> QED
  BY <1>1, <1>2, <1>3, PTL DEF ImplementsOutcome, Promise!Spec
=============================================================================
