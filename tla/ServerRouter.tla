---------------------------- MODULE ServerRouter ----------------------------
(***************************************************************************)
(* src/src/protocol/router.rs: the one connection to the Soulseek server.  *)
(* Every task writes requests to it; a reader task dispatches what comes   *)
(* back.  Replies to address requests name only the user, so the router    *)
(* keeps for each user the list of calls that wait, and one reply answers  *)
(* them all.  This module holds that state and one operator per step of a  *)
(* call; the modules that use the router sequence them.                    *)
(***************************************************************************)
EXTENDS Naturals

CONSTANTS
  Peers,    \* users whose address may be asked for
  Callers   \* calls of get_peer_address; each creates one oneshot channel

VARIABLES
  online,       \* the server connection is up and the reader task runs
  unanswered,   \* how many address requests per user the server has to answer
  subs,         \* peer_address_subs: who waits for each user's address
  answer        \* what each call's oneshot channel holds

routerVars == <<online, unanswered, subs, answer>>

RouterTypeOK ==
  /\ online     \in BOOLEAN
  /\ unanswered \in [Peers -> Nat]
  /\ subs       \in [Peers -> SUBSET Callers]
  /\ answer     \in [Callers -> {"none", "address", "offline"}]

RouterInit ==
  /\ online     = TRUE
  /\ unanswered = [p \in Peers |-> 0]
  /\ subs       = [p \in Peers |-> {}]
  /\ answer     = [c \in Callers |-> "none"]

\* get_peer_address, first half: the waiter is in the map before the request
\* is on the wire.
RegisterCaller(p, c) ==
  /\ subs' = [subs EXCEPT ![p] = @ \cup {c}]
  /\ UNCHANGED <<online, unanswered, answer>>

\* get_peer_address, second half: send_message succeeds.  On a connection that
\* is gone the write may still succeed, and the request is lost.
SendRequest(p) ==
  /\ unanswered' = IF online THEN [unanswered EXCEPT ![p] = @ + 1]
                   ELSE unanswered
  /\ UNCHANGED <<online, subs, answer>>

\* Faulty: answers the first waiter only.
AnswerOne(p, a) ==
  /\ online /\ unanswered[p] > 0
  /\ unanswered' = [unanswered EXCEPT ![p] = @ - 1]
  /\ IF subs[p] = {} THEN UNCHANGED <<subs, answer>>
     ELSE \E c \in subs[p] :
            /\ answer' = [answer EXCEPT ![c] = a]
            /\ subs'   = [subs EXCEPT ![p] = {}]
  /\ UNCHANGED online

\* The reader dispatches a GetPeerAddress reply (code 3): the user's whole list
\* is removed and every waiter gets a copy.  Port 0 says the user is offline.
Answer(p, a) ==
  /\ online /\ unanswered[p] > 0
  /\ unanswered' = [unanswered EXCEPT ![p] = @ - 1]
  /\ answer' = [c \in Callers |-> IF c \in subs[p] THEN a ELSE answer[c]]
  /\ subs'   = [subs EXCEPT ![p] = {}]
  /\ UNCHANGED online

\* A read fails: the reader task ends and is not started again.
ConnectionLost ==
  /\ online
  /\ online' = FALSE
  /\ unanswered' = [p \in Peers |-> 0]
  /\ UNCHANGED <<subs, answer>>
=============================================================================
