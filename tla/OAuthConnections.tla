-------------------------- MODULE OAuthConnections --------------------------
(***************************************************************************)
(* OAuthService (src/src/services/oauth/mod.rs) with its two tables and    *)
(* the provider it talks to (src/src/services/oauth/spotify.rs), for one   *)
(* service.                                                                *)
(*                                                                         *)
(* A flow is what start_authorization makes: a random state and a code     *)
(* verifier, the two halves of one row.  A refresh token is a number, whose*)
(* account the provider knows; an access token is of the account of the    *)
(* refresh token it came with.  Encryption is left out: it loses nothing   *)
(* (decrypt_token undoes encrypt_token under one key).  Time is left out:  *)
(* a check of an expiry may go either way.                                 *)
(***************************************************************************)
EXTENDS Requests, Naturals, FiniteSets

CONSTANTS Users, ExternalAccounts, MaxFlow, MaxGrant

ASSUME OAuthBounds == MaxFlow \in Nat /\ MaxGrant \in Nat

Flows   == 1..MaxFlow
Grants  == 1..MaxGrant
NoGrant == 0
NoConnection == [account |-> "none"]

ASSUME NoConnectionAssumption == "none" \notin ExternalAccounts

VARIABLES
  pending,       \* table oauth_pending_states: who started which flow
  connections,   \* table oauth_connections by user
  nextFlow,
  startedBy,     \* history: who was given the URL of a flow
  codes,         \* provider: codes it handed out and nobody exchanged
  approved,      \* provider: the account a flow was approved with
  accountOf,     \* provider: the account of each refresh token it made
  live,          \* provider: refresh tokens it still takes
  nextGrant,
  used,          \* history: flows that made a connection
  raced          \* history: users with a refresh that crossed another change
                 \* of the connection, or whose answer was lost

tableVars    == <<pending, connections, nextFlow, startedBy>>
providerVars == <<codes, approved, accountOf, live, nextGrant>>
oauthVars    == <<tableVars, providerVars, used, raced>>

Code       == [flow : Flows, account : ExternalAccounts]
Connection == [account : ExternalAccounts, grant : Grants \cup {NoGrant}, flow : Flows]

OAuthRequest ==
  {Idle}
    \cup [at : {"insert"}, user : Users, flow : Flows]
    \cup [at : {"deleteState", "exchange"}, user : Users, owner : Users, flow : Flows, code : Code]
    \cup [at : {"connect"}, user : Users, flow : Flows, account : ExternalAccounts,
          grant : Grants \cup {NoGrant}]
    \cup [at : {"refresh"}, user : Users, old : Grants]
    \cup [at : {"update"}, user : Users, old : Grants, new : Grants]

OAuthTypeOK ==
  /\ pending \subseteq [user : Users, flow : Flows]
  /\ connections \in [Users -> Connection \cup {NoConnection}]
  /\ nextFlow \in 1..(MaxFlow + 1) /\ nextGrant \in 1..(MaxGrant + 1)
  /\ startedBy \in [Flows -> SUBSET Users]
  /\ codes \subseteq Code
  /\ approved \in [Flows -> SUBSET ExternalAccounts]
  /\ accountOf \in [Grants -> ExternalAccounts \cup {"none"}]
  /\ live \subseteq Grants
  /\ used \subseteq Flows
  /\ raced \subseteq Users

Connected(u) == connections[u] # NoConnection

OAuthInit ==
  /\ pending = {} /\ connections = [u \in Users |-> NoConnection]
  /\ nextFlow = 1 /\ startedBy = [f \in Flows |-> {}]
  /\ codes = {} /\ approved = [f \in Flows |-> {}]
  /\ accountOf = [g \in Grants |-> "none"] /\ live = {} /\ nextGrant = 1
  /\ used = {} /\ raced = {}

-----------------------------------------------------------------------------
(* start_authorization, and the user's visit to the provider *)

\* create_oauth_pending_state begins with DELETE ... WHERE user AND service.
StartAuthorization(r, u) ==
  /\ Arrives(r) /\ nextFlow <= MaxFlow
  /\ pending'  = {p \in pending : p.user # u}
  /\ nextFlow' = nextFlow + 1
  /\ Goto(r, [at |-> "insert", user |-> u, flow |-> nextFlow])
  /\ UNCHANGED <<connections, startedBy, providerVars, used, raced>>

InsertPendingState(r) ==
  /\ At(r, "insert")
  /\ LET u == req[r].user  f == req[r].flow
     IN /\ pending'   = pending \cup {[user |-> u, flow |-> f]}
        /\ startedBy' = [startedBy EXCEPT ![f] = {u}]
  /\ Finish(r)
  /\ UNCHANGED <<connections, nextFlow, providerVars, used, raced>>

\* The provider: a person approves the flow with an account of theirs, and
\* the browser comes back with a code bound to the flow's challenge.
Approve(f, a) ==
  /\ startedBy[f] # {} /\ approved[f] = {}
  /\ approved' = [approved EXCEPT ![f] = {a}]
  /\ codes'    = codes \cup {[flow |-> f, account |-> a]}
  /\ UNCHANGED <<req, tableVars, accountOf, live, nextGrant, used, raced>>

-----------------------------------------------------------------------------
(* complete_authorization *)

\* Any user may come back with any state and any code: SELECT by the state.
CompleteAuthorization(r, u, p, c) ==
  /\ Arrives(r) /\ p \in pending
  /\ Goto(r, [at |-> "deleteState", user |-> u, owner |-> p.user, flow |-> p.flow, code |-> c])
  /\ UNCHANGED oauthVars

ForgetState(r) == pending' = {p \in pending : p.flow # req[r].flow}

\* Faulty variant: the state is taken from whoever brings it.
DeleteForAnyone(r) ==
  /\ At(r, "deleteState")
  /\ ForgetState(r)
  /\ Finish(r) \/ Goto(r, [req[r] EXCEPT !.at = "exchange"])
  /\ UNCHANGED <<connections, nextFlow, startedBy, providerVars, used, raced>>

\* DELETE, then the checks of the owner and of the expiry.
DeletePendingState(r) ==
  /\ At(r, "deleteState")
  /\ ForgetState(r)
  /\ \/ Finish(r)
     \/ req[r].owner = req[r].user /\ Goto(r, [req[r] EXCEPT !.at = "exchange"])
  /\ UNCHANGED <<connections, nextFlow, startedBy, providerVars, used, raced>>

\* The provider takes a code once and only with the verifier of its flow.
\* The answer may name no refresh token, and may be lost.
Exchange(r) ==
  /\ At(r, "exchange")
  /\ LET c == req[r].code
         Connecting(g) == Goto(r, [at |-> "connect", user |-> req[r].user,
                                   flow |-> req[r].flow, account |-> c.account, grant |-> g])
     IN IF c \in codes /\ c.flow = req[r].flow
        THEN /\ codes' = codes \ {c}
             /\ \/ Finish(r) /\ UNCHANGED <<accountOf, live, nextGrant>>
                \/ Connecting(NoGrant) /\ UNCHANGED <<accountOf, live, nextGrant>>
                \/ /\ nextGrant <= MaxGrant
                   /\ accountOf' = [accountOf EXCEPT ![nextGrant] = c.account]
                   /\ live'      = live \cup {nextGrant}
                   /\ nextGrant' = nextGrant + 1
                   /\ Connecting(nextGrant)
        ELSE Finish(r) /\ UNCHANGED <<codes, accountOf, live, nextGrant>>
  /\ UNCHANGED <<tableVars, approved, used, raced>>

\* INSERT ... ON CONFLICT (user, service) DO UPDATE: the whole row.
UpsertConnection(u, connection) ==
  /\ connections' = [connections EXCEPT ![u] = connection]
  /\ used'  = used \cup {connection.flow}
  /\ raced' = raced \ {u}

\* get_user_profile, and the row if it answered.
Connect(r) ==
  /\ At(r, "connect")
  /\ \/ UNCHANGED <<connections, used, raced>>
     \/ UpsertConnection(req[r].user, [account |-> req[r].account, grant |-> req[r].grant,
                                       flow |-> req[r].flow])
  /\ Finish(r)
  /\ UNCHANGED <<pending, nextFlow, startedBy, providerVars>>

-----------------------------------------------------------------------------
(* disconnect, and get_valid_access_token with refresh_access_token *)

Disconnect(u) ==
  /\ Connected(u)
  /\ connections' = [connections EXCEPT ![u] = NoConnection]
  /\ raced' = raced \ {u}
  /\ UNCHANGED <<req, pending, nextFlow, startedBy, providerVars, used>>

\* Every use of the connection (the playlists and their tracks) reads it
\* first; it goes on here if the access token has expired.
GetValidAccessToken(r, u) ==
  /\ Arrives(r) /\ Connected(u) /\ connections[u].grant # NoGrant
  /\ Goto(r, [at |-> "refresh", user |-> u, old |-> connections[u].grant])
  /\ UNCHANGED oauthVars

\* Faulty variant: a missing refresh token in the answer is stored as it is.
RefreshForgetsOld(r) ==
  /\ At(r, "refresh") /\ req[r].old \in live
  /\ Goto(r, [at |-> "update", user |-> req[r].user, old |-> req[r].old, new |-> NoGrant])
  /\ UNCHANGED oauthVars

\* The provider answers with a new refresh token, which replaces the old one,
\* or with none ("caller should keep old one"); its answer may be lost.
RefreshToken(r) ==
  /\ At(r, "refresh")
  /\ LET u == req[r].user  old == req[r].old
         Updating(g) == Goto(r, [at |-> "update", user |-> u, old |-> old, new |-> g])
     IN \/ Finish(r) /\ UNCHANGED <<accountOf, live, nextGrant, raced>>
        \/ /\ old \in live
           /\ Updating(old) /\ UNCHANGED <<accountOf, live, nextGrant, raced>>
        \/ /\ old \in live /\ nextGrant <= MaxGrant
           /\ accountOf' = [accountOf EXCEPT ![nextGrant] = accountOf[old]]
           /\ live'      = (live \ {old}) \cup {nextGrant}
           /\ nextGrant' = nextGrant + 1
           /\ \/ Updating(nextGrant) /\ UNCHANGED raced
              \/ Finish(r) /\ raced' = raced \cup {u}
  /\ UNCHANGED <<tableVars, codes, approved, used>>

\* UPDATE ... WHERE user AND service: whatever row is there now.
Update(r, grant) ==
  /\ At(r, "update")
  /\ LET u == req[r].user
     IN /\ connections' = IF Connected(u) THEN [connections EXCEPT ![u].grant = grant]
                                          ELSE connections
        /\ raced' = IF Connected(u) /\ connections[u].grant # req[r].old
                    THEN raced \cup {u} ELSE raced
  /\ Finish(r)
  /\ UNCHANGED <<pending, nextFlow, startedBy, providerVars, used>>

\* Faulty variants: the old refresh token is kept, or the row is written
\* whether it is there or not.
UpdateKeepsOld(r) == At(r, "update") /\ Update(r, req[r].old)

UpdateOrInsert(r) ==
  /\ At(r, "update")
  /\ connections' = [connections EXCEPT ![req[r].user] =
       [account |-> accountOf[req[r].new], grant |-> req[r].new,
        flow |-> CHOOSE f \in Flows : accountOf[req[r].new] \in approved[f]]]
  /\ Finish(r)
  /\ UNCHANGED <<pending, nextFlow, startedBy, providerVars, used, raced>>

UpdateTokens(r) == At(r, "update") /\ Update(r, req[r].new)

-----------------------------------------------------------------------------
\* A request dropped while it refreshes may leave the provider with a new
\* refresh token that nobody stores.
AbandonOAuthRequest(r) ==
  /\ ~Arrives(r) /\ Finish(r)
  /\ raced' = IF At(r, "update") THEN raced \cup {req[r].user} ELSE raced
  /\ UNCHANGED <<tableVars, providerVars, used>>

OAuthStep(r) ==
  \/ \E u \in Users : StartAuthorization(r, u) \/ GetValidAccessToken(r, u)
  \/ InsertPendingState(r)
  \/ \E u \in Users, p \in pending, c \in codes : CompleteAuthorization(r, u, p, c)
  \/ DeletePendingState(r) \/ Exchange(r) \/ Connect(r)
  \/ RefreshToken(r) \/ UpdateTokens(r)
  \/ AbandonOAuthRequest(r)

OAuthNext ==
  \/ \E r \in Requests : OAuthStep(r)
  \/ \E f \in Flows, a \in ExternalAccounts : Approve(f, a)
  \/ \E u \in Users : Disconnect(u)

OAuthSpec == OAuthInit /\ RequestsInit /\ [][OAuthNext]_<<req, oauthVars>>

-----------------------------------------------------------------------------
(* Properties *)

\* A connection comes from a flow its own user started, and is to the account
\* that flow was approved with, although states and codes travel through
\* browsers and anyone may send any pair of them.
ConnectionOwner ==
  \A u \in Users : Connected(u) =>
    /\ startedBy[connections[u].flow] = {u}
    /\ approved[connections[u].flow] = {connections[u].account}

\* The tokens of a connection are of the account it names, and the refresh
\* token is one the provider takes, unless a refresh is about to store its
\* successor, crossed another change or lost its answer.
TokensMatchAccount ==
  \A u \in Users \ raced : Connected(u) /\ connections[u].grant # NoGrant =>
    /\ accountOf[connections[u].grant] = connections[u].account
    /\ connections[u].grant \in live
         \/ \E r \in InFlight("update") : req[r].old = connections[u].grant

\* Once disconnected, a user is connected again only through a flow that has
\* made no connection before: a refresh that finds the row gone does not
\* bring it back, and a state used twice does not connect twice.
NoReconnectWithoutApproval ==
  [][\A u \in Users : ~Connected(u) /\ Connected(u)' => connections'[u].flow \notin used]_oauthVars
=============================================================================
