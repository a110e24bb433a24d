--------------------------- MODULE AccountProofs ---------------------------
(***************************************************************************)
(* A user's account: its verification and its mails, for any number of     *)
(* accounts and requests; and its connection to a music service: whose it  *)
(* is, which tokens it holds and how it comes about, for any number of     *)
(* users, requests and flows.                                              *)
(***************************************************************************)
EXTENDS Accounts, OAuthConnections, TLAPS

-----------------------------------------------------------------------------
(* Accounts *)

AccountsReqOK == req \in [Requests -> AccountRequest]

\* Ids are not used again: what is not yet given out has no row.
FreshIds == \A id \in Ids : id >= nextId => users[id] = Absent

FreshTokens ==
  /\ \A id \in Ids : Exists(id) => users[id].token < nextToken
  /\ \A m \in mails : m.token < nextToken
  /\ \A r \in InFlight("mail") : req[r].token < nextToken

\* A token belongs to the row it was made for.
TokensOwned ==
  \A id \in Ids : Exists(id) =>
    /\ \A m \in mails : m.token = users[id].token => m.id = id
    /\ \A r \in InFlight("mail") : req[r].token = users[id].token => req[r].id = id

Mailed(id) == \E m \in mails : m.id = id

VerifyMailed ==
  /\ VerifiedByMail
  /\ \A r \in InFlight("verify") : Mailed(req[r].id)

\* LinkWorks, for the token the row has now.
CurrentLink ==
  \A id \in Newcomers \ lost :
    \/ users[id].verified
    \/ [id |-> id, token |-> users[id].token] \in mails
    \/ \E r \in InFlight("mail") : req[r].id = id /\ req[r].token = users[id].token

AccountsInv ==
  /\ AccountsTypeOK /\ AccountsReqOK /\ FreshIds /\ FreshTokens /\ TokensOwned
  /\ VerifyMailed /\ CurrentLink

-----------------------------------------------------------------------------
(* Rows and requests *)

LEMMA RowExists == \A row \in Row : row # Absent
<1> SUFFICES ASSUME NEW row \in Row, row = Absent PROVE FALSE
  OBVIOUS
<1>1. DOMAIN row = {"name", "verified", "token", "role"}
  BY DEF Row
<1>2. DOMAIN row = {"name"}
  BY DEF Absent
<1>3. "role" \in DOMAIN row /\ "role" \notin DOMAIN row
  <2>1. "role" \in DOMAIN row
    BY <1>1
  <2>2. "role" \notin DOMAIN row
    BY <1>2
  <2> QED
    BY <2>1, <2>2
<1> QED
  BY <1>3

LEMMA RowFields ==
  ASSUME NEW row \in Row
  PROVE  /\ row.name \in Names \cup {"founder"} /\ row.verified \in BOOLEAN
         /\ row.token \in Tokens \cup {NoToken} /\ row.role \in Roles
BY DEF Row

LEMMA RowUpdates ==
  ASSUME NEW row \in Row, NEW t \in Tokens, NEW role \in Roles
  PROVE  /\ [row EXCEPT !.verified = TRUE, !.token = NoToken] \in Row
         /\ [row EXCEPT !.token = t] \in Row
         /\ [row EXCEPT !.role = role] \in Row
BY DEF Row

LEMMA AccountsReqTypes ==
  ASSUME AccountsReqOK, NEW r \in Requests
  PROVE  /\ At(r, "mail") => /\ req[r].id \in Ids /\ req[r].token \in Tokens
                             /\ req[r].rollback \in BOOLEAN
         /\ req[r].at \in {"rollback", "verify", "retoken", "count", "setRole"} =>
              req[r].id \in Ids
         /\ req[r].at \in {"count", "setRole"} => req[r].role \in Roles
<1>1. req[r] \in AccountRequest
  BY DEF AccountsReqOK
<1> QED
  BY <1>1 DEF AccountRequest, At, Idle

LEMMA AccountsReqStates ==
  /\ Idle \in AccountRequest
  /\ \A id \in Ids, t \in Tokens, b \in BOOLEAN :
       [at |-> "mail", id |-> id, token |-> t, rollback |-> b] \in AccountRequest
  /\ \A id \in Ids : [at |-> "rollback", id |-> id] \in AccountRequest
  /\ \A id \in Ids : [at |-> "verify", id |-> id] \in AccountRequest
  /\ \A id \in Ids : [at |-> "retoken", id |-> id] \in AccountRequest
  /\ \A id \in Ids, role \in Roles :
       /\ [at |-> "count", id |-> id, role |-> role] \in AccountRequest
       /\ [at |-> "setRole", id |-> id, role |-> role] \in AccountRequest
BY DEF AccountRequest

\* One request moves, the others stand where they stood.
LEMMA ReqMoves ==
  ASSUME AccountsReqOK, NEW r \in Requests, NEW s \in AccountRequest, Goto(r, s)
  PROVE  /\ AccountsReqOK' /\ req'[r] = s
         /\ \A o \in Requests \ {r} : req'[o] = req[o]
BY DEF AccountsReqOK, Goto

-----------------------------------------------------------------------------
LEMMA AccountsInitInv == AccountsInit /\ RequestsInit => AccountsInv
<1> SUFFICES ASSUME AccountsInit, RequestsInit PROVE AccountsInv
  OBVIOUS
<1> USE DEF AccountsInit, RequestsInit
<1>1. \A r \in Requests : req[r] = Idle
  OBVIOUS
<1>2. [name |-> "founder", verified |-> TRUE, token |-> NoToken, role |-> "admin"] \in Row
  BY DEF Row, Roles
<1>3. \A id \in Ids : users[id].name \notin Names \/ users[id] = Absent
  BY NamesAssumption DEF Absent
<1>4. Newcomers = {}
  BY <1>3 DEF Newcomers, Exists
<1>5. AccountsTypeOK
  <2>1. users \in [Ids -> Row \cup {Absent}]
    BY <1>2
  <2>2. nextId \in 1..(MaxId + 1) /\ nextToken \in 1..(MaxToken + 1)
    BY FoundersAssumption, TokenAssumption
  <2> QED
    BY <2>1, <2>2 DEF AccountsTypeOK
<1>6. AccountsReqOK
  BY AccountsReqStates DEF AccountsReqOK
<1>7. FreshIds
  BY FoundersAssumption DEF FreshIds, Ids
<1>8. FreshTokens
  <2>1. \A id \in Ids : Exists(id) => users[id].token = 0
    BY DEF Exists, NoToken
  <2> QED
    BY <1>1, <2>1 DEF FreshTokens, InFlight, At, Idle
<1>9. TokensOwned
  BY <1>1 DEF TokensOwned, InFlight, At, Idle
<1>10. VerifyMailed
  BY <1>1, <1>4 DEF VerifyMailed, VerifiedByMail, InFlight, At, Idle
<1>11. CurrentLink
  BY <1>4 DEF CurrentLink
<1> QED
  BY <1>5, <1>6, <1>7, <1>8, <1>9, <1>10, <1>11 DEF AccountsInv

-----------------------------------------------------------------------------
(* A request moves on and no row, mail or history changes: it neither leaves *)
(* the sending of a mail nor enters it, and enters a verification only of a  *)
(* row whose link was mailed.                                                *)

LEMMA AccountMoves ==
  ASSUME AccountsInv, NEW r \in Requests, NEW s \in AccountRequest, Goto(r, s),
         UNCHANGED <<users, nextId, nextToken, mails, lost>>, claims' \subseteq Roles,
         ~At(r, "mail"), s.at # "mail",
         s.at = "verify" => Mailed(s.id)
  PROVE  AccountsInv'
<1>1. AccountsReqOK' /\ req'[r] = s /\ \A o \in Requests \ {r} : req'[o] = req[o]
  BY ReqMoves DEF AccountsInv
<1>2. InFlight("mail")' = InFlight("mail") /\ \A o \in InFlight("mail") : req'[o] = req[o]
  BY <1>1 DEF InFlight, At
<1>3. AccountsTypeOK' /\ FreshIds'
  BY DEF AccountsInv, AccountsTypeOK, FreshIds
<1>4. FreshTokens'
  BY <1>2 DEF AccountsInv, FreshTokens, Exists
<1>5. TokensOwned'
  BY <1>2 DEF AccountsInv, TokensOwned, Exists
<1>6. VerifyMailed'
  <2>1. VerifiedByMail'
    BY DEF AccountsInv, VerifyMailed, VerifiedByMail, Newcomers, Exists
  <2>2. \A o \in InFlight("verify")' : Mailed(req[o].id)'
    BY <1>1 DEF AccountsInv, VerifyMailed, InFlight, At, Mailed
  <2> QED
    BY <2>1, <2>2 DEF VerifyMailed
<1>7. CurrentLink'
  BY <1>2 DEF AccountsInv, CurrentLink, Newcomers, Exists
<1> QED
  BY <1>1, <1>3, <1>4, <1>5, <1>6, <1>7 DEF AccountsInv

LEMMA VerifyEmailStep ==
  ASSUME AccountsInv, NEW r \in Requests, NEW t \in Tokens, VerifyEmail(r, t) PROVE AccountsInv'
<1>1. PICK m \in mails : m.token = t
  BY DEF VerifyEmail
<1>2. PICK id \in ByToken(t) : Goto(r, [at |-> "verify", id |-> id])
  BY DEF VerifyEmail
<1>3. id \in Ids /\ m.id = id
  BY <1>1, <1>2 DEF ByToken, AccountsInv, TokensOwned
<1>4. [at |-> "verify", id |-> id] \in AccountRequest
  BY <1>3, AccountsReqStates
<1> QED
  BY <1>1, <1>2, <1>3, <1>4, AccountMoves
     DEF VerifyEmail, Arrives, At, Idle, Mailed, accountVars, AccountsInv, AccountsTypeOK

LEMMA ResendStep ==
  ASSUME AccountsInv, NEW r \in Requests, NEW name \in Names, ResendVerification(r, name) PROVE AccountsInv'
<1>1. PICK id \in ById(name) : Goto(r, [at |-> "retoken", id |-> id])
  BY DEF ResendVerification
<1>2. [at |-> "retoken", id |-> id] \in AccountRequest
  BY <1>1, AccountsReqStates DEF ById
<1> QED
  BY <1>1, <1>2, AccountMoves
     DEF ResendVerification, Arrives, At, Idle, accountVars, AccountsInv, AccountsTypeOK

LEMMA PromoteStep ==
  ASSUME AccountsInv, NEW r \in Requests, NEW id \in Ids, Promote(r, id) PROVE AccountsInv'
<1>1. [at |-> "setRole", id |-> id, role |-> "admin"] \in AccountRequest
  BY AccountsReqStates DEF Roles
<1> QED
  BY <1>1, AccountMoves DEF Promote, Arrives, At, Idle, accountVars, AccountsInv, AccountsTypeOK

LEMMA DemoteStep ==
  ASSUME AccountsInv, NEW r \in Requests, NEW id \in Ids, NEW role \in Roles, Demote(r, id, role)
  PROVE  AccountsInv'
<1> DEFINE s == [at |-> IF users[id].role = "admin" THEN "count" ELSE "setRole",
                 id |-> id, role |-> role]
<1>1. s \in AccountRequest
  BY AccountsReqStates
<1>2. s.at \notin {"mail", "verify"} /\ Goto(r, s)
  BY DEF Demote
<1> HIDE DEF s
<1> QED
  BY <1>1, <1>2, AccountMoves
     DEF Demote, Arrives, At, Idle, accountVars, AccountsInv, AccountsTypeOK

LEMMA CountAdminsStep ==
  ASSUME AccountsInv, NEW r \in Requests, CountAdmins(r) PROVE AccountsInv'
<1> DEFINE s == [at |-> "setRole", id |-> req[r].id, role |-> req[r].role]
<1>0. req[r] \in AccountRequest /\ At(r, "count") /\ req[r].id \in Ids /\ req[r].role \in Roles
  BY AccountsReqTypes DEF CountAdmins, At, AccountsInv, AccountsReqOK
<1>1. [req[r] EXCEPT !.at = "setRole"] = s
  BY <1>0 DEF AccountRequest, At, Idle
<1>2. UNCHANGED accountVars /\ ~At(r, "mail") /\ claims \subseteq Roles
  BY <1>0 DEF CountAdmins, At, AccountsInv, AccountsTypeOK
<1>3. CASE Goto(r, Idle)
  BY <1>2, <1>3, AccountsReqStates, AccountMoves DEF Idle, accountVars
<1>4. CASE Goto(r, s)
  <2>1. s \in AccountRequest
    BY <1>0, AccountsReqStates
  <2> QED
    BY <1>2, <1>4, <2>1, AccountMoves DEF accountVars
<1>5. Goto(r, Idle) \/ Goto(r, s)
  BY <1>1 DEF CountAdmins, Finish
<1> QED
  BY <1>3, <1>4, <1>5

LEMMA LoginStep ==
  ASSUME AccountsInv, NEW r \in Requests, NEW id \in Ids, Login(r, id) PROVE AccountsInv'
<1>1. users[id].role \in Roles
  BY RowFields DEF Login, Exists, AccountsInv, AccountsTypeOK
<1>2. Goto(r, Idle) /\ ~At(r, "mail")
  BY DEF Login, Arrives, Goto, At, Idle, AccountsInv, AccountsReqOK
<1>3. claims' \subseteq Roles
  BY <1>1 DEF Login, AccountsInv, AccountsTypeOK
<1> QED
  BY <1>2, <1>3, AccountsReqStates, AccountMoves DEF Login, Idle

-----------------------------------------------------------------------------
(* register: the new row is nobody's, and its token is in no mail yet. *)

LEMMA RegisterStep ==
  ASSUME AccountsInv, NEW r \in Requests, NEW name \in Names, Register(r, name) PROVE AccountsInv'
<1> DEFINE row == [name |-> name, verified |-> FALSE, token |-> nextToken, role |-> "user"]
           s   == [at |-> "mail", id |-> nextId, token |-> nextToken, rollback |-> TRUE]
<1>0. nextId \in Ids /\ nextToken \in Tokens
  BY DEF Register, CreateUser, AccountsInv, AccountsTypeOK, Ids, Tokens
<1>1. row \in Row
  BY <1>0 DEF Row, Roles
<1>2. users' = [users EXCEPT ![nextId] = row] /\ ~Exists(nextId)
  <2>1. users' = [users EXCEPT ![nextId] = row]
    BY DEF Register, CreateUser
  <2>2. nextId >= nextId
    BY <1>0 DEF Ids
  <2>3. users[nextId] = Absent
    BY <1>0, <2>2 DEF AccountsInv, FreshIds
  <2> QED
    BY <2>1, <2>3 DEF Exists
<1>3. s \in AccountRequest /\ Goto(r, s)
  BY <1>0, AccountsReqStates DEF Register
<1>4. AccountsReqOK' /\ req'[r] = s /\ \A o \in Requests \ {r} : req'[o] = req[o]
  BY <1>3, ReqMoves DEF AccountsInv
<1>5. req[r] = Idle
  BY DEF Register, Arrives
<1>6. InFlight("mail")' = InFlight("mail") \cup {r} /\ r \notin InFlight("mail")
  BY <1>4, <1>5 DEF InFlight, At, Idle
<1>7. /\ users'[nextId] = row /\ users'[nextId] # Absent
      /\ \A id \in Ids \ {nextId} : users'[id] = users[id]
  <2> HIDE DEF row
  <2>1. row # Absent
    BY <1>1, RowExists
  <2>2. users'[nextId] = row /\ \A id \in Ids \ {nextId} : users'[id] = users[id]
    BY <1>0, <1>2 DEF AccountsInv, AccountsTypeOK
  <2> QED
    BY <2>1, <2>2 DEF Exists
<1>8. /\ row.verified = FALSE /\ row.token = nextToken /\ row.role = "user" /\ row.name \in Names
      /\ s.at = "mail" /\ s.id = nextId /\ s.token = nextToken
  OBVIOUS
<1>9. /\ UNCHANGED <<mails, claims, lost>>
      /\ nextId' = nextId + 1 /\ nextToken' = nextToken + 1
      /\ nextId \in Nat /\ nextToken \in Nat
  BY DEF Register, CreateUser, AccountsInv, AccountsTypeOK
<1>10. AccountsTypeOK'
  <2>1. users' \in [Ids -> Row \cup {Absent}]
    BY <1>1, <1>2 DEF AccountsInv, AccountsTypeOK
  <2>2. nextId' \in 1..(MaxId + 1) /\ nextToken' \in 1..(MaxToken + 1)
    BY <1>0, <1>9, FoundersAssumption, TokenAssumption DEF Ids, Tokens
  <2> QED
    BY <1>9, <2>1, <2>2 DEF AccountsInv, AccountsTypeOK
<1> HIDE DEF row, s
<1>11. FreshIds'
  BY <1>0, <1>7, <1>9 DEF AccountsInv, FreshIds, Ids
<1>12. FreshTokens'
  <2>1. \A id \in Ids : Exists(id)' => users'[id].token < nextToken'
    <3> SUFFICES ASSUME NEW id \in Ids, Exists(id)' PROVE users'[id].token < nextToken'
      OBVIOUS
    <3>1. CASE id = nextId
      BY <1>7, <1>8, <1>9, <3>1
    <3>2. CASE id # nextId
      <4>1. users'[id] = users[id] /\ users[id].token < nextToken
        BY <1>7, <3>2 DEF AccountsInv, FreshTokens, Exists
      <4>2. users[id].token \in Nat
        BY <1>7, <3>2, RowFields DEF AccountsInv, AccountsTypeOK, Exists, Tokens, NoToken
      <4> QED
        BY <1>9, <4>1, <4>2
    <3> QED
      BY <3>1, <3>2
  <2>2. \A m \in mails : m.token < nextToken'
    <3>1. \A m \in mails : m.token \in Nat /\ m.token < nextToken
      BY DEF AccountsInv, AccountsTypeOK, FreshTokens, Tokens
    <3> QED
      BY <1>9, <3>1
  <2>3. \A o \in InFlight("mail")' : req'[o].token < nextToken'
    <3> SUFFICES ASSUME NEW o \in InFlight("mail")' PROVE req'[o].token < nextToken'
      OBVIOUS
    <3>1. CASE o = r
      BY <1>4, <1>8, <1>9, <3>1
    <3>2. CASE o # r
      <4>1. o \in InFlight("mail") /\ o \in Requests /\ req'[o] = req[o]
        BY <1>4, <1>6, <3>2 DEF InFlight
      <4>2. req[o].token \in Nat /\ req[o].token < nextToken
        BY <4>1, AccountsReqTypes DEF AccountsInv, FreshTokens, InFlight, Tokens
      <4> QED
        BY <1>9, <4>1, <4>2
    <3> QED
      BY <3>1, <3>2
  <2> QED
    BY <1>9, <2>1, <2>2, <2>3 DEF FreshTokens
<1>13. TokensOwned'
  <2> SUFFICES ASSUME NEW id \in Ids, Exists(id)'
               PROVE  /\ \A m \in mails : m.token = users'[id].token => m.id = id
                      /\ \A o \in InFlight("mail")' :
                           req'[o].token = users'[id].token => req'[o].id = id
    BY <1>9 DEF TokensOwned
  <2>1. \A m \in mails : m.token # nextToken
    BY <1>9 DEF AccountsInv, FreshTokens
  <2>2. \A o \in InFlight("mail") : o \in Requests \ {r} /\ req[o].token # nextToken
    BY <1>6, <1>9 DEF AccountsInv, FreshTokens, InFlight
  <2>3. CASE id = nextId
    BY <1>4, <1>6, <1>7, <1>8, <2>1, <2>2, <2>3
  <2>4. CASE id # nextId
    <3>1. users'[id] = users[id] /\ Exists(id) /\ users[id].token # nextToken
      BY <1>7, <1>9, <2>4 DEF AccountsInv, FreshTokens, Exists
    <3> QED
      BY <1>4, <1>6, <1>8, <2>2, <3>1 DEF AccountsInv, TokensOwned
  <2> QED
    BY <2>3, <2>4
<1>14. VerifyMailed'
  <2>1. VerifiedByMail'
    BY <1>7, <1>8, <1>9 DEF AccountsInv, VerifyMailed, VerifiedByMail, Newcomers, Exists
  <2>2. \A o \in InFlight("verify")' : Mailed(req[o].id)'
    BY <1>4, <1>8, <1>9 DEF AccountsInv, VerifyMailed, InFlight, At, Mailed
  <2> QED
    BY <2>1, <2>2 DEF VerifyMailed
<1>15. CurrentLink'
  <2> SUFFICES ASSUME NEW id \in (Newcomers \ lost)'
               PROVE  \/ users'[id].verified
                      \/ [id |-> id, token |-> users'[id].token] \in mails
                      \/ \E o \in InFlight("mail")' :
                           req'[o].id = id /\ req'[o].token = users'[id].token
    BY <1>9 DEF CurrentLink
  <2>1. CASE id = nextId
    BY <1>4, <1>6, <1>7, <1>8, <2>1
  <2>2. CASE id # nextId
    <3>1. users'[id] = users[id] /\ id \in Newcomers \ lost
      BY <1>7, <1>9, <2>2 DEF Newcomers, Exists
    <3>2. \A o \in InFlight("mail") : o \in InFlight("mail")' /\ req'[o] = req[o]
      BY <1>4, <1>6 DEF InFlight
    <3> QED
      BY <3>1, <3>2 DEF AccountsInv, CurrentLink
  <2> QED
    BY <2>1, <2>2
<1> QED
  BY <1>4, <1>10, <1>11, <1>12, <1>13, <1>14, <1>15 DEF AccountsInv

-----------------------------------------------------------------------------
(* One row is written anew, or deleted, by a request that is then done: it   *)
(* keeps its name, and its token or else becomes verified; no mail changes.  *)

LEMMA Writes ==
  ASSUME AccountsInv, NEW r \in Requests, NEW id \in Ids, Goto(r, Idle), ~At(r, "mail"),
         NEW new \in Row \cup {Absent},
         users' = [users EXCEPT ![id] = new],
         UNCHANGED <<nextId, nextToken, mails, claims, lost>>,
         ~Exists(id) => new = Absent,
         new # Absent =>
           /\ new.name = users[id].name
           /\ new.token = users[id].token \/ (new.token = NoToken /\ new.verified)
           /\ new.verified => users[id].verified \/ Mailed(id)
           /\ users[id].verified => new.verified
  PROVE  AccountsInv'
<1>1. AccountsReqOK' /\ req'[r] = Idle /\ \A o \in Requests \ {r} : req'[o] = req[o]
  BY ReqMoves, AccountsReqStates DEF AccountsInv
<1>2. InFlight("mail")' = InFlight("mail") /\ \A o \in InFlight("mail") : req'[o] = req[o]
  BY <1>1 DEF InFlight, At, Idle
<1>3. /\ users'[id] = new
      /\ \A i \in Ids \ {id} : users'[i] = users[i]
  BY DEF AccountsInv, AccountsTypeOK
<1>4. AccountsTypeOK'
  BY DEF AccountsInv, AccountsTypeOK
<1>5. FreshIds'
  BY <1>3 DEF AccountsInv, FreshIds, Exists
<1>6. \A i \in Ids : Exists(i)' =>
        /\ Exists(i)
        /\ users'[i].name = users[i].name
        /\ users'[i].token = users[i].token \/ (users'[i].token = NoToken /\ users'[i].verified)
        /\ users'[i].verified => users[i].verified \/ Mailed(i)
        /\ users[i].verified => users'[i].verified
  BY <1>3 DEF Exists
<1>7. /\ \A m \in mails : m.token \in Tokens
      /\ \A o \in InFlight("mail") : req[o].token \in Tokens
      /\ NoToken \notin Tokens
      /\ nextToken \in Nat /\ NoToken < nextToken
  BY AccountsReqTypes DEF AccountsInv, AccountsTypeOK, InFlight, Tokens, NoToken
<1>8. FreshTokens'
  BY <1>2, <1>6, <1>7 DEF AccountsInv, FreshTokens
<1>9. TokensOwned'
  BY <1>2, <1>6, <1>7 DEF AccountsInv, TokensOwned
<1>10. VerifyMailed'
  <2>1. VerifiedByMail'
    BY <1>6 DEF AccountsInv, VerifyMailed, VerifiedByMail, Newcomers, Mailed
  <2>2. \A o \in InFlight("verify")' : Mailed(req[o].id)'
    BY <1>1 DEF AccountsInv, VerifyMailed, InFlight, At, Idle, Mailed
  <2> QED
    BY <2>1, <2>2 DEF VerifyMailed
<1>11. CurrentLink'
  <2> SUFFICES ASSUME NEW i \in (Newcomers \ lost)'
               PROVE  \/ users'[i].verified
                      \/ [id |-> i, token |-> users'[i].token] \in mails
                      \/ \E o \in InFlight("mail")' :
                           req'[o].id = i /\ req'[o].token = users'[i].token
    BY DEF CurrentLink
  <2>1. i \in Newcomers \ lost
    BY <1>6 DEF Newcomers
  <2> QED
    BY <1>2, <1>6, <2>1 DEF AccountsInv, CurrentLink, Newcomers
<1> QED
  BY <1>1, <1>4, <1>5, <1>8, <1>9, <1>10, <1>11 DEF AccountsInv

LEMMA NoRow ==
  ASSUME AccountsInv, NEW id \in Ids, ~Exists(id) PROVE users = [users EXCEPT ![id] = Absent]
BY DEF AccountsInv, AccountsTypeOK, Exists

LEMMA DeleteUserStep ==
  ASSUME AccountsInv, NEW r \in Requests, DeleteUser(r) PROVE AccountsInv'
<1> DEFINE id == req[r].id
<1>1. id \in Ids /\ Goto(r, Idle) /\ ~At(r, "mail")
  BY AccountsReqTypes DEF DeleteUser, At, Finish, AccountsInv
<1>2. users' = [users EXCEPT ![id] = Absent]
  BY DEF DeleteUser
<1> HIDE DEF id
<1> QED
  BY <1>1, <1>2, Writes DEF DeleteUser

LEMMA VerifyUserEmailStep ==
  ASSUME AccountsInv, NEW r \in Requests, VerifyUserEmail(r) PROVE AccountsInv'
<1> DEFINE id  == req[r].id
           new == [users[id] EXCEPT !.verified = TRUE, !.token = NoToken]
<1>1. id \in Ids /\ Goto(r, Idle) /\ ~At(r, "mail") /\ Mailed(id)
  BY AccountsReqTypes DEF VerifyUserEmail, At, Finish, AccountsInv, VerifyMailed, InFlight
<1>2. UNCHANGED <<nextId, nextToken, mails, claims, lost>>
  BY DEF VerifyUserEmail
<1>3. CASE ~Exists(id)
  <2>1. users' = users
    BY <1>3 DEF VerifyUserEmail
  <2> HIDE DEF id
  <2> QED
    BY <1>1, <1>2, <2>1, AccountMoves, AccountsReqStates DEF Idle, AccountsInv, AccountsTypeOK
<1>4. CASE Exists(id)
  <2>1. users' = [users EXCEPT ![id] = new]
    BY <1>1, <1>4 DEF VerifyUserEmail, AccountsInv, AccountsTypeOK
  <2>2. users[id] \in Row
    BY <1>1, <1>4 DEF Exists, AccountsInv, AccountsTypeOK
  <2>3. new \in Row
    BY <2>2 DEF Row
  <2>4. /\ new.name = users[id].name /\ new.role = users[id].role
        /\ new.token = NoToken /\ new.verified = TRUE
    BY <2>2 DEF Row
  <2> HIDE DEF id, new
  <2> QED
    BY <1>1, <1>2, <1>4, <2>1, <2>3, <2>4, Writes
<1> QED
  BY <1>3, <1>4

LEMMA UpdateUserRoleStep ==
  ASSUME AccountsInv, NEW r \in Requests, UpdateUserRole(r) PROVE AccountsInv'
<1> DEFINE id  == req[r].id
           new == [users[id] EXCEPT !.role = req[r].role]
<1>1. /\ id \in Ids /\ req[r].role \in Roles
      /\ Goto(r, Idle) /\ ~At(r, "mail") /\ At(r, "setRole")
  BY AccountsReqTypes DEF UpdateUserRole, At, Finish, AccountsInv
<1>2. UNCHANGED <<nextId, nextToken, mails, claims, lost>>
  BY DEF UpdateUserRole
<1>3. CASE ~Exists(id)
  <2>1. users' = users
    BY <1>3 DEF UpdateUserRole
  <2> HIDE DEF id
  <2>2. users' = [users EXCEPT ![id] = Absent]
    BY <1>1, <1>3, <2>1, NoRow
  <2> QED
    BY <1>1, <1>2, <1>3, <2>2, Writes
<1>4. CASE Exists(id)
  <2>1. users' = [users EXCEPT ![id] = new]
    BY <1>1, <1>4 DEF UpdateUserRole, AccountsInv, AccountsTypeOK
  <2>2. users[id] \in Row
    BY <1>1, <1>4 DEF Exists, AccountsInv, AccountsTypeOK
  <2>3. new \in Row
    BY <1>1, <2>2, RowUpdates, TokenAssumption DEF Row
  <2>4. /\ new.name = users[id].name
        /\ new.token = users[id].token /\ new.verified = users[id].verified
    BY <2>2 DEF Row
  <2> HIDE DEF id, new
  <2> QED
    BY <1>1, <1>2, <1>4, <2>1, <2>3, <2>4, Writes
<1> QED
  BY <1>3, <1>4

-----------------------------------------------------------------------------
(* Mails and new tokens *)

LEMMA MailLinkStep ==
  ASSUME AccountsInv, NEW r \in Requests, MailLink(r) PROVE AccountsInv'
<1> DEFINE link == [id |-> req[r].id, token |-> req[r].token]
<1>0. /\ At(r, "mail") /\ r \in InFlight("mail") /\ req[r].id \in Ids /\ req[r].token \in Tokens
      /\ UNCHANGED <<users, nextId, nextToken, claims>>
  BY AccountsReqTypes DEF MailLink, InFlight, AccountsInv
<1>1. PICK s \in AccountRequest : Goto(r, s) /\ s.at \in {"idle", "rollback"}
  <2>1. Idle \in AccountRequest /\ [at |-> "rollback", id |-> req[r].id] \in AccountRequest
    BY <1>0, AccountsReqStates
  <2>2. Goto(r, Idle) \/ Goto(r, [at |-> "rollback", id |-> req[r].id])
    BY DEF MailLink, Finish
  <2> QED
    BY <2>1, <2>2 DEF Idle
<1>2. \/ mails' = mails \cup {link} /\ lost' = lost
      \/ mails' = mails /\ lost' = lost \cup {req[r].id}
  BY DEF MailLink, SendVerificationEmail
<1>3. AccountsReqOK' /\ req'[r] = s /\ \A o \in Requests \ {r} : req'[o] = req[o]
  BY <1>1, ReqMoves DEF AccountsInv
<1>4. InFlight("mail")' = InFlight("mail") \ {r} /\ \A o \in InFlight("mail")' : req'[o] = req[o]
  BY <1>1, <1>3 DEF InFlight, At
<1>5. AccountsTypeOK' /\ FreshIds'
  BY <1>0, <1>2 DEF AccountsInv, AccountsTypeOK, FreshIds
<1>6. FreshTokens'
  BY <1>0, <1>2, <1>4 DEF AccountsInv, FreshTokens, Exists
<1>7. TokensOwned'
  BY <1>0, <1>2, <1>4 DEF AccountsInv, TokensOwned, Exists
<1>8. VerifyMailed'
  <2>1. \A id : Mailed(id) => Mailed(id)'
    BY <1>2 DEF Mailed
  <2>2. VerifiedByMail'
    BY <1>0, <2>1 DEF AccountsInv, VerifyMailed, VerifiedByMail, Newcomers, Exists, Mailed
  <2>3. \A o \in InFlight("verify")' : o \in InFlight("verify") /\ req'[o] = req[o]
    BY <1>1, <1>3 DEF InFlight, At
  <2>4. \A o \in InFlight("verify")' : Mailed(req[o].id)'
    BY <2>1, <2>3 DEF AccountsInv, VerifyMailed, Mailed
  <2> QED
    BY <2>2, <2>4 DEF VerifyMailed
<1>9. CurrentLink'
  <2> SUFFICES ASSUME NEW id \in (Newcomers \ lost)'
               PROVE  \/ users[id].verified
                      \/ [id |-> id, token |-> users[id].token] \in mails'
                      \/ \E o \in InFlight("mail")' :
                           req'[o].id = id /\ req'[o].token = users[id].token
    BY <1>0 DEF CurrentLink
  <2>1. id \in Newcomers \ lost /\ mails \subseteq mails'
    BY <1>0, <1>2 DEF Newcomers, Exists
  <2>2. CASE req[r].id = id /\ req[r].token = users[id].token
    BY <1>2, <2>2
  <2>3. CASE ~(req[r].id = id /\ req[r].token = users[id].token)
    BY <1>4, <2>1, <2>3 DEF AccountsInv, CurrentLink
  <2> QED
    BY <2>2, <2>3
<1> QED
  BY <1>3, <1>5, <1>6, <1>7, <1>8, <1>9 DEF AccountsInv

LEMMA AbandonAccountStep ==
  ASSUME AccountsInv, NEW r \in Requests, AbandonAccountRequest(r) PROVE AccountsInv'
<1>0. Goto(r, Idle) /\ UNCHANGED <<users, nextId, nextToken, mails, claims>>
  BY DEF AbandonAccountRequest, Finish
<1>1. CASE ~At(r, "mail")
  BY <1>0, <1>1, AccountMoves, AccountsReqStates DEF AbandonAccountRequest, Idle, AccountsInv, AccountsTypeOK
<1>2. CASE At(r, "mail")
  <2>1. req[r].id \in Ids /\ lost' = lost \cup {req[r].id}
    BY <1>2, AccountsReqTypes DEF AbandonAccountRequest, AccountsInv
  <2>2. AccountsReqOK' /\ req'[r] = Idle /\ \A o \in Requests \ {r} : req'[o] = req[o]
    BY <1>0, ReqMoves, AccountsReqStates DEF AccountsInv
  <2>3. /\ InFlight("mail")' = InFlight("mail") \ {r}
        /\ \A o \in InFlight("mail")' : req'[o] = req[o]
    BY <2>2 DEF InFlight, At, Idle
  <2>4. AccountsTypeOK' /\ FreshIds'
    BY <1>0, <2>1 DEF AccountsInv, AccountsTypeOK, FreshIds
  <2>5. FreshTokens'
    BY <1>0, <2>3 DEF AccountsInv, FreshTokens, Exists
  <2>6. TokensOwned'
    BY <1>0, <2>3 DEF AccountsInv, TokensOwned, Exists
  <2>7. VerifyMailed'
    <3>1. VerifiedByMail'
      BY <1>0 DEF AccountsInv, VerifyMailed, VerifiedByMail, Newcomers, Exists
    <3>2. \A o \in InFlight("verify")' : Mailed(req[o].id)'
      BY <1>0, <2>2 DEF AccountsInv, VerifyMailed, InFlight, At, Idle, Mailed
    <3> QED
      BY <3>1, <3>2 DEF VerifyMailed
  <2>8. CurrentLink'
    <3> SUFFICES ASSUME NEW id \in (Newcomers \ lost)'
                 PROVE  \/ users[id].verified
                        \/ [id |-> id, token |-> users[id].token] \in mails
                        \/ \E o \in InFlight("mail")' :
                             req'[o].id = id /\ req'[o].token = users[id].token
      BY <1>0 DEF CurrentLink
    <3>1. id \in Newcomers \ lost /\ id # req[r].id
      BY <1>0, <2>1 DEF Newcomers, Exists
    <3> QED
      BY <2>3, <3>1 DEF AccountsInv, CurrentLink
  <2> QED
    BY <2>2, <2>4, <2>5, <2>6, <2>7, <2>8 DEF AccountsInv
<1> QED
  BY <1>1, <1>2

LEMMA UpdateTokenStep ==
  ASSUME AccountsInv, NEW r \in Requests, UpdateVerificationToken(r) PROVE AccountsInv'
<1> DEFINE id  == req[r].id
           s   == [at |-> "mail", id |-> id, token |-> nextToken, rollback |-> FALSE]
           new == [users[id] EXCEPT !.token = nextToken]
<1>0. /\ id \in Ids /\ nextToken \in Tokens /\ nextToken \in Nat
      /\ At(r, "retoken") /\ Goto(r, s)
      /\ lost' = lost \ {id} /\ nextToken' = nextToken + 1
      /\ UNCHANGED <<nextId, mails, claims>>
  BY AccountsReqTypes DEF UpdateVerificationToken, At, AccountsInv, AccountsTypeOK, Tokens
<1>1. /\ s \in AccountRequest
      /\ s.at = "mail" /\ s.id = id /\ s.token = nextToken
  BY <1>0, AccountsReqStates
<1>2. AccountsReqOK' /\ req'[r] = s /\ \A o \in Requests \ {r} : req'[o] = req[o]
  BY <1>0, <1>1, ReqMoves DEF AccountsInv
<1>3. InFlight("mail")' = InFlight("mail") \cup {r} /\ r \notin InFlight("mail")
  BY <1>0, <1>1, <1>2 DEF InFlight, At
<1>4. /\ \A i \in Ids \ {id} : users'[i] = users[i]
      /\ ~Exists(id) => users' = users
      /\ Exists(id) => /\ users' = [users EXCEPT ![id] = new]
                       /\ users[id] \in Row /\ new \in Row
                       /\ users'[id] = new /\ users'[id] # Absent
                       /\ new.name = users[id].name /\ new.role = users[id].role
                       /\ new.verified = users[id].verified /\ new.token = nextToken
  <2>1. CASE ~Exists(id)
    BY <2>1 DEF UpdateVerificationToken
  <2>2. CASE Exists(id)
    <3>1. users' = [users EXCEPT ![id] = new]
      BY <1>0, <2>2 DEF UpdateVerificationToken, AccountsInv, AccountsTypeOK
    <3>2. users[id] \in Row
      BY <1>0, <2>2 DEF Exists, AccountsInv, AccountsTypeOK
    <3>3. /\ new \in Row
          /\ new.name = users[id].name /\ new.role = users[id].role
          /\ new.verified = users[id].verified /\ new.token = nextToken
      BY <1>0, <3>2 DEF Row
    <3> HIDE DEF id, new
    <3>4. users'[id] = new /\ \A i \in Ids \ {id} : users'[i] = users[i]
      BY <1>0, <3>1 DEF AccountsInv, AccountsTypeOK
    <3>5. users'[id] # Absent
      BY <3>3, <3>4, RowExists
    <3> QED
      BY <2>2, <3>1, <3>2, <3>3, <3>4, <3>5
  <2> QED
    BY <2>1, <2>2
<1> HIDE DEF id, s, new
<1>5. AccountsTypeOK'
  <2>1. users' \in [Ids -> Row \cup {Absent}]
    BY <1>0, <1>4 DEF AccountsInv, AccountsTypeOK
  <2>2. nextToken' \in 1..(MaxToken + 1)
    BY <1>0, TokenAssumption DEF Tokens
  <2> QED
    BY <1>0, <2>1, <2>2 DEF AccountsInv, AccountsTypeOK
<1>6. \A i \in Ids : Exists(i)' => /\ Exists(i)
                                   /\ users'[i].name = users[i].name
                                   /\ users'[i].verified = users[i].verified
                                   /\ users'[i].role = users[i].role
                                   /\ users'[i].token = (IF i = id THEN nextToken ELSE users[i].token)
  BY <1>4 DEF Exists
<1>7. \A i \in Ids : Exists(i) => Exists(i)'
  BY <1>4 DEF Exists
<1>8. FreshIds'
  BY <1>0, <1>6 DEF AccountsInv, FreshIds, Exists
<1>9. /\ \A i \in Ids : Exists(i) => users[i].token \in Nat /\ users[i].token < nextToken
      /\ \A m \in mails : m.token \in Nat /\ m.token < nextToken
      /\ \A o \in InFlight("mail") : req[o].token \in Nat /\ req[o].token < nextToken
  <2>1. \A i \in Ids : Exists(i) => users[i].token \in Nat
    BY RowFields DEF AccountsInv, AccountsTypeOK, Exists, Tokens, NoToken
  <2>2. \A m \in mails : m.token \in Nat
    BY DEF AccountsInv, AccountsTypeOK, Tokens
  <2>3. \A o \in InFlight("mail") : req[o].token \in Nat
    BY AccountsReqTypes DEF AccountsInv, InFlight, Tokens
  <2> QED
    BY <2>1, <2>2, <2>3 DEF AccountsInv, FreshTokens
<1>10. \A o \in InFlight("mail")' :
         \/ o = r /\ req'[o].id = id /\ req'[o].token = nextToken
         \/ o \in InFlight("mail") /\ req'[o] = req[o]
  BY <1>1, <1>2, <1>3 DEF InFlight
<1>11. FreshTokens'
  <2>1. \A i \in Ids : Exists(i)' => users'[i].token < nextToken'
    BY <1>0, <1>6, <1>9
  <2>2. \A m \in mails : m.token < nextToken'
    BY <1>0, <1>9
  <2>3. \A o \in InFlight("mail")' : req'[o].token < nextToken'
    BY <1>0, <1>9, <1>10
  <2> QED
    BY <1>0, <2>1, <2>2, <2>3 DEF FreshTokens
<1>12. TokensOwned'
  <2> SUFFICES ASSUME NEW i \in Ids, Exists(i)'
               PROVE  /\ \A m \in mails : m.token = users'[i].token => m.id = i
                      /\ \A o \in InFlight("mail")' :
                           req'[o].token = users'[i].token => req'[o].id = i
    BY <1>0 DEF TokensOwned
  <2>1. CASE i = id
    BY <1>0, <1>6, <1>9, <1>10, <2>1
  <2>2. CASE i # id
    BY <1>0, <1>6, <1>9, <1>10, <2>2 DEF AccountsInv, TokensOwned
  <2> QED
    BY <2>1, <2>2
<1>13. VerifyMailed'
  <2>1. VerifiedByMail'
    BY <1>0, <1>6 DEF AccountsInv, VerifyMailed, VerifiedByMail, Newcomers
  <2>2. \A o \in InFlight("verify")' : Mailed(req[o].id)'
    BY <1>0, <1>1, <1>2 DEF AccountsInv, VerifyMailed, InFlight, At, Mailed
  <2> QED
    BY <2>1, <2>2 DEF VerifyMailed
<1>14. CurrentLink'
  <2> SUFFICES ASSUME NEW i \in (Newcomers \ lost)'
               PROVE  \/ users'[i].verified
                      \/ [id |-> i, token |-> users'[i].token] \in mails
                      \/ \E o \in InFlight("mail")' :
                           req'[o].id = i /\ req'[o].token = users'[i].token
    BY <1>0 DEF CurrentLink
  <2>1. CASE i = id
    <3>1. users'[i].token = nextToken
      BY <1>6, <2>1 DEF Newcomers
    <3> QED
      BY <1>1, <1>2, <1>3, <2>1, <3>1
  <2>2. CASE i # id
    <3>1. i \in Newcomers \ lost /\ users'[i] = users[i]
      BY <1>0, <1>4, <1>6, <2>2 DEF Newcomers
    <3>2. \A o \in InFlight("mail") : o \in InFlight("mail")' /\ req'[o] = req[o]
      BY <1>2, <1>3 DEF InFlight
    <3> QED
      BY <3>1, <3>2 DEF AccountsInv, CurrentLink
  <2> QED
    BY <2>1, <2>2
<1> QED
  BY <1>2, <1>5, <1>8, <1>11, <1>12, <1>13, <1>14 DEF AccountsInv

-----------------------------------------------------------------------------
(* The theorems *)

LEMMA AccountsNextInv == AccountsInv /\ [AccountsNext]_<<req, accountVars>> => AccountsInv'
<1> SUFFICES ASSUME AccountsInv, [AccountsNext]_<<req, accountVars>> PROVE AccountsInv'
  OBVIOUS
<1>1. CASE UNCHANGED <<req, accountVars>>
  <2>1. /\ InFlight("mail")' = InFlight("mail") /\ InFlight("verify")' = InFlight("verify")
        /\ Newcomers' = Newcomers
    BY <1>1 DEF accountVars, InFlight, At, Newcomers, Exists
  <2> QED
    BY <1>1, <2>1
       DEF accountVars, AccountsInv, AccountsTypeOK, AccountsReqOK, FreshIds, FreshTokens, TokensOwned, Exists,
           VerifyMailed, VerifiedByMail, Mailed, CurrentLink, At
<1>2. CASE \E r \in Requests : AccountStep(r)
  <2> SUFFICES ASSUME NEW r \in Requests, AccountStep(r) PROVE AccountsInv'
    BY <1>2
  <2>1. CASE \E name \in Names : Register(r, name)
    BY <2>1, RegisterStep
  <2>2. CASE \E name \in Names : ResendVerification(r, name)
    BY <2>2, ResendStep
  <2>3. CASE MailLink(r)
    BY <2>3, MailLinkStep
  <2>4. CASE DeleteUser(r)
    BY <2>4, DeleteUserStep
  <2>5. CASE \E t \in Tokens : VerifyEmail(r, t)
    BY <2>5, VerifyEmailStep
  <2>6. CASE VerifyUserEmail(r)
    BY <2>6, VerifyUserEmailStep
  <2>7. CASE UpdateVerificationToken(r)
    BY <2>7, UpdateTokenStep
  <2>8. CASE \E id \in Ids : Login(r, id)
    BY <2>8, LoginStep
  <2>9. CASE \E id \in Ids : Promote(r, id)
    BY <2>9, PromoteStep
  <2>10. CASE \E id \in Ids, role \in Roles : Demote(r, id, role)
    BY <2>10, DemoteStep
  <2>11. CASE CountAdmins(r)
    BY <2>11, CountAdminsStep
  <2>12. CASE UpdateUserRole(r)
    BY <2>12, UpdateUserRoleStep
  <2>13. CASE AbandonAccountRequest(r)
    BY <2>13, AbandonAccountStep
  <2> QED
    BY <2>1, <2>2, <2>3, <2>4, <2>5, <2>6, <2>7, <2>8, <2>9, <2>10, <2>11, <2>12, <2>13
       DEF AccountStep
<1> QED
  BY <1>1, <1>2 DEF AccountsNext

\* The inductive invariant: ids and tokens are given out once, and the links in
\* mailboxes are those of the rows.
THEOREM AccountsInvariance == AccountsSpec => []AccountsInv
<1> QED
  BY AccountsInitInv, AccountsNextInv, PTL DEF AccountsSpec

\* Whatever is registered, rolled back and registered again while a link is
\* followed: an account is verified only after a link to it was mailed.
THEOREM VerifiedAccountsWereMailed == AccountsSpec => []VerifiedByMail
<1>1. AccountsInv => VerifiedByMail
  BY DEF AccountsInv, VerifyMailed
<1> QED
  BY AccountsInvariance, <1>1, PTL

\* The link a person got is the one the table knows.
THEOREM LinksWork == AccountsSpec => []LinkWorks
<1>1. AccountsInv => LinkWorks
  BY DEF AccountsInv, CurrentLink, LinkWorks
<1> QED
  BY AccountsInvariance, <1>1, PTL

\* Rows, mails and requests in flight keep their types.
THEOREM AccountTypeCorrect == AccountsSpec => [](AccountsTypeOK /\ AccountsReqOK)
<1>1. AccountsInv => AccountsTypeOK /\ AccountsReqOK
  BY DEF AccountsInv
<1> QED
  BY AccountsInvariance, <1>1, PTL

-----------------------------------------------------------------------------
(* Connections *)

(* Flows: a state row and what is made of it belong to the user who started *)
(* the flow; one flow makes one code, and one code one connection.          *)

FreshFlows == \A f \in Flows : f >= nextFlow => startedBy[f] = {}

PendingOwned == \A p \in pending : startedBy[p.flow] = {p.user}

InsertOnce ==
  \A r \in InFlight("insert") :
    /\ startedBy[req[r].flow] = {} /\ req[r].flow < nextFlow
    /\ \A o \in InFlight("insert") \ {r} : req[o].flow # req[r].flow

OwnersChecked ==
  \A r \in Requests :
    /\ req[r].at \in {"deleteState", "exchange"} => startedBy[req[r].flow] = {req[r].owner}
    /\ At(r, "exchange") => req[r].owner = req[r].user

ConnectOnce ==
  \A r \in InFlight("connect") :
    /\ startedBy[req[r].flow] = {req[r].user}
    /\ approved[req[r].flow] = {req[r].account}
    /\ req[r].flow \notin used
    /\ \A o \in InFlight("connect") \ {r} : req[o].flow # req[r].flow

CodesOnce ==
  \A c \in codes :
    /\ approved[c.flow] = {c.account} /\ c.flow \notin used
    /\ \A r \in InFlight("connect") : req[r].flow # c.flow

UsedApproved == \A f \in used : approved[f] # {}

(* Refresh tokens: those of a row that requests have read, and those that  *)
(* the provider made and no row holds yet.                                 *)

Held(r) == IF req[r].at \in {"refresh", "update"} THEN {req[r].old} ELSE {}

Brought(r) ==
  IF At(r, "connect") /\ req[r].grant # NoGrant THEN {req[r].grant}
  ELSE IF At(r, "update") /\ req[r].new # req[r].old THEN {req[r].new} ELSE {}

Has(u, g) == Connected(u) /\ connections[u].grant = g

FreshGrants ==
  /\ \A g \in live : g < nextGrant
  /\ \A u \in Users : Connected(u) => connections[u].grant < nextGrant
  /\ \A r \in Requests : \A g \in Held(r) \cup Brought(r) : g < nextGrant

\* A refresh token that no row holds yet is taken by the provider, and known
\* to the request that brings it and to no other.
BroughtOnce ==
  \A r \in Requests : \A g \in Brought(r) :
    /\ g \in live
    /\ \A u \in Users : ~Has(u, g)
    /\ \A o \in Requests : g \notin Held(o) /\ (o # r => g \notin Brought(o))

\* A refresh token stays with one user.
GrantOwned ==
  /\ \A r \in Requests, u \in Users : \A g \in Held(r) : Has(u, g) => u = req[r].user
  /\ \A r, o \in Requests : \A g \in Held(r) : g \in Held(o) => req[r].user = req[o].user
  /\ \A u, v \in Users, g \in Grants : Has(u, g) /\ Has(v, g) => u = v

AccountsKept ==
  \A r \in Requests :
    /\ At(r, "connect") /\ req[r].grant # NoGrant => accountOf[req[r].grant] = req[r].account
    /\ At(r, "update") => accountOf[req[r].new] = accountOf[req[r].old]

\* TokensMatchAccount, with a successor for a token that is no longer taken.
RowsMatch ==
  \A u \in Users \ raced : Connected(u) /\ connections[u].grant # NoGrant =>
    /\ accountOf[connections[u].grant] = connections[u].account
    /\ connections[u].grant \in live
         \/ \E r \in InFlight("update") :
              req[r].old = connections[u].grant /\ req[r].new # req[r].old

OAuthReqOK == req \in [Requests -> OAuthRequest]

FlowInv  == /\ FreshFlows /\ PendingOwned /\ InsertOnce /\ OwnersChecked
            /\ ConnectOnce /\ CodesOnce /\ UsedApproved /\ ConnectionOwner
GrantInv == FreshGrants /\ BroughtOnce /\ GrantOwned /\ AccountsKept /\ RowsMatch
OAuthInv == OAuthTypeOK /\ OAuthReqOK /\ FlowInv /\ GrantInv

-----------------------------------------------------------------------------
(* Requests and their types *)

LEMMA OAuthReqTypes ==
  ASSUME OAuthReqOK, NEW r \in Requests
  PROVE  /\ At(r, "insert") => req[r].user \in Users /\ req[r].flow \in Flows
         /\ req[r].at \in {"deleteState", "exchange"} =>
              /\ req[r].user \in Users /\ req[r].owner \in Users
              /\ req[r].flow \in Flows /\ req[r].code \in Code
         /\ At(r, "connect") =>
              /\ req[r].user \in Users /\ req[r].flow \in Flows
              /\ req[r].account \in ExternalAccounts /\ req[r].grant \in Grants \cup {NoGrant}
         /\ At(r, "refresh") => req[r].user \in Users /\ req[r].old \in Grants
         /\ At(r, "update") =>
              req[r].user \in Users /\ req[r].old \in Grants /\ req[r].new \in Grants
<1>1. req[r] \in OAuthRequest
  BY DEF OAuthReqOK
<1> QED
  BY <1>1 DEF OAuthRequest, At, Idle

LEMMA OAuthReqStates ==
  /\ Idle \in OAuthRequest
  /\ \A u \in Users, f \in Flows : [at |-> "insert", user |-> u, flow |-> f] \in OAuthRequest
  /\ \A u, o \in Users, f \in Flows, c \in Code :
       [at |-> "deleteState", user |-> u, owner |-> o, flow |-> f, code |-> c] \in OAuthRequest
  /\ \A u \in Users, f \in Flows, a \in ExternalAccounts, g \in Grants \cup {NoGrant} :
       [at |-> "connect", user |-> u, flow |-> f, account |-> a, grant |-> g] \in OAuthRequest
  /\ \A u \in Users, g \in Grants : [at |-> "refresh", user |-> u, old |-> g] \in OAuthRequest
  /\ \A u \in Users, g, h \in Grants :
       [at |-> "update", user |-> u, old |-> g, new |-> h] \in OAuthRequest
BY DEF OAuthRequest

LEMMA GotoFacts ==
  ASSUME OAuthReqOK, NEW r \in Requests, NEW state \in OAuthRequest, Goto(r, state)
  PROVE  OAuthReqOK' /\ req'[r] = state /\ \A o \in Requests : o # r => req'[o] = req[o]
BY DEF OAuthReqOK, Goto

\* The grants of a request are numbers from 1.
LEMMA GrantTypes ==
  ASSUME OAuthReqOK, NEW r \in Requests
  PROVE  Held(r) \subseteq Grants /\ Brought(r) \subseteq Grants
BY OAuthReqTypes DEF Held, Brought, At

LEMMA OAuthInitInv == OAuthInit /\ RequestsInit => OAuthInv
<1> SUFFICES ASSUME OAuthInit, RequestsInit PROVE OAuthInv
  OBVIOUS
<1> USE DEF OAuthInit, RequestsInit
<1>1. OAuthTypeOK
  BY OAuthBounds DEF OAuthTypeOK, Flows, Grants, Code
<1>2. OAuthReqOK
  BY OAuthReqStates DEF OAuthReqOK
<1>3. FlowInv
  BY DEF FlowInv, FreshFlows, PendingOwned, InsertOnce, OwnersChecked, ConnectOnce, CodesOnce,
         UsedApproved, ConnectionOwner, InFlight, At, Idle, Connected
<1>4. GrantInv
  BY DEF GrantInv, FreshGrants, BroughtOnce, GrantOwned, AccountsKept, RowsMatch, Held, Brought,
         Has, At, Idle, Connected
<1> QED
  BY <1>1, <1>2, <1>3, <1>4 DEF OAuthInv

-----------------------------------------------------------------------------
(* Steps that leave the flows, or the refresh tokens, alone *)

\* Rows may go, or get other tokens.
LEMMA QuietFlows ==
  ASSUME FlowInv, UNCHANGED <<nextFlow, startedBy, approved, used>>,
         pending' \subseteq pending, codes' \subseteq codes,
         \A o \in Requests : req'[o] = req[o] \/ req'[o].at \in {"idle", "refresh", "update"},
         \A u \in Users : \/ connections'[u] = NoConnection
                          \/ /\ Connected(u)
                             /\ connections'[u].flow = connections[u].flow
                             /\ connections'[u].account = connections[u].account
  PROVE  FlowInv'
<1> USE DEF FlowInv
<1>1. \A l \in {"insert", "deleteState", "exchange", "connect"}, o \in Requests :
        req'[o].at = l => req'[o] = req[o]
  OBVIOUS
<1>2. FreshFlows' /\ PendingOwned' /\ UsedApproved'
  BY DEF FreshFlows, PendingOwned, UsedApproved
<1>3. InsertOnce' /\ OwnersChecked'
  <2>1. \A o \in Requests : At(o, "insert")' => req'[o] = req[o] /\ At(o, "insert")
    BY <1>1 DEF At
  <2>2. InsertOnce'
    BY <2>1 DEF InsertOnce, InFlight
  <2>3. \A o \in Requests : req'[o].at \in {"deleteState", "exchange"} => req'[o] = req[o]
    BY <1>1
  <2>4. OwnersChecked'
    BY <2>3 DEF OwnersChecked, At
  <2> QED
    BY <2>2, <2>4
<1>4. ConnectOnce' /\ CodesOnce'
  <2>1. \A o \in Requests : At(o, "connect")' => req'[o] = req[o] /\ At(o, "connect")
    BY <1>1 DEF At
  <2>2. ConnectOnce'
    BY <2>1 DEF ConnectOnce, InFlight
  <2>3. CodesOnce'
    BY <2>1 DEF CodesOnce, InFlight
  <2> QED
    BY <2>2, <2>3
<1>5. ConnectionOwner'
  BY DEF ConnectionOwner, Connected
<1> QED
  BY <1>2, <1>3, <1>4, <1>5

\* Requests other than refreshes may move; one that was to store a refresh
\* token only if its user's row is gone or known to be raced.
LEMMA QuietGrants ==
  ASSUME GrantInv, OAuthReqOK, NEW r \in Requests, UNCHANGED <<connections, accountOf, live, nextGrant>>,
         raced \subseteq raced', raced' \subseteq Users,
         \A o \in Requests : o # r => req'[o] = req[o],
         req'[r] = req[r] \/ req'[r].at \notin {"connect", "refresh", "update"}
           \/ (At(r, "exchange") /\ req'[r].at = "connect" /\ req'[r].grant = NoGrant),
         At(r, "update") => req'[r] = req[r] \/ req[r].user \in raced' \/ ~Connected(req[r].user)
  PROVE  GrantInv'
<1> USE DEF GrantInv
<1>1. \A o \in Requests : Held(o)' \subseteq Held(o) /\ Brought(o)' \subseteq Brought(o)
  BY DEF Held, Brought, At
<1>2. \A u \in Users : \A g : Has(u, g)' <=> Has(u, g)
  BY DEF Has, Connected
<1>3. FreshGrants' /\ BroughtOnce'
  BY <1>1, <1>2 DEF FreshGrants, BroughtOnce, Connected
<1>4. GrantOwned'
  <2>1. \A o \in Requests : Held(o)' # {} => req'[o] = req[o]
    BY DEF Held
  <2> QED
    BY <1>1, <1>2, <2>1 DEF GrantOwned
<1>5. AccountsKept'
  BY DEF AccountsKept, At
<1>6. RowsMatch'
  <2>1. ASSUME NEW u \in Users \ raced', Connected(u), connections[u].grant # NoGrant,
               NEW o \in InFlight("update"), req[o].old = connections[u].grant,
               req[o].new # req[o].old
        PROVE  req'[o] = req[o]
    <3>1. CASE o # r
      BY <2>1, <3>1 DEF InFlight
    <3>2. CASE o = r
      <4>1. Has(u, req[o].old) /\ req[o].old \in Held(o) /\ o \in Requests
        BY <2>1 DEF Has, Held, InFlight, At
      <4>2. u = req[r].user
        BY <3>2, <4>1 DEF GrantOwned
      <4> QED
        BY <2>1, <3>2, <4>2 DEF InFlight
    <3> QED
      BY <3>1, <3>2
  <2> QED
    BY <2>1 DEF RowsMatch, Connected, InFlight, At
<1> QED
  BY <1>3, <1>4, <1>5, <1>6

-----------------------------------------------------------------------------
(* The flow of an authorization *)

\* What a request does that ends, or changes only its place and the states.
LEMMA DropInv ==
  ASSUME OAuthInv, NEW r \in Requests, Finish(r), pending' \subseteq pending, codes' \subseteq codes,
         UNCHANGED <<connections, nextFlow, startedBy, approved, accountOf, live, nextGrant, used>>,
         raced \subseteq raced', raced' \subseteq Users,
         At(r, "update") => req[r].user \in raced' \/ ~Connected(req[r].user)
  PROVE  OAuthInv'
<1> USE DEF OAuthInv
<1>1. OAuthReqOK' /\ req'[r] = Idle /\ \A o \in Requests : o # r => req'[o] = req[o]
  BY OAuthReqStates, GotoFacts DEF Finish
<1>2. OAuthTypeOK'
  BY DEF OAuthTypeOK
<1>3. FlowInv'
  <2>1. \A u \in Users : connections'[u] = NoConnection \/ Connected(u)
    BY DEF Connected
  <2> QED
    BY <1>1, <2>1, QuietFlows DEF Idle
<1>4. GrantInv'
  BY <1>1, QuietGrants DEF Idle
<1> QED
  BY <1>1, <1>2, <1>3, <1>4

LEMMA StartInv ==
  ASSUME OAuthInv, NEW r \in Requests, NEW u \in Users, StartAuthorization(r, u)
  PROVE  OAuthInv'
<1> USE DEF OAuthInv
<1> DEFINE state == [at |-> "insert", user |-> u, flow |-> nextFlow]
<1>1. nextFlow \in Flows /\ nextFlow \in Nat /\ At(r, "idle")
  BY OAuthBounds DEF StartAuthorization, OAuthTypeOK, Flows, Arrives, At, Idle
<1>2. /\ nextFlow' = nextFlow + 1 /\ pending' \subseteq pending
      /\ UNCHANGED <<connections, startedBy, providerVars, used, raced>>
  BY DEF StartAuthorization
<1>3. OAuthReqOK' /\ req'[r] = state /\ \A o \in Requests : o # r => req'[o] = req[o]
  BY <1>1, OAuthReqStates, GotoFacts DEF StartAuthorization
<1>4. OAuthTypeOK'
  <2>1. nextFlow' \in 1..(MaxFlow + 1) /\ pending' \subseteq [user : Users, flow : Flows]
    BY <1>1, <1>2, OAuthBounds DEF Flows, OAuthTypeOK
  <2> QED
    BY <1>2, <2>1 DEF OAuthTypeOK, providerVars
<1>5. FlowInv'
  <2> USE DEF FlowInv
  <2>1. FreshFlows' /\ PendingOwned' /\ UsedApproved' /\ ConnectionOwner'
    BY <1>1, <1>2 DEF FreshFlows, PendingOwned, UsedApproved, ConnectionOwner, Connected, Flows,
       providerVars
  <2>2. InsertOnce'
    <3>1. startedBy[nextFlow] = {} /\ \A o \in InFlight("insert") : req[o].flow < nextFlow
      BY <1>1 DEF FreshFlows, InsertOnce
    <3>2. \A o \in InFlight("insert") : req[o].flow \in Flows
      BY OAuthReqTypes DEF InFlight
    <3> QED
      BY <1>1, <1>2, <1>3, <3>1, <3>2 DEF InsertOnce, InFlight, At, Flows
  <2>3. OwnersChecked' /\ ConnectOnce' /\ CodesOnce'
    <3>1. \A o \in Requests : req'[o].at # "insert" => req'[o] = req[o]
      BY <1>3
    <3>2. OwnersChecked'
      BY <1>2, <3>1 DEF OwnersChecked, At
    <3>3. ConnectOnce'
      BY <1>2, <3>1 DEF ConnectOnce, InFlight, At, providerVars
    <3>4. CodesOnce'
      BY <1>2, <3>1 DEF CodesOnce, InFlight, At, providerVars
    <3> QED
      BY <3>2, <3>3, <3>4
  <2> QED
    BY <2>1, <2>2, <2>3
<1>6. GrantInv'
  BY <1>1, <1>2, <1>3, QuietGrants DEF OAuthTypeOK, At, providerVars
<1> QED
  BY <1>3, <1>4, <1>5, <1>6

LEMMA InsertInv ==
  ASSUME OAuthInv, NEW r \in Requests, InsertPendingState(r)
  PROVE  OAuthInv'
<1> USE DEF OAuthInv
<1> DEFINE u == req[r].user
           f == req[r].flow
<1>1. At(r, "insert") /\ u \in Users /\ f \in Flows
  BY OAuthReqTypes DEF InsertPendingState
<1>2. /\ pending' = pending \cup {[user |-> u, flow |-> f]}
      /\ startedBy' = [startedBy EXCEPT ![f] = {u}]
      /\ UNCHANGED <<connections, nextFlow, providerVars, used, raced>>
  BY DEF InsertPendingState
<1>3. OAuthReqOK' /\ req'[r] = Idle /\ \A o \in Requests : o # r => req'[o] = req[o]
  BY OAuthReqStates, GotoFacts DEF InsertPendingState, Finish
<1>4. startedBy[f] = {} /\ f < nextFlow /\ r \in InFlight("insert")
  BY <1>1 DEF FlowInv, InsertOnce, InFlight
<1>5. /\ startedBy' \in [Flows -> SUBSET Users] /\ startedBy'[f] = {u}
      /\ \A g \in Flows : g # f => startedBy'[g] = startedBy[g]
  BY <1>1, <1>2 DEF OAuthTypeOK
<1>6. OAuthTypeOK'
  BY <1>1, <1>2, <1>5 DEF OAuthTypeOK, providerVars
<1>7. FlowInv'
  <2> USE DEF FlowInv
  <2>1. FreshFlows'
    BY <1>1, <1>2, <1>4, <1>5 DEF FreshFlows, Flows, OAuthTypeOK
  <2>2. PendingOwned'
    <3>1. \A p \in pending : p.flow \in Flows /\ startedBy[p.flow] = {p.user}
      BY DEF PendingOwned, OAuthTypeOK
    <3> QED
      BY <1>2, <1>4, <1>5, <3>1 DEF PendingOwned
  <2>3. InsertOnce'
    <3>1. \A o \in InFlight("insert") \ {r} : req[o].flow \in Flows /\ req[o].flow # f
      BY <1>4, OAuthReqTypes DEF InFlight, InsertOnce
    <3> QED
      BY <1>2, <1>3, <1>5, <3>1 DEF InsertOnce, InFlight, At, Idle
  <2>4. OwnersChecked'
    <3>1. \A o \in Requests : req[o].at \in {"deleteState", "exchange"} =>
            req[o].flow \in Flows /\ startedBy[req[o].flow] = {req[o].owner}
      BY OAuthReqTypes DEF OwnersChecked
    <3>2. \A o \in Requests : req[o].at \in {"deleteState", "exchange"} =>
            startedBy'[req[o].flow] = startedBy[req[o].flow]
      BY <1>4, <1>5, <3>1
    <3> QED
      BY <1>3, <3>1, <3>2 DEF OwnersChecked, At, Idle
  <2>5. ConnectOnce'
    <3>1. \A o \in InFlight("connect") :
            req[o].flow \in Flows /\ startedBy[req[o].flow] = {req[o].user}
      BY OAuthReqTypes DEF ConnectOnce, InFlight
    <3>2. \A o \in InFlight("connect") : startedBy'[req[o].flow] = startedBy[req[o].flow]
      BY <1>4, <1>5, <3>1
    <3> QED
      BY <1>2, <1>3, <3>1, <3>2 DEF ConnectOnce, InFlight, At, Idle, providerVars
  <2>6. CodesOnce' /\ UsedApproved'
    BY <1>2, <1>3 DEF CodesOnce, UsedApproved, InFlight, At, Idle, providerVars
  <2>7. ConnectionOwner'
    <3>1. \A v \in Users : Connected(v) => connections[v].flow \in Flows
      BY DEF OAuthTypeOK, Connected, Connection
    <3> QED
      BY <1>2, <1>4, <1>5, <3>1 DEF ConnectionOwner, Connected, providerVars
  <2> QED
    BY <2>1, <2>2, <2>3, <2>4, <2>5, <2>6, <2>7
<1>8. GrantInv'
  BY <1>1, <1>2, <1>3, QuietGrants DEF OAuthTypeOK, At, Idle, providerVars
<1> QED
  BY <1>3, <1>6, <1>7, <1>8

LEMMA ApproveInv ==
  ASSUME OAuthInv, NEW f \in Flows, NEW a \in ExternalAccounts, Approve(f, a)
  PROVE  OAuthInv'
<1> USE DEF OAuthInv
<1> DEFINE code == [flow |-> f, account |-> a]
<1>1. /\ approved[f] = {} /\ codes' = codes \cup {code}
      /\ UNCHANGED <<req, tableVars, accountOf, live, nextGrant, used, raced>>
  BY DEF Approve
<1>2. /\ approved' \in [Flows -> SUBSET ExternalAccounts] /\ approved'[f] = {a}
      /\ \A g \in Flows : g # f => approved'[g] = approved[g]
  BY DEF Approve, OAuthTypeOK
<1>3. OAuthTypeOK' /\ OAuthReqOK'
  BY <1>1, <1>2 DEF OAuthTypeOK, Code, tableVars, OAuthReqOK
<1>4. FlowInv'
  <2> USE DEF FlowInv
  <2>1. FreshFlows' /\ PendingOwned' /\ InsertOnce' /\ OwnersChecked'
    BY <1>1 DEF FreshFlows, PendingOwned, InsertOnce, OwnersChecked, InFlight, At, tableVars
  <2>2. \A o \in InFlight("connect") :
          req[o].flow \in Flows /\ approved[req[o].flow] = {req[o].account} /\ req[o].flow # f
    BY <1>1, OAuthReqTypes DEF ConnectOnce, InFlight
  <2>3. ConnectOnce'
    BY <1>1, <1>2, <2>2 DEF ConnectOnce, InFlight, At, tableVars
  <2>4. UsedApproved' /\ f \notin used
    BY <1>1, <1>2 DEF UsedApproved, OAuthTypeOK
  <2>5. CodesOnce'
    <3>1. \A c \in codes : c.flow \in Flows /\ approved[c.flow] = {c.account} /\ c.flow # f
      BY <1>1 DEF CodesOnce, OAuthTypeOK, Code
    <3> QED
      BY <1>1, <1>2, <2>2, <2>4, <3>1 DEF CodesOnce, InFlight, At
  <2>6. ConnectionOwner'
    <3>1. \A v \in Users : Connected(v) =>
            /\ connections[v].flow \in Flows /\ connections[v].flow # f
            /\ approved[connections[v].flow] = {connections[v].account}
      BY <1>1 DEF OAuthTypeOK, Connected, Connection, ConnectionOwner
    <3> QED
      BY <1>1, <1>2, <3>1 DEF ConnectionOwner, Connected, tableVars
  <2> QED
    BY <2>1, <2>3, <2>4, <2>5, <2>6
<1>5. GrantInv'
  BY <1>1 DEF GrantInv, FreshGrants, BroughtOnce, GrantOwned, AccountsKept, RowsMatch, Held, Brought,
     Has, At, Connected, InFlight, tableVars
<1> QED
  BY <1>3, <1>4, <1>5

LEMMA CompleteInv ==
  ASSUME OAuthInv, NEW r \in Requests, NEW u \in Users, NEW p \in pending, NEW c \in codes,
         CompleteAuthorization(r, u, p, c)
  PROVE  OAuthInv'
<1> USE DEF OAuthInv
<1> DEFINE state == [at |-> "deleteState", user |-> u, owner |-> p.user, flow |-> p.flow, code |-> c]
<1>1. /\ state \in OAuthRequest /\ UNCHANGED oauthVars /\ At(r, "idle")
      /\ p.flow \in Flows /\ startedBy[p.flow] = {p.user}
  BY OAuthReqStates DEF CompleteAuthorization, OAuthTypeOK, FlowInv, PendingOwned, Arrives, At, Idle
<1>2. OAuthReqOK' /\ req'[r] = state /\ \A o \in Requests : o # r => req'[o] = req[o]
  BY <1>1, GotoFacts DEF CompleteAuthorization
<1>3. OAuthTypeOK'
  BY <1>1 DEF OAuthTypeOK, oauthVars, tableVars, providerVars
<1>4. FlowInv'
  <2> USE DEF FlowInv, oauthVars, tableVars, providerVars
  <2>1. \A o \in Requests : req'[o].at # "deleteState" => req'[o] = req[o]
    BY <1>2
  <2>2. FreshFlows' /\ PendingOwned' /\ UsedApproved' /\ ConnectionOwner'
    BY <1>1 DEF FreshFlows, PendingOwned, UsedApproved, ConnectionOwner, Connected
  <2>3. InsertOnce'
    BY <1>1, <2>1 DEF InsertOnce, InFlight, At
  <2>4. OwnersChecked'
    BY <1>1, <1>2 DEF OwnersChecked, At
  <2>5. ConnectOnce'
    BY <1>1, <2>1 DEF ConnectOnce, InFlight, At
  <2>6. CodesOnce'
    BY <1>1, <2>1 DEF CodesOnce, InFlight, At
  <2> QED
    BY <2>2, <2>3, <2>4, <2>5, <2>6
<1>5. GrantInv'
  BY <1>1, <1>2, QuietGrants DEF OAuthTypeOK, At, oauthVars, tableVars, providerVars
<1> QED
  BY <1>2, <1>3, <1>4, <1>5

LEMMA DeleteInv ==
  ASSUME OAuthInv, NEW r \in Requests, DeletePendingState(r)
  PROVE  OAuthInv'
<1>1. /\ At(r, "deleteState") /\ pending' \subseteq pending
      /\ UNCHANGED <<connections, nextFlow, startedBy, providerVars, used, raced>>
  BY DEF DeletePendingState, ForgetState
<1>2. CASE Finish(r)
  BY <1>1, <1>2, DropInv DEF OAuthInv, OAuthTypeOK, At, providerVars
<1>3. CASE req[r].owner = req[r].user /\ Goto(r, [req[r] EXCEPT !.at = "exchange"])
  <2> USE DEF OAuthInv
  <2> DEFINE state == [req[r] EXCEPT !.at = "exchange"]
  <2>1. state \in OAuthRequest /\ state.at = "exchange" /\ state.owner = state.user
        /\ state.owner = req[r].owner /\ state.flow = req[r].flow
    <3>1. req[r] \in [at : {"deleteState", "exchange"}, user : Users, owner : Users,
                      flow : Flows, code : Code]
      BY <1>1 DEF OAuthReqOK, OAuthRequest, At, Idle
    <3> QED
      BY <1>3, <3>1 DEF OAuthRequest
  <2>2. OAuthReqOK' /\ req'[r] = state /\ \A o \in Requests : o # r => req'[o] = req[o]
    BY <1>3, <2>1, GotoFacts
  <2>3. OAuthTypeOK'
    BY <1>1 DEF OAuthTypeOK, providerVars
  <2>4. FlowInv'
    <3> USE DEF FlowInv, providerVars
    <3>1. \A o \in Requests : req'[o].at # "exchange" => req'[o] = req[o]
      BY <2>1, <2>2
    <3>2. FreshFlows' /\ PendingOwned' /\ UsedApproved' /\ ConnectionOwner'
      BY <1>1 DEF FreshFlows, PendingOwned, UsedApproved, ConnectionOwner, Connected
    <3>3. InsertOnce'
      BY <1>1, <3>1 DEF InsertOnce, InFlight, At
    <3>4. OwnersChecked'
      <4>1. At(r, "deleteState") /\ startedBy' = startedBy
        BY <1>1 DEF At
      <4>2. startedBy[req[r].flow] = {req[r].owner}
        BY <4>1 DEF OwnersChecked, At
      <4> HIDE DEF state
      <4> QED
        BY <2>1, <2>2, <4>1, <4>2 DEF OwnersChecked, At
    <3>5. ConnectOnce'
      BY <1>1, <3>1 DEF ConnectOnce, InFlight, At
    <3>6. CodesOnce'
      BY <1>1, <3>1 DEF CodesOnce, InFlight, At
    <3> QED
      BY <3>2, <3>3, <3>4, <3>5, <3>6
  <2>5. GrantInv'
    BY <1>1, <2>1, <2>2, QuietGrants DEF OAuthTypeOK, At, providerVars
  <2> QED
    BY <2>2, <2>3, <2>4, <2>5
<1> QED
  BY <1>2, <1>3 DEF DeletePendingState

\* The flow of a code that is exchanged goes on to the connection.
LEMMA ExchangeFlows ==
  ASSUME OAuthInv, NEW r \in Requests, At(r, "exchange"),
         req[r].code \in codes, req[r].code.flow = req[r].flow,
         codes' = codes \ {req[r].code}, UNCHANGED <<tableVars, approved, used>>,
         req'[r].at = "connect", req'[r].user = req[r].user, req'[r].flow = req[r].flow,
         req'[r].account = req[r].code.account,
         \A o \in Requests : o # r => req'[o] = req[o]
  PROVE  FlowInv'
<1> USE DEF OAuthInv, FlowInv, tableVars
<1> DEFINE c == req[r].code
<1>1. /\ startedBy[req[r].flow] = {req[r].user} /\ c \in Code
      /\ approved[c.flow] = {c.account} /\ c.flow \notin used
      /\ \A o \in InFlight("connect") : req[o].flow # c.flow
  BY DEF OwnersChecked, CodesOnce, At, OAuthTypeOK
<1>2. FreshFlows' /\ PendingOwned' /\ UsedApproved' /\ ConnectionOwner'
  BY DEF FreshFlows, PendingOwned, UsedApproved, ConnectionOwner, Connected
<1>3. \A o \in Requests : req'[o].at # "connect" => req'[o] = req[o]
  OBVIOUS
<1>4. InsertOnce' /\ OwnersChecked'
  BY <1>3 DEF InsertOnce, OwnersChecked, InFlight, At
<1>5. \A o \in Requests \ {r} : At(o, "connect")' => o \in InFlight("connect") /\ req'[o] = req[o]
  BY DEF InFlight, At
<1>6. ConnectOnce'
  BY <1>1, <1>5 DEF ConnectOnce, InFlight, At
<1>7. CodesOnce'
  <2>1. ASSUME NEW d \in codes, d.flow = c.flow PROVE d = c
    <3>1. d \in Code /\ approved[d.flow] = {d.account}
      BY DEF OAuthTypeOK, CodesOnce
    <3> QED
      BY <1>1, <2>1, <3>1 DEF Code
  <2>2. \A d \in codes' : d \in codes /\ d.flow # c.flow
    BY <2>1
  <2> QED
    BY <1>5, <2>2 DEF CodesOnce, InFlight, At
<1> QED
  BY <1>2, <1>4, <1>6, <1>7

LEMMA RowTypes ==
  ASSUME OAuthTypeOK, NEW u \in Users, Connected(u)
  PROVE  /\ connections[u].grant \in Grants \cup {NoGrant} /\ connections[u].grant \in Nat
         /\ connections[u].flow \in Flows /\ connections[u].account \in ExternalAccounts
<1>1. connections[u] \in Connection
  BY DEF OAuthTypeOK, Connected
<1>2. /\ connections[u].grant \in Grants \cup {NoGrant}
      /\ connections[u].flow \in Flows /\ connections[u].account \in ExternalAccounts
  BY <1>1 DEF Connection
<1> QED
  BY <1>2 DEF Grants, NoGrant

LEMMA ExchangeInv ==
  ASSUME OAuthInv, NEW r \in Requests, Exchange(r)
  PROVE  OAuthInv'
<1> DEFINE c == req[r].code
           state(g) == [at |-> "connect", user |-> req[r].user, flow |-> req[r].flow,
                        account |-> c.account, grant |-> g]
<1>1. /\ At(r, "exchange") /\ req[r].user \in Users /\ req[r].flow \in Flows
      /\ c \in Code /\ c.account \in ExternalAccounts
      /\ UNCHANGED <<tableVars, approved, used, raced>>
  BY OAuthReqTypes DEF OAuthInv, Exchange, At, Code
<1>2. CASE Finish(r) /\ codes' \subseteq codes /\ UNCHANGED <<accountOf, live, nextGrant>>
  BY <1>1, <1>2, DropInv DEF OAuthInv, OAuthTypeOK, At, tableVars
<1>3. ASSUME c \in codes, c.flow = req[r].flow, codes' = codes \ {c}, Goto(r, state(NoGrant)),
             UNCHANGED <<accountOf, live, nextGrant>>
      PROVE  OAuthInv'
  <2> USE DEF OAuthInv
  <2>1. OAuthReqOK' /\ req'[r] = state(NoGrant) /\ \A o \in Requests : o # r => req'[o] = req[o]
    <3>1. state(NoGrant) \in OAuthRequest
      BY <1>1, OAuthReqStates
    <3> HIDE DEF state
    <3> QED
      BY <1>3, <3>1, GotoFacts
  <2>2. OAuthTypeOK'
    BY <1>1, <1>3 DEF OAuthTypeOK, tableVars
  <2>3. FlowInv'
    BY <1>1, <1>3, <2>1, ExchangeFlows
  <2>4. GrantInv'
    BY <1>1, <1>3, <2>1, QuietGrants DEF OAuthTypeOK, At, tableVars
  <2> QED
    BY <2>1, <2>2, <2>3, <2>4
<1>4. ASSUME c \in codes, c.flow = req[r].flow, codes' = codes \ {c}, nextGrant <= MaxGrant,
             accountOf' = [accountOf EXCEPT ![nextGrant] = c.account],
             live' = live \cup {nextGrant}, nextGrant' = nextGrant + 1, Goto(r, state(nextGrant))
      PROVE  OAuthInv'
  <2> USE DEF OAuthInv
  <2>0. nextGrant \in Grants /\ nextGrant \in Nat /\ nextGrant # NoGrant /\ Grants \subseteq Nat
    BY <1>4, OAuthBounds DEF OAuthTypeOK, Grants, NoGrant
  <2>1. OAuthReqOK' /\ req'[r] = state(nextGrant) /\ \A o \in Requests : o # r => req'[o] = req[o]
    <3>1. state(nextGrant) \in OAuthRequest
      BY <1>1, <2>0, OAuthReqStates
    <3> HIDE DEF state
    <3> QED
      BY <1>4, <3>1, GotoFacts
  <2>2. /\ accountOf' \in [Grants -> ExternalAccounts \cup {"none"}]
        /\ accountOf'[nextGrant] = c.account
        /\ \A g \in Grants : g < nextGrant => accountOf'[g] = accountOf[g]
    BY <1>1, <1>4, <2>0 DEF OAuthTypeOK
  <2>3. OAuthTypeOK'
    <3>1. live' \subseteq Grants
      BY <1>4, <2>0 DEF OAuthTypeOK
    <3>2. nextGrant' \in 1..(MaxGrant + 1)
      <4> HIDE DEF OAuthInv
      <4> QED
        BY <1>4, <2>0, OAuthBounds DEF Grants
    <3> QED
      BY <1>1, <1>4, <2>2, <3>1, <3>2 DEF OAuthTypeOK, tableVars
  <2>4. FlowInv'
    BY <1>1, <1>4, <2>1, ExchangeFlows
  <2>5. GrantInv'
    <3> USE DEF GrantInv
    <3> DEFINE n == nextGrant
    <3>1. Held(r)' = {} /\ Held(r) = {} /\ Brought(r)' = {n} /\ Brought(r) = {}
      BY <1>1, <2>0, <2>1 DEF Held, Brought, At
    <3>2. \A o \in Requests : o # r => Held(o)' = Held(o) /\ Brought(o)' = Brought(o)
      BY <2>1 DEF Held, Brought, At
    <3>3. \A o \in Requests : /\ Held(o) \subseteq Grants /\ Brought(o) \subseteq Grants
                              /\ \A g \in Held(o) \cup Brought(o) : g < n
      BY GrantTypes DEF FreshGrants
    <3>4. \A u \in Users : \A g : Has(u, g)' <=> Has(u, g)
      BY <1>1 DEF Has, Connected, tableVars
    <3>5. \A u \in Users : Connected(u) => connections[u].grant < n /\ connections[u].grant \in Nat
      BY RowTypes DEF FreshGrants
    <3>6. FreshGrants'
      <4>1. \A g \in Nat : g < n => g < n + 1
        BY <2>0
      <4>2. n < n + 1
        BY <2>0
      <4>3. \A g \in live' : g < nextGrant'
        BY <1>4, <2>0, <4>1, <4>2 DEF FreshGrants, OAuthTypeOK
      <4>4. \A u \in Users : Connected(u)' => connections'[u].grant < nextGrant'
        BY <1>1, <1>4, <3>5, <4>1 DEF Connected, tableVars
      <4>5. ASSUME NEW o \in Requests, NEW g \in Held(o)' \cup Brought(o)' PROVE g < nextGrant'
        <5>1. CASE o = r
          BY <1>4, <3>1, <4>2, <4>5, <5>1
        <5>2. CASE o # r
          BY <1>4, <2>0, <3>2, <3>3, <4>1, <4>5, <5>2
        <5> QED
          BY <5>1, <5>2
      <4> QED
        BY <4>3, <4>4, <4>5 DEF FreshGrants
    <3>7. BroughtOnce'
      <4>1. \A o \in Requests : n \notin Held(o)' /\ (o # r => n \notin Brought(o)')
        BY <2>0, <3>1, <3>2, <3>3
      <4>2. \A u \in Users : ~Has(u, n)
        BY <2>0, <3>5 DEF Has
      <4>3. \A g \in live : g \in live' /\ n \in live'
        BY <1>4
      <4>4. n \in live'
        BY <1>4
      <4> QED
        BY <3>1, <3>2, <3>4, <4>1, <4>2, <4>3, <4>4 DEF BroughtOnce
    <3>8. GrantOwned'
      <4>1. \A o \in Requests : Held(o)' = Held(o) /\ (Held(o) # {} => req'[o] = req[o])
        BY <2>1, <3>1, <3>2 DEF Held
      <4> QED
        BY <3>4, <4>1 DEF GrantOwned
    <3>9. AccountsKept'
      <4>1. ASSUME NEW o \in Requests, o # r, At(o, "connect"), req[o].grant # NoGrant
            PROVE  accountOf'[req[o].grant] = req[o].account
        BY <2>2, <3>3, <4>1 DEF AccountsKept, Brought
      <4>2. ASSUME NEW o \in Requests, o # r, At(o, "update")
            PROVE  accountOf'[req[o].new] = accountOf'[req[o].old]
        <5>1. req[o].old \in Held(o) /\ (req[o].new = req[o].old \/ req[o].new \in Brought(o))
          BY <4>2 DEF Held, Brought, At
        <5>2. /\ req[o].old \in Grants /\ req[o].new \in Grants
              /\ req[o].old < n /\ req[o].new < n
          BY <3>3, <5>1
        <5> QED
          BY <2>2, <4>2, <5>2 DEF AccountsKept
      <4> QED
        BY <2>1, <2>2, <4>1, <4>2 DEF AccountsKept, At
    <3>10. RowsMatch'
      <4>1. ASSUME NEW u \in Users \ raced, Connected(u), connections[u].grant # NoGrant
            PROVE  /\ accountOf'[connections[u].grant] = connections[u].account
                   /\ connections[u].grant \in live'
                        \/ \E o \in InFlight("update")' :
                             req'[o].old = connections[u].grant /\ req'[o].new # req'[o].old
        <5>1. connections[u].grant \in Grants /\ connections[u].grant < n
          BY <3>5, <4>1 DEF OAuthTypeOK, Connected, Connection
        <5>2. \A o \in InFlight("update") : o \in InFlight("update")' /\ req'[o] = req[o]
          BY <1>1, <2>1 DEF InFlight, At
        <5> QED
          BY <1>4, <2>2, <4>1, <5>1, <5>2 DEF RowsMatch
      <4> QED
        BY <1>1, <4>1 DEF RowsMatch, Connected, tableVars
    <3> QED
      BY <3>6, <3>7, <3>8, <3>9, <3>10
  <2> QED
    BY <2>1, <2>3, <2>4, <2>5
<1> QED
  <2>1. CASE c \in codes /\ c.flow = req[r].flow
    BY <1>2, <1>3, <1>4, <2>1 DEF Exchange
  <2>2. CASE ~(c \in codes /\ c.flow = req[r].flow)
    BY <1>2, <2>2 DEF Exchange
  <2> QED
    BY <2>1, <2>2

\* The row a request at "connect" writes.
LEMMA UpsertInv ==
  ASSUME OAuthInv, NEW r \in Requests, At(r, "connect"), Finish(r),
         UpsertConnection(req[r].user, [account |-> req[r].account, grant |-> req[r].grant,
                                        flow |-> req[r].flow]),
         UNCHANGED <<pending, nextFlow, startedBy, providerVars>>
  PROVE  OAuthInv'
<1> USE DEF OAuthInv
<1> DEFINE u == req[r].user
           g == req[r].grant
           row == [account |-> req[r].account, grant |-> g, flow |-> req[r].flow]
<1>1. /\ u \in Users /\ req[r].flow \in Flows /\ req[r].account \in ExternalAccounts
      /\ g \in Grants \cup {NoGrant}
  BY OAuthReqTypes
<1>2. OAuthReqOK' /\ req'[r] = Idle /\ \A o \in Requests : o # r => req'[o] = req[o]
  BY OAuthReqStates, GotoFacts DEF Finish
<1>3. used' = used \cup {req[r].flow} /\ raced' = raced \ {u}
  BY DEF UpsertConnection
<1>4. row \in Connection /\ row # NoConnection
  <2>1. row \in Connection
    BY <1>1 DEF Connection
  <2>2. row.account # NoConnection.account
    BY <1>1, NoConnectionAssumption DEF NoConnection
  <2> QED
    BY <2>1, <2>2
<1>5. /\ connections' = [connections EXCEPT ![u] = row]
      /\ connections' \in [Users -> Connection \cup {NoConnection}] /\ connections'[u] = row
      /\ \A v \in Users : v # u => connections'[v] = connections[v]
  BY <1>1, <1>4 DEF UpsertConnection, OAuthTypeOK
<1>6. OAuthTypeOK'
  BY <1>1, <1>3, <1>5 DEF OAuthTypeOK, providerVars
<1>7. /\ startedBy[req[r].flow] = {u} /\ approved[req[r].flow] = {req[r].account}
      /\ \A o \in InFlight("connect") \ {r} : req[o].flow # req[r].flow
      /\ \A c \in codes : c.flow # req[r].flow
  BY DEF FlowInv, ConnectOnce, CodesOnce, InFlight
<1>8. FlowInv'
  <2> USE DEF FlowInv, providerVars
  <2>1. \A o \in Requests : req'[o].at # "idle" => req'[o] = req[o]
    BY <1>2 DEF Idle
  <2>2. FreshFlows' /\ PendingOwned' /\ InsertOnce' /\ OwnersChecked'
    BY <2>1 DEF FreshFlows, PendingOwned, InsertOnce, OwnersChecked, InFlight, At
  <2>3. UsedApproved'
    BY <1>3, <1>7 DEF UsedApproved
  <2>4. \A o \in Requests : At(o, "connect")' => At(o, "connect") /\ o # r /\ req'[o] = req[o]
    BY <1>2 DEF At, Idle
  <2>5. ConnectOnce'
    BY <1>3, <1>7, <2>4 DEF ConnectOnce, InFlight
  <2>6. CodesOnce'
    BY <1>3, <1>7, <2>4 DEF CodesOnce, InFlight
  <2>7. ConnectionOwner'
    BY <1>5, <1>7 DEF ConnectionOwner, Connected
  <2> QED
    BY <2>2, <2>3, <2>5, <2>6, <2>7
<1>9. GrantInv'
  <2> USE DEF GrantInv, providerVars
  <2>1. \A o \in Requests : /\ Held(o)' \subseteq Held(o) /\ Brought(o)' \subseteq Brought(o)
                            /\ Held(o)' # {} \/ Brought(o)' # {} => o # r /\ req'[o] = req[o]
    BY <1>2 DEF Held, Brought, At, Idle
  <2>2. g # NoGrant =>
          /\ g \in Brought(r) /\ g \in live /\ g < nextGrant
          /\ \A v \in Users : ~Has(v, g)
          /\ \A o \in Requests : g \notin Held(o) /\ (o # r => g \notin Brought(o))
    BY DEF Brought, BroughtOnce, FreshGrants
  <2>3. \A v \in Users : \A h : Has(v, h)' => (v = u /\ h = g) \/ (v # u /\ Has(v, h))
    BY <1>5 DEF Has, Connected
  <2>4. \A o \in Requests : Held(o) \subseteq Grants /\ Brought(o) \subseteq Grants /\ NoGrant \notin Grants
    BY GrantTypes DEF Grants, NoGrant
  <2>5. FreshGrants'
    <3>1. g < nextGrant
      BY <2>2 DEF OAuthTypeOK, NoGrant
    <3> QED
      BY <1>5, <2>1, <3>1 DEF FreshGrants, Connected
  <2>6. BroughtOnce'
    BY <2>1, <2>2, <2>3, <2>4 DEF BroughtOnce
  <2>7. GrantOwned'
    <3>1. ASSUME NEW o \in Requests, NEW v \in Users, NEW h \in Held(o)', Has(v, h)'
          PROVE  v = req'[o].user
      BY <2>1, <2>2, <2>3, <2>4, <3>1 DEF GrantOwned
    <3>2. ASSUME NEW o \in Requests, NEW p \in Requests, NEW h \in Held(o)', h \in Held(p)'
          PROVE  req'[o].user = req'[p].user
      BY <2>1, <3>2 DEF GrantOwned
    <3>3. ASSUME NEW v \in Users, NEW w \in Users, NEW h \in Grants, Has(v, h)', Has(w, h)'
          PROVE  v = w
      BY <2>2, <2>3, <2>4, <3>3 DEF GrantOwned
    <3> QED
      BY <3>1, <3>2, <3>3 DEF GrantOwned
  <2>8. AccountsKept'
    BY <1>2 DEF AccountsKept, At, Idle
  <2>9. RowsMatch'
    <3>1. ASSUME NEW v \in Users \ raced', Connected(v)', connections'[v].grant # NoGrant
          PROVE  /\ accountOf[connections'[v].grant] = connections'[v].account
                 /\ connections'[v].grant \in live
                      \/ \E o \in InFlight("update")' :
                           req'[o].old = connections'[v].grant /\ req'[o].new # req'[o].old
      <4>1. CASE v = u
        BY <1>5, <2>2, <3>1, <4>1 DEF AccountsKept
      <4>2. CASE v # u
        <5>1. v \in Users \ raced /\ Connected(v) /\ connections'[v] = connections[v]
          BY <1>3, <1>5, <3>1, <4>2 DEF Connected
        <5>2. \A o \in InFlight("update") : o \in InFlight("update")' /\ req'[o] = req[o]
          BY <1>2 DEF InFlight, At
        <5> QED
          BY <3>1, <5>1, <5>2 DEF RowsMatch
      <4> QED
        BY <4>1, <4>2
    <3> QED
      BY <3>1 DEF RowsMatch
  <2> QED
    BY <2>5, <2>6, <2>7, <2>8, <2>9
<1> QED
  BY <1>2, <1>6, <1>8, <1>9

LEMMA ConnectInv == ASSUME OAuthInv, NEW r \in Requests, Connect(r) PROVE OAuthInv'
<1>1. CASE UNCHANGED <<connections, used, raced>>
  BY <1>1, DropInv DEF Connect, OAuthInv, OAuthTypeOK, At, providerVars
<1>2. CASE UpsertConnection(req[r].user, [account |-> req[r].account, grant |-> req[r].grant,
                                          flow |-> req[r].flow])
  BY <1>2, UpsertInv DEF Connect
<1> QED
  BY <1>1, <1>2 DEF Connect

-----------------------------------------------------------------------------
(* Rows that go, and refresh tokens that are replaced *)

LEMMA DisconnectInv == ASSUME OAuthInv, NEW u \in Users, Disconnect(u) PROVE OAuthInv'
<1> USE DEF OAuthInv
<1>1. /\ UNCHANGED <<req, pending, nextFlow, startedBy, providerVars, used>> /\ raced' = raced \ {u}
      /\ connections' = [connections EXCEPT ![u] = NoConnection]
  BY DEF Disconnect
<1>2. /\ connections' \in [Users -> Connection \cup {NoConnection}]
      /\ connections'[u] = NoConnection /\ \A v \in Users : v # u => connections'[v] = connections[v]
  BY <1>1 DEF OAuthTypeOK
<1>3. OAuthTypeOK' /\ OAuthReqOK'
  BY <1>1, <1>2 DEF OAuthTypeOK, OAuthReqOK, providerVars
<1>4. FlowInv'
  <2>1. \A v \in Users : \/ connections'[v] = NoConnection
                         \/ Connected(v) /\ connections'[v] = connections[v]
    BY <1>2 DEF Connected
  <2> QED
    BY <1>1, <2>1, QuietFlows DEF providerVars
<1>5. GrantInv'
  <2> USE DEF GrantInv
  <2>1. \A v \in Users : \A g : Has(v, g)' => Has(v, g)
    BY <1>2 DEF Has, Connected
  <2>2. \A o \in Requests : Held(o)' = Held(o) /\ Brought(o)' = Brought(o)
    BY <1>1 DEF Held, Brought, At
  <2>3. FreshGrants' /\ BroughtOnce'
    BY <1>1, <1>2, <2>1, <2>2 DEF FreshGrants, BroughtOnce, Connected, providerVars
  <2>4. GrantOwned' /\ AccountsKept'
    BY <1>1, <2>1, <2>2 DEF GrantOwned, AccountsKept, At, providerVars
  <2>5. RowsMatch'
    <3>1. \A v \in Users \ raced' : Connected(v)' =>
            v \in Users \ raced /\ Connected(v) /\ connections'[v] = connections[v]
      BY <1>1, <1>2 DEF Connected
    <3> QED
      BY <1>1, <3>1 DEF RowsMatch, InFlight, At, providerVars
  <2> QED
    BY <2>3, <2>4, <2>5
<1> QED
  BY <1>3, <1>4, <1>5

\* What a refresh does to the flows: nothing.
LEMMA RefreshFlows ==
  ASSUME OAuthInv, NEW r \in Requests, req'[r].at \in {"refresh", "update"},
         \A o \in Requests : o # r => req'[o] = req[o],
         UNCHANGED <<tableVars, codes, approved, used>>
  PROVE  FlowInv'
<1>1. \A v \in Users : \/ connections'[v] = NoConnection
                       \/ Connected(v) /\ connections'[v] = connections[v]
  BY DEF tableVars, Connected
<1> QED
  BY <1>1, QuietFlows DEF OAuthInv, tableVars

\* A request that has read a row's token, and so far brings no other.
LEMMA HoldGrants ==
  ASSUME OAuthInv, NEW r \in Requests, NEW u \in Users, NEW g \in Grants,
         Held(r)' = {g}, Brought(r)' = {}, req'[r].user = u,
         Has(u, g) \/ (g \in Held(r) /\ req[r].user = u),
         At(r, "connect")' => FALSE,
         At(r, "update")' => req'[r].new = req'[r].old, ~At(r, "update"),
         \A o \in Requests : o # r => req'[o] = req[o],
         UNCHANGED <<tableVars, accountOf, live, nextGrant, raced>>
  PROVE  GrantInv'
<1> USE DEF OAuthInv, GrantInv
<1>1. \A v \in Users : \A h : Has(v, h)' <=> Has(v, h)
  BY DEF Has, Connected, tableVars
<1>2. \A o \in Requests : o # r => Held(o)' = Held(o) /\ Brought(o)' = Brought(o)
  BY DEF Held, Brought, At
<1>3. g < nextGrant /\ \A o \in Requests : g \notin Brought(o)
  BY DEF FreshGrants, BroughtOnce, Has
<1>4. FreshGrants'
  BY <1>2, <1>3 DEF FreshGrants, Connected, tableVars
<1>5. BroughtOnce'
  BY <1>1, <1>2, <1>3 DEF BroughtOnce
<1>6. \A v \in Users : Has(v, g) => v = u
  BY DEF GrantOwned
<1>7. \A o \in Requests : g \in Held(o) => req[o].user = u
  BY DEF GrantOwned
<1>8. GrantOwned'
  <2>1. ASSUME NEW o \in Requests, NEW v \in Users, NEW h \in Held(o)', Has(v, h)'
        PROVE  v = req'[o].user
    BY <1>1, <1>2, <1>6, <2>1 DEF GrantOwned
  <2>2. ASSUME NEW o \in Requests, NEW p \in Requests, NEW h \in Held(o)', h \in Held(p)'
        PROVE  req'[o].user = req'[p].user
    BY <1>2, <1>7, <2>2 DEF GrantOwned
  <2> QED
    BY <1>1, <2>1, <2>2 DEF GrantOwned
<1>9. AccountsKept'
  BY DEF AccountsKept, At
<1>10. RowsMatch'
  <2>1. \A o \in InFlight("update") : o \in InFlight("update")' /\ req'[o] = req[o]
    BY DEF InFlight, At
  <2> QED
    BY <2>1 DEF RowsMatch, Connected, tableVars
<1> QED
  BY <1>4, <1>5, <1>8, <1>9, <1>10

LEMMA GetValidInv ==
  ASSUME OAuthInv, NEW r \in Requests, NEW u \in Users, GetValidAccessToken(r, u)
  PROVE  OAuthInv'
<1> DEFINE g == connections[u].grant
           state == [at |-> "refresh", user |-> u, old |-> g]
<1>1. /\ At(r, "idle") /\ UNCHANGED oauthVars /\ g \in Grants /\ Has(u, g)
  BY RowTypes DEF OAuthInv, GetValidAccessToken, Arrives, At, Idle, Has
<1>2. OAuthReqOK' /\ req'[r] = state /\ \A o \in Requests : o # r => req'[o] = req[o]
  BY <1>1, OAuthReqStates, GotoFacts DEF OAuthInv, GetValidAccessToken
<1>3. OAuthTypeOK'
  BY <1>1 DEF OAuthInv, OAuthTypeOK, oauthVars, tableVars, providerVars
<1>4. FlowInv'
  BY <1>1, <1>2, RefreshFlows DEF oauthVars, providerVars
<1>5. GrantInv'
  <2>1. Held(r)' = {g} /\ Brought(r)' = {}
    BY <1>2 DEF Held, Brought, At
  <2> QED
    BY <1>1, <1>2, <2>1, HoldGrants DEF At, oauthVars, providerVars
<1> QED
  BY <1>2, <1>3, <1>4, <1>5 DEF OAuthInv

\* The provider replaces a token by the next one: the request that brings it
\* goes on to store it, or its answer is lost and the user's row is raced.
LEMMA RotateGrants ==
  ASSUME OAuthInv, NEW r \in Requests, At(r, "refresh"), req[r].old \in live,
         nextGrant \in Grants, nextGrant' = nextGrant + 1,
         accountOf' = [accountOf EXCEPT ![nextGrant] = accountOf[req[r].old]],
         live' = (live \ {req[r].old}) \cup {nextGrant},
         \A o \in Requests : o # r => req'[o] = req[o],
         UNCHANGED <<tableVars, codes, approved, used>>,
         \/ /\ req'[r] = [at |-> "update", user |-> req[r].user, old |-> req[r].old, new |-> nextGrant]
            /\ raced' = raced
         \/ req'[r] = Idle /\ raced' = raced \cup {req[r].user}
  PROVE  GrantInv'
<1> USE DEF OAuthInv, GrantInv
<1> DEFINE n == nextGrant
           old == req[r].old
           u == req[r].user
<1>0. n \in Nat /\ Grants \subseteq Nat /\ n # NoGrant
  BY DEF Grants, NoGrant
<1>1. old \in Grants /\ u \in Users /\ Held(r) = {old} /\ Brought(r) = {} /\ old < n /\ old # n
  <2>1. old \in Grants /\ u \in Users /\ Held(r) = {old} /\ Brought(r) = {} 
    BY OAuthReqTypes DEF Held, Brought, At
  <2>2. old < n
    BY <2>1 DEF FreshGrants
  <2> QED
    BY <1>0, <2>1, <2>2
<1>2. Held(r)' \subseteq {old} /\ Brought(r)' \subseteq {n} /\ (Held(r)' # {} => req'[r].user = u)
  BY DEF Held, Brought, At, Idle
<1>3. \A o \in Requests : o # r => Held(o)' = Held(o) /\ Brought(o)' = Brought(o)
  BY DEF Held, Brought, At
<1>4. \A o \in Requests : /\ Held(o) \subseteq Grants /\ Brought(o) \subseteq Grants
                          /\ \A g \in Held(o) \cup Brought(o) : g < n /\ g # n
  <2>1. \A o \in Requests : /\ Held(o) \subseteq Grants /\ Brought(o) \subseteq Grants
                            /\ \A g \in Held(o) \cup Brought(o) : g < n
    BY GrantTypes DEF FreshGrants
  <2> QED
    BY <1>0, <2>1
<1>5. \A v \in Users : \A g : Has(v, g)' <=> Has(v, g)
  BY DEF Has, Connected, tableVars
<1>6. \A v \in Users : Connected(v) =>
        connections[v].grant \in Nat /\ connections[v].grant < n /\ connections[v].grant # n
  <2>1. \A v \in Users : Connected(v) => connections[v].grant \in Nat /\ connections[v].grant < n
    BY RowTypes DEF FreshGrants
  <2> QED
    BY <1>0, <2>1
<1>7. /\ accountOf'[n] = accountOf[old]
      /\ \A g \in Grants : g # n => accountOf'[g] = accountOf[g]
  BY DEF OAuthTypeOK
<1>8. FreshGrants'
  <2>1. n < n + 1 /\ \A g \in Nat : g < n => g < n + 1
    BY <1>0
  <2>2. \A g \in live' : g < nextGrant'
    BY <1>0, <2>1 DEF FreshGrants, OAuthTypeOK
  <2>3. \A v \in Users : Connected(v)' => connections'[v].grant < nextGrant'
    BY <1>6, <2>1 DEF Connected, tableVars
  <2>4. ASSUME NEW o \in Requests, NEW g \in Held(o)' \cup Brought(o)' PROVE g < nextGrant'
    BY <1>0, <1>1, <1>2, <1>3, <1>4, <2>1, <2>4
  <2> QED
    BY <2>2, <2>3, <2>4 DEF FreshGrants
<1>9. BroughtOnce'
  <2>1. ASSUME NEW o \in Requests, NEW g \in Brought(o)'
        PROVE  /\ g \in live' /\ \A v \in Users : ~Has(v, g)
               /\ \A p \in Requests : g \notin Held(p)' /\ (p # o => g \notin Brought(p)')
    <3>1. CASE o = r
      <4>1. g = n
        BY <1>2, <2>1, <3>1
      <4>2. \A v \in Users : ~Has(v, n)
        BY <1>6 DEF Has
      <4>3. \A p \in Requests : n \notin Held(p)' /\ (p # r => n \notin Brought(p)')
        BY <1>1, <1>2, <1>3, <1>4
      <4> QED
        BY <3>1, <4>1, <4>2, <4>3
    <3>2. CASE o # r
      <4>1. /\ g \in Brought(o) /\ g \in live /\ \A v \in Users : ~Has(v, g)
            /\ \A p \in Requests : g \notin Held(p) /\ (p # o => g \notin Brought(p))
        BY <1>3, <2>1, <3>2 DEF BroughtOnce
      <4>2. g # old /\ g # n
        BY <1>1, <1>4, <4>1
      <4> QED
        BY <1>2, <1>3, <4>1, <4>2
    <3> QED
      BY <3>1, <3>2
  <2> QED
    BY <1>5, <2>1 DEF BroughtOnce
<1>10. GrantOwned'
  <2>1. \A o \in Requests : Held(o)' \subseteq Held(o) /\ (Held(o)' # {} => req'[o].user = req[o].user)
    BY <1>1, <1>2, <1>3
  <2>2. ASSUME NEW o \in Requests, NEW v \in Users, NEW h \in Held(o)', Has(v, h)'
        PROVE  v = req'[o].user
    BY <1>5, <2>1, <2>2 DEF GrantOwned
  <2>3. ASSUME NEW o \in Requests, NEW p \in Requests, NEW h \in Held(o)', h \in Held(p)'
        PROVE  req'[o].user = req'[p].user
    BY <2>1, <2>3 DEF GrantOwned
  <2> QED
    BY <1>5, <2>2, <2>3 DEF GrantOwned
<1>11. AccountsKept'
  <2>1. ASSUME NEW o \in Requests, o # r, At(o, "connect"), req[o].grant # NoGrant
        PROVE  accountOf'[req[o].grant] = req[o].account
    <3>1. req[o].grant \in Brought(o)
      BY <2>1 DEF Brought
    <3> QED
      BY <1>4, <1>7, <2>1, <3>1 DEF AccountsKept
  <2>2. ASSUME NEW o \in Requests, o # r, At(o, "update")
        PROVE  accountOf'[req[o].new] = accountOf'[req[o].old]
    <3>1. req[o].old \in Held(o) /\ (req[o].new = req[o].old \/ req[o].new \in Brought(o))
      BY <2>2 DEF Held, Brought, At
    <3> QED
      BY <1>4, <1>7, <2>2, <3>1 DEF AccountsKept
  <2>3. At(r, "update")' => accountOf'[req'[r].new] = accountOf'[req'[r].old]
    BY <1>1, <1>7 DEF At, Idle
  <2>4. ~At(r, "connect")'
    BY DEF At, Idle
  <2> QED
    BY <2>1, <2>2, <2>3, <2>4 DEF AccountsKept, At
<1>12. RowsMatch'
  <2>1. ASSUME NEW v \in Users \ raced', Connected(v), connections[v].grant # NoGrant
        PROVE  /\ accountOf'[connections[v].grant] = connections[v].account
               /\ connections[v].grant \in live'
                    \/ \E o \in InFlight("update")' :
                         req'[o].old = connections[v].grant /\ req'[o].new # req'[o].old
    <3>1. connections[v].grant \in Grants /\ connections[v].grant # n /\ v \in Users \ raced
      BY <1>6, <2>1, RowTypes
    <3>2. /\ accountOf[connections[v].grant] = connections[v].account
          /\ connections[v].grant \in live
               \/ \E o \in InFlight("update") :
                    req[o].old = connections[v].grant /\ req[o].new # req[o].old
      BY <2>1, <3>1 DEF RowsMatch
    <3>3. \A o \in InFlight("update") : o \in InFlight("update")' /\ req'[o] = req[o]
      BY DEF InFlight, At
    <3>4. CASE connections[v].grant = old
      <4>1. v = u
        BY <1>1, <2>1, <3>4 DEF GrantOwned, Has
      <4>2. r \in InFlight("update")' /\ req'[r].old = old /\ req'[r].new = n
        BY <2>1, <4>1 DEF InFlight, At
      <4> QED
        BY <1>1, <1>7, <3>1, <3>2, <3>4, <4>2
    <3>5. CASE connections[v].grant # old
      BY <1>7, <3>1, <3>2, <3>3, <3>5
    <3> QED
      BY <3>4, <3>5
  <2> QED
    BY <2>1 DEF RowsMatch, Connected, tableVars
<1> QED
  BY <1>8, <1>9, <1>10, <1>11, <1>12

LEMMA RefreshInv == ASSUME OAuthInv, NEW r \in Requests, RefreshToken(r) PROVE OAuthInv'
<1> DEFINE u == req[r].user
           old == req[r].old
           state(g) == [at |-> "update", user |-> u, old |-> old, new |-> g]
<1>1. /\ At(r, "refresh") /\ u \in Users /\ old \in Grants
      /\ UNCHANGED <<tableVars, codes, approved, used>>
  BY OAuthReqTypes DEF OAuthInv, RefreshToken
<1>2. CASE Finish(r) /\ UNCHANGED <<accountOf, live, nextGrant, raced>>
  BY <1>1, <1>2, DropInv DEF OAuthInv, OAuthTypeOK, At, tableVars
<1>3. ASSUME NEW g \in Grants, Goto(r, state(g))
      PROVE  OAuthReqOK' /\ req'[r] = state(g) /\ \A o \in Requests : o # r => req'[o] = req[o]
  <2>1. state(g) \in OAuthRequest
    BY <1>1, OAuthReqStates
  <2> HIDE DEF state
  <2> QED
    BY <1>3, <2>1, GotoFacts DEF OAuthInv
<1>4. CASE Goto(r, state(old)) /\ UNCHANGED <<accountOf, live, nextGrant, raced>>
  <2>1. OAuthReqOK' /\ req'[r] = state(old) /\ \A o \in Requests : o # r => req'[o] = req[o]
    BY <1>1, <1>3, <1>4
  <2>2. OAuthTypeOK'
    BY <1>1, <1>4 DEF OAuthInv, OAuthTypeOK, tableVars
  <2>3. FlowInv'
    BY <1>1, <2>1, RefreshFlows
  <2>4. GrantInv'
    <3>1. /\ Held(r)' = {old} /\ Brought(r)' = {} /\ old \in Held(r)
          /\ ~At(r, "connect")' /\ ~At(r, "update") /\ req'[r].new = req'[r].old
          /\ req'[r].user = u
      BY <1>1, <2>1 DEF Held, Brought, At
    <3> QED
      BY <1>1, <1>4, <2>1, <3>1, HoldGrants
  <2> QED
    BY <2>1, <2>2, <2>3, <2>4 DEF OAuthInv
<1>5. CASE /\ old \in live /\ nextGrant <= MaxGrant
           /\ accountOf' = [accountOf EXCEPT ![nextGrant] = accountOf[old]]
           /\ live' = (live \ {old}) \cup {nextGrant}
           /\ nextGrant' = nextGrant + 1
           /\ \/ Goto(r, state(nextGrant)) /\ UNCHANGED raced
              \/ Finish(r) /\ raced' = raced \cup {u}
  <2>1. nextGrant \in Grants /\ nextGrant' \in 1..(MaxGrant + 1)
    BY <1>5, OAuthBounds DEF OAuthInv, OAuthTypeOK, Grants
  <2>2. /\ OAuthReqOK' /\ \A o \in Requests : o # r => req'[o] = req[o]
        /\ \/ req'[r] = state(nextGrant) /\ raced' = raced
           \/ req'[r] = Idle /\ raced' = raced \cup {u}
    <3>1. CASE Goto(r, state(nextGrant)) /\ UNCHANGED raced
      <4> HIDE DEF state
      <4> QED
        BY <1>3, <2>1, <3>1
    <3>2. CASE Finish(r) /\ raced' = raced \cup {u}
      BY <3>2, OAuthReqStates, GotoFacts DEF OAuthInv, Finish
    <3> QED
      BY <1>5, <3>1, <3>2
  <2>3. OAuthTypeOK'
    <3>1. accountOf' \in [Grants -> ExternalAccounts \cup {"none"}]
      BY <1>1, <1>5 DEF OAuthInv, OAuthTypeOK
    <3>2. live' \subseteq Grants /\ raced' \subseteq Users
      BY <1>1, <1>5, <2>1 DEF OAuthInv, OAuthTypeOK
    <3> QED
      BY <1>1, <2>1, <3>1, <3>2 DEF OAuthInv, OAuthTypeOK, tableVars
  <2>4. FlowInv'
    <3>1. \A v \in Users : \/ connections'[v] = NoConnection
                           \/ Connected(v) /\ connections'[v] = connections[v]
      BY <1>1 DEF tableVars, Connected
    <3> QED
      BY <1>1, <2>2, <3>1, QuietFlows DEF OAuthInv, tableVars, Idle
  <2>5. GrantInv'
    BY <1>1, <1>5, <2>1, <2>2, RotateGrants
  <2> QED
    BY <2>2, <2>3, <2>4, <2>5 DEF OAuthInv
<1>6. \/ Finish(r) /\ UNCHANGED <<accountOf, live, nextGrant, raced>>
      \/ Goto(r, state(old)) /\ UNCHANGED <<accountOf, live, nextGrant, raced>>
      \/ /\ old \in live /\ nextGrant <= MaxGrant
         /\ accountOf' = [accountOf EXCEPT ![nextGrant] = accountOf[old]]
         /\ live' = (live \ {old}) \cup {nextGrant}
         /\ nextGrant' = nextGrant + 1
         /\ \/ Goto(r, state(nextGrant)) /\ UNCHANGED raced
            \/ Finish(r) /\ raced' = raced \cup {u}
  BY DEF RefreshToken
<1> QED
  BY <1>2, <1>4, <1>5, <1>6

\* The row as it is now gets the token that the request brings.
LEMMA StoreInv ==
  ASSUME OAuthInv, NEW r \in Requests, At(r, "update"), Finish(r), Connected(req[r].user),
         connections' = [connections EXCEPT ![req[r].user].grant = req[r].new],
         raced' = IF connections[req[r].user].grant # req[r].old
                  THEN raced \cup {req[r].user} ELSE raced,
         UNCHANGED <<pending, nextFlow, startedBy, providerVars, used>>
  PROVE  OAuthInv'
<1> USE DEF OAuthInv
<1> DEFINE u == req[r].user
           old == req[r].old
           new == req[r].new
<1>1. u \in Users /\ old \in Grants /\ new \in Grants /\ old \in Held(r)
  BY OAuthReqTypes DEF Held, At
<1>2. OAuthReqOK' /\ req'[r] = Idle /\ \A o \in Requests : o # r => req'[o] = req[o]
  BY OAuthReqStates, GotoFacts DEF Finish
<1>3. /\ connections[u] \in Connection
      /\ connections' = [connections EXCEPT ![u] = [connections[u] EXCEPT !.grant = new]]
  BY <1>1 DEF OAuthTypeOK, Connected
<1>4. /\ connections' \in [Users -> Connection \cup {NoConnection}]
      /\ \A v \in Users : v # u => connections'[v] = connections[v]
      /\ connections'[u].grant = new /\ connections'[u] # NoConnection
      /\ connections'[u].flow = connections[u].flow
      /\ connections'[u].account = connections[u].account
  <2> DEFINE row == [connections[u] EXCEPT !.grant = new]
  <2>1. row \in Connection
    BY <1>1, <1>3 DEF Connection
  <2>2. row.account # NoConnection.account
    BY <2>1, NoConnectionAssumption DEF Connection, NoConnection
  <2>3. row.grant = new /\ row.flow = connections[u].flow /\ row.account = connections[u].account
    BY <1>3 DEF Connection
  <2>4. connections' = [connections EXCEPT ![u] = row] /\ row # NoConnection
    BY <1>3, <2>2
  <2> HIDE DEF row
  <2> QED
    BY <1>1, <2>1, <2>3, <2>4 DEF OAuthTypeOK
<1>5. raced \subseteq raced' /\ raced' \subseteq raced \cup {u}
      /\ (u \notin raced' => u \notin raced /\ connections[u].grant = old)
  OBVIOUS
<1>6. OAuthTypeOK'
  BY <1>1, <1>4, <1>5 DEF OAuthTypeOK, providerVars
<1>7. FlowInv'
  <2>1. \A v \in Users : \/ connections'[v] = NoConnection
                         \/ /\ Connected(v)
                            /\ connections'[v].flow = connections[v].flow
                            /\ connections'[v].account = connections[v].account
    BY <1>4 DEF Connected
  <2> QED
    BY <1>2, <2>1, QuietFlows DEF Idle, providerVars
<1>8. GrantInv'
  <2> USE DEF GrantInv, providerVars
  <2>1. \A o \in Requests : /\ Held(o)' \subseteq Held(o) /\ Brought(o)' \subseteq Brought(o)
                            /\ Held(o)' # {} \/ Brought(o)' # {} => o # r /\ req'[o] = req[o]
    BY <1>2 DEF Held, Brought, At, Idle
  <2>2. /\ new # old => new \in Brought(r) /\ new \in live
             /\ \A v \in Users : ~Has(v, new)
             /\ \A o \in Requests : new \notin Held(o)
        /\ \A o \in Requests : o # r => new \notin Brought(o)
    <3>1. new # old => new \in Brought(r)
      BY DEF Brought, At
    <3>2. \A o \in Requests : old \notin Brought(o)
      BY <1>1 DEF BroughtOnce
    <3> QED
      BY <3>1, <3>2 DEF BroughtOnce
  <2>3. \A v \in Users : \A h : Has(v, h)' => (v = u /\ h = new) \/ (v # u /\ Has(v, h))
    BY <1>4 DEF Has, Connected
  <2>4. new < nextGrant
    BY <1>1, <2>2 DEF FreshGrants
  <2>5. \A v \in Users : Has(v, old) => v = u
    BY <1>1 DEF GrantOwned
  <2>6. \A o \in Requests : old \in Held(o) => req[o].user = u
    BY <1>1 DEF GrantOwned
  <2>7. FreshGrants'
    <3>1. \A v \in Users : Connected(v)' => connections'[v].grant < nextGrant
      BY <1>4, <2>4 DEF FreshGrants, Connected
    <3> QED
      BY <2>1, <3>1 DEF FreshGrants
  <2>8. BroughtOnce'
    <3>1. ASSUME NEW o \in Requests, NEW g \in Brought(o)' PROVE \A v \in Users : ~Has(v, g)'
      BY <2>1, <2>2, <2>3, <3>1 DEF BroughtOnce
    <3> QED
      BY <2>1, <3>1 DEF BroughtOnce
  <2>9. GrantOwned'
    <3>1. ASSUME NEW o \in Requests, NEW v \in Users, NEW h \in Held(o)', Has(v, h)'
          PROVE  v = req'[o].user
      BY <2>1, <2>2, <2>3, <2>6, <3>1 DEF GrantOwned
    <3>2. ASSUME NEW o \in Requests, NEW p \in Requests, NEW h \in Held(o)', h \in Held(p)'
          PROVE  req'[o].user = req'[p].user
      BY <2>1, <3>2 DEF GrantOwned
    <3>3. ASSUME NEW v \in Users, NEW w \in Users, NEW h \in Grants, Has(v, h)', Has(w, h)'
          PROVE  v = w
      BY <2>2, <2>3, <2>5, <3>3 DEF GrantOwned
    <3> QED
      BY <3>1, <3>2, <3>3 DEF GrantOwned
  <2>10. AccountsKept'
    BY <1>2 DEF AccountsKept, At, Idle
  <2>11. RowsMatch'
    <3>1. ASSUME NEW v \in Users \ raced', Connected(v)', connections'[v].grant # NoGrant
          PROVE  /\ accountOf[connections'[v].grant] = connections'[v].account
                 /\ connections'[v].grant \in live
                      \/ \E o \in InFlight("update")' :
                           req'[o].old = connections'[v].grant /\ req'[o].new # req'[o].old
      <4>1. \A o \in InFlight("update") \ {r} : o \in InFlight("update")' /\ req'[o] = req[o]
        BY <1>2 DEF InFlight, At
      <4>2. CASE v = u
        <5>1. u \in Users \ raced /\ connections[u].grant = old /\ old # NoGrant
          BY <1>1, <1>5, <3>1, <4>2 DEF Grants, NoGrant
        <5>2. /\ accountOf[old] = connections[u].account
              /\ old \in live
                   \/ \E o \in InFlight("update") : req[o].old = old /\ req[o].new # req[o].old
          BY <5>1 DEF RowsMatch
        <5>3. accountOf[new] = accountOf[old]
          BY DEF AccountsKept
        <5>4. CASE new = old
          BY <1>4, <4>1, <4>2, <5>2, <5>3, <5>4
        <5>5. CASE new # old
          BY <1>4, <2>2, <4>2, <5>2, <5>3, <5>5
        <5> QED
          BY <5>4, <5>5
      <4>3. CASE v # u
        <5>1. v \in Users \ raced /\ Connected(v) /\ connections'[v] = connections[v]
          BY <1>4, <1>5, <3>1, <4>3 DEF Connected
        <5>2. connections[v].grant # old
          BY <2>5, <4>3, <5>1 DEF Has
        <5> QED
          BY <3>1, <4>1, <5>1, <5>2 DEF RowsMatch
      <4> QED
        BY <4>2, <4>3
    <3> QED
      BY <3>1 DEF RowsMatch
  <2> QED
    BY <2>7, <2>8, <2>9, <2>10, <2>11
<1> QED
  BY <1>2, <1>6, <1>7, <1>8

LEMMA UpdateInv == ASSUME OAuthInv, NEW r \in Requests, UpdateTokens(r) PROVE OAuthInv'
<1>1. /\ At(r, "update") /\ Finish(r)
      /\ UNCHANGED <<pending, nextFlow, startedBy, providerVars, used>>
  BY DEF UpdateTokens, Update
<1>2. CASE Connected(req[r].user)
  BY <1>1, <1>2, StoreInv DEF UpdateTokens, Update
<1>3. CASE ~Connected(req[r].user)
  <2>1. UNCHANGED <<connections, raced>>
    BY <1>3 DEF UpdateTokens, Update
  <2> QED
    BY <1>1, <1>3, <2>1, DropInv DEF OAuthInv, OAuthTypeOK, providerVars
<1> QED
  BY <1>2, <1>3

LEMMA AbandonInv == ASSUME OAuthInv, NEW r \in Requests, AbandonOAuthRequest(r) PROVE OAuthInv'
<1>1. At(r, "update") => req[r].user \in Users
  BY OAuthReqTypes DEF OAuthInv
<1> QED
  BY <1>1, DropInv DEF AbandonOAuthRequest, OAuthInv, OAuthTypeOK, tableVars, providerVars

-----------------------------------------------------------------------------
LEMMA OAuthNextInv == OAuthInv /\ [OAuthNext]_<<req, oauthVars>> => OAuthInv'
<1> SUFFICES ASSUME OAuthInv, [OAuthNext]_<<req, oauthVars>> PROVE OAuthInv'
  OBVIOUS
<1>1. ASSUME NEW r \in Requests, OAuthStep(r) PROVE OAuthInv'
  <2>1. CASE \E u \in Users : StartAuthorization(r, u) \/ GetValidAccessToken(r, u)
    BY <2>1, StartInv, GetValidInv
  <2>2. CASE \E u \in Users, p \in pending, c \in codes : CompleteAuthorization(r, u, p, c)
    BY <2>2, CompleteInv
  <2>3. CASE InsertPendingState(r) \/ DeletePendingState(r) \/ Exchange(r) \/ Connect(r)
    BY <2>3, InsertInv, DeleteInv, ExchangeInv, ConnectInv
  <2>4. CASE RefreshToken(r) \/ UpdateTokens(r) \/ AbandonOAuthRequest(r)
    BY <2>4, RefreshInv, UpdateInv, AbandonInv
  <2> QED
    BY <1>1, <2>1, <2>2, <2>3, <2>4 DEF OAuthStep
<1>2. ASSUME NEW f \in Flows, NEW a \in ExternalAccounts, Approve(f, a) PROVE OAuthInv'
  BY <1>2, ApproveInv
<1>3. ASSUME NEW u \in Users, Disconnect(u) PROVE OAuthInv'
  BY <1>3, DisconnectInv
<1>4. CASE UNCHANGED <<req, oauthVars>>
  <2> USE <1>4 DEF oauthVars, tableVars, providerVars, OAuthInv
  <2>1. OAuthTypeOK' /\ OAuthReqOK'
    BY DEF OAuthTypeOK, OAuthReqOK
  <2>2. FlowInv'
    BY QuietFlows DEF Connected
  <2>3. GrantInv'
    BY DEF GrantInv, FreshGrants, BroughtOnce, GrantOwned, AccountsKept, RowsMatch, Held, Brought,
       Has, At, Connected, InFlight
  <2> QED
    BY <2>1, <2>2, <2>3
<1> QED
  BY <1>1, <1>2, <1>3, <1>4 DEF OAuthNext

LEMMA OAuthInvariance == OAuthSpec => []OAuthInv
BY OAuthInitInv, OAuthNextInv, PTL DEF OAuthSpec

\* OAuthService: a connection is from a flow its own user started, and to the
\* account the flow was approved with, for any number of users, browsers and
\* requests, whatever states and codes they send.
THEOREM ConnectionsHaveOwners == OAuthSpec => []ConnectionOwner
<1>1. OAuthInv => ConnectionOwner
  BY DEF OAuthInv, FlowInv
<1> QED
  BY <1>1, OAuthInvariance, PTL

\* refresh_access_token: unless a refresh crossed another change of the row or
\* lost its answer, the tokens are of the account the row names, and the
\* refresh token is taken or its successor is about to be stored.
THEOREM TokensMatchAccounts == OAuthSpec => []TokensMatchAccount
<1>1. OAuthInv => TokensMatchAccount
  BY DEF OAuthInv, GrantInv, RowsMatch, TokensMatchAccount
<1> QED
  BY <1>1, OAuthInvariance, PTL

\* A row that comes into being is from a flow that has made none before.
LEMMA NewRows ==
  OAuthInv /\ [OAuthNext]_<<req, oauthVars>> =>
    [\A u \in Users : ~Connected(u) /\ Connected(u)' => connections'[u].flow \notin used]_oauthVars
<1> SUFFICES ASSUME OAuthInv, OAuthNext, NEW u \in Users, ~Connected(u), Connected(u)'
             PROVE  connections'[u].flow \notin used
  BY DEF oauthVars, tableVars
<1>1. connections'[u] # connections[u]
  BY DEF Connected
<1>2. ASSUME NEW r \in Requests, Connect(r) PROVE connections'[u].flow \notin used
  <2>1. At(r, "connect") /\ req[r].user \in Users /\ req[r].flow \notin used
    BY <1>2, OAuthReqTypes DEF Connect, OAuthInv, FlowInv, ConnectOnce, InFlight
  <2> QED
    BY <1>1, <1>2, <2>1 DEF Connect, UpsertConnection, OAuthInv, OAuthTypeOK
<1>3. ASSUME NEW r \in Requests, UpdateTokens(r) PROVE FALSE
  <2>1. At(r, "update") /\ req[r].user \in Users
    BY <1>3, OAuthReqTypes DEF UpdateTokens, OAuthInv
  <2> QED
    BY <1>1, <1>3, <2>1 DEF UpdateTokens, Update, Connected, OAuthInv, OAuthTypeOK
<1>4. ASSUME NEW v \in Users, Disconnect(v) PROVE FALSE
  BY <1>1, <1>4 DEF Disconnect, Connected, OAuthInv, OAuthTypeOK
<1> QED
  BY <1>1, <1>2, <1>3, <1>4
  DEF OAuthNext, OAuthStep, StartAuthorization, GetValidAccessToken, InsertPendingState,
      CompleteAuthorization, DeletePendingState, Exchange, RefreshToken, AbandonOAuthRequest,
      Approve, oauthVars, tableVars

\* disconnect and complete_authorization: only a flow that has made no
\* connection yet connects a user again, whatever refreshes are on their way.
THEOREM ReconnectNeedsApproval == OAuthSpec => NoReconnectWithoutApproval
BY NewRows, OAuthInvariance, PTL DEF OAuthSpec, NoReconnectWithoutApproval

\* State rows, connections, the provider's tokens and the requests in flight
\* keep their types.
THEOREM OAuthTypeCorrect == OAuthSpec => [](OAuthTypeOK /\ OAuthReqOK)
<1>1. OAuthInv => OAuthTypeOK /\ OAuthReqOK
  BY DEF OAuthInv
<1> QED
  BY <1>1, OAuthInvariance, PTL
=============================================================================
