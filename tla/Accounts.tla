------------------------------ MODULE Accounts ------------------------------
(***************************************************************************)
(* The users table and the handlers that change it: registration with its  *)
(* verification mail and its rollback, verification, a new link on demand, *)
(* login, and role changes by an admin (src/src/api/auth.rs,               *)
(* src/src/api/admin.rs, src/src/services/email.rs).                       *)
(*                                                                         *)
(* One action is a handler up to its next await that another handler can   *)
(* notice.  Requests that change nothing and answer with an error are left *)
(* out, as are passwords and the time: a check of an expiry may go either  *)
(* way.  The bounds are MaxId on the AUTOINCREMENT ids and MaxToken on the *)
(* verification tokens.                                                    *)
(***************************************************************************)
EXTENDS Requests, Naturals, FiniteSets

CONSTANTS Founders,   \* number of verified admins there are at the start
          Names,      \* names (and addresses) people register with
          MaxId, MaxToken

ASSUME FoundersAssumption == Founders \in Nat \ {0} /\ MaxId \in Nat /\ Founders <= MaxId
ASSUME TokenAssumption    == MaxToken \in Nat
ASSUME NamesAssumption    == "founder" \notin Names

VARIABLES
  users,     \* the rows by id
  nextId, nextToken,
  mails,     \* links that reached a mailbox: the row they were made for and the token
  claims,    \* the roles the JWTs in circulation state: they last seven days
  lost       \* history: rows whose current link was never mailed because the
             \* mail failed or the request was dropped

accountVars == <<users, nextId, nextToken, mails, claims, lost>>

Ids     == 1..MaxId
Tokens  == 1..MaxToken
NoToken == 0
Roles   == {"admin", "user"}
Absent  == [name |-> "absent"]

Row == [name : Names \cup {"founder"}, verified : BOOLEAN,
        token : Tokens \cup {NoToken}, role : Roles]

AccountRequest ==
  {Idle}
    \cup [at : {"mail"}, id : Ids, token : Tokens, rollback : BOOLEAN]
    \cup [at : {"rollback", "verify", "retoken"}, id : Ids]
    \cup [at : {"count", "setRole"}, id : Ids, role : Roles]

AccountsTypeOK ==
  /\ users \in [Ids -> Row \cup {Absent}]
  /\ nextId \in 1..(MaxId + 1) /\ nextToken \in 1..(MaxToken + 1)
  /\ mails \subseteq [id : Ids, token : Tokens]
  /\ claims \subseteq Roles
  /\ lost \subseteq Ids

Exists(id)   == users[id] # Absent
ById(name)   == {id \in Ids : users[id].name = name}
ByToken(t)   == {id \in Ids : Exists(id) /\ users[id].token = t}
Admins       == {id \in Ids : Exists(id) /\ users[id].role = "admin"}
Newcomers    == {id \in Ids : Exists(id) /\ users[id].name \in Names}

AccountsInit ==
  /\ users = [id \in Ids |->
               IF id <= Founders
               THEN [name |-> "founder", verified |-> TRUE, token |-> NoToken, role |-> "admin"]
               ELSE Absent]
  /\ nextId = Founders + 1 /\ nextToken = 1
  /\ mails = {} /\ claims = {} /\ lost = {}

-----------------------------------------------------------------------------
(* register *)

\* INSERT, which the unique indexes refuse if the name or address is taken.
CreateUser(name, token) ==
  /\ ById(name) = {} /\ nextId <= MaxId
  /\ users' = [users EXCEPT ![nextId] =
                 [name |-> name, verified |-> FALSE, token |-> token, role |-> "user"]]
  /\ nextId' = nextId + 1

Register(r, name) ==
  /\ Arrives(r) /\ nextToken <= MaxToken
  /\ CreateUser(name, nextToken)
  /\ nextToken' = nextToken + 1
  /\ Goto(r, [at |-> "mail", id |-> nextId, token |-> nextToken, rollback |-> TRUE])
  /\ UNCHANGED <<mails, claims, lost>>

\* The SMTP dialogue may fail before or after the server took the mail.
SendVerificationEmail(id, token, arrived, ok) ==
  /\ ok => arrived
  /\ mails' = IF arrived THEN mails \cup {[id |-> id, token |-> token]} ELSE mails
  /\ lost'  = IF arrived THEN lost ELSE lost \cup {id}

\* A registration whose mail failed is undone, a resend is not.
MailLink(r) ==
  /\ At(r, "mail")
  /\ \E arrived, ok \in BOOLEAN :
       /\ SendVerificationEmail(req[r].id, req[r].token, arrived, ok)
       /\ IF ok \/ ~req[r].rollback
          THEN Finish(r)
          ELSE Goto(r, [at |-> "rollback", id |-> req[r].id])
  /\ UNCHANGED <<users, nextId, nextToken, claims>>

DeleteUser(r) ==
  /\ At(r, "rollback")
  /\ users' = [users EXCEPT ![req[r].id] = Absent]
  /\ Finish(r)
  /\ UNCHANGED <<nextId, nextToken, mails, claims, lost>>

-----------------------------------------------------------------------------
(* verify_email, resend_verification and login *)

\* A link in a mailbox is followed: SELECT by its token, and go on unless
\* the row is verified or the token has expired.
VerifyEmail(r, t) ==
  /\ Arrives(r)
  /\ \E m \in mails : m.token = t
  /\ \E id \in ByToken(t) : ~users[id].verified /\ Goto(r, [at |-> "verify", id |-> id])
  /\ UNCHANGED accountVars

\* Faulty variant: the row is looked up by its name.
VerifyByName(r) ==
  /\ At(r, "verify")
  /\ \E name \in Names :
       users' = [id \in Ids |-> IF users[id].name = name
                                THEN [users[id] EXCEPT !.verified = TRUE, !.token = NoToken]
                                ELSE users[id]]
  /\ Finish(r)
  /\ UNCHANGED <<nextId, nextToken, mails, claims, lost>>

\* UPDATE ... WHERE id, whatever became of the row.
VerifyUserEmail(r) ==
  /\ At(r, "verify")
  /\ LET id == req[r].id
     IN users' = IF Exists(id)
                 THEN [users EXCEPT ![id].verified = TRUE, ![id].token = NoToken]
                 ELSE users
  /\ Finish(r)
  /\ UNCHANGED <<nextId, nextToken, mails, claims, lost>>

ResendVerification(r, name) ==
  /\ Arrives(r)
  /\ \E id \in ById(name) : ~users[id].verified /\ Goto(r, [at |-> "retoken", id |-> id])
  /\ UNCHANGED accountVars

\* Faulty variant: the mail is written from the row as it was read.
MailOldToken(r) ==
  /\ At(r, "retoken") /\ nextToken <= MaxToken
  /\ LET id == req[r].id
     IN /\ Exists(id) /\ users[id].token # NoToken
        /\ users' = [users EXCEPT ![id].token = nextToken]
        /\ lost'  = lost \ {id}
        /\ Goto(r, [at |-> "mail", id |-> id, token |-> users[id].token, rollback |-> FALSE])
  /\ nextToken' = nextToken + 1
  /\ UNCHANGED <<nextId, mails, claims>>

UpdateVerificationToken(r) ==
  /\ At(r, "retoken") /\ nextToken <= MaxToken
  /\ LET id == req[r].id
     IN /\ users' = IF Exists(id) THEN [users EXCEPT ![id].token = nextToken] ELSE users
        /\ lost'  = lost \ {id}
        /\ Goto(r, [at |-> "mail", id |-> id, token |-> nextToken, rollback |-> FALSE])
  /\ nextToken' = nextToken + 1
  /\ UNCHANGED <<nextId, mails, claims>>

Login(r, id) ==
  /\ Arrives(r) /\ Exists(id) /\ users[id].verified
  /\ claims' = claims \cup {users[id].role}
  /\ UNCHANGED <<req, users, nextId, nextToken, mails, lost>>

-----------------------------------------------------------------------------
(* update_user_role: require_admin looks at the token, not at the row *)

\* Some JWT in circulation says admin.
MayAdministrate == "admin" \in claims

\* To any role but admin: SELECT the target, and count the admins if it is one.
Demote(r, id, role) ==
  /\ Arrives(r) /\ role # "admin"
  /\ MayAdministrate
  /\ Exists(id)
  /\ Goto(r, [at |-> IF users[id].role = "admin" THEN "count" ELSE "setRole",
              id |-> id, role |-> role])
  /\ UNCHANGED accountVars

\* "Cannot remove the last admin."
CountAdmins(r) ==
  /\ At(r, "count")
  /\ IF Cardinality(Admins) <= 1 THEN Finish(r) ELSE Goto(r, [req[r] EXCEPT !.at = "setRole"])
  /\ UNCHANGED accountVars

UpdateUserRole(r) ==
  /\ At(r, "setRole")
  /\ LET id == req[r].id
     IN users' = IF Exists(id) THEN [users EXCEPT ![id].role = req[r].role] ELSE users
  /\ Finish(r)
  /\ UNCHANGED <<nextId, nextToken, mails, claims, lost>>

Promote(r, id) ==
  /\ Arrives(r)
  /\ MayAdministrate
  /\ Goto(r, [at |-> "setRole", id |-> id, role |-> "admin"])
  /\ UNCHANGED accountVars

-----------------------------------------------------------------------------
AbandonAccountRequest(r) ==
  /\ ~Arrives(r) /\ Finish(r)
  /\ lost' = IF At(r, "mail") THEN lost \cup {req[r].id} ELSE lost
  /\ UNCHANGED <<users, nextId, nextToken, mails, claims>>

AccountStep(r) ==
  \/ \E name \in Names : Register(r, name) \/ ResendVerification(r, name)
  \/ MailLink(r) \/ DeleteUser(r)
  \/ \E t \in Tokens : VerifyEmail(r, t)
  \/ VerifyUserEmail(r) \/ UpdateVerificationToken(r)
  \/ \E id \in Ids : Login(r, id) \/ Promote(r, id)
  \/ \E id \in Ids, role \in Roles : Demote(r, id, role)
  \/ CountAdmins(r) \/ UpdateUserRole(r)
  \/ AbandonAccountRequest(r)

AccountsNext == \E r \in Requests : AccountStep(r)

AccountsSpec == AccountsInit /\ RequestsInit /\ [][AccountsNext]_<<req, accountVars>>

-----------------------------------------------------------------------------
(* Properties *)

\* Only a person who was mailed a link to a row can have verified it: the
\* lookup by token and the update by id bridge an await in which the row can
\* be rolled back and its name registered again.
VerifiedByMail ==
  \A id \in Newcomers : users[id].verified => \E m \in mails : m.id = id

\* "Prevent removing the last admin": there always is one.  The count and the
\* update are two queries, and others may change the roles in between.
SomeAdmin == Admins # {}

\* The link in the mailbox is the one in the table: an unverified account can
\* be verified with a mail that arrived, unless a handler still has to send
\* it, or sending failed, or the client hung up in between.
LinkWorks ==
  \A id \in Newcomers \ lost :
    users[id].verified
      \/ [id |-> id, token |-> users[id].token] \in mails
      \/ \E r \in InFlight("mail") : req[r].id = id
=============================================================================
