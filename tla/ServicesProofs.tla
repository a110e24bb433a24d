--------------------------- MODULE ServicesProofs ---------------------------
(***************************************************************************)
(* The parts beside the queue.  First as TLC takes them, one at a time:    *)
(* the one at work keeps its own inductive invariant, and the others stay  *)
(* as they begin (ServicesInv).  Then all at once (Services), any handler  *)
(* moving between two steps of any other: what a part sees of the slots    *)
(* (View) holds its own handlers and leaves those of the others idle;      *)
(* through its view each part takes steps of its own specification or none *)
(* (Turns), so each keeps its invariant (PartsInv) and its properties.     *)
(***************************************************************************)
EXTENDS MCServices, AccountProofs, EventStreamProofs, LibraryProofs

Parts == {"accounts", "oauth", "events", "shares", "metadata"}

\* Of each part what it keeps while it is at work, or how it begins.
AccountsPart == IF part = "accounts" THEN AccountsInv ELSE AccountsInit
OAuthPart    == IF part = "oauth" THEN OAuthInv ELSE OAuthInit
EventsPart   == IF part = "events" THEN EventInv ELSE EventsInit
SharePart    == IF part = "shares" THEN ShareInv /\ ScansOnly ELSE ShareInit
MetadataPart == IF part = "metadata" THEN MetadataInv /\ NoScans ELSE MetadataInit

ServicesInv ==
  /\ part \in Parts /\ FilesTypeOK
  /\ AccountsPart /\ OAuthPart /\ EventsPart /\ SharePart /\ MetadataPart

\* What the slots hold belongs to the part at work.
SlotType == CASE part = "accounts" -> AccountRequest
              [] part = "oauth"    -> OAuthRequest
              [] part = "events"   -> EventRequest
              [] part = "shares"   -> ShareRequest
              [] part = "metadata" -> MetadataRequest

-----------------------------------------------------------------------------
(* How the parts begin *)

LEMMA IdleTypes ==
  /\ AccountsInit => AccountsTypeOK
  /\ OAuthInit => OAuthTypeOK
  /\ EventsInit => EventsTypeOK
  /\ FilesTypeOK /\ ShareInit => ShareTypeOK
  /\ FilesTypeOK /\ MetadataInit => MetadataTypeOK
<1>1. AccountsInit => AccountsTypeOK
  <2> SUFFICES ASSUME AccountsInit PROVE AccountsTypeOK
    OBVIOUS
  <2>1. users \in [Ids -> Row \cup {Absent}]
    <3>1. [name |-> "founder", verified |-> TRUE, token |-> NoToken, role |-> "admin"] \in Row
      BY DEF Row, Roles
    <3> QED
      BY <3>1 DEF AccountsInit
  <2>2. nextId \in 1..(MaxId + 1) /\ nextToken \in 1..(MaxToken + 1)
    BY FoundersAssumption, TokenAssumption DEF AccountsInit
  <2>3. mails = {} /\ claims = {} /\ lost = {}
    BY DEF AccountsInit
  <2> QED
    BY <2>1, <2>2, <2>3 DEF AccountsTypeOK
<1>2. OAuthInit => OAuthTypeOK
  BY OAuthBounds DEF OAuthInit, OAuthTypeOK, Flows, Grants
<1>3. EventsInit => EventsTypeOK
  BY EventBounds DEF EventsInit, EventsTypeOK, Closed, Said
<1>4. FilesTypeOK /\ ShareInit => ShareTypeOK
  BY EmptySound DEF Sound, ShareInit, ShareTypeOK
<1>5. FilesTypeOK /\ MetadataInit => MetadataTypeOK
  <2> SUFFICES ASSUME FilesTypeOK, MetadataInit PROVE MetadataTypeOK
    OBVIOUS
  <2>1. row \in [Tracks -> [fetched : BOOLEAN, art : Arts \cup {NoArt}, cached : BOOLEAN]]
    BY DEF MetadataInit
  <2>2. task \in [Tasks -> {Idle} \cup Looking \cup [at : {"begin", "next"}]]
    BY DEF MetadataInit
  <2>3. /\ running \in [Jobs -> BOOLEAN] /\ todo \in [Jobs -> SUBSET Work] /\ limited \subseteq Tracks
        /\ listed \in [Jobs -> SUBSET Tracks] /\ excused \in [Jobs -> SUBSET Tracks]
    BY DEF MetadataInit
  <2>4. lock \in Workers \cup {Free} /\ begun \in 0..MaxLookups
    BY MaxLookupsAssumption DEF MetadataInit
  <2>5. recent \in BOOLEAN
    BY DEF MetadataInit
  <2> QED
    BY <2>1, <2>2, <2>3, <2>4, <2>5 DEF MetadataTypeOK
<1> QED
  BY <1>1, <1>2, <1>3, <1>4, <1>5

LEMMA ServicesInitInv == Init => ServicesInv
<1> SUFFICES ASSUME Init PROVE ServicesInv
  OBVIOUS
<1>1. part \in Parts /\ AccountsInit /\ OAuthInit /\ EventsInit /\ ShareInit /\ MetadataInit /\ RequestsInit
  BY DEF Init, Parts
<1>2. FilesTypeOK
  BY DEF Init, EmptyFolder, FullFolder, FilesTypeOK, Sizes
<1>3. AccountsPart /\ OAuthPart /\ EventsPart
  BY <1>1, AccountsInitInv, OAuthInitInv, EventInitInv DEF AccountsPart, OAuthPart, EventsPart
<1>4. SharePart
  <2>1. part = "shares" => EmptyFolder
    BY DEF Init
  <2>2. RequestsInit => ScansOnly
    BY DEF RequestsInit, ScansOnly, ShareRequest, Idle
  <2> QED
    BY <1>1, <2>1, <2>2, ShareInitInv DEF SharePart
<1>5. MetadataPart
  <2>1. \A r \in Requests : req[r] = Idle
    BY <1>1 DEF RequestsInit
  <2>2. Idle.at # "swap"
    BY DEF Idle
  <2>3. NoScans
    BY <2>1, <2>2 DEF NoScans
  <2> QED
    BY <1>1, <1>2, <2>3, MetadataInitInv DEF MetadataPart
<1> QED
  BY <1>1, <1>2, <1>3, <1>4, <1>5 DEF ServicesInv

\* A part that is not at work stays as it begins.
LEMMA IdleParts ==
  /\ AccountsInit /\ UNCHANGED accountVars => AccountsInit'
  /\ OAuthInit /\ UNCHANGED oauthVars => OAuthInit'
  /\ EventsInit /\ UNCHANGED eventVars => EventsInit'
  /\ ShareInit /\ UNCHANGED indexVars => ShareInit'
  /\ MetadataInit /\ UNCHANGED libraryVars => MetadataInit'
BY DEF AccountsInit, accountVars, OAuthInit, oauthVars, tableVars, providerVars,
       EventsInit, itemVars, eventVars, ShareInit, indexVars, MetadataInit, libraryVars

LEMMA ServicesNextInv == ServicesInv /\ [Next]_vars => ServicesInv'
<1> SUFFICES ASSUME ServicesInv, [Next]_vars PROVE ServicesInv'
  OBVIOUS
<1> USE DEF AccountsPart, OAuthPart, EventsPart, SharePart, MetadataPart
<1>1. CASE part = "accounts"
  <2>1. [AccountsNext]_<<req, accountVars>> /\ UNCHANGED <<oauthVars, eventVars, shareVars, metadataVars, part>>
    BY <1>1 DEF Next, vars, servicesVars, AccountsTurn, shareVars, metadataVars
  <2>2. AccountsInv'
    BY <1>1, <2>1, AccountsNextInv DEF ServicesInv
  <2> QED
    BY <1>1, <2>1, <2>2, IdleParts DEF ServicesInv, FilesTypeOK, shareVars, metadataVars
<1>2. CASE part = "oauth"
  <2>1. [OAuthNext]_<<req, oauthVars>> /\ UNCHANGED <<accountVars, eventVars, shareVars, metadataVars, part>>
    BY <1>2 DEF Next, vars, servicesVars, OAuthTurn, shareVars, metadataVars
  <2>2. OAuthInv'
    BY <1>2, <2>1, OAuthNextInv DEF ServicesInv
  <2> QED
    BY <1>2, <2>1, <2>2, IdleParts DEF ServicesInv, FilesTypeOK, shareVars, metadataVars
<1>3. CASE part = "events"
  <2>1. [EventsNext]_<<req, eventVars>> /\ UNCHANGED <<accountVars, oauthVars, shareVars, metadataVars, part>>
    BY <1>3 DEF Next, vars, servicesVars, EventsTurn, shareVars, metadataVars
  <2>2. EventInv'
    BY <1>3, <2>1, EventNextInv DEF ServicesInv
  <2> QED
    BY <1>3, <2>1, <2>2, IdleParts DEF ServicesInv, FilesTypeOK, shareVars, metadataVars
<1>4. CASE part = "shares"
  <2>1. [ShareNext]_<<req, shareVars>> /\ UNCHANGED <<accountVars, oauthVars, eventVars, libraryVars, part>>
    BY <1>4 DEF Next, vars, servicesVars, shareVars, metadataVars
  <2>2. (ShareInv /\ ScansOnly)'
    BY <1>4, <2>1, ShareNextInv, ScansOnlyKept DEF ServicesInv
  <2>3. FilesTypeOK'
    BY <2>2 DEF ShareInv, ShareTypeInv, ShareTypeOK
  <2> QED
    BY <1>4, <2>1, <2>2, <2>3, IdleParts DEF ServicesInv
<1>5. CASE part = "metadata"
  <2>1. [MetadataNext]_<<req, metadataVars>> /\ UNCHANGED <<accountVars, oauthVars, eventVars, indexVars, part>>
    BY <1>5 DEF Next, vars, servicesVars, shareVars, metadataVars
  <2>2. (MetadataInv /\ NoScans)'
    BY <1>5, <2>1, MetadataNextInv, NoScansKept DEF ServicesInv
  <2>3. FilesTypeOK'
    BY <2>2 DEF MetadataInv, MetadataTypeInv, MetadataTypeOK
  <2> QED
    BY <1>5, <2>1, <2>2, <2>3, IdleParts DEF ServicesInv
<1> QED
  BY <1>1, <1>2, <1>3, <1>4, <1>5 DEF ServicesInv, Parts

LEMMA ServicesTypes == ServicesInv => TypeOK /\ req \in [Requests -> SlotType]
<1> SUFFICES ASSUME ServicesInv PROVE TypeOK /\ req \in [Requests -> SlotType]
  OBVIOUS
<1> USE DEF AccountsPart, OAuthPart, EventsPart, SharePart, MetadataPart
<1>1. AccountsTypeOK /\ (part = "accounts" => req \in [Requests -> AccountRequest])
  BY IdleTypes DEF ServicesInv, AccountsInv, AccountsReqOK
<1>2. OAuthTypeOK /\ (part = "oauth" => req \in [Requests -> OAuthRequest])
  BY IdleTypes DEF ServicesInv, OAuthInv, OAuthReqOK
<1>3. EventsTypeOK /\ (part = "events" => req \in [Requests -> EventRequest])
  BY IdleTypes DEF ServicesInv, EventInv, EventTypeInv, EventReqOK
<1>4. ShareTypeOK /\ (part = "shares" => req \in [Requests -> ShareRequest])
  BY IdleTypes DEF ServicesInv, ShareInv, ShareTypeInv, ScansOnly
<1>5. MetadataTypeOK /\ (part = "metadata" => req \in [Requests -> MetadataRequest])
  BY IdleTypes, MetadataRequests DEF ServicesInv, MetadataInv, MetadataTypeInv
<1>6. req \in [Requests -> SlotType]
  BY <1>1, <1>2, <1>3, <1>4, <1>5 DEF ServicesInv, Parts, SlotType
<1> QED
  BY <1>1, <1>2, <1>3, <1>4, <1>5, <1>6 DEF TypeOK, SlotType

\* Whichever part is at work, its state and its requests keep their types and
\* the state of the others stays as it begins.
THEOREM ServicesTypeCorrect == Spec => []TypeOK
<1> QED
  BY ServicesInitInv, ServicesNextInv, ServicesTypes, PTL DEF Spec

-----------------------------------------------------------------------------
(* What the run checks of each part *)

\* A part that has done nothing yet shows nothing that could be wrong.
LEMMA IdleKeeps ==
  /\ AccountsInit => VerifiedByMail /\ LinkWorks
  /\ OAuthInit => ConnectionOwner /\ TokensMatchAccount
  /\ EventsInit => PageShowsRow /\ NoMessageBetween
  /\ ShareInit => SharedFilesFound
<1>1. AccountsInit => VerifiedByMail /\ LinkWorks
  <2> SUFFICES ASSUME AccountsInit PROVE VerifiedByMail /\ LinkWorks
    OBVIOUS
  <2>1. Newcomers = {}
    BY NamesAssumption DEF Newcomers, Exists, AccountsInit
  <2> QED
    BY <2>1 DEF VerifiedByMail, LinkWorks
<1>2. OAuthInit => ConnectionOwner /\ TokensMatchAccount
  BY DEF OAuthInit, ConnectionOwner, TokensMatchAccount, Connected
<1>3. EventsInit => PageShowsRow /\ NoMessageBetween
  BY DEF EventsInit, PageShowsRow, NoMessageBetween, Closed
<1>4. ShareInit => SharedFilesFound
  <2> SUFFICES ASSUME ShareInit PROVE SharedFilesFound
    OBVIOUS
  <2>1. Sound(index) /\ added = {}
    BY EmptySound DEF ShareInit
  <2> QED
    BY <2>1, AllWords DEF SharedFilesFound
<1> QED
  BY <1>1, <1>2, <1>3, <1>4

\* Only the metadata part has a lookup under way.
LEMMA NoLookups ==
  ASSUME ServicesInv, part # "metadata", NEW w \in Workers
  PROVE  Place(w).at \notin LookLabels /\ Place(w) \notin Looking
<1>1. Place(w).at \notin LookLabels
  <2>1. CASE w \in Requests
    <3>1. Place(w) = req[w] /\ req[w] \in SlotType
      BY <2>1, ServicesTypes DEF Place
    <3>2. CASE part = "accounts"
      BY <3>1, <3>2 DEF SlotType, AccountRequest, Idle, LookLabels
    <3>3. CASE part = "oauth"
      BY <3>1, <3>3 DEF SlotType, OAuthRequest, Idle, LookLabels
    <3>4. CASE part = "events"
      BY <3>1, <3>4 DEF SlotType, EventRequest, Idle, LookLabels
    <3>5. CASE part = "shares"
      BY <3>1, <3>5 DEF SlotType, ShareRequest, Idle, LookLabels
    <3> QED
      BY <3>2, <3>3, <3>4, <3>5 DEF ServicesInv, Parts
  <2>2. CASE w \notin Requests
    <3>1. Place(w) = Idle
      BY <2>2, WorkerKinds DEF Place, ServicesInv, MetadataPart, MetadataInit
    <3> QED
      BY <3>1 DEF Idle, LookLabels
  <2> QED
    BY <2>1, <2>2
<1> QED
  BY <1>1, LookingFields

\* Accounts, connections, pages and shares, each with any number of requests:
\* whoever is verified was mailed and the mailed links work, connections belong
\* to who started their flow and their tokens to the account named, pages show
\* the rows and miss no message, shared files are found.  Failed and unannounced
\* ends of items (FailPlaceholder, Unread) and failed snapshots are among the
\* steps this holds of.
THEOREM ServicesKeep ==
  Spec => [](/\ VerifiedByMail /\ LinkWorks
             /\ ConnectionOwner /\ TokensMatchAccount
             /\ PageShowsRow /\ NoMessageBetween
             /\ SharedFilesFound)
<1>1. ServicesInv => VerifiedByMail /\ LinkWorks
  BY IdleKeeps DEF ServicesInv, AccountsPart, AccountsInv, VerifyMailed, CurrentLink, LinkWorks
<1>2. ServicesInv => ConnectionOwner /\ TokensMatchAccount
  BY IdleKeeps DEF ServicesInv, OAuthPart, OAuthInv, FlowInv, GrantInv, RowsMatch, TokensMatchAccount
<1>3. ServicesInv => PageShowsRow /\ NoMessageBetween
  BY IdleKeeps, ToldPages DEF ServicesInv, EventsPart, EventInv
<1>4. ServicesInv => SharedFilesFound
  BY IdleKeeps, SoundFinds DEF ServicesInv, SharePart
<1> QED
  BY <1>1, <1>2, <1>3, <1>4, ServicesInitInv, ServicesNextInv, PTL DEF Spec

\* Only its own flow connects a user again, a request to MusicBrainz waits for
\* the second after the one before, and a job ends only when every track it
\* listed has its result or is excused, whichever part is at work.
THEOREM ServicesStep == Spec => NoReconnectWithoutApproval /\ MusicBrainzRate /\ JobsReachEvery
<1>1. ServicesInv /\ [Next]_vars =>
        [\A u \in Users : ~Connected(u) /\ Connected(u)' => connections'[u].flow \notin used]_oauthVars
  <2> SUFFICES ASSUME ServicesInv, [Next]_vars, oauthVars' # oauthVars
               PROVE  \A u \in Users : ~Connected(u) /\ Connected(u)' => connections'[u].flow \notin used
    OBVIOUS
  <2>1. part = "oauth" /\ OAuthNext
    BY DEF Next, vars, servicesVars, AccountsTurn, OAuthTurn, EventsTurn
  <2>2. OAuthInv
    BY <2>1 DEF ServicesInv, OAuthPart
  <2> QED
    BY <2>1, <2>2, NewRows
<1>2. ServicesInv /\ [Next]_vars =>
        [\A w \in Workers : Place(w).at \in {"wait", "due"} /\ Place(w)'.at = "call" => ~recent]_<<req, metadataVars>>
  <2> SUFFICES ASSUME ServicesInv, [Next]_vars, NEW w \in Workers,
                      Place(w).at \in {"wait", "due"}, Place(w)'.at = "call"
               PROVE  ~recent
    OBVIOUS
  <2>1. part = "metadata"
    BY NoLookups DEF LookLabels
  <2>2. MetadataInv /\ [MetadataNext]_<<req, metadataVars>>
    BY <2>1 DEF ServicesInv, MetadataPart, Next, vars, servicesVars, metadataVars
  <2> QED
    BY <2>2, RateStep
<1>3. ServicesInv /\ [Next]_vars =>
        [\A job \in Jobs : task[job] # Idle /\ task'[job] = Idle =>
           \A t \in listed[job] \ excused[job] : HasResult(job, t)]_<<req, metadataVars>>
  <2> SUFFICES ASSUME ServicesInv, [Next]_vars, NEW job \in Jobs, task[job] # Idle, task'[job] = Idle
               PROVE  \A t \in listed[job] \ excused[job] : HasResult(job, t)
    OBVIOUS
  <2>1. part = "metadata"
    BY DEF ServicesInv, MetadataPart, MetadataInit, Tasks
  <2>2. MetadataInv /\ [MetadataNext]_<<req, metadataVars>>
    BY <2>1 DEF ServicesInv, MetadataPart, Next, vars, servicesVars, metadataVars
  <2> QED
    BY <2>2, ReachedAtEnd
<1> QED
  BY <1>1, <1>2, <1>3, ServicesInitInv, ServicesNextInv, PTL
     DEF Spec, NoReconnectWithoutApproval, MusicBrainzRate, JobsReachEvery

-----------------------------------------------------------------------------
(* What a part sees of the slots *)

Mine(state, labels) == state = Idle \/ state.at \in labels

View(labels) == [r \in Requests |-> IF req[r].at \in labels THEN req[r] ELSE Idle]

AccountView == View(AccountLabels)
OAuthView   == View(OAuthLabels)
EventView   == View(EventLabels)
LibraryView == View(LibraryLabels)

A == INSTANCE AccountProofs WITH req <- AccountView
O == INSTANCE AccountProofs WITH req <- OAuthView
E == INSTANCE EventStreamProofs WITH req <- EventView
L == INSTANCE LibraryProofs WITH req <- LibraryView

Slots == req = [r \in Requests |-> req[r]]

\* A step of one part: handlers of others stay where they are.
Within(labels) ==
  Slots' /\ \A r \in Requests : req'[r] = req[r] \/ (Mine(req[r], labels) /\ Mine(req'[r], labels))

LEMMA Moved ==
  ASSUME NEW labels, "idle" \notin labels, Slots, NEW r \in Requests, Mine(req[r], labels),
         NEW s, Mine(s, labels), Goto(r, s)
  PROVE  View(labels)' = [View(labels) EXCEPT ![r] = s] /\ Within(labels)
<1>1. View(labels)' = [View(labels) EXCEPT ![r] = s]
  BY DEF View, Slots, Goto, Idle, Mine
<1>2. Within(labels)
  BY DEF Slots, Goto, Within
<1> QED
  BY <1>1, <1>2

LEMMA Unmoved0 ==
  ASSUME NEW labels, Slots, req' = req
  PROVE  View(labels)' = View(labels) /\ Within(labels)
BY DEF View, Slots, Within

LEMMA OthersSee ==
  ASSUME NEW labels, NEW others, labels \cap others = {}, "idle" \notin others, Within(labels)
  PROVE  View(others)' = View(others)
BY DEF View, Within, Mine, Idle

LEMMA Seen ==
  ASSUME NEW labels, "idle" \notin labels, NEW r \in Requests
  PROVE  /\ Mine(req[r], labels) => View(labels)[r] = req[r]
         /\ \A label \in labels : View(labels)[r].at = label <=> req[r].at = label
         /\ \A label \in labels : req[r].at = label => View(labels)[r] = req[r]
         /\ Mine(req[r], labels) /\ req[r].at = "idle" => req[r] = Idle
BY DEF View, Mine, Idle

-----------------------------------------------------------------------------
(* Accounts *)

LEMMA AccountsSee ==
  ASSUME NEW r \in Requests
  PROVE  /\ Mine(req[r], AccountLabels) => AccountView[r] = req[r] /\ (A!Arrives(r) <=> Arrives(r))
         /\ \A label \in AccountLabels : A!At(r, label) <=> At(r, label)
         /\ \A label \in AccountLabels : At(r, label) => AccountView[r] = req[r] /\ Mine(req[r], AccountLabels)
         /\ Arrives(r) => Mine(req[r], AccountLabels)
<1>1. "idle" \notin AccountLabels
  BY DEF AccountLabels
<1> QED
  BY <1>1, Seen DEF AccountView, A!Arrives, Arrives, A!Idle, Idle, A!At, At, Mine

LEMMA AccountGoto ==
  ASSUME Slots, NEW r \in Requests, Mine(req[r], AccountLabels), NEW s, Goto(r, s), Mine(s, AccountLabels)
  PROVE  A!Goto(r, s) /\ Within(AccountLabels)
<1>1. "idle" \notin AccountLabels
  BY DEF AccountLabels
<1> QED
  BY <1>1, Moved DEF A!Goto, AccountView

LEMMA AccountFinish ==
  ASSUME Slots, NEW r \in Requests, Mine(req[r], AccountLabels), Finish(r)
  PROVE  A!Finish(r) /\ Within(AccountLabels)
BY AccountGoto DEF Finish, A!Finish, A!Idle, Idle, Mine

LEMMA SameAccounts ==
  /\ A!Idle = Idle /\ A!Ids = Ids /\ A!Tokens = Tokens /\ A!Roles = Roles /\ A!Absent = Absent
  /\ A!NoToken = NoToken /\ A!Admins = Admins /\ (A!MayAdministrate <=> MayAdministrate)
  /\ \A id : A!Exists(id) <=> Exists(id)
  /\ \A name : A!ById(name) = ById(name)
  /\ \A t : A!ByToken(t) = ByToken(t)
  /\ A!accountVars = accountVars
BY DEF A!Idle, Idle, A!Ids, Ids, A!Tokens, Tokens, A!Roles, Roles, A!Absent, Absent, A!NoToken, NoToken,
       A!Admins, Admins, A!MayAdministrate, MayAdministrate, A!Exists, Exists, A!ById, ById, A!ByToken, ByToken,
       A!accountVars, accountVars

LEMMA SameSize == A!Cardinality(Admins) = Cardinality(Admins)
BY DEF A!Cardinality, Cardinality

LEMMA AccountArrivals ==
  ASSUME Slots, NEW r \in Requests
  PROVE  /\ \A name \in Names : Register(r, name) => A!Register(r, name) /\ Within(AccountLabels)
         /\ \A name \in Names : ResendVerification(r, name) => A!ResendVerification(r, name) /\ Within(AccountLabels)
         /\ \A t \in Tokens : VerifyEmail(r, t) => A!VerifyEmail(r, t) /\ Within(AccountLabels)
         /\ \A id \in Ids : Login(r, id) => A!Login(r, id) /\ Within(AccountLabels)
         /\ \A id \in Ids : Promote(r, id) => A!Promote(r, id) /\ Within(AccountLabels)
         /\ \A id \in Ids, role \in Roles : Demote(r, id, role) => A!Demote(r, id, role) /\ Within(AccountLabels)
<1> USE SameAccounts, AccountsSee
<1>1. ASSUME NEW name \in Names, Register(r, name) PROVE A!Register(r, name) /\ Within(AccountLabels)
  <2> DEFINE s == [at |-> "mail", id |-> nextId, token |-> nextToken, rollback |-> TRUE]
  <2>1. Arrives(r) /\ Goto(r, s) /\ Mine(s, AccountLabels)
    BY <1>1 DEF Register, Mine, AccountLabels
  <2>2. A!Goto(r, s) /\ Within(AccountLabels)
    BY <2>1, AccountGoto
  <2>3. A!CreateUser(name, nextToken)
    BY <1>1 DEF Register, CreateUser, A!CreateUser
  <2> QED
    BY <1>1, <2>1, <2>2, <2>3 DEF Register, A!Register
<1>2. ASSUME NEW name \in Names, ResendVerification(r, name)
      PROVE  A!ResendVerification(r, name) /\ Within(AccountLabels)
  <2>1. PICK id \in ById(name) : ~users[id].verified /\ Goto(r, [at |-> "retoken", id |-> id])
    BY <1>2 DEF ResendVerification
  <2>2. Mine([at |-> "retoken", id |-> id], AccountLabels)
    BY DEF Mine, AccountLabels
  <2>3. A!Goto(r, [at |-> "retoken", id |-> id]) /\ Within(AccountLabels)
    BY <1>2, <2>1, <2>2, AccountGoto DEF ResendVerification
  <2> QED
    BY <1>2, <2>1, <2>3 DEF ResendVerification, A!ResendVerification, accountVars, A!accountVars
<1>3. ASSUME NEW t \in Tokens, VerifyEmail(r, t) PROVE A!VerifyEmail(r, t) /\ Within(AccountLabels)
  <2>1. PICK id \in ByToken(t) : ~users[id].verified /\ Goto(r, [at |-> "verify", id |-> id])
    BY <1>3 DEF VerifyEmail
  <2>2. Mine([at |-> "verify", id |-> id], AccountLabels)
    BY DEF Mine, AccountLabels
  <2>3. A!Goto(r, [at |-> "verify", id |-> id]) /\ Within(AccountLabels)
    BY <1>3, <2>1, <2>2, AccountGoto DEF VerifyEmail
  <2> QED
    BY <1>3, <2>1, <2>3 DEF VerifyEmail, A!VerifyEmail, accountVars, A!accountVars
<1>4. ASSUME NEW id \in Ids, Login(r, id) PROVE A!Login(r, id) /\ Within(AccountLabels)
  BY <1>4, Unmoved0 DEF Login, A!Login, AccountView
<1>5. ASSUME NEW id \in Ids, Promote(r, id) PROVE A!Promote(r, id) /\ Within(AccountLabels)
  <2> DEFINE s == [at |-> "setRole", id |-> id, role |-> "admin"]
  <2>1. Arrives(r) /\ Goto(r, s) /\ Mine(s, AccountLabels)
    BY <1>5 DEF Promote, Mine, AccountLabels
  <2>2. A!Goto(r, s) /\ Within(AccountLabels)
    BY <2>1, AccountGoto
  <2> QED
    BY <1>5, <2>1, <2>2 DEF Promote, A!Promote, accountVars, A!accountVars
<1>6. ASSUME NEW id \in Ids, NEW role \in Roles, Demote(r, id, role)
      PROVE  A!Demote(r, id, role) /\ Within(AccountLabels)
  <2> DEFINE s == [at |-> IF users[id].role = "admin" THEN "count" ELSE "setRole", id |-> id, role |-> role]
  <2>1. Arrives(r) /\ Goto(r, s) /\ Mine(s, AccountLabels)
    BY <1>6 DEF Demote, Mine, AccountLabels
  <2>2. A!Goto(r, s) /\ Within(AccountLabels)
    BY <2>1, AccountGoto
  <2> QED
    BY <1>6, <2>1, <2>2 DEF Demote, A!Demote, accountVars, A!accountVars
<1> QED
  BY <1>1, <1>2, <1>3, <1>4, <1>5, <1>6

LEMMA AccountsGoOn ==
  ASSUME Slots, A!AccountsReqOK, NEW r \in Requests
  PROVE  /\ MailLink(r) => A!MailLink(r) /\ Within(AccountLabels)
         /\ DeleteUser(r) => A!DeleteUser(r) /\ Within(AccountLabels)
         /\ VerifyUserEmail(r) => A!VerifyUserEmail(r) /\ Within(AccountLabels)
         /\ UpdateVerificationToken(r) => A!UpdateVerificationToken(r) /\ Within(AccountLabels)
         /\ CountAdmins(r) => A!CountAdmins(r) /\ Within(AccountLabels)
         /\ UpdateUserRole(r) => A!UpdateUserRole(r) /\ Within(AccountLabels)
         /\ AbandonAccountRequest(r) /\ Mine(req[r], AccountLabels) => A!AbandonAccountRequest(r) /\ Within(AccountLabels)
<1>0. \A label \in AccountLabels : A!At(r, label) <=> At(r, label)
  BY AccountsSee
<1>a. \A label \in AccountLabels : At(r, label) => AccountView[r] = req[r] /\ Mine(req[r], AccountLabels)
  BY AccountsSee
<1> USE SameAccounts
<1>1. ASSUME MailLink(r) PROVE A!MailLink(r) /\ Within(AccountLabels)
  <2>1. At(r, "mail") /\ "mail" \in AccountLabels
    BY <1>1 DEF MailLink, AccountLabels
  <2>2. A!At(r, "mail") /\ AccountView[r] = req[r] /\ Mine(req[r], AccountLabels)
    BY <2>1, <1>0, <1>a
  <2>3. PICK arrived \in BOOLEAN, ok \in BOOLEAN :
          /\ SendVerificationEmail(req[r].id, req[r].token, arrived, ok)
          /\ IF ok \/ ~req[r].rollback THEN Finish(r)
             ELSE Goto(r, [at |-> "rollback", id |-> req[r].id])
    BY <1>1 DEF MailLink
  <2>4. A!SendVerificationEmail(req[r].id, req[r].token, arrived, ok)
    BY <2>3 DEF SendVerificationEmail, A!SendVerificationEmail
  <2>5. Mine([at |-> "rollback", id |-> req[r].id], AccountLabels)
    BY DEF Mine, AccountLabels
  <2>6. /\ Within(AccountLabels)
        /\ IF ok \/ ~req[r].rollback THEN A!Finish(r)
           ELSE A!Goto(r, [at |-> "rollback", id |-> req[r].id])
    BY <2>2, <2>3, <2>5, AccountFinish, AccountGoto
  <2> QED
    BY <1>1, <2>2, <2>4, <2>6 DEF MailLink, A!MailLink
<1>2. ASSUME DeleteUser(r) PROVE A!DeleteUser(r) /\ Within(AccountLabels)
  <2>1. At(r, "rollback") /\ "rollback" \in AccountLabels
    BY <1>2 DEF DeleteUser, AccountLabels
  <2>2. A!At(r, "rollback") /\ AccountView[r] = req[r] /\ Mine(req[r], AccountLabels)
    BY <2>1, <1>0, <1>a
  <2> QED
    BY <1>2, <2>2, AccountFinish DEF DeleteUser, A!DeleteUser
<1>3. ASSUME VerifyUserEmail(r) PROVE A!VerifyUserEmail(r) /\ Within(AccountLabels)
  <2>1. At(r, "verify") /\ "verify" \in AccountLabels
    BY <1>3 DEF VerifyUserEmail, AccountLabels
  <2>2. A!At(r, "verify") /\ AccountView[r] = req[r] /\ Mine(req[r], AccountLabels)
    BY <2>1, <1>0, <1>a
  <2> QED
    BY <1>3, <2>2, AccountFinish DEF VerifyUserEmail, A!VerifyUserEmail
<1>4. ASSUME UpdateVerificationToken(r) PROVE A!UpdateVerificationToken(r) /\ Within(AccountLabels)
  <2> DEFINE s == [at |-> "mail", id |-> req[r].id, token |-> nextToken, rollback |-> FALSE]
  <2>1. At(r, "retoken") /\ "retoken" \in AccountLabels
    BY <1>4 DEF UpdateVerificationToken, AccountLabels
  <2>2. A!At(r, "retoken") /\ AccountView[r] = req[r] /\ Mine(req[r], AccountLabels)
    BY <2>1, <1>0, <1>a
  <2>3. Goto(r, s) /\ Mine(s, AccountLabels)
    BY <1>4 DEF UpdateVerificationToken, Mine, AccountLabels
  <2>4. A!Goto(r, s) /\ Within(AccountLabels)
    BY <2>2, <2>3, AccountGoto
  <2> QED
    BY <1>4, <2>2, <2>4 DEF UpdateVerificationToken, A!UpdateVerificationToken
<1>5. ASSUME CountAdmins(r) PROVE A!CountAdmins(r) /\ Within(AccountLabels)
  <2> DEFINE s == [req[r] EXCEPT !.at = "setRole"]
  <2>1. At(r, "count") /\ "count" \in AccountLabels
    BY <1>5 DEF CountAdmins, AccountLabels
  <2>2. A!At(r, "count") /\ AccountView[r] = req[r] /\ Mine(req[r], AccountLabels)
    BY <2>1, <1>0, <1>a
  <2>3. Mine(s, AccountLabels)
    <3>1. req[r] \in A!AccountRequest
      BY <2>2 DEF A!AccountsReqOK
    <3>2. req[r] \in [at : {"count", "setRole"}, id : A!Ids, role : A!Roles]
      BY <2>1, <3>1 DEF A!AccountRequest, At, A!Idle
    <3>3. s.at = "setRole"
      BY <3>2
    <3> QED
      BY <3>3 DEF Mine, AccountLabels
  <2>4. /\ Within(AccountLabels)
        /\ IF Cardinality(Admins) <= 1 THEN A!Finish(r) ELSE A!Goto(r, s)
    BY <1>5, <2>2, <2>3, AccountGoto, AccountFinish DEF CountAdmins
  <2> QED
    BY <1>5, <2>2, <2>4, SameSize DEF CountAdmins, A!CountAdmins, accountVars, A!accountVars
<1>6. ASSUME UpdateUserRole(r) PROVE A!UpdateUserRole(r) /\ Within(AccountLabels)
  <2>1. At(r, "setRole") /\ "setRole" \in AccountLabels
    BY <1>6 DEF UpdateUserRole, AccountLabels
  <2>2. A!At(r, "setRole") /\ AccountView[r] = req[r] /\ Mine(req[r], AccountLabels)
    BY <2>1, <1>0, <1>a
  <2>3. A!Finish(r) /\ Within(AccountLabels)
    BY <1>6, <2>2, AccountFinish DEF UpdateUserRole
  <2> QED
    BY <1>6, <2>2, <2>3 DEF UpdateUserRole, A!UpdateUserRole
<1>7. ASSUME AbandonAccountRequest(r), Mine(req[r], AccountLabels)
      PROVE  A!AbandonAccountRequest(r) /\ Within(AccountLabels)
  <2>1. A!Finish(r) /\ Within(AccountLabels)
    BY <1>7, AccountFinish DEF AbandonAccountRequest
  <2>2. AccountView[r] = req[r] /\ ~A!Arrives(r)
    BY <1>7, AccountsSee DEF AbandonAccountRequest
  <2>3. A!At(r, "mail") <=> At(r, "mail")
    BY <1>0 DEF AccountLabels
  <2> QED
    BY <1>7, <2>1, <2>2, <2>3 DEF AbandonAccountRequest, A!AbandonAccountRequest
<1> QED
  BY <1>1, <1>2, <1>3, <1>4, <1>5, <1>6, <1>7

LEMMA AccountsTurnSeen ==
  ASSUME Slots, A!AccountsReqOK, AccountsTurn
  PROVE  A!AccountsNext /\ Within(AccountLabels)
<1>1. PICK r \in Requests : AccountStep(r)
  BY DEF AccountsTurn, AccountsNext
<1>2. AbandonAccountRequest(r) => Mine(req[r], AccountLabels)
  <2> SUFFICES ASSUME AbandonAccountRequest(r), ~Mine(req[r], AccountLabels) PROVE FALSE
    OBVIOUS
  <2>1. req'[r] = req[r]
    BY DEF AccountsTurn, OwnHandlers, Mine, Arrives
  <2>2. req'[r] = Idle
    BY DEF AbandonAccountRequest, Finish, Goto, Slots
  <2> QED
    BY <2>1, <2>2 DEF Mine
<1>3. A!AccountStep(r) /\ Within(AccountLabels)
  BY <1>1, <1>2, AccountArrivals, AccountsGoOn, SameAccounts DEF AccountStep, A!AccountStep
<1> QED
  BY <1>3 DEF A!AccountsNext

-----------------------------------------------------------------------------
(* Connections *)

LEMMA OAuthArrives ==
  ASSUME NEW r \in Requests, Arrives(r)
  PROVE  O!Arrives(r) /\ Mine(req[r], OAuthLabels)
<1>1. "idle" \notin OAuthLabels
  BY DEF OAuthLabels
<1> QED
  BY <1>1, Seen DEF OAuthView, O!Arrives, Arrives, O!Idle, Idle, Mine

LEMMA OAuthAt ==
  ASSUME NEW r \in Requests, NEW label \in OAuthLabels, At(r, label)
  PROVE  O!At(r, label) /\ OAuthView[r] = req[r] /\ Mine(req[r], OAuthLabels)
<1>1. "idle" \notin OAuthLabels
  BY DEF OAuthLabels
<1> QED
  BY <1>1, Seen DEF OAuthView, O!At, At, Mine

LEMMA OAuthGoto ==
  ASSUME Slots, NEW r \in Requests, Mine(req[r], OAuthLabels), NEW s, Goto(r, s), Mine(s, OAuthLabels)
  PROVE  O!Goto(r, s) /\ Within(OAuthLabels)
<1>1. "idle" \notin OAuthLabels
  BY DEF OAuthLabels
<1> QED
  BY <1>1, Moved DEF O!Goto, OAuthView

LEMMA OAuthFinish ==
  ASSUME Slots, NEW r \in Requests, Mine(req[r], OAuthLabels), Finish(r)
  PROVE  O!Finish(r) /\ Within(OAuthLabels)
BY OAuthGoto DEF Finish, O!Finish, O!Idle, Idle, Mine

LEMMA SameConnections ==
  /\ O!Idle = Idle /\ O!Flows = Flows /\ O!Grants = Grants /\ O!NoGrant = NoGrant
  /\ O!NoConnection = NoConnection
  /\ \A u : O!Connected(u) <=> Connected(u)
BY DEF O!Idle, Idle, O!Flows, Flows, O!Grants, Grants, O!NoGrant, NoGrant, O!NoConnection, NoConnection,
       O!Connected, Connected

LEMMA OAuthArrivals ==
  ASSUME Slots, NEW r \in Requests
  PROVE  /\ \A u \in Users : StartAuthorization(r, u) => O!StartAuthorization(r, u) /\ Within(OAuthLabels)
         /\ \A u \in Users : GetValidAccessToken(r, u) => O!GetValidAccessToken(r, u) /\ Within(OAuthLabels)
         /\ \A u \in Users, p \in pending, c \in codes :
              CompleteAuthorization(r, u, p, c) => O!CompleteAuthorization(r, u, p, c) /\ Within(OAuthLabels)
<1> USE DEF oauthVars, O!oauthVars, tableVars, O!tableVars, providerVars, O!providerVars
<1>1. ASSUME NEW u \in Users, StartAuthorization(r, u)
      PROVE  O!StartAuthorization(r, u) /\ Within(OAuthLabels)
  <2> DEFINE s == [at |-> "insert", user |-> u, flow |-> nextFlow]
  <2>1. Arrives(r) /\ Goto(r, s) /\ Mine(s, OAuthLabels)
    BY <1>1 DEF StartAuthorization, Mine, OAuthLabels
  <2>2. O!Arrives(r) /\ O!Goto(r, s) /\ Within(OAuthLabels)
    BY <2>1, OAuthArrives, OAuthGoto
  <2> QED
    BY <1>1, <2>2 DEF StartAuthorization, O!StartAuthorization
<1>2. ASSUME NEW u \in Users, GetValidAccessToken(r, u)
      PROVE  O!GetValidAccessToken(r, u) /\ Within(OAuthLabels)
  <2> DEFINE s == [at |-> "refresh", user |-> u, old |-> connections[u].grant]
  <2>1. Arrives(r) /\ Goto(r, s) /\ Mine(s, OAuthLabels)
    BY <1>2 DEF GetValidAccessToken, Mine, OAuthLabels
  <2>2. O!Arrives(r) /\ O!Goto(r, s) /\ Within(OAuthLabels)
    BY <2>1, OAuthArrives, OAuthGoto
  <2> QED
    BY <1>2, <2>2, SameConnections DEF GetValidAccessToken, O!GetValidAccessToken
<1>3. ASSUME NEW u \in Users, NEW p \in pending, NEW c \in codes, CompleteAuthorization(r, u, p, c)
      PROVE  O!CompleteAuthorization(r, u, p, c) /\ Within(OAuthLabels)
  <2> DEFINE s == [at |-> "deleteState", user |-> u, owner |-> p.user, flow |-> p.flow, code |-> c]
  <2>1. Arrives(r) /\ Goto(r, s) /\ Mine(s, OAuthLabels)
    BY <1>3 DEF CompleteAuthorization, Mine, OAuthLabels
  <2>2. O!Arrives(r) /\ O!Goto(r, s) /\ Within(OAuthLabels)
    BY <2>1, OAuthArrives, OAuthGoto
  <2> QED
    BY <1>3, <2>2 DEF CompleteAuthorization, O!CompleteAuthorization
<1> QED
  BY <1>1, <1>2, <1>3

LEMMA OAuthGoesOn ==
  ASSUME Slots, O!OAuthReqOK, NEW r \in Requests
  PROVE  /\ InsertPendingState(r) => O!InsertPendingState(r) /\ Within(OAuthLabels)
         /\ DeletePendingState(r) => O!DeletePendingState(r) /\ Within(OAuthLabels)
         /\ Exchange(r) => O!Exchange(r) /\ Within(OAuthLabels)
         /\ Connect(r) => O!Connect(r) /\ Within(OAuthLabels)
         /\ RefreshToken(r) => O!RefreshToken(r) /\ Within(OAuthLabels)
         /\ UpdateTokens(r) => O!UpdateTokens(r) /\ Within(OAuthLabels)
         /\ AbandonOAuthRequest(r) /\ Mine(req[r], OAuthLabels)
              => O!AbandonOAuthRequest(r) /\ Within(OAuthLabels)
<1> USE SameConnections DEF oauthVars, O!oauthVars, tableVars, O!tableVars, providerVars, O!providerVars
<1>1. ASSUME InsertPendingState(r) PROVE O!InsertPendingState(r) /\ Within(OAuthLabels)
  <2>1. O!At(r, "insert") /\ OAuthView[r] = req[r] /\ Mine(req[r], OAuthLabels)
    BY <1>1, OAuthAt DEF InsertPendingState, OAuthLabels
  <2>2. O!Finish(r) /\ Within(OAuthLabels)
    BY <1>1, <2>1, OAuthFinish DEF InsertPendingState
  <2> QED
    BY <1>1, <2>1, <2>2 DEF InsertPendingState, O!InsertPendingState
<1>2. ASSUME DeletePendingState(r) PROVE O!DeletePendingState(r) /\ Within(OAuthLabels)
  <2> DEFINE s == [req[r] EXCEPT !.at = "exchange"]
  <2>1. At(r, "deleteState") /\ "deleteState" \in OAuthLabels
    BY <1>2 DEF DeletePendingState, OAuthLabels
  <2>2. O!At(r, "deleteState") /\ OAuthView[r] = req[r] /\ Mine(req[r], OAuthLabels)
    BY <2>1, OAuthAt
  <2>3. Mine(s, OAuthLabels)
    <3>1. req[r] \in O!OAuthRequest
      BY <2>2 DEF O!OAuthReqOK
    <3>2. req[r] \in [at : {"deleteState", "exchange"}, user : Users, owner : Users, flow : O!Flows, code : O!Code]
      BY <2>1, <3>1 DEF O!OAuthRequest, At, O!Idle
    <3>3. s.at = "exchange"
      BY <3>2
    <3> QED
      BY <3>3 DEF Mine, OAuthLabels
  <2>4. /\ O!Finish(r) \/ (req[r].owner = req[r].user /\ O!Goto(r, s))
        /\ Within(OAuthLabels)
    BY <1>2, <2>2, <2>3, OAuthFinish, OAuthGoto DEF DeletePendingState
  <2> QED
    BY <1>2, <2>2, <2>4 DEF DeletePendingState, O!DeletePendingState, ForgetState, O!ForgetState
<1>3. ASSUME Exchange(r) PROVE O!Exchange(r) /\ Within(OAuthLabels)
  <2> DEFINE Connecting(g) == [at |-> "connect", user |-> req[r].user, flow |-> req[r].flow,
                               account |-> req[r].code.account, grant |-> g]
  <2>1. O!At(r, "exchange") /\ OAuthView[r] = req[r] /\ Mine(req[r], OAuthLabels)
    BY <1>3, OAuthAt DEF Exchange, OAuthLabels
  <2>2. ASSUME NEW g, Goto(r, Connecting(g)) PROVE O!Goto(r, Connecting(g)) /\ Within(OAuthLabels)
    <3>1. Mine(Connecting(g), OAuthLabels)
      BY DEF Mine, OAuthLabels
    <3> QED
      BY <2>1, <2>2, <3>1, OAuthGoto
  <2>3. Finish(r) => O!Finish(r) /\ Within(OAuthLabels)
    BY <2>1, OAuthFinish
  <2> QED
    BY <1>3, <2>1, <2>2, <2>3 DEF Exchange, O!Exchange
<1>4. ASSUME Connect(r) PROVE O!Connect(r) /\ Within(OAuthLabels)
  <2>1. O!At(r, "connect") /\ OAuthView[r] = req[r] /\ Mine(req[r], OAuthLabels)
    BY <1>4, OAuthAt DEF Connect, OAuthLabels
  <2>2. O!Finish(r) /\ Within(OAuthLabels)
    BY <1>4, <2>1, OAuthFinish DEF Connect
  <2> QED
    BY <1>4, <2>1, <2>2 DEF Connect, O!Connect, UpsertConnection, O!UpsertConnection
<1>5. ASSUME RefreshToken(r) PROVE O!RefreshToken(r) /\ Within(OAuthLabels)
  <2> DEFINE Updating(g) == [at |-> "update", user |-> req[r].user, old |-> req[r].old, new |-> g]
  <2>1. O!At(r, "refresh") /\ OAuthView[r] = req[r] /\ Mine(req[r], OAuthLabels)
    BY <1>5, OAuthAt DEF RefreshToken, OAuthLabels
  <2>2. ASSUME NEW g, Goto(r, Updating(g)) PROVE O!Goto(r, Updating(g)) /\ Within(OAuthLabels)
    <3>1. Mine(Updating(g), OAuthLabels)
      BY DEF Mine, OAuthLabels
    <3> QED
      BY <2>1, <2>2, <3>1, OAuthGoto
  <2>3. Finish(r) => O!Finish(r) /\ Within(OAuthLabels)
    BY <2>1, OAuthFinish
  <2> QED
    BY <1>5, <2>1, <2>2, <2>3 DEF RefreshToken, O!RefreshToken
<1>6. ASSUME UpdateTokens(r) PROVE O!UpdateTokens(r) /\ Within(OAuthLabels)
  <2>1. O!At(r, "update") /\ OAuthView[r] = req[r] /\ Mine(req[r], OAuthLabels)
    BY <1>6, OAuthAt DEF UpdateTokens, OAuthLabels
  <2>2. O!Finish(r) /\ Within(OAuthLabels)
    BY <1>6, <2>1, OAuthFinish DEF UpdateTokens, Update
  <2> QED
    BY <1>6, <2>1, <2>2 DEF UpdateTokens, O!UpdateTokens, Update, O!Update
<1>7. ASSUME AbandonOAuthRequest(r), Mine(req[r], OAuthLabels)
      PROVE  O!AbandonOAuthRequest(r) /\ Within(OAuthLabels)
  <2>1. O!Finish(r) /\ Within(OAuthLabels)
    BY <1>7, OAuthFinish DEF AbandonOAuthRequest
  <2>2. OAuthView[r] = req[r]
    <3>1. "idle" \notin OAuthLabels
      BY DEF OAuthLabels
    <3> QED
      BY <1>7, <3>1, Seen DEF OAuthView
  <2> QED
    BY <1>7, <2>1, <2>2 DEF AbandonOAuthRequest, O!AbandonOAuthRequest, Arrives, O!Arrives, At, O!At
<1> QED
  BY <1>1, <1>2, <1>3, <1>4, <1>5, <1>6, <1>7

LEMMA OAuthTurnSeen ==
  ASSUME Slots, O!OAuthReqOK, OAuthTurn
  PROVE  O!OAuthNext /\ Within(OAuthLabels)
<1>1. CASE \E r \in Requests : OAuthStep(r)
  <2>1. PICK r \in Requests : OAuthStep(r)
    BY <1>1
  <2>2. AbandonOAuthRequest(r) => Mine(req[r], OAuthLabels)
    <3> SUFFICES ASSUME AbandonOAuthRequest(r), ~Mine(req[r], OAuthLabels) PROVE FALSE
      OBVIOUS
    <3>1. req'[r] = req[r]
      BY DEF OAuthTurn, OwnHandlers, Mine, Arrives
    <3>2. req'[r] = Idle
      BY DEF AbandonOAuthRequest, Finish, Goto, Slots
    <3> QED
      BY <3>1, <3>2 DEF Mine
  <2>3. O!OAuthStep(r) /\ Within(OAuthLabels)
    BY <2>1, <2>2, OAuthArrivals, OAuthGoesOn DEF OAuthStep, O!OAuthStep
  <2> QED
    BY <2>3 DEF O!OAuthNext
<1>2. ASSUME NEW f \in Flows, NEW a \in ExternalAccounts, Approve(f, a)
      PROVE  O!OAuthNext /\ Within(OAuthLabels)
  <2>1. OAuthView' = OAuthView /\ Within(OAuthLabels)
    BY <1>2, Unmoved0 DEF Approve, OAuthView
  <2>2. O!Approve(f, a)
    BY <1>2, <2>1 DEF Approve, O!Approve, tableVars, O!tableVars
  <2> QED
    BY <2>1, <2>2, SameConnections DEF O!OAuthNext
<1>3. ASSUME NEW u \in Users, Disconnect(u) PROVE O!OAuthNext /\ Within(OAuthLabels)
  <2>1. OAuthView' = OAuthView /\ Within(OAuthLabels)
    BY <1>3, Unmoved0 DEF Disconnect, OAuthView
  <2>2. O!Disconnect(u)
    BY <1>3, <2>1, SameConnections DEF Disconnect, O!Disconnect, providerVars, O!providerVars
  <2> QED
    BY <2>1, <2>2 DEF O!OAuthNext
<1> QED
  BY <1>1, <1>2, <1>3 DEF OAuthTurn, OAuthNext

-----------------------------------------------------------------------------
(* Events *)

LEMMA EventGoto ==
  ASSUME Slots, NEW r \in Requests, Mine(req[r], EventLabels), NEW s, Goto(r, s), Mine(s, EventLabels)
  PROVE  E!Goto(r, s) /\ Within(EventLabels)
<1>1. "idle" \notin EventLabels
  BY DEF EventLabels
<1> QED
  BY <1>1, Moved DEF E!Goto, EventView

LEMMA SameRows ==
  /\ E!Message = Message /\ E!Active = Active /\ E!Statuses = Statuses /\ E!Said = Said
  /\ E!ItemUpdated = ItemUpdated /\ E!NewMessage = NewMessage /\ E!Idle = Idle /\ E!Closed = Closed
  /\ E!NextStatus = NextStatus /\ E!ItemsAtWork = ItemsAtWork /\ E!Rows = Rows
  /\ E!itemVars = itemVars
  /\ \A p : E!Listening(p) <=> Listening(p)
  /\ \A i : E!LastSaid(i) = LastSaid(i)
BY DEF E!Message, Message, E!Active, Active, E!Statuses, Statuses, E!Said, Said, E!ItemUpdated, ItemUpdated,
       E!NewMessage, NewMessage, E!Idle, Idle, E!Closed, Closed, E!NextStatus, NextStatus,
       E!ItemsAtWork, ItemsAtWork, E!Rows, Rows, E!itemVars, itemVars, E!Listening, Listening, E!LastSaid, LastSaid

LEMMA SamePages ==
  /\ \A ids : E!Newest(ids) = Newest(ids)
  /\ \A p : E!Before(p) = Before(p)
<1>1. \A ids : E!Newest(ids) = Newest(ids)
  BY DEF E!Newest, Newest, E!Cardinality, Cardinality
<1>2. \A ids : E!Oldest(ids) = Oldest(ids)
  BY DEF E!Oldest, Oldest
<1>3. \A p : E!Before(p) = Before(p)
  BY <1>2, SameRows DEF E!Before, Before
<1> QED
  BY <1>1, <1>3

\* The steps that move no handler.
LEMMA EventsElsewhere ==
  ASSUME EventView' = EventView
  PROVE  /\ \A i \in Items : WriteStatus(i) => E!WriteStatus(i)
         /\ \A i \in Items : FailPlaceholder(i) => E!FailPlaceholder(i)
         /\ \A i \in Items : AnnounceStatus(i) => E!AnnounceStatus(i)
         /\ \A i \in Items : Unread(i) => E!Unread(i)
         /\ \A p \in Pages : Subscribe(p) => E!Subscribe(p)
         /\ \A p \in Pages : ReadItems(p) => E!ReadItems(p)
         /\ \A p \in Pages : SendItem(p) => E!SendItem(p)
         /\ \A p \in Pages : Forward(p) => E!Forward(p)
         /\ \A p \in Pages : Close(p) => E!Close(p)
         /\ \A p \in Pages : LoadMessages(p) => E!LoadMessages(p)
         /\ \A p \in Pages : LoadOlder(p) => E!LoadOlder(p)
<1> USE SameRows DEF itemVars, E!itemVars
<1>1. ASSUME NEW i \in Items, WriteStatus(i) PROVE E!WriteStatus(i)
  BY <1>1 DEF WriteStatus, E!WriteStatus
<1>2. ASSUME NEW i \in Items, AnnounceStatus(i) PROVE E!AnnounceStatus(i)
  BY <1>2 DEF AnnounceStatus, E!AnnounceStatus, Broadcast, E!Broadcast
<1>3. ASSUME NEW p \in Pages, Subscribe(p) PROVE E!Subscribe(p)
  BY <1>3 DEF Subscribe, E!Subscribe
<1>4. ASSUME NEW p \in Pages, ReadItems(p) PROVE E!ReadItems(p)
  BY <1>4 DEF ReadItems, E!ReadItems
<1>5. ASSUME NEW p \in Pages, SendItem(p) PROVE E!SendItem(p)
  BY <1>5 DEF SendItem, E!SendItem, Hear, E!Hear
<1>6. ASSUME NEW p \in Pages, Forward(p) PROVE E!Forward(p)
  BY <1>6 DEF Forward, E!Forward, Hear, E!Hear
<1>7. ASSUME NEW p \in Pages, Close(p) PROVE E!Close(p)
  BY <1>7 DEF Close, E!Close
<1>8. ASSUME NEW p \in Pages, LoadMessages(p) PROVE E!LoadMessages(p)
  BY <1>8, SamePages DEF LoadMessages, E!LoadMessages
<1>9. ASSUME NEW p \in Pages, LoadOlder(p) PROVE E!LoadOlder(p)
  BY <1>9, SamePages DEF LoadOlder, E!LoadOlder
<1>10. ASSUME NEW i \in Items, FailPlaceholder(i) PROVE E!FailPlaceholder(i)
  BY <1>10 DEF FailPlaceholder, E!FailPlaceholder
<1>11. ASSUME NEW i \in Items, Unread(i) PROVE E!Unread(i)
  BY <1>11 DEF Unread, E!Unread
<1> QED
  BY <1>1, <1>2, <1>3, <1>4, <1>5, <1>6, <1>7, <1>8, <1>9, <1>10, <1>11

LEMMA EventsTurnSeen ==
  ASSUME Slots, EventsTurn
  PROVE  E!EventsNext /\ Within(EventLabels)
<1> USE SameRows DEF itemVars, E!itemVars
<1>1. ASSUME NEW r \in Requests, InsertMessage(r) PROVE E!EventsNext /\ Within(EventLabels)
  <2> DEFINE s == [at |-> "broadcast", message |-> messages + 1]
  <2>1. Arrives(r) /\ Goto(r, s) /\ Mine(s, EventLabels) /\ Mine(req[r], EventLabels)
    BY <1>1 DEF InsertMessage, Mine, EventLabels, Arrives
  <2>2. E!Goto(r, s) /\ Within(EventLabels)
    BY <2>1, EventGoto
  <2>3. E!Arrives(r)
    BY <2>1 DEF Arrives, E!Arrives, EventView, View, EventLabels, Idle
  <2>4. E!InsertMessage(r)
    BY <1>1, <2>2, <2>3 DEF InsertMessage, E!InsertMessage
  <2> QED
    BY <2>2, <2>4 DEF E!EventsNext
<1>2. ASSUME NEW r \in Requests, BroadcastMessage(r) \/ AbandonMessage(r)
      PROVE  E!EventsNext /\ Within(EventLabels)
  <2>1. At(r, "broadcast") /\ Finish(r)
    BY <1>2 DEF BroadcastMessage, AbandonMessage
  <2>2. EventView[r] = req[r] /\ E!At(r, "broadcast") /\ Mine(req[r], EventLabels) /\ Mine(Idle, EventLabels)
    BY <2>1 DEF At, E!At, EventView, View, EventLabels, Mine
  <2>3. E!Finish(r) /\ Within(EventLabels)
    BY <2>1, <2>2, EventGoto DEF Finish, E!Finish
  <2>4. E!BroadcastMessage(r) \/ E!AbandonMessage(r)
    BY <1>2, <2>2, <2>3 DEF BroadcastMessage, E!BroadcastMessage, AbandonMessage, E!AbandonMessage,
       Broadcast, E!Broadcast
  <2> QED
    BY <2>3, <2>4 DEF E!EventsNext
<1>3. ASSUME \/ \E i \in Items : WriteStatus(i) \/ FailPlaceholder(i) \/ AnnounceStatus(i) \/ Unread(i)
             \/ \E p \in Pages : \/ Subscribe(p) \/ ReadItems(p) \/ SendItem(p) \/ Forward(p) \/ Close(p)
                                 \/ LoadMessages(p) \/ LoadOlder(p)
      PROVE  E!EventsNext /\ Within(EventLabels)
  <2>1. req' = req
    BY <1>3 DEF WriteStatus, FailPlaceholder, AnnounceStatus, Unread, Subscribe, ReadItems, SendItem, Forward, Close,
       LoadMessages, LoadOlder
  <2>2. EventView' = EventView /\ Within(EventLabels)
    BY <2>1, Unmoved0 DEF EventView
  <2> QED
    BY <1>3, <2>2, EventsElsewhere DEF E!EventsNext
<1> QED
  BY <1>1, <1>2, <1>3 DEF EventsTurn, EventsNext

-----------------------------------------------------------------------------
(* The library *)

\* A worker that is a request is one of the library's.
Owned(w) == w \in Requests => Mine(req[w], LibraryLabels)

LEMMA WorkersSee ==
  ASSUME NEW w
  PROVE  /\ w \notin Requests => L!Place(w) = Place(w)
         /\ Owned(w) => L!Place(w) = Place(w)
         /\ \A label \in LibraryLabels : On(w, label) => Owned(w) /\ L!Place(w) = Place(w) /\ L!On(w, label)
         /\ \A label \in LibraryLabels : L!On(w, label) <=> On(w, label)
<1>1. "idle" \notin LibraryLabels
  BY DEF LibraryLabels
<1>2. CASE w \in Requests
  <2>1. L!Place(w) = LibraryView[w] /\ Place(w) = req[w]
    BY <1>2 DEF L!Place, Place
  <2> QED
    BY <1>1, <1>2, <2>1, Seen DEF L!On, On, Owned, Mine, LibraryView
<1>3. CASE w \notin Requests
  BY <1>3 DEF L!Place, Place, L!On, On, Owned
<1> QED
  BY <1>2, <1>3

LEMMA LibraryArrivals ==
  ASSUME NEW r \in Requests
  PROVE  /\ Arrives(r) => Owned(r) /\ L!Arrives(r) /\ LibraryView[r] = req[r]
         /\ \A label \in LibraryLabels : At(r, label) =>
              Owned(r) /\ LibraryView[r] = req[r] /\ L!At(r, label)
<1>1. "idle" \notin LibraryLabels
  BY DEF LibraryLabels
<1> QED
  BY <1>1, Seen DEF LibraryView, L!Arrives, Arrives, L!Idle, Idle, L!At, At, Mine, Owned

LEMMA LibraryGoto ==
  ASSUME Slots, NEW r \in Requests, Owned(r), NEW s, Mine(s, LibraryLabels), Goto(r, s)
  PROVE  L!Goto(r, s) /\ Within(LibraryLabels)
<1>1. "idle" \notin LibraryLabels
  BY DEF LibraryLabels
<1> QED
  BY <1>1, Moved DEF L!Goto, LibraryView, Owned

LEMMA LibraryStays ==
  ASSUME Slots, req' = req
  PROVE  LibraryView' = LibraryView /\ Within(LibraryLabels)
BY Unmoved0 DEF LibraryView

LEMMA LibraryTo ==
  ASSUME Slots, NEW w, Owned(w), NEW s, w \in Requests => Mine(s, LibraryLabels), To(w, s)
  PROVE  L!To(w, s) /\ Within(LibraryLabels)
<1>1. CASE w \in Requests
  <2>1. Goto(w, s) /\ UNCHANGED task
    BY <1>1 DEF To
  <2> QED
    BY <1>1, <2>1, LibraryGoto DEF L!To
<1>2. CASE w \notin Requests
  <2>1. task' = [task EXCEPT ![w] = s] /\ req' = req
    BY <1>2 DEF To
  <2> QED
    BY <1>2, <2>1, LibraryStays DEF L!To
<1> QED
  BY <1>1, <1>2

LEMMA SameLibrary ==
  /\ L!Idle = Idle /\ L!Jobs = Jobs /\ L!Tasks = Tasks /\ L!Workers = Workers /\ L!NoArt = NoArt /\ L!Free = Free
  /\ L!NoMatch = NoMatch /\ L!Recordings = Recordings /\ L!Looking = Looking /\ L!Work = Work
  /\ L!CoverArt = CoverArt /\ L!DiscogsArt = DiscogsArt /\ L!WithoutMetadata = WithoutMetadata
  /\ L!UncachedCovers = UncachedCovers
  /\ L!Missing = Missing /\ L!Partial = Partial /\ L!Whole = Whole /\ L!Tagged = Tagged
  /\ L!NoFile = NoFile /\ L!NotIndexed = NotIndexed /\ L!OnDisk = OnDisk
BY DEF L!Idle, Idle, L!Jobs, Jobs, L!Tasks, Tasks, L!Workers, Workers, L!NoArt, NoArt, L!Free, Free,
       L!NoMatch, NoMatch, L!Recordings, Recordings, L!Looking, Looking, L!Work, Work, L!CoverArt, CoverArt,
       L!DiscogsArt, DiscogsArt, L!WithoutMetadata, WithoutMetadata, L!UncachedCovers, UncachedCovers,
       L!Missing, Missing, L!Partial, Partial, L!Whole, Whole, L!Tagged, Tagged, L!NoFile, NoFile,
       L!NotIndexed, NotIndexed, L!OnDisk, OnDisk

LEMMA SameVariables == L!libraryVars = libraryVars /\ L!indexVars = indexVars /\ L!shareVars = shareVars
BY DEF L!libraryVars, libraryVars, L!indexVars, indexVars, L!shareVars, shareVars

LEMMA SameListing == \A job : L!Listed(job) = Listed(job)
BY SameLibrary DEF L!Listed, Listed

LEMMA SameTaking == \A job : Take(job) => L!Take(job)
BY SameListing DEF Take, L!Take

LEMMA SameCounts ==
  /\ \A name, query : L!Hits(name, query) = Hits(name, query)
  /\ \A name, query : L!Exact(name, query) = Exact(name, query)
  /\ \A name, query : L!Foreign(name, query) = Foreign(name, query)
<1>1. \A name, query : L!Hits(name, query) = Hits(name, query)
  BY DEF L!Hits, Hits, L!Contains, Contains, L!Related, Related, L!Cardinality, Cardinality
<1>2. \A name, query : L!Exact(name, query) = Exact(name, query)
  BY DEF L!Exact, Exact, L!Says, Says, L!Cardinality, Cardinality
<1>3. \A name, query : L!Foreign(name, query) = Foreign(name, query)
  BY DEF L!Foreign, Foreign, L!Related, Related, L!Cardinality, Cardinality
<1> QED
  BY <1>1, <1>2, <1>3

LEMMA SameScore == \A rec, query : L!Score(rec, query) = Score(rec, query)
<1>1. \A rec, query : L!ArtistMatched(rec, query) <=> ArtistMatched(rec, query)
  BY SameCounts DEF L!ArtistMatched, ArtistMatched
<1>2. \A condition, points : L!If(condition, points) = If(condition, points)
  BY DEF L!If, If
<1> QED
  BY <1>1, <1>2, SameCounts DEF L!Score, Score

LEMMA SameMatch == \A t, recs : L!Matched(t, recs) = Matched(t, recs)
<1>1. \A query, recs : L!SelectBestMatch(query, recs) = SelectBestMatch(query, recs)
  <2> TAKE query, recs
  <2> DEFINE best  == {n \in DOMAIN recs : \A m \in DOMAIN recs :
                        \/ Score(recs[n], query) > Score(recs[m], query)
                        \/ Score(recs[n], query) = Score(recs[m], query) /\ n <= m}
             lbest == {n \in DOMAIN recs : \A m \in DOMAIN recs :
                        \/ L!Score(recs[n], query) > L!Score(recs[m], query)
                        \/ L!Score(recs[n], query) = L!Score(recs[m], query) /\ n <= m}
             good  == {n \in best : Score(recs[n], query) >= MinMatchScore}
             lgood == {n \in lbest : L!Score(recs[n], query) >= L!MinMatchScore}
  <2>1. \A n : L!Score(recs[n], query) = Score(recs[n], query)
    BY SameScore
  <2>2. lbest = best
    BY <2>1
  <2> HIDE DEF best, lbest
  <2>3. lgood = good
    BY <2>1, <2>2 DEF L!MinMatchScore, MinMatchScore
  <2>4. L!SelectBestMatch(query, recs) = IF lgood = {} THEN L!NoMatch ELSE recs[CHOOSE n \in lgood : TRUE]
    BY DEF L!SelectBestMatch, lbest
  <2>5. SelectBestMatch(query, recs) = IF good = {} THEN NoMatch ELSE recs[CHOOSE n \in good : TRUE]
    BY DEF SelectBestMatch, best
  <2> HIDE DEF good, lgood
  <2> QED
    BY <2>3, <2>4, <2>5 DEF L!NoMatch, NoMatch
<1>2. \A recs : L!FirstAnswer(recs) = FirstAnswer(recs)
  BY DEF L!FirstAnswer, FirstAnswer, L!NoMatch, NoMatch
<1> QED
  BY <1>1, <1>2 DEF L!Matched, Matched

LEMMA SameEntries == \A idx, file : L!AppendFile(idx, file) = AppendFile(idx, file)
BY DEF L!AppendFile, AppendFile, L!Copies, Copies, L!Cardinality, Cardinality

LEMMA SameIndexOf == \A files : L!IndexOf(files) = IndexOf(files)
BY DEF L!IndexOf, IndexOf, L!AppendFile, AppendFile, L!Copies, Copies, L!Cardinality, Cardinality,
       L!EmptyIndex, EmptyIndex, L!NotIndexed, NotIndexed

LEMMA SameListings == L!Listings = Listings
BY DEF L!Listings, Listings, L!OnDisk, OnDisk, L!Missing, Missing, L!Cardinality, Cardinality

-----------------------------------------------------------------------------
(* The steps that move no handler *)

LEMMA LibraryElsewhere ==
  ASSUME LibraryView' = LibraryView, \A w : L!Place(w)' = L!Place(w)
  PROVE  /\ \A t \in Tracks : StartTransfer(t) => L!StartTransfer(t)
         /\ EndTransfer => L!EndTransfer
         /\ ReadFile => L!ReadFile
         /\ AddFile => L!AddFile
         /\ \A t \in Tracks : RemoveFile(t) => L!RemoveFile(t)
         /\ \A t \in Tracks : DayPasses(t) => L!DayPasses(t)
<1> USE SameLibrary
<1>1. ASSUME NEW t \in Tracks, StartTransfer(t) PROVE L!StartTransfer(t)
  BY <1>1 DEF StartTransfer, L!StartTransfer, Write, L!Write
<1>2. ASSUME EndTransfer PROVE L!EndTransfer
  BY <1>2 DEF EndTransfer, L!EndTransfer, Write, L!Write
<1>3. ASSUME ReadFile PROVE L!ReadFile
  BY <1>3 DEF ReadFile, L!ReadFile
<1>4. ASSUME AddFile PROVE L!AddFile
  BY <1>4, SameEntries DEF AddFile, L!AddFile
<1>5. ASSUME NEW t \in Tracks, RemoveFile(t) PROVE L!RemoveFile(t)
  BY <1>5 DEF RemoveFile, L!RemoveFile, Write, L!Write
<1>6. ASSUME NEW t \in Tracks, DayPasses(t) PROVE L!DayPasses(t)
  BY <1>6 DEF DayPasses, L!DayPasses
<1> QED
  BY <1>1, <1>2, <1>3, <1>4, <1>5, <1>6

LEMMA ShareStepSeen ==
  ASSUME Slots, ShareStep
  PROVE  L!ShareStep /\ Within(LibraryLabels)
<1> USE SameLibrary, SameVariables
<1>0. UNCHANGED libraryVars /\ UNCHANGED L!libraryVars
  BY DEF ShareStep, libraryVars, L!libraryVars
<1>1. CASE MonitorStep \/ \E t \in Tracks : RemoveFile(t)
  <2>1. req' = req
    BY <1>1 DEF MonitorStep, StartTransfer, EndTransfer, ReadFile, AddFile, RemoveFile
  <2>2. LibraryView' = LibraryView /\ Within(LibraryLabels)
    BY <2>1, LibraryStays
  <2>3. \A w : L!Place(w)' = L!Place(w)
    BY <2>2, <1>0 DEF L!Place, libraryVars
  <2> QED
    BY <1>0, <1>1, <2>2, <2>3, LibraryElsewhere DEF MonitorStep, L!MonitorStep, L!ShareStep
<1>2. ASSUME NEW r \in Requests, ScanStep(r) PROVE L!ScanStep(r) /\ Within(LibraryLabels)
  <2>1. CASE ScanDirectory(r)
    <3>1. PICK s \in Listings :
            Goto(r, [at |-> "swap", known |-> added,
                     files |-> [n \in DOMAIN s |-> [track |-> s[n], size |-> disk[s[n]]]]])
      BY <2>1 DEF ScanDirectory
    <3> DEFINE state == [at |-> "swap", known |-> added,
                         files |-> [n \in DOMAIN s |-> [track |-> s[n], size |-> disk[s[n]]]]]
    <3>2. Mine(state, LibraryLabels)
      BY DEF Mine, LibraryLabels
    <3>3. L!Arrives(r) /\ L!Goto(r, state) /\ Within(LibraryLabels)
      <4>1. Arrives(r)
        BY <2>1 DEF ScanDirectory
      <4>2. Owned(r) /\ L!Arrives(r)
        BY <4>1, LibraryArrivals
      <4> HIDE DEF state
      <4>3. L!Goto(r, state) /\ Within(LibraryLabels)
        BY <3>1, <3>2, <4>2, LibraryGoto DEF state
      <4> QED
        BY <4>2, <4>3
    <3>4. s \in L!Listings
      BY SameListings
    <3>5. UNCHANGED L!shareVars
      BY <2>1 DEF ScanDirectory, L!shareVars, shareVars, L!indexVars, indexVars
    <3>6. L!ScanDirectory(r)
      BY <3>3, <3>4, <3>5 DEF L!ScanDirectory
    <3> QED
      BY <3>3, <3>6 DEF L!ScanStep
  <2>2. CASE SwapIndex(r) \/ AbandonScan(r)
    <3>1. At(r, "swap") /\ Goto(r, Idle)
      BY <2>2 DEF SwapIndex, AbandonScan, Finish
    <3>2. LibraryView[r] = req[r] /\ L!At(r, "swap") /\ Owned(r)
      BY <3>1, LibraryArrivals DEF LibraryLabels
    <3>3. Mine(Idle, LibraryLabels)
      BY DEF Mine
    <3>4. L!Finish(r) /\ Within(LibraryLabels)
      BY <3>1, <3>2, <3>3, LibraryGoto DEF L!Finish
    <3>5. SwapIndex(r) => L!SwapIndex(r)
      BY <3>2, <3>4, SameIndexOf DEF SwapIndex, L!SwapIndex
    <3>6. AbandonScan(r) => L!AbandonScan(r)
      BY <3>2, <3>4 DEF AbandonScan, L!AbandonScan, L!shareVars, shareVars, L!indexVars, indexVars
    <3> QED
      BY <2>2, <3>4, <3>5, <3>6 DEF L!ScanStep
  <2> QED
    BY <1>2, <2>1, <2>2 DEF ScanStep
<1> QED
  BY <1>0, <1>1, <1>2 DEF ShareStep, L!ShareStep

-----------------------------------------------------------------------------
(* Lookups *)

LEMMA LookingMoves ==
  ASSUME NEW s \in Looking, NEW label
  PROVE  /\ [s EXCEPT !.at = label].at = label
         /\ \A match : [s EXCEPT !.at = label, !.for = "release", !.match = match].at = label
         /\ \A art : [s EXCEPT !.at = label, !.art = art].at = label
BY DEF Looking

\* A lookup goes on where its slot, or its task, says.
LEMMA LookupTo ==
  ASSUME Slots, L!LibraryReqOK, NEW w, NEW label \in LookLabels, On(w, label)
  PROVE  /\ L!Place(w) = Place(w) /\ L!On(w, label)
         /\ w \in Requests => Place(w) \in Looking
         /\ \A s : To(w, s) /\ (w \in Requests => Mine(s, LibraryLabels)) => L!To(w, s) /\ Within(LibraryLabels)
<1>1. label \in LibraryLabels
  BY DEF LookLabels, LibraryLabels
<1>2. Owned(w) /\ L!Place(w) = Place(w) /\ L!On(w, label)
  BY <1>1, WorkersSee
<1>3. ASSUME w \in Requests PROVE Place(w) \in Looking
  <2>1. LibraryView[w] = req[w] /\ req[w].at = label
    BY <1>2, <1>3 DEF L!Place, Place, On
  <2>2. req[w] \in L!LibraryRequest
    BY <1>3, <2>1 DEF L!LibraryReqOK
  <2>3. req[w] \in L!Looking
    BY <2>1, <2>2 DEF L!LibraryRequest, L!ShareRequest, L!MetadataRequest, L!Idle, LookLabels
  <2> QED
    BY <1>3, <2>3, SameLibrary DEF Place
<1>4. ASSUME NEW s, To(w, s), w \in Requests => Mine(s, LibraryLabels)
      PROVE  L!To(w, s) /\ Within(LibraryLabels)
  BY <1>2, <1>4, LibraryTo
<1> QED
  BY <1>2, <1>3, <1>4

\* The moves a lookup makes that keep its track.
LEMMA LookupMovesSeen ==
  ASSUME Slots, L!LibraryReqOK, NEW w, NEW label \in LookLabels, On(w, label)
  PROVE  /\ \A next \in LookLabels : To(w, [Place(w) EXCEPT !.at = next]) =>
              L!To(w, [L!Place(w) EXCEPT !.at = next]) /\ Within(LibraryLabels)
         /\ \A match : To(w, [Place(w) EXCEPT !.at = "wait", !.for = "release", !.match = match]) =>
              L!To(w, [L!Place(w) EXCEPT !.at = "wait", !.for = "release", !.match = match]) /\ Within(LibraryLabels)
         /\ \A art : To(w, WithArt(w, art)) => L!To(w, L!WithArt(w, art)) /\ Within(LibraryLabels)
         /\ To(w, After(w)) => L!To(w, L!After(w)) /\ Within(LibraryLabels)
<1>0. LookLabels \subseteq LibraryLabels
  BY DEF LookLabels, LibraryLabels
<1>1. L!Place(w) = Place(w) /\ (w \in Requests => Place(w) \in Looking)
  BY LookupTo
<1>2. \A s : To(w, s) /\ (w \in Requests => Mine(s, LibraryLabels)) => L!To(w, s) /\ Within(LibraryLabels)
  BY LookupTo
<1>3. ASSUME NEW next \in LookLabels, To(w, [Place(w) EXCEPT !.at = next])
      PROVE  L!To(w, [L!Place(w) EXCEPT !.at = next]) /\ Within(LibraryLabels)
  <2>1. w \in Requests => [Place(w) EXCEPT !.at = next].at = next
    BY <1>1, LookingMoves
  <2>2. w \in Requests => Mine([Place(w) EXCEPT !.at = next], LibraryLabels)
    BY <1>0, <2>1 DEF Mine
  <2> QED
    BY <1>1, <1>2, <1>3, <2>2
<1>4. ASSUME NEW match, To(w, [Place(w) EXCEPT !.at = "wait", !.for = "release", !.match = match])
      PROVE  L!To(w, [L!Place(w) EXCEPT !.at = "wait", !.for = "release", !.match = match]) /\ Within(LibraryLabels)
  <2>1. w \in Requests => [Place(w) EXCEPT !.at = "wait", !.for = "release", !.match = match].at = "wait"
    BY <1>1, LookingMoves
  <2>2. w \in Requests => Mine([Place(w) EXCEPT !.at = "wait", !.for = "release", !.match = match], LibraryLabels)
    BY <2>1 DEF Mine, LibraryLabels
  <2> QED
    BY <1>1, <1>2, <1>4, <2>2
<1>5. ASSUME NEW art, To(w, WithArt(w, art)) PROVE L!To(w, L!WithArt(w, art)) /\ Within(LibraryLabels)
  <2>1. L!WithArt(w, art) = WithArt(w, art)
    BY <1>1, SameLibrary DEF L!WithArt, WithArt
  <2> DEFINE next == IF art = NoArt THEN "store" ELSE "cover"
  <2>2. w \in Requests => WithArt(w, art).at = next
    BY <1>1, LookingMoves DEF WithArt
  <2>3. w \in Requests => Mine(WithArt(w, art), LibraryLabels)
    BY <2>2 DEF Mine, LibraryLabels
  <2> QED
    BY <1>2, <1>5, <2>1, <2>3
<1>6. ASSUME To(w, After(w)) PROVE L!To(w, L!After(w)) /\ Within(LibraryLabels)
  <2>1. L!After(w) = After(w)
    BY <1>1, SameLibrary DEF L!After, After
  <2>2. w \in Requests => Mine(After(w), LibraryLabels)
    BY DEF Mine, LibraryLabels, After
  <2> QED
    BY <1>2, <1>6, <2>1, <2>2
<1> QED
  BY <1>3, <1>4, <1>5, <1>6

LEMMA JobsAreNoRequests == "scan" \notin Requests /\ "backfill" \notin Requests
BY WorkersAssumption DEF Tasks, Jobs

LEMMA RateSeen ==
  ASSUME Slots, L!LibraryReqOK, NEW w \in Workers
  PROVE  /\ Acquire(w) => L!Acquire(w) /\ Within(LibraryLabels)
         /\ Wake(w) => L!Wake(w) /\ Within(LibraryLabels)
<1> USE SameLibrary
<1>1. ASSUME Acquire(w) PROVE L!Acquire(w) /\ Within(LibraryLabels)
  <2>1. On(w, "wait") /\ L!On(w, "wait")
    BY <1>1, LookupTo DEF Acquire, LookLabels
  <2>2. \A next \in {"sleep", "call"} : To(w, [Place(w) EXCEPT !.at = next]) =>
          L!To(w, [L!Place(w) EXCEPT !.at = next]) /\ Within(LibraryLabels)
    BY <2>1, LookupMovesSeen DEF LookLabels
  <2>3. CASE recent
    BY <1>1, <2>1, <2>2, <2>3 DEF Acquire, L!Acquire
  <2>4. CASE ~recent
    BY <1>1, <2>1, <2>2, <2>4 DEF Acquire, L!Acquire
  <2> QED
    BY <2>3, <2>4
<1>2. ASSUME Wake(w) PROVE L!Wake(w) /\ Within(LibraryLabels)
  <2>1. On(w, "due") /\ L!On(w, "due")
    BY <1>2, LookupTo DEF Wake, LookLabels
  <2>2. L!To(w, [L!Place(w) EXCEPT !.at = "call"]) /\ Within(LibraryLabels)
    BY <1>2, <2>1, LookupMovesSeen DEF Wake, LookLabels
  <2> QED
    BY <1>2, <2>1, <2>2 DEF Wake, L!Wake
<1> QED
  BY <1>1, <1>2

LEMMA AnswersSeen ==
  ASSUME Slots, L!LibraryReqOK, NEW w \in Workers
  PROVE  /\ SearchRecording(w) => L!SearchRecording(w) /\ Within(LibraryLabels)
         /\ GetRelease(w) => L!GetRelease(w) /\ Within(LibraryLabels)
<1> USE SameLibrary
<1>1. ASSUME SearchRecording(w) PROVE L!SearchRecording(w) /\ Within(LibraryLabels)
  <2>1. On(w, "call") /\ L!On(w, "call") /\ L!Place(w) = Place(w)
    BY <1>1, LookupTo DEF SearchRecording, LookLabels
  <2>2. PICK recs \in Answers :
          IF Matched(Place(w).track, recs) # NoMatch
          THEN To(w, [Place(w) EXCEPT !.at = "wait", !.for = "release", !.match = Matched(Place(w).track, recs)])
          ELSE \E art \in DiscogsArt : To(w, WithArt(w, art))
    BY <1>1 DEF SearchRecording
  <2> DEFINE match == Matched(Place(w).track, recs)
  <2>3. L!Matched(L!Place(w).track, recs) = match
    BY <2>1, SameMatch
  <2> HIDE DEF match
  <2>4. CASE match # NoMatch
    <3>1. To(w, [Place(w) EXCEPT !.at = "wait", !.for = "release", !.match = match])
      BY <2>2, <2>4 DEF match
    <3>2. L!To(w, [L!Place(w) EXCEPT !.at = "wait", !.for = "release", !.match = match]) /\ Within(LibraryLabels)
      BY <2>1, <3>1, LookupMovesSeen DEF LookLabels
    <3> QED
      BY <1>1, <2>1, <2>3, <2>4, <3>2 DEF SearchRecording, L!SearchRecording
  <2>5. CASE match = NoMatch
    <3>1. PICK art \in DiscogsArt : To(w, WithArt(w, art))
      BY <2>2, <2>5 DEF match
    <3>2. L!To(w, L!WithArt(w, art)) /\ Within(LibraryLabels)
      BY <2>1, <3>1, LookupMovesSeen DEF LookLabels
    <3> QED
      BY <1>1, <2>1, <2>3, <2>5, <3>1, <3>2 DEF SearchRecording, L!SearchRecording
  <2> QED
    BY <2>4, <2>5
<1>2. ASSUME GetRelease(w) PROVE L!GetRelease(w) /\ Within(LibraryLabels)
  <2>1. On(w, "call") /\ L!On(w, "call") /\ L!Place(w) = Place(w)
    BY <1>2, LookupTo DEF GetRelease, LookLabels
  <2>2. PICK art \in CoverArt : To(w, WithArt(w, art))
    BY <1>2 DEF GetRelease
  <2>3. L!To(w, L!WithArt(w, art)) /\ Within(LibraryLabels)
    BY <2>1, <2>2, LookupMovesSeen DEF LookLabels
  <2> QED
    BY <1>2, <2>1, <2>3 DEF GetRelease, L!GetRelease
<1> QED
  BY <1>1, <1>2

LEMMA SameEndings ==
  ASSUME NEW w, L!Place(w) = Place(w)
  PROVE  /\ \A t : Excuse(w, t) => L!Excuse(w, t)
         /\ \A t, art : UpdateItem(t, art) => L!UpdateItem(t, art)
         /\ \A t, size : Write(t, size) => L!Write(t, size)
BY SameLibrary DEF Excuse, L!Excuse, UpdateItem, L!UpdateItem, Write, L!Write

LEMMA NextIn == LookLabels = {"wait", "sleep", "due", "call", "cover", "flag", "store"}
BY DEF LookLabels

LEMMA CoversSeen ==
  ASSUME Slots, L!LibraryReqOK, NEW w \in Workers
  PROVE  /\ CacheCover(w) => L!CacheCover(w) /\ Within(LibraryLabels)
         /\ SetCoverCached(w) => L!SetCoverCached(w) /\ Within(LibraryLabels)
<1> USE SameLibrary
<1>1. ASSUME CacheCover(w) PROVE L!CacheCover(w) /\ Within(LibraryLabels)
  <2>1. On(w, "cover") /\ L!On(w, "cover") /\ L!Place(w) = Place(w)
    BY <1>1, LookupTo, NextIn DEF CacheCover
  <2>2. \A next \in {"flag", "store"} : To(w, [Place(w) EXCEPT !.at = next]) =>
          L!To(w, [L!Place(w) EXCEPT !.at = next]) /\ Within(LibraryLabels)
    BY <2>1, LookupMovesSeen, NextIn
  <2>3. CASE w = "backfill" /\ To(w, [at |-> "next"]) /\ Excuse(w, Place(w).track)
    <3>1. L!To(w, [at |-> "next"]) /\ Within(LibraryLabels)
      BY <2>1, <2>3, LookupTo, NextIn, JobsAreNoRequests
    <3>2. L!Excuse(w, L!Place(w).track)
      BY <2>1, <2>3, SameEndings
    <3> QED
      BY <1>1, <2>1, <2>3, <3>1, <3>2 DEF CacheCover, L!CacheCover
  <2>4. CASE To(w, [Place(w) EXCEPT !.at = "flag"]) /\ UNCHANGED excused
    <3>1. L!To(w, [L!Place(w) EXCEPT !.at = "flag"]) /\ Within(LibraryLabels)
      BY <2>2, <2>4
    <3> QED
      BY <1>1, <2>1, <2>4, <3>1 DEF CacheCover, L!CacheCover
  <2>5. CASE w # "backfill" /\ To(w, [Place(w) EXCEPT !.at = "store"]) /\ UNCHANGED excused
    <3>1. L!To(w, [L!Place(w) EXCEPT !.at = "store"]) /\ Within(LibraryLabels)
      BY <2>2, <2>5
    <3> QED
      BY <1>1, <2>1, <2>5, <3>1 DEF CacheCover, L!CacheCover
  <2> QED
    BY <1>1, <2>3, <2>4, <2>5 DEF CacheCover
<1>2. ASSUME SetCoverCached(w) PROVE L!SetCoverCached(w) /\ Within(LibraryLabels)
  <2>1. On(w, "flag") /\ L!On(w, "flag") /\ L!Place(w) = Place(w)
    BY <1>2, LookupTo, NextIn DEF SetCoverCached
  <2>2. CASE w = "backfill"
    <3>1. To(w, [at |-> "next"])
      BY <1>2, <2>2 DEF SetCoverCached
    <3>2. L!To(w, [at |-> "next"]) /\ Within(LibraryLabels)
      BY <2>1, <2>2, <3>1, LookupTo, NextIn, JobsAreNoRequests
    <3> QED
      BY <1>2, <2>1, <2>2, <3>2 DEF SetCoverCached, L!SetCoverCached
  <2>3. CASE w # "backfill"
    <3>1. To(w, [Place(w) EXCEPT !.at = "store"])
      BY <1>2, <2>3 DEF SetCoverCached
    <3>2. L!To(w, [L!Place(w) EXCEPT !.at = "store"]) /\ Within(LibraryLabels)
      BY <2>1, <3>1, LookupMovesSeen, NextIn
    <3> QED
      BY <1>2, <2>1, <2>3, <3>2 DEF SetCoverCached, L!SetCoverCached
  <2> QED
    BY <2>2, <2>3
<1> QED
  BY <1>1, <1>2

LEMMA StoreSeen ==
  ASSUME Slots, L!LibraryReqOK, NEW w \in Workers, Store(w)
  PROVE  L!Store(w) /\ Within(LibraryLabels)
<1> USE SameLibrary
<1>1. On(w, "store") /\ L!On(w, "store") /\ L!Place(w) = Place(w)
  BY LookupTo, NextIn DEF Store
<1>2. L!To(w, L!After(w)) /\ Within(LibraryLabels)
  BY <1>1, LookupMovesSeen, NextIn DEF Store
<1> DEFINE t == Place(w).track
<1>3. \/ L!UpdateItem(t, Place(w).art) /\ UNCHANGED excused
      \/ L!Excuse(w, t) /\ UNCHANGED row
  BY <1>1, SameEndings DEF Store
<1>4. (disk[t] \in {Whole, Tagged} /\ L!Write(t, Tagged)) \/ UNCHANGED disk
  BY <1>1, SameEndings DEF Store
<1>5. UNCHANGED <<limited, running, todo, lock, recent, begun, listed>>
  BY DEF Store
<1> HIDE DEF t
<1>6. t = L!Place(w).track
  BY <1>1 DEF t
<1>7. L!Store(w)
  <2>1. /\ \/ L!UpdateItem(L!Place(w).track, L!Place(w).art) /\ UNCHANGED excused
           \/ L!Excuse(w, L!Place(w).track) /\ UNCHANGED row
        /\ \/ disk[L!Place(w).track] \in {L!Whole, L!Tagged} /\ L!Write(L!Place(w).track, L!Tagged)
           \/ UNCHANGED disk
    BY <1>1, <1>3, <1>4, <1>6
  <2> QED
    BY <1>1, <1>2, <1>5, <2>1 DEF L!Store
<1> QED
  BY <1>2, <1>7

\* A second passes for all at once; who does not sleep stays.
LEMMA SecondSeen ==
  ASSUME Slots, L!LibraryReqOK, Second
  PROVE  L!Second /\ Within(LibraryLabels)
<1>1. \A r \in Requests : req'[r] = Slept(r) /\ Place(r) = req[r]
  BY DEF Second, Place
<1>2. ASSUME NEW r \in Requests
      PROVE  /\ LibraryView'[r] = L!Slept(r)
             /\ req'[r] = req[r] \/ (Mine(req[r], LibraryLabels) /\ Mine(req'[r], LibraryLabels))
  <2>1. CASE req[r].at = "sleep"
    <3>1. On(r, "sleep") /\ "sleep" \in LookLabels
      BY <1>1, <2>1, NextIn DEF On
    <3>2. L!Place(r) = Place(r) /\ L!On(r, "sleep") /\ Place(r) \in Looking
      BY <3>1, LookupTo
    <3>3. [Place(r) EXCEPT !.at = "due"].at = "due"
      BY <3>2, LookingMoves
    <3>4. req'[r] = [Place(r) EXCEPT !.at = "due"] /\ L!Slept(r) = [Place(r) EXCEPT !.at = "due"]
      BY <1>1, <3>1, <3>2 DEF Slept, L!Slept
    <3>5. req'[r].at = "due"
      BY <3>3, <3>4
    <3>6. LibraryView'[r] = req'[r]
      BY <3>5 DEF LibraryView, View, LibraryLabels
    <3> QED
      BY <2>1, <3>4, <3>5, <3>6 DEF Mine, LibraryLabels
  <2>2. CASE req[r].at # "sleep"
    <3>1. req'[r] = req[r]
      BY <1>1, <2>2 DEF Slept, On
    <3>2. LibraryView'[r] = LibraryView[r]
      BY <3>1 DEF LibraryView, View
    <3>3. LibraryView[r].at # "sleep"
      BY <2>2 DEF LibraryView, View, Idle
    <3>4. L!Slept(r) = LibraryView[r]
      BY <3>3 DEF L!Slept, L!On, L!Place
    <3> QED
      BY <3>1, <3>2, <3>4
  <2> QED
    BY <2>1, <2>2
<1>3. LibraryView' = [r \in Requests |-> LibraryView'[r]]
  BY DEF LibraryView, View
<1>4. LibraryView' = [r \in Requests |-> L!Slept(r)]
  BY <1>2, <1>3
<1>5. Slots'
  <2>1. req' = [r \in Requests |-> Slept(r)]
    BY DEF Second
  <2> QED
    BY <2>1 DEF Slots
<1>6. Within(LibraryLabels)
  BY <1>2, <1>5 DEF Within
<1>7. task' = [t \in L!Tasks |-> L!Slept(t)]
  <2>1. \A t \in Tasks : L!Slept(t) = Slept(t)
    <3> TAKE t \in Tasks
    <3>1. t \notin Requests
      BY WorkersAssumption DEF Tasks
    <3>2. L!Place(t) = Place(t)
      BY <3>1, WorkersSee
    <3> QED
      BY <3>2 DEF L!Slept, Slept, L!On, On
  <2>2. task' = [t \in Tasks |-> Slept(t)]
    BY DEF Second
  <2> QED
    BY <2>1, <2>2, SameLibrary
<1> QED
  BY <1>4, <1>6, <1>7 DEF Second, L!Second

-----------------------------------------------------------------------------
(* Requests and jobs *)

LEMMA BeginSeen ==
  ASSUME Slots, NEW w, NEW t, Owned(w), Begin(w, t)
  PROVE  L!Begin(w, t) /\ Within(LibraryLabels)
<1> DEFINE s == [at |-> "wait", for |-> "search", track |-> t, match |-> NoMatch, art |-> NoArt]
<1>1. To(w, s) /\ Mine(s, LibraryLabels)
  BY DEF Begin, Mine, LibraryLabels
<1>2. L!To(w, s) /\ Within(LibraryLabels)
  BY <1>1, LibraryTo
<1> QED
  BY <1>2, SameLibrary DEF Begin, L!Begin

LEMMA TasksOwned == \A w \in Tasks : w \notin Requests /\ Owned(w) /\ L!Place(w) = Place(w)
<1>1. \A w \in Tasks : w \notin Requests
  BY WorkersAssumption DEF Tasks
<1> QED
  BY <1>1, WorkersSee DEF Owned

LEMMA LookupsBegin ==
  ASSUME Slots, NEW t \in Tracks
  PROVE  /\ SpawnLookup(t) => L!SpawnLookup(t) /\ Within(LibraryLabels)
         /\ \A r \in Requests : RefreshMetadata(r, t) => L!RefreshMetadata(r, t) /\ Within(LibraryLabels)
<1> USE SameLibrary
<1>1. ASSUME SpawnLookup(t) PROVE L!SpawnLookup(t) /\ Within(LibraryLabels)
  <2>1. Owned(t)
    BY TasksOwned DEF Tasks
  <2>2. L!Begin(t, t) /\ Within(LibraryLabels)
    BY <1>1, <2>1, BeginSeen DEF SpawnLookup
  <2> QED
    BY <1>1, <2>2 DEF SpawnLookup, L!SpawnLookup
<1>2. ASSUME NEW r \in Requests, RefreshMetadata(r, t) PROVE L!RefreshMetadata(r, t) /\ Within(LibraryLabels)
  <2>1. Owned(r) /\ L!Arrives(r)
    BY <1>2, LibraryArrivals DEF RefreshMetadata
  <2>2. L!Begin(r, t) /\ Within(LibraryLabels)
    BY <1>2, <2>1, BeginSeen DEF RefreshMetadata
  <2> QED
    BY <1>2, <2>1, <2>2 DEF RefreshMetadata, L!RefreshMetadata
<1> QED
  BY <1>1, <1>2

LEMMA LimitsSeen ==
  ASSUME Slots, NEW r \in Requests
  PROVE  /\ UpdateLimit(r) => L!UpdateLimit(r) /\ Within(LibraryLabels)
         /\ ClearLimit(r) => L!ClearLimit(r) /\ Within(LibraryLabels)
         /\ \A t \in Tracks : ClearMetadata(r, t) => L!ClearMetadata(r, t) /\ Within(LibraryLabels)
<1> USE SameLibrary
<1>0. "limit" \in LibraryLabels /\ "unlimit" \in LibraryLabels /\ Mine(Idle, LibraryLabels)
  BY DEF LibraryLabels, Mine
<1>1. \A label \in LibraryLabels : On(r, label) => Owned(r) /\ LibraryView[r] = req[r] /\ L!On(r, label)
  BY WorkersSee DEF L!Place, Place
<1>2. ASSUME UpdateLimit(r) PROVE L!UpdateLimit(r) /\ Within(LibraryLabels)
  <2>1. Owned(r) /\ LibraryView[r] = req[r] /\ L!On(r, "limit")
    BY <1>0, <1>1, <1>2 DEF UpdateLimit
  <2>2. L!To(r, Idle) /\ Within(LibraryLabels)
    BY <1>0, <1>2, <2>1, LibraryTo DEF UpdateLimit
  <2> QED
    BY <1>2, <2>1, <2>2 DEF UpdateLimit, L!UpdateLimit
<1>3. ASSUME ClearLimit(r) PROVE L!ClearLimit(r) /\ Within(LibraryLabels)
  <2>1. Owned(r) /\ LibraryView[r] = req[r] /\ L!On(r, "unlimit")
    BY <1>0, <1>1, <1>3 DEF ClearLimit
  <2>2. L!To(r, Idle) /\ Within(LibraryLabels)
    BY <1>0, <1>3, <2>1, LibraryTo DEF ClearLimit
  <2> QED
    BY <1>3, <2>1, <2>2 DEF ClearLimit, L!ClearLimit
<1>4. ASSUME NEW t \in Tracks, ClearMetadata(r, t) PROVE L!ClearMetadata(r, t) /\ Within(LibraryLabels)
  <2> DEFINE s == [at |-> "unlimit", track |-> t]
  <2>1. Owned(r) /\ L!Arrives(r)
    BY <1>4, LibraryArrivals DEF ClearMetadata
  <2>2. To(r, s) /\ Mine(s, LibraryLabels)
    BY <1>4 DEF ClearMetadata, Mine, LibraryLabels
  <2>3. L!To(r, s) /\ Within(LibraryLabels)
    BY <2>1, <2>2, LibraryTo
  <2>4. L!Excuse("scan", t)
    BY <1>4 DEF ClearMetadata, Excuse, L!Excuse
  <2> QED
    BY <1>4, <2>1, <2>3, <2>4 DEF ClearMetadata, L!ClearMetadata
<1> QED
  BY <1>2, <1>3, <1>4

LEMMA JobRequestsSeen ==
  ASSUME Slots, NEW r \in Requests
  PROVE  /\ \A job \in Jobs : StartJob(r, job) => L!StartJob(r, job) /\ Within(LibraryLabels)
         /\ RefuseJob(r) => L!RefuseJob(r) /\ Within(LibraryLabels)
         /\ SpawnJob(r) => L!SpawnJob(r) /\ Within(LibraryLabels)
<1> USE SameLibrary
<1>0. "list" \in LibraryLabels /\ Mine(Idle, LibraryLabels)
  BY DEF LibraryLabels, Mine
<1>1. On(r, "list") => Owned(r) /\ LibraryView[r] = req[r] /\ L!On(r, "list")
  BY <1>0, WorkersSee DEF L!Place, Place
<1>2. ASSUME NEW job \in Jobs, StartJob(r, job) PROVE L!StartJob(r, job) /\ Within(LibraryLabels)
  <2> DEFINE s == [at |-> "list", job |-> job]
  <2>1. Owned(r) /\ L!Arrives(r)
    BY <1>2, LibraryArrivals DEF StartJob
  <2>2. To(r, s) /\ Mine(s, LibraryLabels)
    BY <1>0, <1>2 DEF StartJob, Mine
  <2>3. L!To(r, s) /\ Within(LibraryLabels)
    BY <2>1, <2>2, LibraryTo
  <2> QED
    BY <1>2, <2>1, <2>3 DEF StartJob, L!StartJob
<1>3. ASSUME RefuseJob(r) PROVE L!RefuseJob(r) /\ Within(LibraryLabels)
  <2>1. Owned(r) /\ LibraryView[r] = req[r] /\ L!On(r, "list")
    BY <1>1, <1>3 DEF RefuseJob
  <2>2. L!To(r, Idle) /\ Within(LibraryLabels)
    BY <1>0, <1>3, <2>1, LibraryTo DEF RefuseJob
  <2> QED
    BY <1>3, <2>1, <2>2 DEF RefuseJob, L!RefuseJob
<1>4. ASSUME SpawnJob(r) PROVE L!SpawnJob(r) /\ Within(LibraryLabels)
  <2>1. Owned(r) /\ LibraryView[r] = req[r] /\ L!On(r, "list")
    BY <1>1, <1>4 DEF SpawnJob
  <2>2. L!Finish(r) /\ Within(LibraryLabels)
    BY <1>0, <1>4, <2>1, LibraryGoto DEF SpawnJob, Finish, L!Finish
  <2>3. L!Listed(req[r].job) = Listed(req[r].job)
    BY SameListing
  <2>4. IF req[r].job = "scan" THEN UNCHANGED <<todo, listed>> ELSE L!Take(req[r].job)
    BY <1>4, SameTaking DEF SpawnJob
  <2> QED
    BY <1>4, <2>1, <2>2, <2>3, <2>4 DEF SpawnJob, L!SpawnJob
<1> QED
  BY <1>2, <1>3, <1>4

LEMMA JobsSeen ==
  ASSUME Slots
  PROVE  /\ ListLibrary => L!ListLibrary /\ Within(LibraryLabels)
         /\ \A work \in Work : NextTrack(work) => L!NextTrack(work) /\ Within(LibraryLabels)
         /\ \A work \in Work : NextCover(work) => L!NextCover(work) /\ Within(LibraryLabels)
         /\ \A job \in Jobs : EndJob(job) => L!EndJob(job) /\ Within(LibraryLabels)
<1> USE SameLibrary
<1>1. \A job \in Jobs : job \in Tasks /\ job \notin Requests /\ Owned(job)
  BY TasksOwned DEF Tasks
<1>2. \A job \in Jobs : \A s : To(job, s) => L!To(job, s) /\ Within(LibraryLabels)
  BY <1>1, LibraryTo
<1>3. \A job \in Jobs : \A label : On(job, label) => L!On(job, label)
  BY <1>1, WorkersSee DEF On, L!On
<1>4. \A job \in Jobs : JobOver(job) => L!JobOver(job) /\ Within(LibraryLabels)
  BY <1>2 DEF JobOver, L!JobOver
<1>5. ASSUME ListLibrary PROVE L!ListLibrary /\ Within(LibraryLabels)
  <2>0. "scan" \in Jobs
    BY DEF Jobs
  <2>1. L!On("scan", "begin")
    BY <1>3, <1>5, <2>0 DEF ListLibrary
  <2>2. CASE Take("scan") /\ To("scan", [at |-> "next"]) /\ UNCHANGED <<running, excused>>
    <3>1. L!Take("scan") /\ L!To("scan", [at |-> "next"]) /\ Within(LibraryLabels)
      BY <1>2, <2>0, <2>2, SameTaking
    <3> QED
      BY <1>5, <2>1, <2>2, <3>1 DEF ListLibrary, L!ListLibrary
  <2>3. CASE JobOver("scan") /\ UNCHANGED todo
    <3>1. L!JobOver("scan") /\ Within(LibraryLabels)
      BY <1>4, <2>0, <2>3
    <3> QED
      BY <1>5, <2>1, <2>3, <3>1 DEF ListLibrary, L!ListLibrary
  <2> QED
    BY <1>5, <2>2, <2>3 DEF ListLibrary
<1>6. ASSUME NEW work \in Work, NextTrack(work) PROVE L!NextTrack(work) /\ Within(LibraryLabels)
  <2>0. "scan" \in Jobs
    BY DEF Jobs
  <2>1. L!On("scan", "next")
    BY <1>3, <1>6, <2>0 DEF NextTrack
  <2>2. L!Begin("scan", work.track) /\ Within(LibraryLabels)
    BY <1>1, <1>6, <2>0, BeginSeen DEF NextTrack
  <2> QED
    BY <1>6, <2>1, <2>2 DEF NextTrack, L!NextTrack
<1>7. ASSUME NEW work \in Work, NextCover(work) PROVE L!NextCover(work) /\ Within(LibraryLabels)
  <2>0. "backfill" \in Jobs
    BY DEF Jobs
  <2> DEFINE s == [at |-> "cover", for |-> "release", track |-> work.track, match |-> NoMatch, art |-> work.art]
  <2>1. L!On("backfill", "next")
    BY <1>3, <1>7, <2>0 DEF NextCover
  <2>2. L!To("backfill", s) /\ Within(LibraryLabels)
    BY <1>2, <1>7, <2>0 DEF NextCover
  <2> QED
    BY <1>7, <2>1, <2>2 DEF NextCover, L!NextCover
<1>8. ASSUME NEW job \in Jobs, EndJob(job) PROVE L!EndJob(job) /\ Within(LibraryLabels)
  <2>1. L!On(job, "next") /\ L!JobOver(job) /\ Within(LibraryLabels)
    BY <1>3, <1>4, <1>8 DEF EndJob
  <2> QED
    BY <1>8, <2>1 DEF EndJob, L!EndJob
<1> QED
  BY <1>5, <1>6, <1>7, <1>8

LEMMA AbandonSeen ==
  ASSUME Slots, NEW r \in Requests, Owned(r), AbandonRefresh(r)
  PROVE  L!AbandonRefresh(r) /\ Within(LibraryLabels)
<1>1. ~L!Arrives(r)
  BY Seen DEF AbandonRefresh, Arrives, L!Arrives, L!Idle, Idle, Owned, LibraryView, LibraryLabels
<1>2. Mine(Idle, LibraryLabels)
  BY DEF Mine
<1>3. L!To(r, Idle) /\ Within(LibraryLabels)
  BY <1>2, LibraryTo DEF AbandonRefresh
<1> QED
  BY <1>1, <1>3, SameLibrary DEF AbandonRefresh, L!AbandonRefresh

LEMMA MetadataStepSeen ==
  ASSUME Slots, L!LibraryReqOK, OwnHandlers(LibraryLabels), MetadataNext
  PROVE  L!MetadataNext /\ Within(LibraryLabels)
<1>1. CASE Second
  BY <1>1, SecondSeen DEF L!MetadataNext
<1>2. ASSUME NEW w \in Workers, LookupStep(w) PROVE L!MetadataNext /\ Within(LibraryLabels)
  <2>1. L!LookupStep(w) /\ Within(LibraryLabels)
    BY <1>2, RateSeen, AnswersSeen, CoversSeen, StoreSeen DEF LookupStep, L!LookupStep
  <2> QED
    BY <2>1, SameLibrary DEF L!MetadataNext
<1>3. ASSUME NEW t \in Tracks, SpawnLookup(t) PROVE L!MetadataNext /\ Within(LibraryLabels)
  BY <1>3, LookupsBegin DEF L!MetadataNext
<1>4. ASSUME NEW t \in Tracks, DayPasses(t) PROVE L!MetadataNext /\ Within(LibraryLabels)
  <2>1. LibraryView' = LibraryView /\ Within(LibraryLabels)
    BY <1>4, LibraryStays DEF DayPasses
  <2>2. L!DayPasses(t)
    BY <1>4, <2>1 DEF DayPasses, L!DayPasses
  <2> QED
    BY <2>1, <2>2 DEF L!MetadataNext
<1>5. ASSUME NEW r \in Requests, NEW t \in Tracks, RefreshMetadata(r, t) \/ ClearMetadata(r, t)
      PROVE  L!MetadataNext /\ Within(LibraryLabels)
  <2>1. (L!RefreshMetadata(r, t) \/ L!ClearMetadata(r, t)) /\ Within(LibraryLabels)
    BY <1>5, LookupsBegin, LimitsSeen
  <2> QED
    BY <2>1 DEF L!MetadataNext
<1>6. ASSUME NEW r \in Requests, NEW job \in Jobs, StartJob(r, job)
      PROVE  L!MetadataNext /\ Within(LibraryLabels)
  <2>1. L!StartJob(r, job) /\ Within(LibraryLabels)
    BY <1>6, JobRequestsSeen
  <2> QED
    BY <2>1, SameLibrary DEF L!MetadataNext
<1>7. ASSUME NEW r \in Requests, UpdateLimit(r) \/ ClearLimit(r) \/ RefuseJob(r) \/ SpawnJob(r)
      PROVE  L!MetadataNext /\ Within(LibraryLabels)
  <2>1. (L!UpdateLimit(r) \/ L!ClearLimit(r) \/ L!RefuseJob(r) \/ L!SpawnJob(r)) /\ Within(LibraryLabels)
    BY <1>7, LimitsSeen, JobRequestsSeen
  <2> QED
    BY <2>1 DEF L!MetadataNext
<1>8. ASSUME NEW r \in Requests, AbandonRefresh(r) PROVE L!MetadataNext /\ Within(LibraryLabels)
  <2>1. req'[r] = Idle /\ ~Arrives(r)
    BY <1>8 DEF AbandonRefresh, To, Goto, Slots
  <2>2. Owned(r)
    BY <2>1 DEF OwnHandlers, Owned, Mine, Arrives
  <2>3. L!AbandonRefresh(r) /\ Within(LibraryLabels)
    BY <1>8, <2>2, AbandonSeen
  <2> QED
    BY <2>3 DEF L!MetadataNext
<1>9. CASE \/ ListLibrary
           \/ \E work \in Work : NextTrack(work) \/ NextCover(work)
           \/ \E job \in Jobs : EndJob(job)
  <2>1. /\ Within(LibraryLabels)
        /\ \/ L!ListLibrary
           \/ \E work \in L!Work : L!NextTrack(work) \/ L!NextCover(work)
           \/ \E job \in L!Jobs : L!EndJob(job)
    BY <1>9, JobsSeen, SameLibrary
  <2> QED
    BY <2>1 DEF L!MetadataNext
<1> QED
  BY <1>1, <1>2, <1>3, <1>4, <1>5, <1>6, <1>7, <1>8, <1>9 DEF MetadataNext

LEMMA LibraryTurnSeen ==
  ASSUME Slots, L!LibraryReqOK, LibraryTurn
  PROVE  L!LibraryNext /\ Within(LibraryLabels)
<1>1. CASE ShareStep
  BY <1>1, ShareStepSeen DEF L!LibraryNext
<1>2. CASE MetadataStep
  <2>1. L!MetadataNext /\ Within(LibraryLabels)
    BY <1>2, MetadataStepSeen DEF LibraryTurn, MetadataStep
  <2>2. UNCHANGED indexVars /\ L!indexVars' = L!indexVars
    BY <1>2 DEF MetadataStep, indexVars, L!indexVars
  <2> QED
    BY <2>1, <2>2 DEF L!LibraryNext, L!MetadataStep
<1> QED
  BY <1>1, <1>2 DEF LibraryTurn, LibraryNext

-----------------------------------------------------------------------------
(* All parts at once *)

\* Whoever is in a slot is a handler of some part.
Handled == \A r \in Requests : Mine(req[r], AccountLabels \cup OAuthLabels \cup EventLabels \cup LibraryLabels)

PartsInv == Slots /\ Handled /\ A!AccountsInv /\ O!OAuthInv /\ E!EventInv /\ L!LibraryInv

LEMMA LabelsApart ==
  /\ "idle" \notin AccountLabels \cup OAuthLabels \cup EventLabels \cup LibraryLabels
  /\ AccountLabels \cap OAuthLabels = {} /\ AccountLabels \cap EventLabels = {}
  /\ AccountLabels \cap LibraryLabels = {} /\ OAuthLabels \cap EventLabels = {}
  /\ OAuthLabels \cap LibraryLabels = {} /\ EventLabels \cap LibraryLabels = {}
BY DEF AccountLabels, OAuthLabels, EventLabels, LibraryLabels

LEMMA PartsBegin ==
  ASSUME ServicesInit
  PROVE  /\ Slots /\ Handled
         /\ A!AccountsInit /\ A!RequestsInit /\ O!OAuthInit /\ O!RequestsInit
         /\ E!EventsInit /\ E!RequestsInit /\ L!LibraryInit
<1>1. req = [r \in Requests |-> Idle]
  BY DEF ServicesInit, LibraryInit, RequestsInit
<1>2. \A labels : View(labels) = [r \in Requests |-> Idle]
  BY <1>1 DEF View
<1>3. A!RequestsInit /\ O!RequestsInit /\ E!RequestsInit /\ L!RequestsInit
  BY <1>2 DEF AccountView, OAuthView, EventView, LibraryView, A!RequestsInit, O!RequestsInit, E!RequestsInit,
     L!RequestsInit, Idle, A!Idle, O!Idle, E!Idle, L!Idle
<1>4. Slots /\ Handled
  BY <1>1 DEF Slots, Handled, Mine
<1>5. A!AccountsInit
  BY SameAccounts DEF ServicesInit, AccountsInit, A!AccountsInit
<1>6. O!OAuthInit
  BY DEF ServicesInit, OAuthInit, O!OAuthInit, O!NoConnection, NoConnection, O!Flows, Flows, O!Grants, Grants
<1>7. E!EventsInit
  BY SameRows DEF ServicesInit, EventsInit, E!EventsInit
<1>8. L!LibraryInit
  <2>1. L!EmptyFolder
    BY SameLibrary DEF ServicesInit, LibraryInit, EmptyFolder, L!EmptyFolder
  <2>2. L!ShareInit
    BY SameLibrary DEF ServicesInit, LibraryInit, ShareInit, L!ShareInit, EmptyIndex, L!EmptyIndex
  <2>3. L!MetadataInit
    BY SameLibrary DEF ServicesInit, LibraryInit, MetadataInit, L!MetadataInit
  <2> QED
    BY <1>3, <2>1, <2>2, <2>3 DEF L!LibraryInit
<1> QED
  BY <1>3, <1>4, <1>5, <1>6, <1>7, <1>8

\* What is left alone of the state of a part, seen from that part.
LEMMA PartStays ==
  /\ AccountView' = AccountView /\ UNCHANGED accountVars => UNCHANGED <<AccountView, A!accountVars>>
  /\ OAuthView' = OAuthView /\ UNCHANGED oauthVars => UNCHANGED <<OAuthView, O!oauthVars>>
  /\ EventView' = EventView /\ UNCHANGED eventVars => UNCHANGED <<EventView, E!eventVars>>
  /\ LibraryView' = LibraryView /\ UNCHANGED <<disk, indexVars, libraryVars>> => UNCHANGED L!folderVars
BY DEF accountVars, A!accountVars, oauthVars, O!oauthVars, tableVars, O!tableVars, providerVars, O!providerVars,
       itemVars, E!itemVars, eventVars, E!eventVars, indexVars, L!indexVars, libraryVars, L!libraryVars, L!folderVars

LEMMA HandledKept ==
  ASSUME Handled, NEW labels \in {AccountLabels, OAuthLabels, EventLabels, LibraryLabels}, Within(labels)
  PROVE  Slots' /\ Handled'
BY DEF Handled, Within, Mine

\* Whosever turn it is, one part takes a step of its own and the others see
\* nothing of it.
LEMMA Turns ==
  ASSUME PartsInv, [ServicesNext]_servicesVars
  PROVE  /\ Slots' /\ Handled'
         /\ [A!AccountsNext]_<<AccountView, A!accountVars>>
         /\ [O!OAuthNext]_<<OAuthView, O!oauthVars>>
         /\ [E!EventsNext]_<<EventView, E!eventVars>>
         /\ [L!LibraryNext]_(L!folderVars)
<1>0. Slots /\ Handled
  BY DEF PartsInv
<1>1. CASE AccountsTurn
  <2>1. A!AccountsNext /\ Within(AccountLabels)
    BY <1>0, <1>1, AccountsTurnSeen DEF PartsInv, A!AccountsInv
  <2>2. OAuthView' = OAuthView /\ EventView' = EventView /\ LibraryView' = LibraryView
    BY <2>1, OthersSee, LabelsApart DEF OAuthView, EventView, LibraryView
  <2>3. UNCHANGED oauthVars /\ UNCHANGED eventVars /\ UNCHANGED <<disk, indexVars, libraryVars>>
    BY <1>1 DEF AccountsTurn
  <2> QED
    BY <1>0, <2>1, <2>2, <2>3, PartStays, HandledKept
<1>2. CASE OAuthTurn
  <2>1. O!OAuthNext /\ Within(OAuthLabels)
    BY <1>0, <1>2, OAuthTurnSeen DEF PartsInv, O!OAuthInv
  <2>2. AccountView' = AccountView /\ EventView' = EventView /\ LibraryView' = LibraryView
    BY <2>1, OthersSee, LabelsApart DEF AccountView, EventView, LibraryView
  <2>3. UNCHANGED accountVars /\ UNCHANGED eventVars /\ UNCHANGED <<disk, indexVars, libraryVars>>
    BY <1>2 DEF OAuthTurn
  <2> QED
    BY <1>0, <2>1, <2>2, <2>3, PartStays, HandledKept
<1>3. CASE EventsTurn
  <2>1. E!EventsNext /\ Within(EventLabels)
    BY <1>0, <1>3, EventsTurnSeen
  <2>2. AccountView' = AccountView /\ OAuthView' = OAuthView /\ LibraryView' = LibraryView
    BY <2>1, OthersSee, LabelsApart DEF AccountView, OAuthView, LibraryView
  <2>3. UNCHANGED accountVars /\ UNCHANGED oauthVars /\ UNCHANGED <<disk, indexVars, libraryVars>>
    BY <1>3 DEF EventsTurn
  <2> QED
    BY <1>0, <2>1, <2>2, <2>3, PartStays, HandledKept
<1>4. CASE LibraryTurn
  <2>1. L!LibraryNext /\ Within(LibraryLabels)
    BY <1>0, <1>4, LibraryTurnSeen DEF PartsInv, L!LibraryInv, L!ShareInv, L!ShareTypeInv
  <2>2. AccountView' = AccountView /\ OAuthView' = OAuthView /\ EventView' = EventView
    BY <2>1, OthersSee, LabelsApart DEF AccountView, OAuthView, EventView
  <2>3. UNCHANGED accountVars /\ UNCHANGED oauthVars /\ UNCHANGED eventVars
    BY <1>4 DEF LibraryTurn
  <2> QED
    BY <1>0, <2>1, <2>2, <2>3, PartStays, HandledKept
<1>5. CASE UNCHANGED servicesVars
  <2>1. /\ req' = req /\ UNCHANGED accountVars /\ UNCHANGED oauthVars /\ UNCHANGED eventVars
        /\ UNCHANGED <<disk, indexVars, libraryVars>>
    BY <1>5 DEF servicesVars
  <2>2. Within(AccountLabels)
    BY <1>0, <2>1 DEF Within, Slots
  <2>3. /\ AccountView' = AccountView /\ OAuthView' = OAuthView
        /\ EventView' = EventView /\ LibraryView' = LibraryView
    BY <2>1 DEF AccountView, OAuthView, EventView, LibraryView, View
  <2> QED
    BY <1>0, <2>1, <2>2, <2>3, PartStays, HandledKept
<1> QED
  BY <1>1, <1>2, <1>3, <1>4, <1>5 DEF ServicesNext

LEMMA PartsInvInit == ServicesInit => PartsInv
<1> SUFFICES ASSUME ServicesInit PROVE PartsInv
  OBVIOUS
<1>1. A!AccountsInv
  BY PartsBegin, A!AccountsInitInv, FoundersAssumption, TokenAssumption, NamesAssumption, OAuthBounds,
     NoConnectionAssumption
<1>2. O!OAuthInv
  BY PartsBegin, O!OAuthInitInv, FoundersAssumption, TokenAssumption, NamesAssumption, OAuthBounds,
     NoConnectionAssumption
<1>3. E!EventInv
  BY PartsBegin, E!EventInitInv, EventBounds
<1>4. L!LibraryInv
  BY PartsBegin, L!LibraryInitInv, WordsAssumption, TracksAssumption, MaxLookupsAssumption, PreciseAssumption,
     QueriesAssumption, WorkersAssumption
     DEF L!IsFiniteSet, IsFiniteSet, L!IsName, IsName, L!Tasks, Tasks,
         L!Jobs, Jobs, L!Workers, Workers, L!Free, Free
<1> QED
  BY <1>1, <1>2, <1>3, <1>4, PartsBegin DEF PartsInv

LEMMA PartsInvNext == PartsInv /\ [ServicesNext]_servicesVars => PartsInv'
<1> SUFFICES ASSUME PartsInv, [ServicesNext]_servicesVars PROVE PartsInv'
  OBVIOUS
<1>1. A!AccountsInv'
  BY Turns, A!AccountsNextInv, FoundersAssumption, TokenAssumption, NamesAssumption, OAuthBounds,
     NoConnectionAssumption DEF PartsInv
<1>2. O!OAuthInv'
  BY Turns, O!OAuthNextInv, FoundersAssumption, TokenAssumption, NamesAssumption, OAuthBounds,
     NoConnectionAssumption DEF PartsInv
<1>3. E!EventInv'
  BY Turns, E!EventNextInv, EventBounds DEF PartsInv
<1>4. L!LibraryInv'
  BY Turns, L!LibraryNextInv, WordsAssumption, TracksAssumption, MaxLookupsAssumption, PreciseAssumption,
     QueriesAssumption, WorkersAssumption
     DEF L!IsFiniteSet, IsFiniteSet, L!IsName, IsName, L!Tasks, Tasks,
         L!Jobs, Jobs, L!Workers, Workers, L!Free, Free,
         PartsInv
<1> QED
  BY <1>1, <1>2, <1>3, <1>4, Turns DEF PartsInv

\* Seen through its own handlers, each part behaves as it does by itself,
\* whatever the handlers of the others do between two steps of it.  So what is
\* checked and proved of a part alone holds in the server.
THEOREM PartsBesideOthers ==
  ServicesSpec => A!AccountsSpec /\ O!OAuthSpec /\ E!EventsSpec /\ L!LibrarySpec
<1>1. ServicesInit => /\ A!AccountsInit /\ A!RequestsInit /\ O!OAuthInit /\ O!RequestsInit
                      /\ E!EventsInit /\ E!RequestsInit /\ L!LibraryInit
  BY PartsBegin
<1>2. PartsInv /\ [ServicesNext]_servicesVars =>
        /\ [A!AccountsNext]_<<AccountView, A!accountVars>>
        /\ [O!OAuthNext]_<<OAuthView, O!oauthVars>>
        /\ [E!EventsNext]_<<EventView, E!eventVars>>
        /\ [L!LibraryNext]_(L!folderVars)
  BY Turns
<1> QED
  BY <1>1, <1>2, PartsInvInit, PartsInvNext, PTL
     DEF ServicesSpec, A!AccountsSpec, O!OAuthSpec, E!EventsSpec, L!LibrarySpec

LEMMA SameAccountProperties ==
  ASSUME A!VerifyMailed, A!CurrentLink, A!AccountsReqOK
  PROVE  VerifiedByMail /\ LinkWorks
<1>1. A!Newcomers = Newcomers
  BY SameAccounts DEF A!Newcomers, Newcomers
<1>2. VerifiedByMail
  BY <1>1 DEF A!VerifyMailed, A!VerifiedByMail, VerifiedByMail
<1>3. LinkWorks
  <2>1. \A r \in A!InFlight("mail") : r \in InFlight("mail") /\ AccountView[r] = req[r]
    <3>1. "mail" \in AccountLabels
      BY DEF AccountLabels
    <3> QED
      BY <3>1, AccountsSee DEF A!InFlight, InFlight
  <2>2. A!LinkWorks
    BY DEF A!CurrentLink, A!LinkWorks
  <2> QED
    BY <1>1, <2>1, <2>2 DEF A!LinkWorks, LinkWorks
<1> QED
  BY <1>2, <1>3

LEMMA SameConnectionProperties ==
  ASSUME O!OAuthInv
  PROVE  ConnectionOwner /\ TokensMatchAccount
<1>1. /\ O!ConnectionOwner /\ O!TokensMatchAccount
  BY DEF O!OAuthInv, O!FlowInv, O!GrantInv, O!RowsMatch, O!TokensMatchAccount
<1>2. \A u \in Users : O!Connected(u) <=> Connected(u)
  BY DEF O!Connected, Connected, O!NoConnection, NoConnection
<1>3. ConnectionOwner
  BY <1>1, <1>2 DEF O!ConnectionOwner, ConnectionOwner
<1>4. TokensMatchAccount
  <2>1. \A r \in O!InFlight("update") : r \in InFlight("update") /\ OAuthView[r] = req[r]
    BY DEF O!InFlight, InFlight, O!At, At, OAuthView, View, OAuthLabels, Idle
  <2> QED
    BY <1>1, <1>2, <2>1 DEF O!TokensMatchAccount, TokensMatchAccount, O!NoGrant, NoGrant
<1> QED
  BY <1>3, <1>4

LEMMA SamePageProperties ==
  ASSUME E!EventInv
  PROVE  PageShowsRow /\ NoMessageBetween
<1>1. PageShowsRow
  <2>1. E!PageShowsRow
    BY E!ToldPages, EventBounds
  <2> QED
    BY <2>1, SameRows DEF E!PageShowsRow, PageShowsRow
<1>2. NoMessageBetween
  <2>1. \A r \in E!InFlight("broadcast") : r \in InFlight("broadcast") /\ EventView[r] = req[r]
    BY DEF E!InFlight, InFlight, E!At, At, EventView, View, EventLabels, Idle
  <2>2. E!NoMessageBetween
    BY DEF E!EventInv
  <2>3. \A ids : E!Oldest(ids) = Oldest(ids)
    BY DEF E!Oldest, Oldest
  <2> QED
    BY <2>1, <2>2, <2>3, SameRows DEF E!NoMessageBetween, NoMessageBetween
<1> QED
  BY <1>1, <1>2

LEMMA SameLibraryProperties ==
  ASSUME L!LibraryInv
  PROVE  SharedFilesFound
<1>1. L!SharedFilesFound
  BY L!SoundFinds, WordsAssumption, TracksAssumption, MaxLookupsAssumption, PreciseAssumption,
     QueriesAssumption, WorkersAssumption
     DEF L!IsFiniteSet, IsFiniteSet, L!IsName, IsName, L!Tasks, Tasks,
         L!Jobs, Jobs, L!Workers, Workers, L!Free, Free,
         L!LibraryInv, L!ShareInv
<1>2. \A t : L!Lookup(t) = Lookup(t)
  BY SameLibrary DEF L!Lookup, Lookup
<1>3. \A include, exclude, limit : L!Search(include, exclude, limit) = Search(include, exclude, limit)
  BY DEF L!Search, Search, L!Under, Under, L!First, First, L!Cardinality, Cardinality
<1> QED
  BY <1>1, <1>2, <1>3 DEF L!SharedFilesFound, SharedFilesFound

\* With every handler of the server at work at once: verified accounts were
\* mailed and links work; connections belong to who started their flow and
\* their tokens to the account named; pages show the rows and miss no message,
\* though ends may go unannounced and snapshots fail; shared files are found.
THEOREM ServicesTogether ==
  ServicesSpec => [](/\ VerifiedByMail /\ LinkWorks
                     /\ ConnectionOwner /\ TokensMatchAccount
                     /\ PageShowsRow /\ NoMessageBetween
                     /\ SharedFilesFound)
<1>1. PartsInv => VerifiedByMail /\ LinkWorks
  BY SameAccountProperties DEF PartsInv, A!AccountsInv
<1>2. PartsInv => ConnectionOwner /\ TokensMatchAccount
  BY SameConnectionProperties DEF PartsInv
<1>3. PartsInv => PageShowsRow /\ NoMessageBetween
  BY SamePageProperties DEF PartsInv
<1>4. PartsInv => SharedFilesFound
  BY SameLibraryProperties DEF PartsInv
<1> QED
  BY <1>1, <1>2, <1>3, <1>4, PartsInvInit, PartsInvNext, PTL DEF ServicesSpec

\* With every handler at work at once, only its own flow connects a user again,
\* requests to MusicBrainz are a second apart, and a job ends only when every
\* track it listed has its result or is excused.
THEOREM ServicesStepTogether ==
  ServicesSpec => NoReconnectWithoutApproval /\ MusicBrainzRate /\ JobsReachEvery
<1>1. PartsInv /\ [ServicesNext]_servicesVars =>
        [\A u \in Users : ~Connected(u) /\ Connected(u)' => connections'[u].flow \notin used]_oauthVars
  <2> SUFFICES ASSUME PartsInv, [ServicesNext]_servicesVars, oauthVars' # oauthVars,
                      NEW u \in Users, ~Connected(u), Connected(u)'
               PROVE  connections'[u].flow \notin used
    OBVIOUS
  <2>1. O!OAuthInv /\ O!OAuthNext
    <3>1. OAuthTurn
      BY DEF ServicesNext, AccountsTurn, EventsTurn, LibraryTurn, servicesVars
    <3> QED
      BY <3>1, OAuthTurnSeen DEF PartsInv, O!OAuthInv
  <2>2. ~O!Connected(u) /\ O!Connected(u)'
    BY DEF Connected, O!Connected, NoConnection, O!NoConnection
  <2>3. [\A v \in Users : ~O!Connected(v) /\ O!Connected(v)' => connections'[v].flow \notin used]_(O!oauthVars)
    BY <2>1, O!NewRows, FoundersAssumption, TokenAssumption, NamesAssumption, OAuthBounds,
       NoConnectionAssumption
  <2>4. O!oauthVars' # O!oauthVars
    BY DEF oauthVars, tableVars, providerVars, O!oauthVars, O!tableVars, O!providerVars
  <2> QED
    BY <2>2, <2>3, <2>4
<1>2. PartsInv /\ [ServicesNext]_servicesVars =>
        [\A w \in Workers : Place(w).at \in {"wait", "due"} /\ Place(w)'.at = "call" => ~recent]_<<req, metadataVars>>
  <2> SUFFICES ASSUME PartsInv, [ServicesNext]_servicesVars, NEW w \in Workers,
                      Place(w).at \in {"wait", "due"}, Place(w)'.at = "call"
               PROVE  ~recent
    OBVIOUS
  <2>1. L!LibraryInv /\ [L!LibraryNext]_(L!folderVars)
    BY Turns DEF PartsInv
  <2>2. L!Place(w).at \in {"wait", "due"}
    BY WorkersSee DEF On, L!On, LibraryLabels
  <2>3. L!Place(w)'.at = "call"
    BY DEF L!Place, Place, LibraryView, View, LibraryLabels
  <2> QED
    BY <2>1, <2>2, <2>3, SameLibrary, L!CallsApart, WordsAssumption, TracksAssumption,
       MaxLookupsAssumption, PreciseAssumption, QueriesAssumption, WorkersAssumption
       DEF L!IsFiniteSet, IsFiniteSet, L!IsName, IsName, L!Tasks, Tasks,
           L!Jobs, Jobs, L!Workers, Workers, L!Free, Free
<1>3. PartsInv /\ [ServicesNext]_servicesVars =>
        [\A job \in Jobs : task[job] # Idle /\ task'[job] = Idle =>
           \A t \in listed[job] \ excused[job] : HasResult(job, t)]_<<req, metadataVars>>
  <2> SUFFICES ASSUME PartsInv, [ServicesNext]_servicesVars,
                      NEW job \in Jobs, task[job] # Idle, task'[job] = Idle
               PROVE  \A t \in listed[job] \ excused[job] : HasResult(job, t)
    OBVIOUS
  <2>1. L!LibraryInv /\ [L!LibraryNext]_(L!folderVars)
    BY Turns DEF PartsInv
  <2>2. job \in L!Jobs /\ task[job] # L!Idle /\ task'[job] = L!Idle
    BY SameLibrary
  <2>3. \A t \in listed[job] \ excused[job] : L!HasResult(job, t)
    BY <2>1, <2>2, L!EndsApart, WordsAssumption, TracksAssumption, MaxLookupsAssumption, PreciseAssumption,
       QueriesAssumption, WorkersAssumption
       DEF L!IsFiniteSet, IsFiniteSet, L!IsName, IsName, L!Tasks, Tasks,
           L!Jobs, Jobs, L!Workers, Workers, L!Free, Free
  <2> QED
    BY <2>3 DEF L!HasResult, HasResult
<1> QED
  BY <1>1, <1>2, <1>3, PartsInvInit, PartsInvNext, PTL
     DEF ServicesSpec, NoReconnectWithoutApproval, MusicBrainzRate, JobsReachEvery
=============================================================================
