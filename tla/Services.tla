------------------------------ MODULE Services ------------------------------
(***************************************************************************)
(* The handlers of one server (create_router, src/src/api/mod.rs): each    *)
(* request is a handler of some part, and any of them may take its next    *)
(* step between two steps of any other, whatever part that belongs to.     *)
(* The labels tell whose handler is in a slot.  The queue's own requests   *)
(* and those that change uploads have modules of their own.                *)
(***************************************************************************)
EXTENDS Accounts, OAuthConnections, EventStream, Library

servicesVars == <<req, accountVars, oauthVars, eventVars, disk, indexVars, libraryVars>>

AccountLabels == {"mail", "rollback", "verify", "retoken", "count", "setRole"}
OAuthLabels   == {"insert", "deleteState", "exchange", "connect", "refresh", "update"}
EventLabels   == {"broadcast"}
LibraryLabels == {"swap", "wait", "sleep", "due", "call", "cover", "flag", "store", "limit", "unlimit", "list"}

\* A part lets handlers of its own arrive, go on and be dropped.
OwnHandlers(labels) == \A r \in Requests : req'[r] = req[r] \/ Arrives(r) \/ req[r].at \in labels

AccountsTurn ==
  /\ AccountsNext /\ OwnHandlers(AccountLabels)
  /\ UNCHANGED <<oauthVars, eventVars, disk, indexVars, libraryVars>>

OAuthTurn ==
  /\ OAuthNext /\ OwnHandlers(OAuthLabels)
  /\ UNCHANGED <<accountVars, eventVars, disk, indexVars, libraryVars>>

EventsTurn ==
  /\ EventsNext /\ OwnHandlers(EventLabels)
  /\ UNCHANGED <<accountVars, oauthVars, disk, indexVars, libraryVars>>

LibraryTurn ==
  /\ LibraryNext /\ OwnHandlers(LibraryLabels)
  /\ UNCHANGED <<accountVars, oauthVars, eventVars>>

ServicesInit == AccountsInit /\ OAuthInit /\ EventsInit /\ LibraryInit

ServicesNext == AccountsTurn \/ OAuthTurn \/ EventsTurn \/ LibraryTurn

ServicesSpec == ServicesInit /\ [][ServicesNext]_servicesVars
=============================================================================
