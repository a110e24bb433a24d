------------------------------ MODULE Requests ------------------------------
(***************************************************************************)
(* Handlers of the HTTP API.  axum runs each request as a future of its    *)
(* own; a handler gives way to others at every await, that is at every     *)
(* database query and every call of another service, and what it read      *)
(* before may be stale after it.  A request slot holds the place of one    *)
(* handler and its local variables; idle slots are where requests arrive.  *)
(* A client that hangs up makes hyper drop the future where it stands:     *)
(* Abandon.                                                                *)
(***************************************************************************)
CONSTANT Requests     \* requests at work at the same time

VARIABLE req

Idle == [at |-> "idle"]

Goto(r, state)  == req' = [req EXCEPT ![r] = state]
Finish(r)       == Goto(r, Idle)
Arrives(r)      == req[r] = Idle
At(r, label)    == req[r].at = label
InFlight(label) == {r \in Requests : At(r, label)}

RequestsInit == req = [r \in Requests |-> Idle]
=============================================================================
