-------------------------- MODULE DownloadOutcome --------------------------
(***************************************************************************)
(* What QueueService takes for granted about initiate_download (its        *)
(* actions Initiate and TransferDone): a call ends once, either in a       *)
(* refusal that only its caller hears of, or in a failure that is also     *)
(* sent to the completion channel, or with a spawned transfer that sends   *)
(* exactly one completion afterwards.                                      *)
(***************************************************************************)
CONSTANT Downloads
VARIABLE outcome

Outcomes == {"none", "refused", "failed", "receiving", "ok", "err"}

Init == outcome = [d \in Downloads |-> "none"]

Becomes(d, from, to) ==
  /\ outcome[d] = from
  /\ outcome' = [outcome EXCEPT ![d] = to]

Next == \E d \in Downloads :
  \/ \E end \in {"refused", "failed", "receiving"} : Becomes(d, "none", end)
  \/ \E end \in {"ok", "err"} : Becomes(d, "receiving", end)

Spec == Init /\ [][Next]_outcome
=============================================================================
