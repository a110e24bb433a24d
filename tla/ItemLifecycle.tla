---------------------------- MODULE ItemLifecycle ----------------------------
(***************************************************************************)
(* What the tables promise about an item: it is created, its download is   *)
(* announced once, and the download ends once.  Only a restart may end     *)
(* several downloads together, and only deletion follows an outcome.       *)
(***************************************************************************)
CONSTANT Items
VARIABLE stage

Stages == {"none", "pending", "downloading", "completed", "failed", "deleted"}

TypeOK == stage \in [Items -> Stages]

Init == stage = [i \in Items |-> "none"]

Move(i, from, to) ==
  /\ stage[i] \in from
  /\ stage' = [stage EXCEPT ![i] = to]

Create(i)   == Move(i, {"none"}, "pending")
Start(i)    == Move(i, {"pending"}, "downloading")
Complete(i) == Move(i, {"downloading"}, "completed")
\* A placeholder fails without having been downloaded.
Fail(i)     == Move(i, {"pending", "downloading"}, "failed")
Delete(i)   == Move(i, Stages \ {"none", "deleted"}, "deleted")

Interrupt ==
  stage' = [i \in Items |-> IF stage[i] = "downloading" THEN "failed" ELSE stage[i]]

Next ==
  \/ \E i \in Items : Create(i) \/ Start(i) \/ Complete(i) \/ Fail(i) \/ Delete(i)
  \/ Interrupt

Spec == Init /\ [][Next]_stage

\* An outcome never changes: only deletion follows it.
OutcomeFinal ==
  [][\A i \in Items : stage[i] \in {"completed", "failed"} =>
        stage'[i] \in {stage[i], "deleted"}]_stage
=============================================================================
