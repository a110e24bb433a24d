--------------------------- MODULE MCQueueService ---------------------------
(***************************************************************************)
(* Instances of QueueService: one search of a list, one standalone search, *)
(* and a search of a list beside a standalone one.                         *)
(***************************************************************************)
EXTENDS QueueService, TLC

CONSTANTS e1, e2, l1, none

OneOfList     == e1 :> l1
OneStandalone == e1 :> none
OneOfEach     == e1 :> l1 @@ e2 :> none

Symmetry == Permutations(Slots)

\* One search with a restart or a deletion, or two searches that collide, with
\* one item less and neither.
InScope ==
  \/ rowStatus[e2] = "absent" /\ crashes + deletes <= 1
  \/ crashes = 0 /\ deletes = 0 /\ itemStatus[MaxItems] = "none"
=============================================================================
