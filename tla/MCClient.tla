------------------------------ MODULE MCClient ------------------------------
(* What the client does for the queue: transfers and searches.  They share   *)
(* no state and their steps touch none of each other's, so TLC takes them    *)
(* one at a time (part); the other part stays where it begins, where nothing *)
(* fair is enabled.                                                          *)
(*                                                                           *)
(* Two transfers of files of one peer, which may choose the same token.  Two *)
(* searches: the first is answered by a slow peer with the track itself      *)
(* beside an unrelated file and another version, and by a fast peer with a   *)
(* response too long to be parsed to its end; nobody answers the second,     *)
(* whose task takes part in the notifications and the mutex.                 *)
EXTENDS FileTransfers, Searches, TLC

CONSTANTS d1, d2, peer, s1, s2, r1, r2

VARIABLE part

vars == <<transferVars, searchingVars, part>>

MCCallers == Downloads \X Legs
MCPeerOf  == [d \in Downloads |-> peer]

Track   == [title |-> "exact", format |-> "mp3", bitrate |-> 192,
            remix |-> FALSE, extended |-> FALSE]
Remix   == [Track EXCEPT !.title = "contains", !.remix = TRUE, !.extended = TRUE]
Other   == [Track EXCEPT !.title = "none", !.format = "flac"]

MCSearchOf == [r \in Responses |-> s1]
MCFilterOf == [s \in Searches |-> "any"]
MCOfferOf  ==
  r1 :> [slots |-> TRUE, speed |-> 21, queue |-> 0, files |-> <<Other, Remix, Track>>] @@
  r2 :> [slots |-> FALSE, speed |-> 25, queue |-> 0, files |-> <<Other>>]

Init ==
  /\ TransfersInit /\ SearchesInit
  /\ part \in {"transfers", "searches"} /\ (part = "transfers" => ~sharing)

Next ==
  /\ \/ part = "transfers" /\ TransfersNext /\ UNCHANGED searchingVars
     \/ part = "searches" /\ SearchesNext /\ UNCHANGED transferVars
  /\ UNCHANGED part

Spec == Init /\ [][Next]_vars /\ TransfersFairness /\ SearchesFairness
=============================================================================
