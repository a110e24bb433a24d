---------------------------- MODULE MCSharedSizes ----------------------------
(* ShareIndex and Metadata on the same files (Library): the monitor          *)
(* downloads a track, adds it to the index and spawns the lookup of its      *)
(* metadata, which writes the tags into the file.  Refreshes and the jobs    *)
(* are requests; nobody asks for a rescan.  A track is looked up only        *)
(* between being added and being removed.                                    *)
EXTENDS Library, TLC

MCWordsOf == [t \in Tracks |-> <<"w">>]
MCQueryOf == [t \in Tracks |-> <<"a", "b">>]
MCAnswers == {<<>>, <<[artist |-> <<"a">>, title |-> <<"b">>]>>}

Lookups(t) == {w \in Workers : Place(w) \in Looking /\ Place(w).track = t}

Next ==
  /\ LibraryNext
  /\ \A t \in Tracks : Lookups(t)' # {} => t \in added'
  /\ InFlight("swap")' = {}

Spec == LibraryInit /\ [][Next]_folderVars

\* SharedFile.size is the "File size in bytes" (src/src/services/sharing.rs):
\* once its download has been added and its lookups have ended, a file is
\* offered to peers with the size it has, which is the size they are told to
\* expect before the file is sent to its end.
SizeOnDisk ==
  \A n \in DOMAIN index.files :
    LET file == index.files[n]
    IN monitor = NoFile /\ disk[file.track] # Missing /\ Lookups(file.track) = {}
         => file.size = disk[file.track]
==============================================================================
