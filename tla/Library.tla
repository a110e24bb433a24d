------------------------------- MODULE Library -------------------------------
(***************************************************************************)
(* ShareIndex and Metadata on the same files and the same request slots:   *)
(* the monitor downloads a track and adds it to the index, the lookup it   *)
(* spawns writes the tags into the file, whoever deletes the item removes  *)
(* it, and rescans list whatever they find.  No step of one is kept from   *)
(* falling between two of the other.  Metadata's tags (Store) take the     *)
(* place of TagFile; its rows outlive a removed file.                      *)
(***************************************************************************)
EXTENDS ShareIndex, Metadata

folderVars == <<req, disk, indexVars, libraryVars>>

LibraryRequest == ShareRequest \cup MetadataRequest

LibraryInit == EmptyFolder /\ ShareInit /\ MetadataInit /\ RequestsInit

ShareStep ==
  /\ \/ MonitorStep
     \/ \E t \in Tracks : RemoveFile(t)
     \/ \E r \in Requests : ScanStep(r)
  /\ UNCHANGED libraryVars

MetadataStep == MetadataNext /\ UNCHANGED indexVars

LibraryNext == ShareStep \/ MetadataStep

LibrarySpec == LibraryInit /\ [][LibraryNext]_folderVars
==============================================================================
