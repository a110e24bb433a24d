----------------------------- MODULE SharedFolder -----------------------------
(***************************************************************************)
(* The storage directory.  Three parts of the program write the same file  *)
(* one after the other: a transfer creates it and lets it grow, the        *)
(* metadata lookup rewrites it with tags, and deleting the item removes    *)
(* it.  A file is told from another version of itself by its size only, so *)
(* a size stands for the content: the sizes are those of these versions.   *)
(***************************************************************************)
CONSTANT Tracks     \* downloaded items, and their files: an item has one file name

VARIABLE disk       \* what is in the directory under each name

Missing == "missing"
Partial == "partial"
Whole   == "whole"
Tagged  == "tagged"

Sizes == {Partial, Whole, Tagged}

FilesTypeOK == disk \in [Tracks -> Sizes \cup {Missing}]

OnDisk == {t \in Tracks : disk[t] # Missing}

EmptyFolder == disk = [t \in Tracks |-> Missing]
FullFolder  == disk = [t \in Tracks |-> Whole]

Write(t, size) == disk' = [disk EXCEPT ![t] = size]
===============================================================================
