------------------------------ MODULE ShareIndex ------------------------------
(***************************************************************************)
(* SharingService (src/src/services/sharing.rs): the index of the files    *)
(* offered to other peers.  scan reads the directory without the index's   *)
(* lock and swaps the new index in under it, add_file reads one file and   *)
(* appends it under the lock, and both run beside each other: a rescan is  *)
(* a request, files are added by the transfer monitor.                     *)
(*                                                                         *)
(* Left out: the audio properties of a file, and the two things rebuilt    *)
(* from files under the same lock, the compressed list and the counts.  A  *)
(* listing is one step, in any order the directory may have.               *)
(***************************************************************************)
EXTENDS Requests, SharedFolder, Integers, Sequences, FiniteSets

CONSTANTS Words, WordsOf      \* extract_words of each file name

ASSUME WordsAssumption == WordsOf \in [Tracks -> Seq(Words)]
ASSUME TracksAssumption == IsFiniteSet(Tracks)

VARIABLES
  index,      \* files, word_index and path_index
  monitor,    \* what the transfer monitor is adding
  added,      \* history: files whose add_file has ended since they were made
  overtaken   \* history: files added while the scan that made the index was at work

indexVars == <<index, monitor, added, overtaken>>
shareVars == <<disk, indexVars>>

SharedFile == [track : Tracks, size : Sizes]
NotIndexed == 0

EmptyIndex == [files |-> <<>>, words |-> [w \in Words |-> <<>>],
               paths |-> [t \in Tracks |-> NotIndexed]]

NoFile == [at |-> "idle"]

ShareRequest == {Idle} \cup [at : {"swap"}, files : Seq(SharedFile), known : SUBSET Tracks]

ShareTypeOK ==
  /\ FilesTypeOK
  /\ index.files \in Seq(SharedFile)
  /\ index.words \in [Words -> Seq(DOMAIN index.files)]
  /\ index.paths \in [Tracks -> {NotIndexed} \cup DOMAIN index.files]
  /\ monitor \in {NoFile} \cup [at : {"transfer", "read"}, track : Tracks]
                   \cup [at : {"add"}, file : SharedFile]
  /\ added \subseteq Tracks /\ overtaken \subseteq added

ShareInit ==
  /\ index = EmptyIndex /\ monitor = NoFile
  /\ added = {} /\ overtaken = {}

-----------------------------------------------------------------------------
(* The index *)

Copies(t, w) == Cardinality({k \in DOMAIN WordsOf[t] : WordsOf[t][k] = w})

\* The words of a name are not made distinct: a file whose name says a word
\* twice is under it twice.
AppendFile(idx, file) ==
  LET k == Len(idx.files) + 1
  IN [files |-> Append(idx.files, file),
      words |-> [w \in Words |-> idx.words[w] \o [c \in 1..Copies(file.track, w) |-> k]],
      paths |-> [idx.paths EXCEPT ![file.track] = k]]

\* The index scan builds from the files it found.
IndexOf(files) ==
  LET built[n \in 0..Len(files)] ==
        IF n = 0 THEN EmptyIndex ELSE AppendFile(built[n - 1], files[n])
  IN built[Len(files)]

Lookup(t) == IF index.paths[t] = NotIndexed THEN {} ELSE {index.files[index.paths[t]]}

Under(k, w) == \E n \in DOMAIN index.words[w] : index.words[w][n] = k

First(ns, limit) == {n \in ns : Cardinality({m \in ns : m < n}) < limit}

\* Faulty variant: words without an entry are dropped from the query.
SearchKnown(include, exclude, limit) ==
  LET known == {n \in DOMAIN include : index.words[include[n]] # <<>>}
      hits  == {k \in DOMAIN index.files : /\ \A n \in known : Under(k, include[n])
                                         /\ \A w \in exclude : ~Under(k, w)}
  IN {index.files[k] : k \in First(hits, limit)}

\* The entries of the rarest word, the first of equals, cut by the others.
Search(include, exclude, limit) ==
  LET entries(n) == index.words[include[n]]
      rarest == CHOOSE n \in DOMAIN include : \A m \in DOMAIN include :
                  \/ Len(entries(n)) < Len(entries(m))
                  \/ Len(entries(n)) = Len(entries(m)) /\ n <= m
      found  == entries(rarest)
      hits   == {e \in DOMAIN found : /\ \A n \in DOMAIN include : Under(found[e], include[n])
                                     /\ \A w \in exclude : ~Under(found[e], w)}
  IN IF include = <<>> THEN {} ELSE {index.files[found[e]] : e \in First(hits, limit)}

-----------------------------------------------------------------------------
(* A download, as far as it concerns the directory: one at a time *)

StartTransfer(t) ==
  /\ monitor = NoFile /\ disk[t] = Missing
  /\ Write(t, Partial)
  /\ monitor' = [at |-> "transfer", track |-> t]
  /\ UNCHANGED <<req, index, added, overtaken>>

EndTransfer ==
  /\ monitor.at = "transfer"
  /\ Write(monitor.track, Whole)
  /\ monitor' = [monitor EXCEPT !.at = "read"]
  /\ UNCHANGED <<req, index, added, overtaken>>

\* add_file: scan_single_file, which fails if the file is gone again ...
ReadFile ==
  /\ monitor.at = "read"
  /\ monitor' = IF disk[monitor.track] = Missing THEN NoFile
                ELSE [at |-> "add", file |-> [track |-> monitor.track, size |-> disk[monitor.track]]]
  /\ UNCHANGED <<req, disk, index, added, overtaken>>

\* ... and the entry, unless there is one for this path.
AddFile ==
  /\ monitor.at = "add"
  /\ LET t == monitor.file.track
     IN /\ index' = IF index.paths[t] # NotIndexed THEN index ELSE AppendFile(index, monitor.file)
        /\ added' = IF disk[t] = Missing THEN added ELSE added \cup {t}
        /\ overtaken' = overtaken \ {t}
  /\ monitor' = NoFile
  /\ UNCHANGED <<req, disk>>

\* The lookup of an added file writes its tags; the item may be deleted.
TagFile(t) ==
  /\ t \in added /\ disk[t] = Whole
  /\ Write(t, Tagged)
  /\ UNCHANGED <<req, index, monitor, added, overtaken>>

RemoveFile(t) ==
  /\ disk[t] \in {Whole, Tagged}
  /\ Write(t, Missing)
  /\ added' = added \ {t} /\ overtaken' = overtaken \ {t}
  /\ UNCHANGED <<req, index, monitor>>

-----------------------------------------------------------------------------
(* rescan_shares: scan *)

Listings == {s \in [1..Cardinality(OnDisk) -> OnDisk] : \A t \in OnDisk : \E n \in DOMAIN s : s[n] = t}

ScanDirectory(r) ==
  /\ Arrives(r)
  /\ \E s \in Listings :
       Goto(r, [at |-> "swap", known |-> added,
                files |-> [n \in DOMAIN s |-> [track |-> s[n], size |-> disk[s[n]]]]])
  /\ UNCHANGED shareVars

SwapIndex(r) ==
  /\ At(r, "swap")
  /\ LET found == {req[r].files[n].track : n \in DOMAIN req[r].files}
     IN overtaken' = (overtaken \cup (added \ req[r].known)) \ found
  /\ index' = IndexOf(req[r].files)
  /\ Finish(r)
  /\ UNCHANGED <<disk, monitor, added>>

AbandonScan(r) == At(r, "swap") /\ Finish(r) /\ UNCHANGED shareVars

MonitorStep == (\E t \in Tracks : StartTransfer(t)) \/ EndTransfer \/ ReadFile \/ AddFile

ScanStep(r) == ScanDirectory(r) \/ SwapIndex(r) \/ AbandonScan(r)

ShareNext ==
  \/ MonitorStep
  \/ \E t \in Tracks : TagFile(t) \/ RemoveFile(t)
  \/ \E r \in Requests : ScanStep(r)

ShareSpec == EmptyFolder /\ ShareInit /\ RequestsInit /\ [][ShareNext]_<<req, shareVars>>

-----------------------------------------------------------------------------
(* Properties *)

\* Peers find what was downloaded: a file that was added is looked up by its
\* path and found by every word of its name, and a search answers with files
\* that have all its words and none it excludes.  Only a scan that listed the
\* directory earlier and is swapped in later can lose an added file.
SharedFilesFound ==
  /\ \A t \in added \ overtaken :
       /\ \E file \in Lookup(t) : file.track = t
       /\ \A n \in DOMAIN WordsOf[t] : LET w == WordsOf[t][n]
            IN \E file \in Search(<<w>>, {}, Len(index.words[w])) : file.track = t
  /\ \A v, w, x \in Words : \A file \in Search(<<v, w>>, {x}, 2) :
       {v, w} \subseteq {WordsOf[file.track][n] : n \in DOMAIN WordsOf[file.track]} \ {x}
===============================================================================
