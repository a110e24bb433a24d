------------------------------- MODULE Uploads -------------------------------
(***************************************************************************)
(* src/src/services/upload.rs: peers ask for files (QueueUpload, or the    *)
(* legacy TransferRequest, dispatched in protocol/client.rs), a checker    *)
(* starts the queued uploads when a slot is free, every upload runs in a   *)
(* task of its own and passes its data through one token bucket, and the   *)
(* administrators change slots, rate and sharing while all that runs.      *)
(*                                                                         *)
(* A step ends where the code awaits.  What a peer, the network or the     *)
(* file system answers is any of the answers the code tells apart.         *)
(***************************************************************************)
EXTENDS TokenBucket, Sequences, FiniteSets

CONSTANTS
  Uploads,      \* requests of peers: ids of queue entries
  Files, FileOf,
  FileSize, Chunk,           \* in units of data; send_file_data reads Chunk at once
  SlotChoices, RateChoices,  \* what an administrator may configure
  InitialConfig,             \* the environment variables main.rs reads
  Admins,
  MaxUpdates                 \* bound: configuration requests

ASSUME UploadsAssumption == IsFiniteSet(Uploads) /\ FileOf \in [Uploads -> Files]
ASSUME SizeAssumption    == FileSize \in Nat /\ Chunk \in Nat \ {0}
ASSUME ChoicesAssumption == SlotChoices \subseteq Nat /\ RateChoices \subseteq Nat
ASSUME UpdatesAssumption == MaxUpdates \in Nat

Config == [slots : SlotChoices, rate : RateChoices, enabled : BOOLEAN]

ASSUME InitialAssumption == InitialConfig \in Config

VARIABLES
  config,   \* UploadConfig
  admin,    \* update_upload_config requests in progress
  updates,
  wired,    \* how far main.rs has connected this service and the client
  shared,   \* the share index
  disk,     \* the files that exist
  queue,    \* the upload queue
  active,   \* active_count
  checker,  \* check_upload_queue: its place and its local variables
  upload    \* each request's place in the code and its local variables

adminVars == <<config, admin, updates>>
fileVars  == <<shared, disk>>
slotVars  == <<queue, active, checker>>
vars == <<bucketVars, adminVars, wired, fileVars, slotVars, upload>>

Running == {"negotiate", "open", "read", "wait", "write", "release"}
Ended   == {"rejected", "dropped", "done"}

Upload  == [pc : {"none", "validate", "enqueue", "queued", "popped"} \cup Running \cup Ended,
            left  : Nat,   \* what is still to be sent
            n     : Nat,   \* size of the chunk in hand
            limit : Nat]   \* the rate consume works with

\* Between its chunks an upload holds no tokens.
Idle(label) == [pc |-> label, left |-> 0, n |-> 0, limit |-> 0]

IdleChecker == [pc |-> "idle", slots |-> 0, free |-> 0, batch |-> <<>>]

Checker == [pc    : {"idle", "count", "pop", "client", "start"},
            slots : Nat, free : Nat,
            batch : Seq(Uploads)]
Admin   == [pc : {"idle", "rate", "write"}, new : Config]

TypeOK ==
  /\ BucketTypeOK
  /\ config  \in Config
  /\ admin   \in [Admins -> Admin]
  /\ updates \in Nat
  /\ wired   \in {"none", "service", "both"}
  /\ shared  \subseteq Files /\ disk \subseteq Files
  /\ queue   \in Seq(Uploads)
  /\ active  \in Nat
  /\ checker \in Checker
  /\ upload  \in [Uploads -> Upload]

Init ==
  /\ config = InitialConfig
  /\ BucketInit(config.rate)
  /\ admin   = [a \in Admins |-> [pc |-> "idle", new |-> config]]
  /\ updates = 0
  /\ wired   = "none"
  /\ shared  = Files /\ disk = Files
  /\ queue   = <<>> /\ active = 0
  /\ checker = IdleChecker
  /\ upload  = [u \in Uploads |-> Idle("none")]

At(u, label) == upload[u].pc = label
Set(u, r)    == upload' = [upload EXCEPT ![u] = r]

Goto(u, label) == Set(u, [upload[u] EXCEPT !.pc = label])

\* execute_upload returns: only the slot is left to be given back.
Return(u) == Set(u, Idle("release"))

-----------------------------------------------------------------------------
(* Startup: set_upload_service, then set_slsk_client.  The checker is already  *)
(* running by then.                                                            *)

Wire ==
  /\ \/ wired = "none"    /\ wired' = "service"
     \/ wired = "service" /\ wired' = "both"
  /\ UNCHANGED <<bucketVars, adminVars, fileVars, slotVars, upload>>

-----------------------------------------------------------------------------
(* handle_queue_upload *)

Request(u) ==
  /\ At(u, "none")
  /\ wired # "none"
  /\ Goto(u, IF config.enabled THEN "validate" ELSE "rejected")
  /\ UNCHANGED <<bucketVars, adminVars, wired, fileVars, slotVars>>

\* The file is in the index and still on the disk.
Validate(u) ==
  /\ At(u, "validate")
  /\ Goto(u, IF FileOf[u] \in shared \cap disk THEN "enqueue" ELSE "rejected")
  /\ UNCHANGED <<bucketVars, adminVars, wired, fileVars, slotVars>>

\* Faulty: an entry is put in front of the others.
EnqueueFirst(u) ==
  /\ At(u, "enqueue")
  /\ queue' = <<u>> \o queue
  /\ Goto(u, "queued")
  /\ UNCHANGED <<bucketVars, adminVars, wired, fileVars, active, checker>>

Enqueue(u) ==
  /\ At(u, "enqueue")
  /\ queue' = Append(queue, u)
  /\ Goto(u, "queued")
  /\ UNCHANGED <<bucketVars, adminVars, wired, fileVars, active, checker>>

\* get_queue_position: what a peer is told; 0 when it is not in the queue.
QueuePosition(u) ==
  IF \E i \in DOMAIN queue : queue[i] = u
  THEN CHOOSE i \in DOMAIN queue : queue[i] = u ELSE 0

-----------------------------------------------------------------------------
(* check_upload_queue, every ten seconds *)

CheckerAt(label) == checker.pc = label

CheckConfig ==
  /\ CheckerAt("idle")
  /\ config.enabled
  /\ checker' = [checker EXCEPT !.pc = "count", !.slots = config.slots]
  /\ UNCHANGED <<bucketVars, adminVars, wired, fileVars, queue, active, upload>>

\* Faulty: every slot counts as free.
IgnoreActive ==
  /\ CheckerAt("count")
  /\ checker' = [checker EXCEPT !.pc = "pop", !.free = checker.slots]
  /\ UNCHANGED <<bucketVars, adminVars, wired, fileVars, queue, active, upload>>

CountActive ==
  /\ CheckerAt("count")
  /\ checker' = IF active >= checker.slots THEN IdleChecker
                ELSE [checker EXCEPT !.pc = "pop", !.free = checker.slots - active]
  /\ UNCHANGED <<bucketVars, adminVars, wired, fileVars, queue, active, upload>>

Pop ==
  /\ CheckerAt("pop")
  /\ LET k == IF checker.free < Len(queue) THEN checker.free ELSE Len(queue) IN
       /\ checker' = [checker EXCEPT !.pc = "client", !.batch = SubSeq(queue, 1, k)]
       /\ queue'   = SubSeq(queue, k + 1, Len(queue))
       /\ upload'  = [u \in Uploads |->
                        IF \E i \in 1..k : queue[i] = u
                        THEN [upload[u] EXCEPT !.pc = "popped"] ELSE upload[u]]
  /\ UNCHANGED <<bucketVars, adminVars, wired, fileVars, active>>

\* Without the client the entries just popped are dropped.
GetClient ==
  /\ CheckerAt("client")
  /\ \/ /\ wired = "both"
        /\ checker' = [checker EXCEPT !.pc = "start"]
        /\ UNCHANGED upload
     \/ /\ wired # "both"
        /\ checker' = IdleChecker
        /\ upload'  = [u \in Uploads |->
                         IF At(u, "popped") THEN [upload[u] EXCEPT !.pc = "dropped"]
                         ELSE upload[u]]
  /\ UNCHANGED <<bucketVars, adminVars, wired, fileVars, queue, active>>

\* Faulty: starts one upload per check and forgets the others it popped.
StartFirst ==
  /\ CheckerAt("start")
  /\ checker' = IdleChecker
  /\ \/ /\ checker.batch # <<>>
        /\ active' = active + 1
        /\ Goto(Head(checker.batch), "negotiate")
     \/ checker.batch = <<>> /\ UNCHANGED <<active, upload>>
  /\ UNCHANGED <<bucketVars, adminVars, wired, fileVars, queue>>

StartUpload ==
  /\ CheckerAt("start")
  /\ \/ /\ checker.batch # <<>>
        /\ active'  = active + 1
        /\ checker' = [checker EXCEPT !.batch = Tail(checker.batch)]
        /\ Goto(Head(checker.batch), "negotiate")
     \/ /\ checker.batch = <<>>
        /\ checker' = IdleChecker
        /\ UNCHANGED <<active, upload>>
  /\ UNCHANGED <<bucketVars, adminVars, wired, fileVars, queue>>

-----------------------------------------------------------------------------
(* execute_upload, and send_file_data in protocol/peer.rs *)

\* The file must still exist; then address, P connection, TransferRequest and
\* its reply, F connection and the peer's offset: each fails, is denied or runs
\* into its timeout, or all succeed.
Negotiate(u) ==
  /\ At(u, "negotiate")
  /\ \E label \in {"open", "release"} :
       /\ label = "open" => FileOf[u] \in disk
       /\ Goto(u, label)
  /\ UNCHANGED <<bucketVars, adminVars, wired, fileVars, slotVars>>

\* The peer's offset leaves any rest of the file to send.
Open(u) ==
  /\ At(u, "open")
  /\ \/ /\ FileOf[u] \in disk
        /\ \E rest \in 0..FileSize :
             Set(u, [pc |-> "read", left |-> rest, n |-> 0, limit |-> 0])
     \/ /\ FileOf[u] \notin disk
        /\ Return(u)
  /\ UNCHANGED <<bucketVars, adminVars, wired, fileVars, slotVars>>

\* Read a chunk and enter consume, which reads the rate once; or the file has
\* ended or cannot be read.
Read(u) ==
  /\ At(u, "read")
  /\ \/ /\ upload[u].left > 0
        /\ Set(u, [pc    |-> IF rate = 0 THEN "write" ELSE "wait",
                   left  |-> upload[u].left,
                   n     |-> IF upload[u].left < Chunk THEN upload[u].left ELSE Chunk,
                   limit |-> rate])
     \/ Return(u)
  /\ UNCHANGED <<bucketVars, adminVars, wired, fileVars, slotVars>>

\* One turn of consume; without enough tokens it sleeps and tries again.
Throttle(u) ==
  /\ At(u, "wait")
  /\ \E granted \in BOOLEAN :
       /\ Consume(upload[u].n, upload[u].limit, granted)
       /\ Goto(u, IF granted THEN "write" ELSE "wait")
  /\ UNCHANGED <<adminVars, wired, fileVars, slotVars>>

\* Write the chunk to the peer; an error or a timeout ends the upload.
Write(u) ==
  /\ At(u, "write")
  /\ \/ Set(u, [pc |-> "read", left |-> upload[u].left - upload[u].n,
                 n |-> 0, limit |-> 0])
     \/ Return(u)
  /\ UNCHANGED <<bucketVars, adminVars, wired, fileVars, slotVars>>

\* Faulty: the slot is not given back.
KeepSlot(u) ==
  /\ At(u, "release")
  /\ Goto(u, "done")
  /\ UNCHANGED <<bucketVars, adminVars, wired, fileVars, queue, active, checker>>

\* Report the result and give the slot back.
Release(u) ==
  /\ At(u, "release")
  /\ active' = active - 1
  /\ Goto(u, "done")
  /\ UNCHANGED <<bucketVars, adminVars, wired, fileVars, queue, checker>>

-----------------------------------------------------------------------------
(* Administrators and the share index *)

\* update_upload_config: copy the configuration and change some fields, ...
GetConfig(a) ==
  /\ admin[a].pc = "idle"
  /\ updates < MaxUpdates
  /\ updates' = updates + 1
  /\ \E new \in Config : admin' = [admin EXCEPT ![a] = [pc |-> "rate", new |-> new]]
  /\ UNCHANGED <<bucketVars, config, wired, fileVars, slotVars, upload>>

\* ... then update_config: the bucket's rate first, ...
UpdateRate(a) ==
  /\ admin[a].pc = "rate"
  /\ SetRate(admin[a].new.rate)
  /\ admin' = [admin EXCEPT ![a].pc = "write"]
  /\ UNCHANGED <<config, updates, wired, fileVars, slotVars, upload>>

\* ... the configuration when its lock is free.
WriteConfig(a) ==
  /\ admin[a].pc = "write"
  /\ config' = admin[a].new
  /\ admin'  = [admin EXCEPT ![a].pc = "idle"]
  /\ UNCHANGED <<bucketVars, updates, wired, fileVars, slotVars, upload>>

\* DownloadService::delete_item removes the file, not its entry in the index.
DeleteFile(f) ==
  /\ f \in disk
  /\ disk' = disk \ {f}
  /\ UNCHANGED <<bucketVars, adminVars, wired, shared, slotVars, upload>>

Rescan ==
  /\ shared # disk
  /\ shared' = disk
  /\ UNCHANGED <<bucketVars, adminVars, wired, disk, slotVars, upload>>

-----------------------------------------------------------------------------
CheckStep == CheckConfig \/ CountActive \/ Pop \/ GetClient \/ StartUpload

UploadStep(u) ==
  \/ Validate(u) \/ Enqueue(u) \/ Negotiate(u) \/ Open(u)
  \/ Read(u) \/ Throttle(u) \/ Write(u) \/ Release(u)

AdminStep(a) == GetConfig(a) \/ UpdateRate(a) \/ WriteConfig(a)

TickStep == Tick /\ UNCHANGED <<adminVars, wired, fileVars, slotVars, upload>>

\* The observer opens a window, before any change of the rate.
ObserveStep ==
  /\ updates = 0
  /\ Observe
  /\ UNCHANGED <<adminVars, wired, fileVars, slotVars, upload>>

Next ==
  \/ Wire
  \/ \E u \in Uploads : Request(u) \/ UploadStep(u)
  \/ CheckStep
  \/ \E a \in Admins : AdminStep(a)
  \/ \E f \in Files : DeleteFile(f)
  \/ Rescan
  \/ TickStep
  \/ ObserveStep

(* The runtime schedules every task that can go on, time passes, startup    *)
(* completes, and what an upload asks of a peer, the network or the disk    *)
(* ends by a timeout at the latest (10, 60 or 30 seconds).  Peers and       *)
(* administrators owe nothing.                                              *)
Fairness ==
  /\ WF_vars(Wire)
  /\ WF_vars(CheckStep)
  /\ \A u \in Uploads : WF_vars(UploadStep(u))
  /\ WF_vars(TickStep)

Spec     == Init /\ [][Next]_vars
FairSpec == Spec /\ Fairness

-----------------------------------------------------------------------------
(* Properties *)

\* active_count, changed by the checker and by every upload at its end, is
\* exactly the number of uploads in progress: no way out of an upload keeps a
\* slot or gives one back twice.
ActiveIsRunning == active = Cardinality({u \in Uploads : upload[u].pc \in Running})

\* Although the checker reads the configuration, the count and the queue one
\* after the other, with uploads ending and administrators changing the slots
\* meanwhile, what runs and what it is about to start stays within the slots
\* it read.
SlotsRespected ==
  checker.batch # <<>> => active + Len(checker.batch) <= checker.slots

\* Peers are served in the order they were queued: a peer's place never gets
\* worse while it waits.
PlaceOnlyImproves ==
  [][\A u \in Uploads : QueuePosition(u) > 0 => QueuePosition(u)' <= QueuePosition(u)]_vars

\* From whatever moment on one looks, all uploads together pass no more than one
\* second's worth of data plus the configured rate times the time since, however
\* their turns on the shared bucket interleave and however long it was idle
\* before: nothing beyond one second is saved up.
RateLimitHolds == updates = 0 => passed <= rate * (Second + clock)

\* With sharing on and a slot to give, every queued upload comes to its end:
\* none waits for a slot, for its turn or for tokens for ever.
Usable == config.enabled /\ config.slots > 0
UploadsFinish ==
  <>[]Usable => \A u \in Uploads : At(u, "queued") ~> upload[u].pc \in Ended

\* consume "sleeps if necessary" and returns: an upload does not wait for its
\* tokens for ever.
ConsumeReturns == \A u \in Uploads : At(u, "wait") ~> ~At(u, "wait")
=============================================================================
