---------------------------- MODULE QueueService ----------------------------
(***************************************************************************)
(* src/src/services/queue.rs: the queue worker, which claims search rows   *)
(* and runs each in a spawned task; the transfer monitor, which handles    *)
(* the completions of the file transfers one by one; the user's requests   *)
(* on queue, lists and items; and a restart with the recovery main.rs      *)
(* runs before anything else.                                              *)
(*                                                                         *)
(* A step of a task or of the monitor is one database statement or one     *)
(* call of the Soulseek client.  These share a step: the deletion of a row *)
(* with its cached alternatives and its line in search_history (which the  *)
(* queue never reads back); a look at the cached alternatives with the     *)
(* statement it decides on, or with the search that fills them; the        *)
(* deletion of an item with its list entries; and startup recovery, which  *)
(* runs alone.  Database errors other than a violated key are left out.    *)
(***************************************************************************)
EXTENDS Database

CONSTANTS
  Slots,            \* the semaphore's permits: max_concurrent_searches tasks
  Monitor,          \* the transfer monitor's task
  NoEntry,          \* the job of an idle task
  MaxAlternatives,  \* alternatives cached per search (5 in the code)
  MaxCrashes,       \* bound: restarts
  MaxDeletes        \* bound: cancel and delete requests

NoItem == 0
Procs  == Slots \cup {Monitor}

ASSUME SlotsAssumption   == Monitor \notin Slots
ASSUME NoEntryAssumption == NoEntry \notin Entries
ASSUME BoundsAssumption  == {MaxAlternatives, MaxCrashes, MaxDeletes} \subseteq Nat

VARIABLES
  task,      \* each task's place in the code and its local variables
  cached,    \* pending_candidates: how many alternatives a search has left
  transfer,  \* each item's file transfer, until the monitor has taken its result
  source,    \* TransferCompletion.queue_id: the search that created an item
  crashes, deletes

netVars   == <<transfer, source>>
boundVars == <<crashes, deletes>>
vars      == <<dbVars, task, cached, netVars, boundVars>>

Labels == {"idle", "verify", "dedup", "pick", "search", "lookup", "replace",
           "create", "announce", "attach", "initiate", "initFailed", "link",
           "reuse", "reuseAttach", "purge", "retry", "giveUp", "placeholder",
           "markFailed", "attachFailed", "count", "countPending", "write",
           "succeed", "drop", "fail", "settle"}

Task == [pc      : Labels,
         job     : Entries \cup {NoEntry},       \* queued.id
         seen    : Nat,                          \* queued.retry_count as read
         item    : Items \cup {NoItem},
         path    : Paths \cup {NoPath},
         tally   : SUBSET {"completed", "failed", "unresolved"},
         verdict : ListStatus,
         then    : {"idle", "purge", "settle"},  \* where update_list_progress returns
         known   : BOOLEAN]                      \* the monitor found the row

Idle == [pc |-> "idle", job |-> NoEntry, seen |-> 0, item |-> NoItem,
         path |-> NoPath, tally |-> {}, verdict |-> "absent",
         then |-> "idle", known |-> FALSE]

TypeOK ==
  /\ DatabaseTypeOK
  /\ task     \in [Procs -> Task]
  /\ cached   \in [Entries -> Nat]
  /\ transfer \in [Items -> {"none", "receiving", "ok", "err", "taken"}]
  /\ source   \in [Items -> Entries \cup {NoEntry}]
  /\ crashes  \in Nat
  /\ deletes  \in Nat

Init ==
  /\ DatabaseInit
  /\ task     = [p \in Procs |-> Idle]
  /\ cached   = [e \in Entries |-> 0]
  /\ transfer = [i \in Items |-> "none"]
  /\ source   = [i \in Items |-> NoEntry]
  /\ crashes  = 0
  /\ deletes  = 0

-----------------------------------------------------------------------------
(* Local control *)

At(p, label) == task[p].pc = label
Set(p, r)    == task' = [task EXCEPT ![p] = r]

\* The task's next record: a task that is done keeps nothing.
Goto(p, label) == IF label = "idle" THEN Idle ELSE [task[p] EXCEPT !.pc = label]

\* A search that belongs to a list calls update_list_progress first.
Progress(p, label) ==
  IF ListOf[task[p].job] = NoList THEN Goto(p, label)
  ELSE [task[p] EXCEPT !.pc = "count", !.then = label]

\* execute_search_and_download returned an error other than "no results"
OnError(t) == IF task[t].seen = 0 THEN "retry" ELSE "giveUp"

(* start_worker: claim a row with the permit in hand, then spawn its task *)
Claim(t, e) ==
  /\ At(t, "idle")
  /\ ClaimSearch(e)
  /\ Set(t, [Idle EXCEPT !.pc = "verify", !.job = e, !.seen = retryCount[e]])
  /\ UNCHANGED <<retryCount, itemStatus, itemPath, listed, listStatus, history,
                 cached, netVars, boundVars>>

(* process_queued_search: go on only if the row is still "processing" *)
Verify(t) ==
  /\ At(t, "verify")
  /\ Set(t, Goto(t, IF rowStatus[task[t].job] = "processing" THEN "dedup"
                     ELSE "idle"))
  /\ UNCHANGED <<dbVars, cached, netVars, boundVars>>

-----------------------------------------------------------------------------
(* execute_search_and_download *)

\* The fuzzy matcher may find any completed item, or none.
Dedup(t) ==
  /\ At(t, "dedup")
  /\ \/ Set(t, Goto(t, "pick"))
     \/ \E i \in Items :
          /\ itemStatus[i] = "completed"
          /\ Set(t, [task[t] EXCEPT !.pc = "reuse", !.item = i])
  /\ UNCHANGED <<dbVars, cached, netVars, boundVars>>

\* Faulty: pops without looking whether an alternative is left.
PickUnchecked(t) ==
  /\ At(t, "pick")
  /\ cached' = [cached EXCEPT ![task[t].job] = @ - 1]
  /\ \E p \in Paths : Set(t, [task[t] EXCEPT !.pc = "lookup", !.path = p])
  /\ UNCHANGED <<dbVars, netVars, boundVars>>

\* Take the best remaining alternative; its file name may be any.
Pick(t) ==
  /\ At(t, "pick")
  /\ IF cached[task[t].job] > 0
     THEN /\ cached' = [cached EXCEPT ![task[t].job] = @ - 1]
          /\ \E p \in Paths :
               Set(t, [task[t] EXCEPT !.pc = "lookup", !.path = p])
     ELSE /\ Set(t, Goto(t, "search"))
          /\ UNCHANGED cached
  /\ UNCHANGED <<dbVars, netVars, boundVars>>

\* client.search finds candidates (the best one's file name may be any, and
\* an empty rest is not stored), fails, or reports that there are no results,
\* which is never retried.
Search(t) ==
  /\ At(t, "search")
  /\ \/ \E p \in Paths, n \in 0..MaxAlternatives :
          /\ Set(t, [task[t] EXCEPT !.pc = "lookup", !.path = p])
          /\ cached' = IF n > 0 THEN [cached EXCEPT ![task[t].job] = n] ELSE cached
     \/ /\ \E label \in {OnError(t), "giveUp"} : Set(t, Goto(t, label))
        /\ UNCHANGED cached
  /\ UNCHANGED <<dbVars, netVars, boundVars>>

\* find_item_by_path
Lookup(t) ==
  /\ At(t, "lookup")
  /\ LET found == ItemsAt(task[t].path) IN
     \/ /\ found = {}
        /\ Set(t, Goto(t, "create"))
     \/ \E i \in found :
          Set(t, [task[t] EXCEPT
                    !.pc = IF itemStatus[i] = "completed" THEN "reuse"
                           ELSE "replace",
                    !.item = i])
  /\ UNCHANGED <<dbVars, cached, netVars, boundVars>>

\* Faulty: resets the unfinished item instead of replacing it.
ReplaceInPlace(t) ==
  /\ At(t, "replace")
  /\ UpdateItemStatus(task[t].item, "pending")
  /\ Set(t, Goto(t, "announce"))
  /\ UNCHANGED <<rowStatus, retryCount, itemPath, listed, listStatus, history,
                 cached, netVars, boundVars>>

\* remove_item_from_list and delete_item on the unfinished item at that path
Replace(t) ==
  /\ At(t, "replace")
  /\ DeleteItem(task[t].item)
  /\ Set(t, [task[t] EXCEPT !.pc = "create", !.item = NoItem])
  /\ UNCHANGED <<rowStatus, retryCount, listStatus, history, cached, netVars,
                 boundVars>>

\* create_item: fails if another task has taken the path meanwhile.
Create(t) ==
  /\ At(t, "create")
  /\ \/ /\ ItemsAt(task[t].path) # {}
        /\ Set(t, Goto(t, OnError(t)))
        /\ UNCHANGED <<itemStatus, itemPath, source>>
     \/ \E i \in Items :
          /\ CreateItem(i, task[t].path, "pending")
          /\ source' = [source EXCEPT ![i] = task[t].job]
          /\ Set(t, [task[t] EXCEPT !.pc = "announce", !.item = i])
  /\ UNCHANGED <<rowStatus, retryCount, listed, listStatus, history, cached,
                 transfer, boundVars>>

\* update_item_status(item, "downloading")
Announce(t) ==
  /\ At(t, "announce")
  /\ UpdateItemStatus(task[t].item, "downloading")
  /\ Set(t, Goto(t, IF ListOf[task[t].job] = NoList THEN "initiate" ELSE "attach"))
  /\ UNCHANGED <<rowStatus, retryCount, itemPath, listed, listStatus, history,
                 cached, netVars, boundVars>>

Attach(t) ==
  /\ At(t, "attach")
  /\ AddItemToList(ListOf[task[t].job], task[t].item, ItemExists(task[t].item))
  /\ Set(t, Goto(t, "initiate"))
  /\ UNCHANGED <<rowStatus, retryCount, itemStatus, itemPath, listStatus, history,
                 cached, netVars, boundVars>>

\* Faulty: reports a failure although the transfer has been spawned.
InitiateGivesUpEarly(t) ==
  /\ At(t, "initiate")
  /\ \E outcome \in {"receiving", "none", "err"} :
       transfer' = [transfer EXCEPT ![task[t].item] = outcome]
  /\ Set(t, Goto(t, "initFailed"))
  /\ UNCHANGED <<dbVars, cached, source, boundVars>>

\* client.initiate_download spawns the transfer, or fails before anything
\* was sent to the completion channel (no connection, no transfer request,
\* bad negotiation), or fails after it sent the failure there as well (the
\* peer denies the transfer, the F connection cannot be opened).
Initiate(t) ==
  /\ At(t, "initiate")
  /\ \E outcome \in {"receiving", "none", "err"} :
       /\ transfer' = [transfer EXCEPT ![task[t].item] = outcome]
       /\ Set(t, Goto(t, IF outcome = "receiving" THEN "link" ELSE "initFailed"))
  /\ UNCHANGED <<dbVars, cached, source, boundVars>>

\* DownloadInitResult::Failed
InitFailed(t) ==
  /\ At(t, "initFailed")
  /\ UpdateItemStatus(task[t].item, "failed")
  /\ Set(t, Goto(t, OnError(t)))
  /\ UNCHANGED <<rowStatus, retryCount, itemPath, listed, listStatus, history,
                 cached, netVars, boundVars>>

-----------------------------------------------------------------------------
(* process_queued_search, continued: what is done with the result *)

\* Ok, item "downloading": link the row to the item and leave it to the monitor.
Link(t) ==
  /\ At(t, "link")
  /\ MarkSearchCompleted(task[t].job, task[t].item)
  /\ Set(t, Idle)
  /\ UNCHANGED <<retryCount, itemStatus, itemPath, listed, listStatus, history,
                 cached, netVars, boundVars>>

\* Ok, item "completed": the search is done.
Reuse(t) ==
  /\ At(t, "reuse")
  /\ MarkSearchCompleted(task[t].job, task[t].item)
  /\ Set(t, Goto(t, IF ListOf[task[t].job] = NoList THEN "purge" ELSE "reuseAttach"))
  /\ UNCHANGED <<retryCount, itemStatus, itemPath, listed, listStatus, history,
                 cached, netVars, boundVars>>

ReuseAttach(t) ==
  /\ At(t, "reuseAttach")
  /\ AddItemToList(ListOf[task[t].job], task[t].item, ItemExists(task[t].item))
  /\ Set(t, Progress(t, "purge"))
  /\ UNCHANGED <<rowStatus, retryCount, itemStatus, itemPath, listStatus, history,
                 cached, netVars, boundVars>>

\* delete_completed_search, then the history line (which needs the item's row)
Purge(t) ==
  /\ At(t, "purge")
  /\ DeleteSearch(task[t].job, {"completed"})
  /\ IF ItemExists(task[t].item) THEN Record(task[t].job, "completed")
     ELSE UNCHANGED history
  /\ Set(t, Idle)
  /\ UNCHANGED <<retryCount, itemStatus, itemPath, listed, listStatus,
                 cached, netVars, boundVars>>

\* Err on the first attempt
Retry(t) ==
  /\ At(t, "retry")
  /\ MarkSearchForRetry(task[t].job)
  /\ Set(t, Progress(t, "idle"))
  /\ UNCHANGED <<itemStatus, itemPath, listed, listStatus, history,
                 cached, netVars, boundVars>>

\* Err on a later attempt, or no results: the search is given up.
GiveUp(t) ==
  /\ At(t, "giveUp")
  /\ DeleteSearch(task[t].job, RowPresent)
  /\ Record(task[t].job, "failed")
  /\ Set(t, Goto(t, IF ListOf[task[t].job] = NoList THEN "idle" ELSE "placeholder"))
  /\ UNCHANGED <<retryCount, itemStatus, itemPath, listed, listStatus,
                 cached, netVars, boundVars>>

\* A list keeps a failed item in place of the search, under a path of its own.
Placeholder(t) ==
  /\ At(t, "placeholder")
  /\ \/ /\ ItemsAt(task[t].job) # {}
        /\ Set(t, Progress(t, "idle"))
        /\ UNCHANGED <<itemStatus, itemPath>>
     \/ \E i \in Items :
          /\ CreateItem(i, task[t].job, "pending")
          /\ Set(t, [task[t] EXCEPT !.pc = "markFailed", !.item = i])
  /\ UNCHANGED <<rowStatus, retryCount, listed, listStatus, history,
                 cached, netVars, boundVars>>

MarkFailed(t) ==
  /\ At(t, "markFailed")
  /\ UpdateItemStatus(task[t].item, "failed")
  /\ Set(t, Goto(t, "attachFailed"))
  /\ UNCHANGED <<rowStatus, retryCount, itemPath, listed, listStatus, history,
                 cached, netVars, boundVars>>

AttachFailed(t) ==
  /\ At(t, "attachFailed")
  /\ AddItemToList(ListOf[task[t].job], task[t].item, ItemExists(task[t].item))
  /\ Set(t, Progress(t, "idle"))
  /\ UNCHANGED <<rowStatus, retryCount, itemStatus, itemPath, listStatus, history,
                 cached, netVars, boundVars>>

-----------------------------------------------------------------------------
(* update_list_progress: two counts and a write, each a statement of its own *)

ListStatusFor(tally, waiting) ==
  IF "unresolved" \in tally \/ waiting THEN "downloading"
  ELSE IF tally = {} THEN "pending"
  ELSE IF "failed" \notin tally THEN "completed"
  ELSE IF "completed" \notin tally THEN "failed"
  ELSE "partial"

Count(p) ==
  /\ At(p, "count")
  /\ LET l == ListOf[task[p].job] IN
       Set(p, IF ListExists(l)
              THEN [task[p] EXCEPT !.pc = "countPending",
                                   !.tally = Tally(l, itemStatus)]
              ELSE Goto(p, task[p].then))
  /\ UNCHANGED <<dbVars, cached, netVars, boundVars>>

CountPending(p) ==
  /\ At(p, "countPending")
  /\ LET waiting == HasPendingSearches(ListOf[task[p].job], rowStatus) IN
       Set(p, [task[p] EXCEPT !.pc = "write", !.tally = {},
                    !.verdict = ListStatusFor(task[p].tally, waiting)])
  /\ UNCHANGED <<dbVars, cached, netVars, boundVars>>

WriteProgress(p) ==
  /\ At(p, "write")
  /\ UpdateListStatus(ListOf[task[p].job], task[p].verdict)
  /\ Set(p, IF task[p].then = "idle" THEN Idle
            ELSE [task[p] EXCEPT !.pc = task[p].then, !.verdict = "absent",
                                 !.then = "idle"])
  /\ UNCHANGED <<rowStatus, retryCount, itemStatus, itemPath, listed, history,
                 cached, netVars, boundVars>>

-----------------------------------------------------------------------------
(* The transfer monitor and the transfers *)

\* The peer sends the file, or the transfer breaks.
TransferDone(i) ==
  /\ transfer[i] = "receiving"
  /\ \E outcome \in {"ok", "err"} :
       transfer' = [transfer EXCEPT ![i] = outcome]
  /\ UNCHANGED <<dbVars, task, cached, source, boundVars>>

\* handle_transfer_completion reads the row first and uses that snapshot
\* throughout; a row it does not find counts as one that was retried.
Receive(i) ==
  /\ At(Monitor, "idle")
  /\ transfer[i] \in {"ok", "err"}
  /\ transfer' = [transfer EXCEPT ![i] = "taken"]
  /\ LET e == source[i] IN
       Set(Monitor, [Idle EXCEPT
                       !.pc    = IF transfer[i] = "ok" THEN "succeed" ELSE "fail",
                       !.job   = e,
                       !.item  = i,
                       !.known = RowExists(e),
                       !.seen  = IF RowExists(e) THEN retryCount[e] ELSE 1])
  /\ UNCHANGED <<dbVars, cached, source, boundVars>>

Succeed ==
  /\ At(Monitor, "succeed")
  /\ UpdateItemStatus(task[Monitor].item, "completed")
  /\ Set(Monitor, Goto(Monitor, "drop"))
  /\ UNCHANGED <<rowStatus, retryCount, itemPath, listed, listStatus, history,
                 cached, netVars, boundVars>>

\* delete_search, forget the alternatives, write the history
Drop ==
  /\ At(Monitor, "drop")
  /\ DeleteSearch(task[Monitor].job, RowPresent)
  /\ cached' = [cached EXCEPT ![task[Monitor].job] = 0]
  /\ IF task[Monitor].known /\ ItemExists(task[Monitor].item)
     THEN Record(task[Monitor].job, "completed")
     ELSE UNCHANGED history
  /\ Set(Monitor, Progress(Monitor, "idle"))
  /\ UNCHANGED <<retryCount, itemStatus, itemPath, listed, listStatus,
                 netVars, boundVars>>

\* Faulty: leaves the status of the item to a later retry.
FailKeepsItem ==
  /\ At(Monitor, "fail")
  /\ Set(Monitor, Progress(Monitor, "settle"))
  /\ UNCHANGED <<dbVars, cached, netVars, boundVars>>

Fail ==
  /\ At(Monitor, "fail")
  /\ UpdateItemStatus(task[Monitor].item, "failed")
  /\ Set(Monitor, Progress(Monitor, "settle"))
  /\ UNCHANGED <<rowStatus, retryCount, itemPath, listed, listStatus, history,
                 cached, netVars, boundVars>>

\* Retry after a first failure or while alternatives are left, else give up.
Settle ==
  /\ At(Monitor, "settle")
  /\ LET e == task[Monitor].job
         again == task[Monitor].seen = 0 \/ cached[e] > 0 IN
     \/ /\ again
        /\ MarkSearchForRetry(e)
        /\ UNCHANGED <<cached, history>>
     \/ /\ ~again
        /\ DeleteSearch(e, RowPresent)
        /\ cached' = [cached EXCEPT ![e] = 0]
        /\ IF task[Monitor].known /\ ItemExists(task[Monitor].item)
           THEN Record(e, "failed") ELSE UNCHANGED history
        /\ UNCHANGED retryCount
  /\ Set(Monitor, Idle)
  /\ UNCHANGED <<itemStatus, itemPath, listed, listStatus, netVars, boundVars>>

-----------------------------------------------------------------------------
(* Requests of the user *)

\* enqueue_list creates the list, then inserts its rows one by one.
CreateList(l) ==
  /\ listStatus[l] = "absent"
  /\ listStatus' = [listStatus EXCEPT ![l] = "pending"]
  /\ UNCHANGED <<rowStatus, retryCount, itemStatus, itemPath, listed, history,
                 task, cached, netVars, boundVars>>

EnqueueSearch(e) ==
  /\ InsertSearch(e)
  /\ UNCHANGED <<retryCount, itemStatus, itemPath, listed, listStatus, history,
                 task, cached, netVars, boundVars>>

CountDelete ==
  /\ deletes < MaxDeletes
  /\ deletes' = deletes + 1
  /\ UNCHANGED <<retryCount, history, task, cached, netVars, crashes>>

CancelSearch(e) ==
  /\ rowStatus[e] = "pending"
  /\ DeleteSearch(e, {"pending"})
  /\ CountDelete
  /\ UNCHANGED <<itemStatus, itemPath, listed, listStatus>>

RequestDeleteList(l) ==
  /\ DeleteList(l)
  /\ CountDelete
  /\ UNCHANGED <<itemStatus, itemPath>>

RequestDeleteItem(i) ==
  /\ ItemExists(i)
  /\ DeleteItem(i)
  /\ CountDelete
  /\ UNCHANGED <<rowStatus, listStatus>>

RemoveItemFromList(l, i) ==
  /\ <<l, i>> \in listed
  /\ listed' = listed \ {<<l, i>>}
  /\ CountDelete
  /\ UNCHANGED <<rowStatus, itemStatus, itemPath, listStatus>>

-----------------------------------------------------------------------------
(* A crash, and the recovery of the next start: recover_on_startup and       *)
(* recalculate_downloading_lists.  The process loses its tasks, transfers    *)
(* and cached alternatives; an enqueue_list request it was serving inserts   *)
(* no more rows.                                                             *)

\* Faulty: recover_processing_searches is not run.
RowsNotRecovered == rowStatus

RecoveredRows ==
  [e \in Entries |->
     IF rowStatus[e] = "processing" THEN "pending"
     ELSE IF rowStatus[e] = "absent" /\ ListOf[e] # NoList /\ ListExists(ListOf[e])
     THEN "deleted" ELSE rowStatus[e]]

\* Faulty: mark_interrupted_downloads is not run.
ItemsNotRecovered == itemStatus

RecoveredItems ==
  [i \in Items |-> IF itemStatus[i] = "downloading" THEN "failed" ELSE itemStatus[i]]

\* Faulty: the lists are recalculated before the items are marked.
ListsRecalculatedFirst ==
  [l \in Lists |->
     IF listStatus[l] = "downloading"
     THEN ListStatusFor(Tally(l, itemStatus), HasPendingSearches(l, RecoveredRows))
     ELSE listStatus[l]]

RecoveredLists ==
  [l \in Lists |->
     IF listStatus[l] = "downloading"
     THEN ListStatusFor(Tally(l, RecoveredItems),
                        HasPendingSearches(l, RecoveredRows))
     ELSE listStatus[l]]

Restart ==
  /\ crashes < MaxCrashes
  /\ crashes' = crashes + 1
  /\ rowStatus' = RecoveredRows
  /\ itemStatus' = RecoveredItems
  /\ listStatus' = RecoveredLists
  /\ task'     = [p \in Procs |-> Idle]
  /\ cached'   = [e \in Entries |-> 0]
  /\ transfer' = [i \in Items |-> IF transfer[i] \in {"receiving", "ok", "err"}
                                  THEN "none" ELSE transfer[i]]
  /\ UNCHANGED <<retryCount, itemPath, listed, history, source, deletes>>

-----------------------------------------------------------------------------
UpdateListProgress(p) == Count(p) \/ CountPending(p) \/ WriteProgress(p)

TaskStep(t) ==
  \/ Verify(t) \/ Dedup(t) \/ Pick(t) \/ Search(t) \/ Lookup(t) \/ Replace(t)
  \/ Create(t) \/ Announce(t) \/ Attach(t) \/ Initiate(t) \/ InitFailed(t)
  \/ Link(t) \/ Reuse(t) \/ ReuseAttach(t) \/ Purge(t) \/ Retry(t) \/ GiveUp(t)
  \/ Placeholder(t) \/ MarkFailed(t) \/ AttachFailed(t)
  \/ UpdateListProgress(t)

ClaimNext == \E t \in Slots, e \in Entries : Claim(t, e)

MonitorStep ==
  \/ \E i \in Items : Receive(i)
  \/ Succeed \/ Drop \/ Fail \/ Settle
  \/ UpdateListProgress(Monitor)

Request ==
  \/ \E l \in Lists : CreateList(l) \/ RequestDeleteList(l)
  \/ \E e \in Entries : EnqueueSearch(e) \/ CancelSearch(e)
  \/ \E i \in Items : RequestDeleteItem(i)
  \/ \E l \in Lists, i \in Items : RemoveItemFromList(l, i)

Next ==
  \/ ClaimNext
  \/ \E t \in Slots : TaskStep(t)
  \/ MonitorStep
  \/ \E i \in Items : TransferDone(i)
  \/ Request
  \/ Restart

(* The runtime schedules every task that can go on: the worker loop, each   *)
(* spawned search, the monitor, and each transfer, which gives up when the  *)
(* peer is silent for 30 seconds.  A call of the client ends by a timeout   *)
(* at the latest; a peer that falls silent in the middle of a message of a  *)
(* P connection is not covered, for wait_for_transfer_request limits only   *)
(* the wait for the length prefix.  Users and crashes owe nothing.          *)
Fairness ==
  /\ WF_vars(ClaimNext)
  /\ \A t \in Slots : WF_vars(TaskStep(t))
  /\ WF_vars(MonitorStep)
  /\ \A i \in Items : WF_vars(TransferDone(i))

Spec     == Init /\ [][Next]_vars
FairSpec == Spec /\ Fairness

-----------------------------------------------------------------------------
(* Properties *)

Outstanding(i) == transfer[i] \in {"receiving", "ok", "err"}

\* Nothing runs and nothing is about to arrive.
Quiet == /\ \A p \in Procs : At(p, "idle")
         /\ \A i \in Items : ~Outstanding(i)

\* An item in status "downloading" always has someone who will still write its
\* outcome: the task that announced it, its transfer, or the monitor; also
\* when items are replaced or deleted and the server restarts.
DownloadingHasOwner ==
  \A i \in Items : itemStatus[i] = "downloading" =>
    \/ Outstanding(i)
    \/ \E t \in Slots : /\ task[t].item = i
                        /\ task[t].pc \in {"attach", "initiate", "initFailed"}
    \/ task[Monitor].item = i /\ task[Monitor].pc \in {"succeed", "fail"}

\* A row in status "pending" has no task, no transfer and no completion being
\* handled, so cancel_pending_search, which tests only the status, never pulls
\* the row away under a running search.
PendingIsIdle ==
  \A e \in Entries : rowStatus[e] = "pending" =>
    /\ \A p \in Procs : task[p].job # e
    /\ \A i \in Items : source[i] = e => ~Outstanding(i)

\* While a transfer still delivers a file, its item says "downloading" (or the
\* user deleted it, or a later attempt replaced it): a failure that the worker
\* reports is never about a file that is still coming.
LiveTransferHasItem ==
  \A i \in Items : transfer[i] \in {"receiving", "ok"} =>
    itemStatus[i] \in {"downloading", "deleted"}

\* After the recovery of a restart a list is "downloading" only if a search of
\* it waits in the queue: it never waits for a transfer that no longer exists.
RestartReleasesLists ==
  [][crashes' # crashes => \A l \in Lists : listStatus'[l] = "downloading" =>
       \E e \in Entries : ListOf[e] = l /\ rowStatus'[e] \in Waiting]_vars

\* Worker, monitor and recovery, which all write items.download_status without
\* looking at it, together keep the life cycle of an item.
Lifecycle == INSTANCE ItemLifecycle WITH stage <- itemStatus
ImplementsLifecycle == Lifecycle!Spec

\* Every announced download gets an outcome (or its item is deleted).
DownloadsResolve ==
  \A i \in Items : itemStatus[i] = "downloading" ~> itemStatus[i] # "downloading"

\* Nobody has used up the bound on items, and no task is about to replace an
\* item that has completed since it looked it up.
Undisturbed ==
  /\ itemStatus[MaxItems] = "none"
  /\ \A t \in Slots : At(t, "replace") => itemStatus[task[t].item] # "completed"

\* Every search leaves the states in which it waits or is processed, also
\* after a restart, as long as the two disturbances above stay away: the first
\* is the bound of the model, the second is what ProcessingHasTask is about.
QueueDrains ==
  []Undisturbed => <>[](\A e \in Entries : rowStatus[e] \notin InQueue)

-----------------------------------------------------------------------------
(* What the comments of the code claim and the code does not keep *)

\* A search that was put back for its retry is attempted once more before it is
\* given up; only the user may take it out of the queue before that.
RetryIsAttempted ==
  [][\A e \in Entries : rowStatus[e] = "retry" /\ rowStatus'[e] = "deleted" =>
       deletes' # deletes]_vars

\* The monitor deletes every row the worker has linked to a download: without
\* a restart none is left when nothing runs any more.
LinkedRowsReleased ==
  Quiet /\ crashes = 0 => \A e \in Entries : rowStatus[e] # "completed"

\* A search that ends with an item that is already there is marked completed
\* and leaves the queue: unless the user deletes something, no row stays in
\* status "processing" without a task, a completion or a transfer of its own.
ProcessingHasTask ==
  deletes = 0 => \A e \in Entries : rowStatus[e] = "processing" =>
    \/ \E p \in Procs : task[p].job = e
    \/ \E i \in Items : source[i] = e /\ Outstanding(i)
=============================================================================
