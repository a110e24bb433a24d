------------------------------ MODULE Database ------------------------------
(***************************************************************************)
(* The SQLite tables the queue works on, and one operator per statement    *)
(* of src/src/db/mod.rs that the queue, the transfer monitor and the API   *)
(* issue.  Every statement commits on its own, so every operator is one    *)
(* atomic change; what interleaves is the statements of different tasks.   *)
(* sqlx opens SQLite with foreign keys enforced: deleting a list cascades  *)
(* to its queue rows and list entries, deleting an item cascades to its    *)
(* list entries, and a statement that names a missing item or list fails.  *)
(***************************************************************************)
EXTENDS Naturals

CONSTANTS
  Entries,    \* ids of search_queue rows (AUTOINCREMENT: never reused)
  Lists,      \* ids of lists
  NoList,     \* list_id NULL: a standalone search
  ListOf,     \* the list_id each row is inserted with
  MaxItems,   \* bound: how many item rows are ever created
  Paths,      \* file_path values of downloaded files
  NoPath      \* file_path of no row

Items == 1..MaxItems

ASSUME ListOfAssumption == ListOf \in [Entries -> Lists \cup {NoList}]
ASSUME NoListAssumption == NoList \notin Lists
ASSUME MaxItemsAssumption == MaxItems \in Nat
ASSUME PathAssumption == /\ NoPath \notin Paths \cup Entries
                         /\ Paths \cap Entries = {}

VARIABLES
  rowStatus,   \* search_queue.status; "absent" before INSERT, "deleted" after
  retryCount,  \* search_queue.retry_count
  itemStatus,  \* items.download_status; "none" before INSERT
  itemPath,    \* items.file_path (an entry e stands for __failed_placeholder_e)
  listed,      \* list_items: pairs <<list, item>>
  listStatus,  \* lists.status
  history      \* search_history: the outcomes recorded for each search

dbVars == <<rowStatus, retryCount, itemStatus, itemPath, listed, listStatus,
            history>>

Waiting    == {"pending", "retry"}            \* what the worker may claim
InQueue    == {"pending", "processing", "retry"}
RowPresent == {"pending", "processing", "retry", "completed"}
ItemStatus == {"none", "pending", "downloading", "completed", "failed",
               "deleted"}
ListStatus == {"absent", "pending", "downloading", "completed", "failed",
               "partial", "deleted"}

RowExists(e)  == rowStatus[e] \in RowPresent
ItemExists(i) == i \in Items /\ itemStatus[i] \notin {"none", "deleted"}
ListExists(l) == l \in Lists /\ listStatus[l] \notin {"absent", "deleted"}

DatabaseTypeOK ==
  /\ rowStatus  \in [Entries -> RowPresent \cup {"absent", "deleted"}]
  /\ retryCount \in [Entries -> Nat]
  /\ itemStatus \in [Items -> ItemStatus]
  /\ itemPath   \in [Items -> Paths \cup Entries \cup {NoPath}]
  /\ listed     \in SUBSET (Lists \X Items)
  /\ listStatus \in [Lists -> ListStatus]
  /\ history    \in [Entries -> SUBSET {"completed", "failed"}]

DatabaseInit ==
  /\ rowStatus  = [e \in Entries |-> "absent"]
  /\ retryCount = [e \in Entries |-> 0]
  /\ itemStatus = [i \in Items |-> "none"]
  /\ itemPath   = [i \in Items |-> NoPath]
  /\ listed     = {}
  /\ listStatus = [l \in Lists |-> "absent"]
  /\ history    = [e \in Entries |-> {}]

-----------------------------------------------------------------------------
(* search_queue *)

\* enqueue_search: the row's list_id must name an existing list.
InsertSearch(e) ==
  /\ rowStatus[e] = "absent"
  /\ ListOf[e] # NoList => ListExists(ListOf[e])
  /\ rowStatus' = [rowStatus EXCEPT ![e] = "pending"]

\* claim_next_pending_search: SELECT and UPDATE in one transaction.  Which of
\* the waiting rows comes first (created_at, one-second resolution) is left open.
ClaimSearch(e) ==
  /\ rowStatus[e] \in Waiting
  /\ rowStatus' = [rowStatus EXCEPT ![e] = "processing"]

\* mark_search_completed: unconditional on the status; fails when the item
\* named in item_id no longer exists.
MarkSearchCompleted(e, i) ==
  rowStatus' = IF RowExists(e) /\ ItemExists(i)
               THEN [rowStatus EXCEPT ![e] = "completed"] ELSE rowStatus

\* Faulty: puts the row back to "pending", where it may be cancelled.
MarkSearchPending(e) ==
  IF RowExists(e)
  THEN /\ rowStatus'  = [rowStatus EXCEPT ![e] = "pending"]
       /\ retryCount' = [retryCount EXCEPT ![e] = @ + 1]
  ELSE UNCHANGED <<rowStatus, retryCount>>

\* mark_search_for_retry: unconditional on the status.
MarkSearchForRetry(e) ==
  IF RowExists(e)
  THEN /\ rowStatus'  = [rowStatus EXCEPT ![e] = "retry"]
       /\ retryCount' = [retryCount EXCEPT ![e] = @ + 1]
  ELSE UNCHANGED <<rowStatus, retryCount>>

\* delete_search, delete_completed_search and cancel_pending_search differ in
\* the statuses they require.
DeleteSearch(e, allowed) ==
  rowStatus' = IF rowStatus[e] \in allowed
               THEN [rowStatus EXCEPT ![e] = "deleted"] ELSE rowStatus

\* count_pending_searches_for_list > 0
HasPendingSearches(l, rows) ==
  \E e \in Entries : ListOf[e] = l /\ rows[e] \in InQueue

-----------------------------------------------------------------------------
(* items, list_items, lists, search_history *)

\* The row id an INSERT gets.
NextItem(i) ==
  /\ i \in Items
  /\ itemStatus[i] = "none"
  /\ \A j \in Items : j < i => itemStatus[j] # "none"

\* find_item_by_path
ItemsAt(p) == {i \in Items : ItemExists(i) /\ itemPath[i] = p}

\* create_item: file_path is UNIQUE.
CreateItem(i, p, status) ==
  /\ ItemsAt(p) = {}
  /\ NextItem(i)
  /\ itemStatus' = [itemStatus EXCEPT ![i] = status]
  /\ itemPath'   = [itemPath EXCEPT ![i] = p]

UpdateItemStatus(i, status) ==
  itemStatus' = IF ItemExists(i) THEN [itemStatus EXCEPT ![i] = status]
                ELSE itemStatus

DeleteItem(i) ==
  /\ itemStatus' = IF ItemExists(i) THEN [itemStatus EXCEPT ![i] = "deleted"]
                   ELSE itemStatus
  /\ itemPath'   = IF ItemExists(i) THEN [itemPath EXCEPT ![i] = NoPath]
                   ELSE itemPath
  /\ listed'     = {pair \in listed : pair[2] # i}

\* add_item_to_list, with exists saying that the item's row is there
AddItemToList(l, i, exists) ==
  listed' = IF ListExists(l) /\ exists THEN listed \cup {<<l, i>>} ELSE listed

\* count_list_items_by_status, as the set of the outcomes that occur
Tally(l, items) ==
  {IF items[i] \in {"completed", "failed"} THEN items[i] ELSE "unresolved" :
     i \in {j \in Items : <<l, j>> \in listed}}

UpdateListStatus(l, status) ==
  listStatus' = IF ListExists(l) THEN [listStatus EXCEPT ![l] = status]
                ELSE listStatus

\* delete_list: the cascades take the list's rows and entries with it.
DeleteList(l) ==
  /\ ListExists(l)
  /\ listStatus' = [listStatus EXCEPT ![l] = "deleted"]
  /\ listed'     = {pair \in listed : pair[1] # l}
  /\ rowStatus'  = [e \in Entries |->
                      IF ListOf[e] = l /\ RowExists(e) THEN "deleted"
                      ELSE rowStatus[e]]

\* insert_search_history
Record(e, outcome) ==
  history' = [history EXCEPT ![e] = @ \cup {outcome}]
=============================================================================
