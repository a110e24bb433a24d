------------------------- MODULE QueueServiceProofs -------------------------
(***************************************************************************)
(* Proofs about QueueService for every number of searches, lists, items,   *)
(* tasks, alternatives, restarts and requests.                             *)
(***************************************************************************)
EXTENDS QueueService, TLAPS

(* What the types rest on: a busy task works for a search, and every item  *)
(* on the way to a transfer was created for one.                           *)
Announcing == {"announce", "attach", "initiate"}

HasJob == \A p \in Procs : task[p].pc # "idle" => task[p].job \in Entries

Sourced ==
  /\ \A p \in Procs : task[p].pc \in Announcing =>
       task[p].item \in Items /\ source[task[p].item] \in Entries
  /\ \A i \in Items : Outstanding(i) => source[i] \in Entries

TypeInv == TypeOK /\ HasJob /\ Sourced

LEMMA IdleType == Idle \in Task
<1>1. NoItem \in Items \cup {NoItem}
  OBVIOUS
<1> QED
  BY DEF Idle, Task, Labels, ListStatus

LEMMA GotoType ==
  ASSUME TypeOK, NEW p \in Procs, NEW label \in Labels
  PROVE  Goto(p, label) \in Task
BY IdleType DEF TypeOK, Goto, Task

LEMMA ProgressType ==
  ASSUME TypeOK, NEW p \in Procs, NEW label \in {"idle", "purge", "settle"}
  PROVE  Progress(p, label) \in Task
<1>1. label \in Labels
  BY DEF Labels
<1>2. "count" \in Labels
  BY DEF Labels
<1>3. Goto(p, label) \in Task
  BY <1>1, GotoType
<1>4. task[p] \in Task
  BY DEF TypeOK
<1>5. [task[p] EXCEPT !.pc = "count", !.then = label] \in Task
  BY <1>2, <1>4 DEF Task
<1> QED
  BY <1>3, <1>5 DEF Progress

LEMMA InitType == Init => TypeInv
<1> SUFFICES ASSUME Init PROVE TypeInv
  OBVIOUS
<1>1. DatabaseTypeOK
  BY DEF Init, DatabaseInit, DatabaseTypeOK, RowPresent, ItemStatus, ListStatus
<1>2. task \in [Procs -> Task]
  BY IdleType DEF Init
<1>3. TypeOK
  BY <1>1, <1>2 DEF Init, TypeOK
<1>4. HasJob /\ Sourced
  BY DEF Init, HasJob, Sourced, Idle, Outstanding, Announcing
<1> QED
  BY <1>3, <1>4 DEF TypeInv

-----------------------------------------------------------------------------
(* One step of one task *)

LEMMA SetType ==
  ASSUME TypeOK, NEW p \in Procs, NEW r \in Task, Set(p, r)
  PROVE  /\ task' \in [Procs -> Task]
         /\ task'[p] = r
         /\ \A q \in Procs : q # p => task'[q] = task[q]
BY DEF TypeOK, Set

\* A step that leaves the transfers alone: what the new local state must
\* satisfy for the types of everybody's jobs and items to stand.
LEMMA LocalStep ==
  ASSUME TypeInv, NEW p \in Procs, NEW r \in Task, Set(p, r), UNCHANGED netVars,
         r.pc # "idle" => r.job \in Entries,
         r.pc \in Announcing => r.item \in Items /\ source[r.item] \in Entries
  PROVE  task' \in [Procs -> Task] /\ HasJob' /\ Sourced'
<1>1. /\ task' \in [Procs -> Task]
      /\ task'[p] = r
      /\ \A q \in Procs : q # p => task'[q] = task[q]
  BY SetType DEF TypeInv
<1>2. HasJob'
  BY <1>1 DEF TypeInv, HasJob
<1>3. Sourced'
  BY <1>1 DEF TypeInv, Sourced, netVars, Outstanding
<1> QED
  BY <1>1, <1>2, <1>3

\* Going on to another label with the same job and item, or becoming idle.
LEMMA GotoStep ==
  ASSUME TypeInv, NEW p \in Procs, NEW label \in Labels,
         task[p].pc # "idle", Set(p, Goto(p, label)), UNCHANGED netVars,
         label \in Announcing => task[p].pc \in Announcing
  PROVE  task' \in [Procs -> Task] /\ HasJob' /\ Sourced'
<1> DEFINE r == Goto(p, label)
<1>1. r \in Task
  BY GotoType DEF TypeInv
<1>2. task[p] \in Task
  BY DEF TypeInv, TypeOK
<1>3. r = Idle \/ (r.pc = label /\ r.job = task[p].job /\ r.item = task[p].item)
  BY <1>2 DEF Goto, Task
<1>4. Idle.pc = "idle"
  BY DEF Idle
<1>5. r.pc # "idle" => r.job \in Entries
  BY <1>3, <1>4 DEF TypeInv, HasJob
<1>6. r.pc \in Announcing => r.item \in Items /\ source[r.item] \in Entries
  BY <1>3, <1>4 DEF TypeInv, Sourced, Announcing
<1> HIDE DEF r
<1>7. Set(p, r)
  BY DEF r
<1> QED
  BY <1>1, <1>5, <1>6, <1>7, LocalStep

LEMMA ProgressStep ==
  ASSUME TypeInv, NEW p \in Procs, NEW label \in {"idle", "purge", "settle"},
         task[p].pc # "idle", Set(p, Progress(p, label)), UNCHANGED netVars
  PROVE  task' \in [Procs -> Task] /\ HasJob' /\ Sourced'
<1> DEFINE r == Progress(p, label)
<1>1. r \in Task
  BY ProgressType DEF TypeInv
<1>2. task[p] \in Task
  BY DEF TypeInv, TypeOK
<1>3. CASE ListOf[task[p].job] = NoList
  <2>1. Set(p, Goto(p, label))
    BY <1>3 DEF Progress
  <2>2. label \in Labels /\ label \notin Announcing
    BY DEF Labels, Announcing
  <2> QED
    BY <2>1, <2>2, GotoStep
<1>4. CASE ListOf[task[p].job] # NoList
  <2>1. r.pc = "count" /\ r.job = task[p].job
    BY <1>2, <1>4 DEF Progress, Task
  <2>2. r.job \in Entries
    BY <2>1 DEF TypeInv, HasJob
  <2>3. r.pc \notin Announcing
    BY <2>1 DEF Announcing
  <2> HIDE DEF r
  <2>4. Set(p, r)
    BY DEF r
  <2> QED
    BY <1>1, <2>2, <2>3, <2>4, LocalStep
<1> QED
  BY <1>3, <1>4

\* A task that ends keeps nothing.
LEMMA IdleStep ==
  ASSUME TypeInv, NEW p \in Procs, Set(p, Idle), UNCHANGED netVars
  PROVE  task' \in [Procs -> Task] /\ HasJob' /\ Sourced'
<1>1. Idle.pc = "idle" /\ Idle.pc \notin Announcing
  BY DEF Idle, Announcing
<1> QED
  BY <1>1, IdleType, LocalStep
-----------------------------------------------------------------------------
(* Every step keeps the types *)

LEMMA RecordType ==
  ASSUME DatabaseTypeOK, NEW e, NEW outcome \in {"completed", "failed"},
         Record(e, outcome)
  PROVE  history' \in [Entries -> SUBSET {"completed", "failed"}]
BY DEF DatabaseTypeOK, Record

LEMMA CreateItemType ==
  ASSUME DatabaseTypeOK, NEW i \in Items, NEW p \in Paths \cup Entries \cup {NoPath},
         CreateItem(i, p, "pending")
  PROVE  /\ itemStatus' \in [Items -> ItemStatus]
         /\ itemPath' \in [Items -> Paths \cup Entries \cup {NoPath}]
BY DEF DatabaseTypeOK, CreateItem, ItemStatus


LEMMA DatabaseTypeStep ==
  ASSUME TypeInv, [Next]_vars
  PROVE  DatabaseTypeOK'
<1> USE DEF TypeInv, TypeOK, DatabaseTypeOK
<1>1. ASSUME NEW t \in Slots, NEW e \in Entries, Claim(t, e) PROVE DatabaseTypeOK'
  BY <1>1 DEF Claim, ClaimSearch, Waiting, RowPresent
<1>2. ASSUME NEW t \in Slots, Verify(t) PROVE DatabaseTypeOK'
  BY <1>2 DEF Verify, dbVars
<1>3. ASSUME NEW t \in Slots, Dedup(t) PROVE DatabaseTypeOK'
  BY <1>3 DEF Dedup, dbVars
<1>4. ASSUME NEW t \in Slots, Pick(t) PROVE DatabaseTypeOK'
  BY <1>4 DEF Pick, dbVars
<1>5. ASSUME NEW t \in Slots, Search(t) PROVE DatabaseTypeOK'
  BY <1>5 DEF Search, dbVars
<1>6. ASSUME NEW t \in Slots, Lookup(t) PROVE DatabaseTypeOK'
  BY <1>6 DEF Lookup, dbVars
<1>7. ASSUME NEW t \in Slots, Replace(t) PROVE DatabaseTypeOK'
  BY <1>7 DEF Replace, DeleteItem, ItemStatus
<1>8. ASSUME NEW t \in Slots, Create(t) PROVE DatabaseTypeOK'
  <2>1. task[t].path \in Paths \cup Entries \cup {NoPath}
    BY <1>8 DEF Create, At, Task, Procs
  <2>2. /\ itemStatus' \in [Items -> ItemStatus]
        /\ itemPath' \in [Items -> Paths \cup Entries \cup {NoPath}]
    BY <2>1, <1>8, CreateItemType DEF Create
  <2> QED
    BY <2>2, <1>8 DEF Create
<1>9. ASSUME NEW t \in Slots, Announce(t) PROVE DatabaseTypeOK'
  BY <1>9 DEF Announce, UpdateItemStatus, ItemStatus
<1>10. ASSUME NEW t \in Slots, Attach(t) PROVE DatabaseTypeOK'
  BY <1>10 DEF Attach, AddItemToList, ListExists, ItemExists
<1>11. ASSUME NEW t \in Slots, Initiate(t) PROVE DatabaseTypeOK'
  BY <1>11 DEF Initiate, dbVars
<1>12. ASSUME NEW t \in Slots, InitFailed(t) PROVE DatabaseTypeOK'
  BY <1>12 DEF InitFailed, UpdateItemStatus, ItemStatus
<1>13. ASSUME NEW t \in Slots, Link(t) PROVE DatabaseTypeOK'
  BY <1>13 DEF Link, MarkSearchCompleted, RowPresent
<1>14. ASSUME NEW t \in Slots, Reuse(t) PROVE DatabaseTypeOK'
  BY <1>14 DEF Reuse, MarkSearchCompleted, RowPresent
<1>15. ASSUME NEW t \in Slots, ReuseAttach(t) PROVE DatabaseTypeOK'
  BY <1>15 DEF ReuseAttach, AddItemToList, ListExists, ItemExists
<1>16. ASSUME NEW t \in Slots, Purge(t) PROVE DatabaseTypeOK'
  BY <1>16, RecordType DEF Purge, DeleteSearch
<1>17. ASSUME NEW t \in Slots, Retry(t) PROVE DatabaseTypeOK'
  BY <1>17 DEF Retry, MarkSearchForRetry, RowPresent
<1>18. ASSUME NEW t \in Slots, GiveUp(t) PROVE DatabaseTypeOK'
  BY <1>18, RecordType DEF GiveUp, DeleteSearch
<1>19. ASSUME NEW t \in Slots, Placeholder(t) PROVE DatabaseTypeOK'
  <2>1. task[t].job \in Paths \cup Entries \cup {NoPath}
    BY <1>19 DEF Placeholder, At, HasJob, Procs
  <2>2. /\ itemStatus' \in [Items -> ItemStatus]
        /\ itemPath' \in [Items -> Paths \cup Entries \cup {NoPath}]
    BY <2>1, <1>19, CreateItemType DEF Placeholder
  <2> QED
    BY <2>2, <1>19 DEF Placeholder
<1>20. ASSUME NEW t \in Slots, MarkFailed(t) PROVE DatabaseTypeOK'
  BY <1>20 DEF MarkFailed, UpdateItemStatus, ItemStatus
<1>21. ASSUME NEW t \in Slots, AttachFailed(t) PROVE DatabaseTypeOK'
  BY <1>21 DEF AttachFailed, AddItemToList, ListExists, ItemExists
<1>22. ASSUME NEW p \in Procs, Count(p) PROVE DatabaseTypeOK'
  BY <1>22 DEF Count, dbVars
<1>23. ASSUME NEW p \in Procs, CountPending(p) PROVE DatabaseTypeOK'
  BY <1>23 DEF CountPending, dbVars
<1>24. ASSUME NEW p \in Procs, WriteProgress(p) PROVE DatabaseTypeOK'
  BY <1>24 DEF WriteProgress, UpdateListStatus, Task, Procs
<1>25. ASSUME NEW i \in Items, Receive(i) PROVE DatabaseTypeOK'
  BY <1>25 DEF Receive, dbVars
<1>26. ASSUME Succeed PROVE DatabaseTypeOK'
  BY <1>26 DEF Succeed, UpdateItemStatus, ItemStatus
<1>27. ASSUME Drop PROVE DatabaseTypeOK'
  BY <1>27, RecordType DEF Drop, DeleteSearch
<1>28. ASSUME Fail PROVE DatabaseTypeOK'
  BY <1>28 DEF Fail, UpdateItemStatus, ItemStatus
<1>29. ASSUME Settle PROVE DatabaseTypeOK'
  BY <1>29, RecordType DEF Settle, MarkSearchForRetry, DeleteSearch, RowPresent
<1>30. ASSUME NEW i \in Items, TransferDone(i) PROVE DatabaseTypeOK'
  BY <1>30 DEF TransferDone, dbVars
<1>31. ASSUME NEW l \in Lists, CreateList(l) PROVE DatabaseTypeOK'
  BY <1>31 DEF CreateList, ListStatus
<1>32. ASSUME NEW l \in Lists, RequestDeleteList(l) PROVE DatabaseTypeOK'
  BY <1>32 DEF RequestDeleteList, DeleteList, CountDelete, ListStatus
<1>33. ASSUME NEW e \in Entries, EnqueueSearch(e) PROVE DatabaseTypeOK'
  BY <1>33 DEF EnqueueSearch, InsertSearch, RowPresent
<1>34. ASSUME NEW e \in Entries, CancelSearch(e) PROVE DatabaseTypeOK'
  BY <1>34 DEF CancelSearch, DeleteSearch, CountDelete
<1>35. ASSUME NEW i \in Items, RequestDeleteItem(i) PROVE DatabaseTypeOK'
  BY <1>35 DEF RequestDeleteItem, DeleteItem, CountDelete, ItemStatus
<1>36. ASSUME NEW l \in Lists, NEW i \in Items, RemoveItemFromList(l, i) PROVE DatabaseTypeOK'
  BY <1>36 DEF RemoveItemFromList, CountDelete
<1>37. ASSUME Restart PROVE DatabaseTypeOK'
  BY <1>37 DEF Restart, RecoveredRows, RecoveredItems, RecoveredLists, ListStatusFor, RowPresent, ItemStatus, ListStatus
<1>38. CASE UNCHANGED vars
  BY <1>38 DEF vars, dbVars
<1> QED
  BY <1>1, <1>2, <1>3, <1>4, <1>5, <1>6, <1>7, <1>8, <1>9, <1>10, <1>11,
     <1>12, <1>13, <1>14, <1>15, <1>16, <1>17, <1>18, <1>19, <1>20, <1>21,
     <1>22, <1>23, <1>24, <1>25, <1>26, <1>27, <1>28, <1>29, <1>30, <1>31,
     <1>32, <1>33, <1>34, <1>35, <1>36, <1>37, <1>38
     DEF Next, ClaimNext, TaskStep, UpdateListProgress, MonitorStep, Request, Procs

LEMMA TaskTypeStep ==
  ASSUME TypeInv, [Next]_vars
  PROVE  task' \in [Procs -> Task] /\ HasJob' /\ Sourced'
<1> DEFINE G == task' \in [Procs -> Task] /\ HasJob' /\ Sourced'
<1> USE DEF At, Procs
<1>a. \A p \in Procs : task[p] \in Task /\ (task[p].pc # "idle" => task[p].job \in Entries)
  BY DEF TypeInv, TypeOK, HasJob
<1>b. {"reuse", "lookup", "replace", "create", "announce", "link", "initFailed",
       "markFailed", "countPending", "write", "purge", "settle"} \subseteq Labels
  BY DEF Labels
<1>1. ASSUME NEW t \in Slots, NEW e \in Entries, Claim(t, e) PROVE G
  <2> DEFINE r == [Idle EXCEPT !.pc = "verify", !.job = e, !.seen = retryCount[e]]
  <2>1. r \in Task /\ r.pc = "verify" /\ r.job = e
    BY IdleType DEF TypeInv, TypeOK, DatabaseTypeOK, Task, Labels, Idle
  <2>2. Set(t, r) /\ UNCHANGED netVars
    BY <1>1 DEF Claim
  <2> HIDE DEF r
  <2> QED
    BY <2>1, <2>2, LocalStep DEF Announcing
<1>2. ASSUME NEW t \in Slots, Verify(t) PROVE G
  BY <1>2, GotoStep DEF Verify, Labels, Announcing, netVars
<1>3. ASSUME NEW t \in Slots, Dedup(t) PROVE G
  <2>1. CASE Set(t, Goto(t, "pick"))
    BY <1>3, <2>1, GotoStep DEF Dedup, Labels, Announcing, netVars
  <2>2. ASSUME NEW i \in Items, Set(t, [task[t] EXCEPT !.pc = "reuse", !.item = i])
        PROVE  G
    <3> DEFINE r == [task[t] EXCEPT !.pc = "reuse", !.item = i]
    <3>1. r \in Task /\ r.pc = "reuse" /\ r.job = task[t].job
      <4>1. task[t] \in Task /\ "reuse" \in Labels
        BY <1>a, <1>b
      <4>2. r.pc = "reuse" /\ r.job = task[t].job
        BY <4>1 DEF Task
      <4>3. r \in Task
        BY <4>1 DEF Task
      <4> QED
        BY <4>2, <4>3
    <3>2. r.job \in Entries
      BY <1>a, <1>3, <3>1 DEF Dedup
    <3>3. Set(t, r) /\ UNCHANGED netVars
      BY <1>3, <2>2 DEF Dedup
    <3> HIDE DEF r
    <3> QED
      BY <3>1, <3>2, <3>3, LocalStep DEF Announcing
  <2> QED
    BY <1>3, <2>1, <2>2 DEF Dedup
<1>4. ASSUME NEW t \in Slots, Pick(t) PROVE G
  <2>1. CASE Set(t, Goto(t, "search"))
    BY <1>4, <2>1, GotoStep DEF Pick, Labels, Announcing, netVars
  <2>2. ASSUME NEW p \in Paths, Set(t, [task[t] EXCEPT !.pc = "lookup", !.path = p])
        PROVE  G
    <3> DEFINE r == [task[t] EXCEPT !.pc = "lookup", !.path = p]
    <3>1. r \in Task /\ r.pc = "lookup" /\ r.job = task[t].job
      <4>1. task[t] \in Task /\ "lookup" \in Labels
        BY <1>a, <1>b
      <4>2. r.pc = "lookup" /\ r.job = task[t].job
        BY <4>1 DEF Task
      <4>3. r \in Task
        BY <4>1 DEF Task
      <4> QED
        BY <4>2, <4>3
    <3>2. r.job \in Entries
      BY <1>a, <1>4, <3>1 DEF Pick
    <3>3. Set(t, r) /\ UNCHANGED netVars
      BY <1>4, <2>2 DEF Pick
    <3> HIDE DEF r
    <3> QED
      BY <3>1, <3>2, <3>3, LocalStep DEF Announcing
  <2> QED
    BY <1>4, <2>1, <2>2 DEF Pick
<1>5. ASSUME NEW t \in Slots, Search(t) PROVE G
  <2>1. ASSUME NEW label \in {OnError(t), "giveUp"}, Set(t, Goto(t, label)) PROVE G
    BY <1>5, <2>1, GotoStep DEF Search, OnError, Labels, Announcing, netVars
  <2>2. ASSUME NEW p \in Paths, Set(t, [task[t] EXCEPT !.pc = "lookup", !.path = p])
        PROVE  G
    <3> DEFINE r == [task[t] EXCEPT !.pc = "lookup", !.path = p]
    <3>1. r \in Task /\ r.pc = "lookup" /\ r.job = task[t].job
      <4>1. task[t] \in Task /\ "lookup" \in Labels
        BY <1>a, <1>b
      <4>2. r.pc = "lookup" /\ r.job = task[t].job
        BY <4>1 DEF Task
      <4>3. r \in Task
        BY <4>1 DEF Task
      <4> QED
        BY <4>2, <4>3
    <3>2. r.job \in Entries
      BY <1>a, <1>5, <3>1 DEF Search
    <3>3. Set(t, r) /\ UNCHANGED netVars
      BY <1>5, <2>2 DEF Search
    <3> HIDE DEF r
    <3> QED
      BY <3>1, <3>2, <3>3, LocalStep DEF Announcing
  <2> QED
    BY <1>5, <2>1, <2>2 DEF Search
<1>6. ASSUME NEW t \in Slots, Lookup(t) PROVE G
  <2>1. CASE Set(t, Goto(t, "create"))
    BY <1>6, <2>1, GotoStep DEF Lookup, Labels, Announcing, netVars
  <2>2. ASSUME NEW i \in Items, NEW label \in {"reuse", "replace"},
               Set(t, [task[t] EXCEPT !.pc = label, !.item = i])
        PROVE  G
    <3> DEFINE r == [task[t] EXCEPT !.pc = label, !.item = i]
    <3>1. r \in Task /\ r.pc = label /\ r.job = task[t].job
      <4>1. task[t] \in Task /\ label \in Labels
        BY <1>a, <1>b
      <4>2. r.pc = label /\ r.job = task[t].job
        BY <4>1 DEF Task
      <4>3. r \in Task
        BY <4>1 DEF Task
      <4> QED
        BY <4>2, <4>3
    <3>2. r.job \in Entries
      BY <1>a, <1>6, <3>1 DEF Lookup
    <3>3. Set(t, r) /\ UNCHANGED netVars
      BY <1>6, <2>2 DEF Lookup
    <3> HIDE DEF r
    <3> QED
      BY <3>1, <3>2, <3>3, LocalStep DEF Announcing
  <2> QED
    BY <1>6, <2>1, <2>2 DEF Lookup, ItemsAt
<1>7. ASSUME NEW t \in Slots, Replace(t) PROVE G
  <2> DEFINE r == [task[t] EXCEPT !.pc = "create", !.item = NoItem]
  <2>1. r \in Task /\ r.pc = "create" /\ r.job = task[t].job
    BY <1>a, <1>b DEF Task
  <2>2. r.job \in Entries
    BY <1>a, <1>7, <2>1 DEF Replace
  <2>3. Set(t, r) /\ UNCHANGED netVars
    BY <1>7 DEF Replace
  <2> HIDE DEF r
  <2> QED
    BY <2>1, <2>2, <2>3, LocalStep DEF Announcing
<1>8. ASSUME NEW t \in Slots, Create(t) PROVE G
  <2>1. CASE Set(t, Goto(t, OnError(t))) /\ UNCHANGED source
    BY <1>8, <2>1, GotoStep DEF Create, OnError, Labels, Announcing, netVars
  <2>2. ASSUME NEW i \in Items,
               source' = [source EXCEPT ![i] = task[t].job],
               Set(t, [task[t] EXCEPT !.pc = "announce", !.item = i])
        PROVE  G
    <3> DEFINE r == [task[t] EXCEPT !.pc = "announce", !.item = i]
    <3>1. r \in Task /\ r.pc = "announce" /\ r.job = task[t].job /\ r.item = i
      <4>1. task[t] \in Task /\ "announce" \in Labels
        BY <1>a, <1>b
      <4>2. r.pc = "announce" /\ r.job = task[t].job
        BY <4>1 DEF Task
      <4>3. r \in Task
        BY <4>1 DEF Task
      <4> QED
        BY <4>2, <4>3
    <3>2. task[t].job \in Entries
      BY <1>a, <1>8 DEF Create
    <3>3. Set(t, r) /\ UNCHANGED transfer
      BY <1>8, <2>2 DEF Create
    <3> HIDE DEF r
    <3>4. /\ task' \in [Procs -> Task]
          /\ task'[t] = r
          /\ \A q \in Procs : q # t => task'[q] = task[q]
      BY <3>1, <3>3, SetType DEF TypeInv
    <3>5. \A j \in Items : source'[j] \in Entries \/ source'[j] = source[j]
      BY <2>2, <3>2 DEF TypeInv, TypeOK
    <3>6. source'[i] \in Entries
      BY <2>2, <3>2 DEF TypeInv, TypeOK
    <3>7. HasJob'
      BY <3>1, <3>2, <3>4 DEF TypeInv, HasJob
    <3>8. Sourced'
      BY <3>1, <3>3, <3>4, <3>5, <3>6 DEF TypeInv, Sourced, Outstanding
    <3> QED
      BY <3>4, <3>7, <3>8
  <2> QED
    BY <1>8, <2>1, <2>2 DEF Create
<1>9. ASSUME NEW t \in Slots, Announce(t) PROVE G
  BY <1>9, GotoStep DEF Announce, Labels, Announcing, netVars
<1>10. ASSUME NEW t \in Slots, Attach(t) PROVE G
  BY <1>10, GotoStep DEF Attach, Labels, Announcing, netVars
<1>11. ASSUME NEW t \in Slots, Initiate(t) PROVE G
  <2> DEFINE label == IF transfer'[task[t].item] = "receiving" THEN "link" ELSE "initFailed"
  <2>1. task[t].item \in Items /\ source[task[t].item] \in Entries
    BY <1>11 DEF Initiate, TypeInv, Sourced, Announcing
  <2>2. \A j \in Items : transfer'[j] = transfer[j] \/ j = task[t].item
    BY <1>11 DEF Initiate, TypeInv, TypeOK
  <2>3. Set(t, Goto(t, "link")) \/ Set(t, Goto(t, "initFailed"))
    BY <1>11 DEF Initiate
  <2>4. PICK l \in {"link", "initFailed"} : Set(t, Goto(t, l))
    BY <2>3
  <2>5. Goto(t, l) \in Task
    BY <1>b, GotoType DEF TypeInv
  <2>a. Goto(t, l) = [task[t] EXCEPT !.pc = l]
    BY DEF Goto
  <2>b. Goto(t, l).pc = l /\ Goto(t, l).job = task[t].job
    BY <1>a, <2>a DEF Task
  <2>6. /\ task' \in [Procs -> Task]
        /\ task'[t] = Goto(t, l)
        /\ \A q \in Procs : q # t => task'[q] = task[q]
    BY <2>4, <2>5, SetType DEF TypeInv
  <2>7. HasJob'
    BY <1>a, <1>11, <2>b, <2>6 DEF Initiate, TypeInv, HasJob
  <2>8. UNCHANGED source
    BY <1>11 DEF Initiate
  <2>9. Sourced'
    BY <2>1, <2>2, <2>b, <2>6, <2>8 DEF TypeInv, Sourced, Outstanding, Announcing
  <2> QED
    BY <2>6, <2>7, <2>9
<1>12. ASSUME NEW t \in Slots, InitFailed(t) PROVE G
  BY <1>12, GotoStep DEF InitFailed, OnError, Labels, Announcing, netVars
<1>13. ASSUME NEW t \in Slots, Link(t) PROVE G
  BY <1>13, IdleStep DEF Link, netVars
<1>14. ASSUME NEW t \in Slots, Reuse(t) PROVE G
  BY <1>14, GotoStep DEF Reuse, Labels, Announcing, netVars
<1>15. ASSUME NEW t \in Slots, ReuseAttach(t) PROVE G
  BY <1>15, ProgressStep DEF ReuseAttach, netVars
<1>16. ASSUME NEW t \in Slots, Purge(t) PROVE G
  BY <1>16, IdleStep DEF Purge, netVars
<1>17. ASSUME NEW t \in Slots, Retry(t) PROVE G
  BY <1>17, ProgressStep DEF Retry, netVars
<1>18. ASSUME NEW t \in Slots, GiveUp(t) PROVE G
  BY <1>18, GotoStep DEF GiveUp, Labels, Announcing, netVars
<1>19. ASSUME NEW t \in Slots, Placeholder(t) PROVE G
  <2>1. CASE Set(t, Progress(t, "idle"))
    BY <1>19, <2>1, ProgressStep DEF Placeholder, netVars
  <2>2. ASSUME NEW i \in Items, Set(t, [task[t] EXCEPT !.pc = "markFailed", !.item = i])
        PROVE  G
    <3> DEFINE r == [task[t] EXCEPT !.pc = "markFailed", !.item = i]
    <3>1. r \in Task /\ r.pc = "markFailed" /\ r.job = task[t].job
      <4>1. task[t] \in Task /\ "markFailed" \in Labels
        BY <1>a, <1>b
      <4>2. r.pc = "markFailed" /\ r.job = task[t].job
        BY <4>1 DEF Task
      <4>3. r \in Task
        BY <4>1 DEF Task
      <4> QED
        BY <4>2, <4>3
    <3>2. r.job \in Entries
      BY <1>a, <1>19, <3>1 DEF Placeholder
    <3>3. Set(t, r) /\ UNCHANGED netVars
      BY <1>19, <2>2 DEF Placeholder
    <3> HIDE DEF r
    <3> QED
      BY <3>1, <3>2, <3>3, LocalStep DEF Announcing
  <2> QED
    BY <1>19, <2>1, <2>2 DEF Placeholder
<1>20. ASSUME NEW t \in Slots, MarkFailed(t) PROVE G
  BY <1>20, GotoStep DEF MarkFailed, Labels, Announcing, netVars
<1>21. ASSUME NEW t \in Slots, AttachFailed(t) PROVE G
  BY <1>21, ProgressStep DEF AttachFailed, netVars
<1>22. ASSUME NEW p \in Procs, Count(p) PROVE G
  <2>1. CASE Set(p, Goto(p, task[p].then))
    <3>1. task[p].then \in {"idle", "purge", "settle"}
      BY <1>a DEF Task
    <3> QED
      BY <1>22, <2>1, <3>1, GotoStep DEF Count, Labels, Announcing, netVars
  <2>2. ASSUME NEW tally, tally = Tally(ListOf[task[p].job], itemStatus),
               Set(p, [task[p] EXCEPT !.pc = "countPending", !.tally = tally])
        PROVE  G
    <3> DEFINE r == [task[p] EXCEPT !.pc = "countPending", !.tally = tally]
    <3>1. tally \in SUBSET {"completed", "failed", "unresolved"}
      BY <2>2 DEF Tally
    <3>2. r \in Task /\ r.pc = "countPending" /\ r.job = task[p].job
      <4>1. task[p] \in Task /\ "countPending" \in Labels
        BY <1>a, <1>b
      <4>2. r.pc = "countPending" /\ r.job = task[p].job
        BY <4>1 DEF Task
      <4>3. r \in Task
        BY <3>1, <4>1 DEF Task
      <4> QED
        BY <4>2, <4>3
    <3>3. r.job \in Entries
      BY <1>a, <1>22, <3>2 DEF Count
    <3>4. Set(p, r) /\ UNCHANGED netVars
      BY <1>22, <2>2 DEF Count
    <3> HIDE DEF r
    <3> QED
      BY <3>2, <3>3, <3>4, LocalStep DEF Announcing
  <2> QED
    BY <1>22, <2>1, <2>2 DEF Count
<1>23. ASSUME NEW p \in Procs, CountPending(p) PROVE G
  <2> DEFINE v == ListStatusFor(task[p].tally, HasPendingSearches(ListOf[task[p].job], rowStatus))
             r == [task[p] EXCEPT !.pc = "write", !.tally = {}, !.verdict = v]
  <2>1. v \in ListStatus
    BY DEF ListStatusFor, ListStatus
  <2>2. Set(p, r) /\ UNCHANGED netVars
    BY <1>23 DEF CountPending
  <2> HIDE DEF v
  <2>3. r \in Task /\ r.pc = "write" /\ r.job = task[p].job
    <3>1. task[p] \in Task /\ "write" \in Labels
      BY <1>a, <1>b
    <3>2. r.pc = "write" /\ r.job = task[p].job
      BY <3>1 DEF Task
    <3>3. r \in Task
      BY <2>1, <3>1 DEF Task
    <3> QED
      BY <3>2, <3>3
  <2>4. r.job \in Entries
    BY <1>a, <1>23, <2>3 DEF CountPending
  <2> HIDE DEF r
  <2> QED
    BY <2>2, <2>3, <2>4, LocalStep DEF Announcing
<1>24. ASSUME NEW p \in Procs, WriteProgress(p) PROVE G
  <2>1. CASE task[p].then = "idle"
    BY <1>24, <2>1, IdleStep DEF WriteProgress, netVars
  <2>2. CASE task[p].then # "idle"
    <3> DEFINE r == [task[p] EXCEPT !.pc = task[p].then, !.verdict = "absent", !.then = "idle"]
    <3>1. task[p].then \in {"purge", "settle"} /\ "absent" \in ListStatus
      BY <1>a, <2>2 DEF Task, ListStatus
    <3>2. r \in Task /\ r.pc = task[p].then /\ r.job = task[p].job
      <4>1. task[p] \in Task /\ task[p].then \in Labels
        BY <1>a, <1>b, <3>1
      <4>2. r.pc = task[p].then /\ r.job = task[p].job
        BY <4>1 DEF Task
      <4>3. r \in Task
        BY <3>1, <4>1 DEF Task
      <4> QED
        BY <4>2, <4>3
    <3>3. r.job \in Entries
      BY <1>a, <1>24, <3>2 DEF WriteProgress
    <3>4. Set(p, r) /\ UNCHANGED netVars
      BY <1>24, <2>2 DEF WriteProgress
    <3> HIDE DEF r
    <3> QED
      BY <3>1, <3>2, <3>3, <3>4, LocalStep DEF Announcing
  <2> QED
    BY <2>1, <2>2
<1>25. ASSUME NEW i \in Items, Receive(i) PROVE G
  <2>1. PICK label \in {"succeed", "fail"}, known \in BOOLEAN, seen \in Nat :
          Set(Monitor, [Idle EXCEPT !.pc = label, !.job = source[i], !.item = i,
                                    !.known = known, !.seen = seen])
    <3>1. source[i] \in Entries
      BY <1>25 DEF Receive, TypeInv, Sourced, Outstanding
    <3>2. retryCount[source[i]] \in Nat /\ 1 \in Nat
      BY <3>1 DEF TypeInv, TypeOK, DatabaseTypeOK
    <3>3. RowExists(source[i]) \in BOOLEAN
      BY DEF RowExists
    <3> DEFINE label == IF transfer[i] = "ok" THEN "succeed" ELSE "fail"
               seen  == IF RowExists(source[i]) THEN retryCount[source[i]] ELSE 1
    <3>4. label \in {"succeed", "fail"} /\ seen \in Nat
      BY <3>2
    <3>5. Set(Monitor, [Idle EXCEPT !.pc = label, !.job = source[i], !.item = i,
                                    !.known = RowExists(source[i]), !.seen = seen])
      BY <1>25 DEF Receive
    <3> HIDE DEF label, seen
    <3> QED
      BY <3>3, <3>4, <3>5
  <2> DEFINE r == [Idle EXCEPT !.pc = label, !.job = source[i], !.item = i,
                               !.known = known, !.seen = seen]
  <2>2. source[i] \in Entries
    BY <1>25 DEF Receive, TypeInv, Sourced, Outstanding
  <2>3. r \in Task /\ r.pc = label /\ r.job = source[i]
    BY <2>2, IdleType DEF Task, Labels, Idle
  <2>4. Set(Monitor, r)
    BY <2>1
  <2> HIDE DEF r
  <2>5. /\ task' \in [Procs -> Task]
        /\ task'[Monitor] = r
        /\ \A q \in Procs : q # Monitor => task'[q] = task[q]
    BY <2>3, <2>4, SetType DEF TypeInv
  <2>6. HasJob'
    BY <2>2, <2>3, <2>5 DEF TypeInv, HasJob
  <2>7. UNCHANGED source /\ \A j \in Items : transfer'[j] = transfer[j] \/ transfer'[j] = "taken"
    BY <1>25 DEF Receive, TypeInv, TypeOK
  <2>8. Sourced'
    BY <2>3, <2>5, <2>7 DEF TypeInv, Sourced, Outstanding, Announcing
  <2> QED
    BY <2>5, <2>6, <2>8
<1>26. ASSUME Succeed PROVE G
  BY <1>26, GotoStep DEF Succeed, Labels, Announcing, netVars
<1>27. ASSUME Drop PROVE G
  BY <1>27, ProgressStep DEF Drop, netVars
<1>28. ASSUME Fail PROVE G
  BY <1>28, ProgressStep DEF Fail, netVars
<1>29. ASSUME Settle PROVE G
  BY <1>29, IdleStep DEF Settle, netVars
<1>30. ASSUME NEW i \in Items, TransferDone(i) PROVE G
  BY <1>30 DEF TransferDone, TypeInv, TypeOK, HasJob, Sourced, Outstanding
<1>31. ASSUME Request PROVE G
  BY <1>31 DEF Request, CreateList, RequestDeleteList, EnqueueSearch, CancelSearch,
       RequestDeleteItem, RemoveItemFromList, CountDelete, netVars, TypeInv, TypeOK,
       HasJob, Sourced, Outstanding
<1>32. ASSUME Restart PROVE G
  <2>1. task' = [p \in Procs |-> Idle] /\ Idle.pc = "idle"
    BY <1>32 DEF Restart, Idle
  <2>2. \A j \in Items : ~Outstanding(j)'
    BY <1>32 DEF Restart, Outstanding, TypeInv, TypeOK
  <2> QED
    BY <2>1, <2>2, IdleType DEF HasJob, Sourced, Announcing
<1>33. CASE UNCHANGED vars
  BY <1>33 DEF vars, netVars, TypeInv, TypeOK, HasJob, Sourced, Outstanding
<1> QED
  BY <1>1, <1>2, <1>3, <1>4, <1>5, <1>6, <1>7, <1>8, <1>9, <1>10, <1>11,
     <1>12, <1>13, <1>14, <1>15, <1>16, <1>17, <1>18, <1>19, <1>20, <1>21,
     <1>22, <1>23, <1>24, <1>25, <1>26, <1>27, <1>28, <1>29, <1>30, <1>31,
     <1>32, <1>33
     DEF Next, ClaimNext, TaskStep, UpdateListProgress, MonitorStep

LEMMA NetTypeStep ==
  ASSUME TypeInv, [Next]_vars
  PROVE  /\ cached'   \in [Entries -> Nat]
         /\ transfer' \in [Items -> {"none", "receiving", "ok", "err", "taken"}]
         /\ source'   \in [Items -> Entries \cup {NoEntry}]
         /\ crashes'  \in Nat
         /\ deletes'  \in Nat
<1> DEFINE N == /\ cached'   \in [Entries -> Nat]
                /\ transfer' \in [Items -> {"none", "receiving", "ok", "err", "taken"}]
                /\ source'   \in [Items -> Entries \cup {NoEntry}]
                /\ crashes'  \in Nat
                /\ deletes'  \in Nat
<1> USE DEF TypeInv, TypeOK
<1>1. ASSUME NEW t \in Slots, Pick(t) PROVE N
  <2>1. CASE /\ cached[task[t].job] > 0
             /\ cached' = [cached EXCEPT ![task[t].job] = @ - 1]
    <3>1. task[t].job \in Entries => cached[task[t].job] - 1 \in Nat
      BY <2>1
    <3>2. cached' \in [Entries -> Nat]
      BY <2>1, <3>1
    <3> QED
      BY <1>1, <3>2 DEF Pick, netVars, boundVars
  <2>2. CASE UNCHANGED cached
    BY <1>1, <2>2 DEF Pick, netVars, boundVars
  <2> QED
    BY <1>1, <2>1, <2>2 DEF Pick
<1>2. ASSUME NEW t \in Slots, Search(t) PROVE N
  <2>1. \A n \in 0..MaxAlternatives : n \in Nat
    BY BoundsAssumption
  <2>2. cached' \in [Entries -> Nat]
    BY <1>2, <2>1 DEF Search
  <2> QED
    BY <1>2, <2>2 DEF Search, netVars, boundVars
<1>3. ASSUME NEW t \in Slots, Create(t) PROVE N
  <2>1. task[t].job \in Entries \cup {NoEntry}
    BY DEF Task, Procs
  <2> QED
    BY <1>3, <2>1 DEF Create, netVars, boundVars
<1>4. ASSUME NEW t \in Slots, Initiate(t) PROVE N
  BY <1>4 DEF Initiate, netVars, boundVars
<1>5. ASSUME NEW i \in Items, Receive(i) PROVE N
  BY <1>5 DEF Receive, netVars, boundVars
<1>6. ASSUME NEW i \in Items, TransferDone(i) PROVE N
  BY <1>6 DEF TransferDone, netVars, boundVars
<1>7. ASSUME Drop \/ Settle PROVE N
  BY <1>7 DEF Drop, Settle, netVars, boundVars
<1>8. ASSUME Request PROVE N
  <2>1. UNCHANGED <<cached, netVars, crashes>> /\ (CountDelete \/ UNCHANGED deletes)
    BY <1>8 DEF Request, CreateList, RequestDeleteList, EnqueueSearch, CancelSearch,
       RequestDeleteItem, RemoveItemFromList, CountDelete, netVars, boundVars
  <2>2. deletes' \in Nat
    BY <2>1 DEF CountDelete
  <2> QED
    BY <2>1, <2>2 DEF netVars
<1>9. ASSUME Restart PROVE N
  BY <1>9 DEF Restart, netVars, boundVars
<1>10. ASSUME UNCHANGED <<cached, netVars, boundVars>> PROVE N
  BY <1>10 DEF netVars, boundVars
<1>11. ASSUME ClaimNext PROVE N
  BY <1>11, <1>10 DEF ClaimNext, Claim
<1>12. ASSUME NEW p \in Procs, UpdateListProgress(p) PROVE N
  BY <1>12, <1>10 DEF UpdateListProgress, Count, CountPending, WriteProgress
<1>13. ASSUME NEW t \in Slots, TaskStep(t) PROVE N
  BY <1>1, <1>2, <1>3, <1>4, <1>10, <1>12, <1>13
     DEF Procs, TaskStep, Verify, Dedup, Lookup, Replace, Announce, Attach, InitFailed, Link,
         Reuse, ReuseAttach, Purge, Retry, GiveUp, Placeholder, MarkFailed, AttachFailed
<1>14. ASSUME MonitorStep PROVE N
  BY <1>5, <1>7, <1>10, <1>12, <1>14 DEF Procs, MonitorStep, Succeed, Fail
<1>15. CASE UNCHANGED vars
  BY <1>15, <1>10 DEF vars
<1> QED
  BY <1>6, <1>8, <1>9, <1>11, <1>13, <1>14, <1>15 DEF Next

LEMMA TypeStep == TypeInv /\ [Next]_vars => TypeInv'
BY DatabaseTypeStep, TaskTypeStep, NetTypeStep DEF TypeInv, TypeOK

\* Every variable keeps its type, for any number of searches, lists, tasks and
\* items, and through restarts: the statements never leave the values that the
\* columns and the tasks' local variables are meant to have.
THEOREM TypeCorrect == Spec => []TypeOK
<1>1. TypeInv => TypeOK
  BY DEF TypeInv
<1> QED
  BY <1>1, InitType, TypeStep, PTL DEF Spec

-----------------------------------------------------------------------------
(***************************************************************************)
(* Who writes items.download_status.  No statement looks at the old status *)
(* before it writes the new one, so that outcomes are final and that no    *)
(* item stays "downloading" for ever rests on who holds an item when: the  *)
(* invariant Held says which status an item can have while a task, a       *)
(* transfer or the monitor holds it, and that they do not overlap.         *)
(***************************************************************************)

Holding == {"announce", "attach", "initiate", "initFailed", "markFailed"}
Judging == {"succeed", "fail"}

TaskHolds ==
  \A t \in Slots :
    /\ task[t].pc \in Holding => task[t].item \in Items
    /\ task[t].pc \in {"announce", "markFailed"} =>
         /\ itemStatus[task[t].item] \in {"pending", "deleted"}
         /\ transfer[task[t].item] = "none"
    /\ task[t].pc \in {"attach", "initiate"} =>
         /\ itemStatus[task[t].item] \in {"downloading", "deleted"}
         /\ transfer[task[t].item] = "none"
    /\ task[t].pc = "initFailed" =>
         /\ itemStatus[task[t].item] \in {"downloading", "failed", "deleted"}
         /\ transfer[task[t].item] \in {"none", "err", "taken"}
    /\ task[t].pc \notin Judging

TasksApart ==
  \A t, u \in Slots :
    t # u /\ task[t].pc \in Holding /\ task[u].pc \in Holding =>
      task[t].item # task[u].item

MonitorHolds ==
  /\ task[Monitor].pc \in Judging =>
       /\ task[Monitor].item \in Items
       /\ transfer[task[Monitor].item] = "taken"
  /\ task[Monitor].pc = "succeed" =>
       /\ itemStatus[task[Monitor].item] \in {"downloading", "deleted"}
       /\ \A t \in Slots : task[t].pc = "initFailed" =>
            task[t].item # task[Monitor].item
  /\ task[Monitor].pc = "fail" =>
       itemStatus[task[Monitor].item] \in {"downloading", "failed", "deleted"}

TransferHolds ==
  \A i \in Items :
    /\ transfer[i] = "err" => itemStatus[i] \in {"downloading", "failed", "deleted"}
    /\ itemStatus[i] = "none" => transfer[i] = "none"

Held == /\ TaskHolds /\ TasksApart /\ MonitorHolds /\ TransferHolds
        /\ LiveTransferHasItem /\ DownloadingHasOwner

IInv == TypeInv /\ Held

-----------------------------------------------------------------------------
(* Where a step leaves its task *)

LEMMA AfterSet ==
  ASSUME TypeInv, NEW p \in Procs, NEW r, Set(p, r)
  PROVE  task'[p] = r /\ \A q \in Procs : q # p => task'[q] = task[q]
BY DEF TypeInv, TypeOK, Set

LEMMA AfterGoto ==
  ASSUME TypeInv, NEW p \in Procs, NEW label, Set(p, Goto(p, label))
  PROVE  /\ task'[p].pc = label
         /\ label # "idle" => task'[p].item = task[p].item
         /\ \A q \in Procs : q # p => task'[q] = task[q]
<1>1. task[p] \in Task
  BY DEF TypeInv, TypeOK
<1>2. CASE label = "idle"
  <2>1. Goto(p, label).pc = "idle"
    BY <1>2 DEF Goto, Idle
  <2> QED
    BY <1>2, <2>1, AfterSet
<1>3. CASE label # "idle"
  <2>1. Goto(p, label).pc = label /\ Goto(p, label).item = task[p].item
    BY <1>1, <1>3 DEF Goto, Task
  <2> QED
    BY <2>1, AfterSet
<1> QED
  BY <1>2, <1>3

LEMMA AfterProgress ==
  ASSUME TypeInv, NEW p \in Procs, NEW label, Set(p, Progress(p, label))
  PROVE  /\ task'[p].pc \in {"count", label}
         /\ \A q \in Procs : q # p => task'[q] = task[q]
<1>1. task[p] \in Task
  BY DEF TypeInv, TypeOK
<1>2. CASE ListOf[task[p].job] = NoList
  BY <1>2, AfterGoto DEF Progress
<1>3. CASE ListOf[task[p].job] # NoList
  <2>1. Progress(p, label).pc = "count"
    BY <1>1, <1>3 DEF Progress, Task
  <2> QED
    BY <2>1, AfterSet
<1> QED
  BY <1>2, <1>3

LEMMA AfterIdle ==
  ASSUME TypeInv, NEW p \in Procs, Set(p, Idle)
  PROVE  task'[p].pc = "idle" /\ \A q \in Procs : q # p => task'[q] = task[q]
BY AfterSet DEF Idle

LEMMA AfterItem ==
  ASSUME TypeInv, NEW p \in Procs, NEW label, NEW i,
         Set(p, [task[p] EXCEPT !.pc = label, !.item = i])
  PROVE  /\ task'[p].pc = label /\ task'[p].item = i
         /\ \A q \in Procs : q # p => task'[q] = task[q]
<1> DEFINE r == [task[p] EXCEPT !.pc = label, !.item = i]
<1>1. task[p] \in Task
  BY DEF TypeInv, TypeOK
<1>2. r.pc = label /\ r.item = i
  BY <1>1 DEF Task
<1>3. Set(p, r)
  OBVIOUS
<1> HIDE DEF r
<1> QED
  BY <1>2, <1>3, AfterSet

LEMMA AfterPath ==
  ASSUME TypeInv, NEW p \in Procs, NEW label, NEW path,
         Set(p, [task[p] EXCEPT !.pc = label, !.path = path])
  PROVE  /\ task'[p].pc = label
         /\ \A q \in Procs : q # p => task'[q] = task[q]
<1> DEFINE r == [task[p] EXCEPT !.pc = label, !.path = path]
<1>1. task[p] \in Task
  BY DEF TypeInv, TypeOK
<1>2. r.pc = label
  BY <1>1 DEF Task
<1>3. Set(p, r)
  OBVIOUS
<1> HIDE DEF r
<1> QED
  BY <1>2, <1>3, AfterSet

\* The three steps of update_list_progress end where it was called.
LEMMA AfterListProgress ==
  ASSUME TypeInv, NEW p \in Procs, UpdateListProgress(p)
  PROVE  /\ task'[p].pc \in {"countPending", "write", "idle", "purge", "settle"}
         /\ \A q \in Procs : q # p => task'[q] = task[q]
<1>1. task[p] \in Task /\ task[p].then \in {"idle", "purge", "settle"}
  BY DEF TypeInv, TypeOK, Task
<1>2. CASE Count(p)
  <2>1. CASE Set(p, Goto(p, task[p].then))
    BY <1>1, <2>1, AfterGoto
  <2>2. CASE Set(p, [task[p] EXCEPT !.pc = "countPending",
                                    !.tally = Tally(ListOf[task[p].job], itemStatus)])
    <3> DEFINE r == [task[p] EXCEPT !.pc = "countPending",
                                    !.tally = Tally(ListOf[task[p].job], itemStatus)]
    <3>1. r.pc = "countPending" /\ Set(p, r)
      BY <1>1, <2>2 DEF Task
    <3> HIDE DEF r
    <3> QED
      BY <3>1, AfterSet
  <2> QED
    BY <1>2, <2>1, <2>2 DEF Count
<1>3. CASE CountPending(p)
  <2> DEFINE v == ListStatusFor(task[p].tally,
                                HasPendingSearches(ListOf[task[p].job], rowStatus))
             r == [task[p] EXCEPT !.pc = "write", !.tally = {}, !.verdict = v]
  <2>1. Set(p, r)
    BY <1>3 DEF CountPending
  <2> HIDE DEF v
  <2>2. r.pc = "write"
    BY <1>1 DEF Task
  <2> HIDE DEF r
  <2> QED
    BY <2>1, <2>2, AfterSet
<1>4. CASE WriteProgress(p)
  <2>1. CASE task[p].then = "idle"
    BY <1>4, <2>1, AfterIdle DEF WriteProgress
  <2>2. CASE task[p].then # "idle"
    <3> DEFINE r == [task[p] EXCEPT !.pc = task[p].then, !.verdict = "absent",
                                    !.then = "idle"]
    <3>1. r.pc = task[p].then /\ Set(p, r)
      BY <1>1, <1>4, <2>2 DEF WriteProgress, Task
    <3> HIDE DEF r
    <3> QED
      BY <1>1, <3>1, AfterSet
  <2> QED
    BY <2>1, <2>2
<1> QED
  BY <1>2, <1>3, <1>4 DEF UpdateListProgress

\* A step between labels that hold no item, which leaves transfers alone and
\* does nothing to items but delete them, disturbs nothing.
LEMMA FreeStep ==
  ASSUME TypeInv, Held, NEW p \in Procs,
         task[p].pc \notin {"attach", "initiate", "initFailed"} \cup Judging,
         task'[p].pc \notin Holding \cup Judging,
         \A q \in Procs : q # p => task'[q] = task[q],
         \A i \in Items : itemStatus'[i] \in {itemStatus[i], "deleted"},
         UNCHANGED transfer
  PROVE  Held'
<1> USE DEF Procs, Holding, Judging
<1>1. TaskHolds'
  BY DEF Held, TaskHolds
<1>2. TasksApart'
  BY DEF Held, TasksApart
<1>3. MonitorHolds'
  BY DEF Held, MonitorHolds
<1>4. TransferHolds' /\ LiveTransferHasItem'
  BY DEF Held, TransferHolds, LiveTransferHasItem
<1>5. DownloadingHasOwner'
  BY DEF Held, DownloadingHasOwner, Outstanding
<1> QED
  BY <1>1, <1>2, <1>3, <1>4, <1>5 DEF Held

\* Deleting an item disturbs nothing either, whoever holds it.
LEMMA DeleteStep ==
  ASSUME TypeInv, Held, UNCHANGED transfer,
         \A p \in Procs : task'[p] = task[p],
         \A i \in Items : itemStatus'[i] \in {itemStatus[i], "deleted"}
  PROVE  Held'
<1> USE DEF Procs, Holding, Judging
<1>1. TaskHolds'
  BY DEF Held, TaskHolds
<1>2. TasksApart'
  BY DEF Held, TasksApart
<1>3. MonitorHolds'
  BY DEF Held, MonitorHolds
<1>4. TransferHolds' /\ LiveTransferHasItem'
  BY DEF Held, TransferHolds, LiveTransferHasItem
<1>5. DownloadingHasOwner'
  BY DEF Held, DownloadingHasOwner, Outstanding
<1> QED
  BY <1>1, <1>2, <1>3, <1>4, <1>5 DEF Held

\* Every step keeps the invariant: steps that hold no item first.
LEMMA FreeSteps ==
  ASSUME TypeInv, Held,
         \/ ClaimNext
         \/ \E t \in Slots :
              \/ Verify(t) \/ Dedup(t) \/ Pick(t) \/ Search(t) \/ Lookup(t) \/ Replace(t)
              \/ Link(t) \/ Reuse(t) \/ ReuseAttach(t) \/ Purge(t) \/ Retry(t) \/ GiveUp(t)
              \/ AttachFailed(t)
         \/ \E p \in Procs : UpdateListProgress(p)
         \/ Drop \/ Settle
  PROVE  Held'
<1> USE DEF At, Procs, Holding, Judging
<1>1. ASSUME NEW t \in Slots, NEW e \in Entries, Claim(t, e) PROVE Held'
  <2> DEFINE r == [Idle EXCEPT !.pc = "verify", !.job = e, !.seen = retryCount[e]]
  <2>1. r.pc = "verify" /\ Set(t, r)
    BY <1>1 DEF Claim, Idle
  <2> HIDE DEF r
  <2>2. task'[t].pc = "verify" /\ \A q \in Procs : q # t => task'[q] = task[q]
    BY <2>1, AfterSet
  <2> QED
    BY <1>1, <2>2, FreeStep DEF Claim, netVars
<1>2. ASSUME NEW t \in Slots, Verify(t) PROVE Held'
  BY <1>2, AfterGoto, FreeStep DEF Verify, dbVars, netVars
<1>3. ASSUME NEW t \in Slots, Dedup(t) PROVE Held'
  <2>0. task[t].pc = "dedup" /\ UNCHANGED <<itemStatus, transfer>>
    BY <1>3 DEF Dedup, dbVars, netVars
  <2>1. CASE Set(t, Goto(t, "pick"))
    BY <2>0, <2>1, AfterGoto, FreeStep
  <2>2. ASSUME NEW i \in Items, Set(t, [task[t] EXCEPT !.pc = "reuse", !.item = i])
        PROVE  Held'
    <3>1. task'[t].pc = "reuse" /\ \A q \in Procs : q # t => task'[q] = task[q]
      BY <2>2, AfterItem
    <3> QED
      BY <1>3, <3>1, FreeStep DEF Dedup, dbVars, netVars
  <2> QED
    BY <1>3, <2>1, <2>2 DEF Dedup
<1>4. ASSUME NEW t \in Slots, Pick(t) PROVE Held'
  <2>0. task[t].pc = "pick" /\ UNCHANGED <<itemStatus, transfer>>
    BY <1>4 DEF Pick, dbVars, netVars
  <2>1. CASE Set(t, Goto(t, "search"))
    BY <2>0, <2>1, AfterGoto, FreeStep
  <2>2. ASSUME NEW p \in Paths, Set(t, [task[t] EXCEPT !.pc = "lookup", !.path = p])
        PROVE  Held'
    <3>1. task'[t].pc = "lookup" /\ \A q \in Procs : q # t => task'[q] = task[q]
      BY <2>2, AfterPath
    <3> QED
      BY <1>4, <3>1, FreeStep DEF Pick, dbVars, netVars
  <2> QED
    BY <1>4, <2>1, <2>2 DEF Pick
<1>5. ASSUME NEW t \in Slots, Search(t) PROVE Held'
  <2>1. ASSUME NEW label \in {OnError(t), "giveUp"}, Set(t, Goto(t, label)) PROVE Held'
    BY <1>5, <2>1, AfterGoto, FreeStep DEF Search, OnError, dbVars, netVars
  <2>2. ASSUME NEW p \in Paths, Set(t, [task[t] EXCEPT !.pc = "lookup", !.path = p])
        PROVE  Held'
    <3>1. task'[t].pc = "lookup" /\ \A q \in Procs : q # t => task'[q] = task[q]
      BY <2>2, AfterPath
    <3> QED
      BY <1>5, <3>1, FreeStep DEF Search, dbVars, netVars
  <2> QED
    BY <1>5, <2>1, <2>2 DEF Search
<1>6. ASSUME NEW t \in Slots, Lookup(t) PROVE Held'
  <2>0. task[t].pc = "lookup" /\ UNCHANGED <<itemStatus, transfer>>
    BY <1>6 DEF Lookup, dbVars, netVars
  <2>1. CASE Set(t, Goto(t, "create"))
    BY <2>0, <2>1, AfterGoto, FreeStep
  <2>2. ASSUME NEW i \in Items, NEW label \in {"reuse", "replace"},
               Set(t, [task[t] EXCEPT !.pc = label, !.item = i])
        PROVE  Held'
    <3>1. task'[t].pc = label /\ \A q \in Procs : q # t => task'[q] = task[q]
      BY <2>2, AfterItem
    <3> QED
      BY <1>6, <3>1, FreeStep DEF Lookup, dbVars, netVars
  <2> QED
    BY <1>6, <2>1, <2>2 DEF Lookup, ItemsAt
<1>7. ASSUME NEW t \in Slots, Replace(t) PROVE Held'
  <2>1. /\ task'[t].pc = "create"
        /\ \A q \in Procs : q # t => task'[q] = task[q]
    BY <1>7, AfterItem DEF Replace
  <2>2. \A i \in Items : itemStatus'[i] \in {itemStatus[i], "deleted"}
    BY <1>7 DEF Replace, DeleteItem, TypeInv, TypeOK, DatabaseTypeOK
  <2> QED
    BY <1>7, <2>1, <2>2, FreeStep DEF Replace, netVars
<1>8. ASSUME NEW t \in Slots, Link(t) PROVE Held'
  BY <1>8, AfterIdle, FreeStep DEF Link, netVars
<1>9. ASSUME NEW t \in Slots, Reuse(t) PROVE Held'
  BY <1>9, AfterGoto, FreeStep DEF Reuse, netVars
<1>10. ASSUME NEW t \in Slots, ReuseAttach(t) PROVE Held'
  BY <1>10, AfterProgress, FreeStep DEF ReuseAttach, netVars
<1>11. ASSUME NEW t \in Slots, Purge(t) PROVE Held'
  BY <1>11, AfterIdle, FreeStep DEF Purge, netVars
<1>12. ASSUME NEW t \in Slots, Retry(t) PROVE Held'
  BY <1>12, AfterProgress, FreeStep DEF Retry, netVars
<1>13. ASSUME NEW t \in Slots, GiveUp(t) PROVE Held'
  BY <1>13, AfterGoto, FreeStep DEF GiveUp, netVars
<1>14. ASSUME NEW t \in Slots, AttachFailed(t) PROVE Held'
  BY <1>14, AfterProgress, FreeStep DEF AttachFailed, netVars
<1>15. ASSUME NEW p \in Procs, UpdateListProgress(p) PROVE Held'
  <2>1. task[p].pc \in {"count", "countPending", "write"}
    BY <1>15 DEF UpdateListProgress, Count, CountPending, WriteProgress
  <2>2. /\ task'[p].pc \in {"countPending", "write", "idle", "purge", "settle"}
        /\ \A q \in Procs : q # p => task'[q] = task[q]
    BY <1>15, AfterListProgress
  <2>3. UNCHANGED <<itemStatus, transfer>>
    BY <1>15 DEF UpdateListProgress, Count, CountPending, WriteProgress, dbVars, netVars
  <2> QED
    BY <2>1, <2>2, <2>3, FreeStep
<1>16. ASSUME Drop PROVE Held'
  BY <1>16, AfterProgress, FreeStep DEF Drop, netVars
<1>17. ASSUME Settle PROVE Held'
  BY <1>17, AfterIdle, FreeStep DEF Settle, netVars
<1> QED
  BY <1>1, <1>2, <1>3, <1>4, <1>5, <1>6, <1>7, <1>8, <1>9, <1>10, <1>11,
     <1>12, <1>13, <1>14, <1>15, <1>16, <1>17
     DEF ClaimNext

\* The steps that take an item, hand it on or judge it.
LEMMA InitHeld == Init => Held
<1> SUFFICES ASSUME Init PROVE Held
  OBVIOUS
<1>1. Idle.pc = "idle"
  BY DEF Idle
<1> QED
  BY <1>1 DEF Init, DatabaseInit, Held, TaskHolds, TasksApart, MonitorHolds, TransferHolds,
     LiveTransferHasItem, DownloadingHasOwner, Procs, Holding, Judging

LEMMA HeldAnnounce ==
  ASSUME TypeInv, Held, NEW t \in Slots, Announce(t)
  PROVE  Held'
<1> USE DEF Procs, Holding, Judging
<1> DEFINE x == task[t].item
<1>1. /\ task'[t].pc \in {"attach", "initiate"} /\ task'[t].item = x
      /\ \A q \in Procs : q # t => task'[q] = task[q]
  BY AfterGoto DEF Announce
<1>2. task[t].pc = "announce" /\ x \in Items /\ UNCHANGED transfer
  BY DEF Announce, At, netVars, Held, TaskHolds
<1>3. /\ itemStatus[x] = "pending" => itemStatus'[x] = "downloading"
      /\ itemStatus[x] = "deleted" => itemStatus'[x] = "deleted"
      /\ \A j \in Items : j # x => itemStatus'[j] = itemStatus[j]
  BY <1>2 DEF Announce, UpdateItemStatus, ItemExists, TypeInv, TypeOK, DatabaseTypeOK
<1> HIDE DEF x
<1>4. x = task[t].item
  BY DEF x
<1>10. TaskHolds'
  BY <1>1, <1>2, <1>3, <1>4 DEF Held, TaskHolds, TasksApart, MonitorHolds, TransferHolds
<1>11. TasksApart'
  BY <1>1, <1>2, <1>3, <1>4 DEF Held, TasksApart, TaskHolds
<1>12. MonitorHolds'
  BY <1>1, <1>2, <1>3, <1>4 DEF Held, MonitorHolds, TaskHolds, TransferHolds, LiveTransferHasItem
<1>13. TransferHolds'
  BY <1>1, <1>2, <1>3, <1>4 DEF Held, TransferHolds, TaskHolds, MonitorHolds, LiveTransferHasItem
<1>14. LiveTransferHasItem'
  BY <1>1, <1>2, <1>3, <1>4 DEF Held, LiveTransferHasItem, TransferHolds, TaskHolds, MonitorHolds
<1>15. DownloadingHasOwner'
  BY <1>1, <1>2, <1>3, <1>4 DEF Held, DownloadingHasOwner, TaskHolds, MonitorHolds, Outstanding
<1> QED
  BY <1>10, <1>11, <1>12, <1>13, <1>14, <1>15 DEF Held

LEMMA HeldAttach ==
  ASSUME TypeInv, Held, NEW t \in Slots, Attach(t)
  PROVE  Held'
<1> USE DEF Procs, Holding, Judging
<1>1. /\ task'[t].pc = "initiate" /\ task'[t].item = task[t].item
      /\ \A q \in Procs : q # t => task'[q] = task[q]
  BY AfterGoto DEF Attach
<1>2. task[t].pc = "attach" /\ UNCHANGED <<itemStatus, transfer>>
  BY DEF Attach, At, netVars
<1>10. TaskHolds'
  BY <1>1, <1>2 DEF Held, TaskHolds, TasksApart, MonitorHolds, TransferHolds
<1>11. TasksApart'
  BY <1>1, <1>2 DEF Held, TasksApart, TaskHolds
<1>12. MonitorHolds'
  BY <1>1, <1>2 DEF Held, MonitorHolds, TaskHolds, TransferHolds, LiveTransferHasItem
<1>13. TransferHolds'
  BY <1>1, <1>2 DEF Held, TransferHolds, TaskHolds, MonitorHolds, LiveTransferHasItem
<1>14. LiveTransferHasItem'
  BY <1>1, <1>2 DEF Held, LiveTransferHasItem, TransferHolds, TaskHolds, MonitorHolds
<1>15. DownloadingHasOwner'
  BY <1>1, <1>2 DEF Held, DownloadingHasOwner, TaskHolds, MonitorHolds, Outstanding
<1> QED
  BY <1>10, <1>11, <1>12, <1>13, <1>14, <1>15 DEF Held

LEMMA HeldInitiate ==
  ASSUME TypeInv, Held, NEW t \in Slots, Initiate(t)
  PROVE  Held'
<1> USE DEF Procs, Holding, Judging
<1> DEFINE x == task[t].item
<1>1. PICK outcome \in {"receiving", "none", "err"} :
        /\ transfer' = [transfer EXCEPT ![x] = outcome]
        /\ Set(t, Goto(t, IF outcome = "receiving" THEN "link" ELSE "initFailed"))
  BY DEF Initiate
<1>2. /\ task'[t].pc = (IF outcome = "receiving" THEN "link" ELSE "initFailed")
      /\ task'[t].item = x
      /\ \A q \in Procs : q # t => task'[q] = task[q]
  BY <1>1, AfterGoto
<1>3. task[t].pc = "initiate" /\ x \in Items /\ UNCHANGED itemStatus
  BY DEF Initiate, At, dbVars, Held, TaskHolds
<1>4. /\ transfer'[x] = outcome
      /\ \A j \in Items : j # x => transfer'[j] = transfer[j]
  BY <1>1, <1>3 DEF TypeInv, TypeOK
<1> HIDE DEF x
<1>5. x = task[t].item
  BY DEF x
<1>10. TaskHolds'
  BY <1>2, <1>3, <1>4, <1>5 DEF Held, TaskHolds, TasksApart, MonitorHolds, TransferHolds
<1>11. TasksApart'
  BY <1>2, <1>3, <1>4, <1>5 DEF Held, TasksApart, TaskHolds
<1>12. MonitorHolds'
  BY <1>2, <1>3, <1>4, <1>5 DEF Held, MonitorHolds, TaskHolds, TransferHolds, LiveTransferHasItem
<1>13. TransferHolds'
  BY <1>2, <1>3, <1>4, <1>5 DEF Held, TransferHolds, TaskHolds, MonitorHolds, LiveTransferHasItem
<1>14. LiveTransferHasItem'
  BY <1>2, <1>3, <1>4, <1>5 DEF Held, LiveTransferHasItem, TransferHolds, TaskHolds, MonitorHolds
<1>15. DownloadingHasOwner'
  BY <1>2, <1>3, <1>4, <1>5 DEF Held, DownloadingHasOwner, TaskHolds, MonitorHolds, Outstanding
<1> QED
  BY <1>10, <1>11, <1>12, <1>13, <1>14, <1>15 DEF Held

LEMMA HeldInitFailed ==
  ASSUME TypeInv, Held, NEW t \in Slots, InitFailed(t)
  PROVE  Held'
<1> USE DEF Procs, Holding, Judging
<1> DEFINE x == task[t].item
<1>1. /\ task'[t].pc \in {"retry", "giveUp"} /\ task'[t].item = x
      /\ \A q \in Procs : q # t => task'[q] = task[q]
  BY AfterGoto DEF InitFailed, OnError
<1>2. task[t].pc = "initFailed" /\ x \in Items /\ UNCHANGED transfer
  BY DEF InitFailed, At, netVars, Held, TaskHolds
<1>3. /\ itemStatus'[x] = (IF itemStatus[x] \in {"none", "deleted"} THEN itemStatus[x] ELSE "failed")
      /\ \A j \in Items : j # x => itemStatus'[j] = itemStatus[j]
  BY <1>2 DEF InitFailed, UpdateItemStatus, ItemExists, TypeInv, TypeOK, DatabaseTypeOK
<1> HIDE DEF x
<1>4. x = task[t].item
  BY DEF x
<1>10. TaskHolds'
  BY <1>1, <1>2, <1>3, <1>4 DEF Held, TaskHolds, TasksApart, MonitorHolds, TransferHolds
<1>11. TasksApart'
  BY <1>1, <1>2, <1>3, <1>4 DEF Held, TasksApart, TaskHolds
<1>12. MonitorHolds'
  BY <1>1, <1>2, <1>3, <1>4 DEF Held, MonitorHolds, TaskHolds, TransferHolds, LiveTransferHasItem
<1>13. TransferHolds'
  BY <1>1, <1>2, <1>3, <1>4 DEF Held, TransferHolds, TaskHolds, MonitorHolds, LiveTransferHasItem
<1>14. LiveTransferHasItem'
  BY <1>1, <1>2, <1>3, <1>4 DEF Held, LiveTransferHasItem, TransferHolds, TaskHolds, MonitorHolds
<1>15. DownloadingHasOwner'
  BY <1>1, <1>2, <1>3, <1>4 DEF Held, DownloadingHasOwner, TaskHolds, MonitorHolds, Outstanding
<1> QED
  BY <1>10, <1>11, <1>12, <1>13, <1>14, <1>15 DEF Held

LEMMA HeldMarkFailed ==
  ASSUME TypeInv, Held, NEW t \in Slots, MarkFailed(t)
  PROVE  Held'
<1> USE DEF Procs, Holding, Judging
<1> DEFINE x == task[t].item
<1>1. /\ task'[t].pc \in {"attachFailed"} /\ task'[t].item = x
      /\ \A q \in Procs : q # t => task'[q] = task[q]
  BY AfterGoto DEF MarkFailed
<1>2. task[t].pc = "markFailed" /\ x \in Items /\ UNCHANGED transfer
  BY DEF MarkFailed, At, netVars, Held, TaskHolds
<1>3. /\ itemStatus'[x] = (IF itemStatus[x] \in {"none", "deleted"} THEN itemStatus[x] ELSE "failed")
      /\ \A j \in Items : j # x => itemStatus'[j] = itemStatus[j]
  BY <1>2 DEF MarkFailed, UpdateItemStatus, ItemExists, TypeInv, TypeOK, DatabaseTypeOK
<1> HIDE DEF x
<1>4. x = task[t].item
  BY DEF x
<1>10. TaskHolds'
  BY <1>1, <1>2, <1>3, <1>4 DEF Held, TaskHolds, TasksApart, MonitorHolds, TransferHolds
<1>11. TasksApart'
  BY <1>1, <1>2, <1>3, <1>4 DEF Held, TasksApart, TaskHolds
<1>12. MonitorHolds'
  BY <1>1, <1>2, <1>3, <1>4 DEF Held, MonitorHolds, TaskHolds, TransferHolds, LiveTransferHasItem
<1>13. TransferHolds'
  BY <1>1, <1>2, <1>3, <1>4 DEF Held, TransferHolds, TaskHolds, MonitorHolds, LiveTransferHasItem
<1>14. LiveTransferHasItem'
  BY <1>1, <1>2, <1>3, <1>4 DEF Held, LiveTransferHasItem, TransferHolds, TaskHolds, MonitorHolds
<1>15. DownloadingHasOwner'
  BY <1>1, <1>2, <1>3, <1>4 DEF Held, DownloadingHasOwner, TaskHolds, MonitorHolds, Outstanding
<1> QED
  BY <1>10, <1>11, <1>12, <1>13, <1>14, <1>15 DEF Held

LEMMA HeldCreate ==
  ASSUME TypeInv, Held, NEW t \in Slots, Create(t)
  PROVE  Held'
<1> USE DEF Procs, Holding, Judging
<1>0. task[t].pc = "create" /\ UNCHANGED transfer
  BY DEF Create, At, netVars
<1>a. CASE Set(t, Goto(t, OnError(t))) /\ UNCHANGED itemStatus
  BY <1>0, <1>a, AfterGoto, FreeStep DEF OnError
<1>b. ASSUME NEW i \in Items, CreateItem(i, task[t].path, "pending"),
             Set(t, [task[t] EXCEPT !.pc = "announce", !.item = i])
      PROVE  Held'
  <2>1. /\ task'[t].pc = "announce" /\ task'[t].item = i
        /\ \A q \in Procs : q # t => task'[q] = task[q]
    BY <1>b, AfterItem
  <2>2. /\ itemStatus[i] = "none" /\ itemStatus'[i] = "pending"
        /\ \A j \in Items : j # i => itemStatus'[j] = itemStatus[j]
    BY <1>b DEF CreateItem, NextItem, TypeInv, TypeOK, DatabaseTypeOK
  <2>10. TaskHolds'
    BY <1>0, <2>1, <2>2 DEF Held, TaskHolds, TasksApart, MonitorHolds, TransferHolds
  <2>11. TasksApart'
    BY <1>0, <2>1, <2>2 DEF Held, TasksApart, TaskHolds
  <2>12. MonitorHolds'
    BY <1>0, <2>1, <2>2 DEF Held, MonitorHolds, TaskHolds, TransferHolds, LiveTransferHasItem
  <2>13. TransferHolds'
    BY <1>0, <2>1, <2>2 DEF Held, TransferHolds, TaskHolds, MonitorHolds, LiveTransferHasItem
  <2>14. LiveTransferHasItem'
    BY <1>0, <2>1, <2>2 DEF Held, LiveTransferHasItem, TransferHolds, TaskHolds, MonitorHolds
  <2>15. DownloadingHasOwner'
    BY <1>0, <2>1, <2>2 DEF Held, DownloadingHasOwner, TaskHolds, MonitorHolds, Outstanding
  <2> QED
    BY <2>10, <2>11, <2>12, <2>13, <2>14, <2>15 DEF Held
<1> QED
  BY <1>a, <1>b DEF Create

LEMMA HeldPlaceholder ==
  ASSUME TypeInv, Held, NEW t \in Slots, Placeholder(t)
  PROVE  Held'
<1> USE DEF Procs, Holding, Judging
<1>0. task[t].pc = "placeholder" /\ UNCHANGED transfer
  BY DEF Placeholder, At, netVars
<1>a. CASE Set(t, Progress(t, "idle")) /\ UNCHANGED itemStatus
  BY <1>0, <1>a, AfterProgress, FreeStep DEF OnError
<1>b. ASSUME NEW i \in Items, CreateItem(i, task[t].job, "pending"),
             Set(t, [task[t] EXCEPT !.pc = "markFailed", !.item = i])
      PROVE  Held'
  <2>1. /\ task'[t].pc = "markFailed" /\ task'[t].item = i
        /\ \A q \in Procs : q # t => task'[q] = task[q]
    BY <1>b, AfterItem
  <2>2. /\ itemStatus[i] = "none" /\ itemStatus'[i] = "pending"
        /\ \A j \in Items : j # i => itemStatus'[j] = itemStatus[j]
    BY <1>b DEF CreateItem, NextItem, TypeInv, TypeOK, DatabaseTypeOK
  <2>10. TaskHolds'
    BY <1>0, <2>1, <2>2 DEF Held, TaskHolds, TasksApart, MonitorHolds, TransferHolds
  <2>11. TasksApart'
    BY <1>0, <2>1, <2>2 DEF Held, TasksApart, TaskHolds
  <2>12. MonitorHolds'
    BY <1>0, <2>1, <2>2 DEF Held, MonitorHolds, TaskHolds, TransferHolds, LiveTransferHasItem
  <2>13. TransferHolds'
    BY <1>0, <2>1, <2>2 DEF Held, TransferHolds, TaskHolds, MonitorHolds, LiveTransferHasItem
  <2>14. LiveTransferHasItem'
    BY <1>0, <2>1, <2>2 DEF Held, LiveTransferHasItem, TransferHolds, TaskHolds, MonitorHolds
  <2>15. DownloadingHasOwner'
    BY <1>0, <2>1, <2>2 DEF Held, DownloadingHasOwner, TaskHolds, MonitorHolds, Outstanding
  <2> QED
    BY <2>10, <2>11, <2>12, <2>13, <2>14, <2>15 DEF Held
<1> QED
  BY <1>a, <1>b DEF Placeholder

LEMMA HeldReceive ==
  ASSUME TypeInv, Held, NEW i \in Items, Receive(i)
  PROVE  Held'
<1> USE DEF Procs, Holding, Judging
<1>1. /\ task'[Monitor].pc = (IF transfer[i] = "ok" THEN "succeed" ELSE "fail")
      /\ task'[Monitor].item = i
      /\ \A q \in Procs : q # Monitor => task'[q] = task[q]
  <2> DEFINE label == IF transfer[i] = "ok" THEN "succeed" ELSE "fail"
             r == [Idle EXCEPT !.pc = label, !.job = source[i], !.item = i,
                     !.known = RowExists(source[i]),
                     !.seen = IF RowExists(source[i]) THEN retryCount[source[i]] ELSE 1]
  <2>1. r.pc = label /\ r.item = i
    BY DEF Idle
  <2>2. Set(Monitor, r)
    BY DEF Receive
  <2> HIDE DEF r
  <2> QED
    BY <2>1, <2>2, AfterSet
<1>2. /\ transfer[i] \in {"ok", "err"} /\ transfer'[i] = "taken"
      /\ \A j \in Items : j # i => transfer'[j] = transfer[j]
  BY DEF Receive, TypeInv, TypeOK
<1>3. task[Monitor].pc = "idle" /\ UNCHANGED itemStatus
  BY DEF Receive, At, dbVars
<1>10. TaskHolds'
  BY <1>1, <1>2, <1>3, SlotsAssumption DEF Held, TaskHolds, TasksApart, MonitorHolds, TransferHolds
<1>11. TasksApart'
  BY <1>1, <1>2, <1>3, SlotsAssumption DEF Held, TasksApart, TaskHolds
<1>12. MonitorHolds'
  BY <1>1, <1>2, <1>3, SlotsAssumption DEF Held, MonitorHolds, TaskHolds, TransferHolds, LiveTransferHasItem
<1>13. TransferHolds'
  BY <1>1, <1>2, <1>3, SlotsAssumption DEF Held, TransferHolds, TaskHolds, MonitorHolds, LiveTransferHasItem
<1>14. LiveTransferHasItem'
  BY <1>1, <1>2, <1>3, SlotsAssumption DEF Held, LiveTransferHasItem, TransferHolds, TaskHolds, MonitorHolds
<1>15. DownloadingHasOwner'
  BY <1>1, <1>2, <1>3, SlotsAssumption DEF Held, DownloadingHasOwner, TaskHolds, MonitorHolds, Outstanding
<1> QED
  BY <1>10, <1>11, <1>12, <1>13, <1>14, <1>15 DEF Held

LEMMA HeldSucceed ==
  ASSUME TypeInv, Held, Succeed
  PROVE  Held'
<1> USE DEF Procs, Holding, Judging
<1> DEFINE x == task[Monitor].item
<1>1. /\ task'[Monitor].pc \in {"drop"}
      /\ \A q \in Procs : q # Monitor => task'[q] = task[q]
  BY AfterGoto DEF Succeed
<1>2. task[Monitor].pc = "succeed" /\ x \in Items /\ UNCHANGED transfer
  BY DEF Succeed, At, netVars, Held, MonitorHolds
<1>3. /\ itemStatus'[x] = (IF itemStatus[x] \in {"none", "deleted"} THEN itemStatus[x] ELSE "completed")
      /\ \A j \in Items : j # x => itemStatus'[j] = itemStatus[j]
  BY <1>2 DEF Succeed, UpdateItemStatus, ItemExists, TypeInv, TypeOK, DatabaseTypeOK
<1> HIDE DEF x
<1>4. x = task[Monitor].item
  BY DEF x
<1>10. TaskHolds'
  BY <1>1, <1>2, <1>3, <1>4, SlotsAssumption DEF Held, TaskHolds, TasksApart, MonitorHolds, TransferHolds
<1>11. TasksApart'
  BY <1>1, <1>2, <1>3, <1>4, SlotsAssumption DEF Held, TasksApart, TaskHolds
<1>12. MonitorHolds'
  BY <1>1, <1>2, <1>3, <1>4, SlotsAssumption DEF Held, MonitorHolds, TaskHolds, TransferHolds, LiveTransferHasItem
<1>13. TransferHolds'
  BY <1>1, <1>2, <1>3, <1>4, SlotsAssumption DEF Held, TransferHolds, TaskHolds, MonitorHolds, LiveTransferHasItem
<1>14. LiveTransferHasItem'
  BY <1>1, <1>2, <1>3, <1>4, SlotsAssumption DEF Held, LiveTransferHasItem, TransferHolds, TaskHolds, MonitorHolds
<1>15. DownloadingHasOwner'
  BY <1>1, <1>2, <1>3, <1>4, SlotsAssumption DEF Held, DownloadingHasOwner, TaskHolds, MonitorHolds, Outstanding
<1> QED
  BY <1>10, <1>11, <1>12, <1>13, <1>14, <1>15 DEF Held

LEMMA HeldFail ==
  ASSUME TypeInv, Held, Fail
  PROVE  Held'
<1> USE DEF Procs, Holding, Judging
<1> DEFINE x == task[Monitor].item
<1>1. /\ task'[Monitor].pc \in {"count", "settle"}
      /\ \A q \in Procs : q # Monitor => task'[q] = task[q]
  BY AfterProgress DEF Fail
<1>2. task[Monitor].pc = "fail" /\ x \in Items /\ UNCHANGED transfer
  BY DEF Fail, At, netVars, Held, MonitorHolds
<1>3. /\ itemStatus'[x] = (IF itemStatus[x] \in {"none", "deleted"} THEN itemStatus[x] ELSE "failed")
      /\ \A j \in Items : j # x => itemStatus'[j] = itemStatus[j]
  BY <1>2 DEF Fail, UpdateItemStatus, ItemExists, TypeInv, TypeOK, DatabaseTypeOK
<1> HIDE DEF x
<1>4. x = task[Monitor].item
  BY DEF x
<1>10. TaskHolds'
  BY <1>1, <1>2, <1>3, <1>4, SlotsAssumption DEF Held, TaskHolds, TasksApart, MonitorHolds, TransferHolds
<1>11. TasksApart'
  BY <1>1, <1>2, <1>3, <1>4, SlotsAssumption DEF Held, TasksApart, TaskHolds
<1>12. MonitorHolds'
  BY <1>1, <1>2, <1>3, <1>4, SlotsAssumption DEF Held, MonitorHolds, TaskHolds, TransferHolds, LiveTransferHasItem
<1>13. TransferHolds'
  BY <1>1, <1>2, <1>3, <1>4, SlotsAssumption DEF Held, TransferHolds, TaskHolds, MonitorHolds, LiveTransferHasItem
<1>14. LiveTransferHasItem'
  BY <1>1, <1>2, <1>3, <1>4, SlotsAssumption DEF Held, LiveTransferHasItem, TransferHolds, TaskHolds, MonitorHolds
<1>15. DownloadingHasOwner'
  BY <1>1, <1>2, <1>3, <1>4, SlotsAssumption DEF Held, DownloadingHasOwner, TaskHolds, MonitorHolds, Outstanding
<1> QED
  BY <1>10, <1>11, <1>12, <1>13, <1>14, <1>15 DEF Held

LEMMA HeldTransferDone ==
  ASSUME TypeInv, Held, NEW i \in Items, TransferDone(i)
  PROVE  Held'
<1> USE DEF Procs, Holding, Judging
<1>1. /\ transfer[i] = "receiving" /\ transfer'[i] \in {"ok", "err"}
      /\ \A j \in Items : j # i => transfer'[j] = transfer[j]
  BY DEF TransferDone, TypeInv, TypeOK
<1>2. UNCHANGED <<task, itemStatus>>
  BY DEF TransferDone, dbVars
<1>10. TaskHolds'
  BY <1>1, <1>2 DEF Held, TaskHolds, TasksApart, MonitorHolds, TransferHolds
<1>11. TasksApart'
  BY <1>1, <1>2 DEF Held, TasksApart, TaskHolds
<1>12. MonitorHolds'
  BY <1>1, <1>2 DEF Held, MonitorHolds, TaskHolds, TransferHolds, LiveTransferHasItem
<1>13. TransferHolds'
  BY <1>1, <1>2 DEF Held, TransferHolds, TaskHolds, MonitorHolds, LiveTransferHasItem
<1>14. LiveTransferHasItem'
  BY <1>1, <1>2 DEF Held, LiveTransferHasItem, TransferHolds, TaskHolds, MonitorHolds
<1>15. DownloadingHasOwner'
  BY <1>1, <1>2 DEF Held, DownloadingHasOwner, TaskHolds, MonitorHolds, Outstanding
<1> QED
  BY <1>10, <1>11, <1>12, <1>13, <1>14, <1>15 DEF Held

LEMMA HeldRestart ==
  ASSUME TypeInv, Held, Restart
  PROVE  Held'
<1> USE DEF Procs, Holding, Judging
<1>1. \A q \in Procs : task'[q].pc = "idle"
  BY DEF Restart, Idle
<1>2. \A j \in Items :
        /\ itemStatus'[j] = (IF itemStatus[j] = "downloading" THEN "failed" ELSE itemStatus[j])
        /\ transfer'[j] = (IF transfer[j] \in {"receiving", "ok", "err"} THEN "none" ELSE transfer[j])
  BY DEF Restart, RecoveredItems
<1>10. TaskHolds'
  BY <1>1, <1>2 DEF Held, TaskHolds, TasksApart, MonitorHolds, TransferHolds
<1>11. TasksApart'
  BY <1>1, <1>2 DEF Held, TasksApart, TaskHolds
<1>12. MonitorHolds'
  BY <1>1, <1>2 DEF Held, MonitorHolds, TaskHolds, TransferHolds, LiveTransferHasItem
<1>13. TransferHolds'
  BY <1>1, <1>2 DEF Held, TransferHolds, TaskHolds, MonitorHolds, LiveTransferHasItem
<1>14. LiveTransferHasItem'
  BY <1>1, <1>2 DEF Held, LiveTransferHasItem, TransferHolds, TaskHolds, MonitorHolds
<1>15. DownloadingHasOwner'
  BY <1>1, <1>2 DEF Held, DownloadingHasOwner, TaskHolds, MonitorHolds, Outstanding
<1> QED
  BY <1>10, <1>11, <1>12, <1>13, <1>14, <1>15 DEF Held

LEMMA HeldRequest ==
  ASSUME TypeInv, Held, Request
  PROVE  Held'
<1>1. UNCHANGED <<task, transfer>>
  BY DEF Request, CreateList, RequestDeleteList, EnqueueSearch, CancelSearch,
     RequestDeleteItem, RemoveItemFromList, CountDelete, netVars
<1>2. \A i \in Items : itemStatus'[i] \in {itemStatus[i], "deleted"}
  BY DEF Request, CreateList, RequestDeleteList, EnqueueSearch, CancelSearch,
     RequestDeleteItem, RemoveItemFromList, DeleteItem, TypeInv, TypeOK, DatabaseTypeOK
<1> QED
  BY <1>1, <1>2, DeleteStep

LEMMA HeldStep == TypeInv /\ Held /\ [Next]_vars => Held'
<1> SUFFICES ASSUME TypeInv, Held, [Next]_vars PROVE Held'
  OBVIOUS
<1>1. CASE UNCHANGED vars
  BY <1>1, DeleteStep DEF vars, dbVars, netVars
<1>2. CASE ClaimNext
  BY <1>2, FreeSteps
<1>3. ASSUME NEW t \in Slots, TaskStep(t) PROVE Held'
  BY <1>3, FreeSteps, HeldAnnounce, HeldAttach, HeldInitiate, HeldInitFailed, HeldMarkFailed,
     HeldCreate, HeldPlaceholder
     DEF TaskStep, Procs
<1>4. CASE MonitorStep
  BY <1>4, FreeSteps, HeldReceive, HeldSucceed, HeldFail DEF MonitorStep, Procs
<1> QED
  BY <1>1, <1>2, <1>3, <1>4, HeldTransferDone, HeldRequest, HeldRestart DEF Next

LEMMA IInvariant == Spec => []IInv
<1>1. Init => IInv
  BY InitType, InitHeld DEF IInv
<1>2. IInv /\ [Next]_vars => IInv'
  BY TypeStep, HeldStep DEF IInv
<1> QED
  BY <1>1, <1>2, PTL DEF Spec

\* No item is ever left "downloading" without somebody who will still write
\* its outcome, however many tasks, transfers, deletions and restarts interleave.
THEOREM DownloadsHaveOwners == Spec => []DownloadingHasOwner
<1>1. IInv => DownloadingHasOwner
  BY DEF IInv, Held
<1> QED
  BY <1>1, IInvariant, PTL

\* A transfer that still delivers a file belongs to an item that still says
\* "downloading", or that was deleted: no failure is recorded for it early.
THEOREM LiveTransfersHaveItems == Spec => []LiveTransferHasItem
<1>1. IInv => LiveTransferHasItem
  BY DEF IInv, Held
<1> QED
  BY <1>1, IInvariant, PTL

-----------------------------------------------------------------------------
(* The life cycle of items *)

\* UpdateItemStatus moves an item of a known status, and leaves a deleted one.
LEMMA UpdateMoves ==
  ASSUME TypeInv, NEW i \in Items, NEW from, NEW to,
         itemStatus[i] \in from \cup {to, "deleted"}, UpdateItemStatus(i, to)
  PROVE  UNCHANGED itemStatus \/ Lifecycle!Move(i, from, to)
<1>1. itemStatus \in [Items -> ItemStatus]
  BY DEF TypeInv, TypeOK, DatabaseTypeOK
<1>2. CASE itemStatus[i] \in {"none", "deleted"}
  BY <1>2 DEF UpdateItemStatus, ItemExists
<1>3. CASE itemStatus[i] = to
  <2>1. [itemStatus EXCEPT ![i] = to] = itemStatus
    BY <1>1, <1>3
  <2> QED
    BY <2>1 DEF UpdateItemStatus
<1>4. CASE itemStatus[i] \in from /\ itemStatus[i] \notin {"none", "deleted"}
  BY <1>4 DEF UpdateItemStatus, ItemExists, Lifecycle!Move
<1> QED
  BY <1>2, <1>3, <1>4

LEMMA DeleteMoves ==
  ASSUME TypeInv, NEW i, DeleteItem(i)
  PROVE  UNCHANGED itemStatus \/ \E j \in Items : Lifecycle!Delete(j)
<1>1. CASE ItemExists(i)
  <2>1. i \in Items /\ itemStatus[i] \in Lifecycle!Stages \ {"none", "deleted"}
    BY <1>1 DEF ItemExists, Lifecycle!Stages, ItemStatus, TypeInv, TypeOK, DatabaseTypeOK
  <2> QED
    BY <1>1, <2>1 DEF DeleteItem, Lifecycle!Delete, Lifecycle!Move
<1>2. CASE ~ItemExists(i)
  BY <1>2 DEF DeleteItem
<1> QED
  BY <1>1, <1>2

LEMMA LifecycleStep ==
  IInv /\ [Next]_vars => [Lifecycle!Next]_itemStatus
<1> SUFFICES ASSUME IInv, [Next]_vars
             PROVE  Lifecycle!Next \/ UNCHANGED itemStatus
  OBVIOUS
<1> DEFINE L == Lifecycle!Next \/ UNCHANGED itemStatus
<1> USE DEF IInv, At, Procs
<1>1. ASSUME NEW t \in Slots, Announce(t) PROVE L
  <2>1. task[t].item \in Items /\ itemStatus[task[t].item] \in {"pending", "deleted"}
    BY <1>1 DEF Announce, Held, TaskHolds, Holding
  <2> QED
    BY <1>1, <2>1, UpdateMoves DEF Announce, Lifecycle!Next, Lifecycle!Start
<1>2. ASSUME NEW t \in Slots, InitFailed(t) PROVE L
  <2>1. /\ task[t].item \in Items
        /\ itemStatus[task[t].item] \in {"downloading", "failed", "deleted"}
    BY <1>2 DEF InitFailed, Held, TaskHolds, Holding
  <2> QED
    BY <1>2, <2>1, UpdateMoves DEF InitFailed, Lifecycle!Next, Lifecycle!Fail
<1>3. ASSUME NEW t \in Slots, MarkFailed(t) PROVE L
  <2>1. task[t].item \in Items /\ itemStatus[task[t].item] \in {"pending", "deleted"}
    BY <1>3 DEF MarkFailed, Held, TaskHolds, Holding
  <2> QED
    BY <1>3, <2>1, UpdateMoves DEF MarkFailed, Lifecycle!Next, Lifecycle!Fail
<1>4. ASSUME Succeed PROVE L
  <2>1. /\ task[Monitor].item \in Items
        /\ itemStatus[task[Monitor].item] \in {"downloading", "deleted"}
    BY <1>4 DEF Succeed, Held, MonitorHolds, Judging
  <2> QED
    BY <1>4, <2>1, UpdateMoves DEF Succeed, Lifecycle!Next, Lifecycle!Complete
<1>5. ASSUME Fail PROVE L
  <2>1. /\ task[Monitor].item \in Items
        /\ itemStatus[task[Monitor].item] \in {"downloading", "failed", "deleted"}
    BY <1>5 DEF Fail, Held, MonitorHolds, Judging
  <2> QED
    BY <1>5, <2>1, UpdateMoves DEF Fail, Lifecycle!Next, Lifecycle!Fail
<1>6. ASSUME NEW i \in Items, NEW p, CreateItem(i, p, "pending") PROVE L
  BY <1>6 DEF CreateItem, NextItem, Lifecycle!Next, Lifecycle!Create, Lifecycle!Move
<1>7. ASSUME NEW i, DeleteItem(i) PROVE L
  BY <1>7, DeleteMoves DEF Lifecycle!Next
<1>8. ASSUME Restart PROVE L
  BY <1>8 DEF Restart, RecoveredItems, Lifecycle!Next, Lifecycle!Interrupt
<1>9. ASSUME NEW t \in Slots, Create(t) \/ Placeholder(t) PROVE L
  BY <1>6, <1>9 DEF Create, Placeholder
<1>10. ASSUME NEW t \in Slots, Replace(t) PROVE L
  BY <1>7, <1>10 DEF Replace
<1>11. ASSUME Request PROVE L
  BY <1>7, <1>11 DEF Request, CreateList, RequestDeleteList, EnqueueSearch, CancelSearch,
     RequestDeleteItem, RemoveItemFromList
<1>12. ASSUME NEW p \in Procs, UpdateListProgress(p) PROVE L
  BY <1>12 DEF UpdateListProgress, Count, CountPending, WriteProgress, dbVars
<1>13. ASSUME NEW t \in Slots, TaskStep(t) PROVE L
  BY <1>1, <1>2, <1>3, <1>9, <1>10, <1>12, <1>13
     DEF TaskStep, Verify, Dedup, Pick, Search, Lookup, Attach, Initiate, Link, Reuse,
         ReuseAttach, Purge, Retry, GiveUp, AttachFailed, dbVars
<1>14. ASSUME MonitorStep PROVE L
  BY <1>4, <1>5, <1>12, <1>14 DEF MonitorStep, Receive, Drop, Settle, dbVars
<1>15. CASE ClaimNext \/ (\E i \in Items : TransferDone(i)) \/ UNCHANGED vars
  BY <1>15 DEF ClaimNext, Claim, TransferDone, vars, dbVars
<1> QED
  BY <1>8, <1>11, <1>13, <1>14, <1>15 DEF Next

\* The worker, the monitor, the requests and the recovery, which all write an
\* item's status blindly, together keep the life cycle of items: announced
\* once, ended once, and nothing but deletion after the outcome.
THEOREM QueueImplementsLifecycle == Spec => ImplementsLifecycle
<1>1. Init => Lifecycle!Init
  BY DEF Init, DatabaseInit, Lifecycle!Init
<1> QED
  BY <1>1, LifecycleStep, IInvariant, PTL DEF Spec, ImplementsLifecycle, Lifecycle!Spec

-----------------------------------------------------------------------------
(* The lists after a restart.  The recovery counts an item of a list that is   *)
(* neither completed nor failed as one to wait for, so that it matters that    *)
(* only announced items are put on a list: the recovery ends those.            *)

Announced == {"downloading", "completed", "failed"}
Listing   == {"reuse", "reuseAttach", "attachFailed"}

ListedAnnounced ==
  \A l \in Lists, i \in Items : <<l, i>> \in listed => itemStatus[i] \in Announced

\* What a task is about to put on a list has its outcome, unless it was deleted.
ListingHolds ==
  \A t \in Slots :
    task[t].pc \in Listing =>
      /\ task[t].item \in Items
      /\ itemStatus[task[t].item] \in
           {IF task[t].pc = "attachFailed" THEN "failed" ELSE "completed", "deleted"}

LInv == IInv /\ ListedAnnounced /\ ListingHolds

\* Only these steps lead to a step that puts an item with an outcome on a list.
LEMMA ListingBegins ==
  ASSUME TypeInv, [Next]_vars, NEW t \in Slots, task'[t].pc \in Listing
  PROVE  task'[t] = task[t] \/ MarkFailed(t) \/ Dedup(t) \/ Lookup(t) \/ Reuse(t)
<1> DEFINE D == task'[t] = task[t] \/ MarkFailed(t) \/ Dedup(t) \/ Lookup(t) \/ Reuse(t)
<1> USE DEF Listing
<1>0. t \in Procs /\ Monitor \in Procs /\ \A q \in Slots : q \in Procs
  BY DEF Procs
<1>1. ASSUME NEW q \in Procs, NEW label, label \notin Listing, Set(q, Goto(q, label))
      PROVE  D
  BY <1>0, <1>1, AfterGoto
<1>2. ASSUME NEW q \in Procs, NEW label, label \notin Listing, Set(q, Progress(q, label))
      PROVE  D
  BY <1>0, <1>2, AfterProgress
<1>3. ASSUME NEW q \in Procs, Set(q, Idle) PROVE D
  BY <1>0, <1>3, AfterIdle
<1>4. ASSUME NEW q \in Procs, NEW label, label \notin Listing, NEW i,
             Set(q, [task[q] EXCEPT !.pc = label, !.item = i])
      PROVE  D
  BY <1>0, <1>4, AfterItem
<1>5. ASSUME NEW q \in Procs, NEW path,
             Set(q, [task[q] EXCEPT !.pc = "lookup", !.path = path])
      PROVE  D
  BY <1>0, <1>5, AfterPath
<1>6. ASSUME NEW q \in Procs, UpdateListProgress(q) PROVE D
  BY <1>0, <1>6, AfterListProgress
<1>7. ASSUME NEW q \in Slots, NEW e \in Entries, Claim(q, e) PROVE D
  <2> DEFINE r == [Idle EXCEPT !.pc = "verify", !.job = e, !.seen = retryCount[e]]
  <2>1. r.pc = "verify" /\ Set(q, r)
    BY <1>7 DEF Claim, Idle
  <2> HIDE DEF r
  <2> QED
    BY <1>0, <2>1, AfterSet
<1>8. ASSUME NEW i \in Items, Receive(i) PROVE D
  <2>1. \E r : Set(Monitor, r)
    BY <1>8 DEF Receive
  <2>2. t # Monitor
    BY SlotsAssumption
  <2> QED
    BY <1>0, <2>1, <2>2, AfterSet
<1>9. ASSUME NEW q \in Slots,
             Verify(q) \/ Announce(q) \/ Initiate(q) \/ InitFailed(q) \/ Attach(q) \/ GiveUp(q)
      PROVE  D
  <2>1. PICK label : label \notin Listing /\ Set(q, Goto(q, label))
    BY <1>9 DEF Verify, Announce, Initiate, InitFailed, Attach, GiveUp, OnError
  <2> QED
    BY <1>0, <1>1, <2>1
<1>10. ASSUME NEW q \in Slots, Link(q) \/ Purge(q) \/ Retry(q) \/ ReuseAttach(q) \/ AttachFailed(q)
       PROVE  D
  <2>1. \/ Set(q, Idle) \/ Set(q, Progress(q, "idle")) \/ Set(q, Progress(q, "purge"))
    BY <1>10 DEF Link, Purge, Retry, ReuseAttach, AttachFailed
  <2> QED
    BY <1>0, <1>2, <1>3, <2>1
<1>11. ASSUME NEW q \in Slots, Pick(q) \/ Search(q) PROVE D
  <2>1. \/ \E path : Set(q, [task[q] EXCEPT !.pc = "lookup", !.path = path])
        \/ \E label \in {"search", "retry", "giveUp"} : Set(q, Goto(q, label))
    BY <1>11 DEF Pick, Search, OnError
  <2> QED
    BY <1>0, <1>1, <1>5, <2>1
<1>12. ASSUME NEW q \in Slots, Replace(q) \/ Create(q) PROVE D
  <2>1. \/ Set(q, Goto(q, OnError(q)))
        \/ \E i : \/ Set(q, [task[q] EXCEPT !.pc = "create", !.item = i])
                  \/ Set(q, [task[q] EXCEPT !.pc = "announce", !.item = i])
    BY <1>12 DEF Replace, Create
  <2> QED
    BY <1>0, <1>1, <1>4, <2>1 DEF OnError
<1>13. ASSUME NEW q \in Slots, Placeholder(q) PROVE D
  <2>1. \/ Set(q, Progress(q, "idle"))
        \/ \E i : Set(q, [task[q] EXCEPT !.pc = "markFailed", !.item = i])
    BY <1>13 DEF Placeholder
  <2> QED
    BY <1>0, <1>2, <1>4, <2>1
<1>14. ASSUME NEW q \in Slots, Dedup(q) \/ Lookup(q) \/ Reuse(q) \/ MarkFailed(q) PROVE D
  <2>1. \E r : Set(q, r)
    BY <1>14 DEF Dedup, Lookup, Reuse, MarkFailed
  <2>2. q # t => task'[t] = task[t]
    BY <1>0, <2>1, AfterSet
  <2> QED
    BY <1>14, <2>2
<1>15. ASSUME NEW q \in Slots, TaskStep(q) PROVE D
  BY <1>0, <1>6, <1>9, <1>10, <1>11, <1>12, <1>13, <1>14, <1>15 DEF TaskStep
<1>16. ASSUME Succeed \/ Drop \/ Fail \/ Settle PROVE D
  <2>1. \/ Set(Monitor, Idle) \/ Set(Monitor, Goto(Monitor, "drop"))
        \/ Set(Monitor, Progress(Monitor, "idle")) \/ Set(Monitor, Progress(Monitor, "settle"))
    BY <1>16 DEF Succeed, Drop, Fail, Settle
  <2> QED
    BY <1>0, <1>1, <1>2, <1>3, <2>1
<1>17. CASE Request \/ (\E i \in Items : TransferDone(i)) \/ UNCHANGED vars
  BY <1>17, Zenon
     DEF Request, CreateList, RequestDeleteList, EnqueueSearch, CancelSearch,
         RequestDeleteItem, RemoveItemFromList, CountDelete, TransferDone, vars
<1>18. CASE Restart
  BY <1>0, <1>18 DEF Restart, Idle
<1> QED
  BY <1>0, <1>6, <1>7, <1>8, <1>15, <1>16, <1>17, <1>18 DEF Next, ClaimNext, MonitorStep

\* An outcome is final, and a download ends in one, unless the item is deleted.
LEMMA StatusKept ==
  ASSUME IInv, [Next]_vars, NEW i \in Items
  PROVE  /\ itemStatus[i] \in {"completed", "failed", "deleted"} =>
              itemStatus'[i] \in {itemStatus[i], "deleted"}
         /\ itemStatus[i] = "downloading" => itemStatus'[i] \in Announced \cup {"deleted"}
<1>1. [Lifecycle!Next]_itemStatus
  BY LifecycleStep
<1>2. itemStatus \in [Items -> ItemStatus]
  BY DEF IInv, TypeInv, TypeOK, DatabaseTypeOK
<1>3. ASSUME NEW j \in Items, NEW from, NEW to, Lifecycle!Move(j, from, to)
      PROVE  /\ itemStatus[j] \in from
             /\ itemStatus'[i] = IF i = j THEN to ELSE itemStatus[i]
  BY <1>2, <1>3 DEF Lifecycle!Move
<1>4. CASE Lifecycle!Interrupt
  BY <1>4 DEF Lifecycle!Interrupt, Announced
<1>5. ASSUME NEW j \in Items,
             \/ Lifecycle!Create(j) \/ Lifecycle!Start(j) \/ Lifecycle!Complete(j)
             \/ Lifecycle!Fail(j) \/ Lifecycle!Delete(j)
      PROVE  /\ itemStatus[i] \in {"completed", "failed", "deleted"} =>
                  itemStatus'[i] \in {itemStatus[i], "deleted"}
             /\ itemStatus[i] = "downloading" => itemStatus'[i] \in Announced \cup {"deleted"}
  BY <1>3, <1>5 DEF Lifecycle!Create, Lifecycle!Start, Lifecycle!Complete, Lifecycle!Fail,
     Lifecycle!Delete, Lifecycle!Stages, Announced
<1> QED
  BY <1>1, <1>4, <1>5 DEF Lifecycle!Next, Announced

LEMMA ListingKept ==
  ASSUME LInv, [Next]_vars
  PROVE  ListingHolds'
<1> SUFFICES ASSUME NEW t \in Slots, task'[t].pc \in Listing
             PROVE  /\ task'[t].item \in Items
                    /\ itemStatus'[task'[t].item] \in
                         {IF task'[t].pc = "attachFailed" THEN "failed" ELSE "completed",
                          "deleted"}
  BY DEF ListingHolds
<1> USE DEF Listing
<1>0. IInv /\ TypeInv /\ t \in Procs
  BY DEF LInv, IInv, Procs
<1>1. CASE task'[t] = task[t]
  <2>1. /\ task[t].item \in Items
        /\ itemStatus[task[t].item] \in
             {IF task[t].pc = "attachFailed" THEN "failed" ELSE "completed", "deleted"}
    BY <1>1 DEF LInv, ListingHolds
  <2>2. itemStatus'[task[t].item] \in {itemStatus[task[t].item], "deleted"}
    BY <1>0, <2>1, StatusKept
  <2> QED
    BY <1>1, <2>1, <2>2
<1>2. CASE MarkFailed(t)
  <2>1. task'[t].pc = "attachFailed" /\ task'[t].item = task[t].item
    BY <1>0, <1>2, AfterGoto DEF MarkFailed
  <2>2. task[t].item \in Items /\ itemStatus[task[t].item] \in {"pending", "deleted"}
    BY <1>2 DEF MarkFailed, At, LInv, IInv, Held, TaskHolds, Holding
  <2>3. itemStatus'[task[t].item] \in {"failed", "deleted"}
    BY <1>0, <1>2, <2>2
       DEF MarkFailed, UpdateItemStatus, ItemExists, TypeInv, TypeOK, DatabaseTypeOK
  <2> QED
    BY <2>1, <2>2, <2>3
<1>3. CASE Reuse(t)
  <2>1. /\ task[t].pc = "reuse" /\ task'[t].pc # "attachFailed"
        /\ task'[t].item = task[t].item
    <3>1. PICK label \in {"purge", "reuseAttach"} : Set(t, Goto(t, label))
      BY <1>3 DEF Reuse
    <3> QED
      BY <1>0, <1>3, <3>1, AfterGoto DEF Reuse, At
  <2>2. UNCHANGED itemStatus
    BY <1>3 DEF Reuse
  <2> QED
    BY <2>1, <2>2 DEF LInv, ListingHolds
<1>4. CASE Dedup(t) \/ Lookup(t)
  <2>1. UNCHANGED itemStatus
    BY <1>4 DEF Dedup, Lookup, dbVars
  <2>2. \/ \E label \in {"pick", "create"} : Set(t, Goto(t, label))
        \/ \E i \in Items, label \in {"reuse", "replace"} :
             /\ label = "reuse" => itemStatus[i] = "completed"
             /\ Set(t, [task[t] EXCEPT !.pc = label, !.item = i])
    BY <1>4 DEF Dedup, Lookup, ItemsAt
  <2>3. CASE \E label \in {"pick", "create"} : Set(t, Goto(t, label))
    BY <1>0, <2>3, AfterGoto
  <2>4. ASSUME NEW i \in Items, NEW label \in {"reuse", "replace"},
               label = "reuse" => itemStatus[i] = "completed",
               Set(t, [task[t] EXCEPT !.pc = label, !.item = i])
        PROVE  task'[t].pc = "reuse" /\ task'[t].item = i /\ itemStatus[i] = "completed"
    <3>1. task'[t].pc = label /\ task'[t].item = i
      BY <1>0, <2>4, AfterItem
    <3> QED
      BY <2>4, <3>1
  <2> QED
    BY <2>1, <2>2, <2>3, <2>4
<1> QED
  BY <1>0, <1>1, <1>2, <1>3, <1>4, ListingBegins

\* A deleted item leaves its lists in the same step.
LEMMA ListsChange ==
  ASSUME TypeInv, [Next]_vars, NEW i \in Items
  PROVE  \/ /\ listed' \subseteq listed
            /\ itemStatus'[i] = "deleted" => itemStatus[i] = "deleted"
         \/ \E j : DeleteItem(j)
         \/ \E t \in Slots : Attach(t) \/ AttachFailed(t) \/ ReuseAttach(t)
<1> DEFINE K == /\ listed' \subseteq listed
                /\ itemStatus'[i] = "deleted" => itemStatus[i] = "deleted"
           D == \E j : DeleteItem(j)
<1>1. ASSUME UNCHANGED listed, NEW j, NEW s \in {"downloading", "completed", "failed"},
             UpdateItemStatus(j, s)
      PROVE  K
  BY <1>1 DEF UpdateItemStatus, TypeInv, TypeOK, DatabaseTypeOK
<1>2. ASSUME UNCHANGED listed, NEW j, NEW p, CreateItem(j, p, "pending") PROVE K
  BY <1>2 DEF CreateItem, TypeInv, TypeOK, DatabaseTypeOK
<1>3. ASSUME listed' \subseteq listed, UNCHANGED itemStatus PROVE K
  BY <1>3
<1>4. ASSUME NEW t \in Slots, Announce(t) \/ InitFailed(t) \/ MarkFailed(t) PROVE K
  BY <1>1, <1>4 DEF Announce, InitFailed, MarkFailed
<1>5. ASSUME Succeed \/ Fail PROVE K
  BY <1>1, <1>5 DEF Succeed, Fail
<1>6. ASSUME NEW t \in Slots, Create(t) \/ Placeholder(t) PROVE K
  BY <1>2, <1>3, <1>6 DEF Create, Placeholder
<1>7. ASSUME NEW t \in Slots, Replace(t) PROVE D
  BY <1>7 DEF Replace
<1>8. ASSUME NEW p \in Procs, UpdateListProgress(p) PROVE K
  BY <1>3, <1>8 DEF UpdateListProgress, Count, CountPending, WriteProgress, dbVars
<1>9. ASSUME NEW t \in Slots, TaskStep(t)
      PROVE  K \/ D \/ Attach(t) \/ AttachFailed(t) \/ ReuseAttach(t)
  <2>1. CASE \/ Verify(t) \/ Dedup(t) \/ Pick(t) \/ Search(t) \/ Lookup(t) \/ Initiate(t)
             \/ Link(t) \/ Reuse(t) \/ Purge(t) \/ Retry(t) \/ GiveUp(t)
    <3>1. UNCHANGED <<listed, itemStatus>>
      BY <2>1, Zenon DEF Verify, Dedup, Pick, Search, Lookup, Initiate, Link, Reuse,
         Purge, Retry, GiveUp, dbVars
    <3> QED
      BY <1>3, <3>1
  <2>2. t \in Procs
    BY DEF Procs
  <2> QED
    BY <1>4, <1>6, <1>7, <1>8, <1>9, <2>1, <2>2 DEF TaskStep
<1>10. ASSUME MonitorStep PROVE K
  <2>1. CASE (\E j \in Items : Receive(j)) \/ Drop \/ Settle
    <3>1. UNCHANGED <<listed, itemStatus>>
      BY <2>1, Zenon DEF Receive, Drop, Settle, dbVars
    <3> QED
      BY <1>3, <3>1
  <2> QED
    BY <1>5, <1>8, <1>10, <2>1 DEF MonitorStep, Procs
<1>11. ASSUME Request PROVE K \/ D
  BY <1>3, <1>11 DEF Request, CreateList, RequestDeleteList, DeleteList, EnqueueSearch,
     CancelSearch, RequestDeleteItem, RemoveItemFromList
<1>12. ASSUME Restart PROVE K
  BY <1>12 DEF Restart, RecoveredItems
<1>13. CASE ClaimNext \/ (\E j \in Items : TransferDone(j)) \/ UNCHANGED vars
  BY <1>3, <1>13 DEF ClaimNext, Claim, TransferDone, vars, dbVars
<1> QED
  BY <1>9, <1>10, <1>11, <1>12, <1>13 DEF Next

LEMMA ListedKept ==
  ASSUME LInv, [Next]_vars
  PROVE  ListedAnnounced'
<1> SUFFICES ASSUME NEW l \in Lists, NEW i \in Items, <<l, i>> \in listed'
             PROVE  itemStatus'[i] \in Announced
  BY DEF ListedAnnounced
<1>0. IInv /\ TypeInv /\ itemStatus \in [Items -> ItemStatus]
  BY DEF LInv, IInv, TypeInv, TypeOK, DatabaseTypeOK
<1>1. ASSUME <<l, i>> \in listed, itemStatus'[i] = "deleted" => itemStatus[i] = "deleted"
      PROVE  itemStatus'[i] \in Announced
  <2>1. itemStatus[i] \in Announced
    BY <1>1 DEF LInv, ListedAnnounced
  <2> QED
    BY <1>0, <1>1, <2>1, StatusKept DEF Announced
<1>2. ASSUME NEW j, DeleteItem(j) PROVE itemStatus'[i] \in Announced
  <2>1. <<l, i>> \in listed /\ i # j
    BY <1>2 DEF DeleteItem
  <2>2. itemStatus'[i] = itemStatus[i]
    BY <1>0, <1>2, <2>1 DEF DeleteItem
  <2> QED
    BY <1>1, <2>1, <2>2
<1>3. ASSUME NEW t \in Slots, Attach(t) \/ AttachFailed(t) \/ ReuseAttach(t)
      PROVE  itemStatus'[i] \in Announced
  <2>1. UNCHANGED itemStatus
    BY <1>3 DEF Attach, AttachFailed, ReuseAttach
  <2>2. CASE <<l, i>> \in listed
    BY <1>1, <2>1, <2>2
  <2>3. CASE <<l, i>> \notin listed
    <3>1. task[t].item = i /\ ItemExists(i)
      BY <1>3, <2>3 DEF Attach, AttachFailed, ReuseAttach, AddItemToList
    <3>2. CASE task[t].pc = "attach"
      BY <2>1, <3>1, <3>2 DEF LInv, IInv, Held, TaskHolds, ItemExists, Announced
    <3>3. CASE task[t].pc \in Listing
      BY <2>1, <3>1, <3>3 DEF LInv, ListingHolds, ItemExists, Announced
    <3> QED
      BY <1>3, <3>2, <3>3 DEF Attach, AttachFailed, ReuseAttach, At, Listing
  <2> QED
    BY <2>2, <2>3
<1> QED
  BY <1>0, <1>1, <1>2, <1>3, ListsChange

LEMMA LInvariant == Spec => []LInv
<1>1. Init => ListedAnnounced /\ ListingHolds
  BY DEF Init, DatabaseInit, ListedAnnounced, ListingHolds, Listing, Idle, Procs
<1>2. IInv /\ IInv' /\ ListedAnnounced /\ ListingHolds /\ [Next]_vars
        => (ListedAnnounced /\ ListingHolds)'
  BY ListedKept, ListingKept DEF LInv
<1> QED
  BY <1>1, <1>2, IInvariant, PTL DEF Spec, LInv

\* Only a restart is counted as one.
LEMMA OnlyRestartCounts ==
  ASSUME [Next]_vars
  PROVE  UNCHANGED crashes \/ Restart
<1>1. ASSUME UNCHANGED boundVars PROVE UNCHANGED crashes
  BY <1>1 DEF boundVars
<1>2. ASSUME NEW p \in Procs, UpdateListProgress(p) PROVE UNCHANGED boundVars
  BY <1>2, Zenon DEF UpdateListProgress, Count, CountPending, WriteProgress
<1>3. ASSUME NEW t \in Slots, TaskStep(t) PROVE UNCHANGED boundVars
  <2>1. t \in Procs
    BY DEF Procs
  <2> QED
    BY <1>2, <1>3, <2>1, Zenon
       DEF TaskStep, Verify, Dedup, Pick, Search, Lookup, Replace, Create, Announce,
           Attach, Initiate, InitFailed, Link, Reuse, ReuseAttach, Purge, Retry, GiveUp,
           Placeholder, MarkFailed, AttachFailed
<1>4. ASSUME MonitorStep PROVE UNCHANGED boundVars
  <2>1. Monitor \in Procs
    BY DEF Procs
  <2> QED
    BY <1>2, <1>4, <2>1, Zenon DEF MonitorStep, Receive, Succeed, Drop, Fail, Settle
<1>5. ASSUME Request PROVE UNCHANGED crashes
  BY <1>1, <1>5, Zenon
     DEF Request, CreateList, RequestDeleteList, EnqueueSearch, CancelSearch,
         RequestDeleteItem, RemoveItemFromList, CountDelete
<1>6. CASE ClaimNext \/ (\E i \in Items : TransferDone(i)) \/ UNCHANGED vars
  <2>1. UNCHANGED boundVars
    BY <1>6, Zenon DEF ClaimNext, Claim, TransferDone, vars
  <2> QED
    BY <1>1, <2>1
<1> QED
  BY <1>1, <1>3, <1>4, <1>5, <1>6 DEF Next

\* No listed item is unresolved after the recovery, and no row in progress.
LEMMA RestartReleases ==
  ASSUME LInv, Restart, NEW l \in Lists, listStatus'[l] = "downloading"
  PROVE  \E e \in Entries : ListOf[e] = l /\ rowStatus'[e] \in Waiting
<1>1. "unresolved" \notin Tally(l, RecoveredItems)
  <2>1. ASSUME NEW i \in Items, <<l, i>> \in listed
        PROVE  RecoveredItems[i] \in {"completed", "failed"}
    BY <2>1 DEF LInv, ListedAnnounced, Announced, RecoveredItems
  <2> HIDE DEF RecoveredItems
  <2> QED
    BY <2>1 DEF Tally
<1>2. listStatus'[l] = IF listStatus[l] = "downloading"
                       THEN ListStatusFor(Tally(l, RecoveredItems),
                                          HasPendingSearches(l, RecoveredRows))
                       ELSE listStatus[l]
  BY DEF Restart, RecoveredLists
<1>3. HasPendingSearches(l, RecoveredRows)
  BY <1>1, <1>2 DEF ListStatusFor
<1>4. PICK e \in Entries : ListOf[e] = l /\ RecoveredRows[e] \in InQueue
  BY <1>3 DEF HasPendingSearches
<1>5. RecoveredRows[e] # "processing"
  BY DEF RecoveredRows
<1>6. rowStatus'[e] \in Waiting
  BY <1>4, <1>5 DEF Restart, InQueue, Waiting
<1> QED
  BY <1>4, <1>6

\* After a restart a list is "downloading" only if a search of it waits in the
\* queue: none waits for a transfer that the crash ended.
THEOREM RestartsReleaseLists == Spec => RestartReleasesLists
<1>1. LInv /\ [Next]_vars =>
        [crashes' # crashes => \A l \in Lists : listStatus'[l] = "downloading" =>
           \E e \in Entries : ListOf[e] = l /\ rowStatus'[e] \in Waiting]_vars
  BY OnlyRestartCounts, RestartReleases
<1> QED
  BY <1>1, LInvariant, PTL DEF Spec, RestartReleasesLists

-----------------------------------------------------------------------------
(***************************************************************************)
(* Why cancelling by status is safe: a row that says "pending" has never   *)
(* been claimed since it was inserted or since the last restart, so nobody *)
(* works for it.  The invariant follows a search from its row to its task, *)
(* to the item the task creates and to the completion the monitor handles. *)
(***************************************************************************)

Unclaimed == {"absent", "pending"}

UnclaimedIsIdle ==
  \A e \in Entries : rowStatus[e] \in Unclaimed =>
    /\ \A p \in Procs : task[p].job # e
    /\ \A i \in Items : source[i] = e => ~Outstanding(i)

\* A task on its way to a transfer starts it for its own search; the monitor
\* starts none.
OwnItem ==
  /\ task[Monitor].pc \notin Announcing
  /\ \A p \in Procs : task[p].pc \in Announcing => source[task[p].item] = task[p].job

Followed == UnclaimedIsIdle /\ OwnItem

-----------------------------------------------------------------------------
(* Whose search a task works for after a step *)

SameJob(p) == /\ task'[p].job \in {task[p].job, NoEntry}
              /\ \A q \in Procs : q # p => task'[q] = task[q]

\* Set to a changed copy of the task's record, or to Idle.
LEMMA JobAfterSet ==
  ASSUME TypeInv, NEW p \in Procs, NEW r, Set(p, r),
         r = Idle \/ r.job = task[p].job
  PROVE  SameJob(p)
BY AfterSet DEF SameJob, Idle

LEMMA JobAfterGoto ==
  ASSUME TypeInv, NEW p \in Procs, NEW label, Set(p, Goto(p, label))
  PROVE  SameJob(p) /\ (label # "idle" => task'[p].job = task[p].job)
<1>1. task[p] \in Task
  BY DEF TypeInv, TypeOK
<1>2. CASE label = "idle"
  BY <1>2, JobAfterSet DEF Goto
<1>3. CASE label # "idle"
  <2>1. Goto(p, label).job = task[p].job
    BY <1>1, <1>3 DEF Goto, Task
  <2> QED
    BY <2>1, AfterSet, JobAfterSet
<1> QED
  BY <1>2, <1>3

LEMMA JobAfterProgress ==
  ASSUME TypeInv, NEW p \in Procs, NEW label, Set(p, Progress(p, label))
  PROVE  SameJob(p)
<1>1. task[p] \in Task
  BY DEF TypeInv, TypeOK
<1>2. CASE ListOf[task[p].job] = NoList
  BY <1>2, JobAfterGoto DEF Progress
<1>3. CASE ListOf[task[p].job] # NoList
  <2>1. Progress(p, label).job = task[p].job
    BY <1>1, <1>3 DEF Progress, Task
  <2> QED
    BY <2>1, JobAfterSet
<1> QED
  BY <1>2, <1>3

LEMMA JobAfterItem ==
  ASSUME TypeInv, NEW p \in Procs, NEW label, NEW i,
         Set(p, [task[p] EXCEPT !.pc = label, !.item = i])
  PROVE  SameJob(p) /\ task'[p].job = task[p].job
<1> DEFINE r == [task[p] EXCEPT !.pc = label, !.item = i]
<1>1. task[p] \in Task
  BY DEF TypeInv, TypeOK
<1>2. r.job = task[p].job
  BY <1>1 DEF Task
<1>3. Set(p, r)
  OBVIOUS
<1> HIDE DEF r
<1> QED
  BY <1>2, <1>3, AfterSet, JobAfterSet

LEMMA JobAfterPath ==
  ASSUME TypeInv, NEW p \in Procs, NEW label, NEW path,
         Set(p, [task[p] EXCEPT !.pc = label, !.path = path])
  PROVE  SameJob(p)
<1> DEFINE r == [task[p] EXCEPT !.pc = label, !.path = path]
<1>1. task[p] \in Task
  BY DEF TypeInv, TypeOK
<1>2. r.job = task[p].job
  BY <1>1 DEF Task
<1>3. Set(p, r)
  OBVIOUS
<1> HIDE DEF r
<1> QED
  BY <1>2, <1>3, JobAfterSet

\* update_list_progress keeps the job and ends at a label before any item.
LEMMA ProgressKeepsJob ==
  ASSUME TypeInv, NEW p \in Procs, UpdateListProgress(p)
  PROVE  SameJob(p) /\ task'[p].pc \notin Announcing
<1>1. task[p] \in Task /\ task[p].then \in {"idle", "purge", "settle"}
  BY DEF TypeInv, TypeOK, Task
<1> USE DEF Announcing
<1>2. CASE Count(p)
  <2>1. CASE Set(p, Goto(p, task[p].then))
    BY <1>1, <2>1, AfterGoto, JobAfterGoto
  <2>2. CASE Set(p, [task[p] EXCEPT !.pc = "countPending",
                                    !.tally = Tally(ListOf[task[p].job], itemStatus)])
    <3> DEFINE r == [task[p] EXCEPT !.pc = "countPending",
                                    !.tally = Tally(ListOf[task[p].job], itemStatus)]
    <3>1. r.pc = "countPending" /\ r.job = task[p].job /\ Set(p, r)
      BY <1>1, <2>2 DEF Task
    <3> HIDE DEF r
    <3> QED
      BY <3>1, AfterSet, JobAfterSet
  <2> QED
    BY <1>2, <2>1, <2>2 DEF Count
<1>3. CASE CountPending(p)
  <2> DEFINE v == ListStatusFor(task[p].tally,
                                HasPendingSearches(ListOf[task[p].job], rowStatus))
             r == [task[p] EXCEPT !.pc = "write", !.tally = {}, !.verdict = v]
  <2>1. Set(p, r)
    BY <1>3 DEF CountPending
  <2> HIDE DEF v
  <2>2. r.pc = "write" /\ r.job = task[p].job
    BY <1>1 DEF Task
  <2> HIDE DEF r
  <2> QED
    BY <2>1, <2>2, AfterSet, JobAfterSet
<1>4. CASE WriteProgress(p)
  <2>1. CASE task[p].then = "idle"
    BY <1>4, <2>1, AfterIdle, JobAfterSet DEF WriteProgress
  <2>2. CASE task[p].then # "idle"
    <3> DEFINE r == [task[p] EXCEPT !.pc = task[p].then, !.verdict = "absent",
                                    !.then = "idle"]
    <3>1. r.pc = task[p].then /\ r.job = task[p].job /\ Set(p, r)
      BY <1>1, <1>4, <2>2 DEF WriteProgress, Task
    <3> HIDE DEF r
    <3> QED
      BY <1>1, <3>1, AfterSet, JobAfterSet
  <2> QED
    BY <2>1, <2>2
<1> QED
  BY <1>2, <1>3, <1>4 DEF UpdateListProgress

-----------------------------------------------------------------------------
(* A row once claimed is never "pending" again, and a step of a task that    *)
(* keeps its job and the transfers keeps the invariant.                      *)

LEMMA JobStep ==
  ASSUME TypeInv, Followed, NEW p \in Procs, SameJob(p),
         task'[p].pc \in Announcing =>
           /\ task[p].pc \in Announcing
           /\ task'[p].job = task[p].job /\ task'[p].item = task[p].item,
         \A e \in Entries : rowStatus'[e] \in Unclaimed => rowStatus[e] \in Unclaimed,
         UNCHANGED netVars
  PROVE  Followed'
<1>1. UnclaimedIsIdle'
  BY NoEntryAssumption DEF Followed, UnclaimedIsIdle, SameJob, netVars, Outstanding
<1>2. OwnItem'
  BY DEF Followed, OwnItem, SameJob, netVars, Procs
<1> QED
  BY <1>1, <1>2 DEF Followed

LEMMA FollowedStep ==
  ASSUME IInv, Followed, [Next]_vars
  PROVE  Followed'
<1> USE SlotsAssumption DEF IInv, At, Procs
<1>a. \A q \in Procs : task[q] \in Task
  BY DEF TypeInv, TypeOK
<1>b. rowStatus \in [Entries -> RowPresent \cup {"absent", "deleted"}]
  BY DEF TypeInv, TypeOK, DatabaseTypeOK
<1> DEFINE Rows == \A e \in Entries : rowStatus'[e] \in Unclaimed => rowStatus[e] \in Unclaimed
<1>1. ASSUME NEW t \in Slots, NEW e \in Entries, Claim(t, e) PROVE Followed'
  <2> DEFINE r == [Idle EXCEPT !.pc = "verify", !.job = e, !.seen = retryCount[e]]
  <2>1. r.pc = "verify" /\ r.job = e /\ Set(t, r)
    BY <1>1 DEF Claim, Idle
  <2> HIDE DEF r
  <2>2. /\ task'[t].pc = "verify" /\ task'[t].job = e
        /\ \A q \in Procs : q # t => task'[q] = task[q]
    BY <2>1, AfterSet
  <2>3. /\ rowStatus'[e] = "processing"
        /\ \A f \in Entries : f # e => rowStatus'[f] = rowStatus[f]
    BY <1>1, <1>b DEF Claim, ClaimSearch
  <2>4. UNCHANGED netVars
    BY <1>1 DEF Claim
  <2>5. UnclaimedIsIdle'
    BY <2>2, <2>3, <2>4 DEF Followed, UnclaimedIsIdle, Unclaimed, netVars, Outstanding
  <2>6. OwnItem'
    BY <2>2, <2>4 DEF Followed, OwnItem, Announcing, netVars
  <2> QED
    BY <2>5, <2>6 DEF Followed
<1>2. ASSUME NEW t \in Slots, Dedup(t) PROVE Followed'
  <2>0. Rows /\ UNCHANGED netVars
    BY <1>2 DEF Dedup, dbVars
  <2>1. ASSUME Set(t, Goto(t, "pick")) PROVE Followed'
    <3>1. task'[t].pc \notin Announcing
      BY <2>1, AfterGoto DEF Announcing, OnError
    <3> QED
      BY <2>0, <2>1, <3>1, JobAfterGoto, JobStep
  <2>2. ASSUME NEW i \in Items, Set(t, [task[t] EXCEPT !.pc = "reuse", !.item = i]) PROVE Followed'
    <3>0. task'[t].pc = "reuse"
      BY <2>2, AfterItem
    <3>1. task'[t].pc \notin Announcing
      BY <3>0 DEF Announcing
    <3> QED
      BY <2>0, <2>2, <3>1, JobAfterItem, JobStep
  <2> QED
    BY <1>2, <2>1, <2>2 DEF Dedup
<1>3. ASSUME NEW t \in Slots, Pick(t) PROVE Followed'
  <2>0. Rows /\ UNCHANGED netVars
    BY <1>3 DEF Pick, dbVars
  <2>1. ASSUME Set(t, Goto(t, "search")) PROVE Followed'
    <3>1. task'[t].pc \notin Announcing
      BY <2>1, AfterGoto DEF Announcing, OnError
    <3> QED
      BY <2>0, <2>1, <3>1, JobAfterGoto, JobStep
  <2>2. ASSUME NEW p \in Paths, Set(t, [task[t] EXCEPT !.pc = "lookup", !.path = p]) PROVE Followed'
    <3>0. task'[t].pc = "lookup"
      BY <2>2, AfterPath
    <3>1. task'[t].pc \notin Announcing
      BY <3>0 DEF Announcing
    <3> QED
      BY <2>0, <2>2, <3>1, JobAfterPath, JobStep
  <2> QED
    BY <1>3, <2>1, <2>2 DEF Pick
<1>4. ASSUME NEW t \in Slots, Search(t) PROVE Followed'
  <2>0. Rows /\ UNCHANGED netVars
    BY <1>4 DEF Search, dbVars
  <2>1. ASSUME NEW label \in {OnError(t), "giveUp"}, Set(t, Goto(t, label)) PROVE Followed'
    <3>1. task'[t].pc \notin Announcing
      BY <2>1, AfterGoto DEF Announcing, OnError
    <3> QED
      BY <2>0, <2>1, <3>1, JobAfterGoto, JobStep
  <2>2. ASSUME NEW p \in Paths, Set(t, [task[t] EXCEPT !.pc = "lookup", !.path = p]) PROVE Followed'
    <3>0. task'[t].pc = "lookup"
      BY <2>2, AfterPath
    <3>1. task'[t].pc \notin Announcing
      BY <3>0 DEF Announcing
    <3> QED
      BY <2>0, <2>2, <3>1, JobAfterPath, JobStep
  <2> QED
    BY <1>4, <2>1, <2>2 DEF Search
<1>5. ASSUME NEW t \in Slots, Lookup(t) PROVE Followed'
  <2>0. Rows /\ UNCHANGED netVars
    BY <1>5 DEF Lookup, dbVars
  <2>1. ASSUME Set(t, Goto(t, "create")) PROVE Followed'
    <3>1. task'[t].pc \notin Announcing
      BY <2>1, AfterGoto DEF Announcing, OnError
    <3> QED
      BY <2>0, <2>1, <3>1, JobAfterGoto, JobStep
  <2>2. ASSUME NEW i \in Items, NEW label \in {"reuse", "replace"}, Set(t, [task[t] EXCEPT !.pc = label, !.item = i]) PROVE Followed'
    <3>1. task'[t].pc \notin Announcing
      BY <2>2, AfterItem DEF Announcing
    <3> QED
      BY <2>0, <2>2, <3>1, JobAfterItem, JobStep
  <2> QED
    BY <1>5, <2>1, <2>2 DEF Lookup, ItemsAt
<1>6. ASSUME NEW t \in Slots, Replace(t) PROVE Followed'
  <2>1. task'[t].pc = "create" /\ SameJob(t)
    BY <1>6, AfterItem, JobAfterItem DEF Replace
  <2> QED
    BY <1>6, <2>1, JobStep DEF Replace, Announcing
<1>7. ASSUME NEW t \in Slots, Create(t) PROVE Followed'
  <2>0. Rows /\ UNCHANGED transfer
    BY <1>7 DEF Create
  <2>1. CASE Set(t, Goto(t, OnError(t))) /\ UNCHANGED source
    <3>1. task'[t].pc \notin Announcing
      BY <2>1, AfterGoto DEF Announcing, OnError
    <3> QED
      BY <2>0, <2>1, <3>1, JobAfterGoto, JobStep DEF netVars
  <2>2. ASSUME NEW i \in Items, CreateItem(i, task[t].path, "pending"),
               source' = [source EXCEPT ![i] = task[t].job],
               Set(t, [task[t] EXCEPT !.pc = "announce", !.item = i])
        PROVE  Followed'
    <3>1. /\ task'[t].pc = "announce" /\ task'[t].item = i /\ task'[t].job = task[t].job
          /\ \A q \in Procs : q # t => task'[q] = task[q]
      BY <2>2, AfterItem, JobAfterItem
    <3>2. /\ source'[i] = task[t].job
          /\ \A j \in Items : j # i => source'[j] = source[j]
      BY <2>2 DEF TypeInv, TypeOK
    <3>3. itemStatus[i] = "none" /\ ~Outstanding(i)
      BY <2>2 DEF CreateItem, NextItem, Held, TransferHolds, Outstanding
    <3>4. \A q \in Procs : task[q].pc \in Announcing => q \in Slots /\ task[q].item \in Items
                                                  /\ task[q].item # i
      <4>1. task[Monitor].pc \notin Announcing
        BY DEF Followed, OwnItem
      <4> QED
        BY <4>1, <3>3 DEF Held, TaskHolds, Holding, Announcing
    <3>5. UnclaimedIsIdle'
      BY <2>0, <3>1, <3>2, <3>3 DEF Followed, UnclaimedIsIdle, Outstanding
    <3>6. OwnItem'
      BY <3>1, <3>2, <3>4 DEF Followed, OwnItem
    <3> QED
      BY <3>5, <3>6 DEF Followed
  <2> QED
    BY <1>7, <2>1, <2>2 DEF Create
<1>8. ASSUME NEW t \in Slots, Announce(t) PROVE Followed'
  <2>1. /\ task'[t].item = task[t].item /\ task'[t].job = task[t].job
        /\ SameJob(t) /\ task[t].pc \in Announcing
    BY <1>8, AfterGoto, JobAfterGoto DEF Announce, Announcing
  <2> QED
    BY <1>8, <2>1, JobStep DEF Announce
<1>9. ASSUME NEW t \in Slots, Attach(t) PROVE Followed'
  <2>1. /\ task'[t].item = task[t].item /\ task'[t].job = task[t].job
        /\ SameJob(t) /\ task[t].pc \in Announcing
    BY <1>9, AfterGoto, JobAfterGoto DEF Attach, Announcing
  <2> QED
    BY <1>9, <2>1, JobStep DEF Attach
<1>10. ASSUME NEW t \in Slots, Initiate(t) PROVE Followed'
  <2>1. PICK outcome \in {"receiving", "none", "err"} :
          /\ transfer' = [transfer EXCEPT ![task[t].item] = outcome]
          /\ Set(t, Goto(t, IF outcome = "receiving" THEN "link" ELSE "initFailed"))
    BY <1>10 DEF Initiate
  <2>2. task'[t].pc \notin Announcing /\ SameJob(t)
    BY <2>1, AfterGoto, JobAfterGoto DEF Announcing
  <2>3. /\ task[t].pc \in Announcing /\ task[t].item \in Items
        /\ source[task[t].item] = task[t].job
        /\ \A j \in Items : j # task[t].item => transfer'[j] = transfer[j]
    BY <1>10, <2>1 DEF Initiate, Announcing, TypeInv, TypeOK, Sourced, Followed, OwnItem
  <2>4. UNCHANGED <<rowStatus, source>>
    BY <1>10 DEF Initiate, dbVars
  <2>5. UnclaimedIsIdle'
    BY <2>2, <2>3, <2>4, NoEntryAssumption
       DEF Followed, UnclaimedIsIdle, SameJob, Outstanding
  <2>6. OwnItem'
    BY <2>2, <2>4 DEF Followed, OwnItem, SameJob
  <2> QED
    BY <2>5, <2>6 DEF Followed
<1>11. ASSUME NEW t \in Slots, Verify(t) PROVE Followed'
  <2>1. task'[t].pc \notin Announcing /\ SameJob(t)
    BY <1>11, AfterGoto, JobAfterGoto DEF Verify, Announcing, OnError
  <2>2. Rows /\ UNCHANGED netVars
    BY <1>11, <1>b DEF Verify, Unclaimed, dbVars
  <2> QED
    BY <2>1, <2>2, JobStep
<1>12. ASSUME NEW t \in Slots, InitFailed(t) PROVE Followed'
  <2>1. task'[t].pc \notin Announcing /\ SameJob(t)
    BY <1>12, AfterGoto, JobAfterGoto DEF InitFailed, Announcing, OnError
  <2>2. Rows /\ UNCHANGED netVars
    BY <1>12, <1>b DEF InitFailed, Unclaimed, dbVars
  <2> QED
    BY <2>1, <2>2, JobStep
<1>13. ASSUME NEW t \in Slots, Link(t) PROVE Followed'
  <2>1. task'[t].pc \notin Announcing /\ SameJob(t)
    BY <1>13, AfterIdle, JobAfterSet DEF Link, Announcing, OnError
  <2>2. Rows /\ UNCHANGED netVars
    BY <1>13, <1>b DEF Link, Unclaimed, MarkSearchCompleted
  <2> QED
    BY <2>1, <2>2, JobStep
<1>14. ASSUME NEW t \in Slots, Reuse(t) PROVE Followed'
  <2>1. task'[t].pc \notin Announcing /\ SameJob(t)
    BY <1>14, AfterGoto, JobAfterGoto DEF Reuse, Announcing, OnError
  <2>2. Rows /\ UNCHANGED netVars
    BY <1>14, <1>b DEF Reuse, Unclaimed, MarkSearchCompleted
  <2> QED
    BY <2>1, <2>2, JobStep
<1>15. ASSUME NEW t \in Slots, ReuseAttach(t) PROVE Followed'
  <2>1. task'[t].pc \notin Announcing /\ SameJob(t)
    BY <1>15, AfterProgress, JobAfterProgress DEF ReuseAttach, Announcing, OnError
  <2>2. Rows /\ UNCHANGED netVars
    BY <1>15, <1>b DEF ReuseAttach, Unclaimed, dbVars
  <2> QED
    BY <2>1, <2>2, JobStep
<1>16. ASSUME NEW t \in Slots, Purge(t) PROVE Followed'
  <2>1. task'[t].pc \notin Announcing /\ SameJob(t)
    BY <1>16, AfterIdle, JobAfterSet DEF Purge, Announcing, OnError
  <2>2. Rows /\ UNCHANGED netVars
    BY <1>16, <1>b DEF Purge, Unclaimed, DeleteSearch
  <2> QED
    BY <2>1, <2>2, JobStep
<1>17. ASSUME NEW t \in Slots, Retry(t) PROVE Followed'
  <2>1. task'[t].pc \notin Announcing /\ SameJob(t)
    BY <1>17, AfterProgress, JobAfterProgress DEF Retry, Announcing, OnError
  <2>2. Rows /\ UNCHANGED netVars
    BY <1>17, <1>b DEF Retry, Unclaimed, MarkSearchForRetry
  <2> QED
    BY <2>1, <2>2, JobStep
<1>18. ASSUME NEW t \in Slots, GiveUp(t) PROVE Followed'
  <2>1. task'[t].pc \notin Announcing /\ SameJob(t)
    BY <1>18, AfterGoto, JobAfterGoto DEF GiveUp, Announcing, OnError
  <2>2. Rows /\ UNCHANGED netVars
    BY <1>18, <1>b DEF GiveUp, Unclaimed, DeleteSearch
  <2> QED
    BY <2>1, <2>2, JobStep
<1>19. ASSUME NEW t \in Slots, Placeholder(t) PROVE Followed'
  <2>0. Rows /\ UNCHANGED netVars
    BY <1>19 DEF Placeholder
  <2>1. CASE Set(t, Progress(t, "idle"))
    <3>1. task'[t].pc \notin Announcing
      BY <2>1, AfterProgress DEF Announcing
    <3> QED
      BY <2>0, <2>1, <3>1, JobAfterProgress, JobStep
  <2>2. ASSUME NEW i \in Items, Set(t, [task[t] EXCEPT !.pc = "markFailed", !.item = i])
        PROVE  Followed'
    <3>0. task'[t].pc = "markFailed"
      BY <2>2, AfterItem
    <3>1. task'[t].pc \notin Announcing
      BY <3>0 DEF Announcing
    <3> QED
      BY <2>0, <2>2, <3>1, JobAfterItem, JobStep
  <2> QED
    BY <1>19, <2>1, <2>2 DEF Placeholder
<1>20. ASSUME NEW t \in Slots, MarkFailed(t) PROVE Followed'
  <2>1. task'[t].pc \notin Announcing /\ SameJob(t)
    BY <1>20, AfterGoto, JobAfterGoto DEF MarkFailed, Announcing, OnError
  <2>2. Rows /\ UNCHANGED netVars
    BY <1>20, <1>b DEF MarkFailed, Unclaimed, dbVars
  <2> QED
    BY <2>1, <2>2, JobStep
<1>21. ASSUME NEW t \in Slots, AttachFailed(t) PROVE Followed'
  <2>1. task'[t].pc \notin Announcing /\ SameJob(t)
    BY <1>21, AfterProgress, JobAfterProgress DEF AttachFailed, Announcing, OnError
  <2>2. Rows /\ UNCHANGED netVars
    BY <1>21, <1>b DEF AttachFailed, Unclaimed, dbVars
  <2> QED
    BY <2>1, <2>2, JobStep
<1>22. ASSUME NEW p \in Procs, UpdateListProgress(p) PROVE Followed'
  <2>1. Rows /\ UNCHANGED netVars
    BY <1>22 DEF UpdateListProgress, Count, CountPending, WriteProgress, dbVars
  <2> QED
    BY <1>22, <2>1, ProgressKeepsJob, JobStep
<1>23. ASSUME NEW i \in Items, Receive(i) PROVE Followed'
  <2>1. /\ task'[Monitor].pc \notin Announcing /\ task'[Monitor].job = source[i]
        /\ \A q \in Procs : q # Monitor => task'[q] = task[q]
    <3> DEFINE label == IF transfer[i] = "ok" THEN "succeed" ELSE "fail"
               r == [Idle EXCEPT !.pc = label, !.job = source[i], !.item = i,
                       !.known = RowExists(source[i]),
                       !.seen = IF RowExists(source[i]) THEN retryCount[source[i]] ELSE 1]
    <3>1. r.pc \notin Announcing /\ r.job = source[i]
      BY DEF Idle, Announcing
    <3>2. Set(Monitor, r)
      BY <1>23 DEF Receive
    <3> HIDE DEF r
    <3> QED
      BY <3>1, <3>2, AfterSet
  <2>2. /\ Outstanding(i) /\ UNCHANGED <<rowStatus, source>>
        /\ \A j \in Items : transfer'[j] \in {transfer[j], "taken"}
    BY <1>23 DEF Receive, Outstanding, dbVars, TypeInv, TypeOK
  <2>3. UnclaimedIsIdle'
    BY <2>1, <2>2 DEF Followed, UnclaimedIsIdle, Outstanding
  <2>4. OwnItem'
    BY <2>1, <2>2 DEF Followed, OwnItem
  <2> QED
    BY <2>3, <2>4 DEF Followed
<1>24. ASSUME Succeed PROVE Followed'
  <2>1. task'[Monitor].pc \notin Announcing /\ SameJob(Monitor)
    BY <1>24, AfterGoto, JobAfterGoto DEF Succeed, Announcing, OnError
  <2>2. Rows /\ UNCHANGED netVars
    BY <1>24, <1>b DEF Succeed, Unclaimed, dbVars
  <2> QED
    BY <2>1, <2>2, JobStep
<1>25. ASSUME Drop PROVE Followed'
  <2>1. task'[Monitor].pc \notin Announcing /\ SameJob(Monitor)
    BY <1>25, AfterProgress, JobAfterProgress DEF Drop, Announcing, OnError
  <2>2. Rows /\ UNCHANGED netVars
    BY <1>25, <1>b DEF Drop, Unclaimed, DeleteSearch
  <2> QED
    BY <2>1, <2>2, JobStep
<1>26. ASSUME Fail PROVE Followed'
  <2>1. task'[Monitor].pc \notin Announcing /\ SameJob(Monitor)
    BY <1>26, AfterProgress, JobAfterProgress DEF Fail, Announcing, OnError
  <2>2. Rows /\ UNCHANGED netVars
    BY <1>26, <1>b DEF Fail, Unclaimed, dbVars
  <2> QED
    BY <2>1, <2>2, JobStep
<1>27. ASSUME Settle PROVE Followed'
  <2>1. task'[Monitor].pc \notin Announcing /\ SameJob(Monitor)
    BY <1>27, AfterIdle, JobAfterSet DEF Settle, Announcing, OnError
  <2>2. Rows /\ UNCHANGED netVars
    BY <1>27, <1>b DEF Settle, Unclaimed, MarkSearchForRetry, DeleteSearch
  <2> QED
    BY <2>1, <2>2, JobStep
<1>28. ASSUME NEW i \in Items, TransferDone(i) PROVE Followed'
  <2>1. /\ transfer[i] = "receiving" /\ UNCHANGED <<rowStatus, source, task>>
        /\ \A j \in Items : j # i => transfer'[j] = transfer[j]
    BY <1>28 DEF TransferDone, dbVars, TypeInv, TypeOK
  <2> QED
    BY <2>1 DEF Followed, UnclaimedIsIdle, OwnItem, Outstanding
<1>29. ASSUME Request PROVE Followed'
  <2>1. UNCHANGED <<task, transfer, source>>
    BY <1>29 DEF Request, CreateList, RequestDeleteList, EnqueueSearch, CancelSearch,
       RequestDeleteItem, RemoveItemFromList, CountDelete, netVars
  <2>2. Rows
    BY <1>29, <1>b DEF Request, CreateList, RequestDeleteList, EnqueueSearch, CancelSearch,
       RequestDeleteItem, RemoveItemFromList, InsertSearch, DeleteSearch, DeleteList, Unclaimed
  <2> QED
    BY <2>1, <2>2 DEF Followed, UnclaimedIsIdle, OwnItem, Outstanding
<1>30. ASSUME Restart PROVE Followed'
  <2>1. \A q \in Procs : task'[q].pc = "idle" /\ task'[q].job = NoEntry
    BY <1>30 DEF Restart, Idle
  <2>2. \A j \in Items : ~Outstanding(j)'
    BY <1>30 DEF Restart, Outstanding, TypeInv, TypeOK
  <2> QED
    BY <2>1, <2>2, NoEntryAssumption DEF Followed, UnclaimedIsIdle, OwnItem, Announcing
<1>31. CASE UNCHANGED vars
  BY <1>31 DEF vars, dbVars, netVars, Followed, UnclaimedIsIdle, OwnItem, Outstanding
<1> QED
  BY <1>1, <1>2, <1>3, <1>4, <1>5, <1>6, <1>7, <1>8, <1>9, <1>10, <1>11,
     <1>12, <1>13, <1>14, <1>15, <1>16, <1>17, <1>18, <1>19, <1>20, <1>21,
     <1>22, <1>23, <1>24, <1>25, <1>26, <1>27, <1>28, <1>29, <1>30, <1>31
     DEF Next, ClaimNext, TaskStep, MonitorStep

LEMMA InitFollowed == Init => Followed
BY NoEntryAssumption
   DEF Init, DatabaseInit, Idle, Followed, UnclaimedIsIdle, OwnItem, Outstanding, Announcing,
       Procs

\* A row in status "pending" has no task, no transfer and no completion being
\* handled: cancel_pending_search, which tests the status and nothing else,
\* never removes a search that somebody is working for.
THEOREM CancelIsSafe == Spec => []PendingIsIdle
<1>1. IInv /\ Followed /\ [Next]_vars => Followed'
  BY FollowedStep
<1>2. Followed => PendingIsIdle
  BY DEF Followed, UnclaimedIsIdle, Unclaimed, PendingIsIdle
<1> QED
  BY <1>1, <1>2, InitFollowed, IInvariant, PTL DEF Spec
=============================================================================
