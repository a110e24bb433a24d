---------------------------- MODULE UploadProofs ----------------------------
(***************************************************************************)
(* The upload slots and the rate limit, for any number of uploads, slots,  *)
(* rates and chunk sizes.                                                  *)
(***************************************************************************)
EXTENDS Uploads, FiniteSetTheorems, TLAPS

Labels == {"none", "validate", "enqueue", "queued", "popped"} \cup Running \cup Ended

\* A chunk is never larger than what is left of the file.
Chunked == \A u \in Uploads : upload[u].pc \in {"wait", "write"} =>
             upload[u].n <= upload[u].left

\* The queue and the checker's batch name different uploads, all waiting.
Waits(s, label) == /\ \A i \in 1..Len(s) : upload[s[i]].pc = label
                   /\ \A i, j \in 1..Len(s) : s[i] = s[j] => i = j

QueueKept == Waits(queue, "queued")
BatchKept == /\ Waits(checker.batch, "popped")
             /\ checker.pc \in {"idle", "count", "pop"} => checker.batch = <<>>

\* The free slots the checker counted are still free: only it takes slots.
FreeKept == checker.pc = "pop" => active + checker.free <= checker.slots

Slotted == QueueKept /\ BatchKept /\ FreeKept /\ ActiveIsRunning /\ SlotsRespected

IInv == TypeOK /\ Chunked /\ Slotted

RunningSet == {u \in Uploads : upload[u].pc \in Running}

-----------------------------------------------------------------------------
(* The bucket *)

LEMMA RefilledNat ==
  ASSUME BucketTypeOK, NEW r \in Nat
  PROVE  Refilled(r) \in Nat /\ Refilled(r) <= tokens + elapsed * r
BY TimeAssumption DEF BucketTypeOK, Refilled

LEMMA ConsumeType ==
  ASSUME BucketTypeOK, NEW n \in Nat, NEW r \in Nat, NEW granted \in BOOLEAN,
         Consume(n, r, granted)
  PROVE  BucketTypeOK'
<1>1. Refilled(r) \in Nat
  BY RefilledNat
<1>2. CASE granted
  <2>0. Refilled(r) >= n
    BY <1>2, Zenon DEF Consume
  <2>1. tokens' \in Nat /\ elapsed' = 0 /\ UNCHANGED <<rate, clock>>
    BY <1>1, <1>2, <2>0 DEF Consume
  <2>2. passed' \in Nat
    BY <1>2 DEF Consume, BucketTypeOK
  <2> QED
    BY <2>1, <2>2, TimeAssumption DEF BucketTypeOK
<1>3. CASE ~granted
  <2>1. tokens' \in Nat /\ elapsed' = 0 /\ UNCHANGED <<rate, clock, passed>>
    BY <1>1, <1>3 DEF Consume
  <2> QED
    BY <2>1, TimeAssumption DEF BucketTypeOK
<1> QED
  BY <1>2, <1>3

LEMMA ObserveType == ASSUME BucketTypeOK, Observe PROVE BucketTypeOK'
BY TimeAssumption DEF BucketTypeOK, Observe

LEMMA TickType == ASSUME BucketTypeOK, Tick PROVE BucketTypeOK'
BY TimeAssumption DEF BucketTypeOK, Tick

-----------------------------------------------------------------------------
(* A step that changes one upload *)

LEMMA AfterSet ==
  ASSUME TypeOK, NEW u \in Uploads, NEW r \in Upload, Set(u, r)
  PROVE  /\ upload' \in [Uploads -> Upload]
         /\ upload'[u] = r
         /\ \A v \in Uploads : v # u => upload'[v] = upload[v]
BY DEF TypeOK, Set

LEMMA AfterGoto ==
  ASSUME TypeOK, NEW u \in Uploads, NEW label \in Labels, Goto(u, label)
  PROVE  /\ upload' \in [Uploads -> Upload]
         /\ upload'[u].pc = label
         /\ upload'[u].left = upload[u].left
         /\ upload'[u].n = upload[u].n
         /\ upload'[u].limit = upload[u].limit
         /\ \A v \in Uploads : v # u => upload'[v] = upload[v]
<1> DEFINE r == [upload[u] EXCEPT !.pc = label]
<1>1. upload[u] \in Upload
  BY DEF TypeOK
<1>2. /\ r \in Upload /\ r.pc = label /\ r.left = upload[u].left
      /\ r.n = upload[u].n /\ r.limit = upload[u].limit
  BY <1>1 DEF Upload, Labels
<1>3. Set(u, r)
  BY DEF Goto
<1> HIDE DEF r
<1> QED
  BY <1>2, <1>3, AfterSet

\* Those who wait with another label do not notice it.
LEMMA Unaffected ==
  ASSUME NEW s \in Seq(Uploads), NEW label, Waits(s, label),
         NEW u \in Uploads, upload[u].pc # label,
         \A v \in Uploads : v # u => upload'[v] = upload[v]
  PROVE  \A i \in 1..Len(s) : upload'[s[i]].pc = label
<1> TAKE i \in 1..Len(s)
<1>1. s[i] \in Uploads
  OBVIOUS
<1>2. upload[s[i]].pc = label
  BY DEF Waits
<1> QED
  BY <1>1, <1>2

LEMMA Sequences == TypeOK => queue \in Seq(Uploads) /\ checker.batch \in Seq(Uploads)
BY DEF TypeOK, Checker

\* An upload that moves on without queueing, starting or ending.
LEMMA Moves ==
  ASSUME IInv, NEW u \in Uploads, upload' \in [Uploads -> Upload],
         \A v \in Uploads : v # u => upload'[v] = upload[v],
         {upload[u].pc, upload'[u].pc} \cap {"queued", "popped"} = {},
         upload[u].pc \in Running <=> upload'[u].pc \in Running,
         upload'[u].pc \in {"wait", "write"} => upload'[u].n <= upload'[u].left,
         BucketTypeOK',
         UNCHANGED <<adminVars, wired, fileVars, slotVars>>
  PROVE  IInv'
<1>1. UNCHANGED <<queue, active, checker>>
  BY DEF slotVars
<1>2. TypeOK'
  BY <1>1 DEF IInv, TypeOK, adminVars, fileVars
<1>3. Chunked'
  BY DEF IInv, Chunked
<1>4. queue \in Seq(Uploads) /\ checker.batch \in Seq(Uploads)
  BY Sequences DEF IInv
<1>5. Waits(queue, "queued") /\ Waits(checker.batch, "popped")
  BY DEF IInv, Slotted, QueueKept, BatchKept
<1>6. \A i \in 1..Len(queue) : upload'[queue[i]].pc = "queued"
  BY <1>4, <1>5, Unaffected
<1>7. \A i \in 1..Len(checker.batch) : upload'[checker.batch[i]].pc = "popped"
  BY <1>4, <1>5, Unaffected
<1>8. QueueKept'
  BY <1>1, <1>5, <1>6 DEF QueueKept, Waits
<1>9. BatchKept'
  BY <1>1, <1>5, <1>7 DEF IInv, Slotted, BatchKept, Waits
<1>10. RunningSet' = RunningSet
  BY DEF RunningSet
<1>11. ActiveIsRunning'
  BY <1>1, <1>10 DEF IInv, Slotted, ActiveIsRunning, RunningSet
<1>12. FreeKept' /\ SlotsRespected'
  BY <1>1 DEF IInv, Slotted, FreeKept, SlotsRespected
<1> QED
  BY <1>2, <1>3, <1>8, <1>9, <1>11, <1>12 DEF IInv, Slotted

\* A step that leaves uploads and slots alone.
LEMMA Elsewhere ==
  ASSUME IInv, UNCHANGED <<slotVars, upload>>
  PROVE  Chunked' /\ Slotted'
BY DEF IInv, slotVars, Chunked, Slotted, QueueKept, BatchKept, Waits, FreeKept,
   ActiveIsRunning, SlotsRespected

-----------------------------------------------------------------------------
LEMMA InitIInv == Init => IInv
<1> SUFFICES ASSUME Init PROVE IInv
  OBVIOUS
<1>0. InitialConfig \in Config /\ InitialConfig.rate \in Nat
  BY InitialAssumption, ChoicesAssumption DEF Config
<1>1. TypeOK
  <2>1. BucketTypeOK
    BY <1>0, TimeAssumption DEF Init, BucketInit, BucketTypeOK
  <2>2. upload \in [Uploads -> Upload]
    BY DEF Init, Idle, Upload
  <2>3. checker \in Checker
    BY DEF Init, IdleChecker, Checker
  <2>4. admin \in [Admins -> Admin]
    BY <1>0 DEF Init, Admin
  <2> QED
    BY <1>0, <2>1, <2>2, <2>3, <2>4 DEF Init, TypeOK
<1>2. \A u \in Uploads : upload[u].pc = "none"
  BY DEF Init, Idle
<1>3. Chunked
  BY <1>2 DEF Chunked
<1>4. RunningSet = {}
  BY <1>2 DEF RunningSet, Running
<1>5. ActiveIsRunning
  BY <1>4, FS_EmptySet DEF Init, ActiveIsRunning, RunningSet
<1>6. QueueKept /\ BatchKept /\ FreeKept /\ SlotsRespected
  BY DEF Init, IdleChecker, QueueKept, BatchKept, Waits, FreeKept, SlotsRespected
<1> QED
  BY <1>1, <1>3, <1>5, <1>6 DEF IInv, Slotted

-----------------------------------------------------------------------------
(* One lemma per action *)

LEMMA RequestInv == ASSUME IInv, NEW u \in Uploads, Request(u) PROVE IInv'
<1>1. PICK label \in {"validate", "rejected"} : Goto(u, label)
  BY DEF Request
<1>2. TypeOK /\ label \in Labels /\ upload[u].pc = "none"
  BY DEF IInv, Request, At, Labels, Ended
<1>3. BucketTypeOK'
  BY DEF Request, bucketVars, IInv, TypeOK, BucketTypeOK
<1> QED
  BY <1>1, <1>2, <1>3, AfterGoto, Moves DEF Request, Running

LEMMA ValidateInv == ASSUME IInv, NEW u \in Uploads, Validate(u) PROVE IInv'
<1>1. PICK label \in {"enqueue", "rejected"} : Goto(u, label)
  BY DEF Validate
<1>2. TypeOK /\ label \in Labels /\ upload[u].pc = "validate"
  BY DEF IInv, Validate, At, Labels, Ended
<1>3. BucketTypeOK'
  BY DEF Validate, bucketVars, IInv, TypeOK, BucketTypeOK
<1> QED
  BY <1>1, <1>2, <1>3, AfterGoto, Moves DEF Validate, Running

LEMMA NegotiateInv == ASSUME IInv, NEW u \in Uploads, Negotiate(u) PROVE IInv'
<1>1. PICK label \in {"open", "release"} : Goto(u, label)
  BY DEF Negotiate
<1>2. TypeOK /\ label \in Labels /\ upload[u].pc = "negotiate"
  BY DEF IInv, Negotiate, At, Labels, Running
<1>3. BucketTypeOK'
  BY DEF Negotiate, bucketVars, IInv, TypeOK, BucketTypeOK
<1> QED
  BY <1>1, <1>2, <1>3, AfterGoto, Moves DEF Negotiate, Running

\* Open, Read and Write put a new record in the place of the old one.
LEMMA SetInv ==
  ASSUME IInv, NEW u \in Uploads, NEW r \in Upload, Set(u, r),
         upload[u].pc \in Running, r.pc \in Running,
         r.pc \in {"wait", "write"} => r.n <= r.left,
         UNCHANGED <<bucketVars, adminVars, wired, fileVars, slotVars>>
  PROVE  IInv'
<1>1. TypeOK
  BY DEF IInv
<1>2. BucketTypeOK'
  BY DEF bucketVars, IInv, TypeOK, BucketTypeOK
<1> QED
  BY <1>1, <1>2, AfterSet, Moves DEF Running

LEMMA ReturnType == Idle("release") \in Upload /\ Idle("release").pc = "release"
BY DEF Idle, Upload, Running

LEMMA OpenInv == ASSUME IInv, NEW u \in Uploads, Open(u) PROVE IInv'
<1>1. upload[u].pc \in Running
  BY DEF Open, At, Running
<1>2. CASE \E rest \in 0..FileSize :
             Set(u, [pc |-> "read", left |-> rest, n |-> 0, limit |-> 0])
  <2>1. PICK rest \in 0..FileSize :
               Set(u, [pc |-> "read", left |-> rest, n |-> 0, limit |-> 0])
    BY <1>2
  <2> DEFINE r == [pc |-> "read", left |-> rest, n |-> 0, limit |-> 0]
  <2>2. r \in Upload /\ r.pc = "read"
    BY SizeAssumption DEF Upload, Running
  <2>3. Set(u, r)
    BY <2>1
  <2> HIDE DEF r
  <2> QED
    BY <1>1, <2>2, <2>3, SetInv DEF Open, Running
<1>3. CASE Return(u)
  BY <1>1, <1>3, ReturnType, SetInv DEF Open, Return, Running
<1> QED
  BY <1>2, <1>3 DEF Open

LEMMA ReadInv == ASSUME IInv, NEW u \in Uploads, Read(u) PROVE IInv'
<1>1. upload[u].pc \in Running /\ upload[u] \in Upload /\ rate \in Nat
  BY DEF Read, At, Running, IInv, TypeOK, BucketTypeOK
<1>2. CASE upload[u].left > 0 /\ ~Return(u)
  <2> DEFINE size == IF upload[u].left < Chunk THEN upload[u].left ELSE Chunk
             r == [pc    |-> IF rate = 0 THEN "write" ELSE "wait",
                   left  |-> upload[u].left, n |-> size, limit |-> rate]
  <2>1. upload[u].left \in Nat
    BY <1>1 DEF Upload
  <2>2. size \in Nat /\ size <= upload[u].left
    BY <2>1, SizeAssumption
  <2>3. Set(u, r)
    BY <1>2 DEF Read
  <2> HIDE DEF size
  <2>4. r \in Upload /\ r.pc \in {"write", "wait"} /\ r.n = size /\ r.left = upload[u].left
    BY <1>1, <2>1, <2>2 DEF Upload, Running
  <2> HIDE DEF r
  <2> QED
    BY <1>1, <2>2, <2>3, <2>4, SetInv DEF Read, Running
<1>3. CASE Return(u)
  BY <1>1, <1>3, ReturnType, SetInv DEF Read, Return, Running
<1> QED
  BY <1>2, <1>3 DEF Read

LEMMA ThrottleInv == ASSUME IInv, NEW u \in Uploads, Throttle(u) PROVE IInv'
<1>1. PICK granted \in BOOLEAN :
        /\ Consume(upload[u].n, upload[u].limit, granted)
        /\ Goto(u, IF granted THEN "write" ELSE "wait")
  BY DEF Throttle
<1>2. PICK label \in {"write", "wait"} : Goto(u, label)
  BY <1>1
<1>3. TypeOK /\ label \in Labels /\ upload[u].pc = "wait"
  BY DEF IInv, Throttle, At, Labels, Running
<1>4. upload[u].n \in Nat /\ upload[u].limit \in Nat /\ BucketTypeOK
  BY <1>3 DEF TypeOK, Upload
<1>5. BucketTypeOK'
  BY <1>1, <1>4, ConsumeType
<1>6. upload[u].n <= upload[u].left
  BY <1>3 DEF IInv, Chunked
<1> QED
  BY <1>2, <1>3, <1>5, <1>6, AfterGoto, Moves DEF Throttle, Running

LEMMA WriteInv == ASSUME IInv, NEW u \in Uploads, Write(u) PROVE IInv'
<1>1. upload[u].pc \in Running /\ upload[u].pc = "write" /\ upload[u] \in Upload
  BY DEF Write, At, Running, IInv, TypeOK
<1>2. CASE ~Return(u)
  <2> DEFINE rest == upload[u].left - upload[u].n
             r == [pc |-> "read", left |-> rest, n |-> 0, limit |-> 0]
  <2>1. upload[u].left \in Nat /\ upload[u].n \in Nat
    BY <1>1 DEF Upload
  <2>2. rest \in Nat
    BY <1>1, <2>1 DEF IInv, Chunked
  <2>3. Set(u, r)
    BY <1>2 DEF Write
  <2> HIDE DEF rest
  <2>4. r \in Upload /\ r.pc = "read"
    BY <2>2 DEF Upload, Running
  <2> HIDE DEF r
  <2> QED
    BY <1>1, <2>3, <2>4, SetInv DEF Write, Running
<1>3. CASE Return(u)
  BY <1>1, <1>3, ReturnType, SetInv DEF Write, Return, Running
<1> QED
  BY <1>2, <1>3 DEF Write

LEMMA OtherInv ==
  ASSUME IInv,
         \/ Wire \/ Rescan \/ TickStep \/ ObserveStep
         \/ \E a \in Admins : AdminStep(a)
         \/ \E f \in Files : DeleteFile(f)
  PROVE  IInv'
<1>0. TypeOK
  BY DEF IInv
<1>1. UNCHANGED <<slotVars, upload>>
  BY DEF Wire, Rescan, TickStep, ObserveStep, AdminStep, GetConfig, UpdateRate, WriteConfig,
         DeleteFile
<1>2. Chunked' /\ Slotted'
  BY <1>1, Elsewhere
<1>3. UNCHANGED <<queue, active, checker, upload>>
  BY <1>1 DEF slotVars
<1>4. ASSUME Wire \/ Rescan \/ \E f \in Files : DeleteFile(f) PROVE TypeOK'
  BY <1>0, <1>3, <1>4
  DEF Wire, Rescan, DeleteFile, TypeOK, BucketTypeOK, bucketVars, adminVars, fileVars
<1>5. ASSUME TickStep \/ ObserveStep PROVE TypeOK'
  BY <1>0, <1>3, <1>5, TickType, ObserveType
  DEF TickStep, ObserveStep, TypeOK, adminVars, fileVars
<1>6. ASSUME NEW a \in Admins, AdminStep(a) PROVE TypeOK'
  <2>1. CASE GetConfig(a)
    <3>1. PICK new \in Config : admin' = [admin EXCEPT ![a] = [pc |-> "rate", new |-> new]]
      BY <2>1 DEF GetConfig
    <3>2. [pc |-> "rate", new |-> new] \in Admin
      BY DEF Admin
    <3>3. admin' \in [Admins -> Admin]
      BY <1>0, <3>1, <3>2 DEF TypeOK
    <3> QED
      BY <1>0, <1>3, <2>1, <3>3
      DEF GetConfig, TypeOK, BucketTypeOK, bucketVars, fileVars
  <2>2. admin[a] \in Admin /\ admin[a].new \in Config /\ admin[a].new.rate \in Nat
    BY <1>0, ChoicesAssumption DEF TypeOK, Admin, Config
  <2>3. CASE UpdateRate(a)
    <3>1. admin' \in [Admins -> Admin]
      BY <1>0, <2>2, <2>3 DEF UpdateRate, TypeOK, Admin
    <3>2. BucketTypeOK'
      BY <1>0, <2>2, <2>3, TimeAssumption DEF UpdateRate, SetRate, TypeOK, BucketTypeOK
    <3> QED
      BY <1>0, <1>3, <2>3, <3>1, <3>2 DEF UpdateRate, TypeOK, fileVars
  <2>4. CASE WriteConfig(a)
    <3>1. admin' \in [Admins -> Admin]
      BY <1>0, <2>2, <2>4 DEF WriteConfig, TypeOK, Admin
    <3> QED
      BY <1>0, <1>3, <2>2, <2>4, <3>1
      DEF WriteConfig, TypeOK, BucketTypeOK, bucketVars, fileVars
  <2> QED
    BY <1>6, <2>1, <2>3, <2>4 DEF AdminStep
<1> QED
  BY <1>2, <1>4, <1>5, <1>6 DEF IInv

LEMMA EnqueueInv == ASSUME IInv, NEW u \in Uploads, Enqueue(u) PROVE IInv'
<1>0. TypeOK /\ upload[u].pc = "enqueue" /\ "queued" \in Labels
  BY DEF IInv, Enqueue, At, Labels
<1>1. /\ upload' \in [Uploads -> Upload]
      /\ upload'[u].pc = "queued"
      /\ \A v \in Uploads : v # u => upload'[v] = upload[v]
  BY <1>0, AfterGoto DEF Enqueue
<1>2. /\ queue' = Append(queue, u)
      /\ UNCHANGED <<bucketVars, adminVars, wired, fileVars, active, checker>>
  BY DEF Enqueue
<1>3. queue \in Seq(Uploads) /\ checker.batch \in Seq(Uploads)
  BY <1>0, Sequences
<1>4. Waits(queue, "queued") /\ Waits(checker.batch, "popped")
  BY DEF IInv, Slotted, QueueKept, BatchKept
<1>5. TypeOK'
  BY <1>0, <1>1, <1>2, <1>3
  DEF TypeOK, BucketTypeOK, bucketVars, adminVars, fileVars
<1>6. Chunked'
  BY <1>1 DEF IInv, Chunked
<1>7. \A i \in 1..Len(queue) : upload'[queue[i]].pc = "queued"
  BY <1>0, <1>1, <1>3, <1>4, Unaffected
<1>8. \A i \in 1..Len(queue) : queue[i] # u
  BY <1>0, <1>4 DEF Waits
<1>9. QueueKept'
  <2>1. /\ Len(queue') = Len(queue) + 1 /\ queue'[Len(queue) + 1] = u
        /\ \A i \in 1..Len(queue) : queue'[i] = queue[i]
    BY <1>2, <1>3
  <2>2. \A i \in 1..Len(queue') : upload'[queue'[i]].pc = "queued"
    BY <1>1, <1>3, <1>7, <2>1
  <2>3. \A i, j \in 1..Len(queue') : queue'[i] = queue'[j] => i = j
    BY <1>3, <1>4, <1>8, <2>1 DEF Waits
  <2> QED
    BY <2>2, <2>3 DEF QueueKept, Waits
<1>10. \A i \in 1..Len(checker.batch) : upload'[checker.batch[i]].pc = "popped"
  BY <1>0, <1>1, <1>3, <1>4, Unaffected
<1>11. BatchKept'
  BY <1>2, <1>4, <1>10 DEF IInv, Slotted, BatchKept, Waits
<1>12. RunningSet' = RunningSet
  BY <1>0, <1>1 DEF RunningSet, Running
<1>13. ActiveIsRunning'
  BY <1>2, <1>12 DEF IInv, Slotted, ActiveIsRunning, RunningSet
<1>14. FreeKept' /\ SlotsRespected'
  BY <1>2 DEF IInv, Slotted, FreeKept, SlotsRespected
<1> QED
  BY <1>5, <1>6, <1>9, <1>11, <1>13, <1>14 DEF IInv, Slotted

LEMMA CheckerInv == ASSUME IInv, CheckConfig \/ CountActive PROVE IInv'
<1>0. TypeOK /\ checker \in Checker /\ active \in Nat /\ checker.batch = <<>>
  BY DEF IInv, TypeOK, Slotted, BatchKept, CheckConfig, CountActive, CheckerAt
<1>1. UNCHANGED <<bucketVars, adminVars, wired, fileVars, queue, active, upload>>
  BY DEF CheckConfig, CountActive
<1>2. /\ checker' \in Checker /\ checker'.batch = <<>>
      /\ checker'.pc = "pop" => active + checker'.free <= checker'.slots
  <2>1. CASE CheckConfig
    <3>1. config.slots \in Nat
      BY <1>0, ChoicesAssumption DEF TypeOK, Config
    <3> QED
      BY <1>0, <2>1, <3>1 DEF CheckConfig, Checker
  <2>2. CASE CountActive
    <3>1. CASE active >= checker.slots
      BY <2>2, <3>1 DEF CountActive, IdleChecker, Checker
    <3>2. CASE ~(active >= checker.slots)
      <4> DEFINE free == checker.slots - active
      <4>1. checker.slots \in Nat
        BY <1>0 DEF Checker
      <4>2. free \in Nat /\ active + free <= checker.slots
        BY <1>0, <3>2, <4>1
      <4>3. checker' = [checker EXCEPT !.pc = "pop", !.free = free]
        BY <2>2, <3>2 DEF CountActive
      <4> HIDE DEF free
      <4> QED
        BY <1>0, <4>2, <4>3 DEF Checker
    <3> QED
      BY <3>1, <3>2
  <2> QED
    BY <2>1, <2>2
<1>3. TypeOK'
  BY <1>0, <1>1, <1>2 DEF TypeOK, BucketTypeOK, bucketVars, adminVars, fileVars
<1>4. Chunked' /\ QueueKept'
  BY <1>1 DEF IInv, Chunked, Slotted, QueueKept, Waits
<1>5. ActiveIsRunning'
  BY <1>1 DEF IInv, Slotted, ActiveIsRunning
<1>6. BatchKept' /\ FreeKept' /\ SlotsRespected'
  BY <1>1, <1>2 DEF BatchKept, Waits, FreeKept, SlotsRespected
<1> QED
  BY <1>3, <1>4, <1>5, <1>6 DEF IInv, Slotted

LEMMA PopInv == ASSUME IInv, Pop PROVE IInv'
<1> DEFINE k == IF checker.free < Len(queue) THEN checker.free ELSE Len(queue)
<1>0. TypeOK /\ checker \in Checker /\ active \in Nat /\ checker.pc = "pop"
  BY DEF IInv, TypeOK, Pop, CheckerAt
<1>1. queue \in Seq(Uploads) /\ upload \in [Uploads -> Upload]
      /\ checker.free \in Nat /\ checker.slots \in Nat
  BY <1>0 DEF TypeOK, Checker
<1>2. k \in Nat /\ k <= checker.free /\ k <= Len(queue)
  BY <1>1
<1>3. /\ checker' = [checker EXCEPT !.pc = "client", !.batch = SubSeq(queue, 1, k)]
      /\ queue' = SubSeq(queue, k + 1, Len(queue))
      /\ upload' = [u \in Uploads |-> IF \E i \in 1..k : queue[i] = u
                                      THEN [upload[u] EXCEPT !.pc = "popped"] ELSE upload[u]]
      /\ UNCHANGED <<bucketVars, adminVars, wired, fileVars, active>>
  BY DEF Pop
<1> HIDE DEF k
<1>4. /\ SubSeq(queue, 1, k) \in Seq(Uploads) /\ Len(SubSeq(queue, 1, k)) = k
      /\ \A i \in 1..k : SubSeq(queue, 1, k)[i] = queue[i]
  BY <1>1, <1>2
<1>5. /\ queue' \in Seq(Uploads) /\ Len(queue') = Len(queue) - k
      /\ \A i \in 1..Len(queue') : queue'[i] = queue[k + i]
  BY <1>1, <1>2, <1>3
<1>6. /\ checker' \in Checker /\ checker'.pc = "client"
      /\ checker'.batch = SubSeq(queue, 1, k) /\ checker'.slots = checker.slots
  BY <1>0, <1>3, <1>4 DEF Checker
<1>7. \A i \in 1..Len(queue) : queue[i] \in Uploads /\ upload[queue[i]].pc = "queued"
  BY <1>1 DEF IInv, Slotted, QueueKept, Waits
<1>8. \A i, j \in 1..Len(queue) : queue[i] = queue[j] => i = j
  BY DEF IInv, Slotted, QueueKept, Waits
<1>9. ASSUME NEW u \in Uploads, \E i \in 1..k : queue[i] = u
      PROVE  upload'[u] \in Upload /\ upload'[u].pc = "popped" /\ upload[u].pc = "queued"
  <2>1. upload'[u] = [upload[u] EXCEPT !.pc = "popped"]
    BY <1>3, <1>9
  <2>2. upload[u] \in Upload
    BY <1>1
  <2>3. upload[u].pc = "queued"
    BY <1>2, <1>7, <1>9
  <2> QED
    BY <2>1, <2>2, <2>3 DEF Upload
<1>10. ASSUME NEW u \in Uploads, ~(\E i \in 1..k : queue[i] = u)
       PROVE  upload'[u] = upload[u]
  BY <1>3, <1>10
<1>11. upload' \in [Uploads -> Upload]
  <2>1. \A u \in Uploads : upload'[u] \in Upload
    BY <1>1, <1>9, <1>10
  <2> QED
    BY <1>3, <2>1
<1>12. TypeOK'
  BY <1>0, <1>3, <1>5, <1>6, <1>11
  DEF TypeOK, BucketTypeOK, bucketVars, adminVars, fileVars
<1>13. Chunked'
  BY <1>9, <1>10 DEF IInv, Chunked
<1>14. QueueKept'
  <2>1. ASSUME NEW i \in 1..Len(queue') PROVE upload'[queue'[i]].pc = "queued"
    <3>1. queue'[i] = queue[k + i] /\ k + i \in 1..Len(queue)
      BY <1>1, <1>2, <1>5
    <3>2. ASSUME NEW j \in 1..k PROVE queue[j] # queue[k + i]
      <4>1. j \in 1..Len(queue) /\ j # k + i
        BY <1>1, <1>2
      <4> QED
        BY <1>8, <3>1, <4>1
    <3>3. queue[k + i] \in Uploads /\ upload[queue[k + i]].pc = "queued"
      BY <1>7, <3>1
    <3>4. upload'[queue[k + i]] = upload[queue[k + i]]
      BY <1>10, <3>2, <3>3
    <3> QED
      BY <3>1, <3>3, <3>4
  <2>2. ASSUME NEW i \in 1..Len(queue'), NEW j \in 1..Len(queue'), queue'[i] = queue'[j]
        PROVE  i = j
    <3>1. /\ queue'[i] = queue[k + i] /\ k + i \in 1..Len(queue)
          /\ queue'[j] = queue[k + j] /\ k + j \in 1..Len(queue)
      BY <1>1, <1>2, <1>5
    <3>2. k + i = k + j
      BY <1>8, <2>2, <3>1
    <3> QED
      BY <1>2, <1>5, <3>2
  <2> QED
    BY <2>1, <2>2 DEF QueueKept, Waits
<1>15. BatchKept'
  <2>1. ASSUME NEW i \in 1..k PROVE upload'[queue[i]].pc = "popped"
    BY <1>1, <1>2, <1>7, <1>9
  <2>2. ASSUME NEW i \in 1..k, NEW j \in 1..k, queue[i] = queue[j] PROVE i = j
    BY <1>1, <1>2, <1>8, <2>2
  <2> DEFINE batch == SubSeq(queue, 1, k)
  <2>3. Len(batch) = k /\ \A i \in 1..Len(batch) : batch[i] = queue[i]
    BY <1>4
  <2> HIDE DEF batch
  <2>4. \A i \in 1..Len(batch) : upload'[batch[i]].pc = "popped"
    BY <2>1, <2>3
  <2>5. \A i, j \in 1..Len(batch) : batch[i] = batch[j] => i = j
    BY <2>2, <2>3
  <2>6. checker'.batch = batch /\ checker'.pc = "client"
    BY <1>6 DEF batch
  <2> QED
    BY <2>4, <2>5, <2>6 DEF BatchKept, Waits
<1>16. RunningSet' = RunningSet
  BY <1>9, <1>10 DEF RunningSet, Running
<1>17. ActiveIsRunning'
  BY <1>3, <1>16 DEF IInv, Slotted, ActiveIsRunning, RunningSet
<1>18. FreeKept' /\ SlotsRespected'
  <2>1. active + checker.free <= checker.slots
    BY <1>0 DEF IInv, Slotted, FreeKept
  <2> QED
    BY <1>0, <1>1, <1>2, <1>3, <1>4, <1>6, <2>1 DEF FreeKept, SlotsRespected
<1> QED
  BY <1>12, <1>13, <1>14, <1>15, <1>17, <1>18 DEF IInv, Slotted

LEMMA GetClientInv == ASSUME IInv, GetClient PROVE IInv'
<1>0. TypeOK /\ checker \in Checker /\ checker.pc = "client"
  BY DEF IInv, TypeOK, GetClient, CheckerAt
<1>1. UNCHANGED <<bucketVars, adminVars, wired, fileVars, queue, active>>
  BY DEF GetClient
<1>2. CASE wired = "both"
  <2>1. checker' = [checker EXCEPT !.pc = "start"] /\ UNCHANGED upload
    BY <1>2 DEF GetClient
  <2>2. /\ checker' \in Checker /\ checker'.pc = "start"
        /\ checker'.batch = checker.batch /\ checker'.slots = checker.slots
    BY <1>0, <2>1 DEF Checker
  <2>3. TypeOK'
    BY <1>0, <1>1, <2>1, <2>2 DEF TypeOK, BucketTypeOK, bucketVars, adminVars, fileVars
  <2>4. Chunked' /\ QueueKept' /\ ActiveIsRunning'
    BY <1>1, <2>1 DEF IInv, Chunked, Slotted, QueueKept, Waits, ActiveIsRunning
  <2>5. BatchKept'
    BY <1>1, <2>1, <2>2 DEF IInv, Slotted, BatchKept, Waits
  <2>6. FreeKept' /\ SlotsRespected'
    BY <1>1, <2>2 DEF IInv, Slotted, FreeKept, SlotsRespected
  <2> QED
    BY <2>3, <2>4, <2>5, <2>6 DEF IInv, Slotted
<1>3. CASE wired # "both"
  <2>1. /\ checker' = IdleChecker
        /\ upload' = [u \in Uploads |->
                        IF At(u, "popped") THEN [upload[u] EXCEPT !.pc = "dropped"]
                        ELSE upload[u]]
    BY <1>3 DEF GetClient
  <2>2. checker' \in Checker /\ checker'.pc = "idle" /\ checker'.batch = <<>>
    BY <2>1 DEF IdleChecker, Checker
  <2>3. ASSUME NEW u \in Uploads, upload[u].pc = "popped"
        PROVE  upload'[u] \in Upload /\ upload'[u].pc = "dropped"
    <3>1. upload'[u] = [upload[u] EXCEPT !.pc = "dropped"]
      BY <2>1, <2>3 DEF At
    <3>2. upload[u] \in Upload
      BY <1>0 DEF TypeOK
    <3> QED
      BY <3>1, <3>2 DEF Upload, Ended
  <2>4. ASSUME NEW u \in Uploads, upload[u].pc # "popped" PROVE upload'[u] = upload[u]
    BY <2>1, <2>4 DEF At
  <2>5. upload' \in [Uploads -> Upload]
    <3>1. \A u \in Uploads : upload'[u] \in Upload
      BY <1>0, <2>3, <2>4 DEF TypeOK
    <3> QED
      BY <2>1, <3>1
  <2>6. TypeOK'
    BY <1>0, <1>1, <2>2, <2>5 DEF TypeOK, BucketTypeOK, bucketVars, adminVars, fileVars
  <2>7. Chunked'
    BY <2>3, <2>4 DEF IInv, Chunked
  <2>8. QueueKept'
    <3>1. queue \in Seq(Uploads)
      BY <1>0, Sequences
    <3>2. Waits(queue, "queued")
      BY DEF IInv, Slotted, QueueKept
    <3>3. ASSUME NEW i \in 1..Len(queue) PROVE upload'[queue[i]].pc = "queued"
      <4>1. queue[i] \in Uploads /\ upload[queue[i]].pc = "queued"
        BY <3>1, <3>2 DEF Waits
      <4> QED
        BY <2>4, <4>1
    <3> QED
      BY <1>1, <3>2, <3>3 DEF QueueKept, Waits
  <2>9. RunningSet' = RunningSet
    BY <2>3, <2>4 DEF RunningSet, Running
  <2>10. ActiveIsRunning'
    BY <1>1, <2>9 DEF IInv, Slotted, ActiveIsRunning, RunningSet
  <2>11. BatchKept' /\ FreeKept' /\ SlotsRespected'
    BY <2>2 DEF BatchKept, Waits, FreeKept, SlotsRespected
  <2> QED
    BY <2>6, <2>7, <2>8, <2>10, <2>11 DEF IInv, Slotted
<1> QED
  BY <1>2, <1>3

LEMMA RunningFinite ==
  IsFiniteSet(RunningSet) /\ Cardinality(RunningSet) \in Nat
<1>1. RunningSet \subseteq Uploads
  BY DEF RunningSet
<1> QED
  BY <1>1, UploadsAssumption, FS_Subset, FS_CardinalityType

LEMMA StartUploadInv == ASSUME IInv, StartUpload PROVE IInv'
<1>0. TypeOK /\ checker \in Checker /\ checker.pc = "start" /\ active \in Nat
  BY DEF IInv, TypeOK, StartUpload, CheckerAt
<1>1. UNCHANGED <<bucketVars, adminVars, wired, fileVars, queue>>
  BY DEF StartUpload
<1>2. CASE checker.batch = <<>>
  <2>1. checker' = IdleChecker /\ UNCHANGED <<active, upload>>
    BY <1>2 DEF StartUpload
  <2>2. checker' \in Checker /\ checker'.pc = "idle" /\ checker'.batch = <<>>
    BY <2>1 DEF IdleChecker, Checker
  <2>3. TypeOK'
    BY <1>0, <1>1, <2>1, <2>2 DEF TypeOK, BucketTypeOK, bucketVars, adminVars, fileVars
  <2>4. Chunked' /\ QueueKept' /\ ActiveIsRunning'
    BY <1>1, <2>1 DEF IInv, Chunked, Slotted, QueueKept, Waits, ActiveIsRunning
  <2>5. BatchKept' /\ FreeKept' /\ SlotsRespected'
    BY <2>2 DEF BatchKept, Waits, FreeKept, SlotsRespected
  <2> QED
    BY <2>3, <2>4, <2>5 DEF IInv, Slotted
<1>3. CASE checker.batch # <<>>
  <2> DEFINE u == Head(checker.batch)
             b == checker.batch
  <2>1. /\ active' = active + 1
        /\ checker' = [checker EXCEPT !.batch = Tail(checker.batch)]
        /\ Goto(u, "negotiate")
    BY <1>3 DEF StartUpload
  <2>2. b \in Seq(Uploads) /\ queue \in Seq(Uploads)
    BY <1>0, Sequences
  <2>3. Waits(b, "popped") /\ Waits(queue, "queued")
    BY DEF IInv, Slotted, BatchKept, QueueKept
  <2>4. Len(b) \in Nat /\ Len(b) >= 1 /\ u = b[1] /\ u \in Uploads
    BY <1>3, <2>2
  <2>5. upload[u].pc = "popped"
    BY <2>3, <2>4 DEF Waits
  <2>6. /\ Tail(b) \in Seq(Uploads) /\ Len(Tail(b)) = Len(b) - 1
        /\ \A i \in 1..Len(Tail(b)) : Tail(b)[i] = b[i + 1]
    BY <1>3, <2>2
  <2>7. /\ checker' \in Checker /\ checker'.pc = "start"
        /\ checker'.batch = Tail(b) /\ checker'.slots = checker.slots
    BY <1>0, <2>1, <2>6 DEF Checker
  <2> HIDE DEF u
  <2>8. /\ upload' \in [Uploads -> Upload] /\ upload'[u].pc = "negotiate"
        /\ \A v \in Uploads : v # u => upload'[v] = upload[v]
    <3>1. "negotiate" \in Labels
      BY DEF Labels, Running
    <3> QED
      BY <1>0, <2>1, <2>4, <3>1, AfterGoto
  <2>9. TypeOK'
    BY <1>0, <1>1, <2>1, <2>7, <2>8
    DEF TypeOK, BucketTypeOK, bucketVars, adminVars, fileVars
  <2>10. Chunked'
    BY <2>8 DEF IInv, Chunked
  <2>11. QueueKept'
    <3>1. \A i \in 1..Len(queue) : upload'[queue[i]].pc = "queued"
      BY <2>2, <2>3, <2>4, <2>5, <2>8, Unaffected
    <3> QED
      BY <1>1, <2>3, <3>1 DEF QueueKept, Waits
  <2>12. BatchKept'
    <3>1. ASSUME NEW i \in 1..Len(Tail(b)) PROVE upload'[Tail(b)[i]].pc = "popped"
      <4>1. Tail(b)[i] = b[i + 1] /\ i + 1 \in 1..Len(b) /\ 1 \in 1..Len(b) /\ i + 1 # 1
        BY <2>4, <2>6
      <4>2. b[i + 1] # u
        BY <2>3, <2>4, <4>1 DEF Waits
      <4>3. b[i + 1] \in Uploads /\ upload[b[i + 1]].pc = "popped"
        BY <2>2, <2>3, <4>1 DEF Waits
      <4> QED
        BY <2>8, <4>1, <4>2, <4>3
    <3>2. ASSUME NEW i \in 1..Len(Tail(b)), NEW j \in 1..Len(Tail(b)), Tail(b)[i] = Tail(b)[j]
          PROVE  i = j
      <4>1. i + 1 \in 1..Len(b) /\ j + 1 \in 1..Len(b) /\ b[i + 1] = b[j + 1]
        BY <2>4, <2>6, <3>2
      <4>2. i + 1 = j + 1
        BY <2>3, <4>1 DEF Waits
      <4> QED
        BY <4>2
    <3> QED
      BY <2>7, <3>1, <3>2 DEF BatchKept, Waits
  <2>13. ActiveIsRunning'
    <3>1. RunningSet' = RunningSet \cup {u} /\ u \notin RunningSet
      BY <2>4, <2>5, <2>8 DEF RunningSet, Running
    <3>2. Cardinality(RunningSet \cup {u}) = Cardinality(RunningSet) + 1
      BY <3>1, RunningFinite, FS_AddElement
    <3> QED
      BY <2>1, <3>1, <3>2 DEF IInv, Slotted, ActiveIsRunning, RunningSet
  <2>14. FreeKept' /\ SlotsRespected'
    <3>1. active + Len(b) <= checker.slots /\ checker.slots \in Nat
      BY <1>0, <1>3 DEF IInv, Slotted, SlotsRespected, Checker
    <3> QED
      BY <1>0, <2>1, <2>4, <2>6, <2>7, <3>1 DEF FreeKept, SlotsRespected
  <2> QED
    BY <2>9, <2>10, <2>11, <2>12, <2>13, <2>14 DEF IInv, Slotted
<1> QED
  BY <1>2, <1>3

LEMMA ReleaseInv == ASSUME IInv, NEW u \in Uploads, Release(u) PROVE IInv'
<1>0. TypeOK /\ upload[u].pc = "release" /\ "done" \in Labels /\ active \in Nat
  BY DEF IInv, TypeOK, Release, At, Labels, Ended
<1>1. /\ upload' \in [Uploads -> Upload]
      /\ upload'[u].pc = "done"
      /\ \A v \in Uploads : v # u => upload'[v] = upload[v]
  BY <1>0, AfterGoto DEF Release
<1>2. /\ active' = active - 1
      /\ UNCHANGED <<bucketVars, adminVars, wired, fileVars, queue, checker>>
  BY DEF Release
<1>3. queue \in Seq(Uploads) /\ checker.batch \in Seq(Uploads) /\ checker \in Checker
  BY <1>0, Sequences DEF TypeOK
<1>4. Waits(queue, "queued") /\ Waits(checker.batch, "popped")
  BY DEF IInv, Slotted, QueueKept, BatchKept
<1>5. active' \in Nat /\ ActiveIsRunning'
  <2>1. u \in RunningSet /\ RunningSet' = RunningSet \ {u}
    BY <1>0, <1>1 DEF RunningSet, Running, Ended
  <2>2. /\ Cardinality(RunningSet \ {u}) = Cardinality(RunningSet) - 1
        /\ IsFiniteSet(RunningSet \ {u})
    BY <2>1, RunningFinite, FS_RemoveElement
  <2>3. Cardinality(RunningSet \ {u}) \in Nat
    BY <2>2, FS_CardinalityType
  <2>4. active = Cardinality(RunningSet)
    BY DEF IInv, Slotted, ActiveIsRunning, RunningSet
  <2>5. active' = Cardinality(RunningSet')
    BY <1>2, <2>1, <2>2, <2>4
  <2> QED
    BY <2>1, <2>3, <2>5 DEF ActiveIsRunning, RunningSet
<1>6. TypeOK'
  BY <1>0, <1>1, <1>2, <1>5 DEF TypeOK, BucketTypeOK, bucketVars, adminVars, fileVars
<1>7. Chunked'
  BY <1>1 DEF IInv, Chunked
<1>8. QueueKept'
  <2>1. \A i \in 1..Len(queue) : upload'[queue[i]].pc = "queued"
    BY <1>0, <1>1, <1>3, <1>4, Unaffected
  <2> QED
    BY <1>2, <1>4, <2>1 DEF QueueKept, Waits
<1>9. BatchKept'
  <2>1. \A i \in 1..Len(checker.batch) : upload'[checker.batch[i]].pc = "popped"
    BY <1>0, <1>1, <1>3, <1>4, Unaffected
  <2> QED
    BY <1>2, <1>4, <2>1 DEF IInv, Slotted, BatchKept, Waits
<1>10. FreeKept' /\ SlotsRespected'
  <2>1. checker.free \in Nat /\ checker.slots \in Nat /\ Len(checker.batch) \in Nat
    BY <1>3 DEF Checker
  <2> QED
    BY <1>0, <1>2, <2>1 DEF IInv, Slotted, FreeKept, SlotsRespected
<1> QED
  BY <1>5, <1>6, <1>7, <1>8, <1>9, <1>10 DEF IInv, Slotted

-----------------------------------------------------------------------------
\* Every step keeps the invariant.
LEMMA NextIInv == IInv /\ [Next]_vars => IInv'
<1> SUFFICES ASSUME IInv, [Next]_vars PROVE IInv'
  OBVIOUS
<1>1. ASSUME NEW u \in Uploads, Request(u) \/ UploadStep(u) PROVE IInv'
  BY <1>1, RequestInv, ValidateInv, EnqueueInv, NegotiateInv, OpenInv, ReadInv,
     ThrottleInv, WriteInv, ReleaseInv DEF UploadStep
<1>2. CASE CheckStep
  BY <1>2, CheckerInv, PopInv, GetClientInv, StartUploadInv DEF CheckStep
<1>3. CASE UNCHANGED vars
  <2>1. UNCHANGED <<slotVars, upload, bucketVars, adminVars, wired, fileVars>>
    BY <1>3 DEF vars
  <2>2. Chunked' /\ Slotted'
    BY <2>1, Elsewhere
  <2>3. TypeOK'
    BY <2>1 DEF IInv, TypeOK, BucketTypeOK, slotVars, bucketVars, adminVars, fileVars
  <2> QED
    BY <2>2, <2>3 DEF IInv
<1> QED
  BY <1>1, <1>2, <1>3, OtherInv DEF Next

\* The inductive invariant: types, and no upload at two places at once.
THEOREM Invariance == Spec => []IInv
BY InitIInv, NextIInv, PTL DEF Spec

\* Every variable of the upload service keeps its type: in particular the
\* unsigned active_count never goes below zero, and a chunk is never larger
\* than what is left to send (upload.rs 343-404, peer.rs 1064-1122).
THEOREM UploadTypeCorrect == Spec => []TypeOK
<1>1. IInv => TypeOK
  BY DEF IInv
<1> QED
  BY <1>1, Invariance, PTL

\* active_count is the number of uploads in progress, for any number of peers
\* and whichever way an upload ends (upload.rs 343-404).
THEOREM ActiveCountsRunning == Spec => []ActiveIsRunning
<1>1. IInv => ActiveIsRunning
  BY DEF IInv, Slotted
<1> QED
  BY <1>1, Invariance, PTL

\* The checker never starts more uploads than the slots it read allow, although
\* it reads them, the count and the queue one after the other (upload.rs
\* 297-405).
THEOREM SlotsAreRespected == Spec => []SlotsRespected
<1>1. IInv => SlotsRespected
  BY DEF IInv, Slotted
<1> QED
  BY <1>1, Invariance, PTL

-----------------------------------------------------------------------------
(* The rate limit.  As long as nobody changes the configuration, what has      *)
(* passed since the window was opened and what a refill would leave in the     *)
(* bucket together are one second's worth and what the time since has earned.  *)

Undisturbed == /\ \A a \in Admins : admin[a].pc = "idle"
               /\ \A u \in Uploads : upload[u].pc = "wait" => upload[u].limit = rate

Paid == /\ passed <= rate * (Second + clock)
        /\ clock < MaxClock => passed + Refilled(rate) <= rate * (Second + clock)

RInv == updates = 0 => Undisturbed /\ Paid

LEMMA Product ==
  ASSUME NEW r \in Nat, NEW a \in Nat, NEW b \in Nat
  PROVE  r * a \in Nat /\ r * (a + b) = r * a + r * b
OBVIOUS

\* A refill leaves no more than there was and was earned, and never more than
\* one second's worth.
LEMMA RefilledAtMost ==
  ASSUME BucketTypeOK
  PROVE  /\ Refilled(rate) \in Nat /\ rate * Second \in Nat
         /\ Refilled(rate) <= tokens + elapsed * rate
         /\ Refilled(rate) <= rate * Second
         /\ Refilled(rate) \in {tokens + elapsed * rate, rate * Second}
<1>1. rate \in Nat /\ tokens \in Nat /\ elapsed \in Nat /\ Second \in Nat
  BY TimeAssumption DEF BucketTypeOK
<1> DEFINE cap == rate * Second
           earned == elapsed * rate
<1>2. cap \in Nat /\ earned \in Nat
  BY <1>1
<1>3. Refilled(rate) = IF tokens + earned > cap THEN cap ELSE tokens + earned
  BY DEF Refilled
<1> HIDE DEF cap, earned
<1>4. /\ Refilled(rate) \in Nat /\ Refilled(rate) <= tokens + earned
      /\ Refilled(rate) <= cap /\ Refilled(rate) \in {tokens + earned, cap}
  BY <1>1, <1>2, <1>3
<1> QED
  BY <1>2, <1>4 DEF cap, earned

LEMMA InitRInv == Init => RInv
<1> SUFFICES ASSUME Init PROVE RInv
  OBVIOUS
<1>1. rate \in Nat /\ passed = 0 /\ elapsed = 0 /\ clock = 0 /\ tokens = rate * Second
  BY InitialAssumption, ChoicesAssumption DEF Init, BucketInit, Config
<1>2. BucketTypeOK
  BY <1>1, TimeAssumption DEF BucketTypeOK
<1>3. Paid
  BY <1>1, <1>2, RefilledAtMost, TimeAssumption DEF Paid
<1>4. Undisturbed
  BY DEF Init, Idle, Undisturbed
<1> QED
  BY <1>3, <1>4 DEF RInv

\* A window that opens now owes the bucket no more than it can hold: here the
\* cap at one second's worth is needed.
LEMMA ObservePaid == ASSUME BucketTypeOK, Observe PROVE Paid'
<1>1. /\ rate \in Nat /\ Second \in Nat /\ passed' = 0 /\ clock' = 0
      /\ UNCHANGED <<rate, tokens, elapsed>>
  BY TimeAssumption DEF Observe, BucketTypeOK
<1>2. Refilled(rate)' = Refilled(rate)
  BY <1>1 DEF Refilled
<1>3. rate' * (Second + clock') = rate * Second
  BY <1>1
<1>4. /\ Refilled(rate) \in Nat /\ Refilled(rate) <= rate * Second /\ rate * Second \in Nat
  BY RefilledAtMost
<1> DEFINE cap == rate * Second
<1> HIDE DEF cap
<1>5. passed' <= rate' * (Second + clock')
  BY <1>1, <1>3, <1>4
<1>6. passed' + Refilled(rate)' <= rate' * (Second + clock')
  BY <1>1, <1>2, <1>3, <1>4
<1> QED
  BY <1>5, <1>6 DEF Paid

\* A tick adds as much to what may pass as to what a refill can leave.
LEMMA TickPaid == ASSUME BucketTypeOK, Paid, Tick PROVE Paid'
<1>1. /\ rate \in Nat /\ passed \in Nat /\ tokens \in Nat /\ elapsed \in Nat
      /\ Second \in Nat /\ clock \in Nat
      /\ UNCHANGED <<rate, tokens, passed>>
      /\ clock' \in {clock, clock + 1}
      /\ clock' < MaxClock => clock < MaxClock /\ clock' = clock + 1
      /\ elapsed' \in {elapsed, elapsed + 1}
  BY TimeAssumption DEF Tick, BucketTypeOK
<1> DEFINE full   == rate * (Second + clock)
           later  == rate * (Second + clock')
           earned == elapsed * rate
           more   == elapsed' * rate
           cap    == rate * Second
<1>2. full \in Nat /\ later \in {full, full + rate} /\ (clock' = clock + 1 => later = full + rate)
  <2>1. full \in Nat /\ rate * ((Second + clock) + 1) = full + rate * 1
    BY <1>1, Product
  <2>2. (Second + clock) + 1 = Second + (clock + 1) /\ rate * 1 = rate
    BY <1>1
  <2>3. rate * (Second + (clock + 1)) = full + rate
    BY <2>1, <2>2
  <2> HIDE DEF full
  <2>4. CASE clock' = clock
    BY <1>1, <2>1, <2>4 DEF full
  <2>5. CASE clock' = clock + 1
    BY <1>1, <2>1, <2>3, <2>5
  <2> QED
    BY <1>1, <2>4, <2>5
<1>3. earned \in Nat /\ more \in {earned, earned + rate} /\ cap \in Nat
  <2>1. earned \in Nat /\ (elapsed + 1) * rate = earned + rate /\ cap \in Nat
    BY <1>1
  <2>2. CASE elapsed' = elapsed
    BY <2>1, <2>2
  <2>3. CASE elapsed' = elapsed + 1
    BY <2>1, <2>3
  <2> QED
    BY <1>1, <2>2, <2>3
<1>4. Refilled(rate) = IF tokens + earned > cap THEN cap ELSE tokens + earned
  BY DEF Refilled
<1>5. Refilled(rate)' = IF tokens + more > cap THEN cap ELSE tokens + more
  BY <1>1 DEF Refilled
<1>6. passed <= full /\ (clock < MaxClock => passed + Refilled(rate) <= full)
  BY DEF Paid
<1>7. rate' * (Second + clock') = later
  BY <1>1
<1> HIDE DEF full, later, earned, more, cap
<1>8. Refilled(rate)' <= Refilled(rate) + rate /\ Refilled(rate)' \in Nat /\ Refilled(rate) \in Nat
  BY <1>1, <1>3, <1>4, <1>5
<1>9. passed' <= later
  BY <1>1, <1>2, <1>6
<1>10. clock' < MaxClock => passed' + Refilled(rate)' <= later
  BY <1>1, <1>2, <1>6, <1>8
<1> QED
  BY <1>7, <1>9, <1>10 DEF Paid

\* What a turn of consume lets through, it takes from the bucket.
LEMMA ConsumePaid ==
  ASSUME BucketTypeOK, Paid, NEW n \in Nat, NEW granted \in BOOLEAN,
         Consume(n, rate, granted)
  PROVE  Paid'
<1>1. /\ rate \in Nat /\ passed \in Nat /\ Second \in Nat /\ clock \in Nat
      /\ UNCHANGED <<rate, clock>> /\ elapsed' = 0
  BY TimeAssumption DEF Consume, BucketTypeOK
<1> DEFINE full == rate * (Second + clock)
<1>2. full \in Nat /\ rate' * (Second + clock') = full
  BY <1>1
<1>3. passed <= full /\ (clock < MaxClock => passed + Refilled(rate) <= full)
  BY DEF Paid
<1>4. Refilled(rate) \in Nat
  BY RefilledAtMost
<1>5. ASSUME NEW t \in Nat, tokens' = t
      PROVE  Refilled(rate)' \in Nat /\ Refilled(rate)' <= t
  <2>1. elapsed' * rate' = 0 /\ rate' * Second \in Nat
    BY <1>1
  <2> DEFINE cap == rate' * Second
  <2>2. Refilled(rate)' = IF t + 0 > cap THEN cap ELSE t + 0
    BY <1>5, <2>1 DEF Refilled
  <2> HIDE DEF cap
  <2>3. cap \in Nat
    BY <2>1 DEF cap
  <2> QED
    BY <2>2, <2>3
<1> HIDE DEF full
<1>6. CASE granted
  <2>1. Refilled(rate) >= n
    BY <1>6, Zenon DEF Consume
  <2>2. /\ tokens' = Refilled(rate) - n
        /\ passed' = IF clock < MaxClock THEN passed + n ELSE passed
    BY <1>6 DEF Consume
  <2>3. Refilled(rate)' \in Nat /\ Refilled(rate)' <= Refilled(rate) - n
    BY <1>4, <1>5, <2>1, <2>2
  <2>4. /\ passed' <= full
        /\ clock < MaxClock => passed' + Refilled(rate)' <= full
    BY <1>1, <1>2, <1>3, <1>4, <2>1, <2>2, <2>3
  <2> QED
    BY <1>1, <1>2, <2>4 DEF Paid
<1>7. CASE ~granted
  <2>1. tokens' = Refilled(rate) /\ passed' = passed
    BY <1>7 DEF Consume
  <2>2. Refilled(rate)' \in Nat /\ Refilled(rate)' <= Refilled(rate)
    BY <1>4, <1>5, <2>1
  <2>3. /\ passed' <= full
        /\ clock < MaxClock => passed' + Refilled(rate)' <= full
    BY <1>1, <1>2, <1>3, <1>4, <2>1, <2>2
  <2> QED
    BY <1>1, <1>2, <2>3 DEF Paid
<1> QED
  BY <1>6, <1>7

\* The uploads that wait after a step that leaves the bucket alone work with its
\* rate.
LEMMA QuietStep ==
  ASSUME RInv, UNCHANGED <<bucketVars, adminVars>>,
         \A u \in Uploads : upload'[u].pc = "wait" =>
           \/ upload[u].pc = "wait" /\ upload'[u].limit = upload[u].limit
           \/ upload'[u].limit = rate
  PROVE  RInv'
<1>1. UNCHANGED <<rate, tokens, elapsed, clock, passed, admin, updates>>
  BY DEF bucketVars, adminVars
<1>2. Paid => Paid'
  BY <1>1 DEF Paid, Refilled
<1> QED
  BY <1>1, <1>2 DEF RInv, Undisturbed

LEMMA SetQuiet ==
  ASSUME TypeOK, RInv, NEW u \in Uploads, NEW r \in Upload, Set(u, r),
         r.pc = "wait" => r.limit = rate,
         UNCHANGED <<bucketVars, adminVars>>
  PROVE  RInv'
BY AfterSet, QuietStep

LEMMA GotoQuiet ==
  ASSUME TypeOK, RInv, NEW u \in Uploads, NEW label \in Labels \ {"wait"}, Goto(u, label),
         UNCHANGED <<bucketVars, adminVars>>
  PROVE  RInv'
BY AfterGoto, QuietStep

\* An upload begins to wait with the bucket's rate, and a turn on the bucket is
\* taken at the rate it began with.
LEMMA UploadRInv ==
  ASSUME IInv, RInv, NEW u \in Uploads, Request(u) \/ UploadStep(u)
  PROVE  RInv'
<1>0. TypeOK /\ upload[u] \in Upload
  BY DEF IInv, TypeOK
<1>1. ASSUME Return(u), UNCHANGED <<bucketVars, adminVars>> PROVE RInv'
  BY <1>0, <1>1, ReturnType, SetQuiet DEF Return
<1>2. CASE Request(u)
  <2>1. {"validate", "rejected"} \subseteq Labels \ {"wait"}
    BY DEF Labels, Ended
  <2> QED
    BY <1>0, <1>2, <2>1, GotoQuiet DEF Request
<1>3. CASE Validate(u)
  <2>1. {"enqueue", "rejected"} \subseteq Labels \ {"wait"}
    BY DEF Labels, Ended
  <2> QED
    BY <1>0, <1>3, <2>1, GotoQuiet DEF Validate
<1>4. CASE Enqueue(u) \/ Negotiate(u) \/ Release(u)
  <2>1. {"queued", "open", "release", "done"} \subseteq Labels \ {"wait"}
    BY DEF Labels, Running, Ended
  <2> QED
    BY <1>0, <1>4, <2>1, GotoQuiet DEF Enqueue, Negotiate, Release
<1>5. CASE Open(u)
  <2>1. ASSUME NEW rest \in 0..FileSize,
               Set(u, [pc |-> "read", left |-> rest, n |-> 0, limit |-> 0])
        PROVE  RInv'
    <3>1. [pc |-> "read", left |-> rest, n |-> 0, limit |-> 0] \in Upload
      BY SizeAssumption DEF Upload, Running
    <3> QED
      BY <1>0, <1>5, <2>1, <3>1, SetQuiet DEF Open
  <2> QED
    BY <1>1, <1>5, <2>1 DEF Open
<1>6. CASE Read(u)
  <2> DEFINE size == IF upload[u].left < Chunk THEN upload[u].left ELSE Chunk
             r == [pc    |-> IF rate = 0 THEN "write" ELSE "wait",
                   left  |-> upload[u].left, n |-> size, limit |-> rate]
  <2>1. Set(u, r) \/ Return(u)
    BY <1>6 DEF Read
  <2>2. upload[u].left \in Nat /\ rate \in Nat
    BY <1>0 DEF Upload, TypeOK, BucketTypeOK
  <2>3. size \in Nat
    BY <2>2, SizeAssumption
  <2> HIDE DEF size
  <2>4. r \in Upload /\ r.limit = rate
    BY <2>2, <2>3 DEF Upload, Running
  <2>5. UNCHANGED <<bucketVars, adminVars>>
    BY <1>6 DEF Read
  <2> HIDE DEF r
  <2> QED
    BY <1>0, <1>1, <2>1, <2>4, <2>5, SetQuiet
<1>7. CASE Throttle(u)
  <2> SUFFICES ASSUME updates' = 0 PROVE Undisturbed' /\ Paid'
    BY DEF RInv
  <2>1. PICK granted \in BOOLEAN :
          /\ Consume(upload[u].n, upload[u].limit, granted)
          /\ Goto(u, IF granted THEN "write" ELSE "wait")
    BY <1>7 DEF Throttle
  <2>2. upload[u].pc = "wait" /\ UNCHANGED <<admin, updates>>
    BY <1>7 DEF Throttle, At, adminVars
  <2>3. Undisturbed /\ Paid
    BY <2>2 DEF RInv
  <2>4. upload[u].limit = rate /\ upload[u].n \in Nat /\ BucketTypeOK
    BY <1>0, <2>2, <2>3 DEF Undisturbed, Upload, TypeOK
  <2>5. Consume(upload[u].n, rate, granted)
    BY <2>1, <2>4
  <2>6. Paid'
    BY <2>3, <2>4, <2>5, ConsumePaid
  <2>7. PICK label \in {"write", "wait"} : Goto(u, label)
    BY <2>1
  <2>8. /\ upload'[u].limit = upload[u].limit
        /\ \A v \in Uploads : v # u => upload'[v] = upload[v]
    <3>1. label \in Labels
      BY DEF Labels, Running
    <3> QED
      BY <1>0, <2>7, <3>1, AfterGoto
  <2>9. UNCHANGED rate
    BY <2>5 DEF Consume
  <2>10. Undisturbed'
    BY <2>2, <2>3, <2>4, <2>8, <2>9 DEF Undisturbed
  <2> QED
    BY <2>6, <2>10
<1>8. CASE Write(u)
  <2> DEFINE rest == upload[u].left - upload[u].n
             r == [pc |-> "read", left |-> rest, n |-> 0, limit |-> 0]
  <2>1. Set(u, r) \/ Return(u)
    BY <1>8 DEF Write
  <2>2. upload[u].left \in Nat /\ upload[u].n \in Nat /\ upload[u].n <= upload[u].left
    BY <1>0, <1>8 DEF Upload, Write, At, IInv, Chunked
  <2>3. rest \in Nat
    BY <2>2
  <2> HIDE DEF rest
  <2>4. r \in Upload /\ r.pc = "read"
    BY <2>3 DEF Upload, Running
  <2>5. UNCHANGED <<bucketVars, adminVars>>
    BY <1>8 DEF Write
  <2> HIDE DEF r
  <2> QED
    BY <1>0, <1>1, <2>1, <2>4, <2>5, SetQuiet
<1> QED
  BY <1>2, <1>3, <1>4, <1>5, <1>6, <1>7, <1>8 DEF UploadStep

LEMMA NextRInv == IInv /\ RInv /\ [Next]_vars => RInv'
<1> SUFFICES ASSUME IInv, RInv, [Next]_vars PROVE RInv'
  OBVIOUS
<1>0. TypeOK
  BY DEF IInv
<1>1. ASSUME NEW u \in Uploads, Request(u) \/ UploadStep(u) PROVE RInv'
  BY <1>1, UploadRInv
<1>2. CASE Wire \/ Rescan \/ (\E f \in Files : DeleteFile(f)) \/ UNCHANGED vars
  <2>1. UNCHANGED <<bucketVars, adminVars, upload>>
    BY <1>2 DEF Wire, Rescan, DeleteFile, vars
  <2> QED
    BY <2>1, QuietStep
<1>3. CASE CheckConfig \/ CountActive
  <2>1. UNCHANGED <<bucketVars, adminVars, upload>>
    BY <1>3 DEF CheckConfig, CountActive
  <2> QED
    BY <2>1, QuietStep
<1>4. CASE Pop
  <2>1. ASSUME NEW u \in Uploads, upload'[u].pc = "wait" PROVE upload'[u] = upload[u]
    <3> DEFINE k == IF checker.free < Len(queue) THEN checker.free ELSE Len(queue)
    <3>1. upload' = [v \in Uploads |-> IF \E i \in 1..k : queue[i] = v
                                       THEN [upload[v] EXCEPT !.pc = "popped"] ELSE upload[v]]
      BY <1>4 DEF Pop
    <3> HIDE DEF k
    <3>2. upload[u] \in Upload
      BY <1>0 DEF TypeOK
    <3>3. [upload[u] EXCEPT !.pc = "popped"].pc = "popped"
      BY <3>2 DEF Upload
    <3> QED
      BY <2>1, <3>1, <3>3
  <2> QED
    BY <1>4, <2>1, QuietStep DEF Pop
<1>5. CASE GetClient
  <2>1. ASSUME NEW u \in Uploads, upload'[u].pc = "wait" PROVE upload'[u] = upload[u]
    <3>1. CASE UNCHANGED upload
      BY <3>1
    <3>2. CASE upload' = [v \in Uploads |->
                            IF At(v, "popped") THEN [upload[v] EXCEPT !.pc = "dropped"]
                            ELSE upload[v]]
      <4>1. upload[u] \in Upload
        BY <1>0 DEF TypeOK
      <4>2. [upload[u] EXCEPT !.pc = "dropped"].pc = "dropped"
        BY <4>1 DEF Upload
      <4> QED
        BY <2>1, <3>2, <4>2
    <3> QED
      BY <1>5, <3>1, <3>2 DEF GetClient
  <2> QED
    BY <1>5, <2>1, QuietStep DEF GetClient
<1>6. CASE StartUpload
  <2>1. CASE checker.batch = <<>>
    BY <1>6, <2>1, QuietStep DEF StartUpload
  <2>2. CASE checker.batch # <<>>
    <3>1. Head(checker.batch) \in Uploads /\ "negotiate" \in Labels \ {"wait"}
      BY <1>0, <2>2, Sequences DEF Labels, Running
    <3>2. Goto(Head(checker.batch), "negotiate") /\ UNCHANGED <<bucketVars, adminVars>>
      BY <1>6, <2>2 DEF StartUpload
    <3> QED
      BY <1>0, <3>1, <3>2, GotoQuiet
  <2> QED
    BY <2>1, <2>2
<1>7. ASSUME NEW a \in Admins, AdminStep(a) PROVE RInv'
  <2>1. CASE GetConfig(a)
    <3>1. updates \in Nat /\ updates' = updates + 1
      BY <1>0, <2>1 DEF GetConfig, TypeOK
    <3> QED
      BY <3>1 DEF RInv
  <2>2. CASE UpdateRate(a) \/ WriteConfig(a)
    <3>1. admin[a].pc # "idle" /\ UNCHANGED updates
      BY <2>2 DEF UpdateRate, WriteConfig
    <3> QED
      BY <3>1 DEF RInv, Undisturbed
  <2> QED
    BY <1>7, <2>1, <2>2 DEF AdminStep
<1>8. CASE TickStep
  <2>1. Tick /\ UNCHANGED <<admin, updates, upload>>
    BY <1>8 DEF TickStep, adminVars
  <2>2. UNCHANGED rate
    BY <2>1 DEF Tick
  <2>3. Paid => Paid'
    BY <1>0, <2>1, TickPaid DEF TypeOK
  <2> QED
    BY <2>1, <2>2, <2>3 DEF RInv, Undisturbed
<1>9. CASE ObserveStep
  <2>1. Observe /\ UNCHANGED <<admin, updates, upload, rate>>
    BY <1>9 DEF ObserveStep, Observe, adminVars
  <2>2. Paid'
    BY <1>0, <2>1, ObservePaid DEF TypeOK
  <2> QED
    BY <2>1, <2>2 DEF RInv, Undisturbed
<1> QED
  BY <1>1, <1>2, <1>3, <1>4, <1>5, <1>6, <1>7, <1>8, <1>9 DEF Next, CheckStep

\* All uploads together stay within the configured rate and one second's worth of
\* data in a window of any length opened at any moment, for any number of them and
\* any chunk size, as long as nobody changes the rate (upload.rs 108-137).
THEOREM RateIsLimited == Spec => []RateLimitHolds
<1>1. Spec => []RInv
  BY InitRInv, NextRInv, Invariance, PTL DEF Spec
<1>2. RInv => RateLimitHolds
  BY DEF RInv, Paid, RateLimitHolds
<1> QED
  BY <1>1, <1>2, PTL

-----------------------------------------------------------------------------
(* The order of the queue *)

\* The place a peer is told is its index: no upload is queued twice.
LEMMA PlaceIsIndex ==
  ASSUME NEW s \in Seq(Uploads), NEW i \in 1..Len(s),
         \A j, l \in 1..Len(s) : s[j] = s[l] => j = l
  PROVE  (CHOOSE j \in DOMAIN s : s[j] = s[i]) = i
<1>1. i \in DOMAIN s /\ DOMAIN s = 1..Len(s)
  OBVIOUS
<1> DEFINE c == CHOOSE j \in DOMAIN s : s[j] = s[i]
<1>2. c \in DOMAIN s /\ s[c] = s[i]
  BY <1>1
<1> HIDE DEF c
<1>3. c = i
  BY <1>1, <1>2
<1> QED
  BY <1>3 DEF c

\* What follows if each upload that is still queued stands no later than before.
LEMMA PlacesKept ==
  ASSUME queue \in Seq(Uploads), queue' \in Seq(Uploads),
         \A j, l \in 1..Len(queue) : queue[j] = queue[l] => j = l,
         \A j, l \in 1..Len(queue') : queue'[j] = queue'[l] => j = l,
         \A j \in 1..Len(queue), l \in 1..Len(queue') : queue[j] = queue'[l] => l <= j,
         NEW u \in Uploads, QueuePosition(u) > 0
  PROVE  QueuePosition(u)' <= QueuePosition(u)
<1>1. PICK i \in 1..Len(queue) : queue[i] = u
  BY DEF QueuePosition
<1>2. QueuePosition(u) = i
  <2>1. (CHOOSE j \in DOMAIN queue : queue[j] = queue[i]) = i
    BY PlaceIsIndex
  <2> QED
    BY <1>1, <2>1 DEF QueuePosition
<1>3. CASE \E l \in 1..Len(queue') : queue'[l] = u
  <2>1. PICK l \in 1..Len(queue') : queue'[l] = u
    BY <1>3
  <2>2. (CHOOSE j \in DOMAIN queue' : queue'[j] = queue'[l]) = l
    BY PlaceIsIndex
  <2>3. QueuePosition(u)' = l
    BY <2>1, <2>2 DEF QueuePosition
  <2> QED
    BY <1>1, <1>2, <2>1, <2>3
<1>4. CASE ~(\E l \in 1..Len(queue') : queue'[l] = u)
  <2>1. QueuePosition(u)' = 0
    BY <1>4 DEF QueuePosition
  <2> QED
    BY <1>2, <2>1
<1> QED
  BY <1>3, <1>4

\* Only arrivals and the checker's removals change the queue.
LEMMA QueueChanges ==
  ASSUME [Next]_vars
  PROVE  UNCHANGED queue \/ Pop \/ \E u \in Uploads : Enqueue(u)
<1>1. ASSUME NEW u \in Uploads, Request(u) \/ UploadStep(u)
      PROVE  UNCHANGED queue \/ Enqueue(u)
  BY <1>1 DEF Request, UploadStep, Validate, Negotiate, Open, Read, Throttle, Write,
     Release, slotVars
<1>2. CASE CheckStep
  BY <1>2 DEF CheckStep, CheckConfig, CountActive, GetClient, StartUpload
<1>3. CASE \/ Wire \/ Rescan \/ TickStep \/ ObserveStep \/ UNCHANGED vars
           \/ \E a \in Admins : AdminStep(a)
           \/ \E f \in Files : DeleteFile(f)
  BY <1>3 DEF Wire, Rescan, TickStep, ObserveStep, AdminStep, GetConfig, UpdateRate, WriteConfig,
     DeleteFile, slotVars, vars
<1> QED
  BY <1>1, <1>2, <1>3 DEF Next

LEMMA PlaceStep ==
  ASSUME IInv, [Next]_vars, NEW u \in Uploads, QueuePosition(u) > 0
  PROVE  QueuePosition(u)' <= QueuePosition(u)
<1>0. IInv'
  BY NextIInv
<1>1. queue \in Seq(Uploads) /\ queue' \in Seq(Uploads)
  BY <1>0 DEF IInv, TypeOK
<1>2. \A j, l \in 1..Len(queue) : queue[j] = queue[l] => j = l
  BY DEF IInv, Slotted, QueueKept, Waits
<1>3. \A j, l \in 1..Len(queue') : queue'[j] = queue'[l] => j = l
  BY <1>0 DEF IInv, Slotted, QueueKept, Waits
<1>4. \A j \in 1..Len(queue), l \in 1..Len(queue') : queue[j] = queue'[l] => l <= j
  <2>1. CASE UNCHANGED queue
    BY <1>1, <1>2, <2>1
  <2>2. ASSUME NEW v \in Uploads, Enqueue(v)
        PROVE  \A j \in 1..Len(queue), l \in 1..Len(queue') :
                 queue[j] = queue'[l] => l <= j
    <3>1. \A j \in 1..Len(queue) : j \in 1..Len(queue') /\ queue'[j] = queue[j]
      BY <1>1, <2>2 DEF Enqueue
    <3> QED
      BY <1>3, <3>1
  <2>3. CASE Pop
    <3> DEFINE k == IF checker.free < Len(queue) THEN checker.free ELSE Len(queue)
    <3>1. k \in Nat /\ k <= Len(queue)
      BY <1>1 DEF IInv, TypeOK, Checker
    <3>2. queue' = SubSeq(queue, k + 1, Len(queue))
      BY <2>3 DEF Pop
    <3> HIDE DEF k
    <3>3. Len(queue') = Len(queue) - k
          /\ \A l \in 1..Len(queue') : queue'[l] = queue[k + l]
      BY <1>1, <3>1, <3>2
    <3>4. \A l \in 1..Len(queue') : k + l \in 1..Len(queue) /\ l <= k + l
      BY <1>1, <3>1, <3>3
    <3> QED
      BY <1>2, <3>3, <3>4
  <2> QED
    BY <2>1, <2>2, <2>3, QueueChanges
<1> QED
  BY <1>1, <1>2, <1>3, <1>4, PlacesKept

\* Peers are served in the order they were queued: whoever arrives or leaves,
\* the place a waiting peer is told never gets worse (upload.rs 250-279 and
\* 320-331).
THEOREM PlacesOnlyImprove == Spec => PlaceOnlyImproves
<1>1. IInv /\ [Next]_vars =>
        [\A u \in Uploads : QueuePosition(u) > 0 =>
           QueuePosition(u)' <= QueuePosition(u)]_vars
  BY PlaceStep
<1> QED
  BY <1>1, Invariance, PTL DEF Spec, PlaceOnlyImproves
=============================================================================
