# TLA+ verification of rinse-backend

rinse-backend is a Soulseek client run as a server: users queue searches, the
server searches the network, downloads the best file, keeps items and lists in
SQLite, and shares the downloaded files with other peers. This directory holds
TLA+ models of the parts that run concurrently, the TLC configurations that
check them, and TLAPS proofs of their main invariants. Paths below are relative
to the repository; `queue.rs:529` stands for line 529 of
`src/services/queue.rs`.

## 1. Inventory

| Component | State it keeps | Operations | Hard behaviours | What makes it correct |
|---|---|---|---|---|
| Queue service `services/queue.rs` | `pending_candidates`, semaphore, completion channel; everything else in the database | claim, search task, transfer monitor, list progress, enqueue, cancel, recovery | up to 8 tasks and the monitor write the same rows and items one statement at a time; failures on two paths; crash between any two statements | every announced download gets one outcome; a search that left the queue is finished; cancelling never hits a running search; recovery leaves nothing waiting for what is lost |
| Tables `db/mod.rs` | SQLite: search_queue, items, lists, list_items, search_history, users, tokens, metadata, ... | one method per statement | unconditional UPDATEs, unique `file_path`, foreign keys that cascade or reject | each statement atomic; an item keeps its life cycle although no UPDATE checks it |
| Deletion `services/download.rs`, `api/items.rs`, `api/lists.rs` | files on disk | delete item, list, entry, batches | deletes under running tasks | running tasks survive it |
| Upload service `services/upload.rs` | queue, `active_count`, token bucket, configuration, client reference | admission, periodic check, execution, configuration | count, configuration and queue under different locks; one bucket for all uploads | slots respected and always given back; rate respected; first come, first served; every upload ends |
| Upload API `api/uploads.rs` | none | copy and write back the configuration, rescan | concurrent read-modify-write | no stranded upload |
| Peer transfers `protocol/peer.rs` | sockets | negotiation, handshake, receive, send | peers that stall, break off or send something else | one result per call, one completion per transfer |
| Soulseek client `protocol/client.rs` | F-connection waiters, result buckets, active tokens, permits, services set late | search, initiate_download, listener dispatch | tokens chosen by peers, results after the bucket is gone, connection before its waiter | a connection reaches the download it was opened for; a search returns what was accepted for it, and leaves nothing registered |
| Server router `protocol/router.rs` | writer, address waiters, chat history | send, dispatch, get_peer_address | one reply for many waiters, waiters of lost requests, end of the reader | no waiter is forgotten while its reply is outstanding |
| File selection `protocol/file_selection.rs` | none | scoring, filters, ranking | sums of scores of different scales | an exact match is tried before unrelated files |
| Sharing `services/sharing.rs` | share index | scan, add, search, lookup | a scan without the lock beside add_file and tags | what was downloaded is found; sizes are those on disk |
| OAuth `services/oauth` | pending states, connections | start, complete, disconnect, refresh | states and codes in the hands of browsers; concurrent refreshes; lost answers | a connection belongs to whoever started its flow; stored tokens are valid and of the account named |
| Metadata `services/metadata`, `api/metadata.rs` | `last_mb_call`, running flags, rows, covers, tags | lookup, refresh, clear, library scan, cover backfill | five callers behind one rate limit, services that fail in the middle, two jobs beside requests | one request per second; a job reaches every track; the right recording |
| Authentication and mail `api/auth.rs`, `services/email.rs`, `api/admin.rs` | users, JWTs in circulation | register, verify, resend, login, change role | mail between two statements, rollback, check-then-act on the admins | only mailed links verify; links in mailboxes work; an admin is left |
| Event stream `api/ws.rs`, chat and messages | broadcast channel, one receiver per socket | subscribe, snapshot, forward; insert, announce, load | snapshot and stream are read at different moments; a full channel drops | a page that was told everything shows what the tables have |
| Fuzzy matcher, codec, obfuscation, profiles, UPnP, `src/bin` | none or one table | - | none of their own | - |

How they interact. The API inserts rows into search_queue. The queue worker
claims a row and spawns a task, which calls the Soulseek client; the client
spawns a transfer, whose completion reaches the transfer monitor through a
bridge task and a channel. Worker task and monitor share the row, the item, the
list and the cached alternatives. The client's listener hands QueueUpload
requests of peers to the upload service, whose checker starts uploads that use
the client for their connections. A completed download is added to the share
index, which admission to the upload queue reads; deleting an item deletes its
file under both. A search and a download both go through the listener and the server
router: peers' results arrive in tasks of their own, F connections through a
dispatcher. Every finished download spawns a metadata lookup, which writes tags
into the shared file, as do refresh requests and the library scan. The tables
are also written by the HTTP handlers, each a future of its own that gives way at
every query, and what they and the queue announce reaches the pages through one
broadcast channel. At startup `main.rs` runs recovery before it starts worker and
monitor, and connects client and upload service after their tasks have started.

## 2. Modules

| Module | Models | Depends on |
|---|---|---|
| `Database` | the tables the queue works on, one operator per statement of `db/mod.rs` | |
| `QueueService` | search tasks, transfer monitor, requests, crash and recovery | `Database`, `ItemLifecycle` |
| `ItemLifecycle` | abstract specification: what the tables promise about an item | |
| `TokenBucket` | the rate limiter of `upload.rs` | |
| `Uploads` | admission, checker, uploads, administrators, share index | `TokenBucket` |
| `ServerRouter` | the server connection: address requests, waiters, replies | |
| `FileTransfers` | `initiate_download`: address, negotiation, F connections and their dispatcher, transfer | `ServerRouter`, `DownloadOutcome` |
| `DownloadOutcome` | abstract specification: what `QueueService` takes for granted of a download | |
| `FileSelection` | scoring, filters and order of candidates, as operators | |
| `Searches` | `search`, ConnectToPeer handler, listener, dispatch of results | `FileSelection` |
| `Requests` | handlers of the HTTP API: slots, awaits, hang-ups | |
| `Accounts` | registration, mail, verification, login, roles | `Requests` |
| `OAuthConnections` | flows, connections, refreshes, and the provider | `Requests` |
| `EventStream` | broadcasts, sockets, messages, and the page | `Requests` |
| `SharedFolder` | the storage directory that three components write | |
| `ShareIndex` | scan, add_file, search, lookup | `Requests`, `SharedFolder` |
| `MetadataMatch` | which recording of an answer is taken, as operators | |
| `Metadata` | lookups, rate limit, covers, tags, scan and backfill | `Requests`, `SharedFolder`, `MetadataMatch` |
| `Library` | `ShareIndex` and `Metadata` on the same files, every step of one between any two of the other | both |
| `Services` | the handlers of one server: any of the above but the queue's and the uploads', interleaved step by step | `Accounts`, `OAuthConnections`, `EventStream`, `Library` |
| `MCSharedSizes` | `Library` without rescans, for TLC | `Library` |
| `MCServices` | the five handler components one at a time, for TLC | `Services` |
| `MCQueueService`, `MCUploads` | instances for TLC | |
| `MCClient` | `FileTransfers` or `Searches`, which share no state, one at a time, for TLC | both |
| `QueueServiceProofs`, `UploadProofs`, `FileTransferProofs`, `SearchProofs`, `EventStreamProofs` | theorems about the component of that name | that module, TLAPS |
| `AccountProofs` | theorems about an account and its connections | `Accounts`, `OAuthConnections`, TLAPS |
| `LibraryProofs` | theorems about the share index, the metadata lookups, and both together | `Library`, TLAPS |
| `ServicesProofs` | theorems about all handlers, as TLC takes them and all at once | `MCServices`, `EventStreamProofs`, `AccountProofs`, `LibraryProofs` |

Some modules also hold operators marked "Faulty": a plausible mistake in one
action each, written beside it. No specification uses them; they are put in an
action's place to see that a property notices.

### QueueService and Database

State. `rowStatus`, `retryCount`: search_queue; `itemStatus`, `itemPath`: items;
`listed`: list_items; `listStatus`: lists; `history`: search_history. Ids are
never reused (AUTOINCREMENT), so a deleted row stays `"deleted"`. `task` is what
each search task and the monitor hold: the place in the code and the local
variables that survive an await. `cached` counts what is left in
`pending_candidates`; `transfer` is each item's transfer until the monitor has
taken its completion; `source` is the search an item was created for
(`TransferCompletion.queue_id`).

Actions. One per statement or call, named after what the code does at that
place: `Claim` and `Verify` start a task; `Dedup`, `Pick`, `Search`, `Lookup`,
`Replace`, `Create`, `Announce`, `Attach`, `Initiate`, `InitFailed` are
`execute_search_and_download`; `Link`, `Reuse`, `ReuseAttach`, `Purge`, `Retry`,
`GiveUp`, `Placeholder`, `MarkFailed`, `AttachFailed` are what
`process_queued_search` does with its result; `Count`, `CountPending`,
`WriteProgress` are `update_list_progress`; `Receive`, `Succeed`, `Drop`, `Fail`,
`Settle` are `handle_transfer_completion`; `TransferDone` is the peer. Requests
and `Restart` may come at any time.

Abstractions. A query, a file name and a score matter only by what is found:
the matcher may find any completed item or none, a search any path or a failure.
Rows are claimed in any order. Broadcast events are left out, and so are the
audio properties, the share index and the metadata lookup of a completed
download, which touch nothing the queue reads. `wait_for_transfer_request` never
returns `Queued`, so the branch for it in `initiate_download` is unreachable and
not modelled. An `enqueue_list` request cut off by a crash inserts no more rows.
sqlx opens SQLite with foreign keys on, so deleting an item or list cascades and
naming a missing one fails (a comment at `db/mod.rs:775` assumes otherwise).

### Uploads and TokenBucket

State. `config`, `queue`, `active` are the service's own; `wired` says how far
`main.rs` has connected service and client; `checker` holds the local variables
of `check_upload_queue`; `upload[u]` those of one request from admission to the
end of its task; `admin` those of a configuration request. `rate`, `tokens`,
`elapsed` are the bucket, with time in ticks.

Actions. `Request`, `Validate`, `Enqueue`; `CheckConfig`, `CountActive`, `Pop`,
`GetClient`, `StartUpload`; `Negotiate` (the whole dialogue with the peer, any of
its outcomes), `Open`, `Read`, `Throttle`, `Write`, `Release`; `GetConfig`,
`UpdateRate`, `WriteConfig`; `DeleteFile`, `Rescan`; `Wire`; `TickStep`. A step ends
where the code awaits. The bucket keeps whole tokens; the code computes in
milliseconds, whose rounding only makes the refill smaller. `clock` and `passed`
observe what goes through the bucket within a window of `MaxClock` ticks, which may
be opened at any moment (`Observe`) and is closed by a change of the rate.

### FileTransfers, ServerRouter and DownloadOutcome

State. `call[d]` is one call of `initiate_download`: its place, the leg it asks an
address for (P or F connection), the token the peer chose, the sizes, the
connection it was handed, and how it ended. `link[d]` is the F connection the
peer opens after the exchange on call `d`; `waiters` is `file_conn_waiters`;
`queued` what each peer was asked for. `subs`, `answer`, `unanswered`, `online` are
the router's: one reply names only the user and answers all that wait for them.

Actions. `Register`, `Ask`, `HaveAddress` (get_peer_address), `ConnectPeer`, `Allowed` and
`NotAllowed` (the negotiation takes the first file the peer announces, whichever
it is), `AddWaiter`, `WaitEnds`, `RemoveWaiter`, `Routed`; `Arrive` (listener or
ConnectToPeer "F") and `Dispatch`; `Proactive`; `Chunk` and `Report`; `Fail`, `Refuse`.
`Report` may say ok at any size: `receive_file_data` returns Ok when the peer breaks
off. `DownloadOutcome` states what the steps `Initiate` and `TransferDone` of
`QueueService` assume, and `FileTransfers` is shown to implement it.

### Searches and FileSelection

State. `search[s]`: place, age (3 s, 7 s and the limit are all that matters), quiet,
and what was collected; `active`, `buckets`, `bucket` are the two maps; `inbox` the
receiver of the notification channel, which loses its oldest entry when full;
`resp[r]` where the answer of one peer is, `holders` the permits, `locked` the mutex
a dispatch keeps from its look at the token to its push. The order of the clean-up
(`RemoveToken`, then `RemoveBucket`) and that mutex are what `NothingLeftBehind`
rests on. `early` is history.

`FileSelection` works on what the scoring can tell of a file name (exact title,
contained, ...); `Parsed` is what the truncated parse of a response with more than
100 files makes of the peer's figures.

### Requests and the handler components

A slot of `req` holds one handler: its place and the values it read before the
await. `Abandon...` drops it anywhere but in a spawned task: when a client hangs
up, hyper drops the future. Checks of an expiry may go either way; time is not
modelled there.

- `Accounts`: `users` by id, `mails` (links that arrived), `claims` (roles some JWT
  states). The mail is sent between two statements; it may arrive although the
  SMTP dialogue failed, and a failed registration deletes its row. `require_admin`
  looks at the token and not at the row.
- `OAuthConnections`: `pending` and `connections` are the tables; `codes`, `approved`,
  `accountOf`, `live` belong to the provider, which takes a code once, with the
  verifier of its flow, and may rotate refresh tokens. `CompleteAuthorization` is
  open to any user with any pending state and any code.
- `EventStream`: `status` and `untold` split "write the row, then announce it"; a
  socket subscribes, reads its snapshot (or fails to: `ReadItems`), sends it,
  forwards. Two ends of an item are told to nobody: the placeholder of a failed
  search (`FailPlaceholder`) and a completed item that cannot be read back
  (`Unread`). The page (external) loads messages after it opened its socket.
- `ShareIndex`: a scan lists the directory and swaps the index in later; the
  monitor reads a file and appends it later. `index` has files, words and paths as
  the code has, duplicates included.
- `Metadata`: every lookup is a `Place` (slot of a request, a job, or the task spawned
  for a track) that passes through the rate limit, MusicBrainz or Discogs, cover,
  store and tags. `last_mb_call` is a mutex (`lock`) and a time (`recent`).

History variables that excuse something are `lost` (Accounts), `raced`
(OAuthConnections), `muted`, `lagged`, `hushed` and `blind` (EventStream), `overtaken`
(ShareIndex), `excused` (Metadata). Each names a way in which the code really loses
the property, so that what the property says of all other behaviours can be checked:
a link whose mail failed, refreshes that cross (`oauth/mod.rs:353`), a sender who
hangs up before the broadcast, a channel that dropped events, a placeholder written
as pending and then as failed of which only the search is announced
(`queue.rs:609`-627, 648) or a completed item that is not read back (1099), a
snapshot whose query failed (`ws.rs:280`), a scan that began before a file was added,
a database that failed. What is promised in writing is not excused: it is stated as
a run that expects the violation (section 5).

## 3. Properties

Every module has one type invariant (`TransfersTypeOK` and `SearchesTypeOK` are those of
the client's two). The others are commented where they stand:

- Queue. `DownloadingHasOwner`: an item in status downloading has a task, a transfer
  or the monitor that will still write its outcome. `PendingIsIdle`: a pending row
  has no task, transfer or completion, which is what makes the test of the status
  alone in `cancel_pending_search` enough. `LiveTransferHasItem`: a failure reported
  by `initiate_download` is never about a file that is still arriving.
  `RestartReleasesLists`: after recovery a list is downloading only if one of its
  searches waits. `ImplementsLifecycle`: refinement of `ItemLifecycle`
  (`stage <- itemStatus`); no interleaving of the unconditional updates revives or
  changes an outcome. `QueueDrains`, `DownloadsResolve`: every search leaves the
  queue, every download gets an outcome.
- Uploads. `ActiveIsRunning`, `SlotsRespected`, `PlaceOnlyImproves`, `UploadsFinish`.
  `RateLimitHolds`: within any window of time, opened at any moment, no more goes
  through than the rate times that time plus one second; what is saved up while
  nobody asks is worth one second and no more.
- Downloads. `WaiterIsWaiting`: no finished call leaves a waiter that would swallow
  a later connection. `ConnectionsReachTheirDownload`: unless two peers choose one
  token, each call gets its own. `AddressReplyNotLost`: with the server up, who
  waits is registered and a reply is outstanding. `ImplementsOutcome`: refinement of
  `DownloadOutcome`. `CallsEnd`.
- Searches. `NothingLeftBehind`, `EarlyResultsReturned`, `ResultsAreOwnAndDistinct`,
  `PermitsAtWork`, `SearchEnds`, and `ExactMatchOffered`, which goes through collection
  and ranking together.
- Accounts. `VerifiedByMail`, `LinkWorks`.
- OAuth. `ConnectionOwner`, `TokensMatchAccount`, `NoReconnectWithoutApproval`.
- Events. `PageShowsRow`: a page that has read everything shows what the tables have;
  an item whose end was told to nobody is shown as it was last told of, and a page
  whose snapshot failed may not show an item at all. `NoMessageBetween`.
- Share index. `SharedFilesFound`.
- Metadata. `MusicBrainzRate`. `JobsReachEvery`, an action property: a job that ends has
  left a result for each track it listed when it began, but for those the database
  failed on.

## 4. Runs

| Run | Instance | Shows |
|---|---|---|
| `queue_safety` | two scopes, 2 tasks, 1 path, 1 alternative: one search of a list, 3 items, 1 restart or 1 deletion; and a search of a list with a standalone one, 2 items | type, `DownloadingHasOwner`, `PendingIsIdle`, `LiveTransferHasItem`, `RestartReleasesLists`, `ImplementsLifecycle` |
| `queue_drains` | one standalone search, 2 tasks, 1 restart, fair | `QueueDrains`, `DownloadsResolve` |
| `uploads` | 2 uploads of 2 chunks, 1-2 slots, rate 0-1, a window of 2 seconds, 1 configuration request, fair | the six properties of `Uploads` |
| `client` | 2 calls for files of one peer, 2 tokens, files of 0-1 chunks; or 2 searches, 2 responses of which one is too long to be parsed, 1 permit, a channel of 1, early ends at 1 and 2 results; fair | the six properties of `FileTransfers` and the seven of `Searches` |
| `services` | 2 symmetric requests; five parts, one at a time (below) | type and the ten properties of the handler components |
| `queue_retry` | the first scope of `queue_safety` without either | a disagreement: `RetryIsAttempted` is violated |
| `queue_linked_rows` | the same | `LinkedRowsReleased` is violated |
| `queue_processing` | the second scope of `queue_safety` | `ProcessingHasTask` is violated |
| `uploads_slow` | one upload, chunk larger than one second's tokens, fair | `ConsumeReturns` is violated |
| `shared_size` | one track, one request, 2 lookups, `ShareIndex` with `Metadata` | `SizeOnDisk` is violated |
| `last_admin` | as `services` | `SomeAdmin` is violated |
| `wrong_artist` | as `services`, with a query of six words of which five are the title of another artist's recording | `NoWrongArtist` is violated |

Why the bounds are enough. Two tasks suffice for the races: two tasks on one
search (after the monitor has put the row back) and two searches at one path.
One path makes every pair of searches collide, the case that matters. One search
with a fault and two searches without one are scopes of the same run, `InScope`, a
constraint of its configuration (3.1 million states): it rules out only that the
bounds are all used up in the same behaviour. Three
items let a search go through a first attempt, a retry and one more replacement
or placeholder; a task that would create a fourth has to wait, which
`QueueDrains` excludes by `Undisturbed`. One alternative gives both branches of
`Pick` and `Settle`. The restart and the deletion fall at every point of the
behaviour. Two uploads fill one or two slots and contend for one bucket; two
chunks make them return to it, and a window of two seconds, opened at any moment,
lets two refills enter the count, so that a bucket that is full when the window
opens, or one that saves up more than it holds, is told from one that keeps the
rate (727 thousand states, two minutes). The runs switch off the deadlock test, because
these systems do come to rest: every search done and every request used up. The
tasks are symmetric and their symmetry is used in the runs of safety properties,
not in those with fairness.

`client` (811 thousand states). Downloads: two calls for one peer are what makes an address
reply answer both, tokens collide, and one call take the offer for the other's
file; two tokens leave room for both equal and different ones.
Searches: the first search has both a result in time and late ones, the second
competes for the mutex and for the place in every channel; one permit and a
channel of one put both at their limit; the slow peer offers the track, another
version and an unrelated file, so that order matters.

`services` (1.6 million): the handler components share the request slots and, but
for the files, no state, so TLC takes them one at a time. That nothing is lost by
this is not assumed but proved: with all handlers at work at once each part still
behaves as by itself (`PartsBesideOthers`, section 6). Accounts: two admins and one name, so that
demotions can meet and a rolled-back name can be registered again, with three
tokens for register, resend and re-registration. OAuth: two users and accounts,
two flows, three refresh tokens, enough for a reconnection and a rotation that
cross. Events: one item, one page, pages of one message out of three, a channel of
two that overruns. Shares: two tracks that have a word in common and one that
repeats a word. Metadata: two tracks, one with artist and title known, two
lookups, answers with the right recording behind a foreign one; the jobs and the
lookup that follows a download (of one of the tracks: `InScope`) are concurrency
enough for one request. `ShareIndex` and `Metadata`
meet in `shared_size`; what they promise beside each other is proved (`LibraryInvariance`).

Fairness. In `QueueService`: the worker loop, each task, the monitor and each
transfer are weakly fair. The tokio runtime schedules a task that can go on,
client calls end by their timeouts, and a transfer gives up after 30 seconds of
silence. One case is outside: `wait_for_transfer_request` limits only the wait
for a message's length prefix, so a peer that stops in mid-message can hold a
task for ever (`peer.rs:721`). In `Uploads`: startup, checker, each upload and time
are weakly fair; every call of an upload has a timeout. In `FileTransfers` each
started call and the dispatcher's handling of each connection are weakly fair; in
`Searches` each search, its clock and each connection task. Every wait in them is
limited by a timeout, with the exception just named. Users, peers, the server,
administrators and crashes owe nothing: no property assumes that a connection, a
reply or a result ever comes. The handler components have no liveness property;
a client may hang up at any await.

## 5. Disagreements between code and comments

1. `RetryIsAttempted` (`client.rs:1639`). A denied download is reported both by
   return value and through the completion channel; the worker puts the row back
   for its retry, the monitor takes the same failure for the failed retry and
   deletes the row. `migrations/006_add_retry_count.sql` promises the retry.
2. `LinkedRowsReleased` (`queue.rs:529`). A fast failure is handled by the monitor
   before the worker links the row; the late update leaves it `completed` for
   ever, although the comment below it leaves its deletion to the monitor.
3. `ProcessingHasTask` (`queue.rs:816`). An item that completes between the look at
   it and its replacement is deleted under a search that reuses it; that row stays
   `processing` until the next restart, although the comment at 488 says it is marked
   completed and deleted.
4. `ConsumeReturns` (`upload.rs:122`). Below 64 KB/s `consume` loops for ever.
5. `SizeOnDisk` (`queue.rs:1093`). A file is indexed with its size, then the lookup
   writes tags into it; the index keeps the old size ("File size in bytes",
   `sharing.rs:34`), which peers are told, until a rescan.
6. `SomeAdmin` (`admin.rs:110`). Two admins demote each other: both requests count two
   before either writes, and no admin is left, although the comment at 93 says
   "Prevent removing the last admin" and the error at 122 that one cannot.
7. `NoWrongArtist` (`musicbrainz.rs:239`). The penalty for an artist with no word of the
   query is a constant 50 points, a title of five words of the query brings 75, the
   threshold is 20: another artist's recording is taken at 75 - 50 - 2 = 23 points.
   The comment at 183-185 says the penalty "prevents selecting wrong tracks that
   happen to have matching titles", and 236-238 repeats it.

The models also have the following behaviours; no comment, document or test
promises otherwise, so no run is about them. They are stated here because a
reader of the code may not expect them.

- Downloads. A peer that breaks off leaves a truncated file reported as Ok
  (`peer.rs:953`). A failed send leaks token and bucket of a search
  (`client.rs:1104`). An F connection that arrives before its waiter is registered is
  closed (`client.rs:1055`), and the call opens its own. The grace period of a search
  ends with a notification for another search. After 100 files the rest of a
  response is not skipped, and the peer's figures are read from the next file.
  The comment that a score above 50 means a matching title
  (`file_selection.rs:338`) overlooks the other points a file can get.
- Requests dropped by a hang-up. A message is stored and never broadcast; the
  running flag of a metadata job stays set, so that no job starts until a restart;
  the provider's new refresh token is not stored.
- Check-then-act. A token says admin for seven days after a demotion; the state of
  an OAuth flow is used up before its owner and expiry are looked at.
- Events. The placeholder of a failed search is pending before it is failed, and only
  the end of the search is announced; a completed item that cannot be read back is
  not announced. A page whose snapshot or stream showed such an item at work goes on
  showing it so until it is opened again. A snapshot whose query fails is left out
  without a word.
- Mail. A failed resend invalidates the link sent before; an SMTP error after the
  server took the mail leaves a link to a row that was rolled back.
- Share index. A scan that listed the directory before a file was added swaps the
  file out of the index; deleted files stay in it until a rescan.
- Metadata. A search by artist and title takes the first answer as it is.

## 6. Proofs

All theorems hold for every value of the constants that satisfies the named
assumptions: identifiers are distinct from the null values, bounds are natural
numbers, the sets of uploads and of tracks are finite, a chunk and a second are
positive, an offer has the fields and ranges a parsed response can have
(`OfferOfAssumption`), queries and the names in an answer are sequences of words
(`QueriesAssumption`), and requests, jobs and the tasks spawned for a track are
different workers (`WorkersAssumption`). TLC evaluates all of them.

- `QueueServiceProofs.TypeCorrect`. Invariant: `TypeOK` strengthened by what each
  place in the code says about the task's local variables (a task that is going
  to use an item or a job has one); one lemma per group of actions.
- `QueueServiceProofs.DownloadsHaveOwners`, `LiveTransfersHaveItems` and
  `QueueImplementsLifecycle`. `DownloadingHasOwner` is not inductive: it needs to
  know that an item is created by one task and handed on once (task, then
  transfer, then monitor) with the status that belongs to each stage, and that
  a task holding an item for creation is the only one that does. The refinement
  follows from the same invariant, action by action.
- `QueueServiceProofs.RestartsReleaseLists`. The recovery counts every listed item that
  is neither completed nor failed as one to wait for, after it has ended the
  downloading ones. So the property needs that nothing else is ever on a list:
  `ListedAnnounced` says a listed item is downloading or has its outcome, and
  `ListingHolds` that a task about to list a reused item or a placeholder holds one
  with its outcome. That nobody takes the outcome back is the refinement above; that
  a deleted item leaves its lists in the same step is `ListsChange`.
- `QueueServiceProofs.CancelIsSafe`. A row in status pending was never claimed since it
  was inserted or last recovered; the invariant says that whoever holds a job
  holds one whose row has left `pending`, and that retries go to `retry`.
- `UploadProofs`. `IInv` adds to the type invariant that no upload is at two
  places at once: the queue names distinct uploads in status queued, the
  checker's batch distinct popped ones, and the free slots it counted are still
  free because only the checker takes slots. From it `ActiveCountsRunning` and
  `SlotsAreRespected`. `RInv` is the accounting of the bucket: it holds at most one
  second's worth of its rate, and what has passed in the window plus what is in it is
  at most the rate times one second plus the time from the window's opening to the
  last refill, as long as no administrator changes it; from it `RateIsLimited`. The
  cap is needed: without it a window could open on a bucket that saved more.
  `PlacesOnlyImprove` uses that no upload is queued twice, so that the place a peer is
  told is an index: arrivals leave the indices alone and the checker removes a prefix.

- `FileTransferProofs`. The properties follow from where a token is: a call gets one
  with its negotiation and the peer's connection has the same (`TokenKept`,
  `LinkKept`); a call that was handed a connection is out of the map (`ConnKept`);
  between registering and asking its channel is in the router's list or answered
  (`Asked`). `EndKept` says how the outcome follows from the place, from which
  `TransfersKeepPromise` (the refinement of `DownloadOutcome`) is read off action by
  action.
- `SearchProofs`. `Lock`: a dispatch between its look at the token and its push holds
  the mutex, and the token it found is still active; hence no bucket is put back
  after a search has removed its token (`Tokens`, `SearchesLeaveNothing`). `Contents`:
  bucket and collected results hold delivered responses of this search, apart from
  each other and without repetition. `Kept`: an early response is in the bucket
  until it is collected. `ExactMatchIsOffered` puts three things together: the early
  response is among those returned; `ScoreFacts`, that no speed, queue, format or
  bonus makes up for a missing title (at least 95 points against at most 65); and
  `RankSorts`, that the ranking is a sequence of all candidates in the order `Before`.
  The last needs no induction: how many candidates come before one is an injection
  into 1..n, hence a bijection.
- `EventStreamProofs`. `PageShowsRow` speaks of a page that has read everything; the
  invariant has to follow what it is still to read. `Told`: of each item the last
  event in the page's queue, or if there is none its snapshot, or else what it
  shows, agrees with the row, unless whoever wrote the row has yet to announce it;
  `Ahead`: that announcement says what the row says. Of an item whose end nobody
  announces (`hushed`) the last event is what was said before that end (`LastSaid`), and a
  page whose snapshot failed (`blind`) may know of no item that it was not told of since. `Sockets`: a page that does not
  listen has nothing queued and nothing loaded. `NoMessageBetween` is inductive with
  the types; a page of the newest messages has no gap by `NewestHasNoGap`, a count of
  what is newer. The least of a set of message numbers exists by `LeastIndex`,
  which takes well-founded induction on finite sets from the library in its form
  without operators (`WFMin`).
- `LibraryProofs`, share index. `Sound` says of any index that its paths lead to the file of
  that name and that a file is under exactly the words of its name. Appending a file
  keeps it (`AppendSound`), so a rebuilt index has it too: `BuiltIndex` shows that the
  recursion of `IndexOf` defines something, `IndexOfSound` takes the shortest prefix
  for which the claim would fail. `AddedIndexed` (an added file is in the index unless a
  late scan overtook it) needs that a scan in flight lists all it calls known
  (`ScansList`), which needs that what was added is on disk (`AddedOnDisk`). `OneWord`: a
  search for as many files as are under a word cuts off none.
- `LibraryProofs`, lookups. `MetadataInv` has five parts. `MutexHeld`: who sleeps until the next request is allowed holds the
  mutex, and when it wakes nobody has sent one since; `RateIsKept` is an action
  property read off from it. `JobPlaces`: a job at rest,
  or about to make its list, has listed nothing. `JobOnce`: a job at work or being started
  is not started again. `Reached`: a track that a job listed and has no result for is
  excused, still to do, or the one the job is at. When a job ends it is none of the last
  two (`ReachedAtEnd`), which is the action property `JobsReachEveryTrack`. The fifth are
  the types.
- `LibraryProofs`, both on the same files. `LibraryInv` is the conjunction of the two
  invariants over one folder and one set of slots, where a slot may hold a handler of
  either; nothing else has to be added. What makes it inductive is that neither
  invariant speaks of what the other side writes: a step of one leaves the other's
  invariant alone although it changes the files both look at, because `AddedOnDisk` is
  about which files exist and tags only change their size, and because a scan's
  `swap` is no place of a lookup. So `SharesAreFoundBesideLookups`, `LookupsBesideShares`,
  `RateBesideShares`. `SizeOnDisk` is not among them: that is disagreement 5.
- `AccountProofs`, connections. Two accountings. Flows (`FlowInv`): ids are given out once, a state row
  belongs to who started the flow, a code is exchanged by at most one request and
  makes at most one connection. Refresh tokens (`GrantInv`): one that no row holds is
  known to one request only (`BroughtOnce`), one in a row or in a request stays with
  one user (`GrantOwned`); `RowsMatch` strengthens `TokensMatchAccount`: while a token
  that is no longer taken stands in the row, a request brings its successor.
- `AccountProofs`, accounts. Ids and tokens are given out once (`FreshIds`, `FreshTokens`) and a
  token belongs to the row it was made for (`TokensOwned`), so that a lookup by token
  followed by an update by id hits a row that was mailed.

- `ServicesProofs`, one part at a time. `ServicesInv`: the part at work has its own
  inductive invariant, the others are as they began. From it the type invariant, the
  seven other invariants and the three action properties of the run `services`, for its own
  specification and every value of the constants.
- `ServicesProofs`, all parts at once (`Services`). `View(labels)` is what a part sees of
  the slots: its own handlers, and idle slots where others' handlers are. A refinement
  mapping `req <- View(...)` for each of the four parts makes `PartsBesideOthers`: the
  specification of the whole implies that of each part. Two facts carry it. A step
  of a part, taken in the real slots, is one in its view and leaves the handlers of
  the others where they are (the `...TurnSeen` lemmas; `Within`); and no view sees a
  step within the slots of another (`OthersSee`), whose labels are different
  (`LabelsApart`). The step needs what the part's own invariant says of its slots
  (which label holds which values), so refinement and invariants are carried together:
  `PartsInv` is the four invariants, each seen through its view, and `Handled`, that
  a slot is idle or some part's. `ServicesTogether` and `ServicesStepTogether` take the
  properties back from the views to the state itself.

Only model-checked: everything with fairness (`QueueDrains`, `DownloadsResolve`,
`UploadsFinish`, `CallsEnd`, `SearchEnds`), which is beyond the proof system, as is ENABLED.
Induction with an operator as a parameter is out of its reach as well; where a
proof needs induction over a sequence or a set of numbers, it takes a least
counterexample instead.

## 7. Not modelled

- Byte-level encoding, obfuscation, sockets (`codec.rs`, `obfuscation.rs`,
  `connection.rs`): what a handshake or a truncated parse yields is modelled where it
  is used. UPnP: network I/O only. The fuzzy matcher: a numeric similarity;
  `QueueService` lets it match any completed item or none. `src/bin`: not part of the
  running system.
- Login to the server, room chat and private messages of Soulseek; profiles,
  avatars, read marks, statistics: single statements with nothing to interleave.
- Passwords and their hashes, encryption of tokens, contents of playlists, the
  fields a lookup finds other than art and recording, the ranking of Discogs
  releases.
- Code without a caller: `cancel_list`, `negotiate_download`, `download_file`,
  `wait_for_file_connection`, `connect_to_peer_for_results`,
  `receive_search_results_from_peer`, `handle_incoming_f_connection`,
  `search_and_download`, `find_best_file`, `PeerConnection`, the branch for
  `pending_downloads`, the downloads map, the import functions of `db/mod.rs`,
  `cleanup_expired_oauth_states`, `CoverCache::delete_cached`, the acoustid and essentia
  scaffolds.

## 8. Plan

Done: the queue (`Database`, `QueueService`, `ItemLifecycle`), uploads, downloads with
the router, searches with file selection, and the handler components, each alone
and all of them interleaved; every safety and action property of the passing runs
is a theorem. What is left, in this order:

1. Uploads beside the share index. `Uploads` keeps its own set of indexed files; a
   composition with `Library` would show that admission and index agree.
2. Theorems about the history variables (`excused`, `overtaken`, `raced`, ...): which
   actions may set each, so that the excuses of the properties are bounded as well.
3. Order of the queue over `created_at` (first in, first out, retries at the back)
   and the counts of a list, as properties of `QueueService`.
4. Two administrators at once in `uploads`, if a promise about their updates is
   ever written down.
