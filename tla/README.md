# A verification project for KittaChat

KittaChat is a chat application: a React client, three Express/Socket.IO
replicas behind nginx, MongoDB as the source of truth, Redis for the Socket.IO
adapter, presence, caches and short-lived call mirrors, RabbitMQ with three
workers, an object store for files, and a set of scripts (`scripts/k4`) that
measure it. This directory holds TLA+ models of the parts whose correctness
depends on interleavings, retries and failures, the TLC configurations that
check them, and TLAPS proofs about most of them. Paths are relative to the
repository; `call/` stands for `server/src/socket/handlers/call/`.

## Inventory

| Part | State | Operations | What is hard | What makes it correct |
| --- | --- | --- | --- | --- |
| Call lifecycle (`call/`) | CallHistory and call_log in Mongo; due set, finalize lock, temp-id and socket mirrors in Redis; Maps and timers per replica | initCall, callUser with glare resolution, answerCall, rejectCall, endCall, disconnect, local timer, distributed poller, cleanup job | two handlers, timers and replicas race on one record; reads before a conditional update; crashes | one outcome per call, which fits what happened; a log that shows it; every call ends; no leaked timer or due entry |
| Client call state (`client/src/features/calls`) | a CallProvider per window, localStorage | begin, answer, reject, hang up, the call events, storage events | two windows on one storage; events that name no call; an end that crosses an answer | what a window shows is a call there is; a notification rings for a call that can be answered |
| Call history and badge (`CallHistoryProvider.jsx`, `CallHistoryModal.jsx`) | missedCount, the ids counted, the list and its cursor | events, hydration, mark all read, pages | two events of one call, a count that crosses them | the badge is the number of unread missed calls; the list has no gap |
| Message sending (`useChatMessages.js`, `pendingQueue.js`, `messageHandler.js`, `saveMessageInBackground.js`) | bubbles, localStorage queue, Mongo messages, packets in flight | send, time-out, retry, echo, acknowledgement, history response, save, fan-out | retries overlap with the request they repeat; late answers; replica crashes; failing saves | saved and announced once; a sent bubble stays sent |
| Missed-message recovery (`SocketProvider.jsx`, `syncMissedMessages`) | last_message_id, syncs in flight, the ids shown | receive, reconnect, join room, sync | live events and pages overlap; several syncs | shown once; what was saved while offline is shown |
| Message REST reads (`messageController.js`) | none of its own | pages, membership checks, visibility filters, deletion of a history | the membership is read before the page | nobody reads what was deleted for him, or was said while he was away |
| Worker runtime (`workerRuntime.js`, `queues/`) | primary, retry and dead-letter queue, unacknowledged deliveries, channel, handlers in flight | publish, deliver, process, retry, dead-letter, acknowledge, reconnect | crash between copy and acknowledgement; a channel replaced under a running handler | no job lost; dead-lettered only when exhausted or poison; queues drain |
| Conversation read model and groups (`conversationReadModelService.js`, `groupController.js`, `preferenceService.js`) | Group, Conversation and ConversationParticipant documents | dual write, mark as read, preferences, group life cycle | check-then-create and read-then-save from two replicas; the order of confirmations | rows follow the group; unread counts each unread message once; no save undoes another |
| Presence (`presenceHandler.js`, `presenceService.js`) | user_sockets, offline_timer, presence hash, user row | addNewUser, heartbeat, disconnect, grace timer | several tabs on several replicas; expiries between two commands; lost replicas | a connected user is shown online; a gone one goes offline |
| Friendship and friend cache (`friendCacheService.js`, `userController.js`, `useFriendSocket.js`) | User.friends and friendRequests, Redis sets, flags of the pages, cached profiles | request, accept, reject, remove, warm-up, check | warm-up racing a removal; a set created by one addition | lists, cache and pages agree when they are quiet |
| Rate limiter (`rateLimit/`) | window and bucket keys, correlation keys of call attempts | the Lua admission script, admitLogicalCall | window edges, fractional refill, replays | never more than the limit in a window; denied costs nothing; the wait is exact; one consumption per logical call |
| Auth sessions (`authController.js`, `authSessionService.js`, `axiosClient.js`, `AuthProvider.jsx`) | accounts, the refresh cookie, a token per tab, reset links | sign in, bootstrap, refresh and retry, sign out, reset | requests of two tabs and two accounts around a refresh or a sign-out | a request runs once and for its asker; a sign-out lasts; a link is worth one password |
| Sidebar (`useSidebarState.js`, `sidebarController.js`) | list, cursor, filter, search, requests | pages, search, live messages, deletions | pages read while rows move between them; requests aborted and late | no conversation missing that should have been loaded |
| Conversation panel and explorers (`ConversationPanel.jsx`, `useExplorerFreshness.js`, `resourceService.js`) | previews, metadata, preference, items, cursor, banner | open, switch, load, scroll, refresh, change a preference | answers of the conversation before; attachments that arrive between two pages | nothing of another conversation; at the end everything; the stored preference |
| Uploads, image and avatar jobs (`useUploader.js`, `fileController.js`, `imageWorker.js`) | chips of the composer, staged and made objects, File and User documents, jobs, cached profile | add, stage, publish, process, redeliver, announce, clean up | redelivery after success; a failing clean-up; an event that overtakes the answer | every name has its object; nothing accepted is lost; the chip ends |
| Benchmark runs (`scripts/k4`: `runner`, `lifecycle`, `runArtifacts`, `provenance`, `cli`) | Docker resources, a result directory and its files, an owner file | execute, start, cleanup, provenance, derive-report, finalize | several shells at one identity, crashes between two effects, a clean-up under a run | what is publishable was measured by one run on its own data; one run at a time; a clean-up is complete |
| Benchmark workloads (`scripts/k4/runner`) | sockets of the actors, attempts and opportunities with their outcomes | connect, settle, hold a plateau; send a message per slot, await acknowledgement and delivery | late handshakes, sockets lost in between, overlapping messages on the same two sockets | a result claims only what held or was delivered |
| Baseline and dossier (`scripts/k4/baseline*`, `bottleneckDossier.js`) | cells, matrix, claims, report, dossier | campaign, judge, report, open | runs cleaned up or re-run between two steps | a ready dossier rests on runs that stand |

Components without a model are listed under *Not modelled*.

The parts interact as follows. Client events reach a replica over Socket.IO;
handlers await Mongo and Redis and emit to rooms through the Redis adapter,
best effort. The message handler publishes audit jobs, the file and profile
controllers image jobs, to RabbitMQ, and saves dual-write the read model, which
the sidebar and the panel read. The presence handler joins the rooms that
message and call events go to, and its disconnect sits beside the call
module's. Windows of one browser share the refresh cookie and localStorage.

## Modules

| Module | Extends or instantiates | What it is |
| --- | --- | --- |
| `CallLifecycle` | | the call records of one pair of users over replicas, Mongo and Redis |
| `CallOutcome` | | what the backend promises about a call: it rings, may be accepted, ends once, shows its outcome |
| `CallLifecycleProofs` | `CallLifecycle`, `TLAPS` | its inductive invariant and theorems, and that it implements CallOutcome |
| `MCCallLifecycle` | `CallLifecycle` | Alice calls Bob, Bob may call Alice |
| `MessageDelivery`, `MCMessageDelivery` | | one sender, the replicas that serve it, one receiver |
| `JobQueue`, `JobQueueProofs`, `MCJobQueue` | | one RabbitMQ job type and its worker process |
| `RateLimiter`, `RateLimiterProofs`, `MCRateLimiter` | | the admission script on the Redis keys of one actor |
| `Social`, `SocialProofs`, `MCSocial` | | friends, presence and the profile cache, which share users, replicas, Redis and its failures |
| `Conversations` | | one conversation with its group, its read model and its messages |
| `Uploads` | | the uploads of a user, their jobs, workers and documents |
| `MCServer` | `Conversations`, `Uploads` | their instances side by side |
| `MCBackend` | `MCRateLimiter`, `MCServer` | the limiter and those two in one run |
| `ServerProofs` | `MCServer`, `TLAPS` | the inductive invariants and theorems of both |
| `Sidebar` | | the conversation list of the chat page and the endpoint it asks |
| `Panel` | | the conversation panel and its explorers |
| `MCChatPage` | `Sidebar`, `Panel` | their instances in one run |
| `ChatProofs` | `MessageDelivery`, `MCChatPage`, `TLAPS` | the inductive invariants and theorems of all three |
| `Session` | | accounts, the cookie of a browser and the requests of its tabs |
| `CallWindows` | | the chat tab and the call window of one user |
| `CallBook` | | the missed-call badge and the call history |
| `MCBrowser` | `Session`, `CallWindows`, `CallBook` | their instances in one run |
| `BrowserProofs` | `MCBrowser`, `TLAPS` | the inductive invariants and theorems of all three |
| `BenchmarkRun` | | the commands given for one run identity |
| `Baseline` | | campaigns over the cells of a matrix |
| `SocketConcurrency` | | the sockets of one run of the concurrency workload |
| `MessageWorkload` | | two actors, their sockets and the opportunities of one run |
| `MCBenchmark` | `Baseline`, `BenchmarkRun`, `SocketConcurrency`, `MessageWorkload` | their instances in one run |
| `BenchmarkProofs` | `MCBenchmark`, `TLAPS` | theorems about all four |

The grain is the same everywhere. A Node.js handler runs alone between two
awaits and interleaves with everything at each of them, so a handler in flight
is a record in a function over `Tasks` (`Handlers` in `JobQueue`, `Flights` in
`Session`, `Shells` in `BenchmarkRun`) whose `pc` names the store operation it
issues next, and an action is that operation with the synchronous code around
it. Operators whose comment says *Mutant* are plausible wrong versions of the
definition after them; no specification uses them, they show that the
properties can fail.

Where the code really loses or crosses something, a property names the case: a
*history variable* (`raced`, `stale`, `excused`, `muddled`, `blurred`, `strayed`,
`missed`, `crossed`, `mixed`, `off`, ...) records that it happened, and the property says
that there is no other way to go wrong. Every such excuse is also a fact about
the program; they are collected under *Findings*.

### CallLifecycle

`rec` and `log` are the CallHistory document and its call_log message; `due`,
`lock`, `tempMap`, `sockBind` the Redis keys; `timers` the scheduled
setTimeouts; `active`, `bind`, `localTemp` the Maps of `call/state.js`.
`timers` and `active` are apart because `callUser` starts a second timer and
overwrites the handle of the one `initCall` started, which still runs.

* `InitCall`, `CallUser`, `AnswerCall`, `RejectCall`, `EndCall`, `Disconnect`
  start a handler; `FireTimer` and `Poll` start a timer callback and one due
  call of the poller. What follows is shared where the code shares it:
  `Resolve`, `CreateRecord`, `MapTempId`, `BindCaller`, `DetectGlare`,
  `RankGlare`, `GlareWrite`, `ArmDue`, `StartTimer` for making a call,
  `BindCallee`, `WriteAnswer` for answering, `SearchCall`, `RemoveDue`,
  `ReadCall`, `Finalize`, `WriteLog` for ending it.
* `Cleanup` is `cleanup.js` for one record, `ExpireLock` the lock's TTL,
  `Crash` the death and restart of a replica, `GrowOld` time.
* Time is `age[c]`, one of `Fresh` (under 30 s), `Due` (to 2 min) and `Stale`,
  the classes the code's thresholds tell apart: glare detection, timeouts,
  session lookups, cleanup. The 60 s and 120 s limits fall inside a class and
  are a choice of the model (`Resolve`, `SearchCall`).
* `answered = "late"` is an answeredAt written to a call that has already
  ended, which the code does not prevent.
* `writer` is a history variable: the path that wrote the outcome.
* Of the limiter only the correlation phase of an attempt is kept, which
  decides whether `initCall` or `callUser` is a replay. A Mongo failure inside
  the finalizer, the emergency fallbacks (reached only through ids that cannot
  be cast), `call:user:` keys (written, never read), readBy and mediaStatus
  are left out, and of the emitted events those that enable no client action.

`CallOutcome` is the abstract specification. A call is `"none"`, `"ringing"`,
`"accepted"` or has its outcome (`phase`), which a user, a disconnect, a
timeout, the cleanup job or glare resolution gave it (`by`), and the outcome its
log message shows (`shown`). `Fits` says which outcome a path may give; nothing
touches an ended call but glare resolution, `Cross`. `CallLifecycle` implements
it (`Implements`) with `phase` computed from the record (`PhaseOf`), `by` as
`writer` and `shown` as `log`.

### MessageDelivery

A key of `Keys` is an idempotency key and stands for a message through all its
retries; a saved message's `_id` is its position in `stored`, and 0 stands for
the missing `_id` of an event whose save failed. Events and the receiver's
bubbles carry both, since the receiver tells them apart by `_id` only; `unsaved`
notes the messages one of whose attempts was sent on without an `_id`.

* The sender's view: `Send`, `Timeout`, `Retry`, `SenderReceives` (echo,
  acknowledgement or failure), `OpenChat` (chat opened again or page
  reloaded), `FetchRead` and `FetchApply` (the history request). A bubble keeps
  its temporary id (`Temp`) until an answer or an echo replaces it, and answers
  find it only by that id.
* The handler: `Accept`, then `Save`, `SaveFail` or `CacheFail`, `Emit`,
  `Reply`, and `Reject` where the profile or group lookup throws. Several run at
  once, of one key too. `Upsert` is `findOneAndUpdate` with upsert; the E11000
  branch reads the winner's document and is the same step. In `SaveFail` the
  upsert fails; in `CacheFail` it is carried out and the Redis transaction
  behind it throws, so the message is stored, but the handler goes on without
  its document (`NoDocument`): the event has no `_id`, and no audit job is
  published, by a retry neither, which finds a duplicate.
* The connections: `SenderDrop`, `SenderConnect`, `Crash`. Packets in transit
  are lost with the connection; a handler goes on, but its acknowledgement
  belonged to the lost socket. An echo may miss the sender because its new
  socket has not joined its room: `Emit` leaves that open.
* The receiver: `Receive`, `ReceiverDrop`, `ReceiverConnect`, `JoinRoom`,
  `SyncRead`, `SyncApply`, `SyncFail`. Room and sync are requested together
  and answered in any order.
* Left out: messages without an idempotency key, read receipts, older history
  pages, the 24 h expiry of the pending queue, visibility filters, a history
  request that fails (the view keeps what it has).

### JobQueue

`primary`, `retry` and `dlq` are the queues, `out` the unacknowledged
deliveries of the open channel, with delivery tags that start over on every
channel. `Publish`, `Connect`, `Deliver`, `Succeed`, `Fail`, `Confirm`,
`Expire`, `Drop`, `Crash`; `Ack` is `channel.ack` through the *current*
channel. `Fail` includes the closed channel and the refused copy, which both
leave the original unacknowledged. What RabbitMQ does (delivery within the
prefetch, requeueing at the head, TTL and dead-letter exchange, closing a
channel for an unknown tag) is modelled from how the code configures and uses
it. Metrics, correlation ids and `stop()` are left out.

### RateLimiter

Every admission is one EVAL, so here an action is a whole script: `Admit` and
`Refuse` for a stage of policies, `ChargeCall`, `RefuseCall`, `Correlate` and
`Replay` for a call event, `Tick` for Redis's clock. `zset`, `credit` and
`lastRefill` are the values of the policy keys and `expiry` their PEXPIRE;
`marker` is the correlation key of an attempt. An argument `heard` says whether
the answer reached the server, which otherwise reports the limiter as
unavailable. `granted` and `charged` are the whole history of what was charged,
and the properties are stated over it: `WithinQuota` and `Fits` know nothing of
pruning, refills, rounding or expiry. The keys of one actor are modelled, since
those of another share nothing with them. The clock is taken to be monotone and
the keys durable; that is up to the Redis deployment. The marker's stored
caller and callee are part of its key, so the branch for a marker of another
pair cannot be reached and is left out.

### Social

`friends` and `requests` are the arrays of the User documents, `cache` the
Redis sets with their marker member and `mayEnd` their TTL, `profile` and
`cached` the profile's version in Mongo and Redis; `members`, `flag`, `hash`,
`global`, `activity` the presence keys and the user's row; `inbox` and `view`
the friendship events and flags of a user's pages. One task is one handler, and
every Redis or Mongo command of it is one step; commands under one
`Promise.all` are done in either order (`todo`).

* `Connect`, `Heartbeat`, `Disconnect` start the presence handlers
  (`PresenceStep`); the grace timer is the disconnect's task, which waits at
  `GraceOver` for its time and then compares the flag and counts again.
* `SendRequest`, `AcceptRequest`, `RejectRequest`, `RemoveFriend` with their
  two users' lists and sets (`FriendStep`); `ListFriends`, `ReadProfile`,
  `EditProfile` (`ReaderStep`), the warm-up being part of the first.
* `AcceptCache` is the `sAdd` of a new friend. On a set that has expired it
  begins a set of one, and marks the user `stale` when he has other friends.
* `Fails` is a failing command, where the code catches it or not.
  `PresenceFails` is any Redis or Mongo command of the presence handlers: they
  catch it in one place, log it and stop, so a tab may stay without its
  registration (`unlisted`), its user without the hash (`excused`), or the hash
  without its TTL (`torn`). A command that was carried out although its answer
  was lost is its own step followed by the failure of the next. Of friends and
  profiles the failures of the Redis writes are modelled.
* `Expires` the TTLs; `Receive` the pages; `Crash` a replica with its sockets
  and tasks.

Search, suggestions and the change of password are left out, and so are failing
Mongo commands of the friend handlers, and a Redis client that is known to be
closed (`isOpen`), with which the presence handlers skip their commands.

### Conversations

`group` is the Group document with its version key, `conv` the Conversation,
`row[k][u]` the participant row of a user, `msgs` the messages with their
audience (`aud`), and who has seen and may see them. Conversations are
numbered, since a late message may recreate one that was deleted.

* A `Request` names one of `create`, `add`, `remove`, `leave`, `transfer`,
  `delete`, `send`, `see`, `clear`, `page`, `prefer`. The group operations read
  the document and save it (`ReadGroup`, `SaveGroup`: a pushed member and a new
  admin are written as they are, a replaced members array only over the version
  that was read), write system messages and run `syncGroupLifecycle` (`SyncRead`
  to `SyncLeave`).
* The dual write is `Save`, `Shape`, `Upsert`, `Find`, `Put`: read the group,
  upsert the Conversation, and for each participant find the row, then create or
  update it.
* `MarkRead`, `ZeroUnread`; `Allow`, `Seek`, `Wipe` (deletion of a history);
  `PrefConv`, `PrefNew`, `PrefRow`; `PageMember`, `PageRow`, `PageFetch`;
  `DropGroup` to `Purge` (deletion of a group).

`strayed` has the users who left the group while another request still held a
copy of it with them, or who joined between the save of a message and its dual
write: the row that request writes may renew an older `joinedAt`, and
`PagesHonest` promises nothing more to them. The proof of `ReadsHonest` asked for
it: its invariant was not inductive, and a search with longer behaviours than the
run's (14 requests, 3 at once) showed that the property was false without it.

Renaming, the common-groups cache and crashes between two queries are left out.

### Uploads

An upload is a chat image, an avatar (both through the queue `image.process`)
or another file in parts (`use`). `chip` is its entry in the composer, `req`
its request, `source` the staged object, `objects` and `file` the results and
the File document, `avatar` the name in the User document.

* Browser: `Add`, `Answer`, `Event`, `RemoveChip`, `Send`, `Drop`, `Reconnect`.
* Controllers: `Stage`, `Publish`, `Unstage`, `Complete`, `Record`, and
  `ReadProfile` for the cache-aside profile.
* Worker: `Take`, `Find`, `Make`, `WriteFile` or `WriteAvatar`, `Invalidate`,
  `Emit`, `Clean`, `Fail` (with the retry and the dead letter), `Crash`,
  `LoseChannel`: the job is delivered again while the handler goes on.

Remote avatars (`avatarQueueService`), the rooms of avatarUpdated, download
links and chunked aborts are left out.

### Sidebar and Panel

`Sidebar`: `row` is the read model of the user, `pending` the rows a message has
still to write, `events` the message events on their way, both taken in the
order of their times (`First`); `list`, `cursor`,
`more`, `fetching`, `filter`, `term`, `timer` are fields of SidebarStateManager
and `request` its requests. `ReadPinned` and `ReadRows` are the two queries of a
page, so rows move between them. `SetFilter` and `ClearTerm` abort and ask for
the first page, `LoadMore` asks behind the cursor, `Type` and `Debounced` search,
`HandleMessage` is the live event, `DeleteHistory`, `HistoryDeleted` and `Pin`
change rows. `ListWhole` names its exceptions through the history variables
`doubled` (two pages were under way at once) and `overtaken` (conversations that
changed across a page; all of them when a deletion starts again from a list
that two pages had met in, until a first page arrives). The order in the list,
unread counts and hits of users one never wrote to are left out.

`Panel`: `log` is what the conversations hold, by kind of message; `Page` is the
backward scan of loadMedia, loadFiles and loadLinks with what it cuts off.
`Open`, `Close`, `Switch`, `Load`, `Retry`, `Meta`, `Change`, `ServeChange`,
`Changed` are the panel; `OpenExplorer`, `CloseExplorer`, `LoadMore`, `Refresh`,
`Answer` an explorer, whose controller aborts the request before. Members,
common groups, deleted histories and the group's own changes are left out.

### Session, CallWindows and CallBook

`Session`: the server keeps no session, only accounts (`pass`, `google`); the
refresh cookie belongs to the browser, the access token to a tab. A flight is a
request with its answer, its two tries and the refresh between them. User steps
`SignIn` (password, registration, Google), `Forgot`, `UseLink`, `Ask`,
`SignOut`, `Reload`; server steps `Serve...`, `...Read`, `SaveSeen`,
`CreateAccount`, `ResetSave`; page steps `...Arrives`; and lost requests and
answers, tokens, cookies and links that expire. The call page, the socket's
handshake and change-password are left out.

`CallWindows`: `win` is the CallProvider of the main window and of the call
window, `store` the call keys in localStorage, `page` the call window itself,
`wire` the server's events in order per window, `rec` the server's record.
Every event handler of `useSocketEvents.js` and every operation of
`useCallActions.js` is an action, `HandleStorageChange` the storage event
between the windows. Left out: the loser's branch of glare, media and
devices, several call windows, and the start-up validation.

`CallBook`: `Start`, `Finalize` (its two events) and `EndSilently` on the
server; `Deliver`, `Drop`, `Connect`, `Refresh`, `CountMissed`, `Hydrate`,
`MarkAll` for the badge; `Open`, `Close`, `Scroll`, `ServePage`, `PageArrives`,
`PageFails` for the list.

### BenchmarkRun and Baseline

`BenchmarkRun`: a file is known by the command that wrote it, so a digest is a
name with a writer (`files`). `Command` gives execute, start, cleanup,
provenance, derive-report or finalize to a shell; `Fresh`, `Make`, `Mkdir`,
`Own`, `Up`, `Seed`, `WarmUp`, `Measure`, `Teardown`, `MakeFinal`, `WriteFinal`
are the steps of a run, `Preview`, `Confirm`, `Remove`, `RemoveDirectory` those
of a clean-up; any of them may fail, and `Crash` ends a command anywhere.
`Up` also makes a missing result directory, which the runner's container mounts
(docker-compose.k4.yml).
`Publishable` is validateRunArtifacts. The set-up preflight, several run ids and
the numbers measured are left out.

`Baseline`: a campaign goes `Begin`, then `Admit` and `Retain` for every cell,
`Judge`, `Report`, `Dossier`; `Clean` is an operator. The freshness of
prerequisites, the detail of claims and the scope of history are left out.

### SocketConcurrency and MessageWorkload

`SocketConcurrency`: `Init` opens all sockets; `Connect`, `ConnectError`,
`HandshakeTimeout` and `Disconnect` are the listeners and the timer of an
attempt, `OpenFor` its `settled` flag; `RampEnds`, `SettlingEnds` and
`PlateauEnds` are the three parts of executeSocketConcurrency. What follows the
last outcome runs in promise callbacks, before any further event of a socket
(`Awaits`). `steady` is a history variable: what really stayed connected.

`MessageWorkload`: `Connect` and `ConnectFails` are connectActor; `Slot` is one
turn of openLoopSlots with the opportunity it starts; `Acknowledged`,
`AckTimeout`, `Received` and `DeliveryTimeout` settle its two promises, whichever
comes first; `Finish` is what executeMessage returns. The server (`Serve`) and
the connections (`Drop`, `Lose`) are the environment. The two shared sockets and
the filter by idempotency key (`Takes`) are why messages can overlap.

The sidebar workload (one HTTP request per slot), times and latencies are left
out.

## Runs

Every passing run is exhaustive. Deadlock is not checked: users may stop
sending, bounds run out, and the system then rests.

| Run | Instance | Shows |
| --- | --- | --- |
| `CallRaces` | 2 replicas, 2 attempts, 2 calls, 2 handlers; one call of any age with 3 events or lost connections, or two fresh ones that cross with 2 (`RacesBound`) | every pair of handlers, timers, polls and cleanups: `HonestOutcome`, `LogAgrees`, `HandlesAreLive`, and that all of it is a behaviour of `CallOutcome` (`Implements`) |
| `CallRecovery` | 2 replicas, 1 handler at a time, 1 crash, fairness | `CallsSettle`: calls end and the due set forgets them; `WinnerLogs`: without a crash every finalized call gets its log |
| `CallUnreachable` | violation | see Findings |
| `MessageRetry` | 1 message, 2 retries, 2 handlers, a group; 1 failed save (before or behind the upsert), 1 failing handler, 1 failed sync, 1 drop or crash, 2 openings | `AnnouncedOnce`, `ShownOnce`, `SentStands` |
| `MessageTwice` | violation | see Findings |
| `MessageOffline` | 2 messages, 3 disconnections, fairness | `OfflineRecovered` |
| `JobRecovery` | 2 jobs (1 poison), 1 retry, 2 handlers; 1 crash, 1 refused copy, 1 lost channel, fairness | `KeptWhileConnected`, `DlqEarned`, `JobsSettle` |
| `Social` | 2 users, one with 2 tabs on 2 replicas, 2 handlers, 4 events; 1 edit, 1 failing command of any presence handler or of a write to the caches, 1 expiry, 1 crash, fairness | `FriendsAgree`, `PresenceKept`, `GhostGone` |
| `Server` | `RateLimiter`: a bucket (capacity 2, 3 tokens in 5 ticks), a window (2 in 3), calls (1 in 2, marker 3), 2 attempts, 4 ticks. `Conversations`: direct and group, 3 users, 2 requests at once, 4 in all (a group change counts for 2), 2 Conversation documents. `Uploads`: 2 uploads, 2 workers, 1 retry, 2 troubles, 1 profile read, uploads and troubles at most 3 | `QuotaKept`, `RefusalIsDue`, `RetryIsExact`, `OneChargePerCall`, `NoFreeCall`; `RowsFollowGroup`, `ReadsHonest`, `MembershipAsAsked`; `FilesStand`, `ImagesArrive`, `ProfileFresh` |
| `ChatPage` | `Sidebar`: 3 conversations, pages of 1, 2 requests, 3 acts and messages. `Panel`: 2 conversations, pages of 1, 2 messages, 3 gestures, 1 trouble | `SidebarWhole`; `ExplorerExact`, `PanelTruthful` |
| `Browser` | `Session`: 2 accounts, 2 tabs, 2 further flights, 4 acts, losses and expiries in all. `CallWindows`: 2 peers, 2 calls. `CallBook`: 2 calls, pages of 1, 2 openings and troubles in all | `RequestsHonest`, `SignedOutStays`, `LinkSpentOnce`; `WindowsHonest`; `BookExact` |
| `Benchmark` | `Baseline`: 2 campaigns, 2 domains, 2 troubles. `BenchmarkRun`: 2 shells, 3 commands, 1 crash, 1 fault. `SocketConcurrency`: 3 attempts. `MessageWorkload`: 2 slots, 2 losses | `ReadyIsEarned`; `PublishedIsMeasured`, `OneRun`, `NothingLeft`; `WorkloadsHonest` (both workloads) |

The last four runs hold two to four components each that share no state. A
behaviour is one of one component: `part` says of which, and the variables of
the others have the value `Off`. (In `Benchmark` those of `Baseline` and
`BenchmarkRun`, in `Server` those of `RateLimiter`, keep their initial values
instead.)
Interleavings of the components would show nothing more, and a state of one
would be multiplied by those of the other.
What users do and what goes wrong is bounded for each kind and, in most parts,
also in all (`UploadTotal`, `ListTotal`, `PanelTotal`, `SessionTotal`,
`BookTotal`); these are constants too, and the theorems hold for any value.

Why the bounds are enough. The properties of a call relate one record to the
handlers that work on it, and every conflict in the code is between two of
them, so two handlers, one of each side and each replica, and as many events as
it takes to answer and to end a call twice reach each of them; two calls are
needed only where one handler touches another call, which is glare. A message
conflicts with its own retries (two handlers), and a second message is there
for the order of ids and the page limit of the sync (here 1, in the code 100).
`OfflineRecovered` is checked with a page that holds what was missed; the
client asks for one page per connection, so a longer absence is not recovered
by the sync. A job conflicts with its own redelivered copies and, after a lost
channel, with the delivery that took over its tag. The limiter's instance is
small in time, but long enough for every window to slide, every key to expire
and a refill to end between two ticks; what it shows is proved for every
instance. Presence needs two tabs, so that one leaves while the other stays, on
two replicas, so that one can die; friendship is between two users. The read
model conflicts between two requests, of which at least one changes the group,
marks, deletes or writes; a third user makes the member who leaves and comes
back. An upload conflicts with its own redelivery (two workers) and shares only
the avatar with another one. Lists conflict between a page and what moves
across its end, hence pages of 1 over 3 conversations. Sessions need two tabs
and two accounts for one cookie to change hands under a request. A run identity
is fought over by two shells, and a third command comes after them.

Fairness. The event loop runs every handler on and fires due timers (`WF` of
each handler's step); Redis keys expire; the poller and the cleanup job come
round on intervals; workers reconnect forever; the broker delivers and expires
messages. Strong fairness is used for `Fire`, `PollSome` and `DeliverSome`
only, since in the models they need a free slot of `Tasks` or `Handlers` (in the
code there is no such limit) or a channel that stays open. No client or user is
fair, except that a disconnected receiver's Socket.IO reconnects (it is
configured to, without end). In `Social` only commands under way and the TTLs of
the presence keys are fair. The poller exists only with
`CALL_DISTRIBUTED_TIMEOUT_ENABLED`; the models have it on.

## Proofs

Eight modules hold theorems; what each of them states holds for every value of
the constants that the named assumptions of its component allow.

### Calls

`CallLifecycleProofs` proves for every set of replicas, sockets, attempts,
calls and handlers: `TypeCorrect` ([]TypeOK), `OutcomeIsHonest`
([]HonestOutcome), `LogIsFaithful` ([]LogAgrees), `OutcomeIsFinal` (no step but
glare resolution changes an outcome) and `NoHandleLeaks` ([]HandlesAreLive).

`HonestOutcome` and `LogAgrees` speak of the stores, but whether a step keeps
them depends on what a handler read steps ago. The inductive invariant `IInv`
adds what that takes:

* `Refs`: whatever Redis, a Map, a timer or a client refers to is a record that
  exists, so no write creates one by accident;
* `Shape`: at each `pc`, which operation is running and which of its fields
  are set;
* `Derived`: the status a handler carries fits what it read: if it saw an
  answer then the record is answered, for answers are never withdrawn; a
  timeout carries missed; a disconnect completed or rejected, as it saw; and
  at the log step the record still has the status that was written, unless
  glare resolution came between;
* `Written`: a record has an outcome exactly when some path wrote one, and the
  answer of a record that still rings is not late.

The proof goes by the action: `TypeStep`, `RefsStep`, `TaskStep` and
`StoreStep` prove one part each, with one step per action of `Next`.
`OnlyWrites` says which actions touch the records at all and lets the others be
dismissed together; `Frame` says that a handler which takes no part in a step
keeps what it knows. `OutcomeIsFinal` then follows from the conditional update:
a finalizer's step needs a pending record.

`HandlesAreLive` needs no strengthening: a step either keeps a slot of the Map
and its timer, or clears it, or takes the timer into its callback
(`FiresStep`, `ClearKeepsSlots`, `SlotStep`).

The module ends with `ImplementsOutcome`, the refinement: initial states
map to initial states, and under `IInv` every action is one of `Ring`, `Accept`,
`End`, `Cross`, `Log` of the mapped state, or leaves it alone. `IInv` is what
makes the outcome that a handler writes one that `Fits` allows.

### Messages

`ChatProofs` proves for every set of keys, handlers and bounds
`AnnouncedAtMostOnce` ([]AnnouncedOnce) and `SentBubblesStand` (SentStands). The
invariant says that the server's variables keep their types (`ServerTypes`),
that a key is stored at most once (`SavedOnce`), and that of the handlers of a
key at most one is about to announce its message, only after the key is stored
and while its count of jobs is still 0 (`OneAnnouncer`): only the handler whose
upsert inserted the document fans it out.

`SentBubblesStand` speaks of what the user reads: a bubble with its `_id`
(`sent`) and one that says sent but still has its temp id (`sentTemp`, left by
an echo without an `_id`). The first never falls back. The second does in one
case, which the property names: another attempt of the message is answered with
a failure, which finds the bubble by its temp id. It follows from what the
packets to the sender say of a message none of whose saves failed (`Honest`).

`ShownAtMostOnce` ([]ShownOnce) is about the receiver: live events and synced
pages show a message in one bubble, in whatever order they come, unless one of
its saves failed; then each event without an `_id` shows a bubble of its own, and
at most one bubble has the `_id`. The invariant is that no two bubbles name the same
saved message (`Once`), and that what is in transit and shown names the message
it belongs to, without an `_id` only if it is `unsaved` (`Fitting`); a live event
keeps it by `ShowOnce`. A sync shows a whole page, by a function that recurs over its
messages: `PageHandled` shows that there is such a function, and `PageOnce`
takes the first message of the page whose bubble could break `Once`
(well-founded minimality again), and the one before it refutes it.

### The list and the panel

`ChatProofs` also proves `SidebarIsWhole` of `Sidebar`, for any finite set of
conversations and any page size, and `ExplorerIsExact` and `PanelIsTruthful` of
`Panel`, for any conversations, messages and views.

* `ListInv`: a row or an entry of the list never shows more than its newest
  message, and that message is either written or still owed (`MessageTimes`,
  `NewestFits`); what a request can be by its kind, filter and term, and that
  pages are asked for one at a time from the cursor of now (`RequestShapes`).
  `SidebarWhole` speaks of moments of rest only, so the rest of the invariant says
  what will make it true: every conversation is shown right or comes behind the
  cursor (`ListRight`), for a page under way the same holds of the page and of
  the cursor it brings (`PagesRight`), and a hit is shown or a search brings it
  (`SearchInv`). A conversation with an event under way is excused until the
  event is heard. The proof found `ListWhole` false of the earlier model: a
  deletion that starts again from a list that two pages had met in, and whose
  first page fails, keeps the gap. TLC shows it with five acts (the run has
  three); `overtaken` now records it.
* `PanelInv`: an explorer has one request at most, about what it shows, and but
  for what it has been told of (`Told`) it has every attachment down to its
  cursor (`ExplorerInv`); the newest request of a preview is for the
  conversation the panel has loaded, and everything after it has been announced
  (`PreviewInv`); unless a change was written for other metadata (`slipped`), the
  preference is the one stored, or a change under way knows the one before
  (`PreferenceInv`).

### Jobs

`JobQueueProofs` proves `TypeCorrect`, `DeadLettersAreEarned` ([]DlqEarned) and
`JobsAreKept` ([]KeptWhileConnected) for any number of jobs, handlers, attempts
and faults. The invariant `BInv` says that the attempts a copy of a job carries
were failures of that job (`Counted`), and that nothing is unacknowledged without
a connection (`Closed`). As long as no channel was dropped under a handler
(`drops = 0`) it holds together with `Linked`: every delivery is linked to the
handler that has it, and every published job is safe somewhere, in a queue, in a
delivery or done. `AckSettles` is the step that needs the link: the delivery an
acknowledgement takes away is the one its handler finished. Lemmas about
queues (`RanAppend`, `RanTail`, `RanConcat`, `RanRemove`) say what each
operation leaves in them.

### The limiter

`RateLimiterProofs` proves for every set of policies, limit, window, capacity
and TTL: `TypeCorrect`, `QuotaIsKept` ([]QuotaKept), `RefusalsAreDue`
([]RefusalIsDue), `RetriesAreExact` ([]RetryIsExact), `CallsAreChargedOnce`,
`NoCallIsFree` and `PhasesPassOnce`. The inductive invariant relates the keys to
the history:

* `WindowFaithful`: the events that still count are in the sorted set, and its
  key outlives them. So the script's count is exact (`RecentIsExact`), however
  it pruned and whenever keys expired.
* `BucketFaithful`: the hash expires only when it would be full again, which is
  what the rounded-up TTL is for (`CeilCovers`); so the level of an expired
  bucket is what its hash would have been refilled to (`LevelIsRefill`).
* `CreditBound` and `CreditTight`: over every interval that ends now, what was
  spent and the level together are within what the interval allows, and over
  some interval they are equal to it. The first gives the quota, the second
  that a refusal is due.
* `MarkerFaithful` and `PhaseRecorded`: a marker runs from the last charge of
  its attempt, and knows the phase that was let through.

`ChargePreserves` and `TickPreserves` carry the first four over a charge and a
tick; products are introduced by lemmas of their own, after which the steps are
linear. The exact wait is two arguments: of a window, the oldest event that
counts (it exists by well-founded minimality, `Earliest`) is the one whose end
makes room (`WindowRetry`); of a bucket, the rounded-up wait is the first at
which the missing credit has come (`CeilIsFirst`, `BucketRetry`).

### Friends and presence

`SocialProofs` proves `PresenceStays` ([]PresenceKept) and `FriendsStayAgreed`
([]FriendsAgree), for any number of users, tabs, replicas and handlers; the run
has two users, and both invariants below were also checked by TLC with three.

* Presence: a live tab is a member of its user's set, still to register, or
  failed to (`Registered`). When the hash is not active although the user is not excused,
  a handler is about to write it, or every member is an id nobody will remove
  or of a tab that is about to count (`Covered`). Hence the first of the tabs
  that count writes the hash, and `PresenceKept` names the ways to miss it: tabs
  that register at once, a leaked id, a tab between a grace timer's count and its
  write, an expired hash, and a handler that died or failed before its write.
* Friends: `PairInv(u, v)` says of a pair that is not raced that at most one
  handler is at work on it, with no event about it and no list of the two being
  loaded meanwhile (`AloneAt`); that up to the first write both lists agree and
  later each has been written or is still to do (`ListsAt`); and that events on
  their way (`ToldAt`), a set that is there (`CacheAt`), the page and a reader
  on the way to one (`PageAt`) say what the list says, unless the handler has
  them still to do.

A step of a handler is looked at twice: it leaves the other pairs alone
(`OthersSame`, `PairKept`), and of its own pair it is alone with (`AtWork`) it
does what `OwnStep` says. `FriendsAgree` is `PairInv` without a handler or an
event. Proving it found a way to differ that two users do not show: with three,
a set that expires between two acceptances begins again with the second friend
only, and the page then loses the first. `AcceptCache` has recorded it since.

### Conversations and uploads

`ServerProofs` proves of `Conversations` `MembershipIsAsAsked`,
`RowsFollowTheGroup` ([]RowsFollowGroup) and `ReadsAreHonest` ([]ReadsHonest), and
of `Uploads` `FilesStay` ([]FilesStand), `ImagesAreAnswered` ([]ImagesArrive) and
`ProfileStaysFresh`, for any number of users, requests, uploads, workers and
troubles. The assumptions
are that requests are well formed and about users, that a Conversation can be
created, and that the slots for requests are finitely many and at least one; TLC
checked the first two invariants of the conversation on the run's instance too.

* `GroupInv`: a copy of the group that has its version has its members
  (`Current`), and a request that is about to save has read one; hence a
  members array that is written is the present one but for the user it is about.
* `RowsInv`: each user's row agrees with the group, or a sync that is under way
  still owes the row a look (`Owes`), or it is muddled (`RowsAgree`). That a
  sync settles what it owes needs `PlaceOK`: the Conversation it holds is the
  present one until the group is deleted, and a row it found is still there.
  Two bounds are counted: a user is in the members array no more often than
  there are requests, less those about to push the user (`MembersBounded`); and
  a count is at most the time, less the messages still to be counted
  (`UnreadBounded`). A step is proved by what it touches: `QuietStep` (no
  document), `RowStep` (rows), `ConvStep` (the Conversation).
* `ReadsInv`, on top of `RowsInv`, is about unread counts and pages while the
  conversation stands (it is direct, or its group is not deleted):
  * `OneConversation`: there is one Conversation at most and no row of another,
    so that a count and what it counts are about the same row.
  * `MessagesOK`: a request that is writing a message out has one of its own
    (`MessageTimes`, `WrittenAs`), and no row it still `Counts` shows it as its
    last one; otherwise `Put` would take it for written and skip the count.
  * `UnreadOK`: a count is the number of messages `Due` to its user, which are
    those unseen and not cleared, less those still to be counted, unless a
    request is about to zero it (`Reading`). It is about the `Cardinality` of a
    set of times, so each message counted needs that the set grows by exactly
    one (`CountDone`), and a cleared history that it becomes what was sent
    since. `OwedCount` maps times to messages, one to one, when nothing is left
    to be counted: that is `UnreadExact`.
  * `ClearedOK`: a row remembers when its user cleared the history, and a page's
    bound is no later than the row it was read from; so a page never shows
    anything cleared before the request.
  * `PagesOK`: a row has a role exactly while its user has not left, and a user
    with a role may see everything since `joinedAt` (`AllSince`). It has to hold
    of the rows that requests are about to write too (`CopyOK`): whoever is in a
    copy of the group may see everything since the copy was made, because a
    request that removes the user meanwhile records that in `strayed`.
* `UploadInv`: which steps an upload of each kind can be at (`Routes`); a job is
  about a published image (`JobsPublished`); a worker about to write has stored
  an object whose key nobody else has (`WritersOwn`), and one that cleans up has
  left its document (`DoneIsDocumented`), so that no clean-up takes the last
  copy; of what the browser waits for, a job, an event or a reason is left
  (`Followed`); and a cached profile that is out of date has a worker about to
  drop it (`Freshening`).

### The browser

`BrowserProofs` proves `RequestsAreHonest`, `SignOutIsFinal` and
`LinksAreSpentOnce` of `Session`, `BookIsExact` of `CallBook`, and
`WindowsAreHonest` of `CallWindows`, for any number of peers and calls.

* `SessionInv`: what a flight is by its operation and leg (`Shaped`), among it
  that a call that was carried out has its answer and is not tried again; that
  it carries the account of its page unless the cookie changed hands
  (`Faithful`); that after a clean sign-out no flight can bring a cookie
  (`Quieted`); and that two resets of one user are excused or have read what is
  stored (`Apart`). `Counted` bounds the versions of a password by the acts,
  through the cardinality of the flights that may still make one.
* `BookInv`: while nothing crossed it, the badge and what is still on its way
  (`Due`) together are the unread missed calls (`BadgeInv`); the history is one
  unbroken run of records that ends at the cursor, and a served page begins
  where its request was (`HistoryInv`).
* `WindowInv`: `WindowTypes`, and `OneCall` while no calls crossed. Then only the
  last call is live and everything on the wires is about it (`LastOnly`), events
  come in the order of what the server did (`InOrder`), and the storage names the
  call that goes on to whichever window will end it (`StoreNames`): without this a
  window's hang-up reaches no record and `LeftIsOver` fails. That a shown call is
  the server's needs to know what the call window is between its opening and its
  join (`PageShaped`, `OutShown`, `StartTold`), and that a ring can be answered
  needs what the main window never does (`MainShaped`, `Rings`). Per action there
  is one lemma of its effect and one that `OneCall` is kept.

### The benchmark

`BenchmarkProofs` proves `OneRunAlways`, `NothingIsLeft`, `PublishedWasMeasured`,
`ReadyWasEarned` and `WorkloadsAreHonest`, and the last one also for each
workload by itself (`ConcurrencyHolds`, `DeliveriesHold`).

* `RunInv`: identities are given once (`Told`); a clean-up that is complete
  covered every class the run made, with what each of its steps has still to
  come (`Swept`, `ToCome`); while nobody pulled the directory away its owner is
  the running shell and the seeds are its own (`Owned`); and a measured run has
  written the files before the one it writes, COMPLETED last (`Evidenced`).
  `OneRun` was false of an earlier `RemoveDirectory`: a clean-up also takes the
  claim from under a run when it removes the directory and leaves volumes that
  appeared after its preview (lifecycle.js:707-714), which `pulled` now records.
* `CampaignInv`: a kept record is of its own campaign, an unavailable one stands
  for several, and every claim of a report has its grounds in the record kept.
* `SocketInv` and `MessageInv` tie what the workload notes to the sockets, and
  to the packets and answers still on their way.

### What is only model-checked

Everything temporal (`CallsSettle`, `WinnerLogs`, `OfflineRecovered`,
`JobsSettle`, `GhostGone`), which is beyond the prover, and the full type
invariant of `MessageDelivery`. Every invariant of a passing run is a theorem.

## Findings

`CallUnreachable` is a violation run: the cleanup job takes calls older than
two minutes that are still pending for stale ones. A connected call is pending
until it ends, so it becomes unreachable, while
specs/done/audio-video-calls.md:20 promises a completed one.

`MessageTwice` is a violation run: the first attempt is saved and shown, its
answer comes too late for the sender, and the save of the retry fails, in the
upsert or in the Redis transaction behind it. The handler sends the event all the
same, without an `_id` (saveMessageInBackground.js:221-245, messageHandler.js:69-92),
and the receiver shows the message a second time, while
specs/done/direct-messaging.md:23 says that a retry makes no duplicate the user
sees. A message whose only attempt fails behind the upsert comes a second time
too, with the next sync. `ShownOnce` says what does hold.

Disagreements with a document or with the code's own intention that were met
while modelling, without a run:

* Glare resolution (callUser.js:354, :388) writes without the finalizer's
  condition and overwrites a decided outcome; README.md:130 speaks of a
  conditional update that permits one finalization result, on the main
  termination paths. `CallOutcome` has the exception as `Cross`.
* A worker handler that outlives its channel acknowledges another job's delivery
  on the next one (workerRuntime.js:300), and that job is lost, while
  docs/RABBITMQ_WORKER_FLOWS.md:91 leaves a delivery unacknowledged rather than
  acknowledge one whose job failed. `KeptWhileConnected`
  excludes lost channels for this reason.
* A failure answer removes the pending entry, and the retry button then does
  nothing (pendingQueue.js:85, useChatMessages.js:298).
* A refusal names the wait of the first policy that blocks, not the longest one
  (distributedRateLimiter.js:87);
  docs/security/issue-61-quota-window-proposal.md:348 wants the maximum of the
  remaining waits.
* A page of a direct conversation ignores joinedAt
  (conversationVisibilityHelpers.js:35).
* A sign-out whose request fails leaves the cookie, and the next page is signed
  in again (authBootstrap.js:57, ChatPage.jsx:481).
* loadMore's guard reads state of the render before, so two pages may be under
  way (useSidebarState.js:282, :301, :306).
* An operator's `finalize` publishes as MEASURED, by default, what no command
  measured (cli.js:302); docs/adr/015-k4-performance-evidence-boundary.md:9
  publishes numbers of a declared measurement phase only.

Calls

* Calls the cleanup job or glare resolution ends get no call log message.
* A glare winner whose temporary id was resolved to the other side's call marks
  that call, its own by then, missed; a second `callUser` of the loser resolves
  to the winner's call.
* The disconnect handler never uses the `call:user:` binding that
  docs/ARCHITECTURE.md names as its last fallback; cancelling an answered call
  records missed; `rejectCall.js:143-171` uses `createCallLogMessage` without
  importing it.
* The server sends "glare" to the loser while the client takes it for news to
  the winner (callUser.js:345, useSocketEvents.js:175). The client never listens
  to callCancelled, callTimeoutRef is never set, and the busy check hardly works
  after ten seconds (a stale closure).
* A call cancelled while its acceptance is on its way leaves a connected view;
  a busy answer tears down the running call; an incoming window that has not
  joined closes on a second offer; a call page opened after the end was sent
  shows a call until the watchdog. `markCallRead` has no caller.

Messages, jobs, limiter

* Persistence and the sync do not recover every message: there is no sync
  before the first message id, the room is joined after the sync may have read,
  and a live event moves the id past what was missed. This is why
  `OfflineRecovered` speaks of messages saved while the receiver is down.
* A message whose save failed is delivered and acknowledged all the same; after
  a reload the messages of the pending queue are not shown. A failure of the
  Redis transaction also skips the dual write (saveMessageInBackground.js:216),
  and the retry, a duplicate by then, does not make up for it; `Conversations`
  does not model that: each of its saves goes on to the dual write.
* A bubble that says sent, after an echo without an `_id`, is set back to failed
  when another attempt is answered with a failure (useMessageSocket.js:194,
  useChatMessages.js:258-263); `SentStands` names the case.
* The script answers a callUser in the last millisecond of a marker without
  recording the phase, so a second one in that millisecond passes too.
* When the answer of a charged admission is lost, the user is told that the
  limiter is unavailable, and repeating the call with its id is dropped as a
  replay for two minutes.

Friends, sessions, pages

* `sAdd` on a missing key creates a set of one friend, which later checks take
  for all of them (friendCacheService.js:16 and :49), so a page loaded then
  misses friends until the set is gone; `FriendsAgree` excuses it. The presence
  branch of updateUserProfile cannot be reached; getUserById refers to an
  undefined `relationshipFlags` (userController.js:135).
* A sync or a dual write that stalls with a copy of the group from before a user
  left writes the row back with its own, older `joinedAt` once the user has left
  (conversationReadModelService.js:113, :282), and a return then does not renew
  it, since the row's `leftAt` is null: the user's page shows what was sent while
  away. `PagesHonest` excuses it (`strayed`).
* Requests that fail with 401 at once refresh once each, and refresh tokens are
  not rotated.
* A page of attachments cuts off what its last message has beyond the limit, and
  the next page begins after that message (resourceService.js:93-119,
  docs/adr/005); a message with a picture and a file raises no banner for files
  (useExplorerFreshness.js:40-45); a later page that failed has no retry;
  previews and preferences take late answers of another conversation; nothing
  is asked again after a reconnection.

Benchmark

* Every re-run under a prefix stops at the first directory that exists, and its
  record has no evidence of a clean-up, so the matrix is INVALID and the dossier
  BLOCKED; so does one NOT_RUN. Candidates given in advance cannot quote digests
  of runs to come, and the dossier command over a report is always BLOCKED, since
  a report's cells name no workload and no result directory.
* The sampler's interval is not cleared when the workload throws, so the command
  never ends; a failed teardown leaves the artifact COMPLETED; a clean-up under a
  running command lets its finalization make the directory again, unowned.
* When one of the two actors of the message workload cannot connect, nobody
  closes the socket of the other (workload.js:194).
* An opportunity that failed counts as a shortfall of the load generator
  (workload.js:299-301), as a slot that was not started does.

## Not modelled

Beside what each module's section names:

* Resource overview: read-only counts without paging or state.
* Benchmark observers and the continuous-integration contract: they compute
  numbers or check files, and keep no protocol; `BenchmarkRun` has the outcome of
  an observation as a choice.
* Notification and audit jobs: their bodies send a mail or write a line;
  `JobQueue` has their transport.
* WebRTC media, the Redis adapter, the socket server and the broker: third-party
  transport, modelled as the environment where its behaviour matters.
* The conversation backfill: one migration before the dual write is on.
* Observability, health, the demo dataset, deployment, rendering.

What is left to do, in this order: a larger `Conversations` with a crash between
two queries, once rows have a repair to check; glare in `CallWindows`.
