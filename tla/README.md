# Verification of gogram

gogram is a Telegram client in Go: an implementation of the MTProto protocol
(`mtproto.go`, `network.go`, `handshake.go`, `internal/`) and on top of it the
update engine, caches, file transfers and some hundred API helpers
(`telegram/`).  The repository has no test files.  This directory has TLA+
modules for its concurrent core, the TLC runs that check them on small
instances, and TLAPS proofs of their safety properties for every size.

`PROJECT.json` lists, for each definition, the source lines it models, for each
property a plausible bug in the code that would break it (a *mutant*), and for
each hazard found in the code the properties that cover it.

## 1. The parts of the system

| part | where | state | operations | talks to |
|---|---|---|---|---|
| connection gate | `TcpState`, mtproto.go:1819-1922 | `active`, `closed`, a Go channel | `SetActive`, `close`, `WaitForActive` | everybody who sends |
| connection lifecycle | `MTProto`, mtproto.go:520-1320 | `transport`, `ctxCancel`, `lifecycleMu`, `connState`, `disconnected`, `terminated`, `routineswg` | `CreateConnection`, `Reconnect`, `requestReconnect`, `Disconnect`, `Terminate`, `SwitchDc` | gate, reader, requests, session storage |
| requests | `makeRequest` mtproto.go:1024-1195, `sendPacket` network.go:24 | `responseChannels`, `expectedTypes`, attempts, `ConsecutiveTimeouts` | send, wait, retry | lifecycle, gate, transport |
| reader | `startReadingResponses`, `readMsg`, `processResponse`, mtproto.go:1452-1804 | one goroutine for each connection | read, decode, dispatch by type | requests, inbox, updates |
| inbox | `receivedMessageWindow`, `queueAck`, `serviceWriter`, mtproto.go:1948-2097 | `receivedIDs`, `pendingAcks`, `serviceMessages` | remember, acknowledge, report | server |
| outbox | `genMsgID`, `currentSeqNo`, salts, `timeOffset` | as named | draw an id, follow the server's corrections | server |
| authorization keys | handshake.go, network.go:300-340 | permanent, pending, current and previous temporary key with salts | key exchange, binding, renewal | session storage |
| session storage | internal/session | a file and its cache | load, store, delete | lifecycle |
| update ordering | `counterBox`, `FetchDifference`, updates.go:517-790, 3030-3720 | `current`, `pending`, `recovering`, `recoveringDifference` | `process`, `flushLocked`, `forceSet`, recovery job, monitor | reader, pools, server |
| channel updates | `FetchChannelDifference`, `OpenChat`, updates.go:3721-3998 | a box for each channel, open chats | fetch, poll | pools, server |
| task pools | `updateTaskPool`, updates.go:4490-4690 | `queue`, `active`, `workers`, `closed`, `generation` | `submit`, `run`, `stop`, `restart` | reader, album collector, `Client.Terminate` |
| albums | updates.go:1030-1100, 1680-1725 | `activeAlbums`, deadlines | collect, dispatch | pools |
| handlers | updates.go | registered handlers, filters | match, call | user code |
| secret chats | secret_chats.go, e2e/ | keys, two sequence counters by chat | key exchange, send, accept | reader (pool of one), server |
| extra connections | client.go:720-870, media.go:60-204, 2115-2256 | `ExSenders`, `WorkerPool`, `createGate` | lend a sender, clean up, close | transfers, further connections |
| uploads | `UploadFile`, media.go:443-830 | `partCh`, checksum, workers | read, send, give up | worker pool, pacer |
| downloads | `DownloadMedia`, media.go:1316-1982, 2811-3007 | destination, `resumeState` and its sidecar, pools by data centre | dispatch, fetch, write, mark, flush, resume | worker pools, pacer, disk |
| pacer | `transferPacer`, media.go:3138-3441 | `active`, `window`, `rate`, `epoch`, `changed` | `acquire`, `finishAt` | all transfers with a data centre |
| peer cache | cache.go | users, chats, channels, a file | look up once, write behind | API helpers |
| conversations | conversation.go | waiters | wait for a message | dispatcher |
| API helpers | messages, channels, users, bots, ... | none of their own | build a request, convert an answer | requests, cache |
| bytes | internal/encoding, mode, transport, aes_ige, math, keys | buffers | encode, frame, encrypt | network |
| generated code | telegram/*_gen.go, internal/cmd/tlgen | none | types and calls | |

How they interact: API calls run in any number of goroutines and meet at the
gate and at the one transport.  One reader goroutine for each connection takes
messages off the transport, answers waiting requests through channels, and
hands updates to the counter boxes, which put callbacks into task pools.
Recovery jobs run in these pools and make requests themselves.  Everybody may
notice that the connection is dead; one background goroutine at a time
replaces it.

What is hard here: seven kinds of goroutines write the flags of the
connection, with and without `lifecycleMu`; locks are released around
callbacks and network calls, and state read before is used after; the server
resends, reorders and packs messages; answers race timeouts; shutdown, restart
and `SwitchDc` come at any moment; queues and windows are bounded and
sometimes overflow.  `PROJECT.json` has the list, at the lines where it bites.

What makes each part correct:

* gate: no double close (a panic), no waiter on a channel nobody will close;
* lifecycle: one reader, an open gate has a transport that is read, a lost
  connection is noticed, what the user turned off stays off;
* requests: each ends, none waits on a connection that is gone;
* inbox: no message handled twice, none acknowledged and lost, every
  acknowledgement gets through;
* update ordering: no update dispatched twice, none skipped, gaps close;
* pools: the concurrency limit, the order of the pool of one, no stranded
  callback, silence after `Terminate`;
* outbox: ids and sequence numbers agree with the order in which the server
  reads the messages, a refusal is cured by one correction, nothing is
  executed twice by the client's own retries;
* keys: the temporary key in use is bound to the permanent key of now, and no
  key is used with the salt of another;
* secret chats: each side hears what the other said from the first on, in
  order and once; one sender at a time between a number and its request;
* albums: one collector, and no message waits in a box nobody looks at;
* extra connections: a bounded cache, a gate that is handed on, a stop that
  reaches every connection;
* uploads and downloads: what is returned without an error is whole, also
  after a crash and a resume; each ends, and leaves no goroutine and no pool;
* pacer: the count of requests under way is right and wakes those who wait;
* peer cache: a write that was asked for is made, by the timer or by `Close`,
  and `Close` is final.

## 2. Modules

| module | models | state and actions in the code's terms |
|---|---|---|
| `TcpState` | the gate | the two flags, the channel as a number, the set of closed channels; `Activate`/`Deactivate` are the two branches of `SetActive`; a waiter captures the channel in `Look` and blocks without a lock |
| `Connection` | lifecycle, requests, reader | a program counter for each goroutine; an action is one access to shared state; transports are numbered by attempt, 0 is nil; the gate's channel is left out (that is `TcpState`) |
| `Outbox` | `sendPacket`, `NewMsgIDGenerator`, refusals, salts | an id is its second and the order of its making; `NewId`, `SaltAndSeq` and `Put` are the three steps of `sendPacket` under `writeMu`; `ReaderReads` is `processResponse` for a refusal, an answer or a new session; the server is external |
| `Keys` | permanent and temporary keys | each key with its salt, named after the key it was issued for; the PFS manager is a program counter with the copies that `bindTempAuthKey` holds; imports and `SwitchDc` change the permanent key under it |
| `UpdateFeed` | what a counter box promises | `current`, how often the callback of each update was queued, those the queue turned away, what the server waived |
| `CounterBox` | box, recovery, monitor, shutdown | box sections under the lock are actions; `Apply` and the flush after it, which run unlocked, are actions of their own; a recovery job is a record in a slot of the pool; `Dispatch` is `dispatchUpdate` with the choice of `submitUpdateTask` |
| `TaskPool` | `updateTaskPool`, `submitUpdateTask`, the client's stop and restart | each lock section is an action; the window in which a goroutine is counted in `workers` and no more in `active` is `leaving` |
| `Inbox` | `processResponse` for what the server sends, window, acks, `serviceWriter` | the reader's nested calls are a sequence `todo`; an action is what lies between two accesses to what reader and writer share |
| `InboxHeap` | the heap inside `receivedMessageWindow` | `Enter` puts a new id in, `Rise` and `Sink` are one turn of each loop of `remember`; the window's mutex is held meanwhile, so the next step of the `Inbox` comes when the heap is in order |
| `SecureLine` | what one direction of a secret chat promises | how many messages were said, which were heard |
| `SecretChat` | both clients of a secret chat | chat objects, what each manager lists, the entry of the send lock with its users and mutex, drafts of messages, the server's log of updates for each side |
| `Albums` | `handleAlbum`, `collectAlbums` | where each message is, which groups have a box, which collector has which channel; a collector is named after the message that started it |
| `CacheFile` | the delayed writes of `CACHE` | the peers in memory, of which some are stored without a request (`StorePeer`), evicted (`Keep`) or cleared (`Forget`); the two flags, the timer with its late callbacks and strays, who holds `writeMu`, the snapshot that is written; `Switch` turns writing off and on |
| `Senders` | `ExSenders`, `createGate`, the filling of a worker pool | the cache by address, each connection's state, the token of the gate, the making of each connection step by step |
| `Upload` | `UploadFile` on a source that can seek, `uploadOnePart` | the dispatcher with its position and checksum, which reads (`ReadChunk`) and then waits for room (`OfferChunk`), `partCh`, each worker's part and attempts, what the server has stored |
| `Download` | `DownloadMedia` to a file of known size, `resumeState`, the flusher | what each part of the file holds, in memory of the system and on disk; the sidecar; the dispatcher, the workers and the flusher as program counters; `Crash` loses what was not synced; calls follow each other on one destination |
| `PartFetch` | `fetchWithRetry` | the limit and offset of the request, the units put together |
| `DcPools` | `fetchPart` with `FILE_MIGRATE_X`, `downloadPool`, `closeDCPools` | `dcPools` and `dcPoolPending` by data centre, pools as numbers, where each fetching goroutine is |
| `Pacer` | `transferRequest`, `transferPacer` | `active`, `window` and the rate's window; the epoch as the set of requests that belong to it; a moment (`next`, `blockedUntil`, `windowProbeAfter`) has come or not |
| `MCTransfers` | `Connection`, `Upload`, `Download`, `PartFetch`, `DcPools` and `Pacer` in one run | `focus` |
| `MCParts` | `TaskPool`, `TcpState`, `CacheFile`, `Albums` and `Senders` in one run | `focus` names the one that acts in a behaviour |
| `MCMtproto` | `Connection`, `Outbox` and `Keys` in one run | `focus`, and `cast`, the threads of the connection that act |
| `MCCounterBox`, `MCInbox`, `MCSecretChat` | - | streams of updates and messages; `awaited` of `MCCounterBox` remembers which buffered updates have not come yet |
| `*Proofs` | - | theorems, section 5 |

**Refinement.**  `CounterBox` implements `UpdateFeed`: both have the variables
`current`, `handled`, `lost` and `waived`, so the refinement mapping is the identity
and the properties `IsFeed` (safety) and `PaysDebts` (liveness, the feed's
`DebtsArePaid`) are `UpdateFeed`'s own formulas.  `SecretChat` implements `SecureLine` twice, once
for each direction (`ToPartner`, `ToOrigin`): what the originator said is
mapped to `said[Origin]`, and what the partner heard to what the chat object
heard that the server took (`accepted`), nothing before that.

**Composition.**  `InboxHeap` composes with `Inbox` by a conjunct on `Next`
and by the turns of its loops, which come between two steps of the `Inbox`.
`Connection` takes from `TcpState` that its gate works; `Inbox` and `Outbox`
take from `Connection` that a lost connection is replaced and that the
goroutines of the old one have ended (`routineswg`) before new ones start;
`Albums` takes from `TaskPool` that a callback is taken some time or refused;
`Senders` takes from `Connection` that a connection can be made and
terminated.  A fetch in `Download` is what `PartFetch` shows: it brings the
whole part or an error; a request in `PartFetch`, `DcPools` and `Upload` ends,
which `Pacer` and `RequestEnds` of `Connection` show.  The components of
`MCParts`, those of `MCMtproto` and those of `MCTransfers` have no variable in
common: each of the three modules is their disjoint union, in which a
behaviour keeps all but one of them as they are, so that what its run shows of
a component is what a run of this component alone would show.

What every module abstracts: the contents of messages, wording, logging, and
the bytes on the wire.  The transport is an ordered link that may break at any
time; a write to a link that is dead but not noticed succeeds.

Some choices that a reader of the code may ask about:

* `CloseChan` and `TcpState` number channels as `make` creates them, since the
  identity of the channel is what a lost wake-up is about.
* In `Connection`, pings, acknowledgements and HTTP waits appear as one action,
  a background write that fails (`BackgroundWrite`): what they do when they
  succeed has no effect on the connection.
* In `CounterBox` the caches that recognise messages by identity
  (`processedMsgLRU`) do not forget.  The code's hold some 200 000 entries.
* An update is *dispatched* in `CounterBox` when `dispatchUpdate` was called for
  it.  Its identity is remembered first (updates.go:3235), then
  `submitUpdateTask` queues the callback (`handled`) or, stopped or full
  (updates.go:4551, 4664), turns it away (`lost`).  A lost one stays lost: its
  copies are dropped as known.  The box promises no more (updates.go:3033 says
  that saturated queues discard callbacks), and what becomes of a queued
  callback is `TaskPool`'s matter: a `Terminate` discards it.
* A stop of the pools that discards is `Client.Terminate`
  (`shutdownBackground(true)`, action `HaltPool`).  `Disconnect`, `Stop`,
  `Idle` and a failed `Connect` pass false and let the queue run: `Quiesce`.
* `Inbox` has one batch of acknowledgements: `maxMsgsAckPerBatch` (8192) is
  more than `pendingAcks` can hold (4096).
* `SwitchDc` begins a new session with empty inbox; `Inbox` is one session.
* In `Outbox` the server's clock stands still and the local one is `skew`
  away from it, changing in steps: only their difference matters to the code.
* In `Keys` a bind that finds no pending key goes out under the key of the
  day: `Serialize` (messages.go:40) falls back to `GetAuthKey` for a nil key.
* In `SecretChat` an update can be delivered again or before those it follows
  (`Replay`), which the boxes of `CounterBox` make rare, not impossible: the
  handler runs in a pool of its own and is not undone when the box is.  A
  secret update that this pool refuses after its box has moved on is outside
  the model, so `Arrives` speaks of updates that reach the handler.  A key whose
  fingerprint does not match is left out too.
* In `Download` a file has one size and one division into parts; a sidecar of
  another size, which `loadResumeState` refuses, is that of another file.  A
  write to the disk that fails may spoil its part; a crash keeps any of the
  writes since the last sync.  The sidecar is replaced as a whole or not at all,
  and for good (`AtomicWriteFile` syncs and renames; it does not sync the
  directory, utils.go:514-534, so on some file systems a crash of the machine
  can bring the sidecar before back, which the model does not have).
* In `DcPools` a pool that is made is filled: what `Senders` shows of the
  filling is not repeated.  The pools of a CDN are made by the same code under
  negative keys.
* In `Connection` the client has no `ConnectionHandler` of its own
  (mtproto.go:701).  One that returns an error is `DialFails`; one that returns
  nil makes `CreateConnection` go on without a transport and is left out.
* In `CacheFile` a peer is *owed* to the file once its call has asked for a
  write and returned.  Three ways of being stored or dropped make no debt, as
  in the code: `ChatForbidden`, `ChannelForbidden` and `CommunityForbidden` are
  stored without `totalUpdates++` (cache.go:1108-1133, 1160-1176), so no write
  is requested; `enforceSizeLimit` evicts and `Clear` empties; and a write that
  finds the cache disabled or in memory mode is skipped and clears
  `writePending` (cache.go:471-478, 524-532).  The last withdraws every request
  made so far, also that of a call which has set the flag and not yet returned:
  if memory mode is then left again and `Close` comes before the timer, that
  peer is not written.
* In `CacheFile` a callback of a timer that was stopped too late still runs
  and sets `writeTimer` to nil, also when it points to a newer timer
  (cache.go:517): that timer is a stray, which fires but can no longer be
  stopped.

## 3. Runs

| run | question | bounds, and why they suffice |
|---|---|---|
| `parts`: pool | limit, order, no stranded callback, no lost wake-up, silence after `Terminate` | 4 callbacks, 2 that wait; limits and capacities 1 and 2, so that the pool is full with one callback over; 1 `Terminate`, restarts unlimited |
| `parts`: gate | can the gate panic, forget a waiter or get out of step with its channel? | 2 waiters, 4 channels: waiters interact only through the gate; a wake-up is lost by two flaps, which need three channels |
| `parts`: cache | is every peer for which a write was asked saved, and nothing written after `Close`? | two casts.  2 updates, so that one comes while a snapshot of the other is written, with a `Close`; and 1 update with 2 `WriteFile`s, so that one follows a recent write, and a `Close`; 1 failed write.  In both, peers that ask for nothing, evictions, `Clear`, and writing turned off and on at any moment |
| `parts`: albums | one collector, no message left in a box | 3 messages in 1, 2 or 3 groups, boxes of 2 messages, 2 boxes, 1 `Terminate`, restarts unlimited: an old and a new collector meet |
| `parts`: transfers, edit | is the cache bounded, the gate handed on, every connection terminated after a stop? | 2 transfers of 2 connections, one of them by the media address first, or a transfer and an edit; 3 connections in all, 1 `Close` |
| `mtproto`: connection | one reader, an open gate is served, no request stranded, off stays off | no auth key at first, so that a connection's set-up can fail after its gate is open; seven casts, among them two requests, one of which may give up, with the background reconnect; a request with `SwitchDc`; and two of a request, a `Reconnect` (which may give up), a `Disconnect` and a `Terminate` with the background reconnect; the proofs cover all of them together.  2 tries per request, 4 connections, 1 fault; one timeout counts |
| `mtproto`: outbox | nothing executed twice, nothing out of step, each refusal has its cause | 2 requests of 3 attempts; a clock that is right, a little off (inside the window) and far ahead; 2 clock steps, salts, new sessions or losses |
| `mtproto`: keys | is the key in use bound, and each salt its key's own? | 2 permanent and 2 temporary keys, 2 imports or migrations: one during the creation and one during the binding |
| `transfers`: connection | are losses noticed, do requests end? | one request without deadline, no key yet, so a set-up may fail after its dial; 2 faults (one during the repair of the other), 5 connections, enough for all that these can cause |
| `transfers`: upload | is an upload that succeeds whole, does each end? | 4 parts, 2 workers, room for 1 in the channel: with both workers gone one part is in the channel and the dispatcher waits with the next, which nothing but the drain or the cancelled context ends; 2 attempts |
| `transfers`: download | does a bit on disk have its data, is a success whole, does each call end? | 2 calls, so that the second resumes what the first left after an error, a cancellation or a crash; 2 parts, 2 workers, room for 1 |
| `transfers`: part | is a part put together without holes, by requests the server takes? | limits of 1, 2, 4 and 8 units, files that end at any unit, so that the last request is short, empty or exact; 3 attempts |
| `transfers`: centres | one pool for each centre, all closed in the end, nobody waits for ever | 2 goroutines, 2 other centres, a file that moves once more, 2 attempts: one waits for a pool whose maker fails |
| `transfers`: pacer | is the room right, does everybody get to ask? | 3 requests at once, 4 in all, a window from 1 to 3: one request waits for room while requests of the last epoch end |
| `counter_box` | no update dispatched twice, none skipped, refinement of `UpdateFeed`, gaps close, debts are paid | a message, one that counts two, one that counts none at the same position, in every order of arrival; 1 request that fails or callback that a full queue turns away, any number turned away by a shutdown, 1 shutdown and restart, between any two steps; 1 recovery job at a time, since the proofs cover two and more |
| `inbox` | nothing handled twice or acknowledged and lost, acks and messages get through, the heap is right | 3 updates, a container of all three, a state request and a hint; window of 3 of 6 ids, so that it forgets and the heap repairs itself with one and with two children; 1 ack and 1 report of room, so that both fill up; any number of breaks and resends |
| `secret_chat` | refinement of `SecureLine` both ways, one sender, what the server took is heard | 2 senders on one side and 1 on the other, 2 calls of `AcceptSecretChat`, 1 failing request and 1 update out of turn |
| `connection_switch_undoes`, `connection_orphan`, `counter_box_order`, `counter_box_full`, `outbox_stuck`, `download_stale` | findings 1 to 6 | the last: 3 downloads of one file, one to leave a sidecar, one to leave it alone and crash, one to trust it |

The runs check deadlock except where the system may come to rest: all
requests done, the client stopped, the whole stream handled.

`mtproto` constrains the connection to `Casts`; each cast is complete for the
threads it has.  In `transfers` a behaviour exercises one component, and the
others are at rest: an upload that has returned, a part that was never asked
for (`AtRest`).  In `parts` the groups of albums, which are alike, are divided
among the messages in one way of each kind (`CanonicalGroups`).

Several steps are bounded by a constant in a guard: `MaxChan`, `MaxGen`,
`MaxFaults`, `MaxAttempts` (the code's `maxRequestAttempts`), `MaxStops`,
`Slots`, `MaxBreaks`, `MaxEnds`, `MaxSenders`, `MaxCloses`, `MaxEvents`,
`MaxImports`, `MaxSay`, `MaxReplays`, `MaxDownloads`, `MaxLeft`, `MaxMoves`,
`MaxPools`, `MaxAsks`.  Those of the code itself are constants
too, smaller in the runs: `TimeoutLimit` (5), `MaxPerKey` (64), `MaxPending`
(1024), `Limits`, `Capacities`, `Window` of `Inbox` (1024), `AckLimit` (4096),
`ReportLimit` (32), `BoxLimit` (1024), `PieceLimit` (10), `Conns`, `Attempts`,
`Window` of `Outbox` (300 and 30 seconds), `UploadTries` and `FetchTries` (20),
`GetTries` (20), `UploadRoom` and `WorkRoom` (twice the workers), `MaxWindow`
(12 to 128).

### Properties that join several facts

`SomebodyCares` says of a connection that an open gate has a transport
(`ActiveHasTransport`), that it is read or the reader's end is about to be
noticed (`ActiveIsRead`, with the exception that section 5 explains), and that a
half-open one has somebody who will finish
or undo it (`HalfOpenIsOwned`).  `BoxSafe` joins `HandledOnce`,
`NothingSkipped`, `OneFetch` and `RecoveryIsOwned`; `PoolSafe` joins
`WithinLimit`, `InOrder` and `NobodyStranded`, which is `Covered` and
`WaitsForCause`; `CacheKeepsWord` joins `CloseIsFinal` and `PeersAreSaved`;
`SendersSettle` joins `StopReachesAll` and `GateIsPassed`; `SentForCause` joins
`ExecutedOnce` and `OutOfStepByCorrection`; `TransfersWhole` joins
`UploadWhole`, `DownloadWhole` and `FetchWhole`; `SharedIsKept` joins
`DownloadQuiet`, `OnePoolEach` and `RoomIsReturned`; `MovesOn` joins `QueuedLeaves` and
`ParkedLooks`; `GateSafe` joins `NoPanic` and `NoLostWakeup`; `BothAreServed`
joins `ServerIsTold` and `MessageArrives`; `KeysBelong` joins `TempIsBound` and
`SaltIsItsOwn`.

Four properties name the way in which the code fails them, and hold otherwise:
`StrandedOnlyByFailure` (a request waits on a connection that is gone only
after a set-up was undone, finding 2), `RefusedForCauseOrStuck` (finding 5), and
`BitsHaveData` and `DownloadWhole`, which except sidecars that a call has found
and left alone (finding 6).

### What the runs found

1. **`SwitchDc` undoes a `Disconnect`** (`connection_switch_undoes`).  A 303
   answer makes `makeRequest` call `SwitchDc`, which connects with
   `allowDisconnected = true` (mtproto.go:574).  A user's `Disconnect` that
   completes in between is undone.  The comment at mtproto.go:742 reserves
   `true` for explicit calls.
2. **A connection that is undone leaves requests waiting**
   (`connection_orphan`).  The clean-up of a `CreateConnection` that fails
   after the gate was open (mtproto.go:784) does not wake the requests that
   got in.  They wait until their deadline.
3. **Updates out of order** (`counter_box_order`).  `process` and
   `flushLocked` unlock the box to apply an update after `current` has moved
   (updates.go:773).  A recovery can apply the next update first, although
   updates.go:553 promises ordering.
4. **A full buffer forgets** (`counter_box_full`).  `process` clears a full
   buffer and relies on recovery (updates.go:617); if what is left closes its
   own gap the recovery finds nothing pending and asks for nothing.
5. **An id that is too high stays** (`outbox_stuck`).  The generator forgets
   its last id only when the offset changes (utils.go:295).  If the local clock
   ran ahead and is put right before the refusal is read, the offset learned is
   the one in use; the ids go on from the one that was too high, and every
   request is refused until real time has caught up.
6. **A download trusts an old resume state** (`download_stale`).  A call that
   does not take over the sidecar on disk, because it does not resume or
   because the destination is gone, does not remove it, and gives the new
   destination its full size (media.go:1190-1216, 1424).  If the process ends
   before a new sidecar is written, the next call with `Resume` takes the old
   one for the state of this file and returns success for one with holes.

## 4. Fairness

* Goroutines that can run do run: weak fairness for each of a thread's steps.
  Nobody is obliged to call, connect, stop or restart anything; faults,
  contexts that end and arrivals from the server are never fair, except as
  follows.
* `lifecycleMu` is a channel (`contextMutex`), whose senders Go serves in
  order: strong fairness for taking it.
* A server that keeps its connection answers a request: strong fairness for
  `ReaderAnswers` in `Connection`.
* Requests for a difference end, they have a timeout; callbacks return; the
  monitor's ticker runs while the client is up.
* `Inbox`: the server sends a content-related message again until it has heard
  of it, and other messages finitely often; from some time on a connection
  holds.  Without the last nothing need ever arrive.  Refused messages may
  make the reader ask for a reconnect, and this also ends with that time: a
  server that sends a message the client cannot decode for ever would break
  every connection, which the code does nothing against (mtproto.go:2039,
  1520).
* `SecretChat`: goroutines that have begun go on, requests end, and the gaps in
  the log of updates are fetched, which is what `counter_box` shows.  It is
  enough that they do not all stand still for ever, since none of them can keep
  itself busy.
* `CacheFile`: timers fire, and who holds `writeMu` goes on.  Nobody has to
  write, close, update, or turn writing off or on.
* `Albums`: deadlines pass, a collector goes on, a `Terminate` that has begun
  ends.
* `Senders`: a connection attempt ends, by its timeout if not otherwise.  The
  channel `createGate` hands its room to waiting senders in the order they
  came: strong fairness for `PassGate`.  Nobody has to end a transfer.
* `Upload`, `PartFetch`, `DcPools`, `Pacer`: goroutines go on and requests end,
  each by its timeout; the moments a pacer waits for come.  Nobody's context
  has to end.  `ReadAt` returns, one way or the other, and only while the
  dispatcher reads: one that waits for room on `partCh` can count on nothing but
  a worker that takes a part or the cancelled context.
* `Download`: the same, and strong fairness for what needs `resumeState.mu`,
  since a Go mutex hands itself to whoever has waited long (`DispatchPart`,
  `Mark`), and for the flusher's last flush, since a select that finds both its
  ticker and `stop` ready chooses at random.
* `Outbox` and `Keys` are checked for safety only and have no fairness.

## 5. Proofs

All constants are arbitrary, under the named assumptions of the modules
(`TcpStateAssumption`, `ConnectionAssumption`, `FeedAssumption`,
`CounterBoxAssumption`, `PoolAssumption`, `InboxAssumption`,
`SecretChatAssumption`, `AlbumsAssumption`, `SendersAssumption`,
`CacheFileAssumption`, `KeysAssumption`, `OutboxAssumption`,
`UploadAssumption`, `DownloadAssumption`, `PartFetchAssumption`,
`DcPoolsAssumption`, `PacerAssumption`), which say no more than that sets of
threads or keys are disjoint, sets of goroutines finite, limits positive, that
updates do not overlap, and that a limit of a request can be halved until it is
one unit.

* **PartsProofs.**  Gate: `GateInv` (types, flags match the channel, only the
  last channel is open) is inductive and gives `GateIsSafe`.  Albums: a
  collector of the channel of now means that `albumRunning` is set or that the
  channel is closed, and only a restart, which makes a new channel, clears the
  flag (`Watched`): `OneCollectorAlways`.  Extra connections: only who holds
  `createGate` makes connections for transfers, and a fill goroutine makes as
  many as it found missing while the others only take some away; so what is in
  the cache never exceeds what the holder found or made and what edits added
  (`FillCounted`).  Cache file: who has `writeMu` is at a step that needs it; a
  peer that is owed is in the file or announced by a flag, which a write clears
  only for what its snapshot holds (`Announced`, `SnapshotGood`) and a skipped
  write with the debt itself, and a `Close` that reports no error has seen the
  file hold what was due (`DueKept`):
  `CloseIsFinalAlways`.  `PartsCompose` shows that what `MCParts` runs side by
  side are these specifications, so `PartsTypes` and all the rest hold of it.
* **ConnectionProofs.**  `SafeInv` says that whoever is inside a
  `CreateConnection` or the second half of a `Disconnect` holds
  `lifecycleMu`, that the gate is shut while the transport changes, and that
  transport and reader belong to the last attempt.  Each step is either
  outside, and then disturbs none of this, or under the lock.  From it follow
  `OneReaderAlways` and `GateMeansTransport`, and with `StickInv` (after a
  `Disconnect` nobody is building, and nobody will) `DisconnectStaysOff`,
  under the assumption that nobody switches the data centre: finding 1 shows
  that it is needed.  `CareInv` adds the types and who has to leave each state
  that is half way: whoever owns `inProgress` is at work (`OwnInv`); with a flag
  set, a transport exists only while a `Disconnect` or `Terminate` is still
  inside (`FlagInv`); a cancelled context of the current attempt belongs to one
  of these, to the clean-up of the attempt or to a caller whose context has
  ended (`CancelledOwned`); a reader that ended unseen, or is about to leave it
  to the owner of `inProgress`, has somebody who closes the gate
  (`LossOwned`); a request waits only on the transport of now or on one that
  the clean-up of an attempt closed, since everybody else who drops a transport
  wakes the requests on it first (`WaitInv`).  From it follow `TypeCorrect`,
  `SomebodyCaresAlways` and `StrandedAlways`.

  The proof found what the run had missed, in which no `Reconnect` was
  impatient: a reader that meets an error other than a lost connection leaves
  the reconnect to the one under way (the compare-and-swap of
  `requestReconnect`).  When that is an explicit `Reconnect(ctx)` that waits
  for `lifecycleMu` and `ctx` ends, nobody takes the work up: the gate stays
  open, and the connection has no reader.  `ActiveIsRead` names this
  (`Deserted`), and the run now has an impatient `Reconnect`.
* **CounterBoxProofs.**  `HandledOnce` needs that an update which only the
  position tells from its copy is behind `current` as soon as a thread has
  taken it (`OnceInv`).  `NothingSkipped` needs that a recovery that hands out
  its answer has settled all between where it asked from and its goal except
  what is left in its hands (`JobInv`).  Together they are inductive and give
  the two, and `FeedImplemented`: every step of the box is a step of
  `UpdateFeed` or leaves its variables alone.  `OwnedAlways` and
  `OneFetchAlways` have invariants of their own and also cover what TLC does
  not reach: two recoveries together with a restart.  `BoxSafeAlways` joins the
  four.
* **TaskPoolProofs.**  `PoolInv`: the counters count the goroutines, the queue
  lists the queued, a closed pool is empty, stop channels are numbered by the
  stops.  The window in which a goroutine leaves is what makes `Covered` and
  `LimitKept` go together.  `QuietKept` is an action property from the same
  invariant.
* **InboxProofs.**  What a bounded window can know (`Known`): every id in it
  was handled, and one that was handled and is not in it is older than all of
  a full window.  Nothing in the proofs needs a large window or a conforming
  server.  `ToldIsHandledAlways` names the two ways in which the code
  acknowledges a message it never handles: one that a whole window of newer
  ones has outrun, and one that a `msg_detailed_info` names.
  The heap: while a loop repairs it one place may be out of order, and what is
  below that place is in order with what is above it (`Repairable`); when the
  loop has ended the first id is the least, since a least place that held a
  lesser one would have a parent that does.  So `HeapIsWindowAlways` holds for a
  window of every size, where the run's window of three needs one exchange.
  The least place exists by the library's `WFMin` (`LeastElement`), which
  stands in for the induction that the provers cannot instantiate.
* **SecretChatProofs.**  `IInv` has four groups: what the managers list and
  which stage a chat is in; the lock, whose users are exactly the threads that
  have it, so that an entry that is removed has no waiter left (`OneSender`);
  the numbers, by which a draft and a message in the log carry the number that
  was said and an acknowledgement not above what was heard; and the lines: the
  log of each side holds, for each key, messages of one chat with growing
  numbers, and what a side has heard is 1, 2, ..., n of the chat with its key.
  `LineRefinement` follows: a step either hears the next number, says one, or
  leaves both alone.  The number of users of a lock is a cardinality, for which
  the library's theorems on finite sets are used.
* **MtprotoProofs.**  *Keys.*  A temporary key is in use only if the server's
  table has it with the permanent key of now.  That the commit keeps this needs
  a promise about what the manager holds (`Promise`): from `bound` on the table
  has the key with the permanent key that the manager read, and the commit
  compares both with those of now.  That `updateSalt` keeps each salt with its
  key needs that every key in use is one that the message's sender knows.
  *Outbox.*  Nothing is executed twice since a message that is under way
  belongs to a request that still waits for it and that this connection has not
  seen executed (`OnItsWay`, `Once`).  Until the offset has been corrected, ids
  and sequence numbers ascend together (`InStep`): the server has no cause for
  32 or 33.  Each refusal was owed: by a clock that is wrong, or it teaches a
  salt that is newer than the one that was used (`Salted`, `Paid`).
  *The client.*  Every step of `MCMtproto` is a step or a stutter of each of
  `Connection`, `Outbox` and `Keys`; with `CareInv` of the connection this gives
  `MtprotoTypes` and `ClientIsSafe`.
* **TransfersProofs.**  `MediaInv` joins an invariant for each of the five
  modules.  Download: a bit in the file's state, the flusher's snapshot or the
  sidecar is set only when the part is in the file, and in the sidecar only
  when it is on disk (`BitsHaveData`); when the last worker ends without a
  failure every part is counted, which is a statement about cardinalities.
  Upload: a part is sent, or waits in the channel, or is in one worker's hands,
  or an error is known.  Fetch: the offset of a request is always a multiple of
  its limit.  Centres: the pool of a centre is the one its maker announced.
  Pacer: `active` counts the requests of the epoch, and nothing else.

Only model-checked: all liveness (`WaitersReleased`, `LostIsNoticed`,
`RequestEnds`, `GapCloses`, `PaysDebts`, `MovesOn`, `BothAreServed`, `Arrives`,
`PeersAreSaved`, `PieceLeaves`, `SendersSettle`, `TransfersEnd`), since the
prover has no rules for fairness.  Every invariant and every action property of
the runs that pass is a theorem;
`DisconnectSticks` is one for clients that do not switch the data centre.

## 6. Not modelled, and the plan

Next, in this order:

1. The channel side of the updates (`FetchChannelDifference`, `pollOpenChat`,
   several boxes in one difference).
2. The rest of the transfers (`uploadSequential`, `runUnknownSize`, the choice
   of a worker in `WorkerPool.Next`, the redirect to a CDN with its hashes); the
   single flight of `fetchPeerOnce`; `Conversation`.
3. Session files with crashes (`AtomicWriteFile`, which `Download` takes as one
   step that happens or does not).

Hazards of these parts that `PROJECT.json` leaves to their sitting:
`msg_resend_req` makes a caller send again what the server may have executed
(mtproto.go:1714); in service mode another request's answer would go to the
handshake's channel (network.go:151); a session file replaced within the
resolution of its time stamp (file.go:77) and a crash around its rename
(utils.go:533); a temporary chat id that is taken (secret_chats.go:71); a
worker taken while its pool closes (media.go:105); a peer lookup joined as it
ends (cache.go:1513); two differences of one channel from the same position
(updates.go:3286).  Hazards of modelled parts that no property is about: a
salt that comes under a temporary key already forgotten is stored as the
permanent key's (network.go:339), which the next refusal corrects; a failed
Delete in `SwitchDc` leaves the client down with its old keys (mtproto.go:535); `SwitchDc` resets the session id and the sequence number
without `writeMu` (mtproto.go:545, 561); an error handler that calls
`Disconnect` from the reader waits for itself (mtproto.go:1556); `SwitchDc`'s
deferred store and `finishReconnect(false)` look at no gate (mtproto.go:529,
1313), so what a failed attempt leaves behind is excluded by `gaveUp`; a first
update that counts nothing sets `current` so that one of count two at the same
position looks like a duplicate (updates.go:568); an identity that the cache
forgets (updates.go:3235); a state request that finds the queue of answers full
is never answered (mtproto.go:1707); an answer to one may outlive `SwitchDc`
(mtproto.go:560); the renewal of temporary keys waits by the time it read
before it created the key (mtproto.go:1003).

Left out for good: encryption, TL serialisation, the transports' bytes,
formatting, logging, the API helpers, generated code and the examples.  They
compute or convert; a message is a value here, and what could be wrong in them
is found by tests rather than by interleavings.  They are also most of the
repository's lines: the generated files of `telegram/` alone are half of it.
