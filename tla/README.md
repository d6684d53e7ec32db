# TLA+ models of the Beringei client (`BeringeiClientImpl.cpp`)

This directory holds TLA+ models of the asynchronous client runtime in
`src/beringei/client/BeringeiClientImpl.cpp`. It also holds the TLC
configurations that check those models. Every action is translated from that
file. `PROJECT.json` maps each definition to the lines it models.

## 1. Inventory

### Components, their state and their operations

| Component | State in the code | Operations (lines) |
|---|---|---|
| Write fan-out | `writeClients_` (one `WriteClient` per write and shadow service) | `putDataPoints` (357-394) |
| Write queue (`RequestBatchingQueue`, not in this repository) | bounded queue of point vectors | `push`, `pop(visitor)`, `flush(n)` |
| Write worker | per thread: `requests`, `droppedDataPoints`, `keepWriting` | `writeDataPointsForever` (697-774), `putWithStats` (855-867) |
| Retry queue and retry worker | `retryQueue_` (folly MPMC queue, `max(10000/100,10)` slots), `numRetryQueuedDataPoints_` | write in the worker (741-759), `retryThread` (795-843), `logDroppedDataPoints` (845-853) |
| Thread lifecycle | `writers_`, `retryWriters_` | `startWriterThreads` (265-279), `stopWriterThreads` (281-305), `flushQueue` (307-311), destructor (246-249) |
| Sequential read | local `clientRequest`, `failedKeys`, `partialKeys`, `keyShards` | `get` (482-572), `getWithClient` (396-480) |
| Parallel read | `BeringeiFutureGetContext`: read clients, `oneComplete` promise, futures, result collector | `futureGet` (635-687), `futureContextInit/AddFn/Finalize` (591-633) |
| Result collector (not in this repository) | per key and replica: result slots | `addResults`, `finalize` |
| Scan shard | `BeringeiFutureScanShardContext` | `scanShard` (939-949), `futureScanShard` (951-995) |
| Service refresher | `readClients_` under `readClientLock_`, `currentReadServices_`, `maxNumShards_` | `updateReadServices` (780-793), `initBeringeiNetworkClients` (330-355), `getAllReadClients` (878-915), `getReadClientCopy` (917-925) |
| Initialisation | flags, queue sizes | constructor and `initialize` (135-220), `setQueueCapacity`, `setNumWriterThreads` (997-1009) |
| Network client, configuration adapter | external | oracles |

### How the components interact

- **Writes.** An application thread calls `putDataPoints`, which pushes the
  batch into every write queue. Writer threads (N per service) drain their
  queue and call the network client's `performPut`. They pass the points the
  network client dropped (locally or on the server) to the single retry
  queue, which all services share. Retry threads (4 by default) re-send each
  operation once.
- **Write shutdown.** `stopWriterThreads` appends empty-vector markers: N per
  write queue, then one per retry thread into the retry queue. It joins all
  threads. `flushQueue` is a stop followed by a restart.
- **Sequential reads.** These run in the caller's thread over a snapshot of
  `readClients_`.
- **Parallel reads.** These fan out on an executor. Their callbacks meet in
  the result collector. A race between two futures decides when the read
  finalizes.
- **Service refresh.** A scheduler thread periodically replaces
  `readClients_` under a writer lock.

### What is hard

- Writer and retry threads touch shared state: the write queues, the retry
  queue and the atomic retry counter. They read and update that state in
  separate steps (lines 746-753, 801).
- Shutdown works only through markers placed into bounded queues. One of
  those writes does not block and its result is ignored (line 298).
- Failures come from the network client in every combination, on every call:
  local drops, server drops, and per-key read statuses. The reads handle them
  with an in-service retry and a failover across services.
- Parallel reads race a timeout against late RPC results.
- The refresher swaps the client list while readers copy it. Readers of the
  service override iterate a vector while assigning to it (line 892).

### What makes each component correct

- **Write path.**
  - No accepted point is lost without a log line, and none is duplicated.
  - The retry counter matches the retry queue.
  - The retry queue respects its capacity.
  - Shutdown drains every point accepted before it and always returns.
  - The metrics count what they name.
- **Sequential read.**
  - A key answered KEY_MISSING is never asked again.
  - No key is found twice or fabricated.
  - No failed or partial key is forgotten before the last service.
  - Every service's first request carries the caller's shard ids.
  - Strict mode raises whenever a key is missing.
- **Parallel read.**
  - Early finalize happens only after one full copy exists plus the grace
    timeout.
  - Late results do not change the returned value.
  - The read always completes when every RPC settles.
- **Refresher.**
  - A read's snapshot is immutable.
  - A client stays alive while a read uses it.
  - The clients follow the adapter's list.
  - Between refreshes, `currentReadServices_`, `maxNumShards_` and
    `readClients_` come from the same refresh. A refresh that throws changes
    none of them.
- **Initialisation.**
  - `flushQueue` restarts the threads it stopped, and never divides by zero.

## 2. Plan

Modules, in order of importance. Items 1 to 5 are done.

1. **`WritePipeline`** (done). Models `putDataPoints`, the writer loop split
   at every shared access, the retry queue and its counter, the retry
   threads, `stopWriterThreads`, `flushQueue` and the destructor.
2. **`SequentialGet`** (done). Models `get` and `getWithClient` with the
   network client as an oracle.
3. **`FutureRead` and `ReadOnce`** (done). `FutureRead` models `futureGet`
   and `futureScanShard` with the finalize race and the result collector.
   `ReadOnce` is the abstract read, and `FutureRead` is checked to refine it.
4. **`ReadServices`** (done). Models `updateReadServices` racing
   `getAllReadClients` and `getReadClientCopy`, including the override loop
   that assigns while iterating.
5. **`ClientLifecycle`** (done). Models the reader/writer choice of
   `initialize` and `initializeTestClients`, the thread counts, `flushQueue`
   and the destructor.
6. **Next.**
   - A composed module, `ReadWithRefresh`, running `SequentialGet` over
     snapshots taken by `ReadServices`.
   - A discrete clock for the retry thread's too-old threshold.
   - An abstract write specification, `PointFate`: each accepted point moves
     once from pending to stored or logged. `WritePipeline` is to be checked
     to refine it.

## 3. Modules and how they correspond to the code

### `WritePipeline` (+ `MCWritePipeline`)

A data point is an integer id. A point is tracked per service as the pair
`<<service, id>>`. A batch is a set of ids. The empty set is the marker
(empty vector) of both queues.

| Variable | Code |
|---|---|
| `wqueue[s]` | the `RequestBatchingQueue` of write client `s` |
| `writer[w]` | the locals of writer thread `w`: its pc, `requests`, `droppedDataPoints`, `points.second` (count), `keepWriting` |
| `retryQueue` | `retryQueue_` |
| `retrier[r]` | the locals of retry thread `r`: its pc, `op`, and the queue position `seq` of `op` |
| `numRetry` | `numRetryQueuedDataPoints_` |
| `putMetric[s]` | `gorilla_client.put.<s>` |
| `stopper`, `markersLeft` | progress of the thread running `stopWriterThreads` |
| `accepted`, `delivered`, `logged`, `preStop` | history: points enqueued, stored by a server, dropped via `logDroppedDataPoints`, and accepted before the last stop began |
| `retryOrder` | history: how many operations were dequeued, and the position of the last one re-sent |

Actions:

- `PutDataPoints`: `putDataPoints`.
- The writer loop is split into four actions. Each action holds at most one
  access to shared state.
  - `WriterPop`: the `pop` with its visitor. It drains k batches, subject to
    the drop limit and the marker.
  - `WriterPut`: `putWithStats` (`PutWithStats`, also used by `RetrySend`), the merge of server drops, and the
    capacity test.
  - `WriterEnqueue`: `retryQueue_.write`, with its full-queue branch.
  - `WriterCount`: the counter increment.
- `RetryRead` and `RetrySend`: one `retryThread` iteration.
- `StopFlush`, `JoinWriters`, `WriteRetryMarker` (one marker write per
  step) and `JoinRetriers`: `stopWriterThreads`.
- `Restart`: `flushQueue`'s `startWriterThreads`.
- `Destroy`: the destructor.

The network client is an oracle. Any subset of a request may be dropped,
locally or by the server. The clock is abstracted in two ways:

- a retry operation may be too old at any read;
- sleeping to the deadline is the scheduler's freedom.

### `SequentialGet` (+ `MCSequentialGet`)

The model covers one `get` call:

- `FirstCall`: the first `getWithClient` on service `rep`.
- `Retry`: the cache invalidation and the retry with `failedKeys`.
- `EndOfService`: stop, throw, or move the failed and partial keys to the
  next service, with shard ids restored from `keyShards`.

`Outcome` is the `switch` of `getWithClient`. A key's answer is a status plus
whether data came with it. RPC_FAIL, ZIPPY_STORAGE_FAIL and DONT_OWN_SHARD
share one branch in the code, so they are one status, FAIL, in the model. The
shard id a service's cache puts on a key is the replica number. `Orig` (0)
is the caller's shard id.

`nclients` is `readClientCopies.size()`, chosen in `Init` from
`SnapshotSizes` (a subset of `0..NumReplicas`). An empty snapshot (`getAllReadClients` found no client)
starts the call at `"done"`, since the loop at line 497 never runs.

`strict` is `throwExceptionOnTransientFailure_`. The constructor fixes it, so
it is chosen in `Init` from `StrictModes` and never changes. One run thus
covers both modes.

### `ReadOnce`: the abstract parallel read

`ReadOnce` states what a parallel read promises. Its variables are:

- `outstanding`: the (key, replica) parts still unanswered;
- `avail`: the replicas that answered each key with data;
- `status` and `answer`: what was returned.

It has two actions:

- `Arrive`: some parts are answered, some of them with data.
- `Return`: the read returns once, when a full copy exists or nothing is
  outstanding. It returns the first replica's data per key, or throws in
  strict mode.

Its specification includes `WF(Return)`.

### `FutureRead` (+ `MCFutureRead`)

One `futureGet` or `futureScanShard` call.

| Variable | Code |
|---|---|
| `op`, `strict` | which read this is, and `throwExceptionOnTransientFailure_` (fixed in `Init`) |
| `nclients` | `context.readClients.size()` after `futureContextInit` (1 for a serial scan) |
| `plan` | the subrequests: one per client and host for `futureGet` (`addKeyToGetRequest`), one per client with a host for a scan (`getHostForScanShard`) |
| `cb[q]` | the callback of subrequest `q`: in flight, about to `setValue`, or settled |
| `slots`, `flipped` | the result collector: a slot per key and replica, and whether `addResults` has already reported a full copy |
| `oneComplete`, `timerFired` | the promise, and the sleep chained on it |
| `status`, `answer` | the returned future |

Actions:

- `Deliver(q)`: the RPC completes. Either `onError` only logs (`OnErrorLogs`, from `futureContextAddFn`), or the
  callback runs `addResults`. A scan answers all of the shard's keys or
  none of them (`Results`).
- `Signal(q)`: `oneComplete.setValue()`.
- `Timeout`: the sleep completes.
- `Finalize`: `collectAny` over the two futures runs `collector.finalize`
  once.

The collectors are not in this repository. `AddResult`, `HasFullCopy` and
`Finalized` follow the spec's description (4.H) and are marked
spec-modelled. The refinement mapping takes:

- `outstanding` from the parts of the in-flight subrequests;
- `avail` from the filled slots.

### `ReadServices` (+ `MCReadServices`)

A read client is an integer id. `clients[c]` is the service of client `c`.
A temporary override client of reader `r` is `-r`.

| Variable | Code |
|---|---|
| `adList`, `adValid`, `adChanges` | the adapter: `getReadServices()`, `isValidReadService`, and how often it changed |
| `readClients` | `readClients_` |
| `current` | `currentReadServices_` |
| `maxShards` | `maxNumShards_`; `MaxShards(l)` is `getMaxNumShards(clients)` over the per-service `NumShards` |
| `ref`, `newClients` | `updateReadServices` between building the clients and taking the write lock |
| `rpc[r]`, `ov[r]`, `buf[r]`, `live[r]`, `it[r]`, `found[r]` | reader `r` in `getAllReadClients`: its step, the override, the vector `readClientCopies`, how many of its slots are not yet destroyed, the loop position, `found` |
| `snap[r]`, `res[r]` | the copy taken under the read lock, and the vector returned |

Actions:

- `RefreshBuild`, `RefreshSkip` and `RefreshSwap`: `updateReadServices`
  before and at the lock. `RefreshBuild` writes `currentReadServices_` and
  `maxNumShards_` before the lock is taken.
- `RefreshThrows`: no valid service got a client and the fallback
  `createNetworkClient(nearest)` throws (`Throws`, lines 349-354). The
  exception leaves `updateReadServices` before any write; the scheduler logs
  it and the next interval tries again. `Init` excludes this case, because
  `initialize` would throw.
- `CopyClients`, `OverrideStep` and `OverrideEnd`: `getAllReadClients`.
- `GetReadClientCopy`: `getReadClientCopy`.
- `Release`: the caller drops its vector.
- `AdapterChange`: the directory changes.

The loop in the code is undefined behaviour: `readClientCopies = {client}`
destroys the slots after the first. `OverrideStep` models reading such a
slot by ownership:

- if another `shared_ptr` still holds the client (`Owned`), the stale
  pointer still works;
- otherwise the read is a use after free (`rpc = "freed"`).

### `ClientLifecycle` (+ `MCClientLifecycle`)

It keeps these variables:

- `writeClients_.size()`, `writers_.size()` and `retryWriters_.size()`;
- whether the read-services scheduler runs;
- the queue size.

`Initialize` and `InitializeTestClients` enumerate every argument a caller
may pass, in `Capacities` and `ThreadArgs` (-1 is `kNoWriterThreads`).
`FlushQueue` is the division, the stop and the restart. A division by zero
is the state `crashed`.

## 4. Runs

| Run | Config | Expect | What it shows |
|---|---|---|---|
| write_safety_live | `WritePipelineLive.cfg` | pass | 1 service, 2 writers, 2 retry threads, write queue of 2 slots, retry queue of 5 slots (every pending operation plus every marker), capacity 3 points, 3 points in batches of up to 2, one flushQueue. Checks `TypeOK` (including the write-queue bound), `NoSilentLoss`, `RetryCounterAccounts`, `ShutdownDrains` and `ShutdownCompletes` (281,597 states, about 1 minute). |
| write_fanout | `WriteFanout.cfg` | pass | `NoSilentLoss`, `RetryCounterAccounts` and `ShutdownDrains` with a write and a shadow service sharing a retry queue of 1 slot, so the full-retry-queue branch is taken (543,541 states). |
| write_retry_marker_lost | `WriteMarkerLost.cfg` | violation | A stop marker is lost on a full retry queue and `stopWriterThreads` hangs (line 298). |
| write_retry_over_capacity | `WriteRetryOverCapacity.cfg` | violation | Two writers pass the capacity test together (line 746). |
| write_put_metric | `WritePutMetric.cfg` | violation | `PutMetricCountsStored`: a point dropped locally by `addDataPointToRequest` is counted by `gorilla_client.put` (line 729). |
| get_sequential | `SequentialGet.cfg` | pass | 2 keys, 3 services, strict and non-strict. Snapshots of 0 to 3 clients. Checks `KeyMissingNotRetried`, `FoundOnce`, `NoKeyForgotten` and `FailoverRestoresShards` (38,085 states). |
| get_strict_gap | `SequentialGetStrictGap.cfg` | violation | Snapshots of 1 or 2 clients. In strict mode `get` returns without a requested key and without throwing. The trace has one client, whose answer for the key is MISSING_TOO_MUCH_DATA without data. `partialDataKeys` is `nullptr` on the last service, so the key is dropped (line 520). |
| future_read | `FutureRead.cfg` | pass | Covers `futureGet` and `futureScanShard`, serial and parallel, strict and not. Checks `ReadOnceSpec` (the refinement of `ReadOnce`) and `ReadCompletes` (70,322 states). |
| read_services | `ReadServices.cfg` | pass | Two readers, with and without an override, race the refresher across two adapter changes. Services have 1 and 2 shards. Checks `OverrideResolves` and `RefreshConsistent` (470,864 states). |
| read_services_uaf | `ReadServicesUseAfterFree.cfg` | violation | `NoUseAfterFree`: copy [1,2], refresh swaps to [3], slot 1 matches, and the loop calls into freed client 2 (line 892). |
| lifecycle | `ClientLifecycle.cfg` | pass | Checks `FlushKeepsThreads` for every argument combination. |
| lifecycle_flush_div0 | `ClientLifecycleFlush.cfg` | violation | `NoDivideByZero`: `flushQueue` on a reader client (line 308). |

Other configurations reproduce the disagreements that are recorded as
hazards rather than runs:

- `WriteRetryGauge.cfg` (`RetryGaugeExact`, line 753);
- `SequentialGetEmpty.cfg` (`StrictNoSilentGap` with an empty snapshot,
  line 497);
- `WriteRetryOrder.cfg` (`RetriedInOrder`, line 816);
- `ReadServicesTrack.cfg` (`RefreshTracksAdapter`, line 783).

`FutureGet.cfg`, `FutureScan.cfg` and `SequentialGetStrict.cfg` are smaller
single-mode instances of the `future_read` and `get_sequential` runs.
`WritePipeline.cfg` is `write_safety_live` with a retry queue of 1 slot and
without `ShutdownCompletes`, which that queue violates. It checks the
full-retry-queue branch with two writer threads. It is not listed because
`write_fanout` takes that branch too.

### Bounds

- **Points and batches.** Three points in batches of up to two give:
  - a drain of several batches;
  - a full write queue;
  - a retry operation of two points next to one of one point;
  - a full retry queue and a counter at capacity.

  Between them, `write_safety_live` (write queue full, flush markers past
  the capacity) and `write_fanout` (retry queue full) take every branch.
- **Threads.** Two writers on one queue and two retry threads are enough for
  every race between two of them.
- **Read model.** Three services give a middle service: the one that is
  neither first nor last. Two keys let one key be found while the other
  fails over.
- **Parallel read.** Up to three clients include an empty snapshot and a
  full copy made of two replicas. Two keys on two hosts give a client with
  two subrequests, so a client's answer can be split.
- **Refresher.** Two readers and two adapter changes allow a refresh
  between a reader's copy and its loop, and a second refresh after the
  first. Shard counts of 1 and 2 make `maxNumShards_` differ between the
  lists.

### Fairness

- Writer and retry threads are OS threads that run while they can, so each
  gets weak fairness. The same holds for the thread inside
  `stopWriterThreads` once it has started. Application calls (`put`, the
  start of a stop, restart and destroy) are not fair.
- `FutureRead` has weak fairness on every subrequest's `Deliver`. Every
  performGet or performScanShard has the network client's deadline, so each
  future completes. `Signal`, `Timeout` and `Finalize` run on executors that
  keep running, so they are weakly fair too.
- In `ReadServices`, `RefreshBuild` and `RefreshSwap` are weakly fair. The
  `FunctionScheduler` thread calls `updateReadServices` every interval.
  Readers and adapter changes are not fair. The listed `read_services` run
  checks only safety. The fairness serves `RefreshTracksAdapter` in
  `ReadServicesTrack.cfg`.
- `ClientLifecycle` has no fairness, because its properties are safety
  properties.

### Deadlock checking

The write runs set `CHECK_DEADLOCK FALSE`. An idle client, with every thread
blocked on an empty queue, is a legal resting state. The hang at line 298 is
caught as a violation of `ShutdownCompletes` instead. `SequentialGet` ends in
the explicit `Returned` stutter. Some other runs also set `CHECK_DEADLOCK
FALSE`, because their system really stops:

- a finished parallel read;
- a destroyed or crashed client.

`ReadServices` checks deadlock: its scheduler can always run
`updateReadServices` (`RefreshSkip`).

## 5. Findings

1. **Shutdown hang (code bug, line 298).** `stopWriterThreads` ignores the
   result of the non-blocking `retryQueue_.write` of each stop marker. With
   the retry queue full (100 slots by default), a marker is lost and
   `thread.join()` blocks forever.
2. **Retry capacity exceeded (code bug, line 746).** The capacity check is
   check-then-act across writer threads.
3. **Strict mode gap (spec/code divergence, line 520).** Strict mode does
   not cover MISSING_TOO_MUCH_DATA on the last service. Strict mode also
   does not cover an empty read-client snapshot (line 497), where `get`
   returns an empty result. That case is recorded as a hazard and
   reproduced by `SequentialGetEmpty.cfg`.
4. **Use after free in the override loop (code bug, line 892).**
   - `readClientCopies = {client}` inside the range-for destroys the slots
     the loop still visits.
   - If `updateReadServices` swapped `readClients_` after the copy, nothing
     else owns those clients.
   - `isCorrespondingService` then runs on freed memory.
5. **Division by zero in `flushQueue` (code bug, line 308).** `flushQueue`
   divides by `writeClients_.size()` without the zero check that
   `stopWriterThreads` has. This fails on any reader client.
6. **The put metric counts dropped points (code bug, line 729).**
   `writeDataPointsForever` passes `points.second` to `putWithStats`. That
   count includes the points `addDataPointToRequest` dropped locally. The
   metric therefore counts them as stored, and counts them again when the
   retry thread stores them.

Disagreements recorded as hazards (see the configurations above):

- the retry gauge lags the queue (line 753);
- several retry threads re-send out of queue order (line 816);
- the refresher never re-evaluates validity while the list is unchanged
  (line 783);
- strict mode returns an empty result for an empty snapshot (line 497).

The spec's open question on partial keys (line 538) is answered by
`NoKeyForgotten`: the first call's partial keys stay in `partialKeys` across
the in-service retry, so none is lost.

## 6. Not modelled, and why

- **`initialize` when the first refresh throws (line 163).** The comment
  says "If readServices fails, just assume there are no gorilla services".
  No `try` follows it, so an exception from the adapter or from
  `createNetworkClient(nearest)` leaves `initialize` before the scheduler
  starts. This is a single sequential step, recorded as a hazard. The
  `ReadServices` model starts after a first refresh that returned.

- **The network client and the configuration adapter.** These are external;
  they appear only as nondeterministic answers.
- **The result collectors' data merging.** Only which replica has data for
  each key is kept.
- **Bucket decoding and `get` into `GorillaResultVector`.** This is data
  conversion.
- **Metric export**, except the counters that properties are about.
- **Delegating calls:** `getLastUpdateTimes`, `stopRequests`, the
  synchronous `scanShard` overloads, `getNumShardsFromWriteClient` and the
  `getMaxNumShards()` accessor. Each one passes the client that
  `getReadClientCopy` returns (`GetReadClientCopy`) to the network client,
  or it reads a field. They add no state and no ordering of their own.
- **Short server replies.** If a reply has fewer results than keys
  (line 423), the keys without a result are dropped without a retry. The
  code's comment says this should not happen.
- **`BUCKET_NOT_FINALIZED`.** It is a `CHECK(false)`, outside the server
  contract.
