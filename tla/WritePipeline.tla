--------------------------- MODULE WritePipeline ---------------------------
(***************************************************************************)
(* The write path of BeringeiClientImpl (src/beringei/client/              *)
(* BeringeiClientImpl.cpp): putDataPoints fans a batch out to one bounded  *)
(* write queue per write service, writer threads drain a queue             *)
(* (writeDataPointsForever), send per-host put requests and hand the       *)
(* points dropped locally or by the server to the shared retry queue,      *)
(* retry threads re-send them once (retryThread), and stopWriterThreads /  *)
(* flushQueue shut the threads down with empty-vector markers.             *)
(*                                                                         *)
(* A data point is an integer id; a point is tracked per write service as  *)
(* the pair <<service, id>>.  The network client (addDataPointToRequest,   *)
(* performPut) is an oracle: any point may be dropped locally or by the    *)
(* server.  The clock is abstracted: a retry operation may be found too    *)
(* old whenever a retry thread reads it.                                   *)
(***************************************************************************)
EXTENDS Integers, FiniteSets, Sequences, SequencesExt, Bags

CONSTANTS
    Services,        \* the write services (write + shadow), one WriteClient each
    WriterThreads,   \* writer threads per WriteClient (numWriterThreads)
    RetryThreads,    \* retry threads (FLAGS_gorilla_write_retry_threads)
    QueueSize,       \* slots of a write queue (max(capacity / ratio, 10))
    RetryQueueSlots, \* slots of retryQueue_ (max(capacity / 100, 10))
    RetryCapacity,   \* FLAGS_gorilla_retry_queue_capacity, in data points
    MaxRetryBatch,   \* kMaxRetryBatchSize
    MaxBatch,        \* largest batch an application passes to putDataPoints
    MaxPoints,       \* bound on the data points ever submitted
    MaxFlushes       \* bound on the flushQueue calls

ASSUME /\ Services # {}
       /\ WriterThreads \in Nat \ {0}
       /\ RetryThreads \in Nat \ {0}
       /\ {QueueSize, RetryQueueSlots, RetryCapacity, MaxRetryBatch,
           MaxBatch, MaxPoints} \subseteq Nat \ {0}
       /\ MaxFlushes \in Nat

VARIABLES
    nextPoint,   \* id of the next data point an application submits
    wqueue,      \* wqueue[s]: the write queue of service s, a sequence of batches
    writer,      \* writer[w]: local state of writer thread w
    retryQueue,  \* retryQueue_: sequence of RetryOperations
    retrier,     \* retrier[r]: local state of retry thread r
    numRetry,    \* numRetryQueuedDataPoints_
    putMetric,   \* putMetric[s]: the gorilla_client.put.<s> counter
    accepted,    \* <<s, p>> pairs pushed into a write queue (enqueued)
    delivered,   \* <<s, p>> pairs the server stored
    logged,      \* <<s, p>> pairs dropped for good by logDroppedDataPoints
    stopper,     \* progress of stopWriterThreads / flushQueue
    preStop,     \* accepted pairs at the moment the last stop began
    flushes,     \* flushQueue calls so far
    markersLeft, \* retry markers stopWriterThreads has still to write
    retryOrder   \* history: operations dequeued so far, position of the last re-sent

vars == <<nextPoint, wqueue, writer, retryQueue, retrier, numRetry, putMetric,
          accepted, delivered, logged, stopper, preStop, flushes, markersLeft,
          retryOrder>>

Points  == 1..MaxPoints
Pairs   == Services \X Points
Workers == Services \X (1..WriterThreads)

\* An empty vector is the shutdown marker of both queues.
Marker == {}

\* The pairs of service s for a set of point ids.
Tag(s, P) == {<<s, p>> : p \in P}

\* A RetryOperation: the write client it came from and its data points.
RetryOps == [svc : Services, pts : SUBSET Points]

WriterStates == [pc : {"pop", "put", "enqueue", "count", "exited"},
                 req : SUBSET Points, dropped : SUBSET Points,
                 count : Nat, keep : BOOLEAN]
RetrierStates == [pc : {"read", "send", "exited"}, op : RetryOps, seq : Nat]

IdleWriter  == [pc |-> "pop", req |-> {}, dropped |-> {}, count |-> 0, keep |-> TRUE]
NoOp        == [svc |-> CHOOSE s \in Services : TRUE, pts |-> Marker]
IdleRetrier == [pc |-> "read", op |-> NoOp, seq |-> 0]

\* Where a writer thread goes after one iteration of its loop.
LoopEnd(w) == IF writer[w].keep THEN "pop" ELSE "exited"

\* putWithStats: performPut returns the points the server dropped (SD), and
\* gorilla_client.put.<s> is raised by the count it was given minus those.
PutWithStats(s, points, SD) ==
    putMetric' = [putMetric EXCEPT ![s] = @ + points - Cardinality(SD)]

\* logDroppedDataPoints: the points are lost for good (put_dropped metric).
LogDropped(s, P) == logged' = logged \cup Tag(s, P)

-----------------------------------------------------------------------------
\* Mutant of PutDataPoints: the full-queue test is off by one.
PutDataPointsOffByOne ==
    /\ stopper # "destroyed"
    /\ \E n \in 1..MaxBatch :
         /\ nextPoint + n - 1 <= MaxPoints
         /\ LET batch == nextPoint..(nextPoint + n - 1)
                pushed == {s \in Services : Len(wqueue[s]) <= QueueSize}
            IN /\ wqueue' = [s \in Services |->
                               IF s \in pushed THEN Append(wqueue[s], batch)
                                               ELSE wqueue[s]]
               /\ accepted' = accepted \cup UNION {Tag(s, batch) : s \in pushed}
               /\ nextPoint' = nextPoint + n
    /\ UNCHANGED <<writer, retryQueue, retrier, retryOrder, numRetry, putMetric, delivered,
                   logged, stopper, preStop, flushes, markersLeft>>

(* BeringeiClientImpl::putDataPoints.  A non-empty batch is pushed into    *)
(* every write queue in turn; a full queue rejects it (enqueue_dropped).   *)
(* An application may call it while a flushQueue is in progress.           *)
PutDataPoints ==
    /\ stopper # "destroyed"
    /\ \E n \in 1..MaxBatch :
         /\ nextPoint + n - 1 <= MaxPoints
         /\ LET batch == nextPoint..(nextPoint + n - 1)
                pushed == {s \in Services : Len(wqueue[s]) < QueueSize}
            IN /\ wqueue' = [s \in Services |->
                               IF s \in pushed THEN Append(wqueue[s], batch)
                                               ELSE wqueue[s]]
               /\ accepted' = accepted \cup UNION {Tag(s, batch) : s \in pushed}
               /\ nextPoint' = nextPoint + n
    /\ UNCHANGED <<writer, retryQueue, retrier, retryOrder, numRetry, putMetric, delivered,
                   logged, stopper, preStop, flushes, markersLeft>>

(* writeDataPointsForever, the queue.pop call with its visitor.  The pop   *)
(* drains k batches from the head; each point is added to a per-host       *)
(* request or, when addDataPointToRequest reports it dropped, to the       *)
(* droppedDataPoints list (D).  The visitor stops the drain when the       *)
(* network client refuses more points or MaxRetryBatch points are dropped; *)
(* a marker ends the drain and the thread (keepWriting = false).           *)
WriterPop(w) ==
    LET s == w[1] IN
    /\ writer[w].pc = "pop"
    /\ wqueue[s] # <<>>
    /\ \E k \in 1..Len(wqueue[s]), D \in SUBSET Points :
         LET items == SubSeq(wqueue[s], 1, k)
             pts   == UNION Range(items)
             keep  == items[k] # Marker
         IN /\ D \subseteq pts
            /\ \A i \in 1..(k - 1) :
                 /\ items[i] # Marker
                 /\ Cardinality(D \cap UNION Range(SubSeq(items, 1, i))) < MaxRetryBatch
            /\ wqueue' = [wqueue EXCEPT ![s] = SubSeq(@, k + 1, Len(@))]
            /\ writer' = [writer EXCEPT ![w] =
                 IF pts = {}  \* points.second == 0: continue, or end on the marker
                 THEN [IdleWriter EXCEPT !.pc = IF keep THEN "pop" ELSE "exited"]
                 ELSE [pc |-> "put", req |-> pts \ D, dropped |-> D,
                       count |-> Cardinality(pts), keep |-> keep]]
    /\ UNCHANGED <<nextPoint, retryQueue, retrier, retryOrder, numRetry, putMetric, accepted,
                   delivered, logged, stopper, preStop, flushes, markersLeft>>

\* Mutant of WriterPut: the points performPut returns as dropped are not
\* merged into droppedDataPoints (lines 730-735 missing).
WriterPutIgnoringServerDrops(w) ==
    LET s == w[1]
        me == writer[w]
    IN
    /\ me.pc = "put"
    /\ \E SD \in SUBSET me.req :
         /\ delivered' = delivered \cup Tag(s, me.req \ SD)
         /\ PutWithStats(s, me.count, SD)
         /\ \/ /\ me.dropped = {}
               /\ writer' = [writer EXCEPT ![w] = [IdleWriter EXCEPT !.pc = LoopEnd(w)]]
               /\ UNCHANGED logged
            \/ /\ me.dropped # {}
               /\ numRetry + Cardinality(me.dropped) >= RetryCapacity
               /\ LogDropped(s, me.dropped)
               /\ writer' = [writer EXCEPT ![w] = [IdleWriter EXCEPT !.pc = LoopEnd(w)]]
            \/ /\ me.dropped # {}
               /\ numRetry + Cardinality(me.dropped) < RetryCapacity
               /\ writer' = [writer EXCEPT ![w] = [me EXCEPT !.pc = "enqueue", !.req = {}]]
               /\ UNCHANGED logged
    /\ UNCHANGED <<nextPoint, wqueue, retryQueue, retrier, retryOrder, numRetry, accepted,
                   stopper, preStop, flushes, markersLeft>>

(* putWithStats(points.second) and the retry decision.  The server drops   *)
(* a subset SD of the request; the put metric counts points.second - SD,   *)
(* locally dropped points included.  The dropped points go on to the       *)
(* retry queue only if numRetryQueuedDataPoints_ leaves room.              *)
WriterPut(w) ==
    LET s == w[1]
        me == writer[w]
    IN
    /\ me.pc = "put"
    /\ \E SD \in SUBSET me.req :
         LET dropped == me.dropped \cup SD IN
         /\ delivered' = delivered \cup Tag(s, me.req \ SD)
         /\ PutWithStats(s, me.count, SD)
         /\ \/ /\ dropped = {}
               /\ writer' = [writer EXCEPT ![w] = [IdleWriter EXCEPT !.pc = LoopEnd(w)]]
               /\ UNCHANGED logged
            \/ /\ dropped # {}
               /\ numRetry + Cardinality(dropped) >= RetryCapacity
               /\ LogDropped(s, dropped)
               /\ writer' = [writer EXCEPT ![w] = [IdleWriter EXCEPT !.pc = LoopEnd(w)]]
            \/ /\ dropped # {}
               /\ numRetry + Cardinality(dropped) < RetryCapacity
               /\ writer' = [writer EXCEPT ![w] = [me EXCEPT !.pc = "enqueue",
                                                      !.req = {}, !.dropped = dropped]]
               /\ UNCHANGED logged
    /\ UNCHANGED <<nextPoint, wqueue, retryQueue, retrier, retryOrder, numRetry, accepted,
                   stopper, preStop, flushes, markersLeft>>

\* Mutant of WriterEnqueue: the write ignores the queue's capacity.
WriterEnqueueUnbounded(w) ==
    /\ writer[w].pc = "enqueue"
    /\ retryQueue' = Append(retryQueue, [svc |-> w[1], pts |-> writer[w].dropped])
    /\ writer' = [writer EXCEPT ![w].pc = "count"]
    /\ UNCHANGED <<nextPoint, wqueue, retrier, retryOrder, numRetry, putMetric, accepted,
                   delivered, logged, stopper, preStop, flushes, markersLeft>>

(* retryQueue_.write(op): non-blocking, fails when the queue is full.      *)
WriterEnqueue(w) ==
    LET s == w[1]
        me == writer[w]
    IN
    /\ me.pc = "enqueue"
    /\ \/ /\ Len(retryQueue) < RetryQueueSlots
          /\ retryQueue' = Append(retryQueue, [svc |-> s, pts |-> me.dropped])
          /\ writer' = [writer EXCEPT ![w].pc = "count"]
          /\ UNCHANGED logged
       \/ /\ Len(retryQueue) = RetryQueueSlots
          /\ LogDropped(s, me.dropped)
          /\ writer' = [writer EXCEPT ![w] = [IdleWriter EXCEPT !.pc = LoopEnd(w)]]
          /\ UNCHANGED retryQueue
    /\ UNCHANGED <<nextPoint, wqueue, retrier, retryOrder, numRetry, putMetric, accepted,
                   delivered, stopper, preStop, flushes, markersLeft>>

(* numRetryQueuedDataPoints_ += droppedCount, after the write succeeded.   *)
(* The sleep when the queue is near-empty changes no state.                *)
WriterCount(w) ==
    /\ writer[w].pc = "count"
    /\ numRetry' = numRetry + Cardinality(writer[w].dropped)
    /\ writer' = [writer EXCEPT ![w] = [IdleWriter EXCEPT !.pc = LoopEnd(w)]]
    /\ UNCHANGED <<nextPoint, wqueue, retryQueue, retrier, retryOrder, putMetric, accepted,
                   delivered, logged, stopper, preStop, flushes, markersLeft>>

-----------------------------------------------------------------------------
\* The position in dequeue order (FIFO: enqueue order) of a read operation.
Dequeued(op) ==
    IF op.pts = Marker THEN retryOrder.dequeued ELSE retryOrder.dequeued + 1

\* Mutant of RetryRead: numRetryQueuedDataPoints_ is not decremented.
RetryReadNoDecrement(r) ==
    /\ retrier[r].pc = "read"
    /\ retryQueue # <<>>
    /\ retryQueue' = Tail(retryQueue)
    /\ retrier' = [retrier EXCEPT ![r] =
                     [pc |-> IF Head(retryQueue).pts = Marker THEN "exited" ELSE "send",
                      op |-> Head(retryQueue), seq |-> Dequeued(Head(retryQueue))]]
    /\ retryOrder' = [retryOrder EXCEPT !.dequeued = Dequeued(Head(retryQueue))]
    /\ UNCHANGED <<nextPoint, wqueue, writer, numRetry, putMetric, accepted, delivered,
                   logged, stopper, preStop, flushes, markersLeft>>

(* retryThread: blockingRead an operation and subtract its size from       *)
(* numRetryQueuedDataPoints_; an empty operation ends the thread.          *)
RetryRead(r) ==
    /\ retrier[r].pc = "read"
    /\ retryQueue # <<>>
    /\ LET op == Head(retryQueue) IN
       /\ retryQueue' = Tail(retryQueue)
       /\ numRetry' = numRetry - Cardinality(op.pts)
       /\ retrier' = [retrier EXCEPT ![r] =
                        [pc |-> IF op.pts = Marker THEN "exited" ELSE "send", op |-> op,
                         seq |-> Dequeued(op)]]
       /\ retryOrder' = [retryOrder EXCEPT !.dequeued = Dequeued(op)]
    /\ UNCHANGED <<nextPoint, wqueue, writer, putMetric, accepted, delivered,
                   logged, stopper, preStop, flushes, markersLeft>>

(* retryThread, the rest of one iteration: an operation whose deadline is  *)
(* more than kRetryThresholdSecs in the past is dropped as too old;        *)
(* otherwise, after sleeping until the deadline, its points are re-sent    *)
(* once and whatever is dropped locally (L) or by the server (SD) is lost. *)
RetrySend(r) ==
    LET op == retrier[r].op IN
    /\ retrier[r].pc = "send"
    /\ \/ /\ LogDropped(op.svc, op.pts)                    \* too old
          /\ UNCHANGED <<delivered, putMetric, retryOrder>>
       \/ \E L \in SUBSET op.pts :
            \E SD \in SUBSET (op.pts \ L) :
              /\ delivered' = delivered \cup Tag(op.svc, op.pts \ (L \cup SD))
              /\ PutWithStats(op.svc, Cardinality(op.pts) - Cardinality(L), SD)
              /\ LogDropped(op.svc, L \cup SD)
              /\ retryOrder' = [retryOrder EXCEPT !.lastResent = retrier[r].seq]
    /\ retrier' = [retrier EXCEPT ![r] = IdleRetrier]
    /\ UNCHANGED <<nextPoint, wqueue, writer, retryQueue, numRetry, accepted,
                   stopper, preStop, flushes, markersLeft>>

-----------------------------------------------------------------------------
\* Mutant of StopFlush: the markers go to the head of the queues.
StopFlushAtHead ==
    /\ stopper = "running"
    /\ wqueue' = [s \in Services |-> [i \in 1..WriterThreads |-> Marker] \o wqueue[s]]
    /\ stopper' = "flushed"
    /\ preStop' = accepted
    /\ UNCHANGED <<nextPoint, writer, retryQueue, retrier, retryOrder, numRetry, putMetric,
                   accepted, delivered, logged, flushes, markersLeft>>

\* Mutant of StopFlush: one marker fewer than writer threads per queue.
StopFlushTooFew ==
    /\ stopper = "running"
    /\ wqueue' = [s \in Services |-> wqueue[s] \o [i \in 1..(WriterThreads - 1) |-> Marker]]
    /\ stopper' = "flushed"
    /\ preStop' = accepted
    /\ UNCHANGED <<nextPoint, writer, retryQueue, retrier, retryOrder, numRetry, putMetric,
                   accepted, delivered, logged, flushes, markersLeft>>

(* stopWriterThreads, as run by flushQueue or the destructor.  First       *)
(* queue.flush(writerThreadsPerClient) on every write queue.               *)
StopFlush ==
    /\ stopper = "running"
    /\ wqueue' = [s \in Services |->
                    wqueue[s] \o [i \in 1..WriterThreads |-> Marker]]
    /\ stopper' = "flushed"
    /\ preStop' = accepted
    /\ UNCHANGED <<nextPoint, writer, retryQueue, retrier, retryOrder, numRetry, putMetric,
                   accepted, delivered, logged, flushes, markersLeft>>

(* thread.join() on every writer thread.                                   *)
JoinWriters ==
    /\ stopper = "flushed"
    /\ \A w \in Workers : writer[w].pc = "exited"
    /\ stopper' = "joined"
    /\ UNCHANGED <<nextPoint, wqueue, writer, retryQueue, retrier, retryOrder, numRetry,
                   putMetric, accepted, delivered, logged, preStop, flushes, markersLeft>>

(* One retryQueue_.write of an empty RetryOperation per retry thread.  The *)
(* write does not block: on a full queue the marker is not written.        *)
(* markersLeft counts the writes still to do.                              *)
WriteRetryMarker ==
    /\ \/ stopper = "joined" /\ markersLeft' = RetryThreads - 1
       \/ stopper = "markers" /\ markersLeft > 0 /\ markersLeft' = markersLeft - 1
    /\ stopper' = "markers"
    /\ retryQueue' = IF Len(retryQueue) < RetryQueueSlots
                     THEN Append(retryQueue, NoOp)
                     ELSE retryQueue
    /\ UNCHANGED <<nextPoint, wqueue, writer, retrier, retryOrder, numRetry, putMetric,
                   accepted, delivered, logged, preStop, flushes>>

(* thread.join() on every retry thread; stopWriterThreads returns.         *)
JoinRetriers ==
    /\ stopper = "markers" /\ markersLeft = 0
    /\ \A r \in 1..RetryThreads : retrier[r].pc = "exited"
    /\ stopper' = "stopped"
    /\ UNCHANGED <<nextPoint, wqueue, writer, retryQueue, retrier, retryOrder, numRetry,
                   putMetric, accepted, delivered, logged, preStop, flushes, markersLeft>>

(* flushQueue: startWriterThreads(writerThreadsPerClient) after the stop.  *)
Restart ==
    /\ stopper = "stopped"
    /\ flushes < MaxFlushes
    /\ writer' = [w \in Workers |-> IdleWriter]
    /\ retrier' = [r \in 1..RetryThreads |-> IdleRetrier]
    /\ stopper' = "running"
    /\ flushes' = flushes + 1
    /\ UNCHANGED <<nextPoint, wqueue, retryQueue, numRetry, putMetric, accepted,
                   delivered, logged, preStop, markersLeft, retryOrder>>

(* ~BeringeiClientImpl: the stop was the destructor's; nothing runs again. *)
Destroy ==
    /\ stopper = "stopped"
    /\ stopper' = "destroyed"
    /\ UNCHANGED <<nextPoint, wqueue, writer, retryQueue, retrier, retryOrder, numRetry,
                   putMetric, accepted, delivered, logged, preStop, flushes, markersLeft>>

-----------------------------------------------------------------------------
(* initialize / initializeTestClients for a writer client: one empty       *)
(* queue per write service, all threads started (startWriterThreads).      *)
Init ==
    /\ nextPoint = 1
    /\ wqueue = [s \in Services |-> <<>>]
    /\ writer = [w \in Workers |-> IdleWriter]
    /\ retryQueue = <<>>
    /\ retrier = [r \in 1..RetryThreads |-> IdleRetrier]
    /\ numRetry = 0
    /\ putMetric = [s \in Services |-> 0]
    /\ accepted = {}
    /\ delivered = {}
    /\ logged = {}
    /\ stopper = "running"
    /\ preStop = {}
    /\ flushes = 0
    /\ markersLeft = 0
    /\ retryOrder = [dequeued |-> 0, lastResent |-> 0]

StopStep == StopFlush \/ JoinWriters \/ WriteRetryMarker \/ JoinRetriers

Next ==
    \/ PutDataPoints
    \/ \E w \in Workers : WriterPop(w) \/ WriterPut(w) \/ WriterEnqueue(w) \/ WriterCount(w)
    \/ \E r \in 1..RetryThreads : RetryRead(r) \/ RetrySend(r)
    \/ StopStep \/ Restart \/ Destroy

(* Every thread is an OS thread that keeps running while it can; the       *)
(* thread running stopWriterThreads keeps going once it has begun.         *)
Fairness ==
    /\ \A w \in Workers : WF_vars(WriterPop(w) \/ WriterPut(w) \/ WriterEnqueue(w)
                                  \/ WriterCount(w))
    /\ \A r \in 1..RetryThreads : WF_vars(RetryRead(r) \/ RetrySend(r))
    /\ WF_vars(JoinWriters \/ WriteRetryMarker \/ JoinRetriers)

Spec == Init /\ [][Next]_vars /\ Fairness

-----------------------------------------------------------------------------
TypeOK ==
    /\ nextPoint \in 1..(MaxPoints + 1)
    /\ wqueue \in [Services -> Seq(SUBSET Points)]
    /\ \A s \in Services : Len(wqueue[s]) <= QueueSize + WriterThreads  \* flush(n) markers go past the capacity
    /\ writer \in [Workers -> WriterStates]
    /\ retryQueue \in Seq(RetryOps)
    /\ Len(retryQueue) <= RetryQueueSlots
    /\ retrier \in [1..RetryThreads -> RetrierStates]
    /\ numRetry \in Int
    /\ putMetric \in [Services -> Nat]
    /\ accepted \subseteq Pairs /\ delivered \subseteq Pairs /\ logged \subseteq Pairs
    /\ retryOrder \in [dequeued : Nat, lastResent : Nat]

\* The points a writer thread holds between its pop and its retry-queue write.
WriterHolds(w) ==
    IF writer[w].pc \in {"put", "enqueue"}
    THEN Tag(w[1], writer[w].req \cup writer[w].dropped) ELSE {}

\* The points a retry thread holds between its read and its re-send.
RetrierHolds(r) ==
    IF retrier[r].pc = "send" THEN Tag(retrier[r].op.svc, retrier[r].op.pts) ELSE {}

\* Every copy of every point, wherever it is, as a bag.
Held ==
    LET AddSet(b, S) == b (+) SetToBag(S)
        InQueues == FoldLeft(LAMBDA b, s : FoldLeft(LAMBDA c, batch : AddSet(c, Tag(s, batch)),
                                                     b, wqueue[s]),
                             EmptyBag, SetToSeq(Services))
        InRetryQueue == FoldLeft(LAMBDA b, op : AddSet(b, Tag(op.svc, op.pts)),
                                 EmptyBag, retryQueue)
        InThreads == FoldSet(LAMBDA w, b : AddSet(b, WriterHolds(w)), EmptyBag, Workers)
                     (+) FoldSet(LAMBDA r, b : AddSet(b, RetrierHolds(r)), EmptyBag,
                                 1..RetryThreads)
    IN InQueues (+) InRetryQueue (+) InThreads (+) SetToBag(delivered) (+) SetToBag(logged)

(* No data point a write queue accepted is lost without a log line or      *)
(* duplicated: each accepted <<service, point>> is, exactly once, in a     *)
(* write queue, in a writer's requests or droppedDataPoints, in the retry  *)
(* queue, in a retry thread, stored by the server, or logged as dropped.   *)
(* It is about the hand-offs in writeDataPointsForever and retryThread.    *)
NoSilentLoss == Held = SetToBag(accepted)

\* Data points in the operations waiting in retryQueue_.
RetryQueuedPoints == FoldLeft(LAMBDA n, op : n + Cardinality(op.pts), 0, retryQueue)

(* numRetryQueuedDataPoints_ lags the retry queue by exactly the writers   *)
(* that have written an operation and not yet added its size, and by       *)
(* nothing else: the decrement in retryThread matches every increment of   *)
(* writeDataPointsForever, markers included.                               *)
RetryCounterAccounts ==
    numRetry + MapThenSumSet(LAMBDA w : IF writer[w].pc = "count"
                                        THEN Cardinality(writer[w].dropped) ELSE 0,
                             Workers)
    = RetryQueuedPoints

(* When stopWriterThreads returns (flushQueue or the destructor), every    *)
(* point accepted before it began has been stored or logged as dropped:    *)
(* the markers queue.flush appends reach the writers only after the        *)
(* points, and the retry markers reach the retry threads only after the    *)
(* retry operations.                                                       *)
ShutdownDrains ==
    stopper \in {"stopped", "destroyed"} => preStop \subseteq delivered \cup logged

(* stopWriterThreads, once it has flushed the write queues, returns: every *)
(* writer and every retry thread receives its marker and is joined.        *)
ShutdownCompletes == stopper = "flushed" ~> stopper = "stopped"

(* The retry_queue_size gauge, numRetryQueuedDataPoints_, equals the      *)
(* number of points waiting in retry operations at every observation       *)
(* (spec, Testable properties).                                            *)
RetryGaugeExact == numRetry = RetryQueuedPoints

(* The points waiting in retry operations stay below                      *)
(* FLAGS_gorilla_retry_queue_capacity: a writer enqueues its dropped       *)
(* points only if numRetryQueuedDataPoints_ + droppedCount is below it.    *)
RetryPointsBounded == RetryQueuedPoints < RetryCapacity

(* The gorilla_client.put.<service> metric counts the points the server    *)
(* of that service stored (putWithStats: points minus dropped).            *)
PutMetricCountsStored ==
    \A s \in Services : putMetric[s] = Cardinality({x \in delivered : x[1] = s})

(* The retry queue is FIFO with a constant delay, so retried operations   *)
(* are re-sent in the order they were queued (the spec's ordering claim,  *)
(* and the comment at the sleep in retryThread): no re-send is of an      *)
(* operation queued before the one re-sent last.                          *)
RetriedInOrder == [][retryOrder'.lastResent >= retryOrder.lastResent]_vars

=============================================================================
