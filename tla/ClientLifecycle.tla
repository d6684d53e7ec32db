--------------------------- MODULE ClientLifecycle ---------------------------
(***************************************************************************)
(* The configuration arithmetic and the thread bookkeeping of the client: *)
(* initialize / initializeTestClients with setQueueCapacity and           *)
(* setNumWriterThreads, how many writer and retry threads                 *)
(* startWriterThreads starts and stopWriterThreads joins, flushQueue, and *)
(* the destructor.  What the threads do is WritePipeline's; here only     *)
(* writers_.size(), retryWriters_.size(), writeClients_.size() and        *)
(* whether the read-services scheduler runs are kept.                     *)
(***************************************************************************)
EXTENDS Integers

CONSTANTS
    FlagWriterThreads,   \* FLAGS_gorilla_client_writer_threads
    FlagQueueCapacity,   \* FLAGS_gorilla_queue_capacity
    FlagRetryThreads,    \* FLAGS_gorilla_write_retry_threads
    SizeRatio,           \* FLAGS_gorilla_queue_capacity_size_ratio
    Capacities,          \* queueCapacity arguments callers pass
    ThreadArgs,          \* writerThreads arguments callers pass
    MaxServices,         \* most write (and most shadow) services the adapter lists
    MaxFlushes           \* bound on flushQueue calls

ASSUME /\ FlagWriterThreads \in Nat /\ FlagQueueCapacity \in Nat
       /\ FlagRetryThreads \in Nat /\ SizeRatio \in Nat \ {0}
       /\ Capacities \subseteq Nat /\ ThreadArgs \subseteq Int
       /\ MaxServices \in Nat /\ MaxFlushes \in Nat

kNoWriterThreads == -1
kNoReadServicesUpdates == -1
kMinQueueSize == 10

VARIABLES
    phase,        \* "constructed" | "running" | "destroyed" | "crashed"
    writeClients, \* writeClients_.size()
    writers,      \* writers_.size()
    retryWriters, \* retryWriters_.size()
    scheduler,    \* readServicesUpdateScheduler_ has been started
    queueSize,    \* the queue size each WriteClient was built with
    flushes       \* flushQueue calls so far

vars == <<phase, writeClients, writers, retryWriters, scheduler, queueSize, flushes>>

MaxOf(a, b) == IF a >= b THEN a ELSE b

SetQueueCapacity(c) == IF c # 0 THEN c ELSE FlagQueueCapacity

SetNumWriterThreads(t) ==
    IF t # kNoWriterThreads THEN (IF t # 0 THEN t ELSE FlagWriterThreads) ELSE 0

QueueSizeFor(c) == MaxOf(SetQueueCapacity(c) \div SizeRatio, kMinQueueSize)

\* startWriterThreads(n) with `clients` write clients: the threads it adds.
StartedWriters(n, clients) == IF n > 0 THEN n * clients ELSE 0
StartedRetriers(n) == IF n > 0 THEN FlagRetryThreads ELSE 0

Init ==
    /\ phase = "constructed"
    /\ writeClients = 0 /\ writers = 0 /\ retryWriters = 0
    /\ scheduler = FALSE /\ queueSize = 0 /\ flushes = 0

(* initialize(queueCapacity, writerThreads, interval): a reader when the  *)
(* thread count comes out 0 (one updateReadServices, then the scheduler   *)
(* unless updates are off), else a writer with a WriteClient per write    *)
(* and per shadow service; then startWriterThreads.                       *)
Initialize ==
    /\ phase = "constructed"
    /\ \E c \in Capacities, t \in ThreadArgs, interval \in {kNoReadServicesUpdates, 15},
          w \in 0..MaxServices, s \in 0..MaxServices :
         LET n == SetNumWriterThreads(t)
             clients == IF n = 0 THEN 0 ELSE w + s
         IN /\ writeClients' = clients
            /\ scheduler' = (n = 0 /\ interval # kNoReadServicesUpdates)
            /\ queueSize' = QueueSizeFor(c)
            /\ writers' = StartedWriters(n, clients)
            /\ retryWriters' = StartedRetriers(n)
    /\ phase' = "running"
    /\ UNCHANGED flushes

(* initializeTestClients(queueCapacity, readers, writers): one WriteClient *)
(* per given writer, writerThreads = writers.size() (kNoWriterThreads when *)
(* there are none).                                                        *)
InitializeTestClients ==
    /\ phase = "constructed"
    /\ \E c \in Capacities, k \in 0..MaxServices :
         LET n == SetNumWriterThreads(IF k = 0 THEN kNoWriterThreads ELSE k)
         IN /\ writeClients' = k
            /\ queueSize' = QueueSizeFor(c)
            /\ writers' = StartedWriters(n, k)
            /\ retryWriters' = StartedRetriers(n)
    /\ phase' = "running"
    /\ UNCHANGED <<scheduler, flushes>>

\* Mutant of FlushQueue: the per-client count is taken after the stop.
FlushQueueAfterStop ==
    /\ phase = "running" /\ flushes < MaxFlushes
    /\ flushes' = flushes + 1
    /\ IF writeClients = 0
       THEN phase' = "crashed" /\ UNCHANGED <<writers, retryWriters>>
       ELSE LET n == 0 \div writeClients
            IN /\ writers' = StartedWriters(n, writeClients)
               /\ retryWriters' = StartedRetriers(n)
               /\ UNCHANGED phase
    /\ UNCHANGED <<writeClients, scheduler, queueSize>>

(* flushQueue: writers_.size() / writeClients_.size() (an integer division *)
(* by zero, SIGFPE, when there are no write clients), stopWriterThreads,   *)
(* which joins and clears every thread, then startWriterThreads with that  *)
(* per-client count.                                                       *)
FlushQueue ==
    /\ phase = "running" /\ flushes < MaxFlushes
    /\ flushes' = flushes + 1
    /\ IF writeClients = 0
       THEN phase' = "crashed" /\ UNCHANGED <<writers, retryWriters>>
       ELSE LET n == writers \div writeClients
            IN /\ writers' = StartedWriters(n, writeClients)
               /\ retryWriters' = StartedRetriers(n)
               /\ UNCHANGED phase
    /\ UNCHANGED <<writeClients, scheduler, queueSize>>

\* ~BeringeiClientImpl: stopWriterThreads, then the scheduler's shutdown.
Destroy ==
    /\ phase \in {"constructed", "running"}
    /\ phase' = "destroyed"
    /\ writers' = 0 /\ retryWriters' = 0 /\ scheduler' = FALSE
    /\ UNCHANGED <<writeClients, queueSize, flushes>>

Next == Initialize \/ InitializeTestClients \/ FlushQueue \/ Destroy

Spec == Init /\ [][Next]_vars

-----------------------------------------------------------------------------

(* flushQueue restarts exactly the threads it stopped: as many writers    *)
(* per write client and as many retry threads as before.                  *)
FlushKeepsThreads ==
    [][flushes' # flushes /\ phase' = "running" =>
         writers' = writers /\ retryWriters' = retryWriters]_vars

(* flushQueue never divides by writeClients_.size() = 0 (stopWriterThreads *)
(* checks for it).                                                         *)
NoDivideByZero == phase # "crashed"

=============================================================================
