----------------------------- MODULE FutureRead -----------------------------
(***************************************************************************)
(* The parallel read paths futureGet and futureScanShard with the helpers *)
(* futureContextInit, futureContextAddFn and futureContextFinalize.        *)
(*                                                                         *)
(* A read takes a snapshot of n read clients and splits the request into  *)
(* subrequests, one per (client, host).  Each subrequest is an RPC whose  *)
(* callback runs on the work executor: it adds the answer to the result   *)
(* collector and, when the collector reports the first full copy, sets    *)
(* the oneComplete promise.  oneComplete starts a sleep of one RPC        *)
(* timeout; collectAny over that sleep and collectAll over the callbacks  *)
(* runs finalize exactly once.  Callbacks that run after finalize still   *)
(* write into the collector, which the shared context keeps alive.        *)
(*                                                                         *)
(* The result collectors (BeringeiGetResultCollector and                   *)
(* BeringeiScanShardResultCollector) are not in this repository; AddResult *)
(* and Finalized model them from their specification: a slot per (key,    *)
(* replica), written under the collector's lock; addResults returns TRUE  *)
(* the first time every key has data at some replica; finalize takes, per *)
(* key, the data of the first replica that has it.                        *)
(***************************************************************************)
EXTENDS Naturals, FiniteSets

CONSTANTS
    Keys,        \* keys of the request (one shard for a scan)
    NumReplicas, \* most read clients a snapshot may hold
    Hosts,       \* hosts a read client's shard cache may send a key to
    Ops,         \* reads issued: "get" (futureGet), "scan" (futureScanShard)
    ParallelFlags, \* values of FLAGS_gorilla_parallel_scan_shard
    StrictModes  \* values of throwExceptionOnTransientFailure_

ASSUME /\ Keys # {} /\ Hosts # {}
       /\ NumReplicas \in Nat
       /\ Ops \subseteq {"get", "scan"} /\ Ops # {}
       /\ ParallelFlags \subseteq BOOLEAN /\ ParallelFlags # {}
       /\ StrictModes \subseteq BOOLEAN /\ StrictModes # {}

Replicas == 1..NumReplicas
None == 0

VARIABLES
    op,          \* which read this is: "get" or "scan"
    strict,      \* throwExceptionOnTransientFailure_, fixed at construction
    nclients,    \* context.readClients.size()
    plan,        \* the subrequests: <<client index, keys>>
    cb,          \* cb[q]: "inflight" | "signal" (addResults was TRUE) | "settled"
    slots,       \* collector: slots[<<k, r>>] \in {"empty", "filled", "error"}
    flipped,     \* collector: addResults has already returned TRUE
    oneComplete, \* context.oneComplete has been set
    timerFired,  \* the sleep chained on oneComplete has completed
    status,      \* the returned future: "pending", "returned" or "thrown"
    answer       \* answer[k]: the replica whose data finalize returned, or None

vars == <<op, strict, nclients, plan, cb, slots, flipped, oneComplete,
          timerFired, status, answer>>

Subrequests == (1..NumReplicas) \X (SUBSET Keys \ {{}})

\* The read clients futureContextInit keeps: all of them for a parallel read.
ClientCount(n, parallel) == IF ~parallel /\ n > 0 THEN 1 ELSE n

\* futureGet: addKeyToGetRequest groups the keys by the host client r's
\* shard cache maps them to (host[k]); one performGet per non-empty group.
GetPlans(n) ==
    { UNION { { <<r, {k \in Keys : host[r][k] = x}>> : x \in Hosts } : r \in 1..n }
        \ { <<r, {}>> : r \in 1..n }
      : host \in [1..n -> [Keys -> Hosts]] }

\* futureScanShard: one performScanShard per client getHostForScanShard
\* found a host for.
ScanPlans(n) == { { <<r, Keys>> : r \in C } : C \in SUBSET (1..n) }

Plans(n) == IF op = "get" THEN GetPlans(n) ELSE ScanPlans(n)

\* The keys of q an answer can carry data for: any of them for a
\* GetDataResult, all or none for the one ScanShardResult of a shard.
Results(q) == IF op = "get" THEN SUBSET q[2] ELSE {{}, q[2]}

Avail(sl) == [k \in Keys |-> {r \in Replicas : sl[<<k, r>>] = "filled"}]

HasFullCopy(sl) == \A k \in Keys : Avail(sl)[k] # {}

\* collector.finalize(shouldThrow, clientNames): per key the first replica
\* with data; with shouldThrow a key without data throws.
Finalized(sl) ==
    LET av == Avail(sl) IN
    IF strict /\ ~HasFullCopy(sl)
    THEN status' = "thrown" /\ UNCHANGED answer
    ELSE /\ status' = "returned"
         /\ answer' = [k \in Keys |-> IF av[k] = {} THEN None
                       ELSE CHOOSE r \in av[k] : \A q \in av[k] : r <= q]

\* collector.addResults(result, indices, clientId) under the collector lock:
\* the keys in F came back with data, the other keys of q without.
AddResult(q, F) ==
    [s \in Keys \X Replicas |->
        IF s[2] = q[1] /\ s[1] \in q[2]
        THEN IF s[1] \in F THEN "filled" ELSE "error"
        ELSE slots[s]]

AllSettled == \A q \in plan : cb[q] = "settled"

Init ==
    /\ op \in Ops
    /\ strict \in StrictModes
    /\ \E n \in 0..NumReplicas,
          parallel \in IF op = "get" THEN {TRUE} ELSE ParallelFlags :
        /\ nclients = ClientCount(n, parallel)
        /\ plan \in Plans(nclients)
        /\ cb = [q \in plan |-> "inflight"]
        /\ slots = [s \in Keys \X Replicas |-> "empty"]
        /\ flipped = FALSE
        /\ oneComplete = FALSE
        /\ timerFired = FALSE
        /\ status = "pending"
        /\ answer = [k \in Keys |-> None]

\* futureContextAddFn: the future is chained via the work executor to the
\* callback, and a failed future (or an exception the callback throws)
\* reaches onError, which only logs; the subrequest settles unanswered.
OnErrorLogs(q) == cb' = [cb EXCEPT ![q] = "settled"] /\ UNCHANGED <<slots, flipped>>

\* Mutant of Deliver: the callback sets oneComplete on every answer.
DeliverSignalAlways(q) ==
    /\ cb[q] = "inflight"
    /\ \/ OnErrorLogs(q)
       \/ \E F \in Results(q) :
            /\ slots' = AddResult(q, F)
            /\ flipped' = (flipped \/ HasFullCopy(slots'))
            /\ cb' = [cb EXCEPT ![q] = "signal"]
    /\ UNCHANGED <<op, strict, nclients, plan, oneComplete, timerFired, status, answer>>

(* The RPC of subrequest q completes.  Either its future fails and the     *)
(* onError handler only logs, or its callback runs addResults, whose       *)
(* return value decides whether setValue follows.                          *)
Deliver(q) ==
    /\ cb[q] = "inflight"
    /\ \/ OnErrorLogs(q)
       \/ \E F \in Results(q) :
            LET sl == AddResult(q, F)
                flip == HasFullCopy(sl) /\ ~flipped
            IN /\ slots' = sl
               /\ flipped' = (flipped \/ flip)
               /\ cb' = [cb EXCEPT ![q] = IF flip THEN "signal" ELSE "settled"]
    /\ UNCHANGED <<op, strict, nclients, plan, oneComplete, timerFired, status, answer>>

\* getContext->oneComplete.setValue(); a second setValue throws into onError.
Signal(q) ==
    /\ cb[q] = "signal"
    /\ oneComplete' = TRUE
    /\ cb' = [cb EXCEPT ![q] = "settled"]
    /\ UNCHANGED <<op, strict, nclients, plan, slots, flipped, timerFired, status, answer>>

\* folly::futures::sleep(getTimeoutMs()) chained on oneComplete completes.
Timeout ==
    /\ oneComplete /\ ~timerFired
    /\ timerFired' = TRUE
    /\ UNCHANGED <<op, strict, nclients, plan, cb, slots, flipped, oneComplete, status, answer>>

\* Mutant of Finalize: collectAll instead of collectAny over context.either.
FinalizeBoth ==
    /\ status = "pending"
    /\ timerFired /\ AllSettled
    /\ Finalized(slots)
    /\ UNCHANGED <<op, strict, nclients, plan, cb, slots, flipped, oneComplete, timerFired>>

\* collectAny(context.either).then(fn): the first of the two futures to
\* complete runs collector.finalize, once.
Finalize ==
    /\ status = "pending"
    /\ timerFired \/ AllSettled
    /\ Finalized(slots)
    /\ UNCHANGED <<op, strict, nclients, plan, cb, slots, flipped, oneComplete, timerFired>>

Next ==
    \/ \E q \in plan : Deliver(q) \/ Signal(q)
    \/ Timeout
    \/ Finalize

(* Every RPC has the network client's deadline and the callbacks, the     *)
(* sleep and finalize run on executors that keep running.                 *)
Fairness ==
    /\ \A q \in Subrequests : WF_vars(q \in plan /\ Deliver(q))
    /\ \A q \in Subrequests : WF_vars(q \in plan /\ Signal(q))
    /\ WF_vars(Timeout)
    /\ WF_vars(Finalize)

Spec == Init /\ [][Next]_vars /\ Fairness

-----------------------------------------------------------------------------

(* Refinement: the futures, the timer and the collector together behave  *)
(* as ReadOnce.  In particular the read returns before every RPC has      *)
(* settled only with a full copy in the collector, it returns the first   *)
(* replica's data per key, late callbacks never change what it returned,  *)
(* and once a full copy exists or everything has settled it does return.  *)
Abstract == INSTANCE ReadOnce WITH
    Replicas <- Replicas,
    strict <- strict,
    outstanding <- UNION { { <<k, p[1]>> : k \in p[2] } :
                           p \in {q \in plan : cb[q] = "inflight"} },
    avail <- Avail(slots),
    status <- status,
    answer <- answer

ReadOnceSpec == Abstract!Spec

(* Liveness: every parallel read returns (or throws) to its caller, given *)
(* that every RPC completes by its deadline, also when no full copy ever  *)
(* arrives and oneComplete is never set.                                  *)
ReadCompletes == <>(status # "pending")

=============================================================================
