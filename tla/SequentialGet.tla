--------------------------- MODULE SequentialGet ---------------------------
(***************************************************************************)
(* The synchronous read path BeringeiClientImpl::get(request, result,      *)
(* serviceOverride) and its helper getWithClient.  The read services of    *)
(* the snapshot are tried in order; on each one the keys that failed are   *)
(* retried once after invalidating the shard cache, and the keys that      *)
(* failed again or came back in progress / missing too much data move on  *)
(* to the next service with their original shard ids restored.            *)
(*                                                                         *)
(* The network client is an oracle: each call answers every requested key  *)
(* with a status and says whether partial data came with it, and           *)
(* addKeyToGetRequest may replace a key's shard id by the one its shard    *)
(* cache holds.  RPC_FAIL, ZIPPY_STORAGE_FAIL and DONT_OWN_SHARD are       *)
(* handled by the same code and are one status, FAIL, here.                *)
(***************************************************************************)
EXTENDS Integers, FiniteSets, Sequences, SequencesExt

CONSTANTS
    Keys,        \* key names a request may contain
    NumReplicas,   \* most read clients the snapshot getAllReadClients returns holds
    SnapshotSizes, \* sizes that snapshot may have (0: no read client)
    StrictModes    \* values throwExceptionOnTransientFailure_ may have

ASSUME /\ Keys # {}
       /\ NumReplicas \in Nat \ {0}
       /\ SnapshotSizes \subseteq 0..NumReplicas /\ SnapshotSizes # {}
       /\ StrictModes \subseteq BOOLEAN /\ StrictModes # {}

Replicas == 1..NumReplicas
Statuses == {"OK", "KEY_MISSING", "FAIL", "SHARD_IN_PROGRESS", "MISSING_TOO_MUCH_DATA"}

\* A shard id is the caller's (Orig) or the one replica r's cache gave (r).
Orig == 0
ShardIds == {Orig} \cup Replicas
\* A Key of a request: its name and its shard id.
KeyRecs == [name : Keys, shard : ShardIds]

VARIABLES
    pc,          \* "call" | "retry" | "done" | "thrown"
    rep,         \* i: index of the read client being tried
    requested,   \* names of the keys of the caller's request
    clientReq,   \* clientRequest.keys
    failed,      \* failedKeys of this service
    partial,     \* partialKeys of this service
    found,       \* request.keys: names of the keys found, in order
    sent,        \* history: <<replica, call, name, shard>> of every key sent
    missing,     \* history: <<name, replica>> answered KEY_MISSING
    lastAnswer,  \* history: lastAnswer[k], the replica that last answered k
    strict,      \* throwExceptionOnTransientFailure_, fixed at construction
    nclients     \* readClientCopies.size()

vars == <<pc, rep, requested, clientReq, failed, partial, found, sent, missing,
          lastAnswer, strict, nclients>>

LastIteration == rep = nclients

\* getWithClient's inProgressKeys and partialDataKeys arguments are non-null.
InProgressKept == strict \/ ~LastIteration
PartialDataKept == ~LastIteration

\* Mutant of Outcome: case KEY_MISSING falls through to the failed cases.
OutcomeMissingAsFailed(keys, ans, sh) ==
    LET names == {key.name : key \in keys}
        Is(n, s) == ans[n][1] = s
        HasData(n) == ans[n][2]
    IN [found   |-> {n \in names :
                       \/ Is(n, "OK")
                       \/ Is(n, "SHARD_IN_PROGRESS") /\ ~InProgressKept /\ HasData(n)
                       \/ Is(n, "MISSING_TOO_MUCH_DATA") /\ ~PartialDataKept /\ HasData(n)},
        failed  |-> {[name |-> n, shard |-> sh[n]] :
                       n \in {m \in names : Is(m, "FAIL") \/ Is(m, "KEY_MISSING")}},
        partial |-> {[name |-> n, shard |-> sh[n]] : n \in {m \in names :
                       \/ Is(m, "SHARD_IN_PROGRESS") /\ InProgressKept
                       \/ Is(m, "MISSING_TOO_MUCH_DATA") /\ PartialDataKept}},
        missing |-> {m \in names : Is(m, "KEY_MISSING")}]

(* getWithClient(readClient, keys).  Every key gets an answer ans[n]      *)
(* (status, whether data came with it) and travels with the shard id       *)
(* addKeyToGetRequest chose, sh[n].  The answer decides whether the key is *)
(* found (pushed to result and request.keys), failed, partial or dropped.  *)
Outcome(keys, ans, sh) ==
    LET names == {key.name : key \in keys}
        Rec(n) == [name |-> n, shard |-> sh[n]]
        Is(n, s) == ans[n][1] = s
        HasData(n) == ans[n][2]
    IN [found   |-> {n \in names :
                       \/ Is(n, "OK")
                       \/ Is(n, "SHARD_IN_PROGRESS") /\ ~InProgressKept /\ HasData(n)
                       \/ Is(n, "MISSING_TOO_MUCH_DATA") /\ ~PartialDataKept /\ HasData(n)},
        failed  |-> {Rec(n) : n \in {m \in names : Is(m, "FAIL")}},
        partial |-> {Rec(n) : n \in {m \in names :
                       \/ Is(m, "SHARD_IN_PROGRESS") /\ InProgressKept
                       \/ Is(m, "MISSING_TOO_MUCH_DATA") /\ PartialDataKept}},
        missing |-> {m \in names : Is(m, "KEY_MISSING")}]

\* The effect of one getWithClient call on the result and the histories.
Record(keys, call, o) ==
    /\ found' = found \o SetToSeq(o.found)
    /\ sent' = sent \cup {<<rep, call, key.name, key.shard>> : key \in keys}
    /\ missing' = missing \cup {<<n, rep>> : n \in o.missing}
    /\ lastAnswer' = [n \in Keys |-> IF \E key \in keys : key.name = n
                                     THEN rep ELSE lastAnswer[n]]

\* The answers and shard ids the network client may give for keys.
Answers(keys) == [{key.name : key \in keys} -> Statuses \X BOOLEAN]
Shards(keys) == {sh \in [{key.name : key \in keys} -> ShardIds] :
                   \A key \in keys : sh[key.name] \in {key.shard, rep}}

\* Mutant of EndOfService: the loop also moves on after the last service.
EndOfServiceOverrun(f, p) ==
    \/ /\ f = {} /\ p = {}
       /\ pc' = "done"
       /\ UNCHANGED <<rep, clientReq>>
    \/ /\ f # {} \/ p # {}
       /\ pc' = "call"
       /\ rep' = rep + 1
       /\ clientReq' = {[key EXCEPT !.shard = Orig] : key \in f \cup p}

\* Mutant of EndOfService: the keys keep the shard ids of the last service.
EndOfServiceNoRestore(f, p) ==
    \/ /\ f = {} /\ p = {}
       /\ pc' = "done"
       /\ UNCHANGED <<rep, clientReq>>
    \/ /\ f # {} \/ p # {}
       /\ LastIteration
       /\ pc' = IF strict THEN "thrown" ELSE "done"
       /\ UNCHANGED <<rep, clientReq>>
    \/ /\ f # {} \/ p # {}
       /\ ~LastIteration
       /\ pc' = "call"
       /\ rep' = rep + 1
       /\ clientReq' = f \cup p

(* The end of one service's turn in get's loop, with failedKeys f and      *)
(* partialKeys p: stop if nothing is left, throw on the last service in    *)
(* strict mode, otherwise move f and p, with the caller's shard ids        *)
(* restored from keyShards, to the next service.                           *)
EndOfService(f, p) ==
    \/ /\ f = {} /\ p = {}
       /\ pc' = "done"
       /\ UNCHANGED <<rep, clientReq>>
    \/ /\ f # {} \/ p # {}
       /\ LastIteration
       /\ pc' = IF strict THEN "thrown" ELSE "done"
       /\ UNCHANGED <<rep, clientReq>>
    \/ /\ f # {} \/ p # {}
       /\ ~LastIteration
       /\ pc' = "call"
       /\ rep' = rep + 1
       /\ clientReq' = {[key EXCEPT !.shard = Orig] : key \in f \cup p}

-----------------------------------------------------------------------------
(* get: the first getWithClient on service rep (read_failover counts the   *)
(* services after the first).  A failed key leads to the in-service retry; *)
(* otherwise the service's turn ends.                                      *)
FirstCall ==
    /\ pc = "call"
    /\ \E ans \in Answers(clientReq), sh \in Shards(clientReq) :
         LET o == Outcome(clientReq, ans, sh) IN
         /\ Record(clientReq, 1, o)
         /\ IF o.failed # {}
            THEN /\ pc' = "retry"
                 /\ failed' = o.failed
                 /\ partial' = o.partial
                 /\ UNCHANGED <<rep, clientReq>>
            ELSE /\ EndOfService(o.failed, o.partial)
                 /\ UNCHANGED <<failed, partial>>
    /\ UNCHANGED requested

\* Mutant of Retry: the in-service retry also asks for the partial keys.
RetryRequestingPartials ==
    /\ pc = "retry"
    /\ \E ans \in Answers(failed \cup partial), sh \in Shards(failed \cup partial) :
         LET o == Outcome(failed \cup partial, ans, sh) IN
         /\ Record(failed \cup partial, 2, o)
         /\ EndOfService(o.failed, partial \cup o.partial)
    /\ failed' = {}
    /\ partial' = {}
    /\ UNCHANGED requested

\* Mutant of Retry: the partial keys of the first call are forgotten.
RetryDroppingPartials ==
    /\ pc = "retry"
    /\ \E ans \in Answers(failed), sh \in Shards(failed) :
         LET o == Outcome(failed, ans, sh) IN
         /\ Record(failed, 2, o)
         /\ EndOfService(o.failed, o.partial)
    /\ failed' = {}
    /\ partial' = {}
    /\ UNCHANGED requested

(* invalidateCache for the failed keys' shard ids, then getWithClient on   *)
(* the same service with clientRequest.keys = failedKeys; the partial keys *)
(* of the first call stay in partialKeys.                                  *)
Retry ==
    /\ pc = "retry"
    /\ \E ans \in Answers(failed), sh \in Shards(failed) :
         LET o == Outcome(failed, ans, sh) IN
         /\ Record(failed, 2, o)
         /\ EndOfService(o.failed, partial \cup o.partial)
    /\ failed' = {}
    /\ partial' = {}
    /\ UNCHANGED requested

(* get's entry: the caller's keys with their shard ids; request.keys is    *)
(* cleared to collect the keys found.                                      *)
Init ==
    /\ nclients \in SnapshotSizes
    /\ requested \in SUBSET Keys \ {{}}
    /\ clientReq = {[name |-> n, shard |-> Orig] : n \in requested}
    /\ pc = IF nclients = 0 THEN "done" ELSE "call"
    /\ rep = 1
    /\ failed = {}
    /\ partial = {}
    /\ found = <<>>
    /\ sent = {}
    /\ missing = {}
    /\ lastAnswer = [n \in Keys |-> 0]
    /\ strict \in StrictModes

\* The call returned or threw: nothing more happens.
Returned == pc \in {"done", "thrown"} /\ UNCHANGED vars

Next == (FirstCall \/ Retry \/ Returned) /\ UNCHANGED <<strict, nclients>>

Spec == Init /\ [][Next]_vars

-----------------------------------------------------------------------------
TypeOK ==
    /\ pc \in {"call", "retry", "done", "thrown"}
    /\ rep \in Replicas
    /\ requested \subseteq Keys
    /\ clientReq \subseteq KeyRecs /\ failed \subseteq KeyRecs /\ partial \subseteq KeyRecs
    /\ found \in Seq(Keys)
    /\ sent \subseteq Replicas \X {1, 2} \X Keys \X ShardIds
    /\ missing \subseteq Keys \X Replicas
    /\ lastAnswer \in [Keys -> 0..NumReplicas]
    /\ strict \in BOOLEAN
    /\ nclients \in 0..NumReplicas

(* A key a service answered KEY_MISSING is never asked of a later service  *)
(* (getWithClient drops it; get forwards only failed and partial keys).    *)
KeyMissingNotRetried ==
    \A m \in missing : \A s \in sent : s[1] > m[2] => s[3] # m[1]

(* No key is found twice and no key is found that was not requested: the  *)
(* first OK wins, whichever service and call it came from, and the keys    *)
(* moved between calls and services never include one already found.      *)
FoundOnce == IsInjective(found) /\ Range(found) \subseteq requested

(* When get returns without throwing, a requested key missing from the     *)
(* result was answered KEY_MISSING or was last answered by the last        *)
(* service: no failed or partial key is forgotten by the in-service retry  *)
(* or by the move to the next service.                                     *)
NoKeyForgotten ==
    pc = "done" =>
        \A n \in requested :
            \/ n \in Range(found)
            \/ \E r \in Replicas : <<n, r>> \in missing
            \/ lastAnswer[n] = nclients

(* Every service's first request carries the caller's shard ids, whatever  *)
(* shard ids an earlier service's cache put on the keys it failed.         *)
FailoverRestoresShards == \A s \in sent : s[2] = 1 => s[4] = Orig

(* In strict mode (throwExceptionOnTransientFailure_) get either throws or *)
(* returns every requested key that no service answered KEY_MISSING: an    *)
(* in-progress or missing-data shard on the last service raises (spec,     *)
(* component F, step 3, and error kind InProgressShard).                   *)
StrictNoSilentGap ==
    (strict /\ pc = "done") =>
        \A n \in requested :
            n \in Range(found) \/ \E r \in Replicas : <<n, r>> \in missing

=============================================================================
