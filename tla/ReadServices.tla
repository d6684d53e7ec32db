---------------------------- MODULE ReadServices ----------------------------
(***************************************************************************)
(* The read-client list and the threads that touch it: the scheduler      *)
(* thread running updateReadServices (with initBeringeiNetworkClients)    *)
(* every readServicesUpdateInterval seconds, and readers calling          *)
(* getAllReadClients(serviceOverride) (the read paths' first step) and    *)
(* getReadClientCopy.                                                     *)
(*                                                                         *)
(* A network client is an id: ids > 0 are the clients the refresher       *)
(* created, in creation order (clients[id] is the service); the temporary *)
(* client reader r creates for an override that is not in the list is    *)
(* -r.  Clients are shared_ptrs: a client is alive while readClients_, a  *)
(* refresher local or a reader's vector holds it.                          *)
(*                                                                         *)
(* getAllReadClients assigns readClientCopies = {client} inside the       *)
(* range-for over readClientCopies.  The assignment keeps the storage     *)
(* (capacity >= 1) and destroys the elements after the first, while the   *)
(* loop goes on to the end it cached.  Reading a destroyed element is     *)
(* undefined; the build reads the shared_ptr bits left in the slot, which *)
(* is harmless while another owner keeps that client alive and a use      *)
(* after free ("freed") when none does.                                 *)
(***************************************************************************)
EXTENDS Integers, Sequences, SequencesExt

CONSTANTS
    Services,          \* service names the configuration adapter knows
    Nearest,           \* getNearestReadService()
    Lists,             \* read-service lists getReadServices() may return
    NumShards,         \* NumShards[s]: getNumShards() of a client of service s
    NumReaders,        \* reader threads
    MaxAdapterChanges  \* bound on changes of the adapter's answers

ASSUME /\ Nearest \in Services /\ NumShards \in [Services -> Nat]
       /\ \A l \in Lists : l \in Seq(Services) /\ l # <<>>
       /\ NumReaders \in Nat \ {0}
       /\ MaxAdapterChanges \in Nat

Readers == 1..NumReaders
NoOverride == "none"

VARIABLES
    adList,      \* configurationAdapter_->getReadServices()
    adValid,     \* the services isValidReadService accepts
    adChanges,   \* adapter changes so far
    clients,     \* clients[id]: service of refresher-created client id
    readClients, \* readClients_ (ids)
    current,     \* currentReadServices_
    maxShards,   \* maxNumShards_
    ref,         \* refresher: "idle" | "swap" (clients built, lock not yet taken)
    newClients,  \* updateReadServices' local readClients
    rpc,         \* reader: "idle" | "loop" | "done" | "freed"
    ov,          \* reader's serviceOverride
    buf,         \* readClientCopies' storage, to the end the loop cached
    live,        \* readClientCopies.size(): buf[1..live] are live elements
    it,          \* the range-for position
    found,       \* getAllReadClients' found
    snap,        \* history: the copy of readClients_ the reader took
    res          \* the vector getAllReadClients returned

vars == <<adList, adValid, adChanges, clients, readClients, current, maxShards, ref,
          newClients, rpc, ov, buf, live, it, found, snap, res>>

Live(r) == SubSeq(buf[r], 1, live[r])

Owned(c) ==
    \/ c \in Range(readClients) \/ c \in Range(newClients)
    \/ \E r \in Readers : c \in Range(Live(r)) \/ c \in Range(res[r])

Svc(c) == IF c > 0 THEN clients[c] ELSE ov[-c]

\* initBeringeiNetworkClients: the valid services whose createNetworkClient
\* did not throw (Fail), else the nearest service.
Survivors(list, Fail) == SelectSeq(list, LAMBDA s : s \in adValid \ Fail)
Built(list, Fail) ==
    IF Survivors(list, Fail) = <<>> THEN <<Nearest>> ELSE Survivors(list, Fail)

\* getMaxNumShards(clients): the largest getNumShards() of the services of
\* a client list, 0 for none.
MaxShards(l) == IF l = <<>> THEN 0 ELSE Max({NumShards[l[i]] : i \in 1..Len(l)})

\* The nearest service is the fallback, and its createNetworkClient threw.
Throws(list, Fail) == Survivors(list, Fail) = <<>> /\ Nearest \in Fail

\* The ids createNetworkClient gives to the services of l, in order.
NewIds(l) == [i \in 1..Len(l) |-> Len(clients) + i]

IdleReaders ==
    /\ rpc = [r \in Readers |-> "idle"]
    /\ ov = [r \in Readers |-> NoOverride]
    /\ buf = [r \in Readers |-> <<>>] /\ live = [r \in Readers |-> 0]
    /\ it = [r \in Readers |-> 1] /\ found = [r \in Readers |-> FALSE]
    /\ snap = [r \in Readers |-> <<>>] /\ res = [r \in Readers |-> <<>>]

\* The state initialize(..., writerThreads = 0, ...) leaves: one
\* updateReadServices has run, or found an empty list (maxNumShards_ keeps
\* the constructor's 0).  When it throws, so does initialize.
Init ==
    /\ adList \in Lists \cup {<<>>}
    /\ adValid \in SUBSET Services
    /\ adChanges = 0
    /\ \E Fail \in SUBSET Services :
          LET l == IF adList = <<>> THEN <<>> ELSE Built(adList, Fail)
          IN /\ adList # <<>> => ~Throws(adList, Fail)
             /\ clients = l
             /\ readClients = [i \in 1..Len(l) |-> i]
             /\ maxShards = MaxShards(l)
    /\ current = adList
    /\ ref = "idle" /\ newClients = <<>>
    /\ IdleReaders

\* The adapter's directory changes.
AdapterChange ==
    /\ adChanges < MaxAdapterChanges
    /\ adList' \in Lists
    /\ adValid' \in SUBSET Services
    /\ adChanges' = adChanges + 1
    /\ UNCHANGED <<maxShards, clients, readClients, current, ref, newClients, rpc, ov, buf,
                   live, it, found, snap, res>>

(* updateReadServices up to the lock: a non-empty list that differs from  *)
(* currentReadServices_ gets new clients, and currentReadServices_ and    *)
(* maxNumShards_ are written before the write lock is taken.              *)
RefreshBuild ==
    /\ ref = "idle"
    /\ adList # <<>> /\ adList # current
    /\ \E Fail \in SUBSET Services :
          LET l == Built(adList, Fail) IN
          /\ ~Throws(adList, Fail)
          /\ newClients' = NewIds(l)
          /\ clients' = clients \o l
          /\ maxShards' = MaxShards(l)
    /\ current' = adList
    /\ ref' = "swap"
    /\ UNCHANGED <<adList, adValid, adChanges, readClients, rpc, ov, buf, live,
                   it, found, snap, res>>

\* Mutant of RefreshThrows: currentReadServices_ is written before the
\* clients are built, so a throw leaves it ahead of readClients_.
RefreshThrowsWritesCurrent ==
    /\ ref = "idle"
    /\ adList # <<>> /\ adList # current
    /\ \E Fail \in SUBSET Services : Throws(adList, Fail)
    /\ current' = adList
    /\ UNCHANGED <<adList, adValid, adChanges, clients, readClients, maxShards, ref,
                   newClients, rpc, ov, buf, live, it, found, snap, res>>

(* updateReadServices when no valid service got a client and the         *)
(* fallback createNetworkClient(nearest) throws: the exception leaves the *)
(* function before currentReadServices_ is written, the FunctionScheduler *)
(* logs it, and the next interval tries again.                            *)
RefreshThrows ==
    /\ ref = "idle"
    /\ adList # <<>> /\ adList # current
    /\ \E Fail \in SUBSET Services : Throws(adList, Fail)
    /\ UNCHANGED vars

\* The same list as last time (or none): updateReadServices does nothing.
RefreshSkip ==
    /\ ref = "idle"
    /\ adList = <<>> \/ adList = current
    /\ UNCHANGED vars

\* WriteHolder on readClientLock_; readClients_ = readClients.
RefreshSwap ==
    /\ ref = "swap"
    /\ readClients' = newClients
    /\ newClients' = <<>>
    /\ ref' = "idle"
    /\ UNCHANGED <<maxShards, adList, adValid, adChanges, clients, current, rpc, ov, buf,
                   live, it, found, snap, res>>

(* getAllReadClients: ReadHolder on readClientLock_ and copy readClients_. *)
(* Without an override the copy is the result.                            *)
CopyClients(r) ==
    /\ rpc[r] = "idle"
    /\ \E o \in Services \cup {NoOverride} :
          /\ ov' = [ov EXCEPT ![r] = o]
          /\ rpc' = [rpc EXCEPT ![r] = IF o = NoOverride THEN "done" ELSE "loop"]
          /\ res' = [res EXCEPT ![r] = IF o = NoOverride THEN readClients ELSE <<>>]
    /\ buf' = [buf EXCEPT ![r] = readClients]
    /\ live' = [live EXCEPT ![r] = Len(readClients)]
    /\ snap' = [snap EXCEPT ![r] = readClients]
    /\ it' = [it EXCEPT ![r] = 1]
    /\ found' = [found EXCEPT ![r] = FALSE]
    /\ UNCHANGED <<maxShards, adList, adValid, adChanges, clients, readClients, current,
                   ref, newClients>>

\* getReadClientCopy: ReadHolder on readClientLock_; the first client, or
\* null when readClients_ is empty.
GetReadClientCopy(r) ==
    /\ rpc[r] = "idle"
    /\ rpc' = [rpc EXCEPT ![r] = "done"]
    /\ res' = [res EXCEPT ![r] = IF readClients = <<>> THEN <<>> ELSE <<readClients[1]>>]
    /\ UNCHANGED <<maxShards, adList, adValid, adChanges, clients, readClients, current,
                   ref, newClients, ov, buf, live, it, found, snap>>

\* Mutant of OverrideStep: a match is not recorded in found.
OverrideStepNoFound(r) ==
    /\ rpc[r] = "loop"
    /\ it[r] <= Len(buf[r])
    /\ LET c == buf[r][it[r]] IN
       IF it[r] > live[r] /\ ~Owned(c)
       THEN /\ rpc' = [rpc EXCEPT ![r] = "freed"]
            /\ UNCHANGED <<buf, live, found, it>>
       ELSE /\ IF Svc(c) = ov[r]
               THEN /\ buf' = [buf EXCEPT ![r][1] = c]
                    /\ live' = [live EXCEPT ![r] = 1]
               ELSE UNCHANGED <<buf, live>>
            /\ it' = [it EXCEPT ![r] = @ + 1]
            /\ UNCHANGED <<rpc, found>>
    /\ UNCHANGED <<maxShards, adList, adValid, adChanges, clients, readClients, current,
                   ref, newClients, ov, snap, res>>

(* One iteration of the override loop: client->isCorrespondingService on  *)
(* the slot at it, then readClientCopies = {client} on a match.            *)
OverrideStep(r) ==
    /\ rpc[r] = "loop"
    /\ it[r] <= Len(buf[r])
    /\ LET c == buf[r][it[r]] IN
       IF it[r] > live[r] /\ ~Owned(c)
       THEN /\ rpc' = [rpc EXCEPT ![r] = "freed"]
            /\ UNCHANGED <<buf, live, found, it>>
       ELSE /\ IF Svc(c) = ov[r]
               THEN /\ buf' = [buf EXCEPT ![r][1] = c]
                    /\ live' = [live EXCEPT ![r] = 1]
                    /\ found' = [found EXCEPT ![r] = TRUE]
               ELSE UNCHANGED <<buf, live, found>>
            /\ it' = [it EXCEPT ![r] = @ + 1]
            /\ UNCHANGED rpc
    /\ UNCHANGED <<maxShards, adList, adValid, adChanges, clients, readClients, current,
                   ref, newClients, ov, snap, res>>

(* After the loop: the match, else a temporary client for a valid         *)
(* override, else (bad service) the unfiltered copy.                       *)
OverrideEnd(r) ==
    /\ rpc[r] = "loop"
    /\ it[r] > Len(buf[r])
    /\ res' = [res EXCEPT ![r] =
                 IF found[r] \/ ov[r] \notin adValid THEN Live(r) ELSE <<-r>>]
    /\ rpc' = [rpc EXCEPT ![r] = "done"]
    /\ UNCHANGED <<maxShards, adList, adValid, adChanges, clients, readClients, current,
                   ref, newClients, ov, buf, live, it, found, snap>>

\* The read that used the clients returns and drops its vector.
Release(r) ==
    /\ rpc[r] = "done"
    /\ rpc' = [rpc EXCEPT ![r] = "idle"]
    /\ buf' = [buf EXCEPT ![r] = <<>>] /\ live' = [live EXCEPT ![r] = 0]
    /\ res' = [res EXCEPT ![r] = <<>>] /\ snap' = [snap EXCEPT ![r] = <<>>]
    /\ ov' = [ov EXCEPT ![r] = NoOverride]
    /\ it' = [it EXCEPT ![r] = 1] /\ found' = [found EXCEPT ![r] = FALSE]
    /\ UNCHANGED <<maxShards, adList, adValid, adChanges, clients, readClients, current,
                   ref, newClients>>

Next ==
    \/ AdapterChange \/ RefreshBuild \/ RefreshThrows \/ RefreshSkip \/ RefreshSwap
    \/ \E r \in Readers :
          \/ CopyClients(r) \/ GetReadClientCopy(r)
          \/ OverrideStep(r) \/ OverrideEnd(r) \/ Release(r)

(* The FunctionScheduler thread runs updateReadServices every interval;   *)
(* a refresh that can succeed does so eventually (the nearest service's   *)
(* client does not fail at every interval).                               *)
Fairness == WF_vars(RefreshBuild) /\ WF_vars(RefreshSwap)

Spec == Init /\ [][Next]_vars /\ Fairness

-----------------------------------------------------------------------------

\* The services of the clients a vector of ids holds.
ServicesOf(v) == [i \in 1..Len(v) |-> Svc(v[i])]

(* getAllReadClients with an override returns the last client of the     *)
(* snapshot that serves the override, however the loop's assignment to    *)
(* the vector it iterates plays out; without one in the snapshot it       *)
(* returns a temporary client for the override or the whole snapshot.     *)
OverrideResolves ==
    \A r \in Readers : rpc[r] = "done" /\ ov[r] # NoOverride =>
        LET S == snap[r]
            M == {i \in 1..Len(S) : Svc(S[i]) = ov[r]}
        IN IF M # {} THEN res[r] = <<S[Max(M)]>> ELSE res[r] \in {<<-r>>, S}

(* The override loop never reads a client that its own assignment         *)
(* destroyed and no one else keeps alive (use after free).                *)
NoUseAfterFree == \A r \in Readers : rpc[r] # "freed"

\* The client lists initBeringeiNetworkClients can build from list l: the
\* services of l in some valid set, or the nearest service.
Buildable(l) ==
    ({SelectSeq(l, LAMBDA s : s \in V) : V \in SUBSET Services} \ {<<>>})
        \cup {<<Nearest>>}

(* Outside a refresh's window between its writes and the swap,            *)
(* currentReadServices_, maxNumShards_ and readClients_ describe the same  *)
(* refresh: readClients_ was built from currentReadServices_ and           *)
(* maxNumShards_ is its shard count.  A refresh that throws (line 353)     *)
(* must leave all three as they were; were currentReadServices_ written    *)
(* first, later refreshes would skip that list (line 783) and keep clients *)
(* of the old one.                                                        *)
RefreshConsistent ==
    ref = "idle" =>
        /\ maxShards = MaxShards(ServicesOf(readClients))
        /\ IF current = <<>> THEN readClients = <<>>
                             ELSE ServicesOf(readClients) \in Buildable(current)

(* Liveness, as the refresher is described: once the adapter settles,     *)
(* readClients_ serves exactly its valid services in order (the nearest   *)
(* service if none is valid).                                             *)
RefreshTracksAdapter ==
    <>[](adList # <<>> => ServicesOf(readClients) = Built(adList, {}))

=============================================================================
