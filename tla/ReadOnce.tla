------------------------------ MODULE ReadOnce ------------------------------
(***************************************************************************)
(* What a parallel read (futureGet, futureScanShard) promises its caller,  *)
(* independent of futures, timers and the collector's lock.                *)
(*                                                                         *)
(* Every (key, replica) part that was asked for is answered once, with     *)
(* data or without.  The read returns exactly once, and only when either   *)
(* a full copy of the keys exists or every part has been answered.  For    *)
(* each key it returns the data of the first replica, in the order of the  *)
(* snapshot, that has it, or nothing; in strict mode a key without data    *)
(* makes the whole read throw.  Answers that arrive after the return are   *)
(* accepted and change nothing.                                            *)
(***************************************************************************)
EXTENDS Naturals, FiniteSets

CONSTANTS Keys, Replicas

VARIABLES
    outstanding, \* (key, replica) parts asked for and not yet answered
    avail,       \* avail[k]: replicas that answered key k with data
    status,      \* "pending", "returned" or "thrown"
    answer,      \* answer[k]: the replica whose data was returned, or None
    strict       \* whether a key without data makes the read throw

vars == <<outstanding, avail, status, answer, strict>>

None == 0

FullCopy == \A k \in Keys : avail[k] # {}

First(av) == [k \in Keys |-> IF av[k] = {} THEN None
                            ELSE CHOOSE r \in av[k] : \A q \in av[k] : r <= q]

Init ==
    /\ outstanding \in SUBSET (Keys \X Replicas)
    /\ avail = [k \in Keys |-> {}]
    /\ status = "pending"
    /\ answer = [k \in Keys |-> None]
    /\ strict \in BOOLEAN

\* Some outstanding parts are answered together; those in F with data.
Arrive ==
    \E S \in SUBSET outstanding \ {{}} : \E F \in SUBSET S :
        /\ outstanding' = outstanding \ S
        /\ avail' = [k \in Keys |-> avail[k] \cup {p[2] : p \in {q \in F : q[1] = k}}]
        /\ UNCHANGED <<status, answer, strict>>

Return ==
    /\ status = "pending"
    /\ FullCopy \/ outstanding = {}
    /\ \/ strict /\ ~FullCopy /\ status' = "thrown" /\ UNCHANGED answer
       \/ ~(strict /\ ~FullCopy) /\ status' = "returned" /\ answer' = First(avail)
    /\ UNCHANGED <<outstanding, avail, strict>>

Next == Arrive \/ Return

Spec == Init /\ [][Next]_vars /\ WF_vars(Return)

=============================================================================
