---------------------------- MODULE KeptEntries ----------------------------
(***************************************************************************)
(* What the shared cache promises of its file, whoever writes it: entries  *)
(* are kept until someone removes them, and a removal is one decision.     *)
(* Between the decision and its execution nobody else adds or removes, so  *)
(* what is removed is what was decided on, of what was kept then.          *)
(***************************************************************************)
CONSTANTS
    Procs,      \* the processes that share the cache
    Keys        \* the keys they share

VARIABLES
    kept,       \* the keys with an entry in the file
    request     \* request[p]: the keys p has decided to remove

vars == <<kept, request>>

NoRequest == [p \in Procs |-> {}]

Init ==
    /\ kept \in SUBSET Keys
    /\ request = NoRequest

Add ==
    /\ request = NoRequest
    /\ kept' \in {kept \cup new : new \in SUBSET Keys}
    /\ UNCHANGED request

Decide(p) ==
    /\ request = NoRequest
    /\ \E removed \in SUBSET Keys : request' = [request EXCEPT ![p] = removed]
    /\ UNCHANGED kept

(* The removal is written together with what the process had to add.       *)
Execute(p) ==
    /\ request[p] # {}
    /\ kept' \in {(kept \cup new) \ request[p] : new \in SUBSET Keys}
    /\ request' = NoRequest

(* The process fails or dies before it has written.                        *)
Drop(p) ==
    /\ request[p] # {}
    /\ request' = NoRequest
    /\ UNCHANGED kept

Next ==
    \/ Add
    \/ \E p \in Procs : Decide(p) \/ Execute(p) \/ Drop(p)

Spec == Init /\ [][Next]_vars

============================================================================
