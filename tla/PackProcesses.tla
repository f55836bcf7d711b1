--------------------------- MODULE PackProcesses ---------------------------
(* What the parts of a pack have in common: the processes that pack one    *)
(* repository, the value of what is not there, sorting, and mappings.      *)
EXTENDS Integers, FiniteSets

CONSTANTS
    Procs,
    Nothing

ASSUME NothingIsNoProcess == Nothing \notin Procs

(* The members of a finite set of numbers, the least first.                *)
Ascending(S) ==
    [k \in 1..Cardinality(S) |-> CHOOSE n \in S : Cardinality({m \in S : m <= n}) = k]

(* The mapping f with y for x.                                             *)
Put(f, x, y) == [z \in DOMAIN f \cup {x} |-> IF z = x THEN y ELSE f[z]]
=============================================================================
