---------------------------- MODULE DeltaReport ----------------------------
(***************************************************************************)
(* Delta packages between two packs (redcon/core/delta.py).                *)
(*                                                                         *)
(* A context is the compressed_context of a run artifact, as a function of *)
(* paths: for each the strategy, the chunk strategy, the selected ranges   *)
(* and the text of its entry, and its tokens.  A symbol that comes, goes   *)
(* or moves is a range that differs, so changed symbols change no file     *)
(* that changed ranges do not.                                             *)
(***************************************************************************)
EXTENDS Naturals, FiniteSets, FiniteSetsExt

CONSTANT RemovalTokens      \* estimate of a removal instruction

ASSUME RemovalTokensOK == RemovalTokens \in Nat

(* Finitely many files, each with its tokens.                              *)
IsContext(context) ==
    /\ IsFiniteSet(DOMAIN context)
    /\ \A path \in DOMAIN context : context[path].tokens \in Nat

EntryChanged(old, new) ==
    \/ old.strategy # new.strategy
    \/ old.chunks # new.chunks
    \/ old.ranges # new.ranges
    \/ old.text # new.text

Added(old, new) == DOMAIN new \ DOMAIN old
Removed(old, new) == DOMAIN old \ DOMAIN new
Changed(old, new) ==
    {path \in DOMAIN old \cap DOMAIN new : EntryChanged(old[path], new[path])}

Tokens(context) ==
    SumFunction([path \in DOMAIN context |-> context[path].tokens])

(* build_delta_report: what is new against old.                            *)
Package(old, new) ==
    [entries |-> [path \in Added(old, new) \cup Changed(old, new) |-> new[path]],
     removed |-> Removed(old, new)]

(* The package of a pack without a previous run is the pack.               *)
Whole(new) == [entries |-> new, removed |-> {}]

(* effective_pack_metrics: the tokens that count.                          *)
PackageTokens(package) ==
    Tokens(package.entries) + RemovalTokens * Cardinality(package.removed)

============================================================================
