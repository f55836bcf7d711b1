--------------------------- MODULE MCSharedCache ---------------------------
(* Instance of SharedCache for TLC: three processes, one key.              *)
EXTENDS SharedCache, TLC

MCSymmetry == Permutations(Procs)

============================================================================
