------------------------- MODULE MCGatewaySessions -------------------------
(* Instance of GatewaySessions for TLC.                                    *)
EXTENDS GatewaySessions, TLC

(* The deployments a property speaks about, at their worst: clients that   *)
(* stay on replicas that die; clients that roam, with a shared or a local  *)
(* store and sessions that are lost; timeouts and crashes together.        *)
MCDeployments ==
    {{"redis", "sticky", "crashes"}, {"redis", "lossy"}, {"lossy"},
     {"redis", "crashes", "lossy"}, {"redis", "timeouts", "crashes"},
     {"redis", "sticky", "lossy"}}

(* Packs of three requests.  A file stays the same, comes back, goes, is   *)
(* packed in full instead of in slices, and is sliced at other lines of    *)
(* the same text.                                                          *)
File(strategy, ranges, text, tokens) ==
    [strategy |-> strategy, chunks |-> strategy, ranges |-> ranges,
     text |-> text, tokens |-> tokens]

MCContext ==
    <<[a |-> File("full", {}, "a1", 3), b |-> File("slice", {1}, "b1", 2)],
      [a |-> File("full", {}, "a1", 3), b |-> File("slice", {2}, "b1", 2),
       c |-> File("slice", {1}, "c1", 1)],
      [b |-> File("slice", {1}, "b1", 2), c |-> File("full", {}, "c1", 4)]>>

MCRoaming == {{"redis"}}
MCTimeouts == {{"redis", "sticky", "timeouts"}}

MCSymmetry == Permutations(Replicas) \cup Permutations(Clients)

============================================================================
