------------------------------- MODULE Packer -------------------------------
(***************************************************************************)
(* The budget packer: from ranked files to the entries that are delivered  *)
(* under max_tokens (redcon/compressors/context_compressor.py).            *)
(*                                                                         *)
(* The ranked files are prepared (duplicates and unreadable files are      *)
(* skipped; every other file gets its tiers, most detailed first), then    *)
(* one of four packers runs: greedy, adaptive (the default), tiered, or    *)
(* progressive (tentative assignment, degradation rounds, finalization,    *)
(* clamp).                                                                 *)
(*                                                                         *)
(* A tier is what the packers see of a rendering: the tokens of its body,  *)
(* the import lines it holds, at a token each, and whether its strategy is *)
(* "full".  Files are numbered in ranking order.                           *)
(***************************************************************************)
EXTENDS Integers, Sequences, FiniteSets, SequencesExt, FiniteSetsExt, Functions

CONSTANTS
    N,              \* number of ranked files
    Contents,       \* file contents: [id, raw, imports, tiers]
    Scores,         \* heuristic or relevance scores of a file
    Budgets,        \* values of max_tokens
    Modes,          \* packers that may be configured
    WholeBudgets,   \* sub-budgets of whole files in the tiered packer
    MaxRounds,      \* bound on max_degradation_rounds
    Drift           \* how far a re-estimate may exceed a tier's tokens

(* The import lines of files and of their renderings.                      *)
Imports ==
    UNION {c.imports \cup UNION {t.imports : t \in Range(c.tiers)} : c \in Contents}

ASSUME PackerConstants ==
    /\ N \in Nat
    /\ \A c \in Contents :
         /\ c.raw \in Nat
         /\ c.tiers \in Seq([body : Nat, imports : SUBSET Imports, full : BOOLEAN])
         /\ c.tiers # <<>>
         /\ \A t \in Range(c.tiers) : IsFiniteSet(t.imports)
    /\ Scores \subseteq Int
    /\ Budgets \subseteq Nat
    /\ Modes \subseteq {"greedy", "adaptive", "tiered", "progressive"}
    /\ WholeBudgets \subseteq Int
    /\ MaxRounds \in Nat
    /\ Drift \in Nat

VARIABLES
    mode, max, files, dupCheck, whole, rounds,      \* the call, constant
    pc, i,              \* phase, and position in the loop of the phase
    hashes, prepared,   \* seen_hashes, prepared
    skipped,            \* files_skipped
    seen,               \* seen_imports
    entries, total,     \* compressed_files or finalized; total_compressed
    tierOf,             \* the tier of each assigned file, 0 for the others
    assigned, waiting,  \* assignments and skipped of the progressive packer
    rem,                \* budget_remaining
    round, degradable, snapshot, used, still, degraded

call == <<mode, max, files, dupCheck, whole, rounds>>
prep == <<hashes, prepared>>
prog == <<tierOf, assigned, waiting, rem, round, degradable, snapshot, used,
          still, degraded>>
out == <<skipped, seen, entries, total>>
vars == <<call, pc, i, prep, prog, out>>

Files == 1..N
Content(f) == files[f].content
Raw(f) == Content(f).raw
Tiers(f) == Content(f).tiers
Score(f) == files[f].score

TokensOf(tier) == tier.body + Cardinality(tier.imports)
TierTokens(f, t) == TokensOf(Tiers(f)[t])

Least(a, b) == IF a <= b THEN a ELSE b

----------------------------------------------------------------------------
(* _finalize_entry: a tier rendered with the imports already seen stripped,*)
(* re-estimated with a drift d and capped by the tokens of the raw file.   *)
Entry(f, tier, d) ==
    LET stripped == IF tier.full THEN {} ELSE tier.imports \cap seen
    IN  [file |-> f,
         whole |-> FALSE,
         tokens |-> Least(TokensOf(tier) - Cardinality(stripped) + d, Raw(f)),
         kept |-> tier.imports \ stripped,
         stripped |-> stripped]

(* _dedup_imports: the imports of a tier that is not full become seen.     *)
SeenAfter(tier) == IF tier.full THEN seen ELSE seen \cup tier.imports

Drifts(tier) == IF tier.full THEN {0} ELSE 0..Drift

(* The whole file under a one-line header: never over the raw tokens.      *)
WholeEntry(f) ==
    [file |-> f, whole |-> TRUE, tokens |-> Raw(f),
     kept |-> Content(f).imports,
     stripped |-> {}]

FitsStrictly(e) == total + e.tokens < max
Fits(e) == total + e.tokens <= max

Deliver(e) ==
    /\ entries' = Append(entries, e)
    /\ total' = total + e.tokens

SkipSilently(f) == UNCHANGED skipped
Skip(f) == skipped' = Append(skipped, f)

(* The positions of those by ascending score of their file in s, ties in   *)
(* the order of s.                                                         *)
LowestScoreFirst(s, those) ==
    LET before(a, b) == \/ Score(s[a]) < Score(s[b])
                        \/ Score(s[a]) = Score(s[b]) /\ a <= b
        turn(b) == Cardinality({a \in those : before(a, b)})
    IN  [k \in 1..Cardinality(those) |-> CHOOSE b \in those : turn(b) = k]

SumTokens(es) == SumFunction([k \in DOMAIN es |-> es[k].tokens])

(* Entries in the order the files were prepared; mutant: as they came.     *)
AsTheyCame(es) == es
InPreparedOrder(es) ==
    LET turn(b) == Cardinality({a \in DOMAIN es : es[a].file <= es[b].file})
    IN  [k \in DOMAIN es |-> es[CHOOSE b \in DOMAIN es : turn(b) = k]]

(* tiered_policy: "split" sets a sub-budget for whole files; "topk" and    *)
(* "score" pick the candidates, by their position.                         *)
WholePolicies ==
    [budget : WholeBudgets, candidates : {Files}]
      \cup [budget : {max}, candidates : SUBSET Files]

----------------------------------------------------------------------------
Init ==
    /\ mode \in Modes
    /\ max \in Budgets
    /\ files \in [Files -> [content : Contents, score : Scores]]
    /\ dupCheck \in BOOLEAN
    /\ whole \in IF mode = "tiered"
                   THEN WholePolicies
                   ELSE {[budget |-> 0, candidates |-> {}]}
    /\ rounds \in IF mode = "progressive" THEN 0..MaxRounds ELSE {0}
    /\ pc = "prepare" /\ i = 1
    /\ hashes = {} /\ prepared = <<>>
    /\ skipped = <<>> /\ seen = {} /\ entries = <<>> /\ total = 0
    /\ tierOf = [f \in Files |-> 0] /\ assigned = <<>> /\ waiting = <<>>
    /\ rem = max
    /\ round = 0 /\ degradable = <<>> /\ snapshot = [f \in Files |-> 0]
    /\ used = {} /\ still = <<>> /\ degraded = <<>>

(* compress_ranked_files, one ranked file: a content seen before is        *)
(* skipped; so is a file that cannot be read or rendered, whose content    *)
(* still counts as seen.                                                   *)
Prepare ==
    /\ pc = "prepare" /\ i <= N
    /\ i' = i + 1
    /\ \/ /\ dupCheck /\ Content(i) \in hashes
          /\ Skip(i)
          /\ UNCHANGED prep
       \/ /\ ~(dupCheck /\ Content(i) \in hashes)
          /\ hashes' = IF dupCheck THEN hashes \cup {Content(i)} ELSE hashes
          /\ \/ prepared' = Append(prepared, i) /\ UNCHANGED skipped
             \/ Skip(i) /\ UNCHANGED prepared
    /\ UNCHANGED <<call, pc, prog, seen, entries, total>>

FirstPhase == CASE mode = "greedy" -> "greedy"
                [] mode = "adaptive" -> "adaptive"
                [] mode = "tiered" -> "whole"
                [] mode = "progressive" -> "assign"

Dispatch ==
    /\ pc = "prepare" /\ i > N
    /\ pc' = FirstPhase /\ i' = 1
    /\ UNCHANGED <<call, prep, prog, out>>

(* The next prepared file of a loop over them.                             *)
Visit(phase, f) ==
    /\ pc = phase /\ i <= Len(prepared) /\ f = prepared[i]
    /\ i' = i + 1
    /\ UNCHANGED <<call, pc, prep>>

LoopEnds(phase, next) ==
    /\ pc = phase /\ i > Len(prepared)
    /\ pc' = next /\ i' = 1
    /\ UNCHANGED <<call, prep>>

----------------------------------------------------------------------------
(* The most detailed tier, rendered, delivered if it fits and skipped      *)
(* otherwise; its imports become seen in both cases.                       *)
DeliverDetailed(f) ==
    LET tier == Tiers(f)[1]
    IN  /\ seen' = SeenAfter(tier)
        /\ \E d \in Drifts(tier) :
             LET e == Entry(f, tier, d)
             IN  \/ Fits(e) /\ Deliver(e) /\ UNCHANGED skipped
                 \/ ~Fits(e) /\ Skip(f) /\ UNCHANGED <<entries, total>>

DeliverWhole(f) ==
    /\ Deliver(WholeEntry(f))
    /\ UNCHANGED <<skipped, seen>>

(* _compress_greedy                                                        *)
Greedy(f) ==
    /\ Visit("greedy", f)
    /\ DeliverDetailed(f)
    /\ UNCHANGED prog

(* _compress_adaptive: whole if it fits, else compressed, else skipped.    *)
Adaptive(f) ==
    /\ Visit("adaptive", f)
    /\ \/ Fits(WholeEntry(f)) /\ DeliverWhole(f)
       \/ ~Fits(WholeEntry(f)) /\ DeliverDetailed(f)
    /\ UNCHANGED prog

(* _compress_tiered, pass 1: whole candidates within both budgets.         *)
TieredWhole(f) ==
    LET fits == /\ i \in whole.candidates
                /\ SumTokens(entries) + Raw(f) <= whole.budget
                /\ Fits(WholeEntry(f))
    IN  /\ Visit("whole", f)
        /\ \/ fits /\ DeliverWhole(f)
           \/ ~fits /\ UNCHANGED out
        /\ UNCHANGED prog

(* _compress_tiered, pass 2: what was not delivered whole, compressed.     *)
TieredRest(f) ==
    LET delivered == \E k \in DOMAIN entries : entries[k].file = f
    IN  /\ Visit("rest", f)
        /\ \/ delivered /\ UNCHANGED out
           \/ ~delivered /\ DeliverDetailed(f)
        /\ UNCHANGED prog

TieredPassOver == LoopEnds("whole", "rest") /\ UNCHANGED <<prog, out>>

OnePassOver ==
    /\ \E phase \in {"greedy", "adaptive", "rest"} : LoopEnds(phase, "done")
    /\ entries' = InPreparedOrder(entries)
    /\ UNCHANGED <<prog, skipped, seen, total>>

----------------------------------------------------------------------------
Affordable(f, tokens) == {t \in DOMAIN Tiers(f) : TierTokens(f, t) <= tokens}

(* _compress_progressive, pass 1: the first tier that fits what remains.   *)
Assign(f) ==
    /\ Visit("assign", f)
    /\ \/ /\ Affordable(f, rem) # {}
          /\ LET t == Min(Affordable(f, rem))
             IN  /\ tierOf' = [tierOf EXCEPT ![f] = t]
                 /\ rem' = rem - TierTokens(f, t)
          /\ assigned' = Append(assigned, f)
          /\ UNCHANGED waiting
       \/ /\ Affordable(f, rem) = {}
          /\ waiting' = Append(waiting, f)
          /\ UNCHANGED <<tierOf, rem, assigned>>
    /\ UNCHANGED <<round, degradable, snapshot, used, still, degraded, out>>

AssignOver == LoopEnds("assign", "round") /\ UNCHANGED <<prog, out>>

(* Whether pass 2 runs another round; mutant: one round too many.          *)
OneRoundMore == round <= rounds /\ waiting # <<>>
AnotherRound == round < rounds /\ waiting # <<>>

(* Pass 2, the start of a round: the assigned files with a further tier,   *)
(* lowest score first, and the tiers they have now.                        *)
StartRound ==
    /\ pc = "round" /\ AnotherRound
    /\ pc' = "place" /\ i' = 1
    /\ LET order == LowestScoreFirst(assigned,
             {k \in DOMAIN assigned : tierOf[assigned[k]] < Len(Tiers(assigned[k]))})
       IN  degradable' = [n \in DOMAIN order |-> assigned[order[n]]]
    /\ snapshot' = tierOf
    /\ used' = {} /\ still' = <<>>
    /\ UNCHANGED <<call, prep, tierOf, assigned, waiting, rem, round, degraded,
                   out>>

(* Mutant of Usable: the guard against stale snapshots is missing.         *)
AlwaysUsable(f) == TRUE
Usable(f) == f \notin used

(* What degrading f by one tier, from the snapshot, gives back.            *)
Freed(f) == TierTokens(f, snapshot[f]) - TierTokens(f, snapshot[f] + 1)

(* The degradable files that make room for some tier of file s.            *)
Helpers(s) ==
    {k \in DOMAIN degradable :
        /\ Usable(degradable[k])
        /\ Freed(degradable[k]) > 0
        /\ Affordable(s, rem + Freed(degradable[k])) # {}}

(* Pass 2, one skipped file: the first helper is degraded and the file     *)
(* placed, or it stays skipped.                                            *)
Place ==
    /\ pc = "place" /\ i <= Len(waiting)
    /\ i' = i + 1
    /\ LET s == waiting[i]
       IN  \/ /\ Helpers(s) # {}
              /\ LET g == degradable[Min(Helpers(s))]
                     t == Min(Affordable(s, rem + Freed(g)))
                 IN  /\ tierOf' = [tierOf EXCEPT ![g] = snapshot[g] + 1, ![s] = t]
                     /\ rem' = rem + Freed(g) - TierTokens(s, t)
                     /\ used' = used \cup {g}
                     /\ degraded' = Append(degraded, g)
              /\ assigned' = Append(assigned, s)
              /\ UNCHANGED still
           \/ /\ Helpers(s) = {}
              /\ still' = Append(still, s)
              /\ UNCHANGED <<tierOf, rem, used, degraded, assigned>>
    /\ UNCHANGED <<call, pc, prep, waiting, round, degradable, snapshot, out>>

EndRound ==
    /\ pc = "place" /\ i > Len(waiting)
    /\ pc' = "round" /\ i' = 1
    /\ waiting' = still
    /\ round' = round + 1
    /\ UNCHANGED <<call, prep, tierOf, assigned, rem, degradable, snapshot, used,
                   still, degraded, out>>

(* Pass 2 ends: files_skipped takes what is still skipped.                 *)
RoundsOver ==
    /\ pc = "round" /\ ~AnotherRound
    /\ pc' = "finalize" /\ i' = 1
    /\ skipped' = skipped \o waiting
    /\ UNCHANGED <<call, prep, prog, seen, entries, total>>

(* Pass 3: assigned files in prepared order, whatever they cost now.       *)
Finalize(f) ==
    /\ Visit("finalize", f)
    /\ \/ tierOf[f] = 0 /\ UNCHANGED out
       \/ /\ tierOf[f] # 0
          /\ seen' = SeenAfter(Tiers(f)[tierOf[f]])
          /\ \E d \in Drifts(Tiers(f)[tierOf[f]]) :
               Deliver(Entry(f, Tiers(f)[tierOf[f]], d))
          /\ UNCHANGED skipped
    /\ UNCHANGED prog

FinalizeOver == LoopEnds("finalize", "clamp") /\ UNCHANGED <<prog, out>>

(* Mutant of OverBudget: no clamp.                                         *)
NeverOver == FALSE
OverBudget == total > max /\ entries # <<>>

Included == [k \in DOMAIN entries |-> entries[k].file]

(* The clamp: while the total is over budget, drop the lowest score.       *)
Clamp ==
    /\ pc = "clamp" /\ OverBudget
    /\ LET lowest == LowestScoreFirst(Included, DOMAIN entries)[1]
       IN  /\ entries' = RemoveAt(entries, lowest)
           /\ total' = total - entries[lowest].tokens
           /\ Skip(entries[lowest].file)
    /\ UNCHANGED <<call, pc, i, prep, prog, seen>>

ClampOver ==
    /\ pc = "clamp" /\ ~OverBudget
    /\ pc' = "done"
    /\ entries' = InPreparedOrder(entries)
    /\ UNCHANGED <<call, i, prep, prog, skipped, seen, total>>

Done == pc = "done" /\ UNCHANGED vars

Next ==
    \/ Prepare \/ Dispatch
    \/ \E f \in Files :
         \/ Greedy(f) \/ Adaptive(f) \/ TieredWhole(f) \/ TieredRest(f)
         \/ Assign(f) \/ Finalize(f)
    \/ TieredPassOver \/ OnePassOver
    \/ AssignOver \/ StartRound \/ Place \/ EndRound \/ RoundsOver
    \/ FinalizeOver \/ Clamp \/ ClampOver
    \/ Done

Spec == Init /\ [][Next]_vars

----------------------------------------------------------------------------
Phases == {"prepare", "greedy", "adaptive", "whole", "rest", "assign", "round",
           "place", "finalize", "clamp", "done"}

TypeOK ==
    /\ pc \in Phases
    /\ i \in 1..N + 1
    /\ hashes \subseteq Contents
    /\ \A s \in {prepared, skipped, assigned, waiting, degradable, still,
                 degraded} : Range(s) \subseteq Files
    /\ seen \subseteq Imports
    /\ Range(entries) \subseteq
         [file : Files, whole : BOOLEAN, tokens : Nat,
          kept : SUBSET Imports, stripped : SUBSET Imports]
    /\ total \in Nat
    /\ \A f \in Files : {tierOf[f], snapshot[f]} \subseteq 0..Len(Tiers(f))
    /\ rem \in Int
    /\ round \in 0..rounds
    /\ used \subseteq Files

(* "The budget is a guarantee, not an aspiration": whatever the packer and *)
(* however re-estimates drift from the tiers, the delivered entries fit    *)
(* max_tokens, and the total that is reported is theirs.                   *)
BudgetKept ==
    pc = "done" => SumTokens(entries) = total /\ total <= max

(* In passes 1 and 2 of the progressive packer no token is credited twice: *)
(* what remains and what the assigned tiers cost make up the budget.       *)
BudgetConserved ==
    mode = "progressive" /\ pc \in {"assign", "round", "place"} =>
        /\ rem >= 0
        /\ rem + SumFunction([f \in Range(assigned) |-> TierTokens(f, tierOf[f])]) = max

(* Every ranked file is reported exactly once, as included or as skipped.  *)
EveryFileOnce ==
    pc = "done" =>
        LET reported == Included \o skipped
        IN  Len(reported) = N /\ Range(reported) = Files

(* The entries come out in ranking order.                                  *)
RankingOrder ==
    pc = "done" => \A a, b \in DOMAIN entries :
        a < b => entries[a].file < entries[b].file

(* "a repo that fits the budget degenerates to all-whole" (adaptive).      *)
AllWholeWhenRoomy ==
    pc = "done" /\ mode = "adaptive"
      /\ SumFunction([f \in Range(prepared) |-> Raw(f)]) <= max =>
        /\ Range(Included) = Range(prepared)
        /\ \A k \in DOMAIN entries : entries[k].whole

(* Outside the progressive packer a file is skipped only if its detailed   *)
(* tier still does not fit beside everything that was delivered.           *)
SkipJustified ==
    pc = "done" /\ mode # "progressive" =>
        \A f \in Range(prepared) \cap Range(skipped) :
            total + Least(TierTokens(f, 1) + Drift, Raw(f)) > max

----------------------------------------------------------------------------
(* "Strip import lines already seen in earlier compressed files"           *)
(* (_dedup_imports), so that every pack "is complete and useful on its     *)
(* own" (ROADMAP.md): an import stripped from a delivered entry stands in  *)
(* another delivered entry.  The code also counts files it then skips.     *)
StrippedImportsDelivered ==
    pc = "done" => \A k \in DOMAIN entries : \A imp \in entries[k].stripped :
        \E j \in DOMAIN entries : imp \in entries[j].kept

(* "selects the best affordable tier per file, degrading before dropping"  *)
(* (representations.py): the progressive packer drops no file of which a   *)
(* tier fits what is left of the budget.  Pass 2 only places a file while  *)
(* it degrades another one.                                                *)
NoAffordableFileDropped ==
    pc = "finalize" => \A f \in Range(waiting) : Affordable(f, rem) = {}

============================================================================
