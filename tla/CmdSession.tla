---------------------------- MODULE CmdSession -----------------------------
(***************************************************************************)
(* compress_command of src/redcon/cmd/pipeline.py on top of run_command:   *)
(* the calls of one process, its report cache, the baselines of its        *)
(* deltas, a ledger of aliases and the logs large outputs are spilled to,  *)
(* while the working tree and HEAD change.                                 *)
(*                                                                         *)
(* An output is a sequence of lines, one line being the byte of CmdRunner. *)
(* What the agent has been told is recorded beside the state of the code,  *)
(* so that a property can ask what an answer means to its reader.          *)
(***************************************************************************)
EXTENDS CmdRunner, SequencesExt

CONSTANTS
    Argvs,          \* canonical commands; the rest is as typed by the caller
    Known,          \* those a compressor is registered for
    Diffs,          \* those of git_diff
    Heads,          \* commits HEAD can name
    Facts,          \* the lines that must_preserve_patterns find
    LineTokens,     \* tokens of a line
    Threshold,      \* LOG_POINTER_THRESHOLD_BYTES
    DeltaLines,     \* added and removed lines a delta shows at most, 30
    MaxAliases,     \* SymbolAliaser.max_aliases
    Deployments,    \* what a caller passes (argvs, cache, delta, ledger,
                    \* hints), what commands print (outputs) or do instead
                    \* (faulty), and bounds (calls, changes of tree or HEAD)
    Nothing

Levels == [ultra |-> 0, compact |-> 1, verbose |-> 2]

ASSUME CommandConstants ==
    /\ Diffs \subseteq Known
    /\ LineTokens \in [Bytes -> Nat]
    /\ Threshold \in Nat
    /\ DeltaLines \in Nat
    /\ MaxAliases \in Nat
    /\ \A d \in Deployments :
         /\ d.argvs \subseteq Argvs
         /\ d.cache \in BOOLEAN
         /\ d.delta \in BOOLEAN
         /\ d.ledger \in {"none", "path", "block", "symbol"}
         /\ \A hint \in d.hints : /\ hint.remaining \in Int
                                  /\ hint.max \in Int
                                  /\ hint.floor \in DOMAIN Levels
         /\ d.outputs \subseteq Seq(Bytes)
         /\ \A c \in d.faulty : IsCommand(c)
         /\ d.calls \in Nat
         /\ d.changes \in Nat

VARIABLES
    config,     \* the deployment
    tree,       \* tree[a]: what a prints now
    head,       \* the commit HEAD names
    phase,      \* compress_command: idle, keyed or running
    call,       \* the call: argv, hint, key
    cache,      \* reports by key, _DEFAULT_CACHE
    baseline,   \* baseline[a]: formatted lines, _BASELINE
    bound,      \* by_path, by_symbol or by_fingerprint: line number n has alias n
    logs,       \* .redcon/cmd_runs, by key
    answer,     \* the report last returned
    printed,    \* observer: <<argv, HEAD, output>> the world has shown
    picture,    \* observer: picture[a]: the lines the agent holds for a, and
                \* whether no delta it got for them was cut
    explained,  \* observer: aliases whose legend the agent has read
    rejected,   \* observer: aliases bound in a rewrite the gate rejected
    calls, changes

worldVars == <<tree, head, printed, changes>>
sessionVars == <<config, phase, call, cache, baseline, bound, logs, answer,
                 picture, explained, rejected, calls>>
vars == <<runnerVars, worldVars, sessionVars>>

NoCall == [argv |-> Nothing, hint |-> Nothing, key |-> Nothing,
           asked |-> Nothing, looked |-> Nothing, ran |-> Nothing]

Init ==
    /\ Quiet
    /\ config \in Deployments
    /\ tree \in [config.argvs -> config.outputs]
    /\ head \in Heads
    /\ printed = {<<a, head, tree[a]>> : a \in config.argvs}
    /\ phase = "idle"
    /\ call = NoCall
    /\ cache = <<>>
    /\ baseline = [a \in Argvs |-> Nothing]
    /\ bound = <<>>
    /\ logs = <<>>
    /\ answer = Nothing
    /\ picture = [a \in Argvs |-> [lines |-> {}, whole |-> TRUE]]
    /\ explained = {}
    /\ rejected = {}
    /\ calls = 0
    /\ changes = 0

----------------------------------------------------------------------------
(* The world: an edit, a commit or a checkout, between two steps of a call *)

Change ==
    /\ main = "idle"
    /\ changes < config.changes
    /\ \E a \in config.argvs, out \in config.outputs, h \in Heads :
         /\ <<out, h>> # <<tree[a], head>>
         /\ tree' = [tree EXCEPT ![a] = out]
         /\ head' = h
         /\ printed' = printed \cup {<<b, h, tree'[b]>> : b \in config.argvs}
    /\ changes' = changes + 1
    /\ UNCHANGED <<runnerVars, sessionVars>>

----------------------------------------------------------------------------
(* select_level of budget.py                                               *)

AtLeast(level, floor) == IF Levels[level] >= Levels[floor] THEN level ELSE floor

(* Mutant of SelectLevel: the floor is not applied to the fallback.        *)
SelectLevelNoFloor(raw, hint) ==
    LET share == Max({1, (hint.remaining * 30) \div 100})
        Fits(tokens) == Max({1, tokens}) <= Min({share, hint.max})
    IN  IF raw <= 0 THEN "verbose"
        ELSE IF hint.remaining <= 0 \/ hint.max <= 0 THEN "ultra"
        ELSE IF Fits(raw) THEN AtLeast("verbose", hint.floor)
        ELSE IF Fits((raw * 15) \div 100) THEN AtLeast("compact", hint.floor)
        ELSE "ultra"

SelectLevel(raw, hint) ==
    LET share == Max({1, (hint.remaining * 30) \div 100})
        Fits(tokens) == Max({1, tokens}) <= Min({share, hint.max})
        level == IF raw <= 0 THEN "verbose"
                 ELSE IF hint.remaining <= 0 \/ hint.max <= 0 THEN "ultra"
                 ELSE IF Fits(raw) THEN "verbose"
                 ELSE IF Fits((raw * 15) \div 100) THEN "compact"
                 ELSE "ultra"
    IN  AtLeast(level, hint.floor)

----------------------------------------------------------------------------
(* Texts: sequences of cells, a line with the form it is shown in and, in  *)
(* a delta, the sign before it                                             *)

Plain(lines, sign) ==
    [i \in DOMAIN lines |->
       [line |-> lines[i], form |-> "full", alias |-> 0, sign |-> sign]]

CellTokens(cell) ==
    (IF cell.sign = "" THEN 0 ELSE 1)
      + (CASE cell.form = "full" -> LineTokens[cell.line]
           [] cell.form = "legend" -> LineTokens[cell.line] + 1
           [] cell.form = "alias" -> 1)

TextTokens(text) == SumFunction([i \in DOMAIN text |-> CellTokens(text[i])])

LinesTokens(lines) == TextTokens(Plain(lines, ""))

(* The lines that are wanted, in their order.                              *)
Only(lines, wanted) ==
    LET kept[n \in 0..Len(lines)] ==
          IF n = 0 THEN <<>>
          ELSE IF lines[n] \in wanted THEN Append(kept[n - 1], lines[n])
          ELSE kept[n - 1]
    IN  kept[Len(lines)]

(* A compressor: all lines, the facts, or nothing of them.                 *)
Compress(lines, level) ==
    CASE level = "verbose" -> lines
      [] level = "compact" -> Only(lines, Facts)
      [] level = "ultra" -> <<>>

(* render_line_delta: the head, then a count and the first lines of each.  *)
Added(prior, lines) == Only(lines, Bytes \ Range(prior))

Shown(lines) == SubSeq(lines, 1, Min({Len(lines), DeltaLines}))

DeltaText(prior, lines) ==
    Plain(Shown(Added(prior, lines)), "+") \o Plain(Shown(Added(lines, prior)), "-")

DeltaTokens(prior, lines) ==
    LET Count(part) == (IF part = <<>> THEN 0 ELSE 1)
                         + (IF Len(part) > DeltaLines THEN 1 ELSE 0)
    IN  1 + Count(Added(prior, lines)) + Count(Added(lines, prior))
          + TextTokens(DeltaText(prior, lines))

Delta(prior, lines, full) ==
    [full EXCEPT
       !.schema = "delta", !.text = DeltaText(prior, lines),
       !.tokens = DeltaTokens(prior, lines),
       !.cut = \E part \in {Added(prior, lines), Added(lines, prior)} :
                 Len(part) > DeltaLines]

(* jaccard_above_floor: at least 0.30 of all lines are common.             *)
Similar(prior, lines) ==
    LET both == Range(prior) \cap Range(lines)
        all == Range(prior) \cup Range(lines)
    IN  all = {} \/ 100 * Cardinality(both) >= 30 * Cardinality(all)

(* Mutant of SwapToDelta: a delta is taken whenever there is a baseline.   *)
SwapAlways(prior, full) ==
    LET lines == [i \in DOMAIN full.text |-> full.text[i].line]
    IN  IF prior # Nothing
          THEN Delta(prior, lines, full)
          ELSE full

(* _maybe_swap_to_delta                                                    *)
SwapToDelta(prior, full) ==
    LET lines == [i \in DOMAIN full.text |-> full.text[i].line]
    IN  IF /\ prior # Nothing
           /\ Similar(prior, lines)
           /\ DeltaTokens(prior, lines) < full.tokens
          THEN Delta(prior, lines, full)
          ELSE full

----------------------------------------------------------------------------
(* Ledgers: PathAliaser, SymbolAliaser and RefLedger, one at a time        *)

(* The names a text binds: those not bound yet, in the order of their      *)
(* first occurrence, as far as there is room.                              *)
Bind(old, text) ==
    LET names[n \in 0..Len(text)] ==
          IF n = 0 THEN old
          ELSE LET known == names[n - 1]
               IN  IF \/ text[n].line \in Range(known)
                      \/ config.ledger = "symbol" /\ Len(known) >= MaxAliases
                     THEN known ELSE Append(known, text[n].line)
    IN  names[Len(text)]

(* Mutant of Rewrite: no legends.                                          *)
RewriteBare(old, new, text) ==
    [i \in DOMAIN text |->
       IF text[i].line \notin Range(new) THEN text[i]
       ELSE [text[i] EXCEPT
               !.form = "alias",
               !.alias = CHOOSE n \in DOMAIN new : new[n] = text[i].line]]

(* A name bound before becomes its alias; a name bound now keeps its full  *)
(* form and gets a legend where it stands first.                           *)
Rewrite(old, new, text) ==
    [i \in DOMAIN text |->
       LET cell == text[i]
           first == \A j \in 1..(i - 1) : text[j].line # cell.line
       IN  IF cell.line \notin Range(new) THEN cell
           ELSE [cell EXCEPT
                   !.form = IF cell.line \notin Range(old) /\ first
                              THEN "legend" ELSE "alias",
                   !.alias = CHOOSE n \in DOMAIN new : new[n] = cell.line]]

(* The min-gate of the symbol aliaser and of the ref ledger; the path      *)
(* aliaser has none.                                                       *)
Accepted(report, text) ==
    \/ config.ledger = "path"
    \/ TextTokens(text) - TextTokens(report.text) < 0

(* The text a ledger leaves, by whether its rewrite is accepted.           *)
Ledgered(report, new) ==
    LET text == Rewrite(bound, new, report.text)
    IN  IF Accepted(report, text)
          THEN [report EXCEPT !.text = text,
                  !.tokens = @ + TextTokens(text) - TextTokens(report.text)]
          ELSE report

----------------------------------------------------------------------------
(* compress_command                                                        *)

(* Mutant of Key: HEAD is left out.                                        *)
KeyOfArgv(a, h) == <<a>>

(* build_cache_key: the command and HEAD, read before the run; neither the *)
(* hint nor the state of the working tree.                                 *)
Key(a, h) == <<a, h>>

(* What the agent makes of an answer: legends teach it aliases, a delta    *)
(* changes what it holds, the name of a log leaves it without the lines,   *)
(* everything else replaces it.                                            *)
Reads(report) ==
    LET text == report.text
        known == explained \cup
                   {c.alias : c \in {d \in Range(text) : d.form = "legend"}}
        clear == {c \in Range(text) : c.form # "alias" \/ c.alias \in known}
        Of(sign) == {c.line : c \in {d \in clear : d.sign = sign}}
    IN  [known |-> known,
         picture |->
           IF report.schema = "delta"
             THEN [lines |-> (picture[report.argv].lines \ Of("-")) \cup Of("+"),
                   whole |-> picture[report.argv].whole /\ ~report.cut]
             ELSE [lines |-> Of(""),
                   whole |-> report.schema \notin {"pointer", "lost"}]]

Deliver(report) ==
    /\ answer' = report
    /\ explained' = Reads(report).known
    /\ picture' = [picture EXCEPT ![report.argv] = Reads(report).picture]
    /\ phase' = "idle"
    /\ call' = NoCall

(* The key is built and looked up; a hit returns the report as it is.      *)
Invoke(a, hint) ==
    LET key == Key(a, head)
    IN  /\ phase = "idle"
        /\ calls < config.calls
        /\ calls' = calls + 1
        /\ IF config.cache /\ key \in DOMAIN cache
             THEN Deliver([cache[key] EXCEPT !.hit = TRUE, !.hint = hint,
                                             !.asked = head])
             ELSE /\ phase' = "keyed"
                  /\ call' = [argv |-> a, hint |-> hint, key |-> key,
                              asked |-> head, looked |-> head, ran |-> Nothing]
                  /\ UNCHANGED <<answer, explained, picture>>
        /\ UNCHANGED <<config, cache, baseline, bound, logs, rejected,
                       runnerVars, worldVars>>

(* What _append_capped keeps of an output.                                 *)
Kept(lines) == SubSeq(lines, 1, Min({Cap, Len(lines)}))

(* What run_command comes to for a command that prints lines and ends, or  *)
(* is too slow; ResultFaithful and FlagsHonest say so of every step of it. *)
RunShortly(lines) ==
    /\ main = "idle"
    /\ cmd' = [Idle EXCEPT !.output["stdout"] = lines]
    /\ child' = "exited"
    /\ main' = "done"
    /\ \/ /\ outcome' = IF Len(lines) > Cap THEN "capped" ELSE "returned"
          /\ buf' = [buf EXCEPT !["stdout"] = Kept(lines)]
          /\ truncated' = [truncated EXCEPT !["stdout"] = Len(lines) > Cap]
          /\ written' = [written EXCEPT !["stdout"] = Len(lines)]
          /\ taken' = [taken EXCEPT !["stdout"] = Len(lines)]
       \/ /\ outcome' = "timeout"
          /\ UNCHANGED <<buf, truncated, written, taken>>
    /\ UNCHANGED <<signal, ends, pump, queue, active, open, late>>

(* run_command is called: step by step for the faulty commands of the      *)
(* deployment, in one step for one that prints what the tree holds.        *)
Start ==
    /\ phase = "keyed"
    /\ phase' = "running"
    /\ call' = [call EXCEPT !.ran = head]
    /\ IF config.faulty = {}
         THEN RunShortly(tree[call.argv])
         ELSE \E c \in config.faulty : Spawn(c) \/ Refuse(c)
    /\ UNCHANGED <<config, cache, baseline, bound, logs, answer, picture,
                   explained, rejected, calls, worldVars>>

Silent == buf["stdout"] = <<>>

(* A report before ledgers: of the lines a compressor is given.  floor and *)
(* silent observe the floor it was made for and whether stdout was empty.  *)
Full(lines, level) ==
    LET text == Plain(Compress(lines, level), "")
    IN  [argv |-> call.argv, key |-> call.key, asked |-> call.asked,
         looked |-> call.looked, ran |-> call.ran, hint |-> call.hint,
         hit |-> FALSE, raw |-> lines, level |-> level, schema |-> "full",
         cut |-> FALSE, text |-> text, tokens |-> TextTokens(text),
         floor |-> call.hint.floor, silent |-> Silent]

(* git_diff answers an empty stdout without asking for a level; all other  *)
(* compressors ask.                                                        *)
LevelOf(lines) ==
    IF call.argv \in Diffs /\ Silent THEN "ultra"
    ELSE SelectLevel(LinesTokens(lines), call.hint)

(* _passthrough: the raw text clipped to max_output_tokens.                *)
Clipped(lines, max) ==
    LET fits == {n \in 0..Len(lines) :
                   LinesTokens(SubSeq(lines, 1, n)) <= max}
    IN  IF max > 0 THEN SubSeq(lines, 1, Max(fits)) ELSE lines

Passthrough(lines) ==
    LET text == Plain(Clipped(lines, call.hint.max), "")
    IN  [Full(lines, "verbose") EXCEPT !.schema = "passthrough",
           !.text = text, !.tokens = TextTokens(text)]

(* An entry of a dictionary is set.                                        *)
Put(entries, key, value) ==
    [k \in DOMAIN entries \cup {key} |-> IF k = key THEN value ELSE entries[k]]

(* _spill_to_log: the report names the log if it could be written.         *)
Pointer(lines, wrote) ==
    [Full(lines, "ultra") EXCEPT !.schema = IF wrote THEN "pointer" ELSE "lost"]

(* The report goes to the cache and to the caller.                         *)
Store(report) ==
    cache' = IF config.cache THEN Put(cache, report.key, report) ELSE cache

ResetRunner ==
    /\ cmd' = Idle
    /\ child' = "none"
    /\ signal' = "none"
    /\ ends' = [s \in Streams |-> {}]
    /\ written' = [s \in Streams |-> 0]
    /\ taken' = [s \in Streams |-> 0]
    /\ pump' = [s \in Streams |-> "done"]
    /\ queue' = <<>>
    /\ main' = "idle"
    /\ active' = 0
    /\ open' = {}
    /\ buf' = [s \in Streams |-> <<>>]
    /\ truncated' = [s \in Streams |-> FALSE]
    /\ late' = FALSE
    /\ outcome' = "none"

Captured == buf["stdout"] \o buf["stderr"]

FinishCall == phase = "running" /\ main = "done" /\ ResetRunner

(* Large output is spilled, over the log of an earlier run with that key.  *)
FinishSpilled ==
    /\ FinishCall
    /\ Returned
    /\ Len(Captured) > Threshold
    /\ \E wrote \in BOOLEAN :
         /\ logs' = IF wrote THEN Put(logs, call.key, Captured) ELSE logs
         /\ Store(Pointer(Captured, wrote))
         /\ Deliver(Pointer(Captured, wrote))
    /\ UNCHANGED <<config, baseline, bound, rejected, calls, worldVars>>

FinishUnknown ==
    /\ FinishCall
    /\ Returned
    /\ Len(Captured) <= Threshold
    /\ call.argv \notin Known
    /\ Store(Passthrough(Captured))
    /\ Deliver(Passthrough(Captured))
    /\ UNCHANGED <<config, baseline, bound, logs, rejected, calls, worldVars>>

(* Mutant of NextBaseline: only a full answer makes a baseline.            *)
NextBaselineFull(full, report) ==
    IF report.schema = "delta" THEN baseline[full.argv]
    ELSE Compress(full.raw, full.level)

(* The baseline of the next delta: what was formatted now.                 *)
NextBaseline(full, report) == Compress(full.raw, full.level)

(* Level, compressor, delta against the baseline (which is always made     *)
(* new), ledger; what is delivered is what is cached.                      *)
FinishCompressed ==
    LET a == call.argv
        full == Full(Captured, LevelOf(Captured))
        report == IF config.delta THEN SwapToDelta(baseline[a], full) ELSE full
        names == IF config.ledger = "none" THEN bound ELSE Bind(bound, report.text)
        final == IF config.ledger = "none" THEN report ELSE Ledgered(report, names)
    IN  /\ FinishCall
        /\ Returned
        /\ Len(Captured) <= Threshold
        /\ a \in Known
        /\ baseline' = IF config.delta
                         THEN [baseline EXCEPT ![a] = NextBaseline(full, report)]
                         ELSE baseline
        /\ bound' = names
        /\ rejected' = IF final.text = report.text
                         THEN rejected \cup (DOMAIN names \ DOMAIN bound)
                         ELSE rejected
        /\ Store(final)
        /\ Deliver(final)
        /\ UNCHANGED <<config, logs, calls, worldVars>>

(* run_command raised: the exception goes to the caller.                   *)
FinishRaised ==
    /\ FinishCall
    /\ ~Returned
    /\ phase' = "idle"
    /\ call' = NoCall
    /\ answer' = Nothing
    /\ UNCHANGED <<config, cache, baseline, bound, logs, picture, explained,
                   rejected, calls, worldVars>>

Running == RunnerStep /\ UNCHANGED <<worldVars, sessionVars>>

Next ==
    \/ Change
    \/ \E a \in config.argvs, hint \in config.hints : Invoke(a, hint)
    \/ Start
    \/ Running
    \/ FinishSpilled
    \/ FinishUnknown
    \/ FinishCompressed
    \/ FinishRaised

Spec == Init /\ [][Next]_vars /\ RunnerFairness

----------------------------------------------------------------------------
(* Properties                                                              *)

TypeOK ==
    /\ RunnerTypeOK
    /\ config \in Deployments
    /\ tree \in [config.argvs -> config.outputs]
    /\ head \in Heads
    /\ phase \in {"idle", "keyed", "running"}
    /\ \A k \in DOMAIN cache : cache[k].key = k /\ ~cache[k].hit
    /\ \A a \in Argvs : baseline[a] = Nothing \/ baseline[a] \in Seq(DOMAIN LineTokens)
    /\ bound \in Seq(DOMAIN LineTokens)
    /\ explained \subseteq DOMAIN bound
    /\ rejected \subseteq DOMAIN bound
    /\ calls \in 0..config.calls
    /\ changes \in 0..config.changes

(* An answer means to the agent what the command printed: read with the    *)
(* legends it has seen and the answers it has had, its lines are those the *)
(* compressor kept.  Reports may be cached or deltas, not both, and a gate *)
(* must not keep legends from the agent; after a delta that was cut short  *)
(* or the name of a log, deltas are wrong until the next full answer.      *)
AnswerUnderstood ==
    /\ answer # Nothing
    /\ answer.schema \in {"full", "delta"}
    /\ ~(config.cache /\ config.delta)
    /\ config.ledger \in {"none", "path"}
    /\ picture[answer.argv].whole
    => picture[answer.argv].lines = Range(Compress(answer.raw, answer.level))

(* An alias the agent cannot resolve was bound in a rewrite that the gate  *)
(* then rejected, legend and all; no other cause exists.                   *)
UnresolvedWereRejected ==
    answer # Nothing =>
      \A cell \in Range(answer.text) :
        cell.form = "alias" => cell.alias \in explained \cup rejected

(* "Non-regressive by construction": deltas and gated ledgers never make   *)
(* an answer longer than the compressor's own text.                        *)
NeverLonger ==
    /\ answer # Nothing
    /\ answer.schema \in {"full", "delta"}
    /\ config.ledger # "path"
    => answer.tokens <= LinesTokens(Compress(answer.raw, answer.level))

(* An answer below the floor of quality its caller set is a replay of a    *)
(* report made for a lower floor, or stands for a log, or for a diff that  *)
(* printed nothing.                                                        *)
FloorKept ==
    answer # Nothing /\ Levels[answer.level] < Levels[answer.hint.floor] =>
      \/ answer.hit /\ Levels[answer.floor] < Levels[answer.hint.floor]
      \/ answer.schema \in {"pointer", "lost"}
      \/ answer.argv \in Diffs /\ answer.silent

(* A checkout alone is seen: an answer given under a HEAD is something its *)
(* command has printed under that HEAD, up to the cap, unless HEAD moved   *)
(* between the key and the start of the run that made it.  The key         *)
(* warrants no more; an edit of the working tree is not seen.              *)
CheckoutSeen ==
    answer # Nothing /\ config.faulty = {} =>
      \/ \E p \in printed :
           <<answer.argv, answer.asked, answer.raw>> = <<p[1], p[2], Kept(p[3])>>
      \/ answer.looked # answer.ran

=============================================================================
