------------------------------ MODULE CmdProofs -----------------------------
(***************************************************************************)
(* compress_command, proved for every deployment: the inductive invariant  *)
(* SessionInv beside RunnerInv, and what follows from it for the agent.    *)
(*                                                                         *)
(* A report is followed from the output it is made of: a compressor keeps  *)
(* some lines of it, a delta takes its place where that is shorter, a      *)
(* ledger rewrites the lines, and the cache replays it.  SessionInv says   *)
(* that every report given or cached is sound in this sense, that every    *)
(* alias was explained or thrown away, and that the baseline of a delta is *)
(* what the agent holds.                                                   *)
(***************************************************************************)
EXTENDS CmdSession, CmdRunnerProofs

(* A cell of a text.                                                       *)
Cell ==
    [line : Bytes, form : {"full", "legend", "alias"}, alias : Nat, sign : {"", "+", "-"}]

----------------------------------------------------------------------------
(* The data                                                                *)

(* A plain text shows every line in full.                                  *)
LEMMA PlainCells ==
    ASSUME NEW lines \in Seq(Bytes), NEW sign \in {"", "+", "-"}
    PROVE  /\ Plain(lines, sign) \in Seq(Cell)
           /\ DOMAIN Plain(lines, sign) = DOMAIN lines
           /\ \A i \in DOMAIN lines :
                Plain(lines, sign)[i] =
                  [line |-> lines[i], form |-> "full", alias |-> 0, sign |-> sign]
<1>1. Len(lines) \in Nat /\ DOMAIN lines = 1..Len(lines) /\ \A i \in DOMAIN lines : lines[i] \in Bytes
  BY Zenon, LenProperties, ElementOfSeq
<1>2. ASSUME NEW i \in DOMAIN lines
      PROVE  [line |-> lines[i], form |-> "full", alias |-> 0, sign |-> sign] \in Cell
  <2>1. lines[i] \in Bytes
    BY Zenon, <1>1
  <2>. QED BY Zenon, <2>1 DEF Cell
<1>3. Plain(lines, sign) \in [1..Len(lines) -> Cell]
  BY Zenon, <1>1, <1>2 DEF Plain
<1>4. Plain(lines, sign) \in Seq(Cell)
  BY Zenon, <1>1, <1>3, SeqDef
<1>. QED BY Zenon, <1>1, <1>4 DEF Plain

(* The tokens of a text are a natural number.                              *)
LEMMA TokensOfText ==
    ASSUME NEW text \in Seq(Cell) PROVE TextTokens(text) \in Nat
<1> DEFINE f == [i \in DOMAIN text |-> CellTokens(text[i])]
<1>1. Len(text) \in Nat /\ DOMAIN text = 1..Len(text) /\ IsFiniteSet(1..Len(text))
  BY FS_Interval
<1>2. ASSUME NEW i \in DOMAIN text PROVE f[i] \in Nat
  <2>1. text[i] \in Cell
    BY <1>1
  <2>2. /\ text[i].form \in {"full", "legend", "alias"}
        /\ LineTokens[text[i].line] \in Nat
    BY Zenon, <2>1, CommandConstants DEF Cell
  <2>3. CellTokens(text[i]) \in Nat
    <3> DEFINE sign == IF text[i].sign = "" THEN 0 ELSE 1
               cost == LineTokens[text[i].line]
    <3>1. CellTokens(text[i]) \in {sign + cost, sign + (cost + 1), sign + 1}
      BY Zenon, <2>2 DEF CellTokens
    <3>2. sign \in Nat /\ cost \in Nat
      BY <2>2
    <3> HIDE DEF sign, cost
    <3>. QED BY <3>1, <3>2
  <2>. QED BY <2>3
<1>3. DOMAIN f = DOMAIN text
  OBVIOUS
<1> HIDE DEF f
<1>4. SumFunctionOnSet(f, DOMAIN text) \in Nat
  BY <1>1, <1>2, SumNat
<1>. QED BY <1>3, <1>4 DEF TextTokens, SumFunction, f

(* The function that the definition of Only chooses.                       *)
Keeps(kept, lines, wanted, m) ==
    kept = [n \in 0..m |->
              IF n = 0 THEN <<>>
              ELSE IF lines[n] \in wanted THEN Append(kept[n - 1], lines[n])
              ELSE kept[n - 1]]

(* There is such a function, by induction on the length.                   *)
LEMMA KeepsExists ==
    ASSUME NEW lines, NEW wanted, NEW m \in Nat
    PROVE  \E kept : Keeps(kept, lines, wanted, m)
<1> DEFINE S == {k \in Nat : \E kept : Keeps(kept, lines, wanted, k)}
<1>1. 0 \in S
  <2>1. Keeps([n \in 0..0 |-> <<>>], lines, wanted, 0)
    BY DEF Keeps
  <2>. QED BY <2>1
<1>2. ASSUME NEW k \in Nat, k \in S PROVE k + 1 \in S
  <2>1. PICK g : Keeps(g, lines, wanted, k)
    BY <1>2
  <2> DEFINE h == [n \in 0..(k + 1) |->
                     IF n = 0 THEN <<>>
                     ELSE IF lines[n] \in wanted THEN Append(g[n - 1], lines[n])
                     ELSE g[n - 1]]
  <2>2. ASSUME NEW n \in 0..k PROVE h[n] = g[n]
    <3>1. n \in 0..(k + 1)
      OBVIOUS
    <3>2. g[n] = IF n = 0 THEN <<>>
                 ELSE IF lines[n] \in wanted THEN Append(g[n - 1], lines[n])
                 ELSE g[n - 1]
      BY Zenon, <2>1 DEF Keeps
    <3>. QED BY Zenon, <3>1, <3>2
  <2>3. ASSUME NEW n \in 0..(k + 1), n # 0 PROVE h[n - 1] = g[n - 1]
    <3>1. n - 1 \in 0..k
      BY <2>3
    <3> HIDE DEF h
    <3>. QED BY <2>2, <3>1
  <2>4. Keeps(h, lines, wanted, k + 1)
    BY <2>3 DEF Keeps
  <2>. QED BY <2>4
<1>3. Nat \subseteq S
  <2> HIDE DEF S
  <2> QED BY <1>1, <1>2, NatSetInduction
<1>. QED BY <1>3

(* What is in a sequence after an Append.                                  *)
LEMMA RangeAppend ==
    ASSUME NEW S, NEW s \in Seq(S), NEW x \in S
    PROVE  Range(Append(s, x)) = Range(s) \cup {x}
<1>1. /\ Len(s) \in Nat
      /\ DOMAIN s = 1..Len(s)
      /\ DOMAIN Append(s, x) = 1..(Len(s) + 1)
      /\ \A i \in 1..Len(s) : Append(s, x)[i] = s[i]
      /\ Append(s, x)[Len(s) + 1] = x
  OBVIOUS
<1>2. 1..(Len(s) + 1) = 1..Len(s) \cup {Len(s) + 1}
  BY <1>1
<1>. QED BY <1>1, <1>2 DEF Range

(* Only returns the lines that are wanted, and no other.                   *)
LEMMA OnlyWanted ==
    ASSUME NEW lines \in Seq(Bytes), NEW wanted
    PROVE  /\ Only(lines, wanted) \in Seq(Bytes)
           /\ Range(Only(lines, wanted)) = Range(lines) \cap wanted
<1> DEFINE m == Len(lines)
<1>1. m \in Nat /\ DOMAIN lines = 1..m /\ \A n \in 1..m : lines[n] \in Bytes
  OBVIOUS
<1> HIDE DEF m
<1>2. PICK kept : Keeps(kept, lines, wanted, m) /\ Only(lines, wanted) = kept[m]
  <2>1. Only(lines, wanted) = (CHOOSE kept : Keeps(kept, lines, wanted, m))[m]
    BY DEF Only, Keeps, m
  <2>. QED BY <1>1, <2>1, KeepsExists
<1> DEFINE Holds(n) == /\ kept[n] \in Seq(Bytes)
                       /\ Range(kept[n]) = {lines[i] : i \in 1..n} \cap wanted
           S == {n \in Nat : n <= m => Holds(n)}
<1>3. 0 \in S
  <2>1. kept[0] = <<>>
    BY <1>1, <1>2 DEF Keeps
  <2>2. kept[0] \in Seq(Bytes) /\ DOMAIN kept[0] = {} /\ 1..0 = {}
    BY <2>1
  <2>. QED BY <2>2 DEF Range
<1>4. ASSUME NEW n \in Nat, n \in S PROVE n + 1 \in S
  <2> SUFFICES ASSUME n + 1 <= m PROVE Holds(n + 1)
    OBVIOUS
  <2>1. /\ n + 1 \in 1..m /\ n <= m /\ n + 1 \in 0..m /\ n + 1 # 0 /\ (n + 1) - 1 = n
        /\ lines[n + 1] \in Bytes
    BY <1>1
  <2>2. Holds(n)
    BY <1>4, <2>1
  <2>3. kept[n + 1] = IF lines[n + 1] \in wanted THEN Append(kept[n], lines[n + 1]) ELSE kept[n]
    BY <1>2, <2>1 DEF Keeps
  <2>4. {lines[i] : i \in 1..(n + 1)} = {lines[i] : i \in 1..n} \cup {lines[n + 1]}
    <3>1. 1..(n + 1) = 1..n \cup {n + 1}
      OBVIOUS
    <3>. QED BY Zenon, <3>1
  <2>5. CASE lines[n + 1] \in wanted
    <3>1. kept[n + 1] = Append(kept[n], lines[n + 1])
      BY <2>3, <2>5
    <3>2. Range(Append(kept[n], lines[n + 1])) = Range(kept[n]) \cup {lines[n + 1]}
      BY <2>1, <2>2, RangeAppend
    <3>. QED BY <2>1, <2>2, <2>4, <2>5, <3>1, <3>2
  <2>6. CASE lines[n + 1] \notin wanted
    BY <2>2, <2>3, <2>4, <2>6
  <2>. QED BY <2>5, <2>6
<1>5. Nat \subseteq S
  <2> HIDE DEF S
  <2> QED BY <1>3, <1>4, NatSetInduction
<1>6. Range(lines) = {lines[i] : i \in 1..m}
  BY <1>1 DEF Range
<1>7. Holds(m)
  <2>1. m \in S
    <3> HIDE DEF S
    <3>. QED BY <1>1, <1>5
  <2>2. m <= m
    BY <1>1
  <2> HIDE DEF Holds
  <2>. QED BY <2>1, <2>2
<1>. QED BY Zenon, <1>2, <1>6, <1>7

(* The function that the definition of Bind chooses.                       *)
BindOne(known, line) ==
    IF \/ line \in Range(known)
       \/ config.ledger = "symbol" /\ Len(known) >= MaxAliases
      THEN known ELSE Append(known, line)

(* The function that the definition of Bind chooses.                       *)
Binds(names, old, text, m) ==
    names = [n \in 0..m |->
               IF n = 0 THEN old ELSE BindOne(names[n - 1], text[n].line)]

(* There is such a function, by induction on the length.                   *)
LEMMA BindsExists ==
    ASSUME NEW old, NEW text, NEW m \in Nat
    PROVE  \E names : Binds(names, old, text, m)
<1> DEFINE S == {k \in Nat : \E names : Binds(names, old, text, k)}
<1>1. 0 \in S
  <2>1. Binds([n \in 0..0 |-> old], old, text, 0)
    BY DEF Binds
  <2>. QED BY <2>1
<1>2. ASSUME NEW k \in Nat, k \in S PROVE k + 1 \in S
  <2>1. PICK g : Binds(g, old, text, k)
    BY <1>2
  <2> DEFINE h == [n \in 0..(k + 1) |->
                     IF n = 0 THEN old ELSE BindOne(g[n - 1], text[n].line)]
  <2>2. ASSUME NEW n \in 0..k PROVE h[n] = g[n]
    <3>1. n \in 0..(k + 1)
      OBVIOUS
    <3>2. g[n] = IF n = 0 THEN old ELSE BindOne(g[n - 1], text[n].line)
      BY Zenon, <2>1 DEF Binds
    <3>. QED BY Zenon, <3>1, <3>2
  <2>3. ASSUME NEW n \in 0..(k + 1), n # 0 PROVE h[n - 1] = g[n - 1]
    <3>1. n - 1 \in 0..k
      BY <2>3
    <3> HIDE DEF h
    <3>. QED BY <2>2, <3>1
  <2>4. Binds(h, old, text, k + 1)
    BY <2>3 DEF Binds
  <2>. QED BY <2>4
<1>3. Nat \subseteq S
  <2> HIDE DEF S
  <2> QED BY <1>1, <1>2, NatSetInduction
<1>. QED BY <1>3

(* No line has two names.                                                  *)
Distinct(names) == \A i, j \in DOMAIN names : names[i] = names[j] => i = j

(* A ledger gives new names to lines of the text that have none, and never *)
(* changes one it gave.                                                    *)
LEMMA BindExtends ==
    ASSUME NEW old \in Seq(Bytes), Distinct(old), NEW text \in Seq(Cell)
    PROVE  /\ Bind(old, text) \in Seq(Bytes)
           /\ Distinct(Bind(old, text))
           /\ Len(old) <= Len(Bind(old, text))
           /\ \A i \in DOMAIN old : Bind(old, text)[i] = old[i]
           /\ \A i \in DOMAIN Bind(old, text) \ DOMAIN old :
                \E k \in DOMAIN text : text[k].line = Bind(old, text)[i]
<1> DEFINE m == Len(text)
<1>1. /\ m \in Nat /\ DOMAIN text = 1..m
      /\ \A n \in 1..m : text[n] \in Cell /\ text[n].line \in Bytes
  <2>1. m \in Nat /\ DOMAIN text = 1..m /\ \A n \in 1..m : text[n] \in Cell
    BY LenProperties, ElementOfSeq
  <2>. QED BY Zenon, <2>1 DEF Cell
<1>2. PICK names : Binds(names, old, text, m) /\ Bind(old, text) = names[m]
  <2>1. Bind(old, text) = (CHOOSE names : Binds(names, old, text, m))[m]
    BY DEF Bind, Binds, BindOne
  <2> HIDE DEF m
  <2>. QED BY <1>1, <2>1, BindsExists
<1> HIDE DEF m
<1> DEFINE Holds(new) ==
             /\ new \in Seq(Bytes)
             /\ Distinct(new)
             /\ Len(old) <= Len(new)
             /\ \A i \in DOMAIN old : new[i] = old[i]
             /\ \A i \in DOMAIN new \ DOMAIN old : \E k \in DOMAIN text : text[k].line = new[i]
           S == {n \in Nat : n <= m => Holds(names[n])}
<1>3. 0 \in S
  <2>1. names[0] = old
    BY <1>1, <1>2 DEF Binds
  <2>2. Len(old) <= Len(old)
    OBVIOUS
  <2>. QED BY <2>1, <2>2
<1>4. ASSUME NEW new \in Seq(Bytes), Holds(new), NEW n \in 1..m
      PROVE  Holds(BindOne(new, text[n].line))
  <2>0. PICK line \in Bytes : line = text[n].line
    BY <1>1
  <2>1. CASE BindOne(new, line) = new
    BY <1>4, <2>0, <2>1
  <2>2. CASE BindOne(new, line) # new
    <3>1. line \notin Range(new) /\ BindOne(new, line) = Append(new, line)
      BY <2>2 DEF BindOne
    <3> DEFINE more == Append(new, line)
    <3>2. /\ more \in Seq(Bytes)
          /\ Len(new) \in Nat /\ Len(old) \in Nat
          /\ Len(more) = Len(new) + 1
          /\ DOMAIN old = 1..Len(old)
          /\ DOMAIN new = 1..Len(new)
          /\ DOMAIN more = 1..(Len(new) + 1)
          /\ \A i \in 1..Len(new) : more[i] = new[i]
          /\ more[Len(new) + 1] = line
      OBVIOUS
    <3> HIDE DEF more
    <3>3. \A i \in DOMAIN more : i \in DOMAIN new \/ i = Len(new) + 1
      BY <3>2
    <3>4. \A i \in DOMAIN new : more[i] # line
      BY <3>1, <3>2 DEF Range
    <3>5. Distinct(more)
      BY <1>4, <3>2, <3>3, <3>4 DEF Distinct
    <3>6. Len(old) <= Len(more) /\ \A i \in DOMAIN old : i \in DOMAIN new
      BY <1>4, <3>2
    <3>7. \A i \in DOMAIN old : more[i] = old[i]
      BY <1>4, <3>2, <3>6
    <3>8. ASSUME NEW i \in DOMAIN more \ DOMAIN old
          PROVE  \E k \in DOMAIN text : text[k].line = more[i]
      BY <1>1, <1>4, <2>0, <3>2, <3>3, <3>8
    <3>9. Holds(more)
      BY <3>2, <3>5, <3>6, <3>7, <3>8
    <3>. QED BY <2>0, <3>1, <3>9 DEF more
  <2>. QED BY <2>1, <2>2
<1>5. ASSUME NEW n \in Nat, n \in S PROVE n + 1 \in S
  <2> SUFFICES ASSUME n + 1 <= m PROVE Holds(names[n + 1])
    OBVIOUS
  <2>1. n + 1 \in 1..m /\ n <= m /\ n + 1 \in 0..m /\ n + 1 # 0 /\ (n + 1) - 1 = n
    BY <1>1
  <2>2. Holds(names[n])
    BY <1>5, <2>1
  <2>3. names[n + 1] = BindOne(names[n], text[n + 1].line)
    BY <1>2, <2>1 DEF Binds
  <2> HIDE DEF Holds
  <2>4. names[n] \in Seq(Bytes)
    BY <2>2 DEF Holds
  <2>. QED BY <1>4, <2>1, <2>2, <2>3, <2>4
<1>6. Nat \subseteq S
  <2> HIDE DEF S
  <2> QED BY <1>3, <1>5, NatSetInduction
<1>7. Holds(names[m])
  <2>1. m \in S
    <3> HIDE DEF S
    <3>. QED BY <1>1, <1>6
  <2>2. m <= m
    BY <1>1
  <2> HIDE DEF Holds
  <2>. QED BY <2>1, <2>2
<1>. QED BY Zenon, <1>2, <1>7

(* A compressor shows lines of its input.                                  *)
LEMMA CompressedLines ==
    ASSUME NEW lines \in Seq(Bytes), NEW level \in DOMAIN Levels
    PROVE  Compress(lines, level) \in Seq(Bytes)
<1>1. level \in {"ultra", "compact", "verbose"}
  BY DEF Levels
<1>2. <<>> \in Seq(Bytes)
  OBVIOUS
<1>. QED BY <1>1, <1>2, OnlyWanted DEF Compress

(* The level is at or above the floor, whatever the budget.                *)
LEMMA SelectedAboveFloor ==
    ASSUME NEW raw, NEW hint, hint.floor \in DOMAIN Levels
    PROVE  /\ SelectLevel(raw, hint) \in DOMAIN Levels
           /\ Levels[SelectLevel(raw, hint)] >= Levels[hint.floor]
<1>1. /\ DOMAIN Levels = {"ultra", "compact", "verbose"}
      /\ \A level \in DOMAIN Levels : Levels[level] \in Nat
  BY DEF Levels
<1>2. \A level \in DOMAIN Levels :
        /\ AtLeast(level, hint.floor) \in DOMAIN Levels
        /\ Levels[AtLeast(level, hint.floor)] >= Levels[hint.floor]
  <2> HIDE DEF Levels
  <2>. QED BY <1>1 DEF AtLeast
<1>3. \E level \in DOMAIN Levels : SelectLevel(raw, hint) = AtLeast(level, hint.floor)
  BY <1>1 DEF SelectLevel
<1>. QED BY <1>2, <1>3

(* But for a diff that printed nothing.                                    *)
LEMMA LevelAboveFloor ==
    ASSUME NEW lines, call.hint.floor \in DOMAIN Levels
    PROVE  /\ LevelOf(lines) \in DOMAIN Levels
           /\ \/ Levels[LevelOf(lines)] >= Levels[call.hint.floor]
              \/ call.argv \in Diffs /\ Silent
<1>1. "ultra" \in DOMAIN Levels
  BY DEF Levels
<1>. QED BY Zenon, <1>1, SelectedAboveFloor DEF LevelOf

----------------------------------------------------------------------------
(* The inductive invariant of a session                                    *)

(* The fields of a report.                                                 *)
Fields == {"argv", "key", "asked", "looked", "ran", "hint", "hit", "raw", "level",
           "schema", "cut", "text", "tokens", "floor", "silent"}

(* The fields of a call.                                                   *)
CallFields == {"argv", "hint", "key", "asked", "looked", "ran"}

(* A command printed raw, up to the cap, under head h.                     *)
Witnessed(seen, a, h, raw) ==
    \E p \in seen : <<a, h, raw>> = <<p[1], p[2], Kept(p[3])>>

(* The agent can read every answer: what it holds is what was printed.     *)
Clear(cfg) == ~(cfg.cache /\ cfg.delta) /\ cfg.ledger \in {"none", "path"}

(* The lines of a text under a sign.                                       *)
LinesOf(text, sign) == {c.line : c \in {d \in Range(text) : d.sign = sign}}

(* A report keeps the floor it was made for, or stands for a log or for a  *)
(* diff that printed nothing; only a replay is given for another floor.    *)
Floored(r) ==
    /\ r.hit = TRUE \/ r.floor = r.hint.floor
    /\ r.floor \in DOMAIN Levels /\ r.hint.floor \in DOMAIN Levels
    /\ Levels[r.level] < Levels[r.floor] =>
         r.schema \in {"pointer", "lost"} \/ (r.argv \in Diffs /\ r.silent)

(* What is true of a report, for the answer and for a cached one.          *)
Sound(r, cfg, seen, names) ==
    /\ DOMAIN r = Fields
    /\ r.argv \in cfg.argvs
    /\ r.level \in DOMAIN Levels
    /\ r.raw \in Seq(Bytes)
    /\ r.text \in Seq(Cell)
    /\ r.tokens \in Int
    /\ r.key = <<r.argv, r.looked>>
    /\ cfg.faulty = {} => Witnessed(seen, r.argv, r.looked, r.raw) \/ r.looked # r.ran
    /\ \A c \in Range(r.text) : c.form \in {"legend", "alias"} => c.alias \in names
    /\ r.schema \in {"full", "delta"} /\ cfg.ledger # "path" =>
         r.tokens <= LinesTokens(Compress(r.raw, r.level))
    /\ r.schema = "full" => LinesOf(r.text, "") = Range(Compress(r.raw, r.level))
    /\ r.schema = "delta" => cfg.delta
    /\ Floored(r)

(* The types of the session, and how its phase goes with the runner.       *)
SessionOK ==
    /\ config \in Deployments
    /\ tree \in [config.argvs -> config.outputs]
    /\ head \in Heads
    /\ phase \in {"idle", "keyed", "running"}
    /\ calls \in 0..config.calls
    /\ changes \in 0..config.changes
    /\ phase # "running" => main = "idle"
    /\ phase # "idle" =>
         /\ DOMAIN call = CallFields
         /\ call.argv \in config.argvs
         /\ call.hint \in config.hints
         /\ call.asked = call.looked
         /\ call.key = <<call.argv, call.looked>>
    /\ \A a \in config.argvs : <<a, head, tree[a]>> \in printed

(* A command that prints the tree has run when its call goes on.           *)
RunOK ==
    phase = "running" /\ config.faulty = {} =>
      /\ main = "done"
      /\ child = "exited"
      /\ \A s \in Streams : ends[s] = {} /\ pump[s] = "done"
      /\ Returned => Witnessed(printed, call.argv, call.ran, Captured)

(* The answer and every cached report are sound.                           *)
ReportsOK ==
    /\ \A k \in DOMAIN cache : /\ Sound(cache[k], config, printed, DOMAIN bound)
                               /\ cache[k].key = k
                               /\ cache[k].hit = FALSE
    /\ answer # Nothing =>
         /\ Sound(answer, config, printed, DOMAIN bound)
         /\ answer.asked = answer.looked

(* Every name a ledger gave was explained to the agent, or rejected; where *)
(* no gate can reject a rewrite, it was explained.                         *)
LedgerOK ==
    /\ bound \in Seq(Bytes)
    /\ Distinct(bound)
    /\ explained \subseteq DOMAIN bound
    /\ rejected \subseteq DOMAIN bound
    /\ DOMAIN bound \subseteq explained \cup rejected
    /\ config.ledger \in {"none", "path"} => DOMAIN bound \subseteq explained

(* The baselines of deltas are what the agent holds.                       *)
PicturesOK ==
    /\ DOMAIN baseline = Argvs
    /\ DOMAIN picture = Argvs
    /\ \A a \in Argvs :
         /\ baseline[a] = Nothing \/ baseline[a] \in Seq(Bytes)
         /\ a \notin Known \/ ~config.delta => baseline[a] = Nothing
         /\ Clear(config) /\ baseline[a] # Nothing /\ picture[a].whole =>
              picture[a].lines = Range(baseline[a])
    /\ AnswerUnderstood

(* With RunnerInv, the inductive invariant of compress_command.            *)
SessionInv == SessionOK /\ RunOK /\ ReportsOK /\ LedgerOK /\ PicturesOK

(* What the configuration of a deployment is.                              *)
LEMMA ConfigOK ==
    ASSUME config \in Deployments
    PROVE  /\ config.argvs \subseteq Argvs
           /\ config.cache \in BOOLEAN
           /\ config.delta \in BOOLEAN
           /\ config.ledger \in {"none", "path", "block", "symbol"}
           /\ \A hint \in config.hints : hint.floor \in DOMAIN Levels
           /\ config.outputs \subseteq Seq(Bytes)
           /\ \A c \in config.faulty : IsCommand(c)
           /\ config.calls \in Nat
           /\ config.changes \in Nat
BY CommandConstants

(* What is true of a report stays true.                                    *)
LEMMA SoundStays ==
    ASSUME NEW r, NEW cfg, NEW seen, NEW more, seen \subseteq more,
           NEW names, NEW new, names \subseteq new, Sound(r, cfg, seen, names)
    PROVE  Sound(r, cfg, more, new)
BY Zenon DEF Sound, Witnessed

----------------------------------------------------------------------------
(* The runner within a session                                             *)

(* A runner that is quiet satisfies its invariant.                         *)
LEMMA QuietNext == Quiet' => RunnerInv'
BY QuietInv, PTL

(* The runner is quiet again when a call is over.                          *)
LEMMA ResetInv ==
    ASSUME ResetRunner PROVE RunnerInv'
BY QuietNext DEF ResetRunner, Quiet

(* What is kept of an output is a prefix of it, no longer than the cap.    *)
LEMMA KeptLines ==
    ASSUME NEW lines \in Seq(Bytes)
    PROVE  /\ Kept(lines) \in Seq(Bytes)
           /\ Len(lines) \in Nat
           /\ Len(Kept(lines)) = IF Len(lines) > Cap THEN Cap ELSE Len(lines)
           /\ Kept(lines) = SubSeq(lines, 1, Len(Kept(lines)))
<1>1. Len(lines) \in Nat /\ Cap \in Nat \ {0}
  BY RunnerConstants
<1>2. PICK k \in Nat : /\ k = IF Len(lines) > Cap THEN Cap ELSE Len(lines)
                       /\ Min({Cap, Len(lines)}) = k
  <2> DEFINE n == Len(lines)
  <2>1. n \in Int /\ Cap \in Int
    BY <1>1
  <2> HIDE DEF n
  <2>2. Min({Cap, n}) = IF Cap <= n THEN Cap ELSE n
    BY <2>1, MinOfTwo
  <2>3. Min({Cap, n}) = (IF n > Cap THEN Cap ELSE n) /\ (IF n > Cap THEN Cap ELSE n) \in Nat
    BY <1>1, <2>1, <2>2 DEF n
  <2>. QED BY <2>3 DEF n
<1>3. Kept(lines) = SubSeq(lines, 1, k)
  BY <1>2 DEF Kept
<1>4. SubSeq(lines, 1, k) \in Seq(Bytes) /\ Len(SubSeq(lines, 1, k)) = k
  BY <1>1, <1>2
<1>. QED BY <1>1, <1>2, <1>3, <1>4

(* A command that prints lines and ends, in one step.                      *)
LEMMA ShortRunInv ==
    ASSUME RunnerInv, NEW lines \in Seq(Bytes), RunShortly(lines)
    PROVE  /\ RunnerInv'
           /\ main' = "done"
           /\ child' = "exited"
           /\ \A s \in Streams : ends'[s] = {} /\ pump'[s] = "done"
           /\ Returned' => Captured' = Kept(lines)
<1>1. Quiet
  BY DEF RunnerInv, RunShortly
<1>2. /\ cmd' = [Idle EXCEPT !.output["stdout"] = lines]
      /\ child' = "exited" /\ main' = "done"
      /\ UNCHANGED <<signal, ends, pump, queue, active, open, late>>
  BY DEF RunShortly
<1>3. /\ "stdout" \in Streams /\ "stderr" \in Streams /\ "stdout" # "stderr"
      /\ \A s \in Streams : s = "stdout" \/ s = "stderr"
  BY DEF Streams
<1>4. /\ IsCommand(cmd')
      /\ cmd'.output["stdout"] = lines
      /\ cmd'.output["stderr"] = <<>>
  <2>1. PICK none : none = [s \in Streams |-> <<>>]
    OBVIOUS
  <2>2. PICK out : out = [none EXCEPT !["stdout"] = lines]
    OBVIOUS
  <2>3. cmd' = [Idle EXCEPT !.output = out]
    BY <1>2, <2>1, <2>2 DEF Idle
  <2>4. cmd'.output = out /\ DOMAIN cmd' = DOMAIN Idle
    BY <2>3 DEF Idle
  <2>5. out \in [Streams -> Seq(Bytes)] /\ out["stdout"] = lines /\ out["stderr"] = <<>>
    <3>0. <<>> \in Seq(Bytes)
      OBVIOUS
    <3>1. PICK nil \in Seq(Bytes) : nil = <<>>
      BY <3>0
    <3>2. none = [s \in Streams |-> nil]
      BY <2>1, <3>1
    <3>. QED BY <1>3, <2>2, <3>1, <3>2
  <2>. QED BY <2>4, <2>5 DEF IsCommand
<1>5. PICK kept, size : kept = Kept(lines) /\ size = Len(lines)
  OBVIOUS
<1>6. /\ kept \in Seq(Bytes)
      /\ size \in Nat
      /\ Len(kept) = IF size > Cap THEN Cap ELSE size
      /\ kept = SubSeq(lines, 1, Len(kept))
      /\ Cap \in Nat
  BY <1>5, KeptLines, RunnerConstants
<1>7. /\ \A s \in Streams : /\ buf[s] = <<>> /\ written[s] = 0 /\ taken[s] = 0
                            /\ truncated[s] = FALSE /\ ends[s] = {} /\ pump[s] = "done"
      /\ DOMAIN buf = Streams /\ DOMAIN written = Streams /\ DOMAIN taken = Streams
      /\ DOMAIN truncated = Streams
  BY <1>1 DEF Quiet
<1>8. \/ /\ outcome' = IF size > Cap THEN "capped" ELSE "returned"
         /\ buf' = [buf EXCEPT !["stdout"] = kept]
         /\ truncated' = [truncated EXCEPT !["stdout"] = size > Cap]
         /\ written' = [written EXCEPT !["stdout"] = size]
         /\ taken' = [taken EXCEPT !["stdout"] = size]
      \/ outcome' = "timeout" /\ UNCHANGED <<buf, truncated, written, taken>>
  BY <1>5 DEF RunShortly
<1>9. /\ buf'["stderr"] = <<>> /\ written'["stderr"] = 0 /\ taken'["stderr"] = 0
      /\ truncated'["stderr"] = FALSE
      /\ buf' \in [Streams -> Seq(Bytes)]
      /\ written' \in [Streams -> Nat]
      /\ taken' \in [Streams -> Nat]
      /\ truncated' \in [Streams -> BOOLEAN]
      /\ \/ /\ outcome' = IF size > Cap THEN "capped" ELSE "returned"
            /\ buf'["stdout"] = kept
            /\ truncated'["stdout"] = (size > Cap)
            /\ written'["stdout"] = size
            /\ taken'["stdout"] = size
         \/ /\ outcome' = "timeout"
            /\ buf'["stdout"] = <<>>
            /\ truncated'["stdout"] = FALSE
            /\ written'["stdout"] = 0
            /\ taken'["stdout"] = 0
  <2>. <<>> \in Seq(Bytes)
    OBVIOUS
  <2>0. PICK nil \in Seq(Bytes) : nil = <<>>
    OBVIOUS
  <2>9. /\ written = [s \in Streams |-> 0] /\ taken = [s \in Streams |-> 0]
        /\ buf = [s \in Streams |-> nil] /\ truncated = [s \in Streams |-> FALSE]
    BY <1>1, <2>0 DEF Quiet
  <2>1. \A s \in Streams : buf[s] = nil /\ nil \in Seq(Bytes)
    BY <1>7, <2>0
  <2>2. CASE outcome' = "timeout" /\ UNCHANGED <<buf, truncated, written, taken>>
    <3>1. buf' \in [Streams -> Seq(Bytes)]
      BY <2>2, <2>9
    <3>2. /\ written' \in [Streams -> Nat] /\ taken' \in [Streams -> Nat]
          /\ truncated' \in [Streams -> BOOLEAN]
      BY <2>2, <2>9
    <3>. QED BY <1>3, <1>7, <2>2, <3>1, <3>2
  <2>3. CASE /\ outcome' = IF size > Cap THEN "capped" ELSE "returned"
             /\ buf' = [buf EXCEPT !["stdout"] = kept]
             /\ truncated' = [truncated EXCEPT !["stdout"] = size > Cap]
             /\ written' = [written EXCEPT !["stdout"] = size]
             /\ taken' = [taken EXCEPT !["stdout"] = size]
    <3>1. /\ buf' \in [Streams -> Seq(Bytes)]
          /\ buf'["stdout"] = kept /\ buf'["stderr"] = nil
      BY <1>3, <1>6, <1>7, <2>0, <2>1, <2>3
    <3>2. /\ written' \in [Streams -> Nat]
          /\ written'["stdout"] = size /\ written'["stderr"] = 0
      BY <1>3, <1>6, <2>3, <2>9
    <3>3. /\ taken' \in [Streams -> Nat]
          /\ taken'["stdout"] = size /\ taken'["stderr"] = 0
      BY <1>3, <1>6, <2>3, <2>9
    <3>5. /\ truncated' \in [Streams -> BOOLEAN]
          /\ truncated'["stdout"] = (size > Cap) /\ truncated'["stderr"] = FALSE
      <4> DEFINE flag == size > Cap
      <4>1. truncated' = [truncated EXCEPT !["stdout"] = flag]
        BY <2>3
      <4>2. flag = TRUE \/ flag = FALSE
        OBVIOUS
      <4> HIDE DEF flag
      <4>3. /\ truncated' \in [Streams -> BOOLEAN]
            /\ truncated'["stdout"] = flag /\ truncated'["stderr"] = FALSE
        BY <1>3, <2>9, <4>1, <4>2
      <4>. QED BY <4>3 DEF flag
    <3>. QED BY Zenon, <2>0, <2>3, <3>1, <3>2, <3>3, <3>5
  <2>. QED BY <1>8, <2>2, <2>3
<1>10. ASSUME NEW s \in Streams
       PROVE  /\ written'[s] \in 0..Len(cmd'.output[s])
              /\ taken'[s] = written'[s]
              /\ taken'[s] \in 0..written'[s]
              /\ written'[s] - taken'[s] <= PipeSize
              /\ Len(buf'[s]) <= Cap
              /\ buf'[s] = SubSeq(cmd'.output[s], 1, Len(buf'[s]))
              /\ truncated'[s] => Len(buf'[s]) = Cap /\ written'[s] > Cap
              /\ outcome' = "returned" => Len(buf'[s]) = taken'[s]
  <2>0. /\ Len(<<>>) = 0 /\ SubSeq(lines, 1, 0) = <<>> /\ SubSeq(<<>>, 1, 0) = <<>>
        /\ PipeSize \in Nat
    BY RunnerConstants
  <2>1. CASE s = "stderr"
    BY <1>4, <1>6, <1>9, <2>0, <2>1
  <2>2. CASE s = "stdout"
    BY <1>4, <1>5, <1>6, <1>9, <2>0, <2>2
  <2>. QED BY <1>3, <2>1, <2>2
<1>11. RunnerTypeOK'
  <2>1. outcome' \in {"none", "eof", "cap", "deadline", "returned", "capped", "timeout",
                      "reap_timeout", "refused"}
    BY <1>9
  <2>2. /\ signal' \in {"none", "TERM", "KILL"}
        /\ ends' \in [Streams -> SUBSET {"child", "grandchild"}]
        /\ pump' \in [Streams -> {"loop", "reading", "done"}]
        /\ queue' \in Seq(Streams \X Seq(Bytes))
        /\ active' \in 0..2 /\ open' \subseteq Streams /\ late' \in BOOLEAN
    BY <1>2 DEF RunnerInv, RunnerTypeOK
  <2>3. main' \in {"idle", "loop", "term", "kill", "close", "done"}
        /\ child' \in {"none", "alive", "exited"}
    BY <1>2
  <2>. QED BY Zenon, <1>4, <1>9, <1>10, <2>1, <2>2, <2>3 DEF RunnerTypeOK
<1>12. Captures'
  <2>1. \A s \in Streams : ends'[s] = {}
    BY <1>2, <1>7
  <2>2. outcome' \in {"cap", "capped"} => \E s \in Streams : truncated'[s]
    BY <1>3, <1>9
  <2>3. ~(outcome' = "eof")
    BY <1>9
  <2>. QED BY <1>10, <2>1, <2>2, <2>3 DEF Captures
<1>13. Stages'
  BY <1>2, <1>9 DEF Stages
<1>14. Returned' => Captured' = Kept(lines)
  <2>1. Returned' => buf'["stdout"] = kept
    BY <1>9 DEF Returned
  <2>2. kept \o <<>> = kept
    BY <1>6
  <2>. QED BY <1>5, <1>9, <2>1, <2>2 DEF Captured
<1>15. RunnerInv'
  BY <1>2, <1>11, <1>12, <1>13 DEF RunnerInv, InLoop
<1>. QED BY <1>2, <1>7, <1>14, <1>15

----------------------------------------------------------------------------
(* Texts                                                                   *)

(* What stands somewhere in a sequence has a first place there.            *)
LEMMA FirstOccurrence ==
    ASSUME NEW seq, NEW m \in Nat, NEW line, NEW k \in 1..m, seq[k] = line
    PROVE  \E i \in 1..m : /\ seq[i] = line
                           /\ \A j \in 1..(i - 1) : seq[j] # line
<1> DEFINE First(i) == /\ seq[i] = line
                       /\ \A j \in 1..(i - 1) : seq[j] # line
           S == {n \in Nat : n <= m =>
                   \/ \A j \in 1..n : seq[j] # line
                   \/ \E i \in 1..m : First(i)}
<1>1. 0 \in S
  OBVIOUS
<1>2. ASSUME NEW n \in Nat, n \in S PROVE n + 1 \in S
  <2> SUFFICES ASSUME n + 1 <= m, ~\E i \in 1..m : First(i)
               PROVE  \A j \in 1..(n + 1) : seq[j] # line
    OBVIOUS
  <2>1. \A j \in 1..n : seq[j] # line
    BY <1>2
  <2>2. n + 1 \in 1..m /\ (n + 1) - 1 = n
    OBVIOUS
  <2>3. seq[n + 1] # line
    BY <2>1, <2>2
  <2>. QED BY <2>1, <2>3
<1>3. Nat \subseteq S
  <2> HIDE DEF S
  <2> QED BY <1>1, <1>2, NatSetInduction
<1>4. m \in S /\ m <= m
  <2> HIDE DEF S
  <2>. QED BY <1>3
<1>. QED BY <1>4

(* The same without a type for the sequence.                               *)
LEMMA FirstPlace ==
    \A seq, line : \A m \in Nat : \A k \in 1..m : seq[k] = line =>
      \E i \in 1..m : seq[i] = line /\ \A j \in 1..(i - 1) : seq[j] # line
BY FirstOccurrence

(* The names of a ledger stand for different lines.                        *)
LEMMA AliasOf ==
    ASSUME NEW new \in Seq(Bytes), NEW n \in DOMAIN new
    PROVE  /\ (CHOOSE i \in DOMAIN new : new[i] = new[n]) \in DOMAIN new
           /\ Distinct(new) => (CHOOSE i \in DOMAIN new : new[i] = new[n]) = n
<1>1. PICK j : j = CHOOSE i \in DOMAIN new : new[i] = new[n]
  OBVIOUS
<1>2. j \in DOMAIN new /\ new[j] = new[n]
  BY <1>1
<1>. QED BY <1>1, <1>2 DEF Distinct

(* A rewrite changes the form of a cell and names its alias, no more.      *)
LEMMA RewriteCells ==
    ASSUME NEW old \in Seq(Bytes), NEW new \in Seq(Bytes), NEW text \in Seq(Cell),
           \A i \in DOMAIN text : text[i].form = "full",
           NEW result, result = Rewrite(old, new, text)
    PROVE  /\ result \in Seq(Cell)
           /\ DOMAIN result = DOMAIN text
           /\ \A i \in DOMAIN text :
                /\ result[i].line = text[i].line
                /\ result[i].sign = text[i].sign
                /\ result[i].form \in {"legend", "alias"} => result[i].alias \in DOMAIN new
<1>1. DOMAIN text = 1..Len(text) /\ Len(text) \in Nat /\ DOMAIN new \subseteq Nat
  OBVIOUS
<1> DEFINE Form(i) == IF /\ text[i].line \notin Range(old)
                         /\ \A j \in 1..(i - 1) : text[j].line # text[i].line
                        THEN "legend" ELSE "alias"
           Alias(i) == CHOOSE n \in DOMAIN new : new[n] = text[i].line
<1>2. /\ DOMAIN result = DOMAIN text
      /\ \A i \in DOMAIN text :
           result[i] = IF text[i].line \notin Range(new) THEN text[i]
                       ELSE [text[i] EXCEPT !.form = Form(i), !.alias = Alias(i)]
  BY Zenon DEF Rewrite
<1>3. ASSUME NEW i \in DOMAIN text
      PROVE  /\ result[i] \in Cell
             /\ result[i].line = text[i].line
             /\ result[i].sign = text[i].sign
             /\ result[i].form \in {"legend", "alias"} => result[i].alias \in DOMAIN new
  <2>1. text[i] \in Cell /\ text[i].form = "full"
    BY <1>1
  <2>2. CASE text[i].line \notin Range(new)
    BY Zenon, <1>2, <2>1, <2>2
  <2>3. CASE text[i].line \in Range(new)
    <3>1. PICK n \in DOMAIN new : new[n] = text[i].line
      BY <2>3 DEF Range
    <3>2. Alias(i) \in DOMAIN new
      BY <3>1, AliasOf
    <3>3. Form(i) \in {"legend", "alias"}
      OBVIOUS
    <3>4. PICK form, alias : form = Form(i) /\ alias = Alias(i)
      OBVIOUS
    <3>5. result[i] = [text[i] EXCEPT !.form = form, !.alias = alias]
      BY Zenon, <1>2, <2>3, <3>4
    <3> HIDE DEF Form, Alias
    <3>6. form \in {"legend", "alias"} /\ alias \in DOMAIN new /\ alias \in Nat
      BY <1>1, <3>2, <3>3, <3>4
    <3>7. PICK cell : cell = [text[i] EXCEPT !.form = form]
      OBVIOUS
    <3>8. cell \in Cell /\ cell.line = text[i].line /\ cell.sign = text[i].sign
          /\ cell.form = form
      BY Zenon, <2>1, <3>6, <3>7 DEF Cell
    <3>9. result[i] = [cell EXCEPT !.alias = alias]
      BY Zenon, <2>1, <3>5, <3>7 DEF Cell
    <3>. QED BY Zenon, <3>6, <3>8, <3>9 DEF Cell
  <2>. QED BY <2>2, <2>3
<1>4. result \in Seq(Cell)
  <2>1. result = [i \in 1..Len(text) |-> result[i]]
    <3> DEFINE At(i) == IF text[i].line \notin Range(new) THEN text[i]
                        ELSE [text[i] EXCEPT !.form = Form(i), !.alias = Alias(i)]
    <3>0. result = [i \in DOMAIN text |-> At(i)]
      BY Zenon DEF Rewrite
    <3> HIDE DEF At
    <3>1. result = [i \in DOMAIN text |-> result[i]]
      BY <3>0
    <3>. QED BY <1>1, <3>1
  <2>2. result \in [1..Len(text) -> Cell]
    BY <1>1, <1>3, <2>1
  <2>. QED BY <1>1, <2>2, SeqDef
<1>. QED BY Zenon, <1>2, <1>3, <1>4

(* A name bound now is explained where it stands first.                    *)
LEMMA RewriteExplains ==
    ASSUME NEW old \in Seq(Bytes), NEW new \in Seq(Bytes), NEW text \in Seq(Cell),
           Distinct(new), Len(old) <= Len(new), \A i \in DOMAIN old : new[i] = old[i],
           NEW n \in DOMAIN new \ DOMAIN old, NEW k \in DOMAIN text, text[k].line = new[n],
           NEW result, result = Rewrite(old, new, text)
    PROVE  \E c \in Range(result) : c.form = "legend" /\ c.alias = n
<1>1. DOMAIN text = 1..Len(text) /\ Len(text) \in Nat
  OBVIOUS
<1>2. PICK i \in 1..Len(text) : /\ text[i].line = new[n]
                                /\ \A j \in 1..(i - 1) : text[j].line # new[n]
  <2> DEFINE shown == [i \in DOMAIN text |-> text[i].line]
  <2>1. PICK line, m : line = new[n] /\ m = Len(text)
    OBVIOUS
  <2>2. m \in Nat /\ k \in 1..m /\ shown[k] = line /\ \A i \in 1..m : shown[i] = text[i].line
    BY <1>1, <2>1
  <2> HIDE DEF shown
  <2>3. PICK i \in 1..m : shown[i] = line /\ \A j \in 1..(i - 1) : shown[j] # line
    <3>1. PICK w : w = shown
      OBVIOUS
    <3>2. \E i \in 1..m : w[i] = line /\ \A j \in 1..(i - 1) : w[j] # line
      <4>1. m \in Nat /\ k \in 1..m /\ w[k] = line
        BY <2>2, <3>1
      <4> HIDE <1>1, <2>2, <2>1
      <4>3. \A m2 \in Nat : \A k2 \in 1..m2 : w[k2] = line =>
              \E i \in 1..m2 : w[i] = line /\ \A j \in 1..(i - 1) : w[j] # line
        BY ONLY Zenon, FirstPlace
      <4>. QED BY ONLY Zenon, <4>1, <4>3
    <3>. QED BY <3>1, <3>2
  <2>4. ASSUME NEW j \in 1..(i - 1) PROVE j \in 1..m
    BY <2>2
  <2>. QED BY ZenonT(30), <2>1, <2>2, <2>3, <2>4
<1>3. new[n] \in Range(new)
  BY DEF Range
<1>4. new[n] \notin Range(old)
  <2> SUFFICES ASSUME NEW j \in DOMAIN old, old[j] = new[n] PROVE FALSE
    BY DEF Range
  <2>1. DOMAIN old = 1..Len(old) /\ DOMAIN new = 1..Len(new) /\ Len(old) \in Nat /\ Len(new) \in Nat
    OBVIOUS
  <2>2. j \in DOMAIN new /\ j # n /\ new[j] = new[n]
    BY <2>1
  <2>. QED BY <2>2 DEF Distinct
<1>5. (CHOOSE j \in DOMAIN new : new[j] = new[n]) = n
  BY AliasOf
<1>6. result[i] = [text[i] EXCEPT !.form = "legend", !.alias = n]
  BY ZenonT(30), <1>1, <1>2, <1>3, <1>4, <1>5 DEF Rewrite
<1>7. i \in DOMAIN result /\ text[i] \in Cell
  <2>1. DOMAIN result = DOMAIN text
    BY Zenon DEF Rewrite
  <2>. QED BY <1>1, <2>1
<1>8. result[i].form = "legend" /\ result[i].alias = n
  BY Zenon, <1>6, <1>7 DEF Cell
<1>. QED BY <1>7, <1>8 DEF Range

(* The lines of a text do not depend on the form they are shown in.        *)
LEMMA SameLines ==
    ASSUME NEW text, NEW other, DOMAIN text = DOMAIN other,
           \A i \in DOMAIN text : text[i].line = other[i].line /\ text[i].sign = other[i].sign,
           NEW sign
    PROVE  LinesOf(text, sign) = LinesOf(other, sign)
<1>1. ASSUME NEW x \in LinesOf(text, sign) PROVE x \in LinesOf(other, sign)
  BY <1>1 DEF LinesOf, Range
<1>2. ASSUME NEW x \in LinesOf(other, sign) PROVE x \in LinesOf(text, sign)
  BY <1>2 DEF LinesOf, Range
<1>. QED BY <1>1, <1>2

(* The lines of a plain text, and of a delta.                              *)
LEMMA PlainLines ==
    ASSUME NEW lines \in Seq(Bytes), NEW sign \in {"", "+", "-"}, NEW other
    PROVE  LinesOf(Plain(lines, sign), other) = IF other = sign THEN Range(lines) ELSE {}
<1> DEFINE text == Plain(lines, sign)
<1>1. /\ DOMAIN text = DOMAIN lines
      /\ \A i \in DOMAIN lines : text[i].line = lines[i] /\ text[i].sign = sign
  <2>1. /\ DOMAIN text = DOMAIN lines
        /\ \A i \in DOMAIN lines :
             text[i] = [line |-> lines[i], form |-> "full", alias |-> 0, sign |-> sign]
    BY Zenon, PlainCells
  <2> HIDE DEF text
  <2>2. ASSUME NEW i \in DOMAIN lines PROVE text[i].line = lines[i] /\ text[i].sign = sign
    <3>1. PICK cell, x, mark : cell = text[i] /\ x = lines[i] /\ mark = sign
      BY Zenon
    <3>2. cell = [line |-> x, form |-> "full", alias |-> 0, sign |-> mark]
      BY Zenon, <2>1, <3>1
    <3>3. cell.line = x /\ cell.sign = mark
      BY Zenon, <3>2
    <3>. QED BY Zenon, <3>1, <3>3
  <2>. QED BY Zenon, <2>1, <2>2
<1> HIDE DEF text
<1>2. LinesOf(text, other) = IF other = sign THEN Range(lines) ELSE {}
  BY ZenonT(60), <1>1 DEF LinesOf, Range
<1>. QED BY Zenon, <1>2 DEF text

(* The lines of two texts put together.                                    *)
LEMMA JoinedLines ==
    ASSUME NEW one \in Seq(Cell), NEW two \in Seq(Cell), NEW sign
    PROVE  LinesOf(one \o two, sign) = LinesOf(one, sign) \cup LinesOf(two, sign)
<1>1. /\ Len(one) \in Nat /\ Len(two) \in Nat
      /\ DOMAIN one = 1..Len(one) /\ DOMAIN two = 1..Len(two)
      /\ DOMAIN (one \o two) = 1..(Len(one) + Len(two))
      /\ \A i \in 1..Len(one) : (one \o two)[i] = one[i]
      /\ \A i \in (Len(one) + 1)..(Len(one) + Len(two)) : (one \o two)[i] = two[i - Len(one)]
  OBVIOUS
<1>2. Range(one \o two) = Range(one) \cup Range(two)
  <2>1. ASSUME NEW i \in DOMAIN two PROVE two[i] \in Range(one \o two)
    <3>1. /\ i + Len(one) \in (Len(one) + 1)..(Len(one) + Len(two))
          /\ i + Len(one) \in DOMAIN (one \o two)
          /\ (i + Len(one)) - Len(one) = i
      BY <1>1
    <3>. QED BY <1>1, <3>1 DEF Range
  <2>2. ASSUME NEW i \in DOMAIN one PROVE one[i] \in Range(one \o two)
    <3>1. i \in DOMAIN (one \o two)
      BY <1>1
    <3>. QED BY <1>1, <3>1 DEF Range
  <2>3. ASSUME NEW i \in DOMAIN (one \o two) PROVE (one \o two)[i] \in Range(one) \cup Range(two)
    <3>1. CASE i \in 1..Len(one)
      BY <1>1, <3>1 DEF Range
    <3>2. CASE i \in (Len(one) + 1)..(Len(one) + Len(two))
      <4>1. i - Len(one) \in DOMAIN two
        BY <1>1, <3>2
      <4>. QED BY <1>1, <3>2, <4>1 DEF Range
    <3>. QED BY <1>1, <3>1, <3>2
  <2> HIDE <1>1
  <2>. QED BY Zenon, <2>1, <2>2, <2>3 DEF Range
<1>. QED BY <1>2 DEF LinesOf

----------------------------------------------------------------------------
(* The state of a session                                                  *)

(* A runner that has stopped, or has not started, takes no step.           *)
LEMMA StoppedRuns ==
    ASSUME main = "done", child = "exited",
           \A s \in Streams : ends[s] = {} /\ pump[s] = "done"
    PROVE  ~RunnerStep
<1>1. ~\E s \in Streams : ends[s] # {}
  OBVIOUS
<1>2. \A s \in Streams : ends[s] = {} /\ pump[s] = "done"
  OBVIOUS
<1>. QED
  BY Zenon, <1>2
     DEF RunnerStep, ChildStep, ChildWrite, ChildExit, ChildKilled, ChildDetach,
         GrandchildExit, DeadlinePasses, PumpStep, PumpRead, PumpChunk, PumpEnd, MainStep,
         ReceiveEnd, ReceiveChunk, TimeOut, TermGraceExpires, TerminateDone, CloseStream,
         RaiseTimeout, Reap, ReapGraceExpires

(* What Start starts: a run in one step, or a runner.                      *)
LEMMA Started ==
    ASSUME RunnerInv, SessionOK, Start
    PROVE  /\ RunnerInv'
           /\ config.faulty = {} =>
                /\ main' = "done"
                /\ child' = "exited"
                /\ \A s \in Streams : ends'[s] = {} /\ pump'[s] = "done"
                /\ Returned' => Captured' = Kept(tree[call.argv])
<1>1. /\ call.argv \in config.argvs
      /\ tree \in [config.argvs -> config.outputs]
      /\ config.outputs \subseteq Seq(Bytes)
      /\ \A c \in config.faulty : IsCommand(c)
  BY ConfigOK DEF SessionOK, Start
<1>2. CASE config.faulty = {}
  <2>1. PICK lines \in Seq(Bytes) : lines = tree[call.argv]
    BY <1>1
  <2>2. RunShortly(lines)
    BY <1>2, <2>1 DEF Start
  <2>3. /\ RunnerInv'
        /\ main' = "done"
        /\ child' = "exited"
        /\ \A s \in Streams : ends'[s] = {} /\ pump'[s] = "done"
        /\ Returned' => Captured' = Kept(lines)
    BY Zenon, <2>2, ShortRunInv
  <2>. QED BY Zenon, <2>1, <2>3
<1>3. CASE config.faulty # {}
  <2>1. PICK c \in config.faulty : Spawn(c) \/ Refuse(c)
    BY <1>3 DEF Start
  <2>2. IsCommand(c)
    BY <1>1
  <2>3. RunnerInv'
    BY Zenon, <2>1, <2>2, SpawnInv, RefuseInv
  <2>. QED BY <1>3, <2>3
<1>. QED BY <1>2, <1>3

(* The four ways a call ends.                                              *)
Finish == FinishSpilled \/ FinishUnknown \/ FinishCompressed \/ FinishRaised

(* Whatever ends a call leaves a quiet process.                            *)
LEMMA FinishEnds ==
    ASSUME Finish
    PROVE  /\ FinishCall
           /\ phase' = "idle"
           /\ call' = NoCall
           /\ UNCHANGED <<config, tree, head, printed, changes, calls>>
<1>1. CASE FinishSpilled
  BY Zenon, <1>1 DEF FinishSpilled, Deliver, worldVars
<1>2. CASE FinishUnknown
  BY Zenon, <1>2 DEF FinishUnknown, Deliver, worldVars
<1>3. CASE FinishCompressed
  BY Zenon, <1>3 DEF FinishCompressed, Deliver, worldVars
<1>4. CASE FinishRaised
  BY Zenon, <1>4 DEF FinishRaised, worldVars
<1>. QED BY Zenon, <1>1, <1>2, <1>3, <1>4 DEF Finish

(* The steps of a session, by what they do to the runner and the call.     *)
LEMMA Steps ==
    ASSUME [Next]_vars
    PROVE  \/ Change
           \/ \E a \in config.argvs, hint \in config.hints : Invoke(a, hint)
           \/ Start
           \/ Running
           \/ Finish
           \/ UNCHANGED vars
BY Zenon DEF Next, Finish

(* Every step keeps the invariant of the runner.                           *)
LEMMA NextRunner ==
    ASSUME RunnerInv, SessionOK, [Next]_vars
    PROVE  RunnerInv'
<1>1. CASE Change
  BY Zenon, <1>1, RunnerRests DEF Change
<1>2. CASE \E a \in config.argvs, hint \in config.hints : Invoke(a, hint)
  BY Zenon, <1>2, RunnerRests DEF Invoke
<1>3. CASE Start
  BY Zenon, <1>3, Started
<1>4. CASE Running
  BY Zenon, <1>4, RunnerStepInv DEF Running
<1>5. CASE Finish
  <2>1. FinishCall
    BY Zenon, <1>5, FinishEnds
  <2>. QED BY Zenon, <2>1, ResetInv DEF FinishCall
<1>6. CASE UNCHANGED vars
  BY Zenon, <1>6, RunnerRests DEF vars
<1>. QED BY Zenon, <1>1, <1>2, <1>3, <1>4, <1>5, <1>6, Steps

(* Every step keeps SessionOK.                                             *)
LEMMA NextSession ==
    ASSUME RunnerInv, SessionOK, [Next]_vars
    PROVE  SessionOK'
<1>1. CASE Change
  <2>1. UNCHANGED <<main, config, phase, call, calls>>
    BY Zenon, <1>1 DEF Change, runnerVars, mainVars, sessionVars
  <2>2. PICK a \in config.argvs, out \in config.outputs, h \in Heads :
          /\ tree' = [tree EXCEPT ![a] = out]
          /\ head' = h
          /\ printed' = printed \cup {<<b, h, tree'[b]>> : b \in config.argvs}
    BY <1>1 DEF Change
  <2>3. tree' \in [config.argvs -> config.outputs]
    BY <2>2 DEF SessionOK
  <2>4. \A b \in config.argvs : <<b, head', tree'[b]>> \in printed'
    BY <2>2
  <2>5. changes' \in 0..config.changes
    BY <1>1, ConfigOK DEF Change, SessionOK
  <2>. QED BY <2>1, <2>2, <2>3, <2>4, <2>5 DEF SessionOK
<1>2. CASE \E a \in config.argvs, hint \in config.hints : Invoke(a, hint)
  <2>1. PICK a \in config.argvs, hint \in config.hints : Invoke(a, hint)
    BY <1>2
  <2>2. UNCHANGED <<main, config, tree, head, printed, changes>>
    BY Zenon, <2>1 DEF Invoke, runnerVars, mainVars, worldVars
  <2>3. calls' \in 0..config.calls
    BY <2>1, ConfigOK DEF Invoke, SessionOK
  <2>4. phase = "idle"
    BY <2>1 DEF Invoke
  <2>5. \/ phase' = "idle"
        \/ /\ phase' = "keyed"
           /\ call' = [argv |-> a, hint |-> hint, key |-> <<a, head>>,
                       asked |-> head, looked |-> head, ran |-> Nothing]
    BY <2>1 DEF Invoke, Deliver, Key
  <2>6. CASE phase' = "idle"
    BY <2>2, <2>3, <2>4, <2>6 DEF SessionOK
  <2>7. CASE /\ phase' = "keyed"
             /\ call' = [argv |-> a, hint |-> hint, key |-> <<a, head>>,
                         asked |-> head, looked |-> head, ran |-> Nothing]
    <3>1. /\ DOMAIN call' = CallFields
          /\ call'.argv = a /\ call'.hint = hint
          /\ call'.asked = head /\ call'.looked = head
          /\ call'.key = <<a, head>>
      BY <2>7 DEF CallFields
    <3>. QED BY <2>2, <2>3, <2>4, <2>7, <3>1 DEF SessionOK
  <2>. QED BY <2>5, <2>6, <2>7
<1>3. CASE Start
  <2>1. /\ phase = "keyed" /\ phase' = "running"
        /\ call' = [call EXCEPT !.ran = head]
        /\ UNCHANGED <<config, calls, tree, head, printed, changes>>
    BY <1>3 DEF Start, worldVars
  <2>2. /\ DOMAIN call' = CallFields
        /\ call'.argv = call.argv /\ call'.hint = call.hint
        /\ call'.asked = call.asked /\ call'.looked = call.looked
        /\ call'.key = call.key
    BY <2>1 DEF SessionOK, CallFields
  <2>. QED BY <2>1, <2>2 DEF SessionOK
<1>4. CASE Running
  <2>1. UNCHANGED <<config, calls, tree, head, printed, changes, phase, call>>
    BY Zenon, <1>4 DEF Running, worldVars, sessionVars
  <2>2. main # "idle"
    BY Zenon, <1>4, QuietWorld DEF Running, RunnerInv
  <2>3. phase = "running"
    BY <2>2 DEF SessionOK
  <2>. QED BY <2>1, <2>3 DEF SessionOK
<1>5. CASE Finish
  <2>1. /\ main' = "idle" /\ phase' = "idle"
        /\ UNCHANGED <<config, tree, head, printed, changes, calls>>
    BY Zenon, <1>5, FinishEnds DEF FinishCall, ResetRunner
  <2>. QED BY <2>1 DEF SessionOK
<1>6. CASE UNCHANGED vars
  <2>1. UNCHANGED <<config, calls, tree, head, printed, changes, phase, call, main>>
    BY Zenon, <1>6 DEF vars, worldVars, sessionVars, runnerVars, mainVars
  <2>. QED BY <2>1 DEF SessionOK
<1>. QED BY Zenon, <1>1, <1>2, <1>3, <1>4, <1>5, <1>6, Steps

(* Every step keeps RunOK.                                                 *)
LEMMA NextRun ==
    ASSUME RunnerInv, SessionOK, RunOK, [Next]_vars
    PROVE  RunOK'
<1>1. CASE Change
  <2>1. UNCHANGED <<main, config, phase>> /\ main = "idle"
    BY Zenon, <1>1 DEF Change, runnerVars, mainVars, sessionVars
  <2>. QED BY <2>1 DEF RunOK
<1>2. CASE \E a \in config.argvs, hint \in config.hints : Invoke(a, hint)
  <2>1. phase' \in {"idle", "keyed"}
    BY <1>2 DEF Invoke, Deliver
  <2>. QED BY <2>1 DEF RunOK
<1>3. CASE Start
  <2>1. /\ phase = "keyed"
        /\ call' = [call EXCEPT !.ran = head]
        /\ UNCHANGED <<config, tree, head, printed>>
    BY <1>3 DEF Start, worldVars
  <2>2. call'.argv = call.argv /\ call'.ran = head /\ call.argv \in config.argvs
    BY <2>1 DEF SessionOK, CallFields
  <2>3. <<call.argv, head, tree[call.argv]>> \in printed
    BY <2>2 DEF SessionOK
  <2>4. Witnessed(printed, call.argv, head, Kept(tree[call.argv]))
    BY <2>3 DEF Witnessed
  <2>5. config.faulty = {} =>
          /\ main' = "done"
          /\ child' = "exited"
          /\ \A s \in Streams : ends'[s] = {} /\ pump'[s] = "done"
          /\ Returned' => Captured' = Kept(tree[call.argv])
    BY Zenon, <1>3, Started
  <2>. QED BY <2>1, <2>2, <2>4, <2>5 DEF RunOK
<1>4. CASE Running
  <2>1. UNCHANGED <<config, phase>> /\ RunnerStep
    BY Zenon, <1>4 DEF Running, sessionVars
  <2>2. ~(phase = "running" /\ config.faulty = {})
    BY Zenon, <2>1, StoppedRuns DEF RunOK
  <2>. QED BY <2>1, <2>2 DEF RunOK
<1>5. CASE Finish
  <2>1. phase' = "idle"
    BY Zenon, <1>5, FinishEnds
  <2>. QED BY <2>1 DEF RunOK
<1>6. CASE UNCHANGED vars
  <2>1. UNCHANGED <<config, printed, phase, call, main, child, ends, pump, outcome, buf>>
    BY Zenon, <1>6 DEF vars, worldVars, sessionVars, runnerVars, mainVars, childVars, pumpVars
  <2>. QED BY <2>1 DEF RunOK, Returned, Captured
<1>. QED BY Zenon, <1>1, <1>2, <1>3, <1>4, <1>5, <1>6, Steps

----------------------------------------------------------------------------
(* Reports                                                                 *)

(* Two reports of the same call: a delta or a ledger changes the text, the *)
(* tokens, the schema and the cut, and no other field.                     *)
SameHeading(r, other) ==
    /\ DOMAIN r = Fields
    /\ r.argv = other.argv /\ r.key = other.key /\ r.asked = other.asked
    /\ r.looked = other.looked /\ r.ran = other.ran /\ r.hint = other.hint
    /\ r.hit = other.hit /\ r.raw = other.raw /\ r.level = other.level
    /\ r.floor = other.floor /\ r.silent = other.silent

(* A text of full lines.                                                   *)
Bare(text) == text \in Seq(Cell) /\ \A i \in DOMAIN text : text[i].form = "full"

(* A plain text is one.                                                    *)
LEMMA PlainIsBare ==
    ASSUME NEW lines \in Seq(Bytes), NEW sign \in {"", "+", "-"}
    PROVE  Bare(Plain(lines, sign))
<1>1. PICK text, mark : text = Plain(lines, sign) /\ mark = sign
  BY Zenon
<1>2. /\ text \in Seq(Cell)
      /\ DOMAIN text = DOMAIN lines
      /\ \A i \in DOMAIN lines :
           text[i] = [line |-> lines[i], form |-> "full", alias |-> 0, sign |-> mark]
  BY Zenon, <1>1, PlainCells
<1>3. ASSUME NEW i \in DOMAIN text PROVE text[i].form = "full"
  <2>1. PICK cell, x : cell = text[i] /\ x = lines[i]
    BY Zenon
  <2>2. cell = [line |-> x, form |-> "full", alias |-> 0, sign |-> mark]
    BY Zenon, <1>2, <2>1
  <2>3. cell.form = "full"
    BY Zenon, <2>2
  <2>. QED BY Zenon, <2>1, <2>3
<1>. QED BY Zenon, <1>1, <1>2, <1>3 DEF Bare

(* No cell of it is a legend or an alias.                                  *)
LEMMA BareForms ==
    ASSUME NEW text, Bare(text), NEW c \in Range(text) PROVE c.form = "full"
BY DEF Bare, Range

(* The fields of a report before deltas and ledgers.                       *)
LEMMA FullReport ==
    ASSUME NEW lines, NEW level, NEW full,
           full = Full(lines, level)
    PROVE  /\ DOMAIN full = Fields
           /\ full.argv = call.argv /\ full.key = call.key /\ full.asked = call.asked
           /\ full.looked = call.looked /\ full.ran = call.ran /\ full.hint = call.hint
           /\ full.hit = FALSE /\ full.raw = lines /\ full.level = level
           /\ full.schema = "full" /\ full.cut = FALSE
           /\ full.text = Plain(Compress(lines, level), "")
           /\ full.tokens = LinesTokens(Compress(lines, level))
           /\ full.floor = call.hint.floor /\ full.silent = Silent
BY Zenon DEF Full, Fields, LinesTokens

(* The start of a list that a delta shows.                                 *)
LEMMA ShownLines ==
    ASSUME NEW lines \in Seq(Bytes)
    PROVE  /\ Shown(lines) \in Seq(Bytes)
           /\ Len(lines) <= DeltaLines => Shown(lines) = lines
<1>1. Len(lines) \in Nat /\ DeltaLines \in Nat
  BY CommandConstants
<1>2. PICK n \in Nat : n = Len(lines)
  BY <1>1
<1>3. Min({n, DeltaLines}) = IF n <= DeltaLines THEN n ELSE DeltaLines
  BY <1>1, MinOfTwo
<1>4. PICK k \in Nat : k = Min({n, DeltaLines}) /\ k <= n /\ (n <= DeltaLines => k = n)
  <2>1. CASE n <= DeltaLines
    BY <1>1, <1>3, <2>1
  <2>2. CASE ~(n <= DeltaLines)
    BY <1>1, <1>3, <2>2
  <2>. QED BY <2>1, <2>2
<1>5. Shown(lines) = SubSeq(lines, 1, k)
  BY <1>2, <1>4 DEF Shown
<1>6. SubSeq(lines, 1, k) \in Seq(Bytes) /\ SubSeq(lines, 1, n) = lines
  <2>1. SubSeq(lines, 1, Len(lines)) = lines
    OBVIOUS
  <2>2. k \in Nat /\ k <= Len(lines) /\ Len(lines) \in Nat
    BY <1>2, <1>4
  <2>3. SubSeq(lines, 1, k) \in Seq(Bytes)
    BY <2>2
  <2>. QED BY <1>2, <2>1, <2>3
<1>. QED BY <1>2, <1>4, <1>5, <1>6

(* A delta takes what is gone out of the picture and puts in what is new.  *)
LEMMA DeltaTexts ==
    ASSUME NEW prior \in Seq(Bytes), NEW lines \in Seq(Bytes),
           NEW text, text = DeltaText(prior, lines)
    PROVE  /\ Bare(text)
           /\ DeltaTokens(prior, lines) \in Int
           /\ Len(Added(prior, lines)) <= DeltaLines /\ Len(Added(lines, prior)) <= DeltaLines =>
                /\ LinesOf(text, "+") = Range(lines) \ Range(prior)
                /\ LinesOf(text, "-") = Range(prior) \ Range(lines)
<1>1. PICK more, less : more = Added(prior, lines) /\ less = Added(lines, prior)
  OBVIOUS
<1>2. Range(lines) \subseteq Bytes /\ Range(prior) \subseteq Bytes
  <2>1. \A i \in DOMAIN lines : lines[i] \in Bytes
    BY ElementOfSeq, LenProperties
  <2>2. \A i \in DOMAIN prior : prior[i] \in Bytes
    BY ElementOfSeq, LenProperties
  <2>. QED BY <2>1, <2>2 DEF Range
<1>3. /\ more \in Seq(Bytes) /\ Range(more) = Range(lines) \cap (Bytes \ Range(prior))
      /\ less \in Seq(Bytes) /\ Range(less) = Range(prior) \cap (Bytes \ Range(lines))
  BY <1>1, OnlyWanted DEF Added
<1>4. Range(more) = Range(lines) \ Range(prior) /\ Range(less) = Range(prior) \ Range(lines)
  BY <1>2, <1>3
<1>5. PICK shown, hidden : shown = Shown(more) /\ hidden = Shown(less)
  OBVIOUS
<1>6. /\ shown \in Seq(Bytes) /\ hidden \in Seq(Bytes)
      /\ Len(more) <= DeltaLines => shown = more
      /\ Len(less) <= DeltaLines => hidden = less
  BY <1>3, <1>5, ShownLines
<1>7. PICK plus, minus : plus = Plain(shown, "+") /\ minus = Plain(hidden, "-")
  OBVIOUS
<1>8. Bare(plus) /\ Bare(minus)
  BY Zenon, <1>6, <1>7, PlainIsBare
<1>9. /\ LinesOf(plus, "+") = Range(shown) /\ LinesOf(plus, "-") = {}
      /\ LinesOf(minus, "-") = Range(hidden) /\ LinesOf(minus, "+") = {}
  <2>1. /\ LinesOf(Plain(shown, "+"), "+") = IF "+" = "+" THEN Range(shown) ELSE {}
        /\ LinesOf(Plain(shown, "+"), "-") = IF "-" = "+" THEN Range(shown) ELSE {}
        /\ LinesOf(Plain(hidden, "-"), "-") = IF "-" = "-" THEN Range(hidden) ELSE {}
        /\ LinesOf(Plain(hidden, "-"), "+") = IF "+" = "-" THEN Range(hidden) ELSE {}
    <3>1. "+" \in {"", "+", "-"} /\ "-" \in {"", "+", "-"}
      OBVIOUS
    <3>. QED BY Zenon, <1>6, <3>1, PlainLines
  <2>. QED BY <1>7, <2>1
<1>10. text = plus \o minus
  BY <1>1, <1>5, <1>7 DEF DeltaText
<1>11. Bare(text)
  <2>1. text \in Seq(Cell)
    BY <1>8, <1>10 DEF Bare
  <2>2. /\ Len(plus) \in Nat /\ Len(minus) \in Nat
        /\ DOMAIN plus = 1..Len(plus) /\ DOMAIN minus = 1..Len(minus)
        /\ DOMAIN text = 1..(Len(plus) + Len(minus))
        /\ \A i \in 1..Len(plus) : text[i] = plus[i]
        /\ \A i \in (Len(plus) + 1)..(Len(plus) + Len(minus)) : text[i] = minus[i - Len(plus)]
    BY <1>8, <1>10 DEF Bare
  <2>3. ASSUME NEW i \in DOMAIN text PROVE text[i].form = "full"
    <3>1. CASE i \in 1..Len(plus)
      BY <1>8, <2>2, <3>1 DEF Bare
    <3>2. CASE i \in (Len(plus) + 1)..(Len(plus) + Len(minus))
      <4>1. i - Len(plus) \in DOMAIN minus
        BY <2>2, <3>2
      <4>. QED BY <1>8, <2>2, <3>2, <4>1 DEF Bare
    <3>. QED BY <2>2, <3>1, <3>2
  <2>. QED BY <2>1, <2>3 DEF Bare
<1>12. \A sign : LinesOf(text, sign) = LinesOf(plus, sign) \cup LinesOf(minus, sign)
  BY <1>8, <1>10, JoinedLines DEF Bare
<1>13. DeltaTokens(prior, lines) \in Int
  <2> DEFINE Count(part) == (IF part = <<>> THEN 0 ELSE 1)
                              + (IF Len(part) > DeltaLines THEN 1 ELSE 0)
  <2>1. Count(more) \in Int /\ Count(less) \in Int
    OBVIOUS
  <2>2. TextTokens(text) \in Nat
    BY <1>11, TokensOfText DEF Bare
  <2>3. DeltaTokens(prior, lines) = 1 + Count(more) + Count(less) + TextTokens(text)
    BY <1>1 DEF DeltaTokens
  <2> HIDE DEF Count
  <2>. QED BY <2>1, <2>2, <2>3
<1>14. Len(more) <= DeltaLines /\ Len(less) <= DeltaLines =>
         /\ LinesOf(text, "+") = Range(lines) \ Range(prior)
         /\ LinesOf(text, "-") = Range(prior) \ Range(lines)
  BY <1>4, <1>6, <1>9, <1>12
<1>. QED BY Zenon, <1>1, <1>11, <1>13, <1>14

(* A report, or a delta to prior that took its place where that pays.      *)
Swapped(report, full, prior, lines) ==
    /\ SameHeading(report, full)
    /\ Bare(report.text)
    /\ report.tokens \in Int
    /\ report.tokens <= LinesTokens(lines)
    /\ \/ report = full
       \/ /\ report.schema = "delta"
          /\ prior # Nothing
          /\ ~report.cut =>
               /\ LinesOf(report.text, "+") = Range(lines) \ Range(prior)
               /\ LinesOf(report.text, "-") = Range(prior) \ Range(lines)

(* A report of the lines, before deltas and ledgers.                       *)
Plainly(full, lines) ==
    /\ DOMAIN full = Fields
    /\ full.schema = "full"
    /\ full.cut = FALSE
    /\ full.text = Plain(lines, "")
    /\ full.tokens = LinesTokens(lines)

(* A delta is taken only where it is shorter, and shows what differs.      *)
LEMMA SwappedReport ==
    ASSUME NEW prior, prior = Nothing \/ prior \in Seq(Bytes), NEW lines \in Seq(Bytes),
           NEW full, Plainly(full, lines),
           NEW report, report = SwapToDelta(prior, full)
    PROVE  Swapped(report, full, prior, lines)
<1> SUFFICES /\ SameHeading(report, full)
             /\ Bare(report.text)
             /\ report.tokens \in Int
             /\ report.tokens <= LinesTokens(lines)
             /\ \/ report = full
                \/ /\ report.schema = "delta"
                   /\ prior # Nothing
                   /\ ~report.cut =>
                        /\ LinesOf(report.text, "+") = Range(lines) \ Range(prior)
                        /\ LinesOf(report.text, "-") = Range(prior) \ Range(lines)
  BY Zenon DEF Swapped
<1> USE DEF Plainly
<1>1. full.tokens \in Nat
  BY Zenon, PlainCells, TokensOfText DEF LinesTokens
<1>2. [i \in DOMAIN full.text |-> full.text[i].line] = lines
  <2>1. PICK text : text = full.text
    BY Zenon
  <2>2. /\ DOMAIN text = DOMAIN lines
        /\ \A i \in DOMAIN lines :
             text[i] = [line |-> lines[i], form |-> "full", alias |-> 0, sign |-> ""]
    <3>1. text = Plain(lines, "") /\ "" \in {"", "+", "-"}
      BY Zenon, <2>1
    <3>. QED BY Zenon, <3>1, PlainCells
  <2>3. ASSUME NEW i \in DOMAIN lines PROVE text[i].line = lines[i]
    <3>1. PICK cell, x : cell = text[i] /\ x = lines[i]
      BY Zenon
    <3>2. cell = [line |-> x, form |-> "full", alias |-> 0, sign |-> ""]
      BY Zenon, <2>2, <3>1
    <3>3. cell.line = x
      BY Zenon, <3>2
    <3>. QED BY Zenon, <3>1, <3>3
  <2>4. lines = [i \in DOMAIN lines |-> lines[i]]
    BY Zenon, LenProperties
  <2>. QED BY Zenon, <2>1, <2>2, <2>3, <2>4
<1>3. Bare(full.text)
  BY Zenon, PlainIsBare
<1>4. report = full \/ (/\ prior # Nothing
                        /\ DeltaTokens(prior, lines) < full.tokens
                        /\ report = Delta(prior, lines, full))
  BY Zenon, <1>2 DEF SwapToDelta
<1>5. CASE report = full
  <2>1. report.tokens \in Int /\ report.tokens <= full.tokens
    BY ONLY <1>1, <1>5
  <2>2. SameHeading(report, full)
    BY Zenon, <1>5 DEF SameHeading
  <2>. QED BY Zenon, <1>3, <1>5, <2>1, <2>2
<1>6. CASE /\ prior # Nothing
           /\ DeltaTokens(prior, lines) < full.tokens
           /\ report = Delta(prior, lines, full)
  <2>1. prior \in Seq(Bytes)
    BY Zenon, <1>6
  <2>2. PICK text, tokens : text = DeltaText(prior, lines) /\ tokens = DeltaTokens(prior, lines)
    BY Zenon
  <2>3. /\ Bare(text)
        /\ tokens \in Int
        /\ Len(Added(prior, lines)) <= DeltaLines /\ Len(Added(lines, prior)) <= DeltaLines =>
             /\ LinesOf(text, "+") = Range(lines) \ Range(prior)
             /\ LinesOf(text, "-") = Range(prior) \ Range(lines)
    BY Zenon, <2>1, <2>2, DeltaTexts
  <2>4. PICK cut : cut = \E part \in {Added(prior, lines), Added(lines, prior)} :
                           Len(part) > DeltaLines
    BY Zenon
  <2>5. report = [full EXCEPT !.schema = "delta", !.text = text, !.tokens = tokens, !.cut = cut]
    BY Zenon, <1>6, <2>2, <2>4 DEF Delta
  <2>6. /\ SameHeading(report, full)
        /\ report.text = text /\ report.tokens = tokens /\ report.cut = cut
        /\ report.schema = "delta"
    BY ZenonT(60), <2>5 DEF SameHeading, Fields
  <2>7. ~cut => /\ Len(Added(prior, lines)) <= DeltaLines
                /\ Len(Added(lines, prior)) <= DeltaLines
    <3>1. PICK more, less : more = Added(prior, lines) /\ less = Added(lines, prior)
      BY Zenon
    <3>2. more \in Seq(Bytes) /\ less \in Seq(Bytes)
      BY Zenon, <2>1, <3>1, OnlyWanted DEF Added
    <3>3. Len(more) \in Nat /\ Len(less) \in Nat /\ DeltaLines \in Nat
      BY ONLY <3>2, CommandConstants
    <3>4. ~cut => ~(Len(more) > DeltaLines) /\ ~(Len(less) > DeltaLines)
      BY Zenon, <2>4, <3>1
    <3>5. ~cut => Len(more) <= DeltaLines /\ Len(less) <= DeltaLines
      BY ONLY <3>3, <3>4
    <3>. QED BY Zenon, <3>1, <3>5
  <2>8. tokens < full.tokens
    BY Zenon, <1>6, <2>2
  <2>9. report.tokens \in Int /\ report.tokens <= full.tokens
    BY ONLY <1>1, <2>3, <2>6, <2>8
  <2>. QED BY Zenon, <1>6, <2>3, <2>6, <2>7, <2>9
<1>. QED BY Zenon, <1>4, <1>5, <1>6

(* What a ledger makes of a report: either the new names are explained in  *)
(* it, or the old text stays.                                              *)
Explained(final, report, names) ==
    /\ SameHeading(final, report)
    /\ final.schema = report.schema /\ final.cut = report.cut
    /\ final.text \in Seq(Cell)
    /\ \A sign : LinesOf(final.text, sign) = LinesOf(report.text, sign)
    /\ \A c \in Range(final.text) :
         c.form \in {"legend", "alias"} => c.alias \in DOMAIN names
    /\ final.tokens \in Int
    /\ config.ledger # "path" => final.tokens <= report.tokens
    /\ \/ final.text = report.text /\ config.ledger # "path"
       \/ \A n \in DOMAIN names \ DOMAIN bound :
            \E c \in Range(final.text) : c.form = "legend" /\ c.alias = n

(* A report that a ledger may rewrite: every new name stands for a line of *)
(* it.                                                                     *)
Ledgerable(report, names) ==
    /\ DOMAIN report = Fields
    /\ Bare(report.text)
    /\ report.tokens \in Int
    /\ \A i \in DOMAIN names \ DOMAIN bound :
         \E k \in DOMAIN report.text : report.text[k].line = names[i]

(* A ledger keeps the lines and explains its new names, unless its gate    *)
(* throws the rewrite away.                                                *)
LEMMA LedgeredReport ==
    ASSUME config \in Deployments, bound \in Seq(Bytes), NEW names \in Seq(Bytes),
           Distinct(names), Len(bound) <= Len(names),
           \A i \in DOMAIN bound : names[i] = bound[i],
           NEW report, Ledgerable(report, names),
           NEW final, final = Ledgered(report, names)
    PROVE  Explained(final, report, names)
<1> SUFFICES
      /\ SameHeading(final, report)
      /\ final.schema = report.schema /\ final.cut = report.cut
      /\ final.text \in Seq(Cell)
      /\ \A sign : LinesOf(final.text, sign) = LinesOf(report.text, sign)
      /\ \A c \in Range(final.text) :
           c.form \in {"legend", "alias"} => c.alias \in DOMAIN names
      /\ final.tokens \in Int
      /\ config.ledger # "path" => final.tokens <= report.tokens
      /\ \/ final.text = report.text /\ config.ledger # "path"
         \/ \A n \in DOMAIN names \ DOMAIN bound :
              \E c \in Range(final.text) : c.form = "legend" /\ c.alias = n
  BY Zenon DEF Explained
<1> USE DEF Ledgerable
<1>1. PICK old : old = report.text
  OBVIOUS
<1>2. PICK text : text = Rewrite(bound, names, old)
  OBVIOUS
<1>3. old \in Seq(Cell) /\ \A i \in DOMAIN old : old[i].form = "full"
  BY <1>1 DEF Bare
<1>4. /\ text \in Seq(Cell)
      /\ DOMAIN text = DOMAIN old
      /\ \A i \in DOMAIN old :
           /\ text[i].line = old[i].line
           /\ text[i].sign = old[i].sign
           /\ text[i].form \in {"legend", "alias"} => text[i].alias \in DOMAIN names
  BY ONLY <1>2, <1>3, RewriteCells, bound \in Seq(Bytes), names \in Seq(Bytes)
<1>5. \A n \in DOMAIN names \ DOMAIN bound :
        \E c \in Range(text) : c.form = "legend" /\ c.alias = n
  <2> TAKE n \in DOMAIN names \ DOMAIN bound
  <2>1. PICK k \in DOMAIN old : old[k].line = names[n]
    BY <1>1
  <2>. QED BY ONLY SMTT(60), <1>2, <1>3, <2>1, RewriteExplains, bound \in Seq(Bytes),
                  names \in Seq(Bytes), Distinct(names), Len(bound) <= Len(names),
                  \A i \in DOMAIN bound : names[i] = bound[i]
<1>6. \A sign : LinesOf(text, sign) = LinesOf(old, sign)
  BY ZenonT(60), <1>4, SameLines
<1>7. PICK new, was : new = TextTokens(text) /\ was = TextTokens(old)
  OBVIOUS
<1>8. new \in Nat /\ was \in Nat
  BY <1>3, <1>4, <1>7, TokensOfText
<1>9. CASE Accepted(report, text)
  <2>1. config.ledger # "path" => new - was < 0
    BY <1>1, <1>7, <1>9 DEF Accepted
  <2>2. PICK tokens : tokens = report.tokens + new - was
    OBVIOUS
  <2>3. final = [report EXCEPT !.text = text, !.tokens = tokens]
    BY Zenon, <1>1, <1>2, <1>7, <1>9, <2>2 DEF Ledgered
  <2>4. /\ SameHeading(final, report)
        /\ final.schema = report.schema /\ final.cut = report.cut
        /\ final.text = text /\ final.tokens = tokens
    BY <2>3 DEF SameHeading, Fields
  <2>5. tokens \in Int /\ (config.ledger # "path" => tokens <= report.tokens)
    BY <1>8, <2>1, <2>2
  <2>6. \A c \in Range(text) : c.form \in {"legend", "alias"} => c.alias \in DOMAIN names
    BY <1>4 DEF Range
  <2>. QED BY Zenon, <1>1, <1>4, <1>5, <1>6, <2>4, <2>5, <2>6
<1>10. CASE ~Accepted(report, text)
  <2>1. final = report
    BY Zenon, <1>1, <1>2, <1>10 DEF Ledgered
  <2>2. config.ledger # "path"
    BY <1>10 DEF Accepted
  <2>3. \A c \in Range(old) : c.form = "full"
    BY <1>1, BareForms
  <2>4. SameHeading(final, report)
    BY <2>1 DEF SameHeading
  <2>5. \A c \in Range(old) : c.form \in {"legend", "alias"} => c.alias \in DOMAIN names
    BY <2>3
  <2>6. final.tokens <= report.tokens
    BY <2>1
  <2>. QED BY Zenon, <1>1, <1>3, <2>1, <2>2, <2>4, <2>5, <2>6
<1>. QED BY <1>9, <1>10

----------------------------------------------------------------------------
(* What the agent makes of an answer                                       *)

(* The aliases that a text explains.                                       *)
Legends(text) == {c.alias : c \in {d \in Range(text) : d.form = "legend"}}

(* An agent that knows every name reads every line.                        *)
LEMMA ReadsAll ==
    ASSUME NEW r, \A c \in Range(r.text) : c.form = "alias" => c.alias \in explained \cup Legends(r.text)
    PROVE  /\ Reads(r).known = explained \cup Legends(r.text)
           /\ r.schema = "delta" =>
                /\ Reads(r).picture.lines =
                     (picture[r.argv].lines \ LinesOf(r.text, "-")) \cup LinesOf(r.text, "+")
                /\ Reads(r).picture.whole = (picture[r.argv].whole /\ ~r.cut)
           /\ r.schema # "delta" =>
                /\ Reads(r).picture.lines = LinesOf(r.text, "")
                /\ Reads(r).picture.whole = (r.schema \notin {"pointer", "lost"})
<1> DEFINE known == explained \cup Legends(r.text)
           clear == {c \in Range(r.text) : c.form # "alias" \/ c.alias \in known}
           Of(sign) == {c.line : c \in {d \in clear : d.sign = sign}}
<1>1. clear = Range(r.text)
  OBVIOUS
<1>2. \A sign : Of(sign) = LinesOf(r.text, sign)
  <2> HIDE DEF clear
  <2>. QED BY <1>1 DEF LinesOf
<1>3. Reads(r) =
        [known |-> known,
         picture |->
           IF r.schema = "delta"
             THEN [lines |-> (picture[r.argv].lines \ Of("-")) \cup Of("+"),
                   whole |-> picture[r.argv].whole /\ ~r.cut]
             ELSE [lines |-> Of(""), whole |-> r.schema \notin {"pointer", "lost"}]]
  BY DEF Reads, Legends
<1> HIDE DEF Of, clear
<1>4. CASE r.schema = "delta"
  <2>1. PICK lines, whole : /\ lines = (picture[r.argv].lines \ LinesOf(r.text, "-"))
                                           \cup LinesOf(r.text, "+")
                            /\ whole = (picture[r.argv].whole /\ ~r.cut)
    BY Zenon
  <2>2. Reads(r) = [known |-> known, picture |-> [lines |-> lines, whole |-> whole]]
    BY Zenon, <1>2, <1>3, <1>4, <2>1
  <2> HIDE DEF known
  <2>3. /\ Reads(r).known = known
        /\ Reads(r).picture.lines = lines
        /\ Reads(r).picture.whole = whole
    BY ONLY <2>2
  <2>4. Reads(r).picture.whole = (picture[r.argv].whole /\ ~r.cut)
    BY Zenon, <2>1, <2>3
  <2>. QED BY Zenon, <1>4, <2>1, <2>3, <2>4 DEF known
<1>5. CASE r.schema # "delta"
  <2>1. PICK lines, whole : /\ lines = LinesOf(r.text, "")
                            /\ whole = (r.schema \notin {"pointer", "lost"})
    BY Zenon
  <2>2. Reads(r) = [known |-> known, picture |-> [lines |-> lines, whole |-> whole]]
    BY Zenon, <1>2, <1>3, <1>5, <2>1
  <2> HIDE DEF known
  <2>3. /\ Reads(r).known = known
        /\ Reads(r).picture.lines = lines
        /\ Reads(r).picture.whole = whole
    BY ONLY <2>2
  <2>4. Reads(r).picture.whole = (r.schema \notin {"pointer", "lost"})
    BY Zenon, <2>1, <2>3
  <2>. QED BY Zenon, <1>5, <2>1, <2>3, <2>4 DEF known
<1>. QED BY Zenon, <1>4, <1>5

(* Whatever it knows, it learns the legends.                               *)
LEMMA ReadsLegends ==
    ASSUME NEW r PROVE Reads(r).known = explained \cup Legends(r.text)
BY DEF Reads, Legends

(* A report that is delivered, and perhaps stored, is a sound one.         *)
LEMMA DeliveredReports ==
    ASSUME ReportsOK, NEW r, Deliver(r), UNCHANGED <<config, printed>>,
           DOMAIN bound \subseteq DOMAIN bound',
           Sound(r, config, printed, DOMAIN bound'), r.asked = r.looked,
           cache' = cache \/ (r.hit = FALSE /\ cache' = Put(cache, r.key, r))
    PROVE  ReportsOK'
<1>1. answer' = r
  BY DEF Deliver
<1>2. ASSUME NEW k \in DOMAIN cache
      PROVE  /\ Sound(cache[k], config, printed, DOMAIN bound')
             /\ cache[k].key = k
             /\ cache[k].hit = FALSE
  BY Zenon, <1>2, SoundStays DEF ReportsOK
<1>3. ASSUME NEW k \in DOMAIN cache'
      PROVE  /\ Sound(cache'[k], config, printed, DOMAIN bound')
             /\ cache'[k].key = k
             /\ cache'[k].hit = FALSE
  <2>1. CASE cache' = cache
    BY Zenon, <1>2, <1>3, <2>1
  <2>2. CASE r.hit = FALSE /\ cache' = Put(cache, r.key, r)
    <3>1. PICK store : store = cache'
      BY Zenon
    <3>2. store = Put(cache, r.key, r) /\ k \in DOMAIN store
      BY Zenon, <1>3, <2>2, <3>1
    <3>3. CASE k = r.key
      <4>1. store[k] = r
        BY ONLY <3>2, <3>3 DEF Put
      <4>. QED
        BY Zenon, <2>2, <3>1, <3>3, <4>1
    <3>4. CASE k # r.key
      <4>1. k \in DOMAIN cache /\ store[k] = cache[k]
        BY ONLY <3>2, <3>4 DEF Put
      <4>. QED BY Zenon, <1>2, <3>1, <4>1
    <3>. QED BY Zenon, <3>3, <3>4
  <2>. QED BY <2>1, <2>2
<1>. QED BY Zenon, <1>1, <1>3 DEF ReportsOK

(* A hit is the cached report, given for another hint.                     *)
LEMMA HitReport ==
    ASSUME SessionOK, ReportsOK, NEW a \in config.argvs, NEW hint \in config.hints,
           config.cache, Key(a, head) \in DOMAIN cache,
           NEW r, r = [cache[Key(a, head)] EXCEPT !.hit = TRUE, !.hint = hint, !.asked = head]
    PROVE  /\ Sound(r, config, printed, DOMAIN bound)
           /\ r.asked = r.looked
           /\ r.hit = TRUE
<1>1. PICK old, key : key = Key(a, head) /\ old = cache[key]
  OBVIOUS
<1>2. /\ Sound(old, config, printed, DOMAIN bound)
      /\ old.key = key
  BY Zenon, <1>1 DEF ReportsOK
<1>3. r = [old EXCEPT !.hit = TRUE, !.hint = hint, !.asked = head]
  BY <1>1
<1>4. /\ DOMAIN r = Fields
      /\ r.argv = old.argv /\ r.key = old.key /\ r.looked = old.looked /\ r.ran = old.ran
      /\ r.raw = old.raw /\ r.level = old.level /\ r.schema = old.schema
      /\ r.cut = old.cut /\ r.text = old.text /\ r.tokens = old.tokens
      /\ r.hit = TRUE /\ r.asked = head
      /\ r.floor = old.floor /\ r.silent = old.silent /\ r.hint = hint
  <2>1. DOMAIN old = Fields
    BY Zenon, <1>2 DEF Sound
  <2>. QED BY ONLY <1>3, <2>1 DEF Fields
<1>5. old.looked = head
  <2>1. PICK argv, looked : argv = old.argv /\ looked = old.looked
    OBVIOUS
  <2>2. old.key = <<argv, looked>> /\ key = <<a, head>>
    BY Zenon, <1>1, <1>2, <2>1 DEF Sound, Key
  <2>3. <<argv, looked>> = <<a, head>>
    BY Zenon, <1>2, <2>2
  <2>4. looked = head
    BY ONLY <2>3
  <2>. QED BY <2>1, <2>4
<1>6. Floored(r)
  <2>1. hint.floor \in DOMAIN Levels
    BY CommandConstants DEF SessionOK
  <2>2. Floored(old)
    BY Zenon, <1>2 DEF Sound
  <2>. QED BY Zenon, <1>4, <2>1, <2>2 DEF Floored
<1>7. Sound(r, config, printed, DOMAIN bound)
  BY ZenonT(30), <1>2, <1>4, <1>6 DEF Sound
<1>. QED BY Zenon, <1>4, <1>5, <1>7

----------------------------------------------------------------------------
(* The reports that finish a call                                          *)

(* A report that is new: delivered, and stored where there is a cache.     *)
Fresh(r) ==
    /\ r.asked = r.looked
    /\ r.argv = call.argv
    /\ r.hit = FALSE
    /\ Deliver(r)
    /\ Store(r)

(* The floor of a call is a level.                                         *)
LEMMA CallFloor ==
    ASSUME SessionOK, phase = "running" PROVE call.hint.floor \in DOMAIN Levels
<1>1. config \in Deployments /\ call.hint \in config.hints
  BY DEF SessionOK
<1>. QED BY <1>1, CommandConstants

(* What run_command captured is a sequence of lines.                       *)
LEMMA CapturedLines ==
    ASSUME RunnerInv PROVE Captured \in Seq(Bytes)
<1>1. buf["stdout"] \in Seq(Bytes) /\ buf["stderr"] \in Seq(Bytes)
  BY DEF RunnerInv, RunnerTypeOK, Streams
<1>. QED BY <1>1 DEF Captured

(* Whatever is made of an output, its report is a sound one.               *)
LEMMA FinishedReport ==
    ASSUME SessionOK, RunOK, FinishCall, Returned, NEW r, NEW names,
           DOMAIN r = Fields,
           r.argv = call.argv, r.key = call.key, r.asked = call.asked,
           r.looked = call.looked, r.ran = call.ran, r.raw = Captured, Captured \in Seq(Bytes),
           r.level \in DOMAIN Levels,
           r.text \in Seq(Cell),
           r.tokens \in Int,
           \A c \in Range(r.text) : c.form \in {"legend", "alias"} => c.alias \in names,
           r.schema \in {"full", "delta"} /\ config.ledger # "path" =>
             r.tokens <= LinesTokens(Compress(r.raw, r.level)),
           r.schema = "full" => LinesOf(r.text, "") = Range(Compress(r.raw, r.level)),
           r.schema = "delta" => config.delta,
           Floored(r)
    PROVE  Sound(r, config, printed, names) /\ r.asked = r.looked
<1>1. phase = "running"
  BY Zenon DEF FinishCall
<1>2. /\ call.argv \in config.argvs
      /\ call.asked = call.looked
      /\ call.key = <<call.argv, call.looked>>
  BY Zenon, <1>1 DEF SessionOK
<1>3. config.faulty = {} => Witnessed(printed, call.argv, call.ran, Captured)
  BY Zenon, <1>1 DEF RunOK
<1>4. r.key = <<r.argv, r.looked>>
  BY Zenon, <1>2
<1>5. config.faulty = {} => Witnessed(printed, r.argv, r.looked, r.raw) \/ r.looked # r.ran
  BY Zenon, <1>3
<1>6. r.argv \in config.argvs /\ r.asked = r.looked /\ r.raw \in Seq(Bytes)
  BY Zenon, <1>2
<1>. QED BY Zenon, <1>4, <1>5, <1>6 DEF Sound

(* A set of numbers with a bound has a largest one.                        *)
LEMMA LargestOf ==
    ASSUME NEW m \in Nat, NEW S, S \subseteq 0..m, S # {}
    PROVE  Max(S) \in S
<1> DEFINE Good == {n \in Nat : \A T \in SUBSET (0..n) :
                                  T # {} => \E x \in T : \A y \in T : x >= y}
<1>1. 0 \in Good
  <2>1. 0..0 = {0} /\ 0 >= 0
    OBVIOUS
  <2>2. ASSUME NEW T \in SUBSET {0}, T # {} PROVE \E x \in T : \A y \in T : x >= y
    <3>1. T = {0}
      BY <2>2
    <3>. QED BY <2>1, <3>1
  <2>. QED BY <2>1, <2>2
<1>2. ASSUME NEW n \in Nat, n \in Good PROVE n + 1 \in Good
  <2> SUFFICES ASSUME NEW T \in SUBSET (0..(n + 1)), T # {}
               PROVE  \E x \in T : \A y \in T : x >= y
    OBVIOUS
  <2>1. CASE n + 1 \in T
    BY <2>1
  <2>2. CASE n + 1 \notin T
    <3>1. T \in SUBSET (0..n)
      BY <2>2
    <3>. QED BY <1>2, <3>1
  <2>. QED BY <2>1, <2>2
<1>3. Nat \subseteq Good
  <2> HIDE DEF Good
  <2> QED BY <1>1, <1>2, NatSetInduction
<1>4. \E x \in S : \A y \in S : x >= y
  <2>1. m \in Good
    BY <1>3
  <2>. QED BY <2>1
<1>. QED BY <1>4 DEF Max

(* A text that is clipped is a start of the lines.                         *)
LEMMA ClippedLines ==
    ASSUME NEW lines \in Seq(Bytes), NEW max \in Int
    PROVE  Clipped(lines, max) \in Seq(Bytes)
<1> DEFINE fits == {n \in 0..Len(lines) : LinesTokens(SubSeq(lines, 1, n)) <= max}
<1>1. Len(lines) \in Nat /\ fits \subseteq 0..Len(lines)
  OBVIOUS
<1>2. CASE max > 0
  <2>1. LinesTokens(SubSeq(lines, 1, 0)) = 0
    <3>1. PICK none : none = SubSeq(lines, 1, 0)
      OBVIOUS
    <3>2. none \in Seq(Bytes) /\ DOMAIN none = {}
      BY <3>1
    <3>3. PICK text : text = Plain(none, "")
      BY Zenon
    <3>4. DOMAIN text = {}
      BY ONLY <3>2, <3>3 DEF Plain
    <3>5. PICK f : f = [i \in DOMAIN text |-> CellTokens(text[i])]
      OBVIOUS
    <3>6. DOMAIN f = {}
      BY ONLY <3>4, <3>5
    <3>7. SumFunctionOnSet(f, {}) = 0
      BY SumEmpty
    <3>8. TextTokens(text) = SumFunctionOnSet(f, DOMAIN f)
      BY Zenon, <3>5 DEF TextTokens, SumFunction
    <3>. QED BY Zenon, <3>1, <3>3, <3>6, <3>7, <3>8 DEF LinesTokens
  <2>2. 0 \in fits
    BY <1>1, <1>2, <2>1
  <2> HIDE DEF fits
  <2>3. PICK m \in Nat : m = Len(lines)
    BY <1>1
  <2>4. Max(fits) \in fits
    BY <1>1, <2>2, <2>3, LargestOf
  <2>5. PICK k \in 0..m : k = Max(fits)
    BY <1>1, <2>3, <2>4
  <2>6. Clipped(lines, max) = SubSeq(lines, 1, k)
    BY <1>2, <2>5 DEF Clipped, fits
  <2>7. k \in Nat /\ k <= Len(lines) /\ Len(lines) \in Nat
    BY <2>3
  <2>8. SubSeq(lines, 1, k) \in Seq(Bytes)
    BY <2>7
  <2>. QED BY <2>6, <2>8
<1>3. CASE ~(max > 0)
  BY <1>3 DEF Clipped
<1>. QED BY <1>2, <1>3

(* The pointer to a log is a sound report, and empty.                      *)
LEMMA SpilledReport ==
    ASSUME RunnerInv, SessionOK, RunOK, FinishSpilled
    PROVE  /\ UNCHANGED <<config, printed, baseline, bound, rejected>>
           /\ \E r : /\ Fresh(r)
                     /\ Sound(r, config, printed, DOMAIN bound)
                     /\ Bare(r.text)
                     /\ r.schema \in {"pointer", "lost"}
<1>1. PICK lines \in Seq(Bytes) : lines = Captured
  BY CapturedLines
<1>2. PICK wrote \in BOOLEAN : /\ Store(Pointer(Captured, wrote))
                               /\ Deliver(Pointer(Captured, wrote))
  BY Zenon DEF FinishSpilled
<1>3. PICK r : r = Pointer(Captured, wrote)
  OBVIOUS
<1>4. PICK schema : schema = IF wrote THEN "pointer" ELSE "lost"
  OBVIOUS
<1>5. schema \in {"pointer", "lost"}
  BY <1>4
<1>6. /\ FinishCall /\ Returned
      /\ UNCHANGED <<config, printed, baseline, bound, rejected>>
  BY Zenon DEF FinishSpilled, worldVars
<1>7. phase = "running"
  BY <1>6 DEF FinishCall
<1>8. PICK full : full = Full(lines, "ultra")
  OBVIOUS
<1>9. /\ DOMAIN full = Fields
      /\ full.argv = call.argv /\ full.key = call.key /\ full.asked = call.asked
      /\ full.looked = call.looked /\ full.ran = call.ran /\ full.hint = call.hint
      /\ full.hit = FALSE /\ full.raw = lines /\ full.level = "ultra"
      /\ full.floor = call.hint.floor
      /\ full.text = Plain(Compress(lines, "ultra"), "")
      /\ full.tokens = LinesTokens(Compress(lines, "ultra"))
  BY ONLY Zenon, <1>8 DEF Full, Fields, LinesTokens
<1>10. r = [full EXCEPT !.schema = schema]
  BY Zenon, <1>1, <1>3, <1>4, <1>8 DEF Pointer
<1>11. /\ SameHeading(r, full)
       /\ r.text = full.text /\ r.tokens = full.tokens
       /\ r.schema = schema
  BY ONLY Zenon, <1>9, <1>10 DEF SameHeading, Fields
<1>12. "ultra" \in DOMAIN Levels
  BY DEF Levels
<1>13. Bare(r.text) /\ r.tokens \in Nat
  <2>1. PICK kept : kept = Compress(lines, "ultra")
    OBVIOUS
  <2>2. kept \in Seq(Bytes)
    BY Zenon, <1>12, <2>1, CompressedLines
  <2>3. "" \in {"", "+", "-"}
    OBVIOUS
  <2>4. Bare(Plain(kept, ""))
    BY Zenon, <2>2, <2>3, PlainIsBare
  <2>5. TextTokens(Plain(kept, "")) \in Nat
    BY Zenon, <2>4, TokensOfText DEF Bare
  <2>. QED BY Zenon, <1>9, <1>11, <2>1, <2>4, <2>5 DEF LinesTokens
<1>14. /\ \A c \in Range(r.text) : c.form \in {"legend", "alias"} => c.alias \in DOMAIN bound
       /\ r.text \in Seq(Cell)
       /\ r.tokens \in Int
       /\ r.schema \notin {"full", "delta"} /\ r.schema # "full" /\ r.schema # "delta"
  <2>1. \A c \in Range(r.text) : c.form = "full"
    BY Zenon, <1>13, BareForms
  <2>2. r.schema \in {"pointer", "lost"}
    BY <1>5, <1>11
  <2>3. \A c \in Range(r.text) : c.form \notin {"legend", "alias"}
    BY ONLY <2>1
  <2>4. r.tokens \in Int
    BY ONLY <1>13
  <2>5. r.schema \notin {"full", "delta"} /\ r.schema # "full" /\ r.schema # "delta"
    BY ONLY <2>2
  <2>. QED BY Zenon, <1>13, <2>3, <2>4, <2>5 DEF Bare
<1>15. /\ DOMAIN r = Fields
       /\ r.argv = call.argv /\ r.key = call.key /\ r.asked = call.asked
       /\ r.looked = call.looked /\ r.ran = call.ran /\ r.raw = Captured
       /\ r.level \in DOMAIN Levels /\ r.hit = FALSE
  BY Zenon, <1>1, <1>9, <1>11, <1>12 DEF SameHeading
<1>16. Sound(r, config, printed, DOMAIN bound) /\ r.asked = r.looked
  <2>1. Captured \in Seq(Bytes)
    BY <1>1
  <2>2. call.hint.floor \in DOMAIN Levels
    BY Zenon, <1>7, CallFloor
  <2>3. r.hint = call.hint /\ r.floor = call.hint.floor
    BY Zenon, <1>9, <1>11 DEF SameHeading
  <2>4. Floored(r)
    BY Zenon, <1>5, <1>11, <2>2, <2>3 DEF Floored
  <2>. QED BY Zenon, <1>6, <1>14, <1>15, <2>1, <2>4, FinishedReport
<1>17. Fresh(r)
  BY Zenon, <1>2, <1>3, <1>15, <1>16 DEF Fresh
<1>. QED BY Zenon, <1>5, <1>6, <1>11, <1>13, <1>16, <1>17

(* An output that no compressor is registered for is passed on as it is.   *)
LEMMA UnknownReport ==
    ASSUME RunnerInv, SessionOK, RunOK, FinishUnknown
    PROVE  /\ UNCHANGED <<config, printed, baseline, bound, rejected>>
           /\ call.argv \notin Known
           /\ \E r : /\ Fresh(r)
                     /\ Sound(r, config, printed, DOMAIN bound)
                     /\ Bare(r.text)
                     /\ r.schema = "passthrough"
<1>1. PICK lines \in Seq(Bytes) : lines = Captured
  BY CapturedLines
<1>2. Store(Passthrough(Captured)) /\ Deliver(Passthrough(Captured))
  BY Zenon DEF FinishUnknown
<1>3. PICK r : r = Passthrough(Captured)
  OBVIOUS
<1>6. /\ FinishCall /\ Returned
      /\ call.argv \notin Known
      /\ UNCHANGED <<config, printed, baseline, bound, rejected>>
  BY Zenon DEF FinishUnknown, worldVars
<1>7. phase = "running"
  BY <1>6 DEF FinishCall
<1>8. PICK full : full = Full(lines, "verbose")
  OBVIOUS
<1>9. /\ DOMAIN full = Fields
      /\ full.argv = call.argv /\ full.key = call.key /\ full.asked = call.asked
      /\ full.looked = call.looked /\ full.ran = call.ran /\ full.hint = call.hint
      /\ full.hit = FALSE /\ full.raw = lines /\ full.level = "verbose"
      /\ full.floor = call.hint.floor
  BY ONLY Zenon, <1>8 DEF Full, Fields, LinesTokens
<1>10. PICK text, tokens : /\ text = Plain(Clipped(lines, call.hint.max), "")
                           /\ tokens = TextTokens(text)
  BY Zenon
<1>11. r = [full EXCEPT !.schema = "passthrough", !.text = text, !.tokens = tokens]
  BY Zenon, <1>1, <1>3, <1>8, <1>10 DEF Passthrough
<1>12. /\ SameHeading(r, full)
       /\ r.text = text /\ r.tokens = tokens
       /\ r.schema = "passthrough"
  BY ONLY <1>9, <1>11 DEF SameHeading, Fields
<1>13. /\ "verbose" \in DOMAIN Levels /\ Levels["verbose"] = 2
       /\ \A level \in DOMAIN Levels : 2 >= Levels[level]
  BY DEF Levels
<1>14. call.hint \in config.hints /\ call.hint.max \in Int /\ call.hint.floor \in DOMAIN Levels
  <2>1. config \in Deployments /\ call.hint \in config.hints
    BY <1>7 DEF SessionOK
  <2>. QED BY <2>1, CommandConstants
<1>15. Bare(r.text) /\ r.tokens \in Nat
  <2>1. PICK kept : kept = Clipped(lines, call.hint.max)
    OBVIOUS
  <2>2. kept \in Seq(Bytes)
    BY Zenon, <1>14, <2>1, ClippedLines
  <2>3. "" \in {"", "+", "-"}
    OBVIOUS
  <2>4. Bare(Plain(kept, ""))
    BY Zenon, <2>2, <2>3, PlainIsBare
  <2>5. TextTokens(Plain(kept, "")) \in Nat
    BY Zenon, <2>4, TokensOfText DEF Bare
  <2>. QED BY Zenon, <1>10, <1>12, <2>1, <2>4, <2>5
<1>16. /\ \A c \in Range(r.text) : c.form \in {"legend", "alias"} => c.alias \in DOMAIN bound
       /\ r.text \in Seq(Cell)
       /\ r.tokens \in Int
       /\ r.schema \notin {"full", "delta"} /\ r.schema # "full" /\ r.schema # "delta"
  <2>1. \A c \in Range(r.text) : c.form = "full"
    BY Zenon, <1>15, BareForms
  <2>2. r.schema = "passthrough"
    BY <1>12
  <2>3. \A c \in Range(r.text) : c.form \notin {"legend", "alias"}
    BY ONLY <2>1
  <2>4. r.tokens \in Int
    BY ONLY <1>15
  <2>5. r.schema \notin {"full", "delta"} /\ r.schema # "full" /\ r.schema # "delta"
    BY ONLY <2>2
  <2>. QED BY Zenon, <1>15, <2>3, <2>4, <2>5 DEF Bare
<1>17. /\ DOMAIN r = Fields
       /\ r.argv = call.argv /\ r.key = call.key /\ r.asked = call.asked
       /\ r.looked = call.looked /\ r.ran = call.ran /\ r.raw = Captured
       /\ r.level \in DOMAIN Levels /\ r.hit = FALSE
       /\ r.level = "verbose" /\ r.hint = call.hint /\ r.floor = call.hint.floor
  BY Zenon, <1>1, <1>9, <1>12, <1>13 DEF SameHeading
<1>18. Floored(r)
  <2>1. \A floor \in DOMAIN Levels : Levels[floor] \in Nat
    BY DEF Levels
  <2>2. PICK low, high : low = Levels[r.level] /\ high = Levels[r.floor]
    OBVIOUS
  <2>3. high \in Nat /\ low = 2 /\ 2 >= high
    BY Zenon, <1>13, <1>14, <1>17, <2>1, <2>2
  <2>4. ~(low < high)
    BY ONLY <2>3
  <2>. QED BY Zenon, <1>14, <1>17, <2>2, <2>4 DEF Floored
<1>19. Sound(r, config, printed, DOMAIN bound) /\ r.asked = r.looked
  <2>1. Captured \in Seq(Bytes)
    BY <1>1
  <2>. QED BY Zenon, <1>6, <1>16, <1>17, <1>18, <2>1, FinishedReport
<1>20. Fresh(r)
  BY Zenon, <1>2, <1>3, <1>17, <1>19 DEF Fresh
<1>. QED BY Zenon, <1>6, <1>12, <1>15, <1>19, <1>20

(* What a compressor, a delta and a ledger make of an output.              *)
LEMMA CompressedReport ==
    ASSUME RunnerInv, SessionOK, RunOK, LedgerOK, PicturesOK, FinishCompressed
    PROVE  /\ UNCHANGED <<config, printed>>
           /\ call.argv \in Known
           /\ bound' \in Seq(Bytes) /\ Distinct(bound') /\ DOMAIN bound \subseteq DOMAIN bound'
           /\ \E r : /\ Fresh(r)
                     /\ Sound(r, config, printed, DOMAIN bound')
                     /\ baseline' = IF config.delta
                                      THEN [baseline EXCEPT ![call.argv] = Compress(r.raw, r.level)]
                                      ELSE baseline
                     /\ \/ r.schema = "full"
                        \/ /\ r.schema = "delta"
                           /\ baseline[call.argv] # Nothing
                           /\ ~r.cut =>
                                /\ LinesOf(r.text, "+") = Range(Compress(r.raw, r.level))
                                                            \ Range(baseline[call.argv])
                                /\ LinesOf(r.text, "-") = Range(baseline[call.argv])
                                                            \ Range(Compress(r.raw, r.level))
                     /\ rejected' \in {rejected, rejected \cup (DOMAIN bound' \ DOMAIN bound)}
                     /\ \/ /\ rejected' = rejected \cup (DOMAIN bound' \ DOMAIN bound)
                           /\ config.ledger \in {"none", "path"} => bound' = bound
                        \/ DOMAIN bound' \ DOMAIN bound \subseteq Legends(r.text)
<1>1. PICK lines \in Seq(Bytes) : lines = Captured
  BY CapturedLines
<1>2. PICK a, level, full, report, names, final :
        /\ a = call.argv
        /\ level = LevelOf(lines)
        /\ full = Full(lines, level)
        /\ report = IF config.delta THEN SwapToDelta(baseline[a], full) ELSE full
        /\ names = IF config.ledger = "none" THEN bound ELSE Bind(bound, report.text)
        /\ final = IF config.ledger = "none" THEN report ELSE Ledgered(report, names)
  BY Zenon
<1>3. /\ FinishCall /\ Returned
      /\ a \in Known
      /\ baseline' = IF config.delta
                       THEN [baseline EXCEPT ![a] = NextBaseline(full, report)]
                       ELSE baseline
      /\ bound' = names
      /\ rejected' = IF final.text = report.text
                       THEN rejected \cup (DOMAIN names \ DOMAIN bound)
                       ELSE rejected
      /\ Store(final)
      /\ Deliver(final)
      /\ UNCHANGED <<config, printed>>
  BY Zenon, <1>1, <1>2 DEF FinishCompressed, worldVars
<1>4. phase = "running" /\ config \in Deployments /\ a \in config.argvs
      /\ call.hint \in config.hints
  BY <1>2, <1>3 DEF FinishCall, SessionOK
<1>5. call.hint.floor \in DOMAIN Levels /\ a \in Argvs
  BY <1>4, CommandConstants
<1>6. /\ level \in DOMAIN Levels
      /\ \/ Levels[level] >= Levels[call.hint.floor]
         \/ call.argv \in Diffs /\ Silent
  BY Zenon, <1>2, <1>5, LevelAboveFloor
<1>7. PICK kept : kept = Compress(lines, level)
  OBVIOUS
<1>8. kept \in Seq(Bytes)
  BY Zenon, <1>6, <1>7, CompressedLines
<1>9. PICK argv, key, asked, looked, ran, hint, floor :
        /\ argv = call.argv /\ key = call.key /\ asked = call.asked
        /\ looked = call.looked /\ ran = call.ran /\ hint = call.hint
        /\ floor = call.hint.floor
  OBVIOUS
<1>10. /\ DOMAIN full = Fields
       /\ full.argv = argv /\ full.key = key /\ full.asked = asked
       /\ full.looked = looked /\ full.ran = ran /\ full.hint = hint
       /\ full.hit = FALSE /\ full.raw = lines /\ full.level = level
       /\ full.schema = "full" /\ full.cut = FALSE
       /\ full.text = Plain(kept, "")
       /\ full.tokens = LinesTokens(kept)
       /\ full.floor = floor /\ full.silent = Silent
  <2>1. full = Full(lines, level)
    BY <1>2
  <2>. QED BY ONLY Zenon, <1>7, <1>9, <2>1 DEF Full, Fields, LinesTokens
<1>11. PICK prior : prior = baseline[a]
  OBVIOUS
<1>12. prior = Nothing \/ prior \in Seq(Bytes)
  BY <1>5, <1>11 DEF PicturesOK
<1>13. Bare(full.text) /\ full.tokens \in Nat
  <2>1. "" \in {"", "+", "-"}
    OBVIOUS
  <2>2. Bare(Plain(kept, ""))
    BY Zenon, <1>8, <2>1, PlainIsBare
  <2>3. TextTokens(Plain(kept, "")) \in Nat
    BY Zenon, <2>2, TokensOfText DEF Bare
  <2>. QED BY Zenon, <1>10, <2>2, <2>3 DEF LinesTokens
<1>14. /\ SameHeading(report, full)
       /\ Bare(report.text)
       /\ report.tokens \in Int
       /\ report.tokens <= full.tokens
       /\ \/ report = full
          \/ /\ report.schema = "delta" /\ config.delta
             /\ prior # Nothing
             /\ ~report.cut =>
                  /\ LinesOf(report.text, "+") = Range(kept) \ Range(prior)
                  /\ LinesOf(report.text, "-") = Range(prior) \ Range(kept)
  <2>1. CASE config.delta
    <3>1. report = SwapToDelta(prior, full)
      BY Zenon, <1>2, <1>11, <2>1
    <3>2. Plainly(full, kept)
      BY Zenon, <1>10 DEF Plainly
    <3>3. Swapped(report, full, prior, kept)
      BY Zenon, <1>8, <1>12, <3>1, <3>2, SwappedReport
    <3>. QED BY Zenon, <1>10, <2>1, <3>3 DEF Swapped
  <2>2. CASE ~config.delta
    <3>1. report = full
      BY Zenon, <1>2, <2>2
    <3>2. SameHeading(report, full)
      BY ONLY Zenon, <1>10, <3>1 DEF SameHeading
    <3>3. report.tokens \in Int /\ report.tokens <= full.tokens
      BY ONLY <1>13, <3>1
    <3>. QED BY Zenon, <1>13, <3>1, <3>2, <3>3
  <2>. QED BY Zenon, <2>1, <2>2
<1>15. /\ names \in Seq(Bytes)
       /\ Distinct(names)
       /\ Len(bound) <= Len(names)
       /\ \A i \in DOMAIN bound : names[i] = bound[i]
       /\ \A i \in DOMAIN names \ DOMAIN bound :
            \E k \in DOMAIN report.text : report.text[k].line = names[i]
  <2>1. bound \in Seq(Bytes) /\ Distinct(bound)
    BY DEF LedgerOK
  <2>2. CASE config.ledger = "none"
    <3>1. names = bound
      BY Zenon, <1>2, <2>2
    <3>2. Len(bound) <= Len(bound) /\ DOMAIN bound \ DOMAIN bound = {}
      BY ONLY <2>1
    <3>. QED BY Zenon, <2>1, <3>1, <3>2
  <2>3. CASE config.ledger # "none"
    <3>1. names = Bind(bound, report.text)
      BY Zenon, <1>2, <2>3
    <3>2. report.text \in Seq(Cell)
      BY Zenon, <1>14 DEF Bare
    <3>3. /\ Bind(bound, report.text) \in Seq(Bytes)
          /\ Distinct(Bind(bound, report.text))
          /\ Len(bound) <= Len(Bind(bound, report.text))
          /\ \A i \in DOMAIN bound : Bind(bound, report.text)[i] = bound[i]
          /\ \A i \in DOMAIN Bind(bound, report.text) \ DOMAIN bound :
               \E k \in DOMAIN report.text : report.text[k].line = Bind(bound, report.text)[i]
      BY ONLY <2>1, <3>2, BindExtends
    <3>. QED BY Zenon, <3>1, <3>3
  <2>. QED BY <2>2, <2>3
<1>16. DOMAIN bound \subseteq DOMAIN names
  <2>1. bound \in Seq(Bytes)
    BY DEF LedgerOK
  <2>. QED BY ONLY <1>15, <2>1
<1>17. /\ SameHeading(final, full)
       /\ final.schema = report.schema /\ final.cut = report.cut
       /\ final.text \in Seq(Cell)
       /\ \A sign : LinesOf(final.text, sign) = LinesOf(report.text, sign)
       /\ \A c \in Range(final.text) :
            c.form \in {"legend", "alias"} => c.alias \in DOMAIN names
       /\ final.tokens \in Int
       /\ config.ledger # "path" => final.tokens <= report.tokens
       /\ \/ /\ final.text = report.text
             /\ config.ledger \in {"none", "path"} => names = bound
          \/ DOMAIN names \ DOMAIN bound \subseteq Legends(final.text)
  <2>1. CASE config.ledger = "none"
    <3>1. names = bound /\ final = report
      BY Zenon, <1>2, <2>1
    <3>2. \A c \in Range(report.text) : c.form = "full"
      BY Zenon, <1>14, BareForms
    <3>3. \A c \in Range(report.text) : c.form \notin {"legend", "alias"}
      BY ONLY <3>2
    <3>4. report.tokens <= report.tokens
      BY ONLY <1>14
    <3>. QED BY Zenon, <1>14, <3>1, <3>3, <3>4 DEF Bare
  <2>2. CASE config.ledger # "none"
    <3>1. final = Ledgered(report, names)
      BY Zenon, <1>2, <2>2
    <3>2. bound \in Seq(Bytes) /\ DOMAIN report = Fields
      BY Zenon, <1>14 DEF LedgerOK, SameHeading
    <3>3. Explained(final, report, names)
      <4>1. Ledgerable(report, names)
        BY Zenon, <1>14, <1>15, <3>2 DEF Ledgerable
      <4>. QED BY Zenon, <1>4, <1>15, <3>1, <3>2, <4>1, LedgeredReport
    <3>4. SameHeading(final, full)
      BY Zenon, <1>14, <3>3 DEF SameHeading, Explained
    <3>5. config.ledger # "path" => config.ledger \notin {"none", "path"}
      BY <2>2
    <3>6. (\A n \in DOMAIN names \ DOMAIN bound :
             \E c \in Range(final.text) : c.form = "legend" /\ c.alias = n)
          => DOMAIN names \ DOMAIN bound \subseteq Legends(final.text)
      BY Zenon DEF Legends
    <3>. QED BY Zenon, <3>3, <3>4, <3>5, <3>6 DEF Explained
  <2>. QED BY <2>1, <2>2
<1>18. /\ DOMAIN final = Fields
       /\ final.argv = call.argv /\ final.key = call.key /\ final.asked = call.asked
       /\ final.looked = call.looked /\ final.ran = call.ran /\ final.hint = call.hint
       /\ final.hit = FALSE /\ final.raw = lines /\ final.level = level
       /\ final.floor = call.hint.floor /\ final.silent = Silent
  BY Zenon, <1>9, <1>10, <1>17 DEF SameHeading
<1>19. Compress(final.raw, final.level) = kept
  BY Zenon, <1>7, <1>18
<1>20. config.ledger # "path" => final.tokens <= LinesTokens(kept)
  <2> SUFFICES ASSUME config.ledger # "path" PROVE final.tokens <= LinesTokens(kept)
    OBVIOUS
  <2>1. final.tokens <= report.tokens /\ final.tokens \in Int
    BY Zenon, <1>17
  <2>2. report.tokens <= full.tokens /\ report.tokens \in Int
    BY Zenon, <1>14
  <2>3. final.tokens <= full.tokens
    BY ONLY <1>13, <2>1, <2>2
  <2>. QED BY Zenon, <1>10, <2>3
<1>21. \/ final.schema = "full" /\ report = full
       \/ final.schema = "delta" /\ config.delta
  BY Zenon, <1>10, <1>14, <1>17
<1>22. final.schema = "full" => LinesOf(final.text, "") = Range(kept)
  <2>1. final.schema = "full" => report = full
    BY <1>21
  <2>2. LinesOf(full.text, "") = Range(kept)
    <3>1. "" \in {"", "+", "-"}
      OBVIOUS
    <3>2. LinesOf(Plain(kept, ""), "") = IF "" = "" THEN Range(kept) ELSE {}
      BY Zenon, <1>8, <3>1, PlainLines
    <3>. QED BY ONLY Zenon, <1>10, <3>2
  <2>. QED BY Zenon, <1>17, <2>1, <2>2
<1>23. Sound(final, config, printed, DOMAIN names) /\ final.asked = final.looked
  <2>1. final.raw = Captured /\ Captured \in Seq(Bytes) /\ final.level \in DOMAIN Levels
    BY Zenon, <1>1, <1>6, <1>18
  <2>2. final.schema = "delta" => config.delta
    BY <1>21
  <2>3. /\ final.schema \in {"full", "delta"} /\ config.ledger # "path" =>
             final.tokens <= LinesTokens(Compress(final.raw, final.level))
        /\ final.schema = "full" => LinesOf(final.text, "") = Range(Compress(final.raw, final.level))
    BY Zenon, <1>19, <1>20, <1>22
  <2>4. Floored(final)
    <3>1. \A other \in DOMAIN Levels : Levels[other] \in Nat
      BY DEF Levels
    <3>2. PICK low, high : low = Levels[final.level] /\ high = Levels[final.floor]
      OBVIOUS
    <3>3. low >= high \/ (call.argv \in Diffs /\ Silent)
      BY ZenonT(30), <1>6, <1>18, <3>2
    <3>4. high \in Nat /\ low \in Nat
      BY Zenon, <1>5, <1>6, <1>18, <3>1, <3>2
    <3>5. low < high => call.argv \in Diffs /\ Silent
      BY ONLY <3>3, <3>4
    <3>. QED BY Zenon, <1>5, <1>18, <3>2, <3>5 DEF Floored
  <2>. QED BY Zenon, <1>3, <1>17, <1>18, <2>1, <2>2, <2>3, <2>4, FinishedReport
<1>24. Fresh(final)
  BY Zenon, <1>3, <1>18, <1>23 DEF Fresh
<1>25. \/ final.schema = "full"
       \/ /\ final.schema = "delta"
          /\ baseline[call.argv] # Nothing
          /\ ~final.cut =>
               /\ LinesOf(final.text, "+") = Range(kept) \ Range(baseline[call.argv])
               /\ LinesOf(final.text, "-") = Range(baseline[call.argv]) \ Range(kept)
  <2>1. CASE report = full
    BY Zenon, <1>10, <1>17, <2>1
  <2>2. CASE report # full
    <3>1. /\ final.schema = "delta" /\ prior # Nothing
          /\ ~final.cut => ~report.cut
      BY Zenon, <1>14, <1>17, <2>2
    <3>2. /\ LinesOf(final.text, "+") = LinesOf(report.text, "+")
          /\ LinesOf(final.text, "-") = LinesOf(report.text, "-")
      BY Zenon, <1>17
    <3>3. ~report.cut =>
            /\ LinesOf(report.text, "+") = Range(kept) \ Range(prior)
            /\ LinesOf(report.text, "-") = Range(prior) \ Range(kept)
      BY Zenon, <1>14, <2>2
    <3>. QED BY Zenon, <1>2, <1>11, <3>1, <3>2, <3>3
  <2>. QED BY <2>1, <2>2
<1>26. baseline' = IF config.delta
                     THEN [baseline EXCEPT ![call.argv] = Compress(final.raw, final.level)]
                     ELSE baseline
  <2>1. NextBaseline(full, report) = Compress(final.raw, final.level)
    BY Zenon, <1>10, <1>18 DEF NextBaseline
  <2>. QED BY Zenon, <1>2, <1>3, <2>1
<1>27. /\ rejected' \in {rejected, rejected \cup (DOMAIN bound' \ DOMAIN bound)}
       /\ \/ /\ rejected' = rejected \cup (DOMAIN bound' \ DOMAIN bound)
             /\ config.ledger \in {"none", "path"} => bound' = bound
          \/ DOMAIN bound' \ DOMAIN bound \subseteq Legends(final.text)
  BY Zenon, <1>3, <1>17
<1>28. bound' \in Seq(Bytes) /\ Distinct(bound') /\ DOMAIN bound \subseteq DOMAIN bound'
  BY Zenon, <1>3, <1>15, <1>16
<1>. QED BY ZenonT(60), <1>2, <1>3, <1>19, <1>23, <1>24, <1>25, <1>26, <1>27, <1>28

----------------------------------------------------------------------------
(* The steps                                                               *)

(* Nothing that the agent or the code remembers changes.                   *)
Same ==
    /\ UNCHANGED <<config, cache, answer, baseline, bound, picture, explained, rejected>>
    /\ printed \subseteq printed'

(* An answer from the cache.                                               *)
Hit(r) ==
    /\ config.cache
    /\ Deliver(r)
    /\ UNCHANGED <<config, cache, baseline, bound, rejected, printed>>

(* The steps of a session, by what they do to reports.                     *)
LEMMA Kinds ==
    ASSUME SessionOK, ReportsOK, [Next]_vars
    PROVE  \/ Same
           \/ \E r : /\ Hit(r)
                     /\ Sound(r, config, printed, DOMAIN bound)
                     /\ r.asked = r.looked
                     /\ r.hit = TRUE
           \/ FinishSpilled
           \/ FinishUnknown
           \/ FinishCompressed
           \/ FinishRaised
<1>1. CASE Change
  <2>1. UNCHANGED <<config, cache, answer, baseline, bound, picture, explained, rejected>>
    BY Zenon, <1>1 DEF Change, sessionVars
  <2>2. printed \subseteq printed'
    BY <1>1 DEF Change
  <2>. QED BY Zenon, <2>1, <2>2 DEF Same
<1>2. CASE \E a \in config.argvs, hint \in config.hints : Invoke(a, hint)
  <2>1. PICK a \in config.argvs, hint \in config.hints : Invoke(a, hint)
    BY <1>2
  <2>2. UNCHANGED <<config, cache, baseline, bound, rejected, printed>>
    BY Zenon, <2>1 DEF Invoke, worldVars
  <2>3. CASE config.cache /\ Key(a, head) \in DOMAIN cache
    <3>1. PICK r : r = [cache[Key(a, head)] EXCEPT !.hit = TRUE, !.hint = hint, !.asked = head]
      OBVIOUS
    <3>2. Deliver(r)
      BY Zenon, <2>1, <2>3, <3>1 DEF Invoke
    <3>3. /\ Sound(r, config, printed, DOMAIN bound)
          /\ r.asked = r.looked
          /\ r.hit = TRUE
      BY Zenon, <2>3, <3>1, HitReport
    <3>. QED BY Zenon, <2>2, <2>3, <3>2, <3>3 DEF Hit
  <2>4. CASE ~(config.cache /\ Key(a, head) \in DOMAIN cache)
    <3>1. UNCHANGED <<answer, explained, picture>>
      BY Zenon, <2>1, <2>4 DEF Invoke
    <3>2. printed \subseteq printed'
      BY <2>2
    <3>. QED BY Zenon, <2>2, <3>1, <3>2 DEF Same
  <2>. QED BY <2>3, <2>4
<1>3. CASE Start
  <2>1. UNCHANGED <<config, cache, answer, baseline, bound, picture, explained, rejected, printed>>
    BY Zenon, <1>3 DEF Start, worldVars
  <2>. QED BY <2>1 DEF Same
<1>4. CASE Running
  <2>1. UNCHANGED <<config, cache, answer, baseline, bound, picture, explained, rejected, printed>>
    BY Zenon, <1>4 DEF Running, worldVars, sessionVars
  <2>. QED BY <2>1 DEF Same
<1>5. CASE UNCHANGED vars
  <2>1. UNCHANGED <<config, cache, answer, baseline, bound, picture, explained, rejected, printed>>
    BY Zenon, <1>5 DEF vars, worldVars, sessionVars
  <2>. QED BY <2>1 DEF Same
<1>. QED BY Zenon, <1>1, <1>2, <1>3, <1>4, <1>5, Steps DEF Finish

(* A run that raises answers nothing and changes nothing that is           *)
(* remembered.                                                             *)
LEMMA Raised ==
    ASSUME FinishRaised
    PROVE  /\ answer' = Nothing
           /\ UNCHANGED <<config, cache, baseline, bound, picture, explained, rejected, printed>>
BY Zenon DEF FinishRaised, worldVars

(* A report is stored under its key, or not at all.                        *)
LEMMA StoreKinds ==
    ASSUME NEW r, Store(r) PROVE cache' = cache \/ cache' = Put(cache, r.key, r)
BY Zenon DEF Store

(* Every step keeps ReportsOK.                                             *)
LEMMA NextReports ==
    ASSUME RunnerInv, SessionInv, [Next]_vars
    PROVE  ReportsOK'
<1>0. SessionOK /\ RunOK /\ ReportsOK /\ LedgerOK /\ PicturesOK
  BY Zenon DEF SessionInv
<1>1. CASE Same
  <2>1. UNCHANGED <<config, cache, answer, bound>> /\ printed \subseteq printed'
    BY Zenon, <1>1 DEF Same
  <2>2. \A r : Sound(r, config, printed, DOMAIN bound)
                 => Sound(r, config', printed', DOMAIN bound')
    <3>1. DOMAIN bound \subseteq DOMAIN bound
      OBVIOUS
    <3>. QED BY Zenon, <2>1, <3>1, SoundStays
  <2>. QED BY Zenon, <1>0, <2>1, <2>2 DEF ReportsOK
<1>2. ASSUME NEW r, Hit(r), Sound(r, config, printed, DOMAIN bound), r.asked = r.looked,
             r.hit = TRUE
      PROVE  ReportsOK'
  <2>1. Deliver(r) /\ UNCHANGED <<config, printed, bound, cache>>
    BY Zenon, <1>2 DEF Hit
  <2>2. DOMAIN bound \subseteq DOMAIN bound' /\ Sound(r, config, printed, DOMAIN bound')
    BY <1>2, <2>1
  <2>. QED BY Zenon, <1>0, <1>2, <2>1, <2>2, DeliveredReports
<1>3. ASSUME NEW r, Fresh(r), Sound(r, config, printed, DOMAIN bound'),
             UNCHANGED <<config, printed>>, DOMAIN bound \subseteq DOMAIN bound'
      PROVE  ReportsOK'
  <2>1. /\ Deliver(r) /\ r.asked = r.looked /\ r.hit = FALSE
        /\ cache' = cache \/ cache' = Put(cache, r.key, r)
    BY Zenon, <1>3, StoreKinds DEF Fresh
  <2>. QED BY Zenon, <1>0, <1>3, <2>1, DeliveredReports
<1>4. CASE FinishSpilled
  <2>1. PICK r : Fresh(r) /\ Sound(r, config, printed, DOMAIN bound)
    BY Zenon, <1>0, <1>4, SpilledReport
  <2>2. UNCHANGED <<config, printed, bound>>
    BY Zenon, <1>0, <1>4, SpilledReport
  <2>3. DOMAIN bound \subseteq DOMAIN bound' /\ Sound(r, config, printed, DOMAIN bound')
    BY <2>1, <2>2
  <2>. QED BY Zenon, <1>3, <2>1, <2>2, <2>3
<1>5. CASE FinishUnknown
  <2>1. PICK r : Fresh(r) /\ Sound(r, config, printed, DOMAIN bound)
    BY Zenon, <1>0, <1>5, UnknownReport
  <2>2. UNCHANGED <<config, printed, bound>>
    BY Zenon, <1>0, <1>5, UnknownReport
  <2>3. DOMAIN bound \subseteq DOMAIN bound' /\ Sound(r, config, printed, DOMAIN bound')
    BY <2>1, <2>2
  <2>. QED BY Zenon, <1>3, <2>1, <2>2, <2>3
<1>6. CASE FinishCompressed
  <2>1. /\ UNCHANGED <<config, printed>>
        /\ DOMAIN bound \subseteq DOMAIN bound'
        /\ \E r : Fresh(r) /\ Sound(r, config, printed, DOMAIN bound')
    BY Zenon, <1>0, <1>6, CompressedReport
  <2>. QED BY Zenon, <1>3, <2>1
<1>7. CASE FinishRaised
  <2>1. answer' = Nothing /\ UNCHANGED <<config, cache, bound, printed>>
    BY Zenon, <1>7, Raised
  <2>. QED BY Zenon, <1>0, <2>1 DEF ReportsOK
<1>. QED BY Zenon, <1>0, <1>1, <1>2, <1>4, <1>5, <1>6, <1>7, Kinds

(* The legends of a sound report name what is bound.                       *)
LEMMA LegendsBound ==
    ASSUME NEW r, NEW names, Sound(r, config, printed, names)
    PROVE  Legends(r.text) \subseteq names
BY Zenon DEF Sound, Legends

(* An answer explains its legends.                                         *)
LEMMA DeliverExplains ==
    ASSUME NEW r, Deliver(r)
    PROVE  explained' = explained \cup Legends(r.text)
BY Zenon, ReadsLegends DEF Deliver

(* Every step keeps LedgerOK.                                              *)
LEMMA NextLedger ==
    ASSUME RunnerInv, SessionInv, [Next]_vars
    PROVE  LedgerOK'
<1>0. SessionOK /\ RunOK /\ ReportsOK /\ LedgerOK /\ PicturesOK
  BY Zenon DEF SessionInv
<1>1. CASE UNCHANGED <<config, bound, explained, rejected>>
  BY Zenon, <1>0, <1>1 DEF LedgerOK, Distinct
<1>2. ASSUME NEW r, Deliver(r), Sound(r, config, printed, DOMAIN bound'),
             UNCHANGED <<config, bound, rejected>>
      PROVE  LedgerOK'
  <2>1. Legends(r.text) \subseteq DOMAIN bound'
    BY Zenon, <1>2, LegendsBound
  <2>2. explained' = explained \cup Legends(r.text)
    BY Zenon, <1>2, DeliverExplains
  <2>3. Distinct(bound')
    BY Zenon, <1>0, <1>2 DEF LedgerOK
  <2>. QED BY <1>0, <1>2, <2>1, <2>2, <2>3 DEF LedgerOK
<1>3. CASE Same
  BY Zenon, <1>1, <1>3 DEF Same
<1>4. ASSUME NEW r, Hit(r), Sound(r, config, printed, DOMAIN bound)
      PROVE  LedgerOK'
  BY Zenon, <1>2, <1>4 DEF Hit
<1>5. CASE FinishSpilled
  <2>1. PICK r : Fresh(r) /\ Sound(r, config, printed, DOMAIN bound)
    BY Zenon, <1>0, <1>5, SpilledReport
  <2>2. UNCHANGED <<config, bound, rejected>>
    BY Zenon, <1>0, <1>5, SpilledReport
  <2>. QED BY Zenon, <1>2, <2>1, <2>2 DEF Fresh
<1>6. CASE FinishUnknown
  <2>1. PICK r : Fresh(r) /\ Sound(r, config, printed, DOMAIN bound)
    BY Zenon, <1>0, <1>6, UnknownReport
  <2>2. UNCHANGED <<config, bound, rejected>>
    BY Zenon, <1>0, <1>6, UnknownReport
  <2>. QED BY Zenon, <1>2, <2>1, <2>2 DEF Fresh
<1>7. CASE FinishCompressed
  <2>1. /\ UNCHANGED config
        /\ bound' \in Seq(Bytes) /\ Distinct(bound') /\ DOMAIN bound \subseteq DOMAIN bound'
    BY Zenon, <1>0, <1>7, CompressedReport
  <2>2. PICK r :
          /\ Deliver(r)
          /\ Sound(r, config, printed, DOMAIN bound')
          /\ rejected' \in {rejected, rejected \cup (DOMAIN bound' \ DOMAIN bound)}
          /\ \/ /\ rejected' = rejected \cup (DOMAIN bound' \ DOMAIN bound)
                /\ config.ledger \in {"none", "path"} => bound' = bound
             \/ DOMAIN bound' \ DOMAIN bound \subseteq Legends(r.text)
    BY Zenon, <1>0, <1>7, CompressedReport DEF Fresh
  <2>3. Legends(r.text) \subseteq DOMAIN bound'
    BY Zenon, <2>2, LegendsBound
  <2>4. explained' = explained \cup Legends(r.text)
    BY Zenon, <2>2, DeliverExplains
  <2>5. /\ explained \subseteq DOMAIN bound
        /\ rejected \subseteq DOMAIN bound
        /\ DOMAIN bound \subseteq explained \cup rejected
        /\ config.ledger \in {"none", "path"} => DOMAIN bound \subseteq explained
    BY Zenon, <1>0 DEF LedgerOK
  <2>6. explained' \subseteq DOMAIN bound' /\ rejected' \subseteq DOMAIN bound'
    BY ONLY <2>1, <2>2, <2>3, <2>4, <2>5
  <2>7. DOMAIN bound' \subseteq explained' \cup rejected'
    BY ONLY <2>1, <2>2, <2>3, <2>4, <2>5
  <2>8. ASSUME config.ledger \in {"none", "path"} PROVE DOMAIN bound' \subseteq explained'
    BY ONLY <2>1, <2>2, <2>3, <2>4, <2>5, <2>8
  <2>. QED BY Zenon, <2>1, <2>6, <2>7, <2>8 DEF LedgerOK
<1>8. CASE FinishRaised
  BY Zenon, <1>1, <1>8, Raised
<1>. QED BY Zenon, <1>0, <1>3, <1>4, <1>5, <1>6, <1>7, <1>8, Kinds

(* What an answer does to the picture of its command, and to no other.     *)
LEMMA PictureOthers ==
    ASSUME NEW r, Deliver(r), DOMAIN picture = Argvs, r.argv \in Argvs
    PROVE  /\ DOMAIN picture' = Argvs
           /\ \A a \in Argvs : a # r.argv => picture'[a] = picture[a]
           /\ picture'[r.argv] = Reads(r).picture
<1>1. PICK new, at : new = Reads(r).picture /\ at = r.argv
  OBVIOUS
<1>2. picture' = [picture EXCEPT ![at] = new]
  BY Zenon, <1>1 DEF Deliver
<1>3. PICK after : after = picture'
  BY Zenon
<1>4. at \in Argvs /\ after = [picture EXCEPT ![at] = new]
  BY Zenon, <1>1, <1>2, <1>3
<1>5. /\ DOMAIN after = Argvs
      /\ \A a \in Argvs : a # at => after[a] = picture[a]
      /\ after[at] = new
  BY <1>4
<1>. QED BY Zenon, <1>1, <1>3, <1>5

(* Where answers can be read, a picture becomes what the answer shows.     *)
LEMMA PictureAfter ==
    ASSUME SessionOK, PicturesOK, LedgerOK', NEW r, Deliver(r), UNCHANGED config,
           Sound(r, config, printed, DOMAIN bound'), Clear(config)
    PROVE  /\ r.schema = "delta" =>
                /\ picture'[r.argv].lines =
                     (picture[r.argv].lines \ LinesOf(r.text, "-")) \cup LinesOf(r.text, "+")
                /\ picture'[r.argv].whole = (picture[r.argv].whole /\ ~r.cut)
           /\ r.schema # "delta" =>
                /\ picture'[r.argv].lines = LinesOf(r.text, "")
                /\ picture'[r.argv].whole = (r.schema \notin {"pointer", "lost"})
<1>1. explained' = explained \cup Legends(r.text)
  BY Zenon, DeliverExplains
<1>2. config.ledger \in {"none", "path"}
  BY Zenon DEF Clear
<1>3. DOMAIN bound' \subseteq explained'
  BY Zenon, <1>2 DEF LedgerOK
<1>4. \A c \in Range(r.text) : c.form = "alias" => c.form \in {"legend", "alias"}
  OBVIOUS
<1>5. \A c \in Range(r.text) : c.form = "alias" => c.alias \in explained \cup Legends(r.text)
  BY Zenon, <1>1, <1>3, <1>4 DEF Sound
<1>6. r.argv \in Argvs /\ DOMAIN picture = Argvs
  BY Zenon, ConfigOK DEF Sound, SessionOK, PicturesOK
<1>7. picture'[r.argv] = Reads(r).picture
  BY Zenon, <1>6, PictureOthers
<1>. QED BY Zenon, <1>5, <1>7, ReadsAll

(* An answer that leaves the lines the compressor kept is understood.      *)
LEMMA Understands ==
    ASSUME NEW r, answer' = r, UNCHANGED config,
           Clear(config) /\ r.schema \in {"full", "delta"} /\ picture'[r.argv].whole =>
             picture'[r.argv].lines = Range(Compress(r.raw, r.level))
    PROVE  AnswerUnderstood'
BY Zenon DEF AnswerUnderstood, Clear

(* Every step keeps PicturesOK.                                            *)
LEMMA NextPictures ==
    ASSUME RunnerInv, SessionInv, [Next]_vars
    PROVE  PicturesOK'
<1>0. /\ SessionOK /\ RunOK /\ ReportsOK /\ LedgerOK /\ PicturesOK
      /\ LedgerOK'
  BY Zenon, NextLedger DEF SessionInv
<1>1. CASE UNCHANGED <<config, baseline, picture>> /\ (answer' = Nothing \/ answer' = answer)
  <2>1. AnswerUnderstood'
    BY Zenon, <1>0, <1>1 DEF PicturesOK, AnswerUnderstood
  <2>. QED BY Zenon, <1>0, <1>1, <2>1 DEF PicturesOK
<1>2. ASSUME NEW r, Deliver(r), Sound(r, config, printed, DOMAIN bound'),
             UNCHANGED <<config, baseline>>,
             Clear(config) /\ r.schema \in {"full", "delta"} /\ picture'[r.argv].whole =>
               picture'[r.argv].lines = Range(Compress(r.raw, r.level)),
             Clear(config) /\ picture'[r.argv].whole => baseline[r.argv] = Nothing
      PROVE  PicturesOK'
  <2>1. answer' = r
    BY Zenon, <1>2 DEF Deliver
  <2>2. AnswerUnderstood'
    BY Zenon, <1>2, <2>1, Understands
  <2>3. r.argv \in Argvs /\ DOMAIN picture = Argvs
    BY Zenon, <1>0, <1>2, ConfigOK DEF Sound, SessionOK, PicturesOK
  <2>4. /\ DOMAIN picture' = Argvs
        /\ \A a \in Argvs : a # r.argv => picture'[a] = picture[a]
    BY Zenon, <1>2, <2>3, PictureOthers
  <2>5. ASSUME NEW a \in Argvs
        PROVE  Clear(config) /\ baseline[a] # Nothing /\ picture'[a].whole =>
                 picture'[a].lines = Range(baseline[a])
    <3>1. CASE a = r.argv
      BY Zenon, <1>2, <3>1
    <3>2. CASE a # r.argv
      BY Zenon, <1>0, <2>4, <3>2 DEF PicturesOK
    <3>. QED BY Zenon, <3>1, <3>2
  <2>. QED BY Zenon, <1>0, <1>2, <2>2, <2>4, <2>5 DEF PicturesOK
<1>3. CASE Same
  BY Zenon, <1>1, <1>3 DEF Same
<1>4. ASSUME NEW r, Hit(r), Sound(r, config, printed, DOMAIN bound)
      PROVE  PicturesOK'
  <2>1. Deliver(r) /\ UNCHANGED <<config, baseline>> /\ config.cache
    BY Zenon, <1>4 DEF Hit
  <2>2. Sound(r, config, printed, DOMAIN bound')
    BY Zenon, <1>4 DEF Hit
  <2>3. r.argv \in Argvs
    BY Zenon, <1>0, <1>4, ConfigOK DEF Sound, SessionOK
  <2>4. ASSUME Clear(config)
        PROVE  ~config.delta
    BY Zenon, <2>1, <2>4 DEF Clear
  <2>5. Clear(config) => baseline[r.argv] = Nothing
    BY Zenon, <1>0, <2>3, <2>4 DEF PicturesOK
  <2>6. ASSUME Clear(config), r.schema \in {"full", "delta"}
        PROVE  picture'[r.argv].lines = Range(Compress(r.raw, r.level))
    <3>1. r.schema # "delta"
      BY Zenon, <2>4, <2>6, <1>4 DEF Sound
    <3>2. picture'[r.argv].lines = LinesOf(r.text, "")
      BY Zenon, <1>0, <2>1, <2>2, <2>6, <3>1, PictureAfter
    <3>3. r.schema = "full"
      BY <2>6, <3>1
    <3>. QED BY Zenon, <1>4, <3>2, <3>3 DEF Sound
  <2>. QED BY Zenon, <1>2, <2>1, <2>2, <2>5, <2>6
<1>5. CASE FinishSpilled
  <2>1. PICK r : /\ Fresh(r) /\ Sound(r, config, printed, DOMAIN bound)
                 /\ r.schema \in {"pointer", "lost"}
    BY Zenon, <1>0, <1>5, SpilledReport
  <2>2. UNCHANGED <<config, bound, baseline>>
    BY Zenon, <1>0, <1>5, SpilledReport
  <2>3. Deliver(r) /\ Sound(r, config, printed, DOMAIN bound')
    BY Zenon, <2>1, <2>2 DEF Fresh
  <2>4. r.schema # "delta" /\ r.schema \notin {"full", "delta"}
    BY ONLY <2>1
  <2>5. Clear(config) => ~picture'[r.argv].whole
    BY Zenon, <1>0, <2>1, <2>2, <2>3, <2>4, PictureAfter
  <2>. QED BY Zenon, <1>2, <2>2, <2>3, <2>4, <2>5
<1>6. CASE FinishUnknown
  <2>1. PICK r : /\ Fresh(r) /\ Sound(r, config, printed, DOMAIN bound)
                 /\ r.schema = "passthrough"
    BY Zenon, <1>0, <1>6, UnknownReport
  <2>2. UNCHANGED <<config, bound, baseline>> /\ call.argv \notin Known
    BY Zenon, <1>0, <1>6, UnknownReport
  <2>3. Deliver(r) /\ Sound(r, config, printed, DOMAIN bound') /\ r.argv = call.argv
    BY Zenon, <2>1, <2>2 DEF Fresh
  <2>4. r.schema \notin {"full", "delta"}
    BY ONLY <2>1
  <2>5. r.argv \in Argvs
    BY <1>0, <2>1, ConfigOK DEF Sound, SessionOK
  <2>6. baseline[r.argv] = Nothing
    BY Zenon, <1>0, <2>2, <2>3, <2>5 DEF PicturesOK
  <2>. QED BY Zenon, <1>2, <2>2, <2>3, <2>4, <2>6
<1>7. CASE FinishCompressed
  <2>1. UNCHANGED config /\ call.argv \in Known
    BY Zenon, <1>0, <1>7, CompressedReport
  <2>2. PICK r :
          /\ Fresh(r)
          /\ Sound(r, config, printed, DOMAIN bound')
          /\ baseline' = IF config.delta
                           THEN [baseline EXCEPT ![call.argv] = Compress(r.raw, r.level)]
                           ELSE baseline
          /\ \/ r.schema = "full"
             \/ /\ r.schema = "delta"
                /\ baseline[call.argv] # Nothing
                /\ ~r.cut =>
                     /\ LinesOf(r.text, "+") = Range(Compress(r.raw, r.level))
                                                 \ Range(baseline[call.argv])
                     /\ LinesOf(r.text, "-") = Range(baseline[call.argv])
                                                 \ Range(Compress(r.raw, r.level))
    BY Zenon, <1>0, <1>7, CompressedReport
  <2>3. PICK a, kept, prior : /\ a = call.argv /\ kept = Compress(r.raw, r.level)
                              /\ prior = baseline[a]
    OBVIOUS
  <2>4. Deliver(r) /\ r.argv = a
    BY Zenon, <2>2, <2>3 DEF Fresh
  <2>5. /\ a \in Argvs /\ a \in Known
        /\ kept \in Seq(Bytes)
        /\ r.schema = "delta" => config.delta
        /\ r.schema = "full" => LinesOf(r.text, "") = Range(kept)
        /\ DOMAIN baseline = Argvs
        /\ DOMAIN picture = Argvs
    <3>1. r.argv \in config.argvs /\ r.raw \in Seq(Bytes) /\ r.level \in DOMAIN Levels
      BY Zenon, <2>2 DEF Sound
    <3>2. kept \in Seq(Bytes)
      BY Zenon, <2>3, <3>1, CompressedLines
    <3>3. config.argvs \subseteq Argvs
      BY Zenon, <1>0, ConfigOK DEF SessionOK
    <3>. QED BY Zenon, <1>0, <2>1, <2>2, <2>3, <2>4, <3>1, <3>2, <3>3 DEF Sound, PicturesOK
  <2>6. ASSUME Clear(config), picture'[a].whole
        PROVE  picture'[a].lines = Range(kept)
    <3>1. CASE r.schema = "full"
      <4>1. r.schema # "delta"
        BY ONLY <3>1
      <4>. QED BY Zenon, <1>0, <2>1, <2>2, <2>4, <2>5, <2>6, <3>1, <4>1, PictureAfter
    <3>2. CASE r.schema = "delta"
      <4>1. /\ picture'[a].lines =
                 (picture[a].lines \ LinesOf(r.text, "-")) \cup LinesOf(r.text, "+")
            /\ picture'[a].whole = (picture[a].whole /\ ~r.cut)
        BY Zenon, <1>0, <2>1, <2>2, <2>4, <2>6, <3>2, PictureAfter
      <4>2. picture[a].whole /\ ~r.cut
        BY Zenon, <2>6, <4>1
      <4>3. baseline[call.argv] # Nothing
            /\ (~r.cut => /\ LinesOf(r.text, "+") = Range(Compress(r.raw, r.level))
                                                      \ Range(baseline[call.argv])
                          /\ LinesOf(r.text, "-") = Range(baseline[call.argv])
                                                      \ Range(Compress(r.raw, r.level)))
        <5>1. r.schema # "full"
          BY ONLY <3>2
        <5>. QED BY Zenon, <2>2, <5>1
      <4>4. prior # Nothing /\ LinesOf(r.text, "+") = Range(kept) \ Range(prior)
              /\ LinesOf(r.text, "-") = Range(prior) \ Range(kept)
        BY Zenon, <2>3, <4>2, <4>3
      <4>5. picture[a].lines = Range(prior)
        BY Zenon, <1>0, <2>3, <2>5, <2>6, <4>2, <4>4 DEF PicturesOK
      <4>. QED BY ONLY <4>1, <4>4, <4>5
    <3>. QED BY Zenon, <2>2, <3>1, <3>2
  <2>7. AnswerUnderstood'
    <3>1. answer' = r
      BY Zenon, <2>4 DEF Deliver
    <3>2. Clear(config) /\ r.schema \in {"full", "delta"} /\ picture'[r.argv].whole =>
            picture'[r.argv].lines = Range(Compress(r.raw, r.level))
      BY Zenon, <2>3, <2>4, <2>6
    <3>. QED BY Zenon, <2>1, <3>1, <3>2, Understands
  <2>8. /\ DOMAIN picture' = Argvs
        /\ \A b \in Argvs : b # a => picture'[b] = picture[b]
    BY Zenon, <2>4, <2>5, PictureOthers
  <2>9. CASE ~config.delta
    <3>1. baseline' = baseline
      BY Zenon, <2>2, <2>9
    <3>2. \A b \in Argvs : baseline[b] = Nothing
      BY Zenon, <1>0, <2>9 DEF PicturesOK
    <3>. QED BY Zenon, <1>0, <2>1, <2>7, <2>8, <3>1, <3>2 DEF PicturesOK
  <2>10. CASE config.delta
    <3>1. PICK after : after = baseline'
      BY Zenon
    <3>2. after = [baseline EXCEPT ![a] = kept]
      BY Zenon, <2>2, <2>3, <2>10, <3>1
    <3>3. /\ DOMAIN after = Argvs /\ after[a] = kept
          /\ \A b \in Argvs : b # a => after[b] = baseline[b]
      BY ONLY Zenon, <2>5, <3>2
    <3>4. ASSUME NEW b \in Argvs
          PROVE  /\ after[b] = Nothing \/ after[b] \in Seq(Bytes)
                 /\ b \notin Known \/ ~config.delta => after[b] = Nothing
                 /\ Clear(config) /\ after[b] # Nothing /\ picture'[b].whole =>
                      picture'[b].lines = Range(after[b])
      <4>1. CASE b = a
        BY Zenon, <2>5, <2>6, <2>10, <3>3, <4>1
      <4>2. CASE b # a
        BY Zenon, <1>0, <2>8, <3>3, <4>2 DEF PicturesOK
      <4>. QED BY Zenon, <4>1, <4>2
    <3>. QED BY Zenon, <2>1, <2>7, <2>8, <3>1, <3>3, <3>4 DEF PicturesOK
  <2>. QED BY Zenon, <2>9, <2>10
<1>8. CASE FinishRaised
  BY Zenon, <1>1, <1>8, Raised
<1>. QED BY Zenon, <1>0, <1>3, <1>4, <1>5, <1>6, <1>7, <1>8, Kinds

----------------------------------------------------------------------------
(* The theorems                                                            *)

(* The invariant holds at first.                                           *)
LEMMA InitInv ==
    ASSUME Init PROVE RunnerInv /\ SessionInv
<1>1. RunnerInv /\ main = "idle"
  BY Zenon, QuietInv DEF Init, Quiet
<1>2. config \in Deployments /\ config.calls \in Nat /\ config.changes \in Nat
  BY ConfigOK DEF Init
<1>3. SessionOK
  BY <1>1, <1>2 DEF Init, SessionOK
<1>4. RunOK
  BY DEF Init, RunOK
<1>5. ReportsOK
  BY DEF Init, ReportsOK
<1>6. LedgerOK
  <2>1. bound = <<>> /\ explained = {} /\ rejected = {}
    BY DEF Init
  <2>2. bound \in Seq(Bytes) /\ DOMAIN bound = {}
    BY <2>1
  <2>. QED BY <2>1, <2>2 DEF LedgerOK, Distinct
<1>7. PicturesOK
  <2>1. /\ baseline = [a \in Argvs |-> Nothing]
        /\ picture = [a \in Argvs |-> [lines |-> {}, whole |-> TRUE]]
        /\ answer = Nothing
    BY Zenon DEF Init
  <2>2. DOMAIN baseline = Argvs /\ DOMAIN picture = Argvs /\ \A a \in Argvs : baseline[a] = Nothing
    BY <2>1
  <2>3. AnswerUnderstood
    BY Zenon, <2>1 DEF AnswerUnderstood
  <2>. QED BY Zenon, <2>2, <2>3 DEF PicturesOK
<1>. QED BY Zenon, <1>1, <1>3, <1>4, <1>5, <1>6, <1>7 DEF SessionInv

(* Every step keeps it.                                                    *)
LEMMA NextInv ==
    ASSUME RunnerInv, SessionInv, [Next]_vars
    PROVE  RunnerInv' /\ SessionInv'
<1>1. SessionOK /\ RunOK
  BY Zenon DEF SessionInv
<1>. QED
  BY Zenon, <1>1, NextRunner, NextSession, NextRun, NextReports, NextLedger, NextPictures
     DEF SessionInv

(* The invariant is one.                                                   *)
LEMMA Invariant == Spec => [](RunnerInv /\ SessionInv)
<1>1. Init => RunnerInv /\ SessionInv
  BY InitInv
<1>2. (RunnerInv /\ SessionInv) /\ [Next]_vars => (RunnerInv /\ SessionInv)'
  BY NextInv
<1>. QED BY <1>1, <1>2, PTL DEF Spec

(* What the runner promises follows from it.                               *)
LEMMA SoundRunner ==
    ASSUME RunnerInv PROVE RunnerTypeOK /\ ResultFaithful /\ FlagsHonest /\ NothingLeftRunning
BY RunnerPromises DEF RunnerInv

(* So does TypeOK.                                                         *)
LEMMA TypesKept ==
    ASSUME RunnerInv, SessionInv PROVE TypeOK
<1>1. /\ RunnerTypeOK /\ SessionOK /\ ReportsOK /\ LedgerOK /\ PicturesOK
      /\ DOMAIN LineTokens = Bytes
  BY SoundRunner, CommandConstants DEF SessionInv
<1>2. \A k \in DOMAIN cache : cache[k].key = k /\ ~cache[k].hit
  BY <1>1 DEF ReportsOK
<1>3. /\ \A a \in Argvs : baseline[a] = Nothing \/ baseline[a] \in Seq(DOMAIN LineTokens)
      /\ bound \in Seq(DOMAIN LineTokens)
      /\ explained \subseteq DOMAIN bound
      /\ rejected \subseteq DOMAIN bound
  BY Zenon, <1>1 DEF PicturesOK, LedgerOK
<1>. QED BY Zenon, <1>1, <1>2, <1>3 DEF TypeOK, SessionOK

(* And so do the promises of compress_command.                             *)
LEMMA AnswersKept ==
    ASSUME SessionInv
    PROVE  /\ AnswerUnderstood
           /\ UnresolvedWereRejected
           /\ NeverLonger
           /\ FloorKept
           /\ CheckoutSeen
<1>1. SessionOK /\ ReportsOK /\ LedgerOK /\ PicturesOK
  BY Zenon DEF SessionInv
<1>2. AnswerUnderstood
  BY Zenon, <1>1 DEF PicturesOK
<1>3. CASE answer = Nothing
  BY Zenon, <1>2, <1>3 DEF UnresolvedWereRejected, NeverLonger, FloorKept, CheckoutSeen
<1>4. CASE answer # Nothing
  <2>1. /\ Sound(answer, config, printed, DOMAIN bound)
        /\ answer.asked = answer.looked
    BY Zenon, <1>1, <1>4 DEF ReportsOK
  <2>2. UnresolvedWereRejected
    <3>1. \A c \in Range(answer.text) : c.form = "alias" => c.form \in {"legend", "alias"}
      OBVIOUS
    <3>2. DOMAIN bound \subseteq explained \cup rejected
      BY Zenon, <1>1 DEF LedgerOK
    <3>. QED BY Zenon, <2>1, <3>1, <3>2 DEF Sound, UnresolvedWereRejected
  <2>3. NeverLonger
    BY Zenon, <2>1 DEF Sound, NeverLonger
  <2>4. FloorKept
    <3> SUFFICES ASSUME answer # Nothing,
                        Levels[answer.level] < Levels[answer.hint.floor]
                 PROVE  \/ answer.hit /\ Levels[answer.floor] < Levels[answer.hint.floor]
                        \/ answer.schema \in {"pointer", "lost"}
                        \/ answer.argv \in Diffs /\ answer.silent
      BY Zenon DEF FloorKept
    <3>1. Floored(answer) /\ answer.level \in DOMAIN Levels
      BY Zenon, <2>1 DEF Sound
    <3>2. PICK low, made, asked : /\ low = Levels[answer.level]
                                 /\ made = Levels[answer.floor]
                                 /\ asked = Levels[answer.hint.floor]
      OBVIOUS
    <3>3. \A l \in DOMAIN Levels : Levels[l] \in Nat
      BY DEF Levels
    <3>4. low \in Nat /\ made \in Nat /\ asked \in Nat /\ low < asked
      BY Zenon, <3>1, <3>2, <3>3 DEF Floored
    <3>5. low < made \/ made < asked
      BY ONLY <3>4
    <3>6. CASE low < made
      BY Zenon, <3>1, <3>2, <3>6 DEF Floored
    <3>7. CASE made < asked /\ ~(low < made)
      <4>1. CASE answer.hit = TRUE
        BY Zenon, <3>2, <3>7, <4>1
      <4>2. CASE answer.floor = answer.hint.floor
        <5>1. made = asked
          BY Zenon, <3>2, <4>2
        <5>. QED BY ONLY <3>4, <3>7, <5>1
      <4>. QED BY Zenon, <3>1, <4>1, <4>2 DEF Floored
    <3>. QED BY Zenon, <3>5, <3>6, <3>7
  <2>5. CheckoutSeen
    <3> SUFFICES ASSUME config.faulty = {}, answer.looked = answer.ran
                 PROVE  \E p \in printed :
                          <<answer.argv, answer.asked, answer.raw>> = <<p[1], p[2], Kept(p[3])>>
      BY Zenon DEF CheckoutSeen
    <3>1. Witnessed(printed, answer.argv, answer.looked, answer.raw)
      BY Zenon, <2>1 DEF Sound
    <3>. QED BY Zenon, <2>1, <3>1 DEF Witnessed
  <2>. QED BY Zenon, <1>2, <2>2, <2>3, <2>4, <2>5
<1>. QED BY <1>3, <1>4

(* TypeOK, for every deployment and every command.                         *)
THEOREM CommandsTyped == Spec => []TypeOK
BY Invariant, TypesKept, PTL

(* ResultFaithful within compress_command, call after call: what it goes   *)
(* on with is what the subprocess wrote, or a prefix as long as the cap.   *)
THEOREM ResultsFaithful == Spec => []ResultFaithful
BY Invariant, SoundRunner, PTL

(* FlagsHonest: a result that is not marked as cut lacks nothing.          *)
THEOREM ResultsFlagged == Spec => []FlagsHonest
BY Invariant, SoundRunner, PTL

(* NothingLeftRunning: run_command leaves no subprocess behind that a      *)
(* signal ends and that keeps its streams.                                 *)
THEOREM ProcessesReaped == Spec => []NothingLeftRunning
BY Invariant, SoundRunner, PTL

(* AnswerUnderstood: the lines an agent holds after an answer, by way of   *)
(* deltas and of aliases, are those the compressor kept.                   *)
THEOREM AnswersUnderstood == Spec => []AnswerUnderstood
BY Invariant, AnswersKept, PTL

(* UnresolvedWereRejected: no alias is unknown to the agent, unless the    *)
(* min-gate threw away the rewrite with its legend.                        *)
THEOREM AliasesExplained == Spec => []UnresolvedWereRejected
BY Invariant, AnswersKept, PTL

(* NeverLonger: no delta and no gated ledger makes an answer longer.       *)
THEOREM NeverRegresses == Spec => []NeverLonger
BY Invariant, AnswersKept, PTL

(* FloorKept: only the replay of a report made for a lower floor, a log,   *)
(* and a diff that printed nothing are below the floor that was asked.     *)
THEOREM FloorsKept == Spec => []FloorKept
BY Invariant, AnswersKept, PTL

(* CheckoutSeen: what is answered was printed under the HEAD it is asked   *)
(* for, unless HEAD moved between the lookup and the run.                  *)
THEOREM CheckoutsSeen == Spec => []CheckoutSeen
BY Invariant, AnswersKept, PTL

============================================================================
