---------------------------- MODULE PackerProofs ----------------------------
(***************************************************************************)
(* The budget packer, proved for every number of files, every content and  *)
(* every budget: all four packers keep the budget, report every file once, *)
(* deliver in ranking order and skip with reason.                          *)
(*                                                                         *)
(* The inductive invariant has four parts. Accounts says where every       *)
(* ranked file is at every moment (included, skipped, assigned, waiting or *)
(* still to come, and in one of these places only), what the entries cost, *)
(* and why a file was skipped. Credits says that a degradable file has the *)
(* tier of the snapshot until it is degraded, so that what degrading it    *)
(* frees is credited once. Conserved says that the tiers assigned and what *)
(* remains make up the budget. AllWhole says that the adaptive packer of a *)
(* repository that fits has delivered, whole, all that it has seen.        *)
(***************************************************************************)
EXTENDS Packer, SequenceTheorems, SumTheorems

----------------------------------------------------------------------------
(* Sequences                                                               *)

(* No element stands twice.                                                *)
Distinct(s) == \A j, k \in DOMAIN s : s[j] = s[k] => j = k

(* What stands at n or after, and what stands before n.                    *)
From(s, n) == {s[k] : k \in n..Len(s)}
Before(s, n) == {s[k] : k \in 1..(n - 1)}

(* What an Append adds.                                                    *)
LEMMA Added ==
    ASSUME NEW S, NEW s \in Seq(S), NEW x \in S
    PROVE  /\ Append(s, x) \in Seq(S)
           /\ Range(Append(s, x)) = Range(s) \cup {x}
           /\ Len(Append(s, x)) = Len(s) + 1
           /\ Distinct(s) /\ x \notin Range(s) => Distinct(Append(s, x))
<1>1. /\ Append(s, x) \in Seq(S) /\ Len(Append(s, x)) = Len(s) + 1
      /\ DOMAIN Append(s, x) = 1..(Len(s) + 1)
      /\ \A k \in 1..Len(s) : Append(s, x)[k] = s[k]
      /\ Append(s, x)[Len(s) + 1] = x
      /\ DOMAIN s = 1..Len(s) /\ Len(s) \in Nat
  BY AppendProperties
<1>2. Range(Append(s, x)) = Range(s) \cup {x}
  <2>1. Range(Append(s, x)) \subseteq Range(s) \cup {x}
    BY <1>1 DEF Range
  <2>2. Range(s) \subseteq Range(Append(s, x))
    BY <1>1 DEF Range
  <2>3. x \in Range(Append(s, x))
    BY <1>1 DEF Range
  <2>. QED BY <2>1, <2>2, <2>3
<1>3. Distinct(s) /\ x \notin Range(s) => Distinct(Append(s, x))
  BY <1>1 DEF Distinct, Range
<1>. QED BY <1>1, <1>2, <1>3

(* A loop over a sequence moves one element from what is to come to what   *)
(* was.                                                                    *)
LEMMA Passed ==
    ASSUME NEW S, NEW s \in Seq(S), NEW n \in 1..Len(s)
    PROVE  /\ s[n] \in S /\ s[n] \in Range(s)
           /\ From(s, n) = From(s, n + 1) \cup {s[n]}
           /\ Before(s, n + 1) = Before(s, n) \cup {s[n]}
           /\ Distinct(s) => s[n] \notin From(s, n + 1) /\ s[n] \notin Before(s, n)
<1>1. Len(s) \in Nat /\ DOMAIN s = 1..Len(s) /\ n \in Nat
  OBVIOUS
<1>2. n..Len(s) = ((n + 1)..Len(s)) \cup {n}
  BY <1>1
<1>3. 1..((n + 1) - 1) = (1..(n - 1)) \cup {n}
  BY <1>1
<1>4. n \notin (n + 1)..Len(s) /\ n \notin 1..(n - 1)
  BY <1>1
<1>5. (n + 1)..Len(s) \subseteq DOMAIN s /\ 1..(n - 1) \subseteq DOMAIN s /\ n \in DOMAIN s
  BY <1>1
<1>. QED BY <1>2, <1>3, <1>4, <1>5 DEF From, Before, Range, Distinct

(* A loop over a sequence begins and ends.                                 *)
LEMMA PassEnds ==
    ASSUME NEW S, NEW s \in Seq(S)
    PROVE  /\ From(s, 1) = Range(s) /\ Before(s, 1) = {}
           /\ \A n \in Nat : n > Len(s) => From(s, n) = {}
           /\ Before(s, Len(s) + 1) = Range(s)
           /\ Range(s) \subseteq S
<1>1. /\ Len(s) \in Nat /\ DOMAIN s = 1..Len(s)
      /\ 1..(1 - 1) = {} /\ 1..((Len(s) + 1) - 1) = 1..Len(s)
  OBVIOUS
<1>2. \A n \in Nat : n > Len(s) => n..Len(s) = {}
  BY <1>1
<1>. QED BY <1>1, <1>2 DEF From, Before, Range

(* Two sequences one after the other.                                      *)
LEMMA Joined ==
    ASSUME NEW S, NEW s \in Seq(S), NEW t \in Seq(S)
    PROVE  /\ s \o t \in Seq(S)
           /\ Range(s \o t) = Range(s) \cup Range(t)
           /\ Len(s \o t) = Len(s) + Len(t)
           /\ Distinct(s) /\ Distinct(t) /\ Range(s) \cap Range(t) = {} => Distinct(s \o t)
<1>1. /\ Len(s) \in Nat /\ Len(t) \in Nat
      /\ DOMAIN s = 1..Len(s) /\ DOMAIN t = 1..Len(t)
      /\ s \o t \in Seq(S)
      /\ Len(s \o t) = Len(s) + Len(t)
      /\ DOMAIN (s \o t) = 1..(Len(s) + Len(t))
      /\ \A k \in 1..(Len(s) + Len(t)) :
           (s \o t)[k] = IF k <= Len(s) THEN s[k] ELSE t[k - Len(s)]
  BY ConcatProperties
<1> DEFINE both == s \o t
<1>2. /\ DOMAIN both = 1..(Len(s) + Len(t))
      /\ \A k \in 1..Len(s) : k \in DOMAIN both /\ both[k] = s[k]
      /\ \A k \in 1..Len(t) : k + Len(s) \in DOMAIN both /\ both[k + Len(s)] = t[k]
      /\ \A k \in DOMAIN both : \/ k \in 1..Len(s)
                                \/ k - Len(s) \in 1..Len(t) /\ both[k] = t[k - Len(s)]
  BY <1>1
<1> HIDE DEF both
<1>3. Range(both) = Range(s) \cup Range(t)
  <2>1. Range(both) \subseteq Range(s) \cup Range(t)
    BY <1>1, <1>2 DEF Range
  <2>2. Range(s) \subseteq Range(both)
    BY <1>1, <1>2 DEF Range
  <2>3. Range(t) \subseteq Range(both)
    BY SMTT(30), <1>1, <1>2 DEF Range
  <2>. QED BY <2>1, <2>2, <2>3
<1>4. ASSUME Distinct(s), Distinct(t), Range(s) \cap Range(t) = {},
             NEW j \in DOMAIN both, NEW k \in DOMAIN both, both[j] = both[k]
      PROVE  j = k
  <2>1. CASE j \in 1..Len(s) /\ k \in 1..Len(s)
    BY <1>1, <1>2, <1>4, <2>1 DEF Distinct
  <2>2. CASE j \in 1..Len(s) /\ k \notin 1..Len(s)
    <3>1. both[j] \in Range(s)
      BY <1>1, <1>2, <2>2 DEF Range
    <3>2. both[k] \in Range(t)
      BY <1>1, <1>2, <2>2 DEF Range
    <3>. QED BY <1>4, <3>1, <3>2
  <2>3. CASE j \notin 1..Len(s) /\ k \in 1..Len(s)
    <3>1. both[k] \in Range(s)
      BY <1>1, <1>2, <2>3 DEF Range
    <3>2. both[j] \in Range(t)
      BY <1>1, <1>2, <2>3 DEF Range
    <3>. QED BY <1>4, <3>1, <3>2
  <2>4. CASE j \notin 1..Len(s) /\ k \notin 1..Len(s)
    <3>1. /\ j - Len(s) \in DOMAIN t /\ k - Len(s) \in DOMAIN t
          /\ t[j - Len(s)] = t[k - Len(s)]
      BY <1>1, <1>2, <1>4, <2>4
    <3>2. j - Len(s) = k - Len(s)
      BY <1>4, <3>1 DEF Distinct
    <3>. QED BY <1>1, <1>2, <3>2
  <2>. QED BY <2>1, <2>2, <2>3, <2>4
<1>5. Distinct(s) /\ Distinct(t) /\ Range(s) \cap Range(t) = {} => Distinct(both)
  BY <1>4 DEF Distinct
<1>. QED BY <1>1, <1>3, <1>5 DEF both

(* A sequence without repetition is as long as its range is large.         *)
LEMMA DistinctSize ==
    ASSUME NEW s \in Seq(Files), Distinct(s)
    PROVE  /\ IsFiniteSet(Range(s))
           /\ Cardinality(Range(s)) = Len(s)
           /\ Len(s) <= N
<1>1. IsFiniteSet(1..Len(s)) /\ Cardinality(1..Len(s)) = Len(s) /\ Len(s) \in Nat
  <2>1. Len(s) \in Nat
    OBVIOUS
  <2> DEFINE n == Len(s)
  <2> HIDE DEF n
  <2>2. n \in Nat
    BY <2>1 DEF n
  <2>3. IsFiniteSet(1..n) /\ Cardinality(1..n) = IF 1 > n THEN 0 ELSE n - 1 + 1
    BY <2>2, FS_Interval
  <2>4. Cardinality(1..n) = n
    BY <2>2, <2>3
  <2>. QED BY <2>2, <2>3, <2>4 DEF n
<1>2. s \in Injection(1..Len(s), Range(s)) /\ s \in Surjection(1..Len(s), Range(s))
  BY DEF Range, Injection, IsInjective, Surjection, Distinct
<1>3. IsFiniteSet(Range(s)) /\ Cardinality(Range(s)) = Len(s)
  BY <1>1, <1>2, FS_Surjection
<1>4. Range(s) \in SUBSET Files
  BY DEF Range
<1>5. IsFiniteSet(Files) /\ Cardinality(Files) = N
  BY PackerConstants, FS_Interval DEF Files
<1>. QED BY <1>3, <1>4, <1>5, FS_Subset

----------------------------------------------------------------------------
(* Entries                                                                 *)

(* What an entry is: its file, whether it is the whole file, its tokens,   *)
(* and the import lines it kept and lost.                                  *)
EntryType ==
    [file : Files, whole : BOOLEAN, tokens : Nat,
     kept : SUBSET Imports, stripped : SUBSET Imports]

(* The files of entries, and that no file has two.                         *)
Names(es) == {es[k].file : k \in DOMAIN es}
OneEach(es) == \A j, k \in DOMAIN es : es[j].file = es[k].file => j = k

(* What is needed of the type of entries.                                  *)
LEMMA EntryFields ==
    ASSUME NEW es \in Seq(EntryType)
    PROVE  /\ DOMAIN es = 1..Len(es) /\ Len(es) \in Nat
           /\ \A k \in DOMAIN es : /\ es[k] \in EntryType
                                   /\ es[k].file \in Files
                                   /\ es[k].tokens \in Nat
<1>1. DOMAIN es = 1..Len(es) /\ Len(es) \in Nat /\ \A k \in DOMAIN es : es[k] \in EntryType
  OBVIOUS
<1>2. \A e \in EntryType : e.file \in Files /\ e.tokens \in Nat
  BY DEF EntryType
<1>. QED BY <1>1, <1>2

(* Without entries nothing is spent.                                       *)
LEMMA NoEntries == SumTokens(<<>>) = 0 /\ Names(<<>>) = {} /\ OneEach(<<>>)
<1>1. DOMAIN <<>> = {}
  OBVIOUS
<1>2. DOMAIN [k \in DOMAIN <<>> |-> <<>>[k].tokens] = {}
  BY <1>1
<1>. QED BY <1>1, <1>2, SumEmpty DEF SumTokens, SumFunction, Names, OneEach

(* Entries cost a number of tokens.                                        *)
LEMMA EntriesCost ==
    ASSUME NEW es \in Seq(EntryType)
    PROVE  SumTokens(es) \in Nat
<1> DEFINE f == [k \in DOMAIN es |-> es[k].tokens]
<1>1. IsFiniteSet(DOMAIN es)
  BY EntryFields, FS_Interval
<1>2. \A k \in DOMAIN es : f[k] \in Nat
  BY EntryFields
<1> HIDE DEF f
<1>3. SumFunctionOnSet(f, DOMAIN es) \in Nat
  BY <1>1, <1>2, SumNat
<1>. QED BY <1>3 DEF SumTokens, SumFunction, f

(* An entry that is delivered.                                             *)
LEMMA EntryAdded ==
    ASSUME NEW es \in Seq(EntryType), NEW e \in EntryType
    PROVE  /\ Append(es, e) \in Seq(EntryType)
           /\ Names(Append(es, e)) = Names(es) \cup {e.file}
           /\ OneEach(es) /\ e.file \notin Names(es) => OneEach(Append(es, e))
           /\ SumTokens(es) \in Nat
           /\ SumTokens(Append(es, e)) = SumTokens(es) + e.tokens
           /\ \A k \in DOMAIN Append(es, e) : Append(es, e)[k] \in Range(es) \cup {e}
<1> DEFINE more == Append(es, e)
           n == Len(es)
<1>1. /\ more \in Seq(EntryType) /\ n \in Nat
      /\ DOMAIN es = 1..n /\ DOMAIN more = 1..(n + 1)
      /\ \A k \in 1..n : more[k] = es[k]
      /\ more[n + 1] = e
  BY AppendProperties
<1>2. \A k \in DOMAIN more : more[k].tokens \in Nat
  BY <1>1, EntryFields
<1> HIDE DEF more, n
<1>3. 1..(n + 1) = (1..n) \cup {n + 1} /\ n + 1 \notin 1..n
  BY <1>1
<1>4. Names(more) = Names(es) \cup {e.file}
  BY <1>1, <1>3 DEF Names
<1>5. OneEach(es) /\ e.file \notin Names(es) => OneEach(more)
  <2> SUFFICES ASSUME OneEach(es), e.file \notin Names(es),
                      NEW j \in DOMAIN more, NEW k \in DOMAIN more, more[j].file = more[k].file
               PROVE  j = k
    BY DEF OneEach
  <2>1. \A i0 \in 1..n : more[i0].file \in Names(es)
    BY <1>1 DEF Names
  <2>2. j \in (1..n) \cup {n + 1} /\ k \in (1..n) \cup {n + 1}
    BY <1>1, <1>3
  <2>3. CASE j \in 1..n /\ k \in 1..n
    BY <1>1, <2>3 DEF OneEach
  <2>4. CASE ~(j \in 1..n /\ k \in 1..n)
    BY <1>1, <2>1, <2>2, <2>4
  <2>. QED BY <2>3, <2>4
<1>6. SumTokens(es) \in Nat /\ SumTokens(more) = SumTokens(es) + e.tokens
  <2> DEFINE f == [k \in DOMAIN es |-> es[k].tokens]
             g == [k \in DOMAIN more |-> more[k].tokens]
  <2>0. DOMAIN f = 1..n /\ DOMAIN g = 1..(n + 1)
    BY <1>1
  <2>1. IsFiniteSet(DOMAIN f) /\ n + 1 \notin DOMAIN f /\ DOMAIN g = DOMAIN f \cup {n + 1}
    <3> HIDE DEF f, g
    <3>1. IsFiniteSet(1..n)
      BY <1>1, FS_Interval
    <3>. QED BY ONLY <1>3, <2>0, <3>1
  <2>2. /\ \A y \in DOMAIN f : g[y] = f[y]
        /\ \A y \in DOMAIN g : g[y] \in Nat
        /\ \A y \in DOMAIN f : f[y] \in Nat
        /\ g[n + 1] = e.tokens
    BY <1>1, <1>2, <1>3
  <2> HIDE DEF f, g
  <2>3. SumFunction(g) = SumFunction(f) + g[n + 1]
    BY <2>1, <2>2, SumExtend
  <2>4. SumFunction(f) \in Nat
    BY <2>1, <2>2, SumNat DEF SumFunction
  <2>. QED BY <2>2, <2>3, <2>4 DEF SumTokens, f, g
<1>7. \A k \in DOMAIN more : more[k] \in Range(es) \cup {e}
  BY <1>1, <1>3 DEF Range
<1>. QED BY <1>1, <1>4, <1>5, <1>6, <1>7 DEF more

(* Entries that are the same but for their places cost the same.           *)
Costs(es) == [k \in DOMAIN es |-> es[k].tokens]
NamesAt(es, S) == {es[k].file : k \in S}
Along(es, b, m) == [k \in 1..m |-> es[b[k]]]

(* Entries that b takes from the places in S, each once, cost what the     *)
(* entries in S cost, and are of the same files.                           *)
LEMMA EntriesRenamed ==
    ASSUME NEW es \in Seq(EntryType), NEW S \in SUBSET DOMAIN es,
           NEW b, NEW m \in Nat, Renames(b, 1..m, S)
    PROVE  /\ Along(es, b, m) \in Seq(EntryType)
           /\ DOMAIN Along(es, b, m) = 1..m
           /\ Range(Along(es, b, m)) \subseteq Range(es)
           /\ Names(Along(es, b, m)) = NamesAt(es, S)
           /\ OneEach(es) => OneEach(Along(es, b, m))
           /\ SumTokens(Along(es, b, m)) = SumFunctionOnSet(Costs(es), S)
<1> DEFINE new == Along(es, b, m)
           f == Costs(es)
           g == Costs(new)
<1>1. /\ \A k \in 1..m : new[k] = es[b[k]] /\ b[k] \in S /\ b[k] \in DOMAIN es
      /\ DOMAIN new = 1..m
      /\ \A j, k \in 1..m : b[j] = b[k] => j = k
      /\ \A t \in S : \E k \in 1..m : b[k] = t
  BY DEF Renames, Along
<1> HIDE DEF new
<1>2. DOMAIN new = 1..m /\ new \in Seq(EntryType)
  <2>1. \A k \in 1..m : new[k] \in EntryType
    BY <1>1, EntryFields
  <2>2. new = [k \in 1..m |-> new[k]]
    BY DEF new, Along
  <2>3. new \in [1..m -> EntryType]
    BY <2>1, <2>2
  <2>. QED BY <1>1, <2>3
<1>3. Range(new) \subseteq Range(es)
  BY <1>1, <1>2 DEF Range
<1>4. Names(new) = NamesAt(es, S)
  <2>1. \A k \in DOMAIN new : \E t \in S : new[k].file = es[t].file
    BY <1>1
  <2>2. ASSUME NEW t \in S PROVE \E k \in DOMAIN new : new[k].file = es[t].file
    <3>1. PICK k \in 1..m : b[k] = t
      BY <1>1
    <3>2. k \in DOMAIN new /\ new[k].file = es[t].file
      BY <1>1, <3>1
    <3>. QED BY <3>2
  <2>. QED BY ONLY <2>1, <2>2 DEF Names, NamesAt
<1>5. ASSUME OneEach(es) PROVE OneEach(new)
  <2>1. \A j, k \in DOMAIN new : new[j].file = new[k].file => b[j] = b[k]
    BY SMTT(30), <1>1, <1>5 DEF OneEach
  <2>. QED BY ONLY <1>1, <2>1 DEF OneEach
<1>6. SumFunctionOnSet(g, 1..m) = SumFunctionOnSet(f, S)
  <2>1. \A k \in 1..m : g[k] = f[b[k]]
    BY <1>1 DEF Costs
  <2>2. \A t \in S : f[t] \in Nat
    BY EntryFields DEF Costs
  <2>3. IsFiniteSet(1..m)
    BY FS_Interval
  <2> HIDE DEF f, g
  <2>. QED BY <2>1, <2>2, <2>3, SumRenamed
<1>7. SumTokens(new) = SumFunctionOnSet(g, 1..m)
  BY <1>1 DEF SumTokens, SumFunction, Costs
<1>. QED BY <1>1, <1>2, <1>3, <1>4, <1>5, <1>6, <1>7 DEF new

(* An entry that is taken out.                                             *)
LEMMA EntryRemoved ==
    ASSUME NEW es \in Seq(EntryType), NEW n \in DOMAIN es, OneEach(es)
    PROVE  /\ RemoveAt(es, n) \in Seq(EntryType)
           /\ Names(RemoveAt(es, n)) = Names(es) \ {es[n].file}
           /\ OneEach(RemoveAt(es, n))
           /\ SumTokens(RemoveAt(es, n)) = SumTokens(es) - es[n].tokens
           /\ Range(RemoveAt(es, n)) \subseteq Range(es)
<1> DEFINE m == Len(es) - 1
           S == DOMAIN es \ {n}
           b == [k \in 1..m |-> IF k < n THEN k ELSE k + 1]
           new == RemoveAt(es, n)
           f == Costs(es)
<1>1. m \in Nat /\ DOMAIN es = 1..(m + 1) /\ n \in Nat /\ n \in 1..(m + 1)
  OBVIOUS
<1>2. Renames(b, 1..m, S)
  <2>1. b \in [1..m -> S] /\ \A j, k \in 1..m : b[j] = b[k] => j = k
    BY <1>1
  <2>2. ASSUME NEW t \in S PROVE \E k \in 1..m : b[k] = t
    <3>1. CASE t < n
      BY <1>1, <3>1
    <3>2. CASE ~(t < n)
      <4>1. t - 1 \in 1..m /\ ~(t - 1 < n) /\ (t - 1) + 1 = t
        BY <1>1, <3>2
      <4>. QED BY <4>1
    <3>. QED BY <3>1, <3>2
  <2> HIDE DEF b, S, m
  <2>. QED BY <2>1, <2>2 DEF Renames
<1>3. new = Along(es, b, m)
  <2> DEFINE one == SubSeq(es, 1, n - 1)
             two == SubSeq(es, n + 1, Len(es))
  <2>1. /\ one \in Seq(EntryType) /\ Len(one) = n - 1
        /\ \A k \in 1..(n - 1) : one[k] = es[k]
    BY <1>1
  <2>2. /\ two \in Seq(EntryType) /\ Len(two) = (m + 1) - n
        /\ \A k \in 1..((m + 1) - n) : two[k] = es[n + k]
    <3> DEFINE from == n + 1
               to == m + 1
    <3>1. /\ from \in Nat /\ to \in Nat /\ from <= to + 1 /\ Len(es) = to
          /\ two = SubSeq(es, from, to)
      BY <1>1
    <3>2. \A k \in from..to : es[k] \in EntryType
      BY <1>1
    <3> HIDE DEF from, to, two, m
    <3>3. /\ two \in Seq(EntryType)
          /\ Len(two) = IF from <= to THEN to - from + 1 ELSE 0
          /\ \A k \in 1..(to - from + 1) : two[k] = es[from + k - 1]
      BY ONLY <3>1, <3>2, SubSeqProperties
    <3>4. Len(two) = (m + 1) - n
      BY <1>1, <3>1, <3>3 DEF from, to
    <3>5. ASSUME NEW k \in 1..((m + 1) - n) PROVE two[k] = es[n + k]
      <4>1. k \in 1..(to - from + 1) /\ from + k - 1 = n + k
        BY <1>1 DEF from, to
      <4>. QED BY Zenon, <3>3, <4>1
    <3>. QED BY <3>3, <3>4, <3>5
  <2> HIDE DEF one, two
  <2>3. /\ one \o two \in Seq(EntryType)
        /\ Len(one \o two) = Len(one) + Len(two)
        /\ \A k \in 1..(Len(one) + Len(two)) :
             (one \o two)[k] = IF k <= Len(one) THEN one[k] ELSE two[k - Len(one)]
    BY <2>1, <2>2, ConcatProperties
  <2>4. DOMAIN (one \o two) = 1..m
    <3>1. Len(one) + Len(two) = m
      <4> HIDE DEF m
      <4>. QED BY <1>1, <2>1, <2>2
    <3>2. DOMAIN (one \o two) = 1..Len(one \o two)
      BY <2>3
    <3>. QED BY <2>3, <3>1, <3>2
  <2>5. ASSUME NEW k \in 1..m PROVE (one \o two)[k] = es[b[k]]
    <3>1. CASE k < n
      BY <1>1, <2>1, <2>2, <2>3, <3>1
    <3>2. CASE ~(k < n)
      <4>1. k - (n - 1) \in 1..((m + 1) - n) /\ n + (k - (n - 1)) = k + 1 /\ ~(k <= n - 1)
        BY <1>1, <3>2
      <4>2. (one \o two)[k] = two[k - (n - 1)]
        BY SMTT(30), <1>1, <2>1, <2>2, <2>3, <4>1
      <4>3. two[k - (n - 1)] = es[k + 1]
        BY <2>2, <4>1
      <4>. QED BY <3>2, <4>2, <4>3
    <3>. QED BY <3>1, <3>2
  <2>6. one \o two = [k \in 1..m |-> es[b[k]]]
    <3> HIDE DEF b, m
    <3>1. \A k \in DOMAIN (one \o two) : (one \o two)[k] = es[b[k]]
      BY <2>4, <2>5
    <3>2. \A x : x \in Seq(EntryType) => x = [k \in DOMAIN x |-> x[k]]
      OBVIOUS
    <3>3. one \o two = [k \in DOMAIN (one \o two) |-> (one \o two)[k]]
      <4> DEFINE both == one \o two
      <4>1. both \in Seq(EntryType)
        BY <2>3
      <4> HIDE DEF both
      <4>2. both = [k \in DOMAIN both |-> both[k]]
        BY <3>2, <4>1
      <4>. QED BY <4>2 DEF both
    <3>. QED BY Zenon, <2>4, <3>1, <3>3
  <2>. QED BY <2>6 DEF RemoveAt, one, two, Along
<1>4. \A k \in DOMAIN es : f[k] \in Nat
  BY EntryFields DEF Costs
<1>5. IsFiniteSet(DOMAIN es)
  BY <1>1, FS_Interval
<1>6. S \in SUBSET DOMAIN es
  OBVIOUS
<1>7. SumTokens(es) = es[n].tokens + SumFunctionOnSet(f, S) /\ SumFunctionOnSet(f, S) \in Nat
  <2>1. SumFunctionOnSet(f, DOMAIN es) = f[n] + SumFunctionOnSet(f, S)
    <3> HIDE DEF f
    <3>. QED BY <1>4, <1>5, SumRemove
  <2>2. SumFunctionOnSet(f, S) \in Nat
    <3> HIDE DEF f
    <3>. QED BY <1>4, <1>5, FS_Subset, SumNat
  <2>. QED BY <2>1, <2>2 DEF SumTokens, SumFunction, Costs
<1>8. NamesAt(es, S) = Names(es) \ {es[n].file}
  BY DEF Names, NamesAt, OneEach
<1>9. /\ new \in Seq(EntryType)
      /\ Range(new) \subseteq Range(es)
      /\ Names(new) = NamesAt(es, S)
      /\ OneEach(new)
      /\ SumTokens(new) = SumFunctionOnSet(f, S)
  <2> HIDE DEF new, b, S, m
  <2>. QED BY <1>1, <1>2, <1>3, <1>6, EntriesRenamed
<1>10. es[n].tokens \in Nat
  BY EntryFields
<1>11. SumTokens(new) = SumTokens(es) - es[n].tokens
  <2> HIDE DEF new, f, S
  <2>. QED BY <1>7, <1>9, <1>10
<1>. QED BY <1>8, <1>9, <1>11

(* The sort by prepared order: the same entries, in ranking order.         *)
LEMMA EntriesOrdered ==
    ASSUME NEW es \in Seq(EntryType), OneEach(es)
    PROVE  /\ InPreparedOrder(es) \in Seq(EntryType)
           /\ Names(InPreparedOrder(es)) = Names(es)
           /\ OneEach(InPreparedOrder(es))
           /\ SumTokens(InPreparedOrder(es)) = SumTokens(es)
           /\ Range(InPreparedOrder(es)) \subseteq Range(es)
           /\ \A j, k \in DOMAIN InPreparedOrder(es) :
                j < k => InPreparedOrder(es)[j].file < InPreparedOrder(es)[k].file
<1> DEFINE P == DOMAIN es
           m == Len(es)
           R == {p \in P \X P : es[p[1]].file <= es[p[2]].file}
           rank == RankIn(R, P)
           at == [k \in 1..m |-> CHOOSE t \in P :
                                Cardinality({a \in P : es[a].file <= es[t].file}) = k]
           new == InPreparedOrder(es)
<1>1. m \in Nat /\ P = 1..m /\ IsFiniteSet(P) /\ Cardinality(P) = m
  <2>1. m \in Nat /\ P = 1..m
    OBVIOUS
  <2> HIDE DEF m, P
  <2>2. IsFiniteSet(1..m) /\ Cardinality(1..m) = IF 1 > m THEN 0 ELSE m - 1 + 1
    BY <2>1, FS_Interval
  <2>3. Cardinality(1..m) = m
    BY <2>1, <2>2
  <2>. QED BY <2>1, <2>2, <2>3
<1>2. \A k \in P : es[k].file \in Int
  BY EntryFields, PackerConstants DEF Files
<1>3. \A j, k \in P : <<j, k>> \in R <=> es[j].file <= es[k].file
  OBVIOUS
<1>4. TotalOrder(R, P)
  <2>1. \A a, b \in P : es[a].file = es[b].file => a = b
    BY DEF OneEach
  <2> HIDE DEF P, R
  <2>. QED BY <1>2, <1>3, <2>1 DEF TotalOrder
<1>5. /\ \A t \in P : rank[t] = Cardinality({a \in P : es[a].file <= es[t].file})
  <2>1. ASSUME NEW t \in P
        PROVE  {a \in P : <<a, t>> \in R} = {a \in P : es[a].file <= es[t].file}
    BY <1>3
  <2>2. \A t \in P : rank[t] = Cardinality({a \in P : <<a, t>> \in R})
    BY Zenon DEF RankIn
  <2>. QED BY <2>1, <2>2
<1>6. new = Along(es, at, m)
  <2>1. new = [k \in P |-> es[CHOOSE t \in P : Cardinality({a \in P : es[a].file <= es[t].file}) = k]]
    BY DEF InPreparedOrder
  <2>2. at = [k \in 1..m |-> CHOOSE t \in P :
                             Cardinality({a \in P : es[a].file <= es[t].file}) = k]
    OBVIOUS
  <2> HIDE DEF new, rank, P, m, at
  <2>3. \A k \in 1..m : at[k] = CHOOSE t \in P :
                             Cardinality({a \in P : es[a].file <= es[t].file}) = k
    BY <2>2
  <2>4. Along(es, at, m) = [k \in 1..m |-> es[at[k]]]
    BY DEF Along
  <2>. QED BY <1>1, <2>1, <2>3, <2>4
<1>7. /\ Renames(rank, P, 1..m)
      /\ \A b, c \in P : rank[b] < rank[c] => <<b, c>> \in R
  <2> HIDE DEF P, R, m
  <2>. QED BY <1>1, <1>4, RanksCover
<1>8. \A k \in 1..m : at[k] \in P /\ rank[at[k]] = k
  <2>1. \A k \in 1..m : \E t \in P : Cardinality({a \in P : es[a].file <= es[t].file}) = k
    <3> HIDE DEF P, R, rank, m
    <3>. QED BY <1>5, <1>7 DEF Renames
  <2>2. \A k \in 1..m : /\ at[k] \in P
                       /\ Cardinality({a \in P : es[a].file <= es[at[k]].file}) = k
    <3> HIDE DEF P, m
    <3>. QED BY <2>1
  <2> HIDE DEF P, R, rank, m, at
  <2>. QED BY <1>5, <2>2
<1>9. DOMAIN at = 1..m /\ Renames(at, 1..m, P)
  <2>1. at \in [1..m -> P]
    BY <1>8
  <2> HIDE DEF at, P, rank, m
  <2>2. \A j, k \in 1..m : at[j] = at[k] => j = k
    BY <1>8
  <2>3. \A t \in P : rank[t] \in 1..m /\ at[rank[t]] = t
    BY <1>7, <1>8 DEF Renames
  <2>. QED BY <2>1, <2>2, <2>3 DEF Renames
<1> HIDE DEF P, R, rank, m, at
<1>10. /\ new \in Seq(EntryType) /\ DOMAIN new = 1..m
       /\ Range(new) \subseteq Range(es)
       /\ Names(new) = NamesAt(es, P)
       /\ OneEach(new)
       /\ SumTokens(new) = SumFunctionOnSet(Costs(es), P)
  <2>1. P \in SUBSET DOMAIN es
    BY DEF P
  <2>2. m \in Nat
    BY <1>1
  <2> HIDE DEF new
  <2>3. /\ Along(es, at, m) \in Seq(EntryType)
        /\ DOMAIN Along(es, at, m) = 1..m
        /\ Range(Along(es, at, m)) \subseteq Range(es)
        /\ Names(Along(es, at, m)) = NamesAt(es, P)
        /\ OneEach(es) => OneEach(Along(es, at, m))
        /\ SumTokens(Along(es, at, m)) = SumFunctionOnSet(Costs(es), P)
    BY <1>9, <2>1, <2>2, EntriesRenamed
  <2>. QED BY Zenon, <1>6, <2>3
<1>11. SumTokens(new) = SumTokens(es) /\ Names(new) = Names(es)
  <2> HIDE DEF new
  <2>. QED BY <1>10 DEF SumTokens, SumFunction, Names, NamesAt, Costs, P
<1>12. ASSUME NEW j \in DOMAIN new, NEW k \in DOMAIN new, j < k
       PROVE  new[j].file < new[k].file
  <2> HIDE DEF new
  <2>1. /\ j \in 1..m /\ k \in 1..m
        /\ new[j] = es[at[j]] /\ new[k] = es[at[k]]
    BY <1>6, <1>10 DEF Along
  <2>2. <<at[j], at[k]>> \in R /\ at[j] \in P /\ at[k] \in P /\ at[j] # at[k]
    BY <1>7, <1>8, <1>12, <2>1
  <2>3. es[at[j]].file <= es[at[k]].file /\ es[at[j]].file # es[at[k]].file
    BY <1>3, <2>2 DEF OneEach, P
  <2>4. es[at[j]].file \in Int /\ es[at[k]].file \in Int
    BY <1>2, <2>2
  <2>. QED BY <2>1, <2>3, <2>4
<1> HIDE DEF new
<1>13. \A j, k \in DOMAIN new : j < k => new[j].file < new[k].file
  BY <1>12
<1>. QED BY <1>10, <1>11, <1>13 DEF new

----------------------------------------------------------------------------
(* The data                                                                *)

(* What the packers see of a rendering.                                    *)
Tier == [body : Nat, imports : SUBSET Imports, full : BOOLEAN]

(* The least of some numbers.                                              *)
LEMMA LeastNumber ==
    ASSUME NEW S \in SUBSET Nat, S # {}
    PROVE  Min(S) \in S /\ \A x \in S : Min(S) <= x
<1>1. \E x \in S : \A y \in S : x <= y
  <2> DEFINE Above == {n \in Nat : \A x \in S : n <= x}
  <2>1. SUFFICES ASSUME \A x \in S : \E y \in S : ~(x <= y)
                 PROVE  FALSE
    OBVIOUS
  <2>2. 0 \in Above
    OBVIOUS
  <2>3. ASSUME NEW n \in Nat, n \in Above PROVE n + 1 \in Above
    <3>1. \A x \in S : n <= x /\ x # n
      BY <2>1, <2>3
    <3>. QED BY <3>1
  <2>4. Nat \subseteq Above
    <3> HIDE DEF Above
    <3>. QED BY <2>2, <2>3, NatSetInduction
  <2>5. PICK x \in S : TRUE
    OBVIOUS
  <2>6. x \in Nat /\ x + 1 \in Nat
    OBVIOUS
  <2>7. x + 1 <= x
    BY <2>4, <2>5, <2>6
  <2>. QED BY <2>6, <2>7
<1>. QED BY <1>1 DEF Min

(* The files of a call and their renderings.                               *)
CallOK ==
    /\ mode \in {"greedy", "adaptive", "tiered", "progressive"}
    /\ max \in Nat
    /\ files \in [Files -> [content : Contents, score : Scores]]
    /\ rounds \in Nat

(* What a file may cost: its tiers and its raw tokens are numbers.         *)
LEMMA FileCosts ==
    ASSUME CallOK, NEW f \in Files
    PROVE  /\ Content(f) \in Contents /\ Raw(f) \in Nat /\ Score(f) \in Int
           /\ Tiers(f) \in Seq(Tier) /\ Len(Tiers(f)) \in Nat \ {0}
           /\ DOMAIN Tiers(f) = 1..Len(Tiers(f))
           /\ Content(f).imports \subseteq Imports
           /\ \A t \in DOMAIN Tiers(f) :
                /\ Tiers(f)[t] \in Tier
                /\ IsFiniteSet(Tiers(f)[t].imports)
                /\ Cardinality(Tiers(f)[t].imports) \in Nat
                /\ TierTokens(f, t) \in Nat
<1>1. files[f] \in [content : Contents, score : Scores]
  BY DEF CallOK
<1>2. Content(f) \in Contents /\ Score(f) \in Scores
  BY <1>1 DEF Content, Score
<1>3. /\ Raw(f) \in Nat /\ Score(f) \in Int
      /\ Tiers(f) \in Seq(Tier) /\ Tiers(f) # <<>>
      /\ \A t \in Range(Tiers(f)) : IsFiniteSet(t.imports)
  BY <1>2, PackerConstants DEF Raw, Tiers, Tier
<1>4. Content(f).imports \subseteq Imports
  BY <1>2 DEF Imports
<1>5. DOMAIN Tiers(f) = 1..Len(Tiers(f)) /\ Len(Tiers(f)) \in Nat \ {0}
  BY <1>3
<1>6. ASSUME NEW t \in DOMAIN Tiers(f)
      PROVE  /\ Tiers(f)[t] \in Tier
             /\ IsFiniteSet(Tiers(f)[t].imports)
             /\ Cardinality(Tiers(f)[t].imports) \in Nat
             /\ TierTokens(f, t) \in Nat
  <2>1. Tiers(f)[t] \in Tier /\ Tiers(f)[t] \in Range(Tiers(f))
    BY <1>3 DEF Range
  <2>2. IsFiniteSet(Tiers(f)[t].imports) /\ Cardinality(Tiers(f)[t].imports) \in Nat
    BY <1>3, <2>1, FS_CardinalityType
  <2>3. Tiers(f)[t].body \in Nat
    BY <2>1 DEF Tier
  <2>. QED BY <2>1, <2>2, <2>3 DEF TierTokens, TokensOf
<1>. QED BY <1>2, <1>3, <1>4, <1>5, <1>6

(* What a file costs at most when it is rendered at tier t.                *)
AtMost(f, t) == Least(TierTokens(f, t) + Drift, Raw(f))

(* The entry that is made of a tier.                                       *)
LEMMA EntryMade ==
    ASSUME CallOK, seen \subseteq Imports, NEW f \in Files, NEW t \in DOMAIN Tiers(f),
           NEW d \in Drifts(Tiers(f)[t])
    PROVE  /\ Entry(f, Tiers(f)[t], d) \in EntryType
           /\ Entry(f, Tiers(f)[t], d).file = f
           /\ Entry(f, Tiers(f)[t], d).tokens <= AtMost(f, t)
           /\ AtMost(f, t) \in Nat
           /\ SeenAfter(Tiers(f)[t]) \subseteq Imports
<1> DEFINE tier == Tiers(f)[t]
           stripped == IF tier.full THEN {} ELSE tier.imports \cap seen
           e == Entry(f, tier, d)
<1>1. /\ tier \in Tier /\ IsFiniteSet(tier.imports) /\ Cardinality(tier.imports) \in Nat
      /\ TierTokens(f, t) = TokensOf(tier) /\ TokensOf(tier) \in Nat
      /\ Raw(f) \in Nat
  BY FileCosts DEF TierTokens
<1>2. Drift \in Nat /\ d \in Nat /\ d <= Drift
  BY PackerConstants DEF Drifts
<1> HIDE DEF tier
<1>3. stripped \in SUBSET tier.imports /\ tier.imports \subseteq Imports /\ tier.body \in Nat
  BY <1>1 DEF Tier
<1>4. e = [file |-> f, whole |-> FALSE,
           tokens |-> Least(TokensOf(tier) - Cardinality(stripped) + d, Raw(f)),
           kept |-> tier.imports \ stripped, stripped |-> stripped]
  BY DEF Entry
<1> HIDE DEF stripped, e
<1>5. Cardinality(stripped) \in Nat /\ Cardinality(stripped) <= Cardinality(tier.imports)
  BY <1>1, <1>3, FS_Subset, FS_CardinalityType
<1>6. TokensOf(tier) - Cardinality(stripped) \in Nat
  BY <1>1, <1>3, <1>5 DEF TokensOf
<1>7. /\ Least(TokensOf(tier) - Cardinality(stripped) + d, Raw(f)) \in Nat
      /\ Least(TokensOf(tier) - Cardinality(stripped) + d, Raw(f)) <= AtMost(f, t)
      /\ AtMost(f, t) \in Nat
  BY <1>1, <1>2, <1>5, <1>6 DEF Least, AtMost
<1>8. SeenAfter(tier) \subseteq Imports
  BY <1>3 DEF SeenAfter
<1>9. e \in EntryType
  BY <1>3, <1>4, <1>7 DEF EntryType
<1>. QED BY <1>4, <1>7, <1>8, <1>9 DEF tier, e

(* The entry that is made of a whole file.                                 *)
LEMMA WholeMade ==
    ASSUME CallOK, NEW f \in Files
    PROVE  /\ WholeEntry(f) \in EntryType
           /\ WholeEntry(f).file = f
           /\ WholeEntry(f).whole = TRUE
           /\ WholeEntry(f).tokens = Raw(f)
BY FileCosts DEF WholeEntry, EntryType

(* A sort by score gives every position once.                              *)
LEMMA LowestScores ==
    ASSUME CallOK, NEW s \in Seq(Files), NEW those \in SUBSET DOMAIN s
    PROVE  /\ Cardinality(those) \in Nat
           /\ LowestScoreFirst(s, those) \in [1..Cardinality(those) -> those]
<1> DEFINE before(a, b) == \/ Score(s[a]) < Score(s[b])
                           \/ Score(s[a]) = Score(s[b]) /\ a <= b
           R == {p \in those \X those : before(p[1], p[2])}
           m == Cardinality(those)
           turn(b) == Cardinality({a \in those : before(a, b)})
<1>1. IsFiniteSet(those) /\ m \in Nat
  <2>1. IsFiniteSet(DOMAIN s)
    BY FS_Interval
  <2>. QED BY <2>1, FS_Subset, FS_CardinalityType
<1>2. \A a \in those : a \in Int /\ Score(s[a]) \in Int
  BY FileCosts
<1>3. \A a, b \in those : <<a, b>> \in R <=> before(a, b)
  OBVIOUS
<1>4. TotalOrder(R, those)
  <2> HIDE DEF R
  <2>. QED BY <1>2, <1>3 DEF TotalOrder
<1>5. \A b \in those : RankIn(R, those)[b] = turn(b)
  <2>1. ASSUME NEW b \in those
        PROVE  {a \in those : <<a, b>> \in R} = {a \in those : before(a, b)}
    BY <1>3
  <2>2. \A b \in those : RankIn(R, those)[b] = Cardinality({a \in those : <<a, b>> \in R})
    BY Zenon DEF RankIn
  <2>. QED BY <2>1, <2>2
<1>6. \A k \in 1..m : \E b \in those : turn(b) = k
  <2> HIDE DEF R, m
  <2>1. Renames(RankIn(R, those), those, 1..m)
    BY <1>1, <1>4, RanksCover DEF m
  <2>2. \A k \in 1..m : \E b \in those : RankIn(R, those)[b] = k
    BY <2>1 DEF Renames
  <2>. QED BY <1>5, <2>2
<1>7. LowestScoreFirst(s, those) = [k \in 1..m |-> CHOOSE b \in those : turn(b) = k]
  BY DEF LowestScoreFirst
<1> HIDE DEF turn, m
<1>8. LowestScoreFirst(s, those) \in [1..m -> those]
  BY <1>6, <1>7
<1>. QED BY <1>1, <1>8 DEF m

----------------------------------------------------------------------------
(* The inductive invariant: where every ranked file is                     *)

(* Every variable has its type, and no file a tier that it does not have.  *)
Typed ==
    /\ CallOK
    /\ pc \in Phases
    /\ i \in 1..N + 1
    /\ hashes \subseteq Contents
    /\ prepared \in Seq(Files) /\ skipped \in Seq(Files)
    /\ assigned \in Seq(Files) /\ waiting \in Seq(Files)
    /\ degradable \in Seq(Files) /\ still \in Seq(Files) /\ degraded \in Seq(Files)
    /\ seen \subseteq Imports
    /\ entries \in Seq(EntryType)
    /\ tierOf \in [Files -> Nat] /\ snapshot \in [Files -> Nat]
    /\ \A f \in Files : tierOf[f] <= Len(Tiers(f)) /\ snapshot[f] <= Len(Tiers(f))
    /\ rem \in Int
    /\ round \in 0..rounds
    /\ used \in SUBSET Files

(* No file stands twice in a list, or in two of the results.               *)
Apart ==
    /\ Distinct(prepared) /\ Distinct(skipped) /\ Distinct(waiting)
    /\ OneEach(entries)
    /\ Names(entries) \cap Range(skipped) = {}
    /\ \A f \in Files : tierOf[f] # 0 <=> f \in Range(assigned)

(* Which packer runs.                                                      *)
Dispatched ==
    /\ pc = "greedy" => mode = "greedy"
    /\ pc = "adaptive" => mode = "adaptive"
    /\ pc \in {"whole", "rest"} => mode = "tiered"
    /\ pc \in {"assign", "round", "place", "finalize", "clamp"} => mode = "progressive"

(* While files are prepared, those before i are prepared or skipped.       *)
Preparing ==
    pc = "prepare" =>
        /\ Range(prepared) \cup Range(skipped) = 1..(i - 1)
        /\ Range(prepared) \cap Range(skipped) = {}
        /\ entries = <<>> /\ assigned = <<>> /\ waiting = <<>>

(* Before the first prepared file is skipped, the files that could not be  *)
(* prepared are skipped already.                                           *)
AllPrepared ==
    /\ pc \in {"whole", "assign", "round", "place"} =>
         /\ Range(prepared) \cup Range(skipped) = Files
         /\ Range(prepared) \cap Range(skipped) = {}
    /\ pc \in {"assign", "round", "place"} => entries = <<>>

(* A packer of one pass: what it has seen is included or skipped.          *)
OnePass ==
    /\ pc \in {"greedy", "adaptive", "rest"} =>
         /\ Names(entries) \cup Range(skipped) \cup From(prepared, i) = Files
         /\ Range(skipped) \cap From(prepared, i) = {}
    /\ pc \in {"greedy", "adaptive", "whole"} =>
         Names(entries) \cap From(prepared, i) = {}
    /\ pc = "whole" => Names(entries) \subseteq Range(prepared)

(* Three sets make up a fourth, and no two of them meet.                   *)
Splits(A, B, C, all) ==
    /\ A \cup B \cup C = all
    /\ A \cap B = {} /\ A \cap C = {} /\ B \cap C = {}

(* The progressive packer: a prepared file is assigned, waits, still waits *)
(* or is to come; in the end what is assigned is included.                 *)
Progressive ==
    /\ pc = "assign" =>
         Splits(Range(assigned), Range(waiting), From(prepared, i), Range(prepared))
    /\ pc = "round" => Splits(Range(assigned), Range(waiting), {}, Range(prepared))
    /\ pc = "place" =>
         /\ round < rounds
         /\ Distinct(still)
         /\ Splits(Range(assigned), Range(still), From(waiting, i), Range(prepared))
    /\ pc = "finalize" =>
         /\ Range(assigned) \cup Range(skipped) = Files
         /\ Range(assigned) \cap Range(skipped) = {}
         /\ Range(assigned) \subseteq Range(prepared)
         /\ Names(entries) \cup (Range(assigned) \cap From(prepared, i)) = Range(assigned)
         /\ Names(entries) \cap From(prepared, i) = {}

(* In the end every file is included or skipped.                           *)
AllPlaced ==
    pc \in {"clamp", "done"} => Names(entries) \cup Range(skipped) = Files

(* What the entries cost, and that they fit wherever nothing is left to be *)
(* clamped.                                                                *)
Spending ==
    /\ total = SumTokens(entries)
    /\ pc \notin {"finalize", "clamp"} => total <= max

(* What comes out is in the order of the ranking.                          *)
Sorted ==
    pc = "done" => \A j, k \in DOMAIN entries :
        j < k => entries[j].file < entries[k].file

(* Outside the progressive packer a skipped file did not fit.              *)
Justified ==
    mode # "progressive" =>
        \A f \in Range(prepared) \cap Range(skipped) : total + AtMost(f, 1) > max

(* Where every ranked file is, and what is spent on it.                    *)
Accounts ==
    /\ Typed /\ Apart /\ Dispatched
    /\ Preparing /\ AllPrepared /\ OnePass /\ Progressive /\ AllPlaced
    /\ Spending /\ Sorted /\ Justified

----------------------------------------------------------------------------
(* The initial states are accounted for.                                   *)
LEMMA AccountsInit == Init => Accounts
<1> SUFFICES ASSUME Init PROVE Accounts
  OBVIOUS
<1>1. CallOK
  BY PackerConstants DEF Init, CallOK
<1>2. /\ pc = "prepare" /\ i = 1 /\ hashes = {} /\ prepared = <<>> /\ skipped = <<>>
      /\ seen = {} /\ entries = <<>> /\ total = 0 /\ assigned = <<>> /\ waiting = <<>>
      /\ tierOf = [f \in Files |-> 0] /\ snapshot = [f \in Files |-> 0]
      /\ rem = max /\ round = 0 /\ degradable = <<>> /\ used = {} /\ still = <<>>
      /\ degraded = <<>>
  BY DEF Init
<1>3. N \in Nat
  BY PackerConstants
<1>4. Range(<<>>) = {} /\ Distinct(<<>>) /\ Range(prepared) = {} /\ Range(skipped) = {}
  BY <1>2 DEF Range, Distinct
<1>5. Typed
  BY <1>1, <1>2, <1>3, FileCosts DEF Typed, Phases, CallOK
<1>6. Apart
  BY <1>2, <1>4, NoEntries DEF Apart
<1>7. Spending
  BY <1>1, <1>2, NoEntries DEF Spending, CallOK
<1>8. Preparing
  BY <1>2, <1>4 DEF Preparing
<1>9. Dispatched /\ AllPrepared /\ OnePass /\ Progressive /\ AllPlaced /\ Sorted /\ Justified
  BY <1>2, <1>4 DEF Dispatched, AllPrepared, OnePass, Progressive, AllPlaced, Sorted, Justified
<1>. QED BY <1>5, <1>6, <1>7, <1>8, <1>9 DEF Accounts

(* A step that changes neither a list nor a result.                        *)
LEMMA AccountsStutter ==
    ASSUME Accounts, UNCHANGED vars
    PROVE  Accounts'
<1>1. /\ mode' = mode /\ max' = max /\ files' = files /\ rounds' = rounds
      /\ pc' = pc /\ i' = i /\ hashes' = hashes /\ prepared' = prepared
      /\ skipped' = skipped /\ seen' = seen /\ entries' = entries /\ total' = total
      /\ tierOf' = tierOf /\ assigned' = assigned /\ waiting' = waiting /\ rem' = rem
      /\ round' = round /\ degradable' = degradable /\ snapshot' = snapshot
      /\ used' = used /\ still' = still /\ degraded' = degraded
  BY DEF vars, call, prep, prog, out
<1>2. Typed'
  BY <1>1 DEF Accounts, Typed, CallOK, Tiers, Content
<1>3. Apart' /\ Dispatched' /\ Sorted' /\ Spending'
  BY <1>1 DEF Accounts, Apart, Dispatched, Sorted, Spending
<1>4. Preparing' /\ AllPrepared' /\ OnePass' /\ Progressive' /\ AllPlaced'
  BY <1>1 DEF Accounts, Preparing, AllPrepared, OnePass, Progressive, AllPlaced
<1>5. Justified'
  BY <1>1 DEF Accounts, Justified, AtMost, TierTokens, Tiers, Content, Raw
<1>. QED BY <1>2, <1>3, <1>4, <1>5 DEF Accounts

(* A ranked file is prepared or skipped, and in neither list twice.        *)
LEMMA PrepareKeeps ==
    ASSUME Accounts, Prepare
    PROVE  Accounts'
<1>1. /\ mode' = mode /\ max' = max /\ files' = files /\ rounds' = rounds
      /\ pc = "prepare" /\ i <= N /\ pc' = pc /\ i' = i + 1
      /\ seen' = seen /\ entries' = entries /\ total' = total
      /\ tierOf' = tierOf /\ assigned' = assigned /\ waiting' = waiting /\ rem' = rem
      /\ round' = round /\ degradable' = degradable /\ snapshot' = snapshot
      /\ used' = used /\ still' = still /\ degraded' = degraded
      /\ hashes' \in {hashes, hashes \cup {Content(i)}}
      /\ \/ prepared' = Append(prepared, i) /\ skipped' = skipped
         \/ prepared' = prepared /\ skipped' = Append(skipped, i)
  BY DEF Prepare, call, prep, prog, Skip
<1>2. Typed /\ Preparing /\ Apart /\ Spending
  BY Zenon DEF Accounts
<1>0. N \in Nat /\ i \in 1..N + 1 /\ i \in Files
  BY <1>1, <1>2, PackerConstants DEF Typed, Files
<1>3. Content(i) \in Contents
  BY <1>0, <1>2, FileCosts DEF Typed
<1>4. i \notin Range(prepared) /\ i \notin Range(skipped) /\ i \notin 1..(i - 1)
      /\ 1..((i + 1) - 1) = (1..(i - 1)) \cup {i}
  BY <1>0, <1>1, <1>2 DEF Preparing
<1>5. /\ prepared' \in Seq(Files) /\ skipped' \in Seq(Files)
      /\ Distinct(prepared') /\ Distinct(skipped')
      /\ \/ Range(prepared') = Range(prepared) \cup {i} /\ Range(skipped') = Range(skipped)
         \/ Range(prepared') = Range(prepared) /\ Range(skipped') = Range(skipped) \cup {i}
  <2>1. prepared \in Seq(Files) /\ skipped \in Seq(Files) /\ Distinct(prepared) /\ Distinct(skipped)
    BY <1>2 DEF Typed, Apart
  <2>2. CASE prepared' = Append(prepared, i) /\ skipped' = skipped
    BY <1>0, <1>4, <2>1, <2>2, Added
  <2>3. CASE prepared' = prepared /\ skipped' = Append(skipped, i)
    BY <1>0, <1>4, <2>1, <2>3, Added
  <2>. QED BY <1>1, <2>2, <2>3
<1>6. Typed'
  <2>1. i' \in 1..N + 1 /\ hashes' \subseteq Contents
    BY <1>0, <1>1, <1>2, <1>3 DEF Typed
  <2>. QED BY <1>1, <1>2, <1>5, <2>1 DEF Typed, CallOK, Tiers, Content
<1>7. entries = <<>> /\ Names(entries) = {}
  BY <1>1, <1>2, NoEntries DEF Preparing
<1>8. Apart'
  BY <1>1, <1>2, <1>5, <1>7 DEF Apart
<1>9. Preparing'
  BY <1>1, <1>2, <1>4, <1>5 DEF Preparing
<1>10. Justified'
  BY <1>1, <1>9 DEF Preparing, Justified
<1>11. Spending'
  BY <1>1, <1>2 DEF Spending
<1>12. Dispatched' /\ AllPrepared' /\ OnePass' /\ Progressive' /\ AllPlaced' /\ Sorted'
  BY <1>1 DEF Accounts, Dispatched, AllPrepared, OnePass, Progressive, AllPlaced, Sorted
<1>. QED BY <1>6, <1>8, <1>9, <1>10, <1>11, <1>12 DEF Accounts

(* The packers begin with all that was prepared.                           *)
LEMMA DispatchKeeps ==
    ASSUME Accounts, Dispatch
    PROVE  Accounts'
<1>1. /\ mode' = mode /\ max' = max /\ files' = files /\ rounds' = rounds
      /\ pc = "prepare" /\ i > N /\ pc' = FirstPhase /\ i' = 1
      /\ hashes' = hashes /\ prepared' = prepared /\ skipped' = skipped
      /\ seen' = seen /\ entries' = entries /\ total' = total
      /\ tierOf' = tierOf /\ assigned' = assigned /\ waiting' = waiting /\ rem' = rem
      /\ round' = round /\ degradable' = degradable /\ snapshot' = snapshot
      /\ used' = used /\ still' = still /\ degraded' = degraded
  BY DEF Dispatch, call, prep, prog, out
<1>2. Typed /\ Preparing /\ Apart /\ Spending /\ Justified
  BY Zenon DEF Accounts
<1>0. N \in Nat /\ i = N + 1
  <2>1. N \in Nat
    BY PackerConstants
  <2>2. i \in 1..N + 1
    BY <1>2 DEF Typed
  <2>. QED BY <1>1, <2>1, <2>2
<1>3. /\ Range(prepared) \cup Range(skipped) = Files
      /\ Range(prepared) \cap Range(skipped) = {}
      /\ entries = <<>> /\ assigned = <<>> /\ waiting = <<>> /\ Names(entries) = {}
  <2>1. 1..(i - 1) = Files
    BY <1>0 DEF Files
  <2>. QED BY <1>1, <1>2, <2>1, NoEntries DEF Preparing
<1>4. From(prepared', 1) = Range(prepared) /\ Range(assigned) = {} /\ Range(waiting) = {}
  <2>1. prepared \in Seq(Files)
    BY <1>2 DEF Typed
  <2>2. Range(<<>>) = {}
    BY DEF Range
  <2>. QED BY <1>1, <1>3, <2>1, <2>2, PassEnds
<1>5. \/ mode = "greedy" /\ pc' = "greedy"
      \/ mode = "adaptive" /\ pc' = "adaptive"
      \/ mode = "tiered" /\ pc' = "whole"
      \/ mode = "progressive" /\ pc' = "assign"
  BY <1>1, <1>2 DEF Typed, CallOK, FirstPhase
<1>6. Typed'
  BY <1>0, <1>1, <1>2, <1>5 DEF Typed, CallOK, Tiers, Content, Phases
<1>7. Apart' /\ Spending' /\ Dispatched'
  BY <1>1, <1>2, <1>5 DEF Apart, Spending, Dispatched
<1>8. Preparing' /\ AllPlaced' /\ Sorted' /\ AllPrepared'
  BY <1>1, <1>3, <1>5 DEF Preparing, AllPlaced, Sorted, AllPrepared
<1>9. OnePass' /\ Progressive'
  BY <1>1, <1>3, <1>4, <1>5 DEF OnePass, Progressive, Splits
<1>10. Justified'
  BY <1>1, <1>3 DEF Justified
<1>. QED BY <1>6, <1>7, <1>8, <1>9, <1>10 DEF Accounts

(* The passes that end without a result: the next pass starts at the first *)
(* prepared file, or there are no more files to come.                      *)
LEMMA PassKeeps ==
    ASSUME Accounts, TieredPassOver \/ AssignOver \/ FinalizeOver
    PROVE  Accounts'
<1>1. /\ mode' = mode /\ max' = max /\ files' = files /\ rounds' = rounds
      /\ <<pc, pc'>> \in {<<"whole", "rest">>, <<"assign", "round">>, <<"finalize", "clamp">>}
      /\ i > Len(prepared) /\ i' = 1
      /\ hashes' = hashes /\ prepared' = prepared /\ skipped' = skipped
      /\ seen' = seen /\ entries' = entries /\ total' = total
      /\ tierOf' = tierOf /\ assigned' = assigned /\ waiting' = waiting /\ rem' = rem
      /\ round' = round /\ degradable' = degradable /\ snapshot' = snapshot
      /\ used' = used /\ still' = still /\ degraded' = degraded
  BY DEF TieredPassOver, AssignOver, FinalizeOver, LoopEnds, call, prep, prog, out
<1>2. /\ Typed /\ Apart /\ Spending /\ Justified /\ AllPrepared /\ OnePass /\ Progressive
      /\ Dispatched
  BY DEF Accounts
<1>3. N \in Nat /\ i \in 1..N + 1 /\ prepared \in Seq(Files)
  BY <1>2, PackerConstants DEF Typed
<1>4. From(prepared, i) = {} /\ From(prepared, 1) = Range(prepared)
  BY <1>1, <1>3, PassEnds
<1>5. Typed'
  BY <1>1, <1>2, <1>3 DEF Typed, CallOK, Tiers, Content, Phases
<1>6. Apart' /\ Dispatched'
  BY <1>1, <1>2 DEF Apart, Dispatched
<1>7. Spending'
  BY <1>1, <1>2 DEF Spending
<1>8. Preparing' /\ Sorted'
  BY <1>1 DEF Preparing, Sorted
<1>9. AllPrepared'
  BY <1>1, <1>2 DEF AllPrepared
<1>10. OnePass'
  BY <1>1, <1>2, <1>4 DEF OnePass, AllPrepared, Apart
<1>11. Progressive'
  BY <1>1, <1>2, <1>4 DEF Progressive, Splits
<1>12. AllPlaced'
  BY <1>1, <1>2, <1>4 DEF Progressive, AllPlaced
<1>13. Justified'
  BY <1>1, <1>2 DEF Justified, AtMost, TierTokens, Tiers, Content, Raw
<1>. QED BY <1>5, <1>6, <1>7, <1>8, <1>9, <1>10, <1>11, <1>12, <1>13 DEF Accounts

(* What a visit of a prepared file may do: deliver one entry of the file,  *)
(* skip it because its tier does not fit, or leave it.                     *)
VisitDelivers(f) ==
    \E e \in EntryType :
        /\ e.file = f
        /\ entries' = Append(entries, e) /\ total' = total + e.tokens
        /\ skipped' = skipped
        /\ pc # "finalize" => total' <= max
        /\ pc = "rest" => f \notin Names(entries)
        /\ pc = "finalize" => tierOf[f] # 0

VisitSkips(f) ==
    /\ entries' = entries /\ total' = total
    /\ skipped' = Append(skipped, f)
    /\ pc \in {"greedy", "adaptive", "rest"}
    /\ pc = "rest" => f \notin Names(entries)
    /\ total + AtMost(f, 1) > max

VisitLeaves(f) ==
    /\ entries' = entries /\ total' = total /\ skipped' = skipped
    /\ \/ pc = "whole"
       \/ pc = "rest" /\ f \in Names(entries)
       \/ pc = "finalize" /\ tierOf[f] = 0

Visited(f) ==
    /\ mode' = mode /\ max' = max /\ files' = files /\ rounds' = rounds
    /\ pc \in {"greedy", "adaptive", "whole", "rest", "finalize"}
    /\ i <= Len(prepared) /\ f = prepared[i] /\ i' = i + 1 /\ pc' = pc
    /\ hashes' = hashes /\ prepared' = prepared
    /\ tierOf' = tierOf /\ assigned' = assigned /\ waiting' = waiting /\ rem' = rem
    /\ round' = round /\ degradable' = degradable /\ snapshot' = snapshot
    /\ used' = used /\ still' = still /\ degraded' = degraded

(* The most detailed tier fits and is delivered, or does not.              *)
LEMMA DetailedEffect ==
    ASSUME Typed, total \in Nat, NEW f \in Files, DeliverDetailed(f),
           pc \in {"greedy", "adaptive", "rest"}, pc = "rest" => f \notin Names(entries)
    PROVE  seen' \subseteq Imports /\ (VisitDelivers(f) \/ VisitSkips(f))
<1>1. CallOK /\ seen \subseteq Imports
  BY DEF Typed
<1>2. 1 \in DOMAIN Tiers(f)
  BY <1>1, FileCosts
<1>3. PICK d \in Drifts(Tiers(f)[1]) :
        /\ seen' = SeenAfter(Tiers(f)[1])
        /\ \/ /\ Fits(Entry(f, Tiers(f)[1], d)) /\ Deliver(Entry(f, Tiers(f)[1], d))
              /\ UNCHANGED skipped
           \/ /\ ~Fits(Entry(f, Tiers(f)[1], d)) /\ Skip(f)
              /\ UNCHANGED <<entries, total>>
  BY DEF DeliverDetailed
<1> DEFINE e == Entry(f, Tiers(f)[1], d)
<1>4. /\ e \in EntryType /\ e.file = f
      /\ e.tokens <= AtMost(f, 1) /\ AtMost(f, 1) \in Nat
      /\ SeenAfter(Tiers(f)[1]) \subseteq Imports
  BY <1>1, <1>2, EntryMade
<1>5. e.tokens \in Nat /\ max \in Nat
  BY <1>1, <1>4, EntryMade DEF EntryType, CallOK
<1> HIDE DEF e
<1>6. CASE Fits(e) /\ Deliver(e) /\ UNCHANGED skipped
  <2>1. VisitDelivers(f)
    BY <1>4, <1>6 DEF VisitDelivers, Fits, Deliver
  <2>. QED BY <1>3, <1>4, <2>1
<1>7. CASE ~Fits(e) /\ Skip(f) /\ UNCHANGED <<entries, total>>
  <2>1. VisitSkips(f)
    BY <1>4, <1>5, <1>7 DEF VisitSkips, Fits, Skip
  <2>. QED BY <1>3, <1>4, <2>1
<1>. QED BY <1>3, <1>6, <1>7 DEF e

(* A file delivered whole fits.                                            *)
LEMMA WholeEffect ==
    ASSUME Typed, NEW f \in Files, DeliverWhole(f), Fits(WholeEntry(f)),
           pc \in {"adaptive", "whole"}
    PROVE  seen' \subseteq Imports /\ VisitDelivers(f)
<1>1. CallOK /\ seen \subseteq Imports
  BY DEF Typed
<1> DEFINE e == WholeEntry(f)
<1>2. e \in EntryType /\ e.file = f
  BY <1>1, WholeMade
<1>3. Fits(e) /\ Deliver(e) /\ skipped' = skipped /\ seen' = seen
  BY DEF DeliverWhole
<1> HIDE DEF e
<1>. QED BY <1>1, <1>2, <1>3 DEF VisitDelivers, Fits, Deliver

(* Every packer delivers, skips or leaves the file that it visits.         *)
LEMMA VisitEffect ==
    ASSUME Typed, total \in Nat, NEW f \in Files,
           Greedy(f) \/ Adaptive(f) \/ TieredWhole(f) \/ TieredRest(f) \/ Finalize(f)
    PROVE  /\ Visited(f)
           /\ seen' \subseteq Imports
           /\ VisitDelivers(f) \/ VisitSkips(f) \/ VisitLeaves(f)
<1>1. CASE Greedy(f)
  <2>1. Visited(f) /\ pc = "greedy" /\ DeliverDetailed(f)
    BY <1>1 DEF Greedy, Visit, Visited, call, prep, prog
  <2>. QED BY <2>1, DetailedEffect
<1>2. CASE Adaptive(f)
  <2>1. /\ Visited(f) /\ pc = "adaptive"
        /\ (Fits(WholeEntry(f)) /\ DeliverWhole(f)) \/ DeliverDetailed(f)
    BY <1>2 DEF Adaptive, Visit, Visited, call, prep, prog
  <2>. QED BY <2>1, DetailedEffect, WholeEffect
<1>3. CASE TieredWhole(f)
  <2>1. /\ Visited(f) /\ pc = "whole"
        /\ (Fits(WholeEntry(f)) /\ DeliverWhole(f)) \/ UNCHANGED out
    BY <1>3 DEF TieredWhole, Visit, Visited, call, prep, prog
  <2>2. CASE UNCHANGED out
    BY <2>1, <2>2 DEF VisitLeaves, out, Typed
  <2>. QED BY <2>1, <2>2, WholeEffect
<1>4. CASE TieredRest(f)
  <2>1. /\ Visited(f) /\ pc = "rest"
        /\ \/ f \in Names(entries) /\ UNCHANGED out
           \/ f \notin Names(entries) /\ DeliverDetailed(f)
    BY <1>4 DEF TieredRest, Visit, Visited, call, prep, prog, Names
  <2>2. CASE f \in Names(entries) /\ UNCHANGED out
    BY <2>1, <2>2 DEF VisitLeaves, out, Typed
  <2>. QED BY <2>1, <2>2, DetailedEffect
<1>5. CASE Finalize(f)
  <2>1. Visited(f) /\ pc = "finalize"
    BY <1>5 DEF Finalize, Visit, Visited, call, prep, prog
  <2>2. CASE tierOf[f] = 0 /\ UNCHANGED out
    BY <2>1, <2>2 DEF VisitLeaves, out, Typed
  <2>3. CASE /\ tierOf[f] # 0
             /\ seen' = SeenAfter(Tiers(f)[tierOf[f]])
             /\ \E d \in Drifts(Tiers(f)[tierOf[f]]) :
                  Deliver(Entry(f, Tiers(f)[tierOf[f]], d))
             /\ UNCHANGED skipped
    <3> DEFINE t == tierOf[f]
    <3>1. CallOK /\ seen \subseteq Imports /\ t \in Nat /\ t <= Len(Tiers(f)) /\ t # 0
      BY <2>3 DEF Typed
    <3>2. t \in DOMAIN Tiers(f)
      BY <3>1, FileCosts
    <3> HIDE DEF t
    <3>3. PICK d \in Drifts(Tiers(f)[t]) :
            Deliver(Entry(f, Tiers(f)[t], d)) /\ seen' = SeenAfter(Tiers(f)[t])
      BY <2>3 DEF t
    <3> DEFINE e == Entry(f, Tiers(f)[t], d)
    <3>4. e \in EntryType /\ e.file = f /\ SeenAfter(Tiers(f)[t]) \subseteq Imports
      BY <3>1, <3>2, EntryMade
    <3>5. Deliver(e)
      BY <3>3
    <3> HIDE DEF e
    <3>6. VisitDelivers(f)
      BY <2>1, <2>3, <3>4, <3>5 DEF VisitDelivers, Deliver
    <3>. QED BY <2>1, <3>3, <3>4, <3>6
  <2>. QED BY <1>5, <2>2, <2>3 DEF Finalize
<1>. QED BY <1>1, <1>2, <1>3, <1>4, <1>5

(* The visited file moves from what is to come to where the visit puts it, *)
(* and what is delivered still fits.                                       *)
LEMMA VisitKeeps ==
    ASSUME Accounts, NEW f \in Files,
           Greedy(f) \/ Adaptive(f) \/ TieredWhole(f) \/ TieredRest(f) \/ Finalize(f)
    PROVE  Accounts'
<1>1. /\ Typed /\ Apart /\ Spending /\ Justified /\ AllPrepared /\ OnePass /\ Progressive
      /\ Dispatched
  BY Zenon DEF Accounts
<1>3. /\ N \in Nat /\ i \in 1..N + 1 /\ prepared \in Seq(Files) /\ skipped \in Seq(Files)
      /\ entries \in Seq(EntryType) /\ total = SumTokens(entries) /\ total \in Nat
      /\ Distinct(prepared) /\ Distinct(skipped) /\ OneEach(entries)
      /\ Names(entries) \cap Range(skipped) = {}
  <2>1. entries \in Seq(EntryType) /\ total = SumTokens(entries)
    BY <1>1 DEF Typed, Spending
  <2>2. total \in Nat
    BY <2>1, EntriesCost
  <2>. QED BY <1>1, <2>1, <2>2, PackerConstants DEF Typed, Apart
<1>2. Visited(f) /\ seen' \subseteq Imports /\ (VisitDelivers(f) \/ VisitSkips(f) \/ VisitLeaves(f))
  BY <1>1, <1>3, VisitEffect
<1>4. i \in 1..Len(prepared) /\ Len(prepared) <= N
  BY <1>2, <1>3, DistinctSize DEF Visited
<1>5. /\ f \in Range(prepared)
      /\ From(prepared, i) = From(prepared, i') \cup {f}
      /\ f \notin From(prepared, i')
      /\ i' \in 1..N + 1
  BY <1>2, <1>3, <1>4, Passed DEF Visited
<1>6. /\ pc \in {"greedy", "adaptive", "rest"} =>
           /\ Names(entries) \cup Range(skipped) \cup From(prepared, i) = Files
           /\ Range(skipped) \cap From(prepared, i) = {}
      /\ pc \in {"greedy", "adaptive", "whole"} => Names(entries) \cap From(prepared, i) = {}
      /\ pc = "whole" => /\ Names(entries) \subseteq Range(prepared)
                         /\ Range(prepared) \cup Range(skipped) = Files
                         /\ Range(prepared) \cap Range(skipped) = {}
      /\ pc = "finalize" =>
           /\ Range(assigned) \cup Range(skipped) = Files
           /\ Range(assigned) \cap Range(skipped) = {}
           /\ Range(assigned) \subseteq Range(prepared)
           /\ Names(entries) \cup (Range(assigned) \cap From(prepared, i)) = Range(assigned)
           /\ Names(entries) \cap From(prepared, i) = {}
           /\ tierOf[f] # 0 <=> f \in Range(assigned)
  BY <1>1 DEF OnePass, AllPrepared, Progressive, Apart
<1>7. ASSUME VisitDelivers(f) PROVE f \notin Names(entries) /\ f \notin Range(skipped)
  BY <1>2, <1>5, <1>6, <1>7 DEF VisitDelivers, Visited
<1>8. ASSUME VisitSkips(f) PROVE f \notin Names(entries) /\ f \notin Range(skipped)
  BY <1>2, <1>5, <1>6, <1>8 DEF VisitSkips, Visited
<1>9. /\ entries' \in Seq(EntryType) /\ skipped' \in Seq(Files)
      /\ OneEach(entries') /\ Distinct(skipped')
      /\ total' = SumTokens(entries')
      /\ total' >= total
      /\ \/ VisitDelivers(f) /\ Names(entries') = Names(entries) \cup {f} /\ skipped' = skipped
         \/ VisitSkips(f) /\ entries' = entries /\ Range(skipped') = Range(skipped) \cup {f}
         \/ VisitLeaves(f) /\ entries' = entries /\ skipped' = skipped
  <2>1. CASE VisitDelivers(f)
    <3>1. PICK e \in EntryType : /\ e.file = f /\ entries' = Append(entries, e)
                                 /\ total' = total + e.tokens /\ skipped' = skipped
      BY <2>1 DEF VisitDelivers
    <3>2. e.tokens \in Nat
      BY DEF EntryType
    <3>3. /\ Append(entries, e) \in Seq(EntryType)
          /\ Names(Append(entries, e)) = Names(entries) \cup {e.file}
          /\ OneEach(Append(entries, e))
          /\ SumTokens(Append(entries, e)) = SumTokens(entries) + e.tokens
      BY <1>3, <1>7, <2>1, <3>1, EntryAdded
    <3>. QED BY <1>3, <2>1, <3>1, <3>2, <3>3
  <2>2. CASE VisitSkips(f)
    <3>1. entries' = entries /\ total' = total /\ skipped' = Append(skipped, f)
      BY <2>2 DEF VisitSkips
    <3>2. /\ Append(skipped, f) \in Seq(Files)
          /\ Range(Append(skipped, f)) = Range(skipped) \cup {f}
          /\ Distinct(Append(skipped, f))
      BY <1>3, <1>8, <2>2, Added
    <3>. QED BY <1>3, <2>2, <3>1, <3>2
  <2>3. CASE VisitLeaves(f)
    <3>1. entries' = entries /\ total' = total /\ skipped' = skipped
      BY <2>3 DEF VisitLeaves
    <3>. QED BY <1>3, <2>3, <3>1
  <2>. QED BY <1>2, <2>1, <2>2, <2>3
<1>10. Typed'
  BY <1>1, <1>2, <1>5, <1>9 DEF Typed, Visited, CallOK, Tiers, Content
<1>11. Names(entries') \cap Range(skipped') = {}
  BY <1>3, <1>7, <1>8, <1>9
<1>12. Apart' /\ Dispatched'
  BY <1>1, <1>2, <1>9, <1>11 DEF Apart, Dispatched, Visited
<1>13. OnePass' /\ AllPrepared'
  <2>1. CASE VisitDelivers(f)
    BY <1>2, <1>5, <1>6, <1>7, <1>9, <2>1 DEF OnePass, AllPrepared, Visited, VisitDelivers
  <2>2. CASE VisitSkips(f)
    BY <1>2, <1>5, <1>6, <1>8, <1>9, <2>2 DEF OnePass, AllPrepared, Visited, VisitSkips
  <2>3. CASE VisitLeaves(f)
    BY <1>2, <1>5, <1>6, <1>9, <2>3 DEF OnePass, AllPrepared, Visited, VisitLeaves
  <2>. QED BY <1>2, <2>1, <2>2, <2>3
<1>14. Progressive'
  <2>1. CASE pc = "finalize"
    <3>1. CASE VisitDelivers(f)
      BY <1>2, <1>5, <1>6, <1>7, <1>9, <2>1, <3>1 DEF Progressive, Visited, VisitDelivers
    <3>2. CASE VisitLeaves(f)
      BY <1>2, <1>5, <1>6, <1>9, <2>1, <3>2 DEF Progressive, Visited, VisitLeaves
    <3>. QED BY <1>2, <2>1, <3>1, <3>2 DEF VisitSkips
  <2>2. CASE pc # "finalize"
    BY <1>2, <2>2 DEF Progressive, Visited
  <2>. QED BY <2>1, <2>2
<1>15. Preparing' /\ AllPlaced' /\ Sorted'
  BY <1>2 DEF Visited, Preparing, AllPlaced, Sorted
<1>16. Spending'
  BY <1>1, <1>2, <1>9 DEF Spending, Visited, VisitDelivers, VisitSkips, VisitLeaves
<1>17. Justified'
  <2>1. \A g \in Files : AtMost(g, 1)' = AtMost(g, 1) /\ AtMost(g, 1) \in Nat
    <3>1. ASSUME NEW g \in Files PROVE AtMost(g, 1) \in Nat
      <4>1. CallOK
        BY <1>1 DEF Typed
      <4>2. Raw(g) \in Nat /\ 1 \in DOMAIN Tiers(g)
        BY <4>1, FileCosts
      <4>3. TierTokens(g, 1) \in Nat
        BY <4>1, <4>2, FileCosts
      <4>. QED BY <4>2, <4>3, PackerConstants DEF AtMost, Least
    <3>. QED BY <1>2, <3>1 DEF Visited, AtMost, TierTokens, Tiers, Content, Raw
  <2>2. SUFFICES ASSUME mode # "progressive", NEW g \in Range(prepared) \cap Range(skipped')
                 PROVE  total' + AtMost(g, 1) > max
    <3>1. Range(prepared) \subseteq Files
      BY <1>3, PassEnds
    <3>2. mode' = mode /\ max' = max /\ prepared' = prepared
      BY <1>2 DEF Visited
    <3>. QED BY <2>1, <3>1, <3>2 DEF Justified
  <2>3. g \in Files /\ max \in Nat /\ total' \in Nat
    <3>1. g \in Files
      BY <1>9, <2>2, PassEnds
    <3>2. max \in Nat
      BY <1>1 DEF Typed, CallOK
    <3>3. total' \in Nat
      BY <1>9, EntriesCost
    <3>. QED BY <3>1, <3>2, <3>3
  <2>4. CASE g \in Range(skipped)
    <3>1. total + AtMost(g, 1) > max
      BY <1>1, <2>2, <2>4 DEF Justified
    <3>. QED BY SMTT(30), <1>3, <1>9, <2>1, <2>3, <3>1
  <2>5. CASE g \notin Range(skipped)
    BY <1>9, <2>2, <2>5 DEF VisitSkips
  <2>. QED BY <2>4, <2>5
<1>. QED BY <1>10, <1>12, <1>13, <1>14, <1>15, <1>16, <1>17 DEF Accounts

(* What a step leaves alone that only sorts or drops entries.              *)
Settled ==
    /\ mode' = mode /\ max' = max /\ files' = files /\ rounds' = rounds
    /\ hashes' = hashes /\ prepared' = prepared /\ seen' = seen
    /\ tierOf' = tierOf /\ assigned' = assigned /\ waiting' = waiting /\ rem' = rem
    /\ round' = round /\ degradable' = degradable /\ snapshot' = snapshot
    /\ used' = used /\ still' = still /\ degraded' = degraded

(* The results are sorted: the same entries, in the order of ranking.      *)
LEMMA SortKeeps ==
    ASSUME Accounts, OnePassOver \/ ClampOver
    PROVE  Accounts'
<1>1. /\ Typed /\ Apart /\ Spending /\ Justified /\ OnePass /\ AllPlaced /\ Dispatched
  BY Zenon DEF Accounts
<1>2. /\ Settled /\ total' = total /\ skipped' = skipped
      /\ entries' = InPreparedOrder(entries)
      /\ pc' = "done" /\ i' \in {i, 1}
      /\ \/ pc \in {"greedy", "adaptive", "rest"} /\ i > Len(prepared)
         \/ pc = "clamp" /\ ~OverBudget
  BY DEF OnePassOver, ClampOver, LoopEnds, Settled, call, prep, prog
<1>3. /\ entries \in Seq(EntryType) /\ OneEach(entries) /\ prepared \in Seq(Files)
      /\ total = SumTokens(entries) /\ i \in 1..N + 1 /\ N \in Nat /\ max \in Nat
  BY <1>1, PackerConstants DEF Typed, Apart, Spending, CallOK
<1>4. /\ entries' \in Seq(EntryType)
      /\ Names(entries') = Names(entries)
      /\ OneEach(entries')
      /\ SumTokens(entries') = SumTokens(entries)
      /\ \A j, k \in DOMAIN entries' : j < k => entries'[j].file < entries'[k].file
  BY <1>2, <1>3, EntriesOrdered
<1>5. Typed'
  BY <1>1, <1>2, <1>3, <1>4 DEF Typed, CallOK, Tiers, Content, Phases, Settled
<1>6. Apart' /\ Dispatched' /\ Sorted'
  BY <1>1, <1>2, <1>4 DEF Apart, Dispatched, Sorted, Settled
<1>7. Preparing' /\ AllPrepared' /\ OnePass' /\ Progressive'
  BY <1>2 DEF Preparing, AllPrepared, OnePass, Progressive
<1>8. AllPlaced'
  <2>1. CASE pc \in {"greedy", "adaptive", "rest"} /\ i > Len(prepared)
    <3>1. From(prepared, i) = {}
      BY <1>3, <2>1, PassEnds
    <3>. QED BY <1>1, <1>2, <1>4, <2>1, <3>1 DEF OnePass, AllPlaced
  <2>2. CASE pc = "clamp"
    BY <1>1, <1>2, <1>4, <2>2 DEF AllPlaced
  <2>. QED BY <1>2, <2>1, <2>2
<1>9. Spending'
  <2>1. total <= max
    <3>1. CASE pc # "clamp"
      BY <1>1, <1>2, <3>1 DEF Spending
    <3>2. CASE entries = <<>>
      BY <1>3, <3>2, NoEntries
    <3>3. CASE ~(total > max)
      BY <1>3, <3>3, EntriesCost
    <3>. QED BY <1>2, <3>1, <3>2, <3>3 DEF OverBudget
  <2>. QED BY <1>2, <1>3, <1>4, <2>1 DEF Spending, Settled
<1>10. Justified'
  BY <1>1, <1>2 DEF Justified, AtMost, TierTokens, Tiers, Content, Raw, Settled
<1>. QED BY <1>5, <1>6, <1>7, <1>8, <1>9, <1>10 DEF Accounts

(* The clamp drops an entry and skips its file.                            *)
LEMMA ClampKeeps ==
    ASSUME Accounts, Clamp
    PROVE  Accounts'
<1>1. /\ Typed /\ Apart /\ Spending /\ AllPlaced /\ Dispatched
  BY Zenon DEF Accounts
<1> DEFINE lowest == LowestScoreFirst(Included, DOMAIN entries)[1]
<1>2. /\ Settled /\ pc = "clamp" /\ pc' = pc /\ i' = i /\ entries # <<>>
      /\ entries' = RemoveAt(entries, lowest)
      /\ total' = total - entries[lowest].tokens
      /\ skipped' = Append(skipped, entries[lowest].file)
  BY DEF Clamp, OverBudget, Skip, Settled, call, prep, prog
<1>3. /\ entries \in Seq(EntryType) /\ OneEach(entries) /\ skipped \in Seq(Files)
      /\ total = SumTokens(entries) /\ Distinct(skipped) /\ CallOK
      /\ Names(entries) \cap Range(skipped) = {}
  BY <1>1 DEF Typed, Apart, Spending
<1>4. lowest \in DOMAIN entries
  <2>1. Included \in Seq(Files) /\ DOMAIN entries \in SUBSET DOMAIN Included
    BY <1>3, EntryFields DEF Included
  <2>2. /\ Cardinality(DOMAIN entries) \in Nat
        /\ LowestScoreFirst(Included, DOMAIN entries)
             \in [1..Cardinality(DOMAIN entries) -> DOMAIN entries]
    BY <1>3, <2>1, LowestScores
  <2>3. DOMAIN entries # {} /\ IsFiniteSet(DOMAIN entries)
    <3>1. Len(entries) \in Nat /\ Len(entries) # 0 /\ DOMAIN entries = 1..Len(entries)
      BY <1>2, <1>3
    <3>2. 1 \in DOMAIN entries
      BY <3>1
    <3>3. IsFiniteSet(1..Len(entries))
      BY <3>1, FS_Interval
    <3>. QED BY <3>1, <3>2, <3>3
  <2>4. Cardinality(DOMAIN entries) # 0
    BY <2>3, FS_EmptySet
  <2>5. 1 \in 1..Cardinality(DOMAIN entries)
    BY <2>2, <2>4
  <2>. QED BY <2>2, <2>5
<1> HIDE DEF lowest
<1> DEFINE f == entries[lowest].file
<1>5. /\ f \in Files /\ f \in Names(entries) /\ f \notin Range(skipped)
  BY <1>3, <1>4, EntryFields DEF Names
<1>6. /\ entries' \in Seq(EntryType)
      /\ Names(entries') = Names(entries) \ {f}
      /\ OneEach(entries')
      /\ total' = SumTokens(entries')
  BY <1>2, <1>3, <1>4, EntryRemoved
<1> HIDE DEF f
<1>7. /\ skipped' \in Seq(Files) /\ Distinct(skipped')
      /\ Range(skipped') = Range(skipped) \cup {f}
  BY <1>2, <1>3, <1>5, Added DEF f
<1>8. Typed'
  BY <1>1, <1>2, <1>6, <1>7 DEF Typed, CallOK, Tiers, Content, Settled
<1>9. Apart' /\ Dispatched'
  BY <1>1, <1>2, <1>3, <1>6, <1>7 DEF Apart, Dispatched, Settled
<1>10. Preparing' /\ AllPrepared' /\ OnePass' /\ Progressive' /\ Sorted'
  BY <1>2 DEF Preparing, AllPrepared, OnePass, Progressive, Sorted
<1>11. AllPlaced'
  BY <1>1, <1>2, <1>5, <1>6, <1>7 DEF AllPlaced
<1>12. Spending'
  BY <1>2, <1>6 DEF Spending
<1>13. Justified'
  BY <1>1, <1>2 DEF Justified, Dispatched, Settled
<1>. QED BY <1>8, <1>9, <1>10, <1>11, <1>12, <1>13 DEF Accounts

----------------------------------------------------------------------------
(* The progressive packer                                                  *)

(* The first tier that is affordable.                                      *)
LEMMA FirstAffordable ==
    ASSUME CallOK, NEW f \in Files, NEW tokens \in Int, Affordable(f, tokens) # {}
    PROVE  LET t == Min(Affordable(f, tokens))
           IN  /\ t \in DOMAIN Tiers(f)
               /\ t \in Nat \ {0} /\ t <= Len(Tiers(f))
               /\ TierTokens(f, t) \in Nat
               /\ TierTokens(f, t) <= tokens
<1> DEFINE t == Min(Affordable(f, tokens))
<1>1. DOMAIN Tiers(f) = 1..Len(Tiers(f)) /\ Len(Tiers(f)) \in Nat
  BY FileCosts
<1>2. Affordable(f, tokens) \in SUBSET Nat
  BY <1>1 DEF Affordable
<1>3. t \in Affordable(f, tokens)
  BY <1>2, LeastNumber
<1> HIDE DEF t
<1>4. t \in DOMAIN Tiers(f) /\ TierTokens(f, t) <= tokens
  BY <1>3 DEF Affordable
<1>5. TierTokens(f, t) \in Nat
  BY <1>4, FileCosts
<1>. QED BY <1>1, <1>4, <1>5 DEF t

(* Only the variables of the progressive packer change.                    *)
Assigning ==
    /\ mode' = mode /\ max' = max /\ files' = files /\ rounds' = rounds
    /\ hashes' = hashes /\ prepared' = prepared /\ seen' = seen
    /\ entries' = entries /\ total' = total

(* What is enough for a step of passes 1 and 2, and their end.             *)
LEMMA AssigningKeeps ==
    ASSUME Accounts, Assigning, pc \in {"assign", "round", "place"},
           pc' \in {"assign", "round", "place", "finalize"},
           Typed', Distinct(skipped'), Distinct(waiting'),
           pc' # "finalize" => skipped' = skipped,
           \A f \in Files : tierOf'[f] # 0 <=> f \in Range(assigned'),
           Progressive'
    PROVE  Accounts'
<1>1. /\ Typed /\ Apart /\ Spending /\ AllPrepared /\ Dispatched
  BY Zenon DEF Accounts
<1>2. entries = <<>> /\ Names(entries) = {} /\ total <= max
  BY <1>1, NoEntries DEF AllPrepared, Spending
<1>3. Apart' /\ Dispatched' /\ Spending'
  BY <1>1, <1>2 DEF Apart, Dispatched, Spending, Assigning
<1>4. Preparing' /\ OnePass' /\ AllPlaced' /\ Sorted'
  BY DEF Preparing, OnePass, AllPlaced, Sorted
<1>5. AllPrepared'
  BY <1>1, <1>2 DEF AllPrepared, Assigning
<1>6. Justified'
  BY <1>1 DEF Justified, Dispatched, Assigning
<1>. QED BY <1>3, <1>4, <1>5, <1>6 DEF Accounts

(* A prepared file that pass 1 visits is assigned a tier or waits.         *)
LEMMA AssignKeeps ==
    ASSUME Accounts, NEW f \in Files, Assign(f)
    PROVE  Accounts'
<1>1. /\ Typed /\ Apart /\ Progressive /\ CallOK
  BY Zenon DEF Accounts, Typed
<1> DEFINE t == Min(Affordable(f, rem))
<1>2. /\ Assigning /\ skipped' = skipped
      /\ pc = "assign" /\ pc' = pc /\ i <= Len(prepared) /\ f = prepared[i] /\ i' = i + 1
      /\ round' = round /\ degradable' = degradable /\ snapshot' = snapshot
      /\ used' = used /\ still' = still /\ degraded' = degraded
      /\ \/ /\ Affordable(f, rem) # {}
            /\ tierOf' = [tierOf EXCEPT ![f] = t] /\ rem' = rem - TierTokens(f, t)
            /\ assigned' = Append(assigned, f) /\ waiting' = waiting
         \/ /\ waiting' = Append(waiting, f)
            /\ tierOf' = tierOf /\ rem' = rem /\ assigned' = assigned
  BY DEF Assign, Visit, Assigning, call, prep, out
<1>3. /\ N \in Nat /\ i \in 1..N + 1 /\ prepared \in Seq(Files) /\ Distinct(prepared)
      /\ assigned \in Seq(Files) /\ waiting \in Seq(Files) /\ Distinct(waiting)
      /\ rem \in Int /\ tierOf \in [Files -> Nat]
  BY <1>1, PackerConstants DEF Typed, Apart
<1>4. i \in 1..Len(prepared) /\ Len(prepared) <= N
  BY <1>2, <1>3, DistinctSize
<1>5. /\ From(prepared, i) = From(prepared, i') \cup {f}
      /\ f \notin From(prepared, i')
      /\ i' \in 1..N + 1
  BY <1>2, <1>3, <1>4, Passed
<1>6. Splits(Range(assigned), Range(waiting), From(prepared, i), Range(prepared))
  BY <1>1, <1>2 DEF Progressive
<1>7. f \notin Range(assigned) /\ f \notin Range(waiting)
  BY <1>5, <1>6 DEF Splits
<1>8. /\ assigned' \in Seq(Files) /\ waiting' \in Seq(Files) /\ Distinct(waiting')
      /\ tierOf' \in [Files -> Nat] /\ rem' \in Int
      /\ \A g \in Files : tierOf'[g] <= Len(Tiers(g))
      /\ \A g \in Files : tierOf'[g] # 0 <=> g \in Range(assigned')
      /\ Splits(Range(assigned'), Range(waiting'), From(prepared, i'), Range(prepared))
  <2>1. /\ \A g \in Files : tierOf[g] <= Len(Tiers(g))
        /\ \A g \in Files : tierOf[g] # 0 <=> g \in Range(assigned)
    BY <1>1 DEF Typed, Apart
  <2>2. CASE /\ Affordable(f, rem) # {}
             /\ tierOf' = [tierOf EXCEPT ![f] = t] /\ rem' = rem - TierTokens(f, t)
             /\ assigned' = Append(assigned, f) /\ waiting' = waiting
    <3>1. t \in Nat \ {0} /\ t <= Len(Tiers(f)) /\ TierTokens(f, t) \in Nat
      BY <1>1, <1>3, <2>2, FirstAffordable
    <3>2. assigned' \in Seq(Files) /\ Range(assigned') = Range(assigned) \cup {f}
      BY <1>3, <2>2, Added
    <3> HIDE DEF t
    <3>3. /\ \A g \in Files : tierOf'[g] = IF g = f THEN t ELSE tierOf[g]
          /\ tierOf' \in [Files -> Nat]
      BY <1>3, <2>2, <3>1
    <3>4. Splits(Range(assigned'), Range(waiting'), From(prepared, i'), Range(prepared))
      BY <1>5, <1>6, <1>7, <2>2, <3>2 DEF Splits
    <3>5. \A g \in Files : /\ tierOf'[g] <= Len(Tiers(g))
                           /\ tierOf'[g] # 0 <=> g \in Range(assigned')
      BY <2>1, <3>1, <3>2, <3>3
    <3>. QED BY <1>3, <2>2, <3>1, <3>2, <3>3, <3>4, <3>5
  <2>3. CASE /\ waiting' = Append(waiting, f)
             /\ tierOf' = tierOf /\ rem' = rem /\ assigned' = assigned
    <3>1. /\ waiting' \in Seq(Files) /\ Range(waiting') = Range(waiting) \cup {f}
          /\ Distinct(waiting')
      BY <1>3, <1>7, <2>3, Added
    <3>2. Splits(Range(assigned'), Range(waiting'), From(prepared, i'), Range(prepared))
      BY <1>5, <1>6, <1>7, <2>3, <3>1 DEF Splits
    <3>. QED BY <1>3, <2>1, <2>3, <3>1, <3>2
  <2>. QED BY <1>2, <2>2, <2>3
<1>9. Typed'
  BY <1>1, <1>2, <1>5, <1>8 DEF Typed, CallOK, Tiers, Content, Assigning
<1>10. Progressive'
  BY <1>2, <1>8 DEF Progressive, Assigning
<1>11. Distinct(skipped')
  BY <1>1, <1>2 DEF Apart
<1>. QED BY <1>2, <1>8, <1>9, <1>10, <1>11, AssigningKeeps

(* A round begins: whoever waits is to come.                               *)
LEMMA StartKeeps ==
    ASSUME Accounts, StartRound
    PROVE  /\ Accounts'
           /\ \A n \in DOMAIN degradable' :
                /\ degradable'[n] \in Range(assigned)
                /\ tierOf[degradable'[n]] < Len(Tiers(degradable'[n]))
<1>1. /\ Typed /\ Apart /\ Progressive /\ CallOK
  BY Zenon DEF Accounts, Typed
<1> DEFINE those == {k \in DOMAIN assigned : tierOf[assigned[k]] < Len(Tiers(assigned[k]))}
           order == LowestScoreFirst(assigned, those)
           m == Cardinality(those)
<1>2. /\ Assigning /\ skipped' = skipped
      /\ pc = "round" /\ round < rounds /\ pc' = "place" /\ i' = 1
      /\ degradable' = [n \in DOMAIN order |-> assigned[order[n]]]
      /\ snapshot' = tierOf /\ used' = {} /\ still' = <<>>
      /\ tierOf' = tierOf /\ assigned' = assigned /\ waiting' = waiting /\ rem' = rem
      /\ round' = round /\ degraded' = degraded
  BY DEF StartRound, AnotherRound, Assigning, call, prep, out
<1>3. /\ N \in Nat /\ assigned \in Seq(Files) /\ waiting \in Seq(Files) /\ Distinct(waiting)
  BY <1>1, PackerConstants DEF Typed, Apart
<1>4. m \in Nat /\ order \in [1..m -> those]
  BY <1>1, <1>3, LowestScores
<1>5. /\ \A k \in those : /\ assigned[k] \in Files /\ assigned[k] \in Range(assigned)
                          /\ tierOf[assigned[k]] < Len(Tiers(assigned[k]))
  BY <1>3 DEF Range
<1> HIDE DEF order, m, those
<1>6. degradable' = [n \in 1..m |-> assigned[order[n]]]
  BY <1>2, <1>4
<1>7. /\ degradable' \in Seq(Files) /\ DOMAIN degradable' = 1..m
      /\ \A n \in 1..m : /\ degradable'[n] \in Range(assigned)
                         /\ tierOf[degradable'[n]] < Len(Tiers(degradable'[n]))
  <2>1. \A n \in 1..m : order[n] \in those /\ degradable'[n] = assigned[order[n]]
    BY <1>4, <1>6
  <2>2. degradable' \in [1..m -> Files]
    BY <1>5, <1>6, <2>1
  <2>3. degradable' \in Seq(Files)
    BY <1>4, <2>2
  <2>. QED BY <1>5, <1>6, <2>1, <2>3
<1>8. Typed'
  BY <1>1, <1>2, <1>3, <1>7 DEF Typed, CallOK, Tiers, Content, Assigning, Phases
<1>9. Progressive'
  <2>1. From(waiting, 1) = Range(waiting)
    BY <1>3, PassEnds
  <2>2. Range(<<>>) = {} /\ Distinct(<<>>)
    BY DEF Range, Distinct
  <2>. QED BY <1>1, <1>2, <2>1, <2>2 DEF Progressive, Splits, Assigning
<1>10. /\ Distinct(skipped') /\ Distinct(waiting')
       /\ \A g \in Files : tierOf'[g] # 0 <=> g \in Range(assigned')
  BY <1>1, <1>2 DEF Apart
<1>11. Accounts'
  BY <1>2, <1>8, <1>9, <1>10, AssigningKeeps
<1>. QED BY <1>7, <1>11

(* A round ends: whoever still waits is waiting.                           *)
LEMMA EndKeeps ==
    ASSUME Accounts, EndRound \/ RoundsOver
    PROVE  Accounts'
<1>1. /\ Typed /\ Apart /\ Progressive /\ CallOK /\ AllPrepared
  BY Zenon DEF Accounts, Typed
<1>2. /\ N \in Nat /\ i \in 1..N + 1 /\ waiting \in Seq(Files) /\ still \in Seq(Files)
      /\ prepared \in Seq(Files) /\ skipped \in Seq(Files)
      /\ Distinct(skipped) /\ Distinct(waiting) /\ round \in 0..rounds /\ rounds \in Nat
      /\ \A g \in Files : tierOf[g] # 0 <=> g \in Range(assigned)
  BY <1>1, PackerConstants DEF Typed, Apart, CallOK
<1>3. CASE EndRound
  <2>1. /\ Assigning /\ skipped' = skipped
        /\ pc = "place" /\ i > Len(waiting) /\ pc' = "round" /\ i' = 1
        /\ waiting' = still /\ round' = round + 1
        /\ degradable' = degradable /\ snapshot' = snapshot /\ used' = used /\ still' = still
        /\ tierOf' = tierOf /\ assigned' = assigned /\ rem' = rem /\ degraded' = degraded
    BY <1>3 DEF EndRound, Assigning, call, prep, out
  <2>2. From(waiting, i) = {}
    BY <1>2, <2>1, PassEnds
  <2>3. Progressive'
    BY <1>1, <2>1, <2>2 DEF Progressive, Splits, Assigning
  <2>4. Distinct(waiting')
    BY <1>1, <2>1 DEF Progressive
  <2>5. round' \in 0..rounds /\ i' \in 1..N + 1
    BY <1>1, <1>2, <2>1 DEF Progressive
  <2>6. Typed'
    BY <1>1, <1>2, <2>1, <2>5 DEF Typed, CallOK, Tiers, Content, Assigning, Phases
  <2>. QED BY <1>2, <2>1, <2>3, <2>4, <2>6, AssigningKeeps
<1>4. CASE RoundsOver
  <2>1. /\ Assigning /\ skipped' = skipped \o waiting
        /\ pc = "round" /\ pc' = "finalize" /\ i' = 1
        /\ waiting' = waiting /\ round' = round
        /\ degradable' = degradable /\ snapshot' = snapshot /\ used' = used /\ still' = still
        /\ tierOf' = tierOf /\ assigned' = assigned /\ rem' = rem /\ degraded' = degraded
    BY <1>4 DEF RoundsOver, Assigning, call, prep, prog
  <2>2. /\ Splits(Range(assigned), Range(waiting), {}, Range(prepared))
        /\ Range(prepared) \cup Range(skipped) = Files
        /\ Range(prepared) \cap Range(skipped) = {}
        /\ entries = <<>>
    BY <1>1, <2>1 DEF Progressive, AllPrepared
  <2>3. Range(skipped) \cap Range(waiting) = {}
    BY <2>2 DEF Splits
  <2>4. /\ skipped' \in Seq(Files) /\ Distinct(skipped')
        /\ Range(skipped') = Range(skipped) \cup Range(waiting)
    BY <1>2, <2>1, <2>3, Joined
  <2>5. From(prepared, 1) = Range(prepared) /\ Names(entries) = {}
    BY <1>2, <2>2, PassEnds, NoEntries
  <2>6. Progressive'
    BY <2>1, <2>2, <2>4, <2>5 DEF Progressive, Splits, Assigning
  <2>7. Typed'
    BY <1>1, <1>2, <2>1, <2>4 DEF Typed, CallOK, Tiers, Content, Assigning, Phases
  <2>. QED BY <1>2, <2>1, <2>4, <2>6, <2>7, AssigningKeeps
<1>. QED BY <1>3, <1>4

(* A degradable file is assigned, and unless it was degraded in this round *)
(* it has the tier of the snapshot, which is not its last one.             *)
Credits ==
    pc = "place" => \A n \in DOMAIN degradable :
        /\ degradable[n] \in Range(assigned)
        /\ snapshot[degradable[n]] < Len(Tiers(degradable[n]))
        /\ degradable[n] \notin used => tierOf[degradable[n]] = snapshot[degradable[n]]

(* A file s that waits is placed at tier t for the degradation of g by one *)
(* tier; the budget that is left pays for it.                              *)
Placed(s, g, t) ==
    /\ g \in Range(assigned) /\ s \notin Range(assigned)
    /\ tierOf[g] \in DOMAIN Tiers(g) /\ tierOf[g] + 1 \in DOMAIN Tiers(g)
    /\ t \in DOMAIN Tiers(s)
    /\ tierOf' = [tierOf EXCEPT ![g] = tierOf[g] + 1, ![s] = t]
    /\ rem' = rem + TierTokens(g, tierOf[g]) - TierTokens(g, tierOf[g] + 1) - TierTokens(s, t)
    /\ rem' >= 0
    /\ used' = used \cup {g}
    /\ degraded' = Append(degraded, g)
    /\ assigned' = Append(assigned, s)
    /\ still' = still

(* A file s stays skipped.                                                 *)
Refused(s) ==
    /\ still' = Append(still, s)
    /\ tierOf' = tierOf /\ rem' = rem /\ used' = used
    /\ degraded' = degraded /\ assigned' = assigned

(* No token is credited twice: the tier that is given up is the tier the   *)
(* file has, because a file is degraded once in a round.                   *)
LEMMA PlaceEffect ==
    ASSUME Accounts, Credits, Place
    PROVE  /\ Assigning /\ skipped' = skipped
           /\ pc = "place" /\ pc' = pc /\ i <= Len(waiting) /\ i' = i + 1
           /\ waiting' = waiting /\ round' = round
           /\ degradable' = degradable /\ snapshot' = snapshot
           /\ waiting[i] \in Files
           /\ \/ \E g \in Files, t \in Nat \ {0} : Placed(waiting[i], g, t)
              \/ Refused(waiting[i])
<1> DEFINE s == waiting[i]
           k == Min(Helpers(s))
           g == degradable[k]
           t == Min(Affordable(s, rem + Freed(g)))
<1>1. /\ Typed /\ Apart /\ Progressive /\ CallOK
  BY Zenon DEF Accounts, Typed
<1>2. /\ Assigning /\ skipped' = skipped
      /\ pc = "place" /\ pc' = pc /\ i <= Len(waiting) /\ i' = i + 1
      /\ waiting' = waiting /\ round' = round
      /\ degradable' = degradable /\ snapshot' = snapshot
      /\ \/ /\ Helpers(s) # {}
            /\ tierOf' = [tierOf EXCEPT ![g] = snapshot[g] + 1, ![s] = t]
            /\ rem' = rem + Freed(g) - TierTokens(s, t)
            /\ used' = used \cup {g} /\ degraded' = Append(degraded, g)
            /\ assigned' = Append(assigned, s) /\ still' = still
         \/ Refused(s)
  BY DEF Place, Assigning, Refused, call, prep, out
<1>3. /\ N \in Nat /\ i \in 1..N + 1 /\ waiting \in Seq(Files) /\ degradable \in Seq(Files)
      /\ rem \in Int /\ tierOf \in [Files -> Nat]
      /\ \A f \in Files : tierOf[f] # 0 <=> f \in Range(assigned)
      /\ \A f \in Files : tierOf[f] <= Len(Tiers(f))
  BY <1>1, PackerConstants DEF Typed, Apart
<1>4. i \in 1..Len(waiting) /\ s \in Files
  BY <1>2, <1>3, Passed
<1>5. s \notin Range(assigned)
  <2>1. /\ From(waiting, i) = From(waiting, i + 1) \cup {s}
        /\ Splits(Range(assigned), Range(still), From(waiting, i), Range(prepared))
    BY <1>1, <1>2, <1>3, <1>4, Passed DEF Progressive
  <2>. QED BY <2>1 DEF Splits
<1>6. ASSUME Helpers(s) # {},
             tierOf' = [tierOf EXCEPT ![g] = snapshot[g] + 1, ![s] = t],
             rem' = rem + Freed(g) - TierTokens(s, t),
             used' = used \cup {g}, degraded' = Append(degraded, g),
             assigned' = Append(assigned, s), still' = still
      PROVE  \E h \in Files, u \in Nat \ {0} : Placed(s, h, u)
  <2>1. k \in DOMAIN degradable /\ Usable(g) /\ Affordable(s, rem + Freed(g)) # {}
    <3>1. Helpers(s) \in SUBSET DOMAIN degradable /\ DOMAIN degradable \in SUBSET Nat
      BY <1>3 DEF Helpers
    <3>2. k \in Helpers(s)
      BY <1>6, <3>1, LeastNumber
    <3> HIDE DEF k
    <3>. QED BY <3>2 DEF Helpers
  <2>2. /\ g \in Files /\ g \in Range(assigned) /\ snapshot[g] < Len(Tiers(g))
        /\ tierOf[g] = snapshot[g] /\ tierOf[g] # 0 /\ tierOf[g] \in Nat
    <3> HIDE DEF k
    <3>. QED BY SMTT(30), <1>2, <1>3, <2>1 DEF Credits, Usable
  <2> HIDE DEF k, g, s
  <2>3. tierOf[g] \in DOMAIN Tiers(g) /\ tierOf[g] + 1 \in DOMAIN Tiers(g)
    BY <1>1, <2>2, FileCosts
  <2>4. TierTokens(g, tierOf[g]) \in Nat /\ TierTokens(g, tierOf[g] + 1) \in Nat
    BY <1>1, <2>2, <2>3, FileCosts
  <2>5. Freed(g) = TierTokens(g, tierOf[g]) - TierTokens(g, tierOf[g] + 1)
    BY <2>2 DEF Freed
  <2>6. /\ t \in DOMAIN Tiers(s) /\ t \in Nat \ {0}
        /\ TierTokens(s, t) \in Nat /\ TierTokens(s, t) <= rem + Freed(g)
    <3>1. rem + Freed(g) \in Int
      BY <1>3, <2>4, <2>5
    <3>. QED BY <1>1, <1>4, <2>1, <3>1, FirstAffordable
  <2> HIDE DEF t
  <2>7. Placed(s, g, t)
    BY <1>3, <1>5, <1>6, <2>2, <2>3, <2>4, <2>5, <2>6 DEF Placed
  <2>. QED BY <2>2, <2>6, <2>7
<1>. QED BY <1>2, <1>4, <1>6

(* A waiting file is placed or still waits; the file that is degraded for  *)
(* it counts as used, so that its credit is not given again.               *)
LEMMA PlaceKeeps ==
    ASSUME Accounts, Credits, Place
    PROVE  Accounts' /\ Credits'
<1> DEFINE s == waiting[i]
<1>1. /\ Typed /\ Apart /\ Progressive /\ CallOK
  BY Zenon DEF Accounts, Typed
<1>2. /\ Assigning /\ skipped' = skipped
      /\ pc = "place" /\ pc' = pc /\ i <= Len(waiting) /\ i' = i + 1
      /\ waiting' = waiting /\ round' = round
      /\ degradable' = degradable /\ snapshot' = snapshot
      /\ s \in Files
      /\ \/ \E g \in Files, t \in Nat \ {0} : Placed(s, g, t)
         \/ Refused(s)
  BY PlaceEffect
<1>3. /\ N \in Nat /\ i \in 1..N + 1 /\ waiting \in Seq(Files) /\ Distinct(waiting)
      /\ still \in Seq(Files) /\ assigned \in Seq(Files) /\ degraded \in Seq(Files)
      /\ degradable \in Seq(Files) /\ used \in SUBSET Files
      /\ rem \in Int /\ tierOf \in [Files -> Nat]
      /\ \A f \in Files : tierOf[f] # 0 <=> f \in Range(assigned)
      /\ \A f \in Files : tierOf[f] <= Len(Tiers(f))
  BY <1>1, PackerConstants DEF Typed, Apart
<1>4. i \in 1..Len(waiting) /\ Len(waiting) <= N
  BY <1>2, <1>3, DistinctSize
<1>5. /\ From(waiting, i) = From(waiting, i') \cup {s}
      /\ s \notin From(waiting, i')
      /\ i' \in 1..N + 1
  BY <1>2, <1>3, <1>4, Passed
<1>6. /\ Splits(Range(assigned), Range(still), From(waiting, i), Range(prepared))
      /\ round < rounds /\ Distinct(still)
  BY <1>1, <1>2 DEF Progressive
<1>7. s \notin Range(assigned) /\ s \notin Range(still)
  BY <1>5, <1>6 DEF Splits
<1> HIDE DEF s
<1>8. /\ assigned' \in Seq(Files) /\ still' \in Seq(Files) /\ degraded' \in Seq(Files)
      /\ used' \in SUBSET Files
      /\ tierOf' \in [Files -> Nat] /\ rem' \in Int
      /\ \A f \in Files : tierOf'[f] <= Len(Tiers(f))
      /\ \A f \in Files : tierOf'[f] # 0 <=> f \in Range(assigned')
      /\ Range(assigned) \subseteq Range(assigned')
      /\ Distinct(still')
      /\ Splits(Range(assigned'), Range(still'), From(waiting, i'), Range(prepared))
      /\ \A f \in Range(assigned) : f \notin used' => tierOf'[f] = tierOf[f] /\ f \notin used
  <2>1. ASSUME NEW g \in Files, NEW t \in Nat \ {0}, Placed(s, g, t)
        PROVE  <1>8!:
    <3>1. /\ g \in Range(assigned)
          /\ tierOf[g] \in DOMAIN Tiers(g) /\ tierOf[g] + 1 \in DOMAIN Tiers(g)
          /\ t \in DOMAIN Tiers(s)
          /\ tierOf' = [tierOf EXCEPT ![g] = tierOf[g] + 1, ![s] = t]
          /\ rem' = rem + TierTokens(g, tierOf[g]) - TierTokens(g, tierOf[g] + 1) - TierTokens(s, t)
          /\ used' = used \cup {g} /\ degraded' = Append(degraded, g)
          /\ assigned' = Append(assigned, s) /\ still' = still
      BY <2>1 DEF Placed
    <3>2. /\ assigned' \in Seq(Files) /\ degraded' \in Seq(Files)
          /\ Range(assigned') = Range(assigned) \cup {s}
      BY <1>2, <1>3, <3>1, Added
    <3>3. /\ tierOf[g] + 1 <= Len(Tiers(g)) /\ t <= Len(Tiers(s))
          /\ tierOf[g] \in Nat
          /\ TierTokens(g, tierOf[g]) \in Nat /\ TierTokens(g, tierOf[g] + 1) \in Nat
          /\ TierTokens(s, t) \in Nat
      <4>1. /\ DOMAIN Tiers(g) = 1..Len(Tiers(g)) /\ DOMAIN Tiers(s) = 1..Len(Tiers(s))
            /\ \A u \in DOMAIN Tiers(g) : TierTokens(g, u) \in Nat
            /\ \A u \in DOMAIN Tiers(s) : TierTokens(s, u) \in Nat
        BY <1>1, <1>2, FileCosts
      <4>2. tierOf[g] \in Nat
        BY <1>3
      <4>. QED BY SMTT(30), <3>1, <4>1, <4>2
    <3>4. /\ tierOf' \in [Files -> Nat]
          /\ \A f \in Files : tierOf'[f] = IF f = s THEN t
                                           ELSE IF f = g THEN tierOf[g] + 1 ELSE tierOf[f]
      <4> DEFINE up == tierOf[g] + 1
      <4>1. up \in Nat
        BY <3>3
      <4> HIDE DEF up
      <4>2. tierOf' = [tierOf EXCEPT ![g] = up, ![s] = t]
        BY <3>1 DEF up
      <4>3. /\ tierOf' \in [Files -> Nat]
            /\ \A f \in Files : tierOf'[f] = IF f = s THEN t ELSE IF f = g THEN up ELSE tierOf[f]
        BY <1>2, <1>3, <4>1, <4>2
      <4>. QED BY <4>3 DEF up
    <3>5. Splits(Range(assigned'), Range(still'), From(waiting, i'), Range(prepared))
      BY <1>5, <1>6, <1>7, <3>1, <3>2 DEF Splits
    <3>6. \A f \in Files : tierOf'[f] <= Len(Tiers(f))
      BY <1>3, <3>3, <3>4
    <3>7. \A f \in Files : tierOf'[f] # 0 <=> f \in Range(assigned')
      <4>1. tierOf[g] + 1 # 0
        BY <3>3
      <4>. QED BY <1>3, <3>1, <3>2, <3>4, <4>1
    <3>8. \A f \in Range(assigned) : f \notin used' => tierOf'[f] = tierOf[f] /\ f \notin used
      <4>1. Range(assigned) \subseteq Files
        BY <1>3, PassEnds
      <4>. QED BY <1>7, <3>1, <3>4, <4>1
    <3>9. rem' \in Int
      BY <1>3, <3>1, <3>3
    <3>. QED BY <1>3, <1>6, <3>1, <3>2, <3>4, <3>5, <3>6, <3>7, <3>8, <3>9
  <2>2. ASSUME Refused(s) PROVE <1>8!:
    <3>1. /\ still' = Append(still, s)
          /\ tierOf' = tierOf /\ rem' = rem /\ used' = used
          /\ degraded' = degraded /\ assigned' = assigned
      BY <2>2 DEF Refused
    <3>2. /\ still' \in Seq(Files) /\ Distinct(still') /\ Range(still') = Range(still) \cup {s}
      BY <1>2, <1>3, <1>6, <1>7, <3>1, Added
    <3>3. Splits(Range(assigned'), Range(still'), From(waiting, i'), Range(prepared))
      BY <1>5, <1>6, <1>7, <3>1, <3>2 DEF Splits
    <3>. QED BY <1>3, <3>1, <3>2, <3>3
  <2>. QED BY <1>2, <2>1, <2>2
<1>9. Typed'
  BY <1>1, <1>2, <1>5, <1>8 DEF Typed, CallOK, Tiers, Content, Assigning
<1>10. Progressive'
  BY <1>2, <1>6, <1>8 DEF Progressive, Assigning
<1>11. Distinct(skipped') /\ Distinct(waiting')
  BY <1>1, <1>2 DEF Apart
<1>12. Accounts'
  BY <1>2, <1>8, <1>9, <1>10, <1>11, AssigningKeeps
<1>13. Credits'
  <2>1. \A f \in Files : Tiers(f)' = Tiers(f)
    BY <1>2 DEF Tiers, Content, Assigning
  <2>2. \A n \in DOMAIN degradable : degradable[n] \in Files
    BY <1>3
  <2>. QED BY <1>2, <1>8, <2>1, <2>2 DEF Credits
<1>. QED BY <1>12, <1>13

(* No other step comes to a round, or undoes what one relies on.           *)
LEMMA CreditsKept ==
    ASSUME Accounts, Credits, Next \/ UNCHANGED vars
    PROVE  Credits'
<1>1. CASE StartRound
  <2>1. /\ assigned' = assigned /\ tierOf' = tierOf /\ snapshot' = tierOf
        /\ files' = files
    BY <1>1 DEF StartRound, call
  <2>2. \A n \in DOMAIN degradable' :
          /\ degradable'[n] \in Range(assigned)
          /\ tierOf[degradable'[n]] < Len(Tiers(degradable'[n]))
    BY <1>1, StartKeeps
  <2>3. \A f : Tiers(f)' = Tiers(f)
    BY <2>1 DEF Tiers, Content
  <2>. QED BY <2>1, <2>2, <2>3 DEF Credits
<1>2. CASE Place
  BY <1>2, PlaceKeeps
<1>3. CASE UNCHANGED vars
  <2>1. /\ pc' = pc /\ degradable' = degradable /\ assigned' = assigned /\ snapshot' = snapshot
        /\ used' = used /\ tierOf' = tierOf /\ files' = files
    BY <1>3 DEF vars, call, prog
  <2>. QED BY <2>1 DEF Credits, Tiers, Content
<1>4. CASE ~(StartRound \/ Place \/ UNCHANGED vars)
  <2>1. ASSUME NEW f \in Files,
               \/ Greedy(f) \/ Adaptive(f) \/ TieredWhole(f) \/ TieredRest(f)
               \/ Assign(f) \/ Finalize(f)
        PROVE  pc' # "place"
    BY <2>1 DEF Greedy, Adaptive, TieredWhole, TieredRest, Assign, Finalize, Visit
  <2>2. ASSUME Prepare PROVE pc' # "place"
    BY <2>2 DEF Prepare
  <2>3. ASSUME Dispatch PROVE pc' # "place"
    BY <2>3 DEF Dispatch, FirstPhase, Accounts, Typed, CallOK
  <2>4. ASSUME TieredPassOver \/ OnePassOver \/ AssignOver \/ FinalizeOver PROVE pc' # "place"
    BY <2>4 DEF TieredPassOver, OnePassOver, AssignOver, FinalizeOver, LoopEnds
  <2>5. ASSUME EndRound \/ RoundsOver \/ Clamp \/ ClampOver PROVE pc' # "place"
    BY <2>5 DEF EndRound, RoundsOver, Clamp, ClampOver
  <2>6. pc' # "place"
    BY <1>4, <2>1, <2>2, <2>3, <2>4, <2>5 DEF Next, Done
  <2>. QED BY <2>6 DEF Credits
<1>. QED BY <1>1, <1>2, <1>3, <1>4

(* Every step keeps account of the files.                                  *)
LEMMA AccountsKept ==
    ASSUME Accounts, Credits, Next \/ UNCHANGED vars
    PROVE  Accounts'
<1>1. CASE Prepare \/ Dispatch \/ TieredPassOver \/ AssignOver \/ FinalizeOver
  BY <1>1, PrepareKeeps, DispatchKeeps, PassKeeps
<1>2. ASSUME NEW f \in Files,
             Greedy(f) \/ Adaptive(f) \/ TieredWhole(f) \/ TieredRest(f) \/ Finalize(f)
      PROVE  Accounts'
  BY <1>2, VisitKeeps
<1>3. ASSUME NEW f \in Files, Assign(f) PROVE Accounts'
  BY <1>3, AssignKeeps
<1>4. CASE OnePassOver \/ ClampOver \/ Clamp
  BY <1>4, SortKeeps, ClampKeeps
<1>5. CASE StartRound \/ EndRound \/ RoundsOver \/ Place
  BY <1>5, StartKeeps, EndKeeps, PlaceKeeps
<1>6. CASE Done \/ UNCHANGED vars
  BY <1>6, AccountsStutter DEF Done
<1>. QED BY <1>1, <1>2, <1>3, <1>4, <1>5, <1>6 DEF Next

----------------------------------------------------------------------------
(* The budget of the progressive packer                                    *)

(* What the assigned tiers cost.                                           *)
AssignedTokens == SumFunction([f \in Range(assigned) |-> TierTokens(f, tierOf[f])])

(* Nothing is spent before the files are assigned; then what remains and   *)
(* what the assigned tiers cost make up the budget.                        *)
Conserved ==
    /\ pc = "prepare" => rem = max
    /\ BudgetConserved

(* The assigned tiers cost numbers of tokens.                              *)
LEMMA AssignedCosts ==
    ASSUME Accounts
    PROVE  /\ assigned \in Seq(Files) /\ Range(assigned) \subseteq Files
           /\ IsFiniteSet(Range(assigned))
           /\ \A f \in Range(assigned) : /\ tierOf[f] \in DOMAIN Tiers(f)
                                         /\ TierTokens(f, tierOf[f]) \in Nat
           /\ AssignedTokens \in Nat
<1>1. /\ CallOK /\ assigned \in Seq(Files) /\ tierOf \in [Files -> Nat] /\ N \in Nat
      /\ \A f \in Files : tierOf[f] <= Len(Tiers(f))
      /\ \A f \in Files : tierOf[f] # 0 <=> f \in Range(assigned)
  BY PackerConstants DEF Accounts, Typed, Apart
<1>2. Range(assigned) \subseteq Files
  BY <1>1, PassEnds
<1>3. IsFiniteSet(Range(assigned))
  <2>1. IsFiniteSet(Files)
    BY <1>1, FS_Interval DEF Files
  <2>. QED BY <1>2, <2>1, FS_Subset
<1>4. ASSUME NEW f \in Range(assigned)
      PROVE  tierOf[f] \in DOMAIN Tiers(f) /\ TierTokens(f, tierOf[f]) \in Nat
  <2>1. /\ f \in Files /\ tierOf[f] \in Nat /\ tierOf[f] # 0 /\ tierOf[f] <= Len(Tiers(f))
    BY <1>1, <1>2
  <2>2. tierOf[f] \in DOMAIN Tiers(f)
    BY <1>1, <2>1, FileCosts
  <2>. QED BY <1>1, <2>1, <2>2, FileCosts
<1>5. AssignedTokens \in Nat
  <2> DEFINE cost == [f \in Range(assigned) |-> TierTokens(f, tierOf[f])]
  <2>1. DOMAIN cost = Range(assigned) /\ \A f \in Range(assigned) : cost[f] \in Nat
    BY <1>4
  <2> HIDE DEF cost
  <2>2. SumFunctionOnSet(cost, Range(assigned)) \in Nat
    BY <1>3, <2>1, SumNat
  <2>. QED BY <2>1, <2>2 DEF AssignedTokens, SumFunction, cost
<1>. QED BY <1>1, <1>2, <1>3, <1>4, <1>5

(* A file that is assigned costs the tokens of its tier.                   *)
LEMMA AssignSpends ==
    ASSUME Accounts, Conserved, NEW f \in Files, Assign(f)
    PROVE  Conserved'
<1>1. Accounts' /\ Typed /\ CallOK
  BY AssignKeeps DEF Accounts, Typed
<1>2. /\ pc = "assign" /\ pc' = pc /\ mode' = mode /\ max' = max /\ files' = files
      /\ f = prepared[i] /\ i <= Len(prepared)
  BY DEF Assign, Visit, call
<1>3. rem \in Int /\ tierOf \in [Files -> Nat]
  BY <1>1 DEF Typed
<1>4. mode = "progressive"
  BY <1>2 DEF Accounts, Dispatched
<1>5. rem >= 0 /\ rem + AssignedTokens = max
  BY <1>2, <1>4 DEF Conserved, BudgetConserved, AssignedTokens
<1> DEFINE t == Min(Affordable(f, rem))
<1>6. CASE /\ Affordable(f, rem) # {}
           /\ tierOf' = [tierOf EXCEPT ![f] = t] /\ rem' = rem - TierTokens(f, t)
           /\ assigned' = Append(assigned, f)
  <2>1. t \in Nat \ {0} /\ TierTokens(f, t) \in Nat /\ TierTokens(f, t) <= rem
    BY <1>1, <1>3, <1>6, FirstAffordable
  <2>2. /\ assigned \in Seq(Files) /\ Range(assigned) \subseteq Files
        /\ IsFiniteSet(Range(assigned))
        /\ \A g \in Range(assigned) : TierTokens(g, tierOf[g]) \in Nat
        /\ AssignedTokens \in Nat
    BY AssignedCosts
  <2>3. Range(assigned') = Range(assigned) \cup {f}
    BY <1>6, <2>2, Added
  <2>4. f \notin Range(assigned)
    <3>1. /\ Splits(Range(assigned), Range(waiting), From(prepared, i), Range(prepared))
          /\ prepared \in Seq(Files) /\ i \in 1..N + 1 /\ N \in Nat
      BY <1>2, PackerConstants DEF Accounts, Progressive, Typed
    <3>2. i \in 1..Len(prepared)
      BY <1>2, <3>1
    <3>3. f \in From(prepared, i)
      BY <1>2, <3>1, <3>2, Passed
    <3>. QED BY <3>1, <3>3 DEF Splits
  <2> DEFINE cost == [g \in Range(assigned) |-> TierTokens(g, tierOf[g])]
             next == [g \in Range(assigned) \cup {f} |-> TierTokens(g, tierOf'[g])]
  <2> HIDE DEF t
  <2>5. /\ DOMAIN cost = Range(assigned) /\ DOMAIN next = Range(assigned) \cup {f}
        /\ \A g \in DOMAIN cost : next[g] = cost[g] /\ next[g] \in Nat
        /\ next[f] = TierTokens(f, t)
    BY <1>3, <1>6, <2>1, <2>2, <2>4
  <2>6. AssignedTokens' = SumFunction(next)
    BY <1>2, <2>3 DEF AssignedTokens, TierTokens, Tiers, Content
  <2> HIDE DEF cost, next
  <2>7. SumFunction(next) = SumFunction(cost) + next[f]
    BY <2>1, <2>2, <2>4, <2>5, SumExtend
  <2>8. rem' >= 0 /\ rem' + AssignedTokens' = max
    BY <1>3, <1>5, <1>6, <2>1, <2>2, <2>5, <2>6, <2>7 DEF cost, AssignedTokens
  <2>. QED BY <1>2, <2>8 DEF Conserved, BudgetConserved, AssignedTokens
<1>7. CASE tierOf' = tierOf /\ rem' = rem /\ assigned' = assigned
  <2>1. AssignedTokens' = AssignedTokens
    BY <1>2, <1>7 DEF AssignedTokens, TierTokens, Tiers, Content
  <2>. QED BY <1>2, <1>5, <1>7, <2>1 DEF Conserved, BudgetConserved, AssignedTokens
<1>8. \/ /\ Affordable(f, rem) # {}
         /\ tierOf' = [tierOf EXCEPT ![f] = t] /\ rem' = rem - TierTokens(f, t)
         /\ assigned' = Append(assigned, f)
      \/ tierOf' = tierOf /\ rem' = rem /\ assigned' = assigned
  BY DEF Assign
<1>. QED BY <1>6, <1>7, <1>8

(* A file that is placed costs what its helper gives back and what was     *)
(* left.                                                                   *)
LEMMA PlaceSpends ==
    ASSUME Accounts, Credits, Conserved, Place
    PROVE  Conserved'
<1> DEFINE s == waiting[i]
<1>1. Typed /\ CallOK /\ rem \in Int /\ tierOf \in [Files -> Nat]
  BY DEF Accounts, Typed
<1>2. /\ Assigning /\ pc = "place" /\ pc' = pc /\ s \in Files
      /\ \/ \E g \in Files, t \in Nat \ {0} : Placed(s, g, t)
         \/ Refused(s)
  BY PlaceEffect
<1>3. mode = "progressive" /\ mode' = mode /\ max' = max /\ files' = files
  BY <1>2 DEF Accounts, Dispatched, Assigning
<1>4. rem >= 0 /\ rem + AssignedTokens = max
  BY <1>2, <1>3 DEF Conserved, BudgetConserved, AssignedTokens
<1> HIDE DEF s
<1>5. ASSUME NEW g \in Files, NEW t \in Nat \ {0}, Placed(s, g, t)
      PROVE  Conserved'
  <2>1. /\ assigned \in Seq(Files) /\ Range(assigned) \subseteq Files
        /\ IsFiniteSet(Range(assigned))
        /\ \A f \in Range(assigned) : TierTokens(f, tierOf[f]) \in Nat
        /\ AssignedTokens \in Nat
    BY AssignedCosts
  <2> DEFINE A == Range(assigned)
             up == tierOf[g] + 1
             cost == [f \in A |-> TierTokens(f, tierOf[f])]
             degr == [f \in A |-> IF f = g THEN TierTokens(g, up) ELSE TierTokens(f, tierOf[f])]
             next == [f \in A \cup {s} |-> IF f = s THEN TierTokens(s, t) ELSE degr[f]]
  <2>2. /\ g \in A /\ s \notin A /\ tierOf[g] \in DOMAIN Tiers(g) /\ up \in DOMAIN Tiers(g)
        /\ t \in DOMAIN Tiers(s)
        /\ tierOf' = [tierOf EXCEPT ![g] = up, ![s] = t]
        /\ rem' = rem + TierTokens(g, tierOf[g]) - TierTokens(g, up) - TierTokens(s, t)
        /\ rem' >= 0
        /\ assigned' = Append(assigned, s)
    BY <1>5 DEF Placed
  <2>3. /\ TierTokens(g, tierOf[g]) \in Nat /\ TierTokens(g, up) \in Nat
        /\ TierTokens(s, t) \in Nat
    BY <1>1, <1>2, <2>2, FileCosts
  <2>4. Range(assigned') = A \cup {s}
    BY <1>2, <2>1, <2>2, Added
  <2> HIDE DEF up
  <2>5. \A f \in A \cup {s} : tierOf'[f] = IF f = s THEN t ELSE IF f = g THEN up ELSE tierOf[f]
    BY <1>1, <1>2, <2>1, <2>2
  <2>6. next = [f \in A \cup {s} |-> TierTokens(f, tierOf'[f])]
    BY <2>2, <2>5
  <2>7. AssignedTokens' = SumFunction(next)
    <3>1. AssignedTokens' = SumFunction([f \in A \cup {s} |-> TierTokens(f, tierOf'[f])])
      BY <1>3, <2>4 DEF AssignedTokens, TierTokens, Tiers, Content
    <3> HIDE DEF next
    <3>. QED BY <2>6, <3>1
  <2>8. /\ DOMAIN cost = A /\ DOMAIN degr = A /\ DOMAIN next = A \cup {s}
        /\ \A f \in A : cost[f] \in Nat /\ degr[f] \in Nat
        /\ \A f \in A \ {g} : cost[f] = degr[f]
        /\ \A f \in DOMAIN degr : next[f] = degr[f]
        /\ \A f \in DOMAIN next : next[f] \in Nat
        /\ cost[g] = TierTokens(g, tierOf[g]) /\ degr[g] = TierTokens(g, up)
        /\ next[s] = TierTokens(s, t)
    BY <2>1, <2>2, <2>3
  <2> HIDE DEF cost, degr, next
  <2>9. SumFunctionOnSet(degr, A) = SumFunctionOnSet(cost, A) - cost[g] + degr[g]
    <3> HIDE DEF A
    <3>1. IsFiniteSet(A)
      BY <2>1 DEF A
    <3>. QED BY SMTT(30), <2>2, <2>8, <3>1, SumChanged
  <2>10. SumFunction(next) = SumFunction(degr) + next[s]
    <3> HIDE DEF A
    <3>1. IsFiniteSet(A)
      BY <2>1 DEF A
    <3>. QED BY <2>2, <2>8, <3>1, SumExtend
  <2>11. AssignedTokens = SumFunctionOnSet(cost, A) /\ SumFunction(degr) = SumFunctionOnSet(degr, A)
    <3>1. AssignedTokens = SumFunction(cost)
      BY DEF AssignedTokens, cost
    <3>. QED BY <2>8, <3>1 DEF SumFunction
  <2>12. rem' >= 0 /\ rem' + AssignedTokens' = max
    BY SMTT(30), <1>1, <1>4, <2>1, <2>2, <2>3, <2>7, <2>8, <2>9, <2>10, <2>11
  <2>. QED BY <1>2, <1>3, <2>12 DEF Conserved, BudgetConserved, AssignedTokens
<1>6. CASE Refused(s)
  <2>1. rem' = rem /\ tierOf' = tierOf /\ assigned' = assigned
    BY <1>6 DEF Refused
  <2>2. AssignedTokens' = AssignedTokens
    BY <1>3, <2>1 DEF AssignedTokens, TierTokens, Tiers, Content
  <2>. QED BY <1>2, <1>3, <1>4, <2>1, <2>2 DEF Conserved, BudgetConserved, AssignedTokens
<1>. QED BY <1>2, <1>5, <1>6

(* Every other step leaves alone what is assigned.                         *)
LEMMA ConservedKept ==
    ASSUME Accounts, Credits, Conserved, Next \/ UNCHANGED vars
    PROVE  Conserved'
<1>1. ASSUME NEW f \in Files, Assign(f) PROVE Conserved'
  BY <1>1, AssignSpends
<1>2. CASE Place
  BY <1>2, PlaceSpends
<1>3. CASE Dispatch
  <2>1. /\ pc = "prepare" /\ pc' = FirstPhase /\ mode' = mode /\ max' = max
        /\ rem' = rem /\ assigned' = assigned
    BY <1>3 DEF Dispatch, call, prog
  <2>2. pc' # "prepare"
    BY <2>1 DEF FirstPhase, Accounts, Typed, CallOK
  <2>3. assigned = <<>> /\ rem = max /\ max \in Nat
    BY <2>1 DEF Accounts, Preparing, Conserved, Typed, CallOK
  <2>4. SumFunction([f \in Range(assigned') |-> TierTokens(f, tierOf[f])']) = 0
    <3>1. Range(assigned') = {}
      BY <2>1, <2>3 DEF Range
    <3> DEFINE cost == [f \in Range(assigned') |-> TierTokens(f, tierOf[f])']
    <3>2. DOMAIN cost = {}
      BY <3>1
    <3> HIDE DEF cost
    <3>3. SumFunction(cost) = 0
      BY <3>2, SumEmpty DEF SumFunction
    <3>. QED BY <3>3 DEF cost
  <2>. QED BY <2>1, <2>2, <2>3, <2>4 DEF Conserved, BudgetConserved
<1>4. ASSUME mode' = mode, max' = max, files' = files, rem' = rem, tierOf' = tierOf,
             assigned' = assigned, pc' = "prepare" => pc = "prepare",
             pc' \in {"assign", "round", "place"} => pc \in {"assign", "round", "place"}
      PROVE  Conserved'
  <2>1. AssignedTokens' = AssignedTokens
    BY <1>4 DEF AssignedTokens, TierTokens, Tiers, Content
  <2>. QED BY <1>4, <2>1 DEF Conserved, BudgetConserved, AssignedTokens
<1>5. CASE Prepare \/ TieredPassOver \/ AssignOver \/ FinalizeOver \/ OnePassOver
  <2>1. /\ mode' = mode /\ max' = max /\ files' = files /\ rem' = rem /\ tierOf' = tierOf
        /\ assigned' = assigned
        /\ pc' = "prepare" => pc = "prepare"
        /\ pc' \in {"assign", "round", "place"} => pc \in {"assign", "round", "place"}
    BY <1>5 DEF Prepare, TieredPassOver, AssignOver, FinalizeOver, OnePassOver, LoopEnds,
                call, prog
  <2>. QED BY <1>4, <2>1
<1>6. ASSUME NEW f \in Files,
             Greedy(f) \/ Adaptive(f) \/ TieredWhole(f) \/ TieredRest(f) \/ Finalize(f)
      PROVE  Conserved'
  <2>1. Typed /\ total \in Nat
    BY EntriesCost DEF Accounts, Typed, Spending
  <2>2. Visited(f)
    BY <1>6, <2>1, VisitEffect
  <2>. QED BY <1>4, <2>2 DEF Visited
<1>7. CASE StartRound \/ EndRound \/ RoundsOver \/ Clamp \/ ClampOver
  <2>1. /\ mode' = mode /\ max' = max /\ files' = files /\ rem' = rem /\ tierOf' = tierOf
        /\ assigned' = assigned
        /\ pc' = "prepare" => pc = "prepare"
        /\ pc' \in {"assign", "round", "place"} => pc \in {"assign", "round", "place"}
    BY <1>7 DEF StartRound, EndRound, RoundsOver, Clamp, ClampOver, call, prog
  <2>. QED BY <1>4, <2>1
<1>8. CASE Done \/ UNCHANGED vars
  BY <1>4, <1>8 DEF Done, vars, call, prog
<1>. QED BY <1>1, <1>2, <1>3, <1>5, <1>6, <1>7, <1>8 DEF Next

----------------------------------------------------------------------------
(* The adaptive packer of a repository that fits                           *)

(* What the prepared files cost as they are, and that they all fit.        *)
RawTokens == [f \in Range(prepared) |-> Raw(f)]
Roomy == mode = "adaptive" /\ SumFunction(RawTokens) <= max

(* While everything fits, what was visited is included, whole.             *)
AllWhole ==
    Roomy =>
        /\ pc \in {"adaptive", "done"} => \A k \in DOMAIN entries : entries[k].whole
        /\ pc = "adaptive" =>
             /\ i <= Len(prepared) + 1
             /\ Names(entries) = Before(prepared, i)
             /\ total = SumFunctionOnSet(RawTokens, Before(prepared, i))
        /\ pc = "done" => Names(entries) = Range(prepared)

(* The next file fits as well, so it is delivered whole.                   *)
LEMMA AdaptiveWhole ==
    ASSUME Accounts, AllWhole, NEW f \in Files, Adaptive(f), Roomy
    PROVE  AllWhole'
<1>1. /\ Typed /\ CallOK /\ prepared \in Seq(Files) /\ Distinct(prepared)
      /\ entries \in Seq(EntryType) /\ i \in 1..N + 1 /\ N \in Nat /\ max \in Nat
      /\ total = SumTokens(entries)
  BY PackerConstants DEF Accounts, Typed, Apart, Spending, CallOK
<1>2. /\ pc = "adaptive" /\ pc' = pc /\ i <= Len(prepared) /\ f = prepared[i] /\ i' = i + 1
      /\ mode' = mode /\ max' = max /\ files' = files /\ prepared' = prepared
      /\ (Fits(WholeEntry(f)) /\ DeliverWhole(f)) \/ ~Fits(WholeEntry(f))
  BY DEF Adaptive, Visit, call, prep
<1>3. i \in 1..Len(prepared)
  BY <1>1, <1>2
<1>4. /\ Before(prepared, i + 1) = Before(prepared, i) \cup {f}
      /\ f \notin Before(prepared, i) /\ f \in Range(prepared)
  BY <1>1, <1>2, <1>3, Passed
<1>5. /\ Names(entries) = Before(prepared, i)
      /\ total = SumFunctionOnSet(RawTokens, Before(prepared, i))
      /\ \A k \in DOMAIN entries : entries[k].whole
  BY <1>2 DEF AllWhole
<1>6. /\ DOMAIN RawTokens = Range(prepared)
      /\ \A g \in Range(prepared) : RawTokens[g] \in Nat /\ RawTokens[g] = Raw(g)
      /\ IsFiniteSet(Range(prepared)) /\ Before(prepared, i + 1) \in SUBSET Range(prepared)
  <2>1. Range(prepared) \subseteq Files
    BY <1>1, PassEnds
  <2>2. \A g \in Range(prepared) : RawTokens[g] \in Nat /\ RawTokens[g] = Raw(g)
    BY <1>1, <2>1, FileCosts DEF RawTokens
  <2>3. Before(prepared, i + 1) \in SUBSET Range(prepared)
    BY <1>1, <1>3 DEF Before, Range
  <2>. QED BY <1>1, <2>2, <2>3, DistinctSize DEF RawTokens
<1>7. SumFunctionOnSet(RawTokens, Before(prepared, i + 1)) = Raw(f) + total
  <2> DEFINE B == Before(prepared, i + 1)
  <2>1. f \in B /\ B \ {f} = Before(prepared, i) /\ \A g \in B : RawTokens[g] \in Nat
    BY <1>4, <1>6
  <2>2. IsFiniteSet(B)
    BY <1>6, FS_Subset
  <2> HIDE DEF B
  <2>3. SumFunctionOnSet(RawTokens, B) = RawTokens[f] + SumFunctionOnSet(RawTokens, B \ {f})
    BY <2>1, <2>2, SumRemove
  <2>. QED BY <1>4, <1>5, <1>6, <2>1, <2>3 DEF B
<1>8. SumFunctionOnSet(RawTokens, Before(prepared, i + 1)) <= max
  <2>1. SumFunctionOnSet(RawTokens, Before(prepared, i + 1))
          <= SumFunctionOnSet(RawTokens, Range(prepared))
    BY <1>6, SumPart
  <2>2. SumFunctionOnSet(RawTokens, Range(prepared)) <= max
    BY <1>6 DEF Roomy, SumFunction
  <2>3. /\ SumFunctionOnSet(RawTokens, Range(prepared)) \in Nat
        /\ SumFunctionOnSet(RawTokens, Before(prepared, i + 1)) \in Nat
    <3>1. SumFunctionOnSet(RawTokens, Range(prepared)) \in Nat
      BY <1>6, SumNat
    <3>2. Raw(f) \in Nat /\ total \in Nat
      BY <1>1, FileCosts, EntriesCost
    <3>. QED BY <1>7, <3>1, <3>2
  <2>. QED BY <1>1, <2>1, <2>2, <2>3
<1> DEFINE e == WholeEntry(f)
<1>9. e \in EntryType /\ e.file = f /\ e.whole = TRUE /\ e.tokens = Raw(f)
  BY <1>1, WholeMade
<1>10. Deliver(e)
  <2>1. total \in Nat /\ Raw(f) \in Nat
    BY <1>1, EntriesCost, FileCosts
  <2>2. Fits(e)
    <3> HIDE DEF e
    <3>. QED BY <1>7, <1>8, <1>9, <2>1 DEF Fits
  <2>. QED BY <1>2, <2>2 DEF DeliverWhole
<1> HIDE DEF e
<1>11. /\ entries' = Append(entries, e) /\ total' = total + Raw(f)
       /\ Names(entries') = Names(entries) \cup {f}
       /\ \A k \in DOMAIN entries' : entries'[k] \in Range(entries) \cup {e}
  BY <1>1, <1>9, <1>10, EntryAdded DEF Deliver
<1>12. \A k \in DOMAIN entries' : entries'[k].whole
  <2>1. \A x \in Range(entries) : x.whole
    BY <1>5 DEF Range
  <2>. QED BY <1>9, <1>11, <2>1
<1>13. RawTokens' = RawTokens
  BY <1>2 DEF RawTokens, Raw, Content
<1>14. total' = SumFunctionOnSet(RawTokens', Before(prepared', i'))
  <2>1. total \in Nat /\ Raw(f) \in Nat
    BY <1>1, EntriesCost, FileCosts
  <2>. QED BY <1>2, <1>7, <1>11, <1>13, <2>1
<1>15. Names(entries') = Before(prepared', i') /\ i' <= Len(prepared') + 1
  BY <1>1, <1>2, <1>3, <1>4, <1>5, <1>11
<1>. QED BY <1>2, <1>12, <1>14, <1>15 DEF AllWhole

(* No step of the adaptive packer leaves out a file of a repository that   *)
(* fits, and the other packers do not run.                                 *)
LEMMA AllWholeKept ==
    ASSUME Accounts, AllWhole, Next \/ UNCHANGED vars
    PROVE  AllWhole'
<1>1. /\ Typed /\ CallOK /\ prepared \in Seq(Files) /\ entries \in Seq(EntryType)
      /\ i \in 1..N + 1 /\ N \in Nat /\ OneEach(entries) /\ total = SumTokens(entries)
  BY PackerConstants DEF Accounts, Typed, Apart, Spending
<1>2. ASSUME mode' # "adaptive" PROVE AllWhole'
  BY <1>2 DEF AllWhole, Roomy
<1>3. ASSUME pc' \notin {"adaptive", "done"} PROVE AllWhole'
  BY <1>3 DEF AllWhole
<1>4. ASSUME NEW f \in Files, Adaptive(f) PROVE AllWhole'
  <2>1. mode' = mode /\ max' = max /\ files' = files /\ prepared' = prepared
    BY <1>4 DEF Adaptive, Visit, call, prep
  <2>2. Roomy' => Roomy
    BY <2>1 DEF Roomy, RawTokens, Raw, Content
  <2>. QED BY <1>4, <2>2, AdaptiveWhole DEF AllWhole
<1>5. CASE Dispatch /\ mode = "adaptive"
  <2>1. /\ pc' = "adaptive" /\ i' = 1 /\ entries = <<>> /\ entries' = <<>>
        /\ prepared' = prepared /\ total' = total
    BY <1>5 DEF Dispatch, FirstPhase, prep, out, Accounts, Preparing
  <2>2. Before(prepared', 1) = {} /\ Names(entries') = {} /\ total' = 0
    BY <1>1, <2>1, NoEntries, PassEnds
  <2>3. SumFunctionOnSet(RawTokens', {}) = 0
    BY SumEmpty
  <2>4. Len(prepared') \in Nat /\ DOMAIN entries' = {}
    <3>1. Len(prepared') \in Nat
      BY <1>1, <2>1
    <3>2. DOMAIN entries' = {}
      <4>1. Len(<<>>) = 0 /\ DOMAIN <<>> = 1..0
        OBVIOUS
      <4>. QED BY <2>1, <4>1
    <3>. QED BY <3>1, <3>2
  <2>5. /\ Names(entries') = Before(prepared', i')
        /\ total' = SumFunctionOnSet(RawTokens', Before(prepared', i'))
    BY Zenon, <2>1, <2>2, <2>3
  <2>6. i' <= Len(prepared') + 1 /\ pc' # "done"
    BY <2>1, <2>4
  <2>. QED BY <2>4, <2>5, <2>6 DEF AllWhole
<1>6. CASE OnePassOver /\ mode = "adaptive"
  <2>1. /\ pc = "adaptive" /\ i > Len(prepared) /\ pc' = "done"
        /\ mode' = mode /\ max' = max /\ files' = files /\ prepared' = prepared
        /\ entries' = InPreparedOrder(entries)
    BY <1>6 DEF OnePassOver, LoopEnds, call, prep, Accounts, Dispatched
  <2>2. /\ Names(entries') = Names(entries)
        /\ entries' \in Seq(EntryType)
        /\ Range(entries') \subseteq Range(entries)
    BY <1>1, <2>1, EntriesOrdered
  <2>3. SUFFICES ASSUME Roomy'
                 PROVE  /\ \A k \in DOMAIN entries' : entries'[k].whole
                        /\ Names(entries') = Range(prepared')
    BY <2>1 DEF AllWhole
  <2>4. Roomy
    BY <2>1, <2>3 DEF Roomy, RawTokens, Raw, Content
  <2>5. /\ i <= Len(prepared) + 1
        /\ Names(entries) = Before(prepared, i)
        /\ \A k \in DOMAIN entries : entries[k].whole
    BY <2>1, <2>4 DEF AllWhole
  <2>6. Names(entries) = Range(prepared)
    <3>1. i = Len(prepared) + 1
      BY <1>1, <2>1, <2>5
    <3>. QED BY <1>1, <2>5, <3>1, PassEnds
  <2>7. \A x \in Range(entries) : x.whole
    BY <2>5 DEF Range
  <2>8. \A k \in DOMAIN entries' : entries'[k] \in Range(entries)
    BY <2>2 DEF Range
  <2>. QED BY <2>1, <2>2, <2>6, <2>7, <2>8
<1>7. CASE Done \/ UNCHANGED vars
  <2>1. /\ pc' = pc /\ i' = i /\ entries' = entries /\ prepared' = prepared /\ total' = total
        /\ mode' = mode /\ max' = max /\ files' = files
    BY <1>7 DEF Done, vars, call, prep, out
  <2>2. RawTokens' = RawTokens
    BY <2>1 DEF RawTokens, Raw, Content
  <2>. QED BY <2>1, <2>2 DEF AllWhole, Roomy
<1>8. CASE Prepare \/ TieredPassOver \/ AssignOver \/ FinalizeOver \/ StartRound \/ Place
           \/ EndRound \/ RoundsOver \/ Clamp
  <2>1. pc' \notin {"adaptive", "done"}
    BY <1>8 DEF Prepare, TieredPassOver, AssignOver, FinalizeOver, LoopEnds, StartRound,
                Place, EndRound, RoundsOver, Clamp
  <2>. QED BY <1>3, <2>1
<1>9. ASSUME NEW f \in Files,
             Greedy(f) \/ TieredWhole(f) \/ TieredRest(f) \/ Assign(f) \/ Finalize(f)
      PROVE  AllWhole'
  <2>1. pc' \notin {"adaptive", "done"}
    BY <1>9 DEF Greedy, TieredWhole, TieredRest, Assign, Finalize, Visit
  <2>. QED BY <1>3, <2>1
<1>10. CASE (Dispatch \/ OnePassOver) /\ mode # "adaptive"
  BY <1>2, <1>10 DEF Dispatch, OnePassOver, LoopEnds, call
<1>11. CASE ClampOver
  <2>1. mode' # "adaptive"
    BY <1>11 DEF ClampOver, call, Accounts, Dispatched
  <2>. QED BY <1>2, <2>1
<1>. QED BY <1>4, <1>5, <1>6, <1>7, <1>8, <1>9, <1>10, <1>11 DEF Next

(* The files that are included are the files of the entries.               *)
LEMMA IncludedNames ==
    ASSUME entries \in Seq(EntryType)
    PROVE  /\ Included \in Seq(Files)
           /\ Range(Included) = Names(entries)
           /\ OneEach(entries) => Distinct(Included)
<1>1. /\ DOMAIN entries = 1..Len(entries) /\ Len(entries) \in Nat
      /\ \A k \in DOMAIN entries : entries[k].file \in Files
  BY EntryFields
<1>2. DOMAIN Included = DOMAIN entries /\ \A k \in DOMAIN entries : Included[k] = entries[k].file
  BY DEF Included
<1>3. Included \in Seq(Files)
  BY <1>1 DEF Included
<1>4. Range(Included) = Names(entries)
  BY <1>2 DEF Range, Names
<1>5. ASSUME OneEach(entries) PROVE Distinct(Included)
  BY <1>2, <1>5 DEF Distinct, OneEach
<1>. QED BY <1>3, <1>4, <1>5

----------------------------------------------------------------------------
(* The invariant and what follows from it                                  *)

(* The inductive invariant.                                                *)
PackerInv == Accounts /\ Credits /\ Conserved /\ AllWhole

(* It holds before the first file is prepared.                             *)
LEMMA PackerInvInit == Init => PackerInv
<1> SUFFICES ASSUME Init PROVE PackerInv
  OBVIOUS
<1>1. Accounts
  BY AccountsInit
<1>2. pc = "prepare" /\ rem = max
  BY DEF Init
<1>3. Credits /\ Conserved /\ AllWhole
  BY <1>2 DEF Credits, Conserved, BudgetConserved, AllWhole
<1>. QED BY <1>1, <1>3 DEF PackerInv

(* Every step keeps it.                                                    *)
LEMMA PackerInvNext == PackerInv /\ [Next]_vars => PackerInv'
<1> SUFFICES ASSUME PackerInv, Next \/ UNCHANGED vars PROVE PackerInv'
  OBVIOUS
<1>1. Accounts /\ Credits /\ Conserved /\ AllWhole
  BY DEF PackerInv
<1>2. Accounts' /\ Credits' /\ Conserved' /\ AllWhole'
  BY <1>1, AccountsKept, CreditsKept, ConservedKept, AllWholeKept
<1>. QED BY <1>2 DEF PackerInv

(* So it holds always.                                                     *)
LEMMA PackerAccounts == Spec => []PackerInv
<1>1. Init => PackerInv
  BY PackerInvInit
<1>2. PackerInv /\ [Next]_vars => PackerInv'
  BY PackerInvNext
<1>. QED BY <1>1, <1>2, PTL DEF Spec

(* The state of the packer keeps its types: in every phase the lists hold  *)
(* ranked files, every file has a tier that it has, and the total is a     *)
(* number of tokens.                                                       *)
THEOREM PackerTyped == Spec => []TypeOK
<1>1. PackerInv => TypeOK
  <2> SUFFICES ASSUME PackerInv PROVE TypeOK
    OBVIOUS
  <2>1. Typed /\ CallOK /\ total = SumTokens(entries)
    BY DEF PackerInv, Accounts, Spending, Typed
  <2>2. \A s \in {prepared, skipped, assigned, waiting, degradable, still, degraded} :
           Range(s) \subseteq Files
    BY <2>1, PassEnds DEF Typed
  <2>3. Range(entries) \subseteq EntryType
    BY <2>1, EntryFields DEF Typed, Range
  <2>4. total \in Nat
    BY <2>1, EntriesCost DEF Typed
  <2>5. \A f \in Files : {tierOf[f], snapshot[f]} \subseteq 0..Len(Tiers(f))
    <3> SUFFICES ASSUME NEW f \in Files
                 PROVE  {tierOf[f], snapshot[f]} \subseteq 0..Len(Tiers(f))
      OBVIOUS
    <3>1. /\ tierOf[f] \in Nat /\ snapshot[f] \in Nat
          /\ tierOf[f] <= Len(Tiers(f)) /\ snapshot[f] <= Len(Tiers(f))
      BY <2>1 DEF Typed
    <3>. QED BY <2>1, <3>1, FileCosts
  <2>6. /\ pc \in Phases /\ i \in 1..N + 1 /\ hashes \subseteq Contents
        /\ seen \subseteq Imports /\ rem \in Int /\ round \in 0..rounds
        /\ used \subseteq Files
    BY <2>1 DEF Typed
  <2>. QED BY Zenon, <2>2, <2>3, <2>4, <2>5, <2>6 DEF TypeOK, EntryType
<1>. QED BY <1>1, PackerAccounts, PTL

(* Whatever packer runs and however far re-estimates drift, what is        *)
(* delivered fits max_tokens, and the reported total is what it costs.     *)
THEOREM PackerBudget == Spec => []BudgetKept
<1>1. PackerInv => BudgetKept
  BY Zenon DEF PackerInv, Accounts, Spending, BudgetKept
<1>. QED BY <1>1, PackerAccounts, PTL

(* No token is credited twice while tiers are assigned and degraded.       *)
THEOREM PackerConserves == Spec => []BudgetConserved
<1>1. PackerInv => BudgetConserved
  BY DEF PackerInv, Conserved
<1>. QED BY <1>1, PackerAccounts, PTL

(* Every ranked file is reported once, as included or as skipped.          *)
THEOREM PackerReports == Spec => []EveryFileOnce
<1>1. PackerInv => EveryFileOnce
  <2> SUFFICES ASSUME PackerInv, pc = "done"
               PROVE  Len(Included \o skipped) = N /\ Range(Included \o skipped) = Files
    BY DEF EveryFileOnce
  <2>1. /\ entries \in Seq(EntryType) /\ skipped \in Seq(Files)
        /\ OneEach(entries) /\ Distinct(skipped) /\ Names(entries) \cap Range(skipped) = {}
        /\ Names(entries) \cup Range(skipped) = Files
    BY DEF PackerInv, Accounts, Typed, Apart, AllPlaced
  <2>2. /\ Included \in Seq(Files) /\ Range(Included) = Names(entries) /\ Distinct(Included)
    BY <2>1, IncludedNames
  <2> DEFINE reported == Included \o skipped
  <2>3. /\ reported \in Seq(Files) /\ Range(reported) = Files /\ Distinct(reported)
    <3>1. /\ Included \o skipped \in Seq(Files)
          /\ Range(Included \o skipped) = Range(Included) \cup Range(skipped)
          /\ Distinct(Included) /\ Distinct(skipped) /\ Range(Included) \cap Range(skipped) = {}
               => Distinct(Included \o skipped)
      BY ONLY <2>1, <2>2, Joined
    <3>. QED BY <2>1, <2>2, <3>1
  <2> HIDE DEF reported
  <2>4. Cardinality(Files) = Len(reported)
    BY <2>3, DistinctSize
  <2>5. Cardinality(Files) = N
    BY PackerConstants, FS_Interval DEF Files
  <2>. QED BY <2>3, <2>4, <2>5 DEF reported
<1>. QED BY <1>1, PackerAccounts, PTL

(* The entries come out in the order of the ranking.                       *)
THEOREM PackerRanks == Spec => []RankingOrder
<1>1. PackerInv => RankingOrder
  BY DEF PackerInv, Accounts, Sorted, RankingOrder
<1>. QED BY <1>1, PackerAccounts, PTL

(* The adaptive packer delivers a repository that fits whole.              *)
THEOREM PackerDeliversWhole == Spec => []AllWholeWhenRoomy
<1>1. PackerInv => AllWholeWhenRoomy
  <2> SUFFICES ASSUME PackerInv, pc = "done", Roomy
               PROVE  /\ Range(Included) = Range(prepared)
                      /\ \A k \in DOMAIN entries : entries[k].whole
    BY DEF AllWholeWhenRoomy, Roomy, RawTokens
  <2>1. entries \in Seq(EntryType) /\ AllWhole
    BY DEF PackerInv, Accounts, Typed
  <2>2. Range(Included) = Names(entries)
    BY <2>1, IncludedNames
  <2>. QED BY <2>1, <2>2 DEF AllWhole
<1>. QED BY <1>1, PackerAccounts, PTL

(* Outside the progressive packer a prepared file is only skipped when its *)
(* detailed tier does not fit beside what is delivered.                    *)
THEOREM PackerSkips == Spec => []SkipJustified
<1>1. PackerInv => SkipJustified
  BY Zenon DEF PackerInv, Accounts, Justified, SkipJustified, AtMost
<1>. QED BY <1>1, PackerAccounts, PTL

============================================================================
