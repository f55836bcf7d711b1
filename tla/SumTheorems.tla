---------------------------- MODULE SumTheorems ----------------------------
(***************************************************************************)
(* Sums over finite sets, for the proofs about token counts: what          *)
(* SumFunctionOnSet of the module Functions computes for every function    *)
(* and every finite set of indices.  Induction is stated with a set of     *)
(* numbers, or of sets, in the place of a predicate.  Last, ranks: what    *)
(* counting the members that come before gives in a total order.           *)
(***************************************************************************)
EXTENDS Integers, FiniteSets, Functions, FiniteSetTheorems,
        WellFoundedInduction, TLAPS

(* A set of numbers that has 0 and the successor of each of its members    *)
(* has every number.                                                       *)
LEMMA NatSetInduction ==
    ASSUME NEW S, 0 \in S, \A n \in Nat : n \in S => n + 1 \in S
    PROVE  Nat \subseteq S
<1>1. PICK R : IsWellFoundedOn(R, Nat) /\ \A n \in Nat : <<n, n + 1>> \in R
  <2>1. \A n \in Nat : <<n, n + 1>> \in OpToRel(<, Nat)
    BY DEF OpToRel
  <2> QED BY Zenon, <2>1, NatLessThanWellFounded
<1>2. SUFFICES ASSUME Nat \ S # {} PROVE FALSE
  OBVIOUS
<1>3. PICK x \in Nat \ S : \A y \in Nat \ S : <<y, x>> \notin R
  BY <1>1, <1>2, WFMin
<1>4. x # 0 /\ x - 1 \in Nat
  BY <1>2
<1>5. x - 1 \notin S /\ <<x - 1, x>> \in R
  BY <1>1, <1>3, <1>4
<1>. QED BY <1>3, <1>4, <1>5

(* What holds of the empty set, and of a set with one member more, holds   *)
(* of every finite set.                                                    *)
LEMMA FiniteSetInduction ==
    ASSUME NEW S, IsFiniteSet(S), NEW Good, {} \in Good,
           \A T \in SUBSET S : \A x \in S \ T : T \in Good => T \cup {x} \in Good
    PROVE  S \in Good
<1> DEFINE Sizes == {n \in Nat : \A T \in SUBSET S : Cardinality(T) = n => T \in Good}
<1>0. \A T \in SUBSET S : IsFiniteSet(T) /\ Cardinality(T) \in Nat
  BY FS_Subset, FS_CardinalityType
<1>1. 0 \in Sizes
  BY <1>0, FS_EmptySet
<1>2. ASSUME NEW n \in Nat, n \in Sizes PROVE n + 1 \in Sizes
  <2>1. SUFFICES ASSUME NEW T \in SUBSET S, Cardinality(T) = n + 1
                 PROVE  T \in Good
    OBVIOUS
  <2>2. PICK x \in T : TRUE
    BY <1>0, <2>1, FS_EmptySet
  <2>3. Cardinality(T \ {x}) = n
    <3>1. Cardinality(T \ {x}) = Cardinality(T) - 1
      BY <1>0, <2>2, FS_RemoveElement
    <3>. QED BY <3>1, <2>1
  <2>4. T \ {x} \in Good
    BY <1>2, <2>3
  <2>5. (T \ {x}) \cup {x} = T
    BY <2>2
  <2>. QED BY <2>2, <2>4, <2>5
<1>3. Nat \subseteq Sizes
  <2> HIDE DEF Sizes
  <2> QED BY <1>1, <1>2, NatSetInduction
<1>. QED BY <1>0, <1>3

----------------------------------------------------------------------------
Chosen(s) == CHOOSE x \in s : TRUE

(* The function that the definition of a fold chooses, on the sets of D.   *)
Adds(iter, f, s) == IF s = {} THEN 0 ELSE f[Chosen(s)] + iter[s \ {Chosen(s)}]
SumsUp(iter, f, D) == iter = [s \in D |-> Adds(iter, f, s)]
SumsAllUp(iter, f, T) == SumsUp(iter, f, SUBSET T)

UpTo(T, n) == {s \in SUBSET T : Cardinality(s) <= n}

(* Taking the chosen member away leads to smaller sets.                    *)
LEMMA ChosenSmaller ==
    ASSUME NEW T, IsFiniteSet(T)
    PROVE  /\ UpTo(T, Cardinality(T)) = SUBSET T
           /\ UpTo(T, 0) = {{}}
           /\ \A n \in Nat : UpTo(T, n) \subseteq UpTo(T, n + 1)
           /\ \A s \in SUBSET T : s # {} => Chosen(s) \in s
           /\ \A n \in Nat : \A s \in UpTo(T, n + 1) :
                 s # {} => s \ {Chosen(s)} \in UpTo(T, n)
<1>1. \A s \in SUBSET T : IsFiniteSet(s) /\ Cardinality(s) \in Nat
  BY FS_Subset, FS_CardinalityType
<1>2. \A s \in SUBSET T : s # {} => Chosen(s) \in s
  BY DEF Chosen
<1>3. \A s \in SUBSET T : s = {} <=> Cardinality(s) = 0
  BY <1>1, FS_EmptySet
<1>4. \A s \in SUBSET T : Cardinality(s) <= Cardinality(T)
  BY FS_Subset
<1>5. ASSUME NEW n \in Nat, NEW s \in UpTo(T, n + 1), s # {}
      PROVE  s \ {Chosen(s)} \in UpTo(T, n)
  <2>1. Cardinality(s \ {Chosen(s)}) = Cardinality(s) - 1
    BY <1>1, <1>2, <1>5, FS_RemoveElement DEF UpTo
  <2>. QED BY <1>1, <2>1 DEF UpTo
<1>6. \A n \in Nat : UpTo(T, n) \subseteq UpTo(T, n + 1)
  BY <1>1 DEF UpTo
<1>. QED BY <1>1, <1>2, <1>3, <1>4, <1>5, <1>6 DEF UpTo

(* There is such a function, by induction on the size of the sets.         *)
LEMMA SumsUpExists ==
    ASSUME NEW f, NEW T, IsFiniteSet(T)
    PROVE  \E iter : SumsAllUp(iter, f, T)
<1> DEFINE Sizes == {n \in Nat : \E g : SumsUp(g, f, UpTo(T, n))}
<1>1. 0 \in Sizes
  <2>1. SumsUp([s \in UpTo(T, 0) |-> 0], f, UpTo(T, 0))
    BY ChosenSmaller DEF SumsUp, Adds
  <2>. QED BY <2>1
<1>2. ASSUME NEW n \in Nat, n \in Sizes PROVE n + 1 \in Sizes
  <2>1. PICK g : SumsUp(g, f, UpTo(T, n))
    BY <1>2
  <2> DEFINE h == [s \in UpTo(T, n + 1) |-> Adds(g, f, s)]
  <2>2. \A s \in UpTo(T, n) : g[s] = h[s]
    BY <2>1, ChosenSmaller DEF SumsUp
  <2>3. \A s \in UpTo(T, n + 1) : Adds(g, f, s) = Adds(h, f, s)
    BY <2>2, ChosenSmaller DEF Adds
  <2>4. SumsUp(h, f, UpTo(T, n + 1))
    BY <2>3 DEF SumsUp
  <2>. QED BY <2>4
<1>3. Nat \subseteq Sizes
  <2> HIDE DEF Sizes
  <2> QED BY <1>1, <1>2, NatSetInduction
<1>4. Cardinality(T) \in Nat /\ UpTo(T, Cardinality(T)) = SUBSET T
  BY ChosenSmaller, FS_CardinalityType
<1>. QED BY <1>3, <1>4 DEF SumsAllUp

(* Two such functions agree wherever both are defined.                     *)
LEMMA SumsUpUnique ==
    ASSUME NEW f, NEW T, IsFiniteSet(T), NEW U \in SUBSET T,
           NEW g, SumsAllUp(g, f, T), NEW h, SumsAllUp(h, f, U)
    PROVE  g[U] = h[U]
<1> DEFINE Sizes == {n \in Nat : \A s \in UpTo(U, n) : g[s] = h[s]}
<1>0. IsFiniteSet(U) /\ Cardinality(U) \in Nat
  BY FS_Subset, FS_CardinalityType
<1>1. 0 \in Sizes
  BY <1>0, ChosenSmaller DEF SumsAllUp, SumsUp, Adds
<1>2. ASSUME NEW n \in Nat, n \in Sizes PROVE n + 1 \in Sizes
  <2>1. ASSUME NEW s \in UpTo(U, n + 1) PROVE g[s] = h[s]
    <3>1. s \in SUBSET U /\ s \in SUBSET T
      BY DEF UpTo
    <3>2. s # {} => g[s \ {Chosen(s)}] = h[s \ {Chosen(s)}]
      BY <1>0, <1>2, ChosenSmaller
    <3>. QED BY <3>1, <3>2 DEF SumsAllUp, SumsUp, Adds
  <2>. QED BY <2>1
<1>3. Nat \subseteq Sizes
  <2> HIDE DEF Sizes
  <2> QED BY <1>1, <1>2, NatSetInduction
<1>. QED BY <1>0, <1>3, ChosenSmaller

(* The equation of the definition, which the recursion satisfies.          *)
LEMMA SumDef ==
    ASSUME NEW f, NEW T, IsFiniteSet(T)
    PROVE  SumFunctionOnSet(f, T) =
              IF T = {} THEN 0
              ELSE f[Chosen(T)] + SumFunctionOnSet(f, T \ {Chosen(T)})
<1>1. \A U : SumFunctionOnSet(f, U) = (CHOOSE iter : SumsAllUp(iter, f, U))[U]
  BY DEF SumFunctionOnSet, FoldFunctionOnSet, MapThenFoldSet, SumsAllUp, SumsUp, Adds, Chosen
<1>2. \A U : IsFiniteSet(U) =>
        \E iter : SumsAllUp(iter, f, U) /\ SumFunctionOnSet(f, U) = iter[U]
  BY <1>1, SumsUpExists
<1>3. PICK g : SumsAllUp(g, f, T) /\ SumFunctionOnSet(f, T) = g[T]
  BY <1>2
<1>4. CASE T = {}
  BY <1>3, <1>4 DEF SumsAllUp, SumsUp, Adds
<1>5. CASE T # {}
  <2> DEFINE U == T \ {Chosen(T)}
  <2>1. IsFiniteSet(U)
    BY FS_RemoveElement
  <2>2. PICK h : SumsAllUp(h, f, U) /\ SumFunctionOnSet(f, U) = h[U]
    BY <1>2, <2>1
  <2>3. U \in SUBSET T
    OBVIOUS
  <2>4. g[U] = h[U]
    <3>1. SumsAllUp(g, f, T) /\ SumsAllUp(h, f, U)
      BY <1>3, <2>2
    <3> HIDE DEF U
    <3> QED BY <2>3, <3>1, SumsUpUnique
  <2>5. g[T] = f[Chosen(T)] + g[U]
    BY <1>3, <1>5 DEF SumsAllUp, SumsUp, Adds
  <2>. QED BY <1>3, <1>5, <2>2, <2>4, <2>5
<1>. QED BY <1>4, <1>5

(* The sum over no member.                                                 *)
LEMMA SumEmpty == \A f : SumFunctionOnSet(f, {}) = 0
BY SumDef, FS_EmptySet

(* Sums of naturals are naturals.                                          *)
LEMMA SumNat ==
    ASSUME NEW f, NEW T, IsFiniteSet(T), \A x \in T : f[x] \in Nat
    PROVE  SumFunctionOnSet(f, T) \in Nat
<1> DEFINE Sizes == {n \in Nat : \A s \in UpTo(T, n) : SumFunctionOnSet(f, s) \in Nat}
<1>0. /\ Cardinality(T) \in Nat
      /\ \A n \in Nat : \A s \in UpTo(T, n) : IsFiniteSet(s) /\ s \in SUBSET T
  BY FS_Subset, FS_CardinalityType DEF UpTo
<1>1. 0 \in Sizes
  <2>1. UpTo(T, 0) = {{}}
    BY ChosenSmaller
  <2>2. SumFunctionOnSet(f, {}) \in Nat
    BY SumEmpty
  <2>. QED BY <2>1, <2>2
<1>2. ASSUME NEW n \in Nat, n \in Sizes PROVE n + 1 \in Sizes
  <2>1. ASSUME NEW s \in UpTo(T, n + 1) PROVE SumFunctionOnSet(f, s) \in Nat
    <3>0. n + 1 \in Nat
      OBVIOUS
    <3>1. CASE s = {}
      BY <3>1, SumEmpty
    <3>2. CASE s # {}
      <4>1. Chosen(s) \in T /\ SumFunctionOnSet(f, s \ {Chosen(s)}) \in Nat
        BY <1>0, <1>2, <3>0, <3>2, ChosenSmaller
      <4>. QED BY <1>0, <3>0, <3>2, <4>1, SumDef
    <3>. QED BY <3>1, <3>2
  <2>. QED BY <2>1
<1>3. Nat \subseteq Sizes
  <2> HIDE DEF Sizes
  <2> QED BY <1>1, <1>2, NatSetInduction
<1>. QED BY <1>0, <1>3, ChosenSmaller

(* Any member can be taken out first.                                      *)
LEMMA SumRemove ==
    ASSUME NEW f, NEW T, IsFiniteSet(T), \A x \in T : f[x] \in Nat, NEW x \in T
    PROVE  SumFunctionOnSet(f, T) = f[x] + SumFunctionOnSet(f, T \ {x})
<1> DEFINE Good(s) == \A y \in s : SumFunctionOnSet(f, s)
                                   = f[y] + SumFunctionOnSet(f, s \ {y})
           Sizes == {n \in Nat : \A s \in UpTo(T, n) : Good(s)}
<1>0. /\ Cardinality(T) \in Nat
      /\ \A n \in Nat : \A s \in UpTo(T, n) : IsFiniteSet(s) /\ s \in SUBSET T
  BY FS_Subset, FS_CardinalityType DEF UpTo
<1>1. 0 \in Sizes
  BY ChosenSmaller
<1>2. ASSUME NEW n \in Nat, n \in Sizes PROVE n + 1 \in Sizes
  <2>1. ASSUME NEW s \in UpTo(T, n + 1), NEW y \in s
        PROVE  SumFunctionOnSet(f, s) = f[y] + SumFunctionOnSet(f, s \ {y})
    <3> DEFINE c == Chosen(s)
               rest == s \ {c, y}
    <3>0. n + 1 \in Nat
      OBVIOUS
    <3>1. c \in s /\ s \in SUBSET T /\ IsFiniteSet(s) /\ s # {}
      BY <1>0, <3>0, ChosenSmaller
    <3>2. SumFunctionOnSet(f, s) = f[c] + SumFunctionOnSet(f, s \ {c})
      BY <3>1, SumDef
    <3>3. CASE y = c
      BY <3>2, <3>3
    <3>4. CASE y # c
      <4>1. s \ {c} \in UpTo(T, n) /\ (s \ {c}) \ {y} = rest
        BY <3>1, ChosenSmaller
      <4>2. SumFunctionOnSet(f, s \ {c}) = f[y] + SumFunctionOnSet(f, rest)
        BY <1>2, <3>4, <4>1
      <4>3. s \ {y} \in UpTo(T, n) /\ (s \ {y}) \ {c} = rest
        <5>1. Cardinality(s \ {y}) = Cardinality(s) - 1 /\ Cardinality(s) \in Nat
          BY <3>1, FS_RemoveElement, FS_CardinalityType
        <5>. QED BY <5>1, <3>1 DEF UpTo
      <4>4. SumFunctionOnSet(f, s \ {y}) = f[c] + SumFunctionOnSet(f, rest)
        BY <1>2, <3>1, <3>4, <4>3
      <4>5. SumFunctionOnSet(f, rest) \in Nat
        <5>1. IsFiniteSet(rest) /\ rest \subseteq T
          BY <3>1, FS_Subset
        <5>. QED BY <5>1, SumNat
      <4>6. f[c] \in Nat /\ f[y] \in Nat
        BY <3>1
      <4>. QED BY <3>2, <4>2, <4>4, <4>5, <4>6
    <3>. QED BY <3>3, <3>4
  <2>. QED BY <2>1
<1>3. Nat \subseteq Sizes
  <2> HIDE DEF Sizes
  <2> QED BY <1>1, <1>2, NatSetInduction
<1>. QED BY <1>0, <1>3, ChosenSmaller

(* A sum depends on what the function is on the set only.                  *)
LEMMA SumSame ==
    ASSUME NEW f, NEW g, NEW T, IsFiniteSet(T), \A x \in T : f[x] = g[x]
    PROVE  SumFunctionOnSet(f, T) = SumFunctionOnSet(g, T)
<1> DEFINE Good(s) == SumFunctionOnSet(f, s) = SumFunctionOnSet(g, s)
           Sizes == {n \in Nat : \A s \in UpTo(T, n) : Good(s)}
<1>0. /\ Cardinality(T) \in Nat
      /\ \A n \in Nat : \A s \in UpTo(T, n) : IsFiniteSet(s) /\ s \in SUBSET T
  BY FS_Subset, FS_CardinalityType DEF UpTo
<1>1. 0 \in Sizes
  BY ChosenSmaller, SumEmpty
<1>2. ASSUME NEW n \in Nat, n \in Sizes PROVE n + 1 \in Sizes
  <2>1. ASSUME NEW s \in UpTo(T, n + 1)
        PROVE  SumFunctionOnSet(f, s) = SumFunctionOnSet(g, s)
    <3>0. n + 1 \in Nat /\ IsFiniteSet(s)
      BY <1>0
    <3>1. CASE s = {}
      BY <3>1, SumEmpty
    <3>2. CASE s # {}
      <4>1. /\ Chosen(s) \in T
            /\ SumFunctionOnSet(f, s \ {Chosen(s)}) = SumFunctionOnSet(g, s \ {Chosen(s)})
        BY <1>0, <1>2, <3>0, <3>2, ChosenSmaller
      <4>. QED BY <3>0, <3>2, <4>1, SumDef
    <3>. QED BY <3>1, <3>2
  <2>. QED BY <2>1
<1>3. Nat \subseteq Sizes
  <2> HIDE DEF Sizes
  <2> QED BY <1>1, <1>2, NatSetInduction
<1>. QED BY <1>0, <1>3, ChosenSmaller

(* A member more adds its value to the sum.                                *)
LEMMA SumExtend ==
    ASSUME NEW f, NEW g, NEW x, IsFiniteSet(DOMAIN f), x \notin DOMAIN f,
           DOMAIN g = DOMAIN f \cup {x}, \A y \in DOMAIN f : g[y] = f[y],
           \A y \in DOMAIN g : g[y] \in Nat
    PROVE  SumFunction(g) = SumFunction(f) + g[x]
<1>1. IsFiniteSet(DOMAIN g) /\ DOMAIN g \ {x} = DOMAIN f /\ x \in DOMAIN g
  BY FS_AddElement
<1>2. SumFunctionOnSet(g, DOMAIN g) = g[x] + SumFunctionOnSet(g, DOMAIN f)
  BY <1>1, SumRemove
<1>3. SumFunctionOnSet(g, DOMAIN f) = SumFunctionOnSet(f, DOMAIN f)
  BY SumSame
<1>4. SumFunctionOnSet(f, DOMAIN f) \in Nat
  BY SumNat
<1>. QED BY <1>2, <1>3, <1>4 DEF SumFunction

(* b names the members of T by those of S.                                 *)
Renames(b, S, T) ==
    /\ b \in [S -> T]
    /\ \A x, y \in S : b[x] = b[y] => x = y
    /\ \A t \in T : \E x \in S : b[x] = t

(* What is summed may be renamed.                                          *)
LEMMA SumRenamed ==
    ASSUME NEW S, IsFiniteSet(S), NEW T, NEW b, Renames(b, S, T),
           NEW f, \A t \in T : f[t] \in Nat, NEW g, \A x \in S : g[x] = f[b[x]]
    PROVE  SumFunctionOnSet(g, S) = SumFunctionOnSet(f, T)
<1>0. /\ b \in [S -> T]
      /\ \A x, y \in S : b[x] = b[y] => x = y
      /\ \A t \in T : \E x \in S : b[x] = t
  BY DEF Renames
<1> DEFINE Image(s) == {b[x] : x \in s}
           Good == {s \in SUBSET S : SumFunctionOnSet(g, s) = SumFunctionOnSet(f, Image(s))}
<1>1. {} \in Good
  <2>1. Image({}) = {}
    OBVIOUS
  <2>. QED BY <2>1, SumEmpty
<1>2. ASSUME NEW s \in SUBSET S, NEW x \in S \ s, s \in Good PROVE s \cup {x} \in Good
  <2> DEFINE more == s \cup {x}
  <2>1. IsFiniteSet(more) /\ more \ {x} = s /\ x \in more /\ more \subseteq S
    BY FS_Subset, FS_AddElement
  <2>2. /\ Image(more) \ {b[x]} = Image(s)
        /\ b[x] \in Image(more)
        /\ Image(more) \subseteq T
    BY <1>0, <2>1
  <2>3. IsFiniteSet(Image(more))
    <3> DEFINE h == [y \in more |-> b[y]]
    <3>1. h \in Surjection(more, Image(more))
      BY DEF Surjection
    <3>. QED BY <2>1, <3>1, FS_Surjection
  <2>4. \A y \in more : g[y] \in Nat
    BY <1>0, <2>1
  <2> HIDE DEF more, Image
  <2>5. SumFunctionOnSet(g, more) = g[x] + SumFunctionOnSet(g, s)
    BY <2>1, <2>4, SumRemove
  <2>6. SumFunctionOnSet(f, Image(more)) = f[b[x]] + SumFunctionOnSet(f, Image(s))
    BY <2>2, <2>3, SumRemove
  <2>7. SumFunctionOnSet(g, more) = SumFunctionOnSet(f, Image(more))
    BY <1>2, <2>5, <2>6
  <2>. QED BY <2>1, <2>7 DEF more
<1>3. S \in Good
  <2> HIDE DEF Good
  <2> QED BY <1>1, <1>2, FiniteSetInduction
<1>4. Image(S) = T
  BY <1>0
<1>. QED BY <1>3, <1>4

(* A part sums up to no more than the whole.                               *)
LEMMA SumPart ==
    ASSUME NEW f, NEW T, IsFiniteSet(T), \A x \in T : f[x] \in Nat, NEW U \in SUBSET T
    PROVE  SumFunctionOnSet(f, U) <= SumFunctionOnSet(f, T)
<1> DEFINE Good == {s \in SUBSET (T \ U) :
                      SumFunctionOnSet(f, U) <= SumFunctionOnSet(f, U \cup s)}
<1>0. \A s \in SUBSET T : IsFiniteSet(s) /\ SumFunctionOnSet(f, s) \in Nat
  BY FS_Subset, SumNat
<1>1. {} \in Good
  <2>1. U \cup {} = U
    OBVIOUS
  <2>. QED BY <1>0, <2>1
<1>2. ASSUME NEW s \in SUBSET (T \ U), NEW x \in (T \ U) \ s, s \in Good
      PROVE  s \cup {x} \in Good
  <2> DEFINE more == U \cup (s \cup {x})
  <2>1. more \in SUBSET T /\ x \in more /\ more \ {x} = U \cup s /\ U \cup s \in SUBSET T
    OBVIOUS
  <2>2. SumFunctionOnSet(f, more) = f[x] + SumFunctionOnSet(f, more \ {x})
    <3> HIDE DEF more
    <3>. QED BY <1>0, <2>1, SumRemove
  <2>3. SumFunctionOnSet(f, U) <= SumFunctionOnSet(f, more)
    <3>1. SumFunctionOnSet(f, U) <= SumFunctionOnSet(f, U \cup s)
      BY <1>2
    <3>2. /\ SumFunctionOnSet(f, U) \in Nat
          /\ SumFunctionOnSet(f, U \cup s) \in Nat
          /\ f[x] \in Nat
          /\ SumFunctionOnSet(f, more) = f[x] + SumFunctionOnSet(f, U \cup s)
      BY <1>0, <2>1, <2>2
    <3>. QED BY ONLY <3>1, <3>2
  <2>. QED BY <2>3
<1>3. T \ U \in Good
  <2>1. IsFiniteSet(T \ U)
    BY FS_Subset
  <2> HIDE DEF Good
  <2> QED BY <1>1, <1>2, <2>1, FiniteSetInduction
<1>4. U \cup (T \ U) = T
  OBVIOUS
<1>. QED BY <1>3, <1>4

(* One value that changes changes the sum by as much.                      *)
LEMMA SumChanged ==
    ASSUME NEW f, NEW g, NEW T, IsFiniteSet(T), NEW x \in T,
           \A y \in T : f[y] \in Nat /\ g[y] \in Nat,
           \A y \in T \ {x} : f[y] = g[y]
    PROVE  SumFunctionOnSet(g, T) = SumFunctionOnSet(f, T) - f[x] + g[x]
<1>1. IsFiniteSet(T \ {x})
  BY FS_RemoveElement
<1>2. SumFunctionOnSet(f, T \ {x}) = SumFunctionOnSet(g, T \ {x})
  BY <1>1, SumSame
<1>3. SumFunctionOnSet(f, T \ {x}) \in Nat
  BY <1>1, SumNat
<1>4. SumFunctionOnSet(f, T) = f[x] + SumFunctionOnSet(f, T \ {x})
  BY SumRemove
<1>5. SumFunctionOnSet(g, T) = g[x] + SumFunctionOnSet(g, T \ {x})
  BY SumRemove
<1>. QED BY <1>2, <1>3, <1>4, <1>5

(* The rank of a member of a finite set is the number of members that do   *)
(* not come after it.  Under a total order every number up to the size of  *)
(* the set is the rank of one member.                                      *)
TotalOrder(R, S) ==
    /\ \A a, b \in S : <<a, b>> \in R \/ <<b, a>> \in R
    /\ \A a, b \in S : <<a, b>> \in R /\ <<b, a>> \in R => a = b
    /\ \A a, b, c \in S : <<a, b>> \in R /\ <<b, c>> \in R => <<a, c>> \in R

RankIn(R, S) == [b \in S |-> Cardinality({a \in S : <<a, b>> \in R})]

LEMMA RanksCover ==
    ASSUME NEW S, IsFiniteSet(S), NEW R, TotalOrder(R, S)
    PROVE  /\ Renames(RankIn(R, S), S, 1..Cardinality(S))
           /\ \A b, c \in S : RankIn(R, S)[b] < RankIn(R, S)[c] => <<b, c>> \in R
<1> DEFINE Down(b) == {a \in S : <<a, b>> \in R}
           n == Cardinality(S)
           rank == RankIn(R, S)
<1>0. /\ \A a, b \in S : <<a, b>> \in R \/ <<b, a>> \in R
      /\ \A a, b \in S : <<a, b>> \in R /\ <<b, a>> \in R => a = b
      /\ \A a, b, c \in S : <<a, b>> \in R /\ <<b, c>> \in R => <<a, c>> \in R
      /\ rank = [b \in S |-> Cardinality({a \in S : <<a, b>> \in R})]
  BY DEF TotalOrder, RankIn
<1> HIDE DEF rank
<1>1. n \in Nat
  BY FS_CardinalityType
<1>2. \A b \in S : /\ Down(b) \subseteq S /\ IsFiniteSet(Down(b)) /\ b \in Down(b)
                   /\ Cardinality(Down(b)) \in 1..n
  <2>1. ASSUME NEW b \in S
        PROVE  /\ Down(b) \subseteq S /\ IsFiniteSet(Down(b)) /\ b \in Down(b)
               /\ Cardinality(Down(b)) \in 1..n
    <3>1. Down(b) \in SUBSET S /\ b \in Down(b)
      BY <1>0
    <3>2. IsFiniteSet(Down(b)) /\ Cardinality(Down(b)) <= n
      BY <3>1, FS_Subset
    <3>3. Cardinality(Down(b)) \in Nat /\ Cardinality(Down(b)) # 0
      BY <3>1, <3>2, FS_CardinalityType, FS_EmptySet
    <3>. QED BY <1>1, <3>1, <3>2, <3>3
  <2>. QED BY <2>1
<1>3. \A b, c \in S : <<b, c>> \in R /\ b # c => Cardinality(Down(b)) < Cardinality(Down(c))
  <2>1. SUFFICES ASSUME NEW b \in S, NEW c \in S, <<b, c>> \in R, b # c
                 PROVE  Cardinality(Down(b)) < Cardinality(Down(c))
    OBVIOUS
  <2>2. Down(b) \in SUBSET Down(c) /\ Down(b) # Down(c)
    BY <1>0, <2>1
  <2>3. /\ IsFiniteSet(Down(c))
        /\ Cardinality(Down(b)) \in 1..n /\ Cardinality(Down(c)) \in 1..n
    BY <1>2
  <2> HIDE DEF Down
  <2>4. Cardinality(Down(b)) <= Cardinality(Down(c)) /\ Cardinality(Down(b)) # Cardinality(Down(c))
    BY <2>2, <2>3, FS_Subset
  <2>. QED BY <1>1, <2>3, <2>4
<1>4. rank = [b \in S |-> Cardinality(Down(b))]
  BY <1>0
<1> HIDE DEF Down, n
<1>5. rank \in [S -> 1..n]
  BY <1>2, <1>4
<1>6. ASSUME NEW b \in S, NEW c \in S
      PROVE  /\ rank[b] = rank[c] => b = c
             /\ rank[b] < rank[c] => <<b, c>> \in R
  <2>1. rank[b] \in 1..n /\ rank[c] \in 1..n
    BY <1>5
  <2>2. /\ <<b, c>> \in R /\ b # c => rank[b] < rank[c]
        /\ <<c, b>> \in R /\ b # c => rank[c] < rank[b]
    BY Zenon, <1>3, <1>4
  <2>3. <<b, c>> \in R \/ <<c, b>> \in R
    BY <1>0
  <2>4. b = c => <<b, c>> \in R
    BY <1>0
  <2>. QED BY ONLY <1>1, <2>1, <2>2, <2>3, <2>4
<1>8. \A k \in 1..n : \E b \in S : rank[b] = k
  <2>1. rank \in Injection(S, 1..n)
    BY <1>5, <1>6 DEF Injection, IsInjective
  <2>2. IsFiniteSet(1..n) /\ Cardinality(1..n) = n
    BY <1>1, FS_Interval
  <2>3. rank \in Surjection(S, 1..n)
    <3>1. Cardinality(S) = Cardinality(1..n)
      BY <2>2 DEF n
    <3>. QED BY <2>1, <2>2, <3>1, FS_Injection
  <2>. QED BY <2>3 DEF Surjection
<1>. QED BY <1>5, <1>6, <1>8 DEF n, rank, Renames

============================================================================
