---------------------------- MODULE PayrollProofs ----------------------------
(***************************************************************************)
(* Proofs about the calculation and the reports, for any settings that     *)
(* SettingsAssumption allows, any caps and any largest integer.            *)
(*                                                                         *)
(* The first part is what the rest is built on: sums and scans over finite *)
(* sets.  They are folds, defined by recursion, so nothing about them can  *)
(* be proved without induction over the set.  The induction theorems of    *)
(* the library take an operator as a parameter; the least-number principle *)
(* (WFMin) takes a set, and SubsetInduction follows from it.               *)
(***************************************************************************)
EXTENDS Payroll, FiniteSetTheorems, TLAPS

(* The least-number principle, of a set of naturals.                        *)
LEMMA LeastNatural ==
  ASSUME NEW S \in SUBSET Nat, S # {}
  PROVE  \E x \in S : \A y \in S : x <= y
<1> DEFINE R == OpToRel(<, Nat)
<1>1. IsWellFoundedOn(R, Nat)
  BY NatLessThanWellFounded
<1>2. PICK x \in S : \A y \in S : <<y, x>> \notin R
  <2> HIDE DEF R
  <2> QED BY <1>1, WFMin
<1>3. \A y \in S : ~(y < x)
  <2>1. \A y \in S : y < x => <<y, x>> \in R
    BY DEF OpToRel
  <2> QED BY <1>2, <2>1
<1> QED BY <1>3

(* Induction over the naturals, for the set of those that are good.         *)
LEMMA Induction ==
  ASSUME NEW Good, 0 \in Good, \A n \in Nat : n \in Good => n + 1 \in Good
  PROVE  \A n \in Nat : n \in Good
<1> SUFFICES ASSUME Nat \ Good # {} PROVE FALSE
  OBVIOUS
<1>1. PICK x \in Nat \ Good : \A y \in Nat \ Good : x <= y
  BY LeastNatural
<1>2. x # 0 /\ x - 1 \in Nat /\ x - 1 \in Good
  BY <1>1
<1> QED BY <1>1, <1>2

(* Induction over the subsets of a finite set: what holds of a set when it  *)
(* holds of its proper subsets holds of them all.                           *)
LEMMA SubsetInduction ==
  ASSUME NEW S, IsFiniteSet(S), NEW Good,
         \A T \in SUBSET S : (\A U \in SUBSET T : U # T => U \in Good) => T \in Good
  PROVE  \A T \in SUBSET S : T \in Good
<1> DEFINE Bad   == {T \in SUBSET S : T \notin Good}
           Sizes == {Cardinality(T) : T \in Bad}
<1> SUFFICES ASSUME Bad # {} PROVE FALSE
  OBVIOUS
<1>1. \A T \in SUBSET S : IsFiniteSet(T) /\ Cardinality(T) \in Nat
  BY FS_Subset, FS_CardinalityType
<1>2. Sizes \in SUBSET Nat /\ Sizes # {}
  BY <1>1
<1>3. PICK n \in Sizes : \A k \in Sizes : n <= k
  BY <1>2, LeastNatural
<1>4. PICK T \in Bad : n = Cardinality(T)
  BY <1>3
<1>5. ASSUME NEW U \in SUBSET T, U # T PROVE U \in Good
  <2>1. Cardinality(U) <= Cardinality(T) /\ Cardinality(U) # Cardinality(T)
    BY <1>1, <1>4, <1>5, FS_Subset
  <2>2. ~(n <= Cardinality(U))
    BY <1>1, <1>4, <2>1
  <2>3. U \notin Bad
    BY <1>3, <2>2
  <2> QED BY <1>4, <2>3
<1> QED BY <1>4, <1>5

(* What a fold takes from each set, and what it adds to the rest.           *)
Foldable(S, V, base, ch, step) ==
  /\ base \in V
  /\ \A s \in (SUBSET S) \ {{}} : ch[s] \in s
  /\ step \in [S -> [V -> V]]

IsFold(g, S, base, ch, step) ==
  \A s \in SUBSET S : g[s] = IF s = {} THEN base ELSE step[ch[s]][g[s \ {ch[s]}]]

(* A fold over a finite set is well defined: a function of its subsets      *)
(* satisfies the equation that defines it.                                  *)
LEMMA FoldExists ==
  ASSUME NEW S, IsFiniteSet(S), NEW V, NEW base, NEW ch, NEW step,
         Foldable(S, V, base, ch, step)
  PROVE  \E g \in [SUBSET S -> V] : IsFold(g, S, base, ch, step)
<1>0. base \in V /\ (\A s \in (SUBSET S) \ {{}} : ch[s] \in s) /\ step \in [S -> [V -> V]]
  BY DEF Foldable
<1> DEFINE Upto(n)   == {s \in SUBSET S : Cardinality(s) <= n}
           Next1(g, s) == IF s = {} THEN base ELSE step[ch[s]][g[s \ {ch[s]}]]
           Rec(g, n) == \A s \in Upto(n) : g[s] = Next1(g, s)
           Good      == {n \in Nat : \E g \in [Upto(n) -> V] : Rec(g, n)}
<1>1. \A s \in SUBSET S : IsFiniteSet(s) /\ Cardinality(s) \in Nat
  BY FS_Subset, FS_CardinalityType
<1>2. \A s \in SUBSET S : Cardinality(s) = 0 <=> s = {}
  BY <1>1, FS_EmptySet
<1>3. \A s \in (SUBSET S) \ {{}} : s \ {ch[s]} \in SUBSET S /\ Cardinality(s \ {ch[s]}) = Cardinality(s) - 1
  BY <1>0, <1>1, FS_RemoveElement
<1>4. 0 \in Good
  <2>1. \A s \in Upto(0) : s = {}
    BY <1>1, <1>2
  <2>2. [s \in Upto(0) |-> base] \in [Upto(0) -> V] /\ Rec([s \in Upto(0) |-> base], 0)
    BY <1>0, <2>1
  <2> QED BY <2>2
<1>5. ASSUME NEW n \in Nat, n \in Good PROVE n + 1 \in Good
  <2>1. PICK g \in [Upto(n) -> V] : Rec(g, n)
    BY <1>5
  <2> DEFINE h == [s \in Upto(n + 1) |-> Next1(g, s)]
  <2>2. \A s \in Upto(n + 1) : s # {} => s \ {ch[s]} \in Upto(n)
    <3> SUFFICES ASSUME NEW s \in Upto(n + 1), s # {} PROVE s \ {ch[s]} \in Upto(n)
      OBVIOUS
    <3>1. s \in (SUBSET S) \ {{}} /\ Cardinality(s) \in Nat /\ Cardinality(s) <= n + 1
      BY <1>1
    <3>2. s \ {ch[s]} \in SUBSET S /\ Cardinality(s \ {ch[s]}) = Cardinality(s) - 1
      BY <1>3, <3>1
    <3>3. Cardinality(s) - 1 <= n
      BY <3>1
    <3> QED BY <3>2, <3>3
  <2>3. h \in [Upto(n + 1) -> V]
    <3>1. ASSUME NEW s \in Upto(n + 1) PROVE Next1(g, s) \in V
      <4>1. s # {} => ch[s] \in S /\ g[s \ {ch[s]}] \in V
        BY <1>0, <2>2
      <4>2. \A x \in S, v \in V : step[x][v] \in V
        BY <1>0
      <4> QED BY <1>0, <4>1, <4>2
    <3> QED BY <3>1
  <2>4. \A s \in Upto(n) : h[s] = g[s]
    <3>1. \A s \in Upto(n) : s \in Upto(n + 1)
      BY <1>1
    <3> QED BY <2>1, <3>1
  <2>5. Rec(h, n + 1)
    <3>1. ASSUME NEW s \in Upto(n + 1) PROVE Next1(g, s) = Next1(h, s)
      <4>1. s # {} => h[s \ {ch[s]}] = g[s \ {ch[s]}]
        BY <2>2, <2>4
      <4> QED BY <4>1
    <3> QED BY <3>1
  <2>6. \E k \in [Upto(n + 1) -> V] : Rec(k, n + 1)
    <3> HIDE DEF Rec, Upto, h
    <3> QED BY <2>3, <2>5
  <2> HIDE DEF Rec, Upto
  <2> QED BY <2>6
<1>6. Cardinality(S) \in Good
  BY <1>1, <1>4, <1>5, Induction
<1>7. PICK g \in [Upto(Cardinality(S)) -> V] : Rec(g, Cardinality(S))
  BY <1>6
<1>8. Upto(Cardinality(S)) = SUBSET S
  BY FS_Subset
<1>9. g \in [SUBSET S -> V] /\ \A s \in SUBSET S : g[s] = Next1(g, s)
  BY <1>7, <1>8
<1> QED BY <1>9 DEF IsFold

(* The element that a fold over a set takes.                                *)
Taken(T) == CHOOSE x \in T : TRUE

(* The sum of f over S is defined by its equation, for every subset of S.   *)
LEMMA SumEquation ==
  ASSUME NEW S, IsFiniteSet(S), NEW f, \A x \in S : f[x] \in Int
  PROVE  \A T \in SUBSET S :
           /\ SumFunctionOnSet(f, T) \in Int
           /\ SumFunctionOnSet(f, T) =
                IF T = {} THEN 0
                ELSE f[Taken(T)] + SumFunctionOnSet(f, T \ {Taken(T)})
<1> DEFINE ch      == [s \in (SUBSET S) \ {{}} |-> Taken(s)]
           step    == [x \in S |-> [v \in Int |-> f[x] + v]]
           P(h, T) == h = [s \in SUBSET T |-> IF s = {} THEN 0
                                              ELSE f[Taken(s)] + h[s \ {Taken(s)}]]
<1>1. \A s \in (SUBSET S) \ {{}} : Taken(s) \in s
  BY DEF Taken
<1>2. \E g \in [SUBSET S -> Int] : P(g, S)
  <2>1. Foldable(S, Int, 0, ch, step)
    BY <1>1 DEF Foldable
  <2>2. PICK g \in [SUBSET S -> Int] : IsFold(g, S, 0, ch, step)
    <3> HIDE DEF ch, step
    <3> QED BY <2>1, FoldExists
  <2>3. \A s \in SUBSET S : g[s] = IF s = {} THEN 0 ELSE step[ch[s]][g[s \ {ch[s]}]]
    BY <2>2 DEF IsFold
  <2>4. \A s \in (SUBSET S) \ {{}} : step[ch[s]][g[s \ {ch[s]}]] = f[Taken(s)] + g[s \ {Taken(s)}]
    <3> SUFFICES ASSUME NEW s \in (SUBSET S) \ {{}}
                 PROVE  step[ch[s]][g[s \ {ch[s]}]] = f[Taken(s)] + g[s \ {Taken(s)}]
      OBVIOUS
    <3>1. ch[s] = Taken(s) /\ Taken(s) \in S
      BY <1>1
    <3>2. g[s \ {Taken(s)}] \in Int
      OBVIOUS
    <3> QED BY <3>1, <3>2
  <2>5. P(g, S)
    <3>1. \A s \in SUBSET S : g[s] = IF s = {} THEN 0 ELSE f[Taken(s)] + g[s \ {Taken(s)}]
      BY <2>3, <2>4
    <3> QED BY <3>1
  <2> QED BY <2>5
<1>3. PICK g \in [SUBSET S -> Int] : P(g, S)
  BY <1>2
<1>4. ASSUME NEW T \in SUBSET S PROVE SumFunctionOnSet(f, T) = g[T]
  <2> DEFINE h == CHOOSE k : P(k, T)
  <2>1. SumFunctionOnSet(f, T) = h[T]
    BY DEF SumFunctionOnSet, FoldFunctionOnSet, MapThenFoldSet, Taken
  <2>2. P([s \in SUBSET T |-> g[s]], T)
    <3>1. \A s \in SUBSET T : s # {} => s \ {Taken(s)} \in SUBSET T
      OBVIOUS
    <3> QED BY <1>3, <3>1
  <2>3. P(h, T)
    <3> HIDE DEF P
    <3> QED BY <2>2
  <2> HIDE DEF h
  <2> DEFINE Same == {s \in SUBSET T : g[s] = h[s]}
  <2>4. ASSUME NEW s \in SUBSET T, \A u \in SUBSET s : u # s => u \in Same PROVE s \in Same
    <3>1. CASE s = {}
      BY <1>3, <2>3, <3>1
    <3>2. CASE s # {}
      <4>1. Taken(s) \in s
        BY <1>1, <3>2
      <4>2. g[s \ {Taken(s)}] = h[s \ {Taken(s)}]
        BY <2>4, <4>1
      <4>3. g[s] = f[Taken(s)] + g[s \ {Taken(s)}] /\ h[s] = f[Taken(s)] + h[s \ {Taken(s)}]
        BY <1>3, <2>3, <3>2
      <4> QED BY <4>2, <4>3
    <3> QED BY <3>1, <3>2
  <2>5. T \in Same
    <3> HIDE DEF Same
    <3>1. IsFiniteSet(T)
      BY FS_Subset
    <3> QED BY <2>4, <3>1, SubsetInduction
  <2> QED BY <2>1, <2>5
<1>5. \A T \in SUBSET S : g[T] \in Int /\ g[T] = IF T = {} THEN 0 ELSE f[Taken(T)] + g[T \ {Taken(T)}]
  BY <1>3
<1> HIDE DEF P
<1>6. \A T \in SUBSET S : T # {} => T \ {Taken(T)} \in SUBSET S
  OBVIOUS
<1> QED BY <1>4, <1>5, <1>6

(* The sum over no elements.                                                *)
LEMMA SumEmpty == \A f : SumFunctionOnSet(f, {}) = 0
<1> TAKE f
<1>1. \A x \in {} : f[x] \in Int
  OBVIOUS
<1>2. \A T \in SUBSET {} :
        SumFunctionOnSet(f, T) = IF T = {} THEN 0 ELSE f[Taken(T)] + SumFunctionOnSet(f, T \ {Taken(T)})
  BY <1>1, SumEquation, FS_EmptySet
<1> QED BY <1>2

(* Taken one element may be taken out of a sum.                               *)
LEMMA SumPick ==
  ASSUME NEW S, IsFiniteSet(S), NEW f, \A x \in S : f[x] \in Int
  PROVE  \A T \in SUBSET S : \A x \in T :
           SumFunctionOnSet(f, T) = f[x] + SumFunctionOnSet(f, T \ {x})
<1> DEFINE sum(T) == SumFunctionOnSet(f, T)
           Good == {T \in SUBSET S : \A x \in T : sum(T) = f[x] + sum(T \ {x})}
<1>1. \A T \in SUBSET S : sum(T) \in Int
  BY SumEquation
<1>2. \A T \in SUBSET S : T # {} => Taken(T) \in T /\ sum(T) = f[Taken(T)] + sum(T \ {Taken(T)})
  <2>1. \A T \in SUBSET S : T # {} => Taken(T) \in T
    BY DEF Taken
  <2> QED BY <2>1, SumEquation
<1> HIDE DEF sum
<1>3. ASSUME NEW T \in SUBSET S, \A U \in SUBSET T : U # T => U \in Good PROVE T \in Good
  <2> SUFFICES ASSUME NEW x \in T PROVE sum(T) = f[x] + sum(T \ {x})
    OBVIOUS
  <2> DEFINE a == Taken(T)
  <2>1. a \in T /\ sum(T) = f[a] + sum(T \ {a})
    BY <1>2
  <2> HIDE DEF a
  <2>2. CASE x = a
    BY <2>1, <2>2
  <2>3. CASE x # a
    <3>1. T \ {a} \in Good /\ T \ {x} \in Good
      BY <1>3, <2>1
    <3>2. sum(T \ {a}) = f[x] + sum((T \ {a}) \ {x})
      BY <2>3, <3>1
    <3>3. sum(T \ {x}) = f[a] + sum((T \ {x}) \ {a})
      BY <2>1, <2>3, <3>1
    <3>4. (T \ {a}) \ {x} = (T \ {x}) \ {a}
      OBVIOUS
    <3>6. sum((T \ {a}) \ {x}) = sum((T \ {x}) \ {a})
      BY <3>4
    <3>5. f[x] \in Int /\ f[a] \in Int /\ sum((T \ {x}) \ {a}) \in Int
      BY <1>1, <2>1
    <3> QED BY <2>1, <3>2, <3>3, <3>5, <3>6
  <2> QED BY <2>2, <2>3
<1>4. \A T \in SUBSET S : T \in Good
  <2> HIDE DEF Good
  <2> QED BY <1>3, SubsetInduction
<1> QED BY <1>4 DEF sum

(* A sum of integers is one; over a nonempty set it is an element's term    *)
(* and the sum of the rest.                                                 *)
LEMMA SumSteps ==
  ASSUME NEW S, IsFiniteSet(S), NEW f, \A x \in S : f[x] \in Int
  PROVE  /\ SumFunctionOnSet(f, S) \in Int
         /\ \A x \in S : /\ SumFunctionOnSet(f, S \ {x}) \in Int
                         /\ SumFunctionOnSet(f, S) = f[x] + SumFunctionOnSet(f, S \ {x})
<1>1. \A T \in SUBSET S : SumFunctionOnSet(f, T) \in Int
  BY SumEquation
<1>2. \A x \in S : SumFunctionOnSet(f, S) = f[x] + SumFunctionOnSet(f, S \ {x})
  BY SumPick
<1> QED BY <1>1, <1>2

(* A larger term makes a sum no smaller.                                    *)
LEMMA SumMonotone ==
  ASSUME NEW S, IsFiniteSet(S), NEW f, NEW g,
         \A x \in S : f[x] \in Int /\ g[x] \in Int /\ f[x] <= g[x]
  PROVE  SumFunctionOnSet(f, S) <= SumFunctionOnSet(g, S)
<1> DEFINE Good == {T \in SUBSET S : SumFunctionOnSet(f, T) <= SumFunctionOnSet(g, T)}
<1>1. ASSUME NEW T \in SUBSET S, \A U \in SUBSET T : U # T => U \in Good PROVE T \in Good
  <2>0. IsFiniteSet(T)
    BY FS_Subset
  <2>1. CASE T = {}
    BY <2>1, SumEmpty
  <2>2. CASE T # {}
    <3>1. PICK x \in T : TRUE
      BY <2>2
    <3>2. T \ {x} \in Good
      BY <1>1, <3>1
    <3>3. /\ SumFunctionOnSet(f, T) = f[x] + SumFunctionOnSet(f, T \ {x})
          /\ SumFunctionOnSet(f, T \ {x}) \in Int
      BY <2>0, SumSteps
    <3>4. /\ SumFunctionOnSet(g, T) = g[x] + SumFunctionOnSet(g, T \ {x})
          /\ SumFunctionOnSet(g, T \ {x}) \in Int
      BY <2>0, SumSteps
    <3> QED BY <3>2, <3>3, <3>4
  <2> QED BY <2>1, <2>2
<1> HIDE DEF Good
<1>2. S \in Good
  BY <1>1, SubsetInduction
<1> QED BY <1>2 DEF Good

(* A sum depends on its terms alone.                                        *)
LEMMA SumAgrees ==
  ASSUME NEW S, IsFiniteSet(S), NEW f, NEW g,
         \A x \in S : f[x] \in Int /\ f[x] = g[x]
  PROVE  SumFunctionOnSet(f, S) = SumFunctionOnSet(g, S)
<1>1. SumFunctionOnSet(f, S) <= SumFunctionOnSet(g, S)
  BY SumMonotone
<1>2. SumFunctionOnSet(g, S) <= SumFunctionOnSet(f, S)
  BY SumMonotone
<1>3. SumFunctionOnSet(f, S) \in Int /\ SumFunctionOnSet(g, S) \in Int
  BY SumSteps
<1> QED BY <1>1, <1>2, <1>3

(* Terms of which none exceeds b add up to no more than b of each.          *)
LEMMA SumAtMost ==
  ASSUME NEW S, IsFiniteSet(S), NEW f, NEW b \in Int, \A x \in S : f[x] \in Int /\ f[x] <= b
  PROVE  SumFunctionOnSet(f, S) <= b * Cardinality(S)
<1> DEFINE Good == {T \in SUBSET S : SumFunctionOnSet(f, T) <= b * Cardinality(T)}
<1>1. ASSUME NEW T \in SUBSET S, \A U \in SUBSET T : U # T => U \in Good PROVE T \in Good
  <2>0. IsFiniteSet(T) /\ Cardinality(T) \in Nat
    BY FS_Subset, FS_CardinalityType
  <2>1. CASE T = {}
    <3>1. Cardinality(T) = 0
      BY <2>1, FS_EmptySet
    <3> QED BY <2>1, <3>1, SumEmpty
  <2>2. CASE T # {}
    <3>1. PICK x \in T : TRUE
      BY <2>2
    <3> DEFINE n == Cardinality(T \ {x})
    <3>2. SumFunctionOnSet(f, T \ {x}) <= b * n
      BY <1>1, <3>1
    <3>3. /\ SumFunctionOnSet(f, T) = f[x] + SumFunctionOnSet(f, T \ {x})
          /\ SumFunctionOnSet(f, T \ {x}) \in Int
      BY <2>0, SumSteps
    <3>4. n = Cardinality(T) - 1 /\ n \in Nat
      BY <2>0, FS_RemoveElement, FS_CardinalityType
    <3> HIDE DEF n
    <3>5. b * Cardinality(T) = b * n + b
      <4>1. Cardinality(T) = n + 1
        BY <2>0, <3>4
      <4>2. b * (n + 1) = b * n + b
        BY <3>4
      <4> QED BY <4>1, <4>2
    <3>6. b * n \in Int
      BY <3>4
    <3> QED BY <3>2, <3>3, <3>5, <3>6
  <2> QED BY <2>1, <2>2
<1> HIDE DEF Good
<1>2. S \in Good
  BY <1>1, SubsetInduction
<1> QED BY <1>2 DEF Good

(* Terms that are not negative add up to more the more of them there are;   *)
(* terms that are zero add up to zero.                                      *)
LEMMA SumOfNaturals ==
  ASSUME NEW S, IsFiniteSet(S), NEW f, \A x \in S : f[x] \in Nat
  PROVE  /\ SumFunctionOnSet(f, S) \in Nat
         /\ (\A x \in S : f[x] = 0) => SumFunctionOnSet(f, S) = 0
<1> DEFINE zero == [x \in S |-> 0]
           Good == {T \in SUBSET S : SumFunctionOnSet(zero, T) = 0}
<1>1. ASSUME NEW T \in SUBSET S, \A U \in SUBSET T : U # T => U \in Good PROVE T \in Good
  <2>0. IsFiniteSet(T)
    BY FS_Subset
  <2>1. CASE T = {}
    BY <2>1, SumEmpty
  <2>2. CASE T # {}
    <3>1. PICK x \in T : TRUE
      BY <2>2
    <3>2. SumFunctionOnSet(zero, T \ {x}) = 0
      BY <1>1, <3>1
    <3>3. zero[x] = 0 /\ \A y \in T : zero[y] \in Int
      OBVIOUS
    <3> HIDE DEF zero
    <3>4. SumFunctionOnSet(zero, T) = zero[x] + SumFunctionOnSet(zero, T \ {x})
      BY <2>0, <3>3, SumSteps
    <3> QED BY <3>2, <3>3, <3>4
  <2> QED BY <2>1, <2>2
<1>2. SumFunctionOnSet(zero, S) = 0
  <2> HIDE DEF Good
  <2>1. S \in Good
    BY <1>1, SubsetInduction
  <2> QED BY <2>1 DEF Good
<1>3. \A x \in S : zero[x] = 0 /\ zero[x] \in Int /\ f[x] \in Int /\ zero[x] <= f[x]
  OBVIOUS
<1> HIDE DEF zero
<1>4. SumFunctionOnSet(zero, S) <= SumFunctionOnSet(f, S)
  BY <1>3, SumMonotone
<1>5. SumFunctionOnSet(f, S) \in Int
  BY SumSteps
<1>6. (\A x \in S : f[x] = 0) => SumFunctionOnSet(f, S) = SumFunctionOnSet(zero, S)
  BY <1>3, SumAgrees
<1> QED BY <1>2, <1>4, <1>5, <1>6

(* The sum over two disjoint sets.                                          *)
LEMMA SumOfUnion ==
  ASSUME NEW S, IsFiniteSet(S), NEW R, IsFiniteSet(R), S \cap R = {},
         NEW f, \A x \in S \cup R : f[x] \in Int
  PROVE  SumFunctionOnSet(f, S \cup R) = SumFunctionOnSet(f, S) + SumFunctionOnSet(f, R)
<1> DEFINE Good == {T \in SUBSET S :
             SumFunctionOnSet(f, T \cup R) = SumFunctionOnSet(f, T) + SumFunctionOnSet(f, R)}
<1>0. SumFunctionOnSet(f, R) \in Int
  BY SumSteps
<1>1. ASSUME NEW T \in SUBSET S, \A U \in SUBSET T : U # T => U \in Good PROVE T \in Good
  <2>0. IsFiniteSet(T) /\ IsFiniteSet(T \cup R) /\ \A x \in T \cup R : f[x] \in Int
    BY FS_Subset, FS_Union
  <2>1. CASE T = {}
    <3>1. T \cup R = R
      BY <2>1
    <3> QED BY <1>0, <2>1, <3>1, SumEmpty
  <2>2. CASE T # {}
    <3>1. PICK x \in T : TRUE
      BY <2>2
    <3>2. SumFunctionOnSet(f, (T \ {x}) \cup R) = SumFunctionOnSet(f, T \ {x}) + SumFunctionOnSet(f, R)
      BY <1>1, <3>1
    <3>3. /\ SumFunctionOnSet(f, T) = f[x] + SumFunctionOnSet(f, T \ {x})
          /\ SumFunctionOnSet(f, T \ {x}) \in Int
      BY <2>0, SumSteps
    <3>4. (T \cup R) \ {x} = (T \ {x}) \cup R /\ x \in T \cup R
      BY <3>1
    <3>5. SumFunctionOnSet(f, T \cup R) = f[x] + SumFunctionOnSet(f, (T \ {x}) \cup R)
      <4>1. SumFunctionOnSet(f, T \cup R) = f[x] + SumFunctionOnSet(f, (T \cup R) \ {x})
        BY <2>0, <3>4, SumSteps
      <4> QED BY <3>4, <4>1
    <3> QED BY <1>0, <3>2, <3>3, <3>5
  <2> QED BY <2>1, <2>2
<1> HIDE DEF Good
<1>2. S \in Good
  BY <1>1, SubsetInduction
<1> QED BY <1>2 DEF Good

(* The part of a sum of naturals is no larger than the whole.               *)
LEMMA SumOfPart ==
  ASSUME NEW S, IsFiniteSet(S), NEW f, \A x \in S : f[x] \in Nat, NEW T \in SUBSET S
  PROVE  SumFunctionOnSet(f, T) <= SumFunctionOnSet(f, S)
<1>1. IsFiniteSet(T) /\ IsFiniteSet(S \ T)
  BY FS_Subset, FS_Difference
<1>2. T \cup (S \ T) = S /\ T \cap (S \ T) = {}
  OBVIOUS
<1>3. SumFunctionOnSet(f, T \cup (S \ T)) = SumFunctionOnSet(f, T) + SumFunctionOnSet(f, S \ T)
  BY <1>1, <1>2, SumOfUnion
<1>4. SumFunctionOnSet(f, T) \in Nat /\ SumFunctionOnSet(f, S \ T) \in Nat
  BY <1>1, SumOfNaturals
<1>5. SumFunctionOnSet(f, S) = SumFunctionOnSet(f, T) + SumFunctionOnSet(f, S \ T)
  BY <1>2, <1>3
<1> QED BY <1>4, <1>5

(* The smaller of two numbers.                                              *)
LEMMA MinOfTwo ==
  ASSUME NEW a \in Int, NEW b \in Int
  PROVE  Min({a, b}) = IF a <= b THEN a ELSE b
<1> DEFINE m == IF a <= b THEN a ELSE b
<1>1. m \in {a, b} /\ \A y \in {a, b} : m <= y
  OBVIOUS
<1>2. \A x \in {a, b} : (\A y \in {a, b} : x <= y) => x = m
  OBVIOUS
<1> QED BY <1>1, <1>2 DEF Min

(* The larger of two numbers.                                               *)
LEMMA MaxOfTwo ==
  ASSUME NEW a \in Int, NEW b \in Int
  PROVE  Max({a, b}) = IF a >= b THEN a ELSE b
<1> DEFINE m == IF a >= b THEN a ELSE b
<1>1. m \in {a, b} /\ \A y \in {a, b} : m >= y
  OBVIOUS
<1>2. \A x \in {a, b} : (\A y \in {a, b} : x >= y) => x = m
  OBVIOUS
<1> QED BY <1>1, <1>2 DEF Max

(* max(0): the number, or zero when it is below.                            *)
LEMMA AtLeastZeroIs ==
  ASSUME NEW n \in Int
  PROVE  /\ AtLeastZero(n) \in Nat
         /\ AtLeastZero(n) = IF n >= 0 THEN n ELSE 0
  BY MaxOfTwo DEF AtLeastZero

(* A saturating addition is the sum, or the largest integer.                *)
LEMMA SatAddIs ==
  ASSUME NEW a \in Int, NEW b \in Int
  PROVE  /\ SatAdd(a, b) \in Int
         /\ SatAdd(a, b) = IF a + b <= MaxInt THEN a + b ELSE MaxInt
<1>1. MaxInt \in Int /\ a + b \in Int
  BY BoundsAssumption
<1>2. SatAdd(a, b) = IF MaxInt <= a + b THEN MaxInt ELSE a + b
  BY <1>1, MinOfTwo DEF SatAdd
<1> QED BY <1>1, <1>2

(* The saturating sum of f over S.                                          *)
Saturated(f, S) == FoldFunctionOnSet(SatAdd, 0, f, S)

(* A saturating sum is defined by its equation.                             *)
LEMMA SatEquation ==
  ASSUME NEW S, IsFiniteSet(S), NEW f, \A x \in S : f[x] \in Int
  PROVE  \A T \in SUBSET S :
           /\ Saturated(f, T) \in Int
           /\ Saturated(f, T) =
                IF T = {} THEN 0 ELSE SatAdd(f[Taken(T)], Saturated(f, T \ {Taken(T)}))
<1> DEFINE ch      == [s \in (SUBSET S) \ {{}} |-> Taken(s)]
           step    == [x \in S |-> [v \in Int |-> SatAdd(f[x], v)]]
           P(h, T) == h = [s \in SUBSET T |-> IF s = {} THEN 0
                                              ELSE SatAdd(f[Taken(s)], h[s \ {Taken(s)}])]
<1>1. \A s \in (SUBSET S) \ {{}} : Taken(s) \in s
  BY DEF Taken
<1>2. \E g \in [SUBSET S -> Int] : P(g, S)
  <2>1. Foldable(S, Int, 0, ch, step)
    <3>1. \A x \in S, v \in Int : SatAdd(f[x], v) \in Int
      BY SatAddIs
    <3> QED BY <1>1, <3>1 DEF Foldable
  <2>2. PICK g \in [SUBSET S -> Int] : IsFold(g, S, 0, ch, step)
    <3> HIDE DEF ch, step
    <3> QED BY <2>1, FoldExists
  <2>3. \A s \in SUBSET S : g[s] = IF s = {} THEN 0 ELSE step[ch[s]][g[s \ {ch[s]}]]
    BY <2>2 DEF IsFold
  <2>4. \A s \in (SUBSET S) \ {{}} :
          step[ch[s]][g[s \ {ch[s]}]] = SatAdd(f[Taken(s)], g[s \ {Taken(s)}])
    <3> SUFFICES ASSUME NEW s \in (SUBSET S) \ {{}}
                 PROVE  step[ch[s]][g[s \ {ch[s]}]] = SatAdd(f[Taken(s)], g[s \ {Taken(s)}])
      OBVIOUS
    <3>1. ch[s] = Taken(s) /\ Taken(s) \in S
      BY <1>1
    <3>2. g[s \ {Taken(s)}] \in Int
      OBVIOUS
    <3> QED BY <3>1, <3>2
  <2>5. P(g, S)
    <3>1. \A s \in SUBSET S : g[s] = IF s = {} THEN 0 ELSE SatAdd(f[Taken(s)], g[s \ {Taken(s)}])
      BY <2>3, <2>4
    <3> QED BY <3>1
  <2> QED BY <2>5
<1>3. PICK g \in [SUBSET S -> Int] : P(g, S)
  BY <1>2
<1>4. ASSUME NEW T \in SUBSET S PROVE Saturated(f, T) = g[T]
  <2> DEFINE h == CHOOSE k : P(k, T)
  <2>1. Saturated(f, T) = h[T]
    BY DEF Saturated, FoldFunctionOnSet, MapThenFoldSet, Taken
  <2>2. P([s \in SUBSET T |-> g[s]], T)
    <3>1. \A s \in SUBSET T : s # {} => s \ {Taken(s)} \in SUBSET T
      OBVIOUS
    <3> QED BY <1>3, <3>1
  <2>3. P(h, T)
    <3> HIDE DEF P
    <3> QED BY <2>2
  <2> HIDE DEF h
  <2> DEFINE Same == {s \in SUBSET T : g[s] = h[s]}
  <2>4. ASSUME NEW s \in SUBSET T, \A u \in SUBSET s : u # s => u \in Same PROVE s \in Same
    <3>1. CASE s = {}
      BY <1>3, <2>3, <3>1
    <3>2. CASE s # {}
      <4>1. Taken(s) \in s
        BY <1>1, <3>2
      <4>2. g[s \ {Taken(s)}] = h[s \ {Taken(s)}]
        BY <2>4, <4>1
      <4>3. /\ g[s] = SatAdd(f[Taken(s)], g[s \ {Taken(s)}])
            /\ h[s] = SatAdd(f[Taken(s)], h[s \ {Taken(s)}])
        BY <1>3, <2>3, <3>2
      <4> QED BY <4>2, <4>3
    <3> QED BY <3>1, <3>2
  <2>5. T \in Same
    <3> HIDE DEF Same
    <3>1. IsFiniteSet(T)
      BY FS_Subset
    <3> QED BY <2>4, <3>1, SubsetInduction
  <2> QED BY <2>1, <2>5
<1>5. \A T \in SUBSET S :
        g[T] \in Int /\ g[T] = IF T = {} THEN 0 ELSE SatAdd(f[Taken(T)], g[T \ {Taken(T)}])
  BY <1>3
<1> HIDE DEF P
<1>6. \A T \in SUBSET S : T # {} => T \ {Taken(T)} \in SUBSET S
  OBVIOUS
<1> QED BY <1>4, <1>5, <1>6

(* A saturating sum whose partial sums all fit is the sum.                  *)
LEMMA SaturatedFits ==
  ASSUME NEW S, IsFiniteSet(S), NEW f, \A x \in S : f[x] \in Int,
         \A T \in SUBSET S : SumFunctionOnSet(f, T) <= MaxInt
  PROVE  Saturated(f, S) = SumFunctionOnSet(f, S)
<1> DEFINE Good == {T \in SUBSET S : Saturated(f, T) = SumFunctionOnSet(f, T)}
<1>1. ASSUME NEW T \in SUBSET S, \A U \in SUBSET T : U # T => U \in Good PROVE T \in Good
  <2>0. IsFiniteSet(T)
    BY FS_Subset
  <2>1. CASE T = {}
    BY <2>1, SumEmpty, SatEquation
  <2>2. CASE T # {}
    <3> DEFINE x == Taken(T)
    <3>1. x \in T
      BY <2>2 DEF Taken
    <3>2. Saturated(f, T) = SatAdd(f[x], Saturated(f, T \ {x}))
      BY <2>2, SatEquation
    <3> HIDE DEF x
    <3>3. Saturated(f, T \ {x}) = SumFunctionOnSet(f, T \ {x})
      BY <1>1, <3>1
    <3>4. /\ SumFunctionOnSet(f, T) = f[x] + SumFunctionOnSet(f, T \ {x})
          /\ SumFunctionOnSet(f, T \ {x}) \in Int /\ f[x] \in Int
      BY <2>0, <3>1, SumSteps
    <3>5. SumFunctionOnSet(f, T) <= MaxInt
      OBVIOUS
    <3> QED BY <3>2, <3>3, <3>4, <3>5, SatAddIs
  <2> QED BY <2>1, <2>2
<1> HIDE DEF Good
<1>2. S \in Good
  BY <1>1, SubsetInduction
<1> QED BY <1>2 DEF Good

(* A saturating sum of naturals is the sum, or the largest integer.         *)
LEMMA SaturatedNaturals ==
  ASSUME NEW S, IsFiniteSet(S), NEW f, \A x \in S : f[x] \in Nat
  PROVE  Saturated(f, S) =
           IF SumFunctionOnSet(f, S) <= MaxInt THEN SumFunctionOnSet(f, S) ELSE MaxInt
<1> DEFINE cut(n) == IF n <= MaxInt THEN n ELSE MaxInt
           Good == {T \in SUBSET S : Saturated(f, T) = cut(SumFunctionOnSet(f, T))}
<1>1. ASSUME NEW T \in SUBSET S, \A U \in SUBSET T : U # T => U \in Good PROVE T \in Good
  <2>0. IsFiniteSet(T)
    BY FS_Subset
  <2>1. CASE T = {}
    <3>1. Saturated(f, T) = 0
      <4>1. \A x \in S : f[x] \in Int
        OBVIOUS
      <4> QED BY <2>1, <4>1, SatEquation
    <3>2. SumFunctionOnSet(f, T) = 0 /\ cut(0) = 0
      BY <2>1, SumEmpty, BoundsAssumption
    <3> QED BY <3>1, <3>2
  <2>2. CASE T # {}
    <3> DEFINE x == Taken(T)
    <3>1. x \in T
      BY <2>2 DEF Taken
    <3>2. Saturated(f, T) = SatAdd(f[x], Saturated(f, T \ {x}))
      BY <2>2, SatEquation
    <3> HIDE DEF x
    <3>3. Saturated(f, T \ {x}) = cut(SumFunctionOnSet(f, T \ {x}))
      BY <1>1, <3>1
    <3>4. SumFunctionOnSet(f, T) = f[x] + SumFunctionOnSet(f, T \ {x}) /\ f[x] \in Nat
      BY <2>0, <3>1, SumSteps
    <3>5. SumFunctionOnSet(f, T \ {x}) \in Nat
      <4>1. IsFiniteSet(T \ {x})
        BY <2>0, FS_RemoveElement
      <4> QED BY <4>1, SumOfNaturals
    <3>6. cut(SumFunctionOnSet(f, T \ {x})) \in Int
      BY <3>5, BoundsAssumption
    <3>7. Saturated(f, T) = cut(f[x] + cut(SumFunctionOnSet(f, T \ {x})))
      <4>1. \A a, c \in Int : SatAdd(a, c) = cut(a + c)
        BY SatAddIs
      <4>2. f[x] \in Int
        BY <3>4
      <4> HIDE DEF cut
      <4> QED BY <3>2, <3>3, <3>6, <4>1, <4>2
    <3> QED BY <3>4, <3>5, <3>7, BoundsAssumption
  <2> QED BY <2>1, <2>2
<1> HIDE DEF Good
<1>2. S \in Good
  BY <1>1, SubsetInduction
<1> QED BY <1>2 DEF Good

Punches == [at : Int, exit : BOOLEAN]

(* The punches of a timeline follow one another.                            *)
LEMMA BeforeIsOrder ==
  ASSUME NEW a \in Punches, NEW b \in Punches
  PROVE  /\ a # b => Before(a, b) \/ Before(b, a)
         /\ \A c \in Punches : Before(a, b) /\ Before(b, c) => Before(a, c)
         /\ ~(Before(a, b) /\ Before(b, a))
<1>1. a.at \in Int /\ b.at \in Int /\ a.exit \in BOOLEAN /\ b.exit \in BOOLEAN
  BY DEF Punches
<1>2. a # b => a.at # b.at \/ a.exit # b.exit
  BY DEF Punches
<1>3. \A c \in Punches : c.at \in Int /\ c.exit \in BOOLEAN
  BY DEF Punches
<1> QED BY <1>1, <1>2, <1>3 DEF Before

(* A timeline that is not empty has a last punch.                           *)
LEMMA LastPunchIs ==
  ASSUME NEW S \in SUBSET Punches, IsFiniteSet(S), S # {}
  PROVE  LastPunch(S) \in S /\ \A q \in S \ {LastPunch(S)} : Before(q, LastPunch(S))
<1> DEFINE IsLast(p, T) == \A q \in T \ {p} : Before(q, p)
           Good == {T \in SUBSET S : T # {} => \E p \in T : IsLast(p, T)}
<1>1. ASSUME NEW T \in SUBSET S, \A U \in SUBSET T : U # T => U \in Good PROVE T \in Good
  <2> SUFFICES ASSUME T # {} PROVE \E p \in T : IsLast(p, T)
    OBVIOUS
  <2>1. PICK x \in T : TRUE
    OBVIOUS
  <2>2. T \ {x} \in Good
    BY <1>1, <2>1
  <2>3. CASE T \ {x} = {}
    BY <2>1, <2>3
  <2>4. CASE T \ {x} # {}
    <3>1. PICK p \in T \ {x} : IsLast(p, T \ {x})
      BY <2>2, <2>4
    <3>2. CASE Before(x, p)
      BY <3>1, <3>2
    <3>3. CASE ~Before(x, p)
      <4>1. Before(p, x)
        BY <3>1, <3>3, BeforeIsOrder
      <4>2. \A q \in T \ {x} : Before(q, x)
        <5>1. \A q \in (T \ {x}) \ {p} : Before(q, p) /\ q \in Punches
          BY <3>1
        <5>2. \A q \in (T \ {x}) \ {p} : Before(q, x)
          BY <4>1, <5>1, BeforeIsOrder
        <5> QED BY <4>1, <5>2
      <4> QED BY <4>2
    <3> QED BY <3>2, <3>3
  <2> QED BY <2>3, <2>4
<1>2. S \in Good
  <2> HIDE DEF Good
  <2> QED BY <1>1, SubsetInduction
<1> QED BY <1>2 DEF LastPunch

(* The earliest and the latest of a finite set of integers.                 *)
LEMMA MinIs ==
  ASSUME NEW S \in SUBSET Int, IsFiniteSet(S), S # {}
  PROVE  Min(S) \in S /\ \A y \in S : Min(S) <= y
<1> DEFINE Good == {T \in SUBSET S : T # {} => \E m \in T : \A y \in T : m <= y}
<1>1. ASSUME NEW T \in SUBSET S, \A U \in SUBSET T : U # T => U \in Good PROVE T \in Good
  <2> SUFFICES ASSUME T # {} PROVE \E m \in T : \A y \in T : m <= y
    OBVIOUS
  <2>1. PICK x \in T : TRUE
    OBVIOUS
  <2>2. T \ {x} \in Good
    BY <1>1, <2>1
  <2>3. CASE T \ {x} = {}
    BY <2>1, <2>3
  <2>4. CASE T \ {x} # {}
    <3>1. PICK m \in T \ {x} : \A y \in T \ {x} : m <= y
      BY <2>2, <2>4
    <3>2. CASE x <= m
      <4>1. \A y \in T : x <= y
        BY <3>1, <3>2
      <4> QED BY <4>1
    <3>3. CASE ~(x <= m)
      <4>1. \A y \in T : m <= y
        BY <3>1, <3>3
      <4> QED BY <4>1
    <3> QED BY <3>2, <3>3
  <2> QED BY <2>3, <2>4
<1>2. S \in Good
  <2> HIDE DEF Good
  <2> QED BY <1>1, SubsetInduction
<1> QED BY <1>2 DEF Min

(* Where a largest element exists, Max is that element.                     *)
LEMMA MaxIs ==
  ASSUME NEW S \in SUBSET Int, IsFiniteSet(S), S # {}
  PROVE  Max(S) \in S /\ \A y \in S : Max(S) >= y
<1> DEFINE Good == {T \in SUBSET S : T # {} => \E m \in T : \A y \in T : m >= y}
<1>1. ASSUME NEW T \in SUBSET S, \A U \in SUBSET T : U # T => U \in Good PROVE T \in Good
  <2> SUFFICES ASSUME T # {} PROVE \E m \in T : \A y \in T : m >= y
    OBVIOUS
  <2>1. PICK x \in T : TRUE
    OBVIOUS
  <2>2. T \ {x} \in Good
    BY <1>1, <2>1
  <2>3. CASE T \ {x} = {}
    BY <2>1, <2>3
  <2>4. CASE T \ {x} # {}
    <3>1. PICK m \in T \ {x} : \A y \in T \ {x} : m >= y
      BY <2>2, <2>4
    <3>2. CASE x >= m
      <4>1. \A y \in T : x >= y
        BY <3>1, <3>2
      <4> QED BY <4>1
    <3>3. CASE ~(x >= m)
      <4>1. \A y \in T : m >= y
        BY <3>1, <3>3
      <4> QED BY <4>1
    <3> QED BY <3>2, <3>3
  <2> QED BY <2>3, <2>4
<1>2. S \in Good
  <2> HIDE DEF Good
  <2> QED BY <1>1, SubsetInduction
<1> QED BY <1>2 DEF Max

(* The scan of a timeline, and what it can come to.                         *)
Scanned(S) ==
  MapThenFoldSet(LAMBDA punch, scan : Scan(scan, punch), Unscanned, LAMBDA p : p, LastPunch, S)

Scans == [seconds : Int, blocks : Nat, open : {{}} \cup {{t} : t \in Int}]

(* One step of the scan: what the last punch of a set adds to the scan of   *)
(* the others.                                                              *)
LEMMA ScanStep ==
  ASSUME NEW v \in Scans, NEW p \in Punches
  PROVE  Scan(v, p) \in Scans
<1>1. p.at \in Int /\ v.seconds \in Int /\ v.blocks \in Nat
  BY DEF Punches, Scans
<1>2. v.open = {} \/ \E t \in Int : v.open = {t}
  BY DEF Scans
<1>3. \A t \in Int : Min({t}) = t
  BY DEF Min
<1>4. v.open = {} \/ Min(v.open) \in Int
  BY <1>2, <1>3
<1>5. CASE ~p.exit
  <2>1. Scan(v, p) = [v EXCEPT !.open = IF @ = {} THEN {p.at} ELSE @]
    BY <1>5 DEF Scan
  <2> QED BY <1>1, <1>2, <2>1 DEF Scans
<1>6. CASE p.exit
  <2>1. /\ Scan(v, p).seconds \in Int /\ Scan(v, p).blocks \in Nat
        /\ Scan(v, p) = [seconds |-> Scan(v, p).seconds, blocks |-> Scan(v, p).blocks, open |-> {}]
    BY <1>1, <1>4, <1>6 DEF Scan
  <2> QED BY <2>1 DEF Scans
<1> QED BY <1>5, <1>6

(* The scan is defined by its equation: the last punch comes last.          *)
LEMMA ScanEquation ==
  ASSUME NEW S \in SUBSET Punches, IsFiniteSet(S)
  PROVE  \A T \in SUBSET S :
           /\ Scanned(T) \in Scans
           /\ Scanned(T) =
                IF T = {} THEN Unscanned ELSE Scan(Scanned(T \ {LastPunch(T)}), LastPunch(T))
<1> DEFINE ch      == [s \in (SUBSET S) \ {{}} |-> LastPunch(s)]
           step    == [x \in S |-> [v \in Scans |-> Scan(v, x)]]
           P(h, T) == h = [s \in SUBSET T |-> IF s = {} THEN Unscanned
                                              ELSE Scan(h[s \ {LastPunch(s)}], LastPunch(s))]
<1>1. \A s \in (SUBSET S) \ {{}} : LastPunch(s) \in s
  BY FS_Subset, LastPunchIs
<1>2. \E g \in [SUBSET S -> Scans] : P(g, S)
  <2>1. Foldable(S, Scans, Unscanned, ch, step)
    <3>1. \A x \in S, v \in Scans : Scan(v, x) \in Scans
      BY ScanStep
    <3>2. Unscanned \in Scans
      BY DEF Unscanned, Scans
    <3> QED BY <1>1, <3>1, <3>2 DEF Foldable
  <2>2. PICK g \in [SUBSET S -> Scans] : IsFold(g, S, Unscanned, ch, step)
    <3> HIDE DEF ch, step
    <3> QED BY <2>1, FoldExists
  <2>3. \A s \in SUBSET S : g[s] = IF s = {} THEN Unscanned ELSE step[ch[s]][g[s \ {ch[s]}]]
    BY <2>2 DEF IsFold
  <2>4. \A s \in (SUBSET S) \ {{}} :
          step[ch[s]][g[s \ {ch[s]}]] = Scan(g[s \ {LastPunch(s)}], LastPunch(s))
    <3> SUFFICES ASSUME NEW s \in (SUBSET S) \ {{}}
                 PROVE  step[ch[s]][g[s \ {ch[s]}]] = Scan(g[s \ {LastPunch(s)}], LastPunch(s))
      OBVIOUS
    <3>1. ch[s] = LastPunch(s) /\ LastPunch(s) \in S
      BY <1>1
    <3>2. g[s \ {LastPunch(s)}] \in Scans
      OBVIOUS
    <3> QED BY <3>1, <3>2
  <2>5. P(g, S)
    <3>1. \A s \in SUBSET S :
            g[s] = IF s = {} THEN Unscanned ELSE Scan(g[s \ {LastPunch(s)}], LastPunch(s))
      BY <2>3, <2>4
    <3> QED BY <3>1
  <2> QED BY <2>5
<1>3. PICK g \in [SUBSET S -> Scans] : P(g, S)
  BY <1>2
<1>4. ASSUME NEW T \in SUBSET S PROVE Scanned(T) = g[T]
  <2> DEFINE h == CHOOSE k : P(k, T)
  <2>1. Scanned(T) = h[T]
    BY DEF Scanned, MapThenFoldSet
  <2>2. P([s \in SUBSET T |-> g[s]], T)
    <3>1. \A s \in SUBSET T : s # {} => s \ {LastPunch(s)} \in SUBSET T
      OBVIOUS
    <3> QED BY <1>3, <3>1
  <2>3. P(h, T)
    <3> HIDE DEF P
    <3> QED BY <2>2
  <2> HIDE DEF h
  <2> DEFINE Same == {s \in SUBSET T : g[s] = h[s]}
  <2>4. ASSUME NEW s \in SUBSET T, \A u \in SUBSET s : u # s => u \in Same PROVE s \in Same
    <3>1. CASE s = {}
      BY <1>3, <2>3, <3>1
    <3>2. CASE s # {}
      <4>1. LastPunch(s) \in s
        BY <1>1, <3>2
      <4>2. g[s \ {LastPunch(s)}] = h[s \ {LastPunch(s)}]
        BY <2>4, <4>1
      <4>3. /\ g[s] = Scan(g[s \ {LastPunch(s)}], LastPunch(s))
            /\ h[s] = Scan(h[s \ {LastPunch(s)}], LastPunch(s))
        BY <1>3, <2>3, <3>2
      <4> QED BY <4>2, <4>3
    <3> QED BY <3>1, <3>2
  <2>5. T \in Same
    <3> HIDE DEF Same
    <3>1. IsFiniteSet(T)
      BY FS_Subset
    <3> QED BY <2>4, <3>1, SubsetInduction
  <2> QED BY <2>1, <2>5
<1>5. \A T \in SUBSET S :
        /\ g[T] \in Scans
        /\ g[T] = IF T = {} THEN Unscanned ELSE Scan(g[T \ {LastPunch(T)}], LastPunch(T))
  BY <1>3
<1> HIDE DEF P
<1>6. \A T \in SUBSET S : T # {} => T \ {LastPunch(T)} \in SUBSET S
  OBVIOUS
<1> QED BY <1>4, <1>5, <1>6

(* What f maps a finite set to is finite.                                   *)
LEMMA FiniteImage ==
  ASSUME NEW S, IsFiniteSet(S), NEW f, NEW T, \A y \in T : \E x \in S : f[x] = y
  PROVE  IsFiniteSet(T)
<1> DEFINE R == {x \in S : f[x] \in T}
           g == [x \in R |-> f[x]]
<1>1. IsFiniteSet(R)
  BY FS_Subset
<1>2. g \in Surjection(R, T)
  BY DEF Surjection
<1> HIDE DEF R, g
<1> QED BY <1>1, <1>2, FS_Surjection

(* The entries and the exits of a timeline; the entries since the exit      *)
(* before x; the exits that close some; the entries that none closes.       *)
EntriesIn(S) == {p.at : p \in {q \in S : ~q.exit}}
ExitsIn(S)   == {p.at : p \in {q \in S : q.exit}}
Since(S, x)  == {e \in EntriesIn(S) : e <= x /\ \A y \in ExitsIn(S) : y < x => y < e}
Closing(S)   == {x \in ExitsIn(S) : Since(S, x) # {}}
LeftOver(S)  == {e \in EntriesIn(S) : \A y \in ExitsIn(S) : y < e}
Present(S)   == [x \in Closing(S) |-> x - Min(Since(S, x))]

(* The two sides of a timeline are its entries and its exits.               *)
LEMMA TimesOfTimeline ==
  ASSUME NEW S \in SUBSET Punches, IsFiniteSet(S)
  PROVE  /\ IsFiniteSet(EntriesIn(S)) /\ EntriesIn(S) \subseteq Int
         /\ IsFiniteSet(ExitsIn(S)) /\ ExitsIn(S) \subseteq Int
         /\ IsFiniteSet(Closing(S)) /\ IsFiniteSet(LeftOver(S))
         /\ \A x \in Closing(S) : Present(S)[x] \in Int
<1> DEFINE at == [p \in S |-> p.at]
<1>1. \A p \in S : p.at \in Int
  BY DEF Punches
<1>2. IsFiniteSet(EntriesIn(S))
  <2>1. \A y \in EntriesIn(S) : \E p \in S : at[p] = y
    BY DEF EntriesIn
  <2> HIDE DEF at
  <2> QED BY <2>1, FiniteImage
<1>3. IsFiniteSet(ExitsIn(S))
  <2>1. \A y \in ExitsIn(S) : \E p \in S : at[p] = y
    BY DEF ExitsIn
  <2> HIDE DEF at
  <2> QED BY <2>1, FiniteImage
<1>4. EntriesIn(S) \subseteq Int /\ ExitsIn(S) \subseteq Int
  BY <1>1 DEF EntriesIn, ExitsIn
<1>5. IsFiniteSet(Closing(S)) /\ IsFiniteSet(LeftOver(S))
  BY <1>2, <1>3, FS_Subset DEF Closing, LeftOver
<1>6. ASSUME NEW x \in Closing(S) PROVE Present(S)[x] \in Int
  <2>1. Since(S, x) # {} /\ x \in Int
    BY <1>4 DEF Closing
  <2>2. IsFiniteSet(Since(S, x)) /\ Since(S, x) \in SUBSET Int
    BY <1>2, <1>4, FS_Subset DEF Since
  <2>3. Min(Since(S, x)) \in Int
    BY <2>1, <2>2, MinIs
  <2> QED BY <2>1, <2>3 DEF Present
<1> QED BY <1>2, <1>3, <1>4, <1>5, <1>6

(* An entry after all the others adds to what is left over and to nothing   *)
(* else.                                                                    *)
LEMMA EntryComesLast ==
  ASSUME NEW T \in SUBSET Punches, NEW p \in T, ~p.exit, \A q \in T \ {p} : Before(q, p)
  PROVE  LET U == T \ {p}
         IN  /\ Closing(T) = Closing(U) /\ Present(T) = Present(U)
             /\ LeftOver(T) = LeftOver(U) \cup {p.at}
             /\ \A e \in LeftOver(U) : e < p.at
<1> DEFINE U == T \ {p}
<1>1. p.at \in Int /\ \A q \in U : q.at \in Int /\ q.at < p.at
  BY DEF Before, Punches
<1>2. EntriesIn(T) = EntriesIn(U) \cup {p.at} /\ ExitsIn(T) = ExitsIn(U)
  BY DEF EntriesIn, ExitsIn
<1>3. /\ \A x \in ExitsIn(U) : x \in Int /\ x < p.at
      /\ \A x \in EntriesIn(U) : x \in Int /\ x < p.at
  BY <1>1 DEF EntriesIn, ExitsIn
<1> HIDE DEF U
<1>4. \A x \in ExitsIn(U) : Since(T, x) = Since(U, x)
  BY <1>1, <1>2, <1>3 DEF Since
<1>5. Closing(T) = Closing(U)
  BY <1>2, <1>4 DEF Closing
<1>6. \A x \in Closing(U) : x - Min(Since(T, x)) = x - Min(Since(U, x))
  BY <1>4 DEF Closing
<1>7. Present(T) = Present(U)
  BY <1>5, <1>6 DEF Present
<1>8. LeftOver(T) = LeftOver(U) \cup {p.at} /\ \A e \in LeftOver(U) : e < p.at
  BY <1>2, <1>3 DEF LeftOver
<1> QED BY <1>5, <1>7, <1>8 DEF U

(* An exit after all the other punches closes what they left over.          *)
LEMMA ExitComesLast ==
  ASSUME NEW T \in SUBSET Punches, NEW p \in T, p.exit, \A q \in T \ {p} : Before(q, p)
  PROVE  LET U == T \ {p}
         IN  /\ Since(T, p.at) = LeftOver(U) /\ LeftOver(T) = {}
             /\ p.at \notin Closing(U)
             /\ Closing(T) = Closing(U) \cup (IF LeftOver(U) = {} THEN {} ELSE {p.at})
             /\ \A x \in Closing(U) : Since(T, x) = Since(U, x)
<1> DEFINE U == T \ {p}
<1>1. p.at \in Int /\ \A q \in U : q.at \in Int /\ q.at <= p.at /\ (q.exit => q.at < p.at)
  BY DEF Before, Punches
<1>2. EntriesIn(T) = EntriesIn(U) /\ ExitsIn(T) = ExitsIn(U) \cup {p.at}
  BY DEF EntriesIn, ExitsIn
<1>3. /\ \A x \in ExitsIn(U) : x \in Int /\ x < p.at
      /\ \A x \in EntriesIn(U) : x \in Int /\ x <= p.at
  BY <1>1 DEF EntriesIn, ExitsIn
<1> HIDE DEF U
<1>4. \A x \in ExitsIn(U) : Since(T, x) = Since(U, x)
  BY <1>1, <1>2, <1>3 DEF Since
<1>5. Since(T, p.at) = LeftOver(U)
  BY <1>1, <1>2, <1>3 DEF Since, LeftOver
<1>6. LeftOver(T) = {}
  BY <1>1, <1>2, <1>3 DEF LeftOver
<1>7. p.at \notin Closing(U)
  BY <1>1, <1>3 DEF Closing
<1>8. Closing(T) = Closing(U) \cup (IF LeftOver(U) = {} THEN {} ELSE {p.at})
  BY <1>2, <1>4, <1>5 DEF Closing
<1>9. \A x \in Closing(U) : Since(T, x) = Since(U, x)
  BY <1>4 DEF Closing
<1> QED BY <1>5, <1>6, <1>7, <1>8, <1>9 DEF U

(* What the scan of a timeline measures.                                    *)
LEMMA ScanMeasures ==
  ASSUME NEW S \in SUBSET Punches, IsFiniteSet(S)
  PROVE  /\ Scanned(S).seconds = SumFunctionOnSet(Present(S), Closing(S))
         /\ Scanned(S).blocks = Cardinality(Closing(S))
         /\ Scanned(S).open = EarliestOf(LeftOver(S))
<1> DEFINE Measured(T) == /\ Scanned(T).seconds = SumFunctionOnSet(Present(T), Closing(T))
                          /\ Scanned(T).blocks = Cardinality(Closing(T))
                          /\ Scanned(T).open = EarliestOf(LeftOver(T))
           Good == {T \in SUBSET S : Measured(T)}
<1>1. ASSUME NEW T \in SUBSET S, \A U \in SUBSET T : U # T => U \in Good PROVE T \in Good
  <2>0. IsFiniteSet(T) /\ T \in SUBSET Punches
    BY FS_Subset
  <2>1. CASE T = {}
    <3>1. Closing(T) = {} /\ LeftOver(T) = {}
      BY <2>1 DEF Closing, LeftOver, EntriesIn, ExitsIn
    <3>2. Scanned(T) = Unscanned
      BY <2>0, <2>1, ScanEquation
    <3> QED BY <3>1, <3>2, SumEmpty, FS_EmptySet DEF Unscanned, EarliestOf
  <2>2. CASE T # {}
    <3> DEFINE p == LastPunch(T)
               U == T \ {p}
    <3>1. p \in T /\ \A q \in U : Before(q, p)
      BY <2>0, <2>2, LastPunchIs
    <3>2. Scanned(T) = Scan(Scanned(U), p) /\ Scanned(U) \in Scans
      <4>1. U \in SUBSET T
        OBVIOUS
      <4> HIDE DEF U
      <4>2. Scanned(U) \in Scans
        BY <2>0, <4>1, ScanEquation
      <4>3. Scanned(T) = Scan(Scanned(T \ {LastPunch(T)}), LastPunch(T))
        BY <2>0, <2>2, ScanEquation
      <4> QED BY <4>2, <4>3 DEF U
    <3> HIDE DEF p
    <3>3. Measured(U)
      BY <1>1, <3>1
    <3>4. p.at \in Int
      BY <2>0, <3>1 DEF Punches
    <3>5. IsFiniteSet(U) /\ U \in SUBSET Punches
      BY <2>0, FS_Subset
    <3>6. /\ IsFiniteSet(Closing(U)) /\ IsFiniteSet(LeftOver(U)) /\ LeftOver(U) \in SUBSET Int
          /\ \A x \in Closing(U) : Present(U)[x] \in Int
      <4>1. LeftOver(U) \subseteq EntriesIn(U)
        BY DEF LeftOver
      <4> QED BY <3>5, <4>1, TimesOfTimeline
    <3>7. CASE ~p.exit
      <4>1. /\ Closing(T) = Closing(U) /\ Present(T) = Present(U)
            /\ LeftOver(T) = LeftOver(U) \cup {p.at}
            /\ \A e \in LeftOver(U) : e < p.at
        BY <2>0, <3>1, <3>7, EntryComesLast
      <4>2. Scanned(T) = [Scanned(U) EXCEPT !.open = IF @ = {} THEN {p.at} ELSE @]
        BY <3>2, <3>7 DEF Scan
      <4>3. /\ Scanned(T).seconds = Scanned(U).seconds
            /\ Scanned(T).blocks = Scanned(U).blocks
            /\ Scanned(T).open = IF Scanned(U).open = {} THEN {p.at} ELSE Scanned(U).open
        BY <3>2, <4>2 DEF Scans
      <4>4. EarliestOf(LeftOver(T)) =
              IF EarliestOf(LeftOver(U)) = {} THEN {p.at} ELSE EarliestOf(LeftOver(U))
        <5>1. CASE LeftOver(U) = {}
          <6>1. LeftOver(T) = {p.at}
            BY <4>1, <5>1
          <6>2. Min({p.at}) = p.at
            BY <3>4 DEF Min
          <6> QED BY <5>1, <6>1, <6>2 DEF EarliestOf
        <5>2. CASE LeftOver(U) # {}
          <6>1. Min(LeftOver(U)) \in LeftOver(U) /\ \A y \in LeftOver(U) : Min(LeftOver(U)) <= y
            BY <3>6, <5>2, MinIs
          <6>2. /\ LeftOver(T) \in SUBSET Int /\ IsFiniteSet(LeftOver(T)) /\ LeftOver(T) # {}
            <7>1. IsFiniteSet(LeftOver(T))
              BY <2>0, TimesOfTimeline
            <7> QED BY <3>4, <3>6, <4>1, <7>1
          <6>3. Min(LeftOver(T)) \in LeftOver(T) /\ \A y \in LeftOver(T) : Min(LeftOver(T)) <= y
            BY <6>2, MinIs
          <6>4. Min(LeftOver(T)) <= Min(LeftOver(U)) /\ Min(LeftOver(U)) <= Min(LeftOver(T))
            <7>1. Min(LeftOver(U)) < p.at
              BY <4>1, <6>1
            <7>2. Min(LeftOver(U)) \in LeftOver(T)
              BY <4>1, <6>1
            <7>3. Min(LeftOver(T)) <= Min(LeftOver(U))
              BY <6>3, <7>2
            <7>4. Min(LeftOver(T)) = p.at \/ Min(LeftOver(T)) \in LeftOver(U)
              BY <4>1, <6>3
            <7>5. Min(LeftOver(U)) <= Min(LeftOver(T))
              <8>1. CASE Min(LeftOver(T)) = p.at
                <9>1. Min(LeftOver(U)) \in Int
                  BY <3>6, <6>1
                <9> QED BY <3>4, <7>1, <8>1, <9>1
              <8>2. CASE Min(LeftOver(T)) \in LeftOver(U)
                BY <6>1, <8>2
              <8> QED BY <7>4, <8>1, <8>2
            <7> QED BY <7>3, <7>5
          <6>5. Min(LeftOver(T)) = Min(LeftOver(U))
            BY <3>6, <6>1, <6>2, <6>3, <6>4
          <6> QED BY <5>2, <6>2, <6>5 DEF EarliestOf
        <5> QED BY <5>1, <5>2
      <4> QED BY <3>3, <4>1, <4>3, <4>4
    <3>8. CASE p.exit
      <4>1. /\ Since(T, p.at) = LeftOver(U) /\ LeftOver(T) = {}
            /\ p.at \notin Closing(U)
            /\ Closing(T) = Closing(U) \cup (IF LeftOver(U) = {} THEN {} ELSE {p.at})
            /\ \A x \in Closing(U) : Since(T, x) = Since(U, x)
        BY <2>0, <3>1, <3>8, ExitComesLast
      <4>2. /\ Scanned(T).seconds = Scanned(U).seconds + (IF Scanned(U).open = {} THEN 0
                                                         ELSE p.at - Min(Scanned(U).open))
            /\ Scanned(T).blocks = Scanned(U).blocks + (IF Scanned(U).open = {} THEN 0 ELSE 1)
            /\ Scanned(T).open = {}
        BY <3>2, <3>8 DEF Scan
      <4>3. Scanned(U).open = EarliestOf(LeftOver(U)) /\ Scanned(T).open = EarliestOf(LeftOver(T))
        BY <3>3, <4>1, <4>2 DEF EarliestOf
      <4>4. \A x \in Closing(U) : x \in Closing(T) /\ Present(T)[x] = Present(U)[x]
        BY <4>1 DEF Present
      <4>5. SumFunctionOnSet(Present(T), Closing(U)) = SumFunctionOnSet(Present(U), Closing(U))
        BY <3>6, <4>4, SumAgrees
      <4>6. CASE LeftOver(U) = {}
        <5>1. Closing(T) = Closing(U) /\ Scanned(U).open = {}
          BY <4>1, <4>3, <4>6 DEF EarliestOf
        <5>2. Scanned(U).seconds \in Int /\ Scanned(U).blocks \in Nat
          BY <3>2 DEF Scans
        <5>3. Scanned(T).seconds = Scanned(U).seconds /\ Scanned(T).blocks = Scanned(U).blocks
          BY <4>2, <5>1, <5>2
        <5>4. SumFunctionOnSet(Present(T), Closing(T)) = SumFunctionOnSet(Present(U), Closing(U))
          BY <4>5, <5>1
        <5>5. Cardinality(Closing(T)) = Cardinality(Closing(U))
          BY <5>1
        <5> QED BY <3>3, <4>3, <5>3, <5>4, <5>5
      <4>7. CASE LeftOver(U) # {}
        <5>1. Scanned(U).open = {Min(LeftOver(U))} /\ Min(LeftOver(U)) \in Int
          BY <3>6, <4>3, <4>7, MinIs DEF EarliestOf
        <5>2. Min(Scanned(U).open) = Min(LeftOver(U))
          BY <5>1 DEF Min
        <5>3. Closing(T) = Closing(U) \cup {p.at} /\ Closing(T) \ {p.at} = Closing(U)
          BY <4>1, <4>7
        <5>4. Present(T)[p.at] = p.at - Min(LeftOver(U))
          BY <4>1, <5>3 DEF Present
        <5>5. IsFiniteSet(Closing(T)) /\ \A x \in Closing(T) : Present(T)[x] \in Int
          BY <2>0, TimesOfTimeline
        <5>6. SumFunctionOnSet(Present(T), Closing(T)) =
                Present(T)[p.at] + SumFunctionOnSet(Present(T), Closing(U))
          <6>1. p.at \in Closing(T)
            BY <5>3
          <6>2. SumFunctionOnSet(Present(T), Closing(T)) =
                  Present(T)[p.at] + SumFunctionOnSet(Present(T), Closing(T) \ {p.at})
            BY <5>5, <6>1, SumSteps
          <6> QED BY <5>3, <6>2
        <5>7. Cardinality(Closing(T)) = Cardinality(Closing(U)) + 1
          BY <3>6, <4>1, <5>3, FS_AddElement
        <5>8. Scanned(T).seconds = SumFunctionOnSet(Present(T), Closing(T))
          <6>1. Scanned(T).seconds = Scanned(U).seconds + (p.at - Min(LeftOver(U)))
            BY <4>2, <5>1, <5>2
          <6> QED BY <3>2, <3>3, <3>4, <4>5, <5>1, <5>4, <5>6, <6>1 DEF Scans
        <5>9. Scanned(T).blocks = Cardinality(Closing(T))
          BY <3>3, <4>2, <5>1, <5>7
        <5> QED BY <4>3, <5>8, <5>9
      <4> QED BY <4>6, <4>7
    <3> QED BY <3>7, <3>8
  <2> QED BY <2>1, <2>2
<1>2. S \in Good
  <2> HIDE DEF Good
  <2> QED BY <1>1, SubsetInduction
<1> QED BY <1>2

(* A timeline holds the entries and the exits it was made of.               *)
LEMMA TimelineIs ==
  ASSUME NEW E \in SUBSET Int, IsFiniteSet(E), NEW X \in SUBSET Int, IsFiniteSet(X)
  PROVE  /\ Timeline(E, X) \in SUBSET Punches /\ IsFiniteSet(Timeline(E, X))
         /\ EntriesIn(Timeline(E, X)) = E /\ ExitsIn(Timeline(E, X)) = X
<1> DEFINE ins  == [t \in E |-> [at |-> t, exit |-> FALSE]]
           outs == [t \in X |-> [at |-> t, exit |-> TRUE]]
           A == {[at |-> t, exit |-> FALSE] : t \in E}
           B == {[at |-> t, exit |-> TRUE] : t \in X}
<1>1. IsFiniteSet(A)
  <2>1. \A y \in A : \E t \in E : ins[t] = y
    OBVIOUS
  <2> HIDE DEF ins, A
  <2> QED BY <2>1, FiniteImage
<1>2. IsFiniteSet(B)
  <2>1. \A y \in B : \E t \in X : outs[t] = y
    OBVIOUS
  <2> HIDE DEF outs, B
  <2> QED BY <2>1, FiniteImage
<1>3. Timeline(E, X) = A \cup B
  BY DEF Timeline
<1>4. IsFiniteSet(A \cup B)
  <2> HIDE DEF A, B
  <2> QED BY <1>1, <1>2, FS_Union
<1>5. A \cup B \in SUBSET Punches
  <2>1. \A t \in Int, x \in BOOLEAN : [at |-> t, exit |-> x] \in Punches
    BY DEF Punches
  <2>2. A \subseteq Punches /\ B \subseteq Punches
    BY <2>1
  <2> QED BY <2>2
<1>6. \A p \in A : p.at \in E /\ ~p.exit
  OBVIOUS
<1>7. \A p \in B : p.at \in X /\ p.exit
  OBVIOUS
<1>8. \A t \in E : \E p \in A : p.at = t
  <2> SUFFICES ASSUME NEW t \in E PROVE \E p \in A : p.at = t
    OBVIOUS
  <2>1. [at |-> t, exit |-> FALSE] \in A /\ [at |-> t, exit |-> FALSE].at = t
    OBVIOUS
  <2> QED BY <2>1
<1>9. \A t \in X : \E p \in B : p.at = t
  <2> SUFFICES ASSUME NEW t \in X PROVE \E p \in B : p.at = t
    OBVIOUS
  <2>1. [at |-> t, exit |-> TRUE] \in B /\ [at |-> t, exit |-> TRUE].at = t
    OBVIOUS
  <2> QED BY <2>1
<1> HIDE DEF A, B
<1>10. EntriesIn(A \cup B) = E
  BY <1>6, <1>7, <1>8 DEF EntriesIn
<1>11. ExitsIn(A \cup B) = X
  BY <1>6, <1>7, <1>9 DEF ExitsIn
<1> QED BY <1>3, <1>4, <1>5, <1>10, <1>11

(* Between each exit and the one before it, from the first entry.           *)
Measures(E, X, scan) ==
  LET since(x) == {e \in E : e <= x /\ \A y \in X : y < x => y < e}
      closing == {x \in X : since(x) # {}}
  IN  /\ scan.seconds = SumFunction([x \in closing |-> x - Min(since(x))])
      /\ scan.blocks = Cardinality(closing)

(* The scan of the punches measures presence; something is open when an     *)
(* entry follows all the exits.                                             *)
LEMMA PairsArePresence ==
  ASSUME NEW E \in SUBSET Int, IsFiniteSet(E), NEW X \in SUBSET Int, IsFiniteSet(X)
  PROVE  /\ pair_work_intervals(E, X) \in Scans
         /\ Measures(E, X, pair_work_intervals(E, X))
         /\ pair_work_intervals(E, X).open = {} <=> ~(\E e \in E : \A x \in X : x < e)
<1> DEFINE since(x) == {e \in E : e <= x /\ \A y \in X : y < x => y < e}
           closing == {x \in X : since(x) # {}}
           f == [x \in closing |-> x - Min(since(x))]
           S == Timeline(E, X)
<1>1. S \in SUBSET Punches /\ IsFiniteSet(S) /\ EntriesIn(S) = E /\ ExitsIn(S) = X
  BY TimelineIs
<1>2. pair_work_intervals(E, X) = Scanned(S)
  BY DEF pair_work_intervals, Scanned
<1> HIDE DEF S
<1>3. \A x : Since(S, x) = since(x)
  BY <1>1 DEF Since
<1>4. Closing(S) = closing
  BY <1>1, <1>3 DEF Closing
<1>5. Present(S) = f
  BY <1>3, <1>4 DEF Present
<1>6. SumFunction(f) = SumFunctionOnSet(Present(S), Closing(S))
  <2>1. DOMAIN f = closing
    OBVIOUS
  <2> HIDE DEF f, closing
  <2> QED BY <1>4, <1>5, <2>1 DEF SumFunction
<1>7. Scanned(S) \in Scans
  BY <1>1, ScanEquation
<1>8. /\ Scanned(S).seconds = SumFunction(f)
      /\ Scanned(S).blocks = Cardinality(closing)
      /\ Scanned(S).open = EarliestOf(LeftOver(S))
  <2> HIDE DEF f, closing
  <2> QED BY <1>1, <1>4, <1>6, ScanMeasures
<1>9. Scanned(S).open = {} <=> ~(\E e \in E : \A x \in X : x < e)
  <2>1. LeftOver(S) = {e \in E : \A x \in X : x < e}
    BY <1>1 DEF LeftOver
  <2>2. Scanned(S).open = {} <=> LeftOver(S) = {}
    BY <1>8 DEF EarliestOf
  <2> QED BY <2>1, <2>2
<1>10. Measures(E, X, Scanned(S))
  BY <1>8 DEF Measures
<1> QED BY <1>2, <1>7, <1>9, <1>10

(* The times of finitely many punches.                                      *)
LEMMA TimesAre ==
  ASSUME NEW events, IsFiniteSet(events), \A e \in events : e.at \in Int, NEW w
  PROVE  LET agg == aggregate_events(events, w)
         IN  /\ agg.entries \in SUBSET Int /\ IsFiniteSet(agg.entries)
             /\ agg.exits \in SUBSET Int /\ IsFiniteSet(agg.exits)
             /\ agg.canonical_entry = EarliestOf(agg.entries)
             /\ agg.canonical_exit = LatestOf(agg.exits)
<1> DEFINE inside == {e \in events : InWindow(e.at, w)}
           at == [e \in events |-> e.at]
<1>1. /\ aggregate_events(events, w).entries = Times(Entries(inside))
      /\ aggregate_events(events, w).exits = Times(Exits(inside))
      /\ aggregate_events(events, w).canonical_entry = EarliestOf(Times(Entries(inside)))
      /\ aggregate_events(events, w).canonical_exit = LatestOf(Times(Exits(inside)))
  BY DEF aggregate_events
<1>2. Times(Entries(inside)) \in SUBSET Int /\ Times(Exits(inside)) \in SUBSET Int
  BY DEF Times, Entries, Exits
<1>3. \A y \in Times(Entries(inside)) : \E e \in events : at[e] = y
  BY DEF Times, Entries
<1>4. \A y \in Times(Exits(inside)) : \E e \in events : at[e] = y
  BY DEF Times, Exits
<1>5. IsFiniteSet(Times(Entries(inside))) /\ IsFiniteSet(Times(Exits(inside)))
  <2> HIDE DEF inside, at
  <2> QED BY <1>3, <1>4, FiniteImage
<1> QED BY <1>1, <1>2, <1>5

-----------------------------------------------------------------------------
(* Finitely many punches are on file, each at an instant.                   *)
PunchesKept == IsFiniteSet(punches) /\ \A p \in punches : p.at \in Int

(* The events of a day are attributed punches, and finite in number.        *)
LEMMA EventsAre ==
  ASSUME PunchesKept, NEW d
  PROVE  IsFiniteSet(EventsOf(d)) /\ \A e \in EventsOf(d) : e.at \in Int
<1>1. EventsOf(d) \in SUBSET punches
  BY DEF EventsOf, OwnAndUnknown, PunchesIn
<1> QED BY <1>1, FS_Subset DEF PunchesKept

(* The scan of any day's events measures presence.                          *)
LEMMA PresenceFollows ==
  ASSUME PunchesKept
  PROVE  WorkIsPresence
<1> SUFFICES ASSUME NEW d \in setting.days
             PROVE  LET agg == aggregate_events(EventsOf(d), Window(d))
                        since(x) == {e \in agg.entries :
                                       e <= x /\ \A y \in agg.exits : y < x => y < e}
                        closing == {x \in agg.exits : since(x) # {}}
                        scan == pair_work_intervals(agg.entries, agg.exits)
                    IN  /\ scan.seconds = SumFunction([x \in closing |-> x - Min(since(x))])
                        /\ scan.blocks = Cardinality(closing)
  BY DEF WorkIsPresence
<1> DEFINE agg == aggregate_events(EventsOf(d), Window(d))
           E == agg.entries
           X == agg.exits
<1>1. E \in SUBSET Int /\ IsFiniteSet(E) /\ X \in SUBSET Int /\ IsFiniteSet(X)
  BY EventsAre, TimesAre
<1> HIDE DEF E, X
<1>2. Measures(E, X, pair_work_intervals(E, X))
  BY <1>1, PairsArePresence
<1> QED BY <1>2 DEF Measures, E, X

RecordFields ==
  {"work_minutes", "overtime_minutes", "late_minutes", "early_departure_minutes",
   "is_rest_day_worked", "entry_at", "exit_at", "leave_id", "anomalies"}

(* What the record of a day at work says, whatever the punches.             *)
LEMMA DayRecordSays ==
  ASSUME NEW input, input.dept.ordinary \in Nat, input.dept.lunch \in Int,
         NEW w, NEW agg, NEW scan \in Scans
  PROVE  LET r == DayRecord(input, w, agg, scan)
         IN  /\ DOMAIN r = RecordFields
             /\ r.work_minutes \in Nat /\ r.overtime_minutes \in 0..r.work_minutes
             /\ r.leave_id = 0
             /\ r.overtime_minutes > 0 =>
                  check_overtime_caps(r.work_minutes, r.overtime_minutes, input.week, input.year)
                    \subseteq r.anomalies
             /\ "MissingExit" \in r.anomalies <=> agg.canonical_entry # {} /\ LeftOpen(agg, scan)
             /\ "OvernightInferenceAmbiguous" \in r.anomalies <=> w.ambiguous
<1> DEFINE r      == DayRecord(input, w, agg, scan)
           dept   == input.dept
           paired == agg.canonical_entry # {} /\ agg.canonical_exit # {}
           raw    == scan.seconds \div Minute
           lunch  == compute_lunch_deduction(raw, scan.blocks > 1, dept)
           work   == IF paired THEN AtLeastZero(raw - lunch.minutes) ELSE 0
           extra  == AtLeastZero(work - dept.ordinary)
           caps   == check_overtime_caps(work, extra, input.week, input.year)
           others == Codes(w.ambiguous, "OvernightInferenceAmbiguous")
                       \cup Codes(agg.unknown_in_window, "UnknownFaceInWindow")
                       \cup Codes(agg.canonical_entry = {}, "MissingEntry")
                       \cup Codes(agg.canonical_entry # {} /\ LeftOpen(agg, scan), "MissingExit")
                       \cup (IF paired THEN lunch.codes ELSE {})
           marks  == Codes(input.prior, "RecomputeAfterEdit")
<1>1. /\ r.work_minutes = work /\ r.overtime_minutes = extra /\ r.leave_id = 0
      /\ DOMAIN r = RecordFields
      /\ r.anomalies = others \cup (IF work > 0 THEN caps ELSE {}) \cup marks
  BY DEF DayRecord, RecordFields
<1>2. raw \in Int
  BY DEF Scans, Minute
<1>3. lunch.minutes \in Int /\ lunch.codes \subseteq {"LunchPunchMissing"}
  BY DEF compute_lunch_deduction
<1>4. work \in Nat
  <2> HIDE DEF raw, lunch
  <2> QED BY <1>2, <1>3, AtLeastZeroIs
<1>5. extra \in 0..work
  <2>1. work - dept.ordinary \in Int
    BY <1>4
  <2>2. extra \in Nat /\ extra = IF work - dept.ordinary >= 0 THEN work - dept.ordinary ELSE 0
    <3> HIDE DEF work
    <3> QED BY <2>1, AtLeastZeroIs
  <2> HIDE DEF work, extra
  <2> QED BY <1>4, <2>2
<1>6. caps \subseteq {"OtCapExceededDaily", "OtCapExceededWeekly", "OtCapExceededAnnual"}
  BY DEF check_overtime_caps, Codes
<1>7. marks \subseteq {"RecomputeAfterEdit"}
  BY DEF Codes
<1>8. "MissingExit" \in others <=> agg.canonical_entry # {} /\ LeftOpen(agg, scan)
  <2> HIDE DEF lunch
  <2> QED BY <1>3 DEF Codes
<1>9. "OvernightInferenceAmbiguous" \in others <=> w.ambiguous
  <2> HIDE DEF lunch
  <2> QED BY <1>3 DEF Codes
<1>10. extra > 0 => caps \subseteq others \cup (IF work > 0 THEN caps ELSE {}) \cup marks
  <2> HIDE DEF work, extra, caps, others, marks
  <2> QED BY <1>4, <1>5
<1> HIDE DEF r, work, extra, caps, others, marks
<1>11. r.overtime_minutes > 0 =>
         check_overtime_caps(r.work_minutes, r.overtime_minutes, input.week, input.year)
           \subseteq r.anomalies
  BY <1>1, <1>10 DEF caps
<1>12. "MissingExit" \in r.anomalies <=> agg.canonical_entry # {} /\ LeftOpen(agg, scan)
  BY <1>1, <1>6, <1>7, <1>8
<1>13. "OvernightInferenceAmbiguous" \in r.anomalies <=> w.ambiguous
  BY <1>1, <1>6, <1>7, <1>9
<1> QED BY <1>1, <1>4, <1>5, <1>11, <1>12, <1>13 DEF r

(* The window of a shift is sure of itself only when the local clock shows  *)
(* each of its boundaries once.                                             *)
LEMMA UnambiguousWindow ==
  ASSUME NEW d, NEW dept, NEW rules, NEW zone, ~shift_window(d, dept, rules, zone).ambiguous
  PROVE  \A l \in {ShiftStart(d, dept), ShiftEnd(d, dept)} : Cardinality(InstantsOf(zone, l)) = 1
<1>1. \A l : ~resolve_local_epoch(zone, l).ambiguous => Cardinality(InstantsOf(zone, l)) = 1
  <2> TAKE l
  <2>1. ~resolve_local_epoch(zone, l).ambiguous => \E t : InstantsOf(zone, l) = {t}
    BY DEF resolve_local_epoch
  <2> QED BY <2>1, FS_Singleton
<1>2. /\ ~resolve_local_epoch(zone, ShiftStart(d, dept)).ambiguous
      /\ ~resolve_local_epoch(zone, ShiftEnd(d, dept)).ambiguous
  BY DEF shift_window, Widened
<1> QED BY <1>1, <1>2

-----------------------------------------------------------------------------
(* What every record on file keeps to.                                      *)
RecordKept(d, r) ==
  /\ r.work_minutes \in Nat /\ r.overtime_minutes \in 0..r.work_minutes
  /\ r.leave_id \in 0..MaxLeaves
  /\ r.leave_id # 0 => d \in LeaveRange
  /\ r.leave_id = 0 /\ "OvernightInferenceAmbiguous" \notin r.anomalies =>
       \A l \in {ShiftStart(d, setting.dept), ShiftEnd(d, setting.dept)} :
         Cardinality(InstantsOf(setting.zone, l)) = 1

(* The leave a recompute fetches: the active one inside its range, and 0    *)
(* elsewhere.                                                               *)
LEMMA FetchedLeave ==
  ASSUME setting \in Settings, leave \in [id : 0..MaxLeaves, active : BOOLEAN],
         NEW d \in Int
  PROVE  /\ fetch_active_leave_for_date(d) \in 0..MaxLeaves
         /\ fetch_active_leave_for_date(d) = IF leave.active /\ d \in LeaveRange THEN leave.id ELSE 0
<1>1. \A l \in setting.leave : l.from \in Int /\ l.to \in Int
  BY SettingsAssumption
<1>2. d \in LeaveRange <=> \E l \in setting.leave : l.from <= d /\ d <= l.to
  BY <1>1 DEF LeaveRange, CoveredBy
<1>3. leave.id \in 0..MaxLeaves
  OBVIOUS
<1>4. 0 \in 0..MaxLeaves
  BY BoundsAssumption
<1> QED BY <1>2, <1>3, <1>4 DEF fetch_active_leave_for_date

(* The engine's record of a day of the setting.                             *)
LEMMA ComputedSays ==
  ASSUME setting \in Settings, PunchesKept, leave \in [id : 0..MaxLeaves, active : BOOLEAN],
         NEW d \in Int
  PROVE  LET r == compute_daily_record(InputOf(d))
             agg == aggregate_events(EventsOf(d), Window(d))
         IN  /\ DOMAIN r = RecordFields
             /\ RecordKept(d, r)
             /\ r.leave_id = fetch_active_leave_for_date(d)
             /\ r.overtime_minutes > 0 =>
                  check_overtime_caps(r.work_minutes, r.overtime_minutes, WeekSoFar(d), YearSoFar(d))
                    \subseteq r.anomalies
             /\ r.leave_id = 0 =>
                  ("MissingExit" \in r.anomalies <=>
                     \E e \in agg.entries : \A x \in agg.exits : x < e)
<1> DEFINE r == compute_daily_record(InputOf(d))
           w == Window(d)
           agg == aggregate_events(EventsOf(d), w)
           scan == pair_work_intervals(agg.entries, agg.exits)
<1>1. setting.dept.ordinary \in Nat /\ setting.dept.lunch \in Int
  BY SettingsAssumption
<1>2. /\ InputOf(d).dept = setting.dept /\ InputOf(d).leave = fetch_active_leave_for_date(d)
      /\ InputOf(d).week = WeekSoFar(d) /\ InputOf(d).year = YearSoFar(d)
  BY DEF InputOf
<1>3. CASE fetch_active_leave_for_date(d) # 0
  <2>1. r = OnLeave(InputOf(d))
    BY <1>2, <1>3 DEF compute_daily_record
  <2>2. /\ r.work_minutes = 0 /\ r.overtime_minutes = 0
        /\ r.leave_id = fetch_active_leave_for_date(d) /\ DOMAIN r = RecordFields
    BY <1>2, <2>1 DEF OnLeave, RecordFields
  <2> HIDE DEF r
  <2>3. RecordKept(d, r)
    BY <1>3, <2>2, FetchedLeave DEF RecordKept
  <2> QED BY <1>3, <2>2, <2>3 DEF r
<1>4. CASE fetch_active_leave_for_date(d) = 0
  <2>1. r = DayRecord(InputOf(d), w, agg, scan)
    BY <1>2, <1>4 DEF compute_daily_record, AtWork, InputOf, Window
  <2>2. /\ agg.entries \in SUBSET Int /\ IsFiniteSet(agg.entries)
        /\ agg.exits \in SUBSET Int /\ IsFiniteSet(agg.exits)
        /\ agg.canonical_entry = EarliestOf(agg.entries)
        /\ agg.canonical_exit = LatestOf(agg.exits)
    BY EventsAre, TimesAre
  <2> HIDE DEF agg, r, w
  <2>3. /\ scan \in Scans
        /\ scan.open = {} <=> ~(\E e \in agg.entries : \A x \in agg.exits : x < e)
    BY <2>2, PairsArePresence
  <2> HIDE DEF scan
  <2>4. /\ DOMAIN r = RecordFields
        /\ r.work_minutes \in Nat /\ r.overtime_minutes \in 0..r.work_minutes
        /\ r.leave_id = 0
        /\ r.overtime_minutes > 0 =>
             check_overtime_caps(r.work_minutes, r.overtime_minutes, WeekSoFar(d), YearSoFar(d))
               \subseteq r.anomalies
        /\ "MissingExit" \in r.anomalies <=> agg.canonical_entry # {} /\ LeftOpen(agg, scan)
        /\ "OvernightInferenceAmbiguous" \in r.anomalies <=> w.ambiguous
    BY <1>1, <1>2, <2>1, <2>3, DayRecordSays
  <2>5. /\ agg.canonical_entry = {} <=> agg.entries = {}
        /\ agg.canonical_exit = {} <=> agg.exits = {}
    BY <2>2 DEF EarliestOf, LatestOf
  <2>6. (agg.canonical_entry # {} /\ LeftOpen(agg, scan)) <=>
          \E e \in agg.entries : \A x \in agg.exits : x < e
    BY <2>3, <2>5 DEF LeftOpen
  <2>7. RecordKept(d, r)
    <3>1. "OvernightInferenceAmbiguous" \notin r.anomalies =>
            \A l \in {ShiftStart(d, setting.dept), ShiftEnd(d, setting.dept)} :
              Cardinality(InstantsOf(setting.zone, l)) = 1
      BY <2>4, UnambiguousWindow DEF w, Window
    <3>2. r.leave_id \in 0..MaxLeaves
      BY <2>4, BoundsAssumption
    <3> QED BY <2>4, <3>1, <3>2 DEF RecordKept
  <2> QED BY <1>4, <2>4, <2>6, <2>7 DEF r, agg, w
<1> QED BY <1>3, <1>4

(***************************************************************************)
(* The inductive invariant.                                                *)
(***************************************************************************)

(* An active leave has a number, which no record without a leave carries.   *)
LeaveKept == leave.active => leave.id # 0

(* The nightly pass has not begun before the first day.                     *)
NightsKept == tonight \in Int /\ Min(setting.days) <= tonight

(* A record is one the engine could have written, and where no recompute is *)
(* due it carries the leave of its day.                                     *)
RecordsKept ==
  /\ \A d \in DOMAIN record : RecordKept(d, record[d])
  /\ terminated = {} =>
       \A d \in DOMAIN record \ pending : record[d].leave_id = fetch_active_leave_for_date(d)

(* An override is one of those the setting has.                             *)
OverridesKept == \A d \in DOMAIN override : override[d] \in setting.overrides

(* What a report holds between its steps is a function of its snapshot.     *)
ReportKept ==
  /\ DOMAIN report = {"phase", "request", "snap", "acc", "rows"}
  /\ report.phase = "swept" =>
       \E q \in report.request, db \in report.snap :
         report.request = {q} /\ report.snap = {db} /\ report.acc = {Sweep(setting, q, db)}
  /\ report.phase \in {"computed", "built"} =>
       \E q \in report.request, db \in report.snap :
         report.rows = compute_report(setting, q, db)

IInv ==
  TypeOK /\ PunchesKept /\ LeaveKept /\ NightsKept /\ RecordsKept /\ OverridesKept /\ ReportKept

(* The days of a setting are those from its first to its last.              *)
LEMMA DaysAre ==
  ASSUME setting \in Settings
  PROVE  /\ setting.days \in SUBSET Int /\ IsFiniteSet(setting.days)
         /\ Min(setting.days) \in setting.days /\ Max(setting.days) \in setting.days
         /\ \A d \in Int : Min(setting.days) <= d /\ d <= Max(setting.days) => d \in setting.days
<1>1. /\ setting.days \in SUBSET Int /\ IsFiniteSet(setting.days) /\ setting.days # {}
      /\ setting.days = Min(setting.days)..Max(setting.days)
  BY SettingsAssumption
<1>2. Min(setting.days) \in setting.days /\ Max(setting.days) \in setting.days
  BY <1>1, MinIs, MaxIs
<1> QED BY <1>1, <1>2

(* The invariant holds of an empty database.                                *)
LEMMA InitKept == Init => IInv
<1> SUFFICES ASSUME Init PROVE IInv
  OBVIOUS
<1> USE DEF Init
<1>1. DOMAIN record = {} /\ DOMAIN override = {}
  OBVIOUS
<1>2. TypeOK
  <2>1. leave \in [id : 0..MaxLeaves, active : BOOLEAN]
    BY BoundsAssumption
  <2>2. Cardinality(terminated) <= 1
    BY FS_EmptySet
  <2> QED BY <1>1, <2>1, <2>2 DEF TypeOK, Idle
<1>3. PunchesKept
  BY FS_EmptySet DEF PunchesKept
<1>4. NightsKept
  BY DaysAre DEF NightsKept
<1>5. LeaveKept /\ RecordsKept /\ OverridesKept
  BY <1>1 DEF LeaveKept, RecordsKept, OverridesKept
<1>6. ReportKept
  BY DEF ReportKept, Idle
<1> QED BY <1>2, <1>3, <1>4, <1>5, <1>6 DEF IInv

(* An action that leaves the report alone.                                  *)
LEMMA KeepsReport ==
  ASSUME ReportKept, setting' = setting, report' = report
  PROVE  ReportKept'
  BY DEF ReportKept

(* A punch only adds to the punches and to the days waiting.                *)
LEMMA PunchKeeps ==
  ASSUME IInv, NEW p \in setting.punches, Punch(p)
  PROVE  IInv'
<1> USE DEF IInv
<1>1. PICK unknown \in {p.unknown, p.unknown \/ terminated # {}} :
        /\ punches' = punches \cup {[p EXCEPT !.unknown = unknown]}
        /\ pending' = IF unknown THEN pending ELSE pending \cup AsksFor(p)
  BY DEF Punch
<1>2. UNCHANGED <<setting, record, override, leave, terminated, tonight, report>>
  BY DEF Punch
<1>3. /\ "at" \in DOMAIN p /\ p.at \in Int /\ AsksFor(p) \subseteq setting.days
  BY SettingsAssumption DEF TypeOK, AsksFor
<1>4. [p EXCEPT !.unknown = unknown].at = p.at
  BY <1>3
<1>5. PunchesKept'
  BY <1>1, <1>3, <1>4, FS_AddElement DEF PunchesKept
<1>6. pending' \subseteq setting.days /\ pending \subseteq pending'
  BY <1>1, <1>3 DEF TypeOK
<1>7. TypeOK'
  BY <1>2, <1>6 DEF TypeOK
<1>8. RecordsKept'
  <2>1. \A d \in DOMAIN record : RecordKept(d, record[d])'
    BY <1>2 DEF RecordsKept, RecordKept, LeaveRange
  <2> QED BY <1>2, <1>6, <2>1 DEF RecordsKept, fetch_active_leave_for_date
<1>9. LeaveKept' /\ NightsKept' /\ OverridesKept' /\ ReportKept'
  BY <1>2, KeepsReport DEF LeaveKept, NightsKept, OverridesKept
<1> QED BY <1>5, <1>7, <1>8, <1>9

(* What recompute_for_day stores: the engine's record, with the shift.      *)
Stored(d) == Put(compute_daily_record(InputOf(d)), "shift_type", setting.dept.shift_type)

(* The record that recompute_for_day stores is one the invariant allows,    *)
(* with the leave of its day.                                               *)
LEMMA StoredSays ==
  ASSUME IInv, NEW d \in Int
  PROVE  /\ RecordKept(d, Stored(d))
         /\ Stored(d).leave_id = fetch_active_leave_for_date(d)
<1> DEFINE r == compute_daily_record(InputOf(d))
<1>1. /\ DOMAIN r = RecordFields /\ RecordKept(d, r)
      /\ r.leave_id = fetch_active_leave_for_date(d)
  BY ComputedSays DEF IInv, TypeOK
<1> HIDE DEF r
<1>2. \A f \in RecordFields : Put(r, "shift_type", setting.dept.shift_type)[f] = r[f]
  BY <1>1 DEF Put, RecordFields
<1>3. Stored(d) = Put(r, "shift_type", setting.dept.shift_type)
  BY DEF Stored, r
<1>4. /\ Stored(d).work_minutes = r.work_minutes
      /\ Stored(d).overtime_minutes = r.overtime_minutes
      /\ Stored(d).leave_id = r.leave_id /\ Stored(d).anomalies = r.anomalies
  BY <1>2, <1>3 DEF RecordFields
<1> QED BY <1>1, <1>4 DEF RecordKept

(* A step of recompute_for_day keeps the records, whether its request is    *)
(* done with or not.                                                        *)
LEMMA RecomputeKeeps ==
  ASSUME IInv, NEW d \in setting.days, recompute_for_day(d), UNCHANGED inputVars,
         pending' \in SUBSET pending, pending \ pending' \subseteq {d}
  PROVE  /\ DOMAIN record' \subseteq setting.days /\ DOMAIN record \subseteq DOMAIN record'
         /\ RecordsKept'
<1> USE DEF IInv, inputVars
<1>1. CASE terminated # {}
  <2>1. record' = record
    BY <1>1 DEF recompute_for_day
  <2>2. \A x \in DOMAIN record : RecordKept(x, record[x])'
    BY <2>1 DEF RecordsKept, RecordKept, LeaveRange
  <2> QED BY <1>1, <2>1, <2>2 DEF RecordsKept, TypeOK
<1>2. CASE terminated = {}
  <2>1. d \in Int
    BY DaysAre DEF TypeOK
  <2>2. record' = Put(record, d, Stored(d))
    BY <1>2 DEF recompute_for_day, Recomputed, Stored
  <2>3. /\ DOMAIN record' = DOMAIN record \cup {d}
        /\ \A x \in DOMAIN record' : record'[x] = IF x = d THEN Stored(d) ELSE record[x]
    BY <2>2 DEF Put
  <2>4. RecordKept(d, Stored(d)) /\ Stored(d).leave_id = fetch_active_leave_for_date(d)
    BY <2>1, StoredSays
  <2> HIDE DEF IInv
  <2>5. \A x \in DOMAIN record' : RecordKept(x, record'[x])
    BY <2>3, <2>4 DEF RecordsKept, IInv
  <2>6. \A x \in DOMAIN record' : RecordKept(x, record[x])'
    BY <2>5 DEF RecordKept, LeaveRange
  <2>7. \A x \in DOMAIN record' \ pending' : record'[x].leave_id = fetch_active_leave_for_date(x)
    BY <1>2, <2>3, <2>4 DEF RecordsKept, IInv
  <2>8. \A x \in DOMAIN record' \ pending' :
          record'[x].leave_id = fetch_active_leave_for_date(x)'
    BY <2>7 DEF fetch_active_leave_for_date
  <2> QED BY <2>3, <2>6, <2>8 DEF RecordsKept, TypeOK, IInv
<1> QED BY <1>1, <1>2

(* Recomputing a day that waits.                                            *)
LEMMA RecomputeStepKeeps ==
  ASSUME IInv, NEW d \in setting.days, Recompute(d)
  PROVE  IInv'
<1>1. /\ recompute_for_day(d) /\ pending' = pending \ {d} /\ UNCHANGED inputVars
      /\ UNCHANGED <<tonight, report>>
  BY DEF Recompute
<1>2. /\ DOMAIN record' \subseteq setting.days /\ DOMAIN record \subseteq DOMAIN record'
      /\ RecordsKept'
  BY <1>1, RecomputeKeeps
<1> USE DEF inputVars
<1>3. TypeOK'
  BY <1>1, <1>2 DEF IInv, TypeOK, RecordsKept, RecordKept
<1>4. PunchesKept' /\ LeaveKept' /\ NightsKept' /\ OverridesKept' /\ ReportKept'
  BY <1>1, KeepsReport DEF IInv, PunchesKept, LeaveKept, NightsKept, OverridesKept
<1> QED BY <1>2, <1>3, <1>4 DEF IInv

(* The nightly pass, over the next day.                                     *)
LEMMA NightKeeps ==
  ASSUME IInv, reconcile_prior_day
  PROVE  IInv'
<1>1. /\ recompute_for_day(tonight) /\ tonight' = tonight + 1 /\ tonight <= Max(setting.days)
      /\ UNCHANGED inputVars /\ UNCHANGED <<pending, report>>
  BY DEF reconcile_prior_day
<1>2. tonight \in setting.days
  BY <1>1, DaysAre DEF IInv, TypeOK, NightsKept
<1>3. /\ DOMAIN record' \subseteq setting.days /\ DOMAIN record \subseteq DOMAIN record'
      /\ RecordsKept'
  BY <1>1, <1>2, RecomputeKeeps
<1> USE DEF inputVars
<1>4. TypeOK'
  BY <1>1, <1>3 DEF IInv, TypeOK, RecordsKept, RecordKept
<1>5. NightsKept'
  <2>1. Min(setting.days) \in Int
    BY DaysAre DEF IInv, TypeOK
  <2> QED BY <1>1, <2>1 DEF IInv, NightsKept
<1>6. PunchesKept' /\ LeaveKept' /\ OverridesKept' /\ ReportKept'
  BY <1>1, KeepsReport DEF IInv, PunchesKept, LeaveKept, OverridesKept
<1> QED BY <1>3, <1>4, <1>5, <1>6 DEF IInv

(* An override is of a day with a record.                                   *)
LEMMA OverrideKeeps ==
  ASSUME IInv, NEW d \in setting.days, NEW m \in setting.overrides, create_override(d, m)
  PROVE  IInv'
<1>1. /\ d \in DOMAIN record /\ override' = Put(override, d, m) /\ pending' = pending \cup {d}
      /\ UNCHANGED <<setting, punches, record, leave, terminated, tonight, report>>
  BY DEF create_override
<1>2. /\ DOMAIN override' = DOMAIN override \cup {d}
      /\ \A x \in DOMAIN override' : override'[x] = IF x = d THEN m ELSE override[x]
  BY <1>1 DEF Put
<1>3. OverridesKept'
  BY <1>1, <1>2 DEF IInv, OverridesKept
<1>4. TypeOK'
  BY <1>1, <1>2 DEF IInv, TypeOK
<1>5. RecordsKept'
  <2>1. \A x \in DOMAIN record : RecordKept(x, record[x])'
    BY <1>1 DEF IInv, RecordsKept, RecordKept, LeaveRange
  <2> QED BY <1>1, <2>1 DEF IInv, RecordsKept, fetch_active_leave_for_date
<1>6. PunchesKept' /\ LeaveKept' /\ NightsKept' /\ ReportKept'
  BY <1>1, KeepsReport DEF IInv, PunchesKept, LeaveKept, NightsKept
<1> QED BY <1>3, <1>4, <1>5, <1>6 DEF IInv

(* A leave that comes or goes asks for every day it covers.                 *)
LEMMA LeaveStepKeeps ==
  ASSUME IInv, leave' \in [id : 0..MaxLeaves, active : BOOLEAN], leave'.active => leave'.id # 0,
         leave'.active \/ leave.active, ~(leave'.active /\ leave.active),
         pending' = pending \cup LeaveRange,
         UNCHANGED <<setting, punches, record, override, terminated, tonight, report>>
  PROVE  IInv'
<1>1. LeaveRange \subseteq setting.days /\ setting.days \in SUBSET Int
  BY SettingsAssumption, DaysAre DEF IInv, TypeOK, LeaveRange, CoveredBy
<1>2. TypeOK'
  BY <1>1 DEF IInv, TypeOK
<1>3. LeaveKept'
  BY DEF LeaveKept
<1>4. RecordsKept'
  <2>1. \A x \in DOMAIN record : RecordKept(x, record[x])'
    BY DEF IInv, RecordsKept, RecordKept, LeaveRange
  <2>2. ASSUME terminated = {}, NEW x \in DOMAIN record \ pending'
        PROVE  record[x].leave_id = fetch_active_leave_for_date(x)'
    <3>1. x \in Int /\ x \notin LeaveRange /\ x \in DOMAIN record \ pending
      BY <1>1, <2>2 DEF IInv, TypeOK
    <3>2. fetch_active_leave_for_date(x) = 0
      BY <3>1, FetchedLeave DEF IInv, TypeOK
    <3>3. \A l \in setting.leave : ~(l.from <= x /\ x <= l.to)
      BY <3>1, SettingsAssumption DEF IInv, TypeOK, LeaveRange, CoveredBy
    <3>4. fetch_active_leave_for_date(x)' = 0
      BY <3>3 DEF fetch_active_leave_for_date
    <3> QED BY <2>2, <3>1, <3>2, <3>4 DEF IInv, RecordsKept
  <2> QED BY <2>1, <2>2 DEF RecordsKept
<1>5. PunchesKept' /\ NightsKept' /\ OverridesKept' /\ ReportKept'
  BY KeepsReport DEF IInv, PunchesKept, NightsKept, OverridesKept
<1> QED BY <1>2, <1>3, <1>4, <1>5 DEF IInv

(* A new leave: its number is not 0, and all its days wait to be            *)
(* recomputed.                                                              *)
LEMMA CreateKeeps ==
  ASSUME IInv, create_leave
  PROVE  IInv'
<1>1. /\ ~leave.active /\ leave.id < MaxLeaves /\ leave' = [id |-> leave.id + 1, active |-> TRUE]
      /\ pending' = pending \cup LeaveRange
      /\ UNCHANGED <<setting, punches, record, override, terminated, tonight, report>>
  BY DEF create_leave
<1>2. leave.id \in 0..MaxLeaves
  BY DEF IInv, TypeOK
<1>3. leave' \in [id : 0..MaxLeaves, active : BOOLEAN] /\ leave'.active /\ leave'.id # 0
  BY <1>1, <1>2, BoundsAssumption
<1> QED BY <1>1, <1>3, LeaveStepKeeps

(* A cancelled leave: all its days wait to be recomputed.                   *)
LEMMA CancelKeeps ==
  ASSUME IInv, cancel_leave
  PROVE  IInv'
<1>1. /\ leave.active /\ leave' = [leave EXCEPT !.active = FALSE]
      /\ pending' = pending \cup LeaveRange
      /\ UNCHANGED <<setting, punches, record, override, terminated, tonight, report>>
  BY DEF cancel_leave
<1>2. leave \in [id : 0..MaxLeaves, active : BOOLEAN]
  BY DEF IInv, TypeOK
<1>3. leave' \in [id : 0..MaxLeaves, active : BOOLEAN] /\ ~leave'.active
  BY <1>1, <1>2
<1> QED BY <1>1, <1>3, LeaveStepKeeps

(* A deactivation.                                                          *)
LEMMA DeactivateKeeps ==
  ASSUME IInv, NEW t \in setting.ends, deactivate(t)
  PROVE  IInv'
<1>1. /\ terminated' = {t}
      /\ UNCHANGED <<setting, punches, record, override, leave, pending, tonight, report>>
  BY DEF deactivate
<1>2. TypeOK'
  <2>1. Cardinality(terminated') <= 1
    BY <1>1, FS_Singleton
  <2> QED BY <1>1, <2>1 DEF IInv, TypeOK
<1>3. RecordsKept'
  <2>1. \A x \in DOMAIN record : RecordKept(x, record[x])'
    BY <1>1 DEF IInv, RecordsKept, RecordKept, LeaveRange
  <2> QED BY <1>1, <2>1 DEF RecordsKept
<1>4. PunchesKept' /\ LeaveKept' /\ NightsKept' /\ OverridesKept' /\ ReportKept'
  BY <1>1, KeepsReport DEF IInv, PunchesKept, LeaveKept, NightsKept, OverridesKept
<1> QED BY <1>2, <1>3, <1>4 DEF IInv

(* A step of a report changes the report alone.                             *)
LEMMA ReportStepKeeps ==
  ASSUME IInv, KeepsData, ReportKept',
         report'.phase \in {"idle", "refused", "swept", "computed", "built", "answered", "failed"}
  PROVE  IInv'
<1> USE DEF KeepsData, inputVars
<1>1. TypeOK'
  BY DEF IInv, TypeOK
<1>2. PunchesKept' /\ LeaveKept' /\ NightsKept' /\ OverridesKept'
  BY DEF IInv, PunchesKept, LeaveKept, NightsKept, OverridesKept
<1>3. RecordsKept'
  <2>1. \A x \in DOMAIN record : RecordKept(x, record[x])'
    BY DEF IInv, RecordsKept, RecordKept, LeaveRange
  <2> QED BY <2>1 DEF IInv, RecordsKept, fetch_active_leave_for_date
<1> QED BY <1>1, <1>2, <1>3 DEF IInv

(* A report that starts holds the sweep of its snapshot.                    *)
LEMMA StartKeeps ==
  ASSUME IInv, NEW q, StartReport(q)
  PROVE  IInv'
<1>1. setting' = setting /\ KeepsData
  BY DEF StartReport, KeepsData, inputVars
<1>2. CASE ~Acceptable(q)
  <2>1. report' = ReportIn("refused")
    BY <1>2 DEF StartReport
  <2>2. ReportKept' /\ report'.phase = "refused"
    BY <2>1 DEF ReportKept, ReportIn, Idle
  <2> QED BY <1>1, <2>2, ReportStepKeeps
<1>3. CASE Acceptable(q)
  <2>1. report' = [phase |-> "swept", request |-> {q}, snap |-> {Db},
                   acc |-> {Sweep(setting, q, Db)}, rows |-> {}]
    BY <1>3 DEF StartReport
  <2>2. ReportKept' /\ report'.phase = "swept"
    BY <1>1, <2>1 DEF ReportKept
  <2> QED BY <1>1, <2>2, ReportStepKeeps
<1> QED BY <1>2, <1>3

(* A report that is computed holds the rows of its snapshot.                *)
LEMMA FinishKeeps ==
  ASSUME IInv, FinishReport
  PROVE  IInv'
<1>1. /\ setting' = setting /\ KeepsData /\ report.phase = "swept"
  BY DEF FinishReport, KeepsData, inputVars
<1>2. PICK q \in report.request, db \in report.snap, acc \in report.acc :
        report' = [report EXCEPT !.phase = "computed", !.rows = RowsOf(setting, q, db, acc)]
  BY DEF FinishReport, SeesSnapshot
<1>3. report.request = {q} /\ report.snap = {db} /\ report.acc = {Sweep(setting, q, db)}
  BY <1>1, <1>2 DEF IInv, ReportKept
<1>4. RowsOf(setting, q, db, acc) = compute_report(setting, q, db)
  BY <1>2, <1>3 DEF compute_report
<1>5. /\ report'.phase = "computed" /\ report'.request = {q} /\ report'.snap = {db}
      /\ report'.rows = compute_report(setting, q, db) /\ DOMAIN report' = DOMAIN report
  BY <1>2, <1>3, <1>4 DEF IInv, ReportKept
<1>6. ReportKept'
  BY <1>1, <1>5 DEF IInv, ReportKept
<1> QED BY <1>1, <1>5, <1>6, ReportStepKeeps

(* A workbook leaves the rows alone.                                        *)
LEMMA BuildKeeps ==
  ASSUME IInv, build_workbook
  PROVE  IInv'
<1>1. /\ setting' = setting /\ KeepsData /\ report.phase = "computed"
      /\ report' = [report EXCEPT !.phase = "built"]
  BY DEF build_workbook, KeepsData, inputVars
<1>2. /\ report'.phase = "built" /\ report'.request = report.request /\ report'.snap = report.snap
      /\ report'.rows = report.rows /\ DOMAIN report' = DOMAIN report
  BY <1>1 DEF IInv, ReportKept
<1>3. ReportKept'
  BY <1>1, <1>2 DEF IInv, ReportKept
<1> QED BY <1>1, <1>2, <1>3, ReportStepKeeps

(* A report that is answered or fails holds nothing.                        *)
LEMMA EndKeeps ==
  ASSUME IInv, record_export \/ ReportFails
  PROVE  IInv'
<1>1. PICK phase \in {"answered", "failed"} : report' = ReportIn(phase)
  BY DEF record_export, ReportFails
<1>2. KeepsData
  BY DEF record_export, ReportFails
<1>3. ReportKept' /\ report'.phase = phase
  BY <1>1 DEF ReportKept, ReportIn, Idle
<1> QED BY <1>2, <1>3, ReportStepKeeps

(* Every step keeps the invariant.                                          *)
LEMMA StepKeeps == IInv /\ [Next]_vars => IInv'
<1> SUFFICES ASSUME IInv, [Next]_vars PROVE IInv'
  OBVIOUS
<1>1. ASSUME NEW p \in setting.punches, Punch(p) PROVE IInv'
  BY <1>1, PunchKeeps
<1>2. ASSUME NEW d \in setting.days, Recompute(d) PROVE IInv'
  BY <1>2, RecomputeStepKeeps
<1>3. CASE reconcile_prior_day
  BY <1>3, NightKeeps
<1>4. ASSUME NEW d \in setting.days, NEW m \in setting.overrides, create_override(d, m) PROVE IInv'
  BY <1>4, OverrideKeeps
<1>5. CASE create_leave
  BY <1>5, CreateKeeps
<1>6. CASE cancel_leave
  BY <1>6, CancelKeeps
<1>7. ASSUME NEW t \in setting.ends, deactivate(t) PROVE IInv'
  BY <1>7, DeactivateKeeps
<1>8. ASSUME NEW q \in setting.requests, StartReport(q) PROVE IInv'
  BY <1>8, StartKeeps
<1>9. CASE FinishReport
  BY <1>9, FinishKeeps
<1>10. CASE build_workbook
  BY <1>10, BuildKeeps
<1>11. CASE record_export \/ ReportFails
  BY <1>11, EndKeeps
<1>12. CASE UNCHANGED vars
  <2>1. RecordsKept'
    <3>1. \A x \in DOMAIN record : RecordKept(x, record[x])'
      BY <1>12 DEF IInv, RecordsKept, RecordKept, LeaveRange, vars
    <3> QED BY <1>12, <3>1 DEF IInv, RecordsKept, fetch_active_leave_for_date, vars
  <2>2. ReportKept'
    BY <1>12, KeepsReport DEF IInv, vars
  <2> QED BY <1>12, <2>1, <2>2
      DEF IInv, TypeOK, PunchesKept, LeaveKept, NightsKept, OverridesKept, vars
<1> QED BY <1>1, <1>2, <1>3, <1>4, <1>5, <1>6, <1>7, <1>8, <1>9, <1>10, <1>11, <1>12 DEF Next

(* The invariant holds in every state.                                      *)
LEMMA AlwaysKept == Spec => []IInv
<1>1. Init => IInv
  BY InitKept
<1>2. IInv /\ [Next]_vars => IInv'
  BY StepKeeps
<1> QED BY <1>1, <1>2, PTL DEF Spec

(* The variables of the calculation have their types in every state: a      *)
(* record has no more overtime than work, an override is of a day on        *)
(* record, and every day waiting is one of the setting's.                   *)
THEOREM TypeCorrect == Spec => []TypeOK
<1>1. IInv => TypeOK
  BY DEF IInv
<1> QED BY <1>1, AlwaysKept, PTL

(* pair_work_intervals measures presence, for any punches in any order of   *)
(* delivery: between each exit and the one before it, from the first entry. *)
THEOREM WorkAlwaysIsPresence == Spec => []WorkIsPresence
<1>1. IInv => WorkIsPresence
  BY PresenceFollows DEF IInv
<1> QED BY <1>1, AlwaysKept, PTL

(* A record that is up to date says what the engine says.                   *)
LEMMA FreshSays ==
  ASSUME IInv, NEW d \in DOMAIN record, Fresh(d)
  PROVE  LET now == compute_daily_record(InputOf(d))
         IN  /\ record[d].work_minutes = now.work_minutes
             /\ record[d].overtime_minutes = now.overtime_minutes
             /\ record[d].leave_id = now.leave_id
             /\ \A c : c # "RecomputeAfterEdit" =>
                  (c \in record[d].anomalies <=> c \in now.anomalies)
<1> DEFINE now == compute_daily_record(InputOf(d))
<1>1. DOMAIN now = RecordFields
  <2>1. d \in Int
    BY DaysAre DEF IInv, TypeOK
  <2> QED BY <2>1, ComputedSays DEF IInv, TypeOK
<1>2. /\ \A f \in DOMAIN now \ {"anomalies"} : record[d][f] = now[f]
      /\ Unmarked(record[d].anomalies) = Unmarked(now.anomalies)
  BY DEF Fresh
<1> HIDE DEF now
<1>3. /\ record[d].work_minutes = now.work_minutes
      /\ record[d].overtime_minutes = now.overtime_minutes
      /\ record[d].leave_id = now.leave_id
  BY <1>1, <1>2 DEF RecordFields
<1>4. \A c : c # "RecomputeAfterEdit" => (c \in record[d].anomalies <=> c \in now.anomalies)
  BY <1>2 DEF Unmarked
<1> QED BY <1>3, <1>4 DEF now

(* A record that is up to date tells an open day from a complete one.       *)
LEMMA OpenDayFollows ==
  ASSUME IInv
  PROVE  OpenDayIsFlagged
<1> SUFFICES ASSUME NEW d \in DOMAIN record, record[d].leave_id = 0
             PROVE  /\ Fresh(d) =>
                         LET agg  == aggregate_events(EventsOf(d), Window(d))
                             last == \E e \in agg.entries : \A x \in agg.exits : x < e
                         IN  "MissingExit" \in record[d].anomalies <=> last
                    /\ "OvernightInferenceAmbiguous" \notin record[d].anomalies =>
                         \A l \in {ShiftStart(d, setting.dept), ShiftEnd(d, setting.dept)} :
                           Cardinality(InstantsOf(setting.zone, l)) = 1
  BY DEF OpenDayIsFlagged, IInv
<1> DEFINE agg == aggregate_events(EventsOf(d), Window(d))
           now == compute_daily_record(InputOf(d))
<1>1. d \in Int
  BY DaysAre DEF IInv, TypeOK
<1>2. "OvernightInferenceAmbiguous" \notin record[d].anomalies =>
        \A l \in {ShiftStart(d, setting.dept), ShiftEnd(d, setting.dept)} :
          Cardinality(InstantsOf(setting.zone, l)) = 1
  BY DEF IInv, RecordsKept, RecordKept
<1>3. now.leave_id = 0 =>
        ("MissingExit" \in now.anomalies <=> \E e \in agg.entries : \A x \in agg.exits : x < e)
  BY <1>1, ComputedSays DEF IInv, TypeOK
<1>4. Fresh(d) => record[d].leave_id = now.leave_id
                  /\ ("MissingExit" \in record[d].anomalies <=> "MissingExit" \in now.anomalies)
  BY FreshSays
<1> HIDE DEF now, agg
<1>5. Fresh(d) => ("MissingExit" \in record[d].anomalies
                     <=> \E e \in agg.entries : \A x \in agg.exits : x < e)
  BY <1>3, <1>4
<1> QED BY <1>2, <1>5 DEF agg

(* recompute_for_day never passes a day left open for a complete one: a     *)
(* record that is up to date carries MissingExit exactly when the last      *)
(* attributed punch of its window is an entry, and is silent about the      *)
(* clock only when each boundary of the shift is one instant.               *)
THEOREM OpenDayIsAlwaysFlagged == Spec => []OpenDayIsFlagged
<1>1. IInv => OpenDayIsFlagged
  BY OpenDayFollows
<1> QED BY <1>1, AlwaysKept, PTL

-----------------------------------------------------------------------------
(* A sum of naturals above the cap is reached on the last day that adds to  *)
(* it.                                                                      *)
LEMMA LastContributes ==
  ASSUME NEW W \in SUBSET Int, IsFiniteSet(W), NEW f, \A x \in W : f[x] \in Nat,
         NEW cap \in Nat, SumFunctionOnSet(f, W) > cap
  PROVE  \E x \in W : f[x] > 0 /\
           SumFunctionOnSet(f, W) = SumFunctionOnSet(f, {z \in W : z < x}) + f[x]
<1> DEFINE P == {z \in W : f[z] > 0}
<1>1. P # {}
  <2>1. SUFFICES ASSUME P = {} PROVE FALSE
    OBVIOUS
  <2>2. \A x \in W : f[x] = 0
    BY <2>1
  <2>3. SumFunctionOnSet(f, W) = 0
    BY <2>2, SumOfNaturals
  <2> QED BY <2>3
<1>2. IsFiniteSet(P) /\ P \in SUBSET Int
  BY FS_Subset
<1>3. PICK x \in P : \A z \in P : x >= z
  <2> HIDE DEF P
  <2> QED BY <1>1, <1>2, MaxIs
<1> DEFINE A == {z \in W : z <= x}
           B == {z \in W : z > x}
           C == {z \in W : z < x}
<1>4. IsFiniteSet(A) /\ IsFiniteSet(B) /\ A \cap B = {} /\ A \cup B = W
  <2>1. IsFiniteSet(A) /\ IsFiniteSet(B)
    BY FS_Subset
  <2>2. x \in Int /\ \A z \in W : z \in Int
    BY <1>3
  <2>3. \A z \in W : (z <= x \/ z > x) /\ ~(z <= x /\ z > x)
    BY <2>2
  <2>4. A \cap B = {} /\ A \cup B = W
    BY <2>3
  <2> QED BY <2>1, <2>4
<1>5. SumFunctionOnSet(f, B) = 0
  <2>1. \A z \in B : f[z] = 0
    BY <1>3
  <2>2. \A z \in B : f[z] \in Nat
    OBVIOUS
  <2> HIDE DEF B
  <2> QED BY <1>4, <2>1, <2>2, SumOfNaturals
<1>6. x \in A /\ A \ {x} = C
  <2>1. x \in W /\ x \in Int /\ \A z \in W : z \in Int
    BY <1>3
  <2>2. x <= x /\ \A z \in W : z < x <=> z <= x /\ z # x
    BY <2>1
  <2> QED BY <2>1, <2>2
<1>7. \A z \in A : f[z] \in Int
  OBVIOUS
<1>8. \A z \in A \cup B : f[z] \in Int
  OBVIOUS
<1>9. f[x] > 0 /\ x \in W /\ f[x] \in Int
  BY <1>3
<1> HIDE DEF A, B, C
<1>10. /\ SumFunctionOnSet(f, A) \in Int /\ SumFunctionOnSet(f, A) = f[x] + SumFunctionOnSet(f, C)
       /\ SumFunctionOnSet(f, C) \in Int
  <2>1. /\ SumFunctionOnSet(f, A \ {x}) \in Int
        /\ SumFunctionOnSet(f, A) = f[x] + SumFunctionOnSet(f, A \ {x})
    BY <1>4, <1>6, <1>7, SumSteps
  <2> QED BY <1>4, <1>6, <1>7, <2>1, SumSteps
<1>11. SumFunctionOnSet(f, A \cup B) = SumFunctionOnSet(f, A) + SumFunctionOnSet(f, B)
  BY <1>4, <1>8, SumOfUnion
<1>12. SumFunctionOnSet(f, W) = SumFunctionOnSet(f, C) + f[x]
  <2>1. SumFunctionOnSet(f, W) = SumFunctionOnSet(f, A) + SumFunctionOnSet(f, B)
    BY <1>4, <1>11
  <2> QED BY <1>5, <1>9, <1>10, <2>1
<1> QED BY <1>9, <1>12 DEF C

(* The overtime on file for some days.                                      *)
LEMMA OvertimeIs ==
  ASSUME IInv, NEW days
  PROVE  LET ot == [x \in DOMAIN record |-> record[x].overtime_minutes]
         IN  /\ OvertimeOf(days) = SumFunctionOnSet(ot, days \cap DOMAIN record)
             /\ \A x \in DOMAIN record : ot[x] \in Nat
             /\ DOMAIN record \in SUBSET Int /\ IsFiniteSet(days \cap DOMAIN record)
<1> DEFINE ot == [x \in DOMAIN record |-> record[x].overtime_minutes]
           W == days \cap DOMAIN record
           f == [x \in W |-> record[x].overtime_minutes]
<1>1. \A x \in DOMAIN record : ot[x] \in Nat
  BY DEF IInv, TypeOK
<1>2. DOMAIN record \in SUBSET Int /\ IsFiniteSet(W)
  BY DaysAre, FS_Subset DEF IInv, TypeOK
<1>3. \A x \in W : f[x] \in Int /\ f[x] = ot[x]
  BY <1>1
<1>4. OvertimeOf(days) = SumFunctionOnSet(f, W)
  BY DEF OvertimeOf, SumFunction
<1> HIDE DEF f, ot, W
<1>5. SumFunctionOnSet(f, W) = SumFunctionOnSet(ot, W)
  BY <1>2, <1>3, SumAgrees
<1> QED BY <1>1, <1>2, <1>4, <1>5 DEF ot, W

(* A span of days whose overtime breaks a cap shows it, if the engine's     *)
(* total of each of its days looks back over the days of the span before.   *)
LEMMA SpanIsFlagged ==
  ASSUME IInv, NEW days, NEW soFar, NEW cap \in Nat, NEW code, code # "RecomputeAfterEdit",
         OvertimeOf(days) > cap,
         \A x \in days \cap DOMAIN record :
           /\ Fresh(x)
           /\ soFar[x] = OvertimeOf({z \in days : z < x})
           /\ LET now == compute_daily_record(InputOf(x))
              IN  now.overtime_minutes > 0 /\ soFar[x] + now.overtime_minutes > cap =>
                    code \in now.anomalies
  PROVE  FlaggedIn(days, code)
<1> DEFINE ot == [x \in DOMAIN record |-> record[x].overtime_minutes]
           W == days \cap DOMAIN record
<1>1. /\ OvertimeOf(days) = SumFunctionOnSet(ot, W) /\ W \in SUBSET Int /\ IsFiniteSet(W)
      /\ \A x \in W : ot[x] \in Nat
  BY OvertimeIs
<1> HIDE DEF ot
<1>2. PICK x \in W : ot[x] > 0 /\
        SumFunctionOnSet(ot, W) = SumFunctionOnSet(ot, {z \in W : z < x}) + ot[x]
  <2> HIDE DEF W
  <2> QED BY <1>1, LastContributes
<1>3. soFar[x] = SumFunctionOnSet(ot, {z \in W : z < x})
  <2>1. {z \in days : z < x} \cap DOMAIN record = {z \in W : z < x}
    OBVIOUS
  <2>2. OvertimeOf({z \in days : z < x}) =
          SumFunctionOnSet(ot, {z \in days : z < x} \cap DOMAIN record)
    BY OvertimeIs DEF ot
  <2> QED BY <1>2, <2>1, <2>2
<1>4. ot[x] = record[x].overtime_minutes
  BY <1>2 DEF ot
<1>5. /\ record[x].overtime_minutes = compute_daily_record(InputOf(x)).overtime_minutes
      /\ code \in record[x].anomalies <=> code \in compute_daily_record(InputOf(x)).anomalies
  BY <1>2, FreshSays
<1>6. code \in record[x].anomalies
  BY <1>1, <1>2, <1>3, <1>4, <1>5
<1> QED BY <1>2, <1>6 DEF FlaggedIn

(* The days of a week share their Monday.                                   *)
LEMMA WeekBefore ==
  ASSUME NEW d \in Int, NEW x \in WeekOf(d)
  PROVE  x \in Int /\ (x - Weekday(x))..(x - 1) = {z \in WeekOf(d) : z < x}
<1>1. x \in Int /\ d - (d % 7) <= x /\ x <= d - (d % 7) + 6 /\ d % 7 \in 0..6 /\ x % 7 \in 0..6
  BY DEF WeekOf, Weekday
<1>2. x - (x % 7) = d - (d % 7)
  BY <1>1
<1> QED BY <1>1, <1>2 DEF WeekOf, Weekday

(* The year of a day begins on the last first of January up to it.          *)
LEMMA YearStartIs ==
  ASSUME setting \in Settings, NEW d \in setting.days
  PROVE  /\ YearStart(d) \in YearStarts /\ YearStart(d) \in Int /\ YearStart(d) <= d
         /\ \A y \in YearStarts : y <= d => y <= YearStart(d)
<1> DEFINE Y == {y \in YearStarts : y <= d}
           ago == {d - y : y \in Y}
<1>1. d \in Int /\ YearStarts \in SUBSET Int /\ Y # {}
  BY DaysAre, SettingsAssumption, CalendarAssumption
<1>2. ago \in SUBSET Nat /\ ago # {}
  <2>1. \A y \in Y : d - y \in Nat
    BY <1>1
  <2> QED BY <1>1, <2>1
<1>3. PICK n \in ago : \A k \in ago : n <= k
  BY <1>2, LeastNatural
<1>4. PICK m \in Y : n = d - m
  BY <1>3
<1>5. \A y \in Y : d - y \in ago /\ y \in Int
  BY <1>1
<1>6. \A y \in Y : m >= y
  BY <1>1, <1>3, <1>4, <1>5
<1>7. YearStart(d) \in Y /\ \A y \in Y : YearStart(d) >= y
  <2>1. YearStart(d) = CHOOSE x \in Y : \A y \in Y : x >= y
    BY DEF YearStart, Max
  <2> HIDE DEF Y
  <2> QED BY <1>4, <1>6, <2>1
<1>8. YearStart(d) \in Int /\ \A y \in Y : y \in Int
  BY <1>1, <1>7
<1> QED BY <1>7, <1>8

(* The days of a year before one of its days are those YearSoFar sums over. *)
LEMMA YearBefore ==
  ASSUME setting \in Settings, NEW d \in setting.days, NEW x \in YearOf(d), NEW z \in setting.days
  PROVE  z \in YearStart(x)..(x - 1) <=> z \in YearOf(d) /\ z < x
<1>1. x \in setting.days /\ (\A y \in YearStarts : y <= x <=> y <= d)
  BY DEF YearOf
<1>2. d \in Int /\ x \in Int /\ z \in Int /\ YearStarts \in SUBSET Int
  BY <1>1, DaysAre, CalendarAssumption
<1>3. /\ YearStart(x) \in YearStarts /\ YearStart(x) \in Int /\ YearStart(x) <= x
      /\ \A y \in YearStarts : y <= x => y <= YearStart(x)
  BY <1>1, YearStartIs
<1>4. ASSUME z \in YearStart(x)..(x - 1) PROVE z \in YearOf(d) /\ z < x
  <2>1. YearStart(x) <= z /\ z < x
    BY <1>2, <1>3, <1>4
  <2>2. \A y \in YearStarts : y <= z <=> y <= x
    BY <1>2, <1>3, <2>1
  <2> QED BY <1>1, <2>1, <2>2 DEF YearOf
<1>5. ASSUME z \in YearOf(d), z < x PROVE z \in YearStart(x)..(x - 1)
  <2>1. YearStart(x) <= z
    BY <1>1, <1>3, <1>5 DEF YearOf
  <2> QED BY <1>2, <1>3, <1>5, <2>1
<1> QED BY <1>4, <1>5

(* The last day with a record in a week, or a year, of too much overtime    *)
(* says so.                                                                 *)
LEMMA BreachFollows ==
  ASSUME IInv
  PROVE  BreachIsSeen
<1> SUFFICES ASSUME \A x \in DOMAIN record : Fresh(x), NEW d \in DOMAIN record
             PROVE  /\ OvertimeOf(WeekOf(d)) > WeeklyCap =>
                         FlaggedIn(WeekOf(d), "OtCapExceededWeekly")
                    /\ OvertimeOf(YearOf(d)) > AnnualCap =>
                         FlaggedIn(YearOf(d), "OtCapExceededAnnual")
  BY DEF BreachIsSeen
<1>1. setting \in Settings /\ DOMAIN record \subseteq setting.days /\ setting.days \in SUBSET Int
  BY DaysAre DEF IInv, TypeOK
<1>2. WeeklyCap \in Nat /\ AnnualCap \in Nat
  BY CapsAssumption
<1>3. ASSUME NEW x \in DOMAIN record
      PROVE  LET now == compute_daily_record(InputOf(x))
             IN  now.overtime_minutes > 0 =>
                   /\ WeekSoFar(x) + now.overtime_minutes > WeeklyCap =>
                        "OtCapExceededWeekly" \in now.anomalies
                   /\ YearSoFar(x) + now.overtime_minutes > AnnualCap =>
                        "OtCapExceededAnnual" \in now.anomalies
  <2> DEFINE now == compute_daily_record(InputOf(x))
  <2>1. now.overtime_minutes > 0 =>
          check_overtime_caps(now.work_minutes, now.overtime_minutes, WeekSoFar(x), YearSoFar(x))
            \subseteq now.anomalies
    BY <1>1, ComputedSays DEF IInv, TypeOK
  <2> HIDE DEF now
  <2>2. \A work, ot, week, year :
          /\ week + ot > WeeklyCap =>
               "OtCapExceededWeekly" \in check_overtime_caps(work, ot, week, year)
          /\ year + ot > AnnualCap =>
               "OtCapExceededAnnual" \in check_overtime_caps(work, ot, week, year)
    BY DEF check_overtime_caps, Codes
  <2>3. now.overtime_minutes > 0 =>
          /\ WeekSoFar(x) + now.overtime_minutes > WeeklyCap =>
               "OtCapExceededWeekly" \in now.anomalies
          /\ YearSoFar(x) + now.overtime_minutes > AnnualCap =>
               "OtCapExceededAnnual" \in now.anomalies
    BY <2>1, <2>2
  <2> QED BY <2>3 DEF now
<1>4. ASSUME OvertimeOf(WeekOf(d)) > WeeklyCap
      PROVE  FlaggedIn(WeekOf(d), "OtCapExceededWeekly")
  <2> DEFINE soFar == [x \in DOMAIN record |-> WeekSoFar(x)]
  <2>1. ASSUME NEW x \in WeekOf(d) \cap DOMAIN record
        PROVE  /\ Fresh(x)
               /\ soFar[x] = OvertimeOf({z \in WeekOf(d) : z < x})
               /\ LET now == compute_daily_record(InputOf(x))
                  IN  now.overtime_minutes > 0 /\ soFar[x] + now.overtime_minutes > WeeklyCap =>
                        "OtCapExceededWeekly" \in now.anomalies
    <3>1. WeekSoFar(x) = OvertimeOf({z \in WeekOf(d) : z < x})
      <4>1. (x - Weekday(x))..(x - 1) = {z \in WeekOf(d) : z < x}
        BY <1>1, WeekBefore
      <4> QED BY <4>1 DEF WeekSoFar, OvertimeBetween
    <3>2. soFar[x] = WeekSoFar(x)
      OBVIOUS
    <3> HIDE DEF soFar
    <3> QED BY <1>3, <3>1, <3>2
  <2> HIDE DEF soFar
  <2> QED BY <1>2, <1>4, <2>1, SpanIsFlagged
<1>5. ASSUME OvertimeOf(YearOf(d)) > AnnualCap
      PROVE  FlaggedIn(YearOf(d), "OtCapExceededAnnual")
  <2> DEFINE soFar == [x \in DOMAIN record |-> YearSoFar(x)]
  <2>1. ASSUME NEW x \in YearOf(d) \cap DOMAIN record
        PROVE  /\ Fresh(x)
               /\ soFar[x] = OvertimeOf({z \in YearOf(d) : z < x})
               /\ LET now == compute_daily_record(InputOf(x))
                  IN  now.overtime_minutes > 0 /\ soFar[x] + now.overtime_minutes > AnnualCap =>
                        "OtCapExceededAnnual" \in now.anomalies
    <3>1. YearSoFar(x) = OvertimeOf({z \in YearOf(d) : z < x})
      <4>1. (YearStart(x)..(x - 1)) \cap DOMAIN record = {z \in YearOf(d) : z < x} \cap DOMAIN record
        BY <1>1, YearBefore
      <4> QED BY <4>1 DEF YearSoFar, OvertimeBetween, OvertimeOf
    <3>2. soFar[x] = YearSoFar(x)
      OBVIOUS
    <3> HIDE DEF soFar
    <3> QED BY <1>3, <3>1, <3>2
  <2> HIDE DEF soFar
  <2> QED BY <1>2, <1>5, <2>1, SpanIsFlagged
<1> QED BY <1>4, <1>5

(* The running totals of recompute_for_day miss no day: where every record  *)
(* is up to date, a week or a year of too much overtime is flagged on one   *)
(* of its days, also across the turn of the year.                           *)
THEOREM BreachIsAlwaysSeen == Spec => []BreachIsSeen
<1>1. IInv => BreachIsSeen
  BY BreachFollows
<1> QED BY <1>1, AlwaysKept, PTL

(* A saturating sum depends on its terms alone.                             *)
LEMMA SatAgrees ==
  ASSUME NEW S, IsFiniteSet(S), NEW f, NEW g,
         \A x \in S : f[x] \in Int /\ f[x] = g[x]
  PROVE  Saturated(f, S) \in Int /\ Saturated(f, S) = Saturated(g, S)
<1> DEFINE Good == {T \in SUBSET S : Saturated(f, T) = Saturated(g, T)}
<1>1. ASSUME NEW T \in SUBSET S, \A U \in SUBSET T : U # T => U \in Good PROVE T \in Good
  <2>1. CASE T = {}
    BY <2>1, SatEquation
  <2>2. CASE T # {}
    <3> DEFINE x == Taken(T)
    <3>1. x \in T
      BY <2>2 DEF Taken
    <3>2. Saturated(f, T) = SatAdd(f[x], Saturated(f, T \ {x}))
      BY <2>2, SatEquation
    <3>3. Saturated(g, T) = SatAdd(g[x], Saturated(g, T \ {x}))
      BY <2>2, SatEquation
    <3> HIDE DEF x
    <3>4. Saturated(f, T \ {x}) = Saturated(g, T \ {x})
      BY <1>1, <3>1
    <3> QED BY <3>1, <3>2, <3>3, <3>4
  <2> QED BY <2>1, <2>2
<1> HIDE DEF Good
<1>2. S \in Good
  BY <1>1, SubsetInduction
<1>3. Saturated(f, S) \in Int
  BY SatEquation
<1> QED BY <1>2, <1>3 DEF Good

-----------------------------------------------------------------------------
(* What a report of the state says of a period.                             *)
Request(period) ==
  [period |-> period, from |-> setting.ref, to |-> setting.ref, filter |-> {}, format |-> "json"]

Span(period) == PeriodDays(Request(period))

(* Whether the record of a day is attached to the active leave, and the     *)
(* minutes that a day counts for.                                           *)
Attached(d) == LeaveKind(setting, Db, d) # {}
Minutes(d)  == IF d \in DOMAIN record /\ ~Attached(d) THEN effective_work_min(Db, d) ELSE 0
Ordinary(d) == expected_minutes(setting.dept.ordinary, d, FALSE)
Missing(d)  == deficit_minutes(Ordinary(d), Minutes(d))
Earned(d)   == StandardPay(setting, Db, d).total

Standard(D)   == {d \in D \cap DOMAIN record : ~Attached(d)}
OffRecord(D)  == {d \in D \cap DOMAIN record : Attached(d)}
Vacation(D)   == {d \in D \cap DOMAIN record : "vacation" \in LeaveKind(setting, Db, d)}
WorkedDays(D) == {d \in Standard(D) : Minutes(d) > 0}
LeaveIn(D)    == IF leave.active THEN LeaveRange \cap D ELSE {}
Employed(D)   ==
  {d \in D : /\ Weekday(d) < 5
             /\ \A h \in setting.hire : d >= h
             /\ \A t \in terminated : d <= DateOf(t)}
Due(D) == Employed(D) \ (OffRecord(D) \cup LeaveIn(D))

SaysOf(row, D) ==
  /\ row.amounts.worked_dates = WorkedDays(D)
  /\ row.amounts.leave_dates = OffRecord(D) \cup LeaveIn(D)
  /\ row.amounts.days_on_leave = 0 + Cardinality(LeaveIn(D))
  /\ row.amounts.work_min = Saturated([d \in Standard(D) |-> Minutes(d)], Standard(D))
  /\ row.amounts.total =
       SatAdd(Saturated([d \in Standard(D) |-> Earned(d)], Standard(D)),
              Saturated([d \in Vacation(D) |-> VacationPay(setting)], Vacation(D)))
  /\ row.days_absent = Cardinality(Due(D) \ WorkedDays(D))
  /\ row.expected_min = Saturated([d \in Due(D) |-> Ordinary(d)], Due(D))
  /\ row.deficit_min = Saturated([d \in Due(D) |-> Missing(d)], Due(D))

RowOf(period) ==
  Finish(setting, Request(period), Db,
         CountLeaves(setting, Request(period), Db, Sweep(setting, Request(period), Db)))

(* A report of the state has the employee's row, or none.                   *)
LEMMA ReportsAre ==
  ASSUME NEW period
  PROVE  Reports(period) = IF InUniverse(setting, Request(period), Db) THEN {RowOf(period)} ELSE {}
  BY DEF Reports, compute_report, RowsOf, RowOf, Request

(* What the first query accumulates over the days of a period.              *)
LEMMA SweepSays ==
  ASSUME NEW period
  PROVE  LET D == Span(period)
             acc == Sweep(setting, Request(period), Db)
         IN  /\ acc.worked_dates = WorkedDays(D) /\ acc.leave_dates = OffRecord(D)
             /\ acc.days_on_leave = 0
             /\ acc.worked_by_date = [d \in Standard(D) |-> Minutes(d)]
             /\ acc.work_min = Saturated([d \in Standard(D) |-> Minutes(d)], Standard(D))
             /\ acc.total =
                  SatAdd(Saturated([d \in Standard(D) |-> Earned(d)], Standard(D)),
                         Saturated([d \in Vacation(D) |-> VacationPay(setting)], Vacation(D)))
             /\ DOMAIN acc =
                  {"worked_dates", "leave_dates", "worked_by_date", "days_worked", "work_min",
                   "ot_min", "late_min", "work_pay", "ot_pay", "night_premium", "rest_surcharge",
                   "late_deduction", "total", "days_on_leave", "anomalies"}
<1> DEFINE D == Span(period)
           days == D \cap DOMAIN record
           pay == [d \in days |-> StandardPay(setting, Db, d)]
           acc == Accumulate(setting, Db, days, pay)
<1>1. Swept(Request(period), Db) = days
  BY DEF Swept, Request, ShiftMatches, Db, Span
<1>2. Sweep(setting, Request(period), Db) = acc
  BY <1>1 DEF Sweep
<1>3. {d \in days : LeaveKind(setting, Db, d) # {}} = OffRecord(D)
  BY DEF OffRecord, Attached
<1>4. days \ {d \in days : LeaveKind(setting, Db, d) # {}} = Standard(D)
  BY DEF Standard, Attached
<1>5. {d \in days : "vacation" \in LeaveKind(setting, Db, d)} = Vacation(D)
  BY DEF Vacation
<1>6. \A d \in Standard(D) :
        d \in days /\ effective_work_min(Db, d) = Minutes(d) /\ pay[d].total = Earned(d)
  BY DEF Standard, Minutes, Earned
<1>7. {d \in Standard(D) : effective_work_min(Db, d) > 0} = WorkedDays(D)
  BY <1>6 DEF WorkedDays
<1>8. /\ [d \in Standard(D) |-> effective_work_min(Db, d)] = [d \in Standard(D) |-> Minutes(d)]
      /\ [d \in Standard(D) |-> pay[d].total] = [d \in Standard(D) |-> Earned(d)]
  BY <1>6
<1> HIDE DEF pay, days
<1>9. /\ acc.worked_dates = {d \in Standard(D) : effective_work_min(Db, d) > 0}
      /\ acc.leave_dates = OffRecord(D) /\ acc.days_on_leave = 0
      /\ acc.worked_by_date = [d \in Standard(D) |-> effective_work_min(Db, d)]
      /\ acc.work_min = SatSum(LAMBDA d : effective_work_min(Db, d), Standard(D))
      /\ acc.total = SatAdd(SatSum(LAMBDA d : pay[d].total, Standard(D)),
                            SatSum(LAMBDA d : VacationPay(setting), Vacation(D)))
      /\ DOMAIN acc =
           {"worked_dates", "leave_dates", "worked_by_date", "days_worked", "work_min",
            "ot_min", "late_min", "work_pay", "ot_pay", "night_premium", "rest_surcharge",
            "late_deduction", "total", "days_on_leave", "anomalies"}
  BY <1>3, <1>4, <1>5 DEF Accumulate
<1> HIDE DEF acc
<1>10. /\ acc.work_min = Saturated([d \in Standard(D) |-> effective_work_min(Db, d)], Standard(D))
       /\ acc.total =
            SatAdd(Saturated([d \in Standard(D) |-> pay[d].total], Standard(D)),
                   Saturated([d \in Vacation(D) |-> VacationPay(setting)], Vacation(D)))
  BY <1>9 DEF SatSum, FoldFunction, Saturated
<1> QED BY <1>2, <1>7, <1>8, <1>9, <1>10

(* What a row says of the days of its period.                               *)
LEMMA RowSays ==
  ASSUME NEW period
  PROVE  SaysOf(RowOf(period), Span(period))
<1> DEFINE D == Span(period)
           q == Request(period)
           first == Sweep(setting, q, Db)
           acc == CountLeaves(setting, q, Db, first)
           due == EmployedWeekdays(setting, q, Db) \ acc.leave_dates
           row == RowOf(period)
<1>1. LeaveDays(setting, q, Db) = LeaveIn(D)
  <2>1. \A shift : ShiftMatches(q, shift)
    BY DEF Request, ShiftMatches
  <2>2. Db.leave = leave
    BY DEF Db
  <2>3. CASE leave.active
    <3>1. LeaveDays(setting, q, Db) = LeaveRange \cap PeriodDays(q)
      BY <2>1, <2>2, <2>3 DEF LeaveDays, LeaveRange
    <3>2. PeriodDays(q) = D
      BY DEF Span
    <3> QED BY <2>3, <3>1, <3>2 DEF LeaveIn
  <2>4. CASE ~leave.active
    <3>1. LeaveDays(setting, q, Db) = {}
      BY <2>2, <2>4 DEF LeaveDays
    <3> QED BY <2>4, <3>1 DEF LeaveIn
  <2> QED BY <2>3, <2>4
<1>2. EmployedWeekdays(setting, q, Db) = Employed(D)
  BY DEF EmployedWeekdays, Employed, Db, Span
<1>3. /\ first.worked_dates = WorkedDays(D) /\ first.leave_dates = OffRecord(D)
      /\ first.days_on_leave = 0
      /\ first.worked_by_date = [d \in Standard(D) |-> Minutes(d)]
      /\ first.work_min = Saturated([d \in Standard(D) |-> Minutes(d)], Standard(D))
      /\ first.total =
           SatAdd(Saturated([d \in Standard(D) |-> Earned(d)], Standard(D)),
                  Saturated([d \in Vacation(D) |-> VacationPay(setting)], Vacation(D)))
      /\ DOMAIN first =
           {"worked_dates", "leave_dates", "worked_by_date", "days_worked", "work_min",
            "ot_min", "late_min", "work_pay", "ot_pay", "night_premium", "rest_surcharge",
            "late_deduction", "total", "days_on_leave", "anomalies"}
  BY SweepSays
<1> HIDE DEF first
<1>4. acc = [first EXCEPT !.days_on_leave = @ + Cardinality(LeaveIn(D)),
                          !.leave_dates = @ \cup LeaveIn(D)]
  BY <1>1 DEF CountLeaves
<1> HIDE DEF acc
<1>5. /\ acc.worked_dates = first.worked_dates /\ acc.work_min = first.work_min
      /\ acc.total = first.total /\ acc.worked_by_date = first.worked_by_date
      /\ acc.leave_dates = OffRecord(D) \cup LeaveIn(D)
      /\ acc.days_on_leave = 0 + Cardinality(LeaveIn(D))
  BY <1>3, <1>4
<1>6. due = Due(D)
  BY <1>2, <1>5 DEF Due
<1>7. /\ row.amounts = acc
      /\ row.days_absent = Cardinality(due \ acc.worked_dates)
      /\ row.expected_min = SatSum(LAMBDA d : expected_minutes(setting.dept.ordinary, d, FALSE), due)
      /\ row.deficit_min = SatSum(LAMBDA d : deficit_minutes(
                                    expected_minutes(setting.dept.ordinary, d, FALSE),
                                    WorkedOn(acc, d)), due)
  BY DEF RowOf, Finish, DeficitMin, acc, first
<1> HIDE DEF due, row
<1>8. row.expected_min = Saturated([d \in due |-> Ordinary(d)], due)
  BY <1>7 DEF SatSum, FoldFunction, Saturated, Ordinary
<1>9. row.deficit_min = Saturated([d \in due |-> Missing(d)], due)
  <2>1. \A d \in due : WorkedOn(acc, d) = Minutes(d)
    <3>1. \A d \in due : d \in D
      BY <1>6 DEF Due, Employed
    <3>2. \A d \in D : d \in Standard(D) <=> d \in DOMAIN record /\ ~Attached(d)
      BY DEF Standard
    <3>3. acc.worked_by_date = [d \in Standard(D) |-> Minutes(d)]
      BY <1>3, <1>5
    <3>4. \A d : d \notin DOMAIN record \/ Attached(d) => Minutes(d) = 0
      BY DEF Minutes
    <3> QED BY <3>1, <3>2, <3>3, <3>4 DEF WorkedOn
  <2>2. [d \in due |-> deficit_minutes(expected_minutes(setting.dept.ordinary, d, FALSE),
                                       WorkedOn(acc, d))] = [d \in due |-> Missing(d)]
    BY <2>1 DEF Missing, Ordinary
  <2>3. row.deficit_min =
          Saturated([d \in due |-> deficit_minutes(expected_minutes(setting.dept.ordinary, d, FALSE),
                                                   WorkedOn(acc, d))], due)
    BY <1>7 DEF SatSum, FoldFunction, Saturated
  <2> QED BY <2>2, <2>3
<1> QED BY <1>3, <1>5, <1>6, <1>7, <1>8, <1>9 DEF SaysOf, row

(* The sum of sums.                                                         *)
LEMMA SumPlus ==
  ASSUME NEW S, IsFiniteSet(S), NEW f, NEW g, NEW h,
         \A x \in S : f[x] \in Int /\ g[x] \in Int /\ h[x] = f[x] + g[x]
  PROVE  SumFunctionOnSet(h, S) = SumFunctionOnSet(f, S) + SumFunctionOnSet(g, S)
<1> DEFINE Good == {T \in SUBSET S :
             SumFunctionOnSet(h, T) = SumFunctionOnSet(f, T) + SumFunctionOnSet(g, T)}
<1>0. \A x \in S : h[x] \in Int
  OBVIOUS
<1>1. ASSUME NEW T \in SUBSET S, \A U \in SUBSET T : U # T => U \in Good PROVE T \in Good
  <2>0. IsFiniteSet(T)
    BY FS_Subset
  <2>1. CASE T = {}
    BY <2>1, SumEmpty
  <2>2. CASE T # {}
    <3>1. PICK x \in T : TRUE
      BY <2>2
    <3> DEFINE U == T \ {x}
    <3>2. U \in Good
      BY <1>1, <3>1
    <3>3. SumFunctionOnSet(f, T) = f[x] + SumFunctionOnSet(f, U) /\ SumFunctionOnSet(f, U) \in Int
      BY <2>0, SumSteps
    <3>4. SumFunctionOnSet(g, T) = g[x] + SumFunctionOnSet(g, U) /\ SumFunctionOnSet(g, U) \in Int
      BY <2>0, SumSteps
    <3>5. SumFunctionOnSet(h, T) = h[x] + SumFunctionOnSet(h, U) /\ SumFunctionOnSet(h, U) \in Int
      BY <1>0, <2>0, SumSteps
    <3>6. f[x] \in Int /\ g[x] \in Int /\ h[x] = f[x] + g[x]
      OBVIOUS
    <3>7. SumFunctionOnSet(h, U) = SumFunctionOnSet(f, U) + SumFunctionOnSet(g, U)
      BY <3>2
    <3> HIDE DEF U
    <3> QED BY <3>3, <3>4, <3>5, <3>6, <3>7
  <2> QED BY <2>1, <2>2
<1> HIDE DEF Good
<1>2. S \in Good
  BY <1>1, SubsetInduction
<1> QED BY <1>2 DEF Good

(* A larger natural term makes a saturating sum no smaller.                 *)
LEMMA SatMonotone ==
  ASSUME NEW S, IsFiniteSet(S), NEW f, NEW g,
         \A x \in S : f[x] \in Nat /\ g[x] \in Nat /\ f[x] <= g[x]
  PROVE  Saturated(f, S) <= Saturated(g, S)
<1>1. SumFunctionOnSet(f, S) <= SumFunctionOnSet(g, S)
  BY SumMonotone
<1>2. SumFunctionOnSet(f, S) \in Nat /\ SumFunctionOnSet(g, S) \in Nat
  BY SumOfNaturals
<1>3. Saturated(f, S) = IF SumFunctionOnSet(f, S) <= MaxInt THEN SumFunctionOnSet(f, S) ELSE MaxInt
  BY SaturatedNaturals
<1>4. Saturated(g, S) = IF SumFunctionOnSet(g, S) <= MaxInt THEN SumFunctionOnSet(g, S) ELSE MaxInt
  BY SaturatedNaturals
<1> QED BY <1>1, <1>2, <1>3, <1>4, BoundsAssumption

(* What is had over P, and zero elsewhere, and what is missing over S make  *)
(* up for what is expected over S.                                          *)
LEMMA HadAndMissing ==
  ASSUME NEW S, IsFiniteSet(S), NEW P, IsFiniteSet(P), NEW e, NEW had, NEW missing,
         \A x \in S : e[x] \in Nat /\ missing[x] \in Nat /\ e[x] <= had[x] + missing[x],
         \A x \in S \cup P : had[x] \in Nat, \A x \in S \ P : had[x] = 0
  PROVE  Saturated(e, S) <= Saturated(had, P) + Saturated(missing, S)
<1> DEFINE both == [x \in S |-> had[x] + missing[x]]
<1>1. \A x \in S : had[x] \in Int /\ missing[x] \in Int /\ both[x] = had[x] + missing[x]
  OBVIOUS
<1>2. \A x \in S : e[x] \in Int /\ both[x] \in Int /\ e[x] <= both[x]
  OBVIOUS
<1> HIDE DEF both
<1>3. SumFunctionOnSet(e, S) <= SumFunctionOnSet(both, S)
  BY <1>2, SumMonotone
<1>4. SumFunctionOnSet(both, S) = SumFunctionOnSet(had, S) + SumFunctionOnSet(missing, S)
  BY <1>1, SumPlus
<1>5. SumFunctionOnSet(had, S) <= SumFunctionOnSet(had, P)
  <2> DEFINE I == S \cap P
             O == S \ P
  <2>1. IsFiniteSet(I) /\ IsFiniteSet(O) /\ I \cap O = {} /\ I \cup O = S /\ I \in SUBSET P
    BY FS_Intersection, FS_Difference
  <2>2. (\A x \in O : had[x] \in Nat /\ had[x] = 0) /\ \A x \in I \cup O : had[x] \in Int
    OBVIOUS
  <2> HIDE DEF I, O
  <2>3. SumFunctionOnSet(had, O) = 0
    BY <2>1, <2>2, SumOfNaturals
  <2>4. SumFunctionOnSet(had, I \cup O) = SumFunctionOnSet(had, I) + SumFunctionOnSet(had, O)
    BY <2>1, <2>2, SumOfUnion
  <2>5. SumFunctionOnSet(had, I) <= SumFunctionOnSet(had, P)
    BY <2>1, SumOfPart
  <2>6. SumFunctionOnSet(had, I) \in Int
    BY <2>1, <2>2, SumSteps
  <2>7. SumFunctionOnSet(had, S) = SumFunctionOnSet(had, I)
    <3>1. SumFunctionOnSet(had, S) = SumFunctionOnSet(had, I) + SumFunctionOnSet(had, O)
      BY <2>1, <2>4
    <3> QED BY <2>3, <2>6, <3>1
  <2> QED BY <2>5, <2>7
<1>6. /\ SumFunctionOnSet(e, S) \in Nat /\ SumFunctionOnSet(missing, S) \in Nat
      /\ SumFunctionOnSet(had, S) \in Nat /\ SumFunctionOnSet(had, P) \in Nat
  BY SumOfNaturals
<1>7. Saturated(e, S) = IF SumFunctionOnSet(e, S) <= MaxInt THEN SumFunctionOnSet(e, S) ELSE MaxInt
  BY SaturatedNaturals
<1>8. Saturated(had, P) =
        IF SumFunctionOnSet(had, P) <= MaxInt THEN SumFunctionOnSet(had, P) ELSE MaxInt
  BY SaturatedNaturals
<1>9. Saturated(missing, S) =
        IF SumFunctionOnSet(missing, S) <= MaxInt THEN SumFunctionOnSet(missing, S) ELSE MaxInt
  BY SaturatedNaturals
<1>10. SumFunctionOnSet(e, S) <= SumFunctionOnSet(had, P) + SumFunctionOnSet(missing, S)
  BY <1>3, <1>4, <1>5, <1>6
<1> QED BY <1>6, <1>7, <1>8, <1>9, <1>10, BoundsAssumption

-----------------------------------------------------------------------------
(* The month of a day runs from the last first up to it to before the next, *)
(* 28 to 31 days.                                                           *)
LEMMA MonthIs ==
  ASSUME setting \in Settings
  PROVE  LET ref == setting.ref
         IN  /\ ref \in Int /\ MonthOf(ref) \in Int /\ last_day_of_month(ref) \in Int
             /\ MonthOf(ref) <= ref /\ ref <= last_day_of_month(ref)
             /\ last_day_of_month(ref) - MonthOf(ref) \in 27..30
<1> DEFINE ref == setting.ref
           Past == {m \in MonthStarts : m <= ref}
           Coming == {m \in MonthStarts : m > ref}
           ago == {ref - m : m \in Past}
           to == {m - ref : m \in Coming}
<1>1. ref \in Int /\ Past # {} /\ Coming # {} /\ MonthStarts \in SUBSET Int
  BY SettingsAssumption, CalendarAssumption
<1>2. (\A m \in Past : m \in Int /\ ref - m \in Nat) /\ \A m \in Coming : m \in Int /\ m - ref \in Nat
  BY <1>1
<1>3. ago \in SUBSET Nat /\ ago # {} /\ to \in SUBSET Nat /\ to # {}
  BY <1>1, <1>2
<1>4. PICK m \in Past : \A k \in ago : ref - m <= k
  BY <1>3, LeastNatural
<1>5. PICK n \in Coming : \A k \in to : n - ref <= k
  BY <1>3, LeastNatural
<1>6. \A y \in Past : m >= y
  <2>1. \A y \in Past : ref - m <= ref - y
    BY <1>4
  <2> QED BY <1>1, <1>2, <2>1
<1>7. \A y \in Coming : n <= y
  <2>1. \A y \in Coming : n - ref <= y - ref
    BY <1>5
  <2> QED BY <1>1, <1>2, <2>1
<1>8. MonthOf(ref) \in Past /\ \A y \in Past : MonthOf(ref) >= y
  <2>1. MonthOf(ref) = CHOOSE x \in Past : \A y \in Past : x >= y
    BY DEF MonthOf, Max
  <2> HIDE DEF Past
  <2> QED BY <1>6, <2>1
<1>9. Min(Coming) \in Coming /\ \A y \in Coming : Min(Coming) <= y
  <2> HIDE DEF Coming
  <2> QED BY <1>7 DEF Min
<1>10. last_day_of_month(ref) = Min(Coming) - 1
  BY DEF last_day_of_month
<1> DEFINE a == MonthOf(ref)
           b == Min(Coming)
<1>11. a \in Int /\ b \in Int /\ a <= ref /\ b > ref /\ a \in MonthStarts /\ b \in MonthStarts
  BY <1>2, <1>8, <1>9
<1> HIDE DEF a, b, ref
<1>12. PICK k \in MonthStarts : k - a \in 28..31
  BY <1>1, <1>11, CalendarAssumption
<1>13. k \in Int /\ k > a
  BY <1>1, <1>11, <1>12
<1>14. k > ref
  BY <1>1, <1>8, <1>11, <1>13 DEF a
<1>15. b <= k
  BY <1>9, <1>14 DEF b
<1>16. b - a >= 28
  BY <1>1, <1>11, CalendarAssumption
<1>17. b - a \in 28..31
  BY <1>11, <1>12, <1>13, <1>15, <1>16
<1>18. (b - 1) - a \in 27..30
  BY <1>11, <1>17
<1> QED BY <1>1, <1>10, <1>11, <1>18 DEF a, b, ref

(* The days of a month and of its fortnights.                               *)
LEMMA SpanIs ==
  ASSUME setting \in Settings
  PROVE  /\ Span("monthly") = MonthOf(setting.ref)..last_day_of_month(setting.ref)
         /\ Span("biweekly_first") = MonthOf(setting.ref)..(MonthOf(setting.ref) + 14)
         /\ Span("biweekly_second") = (MonthOf(setting.ref) + 15)..last_day_of_month(setting.ref)
  BY DEF Span, PeriodDays, resolve_period, Request, FifteenthOf

(* A month is finite and has at most 31 days.                               *)
LEMMA MonthDays ==
  ASSUME setting \in Settings
  PROVE  /\ Span("monthly") \in SUBSET Int /\ IsFiniteSet(Span("monthly"))
         /\ Cardinality(Span("monthly")) \in Nat /\ Cardinality(Span("monthly")) <= 31
<1> DEFINE a == MonthOf(setting.ref)
           b == last_day_of_month(setting.ref)
<1>1. a \in Int /\ b \in Int /\ b - a \in 27..30 /\ Span("monthly") = a..b
  BY MonthIs, SpanIs
<1> HIDE DEF a, b
<1>2. IsFiniteSet(a..b) /\ Cardinality(a..b) = IF a > b THEN 0 ELSE b - a + 1
  BY <1>1, FS_Interval
<1> QED BY <1>1, <1>2

(* The minutes of a day with a record: its override, or its own.            *)
LEMMA EffectiveIs ==
  ASSUME IInv, NEW d \in DOMAIN record
  PROVE  /\ effective_work_min(Db, d) \in Int
         /\ (\A x \in DOMAIN override : \A m \in override[x] : m >= 0) =>
              effective_work_min(Db, d) >= 0
<1>1. record[d].work_minutes \in Nat
  BY DEF IInv, TypeOK
<1>2. ASSUME d \in DOMAIN override, override[d] # {}
      PROVE  Max(override[d]) \in override[d] /\ Max(override[d]) \in Int
  <2>1. override[d] \subseteq Int /\ \A i, j \in override[d] : i = j
    BY <1>2, SettingsAssumption DEF IInv, OverridesKept, TypeOK
  <2>2. PICK m \in override[d] : \A j \in override[d] : j = m
    BY <1>2, <2>1
  <2>3. Max(override[d]) = m
    BY <2>1, <2>2 DEF Max
  <2> QED BY <2>1, <2>2, <2>3
<1> QED BY <1>1, <1>2 DEF effective_work_min, Db

(* The minutes that a day counts for: those of its override, if it has one. *)
LEMMA MinutesAre ==
  ASSUME IInv
  PROVE  \A d \in Int :
           /\ Minutes(d) \in Int /\ Ordinary(d) \in Nat /\ Missing(d) \in Nat
           /\ Ordinary(d) <= Minutes(d) + Missing(d)
           /\ (\A x \in DOMAIN override : \A m \in override[x] : m >= 0) =>
                Minutes(d) \in Nat /\ Missing(d) <= Ordinary(d)
<1> SUFFICES ASSUME NEW d \in Int
             PROVE  /\ Minutes(d) \in Int /\ Ordinary(d) \in Nat /\ Missing(d) \in Nat
                    /\ Ordinary(d) <= Minutes(d) + Missing(d)
                    /\ (\A x \in DOMAIN override : \A m \in override[x] : m >= 0) =>
                         Minutes(d) \in Nat /\ Missing(d) <= Ordinary(d)
  OBVIOUS
<1>1. Ordinary(d) \in Nat
  <2>1. setting.dept.ordinary \in Nat
    BY SettingsAssumption DEF IInv, TypeOK
  <2> QED BY <2>1 DEF Ordinary, expected_minutes
<1>4. d \in DOMAIN record =>
        /\ effective_work_min(Db, d) \in Int
        /\ (\A x \in DOMAIN override : \A m \in override[x] : m >= 0) =>
             effective_work_min(Db, d) >= 0
  BY EffectiveIs
<1>5. /\ Minutes(d) \in Int
      /\ (\A x \in DOMAIN override : \A m \in override[x] : m >= 0) => Minutes(d) >= 0
  BY <1>4 DEF Minutes
<1>6. /\ Missing(d) \in Nat
      /\ Missing(d) = IF Ordinary(d) - Minutes(d) >= 0 THEN Ordinary(d) - Minutes(d) ELSE 0
  <2>1. Ordinary(d) - Minutes(d) \in Int
    BY <1>1, <1>5
  <2> QED BY <2>1, AtLeastZeroIs DEF Missing, deficit_minutes
<1> QED BY <1>1, <1>5, <1>6

(* The sets of days that a row is made of.                                  *)
LEMMA DaysOfRow ==
  ASSUME IInv, NEW D \in SUBSET Int, IsFiniteSet(D)
  PROVE  /\ IsFiniteSet(Standard(D)) /\ IsFiniteSet(OffRecord(D)) /\ IsFiniteSet(LeaveIn(D))
         /\ IsFiniteSet(Due(D)) /\ IsFiniteSet(Vacation(D)) /\ IsFiniteSet(WorkedDays(D))
         /\ Standard(D) \subseteq D /\ Due(D) \subseteq D /\ Vacation(D) \subseteq D
         /\ WorkedDays(D) \subseteq D /\ LeaveIn(D) \subseteq D
         /\ OffRecord(D) \subseteq LeaveIn(D)
<1>1. /\ Standard(D) \subseteq D /\ OffRecord(D) \subseteq D /\ LeaveIn(D) \subseteq D
      /\ Due(D) \subseteq D /\ Vacation(D) \subseteq D /\ WorkedDays(D) \subseteq D
  BY DEF Standard, OffRecord, LeaveIn, Due, Employed, Vacation, WorkedDays
<1>2. ASSUME NEW d \in OffRecord(D) PROVE d \in LeaveIn(D)
  <2>1. d \in D /\ d \in DOMAIN record /\ LeaveKind(setting, Db, d) # {}
    BY <1>2 DEF OffRecord, Attached
  <2>2. leave.active /\ record[d].leave_id = leave.id
    BY <2>1 DEF LeaveKind, Db
  <2>3. record[d].leave_id # 0
    BY <2>2 DEF IInv, LeaveKept
  <2>4. d \in LeaveRange
    BY <2>1, <2>3 DEF IInv, RecordsKept, RecordKept
  <2> QED BY <2>1, <2>2, <2>4 DEF LeaveIn
<1> QED BY <1>1, <1>2, FS_Subset

(* What a month expects is either worked or missing.                        *)
LEMMA MonthAccounted ==
  ASSUME IInv, NEW row \in Reports("monthly"),
         \A d \in DOMAIN override : \A m \in override[d] : m >= 0
  PROVE  /\ row.deficit_min <= row.expected_min
         /\ row.expected_min <= row.amounts.work_min + row.deficit_min
<1> DEFINE D == Span("monthly")
           due == Due(D)
           std == Standard(D)
           e == [d \in D |-> Ordinary(d)]
           had == [d \in D |-> Minutes(d)]
           missing == [d \in D |-> Missing(d)]
<1>1. row = RowOf("monthly")
  BY ReportsAre
<1>2. /\ row.amounts.work_min = Saturated([d \in std |-> Minutes(d)], std)
      /\ row.expected_min = Saturated([d \in due |-> Ordinary(d)], due)
      /\ row.deficit_min = Saturated([d \in due |-> Missing(d)], due)
  BY <1>1, RowSays DEF SaysOf
<1>3. D \in SUBSET Int /\ IsFiniteSet(D)
  BY MonthDays DEF IInv, TypeOK
<1> HIDE DEF D
<1>4. IsFiniteSet(due) /\ IsFiniteSet(std) /\ due \subseteq D /\ std \subseteq D
  BY <1>3, DaysOfRow
<1>5. \A d \in D : /\ Minutes(d) \in Nat /\ Ordinary(d) \in Nat /\ Missing(d) \in Nat
                   /\ Ordinary(d) <= Minutes(d) + Missing(d) /\ Missing(d) <= Ordinary(d)
  BY <1>3, MinutesAre
<1>6. \A d \in due \ std : Minutes(d) = 0
  BY <1>4 DEF Standard, Minutes
<1>7. \A d \in due : e[d] = Ordinary(d) /\ missing[d] = Missing(d) /\ had[d] = Minutes(d)
  BY <1>4
<1>8. \A d \in std : had[d] = Minutes(d)
  BY <1>4
<1> HIDE DEF due, std, e, had, missing
<1>9. Saturated([d \in std |-> Minutes(d)], std) = Saturated(had, std)
  <2> DEFINE f == [d \in std |-> Minutes(d)]
  <2>1. \A d \in std : f[d] \in Int /\ f[d] = had[d]
    BY <1>4, <1>5, <1>8
  <2> HIDE DEF f
  <2>2. Saturated(f, std) = Saturated(had, std)
    BY <1>4, <2>1, SatAgrees
  <2> QED BY <2>2 DEF f
<1>10. Saturated([d \in due |-> Ordinary(d)], due) = Saturated(e, due)
  <2> DEFINE f == [d \in due |-> Ordinary(d)]
  <2>1. \A d \in due : f[d] \in Int /\ f[d] = e[d]
    BY <1>4, <1>5, <1>7
  <2> HIDE DEF f
  <2>2. Saturated(f, due) = Saturated(e, due)
    BY <1>4, <2>1, SatAgrees
  <2> QED BY <2>2 DEF f
<1>11. Saturated([d \in due |-> Missing(d)], due) = Saturated(missing, due)
  <2> DEFINE f == [d \in due |-> Missing(d)]
  <2>1. \A d \in due : f[d] \in Int /\ f[d] = missing[d]
    BY <1>4, <1>5, <1>7
  <2> HIDE DEF f
  <2>2. Saturated(f, due) = Saturated(missing, due)
    BY <1>4, <2>1, SatAgrees
  <2> QED BY <2>2 DEF f
<1>12. Saturated(missing, due) <= Saturated(e, due)
  <2>1. \A d \in due : missing[d] \in Nat /\ e[d] \in Nat /\ missing[d] <= e[d]
    BY <1>4, <1>5, <1>7
  <2> QED BY <1>4, <2>1, SatMonotone
<1>13. Saturated(e, due) <= Saturated(had, std) + Saturated(missing, due)
  <2>1. \A d \in due : e[d] \in Nat /\ missing[d] \in Nat /\ e[d] <= had[d] + missing[d]
    BY <1>4, <1>5, <1>7
  <2>2. \A d \in due \cup std : had[d] \in Nat
    BY <1>4, <1>5, <1>7, <1>8
  <2>3. \A d \in due \ std : had[d] = 0
    BY <1>6, <1>7
  <2> QED BY <1>4, <2>1, <2>2, <2>3, HadAndMissing
<1> QED BY <1>2, <1>9, <1>10, <1>11, <1>12, <1>13

(* In a settled state the leave is on the records of all its days that have *)
(* one.                                                                     *)
LEMMA SettledMonth ==
  ASSUME IInv, Settled, NEW row \in Reports("monthly")
  PROVE  /\ row.amounts.worked_dates \cap row.amounts.leave_dates = {}
         /\ row.amounts.days_on_leave = Cardinality(row.amounts.leave_dates)
<1> DEFINE D == Span("monthly")
<1>1. row = RowOf("monthly")
  BY ReportsAre
<1>2. /\ row.amounts.worked_dates = WorkedDays(D)
      /\ row.amounts.leave_dates = OffRecord(D) \cup LeaveIn(D)
      /\ row.amounts.days_on_leave = 0 + Cardinality(LeaveIn(D))
  BY <1>1, RowSays DEF SaysOf
<1>3. D \in SUBSET Int /\ IsFiniteSet(D)
  BY MonthDays DEF IInv, TypeOK
<1> HIDE DEF D
<1>4. IsFiniteSet(LeaveIn(D)) /\ OffRecord(D) \subseteq LeaveIn(D)
  BY <1>3, DaysOfRow
<1>5. OffRecord(D) \cup LeaveIn(D) = LeaveIn(D) /\ Cardinality(LeaveIn(D)) \in Nat
  BY <1>4, FS_CardinalityType
<1>6. ASSUME NEW d \in WorkedDays(D), d \in LeaveIn(D) PROVE FALSE
  <2>1. d \in DOMAIN record /\ LeaveKind(setting, Db, d) = {} /\ d \in D
    BY DEF WorkedDays, Standard, Attached
  <2>2. leave.active /\ d \in LeaveRange
    BY <1>6 DEF LeaveIn
  <2>3. record[d].leave_id = fetch_active_leave_for_date(d)
    BY <2>1 DEF Settled, IInv, RecordsKept
  <2>4. fetch_active_leave_for_date(d) = leave.id
    BY <1>3, <2>1, <2>2, FetchedLeave DEF IInv, TypeOK
  <2>5. PICK l \in setting.leave : TRUE
    BY <2>2 DEF LeaveRange, CoveredBy
  <2>6. LeaveKind(setting, Db, d) = {k.type : k \in setting.leave}
    BY <2>2, <2>3, <2>4 DEF LeaveKind, Db
  <2> QED BY <2>1, <2>5, <2>6
<1> QED BY <1>2, <1>5, <1>6

(* A report accounts for every day of its period.                           *)
LEMMA AccountFollows ==
  ASSUME IInv
  PROVE  DayIsAccountedFor
<1>1. \A row \in Reports("monthly") :
        /\ (\A d \in DOMAIN override : \A m \in override[d] : m >= 0) =>
             /\ row.deficit_min <= row.expected_min
             /\ row.expected_min <= row.amounts.work_min + row.deficit_min
        /\ Settled =>
             /\ row.amounts.worked_dates \cap row.amounts.leave_dates = {}
             /\ row.amounts.days_on_leave = Cardinality(row.amounts.leave_dates)
  BY MonthAccounted, SettledMonth
<1>2. report.phase \in {"computed", "built"} =>
        \E q \in report.request, db \in report.snap :
          report.rows = compute_report(setting, q, db)
  BY DEF IInv, ReportKept
<1> QED BY <1>1, <1>2 DEF DayIsAccountedFor

(* compute_report never counts a day twice or loses one: what was expected  *)
(* is worked or missing, a settled day is not both worked and on leave, a   *)
(* leave day is counted once although both queries see it, and a report     *)
(* under way shows the one state it began in.                               *)
THEOREM DayIsAlwaysAccountedFor == Spec => []DayIsAccountedFor
<1>1. IInv => DayIsAccountedFor
  BY AccountFollows
<1> QED BY <1>1, AlwaysKept, PTL

(* A product grows with its factors.                                        *)
LEMMA TimesMonotone ==
  ASSUME NEW a \in Int, NEW b \in Int, NEW c \in Nat, a <= b
  PROVE  a * c <= b * c /\ c * a <= c * b /\ a * c \in Int /\ b * c \in Int
<1>1. (b - a) * c >= 0
  OBVIOUS
<1>2. (b - a) * c = b * c - a * c
  OBVIOUS
<1>3. a * c \in Int /\ b * c \in Int /\ c * a = a * c /\ c * b = b * c
  OBVIOUS
<1> QED BY <1>1, <1>2, <1>3

(* A quotient, and the remainder that it leaves.                            *)
LEMMA DivisionIs ==
  ASSUME NEW a \in Int, NEW b \in Nat, b > 0
  PROVE  a \div b \in Int /\ b * (a \div b) <= a /\ a < b * (a \div b) + b
  OBVIOUS

(* Cents round to the nearest.                                              *)
LEMMA RoundingIs ==
  ASSUME NEW n \in Nat, NEW b \in Nat, b > 0
  PROVE  LET c == (n + b \div 2) \div b
         IN  c \in Nat /\ 2 * (c * b - n) <= b /\ 2 * (n - c * b) <= b
<1> DEFINE h == b \div 2
           c == (n + h) \div b
<1>1. h \in Nat /\ 2 * h <= b /\ b <= 2 * h + 1
  OBVIOUS
<1> HIDE DEF h
<1>2. c \in Int /\ b * c <= n + h /\ n + h < b * c + b
  BY <1>1, DivisionIs
<1>3. c >= 0
  <2>1. SUFFICES ASSUME c <= -1 PROVE FALSE
    BY <1>2
  <2> HIDE DEF c
  <2>2. b * c <= b * (-1)
    BY <1>2, <2>1, TimesMonotone
  <2>3. b * c \in Int
    BY <1>2
  <2> QED BY <1>1, <1>2, <2>2, <2>3
<1> HIDE DEF c
<1>4. b * c = c * b /\ c * b \in Int
  BY <1>2
<1> QED BY <1>1, <1>2, <1>3, <1>4 DEF c, h

(* A product that is small enough divides back.                             *)
LEMMA FitsIs ==
  ASSUME NEW p \in Nat, NEW q \in Nat, p * q <= MaxInt
  PROVE  CheckedMul(p, q) = p * q
<1>1. CASE q = 0
  BY <1>1 DEF CheckedMul, Fits
<1>2. CASE q > 0
  <2>1. MaxInt \div q \in Int /\ MaxInt < q * (MaxInt \div q) + q
    BY <1>2, BoundsAssumption, DivisionIs
  <2>2. p <= MaxInt \div q
    <3>1. SUFFICES ASSUME MaxInt \div q + 1 <= p PROVE FALSE
      BY <2>1
    <3> DEFINE k == MaxInt \div q
    <3> HIDE DEF k
    <3>2. k \in Int /\ k + 1 <= p /\ MaxInt < q * k + q
      BY <2>1, <3>1 DEF k
    <3>3. q * (k + 1) <= q * p
      BY <3>2, TimesMonotone
    <3>4. q * (k + 1) = q * k + q /\ q * p = p * q /\ q * k \in Int /\ p * q \in Int
      BY <3>2
    <3> QED BY <3>2, <3>3, <3>4, BoundsAssumption
  <2> QED BY <2>2 DEF CheckedMul, Fits
<1> QED BY <1>1, <1>2

(* A factor that is not zero makes no product smaller.                      *)
LEMMA FactorGrows ==
  ASSUME NEW p \in Nat, NEW q \in Nat, q > 0
  PROVE  p * q \in Nat /\ p <= p * q
<1>1. p * 1 <= p * q
  BY TimesMonotone
<1>2. p * q \in Nat
  OBVIOUS
<1> QED BY <1>1, <1>2

(* c is n over b, to within a half.                                         *)
Rounds(c, n, b) == c \in Nat /\ 2 * (c * b - n) <= b /\ 2 * (n - c * b) <= b

(* An amount whose product fits is that product, rounded.                   *)
LEMMA CentsAre ==
  ASSUME NEW s, s.dept.ordinary \in Nat, s.dept.ordinary > 0, s.base \in Nat,
         NEW num \in Nat, NEW den \in Nat, num > 0, den > 0,
         to_daily(s.kind, s.dept.ordinary).num = num, to_daily(s.kind, s.dept.ordinary).den = den,
         NEW minutes \in Nat, NEW percent \in Nat, NEW premium \in Nat, NEW scale \in Nat,
         percent > 0, premium > 0, scale > 0,
         NEW n \in Nat, n = (((minutes * s.base) * percent) * premium) * num,
         NEW b \in Nat, b = (scale * den) * s.dept.ordinary, n <= MaxInt - b \div 2
  PROVE  Rounds(Cents(s, minutes, percent, premium, scale), n, b)
<1> DEFINE p1 == minutes * s.base
           p2 == p1 * percent
           p3 == p2 * premium
           p4 == p3 * num
<1>1. b > 0
  <2>1. scale * den \in Nat /\ scale * den > 0
    OBVIOUS
  <2> QED BY <2>1
<1>2. b \div 2 \in Nat
  BY <1>1
<1>3. n <= MaxInt
  BY <1>2, BoundsAssumption
<1>4. p1 \in Nat
  OBVIOUS
<1> HIDE DEF p1
<1>5. p2 \in Nat /\ p1 <= p2
  BY <1>4, FactorGrows
<1> HIDE DEF p2
<1>6. p3 \in Nat /\ p2 <= p3
  BY <1>5, FactorGrows
<1> HIDE DEF p3
<1>7. p4 \in Nat /\ p3 <= p4
  BY <1>6, FactorGrows
<1> HIDE DEF p4
<1>8. p4 = n
  BY DEF p1, p2, p3, p4
<1>9. p1 <= MaxInt /\ p2 <= MaxInt /\ p3 <= MaxInt /\ p4 <= MaxInt
  BY <1>3, <1>4, <1>5, <1>6, <1>7, <1>8, BoundsAssumption
<1>10. CheckedMul(minutes, s.base) = p1
  BY <1>9, FitsIs DEF p1
<1>11. CheckedMul(p1, percent) = p2
  BY <1>4, <1>9, FitsIs DEF p2
<1>12. CheckedMul(p2, premium) = p3
  BY <1>5, <1>9, FitsIs DEF p3
<1>13. CheckedMul(p3, num) = n
  BY <1>6, <1>8, <1>9, FitsIs DEF p4
<1>14. s.dept.ordinary # 0 /\ ~(s.dept.ordinary <= 0) /\ n # -1 /\ ~(n > MaxInt - b \div 2)
  BY <1>2, BoundsAssumption
<1> DEFINE f == to_daily(s.kind, s.dept.ordinary)
           top == CheckedMul(CheckedMul(CheckedMul(CheckedMul(minutes, s.base), percent), premium),
                             f.num)
           d == scale * f.den * s.dept.ordinary
<1>15. top = n
  <2>1. f.num = num
    OBVIOUS
  <2> HIDE DEF f
  <2> QED BY <1>10, <1>11, <1>12, <1>13, <2>1
<1>16. d = b
  <2>1. f.den = den
    OBVIOUS
  <2> HIDE DEF f
  <2> QED BY <2>1
<1>17. Cents(s, minutes, percent, premium, scale) =
         IF s.dept.ordinary <= 0 \/ top = -1 \/ top > MaxInt - d \div 2 THEN 0
         ELSE (top + d \div 2) \div d
  BY DEF Cents
<1>18. Cents(s, minutes, percent, premium, scale) = (n + b \div 2) \div b
  <2> HIDE DEF top, d, f
  <2> QED BY <1>14, <1>15, <1>16, <1>17
<1> DEFINE c == (n + b \div 2) \div b
<1>19. c \in Nat /\ 2 * (c * b - n) <= b /\ 2 * (n - c * b) <= b
  BY <1>1, RoundingIs
<1> HIDE DEF c
<1>20. Cents(s, minutes, percent, premium, scale) = c
  BY <1>18 DEF c
<1> QED BY <1>19, <1>20 DEF Rounds

(* What is rounded is a natural number.                                     *)
LEMMA RoundedIs ==
  ASSUME NEW c, NEW n, NEW b, Rounds(c, n, b)
  PROVE  c \in Nat
  BY DEF Rounds

(* The percentages of a day, with the products of its four amounts.        *)
Owes(u, tu, hu, X, Y, nt, rs, p, half, ot, night, rest) ==
  /\ u \in Nat /\ X \in Nat /\ Y \in Nat /\ nt \in {0, 30} /\ rs \in {0, 50}
  /\ p = 100 + nt + rs /\ half = (150 * p) \div 100
  /\ tu = 10000 * u /\ hu = 100 * u
  /\ ot = (150 * p) * Y /\ night = nt * X /\ rest = rs * X

(* The four amounts of a day, each rounded, are what is owed to within the  *)
(* rounding.                                                                *)
LEMMA FourAmounts ==
  ASSUME NEW u, NEW tu, NEW hu, NEW X, NEW Y, NEW nt, NEW rs, NEW p, NEW half,
         NEW ot, NEW night, NEW rest, Owes(u, tu, hu, X, Y, nt, rs, p, half, ot, night, rest),
         NEW A, NEW B, NEW N, NEW R,
         Rounds(A, X, u), Rounds(B, ot, tu), Rounds(N, night, hu), Rounds(R, rest, hu)
  PROVE  LET paid == (A + B + N + R) * hu
             owed == p * X + half * Y
         IN  paid - owed <= 200 * u /\ owed - paid <= 200 * u
<1> USE DEF Owes
<1> DEFINE a == A * u
           b == B * u
           n == N * u
           r == R * u
<1>1. A \in Nat /\ B \in Nat /\ N \in Nat /\ R \in Nat
  BY DEF Rounds
<1>2. a \in Int /\ b \in Int /\ n \in Int /\ r \in Int
  BY <1>1
<1>3. B * (10000 * u) = 10000 * b /\ N * (100 * u) = 100 * n /\ R * (100 * u) = 100 * r
  BY <1>1
<1>4. (A + B + N + R) * (100 * u) = 100 * a + 100 * b + 100 * n + 100 * r
  BY <1>1
<1>5. 2 * (a - X) <= u /\ 2 * (X - a) <= u
  BY DEF Rounds
<1>6. 2 * (10000 * b - (150 * p) * Y) <= 10000 * u /\ 2 * ((150 * p) * Y - 10000 * b) <= 10000 * u
  BY <1>3 DEF Rounds
<1>7. 2 * (100 * n - nt * X) <= 100 * u /\ 2 * (nt * X - 100 * n) <= 100 * u
  BY <1>3 DEF Rounds
<1>8. 2 * (100 * r - rs * X) <= 100 * u /\ 2 * (rs * X - 100 * r) <= 100 * u
  BY <1>3 DEF Rounds
<1> HIDE DEF a, b, n, r
<1>9. \/ nt = 0 /\ rs = 0 /\ p = 100 /\ 150 * p = 15000 /\ half = 150
      \/ nt = 30 /\ rs = 0 /\ p = 130 /\ 150 * p = 19500 /\ half = 195
      \/ nt = 0 /\ rs = 50 /\ p = 150 /\ 150 * p = 22500 /\ half = 225
      \/ nt = 30 /\ rs = 50 /\ p = 180 /\ 150 * p = 27000 /\ half = 270
  OBVIOUS
<1>10. LET owed == p * X + half * Y
       IN  /\ (100 * a + 100 * b + 100 * n + 100 * r) - owed <= 200 * u
           /\ owed - (100 * a + 100 * b + 100 * n + 100 * r) <= 200 * u
  <2>1. CASE nt = 0 /\ rs = 0 /\ p = 100 /\ 150 * p = 15000 /\ half = 150
    <3>1. p * X = 100 * X /\ half * Y = 150 * Y /\ (150 * p) * Y = 15000 * Y
          /\ nt * X = 0 /\ rs * X = 0
      BY <2>1
    <3> QED BY <1>2, <1>5, <1>6, <1>7, <1>8, <3>1
  <2>2. CASE nt = 30 /\ rs = 0 /\ p = 130 /\ 150 * p = 19500 /\ half = 195
    <3>1. p * X = 130 * X /\ half * Y = 195 * Y /\ (150 * p) * Y = 19500 * Y
          /\ nt * X = 30 * X /\ rs * X = 0
      BY <2>2
    <3> QED BY <1>2, <1>5, <1>6, <1>7, <1>8, <3>1
  <2>3. CASE nt = 0 /\ rs = 50 /\ p = 150 /\ 150 * p = 22500 /\ half = 225
    <3>1. p * X = 150 * X /\ half * Y = 225 * Y /\ (150 * p) * Y = 22500 * Y
          /\ nt * X = 0 /\ rs * X = 50 * X
      BY <2>3
    <3> QED BY <1>2, <1>5, <1>6, <1>7, <1>8, <3>1
  <2>4. CASE nt = 30 /\ rs = 50 /\ p = 180 /\ 150 * p = 27000 /\ half = 270
    <3>1. p * X = 180 * X /\ half * Y = 270 * Y /\ (150 * p) * Y = 27000 * Y
          /\ nt * X = 30 * X /\ rs * X = 50 * X
      BY <2>4
    <3> QED BY <1>2, <1>5, <1>6, <1>7, <1>8, <3>1
  <2> QED BY <1>9, <2>1, <2>2, <2>3, <2>4
<1> QED BY <1>4, <1>10

(* What divides into a limit stays within it.                               *)
Within(p, r, limit) == r = 0 \/ p <= limit \div r

(* A factor that divides into a limit keeps the product within it.          *)
LEMMA WithinIs ==
  ASSUME NEW p \in Nat, NEW r \in Nat, NEW limit \in Nat, Within(p, r, limit)
  PROVE  p * r <= limit
<1>1. CASE r = 0
  BY <1>1
<1>2. CASE r # 0
  <2> DEFINE q == limit \div r
  <2>1. q \in Int /\ r * q <= limit /\ p <= q
    BY <1>2, DivisionIs DEF Within
  <2> HIDE DEF q
  <2>2. p * r <= q * r /\ q * r = r * q /\ p * r \in Int /\ r * q \in Int
    BY <2>1, TimesMonotone
  <2> QED BY <2>1, <2>2
<1> QED BY <1>1, <1>2

(* The factors of an amount, in the order it multiplies them in and by      *)
(* rate.                                                                    *)
LEMMA Reordered ==
  ASSUME NEW a \in Nat, NEW b \in Nat, NEW c \in Nat, NEW d \in Nat, NEW e \in Nat
  PROVE  (((a * b) * c) * d) * e = (c * d) * (a * (b * e))
  OBVIOUS

(* The percentages of a day: of the ordinary minutes, of the overtime.      *)
LEMMA Percentages ==
  ASSUME NEW nt \in {0, 30}, NEW rs \in {0, 50}, NEW X \in Nat, NEW Y \in Nat
  PROVE  LET p == 100 + nt + rs
         IN  /\ p \in Nat /\ p > 0 /\ (150 * p) \in Nat /\ (150 * p) \div 100 \in Nat
             /\ p * X \in Nat /\ X <= p * X /\ nt * X <= p * X /\ rs * X <= p * X
             /\ nt * X \in Nat /\ rs * X \in Nat
             /\ ((150 * p) \div 100) * Y \in Nat /\ (150 * p) * Y \in Nat
<1> DEFINE p == 100 + nt + rs
<1>1. \/ nt = 0 /\ rs = 0 /\ p = 100 /\ (150 * p) \div 100 = 150 /\ 150 * p = 15000
      \/ nt = 30 /\ rs = 0 /\ p = 130 /\ (150 * p) \div 100 = 195 /\ 150 * p = 19500
      \/ nt = 0 /\ rs = 50 /\ p = 150 /\ (150 * p) \div 100 = 225 /\ 150 * p = 22500
      \/ nt = 30 /\ rs = 50 /\ p = 180 /\ (150 * p) \div 100 = 270 /\ 150 * p = 27000
  OBVIOUS
<1> HIDE DEF p
<1>2. p \in Nat /\ p > 0 /\ (150 * p) \in Nat /\ (150 * p) \div 100 \in Nat
  BY <1>1
<1>3. /\ p * X \in Nat /\ X <= p * X /\ nt * X <= p * X /\ rs * X <= p * X
      /\ nt * X \in Nat /\ rs * X \in Nat
  BY <1>1
<1>4. ((150 * p) \div 100) * Y \in Nat /\ (150 * p) * Y \in Nat
  BY <1>1
<1> QED BY <1>2, <1>3, <1>4 DEF p

(* The four amounts of a day add up without saturating.                     *)
LEMMA TotalIs ==
  ASSUME NEW A \in Nat, NEW B \in Nat, NEW N \in Nat, NEW R \in Nat, A + B + N + R <= MaxInt
  PROVE  total_a_pagar_cents(A, B, N, R, 0) = A + B + N + R
<1>1. SatAdd(A, B) = A + B
  BY SatAddIs, BoundsAssumption
<1>2. SatAdd(A + B, N) = A + B + N
  BY SatAddIs, BoundsAssumption
<1>3. SatAdd(A + B + N, R) = A + B + N + R
  BY SatAddIs, BoundsAssumption
<1> QED BY <1>1, <1>2, <1>3 DEF total_a_pagar_cents

(* A salary s: its fraction of a day, its rate and its unit.                *)
Paying(s, num, den, rate, u) ==
  /\ s.dept.ordinary \in Nat /\ s.dept.ordinary > 0 /\ s.base \in Nat
  /\ num \in Nat /\ den \in Nat /\ num > 0 /\ den > 0
  /\ to_daily(s.kind, s.dept.ordinary).num = num /\ to_daily(s.kind, s.dept.ordinary).den = den
  /\ rate = s.base * num /\ u = den * s.dept.ordinary

(* The rate and the unit of a salary.                                       *)
LEMMA PayingIs ==
  ASSUME NEW s, NEW num, NEW den, NEW rate, NEW u, Paying(s, num, den, rate, u)
  PROVE  rate \in Nat /\ u \in Nat /\ u > 0
  BY FactorGrows DEF Paying

(* An amount before it is divided, n over b, and that it leaves room to     *)
(* round.                                                                   *)
Divides(n, b, minutes, percent, premium, scale, rate, u) ==
  /\ minutes \in Nat /\ percent \in Nat /\ premium \in Nat /\ scale \in Nat
  /\ percent > 0 /\ premium > 0 /\ scale > 0
  /\ n \in Nat /\ n = (percent * premium) * (minutes * rate)
  /\ b \in Nat /\ b = scale * u /\ n <= MaxInt - b \div 2

(* An amount at a salary's rate, rounded to its unit.                       *)
LEMMA AmountIs ==
  ASSUME NEW s, NEW num, NEW den, NEW rate, NEW u, Paying(s, num, den, rate, u),
         NEW minutes, NEW percent, NEW premium, NEW scale, NEW n, NEW b,
         Divides(n, b, minutes, percent, premium, scale, rate, u)
  PROVE  Rounds(Cents(s, minutes, percent, premium, scale), n, b)
<1>0. /\ minutes \in Nat /\ percent \in Nat /\ premium \in Nat /\ scale \in Nat
      /\ percent > 0 /\ premium > 0 /\ scale > 0
      /\ n \in Nat /\ n = (percent * premium) * (minutes * rate)
      /\ b \in Nat /\ b = scale * u /\ n <= MaxInt - b \div 2
  BY DEF Divides
<1>1. /\ s.dept.ordinary \in Nat /\ s.dept.ordinary > 0 /\ s.base \in Nat
      /\ num \in Nat /\ den \in Nat /\ num > 0 /\ den > 0
      /\ to_daily(s.kind, s.dept.ordinary).num = num /\ to_daily(s.kind, s.dept.ordinary).den = den
  BY DEF Paying
<1>2. n = (((minutes * s.base) * percent) * premium) * num
  <2>1. (((minutes * s.base) * percent) * premium) * num = (percent * premium) * (minutes * (s.base * num))
    BY <1>0, <1>1, Reordered
  <2> QED BY <1>0, <2>1 DEF Paying
<1>3. b = (scale * den) * s.dept.ordinary
  <2>1. b = scale * (den * s.dept.ordinary)
    BY <1>0 DEF Paying
  <2>2. scale * (den * s.dept.ordinary) = (scale * den) * s.dept.ordinary
    BY <1>0, <1>1
  <2> QED BY <2>1, <2>2
<1> QED BY <1>0, <1>1, <1>2, <1>3, CentsAre

(* The limit that leaves room for the rounding.                             *)
Room(u) == MaxInt - 50 * (100 * u)

(* The limit and the room above it.                                         *)
LEMMA RoomIs ==
  ASSUME NEW u \in Nat, u > 0, 100 * u <= MaxInt \div 400
  PROVE  Room(u) \in Nat /\ Room(u) + 5000 * u = MaxInt
<1> DEFINE q == MaxInt \div 400
<1>1. q \in Int /\ 400 * q <= MaxInt
  BY BoundsAssumption, DivisionIs
<1> HIDE DEF q
<1>2. 100 * u <= q
  BY DEF q
<1> QED BY <1>1, <1>2, BoundsAssumption DEF Room

(* What is owed for a day, by ordinary minutes and by overtime.             *)
LEMMA OwedIs ==
  ASSUME NEW m \in Nat, NEW over \in Nat, NEW p \in Nat, NEW h \in Nat, NEW rate \in Nat
  PROVE  /\ m * p + over * h \in Nat /\ (over * 150) * p \in Nat
         /\ (m * p + over * h) * rate = p * (m * rate) + h * (over * rate)
         /\ ((over * 150) * p) * rate = (150 * p) * (over * rate)
<1>1. m * p + over * h \in Nat /\ (over * 150) * p \in Nat
  OBVIOUS
<1>2. (m * p + over * h) * rate = p * (m * rate) + h * (over * rate)
  OBVIOUS
<1>3. ((over * 150) * p) * rate = (150 * p) * (over * rate)
  OBVIOUS
<1> QED BY <1>1, <1>2, <1>3

(* The percentages owed for m ordinary minutes and over of overtime, at a   *)
(* night surcharge nt and a rest day's rs.                                  *)
Percents(m, over, nt, rs, prem, half, percent) ==
  /\ m \in Nat /\ over \in Nat /\ nt \in {0, 30} /\ rs \in {0, 50}
  /\ prem = 100 + nt + rs /\ half = (150 * prem) \div 100
  /\ percent = m * prem + over * half

(* The money of a day whose amounts fit is what is owed to within the       *)
(* rounding.                                                                *)
LEMMA DayPaid ==
  ASSUME NEW s, NEW num, NEW den, NEW rate, NEW u, Paying(s, num, den, rate, u),
         NEW m, NEW over, NEW nt, NEW rs, NEW prem, NEW half, NEW percent,
         Percents(m, over, nt, rs, prem, half, percent), 100 * u <= MaxInt \div 400,
         Within((over * 150) * prem, rate, Room(u)), Within(percent, rate, Room(u))
  PROVE  LET total == total_a_pagar_cents(Cents(s, m, 1, 1, 1), Cents(s, over, 150, prem, 10000),
                                          IF nt = 30 THEN Cents(s, m, 30, 1, 100) ELSE 0,
                                          IF rs = 50 THEN Cents(s, m, 50, 1, 100) ELSE 0, 0)
         IN  /\ total * (100 * u) - percent * rate <= 2 * (100 * u)
             /\ percent * rate - total * (100 * u) <= 2 * (100 * u)
<1> DEFINE X == m * rate
           Y == over * rate
           A == Cents(s, m, 1, 1, 1)
           B == Cents(s, over, 150, prem, 10000)
           N == IF nt = 30 THEN Cents(s, m, 30, 1, 100) ELSE 0
           R == IF rs = 50 THEN Cents(s, m, 50, 1, 100) ELSE 0
           limit == Room(u)
<1>0. /\ m \in Nat /\ over \in Nat /\ nt \in {0, 30} /\ rs \in {0, 50}
      /\ prem = 100 + nt + rs /\ half = (150 * prem) \div 100
      /\ percent = m * prem + over * half
  BY DEF Percents
<1>1. u \in Nat /\ u > 0 /\ rate \in Nat
  BY PayingIs
<1>2. limit \in Nat /\ limit + 5000 * u = MaxInt
  BY <1>1, RoomIs
<1> HIDE DEF limit
<1>3. X \in Nat /\ Y \in Nat
  BY <1>0, <1>1
<1>4. /\ prem \in Nat /\ prem > 0 /\ 150 * prem \in Nat /\ half \in Nat
      /\ prem * X \in Nat /\ X <= prem * X /\ nt * X <= prem * X /\ rs * X <= prem * X
      /\ nt * X \in Nat /\ rs * X \in Nat
      /\ half * Y \in Nat /\ (150 * prem) * Y \in Nat
  <2> HIDE DEF X, Y
  <2> QED BY <1>0, <1>3, Percentages
<1>5. /\ percent \in Nat /\ (over * 150) * prem \in Nat
      /\ percent * rate = prem * X + half * Y
      /\ ((over * 150) * prem) * rate = (150 * prem) * Y
  BY <1>0, <1>1, <1>4, OwedIs
<1> HIDE DEF X, Y
<1>6. percent * rate <= limit /\ ((over * 150) * prem) * rate <= limit
  BY <1>1, <1>2, <1>5, WithinIs DEF limit
<1>7. prem * X + half * Y <= limit /\ prem * X <= limit /\ (150 * prem) * Y <= limit
  <2>1. prem * X + half * Y <= limit /\ (150 * prem) * Y <= limit
    BY <1>5, <1>6
  <2> DEFINE v == prem * X
             w == half * Y
  <2>2. v \in Nat /\ w \in Nat /\ v + w <= limit
    BY <1>4, <2>1
  <2> HIDE DEF v, w
  <2>3. v <= limit
    BY <1>2, <2>2
  <2> QED BY <2>1, <2>3 DEF v
<1>8. ASSUME NEW k \in Nat, k <= limit, NEW c \in {1, 100, 10000}
      PROVE  c * u \in Nat /\ k <= MaxInt - (c * u) \div 2
  <2>1. c * u \in Nat /\ (c * u) \div 2 <= 5000 * u
    BY <1>1, <1>8
  <2>2. (c * u) \div 2 \in Int
    BY <2>1
  <2> DEFINE z == (c * u) \div 2
  <2>3. z \in Int /\ z <= 5000 * u
    BY <2>1, <2>2
  <2> HIDE DEF z
  <2>4. k <= MaxInt - z
    BY <1>1, <1>2, <1>8, <2>3, BoundsAssumption
  <2> QED BY <2>1, <2>4 DEF z
<1>9. ASSUME NEW k \in Nat, NEW minutes \in Nat, NEW pc \in Nat, NEW pm \in Nat, pc > 0, pm > 0,
             k = (pc * pm) * (minutes * rate), k <= limit, NEW c \in {1, 100, 10000}
      PROVE  Rounds(Cents(s, minutes, pc, pm, c), k, c * u)
  <2> DEFINE b == c * u
  <2>1. b \in Nat /\ b = c * u /\ k <= MaxInt - b \div 2
    BY <1>8, <1>9
  <2> HIDE DEF b
  <2>2. c \in Nat /\ c > 0
    BY <1>9
  <2>3. Divides(k, b, minutes, pc, pm, c, rate, u)
    BY <1>9, <2>1, <2>2 DEF Divides
  <2>4. Rounds(Cents(s, minutes, pc, pm, c), k, b)
    BY <2>3, AmountIs
  <2> QED BY <2>4 DEF b
<1>10. Rounds(A, X, u)
  <2>1. X = (1 * 1) * (m * rate) /\ X <= limit
    <3>1. X = m * rate
      BY DEF X
    <3>2. X <= limit
      <4> DEFINE v == prem * X
      <4>1. v \in Int /\ X <= v /\ v <= limit
        BY <1>4, <1>7
      <4> HIDE DEF v
      <4> QED BY <1>2, <1>3, <4>1
    <3>3. 1 * 1 = 1 /\ m * rate \in Int /\ 1 * (m * rate) = m * rate
      BY <1>3 DEF X
    <3> QED BY <3>1, <3>2, <3>3
  <2>2. Rounds(Cents(s, m, 1, 1, 1), X, 1 * u)
    BY <1>0, <1>3, <1>9, <2>1
  <2>3. 1 * u = u
    BY <1>1
  <2> QED BY <2>2, <2>3
<1>11. Rounds(B, (150 * prem) * Y, 10000 * u)
  <2> DEFINE k == (150 * prem) * Y
  <2>1. k \in Nat /\ k <= limit /\ k = (150 * prem) * (over * rate)
    BY <1>4, <1>7 DEF Y
  <2> HIDE DEF k
  <2>2. Rounds(Cents(s, over, 150, prem, 10000), k, 10000 * u)
    BY <1>0, <1>4, <1>9, <2>1
  <2> QED BY <2>2 DEF k
<1>12. ASSUME NEW k \in {30, 50}, k * X <= prem * X, k * X \in Nat
       PROVE  Rounds(Cents(s, m, k, 1, 100), k * X, 100 * u)
  <2> DEFINE n == k * X
             v == prem * X
  <2>1. n \in Nat /\ v \in Int /\ n <= v /\ v <= limit
    BY <1>4, <1>7, <1>12
  <2>2. n = (k * 1) * (m * rate)
    <3>1. k * 1 = k
      BY <1>12
    <3> QED BY <3>1 DEF X
  <2> HIDE DEF n, v
  <2>3. n <= limit /\ k \in Nat /\ k > 0
    BY <1>2, <1>12, <2>1
  <2>4. Rounds(Cents(s, m, k, 1, 100), n, 100 * u)
    BY <1>0, <1>9, <2>1, <2>2, <2>3
  <2> QED BY <2>4 DEF n
<1>14. Rounds(0, 0, 100 * u)
  BY <1>1 DEF Rounds
<1>15. Rounds(N, nt * X, 100 * u)
  <2>1. CASE nt = 30
    BY <1>4, <1>12, <2>1
  <2>2. CASE nt = 0
    <3>1. nt * X = 0 /\ N = 0
      BY <1>3, <2>2
    <3> HIDE DEF N
    <3> QED BY <1>14, <3>1
  <2> QED BY <1>0, <2>1, <2>2
<1>16. Rounds(R, rs * X, 100 * u)
  <2>1. CASE rs = 50
    BY <1>4, <1>12, <2>1
  <2>2. CASE rs = 0
    <3>1. rs * X = 0 /\ R = 0
      BY <1>3, <2>2
    <3> HIDE DEF R
    <3> QED BY <1>14, <3>1
  <2> QED BY <1>0, <2>1, <2>2
<1> HIDE DEF A, B, N, R
<1> DEFINE T == A + B + N + R
<1>17. A \in Nat /\ B \in Nat /\ N \in Nat /\ R \in Nat
  BY <1>10, <1>11, <1>15, <1>16, RoundedIs
<1>18. T * (100 * u) - percent * rate <= 200 * u /\ percent * rate - T * (100 * u) <= 200 * u
  <2>1. /\ T * (100 * u) - (prem * X + half * Y) <= 200 * u
        /\ (prem * X + half * Y) - T * (100 * u) <= 200 * u
    <3> DEFINE tu == 10000 * u
               hu == 100 * u
               ot == (150 * prem) * Y
               night == nt * X
               rest == rs * X
    <3>1. Rounds(A, X, u) /\ Rounds(B, ot, tu) /\ Rounds(N, night, hu) /\ Rounds(R, rest, hu)
      BY <1>10, <1>11, <1>15, <1>16
    <3>2. Owes(u, tu, hu, X, Y, nt, rs, prem, half, ot, night, rest)
      BY <1>0, <1>1, <1>3 DEF Owes
    <3> HIDE DEF tu, hu, ot, night, rest
    <3>3. /\ (A + B + N + R) * hu - (prem * X + half * Y) <= 200 * u
          /\ (prem * X + half * Y) - (A + B + N + R) * hu <= 200 * u
      BY <3>1, <3>2, FourAmounts
    <3> QED BY <3>3 DEF hu
  <2> QED BY <2>1, <1>5
<1>19. T <= MaxInt
  <2>1. T \in Nat /\ 100 * u \in Nat /\ 100 * u > 0
    BY <1>1, <1>17
  <2> HIDE DEF T
  <2>2. T <= T * (100 * u) /\ T * (100 * u) \in Nat
    BY <2>1, FactorGrows
  <2>3. percent * rate \in Int
    BY <1>1, <1>5
  <2> DEFINE v == T * (100 * u)
             o == percent * rate
  <2>4. T <= v /\ v - o <= 200 * u /\ o <= limit /\ v \in Nat /\ o \in Int
    BY <1>6, <1>18, <2>2, <2>3
  <2> HIDE DEF v, o
  <2> QED BY <1>1, <1>2, <2>1, <2>4, BoundsAssumption
<1>20. total_a_pagar_cents(A, B, N, R, 0) = T
  BY <1>17, <1>19, TotalIs
<1>21. 2 * (100 * u) = 200 * u
  BY <1>1
<1> HIDE DEF T
<1> QED BY <1>18, <1>20, <1>21 DEF A, B, N, R

(* The salary of a setting that pays.                                       *)
LEMMA SalaryIs ==
  ASSUME setting \in Settings, setting.kind # "none", setting.dept.ordinary > 0
  PROVE  LET frac == to_daily(setting.kind, setting.dept.ordinary)
         IN  Paying(setting, frac.num, frac.den, setting.base * frac.num, frac.den * setting.dept.ordinary)
<1>1. /\ setting.dept.ordinary \in Nat /\ setting.base \in Nat
      /\ setting.kind \in {"none", "daily", "monthly", "hourly"}
  BY SettingsAssumption
<1> QED BY <1>1 DEF Paying, to_daily

(* The money of a day without an override.                                  *)
LEMMA DayCosts ==
  ASSUME IInv, NEW d \in DOMAIN record \ DOMAIN override, setting.kind # "none"
  PROVE  LET w    == record[d].work_minutes
             over == record[d].overtime_minutes
             nt   == IF Night(Db, d) THEN 30 ELSE 0
             rs   == IF Rest(Db, d) THEN 50 ELSE 0
             s    == setting
         IN  /\ w - over \in Nat /\ over \in Nat /\ nt \in {0, 30} /\ rs \in {0, 50}
             /\ day_premium_pct(Db, d) = 100 + nt + rs
             /\ StandardPay(s, Db, d).total =
                  total_a_pagar_cents(
                    Cents(s, w - over, 1, 1, 1), Cents(s, over, 150, 100 + nt + rs, 10000),
                    IF nt = 30 THEN Cents(s, w - over, 30, 1, 100) ELSE 0,
                    IF rs = 50 THEN Cents(s, w - over, 50, 1, 100) ELSE 0, 0)
<1> DEFINE w == record[d].work_minutes
           over == record[d].overtime_minutes
           nt == IF Night(Db, d) THEN 30 ELSE 0
           rs == IF Rest(Db, d) THEN 50 ELSE 0
           prem == day_premium_pct(Db, d)
<1>1. w \in Nat /\ over \in 0..w
  BY DEF IInv, RecordsKept, RecordKept
<1>2. Db.record = record /\ Db.override = override
  BY DEF Db
<1>3. effective_work_min(Db, d) = w
  BY <1>2 DEF effective_work_min
<1>4. w - over \in Nat /\ over \in Nat
  BY <1>1
<1>5. ordinary_min(Db, d) = w - over
  <2>1. AtLeastZero(w - over) = w - over
    BY <1>4, AtLeastZeroIs
  <2> QED BY <1>2, <1>3, <2>1 DEF ordinary_min
<1>6. nt \in {0, 30} /\ rs \in {0, 50} /\ (nt = 30 <=> Night(Db, d)) /\ (rs = 50 <=> Rest(Db, d))
  OBVIOUS
<1>7. prem = 100 + nt + rs
  BY DEF day_premium_pct
<1> HIDE DEF w, over, nt, rs, prem
<1>8. StandardPay(setting, Db, d).total =
        total_a_pagar_cents(
          work_pay_cents(setting, ordinary_min(Db, d)),
          ot_pay_cents(setting, Db.record[d].overtime_minutes, day_premium_pct(Db, d)),
          IF Night(Db, d) THEN night_premium_cents(setting, ordinary_min(Db, d)) ELSE 0,
          IF Rest(Db, d) THEN rest_day_surcharge_cents(setting, ordinary_min(Db, d)) ELSE 0, 0)
  BY DEF StandardPay, DayPay, Pay
<1>9. Db.record[d].overtime_minutes = over /\ day_premium_pct(Db, d) = 100 + nt + rs
  BY <1>2, <1>7 DEF over, prem
<1>10. /\ work_pay_cents(setting, w - over) = Cents(setting, w - over, 1, 1, 1)
       /\ ot_pay_cents(setting, over, 100 + nt + rs) = Cents(setting, over, 150, 100 + nt + rs, 10000)
       /\ night_premium_cents(setting, w - over) = Cents(setting, w - over, 30, 1, 100)
       /\ rest_day_surcharge_cents(setting, w - over) = Cents(setting, w - over, 50, 1, 100)
  <2>1. 100 * 100 = 10000
    OBVIOUS
  <2> QED BY <2>1 DEF work_pay_cents, ot_pay_cents, night_premium_cents, rest_day_surcharge_cents
<1>11. StandardPay(setting, Db, d).total =
        total_a_pagar_cents(
          Cents(setting, w - over, 1, 1, 1), Cents(setting, over, 150, 100 + nt + rs, 10000),
          IF nt = 30 THEN Cents(setting, w - over, 30, 1, 100) ELSE 0,
          IF rs = 50 THEN Cents(setting, w - over, 50, 1, 100) ELSE 0, 0)
  BY <1>5, <1>6, <1>8, <1>9, <1>10
<1> QED BY <1>4, <1>6, <1>7, <1>11 DEF w, over, nt, rs, prem

(* Every day without an override is paid by the minute.                     *)
LEMMA PaidFollows ==
  ASSUME IInv
  PROVE  PaidPerMinute
<1> SUFFICES ASSUME NEW d \in DOMAIN record \ DOMAIN override,
                    setting.kind # "none", setting.dept.ordinary > 0
             PROVE  LET frac    == to_daily(setting.kind, setting.dept.ordinary)
                        premium == day_premium_pct(Db, d)
                        over    == record[d].overtime_minutes
                        whole   == 100 * frac.den * setting.dept.ordinary
                        percent == (record[d].work_minutes - over) * premium
                                     + over * ((150 * premium) \div 100)
                        rate    == setting.base * frac.num
                        total   == StandardPay(setting, Db, d).total
                        fits    == /\ whole <= MaxInt \div 400
                                   /\ \A p \in {over * 150 * premium, percent} :
                                        rate = 0 \/ p <= (MaxInt - 50 * whole) \div rate
                    IN  fits => LET owed == percent * rate
                                IN  /\ total * whole - owed <= 2 * whole
                                    /\ owed - total * whole <= 2 * whole
  BY DEF PaidPerMinute
<1> DEFINE frac == to_daily(setting.kind, setting.dept.ordinary)
           premium == day_premium_pct(Db, d)
           over == record[d].overtime_minutes
           m == record[d].work_minutes - over
           nt == IF Night(Db, d) THEN 30 ELSE 0
           rs == IF Rest(Db, d) THEN 50 ELSE 0
           num == frac.num
           den == frac.den
           u == den * setting.dept.ordinary
           whole == 100 * den * setting.dept.ordinary
           half == (150 * premium) \div 100
           percent == m * premium + over * half
           rate == setting.base * num
           total == StandardPay(setting, Db, d).total
<1>1. Paying(setting, num, den, rate, u)
  BY SalaryIs DEF IInv, TypeOK
<1>2. /\ m \in Nat /\ over \in Nat /\ nt \in {0, 30} /\ rs \in {0, 50} /\ premium = 100 + nt + rs
      /\ total = total_a_pagar_cents(
                   Cents(setting, m, 1, 1, 1), Cents(setting, over, 150, premium, 10000),
                   IF nt = 30 THEN Cents(setting, m, 30, 1, 100) ELSE 0,
                   IF rs = 50 THEN Cents(setting, m, 50, 1, 100) ELSE 0, 0)
  BY DayCosts
<1>3. whole = 100 * u
  <2>1. den \in Nat /\ setting.dept.ordinary \in Nat
    BY <1>1 DEF Paying
  <2> HIDE DEF den
  <2> QED BY <2>1
<1> SUFFICES ASSUME whole <= MaxInt \div 400,
                    \A p \in {over * 150 * premium, percent} :
                      rate = 0 \/ p <= (MaxInt - 50 * whole) \div rate
             PROVE  /\ total * whole - percent * rate <= 2 * whole
                    /\ percent * rate - total * whole <= 2 * whole
  OBVIOUS
<1> HIDE DEF num, den, u, whole, rate, total, nt, rs, premium, over, m
<1>4. half = (150 * premium) \div 100 /\ percent = m * premium + over * half
  OBVIOUS
<1> HIDE DEF half, percent
<1>8. Percents(m, over, nt, rs, premium, half, percent)
  BY <1>2, <1>4 DEF Percents
<1>5. Within((over * 150) * premium, rate, Room(u)) /\ Within(percent, rate, Room(u))
  BY <1>3 DEF Within, Room
<1>6. 100 * u <= MaxInt \div 400
  BY <1>3
<1> DEFINE t == total_a_pagar_cents(
                  Cents(setting, m, 1, 1, 1), Cents(setting, over, 150, premium, 10000),
                  IF nt = 30 THEN Cents(setting, m, 30, 1, 100) ELSE 0,
                  IF rs = 50 THEN Cents(setting, m, 50, 1, 100) ELSE 0, 0)
<1>9. /\ t * (100 * u) - percent * rate <= 2 * (100 * u)
      /\ percent * rate - t * (100 * u) <= 2 * (100 * u)
  BY <1>1, <1>5, <1>6, <1>8, DayPaid
<1>7. /\ total * (100 * u) - percent * rate <= 2 * (100 * u)
      /\ percent * rate - total * (100 * u) <= 2 * (100 * u)
  BY <1>2, <1>9
<1> QED BY <1>3, <1>7

(* reports/money.rs pays a day without an override minute by minute, for    *)
(* any salary and any minutes: the four amounts add up to the ordinary      *)
(* minutes at the loaded rate and the overtime at one and a half times it,  *)
(* to within their rounding, unless a product overflows.                    *)
THEOREM DayIsAlwaysPaidPerMinute == Spec => []PaidPerMinute
<1>1. IInv => PaidPerMinute
  BY PaidFollows
<1> QED BY <1>1, AlwaysKept, PTL

(* A checked product is a natural number, or overflows.                     *)
LEMMA CheckedMulIs ==
  ASSUME NEW p \in Nat \cup {-1}, NEW q \in Nat
  PROVE  CheckedMul(p, q) \in Nat \cup {-1}
<1>1. CASE p = -1
  BY <1>1 DEF CheckedMul
<1>2. CASE p \in Nat
  <2>1. p * q \in Nat
    BY <1>2
  <2> QED BY <2>1 DEF CheckedMul
<1> QED BY <1>1, <1>2

(* No amount is below zero.                                                 *)
LEMMA CentsAreNatural ==
  ASSUME NEW s, s.dept.ordinary \in Nat, s.base \in Nat, s.kind \in {"daily", "monthly", "hourly"},
         NEW minutes \in Nat, NEW percent \in Nat, NEW premium \in Nat, NEW scale \in Nat, scale > 0
  PROVE  Cents(s, minutes, percent, premium, scale) \in Nat
<1> DEFINE f == to_daily(s.kind, s.dept.ordinary)
           top == CheckedMul(CheckedMul(CheckedMul(CheckedMul(minutes, s.base), percent), premium),
                             f.num)
           d == scale * f.den * s.dept.ordinary
<1>1. f.num \in Nat /\ f.den \in Nat /\ f.den > 0
  BY DEF to_daily
<1> HIDE DEF f
<1>2. CheckedMul(minutes, s.base) \in Nat \cup {-1}
  BY CheckedMulIs
<1>3. CheckedMul(CheckedMul(minutes, s.base), percent) \in Nat \cup {-1}
  BY <1>2, CheckedMulIs
<1>4. CheckedMul(CheckedMul(CheckedMul(minutes, s.base), percent), premium) \in Nat \cup {-1}
  BY <1>3, CheckedMulIs
<1>5. top \in Nat \cup {-1}
  BY <1>1, <1>4, CheckedMulIs
<1>6. ASSUME s.dept.ordinary > 0 PROVE d \in Nat /\ d > 0
  <2>1. scale * f.den \in Nat /\ scale * f.den > 0
    BY <1>1, FactorGrows
  <2> DEFINE k == scale * f.den
  <2>2. k \in Nat /\ k > 0
    BY <2>1
  <2> HIDE DEF k
  <2>3. k * s.dept.ordinary \in Nat /\ k <= k * s.dept.ordinary
    BY <1>6, <2>2, FactorGrows
  <2> QED BY <2>2, <2>3 DEF k
<1>7. Cents(s, minutes, percent, premium, scale) =
        IF s.dept.ordinary <= 0 \/ top = -1 \/ top > MaxInt - d \div 2 THEN 0
        ELSE (top + d \div 2) \div d
  BY DEF Cents, f
<1> HIDE DEF top, d
<1>8. CASE s.dept.ordinary <= 0 \/ top = -1 \/ top > MaxInt - d \div 2
  BY <1>7, <1>8
<1>9. CASE ~(s.dept.ordinary <= 0 \/ top = -1 \/ top > MaxInt - d \div 2)
  <2>1. top \in Nat /\ d \in Nat /\ d > 0
    BY <1>5, <1>6, <1>9
  <2>2. (top + d \div 2) \div d \in Nat
    BY <2>1, RoundingIs
  <2> QED BY <1>7, <1>9, <2>2
<1> QED BY <1>8, <1>9

(* No amount at the salary of a setting is below zero.                      *)
LEMMA SalaryNatural ==
  ASSUME setting \in Settings, setting.kind # "none",
         NEW minutes \in Nat, NEW percent \in Nat, NEW premium \in Nat, NEW scale \in Nat, scale > 0
  PROVE  Cents(setting, minutes, percent, premium, scale) \in Nat
<1>1. /\ setting.dept.ordinary \in Nat /\ setting.base \in Nat
      /\ setting.kind \in {"daily", "monthly", "hourly"}
  BY SettingsAssumption
<1> QED BY <1>1, CentsAreNatural

(* No day's total is below zero.                                            *)
LEMMA TotalNatural ==
  ASSUME NEW A \in Nat, NEW B \in Nat, NEW N \in Nat, NEW R \in Nat
  PROVE  total_a_pagar_cents(A, B, N, R, 0) \in Nat
<1>1. ASSUME NEW a \in Nat, NEW b \in Nat PROVE SatAdd(a, b) \in Nat
  <2>1. a \in Int /\ b \in Int /\ a + b \in Nat
    BY <1>1
  <2>2. SatAdd(a, b) = IF a + b <= MaxInt THEN a + b ELSE MaxInt
    BY <2>1, SatAddIs
  <2> QED BY <2>1, <2>2, BoundsAssumption
<1>2. SatAdd(A, B) \in Nat
  BY <1>1
<1>3. SatAdd(SatAdd(A, B), N) \in Nat
  BY <1>1, <1>2
<1>4. SatAdd(SatAdd(SatAdd(A, B), N), R) \in Nat
  BY <1>1, <1>3
<1> QED BY <1>4 DEF total_a_pagar_cents

(* No day earns less than nothing, and no day of vacation.                  *)
LEMMA EarningsNatural ==
  ASSUME IInv
  PROVE  /\ \A d \in DOMAIN record : Earned(d) \in Nat
         /\ VacationPay(setting) \in Nat
<1>1. setting \in Settings
  BY DEF IInv, TypeOK
<1>2. VacationPay(setting) \in Nat
  <2>1. CASE setting.kind = "none"
    BY <2>1 DEF VacationPay
  <2>2. CASE setting.kind # "none"
    <3>1. setting.dept.ordinary \in Nat
      BY <1>1, SettingsAssumption
    <3> DEFINE o == setting.dept.ordinary
    <3>3. o \in Nat /\ 1 \in Nat /\ 1 > 0
      BY <3>1
    <3> HIDE DEF o
    <3>4. Cents(setting, o, 1, 1, 1) \in Nat
      BY <1>1, <2>2, <3>3, SalaryNatural
    <3>2. Cents(setting, setting.dept.ordinary, 1, 1, 1) \in Nat
      BY <3>4 DEF o
    <3> QED BY <2>2, <3>2 DEF VacationPay, work_pay_cents
  <2> QED BY <2>1, <2>2
<1>3. ASSUME NEW d \in DOMAIN record PROVE Earned(d) \in Nat
  <2> DEFINE m == ordinary_min(Db, d)
             over == record[d].overtime_minutes
             prem == day_premium_pct(Db, d)
             N == IF Night(Db, d) THEN night_premium_cents(setting, m) ELSE 0
             R == IF Rest(Db, d) THEN rest_day_surcharge_cents(setting, m) ELSE 0
  <2>1. CASE setting.kind = "none"
    BY <2>1 DEF Earned, StandardPay, NoPay
  <2>2. CASE setting.kind # "none"
    <3>1. over \in Nat /\ Db.record = record
      BY DEF IInv, RecordsKept, RecordKept, Db
    <3>2. effective_work_min(Db, d) \in Int
      BY EffectiveIs
    <3>3. m \in Nat
      <4> DEFINE w == effective_work_min(Db, d)
      <4>1. w - over \in Int
        BY <3>1, <3>2
      <4>2. AtLeastZero(w - over) \in Nat
        BY <4>1, AtLeastZeroIs
      <4> QED BY <3>1, <4>2 DEF ordinary_min
    <3>4. prem \in Nat
      BY DEF day_premium_pct
    <3> HIDE DEF m, over, prem
    <3>5. 100 * 100 \in Nat /\ 100 * 100 > 0
      OBVIOUS
    <3>6. work_pay_cents(setting, m) \in Nat
      BY <1>1, <2>2, <3>3, SalaryNatural DEF work_pay_cents
    <3>7. ot_pay_cents(setting, over, prem) \in Nat
      BY <1>1, <2>2, <3>1, <3>4, <3>5, SalaryNatural DEF ot_pay_cents
    <3>8. N \in Nat
      BY <1>1, <2>2, <3>3, SalaryNatural DEF night_premium_cents
    <3>9. R \in Nat
      BY <1>1, <2>2, <3>3, SalaryNatural DEF rest_day_surcharge_cents
    <3>10. Earned(d) = total_a_pagar_cents(work_pay_cents(setting, m),
                                           ot_pay_cents(setting, over, prem), N, R, 0)
      BY <2>2, <3>1 DEF Earned, StandardPay, DayPay, Pay, m, over, prem
    <3> HIDE DEF N, R
    <3> QED BY <3>6, <3>7, <3>8, <3>9, <3>10, TotalNatural
  <2> QED BY <2>1, <2>2
<1> QED BY <1>2, <1>3

(* A month's pay that is not cut off is the sum of its terms.               *)
LEMMA TotalFits ==
  ASSUME NEW S, IsFiniteSet(S), NEW f, \A x \in S : f[x] \in Nat,
         NEW V, IsFiniteSet(V), NEW g, \A x \in V : g[x] \in Nat
  PROVE  LET t == SatAdd(Saturated(f, S), Saturated(g, V))
             sum == SumFunctionOnSet(f, S) + SumFunctionOnSet(g, V)
         IN  (t < MaxInt \/ sum <= MaxInt) => t = sum /\ sum <= MaxInt
<1> DEFINE a == SumFunctionOnSet(f, S)
           b == SumFunctionOnSet(g, V)
           x == Saturated(f, S)
           y == Saturated(g, V)
<1>1. a \in Nat /\ b \in Nat
  BY SumOfNaturals
<1>2. x = IF a <= MaxInt THEN a ELSE MaxInt
  BY SaturatedNaturals
<1>3. y = IF b <= MaxInt THEN b ELSE MaxInt
  BY SaturatedNaturals
<1> HIDE DEF a, b, x, y
<1>4. x \in Int /\ y \in Int
  BY <1>1, <1>2, <1>3, BoundsAssumption
<1>5. SatAdd(x, y) = IF x + y <= MaxInt THEN x + y ELSE MaxInt
  BY <1>4, SatAddIs
<1>6. (SatAdd(x, y) < MaxInt \/ a + b <= MaxInt) => SatAdd(x, y) = a + b /\ a + b <= MaxInt
  BY <1>1, <1>2, <1>3, <1>5, BoundsAssumption
<1> QED BY <1>6 DEF a, b, x, y

(* What each day adds to a row.                                             *)
EarnedOn   == [d \in Int |-> Earned(d)]
VacationOn == [d \in Int |-> VacationPay(setting)]
MinutesOn  == [d \in Int |-> Minutes(d)]
MissingOn  == [d \in Int |-> Missing(d)]

PayOf(D)     == SumFunctionOnSet(EarnedOn, Standard(D)) + SumFunctionOnSet(VacationOn, Vacation(D))
WorkOf(D)    == SumFunctionOnSet(MinutesOn, Standard(D))
DeficitOf(D) == SumFunctionOnSet(MissingOn, Due(D))
AbsentOf(D)  == Cardinality(Due(D) \ WorkedDays(D))
LeaveOf(D)   == Cardinality(LeaveIn(D))

(* The days' figures are numbers.                                           *)
LEMMA EachDay ==
  ASSUME IInv, NEW D \in SUBSET Int
  PROVE  /\ \A d \in Standard(D) : EarnedOn[d] \in Nat /\ EarnedOn[d] = Earned(d)
                                   /\ MinutesOn[d] \in Int /\ MinutesOn[d] = Minutes(d)
         /\ \A d \in Vacation(D) : VacationOn[d] \in Nat /\ VacationOn[d] = VacationPay(setting)
         /\ \A d \in Due(D) : MissingOn[d] \in Nat /\ MissingOn[d] = Missing(d)
<1>1. \A d \in Standard(D) : d \in Int /\ d \in DOMAIN record
  BY DEF Standard
<1>2. \A d \in Vacation(D) : d \in Int
  BY DEF Vacation
<1>3. \A d \in Due(D) : d \in Int
  BY DEF Due, Employed
<1>4. \A d \in Standard(D) : Earned(d) \in Nat /\ Minutes(d) \in Int
  BY <1>1, EarningsNatural, MinutesAre
<1>5. \A d \in Due(D) : Missing(d) \in Nat
  BY <1>3, MinutesAre
<1>6. VacationPay(setting) \in Nat
  BY EarningsNatural
<1> QED BY <1>1, <1>2, <1>3, <1>4, <1>5, <1>6 DEF EarnedOn, VacationOn, MinutesOn, MissingOn

(* A row's sums, over the days' figures.                                    *)
LEMMA RowSums ==
  ASSUME IInv, NEW period, Span(period) \in SUBSET Int, IsFiniteSet(Span(period))
  PROVE  LET row == RowOf(period)
             D == Span(period)
         IN  /\ row.amounts.total = SatAdd(Saturated(EarnedOn, Standard(D)),
                                           Saturated(VacationOn, Vacation(D)))
             /\ row.amounts.work_min = Saturated(MinutesOn, Standard(D))
             /\ row.amounts.days_on_leave = LeaveOf(D)
             /\ row.days_absent = AbsentOf(D)
             /\ row.deficit_min = Saturated(MissingOn, Due(D))
<1> DEFINE D == Span(period)
           std == Standard(D)
           vac == Vacation(D)
           due == Due(D)
           row == RowOf(period)
           earned == [d \in std |-> Earned(d)]
           paid == [d \in vac |-> VacationPay(setting)]
           minutes == [d \in std |-> Minutes(d)]
           missing == [d \in due |-> Missing(d)]
<1>1. /\ row.amounts.days_on_leave = 0 + Cardinality(LeaveIn(D))
      /\ row.amounts.work_min = Saturated(minutes, std)
      /\ row.amounts.total = SatAdd(Saturated(earned, std), Saturated(paid, vac))
      /\ row.days_absent = Cardinality(due \ WorkedDays(D))
      /\ row.deficit_min = Saturated(missing, due)
  BY RowSays DEF SaysOf
<1>2. IsFiniteSet(std) /\ IsFiniteSet(vac) /\ IsFiniteSet(due) /\ IsFiniteSet(LeaveIn(D))
  BY DaysOfRow
<1>3. /\ \A d \in std : EarnedOn[d] \in Int /\ EarnedOn[d] = earned[d]
                        /\ MinutesOn[d] \in Int /\ MinutesOn[d] = minutes[d]
      /\ \A d \in vac : VacationOn[d] \in Int /\ VacationOn[d] = paid[d]
      /\ \A d \in due : MissingOn[d] \in Int /\ MissingOn[d] = missing[d]
  BY EachDay
<1> HIDE DEF D, std, vac, due, row, earned, paid, minutes, missing
<1>4. Saturated(earned, std) = Saturated(EarnedOn, std)
  BY <1>2, <1>3, SatAgrees
<1>5. Saturated(minutes, std) = Saturated(MinutesOn, std)
  BY <1>2, <1>3, SatAgrees
<1>6. Saturated(paid, vac) = Saturated(VacationOn, vac)
  BY <1>2, <1>3, SatAgrees
<1>7. Saturated(missing, due) = Saturated(MissingOn, due)
  BY <1>2, <1>3, SatAgrees
<1>8. 0 + Cardinality(LeaveIn(D)) = LeaveOf(D)
  BY <1>2, FS_CardinalityType DEF LeaveOf
<1> QED BY <1>1, <1>4, <1>5, <1>6, <1>7, <1>8 DEF AbsentOf, D, std, vac, due, row

(* The days of two stretches with none in common.                           *)
LEMMA DaysSplit ==
  ASSUME NEW F, NEW G, F \cap G = {}
  PROVE  /\ Standard(F \cup G) = Standard(F) \cup Standard(G) /\ Standard(F) \cap Standard(G) = {}
         /\ Vacation(F \cup G) = Vacation(F) \cup Vacation(G) /\ Vacation(F) \cap Vacation(G) = {}
         /\ Due(F \cup G) = Due(F) \cup Due(G) /\ Due(F) \cap Due(G) = {}
         /\ LeaveIn(F \cup G) = LeaveIn(F) \cup LeaveIn(G) /\ LeaveIn(F) \cap LeaveIn(G) = {}
         /\ Due(F \cup G) \ WorkedDays(F \cup G) = (Due(F) \ WorkedDays(F)) \cup (Due(G) \ WorkedDays(G))
<1>1. Standard(F \cup G) = Standard(F) \cup Standard(G) /\ Standard(F) \cap Standard(G) = {}
  BY DEF Standard
<1>2. Vacation(F \cup G) = Vacation(F) \cup Vacation(G) /\ Vacation(F) \cap Vacation(G) = {}
  BY DEF Vacation
<1>3. LeaveIn(F \cup G) = LeaveIn(F) \cup LeaveIn(G) /\ LeaveIn(F) \cap LeaveIn(G) = {}
  BY DEF LeaveIn
<1>4. /\ Employed(F \cup G) = Employed(F) \cup Employed(G) /\ Employed(F) \subseteq F
      /\ Employed(G) \subseteq G
  BY DEF Employed
<1>5. /\ OffRecord(F \cup G) = OffRecord(F) \cup OffRecord(G) /\ OffRecord(F) \subseteq F
      /\ OffRecord(G) \subseteq G /\ LeaveIn(F) \subseteq F /\ LeaveIn(G) \subseteq G
  BY DEF OffRecord, LeaveIn
<1>8. /\ WorkedDays(F \cup G) = WorkedDays(F) \cup WorkedDays(G) /\ WorkedDays(F) \subseteq F
      /\ WorkedDays(G) \subseteq G
  BY <1>1 DEF WorkedDays, Standard
<1>6. /\ Due(F \cup G) = Due(F) \cup Due(G) /\ Due(F) \cap Due(G) = {}
      /\ Due(F) \subseteq F /\ Due(G) \subseteq G
  BY <1>3, <1>4, <1>5 DEF Due
<1>7. Due(F \cup G) \ WorkedDays(F \cup G) = (Due(F) \ WorkedDays(F)) \cup (Due(G) \ WorkedDays(G))
  BY <1>6, <1>8
<1> QED BY <1>1, <1>2, <1>3, <1>6, <1>7

(* The cardinality of two sets with nothing in common.                      *)
LEMMA CountSplits ==
  ASSUME NEW S, IsFiniteSet(S), NEW R, IsFiniteSet(R), S \cap R = {}
  PROVE  Cardinality(S \cup R) = Cardinality(S) + Cardinality(R)
<1>1. Cardinality(S \cup R) = Cardinality(S) + Cardinality(R) - Cardinality(S \cap R)
  BY FS_Union
<1>2. Cardinality(S \cap R) = 0
  BY FS_EmptySet
<1>3. Cardinality(S) \in Nat /\ Cardinality(R) \in Nat
  BY FS_CardinalityType
<1> QED BY <1>1, <1>2, <1>3

(* A sum over two such sets.                                                *)
Summed(f, T, S, R) ==
  /\ IsFiniteSet(S) /\ IsFiniteSet(R) /\ S \cap R = {} /\ T = S \cup R
  /\ \A x \in S : f[x] \in Int
  /\ \A x \in R : f[x] \in Int

(* The sum over the union of two disjoint sets, by its parts.               *)
LEMMA SumSplits ==
  ASSUME NEW f, NEW T, NEW S, NEW R, Summed(f, T, S, R)
  PROVE  /\ SumFunctionOnSet(f, S) \in Int /\ SumFunctionOnSet(f, R) \in Int
         /\ SumFunctionOnSet(f, T) = SumFunctionOnSet(f, S) + SumFunctionOnSet(f, R)
         /\ (\A x \in S : f[x] \in Nat) => SumFunctionOnSet(f, S) \in Nat
         /\ (\A x \in R : f[x] \in Nat) => SumFunctionOnSet(f, R) \in Nat
<1> USE DEF Summed
<1>1. SumFunctionOnSet(f, S) \in Int
  BY SumSteps
<1>2. SumFunctionOnSet(f, R) \in Int
  BY SumSteps
<1>3. SumFunctionOnSet(f, S \cup R) = SumFunctionOnSet(f, S) + SumFunctionOnSet(f, R)
  <2>1. \A x \in S \cup R : f[x] \in Int
    OBVIOUS
  <2> QED BY <2>1, SumOfUnion
<1>4. (\A x \in S : f[x] \in Nat) => SumFunctionOnSet(f, S) \in Nat
  BY SumOfNaturals
<1>5. (\A x \in R : f[x] \in Nat) => SumFunctionOnSet(f, R) \in Nat
  BY SumOfNaturals
<1> QED BY <1>1, <1>2, <1>3, <1>4, <1>5

(* What two stretches come to together.                                     *)
LEMMA FiguresSplit ==
  ASSUME IInv, NEW F \in SUBSET Int, IsFiniteSet(F), NEW G \in SUBSET Int, IsFiniteSet(G),
         F \cap G = {}
  PROVE  /\ PayOf(F) \in Nat /\ PayOf(G) \in Nat /\ PayOf(F \cup G) = PayOf(F) + PayOf(G)
         /\ WorkOf(F) \in Int /\ WorkOf(G) \in Int /\ WorkOf(F \cup G) = WorkOf(F) + WorkOf(G)
         /\ DeficitOf(F) \in Nat /\ DeficitOf(G) \in Nat
         /\ DeficitOf(F \cup G) = DeficitOf(F) + DeficitOf(G)
         /\ AbsentOf(F) \in Nat /\ AbsentOf(G) \in Nat
         /\ AbsentOf(F \cup G) = AbsentOf(F) + AbsentOf(G)
         /\ LeaveOf(F) \in Nat /\ LeaveOf(G) \in Nat
         /\ LeaveOf(F \cup G) = LeaveOf(F) + LeaveOf(G)
<1>1. /\ IsFiniteSet(Standard(F)) /\ IsFiniteSet(LeaveIn(F)) /\ IsFiniteSet(Due(F))
      /\ IsFiniteSet(Vacation(F))
  BY DaysOfRow
<1>2. /\ IsFiniteSet(Standard(G)) /\ IsFiniteSet(LeaveIn(G)) /\ IsFiniteSet(Due(G))
      /\ IsFiniteSet(Vacation(G))
  BY DaysOfRow
<1>3. /\ Standard(F \cup G) = Standard(F) \cup Standard(G) /\ Standard(F) \cap Standard(G) = {}
      /\ Vacation(F \cup G) = Vacation(F) \cup Vacation(G) /\ Vacation(F) \cap Vacation(G) = {}
      /\ Due(F \cup G) = Due(F) \cup Due(G) /\ Due(F) \cap Due(G) = {}
      /\ LeaveIn(F \cup G) = LeaveIn(F) \cup LeaveIn(G) /\ LeaveIn(F) \cap LeaveIn(G) = {}
      /\ Due(F \cup G) \ WorkedDays(F \cup G) = (Due(F) \ WorkedDays(F)) \cup (Due(G) \ WorkedDays(G))
  BY DaysSplit
<1>4. /\ \A d \in Standard(F) : EarnedOn[d] \in Nat /\ MinutesOn[d] \in Int
      /\ \A d \in Vacation(F) : VacationOn[d] \in Nat
      /\ \A d \in Due(F) : MissingOn[d] \in Nat
  BY EachDay
<1>5. /\ \A d \in Standard(G) : EarnedOn[d] \in Nat /\ MinutesOn[d] \in Int
      /\ \A d \in Vacation(G) : VacationOn[d] \in Nat
      /\ \A d \in Due(G) : MissingOn[d] \in Nat
  BY EachDay
<1>6. /\ SumFunctionOnSet(EarnedOn, Standard(F)) \in Nat /\ SumFunctionOnSet(EarnedOn, Standard(G)) \in Nat
      /\ SumFunctionOnSet(EarnedOn, Standard(F \cup G)) =
           SumFunctionOnSet(EarnedOn, Standard(F)) + SumFunctionOnSet(EarnedOn, Standard(G))
  <2>1. \A d \in Standard(F) \cup Standard(G) : EarnedOn[d] \in Nat /\ EarnedOn[d] \in Int
    BY <1>4, <1>5
  <2>2. Summed(EarnedOn, Standard(F \cup G), Standard(F), Standard(G))
    BY <1>1, <1>2, <1>3, <2>1 DEF Summed
  <2> QED BY <2>1, <2>2, SumSplits
<1>7. /\ SumFunctionOnSet(VacationOn, Vacation(F)) \in Nat /\ SumFunctionOnSet(VacationOn, Vacation(G)) \in Nat
      /\ SumFunctionOnSet(VacationOn, Vacation(F \cup G)) =
           SumFunctionOnSet(VacationOn, Vacation(F)) + SumFunctionOnSet(VacationOn, Vacation(G))
  <2>1. \A d \in Vacation(F) \cup Vacation(G) : VacationOn[d] \in Nat /\ VacationOn[d] \in Int
    BY <1>4, <1>5
  <2>2. Summed(VacationOn, Vacation(F \cup G), Vacation(F), Vacation(G))
    BY <1>1, <1>2, <1>3, <2>1 DEF Summed
  <2> QED BY <2>1, <2>2, SumSplits
<1>8. PayOf(F) \in Nat /\ PayOf(G) \in Nat /\ PayOf(F \cup G) = PayOf(F) + PayOf(G)
  BY <1>6, <1>7 DEF PayOf
<1>9. WorkOf(F) \in Int /\ WorkOf(G) \in Int /\ WorkOf(F \cup G) = WorkOf(F) + WorkOf(G)
  <2>1. \A d \in Standard(F) \cup Standard(G) : MinutesOn[d] \in Int
    BY <1>4, <1>5
  <2>2. Summed(MinutesOn, Standard(F \cup G), Standard(F), Standard(G))
    BY <1>1, <1>2, <1>3, <2>1 DEF Summed
  <2> QED BY <2>1, <2>2, SumSplits DEF WorkOf
<1>10. /\ DeficitOf(F) \in Nat /\ DeficitOf(G) \in Nat
       /\ DeficitOf(F \cup G) = DeficitOf(F) + DeficitOf(G)
  <2>1. \A d \in Due(F) \cup Due(G) : MissingOn[d] \in Nat /\ MissingOn[d] \in Int
    BY <1>4, <1>5
  <2>2. Summed(MissingOn, Due(F \cup G), Due(F), Due(G))
    BY <1>1, <1>2, <1>3, <2>1 DEF Summed
  <2> QED BY <2>1, <2>2, SumSplits DEF DeficitOf
<1>11. /\ AbsentOf(F) \in Nat /\ AbsentOf(G) \in Nat
       /\ AbsentOf(F \cup G) = AbsentOf(F) + AbsentOf(G)
  <2> DEFINE S == Due(F) \ WorkedDays(F)
             R == Due(G) \ WorkedDays(G)
  <2>1. IsFiniteSet(S) /\ IsFiniteSet(R) /\ S \cap R = {}
    BY <1>1, <1>2, <1>3, FS_Subset
  <2>2. AbsentOf(F) = Cardinality(S) /\ AbsentOf(G) = Cardinality(R)
        /\ AbsentOf(F \cup G) = Cardinality(S \cup R)
    BY <1>3 DEF AbsentOf
  <2> HIDE DEF S, R
  <2> QED BY <2>1, <2>2, CountSplits, FS_CardinalityType
<1>12. /\ LeaveOf(F) \in Nat /\ LeaveOf(G) \in Nat
       /\ LeaveOf(F \cup G) = LeaveOf(F) + LeaveOf(G)
  BY <1>1, <1>2, <1>3, CountSplits, FS_CardinalityType DEF LeaveOf
<1> QED BY <1>8, <1>9, <1>10, <1>11, <1>12

(* The figures of a row none of whose sums was cut off.                     *)
LEMMA RowIs ==
  ASSUME IInv, NEW period, Span(period) \in SUBSET Int, IsFiniteSet(Span(period)),
         Cardinality(Span(period)) <= 31,
         \A d \in DOMAIN record : effective_work_min(Db, d) <= MaxInt \div 31
  PROVE  LET row == RowOf(period)
             D == Span(period)
         IN  /\ (row.amounts.total < MaxInt \/ PayOf(D) <= MaxInt) =>
                  row.amounts.total = PayOf(D) /\ PayOf(D) <= MaxInt
             /\ (row.deficit_min < MaxInt \/ DeficitOf(D) <= MaxInt) =>
                  row.deficit_min = DeficitOf(D) /\ DeficitOf(D) <= MaxInt
             /\ row.amounts.work_min = WorkOf(D)
             /\ row.amounts.days_on_leave = LeaveOf(D)
             /\ row.days_absent = AbsentOf(D)
<1> DEFINE row == RowOf(period)
           D == Span(period)
           std == Standard(D)
           vac == Vacation(D)
           due == Due(D)
<1>1. /\ row.amounts.total = SatAdd(Saturated(EarnedOn, std), Saturated(VacationOn, vac))
      /\ row.amounts.work_min = Saturated(MinutesOn, std)
      /\ row.amounts.days_on_leave = LeaveOf(D)
      /\ row.days_absent = AbsentOf(D)
      /\ row.deficit_min = Saturated(MissingOn, due)
  BY RowSums
<1>2. IsFiniteSet(std) /\ IsFiniteSet(vac) /\ IsFiniteSet(due) /\ std \subseteq D
  BY DaysOfRow
<1>3. /\ \A d \in std : EarnedOn[d] \in Nat /\ MinutesOn[d] \in Int /\ MinutesOn[d] = Minutes(d)
      /\ \A d \in vac : VacationOn[d] \in Nat
      /\ \A d \in due : MissingOn[d] \in Nat
  BY EachDay
<1>4. \A d \in std : MinutesOn[d] <= MaxInt \div 31
  BY <1>3 DEF Standard, Minutes
<1>5. PayOf(D) = SumFunctionOnSet(EarnedOn, std) + SumFunctionOnSet(VacationOn, vac)
  BY DEF PayOf
<1>6. DeficitOf(D) = SumFunctionOnSet(MissingOn, due) /\ WorkOf(D) = SumFunctionOnSet(MinutesOn, std)
  BY DEF DeficitOf, WorkOf
<1> HIDE DEF row, std, vac, due
<1>7. (row.amounts.total < MaxInt \/ PayOf(D) <= MaxInt) =>
         row.amounts.total = PayOf(D) /\ PayOf(D) <= MaxInt
  BY <1>1, <1>2, <1>3, <1>5, TotalFits
<1>8. (row.deficit_min < MaxInt \/ DeficitOf(D) <= MaxInt) =>
         row.deficit_min = DeficitOf(D) /\ DeficitOf(D) <= MaxInt
  <2>1. row.deficit_min = IF DeficitOf(D) <= MaxInt THEN DeficitOf(D) ELSE MaxInt
    BY <1>1, <1>2, <1>3, <1>6, SaturatedNaturals
  <2> QED BY <2>1, BoundsAssumption
<1>9. row.amounts.work_min = WorkOf(D)
  <2> DEFINE b == MaxInt \div 31
  <2>1. b \in Nat /\ b * 31 <= MaxInt
    <3>1. b \in Int /\ 31 * b <= MaxInt /\ MaxInt < 31 * b + 31
      BY BoundsAssumption, DivisionIs
    <3> QED BY <3>1, BoundsAssumption
  <2>2. \A d \in std : MinutesOn[d] <= b
    BY <1>4
  <2> HIDE DEF b
  <2>3. ASSUME NEW T \in SUBSET std PROVE SumFunctionOnSet(MinutesOn, T) <= MaxInt
    <3>1. IsFiniteSet(T) /\ Cardinality(T) \in Nat
      BY <1>2, FS_Subset, FS_CardinalityType
    <3>2. Cardinality(T) <= 31
      <4>1. T \subseteq D
        BY <1>2
      <4>2. Cardinality(T) <= Cardinality(D) /\ Cardinality(D) \in Nat
        BY <4>1, FS_Subset, FS_CardinalityType
      <4> QED BY <3>1, <4>2
    <3>3. SumFunctionOnSet(MinutesOn, T) <= b * Cardinality(T) /\ SumFunctionOnSet(MinutesOn, T) \in Int
      <4>1. \A d \in T : MinutesOn[d] \in Int /\ MinutesOn[d] <= b
        BY <1>3, <2>2
      <4> QED BY <2>1, <3>1, <4>1, SumAtMost, SumSteps
    <3>4. b * Cardinality(T) <= b * 31 /\ b * Cardinality(T) \in Int
      BY <2>1, <3>1, <3>2, TimesMonotone
    <3> QED BY <2>1, <3>3, <3>4, BoundsAssumption
  <2>4. Saturated(MinutesOn, std) = SumFunctionOnSet(MinutesOn, std)
    BY <1>2, <1>3, <2>3, SaturatedFits
  <2> QED BY <1>1, <1>6, <2>4
<1> QED BY <1>1, <1>7, <1>8, <1>9 DEF row

-----------------------------------------------------------------------------
(* What the rows of a report come to.                                       *)
Sums(rows, pay, work, leaves, absent, deficit) ==
  /\ SumFunction([row \in rows |-> row.amounts.total]) = pay
  /\ SumFunction([row \in rows |-> row.amounts.work_min]) = work
  /\ SumFunction([row \in rows |-> row.amounts.days_on_leave]) = leaves
  /\ SumFunction([row \in rows |-> row.days_absent]) = absent
  /\ SumFunction([row \in rows |-> row.deficit_min]) = deficit

(* The sum over one element.                                                *)
LEMMA SumOfOne ==
  ASSUME NEW x, NEW f, DOMAIN f = {x}, f[x] \in Int
  PROVE  SumFunction(f) = f[x]
<1>1. IsFiniteSet({x}) /\ x \in {x} /\ {x} \ {x} = {}
  BY FS_Singleton
<1>2. SumFunctionOnSet(f, {x}) = f[x] + SumFunctionOnSet(f, {x} \ {x})
  BY <1>1, SumSteps
<1>3. SumFunctionOnSet(f, {}) = 0
  BY SumEmpty
<1>4. SumFunctionOnSet(f, {x}) = f[x]
  BY <1>1, <1>2, <1>3
<1> QED BY <1>4 DEF SumFunction

(* The sums of a report of one row are the row's figures.                   *)
LEMMA OneRow ==
  ASSUME NEW r, r.amounts.total \in Int, r.amounts.work_min \in Int,
         r.amounts.days_on_leave \in Int, r.days_absent \in Int, r.deficit_min \in Int
  PROVE  Sums({r}, r.amounts.total, r.amounts.work_min, r.amounts.days_on_leave, r.days_absent,
              r.deficit_min)
<1>1. SumFunction([row \in {r} |-> row.amounts.total]) = r.amounts.total
  <2> DEFINE f == [row \in {r} |-> row.amounts.total]
  <2>1. DOMAIN f = {r} /\ f[r] = r.amounts.total
    OBVIOUS
  <2> HIDE DEF f
  <2>2. SumFunction(f) = f[r]
    BY <2>1, SumOfOne
  <2> QED BY <2>1, <2>2 DEF f
<1>2. SumFunction([row \in {r} |-> row.amounts.work_min]) = r.amounts.work_min
  <2> DEFINE f == [row \in {r} |-> row.amounts.work_min]
  <2>1. DOMAIN f = {r} /\ f[r] = r.amounts.work_min
    OBVIOUS
  <2> HIDE DEF f
  <2>2. SumFunction(f) = f[r]
    BY <2>1, SumOfOne
  <2> QED BY <2>1, <2>2 DEF f
<1>3. SumFunction([row \in {r} |-> row.amounts.days_on_leave]) = r.amounts.days_on_leave
  <2> DEFINE f == [row \in {r} |-> row.amounts.days_on_leave]
  <2>1. DOMAIN f = {r} /\ f[r] = r.amounts.days_on_leave
    OBVIOUS
  <2> HIDE DEF f
  <2>2. SumFunction(f) = f[r]
    BY <2>1, SumOfOne
  <2> QED BY <2>1, <2>2 DEF f
<1>4. SumFunction([row \in {r} |-> row.days_absent]) = r.days_absent
  <2> DEFINE f == [row \in {r} |-> row.days_absent]
  <2>1. DOMAIN f = {r} /\ f[r] = r.days_absent
    OBVIOUS
  <2> HIDE DEF f
  <2>2. SumFunction(f) = f[r]
    BY <2>1, SumOfOne
  <2> QED BY <2>1, <2>2 DEF f
<1>5. SumFunction([row \in {r} |-> row.deficit_min]) = r.deficit_min
  <2> DEFINE f == [row \in {r} |-> row.deficit_min]
  <2>1. DOMAIN f = {r} /\ f[r] = r.deficit_min
    OBVIOUS
  <2> HIDE DEF f
  <2>2. SumFunction(f) = f[r]
    BY <2>1, SumOfOne
  <2> QED BY <2>1, <2>2 DEF f
<1> QED BY <1>1, <1>2, <1>3, <1>4, <1>5 DEF Sums

(* The sums of a report without rows are zero.                              *)
LEMMA NoRow == Sums({}, 0, 0, 0, 0, 0)
<1>1. ASSUME NEW f, DOMAIN f = {} PROVE SumFunction(f) = 0
  BY <1>1, SumEmpty DEF SumFunction
<1>2. /\ DOMAIN [row \in {} |-> row.amounts.total] = {}
      /\ DOMAIN [row \in {} |-> row.amounts.work_min] = {}
      /\ DOMAIN [row \in {} |-> row.amounts.days_on_leave] = {}
      /\ DOMAIN [row \in {} |-> row.days_absent] = {}
      /\ DOMAIN [row \in {} |-> row.deficit_min] = {}
  OBVIOUS
<1> QED BY <1>1, <1>2 DEF Sums

(* Rows whose sums add up.                                                  *)
LEMMA SumsAdd ==
  ASSUME NEW A, NEW B, NEW C, NEW p, NEW w, NEW l, NEW a, NEW d,
         NEW p2, NEW w2, NEW l2, NEW a2, NEW d2,
         Sums(A, p, w, l, a, d), Sums(B, p2, w2, l2, a2, d2),
         Sums(C, p + p2, w + w2, l + l2, a + a2, d + d2)
  PROVE  AddUp(A, B, C)
  BY DEF Sums, AddUp

(* The month is its two fortnights.                                         *)
LEMMA MonthSplits ==
  ASSUME setting \in Settings
  PROVE  LET F == Span("biweekly_first")
             G == Span("biweekly_second")
             M == Span("monthly")
         IN  /\ M = F \cup G /\ F \cap G = {}
             /\ M \in SUBSET Int /\ IsFiniteSet(M) /\ Cardinality(M) <= 31
             /\ F \in SUBSET Int /\ IsFiniteSet(F) /\ Cardinality(F) <= 31
             /\ G \in SUBSET Int /\ IsFiniteSet(G) /\ Cardinality(G) <= 31
             /\ \A d \in F : d <= FifteenthOf(setting.ref)
<1> DEFINE F == Span("biweekly_first")
           G == Span("biweekly_second")
           M == Span("monthly")
           m == MonthOf(setting.ref)
           e == last_day_of_month(setting.ref)
<1>1. m \in Int /\ e \in Int /\ e - m \in 27..30
  BY MonthIs
<1>2. M = m..e /\ F = m..(m + 14) /\ G = (m + 15)..e /\ FifteenthOf(setting.ref) = m + 14
  BY SpanIs DEF FifteenthOf
<1>3. M \in SUBSET Int /\ IsFiniteSet(M) /\ Cardinality(M) \in Nat /\ Cardinality(M) <= 31
  BY MonthDays
<1> HIDE DEF F, G, M, m, e
<1>4. M = F \cup G /\ F \cap G = {} /\ \A d \in F : d <= m + 14
  BY <1>1, <1>2
<1>5. /\ IsFiniteSet(F) /\ Cardinality(F) \in Nat /\ Cardinality(F) <= Cardinality(M)
      /\ IsFiniteSet(G) /\ Cardinality(G) \in Nat /\ Cardinality(G) <= Cardinality(M)
  BY <1>3, <1>4, FS_Subset, FS_CardinalityType
<1>6. Cardinality(F) <= 31 /\ Cardinality(G) <= 31
  BY <1>3, <1>5
<1>7. F \in SUBSET Int /\ G \in SUBSET Int
  BY <1>3, <1>4
<1> QED BY <1>2, <1>3, <1>4, <1>5, <1>6, <1>7 DEF F, G, M, m

(* Who is on a report, before anybody has left.                             *)
LEMMA UniverseIs ==
  ASSUME setting \in Settings, terminated = {}
  PROVE  /\ InUniverse(setting, Request("monthly"), Db) <=>
              \A h \in setting.hire : h <= last_day_of_month(setting.ref)
         /\ InUniverse(setting, Request("biweekly_second"), Db) <=>
              \A h \in setting.hire : h <= last_day_of_month(setting.ref)
         /\ InUniverse(setting, Request("biweekly_first"), Db) <=>
              \A h \in setting.hire : h <= FifteenthOf(setting.ref)
         /\ FifteenthOf(setting.ref) <= last_day_of_month(setting.ref)
         /\ FifteenthOf(setting.ref) \in Int /\ last_day_of_month(setting.ref) \in Int
<1>1. Db.terminated = {}
  BY DEF Db
<1>2. /\ resolve_period(Request("monthly")).to = last_day_of_month(setting.ref)
      /\ resolve_period(Request("biweekly_second")).to = last_day_of_month(setting.ref)
      /\ resolve_period(Request("biweekly_first")).to = FifteenthOf(setting.ref)
  BY DEF resolve_period, Request
<1>3. /\ FifteenthOf(setting.ref) <= last_day_of_month(setting.ref)
      /\ FifteenthOf(setting.ref) \in Int /\ last_day_of_month(setting.ref) \in Int
  BY MonthIs DEF FifteenthOf
<1> QED BY <1>1, <1>2, <1>3 DEF InUniverse

(* Before the day of hire there is nothing.                                 *)
LEMMA BeforeHire ==
  ASSUME NEW h \in setting.hire, NEW F, \A d \in F : ~(d >= h) /\ ~(h <= d),
         \A d \in DOMAIN record \cup LeaveRange : h <= d
  PROVE  PayOf(F) = 0 /\ WorkOf(F) = 0 /\ DeficitOf(F) = 0 /\ AbsentOf(F) = 0 /\ LeaveOf(F) = 0
<1>1. Standard(F) = {} /\ Vacation(F) = {} /\ LeaveIn(F) = {} /\ Due(F) = {}
  BY DEF Standard, Vacation, LeaveIn, Due, Employed
<1>2. PayOf(F) = 0 /\ WorkOf(F) = 0 /\ DeficitOf(F) = 0
  BY <1>1, SumEmpty DEF PayOf, WorkOf, DeficitOf
<1>3. Due(F) \ WorkedDays(F) = {}
  BY <1>1
<1>4. AbsentOf(F) = 0 /\ LeaveOf(F) = 0
  BY <1>1, <1>3, FS_EmptySet DEF AbsentOf, LeaveOf
<1> QED BY <1>2, <1>4

(* The sums of a report of one row, none of them cut off.                   *)
LEMMA RowAddsUp ==
  ASSUME IInv, NEW period, Span(period) \in SUBSET Int, IsFiniteSet(Span(period)),
         Cardinality(Span(period)) <= 31,
         \A d \in DOMAIN record : effective_work_min(Db, d) <= MaxInt \div 31,
         PayOf(Span(period)) <= MaxInt, DeficitOf(Span(period)) <= MaxInt
  PROVE  LET D == Span(period)
         IN  Sums({RowOf(period)}, PayOf(D), WorkOf(D), LeaveOf(D), AbsentOf(D), DeficitOf(D))
<1> DEFINE D == Span(period)
           r == RowOf(period)
<1>1. /\ r.amounts.total = PayOf(D) /\ r.amounts.work_min = WorkOf(D)
      /\ r.amounts.days_on_leave = LeaveOf(D) /\ r.days_absent = AbsentOf(D)
      /\ r.deficit_min = DeficitOf(D)
  BY RowIs
<1>2. /\ PayOf(D) \in Int /\ WorkOf(D) \in Int /\ LeaveOf(D) \in Int /\ AbsentOf(D) \in Int
      /\ DeficitOf(D) \in Int
  <2>1. {} \in SUBSET Int /\ IsFiniteSet({}) /\ D \cap {} = {}
    BY FS_EmptySet
  <2> QED BY <2>1, FiguresSplit
<1> HIDE DEF D, r
<1>3. Sums({r}, r.amounts.total, r.amounts.work_min, r.amounts.days_on_leave, r.days_absent,
           r.deficit_min)
  BY <1>1, <1>2, OneRow
<1> QED BY <1>1, <1>3 DEF D, r

(* The two fortnights of a month add up to the month.                       *)
LEMMA FortnightsFollow ==
  ASSUME IInv
  PROVE  FortnightsAddUp
<1> SUFFICES ASSUME terminated = {}, HiredInTime, NothingSaturates
             PROVE  AddUp(Reports("biweekly_first"), Reports("biweekly_second"), Reports("monthly"))
  BY DEF FortnightsAddUp
<1> DEFINE F == Span("biweekly_first")
           G == Span("biweekly_second")
           M == Span("monthly")
           first == Reports("biweekly_first")
           second == Reports("biweekly_second")
           month == Reports("monthly")
           fifteenth == FifteenthOf(setting.ref)
           end == last_day_of_month(setting.ref)
<1>1. setting \in Settings /\ setting.hire \subseteq Int
  BY SettingsAssumption DEF IInv, TypeOK
<1>2. /\ M = F \cup G /\ F \cap G = {}
      /\ M \in SUBSET Int /\ IsFiniteSet(M) /\ Cardinality(M) <= 31
      /\ F \in SUBSET Int /\ IsFiniteSet(F) /\ Cardinality(F) <= 31
      /\ G \in SUBSET Int /\ IsFiniteSet(G) /\ Cardinality(G) <= 31
      /\ \A d \in F : d <= fifteenth
  BY <1>1, MonthSplits
<1>3. /\ month = IF \A h \in setting.hire : h <= end THEN {RowOf("monthly")} ELSE {}
      /\ second = IF \A h \in setting.hire : h <= end THEN {RowOf("biweekly_second")} ELSE {}
      /\ first = IF \A h \in setting.hire : h <= fifteenth THEN {RowOf("biweekly_first")} ELSE {}
      /\ fifteenth \in Int /\ end \in Int /\ fifteenth <= end
  BY <1>1, UniverseIs, ReportsAre
<1>4. CASE ~(\A h \in setting.hire : h <= end)
  <2>1. ~(\A h \in setting.hire : h <= fifteenth)
    BY <1>1, <1>3, <1>4
  <2>2. month = {} /\ second = {} /\ first = {}
    BY <1>3, <1>4, <2>1
  <2> HIDE DEF month, second, first
  <2>3. 0 + 0 = 0
    OBVIOUS
  <2>4. Sums(month, 0 + 0, 0 + 0, 0 + 0, 0 + 0, 0 + 0) /\ Sums(first, 0, 0, 0, 0, 0)
        /\ Sums(second, 0, 0, 0, 0, 0)
    BY <2>2, <2>3, NoRow
  <2>5. AddUp(first, second, month)
    BY <2>4, SumsAdd
  <2> QED BY <2>5 DEF first, second, month
<1>5. CASE \A h \in setting.hire : h <= end
  <2>1. month = {RowOf("monthly")} /\ second = {RowOf("biweekly_second")}
    BY <1>3, <1>5
  <2>2. /\ RowOf("monthly").amounts.total < MaxInt /\ RowOf("monthly").deficit_min < MaxInt
        /\ \A d \in DOMAIN record : effective_work_min(Db, d) <= MaxInt \div 31
    BY <2>1 DEF NothingSaturates
  <2>3. PayOf(M) <= MaxInt /\ DeficitOf(M) <= MaxInt
    BY <1>2, <2>2, RowIs
  <2>4. /\ PayOf(F) \in Nat /\ PayOf(G) \in Nat /\ PayOf(F \cup G) = PayOf(F) + PayOf(G)
        /\ WorkOf(F) \in Int /\ WorkOf(G) \in Int /\ WorkOf(F \cup G) = WorkOf(F) + WorkOf(G)
        /\ DeficitOf(F) \in Nat /\ DeficitOf(G) \in Nat
        /\ DeficitOf(F \cup G) = DeficitOf(F) + DeficitOf(G)
        /\ AbsentOf(F) \in Nat /\ AbsentOf(G) \in Nat
        /\ AbsentOf(F \cup G) = AbsentOf(F) + AbsentOf(G)
        /\ LeaveOf(F) \in Nat /\ LeaveOf(G) \in Nat
        /\ LeaveOf(F \cup G) = LeaveOf(F) + LeaveOf(G)
    <3> HIDE DEF F, G, M
    <3> QED BY <1>2, FiguresSplit
  <2>5. /\ PayOf(M) = PayOf(F) + PayOf(G) /\ WorkOf(M) = WorkOf(F) + WorkOf(G)
        /\ LeaveOf(M) = LeaveOf(F) + LeaveOf(G) /\ AbsentOf(M) = AbsentOf(F) + AbsentOf(G)
        /\ DeficitOf(M) = DeficitOf(F) + DeficitOf(G)
    <3> HIDE DEF F, G, M
    <3> QED BY <1>2, <2>4
  <2>6. /\ PayOf(F) <= MaxInt /\ PayOf(G) <= MaxInt
        /\ DeficitOf(F) <= MaxInt /\ DeficitOf(G) <= MaxInt
    <3> HIDE DEF F, G, M
    <3> QED BY <2>3, <2>4, <2>5, BoundsAssumption
  <2>7. Sums(month, PayOf(M), WorkOf(M), LeaveOf(M), AbsentOf(M), DeficitOf(M))
    <3>1. Sums({RowOf("monthly")}, PayOf(M), WorkOf(M), LeaveOf(M), AbsentOf(M), DeficitOf(M))
      BY <1>2, <2>2, <2>3, RowAddsUp
    <3> QED BY <2>1, <3>1
  <2>8. Sums(second, PayOf(G), WorkOf(G), LeaveOf(G), AbsentOf(G), DeficitOf(G))
    <3>1. Sums({RowOf("biweekly_second")}, PayOf(G), WorkOf(G), LeaveOf(G), AbsentOf(G), DeficitOf(G))
      BY <1>2, <2>2, <2>6, RowAddsUp
    <3> QED BY <2>1, <3>1
  <2>9. Sums(first, PayOf(F), WorkOf(F), LeaveOf(F), AbsentOf(F), DeficitOf(F))
    <3>1. CASE \A h \in setting.hire : h <= fifteenth
      <4>1. Sums({RowOf("biweekly_first")}, PayOf(F), WorkOf(F), LeaveOf(F), AbsentOf(F), DeficitOf(F))
        BY <1>2, <2>2, <2>6, RowAddsUp
      <4> QED BY <1>3, <3>1, <4>1
    <3>2. CASE ~(\A h \in setting.hire : h <= fifteenth)
      <4>1. PICK h \in setting.hire : ~(h <= fifteenth)
        BY <3>2
      <4>2. \A d \in DOMAIN record \cup LeaveRange : h <= d
        BY <4>1 DEF HiredInTime
      <4>3. \A d \in F : ~(d >= h) /\ ~(h <= d)
        <5> HIDE DEF F, fifteenth
        <5> QED BY <1>1, <1>2, <1>3, <4>1
      <4>4. PayOf(F) = 0 /\ WorkOf(F) = 0 /\ DeficitOf(F) = 0 /\ AbsentOf(F) = 0 /\ LeaveOf(F) = 0
        <5> HIDE DEF F
        <5> QED BY <4>2, <4>3, BeforeHire
      <4>5. first = {}
        BY <1>3, <3>2
      <4> QED BY <4>4, <4>5, NoRow
    <3> QED BY <3>1, <3>2
  <2> HIDE DEF first, second, month, F, G, M
  <2>10. Sums(month, PayOf(F) + PayOf(G), WorkOf(F) + WorkOf(G), LeaveOf(F) + LeaveOf(G),
              AbsentOf(F) + AbsentOf(G), DeficitOf(F) + DeficitOf(G))
    BY <2>5, <2>7
  <2>11. AddUp(first, second, month)
    BY <2>8, <2>9, <2>10, SumsAdd
  <2> QED BY <2>11 DEF first, second, month
<1> QED BY <1>4, <1>5

(* resolve_period splits a month into two fortnights with no day in both or *)
(* in none, so that compute_report pays, counts and misses over the two     *)
(* what it does over the month, as long as no sum is cut off at the largest *)
(* integer.                                                                 *)
THEOREM FortnightsAlwaysAddUp == Spec => []FortnightsAddUp
<1>1. IInv => FortnightsAddUp
  BY FortnightsFollow
<1> QED BY <1>1, AlwaysKept, PTL
=============================================================================
