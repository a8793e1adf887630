--------------------------- MODULE FiniteInduction ---------------------------
(***************************************************************************)
(* Induction and recursion over finite sets, in the form the provers can   *)
(* use: what is to be shown is a set, and never an operator.  With them,   *)
(* facts about the folds the models are written with.                      *)
(***************************************************************************)
EXTENDS Integers, FiniteSetsExt, FiniteSetTheorems, FunctionTheorems,
        WellFoundedInduction, TLAPS

\* The natural numbers are well founded.
LEMMA LeastNatural ==
  ASSUME NEW T \in SUBSET Nat, T # {}
  PROVE  \E x \in T : \A y \in T : x <= y
<1> DEFINE R == {p \in Nat \X Nat : p[1] < p[2]}
<1>1. IsWellFoundedOn(R, Nat)
  BY NatLessThanWellFounded DEF OpToRel
<1>2. \A x, y \in Nat : y < x => <<y, x>> \in R
  OBVIOUS
<1> HIDE DEF R
<1>3. PICK x \in T : \A y \in T : <<y, x>> \notin R
  BY <1>1, WFMin
<1>4. \A y \in T : ~(y < x)
  BY <1>2, <1>3
<1> QED BY <1>4

\* Induction over the natural numbers.
LEMMA InductionOverNat ==
  ASSUME NEW P \in SUBSET Nat, 0 \in P, \A n \in P : n + 1 \in P
  PROVE  P = Nat
<1> SUFFICES ASSUME Nat \ P # {} PROVE FALSE
  OBVIOUS
<1>1. PICK x \in Nat \ P : \A y \in Nat \ P : x <= y
  BY LeastNatural
<1>2. x - 1 \in Nat /\ x - 1 \notin P
  BY <1>1
<1> QED BY <1>1, <1>2

\* Induction over the subsets of a finite set.
LEMMA InductionOverSubsets ==
  ASSUME NEW S, IsFiniteSet(S), NEW P \in SUBSET SUBSET S, {} \in P,
         \A s \in P, x \in S : s \cup {x} \in P
  PROVE  P = SUBSET S
<1> DEFINE Good == {n \in Nat : \A s \in SUBSET S : Cardinality(s) = n => s \in P}
<1>1. \A s \in SUBSET S : IsFiniteSet(s) /\ Cardinality(s) \in Nat
  BY FS_Subset, FS_CardinalityType
<1>2. 0 \in Good
  BY <1>1, FS_EmptySet
<1>3. ASSUME NEW n \in Good PROVE n + 1 \in Good
  <2>1. ASSUME NEW s \in SUBSET S, Cardinality(s) = n + 1 PROVE s \in P
    <3>1. s # {}
      <4>1. n \in Nat
        OBVIOUS
      <4>2. Cardinality({}) = 0 /\ n + 1 # 0
        BY <4>1, FS_EmptySet
      <4> QED BY <2>1, <4>2
    <3>2. PICK x \in s : TRUE
      BY <3>1
    <3>3. Cardinality(s \ {x}) = n
      BY <1>1, <2>1, <3>2, FS_RemoveElement
    <3>4. s \ {x} \in P
      BY <3>3
    <3>5. s = (s \ {x}) \cup {x}
      BY <3>2
    <3> QED BY <3>4, <3>5
  <2> QED BY <2>1
<1> HIDE DEF Good
<1>4. Good = Nat
  BY <1>2, <1>3, InductionOverNat DEF Good
<1> QED BY <1>1, <1>4 DEF Good

-----------------------------------------------------------------------------
\* A finite set of integers has a maximum.
LEMMA MaxOfFinite ==
  ASSUME NEW S \in SUBSET Int, IsFiniteSet(S), S # {}
  PROVE  Max(S) \in S /\ \A y \in S : Max(S) >= y
<1> DEFINE P == {s \in SUBSET S : s # {} => \E x \in s : \A y \in s : x >= y}
<1>1. {} \in P
  OBVIOUS
<1>2. ASSUME NEW s \in P, NEW z \in S PROVE s \cup {z} \in P
  <2>1. CASE s = {}
    <3>1. s \cup {z} = {z} /\ z >= z
      BY <2>1
    <3> QED BY <3>1
  <2>2. CASE s # {}
    <3>1. PICK x \in s : \A y \in s : x >= y
      BY <2>2
    <3>2. CASE x >= z
      BY <3>1, <3>2
    <3>3. CASE ~(x >= z)
      <4>1. \A y \in s \cup {z} : z >= y
        BY <3>1, <3>3
      <4> QED BY <4>1
    <3> QED BY <3>2, <3>3
  <2> QED BY <2>1, <2>2
<1>3. P \in SUBSET SUBSET S
  OBVIOUS
<1> HIDE DEF P
<1>4. P = SUBSET S
  BY <1>1, <1>2, <1>3, InductionOverSubsets
<1>5. \E x \in S : \A y \in S : x >= y
  BY <1>4 DEF P
<1> QED BY <1>5 DEF Max

\* The image of a finite set under a function is finite.
LEMMA RangeFinite ==
  ASSUME NEW S, IsFiniteSet(S), NEW f
  PROVE  IsFiniteSet({f[x] : x \in S})
<1> DEFINE P == {s \in SUBSET S : IsFiniteSet({f[x] : x \in s})}
<1>1. {} \in P
  <2>1. {f[x] : x \in {}} = {}
    OBVIOUS
  <2> QED BY <2>1, FS_EmptySet
<1>2. ASSUME NEW s \in P, NEW z \in S PROVE s \cup {z} \in P
  <2>1. {f[x] : x \in s \cup {z}} = {f[x] : x \in s} \cup {f[z]}
    OBVIOUS
  <2>2. IsFiniteSet({f[x] : x \in s} \cup {f[z]})
    BY FS_AddElement
  <2> QED BY <2>1, <2>2
<1>3. P \in SUBSET SUBSET S
  OBVIOUS
<1> HIDE DEF P
<1>4. P = SUBSET S
  BY <1>1, <1>2, <1>3, InductionOverSubsets
<1> QED BY <1>4 DEF P

-----------------------------------------------------------------------------
\* The step of a fold over a finite set whose elements are taken in some order.
Picks(pick, S) == \A s \in SUBSET S : s # {} => pick[s] \in s
FoldStep(base, step, pick, s, fold) ==
  IF s = {} THEN base ELSE step[pick[s]][fold[s \ {pick[s]}]]
IsFold(S, V, pick, base, step, fold) ==
  /\ fold \in [SUBSET S -> V]
  /\ \A s \in SUBSET S : fold[s] = FoldStep(base, step, pick, s, fold)

\* Folds over a finite set exist.
LEMMA FoldsExist ==
  ASSUME NEW S, IsFiniteSet(S), NEW pick, Picks(pick, S),
         NEW V, NEW base \in V, NEW step \in [S -> [V -> V]]
  PROVE  \E fold : IsFold(S, V, pick, base, step, fold)
<1> DEFINE UpTo(n) == {s \in SUBSET S : Cardinality(s) <= n}
           Good == {n \in Nat : \E fold \in [SUBSET S -> V] :
                      \A s \in UpTo(n) : fold[s] = FoldStep(base, step, pick, s, fold)}
<1>1. \A s \in SUBSET S : IsFiniteSet(s) /\ Cardinality(s) \in Nat
  BY FS_Subset, FS_CardinalityType
<1>2. \A s \in SUBSET S : s # {} =>
        /\ s \ {pick[s]} \in SUBSET S
        /\ Cardinality(s \ {pick[s]}) = Cardinality(s) - 1
  BY <1>1, FS_RemoveElement DEF Picks
<1>3. 0 \in Good
  <2>1. \A s \in UpTo(0) : s = {}
    BY <1>1, FS_EmptySet
  <2> DEFINE none == [t \in SUBSET S |-> base]
  <2>2. none \in [SUBSET S -> V] /\ \A s \in UpTo(0) : none[s] = FoldStep(base, step, pick, s, none)
    BY <2>1 DEF FoldStep
  <2> QED BY <2>2
<1>4. ASSUME NEW n \in Good PROVE n + 1 \in Good
  <2>1. PICK fold \in [SUBSET S -> V] :
          \A s \in UpTo(n) : fold[s] = FoldStep(base, step, pick, s, fold)
    OBVIOUS
  <2> DEFINE next == [s \in SUBSET S |->
                        IF s \in UpTo(n) THEN fold[s] ELSE FoldStep(base, step, pick, s, fold)]
  <2>2. \A s \in UpTo(n) : next[s] = fold[s]
    OBVIOUS
  <2>3. \A s \in UpTo(n + 1) : next[s] = FoldStep(base, step, pick, s, fold)
    BY <2>1
  <2>4. \A s \in UpTo(n + 1) : s # {} => s \ {pick[s]} \in UpTo(n)
    BY <1>1, <1>2
  <2>5. next \in [SUBSET S -> V]
    <3>1. \A s \in SUBSET S : FoldStep(base, step, pick, s, fold) \in V
      BY <1>2 DEF FoldStep, Picks
    <3> QED BY <2>1, <3>1
  <2> HIDE DEF next, UpTo
  <2>6. \A s \in UpTo(n + 1) :
          FoldStep(base, step, pick, s, next) = FoldStep(base, step, pick, s, fold)
    BY <2>2, <2>4 DEF FoldStep
  <2>7. \A s \in UpTo(n + 1) : next[s] = FoldStep(base, step, pick, s, next)
    BY <2>3, <2>6
  <2> QED BY <2>5, <2>7
<1>g. Good \in SUBSET Nat
  OBVIOUS
<1> HIDE DEF Good
<1>5. Good = Nat
  BY <1>3, <1>4, <1>g, InductionOverNat
<1>6. Cardinality(S) \in Nat
  BY FS_CardinalityType
<1>7. \A s \in SUBSET S : s \in UpTo(Cardinality(S))
  BY <1>1, FS_Subset
<1> QED BY <1>5, <1>6, <1>7 DEF Good, IsFold

\* A sequence is folded in order: the greatest index is taken off last.
IsRangeFold(n, V, base, step, fold) ==
  /\ fold \in [SUBSET (1 .. n) -> V]
  /\ \A s \in SUBSET (1 .. n) :
       fold[s] = IF s = {} THEN base ELSE step[Max(s)][fold[s \ {Max(s)}]]

LEMMA FoldsOverRange ==
  ASSUME NEW n \in Nat, NEW V, NEW base \in V, NEW step \in [1 .. n -> [V -> V]]
  PROVE  \E fold : IsRangeFold(n, V, base, step, fold)
<1> DEFINE S == 1 .. n
           pick == [s \in SUBSET S |-> Max(s)]
<1>1. IsFiniteSet(S)
  BY FS_Interval
<1>2. \A s \in SUBSET S : s # {} => Max(s) \in s
  <2>1. ASSUME NEW s \in SUBSET S, s # {} PROVE Max(s) \in s
    <3>1. s \in SUBSET Int
      OBVIOUS
    <3> HIDE DEF S
    <3>2. IsFiniteSet(s)
      BY <1>1, FS_Subset
    <3> QED BY <2>1, <3>1, <3>2, MaxOfFinite
  <2> QED BY <2>1
<1>3. Picks(pick, S)
  BY <1>2 DEF Picks
<1>4. \A s \in SUBSET S : pick[s] = Max(s)
  OBVIOUS
<1> HIDE DEF pick, S
<1>5. PICK fold : IsFold(S, V, pick, base, step, fold)
  <2>1. step \in [S -> [V -> V]]
    BY DEF S
  <2> QED BY <1>1, <1>3, <2>1, FoldsExist
<1>6. \A s \in SUBSET S :
        fold[s] = IF s = {} THEN base ELSE step[Max(s)][fold[s \ {Max(s)}]]
  BY <1>4, <1>5 DEF FoldStep, IsFold
<1> QED BY <1>5, <1>6 DEF S, IsFold, IsRangeFold

LEMMA LastOfRange ==
  ASSUME NEW k \in Nat \ {0}
  PROVE  Max(1 .. k) = k /\ (1 .. k) \ {k} = 1 .. (k - 1) /\ 1 .. k # {}
<1>1. k \in 1 .. k /\ \A x \in 1 .. k : k >= x
  OBVIOUS
<1>2. Max(1 .. k) \in 1 .. k /\ \A y \in 1 .. k : Max(1 .. k) >= y
  BY <1>1 DEF Max
<1> QED BY <1>1, <1>2

-----------------------------------------------------------------------------
\* The step of a sum over a finite set, and what it is to be a sum.
Removed(s) == CHOOSE x \in s : TRUE
SumStep(f, s, partial) == IF s = {} THEN 0 ELSE f[Removed(s)] + partial[s \ {Removed(s)}]

IsSum(f, S, sum) == sum = [s \in SUBSET S |-> SumStep(f, s, sum)]

\* Sums over a finite set exist.
LEMMA SumsExist ==
  ASSUME NEW S, IsFiniteSet(S), NEW f, \A x \in S : f[x] \in Int
  PROVE  \E sum : IsSum(f, S, sum)
<1> DEFINE pick == [s \in SUBSET S |-> Removed(s)]
           step == [x \in S |-> [v \in Int |-> f[x] + v]]
<1>1. \A s \in SUBSET S : pick[s] = Removed(s) /\ (s # {} => pick[s] \in s)
  BY DEF Removed
<1>2. step \in [S -> [Int -> Int]] /\ \A x \in S, v \in Int : step[x][v] = f[x] + v
  OBVIOUS
<1> HIDE DEF pick, step
<1>3. PICK sum : IsFold(S, Int, pick, 0, step, sum)
  <2>1. 0 \in Int
    OBVIOUS
  <2>2. Picks(pick, S)
    BY <1>1 DEF Picks
  <2> QED BY <1>2, <2>1, <2>2, FoldsExist
<1>4. ASSUME NEW s \in SUBSET S PROVE sum[s] = SumStep(f, s, sum)
  <2>1. CASE s = {}
    BY <2>1, <1>3 DEF FoldStep, SumStep, IsFold
  <2>2. CASE s # {}
    <3>1. Removed(s) \in S /\ sum[s \ {Removed(s)}] \in Int /\ pick[s] = Removed(s)
      BY <1>1, <1>3, <2>2 DEF IsFold
    <3>2. sum[s] = step[Removed(s)][sum[s \ {Removed(s)}]]
      BY <1>3, <2>2, <3>1 DEF FoldStep, IsFold
    <3>3. sum[s] = f[Removed(s)] + sum[s \ {Removed(s)}]
      BY <1>2, <3>1, <3>2
    <3> QED BY <2>2, <3>3 DEF SumStep
  <2> QED BY <2>1, <2>2
<1>5. IsSum(f, S, sum)
  BY <1>3, <1>4 DEF IsFold, IsSum
<1> QED BY <1>5

LEMMA SumsOverSubsets ==
  ASSUME NEW S, IsFiniteSet(S), NEW f, \A x \in S : f[x] \in Int
  PROVE  \E sum : \A s \in SUBSET S : sum[s] = SumStep(f, s, sum)
<1>1. PICK sum : IsSum(f, S, sum)
  BY SumsExist
<1>2. \A s \in SUBSET S : sum[s] = SumStep(f, s, sum)
  BY <1>1 DEF IsSum
<1> QED BY <1>2

\* What the library's sum is.
LEMMA SumUnfolds ==
  ASSUME NEW S, IsFiniteSet(S), NEW f, \A x \in S : f[x] \in Int
  PROVE  \E sum :
           /\ \A s \in SUBSET S : sum[s] = SumStep(f, s, sum)
           /\ SumFunctionOnSet(f, S) = sum[S]
<1> DEFINE iter == CHOOSE sum : IsSum(f, S, sum)
<1>1. IsSum(f, S, iter)
  BY SumsExist
<1>2. SumFunctionOnSet(f, S) = iter[S]
  BY DEF SumFunctionOnSet, FoldFunctionOnSet, MapThenFoldSet, IsSum, SumStep, Removed
<1>3. \A s \in SUBSET S : iter[s] = SumStep(f, s, iter)
  BY <1>1 DEF IsSum
<1> HIDE DEF iter
<1> QED BY <1>2, <1>3

\* Sums of integers are integers.
LEMMA SumsAreIntegers ==
  ASSUME NEW S, IsFiniteSet(S), NEW f, \A x \in S : f[x] \in Int, NEW sum,
         \A s \in SUBSET S : sum[s] = SumStep(f, s, sum)
  PROVE  \A s \in SUBSET S : sum[s] \in Int
<1> DEFINE Good == {n \in Nat : \A s \in SUBSET S : Cardinality(s) = n => sum[s] \in Int}
<1>2. \A s \in SUBSET S : IsFiniteSet(s) /\ Cardinality(s) \in Nat
  BY FS_Subset, FS_CardinalityType
<1>3. 0 \in Good
  <2>1. sum[{}] = 0
    BY DEF SumStep
  <2>2. \A s \in SUBSET S : Cardinality(s) = 0 => s = {}
    BY <1>2, FS_EmptySet
  <2> QED BY <2>1, <2>2
<1>4. ASSUME NEW n \in Good PROVE n + 1 \in Good
  <2>1. ASSUME NEW s \in SUBSET S, Cardinality(s) = n + 1 PROVE sum[s] \in Int
    <3>1. s # {}
      <4>1. n \in Nat
        OBVIOUS
      <4>2. Cardinality({}) = 0 /\ n + 1 # 0
        BY <4>1, FS_EmptySet
      <4> QED BY <2>1, <4>2
    <3>2. Removed(s) \in s
      BY <3>1 DEF Removed
    <3>3. Cardinality(s \ {Removed(s)}) = n
      BY <1>2, <2>1, <3>2, FS_RemoveElement
    <3>4. sum[s \ {Removed(s)}] \in Int
      BY <3>3
    <3>5. f[Removed(s)] \in Int
      BY <3>2
    <3>6. sum[s] = f[Removed(s)] + sum[s \ {Removed(s)}]
      BY <3>1 DEF SumStep
    <3> HIDE DEF Good
    <3> QED BY <3>4, <3>5, <3>6
  <2> QED BY <2>1
<1> HIDE DEF Good
<1>5. Good = Nat
  BY <1>3, <1>4, InductionOverNat DEF Good
<1> QED BY <1>2, <1>5 DEF Good

\* The sum of integers is an integer.
LEMMA SumIsInteger ==
  ASSUME NEW S, IsFiniteSet(S), NEW f, \A x \in S : f[x] \in Int
  PROVE  SumFunctionOnSet(f, S) \in Int
<1>1. PICK sum :
        /\ \A s \in SUBSET S : sum[s] = SumStep(f, s, sum)
        /\ SumFunctionOnSet(f, S) = sum[S]
  BY SumUnfolds
<1>2. \A s \in SUBSET S : sum[s] \in Int
  BY <1>1, SumsAreIntegers
<1> QED BY <1>1, <1>2

\* Two sums of the same terms agree, whatever they are sums of elsewhere.
LEMMA SumsAgree ==
  ASSUME NEW S, IsFiniteSet(S), NEW f, NEW g, \A x \in S : f[x] = g[x],
         NEW a, \A s \in SUBSET S : a[s] = SumStep(f, s, a),
         NEW b, \A s \in SUBSET S : b[s] = SumStep(g, s, b)
  PROVE  \A s \in SUBSET S : a[s] = b[s]
<1> DEFINE Good == {n \in Nat : \A s \in SUBSET S : Cardinality(s) = n => a[s] = b[s]}
<1>1. \A s \in SUBSET S : IsFiniteSet(s) /\ Cardinality(s) \in Nat
  BY FS_Subset, FS_CardinalityType
<1>2. 0 \in Good
  <2>1. a[{}] = 0 /\ b[{}] = 0
    BY DEF SumStep
  <2>2. \A s \in SUBSET S : Cardinality(s) = 0 => s = {}
    BY <1>1, FS_EmptySet
  <2> QED BY <2>1, <2>2
<1>3. ASSUME NEW n \in Good PROVE n + 1 \in Good
  <2>1. ASSUME NEW s \in SUBSET S, Cardinality(s) = n + 1 PROVE a[s] = b[s]
    <3>1. s # {}
      <4>1. n \in Nat
        OBVIOUS
      <4>2. Cardinality({}) = 0 /\ n + 1 # 0
        BY <4>1, FS_EmptySet
      <4> QED BY <2>1, <4>2
    <3>2. Removed(s) \in s
      BY <3>1 DEF Removed
    <3>3. Cardinality(s \ {Removed(s)}) = n
      BY <1>1, <2>1, <3>2, FS_RemoveElement
    <3>4. a[s \ {Removed(s)}] = b[s \ {Removed(s)}]
      BY <3>3
    <3>5. f[Removed(s)] = g[Removed(s)]
      BY <3>2
    <3>6. /\ a[s] = f[Removed(s)] + a[s \ {Removed(s)}]
          /\ b[s] = g[Removed(s)] + b[s \ {Removed(s)}]
      BY <3>1 DEF SumStep
    <3> HIDE DEF Good
    <3> QED BY <3>4, <3>5, <3>6
  <2> QED BY <2>1
<1> HIDE DEF Good
<1>4. Good = Nat
  BY <1>2, <1>3, InductionOverNat DEF Good
<1> QED BY <1>1, <1>4 DEF Good

(***************************************************************************)
(* A sum takes its terms in the order CHOOSE gives, and does not depend on *)
(* it: one more element adds one more term.                                *)
(***************************************************************************)
LEMMA SumInserts ==
  ASSUME NEW S, IsFiniteSet(S), NEW f, \A x \in S : f[x] \in Int, NEW sum,
         \A s \in SUBSET S : sum[s] = SumStep(f, s, sum)
  PROVE  \A s \in SUBSET S, x \in S : x \notin s => sum[s \cup {x}] = f[x] + sum[s]
<1> DEFINE Adds(s) == \A x \in S \ s : sum[s \cup {x}] = f[x] + sum[s]
           Good == {n \in Nat : \A s \in SUBSET S : Cardinality(s) = n => Adds(s)}
<1>1. \A s \in SUBSET S : IsFiniteSet(s) /\ Cardinality(s) \in Nat
  BY FS_Subset, FS_CardinalityType
<1>2. \A s \in SUBSET S : sum[s] \in Int
  BY SumsAreIntegers
<1>3. ASSUME NEW s \in SUBSET S, s # {}
      PROVE  /\ Removed(s) \in s
             /\ sum[s] = f[Removed(s)] + sum[s \ {Removed(s)}]
  BY <1>3 DEF SumStep, Removed
<1>4. 0 \in Good
  <2>1. ASSUME NEW x \in S PROVE sum[{} \cup {x}] = f[x] + sum[{}]
    <3>1. {} \cup {x} = {x} /\ {x} \ {x} = {} /\ {x} # {}
      OBVIOUS
    <3>2. Removed({x}) = x
      BY <1>3, <3>1
    <3> QED BY <1>3, <3>1, <3>2
  <2>2. \A s \in SUBSET S : Cardinality(s) = 0 => s = {}
    BY <1>1, FS_EmptySet
  <2> QED BY <2>1, <2>2
<1>5. ASSUME NEW n \in Good PROVE n + 1 \in Good
  <2> SUFFICES ASSUME NEW s \in SUBSET S, Cardinality(s) = n + 1, NEW x \in S \ s
               PROVE  sum[s \cup {x}] = f[x] + sum[s]
    OBVIOUS
  <2> DEFINE t == s \cup {x}
             y == Removed(t)
  <2>1. t \in SUBSET S /\ t # {} /\ t \ {x} = s
    OBVIOUS
  <2>2. y \in t /\ sum[t] = f[y] + sum[t \ {y}]
    BY <1>3, <2>1
  <2>3. CASE y = x
    BY <2>1, <2>2, <2>3
  <2>4. CASE y # x
    <3> HIDE DEF y
    <3>1. y \in s
      BY <2>2, <2>4
    <3>2. Cardinality(s \ {y}) = n
      <4>1. n \in Nat
        OBVIOUS
      <4>2. IsFiniteSet(s)
        BY <1>1
      <4> HIDE DEF Good
      <4>3. Cardinality(s \ {y}) = Cardinality(s) - 1
        BY <3>1, <4>2, FS_RemoveElement
      <4>4. Cardinality(s) = n + 1
        OBVIOUS
      <4> QED BY <4>1, <4>3, <4>4
    <3>3. Adds(s \ {y})
      BY <3>2
    <3>4. (s \ {y}) \cup {x} = t \ {y} /\ (s \ {y}) \cup {y} = s
      BY <2>4, <3>1
    <3>5. sum[t \ {y}] = f[x] + sum[s \ {y}] /\ sum[s] = f[y] + sum[s \ {y}]
      BY <3>1, <3>3, <3>4
    <3>6. f[x] \in Int /\ f[y] \in Int /\ sum[s \ {y}] \in Int
      BY <1>2, <3>1
    <3> QED BY <2>2, <3>5, <3>6
  <2> QED BY <2>3, <2>4
<1> HIDE DEF Good
<1>6. Good = Nat
  BY <1>4, <1>5, InductionOverNat DEF Good
<1> QED BY <1>1, <1>6 DEF Good

-----------------------------------------------------------------------------
\* How many elements of S come before x in the order R.
RankIn(S, R, x) == Cardinality({y \in S : <<y, x>> \in R})

IsOrder(S, R) ==
  /\ \A x, y \in S : <<x, y>> \in R => <<y, x>> \notin R
  /\ \A x, y \in S : x # y => <<x, y>> \in R \/ <<y, x>> \in R
  /\ \A x, y, z \in S : <<x, y>> \in R /\ <<y, z>> \in R => <<x, z>> \in R

\* Ranks follow the order.
LEMMA RanksFollow ==
  ASSUME NEW S, IsFiniteSet(S), NEW R, IsOrder(S, R)
  PROVE  /\ \A x \in S : RankIn(S, R, x) \in 0 .. Cardinality(S) - 1
         /\ \A x, y \in S : <<x, y>> \in R <=> RankIn(S, R, x) < RankIn(S, R, y)
<1> DEFINE before(x) == {y \in S : <<y, x>> \in R}
<1>1. \A x \in S : IsFiniteSet(before(x)) /\ Cardinality(before(x)) \in Nat
  BY FS_Subset, FS_CardinalityType
<1>2. ASSUME NEW x \in S, NEW y \in S, <<x, y>> \in R
      PROVE  Cardinality(before(x)) < Cardinality(before(y))
  <2>1. before(x) \subseteq before(y) /\ x \in before(y) /\ x \notin before(x)
    BY <1>2 DEF IsOrder
  <2>2. /\ Cardinality(before(x)) <= Cardinality(before(y))
        /\ Cardinality(before(y)) = Cardinality(before(x)) => before(y) = before(x)
    BY <2>1, <1>1, FS_Subset
  <2> QED BY <2>1, <2>2, <1>1
<1>3. ASSUME NEW x \in S PROVE Cardinality(before(x)) \in 0 .. Cardinality(S) - 1
  <2>1. before(x) \subseteq S /\ x \notin before(x)
    BY DEF IsOrder
  <2>2. /\ Cardinality(before(x)) <= Cardinality(S)
        /\ Cardinality(S) = Cardinality(before(x)) => S = before(x)
    BY <2>1, FS_Subset
  <2>3. Cardinality(S) \in Nat
    BY FS_CardinalityType
  <2> QED BY <2>1, <2>2, <2>3, <1>1
<1>4. \A x, y \in S : <<x, y>> \in R \/ <<y, x>> \in R \/ x = y
  BY DEF IsOrder
<1>5. ASSUME NEW x \in S, NEW y \in S
      PROVE  <<x, y>> \in R <=> Cardinality(before(x)) < Cardinality(before(y))
  <2>1. /\ <<x, y>> \in R => Cardinality(before(x)) < Cardinality(before(y))
        /\ <<y, x>> \in R => Cardinality(before(y)) < Cardinality(before(x))
        /\ <<x, x>> \notin R
    BY <1>2 DEF IsOrder
  <2>2. Cardinality(before(x)) \in Nat /\ Cardinality(before(y)) \in Nat
    BY <1>1
  <2> HIDE DEF before
  <2>3. <<x, y>> \in R \/ <<y, x>> \in R \/ x = y
    BY <1>4
  <2> QED BY <2>1, <2>2, <2>3
<1> QED BY <1>3, <1>5 DEF RankIn, before

\* And there is one element of each.
LEMMA RanksFill ==
  ASSUME NEW S, IsFiniteSet(S), NEW R, IsOrder(S, R)
  PROVE  /\ \A x, y \in S : RankIn(S, R, x) = RankIn(S, R, y) => x = y
         /\ \A n \in 0 .. Cardinality(S) - 1 : \E x \in S : RankIn(S, R, x) = n
<1> DEFINE rank == [x \in S |-> RankIn(S, R, x)]
           N == 0 .. Cardinality(S) - 1
<1>1. rank \in [S -> N] /\ \A x, y \in S : rank[x] = rank[y] => x = y
  <2>1. \A x, y \in S : x # y => RankIn(S, R, x) < RankIn(S, R, y) \/ RankIn(S, R, y) < RankIn(S, R, x)
    BY RanksFollow DEF IsOrder
  <2>2. \A x \in S : RankIn(S, R, x) \in N /\ RankIn(S, R, x) \in Int
    BY RanksFollow
  <2> QED BY <2>1, <2>2
<1>2. Cardinality(S) \in Nat
  BY FS_CardinalityType
<1>3. IsFiniteSet(N) /\ Cardinality(N) = Cardinality(S)
  <2>1. /\ IsFiniteSet(N)
        /\ Cardinality(N) = IF 0 > Cardinality(S) - 1 THEN 0 ELSE Cardinality(S) - 1 - 0 + 1
    <3>1. PICK m \in Int : m = Cardinality(S) - 1
      BY <1>2
    <3>2. IsFiniteSet(0 .. m) /\ Cardinality(0 .. m) = IF 0 > m THEN 0 ELSE m - 0 + 1
      BY FS_Interval
    <3> QED BY <3>1, <3>2
  <2> QED BY <2>1, <1>2
<1> HIDE DEF rank, N
<1>4. rank \in Injection(S, N)
  BY <1>1, Fun_IsInj
<1>5. rank \in Surjection(S, N)
  BY <1>3, <1>4, FS_Injection
<1>6. \A n \in N : \E x \in S : rank[x] = n
  BY <1>5, Fun_SurjectionProperties
<1> QED BY <1>1, <1>6 DEF rank, N

\* Those of rank below m are m, or all.
LEMMA LowRanks ==
  ASSUME NEW S, IsFiniteSet(S), NEW R, IsOrder(S, R), NEW m \in Int
  PROVE  LET low == {x \in S : RankIn(S, R, x) < m}
         IN  /\ m >= Cardinality(S) => low = S
             /\ m \in 0 .. Cardinality(S) => Cardinality(low) = m
             /\ m <= 0 => low = {}
<1> DEFINE low == {x \in S : RankIn(S, R, x) < m}
<1>1. Cardinality(S) \in Nat
  BY FS_CardinalityType
<1>2. \A x \in S : RankIn(S, R, x) \in 0 .. Cardinality(S) - 1
  BY RanksFollow
<1>3. m >= Cardinality(S) => low = S
  <2>1. ASSUME m >= Cardinality(S), NEW x \in S PROVE RankIn(S, R, x) < m
    BY <2>1, <1>1, <1>2
  <2> QED BY <2>1
<1>4. m <= 0 => low = {}
  BY <1>2
<1>5. ASSUME m \in 0 .. Cardinality(S) PROVE Cardinality(low) = m
  <2> DEFINE N == 0 .. m - 1
             f == [x \in low |-> RankIn(S, R, x)]
  <2>1. /\ \A x, y \in S : RankIn(S, R, x) = RankIn(S, R, y) => x = y
        /\ \A n \in 0 .. Cardinality(S) - 1 : \E x \in S : RankIn(S, R, x) = n
    BY RanksFill
  <2>2. f \in [low -> N] /\ \A x, y \in low : f[x] = f[y] => x = y
    BY <1>2, <2>1, <1>5, <1>1
  <2>3. ASSUME NEW n \in N PROVE \E x \in low : f[x] = n
    <3>1. n \in 0 .. Cardinality(S) - 1 /\ n < m
      BY <1>5, <1>1
    <3>2. PICK x \in S : RankIn(S, R, x) = n
      BY <2>1, <3>1
    <3> QED BY <3>1, <3>2
  <2>4. IsFiniteSet(N) /\ Cardinality(N) = m
    <3>1. IsFiniteSet(N) /\ Cardinality(N) = IF 0 > m - 1 THEN 0 ELSE m - 1 - 0 + 1
      BY FS_Interval
    <3> QED BY <3>1, <1>5
  <2>5. IsFiniteSet(low)
    BY FS_Subset
  <2> HIDE DEF f, N, low
  <2>6. f \in Injection(low, N) /\ f \in Surjection(low, N)
    BY <2>2, <2>3, Fun_IsInj, Fun_IsSurj
  <2>7. Cardinality(N) = Cardinality(low)
    BY <2>4, <2>6, FS_Injection
  <2> QED BY <2>4, <2>7
<1> QED BY <1>3, <1>4, <1>5

=============================================================================
