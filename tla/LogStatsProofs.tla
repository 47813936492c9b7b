--------------------------- MODULE LogStatsProofs ---------------------------
(***************************************************************************)
(* Proofs about the entries of api_logs and the statistics page.  They rest *)
(* on one fact of the three writers, that an entry says of its call what   *)
(* the call was (EntriesAreTrue), and on the entries of a window being      *)
(* those of calls already made, so that no later call changes what was     *)
(* counted.  That the rows per endpoint add up to the totals is a fact     *)
(* about sums over finite sets: the first part derives what is needed of   *)
(* SumFunctionOnSet from the well-founded order of the subsets of a finite *)
(* set.                                                                    *)
(***************************************************************************)
EXTENDS LogStats, FiniteSetTheorems, TLAPS

-------------------------------------------------------------------------------
(* Sums over finite sets.                                                   *)

\* What is so of a subset whenever it is so of all smaller ones is so of the whole set.
LEMMA SubsetInduction ==
  ASSUME NEW S, IsFiniteSet(S), NEW Good,
         \A U \in SUBSET S : (\A V \in (SUBSET U) \ {U} : V \in Good) => U \in Good
  PROVE  \A U \in SUBSET S : U \in Good
<1> DEFINE Bad == (SUBSET S) \ Good
<1> SUFFICES ASSUME Bad # {} PROVE FALSE
  OBVIOUS
<1>1. FiniteSubsetsOf(S) = SUBSET S
  BY FS_FiniteSubsetsOfFinite
<1>2. IsWellFoundedOn(StrictSubsetOrdering(S), FiniteSubsetsOf(S))
  BY FS_StrictSubsetOrderingWellFounded
<1>3. PICK U \in Bad : \A V \in Bad : ~(<<V, U>> \in StrictSubsetOrdering(S))
  <2>1. Bad \subseteq FiniteSubsetsOf(S)
    BY <1>1
  <2> HIDE DEF Bad
  <2> QED
    BY <1>2, <2>1, WFMin
<1>4. \A V \in (SUBSET U) \ {U} : V \in Good
  BY <1>3 DEF StrictSubsetOrdering
<1> QED
  BY <1>3, <1>4

\* The recursive function behind a sum over S, as a condition on g.
Sums(g, f, S) ==
  g = [s \in SUBSET S |->
         IF s = {} THEN 0
         ELSE LET x == CHOOSE x \in s : TRUE IN f[x] + g[s \ {x}]]

LEMMA SumsUnique ==
  ASSUME NEW S, IsFiniteSet(S), NEW f, NEW g, NEW h, Sums(g, f, S), Sums(h, f, S)
  PROVE  g = h
<1> DEFINE Good == {s \in SUBSET S : g[s] = h[s]}
<1>1. ASSUME NEW U \in SUBSET S, \A V \in (SUBSET U) \ {U} : V \in Good PROVE U \in Good
  <2>1. CASE U = {}
    BY <2>1 DEF Sums
  <2>2. CASE U # {}
    <3> DEFINE x == CHOOSE x \in U : TRUE
    <3>1. x \in U
      BY <2>2
    <3> HIDE DEF x
    <3>2. U \ {x} \in Good
      BY <1>1, <3>1
    <3>3. g[U] = f[x] + g[U \ {x}] /\ h[U] = f[x] + h[U \ {x}]
      BY <2>2 DEF Sums, x
    <3> QED
      BY <3>2, <3>3
  <2> QED
    BY <2>1, <2>2
<1>2. \A U \in SUBSET S : U \in Good
  <2> HIDE DEF Good
  <2> QED
    BY <1>1, SubsetInduction
<1>3. \A U \in SUBSET S : g[U] = h[U]
  BY <1>2
<1> QED
  BY <1>3 DEF Sums

\* There is such a function.
LEMMA SumsExist ==
  ASSUME NEW S, IsFiniteSet(S), NEW f
  PROVE  \E g : Sums(g, f, S)
<1> DEFINE Good == {s \in SUBSET S : \E g : Sums(g, f, s)}
<1>1. ASSUME NEW U \in SUBSET S, \A V \in (SUBSET U) \ {U} : V \in Good PROVE U \in Good
  <2> DEFINE G(V) == CHOOSE g : Sums(g, f, V)
             g == [s \in SUBSET U |->
                     IF s = {} THEN 0
                     ELSE LET x == CHOOSE x \in s : TRUE IN f[x] + G(s \ {x})[s \ {x}]]
  <2>1. IsFiniteSet(U)
    BY FS_Subset
  <2>2. \A V \in (SUBSET U) \ {U} : Sums(G(V), f, V)
    BY <1>1
  <2>3. ASSUME NEW V \in (SUBSET U) \ {U}, NEW W \in SUBSET V PROVE G(V)[W] = G(W)[W]
    <3>1. Sums(G(V), f, V) /\ Sums(G(W), f, W) /\ IsFiniteSet(W)
      BY <2>1, <2>2, <2>3, FS_Subset
    <3> DEFINE h == [s \in SUBSET W |-> G(V)[s]]
    <3>2. Sums(h, f, W)
      <4> HIDE DEF G
      <4>1. ASSUME NEW s \in SUBSET W
            PROVE  h[s] = IF s = {} THEN 0
                          ELSE LET x == CHOOSE x \in s : TRUE IN f[x] + h[s \ {x}]
        <5>1. s \in SUBSET V /\ h[s] = G(V)[s]
          OBVIOUS
        <5>2. \A x : h[s \ {x}] = G(V)[s \ {x}]
          OBVIOUS
        <5>3. G(V)[s] = IF s = {} THEN 0
                        ELSE LET x == CHOOSE x \in s : TRUE IN f[x] + G(V)[s \ {x}]
          BY <3>1, <5>1 DEF Sums
        <5> QED
          BY <5>1, <5>2, <5>3
      <4>2. h = [s \in SUBSET W |-> h[s]]
        OBVIOUS
      <4> HIDE DEF h
      <4> QED
        BY <4>1, <4>2 DEF Sums
    <3> HIDE DEF G, h
    <3>3. h = G(W)
      BY <3>1, <3>2, SumsUnique
    <3> QED
      BY <3>3 DEF h
  <2>4. ASSUME NEW s \in SUBSET U, s # {}
        PROVE  LET x == CHOOSE x \in s : TRUE IN g[s] = f[x] + g[s \ {x}]
    <3> DEFINE x == CHOOSE x \in s : TRUE
               r == s \ {x}
    <3>1. x \in s
      BY <2>4
    <3>2. r \in (SUBSET U) \ {U}
      BY <3>1
    <3>3. G(r)[r] = g[r]
      <4>1. ASSUME r = {} PROVE G(r)[r] = g[r]
        <5>1. G(r)[r] = 0
          <6> HIDE DEF G, r
          <6> QED
            BY <2>2, <3>2, <4>1 DEF Sums
        <5>2. g[r] = 0
          BY <3>2, <4>1
        <5> QED
          BY <5>1, <5>2
      <4>2. ASSUME r # {} PROVE G(r)[r] = g[r]
        <5> DEFINE y == CHOOSE y \in r : TRUE
        <5>1. y \in r
          BY <4>2
        <5>2. G(r)[r] = f[y] + G(r)[r \ {y}]
          BY <2>2, <3>2, <4>2 DEF Sums
        <5>3. G(r)[r \ {y}] = G(r \ {y})[r \ {y}]
          BY <2>3, <3>2, <5>1
        <5>4. g[r] = f[y] + G(r \ {y})[r \ {y}]
          BY <3>2, <4>2
        <5> QED
          BY <5>2, <5>3, <5>4
      <4> HIDE DEF g, r
      <4> QED
        BY <4>1, <4>2
    <3>4. g[s] = f[x] + G(r)[r]
      BY <2>4
    <3> QED
      BY <3>3, <3>4
  <2>5. g[{}] = 0
    OBVIOUS
  <2>6. Sums(g, f, U)
    <3>1. g = [s \in SUBSET U |-> g[s]]
      OBVIOUS
    <3> HIDE DEF g
    <3> QED
      BY <2>4, <2>5, <3>1 DEF Sums
  <2> QED
    BY <2>6
<1>2. \A U \in SUBSET S : U \in Good
  <2> HIDE DEF Good
  <2> QED
    BY <1>1, SubsetInduction
<1> QED
  BY <1>2


LEMMA SumIsSums ==
  ASSUME NEW S, IsFiniteSet(S), NEW f, NEW g, Sums(g, f, S)
  PROVE  SumFunctionOnSet(f, S) = g[S]
<1> DEFINE h == CHOOSE h : Sums(h, f, S)
<1>1. SumFunctionOnSet(f, S) = h[S]
  BY DEF SumFunctionOnSet, FoldFunctionOnSet, MapThenFoldSet, Sums
<1>2. Sums(h, f, S)
  BY SumsExist
<1> QED
  BY <1>1, <1>2, SumsUnique

\* The sum over nothing, and the sum with the chosen element taken out.
LEMMA SumUnfolds ==
  ASSUME NEW S, IsFiniteSet(S), NEW f
  PROVE  SumFunctionOnSet(f, S) =
           IF S = {} THEN 0
           ELSE LET x == CHOOSE x \in S : TRUE IN f[x] + SumFunctionOnSet(f, S \ {x})
<1>1. PICK g : Sums(g, f, S)
  BY SumsExist
<1>2. SumFunctionOnSet(f, S) = g[S]
  BY <1>1, SumIsSums
<1>3. ASSUME S # {}
      PROVE  LET x == CHOOSE x \in S : TRUE
             IN  SumFunctionOnSet(f, S) = f[x] + SumFunctionOnSet(f, S \ {x})
  <2> DEFINE x == CHOOSE x \in S : TRUE
             r == S \ {x}
             h == [s \in SUBSET r |-> g[s]]
  <2>1. x \in S /\ IsFiniteSet(r)
    BY <1>3, FS_RemoveElement
  <2>2. Sums(h, f, r)
    <3>1. ASSUME NEW s \in SUBSET r
          PROVE  h[s] = IF s = {} THEN 0
                        ELSE LET y == CHOOSE y \in s : TRUE IN f[y] + h[s \ {y}]
      <4>1. s \in SUBSET S /\ h[s] = g[s] /\ \A y : h[s \ {y}] = g[s \ {y}]
        OBVIOUS
      <4>2. g[s] = IF s = {} THEN 0
                   ELSE LET y == CHOOSE y \in s : TRUE IN f[y] + g[s \ {y}]
        BY <1>1, <4>1 DEF Sums
      <4> QED
        BY <4>1, <4>2
    <3>2. h = [s \in SUBSET r |-> h[s]]
      OBVIOUS
    <3> HIDE DEF h
    <3> QED
      BY <3>1, <3>2 DEF Sums
  <2>3. SumFunctionOnSet(f, r) = g[r]
    <3>1. h[r] = g[r]
      OBVIOUS
    <3> HIDE DEF h, r
    <3> QED
      BY <2>1, <2>2, <3>1, SumIsSums
  <2>4. g[S] = f[x] + g[r]
    BY <1>1, <1>3 DEF Sums
  <2> QED
    BY <1>2, <2>3, <2>4
<1>4. S = {} => g[S] = 0
  BY <1>1 DEF Sums
<1> QED
  BY <1>2, <1>3, <1>4

\* A sum of integers is an integer, a sum of natural numbers one of them, and
\* any element may be taken out first.
LEMMA SumTakesOut ==
  ASSUME NEW S, IsFiniteSet(S), NEW f, \A x \in S : f[x] \in Int
  PROVE  /\ SumFunctionOnSet(f, S) \in Int
         /\ \A x \in S : SumFunctionOnSet(f, S) = f[x] + SumFunctionOnSet(f, S \ {x})
<1> DEFINE sum(U) == SumFunctionOnSet(f, U)
           Good == {U \in SUBSET S : sum(U) \in Int /\ \A x \in U : sum(U) = f[x] + sum(U \ {x})}
<1> HIDE DEF sum
<1>1. ASSUME NEW U \in SUBSET S, \A V \in (SUBSET U) \ {U} : V \in Good PROVE U \in Good
  <2>1. CASE U = {}
    <3>1. sum(U) = 0
      BY <2>1, FS_EmptySet, SumUnfolds DEF sum
    <3> QED
      BY <2>1, <3>1
  <2>2. CASE U # {}
    <3> DEFINE y == CHOOSE y \in U : TRUE
    <3>1. y \in U /\ f[y] \in Int
      BY <2>2
    <3>2. sum(U) = f[y] + sum(U \ {y})
      <4>1. IsFiniteSet(U)
        BY FS_Subset
      <4> QED
        BY <2>2, <4>1, SumUnfolds DEF sum
    <3> HIDE DEF y
    <3>3. U \ {y} \in Good
      BY <1>1, <3>1
    <3>4. sum(U) \in Int
      BY <3>1, <3>2, <3>3
    <3>5. ASSUME NEW x \in U, x # y PROVE sum(U) = f[x] + sum(U \ {x})
      <4>1. U \ {x} \in Good /\ y \in U \ {x} /\ x \in U \ {y} /\ f[x] \in Int
        BY <1>1, <3>1, <3>5
      <4>2. sum(U \ {x}) = f[y] + sum((U \ {x}) \ {y})
        BY <4>1
      <4>3. sum(U \ {y}) = f[x] + sum((U \ {y}) \ {x})
        BY <3>3, <4>1
      <4>4. (U \ {x}) \ {y} = (U \ {y}) \ {x} /\ (U \ {x}) \ {y} \in Good
        BY <1>1, <3>1
      <4>5. sum((U \ {x}) \ {y}) \in Int
        BY <4>4
      <4> QED
        BY <3>1, <3>2, <4>1, <4>2, <4>3, <4>4, <4>5
    <3> QED
      BY <3>2, <3>4, <3>5
  <2> QED
    BY <2>1, <2>2
<1>2. S \in Good
  <2>1. \A U \in SUBSET S : U \in Good
    <3> HIDE DEF Good
    <3> QED
      BY <1>1, SubsetInduction
  <2> QED
    BY <2>1
<1> QED
  BY <1>2 DEF sum

LEMMA SumIsNat ==
  ASSUME NEW S, IsFiniteSet(S), NEW f, \A x \in S : f[x] \in Nat
  PROVE  SumFunctionOnSet(f, S) \in Nat
<1> DEFINE sum(U) == SumFunctionOnSet(f, U)
           Good == {U \in SUBSET S : sum(U) \in Nat}
<1>1. ASSUME NEW U \in SUBSET S, \A V \in (SUBSET U) \ {U} : V \in Good PROVE U \in Good
  <2>1. IsFiniteSet(U) /\ \A x \in U : f[x] \in Int
    BY FS_Subset
  <2>2. CASE U = {}
    BY <2>1, <2>2, SumUnfolds
  <2>3. ASSUME NEW x \in U PROVE U \in Good
    <3>1. sum(U) = f[x] + sum(U \ {x})
      BY <2>1, SumTakesOut
    <3>2. U \ {x} \in Good
      BY <1>1
    <3> QED
      BY <3>1, <3>2
  <2> QED
    BY <2>2, <2>3
<1>2. \A U \in SUBSET S : U \in Good
  <2> HIDE DEF Good
  <2> QED
    BY <1>1, SubsetInduction
<1> QED
  BY <1>2

\* Two functions that agree on S have the same sum over it.
LEMMA SumAgrees ==
  ASSUME NEW S, IsFiniteSet(S), NEW f, NEW g,
         \A x \in S : f[x] \in Int /\ f[x] = g[x]
  PROVE  SumFunctionOnSet(f, S) = SumFunctionOnSet(g, S)
<1> DEFINE Good == {U \in SUBSET S : SumFunctionOnSet(f, U) = SumFunctionOnSet(g, U)}
<1>1. ASSUME NEW U \in SUBSET S, \A V \in (SUBSET U) \ {U} : V \in Good PROVE U \in Good
  <2>1. IsFiniteSet(U) /\ (\A x \in U : f[x] \in Int) /\ (\A x \in U : g[x] \in Int)
    BY FS_Subset
  <2>2. CASE U = {}
    BY <2>1, <2>2, SumUnfolds
  <2>3. ASSUME NEW x \in U PROVE U \in Good
    <3>1. /\ SumFunctionOnSet(f, U) = f[x] + SumFunctionOnSet(f, U \ {x})
          /\ SumFunctionOnSet(g, U) = g[x] + SumFunctionOnSet(g, U \ {x})
      BY <2>1, SumTakesOut
    <3>2. U \ {x} \in Good
      BY <1>1
    <3> QED
      BY <3>1, <3>2
  <2> QED
    BY <2>2, <2>3
<1>2. \A U \in SUBSET S : U \in Good
  <2> HIDE DEF Good
  <2> QED
    BY <1>1, SubsetInduction
<1> QED
  BY <1>2

\* The sum over two sets without a common element.
LEMMA SumSplits ==
  ASSUME NEW S, IsFiniteSet(S), NEW f, \A x \in S : f[x] \in Int,
         NEW T \in SUBSET S
  PROVE  SumFunctionOnSet(f, S) = SumFunctionOnSet(f, T) + SumFunctionOnSet(f, S \ T)
<1> DEFINE sum(U) == SumFunctionOnSet(f, U)
           Good == {U \in SUBSET T : sum(S \ (T \ U)) = sum(U) + sum(S \ T)}
<1> HIDE DEF sum
<1>0. IsFiniteSet(T) /\ \A U \in SUBSET S : IsFiniteSet(U) /\ sum(U) \in Int
  <2>1. ASSUME NEW U \in SUBSET S PROVE IsFiniteSet(U) /\ sum(U) \in Int
    BY FS_Subset, SumTakesOut DEF sum
  <2> QED
    BY <2>1
<1>1. ASSUME NEW U \in SUBSET T, \A V \in (SUBSET U) \ {U} : V \in Good PROVE U \in Good
  <2>1. CASE U = {}
    <3>1. sum(U) = 0
      BY <2>1, FS_EmptySet, SumUnfolds DEF sum
    <3>2. sum(S \ (T \ U)) = sum(S \ T) /\ sum(S \ T) \in Int
      <4>1. S \ (T \ U) = S \ T
        BY <2>1
      <4> QED
        BY <1>0, <4>1
    <3> QED
      BY <3>1, <3>2
  <2>2. ASSUME NEW x \in U PROVE U \in Good
    <3> DEFINE V == U \ {x}
               L == S \ (T \ U)
    <3>1. V \in Good
      BY <1>1, <2>2
    <3>2. sum(U) = f[x] + sum(V)
      BY <1>0, <2>2, SumTakesOut DEF sum
    <3>3. sum(L) = f[x] + sum(L \ {x})
      <4>1. IsFiniteSet(L) /\ x \in L /\ \A z \in L : f[z] \in Int
        BY <1>0, <2>2
      <4> QED
        BY <4>1, SumTakesOut DEF sum
    <3>4. L \ {x} = S \ (T \ V)
      BY <2>2
    <3>5. f[x] \in Int /\ sum(V) \in Int /\ sum(S \ T) \in Int
      BY <1>0, <2>2
    <3>6. sum(L) = sum(U) + sum(S \ T)
      <4>1. sum(S \ (T \ V)) = sum(V) + sum(S \ T)
        BY <3>1
      <4>2. sum(L \ {x}) = sum(V) + sum(S \ T)
        BY <3>4, <4>1, Zenon
      <4> HIDE DEF V, L, Good
      <4> QED
        BY <3>2, <3>3, <3>5, <4>2
    <3> QED
      BY <3>6
  <2> QED
    BY <2>1, <2>2
<1>2. \A U \in SUBSET T : U \in Good
  <2> HIDE DEF Good
  <2> QED
    BY <1>0, <1>1, SubsetInduction
<1>3. T \in Good
  BY <1>2
<1>4. S \ (T \ T) = S
  OBVIOUS
<1> QED
  BY <1>3, <1>4 DEF sum

\* A sum of ones and zeros counts.
LEMMA SumCounts ==
  ASSUME NEW S, IsFiniteSet(S), NEW T, NEW f, \A x \in S : f[x] = IF x \in T THEN 1 ELSE 0
  PROVE  SumFunctionOnSet(f, S) = Cardinality(S \cap T)
<1> DEFINE Good == {U \in SUBSET S : SumFunctionOnSet(f, U) = Cardinality(U \cap T)}
<1>1. ASSUME NEW U \in SUBSET S, \A V \in (SUBSET U) \ {U} : V \in Good PROVE U \in Good
  <2>1. IsFiniteSet(U) /\ IsFiniteSet(U \cap T) /\ \A x \in U : f[x] \in Int
    BY FS_Subset
  <2>2. CASE U = {}
    <3>1. SumFunctionOnSet(f, U) = 0
      BY <2>1, <2>2, SumUnfolds
    <3>2. Cardinality(U \cap T) = 0
      BY <2>1, <2>2, FS_EmptySet
    <3> QED
      BY <3>1, <3>2
  <2>3. ASSUME NEW x \in U PROVE U \in Good
    <3>1. SumFunctionOnSet(f, U) = f[x] + SumFunctionOnSet(f, U \ {x})
      BY <2>1, SumTakesOut
    <3>2. SumFunctionOnSet(f, U \ {x}) = Cardinality((U \ {x}) \cap T)
      BY <1>1
    <3>3. (U \ {x}) \cap T = (U \cap T) \ {x}
      OBVIOUS
    <3>4. /\ Cardinality((U \cap T) \ {x})
               = IF x \in T THEN Cardinality(U \cap T) - 1 ELSE Cardinality(U \cap T)
          /\ Cardinality(U \cap T) \in Nat
      BY <2>1, FS_RemoveElement, FS_CardinalityType
    <3>5. SumFunctionOnSet(f, U) = Cardinality(U \cap T)
      BY <3>1, <3>2, <3>3, <3>4
    <3> QED
      BY <3>5
  <2> QED
    BY <2>2, <2>3
<1>2. \A U \in SUBSET S : U \in Good
  <2> HIDE DEF Good
  <2> QED
    BY <1>1, SubsetInduction
<1> QED
  BY <1>2

\* Sums are as near to one another as their terms allow.
LEMMA SumsStayNear ==
  ASSUME NEW S, IsFiniteSet(S), NEW f, NEW g, NEW h,
         \A x \in S : f[x] \in Int /\ g[x] \in Int /\ h[x] \in Int,
         \A x \in S : WithinHalf(f[x], Scale * g[x], h[x])
  PROVE  WithinHalf(SumFunctionOnSet(f, S), Scale * SumFunctionOnSet(g, S), SumFunctionOnSet(h, S))
<1> DEFINE Good == {U \in SUBSET S :
                      WithinHalf(SumFunctionOnSet(f, U), Scale * SumFunctionOnSet(g, U),
                                 SumFunctionOnSet(h, U))}
<1>1. ASSUME NEW U \in SUBSET S, \A V \in (SUBSET U) \ {U} : V \in Good PROVE U \in Good
  <2>1. /\ IsFiniteSet(U) /\ (\A x \in U : f[x] \in Int)
        /\ (\A x \in U : g[x] \in Int) /\ (\A x \in U : h[x] \in Int)
    BY FS_Subset
  <2>2. CASE U = {}
    <3>1. /\ SumFunctionOnSet(f, U) = 0 /\ SumFunctionOnSet(g, U) = 0
          /\ SumFunctionOnSet(h, U) = 0
      BY <2>1, <2>2, SumUnfolds
    <3> QED
      BY <3>1 DEF WithinHalf, Scale
  <2>3. ASSUME NEW x \in U PROVE U \in Good
    <3> DEFINE V == U \ {x}
    <3>1. /\ SumFunctionOnSet(f, U) = f[x] + SumFunctionOnSet(f, V)
          /\ SumFunctionOnSet(g, U) = g[x] + SumFunctionOnSet(g, V)
          /\ SumFunctionOnSet(h, U) = h[x] + SumFunctionOnSet(h, V)
      BY <2>1, SumTakesOut
    <3>2. /\ SumFunctionOnSet(f, V) \in Int /\ SumFunctionOnSet(g, V) \in Int
          /\ SumFunctionOnSet(h, V) \in Int
      <4>1. /\ IsFiniteSet(V) /\ (\A z \in V : f[z] \in Int)
            /\ (\A z \in V : g[z] \in Int) /\ (\A z \in V : h[z] \in Int)
        BY <2>1, FS_Subset
      <4> HIDE DEF V
      <4> QED
        BY <4>1, SumTakesOut
    <3>3. WithinHalf(SumFunctionOnSet(f, V), Scale * SumFunctionOnSet(g, V), SumFunctionOnSet(h, V))
      BY <1>1
    <3>4. f[x] \in Int /\ g[x] \in Int /\ h[x] \in Int /\ WithinHalf(f[x], Scale * g[x], h[x])
      OBVIOUS
    <3> HIDE DEF V
    <3>5. WithinHalf(SumFunctionOnSet(f, U), Scale * SumFunctionOnSet(g, U), SumFunctionOnSet(h, U))
      BY <3>1, <3>2, <3>3, <3>4 DEF WithinHalf, Scale
    <3> QED
      BY <3>5
  <2> QED
    BY <2>2, <2>3
<1>2. \A U \in SUBSET S : U \in Good
  <2> HIDE DEF Good
  <2> QED
    BY <1>1, SubsetInduction
<1> QED
  BY <1>2

\* part divides S into non-empty parts, one for each element of X.
Divides(part, X, S) ==
  /\ \A x \in X : part[x] \subseteq S /\ part[x] # {}
  /\ \A c \in S : \E x \in X : c \in part[x]
  /\ \A x \in X, y \in X : x # y => part[x] \cap part[y] = {}

\* Summed part by part, a sum over a partitioned set is what it was.
LEMMA SumByParts ==
  ASSUME NEW S, IsFiniteSet(S), NEW f, \A c \in S : f[c] \in Int,
         NEW X, NEW part, Divides(part, X, S),
         NEW g, \A x \in X : g[x] = SumFunctionOnSet(f, part[x])
  PROVE  IsFiniteSet(X) /\ SumFunctionOnSet(g, X) = SumFunctionOnSet(f, S)
<1> DEFINE key == [c \in S |-> CHOOSE x \in X : c \in part[x]]
           With(Y) == {c \in S : key[c] \in Y}
           Good == {Y \in SUBSET X : SumFunctionOnSet(g, Y) = SumFunctionOnSet(f, With(Y))}
<1>0. /\ \A c \in S : key[c] \in X /\ c \in part[key[c]]
      /\ \A x \in X : \A c \in part[x] : c \in S /\ key[c] = x
  <2>1. \A c \in S : key[c] \in X /\ c \in part[key[c]]
    BY DEF Divides
  <2> HIDE DEF key
  <2> QED
    BY <2>1 DEF Divides
<1>1. IsFiniteSet(X)
  <2>1. key \in Surjection(S, X)
    <3>1. key \in [S -> X]
      BY <1>0
    <3>2. \A x \in X : \E c \in S : key[c] = x
      BY <1>0 DEF Divides
    <3> HIDE DEF key
    <3> QED
      BY <3>1, <3>2 DEF Surjection
  <2> QED
    BY <2>1, FS_Surjection
<1> HIDE DEF key
<1>2. \A T \in SUBSET S : IsFiniteSet(T) /\ SumFunctionOnSet(f, T) \in Int
  <2>1. ASSUME NEW T \in SUBSET S PROVE IsFiniteSet(T) /\ SumFunctionOnSet(f, T) \in Int
    BY FS_Subset, SumTakesOut
  <2> QED
    BY <2>1
<1>3. \A x \in X : g[x] \in Int
  BY <1>2 DEF Divides
<1>4. ASSUME NEW Y \in SUBSET X, \A V \in (SUBSET Y) \ {Y} : V \in Good PROVE Y \in Good
  <2>1. IsFiniteSet(Y) /\ \A x \in Y : g[x] \in Int
    BY <1>1, <1>3, FS_Subset
  <2>2. CASE Y = {}
    <3>1. With(Y) = {} /\ IsFiniteSet(With(Y))
      BY <2>2, FS_EmptySet
    <3>2. SumFunctionOnSet(f, With(Y)) = 0
      BY <3>1, SumUnfolds
    <3>3. SumFunctionOnSet(g, Y) = 0
      BY <2>1, <2>2, SumUnfolds
    <3> QED
      BY <3>2, <3>3
  <2>3. ASSUME NEW x \in Y PROVE Y \in Good
    <3>1. SumFunctionOnSet(g, Y) = g[x] + SumFunctionOnSet(g, Y \ {x})
      BY <2>1, <2>3, SumTakesOut
    <3>2. SumFunctionOnSet(g, Y \ {x}) = SumFunctionOnSet(f, With(Y \ {x}))
      BY <1>4, <2>3
    <3>3. With(Y) \in SUBSET S /\ part[x] \in SUBSET With(Y) /\ With(Y) \ part[x] = With(Y \ {x})
      BY <1>0, <2>3
    <3>4. g[x] = SumFunctionOnSet(f, part[x])
      OBVIOUS
    <3> HIDE DEF With
    <3>5. SumFunctionOnSet(f, With(Y))
            = SumFunctionOnSet(f, part[x]) + SumFunctionOnSet(f, With(Y) \ part[x])
      <4>1. IsFiniteSet(With(Y)) /\ \A c \in With(Y) : f[c] \in Int
        BY <1>2, <3>3
      <4> QED
        BY <3>3, <4>1, SumSplits
    <3>6. SumFunctionOnSet(g, Y) = SumFunctionOnSet(f, With(Y))
      BY <3>1, <3>2, <3>3, <3>4, <3>5
    <3> QED
      BY <3>6
  <2> QED
    BY <2>2, <2>3
<1>5. \A Y \in SUBSET X : Y \in Good
  <2>1. \A Y \in SUBSET X : (\A V \in (SUBSET Y) \ {Y} : V \in Good) => Y \in Good
    BY <1>4
  <2> HIDE DEF Good
  <2> QED
    BY <1>1, <2>1, SubsetInduction
<1>6. With(X) = S
  BY <1>0
<1>7. X \in Good
  BY <1>5
<1> QED
  BY <1>1, <1>6, <1>7

-------------------------------------------------------------------------------
(* What a row says of a set of entries.                                     *)

Made == {c \in Calls : stage[c] # "unused"}

Engines == {"mysql", "postgres"}

\* What the entries of calls already made say of them.
LEMMA EntriesOf ==
  ASSUME TypeOK, EntriesAreTrue, NEW S \in SUBSET Made
  PROVE  /\ IsFiniteSet(S) /\ Cardinality(S) \in Nat /\ (S # {} => Cardinality(S) # 0)
         /\ \A c \in S : entry[c].duration = Took[c] /\ Took[c] \in Nat
         /\ Duration(S) = SumFunctionOnSet(Took, S)
         /\ Duration(S) \in Nat
<1>1. IsFiniteSet(S) /\ Cardinality(S) \in Nat /\ (S # {} => Cardinality(S) # 0)
  <2>1. IsFiniteSet(S)
    BY CallsAreFinite, FS_Subset DEF Made
  <2> QED
    BY <2>1, FS_CardinalityType, FS_EmptySet
<1>2. \A c \in S : entry[c].duration = Took[c] /\ Took[c] \in Nat
  <2> SUFFICES ASSUME NEW c \in S PROVE entry[c].duration = Took[c] /\ Took[c] \in Nat
    OBVIOUS
  <2>1. c \in Calls /\ stage[c] # "unused"
    BY DEF Made
  <2>2. entry[c] = [endpoint |-> extractEndpoint(call[c].path),
                    success  |-> Succeeded(call[c].answer),
                    duration |-> Took[c]]
    BY <2>1 DEF EntriesAreTrue
  <2>3. entry[c].duration = Took[c]
    BY <2>2
  <2> QED
    BY <2>1, <2>3, TimesAreCounted
<1> DEFINE f == [c \in S |-> entry[c].duration]
<1>3. Duration(S) = SumFunctionOnSet(f, S)
  BY DEF Duration, SumFunction
<1>4. \A c \in S : f[c] \in Int /\ f[c] = Took[c]
  BY <1>2
<1> HIDE DEF f
<1>5. SumFunctionOnSet(f, S) = SumFunctionOnSet(Took, S)
  BY <1>1, <1>4, SumAgrees
<1>6. SumFunctionOnSet(Took, S) \in Nat
  BY <1>1, <1>2, SumIsNat
<1> QED
  BY <1>1, <1>2, <1>3, <1>5, <1>6

\* What a rounded fraction is, and that division undoes multiplication.
LEMMA Rounding ==
  ASSUME NEW n \in Nat, NEW d \in Nat \ {0}
  PROVE  Rounded(n, d) \in Nat /\ WithinHalf(d * Rounded(n, d), n, d)
<1> DEFINE m == 2 * n + d
           k == 2 * d
           q == m \div k
<1>1. m \in Nat /\ k \in Nat \ {0}
  OBVIOUS
<1>2. q \in Nat /\ k * q <= m /\ m < k * q + k
  <2> HIDE DEF m, k
  <2> QED
    BY <1>1
<1>3. k * q = 2 * (d * q) /\ d * q \in Nat
  BY <1>2
<1> HIDE DEF q
<1>4. WithinHalf(d * q, n, d)
  BY <1>2, <1>3 DEF WithinHalf
<1> QED
  BY <1>2, <1>4 DEF Rounded, q

LEMMA Undone ==
  ASSUME NEW n \in Nat, NEW d \in Nat \ {0}
  PROVE  (n * d) \div d = n
OBVIOUS

\* The two averages.
Decimal(S)  == [num |-> Rounded(Scale * Duration(S), Cardinality(S)), den |-> Scale]
Fraction(S) == [num |-> Duration(S), den |-> Cardinality(S)]

LEMMA AveragesOf ==
  ASSUME TypeOK, EntriesAreTrue, NEW S \in SUBSET Made, S # {}
  PROVE  /\ Decimal(S) \in Averages /\ Fraction(S) \in Averages
         /\ WithinHalf(Cardinality(S) * Decimal(S).num, Scale * Duration(S), Cardinality(S))
<1>1. Duration(S) \in Nat /\ Cardinality(S) \in Nat \ {0}
  BY EntriesOf
<1>2. Scale * Duration(S) \in Nat
  BY <1>1 DEF Scale
<1>3. /\ Rounded(Scale * Duration(S), Cardinality(S)) \in Nat
      /\ WithinHalf(Cardinality(S) * Rounded(Scale * Duration(S), Cardinality(S)),
                    Scale * Duration(S), Cardinality(S))
  BY <1>1, <1>2, Rounding
<1> QED
  BY <1>1, <1>3 DEF Decimal, Fraction, Averages, Scale

\* A row over S in full, and over which S there is one.
LEMMA RowIs ==
  ASSUME TypeOK, EntriesAreTrue, NEW S \in SUBSET Made, NEW e \in Engines
  PROVE  /\ Scans(e, Avg(e, S)) <=> e = "mysql" \/ S # {}
         /\ Row(e, S).total = Cardinality(S)
         /\ Row(e, S).successful = Cardinality({c \in S : Succeeded(call[c].answer)})
         /\ Row(e, S).failed = Cardinality({c \in S : ~Succeeded(call[c].answer)})
         /\ S # {} /\ e = "mysql" => Row(e, S).avg = Decimal(S)
         /\ S # {} /\ e = "postgres" => Row(e, S).avg = Fraction(S)
         /\ S = {} /\ e = "mysql" => Row(e, S).avg = [num |-> 0, den |-> 1]
         /\ Scans(e, Avg(e, S)) => Row(e, S) \in RowType
<1>1. \A c \in S : entry[c].success = Succeeded(call[c].answer)
  <2> SUFFICES ASSUME NEW c \in S PROVE entry[c].success = Succeeded(call[c].answer)
    OBVIOUS
  <2>1. c \in Calls /\ stage[c] # "unused"
    BY DEF Made
  <2>2. entry[c] = [endpoint |-> extractEndpoint(call[c].path),
                    success  |-> Succeeded(call[c].answer),
                    duration |-> Took[c]]
    BY <2>1 DEF EntriesAreTrue
  <2> QED
    BY <2>2
<1>2. /\ Successful(S) = {c \in S : Succeeded(call[c].answer)}
      /\ Failed(S) = {c \in S : ~Succeeded(call[c].answer)}
  BY <1>1, Zenon DEF Successful, Failed
<1>3. /\ Row(e, S).total = Cardinality(S)
      /\ Row(e, S).successful = Cardinality({c \in S : Succeeded(call[c].answer)})
      /\ Row(e, S).failed = Cardinality({c \in S : ~Succeeded(call[c].answer)})
  BY <1>2 DEF Row
<1>4. ASSUME S # {}
      PROVE  /\ Avg(e, S) # NULL
             /\ Row(e, S).avg = IF e = "mysql" THEN Decimal(S) ELSE Fraction(S)
  <2> DEFINE avg == IF e = "mysql" THEN Decimal(S) ELSE Fraction(S)
             type == IF e = "mysql" THEN "[]byte" ELSE "float64"
  <2>1. avg \in Averages
    BY <1>4, AveragesOf
  <2>2. Avg(e, S) = [type |-> type, num |-> avg.num, den |-> avg.den]
    BY <1>4 DEF Avg, Decimal, Fraction
  <2>3. avg.num \in Nat /\ avg.den \in Nat /\ avg = [num |-> avg.num, den |-> avg.den]
    <3> HIDE DEF avg
    <3> QED
      BY <2>1 DEF Averages
  <2>4. type \in {"[]byte", "float64"} /\ (type = "[]byte" <=> e = "mysql")
    OBVIOUS
  <2> HIDE DEF avg, type
  <2>5. Avg(e, S) # NULL
    BY <2>2, <2>3, <2>4, NullIsNoAverage
  <2>6. Average(e, Avg(e, S)) = [num |-> avg.num, den |-> avg.den]
    BY <2>2, <2>4, <2>5 DEF Average, asFloat64
  <2>7. Row(e, S).avg = avg
    BY <2>3, <2>6 DEF Row
  <2> QED
    BY <2>5, <2>7 DEF avg
<1>5. S = {} => Avg(e, S) = NULL
  BY DEF Avg
<1>6. S = {} /\ e = "mysql" => Row(e, S).avg = [num |-> 0, den |-> 1]
  BY <1>5 DEF Row, Average, asFloat64
<1>7. Scans(e, Avg(e, S)) <=> e = "mysql" \/ S # {}
  BY <1>4, <1>5 DEF Scans
<1>8. ASSUME Scans(e, Avg(e, S)) PROVE Row(e, S) \in RowType
  <2>1. Row(e, S).avg \in Averages
    <3>1. CASE S # {}
      BY <1>4, <3>1, AveragesOf
    <3>2. CASE S = {}
      BY <1>6, <1>7, <1>8, <3>2 DEF Averages
    <3> QED
      BY <3>1, <3>2
  <2>2. ASSUME NEW T \in SUBSET S PROVE Cardinality(T) \in Nat
    <3>1. T \in SUBSET Made
      OBVIOUS
    <3> QED
      BY <3>1, EntriesOf
  <2>3. Cardinality(S) \in Nat /\ Cardinality(Successful(S)) \in Nat /\ Cardinality(Failed(S)) \in Nat
    BY <2>2 DEF Successful, Failed
  <2> QED
    BY <2>1, <2>3 DEF Row, RowType
<1> QED
  BY <1>3, <1>4, <1>6, <1>7, <1>8 DEF Engines

\* The time a row stands for is that of its entries, up to rounding.
LEMMA SpentIs ==
  ASSUME TypeOK, EntriesAreTrue, NEW S \in SUBSET Made, NEW e \in Engines,
         Scans(e, Avg(e, S))
  PROVE  /\ Spent(Row(e, S)) \in Nat
         /\ WithinHalf(Spent(Row(e, S)), Scale * Duration(S), Cardinality(S))
<1>1. Row(e, S).total = Cardinality(S) /\ Cardinality(S) \in Nat /\ Duration(S) \in Nat
  BY RowIs, EntriesOf
<1>2. CASE S # {} /\ e = "mysql"
  <2> DEFINE n == Decimal(S).num
  <2>1. Row(e, S).avg = Decimal(S) /\ Decimal(S).den = Scale
    BY <1>2, RowIs DEF Decimal
  <2>2. n \in Nat /\ WithinHalf(Cardinality(S) * n, Scale * Duration(S), Cardinality(S))
    BY <1>2, AveragesOf DEF Averages
  <2> HIDE DEF n
  <2>3. Scale * n * Cardinality(S) = (Cardinality(S) * n) * Scale /\ Cardinality(S) * n \in Nat
    BY <1>1, <2>2 DEF Scale
  <2>4. ((Cardinality(S) * n) * Scale) \div Scale = Cardinality(S) * n
    BY <2>3, Undone DEF Scale
  <2>5. Spent(Row(e, S)) = (Scale * n * Cardinality(S)) \div Scale
    BY <1>1, <2>1 DEF Spent, n
  <2> QED
    BY <2>2, <2>3, <2>4, <2>5
<1>3. CASE S # {} /\ e = "postgres"
  <2>1. /\ Row(e, S).avg.num = Duration(S) /\ Row(e, S).avg.den = Cardinality(S)
        /\ Cardinality(S) # 0 /\ Scale * Duration(S) \in Nat
    <3>1. Row(e, S).avg = Fraction(S)
      BY <1>3, RowIs
    <3>2. Cardinality(S) # 0
      BY <1>3, EntriesOf
    <3> QED
      BY <1>1, <3>1, <3>2 DEF Fraction, Scale
  <2>2. Spent(Row(e, S)) = Scale * Duration(S)
    BY <1>1, <2>1, Undone DEF Spent
  <2> QED
    BY <1>1, <2>1, <2>2 DEF WithinHalf
<1>4. CASE S = {}
  <2>1. e = "mysql" /\ Row(e, S).avg = [num |-> 0, den |-> 1]
    BY <1>4, RowIs
  <2>2. Cardinality(S) = 0
    BY <1>4, FS_EmptySet
  <2>3. Duration(S) = 0
    <3>1. Duration(S) = SumFunctionOnSet(Took, S) /\ IsFiniteSet(S)
      BY EntriesOf
    <3> QED
      BY <1>4, <3>1, SumUnfolds
  <2>4. Spent(Row(e, S)) = 0
    BY <1>1, <2>1, <2>2 DEF Spent, Scale
  <2> QED
    BY <2>2, <2>3, <2>4 DEF WithinHalf, Scale
<1> QED
  BY <1>2, <1>3, <1>4 DEF Engines

\* The totals of a set of entries stay what they are while its entries do.
LEMMA TotalsStay ==
  ASSUME engine' = engine, counted' = counted, \A c \in counted : entry'[c] = entry[c]
  PROVE  /\ Row(engine, counted)' = Row(engine, counted)
         /\ Scans(engine, Avg(engine, counted))' = Scans(engine, Avg(engine, counted))
<1>1. [c \in counted |-> entry'[c].duration] = [c \in counted |-> entry[c].duration]
  OBVIOUS
<1>2. Duration(counted)' = Duration(counted)
  BY <1>1 DEF Duration
<1>3. Avg(engine, counted)' = Avg(engine, counted)
  BY <1>2 DEF Avg
<1>4. Successful(counted)' = Successful(counted) /\ Failed(counted)' = Failed(counted)
  BY DEF Successful, Failed
<1> QED
  BY <1>3, <1>4 DEF Row, Scans, Average, asFloat64

\* The rows per endpoint are rows.
LEMMA RowsAreRows ==
  ASSUME TypeOK, EntriesAreTrue, NEW S \in SUBSET Made, NEW e \in Engines
  PROVE  \A x \in DOMAIN Rows(e, S) : Rows(e, S)[x] \in RowType
<1> SUFFICES ASSUME NEW x \in DOMAIN Rows(e, S) PROVE Rows(e, S)[x] \in RowType
  OBVIOUS
<1> DEFINE T == {c \in S : entry[c].endpoint = x}
<1>1. Rows(e, S)[x] = Row(e, T)
  BY DEF Rows
<1>2. T # {} /\ T \in SUBSET Made
  BY DEF Rows
<1> HIDE DEF T
<1>3. Scans(e, Avg(e, T))
  BY <1>2, RowIs
<1>4. Row(e, T) \in RowType
  BY <1>2, <1>3, RowIs
<1> QED
  BY <1>1, <1>4

-------------------------------------------------------------------------------
(* The inductive invariant.                                                 *)

\* The endpoints that the Graph client's writers use are those the transport
\* would have found.
LEMMA ClientEndpoints ==
  /\ extractEndpoint(<<"users">>) = <<"users">>
  /\ extractEndpoint(<<"me", "messages">>) = <<"me", "messages">>
BY DEF extractEndpoint

\* Handing over an entry that is true of its call keeps the invariant.
LEMMA HandKeeps ==
  ASSUME IInv, NEW c \in Calls, NEW path \in PathsUsed, NEW answer \in Answers, NEW said,
         said = [endpoint |-> extractEndpoint(path), success |-> Succeeded(answer),
                 duration |-> Took[c]],
         Hand(c, path, answer, said)
  PROVE  IInv'
<1>1. /\ stage[c] = "unused"
      /\ stage' = [stage EXCEPT ![c] = "logging"]
      /\ call' = [call EXCEPT ![c] = [path |-> path, answer |-> answer]]
      /\ entry' = [entry EXCEPT ![c] = said]
      /\ UNCHANGED <<engine, window, counted, phase, stats, endpoints, excuse>>
  BY DEF Hand, page
<1>2. TypeOK /\ EntriesAreTrue /\ TotalsAreCounted /\ RefusalsHaveCauses
  BY DEF IInv
<1>3. /\ stage'[c] = "logging" /\ entry'[c] = said
      /\ call'[c] = [path |-> path, answer |-> answer]
      /\ \A d \in Calls \ {c} : /\ stage'[d] = stage[d] /\ call'[d] = call[d]
                                /\ entry'[d] = entry[d]
  BY <1>1, <1>2 DEF TypeOK
<1>4. call'[c] \in CallType /\ said \in EntryType
  <2>1. call'[c] \in CallType
    BY <1>3 DEF CallType
  <2>2. Took[c] \in Nat /\ Succeeded(answer) \in BOOLEAN
    BY TimesAreCounted DEF Succeeded
  <2>3. extractEndpoint(path) \in {extractEndpoint(p) : p \in PathsUsed}
    OBVIOUS
  <2> QED
    BY <2>1, <2>2, <2>3 DEF EntryType
<1>5. TypeOK'
  <2>1. /\ stage' \in [Calls -> Stages] /\ call' \in [Calls -> CallType \cup {NULL}]
        /\ entry' \in [Calls -> EntryType \cup {NULL}]
    BY <1>1, <1>2, <1>3, <1>4 DEF TypeOK, Stages
  <2>2. \A d \in Calls : IF stage'[d] = "unused" THEN call'[d] = NULL /\ entry'[d] = NULL
                         ELSE call'[d] \in CallType /\ entry'[d] \in EntryType
    BY <1>2, <1>3, <1>4 DEF TypeOK
  <2>3. window' \subseteq {d \in Calls : stage'[d] # "unused"}
    BY <1>1, <1>2, <1>3 DEF TypeOK
  <2> QED
    BY <1>1, <1>2, <2>1, <2>2, <2>3 DEF TypeOK
<1>6. EntriesAreTrue'
  <2> SUFFICES ASSUME NEW d \in Calls, stage'[d] # "unused"
               PROVE  entry'[d] = [endpoint |-> extractEndpoint(call'[d].path),
                                   success  |-> Succeeded(call'[d].answer),
                                   duration |-> Took[d]]
    BY DEF EntriesAreTrue
  <2>1. CASE d = c
    BY <1>3, <2>1
  <2>2. CASE d # c
    BY <1>2, <1>3, <2>2 DEF EntriesAreTrue
  <2> QED
    BY <2>1, <2>2
<1>7. TotalsAreCounted'
  <2>1. \A d \in counted : entry'[d] = entry[d]
    BY <1>1, <1>2, <1>3 DEF TypeOK
  <2>2. /\ Row(engine, counted)' = Row(engine, counted)
        /\ Scans(engine, Avg(engine, counted))' = Scans(engine, Avg(engine, counted))
    BY <1>1, <2>1, TotalsStay
  <2> QED
    BY <1>1, <1>2, <2>2 DEF TotalsAreCounted
<1> QED
  BY <1>1, <1>2, <1>5, <1>6, <1>7 DEF IInv, RefusalsHaveCauses

\* An entry that is stored or removed is what it was.
LEMMA MovingKeeps ==
  ASSUME IInv, UNCHANGED <<engine, call, entry, page>>, stage' \in [Calls -> Stages],
         \A c \in Calls : stage'[c] = "unused" <=> stage[c] = "unused"
  PROVE  IInv'
<1>1. UNCHANGED <<engine, call, entry, window, counted, phase, stats, endpoints, excuse>>
  BY DEF page
<1>2. TypeOK' /\ EntriesAreTrue'
  BY <1>1 DEF IInv, TypeOK, EntriesAreTrue
<1>3. TotalsAreCounted'
  <2>1. /\ Row(engine, counted)' = Row(engine, counted)
        /\ Scans(engine, Avg(engine, counted))' = Scans(engine, Avg(engine, counted))
    BY <1>1, TotalsStay
  <2> QED
    BY <1>1, <2>1 DEF IInv, TotalsAreCounted
<1> QED
  BY <1>1, <1>2, <1>3 DEF IInv, RefusalsHaveCauses

\* A step of the page leaves the entries true.
LEMMA ReadingLeavesEntries ==
  ASSUME IInv, UNCHANGED <<engine, calls>>
  PROVE  /\ EntriesAreTrue' /\ Made' = Made
         /\ UNCHANGED <<engine, call, entry, stage>>
BY DEF IInv, EntriesAreTrue, Made, calls

\* The first query of the page.
LEMMA StatsKeep ==
  ASSUME IInv, GetAPILogStats
  PROVE  IInv'
<1>1. /\ phase = "stats" /\ phase' = "endpoints"
      /\ Scans(engine, Avg(engine, InWindow))
      /\ stats' = Row(engine, InWindow) /\ counted' = InWindow
      /\ UNCHANGED <<engine, call, entry, stage, window, endpoints, excuse>>
  BY DEF GetAPILogStats, calls
<1>2. TypeOK /\ EntriesAreTrue /\ engine \in Engines
  BY DEF IInv, TypeOK, Engines
<1>3. InWindow \in SUBSET Made /\ InWindow \subseteq window
  BY <1>2 DEF InWindow, Made, TypeOK
<1>4. stats' \in RowType
  BY <1>1, <1>2, <1>3, RowIs
<1>5. TypeOK'
  BY <1>1, <1>2, <1>3, <1>4 DEF TypeOK, Phases
<1>6. EntriesAreTrue'
  BY <1>1, <1>2 DEF EntriesAreTrue
<1>7. /\ Row(engine, counted)' = Row(engine, InWindow)
      /\ Scans(engine, Avg(engine, counted))' = Scans(engine, Avg(engine, InWindow))
  <2>1. Duration(counted)' = Duration(InWindow)
    BY <1>1 DEF Duration
  <2>2. Avg(engine, counted)' = Avg(engine, InWindow)
    BY <1>1, <2>1 DEF Avg
  <2>3. Successful(counted)' = Successful(InWindow) /\ Failed(counted)' = Failed(InWindow)
    BY <1>1 DEF Successful, Failed
  <2> QED
    BY <1>1, <2>2, <2>3 DEF Row, Scans, Average, asFloat64
<1>8. TotalsAreCounted'
  BY <1>1, <1>7 DEF TotalsAreCounted
<1> QED
  BY <1>1, <1>5, <1>6, <1>8 DEF IInv, RefusalsHaveCauses

\* The second query.
LEMMA EndpointsKeep ==
  ASSUME IInv, GetAPILogStatsByEndpoint
  PROVE  IInv'
<1>1. /\ phase = "endpoints" /\ phase' = "shown"
      /\ endpoints' = Rows(engine, InWindow)
      /\ UNCHANGED <<engine, call, entry, stage, window, stats, counted, excuse>>
  BY DEF GetAPILogStatsByEndpoint, calls
<1>2. TypeOK /\ EntriesAreTrue /\ engine \in Engines
  BY DEF IInv, TypeOK, Engines
<1>3. InWindow \in SUBSET Made
  BY <1>2 DEF InWindow, Made, TypeOK
<1>4. \A x \in DOMAIN endpoints' : endpoints'[x] \in RowType
  BY <1>1, <1>2, <1>3, RowsAreRows
<1>5. TypeOK'
  BY <1>1, <1>2, <1>4 DEF TypeOK, Phases
<1>6. EntriesAreTrue'
  BY <1>1, <1>2 DEF EntriesAreTrue
<1>7. TotalsAreCounted'
  <2>1. /\ Row(engine, counted)' = Row(engine, counted)
        /\ Scans(engine, Avg(engine, counted))' = Scans(engine, Avg(engine, counted))
    BY <1>1, TotalsStay
  <2> QED
    BY <1>1, <2>1 DEF IInv, TotalsAreCounted
<1> QED
  BY <1>1, <1>5, <1>6, <1>7 DEF IInv, RefusalsHaveCauses

\* A page that is asked for, refused or closed has no totals yet or any more.
LEMMA OutsideKeeps ==
  ASSUME IInv, UNCHANGED <<engine, calls>>, Stats \/ StatsDoNotScan \/ QueryFails \/ Close
  PROVE  IInv'
<1>1. EntriesAreTrue' /\ Made' = Made /\ UNCHANGED <<engine, call, entry, stage>>
  BY ReadingLeavesEntries
<1>2. TypeOK /\ TotalsAreCounted /\ RefusalsHaveCauses
  BY DEF IInv
<1>3. CASE Stats
  <2>1. /\ phase = "closed" /\ phase' = "stats" /\ window' = Made
        /\ UNCHANGED <<stats, endpoints, counted, excuse>>
    BY <1>3 DEF Stats, Made
  <2>2. TypeOK'
    BY <1>1, <1>2, <2>1 DEF TypeOK, TotalsAreCounted, Made, Phases
  <2>3. TotalsAreCounted' /\ RefusalsHaveCauses'
    BY <1>2, <2>1 DEF TotalsAreCounted, RefusalsHaveCauses
  <2> QED
    BY <1>1, <2>2, <2>3 DEF IInv
<1>4. CASE StatsDoNotScan
  <2>1. /\ phase = "stats" /\ phase' = "failed" /\ counted' = InWindow
        /\ ~Scans(engine, Avg(engine, InWindow))
        /\ UNCHANGED <<window, stats, endpoints>>
    BY <1>4 DEF StatsDoNotScan, Fail
  <2>2. InWindow \in SUBSET Made /\ InWindow \subseteq window /\ engine \in Engines
    BY <1>2 DEF InWindow, Made, TypeOK, Engines
  <2>3. engine = "postgres" /\ InWindow = {}
    BY <2>1, <2>2, RowIs DEF IInv, Engines
  <2>4. TypeOK'
    BY <1>1, <1>2, <2>1, <2>2 DEF TypeOK, Phases
  <2>5. TotalsAreCounted' /\ RefusalsHaveCauses'
    BY <1>1, <2>1, <2>3 DEF TotalsAreCounted, RefusalsHaveCauses
  <2> QED
    BY <1>1, <2>4, <2>5 DEF IInv
<1>5. CASE QueryFails
  <2>1. /\ phase' = "failed" /\ excuse' = "database"
        /\ UNCHANGED <<window, stats, endpoints, counted>>
    BY <1>5 DEF QueryFails, Fail
  <2>2. TypeOK'
    BY <1>1, <1>2, <2>1 DEF TypeOK, Phases
  <2>3. TotalsAreCounted' /\ RefusalsHaveCauses'
    BY <2>1 DEF TotalsAreCounted, RefusalsHaveCauses
  <2> QED
    BY <1>1, <2>2, <2>3 DEF IInv
<1>6. CASE Close
  <2>1. /\ phase' = "closed" /\ window' = {} /\ stats' = NULL /\ counted' = {}
    BY <1>6 DEF Close
  <2>2. TypeOK'
    BY <1>1, <1>2, <2>1 DEF TypeOK, Phases
  <2>3. TotalsAreCounted' /\ RefusalsHaveCauses'
    BY <2>1 DEF TotalsAreCounted, RefusalsHaveCauses
  <2> QED
    BY <1>1, <2>2, <2>3 DEF IInv
<1> QED
  BY <1>3, <1>4, <1>5, <1>6

LEMMA InitIInv == Init => IInv
<1> SUFFICES ASSUME Init PROVE IInv
  OBVIOUS
<1>1. engine \in {"mysql", "postgres"}
  BY DEF Init, ParseEngine
<1>2. TypeOK
  BY <1>1 DEF Init, TypeOK, Stages, Phases
<1> QED
  BY <1>2 DEF Init, IInv, EntriesAreTrue, TotalsAreCounted, RefusalsHaveCauses

LEMMA StepIInv ==
  ASSUME IInv, [Next]_vars
  PROVE  IInv'
<1>1. ASSUME NEW c \in Calls, NEW answer \in Answers, GetUsers(c, answer) PROVE IInv'
  <2>1. GraphEntry(c, <<"users">>, answer)
          = [endpoint |-> extractEndpoint(<<"users">>), success |-> Succeeded(answer),
             duration |-> Took[c]]
    BY ClientEndpoints DEF GraphEntry
  <2>2. Hand(c, <<"users">>, answer, GraphEntry(c, <<"users">>, answer)) /\ <<"users">> \in PathsUsed
    BY <1>1 DEF GetUsers, PathsUsed
  <2> QED
    BY <2>1, <2>2, HandKeeps
<1>2. ASSUME NEW c \in Calls, NEW answer \in Answers, GetUserMail(c, answer) PROVE IInv'
  <2>1. GraphEntry(c, <<"me", "messages">>, answer)
          = [endpoint |-> extractEndpoint(<<"me", "messages">>), success |-> Succeeded(answer),
             duration |-> Took[c]]
    BY ClientEndpoints DEF GraphEntry
  <2>2. /\ Hand(c, <<"me", "messages">>, answer, GraphEntry(c, <<"me", "messages">>, answer))
        /\ <<"me", "messages">> \in PathsUsed
    BY <1>2 DEF GetUserMail, PathsUsed
  <2> QED
    BY <2>1, <2>2, HandKeeps
<1>3. ASSUME NEW c \in Calls, NEW answer \in Answers, NEW path \in Paths, RoundTrip(c, path, answer)
      PROVE  IInv'
  <2>1. path \in PathsUsed
    BY DEF PathsUsed
  <2> QED
    BY <1>3, <2>1, HandKeeps DEF RoundTrip
<1>4. ASSUME NEW c \in Calls, LogAPICall(c) PROVE IInv'
  <2>1. stage \in [Calls -> Stages] /\ stage[c] = "logging"
        /\ stage' = [stage EXCEPT ![c] = "stored"]
    BY <1>4 DEF LogAPICall, IInv, TypeOK
  <2>2. /\ stage' \in [Calls -> Stages]
        /\ \A d \in Calls : stage'[d] = "unused" <=> stage[d] = "unused"
    BY <2>1 DEF Stages
  <2> QED
    BY <1>4, <2>2, MovingKeeps DEF LogAPICall
<1>5. CASE DeleteOldAPILogs
  <2>1. PICK old \in SUBSET Stored :
          stage' = [c \in Calls |-> IF c \in old THEN "gone" ELSE stage[c]]
    BY <1>5 DEF DeleteOldAPILogs
  <2>2. stage \in [Calls -> Stages] /\ \A c \in old : c \in Calls /\ stage[c] = "stored"
    BY DEF IInv, TypeOK, Stored
  <2>3. /\ stage' \in [Calls -> Stages]
        /\ \A d \in Calls : stage'[d] = "unused" <=> stage[d] = "unused"
    BY <2>1, <2>2 DEF Stages
  <2> QED
    BY <1>5, <2>3, MovingKeeps DEF DeleteOldAPILogs
<1>6. CASE Stats \/ StatsDoNotScan \/ QueryFails \/ Close
  <2>1. UNCHANGED <<engine, calls>>
    BY <1>6 DEF Stats, StatsDoNotScan, QueryFails, Fail, Close
  <2> QED
    BY <1>6, <2>1, OutsideKeeps
<1>7. CASE GetAPILogStats
  BY <1>7, StatsKeep
<1>8. CASE GetAPILogStatsByEndpoint
  BY <1>8, EndpointsKeep
<1>9. CASE UNCHANGED vars
  <2>1. UNCHANGED <<engine, call, entry, page>> /\ stage' = stage
    BY <1>9 DEF vars, calls
  <2>2. stage \in [Calls -> Stages]
    BY DEF IInv, TypeOK
  <2> QED
    BY <2>1, <2>2, MovingKeeps
<1> QED
  BY <1>1, <1>2, <1>3, <1>4, <1>5, <1>6, <1>7, <1>8, <1>9 DEF Next, Writing, Reading

\* The invariant holds in every state, for any calls, answers, paths and times.
THEOREM Invariance == Spec => []IInv
<1>1. IInv /\ [Next]_vars => IInv'
  BY StepIInv
<1> QED
  BY <1>1, InitIInv, PTL DEF Spec

\* Every variable keeps its type.
THEOREM TypeCorrect == Spec => []TypeOK
<1>1. IInv => TypeOK
  BY DEF IInv
<1> QED
  BY <1>1, Invariance, PTL

-------------------------------------------------------------------------------
(* What the page shows.                                                     *)

\* A finite set is counted once by a condition and its negation.
LEMMA CountedOnce ==
  ASSUME NEW yes, NEW no, IsFiniteSet(yes \cup no), yes \cap no = {}
  PROVE  Cardinality(yes \cup no) = Cardinality(yes) + Cardinality(no)
<1>1. IsFiniteSet(yes) /\ IsFiniteSet(no)
  <2>1. yes \subseteq yes \cup no /\ no \subseteq yes \cup no
    OBVIOUS
  <2> QED
    BY <2>1, FS_Subset
<1>2. Cardinality(yes \cup no) = Cardinality(yes) + Cardinality(no) - Cardinality(yes \cap no)
  BY <1>1, FS_Union
<1>3. Cardinality(yes \cap no) = 0
  BY FS_EmptySet
<1>4. Cardinality(yes) \in Nat /\ Cardinality(no) \in Nat
  BY <1>1, FS_CardinalityType
<1> QED
  BY <1>2, <1>3, <1>4

\* The page counts the calls that Graph answered with a 2xx as successful and
\* the others as failed, each of them once, whichever writer made the entry.
THEOREM PageCountsOutcomes == Spec => []OutcomesAreCounted
<1>1. IInv => OutcomesAreCounted
  <2> SUFFICES ASSUME IInv, phase \in {"endpoints", "shown"}
               PROVE  /\ stats.successful = Cardinality({c \in counted : Succeeded(call[c].answer)})
                      /\ stats.failed = Cardinality({c \in counted : ~Succeeded(call[c].answer)})
                      /\ stats.total = stats.successful + stats.failed
    BY DEF OutcomesAreCounted
  <2> DEFINE yes == {c \in counted : Succeeded(call[c].answer)}
             no  == {c \in counted : ~Succeeded(call[c].answer)}
  <2>1. counted \in SUBSET Made /\ engine \in Engines /\ stats = Row(engine, counted)
    BY DEF IInv, TypeOK, Made, Engines, TotalsAreCounted
  <2>2. stats.total = Cardinality(counted) /\ stats.successful = Cardinality(yes)
        /\ stats.failed = Cardinality(no)
    BY <2>1, RowIs DEF IInv
  <2>3. yes \cup no = counted /\ yes \cap no = {}
    BY Zenon
  <2>4. IsFiniteSet(counted)
    BY <2>1, EntriesOf DEF IInv
  <2>5. Cardinality(counted) = Cardinality(yes) + Cardinality(no)
    <3> HIDE DEF yes, no
    <3>1. IsFiniteSet(yes \cup no)
      BY <2>3, <2>4
    <3>2. Cardinality(yes \cup no) = Cardinality(yes) + Cardinality(no)
      BY <2>3, <3>1, CountedOnce
    <3> QED
      BY <2>3, <3>2
  <2> QED
    BY <2>2, <2>5
<1> QED
  BY <1>1, Invariance, PTL

\* What the transport files a path under does not depend on an id in it.
LEMMA EndpointsForgetIds ==
  ASSUME NEW p \in Paths \cup {<<"users">>, <<"me", "messages">>},
         NEW q \in Paths \cup {<<"users">>, <<"me", "messages">>}, SameOperation(p, q)
  PROVE  /\ extractEndpoint(p) = extractEndpoint(q)
         /\ \A i \in 1..Len(extractEndpoint(p)) : extractEndpoint(p)[i] \notin Ids
<1>0. /\ "users" \notin Ids /\ "groups" \notin Ids /\ "me" \notin Ids
      /\ "messages" \notin Ids /\ "root" \notin Ids
  BY IdsAreNew
<1>1. ASSUME NEW r \in Paths \cup {<<"users">>, <<"me", "messages">>}
      PROVE  /\ Len(r) \in Nat /\ Len(r) >= 1 /\ Head(r) = r[1]
             /\ r[1] \notin Ids
             /\ Len(r) > 1 /\ r[1] = "me" => r[2] \notin Ids
             /\ Len(r) > 2 => r[3] \notin Ids
  <2>1. CASE r \in Paths
    <3>1. r \in Seq(STRING \cup Ids) /\ r # <<>>
      BY <2>1, PathsHaveSegments
    <3>2. Len(r) \in Nat /\ Len(r) >= 1 /\ Head(r) = r[1]
      BY <3>1
    <3>3. \A i \in 1..Len(r) : r[i] \in Ids => (i = 2 /\ r[1] \in {"users", "groups"}) \/ i > 3
      BY <2>1, IdsComeSecond
    <3> QED
      BY <3>2, <3>3
  <2>2. CASE r = <<"users">>
    <3>1. Len(r) = 1 /\ r[1] = "users" /\ Head(r) = "users"
      BY <2>2
    <3> QED
      BY <3>1, <1>0
  <2>3. CASE r = <<"me", "messages">>
    <3>1. Len(r) = 2 /\ r[1] = "me" /\ r[2] = "messages" /\ Head(r) = "me"
      BY <2>3
    <3> QED
      BY <3>1, <1>0
  <2> QED
    BY <2>1, <2>2, <2>3
<1>2. Len(p) = Len(q) /\ \A i \in 1..Len(p) : p[i] = q[i] \/ (p[i] \in Ids /\ q[i] \in Ids)
  BY DEF SameOperation
<1>3. /\ p[1] = q[1]
      /\ Len(p) > 1 /\ p[1] = "me" => p[2] = q[2]
      /\ Len(p) > 2 => p[3] = q[3]
  BY <1>1, <1>2
<1>4. extractEndpoint(p) = extractEndpoint(q)
  BY <1>1, <1>2, <1>3 DEF extractEndpoint
<1>5. \A i \in 1..Len(extractEndpoint(p)) : extractEndpoint(p)[i] \notin Ids
  <2>1. ASSUME NEW x, NEW y, x \notin Ids, y \notin Ids
        PROVE  /\ \A i \in 1..Len(<<x>>) : <<x>>[i] \notin Ids
               /\ \A i \in 1..Len(<<x, y>>) : <<x, y>>[i] \notin Ids
    BY <2>1
  <2>2. CASE Head(p) = "me" /\ Len(p) > 1
    BY <2>1, <2>2, <1>0, <1>1 DEF extractEndpoint
  <2>3. CASE ~(Head(p) = "me" /\ Len(p) > 1) /\ Head(p) \in {"users", "groups"} /\ Len(p) > 2
    BY <2>1, <2>3, <1>0, <1>1 DEF extractEndpoint
  <2>4. CASE /\ ~(Head(p) = "me" /\ Len(p) > 1)
             /\ ~(Head(p) \in {"users", "groups"} /\ Len(p) > 2)
    BY <2>1, <2>4, <1>0, <1>1 DEF extractEndpoint
  <2> QED
    BY <2>2, <2>3, <2>4
<1> QED
  BY <1>4, <1>5

\* One operation has one row, whomever it was carried out on, for all paths
\* that name users and groups where Graph does.
THEOREM OperationsAreOneRow == Spec => []OperationsShareARow
<1>1. IInv => OperationsShareARow
  <2> SUFFICES ASSUME IInv, NEW c \in Calls, NEW d \in Calls,
                      stage[c] # "unused", stage[d] # "unused",
                      SameOperation(call[c].path, call[d].path)
               PROVE  /\ entry[c].endpoint = entry[d].endpoint
                      /\ \A i \in 1..Len(entry[c].endpoint) : entry[c].endpoint[i] \notin Ids
    BY DEF OperationsShareARow
  <2>1. call[c].path \in PathsUsed /\ call[d].path \in PathsUsed
    BY DEF IInv, TypeOK, CallType
  <2>2. ASSUME NEW x \in Calls, stage[x] # "unused"
        PROVE  entry[x].endpoint = extractEndpoint(call[x].path)
    <3>1. entry[x] = [endpoint |-> extractEndpoint(call[x].path),
                      success  |-> Succeeded(call[x].answer),
                      duration |-> Took[x]]
      BY <2>2 DEF IInv, EntriesAreTrue
    <3> QED
      BY <3>1
  <2> QED
    BY <2>1, <2>2, EndpointsForgetIds DEF PathsUsed
<1> QED
  BY <1>1, Invariance, PTL

\* The two engines show the same of any entries, but for the rounding of one
\* engine's averages, whose decimals are counted in the proof.
THEOREM EnginesShowTheSame == Spec => []EnginesAgree
<1>1. IInv => EnginesAgree
  <2> SUFFICES ASSUME IInv, NEW S \in (SUBSET InWindow) \ {{}}
               PROVE  /\ Alike(Row("mysql", S), Row("postgres", S))
                      /\ DOMAIN Rows("mysql", S) = DOMAIN Rows("postgres", S)
                      /\ \A x \in DOMAIN Rows("mysql", S) :
                           Alike(Rows("mysql", S)[x], Rows("postgres", S)[x])
    BY DEF EnginesAgree
  <2>1. ASSUME NEW T \in SUBSET Made, T # {} PROVE Alike(Row("mysql", T), Row("postgres", T))
    <3> DEFINE n == Decimal(T).num
               c == Cardinality(T)
               d == Duration(T)
    <3>1. Row("mysql", T).avg = Decimal(T) /\ Row("postgres", T).avg = Fraction(T)
      BY <2>1, RowIs DEF IInv, Engines
    <3>2. n \in Nat /\ c \in Nat /\ d \in Nat /\ WithinHalf(c * n, Scale * d, c)
      BY <2>1, AveragesOf, EntriesOf DEF IInv, Averages
    <3>3. /\ Decimal(T).den = Scale /\ Fraction(T).num = d /\ Fraction(T).den = c
      BY DEF Decimal, Fraction
    <3>4. WithinHalf(Scale * n * c, Scale * d * Scale, Scale * c)
      <4> HIDE DEF n, c, d
      <4>1. c * n \in Nat /\ Scale * n * c = Scale * (c * n)
        BY <3>2 DEF Scale
      <4> HIDE DEF WithinHalf
      <4>2. \A k \in Nat : WithinHalf(k, Scale * d, c) => WithinHalf(Scale * k, Scale * d * Scale, Scale * c)
        BY <3>2 DEF WithinHalf, Scale
      <4> QED
        BY <3>2, <4>1, <4>2
    <3>5. /\ Row("mysql", T).total = Row("postgres", T).total
          /\ Row("mysql", T).successful = Row("postgres", T).successful
          /\ Row("mysql", T).failed = Row("postgres", T).failed
      BY DEF Row
    <3> QED
      BY <3>1, <3>3, <3>4, <3>5 DEF Alike
  <2>2. S \in SUBSET Made
    BY DEF IInv, TypeOK, InWindow, Made
  <2> DEFINE Of(x) == {c \in S : entry[c].endpoint = x}
             X     == {entry[c].endpoint : c \in S}
  <2>3. ASSUME NEW x \in X PROVE Alike(Row("mysql", Of(x)), Row("postgres", Of(x)))
    <3>1. Of(x) \in SUBSET Made /\ Of(x) # {}
      BY <2>2
    <3> HIDE DEF Of
    <3> QED
      BY <2>1, <3>1
  <2>4. /\ DOMAIN Rows("mysql", S) = X /\ DOMAIN Rows("postgres", S) = X
        /\ \A x \in X : /\ Rows("mysql", S)[x] = Row("mysql", Of(x))
                        /\ Rows("postgres", S)[x] = Row("postgres", Of(x))
    BY DEF Rows
  <2> HIDE DEF X, Of
  <2> QED
    BY <2>1, <2>2, <2>3, <2>4
<1> QED
  BY <1>1, Invariance, PTL

\* The rows per endpoint add up to the row of all their entries.
LEMMA RowsAddUp ==
  ASSUME TypeOK, EntriesAreTrue, NEW S \in SUBSET Made, NEW e \in Engines
  PROVE  /\ Total(Rows(e, S), LAMBDA row : row.total) = Cardinality(S)
         /\ Total(Rows(e, S), LAMBDA row : row.successful) = Cardinality(Successful(S))
         /\ Total(Rows(e, S), Spent) \in Int
         /\ WithinHalf(Total(Rows(e, S), Spent), Scale * Duration(S), Cardinality(S))
<1> DEFINE X    == {entry[c].endpoint : c \in S}
           part == [x \in X |-> {c \in S : entry[c].endpoint = x}]
<1>1. IsFiniteSet(S)
  BY EntriesOf
<1>2. DOMAIN Rows(e, S) = X /\ \A x \in X : Rows(e, S)[x] = Row(e, part[x])
  BY DEF Rows
<1>3. /\ \A x \in X : part[x] \in SUBSET Made /\ part[x] \subseteq S /\ part[x] # {}
      /\ Divides(part, X, S)
  BY DEF Divides
<1> HIDE DEF X, part
<1>4. \A x \in X : /\ IsFiniteSet(part[x]) /\ Cardinality(part[x]) \in Nat \ {0}
                   /\ Duration(part[x]) = SumFunctionOnSet(Took, part[x])
                   /\ Duration(part[x]) \in Nat
  <2> SUFFICES ASSUME NEW x \in X
               PROVE  /\ IsFiniteSet(part[x]) /\ Cardinality(part[x]) \in Nat \ {0}
                      /\ Duration(part[x]) = SumFunctionOnSet(Took, part[x])
                      /\ Duration(part[x]) \in Nat
    OBVIOUS
  <2>1. part[x] \in SUBSET Made /\ part[x] # {}
    BY <1>3
  <2> QED
    BY <2>1, EntriesOf
<1>5. Total(Rows(e, S), LAMBDA row : row.total) = Cardinality(S)
  <2> DEFINE ones == [c \in S |-> 1]
             g    == [x \in X |-> Rows(e, S)[x].total]
  <2>1. Total(Rows(e, S), LAMBDA row : row.total) = SumFunctionOnSet(g, X)
    BY <1>2 DEF Total, SumFunction
  <2>2. ASSUME NEW x \in X PROVE g[x] = SumFunctionOnSet(ones, part[x])
    <3>1. \A c \in part[x] : ones[c] = IF c \in part[x] THEN 1 ELSE 0
      BY <1>3
    <3>2. SumFunctionOnSet(ones, part[x]) = Cardinality(part[x] \cap part[x])
      <4> HIDE DEF ones
      <4> QED
        BY <1>4, <3>1, SumCounts
    <3>3. g[x] = Cardinality(part[x]) /\ part[x] \cap part[x] = part[x]
      BY <1>2 DEF Row
    <3> QED
      BY <3>2, <3>3
  <2>3. (\A c \in S : ones[c] \in Int) /\ \A c \in S : ones[c] = IF c \in S THEN 1 ELSE 0
    OBVIOUS
  <2> HIDE DEF ones, g
  <2>4. SumFunctionOnSet(g, X) = SumFunctionOnSet(ones, S)
    <3>1. \A x \in X : g[x] = SumFunctionOnSet(ones, part[x])
      BY <2>2
    <3> QED
      BY <1>1, <1>3, <2>3, <3>1, SumByParts
  <2>5. SumFunctionOnSet(ones, S) = Cardinality(S \cap S) /\ S \cap S = S
    BY <1>1, <2>3, SumCounts
  <2> QED
    BY <2>1, <2>4, <2>5
<1>6. Total(Rows(e, S), LAMBDA row : row.successful) = Cardinality(Successful(S))
  <2> DEFINE ones == [c \in S |-> IF c \in Successful(S) THEN 1 ELSE 0]
             g    == [x \in X |-> Rows(e, S)[x].successful]
  <2>1. Total(Rows(e, S), LAMBDA row : row.successful) = SumFunctionOnSet(g, X)
    BY <1>2 DEF Total, SumFunction
  <2>2. ASSUME NEW x \in X PROVE g[x] = SumFunctionOnSet(ones, part[x])
    <3>1. \A c \in part[x] : ones[c] = IF c \in Successful(S) THEN 1 ELSE 0
      BY <1>3
    <3>2. SumFunctionOnSet(ones, part[x]) = Cardinality(part[x] \cap Successful(S))
      <4> HIDE DEF ones
      <4> QED
        BY <1>4, <3>1, SumCounts
    <3>3. g[x] = Cardinality(Successful(part[x]))
      BY <1>2 DEF Row
    <3>4. part[x] \cap Successful(S) = Successful(part[x])
      BY <1>3 DEF Successful
    <3> QED
      BY <3>2, <3>3, <3>4
  <2>3. /\ \A c \in S : ones[c] \in Int
        /\ \A c \in S : ones[c] = IF c \in Successful(S) THEN 1 ELSE 0
    OBVIOUS
  <2> HIDE DEF ones, g
  <2>4. SumFunctionOnSet(g, X) = SumFunctionOnSet(ones, S)
    <3>1. \A x \in X : g[x] = SumFunctionOnSet(ones, part[x])
      BY <2>2
    <3> QED
      BY <1>1, <1>3, <2>3, <3>1, SumByParts
  <2>5. SumFunctionOnSet(ones, S) = Cardinality(S \cap Successful(S))
    BY <1>1, <2>3, SumCounts
  <2>6. S \cap Successful(S) = Successful(S)
    BY DEF Successful
  <2> QED
    BY <2>1, <2>4, <2>5, <2>6
<1>7. /\ Total(Rows(e, S), Spent) \in Int
      /\ WithinHalf(Total(Rows(e, S), Spent), Scale * Duration(S), Cardinality(S))
  <2> DEFINE g == [x \in X |-> Spent(Rows(e, S)[x])]
             d == [x \in X |-> Duration(part[x])]
             h == [x \in X |-> Rows(e, S)[x].total]
  <2>1. /\ Total(Rows(e, S), Spent) = SumFunctionOnSet(g, X)
        /\ Total(Rows(e, S), LAMBDA row : row.total) = SumFunctionOnSet(h, X)
    BY <1>2 DEF Total, SumFunction
  <2>2. ASSUME NEW x \in X
        PROVE  /\ g[x] \in Int /\ d[x] \in Int /\ h[x] \in Int
               /\ WithinHalf(g[x], Scale * d[x], h[x])
               /\ d[x] = SumFunctionOnSet(Took, part[x])
    <3>1. Scans(e, Avg(e, part[x])) /\ Row(e, part[x]).total = Cardinality(part[x])
      BY <1>3, RowIs
    <3>2. /\ Spent(Row(e, part[x])) \in Nat
          /\ WithinHalf(Spent(Row(e, part[x])), Scale * Duration(part[x]), Cardinality(part[x]))
      BY <1>3, <3>1, SpentIs
    <3>3. g[x] = Spent(Row(e, part[x])) /\ d[x] = Duration(part[x]) /\ h[x] = Cardinality(part[x])
      BY <1>2, <3>1
    <3> HIDE DEF g, d, h
    <3> QED
      BY <1>4, <3>2, <3>3
  <2>3. Duration(S) = SumFunctionOnSet(Took, S) /\ \A c \in S : Took[c] \in Int
    BY EntriesOf
  <2> HIDE DEF g, d, h
  <2>4. IsFiniteSet(X) /\ SumFunctionOnSet(d, X) = SumFunctionOnSet(Took, S)
    <3>1. \A x \in X : d[x] = SumFunctionOnSet(Took, part[x])
      BY <2>2
    <3> QED
      BY <1>1, <1>3, <2>3, <3>1, SumByParts
  <2>5. WithinHalf(SumFunctionOnSet(g, X), Scale * SumFunctionOnSet(d, X), SumFunctionOnSet(h, X))
    BY <2>2, <2>4, SumsStayNear
  <2>6. SumFunctionOnSet(g, X) \in Int
    BY <2>2, <2>4, SumTakesOut
  <2> QED
    BY <1>5, <2>1, <2>3, <2>4, <2>5, <2>6
<1> QED
  BY <1>5, <1>6, <1>7

\* The rows that the second query reads add up to the totals of the first, but
\* for the entries that came into the window or left it between the two.
THEOREM RowsAddUpToTotals == Spec => PageAddsUp
<1>1. ASSUME IInv, GetAPILogStatsByEndpoint
      PROVE  LET came == InWindow \ counted
                 left == counted \ InWindow
             IN /\ Total(endpoints', LAMBDA row : row.total)
                     = stats.total + Cardinality(came) - Cardinality(left)
                /\ Total(endpoints', LAMBDA row : row.successful)
                     = stats.successful + Cardinality(Successful(came)) - Cardinality(Successful(left))
                /\ WithinHalf(Total(endpoints', Spent),
                              Spent(stats) + Scale * (Duration(came) - Duration(left)),
                              stats.total + Total(endpoints', LAMBDA row : row.total))
  <2> DEFINE came == InWindow \ counted
             left == counted \ InWindow
             both == InWindow \cap counted
  <2>1. TypeOK /\ EntriesAreTrue /\ engine \in Engines
    BY <1>1 DEF IInv, TypeOK, Engines
  <2>2. /\ InWindow \in SUBSET Made /\ counted \in SUBSET Made
        /\ came \in SUBSET Made /\ left \in SUBSET Made /\ both \in SUBSET Made
    BY <2>1 DEF TypeOK, InWindow, Made
  <2>3. /\ Scans(engine, Avg(engine, counted)) /\ stats = Row(engine, counted)
        /\ endpoints' = Rows(engine, InWindow)
    BY <1>1 DEF IInv, TotalsAreCounted, GetAPILogStatsByEndpoint
  <2>4. /\ both \cup came = InWindow /\ both \cap came = {}
        /\ both \cup left = counted /\ both \cap left = {}
        /\ InWindow \ both = came /\ counted \ both = left
        /\ both \in SUBSET InWindow /\ both \in SUBSET counted
    OBVIOUS
  <2> HIDE DEF came, left, both
  <2>5. ASSUME NEW A \in SUBSET Made, NEW B \in SUBSET Made, A \cap B = {}
        PROVE  /\ Cardinality(A \cup B) = Cardinality(A) + Cardinality(B)
               /\ Cardinality(A) \in Nat /\ Cardinality(B) \in Nat
    <3>1. A \cup B \in SUBSET Made
      OBVIOUS
    <3>2. IsFiniteSet(A \cup B) /\ Cardinality(A) \in Nat /\ Cardinality(B) \in Nat
      BY <2>1, <3>1, EntriesOf
    <3> QED
      BY <2>5, <3>2, CountedOnce
  <2>6. Total(endpoints', LAMBDA row : row.total)
          = stats.total + Cardinality(came) - Cardinality(left)
    <3>1. Total(endpoints', LAMBDA row : row.total) = Cardinality(InWindow)
      BY <2>1, <2>2, <2>3, RowsAddUp
    <3>2. stats.total = Cardinality(counted)
      BY <2>3 DEF Row
    <3>3. /\ Cardinality(InWindow) = Cardinality(both) + Cardinality(came)
          /\ Cardinality(counted) = Cardinality(both) + Cardinality(left)
          /\ Cardinality(both) \in Nat /\ Cardinality(came) \in Nat /\ Cardinality(left) \in Nat
      BY <2>2, <2>4, <2>5
    <3> QED
      BY <3>1, <3>2, <3>3
  <2>7. Total(endpoints', LAMBDA row : row.successful)
          = stats.successful + Cardinality(Successful(came)) - Cardinality(Successful(left))
    <3>1. Total(endpoints', LAMBDA row : row.successful) = Cardinality(Successful(InWindow))
      BY <2>1, <2>2, <2>3, RowsAddUp
    <3>2. stats.successful = Cardinality(Successful(counted))
      BY <2>3 DEF Row
    <3>3. /\ Successful(both) \cup Successful(came) = Successful(InWindow)
          /\ Successful(both) \cap Successful(came) = {}
          /\ Successful(both) \cup Successful(left) = Successful(counted)
          /\ Successful(both) \cap Successful(left) = {}
          /\ Successful(both) \in SUBSET Made /\ Successful(came) \in SUBSET Made
          /\ Successful(left) \in SUBSET Made
      BY <2>2, <2>4 DEF Successful
    <3>4. /\ Cardinality(Successful(InWindow))
               = Cardinality(Successful(both)) + Cardinality(Successful(came))
          /\ Cardinality(Successful(counted))
               = Cardinality(Successful(both)) + Cardinality(Successful(left))
          /\ Cardinality(Successful(both)) \in Nat /\ Cardinality(Successful(came)) \in Nat
          /\ Cardinality(Successful(left)) \in Nat
      BY <2>5, <3>3
    <3> QED
      BY <3>1, <3>2, <3>4
  <2>8. WithinHalf(Total(endpoints', Spent),
                   Spent(stats) + Scale * (Duration(came) - Duration(left)),
                   stats.total + Total(endpoints', LAMBDA row : row.total))
    <3>1. /\ Total(endpoints', LAMBDA row : row.total) = Cardinality(InWindow)
          /\ Total(endpoints', Spent) \in Int
          /\ WithinHalf(Total(endpoints', Spent), Scale * Duration(InWindow), Cardinality(InWindow))
      BY <2>1, <2>2, <2>3, RowsAddUp
    <3>2. /\ stats.total = Cardinality(counted) /\ Spent(stats) \in Nat
          /\ WithinHalf(Spent(stats), Scale * Duration(counted), Cardinality(counted))
      <4>1. stats.total = Cardinality(counted)
        BY <2>3 DEF Row
      <4> QED
        BY <2>1, <2>2, <2>3, <4>1, SpentIs
    <3>3. \A S \in SUBSET Made : /\ IsFiniteSet(S) /\ (\A c \in S : Took[c] \in Int)
                                 /\ Duration(S) = SumFunctionOnSet(Took, S) /\ Duration(S) \in Nat
      <4> SUFFICES ASSUME NEW S \in SUBSET Made
                   PROVE  /\ IsFiniteSet(S) /\ (\A c \in S : Took[c] \in Int)
                          /\ Duration(S) = SumFunctionOnSet(Took, S) /\ Duration(S) \in Nat
        OBVIOUS
      <4> QED
        BY <2>1, EntriesOf
    <3>4. /\ SumFunctionOnSet(Took, InWindow)
               = SumFunctionOnSet(Took, both) + SumFunctionOnSet(Took, InWindow \ both)
          /\ SumFunctionOnSet(Took, counted)
               = SumFunctionOnSet(Took, both) + SumFunctionOnSet(Took, counted \ both)
      BY <2>2, <2>4, <3>3, SumSplits
    <3>5. /\ Duration(InWindow) = Duration(both) + Duration(came)
          /\ Duration(counted) = Duration(both) + Duration(left)
          /\ Duration(both) \in Nat /\ Duration(came) \in Nat /\ Duration(left) \in Nat
      BY <2>2, <2>4, <3>3, <3>4
    <3>6. Cardinality(InWindow) \in Nat /\ Cardinality(counted) \in Nat
      BY <2>1, <2>2, EntriesOf
    <3>7. ASSUME NEW a \in Int, NEW b \in Nat, NEW m \in Nat, NEW n \in Nat,
                 NEW d \in Nat, NEW k \in Nat, NEW l \in Nat,
                 WithinHalf(a, Scale * (d + k), m), WithinHalf(b, Scale * (d + l), n)
          PROVE  WithinHalf(a, b + Scale * (k - l), n + m)
      BY <3>7 DEF WithinHalf, Scale
    <3> QED
      BY <3>1, <3>2, <3>5, <3>6, <3>7
  <2> QED
    BY <2>6, <2>7, <2>8 DEF came, left
<1>2. IInv /\ [Next]_vars
        => [GetAPILogStatsByEndpoint =>
              LET came == InWindow \ counted
                  left == counted \ InWindow
              IN /\ Total(endpoints', LAMBDA row : row.total)
                      = stats.total + Cardinality(came) - Cardinality(left)
                 /\ Total(endpoints', LAMBDA row : row.successful)
                      = stats.successful + Cardinality(Successful(came))
                          - Cardinality(Successful(left))
                 /\ WithinHalf(Total(endpoints', Spent),
                               Spent(stats) + Scale * (Duration(came) - Duration(left)),
                               stats.total + Total(endpoints', LAMBDA row : row.total))]_vars
  BY <1>1
<1> QED
  BY <1>2, Invariance, PTL DEF Spec, PageAddsUp
=============================================================================
