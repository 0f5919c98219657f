-------------------------------- MODULE Sums --------------------------------
(***************************************************************************)
(* Sums of integers over finite sets, SumFunctionOnSet of the community    *)
(* modules, by the facts that other proofs use: a sum is taken apart at    *)
(* any element, and a change of the function at one point changes the sum  *)
(* by as much.  Induction is by the least counterexample, since the        *)
(* provers cannot instantiate a theorem whose parameter is an operator.    *)
(***************************************************************************)
EXTENDS Functions, FiniteSetTheorems, WellFoundedInduction, TLAPS

(* A set of natural numbers that is not empty has a least element.         *)
LEMMA Least ==
  ASSUME NEW B, B \subseteq Nat, B # {}
  PROVE  \E n \in B : \A m \in B : n <= m
<1>1. PICK n \in B : \A m \in B : ~(<<m, n>> \in OpToRel(<, Nat))
  BY WFMin, NatLessThanWellFounded
<1>2. ASSUME NEW m \in B PROVE n <= m
  <2>1. n \in Nat /\ m \in Nat /\ ~(m < n)
    BY <1>1 DEF OpToRel
  <2> QED
    BY <2>1
<1> QED
  BY <1>2

(* Every subset of a finite set is in G if it is as soon as the smaller    *)
(* ones are.                                                               *)
LEMMA SubsetInduction ==
  ASSUME NEW S, IsFiniteSet(S), NEW G,
         \A T \in SUBSET S : (\A x \in T : T \ {x} \in G) => T \in G
  PROVE  S \in G
<1> DEFINE Size == {Cardinality(T) : T \in (SUBSET S) \ G}
<1>1. \A T \in SUBSET S : IsFiniteSet(T) /\ Cardinality(T) \in Nat
  BY FS_Subset, FS_CardinalityType
<1>2. SUFFICES ASSUME S \notin G PROVE FALSE
  OBVIOUS
<1>3. Size \subseteq Nat /\ Cardinality(S) \in Size
  BY <1>1, <1>2
<1>4. PICK n \in Size : \A m \in Size : n <= m
  BY <1>3, Least
<1>5. PICK T \in SUBSET S : T \notin G /\ n = Cardinality(T)
  OBVIOUS
<1>6. ASSUME NEW x \in T PROVE T \ {x} \in G
  <2> SUFFICES ASSUME T \ {x} \notin G PROVE FALSE
    OBVIOUS
  <2>0. Cardinality(T \ {x}) \in Size
    OBVIOUS
  <2> HIDE DEF Size
  <2>1. Cardinality(T \ {x}) = n - 1
    BY <1>1, <1>5, FS_RemoveElement
  <2> QED
    BY <1>3, <1>4, <2>0, <2>1
<1> QED
  BY <1>5, <1>6

-----------------------------------------------------------------------------
Pick(T) == CHOOSE x \in T : TRUE

(* The equation by which a fold is defined, for the sets in D and for the  *)
(* subsets of S.                                                           *)
Folded(g, f, T) == IF T = {} THEN 0 ELSE f[Pick(T)] + g[T \ {Pick(T)}]
IsFoldOn(g, f, D) == g = [T \in D |-> Folded(g, f, T)]
IsFold(g, f, S) == IsFoldOn(g, f, SUBSET S)

(* SumFunctionOnSet is, by its definition, the value at S of such a fold.  *)
LEMMA SumIsChosen ==
  ASSUME NEW f, NEW S
  PROVE  SumFunctionOnSet(f, S) = (CHOOSE g : IsFold(g, f, S))[S]
  BY DEF SumFunctionOnSet, FoldFunctionOnSet, MapThenFoldSet, IsFold, IsFoldOn, Folded, Pick

(* There is such a fold: one for the sets of up to n elements gives one    *)
(* for those of up to n + 1.                                               *)
LEMMA FoldExists ==
  ASSUME NEW f, NEW S, IsFiniteSet(S)
  PROVE  \E g : IsFold(g, f, S)
<1> DEFINE UpTo(n) == {T \in SUBSET S : Cardinality(T) <= n}
           Missing == {n \in Nat : ~\E g : IsFoldOn(g, f, UpTo(n))}
<1>1. \A T \in SUBSET S : IsFiniteSet(T) /\ Cardinality(T) \in Nat /\ Cardinality(T) <= Cardinality(S)
  BY FS_Subset, FS_CardinalityType
<1>2. SUBSET S = UpTo(Cardinality(S)) /\ Cardinality(S) \in Nat
  BY <1>1
<1>3. 0 \notin Missing
  <2> DEFINE g == [T \in UpTo(0) |-> 0]
  <2>1. UpTo(0) = {{}}
    BY <1>1, FS_EmptySet
  <2>2. IsFoldOn(g, f, UpTo(0))
    BY <2>1 DEF IsFold, IsFoldOn, Folded
  <2> QED
    BY <2>2
<1>4. ASSUME NEW n \in Nat, n + 1 \in Missing PROVE n \in Missing
  <2> SUFFICES ASSUME NEW g, IsFoldOn(g, f, UpTo(n)) PROVE FALSE
    OBVIOUS
  <2> DEFINE h == [T \in UpTo(n + 1) |-> Folded(g, f, T)]
  <2>1. ASSUME NEW T \in UpTo(n) PROVE T \in UpTo(n + 1) /\ h[T] = g[T]
    BY <1>1, <2>1 DEF IsFold, IsFoldOn
  <2>2. ASSUME NEW T \in UpTo(n + 1), T # {} PROVE T \ {Pick(T)} \in UpTo(n)
    <3>1. Pick(T) \in T
      BY <2>2 DEF Pick
    <3>2. Cardinality(T \ {Pick(T)}) = Cardinality(T) - 1
      BY <3>1, <1>1, FS_RemoveElement
    <3> QED
      BY <3>2, <1>1
  <2>3. \A T \in UpTo(n + 1) : Folded(g, f, T) = Folded(h, f, T)
    BY <2>1, <2>2 DEF Folded
  <2>4. IsFoldOn(h, f, UpTo(n + 1))
    BY <2>3 DEF IsFold, IsFoldOn
  <2> QED
    BY <1>4, <2>4
<1> HIDE DEF Missing, IsFold
<1>5. Missing = {}
  <2> SUFFICES ASSUME Missing # {} PROVE FALSE
    OBVIOUS
  <2>1. Missing \subseteq Nat
    BY DEF Missing, IsFold
  <2>2. PICK n \in Missing : \A m \in Missing : n <= m
    BY <2>1, Least
  <2>3. n \in Nat \ {0} /\ n - 1 \in Nat /\ n = (n - 1) + 1
    BY <1>3, <2>1
  <2>4. n - 1 \in Missing
    BY <1>4, <2>3
  <2> QED
    BY <2>2, <2>3, <2>4
<1> QED
  BY <1>2, <1>5 DEF Missing, IsFold

(* Folds over different families of sets agree.                            *)
LEMMA FoldsAgree ==
  ASSUME NEW f, NEW R, NEW S, IsFiniteSet(R), R \subseteq S, NEW g, NEW h,
         IsFold(g, f, R), IsFold(h, f, S)
  PROVE  g[R] = h[R]
<1> DEFINE G == {T \in SUBSET R : g[T] = h[T]}
<1>1. ASSUME NEW T \in SUBSET R, \A x \in T : T \ {x} \in G PROVE T \in G
  <2>1. g[T] = Folded(g, f, T) /\ h[T] = Folded(h, f, T)
    BY DEF IsFold, IsFoldOn
  <2>2. T # {} => Pick(T) \in T
    BY DEF Pick
  <2> QED
    BY <1>1, <2>1, <2>2 DEF Folded
<1>2. R \in G
  BY <1>1, SubsetInduction
<1> QED
  BY <1>2

-----------------------------------------------------------------------------
(* The equation holds of the sum itself, with the element that is chosen.  *)
LEMMA SumEquation ==
  ASSUME NEW f, NEW S, IsFiniteSet(S)
  PROVE  /\ S = {} => SumFunctionOnSet(f, S) = 0
         /\ S # {} => /\ Pick(S) \in S
                      /\ SumFunctionOnSet(f, S) = f[Pick(S)] + SumFunctionOnSet(f, S \ {Pick(S)})
<1>1. PICK g : IsFold(g, f, S) /\ SumFunctionOnSet(f, S) = g[S]
  BY FoldExists, SumIsChosen
<1>2. SumFunctionOnSet(f, S) = Folded(g, f, S)
  BY <1>1 DEF IsFold, IsFoldOn
<1>3. CASE S = {}
  BY <1>2, <1>3 DEF Folded
<1>4. CASE S # {}
  <2>1. Pick(S) \in S
    BY <1>4 DEF Pick
  <2> DEFINE R == S \ {Pick(S)}
  <2>2. IsFiniteSet(R) /\ R \subseteq S
    BY FS_RemoveElement
  <2>3. SumFunctionOnSet(f, S) = f[Pick(S)] + g[R]
    BY <1>2, <1>4 DEF Folded
  <2> HIDE DEF R
  <2>4. PICK h : IsFold(h, f, R) /\ SumFunctionOnSet(f, R) = h[R]
    BY <2>2, FoldExists, SumIsChosen
  <2>5. h[R] = g[R]
    BY <1>1, <2>2, <2>4, FoldsAgree
  <2> QED
    BY <2>1, <2>3, <2>4, <2>5 DEF R
<1> QED
  BY <1>3, <1>4

-----------------------------------------------------------------------------
(* Nothing adds up to zero.                                                *)
LEMMA SumOfNothing == ASSUME NEW f PROVE SumFunctionOnSet(f, {}) = 0
  BY SumEquation, FS_EmptySet

(* Integers add up to an integer.                                          *)
LEMMA SumIsInteger ==
  ASSUME NEW f, NEW S, IsFiniteSet(S), \A x \in S : f[x] \in Int
  PROVE  SumFunctionOnSet(f, S) \in Int
<1> DEFINE G == {T \in SUBSET S : SumFunctionOnSet(f, T) \in Int}
<1>1. ASSUME NEW T \in SUBSET S, \A x \in T : T \ {x} \in G PROVE T \in G
  <2>1. IsFiniteSet(T)
    BY FS_Subset
  <2>2. CASE T = {}
    BY <2>2, SumOfNothing
  <2>3. CASE T # {}
    <3>1. Pick(T) \in T /\ T \ {Pick(T)} \in G
      BY <1>1, <2>1, <2>3, SumEquation
    <3>2. SumFunctionOnSet(f, T) = f[Pick(T)] + SumFunctionOnSet(f, T \ {Pick(T)})
      BY <2>1, <2>3, SumEquation
    <3> QED
      BY <3>1, <3>2
  <2> QED
    BY <2>2, <2>3
<1> HIDE DEF G
<1>2. S \in G
  BY <1>1, SubsetInduction
<1> QED
  BY <1>2 DEF G

(* A sum depends on the function in its set alone.                         *)
LEMMA SumIsOfSet ==
  ASSUME NEW f, NEW g, NEW S, IsFiniteSet(S), \A x \in S : f[x] = g[x]
  PROVE  SumFunctionOnSet(f, S) = SumFunctionOnSet(g, S)
<1> DEFINE G == {T \in SUBSET S : SumFunctionOnSet(f, T) = SumFunctionOnSet(g, T)}
<1>1. ASSUME NEW T \in SUBSET S, \A x \in T : T \ {x} \in G PROVE T \in G
  <2>1. IsFiniteSet(T)
    BY FS_Subset
  <2>2. CASE T = {}
    BY <2>2, SumOfNothing
  <2>3. CASE T # {}
    <3>1. Pick(T) \in T /\ T \ {Pick(T)} \in G
      BY <1>1, <2>1, <2>3, SumEquation
    <3>2. /\ SumFunctionOnSet(f, T) = f[Pick(T)] + SumFunctionOnSet(f, T \ {Pick(T)})
         /\ SumFunctionOnSet(g, T) = g[Pick(T)] + SumFunctionOnSet(g, T \ {Pick(T)})
      BY <2>1, <2>3, SumEquation
    <3> QED
      BY <3>1, <3>2
  <2> QED
    BY <2>2, <2>3
<1> HIDE DEF G
<1>2. S \in G
  BY <1>1, SubsetInduction
<1> QED
  BY <1>2 DEF G

(* Any element may be taken out first.                                     *)
LEMMA SumApart ==
  ASSUME NEW f, NEW S, IsFiniteSet(S), \A x \in S : f[x] \in Int, NEW a \in S
  PROVE  SumFunctionOnSet(f, S) = f[a] + SumFunctionOnSet(f, S \ {a})
<1> DEFINE G == {T \in SUBSET S : \A x \in T :
                   SumFunctionOnSet(f, T) = f[x] + SumFunctionOnSet(f, T \ {x})}
<1>1. ASSUME NEW T \in SUBSET S, \A x \in T : T \ {x} \in G PROVE T \in G
  <2> SUFFICES ASSUME NEW x \in T
               PROVE  SumFunctionOnSet(f, T) = f[x] + SumFunctionOnSet(f, T \ {x})
    OBVIOUS
  <2> DEFINE p == Pick(T)
             R == (T \ {p}) \ {x}
  <2>1. IsFiniteSet(T) /\ IsFiniteSet(T \ {x}) /\ IsFiniteSet(R)
    BY FS_Subset
  <2>2. p \in T /\ SumFunctionOnSet(f, T) = f[p] + SumFunctionOnSet(f, T \ {p})
    BY <2>1, SumEquation
  <2> HIDE DEF p
  <2>3. CASE p # x
    <3>1. SumFunctionOnSet(f, T \ {p}) = f[x] + SumFunctionOnSet(f, R)
      BY <1>1, <2>2, <2>3
    <3>2. SumFunctionOnSet(f, T \ {x}) = f[p] + SumFunctionOnSet(f, (T \ {x}) \ {p})
      BY <1>1, <2>2, <2>3
    <3>3. (T \ {x}) \ {p} = R
      OBVIOUS
    <3>4. SumFunctionOnSet(f, R) \in Int
      BY <2>1, SumIsInteger
    <3>5. f[x] \in Int /\ f[p] \in Int
      BY <2>2
    <3> HIDE DEF R
    <3>6. SumFunctionOnSet(f, T) = f[p] + (f[x] + SumFunctionOnSet(f, R))
      BY <2>2, <3>1
    <3>7. SumFunctionOnSet(f, T \ {x}) = f[p] + SumFunctionOnSet(f, R)
      BY <3>2, <3>3
    <3> QED
      BY <3>4, <3>5, <3>6, <3>7
  <2> QED
    BY <2>2, <2>3
<1> HIDE DEF G
<1>2. S \in G
  BY <1>1, SubsetInduction
<1> QED
  BY <1>2 DEF G

(* One element more adds its value.                                        *)
LEMMA SumWithOneMore ==
  ASSUME NEW f, NEW S, IsFiniteSet(S), \A x \in S : f[x] \in Int, NEW a, a \notin S, f[a] \in Int
  PROVE  SumFunctionOnSet(f, S \cup {a}) = f[a] + SumFunctionOnSet(f, S)
<1>1. IsFiniteSet(S \cup {a}) /\ (S \cup {a}) \ {a} = S
  BY FS_AddElement
<1> QED
  BY <1>1, SumApart

(* Changed at one point, the function has a sum that differs by as much.   *)
LEMMA SumOfChange ==
  ASSUME NEW f, NEW g, NEW S, IsFiniteSet(S), NEW a \in S,
         \A x \in S : f[x] \in Int /\ g[x] \in Int,
         \A x \in S \ {a} : g[x] = f[x]
  PROVE  SumFunctionOnSet(g, S) = SumFunctionOnSet(f, S) + g[a] - f[a]
<1>1. IsFiniteSet(S \ {a})
  BY FS_RemoveElement
<1>2. SumFunctionOnSet(g, S \ {a}) = SumFunctionOnSet(f, S \ {a})
  BY <1>1, SumIsOfSet
<1>3. /\ SumFunctionOnSet(g, S) = g[a] + SumFunctionOnSet(g, S \ {a})
      /\ SumFunctionOnSet(f, S) = f[a] + SumFunctionOnSet(f, S \ {a})
  BY SumApart
<1>4. SumFunctionOnSet(f, S \ {a}) \in Int
  BY <1>1, SumIsInteger
<1> QED
  BY <1>2, <1>3, <1>4

(* Of numbers that are not negative a part is no more than the whole.      *)
LEMMA SumOfPart ==
  ASSUME NEW f, NEW S, IsFiniteSet(S), \A x \in S : f[x] \in Nat, NEW R \in SUBSET S
  PROVE  SumFunctionOnSet(f, R) <= SumFunctionOnSet(f, S)
<1> DEFINE G == {T \in SUBSET S : R \subseteq T =>
                   SumFunctionOnSet(f, R) <= SumFunctionOnSet(f, T)}
<1>1. ASSUME NEW T \in SUBSET S, \A x \in T : T \ {x} \in G PROVE T \in G
  <2> SUFFICES ASSUME R \subseteq T
               PROVE  SumFunctionOnSet(f, R) <= SumFunctionOnSet(f, T)
    OBVIOUS
  <2>1. IsFiniteSet(T) /\ SumFunctionOnSet(f, R) \in Int
    BY FS_Subset, SumIsInteger
  <2>2. CASE R = T
    BY <2>1, <2>2
  <2>3. CASE R # T
    <3>1. PICK x \in T : x \notin R
      BY <2>3
    <3>2. SumFunctionOnSet(f, R) <= SumFunctionOnSet(f, T \ {x})
      BY <1>1, <3>1
    <3>3. SumFunctionOnSet(f, T) = f[x] + SumFunctionOnSet(f, T \ {x})
      BY <2>1, SumApart
    <3>4. SumFunctionOnSet(f, T \ {x}) \in Int
      BY FS_Subset, SumIsInteger
    <3> QED
      BY <2>1, <3>2, <3>3, <3>4
  <2> QED
    BY <2>2, <2>3
<1> HIDE DEF G
<1>2. S \in G
  BY <1>1, SubsetInduction
<1> QED
  BY <1>2 DEF G
=============================================================================
