----------------------------- MODULE FiniteSums -----------------------------
(***************************************************************************)
(* What the sums of the specifications come to.  MapThenSumSet takes the   *)
(* elements of a set one by one, with a recursive function.  That such a   *)
(* function exists, and what holds of it, is shown here by a least         *)
(* counterexample: a set that has one and no smaller set that has.         *)
(***************************************************************************)
EXTENDS Integers, FiniteSetsExt, FiniteSetTheorems, WellFoundedInduction, TLAPS

(* The sum of f over S, as the specifications write it. *)
SumOver(f, S) == MapThenSumSet(LAMBDA k : f[k], S)

(* The element a fold takes first. *)
Pick(s) == CHOOSE x \in s : TRUE

(* The sums over a set's subsets. *)
IsSums(g, f, T) == g = [s \in T |-> IF s = {} THEN 0 ELSE f[Pick(s)] + g[s \ {Pick(s)}]]
Sums(f, S) == CHOOSE g : g = [s \in SUBSET S |-> IF s = {} THEN 0 ELSE f[Pick(s)] + g[s \ {Pick(s)}]]

(* The subsets of no more than n elements. *)
Small(S, n) == {s \in SUBSET S : Cardinality(s) <= n}

(* A set of numbers has a least. *)
LEMMA LeastNumber ==
    ASSUME NEW T, T \subseteq Nat, T # {}
    PROVE  \E n \in T : \A m \in T : n <= m
  <1> DEFINE R == {ss \in Nat \X Nat : ss[1] < ss[2]}
  <1>1. \E n \in T : \A m \in T : ~(<<m, n>> \in R)
    <2>1. IsWellFoundedOn(R, Nat)
      BY NatLessThanWellFounded DEF OpToRel
    <2> HIDE DEF R
    <2> QED
      BY <2>1, WFMin
  <1>2. PICK n \in T : \A m \in T : ~(<<m, n>> \in R)
    BY <1>1
  <1>3. ASSUME NEW m \in T
        PROVE  n <= m
    <2>1. m \in Nat /\ n \in Nat /\ ~(<<m, n>> \in R)
      BY <1>2
    <2>2. ~(m < n)
      BY <2>1
    <2> QED
      BY <2>1, <2>2
  <1> QED
    BY <1>2, <1>3

(* What is taken from a set is in it. *)
LEMMA PickIsIn == \A s : s # {} => Pick(s) \in s
  BY DEF Pick

(* A set less one of its elements is one smaller. *)
LEMMA Smaller ==
    ASSUME NEW S, IsFiniteSet(S), NEW s \in SUBSET S
    PROVE  /\ IsFiniteSet(s) /\ Cardinality(s) \in Nat /\ Cardinality(s) <= Cardinality(S)
           /\ Cardinality(s) = 0 <=> s = {}
           /\ \A x \in s : /\ s \ {x} \in SUBSET S
                           /\ Cardinality(s \ {x}) = Cardinality(s) - 1
  <1>1. IsFiniteSet(s) /\ Cardinality(s) <= Cardinality(S)
    BY FS_Subset
  <1>2. Cardinality(s) \in Nat /\ (Cardinality(s) = 0 <=> s = {})
    BY <1>1, FS_CardinalityType, FS_EmptySet
  <1>3. \A x \in s : Cardinality(s \ {x}) = Cardinality(s) - 1
    BY <1>1, FS_RemoveElement
  <1> QED
    BY <1>1, <1>2, <1>3

(* What holds of the empty set, and of a set when it does of that set less an element,
   holds of all subsets. *)
LEMMA OneByOne ==
    ASSUME NEW S, IsFiniteSet(S), NEW T, {} \in T,
           \A s \in SUBSET S : s # {} /\ s \ {Pick(s)} \in T => s \in T
    PROVE  SUBSET S \subseteq T
  <1> SUFFICES ASSUME NEW u \in SUBSET S, u \notin T
               PROVE  FALSE
    OBVIOUS
  <1> DEFINE Bad == {Cardinality(s) : s \in (SUBSET S) \ T}
  <1>1. Bad \subseteq Nat /\ Bad # {}
    BY Smaller
  <1>2. PICK n \in Bad : \A m \in Bad : n <= m
    BY <1>1, LeastNumber
  <1>3. PICK s \in (SUBSET S) \ T : n = Cardinality(s)
    BY <1>2
  <1>4. s # {} /\ Pick(s) \in s
    BY PickIsIn
  <1>5. s \ {Pick(s)} \in SUBSET S /\ Cardinality(s \ {Pick(s)}) = Cardinality(s) - 1 /\ Cardinality(s) \in Nat
    BY <1>4, Smaller
  <1>6. s \ {Pick(s)} \in T
    <2>1. Cardinality(s \ {Pick(s)}) \notin Bad
      <3>1. ~(n <= Cardinality(s \ {Pick(s)}))
        BY <1>3, <1>5
      <3> HIDE DEF Bad
      <3> QED
        BY <1>2, <3>1
    <2> QED
      BY <1>5, <2>1
  <1> QED
    BY <1>3, <1>4, <1>6

(* There is a function that takes each subset to its sum. *)
LEMMA SumsExist ==
    ASSUME NEW S, IsFiniteSet(S), NEW f
    PROVE  \E g : IsSums(g, f, SUBSET S)
  <1> DEFINE Bad == {n \in Nat : ~\E g : IsSums(g, f, Small(S, n))}
  <1>1. Bad = {}
    <2> SUFFICES ASSUME Bad # {} PROVE FALSE
      OBVIOUS
    <2>1. PICK n \in Bad : \A m \in Bad : n <= m
      BY LeastNumber
    <2>2. n \in Nat /\ ~\E g : IsSums(g, f, Small(S, n))
      OBVIOUS
    <2>3. n # 0
      <3> SUFFICES ASSUME n = 0 PROVE FALSE
        OBVIOUS
      <3>1. Small(S, 0) = {{}}
        <4>1. \A s \in SUBSET S : Cardinality(s) <= 0 <=> s = {}
          BY Smaller
        <4> QED
          BY <4>1 DEF Small
      <3>2. IsSums([s \in {{}} |-> 0], f, Small(S, 0))
        BY <3>1 DEF IsSums
      <3> QED
        BY <2>2, <3>2
    <2>4. PICK g : IsSums(g, f, Small(S, n - 1))
      <3>1. n - 1 \in Nat /\ ~(n <= n - 1)
        BY <2>2, <2>3
      <3>2. n - 1 \notin Bad
        BY <2>1, <3>1
      <3> QED
        BY <3>1, <3>2
    <2> DEFINE h == [s \in Small(S, n) |-> IF s = {} THEN 0 ELSE f[Pick(s)] + g[s \ {Pick(s)}]]
    <2>5. ASSUME NEW s \in Small(S, n), s # {}
          PROVE  s \ {Pick(s)} \in Small(S, n - 1)
      BY <2>2, <2>5, PickIsIn, Smaller DEF Small
    <2>6. ASSUME NEW t \in Small(S, n - 1)
          PROVE  h[t] = g[t]
      <3>1. t \in Small(S, n)
        BY <2>2, Smaller DEF Small
      <3>2. g[t] = IF t = {} THEN 0 ELSE f[Pick(t)] + g[t \ {Pick(t)}]
        BY <2>4 DEF IsSums
      <3> QED
        BY <3>1, <3>2
    <2>7. h = [s \in Small(S, n) |-> IF s = {} THEN 0 ELSE f[Pick(s)] + h[s \ {Pick(s)}]]
      <3>1. \A s \in Small(S, n) : (IF s = {} THEN 0 ELSE f[Pick(s)] + g[s \ {Pick(s)}])
                                   = (IF s = {} THEN 0 ELSE f[Pick(s)] + h[s \ {Pick(s)}])
        BY <2>5, <2>6
      <3> QED
        BY <3>1
    <2> QED
      BY <2>2, <2>7 DEF IsSums
  <1>2. Small(S, Cardinality(S)) = SUBSET S
    BY Smaller DEF Small
  <1>3. Cardinality(S) \in Nat
    BY FS_CardinalityType
  <1>4. \E g : IsSums(g, f, Small(S, Cardinality(S)))
    BY <1>1, <1>3
  <1> QED
    BY <1>2, <1>4

(* So the one that the fold chooses is such a function. *)
LEMMA SumsAre ==
    ASSUME NEW S, IsFiniteSet(S), NEW f
    PROVE  IsSums(Sums(f, S), f, SUBSET S)
  <1>1. PICK h : IsSums(h, f, SUBSET S)
    BY SumsExist
  <1>2. h = [s \in SUBSET S |-> IF s = {} THEN 0 ELSE f[Pick(s)] + h[s \ {Pick(s)}]]
    BY <1>1 DEF IsSums
  <1> QED
    BY <1>2 DEF Sums, IsSums

(* The sum of a set is its first element's and that of the rest. *)
LEMMA SumStep ==
    ASSUME NEW S, IsFiniteSet(S), NEW f, NEW s \in SUBSET S, s # {}
    PROVE  Sums(f, S)[s] = f[Pick(s)] + Sums(f, S)[s \ {Pick(s)}]
  <1>1. IsSums(Sums(f, S), f, SUBSET S)
    BY SumsAre
  <1> QED
    BY <1>1 DEF IsSums

(* What the other lemmas go by, and all that is used of the fold. *)
LEMMA SumsUnfold ==
    ASSUME NEW S, IsFiniteSet(S), NEW f
    PROVE  /\ SumOver(f, S) = Sums(f, S)[S]
           /\ Sums(f, S)[{}] = 0
           /\ \A s \in SUBSET S : s # {} =>
                 Sums(f, S)[s] = f[Pick(s)] + Sums(f, S)[s \ {Pick(s)}]
  <1>1. SumOver(f, S) = Sums(f, S)[S]
    BY DEF SumOver, MapThenSumSet, MapThenFoldSet, Sums, Pick
  <1>2. IsSums(Sums(f, S), f, SUBSET S)
    BY SumsAre
  <1>3. Sums(f, S)[{}] = 0
    BY <1>2 DEF IsSums
  <1>4. \A s \in SUBSET S : s # {} => Sums(f, S)[s] = f[Pick(s)] + Sums(f, S)[s \ {Pick(s)}]
    BY SumStep
  <1> QED
    BY <1>1, <1>3, <1>4

-----------------------------------------------------------------------------
(* A sum over nothing is 0. *)
LEMMA SumOfNothing == ASSUME NEW f PROVE SumOver(f, {}) = 0
  BY SumsUnfold, FS_EmptySet

(* A sum of integers is one, and one of naturals is at least each of them. *)
LEMMA SumIsInt ==
    ASSUME NEW S, IsFiniteSet(S), NEW f, \A k \in S : f[k] \in Int
    PROVE  /\ SumOver(f, S) \in Int
           /\ \A s \in SUBSET S : Sums(f, S)[s] \in Int
  <1> DEFINE T == {s \in SUBSET S : Sums(f, S)[s] \in Int}
  <1>1. {} \in T
    BY SumsUnfold
  <1>2. ASSUME NEW s \in SUBSET S, s # {}, s \ {Pick(s)} \in T
        PROVE  s \in T
    <2>1. Sums(f, S)[s] = f[Pick(s)] + Sums(f, S)[s \ {Pick(s)}] /\ Pick(s) \in S
      BY <1>2, SumsUnfold, PickIsIn
    <2>2. f[Pick(s)] \in Int /\ Sums(f, S)[s \ {Pick(s)}] \in Int
      BY <1>2, <2>1
    <2> QED
      BY <2>1, <2>2
  <1>3. SUBSET S \subseteq T
    <2> HIDE DEF T
    <2> QED
      BY <1>1, <1>2, OneByOne
  <1> QED
    BY <1>3, SumsUnfold

(* A sum of naturals is one. *)
LEMMA SumIsNat ==
    ASSUME NEW S, IsFiniteSet(S), NEW f, \A k \in S : f[k] \in Nat
    PROVE  SumOver(f, S) \in Nat
  <1> DEFINE T == {s \in SUBSET S : Sums(f, S)[s] \in Nat}
  <1>1. {} \in T
    BY SumsUnfold
  <1>2. ASSUME NEW s \in SUBSET S, s # {}, s \ {Pick(s)} \in T
        PROVE  s \in T
    <2>1. Sums(f, S)[s] = f[Pick(s)] + Sums(f, S)[s \ {Pick(s)}] /\ Pick(s) \in S
      BY <1>2, SumsUnfold, PickIsIn
    <2>2. f[Pick(s)] \in Nat /\ Sums(f, S)[s \ {Pick(s)}] \in Nat
      BY <1>2, <2>1
    <2> QED
      BY <2>1, <2>2
  <1>3. SUBSET S \subseteq T
    <2> HIDE DEF T
    <2> QED
      BY <1>1, <1>2, OneByOne
  <1> QED
    BY <1>3, SumsUnfold

(* A sum of one or more positive numbers is positive. *)
LEMMA SumIsPositive ==
    ASSUME NEW S, IsFiniteSet(S), NEW f, \A k \in S : f[k] \in Nat \ {0}, S # {}
    PROVE  SumOver(f, S) \in Nat \ {0}
  <1>1. SumOver(f, S) \in Nat
    BY SumIsNat
  <1> DEFINE T == {s \in SUBSET S : s = {} \/ Sums(f, S)[s] \in Nat \ {0}}
  <1>2. {} \in T
    OBVIOUS
  <1>3. ASSUME NEW s \in SUBSET S, s # {}, s \ {Pick(s)} \in T
        PROVE  s \in T
    <2>1. Sums(f, S)[s] = f[Pick(s)] + Sums(f, S)[s \ {Pick(s)}] /\ Pick(s) \in S
      BY <1>3, SumsUnfold, PickIsIn
    <2>2. f[Pick(s)] \in Nat \ {0} /\ Sums(f, S)[s \ {Pick(s)}] \in Nat
      <3>1. Sums(f, S)[{}] = 0
        BY SumsUnfold
      <3> QED
        BY <1>3, <2>1, <3>1
    <2> QED
      BY <2>1, <2>2
  <1>4. SUBSET S \subseteq T
    <2> HIDE DEF T
    <2> QED
      BY <1>2, <1>3, OneByOne
  <1> QED
    BY <1>4, SumsUnfold

(* A sum goes by its terms; one that changes changes it by as much. *)
LEMMA SumChanges ==
    ASSUME NEW S, IsFiniteSet(S), NEW f, NEW g, NEW j \in S, NEW d \in Int,
           \A k \in S : f[k] \in Int,
           g[j] = f[j] + d, \A k \in S \ {j} : g[k] = f[k]
    PROVE  SumOver(g, S) = SumOver(f, S) + d
  <1> DEFINE T == {s \in SUBSET S : Sums(g, S)[s] = Sums(f, S)[s] + (IF j \in s THEN d ELSE 0)}
  <1>1. {} \in T
    BY SumsUnfold
  <1>2. ASSUME NEW s \in SUBSET S, s # {}, s \ {Pick(s)} \in T
        PROVE  s \in T
    <2>1. /\ Sums(f, S)[s] = f[Pick(s)] + Sums(f, S)[s \ {Pick(s)}]
          /\ Sums(g, S)[s] = g[Pick(s)] + Sums(g, S)[s \ {Pick(s)}]
          /\ Pick(s) \in S /\ Pick(s) \in s
      <3>1. Pick(s) \in S /\ Pick(s) \in s
        BY <1>2, PickIsIn
      <3>2. Sums(f, S)[s] = f[Pick(s)] + Sums(f, S)[s \ {Pick(s)}]
        BY ONLY IsFiniteSet(S), s \in SUBSET S, s # {}, SumStep
      <3>3. Sums(g, S)[s] = g[Pick(s)] + Sums(g, S)[s \ {Pick(s)}]
        BY ONLY IsFiniteSet(S), s \in SUBSET S, s # {}, SumStep
      <3> QED
        BY <3>1, <3>2, <3>3
    <2>2. f[Pick(s)] \in Int /\ Sums(f, S)[s \ {Pick(s)}] \in Int /\ Sums(f, S)[s] \in Int
      BY <2>1, SumIsInt
    <2>3. PICK a \in Int : a = Sums(f, S)[s \ {Pick(s)}]
      BY <2>2
    <2>4. Sums(g, S)[s \ {Pick(s)}] = a + (IF j \in s \ {Pick(s)} THEN d ELSE 0)
      BY <1>2, <2>3
    <2>5. CASE j = Pick(s)
      BY <2>1, <2>2, <2>3, <2>4, <2>5
    <2>6. CASE j # Pick(s)
      BY <2>1, <2>2, <2>3, <2>4, <2>6
    <2> QED
      BY <2>5, <2>6
  <1>3. SUBSET S \subseteq T
    <2> HIDE DEF T
    <2> QED
      BY <1>1, <1>2, OneByOne
  <1>4. Sums(g, S)[S] = Sums(f, S)[S] + d
    BY <1>3
  <1> QED
    BY <1>4, SumsUnfold

(* A sum goes up by one with one of its terms. *)
LEMMA SumCounts ==
    ASSUME NEW S, IsFiniteSet(S), NEW f, NEW g, NEW j \in S,
           \A k \in S : f[k] \in Int,
           g[j] = f[j] + 1, \A k \in S \ {j} : g[k] = f[k]
    PROVE  SumOver(g, S) = SumOver(f, S) + 1
  BY SumChanges

(* Sums of the same terms are the same. *)
LEMMA SumOfSame ==
    ASSUME NEW S, IsFiniteSet(S), NEW f, NEW g, \A k \in S : g[k] = f[k]
    PROVE  /\ SumOver(g, S) = SumOver(f, S)
           /\ \A s \in SUBSET S : Sums(g, S)[s] = Sums(f, S)[s]
  <1> DEFINE T == {s \in SUBSET S : Sums(g, S)[s] = Sums(f, S)[s]}
  <1>1. {} \in T
    BY SumsUnfold
  <1>2. ASSUME NEW s \in SUBSET S, s # {}, s \ {Pick(s)} \in T
        PROVE  s \in T
    <2>1. /\ Sums(f, S)[s] = f[Pick(s)] + Sums(f, S)[s \ {Pick(s)}]
          /\ Sums(g, S)[s] = g[Pick(s)] + Sums(g, S)[s \ {Pick(s)}]
          /\ Pick(s) \in S
      BY <1>2, SumsUnfold, PickIsIn
    <2> QED
      BY <1>2, <2>1
  <1>3. SUBSET S \subseteq T
    <2> HIDE DEF T
    <2> QED
      BY <1>1, <1>2, OneByOne
  <1> QED
    BY <1>3, SumsUnfold

(* A sum of zeros is 0. *)
LEMMA SumOfZeros ==
    ASSUME NEW S, IsFiniteSet(S), NEW f, \A k \in S : f[k] = 0
    PROVE  SumOver(f, S) = 0
  <1> DEFINE T == {s \in SUBSET S : Sums(f, S)[s] = 0}
  <1>1. {} \in T
    BY SumsUnfold
  <1>2. ASSUME NEW s \in SUBSET S, s # {}, s \ {Pick(s)} \in T
        PROVE  s \in T
    <2>1. Sums(f, S)[s] = f[Pick(s)] + Sums(f, S)[s \ {Pick(s)}] /\ Pick(s) \in S
      BY <1>2, SumsUnfold, PickIsIn
    <2> QED
      BY <1>2, <2>1
  <1>3. SUBSET S \subseteq T
    <2> HIDE DEF T
    <2> QED
      BY <1>1, <1>2, OneByOne
  <1> QED
    BY <1>3, SumsUnfold

(* A sum over one element is its term. *)
LEMMA SumOfOne ==
    ASSUME NEW k, NEW f, f[k] \in Int
    PROVE  SumOver(f, {k}) = f[k]
  <1>1. IsFiniteSet({k}) /\ {k} \in SUBSET {k} /\ {k} # {}
    BY FS_Singleton
  <1>2. Pick({k}) = k
    BY PickIsIn
  <1>3. Sums(f, {k})[{k}] = f[k] + Sums(f, {k})[{k} \ {k}]
    <2>1. PICK s : s = {k}
      OBVIOUS
    <2>2. Sums(f, s)[s] = f[Pick(s)] + Sums(f, s)[s \ {Pick(s)}]
      <3>1. IsFiniteSet(s) /\ s \in SUBSET s /\ s # {}
        BY <1>1, <2>1
      <3> QED
        BY ONLY <3>1, SumStep
    <2> QED
      BY <1>2, <2>1, <2>2
  <1>4. Sums(f, {k})[{}] = 0 /\ SumOver(f, {k}) = Sums(f, {k})[{k}]
    BY <1>1, SumsUnfold
  <1>5. {k} \ {k} = {}
    OBVIOUS
  <1> QED
    BY <1>3, <1>4, <1>5

(* The sum over a subset is the same whatever it is a subset of. *)
LEMMA SumsWithin ==
    ASSUME NEW S, IsFiniteSet(S), NEW T \in SUBSET S, NEW f
    PROVE  Sums(f, S)[T] = SumOver(f, T)
  <1>1. IsFiniteSet(T)
    BY FS_Subset
  <1> DEFINE U == {s \in SUBSET T : Sums(f, S)[s] = Sums(f, T)[s]}
  <1>2. {} \in U
    BY <1>1, SumsUnfold
  <1>3. ASSUME NEW s \in SUBSET T, s # {}, s \ {Pick(s)} \in U
        PROVE  s \in U
    <2>1. Sums(f, S)[s] = f[Pick(s)] + Sums(f, S)[s \ {Pick(s)}]
      <3>1. s \in SUBSET S
        OBVIOUS
      <3> QED
        BY ONLY IsFiniteSet(S), <3>1, <1>3, SumStep
    <2>2. Sums(f, T)[s] = f[Pick(s)] + Sums(f, T)[s \ {Pick(s)}]
      BY ONLY <1>1, <1>3, s \in SUBSET T, SumStep
    <2> QED
      BY <1>3, <2>1, <2>2
  <1>4. SUBSET T \subseteq U
    <2> HIDE DEF U
    <2> QED
      BY <1>1, <1>2, <1>3, OneByOne
  <1>5. Sums(f, S)[T] = Sums(f, T)[T]
    BY <1>4
  <1> QED
    BY <1>1, <1>5, SumsUnfold

(* Any of the terms may be taken first. *)
LEMMA SumTakes ==
    ASSUME NEW S, IsFiniteSet(S), NEW f, \A k \in S : f[k] \in Int, NEW j \in S
    PROVE  SumOver(f, S) = f[j] + SumOver(f, S \ {j})
  <1> DEFINE G(s) == Sums(f, S)[s]
             Bad == {n \in Nat : \E s \in SUBSET S : /\ Cardinality(s) = n
                                                    /\ \E i \in s : G(s) # f[i] + G(s \ {i})}
  <1>1. \A s \in SUBSET S : G(s) \in Int
    BY SumIsInt
  <1>2. \A s \in SUBSET S : s # {} => G(s) = f[Pick(s)] + G(s \ {Pick(s)}) /\ Pick(s) \in s
    BY SumsUnfold, PickIsIn
  <1>3. \A s \in SUBSET S : \A x \in s : /\ s \ {x} \in SUBSET S
                                         /\ Cardinality(s) \in Nat
                                         /\ Cardinality(s \ {x}) \in Nat
                                         /\ Cardinality(s \ {x}) = Cardinality(s) - 1
    <2> SUFFICES ASSUME NEW s \in SUBSET S, NEW x \in s
                 PROVE  /\ s \ {x} \in SUBSET S
                        /\ Cardinality(s) \in Nat
                        /\ Cardinality(s \ {x}) \in Nat
                        /\ Cardinality(s \ {x}) = Cardinality(s) - 1
      OBVIOUS
    <2>1. IsFiniteSet(s) /\ Cardinality(s) \in Nat /\ Cardinality(s \ {x}) = Cardinality(s) - 1
      BY Smaller
    <2>2. IsFiniteSet(s \ {x}) /\ Cardinality(s \ {x}) \in Nat
      <3>1. s \ {x} \in SUBSET S
        OBVIOUS
      <3> QED
        BY ONLY IsFiniteSet(S), <3>1, Smaller
    <2> QED
      BY <2>1, <2>2
  <1> HIDE DEF G
  <1>4. Bad = {}
    <2> SUFFICES ASSUME Bad # {} PROVE FALSE
      OBVIOUS
    <2>1. PICK n \in Bad : \A m \in Bad : n <= m
      BY LeastNumber
    <2>a. PICK s \in SUBSET S : Cardinality(s) = n /\ \E i \in s : G(s) # f[i] + G(s \ {i})
      OBVIOUS
    <2>2. PICK i \in s : Cardinality(s) = n /\ G(s) # f[i] + G(s \ {i})
      BY <2>a
    <2>3. PICK p \in s : p = Pick(s) /\ G(s) = f[p] + G(s \ {p})
      BY <1>2
    <2>4. p # i
      BY <2>2, <2>3
    <2>5. ASSUME NEW t \in SUBSET S, Cardinality(t) = n - 1, NEW x \in t
          PROVE  G(t) = f[x] + G(t \ {x})
      <3>0. Cardinality(t) \in Nat /\ n \in Nat
        BY <1>3, <2>5
      <3>1. n - 1 \in Nat /\ ~(n <= n - 1)
        BY ONLY <2>5, <3>0
      <3>2. n - 1 \notin Bad
        BY <2>1, <3>1
      <3>3. ~\E s1 \in SUBSET S : /\ Cardinality(s1) = n - 1
                                 /\ \E i1 \in s1 : G(s1) # f[i1] + G(s1 \ {i1})
        BY <3>1, <3>2
      <3> QED
        BY <3>3, <2>5
    <2>6. G(s \ {p}) = f[i] + G((s \ {p}) \ {i})
      <3>1. s \ {p} \in SUBSET S /\ Cardinality(s \ {p}) = n - 1 /\ i \in s \ {p}
        BY <1>3, <2>2, <2>4
      <3> QED
        BY <2>5, <3>1
    <2>7. G(s \ {i}) = f[p] + G((s \ {i}) \ {p})
      <3>1. s \ {i} \in SUBSET S /\ Cardinality(s \ {i}) = n - 1 /\ p \in s \ {i}
        BY <1>3, <2>2, <2>4
      <3> QED
        BY <2>5, <3>1
    <2>8. PICK rest \in SUBSET S : rest = (s \ {p}) \ {i} /\ rest = (s \ {i}) \ {p}
      OBVIOUS
    <2>9. G(s \ {p}) = f[i] + G(rest) /\ G(s \ {i}) = f[p] + G(rest)
      BY <2>6, <2>7, <2>8
    <2>10. f[i] \in Int /\ f[p] \in Int /\ G(rest) \in Int
      BY <1>1
    <2> QED
      BY <2>2, <2>3, <2>9, <2>10
  <1>5. G(S) = f[j] + G(S \ {j})
    <2>1. Cardinality(S) \in Nat
      BY FS_CardinalityType
    <2> QED
      BY <1>4, <2>1
  <1>6. G(S) = SumOver(f, S) /\ G(S \ {j}) = SumOver(f, S \ {j})
    BY SumsWithin DEF G
  <1> QED
    BY <1>5, <1>6

(* A sum over one more has its term more. *)
LEMMA SumAdds ==
    ASSUME NEW S, IsFiniteSet(S), NEW f, NEW j, j \notin S, f[j] \in Int, \A k \in S : f[k] \in Int
    PROVE  SumOver(f, S \cup {j}) = f[j] + SumOver(f, S)
  <1>1. PICK T : T = S \cup {j}
    OBVIOUS
  <1>2. IsFiniteSet(T) /\ (\A k \in T : f[k] \in Int) /\ j \in T
    BY <1>1, FS_AddElement
  <1>3. T \ {j} = S
    BY <1>1
  <1>4. SumOver(f, T) = f[j] + SumOver(f, T \ {j})
    BY ONLY <1>2, SumTakes
  <1> QED
    BY <1>1, <1>3, <1>4

-----------------------------------------------------------------------------
(* The largest and the smallest of a set *)

(* A finite set of integers has a largest. *)
LEMMA LargestExists ==
    ASSUME NEW S \in SUBSET Int, IsFiniteSet(S), S # {}
    PROVE  \E m \in S : \A x \in S : m >= x
  <1> DEFINE T == {s \in SUBSET S : s = {} \/ \E m \in s : \A x \in s : m >= x}
  <1>1. {} \in T
    OBVIOUS
  <1>2. ASSUME NEW s \in SUBSET S, s # {}, s \ {Pick(s)} \in T
        PROVE  s \in T
    <2>1. Pick(s) \in s /\ Pick(s) \in Int
      BY <1>2, PickIsIn
    <2>2. PICK p \in s : p = Pick(s)
      BY <2>1
    <2>3. CASE s \ {p} = {}
      BY <2>1, <2>2, <2>3
    <2>4. CASE s \ {p} # {}
      <3>1. PICK m \in s \ {p} : \A x \in s \ {p} : m >= x
        BY <1>2, <2>2, <2>4
      <3>2. CASE m >= p
        BY <3>1, <3>2
      <3>3. CASE ~(m >= p)
        <4>1. \A x \in s : p >= x
          BY <2>1, <2>2, <3>1, <3>3
        <4> QED
          BY <4>1
      <3> QED
        BY <3>2, <3>3
    <2> QED
      BY <2>3, <2>4
  <1>3. SUBSET S \subseteq T
    <2> HIDE DEF T
    <2> QED
      BY <1>1, <1>2, OneByOne
  <1> QED
    BY <1>3

(* A function takes a finite set to one. *)
LEMMA ImageIsFinite ==
    ASSUME NEW S, IsFiniteSet(S), NEW f
    PROVE  IsFiniteSet({f[x] : x \in S})
  <1> DEFINE T == {s \in SUBSET S : IsFiniteSet({f[x] : x \in s})}
  <1>1. {} \in T
    BY FS_EmptySet
  <1>2. ASSUME NEW s \in SUBSET S, s # {}, s \ {Pick(s)} \in T
        PROVE  s \in T
    <2>1. PICK k \in s : k = Pick(s)
      BY <1>2, PickIsIn
    <2>2. PICK a : a = {f[x] : x \in s \ {k}}
      OBVIOUS
    <2>3. IsFiniteSet(a \cup {f[k]})
      <3>1. IsFiniteSet(a)
        BY <1>2, <2>1, <2>2
      <3> QED
        BY ONLY <3>1, FS_AddElement
    <2>4. {f[x] : x \in s} = a \cup {f[k]}
      BY <2>1, <2>2
    <2> QED
      BY <2>3, <2>4
  <1>3. SUBSET S \subseteq T
    <2> HIDE DEF T
    <2> QED
      BY <1>1, <1>2, OneByOne
  <1> QED
    BY <1>3

(* Max finds the largest. *)
LEMMA MaxIsLargest ==
    ASSUME NEW S \in SUBSET Int, IsFiniteSet(S), S # {}
    PROVE  Max(S) \in S /\ \A x \in S : Max(S) >= x
  BY LargestExists DEF Max

(* Min finds the least of any set of naturals. *)
LEMMA MinIsLeast ==
    ASSUME NEW S \in SUBSET Nat, S # {}
    PROVE  Min(S) \in S /\ \A x \in S : Min(S) <= x
  BY LeastNumber DEF Min

(* What holds of 0, and of a number when it does of the one before, holds up to n. *)
LEMMA OneAfterOther ==
    ASSUME NEW n \in Nat, NEW T, 0 \in T, \A k \in 1 .. n : k - 1 \in T => k \in T
    PROVE  \A k \in 0 .. n : k \in T
  <1> SUFFICES ASSUME NEW j \in 0 .. n, j \notin T
               PROVE  FALSE
    OBVIOUS
  <1> DEFINE Bad == {k \in Nat : k \in 0 .. n /\ k \notin T}
  <1>1. PICK m \in Bad : \A k \in Bad : m <= k
    <2>1. Bad \subseteq Nat /\ Bad # {}
      OBVIOUS
    <2> QED
      BY <2>1, LeastNumber
  <1>2. m \in 1 .. n /\ m \notin T
    OBVIOUS
  <1>3. m - 1 \notin Bad
    <2>1. m \in Nat /\ ~(m <= m - 1)
      BY <1>2
    <2> HIDE DEF Bad
    <2> QED
      BY <1>1, <2>1
  <1>4. m - 1 \in T
    BY <1>2, <1>3
  <1> QED
    BY <1>2, <1>4

(* The largest of a few numbers is one of them. *)
LEMMA MaxIsIn ==
    ASSUME NEW S, IsFiniteSet(S), S \subseteq Nat, NEW s \in SUBSET S, s # {}
    PROVE  Max(s) \in s
  <1>1. IsFiniteSet(s) /\ s \in SUBSET Int
    <2>1. IsFiniteSet(s)
      BY Smaller
    <2> QED
      BY <2>1
  <1> QED
    BY ONLY <1>1, s # {}, MaxIsLargest

=============================================================================
