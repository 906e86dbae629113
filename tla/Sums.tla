-------------------------------- MODULE Sums --------------------------------
(***************************************************************************)
(* What the sum of a function over a finite set (SumFunctionOnSet of the   *)
(* community modules) is, for any function and set.  The recursion that    *)
(* defines it is unrolled by an argument over the smallest counterexample, *)
(* since "<" on the numbers is well founded.                               *)
(***************************************************************************)
EXTENDS Functions, FiniteSetTheorems, WellFoundedInduction, TLAPS

\* A set of numbers has a smallest one.
LEMMA SmallestOf ==
  ASSUME NEW T \in SUBSET Nat, T # {}
  PROVE  \E m \in T : \A n \in T : m <= n
<1>1. PICK m \in T : \A n \in T : <<n, m>> \notin OpToRel(<, Nat)
  BY NatLessThanWellFounded, WFMin
<1>2. \A n \in T : ~(n < m)
  BY <1>1 DEF OpToRel
<1> QED
  BY <1>2

\* One step of the recursion over the subsets of S: g is used on a smaller set only.
Smaller(f, S, g, s) ==
  IF s = {} THEN 0 ELSE LET x == CHOOSE x \in s : TRUE IN f[x] + g[s \ {x}]

\* Some function satisfies the recursion: up to any cardinality one does.
LEMMA IterExists ==
  ASSUME NEW f, NEW S, IsFiniteSet(S)
  PROVE  \E g : g = [s \in SUBSET S |-> Smaller(f, S, g, s)]
<1> DEFINE Upto(n) == \E g : \A s \in SUBSET S : Cardinality(s) <= n => g[s] = Smaller(f, S, g, s)
           T == {n \in Nat : ~Upto(n)}
<1>0. \A s \in SUBSET S : IsFiniteSet(s) /\ Cardinality(s) \in Nat
  BY FS_Subset, FS_CardinalityType
<1>1. Upto(0)
  <2> DEFINE g == [s \in SUBSET S |-> 0]
  <2>1. \A s \in SUBSET S : Cardinality(s) <= 0 => g[s] = Smaller(f, S, g, s)
    BY <1>0, FS_EmptySet DEF Smaller
  <2> QED
    BY <2>1
<1>2. ASSUME NEW n \in Nat, Upto(n) PROVE Upto(n + 1)
  <2>1. PICK g : \A s \in SUBSET S : Cardinality(s) <= n => g[s] = Smaller(f, S, g, s)
    BY <1>2
  <2> DEFINE h == [s \in SUBSET S |-> Smaller(f, S, g, s)]
  <2>2. ASSUME NEW s \in SUBSET S, Cardinality(s) <= n + 1 PROVE h[s] = Smaller(f, S, h, s)
    <3>1. CASE s = {}
      BY <3>1 DEF Smaller
    <3>2. CASE s # {}
      <4> DEFINE x == CHOOSE x \in s : TRUE
      <4>1. x \in s
        BY <3>2
      <4>2. s \ {x} \in SUBSET S /\ Cardinality(s \ {x}) <= n
        <5>1. IsFiniteSet(s) /\ Cardinality(s) \in Nat
          BY <1>0
        <5>2. Cardinality(s \ {x}) = Cardinality(s) - 1
          BY <4>1, <5>1, FS_RemoveElement
        <5> QED
          BY <2>2, <5>1, <5>2
      <4>3. h[s \ {x}] = g[s \ {x}]
        BY <2>1, <4>2
      <4> QED
        BY <3>2, <4>3 DEF Smaller
    <3> QED
      BY <3>1, <3>2
  <2> QED
    BY <2>2
<1> HIDE DEF Upto
<1>3. Upto(Cardinality(S))
  <2> SUFFICES ASSUME T # {} PROVE FALSE
    BY <1>0
  <2>1. PICK n \in T : \A m \in T : n <= m
    BY SmallestOf
  <2>2. n # 0 /\ n \in Nat /\ ~Upto(n)
    BY <1>1
  <2>3. n - 1 \notin T /\ n - 1 \in Nat
    BY <2>1, <2>2
  <2>4. Upto(n - 1)
    BY <2>3
  <2> QED
    BY <1>2, <2>2, <2>3, <2>4
<1>4. PICK g : \A s \in SUBSET S : Cardinality(s) <= Cardinality(S) => g[s] = Smaller(f, S, g, s)
  BY <1>3 DEF Upto
<1>5. \A s \in SUBSET S : g[s] = Smaller(f, S, g, s)
  BY <1>0, <1>4, FS_Subset
<1> DEFINE h == [s \in SUBSET S |-> g[s]]
<1>6. ASSUME NEW s \in SUBSET S PROVE h[s] = Smaller(f, S, h, s)
  <2>1. CASE s = {}
    BY <1>5, <2>1 DEF Smaller
  <2>2. CASE s # {}
    <3> DEFINE x == CHOOSE x \in s : TRUE
    <3>1. s \ {x} \in SUBSET S
      OBVIOUS
    <3> QED
      BY <1>5, <2>2, <3>1 DEF Smaller
  <2> QED
    BY <2>1, <2>2
<1>7. h = [s \in SUBSET S |-> Smaller(f, S, h, s)]
  BY <1>6
<1> QED
  BY <1>7

\* The function that the sum is defined by.
Iter(f, S) == CHOOSE g : g = [s \in SUBSET S |-> Smaller(f, S, g, s)]

\* The definition of the sum, in these terms.
LEMMA SumIsIter == \A f, S : SumFunctionOnSet(f, S) = Iter(f, S)[S]
BY DEF SumFunctionOnSet, FoldFunctionOnSet, MapThenFoldSet, Iter, Smaller

\* Its value on a subset.
LEMMA IterStep ==
  ASSUME NEW f, NEW S, IsFiniteSet(S), NEW s \in SUBSET S
  PROVE  /\ s = {} => Iter(f, S)[s] = 0
         /\ s # {} => \E x \in s : x = (CHOOSE y \in s : TRUE)
                                 /\ Iter(f, S)[s] = f[x] + Iter(f, S)[s \ {x}]
<1>1. Iter(f, S) = [t \in SUBSET S |-> Smaller(f, S, Iter(f, S), t)]
  BY IterExists DEF Iter
<1>2. Iter(f, S)[s] = Smaller(f, S, Iter(f, S), s)
  BY <1>1
<1> QED
  BY <1>2 DEF Smaller

\* The recursion of a larger set gives the sum of a smaller one.
LEMMA IterIsSum ==
  ASSUME NEW f, NEW S, IsFiniteSet(S)
  PROVE  \A U \in SUBSET S : \A s \in SUBSET U : Iter(f, U)[s] = SumFunctionOnSet(f, s)
<1>0. \A s \in SUBSET S : IsFiniteSet(s) /\ Cardinality(s) \in Nat
  BY FS_Subset, FS_CardinalityType
<1> DEFINE Bad(s) == \E U \in SUBSET S : s \in SUBSET U /\ Iter(f, U)[s] # SumFunctionOnSet(f, s)
           T == {n \in Nat : \E s \in SUBSET S : Cardinality(s) = n /\ Bad(s)}
<1> SUFFICES ASSUME T # {} PROVE FALSE
  BY <1>0
<1>1. PICK n \in T : \A m \in T : n <= m
  BY SmallestOf
<1>2. PICK s \in SUBSET S : Cardinality(s) = n /\ Bad(s)
  BY <1>1
<1>3. PICK U \in SUBSET S : s \in SUBSET U /\ Iter(f, U)[s] # SumFunctionOnSet(f, s)
  BY <1>2
<1>4. IsFiniteSet(U) /\ IsFiniteSet(s) /\ s \in SUBSET s /\ Cardinality(s) \in Nat
  BY <1>0
<1>5. SumFunctionOnSet(f, s) = Iter(f, s)[s]
  BY SumIsIter
<1>6. CASE s = {}
  BY <1>3, <1>4, <1>5, <1>6, IterStep
<1>7. CASE s # {}
  <2>1. PICK x \in s : x = (CHOOSE y \in s : TRUE) /\ Iter(f, U)[s] = f[x] + Iter(f, U)[s \ {x}]
    BY <1>3, <1>4, <1>7, IterStep
  <2>2. PICK z \in s : z = (CHOOSE y \in s : TRUE) /\ Iter(f, s)[s] = f[z] + Iter(f, s)[s \ {z}]
    BY <1>4, <1>7, IterStep
  <2>3. Cardinality(s \ {x}) = Cardinality(s) - 1
    BY <1>4, FS_RemoveElement
  <2>4. s \ {x} \in SUBSET S /\ s \ {x} \in SUBSET U /\ s \ {x} \in SUBSET s /\ s \in SUBSET S
    BY <1>3
  <2>5. ~Bad(s \ {x})
    <3>1. Cardinality(s \ {x}) \in Nat
      BY <1>0, <2>4
    <3>2. Cardinality(s \ {x}) \notin T
      <4>1. Cardinality(s \ {x}) < n /\ n \in Nat
        BY <1>2, <1>4, <2>3
      <4> HIDE DEF T
      <4> QED
        BY <1>1, <3>1, <4>1
    <3> QED
      BY <2>4, <3>1, <3>2
  <2>6. Iter(f, U)[s \ {x}] = Iter(f, s)[s \ {x}]
    BY <2>4, <2>5
  <2> QED
    BY <1>3, <1>5, <2>1, <2>2, <2>6
<1> QED
  BY <1>6, <1>7

\* The sum of no values.
LEMMA SumEmpty == \A f : SumFunctionOnSet(f, {}) = 0
BY SumIsIter, IterStep, FS_EmptySet

\* The element that the recursion takes out first.
LEMMA SumChoice ==
  ASSUME NEW f, NEW S, IsFiniteSet(S), S # {}
  PROVE  \E x \in S : /\ x = (CHOOSE y \in S : TRUE)
                      /\ SumFunctionOnSet(f, S) = f[x] + SumFunctionOnSet(f, S \ {x})
<1>1. PICK x \in S : x = (CHOOSE y \in S : TRUE) /\ Iter(f, S)[S] = f[x] + Iter(f, S)[S \ {x}]
  BY IterStep
<1>2. S \ {x} \in SUBSET S /\ S \in SUBSET S
  OBVIOUS
<1>3. Iter(f, S)[S \ {x}] = SumFunctionOnSet(f, S \ {x})
  BY <1>2, IterIsSum
<1> QED
  BY <1>1, <1>3, SumIsIter

\* Induction over the subsets of a finite set: a set of subsets that has the empty
\* one, and with each its extensions by an element, has all of them.
LEMMA FiniteInduction ==
  ASSUME NEW S, IsFiniteSet(S), NEW Good, {} \in Good,
         \A U \in SUBSET S : U # {} /\ (\A x \in U : U \ {x} \in Good) => U \in Good
  PROVE  \A U \in SUBSET S : U \in Good
<1>0. \A s \in SUBSET S : IsFiniteSet(s) /\ Cardinality(s) \in Nat
  BY FS_Subset, FS_CardinalityType
<1> DEFINE T == {n \in Nat : \E s \in SUBSET S : Cardinality(s) = n /\ s \notin Good}
<1> SUFFICES ASSUME T # {} PROVE FALSE
  BY <1>0
<1>1. PICK n \in T : \A m \in T : n <= m
  BY SmallestOf
<1>2. PICK s \in SUBSET S : Cardinality(s) = n /\ s \notin Good
  BY <1>1
<1>3. ASSUME NEW x \in s PROVE s \ {x} \in Good
  <2>1. Cardinality(s \ {x}) = Cardinality(s) - 1
    BY <1>0, FS_RemoveElement
  <2>2. Cardinality(s \ {x}) \in Nat /\ s \ {x} \in SUBSET S
    BY <1>0
  <2>3. Cardinality(s \ {x}) \notin T
    <3>1. Cardinality(s \ {x}) < n /\ n \in Nat
      BY <1>0, <1>2, <2>1
    <3> HIDE DEF T
    <3> QED
      BY <1>1, <2>2, <3>1
  <2> QED
    BY <2>2, <2>3
<1> QED
  BY <1>2, <1>3

\* The sum of integers is one.
LEMMA SumType ==
  ASSUME NEW f, NEW S, IsFiniteSet(S), \A x \in S : f[x] \in Int
  PROVE  SumFunctionOnSet(f, S) \in Int
<1> DEFINE Good == {U \in SUBSET S : SumFunctionOnSet(f, U) \in Int}
<1>1. {} \in Good
  BY SumEmpty
<1>2. ASSUME NEW U \in SUBSET S, U # {}, \A x \in U : U \ {x} \in Good PROVE U \in Good
  <2>1. PICK x \in U : SumFunctionOnSet(f, U) = f[x] + SumFunctionOnSet(f, U \ {x})
    BY <1>2, SumChoice, FS_Subset
  <2> QED
    BY <1>2, <2>1
<1> HIDE DEF Good
<1>3. \A U \in SUBSET S : U \in Good
  BY <1>1, <1>2, FiniteInduction
<1> QED
  BY <1>3 DEF Good

\* Any element may be taken out of the sum.
LEMMA SumTakeOut ==
  ASSUME NEW f, NEW S, IsFiniteSet(S), \A x \in S : f[x] \in Int
  PROVE  \A x \in S : SumFunctionOnSet(f, S) = f[x] + SumFunctionOnSet(f, S \ {x})
<1> DEFINE Good == {U \in SUBSET S : \A x \in U :
                      SumFunctionOnSet(f, U) = f[x] + SumFunctionOnSet(f, U \ {x})}
<1>1. {} \in Good
  OBVIOUS
<1>2. ASSUME NEW U \in SUBSET S, U # {}, \A x \in U : U \ {x} \in Good PROVE U \in Good
  <2>1. PICK c \in U : SumFunctionOnSet(f, U) = f[c] + SumFunctionOnSet(f, U \ {c})
    BY <1>2, SumChoice, FS_Subset
  <2>2. ASSUME NEW x \in U, x # c
        PROVE  SumFunctionOnSet(f, U) = f[x] + SumFunctionOnSet(f, U \ {x})
    <3>1. (U \ {c}) \ {x} = (U \ {x}) \ {c}
      OBVIOUS
    <3>2. SumFunctionOnSet(f, U \ {c}) = f[x] + SumFunctionOnSet(f, (U \ {x}) \ {c})
      BY <1>2, <2>2, <3>1
    <3>3. SumFunctionOnSet(f, U \ {x}) = f[c] + SumFunctionOnSet(f, (U \ {x}) \ {c})
      BY <1>2, <2>2
    <3>4. SumFunctionOnSet(f, (U \ {x}) \ {c}) \in Int /\ f[x] \in Int /\ f[c] \in Int
      <4>1. (U \ {x}) \ {c} \subseteq S
        OBVIOUS
      <4> QED
        BY <4>1, SumType, FS_Subset
    <3> QED
      BY <2>1, <3>2, <3>3, <3>4
  <2> QED
    BY <2>1, <2>2
<1> HIDE DEF Good
<1>3. \A U \in SUBSET S : U \in Good
  BY <1>1, <1>2, FiniteInduction
<1> QED
  BY <1>3 DEF Good

\* Only the values on the set matter.
LEMMA SumSame ==
  ASSUME NEW f, NEW g, NEW S, IsFiniteSet(S), \A x \in S : f[x] = g[x]
  PROVE  SumFunctionOnSet(f, S) = SumFunctionOnSet(g, S)
<1> DEFINE Good == {U \in SUBSET S : SumFunctionOnSet(f, U) = SumFunctionOnSet(g, U)}
<1>1. {} \in Good
  BY SumEmpty
<1>2. ASSUME NEW U \in SUBSET S, U # {}, \A x \in U : U \ {x} \in Good PROVE U \in Good
  <2>1. PICK x \in U : x = (CHOOSE y \in U : TRUE) /\ SumFunctionOnSet(f, U) = f[x] + SumFunctionOnSet(f, U \ {x})
    BY <1>2, SumChoice, FS_Subset
  <2>2. PICK z \in U : z = (CHOOSE y \in U : TRUE) /\ SumFunctionOnSet(g, U) = g[z] + SumFunctionOnSet(g, U \ {z})
    BY <1>2, SumChoice, FS_Subset
  <2> QED
    BY <1>2, <2>1, <2>2
<1> HIDE DEF Good
<1>3. \A U \in SUBSET S : U \in Good
  BY <1>1, <1>2, FiniteInduction
<1> QED
  BY <1>3 DEF Good

\* A sum of nothing but zeros.
LEMMA SumZero ==
  ASSUME NEW f, NEW S, IsFiniteSet(S), \A x \in S : f[x] = 0
  PROVE  SumFunctionOnSet(f, S) = 0
<1> DEFINE Good == {U \in SUBSET S : SumFunctionOnSet(f, U) = 0}
<1>1. {} \in Good
  BY SumEmpty
<1>2. ASSUME NEW U \in SUBSET S, U # {}, \A x \in U : U \ {x} \in Good PROVE U \in Good
  <2>1. PICK x \in U : SumFunctionOnSet(f, U) = f[x] + SumFunctionOnSet(f, U \ {x})
    BY <1>2, SumChoice, FS_Subset
  <2> QED
    BY <1>2, <2>1
<1> HIDE DEF Good
<1>3. \A U \in SUBSET S : U \in Good
  BY <1>1, <1>2, FiniteInduction
<1> QED
  BY <1>3 DEF Good

\* An element is added to the set.
LEMMA SumAdd ==
  ASSUME NEW f, NEW S, IsFiniteSet(S), NEW x, x \notin S, \A y \in S \cup {x} : f[y] \in Int
  PROVE  SumFunctionOnSet(f, S \cup {x}) = SumFunctionOnSet(f, S) + f[x]
<1>1. IsFiniteSet(S \cup {x}) /\ (S \cup {x}) \ {x} = S
  BY FS_AddElement
<1>2. SumFunctionOnSet(f, S \cup {x}) = f[x] + SumFunctionOnSet(f, S)
  BY <1>1, SumTakeOut
<1> QED
  BY <1>2, SumType

\* A sum changes by as much as one of its values.
LEMMA SumChange ==
  ASSUME NEW f, NEW g, NEW S, IsFiniteSet(S), NEW x \in S,
         \A y \in S : f[y] \in Int /\ g[y] \in Int, \A y \in S \ {x} : g[y] = f[y]
  PROVE  SumFunctionOnSet(g, S) = SumFunctionOnSet(f, S) + g[x] - f[x]
<1>1. IsFiniteSet(S \ {x})
  BY FS_RemoveElement
<1>2. SumFunctionOnSet(g, S \ {x}) = SumFunctionOnSet(f, S \ {x})
  BY <1>1, SumSame
<1>3. /\ SumFunctionOnSet(f, S) = f[x] + SumFunctionOnSet(f, S \ {x})
      /\ SumFunctionOnSet(g, S) = g[x] + SumFunctionOnSet(g, S \ {x})
  BY SumTakeOut
<1>4. SumFunctionOnSet(f, S \ {x}) \in Int /\ f[x] \in Int /\ g[x] \in Int
  BY <1>1, SumType
<1> QED
  BY <1>2, <1>3, <1>4

\* A sum of natural numbers is one, and no summand exceeds it.
LEMMA SumNat ==
  ASSUME NEW f, NEW S, IsFiniteSet(S), \A x \in S : f[x] \in Nat
  PROVE  SumFunctionOnSet(f, S) \in Nat /\ \A x \in S : f[x] <= SumFunctionOnSet(f, S)
<1> DEFINE Good == {U \in SUBSET S : SumFunctionOnSet(f, U) \in Nat}
<1>1. {} \in Good
  BY SumEmpty
<1>2. ASSUME NEW U \in SUBSET S, U # {}, \A x \in U : U \ {x} \in Good PROVE U \in Good
  <2>1. PICK x \in U : SumFunctionOnSet(f, U) = f[x] + SumFunctionOnSet(f, U \ {x})
    BY <1>2, SumChoice, FS_Subset
  <2> QED
    BY <1>2, <2>1
<1> HIDE DEF Good
<1>3. \A U \in SUBSET S : U \in Good
  BY <1>1, <1>2, FiniteInduction
<1>4. ASSUME NEW x \in S PROVE f[x] <= SumFunctionOnSet(f, S)
  <2>1. SumFunctionOnSet(f, S) = f[x] + SumFunctionOnSet(f, S \ {x})
    BY SumTakeOut
  <2>2. SumFunctionOnSet(f, S \ {x}) \in Nat
    BY <1>3 DEF Good
  <2> QED
    BY <2>1, <2>2
<1> QED
  BY <1>3, <1>4 DEF Good

\* The sum over a set is that over a part of it and that over the rest.
LEMMA SumSplit ==
  ASSUME NEW f, NEW S, IsFiniteSet(S), \A x \in S : f[x] \in Int, NEW T \in SUBSET S
  PROVE  SumFunctionOnSet(f, S) = SumFunctionOnSet(f, T) + SumFunctionOnSet(f, S \ T)
<1> DEFINE Good == {U \in SUBSET T :
             SumFunctionOnSet(f, S) = SumFunctionOnSet(f, U) + SumFunctionOnSet(f, S \ U)}
<1>0. IsFiniteSet(T) /\ \A U \in SUBSET S : IsFiniteSet(U) /\ SumFunctionOnSet(f, U) \in Int
  BY FS_Subset, SumType
<1>1. {} \in Good
  <2>1. S \ {} = S
    OBVIOUS
  <2>2. SumFunctionOnSet(f, S) \in Int
    BY <1>0
  <2> QED
    BY <2>1, <2>2, SumEmpty
<1>2. ASSUME NEW U \in SUBSET T, U # {}, \A x \in U : U \ {x} \in Good PROVE U \in Good
  <2>1. PICK x \in U : TRUE
    BY <1>2
  <2> DEFINE A == U \ {x}
             B == S \ U
  <2>2. A \in SUBSET S /\ B \in SUBSET S /\ U \in SUBSET S /\ S \ A = B \cup {x} /\ x \notin B
        /\ f[x] \in Int
    BY <2>1
  <2>3. SumFunctionOnSet(f, S) = SumFunctionOnSet(f, A) + SumFunctionOnSet(f, S \ A)
    BY <1>2, <2>1
  <2>4. SumFunctionOnSet(f, U) = f[x] + SumFunctionOnSet(f, A)
    BY <1>0, <2>1, <2>2, SumTakeOut
  <2>5. SumFunctionOnSet(f, B \cup {x}) = SumFunctionOnSet(f, B) + f[x]
    <3>1. \A y \in B \cup {x} : f[y] \in Int
      BY <2>2
    <3> QED
      BY <1>0, <2>2, <3>1, SumAdd
  <2>6. /\ SumFunctionOnSet(f, A) \in Int /\ SumFunctionOnSet(f, B) \in Int
    BY <1>0, <2>2
  <2>7. SumFunctionOnSet(f, S \ A) = SumFunctionOnSet(f, B \cup {x}) /\ f[x] \in Int
    BY <2>2
  <2> HIDE DEF A, B
  <2>8. SumFunctionOnSet(f, S) = SumFunctionOnSet(f, U) + SumFunctionOnSet(f, B)
    BY <2>3, <2>4, <2>5, <2>6, <2>7
  <2> QED
    BY <2>8 DEF B
<1> HIDE DEF Good
<1>3. \A U \in SUBSET T : U \in Good
  BY <1>0, <1>1, <1>2, FiniteInduction
<1>4. T \in Good
  BY <1>3
<1> QED
  BY <1>4 DEF Good

\* If each value of f is, in units of w, at most k times that of g and one unit, their
\* sums are, but for as many units as there are values.
LEMMA SumBound ==
  ASSUME NEW f, NEW g, NEW S, IsFiniteSet(S), NEW w \in Nat, NEW k \in Nat,
         \A x \in S : f[x] \in Int /\ g[x] \in Int /\ w * f[x] <= k * g[x] + w
  PROVE  w * SumFunctionOnSet(f, S) <= k * SumFunctionOnSet(g, S) + w * Cardinality(S)
<1> DEFINE Bounded(U) ==
             w * SumFunctionOnSet(f, U) <= k * SumFunctionOnSet(g, U) + w * Cardinality(U)
           Good == {U \in SUBSET S : Bounded(U)}
<1>0. \A U \in SUBSET S : /\ IsFiniteSet(U) /\ Cardinality(U) \in Nat
                          /\ SumFunctionOnSet(f, U) \in Int /\ SumFunctionOnSet(g, U) \in Int
  BY FS_Subset, FS_CardinalityType, SumType
<1>1. {} \in Good
  BY SumEmpty, FS_EmptySet
<1>2. ASSUME NEW U \in SUBSET S, U # {}, \A x \in U : U \ {x} \in Good PROVE U \in Good
  <2>1. PICK x \in U : TRUE
    BY <1>2
  <2> DEFINE A == U \ {x}
             fa == SumFunctionOnSet(f, A)
             ga == SumFunctionOnSet(g, A)
             n == Cardinality(A)
             fx == f[x]
             gx == g[x]
  <2>2. A \in SUBSET S /\ fx \in Int /\ gx \in Int /\ w * fx <= k * gx + w
    BY <2>1
  <2>3. fa \in Int /\ ga \in Int /\ n \in Nat
    BY <1>0, <2>2
  <2>4. w * fa <= k * ga + w * n
    BY <1>2, <2>1
  <2>5. SumFunctionOnSet(f, U) = fx + fa /\ SumFunctionOnSet(g, U) = gx + ga
    BY <1>0, <2>1, SumTakeOut
  <2>6. Cardinality(U) = n + 1
    BY <1>0, <2>1, <2>3, FS_RemoveElement
  <2> HIDE DEF A, fa, ga, n, fx, gx
  <2>7. w * (fx + fa) <= k * (gx + ga) + w * (n + 1)
    <3>1. w * (fx + fa) = w * fx + w * fa /\ k * (gx + ga) = k * gx + k * ga /\ w * (n + 1) = w * n + w
      BY <2>2, <2>3, Z3
    <3>2. /\ w * fx \in Int /\ w * fa \in Int /\ k * gx \in Int /\ k * ga \in Int /\ w * n \in Int
      BY <2>2, <2>3
    <3> QED
      BY <2>2, <2>4, <3>1, <3>2
  <2>8. Bounded(U)
    BY <2>5, <2>6, <2>7
  <2> QED
    BY <2>8
<1> HIDE DEF Good
<1>3. \A U \in SUBSET S : U \in Good
  BY <1>1, <1>2, FiniteInduction
<1>4. S \in Good
  BY <1>3
<1> QED
  BY <1>4 DEF Good
=============================================================================
