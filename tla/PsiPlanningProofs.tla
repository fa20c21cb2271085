--------------------------- MODULE PsiPlanningProofs ---------------------------
(***************************************************************************)
(* Proofs about PsiPlanning and the inputs it is given, for every calendar, *)
(* every set of prepared inputs and every set of proposals: types, the      *)
(* dominance of the recommended projection over the baseline, the capacity  *)
(* guarantee of the guard, the books a projection keeps, the orders it      *)
(* receives and the position they reach; and, under PreparedSpec, that what *)
(* a Run plans with is what its request pins, whatever the sources answer   *)
(* while they are read and wherever the producer is started again.          *)
(***************************************************************************)
EXTENDS PreparedPlanning, SequenceTheorems, FiniteSetTheorems, WellFoundedInduction,
        TLAPS

-----------------------------------------------------------------------------
(* Induction, in a form whose premise is a set.                             *)

\* A nonempty set of naturals up to a bound has a least element.
LEMMA LeastElement ==
  ASSUME NEW S, S \subseteq Nat, S # {}
  PROVE  \E m \in S : \A k \in S : m <= k
<1> DEFINE T == {0..m : m \in S}
           R == StrictSubsetOrdering(Nat)
<1>1. T \subseteq FiniteSubsetsOf(Nat)
  <2> SUFFICES ASSUME NEW m \in S
               PROVE  0..m \in FiniteSubsetsOf(Nat)
    OBVIOUS
  <2>1. m \in Int /\ 0 \in Int /\ 0..m \subseteq Nat
    OBVIOUS
  <2>2. IsFiniteSet(0..m)
    BY <2>1, FS_Interval
  <2> QED BY <2>1, <2>2 DEF FiniteSubsetsOf
<1>2. T # {}
  OBVIOUS
<1>3. PICK x \in T : \A y \in T : <<y, x>> \notin R
  <2> HIDE DEF T, R
  <2> QED BY <1>1, <1>2, FS_StrictSubsetOrderingWellFounded, WFMin DEF R
<1>4. PICK m \in S : x = 0..m
  OBVIOUS
<1>5. ASSUME NEW k \in S, k < m
      PROVE  FALSE
  <2>1. 0..k \in T /\ 0..k \subseteq 0..m /\ m \notin 0..k /\ m \in 0..m
    BY <1>5
  <2>2. <<0..k, 0..m>> \in R
    BY <2>1 DEF StrictSubsetOrdering
  <2> QED BY <2>1, <2>2, <1>3, <1>4
<1> QED BY <1>5

\* A set of naturals up to a bound that holds zero and is closed under successor
\* holds every number up to the bound.
LEMMA Induction ==
  ASSUME NEW S, 0 \in S, \A n \in Nat : n \in S => n + 1 \in S
  PROVE  Nat \subseteq S
<1> SUFFICES ASSUME Nat \ S # {}
             PROVE  FALSE
  OBVIOUS
<1>1. PICK m \in Nat \ S : \A k \in Nat \ S : m <= k
  BY LeastElement
<1>2. m # 0 /\ m - 1 \in Nat /\ m - 1 \in S /\ m = (m - 1) + 1
  BY <1>1
<1> QED BY <1>2

-----------------------------------------------------------------------------
(* Sums over finite sets.                                                   *)

\* Induction over a finite set, in a form whose premise is a set: what holds of
\* a subset when it holds of those with one element less holds of the set.
LEMMA SubsetInduction ==
  ASSUME NEW U, IsFiniteSet(U), NEW P,
         \A T \in SUBSET U : (\A x \in T : T \ {x} \in P) => T \in P
  PROVE  U \in P
<1> DEFINE R == StrictSubsetOrdering(U)
           Bad == {T \in SUBSET U : T \notin P}
<1> SUFFICES ASSUME U \notin P
             PROVE  FALSE
  OBVIOUS
<1>1. Bad \subseteq FiniteSubsetsOf(U) /\ Bad # {}
  BY FS_FiniteSubsetsOfFinite
<1>2. PICK T \in Bad : \A y \in Bad : <<y, T>> \notin R
  <2> HIDE DEF Bad, R
  <2> QED BY <1>1, FS_StrictSubsetOrderingWellFounded, WFMin DEF R
<1>3. ASSUME NEW x \in T
      PROVE  T \ {x} \in P
  <2>1. <<T \ {x}, T>> \in R
    BY DEF StrictSubsetOrdering
  <2> QED BY <1>2, <2>1
<1> QED BY <1>2, <1>3

\* One element of a set.
One(S) == CHOOSE x \in S : TRUE

LEMMA OneOf ==
  ASSUME NEW S, S # {}
  PROVE  One(S) \in S
BY DEF One

\* The terms of a sum, taken one by one.
Summing(f, S) ==
  CHOOSE t : t = [s \in SUBSET S |-> IF s = {} THEN 0 ELSE f[One(s)] + t[s \ {One(s)}]]

Sums(t, f, S) ==
  t = [s \in SUBSET S |-> IF s = {} THEN 0 ELSE f[One(s)] + t[s \ {One(s)}]]

\* Total is the library's fold.
LEMMA TotalIsSumming ==
  ASSUME NEW f, NEW S
  PROVE  Total(f, S) = Summing(f, S)[S]
BY DEF Total, SumFunctionOnSet, FoldFunctionOnSet, MapThenFoldSet, Summing, One

\* The recursion over the subsets of a finite set exists.
LEMMA SummingDef ==
  ASSUME NEW f, NEW S, IsFiniteSet(S)
  PROVE  Sums(Summing(f, S), f, S)
<1> DEFINE Layer(n) == {s \in SUBSET S : Cardinality(s) <= n}
           Body(t, s) == IF s = {} THEN 0 ELSE f[One(s)] + t[s \ {One(s)}]
           P == {n \in Nat : \E t : t = [s \in Layer(n) |-> Body(t, s)]}
<1>1. ASSUME NEW s \in SUBSET S
      PROVE  /\ Cardinality(s) \in Nat /\ Cardinality(s) <= Cardinality(S)
             /\ Cardinality(s) = 0 => s = {}
             /\ s # {} => /\ s \ {One(s)} \in SUBSET S
                          /\ Cardinality(s \ {One(s)}) = Cardinality(s) - 1
  <2>1. IsFiniteSet(s) /\ Cardinality(s) <= Cardinality(S)
    BY FS_Subset
  <2>2. s # {} => Cardinality(s \ {One(s)}) = Cardinality(s) - 1
    BY <2>1, FS_RemoveElement, OneOf
  <2> QED BY <2>1, <2>2, FS_CardinalityType, FS_EmptySet
<1>2. 0 \in P
  <2> DEFINE t == [s \in Layer(0) |-> 0]
  <2>1. ASSUME NEW s \in Layer(0)
        PROVE  s = {}
    <3>1. s \in SUBSET S /\ Cardinality(s) <= 0
      OBVIOUS
    <3>2. Cardinality(s) \in Nat /\ (Cardinality(s) = 0 => s = {})
      BY <1>1, <3>1
    <3> HIDE DEF Layer
    <3> QED BY <3>1, <3>2
  <2>2. t = [s \in Layer(0) |-> Body(t, s)]
    BY <2>1
  <2> QED BY <2>2
<1>3. ASSUME NEW n \in Nat, n \in P
      PROVE  n + 1 \in P
  <2>1. PICK t : t = [s \in Layer(n) |-> Body(t, s)]
    BY <1>3
  <2> DEFINE u == [s \in Layer(n + 1) |-> Body(t, s)]
  <2>2. ASSUME NEW s \in Layer(n + 1)
        PROVE  Body(t, s) = Body(u, s)
    <3>1. CASE s = {}
      BY <3>1
    <3>2. CASE s # {}
      <4>1. s \ {One(s)} \in Layer(n) /\ s \ {One(s)} \in Layer(n + 1)
        BY <1>1, <3>2
      <4> DEFINE r == s \ {One(s)}
      <4> HIDE DEF Layer, r
      <4>2. t[r] = Body(t, r) /\ u[r] = Body(t, r)
        <5> HIDE DEF Body
        <5> QED BY <2>1, <4>1 DEF r
      <4>3. t[r] = u[r]
        BY <4>2
      <4> QED BY <3>2, <4>3 DEF r
    <3> QED BY <3>1, <3>2
  <2>3. u = [s \in Layer(n + 1) |-> Body(u, s)]
    <3> HIDE DEF Layer, Body
    <3> QED BY <2>2
  <2> HIDE DEF u, Body, Layer
  <2> QED BY <2>3
<1>4. Cardinality(S) \in P
  <2> HIDE DEF P
  <2> QED BY <1>1, <1>2, <1>3, Induction
<1>5. Layer(Cardinality(S)) = SUBSET S
  BY <1>1
<1>6. \E t : t = [s \in SUBSET S |-> Body(t, s)]
  BY <1>4, <1>5
<1> QED BY <1>6 DEF Sums, Summing

\* The recursion has one solution.
LEMMA SumsUnique ==
  ASSUME NEW f, NEW S, IsFiniteSet(S), NEW t, NEW u, NEW V, IsFiniteSet(V), S \subseteq V,
         Sums(t, f, S), Sums(u, f, V)
  PROVE  t[S] = u[S]
<1> DEFINE P == {T \in SUBSET S : t[T] = u[T]}
<1>1. ASSUME NEW T \in SUBSET S, \A x \in T : T \ {x} \in P
      PROVE  T \in P
  <2>1. /\ t[T] = IF T = {} THEN 0 ELSE f[One(T)] + t[T \ {One(T)}]
        /\ u[T] = IF T = {} THEN 0 ELSE f[One(T)] + u[T \ {One(T)}]
    BY DEF Sums
  <2>2. T # {} => t[T \ {One(T)}] = u[T \ {One(T)}]
    BY <1>1, OneOf
  <2> QED BY <2>1, <2>2
<1>2. S \in P
  <2> HIDE DEF P
  <2> QED BY <1>1, SubsetInduction
<1> QED BY <1>2

\* A sum without terms, and the first term taken off a sum.
LEMMA TotalStep ==
  ASSUME NEW f, NEW S, IsFiniteSet(S)
  PROVE  /\ S = {} => Total(f, S) = 0
         /\ S # {} => Total(f, S) = f[One(S)] + Total(f, S \ {One(S)})
<1> DEFINE t == Summing(f, S)
           r == S \ {One(S)}
           u == Summing(f, r)
<1>1. IsFiniteSet(r) /\ r \subseteq S
  BY FS_Subset
<1>2. Sums(t, f, S) /\ Sums(u, f, r)
  BY <1>1, SummingDef
<1>3. t[S] = IF S = {} THEN 0 ELSE f[One(S)] + t[r]
  <2> HIDE DEF t, u
  <2> QED BY <1>2 DEF Sums
<1>4. u[r] = t[r]
  <2> HIDE DEF t, u, r
  <2> QED BY <1>1, <1>2, SumsUnique
<1> QED BY <1>3, <1>4, TotalIsSumming

\* A sum without terms.
LEMMA TotalEmpty ==
  ASSUME NEW f
  PROVE  Total(f, {}) = 0
<1>1. IsFiniteSet({})
  BY FS_EmptySet
<1> QED BY <1>1, TotalStep

\* A sum of integers is one.
LEMMA TotalInt ==
  ASSUME NEW S, IsFiniteSet(S), NEW f, \A x \in S : f[x] \in Int
  PROVE  Total(f, S) \in Int
<1> DEFINE P == {T \in SUBSET S : Total(f, T) \in Int}
<1>1. ASSUME NEW T \in SUBSET S, \A x \in T : T \ {x} \in P
      PROVE  T \in P
  <2>1. IsFiniteSet(T)
    BY FS_Subset
  <2>2. CASE T = {}
    BY <2>2, TotalEmpty
  <2>3. CASE T # {}
    <3>1. One(T) \in T /\ Total(f, T) = f[One(T)] + Total(f, T \ {One(T)})
      BY <2>1, <2>3, TotalStep, OneOf
    <3> QED BY <1>1, <3>1
  <2> QED BY <2>2, <2>3
<1>2. S \in P
  <2> HIDE DEF P
  <2> QED BY <1>1, SubsetInduction
<1> QED BY <1>2

\* Any term may be the first.
LEMMA TotalTake ==
  ASSUME NEW S, IsFiniteSet(S), NEW f, \A x \in S : f[x] \in Int
  PROVE  \A x \in S : Total(f, S) = f[x] + Total(f, S \ {x})
<1> DEFINE Good(T) == \A x \in T : Total(f, T) = f[x] + Total(f, T \ {x})
           P == {T \in SUBSET S : Good(T)}
<1>1. ASSUME NEW T \in SUBSET S, \A x \in T : T \ {x} \in P
      PROVE  T \in P
  <2>1. IsFiniteSet(T)
    BY FS_Subset
  <2> SUFFICES ASSUME NEW x \in T
               PROVE  Total(f, T) = f[x] + Total(f, T \ {x})
    OBVIOUS
  <2> DEFINE c == One(T)
  <2>2. c \in T /\ Total(f, T) = f[c] + Total(f, T \ {c})
    BY <2>1, TotalStep, OneOf
  <2> HIDE DEF c
  <2>3. CASE x = c
    BY <2>2, <2>3
  <2>4. CASE x # c
    <3> DEFINE r == (T \ {x}) \ {c}
    <3>1. x \in T \ {c} /\ c \in T \ {x} /\ (T \ {c}) \ {x} = r
      BY <2>2, <2>4
    <3>2. Good(T \ {x}) /\ Good(T \ {c})
      BY <1>1, <2>2
    <3>3. Total(f, T \ {c}) = f[x] + Total(f, r) /\ Total(f, T \ {x}) = f[c] + Total(f, r)
      BY <3>1, <3>2
    <3>4. Total(f, r) \in Int
      <4>1. r \in SUBSET S
        OBVIOUS
      <4>2. IsFiniteSet(r) /\ \A y \in r : f[y] \in Int
        BY <4>1, FS_Subset
      <4> QED BY <4>2, TotalInt
    <3>5. f[x] \in Int /\ f[c] \in Int
      BY <2>2
    <3> HIDE DEF r
    <3> QED BY <2>2, <3>3, <3>4, <3>5
  <2> QED BY <2>3, <2>4
<1>2. S \in P
  <2> HIDE DEF P
  <2> QED BY <1>1, SubsetInduction
<1> QED BY <1>2

\* Sums of equal terms are equal, of whatever kind they are.
LEMMA TotalAgree ==
  ASSUME NEW S, IsFiniteSet(S), NEW f, NEW g, \A x \in S : f[x] = g[x]
  PROVE  Total(f, S) = Total(g, S)
<1> DEFINE P == {T \in SUBSET S : Total(f, T) = Total(g, T)}
<1>1. ASSUME NEW T \in SUBSET S, \A x \in T : T \ {x} \in P
      PROVE  T \in P
  <2>1. IsFiniteSet(T)
    BY FS_Subset
  <2>2. CASE T = {}
    BY <2>2, TotalEmpty
  <2>3. CASE T # {}
    <3>1. One(T) \in T /\ f[One(T)] = g[One(T)]
      BY <2>3, OneOf
    <3>2. /\ Total(f, T) = f[One(T)] + Total(f, T \ {One(T)})
          /\ Total(g, T) = g[One(T)] + Total(g, T \ {One(T)})
      BY <2>1, <2>3, TotalStep
    <3> QED BY <1>1, <3>1, <3>2
  <2> QED BY <2>2, <2>3
<1>2. S \in P
  <2> HIDE DEF P
  <2> QED BY <1>1, SubsetInduction
<1> QED BY <1>2

\* A sum of terms that are compared is compared.
LEMMA TotalMonotone ==
  ASSUME NEW S, IsFiniteSet(S), NEW f, NEW g,
         \A x \in S : f[x] \in Int /\ g[x] \in Int /\ f[x] <= g[x]
  PROVE  Total(f, S) <= Total(g, S)
<1> DEFINE P == {T \in SUBSET S : Total(f, T) <= Total(g, T)}
<1>1. ASSUME NEW T \in SUBSET S, \A x \in T : T \ {x} \in P
      PROVE  T \in P
  <2>1. IsFiniteSet(T)
    BY FS_Subset
  <2>2. CASE T = {}
    BY <2>2, TotalEmpty
  <2>3. CASE T # {}
    <3> DEFINE c == One(T)
               r == T \ {c}
    <3>1. c \in T /\ f[c] \in Int /\ g[c] \in Int /\ f[c] <= g[c]
      BY <2>3, OneOf
    <3>2. Total(f, T) = f[c] + Total(f, r) /\ Total(g, T) = g[c] + Total(g, r)
      BY <2>1, <2>3, TotalStep
    <3>3. Total(f, r) <= Total(g, r)
      BY <1>1, <3>1
    <3>4. Total(f, r) \in Int /\ Total(g, r) \in Int
      <4>1. IsFiniteSet(r) /\ r \subseteq S
        BY <2>1, FS_Subset
      <4> QED BY <4>1, TotalInt
    <3> HIDE DEF c, r
    <3>5. Total(f, T) <= Total(g, T)
      BY <3>1, <3>2, <3>3, <3>4
    <3> QED BY <3>5
  <2> QED BY <2>2, <2>3
<1>2. S \in P
  <2> HIDE DEF P
  <2> QED BY <1>1, SubsetInduction
<1> QED BY <1>2

\* The sum of sums.
LEMMA TotalPlus ==
  ASSUME NEW S, IsFiniteSet(S), NEW f, NEW g, NEW h,
         \A x \in S : f[x] \in Int /\ g[x] \in Int /\ h[x] = f[x] + g[x]
  PROVE  Total(h, S) = Total(f, S) + Total(g, S)
<1> DEFINE P == {T \in SUBSET S : Total(h, T) = Total(f, T) + Total(g, T)}
<1>1. ASSUME NEW T \in SUBSET S, \A x \in T : T \ {x} \in P
      PROVE  T \in P
  <2>1. IsFiniteSet(T)
    BY FS_Subset
  <2>2. CASE T = {}
    BY <2>2, TotalEmpty
  <2>3. CASE T # {}
    <3> DEFINE c == One(T)
               r == T \ {c}
    <3>1. c \in T /\ f[c] \in Int /\ g[c] \in Int /\ h[c] = f[c] + g[c]
      BY <2>3, OneOf
    <3>2. /\ Total(f, T) = f[c] + Total(f, r) /\ Total(g, T) = g[c] + Total(g, r)
          /\ Total(h, T) = h[c] + Total(h, r)
      BY <2>1, <2>3, TotalStep
    <3>3. Total(h, r) = Total(f, r) + Total(g, r)
      BY <1>1, <3>1
    <3>4. Total(f, r) \in Int /\ Total(g, r) \in Int
      <4>1. IsFiniteSet(r) /\ r \subseteq S
        BY <2>1, FS_Subset
      <4> QED BY <4>1, TotalInt
    <3> HIDE DEF c, r
    <3>5. Total(h, T) = Total(f, T) + Total(g, T)
      BY <3>1, <3>2, <3>3, <3>4
    <3> QED BY <3>5
  <2> QED BY <2>2, <2>3
<1>2. S \in P
  <2> HIDE DEF P
  <2> QED BY <1>1, SubsetInduction
<1> QED BY <1>2

\* The sum of products with a number.
LEMMA TotalTimes ==
  ASSUME NEW S, IsFiniteSet(S), NEW k \in Int, NEW f, NEW h,
         \A x \in S : f[x] \in Int /\ h[x] = k * f[x]
  PROVE  Total(h, S) = k * Total(f, S)
<1> DEFINE P == {T \in SUBSET S : Total(h, T) = k * Total(f, T)}
<1>1. ASSUME NEW T \in SUBSET S, \A x \in T : T \ {x} \in P
      PROVE  T \in P
  <2>1. IsFiniteSet(T)
    BY FS_Subset
  <2>2. CASE T = {}
    BY <2>2, TotalEmpty
  <2>3. CASE T # {}
    <3> DEFINE c == One(T)
               r == T \ {c}
    <3>1. c \in T /\ f[c] \in Int /\ h[c] = k * f[c]
      BY <2>3, OneOf
    <3>2. Total(f, T) = f[c] + Total(f, r) /\ Total(h, T) = h[c] + Total(h, r)
      BY <2>1, <2>3, TotalStep
    <3>3. Total(h, r) = k * Total(f, r)
      BY <1>1, <3>1
    <3>4. Total(f, r) \in Int
      <4>1. IsFiniteSet(r) /\ r \subseteq S
        BY <2>1, FS_Subset
      <4> QED BY <4>1, TotalInt
    <3> HIDE DEF c, r
    <3>5. k * (f[c] + Total(f, r)) = k * f[c] + k * Total(f, r)
      BY <3>1, <3>4
    <3>6. Total(h, T) = k * Total(f, T)
      BY <3>1, <3>2, <3>3, <3>5
    <3> QED BY <3>6
  <2> QED BY <2>2, <2>3
<1>2. S \in P
  <2> HIDE DEF P
  <2> QED BY <1>1, SubsetInduction
<1> QED BY <1>2

\* A sum over the images under a one-to-one map, of the terms where they came from.
LEMMA TotalImage ==
  ASSUME NEW S, IsFiniteSet(S), NEW m, NEW f, NEW g,
         \A x \in S : f[x] \in Int /\ g[m[x]] = f[x],
         \A x \in S : \A y \in S : m[x] = m[y] => x = y
  PROVE  /\ IsFiniteSet({m[x] : x \in S}) /\ Cardinality({m[x] : x \in S}) = Cardinality(S)
         /\ Total(g, {m[x] : x \in S}) = Total(f, S)
<1> DEFINE Image(T) == {m[x] : x \in T}
           Good(T) == /\ IsFiniteSet(Image(T)) /\ Cardinality(Image(T)) = Cardinality(T)
                      /\ Total(g, Image(T)) = Total(f, T)
           P == {T \in SUBSET S : Good(T)}
<1>1. ASSUME NEW T \in SUBSET S, \A x \in T : T \ {x} \in P
      PROVE  T \in P
  <2>1. IsFiniteSet(T)
    BY FS_Subset
  <2>2. CASE T = {}
    <3>1. Image(T) = {}
      BY <2>2
    <3> HIDE DEF Image
    <3> QED BY <2>1, <2>2, <3>1, TotalStep, FS_EmptySet
  <2>3. CASE T # {}
    <3>1. PICK x \in T : TRUE
      BY <2>3
    <3> DEFINE r == T \ {x}
    <3>2. /\ Image(T) = Image(r) \cup {m[x]} /\ m[x] \notin Image(r)
          /\ Image(T) \ {m[x]} = Image(r)
      BY <3>1
    <3>3. Good(r)
      BY <1>1, <3>1
    <3>4. \A y \in Image(T) : g[y] \in Int
      OBVIOUS
    <3>5. m[x] \in Image(T) /\ f[x] \in Int /\ g[m[x]] = f[x]
      BY <3>1
    <3>6. \A y \in T : f[y] \in Int
      OBVIOUS
    <3>7. T = r \cup {x} /\ x \notin r /\ IsFiniteSet(r)
      BY <2>1, <3>1, FS_Subset
    <3> DEFINE I == Image(T)
               J == Image(r)
               y == m[x]
    <3>8. /\ IsFiniteSet(J) /\ Cardinality(J) = Cardinality(r)
          /\ Total(g, J) = Total(f, r)
      BY <3>3
    <3>9. /\ I = J \cup {y} /\ y \notin J /\ I \ {y} = J /\ y \in I
          /\ (\A z \in I : g[z] \in Int) /\ g[y] = f[x]
      BY <3>2, <3>4, <3>5
    <3> HIDE DEF Image, Good, I, J, y, r
    <3>10. IsFiniteSet(I) /\ Cardinality(I) = Cardinality(J) + 1
      BY <3>8, <3>9, FS_AddElement
    <3>11. Cardinality(T) = Cardinality(r) + 1
      BY <3>7, FS_AddElement
    <3>12. Total(g, I) = g[y] + Total(g, J)
      BY <3>9, <3>10, TotalTake
    <3>13. T \ {x} = r
      BY <3>7
    <3>14. Total(f, T) = f[x] + Total(f, r)
      BY <2>1, <3>1, <3>6, <3>13, TotalTake
    <3>15. /\ IsFiniteSet(I) /\ Cardinality(I) = Cardinality(T)
           /\ Total(g, I) = Total(f, T)
      BY <3>8, <3>9, <3>10, <3>11, <3>12, <3>14
    <3> QED BY <3>15 DEF Good, I
  <2> QED BY <2>2, <2>3
<1>2. S \in P
  <2> HIDE DEF P
  <2> QED BY <1>1, SubsetInduction
<1> QED BY <1>2

-----------------------------------------------------------------------------
(* Running totals.                                                          *)

\* The calendar has at least one bucket.
LEMMA HorizonType == Horizon \in Nat \ {0}
BY CalendarAssumption

\* RunningTotal satisfies its recursion.
LEMMA RunningTotalDef ==
  ASSUME NEW f
  PROVE  /\ RunningTotal(f)[0] = 0
         /\ \A b \in Bucket : RunningTotal(f)[b] = RunningTotal(f)[b - 1] + f[b]
<1> DEFINE Body(t, b) == IF b = 0 THEN 0 ELSE t[b - 1] + f[b]
           S == {n \in Nat : \E t : t = [b \in 0..n |-> Body(t, b)]}
<1>1. 0 \in S
  <2> DEFINE t == [b \in 0..0 |-> 0]
  <2>1. t = [b \in 0..0 |-> Body(t, b)]
    OBVIOUS
  <2> QED BY <2>1
<1>2. ASSUME NEW n \in Nat, n \in S
      PROVE  n + 1 \in S
  <2>1. PICK t : t = [b \in 0..n |-> Body(t, b)]
    BY <1>2
  <2> DEFINE u == [b \in 0..(n + 1) |-> IF b = n + 1 THEN t[n] + f[n + 1] ELSE t[b]]
  <2>2. ASSUME NEW b \in 0..(n + 1)
        PROVE  u[b] = Body(u, b)
    <3>1. CASE b = n + 1
      BY <3>1
    <3>2. CASE b # n + 1
      <4>1. b \in 0..n /\ (b # 0 => b - 1 \in 0..n /\ b - 1 # n + 1)
        BY <3>2
      <4>2. u[b] = t[b] /\ t[b] = Body(t, b)
        BY <2>1, <3>2, <4>1
      <4> QED BY <4>1, <4>2
    <3> QED BY <3>1, <3>2
  <2>3. u = [b \in 0..(n + 1) |-> Body(u, b)]
    BY <2>2
  <2>4. \E v : v = [b \in 0..(n + 1) |-> Body(v, b)]
    <3> HIDE DEF u
    <3> QED BY <2>3
  <2> QED BY <2>4
<1>3. Horizon \in S
  <2> HIDE DEF S
  <2> QED BY <1>1, <1>2, Induction, CalendarAssumption
<1> DEFINE total == RunningTotal(f)
<1>4. total = [b \in 0..Horizon |-> Body(total, b)]
  BY <1>3 DEF RunningTotal
<1> QED BY <1>4, CalendarAssumption DEF Bucket

\* Totals of naturals are naturals.
LEMMA RunningTotalType ==
  ASSUME NEW f \in [Bucket -> Nat]
  PROVE  \A b \in 0..Horizon : RunningTotal(f)[b] \in Nat
<1> DEFINE S == {n \in Nat : n <= Horizon => RunningTotal(f)[n] \in Nat}
<1>1. 0 \in S
  BY RunningTotalDef
<1>2. ASSUME NEW n \in Nat, n \in S
      PROVE  n + 1 \in S
  <2>1. CASE n + 1 <= Horizon
    <3>1. n + 1 \in Bucket /\ (n + 1) - 1 = n
      BY <2>1, CalendarAssumption DEF Bucket
    <3>2. RunningTotal(f)[n + 1] = RunningTotal(f)[n] + f[n + 1]
      BY <3>1, RunningTotalDef
    <3>3. RunningTotal(f)[n] \in Nat /\ f[n + 1] \in Nat
      BY <1>2, <2>1, <3>1, CalendarAssumption
    <3> QED BY <3>2, <3>3
  <2>2. CASE ~ (n + 1 <= Horizon)
    BY <2>2
  <2> QED BY <2>1, <2>2
<1>3. Nat \subseteq S
  <2> HIDE DEF S
  <2> QED BY <1>1, <1>2, Induction
<1> QED BY <1>3, CalendarAssumption

\* Changing one bucket changes the totals from that bucket on.
LEMMA RunningTotalUpdate ==
  ASSUME NEW f \in [Bucket -> Nat], NEW g \in [Bucket -> Nat], NEW a \in Bucket,
         \A b \in Bucket \ {a} : g[b] = f[b]
  PROVE  \A b \in 0..Horizon :
           RunningTotal(g)[b] = RunningTotal(f)[b] + (IF b >= a THEN g[a] - f[a] ELSE 0)
<1> DEFINE Shift(b) == IF b >= a THEN g[a] - f[a] ELSE 0
           S == {n \in Nat : n <= Horizon =>
                   RunningTotal(g)[n] = RunningTotal(f)[n] + Shift(n)}
<1>1. 0 \in S
  <2>1. RunningTotal(f)[0] = 0 /\ RunningTotal(g)[0] = 0
    BY RunningTotalDef
  <2>2. ~ (0 >= a)
    BY DEF Bucket
  <2> QED BY <2>1, <2>2
<1>2. ASSUME NEW n \in Nat, n \in S
      PROVE  n + 1 \in S
  <2>1. CASE n + 1 <= Horizon
    <3>1. n + 1 \in Bucket /\ (n + 1) - 1 = n /\ n \in 0..Horizon
      BY <2>1, CalendarAssumption DEF Bucket
    <3>2. /\ RunningTotal(f)[n + 1] = RunningTotal(f)[n] + f[n + 1]
          /\ RunningTotal(g)[n + 1] = RunningTotal(g)[n] + g[n + 1]
      BY <3>1, RunningTotalDef
    <3>3. RunningTotal(g)[n] = RunningTotal(f)[n] + Shift(n)
      BY <1>2, <2>1, CalendarAssumption
    <3>4. RunningTotal(f)[n] \in Nat /\ RunningTotal(g)[n] \in Nat
      BY <3>1, RunningTotalType
    <3>5. f[n + 1] \in Nat /\ g[n + 1] \in Nat /\ f[a] \in Nat /\ g[a] \in Nat /\ a \in Nat
      BY <3>1 DEF Bucket
    <3>6. g[n + 1] = f[n + 1] + (IF n + 1 = a THEN g[a] - f[a] ELSE 0)
      BY <3>1, <3>5
    <3> QED BY <3>2, <3>3, <3>4, <3>5, <3>6
  <2>2. CASE ~ (n + 1 <= Horizon)
    BY <2>2
  <2> QED BY <2>1, <2>2
<1>3. Nat \subseteq S
  <2> HIDE DEF S
  <2> QED BY <1>1, <1>2, Induction
<1> QED BY <1>3, CalendarAssumption

\* A total is at least each of its terms.
LEMMA RunningTotalBounds ==
  ASSUME NEW f \in [Bucket -> Nat], NEW a \in Bucket, NEW b \in a..Horizon
  PROVE  RunningTotal(f)[b] >= f[a]
<1> DEFINE g == [f EXCEPT ![a] = 0]
<1>1. g \in [Bucket -> Nat] /\ \A c \in Bucket \ {a} : g[c] = f[c]
  OBVIOUS
<1>2. b \in 0..Horizon /\ b >= a /\ g[a] = 0 /\ f[a] \in Nat
  BY CalendarAssumption DEF Bucket
<1>3. RunningTotal(g)[b] = RunningTotal(f)[b] + (0 - f[a])
  <2> HIDE DEF g
  <2> QED BY <1>1, <1>2, RunningTotalUpdate
<1>4. RunningTotal(g)[b] \in Nat /\ RunningTotal(f)[b] \in Nat
  <2> HIDE DEF g
  <2> QED BY <1>1, <1>2, RunningTotalType
<1> QED BY <1>2, <1>3, <1>4

\* A sum over one bucket more.
LEMMA TotalAppend ==
  ASSUME NEW n \in Nat, NEW f, NEW g, \A b \in 1..(n + 1) : g[b] \in Int,
         \A b \in 1..n : g[b] = f[b]
  PROVE  /\ Total(g, 1..(n + 1)) = Total(f, 1..n) + g[n + 1]
         /\ Total(f, 1..n) \in Int
<1>1. IsFiniteSet(1..n) /\ IsFiniteSet(1..(n + 1))
  BY FS_Interval
<1>2. n + 1 \in 1..(n + 1) /\ 1..(n + 1) \ {n + 1} = 1..n /\ 1..n \subseteq 1..(n + 1)
  OBVIOUS
<1>3. Total(g, 1..(n + 1)) = g[n + 1] + Total(g, 1..n)
  BY <1>1, <1>2, TotalTake
<1>4. Total(g, 1..n) = Total(f, 1..n)
  BY <1>1, TotalAgree
<1>5. Total(f, 1..n) \in Int
  BY <1>1, <1>2, TotalInt
<1> QED BY <1>2, <1>3, <1>4, <1>5

\* The last running total is the sum.
LEMMA LastRunningTotal ==
  ASSUME NEW f \in [Bucket -> Nat]
  PROVE  RunningTotal(f)[Horizon] = Total(f, Bucket)
<1> DEFINE S == {n \in Nat : n <= Horizon => RunningTotal(f)[n] = Total(f, 1..n)}
<1>1. 0 \in S
  <2>1. 1..0 = {}
    OBVIOUS
  <2> QED BY <2>1, TotalEmpty, RunningTotalDef
<1>2. ASSUME NEW n \in Nat, n \in S
      PROVE  n + 1 \in S
  <2>1. CASE n + 1 <= Horizon
    <3>1. n + 1 \in Bucket /\ (n + 1) - 1 = n /\ \A b \in 1..(n + 1) : f[b] \in Int
      BY <2>1, HorizonType DEF Bucket
    <3>2. RunningTotal(f)[n + 1] = RunningTotal(f)[n] + f[n + 1]
      BY <3>1, RunningTotalDef
    <3>3. Total(f, 1..(n + 1)) = Total(f, 1..n) + f[n + 1]
      BY <3>1, TotalAppend
    <3> QED BY <1>2, <2>1, <3>2, <3>3, HorizonType
  <2>2. CASE ~(n + 1 <= Horizon)
    BY <2>2
  <2> QED BY <2>1, <2>2
<1>3. Nat \subseteq S
  <2> HIDE DEF S
  <2> QED BY <1>1, <1>2, Induction
<1>4. Horizon \in S
  BY <1>3, HorizonType
<1> QED BY <1>4, HorizonType DEF Bucket

-----------------------------------------------------------------------------
(* The transition of one bucket.                                            *)

\* More to take from gives more and leaves more, and a smaller demand leaves less
\* of it open.
LEMMA LeastLeaves ==
  ASSUME NEW a \in Int, NEW b \in Int, NEW c \in Int, NEW d \in Int, a <= c, d <= b
  PROVE  /\ a - Least(a, b) <= c - Least(c, d)
         /\ d - Least(c, d) <= b - Least(a, b)
         /\ b = d => Least(a, b) <= Least(c, d)
BY DEF Least

\* What is left for each use of the stock of a bucket, and what each use takes.
ForBacklog(s, i, r) == Least(s.available + i + r, s.backorder)
AfterBacklog(s, i, r) == (s.available + i + r) - ForBacklog(s, i, r)
ForOrder(s, d, i, r) == Least(AfterBacklog(s, i, r), d.order)
AfterOrder(s, d, i, r) == AfterBacklog(s, i, r) - ForOrder(s, d, i, r)
ForForecast(s, d, i, r) == Least(AfterOrder(s, d, i, r), d.forecast)

\* Every use takes at most what is left and what is asked.
LEMMA AdvanceParts ==
  ASSUME NEW s \in Stock, NEW d \in Demand, NEW i \in Nat, NEW r \in Nat
  PROVE  /\ s.available + i + r \in Nat /\ s.backorder \in Nat
         /\ d.order \in Nat /\ d.forecast \in Nat
         /\ ForBacklog(s, i, r) \in Nat /\ ForBacklog(s, i, r) <= s.backorder
         /\ AfterBacklog(s, i, r) \in Nat
         /\ AfterBacklog(s, i, r) = (s.available + i + r) - ForBacklog(s, i, r)
         /\ ForOrder(s, d, i, r) \in Nat /\ ForOrder(s, d, i, r) <= d.order
         /\ AfterOrder(s, d, i, r) \in Nat
         /\ AfterOrder(s, d, i, r) = AfterBacklog(s, i, r) - ForOrder(s, d, i, r)
         /\ ForForecast(s, d, i, r) \in Nat
         /\ ForForecast(s, d, i, r) <= AfterOrder(s, d, i, r)
         /\ ForForecast(s, d, i, r) <= d.forecast
<1>1. /\ s.available + i + r \in Nat /\ s.backorder \in Nat
      /\ d.order \in Nat /\ d.forecast \in Nat
  BY DEF Stock, Demand
<1>2. \A m, n \in Nat : Least(m, n) \in Nat /\ Least(m, n) <= m /\ Least(m, n) <= n
  BY DEF Least
<1>3. \A m, n \in Nat : n <= m => m - n \in Nat
  OBVIOUS
<1>4. /\ ForBacklog(s, i, r) \in Nat /\ ForBacklog(s, i, r) <= s.available + i + r
      /\ ForBacklog(s, i, r) <= s.backorder
  BY <1>1, <1>2 DEF ForBacklog
<1>5. AfterBacklog(s, i, r) \in Nat
  <2>1. \A m \in Nat, n \in Nat : n <= m => m - n \in Nat
    OBVIOUS
  <2> QED BY <1>1, <1>4, <2>1 DEF AfterBacklog
<1>6. /\ ForOrder(s, d, i, r) \in Nat /\ ForOrder(s, d, i, r) <= AfterBacklog(s, i, r)
      /\ ForOrder(s, d, i, r) <= d.order
  BY <1>1, <1>2, <1>5 DEF ForOrder
<1>7. AfterOrder(s, d, i, r) \in Nat
  BY <1>3, <1>5, <1>6 DEF AfterOrder
<1>8. /\ ForForecast(s, d, i, r) \in Nat
      /\ ForForecast(s, d, i, r) <= AfterOrder(s, d, i, r)
      /\ ForForecast(s, d, i, r) <= d.forecast
  BY <1>1, <1>2, <1>7 DEF ForForecast
<1> QED BY <1>1, <1>4, <1>5, <1>6, <1>7, <1>8 DEF AfterBacklog, AfterOrder

\* The row of a bucket, by its parts.
LEMMA AdvanceDef ==
  ASSUME NEW s, NEW d, NEW i, NEW r
  PROVE  Advance(s, d, i, r) =
           [boh |-> s.available, inbound |-> i, recommended |-> r,
            available |-> s.available + i + r,
            fulfilledOrder |-> ForBacklog(s, i, r) + ForOrder(s, d, i, r),
            fulfilledForecast |-> ForForecast(s, d, i, r),
            eoh |-> AfterOrder(s, d, i, r) - ForForecast(s, d, i, r),
            backorderClose |-> s.backorder + d.order - ForBacklog(s, i, r)
                                 - ForOrder(s, d, i, r),
            shortage |-> d.forecast - ForForecast(s, d, i, r)]
BY Zenon DEF Advance, ForBacklog, AfterBacklog, ForOrder, AfterOrder, ForForecast

\* advance_bucket never produces a negative quantity.
LEMMA AdvanceType ==
  ASSUME NEW s \in Stock, NEW d \in Demand, NEW i \in Nat, NEW r \in Nat
  PROVE  Advance(s, d, i, r) \in Row
<1>1. s.available \in Nat /\ s.available + i + r \in Nat
  BY DEF Stock
<1>2. /\ ForBacklog(s, i, r) + ForOrder(s, d, i, r) \in Nat
      /\ ForForecast(s, d, i, r) \in Nat
      /\ AfterOrder(s, d, i, r) - ForForecast(s, d, i, r) \in Nat
      /\ s.backorder + d.order - ForBacklog(s, i, r) - ForOrder(s, d, i, r) \in Nat
      /\ d.forecast - ForForecast(s, d, i, r) \in Nat
  <2>1. /\ s.backorder \in Nat /\ d.order \in Nat /\ d.forecast \in Nat
        /\ ForBacklog(s, i, r) \in Nat /\ ForBacklog(s, i, r) <= s.backorder
        /\ ForOrder(s, d, i, r) \in Nat /\ ForOrder(s, d, i, r) <= d.order
        /\ AfterOrder(s, d, i, r) \in Nat /\ ForForecast(s, d, i, r) \in Nat
        /\ ForForecast(s, d, i, r) <= AfterOrder(s, d, i, r)
        /\ ForForecast(s, d, i, r) <= d.forecast
    BY AdvanceParts, Zenon
  <2> QED BY <2>1
<1> QED BY <1>1, <1>2, AdvanceDef DEF Row

\* One bucket conserves stock and customer orders: PSI_STOCK_CONSERVATION,
\* PSI_ORDER_CONSERVATION and PSI_NEGATIVE_BALANCE of advance_bucket can never
\* be raised.
THEOREM BucketConserves ==
  ASSUME NEW s \in Stock, NEW d \in Demand, NEW i \in Nat, NEW r \in Nat
  PROVE  LET row == Advance(s, d, i, r)
         IN /\ s.available + i + r = row.eoh + row.fulfilledOrder + row.fulfilledForecast
            /\ s.backorder + d.order = row.backorderClose + row.fulfilledOrder
            /\ row.eoh >= 0 /\ row.backorderClose >= 0 /\ row.shortage >= 0
<1> DEFINE row == Advance(s, d, i, r)
<1>1. /\ row.fulfilledOrder = ForBacklog(s, i, r) + ForOrder(s, d, i, r)
      /\ row.fulfilledForecast = ForForecast(s, d, i, r)
      /\ row.eoh = AfterOrder(s, d, i, r) - ForForecast(s, d, i, r)
      /\ row.backorderClose
           = s.backorder + d.order - ForBacklog(s, i, r) - ForOrder(s, d, i, r)
      /\ row.shortage = d.forecast - ForForecast(s, d, i, r)
  BY AdvanceDef
<1>2. /\ s.backorder \in Nat /\ d.order \in Nat /\ d.forecast \in Nat
      /\ ForBacklog(s, i, r) \in Nat /\ ForBacklog(s, i, r) <= s.backorder
      /\ ForOrder(s, d, i, r) \in Nat /\ ForOrder(s, d, i, r) <= d.order
      /\ ForForecast(s, d, i, r) \in Nat
      /\ ForForecast(s, d, i, r) <= AfterOrder(s, d, i, r)
      /\ ForForecast(s, d, i, r) <= d.forecast
  BY AdvanceParts, Zenon
<1>3. /\ AfterBacklog(s, i, r) \in Nat /\ AfterOrder(s, d, i, r) \in Nat
      /\ AfterBacklog(s, i, r) = (s.available + i + r) - ForBacklog(s, i, r)
      /\ AfterOrder(s, d, i, r) = AfterBacklog(s, i, r) - ForOrder(s, d, i, r)
  BY AdvanceParts, Zenon DEF AfterBacklog, AfterOrder
<1>4. s.available \in Nat /\ s.available + i + r \in Nat
  BY DEF Stock
<1> DEFINE available == s.available + i + r
<1>5. available = s.available + i + r
  OBVIOUS
<1> HIDE DEF row, available
<1>6. available \in Nat /\ AfterBacklog(s, i, r) = available - ForBacklog(s, i, r)
  BY <1>4, <1>5, <1>3
<1>7. available = row.eoh + row.fulfilledOrder + row.fulfilledForecast
  BY <1>1, <1>2, <1>6, <1>3
<1>8. s.backorder + d.order = row.backorderClose + row.fulfilledOrder
  BY <1>1, <1>2
<1>9. row.eoh >= 0 /\ row.backorderClose >= 0 /\ row.shortage >= 0
  BY <1>1, <1>2, <1>3
<1> QED BY <1>5, <1>7, <1>8, <1>9, Zenon DEF row

\* More stock, less backlog and an additional receipt leave no customer worse
\* off at the end of the bucket.
LEMMA AdvanceMonotone ==
  ASSUME NEW s \in Stock, NEW t \in Stock, NEW d \in Demand, NEW i \in Nat, NEW r \in Nat,
         t.available >= s.available, t.backorder <= s.backorder
  PROVE  LET worse == Advance(s, d, i, 0)
             better == Advance(t, d, i, r)
         IN /\ better.eoh >= worse.eoh
            /\ better.backorderClose <= worse.backorderClose
            /\ better.shortage <= worse.shortage
<1> DEFINE x == s.available + i + 0
           y == t.available + i + r
           worse == Advance(s, d, i, 0)
           better == Advance(t, d, i, r)
<1>1. 0 \in Nat /\ x \in Nat /\ y \in Nat /\ x <= y
  BY DEF Stock
<1>2. /\ s.backorder \in Nat /\ d.order \in Nat /\ d.forecast \in Nat
      /\ ForBacklog(s, i, 0) \in Nat /\ ForOrder(s, d, i, 0) \in Nat
      /\ AfterBacklog(s, i, 0) \in Nat /\ AfterOrder(s, d, i, 0) \in Nat
      /\ ForForecast(s, d, i, 0) \in Nat
  BY <1>1, AdvanceParts, Zenon
<1>3. /\ t.backorder \in Nat
      /\ ForBacklog(t, i, r) \in Nat /\ ForOrder(t, d, i, r) \in Nat
      /\ AfterBacklog(t, i, r) \in Nat /\ AfterOrder(t, d, i, r) \in Nat
      /\ ForForecast(t, d, i, r) \in Nat
  BY AdvanceParts, Zenon
<1>4. /\ AfterBacklog(s, i, 0) <= AfterBacklog(t, i, r)
      /\ t.backorder - ForBacklog(t, i, r) <= s.backorder - ForBacklog(s, i, 0)
  <2>1. /\ x - Least(x, s.backorder) <= y - Least(y, t.backorder)
        /\ t.backorder - Least(y, t.backorder) <= s.backorder - Least(x, s.backorder)
    <3>1. /\ x \in Int /\ y \in Int /\ s.backorder \in Int /\ t.backorder \in Int
          /\ x <= y /\ t.backorder <= s.backorder
      BY <1>1, <1>2, <1>3
    <3> HIDE DEF x, y
    <3> QED BY <3>1, LeastLeaves
  <2> QED BY <2>1, Zenon DEF ForBacklog, AfterBacklog
<1>5. /\ AfterOrder(s, d, i, 0) <= AfterOrder(t, d, i, r)
      /\ ForOrder(s, d, i, 0) <= ForOrder(t, d, i, r)
  <2> DEFINE v == AfterBacklog(s, i, 0)
             w == AfterBacklog(t, i, r)
  <2>1. /\ v - Least(v, d.order) <= w - Least(w, d.order)
        /\ Least(v, d.order) <= Least(w, d.order)
    <3>1. v \in Int /\ w \in Int /\ d.order \in Int /\ v <= w
      BY <1>2, <1>3, <1>4
    <3> HIDE DEF v, w
    <3> QED BY <3>1, LeastLeaves
  <2> QED BY <2>1, Zenon DEF ForOrder, AfterOrder
<1>6. /\ AfterOrder(s, d, i, 0) - ForForecast(s, d, i, 0)
           <= AfterOrder(t, d, i, r) - ForForecast(t, d, i, r)
      /\ ForForecast(s, d, i, 0) <= ForForecast(t, d, i, r)
  <2> DEFINE v == AfterOrder(s, d, i, 0)
             w == AfterOrder(t, d, i, r)
  <2>1. /\ v - Least(v, d.forecast) <= w - Least(w, d.forecast)
        /\ Least(v, d.forecast) <= Least(w, d.forecast)
    <3>1. v \in Int /\ w \in Int /\ d.forecast \in Int /\ v <= w
      BY <1>2, <1>3, <1>5
    <3> HIDE DEF v, w
    <3> QED BY <3>1, LeastLeaves
  <2> QED BY <2>1, Zenon DEF ForForecast
<1>7. /\ worse.eoh = AfterOrder(s, d, i, 0) - ForForecast(s, d, i, 0)
      /\ worse.backorderClose
           = s.backorder + d.order - ForBacklog(s, i, 0) - ForOrder(s, d, i, 0)
      /\ worse.shortage = d.forecast - ForForecast(s, d, i, 0)
  BY <1>1, AdvanceDef
<1>8. /\ better.eoh = AfterOrder(t, d, i, r) - ForForecast(t, d, i, r)
      /\ better.backorderClose
           = t.backorder + d.order - ForBacklog(t, i, r) - ForOrder(t, d, i, r)
      /\ better.shortage = d.forecast - ForForecast(t, d, i, r)
  BY AdvanceDef
<1> HIDE DEF worse, better
<1> QED BY <1>2, <1>3, <1>4, <1>5, <1>6, <1>7, <1>8 DEF worse, better

\* What a row keeps of its arguments.
LEMMA AdvanceReceives ==
  ASSUME NEW s \in Stock, NEW d \in Demand, NEW i \in Nat, NEW r \in Nat
  PROVE  LET row == Advance(s, d, i, r)
         IN /\ row.inbound = i /\ row.recommended = r
            /\ row.available = s.available + i + r
            /\ row.eoh <= row.available
<1> DEFINE row == Advance(s, d, i, r)
<1>1. /\ row.inbound = i /\ row.recommended = r /\ row.available = s.available + i + r
      /\ row.eoh = AfterOrder(s, d, i, r) - ForForecast(s, d, i, r)
  BY AdvanceDef
<1>2. /\ ForBacklog(s, i, r) \in Nat /\ ForOrder(s, d, i, r) \in Nat
      /\ ForForecast(s, d, i, r) \in Nat /\ s.available + i + r \in Nat
  BY AdvanceParts, Zenon
<1> DEFINE available == s.available + i + r
<1>3. AfterOrder(s, d, i, r) = (available - ForBacklog(s, i, r)) - ForOrder(s, d, i, r)
  BY Zenon DEF AfterBacklog, AfterOrder
<1>4. row.available = available /\ available \in Nat
  BY <1>1, <1>2
<1> HIDE DEF row, available
<1>5. row.eoh <= available
  BY <1>1, <1>2, <1>3, <1>4
<1> QED BY <1>1, <1>4, <1>5 DEF row

-----------------------------------------------------------------------------
(* The inductive invariant.                                                 *)

\* Each phase has produced the rows it should have.
Progress ==
  /\ phase = "BASELINE" => rows = <<>> /\ Len(baseline) < Horizon
  /\ phase # "BASELINE" => Len(baseline) = Horizon
  /\ phase \in {"DECIDE", "ADVANCE"} => Len(rows) < Horizon
  /\ phase = "FAILED" => rows = <<>>

\* The state in which the baseline opens a bucket.
BaselineOpening(b) ==
  IF b = 1 THEN plan.stock
  ELSE [available |-> baseline[b - 1].eoh, reserved |-> plan.stock.reserved,
        backorder |-> baseline[b - 1].backorderClose]

\* Every row of the baseline follows from the one before it.
BaselineExplained ==
  \A b \in 1..Len(baseline) :
    baseline[b] = Advance(BaselineOpening(b), plan.demand[b], plan.receipt[b], 0)

\* The ledger holds the confirmed supply of the buckets to come and nothing of
\* those that passed.
LedgerCurrent ==
  phase # "FAILED" =>
    \A b \in Bucket :
      IF b > Len(rows) THEN pending.confirmed[b] = plan.receipt[b]
      ELSE pending.confirmed[b] = 0 /\ pending.recommended[b] = 0

\* A recommended order received or under way by a bucket.
OrderedBy(b) ==
  \E c \in 1..b : \/ c \in DOMAIN rows /\ rows[c].recommended > 0
                  \/ pending.recommended[c] > 0

\* Where an order is due, stock and supply fit under the cap from there on.
SpaceCommitted ==
  phase # "FAILED" =>
    \A b \in Bucket :
      b > Len(rows) /\ plan.policy[b].cap # NoCap /\ OrderedBy(b) =>
        Committed(b) <= plan.policy[b].cap

Types == TypeOK /\ Progress

Ledger == [confirmed : [Bucket -> Nat], recommended : [Bucket -> Nat]]

\* An accepted order leaves a ledger, changed in one bucket of one kind.
LEMMA AddSupplyType ==
  ASSUME NEW l \in Ledger, NEW b \in Bucket, NEW q \in Nat
  PROVE  /\ AddSupply(l, b, q) \in Ledger
         /\ AddSupply(l, b, q).confirmed = l.confirmed
         /\ AddSupply(l, b, q).recommended = [l.recommended EXCEPT ![b] = l.recommended[b] + q]
BY DEF Ledger, AddSupply

\* A received bucket leaves a ledger, emptied in that bucket.
LEMMA DropSupplyType ==
  ASSUME NEW l \in Ledger, NEW b \in Bucket
  PROVE  /\ DropSupply(l, b) \in Ledger
         /\ DropSupply(l, b).confirmed = [l.confirmed EXCEPT ![b] = 0]
         /\ DropSupply(l, b).recommended = [l.recommended EXCEPT ![b] = 0]
BY DEF Ledger, DropSupply

\* The fields of the plan a state holds.
LEMMA PlanType ==
  ASSUME TypeOK
  PROVE  /\ plan.stock \in Stock /\ plan.maxOrder \in Nat
         /\ \A b \in Bucket : /\ plan.demand[b] \in Demand /\ plan.receipt[b] \in Nat
                              /\ plan.policy[b] \in Policy
         /\ plan.receipt \in [Bucket -> Nat]
BY PlanAssumption DEF TypeOK, Plan

\* What appending a row keeps and adds.
LEMMA AppendRow ==
  ASSUME NEW s \in Seq(Row), NEW r \in Row
  PROVE  /\ Append(s, r) \in Seq(Row)
         /\ Len(Append(s, r)) = Len(s) + 1 /\ Append(s, r) # <<>>
         /\ \A b \in 1..Len(s) : Append(s, r)[b] = s[b]
         /\ Append(s, r)[Len(s) + 1] = r
OBVIOUS

\* A positive number of lots is a positive quantity.
LEMMA ProductPositive ==
  ASSUME NEW m \in Nat \ {0}, NEW n \in Nat \ {0}
  PROVE  m * n \in Nat \ {0}
OBVIOUS

\* The state after rows is a stock.
LEMMA StockAfterType ==
  ASSUME TypeOK, NEW s \in Seq(Row)
  PROVE  StockAfter(s) \in Stock
<1>1. plan \in Plan
  BY PlanAssumption DEF TypeOK
<1>2. CASE s = <<>>
  BY <1>1, <1>2 DEF StockAfter, Plan
<1>3. CASE s # <<>>
  <2>1. s[Len(s)] \in Row
    BY <1>3
  <2> QED BY <1>1, <1>3, <2>1 DEF StockAfter, Plan, Stock, Row
<1> QED BY <1>2, <1>3

\* Buckets open in calendar order.
LEMMA CalendarOrdered ==
  ASSUME NEW a \in Bucket, NEW b \in Bucket, a < b
  PROVE  Start[a] < Start[b]
<1> DEFINE S == {n \in Nat : a + n + 1 <= Horizon => Start[a] < Start[a + n + 1]}
<1>1. 0 \in S
  <2>1. CASE a + 0 + 1 <= Horizon
    <3>1. a + 0 + 1 \in Bucket /\ a + 0 + 1 = a + 1
      BY <2>1, HorizonType DEF Bucket
    <3>2. Start[a] \in Nat /\ Start[a + 1] \in Nat /\ Start[a + 1] - Start[a] \in 1..7
      BY <3>1, CalendarAssumption
    <3> QED BY <3>1, <3>2
  <2> QED BY <2>1
<1>2. ASSUME NEW n \in Nat, n \in S
      PROVE  n + 1 \in S
  <2>1. CASE a + (n + 1) + 1 <= Horizon
    <3> DEFINE c == a + n + 1
    <3>1. c \in Bucket /\ c + 1 \in Bucket /\ a + (n + 1) + 1 = c + 1 /\ c <= Horizon
      BY <2>1, HorizonType DEF Bucket
    <3>2. Start[a] < Start[c]
      BY <1>2, <3>1
    <3> HIDE DEF c
    <3>3. /\ Start[a] \in Nat /\ Start[c] \in Nat /\ Start[c + 1] \in Nat
          /\ Start[c + 1] - Start[c] \in 1..7
      BY <3>1, CalendarAssumption
    <3>4. Start[a] < Start[a + (n + 1) + 1]
      BY <3>1, <3>2, <3>3
    <3> QED BY <3>4
  <2> QED BY <2>1
<1>3. Nat \subseteq S
  <2> HIDE DEF S
  <2> QED BY <1>1, <1>2, Induction
<1>4. b - a - 1 \in Nat /\ a + (b - a - 1) + 1 = b /\ b <= Horizon
  BY HorizonType DEF Bucket
<1>5. b - a - 1 \in S
  BY <1>3, <1>4
<1> QED BY <1>4, <1>5

\* The arrival of an order is the first bucket that opens on or after its due date.
LEMMA ArrivalType ==
  ASSUME ArrivalBuckets # {}
  PROVE  Arrival \in ArrivalBuckets
<1>1. ArrivalBuckets \subseteq Nat
  BY HorizonType DEF ArrivalBuckets, Bucket
<1>2. \E b \in ArrivalBuckets : \A c \in ArrivalBuckets : b <= c
  BY <1>1, LeastElement
<1> QED BY <1>2 DEF Arrival

\* While a decision or an advance is due the current bucket is in the calendar.
LEMMA WeekType ==
  ASSUME Types, phase \in {"DECIDE", "ADVANCE"}
  PROVE  Week \in Bucket /\ Week = Len(rows) + 1
BY HorizonType DEF Types, TypeOK, Progress, Week, Bucket

\* What an accepted order adds.
LEMMA Placed ==
  ASSUME Types, NEW p \in Proposals, PlaceOrder(p)
  PROVE  \E q \in Nat \ {0} :
           /\ Arrival \in Bucket /\ Week \in Bucket
           /\ Arrival >= Week
           /\ FitsCapacity(q)
           /\ orders' = orders \cup {[placed |-> Week, arrival |-> Arrival, quantity |-> q]}
           /\ pending' = AddSupply(pending, Arrival, q)
<1>1. PICK n \in 1..plan.maxOrder :
        LET q == n * plan.policy[Week].multiple
        IN /\ Accepts(p, n)
           /\ orders' = orders \cup {[placed |-> Week, arrival |-> Arrival, quantity |-> q]}
           /\ pending' = AddSupply(pending, Arrival, q)
  BY DEF PlaceOrder
<1> DEFINE q == n * plan.policy[Week].multiple
<1>2. Week \in Bucket
  BY WeekType DEF PlaceOrder
<1>3. plan.policy[Week] \in Policy /\ plan.maxOrder \in Nat
  BY <1>2, PlanType DEF Types
<1>4. q \in Nat \ {0}
  <2>1. n \in Nat \ {0} /\ plan.policy[Week].multiple \in Nat \ {0}
    BY <1>3 DEF Policy
  <2> QED BY <2>1, ProductPositive
<1>5. Arrival \in ArrivalBuckets
  BY <1>1, ArrivalType DEF Accepts
<1>6. Arrival \in Bucket
  BY <1>5 DEF ArrivalBuckets
<1>7. Start[Arrival] >= Start[Week] + plan.policy[Week].lead
  BY <1>5 DEF ArrivalBuckets
<1>8. Arrival >= Week
  <2>1. Start[Week] \in Nat /\ Start[Arrival] \in Nat /\ plan.policy[Week].lead \in Nat
    BY <1>2, <1>3, <1>6, CalendarAssumption DEF Policy
  <2>2. CASE Arrival < Week
    <3>1. Start[Arrival] < Start[Week]
      BY <1>2, <1>6, <2>2, CalendarOrdered
    <3> QED BY <1>7, <2>1, <3>1
  <2> QED BY <1>2, <1>6, <2>2, HorizonType DEF Bucket
<1>9. FitsCapacity(q)
  BY <1>1 DEF Accepts, LotsAccepted, FitsLimits
<1> QED BY <1>1, <1>2, <1>4, <1>6, <1>8, <1>9

\* One bucket of the recommended projection.
LEMMA Advanced ==
  ASSUME Types, AdvanceBucket
  PROVE  /\ Week \in Bucket /\ Week = Len(rows) + 1
         /\ Current \in Stock
         /\ pending.confirmed[Week] \in Nat /\ pending.recommended[Week] \in Nat
         /\ LET row == Advance(Current, plan.demand[Week], pending.confirmed[Week],
                              pending.recommended[Week])
            IN row \in Row /\ rows' = Append(rows, row)
<1>1. Week \in Bucket /\ Week = Len(rows) + 1
  BY WeekType DEF AdvanceBucket
<1>2. Current \in Stock
  BY StockAfterType DEF Types, TypeOK, Current
<1>3. pending.confirmed[Week] \in Nat /\ pending.recommended[Week] \in Nat
  BY <1>1 DEF Types, TypeOK
<1>4. plan.demand[Week] \in Demand
  BY <1>1, PlanType DEF Types
<1> QED BY <1>1, <1>2, <1>3, <1>4, AdvanceType DEF AdvanceBucket

\* A projection starts with its types.
LEMMA TypesInit == Init => Types
<1> SUFFICES ASSUME Init
             PROVE  Types
  OBVIOUS
<1>1. plan \in Plan /\ plan.receipt \in [Bucket -> Nat]
  BY PlanAssumption DEF Init, Plan
<1> QED BY <1>1, HorizonType DEF Init, Types, TypeOK, Progress

\* Every step keeps the types and the progress of the phases.
LEMMA TypesStep == Types /\ [Next]_vars => Types'
<1> SUFFICES ASSUME Types, [Next]_vars
             PROVE  Types'
  OBVIOUS
<1>1. CASE BaselineBucket
  <2> DEFINE b == Len(baseline) + 1
             row == Advance(StockAfter(baseline), plan.demand[b], plan.receipt[b], 0)
  <2>1. b \in Bucket /\ Len(baseline) \in Nat
    BY <1>1, HorizonType DEF BaselineBucket, Types, TypeOK, Progress, Bucket
  <2>2. plan.demand[b] \in Demand /\ plan.receipt[b] \in Nat
    BY <2>1, PlanType DEF Types
  <2>3. row \in Row
    BY <2>2, StockAfterType, AdvanceType DEF Types, TypeOK
  <2>4. baseline' = Append(baseline, row) /\ phase' = IF b = Horizon THEN "DECIDE" ELSE "BASELINE"
    BY <1>1 DEF BaselineBucket
  <2>5. UNCHANGED <<plan, rows, pending, orders>> /\ rows = <<>>
    BY <1>1 DEF BaselineBucket, Types, Progress
  <2> HIDE DEF row
  <2>6. baseline' \in Seq(Row) /\ Len(baseline') = b
    BY <2>3, <2>4, AppendRow DEF Types, TypeOK
  <2> HIDE DEF b
  <2> QED BY <2>1, <2>4, <2>5, <2>6, HorizonType DEF Types, TypeOK, Progress, Bucket
<1>2. ASSUME NEW p \in Proposals, PlaceOrder(p)
      PROVE  Types'
  <2>1. PICK q \in Nat \ {0} :
         /\ Arrival \in Bucket /\ Week \in Bucket
         /\ orders' = orders \cup {[placed |-> Week, arrival |-> Arrival, quantity |-> q]}
         /\ pending' = AddSupply(pending, Arrival, q)
    BY <1>2, Placed
  <2>2. orders' \subseteq [placed : Bucket, arrival : Bucket, quantity : Nat \ {0}]
    BY <2>1 DEF Types, TypeOK
  <2>3. pending' \in [confirmed : [Bucket -> Nat], recommended : [Bucket -> Nat]]
    BY <2>1, AddSupplyType DEF Types, TypeOK, Ledger
  <2> QED BY <1>2, <2>2, <2>3 DEF PlaceOrder, Types, TypeOK, Progress
<1>3. ASSUME NEW p \in Proposals, OrderNothing(p)
      PROVE  Types'
  BY <1>3 DEF OrderNothing, Types, TypeOK, Progress
<1>4. CASE StrategyFails
  BY <1>4, HorizonType DEF StrategyFails, Types, TypeOK, Progress
<1>5. CASE AdvanceBucket
  <2> DEFINE row == Advance(Current, plan.demand[Week], pending.confirmed[Week],
                            pending.recommended[Week])
  <2>1. row \in Row /\ rows' = Append(rows, row) /\ Week \in Bucket /\ Week = Len(rows) + 1
    BY <1>5, Advanced
  <2> HIDE DEF row
  <2>2. rows' \in Seq(Row) /\ Len(rows') = Week
    BY <2>1, AppendRow DEF Types, TypeOK
  <2>3. pending' \in [confirmed : [Bucket -> Nat], recommended : [Bucket -> Nat]]
    BY <1>5, <2>1, DropSupplyType DEF AdvanceBucket, Types, TypeOK, Ledger
  <2>4. phase' = (IF Week = Horizon THEN "DONE" ELSE "DECIDE") /\ phase = "ADVANCE"
        /\ UNCHANGED <<plan, baseline, orders>>
    BY <1>5 DEF AdvanceBucket
  <2>5. Week \in Nat /\ Week <= Horizon /\ (Week # Horizon => Week < Horizon)
    BY <2>1, HorizonType DEF Bucket
  <2> HIDE DEF Week
  <2>6. TypeOK'
    BY <2>2, <2>3, <2>4, <2>5 DEF Types, TypeOK
  <2>7. Progress'
    BY <2>2, <2>4, <2>5 DEF Types, Progress
  <2> QED BY <2>6, <2>7 DEF Types
<1>6. CASE UNCHANGED vars
  BY <1>6 DEF vars, Types, TypeOK, Progress
<1> QED BY <1>1, <1>2, <1>3, <1>4, <1>5, <1>6 DEF Next

\* Types and progress hold in every reachable state: what the other invariants
\* of this module rest on.
THEOREM TypesInvariant == Spec => []Types
BY TypesInit, TypesStep, PTL DEF Spec

-----------------------------------------------------------------------------
(* The ledger.                                                              *)

\* Every step keeps the ledger equal to what the plan and the rows leave to receive.
LEMMA LedgerStep ==
  ASSUME Types, LedgerCurrent, [Next]_vars
  PROVE  LedgerCurrent'
<1> USE DEF LedgerCurrent
<1>1. CASE BaselineBucket
  BY <1>1 DEF BaselineBucket
<1>2. ASSUME NEW p \in Proposals, PlaceOrder(p)
      PROVE  LedgerCurrent'
  <2>1. PICK q \in Nat \ {0} :
          /\ Arrival \in Bucket /\ Week \in Bucket /\ Arrival >= Week
          /\ pending' = AddSupply(pending, Arrival, q)
    BY <1>2, Placed
  <2>2. /\ pending'.confirmed = pending.confirmed
        /\ \A b \in Bucket \ {Arrival} : pending'.recommended[b] = pending.recommended[b]
    <3>1. pending \in Ledger
      BY DEF Types, TypeOK, Ledger
    <3>2. /\ pending'.confirmed = pending.confirmed
          /\ pending'.recommended
               = [pending.recommended EXCEPT ![Arrival] = pending.recommended[Arrival] + q]
      BY <2>1, <3>1, AddSupplyType
    <3>3. pending.recommended \in [Bucket -> Nat]
      BY <3>1 DEF Ledger
    <3> QED BY <3>2, <3>3
  <2>3. Arrival > Len(rows) /\ UNCHANGED <<plan, rows>> /\ phase # "FAILED"
    BY <1>2, <2>1, HorizonType DEF PlaceOrder, Week, Bucket, Types, TypeOK
  <2> QED BY <2>2, <2>3
<1>3. ASSUME NEW p \in Proposals, OrderNothing(p)
      PROVE  LedgerCurrent'
  BY <1>3 DEF OrderNothing
<1>4. CASE StrategyFails
  BY <1>4 DEF StrategyFails
<1>5. CASE AdvanceBucket
  <2>1. Week \in Bucket /\ Week = Len(rows) + 1 /\ Len(rows') = Week /\ Len(rows) \in Nat
    BY <1>5, Advanced, AppendRow DEF Types, TypeOK
  <2>2. pending' = DropSupply(pending, Week) /\ plan' = plan /\ phase # "FAILED"
    BY <1>5 DEF AdvanceBucket
  <2>3. /\ pending'.confirmed = [pending.confirmed EXCEPT ![Week] = 0]
        /\ pending'.recommended = [pending.recommended EXCEPT ![Week] = 0]
    BY <2>1, <2>2, DropSupplyType DEF Types, TypeOK, Ledger
  <2>4. pending.confirmed \in [Bucket -> Nat] /\ pending.recommended \in [Bucket -> Nat]
    BY DEF Types, TypeOK
  <2> SUFFICES ASSUME NEW b \in Bucket
               PROVE  IF b > Week THEN pending'.confirmed[b] = plan.receipt[b]
                      ELSE pending'.confirmed[b] = 0 /\ pending'.recommended[b] = 0
    BY <2>1, <2>2
  <2>5. CASE b = Week
    BY <2>1, <2>3, <2>4, <2>5, HorizonType DEF Bucket
  <2>6. CASE b # Week
    <3>1. b > Week <=> b > Len(rows)
      BY <2>1, <2>6, HorizonType DEF Bucket
    <3>2. /\ pending'.confirmed[b] = pending.confirmed[b]
          /\ pending'.recommended[b] = pending.recommended[b]
      BY <2>3, <2>4, <2>6
    <3> QED BY <2>2, <3>1, <3>2
  <2> QED BY <2>5, <2>6
<1>6. CASE UNCHANGED vars
  BY <1>6 DEF vars
<1> QED BY <1>1, <1>2, <1>3, <1>4, <1>5, <1>6 DEF Next

\* The initial ledger holds the confirmed supply of the plan.
LEMMA LedgerInit ==
  ASSUME Init
  PROVE  LedgerCurrent
<1>1. rows = <<>> /\ pending.confirmed = plan.receipt
  BY DEF Init
<1>2. \A b \in Bucket : b > Len(rows)
  BY <1>1, HorizonType DEF Bucket
<1> QED BY <1>1, <1>2 DEF LedgerCurrent

-----------------------------------------------------------------------------
(* Dominance over the baseline.                                             *)

\* Every step keeps the baseline rows those that advance_bucket explains.
LEMMA BaselineStep ==
  ASSUME Types, BaselineExplained, [Next]_vars
  PROVE  BaselineExplained'
<1>1. CASE BaselineBucket
  <2> DEFINE n == Len(baseline)
             row == Advance(StockAfter(baseline), plan.demand[n + 1], plan.receipt[n + 1], 0)
  <2>1. n \in Nat /\ n + 1 \in Bucket
    BY <1>1, HorizonType DEF BaselineBucket, Types, TypeOK, Progress, Bucket
  <2>2. row \in Row
    BY <2>1, PlanType, StockAfterType, AdvanceType DEF Types, TypeOK
  <2>3. baseline' = Append(baseline, row) /\ plan' = plan
    BY <1>1 DEF BaselineBucket
  <2>4. row = Advance(BaselineOpening(n + 1), plan.demand[n + 1], plan.receipt[n + 1], 0)
    <3>1. CASE baseline = <<>>
      <4>1. n + 1 = 1 BY <3>1
      <4> QED BY <3>1, <4>1 DEF StockAfter, BaselineOpening
    <3>2. CASE baseline # <<>>
      <4>1. n + 1 # 1 /\ (n + 1) - 1 = n
        BY <2>1, <3>2 DEF Types, TypeOK
      <4> QED BY <3>2, <4>1 DEF StockAfter, BaselineOpening
    <3> QED BY <3>1, <3>2
  <2> HIDE DEF row
  <2>5. /\ Len(baseline') = n + 1 /\ baseline'[n + 1] = row
        /\ \A b \in 1..n : baseline'[b] = baseline[b]
    BY <2>2, <2>3, AppendRow DEF Types, TypeOK
  <2> HIDE DEF n
  <2>6. \A b \in 1..(n + 1) : BaselineOpening(b)' = BaselineOpening(b)
    <3> SUFFICES ASSUME NEW b \in 1..(n + 1)
                 PROVE  BaselineOpening(b)' = BaselineOpening(b)
      OBVIOUS
    <3>1. b = 1 \/ b - 1 \in 1..n
      BY <2>1
    <3> QED BY <2>3, <2>5, <3>1 DEF BaselineOpening
  <2> SUFFICES ASSUME NEW b \in 1..(n + 1)
               PROVE  baseline'[b] =
                        Advance(BaselineOpening(b)', plan.demand[b], plan.receipt[b], 0)
    BY <2>3, <2>5 DEF BaselineExplained
  <2>7. baseline'[b] = Advance(BaselineOpening(b), plan.demand[b], plan.receipt[b], 0)
    <3>1. CASE b = n + 1
      BY <2>4, <2>5, <3>1
    <3>2. CASE b # n + 1
      <4>1. b \in 1..n /\ n = Len(baseline)
        BY <2>1, <3>2 DEF n
      <4> QED BY <2>5, <4>1 DEF BaselineExplained
    <3> QED BY <3>1, <3>2
  <2> QED BY <2>6, <2>7
<1>2. CASE UNCHANGED <<baseline, plan>>
  BY <1>2 DEF BaselineExplained, BaselineOpening
<1>3. UNCHANGED <<baseline, plan>> \/ BaselineBucket
  BY DEF Next, PlaceOrder, OrderNothing, StrategyFails, AdvanceBucket, vars
<1> QED BY <1>1, <1>2, <1>3

\* Every step keeps the recommended rows at least as good as the baseline.
LEMMA NeverWorseStep ==
  ASSUME Types, BaselineExplained, LedgerCurrent, NeverWorseThanBaseline, [Next]_vars
  PROVE  NeverWorseThanBaseline'
<1>1. CASE BaselineBucket
  BY <1>1 DEF BaselineBucket, NeverWorseThanBaseline, Types, Progress
<1>2. CASE StrategyFails
  BY <1>2 DEF StrategyFails, NeverWorseThanBaseline
<1>3. CASE UNCHANGED <<baseline, rows>>
  BY <1>3 DEF NeverWorseThanBaseline
<1>4. CASE AdvanceBucket
  <2> DEFINE row == Advance(Current, plan.demand[Week], pending.confirmed[Week],
                            pending.recommended[Week])
             n == Len(rows)
  <2>1. /\ Week \in Bucket /\ Week = n + 1 /\ n \in Nat /\ n < Horizon
        /\ row \in Row /\ rows' = Append(rows, row) /\ baseline' = baseline
        /\ Len(baseline) = Horizon /\ phase # "FAILED"
    BY <1>4, Advanced DEF AdvanceBucket, Types, TypeOK, Progress
  <2>2. pending.confirmed[Week] = plan.receipt[Week]
    BY <2>1, HorizonType DEF LedgerCurrent, Bucket
  <2>3. baseline[Week] = Advance(BaselineOpening(Week), plan.demand[Week], plan.receipt[Week], 0)
    BY <2>1, HorizonType DEF BaselineExplained, Bucket
  <2>4. /\ BaselineOpening(Week) \in Stock
        /\ Current.available >= BaselineOpening(Week).available
        /\ Current.backorder <= BaselineOpening(Week).backorder
    <3>0. plan.stock \in Stock
      BY PlanType DEF Types
    <3>1. CASE rows = <<>>
      <4>1. Current = plan.stock /\ BaselineOpening(Week) = plan.stock
        BY <2>1, <3>1 DEF Current, StockAfter, BaselineOpening
      <4> QED BY <3>0, <4>1 DEF Stock
    <3>2. CASE rows # <<>>
      <4>1. n \in 1..Horizon /\ Week - 1 = n /\ Week # 1 /\ n \in DOMAIN rows
        BY <2>1, <3>2, HorizonType DEF Types, TypeOK
      <4>2. /\ rows[n].eoh >= baseline[n].eoh
            /\ rows[n].backorderClose <= baseline[n].backorderClose
        BY <4>1 DEF NeverWorseThanBaseline
      <4>3. baseline[n] \in Row
        BY <2>1, <4>1 DEF Types, TypeOK
      <4>4. /\ Current = [available |-> rows[n].eoh, reserved |-> plan.stock.reserved,
                         backorder |-> rows[n].backorderClose]
            /\ BaselineOpening(Week)
                 = [available |-> baseline[n].eoh, reserved |-> plan.stock.reserved,
                    backorder |-> baseline[n].backorderClose]
        BY <3>2, <4>1 DEF Current, StockAfter, BaselineOpening
      <4> QED BY <3>0, <4>2, <4>3, <4>4 DEF Stock, Row
    <3> QED BY <3>1, <3>2
  <2>5. /\ row.eoh >= baseline[Week].eoh
        /\ row.backorderClose <= baseline[Week].backorderClose
        /\ row.shortage <= baseline[Week].shortage
    <3>1. /\ Current \in Stock /\ plan.demand[Week] \in Demand
          /\ plan.receipt[Week] \in Nat /\ pending.recommended[Week] \in Nat
      BY <1>4, <2>1, Advanced, PlanType DEF Types
    <3> QED BY <2>2, <2>3, <2>4, <3>1, AdvanceMonotone
  <2> HIDE DEF row
  <2>6. /\ DOMAIN rows' = 1..(n + 1) /\ rows'[n + 1] = row
        /\ \A b \in 1..n : rows'[b] = rows[b]
    <3>1. rows \in Seq(Row)
      BY DEF Types, TypeOK
    <3> QED BY <2>1, <3>1, AppendRow
  <2> SUFFICES ASSUME NEW b \in 1..(n + 1)
               PROVE  /\ rows'[b].eoh >= baseline[b].eoh
                      /\ rows'[b].backorderClose <= baseline[b].backorderClose
                      /\ rows'[b].shortage <= baseline[b].shortage
    BY <2>1, <2>6 DEF NeverWorseThanBaseline
  <2>7. CASE b = n + 1
    BY <2>1, <2>5, <2>6, <2>7
  <2>8. CASE b # n + 1
    <3>1. b \in 1..n /\ b \in DOMAIN rows
      BY <2>1, <2>8 DEF Types, TypeOK
    <3> QED BY <2>6, <3>1 DEF NeverWorseThanBaseline
  <2> QED BY <2>7, <2>8
<1>5. \/ BaselineBucket \/ StrategyFails \/ AdvanceBucket \/ UNCHANGED <<baseline, rows>>
  BY DEF Next, PlaceOrder, OrderNothing, vars
<1> QED BY <1>1, <1>2, <1>3, <1>4, <1>5

\* The quantities of the rows are never negative and the phases produce the
\* rows they should.
THEOREM TypesCorrect == Spec => []TypeOK
BY TypesInvariant, PTL DEF Types

\* Whatever the strategy proposes, in no bucket does the recommended projection
\* owe more, miss more forecast or hold less than the baseline.
THEOREM RecommendedDominates == Spec => []NeverWorseThanBaseline
<1> DEFINE I == BaselineExplained /\ LedgerCurrent /\ NeverWorseThanBaseline
<1>1. Init => I
  BY LedgerInit DEF Init, BaselineExplained, NeverWorseThanBaseline
<1>2. I /\ Types /\ [Next]_vars => I'
  BY BaselineStep, LedgerStep, NeverWorseStep
<1>3. I => NeverWorseThanBaseline
  OBVIOUS
<1> QED BY <1>1, <1>2, <1>3, TypesInvariant, PTL DEF Spec

-----------------------------------------------------------------------------
(* Capacity.                                                                *)

\* What is due in each bucket of a ledger.
Due(l) == [c \in Bucket |-> l.confirmed[c] + l.recommended[c]]

\* What is due is a natural in every bucket.
LEMMA DueType ==
  ASSUME NEW l \in Ledger
  PROVE  /\ Due(l) \in [Bucket -> Nat]
         /\ \A c \in Bucket : Due(l)[c] = l.confirmed[c] + l.recommended[c]
BY DEF Due, Ledger

\* Pending supply is what is due by the ledger, now and in the next state.
LEMMA PendingDue ==
  /\ \A b \in Bucket : PendingTo(b) = RunningTotal(Due(pending))[b]
  /\ \A b \in Bucket : PendingTo(b)' = RunningTotal(Due(pending'))[b]
BY DEF PendingTo, Due, RunningTotal, Pending

\* Totals of what is due are naturals.
LEMMA DueTotals ==
  ASSUME NEW l \in Ledger, NEW b \in Bucket
  PROVE  RunningTotal(Due(l))[b] \in Nat /\ RunningTotal(Due(l))[b] >= Due(l)[b]
<1>1. b \in 0..Horizon /\ b \in b..Horizon
  BY HorizonType DEF Bucket
<1> QED BY <1>1, DueType, RunningTotalType, RunningTotalBounds

\* An order adds its quantity to the totals from its bucket on.
LEMMA DueOrdered ==
  ASSUME NEW l \in Ledger, NEW a \in Bucket, NEW b \in Bucket, NEW q \in Nat
  PROVE  RunningTotal(Due(AddSupply(l, a, q)))[b]
           = RunningTotal(Due(l))[b] + (IF b >= a THEN q ELSE 0)
<1> DEFINE m == AddSupply(l, a, q)
<1>1. m \in Ledger /\ m.confirmed = l.confirmed
      /\ m.recommended = [l.recommended EXCEPT ![a] = l.recommended[a] + q]
  BY AddSupplyType
<1> HIDE DEF m
<1>2. l.confirmed \in [Bucket -> Nat] /\ l.recommended \in [Bucket -> Nat]
  BY DEF Ledger
<1>3. /\ \A c \in Bucket \ {a} : Due(m)[c] = Due(l)[c]
      /\ Due(m)[a] - Due(l)[a] = q
  BY <1>1, <1>2 DEF Due
<1>4. b \in 0..Horizon
  BY HorizonType DEF Bucket
<1>5. Due(l) \in [Bucket -> Nat] /\ Due(m) \in [Bucket -> Nat]
  BY <1>1, DueType
<1>6. RunningTotal(Due(m))[b]
        = RunningTotal(Due(l))[b] + (IF b >= a THEN Due(m)[a] - Due(l)[a] ELSE 0)
  BY <1>3, <1>4, <1>5, RunningTotalUpdate
<1> QED BY <1>3, <1>6 DEF m

\* Receiving a bucket takes what was due in it from the totals from it on.
LEMMA DueDropped ==
  ASSUME NEW l \in Ledger, NEW a \in Bucket, NEW b \in Bucket, b >= a
  PROVE  RunningTotal(Due(DropSupply(l, a)))[b] = RunningTotal(Due(l))[b] - Due(l)[a]
<1> DEFINE m == DropSupply(l, a)
<1>1. m \in Ledger /\ m.confirmed = [l.confirmed EXCEPT ![a] = 0]
      /\ m.recommended = [l.recommended EXCEPT ![a] = 0]
  BY DropSupplyType
<1> HIDE DEF m
<1>2. l.confirmed \in [Bucket -> Nat] /\ l.recommended \in [Bucket -> Nat]
  BY DEF Ledger
<1>3. (\A c \in Bucket \ {a} : Due(m)[c] = Due(l)[c]) /\ Due(m)[a] = 0
  BY <1>1, <1>2 DEF Due
<1>4. b \in 0..Horizon
  BY HorizonType DEF Bucket
<1>5. Due(l) \in [Bucket -> Nat] /\ Due(m) \in [Bucket -> Nat]
  BY <1>1, DueType
<1>6. RunningTotal(Due(m))[b] = RunningTotal(Due(l))[b] + (Due(m)[a] - Due(l)[a])
  BY <1>3, <1>4, <1>5, RunningTotalUpdate
<1>7. Due(l)[a] \in Nat /\ RunningTotal(Due(l))[b] \in Nat
  BY <1>5, DueTotals
<1> QED BY <1>3, <1>6, <1>7 DEF m

\* A bucket makes what is due in it available.
LEMMA DueAdvanced ==
  ASSUME Types, AdvanceBucket
  PROVE  LET row == Advance(Current, plan.demand[Week], pending.confirmed[Week],
                            pending.recommended[Week])
         IN /\ row.recommended = pending.recommended[Week]
            /\ row.available = Current.available + Due(pending)[Week]
            /\ row.eoh <= row.available
<1>1. /\ Week \in Bucket /\ Current \in Stock /\ plan.demand[Week] \in Demand
      /\ pending.confirmed[Week] \in Nat /\ pending.recommended[Week] \in Nat
  BY Advanced, PlanType DEF Types
<1>2. Due(pending)[Week] = pending.confirmed[Week] + pending.recommended[Week]
  BY <1>1 DEF Due
<1>3. Current.available \in Nat
  BY <1>1 DEF Stock
<1> DEFINE row == Advance(Current, plan.demand[Week], pending.confirmed[Week],
                          pending.recommended[Week])
<1>4. /\ row.recommended = pending.recommended[Week]
      /\ row.available
           = Current.available + pending.confirmed[Week] + pending.recommended[Week]
      /\ row.eoh <= row.available
  BY <1>1, AdvanceReceives
<1> HIDE DEF row
<1>5. row.available = Current.available + Due(pending)[Week]
  BY <1>1, <1>2, <1>3, <1>4
<1> QED BY <1>4, <1>5 DEF row

\* An accepted order commits its quantity from its arrival on, and no more
\* than every cap leaves.
LEMMA SpaceCommittedByOrder ==
  ASSUME Types, Types', SpaceCommitted, NEW p \in Proposals, PlaceOrder(p)
  PROVE  SpaceCommitted'
<1>1. PICK q \in Nat \ {0} :
        /\ Arrival \in Bucket /\ Week \in Bucket /\ FitsCapacity(q)
        /\ pending' = AddSupply(pending, Arrival, q)
  BY Placed
<1>2. UNCHANGED <<plan, rows>> /\ phase # "FAILED"
  BY DEF PlaceOrder
<1> DEFINE a == Arrival
<1>3. pending \in Ledger /\ pending.recommended \in [Bucket -> Nat]
  BY DEF Types, TypeOK, Ledger
<1>4. pending'.recommended = [pending.recommended EXCEPT ![a] = pending.recommended[a] + q]
  BY <1>1, <1>3, AddSupplyType
<1>5. a \in Bucket /\ \A c \in Bucket \ {a} : pending'.recommended[c] = pending.recommended[c]
  BY <1>1, <1>3, <1>4
<1>6. Current' = Current /\ Current \in Stock
  BY <1>2, StockAfterType DEF Current, StockAfter, Types, TypeOK
<1>7. \A b \in a..Horizon :
        plan.policy[b].cap # NoCap => Committed(b) + q <= plan.policy[b].cap
  BY <1>1 DEF FitsCapacity
<1>8. \A b \in Bucket : PendingTo(b)' = PendingTo(b) + (IF b >= a THEN q ELSE 0)
  BY <1>1, <1>3, DueOrdered, PendingDue
<1> HIDE DEF a
<1> SUFFICES ASSUME NEW b \in Bucket, b > Len(rows), plan.policy[b].cap # NoCap, OrderedBy(b)'
             PROVE  Committed(b)' <= plan.policy[b].cap
  BY <1>2 DEF SpaceCommitted
<1>9. PendingTo(b) \in Nat /\ Current.available \in Nat /\ Current.reserved \in Nat
  BY <1>3, <1>6, DueTotals, PendingDue DEF Stock
<1>10. CASE b >= a
  <2>1. Committed(b)' = Committed(b) + q
    BY <1>6, <1>8, <1>9, <1>10 DEF Committed
  <2>2. b \in a..Horizon
    BY <1>5, <1>10, HorizonType DEF Bucket
  <2> QED BY <1>7, <2>1, <2>2
<1>11. CASE ~ (b >= a)
  <2>1. Committed(b)' = Committed(b)
    BY <1>6, <1>8, <1>9, <1>11 DEF Committed
  <2>2. \A c \in 1..b : c \in Bucket \ {a}
    BY <1>5, <1>11, HorizonType DEF Bucket
  <2>3. OrderedBy(b)
    BY <1>2, <1>5, <2>2 DEF OrderedBy
  <2> QED BY <1>2, <2>1, <2>3 DEF SpaceCommitted
<1> QED BY <1>10, <1>11

\* A bucket that passes commits nothing new.
LEMMA SpaceCommittedByAdvance ==
  ASSUME Types, Types', SpaceCommitted, AdvanceBucket
  PROVE  SpaceCommitted'
<1> DEFINE row == Advance(Current, plan.demand[Week], pending.confirmed[Week],
                          pending.recommended[Week])
           w == Week
<1>1. /\ w \in Bucket /\ w = Len(rows) + 1 /\ Current \in Stock
      /\ pending.confirmed[w] \in Nat /\ pending.recommended[w] \in Nat
      /\ row \in Row /\ rows' = Append(rows, row)
  BY Advanced
<1>2. /\ row.recommended = pending.recommended[w]
      /\ row.available = Current.available + Due(pending)[w]
      /\ row.eoh <= row.available
  BY <1>1, DueAdvanced
<1>3. pending' = DropSupply(pending, w) /\ plan' = plan /\ phase # "FAILED"
  BY DEF AdvanceBucket
<1>4. pending \in Ledger /\ pending.recommended \in [Bucket -> Nat]
  BY DEF Types, TypeOK, Ledger
<1>5. pending'.recommended = [pending.recommended EXCEPT ![w] = 0]
  BY <1>1, <1>3, <1>4, DropSupplyType
<1> HIDE DEF w
<1>6. /\ \A c \in Bucket \ {w} : pending'.recommended[c] = pending.recommended[c]
      /\ pending'.recommended[w] = 0
  BY <1>1, <1>4, <1>5
<1> HIDE DEF row
<1>7. /\ Len(rows') = w /\ rows' # <<>> /\ rows'[w] = row
      /\ DOMAIN rows' = 1..w /\ DOMAIN rows = 1..Len(rows) /\ Len(rows) \in Nat
      /\ \A b \in 1..Len(rows) : rows'[b] = rows[b]
  <2>1. rows \in Seq(Row) /\ rows' \in Seq(Row)
    BY DEF Types, TypeOK
  <2> QED BY <1>1, <2>1, AppendRow
<1>8. Current' = [available |-> row.eoh, reserved |-> plan.stock.reserved,
                  backorder |-> row.backorderClose]
  BY <1>3, <1>7 DEF Current, StockAfter
<1>9. Current.reserved = plan.stock.reserved
  BY DEF Current, StockAfter
<1> SUFFICES ASSUME NEW b \in Bucket, b > w, plan.policy[b].cap # NoCap, OrderedBy(b)'
             PROVE  Committed(b)' <= plan.policy[b].cap
  BY <1>3, <1>7 DEF SpaceCommitted
<1>a. /\ Current.available \in Nat /\ Current.reserved \in Nat
      /\ row.eoh \in Nat /\ row.available \in Nat
  BY <1>1 DEF Stock, Row
<1>b. PendingTo(b) \in Nat /\ Due(pending)[w] \in Nat
  <2>1. Due(pending)[w] \in Nat
    BY <1>1, <1>4, DueType
  <2>2. PendingTo(b) \in Nat
    BY <1>4, DueTotals, PendingDue
  <2> QED BY <2>1, <2>2
<1>10. PendingTo(b)' = PendingTo(b) - Due(pending)[w]
  BY <1>1, <1>3, <1>4, DueDropped, PendingDue
<1>11. Committed(b)' <= Committed(b)
  BY <1>2, <1>8, <1>9, <1>10, <1>a, <1>b DEF Committed
<1>12. OrderedBy(b)
  <2>1. PICK c \in 1..b : \/ c \in DOMAIN rows' /\ rows'[c].recommended > 0
                         \/ pending'.recommended[c] > 0
    BY DEF OrderedBy
  <2>2. CASE c = w
    BY <1>2, <1>6, <1>7, <2>1, <2>2 DEF OrderedBy
  <2>3. CASE c # w
    <3>1. c \in Bucket \ {w} /\ (c \in 1..w => c \in 1..Len(rows))
      BY <1>1, <2>3, HorizonType DEF Bucket
    <3> QED BY <1>6, <1>7, <2>1, <3>1 DEF OrderedBy
  <2> QED BY <2>2, <2>3
<1>13. Committed(b) <= plan.policy[b].cap
  BY <1>1, <1>3, <1>7, <1>12, HorizonType DEF SpaceCommitted, Bucket
<1>14. plan.policy[b].cap \in Nat /\ Committed(b) \in Nat /\ Committed(b)' \in Int
  <2>1. plan.policy[b].cap \in Nat
    BY PlanType DEF Types, Policy
  <2> QED BY <1>8, <1>9, <1>10, <1>a, <1>b, <2>1 DEF Committed
<1> QED BY <1>11, <1>13, <1>14

\* The bucket that passes is over its cap only without recommended receipts.
LEMMA ExcessByAdvance ==
  ASSUME Types, Types', SpaceCommitted, ExcessNeverRecommended, AdvanceBucket
  PROVE  ExcessNeverRecommended'
<1> DEFINE row == Advance(Current, plan.demand[Week], pending.confirmed[Week],
                          pending.recommended[Week])
           w == Week
<1>1. /\ w \in Bucket /\ w = Len(rows) + 1 /\ Current \in Stock
      /\ pending.confirmed[w] \in Nat /\ pending.recommended[w] \in Nat
      /\ row \in Row /\ rows' = Append(rows, row)
  BY Advanced
<1>2. /\ row.recommended = pending.recommended[w]
      /\ row.available = Current.available + Due(pending)[w]
  BY <1>1, DueAdvanced
<1>3. plan' = plan /\ phase # "FAILED" /\ Current.reserved = plan.stock.reserved
  BY DEF AdvanceBucket, Current, StockAfter
<1> HIDE DEF row, w
<1>4. /\ rows'[w] = row /\ DOMAIN rows' = 1..w /\ DOMAIN rows = 1..Len(rows)
      /\ Len(rows) \in Nat /\ w \in Nat
      /\ \A b \in 1..Len(rows) : rows'[b] = rows[b]
  <2>1. rows \in Seq(Row) /\ rows' \in Seq(Row)
    BY DEF Types, TypeOK
  <2> QED BY <1>1, <2>1, AppendRow
<1> SUFFICES ASSUME NEW b \in 1..w, CapacityExcess(b)' > 0, NEW c \in 1..b
             PROVE  rows'[c].recommended = 0
  BY <1>4 DEF ExcessNeverRecommended
<1>5. CASE b # w
  <2>1. b \in 1..Len(rows) /\ c \in 1..Len(rows)
    BY <1>1, <1>4, <1>5
  <2>2. CapacityExcess(b)' = CapacityExcess(b)
    BY <1>3, <1>4, <2>1 DEF CapacityExcess
  <2> QED BY <1>4, <2>1, <2>2 DEF ExcessNeverRecommended
<1>6. CASE b = w
  <2>1. rows'[c] \in Row
    BY <1>4 DEF Types, TypeOK
  <2> SUFFICES ASSUME rows'[c].recommended > 0
               PROVE  FALSE
    BY <2>1 DEF Row
  <2>2. OrderedBy(w)
    <3>1. CASE c = w
      BY <1>2, <1>4, <3>1 DEF OrderedBy
    <3>2. CASE c # w
      <4>1. c \in 1..w /\ c \in 1..Len(rows)
        BY <1>1, <1>4, <1>6, <3>2
      <4> QED BY <1>4, <4>1 DEF OrderedBy
    <3> QED BY <3>1, <3>2
  <2>3. /\ plan.policy[w].cap # NoCap
        /\ Most(0, row.available + plan.stock.reserved - plan.policy[w].cap) > 0
    BY <1>3, <1>4, <1>6 DEF CapacityExcess
  <2>4. /\ plan.policy[w].cap \in Nat /\ row.available \in Nat /\ plan.stock.reserved \in Nat
    BY <1>1, <2>3, PlanType DEF Types, Policy, Row, Stock
  <2>5. row.available + plan.stock.reserved > plan.policy[w].cap
    BY <2>3, <2>4 DEF Most
  <2>6. Committed(w) <= plan.policy[w].cap
    BY <1>1, <1>3, <1>4, <2>2, <2>3 DEF SpaceCommitted
  <2>7. PendingTo(w) \in Nat /\ PendingTo(w) >= Due(pending)[w] /\ Due(pending)[w] \in Nat
    <3>1. pending \in Ledger
      BY DEF Types, TypeOK, Ledger
    <3> QED BY <1>1, <3>1, DueType, DueTotals, PendingDue
  <2>8. Committed(w) >= row.available + plan.stock.reserved
    BY SMTT(60), <1>1, <1>2, <1>3, <2>4, <2>7 DEF Committed, Stock
  <2>9. Committed(w) \in Nat
    BY <1>1, <2>7 DEF Committed, Stock
  <2> QED BY <2>4, <2>5, <2>6, <2>8, <2>9
<1> QED BY <1>5, <1>6

\* No recommended order takes part in an excess over the physical capacity,
\* whatever the strategy proposes and however the caps change.
THEOREM CapacityGuaranteed == Spec => []ExcessNeverRecommended
<1> DEFINE I == SpaceCommitted /\ ExcessNeverRecommended
<1>1. Init => I
  <2> SUFFICES ASSUME Init
               PROVE  I
    OBVIOUS
  <2>1. rows = <<>> /\ \A c \in Bucket : pending.recommended[c] = 0
    BY DEF Init
  <2>2. ASSUME NEW b \in Bucket
        PROVE  ~ OrderedBy(b)
    <3>1. \A c \in 1..b : c \in Bucket
      BY HorizonType DEF Bucket
    <3> QED BY <2>1, <3>1 DEF OrderedBy
  <2> QED BY <2>1, <2>2 DEF SpaceCommitted, ExcessNeverRecommended
<1>2. I /\ Types /\ Types' /\ [Next]_vars => I'
  <2> SUFFICES ASSUME I, Types, Types', [Next]_vars
               PROVE  I'
    OBVIOUS
  <2>1. CASE AdvanceBucket
    BY <2>1, SpaceCommittedByAdvance, ExcessByAdvance
  <2>2. ASSUME NEW p \in Proposals, PlaceOrder(p)
        PROVE  I'
    <3>1. SpaceCommitted'
      BY <2>2, SpaceCommittedByOrder
    <3>2. UNCHANGED <<plan, rows>>
      BY <2>2 DEF PlaceOrder
    <3> QED BY <3>1, <3>2 DEF ExcessNeverRecommended, CapacityExcess
  <2>3. CASE StrategyFails
    BY <2>3 DEF StrategyFails, SpaceCommitted, ExcessNeverRecommended
  <2>4. CASE UNCHANGED <<plan, rows, pending>> /\ (phase = "FAILED" => phase' = "FAILED")
    BY <2>4 DEF SpaceCommitted, ExcessNeverRecommended, CapacityExcess, OrderedBy, Committed,
                Current, StockAfter, PendingTo, Pending
  <2>5. BaselineBucket \/ (\E p \in Proposals : OrderNothing(p)) \/ UNCHANGED vars
        => UNCHANGED <<plan, rows, pending>> /\ (phase = "FAILED" => phase' = "FAILED")
    BY DEF BaselineBucket, OrderNothing, vars
  <2> QED BY <2>1, <2>2, <2>3, <2>4, <2>5 DEF Next
<1>3. I => ExcessNeverRecommended
  OBVIOUS
<1> QED BY <1>1, <1>2, <1>3, TypesInvariant, PTL DEF Spec

-----------------------------------------------------------------------------
(* The books of a projection.                                               *)

\* What entered and left by the rows of a projection, and what was ordered.
Entered(s) == [b \in DOMAIN s |-> s[b].inbound + s[b].recommended]
Issued(s)  == [b \in DOMAIN s |-> s[b].fulfilledOrder + s[b].fulfilledForecast]
DemandedUnits(s) == [b \in DOMAIN s |-> plan.demand[b].order]
Served(s)  == [b \in DOMAIN s |-> s[b].fulfilledOrder]

Balances(s) ==
  /\ plan.stock.available + Total(Entered(s), DOMAIN s)
       = StockAfter(s).available + Total(Issued(s), DOMAIN s)
  /\ plan.stock.backorder + Total(DemandedUnits(s), DOMAIN s)
       = StockAfter(s).backorder + Total(Served(s), DOMAIN s)

\* The property says so of both projections.
LEMMA BalancesAre == LedgerBalances <=> Balances(baseline) /\ Balances(rows)
BY Zenon DEF LedgerBalances, Balances, Entered, Issued, DemandedUnits, Served

\* A projection that has not begun balances.
LEMMA BalanceBegins == Balances(<<>>)
<1>1. DOMAIN <<>> = {}
  OBVIOUS
<1>2. \A f : Total(f, DOMAIN <<>>) = 0
  BY <1>1, TotalEmpty
<1> QED BY <1>2 DEF Balances, StockAfter

\* A bucket more keeps the books.
LEMMA BalanceStep ==
  ASSUME TypeOK, NEW s \in Seq(Row), Len(s) + 1 \in Bucket, Balances(s), NEW i \in Nat, NEW q \in Nat
  PROVE  Balances(Append(s, Advance(StockAfter(s), plan.demand[Len(s) + 1], i, q)))
<1> DEFINE n == Len(s)
           t == StockAfter(s)
           d == plan.demand[n + 1]
           row == Advance(t, d, i, q)
           u == Append(s, row)
<1>1. t \in Stock /\ d \in Demand /\ row \in Row
  BY PlanType, StockAfterType, AdvanceType
<1>2. /\ t.available + i + q = row.eoh + row.fulfilledOrder + row.fulfilledForecast
      /\ t.backorder + d.order = row.backorderClose + row.fulfilledOrder
  BY <1>1, BucketConserves
<1>3. row.inbound = i /\ row.recommended = q
  BY DEF Advance
<1> HIDE DEF row
<1>4. /\ u \in Seq(Row) /\ Len(u) = n + 1 /\ u # <<>> /\ n \in Nat
      /\ \A b \in 1..n : u[b] = s[b]
      /\ u[n + 1] = row
  BY <1>1, AppendRow
<1>5. StockAfter(u).available = row.eoh /\ StockAfter(u).backorder = row.backorderClose
  BY <1>4 DEF StockAfter
<1>6. DOMAIN s = 1..n /\ DOMAIN u = 1..(n + 1)
  BY <1>4
<1> HIDE DEF u
<1>7. \A b \in 1..(n + 1) : u[b] \in Row /\ plan.demand[b] \in Demand
  <2>1. \A b \in 1..(n + 1) : b \in Bucket
    BY <1>4, HorizonType DEF Bucket
  <2> QED BY <1>4, <1>6, <2>1, PlanType
<1>8. Total(Entered(u), DOMAIN u) = Total(Entered(s), DOMAIN s) + (i + q)
      /\ Total(Entered(s), DOMAIN s) \in Int
  <2>1. \A b \in 1..(n + 1) : Entered(u)[b] \in Int
    BY <1>6, <1>7 DEF Entered, Row
  <2>2. \A b \in 1..n : Entered(u)[b] = Entered(s)[b]
    BY <1>4, <1>6 DEF Entered
  <2>3. Entered(u)[n + 1] = i + q
    BY <1>3, <1>4, <1>6 DEF Entered
  <2> QED BY <1>4, <1>6, <2>1, <2>2, <2>3, TotalAppend
<1>9. Total(Issued(u), DOMAIN u)
        = Total(Issued(s), DOMAIN s) + (row.fulfilledOrder + row.fulfilledForecast)
      /\ Total(Issued(s), DOMAIN s) \in Int
  <2>1. \A b \in 1..(n + 1) : Issued(u)[b] \in Int
    BY <1>6, <1>7 DEF Issued, Row
  <2>2. \A b \in 1..n : Issued(u)[b] = Issued(s)[b]
    BY <1>4, <1>6 DEF Issued
  <2>3. Issued(u)[n + 1] = row.fulfilledOrder + row.fulfilledForecast
    BY <1>4, <1>6 DEF Issued
  <2> QED BY <1>4, <1>6, <2>1, <2>2, <2>3, TotalAppend
<1>10. Total(DemandedUnits(u), DOMAIN u) = Total(DemandedUnits(s), DOMAIN s) + d.order
       /\ Total(DemandedUnits(s), DOMAIN s) \in Int
  <2>1. \A b \in 1..(n + 1) : DemandedUnits(u)[b] \in Int
    BY <1>6, <1>7 DEF DemandedUnits, Demand
  <2>2. \A b \in 1..n : DemandedUnits(u)[b] = DemandedUnits(s)[b]
    BY <1>4, <1>6 DEF DemandedUnits
  <2>3. DemandedUnits(u)[n + 1] = d.order
    BY <1>4, <1>6 DEF DemandedUnits
  <2> QED BY <1>4, <1>6, <2>1, <2>2, <2>3, TotalAppend
<1>11. Total(Served(u), DOMAIN u) = Total(Served(s), DOMAIN s) + row.fulfilledOrder
       /\ Total(Served(s), DOMAIN s) \in Int
  <2>1. \A b \in 1..(n + 1) : Served(u)[b] \in Int
    BY <1>6, <1>7 DEF Served, Row
  <2>2. \A b \in 1..n : Served(u)[b] = Served(s)[b]
    BY <1>4, <1>6 DEF Served
  <2>3. Served(u)[n + 1] = row.fulfilledOrder
    BY <1>4, <1>6 DEF Served
  <2> QED BY <1>4, <1>6, <2>1, <2>2, <2>3, TotalAppend
<1>12. /\ plan.stock.available \in Int /\ plan.stock.backorder \in Int
       /\ t.available \in Int /\ t.backorder \in Int /\ d.order \in Int
       /\ row.eoh \in Int /\ row.fulfilledOrder \in Int /\ row.fulfilledForecast \in Int
       /\ row.backorderClose \in Int
  <2>1. plan.stock \in Stock
    BY PlanType
  <2>2. /\ plan.stock.available \in Int /\ plan.stock.backorder \in Int
        /\ t.available \in Int /\ t.backorder \in Int
    BY <1>1, <2>1 DEF Stock
  <2>3. d.order \in Int
    BY <1>1 DEF Demand
  <2>4. /\ row.eoh \in Int /\ row.fulfilledOrder \in Int /\ row.fulfilledForecast \in Int
        /\ row.backorderClose \in Int
    BY <1>1 DEF Row
  <2> QED BY <2>2, <2>3, <2>4
<1>13. plan.stock.available + Total(Entered(s), DOMAIN s)
         = t.available + Total(Issued(s), DOMAIN s)
       /\ plan.stock.backorder + Total(DemandedUnits(s), DOMAIN s)
            = t.backorder + Total(Served(s), DOMAIN s)
  BY DEF Balances
<1> HIDE DEF t, d
<1> DEFINE a == plan.stock.available
           o == plan.stock.backorder
           entered == Total(Entered(s), DOMAIN s)
           issued == Total(Issued(s), DOMAIN s)
           ordered == Total(DemandedUnits(s), DOMAIN s)
           served == Total(Served(s), DOMAIN s)
<1>14. a \in Int /\ o \in Int /\ entered \in Int /\ issued \in Int /\ ordered \in Int /\ served \in Int
  BY <1>8, <1>9, <1>10, <1>11, <1>12
<1>15. /\ Total(Entered(u), DOMAIN u) = entered + (i + q)
       /\ Total(Issued(u), DOMAIN u) = issued + (row.fulfilledOrder + row.fulfilledForecast)
       /\ Total(DemandedUnits(u), DOMAIN u) = ordered + d.order
       /\ Total(Served(u), DOMAIN u) = served + row.fulfilledOrder
       /\ a + entered = t.available + issued /\ o + ordered = t.backorder + served
  BY <1>8, <1>9, <1>10, <1>11, <1>13
<1> HIDE DEF a, o, entered, issued, ordered, served
<1> DEFINE open == t.available
           owed == t.backorder
           eoh == row.eoh
           order == row.fulfilledOrder
           forecast == row.fulfilledForecast
           close == row.backorderClose
           wish == d.order
<1>16. /\ open \in Int /\ owed \in Int /\ eoh \in Int /\ order \in Int /\ forecast \in Int
       /\ close \in Int /\ wish \in Int
       /\ open + i + q = eoh + order + forecast /\ owed + wish = close + order
       /\ a + entered = open + issued /\ o + ordered = owed + served
  BY <1>2, <1>12, <1>15
<1> HIDE DEF open, owed, eoh, order, forecast, close, wish
<1>17. /\ a + (entered + (i + q)) = eoh + (issued + (order + forecast))
       /\ o + (ordered + wish) = close + (served + order)
  BY <1>14, <1>16
<1>18. Balances(u)
  BY <1>5, <1>15, <1>17, Zenon DEF Balances, a, o, eoh, order, forecast, close, wish
<1> QED BY <1>18 DEF u, row, t, d

\* The books depend on the rows and on the plan alone.
LEMMA BalanceKept ==
  ASSUME NEW s, plan' = plan, Balances(s)
  PROVE  Balances(s)'
BY DEF Balances, StockAfter, DemandedUnits, Entered, Issued, Served

\* Every step keeps the books of both projections.
LEMMA BooksStep ==
  ASSUME Types, LedgerBalances, [Next]_vars
  PROVE  LedgerBalances'
<1>1. Balances(baseline) /\ Balances(rows)
  BY BalancesAre
<1> SUFFICES Balances(baseline)' /\ Balances(rows)'
  BY Zenon DEF LedgerBalances, Balances, Entered, Issued, DemandedUnits, Served
<1>2. CASE BaselineBucket
  <2> DEFINE n == Len(baseline) + 1
  <2>1. n \in Bucket
    BY <1>2, HorizonType DEF BaselineBucket, Types, TypeOK, Progress, Bucket
  <2>2. plan.receipt[n] \in Nat /\ baseline \in Seq(Row)
    BY <2>1, PlanType DEF Types, TypeOK
  <2>3. /\ baseline' = Append(baseline, Advance(StockAfter(baseline), plan.demand[n],
                                                plan.receipt[n], 0))
        /\ rows' = rows /\ plan' = plan
    BY <1>2 DEF BaselineBucket
  <2>4. Balances(baseline')
    BY <1>1, <2>1, <2>2, <2>3, BalanceStep DEF Types
  <2>5. Balances(baseline)'
    BY <2>3, <2>4 DEF Balances, StockAfter, DemandedUnits, Entered, Issued, Served
  <2> QED BY <1>1, <2>3, <2>5, BalanceKept
<1>3. CASE AdvanceBucket
  <2>1. /\ Week \in Bucket /\ Week = Len(rows) + 1 /\ Current = StockAfter(rows)
        /\ pending.confirmed[Week] \in Nat /\ pending.recommended[Week] \in Nat
        /\ rows' = Append(rows, Advance(Current, plan.demand[Week], pending.confirmed[Week],
                                        pending.recommended[Week]))
        /\ baseline' = baseline /\ plan' = plan /\ rows \in Seq(Row)
    BY <1>3, Advanced DEF AdvanceBucket, Current, Types, TypeOK
  <2>2. Balances(rows')
    BY <1>1, <2>1, BalanceStep DEF Types
  <2>3. Balances(rows)'
    <3>1. plan' = plan
      BY <2>1
    <3> QED BY <2>2, <3>1 DEF Balances, StockAfter, DemandedUnits, Entered, Issued, Served
  <2> QED BY <1>1, <2>1, <2>3, BalanceKept
<1>4. CASE rows' = <<>> /\ baseline' = baseline /\ plan' = plan
  <2>1. Balances(rows)'
    BY <1>4, BalanceBegins DEF Balances, StockAfter, DemandedUnits, Entered, Issued, Served
  <2> QED BY <1>1, <1>4, <2>1, BalanceKept
<1>5. CASE UNCHANGED <<plan, baseline, rows>>
  BY <1>1, <1>5, BalanceKept
<1> QED BY <1>2, <1>3, <1>4, <1>5 DEF Next, PlaceOrder, OrderNothing, StrategyFails, vars

\* Stock and demand balance in both projections, whatever the strategy and the
\* calendar: nothing is lost or made from one bucket to the next, and no forecast
\* that was not met is owed.
THEOREM BooksBalance == Spec => []LedgerBalances
<1>1. Init => Types /\ LedgerBalances
  <2>1. Init => rows = <<>> /\ baseline = <<>>
    BY DEF Init
  <2> QED BY <2>1, TypesInit, BalanceBegins, BalancesAre
<1>2. Types /\ LedgerBalances /\ [Next]_vars => (Types /\ LedgerBalances)'
  BY TypesStep, BooksStep
<1> QED BY <1>1, <1>2, PTL DEF Spec

-----------------------------------------------------------------------------
(* Every order is received once.                                            *)

DueIn(b) == {o \in orders : o.arrival = b}
DueQuantity(b) == Total([o \in DueIn(b) |-> o.quantity], DueIn(b))

\* Orders are of the weeks decided so far, and what is due in a bucket was received
\* there or is under way.
OrdersAccounted ==
  /\ IsFiniteSet(orders)
  /\ phase = "DONE" => Len(rows) = Horizon
  /\ \A o \in orders : o.placed <= Len(rows) \/ (phase = "ADVANCE" /\ o.placed = Len(rows) + 1)
  /\ phase # "FAILED" =>
       \A b \in Bucket :
         DueQuantity(b) = IF b <= Len(rows) THEN rows[b].recommended ELSE pending.recommended[b]
  /\ \A b \in DOMAIN rows : rows[b].inbound = plan.receipt[b]

\* Before the first bucket nothing is ordered and nothing received.
LEMMA AccountedInit == Init => OrdersAccounted
<1> SUFFICES ASSUME Init
             PROVE  OrdersAccounted
  OBVIOUS
<1>1. orders = {} /\ rows = <<>> /\ phase = "BASELINE"
      /\ pending.recommended = [b \in Bucket |-> 0]
  BY DEF Init
<1>2. \A b : DueIn(b) = {}
  BY <1>1 DEF DueIn
<1>3. \A b : DueQuantity(b) = 0
  BY <1>2, TotalEmpty DEF DueQuantity
<1>4. \A b \in Bucket : ~(b <= Len(rows))
  BY <1>1, HorizonType DEF Bucket
<1> QED BY <1>1, <1>3, <1>4, FS_EmptySet DEF OrdersAccounted

\* Every step keeps the orders accounted for.
LEMMA AccountedStep ==
  ASSUME Types, LedgerCurrent, OrdersAccounted, [Next]_vars
  PROVE  OrdersAccounted'
<1>1. rows \in Seq(Row) /\ Len(rows) \in Nat /\ orders \subseteq [placed : Bucket, arrival : Bucket, quantity : Nat \ {0}]
  BY DEF Types, TypeOK
<1>2. ASSUME UNCHANGED <<plan, rows, orders, pending>>, phase' # "DONE" \/ phase = "DONE",
             phase = "FAILED" => phase' = "FAILED", phase' = "ADVANCE" \/ phase # "ADVANCE"
      PROVE  OrdersAccounted'
  BY <1>2 DEF OrdersAccounted, DueQuantity, DueIn
<1>3. CASE BaselineBucket
  BY <1>2, <1>3 DEF BaselineBucket
<1>4. ASSUME NEW p \in Proposals, PlaceOrder(p)
      PROVE  OrdersAccounted'
  <2>1. PICK q \in Nat \ {0} :
          /\ Arrival \in Bucket /\ Week \in Bucket /\ Arrival >= Week
          /\ orders' = orders \cup {[placed |-> Week, arrival |-> Arrival, quantity |-> q]}
          /\ pending' = AddSupply(pending, Arrival, q)
    BY <1>4, Placed
  <2> DEFINE o == [placed |-> Week, arrival |-> Arrival, quantity |-> q]
             a == Arrival
  <2>2. /\ phase = "DECIDE" /\ phase' = "ADVANCE" /\ UNCHANGED <<plan, rows>>
        /\ Week = Len(rows) + 1
    BY <1>4 DEF PlaceOrder, Week
  <2>3. o.placed = Len(rows) + 1 /\ o.arrival = a /\ o.quantity = q /\ orders' = orders \cup {o}
    BY <2>1, <2>2
  <2>4. pending'.recommended = [pending.recommended EXCEPT ![a] = pending.recommended[a] + q]
        /\ pending.recommended \in [Bucket -> Nat]
    BY <2>1, AddSupplyType DEF Types, TypeOK, Ledger
  <2>5. a \in Bucket /\ a > Len(rows)
    BY <1>1, <2>1, <2>2, HorizonType DEF Bucket
  <2> HIDE DEF o, a
  <2>6. o \notin orders
    <3>1. \A x \in orders : x.placed <= Len(rows) /\ x.placed \in Nat
      BY <1>1, <2>2 DEF OrdersAccounted, Bucket
    <3> QED BY <1>1, <2>3, <3>1
  <2>7. IsFiniteSet(orders')
    BY <2>3, FS_AddElement DEF OrdersAccounted
  <2>8. ASSUME NEW b \in Bucket
        PROVE  DueQuantity(b)' = IF b <= Len(rows) THEN rows[b].recommended
                                 ELSE pending'.recommended[b]
    <3>1. CASE b = a
      <4> DEFINE S == DueIn(b)
                 T == S \cup {o}
                 f == [x \in S |-> x.quantity]
                 g == [x \in T |-> x.quantity]
      <4>1. DueIn(b)' = T /\ o \notin S
        BY <2>3, <2>6, <3>1 DEF DueIn
      <4>2. DueQuantity(b)' = Total(g, T)
        BY <4>1 DEF DueQuantity
      <4>3. IsFiniteSet(S) /\ IsFiniteSet(T)
        BY FS_Subset, FS_AddElement DEF DueIn, OrdersAccounted
      <4>4. (\A x \in S : x.quantity \in Int) /\ o.quantity \in Int
        BY <1>1, <2>3 DEF DueIn
      <4> HIDE DEF S
      <4>5. /\ \A x \in T : g[x] \in Int
            /\ g[o] = o.quantity /\ o \in T /\ T \ {o} = S
            /\ \A x \in S : g[x] = f[x]
        BY <4>1, <4>4
      <4> HIDE DEF T, f, g
      <4>6. Total(g, T) = o.quantity + Total(g, S)
        BY <4>3, <4>5, TotalTake
      <4>7. Total(g, S) = Total(f, S)
        BY <4>3, <4>5, TotalAgree
      <4>8. Total(f, S) = pending.recommended[a]
        <5>1. DueQuantity(b) = Total(f, S)
          BY DEF DueQuantity, f, S
        <5> QED BY <1>1, <2>2, <2>5, <3>1, <5>1, HorizonType DEF OrdersAccounted, Bucket
      <4> QED BY <1>1, <2>3, <2>4, <2>5, <3>1, <4>2, <4>6, <4>7, <4>8, HorizonType DEF Bucket
    <3>2. CASE b # a
      <4>1. DueIn(b)' = DueIn(b)
        BY <2>3, <3>2 DEF DueIn
      <4>2. DueQuantity(b)' = DueQuantity(b)
        BY <4>1 DEF DueQuantity
      <4> QED BY <2>2, <2>4, <3>2, <4>2 DEF OrdersAccounted
    <3> QED BY <3>1, <3>2
  <2> QED BY <2>2, <2>3, <2>7, <2>8 DEF OrdersAccounted
<1>5. ASSUME NEW p \in Proposals, OrderNothing(p)
      PROVE  OrdersAccounted'
  BY <1>2, <1>5 DEF OrderNothing
<1>6. CASE StrategyFails
  BY <1>6, FS_EmptySet DEF StrategyFails, OrdersAccounted
<1>7. CASE AdvanceBucket
  <2>1. /\ Week \in Bucket /\ Week = Len(rows) + 1 /\ Current \in Stock
        /\ pending.confirmed[Week] \in Nat /\ pending.recommended[Week] \in Nat
    BY <1>7, Advanced
  <2> DEFINE row == Advance(Current, plan.demand[Week], pending.confirmed[Week],
                            pending.recommended[Week])
  <2>2. row \in Row /\ rows' = Append(rows, row)
    BY <1>7, Advanced
  <2>3. row.inbound = pending.confirmed[Week] /\ row.recommended = pending.recommended[Week]
    BY DEF Advance
  <2> HIDE DEF row
  <2>4. /\ rows' \in Seq(Row) /\ Len(rows') = Week /\ DOMAIN rows' = 1..Week
        /\ \A b \in 1..Len(rows) : rows'[b] = rows[b]
        /\ rows'[Week] = row
    BY <1>1, <2>1, <2>2, AppendRow
  <2>5. /\ phase = "ADVANCE" /\ phase' = (IF Week = Horizon THEN "DONE" ELSE "DECIDE")
        /\ UNCHANGED <<plan, orders>> /\ pending' = DropSupply(pending, Week)
    BY <1>7 DEF AdvanceBucket
  <2>6. /\ pending'.recommended = [pending.recommended EXCEPT ![Week] = 0]
        /\ pending.recommended \in [Bucket -> Nat]
    BY <2>1, <2>5, DropSupplyType DEF Types, TypeOK, Ledger
  <2>7. \A b : DueQuantity(b)' = DueQuantity(b)
    BY <2>5 DEF DueQuantity, DueIn
  <2>8. pending.confirmed[Week] = plan.receipt[Week]
    BY <1>1, <2>1, <2>5 DEF LedgerCurrent
  <2> DEFINE w == Week
  <2>9. w = Len(rows) + 1 /\ w \in Nat /\ w \in Bucket
    BY <1>1, <2>1
  <2> HIDE DEF w
  <2>10. ASSUME NEW b \in Bucket
         PROVE  DueQuantity(b) = IF b <= w THEN rows'[b].recommended ELSE pending'.recommended[b]
    <3>1. DueQuantity(b) = IF b <= Len(rows) THEN rows[b].recommended ELSE pending.recommended[b]
      BY <2>5 DEF OrdersAccounted
    <3>2. CASE b = w
      BY <1>1, <2>3, <2>4, <2>9, <3>1, <3>2 DEF w
    <3>3. CASE b # w
      <4>1. b \in Nat /\ b >= 1
        BY HorizonType DEF Bucket
      <4>2. pending'.recommended[b] = pending.recommended[b]
        BY <2>6, <3>3 DEF w
      <4>3. CASE b <= Len(rows)
        BY <1>1, <2>4, <2>9, <3>1, <4>1, <4>3
      <4>4. CASE ~(b <= Len(rows))
        BY <1>1, <2>9, <3>1, <3>3, <4>1, <4>2, <4>4
      <4> QED BY <4>3, <4>4
    <3> QED BY <3>2, <3>3
  <2>11. \A b \in DOMAIN rows' : rows'[b].inbound = plan.receipt[b]
    <3> SUFFICES ASSUME NEW b \in DOMAIN rows'
                 PROVE  rows'[b].inbound = plan.receipt[b]
      OBVIOUS
    <3>1. CASE b = w
      BY <2>3, <2>4, <2>8, <3>1 DEF w
    <3>2. CASE b # w
      <4>1. b \in 1..Len(rows) /\ b \in DOMAIN rows
        BY <1>1, <2>4, <2>9, <3>2 DEF w
      <4> QED BY <2>4, <4>1 DEF OrdersAccounted
    <3> QED BY <3>1, <3>2
  <2>12. \A o \in orders : o.placed <= w
    <3>1. \A o \in orders : o.placed \in Nat
      BY <1>1, HorizonType DEF Bucket
    <3> QED BY <1>1, <2>5, <2>9, <3>1 DEF OrdersAccounted
  <2>13. Len(rows') = w /\ (phase' = "DONE" => w = Horizon) /\ phase' # "ADVANCE"
    BY <2>4, <2>5 DEF w
  <2>14. IsFiniteSet(orders')
    BY <2>5 DEF OrdersAccounted
  <2> QED BY <2>5, <2>7, <2>10, <2>11, <2>12, <2>13, <2>14 DEF OrdersAccounted
<1>8. CASE UNCHANGED vars
  BY <1>8 DEF vars, OrdersAccounted, DueQuantity, DueIn
<1> QED BY <1>3, <1>4, <1>5, <1>6, <1>7, <1>8 DEF Next

\* "Every accepted order is within the horizon and has been simulated exactly once",
\* for every strategy, calendar and plan: a bucket receives the orders due in it.
THEOREM OrdersReceived == Spec => []OrdersReceivedOnce
<1> DEFINE Inv == Types /\ LedgerCurrent /\ OrdersAccounted
<1>1. Init => Inv
  BY TypesInit, LedgerInit, AccountedInit
<1>2. Inv /\ [Next]_vars => Inv'
  BY TypesStep, LedgerStep, AccountedStep
<1>3. Inv => OrdersReceivedOnce
  <2> SUFFICES ASSUME Inv
               PROVE  OrdersReceivedOnce
    OBVIOUS
  <2>1. /\ rows \in Seq(Row) /\ Len(rows) \in Nat /\ Len(rows) <= Horizon
        /\ \A o \in orders : o.arrival \in Bucket
        /\ phase = "FAILED" => rows = <<>>
    BY DEF Types, TypeOK, Progress
  <2>2. ASSUME NEW b \in DOMAIN rows
        PROVE  rows[b].recommended = DueQuantity(b) /\ rows[b].inbound = plan.receipt[b]
    <3>1. b \in Bucket /\ b <= Len(rows) /\ phase # "FAILED"
      BY <2>1, HorizonType DEF Bucket
    <3> QED BY <3>1 DEF OrdersAccounted
  <2>3. phase = "DONE" => Len(rows) = Horizon
    BY DEF OrdersAccounted
  <2>4. phase = "DONE" => \A b \in Bucket : b <= Len(rows) /\ b \in DOMAIN rows
    BY <2>1, <2>3, HorizonType DEF Bucket
  <2>5. phase = "DONE" => \A b \in Bucket : Pending(b) = 0
    <3> SUFFICES ASSUME phase = "DONE", NEW b \in Bucket
                 PROVE  Pending(b) = 0
      OBVIOUS
    <3>1. pending.confirmed[b] = 0 /\ pending.recommended[b] = 0
      <4>1. ~(b > Len(rows))
        BY <2>1, <2>4, HorizonType DEF Bucket
      <4> QED BY <4>1 DEF LedgerCurrent
    <3> QED BY <3>1 DEF Pending
  <2> QED BY <2>1, <2>2, <2>4, <2>5, Zenon DEF OrdersReceivedOnce, DueQuantity, DueIn
<1> QED BY <1>1, <1>2, <1>3, PTL DEF Spec

-----------------------------------------------------------------------------
(* The inventory position.                                                  *)

\* The position after an order up to the target, with the order's rounding.
UpTo(b) == plan.maxTarget + plan.policy[b].moq + plan.policy[b].multiple

\* There is a largest position an order up to the target can reach.
LEMMA LargestReached ==
  ASSUME TypeOK
  PROVE  /\ LargestOrderUpTo \in Nat
         /\ \A b \in Bucket : UpTo(b) \in Nat /\ UpTo(b) <= LargestOrderUpTo
<1>1. ASSUME NEW b \in Bucket
      PROVE  UpTo(b) \in Nat
  BY PlanType, PlanAssumption DEF UpTo, Policy, TypeOK, Plan
<1> DEFINE S == {n \in Nat : n + 1 <= Horizon =>
                   \E b \in 1..(n + 1) : \A c \in 1..(n + 1) : UpTo(c) <= UpTo(b)}
<1>2. 0 \in S
  <2>1. 1 \in Bucket /\ 1..(0 + 1) = {1}
    BY HorizonType DEF Bucket
  <2>2. UpTo(1) <= UpTo(1)
    BY <1>1, <2>1
  <2> QED BY <2>1, <2>2
<1>3. ASSUME NEW n \in Nat, n \in S
      PROVE  n + 1 \in S
  <2> SUFFICES ASSUME (n + 1) + 1 <= Horizon
               PROVE  \E b \in 1..((n + 1) + 1) : \A c \in 1..((n + 1) + 1) : UpTo(c) <= UpTo(b)
    OBVIOUS
  <2> DEFINE m == (n + 1) + 1
  <2>1. PICK b \in 1..(n + 1) : \A c \in 1..(n + 1) : UpTo(c) <= UpTo(b)
    BY <1>3, HorizonType
  <2>2. \A c \in 1..m : UpTo(c) \in Nat
    BY <1>1, HorizonType DEF Bucket
  <2>3. m \in 1..m /\ b \in 1..m /\ \A c \in 1..m : c = m \/ c \in 1..(n + 1)
    OBVIOUS
  <2> HIDE DEF m
  <2>4. CASE UpTo(m) <= UpTo(b)
    <3>1. \A c \in 1..m : UpTo(c) <= UpTo(b)
      BY <2>1, <2>3, <2>4
    <3> QED BY <2>3, <3>1 DEF m
  <2>5. CASE ~(UpTo(m) <= UpTo(b))
    <3>1. UpTo(m) \in Nat /\ UpTo(b) \in Nat /\ UpTo(b) <= UpTo(m)
      BY <2>2, <2>3, <2>5
    <3>2. ASSUME NEW c \in 1..m
          PROVE  UpTo(c) <= UpTo(m)
      <4>1. UpTo(c) \in Nat /\ (c = m \/ UpTo(c) <= UpTo(b))
        BY <2>1, <2>2, <2>3
      <4>2. CASE c = m
        BY <3>1, <4>2
      <4>3. CASE UpTo(c) <= UpTo(b)
        BY <3>1, <4>1, <4>3
      <4> QED BY <4>1, <4>2, <4>3
    <3> QED BY <2>3, <3>2 DEF m
  <2> QED BY <2>4, <2>5
<1>4. Nat \subseteq S
  <2> HIDE DEF S
  <2> QED BY <1>2, <1>3, Induction
<1>5. PICK b \in Bucket : \A c \in Bucket : UpTo(c) <= UpTo(b)
  <2>1. Horizon - 1 \in S /\ (Horizon - 1) + 1 = Horizon
    BY <1>4, HorizonType
  <2> QED BY <2>1, HorizonType DEF Bucket
<1> DEFINE V == {plan.maxTarget + plan.policy[c].moq + plan.policy[c].multiple : c \in Bucket}
<1>6. /\ V = {UpTo(c) : c \in Bucket}
      /\ LargestOrderUpTo = CHOOSE m \in V : \A c \in Bucket : UpTo(c) <= m
  BY DEF LargestOrderUpTo, UpTo
<1> HIDE DEF V
<1>7. \E m \in V : \A c \in Bucket : UpTo(c) <= m
  BY <1>5, <1>6
<1>8. LargestOrderUpTo \in V /\ \A c \in Bucket : UpTo(c) <= LargestOrderUpTo
  BY <1>6, <1>7
<1>9. LargestOrderUpTo \in Nat
  BY <1>1, <1>6, <1>8
<1> QED BY <1>1, <1>8, <1>9

\* Lots that cover a need beyond a target overshoot it by less than a lot.
LEMMA LotsOvershoot ==
  ASSUME NEW position \in Int, NEW target \in Nat, NEW most \in Nat, NEW moq \in Nat,
         NEW lot \in Nat \ {0}, NEW n \in Nat \ {0}, target <= most,
         Most(0, target - position) > 0,
         (n - 1) * lot < Most(moq, Most(0, target - position))
  PROVE  position + n * lot <= most + moq + lot
<1>1. target - position > 0 /\ Most(0, target - position) = target - position
  BY DEF Most
<1>2. (n - 1) * lot = n * lot - lot /\ n * lot \in Int /\ (n - 1) * lot \in Int
  OBVIOUS
<1> DEFINE q == n * lot
           r == (n - 1) * lot
<1>3. r = q - lot /\ q \in Int
  BY <1>2
<1>4. r < Most(moq, target - position)
  BY <1>1
<1> HIDE DEF q, r
<1>5. q - lot < moq \/ q - lot < target - position
  BY <1>3, <1>4 DEF Most
<1>6. position + q <= most + moq + lot
  BY <1>1, <1>3, <1>5
<1> QED BY <1>6 DEF q

\* An order up to a target leaves the position below the largest.
LEMMA PlacedUpTo ==
  ASSUME Types, NEW p \in Proposals, PlaceOrder(p), "ORDER_QTY" \notin plan.allowed,
         InventoryPosition \in Int
  PROVE  \E q \in Nat \ {0} :
           /\ Arrival \in Bucket
           /\ pending' = AddSupply(pending, Arrival, q)
           /\ InventoryPosition + q <= LargestOrderUpTo
<1>1. PICK n \in 1..plan.maxOrder :
        /\ Accepts(p, n)
        /\ pending' = AddSupply(pending, Arrival, n * plan.policy[Week].multiple)
  BY DEF PlaceOrder
<1> DEFINE lot == plan.policy[Week].multiple
           moq == plan.policy[Week].moq
           position == InventoryPosition
<1>2. /\ Week \in Bucket /\ Arrival \in Bucket
  BY Placed
<1>3. /\ plan.maxOrder \in Nat /\ plan.maxTarget \in Nat /\ plan.minTarget \in Nat
      /\ lot \in Nat \ {0} /\ moq \in Nat
  BY <1>2, PlanAssumption, PlanType DEF Types, TypeOK, Plan, Policy
<1>4. /\ Approved(p) /\ Raw(p) > 0 /\ (n - 1) * lot < Most(moq, Raw(p))
  BY <1>1, Zenon DEF Accepts, LotsAccepted
<1>5. p.action = "ORDER_UP_TO" /\ p.quantity \in Nat
  <2>1. p.action \in Action /\ p.quantity \in Nat /\ (p.action = "HOLD" => p.quantity = 0)
    BY ProposalAssumption
  <2>2. p.action # "ORDER_QTY"
    BY <1>4 DEF Approved
  <2>3. p.action = "HOLD" => Raw(p) = 0
    BY <2>1 DEF Raw
  <2> QED BY <1>4, <2>1, <2>2, <2>3 DEF Action
<1>6. Raw(p) = Most(0, p.quantity - position)
  BY <1>5 DEF Raw
<1>7. p.quantity <= plan.maxTarget
  BY <1>3, <1>4, <1>5 DEF Approved
<1>8. n \in Nat \ {0}
  BY <1>3
<1> HIDE DEF lot, moq, position
<1>9. position + n * lot <= plan.maxTarget + moq + lot
  BY <1>3, <1>4, <1>5, <1>6, <1>7, <1>8, LotsOvershoot DEF position
<1>10. n * lot \in Nat \ {0}
  BY <1>3, <1>8, ProductPositive
<1>11. plan.maxTarget + moq + lot <= LargestOrderUpTo /\ LargestOrderUpTo \in Nat
       /\ plan.maxTarget + moq + lot \in Nat
  BY <1>2, LargestReached DEF Types, UpTo, moq, lot
<1> DEFINE q == n * lot
           up == plan.maxTarget + moq + lot
<1>12. q \in Nat \ {0} /\ position + q <= up /\ up \in Nat /\ up <= LargestOrderUpTo
  BY <1>9, <1>10, <1>11
<1> HIDE DEF q, up
<1>13. position + q <= LargestOrderUpTo
  BY <1>11, <1>12 DEF position
<1> QED BY <1>1, <1>2, <1>12, <1>13 DEF q, lot, position

PositionLimit ==
  Most(LargestOrderUpTo, plan.stock.available + Total(plan.receipt, Bucket) - plan.stock.backorder)

\* The bound is a number, and the position is one.
LEMMA PositionType ==
  ASSUME TypeOK
  PROVE  /\ PositionLimit \in Int /\ LargestOrderUpTo \in Int /\ LargestOrderUpTo <= PositionLimit
         /\ plan.stock.available + Total(plan.receipt, Bucket) - plan.stock.backorder
              <= PositionLimit
         /\ InventoryPosition \in Int /\ Current \in Stock /\ PendingTo(Horizon) \in Nat
<1>1. plan.stock \in Stock /\ plan.receipt \in [Bucket -> Nat] /\ Horizon \in Bucket
  BY PlanType, HorizonType DEF Bucket
<1>2. IsFiniteSet(Bucket)
  BY FS_Interval, HorizonType DEF Bucket
<1>3. Total(plan.receipt, Bucket) \in Int
  BY <1>1, <1>2, TotalInt
<1>4. PendingTo(Horizon) \in Nat
  BY <1>1, DueTotals, PendingDue DEF TypeOK, Ledger
<1>5. Current \in Stock
  BY StockAfterType DEF Current, TypeOK
<1>6. InventoryPosition \in Int
  BY <1>4, <1>5 DEF InventoryPosition, Stock
<1> DEFINE x == plan.stock.available + Total(plan.receipt, Bucket) - plan.stock.backorder
<1>7. x \in Int
  BY <1>1, <1>3 DEF Stock
<1>8. LargestOrderUpTo \in Nat
  BY LargestReached
<1>9. PositionLimit = Most(LargestOrderUpTo, x)
  BY DEF PositionLimit
<1> HIDE DEF x
<1>10. PositionLimit \in Int /\ LargestOrderUpTo <= PositionLimit /\ x <= PositionLimit
  BY <1>7, <1>8, <1>9 DEF Most
<1> QED BY <1>4, <1>5, <1>6, <1>8, <1>10 DEF x

\* Every step keeps the position below the bound.
LEMMA PipelineStep ==
  ASSUME Types, Types', PipelineBounded, [Next]_vars
  PROVE  PipelineBounded'
<1> SUFFICES ASSUME phase' # "FAILED", "ORDER_QTY" \notin plan'.allowed
             PROVE  InventoryPosition' <= PositionLimit'
  BY DEF PipelineBounded, PositionLimit
<1>1. plan' = plan /\ (phase = "FAILED" => UNCHANGED vars)
  BY DEF Next, BaselineBucket, PlaceOrder, OrderNothing, StrategyFails, AdvanceBucket, vars
<1>2. phase # "FAILED"
  BY <1>1 DEF vars
<1>3. PositionLimit' = PositionLimit
  BY <1>1 DEF PositionLimit, LargestOrderUpTo
<1>4. InventoryPosition <= PositionLimit
  BY <1>1, <1>2 DEF PipelineBounded, PositionLimit
<1>5. ASSUME UNCHANGED <<rows, pending>>
      PROVE  InventoryPosition' <= PositionLimit'
  <2>1. InventoryPosition' = InventoryPosition
    BY <1>1, <1>5 DEF InventoryPosition, Current, StockAfter, PendingTo, Pending
  <2> QED BY <1>3, <1>4, <2>1
<1>6. /\ PositionLimit \in Int /\ LargestOrderUpTo \in Int /\ LargestOrderUpTo <= PositionLimit
      /\ InventoryPosition \in Int /\ Current \in Stock /\ PendingTo(Horizon) \in Nat
  BY PositionType DEF Types
<1>7. pending \in Ledger /\ Horizon \in Bucket
  BY HorizonType DEF Types, TypeOK, Ledger, Bucket
<1>8. /\ Current.available \in Nat /\ Current.backorder \in Nat
  BY <1>6 DEF Stock
<1>9. ASSUME NEW p \in Proposals, PlaceOrder(p)
      PROVE  InventoryPosition' <= PositionLimit'
  <2>1. PICK q \in Nat \ {0} : /\ Arrival \in Bucket
                               /\ pending' = AddSupply(pending, Arrival, q)
                               /\ InventoryPosition + q <= LargestOrderUpTo
    BY <1>1, <1>6, <1>9, PlacedUpTo
  <2>2. PendingTo(Horizon)' = PendingTo(Horizon) + q
    <3>1. Horizon >= Arrival
      BY <2>1, HorizonType DEF Bucket
    <3> QED BY <1>7, <2>1, <3>1, DueOrdered, PendingDue
  <2>3. Current' = Current
    BY <1>1, <1>9 DEF PlaceOrder, Current, StockAfter
  <2>4. InventoryPosition' = InventoryPosition + q
    BY <1>6, <1>8, <2>2, <2>3 DEF InventoryPosition
  <2> QED BY <1>3, <1>6, <2>1, <2>4
<1>10. CASE AdvanceBucket
  <2> DEFINE row == Advance(Current, plan.demand[Week], pending.confirmed[Week],
                            pending.recommended[Week])
             due == Due(pending)[Week]
  <2>1. /\ Week \in Bucket /\ plan.demand[Week] \in Demand /\ row \in Row
        /\ rows' = Append(rows, row) /\ rows \in Seq(Row)
        /\ pending.confirmed[Week] \in Nat /\ pending.recommended[Week] \in Nat
        /\ due = pending.confirmed[Week] + pending.recommended[Week]
    BY <1>7, <1>10, Advanced, PlanType, DueType DEF Types, TypeOK
  <2>2. /\ Current.available + pending.confirmed[Week] + pending.recommended[Week]
             = row.eoh + row.fulfilledOrder + row.fulfilledForecast
        /\ Current.backorder + plan.demand[Week].order = row.backorderClose + row.fulfilledOrder
    BY <1>6, <2>1, BucketConserves
  <2>3. /\ row.eoh \in Nat /\ row.fulfilledOrder \in Nat /\ row.fulfilledForecast \in Nat
        /\ row.backorderClose \in Nat
    BY <2>1 DEF Row
  <2>4. plan.demand[Week].order \in Nat
    BY <2>1 DEF Demand
  <2>5. pending' = DropSupply(pending, Week)
    BY <1>10 DEF AdvanceBucket
  <2>6. PendingTo(Horizon)' = PendingTo(Horizon) - due
    <3>1. Horizon >= Week
      BY <2>1, HorizonType DEF Bucket
    <3> QED BY <1>7, <2>1, <2>5, <3>1, DueDropped, PendingDue
  <2>7. Current'.available = row.eoh /\ Current'.backorder = row.backorderClose
    <3> HIDE DEF row
    <3>1. Len(rows') = Len(rows) + 1 /\ rows' # <<>> /\ rows'[Len(rows) + 1] = row
      BY <2>1, AppendRow
    <3> QED BY <3>1 DEF Current, StockAfter
  <2> DEFINE open == Current.available
             owed == Current.backorder
             i == pending.confirmed[Week]
             q == pending.recommended[Week]
             wish == plan.demand[Week].order
             eoh == row.eoh
             order == row.fulfilledOrder
             forecast == row.fulfilledForecast
             close == row.backorderClose
             P == PendingTo(Horizon)
  <2>8. /\ open \in Nat /\ owed \in Nat /\ i \in Nat /\ q \in Nat /\ wish \in Nat /\ eoh \in Nat
        /\ order \in Nat /\ forecast \in Nat /\ close \in Nat /\ P \in Nat /\ due = i + q
        /\ open + i + q = eoh + order + forecast /\ owed + wish = close + order
        /\ InventoryPosition = open + P - owed
        /\ InventoryPosition' = eoh + (P - due) - close
    BY <1>6, <1>8, <2>1, <2>2, <2>3, <2>4, <2>6, <2>7 DEF InventoryPosition
  <2> HIDE DEF open, owed, i, q, wish, eoh, order, forecast, close, P, due, row
  <2>9. InventoryPosition' <= InventoryPosition /\ InventoryPosition' \in Int
    BY <2>8
  <2> QED BY <1>3, <1>4, <1>6, <2>9
<1>11. CASE BaselineBucket
  BY <1>5, <1>11 DEF BaselineBucket
<1>12. ASSUME NEW p \in Proposals, OrderNothing(p)
       PROVE  InventoryPosition' <= PositionLimit'
  BY <1>5, <1>12 DEF OrderNothing
<1>13. CASE StrategyFails
  BY <1>13 DEF StrategyFails
<1>14. CASE UNCHANGED vars
  BY <1>5, <1>14 DEF vars
<1> QED BY <1>9, <1>10, <1>11, <1>12, <1>13, <1>14 DEF Next

\* Orders under way count, for every strategy, policy and calendar: repeated
\* ORDER_UP_TO decisions never lift the inventory position above the approved target
\* by more than one order's rounding.
THEOREM PositionBounded == Spec => []PipelineBounded
<1>1. Init => Types /\ PipelineBounded
  <2> SUFFICES ASSUME Init
               PROVE  Types /\ PipelineBounded
    OBVIOUS
  <2>1. Types /\ TypeOK
    BY TypesInit DEF Types
  <2>2. /\ pending = [confirmed |-> plan.receipt, recommended |-> [b \in Bucket |-> 0]]
        /\ Current = plan.stock /\ plan.receipt \in [Bucket -> Nat]
    BY <2>1, PlanType DEF Init, Current, StockAfter
  <2>3. Due(pending) = plan.receipt
    BY <2>2 DEF Due
  <2>4. PendingTo(Horizon) = Total(plan.receipt, Bucket)
    BY <2>2, <2>3, LastRunningTotal, PendingDue, HorizonType DEF Bucket
  <2>5. InventoryPosition <= PositionLimit
    BY <2>1, <2>2, <2>4, PositionType DEF InventoryPosition
  <2> QED BY <2>1, <2>5 DEF PipelineBounded, PositionLimit
<1>2. Types /\ PipelineBounded /\ [Next]_vars => (Types /\ PipelineBounded)'
  BY TypesStep, PipelineStep
<1> QED BY <1>1, <1>2, PTL DEF Spec

\* SupplyAccounted, for every strategy, calendar and plan: what a projection is supplied
\* with is received once, stays in its books and outgrows neither target nor capacity.
THEOREM SupplyIsAccounted == Spec => []SupplyAccounted
<1>1. OrdersReceivedOnce /\ LedgerBalances /\ PipelineBounded /\ ExcessNeverRecommended
        => SupplyAccounted
  BY DEF SupplyAccounted
<1> QED BY <1>1, OrdersReceived, BooksBalance, PositionBounded, CapacityGuaranteed, PTL

-----------------------------------------------------------------------------
(* The canonical snapshots of a request, as a function of the request.      *)

Source(k) == Request.sources[k]

MasterRows == MappedRows(Source("master"), {})

\* A snapshot whose document names no other.
Plain(k) ==
  [id |-> Source(k).id, status |-> Source(k).status,
   rows |-> MappedRows(Source(k), IF k \in {"calendar", "master"} THEN {} ELSE MasterRows),
   meta |-> Source(k).meta]

Made(k) ==
  IF Parents(k) = {} THEN Plain(k)
  ELSE [id |-> Source(k).id, status |-> Source(k).status, rows |-> Plain(k).rows,
        meta |-> [Source(k).meta EXCEPT !.parents = [p \in Parents(k) |-> Plain(p)]]]

\* The set of a request, which Canonical is when all is read.
PinnedSet ==
  [context |-> Context, rules |-> Request.rules, universe |-> Request.universe,
   upstream |-> Request.upstream, snapshots |-> [k \in Kinds |-> Made(k)]]

\* The snapshots of the site, which the producer writes.
Written == {SiteOrder[n] : n \in DOMAIN SiteOrder}

-----------------------------------------------------------------------------
(* The inductive invariant.                                                 *)

FirstKinds(n) == {Order[m] : m \in 1..n}

\* What was composed follows from the request, in the order of reading.
ComposedAsPinned ==
  /\ \E n \in 0..8 : DOMAIN composed = FirstKinds(n)
  /\ DOMAIN composed # {} => RequestAdmitted
  /\ composed = [k \in DOMAIN composed |-> Made(k)]

\* A file is one that was there, or a snapshot of the site.
FilesAsPinned ==
  \A id \in DOMAIN catalog :
    \/ id \in DOMAIN given.catalog /\ catalog[id] = given.catalog[id]
    \/ \E k \in Written : id = Made(k).id /\ catalog[id] = Made(k) /\ RequestAdmitted

\* Only a set that is whole and admitted goes on.
OnlyAdmitted ==
  producer \in {"PREPARED", "PUBLISHED", "CLAIMED", "CONFLICT"} =>
    DOMAIN composed = Kinds /\ Admitted(PinnedSet)

\* The producer only conflicts with a file that was there before, of the same name and
\* another content.
ConflictIsForeign ==
  producer = "CONFLICT" =>
    \E k \in Written : /\ Made(k).id \in DOMAIN given.catalog
                       /\ given.catalog[Made(k).id] # Made(k)

SetStored == producer = "PUBLISHED" => \A n \in DOMAIN SiteOrder : Stored(SiteOrder[n])

\* A Run that has started was claimed for the set and plans one of its items.
RunAsPinned ==
  phase # "WAITING" =>
    /\ producer = "CLAIMED"
    /\ RunAdmitted(given.claim, given.policies, PinnedSet)
    /\ \E i \in Universe(PinnedSet) : plan = PlanOf(PinnedSet, i)

IInv ==
  IF NoRequest THEN producer = "CLAIMED"
  ELSE /\ ComposedAsPinned
       /\ FilesAsPinned
       /\ OnlyAdmitted
       /\ ConflictIsForeign
       /\ SetStored
       /\ RunAsPinned

-----------------------------------------------------------------------------
(* Names and numbers of documents.                                          *)

\* The number of documents read tells which were read.
LEMMA ReadCount ==
  ASSUME NEW n \in 0..8
  PROVE  IsFiniteSet(FirstKinds(n)) /\ Cardinality(FirstKinds(n)) = n
<1> DEFINE f == [m \in 1..n |-> Order[m]]
<1>1. f \in Bijection(1..n, FirstKinds(n))
  BY DEF Bijection, Injection, Surjection, IsInjective, Order, FirstKinds
<1>2. IsFiniteSet(1..n) /\ Cardinality(1..n) = n
  <2>1. 1 \in Int /\ n \in Int
    OBVIOUS
  <2>2. Cardinality(1..n) = IF 1 > n THEN 0 ELSE n - 1 + 1
    BY <2>1, FS_Interval
  <2> QED BY <2>1, <2>2, FS_Interval
<1>3. ExistsBijection(1..n, FirstKinds(n))
  BY <1>1 DEF ExistsBijection
<1> QED BY <1>2, <1>3, FS_Bijection

\* The eight kinds of document.
LEMMA EightKinds ==
  /\ FirstKinds(8) = Kinds
  /\ FirstKinds(0) = {}
  /\ Kinds = {"calendar", "master", "prior_inventory", "forecast", "customer_orders",
              "receipts", "policies", "inventory"}
  /\ Written = {"inventory", "prior_inventory", "policies", "receipts", "customer_orders"}
  BY DEF FirstKinds, Kinds, Order, Written, SiteOrder

\* Documents of an admitted request have names of their own.
LEMMA NamesDiffer ==
  ASSUME RequestAdmitted, NEW j \in Kinds, NEW k \in Kinds, Source(j).id = Source(k).id
  PROVE  j = k
<1> DEFINE Names == {Request.sources[q].id : q \in Kinds}
           f == [q \in Kinds |-> Request.sources[q].id]
<1>1. IsFiniteSet(Kinds)
  BY ReadCount, EightKinds
<1>2. f \in Surjection(Kinds, Names)
  BY DEF Surjection
<1>3. Cardinality(Names) = Cardinality(Kinds)
  BY DEF RequestAdmitted
<1>4. f \in Injection(Kinds, Names)
  <2> HIDE DEF f, Names
  <2> QED BY <1>1, <1>2, <1>3, FS_Surjection
<1> QED BY <1>4 DEF Injection, IsInjective, Source

-----------------------------------------------------------------------------
(* The steps.                                                               *)

\* What follows from the request alone stays while the request does.
LEMMA RequestFixed ==
  ASSUME UNCHANGED given
  PROVE  /\ \A k : Made(k)' = Made(k)
         /\ RequestAdmitted' = RequestAdmitted
         /\ PinnedSet' = PinnedSet
         /\ Admitted(PinnedSet)' = Admitted(PinnedSet)
         /\ RunAdmitted(given.claim, given.policies, PinnedSet)'
            = RunAdmitted(given.claim, given.policies, PinnedSet)
         /\ Universe(PinnedSet)' = Universe(PinnedSet)
         /\ \A i : PlanOf(PinnedSet, i)' = PlanOf(PinnedSet, i)
<1>1. \A k : Made(k)' = Made(k)
  BY DEF Made, Plain, Source, MasterRows, Request
<1>2. RequestAdmitted' = RequestAdmitted
  BY DEF RequestAdmitted, Request, Context, Deployment
<1>3. PinnedSet' = PinnedSet
  BY <1>1 DEF PinnedSet, Request, Context
<1>4. Admitted(PinnedSet)' = Admitted(PinnedSet)
  <2>1. SnapshotsVerified(PinnedSet)' = SnapshotsVerified(PinnedSet)
    BY <1>3 DEF SnapshotsVerified, Deployment
  <2>2. CalendarValid(PinnedSet)' = CalendarValid(PinnedSet)
    BY <1>3
  <2>3. UniverseValid(PinnedSet)' = UniverseValid(PinnedSet)
    BY <1>3 DEF UniverseValid, UniverseChosen, PoliciesValid, Deployment, Unique, ByItem
  <2>4. CutoffVerified(PinnedSet)' = CutoffVerified(PinnedSet)
    BY <1>3 DEF CutoffVerified, LineageValid, EventsValid, Deployment, Unique
  <2>5. ReceiptsValid(PinnedSet)' = ReceiptsValid(PinnedSet)
    BY <1>3 DEF ReceiptsValid, Deployment
  <2>6. (\A r \in PinnedSet.snapshots["forecast"].rows : NettingValid(r))'
          = \A r \in PinnedSet.snapshots["forecast"].rows : NettingValid(r)
    BY <1>3
  <2> QED BY <2>1, <2>2, <2>3, <2>4, <2>5, <2>6 DEF Admitted
<1>5. RunAdmitted(given.claim, given.policies, PinnedSet)'
      = RunAdmitted(given.claim, given.policies, PinnedSet)
  BY <1>3
<1>6. Universe(PinnedSet)' = Universe(PinnedSet)
  BY <1>3
<1>7. \A i : PlanOf(PinnedSet, i)' = PlanOf(PinnedSet, i)
  BY <1>3 DEF PlanOf, Request
<1> QED BY <1>1, <1>2, <1>3, <1>4, <1>5, <1>6, <1>7

\* Reading the next document adds the snapshot the request pins.
LEMMA SourceReadKeeps ==
  ASSUME ~NoRequest, IInv, ReadSource, UNCHANGED vars
  PROVE  IInv'
<1> PICK n \in 0..8 : DOMAIN composed = FirstKinds(n)
  BY DEF IInv, ComposedAsPinned
<1>1. n \in 0..7 /\ NextKind = Order[n + 1]
  BY ReadCount, EightKinds DEF ReadSource, NextKind
<1> DEFINE k == NextKind
           d == desk[NextKind]
<1>2. CASE producer' = "REFUSED" /\ UNCHANGED composed
  BY <1>2, RequestFixed DEF IInv, ReadSource, ComposedAsPinned, FilesAsPinned, OnlyAdmitted,
     ConflictIsForeign, SetStored, RunAsPinned, NoRequest, vars
<1>3. CASE Usable(k, d) /\ composed' = With(composed, k, Snapshot(k, d)) /\ UNCHANGED producer
  <2>1. d = Source(k) /\ RequestAdmitted
    BY <1>3 DEF Usable, SourceAdmitted, Pinned, Source
  <2>2. \A p \in DOMAIN composed : composed[p] = Made(p)
    BY DEF IInv, ComposedAsPinned
  <2>3. MasterRead = IF k \in {"calendar", "master"} THEN {} ELSE MasterRows
    <3>1. "master" \in DOMAIN composed <=> k \notin {"calendar", "master"}
      BY <1>1 DEF FirstKinds, Order
    <3>2. Made("master").rows = MasterRows
      BY DEF Made, Parents, Plain, MasterRows
    <3> QED BY <3>1, <3>2, <2>2 DEF MasterRead
  <2>4. \A p \in Parents(k) : composed[p] = Plain(p)
    <3>1. Parents(k) \subseteq DOMAIN composed
      BY <1>1 DEF FirstKinds, Order, Parents
    <3>2. \A p \in Parents(k) : Parents(p) = {}
      BY DEF Parents
    <3> QED BY <3>1, <3>2, <2>2 DEF Made
  <2>5. [p \in Parents(k) |-> composed[p]] = [p \in Parents(k) |-> Plain(p)]
    BY <2>4
  <2>6. Snapshot(k, d) = Made(k)
    BY <2>1, <2>3, <2>5 DEF Snapshot, Made, Plain
  <2>7. k \notin DOMAIN composed /\ DOMAIN composed \cup {k} = FirstKinds(n + 1)
    BY <1>1 DEF FirstKinds, Order
  <2>8. composed' = [p \in DOMAIN composed \cup {k} |-> Made(p)]
    BY <1>3, <2>2, <2>6 DEF With
  <2> HIDE DEF k, d
  <2>9. UNCHANGED given
    BY DEF ReadSource
  <2>10. ComposedAsPinned'
    <3>1. DOMAIN composed' = FirstKinds(n + 1) /\ n + 1 \in 0..8
      BY <2>7, <2>8, <1>1
    <3>2. \A p : Made(p)' = Made(p)
      BY <2>9, RequestFixed
    <3>3. composed' = [p \in DOMAIN composed' |-> Made(p)']
      BY <2>8, <3>2
    <3>4. RequestAdmitted'
      BY <2>1, <2>9 DEF RequestAdmitted, Context, Request, Deployment
    <3> QED BY <3>1, <3>3, <3>4 DEF ComposedAsPinned, FirstKinds
  <2>11. producer' = "READING" /\ phase' = "WAITING" /\ ~NoRequest'
    BY <1>3, <2>9 DEF IInv, ReadSource, RunAsPinned, NoRequest, vars
  <2>12. FilesAsPinned'
    BY <2>9, RequestFixed DEF IInv, ReadSource, FilesAsPinned
  <2> QED
    BY <2>10, <2>11, <2>12 DEF IInv, OnlyAdmitted, ConflictIsForeign, SetStored, RunAsPinned
<1> QED BY <1>2, <1>3 DEF ReadSource

\* The set that is admitted is the one the request pins.
LEMMA AdmissionKeeps ==
  ASSUME ~NoRequest, IInv, PrepareInput, UNCHANGED vars
  PROVE  IInv'
<1>1. Canonical = PinnedSet
  BY DEF IInv, ComposedAsPinned, PrepareInput, Canonical, PinnedSet
<1>2. UNCHANGED <<given, composed, catalog>> /\ ~NoRequest'
  BY DEF PrepareInput, NoRequest
<1>3. PinnedSet' = PinnedSet /\ Admitted(PinnedSet)' = Admitted(PinnedSet)
  BY <1>2, RequestFixed
<1>4. phase' = "WAITING"
  BY DEF IInv, RunAsPinned, PrepareInput, vars
<1>5. ComposedAsPinned' /\ FilesAsPinned'
  BY <1>2, RequestFixed DEF IInv, ComposedAsPinned, FilesAsPinned
<1>6. producer' \in {"PREPARED", "REFUSED"} /\ OnlyAdmitted'
  BY <1>1, <1>2, <1>3 DEF PrepareInput, OnlyAdmitted
<1> QED
  BY <1>2, <1>4, <1>5, <1>6 DEF IInv, ConflictIsForeign, SetStored, RunAsPinned

\* Writing keeps what is there, and ends in a conflict only over a file of another.
LEMMA PublicationKeeps ==
  ASSUME ~NoRequest, IInv, PublishNext, UNCHANGED vars
  PROVE  IInv'
<1>1. /\ DOMAIN composed = Kinds
      /\ RequestAdmitted
      /\ \A k \in Kinds : composed[k] = Made(k)
      /\ Written \subseteq Kinds
      /\ phase' = "WAITING" /\ ~NoRequest' /\ UNCHANGED <<given, composed>>
  BY EightKinds DEF IInv, OnlyAdmitted, ComposedAsPinned, RunAsPinned, PublishNext, vars, NoRequest
<1>2. /\ \A k : Made(k)' = Made(k)
      /\ RequestAdmitted' = RequestAdmitted
      /\ PinnedSet' = PinnedSet
      /\ Admitted(PinnedSet)' = Admitted(PinnedSet)
  BY <1>1, RequestFixed
<1>3. ComposedAsPinned'
  BY <1>1, <1>2 DEF IInv, ComposedAsPinned
<1>4. CASE producer' = "PUBLISHED" /\ UNCHANGED catalog /\ \A n \in DOMAIN SiteOrder : Stored(SiteOrder[n])
  BY <1>1, <1>2, <1>3, <1>4 DEF IInv, FilesAsPinned, OnlyAdmitted, ConflictIsForeign, SetStored,
     RunAsPinned, Stored, PublishNext
<1>5. ASSUME NEW n \in DOMAIN SiteOrder, ~Stored(SiteOrder[n]),
             IF composed[SiteOrder[n]].id \in DOMAIN catalog
             THEN producer' = "CONFLICT" /\ UNCHANGED catalog
             ELSE /\ catalog' = With(catalog, composed[SiteOrder[n]].id, composed[SiteOrder[n]])
                  /\ UNCHANGED producer
      PROVE  IInv'
  <2> DEFINE k == SiteOrder[n]
  <2>1. k \in Written /\ composed[k] = Made(k)
    BY <1>1 DEF Written
  <2>2. OnlyAdmitted'
    BY <1>1, <1>2 DEF IInv, OnlyAdmitted, PublishNext
  <2>3. CASE Made(k).id \in DOMAIN catalog /\ producer' = "CONFLICT" /\ UNCHANGED catalog
    <3>1. catalog[Made(k).id] # Made(k)
      BY <1>5, <2>1, <2>3 DEF Stored
    <3>2. \A q \in Written : Made(q).id = Source(q).id
      BY DEF Made, Plain
    <3>3. \A q \in Written : Made(q).id = Made(k).id => q = k
      BY <1>1, <2>1, <3>2, NamesDiffer
    <3>4. Made(k).id \in DOMAIN given.catalog /\ given.catalog[Made(k).id] = catalog[Made(k).id]
      BY <2>3, <3>1, <3>3 DEF IInv, FilesAsPinned
    <3>5. ConflictIsForeign'
      BY <1>1, <1>2, <2>1, <3>1, <3>4 DEF ConflictIsForeign
    <3>6. FilesAsPinned'
      BY <1>1, <1>2, <2>3 DEF IInv, FilesAsPinned
    <3> QED
      BY <1>1, <1>3, <2>2, <2>3, <3>5, <3>6 DEF IInv, SetStored, RunAsPinned
  <2>4. CASE /\ catalog' = With(catalog, Made(k).id, Made(k))
             /\ UNCHANGED producer /\ Made(k).id \notin DOMAIN catalog
    <3>1. FilesAsPinned'
      BY <1>1, <1>2, <2>1, <2>4 DEF IInv, FilesAsPinned, With
    <3>2. producer' = "PREPARED"
      BY <2>4 DEF PublishNext
    <3> QED
      BY <1>1, <1>3, <2>2, <3>1, <3>2 DEF IInv, ConflictIsForeign, SetStored, RunAsPinned
  <2> QED BY <1>5, <2>1, <2>3, <2>4
<1> QED BY <1>4, <1>5 DEF PublishNext

\* A producer that is started again has read nothing, and its files are still there.
LEMMA CrashKeeps ==
  ASSUME ~NoRequest, IInv, CrashProducer, UNCHANGED vars
  PROVE  IInv'
<1>1. UNCHANGED <<given, catalog>> /\ ~NoRequest' /\ producer' = "READING"
  BY DEF CrashProducer, NoRequest
<1>2. phase' = "WAITING"
  BY DEF IInv, RunAsPinned, CrashProducer, vars
<1>3. ComposedAsPinned'
  <2>1. composed' = <<>> /\ DOMAIN composed' = {}
    BY DEF CrashProducer
  <2>2. composed' = [k \in DOMAIN composed' |-> Made(k)']
    BY <2>1
  <2>3. DOMAIN composed' = FirstKinds(0) /\ 0 \in 0..8
    BY <2>1, EightKinds
  <2> QED BY <2>1, <2>2, <2>3 DEF ComposedAsPinned, FirstKinds
<1>4. FilesAsPinned'
  BY <1>1, RequestFixed DEF IInv, FilesAsPinned
<1> QED
  BY <1>1, <1>2, <1>3, <1>4 DEF IInv, OnlyAdmitted, ConflictIsForeign, SetStored, RunAsPinned

\* Another answer of the source changes nothing that was read.
LEMMA RecollectKeeps ==
  ASSUME ~NoRequest, IInv, Recollect, UNCHANGED vars
  PROVE  IInv'
<1>1. UNCHANGED <<given, composed, producer, catalog>> /\ ~NoRequest'
  BY DEF Recollect, NoRequest
<1>2. producer' = "READING" /\ phase' = "WAITING"
  BY <1>1 DEF IInv, RunAsPinned, Recollect, vars
<1>3. ComposedAsPinned' /\ FilesAsPinned'
  BY <1>1, RequestFixed DEF IInv, ComposedAsPinned, FilesAsPinned
<1> QED
  BY <1>1, <1>2, <1>3 DEF IInv, OnlyAdmitted, ConflictIsForeign, SetStored, RunAsPinned

\* A Run only starts on the set its claim names.
LEMMA StartKeeps ==
  ASSUME ~NoRequest, IInv, StartRun
  PROVE  IInv'
<1>1. UNCHANGED <<given, composed, catalog>> /\ ~NoRequest'
  BY DEF StartRun, NoRequest
<1>2. DOMAIN composed = Kinds /\ Admitted(PinnedSet)
  BY DEF IInv, OnlyAdmitted, StartRun, InputReady
<1>3. Canonical = PinnedSet
  BY <1>2 DEF IInv, ComposedAsPinned, Canonical, PinnedSet
<1>4. RunAdmitted(given.claim, given.policies, PinnedSet) /\ \E i \in Universe(PinnedSet) : plan' = PlanOf(PinnedSet, i)
  BY <1>3 DEF StartRun
<1>5. producer' = "CLAIMED" /\ phase' = "BASELINE"
  BY DEF StartRun
<1>6. RunAsPinned'
  BY <1>1, <1>4, <1>5, RequestFixed DEF RunAsPinned
<1>7. ComposedAsPinned' /\ FilesAsPinned'
  BY <1>1, RequestFixed DEF IInv, ComposedAsPinned, FilesAsPinned
<1>8. OnlyAdmitted'
  BY <1>1, <1>2, RequestFixed DEF OnlyAdmitted
<1> QED
  BY <1>1, <1>5, <1>6, <1>7, <1>8 DEF IInv, ConflictIsForeign, SetStored

\* A Run whose claim names another set does not start.
LEMMA RefuseKeeps ==
  ASSUME ~NoRequest, IInv, RefuseRun
  PROVE  IInv'
<1>1. UNCHANGED <<given, composed, catalog>> /\ ~NoRequest'
  BY DEF RefuseRun, NoRequest
<1>2. producer' = "REFUSED" /\ phase' = "WAITING"
  BY DEF RefuseRun, vars
<1>3. ComposedAsPinned' /\ FilesAsPinned'
  BY <1>1, RequestFixed DEF IInv, ComposedAsPinned, FilesAsPinned
<1> QED
  BY <1>1, <1>2, <1>3 DEF IInv, OnlyAdmitted, ConflictIsForeign, SetStored, RunAsPinned

\* The projections leave the input alone.
LEMMA ProjectionKeeps ==
  ASSUME IInv, Next, UNCHANGED inputVars
  PROVE  IInv'
<1>1. UNCHANGED <<given, composed, producer, catalog>> /\ NoRequest' = NoRequest
  BY DEF inputVars, NoRequest
<1>2. phase # "WAITING" /\ UNCHANGED plan
  BY DEF Next, BaselineBucket, PlaceOrder, OrderNothing, StrategyFails, AdvanceBucket
<1>3. CASE NoRequest
  BY <1>1, <1>3 DEF IInv
<1>4. CASE ~NoRequest
  <2>1. ComposedAsPinned' /\ FilesAsPinned'
    BY <1>1, <1>4, RequestFixed DEF IInv, ComposedAsPinned, FilesAsPinned
  <2>2. RunAsPinned' /\ producer' = "CLAIMED"
    BY <1>1, <1>2, <1>4, RequestFixed DEF IInv, RunAsPinned
  <2>3. OnlyAdmitted'
    BY <1>1, <1>4, RequestFixed DEF IInv, OnlyAdmitted
  <2> QED
    BY <1>1, <1>4, <2>1, <2>2, <2>3 DEF IInv, ConflictIsForeign, SetStored
<1> QED BY <1>3, <1>4

\* Without a step of any kind nothing changes.
LEMMA StutterKeeps ==
  ASSUME IInv, UNCHANGED allVars
  PROVE  IInv'
<1>1. UNCHANGED <<given, composed, producer, catalog, phase, plan>> /\ NoRequest' = NoRequest
  BY DEF allVars, vars, inputVars, NoRequest
<1>2. CASE NoRequest
  BY <1>1, <1>2 DEF IInv
<1>3. CASE ~NoRequest
  <2>1. ComposedAsPinned' /\ FilesAsPinned'
    BY <1>1, <1>3, RequestFixed DEF IInv, ComposedAsPinned, FilesAsPinned
  <2>2. RunAsPinned' /\ OnlyAdmitted'
    BY <1>1, <1>3, RequestFixed DEF IInv, RunAsPinned, OnlyAdmitted
  <2>3. ConflictIsForeign'
    BY <1>1, <1>3, RequestFixed DEF IInv, ConflictIsForeign
  <2>4. SetStored'
    BY <1>1, <1>3 DEF IInv, SetStored, Stored
  <2> QED BY <1>1, <1>3, <2>1, <2>2, <2>3, <2>4 DEF IInv
<1> QED BY <1>2, <1>3

\* Nothing is read, written or planned at first.
LEMMA InitPinned == InputInit => IInv
<1> SUFFICES ASSUME InputInit PROVE IInv
  OBVIOUS
<1>1. CASE NoRequest
  BY <1>1 DEF InputInit, IInv
<1>2. CASE ~NoRequest
  <2>1. /\ composed = <<>> /\ DOMAIN composed = {} /\ producer = "READING"
        /\ catalog = given.catalog /\ phase = "WAITING"
    BY <1>2 DEF InputInit, PreparedInit, NoRequest
  <2>2. ComposedAsPinned
    <3>1. composed = [k \in DOMAIN composed |-> Made(k)]
      BY <2>1
    <3>2. DOMAIN composed = FirstKinds(0) /\ 0 \in 0..8
      BY <2>1, EightKinds
    <3> QED BY <2>1, <3>1, <3>2 DEF ComposedAsPinned
  <2> QED
    BY <1>2, <2>1, <2>2 DEF IInv, FilesAsPinned, OnlyAdmitted, ConflictIsForeign, SetStored,
       RunAsPinned
<1> QED BY <1>1, <1>2

\* Every step keeps the invariant.
LEMMA StepPinned == IInv /\ [PreparedNext]_allVars => IInv'
<1> SUFFICES ASSUME IInv, [PreparedNext]_allVars PROVE IInv'
  OBVIOUS
<1>1. CASE Next /\ UNCHANGED inputVars
  BY <1>1, ProjectionKeeps
<1>2. CASE ~NoRequest /\ phase = "WAITING" /\ Prepare /\ UNCHANGED vars
  BY <1>2, SourceReadKeeps, AdmissionKeeps, PublicationKeeps, CrashKeeps, RecollectKeeps DEF Prepare
<1>3. CASE StartRun
  BY <1>3, StartKeeps DEF IInv, StartRun, InputReady
<1>4. CASE RefuseRun
  BY <1>4, RefuseKeeps DEF IInv, RefuseRun, InputReady
<1>5. CASE UNCHANGED allVars
  BY <1>5, StutterKeeps
<1> QED BY <1>1, <1>2, <1>3, <1>4, <1>5 DEF PreparedNext

\* The invariant holds of every behaviour.
THEOREM InputsPinned == PreparedSpec => []IInv
<1>1. InputInit => IInv
  BY InitPinned
<1>2. IInv /\ [PreparedNext]_allVars => IInv'
  BY StepPinned
<1> QED BY <1>1, <1>2, PTL DEF PreparedSpec

-----------------------------------------------------------------------------
(* What follows for a reader.                                               *)

\* A publication is whole, and a producer that is started again, whatever the sources
\* answer by then, does not conflict with the files it wrote itself (publish_canonical
\* with LocalCanonicalSnapshotPublisher).
THEOREM PublicationWhole == PreparedSpec => []PublishedWhole
<1>1. IInv => PublishedWhole
  <2> SUFFICES ASSUME IInv PROVE PublishedWhole
    OBVIOUS
  <2>1. CASE NoRequest
    BY <2>1 DEF IInv, PublishedWhole
  <2>2. ASSUME ~NoRequest, producer = "CONFLICT" PROVE given.catalog # <<>>
    BY <2>2 DEF IInv, ConflictIsForeign
  <2>3. CASE ~NoRequest
    BY <2>2, <2>3 DEF IInv, SetStored, PublishedWhole
  <2> QED BY <2>1, <2>3
<1> QED BY <1>1, InputsPinned, PTL

\* What a Run plans with is a function of its request: the set the request pins, which
\* is admitted and which its claim names, and one of its items.  No order of reads, no
\* later answer of a source and no restart of the producer shows in it.
PlanPinned ==
  ~NoRequest /\ phase # "WAITING" =>
    /\ Admitted(PinnedSet)
    /\ RunAdmitted(given.claim, given.policies, PinnedSet)
    /\ \E i \in Universe(PinnedSet) : plan = PlanOf(PinnedSet, i)

\* Every Run plans with the set its request pins (validate_canonical_runtime_binding
\* over what the producer composed).
THEOREM PlanFollowsRequest == PreparedSpec => []PlanPinned
<1>1. IInv => PlanPinned
  BY DEF IInv, RunAsPinned, OnlyAdmitted, PlanPinned
<1> QED BY <1>1, InputsPinned, PTL
================================================================================
