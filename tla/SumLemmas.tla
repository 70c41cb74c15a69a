----------------------------- MODULE SumLemmas ------------------------------
(***************************************************************************)
(* Facts about sums over finite sets that the proofs of the components     *)
(* need: SumFunctionOnSet(f, S) of the community modules adds f[x] for all *)
(* x in S.  Inductions are over sets of numbers or of sets, since a lemma  *)
(* that takes a predicate as its parameter cannot be used.                 *)
(***************************************************************************)
EXTENDS FiniteSetTheorems, TLAPS

\* A set of natural numbers has a least element: of the intervals from 0 to its
\* members, which are finite sets, one is minimal.
LEMMA LeastNat ==
    ASSUME NEW S \in SUBSET Nat, S # {}
    PROVE  \E x \in S : \A y \in S : x <= y
<1> DEFINE R == StrictSubsetOrdering(Nat)
           T == {0..n : n \in S}
<1>1. T \subseteq FiniteSubsetsOf(Nat) /\ T # {}
  <2>1. \A n \in S : 0..n \subseteq Nat /\ IsFiniteSet(0..n)
    BY FS_Interval
  <2> QED
    BY <2>1 DEF FiniteSubsetsOf
<1>2. IsWellFoundedOn(R, FiniteSubsetsOf(Nat))
  BY FS_StrictSubsetOrderingWellFounded
<1> HIDE DEF R
<1>3. PICK t \in T : \A u \in T : <<u, t>> \notin R
  BY <1>1, <1>2, WFMin
<1>4. PICK x \in S : t = 0..x
  BY <1>3
<1>5. ASSUME NEW y \in S, y < x PROVE FALSE
  <2>1. 0..y \subseteq 0..x /\ 0..y # 0..x
    <3>1. x \in 0..x /\ x \notin 0..y
      BY <1>5
    <3> QED
      BY <1>5, <3>1
  <2>2. 0..y \in SUBSET Nat /\ 0..x \in SUBSET Nat
    OBVIOUS
  <2>3. <<0..y, 0..x>> \in R
    BY <2>1, <2>2 DEF R, StrictSubsetOrdering
  <2> QED
    BY <1>3, <1>4, <2>3
<1> QED
  BY <1>5

\* Induction over numbers.
LEMMA NumberInduction ==
    ASSUME NEW G \in SUBSET Nat, 0 \in G, \A n \in G : n + 1 \in G
    PROVE  G = Nat
<1> SUFFICES ASSUME Nat \ G # {} PROVE FALSE
  OBVIOUS
<1>1. PICK m \in Nat \ G : \A k \in Nat \ G : m <= k
  BY LeastNat
<1>2. m # 0 /\ m - 1 \in Nat
  BY <1>1
<1>3. m - 1 \in G
  BY <1>1, <1>2
<1>4. (m - 1) + 1 \in G
  BY <1>3
<1> QED
  BY <1>1, <1>4

\* Induction over the subsets of a finite set.
LEMMA SetInduction ==
    ASSUME NEW S, IsFiniteSet(S), NEW G \in SUBSET (SUBSET S), {} \in G,
           \A T \in G : \A x \in S \ T : T \union {x} \in G
    PROVE  S \in G
<1> DEFINE D == {Cardinality(S \ T) : T \in G}
<1>1. \A T \in SUBSET S : IsFiniteSet(S \ T) /\ Cardinality(S \ T) \in Nat
  BY FS_Subset, FS_CardinalityType
<1>2. D \in SUBSET Nat /\ D # {}
  BY <1>1
<1>3. PICK d \in D : \A e \in D : d <= e
  BY <1>2, LeastNat
<1>4. PICK T \in G : d = Cardinality(S \ T)
  BY <1>3
<1>5. ASSUME NEW x \in S \ T PROVE FALSE
  <2> DEFINE U == S \ T
             V == S \ (T \union {x})
  <2>1. V = U \ {x} /\ x \in U /\ IsFiniteSet(U) /\ Cardinality(U) \in Nat
    BY <1>1, <1>5
  <2>2. Cardinality(V) = Cardinality(U) - 1
    <3> HIDE DEF U, V
    <3> QED
      BY <2>1, FS_RemoveElement
  <2>3. Cardinality(V) \in D
    BY <1>5
  <2>4. Cardinality(U) <= Cardinality(V)
    BY <1>3, <1>4, <2>3
  <2> QED
    BY <2>1, <2>2, <2>4
<1> QED
  BY <1>4, <1>5
-----------------------------------------------------------------------------
\* The member that a fold takes first.
First(s) == CHOOSE x \in s : TRUE

\* The equation that the function a sum is read from satisfies at s.
Adds(g, f, s) == g[s] = IF s = {} THEN 0 ELSE f[First(s)] + g[s \ {First(s)}]

\* Such functions exist.
LEMMA AdderExists ==
    ASSUME NEW S, IsFiniteSet(S), NEW f, \A x \in S : f[x] \in Int
    PROVE  \E g \in [SUBSET S -> Int] : \A s \in SUBSET S : Adds(g, f, s)
<1> DEFINE Upto(g, n) == \A s \in SUBSET S : Cardinality(s) <= n => Adds(g, f, s)
           G == {n \in Nat : \E g \in [SUBSET S -> Int] : Upto(g, n)}
<1>1. \A s \in SUBSET S : /\ IsFiniteSet(s) /\ Cardinality(s) \in Nat
                          /\ Cardinality(s) <= Cardinality(S)
                          /\ Cardinality(s) = 0 <=> s = {}
  BY FS_Subset, FS_CardinalityType, FS_EmptySet
<1>2. \A s \in SUBSET S : s # {} => /\ First(s) \in s
                                    /\ Cardinality(s \ {First(s)}) = Cardinality(s) - 1
  BY <1>1, FS_RemoveElement DEF First
<1>3. 0 \in G
  <2> DEFINE g == [s \in SUBSET S |-> 0]
  <2>1. g \in [SUBSET S -> Int] /\ Upto(g, 0)
    BY <1>1 DEF Adds
  <2> QED
    BY <2>1
<1>4. ASSUME NEW n \in G PROVE n + 1 \in G
  <2>1. PICK g \in [SUBSET S -> Int] : Upto(g, n)
    OBVIOUS
  <2> DEFINE h == [s \in SUBSET S |->
                      IF s = {} THEN 0 ELSE f[First(s)] + g[s \ {First(s)}]]
  <2>2. h \in [SUBSET S -> Int]
    <3> SUFFICES ASSUME NEW s \in SUBSET S, s # {}
                 PROVE  f[First(s)] + g[s \ {First(s)}] \in Int
      OBVIOUS
    <3>1. f[First(s)] \in Int /\ g[s \ {First(s)}] \in Int
      BY <1>2
    <3> QED
      BY <3>1
  <2>3. \A s \in SUBSET S : Cardinality(s) <= n => h[s] = g[s]
    BY <2>1 DEF Adds
  <2>4. Upto(h, n + 1)
    <3> SUFFICES ASSUME NEW s \in SUBSET S, Cardinality(s) <= n + 1
                 PROVE  Adds(h, f, s)
      OBVIOUS
    <3>1. CASE s = {}
      BY <3>1 DEF Adds
    <3>2. CASE s # {}
      <4>1. Cardinality(s \ {First(s)}) <= n
        BY <1>1, <1>2, <3>2
      <4>2. h[s \ {First(s)}] = g[s \ {First(s)}]
        BY <2>3, <4>1
      <4> QED
        BY <3>2, <4>2 DEF Adds
    <3> QED
      BY <3>1, <3>2
  <2> HIDE DEF h
  <2> QED
    BY <2>2, <2>4
<1> HIDE DEF G
<1>5. Cardinality(S) \in G
  <2>1. G \in SUBSET Nat
    BY DEF G
  <2>2. G = Nat
    BY <1>3, <1>4, <2>1, NumberInduction
  <2> QED
    BY <1>1, <2>2
<1>6. PICK g \in [SUBSET S -> Int] : Upto(g, Cardinality(S))
  BY <1>5 DEF G
<1> QED
  BY <1>1, <1>6

\* On its domain there is one only.
LEMMA AdderUnique ==
    ASSUME NEW S, IsFiniteSet(S), NEW f, NEW g, NEW h,
           \A s \in SUBSET S : Adds(g, f, s) /\ Adds(h, f, s)
    PROVE  g[S] = h[S]
<1> DEFINE G == {n \in Nat : \A s \in SUBSET S : Cardinality(s) = n => g[s] = h[s]}
<1>1. \A s \in SUBSET S : /\ IsFiniteSet(s) /\ Cardinality(s) \in Nat
                          /\ Cardinality(s) = 0 <=> s = {}
  BY FS_Subset, FS_CardinalityType, FS_EmptySet
<1>2. 0 \in G
  BY <1>1 DEF Adds
<1>3. ASSUME NEW n \in G PROVE n + 1 \in G
  <2> SUFFICES ASSUME NEW s \in SUBSET S, Cardinality(s) = n + 1
               PROVE  g[s] = h[s]
    OBVIOUS
  <2>1. s # {} /\ First(s) \in s
    BY <1>1 DEF First
  <2>2. Cardinality(s \ {First(s)}) = n
    BY <1>1, <2>1, FS_RemoveElement
  <2>3. g[s \ {First(s)}] = h[s \ {First(s)}]
    BY <2>2
  <2> QED
    BY <2>1, <2>3 DEF Adds
<1> HIDE DEF G
<1>4. G = Nat
  <2>1. G \in SUBSET Nat
    BY DEF G
  <2> QED
    BY <1>2, <1>3, <2>1, NumberInduction
<1> QED
  BY <1>1, <1>4 DEF G

\* A sum is what every such function has at the set.
LEMMA SumIsAdder ==
    ASSUME NEW S, IsFiniteSet(S), NEW f, \A x \in S : f[x] \in Int,
           NEW h, \A s \in SUBSET S : Adds(h, f, s)
    PROVE  SumFunctionOnSet(f, S) = h[S]
<1> DEFINE Body(g) == [s \in SUBSET S |->
               IF s = {} THEN 0 ELSE f[First(s)] + g[s \ {First(s)}]]
           Iter == CHOOSE g : g = Body(g)
<1>1. SumFunctionOnSet(f, S) = Iter[S]
  BY DEF SumFunctionOnSet, FoldFunctionOnSet, MapThenFoldSet, First
<1>2. PICK g \in [SUBSET S -> Int] : \A s \in SUBSET S : Adds(g, f, s)
  BY AdderExists
<1>3. g = Body(g)
  BY <1>2 DEF Adds
<1>4. Iter = Body(Iter)
  BY <1>3
<1> HIDE DEF Iter
<1>5. \A s \in SUBSET S : Adds(Iter, f, s)
  BY <1>4 DEF Adds
<1>6. Iter[S] = h[S]
  BY <1>5, AdderUnique
<1> QED
  BY <1>1, <1>6
-----------------------------------------------------------------------------
(* Sums.                                                                   *)

\* The sum over no elements.
LEMMA SumEmpty ==
    ASSUME NEW f
    PROVE  SumFunctionOnSet(f, {}) = 0
<1>1. PICK g \in [SUBSET {} -> Int] : \A s \in SUBSET {} : Adds(g, f, s)
  BY AdderExists, FS_EmptySet
<1>2. SumFunctionOnSet(f, {}) = g[{}]
  BY <1>1, SumIsAdder, FS_EmptySet
<1> QED
  BY <1>1, <1>2 DEF Adds

\* A sum of integers is an integer.
LEMMA SumInt ==
    ASSUME NEW S, IsFiniteSet(S), NEW f, \A x \in S : f[x] \in Int
    PROVE  SumFunctionOnSet(f, S) \in Int
<1>1. PICK g \in [SUBSET S -> Int] : \A s \in SUBSET S : Adds(g, f, s)
  BY AdderExists
<1> QED
  BY <1>1, SumIsAdder

\* The element that is taken first.
LEMMA SumFirst ==
    ASSUME NEW S, IsFiniteSet(S), S # {}, NEW f, \A x \in S : f[x] \in Int
    PROVE  /\ First(S) \in S
           /\ SumFunctionOnSet(f, S)
                 = f[First(S)] + SumFunctionOnSet(f, S \ {First(S)})
<1>1. First(S) \in S
  BY DEF First
<1>2. PICK g \in [SUBSET S -> Int] : \A s \in SUBSET S : Adds(g, f, s)
  BY AdderExists
<1> DEFINE R == S \ {First(S)}
<1>3. IsFiniteSet(R) /\ \A x \in R : f[x] \in Int
  BY FS_RemoveElement
<1>4. \A s \in SUBSET R : Adds(g, f, s)
  BY <1>2
<1>5. SumFunctionOnSet(f, S) = g[S]
  BY <1>2, SumIsAdder
<1>6. SumFunctionOnSet(f, R) = g[R]
  <2> HIDE DEF R
  <2> QED
    BY <1>3, <1>4, SumIsAdder
<1> QED
  BY <1>1, <1>2, <1>5, <1>6 DEF Adds

\* Any element may be taken first.
LEMMA SumRemove ==
    ASSUME NEW S, IsFiniteSet(S), NEW f, \A x \in S : f[x] \in Int, NEW e \in S
    PROVE  SumFunctionOnSet(f, S) = f[e] + SumFunctionOnSet(f, S \ {e})
<1> DEFINE Sum(s) == SumFunctionOnSet(f, s)
           G == {n \in Nat : \A s \in SUBSET S : Cardinality(s) = n =>
                                 \A x \in s : Sum(s) = f[x] + Sum(s \ {x})}
<1> HIDE DEF Sum
<1>1. \A s \in SUBSET S : /\ IsFiniteSet(s) /\ Cardinality(s) \in Nat
                          /\ Cardinality(s) = 0 <=> s = {}
                          /\ Sum(s) \in Int
  BY FS_Subset, FS_CardinalityType, FS_EmptySet, SumInt DEF Sum
<1>2. \A s \in SUBSET S : s # {} =>
          First(s) \in s /\ Sum(s) = f[First(s)] + Sum(s \ {First(s)})
  BY <1>1, SumFirst DEF Sum
<1>3. 0 \in G
  BY <1>1
<1>4. ASSUME NEW n \in G PROVE n + 1 \in G
  <2> SUFFICES ASSUME NEW s \in SUBSET S, Cardinality(s) = n + 1, NEW x \in s
               PROVE  Sum(s) = f[x] + Sum(s \ {x})
    OBVIOUS
  <2> DEFINE c == First(s)
             t == (s \ {c}) \ {x}
  <2>1. c \in s /\ Sum(s) = f[c] + Sum(s \ {c})
    BY <1>2
  <2> HIDE DEF c
  <2>2. CASE x = c
    BY <2>1, <2>2
  <2>3. CASE x # c
    <3>0. IsFiniteSet(s) /\ n \in Nat /\ (n + 1) - 1 = n
      BY <1>1
    <3>1. Cardinality(s \ {c}) = n /\ Cardinality(s \ {x}) = n
      BY <2>1, <3>0, FS_RemoveElement
    <3>2. Sum(s \ {c}) = f[x] + Sum(t)
      BY <2>3, <3>1
    <3>3. Sum(s \ {x}) = f[c] + Sum((s \ {x}) \ {c})
      BY <2>1, <2>3, <3>1
    <3>4. (s \ {x}) \ {c} = t
      OBVIOUS
    <3>5. f[c] \in Int /\ f[x] \in Int /\ Sum(t) \in Int
      BY <1>1, <2>1
    <3>6. Sum(s \ {x}) = f[c] + Sum(t)
      BY <3>3, <3>4
    <3>7. Sum(s) = f[c] + (f[x] + Sum(t))
      BY <2>1, <3>2
    <3> HIDE DEF t
    <3> QED
      BY <3>5, <3>6, <3>7
  <2> QED
    BY <2>2, <2>3
<1> HIDE DEF G
<1>5. G = Nat
  <2>1. G \in SUBSET Nat
    BY DEF G
  <2> QED
    BY <1>3, <1>4, <2>1, NumberInduction
<1> QED
  BY <1>1, <1>5 DEF G, Sum

\* One element more.
LEMMA SumInsert ==
    ASSUME NEW S, IsFiniteSet(S), NEW f, \A x \in S : f[x] \in Int,
           NEW e, e \notin S, f[e] \in Int
    PROVE  SumFunctionOnSet(f, S \union {e}) = f[e] + SumFunctionOnSet(f, S)
<1> DEFINE T == S \union {e}
<1>1. IsFiniteSet(T) /\ (\A x \in T : f[x] \in Int) /\ T \ {e} = S /\ e \in T
  BY FS_AddElement
<1> HIDE DEF T
<1>2. SumFunctionOnSet(f, T) = f[e] + SumFunctionOnSet(f, T \ {e})
  BY <1>1, SumRemove
<1> QED
  BY <1>1, <1>2 DEF T

\* One element.
LEMMA SumOne ==
    ASSUME NEW f, NEW e, f[e] \in Int
    PROVE  SumFunctionOnSet(f, {e}) = f[e]
<1>1. SumFunctionOnSet(f, {} \union {e}) = f[e] + SumFunctionOnSet(f, {})
  BY FS_EmptySet, SumInsert
<1>2. {} \union {e} = {e}
  OBVIOUS
<1> QED
  BY <1>1, <1>2, SumEmpty

\* A sum depends only on the values at its elements.
LEMMA SumSame ==
    ASSUME NEW S, IsFiniteSet(S), NEW f, NEW g,
           \A x \in S : f[x] \in Int /\ g[x] = f[x]
    PROVE  SumFunctionOnSet(g, S) = SumFunctionOnSet(f, S)
<1> DEFINE G == {T \in SUBSET S : SumFunctionOnSet(g, T) = SumFunctionOnSet(f, T)}
<1>1. {} \in G
  BY SumEmpty
<1>2. ASSUME NEW T \in G, NEW x \in S \ T PROVE T \union {x} \in G
  <2>1. IsFiniteSet(T)
    BY FS_Subset
  <2>2. SumFunctionOnSet(f, T \union {x}) = f[x] + SumFunctionOnSet(f, T)
    BY <2>1, SumInsert
  <2>3. SumFunctionOnSet(g, T \union {x}) = g[x] + SumFunctionOnSet(g, T)
    BY <2>1, SumInsert
  <2> QED
    BY <2>2, <2>3
<1>3. G \in SUBSET (SUBSET S)
  OBVIOUS
<1> HIDE DEF G
<1>4. S \in G
  BY <1>1, <1>2, <1>3, SetInduction
<1> QED
  BY <1>4 DEF G

\* A sum of zeros.
LEMMA SumZero ==
    ASSUME NEW S, IsFiniteSet(S), NEW f, \A x \in S : f[x] = 0
    PROVE  SumFunctionOnSet(f, S) = 0
<1> DEFINE G == {T \in SUBSET S : SumFunctionOnSet(f, T) = 0}
<1>1. {} \in G
  BY SumEmpty
<1>2. ASSUME NEW T \in G, NEW x \in S \ T PROVE T \union {x} \in G
  <2>1. IsFiniteSet(T) /\ (\A y \in T : f[y] \in Int) /\ f[x] = 0
    BY FS_Subset
  <2>2. SumFunctionOnSet(f, T \union {x}) = f[x] + SumFunctionOnSet(f, T)
    BY <2>1, SumInsert
  <2> QED
    BY <2>1, <2>2
<1>3. G \in SUBSET (SUBSET S)
  OBVIOUS
<1> HIDE DEF G
<1>4. S \in G
  BY <1>1, <1>2, <1>3, SetInduction
<1> QED
  BY <1>4 DEF G

\* The value at one element changes.
LEMMA SumUpdate ==
    ASSUME NEW S, IsFiniteSet(S), NEW f, NEW g, NEW e \in S,
           \A x \in S : f[x] \in Int, g[e] \in Int,
           \A x \in S \ {e} : g[x] = f[x]
    PROVE  SumFunctionOnSet(g, S) = SumFunctionOnSet(f, S) + g[e] - f[e]
<1> DEFINE T == S \ {e}
<1>1. IsFiniteSet(T) /\ \A x \in T : f[x] \in Int /\ g[x] = f[x]
  BY FS_RemoveElement
<1>2. SumFunctionOnSet(f, T) \in Int
  BY <1>1, SumInt
<1>3. SumFunctionOnSet(g, T) = SumFunctionOnSet(f, T)
  BY <1>1, SumSame
<1>4. SumFunctionOnSet(f, S) = f[e] + SumFunctionOnSet(f, T)
  BY SumRemove
<1>5. \A x \in S : g[x] \in Int
  OBVIOUS
<1>6. SumFunctionOnSet(g, S) = g[e] + SumFunctionOnSet(g, T)
  BY <1>5, SumRemove
<1>7. f[e] \in Int /\ g[e] \in Int
  OBVIOUS
<1> QED
  BY <1>2, <1>3, <1>4, <1>6, <1>7

\* Changing a function at three places.
LEMMA SumThree ==
    ASSUME NEW S, IsFiniteSet(S), NEW f, NEW g,
           NEW a \in S, NEW b \in S \ {a}, NEW c \in S \ {a, b},
           \A x \in S : f[x] \in Int /\ g[x] \in Int,
           \A x \in S \ {a, b, c} : g[x] = f[x]
    PROVE  SumFunctionOnSet(g, S) = SumFunctionOnSet(f, S) + (g[a] - f[a]) + (g[b] - f[b])
                                                          + (g[c] - f[c])
<1> DEFINE h == [x \in S |-> IF x = a THEN g[a] ELSE f[x]]
           k == [x \in S |-> IF x \in {a, b} THEN g[x] ELSE f[x]]
<1>1. h[a] = g[a] /\ h[b] = f[b] /\ k[b] = g[b] /\ k[c] = f[c]
  OBVIOUS
<1>2. IsFiniteSet(S) /\ a \in S /\ b \in S /\ c \in S
  OBVIOUS
<1>3. (\A x \in S : f[x] \in Int) /\ h[a] \in Int /\ \A x \in S \ {a} : h[x] = f[x]
  OBVIOUS
<1>4. (\A x \in S : h[x] \in Int) /\ k[b] \in Int /\ \A x \in S \ {b} : k[x] = h[x]
  OBVIOUS
<1>5. (\A x \in S : k[x] \in Int) /\ g[c] \in Int /\ \A x \in S \ {c} : g[x] = k[x]
  OBVIOUS
<1> HIDE DEF h, k
<1>6. SumFunctionOnSet(h, S) = SumFunctionOnSet(f, S) + h[a] - f[a]
  BY ONLY <1>2, <1>3, SumUpdate
<1>7. SumFunctionOnSet(k, S) = SumFunctionOnSet(h, S) + k[b] - h[b]
  BY ONLY <1>2, <1>4, SumUpdate
<1>8. SumFunctionOnSet(g, S) = SumFunctionOnSet(k, S) + g[c] - k[c]
  BY ONLY <1>2, <1>5, SumUpdate
<1>9. SumFunctionOnSet(f, S) \in Int
  BY SumInt
<1>10. /\ f[a] \in Int /\ f[b] \in Int /\ f[c] \in Int
      /\ g[a] \in Int /\ g[b] \in Int /\ g[c] \in Int
  BY <1>2
<1> QED
  BY <1>1, <1>6, <1>7, <1>8, <1>9, <1>10

\* A sum of natural numbers is one, and no less than each of them.
LEMMA SumNat ==
    ASSUME NEW S, IsFiniteSet(S), NEW f, \A x \in S : f[x] \in Nat
    PROVE  /\ SumFunctionOnSet(f, S) \in Nat
           /\ \A x \in S : f[x] <= SumFunctionOnSet(f, S)
<1> DEFINE G == {T \in SUBSET S : SumFunctionOnSet(f, T) \in Nat}
<1>1. {} \in G
  BY SumEmpty
<1>2. ASSUME NEW T \in G, NEW x \in S \ T PROVE T \union {x} \in G
  <2>1. IsFiniteSet(T) /\ (\A y \in T : f[y] \in Int) /\ f[x] \in Int
    BY FS_Subset
  <2>2. SumFunctionOnSet(f, T \union {x}) = f[x] + SumFunctionOnSet(f, T)
    BY <2>1, SumInsert
  <2> QED
    BY <2>2
<1>3. G \in SUBSET (SUBSET S)
  OBVIOUS
<1>4. \A x \in S : S \ {x} \in G
  <2> SUFFICES ASSUME NEW x \in S PROVE SumFunctionOnSet(f, S \ {x}) \in Nat
    OBVIOUS
  <2> DEFINE R == S \ {x}
             H == {T \in SUBSET R : SumFunctionOnSet(f, T) \in Nat}
  <2>1. {} \in H /\ H \in SUBSET (SUBSET R) /\ IsFiniteSet(R)
    BY SumEmpty, FS_RemoveElement
  <2>2. \A T \in H : \A y \in R \ T : T \union {y} \in H
    BY <1>2
  <2> HIDE DEF H, R
  <2>3. R \in H
    BY <2>1, <2>2, SetInduction
  <2> QED
    BY <2>3 DEF H, R
<1> HIDE DEF G
<1>5. S \in G
  BY <1>1, <1>2, <1>3, SetInduction
<1>6. ASSUME NEW x \in S PROVE f[x] <= SumFunctionOnSet(f, S)
  <2>1. SumFunctionOnSet(f, S) = f[x] + SumFunctionOnSet(f, S \ {x})
    BY SumRemove
  <2>2. SumFunctionOnSet(f, S \ {x}) \in Nat
    BY <1>4 DEF G
  <2> QED
    BY <2>1, <2>2
<1> QED
  BY <1>5, <1>6 DEF G
=============================================================================
