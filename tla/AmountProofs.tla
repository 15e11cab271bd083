---------------------------- MODULE AmountProofs ----------------------------
(***************************************************************************)
(* What the proofs about money need of amounts.                            *)
(*                                                                         *)
(* Sums over finite sets, as the balances of the market's ledgers are: what *)
(* SumFunctionOnSet computes, for any function and any finite set.  The    *)
(* library defines it by a fold, that is by a recursive function; that the *)
(* function exists, and that the order of the summands makes no            *)
(* difference, is shown by taking a smallest subset for which it fails.    *)
(*                                                                         *)
(* The arithmetic of Commission: what rounding does to any amount at any   *)
(* rates.                                                                  *)
(***************************************************************************)
EXTENDS Commission, Functions, FiniteSetTheorems, TLAPS

-----------------------------------------------------------------------------
(* Sums                                                                    *)

Picked(s) == CHOOSE x \in s : TRUE

\* g adds up f over every subset of S, taking out the picked element first.
AddsUp(g, f, S) ==
    g = [s \in SUBSET S |->
            IF s = {} THEN 0 ELSE f[Picked(s)] + g[s \ {Picked(s)}]]

LEMMA SumIsOfIter ==
  ASSUME NEW f, NEW S
  PROVE  SumFunctionOnSet(f, S) = (CHOOSE g : AddsUp(g, f, S))[S]
BY Zenon DEF SumFunctionOnSet, FoldFunctionOnSet, MapThenFoldSet, AddsUp, Picked

\* Induction over the subsets of a finite set.
LEMMA Smallest ==
  ASSUME NEW S, IsFiniteSet(S), NEW T \in SUBSET SUBSET S, T # {}
  PROVE  \E t \in T : \A u \in T : ~(u \subseteq t /\ u # t)
<1>1. T \subseteq FiniteSubsetsOf(S)
  BY FS_Subset DEF FiniteSubsetsOf
<1>2. IsWellFoundedOn(StrictSubsetOrdering(S), FiniteSubsetsOf(S))
  BY FS_StrictSubsetOrderingWellFounded
<1>3. PICK t \in T : \A u \in T : ~(<<u, t>> \in StrictSubsetOrdering(S))
  BY <1>1, <1>2, WFMin
<1> QED
  BY <1>3 DEF StrictSubsetOrdering

LEMMA PickedIsIn ==
  ASSUME NEW s, s # {}
  PROVE  Picked(s) \in s
BY DEF Picked

-----------------------------------------------------------------------------
(* The recursive function exists and is unique.                            *)

LEMMA AddsUpAt ==
  ASSUME NEW S, NEW f, NEW g, AddsUp(g, f, S), NEW s \in SUBSET S
  PROVE  g[s] = IF s = {} THEN 0 ELSE f[Picked(s)] + g[s \ {Picked(s)}]
BY DEF AddsUp

LEMMA AddsUpAgree ==
  ASSUME NEW S, IsFiniteSet(S), NEW f, NEW T, NEW U,
         S \subseteq T, S \subseteq U,
         NEW g, AddsUp(g, f, T), NEW h, AddsUp(h, f, U)
  PROVE  g[S] = h[S]
<1> DEFINE bad == {s \in SUBSET S : g[s] # h[s]}
<1>1. SUFFICES bad = {}
  OBVIOUS
<1>2. SUFFICES ASSUME bad # {} PROVE FALSE
  OBVIOUS
<1>3. PICK s \in bad : \A u \in bad : ~(u \subseteq s /\ u # s)
  <2> HIDE DEF bad
  <2>1. bad \in SUBSET SUBSET S
    BY DEF bad
  <2> QED
    BY <1>2, <2>1, Smallest
<1>4. s \in SUBSET S /\ s \in SUBSET T /\ s \in SUBSET U /\ g[s] # h[s]
  BY <1>3
<1>5. /\ g[s] = IF s = {} THEN 0 ELSE f[Picked(s)] + g[s \ {Picked(s)}]
      /\ h[s] = IF s = {} THEN 0 ELSE f[Picked(s)] + h[s \ {Picked(s)}]
  BY <1>4, AddsUpAt
<1>6. s # {}
  BY <1>4, <1>5
<1>7. Picked(s) \in s
  BY <1>6, PickedIsIn
<1>8. s \ {Picked(s)} \notin bad
  BY <1>3, <1>7
<1> QED
  BY <1>4, <1>5, <1>6, <1>8

LEMMA AddsUpRestricted ==
  ASSUME NEW S, NEW f, NEW T, S \subseteq T, NEW g, AddsUp(g, f, T)
  PROVE  AddsUp([s \in SUBSET S |-> g[s]], f, S)
<1> DEFINE h == [s \in SUBSET S |-> g[s]]
<1>1. ASSUME NEW s \in SUBSET S
      PROVE  h[s] = IF s = {} THEN 0 ELSE f[Picked(s)] + h[s \ {Picked(s)}]
  <2>1. s \in SUBSET T
    OBVIOUS
  <2>2. g[s] = IF s = {} THEN 0 ELSE f[Picked(s)] + g[s \ {Picked(s)}]
    BY <2>1, AddsUpAt
  <2>3. s \ {Picked(s)} \in SUBSET S
    OBVIOUS
  <2> QED
    BY <2>3, <2>2
<1>2. h = [s \in SUBSET S |-> h[s]]
  OBVIOUS
<1> HIDE DEF h
<1>3. AddsUp(h, f, S)
  BY <1>1, <1>2 DEF AddsUp
<1> QED
  BY <1>3 DEF h

LEMMA AddsUpExists ==
  ASSUME NEW S, IsFiniteSet(S), NEW f
  PROVE  \E g : AddsUp(g, f, S)
<1> DEFINE bad == {T \in SUBSET S : ~ \E g : AddsUp(g, f, T)}
<1>1. SUFFICES bad = {}
  OBVIOUS
<1>2. SUFFICES ASSUME bad # {} PROVE FALSE
  OBVIOUS
<1>3. PICK T \in bad : \A u \in bad : ~(u \subseteq T /\ u # T)
  <2> HIDE DEF bad
  <2>1. bad \in SUBSET SUBSET S
    BY DEF bad
  <2> QED
    BY <1>2, <2>1, Smallest
<1>4. T \in SUBSET S /\ ~ \E g : AddsUp(g, f, T)
  BY <1>3
<1> DEFINE G(u) == CHOOSE g : AddsUp(g, f, u)
<1>5. ASSUME NEW u \in SUBSET T, u # T
      PROVE  AddsUp(G(u), f, u)
  <2>1. \E g : AddsUp(g, f, u)
    BY <1>3, <1>4, <1>5
  <2> QED
    BY <2>1
<1> HIDE DEF G
<1> DEFINE h == [s \in SUBSET T |->
                    IF s = {} THEN 0
                    ELSE f[Picked(s)] + G(s \ {Picked(s)})[s \ {Picked(s)}]]
<1>6. ASSUME NEW s \in SUBSET T, s # T
      PROVE  h[s] = G(s)[s]
  <2>1. G(s)[s] = IF s = {} THEN 0 ELSE f[Picked(s)] + G(s)[s \ {Picked(s)}]
    BY <1>5, <1>6, AddsUpAt
  <2>2. CASE s = {}
    BY <2>1, <2>2
  <2>3. CASE s # {}
    <3> DEFINE u == s \ {Picked(s)}
    <3>1. Picked(s) \in s
      BY <2>3, PickedIsIn
    <3>2. u \in SUBSET T /\ u # T /\ u \subseteq s
      BY <3>1
    <3>3. IsFiniteSet(u)
      BY <3>2, <1>4, FS_Subset
    <3>4. G(s)[u] = G(u)[u]
      <4> HIDE DEF u
      <4> QED
        BY <3>2, <3>3, <1>5, <1>6, AddsUpAgree
    <3> QED
      BY <2>1, <2>3, <3>4
  <2> QED
    BY <2>2, <2>3
<1>7. ASSUME NEW s \in SUBSET T
      PROVE  h[s] = IF s = {} THEN 0 ELSE f[Picked(s)] + h[s \ {Picked(s)}]
  <2>1. CASE s = {}
    BY <2>1
  <2>2. CASE s # {}
    <3>1. Picked(s) \in s
      BY <2>2, PickedIsIn
    <3> DEFINE u == s \ {Picked(s)}
    <3>2. u \in SUBSET T /\ u # T
      BY <3>1
    <3>3. h[u] = G(u)[u]
      <4> HIDE DEF u, h
      <4> QED
        BY <3>2, <1>6
    <3>4. h[s] = f[Picked(s)] + G(u)[u]
      BY <2>2
    <3> HIDE DEF h
    <3> QED
      BY <2>2, <3>3, <3>4
  <2> QED
    BY <2>1, <2>2
<1>8. h = [s \in SUBSET T |-> h[s]]
  OBVIOUS
<1> HIDE DEF h
<1>9. AddsUp(h, f, T)
  BY <1>7, <1>8 DEF AddsUp
<1> QED
  BY <1>4, <1>9

-----------------------------------------------------------------------------
(* What a sum is.                                                          *)

LEMMA SumPicks ==
  ASSUME NEW S, IsFiniteSet(S), NEW f
  PROVE  SumFunctionOnSet(f, S) =
            IF S = {} THEN 0
            ELSE f[Picked(S)] + SumFunctionOnSet(f, S \ {Picked(S)})
<1> DEFINE g == CHOOSE h : AddsUp(h, f, S)
           U == S \ {Picked(S)}
           k == CHOOSE h : AddsUp(h, f, U)
<1>1. AddsUp(g, f, S)
  BY AddsUpExists
<1>2. IsFiniteSet(U)
  BY FS_Subset
<1>3. AddsUp(k, f, U)
  BY <1>2, AddsUpExists
<1>4. SumFunctionOnSet(f, S) = g[S] /\ SumFunctionOnSet(f, U) = k[U]
  BY SumIsOfIter
<1>5. U \subseteq S
  OBVIOUS
<1> HIDE DEF g, k
<1>6. g[U] = k[U]
  BY <1>1, <1>2, <1>3, <1>5, AddsUpAgree
<1>7. g[S] = IF S = {} THEN 0 ELSE f[Picked(S)] + g[U]
  BY <1>1, AddsUpAt
<1> QED
  BY <1>4, <1>6, <1>7

LEMMA SumEmpty ==
  ASSUME NEW f
  PROVE  SumFunctionOnSet(f, {}) = 0
BY SumPicks, FS_EmptySet

LEMMA SumType ==
  ASSUME NEW S, IsFiniteSet(S), NEW f, \A x \in S : f[x] \in Int
  PROVE  SumFunctionOnSet(f, S) \in Int
<1> DEFINE bad == {T \in SUBSET S : SumFunctionOnSet(f, T) \notin Int}
<1>1. SUFFICES ASSUME bad # {} PROVE FALSE
  OBVIOUS
<1>2. PICK T \in bad : \A u \in bad : ~(u \subseteq T /\ u # T)
  <2> HIDE DEF bad
  <2>1. bad \in SUBSET SUBSET S
    BY DEF bad
  <2> QED
    BY <1>1, <2>1, Smallest
<1>3. T \in SUBSET S /\ SumFunctionOnSet(f, T) \notin Int /\ IsFiniteSet(T)
  BY <1>2, FS_Subset
<1>4. SumFunctionOnSet(f, T) =
            IF T = {} THEN 0
            ELSE f[Picked(T)] + SumFunctionOnSet(f, T \ {Picked(T)})
  BY <1>3, SumPicks
<1>5. T # {}
  BY <1>3, <1>4
<1>6. Picked(T) \in T
  BY <1>5, PickedIsIn
<1>7. T \ {Picked(T)} \notin bad
  BY <1>2, <1>6
<1>8. SumFunctionOnSet(f, T \ {Picked(T)}) \in Int
  BY <1>3, <1>7
<1> QED
  BY <1>3, <1>4, <1>5, <1>6, <1>8

\* Any element may be taken out first.
LEMMA SumRemove ==
  ASSUME NEW S, IsFiniteSet(S), NEW f, \A x \in S : f[x] \in Int, NEW y \in S
  PROVE  SumFunctionOnSet(f, S) = f[y] + SumFunctionOnSet(f, S \ {y})
<1> DEFINE Sum(T) == SumFunctionOnSet(f, T)
           bad == {T \in SUBSET S : \E x \in T : Sum(T) # f[x] + Sum(T \ {x})}
<1>1. SUFFICES ASSUME bad # {} PROVE FALSE
  OBVIOUS
<1>2. PICK T \in bad : \A u \in bad : ~(u \subseteq T /\ u # T)
  <2> HIDE DEF bad
  <2>1. bad \in SUBSET SUBSET S
    BY DEF bad
  <2> QED
    BY <1>1, <2>1, Smallest
<1>3. PICK x \in T : Sum(T) # f[x] + Sum(T \ {x})
  BY <1>2
<1> DEFINE p == Picked(T)
<1>4. T \in SUBSET S /\ IsFiniteSet(T) /\ p \in T
  BY <1>2, <1>3, FS_Subset, PickedIsIn
<1>5. Sum(T) = f[p] + Sum(T \ {p})
  BY <1>3, <1>4, SumPicks
<1>6. x # p
  BY <1>3, <1>5
<1>7. /\ T \ {p} \notin bad /\ T \ {x} \notin bad
      /\ T \ {p} \in SUBSET S /\ T \ {x} \in SUBSET S
      /\ x \in T \ {p} /\ p \in T \ {x}
  BY <1>2, <1>3, <1>4, <1>6
<1> DEFINE U == T \ {p, x}
<1>8. (T \ {p}) \ {x} = U /\ (T \ {x}) \ {p} = U
  OBVIOUS
<1>9. Sum(T \ {p}) = f[x] + Sum(U) /\ Sum(T \ {x}) = f[p] + Sum(U)
  <2>1. /\ Sum(T \ {p}) = f[x] + Sum((T \ {p}) \ {x})
        /\ Sum(T \ {x}) = f[p] + Sum((T \ {x}) \ {p})
    BY <1>7
  <2> QED
    BY <2>1, <1>8
<1>10. Sum(U) \in Int
  <2>1. U \in SUBSET S
    BY <1>4
  <2> HIDE DEF U
  <2>2. IsFiniteSet(U)
    BY <2>1, FS_Subset
  <2> QED
    BY <2>1, <2>2, SumType
<1>11. f[x] \in Int /\ f[p] \in Int
  BY <1>3, <1>4
<1>12. f[p] + (f[x] + Sum(U)) = f[x] + (f[p] + Sum(U))
  <2> HIDE DEF Sum, p, U
  <2> QED
    BY <1>10, <1>11
<1> QED
  <2> HIDE DEF Sum, U, p
  <2> QED
    BY <1>3, <1>5, <1>9, <1>12

\* A sum looks only at the values it adds up.
LEMMA SumSame ==
  ASSUME NEW S, IsFiniteSet(S), NEW f, NEW g, \A x \in S : f[x] = g[x]
  PROVE  SumFunctionOnSet(f, S) = SumFunctionOnSet(g, S)
<1> DEFINE bad == {T \in SUBSET S : SumFunctionOnSet(f, T) # SumFunctionOnSet(g, T)}
<1>1. SUFFICES ASSUME bad # {} PROVE FALSE
  OBVIOUS
<1>2. PICK T \in bad : \A u \in bad : ~(u \subseteq T /\ u # T)
  <2> HIDE DEF bad
  <2>1. bad \in SUBSET SUBSET S
    BY DEF bad
  <2> QED
    BY <1>1, <2>1, Smallest
<1>3. /\ T \in SUBSET S /\ IsFiniteSet(T)
      /\ SumFunctionOnSet(f, T) # SumFunctionOnSet(g, T)
  BY <1>2, FS_Subset
<1>4. /\ SumFunctionOnSet(f, T) =
            IF T = {} THEN 0
            ELSE f[Picked(T)] + SumFunctionOnSet(f, T \ {Picked(T)})
      /\ SumFunctionOnSet(g, T) =
            IF T = {} THEN 0
            ELSE g[Picked(T)] + SumFunctionOnSet(g, T \ {Picked(T)})
  BY <1>3, SumPicks
<1>5. T # {}
  BY <1>3, <1>4
<1>6. Picked(T) \in T
  BY <1>5, PickedIsIn
<1>7. T \ {Picked(T)} \notin bad /\ f[Picked(T)] = g[Picked(T)]
  BY <1>2, <1>3, <1>6
<1> QED
  BY <1>3, <1>4, <1>5, <1>7

\* What changes at one element changes the sum by as much.
LEMMA SumUpdate ==
  ASSUME NEW S, IsFiniteSet(S), NEW f, NEW g, NEW y \in S,
         \A x \in S : f[x] \in Int, g[y] \in Int,
         \A x \in S \ {y} : f[x] = g[x]
  PROVE  SumFunctionOnSet(g, S) = SumFunctionOnSet(f, S) + g[y] - f[y]
<1> DEFINE U == S \ {y}
<1>1. IsFiniteSet(U) /\ U \subseteq S
  BY FS_Subset
<1>2. \A x \in S : g[x] \in Int
  OBVIOUS
<1>3. SumFunctionOnSet(f, S) = f[y] + SumFunctionOnSet(f, U)
  BY SumRemove
<1>4. SumFunctionOnSet(g, S) = g[y] + SumFunctionOnSet(g, U)
  BY <1>2, SumRemove
<1>5. SumFunctionOnSet(f, U) = SumFunctionOnSet(g, U)
  BY <1>1, SumSame
<1>6. SumFunctionOnSet(f, U) \in Int
  BY <1>1, SumType
<1>7. f[y] \in Int
  OBVIOUS
<1> QED
  BY <1>3, <1>4, <1>5, <1>6, <1>7

\* A sum of equal values.
LEMMA SumConstant ==
  ASSUME NEW S, IsFiniteSet(S), NEW f, NEW k \in Nat, \A x \in S : f[x] = k
  PROVE  SumFunctionOnSet(f, S) = k * Cardinality(S)
<1> DEFINE bad == {T \in SUBSET S : SumFunctionOnSet(f, T) # k * Cardinality(T)}
<1>1. SUFFICES ASSUME bad # {} PROVE FALSE
  OBVIOUS
<1>2. PICK T \in bad : \A u \in bad : ~(u \subseteq T /\ u # T)
  <2> HIDE DEF bad
  <2>1. bad \in SUBSET SUBSET S
    BY DEF bad
  <2> QED
    BY <1>1, <2>1, Smallest
<1>3. /\ T \in SUBSET S /\ IsFiniteSet(T)
      /\ SumFunctionOnSet(f, T) # k * Cardinality(T)
  BY <1>2, FS_Subset
<1>4. T # {}
  BY <1>3, SumEmpty, FS_EmptySet
<1> DEFINE n == Cardinality(T)
           U == T \ {Picked(T)}
<1>5. Picked(T) \in T
  BY <1>4, PickedIsIn
<1>6. U \notin bad /\ U \in SUBSET S
  BY <1>2, <1>3, <1>5
<1>7. SumFunctionOnSet(f, U) = k * Cardinality(U)
  BY <1>6
<1>8. SumFunctionOnSet(f, T) = f[Picked(T)] + SumFunctionOnSet(f, U)
  BY <1>3, <1>4, SumPicks
<1>9. Cardinality(U) = n - 1 /\ n \in Nat
  BY <1>3, <1>5, FS_RemoveElement, FS_CardinalityType
<1>10. f[Picked(T)] = k
  BY <1>3, <1>5
<1>11. SumFunctionOnSet(f, T) = k + k * (n - 1)
  BY <1>7, <1>8, <1>9, <1>10
<1> HIDE DEF n
<1>12. k + k * (n - 1) = k * n
  BY <1>9
<1> QED
  BY <1>3, <1>11, <1>12 DEF n

\* A sum of natural numbers is one, and no summand exceeds it.
LEMMA SumNat ==
  ASSUME NEW S, IsFiniteSet(S), NEW f, \A x \in S : f[x] \in Nat
  PROVE  /\ SumFunctionOnSet(f, S) \in Nat
         /\ \A y \in S : f[y] <= SumFunctionOnSet(f, S)
<1>1. ASSUME NEW V, IsFiniteSet(V), \A x \in V : f[x] \in Nat
      PROVE  SumFunctionOnSet(f, V) \in Nat
  <2> DEFINE bad == {T \in SUBSET V : SumFunctionOnSet(f, T) \notin Nat}
  <2>1. SUFFICES ASSUME bad # {} PROVE FALSE
    OBVIOUS
  <2>2. PICK T \in bad : \A u \in bad : ~(u \subseteq T /\ u # T)
    <3> HIDE DEF bad
    <3>1. bad \in SUBSET SUBSET V
      BY DEF bad
    <3> QED
      BY <1>1, <2>1, <3>1, Smallest
  <2>3. T \in SUBSET V /\ SumFunctionOnSet(f, T) \notin Nat /\ IsFiniteSet(T)
    BY <1>1, <2>2, FS_Subset
  <2>4. SumFunctionOnSet(f, T) =
              IF T = {} THEN 0
              ELSE f[Picked(T)] + SumFunctionOnSet(f, T \ {Picked(T)})
    BY <2>3, SumPicks
  <2>5. T # {}
    BY <2>3, <2>4
  <2>6. Picked(T) \in T
    BY <2>5, PickedIsIn
  <2>7. T \ {Picked(T)} \notin bad
    BY <2>2, <2>6
  <2>8. SumFunctionOnSet(f, T \ {Picked(T)}) \in Nat
    BY <2>3, <2>7
  <2> QED
    BY <1>1, <2>3, <2>4, <2>5, <2>6, <2>8
<1>2. ASSUME NEW y \in S
      PROVE  f[y] <= SumFunctionOnSet(f, S)
  <2>1. IsFiniteSet(S \ {y}) /\ \A x \in S \ {y} : f[x] \in Nat
    BY FS_Subset
  <2>2. SumFunctionOnSet(f, S \ {y}) \in Nat
    BY <2>1, <1>1
  <2>3. SumFunctionOnSet(f, S) = f[y] + SumFunctionOnSet(f, S \ {y})
    BY SumRemove
  <2>4. f[y] \in Nat
    OBVIOUS
  <2> QED
    BY <2>2, <2>3, <2>4
<1> QED
  BY <1>1, <1>2

\* A sum of smaller values is smaller.
LEMMA SumBelow ==
  ASSUME NEW S, IsFiniteSet(S), NEW f, NEW g,
         \A x \in S : f[x] \in Int /\ g[x] \in Int /\ f[x] <= g[x]
  PROVE  SumFunctionOnSet(f, S) <= SumFunctionOnSet(g, S)
<1> DEFINE bad == {T \in SUBSET S : ~(SumFunctionOnSet(f, T) <= SumFunctionOnSet(g, T))}
<1>1. SUFFICES ASSUME bad # {} PROVE FALSE
  OBVIOUS
<1>2. PICK T \in bad : \A u \in bad : ~(u \subseteq T /\ u # T)
  <2> HIDE DEF bad
  <2>1. bad \in SUBSET SUBSET S
    BY DEF bad
  <2> QED
    BY <1>1, <2>1, Smallest
<1>3. /\ T \in SUBSET S /\ IsFiniteSet(T)
      /\ ~(SumFunctionOnSet(f, T) <= SumFunctionOnSet(g, T))
  BY <1>2, FS_Subset
<1>4. T # {}
  BY <1>3, SumEmpty
<1> DEFINE U == T \ {Picked(T)}
<1>5. Picked(T) \in T
  BY <1>4, PickedIsIn
<1>6. U \notin bad /\ U \in SUBSET S /\ IsFiniteSet(U)
  BY <1>2, <1>3, <1>5, FS_Subset
<1>7. SumFunctionOnSet(f, U) <= SumFunctionOnSet(g, U)
  BY <1>6
<1>8. /\ SumFunctionOnSet(f, T) = f[Picked(T)] + SumFunctionOnSet(f, U)
      /\ SumFunctionOnSet(g, T) = g[Picked(T)] + SumFunctionOnSet(g, U)
  BY <1>3, <1>4, SumPicks
<1>9. SumFunctionOnSet(f, U) \in Int /\ SumFunctionOnSet(g, U) \in Int
  BY <1>6, SumType
<1>10. /\ f[Picked(T)] \in Int /\ g[Picked(T)] \in Int
       /\ f[Picked(T)] <= g[Picked(T)]
  BY <1>3, <1>5
<1> QED
  BY <1>3, <1>7, <1>8, <1>9, <1>10

\* Moving an amount from one element to another leaves the sum as it is.
LEMMA SumMoved ==
  ASSUME NEW S, IsFiniteSet(S), NEW f, NEW g, NEW x \in S, NEW y \in S, x # y,
         \A z \in S : f[z] \in Int, g[x] \in Int, g[y] \in Int,
         g[x] + g[y] = f[x] + f[y], \A z \in S \ {x, y} : g[z] = f[z]
  PROVE  SumFunctionOnSet(g, S) = SumFunctionOnSet(f, S)
<1> DEFINE U == S \ {x}
           V == U \ {y}
<1>1. /\ IsFiniteSet(U) /\ IsFiniteSet(V) /\ y \in U
      /\ \A z \in U : f[z] \in Int
      /\ \A z \in V : f[z] \in Int /\ f[z] = g[z]
  BY FS_Subset
<1>2. f[x] \in Int /\ f[y] \in Int
  OBVIOUS
<1>3. (\A z \in S : g[z] \in Int) /\ (\A z \in U : g[z] \in Int)
  BY <1>2
<1> HIDE DEF U, V
<1>4. /\ SumFunctionOnSet(f, S) = f[x] + SumFunctionOnSet(f, U)
      /\ SumFunctionOnSet(g, S) = g[x] + SumFunctionOnSet(g, U)
  BY <1>3, SumRemove DEF U
<1>5. /\ SumFunctionOnSet(f, U) = f[y] + SumFunctionOnSet(f, V)
      /\ SumFunctionOnSet(g, U) = g[y] + SumFunctionOnSet(g, V)
  BY <1>1, <1>3, SumRemove DEF V
<1>6. SumFunctionOnSet(f, V) = SumFunctionOnSet(g, V)
  BY <1>1, SumSame
<1>7. SumFunctionOnSet(f, V) \in Int
  BY <1>1, SumType
<1> QED
  BY <1>2, <1>4, <1>5, <1>6, <1>7

-----------------------------------------------------------------------------
(* Commissions                                                             *)

LEMMA ProductInNat == ASSUME NEW a \in Nat, NEW b \in Nat PROVE a * b \in Nat
  BY SMT

LEMMA ProductMonotone ==
  ASSUME NEW a \in Nat, NEW b \in Nat, NEW c \in Nat, b <= c
  PROVE  a * b <= a * c
<1>1. c - b \in Nat BY SMT
<1>2. a * (c - b) \in Nat BY <1>1, ProductInNat
<1>3. a * (c - b) = a * c - a * b BY <1>1, SMT
<1> QED BY <1>2, <1>3, ProductInNat, SMT

\* Rounding to the nearest moves a quotient to a neighbour that is not above any
\* whole number the exact quotient is at most.
LEMMA RoundBelow ==
  ASSUME NEW num \in Nat, NEW den \in Nat \ {0}, NEW bound \in Nat,
         num <= bound * den
  PROVE  /\ RoundHalfEven(num, den) \in Nat
         /\ RoundHalfEven(num, den) <= bound
<1> DEFINE q == num \div den
           r == num % den
<1>1. q \in Nat /\ r \in 0..(den - 1) /\ num = den * q + r
  BY SMT
<1>2. q <= bound
  OBVIOUS
<1>3. q = bound => r = 0
  OBVIOUS
<1> QED BY <1>1, <1>2, <1>3, SMT DEF RoundHalfEven

\* A rate below 100 % and amounts of any precision: the exact commission is at
\* most the amount, and at most half of it when the rate is at most 50 %.
LEMMA CommissionBelowAmount ==
  ASSUME NEW value \in Nat, NEW bps \in Nat, bps <= FullBps,
         Grain = 1 \/ 2 * bps <= FullBps
  PROVE  /\ CommissionAmount(value, bps) \in Nat
         /\ CommissionAmount(value, bps) <= value
<1> USE GrainAssumption
<1>1. CASE bps <= 0 \/ bps >= FullBps
  BY <1>1, SMT DEF CommissionAmount, FullBps
<1>2. CASE bps > 0 /\ bps < FullBps /\ Grain = 1
  <2>1. value * bps \in Nat /\ value * bps <= value * FullBps
    BY ProductInNat, ProductMonotone, FullBps \in Nat DEF FullBps
  <2>2. /\ RoundHalfEven(value * bps, FullBps) \in Nat
        /\ RoundHalfEven(value * bps, FullBps) <= value
    BY <2>1, RoundBelow, FullBps \in Nat \ {0} DEF FullBps
  <2> QED BY <1>2, <2>2, SMT DEF CommissionAmount, FullBps
<1>3. CASE bps > 0 /\ bps < FullBps /\ 2 * bps <= FullBps
  <2> DEFINE num   == value * bps
             den   == FullBps * Grain
             q     == num \div den
             r     == num % den
             whole == RoundHalfEven(num, den)
  <2>1. num \in Nat /\ den \in Nat \ {0}
    BY ProductInNat, SMT DEF FullBps
  <2>2. 2 * num <= value * FullBps
    <3>1. value * (2 * bps) <= value * FullBps
      BY <1>3, ProductMonotone, 2 * bps \in Nat, FullBps \in Nat DEF FullBps
    <3>2. value * (2 * bps) = 2 * num
      BY SMT
    <3> QED BY <3>1, <3>2
  <2>3. q \in Nat /\ r \in 0..(den - 1) /\ num = den * q + r
    <3> HIDE DEF num, den
    <3> QED BY <2>1, SMT
  <2>4. whole \in Nat /\ den * whole <= 2 * num
    <3> HIDE DEF num, den
    <3>1. CASE whole = q
      BY <2>1, <2>3, <3>1, ProductInNat, SMT
    <3>2. CASE whole = q + 1
      <4>1. 2 * r >= den
        BY <3>2, <2>1, <2>3, SMT DEF RoundHalfEven
      <4>2. den * (q + 1) = den * q + den
        BY <2>1, <2>3, SMT
      <4>3. den * q \in Nat
        BY <2>1, <2>3, ProductInNat
      <4> HIDE DEF q, r
      <4> QED BY <3>2, <2>1, <2>3, <4>1, <4>2, <4>3, SMT
    <3> QED BY <3>1, <3>2, <2>1, <2>3, SMT DEF RoundHalfEven
  <2>5. FullBps * (Grain * whole) <= FullBps * value
    <3>1. den * whole = FullBps * (Grain * whole)
      BY <2>4, SMT DEF FullBps
    <3>2. value * FullBps = FullBps * value
      BY SMT DEF FullBps
    <3> HIDE DEF num, den, whole
    <3> QED BY <2>1, <2>2, <2>4, <3>1, <3>2, SMT DEF FullBps
  <2>6. Grain * whole \in Nat
    BY <2>4, ProductInNat
  <2>7. CommissionAmount(value, bps) = Grain * whole
    BY <1>3, SMT DEF CommissionAmount, FullBps
  <2> QED
    <3> HIDE DEF num, den, whole
    <3> QED BY <2>5, <2>6, <2>7, SMT DEF FullBps
<1> QED BY <1>1, <1>2, <1>3, SMT DEF FullBps

LEMMA CommissionInNat ==
  ASSUME NEW value \in Nat, NEW bps \in Nat
  PROVE  CommissionAmount(value, bps) \in Nat
<1> USE GrainAssumption
<1> DEFINE num == value * bps
           den == FullBps * Grain
<1>1. num \in Nat /\ den \in Nat \ {0}
  BY ProductInNat, SMT DEF FullBps
<1>2. RoundHalfEven(num, den) \in Nat
  <2> HIDE DEF num, den
  <2> QED BY <1>1, SMT DEF RoundHalfEven
<1>3. Grain * RoundHalfEven(num, den) \in Nat
  BY <1>2, ProductInNat
<1> QED BY <1>3, SMT DEF CommissionAmount, FullBps

\* Rounding to the nearest moves a quotient by at most a half.
LEMMA RoundNear ==
  ASSUME NEW num \in Nat, NEW den \in Nat \ {0}
  PROVE  /\ RoundHalfEven(num, den) \in Nat
         /\ 2 * num <= 2 * (den * RoundHalfEven(num, den)) + den
         /\ 2 * (den * RoundHalfEven(num, den)) <= 2 * num + den
<1> DEFINE q == num \div den
           r == num % den
           whole == RoundHalfEven(num, den)
<1>1. q \in Nat /\ r \in 0..(den - 1) /\ num = den * q + r
  BY SMT
<1>2. den * q \in Nat
  BY <1>1, ProductInNat
<1>3. CASE 2 * r > den \/ (2 * r = den /\ q % 2 = 1)
  <2>1. whole = q + 1
    BY <1>3 DEF RoundHalfEven
  <2>2. den * whole = den * q + den
    BY <1>1, <2>1, SMT
  <2> HIDE DEF q, r, whole
  <2> QED BY <1>1, <1>2, <1>3, <2>1, <2>2, SMT DEF whole
<1>4. CASE ~(2 * r > den \/ (2 * r = den /\ q % 2 = 1))
  <2>1. whole = q
    BY <1>4 DEF RoundHalfEven
  <2>2. 2 * r <= den
    <3> HIDE DEF q, r, whole
    <3> QED BY <1>1, <1>4, SMT
  <2> HIDE DEF q, r, whole
  <2> QED BY <1>1, <1>2, <2>1, <2>2, SMT DEF whole
<1> QED BY <1>3, <1>4

\* A commission is its exact value to the nearest grain.
LEMMA CommissionNear ==
  ASSUME NEW value \in Nat, NEW bps \in Nat, bps > 0, bps < FullBps
  PROVE  LET commission == CommissionAmount(value, bps)
         IN  /\ commission \in Nat
             /\ 2 * (value * bps) <= 2 * (FullBps * commission) + FullBps * Grain
             /\ 2 * (FullBps * commission) <= 2 * (value * bps) + FullBps * Grain
<1> USE GrainAssumption
<1> DEFINE num   == value * bps
           den   == FullBps * Grain
           whole == RoundHalfEven(num, den)
           commission == CommissionAmount(value, bps)
<1>1. num \in Nat /\ den \in Nat \ {0}
  BY ProductInNat, SMT DEF FullBps
<1>2. commission = Grain * whole
  BY SMT DEF CommissionAmount, FullBps
<1>3. /\ whole \in Nat
      /\ 2 * num <= 2 * (den * whole) + den
      /\ 2 * (den * whole) <= 2 * num + den
  <2> HIDE DEF num, den
  <2> QED BY <1>1, RoundNear
<1>4. den * whole = FullBps * commission
  <2> HIDE DEF whole, commission
  <2> QED BY <1>2, <1>3, SMT DEF FullBps
<1>5. commission \in Nat
  BY CommissionInNat
<1> HIDE DEF num, den, whole, commission
<1>6. /\ 2 * num <= 2 * (FullBps * commission) + den
      /\ 2 * (FullBps * commission) <= 2 * num + den
  BY <1>3, <1>4
<1> QED BY <1>5, <1>6 DEF num, den, commission

\* Commissions on two parts of an amount exceed the one on the whole by less than
\* two grains.
LEMMA CommissionOfParts ==
  ASSUME NEW a \in Nat, NEW b \in Nat, NEW rest \in Nat, NEW bps \in Nat, bps <= FullBps
  PROVE  CommissionAmount(a, bps) + CommissionAmount(b, bps)
           <= CommissionAmount(a + b + rest, bps) + 2 * Grain
<1> USE GrainAssumption
<1> DEFINE x == CommissionAmount(a, bps)
           y == CommissionAmount(b, bps)
           z == CommissionAmount(a + b + rest, bps)
<1>0. a + b + rest \in Nat
  OBVIOUS
<1>1. CASE bps <= 0 \/ bps >= FullBps
  BY <1>1, SMT DEF CommissionAmount, FullBps
<1>2. CASE bps > 0 /\ bps < FullBps
  <2>1. /\ x \in Nat /\ y \in Nat /\ z \in Nat
        /\ 2 * (FullBps * x) <= 2 * (a * bps) + FullBps * Grain
        /\ 2 * (FullBps * y) <= 2 * (b * bps) + FullBps * Grain
        /\ 2 * ((a + b + rest) * bps) <= 2 * (FullBps * z) + FullBps * Grain
    BY <1>0, <1>2, CommissionNear
  <2>2. (a + b + rest) * bps = a * bps + b * bps + rest * bps
    BY SMT
  <2>3. a * bps \in Nat /\ b * bps \in Nat /\ rest * bps \in Nat
    BY ProductInNat
  <2>4. \A i \in Nat : FullBps * i = 10000 * i
    BY DEF FullBps
  <2> DEFINE i == a * bps
             j == b * bps
             k == rest * bps
  <2> HIDE DEF x, y, z, i, j, k
  <2>5. /\ 20000 * x <= 2 * i + 10000 * Grain
        /\ 20000 * y <= 2 * j + 10000 * Grain
        /\ 2 * (i + j + k) <= 20000 * z + 10000 * Grain
    BY <2>1, <2>2, <2>4, SMT DEF i, j, k
  <2>6. i \in Nat /\ j \in Nat /\ k \in Nat
    BY <2>3 DEF i, j, k
  <2>7. x + y <= z + 2 * Grain
    BY <2>1, <2>5, <2>6, SMT
  <2> QED BY <2>7 DEF x, y, z
<1> QED BY <1>1, <1>2, SMT DEF FullBps

\* What a collection writes are amounts, whatever the rates.
LEMMA CollectType ==
  ASSUME NEW value \in Nat, NEW marketBps \in Nat, NEW routerBps \in Nat,
         marketBps + routerBps <= FullBps
  PROVE  /\ Collect(value, marketBps, routerBps) \in [provider: Nat, market: Nat, router: Nat]
         /\ Outflow(Collect(value, marketBps, routerBps)) \in Nat
<1> DEFINE totalBps == MinOf(MaxOf(marketBps + routerBps, 0), FullBps)
           total    == CommissionAmount(value, totalBps)
           market   == CommissionAmount(value, marketBps)
           split    == CommissionSplit(value, marketBps, routerBps)
<1>1. totalBps \in Nat
  BY SMT DEF MinOf, MaxOf, FullBps
<1>2. total \in Nat /\ market \in Nat
  BY <1>1, CommissionInNat
<1>3. split = [market |-> MinOf(market, total), router |-> total - MinOf(market, total)]
  BY DEF CommissionSplit
<1> HIDE DEF total, market, split
<1>4. split.market \in Nat /\ split.router \in Nat
  BY <1>2, <1>3, SMT DEF MinOf
<1>5. Collect(value, marketBps, routerBps)
        = [provider |-> MaxOf(value - split.market - split.router, 0),
           market |-> split.market, router |-> split.router]
  BY DEF Collect, split
<1> QED BY <1>4, <1>5, SMT DEF MaxOf, Outflow

\* The rates under which a collection is exact.
ExactRates(marketBps, routerBps) ==
  /\ marketBps \in Nat /\ routerBps \in Nat
  /\ marketBps + routerBps <= FullBps
  /\ Grain = 1 \/ 2 * (marketBps + routerBps) <= FullBps

(***************************************************************************)
(* transfer_collected_usage_amount takes exactly the amount it is given:   *)
(* provider income and commissions add up to it and none is negative.      *)
(***************************************************************************)
THEOREM CollectIsExact ==
  ASSUME NEW value \in Nat, NEW marketBps, NEW routerBps,
         ExactRates(marketBps, routerBps)
  PROVE  LET parts == Collect(value, marketBps, routerBps)
         IN  /\ parts \in [provider: Nat, market: Nat, router: Nat]
             /\ Outflow(parts) = value
<1> DEFINE totalBps == MinOf(MaxOf(marketBps + routerBps, 0), FullBps)
           total    == CommissionAmount(value, totalBps)
           market   == CommissionAmount(value, marketBps)
           split    == CommissionSplit(value, marketBps, routerBps)
<1>1. /\ marketBps \in Nat /\ routerBps \in Nat /\ marketBps <= FullBps
      /\ totalBps = marketBps + routerBps /\ totalBps \in Nat /\ totalBps <= FullBps
      /\ Grain = 1 \/ 2 * totalBps <= FullBps
      /\ Grain = 1 \/ 2 * marketBps <= FullBps
  BY SMT DEF ExactRates, MinOf, MaxOf, FullBps
<1>2. total \in Nat /\ total <= value
  BY <1>1, CommissionBelowAmount
<1>3. market \in Nat
  BY <1>1, CommissionBelowAmount
<1>4. split = [market |-> MinOf(market, total), router |-> total - MinOf(market, total)]
  BY DEF CommissionSplit
<1> HIDE DEF total, market, split
<1>5. split.market \in Nat /\ split.router \in Nat /\ split.market + split.router = total
  BY <1>2, <1>3, <1>4, SMT DEF MinOf
<1>6. Collect(value, marketBps, routerBps)
        = [provider |-> MaxOf(value - split.market - split.router, 0),
           market |-> split.market, router |-> split.router]
  BY DEF Collect, split
<1> QED BY <1>2, <1>5, <1>6, SMT DEF MaxOf, Outflow

\* A commission is the multiple of the 8-decimal unit nearest to its exact value.
LEMMA CommissionIsNearest ==
  ASSUME NEW value \in Nat, NEW bps \in Nat, bps <= FullBps
  PROVE  Nearest(CommissionAmount(value, bps), value, bps)
<1> USE GrainAssumption
<1> DEFINE part == CommissionAmount(value, bps)
<1>1. part \in Nat
  BY CommissionInNat
<1>2. CASE bps = 0 \/ bps = FullBps
  <2>1. (bps = 0 /\ part = 0) \/ (bps = FullBps /\ part = value)
    BY <1>2, SMT DEF CommissionAmount, FullBps
  <2> HIDE DEF part
  <2>2. part * FullBps = value * bps /\ value * bps \in Nat
    BY <2>1, ProductInNat, SMT DEF FullBps
  <2>3. Distance(part * FullBps, value * bps) = 0
    <3> DEFINE i == value * bps
    <3>1. Distance(i, i) = 0
      <4> HIDE DEF i
      <4> QED BY <2>2, SMT DEF Distance, MaxOf, i
    <3> QED BY <2>2, <3>1
  <2>4. part % Grain = 0 \/ bps = FullBps
    BY <2>1, SMT
  <2>5. 2 * 0 <= FullBps * Grain
    BY SMT DEF FullBps
  <2> QED BY <2>3, <2>4, <2>5 DEF Nearest, part
<1>4. CASE bps > 0 /\ bps < FullBps
  <2> DEFINE i == value * bps
             j == part * FullBps
  <2>1. /\ 2 * i <= 2 * (FullBps * part) + FullBps * Grain
        /\ 2 * (FullBps * part) <= 2 * i + FullBps * Grain
    BY <1>4, CommissionNear
  <2>2. i \in Nat /\ j \in Nat /\ FullBps * part = j
    BY <1>1, ProductInNat, SMT DEF FullBps
  <2>3. part % Grain = 0
    <3> DEFINE whole == RoundHalfEven(value * bps, FullBps * Grain)
    <3>1. whole \in Nat
      <4>1. value * bps \in Nat /\ FullBps * Grain \in Nat \ {0}
        BY ProductInNat, SMT DEF FullBps
      <4> QED BY <4>1, RoundNear
    <3>2. part = Grain * whole
      BY <1>4, SMT DEF CommissionAmount, FullBps
    <3> HIDE DEF part, whole
    <3> QED BY <3>1, <3>2, SMT
  <2> HIDE DEF part, i, j
  <2>4. 2 * Distance(j, i) <= FullBps * Grain
    BY <2>1, <2>2, SMT DEF Distance, MaxOf, FullBps
  <2> QED BY <2>3, <2>4 DEF Nearest, i, j, part
<1> QED BY <1>2, <1>4, SMT DEF FullBps

(***************************************************************************)
(* Whatever is collected and at whatever rates up to a half together (or   *)
(* up to the whole, if amounts have 8 decimals), every grain lands in one  *)
(* account, and the commissions are the nearest to what the rates say      *)
(* (transfer_collected_usage_amount, plan.md:756).                         *)
(***************************************************************************)
THEOREM SplitsAreExact ==
  ASSUME NEW value \in Nat, NEW marketBps, NEW routerBps, ExactRates(marketBps, routerBps)
  PROVE  ExactSplit(value, marketBps, routerBps)
<1> DEFINE totalBps == MinOf(MaxOf(marketBps + routerBps, 0), FullBps)
           total    == CommissionAmount(value, totalBps)
           market   == CommissionAmount(value, marketBps)
           parts    == Collect(value, marketBps, routerBps)
<1>1. /\ marketBps \in Nat /\ routerBps \in Nat /\ marketBps <= FullBps
      /\ marketBps + routerBps \in Nat /\ marketBps + routerBps <= FullBps
      /\ totalBps = marketBps + routerBps
  BY SMT DEF ExactRates, MinOf, MaxOf, FullBps
<1>2. parts \in [provider: Nat, market: Nat, router: Nat] /\ Outflow(parts) = value
  BY CollectIsExact
<1>3. /\ parts.market = MinOf(market, total)
      /\ parts.router = total - MinOf(market, total)
  BY DEF Collect, CommissionSplit
<1>4. Nearest(total, value, marketBps + routerBps) /\ Nearest(market, value, marketBps)
  BY <1>1, CommissionIsNearest
<1>5. market \in Nat /\ total \in Nat
  BY <1>1, CommissionInNat
<1> HIDE DEF parts, market, total
<1>6. /\ parts.market + parts.router = total
      /\ parts.market = market \/ parts.router = 0
  BY <1>3, <1>5, SMT DEF MinOf
<1>7. parts.provider >= 0 /\ parts.market >= 0 /\ parts.router >= 0
  BY <1>2
<1>8. /\ Nearest(parts.market + parts.router, value, marketBps + routerBps)
      /\ Nearest(parts.market, value, marketBps) \/ parts.router = 0
  BY <1>4, <1>6
<1> QED BY <1>2, <1>7, <1>8 DEF ExactSplit, parts

\* What the provider of a collection gets is the amount less the commission.
LEMMA CollectForProvider ==
  ASSUME NEW value \in Nat, NEW marketBps, NEW routerBps,
         ExactRates(marketBps, routerBps)
  PROVE  Collect(value, marketBps, routerBps).provider
           = value - CommissionAmount(value, marketBps + routerBps)
<1> DEFINE totalBps == MinOf(MaxOf(marketBps + routerBps, 0), FullBps)
           total    == CommissionAmount(value, totalBps)
           market   == CommissionAmount(value, marketBps)
           split    == CommissionSplit(value, marketBps, routerBps)
           commission == CommissionAmount(value, marketBps + routerBps)
<1>1. /\ marketBps \in Nat /\ routerBps \in Nat
      /\ totalBps = marketBps + routerBps /\ totalBps \in Nat /\ totalBps <= FullBps
      /\ Grain = 1 \/ 2 * totalBps <= FullBps
  BY SMT DEF ExactRates, MinOf, MaxOf, FullBps
<1>2. total \in Nat /\ total <= value /\ total = commission
  BY <1>1, CommissionBelowAmount
<1>3. market \in Nat
  BY <1>1, CommissionInNat
<1>4. split = [market |-> MinOf(market, total), router |-> total - MinOf(market, total)]
  BY DEF CommissionSplit
<1> HIDE DEF total, market, split, commission
<1>5. split.market \in Nat /\ split.router \in Nat /\ split.market + split.router = total
  BY <1>2, <1>3, <1>4, SMT DEF MinOf
<1>6. Collect(value, marketBps, routerBps).provider
        = MaxOf(value - split.market - split.router, 0)
  BY DEF Collect, split
<1> QED BY <1>2, <1>5, <1>6, SMT DEF MaxOf, commission
=============================================================================
