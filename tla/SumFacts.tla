------------------------------ MODULE SumFacts ------------------------------
(***************************************************************************)
(* Sums of a function's values over a finite set, SumFunctionOnSet, for    *)
(* sets of any size.  The library's theorems on induction have an operator *)
(* as a parameter; here induction is the choice of a smallest set among    *)
(* those that would be counterexamples, which there is because inclusion   *)
(* is well founded on the subsets of a finite set.                         *)
(***************************************************************************)
EXTENDS Functions, FiniteSets, Sequences, WellFoundedInduction, TLAPS

-----------------------------------------------------------------------------
(* Finite sets                                                             *)

\* A list of n entries that names every element of a set, and nothing else.
Lists(q, n, T) == q \in [1 .. n -> T] /\ \A t \in T : \E i \in 1 .. n : q[i] = t

\* A set is finite when there is such a list.
LEMMA FiniteIsListed ==
  ASSUME NEW S
  PROVE  IsFiniteSet(S) <=> \E n \in Nat : \E q : Lists(q, n, S)
<1>1. ASSUME NEW n \in Nat, NEW q \in [1 .. n -> S]
      PROVE  q \in Seq(S) /\ Len(q) = n
  BY <1>1
<1>2. ASSUME NEW q \in Seq(S)
      PROVE  Len(q) \in Nat /\ q \in [1 .. Len(q) -> S]
  OBVIOUS
<1>3. ASSUME IsFiniteSet(S)
      PROVE  \E n \in Nat : \E q : Lists(q, n, S)
  BY <1>2, <1>3 DEF IsFiniteSet, Lists
<1>4. ASSUME \E n \in Nat : \E q : Lists(q, n, S)
      PROVE  IsFiniteSet(S)
  BY <1>1, <1>4, Zenon DEF IsFiniteSet, Lists
<1>. QED
  BY <1>3, <1>4, Zenon

\* The empty set is finite.
LEMMA FiniteEmpty == IsFiniteSet({})
<1>1. Lists([i \in 1 .. 0 |-> 0], 0, {})
  BY DEF Lists
<1>. QED
  BY <1>1, FiniteIsListed, Zenon

\* So are the images of finite sets.
LEMMA FiniteImage ==
  ASSUME NEW S, IsFiniteSet(S), NEW f
  PROVE  IsFiniteSet({f[s] : s \in S})
<1> DEFINE T == {f[s] : s \in S}
<1>1. PICK n, q : n \in Nat /\ Lists(q, n, S)
  BY FiniteIsListed, Zenon
<1>2. Lists([i \in 1 .. n |-> f[q[i]]], n, T)
  BY <1>1 DEF Lists
<1> HIDE DEF T
<1>3. IsFiniteSet(T)
  BY <1>1, <1>2, FiniteIsListed, Zenon
<1>. QED
  BY <1>3, Zenon DEF T

\* So are the unions of two finite sets.
LEMMA FiniteUnion ==
  ASSUME NEW S, NEW T, IsFiniteSet(S), IsFiniteSet(T)
  PROVE  IsFiniteSet(S \union T)
<1>1. PICK n, q : n \in Nat /\ Lists(q, n, S)
  BY FiniteIsListed, Zenon
<1>2. PICK m, r : m \in Nat /\ Lists(r, m, T)
  BY FiniteIsListed, Zenon
<1> DEFINE p == [i \in 1 .. n + m |-> IF i <= n THEN q[i] ELSE r[i - n]]
<1>3. p \in [1 .. n + m -> S \union T]
  BY <1>1, <1>2 DEF Lists
<1>4. ASSUME NEW t \in S \union T
      PROVE  \E i \in 1 .. n + m : p[i] = t
  <2>1. CASE t \in S
    BY <1>1, <1>2, <2>1 DEF Lists
  <2>2. CASE t \in T
    <3>1. PICK i \in 1 .. m : r[i] = t
      BY <1>2, <2>2, Zenon DEF Lists
    <3>2. i + n \in 1 .. n + m /\ p[i + n] = t
      BY <1>1, <1>2, <3>1
    <3>. QED
      BY <3>2, Zenon
  <2>. QED
    BY <1>4, <2>1, <2>2, Zenon
<1>5. Lists(p, n + m, S \union T) /\ n + m \in Nat
  BY <1>1, <1>2, <1>3, <1>4 DEF Lists
<1>. QED
  BY <1>5, FiniteIsListed, Zenon

\* A list of a set gives a shorter one of each of its proper subsets.
LEMMA ShorterList ==
  ASSUME NEW S, NEW n \in Nat, NEW q, Lists(q, n, S), NEW T \in SUBSET S, T # S
  PROVE  \E m \in Nat : m < n /\ \E r : Lists(r, m, T)
<1>1. PICK j \in 1 .. n : q[j] \notin T
  BY Zenon DEF Lists
<1>2. CASE T = {}
  <2>1. Lists([i \in 1 .. 0 |-> 0], 0, T)
    BY <1>2 DEF Lists
  <2>. QED
    BY <1>1, <2>1
<1>3. CASE T # {}
  <2>1. PICK e : e \in T
    BY <1>3, Zenon
  <2> DEFINE k(i) == IF i < j THEN i ELSE i + 1
             r == [i \in 1 .. n - 1 |-> IF q[k(i)] \in T THEN q[k(i)] ELSE e]
  <2>2. r \in [1 .. n - 1 -> T]
    BY <2>1, Zenon
  <2>3. ASSUME NEW t \in T
        PROVE  \E i \in 1 .. n - 1 : r[i] = t
    <3>1. PICK h \in 1 .. n : q[h] = t
      BY Zenon DEF Lists
    <3> DEFINE g == IF h < j THEN h ELSE h - 1
    <3>2. g \in 1 .. n - 1 /\ k(g) = h
      BY <1>1, <3>1
    <3>3. r[g] = t
      BY <3>1, <3>2, Zenon
    <3>. QED
      BY <3>2, <3>3, Zenon
  <2>4. Lists(r, n - 1, T)
    BY <2>2, <2>3, Zenon DEF Lists
  <2>. QED
    BY <1>1, <2>4
<1>. QED
  BY <1>2, <1>3, Zenon

\* The subsets of finite sets are finite.
LEMMA FiniteSubset ==
  ASSUME NEW S, IsFiniteSet(S), NEW T \in SUBSET S
  PROVE  IsFiniteSet(T)
<1>1. PICK n, q : n \in Nat /\ Lists(q, n, S)
  BY FiniteIsListed, Zenon
<1>2. \E m \in Nat : \E r : Lists(r, m, T)
  <2>1. CASE T = S
    BY <1>1, <2>1, Zenon
  <2>2. CASE T # S
    BY <1>1, <2>2, ShorterList, Zenon
  <2>. QED
    BY <2>1, <2>2, Zenon
<1>. QED
  BY <1>2, FiniteIsListed, Zenon

\* Among sets of subsets of a finite set there are smallest ones.
LEMMA SubsetMinimal ==
  ASSUME NEW S, IsFiniteSet(S), NEW B \in SUBSET SUBSET S, B # {}
  PROVE  \E T \in B : \A U \in B : U \subseteq T => U = T
<1> DEFINE lengths == {n \in Nat : \E U \in B : \E q : Lists(q, n, U)}
<1>1. lengths \subseteq Nat /\ lengths # {}
  BY FiniteSubset, FiniteIsListed, Zenon
<1>2. PICK n \in lengths : \A m \in lengths : ~(m < n)
  <2>1. \E n \in lengths : \A m \in lengths : <<m, n>> \notin OpToRel(<, Nat)
    <3> HIDE DEF lengths
    <3>. QED
      BY <1>1, NatLessThanWellFounded, WFMin, Zenon
  <2>. QED
    BY <1>1, <2>1, Zenon DEF OpToRel
<1>3. PICK T, q : T \in B /\ Lists(q, n, T)
  BY <1>2, Zenon
<1>4. ASSUME NEW U \in B, U \subseteq T
      PROVE  U = T
  BY <1>2, <1>3, <1>4, ShorterList, Zenon
<1>. QED
  BY <1>3, <1>4, Zenon

-----------------------------------------------------------------------------
(* Sums                                                                    *)

\* The element a fold takes first, and what its iteration computes.
Pick(s) == CHOOSE x \in s : TRUE

Adds(g, f, S) ==
  g = [s \in SUBSET S |-> IF s = {} THEN 0 ELSE f[Pick(s)] + g[s \ {Pick(s)}]]

\* The fold, as what its iteration computes.
LEMMA SumIsAdds ==
  ASSUME NEW f, NEW S
  PROVE  SumFunctionOnSet(f, S) = (CHOOSE g : Adds(g, f, S))[S]
BY Zenon DEF SumFunctionOnSet, FoldFunctionOnSet, MapThenFoldSet, Adds, Pick

\* Two iterations agree where both are defined.
LEMMA AddsAgree ==
  ASSUME NEW f, NEW S, NEW T, IsFiniteSet(S), NEW g, NEW h,
         Adds(g, f, S), Adds(h, f, T)
  PROVE  \A U \in SUBSET S : U \in SUBSET T => g[U] = h[U]
<1> DEFINE B == {U \in SUBSET S : U \in SUBSET T /\ g[U] # h[U]}
<1> SUFFICES ASSUME B # {} PROVE FALSE
  BY Zenon
<1>1. PICK V \in B : \A U \in B : U \subseteq V => U = V
  <2>1. B \in SUBSET SUBSET S
    BY Zenon
  <2> HIDE DEF B
  <2>. QED
    BY <2>1, SubsetMinimal
<1>2. V # {}
  BY <1>1, Zenon DEF Adds
<1>3. Pick(V) \in V
  BY <1>2, Zenon DEF Pick
<1>4. V \ {Pick(V)} \notin B
  BY <1>1, <1>3, Zenon
<1>5. g[V \ {Pick(V)}] = h[V \ {Pick(V)}]
  BY <1>1, <1>4, Zenon
<1>6. g[V] = f[Pick(V)] + g[V \ {Pick(V)}] /\ h[V] = f[Pick(V)] + h[V \ {Pick(V)}]
  BY <1>1, <1>2, Zenon DEF Adds
<1>. QED
  BY <1>1, <1>5, <1>6, Zenon

\* An iteration is defined on every finite set.
LEMMA AddsExists ==
  ASSUME NEW f, NEW S, IsFiniteSet(S)
  PROVE  \E g : Adds(g, f, S)
<1> DEFINE B == {U \in SUBSET S : ~ \E g : Adds(g, f, U)}
<1> SUFFICES ASSUME B # {} PROVE FALSE
  BY Zenon
<1>1. PICK V \in B : \A U \in B : U \subseteq V => U = V
  <2>1. B \in SUBSET SUBSET S
    BY Zenon
  <2> HIDE DEF B
  <2>. QED
    BY <2>1, SubsetMinimal
<1> DEFINE it(U) == CHOOSE g : Adds(g, f, U)
           g == [s \in SUBSET V |->
                   IF s = {} THEN 0 ELSE f[Pick(s)] + it(s \ {Pick(s)})[s \ {Pick(s)}]]
<1>2. ASSUME NEW U \in SUBSET V, U # V
      PROVE  Adds(it(U), f, U) /\ IsFiniteSet(U)
  <2>1. \E k : Adds(k, f, U)
    BY <1>1, <1>2, Zenon
  <2>. QED
    BY <2>1, FiniteSubset, Zenon
<1>3. ASSUME NEW s \in SUBSET V, s # {}
      PROVE  g[s \ {Pick(s)}] = it(s \ {Pick(s)})[s \ {Pick(s)}]
  <2> DEFINE t == s \ {Pick(s)}
             u == t \ {Pick(t)}
  <2>1. Pick(s) \in s
    BY <1>3, Zenon DEF Pick
  <2>2. t \in SUBSET V /\ t # V /\ u \in SUBSET V /\ u # V /\ u \subseteq t
    BY <2>1, Zenon
  <2>3. Adds(it(t), f, t) /\ Adds(it(u), f, u) /\ IsFiniteSet(t)
    BY <1>2, <2>2, Zenon
  <2>4. it(t)[u] = it(u)[u]
    BY <2>2, <2>3, AddsAgree
  <2>5. it(t)[t] = IF t = {} THEN 0 ELSE f[Pick(t)] + it(t)[u]
    BY <2>3, Zenon DEF Adds
  <2> HIDE DEF it, u
  <2>6. g[t] = IF t = {} THEN 0 ELSE f[Pick(t)] + it(u)[u]
    BY <2>2, Zenon DEF u
  <2>. QED
    BY <2>4, <2>5, <2>6, Zenon
<1>4. Adds(g, f, V)
  <2>1. ASSUME NEW s \in SUBSET V
        PROVE  g[s] = IF s = {} THEN 0 ELSE f[Pick(s)] + g[s \ {Pick(s)}]
    <3>1. CASE s = {}
      BY <3>1, Zenon
    <3>2. CASE s # {}
      <4>1. g[s] = f[Pick(s)] + it(s \ {Pick(s)})[s \ {Pick(s)}]
        BY <3>2, Zenon
      <4>2. g[s \ {Pick(s)}] = it(s \ {Pick(s)})[s \ {Pick(s)}]
        BY <3>2, <1>3, Zenon
      <4> HIDE DEF g, it
      <4>. QED
        BY <3>2, <4>1, <4>2, Zenon
    <3>. QED
      BY <3>1, <3>2, Zenon
  <2>2. g = [s \in SUBSET V |-> g[s]]
    OBVIOUS
  <2> HIDE DEF g
  <2>. QED
    BY <2>1, <2>2, Zenon DEF Adds
<1>. QED
  BY <1>1, <1>4, Zenon

\* The fold satisfies its equation where there is nothing to add up.
LEMMA SumEmpty ==
  ASSUME NEW f
  PROVE  SumFunctionOnSet(f, {}) = 0
<1>1. \E g : Adds(g, f, {})
  BY AddsExists, FiniteEmpty, Zenon
<1>2. Adds(CHOOSE g : Adds(g, f, {}), f, {})
  BY <1>1, Zenon
<1>3. (CHOOSE g : Adds(g, f, {}))[{}] = 0
  BY <1>2, Zenon DEF Adds
<1>. QED
  BY <1>3, SumIsAdds, Zenon

\* The fold satisfies its equation: the element taken first, and the rest.
LEMMA SumFirst ==
  ASSUME NEW f, NEW S, IsFiniteSet(S), S # {}
  PROVE  SumFunctionOnSet(f, S) = f[Pick(S)] + SumFunctionOnSet(f, S \ {Pick(S)})
<1> DEFINE it(U) == CHOOSE g : Adds(g, f, U)
           T == S \ {Pick(S)}
<1>1. IsFiniteSet(T)
  BY FiniteSubset, Zenon
<1>2. (\E g : Adds(g, f, S)) /\ (\E g : Adds(g, f, T))
  BY <1>1, AddsExists, Zenon
<1>3. Adds(it(S), f, S) /\ Adds(it(T), f, T)
  BY <1>2, Zenon
<1>4. it(S)[T] = it(T)[T]
  <2> HIDE DEF it
  <2>. QED
    BY <1>1, <1>3, AddsAgree
<1>5. it(S)[S] = f[Pick(S)] + it(S)[T]
  <2> HIDE DEF it
  <2>. QED
    BY <1>3, Zenon DEF Adds
<1>. QED
  BY <1>4, <1>5, SumIsAdds, Zenon

\* A sum of integers is an integer.
LEMMA SumInt ==
  ASSUME NEW S, IsFiniteSet(S), NEW f \in [S -> Int]
  PROVE  \A T \in SUBSET S : SumFunctionOnSet(f, T) \in Int
<1> DEFINE B == {T \in SUBSET S : SumFunctionOnSet(f, T) \notin Int}
<1> SUFFICES ASSUME B # {} PROVE FALSE
  BY Zenon
<1>1. PICK V \in B : \A U \in B : U \subseteq V => U = V
  <2>1. B \in SUBSET SUBSET S
    BY Zenon
  <2> HIDE DEF B
  <2>. QED
    BY <2>1, SubsetMinimal
<1>2. V # {}
  <2>1. SumFunctionOnSet(f, {}) \in Int
    BY SumEmpty
  <2>. QED
    BY <1>1, <2>1, Zenon
<1>3. Pick(V) \in V
  BY <1>2, Zenon DEF Pick
<1>4. SumFunctionOnSet(f, V \ {Pick(V)}) \in Int
  BY <1>1, <1>3
<1>5. IsFiniteSet(V)
  BY <1>1, FiniteSubset, Zenon
<1>. QED
  BY <1>1, <1>2, <1>3, <1>4, <1>5, SumFirst

\* Any element may be taken out of a sum, not only the one the fold takes first.
LEMMA SumTakeOut ==
  ASSUME NEW S, IsFiniteSet(S), NEW f \in [S -> Int]
  PROVE  \A T \in SUBSET S : \A x \in T :
           SumFunctionOnSet(f, T) = f[x] + SumFunctionOnSet(f, T \ {x})
<1> DEFINE sum(T) == SumFunctionOnSet(f, T)
           Out(T) == \A x \in T : sum(T) = f[x] + sum(T \ {x})
           B == {T \in SUBSET S : ~Out(T)}
<1> SUFFICES ASSUME B # {} PROVE FALSE
  OBVIOUS
<1>1. PICK V \in B : \A U \in B : U \subseteq V => U = V
  <2>1. B \in SUBSET SUBSET S
    BY Zenon
  <2> HIDE DEF B
  <2>. QED
    BY <2>1, SubsetMinimal
<1>2. PICK x \in V : sum(V) # f[x] + sum(V \ {x})
  BY <1>1, Zenon
<1> DEFINE y == Pick(V)
<1>3. y \in V /\ V \in SUBSET S
  BY <1>1, <1>2, Zenon DEF Pick
<1>4. sum(V) = f[y] + sum(V \ {y})
  BY <1>2, <1>3, SumFirst, FiniteSubset, Zenon
<1>5. x # y
  BY <1>2, <1>4, Zenon
<1>6. Out(V \ {x}) /\ Out(V \ {y})
  <2>1. V \ {x} \notin B /\ V \ {y} \notin B
    BY <1>1, <1>2, <1>3, Zenon
  <2>. QED
    BY <2>1, <1>3, Zenon
<1>7. /\ sum(V \ {y}) = f[x] + sum((V \ {y}) \ {x})
      /\ sum(V \ {x}) = f[y] + sum((V \ {x}) \ {y})
  BY <1>2, <1>3, <1>5, <1>6, Zenon
<1>8. (V \ {y}) \ {x} = (V \ {x}) \ {y}
  BY Zenon
<1>9. /\ f[x] \in Int /\ f[y] \in Int
      /\ sum((V \ {x}) \ {y}) \in Int
  <2>1. (V \ {x}) \ {y} \in SUBSET S
    BY <1>3, Zenon
  <2>. QED
    BY <1>2, <1>3, <2>1, SumInt, Zenon
<1>10. sum(V) = f[y] + (f[x] + sum((V \ {x}) \ {y}))
  BY <1>4, <1>7, <1>8, Zenon
<1>11. f[x] + sum(V \ {x}) = f[x] + (f[y] + sum((V \ {x}) \ {y}))
  BY <1>7, Zenon
<1>12. \A a, b, c \in Int : a + (b + c) = b + (a + c)
  OBVIOUS
<1>. QED
  BY <1>2, <1>9, <1>10, <1>11, <1>12, Zenon

\* Functions with the same values have the same sum.
LEMMA SumSame ==
  ASSUME NEW S, IsFiniteSet(S), NEW f \in [S -> Int], NEW g,
         NEW D \in SUBSET S, \A x \in D : g[x] = f[x]
  PROVE  SumFunctionOnSet(g, D) = SumFunctionOnSet(f, D)
<1> DEFINE B == {T \in SUBSET S : T \subseteq D /\ SumFunctionOnSet(g, T) # SumFunctionOnSet(f, T)}
<1> SUFFICES ASSUME B # {} PROVE FALSE
  BY Zenon
<1>1. PICK V \in B : \A U \in B : U \subseteq V => U = V
  <2>1. B \in SUBSET SUBSET S
    BY Zenon
  <2> HIDE DEF B
  <2>. QED
    BY <2>1, SubsetMinimal
<1>2. V # {}
  <2>1. SumFunctionOnSet(f, {}) = SumFunctionOnSet(g, {})
    BY SumEmpty, Zenon
  <2>. QED
    BY <1>1, <2>1, Zenon
<1>3. Pick(V) \in V /\ V \in SUBSET S /\ V \subseteq D /\ IsFiniteSet(V)
  BY <1>1, <1>2, FiniteSubset, Zenon DEF Pick
<1>4. SumFunctionOnSet(g, V \ {Pick(V)}) = SumFunctionOnSet(f, V \ {Pick(V)})
  BY <1>1, <1>3
<1>5. /\ SumFunctionOnSet(f, V) = f[Pick(V)] + SumFunctionOnSet(f, V \ {Pick(V)})
      /\ SumFunctionOnSet(g, V) = g[Pick(V)] + SumFunctionOnSet(g, V \ {Pick(V)})
  BY <1>2, <1>3, SumFirst, Zenon
<1>6. g[Pick(V)] = f[Pick(V)]
  BY <1>3, Zenon
<1>7. SumFunctionOnSet(g, V) # SumFunctionOnSet(f, V)
  BY <1>1, Zenon
<1> HIDE DEF B
<1>. QED
  BY <1>4, <1>5, <1>6, <1>7, Zenon

\* The change of one value changes a sum by as much.
THEOREM SumUpdate ==
  ASSUME NEW S, IsFiniteSet(S), NEW f \in [S -> Int], NEW g \in [S -> Int],
         NEW x \in S, \A y \in S \ {x} : g[y] = f[y]
  PROVE  SumFunctionOnSet(g, S) = SumFunctionOnSet(f, S) + g[x] - f[x]
<1>1. SumFunctionOnSet(g, S \ {x}) = SumFunctionOnSet(f, S \ {x})
  BY SumSame
<1>2. /\ SumFunctionOnSet(g, S) = g[x] + SumFunctionOnSet(g, S \ {x})
      /\ SumFunctionOnSet(f, S) = f[x] + SumFunctionOnSet(f, S \ {x})
  BY SumTakeOut
<1>3. SumFunctionOnSet(f, S \ {x}) \in Int
  BY SumInt, Zenon
<1>. QED
  BY <1>1, <1>2, <1>3

\* A sum of natural numbers is a natural number.
THEOREM SumNat ==
  ASSUME NEW S, IsFiniteSet(S), NEW f \in [S -> Nat]
  PROVE  \A T \in SUBSET S : SumFunctionOnSet(f, T) \in Nat
<1> DEFINE B == {T \in SUBSET S : SumFunctionOnSet(f, T) \notin Nat}
<1> SUFFICES ASSUME B # {} PROVE FALSE
  BY Zenon
<1>1. PICK V \in B : \A U \in B : U \subseteq V => U = V
  <2>1. B \in SUBSET SUBSET S
    BY Zenon
  <2> HIDE DEF B
  <2>. QED
    BY <2>1, SubsetMinimal
<1>2. V # {}
  <2>1. SumFunctionOnSet(f, {}) \in Nat
    BY SumEmpty
  <2>. QED
    BY <1>1, <2>1, Zenon
<1>3. Pick(V) \in V
  BY <1>2, Zenon DEF Pick
<1>4. SumFunctionOnSet(f, V \ {Pick(V)}) \in Nat
  BY <1>1, <1>3
<1>5. IsFiniteSet(V)
  BY <1>1, FiniteSubset, Zenon
<1>. QED
  BY <1>1, <1>2, <1>3, <1>4, <1>5, SumFirst

\* A sum of natural numbers is at least each of them.
LEMMA SumAtLeast ==
  ASSUME NEW S, IsFiniteSet(S), NEW f \in [S -> Nat], NEW x \in S
  PROVE  f[x] <= SumFunctionOnSet(f, S)
<1>1. f \in [S -> Int]
  OBVIOUS
<1>2. SumFunctionOnSet(f, S) = f[x] + SumFunctionOnSet(f, S \ {x})
  BY <1>1, SumTakeOut
<1>3. SumFunctionOnSet(f, S \ {x}) \in Nat
  BY SumNat, Zenon
<1>. QED
  BY <1>2, <1>3

\* What holds between the values of two functions, each with a factor of its
\* own, holds between their sums.
LEMMA SumScaled ==
  ASSUME NEW S, IsFiniteSet(S), NEW f \in [S -> Nat], NEW g \in [S -> Nat],
         NEW c \in Nat, NEW d \in Nat, \A x \in S : c * g[x] <= d * f[x]
  PROVE  c * SumFunctionOnSet(g, S) <= d * SumFunctionOnSet(f, S)
<1> DEFINE Below(T) == c * SumFunctionOnSet(g, T) <= d * SumFunctionOnSet(f, T)
           B == {T \in SUBSET S : ~Below(T)}
<1> SUFFICES ASSUME B # {} PROVE FALSE
  BY Zenon
<1>1. PICK V \in B : \A U \in B : U \subseteq V => U = V
  <2>1. B \in SUBSET SUBSET S
    BY Zenon
  <2> HIDE DEF B
  <2>. QED
    BY <2>1, SubsetMinimal
<1>2. V # {}
  <2>1. Below({})
    BY SumEmpty
  <2>. QED
    BY <1>1, <2>1, Zenon
<1>3. Pick(V) \in V /\ V \in SUBSET S /\ IsFiniteSet(V)
  BY <1>1, <1>2, FiniteSubset, Zenon DEF Pick
<1> DEFINE x == Pick(V)
           W == V \ {x}
<1>4. Below(W)
  <2>1. W \in SUBSET S /\ W \subseteq V /\ W # V
    BY <1>3, Zenon
  <2> HIDE DEF W, Below
  <2>. QED
    BY <1>1, <2>1, Zenon
<1>5. /\ SumFunctionOnSet(f, V) = f[x] + SumFunctionOnSet(f, W)
      /\ SumFunctionOnSet(g, V) = g[x] + SumFunctionOnSet(g, W)
  BY <1>2, <1>3, SumFirst, Zenon
<1>6. /\ f[x] \in Nat /\ g[x] \in Nat /\ c * g[x] <= d * f[x]
      /\ SumFunctionOnSet(f, W) \in Nat /\ SumFunctionOnSet(g, W) \in Nat
  BY <1>3, SumNat, Zenon
<1>7. \A i, j, k, l \in Nat : c * j <= d * i /\ c * l <= d * k => c * (j + l) <= d * (i + k)
  <2> TAKE i, j, k, l \in Nat
  <2>1. c * (j + l) = c * j + c * l /\ d * (i + k) = d * i + d * k
    OBVIOUS
  <2>2. c * j \in Nat /\ c * l \in Nat /\ d * i \in Nat /\ d * k \in Nat
    OBVIOUS
  <2>. QED
    BY <2>1, <2>2
<1>8. Below(V)
  <2> HIDE DEF x, W
  <2>. QED
    BY <1>4, <1>5, <1>6, <1>7, Zenon
<1>. QED
  BY <1>1, <1>8, Zenon

\* Among subsets of a finite set that its elements name, one is smallest.
LEMMA SmallestNamed ==
  ASSUME NEW S, IsFiniteSet(S), S # {}
  PROVE  \A up \in [S -> SUBSET S] :
           \E m \in S : \A n \in S : up[n] \subseteq up[m] => up[n] = up[m]
<1> TAKE up \in [S -> SUBSET S]
<1> DEFINE B == {up[m] : m \in S}
<1>1. B \in SUBSET SUBSET S /\ B # {}
  BY Zenon
<1>2. \E T \in B : \A U \in B : U \subseteq T => U = T
  <2> HIDE DEF B
  <2>. QED
    BY <1>1, SubsetMinimal
<1>3. PICK m \in S : \A U \in B : U \subseteq up[m] => U = up[m]
  BY <1>2
<1>4. \A n \in S : up[n] \in B
  BY Zenon
<1> HIDE DEF B
<1>. QED
  BY <1>3, <1>4, Zenon

\* A finite set of numbers has a largest one.
LEMMA LargestExists ==
  ASSUME NEW S, S \subseteq Nat, IsFiniteSet(S), S # {}
  PROVE  \E m \in S : \A n \in S : m >= n
<1> DEFINE up == [m \in S |-> {n \in S : n >= m}]
<1>1. \E m \in S : \A n \in S : up[n] \subseteq up[m] => up[n] = up[m]
  <2>1. up \in [S -> SUBSET S]
    BY Zenon
  <2>2. \A u \in [S -> SUBSET S] :
          \E m \in S : \A n \in S : u[n] \subseteq u[m] => u[n] = u[m]
    BY SmallestNamed, Zenon
  <2> HIDE DEF up
  <2>. QED
    BY <2>1, <2>2, Zenon
<1>2. PICK m \in S : \A n \in S : up[n] \subseteq up[m] => up[n] = up[m]
  BY <1>1, Zenon
<1>3. ASSUME NEW n \in S, ~(m >= n)
      PROVE  FALSE
  <2>1. m \in Nat /\ n \in Nat /\ m < n
    BY <1>3
  <2>2. up[n] \subseteq up[m]
    <3>1. \A k \in S : k >= n => k >= m
      BY <2>1
    <3>. QED
      BY <3>1, Zenon
  <2>3. m \in up[m] /\ m \notin up[n]
    BY <2>1
  <2> HIDE DEF up
  <2>. QED
    BY <1>2, <2>2, <2>3, Zenon
<1>. QED
  BY <1>3, Zenon
=============================================================================
