----------------------------- MODULE FoldProofs -----------------------------
(***************************************************************************)
(* What is reached within n steps, and what numbers add up to: every walk, *)
(* closure and event family of the projections is a Reach, and every total *)
(* of amounts a SumFunction.  The library's theorems on recursive          *)
(* functions range over operators; these range over sets and functions.    *)
(***************************************************************************)
EXTENDS OutcomeAttribution, FiniteSetTheorems, WellFoundedInduction, TLAPS

\* Induction over a set of numbers.
LEMMA Induction ==
  ASSUME NEW S, 0 \in S, \A n \in Nat : n \in S => n + 1 \in S
  PROVE  Nat \subseteq S
<1> DEFINE T == Nat \ S
           R == {ss \in Nat \X Nat : ss[1] < ss[2]}
<1> SUFFICES ASSUME T # {} PROVE FALSE
  OBVIOUS
<1>1. IsWellFoundedOn(R, Nat)
  BY NatLessThanWellFounded DEF OpToRel
<1>2. PICK x \in T : \A y \in T : ~(<<y, x>> \in R)
  <2> HIDE DEF R
  <2> QED  BY <1>1, WFMin
<1>3. x # 0 /\ x - 1 \in Nat
  OBVIOUS
<1>4. x - 1 \in T /\ <<x - 1, x>> \in R
  BY <1>3
<1> QED  BY <1>2, <1>4

\* A set of numbers has a least one.
LEMMA LeastOf ==
  ASSUME NEW S, S \subseteq Nat, S # {}
  PROVE  \E x \in S : \A y \in S : x <= y
<1> DEFINE R == {ss \in Nat \X Nat : ss[1] < ss[2]}
<1>1. IsWellFoundedOn(R, Nat)
  BY NatLessThanWellFounded DEF OpToRel
<1>2. PICK x \in S : \A y \in S : ~(<<y, x>> \in R)
  <2> HIDE DEF R
  <2> QED  BY <1>1, WFMin
<1>3. ASSUME NEW y \in S PROVE x <= y
  <2>1. x \in Nat /\ y \in Nat /\ ~(<<y, x>> \in R)
    BY <1>2
  <2> QED  BY <2>1
<1> QED  BY <1>3

-----------------------------------------------------------------------------
\* f is the iteration of next from a, up to n.
IsIteration(f, n, D, a, next) ==
  /\ f \in [0..n -> D]
  /\ f[0] = a
  /\ \A i \in 0..(n - 1) : f[i + 1] = next[f[i]]

LEMMA IterationsAgree ==
  ASSUME NEW D, NEW a, NEW next, NEW m \in Nat, NEW n \in Nat, NEW f, NEW g,
         IsIteration(f, m, D, a, next), IsIteration(g, n, D, a, next)
  PROVE  \A i \in Nat : i <= m /\ i <= n => f[i] = g[i]
<1> DEFINE S == {i \in Nat : i <= m /\ i <= n => f[i] = g[i]}
<1>1. 0 \in S
  BY DEF IsIteration
<1>2. ASSUME NEW i \in Nat, i \in S PROVE i + 1 \in S
  <2> SUFFICES ASSUME i + 1 <= m, i + 1 <= n PROVE f[i + 1] = g[i + 1]
    OBVIOUS
  <2>1. i \in 0..(m - 1) /\ i \in 0..(n - 1) /\ f[i] = g[i]
    BY <1>2
  <2> QED  BY <2>1 DEF IsIteration
<1> HIDE DEF S
<1>3. Nat \subseteq S
  BY <1>1, <1>2, Induction
<1> QED  BY <1>3 DEF S

LEMMA IterationsExist ==
  ASSUME NEW D, NEW a \in D, NEW next \in [D -> D]
  PROVE  \A n \in Nat : \E f : IsIteration(f, n, D, a, next)
<1> DEFINE S == {n \in Nat : \E f : IsIteration(f, n, D, a, next)}
<1>1. 0 \in S
  <2>1. IsIteration([i \in 0..0 |-> a], 0, D, a, next)
    BY DEF IsIteration
  <2> QED  BY <2>1
<1>2. ASSUME NEW n \in Nat, n \in S PROVE n + 1 \in S
  <2>1. PICK f : IsIteration(f, n, D, a, next)
    BY <1>2
  <2> DEFINE g == [i \in 0..(n + 1) |-> IF i = n + 1 THEN next[f[n]] ELSE f[i]]
  <2>2. IsIteration(g, n + 1, D, a, next)
    <3>1. f \in [0..n -> D] /\ f[0] = a
      BY <2>1 DEF IsIteration
    <3>2. g \in [0..(n + 1) -> D] /\ g[0] = a
      BY <3>1
    <3>3. ASSUME NEW i \in 0..n PROVE g[i + 1] = next[g[i]]
      <4>1. CASE i = n
        BY <4>1
      <4>2. CASE i # n
        <5>1. i \in 0..(n - 1)
          BY <4>2
        <5>2. f[i + 1] = next[f[i]]
          BY <2>1, <5>1 DEF IsIteration
        <5> QED  BY <4>2, <5>1, <5>2
      <4> QED  BY <4>1, <4>2
    <3>4. (n + 1) - 1 = n
      OBVIOUS
    <3> HIDE DEF g
    <3> QED  BY <3>2, <3>3, <3>4 DEF IsIteration
  <2> QED  BY <2>2
<1> HIDE DEF S
<1>3. Nat \subseteq S
  BY <1>1, <1>2, Induction
<1> QED  BY <1>3 DEF S

\* A function can be iterated: the recursive definition has a solution.
LEMMA Iteration ==
  ASSUME NEW D, NEW a \in D, NEW next \in [D -> D]
  PROVE  \E f \in [Nat -> D] : f[0] = a /\ \A n \in Nat : f[n + 1] = next[f[n]]
<1> DEFINE p(n) == CHOOSE f : IsIteration(f, n, D, a, next)
           f == [n \in Nat |-> p(n)[n]]
<1>1. \A n \in Nat : IsIteration(p(n), n, D, a, next)
  BY IterationsExist
<1> HIDE DEF p
<1>2. \A n \in Nat : p(n) \in [0..n -> D] /\ p(n)[0] = a
  BY <1>1 DEF IsIteration
<1>3. f \in [Nat -> D] /\ f[0] = a
  BY <1>2
<1>4. ASSUME NEW n \in Nat PROVE f[n + 1] = next[f[n]]
  <2>1. IsIteration(p(n), n, D, a, next) /\ IsIteration(p(n + 1), n + 1, D, a, next)
    BY <1>1
  <2>2. p(n)[n] = p(n + 1)[n]
    <3>1. n <= n /\ n <= n + 1 /\ n + 1 \in Nat
      OBVIOUS
    <3> QED  BY <2>1, <3>1, IterationsAgree
  <2>3. n \in 0..((n + 1) - 1)
    OBVIOUS
  <2>4. p(n + 1)[n + 1] = next[p(n + 1)[n]]
    BY <2>1, <2>3 DEF IsIteration
  <2> QED  BY <2>2, <2>4
<1> HIDE DEF f
<1> QED  BY <1>3, <1>4

-----------------------------------------------------------------------------
\* What the definition of Reach says: its recursion has a solution.
LEMMA ReachDef ==
  ASSUME NEW start, NEW steps
  PROVE  /\ Reach(start, steps)[0] = start
         /\ \A n \in Nat : Reach(start, steps)[n + 1]
                            = Reach(start, steps)[n] \cup Ahead(Reach(start, steps)[n], steps)
<1> DEFINE more(X) == X \cup Ahead(X, steps)
           D == SUBSET (start \cup {s[2] : s \in steps})
           next == [X \in D |-> more(X)]
           eq(w) == w = [n \in Nat |-> IF n = 0 THEN start ELSE more(w[n - 1])]
<1>1. start \in D /\ next \in [D -> D]
  BY DEF Ahead
<1>2. PICK f \in [Nat -> D] : f[0] = start /\ \A n \in Nat : f[n + 1] = next[f[n]]
  <2> HIDE DEF D, next
  <2> QED  BY <1>1, Iteration
<1>3. eq(f)
  <2>1. ASSUME NEW n \in Nat PROVE f[n] = IF n = 0 THEN start ELSE more(f[n - 1])
    <3>1. CASE n = 0
      BY <1>2, <3>1
    <3>2. CASE n # 0
      <4>1. n - 1 \in Nat /\ (n - 1) + 1 = n
        BY <3>2
      <4>2. f[n] = next[f[n - 1]] /\ f[n - 1] \in D
        BY <1>2, <4>1
      <4>3. next[f[n - 1]] = more(f[n - 1])
        BY <4>2
      <4> QED  BY <3>2, <4>2, <4>3
    <3> QED  BY <3>1, <3>2
  <2> HIDE DEF more
  <2> QED  BY <2>1
<1>4. Reach(start, steps) = CHOOSE w : eq(w)
  BY DEF Reach
<1>5. eq(Reach(start, steps))
  <2> HIDE DEF eq
  <2> QED  BY <1>3, <1>4
<1> DEFINE r == Reach(start, steps)
<1>6. r = [n \in Nat |-> IF n = 0 THEN start ELSE more(r[n - 1])]
  BY <1>5
<1> HIDE DEF r, more
<1>7. r[0] = start
  BY <1>6
<1>8. ASSUME NEW n \in Nat PROVE r[n + 1] = more(r[n])
  <2>1. n + 1 \in Nat /\ n + 1 # 0 /\ (n + 1) - 1 = n
    OBVIOUS
  <2> QED  BY <1>6, <2>1
<1> QED  BY <1>7, <1>8 DEF r, more

LEMMA ReachStarts ==
  ASSUME NEW start, NEW steps PROVE Reach(start, steps)[0] = start
BY ReachDef

\* One step further.
LEMMA ReachStep ==
  ASSUME NEW start, NEW steps, NEW n \in Nat, NEW x \in Reach(start, steps)[n], NEW y,
         <<x, y>> \in steps
  PROVE  y \in Reach(start, steps)[n + 1]
<1>1. <<x, y>>[1] = x /\ <<x, y>>[2] = y
  OBVIOUS
<1>2. y \in Ahead(Reach(start, steps)[n], steps)
  BY <1>1 DEF Ahead
<1> QED  BY <1>2, ReachDef

\* What is closed under the steps is not left.
LEMMA ReachStaysIn ==
  ASSUME NEW start, NEW steps, NEW S, start \subseteq S,
         \A s \in steps : s[1] \in S => s[2] \in S
  PROVE  \A n \in Nat : Reach(start, steps)[n] \subseteq S
<1> DEFINE r == Reach(start, steps)
           T == {n \in Nat : r[n] \subseteq S}
<1>0. /\ r[0] = start
      /\ \A n \in Nat : r[n + 1] = r[n] \cup Ahead(r[n], steps)
  BY ReachDef
<1> HIDE DEF r
<1>1. 0 \in T
  BY <1>0
<1>2. ASSUME NEW n \in Nat, n \in T PROVE n + 1 \in T
  BY <1>0, <1>2 DEF Ahead
<1> HIDE DEF T
<1>3. Nat \subseteq T
  BY <1>1, <1>2, Induction
<1> QED  BY <1>3 DEF T, r

LEMMA ReachGrows ==
  ASSUME NEW start, NEW steps, NEW m \in Nat, NEW n \in Nat, m <= n
  PROVE  Reach(start, steps)[m] \subseteq Reach(start, steps)[n]
<1> DEFINE r == Reach(start, steps)
           T == {k \in Nat : r[m] \subseteq r[m + k]}
<1>0. \A k \in Nat : r[k] \subseteq r[k + 1]
  BY ReachDef
<1> HIDE DEF r
<1>1. 0 \in T
  OBVIOUS
<1>2. ASSUME NEW k \in Nat, k \in T PROVE k + 1 \in T
  <2>1. r[m] \subseteq r[m + k] /\ r[m + k] \subseteq r[(m + k) + 1]
    BY <1>0, <1>2
  <2>2. (m + k) + 1 = m + (k + 1)
    OBVIOUS
  <2> QED  BY <2>1, <2>2
<1> HIDE DEF T
<1>3. n - m \in T
  BY <1>1, <1>2, Induction
<1>4. m + (n - m) = n
  OBVIOUS
<1> QED  BY <1>3, <1>4 DEF T, r

\* More to start from and more steps reach more.
LEMMA ReachMore ==
  ASSUME NEW start, NEW steps, NEW start2, NEW steps2,
         start \subseteq start2, steps \subseteq steps2
  PROVE  \A n \in Nat : Reach(start, steps)[n] \subseteq Reach(start2, steps2)[n]
<1> DEFINE r == Reach(start, steps)
           q == Reach(start2, steps2)
           T == {n \in Nat : r[n] \subseteq q[n]}
<1>0. /\ r[0] = start /\ q[0] = start2
      /\ \A n \in Nat : r[n + 1] = r[n] \cup Ahead(r[n], steps)
      /\ \A n \in Nat : q[n + 1] = q[n] \cup Ahead(q[n], steps2)
  BY ReachDef
<1> HIDE DEF r, q
<1>1. 0 \in T
  BY <1>0
<1>2. ASSUME NEW n \in Nat, n \in T PROVE n + 1 \in T
  <2>1. r[n] \subseteq q[n]
    BY <1>2
  <2> QED  BY <1>0, <2>1 DEF Ahead
<1> HIDE DEF T
<1>3. Nat \subseteq T
  BY <1>1, <1>2, Induction
<1> QED  BY <1>3 DEF T, r, q

\* Two ways make one.
LEMMA ReachOn ==
  ASSUME NEW start, NEW steps, NEW m \in Nat, NEW x \in Reach(start, steps)[m]
  PROVE  \A n \in Nat : Reach({x}, steps)[n] \subseteq Reach(start, steps)[m + n]
<1> DEFINE r == Reach(start, steps)
           q == Reach({x}, steps)
           T == {n \in Nat : q[n] \subseteq r[m + n]}
<1>0. /\ q[0] = {x}
      /\ \A n \in Nat : r[n + 1] = r[n] \cup Ahead(r[n], steps)
      /\ \A n \in Nat : q[n + 1] = q[n] \cup Ahead(q[n], steps)
      /\ x \in r[m]
  BY ReachDef
<1> HIDE DEF r, q
<1>1. 0 \in T
  BY <1>0
<1>2. ASSUME NEW n \in Nat, n \in T PROVE n + 1 \in T
  <2>1. q[n] \subseteq r[m + n]
    BY <1>2
  <2>2. m + (n + 1) = (m + n) + 1 /\ m + n \in Nat
    OBVIOUS
  <2>3. q[n + 1] \subseteq r[(m + n) + 1]
    BY <1>0, <2>1, <2>2 DEF Ahead
  <2> QED  BY <2>2, <2>3
<1> HIDE DEF T
<1>3. Nat \subseteq T
  BY <1>1, <1>2, Induction
<1> QED  BY <1>3 DEF T, r, q

\* After as many steps as there are places, there is nothing more to reach.
LEMMA ReachCloses ==
  ASSUME NEW V, IsFiniteSet(V), NEW start \in SUBSET V, NEW steps \in SUBSET (V \X V)
  PROVE  LET all == Reach(start, steps)[Cardinality(V)]
         IN  all \subseteq V /\ \A s \in steps : s[1] \in all => s[2] \in all
<1> DEFINE r == Reach(start, steps)
           closed(X) == Ahead(X, steps) \subseteq X
           T == {n \in Nat : closed(r[n]) \/ Cardinality(r[n]) >= n}
<1>0. \A n \in Nat : r[n + 1] = r[n] \cup Ahead(r[n], steps)
  BY ReachDef
<1>1. \A n \in Nat : r[n] \subseteq V
  BY ReachStaysIn
<1>2. Cardinality(V) \in Nat
  BY FS_CardinalityType
<1> HIDE DEF r
<1>3. \A n \in Nat : IsFiniteSet(r[n]) /\ Cardinality(r[n]) \in Nat
  BY <1>1, FS_Subset, FS_CardinalityType
<1>4. 0 \in T
  BY <1>3
<1>5. ASSUME NEW n \in Nat, n \in T PROVE n + 1 \in T
  <2>1. CASE closed(r[n])
    <3>1. r[n + 1] = r[n]
      BY <1>0, <2>1
    <3> QED BY <2>1, <3>1
  <2>2. CASE ~closed(r[n])
    <3>1. PICK x : x \in Ahead(r[n], steps) /\ x \notin r[n]
      BY <2>2
    <3> DEFINE more == r[n] \cup {x}
    <3>2. Cardinality(more) = Cardinality(r[n]) + 1
      BY <1>3, <3>1, FS_AddElement
    <3>3. more \subseteq r[n + 1]
      BY <1>0, <3>1
    <3> HIDE DEF more
    <3>4. Cardinality(more) <= Cardinality(r[n + 1])
      BY <1>3, <3>3, FS_Subset
    <3>5. Cardinality(r[n]) >= n
      BY <1>5, <2>2
    <3>6. Cardinality(r[n + 1]) >= n + 1
      BY <1>3, <3>2, <3>4, <3>5
    <3> QED BY <3>6
  <2> QED BY <2>1, <2>2
<1>6. Cardinality(V) \in T
  <2> HIDE DEF T
  <2>1. Nat \subseteq T
    BY <1>4, <1>5, Induction
  <2> QED BY <1>2, <2>1
<1> DEFINE all == r[Cardinality(V)]
<1>7. closed(all)
  <2>1. CASE Cardinality(all) >= Cardinality(V)
    <3>1. all \subseteq V /\ Cardinality(all) <= Cardinality(V) /\ Cardinality(all) \in Nat
      BY <1>1, <1>2, <1>3, FS_Subset
    <3>2. Cardinality(all) = Cardinality(V)
      BY <1>2, <2>1, <3>1
    <3>3. all = V
      BY <3>1, <3>2, FS_Subset
    <3> HIDE DEF all
    <3>4. Ahead(all, steps) \subseteq V
      BY DEF Ahead
    <3> QED BY <3>3, <3>4
  <2> QED BY <1>6, <2>1
<1>8. \A s \in steps : s[1] \in all => s[2] \in all
  BY <1>7 DEF Ahead
<1>9. all \subseteq V
  BY <1>1, <1>2
<1> QED BY <1>8, <1>9 DEF r

-----------------------------------------------------------------------------
(* Sums.  SumFunction adds the values of a function in the order in which  *)
(* CHOOSE takes elements from its domain; over numbers the order is no     *)
(* matter.                                                                 *)

\* g sums v over each subset of D, from the element that CHOOSE takes first.
First(s) == CHOOSE x \in s : TRUE
Sums(g, v, D) ==
  g = [s \in SUBSET D |-> IF s = {} THEN 0 ELSE v[First(s)] + g[s \ {First(s)}]]

LEMMA FirstIn == ASSUME NEW s, s # {} PROVE First(s) \in s
BY DEF First

\* Induction over the size of sets.
LEMMA SetInduction ==
  ASSUME NEW D, IsFiniteSet(D), NEW P,
         \A s \in SUBSET D : (\A t \in SUBSET D : Cardinality(t) < Cardinality(s) => t \in P) => s \in P
  PROVE  SUBSET D \subseteq P
<1> DEFINE S == {n \in Nat : \A s \in SUBSET D : Cardinality(s) < n => s \in P}
<1>1. \A s \in SUBSET D : Cardinality(s) \in Nat
  BY FS_Subset, FS_CardinalityType
<1>2. 0 \in S
  BY <1>1
<1>3. ASSUME NEW n \in Nat, n \in S PROVE n + 1 \in S
  <2> SUFFICES ASSUME NEW s \in SUBSET D, Cardinality(s) < n + 1 PROVE s \in P
    OBVIOUS
  <2>1. \A t \in SUBSET D : Cardinality(t) < Cardinality(s) => t \in P
    BY <1>1, <1>3
  <2> QED BY <2>1
<1> HIDE DEF S
<1>4. Nat \subseteq S
  BY <1>2, <1>3, Induction
<1>5. ASSUME NEW s \in SUBSET D PROVE s \in P
  <2>1. Cardinality(s) + 1 \in S /\ Cardinality(s) < Cardinality(s) + 1
    BY <1>1, <1>4
  <2> QED BY <2>1 DEF S
<1> QED BY <1>5

LEMMA Smaller ==
  ASSUME NEW D, IsFiniteSet(D), NEW s \in SUBSET D, NEW x \in s
  PROVE  /\ s \ {x} \in SUBSET D
         /\ Cardinality(s) \in Nat /\ Cardinality(s \ {x}) \in Nat
         /\ Cardinality(s \ {x}) = Cardinality(s) - 1
         /\ Cardinality(s \ {x}) < Cardinality(s)
<1>1. IsFiniteSet(s)
  BY FS_Subset
<1>2. Cardinality(s) \in Nat /\ Cardinality(s \ {x}) \in Nat
  BY <1>1, FS_RemoveElement, FS_CardinalityType
<1>3. Cardinality(s \ {x}) = Cardinality(s) - 1
  BY <1>1, FS_RemoveElement
<1> QED BY <1>2, <1>3

\* There is such a g.
LEMMA SumsExist ==
  ASSUME NEW D, IsFiniteSet(D), NEW v
  PROVE  \E g : Sums(g, v, D)
<1> DEFINE Next(g) == [s \in SUBSET D |-> IF s = {} THEN 0 ELSE v[First(s)] + g[s \ {First(s)}]]
           UpTo(g, n) == \A s \in SUBSET D : Cardinality(s) < n => g[s] = Next(g)[s]
           S == {n \in Nat : \E g : UpTo(g, n)}
<1>1. \A s \in SUBSET D : Cardinality(s) \in Nat
  BY FS_Subset, FS_CardinalityType
<1>2. 0 \in S
  <2>1. UpTo(<<>>, 0)
    BY <1>1
  <2> QED BY <2>1
<1>3. ASSUME NEW n \in Nat, n \in S PROVE n + 1 \in S
  <2>1. PICK g : UpTo(g, n)
    BY <1>3
  <2>2. ASSUME NEW s \in SUBSET D, Cardinality(s) < n + 1
        PROVE  Next(g)[s] = Next(Next(g))[s]
    <3>1. CASE s = {}
      BY <3>1
    <3>2. CASE s # {}
      <4>1. First(s) \in s
        BY <3>2, FirstIn
      <4>2. s \ {First(s)} \in SUBSET D /\ Cardinality(s \ {First(s)}) < n
        BY <2>2, <4>1, <1>1, Smaller
      <4>3. g[s \ {First(s)}] = Next(g)[s \ {First(s)}]
        BY <2>1, <4>2
      <4> QED BY <3>2, <4>3
    <3> QED BY <3>1, <3>2
  <2> HIDE DEF Next
  <2>3. UpTo(Next(g), n + 1)
    BY <2>2
  <2>4. \E h : UpTo(h, n + 1)
    BY <2>3
  <2> QED BY <2>4
<1> HIDE DEF S
<1>4. Nat \subseteq S
  BY <1>2, <1>3, Induction
<1>5. Cardinality(D) + 1 \in S
  BY <1>4, <1>1
<1>6. PICK g : UpTo(g, Cardinality(D) + 1)
  BY <1>5 DEF S
<1>7. \A s \in SUBSET D : Cardinality(s) < Cardinality(D) + 1
  BY <1>1, FS_Subset
<1>8. \A s \in SUBSET D : g[s] = Next(g)[s]
  BY <1>6, <1>7
<1>9. Next(Next(g)) = Next(g)
  <2>1. ASSUME NEW s \in SUBSET D PROVE Next(Next(g))[s] = Next(g)[s]
    <3>1. CASE s = {}
      BY <3>1
    <3>2. CASE s # {}
      <4>1. s \ {First(s)} \in SUBSET D
        OBVIOUS
      <4>2. g[s \ {First(s)}] = Next(g)[s \ {First(s)}]
        BY <1>8, <4>1
      <4> QED BY <3>2, <4>1, <4>2
    <3> QED BY <3>1, <3>2
  <2> QED BY <2>1
<1> QED BY <1>9 DEF Sums

\* Numbers are summed to numbers, in any order.
LEMMA SumsTake ==
  ASSUME NEW D, IsFiniteSet(D), NEW v, \A x \in D : v[x] \in Int, NEW g, Sums(g, v, D)
  PROVE  \A s \in SUBSET D : /\ g[s] \in Int
                             /\ s = {} => g[s] = 0
                             /\ \A x \in s : g[s] = v[x] + g[s \ {x}]
<1> DEFINE P == {s \in SUBSET D : /\ g[s] \in Int
                                  /\ s = {} => g[s] = 0
                                  /\ \A x \in s : g[s] = v[x] + g[s \ {x}]}
<1>1. ASSUME NEW s \in SUBSET D,
             \A t \in SUBSET D : Cardinality(t) < Cardinality(s) => t \in P
      PROVE  s \in P
  <2>1. CASE s = {}
    BY <2>1 DEF Sums
  <2>2. CASE s # {}
    <3> DEFINE c == First(s)
    <3>1. c \in s
      BY <2>2, FirstIn
    <3>2. g[s] = v[c] + g[s \ {c}]
      BY <2>2 DEF Sums
    <3> HIDE DEF c
    <3>3. s \ {c} \in P
      BY <1>1, <3>1, Smaller
    <3>4. g[s] \in Int
      BY <3>1, <3>2, <3>3
    <3>5. ASSUME NEW x \in s, x # c PROVE g[s] = v[x] + g[s \ {x}]
      <4>1. s \ {x} \in P
        BY <1>1, Smaller
      <4>2. x \in s \ {c} /\ c \in s \ {x}
        BY <3>1, <3>5
      <4>3. g[s \ {c}] = v[x] + g[(s \ {c}) \ {x}]
        BY <3>3, <4>2
      <4>4. g[s \ {x}] = v[c] + g[(s \ {x}) \ {c}]
        BY <4>1, <4>2
      <4>5. (s \ {c}) \ {x} = (s \ {x}) \ {c}
        OBVIOUS
      <4> DEFINE rest == (s \ {c}) \ {x}
      <4>6. (s \ {c}) \ {x} \in P
        <5>1. s \ {c} \in SUBSET D
          OBVIOUS
        <5>4. /\ Cardinality(s \ {c}) < Cardinality(s)
              /\ Cardinality(s) \in Nat /\ Cardinality(s \ {c}) \in Nat
          BY <3>1, Smaller
        <5>5. /\ (s \ {c}) \ {x} \in SUBSET D
              /\ Cardinality((s \ {c}) \ {x}) < Cardinality(s \ {c})
              /\ Cardinality((s \ {c}) \ {x}) \in Nat
          BY <4>2, <5>1, Smaller
        <5>2. /\ (s \ {c}) \ {x} \in SUBSET D
              /\ Cardinality((s \ {c}) \ {x}) < Cardinality(s \ {c})
              /\ Cardinality(s \ {c}) < Cardinality(s)
              /\ Cardinality(s) \in Nat /\ Cardinality(s \ {c}) \in Nat
              /\ Cardinality((s \ {c}) \ {x}) \in Nat
          BY <5>4, <5>5
        <5>3. Cardinality((s \ {c}) \ {x}) < Cardinality(s)
          BY <5>2
        <5> QED BY <1>1, <5>2, <5>3
      <4>7. v[x] \in Int /\ v[c] \in Int /\ g[(s \ {c}) \ {x}] \in Int
        BY <3>1, <4>6
      <4>8. g[s] = v[c] + (v[x] + g[rest]) /\ g[s \ {x}] = v[c] + g[rest]
        BY <3>2, <4>3, <4>4, <4>5
      <4> QED BY <4>7, <4>8
    <3> QED BY <2>2, <3>2, <3>4, <3>5
  <2> QED BY <2>1, <2>2
<1> HIDE DEF P
<1>2. SUBSET D \subseteq P
  BY <1>1, SetInduction
<1> QED BY <1>2 DEF P

\* The sum of v over s.
SumOver(v, s) == SumFunction([x \in s |-> v[x]])

LEMMA SumOverIs ==
  ASSUME NEW s, IsFiniteSet(s), NEW v
  PROVE  \E g : Sums(g, [x \in s |-> v[x]], s) /\ SumOver(v, s) = g[s]
<1> DEFINE w == [x \in s |-> v[x]]
           g == CHOOSE g : Sums(g, w, s)
<1>1. Sums(g, w, s)
  BY SumsExist
<1>2. SumOver(v, s) = g[s]
  BY DEF SumOver, SumFunction, SumFunctionOnSet, FoldFunctionOnSet, MapThenFoldSet, Sums, First
<1> QED BY <1>1, <1>2

LEMMA SumsAgree ==
  ASSUME NEW D, IsFiniteSet(D), NEW v, \A x \in D : v[x] \in Int, NEW g, Sums(g, v, D),
         NEW E, IsFiniteSet(E), NEW w, \A x \in E : w[x] \in Int, NEW h, Sums(h, w, E),
         E \subseteq D, \A x \in E : v[x] = w[x]
  PROVE  \A s \in SUBSET E : g[s] = h[s]
<1> DEFINE P == {s \in SUBSET E : g[s] = h[s]}
<1>1. ASSUME NEW s \in SUBSET E,
             \A t \in SUBSET E : Cardinality(t) < Cardinality(s) => t \in P
      PROVE  s \in P
  <2>1. CASE s = {}
    BY <2>1 DEF Sums
  <2>2. CASE s # {}
    <3>1. PICK x \in s : TRUE
      BY <2>2
    <3>2. s \ {x} \in P
      BY <1>1, <3>1, Smaller
    <3>3. g[s] = v[x] + g[s \ {x}]
      BY <3>1, SumsTake
    <3>4. h[s] = w[x] + h[s \ {x}]
      BY <3>1, SumsTake
    <3> QED BY <3>2, <3>3, <3>4
  <2> QED BY <2>1, <2>2
<1> HIDE DEF P
<1>2. SUBSET E \subseteq P
  BY <1>1, SetInduction
<1> QED BY <1>2 DEF P

\* A sum is a number, that of nothing is 0, and any element can be taken out of it.
LEMMA SumTake ==
  ASSUME NEW s, IsFiniteSet(s), NEW v, \A x \in s : v[x] \in Int
  PROVE  /\ SumOver(v, s) \in Int
         /\ s = {} => SumOver(v, s) = 0
         /\ \A x \in s : SumOver(v, s) = v[x] + SumOver(v, s \ {x})
<1> DEFINE w(t) == [x \in t |-> v[x]]
<1>1. PICK g : Sums(g, w(s), s) /\ SumOver(v, s) = g[s]
  BY SumOverIs
<1>2. \A x \in s : w(s)[x] = v[x] /\ w(s)[x] \in Int
  OBVIOUS
<1>3. /\ g[s] \in Int
      /\ s = {} => g[s] = 0
      /\ \A x \in s : g[s] = w(s)[x] + g[s \ {x}]
  <2> HIDE DEF w
  <2> QED BY <1>1, <1>2, SumsTake
<1>4. ASSUME NEW x \in s PROVE g[s \ {x}] = SumOver(v, s \ {x})
  <2> DEFINE t == s \ {x}
  <2>1. IsFiniteSet(t)
    BY FS_RemoveElement
  <2>2. PICK h : Sums(h, w(t), t) /\ SumOver(v, t) = h[t]
    BY <2>1, SumOverIs
  <2>3. \A y \in t : w(t)[y] = w(s)[y] /\ w(t)[y] \in Int
    OBVIOUS
  <2>4. t \subseteq s
    OBVIOUS
  <2> HIDE DEF t, w
  <2>5. \A u \in SUBSET t : g[u] = h[u]
    BY <1>1, <1>2, <2>1, <2>2, <2>3, <2>4, SumsAgree
  <2>6. g[t] = h[t]
    BY <2>5
  <2> QED BY <2>2, <2>6 DEF t
<1> QED BY <1>1, <1>2, <1>3, <1>4

LEMMA SumSame ==
  ASSUME NEW s, NEW v, NEW w, \A x \in s : v[x] = w[x]
  PROVE  SumOver(v, s) = SumOver(w, s)
<1>1. [x \in s |-> v[x]] = [x \in s |-> w[x]]
  OBVIOUS
<1> QED BY <1>1 DEF SumOver

LEMMA SumOne ==
  ASSUME NEW x, NEW v, v[x] \in Int
  PROVE  SumOver(v, {x}) = v[x]
<1>1. IsFiniteSet({x}) /\ IsFiniteSet({}) /\ {x} \ {x} = {}
  BY FS_Singleton, FS_EmptySet
<1>2. SumOver(v, {}) = 0
  BY <1>1, SumTake
<1>3. SumOver(v, {x}) = v[x] + SumOver(v, {x} \ {x})
  BY <1>1, SumTake
<1> QED BY <1>1, <1>2, <1>3

LEMMA SumUnion ==
  ASSUME NEW s, IsFiniteSet(s), NEW t, IsFiniteSet(t), s \cap t = {},
         NEW v, \A x \in s \cup t : v[x] \in Int
  PROVE  SumOver(v, s \cup t) = SumOver(v, s) + SumOver(v, t)
<1> DEFINE P == {u \in SUBSET s : SumOver(v, u \cup t) = SumOver(v, u) + SumOver(v, t)}
<1>1. ASSUME NEW u \in SUBSET s,
             \A y \in SUBSET s : Cardinality(y) < Cardinality(u) => y \in P
      PROVE  u \in P
  <2>0. IsFiniteSet(u) /\ IsFiniteSet(u \cup t) /\ SumOver(v, t) \in Int
    BY FS_Subset, FS_Union, SumTake
  <2>1. CASE u = {}
    <3>1. SumOver(v, u) = 0 /\ u \cup t = t
      BY <2>0, <2>1, SumTake
    <3> QED BY <2>0, <3>1
  <2>2. CASE u # {}
    <3>1. PICK x \in u : TRUE
      BY <2>2
    <3>2. u \ {x} \in P
      BY <1>1, <3>1, Smaller
    <3>3. SumOver(v, u) = v[x] + SumOver(v, u \ {x})
      BY <2>0, <3>1, SumTake
    <3>4. SumOver(v, u \cup t) = v[x] + SumOver(v, (u \cup t) \ {x})
      BY <2>0, <3>1, SumTake
    <3>5. (u \cup t) \ {x} = (u \ {x}) \cup t
      BY <3>1
    <3>6. v[x] \in Int /\ SumOver(v, u \ {x}) \in Int
      <4>1. IsFiniteSet(u \ {x})
        BY <2>0, FS_RemoveElement
      <4> QED BY <3>1, <4>1, SumTake
    <3>7. SumOver(v, (u \ {x}) \cup t) = SumOver(v, u \ {x}) + SumOver(v, t)
      BY <3>2
    <3>8. SumOver(v, u \cup t) = v[x] + SumOver(v, (u \ {x}) \cup t)
      BY <3>4, <3>5
    <3> HIDE DEF P
    <3>9. SumOver(v, u \cup t) = SumOver(v, u) + SumOver(v, t)
      BY <2>0, <3>3, <3>6, <3>7, <3>8
    <3> QED BY <3>9 DEF P
  <2> QED BY <2>1, <2>2
<1> HIDE DEF P
<1>2. SUBSET s \subseteq P
  BY <1>1, SetInduction
<1> QED BY <1>2 DEF P

\* The sums of disjoint parts add up to the sum of them all.
Whole(part, K) == UNION {part[k] : k \in K}

LEMMA SumParts ==
  ASSUME NEW K, IsFiniteSet(K), NEW part, NEW v,
         \A k \in K : IsFiniteSet(part[k]) /\ \A x \in part[k] : v[x] \in Int,
         \A k, l \in K : k # l => part[k] \cap part[l] = {},
         NEW w, \A k \in K : w[k] = SumOver(v, part[k])
  PROVE  SumOver(w, K) = SumOver(v, Whole(part, K))
<1> DEFINE Told(J) == Whole(part, J)
           P == {J \in SUBSET K : SumOver(w, J) = SumOver(v, Told(J))}
<1>0. ASSUME NEW J \in SUBSET K
      PROVE  IsFiniteSet(J) /\ IsFiniteSet(Told(J)) /\ \A x \in Told(J) : v[x] \in Int
  <2>1. IsFiniteSet(J)
    BY FS_Subset
  <2> DEFINE f == [k \in J |-> part[k]]
             T == {part[k] : k \in J}
  <2>2. f \in Surjection(J, T)
    BY DEF Surjection
  <2>3. IsFiniteSet(T)
    BY <2>1, <2>2, FS_Surjection
  <2>4. IsFiniteSet(UNION T)
    BY <2>3, FS_UNION
  <2> QED BY <2>1, <2>4 DEF Whole
<1>1. ASSUME NEW J \in SUBSET K,
             \A y \in SUBSET K : Cardinality(y) < Cardinality(J) => y \in P
      PROVE  J \in P
  <2>1. CASE J = {}
    <3>1. Told(J) = {}
      BY <2>1 DEF Whole
    <3> HIDE DEF Told
    <3>2. SumOver(v, Told(J)) = 0
      BY <1>0, <3>1, SumTake
    <3>3. SumOver(w, J) = 0
      BY <1>0, <2>1, SumTake
    <3> QED BY <3>2, <3>3
  <2>2. CASE J # {}
    <3>1. PICK k \in J : TRUE
      BY <2>2
    <3> DEFINE R == J \ {k}
    <3>2. R \in P
      BY <1>1, <3>1, Smaller
    <3>3. R \in SUBSET K
      OBVIOUS
    <3>4. Told(J) = part[k] \cup Told(R) /\ part[k] \cap Told(R) = {}
      BY <3>1 DEF Whole
    <3>5. IsFiniteSet(part[k]) /\ \A x \in part[k] : v[x] \in Int
      BY <3>1
    <3>6. \A l \in J : w[l] \in Int
      BY SumTake
    <3>7. IsFiniteSet(Told(R)) /\ \A x \in Told(R) : v[x] \in Int
      BY <1>0, <3>3
    <3>8. SumOver(w, J) = w[k] + SumOver(w, R)
      BY <1>0, <3>1, <3>6, SumTake
    <3> HIDE DEF Told, R
    <3>9. SumOver(v, Told(J)) = SumOver(v, part[k]) + SumOver(v, Told(R))
      BY <3>4, <3>5, <3>7, SumUnion
    <3> QED BY <3>1, <3>2, <3>8, <3>9
  <2> QED BY <2>1, <2>2
<1> HIDE DEF P
<1>2. SUBSET K \subseteq P
  BY <1>1, SetInduction
<1> QED BY <1>2 DEF P

Named(name, K) == {name[k] : k \in K}

\* Ones add up to how many they are.
LEMMA SumOfOnes ==
  ASSUME NEW s, IsFiniteSet(s), NEW one, \A x \in s : one[x] = 1
  PROVE  SumOver(one, s) = Cardinality(s)
<1> DEFINE P == {u \in SUBSET s : SumOver(one, u) = Cardinality(u)}
<1>1. ASSUME NEW u \in SUBSET s,
             \A t \in SUBSET s : Cardinality(t) < Cardinality(u) => t \in P
      PROVE  u \in P
  <2>1. IsFiniteSet(u) /\ \A x \in u : one[x] \in Int
    BY FS_Subset
  <2>2. CASE u = {}
    BY <2>1, <2>2, SumTake, FS_EmptySet
  <2>3. CASE u # {}
    <3>1. PICK x \in u : TRUE
      BY <2>3
    <3>2. /\ u \ {x} \in SUBSET s
          /\ Cardinality(u) \in Nat /\ Cardinality(u \ {x}) \in Nat
          /\ Cardinality(u \ {x}) = Cardinality(u) - 1
          /\ Cardinality(u \ {x}) < Cardinality(u)
      BY Smaller
    <3>3. u \ {x} \in P
      BY <1>1, <3>2
    <3>4. SumOver(one, u) = one[x] + SumOver(one, u \ {x})
      BY <2>1, SumTake
    <3>5. SumOver(one, u \ {x}) = Cardinality(u \ {x})
      BY <3>3
    <3>6. one[x] = 1
      OBVIOUS
    <3>7. SumOver(one, u) = Cardinality(u)
      BY <3>2, <3>4, <3>5, <3>6
    <3> QED BY <3>7
  <2> QED BY <2>2, <2>3
<1> HIDE DEF P
<1>2. SUBSET s \subseteq P
  BY <1>1, SetInduction
<1>3. s \in P
  BY <1>2
<1> QED BY <1>3 DEF P

\* Numbers that are given other names add up to the same.
LEMMA SumRenamed ==
  ASSUME NEW K, IsFiniteSet(K), NEW name, \A k, l \in K : name[k] = name[l] => k = l,
         NEW v, NEW w, \A k \in K : v[name[k]] \in Int /\ w[k] = v[name[k]]
  PROVE  SumOver(w, K) = SumOver(v, Named(name, K))
<1> DEFINE part == [k \in K |-> {name[k]}]
<1>1. \A k \in K : IsFiniteSet(part[k]) /\ \A x \in part[k] : v[x] \in Int
  BY FS_Singleton
<1>2. \A k, l \in K : k # l => part[k] \cap part[l] = {}
  OBVIOUS
<1>3. \A k \in K : w[k] = SumOver(v, part[k])
  BY SumOne
<1>4. Whole(part, K) = Named(name, K)
  BY DEF Whole, Named
<1> HIDE DEF part
<1>5. SumOver(w, K) = SumOver(v, Whole(part, K))
  BY <1>1, <1>2, <1>3, SumParts
<1> QED BY <1>4, <1>5
=============================================================================
