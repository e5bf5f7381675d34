---------------------------- MODULE RouterProofs ----------------------------
(***************************************************************************)
(* Facts about recursion, which the proofs about the arithmetic use too,   *)
(* and theorems about the router, for any names, symbols, configurations,  *)
(* epochs and widths of the counter: every route leads to a venue of the   *)
(* registry, a configuration that is accepted has been applied in full,    *)
(* and no order id is ever issued twice, across restarts.                  *)
(***************************************************************************)
EXTENDS OrderRouter, NaturalsInduction, WellFoundedInduction, SequenceTheorems,
        FiniteSetTheorems, TLAPS

-----------------------------------------------------------------------------
(* Induction over the naturals, for a set in the place of a predicate; a   *)
(* recursive function over the naturals, or over the positions of a        *)
(* sequence, is the run of its step; powers of two; division.              *)

(* A non-empty set of naturals has a least element.                        *)
LEMMA LeastNatural ==
  ASSUME NEW T \in SUBSET Nat, T # {}
  PROVE  \E x \in T : \A y \in T : x <= y
<1>1. PICK x \in T : \A y \in T : ~ (<<y, x>> \in OpToRel(<, Nat))
  BY NatLessThanWellFounded, WFMin, Zenon
<1>2. \A y \in T : ~(y < x)
  BY <1>1, Zenon DEF OpToRel
<1> QED  BY <1>2

(* Induction, for a set in the place of a predicate.                       *)
LEMMA Induction ==
  ASSUME NEW T, 0 \in T, \A n \in Nat : n \in T => n + 1 \in T
  PROVE  \A n \in Nat : n \in T
<1> SUFFICES ASSUME Nat \ T # {} PROVE FALSE
  BY Zenon
<1>1. PICK x \in Nat \ T : \A y \in Nat \ T : x <= y
  BY LeastNatural, Zenon
<1>2. x # 0 /\ x - 1 \in Nat
  <2>1. x # 0
    BY Zenon
  <2> QED  BY <2>1
<1>3. x - 1 \in T
  BY <1>1, <1>2
<1>4. x - 1 + 1 \in T
  BY <1>2, <1>3
<1> QED  BY <1>4

(* The recursion theorem, for a step that is a function of the number and  *)
(* the value before.                                                       *)
IsStep(step, D, X) == step \in [D \X X -> X]

(* f is the run of step from b, over all naturals.                         *)
IsRun(f, X, b, step) ==
    f \in [Nat -> X] /\ f[0] = b /\ \A n \in Nat : f[n + 1] = step[<<n + 1, f[n]>>]

(* The same over 0..N.                                                     *)
IsBoundedRun(f, N, X, b, step) ==
    f \in [0..N -> X] /\ f[0] = b /\ \A n \in 1..N : f[n] = step[<<n, f[n - 1]>>]

(* Every step has a run from every start.                                  *)
LEMMA Recursion ==
  ASSUME NEW X, NEW b \in X, NEW step, IsStep(step, Nat, X)
  PROVE  \E f : IsRun(f, X, b, step)
<1>0. \A n \in Nat, x \in X : step[<<n, x>>] \in X
  BY DEF IsStep
<1> DEFINE Is(g, n) == /\ g \in [0..n -> X] /\ g[0] = b
                       /\ \A i \in 0..(n - 1) : g[i + 1] = step[<<i + 1, g[i]>>]
<1>1. \A n \in Nat : \E g : Is(g, n)
  <2> DEFINE T == {n \in Nat : \E g : Is(g, n)}
  <2>1. 0 \in T
    <3>1. Is([i \in 0..0 |-> b], 0)
      OBVIOUS
    <3> QED  BY <3>1, Zenon
  <2>2. ASSUME NEW n \in Nat, n \in T PROVE n + 1 \in T
    <3>1. PICK g : Is(g, n)
      BY <2>2
    <3> DEFINE h == [i \in 0..(n + 1) |-> IF i = n + 1 THEN step[<<n + 1, g[n]>>] ELSE g[i]]
    <3>2. Is(h, n + 1)
      <4>1. h \in [0..(n + 1) -> X]
        <5>1. g[n] \in X /\ n + 1 \in Nat /\ \A i \in 0..n : g[i] \in X
          BY <3>1
        <5>2. step[<<n + 1, g[n]>>] \in X
          BY <1>0, <5>1, Zenon
        <5>3. \A i \in 0..(n + 1) : i = n + 1 \/ i \in 0..n
          OBVIOUS
        <5> QED  BY <5>1, <5>2, <5>3, Zenon
      <4>2. h[0] = b
        BY <3>1
      <4>3. ASSUME NEW i \in 0..n PROVE h[i + 1] = step[<<i + 1, h[i]>>]
        <5>1. h[i] = g[i] /\ i + 1 \in 0..(n + 1)
          OBVIOUS
        <5>2. CASE i = n
          BY <5>1, <5>2
        <5>3. CASE i # n
          <6>1. h[i + 1] = g[i + 1] /\ i \in 0..(n - 1)
            BY <5>3
          <6>2. g[i + 1] = step[<<i + 1, g[i]>>]
            BY <3>1, <6>1, Zenon
          <6> QED  BY <5>1, <6>1, <6>2, Zenon
        <5> QED  BY <5>2, <5>3
      <4> HIDE DEF h
      <4> QED  BY <4>1, <4>2, <4>3
    <3> HIDE DEF Is, h
    <3> QED  BY <3>2
  <2> HIDE DEF T, Is
  <2>3. \A n \in Nat : n \in T
    BY <2>1, <2>2, Induction, Zenon
  <2> QED  BY <2>3 DEF T
<1>2. ASSUME NEW m \in Nat, NEW n \in Nat, NEW g, NEW h, Is(g, m), Is(h, n)
      PROVE  \A i \in 0..m : i <= n => g[i] = h[i]
  <2> DEFINE T == {i \in Nat : i <= m /\ i <= n => g[i] = h[i]}
  <2>1. 0 \in T
    BY <1>2
  <2>2. ASSUME NEW i \in Nat, i \in T PROVE i + 1 \in T
    <3> SUFFICES ASSUME i + 1 <= m, i + 1 <= n PROVE g[i + 1] = h[i + 1]
      OBVIOUS
    <3>1. i \in 0..(m - 1) /\ i \in 0..(n - 1) /\ g[i] = h[i]
      BY <2>2
    <3>2. g[i + 1] = step[<<i + 1, g[i]>>] /\ h[i + 1] = step[<<i + 1, h[i]>>]
      BY <1>2, <3>1, Zenon
    <3> QED  BY <3>1, <3>2
  <2> HIDE DEF T
  <2>3. \A i \in Nat : i \in T
    BY <2>1, <2>2, Induction, Zenon
  <2> QED  BY <2>3 DEF T
<1> HIDE DEF Is
<1> DEFINE G(n) == CHOOSE g : Is(g, n)
           f    == [n \in Nat |-> G(n)[n]]
<1>3. \A n \in Nat : Is(G(n), n)
  BY <1>1, Zenon
<1> HIDE DEF G
<1>4. \A n \in Nat : G(n + 1)[n] = G(n)[n]
  <2> TAKE n \in Nat
  <2>1. n + 1 \in Nat /\ n \in 0..n /\ n <= n + 1
    OBVIOUS
  <2>2. \A i \in 0..n : i <= n + 1 => G(n)[i] = G(n + 1)[i]
    <3>1. Is(G(n), n) /\ Is(G(n + 1), n + 1)
      BY <1>3, <2>1, Zenon
    <3> DEFINE g == G(n)
               h == G(n + 1)
               m == n + 1
    <3>2. Is(g, n) /\ Is(h, m) /\ m \in Nat
      BY <2>1, <3>1
    <3> HIDE DEF g, h, m
    <3>3. \A i \in 0..n : i <= m => g[i] = h[i]
      BY <1>2, <3>2
    <3> QED  BY <3>3 DEF g, h, m
  <2> QED  BY <2>1, <2>2, Zenon
<1>5. \A n \in Nat : G(n)[n] \in X
  BY <1>3 DEF Is
<1>6. f \in [Nat -> X]
  BY <1>5
<1>7. f[0] = b
  BY <1>3 DEF Is
<1>8. \A n \in Nat : f[n + 1] = step[<<n + 1, f[n]>>]
  <2> SUFFICES ASSUME NEW n \in Nat PROVE f[n + 1] = step[<<n + 1, f[n]>>]
    BY Zenon
  <2>1. G(n + 1)[n + 1] = step[<<n + 1, G(n + 1)[n]>>]
    BY <1>3 DEF Is
  <2>2. n + 1 \in Nat
    OBVIOUS
  <2> QED  BY <1>4, <2>1, <2>2
<1> HIDE DEF f
<1>9. IsRun(f, X, b, step)
  BY <1>6, <1>7, <1>8 DEF IsRun
<1> QED  BY <1>9

(* The same up to a bound.                                                 *)
LEMMA BoundedRecursion ==
  ASSUME NEW N \in Nat, NEW X, NEW b \in X, NEW step, IsStep(step, 1..N, X)
  PROVE  \E f : IsBoundedRun(f, N, X, b, step)
<1> DEFINE all == [p \in Nat \X X |-> IF p[1] \in 1..N THEN step[p] ELSE p[2]]
<1>1. IsStep(all, Nat, X)
  BY DEF IsStep
<1>2. \A n \in 1..N, x \in X : all[<<n, x>>] = step[<<n, x>>]
  OBVIOUS
<1> HIDE DEF all
<1>3. PICK f : IsRun(f, X, b, all)
  BY <1>1, Recursion, Zenon
<1> USE DEF IsRun
<1> DEFINE g == [n \in 0..N |-> f[n]]
<1>4. g \in [0..N -> X] /\ g[0] = b
  BY <1>3
<1>5. ASSUME NEW n \in 1..N PROVE g[n] = step[<<n, g[n - 1]>>]
  <2>1. n - 1 \in Nat /\ n - 1 + 1 = n
    OBVIOUS
  <2>2. f[n] = all[<<n, f[n - 1]>>]
    BY <1>3, <2>1
  <2>3. f[n - 1] \in X
    BY <1>3, <2>1
  <2> QED  BY <1>2, <2>2, <2>3, SMTT(40)
<1> HIDE DEF g
<1>6. IsBoundedRun(g, N, X, b, step)
  BY <1>4, <1>5 DEF IsBoundedRun
<1> QED  BY <1>6

(* A function that satisfies the equations of a run is one.                *)
Follows(u, N, X, b, step) ==
    /\ u = [n \in 0..N |-> u[n]] /\ u[0] = b
    /\ \A n \in 1..N : u[n - 1] \in X => u[n] = step[<<n, u[n - 1]>>]

(* What follows a step has its values in the set of the step.              *)
LEMMA DefinedRun ==
  ASSUME NEW N \in Nat, NEW X, NEW b \in X, NEW step, IsStep(step, 1..N, X),
         NEW u, Follows(u, N, X, b, step)
  PROVE  u \in [0..N -> X]
<1> DEFINE T == {i \in Nat : i <= N => u[i] \in X}
<1>0. \A n \in 1..N, x \in X : step[<<n, x>>] \in X
  BY DEF IsStep
<1>1. 0 \in T
  BY DEF Follows
<1>2. ASSUME NEW i \in Nat, i \in T PROVE i + 1 \in T
  <2> SUFFICES ASSUME i + 1 <= N PROVE u[i + 1] \in X
    OBVIOUS
  <2>1. i + 1 \in 1..N /\ i + 1 - 1 = i /\ u[i] \in X
    BY <1>2
  <2>2. \A n \in 1..N : u[n - 1] \in X => u[n] = step[<<n, u[n - 1]>>]
    BY Zenon DEF Follows
  <2>3. u[i + 1] = step[<<i + 1, u[i]>>]
    BY <2>1, <2>2
  <2> QED  BY <1>0, <2>1, <2>3, Zenon
<1> HIDE DEF T
<1>3. \A i \in Nat : i \in T
  BY <1>1, <1>2, Induction, Zenon
<1>4. \A i \in 0..N : u[i] \in X
  BY <1>3 DEF T
<1>5. u = [n \in 0..N |-> u[n]]
  BY DEF Follows
<1> QED  BY <1>4, <1>5

-----------------------------------------------------------------------------
(* Powers of two.                                                          *)
LEMMA Pow2Def == Pow2 \in [Nat -> Nat] /\ Pow2[0] = 1 /\ \A n \in Nat : Pow2[n + 1] = 2 * Pow2[n]
<1> DEFINE step == [p \in Nat \X Nat |-> 2 * p[2]]
<1>1. IsStep(step, Nat, Nat)
  BY DEF IsStep
<1>2. \A n, x \in Nat : step[<<n, x>>] = 2 * x
  OBVIOUS
<1> HIDE DEF step
<1>3. PICK f : IsRun(f, Nat, 1, step)
  BY <1>1, Recursion, Zenon
<1>4. f \in [Nat -> Nat] /\ f[0] = 1 /\ \A n \in Nat : f[n + 1] = 2 * f[n]
  <2>1. f \in [Nat -> Nat] /\ f[0] = 1 /\ \A n \in Nat : f[n + 1] = step[<<n + 1, f[n]>>]
    BY <1>3, Zenon DEF IsRun
  <2>2. \A n \in Nat : n + 1 \in Nat /\ f[n] \in Nat
    BY <2>1
  <2>3. \A n \in Nat : step[<<n + 1, f[n]>>] = 2 * f[n]
    BY <1>2, <2>2, Zenon
  <2> QED  BY <2>1, <2>3, Zenon
<1>5. ASSUME NEW n \in Nat PROVE f[n] = IF n = 0 THEN 1 ELSE 2 * f[n - 1]
  <2>1. CASE n = 0
    BY <1>4, <2>1
  <2>2. CASE n # 0
    <3>1. n - 1 \in Nat /\ n - 1 + 1 = n
      BY <2>2
    <3>2. f[n - 1 + 1] = 2 * f[n - 1]
      BY <1>4, <3>1, Zenon
    <3> QED  BY <2>2, <3>1, <3>2
  <2> QED  BY <2>1, <2>2
<1>6. f = [n \in Nat |-> IF n = 0 THEN 1 ELSE 2 * f[n - 1]]
  <2>1. f = [n \in Nat |-> f[n]]
    BY <1>4
  <2> QED  BY <1>5, <2>1, Zenon
<1>7. Pow2 = [n \in Nat |-> IF n = 0 THEN 1 ELSE 2 * Pow2[n - 1]]
  BY <1>6, Zenon DEF Pow2
<1>8. \A n \in Nat : Pow2[n] = IF n = 0 THEN 1 ELSE 2 * Pow2[n - 1]
  BY <1>7, Zenon
<1>9. Pow2[0] = 1
  BY <1>8
<1>10. ASSUME NEW n \in Nat PROVE Pow2[n + 1] = 2 * Pow2[n]
  <2>1. n + 1 \in Nat /\ n + 1 # 0 /\ n + 1 - 1 = n
    OBVIOUS
  <2> QED  BY <1>8, <2>1
<1> DEFINE T == {n \in Nat : Pow2[n] \in Nat}
<1>11. 0 \in T
  BY <1>9
<1>12. ASSUME NEW n \in Nat, n \in T PROVE n + 1 \in T
  BY <1>10, <1>12
<1> HIDE DEF T
<1>13. \A n \in Nat : n \in T
  BY <1>11, <1>12, Induction, Zenon
<1>14. \A n \in Nat : Pow2[n] \in Nat
  BY <1>13, Zenon DEF T
<1>15. Pow2 = [n \in Nat |-> Pow2[n]]
  BY <1>7
<1>16. Pow2 \in [Nat -> Nat]
  BY <1>14, <1>15
<1> QED  BY <1>9, <1>10, <1>16, Zenon

(* Exponents add.                                                          *)
LEMMA Pow2Product ==
  ASSUME NEW m \in Nat, NEW n \in Nat
  PROVE  Pow2[m + n] = Pow2[m] * Pow2[n]
<1> DEFINE T == {k \in Nat : Pow2[m + k] = Pow2[m] * Pow2[k]}
<1>1. 0 \in T
  BY Pow2Def
<1>2. ASSUME NEW k \in Nat, k \in T PROVE k + 1 \in T
  <2>1. m + k \in Nat /\ m + (k + 1) = (m + k) + 1 /\ Pow2[m] \in Nat /\ Pow2[k] \in Nat
    BY Pow2Def
  <2>2. Pow2[m + (k + 1)] = 2 * Pow2[m + k] /\ Pow2[k + 1] = 2 * Pow2[k]
    BY <2>1, Pow2Def
  <2>3. 2 * (Pow2[m] * Pow2[k]) = Pow2[m] * (2 * Pow2[k])
    BY <2>1
  <2> QED  BY <1>2, <2>2, <2>3
<1> HIDE DEF T
<1>3. n \in T
  BY <1>1, <1>2, Induction, Zenon
<1> QED  BY <1>3 DEF T

(* A power of two is a positive natural.                                   *)
LEMMA Pow2Positive == \A n \in Nat : Pow2[n] \in Nat /\ Pow2[n] >= 1
<1> DEFINE T == {k \in Nat : Pow2[k] >= 1}
<1>1. 0 \in T
  BY Pow2Def
<1>2. ASSUME NEW k \in Nat, k \in T PROVE k + 1 \in T
  BY <1>2, Pow2Def
<1> HIDE DEF T
<1>3. \A n \in Nat : n \in T
  BY <1>1, <1>2, Induction, Zenon
<1> QED  BY <1>3, Pow2Def DEF T

(* A larger exponent gives no smaller power.                               *)
LEMMA Pow2Monotone ==
  ASSUME NEW i \in Nat, NEW n \in Nat, i <= n
  PROVE  Pow2[i] <= Pow2[n]
<1> DEFINE k == n - i
           a == Pow2[i]
           c == Pow2[k]
<1>1. k \in Nat /\ i + k = n
  OBVIOUS
<1> HIDE DEF k
<1>2. Pow2[i + k] = a * c /\ a \in Nat /\ c \in Nat /\ a >= 1 /\ c >= 1
  BY <1>1, Pow2Product, Pow2Positive, Zenon
<1> HIDE DEF a, c
<1>3. a <= a * c
  BY <1>2
<1> QED  BY <1>1, <1>2, <1>3 DEF a

-----------------------------------------------------------------------------
(* Division with remainder.                                                *)
LEMMA Division ==
  ASSUME NEW x \in Int, NEW d \in Nat, d > 0
  PROVE  /\ x \div d \in Int /\ x % d \in 0..(d - 1)
         /\ x = d * (x \div d) + (x % d)
         /\ x >= 0 => x \div d \in Nat
  OBVIOUS

-----------------------------------------------------------------------------
(* The loops of configure_router.                                          *)

(* An entry of the registry.                                               *)
Venue == [name: Names, state: VenueState, seq: Nat, routed: Nat]

(* The tables map_symbol writes: some of the symbols, each with an id.     *)
Tables == UNION {[D -> Nat] : D \in SUBSET Symbols}

(* What the loops of configure_router pass on.                             *)
Progress == [venues: Seq(Venue), routes: Tables, ok: BOOLEAN]

(* find_venue returns an id of the registry whose entry has the name, or   *)
(* kNoVenue when there is none.                                            *)
LEMMA FindVenue ==
  ASSUME NEW vs \in Seq(Venue), NEW name
  PROVE  LET id == find_venue(vs, name)
         IN  /\ id \in 0..Len(vs)
             /\ id # kNoVenue => id \in DOMAIN vs /\ vs[id].name = name
             /\ id # kNoVenue <=> \E i \in DOMAIN vs : vs[i].name = name
<1>1. DOMAIN vs = 1..Len(vs) /\ Len(vs) \in Nat
  BY LenProperties
<1>2. CASE \E i \in DOMAIN vs : vs[i].name = name
  <2> DEFINE id == CHOOSE i \in DOMAIN vs : vs[i].name = name
  <2>1. id \in DOMAIN vs /\ vs[id].name = name
    BY <1>2, Zenon
  <2>2. find_venue(vs, name) = id
    BY <1>2, Zenon DEF find_venue
  <2> HIDE DEF id
  <2> QED  BY <1>1, <1>2, <2>1, <2>2 DEF kNoVenue
<1>3. CASE ~ \E i \in DOMAIN vs : vs[i].name = name
  <2>1. find_venue(vs, name) = 0
    BY <1>3, Zenon DEF find_venue, kNoVenue
  <2> QED  BY <1>1, <1>3, <2>1 DEF kNoVenue
<1> QED  BY <1>2, <1>3, Zenon

(* Mapping one symbol changes no other.                                    *)
LEMMA TableFacts ==
  ASSUME NEW rs \in Tables, NEW y \in Symbols, NEW v \in Nat
  PROVE  /\ Mapped(rs, y, v) \in Tables
         /\ DOMAIN rs \subseteq Symbols /\ \A z \in DOMAIN rs : rs[z] \in Nat
         /\ DOMAIN Mapped(rs, y, v) = DOMAIN rs \cup {y}
         /\ \A z \in DOMAIN rs \cup {y} : Mapped(rs, y, v)[z] = IF z = y THEN v ELSE rs[z]
<1>1. PICK D \in SUBSET Symbols : rs \in [D -> Nat]
  BY DEF Tables
<1>2. DOMAIN rs = D /\ \A z \in D : rs[z] \in Nat
  BY <1>1
<1>3. /\ Mapped(rs, y, v) \in [D \cup {y} -> Nat] /\ D \cup {y} \in SUBSET Symbols
      /\ DOMAIN Mapped(rs, y, v) = D \cup {y}
      /\ \A z \in DOMAIN rs \cup {y} : Mapped(rs, y, v)[z] = IF z = y THEN v ELSE rs[z]
  BY <1>2 DEF Mapped
<1> QED  BY <1>2, <1>3, Zenon DEF Tables

-----------------------------------------------------------------------------
(* One entry of each loop.                                                 *)
LEMMA AddedFacts ==
  ASSUME NEW vs \in Seq(Venue), NEW name \in Names, NEW s \in VenueState
  PROVE  /\ Added(vs, name, s) \in Seq(Venue) /\ Len(Added(vs, name, s)) = Len(vs) + 1
         /\ \A i \in DOMAIN vs : i \in DOMAIN Added(vs, name, s) /\ Added(vs, name, s)[i] = vs[i]
         /\ Len(vs) + 1 \in DOMAIN Added(vs, name, s) /\ Added(vs, name, s)[Len(vs) + 1].name = name
<1> DEFINE v == [name |-> name, state |-> s, seq |-> 0, routed |-> 0]
<1>1. v \in Venue /\ v.name = name
  BY DEF Venue
<1> HIDE DEF v
<1>2. Added(vs, name, s) = Append(vs, v)
  BY DEF Added, v
<1> QED  BY <1>1, <1>2, AppendProperties, LenProperties

(* One venue of the file: the entries there are stay, and if it succeeds   *)
(* the name is in the registry.                                            *)
LEMMA DeclareStep ==
  ASSUME NEW r \in Progress, NEW name \in Names
  PROVE  /\ Declare(r, name) \in Progress
         /\ Declare(r, name).ok => r.ok
         /\ Declare(r, name).routes = r.routes
         /\ Len(r.venues) <= Len(Declare(r, name).venues)
         /\ \A i \in DOMAIN r.venues : /\ i \in DOMAIN Declare(r, name).venues
                                       /\ Declare(r, name).venues[i] = r.venues[i]
         /\ Declare(r, name).ok =>
              \E i \in DOMAIN Declare(r, name).venues : Declare(r, name).venues[i].name = name
<1>0. /\ r.venues \in Seq(Venue) /\ r.routes \in Tables /\ r.ok \in BOOLEAN
      /\ "Down" \in VenueState /\ Len(r.venues) \in Nat /\ DOMAIN r.venues = 1..Len(r.venues)
      /\ r = [venues |-> r.venues, routes |-> r.routes, ok |-> r.ok]
  BY LenProperties DEF Progress, VenueState
<1>1. CASE r.ok /\ MayAdd(r.venues, name)
  <2> DEFINE vs == Added(r.venues, name, "Down")
  <2>1. Declare(r, name) = [venues |-> vs, routes |-> r.routes, ok |-> r.ok]
    BY <1>0, <1>1, Zenon DEF Declare
  <2>2. /\ vs \in Seq(Venue) /\ Len(vs) = Len(r.venues) + 1
        /\ \A i \in DOMAIN r.venues : i \in DOMAIN vs /\ vs[i] = r.venues[i]
        /\ Len(r.venues) + 1 \in DOMAIN vs /\ vs[Len(r.venues) + 1].name = name
    BY <1>0, AddedFacts, Zenon
  <2> HIDE DEF vs
  <2>3. Declare(r, name) \in Progress
    BY <1>0, <2>1, <2>2 DEF Progress
  <2>4. Declare(r, name).venues = vs /\ Declare(r, name).routes = r.routes /\ Declare(r, name).ok = r.ok
    BY <2>1
  <2> QED  BY <1>0, <1>1, <2>2, <2>3, <2>4
<1>2. CASE ~(r.ok /\ MayAdd(r.venues, name))
  <2>1. Declare(r, name) = [venues |-> r.venues, routes |-> r.routes, ok |-> FALSE]
    BY <1>0, <1>2, Zenon DEF Declare
  <2> QED  BY <1>0, <2>1 DEF Progress
<1> QED  BY <1>1, <1>2

(* One state of the file: no entry appears, disappears or is renamed.      *)
LEMMA SetStateStep ==
  ASSUME NEW r \in Progress, NEW entry \in Names \X STRING
  PROVE  /\ SetState(r, entry) \in Progress
         /\ SetState(r, entry).ok => r.ok
         /\ SetState(r, entry).routes = r.routes
         /\ DOMAIN SetState(r, entry).venues = DOMAIN r.venues
         /\ \A i \in DOMAIN r.venues : SetState(r, entry).venues[i].name = r.venues[i].name
<1>0. /\ r.venues \in Seq(Venue) /\ r.routes \in Tables /\ r.ok \in BOOLEAN
      /\ Len(r.venues) \in Nat /\ DOMAIN r.venues = 1..Len(r.venues)
      /\ r = [venues |-> r.venues, routes |-> r.routes, ok |-> r.ok]
  BY LenProperties DEF Progress
<1> DEFINE id == find_venue(r.venues, entry[1])
<1>1. CASE r.ok /\ id # kNoVenue /\ entry[2] \in VenueState
  <2> DEFINE vs == [r.venues EXCEPT ![id].state = entry[2]]
  <2>1. SetState(r, entry) = [venues |-> vs, routes |-> r.routes, ok |-> r.ok]
    BY <1>0, <1>1, Zenon DEF SetState
  <2>2. id \in DOMAIN r.venues
    BY <1>0, <1>1, FindVenue, Zenon
  <2> HIDE DEF id
  <2>3. \A i \in DOMAIN r.venues : r.venues[i] \in Venue
    BY <1>0
  <2>4. vs \in [DOMAIN r.venues -> Venue] /\ \A i \in DOMAIN r.venues : vs[i].name = r.venues[i].name
    BY <1>1, <2>2, <2>3, Zenon DEF Venue
  <2> HIDE DEF vs
  <2>5. vs \in Seq(Venue) /\ DOMAIN vs = DOMAIN r.venues
    BY <1>0, <2>4, SeqDef
  <2>6. SetState(r, entry) \in Progress
    BY <1>0, <2>1, <2>5 DEF Progress
  <2> QED  BY <1>1, <2>1, <2>4, <2>5, <2>6
<1>2. CASE ~(r.ok /\ id # kNoVenue /\ entry[2] \in VenueState)
  <2>1. SetState(r, entry) = [venues |-> r.venues, routes |-> r.routes, ok |-> FALSE]
    BY <1>0, <1>2, Zenon DEF SetState
  <2> QED  BY <1>0, <2>1 DEF Progress
<1> QED  BY <1>1, <1>2

(* One route of the file: it is refused, or its symbol leads to the venue  *)
(* of that name.                                                           *)
LEMMA MapRouteStep ==
  ASSUME NEW r \in Progress, NEW entry \in Int \X Names
  PROVE  /\ MapRoute(r, entry) \in Progress
         /\ MapRoute(r, entry).ok => r.ok
         /\ MapRoute(r, entry).venues = r.venues
         /\ \/ /\ MapRoute(r, entry).ok = FALSE
               /\ MapRoute(r, entry).routes = r.routes
            \/ LET id == find_venue(r.venues, entry[2])
               IN  /\ id \in DOMAIN r.venues
                   /\ DOMAIN MapRoute(r, entry).routes = DOMAIN r.routes \cup {entry[1]}
                   /\ \A z \in DOMAIN r.routes \cup {entry[1]} :
                        MapRoute(r, entry).routes[z] = IF z = entry[1] THEN id ELSE r.routes[z]
<1>0. /\ r.venues \in Seq(Venue) /\ r.routes \in Tables /\ r.ok \in BOOLEAN
      /\ Len(r.venues) \in Nat /\ DOMAIN r.venues = 1..Len(r.venues)
      /\ r = [venues |-> r.venues, routes |-> r.routes, ok |-> r.ok]
  BY LenProperties DEF Progress
<1> DEFINE id == find_venue(r.venues, entry[2])
<1>1. CASE r.ok /\ entry[1] \in Symbols /\ id # kNoVenue
  <2> DEFINE rs == Mapped(r.routes, entry[1], id)
  <2>1. MapRoute(r, entry) = [venues |-> r.venues, routes |-> rs, ok |-> r.ok]
    BY <1>0, <1>1, Zenon DEF MapRoute
  <2>2. id \in DOMAIN r.venues
    BY <1>0, <1>1, FindVenue, Zenon
  <2>3. id \in Nat
    BY <1>0, <2>2
  <2> HIDE DEF id
  <2>4. /\ rs \in Tables /\ DOMAIN rs = DOMAIN r.routes \cup {entry[1]}
        /\ \A z \in DOMAIN r.routes \cup {entry[1]} : rs[z] = IF z = entry[1] THEN id ELSE r.routes[z]
    <3> DEFINE y  == entry[1]
               t0 == r.routes
    <3>1. y \in Symbols /\ t0 \in Tables
      BY <1>0, <1>1
    <3> HIDE DEF y, t0
    <3>2. Mapped(t0, y, id) \in Tables
      BY <2>3, <3>1, TableFacts, Zenon
    <3>3. /\ DOMAIN Mapped(t0, y, id) = DOMAIN t0 \cup {y}
          /\ \A z \in DOMAIN t0 \cup {y} : Mapped(t0, y, id)[z] = IF z = y THEN id ELSE t0[z]
      BY Zenon DEF Mapped
    <3> QED  BY <3>2, <3>3, Zenon DEF y, t0
  <2> HIDE DEF rs
  <2>5. /\ MapRoute(r, entry) \in Progress /\ MapRoute(r, entry).ok = r.ok
        /\ MapRoute(r, entry).venues = r.venues /\ MapRoute(r, entry).routes = rs
    BY <1>0, <2>1, <2>4 DEF Progress
  <2> QED  BY <1>1, <2>2, <2>4, <2>5, Zenon DEF id
<1>2. CASE ~(r.ok /\ entry[1] \in Symbols /\ id # kNoVenue)
  <2>1. MapRoute(r, entry) = [venues |-> r.venues, routes |-> r.routes, ok |-> FALSE]
    BY <1>0, <1>2, Zenon DEF MapRoute
  <2> QED  BY <1>0, <2>1 DEF Progress
<1> QED  BY <1>1, <1>2, Zenon

-----------------------------------------------------------------------------
(* The three loops, as runs of their steps.                                *)
LEMMA DeclaredRun ==
  ASSUME NEW r \in Progress, NEW names \in Seq(Names)
  PROVE  \E f \in [0..Len(names) -> Progress] :
            /\ f[0] = r /\ Declared(r, names) = f[Len(names)]
            /\ \A i \in 1..Len(names) : f[i] = Declare(f[i - 1], names[i])
<1> DEFINE N     == Len(names)
           step  == [p \in (1..N) \X Progress |-> Declare(p[2], names[p[1]])]
           Eq(g) == g = [i \in 0..N |-> IF i = 0 THEN r ELSE Declare(g[i - 1], names[i])]
           u     == CHOOSE g : Eq(g)
<1>0. N \in Nat /\ \A i \in 1..N : names[i] \in Names
  OBVIOUS
<1>1. \A i \in 1..N, x \in Progress : Declare(x, names[i]) \in Progress
  BY <1>0, DeclareStep, Zenon
<1>2. IsStep(step, 1..N, Progress)
  BY <1>1 DEF IsStep
<1>3. \A i \in 1..N, x \in Progress : step[<<i, x>>] = Declare(x, names[i])
  OBVIOUS
<1>4. Declared(r, names) = u[N]
  BY DEF Declared
<1> HIDE DEF step, N
<1>5. PICK f : IsBoundedRun(f, N, Progress, r, step)
  BY <1>0, <1>2, BoundedRecursion, Zenon
<1>6. f \in [0..N -> Progress] /\ f[0] = r /\ \A i \in 1..N : f[i] = Declare(f[i - 1], names[i])
  <2>1. f \in [0..N -> Progress] /\ f[0] = r /\ \A i \in 1..N : f[i] = step[<<i, f[i - 1]>>]
    BY <1>5, Zenon DEF IsBoundedRun
  <2>2. \A i \in 1..N : i - 1 \in 0..N
    BY <1>0
  <2> QED  BY <1>3, <2>1, <2>2, Zenon
<1>7. Eq(f)
  <2>1. \A i \in 0..N : i = 0 \/ i \in 1..N
    BY <1>0
  <2>2. f = [i \in 0..N |-> f[i]]
    BY <1>6
  <2>3. \A i \in 0..N : f[i] = IF i = 0 THEN r ELSE Declare(f[i - 1], names[i])
    BY <1>6, <2>1, Zenon
  <2> QED  BY <2>2, <2>3, Zenon
<1>8. Eq(u)
  BY <1>7, Zenon
<1> HIDE DEF u
<1>9. u[0] = r /\ \A i \in 1..N : u[i] = Declare(u[i - 1], names[i])
  <2>1. 0 \in 0..N /\ \A i \in 1..N : i # 0 /\ i \in 0..N
    BY <1>0
  <2> QED  BY <1>8, <2>1, Zenon
<1> DEFINE T == {i \in Nat : i <= N => u[i] \in Progress}
<1>10. 0 \in T
  BY <1>9
<1>11. ASSUME NEW i \in Nat, i \in T PROVE i + 1 \in T
  <2> SUFFICES ASSUME i + 1 <= N PROVE u[i + 1] \in Progress
    OBVIOUS
  <2>1. i + 1 \in 1..N /\ i + 1 - 1 = i /\ u[i] \in Progress
    BY <1>0, <1>11
  <2> QED  BY <1>1, <1>9, <2>1
<1> HIDE DEF T
<1>12. \A i \in Nat : i \in T
  BY <1>10, <1>11, Induction, Zenon
<1>13. \A i \in 0..N : u[i] \in Progress
  BY <1>0, <1>12 DEF T
<1>14. u \in [0..N -> Progress]
  BY <1>8, <1>13
<1> HIDE DEF Eq
<1> QED  BY <1>4, <1>9, <1>14, Zenon DEF N

(* The loop over the states is the run of its body.                        *)
LEMMA StatedRun ==
  ASSUME NEW r \in Progress, NEW entries \in Seq(Names \X STRING)
  PROVE  \E f \in [0..Len(entries) -> Progress] :
            /\ f[0] = r /\ Stated(r, entries) = f[Len(entries)]
            /\ \A i \in 1..Len(entries) : f[i] = SetState(f[i - 1], entries[i])
<1> DEFINE N     == Len(entries)
           step  == [p \in (1..N) \X Progress |-> SetState(p[2], entries[p[1]])]
           Eq(g) == g = [i \in 0..N |-> IF i = 0 THEN r ELSE SetState(g[i - 1], entries[i])]
           u     == CHOOSE g : Eq(g)
<1>0. N \in Nat /\ \A i \in 1..N : entries[i] \in Names \X STRING
  OBVIOUS
<1>1. \A i \in 1..N, x \in Progress : SetState(x, entries[i]) \in Progress
  BY <1>0, SetStateStep, Zenon
<1>2. IsStep(step, 1..N, Progress)
  BY <1>1 DEF IsStep
<1>3. \A i \in 1..N, x \in Progress : step[<<i, x>>] = SetState(x, entries[i])
  OBVIOUS
<1>4. Stated(r, entries) = u[N]
  BY DEF Stated
<1> HIDE DEF step, N
<1>5. PICK f : IsBoundedRun(f, N, Progress, r, step)
  BY <1>0, <1>2, BoundedRecursion, Zenon
<1>6. f \in [0..N -> Progress] /\ f[0] = r /\ \A i \in 1..N : f[i] = SetState(f[i - 1], entries[i])
  <2>1. f \in [0..N -> Progress] /\ f[0] = r /\ \A i \in 1..N : f[i] = step[<<i, f[i - 1]>>]
    BY <1>5, Zenon DEF IsBoundedRun
  <2>2. \A i \in 1..N : i - 1 \in 0..N
    BY <1>0
  <2> QED  BY <1>3, <2>1, <2>2, Zenon
<1>7. Eq(f)
  <2>1. \A i \in 0..N : i = 0 \/ i \in 1..N
    BY <1>0
  <2>2. f = [i \in 0..N |-> f[i]]
    BY <1>6
  <2>3. \A i \in 0..N : f[i] = IF i = 0 THEN r ELSE SetState(f[i - 1], entries[i])
    BY <1>6, <2>1, Zenon
  <2> QED  BY <2>2, <2>3, Zenon
<1>8. Eq(u)
  BY <1>7, Zenon
<1> HIDE DEF u
<1>9. u[0] = r /\ \A i \in 1..N : u[i] = SetState(u[i - 1], entries[i])
  <2>1. 0 \in 0..N /\ \A i \in 1..N : i # 0 /\ i \in 0..N
    BY <1>0
  <2> QED  BY <1>8, <2>1, Zenon
<1> DEFINE T == {i \in Nat : i <= N => u[i] \in Progress}
<1>10. 0 \in T
  BY <1>9
<1>11. ASSUME NEW i \in Nat, i \in T PROVE i + 1 \in T
  <2> SUFFICES ASSUME i + 1 <= N PROVE u[i + 1] \in Progress
    OBVIOUS
  <2>1. i + 1 \in 1..N /\ i + 1 - 1 = i /\ u[i] \in Progress
    BY <1>0, <1>11
  <2> QED  BY <1>1, <1>9, <2>1
<1> HIDE DEF T
<1>12. \A i \in Nat : i \in T
  BY <1>10, <1>11, Induction, Zenon
<1>13. \A i \in 0..N : u[i] \in Progress
  BY <1>0, <1>12 DEF T
<1>14. u \in [0..N -> Progress]
  BY <1>8, <1>13
<1> HIDE DEF Eq
<1> QED  BY <1>4, <1>9, <1>14, Zenon DEF N

(* The loop over the routes is the run of its body.                        *)
LEMMA RoutedRun ==
  ASSUME NEW r \in Progress, NEW entries \in Seq(Int \X Names)
  PROVE  \E f \in [0..Len(entries) -> Progress] :
            /\ f[0] = r /\ Routed(r, entries) = f[Len(entries)]
            /\ \A i \in 1..Len(entries) : f[i] = MapRoute(f[i - 1], entries[i])
<1> DEFINE N     == Len(entries)
           step  == [p \in (1..N) \X Progress |-> MapRoute(p[2], entries[p[1]])]
           Eq(g) == g = [i \in 0..N |-> IF i = 0 THEN r ELSE MapRoute(g[i - 1], entries[i])]
           u     == CHOOSE g : Eq(g)
<1>0. N \in Nat /\ \A i \in 1..N : entries[i] \in Int \X Names
  OBVIOUS
<1>1. \A i \in 1..N, x \in Progress : MapRoute(x, entries[i]) \in Progress
  BY <1>0, MapRouteStep, Zenon
<1>2. IsStep(step, 1..N, Progress)
  BY <1>1 DEF IsStep
<1>3. \A i \in 1..N, x \in Progress : step[<<i, x>>] = MapRoute(x, entries[i])
  OBVIOUS
<1>4. Routed(r, entries) = u[N]
  BY DEF Routed
<1> HIDE DEF step, N
<1>5. PICK f : IsBoundedRun(f, N, Progress, r, step)
  BY <1>0, <1>2, BoundedRecursion, Zenon
<1>6. f \in [0..N -> Progress] /\ f[0] = r /\ \A i \in 1..N : f[i] = MapRoute(f[i - 1], entries[i])
  <2>1. f \in [0..N -> Progress] /\ f[0] = r /\ \A i \in 1..N : f[i] = step[<<i, f[i - 1]>>]
    BY <1>5, Zenon DEF IsBoundedRun
  <2>2. \A i \in 1..N : i - 1 \in 0..N
    BY <1>0
  <2> QED  BY <1>3, <2>1, <2>2, Zenon
<1>7. Eq(f)
  <2>1. \A i \in 0..N : i = 0 \/ i \in 1..N
    BY <1>0
  <2>2. f = [i \in 0..N |-> f[i]]
    BY <1>6
  <2>3. \A i \in 0..N : f[i] = IF i = 0 THEN r ELSE MapRoute(f[i - 1], entries[i])
    BY <1>6, <2>1, Zenon
  <2> QED  BY <2>2, <2>3, Zenon
<1>8. Eq(u)
  BY <1>7, Zenon
<1> HIDE DEF u
<1>9. u[0] = r /\ \A i \in 1..N : u[i] = MapRoute(u[i - 1], entries[i])
  <2>1. 0 \in 0..N /\ \A i \in 1..N : i # 0 /\ i \in 0..N
    BY <1>0
  <2> QED  BY <1>8, <2>1, Zenon
<1> DEFINE T == {i \in Nat : i <= N => u[i] \in Progress}
<1>10. 0 \in T
  BY <1>9
<1>11. ASSUME NEW i \in Nat, i \in T PROVE i + 1 \in T
  <2> SUFFICES ASSUME i + 1 <= N PROVE u[i + 1] \in Progress
    OBVIOUS
  <2>1. i + 1 \in 1..N /\ i + 1 - 1 = i /\ u[i] \in Progress
    BY <1>0, <1>11
  <2> QED  BY <1>1, <1>9, <2>1
<1> HIDE DEF T
<1>12. \A i \in Nat : i \in T
  BY <1>10, <1>11, Induction, Zenon
<1>13. \A i \in 0..N : u[i] \in Progress
  BY <1>0, <1>12 DEF T
<1>14. u \in [0..N -> Progress]
  BY <1>8, <1>13
<1> HIDE DEF Eq
<1> QED  BY <1>4, <1>9, <1>14, Zenon DEF N

-----------------------------------------------------------------------------
(* Every route of the table leads to a venue of the registry.              *)
Leads(vs, rs) == \A z \in DOMAIN rs : rs[z] \in DOMAIN vs

(* The registry has a venue of that name.                                  *)
Named(vs, name) == \E i \in DOMAIN vs : vs[i].name = name

(* After the loop over the venues every one of them is in the registry.    *)
LEMMA DeclaredFacts ==
  ASSUME NEW r \in Progress, Leads(r.venues, r.routes), NEW names \in Seq(Names)
  PROVE  LET d == Declared(r, names)
         IN  /\ d \in Progress /\ Leads(d.venues, d.routes)
             /\ d.ok => \A i \in DOMAIN names : Named(d.venues, names[i])
<1>1. PICK f \in [0..Len(names) -> Progress] :
            /\ f[0] = r /\ Declared(r, names) = f[Len(names)]
            /\ \A i \in 1..Len(names) : f[i] = Declare(f[i - 1], names[i])
  BY DeclaredRun
<1> DEFINE N == Len(names)
           Good(i) == /\ Leads(f[i].venues, f[i].routes)
                      /\ f[i].ok => \A j \in 1..i : Named(f[i].venues, names[j])
           T == {i \in Nat : i <= N => Good(i)}
<1>2. N \in Nat /\ DOMAIN names = 1..N /\ \A i \in 1..N : names[i] \in Names
  OBVIOUS
<1>3. 0 \in T
  BY <1>1
<1>4. ASSUME NEW i \in Nat, i \in T PROVE i + 1 \in T
  <2> SUFFICES ASSUME i + 1 <= N PROVE Good(i + 1)
    OBVIOUS
  <2>1. i \in 0..N /\ i + 1 \in 1..N /\ i + 1 - 1 = i /\ Good(i)
    BY <1>2, <1>4
  <2>2. f[i] \in Progress /\ f[i + 1] = Declare(f[i], names[i + 1]) /\ names[i + 1] \in Names
    BY <1>1, <1>2, <2>1
  <2>3. /\ f[i + 1].ok => f[i].ok
        /\ f[i + 1].routes = f[i].routes
        /\ \A k \in DOMAIN f[i].venues : k \in DOMAIN f[i + 1].venues /\ f[i + 1].venues[k] = f[i].venues[k]
        /\ f[i + 1].ok => Named(f[i + 1].venues, names[i + 1])
    <3> DEFINE x    == f[i]
               name == names[i + 1]
    <3>1. x \in Progress /\ name \in Names /\ f[i + 1] = Declare(x, name)
      BY <2>2
    <3> HIDE DEF x, name
    <3>2. /\ Declare(x, name).ok => x.ok
          /\ Declare(x, name).routes = x.routes
          /\ \A k \in DOMAIN x.venues : /\ k \in DOMAIN Declare(x, name).venues
                                       /\ Declare(x, name).venues[k] = x.venues[k]
          /\ Declare(x, name).ok => Named(Declare(x, name).venues, name)
      BY <3>1, DeclareStep, Zenon DEF Named
    <3> QED  BY <3>1, <3>2, Zenon DEF x, name
  <2>4. Leads(f[i + 1].venues, f[i + 1].routes)
    BY <2>1, <2>3, Zenon DEF Leads
  <2>5. ASSUME f[i + 1].ok, NEW j \in 1..(i + 1) PROVE Named(f[i + 1].venues, names[j])
    <3>1. j = i + 1 \/ j \in 1..i
      OBVIOUS
    <3> QED  BY <2>1, <2>3, <2>5, <3>1, Zenon DEF Named
  <2> QED  BY <2>4, <2>5
<1> HIDE DEF T
<1>5. N \in T
  BY <1>2, <1>3, <1>4, Induction, Zenon
<1>6. Good(N) /\ f[N] \in Progress
  BY <1>1, <1>2, <1>5 DEF T
<1> QED  BY <1>1, <1>2, <1>6, Zenon

(* The loop over the states leaves names and routes alone.                 *)
LEMMA StatedFacts ==
  ASSUME NEW r \in Progress, NEW entries \in Seq(Names \X STRING)
  PROVE  LET d == Stated(r, entries)
         IN  /\ d \in Progress /\ (d.ok => r.ok) /\ d.routes = r.routes
             /\ DOMAIN d.venues = DOMAIN r.venues
             /\ \A i \in DOMAIN r.venues : d.venues[i].name = r.venues[i].name
<1>1. PICK f \in [0..Len(entries) -> Progress] :
            /\ f[0] = r /\ Stated(r, entries) = f[Len(entries)]
            /\ \A i \in 1..Len(entries) : f[i] = SetState(f[i - 1], entries[i])
  BY StatedRun
<1> DEFINE N == Len(entries)
           Good(i) == /\ f[i].ok => r.ok
                      /\ f[i].routes = r.routes /\ DOMAIN f[i].venues = DOMAIN r.venues
                      /\ \A j \in DOMAIN r.venues : f[i].venues[j].name = r.venues[j].name
           T == {i \in Nat : i <= N => Good(i)}
<1>2. N \in Nat /\ DOMAIN entries = 1..N /\ \A i \in 1..N : entries[i] \in Names \X STRING
  OBVIOUS
<1>3. 0 \in T
  BY <1>1
<1>4. ASSUME NEW i \in Nat, i \in T PROVE i + 1 \in T
  <2> SUFFICES ASSUME i + 1 <= N PROVE Good(i + 1)
    OBVIOUS
  <2>0. i \in 0..N /\ i + 1 \in 1..N /\ i + 1 - 1 = i /\ i <= N
    BY <1>2
  <2>1. Good(i)
    BY <1>4, <2>0, Zenon
  <2>2. f[i] \in Progress /\ f[i + 1] = SetState(f[i], entries[i + 1]) /\ entries[i + 1] \in Names \X STRING
    <3>1. f[i] \in Progress
      BY <1>1, <2>0
    <3>2. entries[i + 1] \in Names \X STRING
      BY <1>2, <2>0
    <3>3. \A j \in 1..N : f[j] = SetState(f[j - 1], entries[j])
      BY <1>1
    <3> HIDE DEF N
    <3>4. f[i + 1] = SetState(f[i + 1 - 1], entries[i + 1])
      BY <2>0, <3>3
    <3> QED  BY <2>0, <3>1, <3>2, <3>4, Zenon
  <2>3. /\ f[i + 1].ok => f[i].ok
        /\ f[i + 1].routes = f[i].routes /\ DOMAIN f[i + 1].venues = DOMAIN f[i].venues
        /\ \A k \in DOMAIN f[i].venues : f[i + 1].venues[k].name = f[i].venues[k].name
    <3> DEFINE x == f[i]
               e == entries[i + 1]
    <3>1. x \in Progress /\ e \in Names \X STRING /\ f[i + 1] = SetState(x, e)
      BY <2>2
    <3> HIDE DEF x, e
    <3>2. /\ SetState(x, e).ok => x.ok
          /\ SetState(x, e).routes = x.routes /\ DOMAIN SetState(x, e).venues = DOMAIN x.venues
          /\ \A k \in DOMAIN x.venues : SetState(x, e).venues[k].name = x.venues[k].name
      BY <3>1, SetStateStep, Zenon
    <3> QED  BY <3>1, <3>2, Zenon DEF x, e
  <2> QED  BY <2>1, <2>3, Zenon
<1> HIDE DEF T
<1>5. N \in T
  BY <1>2, <1>3, <1>4, Induction, Zenon
<1>6. Good(N) /\ f[N] \in Progress
  BY <1>1, <1>2, <1>5 DEF T
<1> QED  BY <1>1, <1>6, Zenon

(* After the loop over the routes every symbol of the file leads to the    *)
(* venue an entry of the file gives it.                                    *)
LEMMA RoutedFacts ==
  ASSUME NEW r \in Progress, Leads(r.venues, r.routes), NEW entries \in Seq(Int \X Names)
  PROVE  LET d == Routed(r, entries)
         IN  /\ d \in Progress /\ (d.ok => r.ok) /\ d.venues = r.venues /\ Leads(d.venues, d.routes)
             /\ d.ok =>
                  \A i \in DOMAIN entries :
                     /\ entries[i][1] \in DOMAIN d.routes
                     /\ \E j \in DOMAIN entries :
                          /\ entries[j][1] = entries[i][1]
                          /\ d.routes[entries[i][1]] = find_venue(d.venues, entries[j][2])
<1>1. PICK f \in [0..Len(entries) -> Progress] :
            /\ f[0] = r /\ Routed(r, entries) = f[Len(entries)]
            /\ \A i \in 1..Len(entries) : f[i] = MapRoute(f[i - 1], entries[i])
  BY RoutedRun
<1> DEFINE N == Len(entries)
           Set(i, j) == /\ entries[j][1] \in DOMAIN f[i].routes
                        /\ \E k \in 1..i : /\ entries[k][1] = entries[j][1]
                                          /\ f[i].routes[entries[j][1]] = find_venue(r.venues, entries[k][2])
           Good(i) == /\ f[i].ok => r.ok
                      /\ f[i].venues = r.venues /\ Leads(r.venues, f[i].routes)
                      /\ f[i].ok => \A j \in 1..i : Set(i, j)
           T == {i \in Nat : i <= N => Good(i)}
<1>2. N \in Nat /\ DOMAIN entries = 1..N /\ \A i \in 1..N : entries[i] \in Int \X Names
  OBVIOUS
<1>3. 0 \in T
  BY <1>1
<1>4. ASSUME NEW i \in Nat, i \in T PROVE i + 1 \in T
  <2> SUFFICES ASSUME i + 1 <= N PROVE Good(i + 1)
    OBVIOUS
  <2>0. i \in 0..N /\ i + 1 \in 1..N /\ i + 1 - 1 = i /\ i <= N
    BY <1>2
  <2>1. Good(i)
    BY <1>4, <2>0, Zenon
  <2>2. f[i] \in Progress /\ f[i + 1] = MapRoute(f[i], entries[i + 1]) /\ entries[i + 1] \in Int \X Names
    <3>1. f[i] \in Progress
      BY <1>1, <2>0, Zenon
    <3>2. entries[i + 1] \in Int \X Names
      BY <1>2, <2>0
    <3>3. \A j \in 1..N : f[j] = MapRoute(f[j - 1], entries[j])
      BY <1>1
    <3> HIDE DEF N
    <3>4. f[i + 1] = MapRoute(f[i + 1 - 1], entries[i + 1])
      BY <2>0, <3>3
    <3> QED  BY <2>0, <3>1, <3>2, <3>4, Zenon
  <2> DEFINE key == entries[i + 1][1]
             id  == find_venue(r.venues, entries[i + 1][2])
  <2>3. /\ f[i + 1].ok => f[i].ok
        /\ f[i + 1].venues = r.venues
        /\ \/ f[i + 1].ok = FALSE /\ f[i + 1].routes = f[i].routes
           \/ /\ id \in DOMAIN r.venues
              /\ DOMAIN f[i + 1].routes = DOMAIN f[i].routes \cup {key}
              /\ \A z \in DOMAIN f[i].routes \cup {key} :
                    f[i + 1].routes[z] = IF z = key THEN id ELSE f[i].routes[z]
    <3> DEFINE x == f[i]
               e == entries[i + 1]
    <3>1. x \in Progress /\ e \in Int \X Names /\ f[i + 1] = MapRoute(x, e) /\ x.venues = r.venues
      BY <2>1, <2>2, Zenon
    <3> HIDE DEF x, e
    <3>2. /\ MapRoute(x, e).ok => x.ok
          /\ MapRoute(x, e).venues = x.venues
          /\ \/ MapRoute(x, e).ok = FALSE /\ MapRoute(x, e).routes = x.routes
             \/ /\ find_venue(x.venues, e[2]) \in DOMAIN x.venues
                /\ DOMAIN MapRoute(x, e).routes = DOMAIN x.routes \cup {e[1]}
                /\ \A z \in DOMAIN x.routes \cup {e[1]} :
                      MapRoute(x, e).routes[z] = IF z = e[1] THEN find_venue(x.venues, e[2]) ELSE x.routes[z]
      BY <3>1, MapRouteStep, Zenon
    <3> QED  BY <3>1, <3>2, Zenon DEF x, e
  <2>4. CASE f[i + 1].ok = FALSE /\ f[i + 1].routes = f[i].routes
    BY <2>1, <2>3, <2>4
  <2>5. CASE /\ id \in DOMAIN r.venues
             /\ DOMAIN f[i + 1].routes = DOMAIN f[i].routes \cup {key}
             /\ \A z \in DOMAIN f[i].routes \cup {key} :
                   f[i + 1].routes[z] = IF z = key THEN id ELSE f[i].routes[z]
    <3> HIDE DEF key, id
    <3>1. Leads(r.venues, f[i + 1].routes)
      BY <2>1, <2>5, Zenon DEF Leads
    <3>2. ASSUME f[i + 1].ok, NEW j \in 1..(i + 1) PROVE Set(i + 1, j)
      <4>1. i + 1 \in 1..(i + 1) /\ \A k \in 1..i : k \in 1..(i + 1)
        OBVIOUS
      <4>2. CASE entries[j][1] = key
        BY <2>5, <4>1, <4>2, Zenon DEF key, id
      <4>3. CASE entries[j][1] # key
        <5>1. j \in 1..i
          BY <4>3 DEF key
        <5>2. Set(i, j)
          BY <2>1, <2>3, <3>2, <5>1, Zenon
        <5> QED  BY <2>5, <4>1, <4>3, <5>2, Zenon
      <4> QED  BY <4>2, <4>3
    <3> QED  BY <2>1, <2>3, <3>1, <3>2, Zenon
  <2> QED  BY <2>3, <2>4, <2>5, Zenon
<1> HIDE DEF T
<1>5. N \in T
  BY <1>2, <1>3, <1>4, Induction, Zenon
<1>6. Good(N) /\ f[N] \in Progress
  BY <1>1, <1>2, <1>5 DEF T
<1>7. /\ Routed(r, entries) = f[N] /\ DOMAIN entries = 1..N
  BY <1>1, <1>2
<1>8. \A i \in 1..N : f[N].ok => Set(N, i)
  BY <1>6, Zenon
<1>9. f[N].venues = r.venues /\ (f[N].ok => r.ok) /\ Leads(f[N].venues, f[N].routes)
  BY <1>6, Zenon
<1> DEFINE d == Routed(r, entries)
<1>10. ASSUME d.ok, NEW i \in DOMAIN entries
       PROVE  /\ entries[i][1] \in DOMAIN d.routes
              /\ \E j \in DOMAIN entries :
                   /\ entries[j][1] = entries[i][1]
                   /\ d.routes[entries[i][1]] = find_venue(d.venues, entries[j][2])
  <2>1. Set(N, i) /\ d = f[N] /\ d.venues = r.venues
    BY <1>7, <1>8, <1>9, <1>10
  <2> HIDE DEF N, d
  <2> QED  BY <1>7, <2>1
<1>11. d \in Progress /\ (d.ok => r.ok) /\ d.venues = r.venues /\ Leads(d.venues, d.routes)
  BY <1>6, <1>7, <1>9
<1> HIDE DEF d
<1> QED  BY <1>10, <1>11 DEF d

-----------------------------------------------------------------------------
(* The registry and the routes.                                            *)

(* The inductive invariant of the registry and the routes.                 *)
TablesHold ==
    /\ venues \in Seq(Venue) /\ routes \in Tables /\ Leads(venues, routes)

(* configure_router keeps the tables in order, and when it succeeds, it    *)
(* has done all the file asks for.                                         *)
LEMMA ConfiguredFacts ==
  ASSUME TablesHold, NEW cfg \in Configs
  PROVE  LET d == Configured(cfg)
         IN  /\ d.venues \in Seq(Venue) /\ d.routes \in Tables /\ Leads(d.venues, d.routes)
             /\ d.ok =>
                  /\ \A i \in DOMAIN cfg.venues : Named(d.venues, cfg.venues[i])
                  /\ \A i \in DOMAIN cfg.routes :
                       /\ cfg.routes[i][1] \in DOMAIN d.routes
                       /\ \E j \in DOMAIN cfg.routes :
                            /\ cfg.routes[j][1] = cfg.routes[i][1]
                            /\ d.routes[cfg.routes[i][1]] = find_venue(d.venues, cfg.routes[j][2])
<1> DEFINE r0 == [venues |-> venues, routes |-> routes, ok |-> TRUE]
           vs == cfg.venues
           ss == cfg.states
           rs == cfg.routes
           r1 == Declared(r0, vs)
           r2 == Stated(r1, ss)
           r3 == Routed(r2, rs)
<1>0. vs \in Seq(Names) /\ ss \in Seq(Names \X STRING) /\ rs \in Seq(Int \X Names)
  BY ConfigsAssumption
<1>1. r0 \in Progress /\ Leads(r0.venues, r0.routes)
  BY DEF TablesHold, Progress
<1>2. Configured(cfg) = r3
  BY DEF Configured
<1> HIDE DEF r0, vs, ss, rs
<1>3. /\ r1 \in Progress /\ Leads(r1.venues, r1.routes)
      /\ r1.ok => \A i \in DOMAIN vs : Named(r1.venues, vs[i])
  BY <1>0, <1>1, DeclaredFacts, Zenon
<1> HIDE DEF r1
<1>4. /\ r2 \in Progress /\ (r2.ok => r1.ok) /\ r2.routes = r1.routes
      /\ DOMAIN r2.venues = DOMAIN r1.venues
      /\ \A i \in DOMAIN r1.venues : r2.venues[i].name = r1.venues[i].name
  BY <1>0, <1>3, StatedFacts, Zenon
<1> HIDE DEF r2
<1>5. Leads(r2.venues, r2.routes)
  BY <1>3, <1>4, Zenon DEF Leads
<1>6. /\ r3 \in Progress /\ (r3.ok => r2.ok) /\ r3.venues = r2.venues /\ Leads(r3.venues, r3.routes)
      /\ r3.ok =>
           \A i \in DOMAIN rs :
              /\ rs[i][1] \in DOMAIN r3.routes
              /\ \E j \in DOMAIN rs : /\ rs[j][1] = rs[i][1]
                                      /\ r3.routes[rs[i][1]] = find_venue(r3.venues, rs[j][2])
  BY <1>0, <1>4, <1>5, RoutedFacts, Zenon
<1> HIDE DEF r3
<1>7. r3.ok => \A i \in DOMAIN vs : Named(r3.venues, vs[i])
  <2> SUFFICES ASSUME r3.ok, NEW i \in DOMAIN vs PROVE Named(r3.venues, vs[i])
    OBVIOUS
  <2>1. r1.ok /\ r3.venues = r2.venues
    BY <1>4, <1>6, Zenon
  <2>2. PICK k \in DOMAIN r1.venues : r1.venues[k].name = vs[i]
    BY <1>3, <2>1, Zenon DEF Named
  <2>3. k \in DOMAIN r2.venues /\ r2.venues[k].name = vs[i]
    BY <1>4, <2>2, Zenon
  <2> QED  BY <2>1, <2>3 DEF Named
<1>8. r3.venues \in Seq(Venue) /\ r3.routes \in Tables
  BY <1>6 DEF Progress
<1> QED  BY <1>2, <1>6, <1>7, <1>8, Zenon DEF vs, rs

(* A change of one entry of the registry keeps the registry.               *)
LEMMA VenueChanged ==
  ASSUME NEW vs \in Seq(Venue), NEW i \in DOMAIN vs, NEW v \in Venue
  PROVE  [vs EXCEPT ![i] = v] \in Seq(Venue) /\ DOMAIN [vs EXCEPT ![i] = v] = DOMAIN vs
<1>1. Len(vs) \in Nat /\ DOMAIN vs = 1..Len(vs) /\ \A k \in 1..Len(vs) : vs[k] \in Venue
  OBVIOUS
<1>2. [vs EXCEPT ![i] = v] \in [1..Len(vs) -> Venue]
  BY <1>1
<1> QED  BY <1>1, <1>2, SeqDef

(* An id is known when it is an id of the registry.                        *)
LEMMA KnownIsEntry ==
  ASSUME NEW vs \in Seq(Venue), NEW venue \in Nat
  PROVE  KnownVenue(vs, venue) <=> venue \in DOMAIN vs
<1>1. Len(vs) \in Nat /\ DOMAIN vs = 1..Len(vs)
  OBVIOUS
<1> QED  BY <1>1 DEF KnownVenue, kNoVenue

(* Every step keeps the tables in order.                                   *)
LEMMA TablesKept ==
  ASSUME TablesHold, [RouterNext]_routervars
  PROVE  TablesHold'
<1>0. /\ venues \in Seq(Venue) /\ routes \in Tables /\ Leads(venues, routes)
      /\ Len(venues) \in Nat /\ DOMAIN venues = 1..Len(venues)
      /\ \A i \in DOMAIN venues : venues[i] \in Venue
      /\ VenueLimit \in Nat /\ \A venue \in 1..VenueLimit : venue \in Nat
      /\ "Up" \in VenueState /\ "Down" \in VenueState
  BY RouterAssumption DEF TablesHold, VenueState
<1>1. CASE Restart
  <2>1. venues' = << >> /\ routes' = << >>
    BY <1>1 DEF Restart, Construct
  <2>2. << >> \in Seq(Venue) /\ DOMAIN << >> = {} /\ << >> \in [{} -> Nat]
    OBVIOUS
  <2>3. << >> \in Tables
    BY <2>2, Zenon DEF Tables
  <2> QED  BY <2>1, <2>2, <2>3, Zenon DEF TablesHold, Leads
<1>2. ASSUME NEW name \in Names, NEW s \in VenueState, add_venue(name, s) PROVE TablesHold'
  <2>1. venues' = Added(venues, name, s) /\ routes' = routes
    BY <1>2 DEF add_venue
  <2>2. /\ Added(venues, name, s) \in Seq(Venue)
        /\ \A i \in DOMAIN venues : i \in DOMAIN Added(venues, name, s)
    BY <1>0, AddedFacts, Zenon
  <2> QED  BY <1>0, <2>1, <2>2, Zenon DEF TablesHold, Leads
<1>3. ASSUME NEW i \in DOMAIN venues, NEW v \in Venue, venues' = [venues EXCEPT ![i] = v],
             routes' = routes
      PROVE  TablesHold'
  <2>1. venues' \in Seq(Venue) /\ DOMAIN venues' = DOMAIN venues
    BY <1>0, <1>3, VenueChanged, Zenon
  <2> QED  BY <1>0, <1>3, <2>1, Zenon DEF TablesHold, Leads
<1>4. ASSUME NEW venue \in 1..VenueLimit, NEW s \in VenueState, set_venue_state(venue, s)
      PROVE  TablesHold'
  <2> DEFINE v == [venues[venue] EXCEPT !.state = s]
  <2>1. venue \in DOMAIN venues /\ routes' = routes
    BY <1>0, <1>4, KnownIsEntry DEF set_venue_state
  <2>2. v \in Venue
    BY <1>0, <2>1 DEF Venue
  <2>3. venues' = [venues EXCEPT ![venue] = v]
    BY <1>4, <2>1 DEF set_venue_state
  <2> QED  BY <1>3, <2>1, <2>2, <2>3, Zenon
<1>5. ASSUME NEW venue \in 1..VenueLimit, on_logon(venue) PROVE TablesHold'
  <2> DEFINE v == [venues[venue] EXCEPT !.seq = 0, !.state = "Up"]
  <2>1. venue \in DOMAIN venues /\ routes' = routes
    BY <1>0, <1>5, KnownIsEntry DEF on_logon
  <2>2. v \in Venue
    BY <1>0, <2>1, Zenon DEF Venue
  <2>3. venues' = [venues EXCEPT ![venue] = v]
    BY <1>5, <2>1, Zenon DEF on_logon
  <2> QED  BY <1>3, <2>1, <2>2, <2>3, Zenon
<1>6. ASSUME NEW venue \in 1..VenueLimit, on_disconnect(venue) PROVE TablesHold'
  BY <1>0, <1>4, <1>6, Zenon DEF on_disconnect
<1>7. ASSUME NEW venue \in 1..VenueLimit, NEW symbol \in Symbols, map_symbol(symbol, venue)
      PROVE  TablesHold'
  <2>1. venue \in DOMAIN venues /\ venue \in Nat /\ venues' = venues /\ routes' = Mapped(routes, symbol, venue)
    BY <1>0, <1>7, KnownIsEntry DEF map_symbol
  <2>2. Mapped(routes, symbol, venue) \in Tables
    BY <1>0, <2>1, TableFacts, Zenon
  <2>3. \A z \in DOMAIN routes' : (z = symbol /\ routes'[z] = venue) \/ (z \in DOMAIN routes /\ routes'[z] = routes[z])
    <3> DEFINE m == Mapped(routes, symbol, venue)
    <3>1. DOMAIN m = DOMAIN routes \cup {symbol} /\ \A z \in DOMAIN m : m[z] = IF z = symbol THEN venue ELSE routes[z]
      BY Zenon DEF Mapped
    <3>2. routes' = m
      BY <2>1
    <3> HIDE DEF m
    <3> QED  BY <3>1, <3>2, Zenon
  <2> QED  BY <1>0, <2>1, <2>2, <2>3, Zenon DEF TablesHold, Leads
<1>8. ASSUME NEW symbol \in Symbols, unmap_symbol(symbol) PROVE TablesHold'
  <2>1. venues' = venues /\ routes' = [y \in DOMAIN routes \ {symbol} |-> routes[y]]
    BY <1>8 DEF unmap_symbol
  <2>2. PICK D \in SUBSET Symbols : routes \in [D -> Nat]
    BY <1>0 DEF Tables
  <2>3. routes' \in [D \ {symbol} -> Nat] /\ D \ {symbol} \in SUBSET Symbols
    BY <2>1, <2>2
  <2>4. routes' \in Tables
    BY <2>3, Zenon DEF Tables
  <2>5. Leads(venues', routes')
    BY <1>0, <2>1 DEF Leads
  <2> QED  BY <1>0, <2>1, <2>4, <2>5 DEF TablesHold
<1>9. ASSUME NEW symbol \in Symbols, NEW positive \in BOOLEAN, NEW liquidating \in BOOLEAN,
             route(positive, symbol, liquidating)
      PROVE  TablesHold'
  <2> DEFINE outcome == RouteDecision(positive, symbol, liquidating)
             venue == venue_for(symbol)
  <2>1. CASE outcome = "Routed"
    <3> DEFINE v == [venues[venue] EXCEPT !.seq = @ + 1, !.routed = @ + 1]
    <3>1. Accept(venue)
      BY <1>9, <2>1 DEF route
    <3>2. venue # kNoVenue
      BY <2>1 DEF RouteDecision
    <3>3. symbol \in DOMAIN routes /\ venue = routes[symbol]
      BY <3>2 DEF venue_for
    <3>4. venue \in DOMAIN venues
      BY <1>0, <3>3, Zenon DEF Leads
    <3>5. venues' = [venues EXCEPT ![venue] = v] /\ routes' = routes
      BY <3>1, <3>4, Zenon DEF Accept
    <3> HIDE DEF venue
    <3>6. v \in Venue
      <4> DEFINE x == venues[venue]
      <4>1. x \in Venue
        BY <1>0, <3>4, Zenon
      <4> HIDE DEF x
      <4>2. x.name \in Names /\ x.state \in VenueState /\ x.seq + 1 \in Nat /\ x.routed + 1 \in Nat
        BY <4>1 DEF Venue
      <4>3. [x EXCEPT !.seq = @ + 1, !.routed = @ + 1] \in Venue
        BY <4>1, <4>2, Zenon DEF Venue
      <4> QED  BY <4>3 DEF x
    <3> HIDE DEF v
    <3> QED  BY <1>3, <3>4, <3>5, <3>6, Zenon
  <2>2. CASE outcome # "Routed"
    <3>1. venues' = venues /\ routes' = routes
      BY <1>9, <2>2 DEF route, Reject
    <3> QED  BY <1>0, <3>1 DEF TablesHold
  <2> QED  BY <2>1, <2>2
<1>10. ASSUME NEW cfg \in Configs, configure_router(cfg) PROVE TablesHold'
  <2>1. venues' = Configured(cfg).venues /\ routes' = Configured(cfg).routes
    BY <1>10 DEF configure_router
  <2> QED  BY <2>1, ConfiguredFacts, Zenon DEF TablesHold
<1>11. CASE UNCHANGED routervars
  BY <1>0, <1>11 DEF routervars, TablesHold
<1> QED
  BY <1>1, <1>2, <1>4, <1>5, <1>6, <1>7, <1>8, <1>9, <1>10, <1>11, Zenon DEF RouterNext

(* The tables are always in order.                                         *)
LEMMA TablesAlways == RouterSpec => []TablesHold
<1>1. RouterInit => TablesHold
  <2> SUFFICES ASSUME RouterInit PROVE TablesHold
    OBVIOUS
  <2>1. venues = << >> /\ routes = << >>
    BY DEF RouterInit
  <2>2. << >> \in Seq(Venue) /\ DOMAIN << >> = {} /\ << >> \in [{} -> Nat]
    OBVIOUS
  <2>3. << >> \in Tables
    BY <2>2, Zenon DEF Tables
  <2> QED  BY <2>1, <2>2, <2>3, Zenon DEF TablesHold, Leads
<1>2. TablesHold /\ [RouterNext]_routervars => TablesHold'
  BY TablesKept
<1> QED  BY <1>1, <1>2, PTL DEF RouterSpec

(* Every route the table holds leads to a venue of the registry, whatever  *)
(* configure_router, add_venue and route_symbol did and refused: route     *)
(* never indexes past the end of venues_.                                  *)
THEOREM RoutesAlwaysLead == RouterSpec => []RoutesLead
<1>1. TablesHold => RoutesLead
  <2> SUFFICES ASSUME TablesHold, NEW symbol \in DOMAIN routes PROVE KnownVenue(venues, routes[symbol])
    BY DEF RoutesLead
  <2>1. venues \in Seq(Venue) /\ routes[symbol] \in DOMAIN venues
    BY DEF TablesHold, Leads
  <2>2. DOMAIN venues = 1..Len(venues) /\ Len(venues) \in Nat
    BY <2>1
  <2> QED  BY <2>1, <2>2 DEF KnownVenue, kNoVenue
<1> QED  BY <1>1, TablesAlways, PTL

(* A configuration that configure_router accepts has been applied in full: *)
(* all its venues are in the registry and every symbol leads where the     *)
(* file sends it, whatever was there before.                               *)
THEOREM ConfigurationIsWhole == RouterSpec => ConfiguredInFull
<1> DEFINE Whole ==
      \A cfg \in Configs :
         Configured(cfg).ok /\ configure_router(cfg) =>
            /\ \A i \in DOMAIN cfg.venues : find_venue(venues', cfg.venues[i]) # kNoVenue
            /\ \A i \in DOMAIN cfg.routes :
                 /\ cfg.routes[i][1] \in DOMAIN routes'
                 /\ \E j \in DOMAIN cfg.routes :
                      /\ cfg.routes[j][1] = cfg.routes[i][1]
                      /\ routes'[cfg.routes[i][1]] = find_venue(venues', cfg.routes[j][2])
<1>1. TablesHold /\ [RouterNext]_routervars => Whole
  <2> SUFFICES ASSUME TablesHold, NEW cfg \in Configs, Configured(cfg).ok, configure_router(cfg)
               PROVE  /\ \A i \in DOMAIN cfg.venues : find_venue(venues', cfg.venues[i]) # kNoVenue
                      /\ \A i \in DOMAIN cfg.routes :
                           /\ cfg.routes[i][1] \in DOMAIN routes'
                           /\ \E j \in DOMAIN cfg.routes :
                                /\ cfg.routes[j][1] = cfg.routes[i][1]
                                /\ routes'[cfg.routes[i][1]] = find_venue(venues', cfg.routes[j][2])
    BY Zenon
  <2>1. venues' = Configured(cfg).venues /\ routes' = Configured(cfg).routes
    BY DEF configure_router
  <2>2. /\ venues' \in Seq(Venue)
        /\ \A i \in DOMAIN cfg.venues : Named(venues', cfg.venues[i])
        /\ \A i \in DOMAIN cfg.routes :
             /\ cfg.routes[i][1] \in DOMAIN routes'
             /\ \E j \in DOMAIN cfg.routes :
                  /\ cfg.routes[j][1] = cfg.routes[i][1]
                  /\ routes'[cfg.routes[i][1]] = find_venue(venues', cfg.routes[j][2])
    BY <2>1, ConfiguredFacts, Zenon
  <2>3. \A i \in DOMAIN cfg.venues : find_venue(venues', cfg.venues[i]) # kNoVenue
    BY <2>2, FindVenue, Zenon DEF Named
  <2> QED  BY <2>2, <2>3, Zenon
<1> QED  BY <1>1, TablesAlways, PTL DEF RouterSpec, ConfiguredInFull

-----------------------------------------------------------------------------
(* The order ids.                                                          *)

(* One width of the counter for all runs.                                  *)
Widths == CounterBits \cap 1..MaxCounterBits

(* The widths that are valid are one width.                                *)
OneLayout == \A a, b \in Widths : a = b

(* The id x was made of the epoch e and the count n.                       *)
MadeOf(x, bits, e, n) ==
    /\ e \in epochs /\ n \in 1..(Pow2[bits] - 1)
    /\ x = e * Pow2[bits] + n
    /\ e = epoch => n < counter

(* The inductive invariant of the ids: every one issued is the pair of an  *)
(* epoch used so far and a count, and there are as many as were minted.    *)
IdsHold ==
    /\ epochs \subseteq Nat /\ epoch \in epochs /\ counter_bits \in CounterBits
    /\ counter_max = (IF counter_bits \in 1..MaxCounterBits THEN Pow2[counter_bits] - 1 ELSE 0)
    /\ valid = Fits(epoch, counter_bits) /\ counter \in Nat /\ counter >= 1
    /\ IsFiniteSet(issued) /\ Cardinality(issued) = minted
    /\ \A x \in issued : \E bits \in Widths, e \in Nat, n \in Nat : MadeOf(x, bits, e, n)

(* An id determines the epoch and the count it was made of.                *)
LEMMA IdDetermines ==
  ASSUME NEW p \in Nat, NEW e1 \in Nat, NEW e2 \in Nat, NEW n1 \in 1..(p - 1), NEW n2 \in 1..(p - 1),
         e1 * p + n1 = e2 * p + n2
  PROVE  e1 = e2 /\ n1 = n2
<1>1. ASSUME NEW a \in Nat, NEW b \in Nat, a < b, NEW m1 \in 1..(p - 1), NEW m2 \in 1..(p - 1)
      PROVE  a * p + m1 < b * p + m2
  <2>1. PICK k \in Nat : b = a + 1 + k
    <3>1. b - a - 1 \in Nat /\ b = a + 1 + (b - a - 1)
      BY <1>1
    <3> QED  BY <3>1
  <2>2. b * p = a * p + p + k * p /\ k * p \in Nat /\ a * p \in Nat
    BY <2>1
  <2> QED  BY <2>2
<1>2. ~(e1 < e2) /\ ~(e2 < e1)
  BY <1>1
<1>3. e1 = e2
  BY <1>2
<1> QED  BY <1>3

(* When the epoch fits, the shift loses no bit of it.                      *)
LEMMA IdIsWhole ==
  ASSUME NEW e \in Nat, NEW bits \in Nat, NEW n \in Nat, Fits(e, bits)
  PROVE  IdOf(e, bits, n) = e * Pow2[bits] + n
<1>1. bits \in 1..MaxCounterBits /\ bits \in Nat /\ IdWidth - bits \in Nat /\ IdWidth \in Nat
  BY RouterAssumption DEF Fits
<1> DEFINE a == Pow2[bits]
           b == Pow2[IdWidth - bits]
           c == Pow2[IdWidth]
<1>2. a \in Nat /\ b \in Nat /\ c \in Nat /\ a > 0
  BY <1>1, Pow2Positive
<1>3. c = a * b
  <2>1. bits + (IdWidth - bits) = IdWidth
    BY <1>1
  <2> DEFINE k == IdWidth - bits
  <2>2. Pow2[bits + k] = Pow2[bits] * Pow2[k]
    <3> HIDE DEF k
    <3> QED  BY <1>1, Pow2Product, Zenon DEF k
  <2> QED  BY <2>1, <2>2
<1>4. e <= b - 1
  BY DEF Fits
<1> HIDE DEF a, b, c
<1>5. 0 <= e * a /\ e * a < c
  <2>1. PICK k \in Nat : b = e + 1 + k
    <3>1. b - e - 1 \in Nat /\ b = e + 1 + (b - e - 1)
      BY <1>2, <1>4
    <3> QED  BY <3>1
  <2>2. c = e * a + a + k * a /\ k * a \in Nat /\ e * a \in Nat
    BY <1>2, <1>3, <2>1
  <2> QED  BY <1>2, <2>2
<1>6. (e * a) % c = e * a
  <2> DEFINE x == e * a
  <2>1. x \in Nat /\ x < c
    BY <1>2, <1>5
  <2> HIDE DEF x
  <2>2. x % c = x
    BY <1>2, <2>1
  <2> QED  BY <2>2 DEF x
<1> QED  BY <1>6 DEF IdOf, a, c

(* Every step keeps the ids apart.                                         *)
LEMMA IdsKept ==
  ASSUME OneLayout, IdsHold, [RouterNext]_routervars
  PROVE  IdsHold'
<1>1. ASSUME UNCHANGED <<layout, counter, epochs, issued, minted>> PROVE IdsHold'
  BY <1>1 DEF IdsHold, layout, MadeOf
<1>2. CASE Restart
  <2>1. PICK e \in Epochs \ epochs, bits \in CounterBits : Construct(e, bits)
    BY <1>2 DEF Restart
  <2>2. /\ epoch' = e /\ counter_bits' = bits /\ counter' = 1 /\ epochs' = epochs \cup {e}
        /\ counter_max' = (IF bits \in 1..MaxCounterBits THEN Pow2[bits] - 1 ELSE 0)
        /\ valid' = Fits(e, bits) /\ issued' = issued /\ minted' = minted
    BY <1>2, <2>1 DEF Restart, Construct
  <2>3. e \in Nat /\ e \notin epochs
    BY RouterAssumption
  <2>4. ASSUME NEW x \in issued' PROVE \E w \in Widths, d \in Nat, n \in Nat : MadeOf(x, w, d, n)'
    <3>1. PICK w \in Widths, d \in Nat, n \in Nat : MadeOf(x, w, d, n)
      BY <2>2, <2>4 DEF IdsHold
    <3>2. d # e /\ d \in epochs'
      BY <2>2, <2>3, <3>1 DEF MadeOf
    <3>3. MadeOf(x, w, d, n)'
      BY <2>2, <3>1, <3>2, Zenon DEF MadeOf
    <3> QED  BY <3>3
  <2> QED  BY <2>2, <2>3, <2>4 DEF IdsHold
<1>3. ASSUME NEW symbol \in Symbols, NEW positive \in BOOLEAN, NEW liquidating \in BOOLEAN,
             route(positive, symbol, liquidating)
      PROVE  IdsHold'
  <2> DEFINE outcome == RouteDecision(positive, symbol, liquidating)
             venue == venue_for(symbol)
             id == IdOf(epoch, counter_bits, counter)
             p == Pow2[counter_bits]
  <2>1. CASE outcome = "Routed"
    <3>1. Accept(venue)
      BY <1>3, <2>1 DEF route
    <3>2. valid /\ ~(counter > counter_max)
      BY <2>1 DEF RouteDecision
    <3>3. /\ counter' = counter + 1 /\ issued' = issued \cup {id} /\ minted' = minted + 1
          /\ UNCHANGED <<layout, epochs>>
      BY <3>1 DEF Accept
    <3>4. epoch \in Nat /\ counter \in Nat /\ counter_bits \in Nat /\ Fits(epoch, counter_bits)
      BY <3>2, RouterAssumption DEF IdsHold
    <3>5. id = epoch * p + counter
      BY <3>4, IdIsWhole
    <3>6. counter_bits \in Widths /\ p \in Nat /\ counter \in 1..(p - 1)
      <4>1. counter_bits \in 1..MaxCounterBits
        BY <3>4 DEF Fits
      <4>2. p \in Nat
        BY <3>4, Pow2Positive
      <4>3. counter_max = p - 1 /\ counter >= 1
        BY <4>1 DEF IdsHold
      <4> QED  BY <3>2, <3>4, <4>1, <4>2, <4>3 DEF IdsHold, Widths
    <3> HIDE DEF id
    <3>7. id \notin issued
      <4> SUFFICES ASSUME id \in issued PROVE FALSE
        OBVIOUS
      <4>1. PICK w \in Widths, d \in Nat, n \in Nat : MadeOf(id, w, d, n)
        BY DEF IdsHold
      <4>2. w = counter_bits
        BY <3>6, Zenon DEF OneLayout
      <4>3. n \in 1..(p - 1) /\ id = d * p + n /\ (d = epoch => n < counter)
        BY <4>1, <4>2 DEF MadeOf
      <4> HIDE DEF p
      <4>4. d = epoch /\ n = counter
        BY <3>4, <3>5, <3>6, <4>3, IdDetermines
      <4> QED  BY <3>4, <4>3, <4>4
    <3>8. IsFiniteSet(issued') /\ Cardinality(issued') = minted'
      BY <3>3, <3>7, FS_AddElement DEF IdsHold
    <3>9. ASSUME NEW x \in issued' PROVE \E w \in Widths, d \in Nat, n \in Nat : MadeOf(x, w, d, n)'
      <4>0. epochs' = epochs /\ epoch' = epoch /\ epoch \in epochs
        BY <3>3 DEF layout, IdsHold
      <4>1. CASE x \in issued
        <5>1. PICK w \in Widths, d \in Nat, n \in Nat : MadeOf(x, w, d, n)
          BY <4>1 DEF IdsHold
        <5>2. n < counter => n < counter'
          BY <3>3, <3>4
        <5>3. MadeOf(x, w, d, n)'
          BY <4>0, <5>1, <5>2, Zenon DEF MadeOf
        <5> QED  BY <5>3
      <4>2. CASE x = id
        <5>1. counter < counter'
          BY <3>3, <3>4
        <5>2. PICK w \in Widths, d \in Nat, n \in Nat : w = counter_bits /\ d = epoch /\ n = counter
          BY <3>4, <3>6, Zenon
        <5>3. MadeOf(x, w, d, n)'
          BY <3>5, <3>6, <4>0, <4>2, <5>1, <5>2 DEF MadeOf
        <5> QED  BY <5>3
      <4> QED  BY <3>3, <4>1, <4>2
    <3> QED  BY <3>3, <3>4, <3>8, <3>9 DEF IdsHold, layout
  <2>2. CASE outcome # "Routed"
    BY <1>1, <1>3, <2>2 DEF route, Reject, history
  <2> QED  BY <2>1, <2>2
<1>4. CASE ~Restart /\ ~ \E symbol \in Symbols, positive, liquidating \in BOOLEAN :
                            route(positive, symbol, liquidating)
  <2>1. UNCHANGED <<layout, counter, epochs, issued, minted>>
    BY <1>4, Zenon DEF RouterNext, add_venue, set_venue_state, on_logon, on_disconnect, map_symbol, unmap_symbol,
                configure_router, routervars, history
  <2> QED  BY <1>1, <2>1
<1> QED  BY <1>2, <1>3, <1>4

(* The ids are always apart.                                               *)
LEMMA IdsAlways ==
  ASSUME OneLayout
  PROVE  RouterSpec => []IdsHold
<1>1. RouterInit => IdsHold
  <2> SUFFICES ASSUME RouterInit PROVE IdsHold
    OBVIOUS
  <2>1. PICK e \in Epochs, bits \in CounterBits :
        /\ epoch = e /\ counter_bits = bits
        /\ counter_max = (IF bits \in 1..MaxCounterBits THEN Pow2[bits] - 1 ELSE 0)
        /\ valid = Fits(e, bits)
        /\ counter = 1
        /\ epochs = {e} /\ issued = {} /\ minted = 0
    BY DEF RouterInit
  <2>2. e \in Nat
    BY RouterAssumption
  <2>3. IsFiniteSet(issued) /\ Cardinality(issued) = minted
    BY <2>1, FS_EmptySet
  <2> QED  BY <2>1, <2>2, <2>3 DEF IdsHold
<1>2. IdsHold /\ [RouterNext]_routervars => IdsHold'
  BY IdsKept
<1> QED  BY <1>1, <1>2, PTL DEF RouterSpec

(* next_order_id never returns an id twice, within a run or across         *)
(* restarts, if every run reads an epoch of its own and the generators     *)
(* share one width of the counter.                                         *)
THEOREM IdsAreUnique ==
  ASSUME OneLayout
  PROVE  RouterSpec => []IdsNeverRepeat
<1>1. IdsHold => IdsNeverRepeat
  BY DEF IdsHold, IdsNeverRepeat
<1> QED  BY <1>1, IdsAlways, PTL

=============================================================================
