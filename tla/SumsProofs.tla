----------------------------- MODULE SumsProofs -----------------------------
(***************************************************************************)
(* What the sum of a function over a finite set does when the function or  *)
(* the set changes.                                                        *)
(***************************************************************************)
EXTENDS Sums, FiniteSetTheorems, TLAPS

\* A unit of the sum belongs to one element.
LEMMA UnitMembership ==
  ASSUME NEW f, NEW S, NEW u
  PROVE  u \in Units(f, S) <=> \E x \in S : u \in {x} \X (1..f[x])
BY DEF Units

\* 1..n has n elements.
LEMMA RangeSize ==
  ASSUME NEW n \in Nat
  PROVE  IsFiniteSet(1..n) /\ Cardinality(1..n) = n
<1>1. 1 \in Int /\ n \in Int
  OBVIOUS
<1>2. IsFiniteSet(1..n) /\ Cardinality(1..n) = IF 1 > n THEN 0 ELSE n - 1 + 1
  BY <1>1, FS_Interval, Zenon
<1> QED
  BY <1>2

\* The sum over one element is its value.
LEMMA SumOfOne ==
  ASSUME NEW f, NEW x, f[x] \in Nat
  PROVE  SumOver(f, {x}) = f[x]
<1>1. Units(f, {x}) = {x} \X (1..f[x])
  BY UnitMembership
<1>2. IsFiniteSet({x}) /\ Cardinality({x}) = 1
  BY FS_Singleton
<1>3. IsFiniteSet(1..f[x]) /\ Cardinality(1..f[x]) = f[x]
  BY RangeSize
<1>4. Cardinality({x} \X (1..f[x])) = Cardinality({x}) * Cardinality(1..f[x])
  BY <1>2, <1>3, FS_Product
<1>5. 1 * f[x] = f[x]
  OBVIOUS
<1> QED
  BY <1>1, <1>2, <1>3, <1>4, <1>5 DEF SumOver

\* A sum of natural numbers over a finite set is a natural number.
LEMMA SumIsNat ==
  ASSUME NEW f, NEW S, IsFiniteSet(S), \A x \in S : f[x] \in Nat
  PROVE  IsFiniteSet(Units(f, S)) /\ SumOver(f, S) \in Nat
<1> DEFINE T == {{x} \X (1..f[x]) : x \in S}
<1>1. IsFiniteSet(T)
  <2> DEFINE g == [x \in S |-> {x} \X (1..f[x])]
  <2>1. g \in Surjection(S, T)
    BY DEF Surjection
  <2> QED
    BY <2>1, FS_Surjection
<1>2. ASSUME NEW t \in T PROVE IsFiniteSet(t)
  <2>1. PICK x \in S : t = {x} \X (1..f[x])
    OBVIOUS
  <2>2. IsFiniteSet({x}) /\ IsFiniteSet(1..f[x])
    BY FS_Singleton, RangeSize
  <2> QED
    BY <2>1, <2>2, FS_Product
<1>3. IsFiniteSet(UNION T)
  BY <1>1, <1>2, FS_UNION
<1> QED
  BY <1>3, FS_CardinalityType DEF Units, SumOver

\* Sums over disjoint sets add up.
LEMMA SumOfUnion ==
  ASSUME NEW f, NEW S, NEW T, IsFiniteSet(S), IsFiniteSet(T), S \cap T = {},
         \A x \in S \cup T : f[x] \in Nat
  PROVE  SumOver(f, S \cup T) = SumOver(f, S) + SumOver(f, T)
<1>1. Units(f, S \cup T) = Units(f, S) \cup Units(f, T)
  BY UnitMembership
<1>2. Units(f, S) \cap Units(f, T) = {}
  <2> SUFFICES ASSUME NEW u, u \in Units(f, S), u \in Units(f, T)
               PROVE  FALSE
    OBVIOUS
  <2>1. PICK i \in S : u \in {i} \X (1..f[i])
    BY UnitMembership
  <2>2. PICK j \in T : u \in {j} \X (1..f[j])
    BY UnitMembership
  <2>3. u[1] = i /\ u[1] = j
    BY <2>1, <2>2
  <2> QED
    BY <2>3
<1>3. IsFiniteSet(Units(f, S)) /\ IsFiniteSet(Units(f, T))
  BY SumIsNat
<1>4. Cardinality(Units(f, S) \cup Units(f, T)) =
        Cardinality(Units(f, S)) + Cardinality(Units(f, T)) - Cardinality({})
  BY <1>2, <1>3, FS_Union
<1>5. Cardinality(Units(f, S)) \in Nat /\ Cardinality(Units(f, T)) \in Nat
  BY <1>3, FS_CardinalityType
<1>6. Cardinality({}) = 0
  BY FS_EmptySet
<1>7. SumOver(f, S \cup T) = Cardinality(Units(f, S) \cup Units(f, T))
  BY <1>1, Zenon DEF SumOver
<1> QED
  BY <1>4, <1>5, <1>6, <1>7 DEF SumOver

\* A sum depends only on the values it adds up.
LEMMA SumSame ==
  ASSUME NEW f, NEW g, NEW S, \A x \in S : f[x] = g[x]
  PROVE  SumOver(f, S) = SumOver(g, S)
<1>1. ASSUME NEW u PROVE u \in Units(f, S) <=> u \in Units(g, S)
  <2>1. \A x \in S : {x} \X (1..f[x]) = {x} \X (1..g[x])
    OBVIOUS
  <2> QED
    BY <2>1, UnitMembership
<1>2. Units(f, S) = Units(g, S)
  BY <1>1
<1> QED
  BY <1>2 DEF SumOver

\* The empty sum is zero.
LEMMA SumEmpty ==
  ASSUME NEW f
  PROVE  SumOver(f, {}) = 0
<1>1. Units(f, {}) = {}
  BY UnitMembership
<1> QED
  BY <1>1, FS_EmptySet DEF SumOver

\* Elements that count for nothing can be left out.
LEMMA SumRestrict ==
  ASSUME NEW f, NEW g, NEW D, NEW S \in SUBSET D,
         \A x \in S : f[x] = g[x], \A x \in D \ S : f[x] = 0
  PROVE  SumOver(f, D) = SumOver(g, S)
<1>1. Units(f, D) = Units(g, S)
  <2>1. ASSUME NEW u, u \in Units(f, D) PROVE u \in Units(g, S)
    <3>1. PICK x \in D : u \in {x} \X (1..f[x])
      BY <2>1, UnitMembership
    <3>2. x \in S
      BY <3>1
    <3> QED
      BY <3>1, <3>2, UnitMembership
  <2>2. ASSUME NEW u, u \in Units(g, S) PROVE u \in Units(f, D)
    <3>1. PICK x \in S : u \in {x} \X (1..g[x])
      BY <2>2, UnitMembership
    <3> QED
      BY <3>1, UnitMembership
  <2> QED
    BY <2>1, <2>2
<1> QED
  BY <1>1 DEF SumOver

\* The size of a set is the sum of ones over it.
LEMMA CountIsSum ==
  ASSUME NEW f, NEW D, IsFiniteSet(D), NEW S \in SUBSET D,
         \A x \in S : f[x] = 1, \A x \in D \ S : f[x] = 0
  PROVE  Cardinality(S) = SumOver(f, D)
<1> DEFINE g == [x \in S |-> <<x, 1>>]
<1>1. ASSUME NEW u PROVE u \in Units(f, D) <=> \E x \in S : u = <<x, 1>>
  <2>1. ASSUME u \in Units(f, D) PROVE \E x \in S : u = <<x, 1>>
    <3>1. PICK x \in D : u \in {x} \X (1..f[x])
      BY <2>1, UnitMembership
    <3>2. x \in S
      BY <3>1
    <3>3. u = <<x, 1>>
      BY <3>1, <3>2
    <3> QED
      BY <3>2, <3>3
  <2>2. ASSUME NEW x \in S, u = <<x, 1>> PROVE u \in Units(f, D)
    <3>1. x \in D /\ u \in {x} \X (1..f[x])
      BY <2>2
    <3> QED
      BY <3>1, UnitMembership
  <2> QED
    BY <2>1, <2>2
<1>2. g \in Bijection(S, Units(f, D))
  <2>1. g \in [S -> Units(f, D)]
    BY <1>1
  <2>2. \A x, y \in S : g[x] = g[y] => x = y
    OBVIOUS
  <2>3. \A u \in Units(f, D) : \E x \in S : g[x] = u
    BY <1>1
  <2> HIDE DEF g
  <2> QED
    BY <2>1, <2>2, <2>3 DEF Bijection, Injection, Surjection, IsInjective
<1>3. ExistsBijection(S, Units(f, D))
  BY <1>2 DEF ExistsBijection
<1>4. IsFiniteSet(S)
  BY FS_Subset
<1> QED
  BY <1>3, <1>4, FS_Bijection DEF SumOver

\* A function that is nowhere smaller has no smaller sum.
LEMMA SumMonotone ==
  ASSUME NEW f, NEW g, NEW D, IsFiniteSet(D),
         \A x \in D : f[x] \in Nat /\ g[x] \in Nat /\ f[x] <= g[x]
  PROVE  SumOver(f, D) <= SumOver(g, D)
<1>1. Units(f, D) \subseteq Units(g, D)
  <2> SUFFICES ASSUME NEW u, u \in Units(f, D) PROVE u \in Units(g, D)
    OBVIOUS
  <2>1. PICK x \in D : u \in {x} \X (1..f[x])
    BY UnitMembership
  <2>2. u \in {x} \X (1..g[x])
    BY <2>1
  <2> QED
    BY <2>2, UnitMembership
<1>2. IsFiniteSet(Units(g, D))
  BY SumIsNat
<1> QED
  BY <1>1, <1>2, FS_Subset DEF SumOver

\* Changing one value changes the sum by as much, and the sum covers it.
LEMMA SumUpdate ==
  ASSUME NEW f, NEW g, NEW D, IsFiniteSet(D), NEW x \in D,
         \A y \in D : f[y] \in Nat, g[x] \in Nat,
         \A y \in D \ {x} : g[y] = f[y]
  PROVE  /\ SumOver(g, D) = SumOver(f, D) - f[x] + g[x]
         /\ SumOver(f, D) \in Nat /\ SumOver(g, D) \in Nat
         /\ f[x] <= SumOver(f, D)
<1>1. /\ IsFiniteSet({x}) /\ IsFiniteSet(D \ {x})
      /\ (D \ {x}) \cup {x} = D /\ (D \ {x}) \cap {x} = {}
  BY FS_Singleton, FS_RemoveElement, ZenonT(60)
<1>2. \A y \in D : g[y] \in Nat
  OBVIOUS
<1>3. SumOver(f, D) = SumOver(f, D \ {x}) + f[x]
  <2>1. SumOver(f, D) = SumOver(f, D \ {x}) + SumOver(f, {x})
    BY <1>1, SumOfUnion
  <2> QED
    BY <2>1, SumOfOne
<1>4. SumOver(g, D) = SumOver(g, D \ {x}) + g[x]
  <2>1. SumOver(g, D) = SumOver(g, D \ {x}) + SumOver(g, {x})
    BY <1>1, <1>2, SumOfUnion
  <2> QED
    BY <2>1, SumOfOne
<1>5. SumOver(g, D \ {x}) = SumOver(f, D \ {x})
  BY SumSame
<1>6. SumOver(f, D \ {x}) \in Nat
  BY <1>1, SumIsNat
<1> QED
  BY <1>3, <1>4, <1>5, <1>6

\* A sum does not depend on the names of its terms.
LEMMA SumReindex ==
  ASSUME NEW f, NEW g, NEW S, NEW T, NEW h \in Bijection(S, T), IsFiniteSet(S),
         \A x \in S : f[x] \in Nat /\ f[x] = g[h[x]]
  PROVE  SumOver(f, S) = SumOver(g, T)
<1>1. /\ \A x \in S : h[x] \in T
      /\ \A x, y \in S : h[x] = h[y] => x = y
      /\ \A z \in T : \E x \in S : h[x] = z
  BY DEF Bijection, Injection, Surjection, IsInjective
<1> DEFINE k == [u \in Units(f, S) |-> <<h[u[1]], u[2]>>]
<1>2. ASSUME NEW u \in Units(f, S)
      PROVE  u[1] \in S /\ u[2] \in 1..f[u[1]] /\ u = <<u[1], u[2]>>
  <2>1. PICK x \in S : u \in {x} \X (1..f[x])
    BY UnitMembership
  <2> QED
    BY <2>1
<1>3. ASSUME NEW u \in Units(f, S) PROVE k[u] \in Units(g, T)
  <2>1. k[u] \in {h[u[1]]} \X (1..g[h[u[1]]])
    BY <1>2
  <2> QED
    BY <2>1, <1>1, <1>2, UnitMembership
<1>4. ASSUME NEW u \in Units(f, S), NEW v \in Units(f, S), k[u] = k[v]
      PROVE  u = v
  <2>1. h[u[1]] = h[v[1]] /\ u[2] = v[2]
    BY <1>4
  <2> QED
    BY <2>1, <1>1, <1>2
<1>5. ASSUME NEW w \in Units(g, T) PROVE \E u \in Units(f, S) : k[u] = w
  <2>1. PICK z \in T : w \in {z} \X (1..g[z])
    BY UnitMembership
  <2>2. PICK x \in S : h[x] = z
    BY <1>1
  <2>3. <<x, w[2]>> \in {x} \X (1..f[x])
    BY <2>1, <2>2
  <2>4. <<x, w[2]>> \in Units(f, S)
    BY <2>3, UnitMembership
  <2>5. k[<<x, w[2]>>] = w
    BY <2>1, <2>2, <2>4
  <2> QED
    BY <2>4, <2>5
<1>6. k \in Bijection(Units(f, S), Units(g, T))
  <2> HIDE DEF k
  <2>1. k \in [Units(f, S) -> Units(g, T)]
    BY <1>3 DEF k
  <2> QED
    BY <2>1, <1>4, <1>5 DEF Bijection, Injection, Surjection, IsInjective
<1>7. IsFiniteSet(Units(f, S))
  BY SumIsNat
<1> QED
  BY <1>6, <1>7, FS_Bijection DEF SumOver, ExistsBijection

=============================================================================
