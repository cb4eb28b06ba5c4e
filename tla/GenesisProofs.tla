---------------------------- MODULE GenesisProofs ----------------------------
(* What TLAPS proves of the stages of Genesis: of Placement, for any map sizes and
   settings. *)
EXTENDS Placement, SystemContents, Deposits, FiniteSetTheorems, TLAPS

-----------------------------------------------------------------------------
(* Every non-empty set of naturals has a least element: the initial segments of its
   elements are finite, and strict inclusion is well founded on finite sets. *)
LEMMA LeastElement ==
  ASSUME NEW S \in SUBSET Nat, S # {}
  PROVE  \E m \in S : \A k \in S : m <= k
  <1> DEFINE T == {0 .. n : n \in S}
  <1> DEFINE R == StrictSubsetOrdering(Nat)
  <1>1. T # {} /\ T \subseteq FiniteSubsetsOf(Nat)
    <2>1. ASSUME NEW n \in S PROVE 0 .. n \in FiniteSubsetsOf(Nat)
      <3>1. n \in Int /\ 0 .. n \in SUBSET Nat
        OBVIOUS
      <3>2. IsFiniteSet(0 .. n)
        BY <3>1, FS_Interval
      <3> QED BY <3>1, <3>2 DEF FiniteSubsetsOf
    <2> QED BY <2>1
  <1>2. IsWellFoundedOn(R, FiniteSubsetsOf(Nat))
    BY FS_StrictSubsetOrderingWellFounded
  <1>3. \E X \in T : \A Y \in T : ~ (<<Y, X>> \in R)
    <2> HIDE DEF T, R
    <2> QED BY <1>1, <1>2, WFMin
  <1>4. PICK m \in S : \A Y \in T : ~ (<<Y, 0 .. m>> \in R)
    BY <1>3
  <1>5. ASSUME NEW k \in S, k < m PROVE FALSE
    <2>1. 0 .. k \in T /\ 0 .. k \subseteq 0 .. m /\ 0 .. k # 0 .. m
      <3>1. m \in 0 .. m /\ m \notin 0 .. k
        BY <1>5
      <3> QED BY <1>5, <3>1
    <2>2. 0 .. k \subseteq Nat /\ 0 .. m \subseteq Nat
      BY <1>5
    <2>3. <<0 .. k, 0 .. m>> \in R
      BY <2>1, <2>2 DEF StrictSubsetOrdering
    <2> QED BY <1>4, <2>1, <2>3
  <1> QED BY <1>5

-----------------------------------------------------------------------------
(* Sums.  The library's fold takes the elements of a set in the order CHOOSE picks them;
   two folds over one set go through it in the same order, so that facts about them
   follow by induction on the subsets it goes through. *)
Pick(u) == CHOOSE x \in u : TRUE
Rest(u) == u \ {Pick(u)}

LEMMA Picking ==
  ASSUME NEW S, IsFiniteSet(S), NEW u \in SUBSET S, u # {}
  PROVE  /\ Pick(u) \in u /\ Pick(u) \in S /\ Rest(u) \in SUBSET S /\ Pick(u) \notin Rest(u)
         /\ IsFiniteSet(u) /\ IsFiniteSet(Rest(u)) /\ u = Rest(u) \union {Pick(u)}
         /\ Cardinality(u) \in Nat /\ Cardinality(Rest(u)) = Cardinality(u) - 1
  <1>1. Pick(u) \in u
    BY DEF Pick
  <1>2. IsFiniteSet(u)
    BY FS_Subset
  <1>3. Cardinality(u) \in Nat
    BY <1>2, FS_CardinalityType
  <1>4. IsFiniteSet(Rest(u)) /\ Cardinality(Rest(u)) = Cardinality(u) - 1
    BY <1>1, <1>2, FS_RemoveElement DEF Rest
  <1> QED BY <1>1, <1>2, <1>3, <1>4 DEF Rest

LEMMA SubsetInduction ==
  ASSUME NEW S, IsFiniteSet(S), NEW P \in SUBSET SUBSET S, {} \in P,
         \A u \in (SUBSET S) \ {{}} : Rest(u) \in P => u \in P
  PROVE  P = SUBSET S
  <1> SUFFICES ASSUME P # SUBSET S PROVE FALSE
    OBVIOUS
  <1> DEFINE Sizes == {Cardinality(u) : u \in (SUBSET S) \ P}
  <1>1. Sizes # {} /\ Sizes \in SUBSET Nat
    <2>1. \A u \in SUBSET S : Cardinality(u) \in Nat
      BY FS_Subset, FS_CardinalityType
    <2> QED BY <2>1
  <1>2. PICK m \in Sizes : \A k \in Sizes : m <= k
    BY <1>1, LeastElement
  <1>3. PICK u \in (SUBSET S) \ P : m = Cardinality(u)
    BY <1>2
  <1>4. Rest(u) \in SUBSET S /\ Cardinality(Rest(u)) = m - 1 /\ m \in Nat
    BY <1>3, Picking
  <1>5. Rest(u) \in P
    BY <1>2, <1>4
  <1> QED BY <1>3, <1>5

(* The recursion a fold is defined by. *)
AddsUp(it, f, S) ==
  /\ it \in [SUBSET S -> Int]
  /\ it[{}] = 0
  /\ \A u \in (SUBSET S) \ {{}} : it[u] = f[Pick(u)] + it[Rest(u)]

LEMMA SumAddsUp ==
  ASSUME NEW S, IsFiniteSet(S), NEW f \in [S -> Int]
  PROVE  \E it : AddsUp(it, f, S) /\ Sum(f) = it[S]
  <1> DEFINE Small(k) == {u \in SUBSET S : Cardinality(u) <= k}
  <1> DEFINE Step(g, u) == IF u = {} THEN 0 ELSE f[Pick(u)] + g[Rest(u)]
  <1> DEFINE Good(k) == \E g \in [Small(k) -> Int] : \A u \in Small(k) : g[u] = Step(g, u)
  <1> DEFINE Bad == {k \in Nat : ~Good(k)}
  <1>1. \A u \in SUBSET S : Cardinality(u) \in Nat /\ (Cardinality(u) = 0 <=> u = {})
    BY FS_Subset, FS_CardinalityType, FS_EmptySet
  <1>2. Good(0)
    <2>1. Small(0) = {{}}
      BY <1>1
    <2> DEFINE z == [u \in Small(0) |-> 0]
    <2>2. z \in [Small(0) -> Int] /\ \A u \in Small(0) : z[u] = Step(z, u)
      BY <2>1
    <2> HIDE DEF z, Small, Step
    <2> QED BY <2>2
  <1>3. ASSUME NEW k \in Nat, Good(k) PROVE Good(k + 1)
    <2> PICK g \in [Small(k) -> Int] : \A u \in Small(k) : g[u] = Step(g, u)
      BY <1>3
    <2> DEFINE h == [u \in Small(k + 1) |-> Step(g, u)]
    <2>1. \A u \in Small(k + 1) \ {{}} : Rest(u) \in Small(k) /\ Pick(u) \in S
      BY <1>1, Picking
    <2>2. h \in [Small(k + 1) -> Int]
      BY <2>1
    <2>3. \A u \in Small(k) : u \in Small(k + 1) /\ h[u] = g[u]
      BY <1>1
    <2>4. \A u \in Small(k + 1) : h[u] = Step(h, u)
      BY <2>1, <2>3
    <2> QED BY <2>2, <2>4
  <1>4. Bad = {}
    <2> SUFFICES ASSUME Bad # {} PROVE FALSE
      OBVIOUS
    <2>1. PICK m \in Bad : \A k \in Bad : m <= k
      BY LeastElement
    <2> HIDE DEF Good
    <2>2. m \in Nat /\ m # 0 /\ ~Good(m)
      BY <1>2, <2>1
    <2>3. m - 1 \in Nat /\ m - 1 \notin Bad /\ m = (m - 1) + 1
      BY <2>1, <2>2
    <2>4. Good(m - 1)
      BY <2>3
    <2> QED BY <1>3, <2>2, <2>3, <2>4
  <1>5. Cardinality(S) \in Nat /\ Small(Cardinality(S)) = SUBSET S
    BY FS_CardinalityType, FS_Subset
  <1>6. Good(Cardinality(S))
    BY <1>4, <1>5
  <1>7. PICK g \in [SUBSET S -> Int] : \A u \in SUBSET S : g[u] = Step(g, u)
    BY <1>5, <1>6
  <1> DEFINE it == CHOOSE it : it = [u \in SUBSET S |-> Step(it, u)]
  <1>8. g = [u \in SUBSET S |-> Step(g, u)]
    BY <1>7
  <1>9. it = [u \in SUBSET S |-> Step(it, u)]
    BY <1>8
  <1>10. Sum(f) = it[S]
    BY DEF Sum, MapThenSumSet, MapThenFoldSet, Pick, Rest
  <1> HIDE DEF it
  <1>11. \A u \in SUBSET S : it[u] = Step(it, u)
    BY <1>9
  <1>12. it[{}] = 0
    BY <1>11
  <1> DEFINE P == {u \in SUBSET S : it[u] \in Int}
  <1>13. P = SUBSET S
    <2>1. \A u \in (SUBSET S) \ {{}} : Rest(u) \in P => u \in P
      BY <1>11, Picking
    <2>2. {} \in P
      BY <1>12
    <2> HIDE DEF P
    <2>3. P \in SUBSET SUBSET S
      BY DEF P
    <2> QED BY <2>1, <2>2, <2>3, SubsetInduction
  <1>14. it \in [SUBSET S -> Int]
    BY <1>9, <1>13
  <1>15. AddsUp(it, f, S)
    BY <1>11, <1>12, <1>14 DEF AddsUp
  <1> QED BY <1>10, <1>15

LEMMA SumType ==
  ASSUME NEW S, IsFiniteSet(S), NEW f \in [S -> Int]
  PROVE  Sum(f) \in Int
  <1>1. PICK F : AddsUp(F, f, S) /\ Sum(f) = F[S]
    BY SumAddsUp
  <1> QED BY <1>1 DEF AddsUp

LEMMA SumAdd ==
  ASSUME NEW S, IsFiniteSet(S), NEW f \in [S -> Int], NEW g \in [S -> Int]
  PROVE  Sum([x \in S |-> f[x] + g[x]]) = Sum(f) + Sum(g)
  <1> DEFINE h == [x \in S |-> f[x] + g[x]]
  <1>1. h \in [S -> Int]
    OBVIOUS
  <1>2. PICK F : AddsUp(F, f, S) /\ Sum(f) = F[S]
    BY SumAddsUp
  <1>3. PICK G : AddsUp(G, g, S) /\ Sum(g) = G[S]
    BY SumAddsUp
  <1>4. PICK H : AddsUp(H, h, S) /\ Sum(h) = H[S]
    BY <1>1, SumAddsUp
  <1> DEFINE P == {u \in SUBSET S : H[u] = F[u] + G[u]}
  <1>5. {} \in P
    BY <1>2, <1>3, <1>4 DEF AddsUp
  <1>6. ASSUME NEW u \in (SUBSET S) \ {{}}, Rest(u) \in P PROVE u \in P
    <2>1. /\ H[u] = f[Pick(u)] + g[Pick(u)] + H[Rest(u)]
          /\ F[u] = f[Pick(u)] + F[Rest(u)] /\ G[u] = g[Pick(u)] + G[Rest(u)]
      BY <1>2, <1>3, <1>4, Picking DEF AddsUp
    <2>2. /\ f[Pick(u)] \in Int /\ g[Pick(u)] \in Int
          /\ F[Rest(u)] \in Int /\ G[Rest(u)] \in Int /\ H[Rest(u)] = F[Rest(u)] + G[Rest(u)]
      BY <1>2, <1>3, <1>6, Picking DEF AddsUp
    <2> QED BY <2>1, <2>2
  <1>7. P = SUBSET S
    <2> P \in SUBSET SUBSET S
      OBVIOUS
    <2> HIDE DEF P
    <2> QED BY <1>5, <1>6, SubsetInduction
  <1> QED BY <1>2, <1>3, <1>4, <1>7

LEMMA SumScale ==
  ASSUME NEW S, IsFiniteSet(S), NEW f \in [S -> Int], NEW c \in Int
  PROVE  Sum([x \in S |-> c * f[x]]) = c * Sum(f)
  <1> DEFINE h == [x \in S |-> c * f[x]]
  <1>1. h \in [S -> Int]
    OBVIOUS
  <1>2. PICK F : AddsUp(F, f, S) /\ Sum(f) = F[S]
    BY SumAddsUp
  <1>3. PICK H : AddsUp(H, h, S) /\ Sum(h) = H[S]
    BY <1>1, SumAddsUp
  <1> DEFINE P == {u \in SUBSET S : H[u] = c * F[u]}
  <1>4. {} \in P
    BY <1>2, <1>3 DEF AddsUp
  <1>5. ASSUME NEW u \in (SUBSET S) \ {{}}, Rest(u) \in P PROVE u \in P
    <2>1. H[u] = c * f[Pick(u)] + H[Rest(u)] /\ F[u] = f[Pick(u)] + F[Rest(u)]
      BY <1>2, <1>3, Picking DEF AddsUp
    <2>2. f[Pick(u)] \in Int /\ F[Rest(u)] \in Int /\ H[Rest(u)] = c * F[Rest(u)]
      BY <1>2, <1>5, Picking DEF AddsUp
    <2>3. \A i, j \in Int : c * (i + j) = c * i + c * j
      OBVIOUS
    <2>4. H[u] = c * F[u]
      BY <2>1, <2>2, <2>3
    <2> QED BY <2>4
  <1>6. P = SUBSET S
    <2> P \in SUBSET SUBSET S
      OBVIOUS
    <2> HIDE DEF P
    <2> QED BY <1>4, <1>5, SubsetInduction
  <1> QED BY <1>2, <1>3, <1>6

LEMMA SumOfNaturals ==
  ASSUME NEW S, IsFiniteSet(S), NEW f \in [S -> Nat]
  PROVE  Sum(f) \in Nat /\ \A x \in S : f[x] <= Sum(f)
  <1>1. PICK F : AddsUp(F, f, S) /\ Sum(f) = F[S]
    BY SumAddsUp
  <1> DEFINE P == {u \in SUBSET S : F[u] \in Nat /\ \A x \in u : f[x] <= F[u]}
  <1>2. {} \in P
    BY <1>1 DEF AddsUp
  <1>3. ASSUME NEW u \in (SUBSET S) \ {{}}, Rest(u) \in P PROVE u \in P
    <2>1. F[u] = f[Pick(u)] + F[Rest(u)] /\ f[Pick(u)] \in Nat /\ F[Rest(u)] \in Nat
      BY <1>1, <1>3, Picking DEF AddsUp
    <2>2. \A x \in u : x = Pick(u) \/ x \in Rest(u)
      BY DEF Rest
    <2> QED BY <1>3, <2>1, <2>2
  <1>4. P = SUBSET S
    <2> P \in SUBSET SUBSET S
      OBVIOUS
    <2> HIDE DEF P
    <2> QED BY <1>2, <1>3, SubsetInduction
  <1> QED BY <1>1, <1>4

(* A set's members, counted one by one. *)
LEMMA SumOfMembers ==
  ASSUME NEW S, IsFiniteSet(S), NEW W \in SUBSET S
  PROVE  Sum([x \in S |-> IF x \in W THEN 1 ELSE 0]) = Cardinality(W)
  <1> DEFINE f == [x \in S |-> IF x \in W THEN 1 ELSE 0]
  <1>1. f \in [S -> Int]
    OBVIOUS
  <1>2. PICK F : AddsUp(F, f, S) /\ Sum(f) = F[S]
    BY <1>1, SumAddsUp
  <1> DEFINE P == {u \in SUBSET S : F[u] = Cardinality(u \intersect W)}
  <1>3. {} \in P
    BY <1>2, FS_EmptySet DEF AddsUp
  <1>4. ASSUME NEW u \in (SUBSET S) \ {{}}, Rest(u) \in P PROVE u \in P
    <2> DEFINE r == Rest(u) \intersect W
    <2>1. F[u] = f[Pick(u)] + Cardinality(r)
      BY <1>2, <1>4 DEF AddsUp
    <2>2. IsFiniteSet(r) /\ Pick(u) \notin r /\ u = Rest(u) \union {Pick(u)} /\ Pick(u) \in S
      BY Picking, FS_Subset
    <2>3. CASE Pick(u) \in W
      <3>1. u \intersect W = r \union {Pick(u)}
        BY <2>2, <2>3
      <3>2. Cardinality(r \union {Pick(u)}) = Cardinality(r) + 1 /\ Cardinality(r) \in Nat
        BY <2>2, FS_AddElement, FS_CardinalityType
      <3>3. f[Pick(u)] = 1
        BY <2>2, <2>3
      <3>4. F[u] = Cardinality(u \intersect W)
        <4> HIDE DEF f, r
        <4> QED BY <2>1, <3>1, <3>2, <3>3
      <3> QED BY <3>4
    <2>4. CASE Pick(u) \notin W
      <3>1. u \intersect W = r
        BY <2>2, <2>4
      <3>2. Cardinality(r) \in Nat
        BY <2>2, FS_CardinalityType
      <3> QED BY <2>1, <2>2, <2>4, <3>1, <3>2
    <2> QED BY <2>3, <2>4
  <1>5. P = SUBSET S
    <2> P \in SUBSET SUBSET S
      OBVIOUS
    <2> HIDE DEF P
    <2> QED BY <1>3, <1>4, SubsetInduction
  <1>6. S \intersect W = W
    OBVIOUS
  <1> QED BY <1>2, <1>5, <1>6

(* One value raised raises the sum by as much. *)
LEMMA SumRaised ==
  ASSUME NEW S, IsFiniteSet(S), NEW f \in [S -> Int], NEW x \in S, NEW d \in Int
  PROVE  Sum([f EXCEPT ![x] = @ + d]) = Sum(f) + d
  <1> DEFINE one == [y \in S |-> IF y \in {x} THEN 1 ELSE 0]
  <1> DEFINE g == [y \in S |-> d * one[y]]
  <1>1. one \in [S -> Int] /\ g \in [S -> Int]
    OBVIOUS
  <1>2. Sum(one) = 1
    <2>1. Cardinality({x}) = 1
      BY FS_Singleton
    <2>2. {x} \in SUBSET S
      OBVIOUS
    <2> QED BY <2>1, <2>2, SumOfMembers
  <1>3. Sum(g) = d * Sum(one)
    <2> HIDE DEF one
    <2> QED BY <1>1, SumScale
  <1>4. [f EXCEPT ![x] = @ + d] = [y \in S |-> f[y] + g[y]]
    <2>1. g[x] = d /\ \A y \in S \ {x} : g[y] = 0
      OBVIOUS
    <2> HIDE DEF g
    <2>2. ASSUME NEW y \in S PROVE [f EXCEPT ![x] = @ + d][y] = f[y] + g[y]
      <3>1. CASE y = x
        BY <2>1, <3>1
      <3>2. CASE y # x
        BY <2>1, <3>2
      <3> QED BY <3>1, <3>2
    <2> QED BY <2>2
  <1>5. Sum([y \in S |-> f[y] + g[y]]) = Sum(f) + Sum(g)
    <2> HIDE DEF g
    <2> QED BY <1>1, SumAdd
  <1> QED BY <1>2, <1>3, <1>4, <1>5

-----------------------------------------------------------------------------
(* The map's radius. *)
LEMMA HexCounts ==
  ASSUME NEW r \in Nat, NEW s \in Nat
  PROVE  hexCount(r) \in Nat /\ (r < s => hexCount(r) < hexCount(s))
  <1>1. 3 * r * (r + 1) = 3 * (r * r) + 3 * r /\ 3 * s * (s + 1) = 3 * (s * s) + 3 * s
    OBVIOUS
  <1>2. r * r \in Nat /\ s * s \in Nat
    OBVIOUS
  <1>3. r < s => r * r < s * s
    OBVIOUS
  <1> QED BY <1>1, <1>2, <1>3 DEF hexCount

(* The closed form is the root of the target, rounded down. *)
LEMMA ApproxIs ==
  ASSUME NEW t \in Nat \ {0}
  PROVE  LET a == Approx(t) IN
         a \in 0 .. t /\ 12*a*a <= 4*t - 1 /\ 12*(a+1)*(a+1) > 4*t - 1
  <1> DEFINE Above == {k \in Nat : 12*k*k > 4*t - 1}
  <1>1. t + 1 \in Above
    <2>1. 12*(t+1)*(t+1) = 12*(t*t) + 24*t + 12 /\ t*t \in Nat
      OBVIOUS
    <2> QED BY <2>1
  <1>2. PICK m \in Above : \A k \in Above : m <= k
    BY <1>1, LeastElement
  <1>3. m # 0 /\ m <= t + 1
    BY <1>1, <1>2
  <1> DEFINE b == m - 1
  <1>4. b \in 0 .. t /\ b \notin Above /\ b + 1 = m
    BY <1>2, <1>3
  <1>5. 12*b*b <= 4*t - 1 /\ 12*(b+1)*(b+1) > 4*t - 1
    BY <1>2, <1>4
  <1> HIDE DEF b
  <1> QED BY <1>4, <1>5 DEF Approx

(* The scan finds the best of what it is given, the smallest on a tie. *)
LEMMA NearestIs ==
  ASSUME NEW S \in SUBSET Nat, S # {}, NEW t \in Nat
  PROVE  LET n == Nearest(S, t) IN
         n \in S /\ \A s \in S :
           \/ abs(hexCount(n) - t) < abs(hexCount(s) - t)
           \/ abs(hexCount(n) - t) = abs(hexCount(s) - t) /\ n <= s
  <1> DEFINE Off(s) == abs(hexCount(s) - t)
  <1>1. \A s \in S : Off(s) \in Nat
    BY HexCounts DEF abs
  <1> DEFINE Offs == {Off(s) : s \in S}
  <1> HIDE DEF Off
  <1>2. PICK d \in Offs : \A e \in Offs : d <= e
    <2>1. Offs \in SUBSET Nat /\ Offs # {}
      BY <1>1
    <2> HIDE DEF Offs
    <2> QED BY <2>1, LeastElement
  <1> DEFINE Best == {s \in S : Off(s) = d}
  <1>3. PICK n \in Best : \A s \in Best : n <= s
    BY <1>2, LeastElement
  <1>4. n \in S /\ \A s \in S : Off(n) < Off(s) \/ (Off(n) = Off(s) /\ n <= s)
    BY <1>1, <1>2, <1>3
  <1> QED BY <1>4 DEF Off, Nearest

(* Beyond the window, on either side, the hexes only get more, or fewer, than the target
   by more. *)
LEMMA RadiusForIs ==
  ASSUME NEW t \in Nat \ {0}
  PROVE  /\ RadiusFor(t) \in Nat
         /\ \A r \in Nat :
              /\ abs(hexCount(RadiusFor(t)) - t) <= abs(hexCount(r) - t)
              /\ abs(hexCount(RadiusFor(t)) - t) = abs(hexCount(r) - t) => RadiusFor(t) <= r
  <1> DEFINE a == Approx(t)
  <1> DEFINE lo == IF a > 3 THEN a - 3 ELSE 0
  <1> DEFINE n == Nearest(lo .. a + 3, t)
  <1>1. a \in Nat /\ 12*a*a <= 4*t - 1 /\ 12*(a+1)*(a+1) > 4*t - 1
    BY ApproxIs
  <1> HIDE DEF a
  <1>2. lo .. a + 3 \in SUBSET Nat /\ lo .. a + 3 # {} /\ RadiusFor(t) = n
    BY <1>1 DEF RadiusFor, a
  <1>3. n \in lo .. a + 3 /\ \A s \in lo .. a + 3 :
          \/ abs(hexCount(n) - t) < abs(hexCount(s) - t)
          \/ abs(hexCount(n) - t) = abs(hexCount(s) - t) /\ n <= s
    <2> HIDE DEF lo, n
    <2> QED BY <1>2, NearestIs DEF n
  <1> HIDE DEF n
  <1>4. n \in Nat
    BY <1>2, <1>3
  <1>5. hexCount(a + 1) >= t
    BY <1>1 DEF hexCount
  <1>6. a > 0 => hexCount(a - 1) <= t
    BY <1>1 DEF hexCount
  <1>7. ASSUME NEW r \in Nat
        PROVE  \/ abs(hexCount(n) - t) < abs(hexCount(r) - t)
               \/ abs(hexCount(n) - t) = abs(hexCount(r) - t) /\ n <= r
    <2>1. CASE r \in lo .. a + 3
      BY <1>3, <2>1
    <2>2. CASE r > a + 3
      <3>1. a + 1 \in Nat /\ a + 1 \in lo .. a + 3 /\ a + 1 < r
        BY <1>1, <2>2
      <3>2. hexCount(a + 1) < hexCount(r) /\ hexCount(a + 1) \in Nat /\ hexCount(r) \in Nat
        BY <3>1, HexCounts
      <3>3. abs(hexCount(a + 1) - t) < abs(hexCount(r) - t)
        BY <1>5, <3>2 DEF abs
      <3>4. hexCount(n) \in Nat
        BY <1>4, HexCounts
      <3>5. \/ abs(hexCount(n) - t) < abs(hexCount(a + 1) - t)
            \/ abs(hexCount(n) - t) = abs(hexCount(a + 1) - t)
        BY <1>3, <3>1
      <3> QED BY <3>2, <3>3, <3>4, <3>5 DEF abs
    <2>3. CASE r < lo
      <3>1. a - 1 \in Nat /\ a - 1 \in lo .. a + 3 /\ r < a - 1 /\ a > 0
        BY <1>1, <2>3
      <3>2. hexCount(r) < hexCount(a - 1) /\ hexCount(a - 1) \in Nat /\ hexCount(r) \in Nat
        BY <3>1, HexCounts
      <3>3. abs(hexCount(a - 1) - t) < abs(hexCount(r) - t)
        BY <1>6, <3>1, <3>2 DEF abs
      <3>4. hexCount(n) \in Nat
        BY <1>4, HexCounts
      <3>5. \/ abs(hexCount(n) - t) < abs(hexCount(a - 1) - t)
            \/ abs(hexCount(n) - t) = abs(hexCount(a - 1) - t)
        BY <1>3, <3>1
      <3> QED BY <3>2, <3>3, <3>4, <3>5 DEF abs
    <2> QED BY <1>1, <2>1, <2>2, <2>3
  <1> QED
    <2>1. hexCount(n) \in Nat /\ \A r \in Nat : hexCount(r) \in Nat
      BY <1>4, HexCounts
    <2> QED BY <1>2, <1>7, <1>4, <2>1 DEF abs

-----------------------------------------------------------------------------
(* Placement. *)
Hexes == [q : Int, r : Int]

LEMMA Distances ==
  ASSUME NEW a \in Hexes, NEW b \in Hexes
  PROVE  Distance(a, b) \in Int /\ Distance(a, b) = Distance(b, a) /\ Distance(a, a) = 0
  <1>1. a.q - b.q \in Int /\ a.r - b.r \in Int
    BY DEF Hexes
  <1>2. \A x, y \in Int : /\ abs(x) + abs(y) + abs(x + y) \in Int
                          /\ abs(x) + abs(y) + abs(x + y) = abs(-x) + abs(-y) + abs(-x + -y)
    BY DEF abs
  <1>3. b.q - a.q = -(a.q - b.q) /\ b.r - a.r = -(a.r - b.r)
    BY DEF Hexes
  <1>4. a.q - a.q = 0 /\ a.r - a.r = 0
    BY DEF Hexes
  <1>5. Distance(a, b) \in Int /\ Distance(a, b) = Distance(b, a)
    <2> DEFINE D(x, y) == abs(x) + abs(y) + abs(x + y)
    <2>1. /\ D(a.q - b.q, a.r - b.r) \in Int
          /\ D(a.q - b.q, a.r - b.r) = D(b.q - a.q, b.r - a.r)
      <3>1. \A x, y \in Int : D(x, y) \in Int /\ D(x, y) = D(-x, -y)
        BY <1>2, Zenon
      <3> HIDE DEF D
      <3> QED BY <1>1, <1>3, <3>1
    <2>2. /\ Distance(a, b) = D(a.q - b.q, a.r - b.r) \div 2
          /\ Distance(b, a) = D(b.q - a.q, b.r - a.r) \div 2
      BY DEF Distance
    <2> HIDE DEF D
    <2> QED BY <2>1, <2>2
  <1>6. Distance(a, a) = 0
    BY <1>4 DEF Distance, abs
  <1> QED BY <1>5, <1>6

LEMMA MapHexes ==
  ASSUME NEW r \in Nat
  PROVE  HexesWithin(r) \subseteq Hexes
  BY DEF HexesWithin, Hexes

LEMMA TargetIsPositive ==
  ASSUME NEW s \in Settings, Valid(s)
  PROVE  Target(s.n, s.density) \in Nat \ {0}
  <1> DEFINE b == baselineHexes[s.density]
  <1>1. b \in Nat /\ MinSystems \in Nat /\ s.n \in Int /\ s.n >= MinSystems /\ b * MinSystems >= 50
    BY PlacementAssumption DEF Valid
  <1> HIDE DEF b
  <1>2. b * s.n \in Int /\ b * s.n >= b * MinSystems
    BY <1>1
  <1>3. 2 * b * s.n = 2 * (b * s.n)
    BY <1>1
  <1>4. 2 * b * s.n + 100 \in Int /\ 2 * b * s.n + 100 >= 200
    BY <1>1, <1>2, <1>3
  <1>5. (2 * b * s.n + 100) \div 200 \in Nat \ {0}
    BY <1>4
  <1> QED BY <1>5 DEF Target, b

(* What the loop of Place keeps: systems of the map, apart, fewer than asked for; and each
   hex the shuffle has been through is taken or too close to one that is. *)
Loop ==
  /\ Valid(settings)
  /\ radius = RadiusFor(Target(settings.n, settings.density)) /\ radius \in Nat
  /\ IsFiniteSet(placed) /\ placed \subseteq HexesWithin(radius)
  /\ \A a, b \in placed : a # b => Distance(a, b) >= settings.spacing
  /\ candidates \subseteq HexesWithin(radius)
  /\ \A h \in HexesWithin(radius) \ candidates :
       \E p \in placed : Distance(h, p) < settings.spacing

PlacementIInv ==
  /\ settings \in Settings
  /\ stage \in {"called", "invalid", "drawing", "placed", "infeasible"}
  /\ stage = "called" => placed = {}
  /\ stage = "invalid" => ~Valid(settings)
  /\ stage \in {"drawing", "placed", "infeasible"} => Loop
  /\ stage \in {"drawing", "infeasible"} => Cardinality(placed) < settings.n
  /\ stage = "placed" => Cardinality(placed) = settings.n
  /\ stage = "infeasible" => candidates = {}

LEMMA InitPlacementIInv == PlacementInit => PlacementIInv
  BY DEF PlacementInit, PlacementIInv

LEMMA NextPlacementIInv == PlacementIInv /\ [PlacementNext]_placement => PlacementIInv'
  <1> SUFFICES ASSUME PlacementIInv, [PlacementNext]_placement PROVE PlacementIInv'
    OBVIOUS
  <1>0. /\ settings \in Settings /\ settings.n \in Int /\ settings.spacing \in Int
        /\ Valid(settings) => settings.n >= 1 /\ settings.spacing >= 1
    BY PlacementAssumption DEF PlacementIInv, Valid, MinSpacing
  <1>1. CASE RefuseSettings
    BY <1>1 DEF PlacementIInv, RefuseSettings
  <1>2. CASE Shuffle
    <2>1. radius' \in Nat
      BY <1>2, TargetIsPositive, RadiusForIs DEF PlacementIInv, Shuffle
    <2>2. /\ stage = "called" /\ stage' = "drawing" /\ placed = {} /\ placed' = placed
          /\ settings' = settings /\ candidates' = HexesWithin(radius')
          /\ radius' = RadiusFor(Target(settings.n, settings.density)) /\ Valid(settings)
      BY <1>2 DEF PlacementIInv, Shuffle
    <2>3. IsFiniteSet({}) /\ Cardinality({}) = 0
      BY FS_EmptySet
    <2>4. Loop'
      BY <2>1, <2>2, <2>3 DEF Loop, Valid
    <2> QED BY <1>0, <2>2, <2>3, <2>4 DEF PlacementIInv
  <1>3. CASE \E h \in candidates : Draw(h)
    <2> PICK h \in candidates : Draw(h)
      BY <1>3
    <2>1. /\ stage = "drawing" /\ Loop /\ Cardinality(placed) < settings.n
          /\ candidates' = candidates \ {h}
          /\ placed' = IF FarEnough(h) THEN placed \union {h} ELSE placed
          /\ stage' = IF Cardinality(placed') = settings.n THEN "placed" ELSE stage
          /\ settings' = settings /\ radius' = radius
      BY DEF Draw, PlacementIInv
    <2>2. h \in HexesWithin(radius) /\ HexesWithin(radius) \subseteq Hexes
      BY <2>1, MapHexes DEF Loop
    <2>3. \A a, b \in HexesWithin(radius) :
            Distance(a, b) \in Int /\ Distance(a, b) = Distance(b, a) /\ Distance(a, a) = 0
      BY <2>2, Distances
    <2>4. Cardinality(placed) \in Nat /\ Cardinality(placed') \in Nat /\ IsFiniteSet(placed')
          /\ Cardinality(placed') <= settings.n
      <3>1. IsFiniteSet(placed) /\ Cardinality(placed) \in Nat
        BY <2>1, FS_CardinalityType DEF Loop
      <3>2. IsFiniteSet(placed \union {h})
            /\ Cardinality(placed \union {h}) \in {Cardinality(placed), Cardinality(placed) + 1}
        BY <3>1, FS_AddElement
      <3> QED BY <1>0, <2>1, <3>1, <3>2
    <2>5. \A a, b \in placed' : a # b => Distance(a, b) >= settings.spacing
      <3>1. CASE FarEnough(h)
        BY <2>1, <2>2, <2>3, <3>1 DEF Loop, FarEnough
      <3>2. CASE ~FarEnough(h)
        BY <2>1, <3>2 DEF Loop
      <3> QED BY <3>1, <3>2
    <2>6. \E p \in placed' : Distance(h, p) < settings.spacing
      <3>1. CASE FarEnough(h)
        BY <1>0, <2>1, <2>2, <2>3, <3>1 DEF Loop
      <3>2. CASE ~FarEnough(h)
        BY <1>0, <2>1, <2>2, <2>3, <3>2 DEF Loop, FarEnough
      <3> QED BY <3>1, <3>2
    <2>7. placed \subseteq placed' /\ placed' \subseteq HexesWithin(radius)
      BY <2>1, <2>2 DEF Loop
    <2>8. \A g \in HexesWithin(radius) \ candidates' :
            \E p \in placed' : Distance(g, p) < settings.spacing
      BY <2>1, <2>6, <2>7 DEF Loop
    <2>9. Loop'
      BY <2>1, <2>4, <2>5, <2>7, <2>8 DEF Loop, Valid
    <2> QED BY <1>0, <2>1, <2>4, <2>9 DEF PlacementIInv
  <1>4. CASE GiveUp
    BY <1>4 DEF PlacementIInv, GiveUp, Loop, Valid
  <1>5. CASE UNCHANGED placement
    BY <1>5 DEF PlacementIInv, placement, Loop, Valid
  <1> QED BY <1>1, <1>2, <1>3, <1>4, <1>5 DEF PlacementNext

LEMMA PlacementInvariant == PlacementSpec => []PlacementIInv
  BY InitPlacementIInv, NextPlacementIInv, PTL DEF PlacementSpec

(* Systems that are placed are as many as asked for, on the map, and apart: the loop of
   Place, for any map and any settings. *)
THEOREM SystemsAreApart == PlacementSpec => []PlacedApart
  <1>1. PlacementIInv => PlacedApart
    BY DEF PlacementIInv, Loop, PlacedApart
  <1> QED BY <1>1, PlacementInvariant, PTL

(* ErrInfeasible is returned only of a map with no room left. *)
THEOREM NoEarlySurrender == PlacementSpec => []InfeasibleMeansFull
  <1>1. PlacementIInv => InfeasibleMeansFull
    BY DEF PlacementIInv, Loop, InfeasibleMeansFull
  <1> QED BY <1>1, PlacementInvariant, PTL

(* The seven radii that Radius compares hold the nearest of all, whatever the target. *)
THEOREM WindowSuffices == PlacementSpec => []RadiusIsNearest
  <1>1. PlacementIInv => RadiusIsNearest
    <2> SUFFICES ASSUME PlacementIInv, stage # "called", Valid(settings)
                 PROVE  LET t == Target(settings.n, settings.density) IN
                        \A r \in 0 .. t :
                          /\ abs(hexCount(radius) - t) <= abs(hexCount(r) - t)
                          /\ abs(hexCount(radius) - t) = abs(hexCount(r) - t) => radius <= r
      BY DEF RadiusIsNearest
    <2> DEFINE t == Target(settings.n, settings.density)
    <2>1. t \in Nat \ {0}
      BY TargetIsPositive DEF PlacementIInv
    <2>2. radius = RadiusFor(t)
      BY DEF PlacementIInv, Loop
    <2> HIDE DEF t
    <2>3. \A r \in 0 .. t : r \in Nat
      BY <2>1
    <2>4. QED BY <2>1, <2>2, <2>3, RadiusForIs DEF t
  <1> QED BY <1>1, PlacementInvariant, PTL

-----------------------------------------------------------------------------
(* SystemContents. *)
LEMMA Rolls ==
  ASSUME NEW o \in Orbits, NEW k \in 0 .. RollBound
  PROVE  Roll(o, k) \in minHabitability .. maxHabitability
  <1>1. \A v \in Int : clamp(v, 0, 25) \in 0 .. 25
    BY DEF clamp
  <1>2. /\ orbitTable[o].n \in Int /\ orbitTable[o].sides \in Int /\ orbitTable[o].offset \in Int
        /\ orbitTable[o].n + orbitTable[o].offset <= 0
    <2> DEFINE Is(t, n, sides, offset) == t.n = n /\ t.sides = sides /\ t.offset = offset
    <2>1. Is(orbitTable[1], 3, 2, -3)
      BY DEF orbitTable
    <2>2. Is(orbitTable[2], 3, 3, -3)
      BY DEF orbitTable
    <2>3. Is(orbitTable[3], 5, 6, -5)
      BY DEF orbitTable
    <2>4. Is(orbitTable[4], 0, 0, 0)
      BY DEF orbitTable
    <2>5. Is(orbitTable[5], 5, 4, -5)
      BY DEF orbitTable
    <2>6. Is(orbitTable[6], 2, 8, -2)
      BY DEF orbitTable
    <2>7. Is(orbitTable[7], 2, 8, -4)
      BY DEF orbitTable
    <2>8. Is(orbitTable[8], 2, 8, -8)
      BY DEF orbitTable
    <2>9. Is(orbitTable[9], 2, 8, -12)
      BY DEF orbitTable
    <2>10. Is(orbitTable[10], 0, 0, 0)
      BY DEF orbitTable
    <2> QED BY <2>1, <2>2, <2>3, <2>4, <2>5, <2>6, <2>7, <2>8, <2>9, <2>10 DEF Orbits
  <1>3. Most(o) \in 0 .. 25
    BY <1>1, <1>2 DEF Most, minHabitability, maxHabitability
  <1>4. Least(o) = 0
    BY <1>2 DEF Least, clamp, minHabitability, maxHabitability
  <1>5. 0 + k \in 0 .. 25
    BY ContentsAssumption
  <1> QED BY <1>3, <1>4, <1>5 DEF Roll, minHabitability, maxHabitability

(* Whether the walk has come past an orbit in the round it is in, which is of the orbits
   3, 4, .. 10 and 2. *)
Passed(o) == IF (o + 6) % 9 < (orbit + 6) % 9 THEN 1 ELSE 0

(* The walk has gone k times round. *)
Rounds(k) ==
  \A o \in DOMAIN hab :
    hab[o] = IF Habitable(o) /\ o # 1
             THEN rolled[o] + Increase(o) * (k + Passed(o)) ELSE rolled[o]

Contents ==
  /\ DOMAIN hab \subseteq Orbits
  /\ hab \in [DOMAIN hab -> Nat] /\ rolled \in [DOMAIN hab -> Nat]
  /\ \A o \in DOMAIN hab : hab[o] \in minHabitability .. maxHabitability
  /\ total = Sum(hab)
  /\ hab = rolled \/ total <= minTotalHabitability + 1
  /\ \E k \in Nat : Rounds(k)

ContentsIInv ==
  /\ step \in {"called", "topUp", "done"}
  /\ step = "called" => hab = <<>> /\ rolled = <<>> /\ orbit = 3
  /\ orbit \in 2 .. 10
  /\ step # "called" => Contents
  /\ step = "done" /\ Cardinality(DOMAIN hab) >= largeSystemPlanets =>
       total >= minTotalHabitability

LEMMA ContentsInitially == ContentsInit => ContentsIInv
  BY DEF ContentsInit, ContentsIInv

LEMMA SomeOrbits ==
  ASSUME NEW L \in SUBSET Orbits
  PROVE  IsFiniteSet(L) /\ Cardinality(L) \in Nat
  <1>1. 1 \in Int /\ 10 \in Int
    OBVIOUS
  <1>2. IsFiniteSet(Orbits)
    BY <1>1, FS_Interval, Zenon DEF Orbits
  <1>3. IsFiniteSet(L)
    BY <1>2, FS_Subset
  <1> QED BY <1>3, FS_CardinalityType

LEMMA ContentsStep == ContentsIInv /\ [ContentsNext]_contents => ContentsIInv'
  <1> SUFFICES ASSUME ContentsIInv, [ContentsNext]_contents PROVE ContentsIInv'
    OBVIOUS
  <1>1. CASE \E L \in Layouts : Occupy(L)
    <2> PICK L \in Layouts : Occupy(L)
      BY <1>1
    <2>1. PICK k \in [{o \in L : Habitable(o)} -> 0 .. RollBound] :
            hab' = [o \in L |-> Roll(o, IF Habitable(o) THEN k[o] ELSE 0)]
      BY DEF Occupy
    <2>2. L \in SUBSET Orbits
      BY DEF Layouts, Orbits
    <2>3. \A o \in L : Roll(o, IF Habitable(o) THEN k[o] ELSE 0) \in 0 .. 25
      BY <2>2, Rolls, ContentsAssumption DEF minHabitability, maxHabitability
    <2>4. /\ DOMAIN hab' = L /\ hab' \in [L -> Nat] /\ \A o \in L : hab'[o] \in 0 .. 25
          /\ rolled' = hab' /\ total' = Sum(hab') /\ orbit' = 3
          /\ step' = IF Cardinality(L) < largeSystemPlanets THEN "done" ELSE "topUp"
      <3>1. /\ DOMAIN hab' = L /\ \A o \in L : hab'[o] \in 0 .. 25
            /\ hab' = [o \in L |-> hab'[o]]
        BY <2>1, <2>3
      <3>2. hab' \in [L -> Nat]
        BY <3>1
      <3>3. /\ rolled' = hab' /\ total' = Sum(hab') /\ orbit' = 3
            /\ step' = IF Cardinality(L) < largeSystemPlanets THEN "done" ELSE "topUp"
        BY DEF Occupy, ContentsIInv
      <3> QED BY <3>1, <3>2, <3>3
    <2>5. Rounds(0)'
      BY <2>2, <2>4 DEF Rounds, Passed, Increase, Orbits
    <2>6. Contents'
      BY <2>2, <2>4, <2>5 DEF Contents, minHabitability, maxHabitability
    <2>7. Cardinality(L) \in Nat
      BY <2>2, SomeOrbits
    <2> QED BY <2>4, <2>6, <2>7 DEF ContentsIInv, largeSystemPlanets
  <1>2. CASE TopUp
    <2>1. /\ step = "topUp" /\ step' = step /\ Contents /\ total < 9 /\ rolled' = rolled
          /\ orbit \in 2 .. 10 /\ orbit' = Onward(orbit)
      BY <1>2 DEF TopUp, ContentsIInv, minTotalHabitability
    <2> DEFINE L == DOMAIN hab
    <2>2. L \in SUBSET Orbits /\ IsFiniteSet(L) /\ hab \in [L -> Nat] /\ rolled \in [L -> Nat]
      BY <2>1, SomeOrbits DEF Contents
    <2>3. PICK k \in Nat : Rounds(k)
      BY <2>1 DEF Contents
    <2>4. orbit' \in 2 .. 10
      BY <2>1 DEF Onward
    <2>5. PICK k1 \in Nat : \A o \in 2 .. 10 :
            k1 + Passed(o)' = IF o = orbit THEN k + Passed(o) + 1 ELSE k + Passed(o)
      <3> DEFINE j == IF orbit = 2 THEN k + 1 ELSE k
      <3>1. j \in Nat /\ \A o \in 2 .. 10 :
              j + Passed(o)' = IF o = orbit THEN k + Passed(o) + 1 ELSE k + Passed(o)
        BY <2>1 DEF Passed, Onward
      <3> QED BY <3>1
    <2>6. Increase(orbit) \in {1, 2}
      BY DEF Increase
    <2>7. CASE orbit \in L /\ Habitable(orbit)
      <3>1. /\ hab' = [hab EXCEPT ![orbit] = @ + Increase(orbit)]
            /\ total' = total + Increase(orbit)
        BY <1>2, <2>7 DEF TopUp
      <3>2. DOMAIN hab' = L /\ hab' \in [L -> Nat]
            /\ hab'[orbit] = hab[orbit] + Increase(orbit)
            /\ \A o \in L \ {orbit} : hab'[o] = hab[o]
        BY <2>2, <2>6, <2>7, <3>1
      <3>3. total' = Sum(hab')
        <4>1. hab \in [L -> Int] /\ Increase(orbit) \in Int
          BY <2>2, <2>6
        <4>2. Sum([hab EXCEPT ![orbit] = @ + Increase(orbit)]) = Sum(hab) + Increase(orbit)
          BY <2>2, <2>7, <4>1, SumRaised
        <4> QED BY <2>1, <3>1, <4>2 DEF Contents
      <3>4. total \in Nat /\ hab[orbit] <= total
        BY <2>1, <2>2, <2>7, SumOfNaturals DEF Contents
      <3>5. total' <= 10 /\ \A o \in L : hab'[o] \in 0 .. 25
        BY <2>1, <2>2, <2>6, <3>1, <3>2, <3>4
           DEF Contents, minHabitability, maxHabitability
      <3>6. Rounds(k1)'
        <4> SUFFICES ASSUME NEW o \in L
                     PROVE  hab'[o] = IF Habitable(o) /\ o # 1
                                      THEN rolled[o] + Increase(o) * (k1 + Passed(o)') ELSE rolled[o]
          BY <2>1, <3>2 DEF Rounds
        <4>1. o \in 1 .. 10 /\ Passed(o) \in {0, 1} /\ Increase(o) \in {1, 2} /\ rolled[o] \in Nat
          BY <2>2 DEF Orbits, Passed, Increase
        <4>2. hab[o] = IF Habitable(o) /\ o # 1
                       THEN rolled[o] + Increase(o) * (k + Passed(o)) ELSE rolled[o]
          BY <2>3 DEF Rounds
        <4>3. CASE o = orbit
          <5>1. Increase(o) * (k + Passed(o) + 1) = Increase(o) * (k + Passed(o)) + Increase(o)
            BY <4>1
          <5> QED BY <2>1, <2>5, <2>7, <3>2, <4>1, <4>2, <4>3, <5>1
        <4>4. CASE o # orbit
          BY <2>5, <3>2, <4>1, <4>2, <4>4
        <4> QED BY <4>3, <4>4
      <3>7. Contents'
        BY <2>1, <2>2, <2>5, <3>2, <3>3, <3>5, <3>6
           DEF Contents, minHabitability, maxHabitability, minTotalHabitability
      <3> QED BY <2>1, <2>4, <3>7 DEF ContentsIInv
    <2>8. CASE ~(orbit \in L /\ Habitable(orbit))
      <3>1. hab' = hab /\ total' = total
        BY <1>2, <2>8 DEF TopUp
      <3>2. Rounds(k1)'
        <4> SUFFICES ASSUME NEW o \in L
                     PROVE  hab[o] = IF Habitable(o) /\ o # 1
                                     THEN rolled[o] + Increase(o) * (k1 + Passed(o)') ELSE rolled[o]
          BY <2>1, <3>1 DEF Rounds
        <4>1. o \in 1 .. 10
          BY <2>2 DEF Orbits
        <4> QED BY <2>3, <2>5, <2>8, <4>1 DEF Rounds
      <3>3. Contents'
        BY <2>1, <2>5, <3>1, <3>2 DEF Contents
      <3> QED BY <2>1, <2>4, <3>3 DEF ContentsIInv
    <2> QED BY <2>7, <2>8
  <1>3. CASE Enough
    BY <1>3 DEF Enough, ContentsIInv, Contents, Rounds, Passed
  <1>4. CASE UNCHANGED contents
    BY <1>4 DEF contents, ContentsIInv, Contents, Rounds, Passed
  <1> QED BY <1>1, <1>2, <1>3, <1>4 DEF ContentsNext

LEMMA ContentsInvariant == ContentsSpec => []ContentsIInv
  BY ContentsInitially, ContentsStep, PTL DEF ContentsSpec

(* Large systems end with a habitability of nine, or what they were rolled, and the
   top-up, which does not clamp, raises no planet past the ceiling. *)
THEOREM LargeSystemsAreLivable == ContentsSpec => []ToppedUp
  <1>1. ContentsIInv => ToppedUp
    BY DEF ContentsIInv, Contents, ToppedUp
  <1> QED BY <1>1, ContentsInvariant, PTL

(* Topping up goes round the planets, whatever orbits they are in. *)
THEOREM TopUpGoesRound == ContentsSpec => []TopUpTakesTurns
  <1>1. ContentsIInv => TopUpTakesTurns
    <2> SUFFICES ASSUME ContentsIInv, NEW o \in DOMAIN hab
                 PROVE  IF Habitable(o) /\ o # 1
                        THEN \A p \in DOMAIN hab \ {1} :
                               Habitable(p) => Visits(o) - Visits(p) \in -1 .. 1
                        ELSE hab[o] = rolled[o]
      BY DEF TopUpTakesTurns
    <2>1. step # "called" /\ Contents
      BY DEF ContentsIInv
    <2>2. PICK k \in Nat : Rounds(k)
      BY <2>1 DEF Contents
    <2>3. ASSUME NEW p \in DOMAIN hab \ {1}, Habitable(p)
          PROVE  Visits(p) \in {k, k + 1}
      <3>1. Passed(p) \in {0, 1} /\ Increase(p) \in {1, 2} /\ rolled[p] \in Nat
        BY <2>1 DEF Passed, Increase, Contents
      <3>2. hab[p] - rolled[p] = Increase(p) * (k + Passed(p))
        BY <2>2, <2>3, <3>1 DEF Rounds
      <3>3. (Increase(p) * (k + Passed(p))) \div Increase(p) = k + Passed(p)
        BY <3>1
      <3> QED BY <3>1, <3>2, <3>3 DEF Visits
    <2>4. Habitable(o) /\ o # 1 => \A p \in DOMAIN hab \ {1} :
            Habitable(p) => Visits(o) - Visits(p) \in -1 .. 1
      BY <2>3
    <2> QED BY <2>2, <2>4 DEF Rounds
  <1> QED BY <1>1, ContentsInvariant, PTL

-----------------------------------------------------------------------------
(* Deposits. *)
LEMMA ThreeResources == IsFiniteSet(Resources) /\ Cardinality(Resources) = 3
  <1>0. IsFiniteSet({"fuel"}) /\ Cardinality({"fuel"}) = 1
    BY FS_Singleton
  <1>1. IsFiniteSet({"fuel", "mtls"}) /\ Cardinality({"fuel", "mtls"}) = 2
    <2>1. {"fuel", "mtls"} = {"fuel"} \union {"mtls"} /\ "mtls" \notin {"fuel"}
      OBVIOUS
    <2>2. IsFiniteSet({"fuel"} \union {"mtls"}) /\ Cardinality({"fuel"} \union {"mtls"}) = 1 + 1
      BY <1>0, <2>1, FS_AddElement
    <2> QED BY <2>1, <2>2
  <1>2. Resources = {"fuel", "mtls"} \union {"nmtl"} /\ "nmtl" \notin {"fuel", "mtls"}
    BY DEF Resources
  <1>3. IsFiniteSet({"fuel", "mtls"} \union {"nmtl"})
        /\ Cardinality({"fuel", "mtls"} \union {"nmtl"}) = 2 + 1
    BY <1>1, <1>2, FS_AddElement
  <1> QED BY <1>2, <1>3

LEMMA PerPlanetIs ==
  ASSUME NEW F, NEW f \in PerPlanet(F)
  PROVE  DOMAIN f = DOMAIN F /\ \A i \in DOMAIN F : f[i] \in F[i]
  BY DEF PerPlanet

(* A planet has a share of one resource at least, that of high affinity. *)
LEMMA SharesAre ==
  ASSUME NEW t \in PlanetTypes, NEW s \in rollShares(t)
  PROVE  s \in [Resources -> Nat] /\ \E r \in Resources : s[r] > 0
  <1>1. \E a, b, c \in Resources :
          a # b /\ a # c /\ b # c /\ processingOrder(t) = <<a, b, c>> /\ Resources = {a, b, c}
    <2>1. CASE t = "rocky"
      BY <2>1 DEF processingOrder, Resources
    <2>2. CASE t = "asteroid belt"
      <3>1. processingOrder(t) = <<"mtls", "nmtl", "fuel">>
        BY <2>2 DEF processingOrder
      <3> QED BY <3>1 DEF Resources
    <2>3. CASE t = "gas giant"
      <3>1. processingOrder(t) = <<"nmtl", "fuel", "mtls">>
        BY <2>3 DEF processingOrder
      <3> QED BY <3>1 DEF Resources
    <2> QED BY <2>1, <2>2, <2>3 DEF PlanetTypes
  <1>2. \A r \in Resources : affinityOf(t, r) \in 1 .. 3
    <2>1. \A r \in Resources : \E k \in 1 .. 3 : processingOrder(t)[k] = r
      BY <1>1
    <2> QED BY <2>1 DEF affinityOf
  <1>3. \E r \in Resources : affinityOf(t, r) = 1
    <2> PICK a \in Resources, b \in Resources, c \in Resources :
          a # b /\ a # c /\ processingOrder(t) = <<a, b, c>>
      BY <1>1
    <2>1. affinityOf(t, a) \in 1 .. 3 /\ processingOrder(t)[affinityOf(t, a)] = a
      BY DEF affinityOf
    <2> QED BY <2>1
  <1> DEFINE plus == <<4, 1, -1>>
  <1>4. plus[1] = 4 /\ plus[2] = 1 /\ plus[3] = -1
    OBVIOUS
  <1>5. PICK d \in [Resources -> Faces] : s = [r \in Resources |-> d[r] + plus[affinityOf(t, r)]]
    BY DEF rollShares
  <1> HIDE DEF plus
  <1>6. \A r \in Resources : d[r] \in 1 .. 3
    BY DepositsAssumption
  <1>7. \A r \in Resources : s[r] = d[r] + plus[affinityOf(t, r)] /\ s[r] \in Nat
    BY <1>2, <1>4, <1>5, <1>6
  <1>8. s \in [Resources -> Nat]
    BY <1>5, <1>7
  <1> QED BY <1>3, <1>4, <1>6, <1>7, <1>8

(* Distributing an endowment keeps apart who has some and who has none. *)
LEMMA AmountsAre ==
  ASSUME NEW sh, IsFiniteSet(DOMAIN sh), \A i \in DOMAIN sh : sh[i] \in [Resources -> Nat]
  PROVE  DOMAIN Distribute(sh) = DOMAIN sh
         /\ \A i \in DOMAIN sh :
              /\ Distribute(sh)[i] \in [Resources -> Nat]
              /\ \A r \in Resources : Distribute(sh)[i][r] > 0 <=> sh[i][r] > 0
  <1> DEFINE sum == [r \in Resources |-> Sum([i \in DOMAIN sh |-> sh[i][r]])]
  <1> DEFINE occurs == [r \in Resources |-> IF sum[r] > 0 THEN sum[r] ELSE 1]
  <1> DEFINE over == occurs["fuel"] * occurs["mtls"] * occurs["nmtl"]
  <1> DEFINE scale == [r \in Resources |-> Endowment[r] * (over \div occurs[r])]
  <1>1. Distribute(sh) = [i \in DOMAIN sh |-> [r \in Resources |-> scale[r] * sh[i][r]]]
    BY DEF Distribute
  <1>2. ASSUME NEW r \in Resources PROVE sum[r] \in Nat
    <2> DEFINE f == [i \in DOMAIN sh |-> sh[i][r]]
    <2>1. f \in [DOMAIN sh -> Nat]
      OBVIOUS
    <2> HIDE DEF f
    <2>2. Sum(f) \in Nat
      BY <2>1, SumOfNaturals
    <2> QED BY <2>2 DEF f
  <1> HIDE DEF sum
  <1>3. \A r \in Resources : occurs[r] \in Nat \ {0}
    BY <1>2
  <1> HIDE DEF occurs
  <1>4. over \in Nat \ {0} /\ \A r \in Resources : over >= occurs[r]
    <2>1. \A x, y \in Nat \ {0} : x * y \in Nat \ {0} /\ x * y >= x /\ x * y >= y
      OBVIOUS
    <2>2. /\ occurs["fuel"] \in Nat \ {0} /\ occurs["mtls"] \in Nat \ {0}
          /\ occurs["nmtl"] \in Nat \ {0}
      BY <1>3 DEF Resources
    <2>3. /\ occurs["fuel"] * occurs["mtls"] \in Nat \ {0}
          /\ occurs["fuel"] * occurs["mtls"] >= occurs["fuel"]
          /\ occurs["fuel"] * occurs["mtls"] >= occurs["mtls"]
      BY <2>1, <2>2
    <2>4. over \in Nat \ {0} /\ over >= occurs["fuel"] * occurs["mtls"] /\ over >= occurs["nmtl"]
      BY <2>1, <2>2, <2>3
    <2> HIDE DEF over
    <2> QED BY <2>2, <2>3, <2>4 DEF Resources
  <1> HIDE DEF over
  <1>5. \A r \in Resources : scale[r] \in Nat \ {0}
    <2>1. \A x, y \in Nat \ {0} : x >= y => x \div y \in Nat \ {0}
      <3> SUFFICES ASSUME NEW x \in Nat \ {0}, NEW y \in Nat \ {0}, x >= y
                   PROVE  x \div y \in Nat \ {0}
        OBVIOUS
      <3>1. x \div y \in Int /\ x = y * (x \div y) + (x % y) /\ x % y \in 0 .. y - 1
        OBVIOUS
      <3>2. x \div y # 0
        BY <3>1
      <3> QED BY <3>1, <3>2
    <2>2. \A x, y \in Nat \ {0} : x * y \in Nat \ {0}
      OBVIOUS
    <2>3. \A r \in Resources : Endowment[r] \in Nat \ {0}
      BY DepositsAssumption
    <2> QED BY <1>3, <1>4, <2>1, <2>2, <2>3
  <1> HIDE DEF scale
  <1>6. \A x \in Nat \ {0}, y \in Nat : x * y \in Nat /\ (x * y > 0 <=> y > 0)
    OBVIOUS
  <1> QED BY <1>1, <1>5, <1>6

(* What is known of a planet when its deposits are shared out. *)
Ready(i) ==
  /\ types[i] \in PlanetTypes
  /\ shares[i] \in [Resources -> Nat] /\ amount[i] \in [Resources -> Nat]
  /\ \A r \in Resources : amount[i][r] > 0 <=> shares[i][r] > 0
  /\ Present(i) # {}
  /\ count[i] \in Nat /\ count[i] > 3

(* Largest remainder. *)
Fair(i) ==
  /\ Sum(slots[i]) = count[i]
  /\ \A r \in Resources : slots[i][r] > 0 <=> shares[i][r] > 0
  /\ \A r \in Present(i) :
       /\ (slots[i][r] - 1) * TotalAmount(i) - Remaining(i) * amount[i][r]
            \in 1 - TotalAmount(i) .. TotalAmount(i) - 1
       /\ \A s \in Present(i) :
            amount[i][r] > amount[i][s] => slots[i][r] >= slots[i][s]

(* Whole parts and remainders. *)
LEMMA Parts ==
  ASSUME NEW R \in Nat, NEW a \in Nat, NEW T \in Nat \ {0}
  PROVE  /\ (R * a) \div T \in Nat /\ (R * a) % T \in 0 .. T - 1
         /\ R * a = T * ((R * a) \div T) + ((R * a) % T)
         /\ a = 0 => (R * a) \div T = 0 /\ (R * a) % T = 0
  <1>1. ASSUME NEW x \in Nat
        PROVE  x \div T \in Nat /\ x % T \in 0 .. T - 1 /\ x = T * (x \div T) + (x % T)
    <2>1. x \div T \in Int /\ x % T \in 0 .. T - 1 /\ x = T * (x \div T) + (x % T)
      OBVIOUS
    <2>2. \A q \in Int : q < 0 => T * q <= -T
      OBVIOUS
    <2> QED BY <2>1, <2>2
  <1>2. R * a \in Nat /\ (a = 0 => R * a = 0)
    OBVIOUS
  <1>3. 0 \div T = 0 /\ 0 % T = 0
    OBVIOUS
  <1> QED BY <1>1, <1>2, <1>3

LEMMA LargestRemainder ==
  ASSUME NEW i, Ready(i), slots[i] \in AssignSlots(i)
  PROVE  Fair(i)
  <1> DEFINE P == Present(i)
  <1> DEFINE a == amount[i]
  <1> DEFINE R == Remaining(i)
  <1> DEFINE T == TotalAmount(i)
  <1> DEFINE whole == [r \in Resources |-> Whole(i, r)]
  <1> DEFINE part == [r \in Resources |-> Fraction(i, r)]
  <1>1. IsFiniteSet(Resources) /\ a \in [Resources -> Nat] /\ P \in SUBSET Resources
    BY ThreeResources DEF Ready, Present
  <1>2. Cardinality(P) \in Nat /\ Cardinality(P) <= 3
    BY <1>1, ThreeResources, FS_Subset, FS_CardinalityType
  <1>3. R \in Nat \ {0} /\ count[i] = Cardinality(P) + R
    BY <1>2 DEF Ready, Remaining
  <1>4. T \in Nat \ {0}
    <2>1. Sum(a) \in Nat /\ \A r \in Resources : a[r] <= Sum(a)
      BY <1>1, SumOfNaturals
    <2>2. PICK r \in Resources : a[r] > 0
      BY DEF Ready, Present
    <2> QED BY <1>1, <2>1, <2>2 DEF TotalAmount
  <1>5. ASSUME NEW r \in Resources
        PROVE  /\ Whole(i, r) \in Nat /\ Fraction(i, r) \in 0 .. T - 1
               /\ R * a[r] = T * Whole(i, r) + Fraction(i, r)
               /\ r \notin P => Whole(i, r) = 0 /\ Fraction(i, r) = 0
    <2>1. r \notin P => a[r] = 0
      BY <1>1 DEF Present
    <2>2. Whole(i, r) = (R * a[r]) \div T /\ Fraction(i, r) = (R * a[r]) % T
      BY DEF Whole, Fraction
    <2>3. a[r] \in Nat
      BY <1>1
    <2> HIDE DEF a, R, T
    <2>4. R \in Nat
      BY <1>3
    <2>5. /\ (R * a[r]) \div T \in Nat /\ (R * a[r]) % T \in 0 .. T - 1
          /\ R * a[r] = T * ((R * a[r]) \div T) + ((R * a[r]) % T)
          /\ a[r] = 0 => (R * a[r]) \div T = 0 /\ (R * a[r]) % T = 0
      BY <1>4, <2>3, <2>4, Parts, Zenon
    <2> QED BY <2>1, <2>2, <2>5, Zenon
  <1>6. PICK W \in Winners(i) :
          slots[i] = [r \in Resources |->
             IF r \in P THEN Reserved(i)[r] + Whole(i, r) + (IF r \in W THEN 1 ELSE 0) ELSE 0]
    BY <1>3 DEF AssignSlots, Ready
  <1>7. /\ W \in SUBSET P /\ Cardinality(W) = Leftover(i)
        /\ \A w \in W, r \in P \ W : ~Before(i, r, w)
    BY DEF Winners
  <1>8. \A r \in Resources : slots[i][r] =
          IF r \in P THEN 1 + Whole(i, r) + (IF r \in W THEN 1 ELSE 0) ELSE 0
    BY <1>1, <1>6 DEF Reserved
  <1>9. whole \in [Resources -> Nat] /\ part \in [Resources -> Nat]
    BY <1>4, <1>5
  <1>10. Sum(whole) \in Nat /\ Sum(part) \in Nat
    <2> HIDE DEF whole, part
    <2> QED BY <1>1, <1>9, SumOfNaturals
  <1>11. Leftover(i) = R - Sum(whole)
    BY DEF Leftover
  (* The leftover slots are the remainders' worth. *)
  <1>12. T * Leftover(i) = Sum(part)
    <2> DEFINE ra == [r \in Resources |-> R * a[r]]
    <2> DEFINE tw == [r \in Resources |-> T * whole[r]]
    <2>1. ra = [r \in Resources |-> tw[r] + part[r]]
      BY <1>5
    <2>2. Sum(ra) = R * Sum(a)
      BY <1>1, <1>3, SumScale
    <2>3. tw \in [Resources -> Int] /\ part \in [Resources -> Int]
      BY <1>4, <1>9
    <2>4. Sum(tw) = T * Sum(whole)
      <3> HIDE DEF whole, T
      <3> QED BY <1>1, <1>4, <1>9, SumScale
    <2>5. Sum([r \in Resources |-> tw[r] + part[r]]) = Sum(tw) + Sum(part)
      <3> HIDE DEF tw, part
      <3> QED BY <1>1, <2>3, SumAdd
    <2>6. R * T = T * Sum(whole) + Sum(part)
      BY <2>1, <2>2, <2>4, <2>5 DEF TotalAmount
    <2>7. \A x, y, z \in Int : x * (y - z) = y * x - x * z
      OBVIOUS
    <2> HIDE DEF R, T, whole, part
    <2>8. T * (R - Sum(whole)) = R * T - T * Sum(whole)
      BY <1>3, <1>4, <1>10, <2>7
    <2> QED BY <1>3, <1>4, <1>10, <1>11, <2>6, <2>8
  (* And so go to resources that have one. *)
  <1>13. ASSUME NEW w \in W, Fraction(i, w) = 0 PROVE FALSE
    <2> DEFINE Pos == {r \in Resources : Fraction(i, r) > 0}
    <2>1. Pos \in SUBSET W /\ w \notin Pos
      <3> SUFFICES ASSUME NEW r \in Pos, r \notin W PROVE FALSE
        BY <1>5, <1>13
      <3>1. r \in P \ W
        BY <1>5
      <3>2. Before(i, r, w)
        BY <1>13 DEF Before
      <3> QED BY <1>7, <3>1, <3>2
    <2>2. IsFiniteSet(W) /\ Cardinality(W) \in Nat
      BY <1>1, <1>7, FS_Subset, FS_CardinalityType
    <2>3. Cardinality(Pos) <= Cardinality(W) /\ Cardinality(Pos) # Cardinality(W)
          /\ Cardinality(Pos) \in Nat
      <3> HIDE DEF Pos
      <3> QED BY <2>1, <2>2, FS_Subset, FS_CardinalityType
    <2> DEFINE one == [r \in Resources |-> IF r \in Pos THEN 1 ELSE 0]
    <2> DEFINE t1 == [r \in Resources |-> T * one[r]]
    <2> DEFINE rest == [r \in Resources |-> (-1) * part[r]]
    <2> DEFINE gap == [r \in Resources |-> t1[r] + rest[r]]
    <2>4. /\ one \in [Resources -> Int] /\ t1 \in [Resources -> Int] /\ rest \in [Resources -> Int]
          /\ part \in [Resources -> Int]
      BY <1>4, <1>9
    <2>5. Sum(one) = Cardinality(Pos)
      <3>1. Pos \in SUBSET Resources
        OBVIOUS
      <3> HIDE DEF Pos
      <3> QED BY <1>1, <3>1, SumOfMembers
    <2>6. Sum(t1) = T * Sum(one)
      <3> HIDE DEF one, T
      <3> QED BY <1>1, <1>4, <2>4, SumScale
    <2>7. Sum(rest) = (-1) * Sum(part)
      <3>1. \A c \in Int : Sum([r \in Resources |-> c * part[r]]) = c * Sum(part)
        <4> HIDE DEF part
        <4> QED BY <1>1, <2>4, SumScale
      <3> HIDE DEF part
      <3> QED BY <3>1
    <2>8. Sum(gap) = Sum(t1) + Sum(rest)
      <3> HIDE DEF t1, rest
      <3> QED BY <1>1, <2>4, SumAdd
    <2>9. gap \in [Resources -> Nat]
      <3> SUFFICES ASSUME NEW r \in Resources PROVE gap[r] \in Nat
        OBVIOUS
      <3>1. part[r] \in 0 .. T - 1 /\ one[r] \in {0, 1} /\ (one[r] = 0 => part[r] = 0)
        BY <1>5
      <3>2. gap[r] = T * one[r] + (-1) * part[r]
        OBVIOUS
      <3> HIDE DEF part, one, gap, T
      <3> QED BY <1>4, <3>1, <3>2
    <2>10. Sum(gap) \in Nat
      <3> HIDE DEF gap
      <3> QED BY <1>1, <2>9, SumOfNaturals
    <2>11. T * Cardinality(Pos) >= T * Cardinality(W)
      <3>1. /\ Sum(gap) = T * Cardinality(Pos) + (-1) * Sum(part)
            /\ Sum(part) = T * Cardinality(W)
        BY <1>7, <1>12, <2>5, <2>6, <2>7, <2>8
      <3> HIDE DEF gap, part, Pos, T
      <3> QED BY <1>4, <1>10, <2>2, <2>3, <2>10, <3>1
    <2> HIDE DEF Pos, T
    <2> QED BY <1>4, <2>2, <2>3, <2>11
  <1>14. Sum(slots[i]) = count[i]
    <2> DEFINE inP == [r \in Resources |-> IF r \in P THEN 1 ELSE 0]
    <2> DEFINE inW == [r \in Resources |-> IF r \in W THEN 1 ELSE 0]
    <2> DEFINE ww == [r \in Resources |-> whole[r] + inW[r]]
    <2> DEFINE all == [r \in Resources |-> inP[r] + ww[r]]
    <2>1. slots[i] = all
      <3>1. \A r \in Resources : slots[i][r] = all[r]
        BY <1>5, <1>7, <1>8
      <3> QED BY <1>6, <3>1
    <2>2. Sum(inP) = Cardinality(P) /\ Sum(inW) = Cardinality(W)
      <3> W \in SUBSET Resources
        BY <1>1, <1>7
      <3> HIDE DEF P
      <3> QED BY <1>1, SumOfMembers
    <2>3. /\ inP \in [Resources -> Int] /\ inW \in [Resources -> Int]
          /\ whole \in [Resources -> Int]
      BY <1>9
    <2>4. Sum(ww) = Sum(whole) + Sum(inW) /\ ww \in [Resources -> Int]
      <3> HIDE DEF whole, inW
      <3> QED BY <1>1, <2>3, SumAdd
    <2>5. Sum(all) = Sum(inP) + Sum(ww)
      <3> HIDE DEF ww, inP
      <3> QED BY <1>1, <2>3, <2>4, SumAdd
    <2> HIDE DEF whole, all, ww, inP, inW, R
    <2> QED BY <1>2, <1>3, <1>7, <1>10, <1>11, <2>1, <2>2, <2>4, <2>5
  <1>15. \A r \in Resources : slots[i][r] > 0 <=> shares[i][r] > 0
    BY <1>1, <1>5, <1>8 DEF Ready, Present
  <1>16. ASSUME NEW r \in P
         PROVE  (slots[i][r] - 1) * T - R * a[r] \in 1 - T .. T - 1
    <2> DEFINE b == IF r \in W THEN 1 ELSE 0
    <2>1. /\ slots[i][r] - 1 = Whole(i, r) + b /\ Whole(i, r) \in Nat
          /\ R * a[r] = T * Whole(i, r) + Fraction(i, r) /\ Fraction(i, r) \in 0 .. T - 1
          /\ r \in W => Fraction(i, r) # 0
      BY <1>1, <1>5, <1>8, <1>13
    <2>2. (Whole(i, r) + b) * T = T * Whole(i, r) + b * T
      BY <1>4, <2>1
    <2>3. b * T = IF r \in W THEN T ELSE 0
      BY <1>4
    <2> DEFINE tw == T * Whole(i, r)
    <2>4. tw \in Nat
      BY <1>4, <2>1
    <2> HIDE DEF b, T, R, a, tw
    <2>5. (slots[i][r] - 1) * T - R * a[r] = (tw + b * T) - (tw + Fraction(i, r))
      BY <2>1, <2>2 DEF tw
    <2> QED BY <1>4, <2>1, <2>3, <2>4, <2>5
  <1>17. ASSUME NEW r \in P, NEW q \in P, a[r] > a[q]
         PROVE  slots[i][r] >= slots[i][q]
    <2> DEFINE x == Whole(i, r)
    <2> DEFINE y == Whole(i, q)
    <2> DEFINE f == Fraction(i, r)
    <2> DEFINE g == Fraction(i, q)
    <2>1. /\ x \in Nat /\ y \in Nat /\ f \in 0 .. T - 1 /\ g \in 0 .. T - 1
          /\ R * a[r] = T * x + f /\ R * a[q] = T * y + g
      BY <1>1, <1>5
    <2>2. R * a[r] > R * a[q]
      BY <1>1, <1>3, <1>17
    <2>3. /\ slots[i][r] = 1 + x + (IF r \in W THEN 1 ELSE 0)
          /\ slots[i][q] = 1 + y + (IF q \in W THEN 1 ELSE 0)
      BY <1>1, <1>8
    <2>4. q \in W /\ r \notin W => ~(f > g)
      BY <1>7 DEF Before
    <2> HIDE DEF x, y, f, g, T
    <2>5. x >= y
      <3> SUFFICES ASSUME y >= x + 1 PROVE FALSE
        BY <2>1
      <3>1. T * y >= T * (x + 1) /\ T * (x + 1) = T * x + T
        BY <1>4, <2>1
      <3>2. T * x \in Nat /\ T * y \in Nat
        BY <1>4, <2>1
      <3> QED BY <1>4, <2>1, <2>2, <3>1, <3>2
    <2>6. x = y => f > g
      <3>1. T * x \in Nat
        BY <1>4, <2>1
      <3> QED BY <1>4, <2>1, <2>2, <3>1
    <2> QED BY <2>1, <2>3, <2>4, <2>5, <2>6
  <1> QED BY <1>14, <1>15, <1>16, <1>17 DEF Fair

(* What the phases have completed. *)
SharesRolled ==
  /\ shares \in PerPlanet([i \in DOMAIN types |-> rollShares(types[i])])
  /\ amount = Distribute(shares)

CountsRolled == count \in PerPlanet([i \in DOMAIN types |-> CountRolls[types[i]]])

SlotsAssigned == slots \in PerPlanet([i \in DOMAIN types |-> AssignSlots(i)])

DepositsIInv ==
  /\ types \in Systems
  /\ phase \in {"called", "shares", "counts", "slots", "yields"}
  /\ phase \in {"shares", "counts", "slots"} => SharesRolled
  /\ phase \in {"counts", "slots"} => CountsRolled
  /\ phase = "slots" => SlotsAssigned

LEMMA DepositsInitially == DepositsInit => DepositsIInv
  BY DEF DepositsInit, DepositsIInv

LEMMA DepositsStep == DepositsIInv /\ [DepositsNext]_depositVars => DepositsIInv'
  <1> SUFFICES ASSUME DepositsIInv, [DepositsNext]_depositVars PROVE DepositsIInv'
    OBVIOUS
  <1>1. CASE RollShares
    BY <1>1 DEF RollShares, DepositsIInv, SharesRolled
  <1>2. CASE RollCounts
    BY <1>2 DEF RollCounts, DepositsIInv, SharesRolled, CountsRolled
  <1>3. CASE CreateDeposits
    <2>1. \A i \in DOMAIN types : AssignSlots(i)' = AssignSlots(i)
      BY <1>3 DEF CreateDeposits, AssignSlots, Reserved, Present, Remaining, Whole, Winners,
           TotalAmount, Leftover, Before, Fraction
    <2>2. /\ phase = "counts" /\ phase' = "slots"
          /\ slots' \in PerPlanet([i \in DOMAIN types |-> AssignSlots(i)])
          /\ UNCHANGED <<types, shares, amount, count>>
      BY <1>3 DEF CreateDeposits
    <2>3. SlotsAssigned'
      BY <2>1, <2>2 DEF SlotsAssigned
    <2> QED BY <2>2, <2>3 DEF DepositsIInv, SharesRolled, CountsRolled
  <1>4. CASE RollYield
    BY <1>4 DEF RollYield, DepositsIInv
  <1>5. CASE UNCHANGED depositVars
    <2>1. UNCHANGED <<phase, types, shares, amount, count, slots>>
      BY <1>5 DEF depositVars
    <2>2. \A i \in DOMAIN types : AssignSlots(i)' = AssignSlots(i)
      BY <2>1 DEF AssignSlots, Reserved, Present, Remaining, Whole, Winners,
           TotalAmount, Leftover, Before, Fraction
    <2>3. SlotsAssigned => SlotsAssigned'
      BY <2>1, <2>2 DEF SlotsAssigned
    <2> QED BY <2>1, <2>3 DEF DepositsIInv, SharesRolled, CountsRolled
  <1> QED BY <1>1, <1>2, <1>3, <1>4, <1>5 DEF DepositsNext

LEMMA DepositsInvariant == DepositsSpec => []DepositsIInv
  BY DepositsInitially, DepositsStep, PTL DEF DepositsSpec

LEMMA PlanetsAreReady ==
  ASSUME DepositsIInv, phase = "slots", NEW i \in DOMAIN types
  PROVE  Ready(i) /\ slots[i] \in AssignSlots(i)
  <1>1. types \in Seq(PlanetTypes)
    BY DepositsAssumption DEF DepositsIInv
  <1>2. types[i] \in PlanetTypes /\ IsFiniteSet(DOMAIN types)
    <2>1. DOMAIN types = 1 .. Len(types) /\ Len(types) \in Nat
      BY <1>1
    <2>2. 1 \in Int /\ Len(types) \in Int
      BY <2>1
    <2>3. IsFiniteSet(1 .. Len(types))
      BY <2>2, FS_Interval, Zenon
    <2> QED BY <1>1, <2>1, <2>3
  <1>3. DOMAIN shares = DOMAIN types
        /\ \A j \in DOMAIN types : shares[j] \in rollShares(types[j]) /\ types[j] \in PlanetTypes
    BY <1>1, PerPlanetIs DEF DepositsIInv, SharesRolled
  <1>4. \A j \in DOMAIN shares :
          shares[j] \in [Resources -> Nat] /\ \E r \in Resources : shares[j][r] > 0
    BY <1>3, SharesAre
  <1>5. /\ amount[i] \in [Resources -> Nat]
        /\ \A r \in Resources : amount[i][r] > 0 <=> shares[i][r] > 0
    BY <1>2, <1>3, <1>4, AmountsAre DEF DepositsIInv, SharesRolled
  <1>6. Present(i) # {}
    BY <1>3, <1>4, <1>5 DEF Present
  <1>7. count[i] \in CountRolls[types[i]]
    BY PerPlanetIs DEF DepositsIInv, CountsRolled
  <1>8. count[i] \in Counts[types[i]]
    BY <1>2, <1>7, DepositsAssumption
  <1>9. count[i] \in Nat /\ count[i] > 3
    <2>1. CASE types[i] = "rocky"
      BY <1>8, <2>1 DEF Counts, PlanetTypes
    <2>2. CASE types[i] = "asteroid belt"
      <3>1. Counts["asteroid belt"] = 31 .. 40
        BY DEF Counts, PlanetTypes
      <3>2. count[i] \in 31 .. 40
        BY <1>8, <2>2, <3>1, Zenon
      <3> QED BY <3>2
    <2>3. CASE types[i] = "gas giant"
      <3>1. Counts["gas giant"] = 22 .. 40
        BY DEF Counts, PlanetTypes
      <3>2. count[i] \in 22 .. 40
        BY <1>8, <2>3, <3>1, Zenon
      <3> QED BY <3>2
    <2> QED BY <1>2, <2>1, <2>2, <2>3 DEF PlanetTypes
  <1>10. slots[i] \in AssignSlots(i)
    BY PerPlanetIs DEF DepositsIInv, SlotsAssigned
  <1> QED BY <1>2, <1>3, <1>4, <1>5, <1>6, <1>9, <1>10 DEF Ready

(* Largest remainder apportions the deposits of any system, whatever its planets rolled
   and whatever the endowments. *)
THEOREM DepositsAreApportioned == DepositsSpec => []Apportioned
  <1>1. DepositsIInv => Apportioned
    <2> SUFFICES ASSUME DepositsIInv, phase = "slots", NEW i \in DOMAIN types PROVE Fair(i)
      BY DEF Apportioned, Fair
    <2> QED BY PlanetsAreReady, LargestRemainder
  <1> QED BY <1>1, DepositsInvariant, PTL
=============================================================================
