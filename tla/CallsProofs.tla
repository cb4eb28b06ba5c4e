----------------------------- MODULE CallsProofs -----------------------------
(* What TLAPS proves of the command line and of the reply, the two ends of a call: of
   Arguments, for lines of any length; of Replies. *)
EXTENDS Arguments, Replies, FiniteSetTheorems, TLAPS

-----------------------------------------------------------------------------
(* Every non-empty set of naturals has a least element: the initial segments of its
   elements are finite, and strict inclusion is well founded on finite sets. *)
LEMMA LeastElement ==
  ASSUME NEW S \in SUBSET Nat, S # {}
  PROVE  \E m \in S : \A k \in S : m <= k
  <1> DEFINE T == {0 .. n : n \in S}
  <1> DEFINE R == StrictSubsetOrdering(Nat)
  <1>1. T # {} /\ T \subseteq FiniteSubsetsOf(Nat)
    <2>1. ASSUME NEW n \in S PROVE 0 .. n \in FiniteSubsetsOf(Nat)
      <3>1. n \in Int /\ 0 .. n \in SUBSET Nat
        OBVIOUS
      <3>2. IsFiniteSet(0 .. n)
        BY <3>1, FS_Interval
      <3> QED BY <3>1, <3>2 DEF FiniteSubsetsOf
    <2> QED BY <2>1
  <1>2. IsWellFoundedOn(R, FiniteSubsetsOf(Nat))
    BY FS_StrictSubsetOrderingWellFounded
  <1>3. \E X \in T : \A Y \in T : ~ (<<Y, X>> \in R)
    <2> HIDE DEF T, R
    <2> QED BY <1>1, <1>2, WFMin
  <1>4. PICK m \in S : \A Y \in T : ~ (<<Y, 0 .. m>> \in R)
    BY <1>3
  <1>5. ASSUME NEW k \in S, k < m PROVE FALSE
    <2>1. 0 .. k \in T /\ 0 .. k \subseteq 0 .. m /\ 0 .. k # 0 .. m
      <3>1. m \in 0 .. m /\ m \notin 0 .. k
        BY <1>5
      <3> QED BY <1>5, <3>1
    <2>2. 0 .. k \subseteq Nat /\ 0 .. m \subseteq Nat
      BY <1>5
    <2>3. <<0 .. k, 0 .. m>> \in R
      BY <2>1, <2>2 DEF StrictSubsetOrdering
    <2> QED BY <1>4, <2>1, <2>3
  <1> QED BY <1>5

-----------------------------------------------------------------------------
(* What an argument is taken for, given what those before it are. *)
Among(f, k, r) == \E j \in 1 .. k - 1 : f[j] = r

Role(list, flagsFollowWords, f, k) ==
  IF Among(f, k, "end") \/ (Among(f, k, "word") /\ ~flagsFollowWords) THEN "word"
  ELSE IF k > 1 /\ f[k - 1] = "flag" /\ list[k - 1] = "valueFlag" THEN "value"
  ELSE IF list[k] = "--" THEN "end"
  ELSE IF isFlag(list[k]) THEN "flag"
  ELSE IF Among(f, k, "name") THEN "word" ELSE "name"

RoleNames == {"word", "value", "end", "flag", "name"}

(* Roles is the function its recursion means: one exists for every prefix of the list. *)
LEMMA RolesAre ==
  ASSUME NEW list, Len(list) \in Nat, NEW ffw
  PROVE  \A k \in 1 .. Len(list) :
           /\ Roles(list, ffw)[k] = Role(list, ffw, Roles(list, ffw), k)
           /\ Roles(list, ffw)[k] \in RoleNames
  <1> DEFINE Step(f, k) ==
        LET earlier == {f[j] : j \in 1 .. k - 1} IN
        IF "end" \in earlier \/ ("word" \in earlier /\ ~ffw) THEN "word"
        ELSE IF k > 1 /\ f[k - 1] = "flag" /\ list[k - 1] = "valueFlag" THEN "value"
        ELSE IF list[k] = "--" THEN "end"
        ELSE IF isFlag(list[k]) THEN "flag"
        ELSE IF "name" \in earlier THEN "word" ELSE "name"
  <1>1. ASSUME NEW f, NEW k PROVE Step(f, k) = Role(list, ffw, f, k)
    BY DEF Role, Among
  <1>2. \A f, k : Role(list, ffw, f, k) \in RoleNames
    BY DEF Role, RoleNames
  <1>3. ASSUME NEW f, NEW g, NEW k \in Nat \ {0}, \A j \in 1 .. k - 1 : f[j] = g[j]
        PROVE  Role(list, ffw, f, k) = Role(list, ffw, g, k)
    <2>1. \A r : Among(f, k, r) <=> Among(g, k, r)
      BY <1>3 DEF Among
    <2>2. k > 1 => f[k - 1] = g[k - 1]
      BY <1>3
    <2> QED BY <2>1, <2>2 DEF Role
  <1> DEFINE Good(n) == \E f \in [1 .. n -> RoleNames] :
                          \A k \in 1 .. n : f[k] = Role(list, ffw, f, k)
  <1> DEFINE Bad == {n \in Nat : ~Good(n)}
  <1>4. Good(0)
    <2> DEFINE f == [k \in 1 .. 0 |-> "word"]
    <2>1. f \in [1 .. 0 -> RoleNames] /\ \A k \in 1 .. 0 : f[k] = Role(list, ffw, f, k)
      BY DEF RoleNames
    <2> HIDE DEF f
    <2> QED BY <2>1
  <1>5. ASSUME NEW n \in Nat, Good(n) PROVE Good(n + 1)
    <2> PICK f \in [1 .. n -> RoleNames] : \A k \in 1 .. n : f[k] = Role(list, ffw, f, k)
      BY <1>5
    <2> DEFINE g == [k \in 1 .. n + 1 |-> Role(list, ffw, f, k)]
    <2>1. g \in [1 .. n + 1 -> RoleNames]
      BY <1>2
    <2>2. \A k \in 1 .. n : g[k] = f[k]
      OBVIOUS
    <2>3. ASSUME NEW k \in 1 .. n + 1 PROVE g[k] = Role(list, ffw, g, k)
      <3>1. \A j \in 1 .. k - 1 : g[j] = f[j]
        BY <2>2
      <3>2. Role(list, ffw, g, k) = Role(list, ffw, f, k)
        <4> HIDE DEF g
        <4> QED BY <1>3, <3>1
      <3> QED BY <3>2
    <2> HIDE DEF g
    <2> QED BY <2>1, <2>3
  <1>6. Bad = {}
    <2> SUFFICES ASSUME Bad # {} PROVE FALSE
      OBVIOUS
    <2> HIDE DEF Good
    <2>1. PICK m \in Bad : \A k \in Bad : m <= k
      BY LeastElement
    <2>2. m \in Nat /\ m # 0 /\ ~Good(m)
      BY <1>4
    <2>3. m - 1 \in Nat /\ m - 1 \notin Bad /\ m = (m - 1) + 1
      BY <2>1, <2>2
    <2>4. Good(m - 1)
      BY <2>3
    <2> QED BY <1>5, <2>2, <2>3, <2>4
  <1>7. Good(Len(list))
    <2> HIDE DEF Good
    <2> QED BY <1>6
  <1> DEFINE role == CHOOSE f : f = [k \in 1 .. Len(list) |-> Step(f, k)]
  <1>8. Roles(list, ffw) = role
    BY DEF Roles
  <1>9. role = [k \in 1 .. Len(list) |-> Step(role, k)]
    <2> PICK f \in [1 .. Len(list) -> RoleNames] :
          \A k \in 1 .. Len(list) : f[k] = Role(list, ffw, f, k)
      BY <1>7
    <2>1. f = [k \in 1 .. Len(list) |-> Step(f, k)]
      <3>1. \A k : Step(f, k) = Role(list, ffw, f, k)
        BY <1>1
      <3> HIDE DEF Step
      <3> QED BY <3>1
    <2> HIDE DEF Step
    <2> QED BY <2>1
  <1> HIDE DEF role, Step
  <1> QED BY <1>1, <1>2, <1>8, <1>9

-----------------------------------------------------------------------------
(* What is meant by the command line. *)
Line == Len(args) \in Nat /\ args \in [1 .. Len(args) -> Kinds]
Meant == Roles(args, TRUE)
Ahead == {"flag", "value", "name"}

LEMMA MeantIs ==
  ASSUME Line, NEW x \in 1 .. Len(args)
  PROVE  /\ Meant[x] \in RoleNames
         /\ Among(Meant, x, "end") => Meant[x] = "word"
         /\ ~Among(Meant, x, "end") =>
              /\ Meant[x] = "value" <=>
                   x > 1 /\ Meant[x - 1] = "flag" /\ args[x - 1] = "valueFlag"
              /\ Meant[x] = "end" => args[x] = "--"
              /\ Meant[x] = "flag" => isFlag(args[x])
              /\ Meant[x] = "word" => args[x] = "word" /\ Among(Meant, x, "name")
              /\ Meant[x] = "name" => args[x] = "word" /\ ~Among(Meant, x, "name")
  <1>1. Meant[x] = Role(args, TRUE, Meant, x) /\ Meant[x] \in RoleNames
    BY RolesAre DEF Line, Meant
  <1>2. args[x] \in Kinds
    BY DEF Line
  <1> QED BY <1>1, <1>2 DEF Role, Kinds, isFlag

(* What reorderArgs makes of a line: b arguments that are no words, the rest words, each in
   their order, and each flag with its value, if the last has one. *)
Arranged(b) ==
  LET n == Len(args) IN
  /\ b \in Nat /\ b <= n
  /\ Len(out) = n /\ out \in [1 .. n -> 1 .. n]
  /\ \A p \in 1 .. n : \E k \in 1 .. n : out[k] = p
  /\ \A k \in 1 .. b : Meant[out[k]] \in Ahead
  /\ \A k \in b + 1 .. n : Meant[out[k]] \in {"word", "end"}
  /\ \A k, l \in 1 .. n : k < l /\ (k <= b <=> l <= b) => out[k] < out[l]
  /\ \A k \in 1 .. b : Meant[out[k]] = "value" => k > 1 /\ out[k - 1] = out[k] - 1
  /\ \A k \in 1 .. b : Meant[out[k]] = "flag" /\ args[out[k]] = "valueFlag" =>
       k < b /\ out[k + 1] = out[k] + 1

LEMMA ArrangedIsParsed ==
  ASSUME Line, NEW b, Arranged(b)
  PROVE  LET taken == Roles([k \in DOMAIN out |-> args[out[k]]], FALSE)
             Word(role) == role \in {"word", "end"} IN
         \A k \in 1 .. Len(args) :
           /\ taken[k] = Meant[out[k]] \/ (Word(taken[k]) /\ Word(Meant[out[k]]))
           /\ k <= b <=> ~Word(taken[k])
  <1> DEFINE n == Len(args)
  <1> DEFINE list == [k \in DOMAIN out |-> args[out[k]]]
  <1> DEFINE T == Roles(list, FALSE)
  <1>0. /\ n \in Nat /\ args \in [1 .. n -> Kinds]
        /\ b \in Nat /\ b <= n /\ out \in [1 .. n -> 1 .. n]
    BY DEF Line, Arranged
  <1>a. \A p \in 1 .. n : \E k \in 1 .. n : out[k] = p
    BY DEF Arranged
  <1>b. \A k \in 1 .. b : Meant[out[k]] \in Ahead
    BY DEF Arranged
  <1>c. \A k \in b + 1 .. n : Meant[out[k]] \in {"word", "end"}
    BY DEF Arranged
  <1>d. \A k, l \in 1 .. n : k < l /\ (k <= b <=> l <= b) => out[k] < out[l]
    BY DEF Arranged
  <1>e. \A k \in 1 .. b : Meant[out[k]] = "value" => k > 1 /\ out[k - 1] = out[k] - 1
    BY DEF Arranged
  <1>f. \A k \in 1 .. b : Meant[out[k]] = "flag" /\ args[out[k]] = "valueFlag" =>
          k < b /\ out[k + 1] = out[k] + 1
    BY DEF Arranged
  <1>g. \A x \in 1 .. n :
           /\ Meant[x] \in RoleNames
           /\ Among(Meant, x, "end") => Meant[x] = "word"
           /\ ~Among(Meant, x, "end") =>
                /\ Meant[x] = "value" <=>
                     x > 1 /\ Meant[x - 1] = "flag" /\ args[x - 1] = "valueFlag"
                /\ Meant[x] = "end" => args[x] = "--"
                /\ Meant[x] = "flag" => isFlag(args[x])
                /\ Meant[x] = "word" => args[x] = "word" /\ Among(Meant, x, "name")
                /\ Meant[x] = "name" => args[x] = "word" /\ ~Among(Meant, x, "name")
    BY MeantIs
  <1> HIDE DEF n
  <1>1. /\ n \in Nat /\ b \in 0 .. n
        /\ DOMAIN out = 1 .. n /\ \A k \in 1 .. n : out[k] \in 1 .. n
        /\ list \in [1 .. n -> Kinds] /\ \A k \in 1 .. n : list[k] = args[out[k]]
    BY <1>0
  <1>2. Len(list) = n
    BY <1>1
  <1>3. \A k \in 1 .. n : T[k] = Role(list, FALSE, T, k) /\ list[k] \in Kinds
    <2> HIDE DEF list
    <2>1. Len(list) \in Nat
      BY <1>1, <1>2
    <2>2. \A k \in 1 .. Len(list) : T[k] = Role(list, FALSE, T, k)
      BY <2>1, RolesAre, Zenon
    <2> HIDE DEF T
    <2> QED BY <1>1, <1>2, <2>2
  <1> HIDE DEF list, T
  (* No word and no end comes first, and a flag has its value behind it. *)
  <1>4. ASSUME NEW k \in 1 .. b, \A j \in 1 .. k - 1 : T[j] = Meant[out[j]]
        PROVE  T[k] = Meant[out[k]]
    <2> DEFINE x == out[k]
    <2>1. x \in 1 .. n /\ k \in 1 .. n /\ Meant[x] \in Ahead
      BY <1>1, <1>b
    <2>2. ASSUME NEW j \in 1 .. k - 1 PROVE j \in 1 .. b /\ T[j] \in Ahead
      <3>1. j \in 1 .. b
        BY <1>1
      <3> QED BY <1>4, <1>b, <3>1
    <2>3. ~Among(T, k, "end") /\ ~Among(T, k, "word")
      BY <2>2 DEF Among, Ahead
    <2>4. ~Among(Meant, x, "end")
      BY <2>1, <1>g DEF Ahead
    <2>5. CASE Meant[x] = "value"
      <3>1. k > 1 /\ k - 1 \in 1 .. b /\ out[k - 1] = x - 1 /\ x > 1
        <4>1. k > 1 /\ out[k - 1] = x - 1
          BY <2>5, <1>e
        <4>2. k - 1 \in 1 .. b /\ k - 1 \in 1 .. n
          BY <1>1, <2>1, <4>1
        <4>3. out[k - 1] \in 1 .. n
          BY <1>1, <4>2
        <4> QED BY <2>1, <4>1, <4>2, <4>3
      <3>2. Meant[x - 1] = "flag" /\ args[x - 1] = "valueFlag"
        BY <2>1, <2>4, <2>5, <1>g
      <3>3. T[k - 1] = "flag" /\ list[k - 1] = "valueFlag"
        BY <1>1, <1>4, <3>1, <3>2
      <3> QED BY <1>3, <2>1, <2>3, <2>5, <3>1, <3>3 DEF Role
    <2>6. CASE Meant[x] # "value"
      <3>1. ~(k > 1 /\ T[k - 1] = "flag" /\ list[k - 1] = "valueFlag")
        <4> SUFFICES ASSUME k > 1, T[k - 1] = "flag", list[k - 1] = "valueFlag" PROVE FALSE
          OBVIOUS
        <4>1. k - 1 \in 1 .. b /\ k - 1 \in 1 .. k - 1
          BY <1>1, <2>1
        <4>2. Meant[out[k - 1]] = "flag" /\ args[out[k - 1]] = "valueFlag"
          BY <1>1, <1>4, <4>1
        <4>3. x = out[k - 1] + 1 /\ out[k - 1] \in 1 .. n
          BY <1>1, <4>1, <4>2, <1>f
        <4> QED BY <2>1, <2>4, <2>6, <4>2, <4>3, <1>g
      <3>2. CASE Meant[x] = "flag"
        <4>1. isFlag(list[k]) /\ list[k] # "--"
          BY <1>1, <2>1, <2>4, <3>2, <1>g DEF isFlag
        <4> QED BY <1>3, <2>1, <2>3, <3>1, <3>2, <4>1 DEF Role
      <3>3. CASE Meant[x] = "name"
        <4>1. list[k] = "word" /\ ~Among(Meant, x, "name")
          BY <1>1, <2>1, <2>4, <3>3, <1>g
        <4>2. ~Among(T, k, "name")
          <5> SUFFICES ASSUME NEW j \in 1 .. k - 1, T[j] = "name" PROVE FALSE
            BY DEF Among
          <5>1. out[j] \in 1 .. x - 1 /\ Meant[out[j]] = "name"
            BY <1>1, <1>4, <2>1, <1>d
          <5> QED BY <4>1, <5>1 DEF Among
        <4> QED BY <1>3, <2>1, <2>3, <3>1, <3>3, <4>1, <4>2 DEF Role, isFlag
      <3> QED BY <2>1, <2>6, <3>2, <3>3 DEF Ahead
    <2> QED BY <2>5, <2>6
  <1>5. \A k \in 1 .. b : T[k] = Meant[out[k]]
    <2> DEFINE Bad == {k \in 1 .. b : T[k] # Meant[out[k]]}
    <2> SUFFICES ASSUME Bad # {} PROVE FALSE
      OBVIOUS
    <2>0. Bad \in SUBSET Nat
      BY <1>1
    <2>1. PICK k \in Bad : \A j \in Bad : k <= j
      <3> HIDE DEF Bad
      <3> QED BY <2>0, LeastElement
    <2>2. \A j \in 1 .. k - 1 : T[j] = Meant[out[j]]
      <3> SUFFICES ASSUME NEW j \in 1 .. k - 1, j \notin Bad PROVE T[j] = Meant[out[j]]
        BY <1>1, <2>1
      <3> QED BY <1>1
    <2> QED BY <1>4, <2>1, <2>2
  (* The first word, or the end, is taken for one. *)
  <1>6. b < n => T[b + 1] \in {"word", "end"}
    <2> SUFFICES ASSUME b < n PROVE T[b + 1] \in {"word", "end"}
      OBVIOUS
    <2> DEFINE x == out[b + 1]
    <2>1. b + 1 \in 1 .. n /\ x \in 1 .. n /\ Meant[x] \in {"word", "end"}
      BY <1>1, <1>c
    <2>2. ~Among(T, b + 1, "end") /\ ~Among(T, b + 1, "word")
      <3>1. \A j \in 1 .. b : T[j] \in Ahead
        BY <1>5, <1>b
      <3>2. \A j \in 1 .. (b + 1) - 1 : j \in 1 .. b
        BY <1>1
      <3> QED BY <3>1, <3>2 DEF Among, Ahead
    <2>3. ~(b + 1 > 1 /\ T[b] = "flag" /\ list[b] = "valueFlag")
      <3> SUFFICES ASSUME b >= 1, T[b] = "flag", list[b] = "valueFlag" PROVE FALSE
        BY <1>1
      <3>1. b \in 1 .. b /\ Meant[out[b]] = "flag" /\ args[out[b]] = "valueFlag"
        BY <1>1, <1>5
      <3> QED BY <1>1, <3>1, <1>f
    <2>4. ~Among(Meant, x, "end")
      <3> SUFFICES ASSUME NEW y \in 1 .. x - 1, Meant[y] = "end" PROVE FALSE
        BY DEF Among
      <3>1. PICK k \in 1 .. n : out[k] = y
        BY <1>1, <2>1, <1>a
      <3>2. k > b + 1
        <4>1. k \notin 1 .. b
          BY <3>1, <1>b DEF Ahead
        <4>2. k # b + 1
          <5> SUFFICES ASSUME k = b + 1 PROVE FALSE
            OBVIOUS
          <5>1. y = x
            BY <3>1
          <5> QED BY <2>1, <5>1
        <4> QED BY <1>1, <4>1, <4>2
      <3> QED BY <1>1, <2>1, <3>1, <3>2, <1>d
    <2>5. CASE Meant[x] = "end"
      <3>1. list[b + 1] = "--"
        BY <1>1, <2>1, <2>4, <2>5, <1>g
      <3> QED BY <1>1, <1>3, <2>1, <2>2, <2>3, <3>1 DEF Role
    <2>6. CASE Meant[x] = "word"
      <3>1. list[b + 1] = "word" /\ Among(Meant, x, "name")
        BY <1>1, <2>1, <2>4, <2>6, <1>g
      <3>2. Among(T, b + 1, "name")
        <4>0. PICK y \in 1 .. x - 1 : Meant[y] = "name"
          BY <3>1 DEF Among
        <4>1. PICK k \in 1 .. n : out[k] = y
          BY <1>1, <2>1, <1>a
        <4>2. k <= b
          <5>1. k \notin b + 1 .. n
            BY <4>0, <4>1, <1>c
          <5> QED BY <1>1, <5>1
        <4>3. k \in 1 .. (b + 1) - 1 /\ T[k] = "name"
          BY <1>1, <1>5, <4>0, <4>1, <4>2
        <4> QED BY <4>3 DEF Among
      <3>3. T[b + 1] = Role(list, FALSE, T, b + 1)
        BY <1>3, <2>1
      <3>4. b = (b + 1) - 1
        BY <1>1
      <3> QED BY <2>2, <2>3, <3>1, <3>2, <3>3, <3>4 DEF Role, isFlag
    <2> QED BY <2>1, <2>5, <2>6
  <1>7. ASSUME NEW k \in b + 2 .. n PROVE T[k] = "word"
    <2>1. k \in 1 .. n /\ b + 1 \in 1 .. k - 1 /\ b < n
      BY <1>1
    <2>2. Among(T, k, "word") \/ Among(T, k, "end")
      BY <1>6, <2>1 DEF Among
    <2> QED BY <1>3, <2>1, <2>2 DEF Role
  <1>8. ASSUME NEW k \in 1 .. n
        PROVE  /\ \/ T[k] = Meant[out[k]]
                  \/ T[k] \in {"word", "end"} /\ Meant[out[k]] \in {"word", "end"}
               /\ k <= b <=> T[k] \notin {"word", "end"}
    <2>1. CASE k <= b
      <3>1. k \in 1 .. b
        BY <1>1, <2>1
      <3>2. T[k] = Meant[out[k]] /\ T[k] \in Ahead
        BY <1>5, <3>1, <1>b
      <3> QED BY <2>1, <3>2 DEF Ahead
    <2>2. CASE k > b
      <3>1. T[k] \in {"word", "end"}
        <4>1. b < n /\ (k = b + 1 \/ k \in b + 2 .. n)
          BY <1>1, <2>2
        <4> QED BY <1>6, <1>7, <4>1
      <3> QED BY <1>1, <2>2, <3>1, <1>c
    <2> QED BY <1>1, <2>1, <2>2
  <1> QED BY <1>8 DEF T, list, n

-----------------------------------------------------------------------------
(* The scan stands at p between two arguments: no end before, no flag that waits for its
   value. *)
Fresh(p) ==
  /\ ~Among(Meant, p, "end")
  /\ ~(p > 1 /\ Meant[p - 1] = "flag" /\ args[p - 1] = "valueFlag")

(* There, an argument is what its spelling says. *)
LEMMA HereIs ==
  ASSUME Line, NEW p \in 1 .. Len(args), Fresh(p)
  PROVE  /\ args[p] = "--" => Meant[p] = "end"
         /\ isFlag(args[p]) => Meant[p] = "flag"
         /\ args[p] = "word" => Meant[p] = IF Among(Meant, p, "name") THEN "word" ELSE "name"
  <1>1. Meant[p] = Role(args, TRUE, Meant, p)
    BY RolesAre DEF Line, Meant
  <1> QED BY <1>1 DEF Role, isFlag, Fresh

(* A word, or a flag with its value, leads to the next such place. *)
LEMMA FreshAgain ==
  ASSUME Line, ~Dangling(args), NEW p \in 1 .. Len(args), Fresh(p)
  PROVE  /\ args[p] = "word" => Fresh(p + 1)
         /\ args[p] = "flag" => Fresh(p + 1)
         /\ args[p] = "valueFlag" =>
              p < Len(args) /\ Meant[p + 1] = "value" /\ Fresh(p + 2)
  <1>0. Len(args) \in Nat /\ args \in [1 .. Len(args) -> Kinds]
    BY DEF Line
  <1>1. /\ isFlag(args[p]) => Meant[p] = "flag"
        /\ args[p] = "word" => Meant[p] \in {"word", "name"}
    BY HereIs
  <1>2. ASSUME NEW q \in Nat, q >= 1, ~Among(Meant, q, "end"), Meant[q] # "end"
        PROVE  ~Among(Meant, q + 1, "end")
    <2> SUFFICES ASSUME NEW j \in 1 .. (q + 1) - 1, Meant[j] = "end" PROVE FALSE
      BY DEF Among
    <2>1. j \in 1 .. q - 1 \/ j = q
      BY <1>2
    <2> QED BY <1>2, <2>1 DEF Among
  <1>3. (p + 1) - 1 = p /\ (p + 2) - 1 = p + 1 /\ (p + 1) + 1 = p + 2 /\ p \in Nat
    OBVIOUS
  <1>4. args[p] \in {"word", "flag", "valueFlag"} => ~Among(Meant, p + 1, "end")
    BY <1>1, <1>2 DEF Fresh, isFlag
  <1>5. args[p] \in {"word", "flag"} => Fresh(p + 1)
    BY <1>3, <1>4 DEF Fresh
  <1>6. ASSUME args[p] = "valueFlag"
        PROVE  p < Len(args) /\ Meant[p + 1] = "value" /\ Fresh(p + 2)
    <2>1. Meant[p] = "flag"
      BY <1>1, <1>6 DEF isFlag
    <2>2. p < Len(args)
      <3> SUFFICES ASSUME p = Len(args) PROVE FALSE
        <4>1. Len(args) \in Nat
          BY <1>0
        <4> QED BY <4>1
      <3>1. args # <<>>
        BY <1>0
      <3> QED BY <1>6, <2>1, <3>1 DEF Dangling, Meant
    <2>3. p + 1 \in 1 .. Len(args) /\ p + 1 > 1
      BY <1>0, <2>2
    <2>4. Meant[p + 1] = Role(args, TRUE, Meant, p + 1)
      BY RolesAre, <2>3 DEF Line, Meant
    <2>5. Meant[p + 1] = "value"
      BY <1>3, <1>4, <1>6, <2>1, <2>3, <2>4 DEF Role
    <2>6. ~Among(Meant, p + 2, "end")
      <3>1. p + 1 \in Nat /\ p + 1 >= 1 /\ ~Among(Meant, p + 1, "end") /\ Meant[p + 1] # "end"
        BY <1>4, <1>6, <2>5
      <3> QED BY <1>2, <1>3, <3>1
    <2> QED BY <1>3, <2>2, <2>5, <2>6 DEF Fresh
  <1> QED BY <1>5, <1>6

(* Flags with their values, in the order of the line. *)
Kept(s, lo, hi) ==
  LET m == Len(s) IN
  /\ m \in Nat /\ s \in [1 .. m -> lo .. hi]
  /\ \A k, l \in 1 .. m : k < l => s[k] < s[l]
  /\ \A k \in 1 .. m : Meant[s[k]] \in {"flag", "value"}
  /\ \A k \in 1 .. m : Meant[s[k]] = "value" => k > 1 /\ s[k - 1] = s[k] - 1
  /\ \A k \in 1 .. m : Meant[s[k]] = "flag" /\ args[s[k]] = "valueFlag" =>
       k < m /\ s[k + 1] = s[k] + 1

(* What \o makes of two sequences of numbers. *)
LEMMA Joined ==
  ASSUME NEW s \in Seq(Nat), NEW t \in Seq(Nat)
  PROVE  /\ s \o t \in Seq(Nat) /\ Len(s \o t) = Len(s) + Len(t)
         /\ \A k \in 1 .. Len(s) : (s \o t)[k] = s[k]
         /\ \A k \in 1 .. Len(t) : (s \o t)[Len(s) + k] = t[k]
  OBVIOUS

LEMMA ConsumedIs ==
  ASSUME Line, NEW p \in 1 .. Len(args)
  PROVE  /\ Consumed(p) \in Seq(Nat) /\ Consumed(p)[1] = p
         /\ args[p] # "valueFlag" => Len(Consumed(p)) = 1
         /\ args[p] = "valueFlag" /\ p < Len(args) =>
              Len(Consumed(p)) = 2 /\ Consumed(p)[2] = p + 1
  <1>1. <<p>> \in Seq(Nat) /\ <<p, p + 1>> \in Seq(Nat)
    OBVIOUS
  <1> QED BY <1>1 DEF Consumed

(* An identity in front: the places of a sequence are its members. *)
Copied(s, h) == s \in Seq(Nat) /\ Len(s) = h /\ \A k \in 1 .. h : s[k] = k

(* A flag, and its value, are kept behind those before them. *)
LEMMA KeptMore ==
  ASSUME Line, ~Dangling(args), NEW p \in 1 .. Len(args), Fresh(p), isFlag(args[p]),
         NEW lo \in Nat, lo >= 1, lo <= p, NEW s \in Seq(Nat), Kept(s, lo, p - 1),
         NEW q, q = p + Len(Consumed(p))
  PROVE  /\ q \in p + 1 .. Len(args) + 1 /\ Fresh(q)
         /\ \A x \in p .. q - 1 : Meant[x] \in {"flag", "value"}
         /\ s \o Consumed(p) \in Seq(Nat) /\ Len(s \o Consumed(p)) = Len(s) + (q - p)
         /\ \A k \in 1 .. Len(s) : (s \o Consumed(p))[k] = s[k]
         /\ \A x \in p .. q - 1 : (s \o Consumed(p))[Len(s) + 1 + (x - p)] = x
         /\ Kept(s \o Consumed(p), lo, q - 1)
  <1> DEFINE t == s \o Consumed(p)
  <1> DEFINE m == Len(s)
  <1> DEFINE n == Len(args)
  <1>0. n \in Nat /\ args[p] \in Kinds /\ m \in Nat /\ p \in Nat
    BY DEF Line
  <1>1. Meant[p] = "flag"
    BY HereIs
  <1>2. Consumed(p) \in Seq(Nat) /\ Consumed(p)[1] = p
    BY ConsumedIs
  <1>3. /\ t \in Seq(Nat) /\ Len(t) = m + Len(Consumed(p))
        /\ \A k \in 1 .. m : t[k] = s[k]
        /\ \A k \in 1 .. Len(Consumed(p)) : t[m + k] = Consumed(p)[k]
    BY <1>2, Joined
  <1>4. /\ s \in [1 .. m -> lo .. p - 1]
        /\ \A k, l \in 1 .. m : k < l => s[k] < s[l]
        /\ \A k \in 1 .. m : Meant[s[k]] \in {"flag", "value"}
        /\ \A k \in 1 .. m : Meant[s[k]] = "value" => k > 1 /\ s[k - 1] = s[k] - 1
        /\ \A k \in 1 .. m : Meant[s[k]] = "flag" /\ args[s[k]] = "valueFlag" =>
             k < m /\ s[k + 1] = s[k] + 1
    BY DEF Kept
  <1>5. \A k \in 1 .. m : s[k] \in lo .. p - 1
    BY <1>4
  <1> HIDE DEF t, m, n
  <1>6. CASE args[p] = "flag"
    <2>1. Len(Consumed(p)) = 1 /\ q = p + 1
      BY <1>0, <1>6, ConsumedIs
    <2>2. Fresh(p + 1) /\ Fresh(q)
      BY <1>6, <2>1, FreshAgain
    <2>3. Len(t) = m + 1 /\ t[m + 1] = p
      BY <1>2, <1>3, <2>1
    <2>4. \A k \in 1 .. m + 1 : k \in 1 .. m \/ k = m + 1
      BY <1>0
    <2>5. \A k \in 1 .. m + 1 : t[k] \in lo .. q - 1 /\ Meant[t[k]] \in {"flag", "value"}
      BY <1>0, <1>1, <1>3, <1>4, <1>5, <2>1, <2>3, <2>4
    <2>6. ASSUME NEW k \in 1 .. m + 1, NEW l \in 1 .. m + 1, k < l PROVE t[k] < t[l]
      <3>1. k \in Nat /\ l \in Nat
        BY <1>0
      <3>2. CASE l \in 1 .. m
        <4>1. k \in 1 .. m
          BY <1>0, <2>6, <3>1, <3>2
        <4> QED BY <1>3, <1>4, <2>6, <3>2, <4>1
      <3>3. CASE l = m + 1
        <4>1. k \in 1 .. m
          BY <1>0, <2>6, <3>1, <3>3
        <4>2. t[k] \in lo .. p - 1 /\ t[l] = p
          BY <1>3, <1>5, <2>3, <3>3, <4>1
        <4> QED BY <1>0, <4>2
      <3> QED BY <2>4, <3>2, <3>3
    <2>7. ASSUME NEW k \in 1 .. m + 1, Meant[t[k]] = "value"
          PROVE  k > 1 /\ t[k - 1] = t[k] - 1
      <3>1. CASE k \in 1 .. m
        <4>1. t[k] = s[k] /\ k > 1 /\ s[k - 1] = s[k] - 1
          BY <1>3, <1>4, <2>7, <3>1
        <4>2. k - 1 \in 1 .. m
          BY <1>0, <3>1, <4>1
        <4> QED BY <1>3, <4>1, <4>2
      <3>2. CASE k = m + 1
        BY <1>1, <2>3, <2>7, <3>2
      <3> QED BY <2>4, <3>1, <3>2
    <2>8. ASSUME NEW k \in 1 .. m + 1, Meant[t[k]] = "flag", args[t[k]] = "valueFlag"
          PROVE  k < m + 1 /\ t[k + 1] = t[k] + 1
      <3>1. CASE k \in 1 .. m
        <4>1. t[k] = s[k] /\ k < m /\ s[k + 1] = s[k] + 1
          BY <1>3, <1>4, <2>8, <3>1
        <4>2. k + 1 \in 1 .. m /\ k < m + 1
          BY <1>0, <3>1, <4>1
        <4> QED BY <1>3, <4>1, <4>2
      <3>2. CASE k = m + 1
        BY <1>6, <2>3, <2>8, <3>2
      <3> QED BY <2>4, <3>1, <3>2
    <2>9. t \in [1 .. m + 1 -> lo .. q - 1]
      BY <1>3, <2>3, <2>5
    <2>10. Kept(t, lo, q - 1)
      BY <1>0, <2>3, <2>5, <2>6, <2>7, <2>8, <2>9 DEF Kept
    <2>11. /\ q - p = 1 /\ q \in p + 1 .. n + 1
           /\ \A x \in p .. q - 1 : x = p /\ m + 1 + (x - p) = m + 1
      BY <1>0, <2>1 DEF n
    <2> QED BY <1>1, <1>3, <2>2, <2>3, <2>10, <2>11 DEF t, m, n
  <1>7. CASE args[p] = "valueFlag"
    <2>0. p < n /\ Meant[p + 1] = "value" /\ Fresh(p + 2)
      BY <1>7, FreshAgain DEF n
    <2>1. Len(Consumed(p)) = 2 /\ q = p + 2 /\ Consumed(p)[2] = p + 1
      BY <1>0, <1>7, <2>0, ConsumedIs DEF n
    <2>2. Fresh(q)
      BY <2>0, <2>1
    <2>3. Len(t) = m + 2 /\ t[m + 1] = p /\ t[m + 2] = p + 1
      BY <1>2, <1>3, <2>1
    <2>4. \A k \in 1 .. m + 2 : k \in 1 .. m \/ k = m + 1 \/ k = m + 2
      BY <1>0
    <2>5. \A k \in 1 .. m + 2 : t[k] \in lo .. q - 1 /\ Meant[t[k]] \in {"flag", "value"}
      <3>1. ASSUME NEW k \in 1 .. m
            PROVE  t[k] \in lo .. q - 1 /\ Meant[t[k]] \in {"flag", "value"}
        <4>1. t[k] = s[k] /\ s[k] \in lo .. p - 1 /\ Meant[s[k]] \in {"flag", "value"}
          BY <1>3, <1>4, <1>5
        <4> QED BY <1>0, <2>1, <4>1
      <3>2. p \in lo .. q - 1 /\ p + 1 \in lo .. q - 1
        BY <1>0, <2>1
      <3> QED BY <1>1, <2>0, <2>3, <2>4, <3>1, <3>2
    <2>6. ASSUME NEW k \in 1 .. m + 2, NEW l \in 1 .. m + 2, k < l PROVE t[k] < t[l]
      <3>1. k \in Nat /\ l \in Nat
        BY <1>0
      <3>2. CASE l \in 1 .. m
        <4>1. k \in 1 .. m
          BY <1>0, <2>6, <3>1, <3>2
        <4> QED BY <1>3, <1>4, <2>6, <3>2, <4>1
      <3>3. CASE l = m + 1
        <4>1. k \in 1 .. m
          BY <1>0, <2>6, <3>1, <3>3
        <4>2. t[k] \in lo .. p - 1 /\ t[l] = p
          BY <1>3, <1>5, <2>3, <3>3, <4>1
        <4> QED BY <1>0, <4>2
      <3>4. CASE l = m + 2
        <4>1. k \in 1 .. m \/ k = m + 1
          BY <1>0, <2>4, <2>6, <3>4
        <4>2. t[l] = p + 1
          BY <2>3, <3>4
        <4>3. k \in 1 .. m => t[k] \in lo .. p - 1
          BY <1>3, <1>5
        <4>4. t[k] \in lo .. p - 1 \/ t[k] = p
          BY <2>3, <4>1, <4>3
        <4> QED BY <1>0, <4>2, <4>4
      <3> QED BY <2>4, <3>2, <3>3, <3>4
    <2>7. ASSUME NEW k \in 1 .. m + 2, Meant[t[k]] = "value"
          PROVE  k > 1 /\ t[k - 1] = t[k] - 1
      <3>1. CASE k \in 1 .. m
        <4>1. t[k] = s[k] /\ k > 1 /\ s[k - 1] = s[k] - 1
          BY <1>3, <1>4, <2>7, <3>1
        <4>2. k - 1 \in 1 .. m
          BY <1>0, <3>1, <4>1
        <4> QED BY <1>3, <4>1, <4>2
      <3>2. CASE k = m + 1
        BY <1>1, <2>3, <2>7, <3>2
      <3>3. CASE k = m + 2
        <4>1. k > 1 /\ k - 1 = m + 1
          BY <1>0, <3>3
        <4> QED BY <1>0, <2>3, <3>3, <4>1
      <3> QED BY <2>4, <3>1, <3>2, <3>3
    <2>8. ASSUME NEW k \in 1 .. m + 2, Meant[t[k]] = "flag", args[t[k]] = "valueFlag"
          PROVE  k < m + 2 /\ t[k + 1] = t[k] + 1
      <3>1. CASE k \in 1 .. m
        <4>1. t[k] = s[k] /\ k < m /\ s[k + 1] = s[k] + 1
          BY <1>3, <1>4, <2>8, <3>1
        <4>2. k + 1 \in 1 .. m /\ k < m + 2
          BY <1>0, <3>1, <4>1
        <4> QED BY <1>3, <4>1, <4>2
      <3>2. CASE k = m + 1
        <4>1. k < m + 2 /\ k + 1 = m + 2
          BY <1>0, <3>2
        <4> QED BY <1>0, <2>3, <3>2, <4>1
      <3>3. CASE k = m + 2
        BY <2>0, <2>3, <2>8, <3>3
      <3> QED BY <2>4, <3>1, <3>2, <3>3
    <2>9. t \in [1 .. m + 2 -> lo .. q - 1]
      BY <1>3, <2>3, <2>5
    <2>10. Kept(t, lo, q - 1)
      BY <1>0, <2>3, <2>5, <2>6, <2>7, <2>8, <2>9 DEF Kept
    <2>11. q - p = 2 /\ q \in p + 1 .. n + 1
      BY <1>0, <2>0, <2>1
    <2>12. ASSUME NEW x \in p .. q - 1
           PROVE  \/ x = p /\ m + 1 + (x - p) = m + 1
                  \/ x = p + 1 /\ m + 1 + (x - p) = m + 2
      BY <1>0, <2>1
    <2> QED BY <1>1, <1>3, <2>0, <2>2, <2>3, <2>10, <2>11, <2>12 DEF t, m, n
  <1> QED BY <1>6, <1>7 DEF isFlag

(* reorderArgs on its way, and arrived. *)
RootScanned ==
  /\ place \in 1 .. Len(args) + 1 /\ Fresh(place)
  /\ Copied(out, place - 1)
  /\ \A j \in 1 .. place - 1 : Meant[j] \in {"flag", "value"}
  /\ flags = <<>> /\ positionals = <<>>

PathScanned(h) ==
  /\ h \in 1 .. place - 1
  /\ Copied(out, h)
  /\ \A j \in 1 .. h - 1 : Meant[j] \in {"flag", "value"}
  /\ Meant[h] = "name"

SubcommandScanned(h) ==
  /\ place \in 1 .. Len(args) + 1 /\ Fresh(place)
  /\ PathScanned(h)
  /\ flags \in Seq(Nat) /\ Kept(flags, h + 1, place - 1)
  /\ positionals \in Seq(Nat)
  /\ \A k \in 1 .. Len(positionals) :
       positionals[k] \in h + 1 .. place - 1 /\ Meant[positionals[k]] = "word"
  /\ \A k, l \in 1 .. Len(positionals) : k < l => positionals[k] < positionals[l]
  /\ h + Len(flags) + Len(positionals) = place - 1
  /\ \A x \in h + 1 .. place - 1 :
       \/ \E k \in 1 .. Len(flags) : flags[k] = x
       \/ \E k \in 1 .. Len(positionals) : positionals[k] = x

Scanned ==
  /\ section = "root" => RootScanned
  /\ section = "subcommand" => \E h \in Nat : SubcommandScanned(h)
  /\ section = "done" => \E b \in Nat : Arranged(b)

ArgumentsInv ==
  /\ Line
  /\ section \in {"root", "subcommand", "done"}
  /\ ~Dangling(args) => Scanned

LEMMA RootFlagScans ==
  ASSUME Line, ~Dangling(args), RootScanned, RootFlag
  PROVE  RootScanned'
  <1>0. Len(args) \in Nat /\ place \in 1 .. Len(args) /\ isFlag(args[place]) /\ Fresh(place)
    BY DEF Line, RootScanned, RootFlag
  <1>1. out \in Seq(Nat) /\ Len(out) = place - 1 /\ \A k \in 1 .. place - 1 : out[k] = k
    BY DEF RootScanned, Copied
  <1>2. \A j \in 1 .. place - 1 : Meant[j] \in {"flag", "value"}
    BY DEF RootScanned
  <1>q. PICK q : q = place + Len(Consumed(place))
    OBVIOUS
  <1>3. Kept(out, 1, place - 1)
    <2>1. out \in [1 .. place - 1 -> 1 .. place - 1]
      BY <1>0, <1>1
    <2>2. \A k \in 1 .. place - 1 : k \in 1 .. Len(args) /\ ~Among(Meant, k, "end")
      BY <1>0, <1>2 DEF Among
    <2>3. ASSUME NEW k \in 1 .. place - 1, Meant[k] = "value"
          PROVE  k > 1 /\ out[k - 1] = out[k] - 1
      <3>1. k > 1
        BY <2>2, <2>3, MeantIs
      <3> QED BY <1>0, <1>1, <3>1
    <2>4. ASSUME NEW k \in 1 .. place - 1, Meant[k] = "flag", args[k] = "valueFlag"
          PROVE  k < place - 1 /\ out[k + 1] = out[k] + 1
      <3>1. k # place - 1
        BY <1>0, <2>4 DEF Fresh
      <3>2. k < place - 1 /\ k + 1 \in 1 .. place - 1
        BY <1>0, <3>1
      <3> QED BY <1>1, <3>2
    <2> QED BY <1>0, <1>1, <1>2, <2>1, <2>3, <2>4 DEF Kept
  <1>4. /\ q \in place + 1 .. Len(args) + 1 /\ Fresh(q)
        /\ \A x \in place .. q - 1 : Meant[x] \in {"flag", "value"}
        /\ out \o Consumed(place) \in Seq(Nat)
        /\ Len(out \o Consumed(place)) = Len(out) + (q - place)
        /\ \A k \in 1 .. Len(out) : (out \o Consumed(place))[k] = out[k]
        /\ \A x \in place .. q - 1 : (out \o Consumed(place))[Len(out) + 1 + (x - place)] = x
    <2>1. 1 \in Nat /\ 1 >= 1 /\ 1 <= place
      BY <1>0
    <2>2. ~Dangling(args) /\ Line
      OBVIOUS
    <2> DEFINE lo == 1
    <2>3. Kept(out, lo, place - 1) /\ lo \in Nat /\ lo >= 1 /\ lo <= place
      BY <1>3, <2>1
    <2> HIDE DEF lo
    <2>4. /\ place \in 1 .. Len(args) /\ Fresh(place) /\ isFlag(args[place])
          /\ out \in Seq(Nat)
      BY <1>0, <1>1
    <2>5. /\ q \in place + 1 .. Len(args) + 1 /\ Fresh(q)
          /\ \A x \in place .. q - 1 : Meant[x] \in {"flag", "value"}
      BY <1>q, <2>2, <2>3, <2>4, KeptMore, ZenonT(60)
    <2>6. /\ out \o Consumed(place) \in Seq(Nat)
          /\ Len(out \o Consumed(place)) = Len(out) + (q - place)
      <3>1. Consumed(place) \in Seq(Nat)
        BY <2>2, <2>4, ConsumedIs
      <3>2. /\ out \o Consumed(place) \in Seq(Nat)
            /\ Len(out \o Consumed(place)) = Len(out) + Len(Consumed(place))
        BY <2>4, <3>1, Joined
      <3>3. Len(Consumed(place)) \in Nat /\ place \in Nat
        BY <2>4, <3>1
      <3> QED BY <1>q, <3>2, <3>3
    <2>7. \A k \in 1 .. Len(out) : (out \o Consumed(place))[k] = out[k]
      BY <1>q, <2>2, <2>3, <2>4, KeptMore, ZenonT(60)
    <2>8. \A x \in place .. q - 1 :
            (out \o Consumed(place))[Len(out) + 1 + (x - place)] = x
      BY <1>q, <2>2, <2>3, <2>4, KeptMore, ZenonT(60)
    <2> QED BY <2>5, <2>6, <2>7, <2>8
  <1>5. out' = out \o Consumed(place) /\ place' = q
        /\ args' = args /\ flags' = flags /\ positionals' = positionals
    BY <1>q DEF RootFlag
  <1>6. Meant' = Meant
    BY <1>5 DEF Meant
  <1>7. Fresh(place)'
    BY <1>4, <1>5, <1>6 DEF Fresh
  <1>8. \A j \in 1 .. q - 1 : j \in 1 .. place - 1 \/ j \in place .. q - 1
    BY <1>0, <1>4
  <1>9. \A k \in 1 .. q - 1 : out'[k] = k
    <2> SUFFICES ASSUME NEW k \in 1 .. q - 1 PROVE out'[k] = k
      OBVIOUS
    <2>1. CASE k \in 1 .. place - 1
      BY <1>1, <1>4, <1>5, <2>1
    <2>2. CASE k \in place .. q - 1
      <3>1. Len(out) + 1 + (k - place) = k
        BY <1>0, <1>1, <1>4, <2>2
      <3> QED BY <1>4, <1>5, <2>2, <3>1
    <2> QED BY <1>8, <2>1, <2>2
  <1>10. Len(out') = q - 1 /\ out' \in Seq(Nat)
    <2>1. place \in Nat /\ q \in Nat /\ place - 1 + (q - place) = q - 1
      BY <1>0, <1>4
    <2> QED BY <1>1, <1>4, <1>5, <2>1
  <1>11. flags = <<>> /\ positionals = <<>>
    BY DEF RootScanned
  <1>12. q \in 1 .. Len(args') + 1
    BY <1>0, <1>4, <1>5
  <1>13. \A j \in 1 .. q - 1 : Meant'[j] \in {"flag", "value"}
    BY <1>2, <1>4, <1>6, <1>8
  <1>14. Copied(out, place - 1)'
    BY <1>5, <1>9, <1>10 DEF Copied
  <1> QED BY <1>5, <1>7, <1>11, <1>12, <1>13, <1>14 DEF RootScanned

LEMMA NameScans ==
  ASSUME Line, ~Dangling(args), RootScanned, Name
  PROVE  \E h \in Nat : SubcommandScanned(h)'
  <1>0. /\ Len(args) \in Nat /\ place \in 1 .. Len(args) /\ args[place] = "word"
        /\ Fresh(place)
    BY DEF Line, RootScanned, Name
  <1>1. out \in Seq(Nat) /\ Len(out) = place - 1 /\ \A k \in 1 .. place - 1 : out[k] = k
    BY DEF RootScanned, Copied
  <1>2. \A j \in 1 .. place - 1 : Meant[j] \in {"flag", "value"}
    BY DEF RootScanned
  <1>3. /\ out' = Append(out, place) /\ place' = place + 1
        /\ args' = args /\ flags' = <<>> /\ positionals' = <<>>
    BY DEF RootScanned, Name
  <1>4. Meant' = Meant
    BY <1>3 DEF Meant
  <1>5. Meant[place] = "name" /\ Fresh(place + 1)
    <2>1. ~Among(Meant, place, "name")
      BY <1>2 DEF Among
    <2> QED BY <1>0, <2>1, HereIs, FreshAgain
  <1>6. Fresh(place)'
    BY <1>3, <1>4, <1>5 DEF Fresh
  <1>7. Copied(out', place)
    <2>1. place \in Nat
      BY <1>0
    <2>2. out' \in Seq(Nat) /\ Len(out') = place
      BY <1>1, <1>3, <2>1
    <2>3. \A k \in 1 .. place : out'[k] = k
      BY <1>1, <1>3, <2>1
    <2> QED BY <2>2, <2>3 DEF Copied
  <1>8. Kept(<<>>, place + 1, place)
    <2>1. Len(<<>>) = 0 /\ <<>> \in [1 .. 0 -> place + 1 .. place]
      OBVIOUS
    <2> QED BY <2>1 DEF Kept
  <1>9. Kept(flags, place + 1, place)'
    <2>1. place' + 1 = place + 2 /\ flags' = <<>>
      BY <1>0, <1>3
    <2>2. Len(<<>>) = 0 /\ <<>> \in [1 .. 0 -> place' + 1 .. place']
      OBVIOUS
    <2> QED BY <2>1, <2>2 DEF Kept
  <1> PICK h \in Nat : h = place
    BY <1>0
  <1>10. PathScanned(h)'
    <2>1. place' - 1 = place
      BY <1>0, <1>3
    <2>2. h \in 1 .. place' - 1
      BY <1>0, <2>1
    <2>3. Copied(out, h)'
      BY <1>7 DEF Copied
    <2>4. Meant'[h] = "name" /\ \A j \in 1 .. h - 1 : Meant'[j] \in {"flag", "value"}
      BY <1>2, <1>4, <1>5
    <2> QED BY <2>2, <2>3, <2>4 DEF PathScanned
  <1>11. Kept(flags, h + 1, place - 1)'
    <2>1. Len(<<>>) = 0 /\ <<>> \in [1 .. 0 -> h + 1 .. place' - 1]
      OBVIOUS
    <2> QED BY <1>3, <2>1 DEF Kept
  <1>12. place' \in 1 .. Len(args') + 1 /\ place' - 1 = h
    BY <1>0, <1>3
  <1>13. /\ flags' \in Seq(Nat) /\ positionals' \in Seq(Nat)
         /\ Len(flags') = 0 /\ Len(positionals') = 0
    BY <1>3
  <1>14. h + Len(flags') + Len(positionals') = place' - 1
    <2>1. h + 0 + 0 = h
      OBVIOUS
    <2> QED BY <1>12, <1>13, <2>1
  <1>15. h + 1 .. place' - 1 = {} /\ 1 .. Len(positionals') = {}
    <2>1. h + 1 .. h = {} /\ 1 .. 0 = {}
      OBVIOUS
    <2> QED BY <1>12, <1>13, <2>1
  <1>16. SubcommandScanned(h)'
    BY <1>6, <1>10, <1>11, <1>12, <1>13, <1>14, <1>15 DEF SubcommandScanned
  <1> QED BY <1>16

(* What is scanned of the path stays so. *)
LEMMA PathStays ==
  ASSUME NEW h \in Nat, PathScanned(h), args' = args, out' = out,
         place \in Nat, place' \in Nat, place <= place'
  PROVE  PathScanned(h)' /\ Meant' = Meant
  <1>1. Meant' = Meant
    BY DEF Meant
  <1>2. h \in 1 .. place' - 1
    <2>1. h \in 1 .. place - 1
      BY DEF PathScanned
    <2>2. \A x, y \in Nat : x <= y /\ h \in 1 .. x - 1 => h \in 1 .. y - 1
      OBVIOUS
    <2> QED BY <2>1, <2>2
  <1> QED BY <1>1, <1>2 DEF PathScanned, Copied

LEMMA SubcommandFlagScans ==
  ASSUME Line, ~Dangling(args), NEW h \in Nat, SubcommandScanned(h), SubcommandFlag
  PROVE  SubcommandScanned(h)'
  <1>0. /\ Len(args) \in Nat /\ place \in 1 .. Len(args) /\ isFlag(args[place])
        /\ Fresh(place) /\ PathScanned(h) /\ h \in 1 .. place - 1
    BY DEF Line, SubcommandScanned, SubcommandFlag, PathScanned
  <1>1. /\ flags \in Seq(Nat) /\ Kept(flags, h + 1, place - 1)
        /\ positionals \in Seq(Nat)
        /\ \A k \in 1 .. Len(positionals) :
             positionals[k] \in h + 1 .. place - 1 /\ Meant[positionals[k]] = "word"
        /\ \A k, l \in 1 .. Len(positionals) : k < l => positionals[k] < positionals[l]
        /\ h + Len(flags) + Len(positionals) = place - 1
        /\ \A x \in h + 1 .. place - 1 :
             \/ \E k \in 1 .. Len(flags) : flags[k] = x
             \/ \E k \in 1 .. Len(positionals) : positionals[k] = x
    BY DEF SubcommandScanned
  <1>q. PICK q : q = place + Len(Consumed(place))
    OBVIOUS
  <1>2. /\ q \in place + 1 .. Len(args) + 1 /\ Fresh(q)
        /\ flags \o Consumed(place) \in Seq(Nat)
        /\ Len(flags \o Consumed(place)) = Len(flags) + (q - place)
        /\ \A k \in 1 .. Len(flags) : (flags \o Consumed(place))[k] = flags[k]
        /\ \A x \in place .. q - 1 :
             (flags \o Consumed(place))[Len(flags) + 1 + (x - place)] = x
        /\ Kept(flags \o Consumed(place), h + 1, q - 1)
    <2>1. PICK lo : lo = h + 1
      OBVIOUS
    <2>2. /\ place \in 1 .. Len(args) /\ Fresh(place) /\ isFlag(args[place])
          /\ flags \in Seq(Nat)
      BY <1>0, <1>1
    <2>3. Kept(flags, lo, place - 1) /\ lo \in Nat /\ lo >= 1 /\ lo <= place
      BY <1>0, <1>1, <2>1
    <2>4. ~Dangling(args) /\ Line
      OBVIOUS
    <2>5. Kept(flags \o Consumed(place), lo, q - 1)
      BY <1>q, <2>2, <2>3, <2>4, KeptMore, ZenonT(60)
    <2>6. q \in place + 1 .. Len(args) + 1 /\ Fresh(q)
      BY <1>q, <2>2, <2>3, <2>4, KeptMore, ZenonT(60)
    <2>7. flags \o Consumed(place) \in Seq(Nat)
      BY <1>q, <2>2, <2>3, <2>4, KeptMore, ZenonT(60)
    <2>8. Len(flags \o Consumed(place)) = Len(flags) + (q - place)
      <3>1. Consumed(place) \in Seq(Nat)
        BY <2>2, <2>4, ConsumedIs
      <3>2. Len(flags \o Consumed(place)) = Len(flags) + Len(Consumed(place))
        BY <2>2, <3>1, Joined
      <3>3. Len(Consumed(place)) \in Nat /\ place \in Nat
        BY <2>2, <3>1
      <3> QED BY <1>q, <3>2, <3>3
    <2>9. \A k \in 1 .. Len(flags) : (flags \o Consumed(place))[k] = flags[k]
      BY <1>q, <2>2, <2>3, <2>4, KeptMore, ZenonT(60)
    <2>10. \A x \in place .. q - 1 :
            (flags \o Consumed(place))[Len(flags) + 1 + (x - place)] = x
      BY <1>q, <2>2, <2>3, <2>4, KeptMore, ZenonT(60)
    <2> QED BY <2>1, <2>5, <2>6, <2>7, <2>8, <2>9, <2>10
  <1>3. /\ flags' = flags \o Consumed(place) /\ place' = q
        /\ args' = args /\ out' = out /\ positionals' = positionals
    BY <1>q DEF SubcommandFlag
  <1>4. PathScanned(h)' /\ Meant' = Meant
    <2>1. place \in Nat /\ q \in Nat /\ place <= q
      BY <1>0, <1>2
    <2>2. place \in Nat /\ place' \in Nat /\ place <= place'
      BY <1>3, <2>1
    <2> QED BY <1>0, <1>3, <2>2, PathStays
  <1>5. Fresh(place)'
    BY <1>2, <1>3, <1>4 DEF Fresh
  <1>6. Kept(flags, h + 1, place - 1)'
    BY <1>2, <1>3, <1>4 DEF Kept
  <1>7. place' \in 1 .. Len(args') + 1
    BY <1>0, <1>2, <1>3
  <1>8. Len(flags) \in Nat /\ Len(positionals) \in Nat /\ place \in Nat /\ q \in Nat
    BY <1>0, <1>1, <1>2
  <1>9. h + Len(flags') + Len(positionals') = place' - 1
    <2>1. Len(flags') = Len(flags) + (q - place)
      BY <1>2, <1>3
    <2>2. h + Len(flags) + Len(positionals) = place - 1
      BY <1>1
    <2>3. h + (Len(flags) + (q - place)) + Len(positionals) = q - 1
      BY <1>8, <2>2
    <2> QED BY <1>3, <2>1, <2>3
  <1>10. \A k \in 1 .. Len(positionals') :
           positionals'[k] \in h + 1 .. place' - 1 /\ Meant'[positionals'[k]] = "word"
    <2> SUFFICES ASSUME NEW k \in 1 .. Len(positionals)
                 PROVE  positionals[k] \in h + 1 .. q - 1 /\ Meant[positionals[k]] = "word"
      BY <1>3, <1>4
    <2>1. positionals[k] \in h + 1 .. place - 1
      BY <1>1
    <2>2. place <= q
      BY <1>2, <1>8
    <2>3. positionals[k] \in h + 1 .. q - 1
      BY <1>8, <2>1, <2>2
    <2> QED BY <1>1, <2>3
  <1>11. ASSUME NEW x \in h + 1 .. place' - 1
         PROVE  \/ \E k \in 1 .. Len(flags') : flags'[k] = x
                \/ \E k \in 1 .. Len(positionals') : positionals'[k] = x
    <2>1. CASE x \in h + 1 .. place - 1
      <3>1. \A k \in 1 .. Len(flags) : k \in 1 .. Len(flags') /\ flags'[k] = flags[k]
        BY <1>2, <1>3, <1>8
      <3> QED BY <1>1, <1>3, <2>1, <3>1
    <2>2. CASE x \in place .. q - 1
      <3>1. Len(flags) + 1 + (x - place) \in 1 .. Len(flags')
        BY <1>2, <1>3, <1>8, <2>2
      <3> QED BY <1>2, <1>3, <2>2, <3>1
    <2> QED BY <1>3, <1>8, <2>1, <2>2
  <1>12. /\ flags' \in Seq(Nat) /\ positionals' \in Seq(Nat)
         /\ \A k, l \in 1 .. Len(positionals') : k < l => positionals'[k] < positionals'[l]
    BY <1>1, <1>2, <1>3
  <1> QED BY <1>4, <1>5, <1>6, <1>7, <1>9, <1>10, <1>11, <1>12 DEF SubcommandScanned

LEMMA PositionalScans ==
  ASSUME Line, ~Dangling(args), NEW h \in Nat, SubcommandScanned(h), Positional
  PROVE  SubcommandScanned(h)'
  <1>0. /\ Len(args) \in Nat /\ place \in 1 .. Len(args) /\ args[place] = "word"
        /\ Fresh(place) /\ PathScanned(h) /\ h \in 1 .. place - 1 /\ Meant[h] = "name"
    BY DEF Line, SubcommandScanned, Positional, PathScanned
  <1> DEFINE m == Len(positionals)
  <1>1. /\ flags \in Seq(Nat) /\ Kept(flags, h + 1, place - 1)
        /\ positionals \in Seq(Nat)
        /\ \A k \in 1 .. m :
             positionals[k] \in h + 1 .. place - 1 /\ Meant[positionals[k]] = "word"
        /\ \A k, l \in 1 .. m : k < l => positionals[k] < positionals[l]
        /\ h + Len(flags) + m = place - 1
        /\ \A x \in h + 1 .. place - 1 :
             \/ \E k \in 1 .. Len(flags) : flags[k] = x
             \/ \E k \in 1 .. m : positionals[k] = x
    BY DEF SubcommandScanned
  <1>2. Meant[place] = "word" /\ Fresh(place + 1)
    <2>1. Among(Meant, place, "name")
      BY <1>0 DEF Among
    <2> QED BY <1>0, <2>1, HereIs, FreshAgain
  <1>3. /\ positionals' = Append(positionals, place) /\ place' = place + 1
        /\ args' = args /\ out' = out /\ flags' = flags
    BY DEF Positional
  <1>8. Len(flags) \in Nat /\ m \in Nat /\ place \in Nat
    BY <1>0, <1>1
  <1>4. PathScanned(h)' /\ Meant' = Meant
    <2>1. place \in Nat /\ place' \in Nat /\ place <= place'
      BY <1>3, <1>8
    <2> QED BY <1>0, <1>3, <2>1, PathStays
  <1>5. Fresh(place)'
    BY <1>2, <1>3, <1>4 DEF Fresh
  <1>6. Kept(flags, h + 1, place - 1)'
    <2>1. h + 1 .. place - 1 \subseteq h + 1 .. place' - 1
      BY <1>3, <1>8
    <2>2. flags \in [1 .. Len(flags) -> h + 1 .. place' - 1]
      BY <1>1, <2>1 DEF Kept
    <2> QED BY <1>1, <1>3, <1>4, <2>2 DEF Kept
  <1>7. place' \in 1 .. Len(args') + 1 /\ place' - 1 = place
    BY <1>0, <1>3
  <1>9. /\ positionals' \in Seq(Nat) /\ Len(positionals') = m + 1
        /\ \A k \in 1 .. m : positionals'[k] = positionals[k]
        /\ positionals'[m + 1] = place
    BY <1>1, <1>3, <1>8
  <1> HIDE DEF m
  <1>10. \A k \in 1 .. m + 1 : k \in 1 .. m \/ k = m + 1
    BY <1>8
  <1>11. \A k \in 1 .. m + 1 :
           positionals'[k] \in h + 1 .. place' - 1 /\ Meant'[positionals'[k]] = "word"
    <2>1. ASSUME NEW k \in 1 .. m
          PROVE  positionals'[k] \in h + 1 .. place' - 1 /\ Meant'[positionals'[k]] = "word"
      <3>1. positionals'[k] = positionals[k] /\ positionals[k] \in h + 1 .. place - 1
        BY <1>1, <1>9
      <3>2. positionals[k] \in h + 1 .. place
        BY <1>8, <3>1
      <3> QED BY <1>1, <1>4, <1>7, <3>1, <3>2
    <2>2. place \in h + 1 .. place' - 1
      <3>1. place \in h + 1 .. place
        BY <1>0, <1>8
      <3> QED BY <1>7, <3>1
    <2> QED BY <1>2, <1>4, <1>9, <1>10, <2>1, <2>2
  <1>12. ASSUME NEW k \in 1 .. m + 1, NEW l \in 1 .. m + 1, k < l
         PROVE  positionals'[k] < positionals'[l]
    <2>1. k \in 1 .. m
      BY <1>8, <1>12
    <2>2. positionals'[k] = positionals[k] /\ positionals[k] \in h + 1 .. place - 1
      BY <1>1, <1>9, <2>1
    <2>3. CASE l \in 1 .. m
      BY <1>1, <1>9, <1>12, <2>1, <2>3
    <2>4. CASE l = m + 1
      BY <1>8, <1>9, <2>2, <2>4
    <2> QED BY <1>10, <2>3, <2>4
  <1>13. ASSUME NEW x \in h + 1 .. place' - 1
         PROVE  \/ \E k \in 1 .. Len(flags) : flags[k] = x
                \/ \E k \in 1 .. m + 1 : positionals'[k] = x
    <2>1. x \in h + 1 .. place - 1 \/ x = place
      <3>1. x \in h + 1 .. place
        BY <1>7
      <3> QED BY <1>8, <3>1
    <2>2. \A k \in 1 .. m : k \in 1 .. m + 1 /\ positionals'[k] = positionals[k]
      BY <1>8, <1>9
    <2>3. m + 1 \in 1 .. m + 1
      BY <1>8
    <2> QED BY <1>1, <1>9, <2>1, <2>2, <2>3
  <1>14. h + Len(flags) + (m + 1) = place' - 1
    <2>1. h + Len(flags) + m = place - 1
      BY <1>1
    <2>2. h + Len(flags) + (m + 1) = place
      BY <1>8, <2>1
    <2> QED BY <1>7, <2>2
  <1> QED BY <1>1, <1>3, <1>4, <1>5, <1>6, <1>7, <1>9, <1>11, <1>12, <1>13, <1>14
          DEF SubcommandScanned

(* What is left of the line. *)
LEMMA RestIs ==
  ASSUME Line, NEW p \in 1 .. Len(args) + 1
  PROVE  /\ Rest(p) \in Seq(Nat) /\ Len(Rest(p)) = Len(args) + 1 - p
         /\ \A k \in 1 .. Len(args) + 1 - p : Rest(p)[k] = p + k - 1
  <1>1. Len(args) \in Nat /\ Len(args) + 1 - p \in Nat
    BY DEF Line
  <1>2. \A k \in 1 .. Len(args) + 1 - p : p + k - 1 \in Nat
    BY <1>1
  <1>3. Rest(p) \in [1 .. Len(args) + 1 - p -> Nat]
    BY <1>2 DEF Rest
  <1>4. Rest(p) \in Seq(Nat) /\ Len(Rest(p)) = Len(args) + 1 - p
    BY <1>1, <1>3
  <1> QED BY <1>4 DEF Rest

(* From "--" on, all are words. *)
LEMMA WordsAreLeft ==
  ASSUME Line, NEW p \in 1 .. Len(args) + 1, Fresh(p), p <= Len(args) => args[p] = "--",
         NEW k \in p .. Len(args)
  PROVE  Meant[k] \in {"word", "end"}
  <1>1. Len(args) \in Nat
    BY DEF Line
  <1>2. p \in 1 .. Len(args) /\ Meant[p] = "end"
    <2>1. p \in 1 .. Len(args)
      BY <1>1
    <2> QED BY <2>1, HereIs
  <1>3. CASE k = p
    BY <1>2, <1>3
  <1>4. CASE k # p
    <2>1. k \in 1 .. Len(args) /\ p \in 1 .. k - 1
      BY <1>1, <1>4
    <2>2. Among(Meant, k, "end")
      BY <1>2, <2>1 DEF Among
    <2> QED BY <2>1, <2>2, MeantIs
  <1> QED BY <1>3, <1>4

LEMMA RootEndArranges ==
  ASSUME Line, ~Dangling(args), RootScanned, RootEnd
  PROVE  \E b \in Nat : Arranged(b)'
  <1> DEFINE n == Len(args)
  <1> PICK b : b = place - 1
    OBVIOUS
  <1>0. /\ n \in Nat /\ place \in 1 .. n + 1 /\ Fresh(place) /\ b \in Nat /\ b <= n
        /\ place <= n => args[place] = "--"
    BY DEF Line, RootScanned, RootEnd
  <1>1. out \in Seq(Nat) /\ Len(out) = b /\ \A k \in 1 .. b : out[k] = k
    BY DEF RootScanned, Copied
  <1>2. \A j \in 1 .. b : Meant[j] \in {"flag", "value"}
    BY DEF RootScanned
  <1>3. out' = out \o Rest(place) /\ args' = args
    BY DEF RootEnd
  <1>4. Meant' = Meant
    BY <1>3 DEF Meant
  <1>5. /\ Rest(place) \in Seq(Nat) /\ Len(Rest(place)) = n - b
        /\ \A k \in 1 .. n - b : Rest(place)[k] = b + k
    <2>1. n + 1 - place = n - b /\ \A k \in 1 .. n - b : place + k - 1 = b + k
      BY <1>0
    <2> QED BY <1>0, <2>1, RestIs
  <1>6. /\ out' \in Seq(Nat) /\ Len(out') = b + (n - b)
        /\ \A k \in 1 .. b : out'[k] = k
        /\ \A k \in 1 .. n - b : out'[b + k] = b + k
    <2>1. /\ out \o Rest(place) \in Seq(Nat)
          /\ Len(out \o Rest(place)) = Len(out) + Len(Rest(place))
          /\ \A k \in 1 .. Len(out) : (out \o Rest(place))[k] = out[k]
          /\ \A k \in 1 .. Len(Rest(place)) :
               (out \o Rest(place))[Len(out) + k] = Rest(place)[k]
      <3>1. out \in Seq(Nat) /\ Rest(place) \in Seq(Nat)
        BY <1>1, <1>5
      <3> QED BY <3>1, Joined, Zenon
    <2> QED BY <1>1, <1>3, <1>5, <2>1
  <1>7. \A k \in b + 1 .. n : Meant[k] \in {"word", "end"}
    BY <1>0, WordsAreLeft
  <1> HIDE DEF n
  <1>8. Len(out') = n
    <2>1. b + (n - b) = n
      BY <1>0
    <2> QED BY <1>6, <2>1
  <1>9. \A k \in 1 .. n : out'[k] = k
    <2> SUFFICES ASSUME NEW k \in 1 .. n PROVE out'[k] = k
      OBVIOUS
    <2>1. CASE k \in 1 .. b
      BY <1>6, <2>1
    <2>2. CASE k \in b + 1 .. n
      <3>1. k - b \in 1 .. n - b /\ b + (k - b) = k
        BY <1>0, <2>2
      <3> QED BY <1>6, <3>1
    <2> QED BY <1>0, <2>1, <2>2
  <1>10. out' \in [1 .. n -> 1 .. n]
    BY <1>6, <1>8, <1>9
  <1>11. \A k \in 1 .. b : k \in 1 .. n /\ ~Among(Meant, k, "end")
    BY <1>0, <1>2 DEF Among
  <1>12. ASSUME NEW k \in 1 .. b, Meant[k] = "value"
         PROVE  k > 1 /\ out'[k - 1] = out'[k] - 1
    <2>1. k > 1
      <3>1. k \in 1 .. Len(args)
        BY <1>11 DEF n
      <3> QED BY <1>11, <1>12, <3>1, MeantIs
    <2>2. k - 1 \in 1 .. n /\ k \in 1 .. n
      BY <1>0, <2>1
    <2> QED BY <1>9, <2>1, <2>2
  <1>13. ASSUME NEW k \in 1 .. b, Meant[k] = "flag", args[k] = "valueFlag"
         PROVE  k < b /\ out'[k + 1] = out'[k] + 1
    <2>1. k # b
      <3>1. b = place - 1 /\ (place > 1 \/ b = 0)
        BY <1>0
      <3> QED BY <1>0, <1>13, <3>1 DEF Fresh
    <2>2. k < b /\ k + 1 \in 1 .. n /\ k \in 1 .. n
      BY <1>0, <2>1
    <2> QED BY <1>9, <2>2
  <1>14. \A k \in 1 .. n : k \in Nat
    OBVIOUS
  <1>15. b + 1 .. n \subseteq 1 .. n /\ 1 .. b \subseteq 1 .. n
    BY <1>0
  <1>16. Len(args') = n
    BY <1>3 DEF n
  <1>17. \A k \in 1 .. b : Meant[out'[k]] \in Ahead
    BY <1>2, <1>9, <1>15 DEF Ahead
  <1>18. \A k \in b + 1 .. n : Meant[out'[k]] \in {"word", "end"}
    BY <1>7, <1>9, <1>15
  <1>19. \A k \in 1 .. b : Meant[out'[k]] = "value" => k > 1 /\ out'[k - 1] = out'[k] - 1
    BY <1>9, <1>12, <1>15
  <1>20. \A k \in 1 .. b : Meant[out'[k]] = "flag" /\ args[out'[k]] = "valueFlag" =>
           k < b /\ out'[k + 1] = out'[k] + 1
    BY <1>9, <1>13, <1>15
  <1>21. \A k, l \in 1 .. n : k < l => out'[k] < out'[l]
    BY <1>9
  <1>22. \A p \in 1 .. n : \E k \in 1 .. n : out'[k] = p
    BY <1>9
  <1>23. Arranged(b)'
    BY <1>0, <1>3, <1>4, <1>8, <1>10, <1>16, <1>17, <1>18, <1>19, <1>20, <1>21, <1>22
       DEF Arranged
  <1> QED BY <1>0, <1>23

LEMMA SubcommandEndArranges ==
  ASSUME Line, ~Dangling(args), NEW h \in Nat, SubcommandScanned(h), SubcommandEnd
  PROVE  \E b \in Nat : Arranged(b)'
  <1> PICK n : n = Len(args)
    OBVIOUS
  <1> PICK f : f = Len(flags)
    OBVIOUS
  <1> PICK m : m = Len(positionals)
    OBVIOUS
  <1> PICK b : b = h + f
    OBVIOUS
  <1>1. /\ n \in Nat /\ place \in 1 .. n + 1 /\ Fresh(place) /\ PathScanned(h)
        /\ place <= n => args[place] = "--"
    BY DEF Line, SubcommandScanned, SubcommandEnd
  <1>2. /\ h \in 1 .. place - 1 /\ Meant[h] = "name"
        /\ out \in Seq(Nat) /\ Len(out) = h /\ \A k \in 1 .. h : out[k] = k
        /\ \A j \in 1 .. h - 1 : Meant[j] \in {"flag", "value"}
    BY <1>1 DEF PathScanned, Copied
  <1>3. /\ flags \in Seq(Nat) /\ f \in Nat
        /\ \A k \in 1 .. f : flags[k] \in h + 1 .. place - 1
        /\ \A k, l \in 1 .. f : k < l => flags[k] < flags[l]
        /\ \A k \in 1 .. f : Meant[flags[k]] \in {"flag", "value"}
        /\ \A k \in 1 .. f : Meant[flags[k]] = "value" =>
             k > 1 /\ flags[k - 1] = flags[k] - 1
        /\ \A k \in 1 .. f : Meant[flags[k]] = "flag" /\ args[flags[k]] = "valueFlag" =>
             k < f /\ flags[k + 1] = flags[k] + 1
    BY DEF SubcommandScanned, Kept
  <1>4. /\ positionals \in Seq(Nat) /\ m \in Nat
        /\ \A k \in 1 .. m :
             positionals[k] \in h + 1 .. place - 1 /\ Meant[positionals[k]] = "word"
        /\ \A k, l \in 1 .. m : k < l => positionals[k] < positionals[l]
        /\ h + f + m = place - 1
        /\ \A x \in h + 1 .. place - 1 :
             \/ \E k \in 1 .. f : flags[k] = x
             \/ \E k \in 1 .. m : positionals[k] = x
    BY DEF SubcommandScanned
  <1>5. /\ h >= 1 /\ f \in Nat /\ m \in Nat /\ n \in Nat /\ b \in Nat /\ place \in Nat
        /\ b + m = place - 1 /\ place <= n + 1 /\ b <= n
    <2>1. h >= 1 /\ f \in Nat /\ m \in Nat /\ n \in Nat /\ place \in 1 .. n + 1
      BY <1>1, <1>2, <1>3, <1>4
    <2>2. h + f + m = place - 1
      BY <1>4
    <2> QED BY <2>1, <2>2
  <1>6. /\ args' = args /\ Meant' = Meant
        /\ out' = out \o flags \o (positionals \o Rest(place))
    BY DEF SubcommandEnd, Meant
  <1>7. /\ Rest(place) \in Seq(Nat) /\ Len(Rest(place)) = n - (b + m)
        /\ \A k \in 1 .. n - (b + m) : Rest(place)[k] = b + m + k
    <2>1. n + 1 - place = n - (b + m) /\ \A k \in 1 .. n - (b + m) : place + k - 1 = b + m + k
      BY <1>1, <1>5
    <2>2. place \in 1 .. Len(args) + 1
      BY <1>1
    <2>3. /\ Rest(place) \in Seq(Nat) /\ Len(Rest(place)) = n + 1 - place
          /\ \A k \in 1 .. n + 1 - place : Rest(place)[k] = place + k - 1
      BY <2>2, RestIs
    <2> QED BY <2>1, <2>3
  <1>8. /\ out \o flags \in Seq(Nat) /\ Len(out \o flags) = b
        /\ \A k \in 1 .. h : (out \o flags)[k] = k
        /\ \A k \in 1 .. f : (out \o flags)[h + k] = flags[k]
    <2>1. /\ out \o flags \in Seq(Nat) /\ Len(out \o flags) = Len(out) + Len(flags)
          /\ \A k \in 1 .. Len(out) : (out \o flags)[k] = out[k]
          /\ \A k \in 1 .. Len(flags) : (out \o flags)[Len(out) + k] = flags[k]
      <3>1. out \in Seq(Nat) /\ flags \in Seq(Nat)
        BY <1>2, <1>3
      <3> QED BY <3>1, Joined, Zenon
    <2> QED BY <1>2, <2>1
  <1>9. /\ positionals \o Rest(place) \in Seq(Nat)
        /\ Len(positionals \o Rest(place)) = m + (n - (b + m))
        /\ \A k \in 1 .. m : (positionals \o Rest(place))[k] = positionals[k]
        /\ \A k \in 1 .. n - (b + m) : (positionals \o Rest(place))[m + k] = b + m + k
    <2>1. /\ positionals \o Rest(place) \in Seq(Nat)
          /\ Len(positionals \o Rest(place)) = Len(positionals) + Len(Rest(place))
          /\ \A k \in 1 .. Len(positionals) : (positionals \o Rest(place))[k] = positionals[k]
          /\ \A k \in 1 .. Len(Rest(place)) :
               (positionals \o Rest(place))[Len(positionals) + k] = Rest(place)[k]
      BY <1>4, <1>7, Joined, Zenon
    <2>2. Len(positionals) = m /\ Len(Rest(place)) = n - (b + m)
      BY <1>7
    <2>3. \A k \in 1 .. n - (b + m) : (positionals \o Rest(place))[m + k] = Rest(place)[k]
      BY <2>1, <2>2, Zenon
    <2> QED BY <1>7, <2>1, <2>2, <2>3
  <1>10. /\ out' \in Seq(Nat) /\ Len(out') = b + (m + (n - (b + m)))
         /\ \A k \in 1 .. b : out'[k] = (out \o flags)[k]
         /\ \A k \in 1 .. m + (n - (b + m)) :
              out'[b + k] = (positionals \o Rest(place))[k]
    <2> DEFINE s == out \o flags
    <2> DEFINE t == positionals \o Rest(place)
    <2>1. /\ s \o t \in Seq(Nat) /\ Len(s \o t) = Len(s) + Len(t)
          /\ \A k \in 1 .. Len(s) : (s \o t)[k] = s[k]
          /\ \A k \in 1 .. Len(t) : (s \o t)[Len(s) + k] = t[k]
      <3>1. s \in Seq(Nat) /\ t \in Seq(Nat)
        BY <1>8, <1>9
      <3> HIDE DEF s, t
      <3> QED BY <3>1, Joined, Zenon
    <2>2. out' = s \o t /\ Len(s) = b /\ Len(t) = m + (n - (b + m))
      BY <1>6, <1>8, <1>9
    <2> HIDE DEF s, t
    <2>3. /\ out' \in Seq(Nat) /\ Len(out') = b + (m + (n - (b + m)))
          /\ \A k \in 1 .. b : out'[k] = s[k]
          /\ \A k \in 1 .. m + (n - (b + m)) : out'[b + k] = t[k]
      <3>1. /\ out' \in Seq(Nat) /\ Len(out') = Len(s) + Len(t)
            /\ \A k \in 1 .. Len(s) : out'[k] = s[k]
            /\ \A k \in 1 .. Len(t) : out'[Len(s) + k] = t[k]
        <4>1. \A u : u = s \o t =>
                /\ u \in Seq(Nat) /\ Len(u) = Len(s) + Len(t)
                /\ \A k \in 1 .. Len(s) : u[k] = s[k]
                /\ \A k \in 1 .. Len(t) : u[Len(s) + k] = t[k]
          BY <2>1
        <4> QED BY <2>2, <4>1, Zenon
      <3> QED BY <2>2, <3>1
    <2> QED BY <2>3 DEF s, t
  (* What is where in the new order. *)
  <1>11. Len(out') = n
    <2>1. b + (m + (n - (b + m))) = n
      BY <1>5
    <2> QED BY <1>10, <2>1
  <1>12. \A k \in 1 .. h : out'[k] = k
    <2>1. \A k \in 1 .. h : k \in 1 .. b
      BY <1>3
    <2> QED BY <1>8, <1>10, <2>1
  <1>13. \A k \in 1 .. f : out'[h + k] = flags[k]
    <2>1. \A k \in 1 .. f : h + k \in 1 .. b
      BY <1>3
    <2> QED BY <1>8, <1>10, <2>1
  <1>14. \A k \in 1 .. m : out'[b + k] = positionals[k]
    <2>1. \A k \in 1 .. m : k \in 1 .. m + (n - (b + m))
      BY <1>5
    <2> QED BY <1>9, <1>10, <2>1
  <1>15. \A x \in place .. n : out'[x] = x
    <2> SUFFICES ASSUME NEW x \in place .. n PROVE out'[x] = x
      OBVIOUS
    <2> PICK k \in 1 .. n - (b + m) : x = b + m + k
      <3>1. x - (b + m) \in 1 .. n - (b + m) /\ x = b + m + (x - (b + m))
        BY <1>5
      <3> QED BY <3>1
    <2>1. m + k \in 1 .. m + (n - (b + m)) /\ b + (m + k) = x
      BY <1>5
    <2>2. out'[b + (m + k)] = (positionals \o Rest(place))[m + k]
      BY <1>10, <2>1
    <2> QED BY <1>9, <2>1, <2>2
  <1>16. \A k \in 1 .. n :
           \/ k \in 1 .. h
           \/ \E i \in 1 .. f : k = h + i
           \/ \E i \in 1 .. m : k = b + i
           \/ k \in place .. n
    <2> TAKE k \in 1 .. n
    <2>1. \/ k \in 1 .. h
          \/ k - h \in 1 .. f /\ k = h + (k - h)
          \/ k - b \in 1 .. m /\ k = b + (k - b)
          \/ k \in place .. n
      BY <1>5
    <2>2. k - h \in 1 .. f /\ k = h + (k - h) => \E i \in 1 .. f : k = h + i
      BY Zenon
    <2>3. k - b \in 1 .. m /\ k = b + (k - b) => \E i \in 1 .. m : k = b + i
      BY Zenon
    <2> QED BY <2>1, <2>2, <2>3
  <1>17. /\ \A k \in 1 .. h : k \in 1 .. b /\ k \in 1 .. n
         /\ \A i \in 1 .. f : h + i \in 1 .. b /\ h + i \in 1 .. n
         /\ \A i \in 1 .. m : b + i \in b + 1 .. n /\ b + i \in 1 .. n
         /\ \A k \in place .. n : k \in b + 1 .. n /\ k \in 1 .. n
    BY <1>5
  (* The path and the flags. *)
  <1>18. \A k \in 1 .. b : k \in 1 .. h \/ \E i \in 1 .. f : k = h + i
    <2> SUFFICES ASSUME NEW k \in 1 .. b
                 PROVE  k \in 1 .. h \/ (k - h \in 1 .. f /\ k = h + (k - h))
      OBVIOUS
    <2> QED BY <1>3
  <1>19. \A k \in b + 1 .. n : (\E i \in 1 .. m : k = b + i) \/ k \in place .. n
    <2> SUFFICES ASSUME NEW k \in b + 1 .. n
                 PROVE  (k - b \in 1 .. m /\ k = b + (k - b)) \/ k \in place .. n
      OBVIOUS
    <2> QED BY <1>5
  <1>20. \A k \in place .. n : Meant[k] \in {"word", "end"}
    <2>1. place \in 1 .. Len(args) + 1 /\ (place <= Len(args) => args[place] = "--")
      BY <1>1
    <2>2. \A k \in place .. Len(args) : Meant[k] \in {"word", "end"}
      BY <1>1, <2>1, WordsAreLeft
    <2> QED BY <2>2
  <1>21. \A k \in 1 .. h : Meant[k] \in Ahead /\ Meant[k] # "end"
    BY <1>2 DEF Ahead
  <1>22. \A k \in 1 .. b : Meant[out'[k]] \in Ahead
    BY <1>3, <1>12, <1>13, <1>18, <1>21 DEF Ahead
  <1>23. \A k \in b + 1 .. n : Meant[out'[k]] \in {"word", "end"}
    <2> TAKE k \in b + 1 .. n
    <2>1. CASE k \in place .. n
      BY <1>15, <1>20, <2>1
    <2>2. ASSUME NEW i \in 1 .. m, k = b + i PROVE Meant[out'[k]] \in {"word", "end"}
      <3>1. out'[k] = positionals[i] /\ Meant[positionals[i]] = "word"
        BY <1>4, <1>14, <2>2
      <3> QED BY <3>1
    <2> QED BY <1>19, <2>1, <2>2
  <1>24. out' \in [1 .. n -> 1 .. n]
    <2>1. ASSUME NEW k \in 1 .. n PROVE out'[k] \in 1 .. n
      <3>1. CASE k \in 1 .. h
        BY <1>12, <3>1
      <3>2. ASSUME NEW i \in 1 .. f, k = h + i PROVE out'[k] \in 1 .. n
        <4>1. out'[k] \in h + 1 .. place - 1
          BY <1>3, <1>13, <3>2
        <4> QED BY <1>1, <1>5, <4>1
      <3>3. ASSUME NEW i \in 1 .. m, k = b + i PROVE out'[k] \in 1 .. n
        <4>1. out'[k] \in h + 1 .. place - 1
          BY <1>4, <1>14, <3>3
        <4> QED BY <1>1, <1>5, <4>1
      <3>4. CASE k \in place .. n
        BY <1>15, <3>4
      <3> QED BY <1>16, <3>1, <3>2, <3>3, <3>4
    <2> QED BY <1>10, <1>11, <2>1
  <1>25. ASSUME NEW p \in 1 .. n PROVE \E k \in 1 .. n : out'[k] = p
    <2>1. CASE p \in 1 .. h
      BY <1>12, <1>17, <2>1
    <2>2. CASE p \in h + 1 .. place - 1
      <3>1. (\E k \in 1 .. f : flags[k] = p) \/ (\E k \in 1 .. m : positionals[k] = p)
        BY <1>4, <2>2
      <3>2. ASSUME NEW k \in 1 .. f, flags[k] = p PROVE \E x \in 1 .. n : out'[x] = p
        <4>1. out'[h + k] = p /\ h + k \in 1 .. n
          BY <1>13, <1>17, <3>2
        <4> QED BY <4>1
      <3>3. ASSUME NEW k \in 1 .. m, positionals[k] = p PROVE \E x \in 1 .. n : out'[x] = p
        <4>1. out'[b + k] = p /\ b + k \in 1 .. n
          BY <1>14, <1>17, <3>3
        <4> QED BY <4>1
      <3> QED BY <3>1, <3>2, <3>3
    <2>3. CASE p \in place .. n
      BY <1>15, <1>17, <2>3
    <2> QED BY <1>1, <1>5, <2>1, <2>2, <2>3
  <1>26. ASSUME NEW k \in 1 .. b, NEW l \in 1 .. b, k < l PROVE out'[k] < out'[l]
    <2>0. k \in Nat /\ l \in Nat
      BY <1>5
    <2>1. CASE l \in 1 .. h
      <3>1. k \in 1 .. h
        BY <1>26, <2>0, <2>1
      <3> QED BY <1>12, <1>26, <2>1, <3>1
    <2>2. ASSUME NEW j \in 1 .. f, l = h + j, k \in 1 .. h PROVE out'[k] < out'[l]
      <3>1. out'[l] \in h + 1 .. place - 1 /\ out'[k] = k
        BY <1>3, <1>12, <1>13, <2>2
      <3> QED BY <1>5, <2>2, <3>1
    <2>3. ASSUME NEW j \in 1 .. f, l = h + j, NEW i \in 1 .. f, k = h + i
          PROVE  out'[k] < out'[l]
      <3>1. i < j
        BY <1>3, <1>26, <2>3
      <3> QED BY <1>3, <1>13, <2>3, <3>1
    <2> QED BY <1>18, <2>1, <2>2, <2>3
  <1>27. ASSUME NEW k \in b + 1 .. n, NEW l \in b + 1 .. n, k < l PROVE out'[k] < out'[l]
    <2>0. k \in Nat /\ l \in Nat
      BY <1>5
    <2>1. ASSUME NEW j \in 1 .. m, l = b + j PROVE out'[k] < out'[l]
      <3>1. k \notin place .. n
        BY <1>5, <1>27, <2>0, <2>1
      <3>2. PICK i \in 1 .. m : k = b + i
        BY <1>19, <3>1
      <3>3. i < j
        BY <1>5, <1>27, <2>1, <3>2
      <3> QED BY <1>4, <1>14, <2>1, <3>2, <3>3
    <2>2. ASSUME l \in place .. n, NEW i \in 1 .. m, k = b + i PROVE out'[k] < out'[l]
      <3>1. out'[k] \in h + 1 .. place - 1 /\ out'[l] = l
        BY <1>4, <1>14, <1>15, <2>2
      <3>2. l \in Nat /\ l >= place
        BY <1>5, <2>2
      <3>3. \A x \in h + 1 .. place - 1 : x < l
        BY <1>5, <3>2
      <3> QED BY <3>1, <3>3
    <2>3. CASE l \in place .. n /\ k \in place .. n
      BY <1>15, <1>27, <2>3
    <2> QED BY <1>19, <2>1, <2>2, <2>3
  <1>28. ASSUME NEW k \in 1 .. b, Meant[out'[k]] = "value"
         PROVE  k > 1 /\ out'[k - 1] = out'[k] - 1
    <2>1. CASE k \in 1 .. h
      <3>1. Meant[k] = "value" /\ out'[k] = k /\ k \in 1 .. n
        BY <1>12, <1>17, <1>28, <2>1
      <3>2. ~Among(Meant, k, "end")
        <4>1. \A j \in 1 .. k - 1 : j \in 1 .. h
          BY <1>2, <2>1
        <4> QED BY <1>21, <4>1 DEF Among
      <3>3. k > 1
        <4>1. k \in 1 .. Len(args)
          BY <3>1
        <4> QED BY <3>1, <3>2, <4>1, MeantIs
      <3>4. k - 1 \in 1 .. h
        BY <1>2, <2>1, <3>3
      <3> QED BY <1>12, <3>1, <3>3, <3>4
    <2>2. ASSUME NEW i \in 1 .. f, k = h + i PROVE k > 1 /\ out'[k - 1] = out'[k] - 1
      <3>1. out'[k] = flags[i] /\ i > 1 /\ flags[i - 1] = flags[i] - 1
        BY <1>3, <1>13, <1>28, <2>2
      <3>2. i - 1 \in 1 .. f /\ k - 1 = h + (i - 1) /\ k > 1
        BY <1>5, <2>2, <3>1
      <3> QED BY <1>13, <3>1, <3>2
    <2> QED BY <1>18, <2>1, <2>2
  <1>29. ASSUME NEW k \in 1 .. b, Meant[out'[k]] = "flag", args[out'[k]] = "valueFlag"
         PROVE  k < b /\ out'[k + 1] = out'[k] + 1
    <2>1. CASE k \in 1 .. h
      <3>1. Meant[k] = "flag" /\ out'[k] = k
        BY <1>12, <1>29, <2>1
      <3>2. k # h
        BY <1>2, <3>1
      <3>3. k + 1 \in 1 .. h /\ k < b
        BY <1>2, <1>3, <2>1, <3>2
      <3> QED BY <1>12, <3>1, <3>3
    <2>2. ASSUME NEW i \in 1 .. f, k = h + i PROVE k < b /\ out'[k + 1] = out'[k] + 1
      <3>1. out'[k] = flags[i] /\ i < f /\ flags[i + 1] = flags[i] + 1
        BY <1>3, <1>13, <1>29, <2>2
      <3>2. i + 1 \in 1 .. f /\ k + 1 = h + (i + 1) /\ k < b
        BY <1>5, <2>2, <3>1
      <3> QED BY <1>13, <3>1, <3>2
    <2> QED BY <1>18, <2>1, <2>2
  <1>30. ASSUME NEW k \in 1 .. n, NEW l \in 1 .. n, k < l, k <= b <=> l <= b
         PROVE  out'[k] < out'[l]
    <2>1. (k \in 1 .. b /\ l \in 1 .. b) \/ (k \in b + 1 .. n /\ l \in b + 1 .. n)
      <3>1. k \in Nat /\ l \in Nat /\ n \in Nat /\ b \in Nat
        BY <1>1, <1>5
      <3>2. CASE k <= b
        <4>1. l <= b
          BY <1>30, <3>2
        <4> QED BY <1>30, <3>1, <3>2, <4>1
      <3>3. CASE ~(k <= b)
        BY <1>30, <3>1, <3>3
      <3> QED BY <3>2, <3>3
    <2> QED BY <1>26, <1>27, <1>30, <2>1
  <1>31. Len(args') = n
    BY <1>6
  <1>32. Arranged(b)'
    BY <1>5, <1>6, <1>11, <1>22, <1>23, <1>24, <1>25, <1>28, <1>29, <1>30, <1>31
       DEF Arranged
  <1> QED BY <1>5, <1>32

-----------------------------------------------------------------------------
LEMMA ArgumentsInvariant ==
  ArgumentsSpec => []ArgumentsInv
  <1>1. ArgumentsInit => ArgumentsInv
    <2> SUFFICES ASSUME ArgumentsInit PROVE ArgumentsInv
      OBVIOUS
    <2>1. PICK n \in 0 .. MaxArgs : args \in [1 .. n -> Kinds]
      BY DEF ArgumentsInit
    <2>2. n \in Nat /\ Len(args) = n
      BY <2>1, ArgumentsAssumption
    <2>3. Line
      BY <2>1, <2>2 DEF Line
    <2>4. section = "root" /\ place = 1 /\ out = <<>> /\ flags = <<>> /\ positionals = <<>>
      BY DEF ArgumentsInit
    <2>5. Fresh(place)
      BY <2>4 DEF Fresh, Among
    <2>6. Copied(out, place - 1)
      BY <2>4 DEF Copied
    <2>7. place \in 1 .. Len(args) + 1 /\ 1 .. place - 1 = {}
      BY <2>2, <2>4
    <2>8. RootScanned
      BY <2>4, <2>5, <2>6, <2>7 DEF RootScanned
    <2> QED BY <2>3, <2>4, <2>8 DEF ArgumentsInv, Scanned
  <1>2. ArgumentsInv /\ [ArgumentsNext]_arguments => ArgumentsInv'
    <2> SUFFICES ASSUME ArgumentsInv, [ArgumentsNext]_arguments PROVE ArgumentsInv'
      OBVIOUS
    <2>1. CASE UNCHANGED arguments
      <3>1. /\ args' = args /\ section' = section /\ place' = place /\ out' = out
            /\ flags' = flags /\ positionals' = positionals
        BY <2>1 DEF arguments
      <3>2. Meant' = Meant
        BY <3>1 DEF Meant
      <3>3. Line'
        BY <3>1 DEF ArgumentsInv, Line
      <3>4. RootScanned => RootScanned'
        BY <3>1, <3>2 DEF RootScanned, Fresh, Copied
      <3>5. \A h \in Nat : SubcommandScanned(h) => SubcommandScanned(h)'
        BY <3>1, <3>2 DEF SubcommandScanned, PathScanned, Kept, Fresh, Copied
      <3>6. \A b \in Nat : Arranged(b) => Arranged(b)'
        BY <3>1, <3>2 DEF Arranged
      <3> QED BY <3>1, <3>3, <3>4, <3>5, <3>6 DEF ArgumentsInv, Scanned
    <2>2. CASE ArgumentsNext
      <3>1. args' = args
        BY <2>2 DEF ArgumentsNext, RootFlag, Name, RootEnd, SubcommandFlag, Positional,
                    SubcommandEnd
      <3>2. Line /\ Line'
        BY <3>1 DEF ArgumentsInv, Line
      <3>3. section' \in {"root", "subcommand", "done"}
        BY <2>2 DEF ArgumentsInv, ArgumentsNext, RootFlag, Name, RootEnd, SubcommandFlag,
                    Positional, SubcommandEnd
      <3>4. ASSUME ~Dangling(args) PROVE Scanned'
        <4>0. Scanned
          BY <3>4 DEF ArgumentsInv
        <4>1. CASE RootFlag
          <5>1. section = "root" /\ section' = "root"
            BY <4>1 DEF RootFlag
          <5> QED BY <3>2, <3>4, <4>0, <4>1, <5>1, RootFlagScans DEF Scanned
        <4>2. CASE Name
          <5>1. section = "root" /\ section' = "subcommand"
            BY <4>2 DEF Name
          <5> QED BY <3>2, <3>4, <4>0, <4>2, <5>1, NameScans DEF Scanned
        <4>3. CASE RootEnd
          <5>1. section = "root" /\ section' = "done"
            BY <4>3 DEF RootEnd
          <5> QED BY <3>2, <3>4, <4>0, <4>3, <5>1, RootEndArranges DEF Scanned
        <4>4. CASE SubcommandFlag
          <5>1. section = "subcommand" /\ section' = "subcommand"
            BY <4>4 DEF SubcommandFlag
          <5> QED BY <3>2, <3>4, <4>0, <4>4, <5>1, SubcommandFlagScans DEF Scanned
        <4>5. CASE Positional
          <5>1. section = "subcommand" /\ section' = "subcommand"
            BY <4>5 DEF Positional
          <5> QED BY <3>2, <3>4, <4>0, <4>5, <5>1, PositionalScans DEF Scanned
        <4>6. CASE SubcommandEnd
          <5>1. section = "subcommand" /\ section' = "done"
            BY <4>6 DEF SubcommandEnd
          <5> QED BY <3>2, <3>4, <4>0, <4>6, <5>1, SubcommandEndArranges DEF Scanned
        <4> QED BY <2>2, <4>1, <4>2, <4>3, <4>4, <4>5, <4>6 DEF ArgumentsNext
      <3> QED BY <3>1, <3>2, <3>3, <3>4 DEF ArgumentsInv
    <2> QED BY <2>1, <2>2
  <1> QED BY <1>1, <1>2, PTL DEF ArgumentsSpec

(* Of a command line of any length, ff takes the new order as the old one was meant. *)
THEOREM LinesAreTakenAsMeant ==
  ArgumentsSpec => []ParsedAsMeant
  <1>1. ArgumentsInv => ParsedAsMeant
    <2> SUFFICES ASSUME ArgumentsInv, section = "done", ~Dangling(args)
                 PROVE  LET meant == Roles(args, TRUE)
                            taken == Roles([k \in DOMAIN out |-> args[out[k]]], FALSE)
                            Word(role) == role \in {"word", "end"} IN
                    /\ Len(out) = Len(args) /\ {out[k] : k \in DOMAIN out} = DOMAIN args
                    /\ \A k \in DOMAIN out :
                         taken[k] = meant[out[k]] \/ (Word(taken[k]) /\ Word(meant[out[k]]))
                    /\ \A k, l \in DOMAIN out :
                         k < l /\ (Word(taken[k]) <=> Word(taken[l])) => out[k] < out[l]
      BY DEF ParsedAsMeant
    <2> DEFINE n == Len(args)
    <2> DEFINE taken == Roles([k \in DOMAIN out |-> args[out[k]]], FALSE)
    <2>1. Line
      BY DEF ArgumentsInv
    <2>2. PICK b \in Nat : Arranged(b)
      BY DEF ArgumentsInv, Scanned
    <2>3. /\ n \in Nat /\ args \in [1 .. n -> Kinds]
          /\ Len(out) = n /\ out \in [1 .. n -> 1 .. n]
          /\ \A p \in 1 .. n : \E k \in 1 .. n : out[k] = p
          /\ \A k, l \in 1 .. n : k < l /\ (k <= b <=> l <= b) => out[k] < out[l]
      BY <2>1, <2>2 DEF Line, Arranged
    <2>4. \A k \in 1 .. n :
            /\ \/ taken[k] = Meant[out[k]]
               \/ taken[k] \in {"word", "end"} /\ Meant[out[k]] \in {"word", "end"}
            /\ k <= b <=> taken[k] \notin {"word", "end"}
      BY <2>1, <2>2, ArrangedIsParsed
    <2> HIDE DEF taken, n
    <2>5. DOMAIN out = 1 .. n /\ DOMAIN args = 1 .. n /\ Len(out) = n
      BY <2>3
    <2>6. {out[k] : k \in DOMAIN out} = DOMAIN args
      BY <2>3, <2>5
    <2>7. ASSUME NEW k \in 1 .. n, NEW l \in 1 .. n, k < l,
                 taken[k] \in {"word", "end"} <=> taken[l] \in {"word", "end"}
          PROVE  out[k] < out[l]
      <3>1. k <= b <=> l <= b
        BY <2>4, <2>7
      <3> QED BY <2>3, <2>7, <3>1
    <2> QED BY <2>4, <2>5, <2>6, <2>7 DEF taken, n, Meant
  <1> QED BY <1>1, ArgumentsInvariant, PTL

-----------------------------------------------------------------------------
(* While a request is on its way: the recorder knows the status that was sent. *)
RecorderInv ==
  /\ stage \in {"handler", "body", "panicking", "aborting", "aborted", "returned", "done"}
  /\ recorder.wrote \in BOOLEAN
  /\ stage = "handler" => ~recorder.wrote
  /\ stage \in {"body", "returned", "done"} => recorder.wrote
  /\ recorder.wrote => recorder.status = sent[2]
  /\ stage = "done" => logged = recorder.status

(* Whatever panics and wherever, the log line has the status the client saw. *)
THEOREM LogIsTruthful ==
  RepliesSpec => []LogTellsStatus
  <1>1. RepliesInit => RecorderInv
    BY DEF RepliesInit, RecorderInv
  <1>2. RecorderInv /\ [RepliesNext]_replies => RecorderInv'
    <2> SUFFICES ASSUME RecorderInv, [RepliesNext]_replies PROVE RecorderInv'
      OBVIOUS
    <2>1. CASE Pass
      BY <2>1 DEF RecorderInv, Pass
    <2>2. CASE Leave
      <3>1. ~recorder.wrote
        BY <2>2 DEF RecorderInv, Leave
      <3>2. recorder'.wrote = TRUE /\ recorder'.status = sent'[2] /\ stage' = "body"
        BY <2>2, <3>1 DEF Leave, WriteHeader
      <3> QED BY <3>2 DEF RecorderInv
    <2>3. CASE Return
      BY <2>3 DEF RecorderInv, Return
    <2>4. CASE Panic
      BY <2>4 DEF RecorderInv, Panic
    <2>5. CASE Recover
      <3>1. CASE recorder.wrote
        BY <2>5, <3>1 DEF RecorderInv, Recover, WriteHeader
      <3>2. CASE ~recorder.wrote
        <4>1. recorder'.wrote = TRUE /\ recorder'.status = 500 /\ sent'[2] = 500
          BY <2>5, <3>2 DEF Recover, WriteHeader
        <4>2. stage' = "returned"
          BY <2>5 DEF Recover
        <4>3. recorder'.wrote \in BOOLEAN /\ recorder'.status = sent'[2]
          BY <4>1, Zenon
        <4> QED BY <4>1, <4>2, <4>3 DEF RecorderInv
      <3> QED BY <3>1, <3>2
    <2>6. CASE Log
      BY <2>6 DEF RecorderInv, Log
    <2>7. CASE Repanic
      BY <2>7 DEF RecorderInv, Repanic
    <2>8. CASE UNCHANGED replies
      BY <2>8 DEF RecorderInv, replies
    <2> QED BY <2>1, <2>2, <2>3, <2>4, <2>5, <2>6, <2>7, <2>8 DEF RepliesNext
  <1>3. RecorderInv => LogTellsStatus
    BY DEF RecorderInv, LogTellsStatus
  <1> QED BY <1>1, <1>2, <1>3, PTL DEF RepliesSpec

-----------------------------------------------------------------------------
(* The ways out of the handlers against the contract, group by group: two tables that were
   written in different places and in a different order. *)

(* A status the contract declares for an operation, or the server's own failure. *)
Fits(exit, statuses) == exit[2] \in statuses \union {500}

(* What an operation is known to send: the undeclared 400 is added to what is declared. *)
Known(op, statuses) ==
  IF op \in UndeclaredBadRequests THEN statuses \union {400} ELSE statuses

(* s is a sequence of n. *)
HasLen(s, n) == n \in Nat /\ s = [i \in 1..n |-> s[i]]

AllFit(exits, statuses) ==
  \E n : HasLen(exits, n) /\ \A i \in 1..n : Fits(exits[i], statuses)

(* It is so of every exit of the handlers, and each has one. *)
Within(handlers, declared) ==
  \A op \in DOMAIN handlers \intersect DOMAIN declared :
    handlers[op] # <<>> /\ AllFit(handlers[op], Known(op, declared[op]))

LEMMA AllFitWhen ==
  ASSUME NEW s, NEW n, HasLen(s, n),
         NEW statuses, \A i \in 1..n : s[i][2] \in statuses \union {500}
  PROVE  AllFit(s, statuses)
  BY DEF AllFit, Fits

LEMMA LenIs ==
  ASSUME NEW s, NEW n, HasLen(s, n)
  PROVE  Len(s) = n
  <1> DEFINE f == [i \in 1..n |-> s[i]]
  <1>1. Len(f) = n
    BY DEF HasLen
  <1>2. f = s
    BY DEF HasLen
  <1> HIDE DEF f
  <1> QED BY <1>1, <1>2

Joins(u, s, m, t, n) ==
  /\ \A i \in 1..m : u[i] = s[i]
  /\ \A i \in 1..n : u[m + i] = t[i]

LEMMA JoinedHasLen ==
  ASSUME NEW s, NEW m, HasLen(s, m), NEW t, NEW n, HasLen(t, n)
  PROVE  /\ Len(s) = m
         /\ HasLen(s \o t, m + n)
         /\ Joins(s \o t, s, m, t, n)
  <1> DEFINE S == {s[i] : i \in 1..m} \union {t[i] : i \in 1..n}
  <1>1. m \in Nat /\ n \in Nat
    BY DEF HasLen
  <1>2. s \in Seq(S) /\ Len(s) = m
    <2> DEFINE f == [i \in 1..m |-> s[i]]
    <2>1. f \in Seq(S) /\ Len(f) = m
      BY <1>1
    <2>2. f = s
      BY DEF HasLen
    <2> HIDE DEF f, S
    <2> QED BY <2>1, <2>2
  <1>3. t \in Seq(S) /\ Len(t) = n
    <2> DEFINE f == [i \in 1..n |-> t[i]]
    <2>1. f \in Seq(S) /\ Len(f) = n
      BY <1>1
    <2>2. f = t
      BY DEF HasLen
    <2> HIDE DEF f, S
    <2> QED BY <2>1, <2>2
  <1> HIDE DEF S
  <1>4. s \o t \in Seq(S) /\ Len(s \o t) = m + n
    BY <1>1, <1>2, <1>3
  <1>5. Joins(s \o t, s, m, t, n)
    BY <1>1, <1>2, <1>3 DEF Joins
  <1>6. s \o t = [i \in 1..(m + n) |-> (s \o t)[i]]
    <2> DEFINE u == s \o t
    <2>1. u \in Seq(S) /\ Len(u) = m + n
      BY <1>4
    <2> HIDE DEF u
    <2>2. u = [i \in 1..(m + n) |-> u[i]]
      BY <2>1
    <2> QED BY <2>2 DEF u
  <1>7. HasLen(s \o t, m + n)
    BY <1>1, <1>6 DEF HasLen
  <1> QED BY <1>2, <1>5, <1>7

LEMMA JoinedFit ==
  ASSUME NEW s, NEW t, NEW statuses, AllFit(s, statuses), AllFit(t, statuses)
  PROVE  AllFit(s \o t, statuses)
  <1>1. PICK m : HasLen(s, m) /\ \A i \in 1..m : Fits(s[i], statuses)
    BY DEF AllFit
  <1>2. PICK n : HasLen(t, n) /\ \A i \in 1..n : Fits(t[i], statuses)
    BY DEF AllFit
  <1>3. HasLen(s \o t, m + n) /\ Joins(s \o t, s, m, t, n)
    BY <1>1, <1>2, JoinedHasLen
  <1> DEFINE u == s \o t
  <1> HIDE DEF u
  <1>4. ASSUME NEW i \in 1..(m + n) PROVE Fits(u[i], statuses)
    <2>1. m \in Nat /\ n \in Nat
      BY <1>1, <1>2 DEF HasLen
    <2>2. CASE i <= m
      <3>1. i \in 1..m
        BY <2>1, <2>2, <1>4
      <3> QED BY <3>1, <1>1, <1>3 DEF u, Joins
    <2>3. CASE ~ i <= m
      <3>1. i - m \in 1..n
        BY <2>1, <2>3, <1>4
      <3>2. u[m + (i - m)] = t[i - m]
        BY <3>1, <1>3 DEF u, Joins
      <3>3. m + (i - m) = i
        BY <2>1, <1>4
      <3> QED BY <3>1, <3>2, <3>3, <1>2
    <2> QED BY <2>2, <2>3
  <1> QED BY <1>3, <1>4 DEF AllFit, u

(* A merged function is, at each argument, one of those it is merged from. *)
LEMMA MergedIs ==
  ASSUME NEW fs
  PROVE  /\ DOMAIN Merged(fs) = UNION {DOMAIN f : f \in fs}
         /\ \A x \in DOMAIN Merged(fs) :
              \E f \in fs : x \in DOMAIN f /\ Merged(fs)[x] = f[x]
  BY DEF Merged

LEMMA MergedWithin ==
  ASSUME NEW fs, NEW ds, \A f \in fs, d \in ds : Within(f, d)
  PROVE  Within(Merged(fs), Merged(ds))
  <1> SUFFICES ASSUME NEW op \in DOMAIN Merged(fs) \intersect DOMAIN Merged(ds)
               PROVE  /\ Merged(fs)[op] # <<>>
                      /\ AllFit(Merged(fs)[op], Known(op, Merged(ds)[op]))
    BY DEF Within
  <1>1. PICK f \in fs : op \in DOMAIN f /\ Merged(fs)[op] = f[op]
    BY MergedIs
  <1>2. PICK d \in ds : op \in DOMAIN d /\ Merged(ds)[op] = d[op]
    BY MergedIs
  <1> QED BY <1>1, <1>2 DEF Within

-----------------------------------------------------------------------------
HandlerGroups ==
  {SystemExits, MeExits, MySessionExits, AccountSessionExits,
   AccountExits, OneAccountExits, AdminExits, CatalogExits, GameExits, MemberExits,
   SeatExits, NotFoundExits}

DeclaredGroups ==
  {DeclaredAccounts1, DeclaredAccounts2, DeclaredAccountSessions,
   DeclaredAdmin, DeclaredShutdownAndAuth, DeclaredCatalog, DeclaredGame, DeclaredRoster,
   DeclaredSeat, DeclaredMe, DeclaredMine, DeclaredVersion}

LEMMA HandlerDomains ==
  /\ DOMAIN SystemExits = {"getHealth", "getVersion", "login", "logout"}
  /\ DOMAIN MeExits = {"getMe", "updateMe", "updateMyEmail", "updateMySecret"}
  /\ DOMAIN MySessionExits = {"listMySessions", "revokeMySession"}
  /\ DOMAIN AccountSessionExits = {"listAccountSessions", "revokeAccountSessions",
         "revokeAccountSession", "purgeSessions"}
  /\ DOMAIN AccountExits = {"listAccounts", "createAccount"}
  /\ DOMAIN OneAccountExits = {"getAccount", "updateAccount"}
  /\ DOMAIN AdminExits = {"shutdownServer", "createImpersonation"}
  /\ DOMAIN CatalogExits = {"listGames", "createGame", "getGame"}
  /\ DOMAIN GameExits = {"updateGame", "listMyGames"}
  /\ DOMAIN MemberExits = {"listGameMembers", "addGameMember"}
  /\ DOMAIN SeatExits = {"updateGameMember"}
  /\ DOMAIN NotFoundExits = {"unrouted"}
  BY DEF SystemExits, MeExits, MySessionExits, AccountSessionExits, AccountExits,
         OneAccountExits, AdminExits, CatalogExits, GameExits, MemberExits, SeatExits,
         NotFoundExits

LEMMA DeclaredDomains ==
  /\ DOMAIN DeclaredAccounts1 = {"listAccounts", "createAccount"}
  /\ DOMAIN DeclaredAccounts2 = {"getAccount", "updateAccount"}
  /\ DOMAIN DeclaredAccountSessions = {"revokeAccountSessions", "listAccountSessions",
         "revokeAccountSession"}
  /\ DOMAIN DeclaredAdmin = {"createImpersonation", "purgeSessions"}
  /\ DOMAIN DeclaredShutdownAndAuth = {"shutdownServer", "login", "logout"}
  /\ DOMAIN DeclaredCatalog = {"listGames", "createGame"}
  /\ DOMAIN DeclaredGame = {"getGame", "updateGame"}
  /\ DOMAIN DeclaredRoster = {"listGameMembers", "addGameMember"}
  /\ DOMAIN DeclaredSeat = {"updateGameMember", "getHealth"}
  /\ DOMAIN DeclaredMe = {"getMe", "updateMe", "updateMyEmail"}
  /\ DOMAIN DeclaredMine = {"listMyGames", "updateMySecret", "listMySessions",
         "revokeMySession"}
  /\ DOMAIN DeclaredVersion = {"getVersion"}
  BY DEF DeclaredAccounts1, DeclaredAccounts2, DeclaredAccountSessions, DeclaredAdmin,
         DeclaredShutdownAndAuth, DeclaredCatalog, DeclaredGame, DeclaredRoster,
         DeclaredSeat, DeclaredMe, DeclaredMine, DeclaredVersion

LEMMA SystemExitsFit ==
  \A d \in DeclaredGroups : Within(SystemExits, d)
  <1>1. /\ SystemExits["getHealth"] # <<>>
        /\ AllFit(SystemExits["getHealth"],
                  Known("getHealth", DeclaredSeat["getHealth"]))
    <2> DEFINE s == SystemExits["getHealth"]
               n == 1
               D == {200}
    <2>1. HasLen(s, n) /\ s # <<>>
      BY DEF SystemExits, HasLen
    <2>2. s[1][2] = 200
      BY DEF SystemExits
    <2>3. Known("getHealth", DeclaredSeat["getHealth"]) = D
      BY DEF DeclaredSeat, Known, UndeclaredBadRequests
    <2> HIDE DEF s
    <2>4. \A i \in 1..n : s[i][2] \in D \union {500}
      BY <2>2
    <2> HIDE DEF n, D
    <2>5. AllFit(s, D)
      BY <2>1, <2>4, AllFitWhen
    <2> QED BY <2>1, <2>3, <2>5 DEF s
  <1>2. /\ SystemExits["getVersion"] # <<>>
        /\ AllFit(SystemExits["getVersion"],
                  Known("getVersion", DeclaredVersion["getVersion"]))
    <2> DEFINE s == SystemExits["getVersion"]
               n == 2
               D == {200}
    <2>1. HasLen(s, n) /\ s # <<>>
      BY DEF SystemExits, HasLen
    <2>2. s[1][2] = 500 /\ s[2][2] = 200
      BY DEF SystemExits
    <2>3. Known("getVersion", DeclaredVersion["getVersion"]) = D
      BY DEF DeclaredVersion, Known, UndeclaredBadRequests
    <2> HIDE DEF s
    <2>4. \A i \in 1..n : s[i][2] \in D \union {500}
      BY <2>2
    <2> HIDE DEF n, D
    <2>5. AllFit(s, D)
      BY <2>1, <2>4, AllFitWhen
    <2> QED BY <2>1, <2>3, <2>5 DEF s
  <1>3. /\ SystemExits["login"] # <<>>
        /\ AllFit(SystemExits["login"],
                  Known("login", DeclaredShutdownAndAuth["login"]))
    <2> DEFINE s == SystemExits["login"]
               n == 6
               D == {200, 400, 401}
    <2>1. HasLen(s, n) /\ s # <<>>
      BY DEF SystemExits, HasLen
    <2>2. s[1][2] = 400 /\ s[2][2] = 401 /\ s[3][2] = 500 /\ s[4][2] = 401 /\
          s[5][2] = 500 /\ s[6][2] = 200
      BY DEF SystemExits
    <2>3. Known("login", DeclaredShutdownAndAuth["login"]) = D
      BY DEF DeclaredShutdownAndAuth, Known, UndeclaredBadRequests
    <2> HIDE DEF s
    <2>4. \A i \in 1..n : s[i][2] \in D \union {500}
      BY <2>2
    <2> HIDE DEF n, D
    <2>5. AllFit(s, D)
      BY <2>1, <2>4, AllFitWhen
    <2> QED BY <2>1, <2>3, <2>5 DEF s
  <1>4. /\ SystemExits["logout"] # <<>>
        /\ AllFit(SystemExits["logout"],
                  Known("logout", DeclaredShutdownAndAuth["logout"]))
    <2> DEFINE s == SystemExits["logout"]
               n == 3
               D == {204, 400, 401}
    <2>1. HasLen(s, n) /\ s # <<>>
      BY DEF SystemExits, HasLen
    <2>2. s[1][2] = 400 /\ s[2][2] = 500 /\ s[3][2] = 204
      BY DEF SystemExits
    <2>3. Known("logout", DeclaredShutdownAndAuth["logout"]) = D
      BY DEF DeclaredShutdownAndAuth, Known, UndeclaredBadRequests
    <2> HIDE DEF s
    <2>4. \A i \in 1..n : s[i][2] \in D \union {500}
      BY <2>2
    <2> HIDE DEF n, D
    <2>5. AllFit(s, D)
      BY <2>1, <2>4, AllFitWhen
    <2> QED BY <2>1, <2>3, <2>5 DEF s
  <1> QED BY <1>1, <1>2, <1>3, <1>4, HandlerDomains, DeclaredDomains
         DEF DeclaredGroups, Within

LEMMA MeExitsFit ==
  \A d \in DeclaredGroups : Within(MeExits, d)
  <1>1. /\ MeExits["getMe"] # <<>>
        /\ AllFit(MeExits["getMe"],
                  Known("getMe", DeclaredMe["getMe"]))
    <2> DEFINE s == MeExits["getMe"]
               n == 1
               D == {200, 401}
    <2>1. HasLen(s, n) /\ s # <<>>
      BY DEF MeExits, HasLen
    <2>2. s[1][2] = 200
      BY DEF MeExits
    <2>3. Known("getMe", DeclaredMe["getMe"]) = D
      BY DEF DeclaredMe, Known, UndeclaredBadRequests
    <2> HIDE DEF s
    <2>4. \A i \in 1..n : s[i][2] \in D \union {500}
      BY <2>2
    <2> HIDE DEF n, D
    <2>5. AllFit(s, D)
      BY <2>1, <2>4, AllFitWhen
    <2> QED BY <2>1, <2>3, <2>5 DEF s
  <1>2. /\ MeExits["updateMe"] # <<>>
        /\ AllFit(MeExits["updateMe"],
                  Known("updateMe", DeclaredMe["updateMe"]))
    <2> DEFINE s == MeExits["updateMe"]
               n == 3
               D == {200, 400, 401}
    <2>1. HasLen(s, n) /\ s # <<>>
      BY DEF MeExits, HasLen
    <2>2. s[1][2] = 400 /\ s[2][2] = 500 /\ s[3][2] = 200
      BY DEF MeExits
    <2>3. Known("updateMe", DeclaredMe["updateMe"]) = D
      BY DEF DeclaredMe, Known, UndeclaredBadRequests
    <2> HIDE DEF s
    <2>4. \A i \in 1..n : s[i][2] \in D \union {500}
      BY <2>2
    <2> HIDE DEF n, D
    <2>5. AllFit(s, D)
      BY <2>1, <2>4, AllFitWhen
    <2> QED BY <2>1, <2>3, <2>5 DEF s
  <1>3. /\ MeExits["updateMyEmail"] # <<>>
        /\ AllFit(MeExits["updateMyEmail"],
                  Known("updateMyEmail", DeclaredMe["updateMyEmail"]))
    <2> DEFINE s == MeExits["updateMyEmail"]
               n == 6
               D == {200, 400, 401, 409}
    <2>1. HasLen(s, n) /\ s # <<>>
      BY DEF MeExits, HasLen
    <2>2. s[1][2] = 400 /\ s[2][2] = 401 /\ s[3][2] = 400 /\ s[4][2] = 409 /\
          s[5][2] = 500 /\ s[6][2] = 200
      BY DEF MeExits
    <2>3. Known("updateMyEmail", DeclaredMe["updateMyEmail"]) = D
      BY DEF DeclaredMe, Known, UndeclaredBadRequests
    <2> HIDE DEF s
    <2>4. \A i \in 1..n : s[i][2] \in D \union {500}
      BY <2>2
    <2> HIDE DEF n, D
    <2>5. AllFit(s, D)
      BY <2>1, <2>4, AllFitWhen
    <2> QED BY <2>1, <2>3, <2>5 DEF s
  <1>4. /\ MeExits["updateMySecret"] # <<>>
        /\ AllFit(MeExits["updateMySecret"],
                  Known("updateMySecret", DeclaredMine["updateMySecret"]))
    <2> DEFINE s == MeExits["updateMySecret"]
               n == 5
               D == {204, 400, 401}
    <2>1. HasLen(s, n) /\ s # <<>>
      BY DEF MeExits, HasLen
    <2>2. s[1][2] = 400 /\ s[2][2] = 401 /\ s[3][2] = 400 /\ s[4][2] = 500 /\ s[5][2] = 204
      BY DEF MeExits
    <2>3. Known("updateMySecret", DeclaredMine["updateMySecret"]) = D
      BY DEF DeclaredMine, Known, UndeclaredBadRequests
    <2> HIDE DEF s
    <2>4. \A i \in 1..n : s[i][2] \in D \union {500}
      BY <2>2
    <2> HIDE DEF n, D
    <2>5. AllFit(s, D)
      BY <2>1, <2>4, AllFitWhen
    <2> QED BY <2>1, <2>3, <2>5 DEF s
  <1> QED BY <1>1, <1>2, <1>3, <1>4, HandlerDomains, DeclaredDomains
         DEF DeclaredGroups, Within

LEMMA MySessionExitsFit ==
  \A d \in DeclaredGroups : Within(MySessionExits, d)
  <1>1. /\ MySessionExits["listMySessions"] # <<>>
        /\ AllFit(MySessionExits["listMySessions"],
                  Known("listMySessions", DeclaredMine["listMySessions"]))
    <2> DEFINE s == MySessionExits["listMySessions"]
               n == 2
               D == {200, 401}
    <2>1. HasLen(s, n) /\ s # <<>>
      BY DEF MySessionExits, HasLen
    <2>2. s[1][2] = 500 /\ s[2][2] = 200
      BY DEF MySessionExits
    <2>3. Known("listMySessions", DeclaredMine["listMySessions"]) = D
      BY DEF DeclaredMine, Known, UndeclaredBadRequests
    <2> HIDE DEF s
    <2>4. \A i \in 1..n : s[i][2] \in D \union {500}
      BY <2>2
    <2> HIDE DEF n, D
    <2>5. AllFit(s, D)
      BY <2>1, <2>4, AllFitWhen
    <2> QED BY <2>1, <2>3, <2>5 DEF s
  <1>2. /\ MySessionExits["revokeMySession"] # <<>>
        /\ AllFit(MySessionExits["revokeMySession"],
                  Known("revokeMySession", DeclaredMine["revokeMySession"]))
    <2> DEFINE s == MySessionExits["revokeMySession"]
               n == 6
               D == {204, 401, 404}
    <2>1. HasLen(s, n) /\ s # <<>>
      BY DEF MySessionExits, HasLen
    <2>2. s[1][2] = 404 /\ s[2][2] = 500 /\ s[3][2] = 404 /\ s[4][2] = 404 /\
          s[5][2] = 500 /\ s[6][2] = 204
      BY DEF MySessionExits
    <2>3. Known("revokeMySession", DeclaredMine["revokeMySession"]) = D
      BY DEF DeclaredMine, Known, UndeclaredBadRequests
    <2> HIDE DEF s
    <2>4. \A i \in 1..n : s[i][2] \in D \union {500}
      BY <2>2
    <2> HIDE DEF n, D
    <2>5. AllFit(s, D)
      BY <2>1, <2>4, AllFitWhen
    <2> QED BY <2>1, <2>3, <2>5 DEF s
  <1> QED BY <1>1, <1>2, HandlerDomains, DeclaredDomains DEF DeclaredGroups, Within

LEMMA AccountSessionExitsFit ==
  \A d \in DeclaredGroups : Within(AccountSessionExits, d)
  <1>1. /\ AccountSessionExits["listAccountSessions"] # <<>>
        /\ AllFit(AccountSessionExits["listAccountSessions"],
                  Known("listAccountSessions", DeclaredAccountSessions["listAccountSessions"]))
    <2> DEFINE s == AccountSessionExits["listAccountSessions"]
               n == 4
               D == {200, 400, 401, 403, 404}
    <2>1. HasLen(s, n) /\ s # <<>>
      BY DEF AccountSessionExits, HasLen
    <2>2. s[1][2] = 400 /\ s[2][2] = 404 /\ s[3][2] = 500 /\ s[4][2] = 200
      BY DEF AccountSessionExits
    <2>3. Known("listAccountSessions", DeclaredAccountSessions["listAccountSessions"]) = D
      BY DEF DeclaredAccountSessions, Known, UndeclaredBadRequests
    <2> HIDE DEF s
    <2>4. \A i \in 1..n : s[i][2] \in D \union {500}
      BY <2>2
    <2> HIDE DEF n, D
    <2>5. AllFit(s, D)
      BY <2>1, <2>4, AllFitWhen
    <2> QED BY <2>1, <2>3, <2>5 DEF s
  <1>2. /\ AccountSessionExits["revokeAccountSessions"] # <<>>
        /\ AllFit(AccountSessionExits["revokeAccountSessions"],
                  Known("revokeAccountSessions", DeclaredAccountSessions["revokeAccountSessions"]))
    <2> DEFINE s == AccountSessionExits["revokeAccountSessions"]
               n == 4
               D == {204, 400, 401, 403, 404}
    <2>1. HasLen(s, n) /\ s # <<>>
      BY DEF AccountSessionExits, HasLen
    <2>2. s[1][2] = 400 /\ s[2][2] = 404 /\ s[3][2] = 500 /\ s[4][2] = 204
      BY DEF AccountSessionExits
    <2>3. Known("revokeAccountSessions", DeclaredAccountSessions["revokeAccountSessions"]) = D
      BY DEF DeclaredAccountSessions, Known, UndeclaredBadRequests
    <2> HIDE DEF s
    <2>4. \A i \in 1..n : s[i][2] \in D \union {500}
      BY <2>2
    <2> HIDE DEF n, D
    <2>5. AllFit(s, D)
      BY <2>1, <2>4, AllFitWhen
    <2> QED BY <2>1, <2>3, <2>5 DEF s
  <1>3. /\ AccountSessionExits["revokeAccountSession"] # <<>>
        /\ AllFit(AccountSessionExits["revokeAccountSession"],
                  Known("revokeAccountSession", DeclaredAccountSessions["revokeAccountSession"]))
    <2> DEFINE s == AccountSessionExits["revokeAccountSession"]
               n == 7
               D == {204, 400, 401, 403, 404}
    <2>1. HasLen(s, n) /\ s # <<>>
      BY DEF AccountSessionExits, HasLen
    <2>2. s[1][2] = 400 /\ s[2][2] = 404 /\ s[3][2] = 500 /\ s[4][2] = 404 /\
          s[5][2] = 404 /\ s[6][2] = 500 /\ s[7][2] = 204
      BY DEF AccountSessionExits
    <2>3. Known("revokeAccountSession", DeclaredAccountSessions["revokeAccountSession"]) = D
      BY DEF DeclaredAccountSessions, Known, UndeclaredBadRequests
    <2> HIDE DEF s
    <2>4. \A i \in 1..n : s[i][2] \in D \union {500}
      BY <2>2
    <2> HIDE DEF n, D
    <2>5. AllFit(s, D)
      BY <2>1, <2>4, AllFitWhen
    <2> QED BY <2>1, <2>3, <2>5 DEF s
  <1>4. /\ AccountSessionExits["purgeSessions"] # <<>>
        /\ AllFit(AccountSessionExits["purgeSessions"],
                  Known("purgeSessions", DeclaredAdmin["purgeSessions"]))
    <2> DEFINE s == AccountSessionExits["purgeSessions"]
               n == 2
               D == {200, 401, 403}
    <2>1. HasLen(s, n) /\ s # <<>>
      BY DEF AccountSessionExits, HasLen
    <2>2. s[1][2] = 500 /\ s[2][2] = 200
      BY DEF AccountSessionExits
    <2>3. Known("purgeSessions", DeclaredAdmin["purgeSessions"]) = D
      BY DEF DeclaredAdmin, Known, UndeclaredBadRequests
    <2> HIDE DEF s
    <2>4. \A i \in 1..n : s[i][2] \in D \union {500}
      BY <2>2
    <2> HIDE DEF n, D
    <2>5. AllFit(s, D)
      BY <2>1, <2>4, AllFitWhen
    <2> QED BY <2>1, <2>3, <2>5 DEF s
  <1> QED BY <1>1, <1>2, <1>3, <1>4, HandlerDomains, DeclaredDomains
         DEF DeclaredGroups, Within

LEMMA AccountExitsFit ==
  \A d \in DeclaredGroups : Within(AccountExits, d)
  <1>1. /\ AccountExits["listAccounts"] # <<>>
        /\ AllFit(AccountExits["listAccounts"],
                  Known("listAccounts", DeclaredAccounts1["listAccounts"]))
    <2> DEFINE s == AccountExits["listAccounts"]
               n == 2
               D == {200, 401, 403}
    <2>1. HasLen(s, n) /\ s # <<>>
      BY DEF AccountExits, HasLen
    <2>2. s[1][2] = 500 /\ s[2][2] = 200
      BY DEF AccountExits
    <2>3. Known("listAccounts", DeclaredAccounts1["listAccounts"]) = D
      BY DEF DeclaredAccounts1, Known, UndeclaredBadRequests
    <2> HIDE DEF s
    <2>4. \A i \in 1..n : s[i][2] \in D \union {500}
      BY <2>2
    <2> HIDE DEF n, D
    <2>5. AllFit(s, D)
      BY <2>1, <2>4, AllFitWhen
    <2> QED BY <2>1, <2>3, <2>5 DEF s
  <1>2. /\ AccountExits["createAccount"] # <<>>
        /\ AllFit(AccountExits["createAccount"],
                  Known("createAccount", DeclaredAccounts1["createAccount"]))
    <2> DEFINE s == AccountExits["createAccount"]
               n == 6
               D == {201, 400, 401, 403, 409}
    <2>1. HasLen(s, n) /\ s # <<>>
      BY DEF AccountExits, HasLen
    <2>2. s[1][2] = 400 /\ s[2][2] = 400 /\ s[3][2] = 500 /\ s[4][2] = 409 /\
          s[5][2] = 500 /\ s[6][2] = 201
      BY DEF AccountExits
    <2>3. Known("createAccount", DeclaredAccounts1["createAccount"]) = D
      BY DEF DeclaredAccounts1, Known, UndeclaredBadRequests
    <2> HIDE DEF s
    <2>4. \A i \in 1..n : s[i][2] \in D \union {500}
      BY <2>2
    <2> HIDE DEF n, D
    <2>5. AllFit(s, D)
      BY <2>1, <2>4, AllFitWhen
    <2> QED BY <2>1, <2>3, <2>5 DEF s
  <1> QED BY <1>1, <1>2, HandlerDomains, DeclaredDomains DEF DeclaredGroups, Within

LEMMA OneAccountExitsFit ==
  \A d \in DeclaredGroups : Within(OneAccountExits, d)
  <1>1. /\ OneAccountExits["getAccount"] # <<>>
        /\ AllFit(OneAccountExits["getAccount"],
                  Known("getAccount", DeclaredAccounts2["getAccount"]))
    <2> DEFINE s == OneAccountExits["getAccount"]
               n == 4
               D == {200, 400, 401, 403, 404}
    <2>1. HasLen(s, n) /\ s # <<>>
      BY DEF OneAccountExits, HasLen
    <2>2. s[1][2] = 400 /\ s[2][2] = 404 /\ s[3][2] = 500 /\ s[4][2] = 200
      BY DEF OneAccountExits
    <2>3. Known("getAccount", DeclaredAccounts2["getAccount"]) = D
      BY DEF DeclaredAccounts2, Known, UndeclaredBadRequests
    <2> HIDE DEF s
    <2>4. \A i \in 1..n : s[i][2] \in D \union {500}
      BY <2>2
    <2> HIDE DEF n, D
    <2>5. AllFit(s, D)
      BY <2>1, <2>4, AllFitWhen
    <2> QED BY <2>1, <2>3, <2>5 DEF s
  <1>2. /\ OneAccountExits["updateAccount"] # <<>>
        /\ AllFit(OneAccountExits["updateAccount"],
                  Known("updateAccount", DeclaredAccounts2["updateAccount"]))
    <2> DEFINE s == OneAccountExits["updateAccount"]
               n == 11
               D == {200, 400, 401, 403, 404, 409}
    <2>1. HasLen(s, n) /\ s # <<>>
      BY DEF OneAccountExits, HasLen
    <2>2. s[1][2] = 400 /\ s[2][2] = 400 /\ s[3][2] = 400 /\ s[4][2] = 404 /\
          s[5][2] = 500 /\ s[6][2] = 400 /\ s[7][2] = 500 /\ s[8][2] = 409 /\
          s[9][2] = 404 /\ s[10][2] = 500 /\ s[11][2] = 200
      BY DEF OneAccountExits
    <2>3. Known("updateAccount", DeclaredAccounts2["updateAccount"]) = D
      BY DEF DeclaredAccounts2, Known, UndeclaredBadRequests
    <2> HIDE DEF s
    <2>4. \A i \in 1..n : s[i][2] \in D \union {500}
      BY <2>2
    <2> HIDE DEF n, D
    <2>5. AllFit(s, D)
      BY <2>1, <2>4, AllFitWhen
    <2> QED BY <2>1, <2>3, <2>5 DEF s
  <1> QED BY <1>1, <1>2, HandlerDomains, DeclaredDomains DEF DeclaredGroups, Within

LEMMA AdminExitsFit ==
  \A d \in DeclaredGroups : Within(AdminExits, d)
  <1>1. /\ AdminExits["shutdownServer"] # <<>>
        /\ AllFit(AdminExits["shutdownServer"],
                  Known("shutdownServer", DeclaredShutdownAndAuth["shutdownServer"]))
    <2> DEFINE s == AdminExits["shutdownServer"]
               n == 2
               D == {202, 401, 403, 404}
    <2>1. HasLen(s, n) /\ s # <<>>
      BY DEF AdminExits, HasLen
    <2>2. s[1][2] = 404 /\ s[2][2] = 202
      BY DEF AdminExits
    <2>3. Known("shutdownServer", DeclaredShutdownAndAuth["shutdownServer"]) = D
      BY DEF DeclaredShutdownAndAuth, Known, UndeclaredBadRequests
    <2> HIDE DEF s
    <2>4. \A i \in 1..n : s[i][2] \in D \union {500}
      BY <2>2
    <2> HIDE DEF n, D
    <2>5. AllFit(s, D)
      BY <2>1, <2>4, AllFitWhen
    <2> QED BY <2>1, <2>3, <2>5 DEF s
  <1>2. /\ AdminExits["createImpersonation"] # <<>>
        /\ AllFit(AdminExits["createImpersonation"],
                  Known("createImpersonation", DeclaredAdmin["createImpersonation"]))
    <2> DEFINE s == AdminExits["createImpersonation"]
               n == 7
               D == {200, 400, 401, 403, 404, 409}
    <2>1. HasLen(s, n) /\ s # <<>>
      BY DEF AdminExits, HasLen
    <2>2. s[1][2] = 400 /\ s[2][2] = 400 /\ s[3][2] = 404 /\ s[4][2] = 500 /\
          s[5][2] = 409 /\ s[6][2] = 500 /\ s[7][2] = 200
      BY DEF AdminExits
    <2>3. Known("createImpersonation", DeclaredAdmin["createImpersonation"]) = D
      BY DEF DeclaredAdmin, Known, UndeclaredBadRequests
    <2> HIDE DEF s
    <2>4. \A i \in 1..n : s[i][2] \in D \union {500}
      BY <2>2
    <2> HIDE DEF n, D
    <2>5. AllFit(s, D)
      BY <2>1, <2>4, AllFitWhen
    <2> QED BY <2>1, <2>3, <2>5 DEF s
  <1> QED BY <1>1, <1>2, HandlerDomains, DeclaredDomains DEF DeclaredGroups, Within

LEMMA CatalogExitsFit ==
  \A d \in DeclaredGroups : Within(CatalogExits, d)
  <1>1. /\ CatalogExits["listGames"] # <<>>
        /\ AllFit(CatalogExits["listGames"],
                  Known("listGames", DeclaredCatalog["listGames"]))
    <2> DEFINE s == CatalogExits["listGames"]
               n == 3
               D == {200, 400, 401}
    <2>1. HasLen(s, n) /\ s # <<>>
      BY DEF CatalogExits, HasLen
    <2>2. s[1][2] = 400 /\ s[2][2] = 500 /\ s[3][2] = 200
      BY DEF CatalogExits
    <2>3. Known("listGames", DeclaredCatalog["listGames"]) = D
      BY DEF DeclaredCatalog, Known, UndeclaredBadRequests
    <2> HIDE DEF s
    <2>4. \A i \in 1..n : s[i][2] \in D \union {500}
      BY <2>2
    <2> HIDE DEF n, D
    <2>5. AllFit(s, D)
      BY <2>1, <2>4, AllFitWhen
    <2> QED BY <2>1, <2>3, <2>5 DEF s
  <1>2. /\ CatalogExits["createGame"] # <<>>
        /\ AllFit(CatalogExits["createGame"],
                  Known("createGame", DeclaredCatalog["createGame"]))
    <2> DEFINE s == CatalogExits["createGame"]
               n == 5
               D == {201, 400, 401, 403, 409}
    <2>1. HasLen(s, n) /\ s # <<>>
      BY DEF CatalogExits, HasLen
    <2>2. s[1][2] = 400 /\ s[2][2] = 400 /\ s[3][2] = 409 /\ s[4][2] = 500 /\ s[5][2] = 201
      BY DEF CatalogExits
    <2>3. Known("createGame", DeclaredCatalog["createGame"]) = D
      BY DEF DeclaredCatalog, Known, UndeclaredBadRequests
    <2> HIDE DEF s
    <2>4. \A i \in 1..n : s[i][2] \in D \union {500}
      BY <2>2
    <2> HIDE DEF n, D
    <2>5. AllFit(s, D)
      BY <2>1, <2>4, AllFitWhen
    <2> QED BY <2>1, <2>3, <2>5 DEF s
  <1>3. /\ CatalogExits["getGame"] # <<>>
        /\ AllFit(CatalogExits["getGame"],
                  Known("getGame", DeclaredGame["getGame"]))
    <2> DEFINE s == CatalogExits["getGame"]
               n == 5
               D == {200, 400, 401, 403, 404}
    <2>1. HasLen(s, n) /\ s # <<>>
      BY DEF CatalogExits, HasLen
    <2>2. s[1][2] = 400 /\ s[2][2] = 404 /\ s[3][2] = 500 /\ s[4][2] = 403 /\ s[5][2] = 200
      BY DEF CatalogExits
    <2>3. Known("getGame", DeclaredGame["getGame"]) = D
      BY DEF DeclaredGame, Known, UndeclaredBadRequests
    <2> HIDE DEF s
    <2>4. \A i \in 1..n : s[i][2] \in D \union {500}
      BY <2>2
    <2> HIDE DEF n, D
    <2>5. AllFit(s, D)
      BY <2>1, <2>4, AllFitWhen
    <2> QED BY <2>1, <2>3, <2>5 DEF s
  <1> QED BY <1>1, <1>2, <1>3, HandlerDomains, DeclaredDomains DEF DeclaredGroups, Within

LEMMA GameExitsFit ==
  \A d \in DeclaredGroups : Within(GameExits, d)
  <1>1. /\ GameExits["updateGame"] # <<>>
        /\ AllFit(GameExits["updateGame"],
                  Known("updateGame", DeclaredGame["updateGame"]))
    <2> DEFINE s == GameExits["updateGame"]
               n == 14
               D == {200, 400, 401, 403, 404, 409}
    <2>1. HasLen(s, n) /\ s # <<>>
      BY DEF GameExits, HasLen
    <2>2. s[1][2] = 400 /\ s[2][2] = 400 /\ s[3][2] = 400 /\ s[4][2] = 404 /\
          s[5][2] = 500 /\ s[6][2] = 403 /\ s[7][2] = 403 /\ s[8][2] = 409 /\
          s[9][2] = 403 /\ s[10][2] = 409 /\ s[11][2] = 409 /\ s[12][2] = 404 /\
          s[13][2] = 500 /\ s[14][2] = 200
      BY DEF GameExits
    <2>3. Known("updateGame", DeclaredGame["updateGame"]) = D
      BY DEF DeclaredGame, Known, UndeclaredBadRequests
    <2> HIDE DEF s
    <2>4. \A i \in 1..n : s[i][2] \in D \union {500}
      BY <2>2
    <2> HIDE DEF n, D
    <2>5. AllFit(s, D)
      BY <2>1, <2>4, AllFitWhen
    <2> QED BY <2>1, <2>3, <2>5 DEF s
  <1>2. /\ GameExits["listMyGames"] # <<>>
        /\ AllFit(GameExits["listMyGames"],
                  Known("listMyGames", DeclaredMine["listMyGames"]))
    <2> DEFINE s == GameExits["listMyGames"]
               n == 2
               D == {200, 401}
    <2>1. HasLen(s, n) /\ s # <<>>
      BY DEF GameExits, HasLen
    <2>2. s[1][2] = 500 /\ s[2][2] = 200
      BY DEF GameExits
    <2>3. Known("listMyGames", DeclaredMine["listMyGames"]) = D
      BY DEF DeclaredMine, Known, UndeclaredBadRequests
    <2> HIDE DEF s
    <2>4. \A i \in 1..n : s[i][2] \in D \union {500}
      BY <2>2
    <2> HIDE DEF n, D
    <2>5. AllFit(s, D)
      BY <2>1, <2>4, AllFitWhen
    <2> QED BY <2>1, <2>3, <2>5 DEF s
  <1> QED BY <1>1, <1>2, HandlerDomains, DeclaredDomains DEF DeclaredGroups, Within

LEMMA MemberExitsFit ==
  \A d \in DeclaredGroups : Within(MemberExits, d)
  <1>1. /\ MemberExits["listGameMembers"] # <<>>
        /\ AllFit(MemberExits["listGameMembers"],
                  Known("listGameMembers", DeclaredRoster["listGameMembers"]))
    <2> DEFINE s == MemberExits["listGameMembers"]
               n == 6
               D == {200, 400, 401, 403, 404}
    <2>1. HasLen(s, n) /\ s # <<>>
      BY DEF MemberExits, HasLen
    <2>2. s[1][2] = 400 /\ s[2][2] = 404 /\ s[3][2] = 500 /\ s[4][2] = 404 /\
          s[5][2] = 500 /\ s[6][2] = 200
      BY DEF MemberExits
    <2>3. Known("listGameMembers", DeclaredRoster["listGameMembers"]) = D
      BY DEF DeclaredRoster, Known, UndeclaredBadRequests
    <2> HIDE DEF s
    <2>4. \A i \in 1..n : s[i][2] \in D \union {500}
      BY <2>2
    <2> HIDE DEF n, D
    <2>5. AllFit(s, D)
      BY <2>1, <2>4, AllFitWhen
    <2> QED BY <2>1, <2>3, <2>5 DEF s
  <1>2. /\ MemberExits["addGameMember"] # <<>>
        /\ AllFit(MemberExits["addGameMember"],
                  Known("addGameMember", DeclaredRoster["addGameMember"]))
    <2> DEFINE s == MemberExits["addGameMember"]
               n == 13
               D == {201, 400, 401, 403, 404, 409}
    <2>1. HasLen(s, n) /\ s # <<>>
      BY DEF MemberExits, HasLen
    <2>2. s[1][2] = 400 /\ s[2][2] = 400 /\ s[3][2] = 400 /\ s[4][2] = 404 /\
          s[5][2] = 500 /\ s[6][2] = 403 /\ s[7][2] = 409 /\ s[8][2] = 409 /\
          s[9][2] = 400 /\ s[10][2] = 500 /\ s[11][2] = 409 /\ s[12][2] = 500 /\
          s[13][2] = 201
      BY DEF MemberExits
    <2>3. Known("addGameMember", DeclaredRoster["addGameMember"]) = D
      BY DEF DeclaredRoster, Known, UndeclaredBadRequests
    <2> HIDE DEF s
    <2>4. \A i \in 1..n : s[i][2] \in D \union {500}
      BY <2>2
    <2> HIDE DEF n, D
    <2>5. AllFit(s, D)
      BY <2>1, <2>4, AllFitWhen
    <2> QED BY <2>1, <2>3, <2>5 DEF s
  <1> QED BY <1>1, <1>2, HandlerDomains, DeclaredDomains DEF DeclaredGroups, Within

LEMMA SeatExitsFit ==
  \A d \in DeclaredGroups : Within(SeatExits, d)
  <1>1. /\ SeatExits["updateGameMember"] # <<>>
        /\ AllFit(SeatExits["updateGameMember"],
                  Known("updateGameMember", DeclaredSeat["updateGameMember"]))
    <2> DEFINE s == SeatExits["updateGameMember"]
               n == 14
               D == {200, 400, 401, 403, 404, 409}
    <2>1. HasLen(s, n) /\ s # <<>>
      BY DEF SeatExits, HasLen
    <2>2. s[1][2] = 400 /\ s[2][2] = 400 /\ s[3][2] = 400 /\ s[4][2] = 404 /\
          s[5][2] = 500 /\ s[6][2] = 404 /\ s[7][2] = 500 /\ s[8][2] = 409 /\
          s[9][2] = 500 /\ s[10][2] = 403 /\ s[11][2] = 409 /\ s[12][2] = 404 /\
          s[13][2] = 500 /\ s[14][2] = 200
      BY DEF SeatExits
    <2>3. Known("updateGameMember", DeclaredSeat["updateGameMember"]) = D
      BY DEF DeclaredSeat, Known, UndeclaredBadRequests
    <2> HIDE DEF s
    <2>4. \A i \in 1..n : s[i][2] \in D \union {500}
      BY <2>2
    <2> HIDE DEF n, D
    <2>5. AllFit(s, D)
      BY <2>1, <2>4, AllFitWhen
    <2> QED BY <2>1, <2>3, <2>5 DEF s
  <1> QED BY <1>1, HandlerDomains, DeclaredDomains DEF DeclaredGroups, Within

LEMMA NotFoundExitsFit ==
  \A d \in DeclaredGroups : Within(NotFoundExits, d)
  <1> QED BY HandlerDomains, DeclaredDomains DEF DeclaredGroups, Within

(* Behind requireAuth 401 is declared, behind requireAdmin 403. *)
LEMMA GatesFit ==
  \A d \in DeclaredGroups : \A op \in DOMAIN d \ Public :
    401 \in d[op] /\ (op \notin Authed => 403 \in d[op])
  <1> DEFINE Declares(d) == \A op \in DOMAIN d \ Public :
                             401 \in d[op] /\ (op \notin Authed => 403 \in d[op])
  <1>1. Declares(DeclaredAccounts1)
    BY DEF DeclaredAccounts1, Public, Authed
  <1>2. Declares(DeclaredAccounts2)
    BY DEF DeclaredAccounts2, Public, Authed
  <1>3. Declares(DeclaredAccountSessions)
    BY DEF DeclaredAccountSessions, Public, Authed
  <1>4. Declares(DeclaredAdmin)
    BY DEF DeclaredAdmin, Public, Authed
  <1>5. Declares(DeclaredShutdownAndAuth)
    BY DEF DeclaredShutdownAndAuth, Public, Authed
  <1>6. Declares(DeclaredCatalog)
    BY DEF DeclaredCatalog, Public, Authed
  <1>7. Declares(DeclaredGame)
    BY DEF DeclaredGame, Public, Authed
  <1>8. Declares(DeclaredRoster)
    BY DEF DeclaredRoster, Public, Authed
  <1>9. Declares(DeclaredSeat)
    BY DEF DeclaredSeat, Public, Authed
  <1>10. Declares(DeclaredMe)
    BY DEF DeclaredMe, Public, Authed
  <1>11. Declares(DeclaredMine)
    BY DEF DeclaredMine, Public, Authed
  <1>12. Declares(DeclaredVersion)
    BY DEF DeclaredVersion, Public, Authed
  <1> HIDE DEF Declares
  <1>13. \A d \in DeclaredGroups : Declares(d)
    BY <1>1, <1>2, <1>3, <1>4, <1>5, <1>6, <1>7, <1>8, <1>9, <1>10, <1>11, <1>12
    DEF DeclaredGroups
  <1> QED BY <1>13 DEF Declares

LEMMA HandlersFit == Within(HandlerExits, Declared)
  <1>1. \A f \in HandlerGroups, d \in DeclaredGroups : Within(f, d)
    BY SystemExitsFit, MeExitsFit, MySessionExitsFit, AccountSessionExitsFit,
       AccountExitsFit, OneAccountExitsFit, AdminExitsFit, CatalogExitsFit, GameExitsFit,
       MemberExitsFit, SeatExitsFit, NotFoundExitsFit DEF HandlerGroups
  <1>2. HandlerExits = Merged(HandlerGroups) /\ Declared = Merged(DeclaredGroups)
    BY DEF HandlerExits, Declared, HandlerGroups, DeclaredGroups
  <1> QED BY <1>1, <1>2, MergedWithin

(* The API declares every operation, the catch-all is none. *)
LEMMA OperationsAreDeclared ==
  \A op \in Operations : op = "unrouted" \/ op \in DOMAIN Declared
  <1>1. Operations = UNION {DOMAIN f : f \in HandlerGroups}
    BY MergedIs DEF Operations, HandlerExits, HandlerGroups
  <1>2. DOMAIN Declared = UNION {DOMAIN d : d \in DeclaredGroups}
    BY MergedIs DEF Declared, DeclaredGroups
  <1> QED BY <1>1, <1>2, HandlerDomains, DeclaredDomains DEF HandlerGroups, DeclaredGroups

LEMMA GateFits ==
  ASSUME NEW op \in DOMAIN Declared
  PROVE  AllFit(Gate(op), Known(op, Declared[op]))
  <1> DEFINE g == Gate(op)
             D == Known(op, Declared[op])
  <1>1. op \in Public \/ (401 \in D /\ (op \in Authed \/ 403 \in D))
    <2>1. PICK d \in DeclaredGroups : op \in DOMAIN d /\ Declared[op] = d[op]
      <3>1. op \in DOMAIN Merged(DeclaredGroups)
        BY DEF Declared, DeclaredGroups
      <3>2. Declared = Merged(DeclaredGroups)
        BY DEF Declared, DeclaredGroups
      <3> QED BY <3>1, <3>2, MergedIs
    <2> QED BY <2>1, GatesFit DEF Known
  <1>2. CASE op \in Public
    <2>1. HasLen(g, 0)
      BY <1>2 DEF Gate, HasLen
    <2> QED BY <2>1 DEF AllFit
  <1>3. CASE op \in Authed \ Public
    <2>1. g = requireAuth
      BY <1>3 DEF Gate
    <2>2. HasLen(requireAuth, 2) /\ requireAuth[1][2] = 401 /\ requireAuth[2][2] = 401
      BY DEF requireAuth, HasLen
    <2>3. 401 \in D
      BY <1>1, <1>3
    <2>4. \A i \in 1..2 : requireAuth[i][2] = 401
      BY <2>2
    <2> HIDE DEF g, D
    <2>5. AllFit(g, D)
      BY <2>1, <2>2, <2>3, <2>4 DEF AllFit, Fits
    <2> QED BY <2>5 DEF g, D
  <1>4. CASE op \notin Authed \union Public
    <2>1. g = requireAuth \o requireAdmin
      BY <1>4 DEF Gate
    <2>2. HasLen(requireAuth, 2) /\ requireAuth[1][2] = 401 /\ requireAuth[2][2] = 401
      BY DEF requireAuth, HasLen
    <2>3. HasLen(requireAdmin, 1) /\ requireAdmin[1][2] = 403
      BY DEF requireAdmin, HasLen
    <2>4. 401 \in D /\ 403 \in D
      BY <1>1, <1>4
    <2>5. /\ \A i \in 1..2 : requireAuth[i][2] = 401
          /\ \A i \in 1..1 : requireAdmin[i][2] = 403
      BY <2>2, <2>3
    <2> HIDE DEF g, D
    <2>6. AllFit(requireAuth, D) /\ AllFit(requireAdmin, D)
      BY <2>2, <2>3, <2>4, <2>5 DEF AllFit, Fits
    <2> QED BY <2>1, <2>6, JoinedFit DEF g, D
  <1> QED BY <1>2, <1>3, <1>4

(* Whatever exit of an operation is taken, in front of its handler or in it. *)
LEMMA ExitsFit ==
  ASSUME NEW op \in Operations, op # "unrouted"
  PROVE  \E n \in Nat \ {0} : /\ Len(Exits(op)) = n
                              /\ \A i \in 1..n : Fits(Exits(op)[i], Known(op, Declared[op]))
  <1> DEFINE g == Gate(op)
             t == HandlerExits[op]
             D == Known(op, Declared[op])
  <1>1. op \in DOMAIN Declared
    BY OperationsAreDeclared
  <1>2. t # <<>> /\ AllFit(t, D)
    BY <1>1, HandlersFit DEF Within, Operations
  <1>3. AllFit(g, D)
    BY <1>1, GateFits
  <1> HIDE DEF g, t, D
  <1>4. PICK n : HasLen(g \o t, n) /\ \A i \in 1..n : Fits((g \o t)[i], D)
    BY <1>2, <1>3, JoinedFit DEF AllFit
  <1>5. n \in Nat /\ Len(g \o t) = n
    BY <1>4, LenIs DEF HasLen
  <1>6. n # 0
    <2>1. PICK m : HasLen(g, m)
      BY <1>3 DEF AllFit
    <2>2. PICK k : HasLen(t, k)
      BY <1>2 DEF AllFit
    <2>3. m \in Nat /\ k \in Nat
      BY <2>1, <2>2 DEF HasLen
    <2>4. k # 0
      BY <2>2, <1>2 DEF HasLen
    <2>5. HasLen(g \o t, m + k)
      BY <2>1, <2>2, JoinedHasLen
    <2>6. Len(g \o t) = m + k
      BY <2>5, LenIs
    <2> QED BY <2>3, <2>4, <2>6, <1>5
  <1>7. Exits(op) = g \o t
    BY DEF Exits, g, t
  <1> QED BY <1>4, <1>5, <1>6, <1>7 DEF D

-----------------------------------------------------------------------------
LEMMA FirstExitIsBad ==
  \A f \in HandlerGroups : \A op \in DOMAIN f \intersect UndeclaredBadRequests :
    f[op][1][2] = 400
  <1> DEFINE Bad(f) == \A op \in DOMAIN f \intersect UndeclaredBadRequests :
                         f[op][1][2] = 400
  <1>1. Bad(SystemExits)
    <2>1. SystemExits["logout"][1][2] = 400
      BY DEF SystemExits
    <2> QED BY <2>1, HandlerDomains DEF UndeclaredBadRequests
  <1>2. Bad(AccountSessionExits)
    <2>1. AccountSessionExits["listAccountSessions"][1][2] = 400
      BY DEF AccountSessionExits
    <2>2. AccountSessionExits["revokeAccountSessions"][1][2] = 400
      BY DEF AccountSessionExits
    <2>3. AccountSessionExits["revokeAccountSession"][1][2] = 400
      BY DEF AccountSessionExits
    <2> QED BY <2>1, <2>2, <2>3, HandlerDomains DEF UndeclaredBadRequests
  <1>3. Bad(OneAccountExits)
    <2>1. OneAccountExits["getAccount"][1][2] = 400
      BY DEF OneAccountExits
    <2> QED BY <2>1, HandlerDomains DEF UndeclaredBadRequests
  <1>4. Bad(CatalogExits)
    <2>1. CatalogExits["listGames"][1][2] = 400
      BY DEF CatalogExits
    <2>2. CatalogExits["getGame"][1][2] = 400
      BY DEF CatalogExits
    <2> QED BY <2>1, <2>2, HandlerDomains DEF UndeclaredBadRequests
  <1>5. Bad(MemberExits)
    <2>1. MemberExits["listGameMembers"][1][2] = 400
      BY DEF MemberExits
    <2> QED BY <2>1, HandlerDomains DEF UndeclaredBadRequests
  <1>6. Bad(MeExits) /\ Bad(MySessionExits) /\ Bad(AccountExits) /\ Bad(AdminExits)
        /\ Bad(GameExits) /\ Bad(SeatExits) /\ Bad(NotFoundExits)
    BY HandlerDomains DEF UndeclaredBadRequests
  <1> HIDE DEF Bad
  <1>7. \A f \in HandlerGroups : Bad(f)
    BY <1>1, <1>2, <1>3, <1>4, <1>5, <1>6 DEF HandlerGroups
  <1> QED BY <1>7 DEF Bad

LEMMA BadIsUndeclared ==
  \A d \in DeclaredGroups : \A op \in DOMAIN d \intersect UndeclaredBadRequests :
    400 \notin d[op]
  <1> DEFINE Silent(d) == \A op \in DOMAIN d \intersect UndeclaredBadRequests :
                            400 \notin d[op]
  <1>1. Silent(DeclaredAccounts2)
    BY DEF DeclaredAccounts2, UndeclaredBadRequests
  <1>2. Silent(DeclaredAccountSessions)
    BY DEF DeclaredAccountSessions, UndeclaredBadRequests
  <1>3. Silent(DeclaredShutdownAndAuth)
    BY DEF DeclaredShutdownAndAuth, UndeclaredBadRequests
  <1>4. Silent(DeclaredCatalog)
    BY DEF DeclaredCatalog, UndeclaredBadRequests
  <1>5. Silent(DeclaredGame)
    BY DEF DeclaredGame, UndeclaredBadRequests
  <1>6. Silent(DeclaredRoster)
    BY DEF DeclaredRoster, UndeclaredBadRequests
  <1>7. Silent(DeclaredAccounts1) /\ Silent(DeclaredAdmin) /\ Silent(DeclaredSeat)
        /\ Silent(DeclaredMe) /\ Silent(DeclaredMine) /\ Silent(DeclaredVersion)
    BY DeclaredDomains DEF UndeclaredBadRequests
  <1> HIDE DEF Silent
  <1>8. \A d \in DeclaredGroups : Silent(d)
    BY <1>1, <1>2, <1>3, <1>4, <1>5, <1>6, <1>7 DEF DeclaredGroups
  <1> QED BY <1>8 DEF Silent

(* The exception is no wider than the code makes it: each of the eight operations has an
   exit with 400, and the contract declares 400 for none of them. *)
THEOREM ExceptionsAreReal ==
  \A op \in UndeclaredBadRequests :
    /\ op \in Operations /\ 400 \notin Declared[op]
    /\ \E i \in 1..Len(Exits(op)) : Exits(op)[i][2] = 400
  <1> SUFFICES ASSUME NEW op \in UndeclaredBadRequests
               PROVE  /\ op \in Operations /\ 400 \notin Declared[op]
                      /\ \E i \in 1..Len(Exits(op)) : Exits(op)[i][2] = 400
    OBVIOUS
  <1>1. Operations = UNION {DOMAIN f : f \in HandlerGroups}
    BY MergedIs DEF Operations, HandlerExits, HandlerGroups
  <1>2. op \in Operations
    BY <1>1, HandlerDomains DEF UndeclaredBadRequests, HandlerGroups
  <1>3. op \in DOMAIN Declared
    BY <1>2, OperationsAreDeclared DEF UndeclaredBadRequests
  <1>4. 400 \notin Declared[op]
    <2>1. Declared = Merged(DeclaredGroups)
      BY DEF Declared, DeclaredGroups
    <2>2. PICK d \in DeclaredGroups : op \in DOMAIN d /\ Declared[op] = d[op]
      BY <1>3, <2>1, MergedIs
    <2> QED BY <2>2, BadIsUndeclared
  <1> DEFINE g == Gate(op)
             t == HandlerExits[op]
  <1>5. t[1][2] = 400
    <2>1. HandlerExits = Merged(HandlerGroups)
      BY DEF HandlerExits, HandlerGroups
    <2>2. PICK f \in HandlerGroups : op \in DOMAIN f /\ HandlerExits[op] = f[op]
      BY <1>2, <2>1, MergedIs DEF Operations
    <2> QED BY <2>2, FirstExitIsBad
  <1>6. t # <<>> /\ AllFit(t, Known(op, Declared[op]))
    BY <1>2, <1>3, HandlersFit DEF Within, Operations
  <1>7. AllFit(g, Known(op, Declared[op]))
    BY <1>3, GateFits
  <1>8. Exits(op) = g \o t
    BY DEF Exits
  <1> HIDE DEF g, t
  <1>9. PICK m : HasLen(g, m)
    BY <1>7 DEF AllFit
  <1>10. PICK k : HasLen(t, k)
    BY <1>6 DEF AllFit
  <1>11. m \in Nat /\ k \in Nat /\ k # 0
    BY <1>6, <1>9, <1>10 DEF HasLen
  <1>12. HasLen(g \o t, m + k) /\ Joins(g \o t, g, m, t, k)
    BY <1>9, <1>10, JoinedHasLen
  <1>13. Len(g \o t) = m + k
    BY <1>12, LenIs
  <1>14. 1 \in 1..k /\ m + 1 \in 1..(m + k)
    BY <1>11
  <1>15. (g \o t)[m + 1] = t[1]
    BY <1>12, <1>14 DEF Joins
  <1> QED BY <1>2, <1>4, <1>5, <1>8, <1>13, <1>14, <1>15

-----------------------------------------------------------------------------
(* What was sent is an exit of the operation, or the envelope of a recovered panic; the
   handler has not run past its last exit. *)
SentInv ==
  operation # "unrouted" =>
    /\ operation \in Operations
    /\ at \in 1..Len(Exits(operation))
    /\ \/ sent = Unsent
       \/ sent = <<"panic", 500>>
       \/ \E i \in 1..Len(Exits(operation)) : sent = Exits(operation)[i]

(* No handler, whatever check it leaves at, before a panic or after, answers with a status
   that the contract does not declare for its operation, except that eight operations
   answer a malformed request with 400. *)
THEOREM UndeclaredRepliesAreKnown ==
  RepliesSpec => []OnlyBadRequestsAreUndeclared
  <1>1. RepliesInit => SentInv
    <2> SUFFICES ASSUME RepliesInit, operation # "unrouted" PROVE SentInv
      BY DEF SentInv
    <2>1. operation \in Operations /\ at = 1 /\ sent = Unsent
      BY DEF RepliesInit
    <2>2. PICK n \in Nat \ {0} : Len(Exits(operation)) = n
      BY <2>1, ExitsFit
    <2> QED BY <2>1, <2>2 DEF SentInv
  <1>2. SentInv /\ [RepliesNext]_replies => SentInv'
    <2> SUFFICES ASSUME SentInv, [RepliesNext]_replies, operation' # "unrouted"
                 PROVE  SentInv'
      BY DEF SentInv
    <2>1. operation' = operation
      BY DEF RepliesNext, Pass, Leave, Return, Panic, Recover, Repanic, Log, replies
    <2>2. /\ operation \in Operations
          /\ at \in 1..Len(Exits(operation))
          /\ \/ sent = Unsent
             \/ sent = <<"panic", 500>>
             \/ \E i \in 1..Len(Exits(operation)) : sent = Exits(operation)[i]
      BY <2>1 DEF SentInv
    <2>3. PICK n \in Nat \ {0} : Len(Exits(operation)) = n
      BY <2>1, <2>2, ExitsFit
    <2>4. at' \in 1..n
      <3>1. at' = at \/ (at < n /\ at' = at + 1)
        BY <2>3 DEF RepliesNext, Pass, Leave, Return, Panic, Recover, Repanic, Log, replies
      <3> QED BY <3>1, <2>2, <2>3
    <2>5. sent' = sent \/ sent' = <<"panic", 500>> \/ sent' = Exits(operation)[at]
      BY DEF RepliesNext, Pass, Leave, Return, Panic, Recover, Repanic, Log, WriteHeader,
             replies
    <2>6. \/ sent' = Unsent
          \/ sent' = <<"panic", 500>>
          \/ \E i \in 1..Len(Exits(operation)) : sent' = Exits(operation)[i]
      BY <2>2, <2>5
    <2>7. Exits(operation)' = Exits(operation)
      BY <2>1 DEF Exits, Gate
    <2>8. Len(Exits(operation))' = n
      BY <2>3, <2>7
    <2> QED BY <2>1, <2>2, <2>3, <2>4, <2>6, <2>7, <2>8 DEF SentInv
  <1>3. SentInv => OnlyBadRequestsAreUndeclared
    <2> SUFFICES ASSUME SentInv, sent # Unsent, operation # "unrouted"
                 PROVE  Fits(sent, Known(operation, Declared[operation]))
      BY DEF OnlyBadRequestsAreUndeclared, Fits, Known
    <2>1. PICK n \in Nat \ {0} :
            /\ Len(Exits(operation)) = n
            /\ \A i \in 1..n :
                 Fits(Exits(operation)[i], Known(operation, Declared[operation]))
      BY ExitsFit DEF SentInv
    <2>2. CASE sent = <<"panic", 500>>
      BY <2>2 DEF Fits
    <2>3. CASE \E i \in 1..n : sent = Exits(operation)[i]
      BY <2>1, <2>3
    <2> QED BY <2>1, <2>2, <2>3 DEF SentInv
  <1> QED BY <1>1, <1>2, <1>3, PTL DEF RepliesSpec
=============================================================================
