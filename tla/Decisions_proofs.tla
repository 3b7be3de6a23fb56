--------------------------- MODULE Decisions_proofs ---------------------------
(* Theorems about the engines that decide, for any products, any curve and    *)
(* any market: what "critical" means, that reserving stock never makes a      *)
(* product less urgent, that the classes are Pareto's, that the timeline      *)
(* reads the same backwards, that the briefing tells what is critical, and    *)
(* that the engines do not contradict each other.                             *)
EXTENDS Commerce, FiniteSetTheorems, WellFoundedInduction, TLAPS

-------------------------------------------------------------------------------
(* Sums over the products *)

\* The least of some numbers, by the strict subsets of an interval.
LEMMA LeastOf ==
  ASSUME NEW W, W \subseteq Nat, W # {}
  PROVE  \E n \in W : \A m \in W : n <= m
<1>1. PICK top \in W : top \in Nat
  OBVIOUS
<1> DEFINE Low == {n \in W : n <= top}
           U == {1..n : n \in Low}
<1>2. \A n \in Low : 1..n \in FiniteSubsetsOf(1..top)
  <2>1. ASSUME NEW n \in Low PROVE 1..n \in FiniteSubsetsOf(1..top)
    <3>1. n \in Nat /\ n <= top
      BY <1>1
    <3>2. 1..n \subseteq 1..top
      BY <1>1, <3>1
    <3>3. IsFiniteSet(1..n)
      BY <3>1, FS_Interval
    <3>4. QED
      BY <3>2, <3>3 DEF FiniteSubsetsOf
  <2>2. QED
    BY <2>1
<1>3. U \subseteq FiniteSubsetsOf(1..top) /\ U # {}
  BY <1>1, <1>2
<1>4. IsFiniteSet(1..top)
  BY <1>1, FS_Interval
<1>5. IsWellFoundedOn(StrictSubsetOrdering(1..top), FiniteSubsetsOf(1..top))
  BY FS_StrictSubsetOrderingWellFounded
<1>6. \E x \in U : \A y \in U : ~(<<y, x>> \in StrictSubsetOrdering(1..top))
  <2> HIDE DEF U
  <2>1. QED
    BY <1>3, <1>5, WFMin
<1>7. \A x \in U : x \in SUBSET (1..top)
  BY <1>3 DEF FiniteSubsetsOf
<1>8. PICK x \in U : \A y \in U : y \subseteq x => y = x
  BY <1>6, <1>7 DEF StrictSubsetOrdering
<1>9. PICK n \in Low : x = 1..n
  BY <1>8
<1>10. ASSUME NEW m \in W PROVE n <= m
  <2>1. m \in Nat /\ n \in Nat /\ n <= top
    BY <1>1, <1>9
  <2>2. CASE m <= top
    <3>1. 1..m \subseteq 1..n => 1..m = 1..n
      BY <1>8, <1>9, <2>2
    <3>2. QED
      BY <2>1, <3>1
  <2>3. CASE top < m
    BY <1>1, <2>1, <2>3
  <2>4. QED
    BY <1>1, <2>1, <2>2, <2>3
<1>11. QED
  BY <1>9, <1>10

\* What a step makes of a number and of what was there before it, taken step by
\* step from a beginning, is a function.
Stepwise(g, N, base, step) == g[0] = base /\ \A n \in 1..N : g[n] = step[<<n, g[n - 1]>>]

LEMMA Recursion ==
  ASSUME NEW N \in Nat, NEW V, NEW base \in V, NEW step \in [(1..N) \X V -> V]
  PROVE  \E g \in [0..N -> V] : Stepwise(g, N, base, step)
<1> DEFINE Good(n, g) == /\ g \in [0..n -> V] /\ g[0] = base
                         /\ \A m \in 1..n : g[m] = step[<<m, g[m - 1]>>]
           Bad == {n \in 0..N : ~\E g : Good(n, g)}
<1>1. Bad = {}
  <2> SUFFICES ASSUME Bad # {} PROVE FALSE
    OBVIOUS
  <2>1. PICK n \in Bad : \A m \in Bad : n <= m
    <3>1. Bad \subseteq Nat
      OBVIOUS
    <3> HIDE DEF Bad
    <3>2. QED
      BY <3>1, LeastOf
  <2>2. n \in 0..N /\ ~\E g : Good(n, g)
    OBVIOUS
  <2>3. n # 0
    <3>1. Good(0, [m \in 0..0 |-> base])
      OBVIOUS
    <3> HIDE DEF Good
    <3>2. QED
      BY <2>2, <3>1
  <2>4. n - 1 \in 0..N /\ ~(n <= n - 1) /\ n \in 1..N
    BY <2>2, <2>3
  <2>5. n - 1 \notin Bad
    BY <2>1, <2>4
  <2>6. PICK g : Good(n - 1, g)
    BY <2>4, <2>5
  <2> DEFINE h == [m \in 0..n |-> IF m = n THEN step[<<n, g[n - 1]>>] ELSE g[m]]
  <2>7. g[n - 1] \in V /\ g \in [0..(n - 1) -> V]
    BY <2>4, <2>6
  <2>8. step[<<n, g[n - 1]>>] \in V
    BY <2>4, <2>7
  <2>9. h \in [0..n -> V] /\ h[0] = base
    <3>1. \A m \in 0..n : m # n => m \in 0..(n - 1)
      BY <2>2
    <3>2. \A m \in 0..n : h[m] \in V
      BY <2>7, <2>8, <3>1
    <3>3. 0 \in 0..n /\ 0 # n /\ g[0] = base
      BY <2>2, <2>3, <2>6
    <3>4. QED
      BY <3>2, <3>3
  <2>10. ASSUME NEW m \in 1..n PROVE h[m] = step[<<m, h[m - 1]>>]
    <3>1. m - 1 \in 0..n /\ m - 1 # n /\ m \in 0..n /\ h[m - 1] = g[m - 1]
      BY <2>2
    <3>2. CASE m = n
      BY <3>1, <3>2
    <3>3. CASE m # n
      <4>1. m \in 1..(n - 1)
        BY <2>2, <3>3
      <4>2. g[m] = step[<<m, g[m - 1]>>]
        BY <2>6, <4>1
      <4>3. QED
        BY <3>1, <3>3, <4>2
    <3>4. QED
      BY <3>2, <3>3
  <2>11. Good(n, h)
    BY <2>9, <2>10
  <2> HIDE DEF Good, h
  <2>12. QED
    BY <2>2, <2>11
<1>2. N \in 0..N
  OBVIOUS
<1>3. \E g : Good(N, g)
  BY <1>1, <1>2
<1>4. QED
  BY <1>3 DEF Stepwise

\* All of its values are of the kind the steps yield.
Stepping(h, N, V, base, step) ==
  h[0] = base /\ \A n \in 1..N : h[n - 1] \in V => h[n] = step[<<n, h[n - 1]>>]

LEMMA Recursive ==
  ASSUME NEW N \in Nat, NEW V, NEW base \in V, NEW step \in [(1..N) \X V -> V], NEW h,
         Stepping(h, N, V, base, step)
  PROVE  \A n \in 0..N : h[n] \in V
<1> DEFINE Bad == {n \in 0..N : h[n] \notin V}
<1> SUFFICES ASSUME Bad # {} PROVE FALSE
  OBVIOUS
<1>1. PICK n \in Bad : \A m \in Bad : n <= m
  <2>1. Bad \subseteq Nat
    OBVIOUS
  <2> HIDE DEF Bad
  <2>2. QED
    BY <2>1, LeastOf
<1>2. n \in 0..N /\ h[n] \notin V
  OBVIOUS
<1>3. n \in 1..N /\ n - 1 \in 0..N /\ ~(n <= n - 1)
  BY <1>2 DEF Stepping
<1>4. h[n - 1] \in V
  BY <1>1, <1>3
<1>5. QED
  BY <1>2, <1>3, <1>4 DEF Stepping

\* What a product adds to a sum, and that f says numbers of the products in S.
Term(S, f, n) == IF n \in S THEN f[n] ELSE 0
Counts(S, f) == \A n \in S \cap Item : f[n] \in Int

\* The sums g up to each product.
SumsUp(g, N, S, f) ==
  /\ N \in Nat /\ Item = 1..N
  /\ \A n \in 0..N : g[n] \in Int
  /\ g[0] = 0 /\ Sum(S, f) = g[N]
  /\ \A n \in 1..N : Term(S, f, n) \in Int /\ g[n] = g[n - 1] + Term(S, f, n)

\* How a sum is made, product by product.
LEMMA Summed ==
  ASSUME NEW S, NEW f, Counts(S, f)
  PROVE  \E g : SumsUp(g, Cardinality(Item), S, f)
<1>1. PICK N \in Nat : N = Cardinality(Item)
  BY FS_CardinalityType, ItemsAssumption
<1>2. Item = 1..N
  BY <1>1, ItemsAssumption
<1> DEFINE step == [p \in (1..N) \X Int |-> p[2] + (IF p[1] \in S THEN f[p[1]] ELSE 0)]
           Equation(h) == h = [n \in 0..N |-> IF n = 0 THEN 0
                                              ELSE h[n - 1] + (IF n \in S THEN f[n] ELSE 0)]
<1>3. step \in [(1..N) \X Int -> Int]
  <2>1. ASSUME NEW n \in 1..N, NEW v \in Int PROVE v + (IF n \in S THEN f[n] ELSE 0) \in Int
    <3>1. CASE n \in S
      <4>1. f[n] \in Int
        BY <1>2, <3>1 DEF Counts
      <4>2. QED
        BY <3>1, <4>1
    <3>2. CASE n \notin S
      BY <3>2
    <3>3. QED
      BY <3>1, <3>2
  <2>2. QED
    BY <2>1
<1>4. PICK g \in [0..N -> Int] : Stepwise(g, N, 0, step)
  <2>1. 0 \in Int
    OBVIOUS
  <2> HIDE DEF step
  <2>2. QED
    BY <1>1, <1>3, <2>1, Recursion
<1>5. ASSUME NEW n \in 0..N
      PROVE  g[n] = IF n = 0 THEN 0 ELSE g[n - 1] + (IF n \in S THEN f[n] ELSE 0)
  <2>1. n # 0 => n \in 1..N /\ n - 1 \in 0..N /\ g[n - 1] \in Int
    OBVIOUS
  <2>2. QED
    BY <1>4, <2>1 DEF Stepwise
<1>6. Equation(g)
  BY <1>4, <1>5
<1>7. PICK h : h = CHOOSE x : Equation(x)
  OBVIOUS
<1>8. Equation(h)
  BY <1>6, <1>7
<1>9. Sum(S, f) = h[N]
  BY <1>1, <1>7 DEF Sum
<1>10. /\ h[0] = 0
       /\ \A n \in 1..N : h[n] = h[n - 1] + (IF n \in S THEN f[n] ELSE 0)
  BY <1>1, <1>8
<1>11. \A n \in 0..N : h[n] \in Int
  <2>1. \A n \in 1..N : h[n - 1] \in Int => h[n] = step[<<n, h[n - 1]>>]
    BY <1>10
  <2>2. 0 \in Int
    OBVIOUS
  <2> HIDE DEF step, Equation
  <2>3. Stepping(h, N, Int, 0, step)
    BY <1>10, <2>1 DEF Stepping
  <2>4. QED
    BY <1>1, <1>3, <2>2, <2>3, Recursive
<1>12. ASSUME NEW n \in 1..N PROVE Term(S, f, n) \in Int /\ h[n] = h[n - 1] + Term(S, f, n)
  <2>1. n \in S => f[n] \in Int
    BY <1>2 DEF Counts
  <2>2. h[n] = h[n - 1] + (IF n \in S THEN f[n] ELSE 0)
    BY <1>10
  <2>3. QED
    BY <2>1, <2>2 DEF Term
<1>13. QED
  BY <1>1, <1>2, <1>9, <1>10, <1>11, <1>12 DEF SumsUp

\* A product of numbers that are not nothing is none either.
LEMMA Multiplied ==
  ASSUME NEW S, NEW f, \A n \in S \cap Item : f[n] \in Nat \ {0}
  PROVE  Times(S, f) \in Nat \ {0}
<1>1. PICK N \in Nat : N = Cardinality(Item)
  BY FS_CardinalityType, ItemsAssumption
<1>2. Item = 1..N
  BY <1>1, ItemsAssumption
<1> DEFINE V == Nat \ {0}
           step == [p \in (1..N) \X V |-> p[2] * (IF p[1] \in S THEN f[p[1]] ELSE 1)]
           Equation(h) == h = [n \in 0..N |-> IF n = 0 THEN 1
                                              ELSE h[n - 1] * (IF n \in S THEN f[n] ELSE 1)]
<1>3. step \in [(1..N) \X V -> V]
  <2>1. ASSUME NEW n \in 1..N, NEW v \in V PROVE v * (IF n \in S THEN f[n] ELSE 1) \in V
    <3>1. PICK k \in Nat \ {0} : k = IF n \in S THEN f[n] ELSE 1
      BY <1>2
    <3>2. v * k \in Nat \ {0}
      OBVIOUS
    <3>3. QED
      BY <3>1, <3>2
  <2>2. QED
    BY <2>1
<1>4. 1 \in V
  OBVIOUS
<1> HIDE DEF V
<1>5. PICK g \in [0..N -> V] : Stepwise(g, N, 1, step)
  <2> HIDE DEF step
  <2>1. QED
    BY <1>1, <1>3, <1>4, Recursion
<1>6. ASSUME NEW n \in 0..N
      PROVE  g[n] = IF n = 0 THEN 1 ELSE g[n - 1] * (IF n \in S THEN f[n] ELSE 1)
  <2>1. n # 0 => n \in 1..N /\ n - 1 \in 0..N /\ g[n - 1] \in V
    OBVIOUS
  <2>2. QED
    BY <1>5, <2>1 DEF Stepwise
<1>7. Equation(g)
  BY <1>5, <1>6
<1>8. PICK h : h = CHOOSE x : Equation(x)
  OBVIOUS
<1>9. Equation(h)
  BY <1>7, <1>8
<1>10. Times(S, f) = h[N]
  BY <1>1, <1>8 DEF Times
<1>11. /\ h[0] = 1
       /\ \A n \in 1..N : h[n - 1] \in V => h[n] = step[<<n, h[n - 1]>>]
  BY <1>1, <1>9
<1> HIDE DEF step, Equation
<1>12. \A n \in 0..N : h[n] \in V
  <2>1. Stepping(h, N, V, 1, step)
    BY <1>11 DEF Stepping
  <2>2. QED
    BY <1>1, <1>3, <1>4, <2>1, Recursive
<1>13. QED
  BY <1>10, <1>12 DEF V

\* Sums are compared term by term; a sum of nothing is nothing.
LEMMA SumsOrdered ==
  ASSUME NEW S, NEW f, Counts(S, f), NEW T, NEW h, Counts(T, h),
         \A n \in Item : Term(S, f, n) <= Term(T, h, n)
  PROVE  Sum(S, f) \in Int /\ Sum(T, h) \in Int /\ Sum(S, f) <= Sum(T, h)
<1>1. PICK N : N = Cardinality(Item)
  OBVIOUS
<1>2. PICK a : SumsUp(a, N, S, f)
  BY <1>1, Summed
<1>3. PICK b : SumsUp(b, N, T, h)
  BY <1>1, Summed
<1>4. N \in Nat /\ Item = 1..N
  BY <1>2 DEF SumsUp
<1> DEFINE Bad == {n \in 0..N : ~(a[n] <= b[n])}
<1>5. Bad = {}
  <2> SUFFICES ASSUME Bad # {} PROVE FALSE
    OBVIOUS
  <2>1. PICK n \in Bad : \A m \in Bad : n <= m
    <3>1. Bad \subseteq Nat
      BY <1>4
    <3> HIDE DEF Bad
    <3>2. QED
      BY <3>1, LeastOf
  <2>2. n \in 0..N /\ ~(a[n] <= b[n])
    OBVIOUS
  <2>3. n \in 1..N /\ n - 1 \in 0..N /\ ~(n <= n - 1)
    BY <1>2, <1>3, <2>2 DEF SumsUp
  <2>4. a[n - 1] <= b[n - 1] /\ a[n - 1] \in Int /\ b[n - 1] \in Int
    BY <1>2, <1>3, <2>1, <2>3 DEF SumsUp
  <2>5. /\ Term(S, f, n) \in Int /\ Term(T, h, n) \in Int
        /\ a[n] = a[n - 1] + Term(S, f, n) /\ b[n] = b[n - 1] + Term(T, h, n)
    BY <1>2, <1>3, <2>3 DEF SumsUp
  <2>6. Term(S, f, n) <= Term(T, h, n)
    BY <1>4, <2>3
  <2>7. QED
    BY <2>2, <2>4, <2>5, <2>6
<1>6. a[N] <= b[N]
  BY <1>4, <1>5
<1>7. QED
  BY <1>2, <1>3, <1>4, <1>6 DEF SumsUp

LEMMA SumOfNone ==
  ASSUME NEW f
  PROVE  Sum({}, f) = 0
<1>1. PICK N : N = Cardinality(Item)
  OBVIOUS
<1>2. Counts({}, f)
  BY DEF Counts
<1>3. PICK a : SumsUp(a, N, {}, f)
  BY <1>1, <1>2, Summed
<1>4. N \in Nat
  BY <1>3 DEF SumsUp
<1> DEFINE Bad == {n \in 0..N : a[n] # 0}
<1>5. Bad = {}
  <2> SUFFICES ASSUME Bad # {} PROVE FALSE
    OBVIOUS
  <2>1. PICK n \in Bad : \A m \in Bad : n <= m
    <3>1. Bad \subseteq Nat
      BY <1>4
    <3> HIDE DEF Bad
    <3>2. QED
      BY <3>1, LeastOf
  <2>2. n \in 0..N /\ a[n] # 0
    OBVIOUS
  <2>3. n \in 1..N /\ n - 1 \in 0..N /\ ~(n <= n - 1)
    BY <1>3, <2>2 DEF SumsUp
  <2>4. a[n - 1] = 0
    BY <2>1, <2>3
  <2>5. a[n] = a[n - 1] + 0
    BY <1>3, <2>3 DEF SumsUp, Term
  <2>6. QED
    BY <2>2, <2>4, <2>5
<1>6. a[N] = 0
  BY <1>4, <1>5
<1>7. QED
  BY <1>3, <1>6 DEF SumsUp

\* One product more adds what is said of it.
LEMMA SumWith ==
  ASSUME NEW S, NEW f, Counts(S, f), NEW i \in Item, i \notin S, f[i] \in Int
  PROVE  Sum(S \cup {i}, f) = Sum(S, f) + f[i]
<1>1. PICK N : N = Cardinality(Item)
  OBVIOUS
<1>2. PICK a : SumsUp(a, N, S, f)
  BY <1>1, Summed
<1>3. PICK T : T = S \cup {i}
  OBVIOUS
<1>4. PICK b : SumsUp(b, N, T, f)
  <2>1. Counts(T, f)
    BY <1>3 DEF Counts
  <2>2. QED
    BY <1>1, <2>1, Summed
<1>5. N \in Nat /\ Item = 1..N /\ i \in 1..N
  BY <1>2 DEF SumsUp
<1> DEFINE Bad == {n \in 0..N : b[n] # a[n] + (IF i <= n THEN f[i] ELSE 0)}
<1>6. Bad = {}
  <2> SUFFICES ASSUME Bad # {} PROVE FALSE
    OBVIOUS
  <2>1. PICK n \in Bad : \A m \in Bad : n <= m
    <3>1. Bad \subseteq Nat
      BY <1>5
    <3> HIDE DEF Bad
    <3>2. QED
      BY <3>1, LeastOf
  <2>2. n \in 0..N /\ b[n] # a[n] + (IF i <= n THEN f[i] ELSE 0)
    OBVIOUS
  <2>3. n # 0
    <3>1. ~(i <= 0) /\ a[0] = 0 /\ b[0] = 0
      BY <1>2, <1>4, <1>5 DEF SumsUp
    <3>2. QED
      BY <2>2, <3>1
  <2>4. n \in 1..N /\ n - 1 \in 0..N /\ ~(n <= n - 1)
    BY <1>5, <2>2, <2>3
  <2>5. n - 1 \notin Bad
    BY <2>1, <2>4
  <2>6. b[n - 1] = a[n - 1] + (IF i <= n - 1 THEN f[i] ELSE 0) /\ a[n - 1] \in Int
    BY <1>2, <2>4, <2>5 DEF SumsUp
  <2>7. /\ Term(S, f, n) \in Int
        /\ a[n] = a[n - 1] + Term(S, f, n) /\ b[n] = b[n - 1] + Term(T, f, n)
    BY <1>2, <1>4, <2>4 DEF SumsUp
  <2>8. CASE n = i
    <3>1. Term(S, f, n) = 0 /\ Term(T, f, n) = f[i]
      BY <1>3, <2>8 DEF Term
    <3>2. ~(i <= n - 1) /\ i <= n
      BY <2>4, <2>8
    <3>3. QED
      BY <2>2, <2>6, <2>7, <3>1, <3>2
  <2>9. CASE n # i
    <3>1. Term(T, f, n) = Term(S, f, n)
      BY <1>3, <2>9 DEF Term
    <3>2. i <= n - 1 <=> i <= n
      BY <1>5, <2>4, <2>9
    <3>3. QED
      BY <2>2, <2>6, <2>7, <3>1, <3>2
  <2>10. QED
    BY <2>8, <2>9
<1>7. b[N] = a[N] + f[i]
  <2>1. N \in 0..N /\ i <= N
    BY <1>5
  <2>2. N \notin Bad
    BY <1>6
  <2>3. QED
    BY <2>1, <2>2
<1>8. QED
  BY <1>2, <1>3, <1>4, <1>7 DEF SumsUp

-------------------------------------------------------------------------------
(* What is critical *)

USE DecisionsAssumption

\* Quantities of a product are numbers.
LEMMA Numbers ==
  ASSUME TypeOK, NEW i \in Item
  PROVE  /\ stock[i] \in Stock
         /\ stock[i].current \in Nat /\ stock[i].reserved \in Nat /\ stock[i].incoming \in Nat
         /\ stock[i].sold \in Nat /\ stock[i].idle \in BOOLEAN /\ stock[i].active \in BOOLEAN
         /\ Available(i) = stock[i].current - stock[i].reserved /\ Available(i) \in Int
         /\ Products[i].daily \in Nat /\ Products[i].lead \in Nat /\ Products[i].maximum \in Nat
         /\ Products[i].minimum \in Nat
         /\ Products[i].daily * Products[i].lead \in Nat
         /\ Projected(i) \in Int /\ Suggested(i) \in Nat
<1>1. stock[i] \in Stock
  BY DEF TypeOK
<1>2. /\ stock[i].current \in Nat /\ stock[i].reserved \in Nat /\ stock[i].incoming \in Nat
      /\ stock[i].sold \in Nat /\ stock[i].idle \in BOOLEAN /\ stock[i].active \in BOOLEAN
  BY <1>1 DEF Stock
<1>3. /\ Products[i].daily \in Nat /\ Products[i].lead \in Nat /\ Products[i].maximum \in Nat
      /\ Products[i].minimum \in Nat
  OBVIOUS
<1>4. Available(i) = stock[i].current - stock[i].reserved /\ Available(i) \in Int
  BY <1>2 DEF Available
<1>5. Products[i].daily * Products[i].lead \in Nat
  BY <1>3
<1>6. Projected(i) \in Int
  BY <1>2, <1>4, <1>5 DEF Projected
<1>7. Suggested(i) \in Nat
  BY <1>3, <1>6 DEF Suggested
<1>8. QED
  BY <1>1, <1>2, <1>3, <1>4, <1>5, <1>6, <1>7

\* Every reachable stock and market is well typed: no quantity becomes negative.
THEOREM TypeCorrect == Spec => []TypeOK
<1>1. Init => TypeOK
  BY DEF Init, TypeOK
<1>2. TypeOK /\ [Next]_vars => TypeOK'
  <2> SUFFICES ASSUME TypeOK, [Next]_vars PROVE TypeOK'
    OBVIOUS
  <2>1. ASSUME NEW i \in Item, NEW x \in Stock, stock' = [stock EXCEPT ![i] = x],
               Step, UNCHANGED market
        PROVE  TypeOK'
    BY <2>1 DEF TypeOK, Step
  <2>2. ASSUME NEW i \in Item,
               Sell(i) \/ Reserve(i) \/ Order(i) \/ Receive(i) \/ Age(i) \/ Toggle(i)
        PROVE  TypeOK'
    <3>1. CASE Sell(i)
      <4> DEFINE x == [stock[i] EXCEPT !.current = stock[i].current - 1,
                                       !.sold = stock[i].sold + 1, !.idle = FALSE]
      <4>1. stock[i].current - 1 \in Nat /\ stock[i].sold + 1 \in Nat
        BY <3>1, Numbers DEF Sell
      <4>2. x \in Stock
        BY <4>1, Numbers DEF Stock
      <4>3. stock' = [stock EXCEPT ![i] = x]
        BY <3>1, Numbers DEF Sell, TypeOK, Stock
      <4> HIDE DEF x
      <4>4. QED
        BY <2>1, <3>1, <4>2, <4>3 DEF Sell
    <3>2. CASE Reserve(i)
      <4>1. [stock[i] EXCEPT !.reserved = stock[i].reserved + 1] \in Stock
        BY Numbers DEF Stock
      <4>2. QED
        BY <2>1, <3>2, <4>1 DEF Reserve
    <3>3. CASE Order(i)
      <4>1. [stock[i] EXCEPT !.incoming = stock[i].incoming + Suggested(i)] \in Stock
        BY Numbers DEF Stock
      <4>2. QED
        BY <2>1, <3>3, <4>1 DEF Order
    <3>4. CASE Receive(i)
      <4>1. stock[i].current + stock[i].incoming \in Nat
        BY Numbers
      <4>2. [stock[i] EXCEPT !.current = stock[i].current + stock[i].incoming,
                             !.incoming = 0] \in Stock
        BY <4>1, Numbers DEF Stock
      <4>3. QED
        BY <2>1, <3>4, <4>2 DEF Receive
    <3>5. CASE Age(i)
      <4>1. [stock[i] EXCEPT !.idle = TRUE] \in Stock
        BY Numbers DEF Stock
      <4>2. QED
        BY <2>1, <3>5, <4>1 DEF Age
    <3>6. CASE Toggle(i)
      <4>1. (~stock[i].active) \in BOOLEAN
        OBVIOUS
      <4>2. \A b \in BOOLEAN : [stock[i] EXCEPT !.active = b] \in Stock
        BY Numbers DEF Stock
      <4>3. QED
        BY <2>1, <3>6, <4>1, <4>2 DEF Toggle
    <3>7. QED
      BY <2>2, <3>1, <3>2, <3>3, <3>4, <3>5, <3>6
  <2>3. ASSUME NEW m \in Market, Observe(m) PROVE TypeOK'
    BY <2>3 DEF TypeOK, Observe, Step
  <2>4. ASSUME UNCHANGED vars PROVE TypeOK'
    BY <2>4 DEF TypeOK, vars
  <2>5. QED
    BY <2>2, <2>3, <2>4 DEF Next
<1>3. QED
  BY <1>1, <1>2, PTL DEF Spec

-------------------------------------------------------------------------------
(* Scores *)

\* The weights of a product, each one of a few numbers.
Coverage(i) == IF CoversAtMost(i, 3) THEN 50 ELSE IF CoversAtMost(i, 7) THEN 25 ELSE 0
Class(curve) == IF curve = "A" THEN 30 ELSE IF curve = "B" THEN 15 ELSE 0
Lack(i) == IF Suggested(i) > 0 THEN 10 ELSE 0

LEMMA Weights ==
  ASSUME NEW i, NEW curve
  PROVE  /\ Weight(i, curve) = RiskWeight(i) + Coverage(i) + Class(curve) + Lack(i)
         /\ RiskWeight(i) \in {0, 64, 80} /\ Coverage(i) \in {0, 25, 50}
         /\ Class(curve) \in {0, 15, 30} /\ Lack(i) \in {0, 10}
         /\ RiskWeight(i) = 80 <=> Status(i) = "out_of_stock"
         /\ Coverage(i) = 50 <=> CoversAtMost(i, 3)
         /\ Class(curve) = 30 <=> curve = "A"
         /\ Weight(i, curve) \in Nat
<1>1. Weight(i, curve) = RiskWeight(i) + Coverage(i) + Class(curve) + Lack(i)
  BY DEF Weight, Coverage, Class, Lack
<1>2. RiskWeight(i) \in {0, 64, 80} /\ (RiskWeight(i) = 80 <=> Status(i) = "out_of_stock")
  BY DEF RiskWeight
<1>3. Coverage(i) \in {0, 25, 50} /\ (Coverage(i) = 50 <=> CoversAtMost(i, 3))
  BY DEF Coverage
<1>4. Class(curve) \in {0, 15, 30} /\ (Class(curve) = 30 <=> curve = "A")
  BY DEF Class
<1>5. Lack(i) \in {0, 10}
  BY DEF Lack
<1>6. RiskWeight(i) + Coverage(i) + Class(curve) + Lack(i) \in Nat
  BY <1>2, <1>3, <1>4, <1>5
<1>7. QED
  BY <1>1, <1>2, <1>3, <1>4, <1>5, <1>6

\* Halves are rounded up.
LEMMA Rounded ==
  ASSUME NEW w \in Nat
  PROVE  /\ Round(w, 2) \in Nat
         /\ Round(w, 2) >= 80 <=> w >= 159
         /\ \A v \in Nat : v >= w => Round(v, 2) >= Round(w, 2)
BY DEF Round

\* Out of stock is the status of what is active and has nothing left.
LEMMA OutOfStock ==
  ASSUME TypeOK, NEW i \in Item
  PROVE  /\ Status(i) = "out_of_stock" <=> stock[i].active /\ Available(i) <= 0
         /\ Status(i) = "inactive" <=> ~stock[i].active
         /\ Status(i) = "stockout_risk" <=> stock[i].active /\ Available(i) > 0 /\ RunsOut(i)
BY Numbers DEF Status

\* The score of a product: none when it is inactive.
LEMMA Scored ==
  ASSUME NEW i \in Item
  PROVE  Score[i] = IF Status(i) = "inactive" THEN 0 ELSE Round(Weight(i, Abc[i]), 2)
BY DEF Score

\* "Critical", out of five weights and four thresholds, means an active product of the
\* curve A that sells and has nothing left, whatever the products.
THEOREM CriticalMeans == Spec => []CriticalIff
<1>1. ASSUME TypeOK, NEW i \in Item
      PROVE  Replenishment(Score[i]) = "critical"
               <=> /\ stock[i].active /\ Available(i) <= 0
                   /\ Products[i].daily > 0 /\ Abc[i] = "A"
  <2> DEFINE w == Weight(i, Abc[i])
  <2>1. w \in Nat /\ Round(w, 2) \in Nat /\ (Round(w, 2) >= 80 <=> w >= 159)
    BY Weights, Rounded
  <2>2. Score[i] \in Nat
    BY <2>1, Scored
  <2>3. Replenishment(Score[i]) = "critical" <=> Score[i] >= 80
    BY <2>2 DEF Replenishment
  <2>4. w >= 159 <=> RiskWeight(i) = 80 /\ Coverage(i) = 50 /\ Class(Abc[i]) = 30
    BY Weights
  <2>5. w >= 159 <=> Status(i) = "out_of_stock" /\ CoversAtMost(i, 3) /\ Abc[i] = "A"
    BY <2>4, Weights
  <2>6. Available(i) <= 0 => (CoversAtMost(i, 3) <=> Products[i].daily > 0)
    <3>1. Products[i].daily \in Nat /\ Available(i) \in Int
      BY <1>1, Numbers
    <3>2. 3 * Products[i].daily >= 0
      BY <3>1
    <3>3. QED
      BY <3>1, <3>2 DEF CoversAtMost, Covered
  <2>7. Score[i] >= 80 <=> Status(i) # "inactive" /\ w >= 159
    BY <2>1, Scored
  <2> HIDE DEF w
  <2>8. QED
    BY <1>1, <2>3, <2>5, <2>6, <2>7, OutOfStock
<1>2. TypeOK => CriticalIff
  BY <1>1 DEF CriticalIff, Critical
<1>3. QED
  BY <1>2, TypeCorrect, PTL

-------------------------------------------------------------------------------
(* Reserving *)

\* A unit more of a product is reserved, and nothing else changes.
LEMMA OnlyReserved ==
  ASSUME TypeOK, [Next]_vars, NEW i \in Item,
         stock'[i].current = stock[i].current, stock'[i].reserved > stock[i].reserved
  PROVE  Reserve(i)
<1>1. stock[i] \in Stock
  BY Numbers
<1>2. ASSUME stock'[i].reserved = stock[i].reserved PROVE FALSE
  BY <1>2, Numbers
<1>3. ASSUME UNCHANGED stock PROVE FALSE
  BY <1>2, <1>3
<1>4. ASSUME NEW j \in Item,
             Sell(j) \/ Order(j) \/ Receive(j) \/ Age(j) \/ Toggle(j)
      PROVE  FALSE
  <2>1. stock'[i].reserved = stock[i].reserved
    <3>1. CASE Sell(j)
      BY <1>1, <3>1 DEF Sell, TypeOK, Stock
    <3>2. CASE Order(j)
      BY <1>1, <3>2 DEF Order, TypeOK, Stock
    <3>3. CASE Receive(j)
      BY <1>1, <3>3 DEF Receive, TypeOK, Stock
    <3>4. CASE Age(j)
      BY <1>1, <3>4 DEF Age, TypeOK, Stock
    <3>5. CASE Toggle(j)
      BY <1>1, <3>5 DEF Toggle, TypeOK, Stock
    <3>6. QED
      BY <1>4, <3>1, <3>2, <3>3, <3>4, <3>5
  <2>2. QED
    BY <1>2, <2>1
<1>5. ASSUME NEW j \in Item, Reserve(j) PROVE j = i
  <2>1. CASE j # i
    <3>1. stock'[i] = stock[i]
      BY <1>5, <2>1 DEF Reserve, TypeOK
    <3>2. QED
      BY <1>2, <3>1
  <2>2. QED
    BY <2>1
<1>6. ASSUME NEW m \in Market, Observe(m) PROVE FALSE
  BY <1>3, <1>6 DEF Observe
<1>7. QED
  BY <1>3, <1>4, <1>5, <1>6 DEF Next, vars

\* What a reservation of i leaves and what it takes.
LEMMA Taken ==
  ASSUME TypeOK, TypeOK', NEW i \in Item, Reserve(i)
  PROVE  /\ Available(i)' = Available(i) - 1 /\ Projected(i)' = Projected(i) - 1
         /\ stock'[i].active = stock[i].active /\ stock'[i].idle = stock[i].idle
         /\ Suggested(i)' >= Suggested(i)
         /\ Abc' = Abc
<1>1. stock' = [stock EXCEPT ![i] = [stock[i] EXCEPT !.reserved = stock[i].reserved + 1]]
  BY DEF Reserve
<1>2. stock[i] \in Stock
  BY Numbers
<1>3. /\ stock'[i].reserved = stock[i].reserved + 1 /\ stock'[i].current = stock[i].current
      /\ stock'[i].incoming = stock[i].incoming /\ stock'[i].sold = stock[i].sold
      /\ stock'[i].active = stock[i].active /\ stock'[i].idle = stock[i].idle
  BY <1>1, <1>2 DEF TypeOK, Stock
<1>4. Available(i)' = Available(i) - 1
  BY <1>3, Numbers DEF Available
<1>5. Projected(i)' = Projected(i) - 1
  BY <1>3, <1>4, Numbers DEF Projected
<1>6. Suggested(i)' >= Suggested(i)
  BY <1>5, Numbers DEF Suggested
<1>7. \A j \in Item : stock'[j].sold = stock[j].sold
  BY <1>1, <1>3 DEF TypeOK
<1>8. Sales' = Sales
  BY <1>7 DEF Sales
<1>9. Abc' = Curve(Sales')
  BY DEF Abc
<1>10. Abc' = Abc
  BY <1>8, <1>9 DEF Abc
<1>11. QED
  BY <1>3, <1>4, <1>5, <1>6, <1>10

\* Covering a number of days at most is kept by what takes stock away.
LEMMA CoversLess ==
  ASSUME TypeOK, NEW i \in Item, NEW days \in Nat, CoversAtMost(i, days),
         Available(i)' = Available(i) - 1
  PROVE  CoversAtMost(i, days)'
<1>1. Available(i) \in Int /\ Products[i].daily \in Nat
  BY Numbers
<1>2. days * Products[i].daily \in Int
  BY <1>1
<1>3. QED
  BY <1>1, <1>2 DEF CoversAtMost, Covered

\* Reserving stock never makes a product less urgent: neither its score, nor the quantity
\* suggested, nor its place, urgency and risk among the recommendations of purchase.
THEOREM TakingOnlyRaises == Spec => TakingRaises
<1>1. ASSUME TypeOK, TypeOK', NEW i \in Item, Reserve(i)
      PROVE  /\ Score'[i] >= Score[i] /\ Suggested(i)' >= Suggested(i)
             /\ i \in Recommended => i \in Recommended'
             /\ Urgency(i) = "immediate" => Urgency(i)' = "immediate"
             /\ RiskLevel(i) = "critical" => RiskLevel(i)' = "critical"
  <2>1. /\ Available(i)' = Available(i) - 1 /\ Projected(i)' = Projected(i) - 1
        /\ stock'[i].active = stock[i].active
        /\ Suggested(i)' >= Suggested(i) /\ Abc' = Abc
    BY <1>1, Taken
  <2>2. /\ Available(i) \in Int /\ Projected(i) \in Int
        /\ Suggested(i) \in Nat /\ Suggested(i)' \in Nat
        /\ Products[i].daily \in Nat /\ Products[i].lead \in Nat
    <3>1. Suggested(i)' \in Nat
      BY <1>1, <2>1, Numbers DEF Suggested
    <3>2. QED
      BY <1>1, <3>1, Numbers
  <2>3. /\ Status(i) = "out_of_stock" => Status(i)' = "out_of_stock"
        /\ Status(i) = "stockout_risk" => Status(i)' \in {"out_of_stock", "stockout_risk"}
        /\ Status(i)' = "inactive" <=> Status(i) = "inactive"
    <3>1. /\ Status(i) = "out_of_stock" <=> stock[i].active /\ Available(i) <= 0
          /\ Status(i) = "inactive" <=> ~stock[i].active
          /\ Status(i) = "stockout_risk" <=> stock[i].active /\ Available(i) > 0 /\ RunsOut(i)
      BY <1>1, OutOfStock
    <3>2. /\ Status(i)' = "out_of_stock" <=> stock'[i].active /\ Available(i)' <= 0
          /\ Status(i)' = "inactive" <=> ~stock'[i].active
          /\ Status(i)' = "stockout_risk" <=> stock'[i].active /\ Available(i)' > 0 /\ RunsOut(i)'
      BY <2>1, <2>2 DEF Status
    <3>3. RunsOut(i) => RunsOut(i)'
      BY <2>1, <2>2 DEF RunsOut
    <3>4. QED
      BY <2>1, <2>2, <3>1, <3>2, <3>3
  <2>4. \A days \in Nat : CoversAtMost(i, days) => CoversAtMost(i, days)'
    BY <1>1, <2>1, CoversLess
  <2>5. Covered(i)' <=> Covered(i)
    BY DEF Covered
  <2>6. RiskWeight(i)' >= RiskWeight(i)
    BY <2>3 DEF RiskWeight
  <2>7. Coverage(i)' >= Coverage(i)
    BY <2>4 DEF Coverage
  <2>8. Lack(i)' >= Lack(i)
    BY <2>1, <2>2 DEF Lack
  <2>9. Score'[i] >= Score[i]
    <3> DEFINE w == Weight(i, Abc[i])
    <3>1. /\ w = RiskWeight(i) + Coverage(i) + Class(Abc[i]) + Lack(i)
          /\ RiskWeight(i) \in Nat /\ Coverage(i) \in Nat /\ Class(Abc[i]) \in Nat /\ Lack(i) \in Nat
      BY Weights
    <3>2. /\ w' = RiskWeight(i)' + Coverage(i)' + Class(Abc[i]) + Lack(i)'
          /\ RiskWeight(i)' \in Nat /\ Coverage(i)' \in Nat /\ Lack(i)' \in Nat
      BY <2>1 DEF Weight, RiskWeight, Coverage, Class, Lack
    <3>3. w \in Nat /\ w' \in Nat /\ w' >= w
      BY <2>6, <2>7, <2>8, <3>1, <3>2
    <3>4. Score'[i] = IF Status(i)' = "inactive" THEN 0 ELSE Round(w', 2)
      BY DEF Score
    <3>5. Score[i] = IF Status(i) = "inactive" THEN 0 ELSE Round(w, 2)
      BY Scored
    <3> HIDE DEF w
    <3>6. Round(w', 2) >= Round(w, 2)
      BY <3>3, Rounded
    <3>7. QED
      BY <2>3, <3>4, <3>5, <3>6
  <2>10. i \in Recommended => i \in Recommended'
    BY <2>1, <2>2, <2>3 DEF Recommended
  <2>11. Urgency(i) = "immediate" => Urgency(i)' = "immediate"
    BY <2>2, <2>4, <2>5 DEF Urgency
  <2>12. RiskLevel(i) = "critical" => RiskLevel(i)' = "critical"
    BY <2>2, <2>3, <2>4, <2>5 DEF RiskLevel
  <2>13. QED
    BY <2>1, <2>9, <2>10, <2>11, <2>12
<1> DEFINE Raises ==
      \A i \in Item :
       /\ stock'[i].current = stock[i].current /\ stock'[i].reserved > stock[i].reserved
       => /\ Score'[i] >= Score[i] /\ Suggested(i)' >= Suggested(i)
          /\ i \in Recommended => i \in Recommended'
          /\ Urgency(i) = "immediate" => Urgency(i)' = "immediate"
          /\ RiskLevel(i) = "critical" => RiskLevel(i)' = "critical"
<1>2. TypeOK /\ TypeOK' /\ [Next]_vars => [Raises]_vars
  <2> SUFFICES ASSUME TypeOK, TypeOK', [Next]_vars PROVE Raises
    OBVIOUS
  <2>1. QED
    BY <1>1, OnlyReserved
<1>3. QED
  BY <1>2, TypeCorrect, PTL DEF Spec, TakingRaises

HIDE DecisionsAssumption

-------------------------------------------------------------------------------
(* The curve *)

\* Products are positions of a sequence.
LEMMA Positions == IsFiniteSet(Item) /\ Cardinality(Item) \in Nat /\ Item \subseteq Nat
<1>1. Cardinality(Item) \in Nat /\ Item = 1..Cardinality(Item) /\ IsFiniteSet(Item)
  BY FS_CardinalityType, ItemsAssumption
<1>2. QED
  BY <1>1

\* Natural numbers of the products: their sums are natural numbers, and no less the
\* more products they are of.
LEMMA SumsGrow ==
  ASSUME NEW f, \A n \in Item : f[n] \in Nat, NEW S, NEW T, S \cap Item \subseteq T
  PROVE  Sum(S, f) \in Nat /\ Sum(T, f) \in Nat /\ Sum(S, f) <= Sum(T, f)
<1>1. Counts({}, f) /\ Counts(S, f) /\ Counts(T, f)
  BY DEF Counts
<1>2. ASSUME NEW n \in Item
      PROVE  Term({}, f, n) <= Term(S, f, n) /\ Term(S, f, n) <= Term(T, f, n)
  <2>1. f[n] \in Nat
    OBVIOUS
  <2>2. CASE n \in S
    BY <2>1, <2>2 DEF Term
  <2>3. CASE n \notin S
    BY <2>1, <2>3 DEF Term
  <2>4. QED
    BY <2>2, <2>3
<1>3. Sum({}, f) \in Int /\ Sum(S, f) \in Int /\ Sum({}, f) <= Sum(S, f)
  BY <1>1, <1>2, SumsOrdered
<1>4. Sum(T, f) \in Int /\ Sum(S, f) <= Sum(T, f)
  BY <1>1, <1>2, SumsOrdered
<1>5. QED
  BY <1>3, <1>4, SumOfNone

\* Of some products one sold more than the others.
LEMMA BestSeller ==
  ASSUME NEW f, \A n \in Item : f[n] \in Nat, NEW T \in SUBSET Item, T # {}
  PROVE  \E i \in T : \A j \in T \ {i} : SoldMore(f, i, j)
<1>1. PICK N \in Nat : N = Cardinality(Item) /\ Item = 1..N
  BY FS_CardinalityType, ItemsAssumption
<1>2. Sum(Item, f) \in Nat
  BY SumsGrow
<1>3. ASSUME NEW i \in Item PROVE f[i] <= Sum(Item, f)
  <2>1. Counts({}, f) /\ f[i] \in Int
    BY DEF Counts
  <2>2. Sum({} \cup {i}, f) = Sum({}, f) + f[i]
    BY <2>1, SumWith
  <2>3. Sum({} \cup {i}, f) <= Sum(Item, f)
    BY SumsGrow
  <2>4. QED
    BY <2>2, <2>3, SumOfNone
<1> DEFINE W == {Sum(Item, f) - f[i] : i \in T}
<1>4. W \subseteq Nat /\ W # {}
  BY <1>2, <1>3
<1>5. PICK w \in W : \A v \in W : w <= v
  <2> HIDE DEF W
  <2>1. QED
    BY <1>4, LeastOf
<1> DEFINE U == {i \in T : \A j \in T : f[j] <= f[i]}
<1>6. U \subseteq Nat /\ U # {}
  <2>1. PICK i \in T : w = Sum(Item, f) - f[i]
    BY <1>5
  <2>2. ASSUME NEW j \in T PROVE f[j] <= f[i]
    <3>1. Sum(Item, f) - f[i] <= Sum(Item, f) - f[j]
      BY <1>5, <2>1
    <3>2. f[i] \in Nat /\ f[j] \in Nat
      OBVIOUS
    <3>3. QED
      BY <1>2, <3>1, <3>2
  <2>3. Item \subseteq Nat
    BY <1>1
  <2>4. QED
    BY <2>2, <2>3
<1>7. PICK i \in U : \A j \in U : i <= j
  <2> HIDE DEF U
  <2>1. QED
    BY <1>6, LeastOf
<1>8. ASSUME NEW j \in T, j # i PROVE SoldMore(f, i, j)
  <2>1. f[j] <= f[i] /\ f[i] \in Nat /\ f[j] \in Nat
    OBVIOUS
  <2>2. CASE f[j] = f[i]
    <3>1. j \in U
      BY <2>2
    <3>2. i <= j /\ i \in Nat /\ j \in Nat
      BY <1>6, <1>7, <3>1
    <3>3. QED
      BY <1>8, <2>2, <3>2 DEF SoldMore
  <2>3. CASE f[j] # f[i]
    BY <2>1, <2>3 DEF SoldMore
  <2>4. QED
    BY <2>2, <2>3
<1>9. QED
  BY <1>8

\* Each product is in the class its own sales and those before it put it in.
Ahead(f, i) == {j \in Item : SoldMore(f, j, i)}
In(f, i, limit) == Within(Sum(Ahead(f, i), f), f[i], Sum(Item, f), limit)

LEMMA Classed ==
  ASSUME NEW f, NEW i \in Item
  PROVE  Curve(f)[i] = IF Sum(Item, f) = 0 THEN "C" ELSE IF In(f, i, 80) THEN "A"
                       ELSE IF In(f, i, 95) THEN "B" ELSE "C"
BY DEF Curve, In, Ahead

\* Who sold more is within every limit another one is within.
LEMMA BetterWithin ==
  ASSUME NEW f, \A n \in Item : f[n] \in Nat, NEW i \in Item, NEW j \in Item, f[i] > f[j],
         NEW limit \in Nat, In(f, j, limit)
  PROVE  In(f, i, limit)
<1> DEFINE bi == Sum(Ahead(f, i), f)
           bj == Sum(Ahead(f, j), f)
           all == Sum(Item, f)
<1>1. f[i] \in Nat /\ f[j] \in Nat
  OBVIOUS
<1>2. bi \in Nat /\ bj \in Nat /\ all \in Nat
  BY SumsGrow
<1>3. bi + f[i] <= bj
  <2>1. i \notin Ahead(f, i) /\ Counts(Ahead(f, i), f)
    <3>1. ~(i < i)
      BY Positions
    <3>2. ~SoldMore(f, i, i)
      BY <1>1, <3>1 DEF SoldMore
    <3>3. QED
      BY <3>2 DEF Ahead, Counts
  <2>2. Sum(Ahead(f, i) \cup {i}, f) = bi + f[i]
    BY <1>1, <2>1, SumWith
  <2>3. ASSUME NEW k \in Ahead(f, i) \cup {i} PROVE k \in Ahead(f, j)
    <3>1. k \in Item /\ f[k] >= f[i] /\ f[k] \in Nat
      BY <1>1 DEF Ahead, SoldMore
    <3>2. f[k] > f[j]
      BY <1>1, <3>1
    <3>3. QED
      BY <3>1, <3>2 DEF Ahead, SoldMore
  <2>4. Sum(Ahead(f, i) \cup {i}, f) <= bj
    BY <2>3, SumsGrow
  <2>5. QED
    BY <2>2, <2>4
<1>4. limit * all \in Nat
  BY <1>2
<1>5. Within(bj, f[j], all, limit)
  BY DEF In
<1> HIDE DEF bi, bj, all
<1>6. 100 * (bi + f[i]) <= limit * all
  BY <1>1, <1>2, <1>3, <1>4, <1>5 DEF Within
<1>7. Within(bi, f[i], all, limit)
  BY <1>6 DEF Within
<1>8. QED
  BY <1>7 DEF In, bi, all

\* What sold is a number.
LEMMA SalesCounted ==
  ASSUME TypeOK
  PROVE  \A i \in Item : Sales[i] \in Nat
<1> SUFFICES ASSUME NEW i \in Item PROVE Sales[i] \in Nat
  OBVIOUS
<1>1. stock[i].sold \in Nat
  BY DEF TypeOK, Stock
<1>2. Products[i].price \in Nat
  BY DecisionsAssumption
<1>3. stock[i].sold * Products[i].price \in Nat
  BY <1>1, <1>2
<1>4. QED
  BY <1>3 DEF Sales

\* The products of the curve A make at least 80% of the sales, would not without the
\* least of them, and who sells more is never in a lower class: for any products and
\* whatever was sold.
THEOREM CurveIsPareto == Spec => []AbcIsPareto
<1>1. ASSUME TypeOK PROVE AbcIsPareto
  <2> DEFINE A == {i \in Item : Abc[i] = "A"}
             Rating == [A |-> 3, B |-> 2, C |-> 1]
  <2>1. PICK f : f = Sales
    OBVIOUS
  <2>2. \A n \in Item : f[n] \in Nat
    BY <1>1, <2>1, SalesCounted
  <2>3. PICK all \in Nat : all = Sum(Item, f)
    BY <2>2, SumsGrow
  <2>4. ASSUME NEW i \in Item
        PROVE  Abc[i] = IF all = 0 THEN "C" ELSE IF In(f, i, 80) THEN "A"
                        ELSE IF In(f, i, 95) THEN "B" ELSE "C"
    BY <2>1, <2>3, Classed DEF Abc
  <2>5. ASSUME all > 0 PROVE 100 * Sum(A, f) >= 80 * all
    <3>1. Sum(A, f) \in Nat /\ (Item \subseteq A => all <= Sum(A, f))
      <4>1. A \cap Item \subseteq Item /\ Item \cap Item \subseteq Item
        OBVIOUS
      <4>2. Sum(A, f) \in Nat
        BY <2>2, <4>1, SumsGrow
      <4>3. Item \subseteq A => Sum(Item, f) <= Sum(A, f)
        BY <2>2, SumsGrow
      <4>4. QED
        BY <2>3, <4>2, <4>3
    <3>2. CASE Item \ A = {}
      BY <2>3, <3>1, <3>2
    <3>3. CASE Item \ A # {}
      <4>1. PICK i \in Item \ A : \A j \in (Item \ A) \ {i} : SoldMore(f, i, j)
        BY <2>2, <3>3, BestSeller
      <4>2. Ahead(f, i) \cap Item \subseteq A
        <5> SUFFICES ASSUME NEW j \in Item, SoldMore(f, j, i), j \notin A PROVE FALSE
          BY DEF Ahead
        <5>1. f[i] \in Nat /\ f[j] \in Nat /\ i \in Int /\ j \in Int
          BY <2>2, Positions
        <5>2. ~SoldMore(f, i, i)
          BY <5>1 DEF SoldMore
        <5>3. SoldMore(f, i, j)
          BY <4>1, <5>2
        <5>4. QED
          BY <5>1, <5>3 DEF SoldMore
      <4>3. Sum(Ahead(f, i), f) \in Nat /\ Sum(Ahead(f, i), f) <= Sum(A, f)
        BY <2>2, <4>2, SumsGrow
      <4>4. ~In(f, i, 80)
        BY <2>3, <2>4, <2>5
      <4>5. 100 * Sum(Ahead(f, i), f) >= 80 * all
        BY <2>3, <4>3, <4>4 DEF In, Within
      <4> HIDE DEF A
      <4>6. QED
        BY <2>3, <3>1, <4>3, <4>5
    <3>4. QED
      BY <3>2, <3>3
  <2>6. ASSUME NEW i \in A, f[i] > 0
        PROVE  100 * Sum({j \in A : SoldMore(f, j, i)}, f) < 80 * all
    <3>1. i \in Item /\ In(f, i, 80) /\ f[i] \in Nat
      BY <2>2, <2>4
    <3>2. PICK before \in Nat : before = Sum(Ahead(f, i), f)
      BY <2>2, SumsGrow
    <3>3. {j \in A : SoldMore(f, j, i)} \cap Item \subseteq Ahead(f, i)
      BY DEF Ahead
    <3>4. PICK own \in Nat : own = Sum({j \in A : SoldMore(f, j, i)}, f) /\ own <= before
      BY <2>2, <3>2, <3>3, SumsGrow
    <3>5. 100 * (before + f[i]) <= 80 * all \/ 100 * before < 80 * all
      BY <2>3, <3>1, <3>2 DEF In, Within
    <3>6. 100 * own < 80 * all
      BY <2>3, <2>6, <3>1, <3>4, <3>5
    <3>7. QED
      BY <3>4, <3>6
  <2>7. ASSUME NEW i \in Item, NEW j \in Item, f[i] > f[j]
        PROVE  Rating[Abc[i]] >= Rating[Abc[j]]
    <3>1. \A limit \in Nat : In(f, j, limit) => In(f, i, limit)
      BY <2>2, <2>7, BetterWithin
    <3>2. /\ In(f, j, 80) => In(f, i, 80)
          /\ In(f, j, 95) => In(f, i, 95)
      BY <3>1
    <3>3. /\ Abc[j] = "A" => Abc[i] = "A"
          /\ Abc[j] = "B" => Abc[i] \in {"A", "B"}
          /\ Abc[i] \in {"A", "B", "C"} /\ Abc[j] \in {"A", "B", "C"}
      BY <2>4, <3>2
    <3>4. QED
      BY <3>3
  <2> HIDE DEF A
  <2>8. /\ all > 0 => 100 * Sum(A, f) >= 80 * all
        /\ \A i \in A : f[i] > 0 => 100 * Sum({j \in A : SoldMore(f, j, i)}, f) < 80 * all
        /\ \A i, j \in Item : f[i] > f[j] => Rating[Abc[i]] >= Rating[Abc[j]]
    BY <2>5, <2>6, <2>7
  <2>9. QED
    BY <2>1, <2>3, <2>8 DEF AbcIsPareto, A
<1>2. QED
  BY <1>1, TypeCorrect, PTL

-------------------------------------------------------------------------------
(* The timeline *)

\* What can be compared: every figure is a number.
Comparable(s) ==
  /\ s.market \in Market
  /\ s.inventory.outOfStock \in Int /\ s.inventory.idleValue \in Int
  /\ s.inventory.critical \in Int
  /\ s.inventory.coverage # <<>> => s.inventory.coverage[1] \in Int
  /\ Cardinality(s.insights) \in Int
  /\ \A severity : Told(s.insights, severity) \in Int

\* The products of a summary can be counted.
LEMMA CountsProducts ==
  ASSUME NEW S \in SUBSET Item
  PROVE  IsFiniteSet(S) /\ Cardinality(S) \in Nat /\ (S # {} <=> Cardinality(S) > 0)
<1>1. IsFiniteSet(S)
  BY Positions, FS_Subset
<1>2. Cardinality(S) \in Nat
  BY <1>1, FS_CardinalityType
<1>3. Cardinality(S) = 0 <=> S = {}
  BY <1>1, FS_EmptySet
<1>4. QED
  BY <1>1, <1>2, <1>3

\* Rounding yields an integer.
LEMMA RoundedInt ==
  ASSUME NEW n \in Int, NEW d \in Nat \ {0}
  PROVE  Round(n, d) \in Int
<1>1. 2 * d \in Nat \ {0} /\ 2 * n + d \in Int
  OBVIOUS
<1>2. QED
  BY <1>1 DEF Round

\* The average coverage, where there is one, is a number.
LEMMA CoverageNumber ==
  ASSUME TypeOK
  PROVE  AverageCoverage = <<>> \/ \E n \in Int : AverageCoverage = <<n>>
<1> DEFINE daily == [i \in Selling |-> Products[i].daily]
           common == Times(Selling, daily)
           worth == [i \in Selling |-> Available(i) * (common \div Products[i].daily)]
<1>1. Selling \in SUBSET Item /\ \A i \in Selling : Products[i].daily \in Nat \ {0}
  BY DecisionsAssumption DEF Selling, Covered
<1>2. common \in Nat \ {0}
  <2>1. \A i \in Selling \cap Item : daily[i] \in Nat \ {0}
    BY <1>1
  <2> HIDE DEF daily
  <2>2. QED
    BY <2>1, Multiplied
<1>3. Sum(Selling, worth) \in Int
  <2>1. ASSUME NEW i \in Selling \cap Item PROVE worth[i] \in Int
    <3> HIDE DEF common
    <3>1. i \in Item /\ Products[i].daily \in Nat \ {0}
      BY <1>1
    <3>2. Available(i) \in Int
      BY <3>1, Numbers
    <3>3. common \div Products[i].daily \in Int
      BY <1>2, <3>1
    <3>4. Available(i) * (common \div Products[i].daily) \in Int
      BY <3>2, <3>3
    <3>5. QED
      BY <3>4
  <2>2. Counts(Selling, worth)
    BY <2>1 DEF Counts
  <2>3. ASSUME NEW n \in Item
        PROVE  Term(Selling, worth, n) \in Int
    BY <2>1 DEF Term
  <2> HIDE DEF worth
  <2>4. \A n \in Item : Term(Selling, worth, n) <= Term(Selling, worth, n)
    BY <2>3
  <2>5. QED
    BY <2>2, <2>4, SumsOrdered
<1>4. CASE Selling = {}
  BY <1>4 DEF AverageCoverage
<1>5. CASE Selling # {}
  <2>1. Cardinality(Selling) \in Nat \ {0}
    BY <1>1, <1>5, CountsProducts
  <2>2. AverageCoverage = <<Round(Sum(Selling, worth), common * Cardinality(Selling))>>
    BY <1>5 DEF AverageCoverage
  <2> HIDE DEF common, worth
  <2>3. common * Cardinality(Selling) \in Nat \ {0}
    BY <1>2, <2>1
  <2>4. Round(Sum(Selling, worth), common * Cardinality(Selling)) \in Int
    BY <1>3, <2>3, RoundedInt
  <2>5. QED
    BY <2>2, <2>4
<1>6. QED
  BY <1>4, <1>5

\* The capital that is idle is none or more.
LEMMA IdleNumber ==
  ASSUME TypeOK
  PROVE  Summary.idleValue \in Nat /\ (Summary.idleValue > 0 => Stagnant # {})
<1> DEFINE worth == [i \in Idle |-> Available(i) * Products[i].cost]
<1>1. Idle \subseteq Item /\ Idle \subseteq Stagnant
  BY DEF Idle, Stagnant, Of
<1>2. ASSUME NEW i \in Idle PROVE worth[i] \in Nat
  <2>1. Available(i) \in Nat
    BY <1>1, Numbers DEF Idle
  <2>2. Products[i].cost \in Nat
    BY <1>1, DecisionsAssumption
  <2>3. Available(i) * Products[i].cost \in Nat
    BY <2>1, <2>2
  <2>4. QED
    BY <2>3
<1>3. Summary.idleValue = Sum(Idle, worth)
  BY DEF Summary
<1> HIDE DEF worth
<1>4. Counts({}, worth) /\ Counts(Idle, worth)
  BY <1>2 DEF Counts
<1>5. \A n \in Item : Term({}, worth, n) <= Term(Idle, worth, n)
  <2> SUFFICES ASSUME NEW n \in Item PROVE 0 <= Term(Idle, worth, n)
    BY DEF Term
  <2>1. QED
    BY <1>2 DEF Term
<1>6. Sum({}, worth) = 0
  BY SumOfNone
<1>7. Sum(Idle, worth) \in Nat
  BY <1>4, <1>5, <1>6, SumsOrdered
<1>8. Idle = {} => Sum(Idle, worth) = 0
  BY <1>6
<1>9. QED
  BY <1>1, <1>3, <1>7, <1>8

\* The insights of a snapshot, one of a rule at most.
OfRule(s, m) == <<GrowthPressure(s, m), IdleCapital(s), UrgentReplenishment(s), HealthyOutlook(s, m)>>

LEMMA InsightsCounted ==
  ASSUME NEW s, NEW m
  PROVE  /\ IsFiniteSet(Insights(s, m)) /\ Cardinality(Insights(s, m)) \in Nat
         /\ \A x \in Insights(s, m) : x.rule \in 1..4 /\ x \in OfRule(s, m)[x.rule]
         /\ \A x, y \in Insights(s, m) : x.rule = y.rule => x = y
<1>1. ASSUME NEW x \in GrowthPressure(s, m), NEW y \in GrowthPressure(s, m)
      PROVE  x.rule = 1 /\ x = y
  BY DEF GrowthPressure, Insight
<1>2. ASSUME NEW x \in IdleCapital(s), NEW y \in IdleCapital(s)
      PROVE  x.rule = 2 /\ x = y
  BY DEF IdleCapital, Insight
<1>3. ASSUME NEW x \in UrgentReplenishment(s), NEW y \in UrgentReplenishment(s)
      PROVE  x.rule = 3 /\ x = y
  BY DEF UrgentReplenishment, Insight
<1>4. ASSUME NEW x \in HealthyOutlook(s, m), NEW y \in HealthyOutlook(s, m)
      PROVE  x.rule = 4 /\ x = y
  BY DEF HealthyOutlook, Insight
<1>5. ASSUME NEW S, \A x, y \in S : x = y PROVE IsFiniteSet(S)
  <2>1. CASE S = {}
    BY <2>1, FS_EmptySet
  <2>2. CASE S # {}
    <3>1. PICK x \in S : TRUE
      BY <2>2
    <3>2. S = {x}
      BY <1>5, <3>1
    <3>3. QED
      BY <3>2, FS_Singleton
  <2>3. QED
    BY <2>1, <2>2
<1>6. /\ IsFiniteSet(GrowthPressure(s, m)) /\ IsFiniteSet(IdleCapital(s))
      /\ IsFiniteSet(UrgentReplenishment(s)) /\ IsFiniteSet(HealthyOutlook(s, m))
  BY <1>1, <1>2, <1>3, <1>4, <1>5
<1>7. IsFiniteSet(Insights(s, m))
  BY <1>6, FS_Union DEF Insights
<1>8. Cardinality(Insights(s, m)) \in Nat
  BY <1>7, FS_CardinalityType
<1>9. ASSUME NEW x \in Insights(s, m)
      PROVE  x.rule \in 1..4 /\ x \in OfRule(s, m)[x.rule]
  <2>1. x \in GrowthPressure(s, m) \/ x \in IdleCapital(s)
          \/ x \in UrgentReplenishment(s) \/ x \in HealthyOutlook(s, m)
    BY DEF Insights
  <2>2. QED
    BY <1>1, <1>2, <1>3, <1>4, <2>1 DEF OfRule
<1>10. ASSUME NEW x \in Insights(s, m), NEW y \in Insights(s, m), x.rule = y.rule
       PROVE  x = y
  <2>1. /\ OfRule(s, m)[1] = GrowthPressure(s, m) /\ OfRule(s, m)[2] = IdleCapital(s)
        /\ OfRule(s, m)[3] = UrgentReplenishment(s) /\ OfRule(s, m)[4] = HealthyOutlook(s, m)
    BY DEF OfRule
  <2>2. x.rule \in 1..4 /\ x \in OfRule(s, m)[x.rule] /\ y \in OfRule(s, m)[x.rule]
    BY <1>9, <1>10
  <2>3. QED
    BY <1>1, <1>2, <1>3, <1>4, <2>1, <2>2
<1>11. QED
  BY <1>7, <1>8, <1>9, <1>10

\* A snapshot can be compared.
LEMMA SnapshotComparable ==
  ASSUME TypeOK
  PROVE  Comparable(Snapshot)
<1> DEFINE s == Summary
           told == Insights(s, market)
<1>1. Snapshot = [inventory |-> s, market |-> market, insights |-> told]
  BY DEF Snapshot
<1>2. s.outOfStock \in Int /\ s.critical \in Int
  <2>1. /\ s.outOfStock = Cardinality(Of({"out_of_stock"}))
        /\ s.critical = Cardinality(Critical)
    BY DEF Summary
  <2>2. Of({"out_of_stock"}) \in SUBSET Item /\ Critical \in SUBSET Item
    BY DEF Of, Critical
  <2>3. QED
    BY <2>1, <2>2, CountsProducts
<1>3. s.idleValue \in Int
  BY IdleNumber
<1>4. s.coverage # <<>> => s.coverage[1] \in Int
  <2>1. s.coverage = AverageCoverage
    BY DEF Summary
  <2>2. QED
    BY <2>1, CoverageNumber
<1>5. Cardinality(told) \in Int /\ \A severity : Told(told, severity) \in Int
  <2>1. IsFiniteSet(told) /\ Cardinality(told) \in Nat
    BY InsightsCounted
  <2>2. ASSUME NEW severity PROVE Told(told, severity) \in Int
    <3>1. {x \in told : x.severity = severity} \in SUBSET told
      OBVIOUS
    <3>2. IsFiniteSet({x \in told : x.severity = severity})
      BY <2>1, <3>1, FS_Subset
    <3>3. QED
      BY <3>2, FS_CardinalityType DEF Told
  <2>3. QED
    BY <2>1, <2>2
<1> HIDE DEF s, told
<1>6. QED
  BY <1>1, <1>2, <1>3, <1>4, <1>5 DEF Comparable, TypeOK

\* The opposite of one event.
Other(direction) == IF direction = "improved" THEN "worsened" ELSE "improved"

LEMMA OppositeOne ==
  ASSUME NEW id, NEW d
  PROVE  Opposite({[id |-> id, direction |-> d]}) = {[id |-> id, direction |-> Other(d)]}
<1> DEFINE e == [id |-> id, direction |-> d]
<1>1. [e EXCEPT !.direction = IF @ = "improved" THEN "worsened" ELSE "improved"]
        = [id |-> id, direction |-> Other(d)]
  BY DEF Other
<1> HIDE DEF e
<1>2. Opposite({e}) = {[e EXCEPT !.direction = IF @ = "improved" THEN "worsened" ELSE "improved"]}
  BY DEF Opposite
<1>3. QED
  BY <1>1, <1>2 DEF e

\* One event told both ways.
LEMMA EventFlips ==
  ASSUME NEW id, NEW b \in Int, NEW a \in Int, NEW rising \in {"improved", "worsened"}
  PROVE  /\ Event(id, a, b, rising) = Opposite(Event(id, b, a, rising))
         /\ Event(id, a, b, rising) = {} <=> Event(id, b, a, rising) = {}
<1>1. CASE a = b
  BY <1>1 DEF Event, Opposite
<1>2. CASE a > b
  <2>1. Event(id, b, a, rising) = {[id |-> id, direction |-> rising]}
    BY <1>2 DEF Event
  <2>2. Event(id, a, b, rising)
          = {[id |-> id, direction |-> Other(rising)]}
    BY <1>2 DEF Event, Other
  <2>3. Other(Other(rising)) = rising
    BY DEF Other
  <2>4. QED
    BY <2>1, <2>2, <2>3, OppositeOne
<1>3. CASE a < b
  <2>1. Event(id, a, b, rising) = {[id |-> id, direction |-> rising]}
    BY <1>3 DEF Event
  <2>2. Event(id, b, a, rising)
          = {[id |-> id, direction |-> Other(rising)]}
    BY <1>3 DEF Event, Other
  <2>3. Other(Other(rising)) = rising
    BY DEF Other
  <2>4. QED
    BY <2>1, <2>2, <2>3, OppositeOne
<1>4. QED
  BY <1>1, <1>2, <1>3

\* The opposite of some parts is that of each.
LEMMA OppositeParts ==
  ASSUME NEW S, NEW S1, S1 = Opposite(S), NEW T, NEW T1, T1 = Opposite(T)
  PROVE  S1 \cup T1 = Opposite(S \cup T)
BY DEF Opposite

LEMMA OppositeThree ==
  ASSUME NEW S, NEW S1, S1 = Opposite(S), NEW T, NEW T1, T1 = Opposite(T),
         NEW U, NEW U1, U1 = Opposite(U)
  PROVE  S1 \cup T1 \cup U1 = Opposite(S \cup T \cup U)
BY DEF Opposite

\* A set with one more event, or none, is larger by one at most.
Few(S, n) == IsFiniteSet(S) /\ Cardinality(S) <= n
OneAtMost(T) == \E e : T \subseteq {e}

LEMMA OneMore ==
  ASSUME NEW n \in Nat, NEW S, Few(S, n), NEW T, OneAtMost(T), NEW m, m = n + 1
  PROVE  Few(S \cup T, m)
<1>1. PICK e : T \subseteq {e}
  BY DEF OneAtMost
<1>2. IsFiniteSet(S) /\ Cardinality(S) \in Nat /\ Cardinality(S) <= n
  BY FS_CardinalityType DEF Few
<1>3. CASE T = {}
  <2>1. S \cup T = S
    BY <1>3
  <2>2. Few(S, m)
    BY <1>2 DEF Few
  <2>3. QED
    BY <2>1, <2>2
<1>4. CASE T = {e}
  <2>1. /\ IsFiniteSet(S \cup {e})
        /\ Cardinality(S \cup {e}) = IF e \in S THEN Cardinality(S) ELSE Cardinality(S) + 1
    BY <1>2, FS_AddElement
  <2>2. QED
    BY <1>2, <1>4, <2>1 DEF Few
<1>5. QED
  BY <1>1, <1>3, <1>4

\* A comparison tells one event at most.
LEMMA EventsOne ==
  ASSUME NEW id, NEW b, NEW a, NEW rising
  PROVE  OneAtMost(Event(id, b, a, rising))
BY DEF Event, OneAtMost

\* The event of the growth, when it is known both times.
GrowthEvent(p, c) ==
  IF p.market.growth = <<>> \/ c.market.growth = <<>> THEN {}
  ELSE Event("growth", p.market.growth[1], c.market.growth[1], "improved")

\* The marketplaces compared both ways, and the inventories.
LEMMA MarketFlips ==
  ASSUME NEW p, Comparable(p), NEW c, Comparable(c)
  PROVE  /\ CompareMarketplace(c, p) = Opposite(CompareMarketplace(p, c))
         /\ OneAtMost(GrowthEvent(p, c))
<1>1. p.market \in Market /\ c.market \in Market
  BY DEF Comparable
<1>2. /\ p.market.health \in Int /\ p.market.orders \in Int
      /\ c.market.health \in Int /\ c.market.orders \in Int
      /\ Nullable(p.market.growth) /\ Nullable(c.market.growth)
  <2>1. ASSUME NEW m \in Market
        PROVE  m.health \in Int /\ m.orders \in Int /\ Nullable(m.growth)
    <3>1. Nullable(m.growth) /\ m.health \in 0..100 /\ m.orders \in Nat
      BY DecisionsAssumption
    <3>2. QED
      BY <3>1
  <2>2. QED
    BY <1>1, <2>1
<1>3. Event("health", c.market.health, p.market.health, "improved")
        = Opposite(Event("health", p.market.health, c.market.health, "improved"))
  BY <1>2, EventFlips
<1>4. GrowthEvent(c, p) = Opposite(GrowthEvent(p, c)) /\ OneAtMost(GrowthEvent(p, c))
  <2>1. CASE p.market.growth = <<>> \/ c.market.growth = <<>>
    BY <2>1 DEF GrowthEvent, Opposite, OneAtMost
  <2>2. CASE ~(p.market.growth = <<>> \/ c.market.growth = <<>>)
    <3>1. /\ GrowthEvent(p, c) = Event("growth", p.market.growth[1], c.market.growth[1], "improved")
          /\ GrowthEvent(c, p) = Event("growth", c.market.growth[1], p.market.growth[1], "improved")
      BY <2>2 DEF GrowthEvent
    <3>2. p.market.growth[1] \in Int /\ c.market.growth[1] \in Int
      BY <1>2, <2>2 DEF Nullable
    <3>3. QED
      BY <3>1, <3>2, EventFlips, EventsOne
  <2>3. QED
    BY <2>1, <2>2
<1>5. Event("orders", c.market.orders, p.market.orders, "improved")
        = Opposite(Event("orders", p.market.orders, c.market.orders, "improved"))
  BY <1>2, EventFlips
<1>6. CompareMarketplace(c, p) = Opposite(CompareMarketplace(p, c))
  <2>1. ASSUME NEW x, NEW y
        PROVE  CompareMarketplace(x, y)
                 = Event("health", x.market.health, y.market.health, "improved")
                     \cup Event("orders", x.market.orders, y.market.orders, "improved")
                     \cup GrowthEvent(x, y)
    BY DEF CompareMarketplace, GrowthEvent
  <2>2. PICK h, o, g : /\ h = Event("health", p.market.health, c.market.health, "improved")
                       /\ o = Event("orders", p.market.orders, c.market.orders, "improved")
                       /\ g = GrowthEvent(p, c)
    OBVIOUS
  <2>3. CompareMarketplace(p, c) = h \cup o \cup g
    BY <2>1, <2>2
  <2>4. CompareMarketplace(c, p) = Opposite(h) \cup Opposite(o) \cup Opposite(g)
    BY <1>3, <1>4, <1>5, <2>1, <2>2
  <2>5. QED
    BY <2>3, <2>4, OppositeThree
<1>7. QED
  BY <1>4, <1>6

\* The event of the coverage, when it is known both times.
CoverageEvent(p, c) ==
  IF p.inventory.coverage = <<>> \/ c.inventory.coverage = <<>> THEN {}
  ELSE Event("coverage", p.inventory.coverage[1], c.inventory.coverage[1], "worsened")

LEMMA InventoryFlips ==
  ASSUME NEW p, Comparable(p), NEW c, Comparable(c)
  PROVE  /\ CompareInventory(c, p) = Opposite(CompareInventory(p, c))
         /\ CompareInventory(p, c)
              = Event("stockout", p.inventory.outOfStock, c.inventory.outOfStock, "worsened")
                  \cup Event("idle-capital", p.inventory.idleValue, c.inventory.idleValue, "worsened")
                  \cup Event("critical", p.inventory.critical, c.inventory.critical, "worsened")
                  \cup CoverageEvent(p, c)
         /\ OneAtMost(CoverageEvent(p, c))
<1>1. ASSUME NEW x, NEW y
      PROVE  CompareInventory(x, y)
              = Event("stockout", x.inventory.outOfStock, y.inventory.outOfStock, "worsened")
                  \cup Event("idle-capital", x.inventory.idleValue, y.inventory.idleValue, "worsened")
                  \cup Event("critical", x.inventory.critical, y.inventory.critical, "worsened")
                  \cup CoverageEvent(x, y)
  BY DEF CompareInventory, CoverageEvent
<1>2. /\ p.inventory.outOfStock \in Int /\ p.inventory.idleValue \in Int
      /\ p.inventory.critical \in Int
      /\ c.inventory.outOfStock \in Int /\ c.inventory.idleValue \in Int
      /\ c.inventory.critical \in Int
  BY DEF Comparable
<1>3. Event("stockout", c.inventory.outOfStock, p.inventory.outOfStock, "worsened")
        = Opposite(Event("stockout", p.inventory.outOfStock, c.inventory.outOfStock, "worsened"))
  BY <1>2, EventFlips
<1>4. Event("idle-capital", c.inventory.idleValue, p.inventory.idleValue, "worsened")
        = Opposite(Event("idle-capital", p.inventory.idleValue, c.inventory.idleValue, "worsened"))
  BY <1>2, EventFlips
<1>5. Event("critical", c.inventory.critical, p.inventory.critical, "worsened")
        = Opposite(Event("critical", p.inventory.critical, c.inventory.critical, "worsened"))
  BY <1>2, EventFlips
<1>6. CoverageEvent(c, p) = Opposite(CoverageEvent(p, c)) /\ OneAtMost(CoverageEvent(p, c))
  <2>1. CASE p.inventory.coverage = <<>> \/ c.inventory.coverage = <<>>
    BY <2>1 DEF CoverageEvent, Opposite, OneAtMost
  <2>2. CASE ~(p.inventory.coverage = <<>> \/ c.inventory.coverage = <<>>)
    <3>1. p.inventory.coverage[1] \in Int /\ c.inventory.coverage[1] \in Int
      BY <2>2 DEF Comparable
    <3>2. /\ CoverageEvent(p, c) = Event("coverage", p.inventory.coverage[1],
                                         c.inventory.coverage[1], "worsened")
          /\ CoverageEvent(c, p) = Event("coverage", c.inventory.coverage[1],
                                         p.inventory.coverage[1], "worsened")
      BY <2>2 DEF CoverageEvent
    <3>3. QED
      BY <3>1, <3>2, EventFlips, EventsOne
  <2>3. QED
    BY <2>1, <2>2
<1>7. CompareInventory(c, p) = Opposite(CompareInventory(p, c))
  <2>1. PICK three : three = Event("stockout", p.inventory.outOfStock, c.inventory.outOfStock, "worsened")
                  \cup Event("idle-capital", p.inventory.idleValue, c.inventory.idleValue, "worsened")
                  \cup Event("critical", p.inventory.critical, c.inventory.critical, "worsened")
    OBVIOUS
  <2>2. Event("stockout", c.inventory.outOfStock, p.inventory.outOfStock, "worsened")
          \cup Event("idle-capital", c.inventory.idleValue, p.inventory.idleValue, "worsened")
          \cup Event("critical", c.inventory.critical, p.inventory.critical, "worsened")
          = Opposite(three)
    BY <1>3, <1>4, <1>5, <2>1, OppositeThree
  <2>3. CompareInventory(c, p) = Opposite(three) \cup CoverageEvent(c, p)
    BY <1>1, <2>2
  <2>4. CompareInventory(p, c) = three \cup CoverageEvent(p, c)
    BY <1>1, <2>1
  <2>5. QED
    BY <1>6, <2>3, <2>4, OppositeParts
<1>8. QED
  BY <1>1, <1>6, <1>7

\* The event of the insights' gravity, when neither their number nor that of the
\* critical ones changed.
ShiftEvent(p, c) ==
  IF /\ Event("insights", Cardinality(p.insights), Cardinality(c.insights), "worsened") = {}
     /\ Event("critical-insights", Criticals(p.insights), Criticals(c.insights), "worsened") = {}
  THEN Event("severity-shift", Gravity(p.insights), Gravity(c.insights), "worsened") ELSE {}

LEMMA ExecutiveFlips ==
  ASSUME NEW p, Comparable(p), NEW c, Comparable(c)
  PROVE  /\ CompareExecutive(c, p) = Opposite(CompareExecutive(p, c))
         /\ CompareExecutive(p, c)
              = Event("insights", Cardinality(p.insights), Cardinality(c.insights), "worsened")
                  \cup Event("critical-insights", Criticals(p.insights), Criticals(c.insights),
                             "worsened")
                  \cup ShiftEvent(p, c)
         /\ OneAtMost(ShiftEvent(p, c))
<1>1. ASSUME NEW x, NEW y
      PROVE  CompareExecutive(x, y)
              = Event("insights", Cardinality(x.insights), Cardinality(y.insights), "worsened")
                  \cup Event("critical-insights", Criticals(x.insights), Criticals(y.insights),
                             "worsened")
                  \cup ShiftEvent(x, y)
  BY DEF CompareExecutive, ShiftEvent
<1>2. ASSUME NEW x, Comparable(x)
      PROVE  /\ Cardinality(x.insights) \in Int /\ Criticals(x.insights) \in Int
             /\ Gravity(x.insights) \in Int
  <2>1. /\ Told(x.insights, "critical") \in Int /\ Told(x.insights, "high") \in Int
        /\ Told(x.insights, "medium") \in Int /\ Told(x.insights, "low") \in Int
        /\ Cardinality(x.insights) \in Int
    BY <1>2 DEF Comparable
  <2>2. QED
    BY <2>1 DEF Criticals, Gravity
<1>3. /\ Cardinality(p.insights) \in Int /\ Criticals(p.insights) \in Int
      /\ Gravity(p.insights) \in Int
      /\ Cardinality(c.insights) \in Int /\ Criticals(c.insights) \in Int
      /\ Gravity(c.insights) \in Int
  BY <1>2
<1>4. PICK i, i1, k, k1, s, s1 :
        /\ i = Event("insights", Cardinality(p.insights), Cardinality(c.insights), "worsened")
        /\ i1 = Event("insights", Cardinality(c.insights), Cardinality(p.insights), "worsened")
        /\ k = Event("critical-insights", Criticals(p.insights), Criticals(c.insights), "worsened")
        /\ k1 = Event("critical-insights", Criticals(c.insights), Criticals(p.insights), "worsened")
        /\ s = Event("severity-shift", Gravity(p.insights), Gravity(c.insights), "worsened")
        /\ s1 = Event("severity-shift", Gravity(c.insights), Gravity(p.insights), "worsened")
  OBVIOUS
<1>5. i1 = Opposite(i) /\ (i1 = {} <=> i = {})
  BY <1>3, <1>4, EventFlips
<1>6. k1 = Opposite(k) /\ (k1 = {} <=> k = {})
  BY <1>3, <1>4, EventFlips
<1>7. s1 = Opposite(s) /\ OneAtMost(s)
  BY <1>3, <1>4, EventFlips, EventsOne
<1>8. /\ ShiftEvent(p, c) = IF i = {} /\ k = {} THEN s ELSE {}
      /\ ShiftEvent(c, p) = IF i1 = {} /\ k1 = {} THEN s1 ELSE {}
  BY <1>4 DEF ShiftEvent
<1>9. ShiftEvent(c, p) = Opposite(ShiftEvent(p, c)) /\ OneAtMost(ShiftEvent(p, c))
  <2>1. CASE i = {} /\ k = {}
    BY <1>5, <1>6, <1>7, <1>8, <2>1
  <2>2. CASE ~(i = {} /\ k = {})
    <3>1. ShiftEvent(c, p) = {} /\ ShiftEvent(p, c) = {}
      BY <1>5, <1>6, <1>8, <2>2
    <3>2. QED
      BY <3>1 DEF Opposite, OneAtMost
  <2>3. QED
    BY <2>1, <2>2
<1>10. /\ CompareExecutive(p, c) = i \cup k \cup ShiftEvent(p, c)
       /\ CompareExecutive(c, p) = i1 \cup k1 \cup ShiftEvent(c, p)
  BY <1>1, <1>4
<1>11. CompareExecutive(c, p) = Opposite(CompareExecutive(p, c))
  BY <1>5, <1>6, <1>9, <1>10, OppositeThree
<1>12. QED
  BY <1>1, <1>9, <1>11

\* Nine events at most are told of two snapshots.
LEMMA FewEvents ==
  ASSUME NEW p, Comparable(p), NEW c, Comparable(c)
  PROVE  Cardinality(Timeline(p, c)) <= 10
<1>2. PICK h, g, o : /\ h = Event("health", p.market.health, c.market.health, "improved")
                     /\ g = GrowthEvent(p, c)
                     /\ o = Event("orders", p.market.orders, c.market.orders, "improved")
  OBVIOUS
<1>3. PICK s, i, r :
        /\ s = Event("stockout", p.inventory.outOfStock, c.inventory.outOfStock, "worsened")
        /\ i = Event("idle-capital", p.inventory.idleValue, c.inventory.idleValue, "worsened")
        /\ r = Event("critical", p.inventory.critical, c.inventory.critical, "worsened")
  OBVIOUS
<1>4. PICK n, k : /\ n = Event("insights", Cardinality(p.insights), Cardinality(c.insights), "worsened")
                  /\ k = Event("critical-insights", Criticals(p.insights), Criticals(c.insights),
                               "worsened")
  OBVIOUS
<1>5. PICK v, f : v = CoverageEvent(p, c) /\ f = ShiftEvent(p, c)
  OBVIOUS
<1>6. Timeline(p, c) = {} \cup h \cup o \cup g \cup s \cup i \cup r \cup v \cup n \cup k \cup f
  <2>1. CompareMarketplace(p, c) = h \cup o \cup g
    BY <1>2 DEF CompareMarketplace, GrowthEvent
  <2>2. CompareInventory(p, c) = s \cup i \cup r \cup v
    BY <1>3, <1>5, InventoryFlips
  <2>3. CompareExecutive(p, c) = n \cup k \cup f
    BY <1>4, <1>5, ExecutiveFlips
  <2>4. QED
    BY <2>1, <2>2, <2>3 DEF Timeline
<1>7. /\ OneAtMost(h)
      /\ OneAtMost(o)
      /\ OneAtMost(g)
  BY <1>2, EventsOne, MarketFlips
<1>8. /\ OneAtMost(s)
      /\ OneAtMost(i)
      /\ OneAtMost(r)
  BY <1>3, EventsOne
<1>9. /\ OneAtMost(n)
      /\ OneAtMost(k)
  BY <1>4, EventsOne
<1>10. /\ OneAtMost(v)
       /\ OneAtMost(f)
  BY <1>5, InventoryFlips, ExecutiveFlips
<1>11. PICK A : A = {} \cup h \cup o \cup g
  OBVIOUS
<1>12. Few(A, 3)
  <2>1. Few({}, 0)
    BY FS_EmptySet DEF Few
  <2>2. Few({} \cup h, 1)
    BY <1>7, <2>1, OneMore
  <2>3. Few({} \cup h \cup o, 2)
    BY <1>7, <2>2, OneMore
  <2>4. QED
    BY <1>7, <1>11, <2>3, OneMore
<1>13. PICK B : B = A \cup s \cup i \cup r
  OBVIOUS
<1>14. Few(B, 6)
  <2>1. Few(A \cup s, 4)
    BY <1>8, <1>12, OneMore
  <2>2. Few(A \cup s \cup i, 5)
    BY <1>8, <2>1, OneMore
  <2>3. QED
    BY <1>8, <1>13, <2>2, OneMore
<1>15. Few(B \cup v \cup n \cup k \cup f, 10)
  <2>1. Few(B \cup v, 7)
    BY <1>10, <1>14, OneMore
  <2>2. Few(B \cup v \cup n, 8)
    BY <1>9, <2>1, OneMore
  <2>3. Few(B \cup v \cup n \cup k, 9)
    BY <1>9, <2>2, OneMore
  <2>4. QED
    BY <1>10, <2>3, OneMore
<1>16. QED
  BY <1>6, <1>11, <1>13, <1>15 DEF Few

\* The timeline tells the same forwards and backwards: the subjects that changed, each
\* with the opposite direction, and never more than are kept.
THEOREM TimelineIsTold == Spec => []TimelineFlips
<1>1. Init => Comparable(previous)
  <2>1. Init => TypeOK
    BY DecisionsAssumption DEF Init, TypeOK
  <2>2. QED
    BY <2>1, SnapshotComparable DEF Init
<1>2. TypeOK /\ Comparable(previous) /\ [Next]_vars => Comparable(previous)'
  <2> SUFFICES ASSUME TypeOK, Comparable(previous), [Next]_vars
               PROVE  Comparable(previous')
    BY DEF Comparable, Told
  <2>1. previous' = Snapshot \/ previous' = previous
    <3>1. Step => previous' = Snapshot
      BY DEF Step
    <3>2. Next => Step
      BY DEF Next, Sell, Reserve, Order, Receive, Age, Toggle, Observe
    <3>3. QED
      BY <3>1, <3>2 DEF vars
  <2>2. QED
    BY <2>1, SnapshotComparable
<1>3. ASSUME TypeOK, Comparable(previous) PROVE TimelineFlips
  <2>1. PICK c : c = Snapshot
    OBVIOUS
  <2>2. Comparable(c)
    BY <1>3, <2>1, SnapshotComparable
  <2>3. Timeline(c, previous) = Opposite(Timeline(previous, c))
    <3>1. /\ CompareMarketplace(c, previous) = Opposite(CompareMarketplace(previous, c))
          /\ CompareInventory(c, previous) = Opposite(CompareInventory(previous, c))
          /\ CompareExecutive(c, previous) = Opposite(CompareExecutive(previous, c))
      BY <1>3, <2>2, MarketFlips, InventoryFlips, ExecutiveFlips
    <3>2. QED
      BY <3>1, OppositeThree DEF Timeline
  <2>4. Cardinality(Timeline(previous, c)) <= 10
    BY <1>3, <2>2, FewEvents
  <2>5. QED
    BY <2>1, <2>3, <2>4 DEF TimelineFlips
<1>4. QED
  BY <1>1, <1>2, <1>3, TypeCorrect, PTL DEF Spec

-------------------------------------------------------------------------------
(* The briefing *)

\* What is rounded reaches a whole number that it is not below.
LEMMA RoundReaches ==
  ASSUME NEW n \in Int, NEW d \in Nat \ {0}, NEW k \in Nat, n >= k * d
  PROVE  Round(n, d) >= k
<1> DEFINE q == (2 * n + d) \div (2 * d)
           r == (2 * n + d) % (2 * d)
<1>1. /\ q \in Int /\ r \in 0..(2 * d - 1)
      /\ 2 * n + d = (2 * d) * q + r
  <2>1. 2 * n + d \in Int /\ 2 * d \in Nat \ {0}
    OBVIOUS
  <2>2. QED
    BY <2>1
<1> HIDE DEF q, r
<1>2. ASSUME q < k PROVE FALSE
  <2>1. PICK e \in Nat \ {0} : k = q + e
    <3>1. k - q \in Nat \ {0} /\ k = q + (k - q)
      BY <1>1, <1>2
    <3>2. QED
      BY <3>1
  <2>2. k * d = q * d + e * d /\ e * d >= d
    <3>1. k * d = q * d + e * d
      BY <1>1, <2>1
    <3>2. PICK c \in Nat : e = c + 1
      <4>1. e - 1 \in Nat /\ e = (e - 1) + 1
        OBVIOUS
      <4>2. QED
        BY <4>1
    <3>3. e * d = c * d + d /\ c * d \in Nat
      BY <3>2
    <3>4. QED
      BY <3>1, <3>3
  <2>3. PICK qd \in Int : qd = q * d
    BY <1>1
  <2>4. (2 * d) * q = 2 * qd
    BY <1>1, <2>3
  <2>5. PICK ed \in Nat : ed = e * d
    OBVIOUS
  <2>6. n >= qd + ed /\ ed >= d
    BY <2>2, <2>3, <2>5
  <2>7. QED
    BY <1>1, <2>3, <2>4, <2>6
<1>3. QED
  BY <1>1, <1>2 DEF Round, q

Severities == {"critical", "high", "medium", "low", "info"}
Impacts == {"high", "medium", "low", "sentence"}

\* An insight keeps what it is made of; its priority is 97 at most, and 76 at least when
\* it is critical, says its impact in a sentence and is believed.
Graded(x, rule, severity, impact, confidence) ==
  /\ x.priority \in 0..97
  /\ x.rule = rule /\ x.severity = severity /\ x.impact = impact
  /\ severity = "critical" /\ impact = "sentence" /\ confidence >= 75 => x.priority >= 76

LEMMA PriorityBound ==
  ASSUME NEW rule, NEW severity \in Severities, NEW impact \in Impacts,
         NEW confidence \in 0..98
  PROVE  Graded(Insight(rule, severity, impact, confidence), rule, severity, impact, confidence)
<1> PICK x : x = Insight(rule, severity, impact, confidence)
  OBVIOUS
<1>1. PICK b \in {100, 80, 60, 40, 20} : b = SeverityBase[severity]
                                       /\ (severity = "critical" => b = 100)
  BY DEF SeverityBase, Severities
<1>2. PICK w \in {100, 60, 30, 40} : w = ImpactScore[impact]
                                       /\ (impact = "sentence" => w = 40)
  BY DEF ImpactScore, Impacts
<1>3. PICK n \in Nat : n = 35 * b + 25 * confidence + 25 * w + 15 * 80
  BY <1>1, <1>2
<1>4. x.priority = (2 * n + 100) \div 200
  BY <1>1, <1>2, <1>3 DEF Insight, Round
<1>5. n <= 9650 /\ (b = 100 /\ w = 40 /\ confidence >= 75 => n >= 7575)
  BY <1>1, <1>2, <1>3
<1>6. (2 * n + 100) \div 200 \in 0..97 /\ (n >= 7575 => (2 * n + 100) \div 200 >= 76)
  BY <1>3, <1>5
<1>7. QED
  BY <1>1, <1>2, <1>4, <1>5, <1>6 DEF Insight, Graded

\* What an insight is.
IsInsight(x) ==
  /\ x.rule \in 1..4 /\ x.severity \in Severities /\ x.impact \in Impacts
  /\ x.priority \in 0..97

\* The figures the rules read.
Read(s, m) ==
  /\ s.critical \in Nat /\ s.idleProducts \in Nat /\ s.idleValue \in Nat
  /\ Nullable(m.growth) /\ m.health \in 0..100

LEMMA InsightsTyped ==
  ASSUME NEW s, NEW m, Read(s, m)
  PROVE  \A x \in Insights(s, m) : IsInsight(x)
<1>1. ASSUME NEW rule \in 1..4, NEW severity \in Severities,
             NEW impact \in Impacts, NEW confidence \in 0..98
      PROVE  IsInsight(Insight(rule, severity, impact, confidence))
  <2>1. PICK x : x = Insight(rule, severity, impact, confidence)
    OBVIOUS
  <2>2. Graded(x, rule, severity, impact, confidence)
    BY <2>1, PriorityBound
  <2>3. IsInsight(x)
    BY <2>2 DEF IsInsight, Graded
  <2>4. QED
    BY <2>1, <2>3
<1>2. /\ {"critical", "high", "medium", "low", "info"} = Severities
      /\ {"high", "medium", "low", "sentence"} = Impacts
  BY DEF Severities, Impacts
<1>3. ASSUME NEW x \in GrowthPressure(s, m) PROVE IsInsight(x)
  <2>1. m.growth[1] \in Int /\ m.growth[1] >= 15
    BY <1>3 DEF GrowthPressure, Read, Nullable
  <2>2. Lesser(Round(100 + m.growth[1], 2), 95) \in 0..98
    BY <2>1 DEF Lesser, Round
  <2>3. x = Insight(1, "high", "medium", Lesser(Round(100 + m.growth[1], 2), 95))
    BY <1>3 DEF GrowthPressure
  <2>4. "high" \in Severities /\ "medium" \in Impacts /\ 1 \in 1..4
    BY <1>2
  <2>5. QED
    BY <1>1, <2>2, <2>3, <2>4
<1>4. ASSUME NEW x \in IdleCapital(s) PROVE IsInsight(x)
  <2>1. s.idleProducts \in Nat /\ s.idleProducts >= 3
    BY <1>4 DEF IdleCapital, Read
  <2>2. Lesser(Round(120 + 3 * Lesser(s.idleProducts, 20), 2), 95) \in 0..98
    <3>1. Lesser(s.idleProducts, 20) \in 0..20
      BY <2>1 DEF Lesser
    <3>2. QED
      BY <3>1 DEF Lesser, Round
  <2>3. PICK severity \in {"high", "medium", "low"} :
          x = Insight(2, severity, severity, Lesser(Round(120 + 3 * Lesser(s.idleProducts, 20), 2), 95))
    BY <1>4 DEF IdleCapital
  <2>4. severity \in Severities /\ severity \in Impacts /\ 2 \in 1..4
    BY <1>2
  <2>5. QED
    BY <1>1, <2>2, <2>3, <2>4
<1>5. ASSUME NEW x \in UrgentReplenishment(s) PROVE IsInsight(x)
  <2>1. Lesser(70 + 5 * s.critical, 98) \in 0..98
    BY DEF Read, Lesser
  <2>2. PICK severity \in {"critical", "high"} :
          x = Insight(3, severity, "sentence", Lesser(70 + 5 * s.critical, 98))
    BY <1>5 DEF UrgentReplenishment
  <2>3. severity \in Severities /\ "sentence" \in Impacts /\ 3 \in 1..4
    BY <1>2
  <2>4. QED
    BY <1>1, <2>1, <2>2, <2>3
<1>6. ASSUME NEW x \in HealthyOutlook(s, m) PROVE IsInsight(x)
  <2>1. Lesser(Round(120 + m.health, 2), 95) \in 0..98
    BY DEF Read, Lesser, Round
  <2>2. x = Insight(4, "info", "sentence", Lesser(Round(120 + m.health, 2), 95))
    BY <1>6 DEF HealthyOutlook
  <2>3. "info" \in Severities /\ "sentence" \in Impacts /\ 4 \in 1..4
    BY <1>2
  <2>4. QED
    BY <1>1, <2>1, <2>2, <2>3
<1>7. QED
  BY <1>3, <1>4, <1>5, <1>6 DEF Insights

\* The highest priority of some insights, one at least.
Highest(insights) == Max({1} \cup {y.priority : y \in insights})

LEMMA HighestIs ==
  ASSUME NEW insights, \A x \in insights : IsInsight(x)
  PROVE  Highest(insights) \in 1..97 /\ \A x \in insights : x.priority <= Highest(insights)
<1> DEFINE P == {1} \cup {y.priority : y \in insights}
           W == {97 - v : v \in P}
<1>1. P \subseteq 0..97 /\ 1 \in P
  BY DEF IsInsight
<1>2. W \subseteq Nat /\ W # {}
  BY <1>1
<1>3. PICK w \in W : \A v \in W : w <= v
  <2> HIDE DEF W
  <2>1. QED
    BY <1>2, LeastOf
<1>4. PICK top \in P : w = 97 - top
  BY <1>3
<1>5. \A v \in P : top >= v
  <2> SUFFICES ASSUME NEW v \in P PROVE top >= v
    OBVIOUS
  <2>1. 97 - top <= 97 - v
    BY <1>3, <1>4
  <2>2. QED
    BY <1>1, <2>1
<1>6. Max(P) \in P /\ \A v \in P : Max(P) >= v
  <2> HIDE DEF P
  <2>1. QED
    BY <1>5 DEF Max
<1>7. Highest(insights) = Max(P)
  BY DEF Highest
<1>8. Max(P) \in 0..97 /\ Max(P) >= 1
  BY <1>1, <1>6
<1>9. QED
  BY <1>1, <1>6, <1>7, <1>8

\* The weight of what is not the priority.
Rest(x) ==
  5 * SeverityBonus[x.severity] + 4 * ImpactBonus[x.impact]
    + 10 * (30 - ComplexityPenalty[x.rule]) + 2 * DependencyBonus[x.rule]

\* A combined score is a number; an insight of rule 3 that is critical has 60 at least,
\* whatever is ranked above it.
LEMMA CombinedIs ==
  ASSUME NEW insights, \A x \in insights : IsInsight(x), NEW x \in insights
  PROVE  /\ Combined(insights, x) \in Int
         /\ x.rule = 3 /\ x.severity = "critical" /\ x.impact = "sentence" /\ x.priority >= 76 =>
              Combined(insights, x) >= 60
<1>1. PICK h \in 1..97 : h = Highest(insights)
  BY HighestIs
<1>2. PICK p \in 0..97 : p = x.priority
  BY DEF IsInsight
<1>3. /\ SeverityBonus[x.severity] \in Nat /\ ImpactBonus[x.impact] \in Nat
      /\ ComplexityPenalty[x.rule] \in Nat /\ DependencyBonus[x.rule] \in Nat
  <2>1. IsInsight(x)
    OBVIOUS
  <2>2. x.rule \in {1, 2, 3, 4}
    BY <2>1 DEF IsInsight
  <2>3. x.severity \in {"critical", "high", "medium", "low", "info"}
    BY <2>1 DEF IsInsight, Severities
  <2>4. x.impact \in {"high", "medium", "low", "sentence"}
    BY <2>1 DEF IsInsight, Impacts
  <2>5. QED
    BY <2>2, <2>3, <2>4 DEF SeverityBonus, ImpactBonus, ComplexityPenalty, DependencyBonus
<1>4. PICK w \in Int : w = Rest(x)
  BY <1>3 DEF Rest
<1>5. Combined(insights, x) = Round(600 * p + h * w, 20 * h)
  BY <1>1, <1>2, <1>4 DEF Combined, Highest, Rest
<1>6. 600 * p + h * w \in Int /\ 20 * h \in Nat \ {0}
  <2>1. h * w \in Int
    OBVIOUS
  <2>2. QED
    BY <2>1
<1>7. Combined(insights, x) \in Int
  BY <1>5, <1>6, RoundedInt
<1>8. ASSUME x.rule = 3, x.severity = "critical", x.impact = "sentence", p >= 76
      PROVE  Combined(insights, x) >= 60
  <2>1. w = 920
    BY <1>4, <1>8 DEF Rest, SeverityBonus, ImpactBonus, ComplexityPenalty, DependencyBonus
  <2>2. 600 * p + h * w >= 60 * (20 * h)
    BY <1>8, <2>1
  <2>3. QED
    BY <1>5, <1>6, <2>2, RoundReaches
<1>9. QED
  BY <1>2, <1>7, <1>8

\* The insights of a snapshot are in one order: no two of them are alike.
LEMMA OrderOfInsights ==
  ASSUME NEW insights, \A x \in insights : IsInsight(x),
         \A x, y \in insights : x.rule = y.rule => x = y
  PROVE  /\ \A x, y \in insights : x # y => (Precedes(insights, x, y) <=> ~Precedes(insights, y, x))
         /\ \A x \in insights : ~Precedes(insights, x, x)
         /\ \A x, y, z \in insights :
              Precedes(insights, x, y) /\ Precedes(insights, y, z) => Precedes(insights, x, z)
<1>1. \A x \in insights : Combined(insights, x) \in Int /\ x.priority \in Int /\ x.rule \in Int
  BY CombinedIs DEF IsInsight
<1>2. ASSUME NEW x \in insights, NEW y \in insights, x # y
      PROVE  Precedes(insights, x, y) <=> ~Precedes(insights, y, x)
  <2>1. x.rule # y.rule
    BY <1>2
  <2>2. QED
    BY <1>1, <2>1 DEF Precedes
<1>3. ASSUME NEW x \in insights PROVE ~Precedes(insights, x, x)
  BY <1>1 DEF Precedes
<1>4. ASSUME NEW x \in insights, NEW y \in insights, NEW z \in insights,
             Precedes(insights, x, y), Precedes(insights, y, z)
      PROVE  Precedes(insights, x, z)
  BY <1>1, <1>4 DEF Precedes
<1>5. QED
  BY <1>2, <1>3, <1>4

\* Ranks are places in that order: one insight each, from 1 to their number.
LEMMA Ranked ==
  ASSUME NEW insights, IsFiniteSet(insights), \A x \in insights : IsInsight(x),
         \A x, y \in insights : x.rule = y.rule => x = y
  PROVE  /\ \A x \in insights : Rank(insights, x) \in 1..Cardinality(insights)
         /\ \A x, y \in insights : Precedes(insights, x, y) <=> Rank(insights, x) < Rank(insights, y)
         /\ {Rank(insights, x) : x \in insights} = 1..Cardinality(insights)
<1> DEFINE Above(x) == {y \in insights : Precedes(insights, y, x)}
<1>1. Cardinality(insights) \in Nat
  BY FS_CardinalityType
<1>2. ASSUME NEW x \in insights
      PROVE  /\ IsFiniteSet(Above(x)) /\ Cardinality(Above(x)) \in Nat
             /\ Rank(insights, x) = 1 + Cardinality(Above(x))
  <2>1. IsFiniteSet(Above(x))
    BY FS_Subset
  <2>2. Cardinality(Above(x)) \in Nat
    BY <2>1, FS_CardinalityType
  <2>3. QED
    BY <2>1, <2>2 DEF Rank
<1>3. ASSUME NEW x \in insights PROVE Rank(insights, x) \in 1..Cardinality(insights)
  <2>1. Above(x) \in SUBSET (insights \ {x})
    BY OrderOfInsights
  <2>2. IsFiniteSet(insights \ {x}) /\ Cardinality(insights \ {x}) = Cardinality(insights) - 1
    BY FS_RemoveElement
  <2>3. Cardinality(Above(x)) <= Cardinality(insights \ {x})
    BY <2>1, <2>2, FS_Subset
  <2> HIDE DEF Above
  <2>4. QED
    BY <1>1, <1>2, <2>2, <2>3
<1>4. ASSUME NEW x \in insights, NEW y \in insights, Precedes(insights, x, y)
      PROVE  Rank(insights, x) < Rank(insights, y)
  <2>1. Above(x) \in SUBSET Above(y)
    BY <1>4, OrderOfInsights
  <2>2. x \in Above(y) /\ x \notin Above(x)
    BY <1>4, OrderOfInsights
  <2> HIDE DEF Above
  <2>3. /\ Cardinality(Above(x)) <= Cardinality(Above(y))
        /\ Cardinality(Above(y)) = Cardinality(Above(x)) => Above(y) = Above(x)
    BY <1>2, <2>1, FS_Subset
  <2>4. QED
    BY <1>2, <2>2, <2>3
<1>5. ASSUME NEW x \in insights, NEW y \in insights, Rank(insights, x) < Rank(insights, y)
      PROVE  Precedes(insights, x, y)
  <2>1. Rank(insights, x) \in Int /\ Rank(insights, y) \in Int
    BY <1>1, <1>3
  <2>2. x # y /\ ~Precedes(insights, y, x)
    BY <1>4, <1>5, <2>1
  <2>3. QED
    BY <2>2, OrderOfInsights
<1> DEFINE R == [x \in insights |-> Rank(insights, x)]
<1>6. R \in Injection(insights, 1..Cardinality(insights))
  <2>1. R \in [insights -> 1..Cardinality(insights)]
    BY <1>3
  <2>2. ASSUME NEW x \in insights, NEW y \in insights, R[x] = R[y] PROVE x = y
    <3>1. Rank(insights, x) = Rank(insights, y) /\ Rank(insights, x) \in Int
      BY <1>1, <1>3, <2>2
    <3>2. ~Precedes(insights, x, y) /\ ~Precedes(insights, y, x)
      BY <1>4, <3>1
    <3>3. QED
      BY <3>2, OrderOfInsights
  <2> HIDE DEF R
  <2>3. QED
    BY <2>1, <2>2 DEF Injection, IsInjective
<1>7. R \in Surjection(insights, 1..Cardinality(insights))
  <2>1. IsFiniteSet(1..Cardinality(insights))
          /\ Cardinality(1..Cardinality(insights)) = Cardinality(insights)
    BY <1>1, FS_Interval
  <2> HIDE DEF R
  <2>2. QED
    BY <1>6, <2>1, FS_Injection
<1>8. \A n \in 1..Cardinality(insights) : \E x \in insights : Rank(insights, x) = n
  BY <1>7 DEF Surjection
<1>9. {Rank(insights, x) : x \in insights} = 1..Cardinality(insights)
  BY <1>3, <1>8
<1>10. QED
  BY <1>3, <1>4, <1>5, <1>9

\* A greater score is never less urgent.
LEMMA MoreUrgent ==
  ASSUME NEW a \in Int, NEW b \in Int, a >= b
  PROVE  Urgent[When(a)] >= Urgent[When(b)] /\ (a >= 60 => When(a) \in {"immediate", "today"})
<1>1. \A n \in Int : /\ n >= 80 => When(n) = "immediate"
                     /\ n >= 60 /\ n < 80 => When(n) = "today"
                     /\ n >= 40 /\ n < 60 => When(n) = "this_week"
                     /\ n < 40 => When(n) = "monitor"
  BY DEF When
<1>2. /\ Urgent["immediate"] = 4 /\ Urgent["today"] = 3
      /\ Urgent["this_week"] = 2 /\ Urgent["monitor"] = 1
  BY DEF Urgent
<1>3. QED
  BY <1>1, <1>2

\* A critical product of which anything is to be bought is bought at once.
LEMMA CriticalBought ==
  ASSUME TypeOK, CriticalIff, NEW i \in Critical, Suggested(i) > 0
  PROVE  i \in Recommended /\ Urgency(i) = "immediate" /\ RiskLevel(i) = "critical"
<1>1. i \in Item /\ stock[i].active /\ Available(i) <= 0 /\ Products[i].daily > 0
  BY DEF CriticalIff
<1>2. Status(i) = "out_of_stock"
  BY <1>1, OutOfStock
<1>3. CoversAtMost(i, Products[i].lead)
  <2>1. /\ Products[i].daily \in Nat /\ Products[i].lead \in Nat /\ Available(i) \in Int
        /\ Products[i].daily * Products[i].lead \in Nat
    BY <1>1, Numbers
  <2>2. Products[i].lead * Products[i].daily \in Nat
    BY <2>1
  <2>3. QED
    BY <1>1, <2>1, <2>2 DEF CoversAtMost, Covered
<1>4. QED
  BY <1>1, <1>2, <1>3 DEF Recommended, Urgency, RiskLevel

\* What the analysis calls critical reaches every engine: the advice for the
\* inventory, the purchases, and the briefing, where it is for today at the latest
\* from ManyCritical products on; ranks are one each and follow urgencies.
THEOREM BriefingIsTold == Spec => []BriefingTells
<1>1. ASSUME TypeOK, CriticalIff PROVE BriefingTells
  <2>1. PICK s : s = Summary
    OBVIOUS
  <2>2. PICK told : told = Insights(s, market)
    OBVIOUS
  <2>3. /\ s.critical = Cardinality(Critical) /\ s.critical \in Nat
        /\ s.idleProducts = Cardinality(Stagnant) /\ s.idleProducts \in Nat
        /\ s.idleValue \in Nat /\ (s.idleValue > 0 => s.idleProducts > 0)
    <3>1. s.critical = Cardinality(Critical) /\ s.idleProducts = Cardinality(Stagnant)
      BY <2>1 DEF Summary
    <3>2. Critical \in SUBSET Item /\ Stagnant \in SUBSET Item
      BY DEF Critical, Stagnant, Of
    <3>3. QED
      BY <1>1, <2>1, <3>1, <3>2, CountsProducts, IdleNumber
  <2>4. Read(s, market)
    <3>1. market \in Market
      BY <1>1 DEF TypeOK
    <3>2. Nullable(market.growth) /\ market.health \in 0..100
      BY <3>1, DecisionsAssumption
    <3>3. QED
      BY <2>3, <3>2 DEF Read
  <2>5. \A x \in told : IsInsight(x)
    BY <2>2, <2>4, InsightsTyped
  <2>6. IsFiniteSet(told) /\ \A x, y \in told : x.rule = y.rule => x = y
    BY <2>2, InsightsCounted
  <2>7. s.critical > 0 => "replenish" \in StockAdvice(s)
    BY DEF StockAdvice
  <2>8. s.idleValue > 0 =>
          "free capital" \in StockAdvice(s) /\ StockInsights(s).idle = "review and free capital"
    BY <2>3 DEF StockAdvice, StockInsights
  <2>9. \A i \in Critical : Suggested(i) > 0 =>
          i \in Recommended /\ Urgency(i) = "immediate" /\ RiskLevel(i) = "critical"
    BY <1>1, CriticalBought
  <2>10. ASSUME s.critical >= CriticalMinimum
         PROVE  \E x \in told : /\ x.rule = 3
                                /\ s.critical >= ManyCritical =>
                                     Priority(told, x).urgency \in {"immediate", "today"}
    <3>1. s.critical >= 1
      BY <2>3, <2>10, DecisionsAssumption
    <3>2. PICK confidence \in 75..98 : confidence = Lesser(70 + 5 * s.critical, 98)
      BY <2>3, <3>1 DEF Lesser
    <3>3. PICK severity \in {"critical", "high"} :
            severity = IF s.critical >= ManyCritical THEN "critical" ELSE "high"
      OBVIOUS
    <3>4. PICK x : x = Insight(3, severity, "sentence", confidence)
      OBVIOUS
    <3>5. x \in told
      BY <2>2, <2>10, <3>2, <3>3, <3>4 DEF Insights, UrgentReplenishment
    <3>6. /\ x.rule = 3 /\ x.severity = severity /\ x.impact = "sentence"
          /\ severity = "critical" => x.priority >= 76
      <4>1. /\ severity \in Severities /\ "sentence" \in Impacts
            /\ confidence \in 0..98 /\ confidence >= 75
        BY <3>2 DEF Severities, Impacts
      <4>2. Graded(x, 3, severity, "sentence", confidence)
        BY <3>4, <4>1, PriorityBound
      <4>3. QED
        BY <4>1, <4>2 DEF Graded
    <3>7. s.critical >= ManyCritical => Combined(told, x) >= 60 /\ Combined(told, x) \in Int
      BY <2>5, <3>3, <3>5, <3>6, CombinedIs
    <3>8. Priority(told, x).urgency = When(Combined(told, x))
      BY DEF Priority
    <3>9. QED
      BY <3>5, <3>6, <3>7, <3>8, MoreUrgent
  <2>11. \A x \in told : /\ Priority(told, x).rank = Rank(told, x)
                         /\ Priority(told, x).urgency = When(Combined(told, x))
    BY DEF Priority
  <2>12. {Priority(told, x).rank : x \in told} = 1..Cardinality(told)
    BY <2>5, <2>6, <2>11, Ranked
  <2>13. ASSUME NEW x \in told, NEW y \in told, Priority(told, x).rank < Priority(told, y).rank
         PROVE  Urgent[Priority(told, x).urgency] >= Urgent[Priority(told, y).urgency]
    <3>1. Precedes(told, x, y)
      BY <2>5, <2>6, <2>11, <2>13, Ranked
    <3>2. Combined(told, x) \in Int /\ Combined(told, y) \in Int
      BY <2>5, CombinedIs
    <3>3. Combined(told, x) >= Combined(told, y)
      BY <3>1, <3>2 DEF Precedes
    <3>4. QED
      BY <2>11, <3>2, <3>3, MoreUrgent
  <2>14. QED
    BY <2>1, <2>2, <2>7, <2>8, <2>9, <2>10, <2>12, <2>13 DEF BriefingTells
<1>2. QED
  BY <1>1, TypeCorrect, CriticalMeans, PTL

-------------------------------------------------------------------------------
(* The engines *)

\* A product that is critical is out of stock and of the curve A.
LEMMA CriticalIsOut ==
  ASSUME TypeOK, CriticalIff, NEW i \in Critical
  PROVE  i \in Item /\ Available(i) <= 0 /\ Available(i) \in Int
         /\ Status(i) = "out_of_stock" /\ Abc[i] = "A"
<1>1. i \in Item /\ stock[i].active /\ Available(i) <= 0 /\ Abc[i] = "A"
  BY DEF CriticalIff
<1>2. Available(i) \in Int
  BY <1>1, Numbers
<1>3. Status(i) = "out_of_stock"
  BY <1>1, OutOfStock
<1>4. QED
  BY <1>1, <1>2, <1>3

\* What finance would reduce lasts more than sixty days, and is there.
LEMMA ReducedLasts ==
  ASSUME TypeOK, NEW i \in Item, FinancialAdvice(i) = "reduce_inventory"
  PROVE  Available(i) > 60 * Products[i].daily /\ Available(i) > 0
<1>1. PICK a \in Int : a = Available(i)
  BY Numbers
<1>2. PICK d \in Nat : d = Products[i].daily
  BY Numbers
<1>3. PICK c \in Nat : c = Products[i].cost
  BY DecisionsAssumption
<1>4. IdleAbove(i, 40) \/ CoversAbove(i, 120)
  BY DEF FinancialAdvice
<1>5. CASE CoversAbove(i, 120)
  BY <1>1, <1>2, <1>5 DEF CoversAbove
<1>6. CASE IdleAbove(i, 40)
  <2>1. PICK v \in Int : v = a * c
    BY <1>1, <1>3
  <2>2. v > 0 /\ 100 * IdleCost(i) > 40 * v
    BY <1>1, <1>3, <1>6, <2>1 DEF IdleAbove
  <2>3. IdleCost(i) # 0
    BY <2>1, <2>2
  <2>4. QED
    BY <1>1, <1>2, <2>3 DEF IdleCost, CoversAbove
<1>7. QED
  BY <1>4, <1>5, <1>6

\* The return on the stock of a product that costs something is a number.
LEMMA RoiNumber ==
  ASSUME TypeOK, NEW i \in Financed
  PROVE  Roi(i) \in Int
<1>1. i \in Item
  BY DEF Financed
<1>2. PICK c \in Nat \ {0} : c = Products[i].cost
  BY <1>1, DecisionsAssumption DEF Financed
<1>3. PICK a \in Int : a = Available(i)
  BY <1>1, Numbers
<1>4. PICK units \in Nat \ {0} : units = IF Available(i) > 0 THEN (Available(i) + 29) \div 30 ELSE 1
  <2>1. CASE a > 0
    <3>1. (a + 29) \div 30 \in Nat \ {0}
      BY <2>1
    <3>2. QED
      BY <1>3, <2>1, <3>1
  <2>2. CASE ~(a > 0)
    BY <1>3, <2>2
  <2>3. QED
    BY <2>1, <2>2
<1>5. PICK cost \in Nat \ {0} : cost = Products[i].cost * units
  <2>1. c * units \in Nat /\ c * units # 0
    OBVIOUS
  <2>2. QED
    BY <1>2, <2>1
<1>6. RevenueOf(i) \in Int
  BY <1>1, PerformanceAssumption DEF RevenueOf
<1>7. 100 * (RevenueOf(i) - cost) \in Int
  BY <1>6
<1>8. Roi(i) = Round(100 * (RevenueOf(i) - cost), cost)
  BY <1>4, <1>5 DEF Roi
<1>9. QED
  BY <1>7, <1>8, RoundedInt

\* The first in the list of sales has the highest priority there is.
LEMMA FirstOpportunity ==
  ASSUME NEW i \in Analysed, \A j \in Analysed \ {i} : Before(i, j)
  PROVE  HighOpportunities # {} <=> OpportunityPriority(i) \in {"critical", "high"}
<1>1. ASSUME NEW j \in Analysed
      PROVE  /\ Confidence(j) \in 5..10
             /\ OpportunityPriority(j) \in {"critical", "high", "medium", "low"}
  BY DEF Confidence, OpportunityPriority
<1>2. ASSUME NEW j \in Analysed, Before(i, j), OpportunityPriority(j) \in {"critical", "high"}
      PROVE  OpportunityPriority(i) \in {"critical", "high"}
  <2>1. PICK a \in 5..10 : a = Confidence(i)
    BY <1>1
  <2>2. PICK b \in 5..10 : b = Confidence(j)
    BY <1>1
  <2>3. PICK p : p = OpportunityPriority(i) /\ p \in {"critical", "high", "medium", "low"}
    BY <1>1
  <2>4. PICK q : q = OpportunityPriority(j) /\ q \in {"critical", "high"}
    BY <1>2
  <2>5. 100 * Standing[p] + a >= 100 * Standing[q] + b
    BY <1>2, <2>1, <2>2, <2>3, <2>4 DEF Before, Standing
  <2>6. QED
    BY <2>3, <2>4, <2>5 DEF Standing
<1>3. QED
  BY <1>2 DEF HighOpportunities

\* And the first in the list of finance the greatest risk.
LEMMA FirstRisk ==
  ASSUME NEW i \in Financed, \A j \in Financed \ {i} : WorseThan(i, j)
  PROVE  HighRisk # {} <=> FinancialRisk(i) \in {"critical", "high"}
<1>1. \A j \in Financed : FinancialRisk(j) \in {"critical", "high", "medium", "low"}
  BY DEF FinancialRisk
<1>2. ASSUME NEW j \in Financed, WorseThan(i, j), FinancialRisk(j) \in {"critical", "high"}
      PROVE  FinancialRisk(i) \in {"critical", "high"}
  <2>1. PICK p : p = FinancialRisk(i) /\ p \in {"critical", "high", "medium", "low"}
    BY <1>1
  <2>2. PICK q : q = FinancialRisk(j) /\ q \in {"critical", "high"}
    BY <1>2
  <2>3. Standing[p] >= Standing[q]
    BY <1>2, <2>1, <2>2 DEF WorseThan, Standing
  <2>4. QED
    BY <2>1, <2>2, <2>3 DEF Standing
<1>3. QED
  BY <1>2 DEF HighRisk

\* What the copilot ranks: a subject is there exactly when there is something of it.
LEMMA PrioritiesTell ==
  /\ "replenish" \in Priorities <=> Summary.critical > 0
  /\ "urgent-purchases" \in Priorities <=> UrgentPurchases # {}
  /\ "financial-risk" \in Priorities <=> HighRisk # {}
  /\ UrgentPurchases # {} => "purchase" \in Actions
<1>1. "replenish" \in Priorities <=> Summary.critical > 0
  BY DEF Priorities
<1>2. "urgent-purchases" \in Priorities <=> UrgentPurchases # {}
  BY DEF Priorities
<1>3. "financial-risk" \in Priorities <=> HighRisk # {}
  BY DEF Priorities
<1>4. UrgentPurchases # {} => "purchase" \in Actions
  BY DEF Actions
<1>5. QED
  BY <1>1, <1>2, <1>3, <1>4

\* A critical product is observed, listed, asked for and bought.
LEMMA CriticalReaches ==
  ASSUME TypeOK, CriticalIff, Critical # {}
  PROVE  /\ {"immediate", "curveA"} \subseteq DOMAIN Observations
         /\ Observations.immediate = Critical /\ Critical \subseteq Observations.curveA
         /\ Critical \subseteq Listed.critical \cap Listed.risk
         /\ "replenish" \in Copilot.topPriorities
         /\ (\E i \in Critical : Suggested(i) > 0) =>
              "urgent-purchases" \in Copilot.topPriorities /\ "purchase" \in Copilot.recommendedActions
<1>1. \A i \in Critical : i \in Item /\ Status(i) = "out_of_stock" /\ Abc[i] = "A"
  BY CriticalIsOut
<1>2. PICK idle : idle = IF Summary.idleValue > 0 THEN Stagnant ELSE {}
  OBVIOUS
<1>3. PICK first : first = {i \in AtRisk : Abc[i] = "A"}
  OBVIOUS
<1>4. PICK observed : observed = [curveA |-> first, slow |-> Of({"slow_moving"}),
                                  excess |-> Of({"overstock"}), immediate |-> Of({"out_of_stock"}) \cap Critical,
                                  idle |-> idle]
  OBVIOUS
<1>5. Observations = [o \in {x \in DOMAIN observed : observed[x] # {}} |-> observed[o]]
  BY <1>2, <1>3, <1>4 DEF Observations
<1>6. Critical \subseteq first
  BY <1>1, <1>3 DEF AtRisk, Of
<1>7. Of({"out_of_stock"}) \cap Critical = Critical
  BY <1>1 DEF Of
<1>8. /\ "curveA" \in DOMAIN observed /\ "immediate" \in DOMAIN observed
      /\ observed["curveA"] = first /\ observed["immediate"] = Critical
  BY <1>4, <1>7
<1>9. /\ {"immediate", "curveA"} \subseteq DOMAIN Observations
      /\ Observations["immediate"] = Critical /\ Observations["curveA"] = first
  BY <1>5, <1>6, <1>8
<1>10. Critical \subseteq Listed.critical
  BY DEF Critical, Listed
<1>11. Critical \subseteq Listed.risk
  BY <1>1 DEF Of, Listed
<1>12. "replenish" \in Priorities
  <2>1. Critical \in SUBSET Item
    BY <1>1
  <2>2. Cardinality(Critical) > 0
    BY <2>1, CountsProducts
  <2>3. QED
    BY <2>2, PrioritiesTell DEF Summary
<1>13. ASSUME NEW i \in Critical, Suggested(i) > 0
       PROVE  "urgent-purchases" \in Priorities /\ "purchase" \in Actions
  <2>1. i \in UrgentPurchases
    BY <1>13, CriticalBought DEF UrgentPurchases
  <2>2. QED
    BY <2>1, PrioritiesTell
<1>14. Copilot.topPriorities = Priorities /\ Copilot.recommendedActions = Actions
  BY DEF Copilot
<1>15. QED
  BY <1>6, <1>9, <1>10, <1>11, <1>12, <1>13, <1>14

\* A product told normal is healthy, and nothing is bought of it.
LEMMA NormalIsHealthy ==
  ASSUME NEW i \in Item, Reasons(i, Abc[i]) = {"normal"}
  PROVE  i \in Listed.healthy \ Recommended
<1>1. /\ Status(i) # "inactive"
      /\ Status(i) \in {"out_of_stock", "stockout_risk", "low_stock", "slow_moving", "overstock", "healthy"}
  <2>1. Status(i) \in {"inactive", "out_of_stock", "stockout_risk", "low_stock", "slow_moving",
                       "overstock", "healthy"}
    BY DEF Status
  <2>2. Status(i) # "inactive"
    BY DEF Reasons
  <2>3. QED
    BY <2>1, <2>2
<1>2. Abc[i] # "normal"
  BY DEF Abc, Curve
<1>3. Status(i) = "healthy" /\ ~(Suggested(i) > 0)
  <2>1. ASSUME Status(i) # "healthy" PROVE Status(i) \in Reasons(i, Abc[i])
    BY <1>1, <2>1 DEF Reasons
  <2>2. ASSUME Suggested(i) > 0 PROVE "purchase" \in Reasons(i, Abc[i])
    BY <1>1, <2>2 DEF Reasons
  <2>3. QED
    BY <1>1, <2>1, <2>2
<1>4. QED
  BY <1>3 DEF Listed, Of, Recommended

\* The engines agree: of no product finance and the analysis of the stock ask for
\* opposite things, a critical product reaches the decision centre and the copilot, and
\* what the copilot speaks of is what is first in the lists behind it.
THEOREM EnginesAreAgreed == Spec => []EnginesAgree
<1>1. ASSUME TypeOK, CriticalIff PROVE EnginesAgree
  <2>1. ASSUME NEW i \in Analysed \cap Financed, FinancialAdvice(i) = "reduce_inventory"
        PROVE  OpportunityType(i) # "replenish_stock" /\ i \notin Critical
    <3>1. i \in Item
      BY DEF Analysed
    <3>2. Available(i) > 60 * Products[i].daily /\ Available(i) > 0
      BY <1>1, <2>1, <3>1, ReducedLasts
    <3>3. Available(i) \in Int /\ Products[i].daily \in Nat
      BY <1>1, <3>1, Numbers
    <3>4. ~CoversAtMost(i, 15)
      BY <3>2, <3>3 DEF CoversAtMost
    <3>5. OpportunityType(i) # "replenish_stock"
      BY <3>4 DEF OpportunityType
    <3>6. QED
      BY <1>1, <3>2, <3>3, <3>5, CriticalIsOut
  <2>2. ASSUME NEW i \in Critical PROVE {"out_of_stock", "A"} \subseteq Reasons(i, Abc[i])
    <3>1. Status(i) = "out_of_stock" /\ Abc[i] = "A"
      BY <1>1, CriticalIsOut
    <3>2. QED
      BY <3>1 DEF Reasons
  <2>3. ASSUME NEW i \in Analysed, OpportunityType(i) = "increase_ads"
        PROVE  StockAvailability(i) > 0 /\ i \notin Critical
    <3>1. i \in Item
      BY DEF Analysed
    <3>2. Available(i) \in Int
      BY <1>1, <3>1, Numbers
    <3>3. Available(i) > 0
      BY <2>3 DEF OpportunityType
    <3>4. StockAvailability(i) > 0
      BY <3>2, <3>3 DEF StockAvailability
    <3>5. QED
      BY <1>1, <3>2, <3>3, <3>4, CriticalIsOut
  <2>4. ASSUME NEW i \in Analysed, \A j \in Analysed \ {i} : Before(i, j)
        PROVE  Copilot.opportunities > 0 <=> Opportunity(i).priority \in {"critical", "high"}
    <3>1. Copilot.opportunities = Cardinality(HighOpportunities)
      BY DEF Copilot, SalesSummary
    <3>2. HighOpportunities \in SUBSET Item
      BY DEF HighOpportunities, Analysed
    <3>3. Cardinality(HighOpportunities) > 0 <=> HighOpportunities # {}
      BY <3>2, CountsProducts
    <3>4. Opportunity(i).priority = OpportunityPriority(i)
      BY DEF Opportunity
    <3>5. HighOpportunities # {} <=> OpportunityPriority(i) \in {"critical", "high"}
      BY <2>4, FirstOpportunity
    <3>6. QED
      BY <3>1, <3>3, <3>4, <3>5
  <2>5. ASSUME NEW i \in Financed, \A j \in Financed \ {i} : WorseThan(i, j)
        PROVE  "financial-risk" \in Copilot.topPriorities <=> FinancialRisk(i) \in {"critical", "high"}
    <3>1. Copilot.topPriorities = Priorities
      BY DEF Copilot
    <3>2. HighRisk # {} <=> FinancialRisk(i) \in {"critical", "high"}
      BY <2>5, FirstRisk
    <3>3. QED
      BY <3>1, <3>2, PrioritiesTell
  <2>6. ASSUME NEW i \in Financed, FinancialRisk(i) = "critical"
        PROVE  FinancialPriority(i) = 40 /\ FinancialAdvice(i) # "increase_investment"
    <3>1. Roi(i) \in Int
      BY <1>1, RoiNumber
    <3>2. Roi(i) <= 0
      BY <2>6 DEF FinancialRisk
    <3>3. FinancialPriority(i) = 40
      BY <2>6, <3>2 DEF FinancialPriority, Standing
    <3>4. QED
      BY <3>1, <3>2, <3>3 DEF FinancialAdvice
  <2>7. Critical # {} =>
          /\ {"immediate", "curveA"} \subseteq DOMAIN Observations
          /\ Observations.immediate = Critical /\ Critical \subseteq Observations.curveA
          /\ Critical \subseteq Listed.critical \cap Listed.risk
          /\ "replenish" \in Copilot.topPriorities
          /\ (\E i \in Critical : Suggested(i) > 0) =>
               "urgent-purchases" \in Copilot.topPriorities /\ "purchase" \in Copilot.recommendedActions
    BY <1>1, CriticalReaches
  <2>8. \A i \in Item : Reasons(i, Abc[i]) = {"normal"} => i \in Listed.healthy \ Recommended
    BY NormalIsHealthy
  <2> SUFFICES ASSUME NEW critical \in {Critical}, NEW abc \in {Abc},
                      NEW observations \in {Observations}, NEW listed \in {Listed},
                      NEW copilot \in {Copilot}
               PROVE  EnginesAgree!(critical, abc, observations, listed, copilot)
    BY DEF EnginesAgree
  <2>9. /\ critical = Critical /\ abc = Abc /\ observations = Observations
        /\ listed = Listed /\ copilot = Copilot
    OBVIOUS
  <2>10. /\ \A i \in Analysed \cap Financed :
              FinancialAdvice(i) = "reduce_inventory" =>
                OpportunityType(i) # "replenish_stock" /\ i \notin critical
         /\ \A i \in critical : {"out_of_stock", "A"} \subseteq Reasons(i, abc[i])
         /\ \A i \in Item : Reasons(i, abc[i]) = {"normal"} => i \in listed.healthy \ Recommended
    BY <2>1, <2>2, <2>8, <2>9
  <2>11. critical # {} =>
           /\ {"immediate", "curveA"} \subseteq DOMAIN observations
           /\ observations.immediate = critical /\ critical \subseteq observations.curveA
           /\ critical \subseteq listed.critical \cap listed.risk
           /\ "replenish" \in copilot.topPriorities
           /\ (\E i \in critical : Suggested(i) > 0) =>
                "urgent-purchases" \in copilot.topPriorities /\ "purchase" \in copilot.recommendedActions
    BY <2>7, <2>9
  <2>12. /\ \A i \in Analysed : OpportunityType(i) = "increase_ads" =>
              StockAvailability(i) > 0 /\ i \notin critical
         /\ \A i \in Analysed : (\A j \in Analysed \ {i} : Before(i, j)) =>
              (copilot.opportunities > 0 <=> Opportunity(i).priority \in {"critical", "high"})
         /\ \A i \in Financed : (\A j \in Financed \ {i} : WorseThan(i, j)) =>
              ("financial-risk" \in copilot.topPriorities <=> FinancialRisk(i) \in {"critical", "high"})
         /\ \A i \in Financed : FinancialRisk(i) = "critical" =>
              FinancialPriority(i) = 40 /\ FinancialAdvice(i) # "increase_investment"
    BY <2>3, <2>4, <2>5, <2>6, <2>9
  <2>13. QED
    BY <2>10, <2>11, <2>12
<1>2. QED
  BY <1>1, TypeCorrect, CriticalMeans, PTL
===============================================================================
