---------------------------- MODULE RouterProofs ----------------------------
(***************************************************************************)
(* Router for every set of envelopes and offers and any number of          *)
(* consumers: the walk asks everyone who qualifies, best first; the best   *)
(* of the willing wins; and what the weights learn from a route keeps them *)
(* in range and never turns that route's own outcome.                      *)
(*                                                                         *)
(* Sums and ranks are defined by recursion and by counting.  What is known *)
(* of them for every length is shown from a least counterexample.          *)
(***************************************************************************)
EXTENDS Router, Functions, FiniteSetTheorems, SequenceTheorems, TLAPS

\* Among natural numbers there is a least one.
LEMMA Least ==
  ASSUME NEW T \in SUBSET Nat, T # {}
  PROVE  \E x \in T : \A y \in T : x <= y
<1> DEFINE R == {ss \in Nat \X Nat : ss[1] < ss[2]}
<1>1. IsWellFoundedOn(R, Nat)
  BY NatLessThanWellFounded DEF OpToRel
<1>2. \E x \in T : \A y \in T : <<y, x>> \notin R
  <2> HIDE DEF R
  <2>. QED BY <1>1, WFMin
<1>3. \A x, y \in Nat : <<y, x>> \notin R => x <= y
  OBVIOUS
<1> HIDE DEF R
<1>. QED BY <1>2, <1>3

-----------------------------------------------------------------------------
(* Scores                                                                   *)

\* What the sum of a consumer's weights is, dimension by dimension.
Sums(f, slots, e) == /\ f \in [0..Len(slots) -> Int] /\ f[0] = 0
                     /\ \A n \in 1..Len(slots) : f[n] = f[n - 1] + Earned(slots[n], e)

\* There are such sums, and the total is the last of them.
LEMMA TotalIsSum ==
  ASSUME NEW slots, NEW e, Len(slots) \in Nat,
         \A n \in 1..Len(slots) : Earned(slots[n], e) \in Int
  PROVE  \E f : Sums(f, slots, e) /\ Total(slots, e) = f[Len(slots)]
<1> DEFINE L == Len(slots)
           v == [n \in 1..L |-> Earned(slots[n], e)]
           Upto(f, n) == /\ f \in [0..n -> Int] /\ f[0] = 0
                         /\ \A i \in 1..n : f[i] = f[i - 1] + v[i]
           T == {n \in 0..L : ~\E f : Upto(f, n)}
<1>0. L \in Nat /\ v \in [1..L -> Int]
  OBVIOUS
<1>1. ASSUME T # {} PROVE FALSE
  <2>1. PICK n \in T : \A m \in T : n <= m
    <3>1. T \in SUBSET Nat BY <1>0
    <3> HIDE DEF T
    <3>. QED BY <1>1, <3>1, Least
  <2>2. n \in 0..L /\ ~\E f : Upto(f, n) OBVIOUS
  <2>3. n # 0
    <3>1. Upto([i \in {0} |-> 0], 0) BY <1>0
    <3>. QED BY <2>2, <3>1
  <2>4. n - 1 \in 0..L /\ n - 1 \notin T
    <3>1. n \in Nat /\ n - 1 \in 0..L /\ ~(n <= n - 1) BY <1>0, <2>2, <2>3
    <3> HIDE DEF T
    <3>. QED BY <2>1, <3>1
  <2>5. PICK f : Upto(f, n - 1) BY <2>4
  <2> DEFINE g == [i \in 0..n |-> IF i = n THEN f[n - 1] + v[n] ELSE f[i]]
  <2> HIDE DEF v
  <2>6. Upto(g, n)
    <3>1. f[n - 1] \in Int /\ v[n] \in Int
      <4>1. n - 1 \in 0..n - 1 /\ n \in 1..L BY <1>0, <2>2, <2>3
      <4>2. f \in [0..n - 1 -> Int] BY <2>5
      <4> HIDE DEF L, Upto, T, g
      <4>. QED BY <1>0, <4>1, <4>2
    <3>2. g \in [0..n -> Int] BY <2>2, <2>3, <2>5, <3>1
    <3>3. g[0] = 0 BY <2>2, <2>3, <2>5
    <3>4. ASSUME NEW i \in 1..n PROVE g[i] = g[i - 1] + v[i]
      BY <2>2, <2>3, <2>5, <3>4
    <3>. QED BY <3>2, <3>3, <3>4
  <2>. QED BY <2>2, <2>6
<1>2. PICK f : Upto(f, L)
  <2>1. L \in 0..L BY <1>0
  <2>. QED BY <1>1, <2>1
<1> DEFINE Is(h) == h = [n \in 0..L |-> IF n = 0 THEN 0 ELSE h[n - 1] + Earned(slots[n], e)]
           sum == CHOOSE h : Is(h)
<1>3. Is(f)
  <2>1. \A n \in 0..L : f[n] = IF n = 0 THEN 0 ELSE f[n - 1] + Earned(slots[n], e)
    BY <1>0, <1>2
  <2>2. f = [n \in 0..L |-> f[n]] BY <1>2
  <2>. QED BY <2>1, <2>2
<1>4. Is(sum)
  <2> HIDE DEF Is
  <2>. QED BY <1>3
<1>5. /\ DOMAIN sum = 0..L /\ sum[0] = 0
      /\ \A n \in 1..L : sum[n] = sum[n - 1] + Earned(slots[n], e)
  <2> HIDE DEF sum
  <2>. QED BY <1>0, <1>4
<1>6. Total(slots, e) = sum[L]
  BY DEF Total
<1> HIDE DEF sum
<1>7. \A n \in 0..L : sum[n] \in Int
  <2> DEFINE U == {n \in 0..L : sum[n] \notin Int}
  <2>1. ASSUME U # {} PROVE FALSE
    <3>1. PICK n \in U : \A m \in U : n <= m
      <4>1. U \in SUBSET Nat BY <1>0
      <4> HIDE DEF U
      <4>. QED BY <2>1, <4>1, Least
    <3>2. n # 0 BY <1>5
    <3>3. n - 1 \in 0..L /\ n - 1 \notin U BY <1>0, <3>1, <3>2
    <3>. QED BY <1>0, <1>5, <3>1, <3>2, <3>3
  <2>. QED BY <2>1
<1>8. sum \in [0..L -> Int]
  <2>1. sum = [n \in 0..L |-> sum[n]] BY <1>4
  <2>. QED BY <1>7, <2>1
<1>. QED BY <1>5, <1>6, <1>8 DEF Sums

\* Of two sums, one that starts no lower and rises no slower ends no lower.
LEMMA Climb ==
  ASSUME NEW L \in Nat, NEW f \in [0..L -> Int], NEW g \in [0..L -> Int], f[0] <= g[0],
         \A n \in 1..L : f[n] - f[n - 1] <= g[n] - g[n - 1]
  PROVE  f[L] <= g[L]
<1> DEFINE T == {n \in 0..L : f[n] > g[n]}
<1>1. ASSUME T # {} PROVE FALSE
  <2>1. PICK n \in T : \A m \in T : n <= m
    <3>1. T \in SUBSET Nat OBVIOUS
    <3> HIDE DEF T
    <3>. QED BY <1>1, <3>1, Least
  <2>2. n \in 1..L /\ f[n] > g[n]
    <3>1. n \in 0..L /\ f[n] > g[n] OBVIOUS
    <3>2. f[0] \in Int /\ g[0] \in Int OBVIOUS
    <3>3. n # 0 BY <3>1, <3>2
    <3>. QED BY <3>1, <3>3
  <2>3. n - 1 \in 0..L /\ n - 1 \notin T
    <3>1. n \in Nat /\ n - 1 \in 0..L /\ ~(n <= n - 1) BY <2>2
    <3> HIDE DEF T
    <3>. QED BY <2>1, <3>1
  <2>4. ~(f[n - 1] > g[n - 1]) BY <2>3
  <2>5. f[n - 1] \in Int /\ g[n - 1] \in Int /\ f[n] \in Int /\ g[n] \in Int BY <2>2, <2>3
  <2>. QED BY <2>2, <2>4, <2>5
<1>2. L \in 0..L /\ f[L] \in Int /\ g[L] \in Int OBVIOUS
<1>3. ~(f[L] > g[L])
  <2>1. L \notin T
    <3> HIDE DEF T
    <3>. QED BY <1>1
  <2>. QED BY <1>2, <2>1
<1> HIDE DEF T
<1>. QED BY <1>2, <1>3

\* A consumer each of whose dimensions earns as much or more scores as much or more.
LEMMA TotalMonotone ==
  ASSUME NEW s, NEW t, NEW e, Len(s) \in Nat, Len(t) = Len(s),
         \A n \in 1..Len(s) : /\ Earned(s[n], e) \in Int /\ Earned(t[n], e) \in Int
                               /\ Earned(s[n], e) <= Earned(t[n], e)
  PROVE  Total(s, e) \in Int /\ Total(t, e) \in Int /\ Total(s, e) <= Total(t, e)
<1>1. PICK f : Sums(f, s, e) /\ Total(s, e) = f[Len(s)]
  BY TotalIsSum
<1>2. PICK g : Sums(g, t, e) /\ Total(t, e) = g[Len(t)]
  BY TotalIsSum
<1> DEFINE L == Len(s)
<1>3. f \in [0..L -> Int] /\ g \in [0..L -> Int] /\ f[0] <= g[0]
  BY <1>1, <1>2 DEF Sums
<1>4. ASSUME NEW n \in 1..L PROVE f[n] - f[n - 1] <= g[n] - g[n - 1]
  <2>1. f[n] = f[n - 1] + Earned(s[n], e) /\ g[n] = g[n - 1] + Earned(t[n], e)
    BY <1>1, <1>2 DEF Sums
  <2>2. f[n - 1] \in Int /\ g[n - 1] \in Int
    <3>1. n - 1 \in 0..L OBVIOUS
    <3> HIDE DEF L
    <3>. QED BY <1>3, <3>1
  <2>3. Earned(s[n], e) \in Int /\ Earned(t[n], e) \in Int /\ Earned(s[n], e) <= Earned(t[n], e)
    OBVIOUS
  <2>. QED BY <2>1, <2>2, <2>3
<1>5. L \in Nat /\ L \in 0..L OBVIOUS
<1> HIDE DEF L
<1>6. f[L] <= g[L] BY <1>3, <1>4, <1>5, Climb
<1>. QED BY <1>1, <1>2, <1>3, <1>5, <1>6 DEF L

\* A consumer none of whose dimensions costs it anything scores what any of them earns.
LEMMA TotalAtLeast ==
  ASSUME NEW s, NEW e, Len(s) \in Nat, NEW i \in 1..Len(s),
         \A n \in 1..Len(s) : Earned(s[n], e) \in Int /\ Earned(s[n], e) >= 0
  PROVE  Total(s, e) \in Int /\ Earned(s[i], e) <= Total(s, e)
<1>1. PICK g : Sums(g, s, e) /\ Total(s, e) = g[Len(s)]
  BY TotalIsSum
<1> DEFINE L == Len(s)
           w == Earned(s[i], e)
           f == [n \in 0..L |-> IF n < i THEN 0 ELSE w]
<1>2. L \in Nat /\ i \in 1..L /\ w \in Int /\ g \in [0..L -> Int] /\ g[0] = 0
  BY <1>1 DEF Sums
<1>3. ASSUME NEW n \in 1..L PROVE g[n] = g[n - 1] + Earned(s[n], e) /\ g[n - 1] \in Int
                                   /\ Earned(s[n], e) \in Int /\ Earned(s[n], e) >= 0
  <2>1. g[n] = g[n - 1] + Earned(s[n], e) /\ Earned(s[n], e) \in Int /\ Earned(s[n], e) >= 0
    BY <1>1 DEF Sums
  <2>2. n - 1 \in 0..L BY <1>2
  <2> HIDE DEF L
  <2>. QED BY <1>2, <2>1, <2>2
<1> HIDE DEF L
<1>4. ASSUME NEW n \in 1..L PROVE f[n] - f[n - 1] <= g[n] - g[n - 1]
  <2>1. n \in Int /\ n \in 0..L /\ n - 1 \in 0..L BY <1>2
  <2>2. CASE n = i
    <3>1. w = Earned(s[n], e) BY <2>2
    <3> HIDE DEF w
    <3>2. f[n] = w /\ f[n - 1] = 0 BY <1>2, <2>1, <2>2
    <3> HIDE DEF f
    <3>3. f[n] - f[n - 1] = w BY <1>2, <3>2
    <3>4. g[n] - g[n - 1] = w BY <1>3, <3>1
    <3>. QED BY <1>2, <3>3, <3>4
  <2>3. CASE n # i
    <3> HIDE DEF w
    <3>1. f[n] = f[n - 1] /\ f[n] \in Int BY <1>2, <2>1, <2>3
    <3> HIDE DEF f
    <3>2. f[n] - f[n - 1] = 0 BY <3>1
    <3>3. g[n] - g[n - 1] >= 0 BY <1>3
    <3>. QED BY <3>2, <3>3
  <2>. QED BY <2>2, <2>3
<1> HIDE DEF w
<1>5. f \in [0..L -> Int] /\ f[0] <= g[0] /\ f[L] = w BY <1>2
<1> HIDE DEF f
<1>6. f[L] <= g[L] BY <1>2, <1>4, <1>5, Climb
<1>7. L \in 0..L BY <1>2
<1>. QED BY <1>1, <1>2, <1>5, <1>6, <1>7 DEF L, w

\* A consumer that a message matches in nothing scores nothing.
LEMMA TotalZero ==
  ASSUME NEW s, NEW e, Len(s) \in Nat, \A n \in 1..Len(s) : Earned(s[n], e) = 0
  PROVE  Total(s, e) = 0
<1>1. PICK f : Sums(f, s, e) /\ Total(s, e) = f[Len(s)]
  BY TotalIsSum
<1> DEFINE L == Len(s)
           z == [n \in 0..L |-> 0]
<1>2. L \in Nat /\ f \in [0..L -> Int] /\ f[0] = 0 /\ L \in 0..L
  BY <1>1 DEF Sums
<1>3. ASSUME NEW n \in 1..L PROVE f[n] = f[n - 1]
  <2>1. f[n] = f[n - 1] + Earned(s[n], e) BY <1>1 DEF Sums
  <2>2. Earned(s[n], e) = 0 /\ n - 1 \in 0..L BY <1>2
  <2> HIDE DEF L
  <2>3. f[n - 1] \in Int BY <1>2, <2>2
  <2>. QED BY <2>1, <2>2, <2>3
<1> HIDE DEF L
<1>4. z \in [0..L -> Int] /\ z[L] = 0 /\ z[0] = 0 BY <1>2
<1>5. \A n \in 1..L : z[n] = 0 /\ z[n - 1] = 0 /\ f[n] \in Int BY <1>2
<1> HIDE DEF z
<1>8. \A n \in 1..L : /\ f[n] - f[n - 1] <= z[n] - z[n - 1]
                        /\ z[n] - z[n - 1] <= f[n] - f[n - 1]
  BY <1>3, <1>5
<1>9. f[0] <= z[0] /\ z[0] <= f[0] BY <1>2, <1>4
<1>6. f[L] <= z[L] BY ONLY <1>2, <1>4, <1>8, <1>9, Climb
<1>7. z[L] <= f[L] BY ONLY <1>2, <1>4, <1>8, <1>9, Climb
<1>. QED BY <1>1, <1>2, <1>4, <1>6, <1>7 DEF L

-----------------------------------------------------------------------------
(* The order of the walk                                                    *)

Ahead(id, A, score) == {a \in A : Outranks(a, id, score)}
Rank(id, A, score)  == Cardinality(Ahead(id, A, score))

\* A walk over A in the order of the plan: everyone once, who outranks whom before it.
Ranked(w, A, score) ==
  LET C == Cardinality(A)
  IN  /\ w \in [1..C -> A]
      /\ \A id \in A : \E n \in 1..C : w[n] = id
      /\ \A m, n \in 1..C : /\ m < n <=> Outranks(w[m], w[n], score)
                            /\ w[m] = w[n] => m = n

\* Of two consumers one outranks the other, and nobody outranks itself.
LEMMA OutranksOrder ==
  ASSUME NEW A \in SUBSET Nat, NEW score \in [A -> Int]
  PROVE  /\ \A a \in A : ~Outranks(a, a, score)
         /\ \A a, b \in A : a # b => Outranks(a, b, score) \/ Outranks(b, a, score)
         /\ \A a, b \in A : ~(Outranks(a, b, score) /\ Outranks(b, a, score))
         /\ \A a, b, c \in A : Outranks(a, b, score) /\ Outranks(b, c, score) => Outranks(a, c, score)
<1>1. \A a \in A : a \in Nat /\ score[a] \in Int
  OBVIOUS
<1>. QED BY <1>1 DEF Outranks

\* Who outranks another has the smaller rank; the ranks are 0, 1, 2 ... without a gap.
LEMMA RanksCount ==
  ASSUME NEW A \in SUBSET Nat, IsFiniteSet(A), NEW score \in [A -> Int]
  PROVE  /\ \A id \in A : Rank(id, A, score) \in 0..Cardinality(A) - 1
         /\ \A a, b \in A : Outranks(a, b, score) => Rank(a, A, score) < Rank(b, A, score)
         /\ \A n \in 0..Cardinality(A) - 1 : \E id \in A : Rank(id, A, score) = n
<1> DEFINE C == Cardinality(A)
           R(id) == Rank(id, A, score)
<1>1. C \in Nat
  BY FS_CardinalityType
<1>2. ASSUME NEW id \in A
      PROVE  /\ IsFiniteSet(Ahead(id, A, score)) /\ R(id) \in Nat
             /\ id \notin Ahead(id, A, score) /\ Ahead(id, A, score) \in SUBSET A
  <2>1. Ahead(id, A, score) \in SUBSET A /\ id \notin Ahead(id, A, score)
    BY OutranksOrder DEF Ahead
  <2>. QED BY <2>1, FS_Subset, FS_CardinalityType DEF Rank
<1>3. ASSUME NEW id \in A, NEW T \in SUBSET A, id \in T, Ahead(id, A, score) \subseteq T
      PROVE  R(id) < Cardinality(T)
  <2> DEFINE S == Ahead(id, A, score)
  <2>1. IsFiniteSet(T) /\ Cardinality(T) \in Nat
    BY FS_Subset, FS_CardinalityType
  <2>2. S \in SUBSET T /\ S # T
    BY <1>2, <1>3
  <2> HIDE DEF S
  <2>3. Cardinality(S) <= Cardinality(T) /\ Cardinality(S) # Cardinality(T)
    BY <2>1, <2>2, FS_Subset
  <2>4. R(id) = Cardinality(S) /\ R(id) \in Nat
    BY <1>2 DEF Rank, S
  <2>. QED BY <2>1, <2>3, <2>4
<1>4. ASSUME NEW id \in A PROVE R(id) \in 0..C - 1
  <2>1. R(id) < Cardinality(A) BY <1>2, <1>3
  <2>. QED BY <1>1, <1>2, <2>1
<1>5. ASSUME NEW a \in A, NEW b \in A, Outranks(a, b, score) PROVE R(a) < R(b)
  <2>1. a \in Ahead(b, A, score) /\ Ahead(a, A, score) \subseteq Ahead(b, A, score)
    BY <1>5, OutranksOrder DEF Ahead
  <2>. QED BY <1>2, <1>3, <2>1 DEF Rank
<1> DEFINE f == [id \in A |-> R(id)]
<1>6. f \in Injection(A, 0..C - 1)
  <2>1. f \in [A -> 0..C - 1] BY <1>4
  <2>2. \A a, b \in A : R(a) = R(b) => a = b
    <3>1. \A a, b \in A : R(a) \in Nat /\ R(b) \in Nat BY <1>2
    <3> HIDE DEF R
    <3>. QED BY <1>5, <3>1, OutranksOrder
  <2>. QED BY <2>1, <2>2 DEF Injection, IsInjective
<1>7. IsFiniteSet(0..C - 1) /\ Cardinality(0..C - 1) = C
  <2>1. 0 \in Int /\ C - 1 \in Int BY <1>1
  <2>. QED BY <1>1, <2>1, FS_Interval
<1> HIDE DEF C, R
<1>8. f \in Surjection(A, 0..C - 1)
  <2> HIDE DEF f
  <2>. QED BY <1>6, <1>7, FS_Injection DEF C
<1>9. \A n \in 0..C - 1 : \E id \in A : R(id) = n
  BY <1>8 DEF Surjection
<1>. QED BY <1>4, <1>5, <1>9 DEF R, C

\* Taking them by rank is a walk in the order of the plan.
LEMMA RankedByRank ==
  ASSUME NEW A \in SUBSET Nat, IsFiniteSet(A), NEW score \in [A -> Int]
  PROVE  Ranked([n \in 1..Cardinality(A) |-> CHOOSE id \in A : Rank(id, A, score) = n - 1],
                A, score)
<1> DEFINE C == Cardinality(A)
           R(id) == Rank(id, A, score)
           w == [n \in 1..C |-> CHOOSE id \in A : R(id) = n - 1]
<1>1. C \in Nat
  BY FS_CardinalityType
<1>2. /\ \A id \in A : R(id) \in 0..C - 1
      /\ \A a, b \in A : Outranks(a, b, score) => R(a) < R(b)
      /\ \A n \in 0..C - 1 : \E id \in A : R(id) = n
  BY RanksCount
<1> HIDE DEF C, R
<1>3. ASSUME NEW n \in 1..C PROVE w[n] \in A /\ R(w[n]) = n - 1 /\ n \in Int
  <2>1. n - 1 \in 0..C - 1 BY <1>1
  <2>. QED BY <1>2, <2>1
<1>4. w \in [1..C -> A]
  BY <1>3
<1>5. \A a, b \in A : R(a) = R(b) => a = b
  BY <1>2, OutranksOrder
<1>9. DOMAIN w = 1..C OBVIOUS
<1> HIDE DEF w
<1>6. ASSUME NEW id \in A PROVE \E n \in 1..C : w[n] = id
  <2>1. R(id) + 1 \in 1..C /\ (R(id) + 1) - 1 = R(id) BY <1>1, <1>2
  <2>2. R(w[R(id) + 1]) = R(id) /\ w[R(id) + 1] \in A BY <1>3, <2>1
  <2>3. w[R(id) + 1] = id BY <1>5, <2>2
  <2>. QED BY <2>1, <2>3
<1>7. ASSUME NEW m \in 1..C, NEW n \in 1..C
      PROVE  (m < n <=> Outranks(w[m], w[n], score)) /\ (w[m] = w[n] => m = n)
  <2>1. R(w[m]) = m - 1 /\ R(w[n]) = n - 1 /\ w[m] \in A /\ w[n] \in A /\ m \in Int /\ n \in Int
    BY <1>3
  <2>2. w[m] = w[n] => m = n BY <2>1
  <2>3. CASE m < n
    <3>1. w[m] # w[n] /\ ~(R(w[n]) < R(w[m])) BY <2>1, <2>3
    <3>. QED BY <1>2, <2>1, <2>2, <2>3, <3>1, OutranksOrder
  <2>4. CASE ~(m < n)
    <3>1. ~(R(w[m]) < R(w[n])) BY <2>1, <2>4
    <3>. QED BY <1>2, <2>1, <2>2, <2>4, <3>1
  <2>. QED BY <2>3, <2>4
<1>. QED BY <1>4, <1>6, <1>7 DEF Ranked, C, w, R

\* A function on 1..n is a sequence of length n.
LEMMA FunctionIsSeq ==
  ASSUME NEW S, NEW n \in Nat, NEW x \in [1..n -> S]
  PROVE  x \in Seq(S) /\ Len(x) = n /\ DOMAIN x = 1..Len(x)
  OBVIOUS

\* The first place of a consumer in a walk.
Place(w, id) == SelectInSeq(w, LAMBDA x : x = id)

\* It is where the walk asks that consumer.
LEMMA FoundAt ==
  ASSUME NEW A \in SUBSET Nat, IsFiniteSet(A), NEW w, NEW score, Ranked(w, A, score), NEW id \in A
  PROVE  \E n \in 1..Cardinality(A) : w[n] = id /\ Place(w, id) = n
<1> DEFINE C == Cardinality(A)
           I == {i \in 1..Len(w) : w[i] = id}
<1>1. C \in Nat
  BY FS_CardinalityType
<1>2. w \in [1..C -> A] /\ Len(w) = C
  BY <1>1 DEF Ranked
<1>3. PICK n \in 1..C : w[n] = id
  BY DEF Ranked
<1>4. I = {n}
  BY <1>2, <1>3 DEF Ranked
<1>5. Place(w, id) = IF I # {} THEN CHOOSE x \in I : \A y \in I : x <= y ELSE 0
  BY DEF Place, SelectInSeq, Min
<1> HIDE DEF I
<1>6. n \in Int BY <1>1
<1>7. (CHOOSE x \in I : \A y \in I : x <= y) = n
  BY <1>4, <1>6
<1>. QED BY <1>3, <1>4, <1>5, <1>7

-----------------------------------------------------------------------------
(* The winner                                                               *)

\* x is willing, and ahead of everyone else who is.
Best(x, A, answer, score) ==
  /\ x \in A /\ answer[x] = "take"
  /\ \A id \in A \ {x} : answer[id] = "take" => Outranks(x, id, score)

\* The best of the willing wins, if there is one.
Outcome(x, A, answer, score) ==
  IF x = None THEN \A id \in A : answer[id] # "take" ELSE Best(x, A, answer, score)

\* The walk ends at the best of the willing.
LEMMA WinnerIsBest ==
  ASSUME NEW A \in SUBSET Nat, IsFiniteSet(A), NEW w, NEW score, Ranked(w, A, score), NEW answer
  PROVE  Outcome(Winner(w, answer), A, answer, score)
<1> DEFINE C == Cardinality(A)
           I == {i \in 1..Len(w) : answer[w[i]] = "take"}
           at == IF I # {} THEN CHOOSE x \in I : \A y \in I : x <= y ELSE 0
<1>1. C \in Nat
  BY FS_CardinalityType
<1>2. w \in [1..C -> A] /\ Len(w) = C
  BY <1>1 DEF Ranked
<1>3. Winner(w, answer) = IF at = 0 THEN None ELSE w[at]
  BY DEF Winner, SelectInSeq, Min
<1>4. CASE I = {}
  <2>1. \A id \in A : answer[id] # "take"
    BY <1>2, <1>4 DEF Ranked
  <2>2. at = 0 BY <1>4
  <2>. QED BY <1>3, <2>1, <2>2 DEF Outcome
<1>5. CASE I # {}
  <2>1. I \in SUBSET Nat BY <1>1, <1>2
  <2> HIDE DEF I
  <2>2. at \in I /\ \A y \in I : at <= y BY <1>5, <2>1, Least
  <2> HIDE DEF at
  <2>3. at \in 1..C /\ answer[w[at]] = "take" /\ w[at] \in A
    BY <1>2, <2>2 DEF I
  <2>4. w[at] # None /\ at # 0
    <3>1. w[at] \in Nat BY <2>3
    <3>. QED BY <2>3, <3>1, NoneAssumption
  <2>5. ASSUME NEW id \in A \ {w[at]}, answer[id] = "take" PROVE Outranks(w[at], id, score)
    <3>1. PICK n \in 1..C : w[n] = id BY DEF Ranked
    <3>2. n \in I BY <1>2, <2>5, <3>1 DEF I
    <3>3. at < n BY <1>1, <2>2, <2>3, <2>5, <3>1, <3>2
    <3>. QED BY <2>3, <3>1, <3>3 DEF Ranked
  <2>6. Winner(w, answer) = w[at] BY <1>3, <2>4
  <2>. QED BY <2>3, <2>4, <2>5, <2>6 DEF Outcome, Best
<1>. QED BY <1>4, <1>5

\* Nobody else is.
LEMMA OneBest ==
  ASSUME NEW A \in SUBSET Nat, NEW score \in [A -> Int], NEW answer, NEW x, NEW y,
         Outcome(x, A, answer, score), Outcome(y, A, answer, score)
  PROVE  x = y
<1>1. CASE x = None \/ y = None
  BY <1>1 DEF Outcome, Best
<1>2. CASE x # None /\ y # None
  <2>1. Best(x, A, answer, score) /\ Best(y, A, answer, score) BY <1>2 DEF Outcome
  <2>. QED BY <2>1, OutranksOrder DEF Best
<1>. QED BY <1>1, <1>2

\* What everybody is told: the winner, those behind it, those who refused.
LEMMA WhatTheyAreTold ==
  ASSUME NEW A \in SUBSET Nat, IsFiniteSet(A), NEW w, NEW score, Ranked(w, A, score), NEW answer,
         NEW winner \in A \cup {None}
  PROVE  LET ev == Event(answer, w, winner)
         IN  /\ DOMAIN ev = A
             /\ \A id \in A :
                  /\ id = winner => ev[id] = "consumed"
                  /\ id # winner /\ winner # None /\ Outranks(winner, id, score) => ev[id] = "skipped"
                  /\ id # winner /\ (winner = None \/ ~Outranks(winner, id, score))
                     => ev[id] \in {"busy", "vetoed"}
<1> DEFINE ev == Event(answer, w, winner)
           C == Cardinality(A)
           Behind(id) == Place(w, winner) < Place(w, id)
<1>0. w \in [1..C -> A]
  BY DEF Ranked
<1>1. ToSet(w) = A
  <2>1. DOMAIN w = 1..C BY <1>0
  <2>2. \A id \in A : \E n \in 1..C : w[n] = id BY DEF Ranked
  <2>. QED BY <1>0, <2>1, <2>2 DEF ToSet
<1>2. ev = [id \in A |-> CASE id = winner -> "consumed"
                           [] id # winner /\ winner # None /\ Behind(id) -> "skipped"
                           [] OTHER -> IF answer[id] = "busy" THEN "busy" ELSE "vetoed"]
  BY <1>1 DEF Event, Place
<1>3. ASSUME NEW id \in A, winner # None PROVE Behind(id) <=> Outranks(winner, id, score)
  <2>1. PICK n \in 1..C : w[n] = id /\ Place(w, id) = n
    BY FoundAt
  <2>2. PICK m \in 1..C : w[m] = winner /\ Place(w, winner) = m
    BY <1>3, FoundAt
  <2>. QED BY <2>1, <2>2 DEF Ranked
<1> HIDE DEF ev, Behind
<1>. QED BY <1>2, <1>3 DEF ev

-----------------------------------------------------------------------------
(* Weights                                                                  *)

Outcomes == {"consumed", "busy", "vetoed", "skipped"}

SlotOK(s)   == /\ DOMAIN s = {"dim", "required", "weight"}
               /\ s = [x \in DOMAIN s |-> s[x]]
               /\ InRange(s.weight)
EntryOK(o)  == \A i \in DOMAIN o : SlotOK(o[i])
EntriesOK   == \A id \in Ids : EntryOK(entries[id])

(* Each of the adjustments maps the range into itself, and goes its way.   *)
LEMMA AdjustInRange ==
  ASSUME NEW w, InRange(w), NEW event \in Outcomes
  PROVE  /\ InRange(Adjust(w, event))
         /\ event = "consumed" => w <= Adjust(w, event)
         /\ event \in {"busy", "vetoed"} => Adjust(w, event) <= w
<1>1. /\ Floor \in Int /\ Cap \in Int /\ 0 <= Floor
  BY SMT DEF Floor, Cap, One
<1>2. w \in Int /\ Floor <= w /\ w <= Cap
  BY <1>1 DEF InRange
<1> HIDE DEF Floor, Cap
<1>3. CASE event = "consumed"
  <2> DEFINE v == (w * 11) \div 10
  <2>1. v \in Int /\ w <= v
    BY <1>1, <1>2
  <2>2. Adjust(w, event) = Smaller(v, Cap)
    BY <1>3 DEF Adjust
  <2> HIDE DEF v
  <2>. QED BY <1>1, <1>2, <1>3, <2>1, <2>2 DEF Smaller, InRange
<1>4. CASE event \in {"busy", "vetoed"}
  <2> DEFINE v == (w * (IF event = "busy" THEN 8 ELSE 9)) \div 10
  <2>1. v \in Int /\ v <= w
    BY <1>1, <1>2
  <2>2. Adjust(w, event) = Larger(v, Floor)
    BY <1>4 DEF Adjust
  <2> HIDE DEF v
  <2>. QED BY <1>1, <1>2, <1>4, <2>1, <2>2 DEF Larger, InRange
<1>5. CASE event = "skipped"
  BY <1>5 DEF Adjust
<1>. QED BY <1>3, <1>4, <1>5 DEF Outcomes

\* What a dimension is told leaves it one, its weight in the range.
LEMMA ToldOK ==
  ASSUME NEW s, SlotOK(s), NEW event \in Outcomes
  PROVE  SlotOK(Told(s, event))
<1>1. CASE s.dim.kind = "broken"
  BY <1>1 DEF Told
<1>2. CASE s.dim.kind # "broken"
  <2>1. Told(s, event) = [s EXCEPT !.weight = Adjust(s.weight, event)]
    BY <1>2 DEF Told
  <2>2. InRange(Adjust(s.weight, event))
    BY AdjustInRange DEF SlotOK
  <2> DEFINE t == Told(s, event)
             a == Adjust(s.weight, event)
  <2> HIDE DEF a
  <2>3. DOMAIN t = DOMAIN s /\ t.weight = a /\ t = [x \in DOMAIN t |-> t[x]]
    BY <2>1 DEF SlotOK, a
  <2>. QED BY <2>2, <2>3 DEF SlotOK, a
<1>. QED BY <1>1, <1>2

\* A route tells nobody anything but the four outcomes.
LEMMA EventsAreOutcomes ==
  ASSUME NEW answer, NEW plan, NEW winner, NEW id \in DOMAIN Event(answer, plan, winner)
  PROVE  Event(answer, plan, winner)[id] \in Outcomes
  BY DEF Event, Outcomes

\* After a route has told everyone, the entries are in range still.
LEMMA ObserveKeeps ==
  ASSUME EntriesOK, NEW answer, NEW plan, NEW winner, Observe(Event(answer, plan, winner))
  PROVE  EntriesOK'
<1> DEFINE ev == Event(answer, plan, winner)
<1>1. /\ DOMAIN entries' = Ids
      /\ \A id \in Ids :
           entries'[id] = IF id \in DOMAIN ev
                          THEN [i \in DOMAIN entries[id] |-> Told(entries[id][i], ev[id])]
                          ELSE entries[id]
  BY DEF Observe, Ids
<1>2. \A id \in DOMAIN ev : ev[id] \in Outcomes
  BY EventsAreOutcomes
<1> HIDE DEF ev
<1>3. ASSUME NEW id \in Ids PROVE EntryOK(entries'[id])
  <2>1. CASE id \in DOMAIN ev
    <3>1. \A i \in DOMAIN entries[id] : SlotOK(entries[id][i])
      BY DEF EntriesOK, EntryOK
    <3>2. \A i \in DOMAIN entries[id] : SlotOK(Told(entries[id][i], ev[id]))
      BY <1>2, <2>1, <3>1, ToldOK
    <3>. QED BY <1>1, <2>1, <3>2 DEF EntryOK
  <2>2. CASE id \notin DOMAIN ev
    BY <1>1, <2>2 DEF EntriesOK
  <2>. QED BY <2>1, <2>2
<1>. QED BY <1>1, <1>3 DEF EntriesOK, Ids

\* Every step keeps the entries in range.
LEMMA EntriesStep ==
  ASSUME OffersInRange, EntriesOK, [Next]_vars
  PROVE  EntriesOK'
<1>1. ASSUME NEW slots \in Offers, Register(slots) PROVE EntriesOK'
  <2>1. EntryOK(slots)
    <3> SUFFICES ASSUME NEW i \in DOMAIN slots PROVE SlotOK(slots[i])
      BY DEF EntryOK
    <3>1. slots[i] \in [dim : {slots[i].dim}, required : BOOLEAN, weight : Int]
      BY OffersAssumption DEF IsSlot
    <3>2. InRange(slots[i].weight)
      BY DEF OffersInRange
    <3>. QED BY <3>1, <3>2 DEF SlotOK
  <2>2. /\ DOMAIN entries' = Ids \cup {nextId}
        /\ \A id \in Ids \cup {nextId} :
             entries'[id] = IF id = nextId THEN slots ELSE entries[id]
    BY <1>1 DEF Register
  <2>3. \A id \in DOMAIN entries' : EntryOK(entries'[id])
    BY <2>1, <2>2 DEF EntriesOK
  <2>. QED BY <2>3 DEF EntriesOK, Ids
<1>2. ASSUME NEW id \in Ids, Deregister(id) PROVE EntriesOK'
  <2>1. /\ DOMAIN entries' = Ids \ {id}
        /\ \A i \in Ids \ {id} : entries'[i] = entries[i]
    BY <1>2 DEF Deregister
  <2>. QED BY <2>1 DEF EntriesOK, Ids
<1>3. ASSUME UNCHANGED entries PROVE EntriesOK'
  BY <1>3 DEF EntriesOK, Ids
<1>4. ASSUME NEW e, NEW walk, NEW answer, Route(e, walk, answer) PROVE EntriesOK'
  <2>1. Observe(Event(answer, walk, None)) \/ UNCHANGED entries
    BY <1>4 DEF Route
  <2>. QED BY <1>3, <2>1, ObserveKeeps
<1>5. CASE Consumed
  <2>1. \/ Observe(Event(flight.answer, Walk(flight.env), flight.winner))
        \/ UNCHANGED entries
    BY <1>5 DEF Consumed
  <2>. QED BY <1>3, <2>1, ObserveKeeps
<1>6. CASE CancelRoute
  BY <1>3, <1>6 DEF CancelRoute
<1>7. CASE UNCHANGED vars
  BY <1>3, <1>7 DEF vars
<1>. QED BY <1>1, <1>2, <1>4, <1>5, <1>6, <1>7 DEF Next

(* Learning keeps every weight between floor and cap, whatever consumers   *)
(* answer and however many routes, provided prefer() was given weights     *)
(* between them.                                                           *)
THEOREM WeightsTheorem == Spec => []WeightsInRange
<1>1. CASE OffersInRange
  <2>1. Init => EntriesOK
    BY DEF Init, EntriesOK, Ids
  <2>2. EntriesOK /\ [Next]_vars => EntriesOK'
    BY <1>1, EntriesStep
  <2>3. EntriesOK => WeightsInRange
    BY DEF EntriesOK, EntryOK, SlotOK, WeightsInRange
  <2>. QED BY <2>1, <2>2, <2>3, PTL DEF Spec
<1>2. CASE ~OffersInRange
  <2>1. WeightsInRange
    BY <1>2 DEF WeightsInRange
  <2>. QED BY <2>1, PTL
<1>. QED BY <1>1, <1>2

-----------------------------------------------------------------------------
(* Types                                                                    *)

Slots == [dim : UNION {{o[i].dim : i \in DOMAIN o} : o \in Offers},
          required : BOOLEAN, weight : Int]

\* The dimensions of an entry are those its consumer was registered with.
FromOffer(x) == \E o \in Offers :
                  /\ Len(x) = Len(o)
                  /\ \A i \in 1..Len(x) : x[i].dim = o[i].dim /\ x[i].required = o[i].required

Typed ==
  /\ router \in Routers
  /\ Ids \subseteq 0..nextId - 1 /\ nextId \in 0..MaxIds
  /\ \A id \in Ids : entries[id] \in Seq(Slots) /\ FromOffer(entries[id])
  /\ flight \in Trips \cup {None} /\ last \in Trips \cup {None}
  /\ routes \in 0..MaxRoutes

\* An offer is a sequence of slots.
LEMMA OffersAreSlots == \A o \in Offers : o \in Seq(Slots) /\ FromOffer(o)
<1> TAKE o \in Offers
<1> DEFINE S == {o[i] : i \in DOMAIN o}
<1>0. o \in Seq(S)
  BY OffersAssumption
<1> HIDE DEF S
<1>1. PICK n \in Nat : o \in [1..n -> S]
  BY <1>0, SeqDef
<1>2. ASSUME NEW i \in 1..n PROVE o[i] \in Slots
  <2>1. i \in DOMAIN o BY <1>1
  <2>2. o[i] \in [dim : {o[i].dim}, required : BOOLEAN, weight : Int]
    BY <2>1, OffersAssumption DEF IsSlot
  <2>3. o[i].dim \in UNION {{p[j].dim : j \in DOMAIN p} : p \in Offers}
    BY <2>1
  <2>. QED BY <2>2, <2>3 DEF Slots
<1>3. o \in [1..n -> Slots]
  BY <1>1, <1>2
<1>. QED BY <1>3 DEF FromOffer

\* What a dimension is told is its weight's concern only.
LEMMA ToldTyped ==
  ASSUME NEW s \in Slots, NEW event \in Outcomes
  PROVE  /\ Told(s, event) \in Slots
         /\ Told(s, event).dim = s.dim /\ Told(s, event).required = s.required
         /\ event = "skipped" => Told(s, event) = s
<1>1. Adjust(s.weight, event) \in Int /\ (event = "skipped" => Adjust(s.weight, event) = s.weight)
  <2>1. s.weight \in Int /\ Cap \in Int /\ Floor \in Int
    BY SMT DEF Slots, Floor, Cap, One
  <2>2. (s.weight * 11) \div 10 \in Int /\ (s.weight * 8) \div 10 \in Int
        /\ (s.weight * 9) \div 10 \in Int
    BY <2>1
  <2> HIDE DEF Floor, Cap
  <2>. QED BY <2>1, <2>2 DEF Adjust, Smaller, Larger, Outcomes
<1> DEFINE a == Adjust(s.weight, event)
<1>2. Told(s, event) = IF s.dim.kind = "broken" THEN s ELSE [s EXCEPT !.weight = a]
  BY DEF Told
<1> HIDE DEF a
<1>. QED BY <1>1, <1>2 DEF Slots, a

\* All dimensions of a consumer being told something.
TellAll(x, event) == [i \in DOMAIN x |-> Told(x[i], event)]

\* Nor does a whole entry change otherwise, and one that is told "skipped" not at all.
LEMMA EntryTold ==
  ASSUME NEW x \in Seq(Slots), FromOffer(x), NEW event \in Outcomes, NEW y, y = TellAll(x, event)
  PROVE  /\ y \in Seq(Slots) /\ FromOffer(y) /\ Len(y) = Len(x)
         /\ \A i \in 1..Len(x) : /\ y[i] = Told(x[i], event)
                                 /\ y[i].dim = x[i].dim /\ y[i].required = x[i].required
         /\ event = "skipped" => y = x
<1> DEFINE n == Len(x)
<1>1. n \in Nat /\ x \in [1..n -> Slots] /\ DOMAIN x = 1..n
  OBVIOUS
<1>2. \A i \in 1..n : /\ y[i] = Told(x[i], event) /\ y[i] \in Slots
                      /\ y[i].dim = x[i].dim /\ y[i].required = x[i].required
                      /\ event = "skipped" => y[i] = x[i]
  BY <1>1, ToldTyped DEF TellAll
<1>3. DOMAIN y = 1..n BY <1>1 DEF TellAll
<1>4. y \in [1..n -> Slots]
  <2>1. y = [i \in 1..n |-> y[i]] BY <1>1 DEF TellAll
  <2>. QED BY <1>2, <2>1
<1>5. y \in Seq(Slots) /\ Len(y) = n
  BY <1>1, <1>4, FunctionIsSeq
<1>6. event = "skipped" => y = x
  BY <1>1, <1>2, <1>4
<1>7. FromOffer(y)
  <2>1. PICK o \in Offers : /\ Len(x) = Len(o)
                            /\ \A i \in 1..n : x[i].dim = o[i].dim /\ x[i].required = o[i].required
    BY DEF FromOffer
  <2>2. \A i \in 1..Len(y) : y[i].dim = o[i].dim /\ y[i].required = o[i].required
    BY <1>2, <1>5, <2>1
  <2>. QED BY <1>5, <2>1, <2>2 DEF FromOffer
<1>. QED BY <1>2, <1>5, <1>6, <1>7

\* After a route has told everyone: the same consumers with the same dimensions.
LEMMA ObserveTyped ==
  ASSUME Typed, NEW ev, \A id \in DOMAIN ev : ev[id] \in Outcomes, Observe(ev)
  PROVE  /\ Ids' = Ids
         /\ \A id \in Ids :
              /\ entries'[id] \in Seq(Slots) /\ FromOffer(entries'[id])
              /\ Len(entries'[id]) = Len(entries[id])
              /\ id \in DOMAIN ev => \A i \in 1..Len(entries[id]) :
                                        entries'[id][i] = Told(entries[id][i], ev[id])
              /\ \A i \in 1..Len(entries[id]) :
                   /\ entries'[id][i].dim = entries[id][i].dim
                   /\ entries'[id][i].required = entries[id][i].required
              /\ id \notin DOMAIN ev \/ ev[id] = "skipped" => entries'[id] = entries[id]
<1>1. /\ DOMAIN entries' = Ids
      /\ \A id \in Ids :
           entries'[id] = IF id \in DOMAIN ev THEN TellAll(entries[id], ev[id]) ELSE entries[id]
  BY DEF Observe, Ids, TellAll
<1>2. \A id \in Ids : entries[id] \in Seq(Slots) /\ FromOffer(entries[id])
  BY DEF Typed
<1>3. ASSUME NEW id \in Ids, id \notin DOMAIN ev
      PROVE  entries'[id] = entries[id]
  BY <1>1, <1>3
<1>4. ASSUME NEW id \in Ids, id \in DOMAIN ev
      PROVE  /\ entries'[id] \in Seq(Slots) /\ FromOffer(entries'[id])
             /\ Len(entries'[id]) = Len(entries[id])
             /\ \A i \in 1..Len(entries[id]) :
                  /\ entries'[id][i] = Told(entries[id][i], ev[id])
                  /\ entries'[id][i].dim = entries[id][i].dim
                  /\ entries'[id][i].required = entries[id][i].required
             /\ ev[id] = "skipped" => entries'[id] = entries[id]
  <2>1. entries'[id] = TellAll(entries[id], ev[id])
    BY <1>1, <1>4
  <2>2. ev[id] \in Outcomes /\ entries[id] \in Seq(Slots) /\ FromOffer(entries[id])
    BY <1>2, <1>4
  <2>. QED BY <2>1, <2>2, EntryTold
<1>5. Ids' = Ids BY <1>1 DEF Ids
<1>. QED BY <1>2, <1>3, <1>4, <1>5

\* Nobody who qualified does not any more, and nobody else qualifies.
LEMMA AcceptingKept ==
  ASSUME Typed, Ids' = Ids, NEW e,
         \A id \in Ids : /\ entries'[id] \in Seq(Slots) /\ Len(entries'[id]) = Len(entries[id])
                         /\ \A i \in 1..Len(entries[id]) :
                              /\ entries'[id][i].dim = entries[id][i].dim
                              /\ entries'[id][i].required = entries[id][i].required
  PROVE  Accepting(e)' = Accepting(e)
<1>1. ASSUME NEW id \in Ids
      PROVE  (\A s \in SlotsOf(id) : s.required => Matches(s.dim, e))
             <=> (\A s \in SlotsOf(id)' : s.required => Matches(s.dim, e))
  <2>1. entries[id] \in Seq(Slots) /\ entries'[id] \in Seq(Slots) /\ Len(entries'[id]) = Len(entries[id])
    BY DEF Typed
  <2>2. /\ SlotsOf(id) = {entries[id][i] : i \in 1..Len(entries[id])}
        /\ SlotsOf(id)' = {entries'[id][i] : i \in 1..Len(entries[id])}
    BY <2>1 DEF SlotsOf, ToSet
  <2>. QED BY <2>2
<1>. QED BY <1>1 DEF Accepting

-----------------------------------------------------------------------------
(* Scores and walks of the entries                                          *)

\* Whatever a dimension earns is a number.
LEMMA EarnedInt ==
  ASSUME NEW x \in Seq(Slots), NEW e
  PROVE  \A n \in 1..Len(x) : Earned(x[n], e) \in Int
<1> TAKE n \in 1..Len(x)
<1>1. x[n] \in Slots OBVIOUS
<1>2. x[n].weight \in Int BY <1>1 DEF Slots
<1>. QED BY <1>2 DEF Earned

\* So is a score.
LEMMA ScoreInt ==
  ASSUME Typed, NEW id \in Ids, NEW e
  PROVE  Score(id, e) \in Int
<1>1. entries[id] \in Seq(Slots) /\ Len(entries[id]) \in Nat
  BY DEF Typed
<1>2. \A n \in 1..Len(entries[id]) : /\ Earned(entries[id][n], e) \in Int
                                     /\ Earned(entries[id][n], e) <= Earned(entries[id][n], e)
  <2>1. \A n \in 1..Len(entries[id]) : Earned(entries[id][n], e) \in Int
    BY <1>1, EarnedInt
  <2>. QED BY <2>1
<1>3. Total(entries[id], e) \in Int
  BY <1>1, <1>2, TotalMonotone
<1>. QED BY <1>3 DEF Score

\* Who qualifies has a score.
LEMMA ScoresTyped ==
  ASSUME Typed, NEW e
  PROVE  /\ Accepting(e) \subseteq Ids /\ Accepting(e) \in SUBSET Nat /\ IsFiniteSet(Accepting(e))
         /\ Accepting(e) \in SUBSET (0..MaxIds - 1) /\ Scores(e) \in [Accepting(e) -> Int]
<1>1. Accepting(e) \subseteq Ids
  BY DEF Accepting
<1>2. nextId \in Int /\ nextId <= MaxIds /\ MaxIds \in Nat /\ Ids \subseteq 0..nextId - 1
  BY RouterBounds DEF Typed
<1>3. Ids \subseteq 0..MaxIds - 1
  BY <1>2
<1>4. IsFiniteSet(0..MaxIds - 1)
  <2>1. 0 \in Int /\ MaxIds - 1 \in Int BY <1>2
  <2>. QED BY <2>1, FS_Interval
<1>5. Accepting(e) \in SUBSET (0..MaxIds - 1)
  BY <1>1, <1>3
<1>6. IsFiniteSet(Accepting(e))
  BY <1>4, <1>5, FS_Subset
<1>7. \A id \in Accepting(e) : Score(id, e) \in Int
  BY <1>1, ScoreInt
<1>. QED BY <1>1, <1>2, <1>5, <1>6, <1>7 DEF Scores

\* The walk asks everyone who qualifies once, in the order of the plan.
LEMMA WalkIsRanked ==
  ASSUME Typed, NEW e
  PROVE  Ranked(Walk(e), Accepting(e), Scores(e))
<1>1. Walk(e) = [n \in 1..Cardinality(Accepting(e)) |->
                   CHOOSE id \in Accepting(e) : Rank(id, Accepting(e), Scores(e)) = n - 1]
  BY DEF Walk, Rank, Ahead
<1>. QED BY <1>1, ScoresTyped, RankedByRank

\* An entry that stays as it is scores as before.
LEMMA ScoreKept ==
  ASSUME NEW id, entries'[id] = entries[id], NEW e
  PROVE  Score(id, e)' = Score(id, e)
  BY DEF Score, SlotsOf

\* A consumer that consumed scores as much or more, if its weights are in range.
LEMMA WinnersScoreRises ==
  ASSUME Typed, NEW id \in Ids, NEW e, EntryOK(entries[id]),
         entries'[id] \in Seq(Slots), Len(entries'[id]) = Len(entries[id]),
         \A i \in 1..Len(entries[id]) : /\ entries'[id][i] = Told(entries[id][i], "consumed")
                                        /\ entries'[id][i].dim = entries[id][i].dim
  PROVE  Score(id, e)' \in Int /\ Score(id, e) <= Score(id, e)'
<1> DEFINE x == entries[id]
           y == entries'[id]
<1>1. x \in Seq(Slots) /\ y \in Seq(Slots) /\ Len(x) \in Nat /\ Len(y) = Len(x)
      /\ DOMAIN x = 1..Len(x) /\ DOMAIN y = 1..Len(x)
  BY DEF Typed
<1>2. ASSUME NEW n \in 1..Len(x)
      PROVE  /\ Earned(x[n], e) \in Int /\ Earned(y[n], e) \in Int
             /\ Earned(x[n], e) <= Earned(y[n], e)
  <2>1. x[n] \in Slots /\ InRange(x[n].weight) /\ y[n].dim = x[n].dim /\ y[n] = Told(x[n], "consumed")
    <3>1. y[n].dim = x[n].dim /\ y[n] = Told(x[n], "consumed") OBVIOUS
    <3>2. SlotOK(x[n]) BY <1>1 DEF EntryOK
    <3> HIDE DEF x, y
    <3>3. x[n] \in Slots BY <1>1
    <3>. QED BY <3>1, <3>2, <3>3 DEF SlotOK
  <2>2. Earned(x[n], e) \in Int /\ Earned(y[n], e) \in Int
    BY <1>1, EarnedInt
  <2>3. x[n].weight <= y[n].weight
    <3>1. x[n].weight <= Adjust(x[n].weight, "consumed")
      BY <2>1, AdjustInRange DEF Outcomes
    <3>2. x[n].weight \in Int BY <2>1 DEF Slots
    <3> DEFINE a == Adjust(x[n].weight, "consumed")
    <3>3. y[n] = IF x[n].dim.kind = "broken" THEN x[n] ELSE [x[n] EXCEPT !.weight = a]
      BY <2>1 DEF Told
    <3> HIDE DEF x, y, a
    <3>. QED BY <2>1, <3>1, <3>2, <3>3 DEF Slots, a
  <2> HIDE DEF x, y
  <2>. QED BY <2>1, <2>2, <2>3 DEF Earned, Slots
<1>3. Score(id, e) = IF \E n \in 1..Len(x) : x[n].dim.kind = "broken" THEN 0 ELSE Total(x, e)
  BY <1>1 DEF Score, SlotsOf, ToSet
<1>4. Score(id, e)' = IF \E n \in 1..Len(x) : y[n].dim.kind = "broken" THEN 0 ELSE Total(y, e)
  BY <1>1 DEF Score, SlotsOf, ToSet
<1>5. \A n \in 1..Len(x) : y[n].dim.kind = x[n].dim.kind
  OBVIOUS
<1> HIDE DEF x, y
<1>6. Total(x, e) \in Int /\ Total(y, e) \in Int /\ Total(x, e) <= Total(y, e)
  BY <1>1, <1>2, TotalMonotone
<1>. QED BY <1>3, <1>4, <1>5, <1>6

-----------------------------------------------------------------------------
(* The inductive invariant                                                  *)

\* A route ended, or will end, with the best of those who were willing.
Reached(trip) ==
  /\ trip.answer \in [Accepting(trip.env) -> Answers]
  /\ Outcome(trip.winner, Accepting(trip.env), trip.answer, Scores(trip.env))

FlightOK == flight # None => flight.winner # None /\ Reached(flight)

\* After the weights moved this is still so for the route they learned from.
LastOK ==
  last # None =>
    /\ last.answer \in [Accepting(last.env) -> Answers]
    /\ last.winner \in Accepting(last.env) \cup {None}
    /\ last.winner = None => \A id \in Accepting(last.env) : last.answer[id] # "take"
    /\ OffersInRange => Reached(last)

RouteInv == Typed /\ (OffersInRange => EntriesOK) /\ FlightOK /\ LastOK

\* As long as the entries stay, so do plans and outcomes.
LEMMA PlanKept ==
  ASSUME UNCHANGED <<router, entries>>, NEW e
  PROVE  Accepting(e)' = Accepting(e) /\ Scores(e)' = Scores(e)
<1>1. Accepting(e)' = Accepting(e)
  BY DEF Accepting, SlotsOf, Ids
<1>2. \A id : Score(id, e)' = Score(id, e)
  BY DEF Score, SlotsOf
<1>. QED BY <1>1, <1>2 DEF Scores, Affinity

\* What a route does to the entries leaves them typed.
LEMMA LearningTyped ==
  ASSUME Typed, NEW answer, NEW walk, NEW winner,
         Observe(Event(answer, walk, winner)) \/ UNCHANGED entries
  PROVE  /\ Ids' = Ids /\ \A e : Accepting(e)' = Accepting(e)
         /\ \A id \in Ids : entries'[id] \in Seq(Slots) /\ FromOffer(entries'[id])
<1>1. CASE Observe(Event(answer, walk, winner))
  <2> DEFINE ev == Event(answer, walk, winner)
  <2>1. \A id \in DOMAIN ev : ev[id] \in Outcomes
    BY EventsAreOutcomes
  <2> HIDE DEF ev
  <2>2. Observe(ev) BY <1>1 DEF ev
  <2>3. /\ Ids' = Ids
        /\ \A id \in Ids :
             /\ entries'[id] \in Seq(Slots) /\ FromOffer(entries'[id])
             /\ Len(entries'[id]) = Len(entries[id])
             /\ \A i \in 1..Len(entries[id]) :
                  /\ entries'[id][i].dim = entries[id][i].dim
                  /\ entries'[id][i].required = entries[id][i].required
    BY <2>1, <2>2, ObserveTyped
  <2>4. \A e : Accepting(e)' = Accepting(e)
    BY <2>3, AcceptingKept
  <2>. QED BY <2>3, <2>4
<1>2. CASE UNCHANGED entries
  BY <1>2 DEF Typed, Accepting, SlotsOf, Ids
<1>. QED BY <1>1, <1>2

\* The winner goes further up when it learns, and those behind it stay where they are.
LEMMA OutcomeSurvives ==
  ASSUME Typed, EntriesOK, NEW trip \in Trips, Reached(trip), trip.winner # None,
         Affinity, UNCHANGED router,
         Observe(Event(trip.answer, Walk(trip.env), trip.winner))
  PROVE  Reached(trip)'
<1> DEFINE e == trip.env
           A == Accepting(e)
           x == trip.winner
           ev == Event(trip.answer, Walk(e), x)
<1>1. Best(x, A, trip.answer, Scores(e))
  BY DEF Reached, Outcome
<1>2. /\ A \subseteq Ids /\ A \in SUBSET Nat /\ IsFiniteSet(A) /\ Scores(e) \in [A -> Int]
      /\ Ranked(Walk(e), A, Scores(e))
  BY ScoresTyped, WalkIsRanked
<1>3. x \in A /\ trip.answer[x] = "take"
  BY <1>1 DEF Best
<1>4. /\ DOMAIN ev = A /\ ev[x] = "consumed"
      /\ \A id \in A : id # x /\ Outranks(x, id, Scores(e)) => ev[id] = "skipped"
  BY <1>2, <1>3, WhatTheyAreTold
<1>5. \A id \in DOMAIN ev : ev[id] \in Outcomes
  BY EventsAreOutcomes
<1> HIDE DEF ev
<1>6. Observe(ev)
  BY DEF ev
<1>7. /\ Ids' = Ids
      /\ \A id \in Ids :
           /\ entries'[id] \in Seq(Slots) /\ FromOffer(entries'[id])
           /\ Len(entries'[id]) = Len(entries[id])
           /\ id \in DOMAIN ev => \A i \in 1..Len(entries[id]) :
                                     entries'[id][i] = Told(entries[id][i], ev[id])
           /\ \A i \in 1..Len(entries[id]) :
                /\ entries'[id][i].dim = entries[id][i].dim
                /\ entries'[id][i].required = entries[id][i].required
           /\ id \notin DOMAIN ev \/ ev[id] = "skipped" => entries'[id] = entries[id]
  BY <1>5, <1>6, ObserveTyped
<1>8. A' = A
  BY <1>7, AcceptingKept
<1>9. Score(x, e)' \in Int /\ Score(x, e) <= Score(x, e)'
  <2>1. x \in Ids /\ EntryOK(entries[x])
    BY <1>2, <1>3 DEF EntriesOK
  <2>2. /\ entries'[x] \in Seq(Slots) /\ Len(entries'[x]) = Len(entries[x])
        /\ \A i \in 1..Len(entries[x]) : /\ entries'[x][i] = Told(entries[x][i], "consumed")
                                         /\ entries'[x][i].dim = entries[x][i].dim
    BY <1>3, <1>4, <1>7, <2>1
  <2> HIDE DEF x, e
  <2>. QED BY <2>1, <2>2, WinnersScoreRises
<1>10. ASSUME NEW id \in A \ {x}, trip.answer[id] = "take"
       PROVE  Outranks(x, id, Scores(e)')
  <2>1. Outranks(x, id, Scores(e))
    BY <1>1, <1>10 DEF Best
  <2>2. entries'[id] = entries[id]
    BY <1>2, <1>4, <1>7, <2>1
  <2>3. Score(id, e)' = Score(id, e)
    BY <2>2, ScoreKept
  <2>4. /\ Scores(e)[x] = Score(x, e) /\ Scores(e)[id] = Score(id, e)
        /\ Scores(e)'[x] = Score(x, e)' /\ Scores(e)'[id] = Score(id, e)'
    BY <1>3, <1>8 DEF Scores, Affinity
  <2>5. Score(id, e) \in Int /\ Score(x, e) \in Int /\ x \in Nat /\ id \in Nat
    BY <1>2, <1>3, <2>4
  <2> HIDE DEF x, e, A
  <2>. QED BY <1>9, <2>1, <2>3, <2>4, <2>5 DEF Outranks
<1>11. Best(x, A, trip.answer, Scores(e)')
  BY <1>3, <1>10 DEF Best
<1>. QED BY <1>8, <1>11 DEF Reached, Outcome

\* A trip over the consumers that qualify is one.
LEMMA TripTyped ==
  ASSUME Typed, NEW e \in Envelopes, NEW answer \in [Accepting(e) -> Answers],
         NEW winner \in Accepting(e) \cup {None}
  PROVE  [env |-> e, answer |-> answer, winner |-> winner] \in Trips
<1>1. Accepting(e) \in SUBSET (0..MaxIds - 1)
  BY ScoresTyped
<1>2. answer \in UNION {[S -> Answers] : S \in SUBSET (0..MaxIds - 1)}
  BY <1>1
<1>. QED BY <1>1, <1>2 DEF Trips

\* Every step keeps the types.
LEMMA TypedStep ==
  ASSUME Typed, FlightOK, [Next]_vars
  PROVE  Typed'
<1>0. Ids \subseteq 0..nextId - 1 /\ nextId \in 0..MaxIds /\ MaxIds \in Nat
      /\ \A id \in Ids : entries[id] \in Seq(Slots) /\ FromOffer(entries[id])
  BY RouterBounds DEF Typed
<1>1. ASSUME NEW slots \in Offers, Register(slots) PROVE Typed'
  <2>1. /\ Ids' = Ids \cup {nextId} /\ nextId' = nextId + 1 /\ nextId < MaxIds
        /\ \A id \in Ids \cup {nextId} : entries'[id] = IF id = nextId THEN slots ELSE entries[id]
    BY <1>1 DEF Register, Ids
  <2>2. Ids' \subseteq 0..nextId' - 1 /\ nextId' \in 0..MaxIds
    <3>1. nextId \in Int /\ 0 <= nextId /\ nextId < MaxIds /\ nextId' = nextId + 1
      BY <1>0, <2>1
    <3>2. nextId' \in 0..MaxIds BY <1>0, <3>1
    <3>3. ASSUME NEW id \in Ids' PROVE id \in 0..nextId' - 1
      <4>1. id \in 0..nextId - 1 \/ id = nextId BY <1>0, <2>1
      <4>. QED BY <3>1, <4>1
    <3>. QED BY <3>2, <3>3
  <2>3. \A id \in Ids' : entries'[id] \in Seq(Slots) /\ FromOffer(entries'[id])
    BY <1>0, <2>1, OffersAreSlots
  <2>. QED BY <1>1, <2>2, <2>3 DEF Typed, Register
<1>2. ASSUME NEW id \in Ids, Deregister(id) PROVE Typed'
  <2>1. Ids' = Ids \ {id} /\ nextId' = nextId /\ \A i \in Ids \ {id} : entries'[i] = entries[i]
    BY <1>2 DEF Deregister, Ids
  <2>. QED BY <1>0, <1>2, <2>1 DEF Typed, Deregister
<1>3. ASSUME NEW e \in Envelopes, NEW answer \in [Accepting(e) -> Answers],
             Route(e, Walk(e), answer)
      PROVE  Typed'
  <2> DEFINE winner == Winner(Walk(e), answer)
             trip == [env |-> e, answer |-> answer, winner |-> winner]
  <2>1. Outcome(winner, Accepting(e), answer, Scores(e))
    BY ScoresTyped, WalkIsRanked, WinnerIsBest
  <2>2. winner \in Accepting(e) \cup {None}
    BY <2>1 DEF Outcome, Best
  <2> HIDE DEF winner
  <2>3. trip \in Trips
    BY <2>2, TripTyped
  <2>4. Observe(Event(answer, Walk(e), None)) \/ UNCHANGED entries
    BY <1>3 DEF Route
  <2>5. Ids' = Ids /\ \A id \in Ids : entries'[id] \in Seq(Slots) /\ FromOffer(entries'[id])
    BY <2>4, LearningTyped
  <2>6. /\ flight' \in {flight, trip} /\ last' \in {last, trip} /\ routes < MaxRoutes
        /\ routes' = routes + 1 /\ UNCHANGED <<router, nextId>>
    BY <1>3 DEF Route, winner
  <2>7. routes' \in 0..MaxRoutes
    BY <2>6, RouterBounds DEF Typed
  <2> HIDE DEF trip
  <2>. QED BY <1>0, <2>3, <2>5, <2>6, <2>7 DEF Typed
<1>4. CASE Consumed
  <2>1. \/ Observe(Event(flight.answer, Walk(flight.env), flight.winner))
        \/ UNCHANGED entries
    BY <1>4 DEF Consumed
  <2>2. Ids' = Ids /\ \A id \in Ids : entries'[id] \in Seq(Slots) /\ FromOffer(entries'[id])
    BY <2>1, LearningTyped
  <2>. QED BY <1>4, <2>2 DEF Typed, Consumed
<1>5. CASE CancelRoute
  BY <1>5 DEF Typed, CancelRoute, Ids
<1>6. CASE UNCHANGED vars
  BY <1>6 DEF Typed, vars, Ids
<1>. QED BY <1>1, <1>2, <1>3, <1>4, <1>5, <1>6 DEF Next

\* Every step keeps what is known of the route under way and of the last one.
LEMMA TripsStep ==
  ASSUME RouteInv, [Next]_vars
  PROVE  FlightOK' /\ LastOK'
<1>0. Typed /\ FlightOK /\ LastOK /\ (OffersInRange => EntriesOK)
  BY DEF RouteInv
<1>1. CASE (\E slots \in Offers : Register(slots)) \/ (\E id \in Ids : Deregister(id))
  <2>1. flight = None /\ flight' = None /\ last' = None
    BY <1>1 DEF Register, Deregister
  <2>. QED BY <2>1 DEF FlightOK, LastOK
<1>2. ASSUME NEW e \in Envelopes, NEW answer \in [Accepting(e) -> Answers],
             Route(e, Walk(e), answer)
      PROVE  FlightOK' /\ LastOK'
  <2>1. PICK winner : winner = Winner(Walk(e), answer)
    OBVIOUS
  <2>2. PICK trip : trip = [env |-> e, answer |-> answer, winner |-> winner]
    OBVIOUS
  <2>3. Outcome(winner, Accepting(e), answer, Scores(e))
    BY <1>0, <2>1, ScoresTyped, WalkIsRanked, WinnerIsBest
  <2>4. trip.env = e /\ trip.answer = answer /\ trip.winner = winner
    BY <2>2
  <2>5. CASE winner # None
    <3>1. flight' = trip /\ UNCHANGED <<router, entries, last>>
      BY <1>2, <2>1, <2>2, <2>5 DEF Route
    <3>2. Reached(trip)'
      <4>1. Reached(trip) BY <2>3, <2>4 DEF Reached
      <4>. QED BY <3>1, <4>1, PlanKept DEF Reached
    <3>3. FlightOK'
      BY <2>4, <2>5, <3>1, <3>2 DEF FlightOK, Reached
    <3>4. LastOK'
      <4>1. \A f : Accepting(f)' = Accepting(f) /\ Scores(f)' = Scores(f) BY <3>1, PlanKept
      <4>. QED BY <1>0, <3>1, <4>1 DEF LastOK, Reached
    <3>. QED BY <3>3, <3>4
  <2>6. CASE winner = None
    <3>1. /\ last' = trip /\ flight = None /\ flight' = None
          /\ Observe(Event(answer, Walk(e), None)) \/ UNCHANGED entries
      BY <1>2, <2>1, <2>2, <2>6 DEF Route
    <3>2. Accepting(e)' = Accepting(e)
      BY <1>0, <3>1, LearningTyped
    <3>3. \A id \in Accepting(e) : answer[id] # "take"
      BY <2>3, <2>6 DEF Outcome
    <3>4. LastOK'
      BY <2>4, <2>6, <3>1, <3>2, <3>3 DEF LastOK, Reached, Outcome
    <3>. QED BY <3>1, <3>4 DEF FlightOK
  <2>. QED BY <2>5, <2>6
<1>3. CASE Consumed
  <2>1. PICK trip : trip = flight
    OBVIOUS
  <2>2. trip # None /\ trip \in Trips /\ trip.winner # None /\ Reached(trip)
        /\ last' = trip /\ flight' = None /\ UNCHANGED router
        /\ IF Affinity THEN Observe(Event(trip.answer, Walk(trip.env), trip.winner))
           ELSE UNCHANGED entries
    BY <1>0, <1>3, <2>1 DEF Consumed, Typed, FlightOK
  <2>3. Accepting(trip.env)' = Accepting(trip.env)
    BY <1>0, <2>2, LearningTyped
  <2>4. OffersInRange => Reached(trip)'
    <3>1. CASE Affinity
      BY <1>0, <2>2, <3>1, OutcomeSurvives
    <3>2. CASE ~Affinity
      <4>1. \A f : Accepting(f)' = Accepting(f) /\ Scores(f)' = Scores(f) BY <2>2, <3>2, PlanKept
      <4>. QED BY <2>2, <4>1 DEF Reached
    <3>. QED BY <3>1, <3>2
  <2>5. trip.answer \in [Accepting(trip.env) -> Answers] /\ trip.winner \in Accepting(trip.env)
    BY <2>2 DEF Reached, Outcome, Best
  <2>6. LastOK'
    BY <2>2, <2>3, <2>4, <2>5 DEF LastOK, Reached
  <2>. QED BY <2>2, <2>6 DEF FlightOK
<1>4. CASE CancelRoute
  BY <1>4 DEF CancelRoute, FlightOK, LastOK
<1>5. CASE UNCHANGED vars
  <2>1. \A f : Accepting(f)' = Accepting(f) /\ Scores(f)' = Scores(f) BY <1>5, PlanKept DEF vars
  <2>. QED BY <1>0, <1>5, <2>1 DEF FlightOK, LastOK, Reached, vars
<1>. QED BY <1>1, <1>2, <1>3, <1>4, <1>5 DEF Next

\* The invariant holds in every reachable state.
LEMMA RouteInvariant == Spec => []RouteInv
<1>1. Init => RouteInv
  <2> SUFFICES ASSUME Init PROVE RouteInv OBVIOUS
  <2>1. Ids = {} BY DEF Init, Ids
  <2>2. Typed
    BY <2>1, RouterBounds DEF Init, Typed
  <2>3. FlightOK /\ LastOK BY DEF Init, FlightOK, LastOK
  <2>. QED BY <2>1, <2>2, <2>3 DEF RouteInv, EntriesOK
<1>2. RouteInv /\ [Next]_vars => RouteInv'
  BY TypedStep, TripsStep, EntriesStep DEF RouteInv
<1>. QED BY <1>1, <1>2, PTL DEF Spec

-----------------------------------------------------------------------------
(* Type correctness: ids below the next one, every consumer with the       *)
(* dimensions it was registered with; and whoever the route under way, or  *)
(* the last one, asked or chose is still registered.                       *)
THEOREM RouterTypeInvariant == Spec => []TypeOK
<1>1. RouteInv => TypeOK
  <2> SUFFICES ASSUME RouteInv PROVE TypeOK OBVIOUS
  <2>1. ASSUME NEW id \in Ids
        PROVE  \E o \in Offers : /\ DOMAIN entries[id] = DOMAIN o
                                 /\ \A i \in DOMAIN o : /\ entries[id][i].dim = o[i].dim
                                                        /\ entries[id][i].required = o[i].required
                                                        /\ entries[id][i].weight \in Int
    <3> DEFINE x == entries[id]
    <3>1. x \in Seq(Slots) /\ FromOffer(x) BY DEF RouteInv, Typed
    <3> HIDE DEF x
    <3>2. PICK o \in Offers :
            /\ Len(x) = Len(o)
            /\ \A i \in 1..Len(x) : x[i].dim = o[i].dim /\ x[i].required = o[i].required
      BY <3>1 DEF FromOffer
    <3>3. DOMAIN x = 1..Len(x) BY <3>1
    <3>4. DOMAIN o = 1..Len(o)
      <4>1. o \in Seq(Slots) BY OffersAreSlots
      <4>. QED BY <4>1
    <3>5. ASSUME NEW i \in 1..Len(x) PROVE x[i].weight \in Int
      <4>1. x[i] \in Slots BY <3>1
      <4>. QED BY <4>1 DEF Slots
    <3>. QED BY <3>2, <3>3, <3>4, <3>5 DEF x
  <2>2. \A e : Accepting(e) \subseteq Ids
    BY DEF Accepting
  <2>3. flight # None => DOMAIN flight.answer \subseteq Ids /\ flight.winner \in Ids
    BY <2>2 DEF RouteInv, FlightOK, Reached, Outcome, Best
  <2>4. last # None => DOMAIN last.answer \subseteq Ids /\ last.winner \in Ids \cup {None}
    BY <2>2 DEF RouteInv, LastOK
  <2>. QED BY <2>1, <2>3, <2>4 DEF RouteInv, Typed, TypeOK
<1>. QED BY <1>1, RouteInvariant, PTL

(* The consumer whose consume() is awaited qualifies, is willing, and has  *)
(* a better claim than everyone else who is, for any number of consumers,  *)
(* dimensions and weights.                                                 *)
THEOREM BestWinsTheorem == Spec => []BestWins
<1>1. RouteInv => BestWins
  <2> SUFFICES ASSUME RouteInv, flight # None
               PROVE  /\ flight.winner \in Takers(flight) \cap Accepting(flight.env)
                      /\ \A id \in Takers(flight) \ {flight.winner} :
                           LET won == Score(flight.winner, flight.env)
                               lost == Score(id, flight.env)
                           IN  \/ Affinity /\ lost < won
                               \/ (Affinity => lost = won) /\ flight.winner < id
    BY DEF BestWins
  <2> DEFINE e == flight.env
             A == Accepting(e)
             x == flight.winner
  <2>1. /\ Typed /\ flight.answer \in [A -> Answers]
        /\ Best(x, A, flight.answer, Scores(e))
    BY DEF RouteInv, FlightOK, Reached, Outcome
  <2>2. x \in A /\ x \in Takers(flight) /\ Takers(flight) \subseteq A
    BY <2>1 DEF Best, Takers
  <2>3. ASSUME NEW id \in Takers(flight) \ {x}
        PROVE  \/ Affinity /\ Score(id, e) < Score(x, e)
               \/ (Affinity => Score(id, e) = Score(x, e)) /\ x < id
    <3>1. id \in A /\ Outranks(x, id, Scores(e))
      BY <2>1, <2>2, <2>3 DEF Best, Takers
    <3>2. Score(id, e) \in Int /\ Score(x, e) \in Int
      BY <2>1, <2>2, <3>1, ScoresTyped, ScoreInt
    <3>3. /\ Scores(e)[x] = IF Affinity THEN Score(x, e) ELSE 0
          /\ Scores(e)[id] = IF Affinity THEN Score(id, e) ELSE 0
      BY <2>2, <3>1 DEF Scores
    <3> HIDE DEF e, x
    <3>. QED BY <3>1, <3>2, <3>3 DEF Outranks
  <2>. QED BY <2>2, <2>3
<1>. QED BY <1>1, RouteInvariant, PTL

(* A message comes back unhandled only when everyone whose requirements it *)
(* meets was asked and refused.                                            *)
THEOREM NobodyPassedOverTheorem == Spec => []NobodyPassedOver
<1>1. RouteInv => NobodyPassedOver
  BY DEF RouteInv, LastOK, NobodyPassedOver, Takers
<1>. QED BY <1>1, RouteInvariant, PTL

(* What a route teaches never changes its own outcome: the winner's score  *)
(* only rises and whoever else was willing keeps what it had.              *)
THEOREM StableTheorem == Spec => []Stable
<1>1. RouteInv => Stable
  <2> SUFFICES ASSUME RouteInv, OffersInRange, last # None
               PROVE  Winner(Walk(last.env), last.answer) = last.winner
    BY DEF Stable
  <2> DEFINE e == last.env
             A == Accepting(e)
  <2>1. Typed /\ Outcome(last.winner, A, last.answer, Scores(e))
    BY DEF RouteInv, LastOK, Reached
  <2>2. /\ A \in SUBSET Nat /\ IsFiniteSet(A) /\ Scores(e) \in [A -> Int]
        /\ Ranked(Walk(e), A, Scores(e))
    BY <2>1, ScoresTyped, WalkIsRanked
  <2>3. Outcome(Winner(Walk(e), last.answer), A, last.answer, Scores(e))
    BY <2>2, WinnerIsBest
  <2>. QED BY <2>1, <2>2, <2>3, OneBest
<1>. QED BY <1>1, RouteInvariant, PTL

(* A consumer that a message matches stays ahead of one that it matches in *)
(* nothing, however often it was busy: its score is the floor at least.    *)
THEOREM PreferenceSurvivesTheorem == Spec => []PreferenceSurvives
<1>1. RouteInv => PreferenceSurvives
  <2> SUFFICES ASSUME RouteInv, OffersInRange, Affinity, NEW e \in Envelopes,
                      NEW a \in Accepting(e), NEW b \in Accepting(e),
                      \E s \in SlotsOf(a) : Matches(s.dim, e),
                      \A s \in SlotsOf(a) : s.dim.kind # "broken",
                      \A s \in SlotsOf(b) : ~Matches(s.dim, e)
               PROVE  Outranks(a, b, Scores(e))
    BY DEF PreferenceSurvives
  <2>1. Typed /\ EntriesOK /\ a \in Ids /\ b \in Ids /\ a \in Nat /\ b \in Nat
    BY ScoresTyped DEF RouteInv
  <2>2. /\ entries[a] \in Seq(Slots) /\ entries[b] \in Seq(Slots)
        /\ Len(entries[a]) \in Nat /\ Len(entries[b]) \in Nat
        /\ SlotsOf(a) = {entries[a][i] : i \in 1..Len(entries[a])}
        /\ SlotsOf(b) = {entries[b][i] : i \in 1..Len(entries[b])}
    BY <2>1 DEF Typed, SlotsOf, ToSet
  <2>3. Floor \in Int /\ Floor > 0
    BY SMT DEF Floor, One
  <2> HIDE DEF Floor
  <2>4. ASSUME NEW n \in 1..Len(entries[a])
        PROVE  entries[a][n].weight \in Int /\ entries[a][n].weight >= Floor
    <3> DEFINE x == entries[a]
    <3>0. x \in Seq(Slots) /\ n \in DOMAIN x /\ x[n] \in Slots BY <2>2
    <3>1. InRange(entries[a][n].weight)
      <4>1. EntryOK(x) BY <2>1 DEF EntriesOK
      <4> HIDE DEF x
      <4>2. InRange(x[n].weight) BY <3>0, <4>1 DEF EntryOK, SlotOK
      <4>. QED BY <4>2 DEF x
    <3>2. entries[a][n].weight \in Int BY <3>0 DEF Slots
    <3>3. Cap \in Int BY SMT DEF Cap, One
    <3> HIDE DEF Cap
    <3>. QED BY <2>3, <3>1, <3>2, <3>3 DEF InRange
  <2>5. Score(a, e) \in Int /\ Score(a, e) > 0
    <3>1. PICK i \in 1..Len(entries[a]) : Matches(entries[a][i].dim, e) BY <2>2
    <3>2. Earned(entries[a][i], e) \in Int /\ Earned(entries[a][i], e) >= Floor
      BY <2>4, <3>1 DEF Earned
    <3>3. \A n \in 1..Len(entries[a]) : /\ Earned(entries[a][n], e) \in Int
                                        /\ Earned(entries[a][n], e) >= 0
      BY <2>3, <2>4 DEF Earned
    <3>4. Total(entries[a], e) \in Int /\ Earned(entries[a][i], e) <= Total(entries[a], e)
      BY <2>2, <3>3, TotalAtLeast
    <3>5. Score(a, e) = Total(entries[a], e) BY DEF Score
    <3>. QED BY <2>3, <3>2, <3>4, <3>5
  <2>6. Score(b, e) = 0
    <3>1. \A n \in 1..Len(entries[b]) : Earned(entries[b][n], e) = 0 BY <2>2 DEF Earned
    <3>2. Total(entries[b], e) = 0 BY <2>2, <3>1, TotalZero
    <3>. QED BY <3>2 DEF Score
  <2>7. Scores(e)[a] = Score(a, e) /\ Scores(e)[b] = Score(b, e)
    BY DEF Scores
  <2>. QED BY <2>5, <2>6, <2>7 DEF Outranks
<1>. QED BY <1>1, RouteInvariant, PTL

\* Which way a consumer's weights move follows from what it is told.
LEMMA WeightsMove ==
  ASSUME Typed, EntriesOK, NEW ev, \A id \in DOMAIN ev : ev[id] \in Outcomes, Observe(ev),
         NEW id \in Ids, NEW i \in DOMAIN entries[id]
  PROVE  /\ entries'[id][i].weight # entries[id][i].weight => id \in DOMAIN ev /\ ev[id] # "skipped"
         /\ entries'[id][i].weight > entries[id][i].weight => ev[id] = "consumed"
         /\ entries'[id][i].weight < entries[id][i].weight => ev[id] \in {"busy", "vetoed"}
<1> DEFINE x == entries[id]
           y == entries'[id]
<1>1. /\ x \in Seq(Slots) /\ y \in Seq(Slots) /\ i \in 1..Len(x) /\ Len(y) = Len(x)
      /\ id \in DOMAIN ev => y[i] = Told(x[i], ev[id])
      /\ id \notin DOMAIN ev \/ ev[id] = "skipped" => y = x
  <2>1. x \in Seq(Slots) BY DEF Typed
  <2>2. i \in 1..Len(x) BY <2>1
  <2>. QED BY <2>1, <2>2, ObserveTyped
<1>2. EntryOK(x) BY DEF EntriesOK
<1>3. InRange(x[i].weight) BY <1>2 DEF EntryOK, SlotOK
<1> HIDE DEF x, y
<1>4. x[i].weight \in Int /\ y[i].weight \in Int /\ x[i] \in Slots
  <2>1. x[i] \in Slots /\ y[i] \in Slots BY <1>1
  <2>. QED BY <2>1 DEF Slots
<1>5. CASE id \in DOMAIN ev
  <2> DEFINE a == Adjust(x[i].weight, ev[id])
  <2>1. /\ ev[id] = "consumed" => x[i].weight <= a
        /\ ev[id] \in {"busy", "vetoed"} => a <= x[i].weight
    BY <1>3, <1>5, AdjustInRange
  <2>2. y[i] = IF x[i].dim.kind = "broken" THEN x[i] ELSE [x[i] EXCEPT !.weight = a]
    BY <1>1, <1>5 DEF Told
  <2> HIDE DEF a
  <2>3. y[i].weight = x[i].weight \/ y[i].weight = a
    BY <1>4, <2>2 DEF Slots
  <2>4. ev[id] \in {"consumed", "busy", "vetoed", "skipped"} BY <1>5 DEF Outcomes
  <2>. QED BY <1>1, <1>4, <1>5, <2>1, <2>3, <2>4 DEF x, y
<1>6. CASE id \notin DOMAIN ev
  BY <1>1, <1>4, <1>6 DEF x, y
<1>. QED BY <1>5, <1>6

\* What a step may do to the weights.
Learned ==
  \A id \in Ids \cap Ids' : \A i \in DOMAIN entries[id] :
    /\ entries[id][i].weight # entries'[id][i].weight =>
         Affinity /\ last' # None /\ id \in DOMAIN last'.answer
    /\ entries'[id][i].weight > entries[id][i].weight => id = last'.winner
    /\ entries'[id][i].weight < entries[id][i].weight =>
         /\ last'.answer[id] # "take"
         /\ last'.winner # None => Outranks(id, last'.winner, Scores(last'.env))

\* Who was told what: the weights move accordingly.
LEMMA RouteLearns ==
  ASSUME Typed, EntriesOK, NEW trip \in Trips, Reached(trip), Affinity, last' = trip,
         Observe(Event(trip.answer, Walk(trip.env), trip.winner))
  PROVE  Learned
<1> DEFINE e == trip.env
           A == Accepting(e)
           x == trip.winner
           ev == Event(trip.answer, Walk(e), x)
<1>1. /\ A \subseteq Ids /\ A \in SUBSET Nat /\ IsFiniteSet(A) /\ Scores(e) \in [A -> Int]
      /\ Ranked(Walk(e), A, Scores(e)) /\ DOMAIN trip.answer = A
      /\ Outcome(x, A, trip.answer, Scores(e))
  BY ScoresTyped, WalkIsRanked DEF Reached
<1>2. x \in A \cup {None}
  BY <1>1 DEF Outcome, Best
<1> HIDE DEF x, A, e
<1>3. /\ DOMAIN ev = A
      /\ \A id \in A :
           /\ id = x => ev[id] = "consumed"
           /\ id # x /\ x # None /\ Outranks(x, id, Scores(e)) => ev[id] = "skipped"
           /\ id # x /\ (x = None \/ ~Outranks(x, id, Scores(e)))
              => ev[id] \in {"busy", "vetoed"}
  BY <1>1, <1>2, WhatTheyAreTold
<1>4. (\A id \in DOMAIN ev : ev[id] \in Outcomes) /\ Observe(ev)
  BY EventsAreOutcomes DEF x, e
<1>5. trip # None
  BY NoneAssumption
<1> HIDE DEF ev
<1>6. ASSUME NEW id \in Ids, NEW i \in DOMAIN entries[id]
      PROVE  /\ entries[id][i].weight # entries'[id][i].weight => id \in A
             /\ entries'[id][i].weight > entries[id][i].weight => id = x
             /\ entries'[id][i].weight < entries[id][i].weight =>
                  /\ trip.answer[id] # "take"
                  /\ x # None => Outranks(id, x, Scores(e))
  <2>1. /\ entries'[id][i].weight # entries[id][i].weight => id \in DOMAIN ev /\ ev[id] # "skipped"
        /\ entries'[id][i].weight > entries[id][i].weight => ev[id] = "consumed"
        /\ entries'[id][i].weight < entries[id][i].weight => ev[id] \in {"busy", "vetoed"}
    BY <1>4, WeightsMove
  <2>2. \/ entries'[id][i].weight = entries[id][i].weight
        \/ entries'[id][i].weight # entries[id][i].weight /\ id \in A /\ ev[id] # "skipped"
    BY <1>3, <2>1
  <2>3. entries'[id][i].weight \in Int /\ entries[id][i].weight \in Int
    <3>1. entries[id] \in Seq(Slots) /\ entries'[id] \in Seq(Slots) /\ Len(entries'[id]) = Len(entries[id])
      BY <1>4, ObserveTyped DEF Typed
    <3>2. entries[id][i] \in Slots /\ entries'[id][i] \in Slots BY <3>1
    <3>. QED BY <3>2 DEF Slots
  <2>4. CASE entries'[id][i].weight = entries[id][i].weight
    BY <2>3, <2>4
  <2>5. CASE entries'[id][i].weight > entries[id][i].weight
    BY <1>3, <2>1, <2>2, <2>3, <2>5
  <2>6. CASE entries'[id][i].weight < entries[id][i].weight
    <3>1. id \in A /\ ev[id] \in {"busy", "vetoed"} BY <2>1, <2>2, <2>3, <2>6
    <3>2. id # x /\ (x # None => ~Outranks(x, id, Scores(e))) BY <1>3, <3>1
    <3>3. x # None => Outranks(id, x, Scores(e)) BY <1>1, <1>2, <3>1, <3>2, OutranksOrder
    <3>4. trip.answer[id] # "take"
      BY <1>1, <3>1, <3>2 DEF Outcome, Best
    <3>. QED BY <2>3, <2>6, <3>1, <3>3, <3>4
  <2>. QED BY <2>3, <2>4, <2>5, <2>6
<1>. QED BY <1>1, <1>5, <1>6 DEF Learned, x, e

(* A weight moves only when a route ends, only in the affinity router, up  *)
(* only for the consumer that consumed, and down only for one that was     *)
(* asked before it and refused, for any consumers, weights and answers.    *)
THEOREM LearnsFromOutcomeTheorem == Spec => LearnsFromOutcome
<1>1. RouteInv /\ [Next]_vars => [OffersInRange => Learned]_vars
  <2> SUFFICES ASSUME RouteInv, Next, OffersInRange PROVE Learned OBVIOUS
  <2>0. Typed /\ EntriesOK /\ FlightOK BY DEF RouteInv
  <2>1. ASSUME UNCHANGED entries PROVE Learned
    <3>1. \A id \in Ids : \A i \in DOMAIN entries[id] :
            entries[id][i].weight \in Int /\ entries'[id][i].weight = entries[id][i].weight
      <4> SUFFICES ASSUME NEW id \in Ids, NEW i \in DOMAIN entries[id]
                   PROVE  entries[id][i].weight \in Int
        BY <2>1
      <4>1. entries[id] \in Seq(Slots) BY <2>0 DEF Typed
      <4>2. entries[id][i] \in Slots BY <4>1
      <4>. QED BY <4>2 DEF Slots
    <3>. QED BY <3>1 DEF Learned
  <2>2. CASE (\E slots \in Offers : Register(slots)) \/ (\E id \in Ids : Deregister(id))
    <3>1. nextId \notin Ids
      <4>1. nextId \in Int /\ Ids \subseteq 0..nextId - 1 BY <2>0 DEF Typed
      <4>. QED BY <4>1
    <3>2. \A id \in Ids \cap Ids' : entries'[id] = entries[id]
      BY <2>2, <3>1 DEF Register, Deregister, Ids
    <3>3. \A id \in Ids : \A i \in DOMAIN entries[id] : entries[id][i].weight \in Int
      <4> TAKE id \in Ids
      <4> TAKE i \in DOMAIN entries[id]
      <4>1. entries[id] \in Seq(Slots) BY <2>0 DEF Typed
      <4>2. entries[id][i] \in Slots BY <4>1
      <4>. QED BY <4>2 DEF Slots
    <3>. QED BY <3>2, <3>3 DEF Learned
  <2>3. ASSUME NEW e \in Envelopes, NEW answer \in [Accepting(e) -> Answers],
               Route(e, Walk(e), answer)
        PROVE  Learned
    <3>1. PICK winner : winner = Winner(Walk(e), answer)
      OBVIOUS
    <3>2. PICK trip : trip = [env |-> e, answer |-> answer, winner |-> winner]
      OBVIOUS
    <3>3. Outcome(winner, Accepting(e), answer, Scores(e))
      BY <2>0, <3>1, ScoresTyped, WalkIsRanked, WinnerIsBest
    <3>4. trip \in Trips
      <4>1. winner \in Accepting(e) \cup {None} BY <3>3 DEF Outcome, Best
      <4>. QED BY <2>0, <3>2, <4>1, TripTyped
    <3>5. trip.env = e /\ trip.answer = answer /\ trip.winner = winner
      BY <3>2
    <3>6. Reached(trip)
      BY <3>3, <3>5 DEF Reached
    <3>7. CASE winner = None /\ Affinity
      <4>1. last' = trip /\ Observe(Event(trip.answer, Walk(trip.env), trip.winner))
        BY <2>3, <3>1, <3>2, <3>5, <3>7 DEF Route
      <4>. QED BY <2>0, <3>4, <3>6, <3>7, <4>1, RouteLearns
    <3>8. CASE ~(winner = None /\ Affinity)
      <4>1. UNCHANGED entries BY <2>3, <3>1, <3>8 DEF Route
      <4>. QED BY <2>1, <4>1
    <3>. QED BY <3>7, <3>8
  <2>4. CASE Consumed
    <3>1. PICK trip : trip = flight
      OBVIOUS
    <3>2. trip \in Trips /\ Reached(trip) /\ last' = trip
      BY <2>0, <2>4, <3>1 DEF Consumed, Typed, FlightOK
    <3>3. CASE Affinity
      <4>1. Observe(Event(trip.answer, Walk(trip.env), trip.winner)) BY <2>4, <3>1, <3>3 DEF Consumed
      <4>. QED BY <2>0, <3>2, <3>3, <4>1, RouteLearns
    <3>4. CASE ~Affinity
      <4>1. UNCHANGED entries BY <2>4, <3>4 DEF Consumed
      <4>. QED BY <2>1, <4>1
    <3>. QED BY <3>3, <3>4
  <2>5. CASE CancelRoute
    <3>1. UNCHANGED entries BY <2>5 DEF CancelRoute
    <3>. QED BY <2>1, <3>1
  <2>. QED BY <2>2, <2>3, <2>4, <2>5 DEF Next
<1>. QED BY <1>1, RouteInvariant, PTL DEF Spec, LearnsFromOutcome, Learned
=============================================================================
