--------------------------- MODULE DispatchProofs ---------------------------
(* Theorems about a call of the dispatcher, for any registry, any number   *)
(* of candidates, and nodes that crash and restart at any time.            *)
EXTENDS Dispatch, FiniteSetTheorems, SequenceTheorems, WellFoundedInduction, TLAPS

----------------------------------------------------------------------------
(* Arithmetic and counting.                                                *)

(* A quotient and a remainder are unique. *)
LEMMA DivisionIsUnique ==
  ASSUME NEW M \in Nat \ {0}, NEW q \in Nat, NEW r \in 0 .. M - 1,
         NEW p \in Nat, NEW s \in 0 .. M - 1, M * q + r = M * p + s
  PROVE  q = p /\ r = s
<1>1. ASSUME NEW a \in Nat, NEW b \in Nat, NEW c \in 0 .. M - 1, NEW d \in 0 .. M - 1,
             a < b, M * a + c = M * b + d
      PROVE  FALSE
  <2>1. PICK e \in Nat : b = a + 1 + e
    <3>1. b - a - 1 \in Nat /\ b = a + 1 + (b - a - 1)
      BY <1>1
    <3>2. QED  BY <3>1
  <2>2. M * b = M * a + M + M * e /\ M * e \in Nat
    BY <2>1
  <2>3. QED  BY <1>1, <2>2
<1>2. q = p
  BY <1>1
<1>3. QED  BY <1>2

(* A set of numbers and its elements below one of them. *)
LEMMA Below ==
  ASSUME NEW S \in SUBSET Int, IsFiniteSet(S), NEW n \in S
  PROVE  /\ IsFiniteSet({m \in S : m < n})
         /\ Cardinality({m \in S : m < n}) \in 0 .. Cardinality(S) - 1
         /\ Cardinality(S) \in Nat
<1> DEFINE B == {m \in S : m < n}
<1>1. B \subseteq S \ {n}
  OBVIOUS
<1>2. IsFiniteSet(S \ {n}) /\ Cardinality(S \ {n}) = Cardinality(S) - 1
  BY FS_RemoveElement
<1>3. IsFiniteSet(B) /\ Cardinality(B) <= Cardinality(S \ {n})
  BY <1>1, <1>2, FS_Subset
<1>4. Cardinality(B) \in Nat /\ Cardinality(S) \in Nat
  BY <1>3, FS_CardinalityType
<1>5. QED  BY <1>2, <1>3, <1>4

(* Of two elements the larger has more below it. *)
LEMMA RankGrows ==
  ASSUME NEW S \in SUBSET Int, IsFiniteSet(S), NEW n \in S, NEW p \in S, n < p
  PROVE  Cardinality({m \in S : m < n}) < Cardinality({m \in S : m < p})
<1> DEFINE B(x) == {m \in S : m < x}
<1>1. B(n) \subseteq B(p) \ {n} /\ n \in B(p)
  <2>1. \A m \in S : m < n => m < p /\ m # n
    <3>1. n \in Int /\ p \in Int
      OBVIOUS
    <3>2. QED  BY <3>1
  <2>2. QED  BY <2>1
<1>2. IsFiniteSet(B(p)) /\ Cardinality(B(p)) \in Int /\ IsFiniteSet(B(n)) /\ Cardinality(B(n)) \in Int
  BY Below
<1> HIDE DEF B
<1>3. IsFiniteSet(B(p) \ {n}) /\ Cardinality(B(p) \ {n}) = Cardinality(B(p)) - 1
  BY <1>1, <1>2, FS_RemoveElement
<1>4. Cardinality(B(n)) <= Cardinality(B(p) \ {n})
  BY <1>1, <1>3, FS_Subset
<1>5. Cardinality(B(n)) < Cardinality(B(p))
  BY <1>2, <1>3, <1>4
<1>6. QED  BY <1>5 DEF B

(* InOrder lists every element of its set once, the smallest first. *)
LEMMA InOrderLists ==
  ASSUME NEW S \in SUBSET Int, IsFiniteSet(S)
  PROVE  /\ Cardinality(S) \in Nat
         /\ InOrder(S) \in [1 .. Cardinality(S) -> S]
         /\ \A r, q \in 1 .. Cardinality(S) : r < q => InOrder(S)[r] < InOrder(S)[q]
         /\ \A n \in S : \E r \in 1 .. Cardinality(S) : InOrder(S)[r] = n
<1> DEFINE N == Cardinality(S)
           B(x) == Cardinality({m \in S : m < x})
           Rank == [n \in S |-> B(n) + 1]
<1>1. N \in Nat
  BY FS_CardinalityType
<1>2. \A n \in S : B(n) \in 0 .. N - 1
  BY Below
<1>3. \A n, p \in S : n < p => B(n) < B(p)
  BY RankGrows
<1>4. InOrder(S) = [r \in 1 .. N |-> CHOOSE n \in S : B(n) = r - 1]
  BY DEF InOrder
<1> HIDE DEF N, B
<1>5. \A n, p \in S : B(n) = B(p) => n = p
  <2>1. TAKE n \in S, p \in S
  <2>2. HAVE B(n) = B(p)
  <2>3. B(n) \in Int /\ ~(n < p) /\ ~(p < n)
    BY <1>2, <1>3, <2>2
  <2>4. QED  BY <2>3
<1>6. Rank \in Injection(S, 1 .. N)
  <2>1. Rank \in [S -> 1 .. N]
    BY <1>1, <1>2
  <2>2. IsInjective(Rank)
    BY <1>2, <1>5 DEF IsInjective
  <2>3. QED  BY <2>1, <2>2 DEF Injection
<1>7. IsFiniteSet(1 .. N) /\ Cardinality(1 .. N) = N
  BY <1>1, FS_Interval
<1>8. Rank \in Surjection(S, 1 .. N)
  <2> HIDE DEF Rank
  <2>1. QED  BY <1>6, <1>7, FS_Injection DEF N
<1>9. \A r \in 1 .. N : InOrder(S)[r] \in S /\ B(InOrder(S)[r]) = r - 1
  <2>1. TAKE r \in 1 .. N
  <2>2. \E n \in S : Rank[n] = r
    BY <1>8 DEF Surjection
  <2>3. \E n \in S : B(n) = r - 1
    BY <1>1, <1>2, <2>2
  <2>4. QED  BY <1>4, <2>3
<1>10. \A n \in S : \E r \in 1 .. N : InOrder(S)[r] = n
  <2>1. TAKE n \in S
  <2>2. B(n) + 1 \in 1 .. N /\ (B(n) + 1) - 1 = B(n)
    BY <1>1, <1>2
  <2>3. InOrder(S)[B(n) + 1] = n
    BY <1>5, <1>9, <2>2
  <2>4. QED  BY <2>2, <2>3
<1>11. \A r, q \in 1 .. N : r < q => InOrder(S)[r] < InOrder(S)[q]
  <2>1. TAKE r \in 1 .. N, q \in 1 .. N
  <2>2. HAVE r < q
  <2>3. CASE InOrder(S)[q] < InOrder(S)[r]
    <3>1. B(InOrder(S)[q]) < B(InOrder(S)[r])
      BY <1>3, <1>9, <2>3
    <3>2. q - 1 < r - 1
      BY <1>9, <3>1
    <3>3. QED  BY <1>1, <2>2, <3>2
  <2>4. InOrder(S)[q] # InOrder(S)[r]
    BY <1>1, <1>9, <2>2
  <2>5. InOrder(S)[q] \in Int /\ InOrder(S)[r] \in Int
    BY <1>9
  <2>6. QED  BY <2>3, <2>4, <2>5
<1>12. InOrder(S) \in [1 .. N -> S]
  BY <1>4, <1>9
<1>13. QED  BY <1>1, <1>10, <1>11, <1>12 DEF N

----------------------------------------------------------------------------
(* Induction, and loops as recursive functions.                           *)

(* A set of natural numbers has a least element. *)
LEMMA Least ==
  ASSUME NEW T \in SUBSET Nat, T # {}
  PROVE  \E x \in T : \A y \in T : x <= y
<1>1. PICK x \in T : \A y \in T : ~ (<<y, x>> \in OpToRel(<, Nat))
  BY WFMin, NatLessThanWellFounded
<1>2. \A y \in T : ~(y < x)
  BY <1>1 DEF OpToRel
<1>3. QED  BY <1>2

(* What 0 has, and each number passes on to the next, all of them have. *)
LEMMA NextReachesAll ==
  ASSUME NEW S, 0 \in S, \A n \in Nat : n \in S => n + 1 \in S
  PROVE  Nat \subseteq S
<1> SUFFICES ASSUME Nat \ S # {} PROVE FALSE
  OBVIOUS
<1>1. PICK x \in Nat \ S : \A y \in Nat \ S : x <= y
  BY Least
<1>2. x # 0 /\ x - 1 \in Nat
  BY <1>1
<1>3. x - 1 \in S
  BY <1>1, <1>2
<1>4. QED  BY <1>2, <1>3

(* Induction up to a bound. *)
LEMMA NextReachesBound ==
  ASSUME NEW a \in Nat, NEW n \in Nat, NEW S, a \in S,
         \A k \in a + 1 .. n : k - 1 \in S => k \in S
  PROVE  \A k \in a .. n : k \in S
<1> DEFINE Q == {m \in Nat : a + m <= n => a + m \in S}
<1>1. 0 \in Q
  OBVIOUS
<1>2. \A m \in Nat : m \in Q => m + 1 \in Q
  <2> TAKE m \in Nat
  <2> HAVE m \in Q
  <2>1. CASE a + (m + 1) <= n
    <3>1. a + (m + 1) \in a + 1 .. n /\ a + (m + 1) - 1 = a + m /\ a + m <= n
      BY <2>1
    <3>2. QED  BY <3>1
  <2>2. QED  BY <2>1
<1> HIDE DEF Q
<1>3. Nat \subseteq Q
  BY <1>1, <1>2, NextReachesAll
<1>4. ASSUME NEW k \in a .. n PROVE k \in S
  <2>1. k - a \in Nat /\ a + (k - a) = k /\ k <= n
    OBVIOUS
  <2>2. PICK m \in Nat : k = a + m
    BY <2>1
  <2>3. m \in Q
    BY <1>3
  <2>4. QED  BY <2>1, <2>2, <2>3 DEF Q
<1>5. QED  BY <1>4

(* f[k] is what the loop "for k := a + 1 .. n" has made of b after turn k. *)
IsLoop(f, T, a, n, b, step) ==
  /\ f \in [a .. n -> T]
  /\ f[a] = b
  /\ \A k \in a + 1 .. n : f[k] = step[<<f[k - 1], k>>]

(* Every loop has such a function: it makes a value of T of a value of T,  *)
(* turn by turn.                                                           *)
LEMMA LoopExists ==
  ASSUME NEW T, NEW a \in Nat, NEW n \in Nat, a <= n, NEW b \in T,
         NEW step \in [T \X Nat -> T]
  PROVE  \E f : IsLoop(f, T, a, n, b, step)
<1> DEFINE Ok(m) == \E f \in [a .. a + m -> T] :
              f[a] = b /\ \A k \in a + 1 .. a + m : f[k] = step[<<f[k - 1], k>>]
           S == {m \in Nat : Ok(m)}
<1>1. Ok(0)
  <2> DEFINE f == [k \in a .. a + 0 |-> b]
  <2>1. f \in [a .. a + 0 -> T] /\ f[a] = b /\ a + 1 .. a + 0 = {}
    OBVIOUS
  <2>2. QED  BY <2>1
<1>2. ASSUME NEW m \in Nat, Ok(m)
      PROVE  Ok(m + 1)
  <2> PICK f \in [a .. a + m -> T] :
              f[a] = b /\ \A k \in a + 1 .. a + m : f[k] = step[<<f[k - 1], k>>]
    BY <1>2
  <2> DEFINE last == step[<<f[a + m], a + m + 1>>]
             g == [k \in a .. a + (m + 1) |-> IF k = a + m + 1 THEN last ELSE f[k]]
  <2>1. last \in T
    OBVIOUS
  <2> HIDE DEF last
  <2>2. g \in [a .. a + (m + 1) -> T]
    BY <2>1
  <2>3. g[a] = b
    OBVIOUS
  <2>4. ASSUME NEW k \in a + 1 .. a + (m + 1)
        PROVE  g[k] = step[<<g[k - 1], k>>]
    <3>1. CASE k = a + m + 1
      <4>1. g[k] = last /\ g[k - 1] = f[a + m]
        BY <3>1
      <4>2. QED  BY <3>1, <4>1 DEF last
    <3>2. CASE k # a + m + 1
      BY <3>2
    <3>3. QED  BY <3>1, <3>2
  <2> HIDE DEF g
  <2>5. QED  BY <2>2, <2>3, <2>4
<1> HIDE DEF Ok
<1>3. \A m \in Nat : Ok(m)
  <2>1. 0 \in S /\ \A m \in Nat : m \in S => m + 1 \in S
    BY <1>1, <1>2
  <2> HIDE DEF S
  <2>2. Nat \subseteq S
    BY <2>1, NextReachesAll
  <2>3. QED  BY <2>2 DEF S
<1>4. PICK m \in Nat : n = a + m
  <2>1. n - a \in Nat /\ n = a + (n - a)
    OBVIOUS
  <2>2. QED  BY <2>1
<1>5. Ok(m)
  BY <1>3
<1>6. QED  BY <1>4, <1>5 DEF Ok, IsLoop

----------------------------------------------------------------------------
(* The sort of PredictBatch.                                              *)

(* The sequences that hold each value of V once. *)
OrdersOf(V, n) ==
  {t \in [1 .. n -> V] : /\ \A p, q \in 1 .. n : t[p] = t[q] => p = q
                         /\ \A v \in V : \E p \in 1 .. n : t[p] = v}

(* A function on 1 .. n is a sequence of n elements. *)
LEMMA LengthIs ==
  ASSUME NEW V, NEW n \in Nat, NEW t \in [1 .. n -> V]
  PROVE  Len(t) = n /\ t \in Seq(V) /\ DOMAIN t = 1 .. n
OBVIOUS

(* An exchange loses no result, leaves the better one at i, and touches    *)
(* nothing but i and j.                                                    *)
LEMMA ExchangeIs ==
  ASSUME NEW V, \A v \in V : v.score \in Int, NEW n \in Nat,
         NEW t \in OrdersOf(V, n), NEW i \in 1 .. n, NEW j \in 1 .. n, i # j
  PROVE  /\ Exchange(t, i, j) \in OrdersOf(V, n)
         /\ Exchange(t, i, j)[i].score >= t[i].score
         /\ Exchange(t, i, j)[i].score >= Exchange(t, i, j)[j].score
         /\ \A k \in 1 .. n : k # i /\ k # j => Exchange(t, i, j)[k] = t[k]
         /\ \A k \in 1 .. n : Exchange(t, i, j)[k] \in {t[k], t[i], t[j]}
<1> DEFINE x == Exchange(t, i, j)
           y == [k \in 1 .. n |-> CASE k = i -> t[j] [] k = j -> t[i] [] OTHER -> t[k]]
<1>1. t \in [1 .. n -> V] /\ DOMAIN t = 1 .. n
  BY DEF OrdersOf
<1>2. t[i] \in V /\ t[j] \in V /\ t[i].score \in Int /\ t[j].score \in Int
  BY <1>1
<1>3. CASE ~ (t[j].score > t[i].score)
  <2>1. x = t
    BY <1>3 DEF Exchange
  <2>2. QED  BY <2>1, <1>2, <1>3
<1>4. CASE t[j].score > t[i].score
  <2>1. x = y
    BY <1>1, <1>4 DEF Exchange
  <2> HIDE DEF x
  <2>2. /\ y[i] = t[j] /\ y[j] = t[i]
        /\ \A k \in 1 .. n : k # i /\ k # j => y[k] = t[k]
    OBVIOUS
  <2>3. y \in [1 .. n -> V]
    BY <1>1, <1>2
  <2> HIDE DEF y
  <2>4. \A p, q \in 1 .. n : y[p] = y[q] => p = q
    BY <2>2, <1>1 DEF OrdersOf
  <2>5. \A v \in V : \E p \in 1 .. n : y[p] = v
    <3> TAKE v \in V
    <3>1. PICK p \in 1 .. n : t[p] = v
      BY DEF OrdersOf
    <3>2. QED  BY <3>1, <2>2
  <2>6. y \in OrdersOf(V, n)
    BY <2>3, <2>4, <2>5 DEF OrdersOf
  <2>7. \A k \in 1 .. n : y[k] \in {t[k], t[i], t[j]}
    BY <2>2
  <2>8. y[i].score >= t[i].score /\ y[i].score >= y[j].score
    BY <2>2, <1>2, <1>4
  <2>9. QED  BY <2>1, <2>2, <2>6, <2>7, <2>8 DEF x
<1>5. QED  BY <1>3, <1>4

(* u[k] is what the inner loop has made of t after its turn k. *)
IsSweep(u, V, n, t, i) ==
  /\ u \in [i .. n -> OrdersOf(V, n)]
  /\ u[i] = t
  /\ \A k \in i + 1 .. n : u[k] = Exchange(u[k - 1], i, k)
  /\ Sweep(t, i) = u[n]

(* The inner loop of the sort, turn by turn. *)
LEMMA SweepIs ==
  ASSUME NEW V, \A v \in V : v.score \in Int, NEW n \in Nat,
         NEW t \in OrdersOf(V, n), NEW i \in 1 .. n
  PROVE  \E u : IsSweep(u, V, n, t, i)
<1> DEFINE T == OrdersOf(V, n)
           step == [p \in T \X Nat |-> IF p[2] \in i + 1 .. n THEN Exchange(p[1], i, p[2]) ELSE p[1]]
           Is(g) == g = [j \in i .. n |-> IF j = i THEN t ELSE Exchange(g[j - 1], i, j)]
           u == CHOOSE g : Is(g)
<1>1. Len(t) = n
  BY LengthIs DEF OrdersOf
<1>closed. \A x \in T, k \in i + 1 .. n : Exchange(x, i, k) \in T
  <2> SUFFICES ASSUME NEW x \in T, NEW k \in i + 1 .. n
               PROVE  Exchange(x, i, k) \in OrdersOf(V, n)
    OBVIOUS
  <2>1. k \in 1 .. n /\ i # k
    OBVIOUS
  <2>2. QED  BY <2>1, ExchangeIs
<1>typed. t \in T
  OBVIOUS
<1> HIDE DEF T
<1>2. step \in [T \X Nat -> T]
  BY <1>closed
<1>3. \A x \in T, k \in i + 1 .. n : step[<<x, k>>] = Exchange(x, i, k)
  OBVIOUS
<1> HIDE DEF step
<1>4. i \in Nat /\ i <= n
  OBVIOUS
<1>5. PICK f \in [i .. n -> T] : f[i] = t /\ \A k \in i + 1 .. n : f[k] = step[<<f[k - 1], k>>]
  <2>1. i \in Nat /\ i <= n /\ n \in Nat
    BY <1>4
  <2>2. \E f : IsLoop(f, T, i, n, t, step)
    BY <2>1, <1>2, <1>typed, LoopExists
  <2>3. QED  BY <2>2 DEF IsLoop
<1>6. Is(f)
  <2>1. ASSUME NEW k \in i + 1 .. n
        PROVE  f[k] = Exchange(f[k - 1], i, k)
    <3>1. f[k - 1] \in T
      BY <1>4
    <3>2. QED  BY <3>1, <1>3, <1>5
  <2>2. \A k \in i .. n : f[k] = IF k = i THEN t ELSE Exchange(f[k - 1], i, k)
    BY <2>1, <1>5
  <2>3. QED  BY <2>2
<1>7. Is(u)
  <2> HIDE DEF Is
  <2>1. QED  BY <1>6
<1>8. Sweep(t, i) = u[n]
  BY <1>1 DEF Sweep
<1> HIDE DEF u
<1>9. /\ u[i] = t
      /\ \A k \in i + 1 .. n : u[k] = Exchange(u[k - 1], i, k)
      /\ DOMAIN u = i .. n
      /\ u = [k \in i .. n |-> u[k]]
  <2>1. DOMAIN u = i .. n /\ \A k \in i .. n : u[k] = IF k = i THEN t ELSE Exchange(u[k - 1], i, k)
    BY <1>7
  <2>2. u = [k \in i .. n |-> u[k]]
    BY <1>7
  <2>3. i \in i .. n /\ \A k \in i + 1 .. n : k \in i .. n /\ k # i
    BY <1>4
  <2>4. QED  BY <2>1, <2>2, <2>3
<1>10. \A k \in i .. n : u[k] \in T
  <2> DEFINE S == {k \in i .. n : u[k] \in T}
  <2>1. i \in S
    BY <1>9, <1>4, <1>typed
  <2>2. ASSUME NEW k \in i + 1 .. n, k - 1 \in S
        PROVE  k \in S
    <3>1. u[k - 1] \in T /\ k \in i .. n
      BY <2>2, <1>4
    <3>2. Exchange(u[k - 1], i, k) \in T
      BY <3>1, <1>closed
    <3>3. QED  BY <3>1, <3>2, <1>9
  <2> HIDE DEF S
  <2>3. \A k \in i .. n : k \in S
    BY <2>1, <2>2, <1>4, NextReachesBound
  <2>4. QED  BY <2>3 DEF S
<1>11. u \in [i .. n -> T]
  BY <1>9, <1>10
<1>12. QED  BY <1>8, <1>9, <1>11 DEF T, IsSweep

(* The first i are in order, and none after them is better. *)
Ordered(t, i, n) == \A p \in 1 .. i, q \in 1 .. n : p < q => t[p].score >= t[q].score

(* None of i + 1 .. k is better than the one at i. *)
Ahead(t, i, k) == \A q \in i + 1 .. k : t[i].score >= t[q].score

(* A turn of the inner loop brings one more behind the one at i, and does  *)
(* not disturb those before it.                                            *)
LEMMA ExchangeKeeps ==
  ASSUME NEW V, \A v \in V : v.score \in Int, NEW n \in Nat,
         NEW t \in OrdersOf(V, n), NEW i \in 1 .. n, NEW k \in i + 1 .. n,
         Ordered(t, i - 1, n), Ahead(t, i, k - 1)
  PROVE  /\ Ordered(Exchange(t, i, k), i - 1, n)
         /\ Ahead(Exchange(t, i, k), i, k)
<1> DEFINE y == Exchange(t, i, k)
<1>1. k \in 1 .. n /\ i # k /\ i < k
  OBVIOUS
<1>2. /\ y \in OrdersOf(V, n)
      /\ y[i].score >= t[i].score
      /\ y[i].score >= y[k].score
      /\ \A l \in 1 .. n : l # i /\ l # k => y[l] = t[l]
      /\ \A l \in 1 .. n : y[l] \in {t[l], t[i], t[k]}
  BY <1>1, ExchangeIs
<1> HIDE DEF y
<1>3. \A l \in 1 .. n : t[l].score \in Int /\ y[l].score \in Int
  BY <1>2 DEF OrdersOf
<1>4. Ordered(y, i - 1, n)
  <2> SUFFICES ASSUME NEW p \in 1 .. i - 1, NEW q \in 1 .. n, p < q
               PROVE  y[p].score >= y[q].score
    BY DEF Ordered
  <2>1. p \in 1 .. n /\ p # i /\ p # k
    BY <1>1
  <2>2. PICK m \in {q, i, k} : y[q] = t[m]
    BY <1>2
  <2>3. m \in 1 .. n /\ p < m
    BY <1>1
  <2>4. t[p].score >= t[m].score
    BY <2>3 DEF Ordered
  <2>5. QED  BY <1>2, <2>1, <2>2, <2>4
<1>5. Ahead(y, i, k)
  <2> SUFFICES ASSUME NEW q \in i + 1 .. k
               PROVE  y[i].score >= y[q].score
    BY DEF Ahead
  <2>1. CASE q = k
    BY <2>1, <1>2
  <2>2. CASE q # k
    <3>1. q \in i + 1 .. k - 1 /\ q \in 1 .. n /\ q # i
      BY <2>2
    <3>2. y[q] = t[q] /\ t[i].score >= t[q].score
      BY <3>1, <2>2, <1>2 DEF Ahead
    <3>3. QED  BY <3>1, <3>2, <1>2, <1>3
  <2>3. QED  BY <2>1, <2>2
<1>6. QED  BY <1>4, <1>5 DEF y

(* A turn of the outer loop brings one more to its place. *)
LEMMA SweepSorts ==
  ASSUME NEW V, \A v \in V : v.score \in Int, NEW n \in Nat,
         NEW t \in OrdersOf(V, n), NEW i \in 1 .. n, Ordered(t, i - 1, n)
  PROVE  Sweep(t, i) \in OrdersOf(V, n) /\ Ordered(Sweep(t, i), i, n)
<1>1. PICK u \in [i .. n -> OrdersOf(V, n)] :
           /\ u[i] = t
           /\ \A k \in i + 1 .. n : u[k] = Exchange(u[k - 1], i, k)
           /\ Sweep(t, i) = u[n]
  <2>1. \E u : IsSweep(u, V, n, t, i)
    BY SweepIs
  <2>2. QED  BY <2>1 DEF IsSweep
<1> DEFINE S == {k \in i .. n : Ordered(u[k], i - 1, n) /\ Ahead(u[k], i, k)}
<1>2. i \in S
  BY <1>1 DEF Ahead
<1>3. ASSUME NEW k \in i + 1 .. n, k - 1 \in S
      PROVE  k \in S
  <2>1. u[k - 1] \in OrdersOf(V, n) /\ k \in i .. n
    BY <1>3
  <2>2. Ordered(u[k - 1], i - 1, n) /\ Ahead(u[k - 1], i, k - 1)
    BY <1>3
  <2>3. /\ Ordered(Exchange(u[k - 1], i, k), i - 1, n)
        /\ Ahead(Exchange(u[k - 1], i, k), i, k)
    BY <2>1, <2>2, ExchangeKeeps
  <2>4. QED  BY <2>1, <2>3, <1>1
<1> HIDE DEF S
<1>4. i \in Nat /\ n \in i .. n
  OBVIOUS
<1>5. n \in S
  BY <1>2, <1>3, <1>4, NextReachesBound
<1>6. /\ u[n] \in OrdersOf(V, n)
      /\ Ordered(u[n], i - 1, n)
      /\ Ahead(u[n], i, n)
  BY <1>4, <1>5 DEF S
<1>7. Ordered(u[n], i, n)
  <2> SUFFICES ASSUME NEW p \in 1 .. i, NEW q \in 1 .. n, p < q
               PROVE  u[n][p].score >= u[n][q].score
    BY DEF Ordered
  <2>1. CASE p = i
    BY <2>1, <1>6 DEF Ahead
  <2>2. CASE p # i
    BY <2>2, <1>6 DEF Ordered
  <2>3. QED  BY <2>1, <2>2
<1>8. QED  BY <1>1, <1>6, <1>7

(* PredictBatch's sort leaves the results best first, and loses none. *)
LEMMA SortSorts ==
  ASSUME NEW V, \A v \in V : v.score \in Int, NEW n \in Nat, NEW t \in OrdersOf(V, n)
  PROVE  ExchangeSort(t) \in OrdersOf(V, n) /\ Ordered(ExchangeSort(t), n, n)
<1> DEFINE Good == {p \in OrdersOf(V, n) \X Nat : p[2] \in 1 .. n /\ Ordered(p[1], p[2] - 1, n)}
           step == [p \in OrdersOf(V, n) \X Nat |-> IF p \in Good THEN Sweep(p[1], p[2]) ELSE p[1]]
           Is(g) == g = [i \in 0 .. n |-> IF i = 0 THEN t ELSE Sweep(g[i - 1], i)]
           u == CHOOSE g : Is(g)
<1>1. Len(t) = n
  BY LengthIs DEF OrdersOf
<1>2. step \in [OrdersOf(V, n) \X Nat -> OrdersOf(V, n)]
  <2>1. ASSUME NEW p \in OrdersOf(V, n) \X Nat
        PROVE  step[p] \in OrdersOf(V, n)
    <3>1. CASE p \in Good
      <4>1. p[1] \in OrdersOf(V, n) /\ p[2] \in 1 .. n /\ Ordered(p[1], p[2] - 1, n)
        BY <3>1
      <4>2. Sweep(p[1], p[2]) \in OrdersOf(V, n)
        BY <4>1, SweepSorts
      <4>3. QED  BY <3>1, <4>2
    <3>2. CASE p \notin Good
      BY <3>2
    <3>3. QED  BY <3>1, <3>2
  <2> HIDE DEF Good
  <2>2. QED  BY <2>1
<1>3. \A x \in OrdersOf(V, n), k \in 1 .. n :
        Ordered(x, k - 1, n) => step[<<x, k>>] = Sweep(x, k)
  OBVIOUS
<1> HIDE DEF step
<1>4. \E f : IsLoop(f, OrdersOf(V, n), 0, n, t, step)
  <2>1. 0 \in Nat /\ 0 <= n
    OBVIOUS
  <2>2. QED  BY <2>1, <1>2, LoopExists
<1>5. PICK f : IsLoop(f, OrdersOf(V, n), 0, n, t, step)
  BY <1>4
<1> DEFINE S == {k \in 0 .. n : Ordered(f[k], k, n)}
<1>6. \A k \in 0 .. n : k \in S
  <2>1. 0 \in S
    BY DEF Ordered
  <2>2. ASSUME NEW k \in 0 + 1 .. n, k - 1 \in S
        PROVE  k \in S
    <3>1. f[k - 1] \in OrdersOf(V, n) /\ Ordered(f[k - 1], k - 1, n) /\ k \in 1 .. n
      BY <1>5, <2>2 DEF IsLoop
    <3>2. f[k] = Sweep(f[k - 1], k)
      BY <1>3, <1>5, <3>1 DEF IsLoop
    <3>3. Ordered(f[k], k, n)
      BY <3>1, <3>2, SweepSorts
    <3>4. QED  BY <3>3
  <2> HIDE DEF S
  <2>3. QED  BY <2>1, <2>2, NextReachesBound
<1>7. \A k \in 0 .. n : f[k] = IF k = 0 THEN t ELSE Sweep(f[k - 1], k)
  <2> SUFFICES ASSUME NEW k \in 0 .. n, k # 0
               PROVE  f[k] = Sweep(f[k - 1], k)
    BY <1>5 DEF IsLoop
  <2>1. k \in 1 .. n /\ k - 1 \in 0 .. n /\ k \in 0 + 1 .. n
    OBVIOUS
  <2>2. f[k - 1] \in OrdersOf(V, n) /\ Ordered(f[k - 1], k - 1, n)
    BY <1>5, <1>6, <2>1 DEF IsLoop
  <2>3. QED  BY <1>3, <1>5, <2>1, <2>2 DEF IsLoop
<1>8. Is(f)
  BY <1>5, <1>7 DEF IsLoop
<1>9. Is(u)
  <2> HIDE DEF Is
  <2>1. QED  BY <1>8
<1>10. ExchangeSort(t) = u[n]
  BY <1>1 DEF ExchangeSort
<1> HIDE DEF u
<1>11. \A k \in 0 .. n : u[k] = f[k]
  <2> DEFINE E == {k \in 0 .. n : u[k] = f[k]}
  <2>1. \A k \in 0 .. n : u[k] = IF k = 0 THEN t ELSE Sweep(u[k - 1], k)
    BY <1>9
  <2>2. 0 \in E
    BY <2>1, <1>7
  <2>3. ASSUME NEW k \in 0 + 1 .. n, k - 1 \in E
        PROVE  k \in E
    BY <2>1, <1>7, <2>3
  <2> HIDE DEF E
  <2>4. \A k \in 0 .. n : k \in E
    BY <2>2, <2>3, NextReachesBound
  <2>5. QED  BY <2>4 DEF E
<1>12. n \in 0 .. n
  OBVIOUS
<1>13. u[n] \in OrdersOf(V, n) /\ Ordered(u[n], n, n)
  BY <1>5, <1>6, <1>11, <1>12 DEF IsLoop
<1>14. QED  BY <1>10, <1>13

----------------------------------------------------------------------------
(* The nodes and their chunks.                                             *)

(* The sequence has as many elements as the set. *)
LEMMA InOrderLength ==
  ASSUME NEW S \in SUBSET Int, IsFiniteSet(S)
  PROVE  InOrder(S) \in Seq(S) /\ Len(InOrder(S)) = Cardinality(S)
<1>1. Cardinality(S) \in Nat /\ InOrder(S) \in [1 .. Cardinality(S) -> S]
  BY InOrderLists
<1>2. QED  BY <1>1

(* What the assumption says of the request, which never changes. *)
RequestType == /\ request.registered \in BOOLEAN
               /\ request.nodes \in Seq({Unset, "active", "inactive"})
               /\ request.scores \in Seq(Nat \cup {Invalid})
               /\ request.topN \in Int

(* The active nodes are listed once each. *)
LEMMA ActiveNodesType ==
  ASSUME RequestType
  PROVE  /\ Parts \in Nat
         /\ ActiveNodes \in [Tasks -> Nodes]
         /\ \A i, j \in Tasks : NodeOf(i) = NodeOf(j) => i = j
<1> DEFINE A == {n \in Nodes : request.nodes[n] \in {Unset, "active"}}
<1>1. Nodes = 1 .. Len(request.nodes) /\ Len(request.nodes) \in Nat
  BY DEF RequestType, Nodes
<1>2. IsFiniteSet(Nodes) /\ Nodes \subseteq Int
  BY <1>1, FS_Interval
<1>3. IsFiniteSet(A) /\ A \in SUBSET Int /\ A \subseteq Nodes
  BY <1>2, FS_Subset
<1>4. ActiveNodes = InOrder(A)
  BY DEF ActiveNodes
<1> HIDE DEF A
<1>5. Parts = Cardinality(A)
  BY <1>3, <1>4, InOrderLength DEF Parts
<1>6. /\ Parts \in Nat
      /\ ActiveNodes \in [Tasks -> A]
      /\ \A r, q \in Tasks : r < q => ActiveNodes[r] < ActiveNodes[q]
  BY <1>3, <1>4, <1>5, InOrderLists DEF Tasks
<1>7. \A i, j \in Tasks : NodeOf(i) = NodeOf(j) => i = j
  <2>1. TAKE i \in Tasks, j \in Tasks
  <2>2. HAVE NodeOf(i) = NodeOf(j)
  <2>3. i \in Int /\ j \in Int
    BY <1>6 DEF Tasks
  <2>4. ActiveNodes[i] = ActiveNodes[j]
    BY <2>2 DEF NodeOf
  <2>5. ActiveNodes[i] \in Int
    BY <1>3, <1>6
  <2>6. ~(i < j) /\ ~(j < i)
    BY <1>6, <2>4, <2>5
  <2>7. QED  BY <2>3, <2>6
<1>8. QED  BY <1>3, <1>6, <1>7

(* The candidates of chunk i. *)
Share(n, parts, i) == {k \in 1 .. n : (k - 1) % parts = i - 1}

(* It is a finite set of integers, so that it can be listed in order. *)
LEMMA ShareType ==
  ASSUME NEW n \in Nat, NEW parts \in Nat \ {0}, NEW i \in 1 .. parts
  PROVE  /\ Share(n, parts, i) \in SUBSET Int
         /\ IsFiniteSet(Share(n, parts, i))
         /\ Cardinality(Share(n, parts, i)) \in 0 .. n
<1> DEFINE S == Share(n, parts, i)
<1>1. S \subseteq 1 .. n
  BY DEF Share
<1>2. IsFiniteSet(1 .. n) /\ Cardinality(1 .. n) = n
  BY FS_Interval
<1> HIDE DEF S
<1>3. IsFiniteSet(S) /\ Cardinality(S) <= n
  BY <1>1, <1>2, FS_Subset
<1>4. Cardinality(S) \in Nat
  BY <1>3, FS_CardinalityType
<1>5. QED  BY <1>1, <1>3, <1>4 DEF S

(* The candidates of a chunk are parts apart. *)
LEMMA ShareSteps ==
  ASSUME NEW n \in Nat, NEW parts \in Nat \ {0}, NEW i \in 1 .. parts, NEW k \in 1 .. n
  PROVE  k \in Share(n, parts, i) <=> \E q \in Nat : k = i + parts * q
<1> DEFINE p == (k - 1) \div parts
           s == (k - 1) % parts
<1>1. p \in Nat /\ s \in 0 .. parts - 1 /\ k - 1 = parts * p + s
  <2>1. k - 1 \in Nat
    OBVIOUS
  <2>2. \A x \in Nat : /\ x \div parts \in Nat /\ x % parts \in 0 .. parts - 1
                       /\ x = parts * (x \div parts) + (x % parts)
    OBVIOUS
  <2>3. QED  BY <2>1, <2>2
<1>2. k \in Share(n, parts, i) <=> s = i - 1
  BY DEF Share
<1> HIDE DEF p, s
<1>3. ASSUME s = i - 1
      PROVE  \E q \in Nat : k = i + parts * q
  <2>1. k = i + parts * p
    BY <1>1, <1>3
  <2>2. QED  BY <1>1, <2>1
<1>4. ASSUME NEW q \in Nat, k = i + parts * q
      PROVE  s = i - 1
  <2>1. i - 1 \in 0 .. parts - 1 /\ parts * q \in Nat /\ parts * p \in Nat
    BY <1>1
  <2>2. parts * q + (i - 1) = parts * p + s
    BY <1>1, <1>4, <2>1
  <2>3. QED  BY <1>1, <2>1, <2>2, DivisionIsUnique
<1>5. QED  BY <1>2, <1>3, <1>4

(* No chunk is larger than another by more than one: all but the first     *)
(* candidate of the one have a neighbour in the other. *)
LEMMA SharesAreFair ==
  ASSUME NEW n \in Nat, NEW parts \in Nat \ {0}, NEW i \in 1 .. parts, NEW j \in 1 .. parts
  PROVE  Cardinality(Share(n, parts, i)) <= Cardinality(Share(n, parts, j)) + 1
<1> DEFINE S == Share(n, parts, i)
           T == Share(n, parts, j)
           back == IF j > i THEN parts ELSE 0
           f == [k \in S \ {i} |-> k - i + j - back]
<1>1. /\ IsFiniteSet(S) /\ S \in SUBSET Int /\ S \subseteq 1 .. n /\ Cardinality(S) \in Nat
      /\ IsFiniteSet(T) /\ Cardinality(T) \in Nat
  BY ShareType DEF Share
<1>2. ASSUME NEW k \in S \ {i}
      PROVE  k - i + j - back \in T
  <2>1. k \in 1 .. n /\ k \in Share(n, parts, i)
    BY <1>1
  <2> PICK q \in Nat : k = i + parts * q
    BY <2>1, ShareSteps
  <2>2. q # 0 /\ k = i + parts * q
    OBVIOUS
  <2>3. CASE j > i
    <3>1. parts * (q - 1) = parts * q - parts /\ q - 1 \in Nat /\ parts * q \in Nat
      BY <2>2
    <3>2. parts * (q - 1) \in Nat
      BY <3>1
    <3>3. k - i + j - back = j + parts * (q - 1)
      BY <2>1, <2>3, <3>1
    <3>4. j + parts * (q - 1) \in 1 .. n
      BY <2>1, <2>2, <2>3, <3>1, <3>2
    <3>5. QED  BY <3>1, <3>3, <3>4, ShareSteps
  <2>4. CASE ~(j > i)
    <3>1. parts * q \in Nat
      OBVIOUS
    <3>2. k - i + j - back = j + parts * q
      BY <2>1, <2>4, <3>1
    <3>3. j + parts * q \in 1 .. n
      BY <2>1, <2>2, <2>4, <3>1
    <3>4. QED  BY <3>2, <3>3, ShareSteps
  <2>5. QED  BY <2>3, <2>4
<1>3. back \in Int
  OBVIOUS
<1> HIDE DEF S, T, back
<1>4. f \in Injection(S \ {i}, T)
  <2>1. f \in [S \ {i} -> T]
    BY <1>2
  <2>2. IsInjective(f)
    <3>1. \A k, m \in S \ {i} : k - i + j - back = m - i + j - back => k = m
      BY <1>1, <1>3
    <3>2. QED  BY <3>1 DEF IsInjective
  <2>3. QED  BY <2>1, <2>2 DEF Injection
<1>5. Cardinality(S \ {i}) <= Cardinality(T)
  <2> HIDE DEF f
  <2>1. QED  BY <1>1, <1>4, FS_Injection
<1>6. Cardinality(S \ {i}) \in {Cardinality(S) - 1, Cardinality(S)}
  <2>1. Cardinality(S \ {i}) = IF i \in S THEN Cardinality(S) - 1 ELSE Cardinality(S)
    BY <1>1, FS_RemoveElement
  <2>2. QED  BY <2>1
<1>7. QED  BY <1>1, <1>5, <1>6 DEF S, T

(* What the dispatcher makes of its chunks. *)
LEMMA ChunksType ==
  ASSUME RequestType, Parts > 0, NEW i \in Tasks
  PROVE  /\ Parts \in Nat \ {0} /\ Tasks = 1 .. Parts
         /\ Len(request.scores) \in Nat /\ DOMAIN request.scores = 1 .. Len(request.scores)
         /\ Chunks[i] = InOrder(Share(Len(request.scores), Parts, i))
         /\ Len(Chunks[i]) = Cardinality(Share(Len(request.scores), Parts, i))
         /\ DOMAIN Chunks[i] = 1 .. Len(Chunks[i])
<1> DEFINE n == Len(request.scores)
           S == Share(n, Parts, i)
<1>1. n \in Nat /\ DOMAIN request.scores = 1 .. n
  BY DEF RequestType
<1>2. Parts \in Nat \ {0} /\ Tasks = 1 .. Parts
  BY ActiveNodesType DEF Tasks
<1>3. Chunks[i] = InOrder(S)
  BY <1>2 DEF Chunks, SplitCandidates, Dealt, Share
<1>4. S \in SUBSET Int /\ IsFiniteSet(S)
  BY <1>1, <1>2, ShareType
<1> HIDE DEF S
<1>5. InOrder(S) \in Seq(S) /\ Len(InOrder(S)) = Cardinality(S)
  BY <1>4, InOrderLength
<1>6. QED  BY <1>1, <1>2, <1>3, <1>5 DEF S

(* Every candidate has one place in one chunk. *)
LEMMA OnePlace ==
  ASSUME RequestType, Parts > 0, NEW k \in DOMAIN request.scores
  PROVE  Cardinality({p \in Tasks \X DOMAIN request.scores :
                        p[2] \in DOMAIN Chunks[p[1]] /\ Chunks[p[1]][p[2]] = k}) = 1
<1> DEFINE n == Len(request.scores)
           At(i, j) == j \in DOMAIN Chunks[i] /\ Chunks[i][j] = k
           i0 == ((k - 1) % Parts) + 1
<1>1. /\ n \in Nat /\ DOMAIN request.scores = 1 .. n
      /\ Parts \in Nat \ {0} /\ Tasks = 1 .. Parts
  BY ActiveNodesType DEF RequestType, Tasks
<1>2. i0 \in Tasks /\ \A i \in Tasks : (k - 1) % Parts = i - 1 <=> i = i0
  <2>1. (k - 1) % Parts \in 0 .. Parts - 1
    BY <1>1
  <2>2. QED  BY <1>1, <2>1
<1>3. \A i \in Tasks : k \in Share(n, Parts, i) <=> i = i0
  BY <1>1, <1>2 DEF Share
<1> HIDE DEF i0
<1>4. \A i \in Tasks :
        /\ Cardinality(Share(n, Parts, i)) \in 0 .. n
        /\ DOMAIN Chunks[i] = 1 .. Cardinality(Share(n, Parts, i))
        /\ Chunks[i] \in [DOMAIN Chunks[i] -> Share(n, Parts, i)]
        /\ \A r, q \in DOMAIN Chunks[i] : r < q => Chunks[i][r] < Chunks[i][q]
        /\ \A m \in Share(n, Parts, i) : \E r \in DOMAIN Chunks[i] : Chunks[i][r] = m
  <2>1. TAKE i \in Tasks
  <2> DEFINE S == Share(n, Parts, i)
  <2>2. S \in SUBSET Int /\ IsFiniteSet(S) /\ Cardinality(S) \in 0 .. n
    BY <1>1, ShareType
  <2>3. Chunks[i] = InOrder(S) /\ DOMAIN Chunks[i] = 1 .. Cardinality(S)
    BY ChunksType
  <2> HIDE DEF S
  <2>4. /\ InOrder(S) \in [1 .. Cardinality(S) -> S]
        /\ \A r, q \in 1 .. Cardinality(S) : r < q => InOrder(S)[r] < InOrder(S)[q]
        /\ \A m \in S : \E r \in 1 .. Cardinality(S) : InOrder(S)[r] = m
    BY <2>2, InOrderLists
  <2>5. QED  BY <2>2, <2>3, <2>4 DEF S
<1>5. PICK j0 \in DOMAIN Chunks[i0] : Chunks[i0][j0] = k
  BY <1>2, <1>3, <1>4
<1>6. j0 \in DOMAIN request.scores
  BY <1>1, <1>2, <1>4, <1>5
<1>7. ASSUME NEW i \in Tasks, NEW j \in DOMAIN request.scores, At(i, j)
      PROVE  i = i0 /\ j = j0
  <2>1. i = i0
    BY <1>3, <1>4, <1>7
  <2>2. j \in Int /\ j0 \in Int /\ k \in Int
    BY <1>1, <1>6
  <2>3. ~(j < j0) /\ ~(j0 < j)
    BY <1>2, <1>4, <1>5, <1>7, <2>1, <2>2
  <2>4. QED  BY <2>1, <2>2, <2>3
<1>8. {p \in Tasks \X DOMAIN request.scores : At(p[1], p[2])} = {<<i0, j0>>}
  BY <1>2, <1>5, <1>6, <1>7
<1>9. QED  BY <1>8, FS_Singleton

(* The chunks of a request are fair, whatever the registry and however     *)
(* many the candidates. *)
LEMMA ChunksAreFair ==
  ASSUME RequestType
  PROVE  PartsAreFair
<1>1. SUFFICES ASSUME Parts > 0
               PROVE  \A i, j \in Tasks : Len(Chunks[i]) <= Len(Chunks[j]) + 1
  BY OnePlace DEF PartsAreFair
<1>2. TAKE i \in Tasks, j \in Tasks
<1>3. /\ Len(Chunks[i]) = Cardinality(Share(Len(request.scores), Parts, i))
      /\ Len(Chunks[j]) = Cardinality(Share(Len(request.scores), Parts, j))
      /\ Parts \in Nat \ {0} /\ i \in 1 .. Parts /\ j \in 1 .. Parts
      /\ Len(request.scores) \in Nat
  BY <1>1, ChunksType
<1>4. QED  BY <1>3, SharesAreFair

----------------------------------------------------------------------------
(* The inductive invariant.                                                *)

Busy == {i \in Tasks : Chunks[i] # <<>>}

(* What a node may answer: the same at any time, as the request is. *)
Answers == {Failure} \cup {PredictBatch(Chunks[i], NodeOf(i), topN) : i \in Tasks}

Types == /\ request \in Requests
         /\ pc \in {"call", "fork", "collect", "return"}
         /\ forked \in 0 .. Parts
         /\ used \in Seq(Nodes)
         /\ task \in [Tasks -> {"none", "dial", "await", "push", "pushed", "exited"}]
         /\ partial \in [Tasks -> Answers]
         /\ conn \in [Tasks -> {"none", "serving", "replied", "broken"}]
         /\ reply \in [Tasks -> Answers]
         /\ out \in Seq(Answers)
         /\ wg \in Nat
         /\ outcome \in {"pending", "ok", "error"}

(* The goroutines that wg waits for, and those whose partial is sent. *)
Running  == {i \in Tasks : task[i] \in {"dial", "await", "push", "pushed"}}
Sent     == {i \in Tasks : task[i] \in {"pushed", "exited"}}
Started  == {i \in Tasks : task[i] # "none"}

(* The counter counts the goroutines, and the channel is not read before   *)
(* they are done. *)
Counts == /\ wg = Cardinality(Running)
          /\ pc \in {"call", "fork"} => Len(out) = Cardinality(Sent)

Phases == /\ pc = "call" => forked = 0
          /\ pc = "collect" \/ outcome = "ok" => forked = Parts
          /\ pc \in {"collect", "return"} => Running = {}
          /\ outcome = "ok" => out = <<>>
          /\ outcome = "pending" <=> pc # "return"

(* The loop has started a goroutine for each chunk that has candidates,    *)
(* and reports its node. *)
Forks == /\ \A i \in Tasks : i \in Started <=> i <= forked /\ i \in Busy
         /\ IsInjective(used)
         /\ Range(used) = {NodeOf(i) : i \in Started}

(* A goroutine succeeds only with what its node wrote. *)
Answered == \A i \in Tasks :
              /\ partial[i].ok => conn[i] = "replied"
              /\ task[i] \in {"none", "dial", "await"} => partial[i] = Failure

(* A failure that was sent is not lost: it is in the channel, or it has    *)
(* ended the call. *)
FailuresStay == \A i \in Sent :
                  \/ partial[i].ok
                  \/ outcome = "error"
                  \/ \E q \in DOMAIN out : ~out[q].ok

IInv == Types /\ Counts /\ Phases /\ Forks /\ Answered /\ FailuresStay

(* The request, and with it the nodes that are asked, never change. *)
LEMMA RequestStays ==
  ASSUME [Next]_vars
  PROVE  /\ request' = request /\ Nodes' = Nodes /\ Parts' = Parts /\ Tasks' = Tasks
         /\ Chunks' = Chunks /\ Busy' = Busy /\ Answers' = Answers /\ topN' = topN
         /\ ActiveNodes' = ActiveNodes /\ \A i : NodeOf(i)' = NodeOf(i)
<1>1. request' = request
  BY DEF Next, vars, Dispatcher, Refuse, Split, Fork, Wait, Collect, Merge, Sender, Dial,
         SendFails, ReadReply, Push, WgDone, HandleConnection, Node, Crash, Restart, Terminated
<1>2. ActiveNodes' = ActiveNodes /\ Nodes' = Nodes /\ topN' = topN
  BY <1>1 DEF ActiveNodes, Nodes, topN
<1>3. Parts' = Parts /\ Tasks' = Tasks /\ \A i : NodeOf(i)' = NodeOf(i)
  BY <1>2 DEF Parts, Tasks, NodeOf
<1>4. Chunks' = Chunks
  BY <1>1, <1>3 DEF Chunks
<1>5. Busy' = Busy
  BY <1>3, <1>4 DEF Busy
<1>6. \A i : PredictBatch(Chunks[i], NodeOf(i), topN)' = PredictBatch(Chunks[i], NodeOf(i), topN)
  BY <1>1, <1>2, <1>3, <1>4 DEF PredictBatch
<1>7. Answers' = Answers
  BY <1>3, <1>6 DEF Answers
<1>8. QED  BY <1>1, <1>2, <1>3, <1>4, <1>5, <1>7

(* What follows from the type of the state alone. *)
LEMMA Basics ==
  ASSUME Types
  PROVE  /\ RequestType /\ Parts \in Nat /\ Tasks = 1 .. Parts
         /\ IsFiniteSet(Tasks) /\ Cardinality(Tasks) = Parts
         /\ ActiveNodes \in [Tasks -> Nodes]
         /\ \A T \in SUBSET Tasks : IsFiniteSet(T) /\ Cardinality(T) \in Nat
<1>1. RequestType
  BY DispatchAssumption DEF Types, RequestType
<1>2. Parts \in Nat /\ Tasks = 1 .. Parts /\ ActiveNodes \in [Tasks -> Nodes]
  BY <1>1, ActiveNodesType DEF Tasks
<1>3. IsFiniteSet(Tasks) /\ Cardinality(Tasks) = Parts
  BY <1>2, FS_Interval
<1>4. \A T \in SUBSET Tasks : IsFiniteSet(T) /\ Cardinality(T) \in Nat
  BY <1>3, FS_Subset, FS_CardinalityType
<1>5. QED  BY <1>1, <1>2, <1>3, <1>4

(* The first state satisfies the invariant. *)
LEMMA InvariantInit ==
  ASSUME Init
  PROVE  IInv
<1>1. RequestType
  BY DispatchAssumption DEF Init, RequestType
<1>2. Parts \in Nat
  BY <1>1, ActiveNodesType
<1>3. Types
  BY <1>2 DEF Init, Types, Answers
<1>4. Running = {} /\ Sent = {} /\ Started = {}
  BY DEF Init, Running, Sent, Started
<1>5. Counts
  <2>1. Cardinality({}) = 0
    BY FS_EmptySet
  <2>2. QED  BY <1>4, <2>1 DEF Init, Counts
<1>6. Phases
  BY <1>4 DEF Init, Phases
<1>7. Forks
  <2>1. \A i \in Tasks : ~(i <= forked)
    BY <1>2 DEF Init, Tasks
  <2>2. Range(used) = {} /\ IsInjective(used)
    BY DEF Init, Range, IsInjective
  <2>3. QED  BY <1>4, <2>1, <2>2 DEF Forks
<1>8. Answered
  <2>1. Failure.ok = FALSE
    BY DEF Failure
  <2>2. QED  BY <2>1 DEF Init, Answered
<1>9. FailuresStay
  BY <1>4 DEF FailuresStay
<1>10. QED  BY <1>3, <1>5, <1>6, <1>7, <1>8, <1>9 DEF IInv

(* The types are preserved; wg counts the running goroutines, so that the  *)
(* last of them leaves it at 0. *)
LEMMA TypesStep ==
  ASSUME Types, Counts, [Next]_vars
  PROVE  Types'
<1>1. /\ request' = request /\ Nodes' = Nodes /\ Parts' = Parts /\ Tasks' = Tasks
      /\ Answers' = Answers
  BY RequestStays
<1>2. /\ Parts \in Nat /\ Tasks = 1 .. Parts /\ ActiveNodes \in [Tasks -> Nodes]
      /\ \A T \in SUBSET Tasks : IsFiniteSet(T) /\ Cardinality(T) \in Nat
  BY Basics
<1>3. SUFFICES ASSUME Types
               PROVE  /\ pc' \in {"call", "fork", "collect", "return"}
                      /\ forked' \in 0 .. Parts
                      /\ used' \in Seq(Nodes)
                      /\ task' \in [Tasks -> {"none", "dial", "await", "push", "pushed", "exited"}]
                      /\ partial' \in [Tasks -> Answers]
                      /\ conn' \in [Tasks -> {"none", "serving", "replied", "broken"}]
                      /\ reply' \in [Tasks -> Answers]
                      /\ out' \in Seq(Answers)
                      /\ wg' \in Nat
                      /\ outcome' \in {"pending", "ok", "error"}
  BY <1>1 DEF Types
<1> USE DEF Types
<1>4. CASE Refuse
  BY <1>4 DEF Refuse, netVars
<1>5. CASE Split
  BY <1>5 DEF Split, netVars, joinVars
<1>6. CASE Fork
  <2>1. forked + 1 \in Tasks /\ NodeOf(forked + 1) \in Nodes
    BY <1>2, <1>6 DEF Fork, NodeOf
  <2>2. used' \in Seq(Nodes)
    <3>1. used' = used \/ used' = Append(used, NodeOf(forked + 1))
      BY <1>6 DEF Fork
    <3>2. used \in Seq(Nodes)
      OBVIOUS
    <3>3. Append(used, NodeOf(forked + 1)) \in Seq(Nodes)
      BY <2>1, <3>2, AppendProperties
    <3>4. QED  BY <3>1, <3>2, <3>3
  <2>3. forked' \in 0 .. Parts /\ wg' \in Nat
    BY <1>2, <1>6 DEF Fork
  <2>4. task' \in [Tasks -> {"none", "dial", "await", "push", "pushed", "exited"}]
    BY <1>6 DEF Fork
  <2>5. UNCHANGED <<pc, partial, conn, reply, out, outcome>>
    BY <1>6 DEF Fork, netVars
  <2>6. QED  BY <2>2, <2>3, <2>4, <2>5
<1>7. CASE Wait
  BY <1>7 DEF Wait, netVars, joinVars
<1>8. CASE Collect
  <2>1. out' \in Seq(Answers)
    <3>1. out \in Seq(Answers) /\ out # <<>> /\ (out' = out \/ out' = Tail(out))
      BY <1>8 DEF Collect
    <3>2. Tail(out) \in Seq(Answers)
      BY <3>1, HeadTailProperties
    <3>3. QED  BY <3>1, <3>2
  <2>2. QED  BY <1>8, <2>1 DEF Collect, netVars
<1>9. CASE Merge
  BY <1>9 DEF Merge, netVars
<1>10. ASSUME NEW i \in Tasks, Dial(i)
       PROVE  Types'
  BY <1>1, <1>10 DEF Dial, callVars, joinVars
<1>11. ASSUME NEW i \in Tasks, SendFails(i)
       PROVE  Types'
  <2>1. Failure \in Answers
    BY DEF Answers
  <2>2. QED  BY <1>1, <1>11, <2>1 DEF SendFails, callVars, netVars, joinVars
<1>12. ASSUME NEW i \in Tasks, ReadReply(i)
       PROVE  Types'
  BY <1>1, <1>12 DEF ReadReply, callVars, netVars, joinVars
<1>13. ASSUME NEW i \in Tasks, Push(i)
       PROVE  Types'
  BY <1>1, <1>13 DEF Push, callVars, netVars
<1>14. ASSUME NEW i \in Tasks, WgDone(i)
       PROVE  Types'
  <2>1. i \in Running /\ Running \in SUBSET Tasks
    BY <1>14 DEF WgDone, Running
  <2>2. wg # 0
    BY <1>2, <2>1, FS_EmptySet DEF Counts
  <2>3. wg' \in Nat
    BY <1>14, <2>2 DEF WgDone
  <2>4. QED  BY <1>1, <1>14, <2>3 DEF WgDone, callVars, netVars
<1>15. ASSUME NEW i \in Tasks, HandleConnection(i)
       PROVE  Types'
  <2>1. PredictBatch(Chunks[i], NodeOf(i), topN) \in Answers
    BY DEF Answers
  <2>2. QED  BY <1>1, <1>15, <2>1 DEF HandleConnection, callVars, joinVars
<1>16. ASSUME NEW n \in Nodes, Crash(n)
       PROVE  Types'
  BY <1>1, <1>16 DEF Crash, callVars, joinVars
<1>17. ASSUME NEW n \in Nodes, Restart(n)
       PROVE  Types'
  BY <1>1, <1>17 DEF Restart, callVars, joinVars
<1>18. CASE UNCHANGED vars
  BY <1>18 DEF vars
<1>19. CASE Dispatcher
  BY <1>4, <1>5, <1>6, <1>7, <1>8, <1>9, <1>19 DEF Dispatcher
<1>20. ASSUME NEW i \in Tasks, Sender(i) \/ HandleConnection(i)
       PROVE  Types'
  BY <1>10, <1>11, <1>12, <1>13, <1>14, <1>15, <1>20 DEF Sender
<1>21. ASSUME NEW n \in Nodes, Node(n)
       PROVE  Types'
  BY <1>16, <1>17, <1>21 DEF Node
<1>22. CASE Types'
  BY <1>1, <1>22
<1>23. CASE Next
  BY <1>18, <1>19, <1>20, <1>21, <1>22, <1>23 DEF Next, Terminated
<1>24. QED  BY <1>18, <1>23

(* The steps of the goroutines, and what they do to the sets of them. *)
LEMMA StepsOfTasks ==
  ASSUME Types, Forks, [Next]_vars
  PROVE  \/ /\ Running' = Running /\ Sent' = Sent /\ Started' = Started
            /\ UNCHANGED <<forked, used, wg>> /\ (UNCHANGED out \/ pc = "collect")
         \/ /\ pc = "fork" /\ forked < Parts /\ forked + 1 \notin Busy
            /\ Running' = Running /\ Sent' = Sent /\ Started' = Started
            /\ forked' = forked + 1 /\ UNCHANGED <<pc, outcome, used, wg, out>>
         \/ /\ pc = "fork" /\ forked < Parts /\ forked + 1 \in Busy \ Started
            /\ Running' = Running \cup {forked + 1} /\ Sent' = Sent
            /\ Started' = Started \cup {forked + 1}
            /\ forked' = forked + 1 /\ used' = Append(used, NodeOf(forked + 1))
            /\ wg' = wg + 1 /\ UNCHANGED <<pc, outcome, out>>
         \/ \E i \in Running \ Sent :
              /\ Push(i) /\ Running' = Running /\ Sent' = Sent \cup {i} /\ Started' = Started
              /\ UNCHANGED <<pc, outcome, forked, used, wg>>
         \/ \E i \in Running :
              /\ WgDone(i) /\ Running' = Running \ {i} /\ Sent' = Sent /\ Started' = Started
              /\ wg' = wg - 1 /\ UNCHANGED <<pc, outcome, forked, used, out>>
<1>1. Tasks' = Tasks
  BY RequestStays
<1>2. Parts \in Nat /\ Tasks = 1 .. Parts
  BY Basics
<1>3. ASSUME UNCHANGED task
      PROVE  Running' = Running /\ Sent' = Sent /\ Started' = Started
  BY <1>1, <1>3 DEF Running, Sent, Started
<1>4. ASSUME NEW i \in Tasks, task[i] \in {"dial", "await"},
             \/ task' = [task EXCEPT ![i] = "await"]
             \/ task' = [task EXCEPT ![i] = "push"]
      PROVE  Running' = Running /\ Sent' = Sent /\ Started' = Started
  <2>1. \A k \in Tasks : IF k = i THEN task'[k] \in {"await", "push"} ELSE task'[k] = task[k]
    BY <1>4 DEF Types
  <2>2. QED  BY <1>1, <1>4, <2>1 DEF Running, Sent, Started
<1>5. CASE Refuse
  BY <1>3, <1>5 DEF Refuse
<1>6. CASE Split
  BY <1>3, <1>6 DEF Split, joinVars
<1>7. CASE Fork
  <2>1. forked + 1 \in Tasks /\ forked \in Int
    BY <1>2, <1>7 DEF Fork, Types
  <2>2. CASE Chunks[forked + 1] = <<>>
    <3>1. forked + 1 \notin Busy
      BY <2>2 DEF Busy
    <3>2. UNCHANGED task
      BY <1>7, <2>2 DEF Fork
    <3>3. QED  BY <1>3, <1>7, <2>2, <3>1, <3>2 DEF Fork
  <2>3. CASE Chunks[forked + 1] # <<>>
    <3>1. forked + 1 \in Busy \ Started
      BY <2>1, <2>3 DEF Busy, Forks
    <3>2. task' = [task EXCEPT ![forked + 1] = "dial"]
      BY <1>7, <2>3 DEF Fork
    <3>3. \A k \in Tasks : task'[k] = IF k = forked + 1 THEN "dial" ELSE task[k]
      BY <3>2 DEF Types
    <3>4. task[forked + 1] = "none"
      BY <2>1, <3>1 DEF Started
    <3>5. /\ Running' = Running \cup {forked + 1} /\ Sent' = Sent
          /\ Started' = Started \cup {forked + 1}
      BY <1>1, <2>1, <3>3, <3>4 DEF Running, Sent, Started
    <3>6. QED  BY <1>7, <2>3, <3>1, <3>5 DEF Fork
  <2>4. QED  BY <2>2, <2>3
<1>8. CASE Wait
  BY <1>3, <1>8 DEF Wait, joinVars
<1>9. CASE Collect
  BY <1>3, <1>9 DEF Collect
<1>10. CASE Merge
  BY <1>3, <1>10 DEF Merge
<1>11. ASSUME NEW i \in Tasks, Dial(i)
       PROVE  /\ Running' = Running /\ Sent' = Sent /\ Started' = Started
              /\ UNCHANGED <<forked, used, wg, out>>
  BY <1>4, <1>11 DEF Dial, callVars, joinVars
<1>12. ASSUME NEW i \in Tasks, SendFails(i)
       PROVE  /\ Running' = Running /\ Sent' = Sent /\ Started' = Started
              /\ UNCHANGED <<forked, used, wg, out>>
  <2>1. task[i] \in {"dial", "await"}
    BY <1>12 DEF SendFails, Unreachable, TimedOut
  <2>2. task' = [task EXCEPT ![i] = "push"] /\ UNCHANGED <<forked, used, wg, out>>
    BY <1>12 DEF SendFails, callVars, joinVars
  <2>3. Running' = Running /\ Sent' = Sent /\ Started' = Started
    BY <1>4, <2>1, <2>2
  <2>4. QED  BY <2>2, <2>3
<1>13. ASSUME NEW i \in Tasks, ReadReply(i)
       PROVE  /\ Running' = Running /\ Sent' = Sent /\ Started' = Started
              /\ UNCHANGED <<forked, used, wg, out>>
  <2>1. /\ task[i] = "await" /\ task' = [task EXCEPT ![i] = "push"]
        /\ UNCHANGED <<forked, used, wg, out>>
    BY <1>13 DEF ReadReply, callVars, joinVars
  <2>2. Running' = Running /\ Sent' = Sent /\ Started' = Started
    BY <1>4, <2>1
  <2>3. QED  BY <2>1, <2>2
<1>14. ASSUME NEW i \in Tasks, Push(i)
       PROVE  /\ i \in Running \ Sent
              /\ Running' = Running /\ Sent' = Sent \cup {i} /\ Started' = Started
              /\ UNCHANGED <<pc, outcome, forked, used, wg>>
  <2>1. \A k \in Tasks : task'[k] = IF k = i THEN "pushed" ELSE task[k]
    BY <1>14 DEF Push, Types
  <2>2. task[i] = "push"
    BY <1>14 DEF Push
  <2>3. i \in Running \ Sent
    BY <2>2 DEF Running, Sent
  <2>4. Running' = Running /\ Sent' = Sent \cup {i} /\ Started' = Started
    BY <1>1, <2>1, <2>2 DEF Running, Sent, Started
  <2>5. QED  BY <1>14, <2>3, <2>4 DEF Push, callVars
<1>15. ASSUME NEW i \in Tasks, WgDone(i)
       PROVE  /\ i \in Running
              /\ Running' = Running \ {i} /\ Sent' = Sent /\ Started' = Started
              /\ wg' = wg - 1 /\ UNCHANGED <<pc, outcome, forked, used, out>>
  <2>1. \A k \in Tasks : task'[k] = IF k = i THEN "exited" ELSE task[k]
    BY <1>15 DEF WgDone, Types
  <2>2. task[i] = "pushed"
    BY <1>15 DEF WgDone
  <2>3. i \in Running
    BY <2>2 DEF Running
  <2>4. Running' = Running \ {i} /\ Sent' = Sent /\ Started' = Started
    BY <1>1, <2>1, <2>2 DEF Running, Sent, Started
  <2>5. QED  BY <1>15, <2>3, <2>4 DEF WgDone, callVars
<1>16. CASE \/ \E i \in Tasks : HandleConnection(i)
            \/ \E n \in Nodes : Node(n)
            \/ UNCHANGED vars
  BY <1>3, <1>16 DEF HandleConnection, Node, Crash, Restart, vars, callVars, joinVars
<1>17. CASE Dispatcher
  BY <1>5, <1>6, <1>7, <1>8, <1>9, <1>10, <1>17 DEF Dispatcher
<1>18. ASSUME NEW i \in Tasks, Sender(i)
       PROVE  \/ /\ Running' = Running /\ Sent' = Sent /\ Started' = Started
                 /\ UNCHANGED <<forked, used, wg, out>>
              \/ Push(i)
              \/ WgDone(i)
  BY <1>11, <1>12, <1>13, <1>18 DEF Sender
<1>19. CASE \E i \in Tasks : Sender(i)
  BY <1>14, <1>15, <1>18, <1>19
<1>20. QED  BY <1>16, <1>17, <1>19 DEF Next, Terminated

(* The counter and the channel follow the goroutines. *)
LEMMA CountsStep ==
  ASSUME Types, Counts, Phases, Forks, [Next]_vars
  PROVE  Counts'
<1>1. /\ Running \in SUBSET Tasks /\ Sent \in SUBSET Tasks
      /\ \A T \in SUBSET Tasks : IsFiniteSet(T) /\ Cardinality(T) \in Nat
  BY Basics DEF Running, Sent
<1>2. pc' \in {"call", "fork"} => pc \in {"call", "fork"}
  BY DEF Types, Next, vars, Dispatcher, Refuse, Split, Fork, Wait, Collect, Merge, Sender, Dial,
         SendFails, ReadReply, Push, WgDone, HandleConnection, Node, Crash, Restart, Terminated,
         callVars
<1>3. CASE Running' = Running /\ Sent' = Sent /\ UNCHANGED wg /\ (UNCHANGED out \/ pc = "collect")
  BY <1>2, <1>3 DEF Counts
<1>4. CASE /\ forked + 1 \in Busy \ Started /\ Running' = Running \cup {forked + 1}
           /\ Sent' = Sent /\ wg' = wg + 1 /\ UNCHANGED <<pc, out>>
  <2>1. forked + 1 \notin Running
    BY <1>4 DEF Running, Started
  <2>2. Cardinality(Running') = Cardinality(Running) + 1
    BY <1>1, <1>4, <2>1, FS_AddElement
  <2>3. QED  BY <1>4, <2>2 DEF Counts
<1>5. ASSUME NEW i \in Running \ Sent, Push(i), Running' = Running, Sent' = Sent \cup {i},
             UNCHANGED <<pc, wg>>
      PROVE  Counts'
  <2>1. Cardinality(Sent') = Cardinality(Sent) + 1
    BY <1>1, <1>5, FS_AddElement
  <2>2. partial[i] \in Answers /\ out \in Seq(Answers)
    BY <1>1 DEF Types
  <2>3. out' = Append(out, partial[i]) /\ Len(out') = Len(out) + 1
    BY <1>5, <2>2, AppendProperties DEF Push
  <2>4. QED  BY <1>5, <2>1, <2>3 DEF Counts
<1>6. ASSUME NEW i \in Running, Running' = Running \ {i}, Sent' = Sent, wg' = wg - 1,
             UNCHANGED <<pc, out>>
      PROVE  Counts'
  <2>1. Cardinality(Running') = Cardinality(Running) - 1
    BY <1>1, <1>6, FS_RemoveElement
  <2>2. QED  BY <1>6, <2>1 DEF Counts
<1>7. QED  BY <1>3, <1>4, <1>5, <1>6, StepsOfTasks

(* The order of the call: nothing is collected before all have answered. *)
LEMMA PhasesStep ==
  ASSUME Types, Counts, Phases, Forks, [Next]_vars
  PROVE  Phases'
<1>1. /\ Running \in SUBSET Tasks /\ Parts' = Parts /\ IsFiniteSet(Running)
  BY Basics, RequestStays DEF Running
<1>2. wg = 0 => Running = {}
  BY <1>1, FS_EmptySet DEF Counts
<1>3. \/ UNCHANGED <<pc, outcome>>
      \/ Dispatcher
  BY DEF Next, vars, Sender, Dial, SendFails, ReadReply, Push, WgDone, HandleConnection, Node,
         Crash, Restart, Terminated, callVars, joinVars
<1>4. pc \in {"collect", "return"} => Running' = {}
  <2>1. pc \in {"collect", "return"} => Running = {}
    BY DEF Phases
  <2>2. QED  BY <2>1, StepsOfTasks
<1>5. pc \in {"collect", "return"} => forked' = forked /\ (out' = out \/ pc = "collect")
  <2>1. pc \in {"collect", "return"} => Running = {}
    BY DEF Phases
  <2>2. QED  BY <2>1, StepsOfTasks
<1>6. CASE UNCHANGED <<pc, outcome>> /\ ~Dispatcher
  <2>1. pc = "call" => forked' = 0
    BY StepsOfTasks DEF Phases
  <2>2. outcome = "ok" => pc = "return" /\ out' = out
    BY <1>5 DEF Phases, Types
  <2>3. QED  BY <1>1, <1>4, <1>5, <1>6, <2>1, <2>2 DEF Phases
<1>7. CASE Refuse
  <2>1. pc' = "return" /\ outcome' = "error" /\ pc = "call" /\ UNCHANGED <<forked, task>>
    BY <1>7 DEF Refuse
  <2>2. Running = {}
    BY <2>1, Basics DEF Running, Forks, Phases, Started
  <2>3. Running' = {}
    BY <2>1, <2>2, RequestStays DEF Running
  <2>4. QED  BY <2>1, <2>3 DEF Phases
<1>8. CASE Split
  BY <1>8 DEF Split, Phases, joinVars
<1>9. CASE Fork
  BY <1>9 DEF Fork, Phases
<1>10. CASE Wait
  <2>1. Running' = Running /\ wg = 0
    BY <1>10, RequestStays DEF Wait, Running
  <2>2. QED  BY <1>1, <1>2, <1>10, <2>1 DEF Wait, Phases, joinVars
<1>11. CASE Collect
  BY <1>1, <1>4, <1>11 DEF Collect, Phases
<1>12. CASE Merge
  BY <1>1, <1>4, <1>12 DEF Merge, Phases
<1>13. QED  BY <1>3, <1>6, <1>7, <1>8, <1>9, <1>10, <1>11, <1>12 DEF Dispatcher

(* The nodes that are reported are those of the goroutines. *)
LEMMA ForksStep ==
  ASSUME Types, Forks, [Next]_vars
  PROVE  Forks'
<1>1. /\ Tasks' = Tasks /\ Busy' = Busy /\ ActiveNodes' = ActiveNodes
      /\ RequestType /\ Parts \in Nat /\ Tasks = 1 .. Parts
      /\ ActiveNodes \in [Tasks -> Nodes] /\ forked \in Nat
  BY RequestStays, Basics DEF Types
<1>2. \A i : NodeOf(i)' = NodeOf(i)
  BY RequestStays
<1>3. CASE Started' = Started /\ UNCHANGED <<forked, used>>
  BY <1>1, <1>2, <1>3 DEF Forks
<1>4. CASE forked + 1 \notin Busy /\ Started' = Started /\ forked' = forked + 1 /\ UNCHANGED used
  <2>1. \A i \in Tasks : i \in Busy => (i <= forked + 1 <=> i <= forked)
    BY <1>1, <1>4
  <2>2. QED  BY <1>1, <1>2, <1>4, <2>1 DEF Forks
<1>5. CASE /\ forked + 1 \in Busy \ Started /\ Started' = Started \cup {forked + 1}
           /\ forked' = forked + 1 /\ used' = Append(used, NodeOf(forked + 1))
  <2> DEFINE node == NodeOf(forked + 1)
  <2>1. forked + 1 \in Tasks /\ Started \subseteq Tasks
    BY <1>5 DEF Busy, Started
  <2>2. \A i \in Tasks : i \in Started' <=> i <= forked' /\ i \in Busy'
    BY <1>1, <1>5, <2>1 DEF Forks
  <2>3. node \in Nodes /\ used \in Seq(Nodes)
    BY <1>1, <2>1 DEF NodeOf, Types
  <2>4. node \notin Range(used)
    <3>1. \A i \in Started : NodeOf(i) # node
      BY <1>1, <1>5, <2>1, ActiveNodesType
    <3>2. QED  BY <3>1 DEF Forks
  <2> HIDE DEF node
  <2>5. /\ DOMAIN used = 1 .. Len(used) /\ DOMAIN used' = 1 .. Len(used) + 1 /\ Len(used) \in Nat
        /\ \A k \in 1 .. Len(used) : used'[k] = used[k]
        /\ used'[Len(used) + 1] = node
    <3>1. used' = Append(used, node)
      BY <1>5 DEF node
    <3>2. QED  BY <2>3, <3>1, AppendProperties, LenProperties
  <2>6. IsInjective(used')
    <3>1. \A a, b \in DOMAIN used : used[a] = used[b] => a = b
      BY DEF Forks, IsInjective
    <3>2. \A a \in DOMAIN used : used[a] # node
      BY <2>4 DEF Range
    <3>3. ASSUME NEW a \in 1 .. Len(used) + 1, NEW b \in 1 .. Len(used) + 1, used'[a] = used'[b]
          PROVE  a = b
      <4>1. a \in 1 .. Len(used) \/ a = Len(used) + 1
        BY <2>5
      <4>2. b \in 1 .. Len(used) \/ b = Len(used) + 1
        BY <2>5
      <4>3. QED  BY <2>5, <3>1, <3>2, <3>3, <4>1, <4>2
    <3>4. QED  BY <2>5, <3>3 DEF IsInjective
  <2>7. Range(used') = Range(used) \cup {node}
    BY <2>5 DEF Range
  <2>8. Range(used)' = {NodeOf(i) : i \in Started} \cup {NodeOf(forked + 1)}
    BY <2>7 DEF Forks, Range, node
  <2>9. Range(used)' = {NodeOf(i) : i \in Started'}
    BY <1>5, <2>8
  <2>10. IsInjective(used)'
    BY <2>6 DEF IsInjective
  <2>11. Range(used)' = {NodeOf(i) : i \in Started}'
    BY <1>2, <2>9
  <2>12. QED  BY <1>1, <2>2, <2>10, <2>11 DEF Forks
<1>6. QED  BY <1>3, <1>4, <1>5, StepsOfTasks

(* Only an answer that a node wrote makes a partial that succeeds. *)
LEMMA AnsweredStep ==
  ASSUME Types, Forks, Answered, [Next]_vars
  PROVE  Answered'
<1>1. Tasks' = Tasks
  BY RequestStays
<1>2. Failure.ok = FALSE
  BY DEF Failure
<1>3. CASE UNCHANGED <<task, partial, conn>>
  BY <1>1, <1>3 DEF Answered
<1>4. CASE Fork
  <2>1. UNCHANGED <<partial, conn>>
    BY <1>4 DEF Fork, netVars
  <2>2. \A i \in Tasks : task'[i] \in {"none", "dial", "await"} => task[i] \in {"none", "dial", "await"}
    <3>1. CASE Chunks[forked + 1] = <<>>
      BY <1>4, <3>1 DEF Fork
    <3>2. CASE Chunks[forked + 1] # <<>>
      <4>1. task' = [task EXCEPT ![forked + 1] = "dial"]
        BY <1>4, <3>2 DEF Fork
      <4>2. forked + 1 \in Tasks => task[forked + 1] = "none"
        BY Basics DEF Forks, Started, Types
      <4>3. \A k \in Tasks : task'[k] = IF k = forked + 1 THEN "dial" ELSE task[k]
        BY <4>1 DEF Types
      <4>4. QED  BY <4>2, <4>3
    <3>3. QED  BY <3>1, <3>2
  <2>3. QED  BY <1>1, <2>1, <2>2 DEF Answered
<1>5. ASSUME NEW i \in Tasks, Dial(i)
      PROVE  Answered'
  <2>1. partial' = partial /\ task[i] = "dial"
    BY <1>5 DEF Dial
  <2>2. \A k \in Tasks : /\ task'[k] = IF k = i THEN "await" ELSE task[k]
                         /\ conn'[k] = IF k = i THEN "serving" ELSE conn[k]
    BY <1>5 DEF Dial, Types
  <2>3. partial[i] = Failure
    BY <2>1 DEF Answered
  <2>4. QED  BY <1>1, <1>2, <2>1, <2>2, <2>3 DEF Answered
<1>6. ASSUME NEW i \in Tasks, SendFails(i)
      PROVE  Answered'
  <2>1. conn' = conn
    BY <1>6 DEF SendFails, netVars
  <2>2. \A k \in Tasks : /\ task'[k] = IF k = i THEN "push" ELSE task[k]
                         /\ partial'[k] = IF k = i THEN Failure ELSE partial[k]
    BY <1>6 DEF SendFails, Types
  <2>3. QED  BY <1>1, <1>2, <2>1, <2>2 DEF Answered
<1>7. ASSUME NEW i \in Tasks, ReadReply(i)
      PROVE  Answered'
  <2>1. conn' = conn /\ conn[i] = "replied"
    BY <1>7 DEF ReadReply, netVars
  <2>2. \A k \in Tasks : /\ task'[k] = IF k = i THEN "push" ELSE task[k]
                         /\ partial'[k] = IF k = i THEN reply[i] ELSE partial[k]
    BY <1>7 DEF ReadReply, Types
  <2>3. QED  BY <1>1, <2>1, <2>2 DEF Answered
<1>8. ASSUME NEW i \in Tasks, Push(i) \/ WgDone(i)
      PROVE  Answered'
  <2>1. UNCHANGED <<conn, partial>>
    BY <1>8 DEF Push, WgDone, netVars
  <2>2. \A k \in Tasks : task'[k] \in {"none", "dial", "await"} => task[k] \in {"none", "dial", "await"}
    <3>1. \A k \in Tasks : k # i => task'[k] = task[k]
      BY <1>8 DEF Push, WgDone, Types
    <3>2. task'[i] \in {"pushed", "exited"}
      BY <1>8 DEF Push, WgDone, Types
    <3>3. QED  BY <3>1, <3>2
  <2>3. QED  BY <1>1, <2>1, <2>2 DEF Answered
<1>9. ASSUME NEW i \in Tasks, HandleConnection(i)
      PROVE  Answered'
  <2>1. UNCHANGED <<task, partial>>
    BY <1>9 DEF HandleConnection
  <2>2. \A k \in Tasks : conn'[k] = IF k = i THEN "replied" ELSE conn[k]
    BY <1>9 DEF HandleConnection, Types
  <2>3. QED  BY <1>1, <2>1, <2>2 DEF Answered
<1>10. ASSUME NEW n \in Nodes, Crash(n)
       PROVE  Answered'
  <2>1. UNCHANGED <<task, partial>>
    BY <1>10 DEF Crash
  <2>2. \A k \in Tasks : conn[k] = "replied" => conn'[k] = "replied"
    BY <1>10 DEF Crash
  <2>3. QED  BY <1>1, <2>1, <2>2 DEF Answered
<1>11. ASSUME NEW n \in Nodes, Restart(n)
       PROVE  Answered'
  BY <1>3, <1>11 DEF Restart
<1>12. CASE Refuse \/ Split \/ Wait \/ Collect \/ Merge \/ UNCHANGED vars
  BY <1>3, <1>12 DEF Refuse, Split, Wait, Collect, Merge, netVars, vars
<1>13. CASE Dispatcher
  BY <1>4, <1>12, <1>13 DEF Dispatcher
<1>14. ASSUME NEW i \in Tasks, Sender(i) \/ HandleConnection(i)
       PROVE  Answered'
  BY <1>5, <1>6, <1>7, <1>8, <1>9, <1>14 DEF Sender
<1>15. ASSUME NEW n \in Nodes, Node(n)
       PROVE  Answered'
  BY <1>10, <1>11, <1>15 DEF Node
<1>16. QED  BY <1>12, <1>13, <1>14, <1>15 DEF Next, Terminated

(* A failure leaves the channel only by ending the call. *)
LEMMA FailuresStayStep ==
  ASSUME Types, Phases, Forks, FailuresStay, [Next]_vars
  PROVE  FailuresStay'
<1> DEFINE Told(i) == partial[i].ok \/ outcome = "error" \/ \E q \in DOMAIN out : ~out[q].ok
<1>1. \A i \in Sent : Told(i)
  BY DEF FailuresStay
<1>2. SUFFICES \A i \in Sent' : Told(i)'
  BY DEF FailuresStay
<1>3. out \in Seq(Answers) /\ Tasks' = Tasks
  BY RequestStays DEF Types
<1>4. CASE Sent' = Sent /\ UNCHANGED <<partial, out, outcome>>
  BY <1>1, <1>4
<1>5. CASE Fork
  BY <1>4, <1>5, StepsOfTasks DEF Fork
<1>6. CASE Refuse
  BY <1>6 DEF Refuse
<1>7. CASE Split \/ Wait \/ UNCHANGED vars \/ \E i \in Tasks : HandleConnection(i)
  <2>1. UNCHANGED <<task, partial, out, outcome>>
    BY <1>7 DEF Split, Wait, HandleConnection, joinVars, vars
  <2>2. Sent' = Sent
    BY <1>3, <2>1 DEF Sent
  <2>3. QED  BY <1>4, <2>1, <2>2
<1>8. CASE \E n \in Nodes : Node(n)
  <2>1. UNCHANGED <<task, partial, out, outcome>>
    BY <1>8 DEF Node, Crash, Restart, joinVars
  <2>2. Sent' = Sent
    BY <1>3, <2>1 DEF Sent
  <2>3. QED  BY <1>4, <2>1, <2>2
<1>9. CASE Collect
  <2>1. Sent' = Sent /\ partial' = partial
    BY <1>3, <1>9 DEF Collect, Sent
  <2>2. CASE ~Head(out).ok
    BY <1>9, <2>2 DEF Collect
  <2>3. CASE Head(out).ok
    <3>1. out' = Tail(out) /\ outcome' = outcome /\ out # <<>>
      BY <1>9, <2>3 DEF Collect
    <3>2. ASSUME NEW q \in DOMAIN out, ~out[q].ok
          PROVE  \E p \in DOMAIN out' : ~out'[p].ok
      <4>1. /\ DOMAIN out = 1 .. Len(out) /\ Len(out) \in Nat /\ Head(out) = out[1]
            /\ DOMAIN Tail(out) = 1 .. Len(out) - 1
            /\ \A p \in 1 .. Len(out) - 1 : Tail(out)[p] = out[p + 1]
        BY <1>3, <3>1, HeadTailProperties, LenProperties
      <4>2. q # 1
        BY <2>3, <3>2, <4>1
      <4>3. q - 1 \in 1 .. Len(out) - 1 /\ (q - 1) + 1 = q
        BY <4>1, <4>2
      <4>4. Tail(out)[q - 1] = out[q]
        BY <4>1, <4>3
      <4>5. QED  BY <3>1, <3>2, <4>1, <4>3, <4>4
    <3>3. QED  BY <1>1, <2>1, <3>1, <3>2
  <2>4. QED  BY <2>2, <2>3
<1>10. CASE Merge
  <2>1. Sent' = Sent /\ UNCHANGED <<partial, out>> /\ out = <<>> /\ outcome = "pending"
    BY <1>3, <1>10 DEF Merge, Sent, Phases
  <2>2. \A i \in Sent : partial[i].ok
    BY <1>1, <2>1
  <2>3. QED  BY <2>1, <2>2
<1>11. ASSUME NEW i \in Tasks, Dial(i) \/ SendFails(i) \/ ReadReply(i)
       PROVE  \A k \in Sent' : Told(k)'
  <2>1. task[i] \in {"dial", "await"} /\ UNCHANGED <<out, outcome>>
    BY <1>11 DEF Dial, SendFails, ReadReply, Unreachable, TimedOut, joinVars
  <2>2. \A k \in Tasks : k # i => partial'[k] = partial[k] /\ task'[k] = task[k]
    BY <1>11 DEF Dial, SendFails, ReadReply, Types
  <2>3. task'[i] \in {"await", "push"}
    BY <1>11 DEF Dial, SendFails, ReadReply, Types
  <2>4. Sent' = Sent /\ i \notin Sent
    BY <1>3, <2>1, <2>2, <2>3 DEF Sent
  <2>5. \A k \in Sent : partial'[k] = partial[k]
    BY <2>2, <2>4 DEF Sent
  <2>6. QED  BY <1>1, <2>1, <2>4, <2>5
<1>12. ASSUME NEW i \in Tasks, Push(i)
       PROVE  \A k \in Sent' : Told(k)'
  <2>1. /\ UNCHANGED <<partial, outcome>> /\ out' = Append(out, partial[i])
        /\ partial[i] \in Answers
    BY <1>12 DEF Push, Types
  <2>2. \A k \in Tasks : k # i => task'[k] = task[k]
    BY <1>12 DEF Push, Types
  <2>3. \A k \in Sent' : k = i \/ k \in Sent
    BY <1>3, <2>2 DEF Sent
  <2>4. /\ DOMAIN out = 1 .. Len(out) /\ Len(out) \in Nat /\ DOMAIN out' = 1 .. Len(out) + 1
        /\ out'[Len(out) + 1] = partial[i]
        /\ \A q \in 1 .. Len(out) : out'[q] = out[q]
    BY <1>3, <2>1, AppendProperties, LenProperties
  <2>5. \A q \in DOMAIN out : q \in DOMAIN out' /\ out'[q] = out[q]
    BY <2>4
  <2>6. Told(i)'
    <3>1. Len(out) + 1 \in DOMAIN out'
      BY <2>4
    <3>2. QED  BY <2>1, <2>4, <3>1
  <2>7. \A k \in Sent : Told(k)'
    BY <1>1, <2>1, <2>5
  <2>8. QED  BY <2>3, <2>6, <2>7
<1>13. ASSUME NEW i \in Tasks, WgDone(i)
       PROVE  \A k \in Sent' : Told(k)'
  <2>1. UNCHANGED <<partial, out, outcome>> /\ task[i] = "pushed"
    BY <1>13 DEF WgDone
  <2>2. \A k \in Tasks : k # i => task'[k] = task[k]
    BY <1>13 DEF WgDone, Types
  <2>3. Sent' \subseteq Sent
    BY <1>3, <2>1, <2>2 DEF Sent
  <2>4. QED  BY <1>1, <2>1, <2>3
<1>14. CASE Dispatcher
  BY <1>5, <1>6, <1>7, <1>9, <1>10, <1>14 DEF Dispatcher
<1>15. ASSUME NEW i \in Tasks, Sender(i)
       PROVE  \A k \in Sent' : Told(k)'
  BY <1>11, <1>12, <1>13, <1>15 DEF Sender
<1>16. QED  BY <1>7, <1>8, <1>14, <1>15 DEF Next, Terminated

(* The inductive invariant holds in every reachable state. *)
LEMMA DispatchInvariant == Spec => []IInv
<1>1. Init => IInv
  BY InvariantInit
<1>2. IInv /\ [Next]_vars => IInv'
  BY TypesStep, CountsStep, PhasesStep, ForksStep, AnsweredStep, FailuresStayStep DEF IInv
<1>3. QED  BY <1>1, <1>2, PTL DEF Spec

----------------------------------------------------------------------------
(* The answers of the nodes, and what is merged of them.                  *)

(* What a node makes of chunk i. *)
Batch(i) == PredictBatch(Chunks[i], NodeOf(i), topN)

(* What results are. *)
Result == [of : DOMAIN request.scores, score : Nat, node : Nodes]

(* No candidate is in the results twice. *)
Once(s) == \A p, q \in DOMAIN s : s[p].of = s[q].of => p = q

(* What the results of chunk i are, if its node could score them all. *)
IsBest(s, i) ==
  /\ s \in Seq(Result)
  /\ Once(s)
  /\ \A p \in DOMAIN s : s[p].of \in Range(Chunks[i]) /\ s[p].score = request.scores[s[p].of]
  /\ \A k \in Range(Chunks[i]) : request.scores[k] \in Nat
  /\ \/ \A k \in Range(Chunks[i]) : \E p \in DOMAIN s : s[p].of = k
     \/ /\ Len(s) = topN
        /\ \A k \in Range(Chunks[i]) :
             \/ \E p \in DOMAIN s : s[p].of = k
             \/ \A p \in DOMAIN s : s[p].score >= request.scores[k]

(* A chunk holds each of its candidates once. *)
LEMMA ChunkHolds ==
  ASSUME RequestType, Parts > 0, NEW i \in Tasks
  PROVE  /\ Len(Chunks[i]) \in Nat /\ DOMAIN Chunks[i] = 1 .. Len(Chunks[i])
         /\ Range(Chunks[i]) = Share(Len(request.scores), Parts, i)
         /\ \A r, q \in DOMAIN Chunks[i] : Chunks[i][r] = Chunks[i][q] => r = q
<1> DEFINE S == Share(Len(request.scores), Parts, i)
<1>1. /\ Parts \in Nat \ {0} /\ i \in 1 .. Parts /\ Len(request.scores) \in Nat
      /\ Chunks[i] = InOrder(S) /\ Len(Chunks[i]) = Cardinality(S)
      /\ DOMAIN Chunks[i] = 1 .. Len(Chunks[i])
  BY ChunksType
<1>2. S \in SUBSET Int /\ IsFiniteSet(S)
  BY <1>1, ShareType
<1> HIDE DEF S
<1>3. /\ Cardinality(S) \in Nat
      /\ InOrder(S) \in [1 .. Cardinality(S) -> S]
      /\ \A r, q \in 1 .. Cardinality(S) : r < q => InOrder(S)[r] < InOrder(S)[q]
      /\ \A n \in S : \E r \in 1 .. Cardinality(S) : InOrder(S)[r] = n
  BY <1>2, InOrderLists
<1>4. Range(Chunks[i]) = S
  BY <1>1, <1>3 DEF Range
<1>5. ASSUME NEW r \in 1 .. Cardinality(S), NEW q \in 1 .. Cardinality(S), InOrder(S)[r] = InOrder(S)[q]
      PROVE  r = q
  <2>1. InOrder(S)[r] \in Int /\ r \in Int /\ q \in Int
    <3>1. r \in Int /\ q \in Int
      BY <1>3
    <3>2. InOrder(S)[r] \in S
      BY <1>3
    <3>3. QED  BY <1>2, <3>1, <3>2
  <2>2. ~(r < q) /\ ~(q < r)
    BY <1>3, <1>5, <2>1
  <2>3. QED  BY <2>1, <2>2
<1>6. QED  BY <1>1, <1>3, <1>4, <1>5 DEF S

(* What a node answers is the best of its chunk. *)
LEMMA BatchIsBest ==
  ASSUME RequestType, Parts > 0, NEW i \in Tasks, Batch(i).ok
  PROVE  IsBest(Batch(i).results, i)
<1> DEFINE chunk == Chunks[i]
           n == Len(chunk)
           base == [j \in DOMAIN chunk |->
                      [of |-> chunk[j], score |-> request.scores[chunk[j]], node |-> NodeOf(i)]]
           V == {base[j] : j \in 1 .. n}
           s == ExchangeSort(base)
<1>1. /\ n \in Nat /\ DOMAIN chunk = 1 .. n
      /\ Range(chunk) = Share(Len(request.scores), Parts, i)
      /\ \A r, q \in 1 .. n : chunk[r] = chunk[q] => r = q
  BY ChunkHolds
<1>2. \A k \in Range(chunk) : request.scores[k] # Invalid
  <2>1. Failure.ok = FALSE
    BY DEF Failure
  <2>2. QED  BY <2>1 DEF Batch, PredictBatch
<1>3. Batch(i).results = Truncate(s, topN)
  BY <1>2 DEF Batch, PredictBatch
<1>4. DOMAIN request.scores = 1 .. Len(request.scores) /\ Range(chunk) \subseteq DOMAIN request.scores
  BY <1>1, ChunksType DEF Share
<1>5. \A k \in Range(chunk) : request.scores[k] \in Nat
  <2>1. \A k \in DOMAIN request.scores : request.scores[k] \in Nat \cup {Invalid}
    BY <1>4 DEF RequestType
  <2>2. QED  BY <1>2, <1>4, <2>1
<1>6. NodeOf(i) \in Nodes
  BY ActiveNodesType DEF NodeOf
<1>7. \A j \in 1 .. n : chunk[j] \in Range(chunk)
  BY <1>1 DEF Range
<1> HIDE DEF chunk
<1>8. \A j \in 1 .. n : /\ base[j] \in Result /\ base[j].of = chunk[j]
                        /\ base[j].score = request.scores[chunk[j]]
  BY <1>1, <1>4, <1>5, <1>6, <1>7 DEF Result
<1>9. base \in [1 .. n -> V] /\ \A p, q \in 1 .. n : base[p] = base[q] => p = q
  BY <1>1, <1>8
<1> HIDE DEF base
<1>10. base \in OrdersOf(V, n)
  BY <1>9 DEF OrdersOf
<1>11. /\ \A v \in V : v \in Result
       /\ \A v \in V : v.of \in Range(chunk) /\ v.score = request.scores[v.of]
       /\ \A v, w \in V : v.of = w.of => v = w
       /\ \A k \in Range(chunk) : \E v \in V : v.of = k
  <2>1. \A k \in Range(chunk) : \E j \in 1 .. n : k = chunk[j]
    BY <1>1 DEF Range
  <2>2. QED  BY <1>1, <1>7, <1>8, <2>1
<1>12. \A v \in V : v.score \in Int
  BY <1>11 DEF Result
<1> HIDE DEF V
<1>13. s \in OrdersOf(V, n) /\ Ordered(s, n, n)
  BY <1>1, <1>10, <1>12, SortSorts
<1> HIDE DEF s
<1>14. /\ s \in [1 .. n -> V] /\ \A p, q \in 1 .. n : s[p] = s[q] => p = q
       /\ \A v \in V : \E p \in 1 .. n : s[p] = v
       /\ \A p, q \in 1 .. n : p < q => s[p].score >= s[q].score
  BY <1>13 DEF OrdersOf, Ordered
<1>15. s \in Seq(Result) /\ Len(s) = n /\ DOMAIN s = 1 .. n
  <2>1. s \in [1 .. n -> Result]
    BY <1>11, <1>14
  <2>2. QED  BY <1>1, <2>1, LengthIs
<1>16. /\ \A p, q \in 1 .. n : s[p].of = s[q].of => p = q
       /\ \A p \in 1 .. n : s[p].of \in Range(chunk) /\ s[p].score = request.scores[s[p].of]
       /\ \A k \in Range(chunk) : \E p \in 1 .. n : s[p].of = k
  <2>1. \A p \in 1 .. n : s[p] \in V
    BY <1>14
  <2>2. QED  BY <1>11, <1>14, <2>1
<1>17. topN \in Int
  BY <1>4 DEF topN, RequestType
<1>18. CASE ~(topN > 0 /\ topN < n)
  <2>1. Batch(i).results = s
    BY <1>3, <1>15, <1>18 DEF Truncate
  <2>2. QED  BY <2>1, <1>5, <1>15, <1>16 DEF IsBest, Once, chunk
<1>19. CASE topN > 0 /\ topN < n
  <2> DEFINE c == SubSeq(s, 1, topN)
  <2>1. Batch(i).results = c
    BY <1>3, <1>15, <1>19 DEF Truncate
  <2>2. c \in Seq(Result) /\ Len(c) = topN /\ DOMAIN c = 1 .. topN /\ \A p \in 1 .. topN : c[p] = s[p]
    BY <1>15, <1>17, <1>19, SubSeqProperties
  <2> HIDE DEF c
  <2>3. \A p \in 1 .. topN : p \in 1 .. n
    BY <1>1, <1>17, <1>19
  <2>4. Once(c) /\ \A p \in DOMAIN c : c[p].of \in Range(chunk) /\ c[p].score = request.scores[c[p].of]
    BY <1>16, <2>2, <2>3 DEF Once
  <2>5. ASSUME NEW k \in Range(chunk)
        PROVE  \/ \E p \in DOMAIN c : c[p].of = k
               \/ \A p \in DOMAIN c : c[p].score >= request.scores[k]
    <3>1. PICK q \in 1 .. n : s[q].of = k
      BY <1>16
    <3>2. CASE q \in 1 .. topN
      BY <2>2, <3>1, <3>2
    <3>3. CASE q \notin 1 .. topN
      <4>1. \A p \in 1 .. topN : p < q
        BY <1>1, <1>17, <1>19, <3>3
      <4>2. s[q].score = request.scores[k]
        BY <1>16, <3>1
      <4>3. \A p \in 1 .. topN : s[p].score >= s[q].score
        BY <1>14, <2>3, <4>1
      <4>4. QED  BY <2>2, <4>2, <4>3
    <3>4. QED  BY <3>2, <3>3
  <2>6. QED  BY <2>1, <2>2, <2>4, <2>5, <1>5 DEF IsBest, chunk
<1>20. QED  BY <1>18, <1>19

(* Every candidate is in the chunk of one goroutine. *)
LEMMA ChunksPartition ==
  ASSUME RequestType, Parts > 0
  PROVE  /\ \A k \in DOMAIN request.scores : \E i \in Busy : k \in Range(Chunks[i])
         /\ \A i, j \in Tasks : \A k \in Range(Chunks[i]) \cap Range(Chunks[j]) : i = j
         /\ \A i \in Tasks : Range(Chunks[i]) \subseteq DOMAIN request.scores
<1> DEFINE n == Len(request.scores)
<1>1. /\ Parts \in Nat \ {0} /\ Tasks = 1 .. Parts /\ n \in Nat /\ DOMAIN request.scores = 1 .. n
  BY ActiveNodesType DEF Tasks, RequestType
<1>2. \A i \in Tasks : Range(Chunks[i]) = Share(n, Parts, i)
  BY ChunkHolds
<1>3. \A k \in 1 .. n : (k - 1) % Parts \in 0 .. Parts - 1
  BY <1>1
<1>4. ASSUME NEW k \in 1 .. n
      PROVE  \E i \in Busy : k \in Range(Chunks[i])
  <2>1. PICK i \in Tasks : (k - 1) % Parts = i - 1
    <3>1. ((k - 1) % Parts) + 1 \in Tasks /\ (k - 1) % Parts = (((k - 1) % Parts) + 1) - 1
      BY <1>1, <1>3
    <3>2. QED  BY <3>1
  <2>2. k \in Range(Chunks[i])
    BY <1>2, <2>1 DEF Share
  <2>3. i \in Busy
    BY <2>2 DEF Busy, Range
  <2>4. QED  BY <2>2, <2>3
<1>5. ASSUME NEW i \in Tasks, NEW j \in Tasks, NEW k \in Range(Chunks[i]) \cap Range(Chunks[j])
      PROVE  i = j
  <2>1. k \in Share(n, Parts, i) /\ k \in Share(n, Parts, j)
    BY <1>2
  <2>2. i - 1 = j - 1
    BY <2>1 DEF Share
  <2>3. i \in Int /\ j \in Int
    BY <1>1
  <2>4. QED  BY <2>2, <2>3
<1>6. \A i \in Tasks : Range(Chunks[i]) \subseteq DOMAIN request.scores
  BY <1>1, <1>2 DEF Share
<1>7. QED  BY <1>1, <1>4, <1>5, <1>6

(* A sequence whose elements are all different is as long as the set of    *)
(* them: topN of them do not fit before the place topN. *)
LEMMA PlacesAreEnough ==
  ASSUME NEW N \in Nat, NEW m \in Nat, NEW f \in [1 .. N -> 1 .. m],
         \A p, q \in 1 .. N : f[p] = f[q] => p = q
  PROVE  N <= m
<1>1. f \in Injection(1 .. N, 1 .. m)
  BY DEF Injection, IsInjective
<1>2. /\ IsFiniteSet(1 .. N) /\ Cardinality(1 .. N) = N
      /\ IsFiniteSet(1 .. m) /\ Cardinality(1 .. m) = m
  BY FS_Interval
<1>3. Cardinality(1 .. N) <= Cardinality(1 .. m)
  BY <1>1, <1>2, FS_Injection
<1>4. QED  BY <1>2, <1>3

(* An arrangement holds the same results. *)
LEMMA ArrangementIs ==
  ASSUME NEW S, NEW a \in Seq(S), Once(a), NEW t \in Arrangements(a)
  PROVE  /\ t \in Seq(S) /\ Len(t) = Len(a) /\ Len(a) \in Nat
         /\ DOMAIN t = 1 .. Len(a) /\ DOMAIN a = 1 .. Len(a)
         /\ Once(t)
         /\ \A p, q \in 1 .. Len(a) : p < q => t[p].score >= t[q].score
         /\ \A p \in 1 .. Len(a) : t[p] \in Range(a)
         /\ \A r \in Range(a) : \E p \in 1 .. Len(a) : t[p] = r
<1> DEFINE n == Len(a)
<1>1. n \in Nat /\ DOMAIN a = 1 .. n /\ a \in [1 .. n -> S]
  BY LenProperties
<1> HIDE DEF n
<1>2. PICK f \in Bijection(1 .. n, 1 .. n) : t = [p \in 1 .. n |-> a[f[p]]]
  BY <1>1 DEF Arrangements
<1>3. /\ f \in [1 .. n -> 1 .. n]
      /\ \A p, q \in 1 .. n : f[p] = f[q] => p = q
      /\ \A p \in 1 .. n : \E q \in 1 .. n : f[q] = p
  BY DEF Bijection, Injection, Surjection, IsInjective
<1>4. t \in [1 .. n -> S]
  BY <1>1, <1>2, <1>3
<1>5. t \in Seq(S) /\ Len(t) = n /\ DOMAIN t = 1 .. n
  BY <1>1, <1>4, LengthIs
<1>6. \A p, q \in 1 .. n : p < q => t[p].score >= t[q].score
  BY <1>5 DEF Arrangements, Descending
<1>7. Once(t)
  <2>1. ASSUME NEW p \in 1 .. n, NEW q \in 1 .. n, t[p].of = t[q].of
        PROVE  p = q
    <3>1. f[p] \in 1 .. n /\ f[q] \in 1 .. n /\ t[p] = a[f[p]] /\ t[q] = a[f[q]]
      BY <1>2, <1>3
    <3>2. f[p] = f[q]
      BY <1>1, <2>1, <3>1 DEF Once
    <3>3. QED  BY <1>3, <3>2
  <2>2. QED  BY <1>5, <2>1 DEF Once
<1>8. \A p \in 1 .. n : t[p] \in Range(a)
  BY <1>1, <1>2, <1>3 DEF Range
<1>9. ASSUME NEW r \in Range(a)
      PROVE  \E p \in 1 .. n : t[p] = r
  <2>1. PICK q \in 1 .. n : a[q] = r
    BY <1>1 DEF Range
  <2>2. PICK p \in 1 .. n : f[p] = q
    BY <1>3
  <2>3. QED  BY <1>2, <2>1, <2>2
<1>10. QED  BY <1>1, <1>5, <1>6, <1>7, <1>8, <1>9 DEF n

(* What is merged from the best of all chunks is the best of all. *)
LEMMA MergedIsTop ==
  ASSUME RequestType, Parts > 0,
         NEW a \in Seq(Result), Once(a),
         \A i \in Busy : IsBest(Batch(i).results, i),
         Range(a) = UNION {Range(Batch(i).results) : i \in Busy},
         NEW t \in Arrangements(a),
         NEW r, r = IF topN < Len(a) THEN SubSeq(t, 1, topN) ELSE t
  PROVE  Global!IsTop(r)
<1> DEFINE n == Len(a)
           N == Len(request.scores)
<1>1. /\ t \in Seq(Result) /\ Len(t) = n /\ n \in Nat
      /\ DOMAIN t = 1 .. n /\ DOMAIN a = 1 .. n
      /\ Once(t)
      /\ \A p, q \in 1 .. n : p < q => t[p].score >= t[q].score
      /\ \A p \in 1 .. n : t[p] \in Range(a)
      /\ \A x \in Range(a) : \E p \in 1 .. n : t[p] = x
  BY ArrangementIs
<1> HIDE DEF n
<1>2. N \in Nat /\ DOMAIN request.scores = 1 .. N /\ topN \in 0 .. N
  BY DEF RequestType, topN
<1> HIDE DEF N
<1>3. \A p \in 1 .. n : /\ t[p].score = request.scores[t[p].of]
                        /\ t[p].of \in DOMAIN request.scores
                        /\ t[p].score \in Int
  <2> TAKE p \in 1 .. n
  <2>1. PICK i \in Busy : t[p] \in Range(Batch(i).results)
    BY <1>1
  <2>2. t[p].score = request.scores[t[p].of]
    BY <2>1 DEF IsBest, Range
  <2>3. t[p] \in Result
    BY <1>1
  <2>4. QED  BY <2>2, <2>3 DEF Result
<1>held. \A i \in Busy : \A p \in DOMAIN Batch(i).results : Batch(i).results[p] \in Range(a)
  <2> TAKE i \in Busy
  <2> TAKE p \in DOMAIN Batch(i).results
  <2>1. Batch(i).results[p] \in Range(Batch(i).results)
    BY DEF Range
  <2>2. QED  BY <2>1
<1>4. ASSUME NEW i \in Busy, Len(Batch(i).results) = topN
      PROVE  \E f \in [1 .. topN -> 1 .. n] :
               /\ \A p, q \in 1 .. topN : f[p] = f[q] => p = q
               /\ \A p \in 1 .. topN : t[f[p]] = Batch(i).results[p]
  <2> DEFINE b == Batch(i).results
  <2>1. b \in Seq(Result) /\ Once(b) /\ DOMAIN b = 1 .. topN
    BY <1>4 DEF IsBest
  <2>2. \A p \in 1 .. topN : b[p] \in Range(a)
    BY <1>held, <2>1
  <2> HIDE DEF b
  <2> DEFINE f == [p \in 1 .. topN |-> CHOOSE q \in 1 .. n : t[q] = b[p]]
  <2>3. \A p \in 1 .. topN : f[p] \in 1 .. n /\ t[f[p]] = b[p]
    BY <1>1, <2>2
  <2>4. f \in [1 .. topN -> 1 .. n]
    BY <2>3
  <2> HIDE DEF f
  <2>5. \A p, q \in 1 .. topN : f[p] = f[q] => p = q
    BY <2>1, <2>3 DEF Once
  <2>6. QED  BY <2>3, <2>4, <2>5 DEF b
<1>5. \A i \in Busy : Len(Batch(i).results) = topN => topN <= n
  <2> SUFFICES ASSUME NEW i \in Busy, Len(Batch(i).results) = topN
               PROVE  topN <= n
    OBVIOUS
  <2>1. PICK f \in [1 .. topN -> 1 .. n] : \A p, q \in 1 .. topN : f[p] = f[q] => p = q
    BY <1>4
  <2>2. topN \in Nat
    BY <1>2
  <2>3. QED  BY <1>1, <2>1, <2>2, PlacesAreEnough
<1>6. ASSUME NEW k \in 1 .. N, \A p \in 1 .. n : t[p].of # k
      PROVE  \E i \in Busy : /\ Len(Batch(i).results) = topN
                             /\ \A p \in 1 .. topN : Batch(i).results[p].score >= request.scores[k]
  <2>1. PICK i \in Busy : k \in Range(Chunks[i])
    BY <1>2, ChunksPartition
  <2> DEFINE b == Batch(i).results
  <2>2. IsBest(b, i)
    OBVIOUS
  <2>3. \A p \in DOMAIN b : b[p].of # k
    <3>1. \A p \in DOMAIN b : b[p] \in Range(a)
      BY <1>held
    <3>2. QED  BY <1>1, <1>6, <3>1
  <2>4. b \in Seq(Result)
    BY <2>2 DEF IsBest
  <2> HIDE DEF b
  <2>5. Len(b) = topN /\ \A p \in DOMAIN b : b[p].score >= request.scores[k]
    BY <2>1, <2>2, <2>3 DEF IsBest
  <2>6. DOMAIN b = 1 .. topN
    BY <2>4, <2>5
  <2>7. QED  BY <2>5, <2>6 DEF b
<1>7. n >= topN
  <2>1. CASE \E k \in 1 .. N : \A p \in 1 .. n : t[p].of # k
    BY <1>5, <1>6, <2>1
  <2>2. CASE \A k \in 1 .. N : \E p \in 1 .. n : t[p].of = k
    <3> DEFINE f == [k \in 1 .. N |-> CHOOSE p \in 1 .. n : t[p].of = k]
    <3>1. \A k \in 1 .. N : f[k] \in 1 .. n /\ t[f[k]].of = k
      BY <2>2
    <3>2. f \in [1 .. N -> 1 .. n]
      BY <3>1
    <3> HIDE DEF f
    <3>3. \A k, l \in 1 .. N : f[k] = f[l] => k = l
      BY <3>1
    <3>4. N <= n
      BY <1>1, <1>2, <3>2, <3>3, PlacesAreEnough
    <3>5. QED  BY <1>1, <1>2, <3>4
  <2>3. QED  BY <2>1, <2>2
<1>8. /\ DOMAIN r = 1 .. topN /\ Len(r) = topN
      /\ \A p \in 1 .. topN : r[p] = t[p] /\ p \in 1 .. n
  <2>1. topN \in Nat
    BY <1>2
  <2>2. CASE topN < n
    <3>1. r = SubSeq(t, 1, topN)
      BY <2>2 DEF n
    <3>2. QED  BY <1>1, <2>1, <2>2, <3>1, SubSeqProperties
  <2>3. CASE ~(topN < n)
    <3>1. r = t /\ n = topN
      BY <1>1, <1>7, <2>1, <2>3 DEF n
    <3>2. QED  BY <1>1, <3>1
  <2>4. QED  BY <2>2, <2>3
<1>9. ASSUME NEW k \in 1 .. N, \A p \in 1 .. topN : r[p].of # k, NEW q \in 1 .. topN
      PROVE  r[q].score >= request.scores[k]
  <2>0. topN \in Nat
    BY <1>2
  <2>1. CASE \E p \in 1 .. n : t[p].of = k
    <3>1. PICK p \in 1 .. n : t[p].of = k
      BY <2>1
    <3>2. p \notin 1 .. topN
      BY <1>8, <1>9, <3>1
    <3>3. q < p
      BY <1>1, <2>0, <3>2
    <3>4. t[q].score >= t[p].score
      BY <1>1, <1>8, <3>3
    <3>5. QED  BY <1>3, <1>8, <3>1, <3>4
  <2>2. CASE \A p \in 1 .. n : t[p].of # k
    <3>1. PICK i \in Busy : /\ Len(Batch(i).results) = topN
                            /\ \A p \in 1 .. topN : Batch(i).results[p].score >= request.scores[k]
      BY <1>6, <2>2
    <3>2. PICK f \in [1 .. topN -> 1 .. n] :
               /\ \A p, m \in 1 .. topN : f[p] = f[m] => p = m
               /\ \A p \in 1 .. topN : t[f[p]] = Batch(i).results[p]
      BY <1>4, <3>1
    <3>3. SUFFICES ASSUME ~(r[q].score >= request.scores[k])
                   PROVE  FALSE
      OBVIOUS
    <3>4. ASSUME NEW p \in 1 .. topN
          PROVE  f[p] \in 1 .. q - 1
      <4>1. f[p] \in 1 .. n /\ q \in 1 .. n /\ t[f[p]].score >= request.scores[k]
        BY <1>8, <3>1, <3>2
      <4>2. t[q].score \in Int /\ t[f[p]].score \in Int /\ ~(t[q].score >= request.scores[k])
        BY <1>3, <1>8, <3>3, <4>1
      <4>3. request.scores[k] \in Int
        BY <1>2, DispatchAssumption DEF RequestType
      <4>4. ~(t[q].score >= t[f[p]].score)
        BY <4>1, <4>2, <4>3
      <4>5. ~(q < f[p]) /\ q # f[p]
        BY <1>1, <4>1, <4>2, <4>4
      <4>6. QED  BY <1>1, <4>1, <4>5
    <3>5. f \in [1 .. topN -> 1 .. q - 1] /\ q - 1 \in Nat
      BY <2>0, <3>4
    <3>6. topN <= q - 1
      BY <2>0, <3>2, <3>5, PlacesAreEnough
    <3>7. QED  BY <2>0, <3>6
  <2>3. QED  BY <2>1, <2>2
<1>10. Global!Candidates = 1 .. N /\ Global!Limit = topN
  BY <1>2 DEF Global!Candidates, Global!Limit, topN
<1>11. Range(r) = {r[p] : p \in 1 .. topN} /\ {x.of : x \in Range(r)} = {r[p].of : p \in 1 .. topN}
  <2>1. Range(r) = {r[p] : p \in 1 .. topN}
    BY <1>8 DEF Range
  <2>2. \A p \in 1 .. topN : r[p] \in Range(r)
    BY <2>1
  <2>3. \A x \in Range(r) : \E p \in 1 .. topN : x = r[p]
    BY <2>1
  <2>4. {x.of : x \in Range(r)} = {r[p].of : p \in 1 .. topN}
    <3>1. ASSUME NEW y \in {x.of : x \in Range(r)}
          PROVE  y \in {r[p].of : p \in 1 .. topN}
      <4>1. PICK x \in Range(r) : y = x.of
        OBVIOUS
      <4>2. PICK p \in 1 .. topN : x = r[p]
        BY <2>3
      <4>3. QED  BY <4>1, <4>2
    <3>2. ASSUME NEW p \in 1 .. topN
          PROVE  r[p].of \in {x.of : x \in Range(r)}
      BY <2>2
    <3>3. QED  BY <3>1, <3>2
  <2>5. QED  BY <2>1, <2>4
<1>12. IsInjective([p \in DOMAIN r |-> r[p].of])
  <2>1. \A p, q \in 1 .. topN : r[p].of = r[q].of => p = q
    BY <1>1, <1>8 DEF Once
  <2>2. QED  BY <1>8, <2>1 DEF IsInjective
<1>13. {r[p].of : p \in 1 .. topN} \subseteq 1 .. N
  BY <1>2, <1>3, <1>8
<1>14. \A p \in 1 .. topN : r[p].score = request.scores[r[p].of]
  BY <1>3, <1>8
<1>15. \A p, q \in 1 .. topN : p < q => r[p].score >= r[q].score
  BY <1>1, <1>8
<1>16. \A k \in 1 .. N \ {r[p].of : p \in 1 .. topN} : \A x \in Range(r) : x.score >= request.scores[k]
  BY <1>9, <1>11
<1>17. QED  BY <1>8, <1>10, <1>11, <1>12, <1>13, <1>14, <1>15, <1>16 DEF Global!IsTop, Global!Range, Global!IsInjective, Range, IsInjective

----------------------------------------------------------------------------
(* No result is lost or doubled between a node and the answer.            *)

(* A goroutine holds what its own node made of its chunk, or nothing. *)
Own == \A i \in Tasks : partial[i] \in {Failure, Batch(i)} /\ reply[i] \in {Failure, Batch(i)}

(* o is what the goroutines of S sent and was not read yet, and a holds    *)
(* the results of those that were. *)
Delivered(src, S, o, p, a) ==
  /\ src \in [DOMAIN o -> S]
  /\ \A x, y \in DOMAIN o : src[x] = src[y] => x = y
  /\ \A q \in DOMAIN o : o[q] = p[src[q]]
  /\ a \in Seq(Result) /\ Once(a)
  /\ \A i \in S \ Range(src) : p[i].ok
  /\ Range(a) = UNION {Range(p[i].results) : i \in S \ Range(src)}

(* As long as the call goes on, each partial that was sent is in the       *)
(* channel, or was a success and has been merged.                          *)
Merges == outcome = "pending" =>
            \E src \in [DOMAIN out -> Sent] : Delivered(src, Sent, out, partial, all)

(* Without an active node the call does not get past its first check. *)
Parted == pc \in {"fork", "collect"} => Parts > 0

(* The request, and so the number of its active nodes, stays. *)
LEMMA PartedStep ==
  ASSUME Parted, [Next]_vars
  PROVE  Parted'
<1>1. Parts' = Parts
  BY RequestStays
<1>2. pc' = pc \/ pc' = "return" \/ pc \in {"fork", "collect"} \/ Split
  BY DEF Next, vars, Dispatcher, Refuse, Fork, Wait, Collect, Merge, Sender, Dial,
         SendFails, ReadReply, Push, WgDone, HandleConnection, Node, Crash, Restart, Terminated,
         callVars
<1>3. QED  BY <1>1, <1>2 DEF Parted, Split

(* Neither the node nor the goroutine takes the answer of another chunk. *)
LEMMA OwnStep ==
  ASSUME Types, Own, [Next]_vars
  PROVE  Own'
<1>1. Tasks' = Tasks /\ request' = request /\ \A i : Batch(i)' = Batch(i)
  <2>1. /\ Chunks' = Chunks /\ request' = request /\ topN' = topN
        /\ \A i : NodeOf(i)' = NodeOf(i)
    BY RequestStays
  <2>2. QED  BY <2>1, RequestStays DEF Batch, PredictBatch
<1>2. SUFFICES \A i \in Tasks : partial'[i] \in {Failure, Batch(i)} /\ reply'[i] \in {Failure, Batch(i)}
  BY <1>1 DEF Own
<1>3. CASE UNCHANGED <<partial, reply>>
  BY <1>3 DEF Own
<1>4. ASSUME NEW i \in Tasks, SendFails(i)
      PROVE  Own'
  <2>1. reply' = reply /\ \A k \in Tasks : partial'[k] = IF k = i THEN Failure ELSE partial[k]
    BY <1>4 DEF SendFails, netVars, Types
  <2>2. QED  BY <1>1, <2>1 DEF Own
<1>5. ASSUME NEW i \in Tasks, ReadReply(i)
      PROVE  Own'
  <2>1. reply' = reply /\ \A k \in Tasks : partial'[k] = IF k = i THEN reply[i] ELSE partial[k]
    BY <1>5 DEF ReadReply, netVars, Types
  <2>2. QED  BY <1>1, <2>1 DEF Own
<1>6. ASSUME NEW i \in Tasks, HandleConnection(i)
      PROVE  Own'
  <2>1. partial' = partial /\ \A k \in Tasks : reply'[k] = IF k = i THEN Batch(i) ELSE reply[k]
    BY <1>6 DEF HandleConnection, Types, Batch
  <2>2. QED  BY <1>1, <2>1 DEF Own
<1>7. CASE Dispatcher \/ UNCHANGED vars
  BY <1>3, <1>7 DEF Dispatcher, Refuse, Split, Fork, Wait, Collect, Merge, netVars, vars
<1>8. ASSUME NEW i \in Tasks, Sender(i)
      PROVE  UNCHANGED <<partial, reply>> \/ SendFails(i) \/ ReadReply(i)
  BY <1>8 DEF Sender, Dial, Push, WgDone, netVars
<1>9. CASE \E n \in Nodes : Node(n)
  BY <1>3, <1>9 DEF Node, Crash, Restart
<1>10. QED
  BY <1>2, <1>3, <1>4, <1>5, <1>6, <1>7, <1>8, <1>9, <1>1 DEF Next, Terminated, Own

(* Appending results of other candidates keeps each candidate once. *)
LEMMA Concatenated ==
  ASSUME NEW S, NEW s \in Seq(S), NEW t \in Seq(S), Once(s), Once(t),
         \A x \in Range(s), y \in Range(t) : x.of # y.of
  PROVE  s \o t \in Seq(S) /\ Once(s \o t) /\ Range(s \o t) = Range(s) \cup Range(t)
<1> DEFINE m == Len(s)
           n == Len(t)
           c == s \o t
<1>1. /\ m \in Nat /\ n \in Nat /\ DOMAIN s = 1 .. m /\ DOMAIN t = 1 .. n
      /\ c \in Seq(S) /\ DOMAIN c = 1 .. m + n
      /\ \A i \in 1 .. m : c[i] = s[i]
      /\ \A i \in m + 1 .. m + n : c[i] = t[i - m]
  <2>1. c \in Seq(S) /\ Len(c) = m + n
        /\ \A i \in 1 .. m + n : c[i] = IF i <= m THEN s[i] ELSE t[i - m]
    BY ConcatProperties
  <2>2. m \in Nat /\ n \in Nat /\ DOMAIN s = 1 .. m /\ DOMAIN t = 1 .. n
    BY LenProperties
  <2> HIDE DEF c, m, n
  <2>3. DOMAIN c = 1 .. m + n
    BY <2>1, LenProperties
  <2>4. QED  BY <2>1, <2>2, <2>3
<1> HIDE DEF c, m, n
<1>2. \A p \in 1 .. m : s[p] \in Range(s)
  BY <1>1 DEF Range
<1>3. \A p \in 1 .. n : t[p] \in Range(t)
  BY <1>1 DEF Range
<1>4. \A p \in 1 .. m : p \in 1 .. m + n /\ c[p] = s[p]
  BY <1>1
<1>5. \A p \in 1 .. n : p + m \in 1 .. m + n /\ c[p + m] = t[p]
  BY <1>1
<1>6. \A p \in 1 .. m + n : p \in 1 .. m \/ \E q \in 1 .. n : p = q + m
  <2>1. TAKE p \in 1 .. m + n
  <2>2. CASE p \notin 1 .. m
    <3>1. p - m \in 1 .. n /\ p = (p - m) + m
      BY <1>1, <2>2
    <3>2. QED  BY <3>1
  <2>3. QED  BY <2>2
<1>7. Once(c)
  <2> SUFFICES ASSUME NEW p \in 1 .. m + n, NEW q \in 1 .. m + n, c[p].of = c[q].of
               PROVE  p = q
    BY <1>1 DEF Once
  <2>1. CASE p \in 1 .. m /\ q \in 1 .. m
    BY <1>1, <1>4, <2>1 DEF Once
  <2>2. ASSUME NEW a \in 1 .. n, NEW b \in 1 .. n, p = a + m, q = b + m
        PROVE  p = q
    <3>1. t[a].of = t[b].of
      BY <1>5, <2>2
    <3>2. a = b
      BY <1>1, <3>1 DEF Once
    <3>3. QED  BY <2>2, <3>2
  <2>3. ASSUME p \in 1 .. m, NEW b \in 1 .. n, q = b + m
        PROVE  FALSE
    BY <1>2, <1>3, <1>4, <1>5, <2>3
  <2>4. ASSUME q \in 1 .. m, NEW a \in 1 .. n, p = a + m
        PROVE  FALSE
    BY <1>2, <1>3, <1>4, <1>5, <2>4
  <2>5. QED  BY <1>6, <2>1, <2>2, <2>3, <2>4
<1>8. Range(c) = Range(s) \cup Range(t)
  <2>1. ASSUME NEW x \in Range(c)
        PROVE  x \in Range(s) \cup Range(t)
    <3>1. PICK p \in 1 .. m + n : x = c[p]
      BY <1>1 DEF Range
    <3>2. QED  BY <1>2, <1>3, <1>4, <1>5, <1>6, <3>1
  <2>2. ASSUME NEW p \in 1 .. m + n
        PROVE  c[p] \in Range(c)
    BY <1>1 DEF Range
  <2>3. ASSUME NEW x \in Range(s)
        PROVE  x \in Range(c)
    <3>1. PICK p \in 1 .. m : x = s[p]
      BY <1>1 DEF Range
    <3>2. QED  BY <1>4, <2>2, <3>1
  <2>4. ASSUME NEW x \in Range(t)
        PROVE  x \in Range(c)
    <3>1. PICK p \in 1 .. n : x = t[p]
      BY <1>1 DEF Range
    <3>2. QED  BY <1>5, <2>2, <3>1
  <2>5. QED  BY <2>1, <2>3, <2>4
<1>9. QED  BY <1>1, <1>7, <1>8 DEF c

(* One more that was read: the channel's first. *)
LEMMA DeliveredRead ==
  ASSUME NEW S, NEW o, NEW p, NEW a, NEW src, NEW C, o \in Seq(C), o # <<>>,
         Delivered(src, S, o, p, a), o[1].ok, o[1].results \in Seq(Result), Once(o[1].results),
         \A i, j \in S : p[i].ok /\ p[j].ok /\ i # j =>
           \A x \in Range(p[i].results), y \in Range(p[j].results) : x.of # y.of
  PROVE  \E r : Delivered(r, S, Tail(o), p, a \o o[1].results)
<1> DEFINE n == Len(o)
           b == o[1].results
           i == src[1]
           r == [q \in 1 .. n - 1 |-> src[q + 1]]
           D == S \ Range(src)
           E == S \ Range(r)
<1>1. /\ n \in Nat /\ n >= 1 /\ DOMAIN o = 1 .. n
      /\ DOMAIN Tail(o) = 1 .. n - 1 /\ \A q \in 1 .. n - 1 : Tail(o)[q] = o[q + 1]
  BY HeadTailProperties, LenProperties, EmptySeq
<1>2. /\ src \in [1 .. n -> S]
      /\ \A x, y \in 1 .. n : src[x] = src[y] => x = y
      /\ \A q \in 1 .. n : o[q] = p[src[q]]
      /\ a \in Seq(Result) /\ Once(a)
      /\ \A k \in D : p[k].ok
      /\ Range(a) = UNION {Range(p[k].results) : k \in D}
  BY <1>1 DEF Delivered
<1> HIDE DEF n
<1>3. i \in S /\ o[1] = p[i] /\ i \notin D
  BY <1>1, <1>2 DEF Range
<1>4. r \in [1 .. n - 1 -> S] /\ \A x, y \in 1 .. n - 1 : r[x] = r[y] => x = y
  <2>1. \A x \in 1 .. n - 1 : x + 1 \in 1 .. n
    BY <1>1
  <2>2. \A x, y \in 1 .. n - 1 : src[x + 1] = src[y + 1] => x = y
    BY <1>1, <1>2, <2>1
  <2>3. QED  BY <1>2, <2>1, <2>2
<1>5. \A q \in DOMAIN Tail(o) : Tail(o)[q] = p[r[q]]
  BY <1>1, <1>2
<1>6. E = D \cup {i}
  <2>1. \A q \in 1 .. n : q = 1 \/ q - 1 \in 1 .. n - 1
    BY <1>1
  <2>2. \A q \in 1 .. n - 1 : q + 1 \in 1 .. n /\ q + 1 # 1
    BY <1>1
  <2>3. 1 \in 1 .. n
    BY <1>1
  <2>4. \A q \in 1 .. n - 1 : src[q + 1] # i
    BY <1>2, <2>2, <2>3
  <2>5. Range(r) = {src[q + 1] : q \in 1 .. n - 1}
    BY DEF Range
  <2>6. Range(src) = {src[q] : q \in 1 .. n}
    BY <1>2 DEF Range
  <2>7. ASSUME NEW k \in Range(src), k # i
        PROVE  k \in Range(r)
    <3>1. PICK q \in 1 .. n : k = src[q]
      BY <2>6
    <3>2. q - 1 \in 1 .. n - 1 /\ (q - 1) + 1 = q
      BY <2>1, <2>7, <3>1
    <3>3. k = src[(q - 1) + 1]
      BY <3>1, <3>2
    <3>4. QED  BY <2>5, <3>2, <3>3
  <2>8. Range(r) \subseteq Range(src)
    BY <2>2, <2>5, <2>6
  <2>9. i \notin Range(r)
    BY <2>4, <2>5
  <2>10. QED  BY <1>3, <2>7, <2>8, <2>9
<1>7. \A x \in Range(a), y \in Range(b) : x.of # y.of
  <2> TAKE x \in Range(a), y \in Range(b)
  <2>1. PICK k \in D : x \in Range(p[k].results)
    BY <1>2
  <2>2. k \in S /\ k # i /\ p[k].ok /\ p[i].ok /\ b = p[i].results
    BY <1>2, <1>3
  <2>3. QED  BY <1>3, <2>1, <2>2
<1> HIDE DEF b, r, D, E, i
<1>8. a \o b \in Seq(Result) /\ Once(a \o b) /\ Range(a \o b) = Range(a) \cup Range(b)
  <2>1. b \in Seq(Result) /\ Once(b)
    BY DEF b
  <2>2. a \in Seq(Result) /\ Once(a)
    BY <1>2
  <2> DEFINE T == Result
  <2>3. a \in Seq(T) /\ b \in Seq(T)
    BY <2>1, <2>2
  <2> HIDE DEF T
  <2>4. a \o b \in Seq(T) /\ Once(a \o b) /\ Range(a \o b) = Range(a) \cup Range(b)
    BY <1>7, <2>1, <2>2, <2>3, Concatenated
  <2>5. QED  BY <2>4 DEF T
<1>9. \A k \in E : p[k].ok
  BY <1>2, <1>3, <1>6
<1>10. Range(a \o b) = UNION {Range(p[k].results) : k \in E}
  <2>1. Range(b) = Range(p[i].results)
    BY <1>3 DEF b
  <2>2. QED  BY <1>2, <1>6, <1>8, <2>1
<1>11. Delivered(r, S, Tail(o), p, a \o b)
  BY <1>1, <1>4, <1>5, <1>8, <1>9, <1>10 DEF Delivered, E
<1>12. QED  BY <1>11 DEF b

(* One more that was sent, to the end of the channel. *)
LEMMA DeliveredSent ==
  ASSUME NEW S, NEW o, NEW p, NEW a, NEW src, NEW C, o \in Seq(C),
         Delivered(src, S, o, p, a), NEW i, i \notin S, p[i] \in C
  PROVE  \E r : Delivered(r, S \cup {i}, Append(o, p[i]), p, a)
<1> DEFINE n == Len(o)
           r == [q \in 1 .. n + 1 |-> IF q = n + 1 THEN i ELSE src[q]]
           c == Append(o, p[i])
<1>1. /\ n \in Nat /\ DOMAIN o = 1 .. n /\ DOMAIN c = 1 .. n + 1
      /\ \A q \in 1 .. n : c[q] = o[q]
      /\ c[n + 1] = p[i]
  BY AppendProperties, LenProperties
<1>2. /\ src \in [1 .. n -> S]
      /\ \A x, y \in 1 .. n : src[x] = src[y] => x = y
      /\ \A q \in 1 .. n : o[q] = p[src[q]]
      /\ a \in Seq(Result) /\ Once(a)
      /\ \A k \in S \ Range(src) : p[k].ok
      /\ Range(a) = UNION {Range(p[k].results) : k \in S \ Range(src)}
  BY <1>1 DEF Delivered
<1> HIDE DEF n, c
<1>3. \A q \in 1 .. n + 1 : q \in 1 .. n \/ q = n + 1
  BY <1>1
<1>4. \A q \in 1 .. n : q \in 1 .. n + 1 /\ r[q] = src[q] /\ r[q] \in S
  BY <1>1, <1>2
<1>5. n + 1 \in 1 .. n + 1 /\ r[n + 1] = i
  BY <1>1
<1>6. r \in [1 .. n + 1 -> S \cup {i}] /\ DOMAIN r = 1 .. n + 1
  BY <1>3, <1>4, <1>5
<1> HIDE DEF r
<1>7. \A x, y \in 1 .. n + 1 : r[x] = r[y] => x = y
  BY <1>2, <1>3, <1>4, <1>5
<1>8. \A q \in 1 .. n + 1 : c[q] = p[r[q]]
  BY <1>1, <1>2, <1>3, <1>4, <1>5
<1>9. Range(r) = Range(src) \cup {i}
  <2>1. Range(r) = {r[q] : q \in 1 .. n + 1}
    BY <1>6 DEF Range
  <2>2. Range(src) = {src[q] : q \in 1 .. n}
    BY <1>2 DEF Range
  <2>3. QED  BY <1>3, <1>4, <1>5, <2>1, <2>2
<1>10. (S \cup {i}) \ Range(r) = S \ Range(src)
  BY <1>9
<1>11. Delivered(r, S \cup {i}, c, p, a)
  BY <1>1, <1>2, <1>6, <1>7, <1>8, <1>10 DEF Delivered
<1>12. QED  BY <1>11 DEF c

(* Batches that succeeded are of candidates that no other chunk has. *)
LEMMA BatchesAreApart ==
  ASSUME RequestType, Parts > 0, Own, NEW i \in Tasks, partial[i].ok
  PROVE  /\ IsBest(partial[i].results, i)
         /\ partial[i] = Batch(i)
         /\ \A x \in Range(partial[i].results) : x.of \in Range(Chunks[i])
<1>1. Failure.ok = FALSE
  BY DEF Failure
<1>2. partial[i] = Batch(i)
  BY <1>1 DEF Own
<1>3. IsBest(Batch(i).results, i)
  BY <1>2, BatchIsBest
<1>4. \A x \in Range(Batch(i).results) : x.of \in Range(Chunks[i])
  <2>1. \A p \in DOMAIN Batch(i).results : Batch(i).results[p].of \in Range(Chunks[i])
    BY <1>3 DEF IsBest
  <2>2. \A x \in Range(Batch(i).results) : \E p \in DOMAIN Batch(i).results : x = Batch(i).results[p]
    BY DEF Range
  <2>3. QED  BY <2>1, <2>2
<1>5. QED  BY <1>2, <1>3, <1>4

(* Whatever order the goroutines send in, and Collect reads in, no result  *)
(* is lost or read twice.                                                  *)
LEMMA MergesStep ==
  ASSUME Types, Phases, Forks, Own, Merges, [Next]_vars
  PROVE  Merges'
<1>1. SUFFICES ASSUME outcome' = "pending"
               PROVE  \E src : Delivered(src, Sent, out, partial, all)'
  <2>1. \A src : Delivered(src, Sent, out, partial, all)' => (src \in [DOMAIN out -> Sent])'
    BY DEF Delivered
  <2>2. QED  BY <2>1 DEF Merges
<1>2. request' = request /\ Result' = Result /\ Tasks' = Tasks
  <2>1. request' = request /\ Nodes' = Nodes /\ Tasks' = Tasks
    BY RequestStays
  <2>2. QED  BY <2>1 DEF Result
<1>3. /\ RequestType /\ Sent \subseteq Tasks /\ out \in Seq(Answers)
      /\ partial \in [Tasks -> Answers]
  BY Basics DEF Sent, Types
<1>4. outcome = "pending"
  BY <1>1 DEF Types, Phases, Next, vars, Dispatcher, Refuse, Split, Fork, Wait, Collect, Merge, Sender, Dial,
         SendFails, ReadReply, Push, WgDone, HandleConnection, Node, Crash, Restart, Terminated,
         callVars, joinVars
<1>5. PICK src : Delivered(src, Sent, out, partial, all)
  BY <1>4 DEF Merges
<1>6. ASSUME Sent' = Sent, out' = out, all' = all, \A i \in Sent : partial'[i] = partial[i]
      PROVE  Delivered(src, Sent, out, partial, all)'
  <2>1. /\ src \in [DOMAIN out -> Sent]
        /\ \A x, y \in DOMAIN out : src[x] = src[y] => x = y
        /\ \A q \in DOMAIN out : out[q] = partial[src[q]]
        /\ all \in Seq(Result) /\ Once(all)
        /\ \A i \in Sent \ Range(src) : partial[i].ok
        /\ Range(all) = UNION {Range(partial[i].results) : i \in Sent \ Range(src)}
    BY <1>5 DEF Delivered
  <2>2. \A q \in DOMAIN out : out'[q] = partial'[src[q]]
    BY <1>6, <2>1
  <2>3. /\ \A i \in Sent \ Range(src) : partial'[i].ok
        /\ UNION {Range(partial'[i].results) : i \in Sent \ Range(src)}
             = UNION {Range(partial[i].results) : i \in Sent \ Range(src)}
    BY <1>6, <2>1
  <2>4. Delivered(src, Sent, out, partial', all)
    BY <1>6, <2>1, <2>2, <2>3 DEF Delivered
  <2>5. Delivered(src, Sent', out', partial', all') /\ Result' = Result
    BY <1>2, <1>6, <2>4
  <2>6. QED  BY <2>5 DEF Delivered
<1>7. CASE Split \/ Wait \/ UNCHANGED vars \/ (\E i \in Tasks : HandleConnection(i)) \/ \E n \in Nodes : Node(n)
  <2>1. UNCHANGED <<task, partial, out, all>>
    BY <1>7 DEF Split, Wait, HandleConnection, Node, Crash, Restart, joinVars, vars
  <2>2. Sent' = Sent
    BY <1>2, <2>1 DEF Sent
  <2>3. QED  BY <1>6, <2>1, <2>2
<1>8. CASE Fork
  <2>1. UNCHANGED <<partial, out, all>> /\ forked' = forked + 1
    BY <1>8 DEF Fork
  <2>2. forked' # forked
    BY <2>1 DEF Types
  <2>3. Sent' = Sent
    BY <2>2, StepsOfTasks
  <2>4. QED  BY <1>6, <2>1, <2>3
<1>9. CASE Refuse \/ Merge
  BY <1>1, <1>9 DEF Refuse, Merge
<1>10. ASSUME NEW i \in Tasks, Dial(i) \/ SendFails(i) \/ ReadReply(i)
       PROVE  \E r : Delivered(r, Sent, out, partial, all)'
  <2>1. task[i] \in {"dial", "await"} /\ UNCHANGED <<out, all>>
    BY <1>10 DEF Dial, SendFails, ReadReply, Unreachable, TimedOut, joinVars
  <2>2. \A k \in Tasks : k # i => partial'[k] = partial[k] /\ task'[k] = task[k]
    BY <1>10 DEF Dial, SendFails, ReadReply, Types
  <2>3. task'[i] \in {"await", "push"}
    BY <1>10 DEF Dial, SendFails, ReadReply, Types
  <2>4. Sent' = Sent /\ i \notin Sent
    BY <1>2, <2>1, <2>2, <2>3 DEF Sent
  <2>5. \A k \in Sent : partial'[k] = partial[k]
    BY <2>2, <2>4 DEF Sent
  <2>6. QED  BY <1>6, <2>1, <2>4, <2>5
<1>11. ASSUME NEW i \in Tasks, WgDone(i)
       PROVE  \E r : Delivered(r, Sent, out, partial, all)'
  <2>1. UNCHANGED <<partial, out, all>> /\ task[i] = "pushed"
    BY <1>11 DEF WgDone
  <2>2. \A k \in Tasks : task'[k] = IF k = i THEN "exited" ELSE task[k]
    BY <1>11 DEF WgDone, Types
  <2>3. Sent' = Sent
    BY <1>2, <2>1, <2>2 DEF Sent
  <2>4. QED  BY <1>6, <2>1, <2>3
<1>12. ASSUME NEW i \in Tasks, Push(i)
       PROVE  \E r : Delivered(r, Sent, out, partial, all)'
  <2>1. /\ UNCHANGED <<partial, all>> /\ out' = Append(out, partial[i]) /\ task[i] = "push"
        /\ partial[i] \in Answers
    BY <1>3, <1>12 DEF Push
  <2>2. \A k \in Tasks : task'[k] = IF k = i THEN "pushed" ELSE task[k]
    BY <1>12 DEF Push, Types
  <2>3. Sent' = Sent \cup {i} /\ i \notin Sent
    BY <1>2, <2>1, <2>2 DEF Sent
  <2>4. \E r : Delivered(r, Sent \cup {i}, Append(out, partial[i]), partial, all)
    BY <1>3, <1>5, <2>1, <2>3, DeliveredSent
  <2>5. PICK r : Delivered(r, Sent', out', partial', all')
    BY <2>1, <2>3, <2>4
  <2>6. Delivered(r, Sent, out, partial, all)'
    BY <1>2, <2>5 DEF Delivered
  <2>7. QED  BY <2>6
<1>13. CASE Collect
  <2>1. /\ out # <<>> /\ Head(out) = out[1] /\ out[1].ok
        /\ all' = all \o out[1].results /\ out' = Tail(out)
        /\ UNCHANGED <<task, partial>>
    <3>1. out # <<>> /\ Head(out) = out[1] /\ UNCHANGED <<task, partial>>
      BY <1>3, <1>13, HeadTailProperties DEF Collect
    <3>2. Head(out).ok
      BY <1>1, <1>13 DEF Collect
    <3>3. all' = all \o Head(out).results /\ out' = Tail(out)
      BY <1>13, <3>2 DEF Collect
    <3>4. QED  BY <3>1, <3>2, <3>3
  <2>2. Sent' = Sent
    BY <1>2, <2>1 DEF Sent
  <2>3. PICK i \in Sent : out[1] = partial[i]
    <3>1. 1 \in DOMAIN out
      BY <1>3, <2>1, EmptySeq, LenProperties
    <3>2. src[1] \in Sent /\ out[1] = partial[src[1]]
      BY <1>5, <3>1 DEF Delivered
    <3>3. QED  BY <3>2
  <2>4. Parts > 0
    BY <1>3, Basics DEF Types
  <2>5. out[1].results \in Seq(Result) /\ Once(out[1].results)
    <3>1. IsBest(partial[i].results, i)
      BY <1>3, <2>1, <2>3, <2>4, BatchesAreApart
    <3>2. QED  BY <2>3, <3>1 DEF IsBest
  <2>6. ASSUME NEW j \in Sent, NEW k \in Sent, partial[j].ok, partial[k].ok, j # k,
               NEW x \in Range(partial[j].results), NEW y \in Range(partial[k].results)
        PROVE  x.of # y.of
    <3>1. j \in Tasks /\ k \in Tasks
      BY <1>3
    <3>2. x.of \in Range(Chunks[j]) /\ y.of \in Range(Chunks[k])
      BY <1>3, <2>4, <2>6, <3>1, BatchesAreApart
    <3>3. QED  BY <1>3, <2>4, <2>6, <3>1, <3>2, ChunksPartition
  <2>7. \E r : Delivered(r, Sent, Tail(out), partial, all \o out[1].results)
    BY <1>3, <1>5, <2>1, <2>5, <2>6, DeliveredRead
  <2>8. PICK r : Delivered(r, Sent', out', partial', all')
    BY <2>1, <2>2, <2>7
  <2>9. Delivered(r, Sent, out, partial, all)'
    BY <1>2, <2>8 DEF Delivered
  <2>10. QED  BY <2>9
<1>14. CASE Dispatcher
  BY <1>7, <1>8, <1>9, <1>13, <1>14 DEF Dispatcher
<1>15. ASSUME NEW i \in Tasks, Sender(i)
       PROVE  \E r : Delivered(r, Sent, out, partial, all)'
  BY <1>10, <1>11, <1>12, <1>15 DEF Sender
<1>16. QED  BY <1>7, <1>14, <1>15 DEF Next, Terminated

(* They hold in the first state, when nothing was sent. *)
LEMMA MergesInit ==
  ASSUME Init
  PROVE  Own /\ Parted /\ Merges
<1>1. Own
  BY DEF Init, Own
<1>2. Merges
  <2> DEFINE src == <<>>
  <2>1. DOMAIN out = {} /\ Sent = {}
    BY DEF Init, Sent
  <2>2. src \in [DOMAIN out -> Sent] /\ Range(src) = {} /\ DOMAIN src = {}
    BY <2>1 DEF Range
  <2>3. all \in Seq(Result) /\ Once(all) /\ Range(all) = {}
    BY DEF Init, Once, Range
  <2>4. Delivered(src, Sent, out, partial, all)
    BY <2>1, <2>2, <2>3 DEF Delivered
  <2>5. QED  BY <2>2, <2>4 DEF Merges
<1>3. QED  BY <1>1, <1>2 DEF Init, Parted

(* They hold in every reachable state. *)
LEMMA MergesInvariant == Spec => [](IInv /\ Own /\ Parted /\ Merges)
<1>1. Init => IInv /\ Own /\ Parted /\ Merges
  BY InvariantInit, MergesInit
<1>2. IInv /\ Own /\ Parted /\ Merges /\ [Next]_vars => (IInv /\ Own /\ Parted /\ Merges)'
  BY TypesStep, CountsStep, PhasesStep, ForksStep, AnsweredStep, FailuresStayStep, OwnStep,
     PartedStep, MergesStep DEF IInv
<1>3. QED  BY <1>1, <1>2, PTL DEF Spec

(* What is answered is the top of all the candidates. *)
LEMMA MergeAnswers ==
  ASSUME IInv, Own, Parted, Merges, Merge
  PROVE  Global!Answer
<1>1. /\ pc = "collect" /\ out = <<>> /\ outcome = "pending" /\ outcome' = "ok"
      /\ request' = request
      /\ forked = Parts /\ Running = {}
  BY DEF Merge, IInv, Phases
<1>2. RequestType /\ Parts \in Nat /\ Tasks = 1 .. Parts /\ request \in Requests
  BY Basics DEF IInv, Types
<1>3. PICK sorted \in Arrangements(all) :
        all' = IF topN < Len(all) THEN SubSeq(sorted, 1, topN) ELSE sorted
  BY DEF Merge
<1>4. Parts > 0
  BY <1>1 DEF Parted
<1>5. Sent = Busy /\ Busy \subseteq Tasks
  <2>1. \A i \in Tasks : i <= forked
    BY <1>1, <1>2
  <2>2. \A i \in Tasks : i \in Started <=> i \in Busy
    BY <2>1 DEF IInv, Forks
  <2>3. \A i \in Tasks : i \in Sent <=> i \in Started
    BY <1>1 DEF IInv, Types, Started, Sent, Running
  <2>4. QED  BY <2>2, <2>3 DEF Sent, Busy
<1>6. \A i \in Busy : partial[i].ok
  BY <1>1, <1>5 DEF IInv, FailuresStay
<1>7. \A i \in Busy : IsBest(Batch(i).results, i) /\ partial[i] = Batch(i)
  BY <1>2, <1>4, <1>5, <1>6, BatchesAreApart
<1>8. /\ all \in Seq(Result) /\ Once(all)
      /\ Range(all) = UNION {Range(Batch(i).results) : i \in Busy}
  <2>1. PICK src \in [DOMAIN out -> Sent] : Delivered(src, Sent, out, partial, all)
    BY <1>1 DEF Merges
  <2>2. Range(src) = {}
    BY <1>1, <2>1 DEF Range
  <2>3. Busy \ Range(src) = Busy
    BY <2>2
  <2>4. /\ all \in Seq(Result) /\ Once(all)
        /\ Range(all) = UNION {Range(partial[i].results) : i \in Busy}
    BY <1>5, <2>1, <2>3 DEF Delivered
  <2>5. UNION {Range(partial[i].results) : i \in Busy} = UNION {Range(Batch(i).results) : i \in Busy}
    BY <1>7
  <2>6. QED  BY <2>4, <2>5
<1>9. Global!IsTop(all')
  BY <1>2, <1>3, <1>4, <1>7, <1>8, MergedIsTop
<1>10. \A k \in DOMAIN request.scores : request.scores[k] # Invalid
  <2> TAKE k \in DOMAIN request.scores
  <2>1. PICK i \in Busy : k \in Range(Chunks[i])
    BY <1>2, <1>4, ChunksPartition
  <2>2. request.scores[k] \in Nat
    BY <1>7, <2>1 DEF IsBest
  <2>3. QED  BY <2>2, DispatchAssumption
<1>11. QED
  BY <1>1, <1>9, <1>10 DEF Global!Answer, Global!Candidates

(* A step of the code is an answer, a failure, or nothing to the caller. *)
LEMMA StepsRefine ==
  ASSUME IInv, Own, Parted, Merges, [Next]_vars
  PROVE  [Global!Next]_<<request, IF outcome = "pending" THEN "asked" ELSE outcome,
                         IF outcome = "ok" THEN all ELSE <<>>>>
<1> DEFINE status == IF outcome = "pending" THEN "asked" ELSE outcome
           answer == IF outcome = "ok" THEN all ELSE <<>>
<1>1. request' = request
  BY RequestStays
<1>2. CASE Merge
  BY <1>2, MergeAnswers DEF Global!Next
<1>3. outcome = "pending" <=> pc # "return"
  BY DEF IInv, Phases
<1>4. CASE Refuse \/ Collect
  <2>1. outcome = "pending" /\ (outcome' = outcome \/ outcome' = "error")
    BY <1>3, <1>4 DEF Refuse, Collect
  <2>2. CASE outcome' = outcome
    BY <1>1, <2>1, <2>2
  <2>3. CASE outcome' = "error"
    BY <1>1, <2>1, <2>3 DEF Global!Next, Global!Fail
  <2>4. QED  BY <2>1, <2>2, <2>3
<1>5. UNCHANGED <<outcome, all>> \/ Merge \/ Refuse \/ Collect
  BY DEF Next, vars, Dispatcher, Split, Fork, Wait, Sender, Dial, SendFails, ReadReply, Push, WgDone,
         HandleConnection, Node, Crash, Restart, Terminated, callVars, joinVars
<1>6. CASE UNCHANGED <<outcome, all>>
  BY <1>1, <1>6
<1>7. QED  BY <1>2, <1>4, <1>5, <1>6

----------------------------------------------------------------------------
(* The theorems.                                                           *)

(* Whatever the registry and the request, every candidate is in one chunk  *)
(* and no node gets two candidates more than another. *)
THEOREM WorkIsShared == Spec => []PartsAreFair
<1>1. IInv => PartsAreFair
  BY Basics, ChunksAreFair DEF IInv
<1>2. QED  BY <1>1, DispatchInvariant, PTL

(* No goroutine waits for room in the channel, for the channel has a place *)
(* for each of them; and none is left when the channel is closed and read. *)
THEOREM SendersAreFree == Spec => []SendersNeverBlock
<1>1. ASSUME IInv
      PROVE  SendersNeverBlock
  <2>1. ASSUME NEW i \in Tasks, task[i] = "push"
        PROVE  Len(out) < OutCap
    <3>1. i \in Running /\ i \in Started
      BY <2>1 DEF Running, Started
    <3>2. pc \in {"call", "fork"} /\ Len(out) = Cardinality(Sent)
      BY <1>1, <3>1 DEF IInv, Phases, Types, Counts
    <3>3. Sent \subseteq Tasks \ {i}
      BY <2>1 DEF Sent
    <3>4. IsFiniteSet(Tasks) /\ Cardinality(Tasks) = Parts /\ Parts \in Nat
      BY <1>1, Basics DEF IInv
    <3>5. IsFiniteSet(Tasks \ {i}) /\ Cardinality(Tasks \ {i}) = Parts - 1
      BY <3>4, FS_RemoveElement
    <3>6. Cardinality(Sent) <= Parts - 1 /\ Cardinality(Sent) \in Nat
      BY <1>1, <3>3, <3>5, FS_Subset, FS_CardinalityType
    <3>7. QED  BY <3>2, <3>4, <3>6 DEF OutCap
  <2>2. ASSUME pc \in {"collect", "return"}, NEW i \in Tasks
        PROVE  task[i] \in {"none", "exited"}
    BY <1>1, <2>2 DEF IInv, Types, Phases, Running
  <2>3. QED  BY <2>1, <2>2 DEF SendersNeverBlock
<1>2. QED  BY <1>1, DispatchInvariant, PTL

(* An answer stands for all chunks: each of them was scored by its node,   *)
(* and the nodes reported are exactly those. *)
THEOREM NoPartialAnswer == Spec => []AllOrNothing
<1>1. ASSUME IInv, outcome = "ok"
      PROVE  /\ \A i \in Busy : partial[i].ok /\ conn[i] = "replied"
             /\ IsInjective(used) /\ Range(used) = {NodeOf(i) : i \in Busy}
  <2>1. forked = Parts /\ Running = {} /\ out = <<>>
    BY <1>1 DEF IInv, Phases
  <2>2. Parts \in Nat /\ Tasks = 1 .. Parts
    BY <1>1, Basics DEF IInv
  <2>3. Started = Busy
    <3>1. \A i \in Tasks : i <= forked
      BY <2>1, <2>2
    <3>2. QED  BY <1>1, <3>1 DEF IInv, Forks, Started, Busy
  <2>4. \A i \in Busy : i \in Sent
    BY <1>1, <2>1, <2>3 DEF IInv, Types, Started, Running, Sent
  <2>5. \A i \in Busy : partial[i].ok
    BY <1>1, <2>1, <2>4 DEF IInv, FailuresStay
  <2>6. \A i \in Busy : conn[i] = "replied"
    BY <1>1, <2>5 DEF IInv, Answered, Busy
  <2>7. QED  BY <1>1, <2>3, <2>5, <2>6 DEF IInv, Forks
<1>2. IInv => AllOrNothing
  BY <1>1 DEF AllOrNothing, Busy
<1>3. QED  BY <1>2, DispatchInvariant, PTL

(* The dispatcher with its nodes does what TopN promises: an answer is the *)
(* top of all the candidates, whatever crashed, hung or came late. *)
THEOREM DispatchImplementsTopN == Spec => ImplementsTopN
<1>1. Init => Global!Init
  BY DEF Init, Global!Init
<1>2. IInv /\ Own /\ Parted /\ Merges /\ [Next]_vars
        => [Global!Next]_<<request, IF outcome = "pending" THEN "asked" ELSE outcome,
                           IF outcome = "ok" THEN all ELSE <<>>>>
  BY StepsRefine
<1>3. QED  BY <1>1, <1>2, MergesInvariant, PTL DEF Spec, ImplementsTopN, Global!Spec
=============================================================================
