--------------------------- MODULE CoreHoldings_proofs --------------------------
(***************************************************************************)
(* What was executed of an order is held or sold once: not twice over      *)
(* recoveries, deliveries, cycles and restarts, for any pairs, orders,     *)
(* beliefs, crashes and balances.                                          *)
(***************************************************************************)
EXTENDS CoreRuntime_proofs

-----------------------------------------------------------------------------
(* How much of an order a list holds: as positions, as exits that wait to be *)
(* placed, as exits that were placed.                                        *)

Weight(p, o) == IF p.id = FillId(o) THEN p.quantity ELSE 0
ExitWeight(a, o) == IF a.type = "close" /\ a.id = FillId(o) THEN a.quantity ELSE 0
SoldWeight(x, o) == IF x.closes = FillId(o) THEN x.quantity ELSE 0

Weights(s, o) == [i \in DOMAIN s |-> Weight(s[i], o)]
ExitWeights(s, o) == [i \in DOMAIN s |-> ExitWeight(s[i], o)]
SoldWeights(s, o) == [i \in DOMAIN s |-> SoldWeight(s[i], o)]

Held(s, o) == SumFunction(Weights(s, o))
Leaving(s, o) == SumFunction(ExitWeights(s, o))
Sold(s, o) == SumFunction(SoldWeights(s, o))

\* Sums over the places of a list.
LEMMA ListSum ==
  ASSUME NEW w, NEW n \in Nat, DOMAIN w = 1..n, \A i \in 1..n : w[i] \in Nat
  PROVE  /\ SumFunction(w) = SumFunctionOnSet(w, 1..n) /\ SumFunction(w) \in Nat
         /\ IsFiniteSet(1..n)
         /\ (\A i \in 1..n : w[i] = 0) => SumFunction(w) = 0
<1>1. IsFiniteSet(1..n)
  BY FS_Interval
<1>2. SumFunction(w) = SumFunctionOnSet(w, 1..n)
  BY DEF SumFunction
<1>3. SumFunctionOnSet(w, 1..n) \in Nat
  BY <1>1, SumType
<1> QED
  BY <1>1, <1>2, <1>3, SumNothing

\* One more at the end, one at another place, and one at the front less.
LEMMA ListSumAppend ==
  ASSUME NEW w, NEW v, NEW n \in Nat, DOMAIN w = 1..n, DOMAIN v = 1..(n + 1),
         \A i \in 1..n : w[i] \in Nat /\ v[i] = w[i], v[n + 1] \in Nat
  PROVE  SumFunction(v) = SumFunction(w) + v[n + 1]
<1>1. /\ SumFunction(w) = SumFunctionOnSet(w, 1..n) /\ SumFunction(w) \in Nat /\ IsFiniteSet(1..n)
  BY ListSum
<1>2. n + 1 \in Nat /\ \A i \in 1..(n + 1) : v[i] \in Nat
  <2>1. \A i \in 1..(n + 1) : i \in 1..n \/ i = n + 1
    OBVIOUS
  <2> QED
    BY <2>1
<1>3. SumFunction(v) = SumFunctionOnSet(v, 1..(n + 1)) /\ IsFiniteSet(1..(n + 1))
  BY <1>2, ListSum
<1>4. (1..(n + 1)) \ {n + 1} = 1..n /\ n + 1 \in 1..(n + 1)
  OBVIOUS
<1>5. SumFunctionOnSet(v, 1..(n + 1)) = v[n + 1] + SumFunctionOnSet(v, 1..n)
  <2> DEFINE S == 1..(n + 1)
  <2>1. \A i \in S : v[i] \in Int
    BY <1>2
  <2> HIDE DEF S
  <2>2. SumFunctionOnSet(v, S) = v[n + 1] + SumFunctionOnSet(v, S \ {n + 1})
    BY <1>3, <1>4, <2>1, SumTakes DEF S
  <2> QED
    BY <1>4, <2>2 DEF S
<1>6. SumFunctionOnSet(v, 1..n) = SumFunctionOnSet(w, 1..n)
  BY <1>1, SumSame
<1> QED
  BY <1>1, <1>3, <1>5, <1>6

LEMMA ListSumChange ==
  ASSUME NEW w, NEW v, NEW n \in Nat, DOMAIN w = 1..n, DOMAIN v = 1..n, NEW k \in 1..n,
         \A i \in 1..n : w[i] \in Nat /\ v[i] \in Nat /\ (i # k => v[i] = w[i])
  PROVE  SumFunction(v) = SumFunction(w) + v[k] - w[k]
<1>1. /\ SumFunction(w) = SumFunctionOnSet(w, 1..n) /\ SumFunction(w) \in Nat /\ IsFiniteSet(1..n)
      /\ SumFunction(v) = SumFunctionOnSet(v, 1..n)
  BY ListSum
<1>2. SumFunctionOnSet(v, 1..n) = SumFunctionOnSet(w, 1..n) + IF k \in 1..n THEN v[k] - w[k] ELSE 0
  <2> DEFINE S == 1..n
  <2>1. IsFiniteSet(S) /\ \A i \in S : w[i] \in Int /\ v[i] \in Int /\ (i # k => v[i] = w[i])
    BY <1>1
  <2> HIDE DEF S
  <2>2. SumFunctionOnSet(v, S) = SumFunctionOnSet(w, S) + IF k \in S THEN v[k] - w[k] ELSE 0
    BY <2>1, SumChanges
  <2> QED
    BY <2>2 DEF S
<1>3. v[k] \in Nat /\ w[k] \in Nat
  OBVIOUS
<1> QED
  BY <1>1, <1>2, <1>3

LEMMA ListSumJoin ==
  ASSUME NEW w, NEW v, NEW u, NEW n \in Nat, NEW m \in Nat,
         DOMAIN w = 1..n, DOMAIN v = 1..m, DOMAIN u = 1..(n + m),
         \A i \in 1..n : w[i] \in Nat /\ u[i] = w[i],
         \A i \in 1..m : v[i] \in Nat /\ u[n + i] = v[i]
  PROVE  SumFunction(u) = SumFunction(w) + SumFunction(v)
<1>1. SumFunction(w) = SumFunctionOnSet(w, 1..n) /\ SumFunction(v) = SumFunctionOnSet(v, 1..m)
  BY ListSum
<1>2. SumFunction(u) = SumFunctionOnSet(u, 1..(n + m))
  BY DEF SumFunction
<1>3. 1..n \cup (n + 1)..(n + m) = 1..(n + m)
  OBVIOUS
<1> DEFINE S == 1..n
<1>4. /\ S \subseteq 1..n /\ \A i \in S : w[i] \in Int /\ u[i] = w[i]
      /\ \A i \in 1..m : v[i] \in Int
  OBVIOUS
<1> HIDE DEF S
<1>5. AddUp(u, S \cup (n + 1)..(n + m), w, S, v, m)
  BY <1>4, SumAppends
<1> QED
  BY <1>1, <1>2, <1>3, <1>5 DEF AddUp, S

LEMMA ListSumTail ==
  ASSUME NEW w, NEW v, NEW n \in Nat, DOMAIN w = 1..(n + 1), DOMAIN v = 1..n,
         \A i \in 1..(n + 1) : w[i] \in Nat, \A i \in 1..n : v[i] = w[1 + i]
  PROVE  SumFunction(w) = w[1] + SumFunction(v)
<1> DEFINE u == [i \in 1..1 |-> w[1]]
<1>1. 1 \in 1..(n + 1) /\ \A i \in 1..n : 1 + i \in 1..(n + 1)
  OBVIOUS
<1>2. /\ DOMAIN u = 1..1 /\ \A i \in 1..1 : u[i] \in Nat /\ w[i] = u[i]
      /\ \A i \in 1..n : v[i] \in Nat /\ w[1 + i] = v[i]
      /\ DOMAIN w = 1..(1 + n)
  BY <1>1
<1>3. SumFunction(u) = w[1]
  <2> DEFINE one == 1..1
  <2>1. one \ {1} = {} /\ 1 \in one /\ DOMAIN u = one
    OBVIOUS
  <2>2. IsFiniteSet(one) /\ IsFiniteSet({})
    <3>1. 1 \in Int
      OBVIOUS
    <3>2. IsFiniteSet(1..1)
      BY <3>1, Intervals
    <3> QED
      BY <3>2, FS_EmptySet
  <2>3. u[1] = w[1] /\ (\A y \in one : u[y] \in Int) /\ u[1] \in Int
    BY <1>2
  <2> HIDE DEF u, one
  <2>4. SumFunctionOnSet(u, one) = u[1] + SumFunctionOnSet(u, one \ {1})
    BY <2>1, <2>2, <2>3, SumTakes
  <2>5. SumFunctionOnSet(u, {}) = 0 /\ SumFunction(u) = SumFunctionOnSet(u, one)
    BY <2>1, <2>2, SumUnfolds DEF SumFunction
  <2>6. SumFunctionOnSet(u, one \ {1}) = 0
    BY <2>1, <2>5
  <2> QED
    BY <2>3, <2>4, <2>5, <2>6
<1> DEFINE first == 1
<1>4. /\ first \in Nat /\ DOMAIN u = 1..first /\ DOMAIN w = 1..(first + n)
      /\ \A i \in 1..first : u[i] \in Nat /\ w[i] = u[i]
      /\ \A i \in 1..n : v[i] \in Nat /\ w[first + i] = v[i]
  BY <1>2
<1> HIDE DEF u, first
<1>5. SumFunction(w) = SumFunction(u) + SumFunction(v)
  BY <1>4, ListSumJoin
<1> QED
  BY <1>3, <1>5

\* What is picked of a list adds up to what it is where it is picked.
LEMMA ListSumPicked ==
  ASSUME NEW w, NEW n \in Nat, DOMAIN w = 1..n, \A i \in 1..n : w[i] \in Nat,
         NEW I \in SUBSET (1..n), NEW v, DOMAIN v = 1..Cardinality(I),
         \A k \in 1..Cardinality(I) : v[k] = w[Nth(I, k)]
  PROVE  /\ SumFunction(v) = SumFunctionOnSet(w, I)
         /\ SumFunction(v) <= SumFunction(w)
         /\ (\A i \in (1..n) \ I : w[i] = 0) => SumFunction(v) = SumFunction(w)
         /\ \A i \in (1..n) \ I : SumFunction(v) + w[i] <= SumFunction(w)
<1> DEFINE size == Cardinality(I)
           h == [k \in 1..size |-> Nth(I, k)]
           Sum(S) == SumFunctionOnSet(w, S)
<1>1. IsFiniteSet(1..n) /\ IsFiniteSet(I) /\ I \in SUBSET Nat /\ SumFunction(w) = Sum(1..n)
  <2>1. IsFiniteSet(1..n) /\ SumFunction(w) = Sum(1..n)
    BY ListSum
  <2>2. \A i \in I : i \in Nat
    OBVIOUS
  <2> QED
    BY <2>1, <2>2, FS_Subset
<1>2. /\ size \in Nat
      /\ \A k \in 1..size : h[k] \in I
      /\ \A k, l \in 1..size : k < l => h[k] < h[l]
      /\ \A i \in I : \E k \in 1..size : h[k] = i
  BY <1>1, NthLaws
<1>3. \A k \in 1..size : v[k] = w[h[k]] /\ v[k] \in Nat
  BY <1>2
<1>4. DOMAIN v = 1..size
  OBVIOUS
<1> HIDE DEF h, size
<1>5. \A k, l \in 1..size : h[k] = h[l] => k = l
  <2> SUFFICES ASSUME NEW k \in 1..size, NEW l \in 1..size, k # l PROVE h[k] # h[l]
    OBVIOUS
  <2>1. k < l \/ l < k
    BY <1>2
  <2>2. h[k] \in Nat /\ h[l] \in Nat
    BY <1>1, <1>2
  <2> QED
    BY <1>2, <2>1, <2>2
<1>6. {h[k] : k \in 1..size} = I
  BY <1>2
<1>7. IsFiniteSet(1..size) /\ SumFunction(v) = SumFunctionOnSet(v, 1..size) /\ SumFunction(v) \in Nat
  BY <1>2, <1>3, <1>4, ListSum
<1>8. SumFunctionOnSet(w, {h[k] : k \in 1..size}) = SumFunctionOnSet(v, 1..size)
  <2> DEFINE K == 1..size
  <2>1. \A k \in K : v[k] \in Int /\ w[h[k]] = v[k]
    BY <1>3
  <2>2. IsFiniteSet(K) /\ \A k, l \in K : h[k] = h[l] => k = l
    BY <1>5, <1>7
  <2> HIDE DEF K
  <2> DEFINE f == v
             g == w
  <2>3. \A k \in K : f[k] \in Int /\ g[h[k]] = f[k]
    BY <2>1
  <2> HIDE DEF f, g
  <2>4. SumFunctionOnSet(g, {h[k] : k \in K}) = SumFunctionOnSet(f, K)
    BY <2>2, <2>3, SumMoved
  <2> QED
    BY <2>4 DEF K, f, g
<1>9. SumFunction(v) = Sum(I)
  BY <1>6, <1>7, <1>8
<1>10. ASSUME NEW R \in SUBSET (1..n) PROVE Sum(R) \in Nat /\ Sum(R) <= Sum(1..n)
  <2> DEFINE S == 1..n
  <2>1. IsFiniteSet(S) /\ (\A x \in S : w[x] \in Nat) /\ R \in SUBSET S
    BY <1>1
  <2> HIDE DEF S
  <2>2. SumFunctionOnSet(w, R) <= SumFunctionOnSet(w, S) /\ IsFiniteSet(R)
    BY <2>1, SumOfFewer, FS_Subset
  <2>3. SumFunctionOnSet(w, R) \in Nat
    BY <2>1, <2>2, SumType
  <2> QED
    BY <2>2, <2>3 DEF S
<1>11. ASSUME NEW i \in (1..n) \ I PROVE SumFunction(v) + w[i] <= SumFunction(w)
  <2> DEFINE R == I \cup {i}
  <2>1. R \in SUBSET (1..n) /\ IsFiniteSet(R) /\ R \ {i} = I /\ i \in R
    <3>1. R \in SUBSET (1..n) /\ R \ {i} = I /\ i \in R
      OBVIOUS
    <3> HIDE DEF R
    <3> QED
      BY <1>1, <3>1, FS_Subset
  <2>2. \A x \in R : w[x] \in Int
    BY <2>1
  <2> HIDE DEF R
  <2>3. Sum(R) = w[i] + Sum(I)
    BY <2>1, <2>2, SumTakes
  <2>4. Sum(R) <= Sum(1..n) /\ Sum(I) \in Nat /\ Sum(1..n) \in Nat /\ w[i] \in Nat
    BY <1>10, <2>1
  <2> HIDE DEF Sum
  <2> QED
    BY <1>1, <1>9, <2>3, <2>4
<1>12. ASSUME \A i \in (1..n) \ I : w[i] = 0 PROVE SumFunction(v) = SumFunction(w)
  <2> DEFINE u == [i \in 1..n |-> IF i \in I THEN w[i] ELSE 0]
             B == {T \in SUBSET (1..n) : I \subseteq T /\ Sum(T) # Sum(I)}
  <2> SUFFICES ASSUME B # {} PROVE FALSE
    <3>1. 1..n \notin B
      OBVIOUS
    <3> QED
      BY <1>1, <1>9, <3>1
  <2>1. PICK T \in B : \A U \in SUBSET T : U # T => U \notin B
    <3> DEFINE S == 1..n
    <3>1. B \in SUBSET SUBSET S /\ IsFiniteSet(S)
      BY <1>1
    <3> HIDE DEF B, S
    <3> QED
      BY <3>1, Smallest
  <2>2. T \in SUBSET (1..n) /\ I \subseteq T /\ Sum(T) # Sum(I)
    BY <2>1
  <2>7. IsFiniteSet(T)
    BY <1>1, <2>2, FS_Subset
  <2>3. PICK x \in T : x \notin I
    <3>1. T # I
      <4> HIDE DEF Sum, B
      <4> QED
        BY <2>2
    <3> QED
      BY <2>2, <3>1
  <2>4. Sum(T \ {x}) = Sum(I)
    BY <2>1, <2>2, <2>3
  <2>5. Sum(T) = w[x] + Sum(T \ {x}) /\ w[x] = 0
    <3>1. w[x] = 0 /\ \A y \in T : w[y] \in Int
      BY <1>12, <2>2, <2>3
    <3>2. SumFunctionOnSet(w, T) = w[x] + SumFunctionOnSet(w, T \ {x})
      BY <2>3, <2>7, <3>1, SumTakes
    <3> QED
      BY <3>1, <3>2
  <2>6. Sum(I) \in Nat
    BY <1>10
  <2> HIDE DEF Sum, B
  <2> QED
    BY <2>2, <2>4, <2>5, <2>6
<1>13. SumFunction(v) <= SumFunction(w)
  BY <1>1, <1>9, <1>10
<1> QED
  BY <1>9, <1>11, <1>12, <1>13

-----------------------------------------------------------------------------
(* The three sums over the lists of the state.                               *)

LEMMA HeldTyped ==
  ASSUME NEW s \in Seq(PositionType), NEW o
  PROVE  /\ Len(s) \in Nat /\ DOMAIN s = 1..Len(s) /\ DOMAIN Weights(s, o) = 1..Len(s)
         /\ \A i \in 1..Len(s) : Weights(s, o)[i] = Weight(s[i], o) /\ Weights(s, o)[i] \in Nat
         /\ Held(s, o) \in Nat
<1>1. Len(s) \in Nat /\ DOMAIN s = 1..Len(s) /\ \A i \in 1..Len(s) : s[i] \in PositionType
  OBVIOUS
<1>2. \A i \in 1..Len(s) : Weight(s[i], o) \in Nat
  BY <1>1 DEF Weight, PositionType
<1>3. DOMAIN Weights(s, o) = 1..Len(s) /\ \A i \in 1..Len(s) : Weights(s, o)[i] = Weight(s[i], o)
  BY <1>1 DEF Weights
<1>4. Held(s, o) \in Nat
  BY <1>1, <1>2, <1>3, ListSum DEF Held
<1> QED
  BY <1>1, <1>2, <1>3, <1>4

LEMMA LeavingTyped ==
  ASSUME NEW s, NEW n \in Nat, DOMAIN s = 1..n,
         \A i \in 1..n : s[i].type = "close" => s[i].quantity \in Nat, NEW o
  PROVE  /\ DOMAIN ExitWeights(s, o) = 1..n
         /\ \A i \in 1..n : ExitWeights(s, o)[i] = ExitWeight(s[i], o) /\ ExitWeights(s, o)[i] \in Nat
         /\ Leaving(s, o) \in Nat
         /\ (\A i \in 1..n : s[i].type # "close") => Leaving(s, o) = 0
<1>1. \A i \in 1..n : ExitWeight(s[i], o) \in Nat /\ (s[i].type # "close" => ExitWeight(s[i], o) = 0)
  BY DEF ExitWeight
<1>2. DOMAIN ExitWeights(s, o) = 1..n /\ \A i \in 1..n : ExitWeights(s, o)[i] = ExitWeight(s[i], o)
  BY DEF ExitWeights
<1>3. /\ Leaving(s, o) \in Nat
      /\ (\A i \in 1..n : ExitWeights(s, o)[i] = 0) => Leaving(s, o) = 0
  BY <1>1, <1>2, ListSum DEF Leaving
<1> QED
  BY <1>1, <1>2, <1>3

LEMMA SoldTyped ==
  ASSUME NEW s \in Seq(OrderType), NEW o
  PROVE  /\ Len(s) \in Nat /\ DOMAIN s = 1..Len(s) /\ DOMAIN SoldWeights(s, o) = 1..Len(s)
         /\ \A i \in 1..Len(s) : SoldWeights(s, o)[i] = SoldWeight(s[i], o)
                                 /\ SoldWeights(s, o)[i] \in Nat
         /\ Sold(s, o) \in Nat
<1>1. Len(s) \in Nat /\ DOMAIN s = 1..Len(s) /\ \A i \in 1..Len(s) : s[i] \in OrderType
  OBVIOUS
<1>2. \A i \in 1..Len(s) : SoldWeight(s[i], o) \in Nat
  BY <1>1 DEF SoldWeight, OrderType
<1>3. /\ DOMAIN SoldWeights(s, o) = 1..Len(s)
      /\ \A i \in 1..Len(s) : SoldWeights(s, o)[i] = SoldWeight(s[i], o)
  BY <1>1 DEF SoldWeights
<1>4. Sold(s, o) \in Nat
  BY <1>1, <1>2, <1>3, ListSum DEF Sold
<1> QED
  BY <1>1, <1>2, <1>3, <1>4

LEMMA HeldEmpty == \A o : Held(<<>>, o) = 0
<1> SUFFICES ASSUME NEW o PROVE Held(<<>>, o) = 0
  OBVIOUS
<1>1. DOMAIN Weights(<<>>, o) = 1..0 /\ \A i \in 1..0 : Weights(<<>>, o)[i] \in Nat /\ Weights(<<>>, o)[i] = 0
  BY DEF Weights
<1>2. 0 \in Nat
  OBVIOUS
<1> QED
  BY <1>1, <1>2, ListSum DEF Held

LEMMA HeldAppend ==
  ASSUME NEW s \in Seq(PositionType), NEW p \in PositionType, NEW o
  PROVE  Held(Append(s, p), o) = Held(s, o) + Weight(p, o)
<1> DEFINE t == Append(s, p)
           n == Len(s)
           v == Weights(t, o)
           w == Weights(s, o)
<1>1. t \in Seq(PositionType) /\ Len(t) = n + 1 /\ n \in Nat /\ \A i \in 1..n : t[i] = s[i]
  OBVIOUS
<1>2. t[n + 1] = p /\ n + 1 \in 1..(n + 1)
  OBVIOUS
<1>3. /\ DOMAIN w = 1..n /\ \A i \in 1..n : w[i] = Weight(s[i], o) /\ w[i] \in Nat
      /\ DOMAIN v = 1..(n + 1) /\ \A i \in 1..(n + 1) : v[i] = Weight(t[i], o) /\ v[i] \in Nat
  <2> HIDE DEF t
  <2> QED
    BY <1>1, HeldTyped
<1>4. (\A i \in 1..n : i \in 1..(n + 1)) /\ SumFunction(w) = Held(s, o) /\ SumFunction(v) = Held(t, o)
  BY <1>1 DEF Held
<1> HIDE DEF t, v, w, n
<1>5. \A i \in 1..n : w[i] \in Nat /\ v[i] = w[i]
  BY <1>1, <1>3, <1>4
<1>6. v[n + 1] = Weight(p, o) /\ v[n + 1] \in Nat
  BY <1>2, <1>3
<1>7. SumFunction(v) = SumFunction(w) + v[n + 1]
  BY <1>1, <1>3, <1>5, <1>6, ListSumAppend
<1> QED
  BY <1>4, <1>6, <1>7 DEF t

LEMMA HeldReplace ==
  ASSUME NEW s \in Seq(PositionType), NEW p \in PositionType, NEW k \in DOMAIN s, NEW o
  PROVE  Held([s EXCEPT ![k] = p], o) <= Held(s, o) + Weight(p, o)
<1> DEFINE t == [s EXCEPT ![k] = p]
           n == Len(s)
           v == Weights(t, o)
           w == Weights(s, o)
<1>1. t \in Seq(PositionType) /\ Len(t) = n /\ n \in Nat /\ k \in 1..n /\ t[k] = p
      /\ \A i \in 1..n : i # k => t[i] = s[i]
  OBVIOUS
<1>2. /\ DOMAIN w = 1..n /\ \A i \in 1..n : w[i] = Weight(s[i], o) /\ w[i] \in Nat
      /\ DOMAIN v = 1..n /\ \A i \in 1..n : v[i] = Weight(t[i], o) /\ v[i] \in Nat
      /\ Held(s, o) \in Nat
  <2> HIDE DEF t
  <2> QED
    BY <1>1, HeldTyped
<1>3. SumFunction(w) = Held(s, o) /\ SumFunction(v) = Held(t, o)
  BY DEF Held
<1> HIDE DEF t, v, w, n
<1>4. \A i \in 1..n : w[i] \in Nat /\ v[i] \in Nat /\ (i # k => v[i] = w[i])
  BY <1>1, <1>2
<1>5. SumFunction(v) = SumFunction(w) + v[k] - w[k]
  BY <1>1, <1>2, <1>4, ListSumChange
<1>6. v[k] = Weight(p, o) /\ v[k] \in Nat /\ w[k] \in Nat
  BY <1>1, <1>2
<1> QED
  BY <1>2, <1>3, <1>5, <1>6 DEF t

\* What is kept of some positions holds no more than they do, less what is not kept.
LEMMA HeldPicked ==
  ASSUME NEW s \in Seq(PositionType), NEW I \in SUBSET DOMAIN s, NEW o
  PROVE  /\ Held(Picked(s, I), o) <= Held(s, o)
         /\ \A i \in DOMAIN s \ I : Held(Picked(s, I), o) + Weight(s[i], o) <= Held(s, o)
<1> DEFINE t == Picked(s, I)
           n == Len(s)
           size == Cardinality(I)
           v == Weights(t, o)
           w == Weights(s, o)
<1>1. /\ n \in Nat /\ DOMAIN s = 1..n /\ DOMAIN w = 1..n
      /\ \A i \in 1..n : w[i] = Weight(s[i], o) /\ w[i] \in Nat
  BY HeldTyped
<1>2. I \in SUBSET (1..n) /\ I \in SUBSET Nat /\ IsFiniteSet(I)
  <2>1. I \in SUBSET (1..n) /\ \A i \in I : i \in Nat
    BY <1>1
  <2>2. IsFiniteSet(1..n)
    BY <1>1, FS_Interval
  <2> QED
    BY <2>1, <2>2, FS_Subset
<1>3. DOMAIN t = 1..size /\ \A k \in 1..size : t[k] = s[Nth(I, k)] /\ Nth(I, k) \in I
  BY <1>2, NthLaws DEF Picked
<1>4. DOMAIN v = 1..size /\ \A k \in 1..size : v[k] = Weight(t[k], o)
  BY <1>3 DEF Weights
<1>5. \A k \in 1..size : v[k] = w[Nth(I, k)]
  BY <1>1, <1>2, <1>3, <1>4
<1>6. SumFunction(w) = Held(s, o) /\ SumFunction(v) = Held(t, o)
  BY DEF Held
<1> HIDE DEF v, w, n
<1>7. /\ SumFunction(v) <= SumFunction(w)
      /\ \A i \in (1..n) \ I : SumFunction(v) + w[i] <= SumFunction(w)
  BY <1>1, <1>2, <1>4, <1>5, ListSumPicked
<1> QED
  BY <1>1, <1>6, <1>7

\* A list of which an item may be an exit.
ExitList(s) == /\ Len(s) \in Nat /\ DOMAIN s = 1..Len(s)
               /\ \A i \in DOMAIN s : s[i].type = "close" => s[i].quantity \in Nat

Joins(r, s, t) ==
  /\ Len(r) = Len(s) + Len(t)
  /\ (\A i \in DOMAIN s : r[i] = s[i]) /\ (\A i \in DOMAIN t : r[Len(s) + i] = t[i])

LEMMA ExitsTyped ==
  ASSUME NEW s, ExitList(s), NEW o
  PROVE  /\ DOMAIN ExitWeights(s, o) = 1..Len(s)
         /\ \A i \in 1..Len(s) : /\ ExitWeights(s, o)[i] = ExitWeight(s[i], o)
                                 /\ ExitWeights(s, o)[i] \in Nat
<1> DEFINE n == Len(s)
<1>1. n \in Nat /\ DOMAIN s = 1..n /\ \A i \in 1..n : s[i].type = "close" => s[i].quantity \in Nat
  BY DEF ExitList
<1> HIDE DEF n
<1>2. /\ DOMAIN ExitWeights(s, o) = 1..n
      /\ \A i \in 1..n : ExitWeights(s, o)[i] = ExitWeight(s[i], o) /\ ExitWeights(s, o)[i] \in Nat
  BY <1>1, LeavingTyped
<1> QED
  BY <1>2 DEF n

LEMMA LeavingJoin ==
  ASSUME NEW s, NEW t, NEW r, ExitList(s), ExitList(t), ExitList(r), Joins(r, s, t), NEW o
  PROVE  Leaving(r, o) = Leaving(s, o) + Leaving(t, o)
<1> DEFINE n == Len(s)
           m == Len(t)
           w == ExitWeights(s, o)
           v == ExitWeights(t, o)
           u == ExitWeights(r, o)
<1>1. n \in Nat /\ m \in Nat /\ DOMAIN s = 1..n /\ DOMAIN t = 1..m /\ DOMAIN r = 1..(n + m)
  BY DEF ExitList, Joins
<1>2. /\ DOMAIN w = 1..n /\ \A i \in 1..n : w[i] = ExitWeight(s[i], o) /\ w[i] \in Nat
      /\ DOMAIN v = 1..m /\ \A i \in 1..m : v[i] = ExitWeight(t[i], o) /\ v[i] \in Nat
  <2>1. DOMAIN w = 1..n /\ \A i \in 1..n : w[i] = ExitWeight(s[i], o) /\ w[i] \in Nat
    BY ExitsTyped
  <2>2. DOMAIN v = 1..m /\ \A i \in 1..m : v[i] = ExitWeight(t[i], o) /\ v[i] \in Nat
    BY ExitsTyped
  <2> QED
    BY <2>1, <2>2
<1>3. DOMAIN u = 1..(n + m) /\ \A i \in 1..(n + m) : u[i] = ExitWeight(r[i], o)
  BY <1>1 DEF ExitWeights
<1>4. (\A i \in 1..n : i \in 1..(n + m)) /\ (\A i \in 1..m : n + i \in 1..(n + m))
  BY <1>1
<1>5. \A i \in 1..n : w[i] \in Nat /\ u[i] = w[i]
  BY <1>1, <1>2, <1>3, <1>4 DEF Joins
<1>6. \A i \in 1..m : v[i] \in Nat /\ u[n + i] = v[i]
  BY <1>1, <1>2, <1>3, <1>4 DEF Joins
<1>7. SumFunction(w) = Leaving(s, o) /\ SumFunction(v) = Leaving(t, o) /\ SumFunction(u) = Leaving(r, o)
  BY DEF Leaving
<1> HIDE DEF n, m, w, v, u
<1>8. SumFunction(u) = SumFunction(w) + SumFunction(v)
  BY <1>1, <1>2, <1>3, <1>5, <1>6, ListSumJoin
<1> QED
  BY <1>7, <1>8

LEMMA LeavingTail ==
  ASSUME NEW s, ExitList(s), NEW t, ExitList(t), Len(s) = Len(t) + 1,
         \A i \in DOMAIN t : t[i] = s[i + 1], NEW o
  PROVE  Leaving(s, o) = ExitWeight(s[1], o) + Leaving(t, o) /\ ExitWeight(s[1], o) \in Nat
<1> DEFINE n == Len(t)
           w == ExitWeights(s, o)
           v == ExitWeights(t, o)
<1>1. n \in Nat /\ n + 1 \in Nat /\ DOMAIN t = 1..n /\ DOMAIN s = 1..(n + 1) /\ 1 \in 1..(n + 1)
  BY DEF ExitList
<1>2. /\ DOMAIN w = 1..(n + 1) /\ \A i \in 1..(n + 1) : w[i] = ExitWeight(s[i], o) /\ w[i] \in Nat
      /\ DOMAIN v = 1..n /\ \A i \in 1..n : v[i] = ExitWeight(t[i], o)
  BY <1>1, LeavingTyped DEF ExitList
<1>3. \A i \in 1..n : i + 1 = 1 + i /\ 1 + i \in 1..(n + 1)
  BY <1>1
<1>4. \A i \in 1..n : v[i] = w[1 + i]
  BY <1>1, <1>2, <1>3
<1>5. SumFunction(w) = Leaving(s, o) /\ SumFunction(v) = Leaving(t, o)
  BY DEF Leaving
<1> HIDE DEF n, w, v
<1>6. SumFunction(w) = w[1] + SumFunction(v)
  BY <1>1, <1>2, <1>4, ListSumTail
<1> QED
  BY <1>1, <1>2, <1>5, <1>6

LEMMA SoldAppend ==
  ASSUME NEW s \in Seq(OrderType), NEW x \in OrderType, NEW o
  PROVE  Sold(Append(s, x), o) = Sold(s, o) + SoldWeight(x, o) /\ SoldWeight(x, o) \in Nat
<1> DEFINE t == Append(s, x)
           n == Len(s)
           v == SoldWeights(t, o)
           w == SoldWeights(s, o)
<1>1. t \in Seq(OrderType) /\ Len(t) = n + 1 /\ n \in Nat /\ \A i \in 1..n : t[i] = s[i]
  OBVIOUS
<1>2. t[n + 1] = x /\ n + 1 \in 1..(n + 1)
  OBVIOUS
<1>3. /\ DOMAIN w = 1..n /\ \A i \in 1..n : w[i] = SoldWeight(s[i], o) /\ w[i] \in Nat
      /\ DOMAIN v = 1..(n + 1) /\ \A i \in 1..(n + 1) : v[i] = SoldWeight(t[i], o) /\ v[i] \in Nat
  <2> HIDE DEF t
  <2> QED
    BY <1>1, SoldTyped
<1>4. (\A i \in 1..n : i \in 1..(n + 1)) /\ SumFunction(w) = Sold(s, o) /\ SumFunction(v) = Sold(t, o)
  BY <1>1 DEF Sold
<1> HIDE DEF t, v, w, n
<1>5. \A i \in 1..n : w[i] \in Nat /\ v[i] = w[i]
  BY <1>1, <1>3, <1>4
<1>6. v[n + 1] = SoldWeight(x, o) /\ v[n + 1] \in Nat
  BY <1>2, <1>3
<1>7. SumFunction(v) = SumFunction(w) + v[n + 1]
  BY <1>1, <1>3, <1>5, <1>6, ListSumAppend
<1> QED
  BY <1>4, <1>6, <1>7 DEF t

\* What an order sells is settled when it is placed.
LEMMA SoldSame ==
  ASSUME NEW s \in Seq(OrderType), NEW t \in Seq(OrderType), Len(t) = Len(s),
         \A i \in DOMAIN s : t[i].closes = s[i].closes /\ t[i].quantity = s[i].quantity, NEW o
  PROVE  Sold(t, o) = Sold(s, o)
<1> DEFINE n == Len(s)
           v == SoldWeights(t, o)
           w == SoldWeights(s, o)
<1>1. /\ n \in Nat /\ DOMAIN s = 1..n /\ DOMAIN t = 1..n
      /\ DOMAIN w = 1..n /\ DOMAIN v = 1..n
      /\ \A i \in 1..n : w[i] = SoldWeight(s[i], o) /\ v[i] = SoldWeight(t[i], o) /\ v[i] \in Nat
      /\ SumFunction(w) = Sold(s, o) /\ SumFunction(v) = Sold(t, o)
  BY SoldTyped DEF Sold
<1>2. \A i \in 1..n : w[i] = v[i] /\ w[i] \in Nat
  BY <1>1 DEF SoldWeight
<1> HIDE DEF n, v, w
<1>3. /\ SumFunction(w) = SumFunctionOnSet(w, 1..n) /\ SumFunction(v) = SumFunctionOnSet(v, 1..n)
      /\ IsFiniteSet(1..n)
  BY <1>1, <1>2, ListSum
<1>4. SumFunctionOnSet(w, 1..n) = SumFunctionOnSet(v, 1..n)
  BY <1>2, <1>3, SumSame
<1> QED
  BY <1>1, <1>3, <1>4

-----------------------------------------------------------------------------
(* Pending orders: which order of the exchange each of them is.              *)

\* No two of them are the same order of the exchange.
Apart(s) == \A i, j \in DOMAIN s : i # j /\ s[i].exchange # 0 => s[i].exchange # s[j].exchange

\* One that is an order of the exchange has the client id of its row, and what it
\* is filled with becomes a position of the reducer's or one of its own.
NamedOf(q, rs) ==
  /\ q.position.source \in {"none", "sequence"}
  /\ q.exchange # 0 => /\ q.exchange \in DOMAIN rs /\ rs[q.exchange].status # "none"
                       /\ q.client = rs[q.exchange].client

Sound(s, rs) == Apart(s) /\ \A i \in DOMAIN s : NamedOf(s[i], rs)

LEMMA NoneSound == \A rs : Sound(<<>>, rs)
BY DEF Sound, Apart

\* The k-th of t is the h[k]-th of s, however much of it is filled.
PickOf(t, s, h) ==
  /\ \A k \in DOMAIN t : h[k] \in DOMAIN s /\ t[k].exchange = s[h[k]].exchange
                         /\ t[k].client = s[h[k]].client /\ t[k].position = s[h[k]].position
  /\ \A k, l \in DOMAIN t : k # l => h[k] # h[l]

LEMMA PickSound ==
  ASSUME NEW s, NEW rs, Sound(s, rs), NEW t, NEW h, PickOf(t, s, h)
  PROVE  Sound(t, rs)
<1>1. Apart(t)
  BY DEF Sound, Apart, PickOf
<1>2. ASSUME NEW k \in DOMAIN t PROVE NamedOf(t[k], rs)
  <2>1. h[k] \in DOMAIN s /\ t[k].exchange = s[h[k]].exchange
        /\ t[k].client = s[h[k]].client /\ t[k].position = s[h[k]].position
    BY DEF PickOf
  <2>2. NamedOf(s[h[k]], rs)
    BY <2>1 DEF Sound
  <2> QED
    BY <2>1, <2>2 DEF NamedOf
<1> QED
  BY <1>1, <1>2 DEF Sound

LEMMA KeptSound ==
  ASSUME NEW s \in Seq(PendingType), NEW rs, Sound(s, rs), NEW I \in SUBSET DOMAIN s
  PROVE  Sound(Picked(s, I), rs)
<1> DEFINE t == Picked(s, I)
           n == Cardinality(I)
           h == [k \in 1..n |-> Nth(I, k)]
<1>1. I \in SUBSET Nat /\ IsFiniteSet(I)
  <2>1. Len(s) \in Nat /\ DOMAIN s = 1..Len(s)
    OBVIOUS
  <2>2. IsFiniteSet(1..Len(s)) /\ \A i \in I : i \in Nat
    BY <2>1, FS_Interval
  <2> QED
    BY <2>1, <2>2, FS_Subset
<1>2. n \in Nat /\ \A k \in 1..n : h[k] \in I
  BY <1>1, NthLaws
<1>3. \A k, l \in 1..n : k # l => h[k] # h[l]
  <2> SUFFICES ASSUME NEW k \in 1..n, NEW l \in 1..n, k # l PROVE h[k] # h[l]
    OBVIOUS
  <2>1. k < l \/ l < k
    BY <1>2
  <2>2. (k < l => h[k] < h[l]) /\ (l < k => h[l] < h[k])
    BY <1>1, NthLaws
  <2>3. h[k] \in Nat /\ h[l] \in Nat
    BY <1>1, <1>2
  <2> HIDE DEF h, n
  <2> QED
    BY <2>1, <2>2, <2>3
<1>4. DOMAIN t = 1..n /\ \A k \in 1..n : t[k] = s[h[k]]
  BY DEF Picked
<1> HIDE DEF t, h, n
<1>5. PickOf(t, s, h)
  BY <1>2, <1>3, <1>4 DEF PickOf
<1>6. Sound(t, rs)
  BY <1>5, PickSound
<1> QED
  BY <1>6 DEF t

LEMMA FilledSound ==
  ASSUME NEW s \in Seq(PendingType), NEW rs, Sound(s, rs), NEW q, NEW quantity
  PROVE  Sound(Filled(s, q, quantity), rs)
<1>1. CASE q.filled + quantity >= q.base
  <2> DEFINE I == {i \in DOMAIN s : s[i].client # q.client}
  <2>1. Filled(s, q, quantity) = Picked(s, I)
    BY <1>1 DEF Filled, Keeping
  <2>2. I \in SUBSET DOMAIN s
    OBVIOUS
  <2> HIDE DEF I
  <2> QED
    BY <2>1, <2>2, KeptSound
<1>2. CASE ~(q.filled + quantity >= q.base)
  <2> DEFINE t == [i \in DOMAIN s |-> IF s[i].client = q.client THEN [s[i] EXCEPT !.filled = @ + quantity]
                                                              ELSE s[i]]
             n == Len(s)
             h == [i \in 1..n |-> i]
  <2>1. Filled(s, q, quantity) = t
    BY <1>2 DEF Filled
  <2>2. DOMAIN s = 1..n /\ \A i \in 1..n : s[i] \in PendingType
    OBVIOUS
  <2>3. \A i \in 1..n : /\ t[i].exchange = s[i].exchange /\ t[i].client = s[i].client
                        /\ t[i].position = s[i].position
    BY <2>2 DEF PendingType
  <2>4. DOMAIN t = 1..n
    BY <2>2
  <2> HIDE DEF t
  <2>5. PickOf(t, s, h)
    BY <2>2, <2>3, <2>4 DEF PickOf
  <2> HIDE DEF h
  <2>7. Sound(t, rs)
    BY <2>5, PickSound
  <2> QED
    BY <2>1, <2>7
<1> QED
  BY <1>1, <1>2

\* A reducer's order is not yet one of the exchange.
LEMMA OrderedSound ==
  ASSUME NEW s \in Seq(PendingType), NEW rs, Sound(s, rs), NEW q, q.exchange = 0,
         q.position.source \in {"none", "sequence"}
  PROVE  Sound(Append(s, q), rs)
<1> DEFINE t == Append(s, q)
           n == Len(s)
<1>1. n \in Nat /\ DOMAIN s = 1..n /\ DOMAIN t = 1..(n + 1) /\ t[n + 1] = q
      /\ \A i \in 1..n : t[i] = s[i]
  OBVIOUS
<1>2. \A i \in 1..(n + 1) : i \in 1..n \/ i = n + 1
  BY <1>1
<1> HIDE DEF t, n
<1>3. Apart(t)
  BY <1>1, <1>2 DEF Sound, Apart
<1>4. \A i \in DOMAIN t : NamedOf(t[i], rs)
  <2>1. NamedOf(q, rs)
    BY DEF NamedOf
  <2> QED
    BY <1>1, <1>2, <2>1 DEF Sound
<1> QED
  BY <1>3, <1>4 DEF Sound, t

\* Rows are written, and an order's client id stays that of its row.
RowsKeep(rs, rt) ==
  /\ DOMAIN rs \subseteq DOMAIN rt
  /\ \A o \in DOMAIN rs : rs[o].status # "none" => rt[o].status # "none" /\ rt[o].client = rs[o].client

LEMMA SoundKept ==
  ASSUME NEW s, NEW rs, NEW rt, Sound(s, rs), RowsKeep(rs, rt)
  PROVE  Sound(s, rt)
BY DEF Sound, NamedOf, RowsKeep

-----------------------------------------------------------------------------
(* Events of a cycle: no position comes, and one that goes is an exit.       *)

LEMMA ActionsExit ==
  ASSUME NEW s \in Seq(ActionType)
  PROVE  ExitList(s) /\ \A o : Leaving(s, o) \in Nat
<1>1. Len(s) \in Nat /\ DOMAIN s = 1..Len(s) /\ \A i \in 1..Len(s) : s[i] \in ActionType
  OBVIOUS
<1>2. \A i \in 1..Len(s) : s[i].quantity \in Nat
  BY <1>1 DEF ActionType
<1> QED
  BY <1>1, <1>2, LeavingTyped DEF ExitList

LEMMA NoActions == \A o : Leaving(<<>>, o) = 0
<1> SUFFICES ASSUME NEW o PROVE Leaving(<<>>, o) = 0
  OBVIOUS
<1> DEFINE s == <<>>
<1>1. DOMAIN s = 1..0 /\ 0 \in Nat
  OBVIOUS
<1> HIDE DEF s
<1>2. Leaving(s, o) = 0
  BY <1>1, LeavingTyped
<1> QED
  BY <1>2 DEF s

LEMMA OneAction ==
  ASSUME NEW a \in ActionType, NEW o
  PROVE  Leaving(<<a>>, o) = ExitWeight(a, o) /\ ExitWeight(a, o) \in Nat
<1> DEFINE s == <<a>>
           t == <<>>
<1>1. s \in Seq(ActionType) /\ t \in Seq(ActionType) /\ Len(s) = Len(t) + 1 /\ s[1] = a
      /\ \A i \in DOMAIN t : t[i] = s[i + 1]
  OBVIOUS
<1>2. ExitList(s) /\ ExitList(t) /\ Leaving(t, o) = 0
  BY <1>1, ActionsExit, NoActions
<1> HIDE DEF s, t
<1>3. Leaving(s, o) = ExitWeight(s[1], o) + Leaving(t, o) /\ ExitWeight(s[1], o) \in Nat
  BY <1>1, <1>2, LeavingTail
<1> QED
  BY <1>1, <1>2, <1>3 DEF s

LEMMA ActionsJoined ==
  ASSUME NEW s \in Seq(ActionType), NEW t \in Seq(ActionType), NEW o
  PROVE  Leaving(s \o t, o) = Leaving(s, o) + Leaving(t, o)
<1> DEFINE r == s \o t
<1>1. r \in Seq(ActionType)
  OBVIOUS
<1>2. Joins(r, s, t)
  BY DEF Joins
<1> HIDE DEF r
<1>3. ExitList(s) /\ ExitList(t) /\ ExitList(r)
  BY <1>1, ActionsExit
<1>4. Leaving(r, o) = Leaving(s, o) + Leaving(t, o)
  BY <1>1, <1>2, <1>3, LeavingJoin
<1> QED
  BY <1>4 DEF r

Within(new, old) == \A i \in DOMAIN new : \E j \in DOMAIN old : new[i] = old[j]

\* What an event leaves of the positions is among them, and with what its actions
\* sell no more than they held.
Keeps(b, r, rs) ==
  /\ r \in ResultType
  /\ r.ok => /\ Within(r.bot.positions, b.positions)
             /\ \A o \in Nat : Held(r.bot.positions, o) + Leaving(r.actions, o) <= Held(b.positions, o)
             /\ Sound(b.pending, rs) => Sound(r.bot.pending, rs)

LEMMA QuietKeeps ==
  ASSUME NEW b \in BotType, NEW c \in BotType, c.positions = b.positions, NEW rs,
         Sound(b.pending, rs) => Sound(c.pending, rs)
  PROVE  Keeps(b, Done(c, <<>>), rs)
<1> DEFINE r == Done(c, <<>>)
<1>1. r \in ResultType /\ r.bot = c /\ r.actions = <<>>
  <2>1. <<>> \in Seq(ActionType)
    OBVIOUS
  <2> QED
    BY <2>1, DoneTyped
<1>2. c.positions \in Seq(PositionType)
  BY DEF BotType
<1>3. ASSUME NEW o \in Nat PROVE Held(c.positions, o) + Leaving(r.actions, o) <= Held(b.positions, o)
  <2>1. Held(c.positions, o) \in Nat
    BY <1>2, HeldTyped
  <2>2. Leaving(r.actions, o) = 0
    BY <1>1, NoActions
  <2> HIDE DEF r
  <2> QED
    BY <2>1, <2>2
<1> HIDE DEF r
<1>4. Within(r.bot.positions, b.positions)
  BY <1>1 DEF Within
<1>5. Keeps(b, r, rs)
  BY <1>1, <1>3, <1>4 DEF Keeps
<1> QED
  BY <1>5 DEF r

\* What Close sells when it does not raise.
LEMMA CloseSells ==
  ASSUME NEW b \in BotType, NEW position \in PositionType, NEW reason \in Reasons,
         NEW gain \in Int, NEW dogePriced \in BOOLEAN,
         NEW r, r = Close(b, position, reason, gain, dogePriced), r.ok, NEW o
  PROVE  Leaving(r.actions, o) = Weight(position, o)
<1> DEFINE accumulate == gain > 0 /\ b.beliefs[Doge] = "bullish"
           buyDoge == [type |-> "place", id |-> NoId, pair |-> Doge, side |-> "buy",
                       quantity |-> gain, reason |-> "accumulate"]
           closing == Closing(position, reason)
           more == IF accumulate THEN <<buyDoge>> ELSE <<>>
<1>1. r.actions = <<closing>> \o more
  <2> DEFINE value == IF position.side = "long" THEN position.quantity + gain
                                                ELSE gain - position.quantity
             next == [b EXCEPT !.usd = @ + value,
                               !.positions = Keeping(@, LAMBDA q : q # position)]
             actions == <<closing>> \o more
  <2>1. r = IF ~position.armed \/ (accumulate /\ ~dogePriced) THEN Raised(b) ELSE Done(next, actions)
    BY DEF Close
  <2>2. Raised(b).ok = FALSE
    BY DEF Raised
  <2>3. Done(next, actions).actions = actions
    BY DEF Done
  <2> HIDE DEF next, actions, accumulate
  <2>4. r = Done(next, actions)
    BY <2>1, <2>2
  <2> QED
    BY <2>3, <2>4 DEF actions
<1>2. accumulate => buyDoge \in ActionType
  BY PairsAssumption, IdsTyped DEF ActionType, Reasons
<1>3. closing \in ActionType /\ ExitWeight(closing, o) = Weight(position, o)
  BY ClosingTyped DEF Closing, ExitWeight, Weight
<1>4. buyDoge.type # "close"
  OBVIOUS
<1> HIDE DEF closing, buyDoge, accumulate
<1>5. more \in Seq(ActionType)
  BY <1>2
<1>6. Leaving(more, o) = 0
  <2>1. CASE accumulate
    <3>1. more = <<buyDoge>> /\ buyDoge \in ActionType
      BY <1>2, <2>1
    <3>2. ExitWeight(buyDoge, o) = 0
      BY <1>4 DEF ExitWeight
    <3> HIDE DEF more
    <3> QED
      BY <3>1, <3>2, OneAction
  <2>2. CASE ~accumulate
    BY <2>2, NoActions
  <2> QED
    BY <2>1, <2>2
<1> HIDE DEF more
<1>7. Leaving(<<closing>>, o) = ExitWeight(closing, o) /\ ExitWeight(closing, o) \in Nat
  BY <1>3, OneAction
<1>8. <<closing>> \in Seq(ActionType)
  BY <1>3
<1>9. Leaving(r.actions, o) = Leaving(<<closing>>, o) + Leaving(more, o)
  BY <1>1, <1>5, <1>8, ActionsJoined
<1> QED
  BY <1>3, <1>6, <1>7, <1>9

LEMMA CloseKeeps ==
  ASSUME NEW b \in BotType, NEW i \in DOMAIN b.positions, NEW reason \in Reasons,
         NEW gain \in Int, NEW dogePriced \in BOOLEAN, NEW rs,
         NEW r, r = Close(b, b.positions[i], reason, gain, dogePriced)
  PROVE  Keeps(b, r, rs)
<1> DEFINE position == b.positions[i]
           I == {j \in DOMAIN b.positions : b.positions[j] # position}
<1>1. b.positions \in Seq(PositionType) /\ I \in SUBSET DOMAIN b.positions /\ i \in DOMAIN b.positions \ I
  BY DEF BotType
<1>2. position \in PositionType
  BY <1>1
<1>3. ClosedAs(b, position, reason, gain, dogePriced, r)
  BY <1>2, CloseLaws
<1>4. /\ r \in ResultType /\ r.bot.pending = b.pending
      /\ r.ok => r.bot.positions = Picked(b.positions, I)
  BY <1>3 DEF ClosedAs, Keeping
<1>5. ASSUME r.ok, NEW o \in Nat
      PROVE  Held(r.bot.positions, o) + Leaving(r.actions, o) <= Held(b.positions, o)
  <2>1. Leaving(r.actions, o) = Weight(position, o)
    BY <1>2, <1>5, CloseSells
  <2> HIDE DEF I
  <2>2. Held(Picked(b.positions, I), o) + Weight(b.positions[i], o) <= Held(b.positions, o)
    BY <1>1, HeldPicked
  <2> QED
    BY <1>4, <1>5, <2>1, <2>2
<1> HIDE DEF I
<1>6. r.ok => Within(r.bot.positions, b.positions)
  BY <1>1, <1>4, PickedLaws DEF Within
<1> QED
  BY <1>4, <1>5, <1>6 DEF Keeps

LEMMA KeepsSame ==
  ASSUME NEW b, NEW rs, NEW x, Keeps(b, x, rs), NEW y \in ResultType, y.ok = x.ok, y.actions = x.actions,
         y.bot.positions = x.bot.positions, y.bot.pending = x.bot.pending
  PROVE  Keeps(b, y, rs)
BY DEF Keeps

LEMMA VerdictKeeps ==
  ASSUME NEW b \in BotType, NEW id, NEW gain \in Int, NEW dogePriced \in BOOLEAN, NEW rs,
         NEW r, r \in {StopTriggered(b, id, dogePriced), TargetHit(b, id, dogePriced),
                       WindowExpired(b, id, gain, dogePriced)}
  PROVE  Keeps(b, r, rs)
<1>1. CASE ~IsPosition(b, id)
  <2>1. r = Done(b, <<>>)
    BY <1>1 DEF StopTriggered, TargetHit, WindowExpired
  <2> QED
    BY <2>1, QuietKeeps
<1>2. CASE IsPosition(b, id)
  <2>1. PICK i \in DOMAIN b.positions : PositionOf(b, id) = b.positions[i]
    BY <1>2, FoundPosition
  <2>2. ASSUME NEW g \in Int, NEW reason \in {"stop_loss", "target_hit", "window_expired"},
               NEW x, x = Close(b, PositionOf(b, id), reason, g, dogePriced)
        PROVE  Keeps(b, x, rs)
    <3>1. reason \in Reasons
      BY DEF Reasons
    <3> QED
      BY <2>1, <2>2, <3>1, CloseKeeps
  <2>3. CASE r \in {TargetHit(b, id, dogePriced), WindowExpired(b, id, gain, dogePriced)}
    <3>1. r \in {Close(b, PositionOf(b, id), "target_hit", 1, dogePriced),
                 Close(b, PositionOf(b, id), "window_expired", gain, dogePriced)}
      BY <1>2, <2>3 DEF TargetHit, WindowExpired
    <3> QED
      BY <2>2, <3>1
  <2>4. CASE r = StopTriggered(b, id, dogePriced)
    <3> DEFINE position == PositionOf(b, id)
               closed == Close(b, position, "stop_loss", -1, dogePriced)
               cool == IF closed.ok THEN closed.bot.cooling \cup {position.pair} ELSE closed.bot.cooling
               after == [closed.bot EXCEPT !.cooling = cool]
    <3>1. Keeps(b, closed, rs)
      BY <2>2
    <3>2. r = [closed EXCEPT !.bot.cooling = IF closed.ok THEN @ \cup {position.pair} ELSE @]
      BY <1>2, <2>4 DEF StopTriggered
    <3>3. closed \in ResultType /\ closed.bot \in BotType
      BY <3>1 DEF Keeps, ResultType
    <3>4. position.pair \in Pairs
      BY <1>2, PositionTyped DEF PositionType
    <3> HIDE DEF closed, position
    <3>5. r = [closed EXCEPT !.bot = after]
      BY <3>2, <3>3 DEF ResultType, BotType
    <3>6. cool \in SUBSET Pairs
      BY <3>3, <3>4 DEF BotType
    <3> HIDE DEF cool
    <3>7. after \in BotType /\ after.positions = closed.bot.positions /\ after.pending = closed.bot.pending
      BY <3>3, <3>6 DEF BotType
    <3> HIDE DEF after
    <3>8. r \in ResultType /\ r.bot = after /\ r.ok = closed.ok /\ r.actions = closed.actions
      BY <3>3, <3>5, <3>7 DEF ResultType
    <3> QED
      BY <3>1, <3>7, <3>8, KeepsSame
  <2> QED
    BY <2>3, <2>4
<1> QED
  BY <1>1, <1>2

LEMMA ReconciledKeeps ==
  ASSUME NEW b \in BotType, NEW usd \in Int, NEW doge \in Int, NEW rs,
         NEW r, r = Done(Reconciled(b, usd, doge), <<>>)
  PROVE  Keeps(b, r, rs) /\ r.bot.pending = <<>>
<1> DEFINE c == Reconciled(b, usd, doge)
<1>1. c \in BotType
  BY ReconciledFollows
<1>2. c.pending = <<>> /\ c.positions = b.positions
  BY DEF Reconciled, BotType
<1>3. Sound(c.pending, rs) /\ Done(c, <<>>).bot = c
  BY <1>2, NoneSound DEF Done
<1> HIDE DEF c
<1>4. Keeps(b, Done(c, <<>>), rs)
  BY <1>1, <1>2, <1>3, QuietKeeps
<1> QED
  BY <1>2, <1>3, <1>4 DEF c

LEMMA OrderedKeeps ==
  ASSUME NEW b \in BotType, NEW pair \in Pairs, NEW side \in {"buy", "sell"},
         NEW kind \in {"position_entry", "inventory_sell"}, NEW quantity \in Nat, pair \notin b.cooling,
         NEW rs, NEW r, r = Ordered(b, pair, side, kind, quantity)
  PROVE  Keeps(b, r, rs)
<1> DEFINE id == SequenceId(b.seq)
           pending == [client |-> id, kind |-> kind, pair |-> pair, side |-> side,
                       base |-> quantity, filled |-> 0,
                       quote |-> IF kind = "position_entry" THEN quantity ELSE 0,
                       position |-> IF kind = "position_entry" THEN id ELSE NoId,
                       exchange |-> 0]
           count == b.seq + 1
           all == Append(b.pending, pending)
           next == [b EXCEPT !.seq = count, !.pending = all]
           a == [type |-> "place", id |-> id, pair |-> pair, side |-> side,
                 quantity |-> quantity, reason |-> kind]
<1>1. r = Done(next, <<a>>)
  BY DEF Ordered
<1>2. pending.exchange = 0 /\ pending.position.source \in {"none", "sequence"}
  BY DEF SequenceId, NoId
<1>3. a \in ActionType /\ a.type = "place"
  BY IdsTyped DEF BotType, ActionType, Reasons
<1> HIDE DEF pending, a, count
<1>4. next.positions = b.positions /\ next.pending = all
  BY DEF BotType
<1> HIDE DEF next
<1>5. r.bot = next /\ r.actions = <<a>>
  BY <1>1 DEF Done
<1>6. r \in ResultType
  BY OrderedFollows DEF Follows
<1>7. b.pending \in Seq(PendingType) /\ b.positions \in Seq(PositionType)
  BY DEF BotType
<1>8. Sound(b.pending, rs) => Sound(r.bot.pending, rs)
  BY <1>2, <1>4, <1>5, <1>7, OrderedSound
<1>9. ASSUME NEW o \in Nat PROVE Held(r.bot.positions, o) + Leaving(r.actions, o) <= Held(b.positions, o)
  <2>1. Leaving(<<a>>, o) = ExitWeight(a, o) /\ ExitWeight(a, o) = 0
    BY <1>3, OneAction DEF ExitWeight
  <2>2. Held(b.positions, o) \in Nat
    BY <1>7, HeldTyped
  <2> QED
    BY <1>4, <1>5, <2>1, <2>2
<1>10. Within(r.bot.positions, b.positions)
  BY <1>4, <1>5 DEF Within
<1> QED
  BY <1>6, <1>8, <1>9, <1>10 DEF Keeps

LEMMA BeliefKeeps ==
  ASSUME NEW b \in BotType, NEW signal \in SignalType, NEW priced, NEW gain \in Int, NEW rs
  PROVE  Keeps(b, BeliefApplied(b, signal, priced, gain), rs)
<1> DEFINE pair == signal.pair
           next == BeliefUpdate(b, priced, pair, signal.direction, gain)
           r == BeliefApplied(b, signal, priced, gain)
<1>1. pair \in Pairs /\ signal.direction \in Directions
  BY DEF SignalType
<1>2. \/ next = Done(b, <<>>)
      \/ HasPair(b, pair) /\ next = ClosedOnBelief(b, PositionOfPair(b, pair), gain)
      \/ /\ pair \notin b.cooling
         /\ \E side \in {"buy", "sell"}, kind \in {"position_entry", "inventory_sell"}, n \in Nat :
              next = Ordered(b, pair, side, kind, n)
  BY <1>1, BeliefCases
<1>3. r = [next EXCEPT !.bot.beliefs[pair] = signal.direction]
  BY DEF BeliefApplied
<1>4. r \in ResultType
  BY BeliefFollows DEF Follows
<1> HIDE DEF next, pair, r
<1>5. Keeps(b, next, rs)
  <2>1. CASE next = Done(b, <<>>)
    BY <2>1, QuietKeeps
  <2>2. CASE HasPair(b, pair) /\ next = ClosedOnBelief(b, PositionOfPair(b, pair), gain)
    <3>1. PICK i \in DOMAIN b.positions : PositionOfPair(b, pair) = b.positions[i]
      BY <2>2, FoundPosition
    <3>2. next = Close(b, b.positions[i], "belief_change", gain, b.positions[i].pair = Doge)
      BY <2>2, <3>1 DEF ClosedOnBelief
    <3>3. "belief_change" \in Reasons /\ (b.positions[i].pair = Doge) \in BOOLEAN
      BY DEF Reasons
    <3> QED
      BY <3>2, <3>3, CloseKeeps
  <2>3. CASE /\ pair \notin b.cooling
             /\ \E side \in {"buy", "sell"}, kind \in {"position_entry", "inventory_sell"}, n \in Nat :
                  next = Ordered(b, pair, side, kind, n)
    BY <1>1, <2>3, OrderedKeeps
  <2> QED
    BY <1>2, <2>1, <2>2, <2>3
<1> DEFINE beliefs == [next.bot.beliefs EXCEPT ![pair] = signal.direction]
           after == [next.bot EXCEPT !.beliefs = beliefs]
<1>6. next \in ResultType /\ next.bot \in BotType
  BY <1>5 DEF Keeps, ResultType
<1>7. r = [next EXCEPT !.bot = after]
  BY <1>3, <1>6 DEF ResultType, BotType
<1> HIDE DEF beliefs
<1>8. after.positions = next.bot.positions /\ after.pending = next.bot.pending
  BY <1>6 DEF BotType
<1> HIDE DEF after
<1>9. r.bot = after /\ r.ok = next.ok /\ r.actions = next.actions
  BY <1>6, <1>7 DEF ResultType
<1>10. Keeps(b, r, rs)
  BY <1>4, <1>5, <1>8, <1>9, KeepsSame
<1> QED
  BY <1>10 DEF r

LEMMA ApplyKeeps ==
  ASSUME NEW b \in BotType, NEW event \in EventType, NEW priced, NEW gain \in Int, NEW rs,
         event.type = "fill" => b.pending = <<>>,
         NEW r, r = ApplyEvent(b, event, priced, gain)
  PROVE  /\ Keeps(b, r, rs)
         /\ event.type \in {"reconciliation", "fill"} => r.bot.pending = <<>>
<1>1. (Doge \in priced) \in BOOLEAN
  OBVIOUS
<1>2. /\ event.type \in {"hold", "stop", "target", "window", "reconciliation", "fill", "belief"}
      /\ event.type = "reconciliation" => event.usd \in Int /\ event.doge \in Int
      /\ event.type = "fill" => event.fill \in FillType
      /\ event.type = "belief" => event.belief \in SignalType
  BY DEF EventType
<1>3. CASE event.type \in {"stop", "target", "window"}
  <2>1. r \in {StopTriggered(b, event.id, Doge \in priced), TargetHit(b, event.id, Doge \in priced),
               WindowExpired(b, event.id, gain, Doge \in priced)}
    BY <1>3 DEF ApplyEvent
  <2> QED
    BY <1>1, <1>3, <2>1, VerdictKeeps
<1>4. CASE event.type = "hold"
  <2>1. r = Done(b, <<>>)
    BY <1>4 DEF ApplyEvent
  <2> QED
    BY <1>4, <2>1, QuietKeeps
<1>5. CASE event.type = "reconciliation"
  <2>1. r = Done(Reconciled(b, event.usd, event.doge), <<>>)
    BY <1>5 DEF ApplyEvent
  <2> QED
    BY <1>2, <1>5, <2>1, ReconciledKeeps
<1>6. CASE event.type = "fill"
  <2>1. r = FillConfirmed(b, event.fill)
    BY <1>6 DEF ApplyEvent
  <2>2. r = Done(b, <<>>) /\ Done(b, <<>>).bot = b
    BY <1>2, <1>6, <2>1, FillFollows DEF Done
  <2> QED
    BY <1>6, <2>2, QuietKeeps
<1>7. CASE event.type = "belief"
  <2>1. r = BeliefApplied(b, event.belief, priced, gain)
    BY <1>7 DEF ApplyEvent
  <2> QED
    BY <1>2, <1>7, <2>1, BeliefKeeps
<1> QED
  BY <1>2, <1>3, <1>4, <1>5, <1>6, <1>7

\* The same after the k-th event of a cycle that began with b.
KeepsAlong(b, x, rs, k, m, n) ==
  Keeps(b, x, rs) /\ (x.ok /\ m < k /\ k <= n => x.bot.pending = <<>>)

LEMMA KeepsStep ==
  ASSUME NEW b \in BotType, NEW rs, NEW m \in Nat, NEW n \in Nat, NEW k \in Nat \ {0}, NEW x,
         KeepsAlong(b, x, rs, k - 1, m, n),
         NEW event \in EventType, Placed(event, k, m, n, TRUE), NEW priced, NEW gain \in Int,
         NEW y, y = AndThen(x, event, priced, gain)
  PROVE  KeepsAlong(b, y, rs, k, m, n)
<1>1. x \in ResultType /\ x.bot \in BotType /\ x.actions \in Seq(ActionType)
  BY DEF KeepsAlong, Keeps, ResultType
<1>2. CASE ~x.ok
  <2>1. y = x
    BY <1>2 DEF AndThen
  <2> QED
    BY <1>2, <2>1 DEF KeepsAlong
<1>3. CASE x.ok
  <2> DEFINE next == ApplyEvent(x.bot, event, priced, gain)
             acts == x.actions \o next.actions
  <2>1. y = [next EXCEPT !.actions = acts]
    BY <1>3 DEF AndThen
  <2>2. event.type = "fill" => x.bot.pending = <<>>
    BY <1>3 DEF Placed, KeepsAlong
  <2>3. m < k /\ k <= n => event.type \in {"reconciliation", "fill"}
    BY DEF Placed
  <2>4. Keeps(x.bot, next, rs) /\ (event.type \in {"reconciliation", "fill"} => next.bot.pending = <<>>)
    BY <1>1, <2>2, ApplyKeeps
  <2> HIDE DEF next
  <2>5. next \in ResultType /\ next.actions \in Seq(ActionType) /\ next.bot \in BotType
    BY <2>4 DEF Keeps, ResultType
  <2>6. acts \in Seq(ActionType) /\ \A o : Leaving(acts, o) = Leaving(x.actions, o) + Leaving(next.actions, o)
    BY <1>1, <2>5, JoinedLaws, ActionsJoined
  <2> HIDE DEF acts
  <2>7. y \in ResultType /\ y.ok = next.ok /\ y.bot = next.bot /\ y.actions = acts
    BY <2>1, <2>5, <2>6 DEF ResultType
  <2>8. ASSUME y.ok PROVE Within(y.bot.positions, b.positions)
    BY <1>3, <2>4, <2>7, <2>8 DEF KeepsAlong, Keeps, Within
  <2>9. ASSUME y.ok, NEW o \in Nat
        PROVE  Held(y.bot.positions, o) + Leaving(y.actions, o) <= Held(b.positions, o)
    <3>1. Held(x.bot.positions, o) + Leaving(x.actions, o) <= Held(b.positions, o)
      BY <1>3 DEF KeepsAlong, Keeps
    <3>2. Held(next.bot.positions, o) + Leaving(next.actions, o) <= Held(x.bot.positions, o)
      BY <2>4, <2>7, <2>9 DEF Keeps
    <3>3. /\ Held(x.bot.positions, o) \in Nat /\ Held(next.bot.positions, o) \in Nat
          /\ Held(b.positions, o) \in Nat
      BY <1>1, <2>5, HeldTyped DEF BotType
    <3>4. Leaving(x.actions, o) \in Nat /\ Leaving(next.actions, o) \in Nat
      BY <1>1, <2>5, ActionsExit
    <3>5. Leaving(y.actions, o) = Leaving(x.actions, o) + Leaving(next.actions, o)
      BY <2>6, <2>7
    <3> QED
      BY <2>7, <3>1, <3>2, <3>3, <3>4, <3>5
  <2>10. ASSUME y.ok, Sound(b.pending, rs) PROVE Sound(y.bot.pending, rs)
    BY <1>3, <2>4, <2>7, <2>10 DEF KeepsAlong, Keeps
  <2>11. y.ok /\ m < k /\ k <= n => y.bot.pending = <<>>
    BY <2>3, <2>4, <2>7
  <2>12. Keeps(b, y, rs)
    BY <2>7, <2>8, <2>9, <2>10 DEF Keeps
  <2> QED
    BY <2>11, <2>12 DEF KeepsAlong
<1> QED
  BY <1>2, <1>3

LEMMA CycleKeeps ==
  ASSUME NEW b \in BotType, NEW rs, NEW events \in Seq(EventType), InPlace(events, TRUE),
         NEW priced, NEW gain \in Int
  PROVE  Keeps(b, Cycle(b, events, priced, gain), rs)
<1> DEFINE last == Len(events)
<1>0. Len(events) \in Nat
  OBVIOUS
<1>1. last \in Nat /\ DOMAIN events = 1..last /\ \A k \in 1..last : events[k] \in EventType
  OBVIOUS
<1>2. PICK f : /\ f[0] = Done(b, <<>>)
               /\ \A k \in 1..last : f[k] = AndThen(f[k - 1], events[k], priced, gain)
               /\ Cycle(b, events, priced, gain) = f[last]
  BY <1>0, CycleIs
<1>3. PICK m \in Nat, n \in Nat : \A k \in DOMAIN events : Placed(events[k], k, m, n, TRUE)
  BY DEF InPlace
<1> HIDE DEF last
<1> DEFINE Bad == {k \in 0..last : ~KeepsAlong(b, f[k], rs, k, m, n)}
<1>4. ASSUME Bad # {} PROVE FALSE
  <2>1. PICK k \in Bad : \A j \in Bad : k <= j
    <3>1. Bad \in SUBSET Nat
      OBVIOUS
    <3> HIDE DEF Bad
    <3> QED
      BY <1>4, <3>1, LeastExists
  <2>2. CASE k = 0
    <3>1. Keeps(b, Done(b, <<>>), rs)
      BY QuietKeeps
    <3>2. ~(m < 0)
      BY <1>3
    <3>3. KeepsAlong(b, Done(b, <<>>), rs, 0, m, n)
      BY <3>1, <3>2 DEF KeepsAlong
    <3> QED
      BY <1>2, <2>1, <2>2, <3>3
  <2>3. CASE k # 0
    <3>1. k \in 1..last /\ k \in Nat \ {0} /\ k - 1 \in 0..last /\ k - 1 \notin Bad
      BY <1>1, <2>1, <2>3
    <3>2. KeepsAlong(b, f[k - 1], rs, k - 1, m, n)
      BY <3>1
    <3>3. events[k] \in EventType /\ Placed(events[k], k, m, n, TRUE)
      BY <1>1, <1>3, <3>1
    <3>4. KeepsAlong(b, AndThen(f[k - 1], events[k], priced, gain), rs, k, m, n)
      BY <3>1, <3>2, <3>3, KeepsStep
    <3> QED
      BY <1>2, <2>1, <3>1, <3>4
  <2> QED
    BY <2>2, <2>3
<1>5. KeepsAlong(b, f[last], rs, last, m, n)
  BY <1>1, <1>4
<1>6. Keeps(b, f[last], rs)
  BY <1>5 DEF KeepsAlong
<1> QED
  BY <1>2, <1>6

LEMMA CycleOfKeeps ==
  ASSUME TypeOK, FillsDue, NEW in \in CycleInputs,
         NEW verdict \in IF in.guarding THEN Verdicts(bot) ELSE {Holding},
         NEW expired \in IF in.guarding THEN Windows(bot) ELSE {NoId}, NEW rs,
         NEW r, r = CycleOf(in.prices, in.guarding, verdict, expired, in.balances, in.gain)
  PROVE  Keeps(bot, r, rs)
<1> DEFINE wallet == in.balances
           events == Events(bot, verdict, expired, due, wallet, fills, signals)
<1>1. /\ bot \in BotType /\ fills \in Seq(FillType) /\ signals \in Seq(SignalType) /\ due \in BOOLEAN
      /\ in.gain \in Int /\ wallet \in [usd : Int, doge : Int]
      /\ verdict \in [DOMAIN bot.positions -> {"hold", "stop", "target"}] /\ expired \in Ids
  BY InputsTyped DEF TypeOK
<1>2. r \in {Raised(bot), Cycle(bot, events, in.prices, in.gain)}
  BY DEF CycleOf
<1>3. events = Events(bot, verdict, expired, due, wallet, fills, signals)
  OBVIOUS
<1> HIDE DEF events, wallet
<1>4. events \in Seq(EventType)
  BY <1>1, <1>3, EventsTyped
<1>5. InPlace(events, TRUE)
  <2>1. fills # <<>> => due
    BY DEF FillsDue
  <2>2. TRUE \in BOOLEAN /\ (Announced(signals) => TRUE)
    OBVIOUS
  <2> QED
    BY <1>1, <1>3, <2>1, <2>2, EventsPlaced
<1>6. Keeps(bot, Cycle(bot, events, in.prices, in.gain), rs)
  BY <1>1, <1>4, <1>5, CycleKeeps
<1>7. Keeps(bot, Raised(bot), rs)
  BY <1>1, RaisedTyped DEF Keeps
<1> QED
  BY <1>2, <1>6, <1>7

\* A cycle writes no position: it has none that the positions before it were not.
LEMMA WritesNoPosition ==
  ASSUME NEW old \in Seq(PositionType), NEW new \in Seq(PositionType), Within(new, old),
         NEW actions \in Seq(ActionType), NEW writes, writes = Writes(old, new, actions)
  PROVE  writes \in Seq({e \in EffectType : e.type \in {"closed", "cooldown"}})
<1> DEFINE Same(q) == \E i \in DOMAIN old : old[i] = q
           Gone(q) == \A i \in DOMAIN new : new[i].id # q.id
           C == {i \in DOMAIN new : ~Same(new[i])}
           R == {i \in DOMAIN old : Gone(old[i])}
           S == {i \in DOMAIN actions : actions[i].type = "close" /\ actions[i].reason = "stop_loss"}
           changed == Picked(new, C)
           removed == Picked(old, R)
           stops == Picked(actions, S)
           one == [i \in DOMAIN changed |-> [type |-> "upsert", position |-> changed[i]]]
           two == [i \in DOMAIN removed |-> [type |-> "closed", id |-> removed[i].id]]
           three == [i \in DOMAIN stops |-> [type |-> "cooldown", pair |-> stops[i].pair]]
           W == {e \in EffectType : e.type \in {"closed", "cooldown"}}
<1>1. writes = one \o two \o three
  BY DEF Writes, Keeping
<1>2. C \in SUBSET DOMAIN new /\ R \in SUBSET DOMAIN old /\ S \in SUBSET DOMAIN actions
  OBVIOUS
<1>3. C = {}
  BY DEF Within
<1>4. one = <<>>
  <2>1. changed \in Seq(PositionType) /\ \A k \in DOMAIN changed : \E i \in C : changed[k] = new[i]
    <3> HIDE DEF C
    <3> QED
      BY <1>2, PickedLaws
  <2> HIDE DEF changed, C
  <2>2. DOMAIN changed = {}
    BY <1>3, <2>1
  <2> QED
    BY <2>2
<1>5. removed \in Seq(PositionType) /\ stops \in Seq(ActionType)
  <2> HIDE DEF R, S
  <2> QED
    BY <1>2, PickedLaws
<1> HIDE DEF changed, removed, stops
<1>6. two \in Seq(W)
  <2>1. /\ Len(removed) \in Nat /\ DOMAIN removed = 1..Len(removed)
        /\ \A i \in DOMAIN removed : removed[i] \in PositionType
    BY <1>5
  <2>2. \A i \in DOMAIN removed : removed[i].id \in Ids
    BY <2>1 DEF PositionType
  <2>3. \A i \in DOMAIN removed : two[i] \in W
    BY <2>2 DEF EffectType
  <2>4. two = [i \in 1..Len(removed) |-> two[i]]
    BY <2>1
  <2> HIDE DEF two, W
  <2> QED
    BY <2>1, <2>3, <2>4, ListTyped
<1>7. three \in Seq(W)
  <2>1. /\ Len(stops) \in Nat /\ DOMAIN stops = 1..Len(stops)
        /\ \A i \in DOMAIN stops : stops[i] \in ActionType
    BY <1>5
  <2>2. \A i \in DOMAIN stops : stops[i].pair \in Pairs
    BY <2>1 DEF ActionType
  <2>3. \A i \in DOMAIN stops : three[i] \in W
    BY <2>2 DEF EffectType
  <2>4. three = [i \in 1..Len(stops) |-> three[i]]
    BY <2>1
  <2> HIDE DEF three, W
  <2> QED
    BY <2>1, <2>3, <2>4, ListTyped
<1> HIDE DEF one, two, three, W
<1>8. writes \in Seq(W)
  BY <1>1, <1>4, <1>6, <1>7
<1> QED
  BY <1>8 DEF W

LEMMA EffectsExit ==
  ASSUME NEW s \in Seq(EffectType)
  PROVE  ExitList(s) /\ \A o : Leaving(s, o) \in Nat
<1>1. Len(s) \in Nat /\ DOMAIN s = 1..Len(s) /\ \A i \in 1..Len(s) : s[i] \in EffectType
  OBVIOUS
<1>2. \A e \in EffectType : e.type = "close" => e.quantity \in Nat
  BY DEF EffectType, ActionType
<1> QED
  BY <1>1, <1>2, LeavingTyped DEF ExitList

\* What a cycle leaves to do sells what its actions do, and writes no position.
Sells(t, actions) ==
  /\ \A i \in DOMAIN t : t[i].type \notin {"upsert", "record"}
  /\ \A o : Leaving(t, o) = Leaving(actions, o)

LEMMA LeftLeaves ==
  ASSUME NEW old \in Seq(PositionType), NEW new \in Seq(PositionType), Within(new, old),
         NEW actions \in Seq(ActionType),
         NEW t, t = Writes(old, new, actions) \o <<[type |-> "poll"]>> \o actions
  PROVE  Sells(t, actions)
<1> DEFINE W == {e \in EffectType : e.type \in {"closed", "cooldown"}}
           V == {e \in EffectType : e.type \in {"closed", "cooldown", "poll"}}
           writes == Writes(old, new, actions)
           before == writes \o <<[type |-> "poll"]>>
<1>1. writes \in Seq(W)
  BY WritesNoPosition
<1>2. [type |-> "poll"] \in V /\ W \subseteq V
  BY DEF EffectType
<1>3. t = before \o actions
  OBVIOUS
<1> HIDE DEF writes, W, V
<1>4. before \in Seq(V)
  <2> DEFINE poll == [type |-> "poll"]
  <2>1. poll \in V /\ writes \in Seq(V)
    BY <1>1, <1>2
  <2> HIDE DEF poll
  <2>2. writes \o <<poll>> \in Seq(V)
    BY <2>1
  <2> QED
    BY <2>2 DEF poll
<1> HIDE DEF before
<1>5. V \subseteq EffectType /\ ActionType \subseteq EffectType
  BY DEF V, EffectType
<1>6. before \in Seq(EffectType) /\ actions \in Seq(EffectType)
  BY <1>4, <1>5
<1>7. t \in Seq(EffectType)
  <2>1. before \o actions \in Seq(EffectType)
    BY <1>6, JoinedLaws
  <2> QED
    BY <1>3, <2>1
<1>8. Joins(t, before, actions)
  <2>1. /\ Len(before \o actions) = Len(before) + Len(actions)
        /\ (\A i \in DOMAIN before : (before \o actions)[i] = before[i])
        /\ (\A i \in DOMAIN actions : (before \o actions)[Len(before) + i] = actions[i])
    BY <1>6
  <2> QED
    BY <1>3, <2>1 DEF Joins
<1>9. ExitList(t) /\ ExitList(before) /\ ExitList(actions)
  BY <1>6, <1>7, EffectsExit
<1>10. \A i \in DOMAIN before : before[i].type \in {"closed", "cooldown", "poll"}
  BY <1>4 DEF V
<1>11. \A i \in DOMAIN actions : actions[i].type \in {"place", "close"}
  <2>1. \A i \in DOMAIN actions : actions[i] \in ActionType
    OBVIOUS
  <2> QED
    BY <2>1 DEF ActionType
<1>12. \A o : Leaving(before, o) = 0
  <2>1. Len(before) \in Nat /\ DOMAIN before = 1..Len(before)
    BY <1>9 DEF ExitList
  <2>2. \A i \in 1..Len(before) : before[i].type # "close"
    BY <1>10, <2>1
  <2> QED
    BY <2>1, <2>2, LeavingTyped
<1>13. \A o : Leaving(actions, o) \in Nat
  BY ActionsExit
<1>14. ASSUME NEW o PROVE Leaving(t, o) = Leaving(actions, o)
  <2>1. Leaving(t, o) = Leaving(before, o) + Leaving(actions, o)
    BY <1>8, <1>9, LeavingJoin
  <2>2. Leaving(before, o) = 0 /\ Leaving(actions, o) \in Nat
    BY <1>12, <1>13
  <2> QED
    BY <2>1, <2>2
<1>15. ASSUME NEW i \in DOMAIN t PROVE t[i].type \notin {"upsert", "record"}
  <2>1. \/ i \in DOMAIN before /\ t[i] = before[i]
        \/ i - Len(before) \in DOMAIN actions /\ t[i] = actions[i - Len(before)]
    BY <1>3, <1>6, <1>7
  <2> QED
    BY <1>10, <1>11, <2>1
<1> QED
  BY <1>14, <1>15 DEF Sells

-----------------------------------------------------------------------------
(* A fill recovered outside a cycle: the one way to a position.              *)

LEMMA ApplyFillHolds ==
  ASSUME NEW b \in BotType, NEW position \in PositionType, NEW o
  PROVE  Held(ApplyFill(b, position).positions, o) <= Held(b.positions, o) + Weight(position, o)
<1>1. b.positions \in Seq(PositionType)
  BY DEF BotType
<1>2. CASE ~IsPosition(b, position.id)
  <2>1. ApplyFill(b, position).positions = Append(b.positions, position)
    BY <1>2 DEF ApplyFill, BotType
  <2>2. Held(Append(b.positions, position), o) = Held(b.positions, o) + Weight(position, o)
    BY <1>1, HeldAppend
  <2>3. Held(b.positions, o) \in Nat /\ Weight(position, o) \in Nat
    BY <1>1, HeldTyped DEF Weight, PositionType
  <2> QED
    BY <2>1, <2>2, <2>3
<1>3. CASE IsPosition(b, position.id)
  <2> DEFINE i == SelectInSeq(b.positions, LAMBDA q : q.id = position.id)
             diff == Signed(position) - Signed(b.positions[i])
             ps == [b.positions EXCEPT ![i] = position]
  <2>1. ApplyFill(b, position) = [b EXCEPT !.usd = @ - diff, !.positions[i] = position]
    BY <1>3 DEF ApplyFill
  <2> HIDE DEF i, diff
  <2>2. ApplyFill(b, position).positions = ps
    BY <2>1 DEF BotType
  <2>3. CASE i \in DOMAIN b.positions
    <3>1. Held(ps, o) <= Held(b.positions, o) + Weight(position, o)
      BY <1>1, <2>3, HeldReplace
    <3> QED
      BY <2>2, <3>1
  <2>4. CASE i \notin DOMAIN b.positions
    <3> DEFINE s == b.positions
    <3>1. s = [k \in 1..Len(s) |-> s[k]] /\ DOMAIN s = 1..Len(s)
      BY <1>1
    <3>2. \A k \in DOMAIN s : k # i
      BY <2>4
    <3> HIDE DEF s
    <3>3. [s EXCEPT ![i] = position] = s
      BY <3>1, <3>2
    <3>4. Held(b.positions, o) \in Nat /\ Weight(position, o) \in Nat
      BY <1>1, HeldTyped DEF Weight, PositionType
    <3> QED
      BY <2>2, <3>3, <3>4 DEF s
  <2> QED
    BY <2>3, <2>4
<1> QED
  BY <1>2, <1>3

\* A fill adds to what is held of its own order, and no more than it is.
LEMMA FillHolds ==
  ASSUME NEW b \in BotType, NEW fill \in FillType, NEW rs, Sound(b.pending, rs),
         NEW r, r = FillConfirmed(b, fill), NEW o \in Nat
  PROVE  /\ r.bot \in BotType /\ Sound(r.bot.pending, rs)
         /\ Held(r.bot.positions, o)
              <= Held(b.positions, o) + IF o = fill.order THEN fill.quantity ELSE 0
<1> DEFINE matched == MatchesFill(b, fill)
           q == matched[1]
           side == IF q.side = "buy" THEN "long" ELSE "short"
           view == SideFor(b.beliefs[fill.pair])
           id == IF q.position = NoId THEN FillId(fill.order) ELSE q.position
           position == Opened(id, fill.pair, side, fill.quantity, view)
           rest == Filled(b.pending, q, fill.quantity)
           pruned == [b EXCEPT !.pending = rest]
           sold == [pruned EXCEPT !.doge = @ - fill.quantity, !.usd = @ + fill.quantity]
           bought == ApplyFill(pruned, position)
<1>1. /\ matched = <<>> => r = Done(b, <<>>)
      /\ matched # <<>> /\ q.kind = "inventory_sell" => r = Done(sold, <<>>)
      /\ matched # <<>> /\ q.kind # "inventory_sell" => r \in {Done(bought, <<>>), Raised(b)}
  BY DEF FillConfirmed
<1>2. /\ matched # <<>> => q \in PendingType /\ \E i \in DOMAIN b.pending : q = b.pending[i]
      /\ r.bot \in BotType
  BY MatchLaws, FillFollows DEF Follows, ResultType
<1>3. /\ fill.quantity \in Nat /\ fill.pair \in Pairs /\ fill.order \in Nat
      /\ b.pending \in Seq(PendingType) /\ b.positions \in Seq(PositionType)
  BY DEF FillType, BotType
<1>4. Held(b.positions, o) \in Nat
  BY <1>3, HeldTyped
<1> HIDE DEF matched, q
<1>5. CASE r.bot = b
  BY <1>2, <1>3, <1>4, <1>5
<1>6. CASE matched # <<>>
  <2>1. q \in PendingType /\ q.position.source \in {"none", "sequence"}
    BY <1>2, <1>6 DEF Sound, NamedOf
  <2>2. rest \in Seq(PendingType)
    BY <1>3, <2>1, FilledTyped
  <2>3. Sound(rest, rs)
    BY <1>3, FilledSound
  <2> HIDE DEF rest
  <2>4. pruned \in BotType /\ pruned.pending = rest /\ pruned.positions = b.positions
    BY <2>2 DEF BotType
  <2> HIDE DEF pruned
  <2>5. sold.pending = rest /\ sold.positions = b.positions
    BY <2>4 DEF BotType
  <2>6. id \in Ids /\ (o # fill.order => id # FillId(o))
    <3>1. \A p : p.source \in {"none", "sequence"} => p # FillId(o)
      BY DEF FillId
    <3>2. FillId(fill.order) = FillId(o) => fill.order = o
      BY DEF FillId
    <3>3. q.position \in Ids /\ FillId(fill.order) \in Ids
      BY <1>3, <2>1, IdsTyped DEF PendingType
    <3> QED
      BY <2>1, <3>1, <3>2, <3>3
  <2> HIDE DEF id
  <2>7. side \in {"long", "short"}
    OBVIOUS
  <2> HIDE DEF side, view
  <2>8. position \in PositionType
    BY <1>3, <2>6, <2>7, OpenedTyped
  <2>9. Weight(position, o) <= IF o = fill.order THEN fill.quantity ELSE 0
    BY <1>3, <2>6 DEF Weight, Opened
  <2>10. Weight(position, o) \in Nat
    BY <2>8 DEF Weight, PositionType
  <2> HIDE DEF position
  <2>11. bought.pending = rest /\ bought \in BotType
    BY <2>4, <2>8, ApplyFillTyped
  <2>12. Held(bought.positions, o) <= Held(b.positions, o) + Weight(position, o)
    BY <2>4, <2>8, ApplyFillHolds
  <2>13. Held(bought.positions, o) \in Nat
    BY <2>11, HeldTyped DEF BotType
  <2> HIDE DEF sold, bought
  <2>14. r.bot \in {sold, bought, b}
    BY <1>1, <1>6 DEF Done, Raised
  <2>15. CASE r.bot = sold
    BY <1>2, <1>3, <1>4, <2>3, <2>5, <2>15
  <2>16. CASE r.bot = bought
    BY <1>2, <1>3, <1>4, <2>3, <2>9, <2>10, <2>11, <2>12, <2>13, <2>16
  <2> QED
    BY <1>5, <2>14, <2>15, <2>16
<1>7. CASE matched = <<>>
  <2>1. r.bot = b
    BY <1>1, <1>7 DEF Done
  <2> QED
    BY <1>5, <2>1
<1> QED
  BY <1>6, <1>7

-----------------------------------------------------------------------------
(* The invariant                                                             *)

\* What a reconciliation under way, or the start, still has to look at.
Waiting == IF pc \in {"starting", "resolving"} THEN [i \in DOMAIN todo |-> todo[i].pending]
           ELSE <<>>

\* What is executed of the order may still become a position: nothing is recorded
\* of it, its row is open, or it is pending.
Awaited(o) == \/ rows[o].status \in {"none", "open"}
              \/ o \in Exchanges(bot.pending) \/ o \in Exchanges(Waiting)

Mass(o) == Held(bot.positions, o) + Leaving(todo, o) + Sold(orders, o)

\* An execution is held or sold once, and not before the order has been settled.
HeldOnce ==
  \A o \in Nat : IF o \in OrderNumbers
                 THEN Mass(o) <= orders[o].done /\ (Awaited(o) => Mass(o) = 0)
                 ELSE Mass(o) = 0

\* Positions come only from fills recovered outside a cycle, which writes none.
NothingStored == dbPositions = <<>> /\ \A i \in DOMAIN todo : todo[i].type # "upsert"

PendingSound ==
  /\ Sound(bot.pending, rows) /\ Sound(Waiting, rows)
  /\ \A o \in DOMAIN rows : rows[o].position.source \in {"none", "sequence"}

\* A fetch found no more of an order than was executed of it.
TradedOnly ==
  pc \in {"starting", "resolving"}
    => \A i \in DOMAIN todo :
         IF todo[i].pending.exchange = 0 THEN todo[i].traded = 0
         ELSE /\ todo[i].pending.exchange \in OrderNumbers
              /\ todo[i].traded <= orders[todo[i].pending.exchange].done

\* An order placed and not recorded yet has no row, and belongs to one writer.
Unrecorded ==
  /\ webOrder # 0 => rows[webOrder].status = "none"
  /\ \A i \in DOMAIN todo : todo[i].type = "record" =>
       /\ i = 1 /\ todo[i].order \in OrderNumbers /\ todo[i].order # webOrder
       /\ rows[todo[i].order].status = "none"

Books == HeldOnce /\ NothingStored /\ PendingSound /\ TradedOnly /\ Unrecorded

Points == {"down", "starting", "idle", "resolving", "reaping", "effects"}

LEMMA TodoExits ==
  ASSUME NEW point \in Points, NEW t \in Seq(WorkAt(point))
  PROVE  /\ ExitList(t) /\ \A o : Leaving(t, o) \in Nat
         /\ point # "effects" => /\ \A o : Leaving(t, o) = 0
                                 /\ \A i \in DOMAIN t : t[i].type \in {"resolve", "reap"}
<1>1. Len(t) \in Nat /\ DOMAIN t = 1..Len(t) /\ \A i \in 1..Len(t) : t[i] \in WorkAt(point)
  OBVIOUS
<1>2. CASE point = "effects"
  <2>1. t \in Seq(EffectType)
    BY <1>2, WorkIs
  <2> QED
    BY <1>2, <2>1, EffectsExit
<1>3. CASE point # "effects"
  <2>1. \A i \in 1..Len(t) : t[i].type \in {"resolve", "reap"}
    <3>1. WorkAt(point) \in {{}, ResolveType, ReapType}
      BY <1>3, WorkIs DEF Points
    <3>2. \A x \in ResolveType \cup ReapType : x.type \in {"resolve", "reap"}
      BY DEF ResolveType, ReapType
    <3>3. \A x \in WorkAt(point) : x.type \in {"resolve", "reap"}
      BY <3>1, <3>2
    <3> QED
      BY <1>1, <3>3
  <2>2. \A i \in 1..Len(t) : t[i].type # "close"
    BY <2>1
  <2>3. \A o : Leaving(t, o) = 0
    BY <1>1, <2>2, LeavingTyped
  <2> QED
    BY <1>1, <1>3, <2>1, <2>2, <2>3 DEF ExitList
<1> QED
  BY <1>2, <1>3

\* The three parts of a mass, in any state that has its types.
LEMMA MassTyped ==
  ASSUME NEW b \in BotType, NEW point \in Points, NEW t \in Seq(WorkAt(point)), NEW s \in Seq(OrderType),
         NEW o
  PROVE  Held(b.positions, o) \in Nat /\ Leaving(t, o) \in Nat /\ Sold(s, o) \in Nat
<1>1. b.positions \in Seq(PositionType)
  BY DEF BotType
<1> QED
  BY <1>1, HeldTyped, TodoExits, SoldTyped

LEMMA HoldFollows ==
  ASSUME TypeOK, TypeOK', HeldOnce, OrderNumbers \subseteq OrderNumbers',
         \A o \in Nat : Mass(o)' <= Mass(o),
         \A o \in OrderNumbers : orders[o].done <= orders'[o].done /\ (Awaited(o)' => Awaited(o))
  PROVE  HeldOnce'
<1> SUFFICES ASSUME NEW o \in Nat
             PROVE  IF o \in OrderNumbers'
                    THEN Mass(o)' <= orders'[o].done /\ (Awaited(o)' => Mass(o)' = 0)
                    ELSE Mass(o)' = 0
  BY DEF HeldOnce
<1>1. Mass(o) \in Nat /\ Mass(o)' \in Nat
  <2>1. bot \in BotType /\ pc \in Points /\ todo \in Seq(WorkAt(pc)) /\ orders \in Seq(OrderType)
    BY DEF TypeOK, Points
  <2>2. bot' \in BotType /\ pc' \in Points /\ todo' \in Seq(WorkAt(pc')) /\ orders' \in Seq(OrderType)
    BY DEF TypeOK, Points
  <2>3. Held(bot.positions, o) \in Nat /\ Leaving(todo, o) \in Nat /\ Sold(orders, o) \in Nat
    BY <2>1, MassTyped
  <2>4. Held(bot'.positions, o) \in Nat /\ Leaving(todo', o) \in Nat /\ Sold(orders', o) \in Nat
    BY <2>2, MassTyped
  <2> QED
    BY <2>3, <2>4 DEF Mass
<1>2. \A k \in OrderNumbers' : orders'[k].done \in Nat
  <2>1. orders' \in Seq(OrderType) /\ OrderNumbers' = DOMAIN orders'
    BY DEF TypeOK, OrderNumbers
  <2>2. \A k \in OrderNumbers' : orders'[k] \in OrderType
    BY <2>1
  <2> QED
    BY <2>2 DEF OrderType
<1>3. \A k \in OrderNumbers : orders[k].done \in Nat
  BY Orderly DEF OrderType
<1>4. Mass(o)' <= Mass(o)
  OBVIOUS
<1>5. CASE o \in OrderNumbers
  <2>1. Mass(o) <= orders[o].done /\ (Awaited(o) => Mass(o) = 0)
    BY <1>5 DEF HeldOnce
  <2>2. orders[o].done <= orders'[o].done /\ (Awaited(o)' => Awaited(o)) /\ o \in OrderNumbers'
    BY <1>5
  <2>3. orders[o].done \in Nat /\ orders'[o].done \in Nat
    BY <1>2, <1>3, <1>5, <2>2
  <2> HIDE DEF Mass, Awaited
  <2> QED
    BY <1>1, <1>4, <2>1, <2>2, <2>3
<1>6. CASE o \notin OrderNumbers
  <2>1. Mass(o) = 0
    BY <1>6 DEF HeldOnce
  <2>2. Mass(o)' = 0
    BY <1>1, <1>4, <2>1
  <2> QED
    BY <1>2, <2>2
<1> QED
  BY <1>5, <1>6

\* What is left to do is the same, its tail, or nothing that could be sold.
TodoShrinks ==
  \/ todo' = todo /\ pc' = pc
  \/ todo # <<>> /\ todo' = Tail(todo) /\ pc' = pc
  \/ todo' = <<>>
  \/ pc' = "reaping"

LEMMA TodoLeft ==
  ASSUME TypeOK, TypeOK', TodoShrinks
  PROVE  /\ \A o : Leaving(todo', o) <= Leaving(todo, o)
         /\ \A i \in DOMAIN todo' :
              \/ todo'[i].type = "reap"
              \/ \E j \in DOMAIN todo : todo'[i] = todo[j] /\ (i = j \/ (j = i + 1 /\ j # 1))
<1>1. /\ pc \in Points /\ todo \in Seq(WorkAt(pc)) /\ pc' \in Points /\ todo' \in Seq(WorkAt(pc'))
  BY DEF TypeOK, Points
<1>2. /\ ExitList(todo) /\ ExitList(todo') /\ \A o : Leaving(todo, o) \in Nat /\ Leaving(todo', o) \in Nat
      /\ pc' # "effects" => \A o : Leaving(todo', o) = 0
  BY <1>1, TodoExits
<1>3. CASE todo' = todo
  <2>1. \A o : Leaving(todo', o) <= Leaving(todo, o)
    BY <1>2, <1>3
  <2> QED
    BY <1>3, <2>1
<1>4. CASE todo # <<>> /\ todo' = Tail(todo)
  <2>1. /\ Len(todo') = Len(todo) - 1
        /\ \A i \in DOMAIN todo' : i + 1 \in DOMAIN todo /\ todo'[i] = todo[i + 1]
    BY <1>1, <1>4, TailLaws
  <2>2. Len(todo) \in Nat /\ Len(todo') \in Nat /\ DOMAIN todo' = 1..Len(todo')
    BY <1>2 DEF ExitList
  <2>3. Len(todo) = Len(todo') + 1
    BY <2>1, <2>2
  <2>4. ASSUME NEW o PROVE Leaving(todo', o) <= Leaving(todo, o)
    <3> DEFINE t == todo'
               s == todo
    <3>1. ExitList(s) /\ ExitList(t) /\ Len(s) = Len(t) + 1 /\ \A i \in DOMAIN t : t[i] = s[i + 1]
      BY <1>2, <2>1, <2>3
    <3> HIDE DEF t, s
    <3>2. Leaving(s, o) = ExitWeight(s[1], o) + Leaving(t, o) /\ ExitWeight(s[1], o) \in Nat
      BY <3>1, LeavingTail
    <3>3. Leaving(t, o) \in Nat
      BY <1>2 DEF t
    <3>4. Leaving(t, o) <= Leaving(s, o)
      BY <3>2, <3>3
    <3> QED
      BY <3>4 DEF s, t
  <2>5. ASSUME NEW i \in DOMAIN todo'
        PROVE  \E j \in DOMAIN todo : todo'[i] = todo[j] /\ (i = j \/ (j = i + 1 /\ j # 1))
    <3>1. i + 1 \in DOMAIN todo /\ todo'[i] = todo[i + 1] /\ i + 1 # 1
      BY <2>1, <2>2
    <3> QED
      BY <3>1
  <2> QED
    BY <2>4, <2>5
<1>5. CASE todo' = <<>>
  BY <1>2, <1>5, NoActions
<1>6. CASE pc' = "reaping"
  <2>1. todo' \in Seq(ReapType)
    BY <1>1, <1>6, WorkIs
  <2>2. \A i \in DOMAIN todo' : todo'[i].type = "reap"
    <3>1. \A i \in DOMAIN todo' : todo'[i] \in ReapType
      BY <2>1
    <3> QED
      BY <3>1 DEF ReapType
  <2>3. \A o : Leaving(todo', o) = 0
    BY <1>2, <1>6
  <2> QED
    BY <1>2, <2>2, <2>3
<1> QED
  BY <1>3, <1>4, <1>5, <1>6 DEF TodoShrinks

\* What waits of a shorter list is of the longer one.
LEMMA WaitingLeft ==
  ASSUME TypeOK, TypeOK', TodoShrinks, NEW rs, Sound(Waiting, rs)
  PROVE  Sound(Waiting', rs) /\ Exchanges(Waiting') \subseteq Exchanges(Waiting)
<1>1. /\ todo \in Seq(WorkAt(pc)) /\ todo' \in Seq(WorkAt(pc'))
  BY DEF TypeOK
<1>2. CASE pc' \notin {"starting", "resolving"} \/ todo' = <<>>
  <2>1. Waiting' = <<>>
    BY <1>2 DEF Waiting
  <2> QED
    BY <2>1, NoneSound DEF Exchanges
<1>3. CASE pc' \in {"starting", "resolving"} /\ todo' # <<>>
  <2>1. pc' = pc
    BY <1>3 DEF TodoShrinks
  <2> DEFINE w == Waiting
             v == Waiting'
  <2>2. /\ DOMAIN w = DOMAIN todo /\ \A i \in DOMAIN todo : w[i] = todo[i].pending
        /\ DOMAIN v = DOMAIN todo' /\ \A i \in DOMAIN todo' : v[i] = todo'[i].pending
    BY <1>3, <2>1 DEF Waiting
  <2>3. CASE todo' = todo
    <3>1. v = w
      BY <2>1, <2>3 DEF Waiting
    <3> QED
      BY <3>1
  <2>4. CASE todo # <<>> /\ todo' = Tail(todo)
    <3> DEFINE h == [i \in DOMAIN v |-> i + 1]
    <3>1. DOMAIN todo' = 1..Len(todo') /\ \A i \in DOMAIN todo' : i + 1 \in DOMAIN todo /\ todo'[i] = todo[i + 1]
      BY <1>1, <2>4, TailLaws
    <3> HIDE DEF v, w
    <3>2. \A k \in DOMAIN v : h[k] \in DOMAIN w /\ v[k] = w[h[k]] /\ h[k] = k + 1
      BY <2>2, <3>1
    <3>3. \A k, l \in DOMAIN v : k # l => h[k] # h[l]
      BY <2>2, <3>1, <3>2
    <3> HIDE DEF h
    <3>4. PickOf(v, w, h)
      BY <3>2, <3>3 DEF PickOf
    <3>5. Sound(v, rs)
      BY <3>4, PickSound DEF w
    <3>6. Exchanges(v) \subseteq Exchanges(w)
      BY <3>2 DEF Exchanges
    <3> QED
      BY <3>5, <3>6 DEF v, w
  <2> QED
    BY <1>3, <2>3, <2>4 DEF TodoShrinks
<1> QED
  BY <1>2, <1>3

\* Rows are as before, but for some that have been closed.
RowsClose ==
  /\ DOMAIN rows' = DOMAIN rows
  /\ \A k \in DOMAIN rows :
       \/ rows'[k] = rows[k]
       \/ /\ rows[k].status # "none" /\ rows'[k].status \in {"filled", "cancelled"}
          /\ rows'[k].client = rows[k].client /\ rows'[k].position = rows[k].position

LEMMA SetStatusCloses ==
  ASSUME TypeOK, NEW o, NEW status \in {"filled", "cancelled"}, rows' = SetStatus(o, status)
  PROVE  /\ RowsClose
         /\ o \in OrderNumbers /\ rows[o].status # "none" => rows'[o].status = status
<1> DEFINE changed == [rows EXCEPT ![o].status = status]
<1>1. rows' = IF o = 0 \/ rows[o].status = "none" THEN rows ELSE changed
  BY DEF SetStatus
<1>2. /\ DOMAIN changed = DOMAIN rows
      /\ \A k \in DOMAIN rows : changed[k] = IF k = o THEN [rows[k] EXCEPT !.status = status] ELSE rows[k]
  OBVIOUS
<1>3. \A r \in RowType : LET c == [r EXCEPT !.status = status]
                         IN  c.status = status /\ c.client = r.client /\ c.position = r.position
  BY DEF RowType
<1>4. /\ \A k \in DOMAIN rows : rows[k] \in RowType
      /\ DOMAIN rows = OrderNumbers /\ OrderNumbers = 1..Len(orders)
  BY Orderly
<1>5. \A k \in DOMAIN rows : /\ k # o => changed[k] = rows[k]
                             /\ k = o => /\ changed[k].status = status /\ changed[k].client = rows[k].client
                                         /\ changed[k].position = rows[k].position
  BY <1>2, <1>3, <1>4
<1>6. o \in OrderNumbers => o # 0
  BY <1>4
<1> HIDE DEF changed
<1>7. RowsClose
  BY <1>1, <1>2, <1>5 DEF RowsClose
<1> QED
  BY <1>1, <1>4, <1>5, <1>6, <1>7

LEMMA ClosedRows ==
  ASSUME RowsClose
  PROVE  /\ RowsKeep(rows, rows')
         /\ \A k \in DOMAIN rows :
              /\ rows'[k].status \in {"none", "open"} => rows[k].status \in {"none", "open"}
              /\ rows[k].status = "none" => rows'[k].status = "none"
              /\ rows'[k].position = rows[k].position
BY DEF RowsClose, RowsKeep

\* Orders are the same, but for how much of one is executed and whether it lives.
OrdersGoOn ==
  /\ Len(orders') = Len(orders)
  /\ \A k \in DOMAIN orders : /\ orders'[k].closes = orders[k].closes
                              /\ orders'[k].quantity = orders[k].quantity
                              /\ orders[k].done <= orders'[k].done

LEMMA SameOrders ==
  ASSUME TypeOK, orders' = orders
  PROVE  OrdersGoOn
<1>1. \A k \in DOMAIN orders : orders[k].done \in Nat
  BY Orderly DEF OrderNumbers, OrderType
<1> QED
  BY <1>1 DEF OrdersGoOn

LEMMA OrderAltered ==
  ASSUME TypeOK, TypeOK', NEW o, NEW x, orders' = [orders EXCEPT ![o] = x],
         o \in OrderNumbers => /\ x.closes = orders[o].closes /\ x.quantity = orders[o].quantity
                               /\ orders[o].done <= x.done
  PROVE  OrdersGoOn
<1>1. orders \in Seq(OrderType) /\ orders' \in Seq(OrderType) /\ DOMAIN orders' = DOMAIN orders
  BY DEF TypeOK
<1>2. Len(orders') = Len(orders)
  BY <1>1
<1>3. \A k \in DOMAIN orders : orders[k].done \in Nat
  BY Orderly DEF OrderNumbers, OrderType
<1>4. \A k \in DOMAIN orders : orders'[k] = IF k = o THEN x ELSE orders[k]
  OBVIOUS
<1>5. ASSUME NEW k \in DOMAIN orders
      PROVE  /\ orders'[k].closes = orders[k].closes /\ orders'[k].quantity = orders[k].quantity
             /\ orders[k].done <= orders'[k].done
  <2>1. CASE k = o
    <3>1. orders'[k] = x /\ o \in OrderNumbers
      BY <1>4, <2>1 DEF OrderNumbers
    <3> QED
      BY <2>1, <3>1
  <2>2. CASE k # o
    <3>1. orders'[k] = orders[k]
      BY <1>4, <2>2
    <3> QED
      BY <1>3, <3>1
  <2> QED
    BY <2>1, <2>2
<1> QED
  BY <1>2, <1>5 DEF OrdersGoOn

\* A step that makes no order and no row, and only takes from what is left to do.
LEMMA QuietRest ==
  ASSUME IInv, Books, TypeOK', OrdersGoOn, TodoShrinks, RowsClose, Sound(bot'.pending, rows),
         dbPositions' = dbPositions, webOrder' \in {0, webOrder}
  PROVE  NothingStored' /\ PendingSound' /\ TradedOnly' /\ Unrecorded'
<1>1. TypeOK /\ HeldOnce /\ NothingStored /\ PendingSound /\ TradedOnly /\ Unrecorded
  BY DEF IInv, Books
<1>2. /\ \A o : Leaving(todo', o) <= Leaving(todo, o)
      /\ \A i \in DOMAIN todo' :
           \/ todo'[i].type = "reap"
           \/ \E j \in DOMAIN todo : todo'[i] = todo[j] /\ (i = j \/ (j = i + 1 /\ j # 1))
  BY <1>1, TodoLeft
<1>3. Sound(Waiting', rows) /\ Exchanges(Waiting') \subseteq Exchanges(Waiting)
  BY <1>1, WaitingLeft DEF PendingSound
<1>4. /\ RowsKeep(rows, rows')
      /\ \A k \in DOMAIN rows :
              /\ rows'[k].status \in {"none", "open"} => rows[k].status \in {"none", "open"}
              /\ rows[k].status = "none" => rows'[k].status = "none"
              /\ rows'[k].position = rows[k].position
      /\ DOMAIN rows' = DOMAIN rows
  BY ClosedRows DEF RowsClose
<1>5. /\ OrderNumbers = 1..Len(orders) /\ Len(orders) \in Nat /\ DOMAIN rows = OrderNumbers
      /\ OrderNumbers' = OrderNumbers
  <2>1. orders \in Seq(OrderType) /\ orders' \in Seq(OrderType)
    BY <1>1 DEF TypeOK
  <2> QED
    BY <1>1, <2>1, Orderly DEF OrdersGoOn, OrderNumbers
<1>7. NothingStored'
  BY <1>1, <1>2 DEF NothingStored
<1>8. PendingSound'
  BY <1>1, <1>3, <1>4, SoundKept DEF PendingSound
<1>9. TradedOnly'
  <2> SUFFICES ASSUME pc' \in {"starting", "resolving"}, NEW i \in DOMAIN todo'
               PROVE  IF todo'[i].pending.exchange = 0 THEN todo'[i].traded = 0
                      ELSE /\ todo'[i].pending.exchange \in OrderNumbers'
                           /\ todo'[i].traded <= orders'[todo'[i].pending.exchange].done
    BY DEF TradedOnly
  <2>1. todo' # <<>>
    OBVIOUS
  <2>2. pc' = pc /\ (todo' = todo \/ (todo # <<>> /\ todo' = Tail(todo)))
    BY <2>1 DEF TodoShrinks
  <2>3. PICK j \in DOMAIN todo : todo'[i] = todo[j]
    <3>1. todo \in Seq(WorkAt(pc))
      BY <1>1 DEF TypeOK
    <3>2. CASE todo' = todo
      BY <3>2
    <3>3. CASE todo # <<>> /\ todo' = Tail(todo)
      BY <3>1, <3>3, TailLaws
    <3> QED
      BY <2>2, <3>2, <3>3
  <2>4. IF todo[j].pending.exchange = 0 THEN todo[j].traded = 0
        ELSE /\ todo[j].pending.exchange \in OrderNumbers
             /\ todo[j].traded <= orders[todo[j].pending.exchange].done
    BY <1>1, <2>2 DEF TradedOnly
  <2>5. todo[j].traded \in Nat
    <3>1. todo \in Seq(ResolveType)
      BY <1>1, <2>2, WorkIs DEF TypeOK
    <3>2. todo[j] \in ResolveType
      BY <3>1
    <3> QED
      BY <3>2 DEF ResolveType
  <2>6. \A k \in OrderNumbers : orders[k].done <= orders'[k].done /\ orders[k].done \in Nat
                                /\ orders'[k].done \in Nat
    <3>1. \A k \in OrderNumbers : orders[k].done \in Nat
      BY <1>1, Orderly DEF OrderType
    <3>2. orders' \in Seq(OrderType) /\ OrderNumbers' = DOMAIN orders'
      BY DEF TypeOK, OrderNumbers
    <3>3. \A k \in OrderNumbers : orders'[k] \in OrderType
      BY <1>5, <3>2
    <3> QED
      BY <3>1, <3>3 DEF OrdersGoOn, OrderNumbers, OrderType
  <2> QED
    BY <1>5, <2>3, <2>4, <2>5, <2>6
<1>10. Unrecorded'
  <2>1. webOrder' # 0 => rows'[webOrder'].status = "none"
    <3>1. webOrder \in OrderNumbers \cup {0}
      BY <1>1 DEF TypeOK
    <3> QED
      BY <1>1, <1>4, <1>5, <3>1 DEF Unrecorded
  <2>2. ASSUME NEW i \in DOMAIN todo', todo'[i].type = "record"
        PROVE  /\ i = 1 /\ todo'[i].order \in OrderNumbers' /\ todo'[i].order # webOrder'
               /\ rows'[todo'[i].order].status = "none"
    <3>1. PICK j \in DOMAIN todo : todo'[i] = todo[j] /\ (i = j \/ (j = i + 1 /\ j # 1))
      BY <1>2, <2>2
    <3>2. /\ j = 1 /\ todo[j].order \in OrderNumbers /\ todo[j].order # webOrder
          /\ rows[todo[j].order].status = "none"
      BY <1>1, <2>2, <3>1 DEF Unrecorded
    <3>3. todo[j].order # 0
      BY <1>5, <3>2
    <3> QED
      BY <1>4, <1>5, <3>1, <3>2, <3>3
  <2> QED
    BY <2>1, <2>2 DEF Unrecorded
<1> QED
  BY <1>7, <1>8, <1>9, <1>10

\* A step that makes no position, no order and no row, and only takes from what is
\* pending and left to do.
LEMMA QuietBooks ==
  ASSUME IInv, Books, TypeOK', bot'.positions \in {bot.positions, <<>>}, OrdersGoOn, TodoShrinks,
         RowsClose, Sound(bot'.pending, rows), Exchanges(bot'.pending) \subseteq Exchanges(bot.pending) \cup {0},
         dbPositions' = dbPositions, webOrder' \in {0, webOrder}
  PROVE  Books'
<1>1. TypeOK /\ HeldOnce /\ NothingStored /\ PendingSound /\ TradedOnly /\ Unrecorded
  BY DEF IInv, Books
<1>2. /\ \A o : Leaving(todo', o) <= Leaving(todo, o)
      /\ \A i \in DOMAIN todo' :
           \/ todo'[i].type = "reap"
           \/ \E j \in DOMAIN todo : todo'[i] = todo[j] /\ (i = j \/ (j = i + 1 /\ j # 1))
  BY <1>1, TodoLeft
<1>3. Sound(Waiting', rows) /\ Exchanges(Waiting') \subseteq Exchanges(Waiting)
  BY <1>1, WaitingLeft DEF PendingSound
<1>4. /\ RowsKeep(rows, rows')
      /\ \A k \in DOMAIN rows :
              /\ rows'[k].status \in {"none", "open"} => rows[k].status \in {"none", "open"}
              /\ rows[k].status = "none" => rows'[k].status = "none"
              /\ rows'[k].position = rows[k].position
      /\ DOMAIN rows' = DOMAIN rows
  BY ClosedRows DEF RowsClose
<1>5. /\ OrderNumbers = 1..Len(orders) /\ Len(orders) \in Nat /\ DOMAIN rows = OrderNumbers
      /\ OrderNumbers' = OrderNumbers
  <2>1. orders \in Seq(OrderType) /\ orders' \in Seq(OrderType)
    BY <1>1 DEF TypeOK
  <2> QED
    BY <1>1, <2>1, Orderly DEF OrdersGoOn, OrderNumbers
<1>6. HeldOnce'
  <2>1. ASSUME NEW o \in Nat PROVE Mass(o)' <= Mass(o)
    <3>1. /\ bot \in BotType /\ pc \in Points /\ todo \in Seq(WorkAt(pc)) /\ orders \in Seq(OrderType)
          /\ bot' \in BotType /\ pc' \in Points /\ todo' \in Seq(WorkAt(pc')) /\ orders' \in Seq(OrderType)
      BY <1>1 DEF TypeOK, Points
    <3>2. /\ Held(bot.positions, o) \in Nat /\ Leaving(todo, o) \in Nat /\ Sold(orders, o) \in Nat
          /\ Held(bot'.positions, o) \in Nat /\ Leaving(todo', o) \in Nat /\ Sold(orders', o) \in Nat
      BY <3>1, MassTyped
    <3>3. Sold(orders', o) = Sold(orders, o)
      BY <3>1, SoldSame DEF OrdersGoOn
    <3>4. Held(bot'.positions, o) <= Held(bot.positions, o)
      BY <3>2, HeldEmpty
    <3>5. Leaving(todo', o) <= Leaving(todo, o)
      BY <1>2
    <3> QED
      BY <3>2, <3>3, <3>4, <3>5 DEF Mass
  <2>2. \A o \in OrderNumbers : orders[o].done <= orders'[o].done
    BY DEF OrdersGoOn, OrderNumbers
  <2>3. \A o \in OrderNumbers : o # 0
    BY <1>5
  <2>4. \A o \in OrderNumbers : Awaited(o)' => Awaited(o)
    BY <1>3, <1>4, <1>5, <2>3 DEF Awaited
  <2> QED
    BY <1>1, <1>5, <2>1, <2>2, <2>4, HoldFollows
<1> QED
  BY <1>6, QuietRest DEF Books

-----------------------------------------------------------------------------
(* The steps keep it: those that make no position, no order and no row       *)

\* The pending orders kept of those there were.
LEMMA KeptPending ==
  ASSUME TypeOK, PendingSound, NEW I \in SUBSET DOMAIN bot.pending
  PROVE  /\ Sound(Picked(bot.pending, I), rows)
         /\ Exchanges(Picked(bot.pending, I)) \subseteq Exchanges(bot.pending) \cup {0}
<1>1. bot.pending \in Seq(PendingType)
  BY DEF TypeOK, BotType
<1> QED
  BY <1>1, KeptSound, WithoutLaws DEF PendingSound

\* Where neither the state nor the rows change.
LEMMA StillBooks ==
  ASSUME IInv, Books, TypeOK', bot'.positions = bot.positions, bot'.pending = bot.pending,
         OrdersGoOn, TodoShrinks, UNCHANGED <<rows, dbPositions, webOrder>>
  PROVE  Books'
<1>1. Sound(bot.pending, rows)
  BY DEF Books, PendingSound
<1>2. RowsClose
  BY DEF RowsClose
<1> QED
  BY <1>1, <1>2, QuietBooks

LEMMA DownBooks ==
  ASSUME IInv, Books, TypeOK', Down, UNCHANGED <<orders, rows, dbPositions>>
  PROVE  Books'
<1>1. bot'.positions = <<>> /\ bot'.pending = <<>>
  BY DEF Down, InitialBot
<1>2. TypeOK /\ OrdersGoOn
  BY SameOrders DEF IInv
<1>3. TodoShrinks /\ RowsClose /\ webOrder' \in {0, webOrder}
  BY DEF Down, TodoShrinks, RowsClose
<1>4. Sound(bot'.pending, rows) /\ Exchanges(bot'.pending) \subseteq Exchanges(bot.pending) \cup {0}
  BY <1>1, NoneSound DEF Exchanges
<1> QED
  BY <1>1, <1>2, <1>3, <1>4, QuietBooks

LEMMA TakeAsCancelledBooks ==
  ASSUME IInv, Books, TypeOK', TakeAsCancelled
  PROVE  Books'
<1> DEFINE q == Head(todo).pending
           I == {i \in DOMAIN bot.pending : bot.pending[i].client # q.client}
           kept == Picked(bot.pending, I)
<1>1. TypeOK /\ PendingSound /\ bot \in BotType /\ OrdersGoOn
  BY SameOrders DEF IInv, Books, TypeOK, TakeAsCancelled
<1>2. /\ bot' = [bot EXCEPT !.pending = kept] /\ todo # <<>> /\ todo' = Tail(todo)
      /\ rows' = SetStatus(q.exchange, "cancelled")
      /\ UNCHANGED <<pc, webOrder, orders, dbPositions>>
  BY DEF TakeAsCancelled, WithoutClient, Keeping
<1>3. I \in SUBSET DOMAIN bot.pending
  OBVIOUS
<1>4. Sound(kept, rows) /\ Exchanges(kept) \subseteq Exchanges(bot.pending) \cup {0}
  <2> HIDE DEF I
  <2> QED
    BY <1>1, <1>3, KeptPending
<1> HIDE DEF kept, q
<1>5. bot'.pending = kept /\ bot'.positions = bot.positions
  BY <1>1, <1>2 DEF BotType
<1>6. RowsClose
  BY <1>1, <1>2, SetStatusCloses
<1>7. TodoShrinks
  BY <1>2 DEF TodoShrinks
<1> QED
  BY <1>1, <1>2, <1>4, <1>5, <1>6, <1>7, QuietBooks

LEMMA ReapOrderBooks ==
  ASSUME IInv, Books, TypeOK', ReapOrder
  PROVE  Books'
<1> DEFINE o == Head(todo).order
           I == {i \in DOMAIN bot.pending :
                   ~(bot.pending[i].kind = "cc_api" /\ bot.pending[i].exchange = o)}
           kept == Picked(bot.pending, I)
<1>1. TypeOK /\ PendingSound /\ bot \in BotType
  BY DEF IInv, Books, TypeOK
<1>2. PICK a \in CancelAnswers(o) :
        /\ orders' = [orders EXCEPT ![o].live = a.live]
        /\ \/ UNCHANGED <<bot, rows>>
           \/ rows' = SetStatus(o, "cancelled") /\ bot' = [bot EXCEPT !.pending = kept]
  BY DEF ReapOrder, WithoutStale, Keeping
<1>3. todo # <<>> /\ todo' = Tail(todo) /\ UNCHANGED <<pc, webOrder, dbPositions>>
  BY DEF ReapOrder
<1>4. OrdersGoOn
  <2> DEFINE x == [orders[o] EXCEPT !.live = a.live]
  <2>1. orders' = [orders EXCEPT ![o] = x]
    BY <1>2
  <2>2. \A y \in OrderType : LET z == [y EXCEPT !.live = a.live]
                             IN  z.closes = y.closes /\ z.quantity = y.quantity /\ z.done = y.done
                                 /\ y.done \in Nat
    BY DEF OrderType
  <2>3. \A k \in OrderNumbers : orders[k] \in OrderType
    BY <1>1, Orderly
  <2>4. o \in OrderNumbers => /\ x.closes = orders[o].closes /\ x.quantity = orders[o].quantity
                              /\ orders[o].done <= x.done
    BY <2>2, <2>3
  <2> HIDE DEF o, x
  <2> QED
    BY <1>1, <2>1, <2>4, OrderAltered
<1>5. I \in SUBSET DOMAIN bot.pending
  OBVIOUS
<1>6. Sound(kept, rows) /\ Exchanges(kept) \subseteq Exchanges(bot.pending) \cup {0}
  <2> HIDE DEF I
  <2> QED
    BY <1>1, <1>5, KeptPending
<1> HIDE DEF kept, o
<1>7. bot'.positions = bot.positions /\ bot'.pending \in {bot.pending, kept}
  BY <1>1, <1>2 DEF BotType
<1>8. Sound(bot'.pending, rows) /\ Exchanges(bot'.pending) \subseteq Exchanges(bot.pending) \cup {0}
  BY <1>1, <1>6, <1>7 DEF PendingSound
<1>9. RowsClose
  <2>1. rows' = rows => RowsClose
    BY DEF RowsClose
  <2> QED
    BY <1>1, <1>2, <2>1, SetStatusCloses
<1>10. TodoShrinks
  BY <1>3 DEF TodoShrinks
<1> QED
  BY <1>3, <1>4, <1>7, <1>8, <1>9, <1>10, QuietBooks

LEMMA PersistPositionBooks ==
  ASSUME IInv, Books, TypeOK', PersistPosition
  PROVE  Books'
<1>1. TypeOK /\ NothingStored /\ OrdersGoOn
  BY SameOrders DEF IInv, Books, PersistPosition
<1>2. /\ pc = "effects" /\ todo # <<>> /\ Head(todo).type \in {"upsert", "closed"} /\ ItemDone
      /\ UNCHANGED <<bot, webOrder, orders, rows>>
  BY DEF PersistPosition, Doing
<1>3. Head(todo).type # "upsert"
  BY <1>1, <1>2, TodoLaws DEF NothingStored
<1>4. dbPositions' = dbPositions
  <2> DEFINE item == Head(todo)
             Other(q) == q.id # (IF item.type = "upsert" THEN item.position.id ELSE item.id)
             I == {i \in DOMAIN dbPositions : Other(dbPositions[i])}
             others == Picked(dbPositions, I)
  <2>1. dbPositions' = others
    BY <1>3 DEF PersistPosition, Keeping
  <2>2. I \in SUBSET DOMAIN dbPositions /\ dbPositions \in Seq(PositionType) /\ dbPositions = <<>>
    BY <1>1 DEF TypeOK, NothingStored
  <2>3. I = {}
    BY <2>2
  <2>4. others \in Seq(PositionType) /\ \A k \in DOMAIN others : \E i \in I : others[k] = dbPositions[i]
    <3> HIDE DEF I
    <3> QED
      BY <2>2, PickedLaws
  <2> HIDE DEF others, I
  <2>5. DOMAIN others = {}
    BY <2>3, <2>4
  <2>6. others = <<>>
    BY <2>4, <2>5
  <2> QED
    BY <2>1, <2>2, <2>6
<1>5. TodoShrinks
  BY <1>2 DEF TodoShrinks, ItemDone
<1> QED
  BY <1>1, <1>2, <1>4, <1>5, StillBooks

\* Steps that only work off or leave alone what is to do.
LEMMA WorkedOffBooks ==
  ASSUME IInv, Books, TypeOK', \/ PersistCooldown \/ PollBeliefs \/ EffectRefused \/ EndStart \/ BeginReaping
                               \/ BeginCycle /\ UNCHANGED todo
  PROVE  Books'
<1>1. TypeOK
  BY DEF IInv
<1>2. UNCHANGED <<bot, webOrder, orders, rows, dbPositions>>
  BY DEF PersistCooldown, PollBeliefs, EffectRefused, EndStart, BeginReaping, BeginCycle, disk, memory, Doing
<1>3. OrdersGoOn
  BY <1>1, <1>2, SameOrders
<1>4. TodoShrinks
  <2>1. CASE PersistCooldown \/ PollBeliefs \/ EffectRefused
    BY <2>1 DEF PersistCooldown, PollBeliefs, EffectRefused, ItemDone, TodoShrinks, Doing
  <2>2. CASE EndStart
    BY <2>2 DEF EndStart, memory, TodoShrinks
  <2>3. CASE BeginReaping
    BY <2>3 DEF BeginReaping, TodoShrinks
  <2>4. CASE BeginCycle /\ UNCHANGED todo
    BY <1>1, <2>4, IdleTodo DEF BeginCycle, TodoShrinks
  <2> QED
    BY <2>1, <2>2, <2>3, <2>4
<1> QED
  BY <1>2, <1>3, <1>4, StillBooks

LEMMA DeliverBooks ==
  ASSUME IInv, Books, TypeOK', NEW o \in OrderNumbers, NEW n \in 1..OrderQuantity, Deliver(o, n)
  PROVE  Books'
<1>1. TypeOK /\ PendingSound /\ OrdersGoOn
  BY SameOrders DEF IInv, Books, Deliver
<1>2. rows' = SetStatus(o, "filled") /\ UNCHANGED <<pc, bot, todo, webOrder, orders, dbPositions>>
  BY DEF Deliver
<1>3. RowsClose
  BY <1>1, <1>2, SetStatusCloses
<1>4. TodoShrinks
  BY <1>2 DEF TodoShrinks
<1>5. Sound(bot'.pending, rows) /\ Exchanges(bot'.pending) \subseteq Exchanges(bot.pending) \cup {0}
  BY <1>1, <1>2 DEF PendingSound
<1> QED
  BY <1>1, <1>2, <1>3, <1>4, <1>5, QuietBooks

LEMMA WebCancelBooks ==
  ASSUME IInv, Books, TypeOK', NEW o \in OrderNumbers, WebCancel(o)
  PROVE  Books'
<1>1. TypeOK /\ orders' = [orders EXCEPT ![o].live = FALSE] /\ UNCHANGED <<pc, memory, disk, history>>
  BY DEF IInv, WebCancel
<1>2. OrdersGoOn
  <2> DEFINE x == [orders[o] EXCEPT !.live = FALSE]
  <2>1. orders' = [orders EXCEPT ![o] = x]
    BY <1>1
  <2>2. orders[o] \in OrderType
    BY <1>1, Orderly
  <2>3. x.closes = orders[o].closes /\ x.quantity = orders[o].quantity /\ orders[o].done <= x.done
    BY <2>2 DEF OrderType
  <2> HIDE DEF x
  <2> QED
    BY <1>1, <2>1, <2>3, OrderAltered
<1>3. TodoShrinks
  BY <1>1 DEF memory, TodoShrinks
<1> QED
  BY <1>1, <1>2, <1>3, StillBooks DEF memory, disk

LEMMA ExecuteBooks ==
  ASSUME IInv, Books, TypeOK', NEW o \in OrderNumbers, NEW n \in 1..OrderQuantity, Execute(o, n)
  PROVE  Books'
<1> DEFINE done == orders[o].done + n
           live == done < orders[o].quantity
           changed == [orders[o] EXCEPT !.done = done, !.live = live]
<1>1. /\ TypeOK /\ UNCHANGED <<pc, memory, disk, history>>
      /\ orders' = [orders EXCEPT ![o].done = @ + n, ![o].live = orders[o].done + n < orders[o].quantity]
  BY DEF IInv, Execute
<1>2. orders' = [orders EXCEPT ![o] = changed]
  BY <1>1
<1>4. orders[o] \in OrderType
  BY <1>1, Orderly
<1>5. changed.closes = orders[o].closes /\ changed.quantity = orders[o].quantity /\ changed.done = done
  <2> HIDE DEF done, live
  <2> QED
    BY <1>4 DEF OrderType
<1>6. orders[o].done \in Nat
  BY <1>4 DEF OrderType
<1>7. orders[o].done <= done
  BY <1>6, CoreAssumption
<1> HIDE DEF changed, done
<1>8. OrdersGoOn
  BY <1>1, <1>2, <1>5, <1>7, OrderAltered
<1>9. TodoShrinks
  BY <1>1 DEF memory, TodoShrinks
<1> QED
  BY <1>1, <1>8, <1>9, StillBooks DEF memory, disk

LEMMA CooldownPassesBooks ==
  ASSUME IInv, Books, TypeOK', NEW p \in Pairs, CooldownPasses(p)
  PROVE  Books'
<1>1. /\ TypeOK /\ bot \in BotType /\ bot' = [bot EXCEPT !.cooling = @ \ {p}]
      /\ UNCHANGED <<pc, todo, webOrder, orders, rows, dbPositions>>
  BY DEF IInv, TypeOK, CooldownPasses
<1>2. bot'.pending = bot.pending /\ bot'.positions = bot.positions
  BY <1>1 DEF BotType
<1> QED
  BY <1>1, <1>2, SameOrders, StillBooks DEF TodoShrinks

-----------------------------------------------------------------------------
(* A fetch: what it misses of the pending orders, and the rows still open    *)

LEMMA MissingSound ==
  ASSUME TypeOK, NEW pending \in Seq(PendingType), Exchanges(pending) \subseteq OrderNumbers \cup {0},
         Sound(pending, rows), NEW items, items = Missing(pending),
         NEW w, w = [i \in DOMAIN items |-> items[i].pending]
  PROVE  /\ Sound(w, rows) /\ Exchanges(w) \subseteq Exchanges(pending)
         /\ \A i \in DOMAIN items : /\ items[i].type = "resolve"
                                    /\ IF items[i].pending.exchange = 0 THEN items[i].traded = 0
                                       ELSE /\ items[i].pending.exchange \in OrderNumbers
                                            /\ items[i].traded <= orders[items[i].pending.exchange].done
<1> DEFINE G == {i \in DOMAIN pending : ~ListedOpen(pending[i])}
           gone == Picked(pending, G)
<1>1. items = [i \in DOMAIN gone |-> [type |-> "resolve", pending |-> gone[i], traded |-> Traded(gone[i])]]
  BY DEF Missing, Keeping
<1>2. G \in SUBSET DOMAIN pending
  OBVIOUS
<1>3. /\ gone \in Seq(PendingType) /\ Exchanges(gone) \subseteq Exchanges(pending)
      /\ Sound(gone, rows)
  <2> HIDE DEF G
  <2> QED
    BY <1>2, WithoutLaws, KeptSound
<1> HIDE DEF gone
<1>4. \A i \in DOMAIN gone : items[i].type = "resolve" /\ items[i].pending = gone[i]
                             /\ items[i].traded = Traded(gone[i])
  BY <1>1
<1>5. DOMAIN items = DOMAIN gone
  BY <1>1
<1>6. w = gone
  <2>1. gone = [i \in DOMAIN gone |-> gone[i]]
    BY <1>3
  <2> QED
    BY <1>4, <1>5, <2>1
<1>7. ASSUME NEW i \in DOMAIN gone
      PROVE  IF gone[i].exchange = 0 THEN Traded(gone[i]) = 0
             ELSE gone[i].exchange \in OrderNumbers /\ Traded(gone[i]) <= orders[gone[i].exchange].done
  <2>1. gone[i].exchange \in OrderNumbers \cup {0}
    BY <1>3 DEF Exchanges
  <2>2. \A k \in OrderNumbers : orders[k].done \in Nat
    BY Orderly DEF OrderType
  <2> QED
    BY <2>1, <2>2 DEF Traded
<1> QED
  BY <1>3, <1>4, <1>5, <1>6, <1>7

LEMMA FetchSound ==
  ASSUME TypeOK, PendingSound, NEW fetched, fetched = FetchOpenOrders
  PROVE  Sound(fetched, rows) /\ \A o \in Exchanges(fetched) : rows[o].status = "open"
<1> DEFINE all == [o \in OrderNumbers |-> o]
           I == {o \in DOMAIN all : rows[all[o]].status = "open"}
           open == Picked(all, I)
           n == Cardinality(I)
<1>1. OrderNumbers = 1..Len(orders) /\ Len(orders) \in Nat /\ DOMAIN rows = OrderNumbers
  BY Orderly
<1>2. /\ I \in SUBSET OrderNumbers /\ \A o \in I : rows[o].status = "open" /\ all[o] = o
      /\ open = [k \in 1..n |-> all[Nth(I, k)]]
  BY DEF Picked
<1>3. fetched = [i \in DOMAIN open |-> PendingOf(open[i])]
  BY DEF FetchOpenOrders, Keeping
<1> HIDE DEF I, all
<1>4. IsFiniteSet(I) /\ I \in SUBSET Nat
  <2>1. IsFiniteSet(1..Len(orders))
    BY <1>1, FS_Interval
  <2>2. I \in SUBSET (1..Len(orders)) /\ I \in SUBSET Nat
    BY <1>1, <1>2
  <2>3. IsFiniteSet(I)
    BY <2>1, <2>2, FS_Subset
  <2> QED
    BY <2>2, <2>3
<1>5. n \in Nat /\ \A k \in 1..n : Nth(I, k) \in I
  BY <1>4, NthLaws
<1>6. \A k, l \in 1..n : k < l => Nth(I, k) < Nth(I, l)
  BY <1>4, NthLaws
<1>7. \A k, l \in 1..n : k # l => Nth(I, k) # Nth(I, l)
  <2> SUFFICES ASSUME NEW k \in 1..n, NEW l \in 1..n, k # l PROVE Nth(I, k) # Nth(I, l)
    OBVIOUS
  <2>1. Nth(I, k) \in Nat /\ Nth(I, l) \in Nat
    BY <1>4, <1>5
  <2>2. k < l \/ l < k
    BY <1>5
  <2> QED
    BY <1>6, <2>1, <2>2
<1>8. DOMAIN open = 1..n /\ \A k \in 1..n : open[k] = Nth(I, k)
  BY <1>2, <1>5
<1> HIDE DEF open, n
<1>9. DOMAIN fetched = 1..n /\ \A k \in 1..n : fetched[k] = PendingOf(Nth(I, k))
  BY <1>3, <1>8
<1>10. \A o : PendingOf(o).exchange = o /\ PendingOf(o).client = rows[o].client
              /\ PendingOf(o).position = rows[o].position
  BY DEF PendingOf
<1>11. \A k \in 1..n : /\ fetched[k].exchange = Nth(I, k)
                       /\ fetched[k].client = rows[Nth(I, k)].client
                       /\ fetched[k].position = rows[Nth(I, k)].position
  BY <1>9, <1>10
<1>12. \A k \in 1..n : Nth(I, k) \in DOMAIN rows /\ rows[Nth(I, k)].status = "open"
  BY <1>1, <1>2, <1>5
<1>13. Apart(fetched)
  BY <1>7, <1>9, <1>11 DEF Apart
<1>14. \A k \in DOMAIN fetched : NamedOf(fetched[k], rows)
  BY <1>9, <1>11, <1>12 DEF NamedOf, PendingSound
<1>15. \A o \in Exchanges(fetched) : rows[o].status = "open"
  BY <1>9, <1>11, <1>12 DEF Exchanges
<1> QED
  BY <1>13, <1>14, <1>15 DEF Sound

-----------------------------------------------------------------------------
(* The steps that begin a loop: the start, a reconciliation, a cycle's effects *)

LEMMA FreshBooks ==
  ASSUME IInv, Books, TypeOK', UNCHANGED <<orders, rows, dbPositions, webOrder>>,
         \A o \in Nat : Held(bot'.positions, o) + Leaving(todo', o) <= Held(bot.positions, o) + Leaving(todo, o),
         \A o \in OrderNumbers : Awaited(o)' => Awaited(o),
         Sound(bot'.pending, rows), Sound(Waiting', rows), TradedOnly',
         \A i \in DOMAIN todo' : todo'[i].type \notin {"upsert", "record"}
  PROVE  Books'
<1>1. TypeOK /\ HeldOnce /\ NothingStored /\ PendingSound /\ Unrecorded
  BY DEF IInv, Books
<1>2. HeldOnce'
  <2>1. ASSUME NEW o \in Nat PROVE Mass(o)' <= Mass(o)
    <3>1. /\ bot \in BotType /\ pc \in Points /\ todo \in Seq(WorkAt(pc)) /\ orders \in Seq(OrderType)
          /\ bot' \in BotType /\ pc' \in Points /\ todo' \in Seq(WorkAt(pc')) /\ orders' = orders
      BY <1>1 DEF TypeOK, Points
    <3>2. /\ Held(bot.positions, o) \in Nat /\ Leaving(todo, o) \in Nat /\ Sold(orders, o) \in Nat
          /\ Held(bot'.positions, o) \in Nat /\ Leaving(todo', o) \in Nat
      BY <3>1, MassTyped
    <3>3. Sold(orders', o) = Sold(orders, o)
      BY <3>1
    <3>4. Held(bot'.positions, o) + Leaving(todo', o) <= Held(bot.positions, o) + Leaving(todo, o)
      OBVIOUS
    <3> QED
      BY <3>2, <3>3, <3>4 DEF Mass
  <2>2. \A o \in OrderNumbers : orders[o].done <= orders'[o].done
    BY <1>1, SameOrders DEF OrdersGoOn, OrderNumbers
  <2>3. OrderNumbers \subseteq OrderNumbers'
    BY DEF OrderNumbers
  <2> QED
    BY <1>1, <2>1, <2>2, <2>3, HoldFollows
<1>3. NothingStored'
  BY <1>1 DEF NothingStored
<1>4. PendingSound'
  BY <1>1 DEF PendingSound
<1>5. Unrecorded'
  BY <1>1 DEF Unrecorded
<1> QED
  BY <1>2, <1>3, <1>4, <1>5 DEF Books

\* A loop that begins with what one fetch has missed.
LEMMA LookedUpBooks ==
  ASSUME IInv, Books, TypeOK', UNCHANGED <<orders, rows, dbPositions, webOrder>>,
         bot'.positions \in {bot.positions, <<>>}, pc' \in {"starting", "resolving"},
         todo' = Missing(bot'.pending), Sound(bot'.pending, rows),
         \A o \in Exchanges(bot'.pending) : o \in OrderNumbers => Awaited(o),
         Exchanges(bot'.pending) \subseteq OrderNumbers \cup {0}
  PROVE  Books'
<1>1. TypeOK
  BY DEF IInv
<1> DEFINE p == bot'.pending
           items == todo'
           w == Waiting'
<1>2. p \in Seq(PendingType)
  BY DEF TypeOK, BotType
<1>3. w = [i \in DOMAIN items |-> items[i].pending]
  BY DEF Waiting
<1>4. items = Missing(p) /\ Sound(p, rows) /\ Exchanges(p) \subseteq OrderNumbers \cup {0}
  OBVIOUS
<1> HIDE DEF p, items, w
<1>5. /\ Sound(w, rows) /\ Exchanges(w) \subseteq Exchanges(p)
      /\ \A i \in DOMAIN items : /\ items[i].type = "resolve"
                                 /\ IF items[i].pending.exchange = 0 THEN items[i].traded = 0
                                    ELSE /\ items[i].pending.exchange \in OrderNumbers
                                         /\ items[i].traded <= orders[items[i].pending.exchange].done
  BY <1>1, <1>2, <1>3, <1>4, MissingSound
<1>6. TradedOnly'
  BY <1>5 DEF items, TradedOnly, OrderNumbers
<1>7. \A o \in OrderNumbers : Awaited(o)' => Awaited(o)
  <2> SUFFICES ASSUME NEW o \in OrderNumbers, Awaited(o)' PROVE Awaited(o)
    OBVIOUS
  <2>1. CASE rows'[o].status \in {"none", "open"}
    BY <2>1 DEF Awaited
  <2>2. CASE o \in Exchanges(p)
    BY <2>2 DEF p
  <2>3. CASE o \in Exchanges(w)
    BY <1>5, <2>3 DEF p
  <2> QED
    BY <2>1, <2>2, <2>3 DEF Awaited, p, w
<1>8. \A o \in Nat : Held(bot'.positions, o) + Leaving(todo', o) <= Held(bot.positions, o) + Leaving(todo, o)
  <2> SUFFICES ASSUME NEW o \in Nat
               PROVE  Held(bot'.positions, o) + Leaving(todo', o) <= Held(bot.positions, o) + Leaving(todo, o)
    OBVIOUS
  <2>1. /\ bot \in BotType /\ pc \in Points /\ todo \in Seq(WorkAt(pc)) /\ orders \in Seq(OrderType)
        /\ bot' \in BotType /\ pc' \in Points /\ todo' \in Seq(WorkAt(pc'))
    BY <1>1 DEF TypeOK, Points
  <2>2. Held(bot.positions, o) \in Nat /\ Leaving(todo, o) \in Nat /\ Held(bot'.positions, o) \in Nat
    BY <2>1, MassTyped
  <2>3. Leaving(todo', o) = 0
    BY <2>1, TodoExits
  <2>4. Held(bot'.positions, o) <= Held(bot.positions, o)
    BY <2>2, HeldEmpty
  <2> QED
    BY <2>2, <2>3, <2>4
<1>9. \A i \in DOMAIN todo' : todo'[i].type \notin {"upsert", "record"}
  BY <1>5 DEF items
<1>10. Sound(Waiting', rows)
  BY <1>5 DEF w
<1> QED
  BY <1>6, <1>7, <1>8, <1>9, <1>10, FreshBooks

LEMMA StartBooks ==
  ASSUME IInv, Books, TypeOK', Start
  PROVE  Books'
<1>1. TypeOK /\ RowsKinded /\ PendingSound /\ NothingStored
  BY DEF IInv, Books
<1>2. /\ Exchanges(FetchOpenOrders) \subseteq OrderNumbers /\ Sound(FetchOpenOrders, rows)
      /\ \A o \in Exchanges(FetchOpenOrders) : rows[o].status = "open"
  BY <1>1, FetchLaws, FetchSound
<1>3. bot'.pending = FetchOpenOrders /\ bot'.positions = <<>>
  BY <1>1 DEF Start, InitialBot, FetchOpenPositions, NothingStored
<1>4. /\ pc' = "starting" /\ todo' = Missing(FetchOpenOrders)
      /\ UNCHANGED <<orders, rows, dbPositions, webOrder>>
  BY DEF Start, disk
<1>5. \A o \in Exchanges(bot'.pending) : Awaited(o)
  BY <1>2, <1>3 DEF Awaited
<1> HIDE DEF FetchOpenOrders
<1> QED
  BY <1>2, <1>3, <1>4, <1>5, LookedUpBooks

LEMMA BeginCycleBooks ==
  ASSUME IInv, Books, TypeOK', BeginCycle
  PROVE  Books'
<1>1. CASE UNCHANGED todo
  BY <1>1, WorkedOffBooks
<1>2. CASE todo' = Missing(bot.pending)
  <2>1. PendingSound /\ PendingKnown
    BY DEF IInv, Books
  <2>2. pc' = "resolving" /\ UNCHANGED <<bot, orders, rows, dbPositions, webOrder>>
    BY DEF BeginCycle, disk
  <2>3. \A o \in Exchanges(bot'.pending) : Awaited(o)
    BY <2>2 DEF Awaited
  <2> QED
    BY <1>2, <2>1, <2>2, <2>3, LookedUpBooks DEF PendingSound, PendingKnown
<1> QED
  BY <1>1, <1>2 DEF BeginCycle

LEMMA RunCycleBooks ==
  ASSUME IInv, Books, TypeOK', RunCycle
  PROVE  Books'
<1>1. TypeOK /\ bot \in BotType /\ FillsDue /\ PendingSound
  BY DEF IInv, TypeOK, Books
<1>2. UNCHANGED <<webOrder, orders, rows, dbPositions>> /\ todo = <<>>
  BY DEF RunCycle, disk
<1>3. PICK in \in CycleInputs :
        \E verdict \in IF in.guarding THEN Verdicts(bot) ELSE {Holding},
           expired \in IF in.guarding THEN Windows(bot) ELSE {NoId} :
          LET result == CycleOf(in.prices, in.guarding, verdict, expired, in.balances, in.gain)
          IN  \/ /\ result.ok
                 /\ bot' = result.bot
                 /\ todo' = Writes(bot.positions, result.bot.positions, result.actions)
                            \o <<[type |-> "poll"]>> \o result.actions
                 /\ signals' = <<>> /\ fills' = <<>> /\ due' = FALSE
                 /\ pc' = "effects"
              \/ /\ ~result.ok
                 /\ pc' = "idle"
                 /\ UNCHANGED <<bot, todo, signals, fills, due>>
  BY DEF RunCycle
<1>4. PICK verdict \in (IF in.guarding THEN Verdicts(bot) ELSE {Holding}),
           expired \in (IF in.guarding THEN Windows(bot) ELSE {NoId}) :
          LET result == CycleOf(in.prices, in.guarding, verdict, expired, in.balances, in.gain)
          IN  \/ /\ result.ok
                 /\ bot' = result.bot
                 /\ todo' = Writes(bot.positions, result.bot.positions, result.actions)
                            \o <<[type |-> "poll"]>> \o result.actions
                 /\ signals' = <<>> /\ fills' = <<>> /\ due' = FALSE
                 /\ pc' = "effects"
              \/ /\ ~result.ok
                 /\ pc' = "idle"
                 /\ UNCHANGED <<bot, todo, signals, fills, due>>
  BY <1>3
<1> DEFINE r == CycleOf(in.prices, in.guarding, verdict, expired, in.balances, in.gain)
<1>5. PICK m \in Nat, n \in Nat : Along(bot, m, n, r)
  BY <1>1, CycleOfAlong
<1>6. Keeps(bot, r, rows)
  BY <1>1, CycleOfKeeps
<1>7. \/ /\ r.ok /\ bot' = r.bot
         /\ todo' = Writes(bot.positions, r.bot.positions, r.actions) \o <<[type |-> "poll"]>> \o r.actions
         /\ pc' = "effects"
      \/ UNCHANGED <<bot, todo>> /\ pc' = "idle"
  BY <1>4
<1> HIDE DEF r
<1>8. CASE UNCHANGED <<bot, todo>> /\ pc' = "idle"
  <2>1. TodoShrinks
    BY <1>2, <1>8 DEF TodoShrinks
  <2> QED
    BY <1>1, <1>2, <1>8, <2>1, SameOrders, StillBooks
<1>9. CASE /\ r.ok /\ bot' = r.bot
           /\ todo' = Writes(bot.positions, r.bot.positions, r.actions) \o <<[type |-> "poll"]>> \o r.actions
           /\ pc' = "effects"
  <2>1. r.bot \in BotType /\ r.actions \in Seq(ActionType)
    BY <1>6 DEF Keeps, ResultType
  <2>2. /\ Within(r.bot.positions, bot.positions) /\ Sound(r.bot.pending, rows)
        /\ \A o \in Nat : Held(r.bot.positions, o) + Leaving(r.actions, o) <= Held(bot.positions, o)
    BY <1>1, <1>6, <1>9 DEF Keeps, PendingSound
  <2>3. /\ \A i \in DOMAIN todo' : todo'[i].type \notin {"upsert", "record"}
        /\ \A o : Leaving(todo', o) = Leaving(r.actions, o)
    <3> DEFINE old == bot.positions
               new == r.bot.positions
               acts == r.actions
               t == todo'
    <3>1. old \in Seq(PositionType) /\ new \in Seq(PositionType) /\ acts \in Seq(ActionType) /\ Within(new, old)
      BY <1>1, <2>1, <2>2 DEF BotType
    <3>2. t = Writes(old, new, acts) \o <<[type |-> "poll"]>> \o acts
      BY <1>9
    <3> HIDE DEF old, new, acts, t
    <3>3. Sells(t, acts)
      BY <3>1, <3>2, LeftLeaves
    <3> QED
      BY <3>3 DEF acts, t, Sells
  <2>4. \A o \in Nat : Held(bot'.positions, o) + Leaving(todo', o) <= Held(bot.positions, o) + Leaving(todo, o)
    <3> SUFFICES ASSUME NEW o \in Nat
                 PROVE  Held(bot'.positions, o) + Leaving(todo', o) <= Held(bot.positions, o) + Leaving(todo, o)
      OBVIOUS
    <3>1. Leaving(todo, o) = 0
      BY <1>2, NoActions
    <3>2. Held(bot.positions, o) \in Nat
      BY <1>1, HeldTyped DEF BotType
    <3> QED
      BY <1>9, <2>2, <2>3, <3>1, <3>2
  <2>5. Waiting' = <<>>
    BY <1>9 DEF Waiting
  <2>6. \A o \in OrderNumbers : Awaited(o)' => Awaited(o)
    <3>1. \A o \in OrderNumbers : o # 0
      BY <1>1, Orderly
    <3>2. Exchanges(r.bot.pending) \subseteq Exchanges(bot.pending) \cup {0}
      BY <1>5 DEF Along
    <3>3. Exchanges(Waiting') = {}
      BY <2>5 DEF Exchanges
    <3> QED
      BY <1>2, <1>9, <3>1, <3>2, <3>3 DEF Awaited
  <2>7. Sound(Waiting', rows) /\ TradedOnly'
    BY <1>9, <2>5, NoneSound DEF TradedOnly
  <2> QED
    BY <1>2, <1>9, <2>2, <2>3, <2>4, <2>6, <2>7, FreshBooks
<1> QED
  BY <1>7, <1>8, <1>9

-----------------------------------------------------------------------------
(* A fill recovered: its order is settled, and none of it comes again        *)

LEMMA RecoveredSettles ==
  ASSUME TypeOK, TypeOK', PendingSound, NEW o \in OrderNumbers, NEW s \in Seq(PendingType), Sound(s, rows),
         NEW client, client = rows[o].client,
         NEW I, I = {i \in DOMAIN s : s[i].client # client}, bot'.pending = Picked(s, I),
         pc \in {"starting", "resolving"}, todo # <<>>, Head(todo).pending.exchange = o,
         todo' = Tail(todo), pc' = pc, rows' = SetStatus(o, "filled")
  PROVE  ~Awaited(o)'
<1>1. /\ todo \in Seq(WorkAt(pc)) /\ 1 \in DOMAIN todo /\ Head(todo) = todo[1]
      /\ DOMAIN todo' = 1..Len(todo')
      /\ \A i \in DOMAIN todo' : i + 1 \in DOMAIN todo /\ todo'[i] = todo[i + 1] /\ i + 1 # 1
  BY TailLaws DEF TypeOK
<1>2. DOMAIN Waiting = DOMAIN todo /\ \A i \in DOMAIN todo : Waiting[i] = todo[i].pending
  BY DEF Waiting
<1>3. DOMAIN Waiting' = DOMAIN todo' /\ \A i \in DOMAIN todo' : Waiting'[i] = todo'[i].pending
  BY DEF Waiting
<1>4. Waiting[1].exchange = o /\ o # 0
  BY <1>1, <1>2, Orderly
<1>5. rows[o].status # "none"
  BY <1>1, <1>2, <1>4 DEF PendingSound, Sound, NamedOf
<1>6. rows'[o].status = "filled"
  BY <1>5, SetStatusCloses
<1>7. o \notin Exchanges(Waiting')
  <2> SUFFICES ASSUME NEW i \in DOMAIN Waiting', Waiting'[i].exchange = o PROVE FALSE
    BY DEF Exchanges
  <2>1. i + 1 \in DOMAIN Waiting /\ Waiting'[i] = Waiting[i + 1] /\ i + 1 # 1
    BY <1>1, <1>2, <1>3
  <2>2. 1 \in DOMAIN Waiting /\ Waiting[1].exchange # Waiting[i + 1].exchange
    BY <1>1, <1>2, <1>4, <2>1 DEF PendingSound, Sound, Apart
  <2> QED
    BY <1>4, <2>1, <2>2
<1>8. o \notin Exchanges(bot'.pending)
  <2> SUFFICES ASSUME NEW k \in DOMAIN Picked(s, I), Picked(s, I)[k].exchange = o PROVE FALSE
    BY DEF Exchanges
  <2>1. I \in SUBSET DOMAIN s
    OBVIOUS
  <2>2. PICK i \in I : Picked(s, I)[k] = s[i]
    BY <2>1, PickedLaws
  <2>3. i \in DOMAIN s /\ s[i].client # client /\ s[i].exchange = o
    BY <2>2
  <2>4. s[i].client = rows[o].client
    BY <1>4, <2>3 DEF Sound, NamedOf
  <2> QED
    BY <2>3, <2>4
<1> QED
  BY <1>6, <1>7, <1>8 DEF Awaited

LEMMA RecoverFillBooks ==
  ASSUME IInv, Books, TypeOK', RecoverFill
  PROVE  Books'
<1> DEFINE q == Head(todo).pending
           traded == Head(todo).traded
           fill == [order |-> q.exchange, client |-> q.client, pair |-> q.pair, quantity |-> traded]
           result == FillConfirmed(bot, fill)
           s == result.bot.pending
           I == {i \in DOMAIN s : s[i].client # q.client}
           kept == Picked(s, I)
<1>1. /\ TypeOK /\ bot \in BotType /\ pc \in {"starting", "resolving"} /\ todo # <<>>
      /\ HeldOnce /\ NothingStored /\ PendingSound /\ TradedOnly /\ Unrecorded
  BY DEF IInv, TypeOK, RecoverFill, Books
<1>2. Head(todo) = todo[1] /\ 1 \in DOMAIN todo /\ Head(todo) \in ResolveType
  BY <1>1, TodoLaws, WorkIs
<1>3. fill \in FillType /\ traded \in Nat /\ q \in PendingType
  BY <1>2 DEF ResolveType, PendingType, FillType
<1>4. /\ traded > 0
      /\ \/ /\ bot' = [result.bot EXCEPT !.pending = kept]
            /\ todo' = Tail(todo) /\ rows' = SetStatus(q.exchange, "filled") /\ UNCHANGED pc
         \/ pc' = "idle" /\ todo' = <<>> /\ UNCHANGED <<bot, rows>>
      /\ UNCHANGED <<webOrder, orders, dbPositions>>
  BY DEF RecoverFill, WithoutClient, Keeping
<1>5. OrdersGoOn /\ TodoShrinks
  BY <1>1, <1>4, SameOrders DEF TodoShrinks
<1>6. CASE pc' = "idle" /\ todo' = <<>> /\ UNCHANGED <<bot, rows>>
  BY <1>4, <1>5, <1>6, StillBooks
<1>7. CASE /\ bot' = [result.bot EXCEPT !.pending = kept]
           /\ todo' = Tail(todo) /\ rows' = SetStatus(q.exchange, "filled") /\ UNCHANGED pc
  <2>1. PICK e \in OrderNumbers : e = q.exchange /\ traded <= orders[e].done
    <3>1. IF todo[1].pending.exchange = 0 THEN todo[1].traded = 0
          ELSE /\ todo[1].pending.exchange \in OrderNumbers
               /\ todo[1].traded <= orders[todo[1].pending.exchange].done
      BY <1>1, <1>2 DEF TradedOnly
    <3>2. q.exchange = todo[1].pending.exchange /\ traded = todo[1].traded
      BY <1>2
    <3>3. traded # 0
      <4>1. traded \in Nat /\ traded > 0
        BY <1>3 DEF RecoverFill
      <4> HIDE DEF traded
      <4> QED
        BY <4>1
    <3> HIDE DEF q, traded
    <3> QED
      BY <3>1, <3>2, <3>3
  <2>2. e \in Exchanges(Waiting) /\ q.client = rows[e].client
    <3>1. DOMAIN Waiting = DOMAIN todo /\ Waiting[1] = q
      BY <1>1, <1>2 DEF Waiting
    <3>2. e # 0
      BY <1>1, <2>1, Orderly
    <3> QED
      BY <1>1, <1>2, <2>1, <3>1, <3>2 DEF PendingSound, Sound, NamedOf, Exchanges
  <2>3. fill.order = e /\ fill.quantity = traded
    BY <2>1
  <2> HIDE DEF fill
  <2>4. \A o \in Nat : /\ result.bot \in BotType /\ Sound(s, rows)
                       /\ Held(result.bot.positions, o)
                            <= Held(bot.positions, o) + IF o = e THEN traded ELSE 0
    BY <1>1, <1>3, <2>3, FillHolds DEF PendingSound
  <2>5. Exchanges(s) \subseteq Exchanges(bot.pending) \cup {0}
    BY <1>1, <1>3, FillFollows DEF Follows
  <2>6. result.bot \in BotType /\ Sound(s, rows) /\ s \in Seq(PendingType)
    <3>1. 0 \in Nat
      OBVIOUS
    <3>2. result.bot \in BotType /\ Sound(s, rows)
      BY <2>4, <3>1
    <3> QED
      BY <3>2 DEF BotType
  <2> HIDE DEF result, q, traded
  <2>7. bot'.pending = kept /\ bot'.positions = result.bot.positions
    BY <1>7, <2>6 DEF BotType
  <2> HIDE DEF s
  <2>8. Sound(kept, rows) /\ Exchanges(kept) \subseteq Exchanges(bot.pending) \cup {0}
    <3>1. I \in SUBSET DOMAIN s
      OBVIOUS
    <3> HIDE DEF I
    <3> QED
      BY <2>5, <2>6, <3>1, KeptSound, WithoutLaws
  <2>9. RowsClose
    BY <1>1, <1>7, SetStatusCloses
  <2>10. NothingStored' /\ PendingSound' /\ TradedOnly' /\ Unrecorded'
    BY <1>4, <1>5, <2>7, <2>8, <2>9, QuietRest
  <2>11. ~Awaited(e)'
    <3> DEFINE client == q.client
    <3>1. I = {i \in DOMAIN s : s[i].client # client} /\ client = rows[e].client
      BY <2>2
    <3>2. Head(todo).pending.exchange = e /\ rows' = SetStatus(e, "filled") /\ bot'.pending = Picked(s, I)
      BY <1>7, <2>1, <2>7 DEF q
    <3> HIDE DEF I, client
    <3> QED
      BY <1>1, <1>7, <2>1, <2>6, <3>1, <3>2, RecoveredSettles
  <2>12. ASSUME NEW o \in Nat
         PROVE  /\ Mass(o) \in Nat /\ Mass(o)' \in Nat
                /\ Mass(o)' <= Mass(o) + IF o = e THEN traded ELSE 0
    <3>1. /\ bot \in BotType /\ pc \in Points /\ todo \in Seq(WorkAt(pc)) /\ orders \in Seq(OrderType)
          /\ bot' \in BotType /\ pc' \in Points /\ todo' \in Seq(WorkAt(pc')) /\ orders' = orders
      BY <1>1, <1>4 DEF TypeOK, Points
    <3>2. /\ Held(bot.positions, o) \in Nat /\ Leaving(todo, o) \in Nat /\ Sold(orders, o) \in Nat
          /\ Held(bot'.positions, o) \in Nat /\ Leaving(todo', o) \in Nat /\ Sold(orders', o) \in Nat
      BY <3>1, MassTyped
    <3>3. Held(bot'.positions, o) <= Held(bot.positions, o) + IF o = e THEN traded ELSE 0
      BY <2>4, <2>7
    <3>4. Leaving(todo', o) <= Leaving(todo, o)
      BY <1>1, <1>5, TodoLeft
    <3>5. Sold(orders', o) = Sold(orders, o)
      BY <3>1
    <3>6. traded \in Nat
      BY <1>3
    <3> QED
      BY <3>2, <3>3, <3>4, <3>5, <3>6 DEF Mass
  <2>13. OrderNumbers' = OrderNumbers /\ e \in Nat /\ \A o \in OrderNumbers : o # 0 /\ orders'[o] = orders[o]
    BY <1>1, <1>4, <2>1, Orderly DEF OrderNumbers
  <2>14. \A o \in OrderNumbers : o # e => (Awaited(o)' => Awaited(o))
    <3>1. Exchanges(Waiting') \subseteq Exchanges(Waiting)
      BY <1>1, <1>5, WaitingLeft DEF PendingSound
    <3>2. \A k \in DOMAIN rows : rows'[k].status \in {"none", "open"} => rows[k].status \in {"none", "open"}
      BY <2>9, ClosedRows
    <3>3. DOMAIN rows = OrderNumbers
      BY <1>1, Orderly
    <3> QED
      BY <2>7, <2>8, <2>13, <3>1, <3>2, <3>3 DEF Awaited
  <2>15. ASSUME NEW o \in Nat
         PROVE  IF o \in OrderNumbers
                THEN Mass(o)' <= orders[o].done /\ (Awaited(o)' => Mass(o)' = 0)
                ELSE Mass(o)' = 0
    <3>1. IF o \in OrderNumbers THEN Mass(o) <= orders[o].done /\ (Awaited(o) => Mass(o) = 0)
          ELSE Mass(o) = 0
      BY <1>1 DEF HeldOnce
    <3>2. \A k \in OrderNumbers : orders[k].done \in Nat
      BY <1>1, Orderly DEF OrderType
    <3>3. Awaited(e)
      BY <2>2 DEF Awaited
    <3>4. /\ Mass(o) \in Nat /\ Mass(o)' \in Nat
          /\ Mass(o)' <= Mass(o) + IF o = e THEN traded ELSE 0
      BY <2>12
    <3> HIDE DEF Mass, Awaited
    <3>5. CASE o = e
      <4>1. Mass(e) = 0
        BY <2>1, <3>1, <3>3, <3>5
      <4>2. Mass(e)' <= traded /\ traded \in Nat /\ Mass(e)' \in Nat
        BY <1>3, <3>4, <3>5, <4>1
      <4>3. Mass(e)' <= orders[e].done
        BY <2>1, <3>2, <4>2
      <4> QED
        BY <2>1, <2>11, <3>5, <4>3
    <3>6. CASE o # e
      <4>1. Mass(o)' <= Mass(o)
        BY <3>4, <3>6
      <4> QED
        BY <2>14, <3>1, <3>2, <3>4, <3>6, <4>1
    <3> QED
      BY <3>5, <3>6
  <2>16. HeldOnce'
    BY <2>13, <2>15 DEF HeldOnce
  <2> QED
    BY <2>10, <2>16 DEF Books
<1> QED
  BY <1>4, <1>6, <1>7

-----------------------------------------------------------------------------
(* A row written for an order that has none, and an order placed             *)

NoRecord(t) == \A i \in DOMAIN t : t[i].type # "record"

LEMMA RowBooks ==
  ASSUME NEW o \in OrderNumbers, NEW row, IInv, Books, TypeOK', rows[o].status = "none",
         row.position.source \in {"none", "sequence"}, rows' = [rows EXCEPT ![o] = row],
         bot' = bot, orders' = orders, dbPositions' = dbPositions, TodoShrinks, pc' \in {"idle", "effects"},
         webOrder' \in {0, webOrder} \ {o}, NoRecord(todo')
  PROVE  Books'
<1>1. TypeOK /\ HeldOnce /\ NothingStored /\ PendingSound /\ Unrecorded
  BY DEF IInv, Books
<1>2. DOMAIN rows = OrderNumbers /\ DOMAIN rows' = OrderNumbers /\ OrderNumbers' = OrderNumbers
      /\ \A k \in OrderNumbers : rows'[k] = IF k = o THEN row ELSE rows[k]
  <2>1. DOMAIN rows = OrderNumbers
    BY <1>1, Orderly
  <2> QED
    BY <2>1 DEF OrderNumbers
<1>3. /\ \A k : Leaving(todo', k) <= Leaving(todo, k)
      /\ \A i \in DOMAIN todo' : todo'[i].type = "reap" \/ \E j \in DOMAIN todo : todo'[i] = todo[j]
  BY <1>1, TodoLeft
<1>4. Waiting' = <<>>
  BY DEF Waiting
<1>5. HeldOnce'
  <2>1. ASSUME NEW k \in Nat PROVE Mass(k)' <= Mass(k)
    <3>1. /\ bot \in BotType /\ pc \in Points /\ todo \in Seq(WorkAt(pc)) /\ orders \in Seq(OrderType)
          /\ pc' \in Points /\ todo' \in Seq(WorkAt(pc'))
      BY <1>1 DEF TypeOK, Points
    <3>2. /\ Held(bot.positions, k) \in Nat /\ Leaving(todo, k) \in Nat /\ Sold(orders, k) \in Nat
          /\ Leaving(todo', k) \in Nat /\ Leaving(todo', k) <= Leaving(todo, k)
      BY <1>3, <3>1, MassTyped
    <3>3. Mass(k) = Held(bot.positions, k) + Leaving(todo, k) + Sold(orders, k)
          /\ Mass(k)' = Held(bot.positions, k) + Leaving(todo', k) + Sold(orders, k)
      BY DEF Mass
    <3> QED
      BY <3>2, <3>3
  <2>2. \A k \in OrderNumbers : orders[k].done <= orders'[k].done
    BY <1>1, SameOrders DEF OrdersGoOn, OrderNumbers
  <2>3. \A k \in OrderNumbers : Awaited(k)' => Awaited(k)
    BY <1>2, <1>4 DEF Awaited, Exchanges
  <2> QED
    BY <1>1, <1>2, <2>1, <2>2, <2>3, HoldFollows
<1>6. NothingStored'
  BY <1>1, <1>3 DEF NothingStored
<1>7. PendingSound'
  <2>1. RowsKeep(rows, rows')
    BY <1>2 DEF RowsKeep
  <2> QED
    BY <1>1, <1>2, <1>4, <2>1, SoundKept, NoneSound DEF PendingSound
<1>8. TradedOnly'
  BY DEF TradedOnly
<1>9. Unrecorded'
  <2>1. webOrder' # 0 => webOrder \in OrderNumbers /\ rows'[webOrder'] = rows[webOrder]
    BY <1>1, <1>2 DEF TypeOK
  <2> QED
    BY <1>1, <2>1 DEF Unrecorded, NoRecord
<1> QED
  BY <1>5, <1>6, <1>7, <1>8, <1>9 DEF Books

LEMMA WebRecordBooks ==
  ASSUME IInv, Books, TypeOK', WebRecord
  PROVE  Books'
<1> DEFINE row == [NoRow EXCEPT !.status = "open", !.kind = "cc_api",
                                !.client = OrderId(webOrder), !.base = OrderQuantity]
<1>1. /\ TypeOK /\ Unrecorded /\ rows' = [rows EXCEPT ![webOrder] = row] /\ webOrder' = 0 /\ webOrder # 0
      /\ pc = "idle" /\ UNCHANGED <<pc, bot, todo, orders, dbPositions>>
  BY DEF IInv, Books, WebRecord, Web
<1>2. row.position = NoId
  BY DEF NoRow
<1>3. NoId.source = "none"
  BY DEF NoId
<1> HIDE DEF row
<1>4. PICK o \in OrderNumbers : o = webOrder
  BY <1>1 DEF TypeOK
<1>5. rows[o].status = "none" /\ rows' = [rows EXCEPT ![o] = row]
  BY <1>1, <1>4 DEF Unrecorded
<1>6. todo' = <<>>
  BY <1>1, IdleTodo
<1>7. /\ row.position.source \in {"none", "sequence"} /\ TodoShrinks /\ NoRecord(todo')
      /\ webOrder' \in {0, webOrder} \ {o} /\ pc' \in {"idle", "effects"}
  <2>1. o # 0
    BY <1>1, Orderly
  <2> QED
    BY <1>1, <1>2, <1>3, <1>6, <2>1 DEF TodoShrinks, NoRecord
<1> QED
  BY <1>1, <1>5, <1>7, RowBooks

LEMMA RecordOrderBooks ==
  ASSUME IInv, Books, TypeOK', RecordOrder
  PROVE  Books'
<1> DEFINE item == Head(todo)
           pending == PendingFor(item.of)
           row == IF pending = <<>>
                  THEN [NoRow EXCEPT !.status = "open", !.kind = "position_entry",
                                     !.client = OrderId(item.order), !.base = item.of.quantity]
                  ELSE [status |-> "open", kind |-> pending[1].kind, client |-> pending[1].client,
                        position |-> pending[1].position, base |-> pending[1].base,
                        quote |-> pending[1].quote]
           I == {i \in DOMAIN bot.pending : bot.pending[i].client = item.of.id}
           known == Picked(bot.pending, I)
<1>1. /\ TypeOK /\ pc = "effects" /\ todo # <<>> /\ item.type = "record" /\ bot \in BotType
      /\ Unrecorded /\ PendingSound
  BY DEF IInv, Books, TypeOK, RecordOrder, Doing
<1>2. UNCHANGED <<orders, dbPositions>>
  BY DEF RecordOrder
<1>3. \/ /\ rows' = [rows EXCEPT ![item.order] = row] /\ ItemDone
         /\ UNCHANGED <<bot, webOrder>>
      \/ Down /\ UNCHANGED rows
  BY DEF RecordOrder
<1>4. CASE Down /\ UNCHANGED rows
  BY <1>2, <1>4, DownBooks
<1>5. CASE /\ rows' = [rows EXCEPT ![item.order] = row] /\ ItemDone
           /\ UNCHANGED <<bot, webOrder>>
  <2>1. item = todo[1] /\ 1 \in DOMAIN todo
        /\ \A i \in DOMAIN Tail(todo) : i + 1 \in DOMAIN todo /\ Tail(todo)[i] = todo[i + 1]
    BY <1>1, TodoLaws
  <2>2. PICK o \in OrderNumbers : o = item.order /\ o # webOrder /\ rows[o].status = "none"
    BY <1>1, <2>1 DEF Unrecorded
  <2>3. pending = IF item.of.id = NoId \/ known = <<>> THEN <<>> ELSE <<known[1]>>
    BY DEF PendingFor, Keeping
  <2>4. known # <<>> => \E i \in DOMAIN bot.pending : known[1] = bot.pending[i]
    <3>1. bot.pending \in Seq(PendingType) /\ I \in SUBSET DOMAIN bot.pending
      BY <1>1 DEF BotType
    <3> HIDE DEF I
    <3>2. /\ known \in Seq(PendingType)
          /\ \A k \in DOMAIN known : \E i \in I : known[k] = bot.pending[i]
      BY <3>1, PickedLaws
    <3> HIDE DEF known
    <3>3. known # <<>> => 1 \in DOMAIN known
      BY <3>2
    <3> QED
      BY <3>1, <3>2, <3>3
  <2> HIDE DEF known
  <2>5. pending # <<>> => pending[1].position.source \in {"none", "sequence"}
    <3>1. \A i \in DOMAIN bot.pending : bot.pending[i].position.source \in {"none", "sequence"}
      BY <1>1 DEF PendingSound, Sound, NamedOf
    <3> HIDE DEF item
    <3> QED
      BY <2>3, <2>4, <3>1
  <2> HIDE DEF pending
  <2>6. row.position.source \in {"none", "sequence"}
    <3>1. CASE pending = <<>>
      <4>1. row.position = NoId
        BY <3>1 DEF NoRow
      <4> QED
        BY <4>1 DEF NoId
    <3>2. CASE pending # <<>>
      <4>1. row.position = pending[1].position
        BY <3>2
      <4> QED
        BY <2>5, <3>2, <4>1
    <3> QED
      BY <3>1, <3>2
  <2> HIDE DEF row
  <2>7. rows' = [rows EXCEPT ![o] = row]
    BY <1>5, <2>2
  <2>8. todo' = Tail(todo) /\ (pc' = pc \/ (pc' = "idle" /\ todo' = <<>>))
    BY <1>5 DEF ItemDone
  <2>9. TodoShrinks /\ pc' \in {"idle", "effects"}
    BY <1>1, <2>8 DEF TodoShrinks
  <2>10. \A i \in DOMAIN todo' : todo'[i].type # "record"
    <3> SUFFICES ASSUME NEW i \in DOMAIN todo', todo'[i].type = "record" PROVE FALSE
      OBVIOUS
    <3>1. i + 1 \in DOMAIN todo /\ todo[i + 1].type = "record"
      BY <2>1, <2>8
    <3>2. i + 1 = 1
      BY <1>1, <3>1 DEF Unrecorded
    <3>3. i \in Nat /\ i # 0
      <4>1. todo' \in Seq(WorkAt(pc'))
        BY DEF TypeOK
      <4> QED
        BY <4>1
    <3> QED
      BY <3>2, <3>3
  <2>11. NoRecord(todo') /\ webOrder' \in {0, webOrder} \ {o}
    BY <1>5, <2>2, <2>10 DEF NoRecord
  <2>12. bot' = bot /\ orders' = orders /\ dbPositions' = dbPositions
    BY <1>2, <1>5
  <2> QED
    BY <2>2, <2>6, <2>7, <2>9, <2>11, <2>12, RowBooks
<1> QED
  BY <1>3, <1>4, <1>5

\* An order placed takes over what an exit held back, and nothing else.
LEMMA PlacedBooks ==
  ASSUME NEW x \in OrderType, IInv, Books, TypeOK', orders' = Append(orders, x), rows' = Append(rows, NoRow),
         bot' = bot, dbPositions' = dbPositions, pc' \in {"idle", "effects"},
         \A o \in Nat : Leaving(todo', o) + SoldWeight(x, o) <= Leaving(todo, o),
         \A i \in DOMAIN todo' : todo'[i].type # "upsert"
  PROVE  HeldOnce' /\ NothingStored' /\ PendingSound' /\ TradedOnly'
<1>1. TypeOK /\ HeldOnce /\ NothingStored /\ PendingSound
  BY DEF IInv, Books
<1>2. /\ OrderNumbers' = OrderNumbers \cup {Len(orders) + 1} /\ Len(orders) + 1 \notin OrderNumbers
      /\ \A o \in OrderNumbers : orders'[o] = orders[o] /\ rows'[o] = rows[o]
      /\ rows'[Len(orders) + 1] = NoRow /\ DOMAIN rows' = OrderNumbers' /\ DOMAIN rows = OrderNumbers
  BY <1>1, PlacedLaws, Orderly
<1>3. Waiting' = <<>>
  BY DEF Waiting
<1>4. ASSUME NEW o \in Nat PROVE Mass(o)' <= Mass(o)
  <2>1. /\ bot \in BotType /\ pc \in Points /\ todo \in Seq(WorkAt(pc)) /\ orders \in Seq(OrderType)
        /\ pc' \in Points /\ todo' \in Seq(WorkAt(pc'))
    BY <1>1 DEF TypeOK, Points
  <2>2. /\ Held(bot.positions, o) \in Nat /\ Leaving(todo, o) \in Nat /\ Sold(orders, o) \in Nat
        /\ Leaving(todo', o) \in Nat
    BY <2>1, MassTyped
  <2>3. Sold(orders', o) = Sold(orders, o) + SoldWeight(x, o) /\ SoldWeight(x, o) \in Nat
    BY <2>1, SoldAppend
  <2>4. Leaving(todo', o) + SoldWeight(x, o) <= Leaving(todo, o)
    OBVIOUS
  <2>5. /\ Mass(o) = Held(bot.positions, o) + Leaving(todo, o) + Sold(orders, o)
        /\ Mass(o)' = Held(bot.positions, o) + Leaving(todo', o) + Sold(orders', o)
    BY DEF Mass
  <2> QED
    BY <2>2, <2>3, <2>4, <2>5
<1>5. HeldOnce'
  <2>1. \A o \in OrderNumbers : orders[o].done <= orders'[o].done
    <3>1. \A o \in OrderNumbers : orders[o].done \in Nat
      BY <1>1, Orderly DEF OrderType
    <3> QED
      BY <1>2, <3>1
  <2>2. \A o \in OrderNumbers : Awaited(o)' => Awaited(o)
    BY <1>2, <1>3 DEF Awaited, Exchanges
  <2> QED
    BY <1>1, <1>2, <1>4, <2>1, <2>2, HoldFollows
<1>6. NothingStored'
  BY <1>1 DEF NothingStored
<1>7. PendingSound'
  <2>1. RowsKeep(rows, rows')
    BY <1>2 DEF RowsKeep
  <2>2. NoRow.position.source = "none"
    BY DEF NoRow, NoId
  <2>3. \A o \in DOMAIN rows' : rows'[o].position.source \in {"none", "sequence"}
    BY <1>1, <1>2, <2>2 DEF PendingSound
  <2> QED
    BY <1>1, <1>3, <2>1, <2>3, SoundKept, NoneSound DEF PendingSound
<1>8. TradedOnly'
  BY DEF TradedOnly
<1> QED
  BY <1>5, <1>6, <1>7, <1>8

LEMMA WebPlaceBooks ==
  ASSUME IInv, Books, TypeOK', NEW w \in WebOrders, WebPlace(w.pair, w.side)
  PROVE  Books'
<1> DEFINE x == NewOrder(w.pair, w.side, OrderQuantity, "api", NoId)
<1>1. /\ TypeOK /\ Unrecorded /\ pc = "idle" /\ orders' = Append(orders, x) /\ rows' = Append(rows, NoRow)
      /\ webOrder' \in {0, Len(orders) + 1} /\ pc' = pc /\ bot' = bot /\ todo' = todo
      /\ dbPositions' = dbPositions
  BY DEF IInv, Books, WebPlace, Web
<1>2. x \in OrderType /\ x.closes = NoId
  BY CoreAssumption, IdsTyped DEF NewOrder, OrderType
<1>3. \A o \in Nat : SoldWeight(x, o) = 0
  <2>1. \A o \in Nat : NoId # FillId(o)
    BY DEF NoId, FillId
  <2> HIDE DEF x
  <2> QED
    BY <1>2, <2>1 DEF SoldWeight
<1> HIDE DEF x
<1>4. todo' = <<>> /\ todo = <<>>
  BY <1>1, IdleTodo
<1>5. \A o \in Nat : Leaving(todo', o) + SoldWeight(x, o) <= Leaving(todo, o)
  BY <1>3, <1>4, NoActions
<1>6. \A i \in DOMAIN todo' : todo'[i].type # "upsert"
  BY <1>4
<1>7. HeldOnce' /\ NothingStored' /\ PendingSound' /\ TradedOnly'
  BY <1>1, <1>2, <1>5, <1>6, PlacedBooks
<1>8. Unrecorded'
  <2>1. rows'[Len(orders) + 1] = NoRow
    BY <1>1, <1>2, PlacedLaws
  <2>2. NoRow.status = "none"
    BY DEF NoRow
  <2>3. webOrder' # 0 => rows'[webOrder'].status = "none"
    <3>1. webOrder' = 0 \/ webOrder' = Len(orders) + 1
      BY <1>1
    <3> HIDE DEF NoRow
    <3> QED
      BY <2>1, <2>2, <3>1
  <2> QED
    BY <1>4, <2>3 DEF Unrecorded
<1> QED
  BY <1>7, <1>8 DEF Books

LEMMA PlaceEffectBooks ==
  ASSUME IInv, Books, TypeOK', PlaceEffect
  PROVE  Books'
<1> DEFINE a == Head(todo)
           x == OrderOf(a)
           n == Len(orders) + 1
           item == [type |-> "record", order |-> n, of |-> a]
           rest == Tail(todo)
<1>1. /\ TypeOK /\ pc = "effects" /\ todo # <<>> /\ a.type \in {"place", "close"}
      /\ NothingStored /\ Unrecorded
  BY DEF IInv, Books, PlaceEffect, Doing
<1>2. a \in ActionType /\ a = todo[1]
  BY StopPlaced
<1>3. /\ orders' = Append(orders, x) /\ rows' = Append(rows, NoRow)
      /\ \/ a.type = "place" /\ todo' = <<item>> \o rest /\ pc' = pc
         \/ ItemDone
      /\ bot' = bot /\ webOrder' = webOrder /\ dbPositions' = dbPositions
  BY DEF PlaceEffect
<1>4. x \in OrderType /\ x.quantity = a.quantity /\ x.closes = IF a.type = "close" THEN a.id ELSE NoId
  BY <1>2, IdsTyped DEF OrderOf, NewOrder, OrderType, ActionType
<1>5. \A o \in Nat : SoldWeight(x, o) = ExitWeight(a, o)
  <2>1. \A o \in Nat : NoId # FillId(o)
    BY DEF NoId, FillId
  <2> HIDE DEF x, a
  <2> QED
    BY <1>1, <1>4, <2>1 DEF SoldWeight, ExitWeight
<1>6. /\ todo \in Seq(EffectType) /\ rest \in Seq(EffectType) /\ Len(rest) = Len(todo) - 1
      /\ \A i \in DOMAIN rest : i + 1 \in DOMAIN todo /\ rest[i] = todo[i + 1]
  <2>1. todo \in Seq(EffectType)
    BY <1>1, WorkIs DEF TypeOK
  <2> QED
    BY <1>1, <2>1, TailLaws
<1>7. item \in EffectType /\ item.type = "record" /\ item.order = n
  <2>1. n \in Nat
    BY <1>1, Orderly
  <2> HIDE DEF n
  <2> QED
    BY <1>2, <2>1 DEF EffectType
<1>8. n \notin OrderNumbers /\ n # 0 /\ rows'[n] = NoRow /\ n \in OrderNumbers'
      /\ (\A o \in OrderNumbers : rows'[o] = rows[o]) /\ OrderNumbers \subseteq OrderNumbers'
  BY <1>1, <1>3, <1>4, PlacedLaws, Orderly
<1> HIDE DEF x, a, item, rest
<1>9. CASE a.type = "place" /\ todo' = <<item>> \o rest /\ pc' = pc
  <2> DEFINE t == <<item>> \o rest
  <2>1. /\ t \in Seq(EffectType) /\ t[1] = item /\ Len(t) = Len(rest) + 1
        /\ \A i \in DOMAIN t : i \in Nat /\ (i = 1 \/ (i # 1 /\ i - 1 \in DOMAIN rest /\ t[i] = rest[i - 1]))
        /\ \A i \in DOMAIN rest : t[i + 1] = rest[i]
    BY <1>6, <1>7
  <2>2. todo' = t
    BY <1>9
  <2> HIDE DEF t
  <2>3. ASSUME NEW i \in DOMAIN t, i # 1
        PROVE  i \in DOMAIN todo /\ t[i] = todo[i]
    <3>1. i \in Nat /\ i - 1 \in DOMAIN rest /\ t[i] = rest[i - 1]
      BY <2>1, <2>3
    <3>2. (i - 1) + 1 \in DOMAIN todo /\ rest[i - 1] = todo[(i - 1) + 1]
      BY <1>6, <3>1
    <3>3. (i - 1) + 1 = i
      BY <3>1
    <3> QED
      BY <3>1, <3>2, <3>3
  <2>4. \A o \in Nat : Leaving(t, o) + SoldWeight(x, o) <= Leaving(todo, o)
    <3> SUFFICES ASSUME NEW o \in Nat PROVE Leaving(t, o) + SoldWeight(x, o) <= Leaving(todo, o)
      OBVIOUS
    <3>1. ExitList(t) /\ ExitList(rest) /\ ExitList(todo) /\ Leaving(rest, o) \in Nat
      BY <1>6, <2>1, EffectsExit
    <3>2. Len(rest) \in Nat /\ Len(todo) \in Nat
      BY <1>6
    <3>3. Leaving(t, o) = ExitWeight(t[1], o) + Leaving(rest, o)
      BY <2>1, <3>1, LeavingTail
    <3>4. Len(todo) = Len(rest) + 1 /\ \A i \in DOMAIN rest : rest[i] = todo[i + 1]
      BY <1>6, <3>2
    <3>5. Leaving(todo, o) = ExitWeight(todo[1], o) + Leaving(rest, o) /\ ExitWeight(todo[1], o) \in Nat
      BY <3>1, <3>4, LeavingTail
    <3>6. ExitWeight(t[1], o) = 0 /\ SoldWeight(x, o) = ExitWeight(todo[1], o)
      BY <1>2, <1>5, <1>7, <2>1 DEF ExitWeight
    <3> QED
      BY <3>1, <3>3, <3>5, <3>6
  <2>5. \A i \in DOMAIN t : t[i].type # "upsert"
    BY <1>1, <1>7, <2>1, <2>3 DEF NothingStored
  <2>6. HeldOnce' /\ NothingStored' /\ PendingSound' /\ TradedOnly'
    BY <1>1, <1>3, <1>4, <1>9, <2>2, <2>4, <2>5, PlacedBooks
  <2>7. Unrecorded'
    <3>1. webOrder' # 0 => rows'[webOrder'].status = "none"
      BY <1>1, <1>3, <1>8 DEF Unrecorded, TypeOK
    <3>2. ASSUME NEW i \in DOMAIN t, t[i].type = "record"
          PROVE  /\ i = 1 /\ t[i].order \in OrderNumbers' /\ t[i].order # webOrder'
                 /\ rows'[t[i].order].status = "none"
      <4>1. i = 1
        <5> SUFFICES ASSUME i # 1 PROVE FALSE
          OBVIOUS
        <5> QED
          BY <1>1, <2>3, <3>2 DEF Unrecorded
      <4>2. t[i].order = n
        BY <1>7, <2>1, <4>1
      <4>3. webOrder' # n
        BY <1>1, <1>3, <1>8 DEF TypeOK
      <4>4. NoRow.status = "none"
        BY DEF NoRow
      <4> HIDE DEF n
      <4> QED
        BY <1>8, <4>1, <4>2, <4>3, <4>4
    <3> QED
      BY <2>2, <3>1, <3>2 DEF Unrecorded
  <2> QED
    BY <2>6, <2>7 DEF Books
<1>10. CASE ItemDone
  <2>1. todo' = rest /\ pc' \in {"idle", "effects"}
    BY <1>1, <1>10 DEF ItemDone, rest
  <2>2. \A o \in Nat : Leaving(rest, o) + SoldWeight(x, o) <= Leaving(todo, o)
    <3> SUFFICES ASSUME NEW o \in Nat PROVE Leaving(rest, o) + SoldWeight(x, o) <= Leaving(todo, o)
      OBVIOUS
    <3>1. ExitList(rest) /\ ExitList(todo) /\ Leaving(rest, o) \in Nat
      BY <1>6, EffectsExit
    <3>2. Len(rest) \in Nat /\ Len(todo) \in Nat
      BY <1>6
    <3>3. Len(todo) = Len(rest) + 1 /\ \A i \in DOMAIN rest : rest[i] = todo[i + 1]
      BY <1>6, <3>2
    <3>4. Leaving(todo, o) = ExitWeight(todo[1], o) + Leaving(rest, o) /\ ExitWeight(todo[1], o) \in Nat
      BY <3>1, <3>3, LeavingTail
    <3>5. SoldWeight(x, o) = ExitWeight(todo[1], o)
      BY <1>2, <1>5
    <3> QED
      BY <3>1, <3>4, <3>5
  <2>3. \A i \in DOMAIN rest : rest[i].type # "upsert"
    BY <1>1, <1>6 DEF NothingStored
  <2>4. HeldOnce' /\ NothingStored' /\ PendingSound' /\ TradedOnly'
    BY <1>1, <1>3, <1>4, <2>1, <2>2, <2>3, PlacedBooks
  <2>5. Unrecorded'
    <3>1. webOrder' # 0 => rows'[webOrder'].status = "none"
      BY <1>1, <1>3, <1>8 DEF Unrecorded, TypeOK
    <3>2. \A i \in DOMAIN rest : rest[i].type # "record"
      <4> SUFFICES ASSUME NEW i \in DOMAIN rest, rest[i].type = "record" PROVE FALSE
        OBVIOUS
      <4>1. i + 1 \in DOMAIN todo /\ todo[i + 1].type = "record" /\ i \in Nat /\ i # 0
        BY <1>6
      <4>2. i + 1 = 1
        BY <1>1, <4>1 DEF Unrecorded
      <4> QED
        BY <4>1, <4>2
    <3> QED
      BY <2>1, <3>1, <3>2 DEF Unrecorded
  <2> QED
    BY <2>4, <2>5 DEF Books
<1> QED
  BY <1>3, <1>9, <1>10

-----------------------------------------------------------------------------
(* The theorems                                                              *)

LEMMA InitBooks == Init => Books
<1> SUFFICES ASSUME Init PROVE Books
  OBVIOUS
<1>1. /\ bot.positions = <<>> /\ bot.pending = <<>> /\ todo = <<>> /\ orders = <<>> /\ rows = <<>>
      /\ dbPositions = <<>> /\ webOrder = 0 /\ pc = "down" /\ OrderNumbers = {}
  BY DEF Init, InitialBot, OrderNumbers
<1>2. Waiting = <<>>
  BY <1>1 DEF Waiting
<1>3. \A o \in Nat : Mass(o) = 0
  <2>1. <<>> \in Seq(OrderType)
    OBVIOUS
  <2>2. \A o : Sold(<<>>, o) = 0
    <3> DEFINE s == <<>>
    <3>1. s \in Seq(OrderType) /\ Len(s) = 0
      OBVIOUS
    <3> SUFFICES ASSUME NEW o PROVE Sold(s, o) = 0
      OBVIOUS
    <3> HIDE DEF s
    <3>2. DOMAIN SoldWeights(s, o) = 1..0 /\ \A i \in 1..0 : SoldWeights(s, o)[i] \in Nat
      BY <3>1, SoldTyped
    <3>3. \A i \in 1..0 : SoldWeights(s, o)[i] = 0
      OBVIOUS
    <3> QED
      BY <3>2, <3>3, ListSum DEF Sold
  <2> QED
    BY <1>1, <2>2, HeldEmpty, NoActions DEF Mass
<1>4. HeldOnce
  BY <1>1, <1>3 DEF HeldOnce
<1> QED
  BY <1>1, <1>2, <1>4, NoneSound DEF Books, NothingStored, PendingSound, TradedOnly, Unrecorded

LEMMA NextBooks == IInv /\ Books /\ [Next]_vars => Books'
<1> SUFFICES ASSUME IInv, Books, [Next]_vars PROVE Books'
  OBVIOUS
<1>1. IInv /\ TypeOK'
  BY NextInv DEF IInv
<1>2. CASE RunOnce
  BY <1>1, <1>2, BeginCycleBooks, RecoverFillBooks, TakeAsCancelledBooks, ReapOrderBooks, RunCycleBooks,
     PersistPositionBooks, PlaceEffectBooks, RecordOrderBooks, WorkedOffBooks DEF RunOnce
<1>3. CASE Surroundings
  <2>1. CASE Start
    BY <1>1, <2>1, StartBooks
  <2>2. CASE Crash
    BY <1>1, <2>2, DownBooks DEF Crash, disk
  <2>3. CASE WebRecord
    BY <1>1, <2>3, WebRecordBooks
  <2>4. ASSUME NEW p \in Pairs, CooldownPasses(p) PROVE Books'
    BY <1>1, <2>4, CooldownPassesBooks
  <2>5. ASSUME NEW w \in WebOrders, WebPlace(w.pair, w.side) PROVE Books'
    BY <1>1, <2>5, WebPlaceBooks
  <2>6. ASSUME NEW o \in OrderNumbers, WebCancel(o) PROVE Books'
    BY <1>1, <2>6, WebCancelBooks
  <2>7. ASSUME NEW o \in OrderNumbers, NEW n \in 1..OrderQuantity, Execute(o, n) PROVE Books'
    BY <1>1, <2>7, ExecuteBooks
  <2>8. ASSUME NEW o \in OrderNumbers, NEW n \in 1..OrderQuantity, Deliver(o, n) PROVE Books'
    BY <1>1, <2>8, DeliverBooks
  <2> QED
    BY <1>3, <2>1, <2>2, <2>3, <2>4, <2>5, <2>6, <2>7, <2>8 DEF Surroundings
<1>4. CASE UNCHANGED vars
  <2>1. /\ bot' = bot /\ orders' = orders /\ todo' = todo /\ pc' = pc
        /\ UNCHANGED <<rows, dbPositions, webOrder>>
    BY <1>4 DEF vars, memory, disk
  <2>2. OrdersGoOn /\ TodoShrinks
    BY <1>1, <2>1, SameOrders DEF IInv, TodoShrinks
  <2> QED
    BY <1>1, <2>1, <2>2, StillBooks
<1> QED
  BY <1>2, <1>3, <1>4 DEF Next

LEMMA BooksInvariance == Spec => [](IInv /\ Books)
<1>1. Init => IInv /\ Books
  BY InitInv, InitBooks
<1>2. IInv /\ Books /\ [Next]_vars => (IInv /\ Books)'
  BY NextInv, NextBooks
<1> QED
  BY <1>1, <1>2, PTL DEF Spec

\* All that counts is among the places picked.
PicksAll(v, w, I, n) ==
  /\ n \in Nat /\ DOMAIN w = 1..n /\ \A i \in 1..n : w[i] \in Nat
  /\ I \in SUBSET (1..n) /\ \A i \in (1..n) \ I : w[i] = 0
  /\ DOMAIN v = 1..Cardinality(I) /\ \A k \in 1..Cardinality(I) : v[k] = w[Nth(I, k)]

LEMMA PickedSum ==
  ASSUME NEW v, NEW w, NEW I, NEW n, PicksAll(v, w, I, n)
  PROVE  SumFunction(v) = SumFunction(w)
<1>1. n \in Nat /\ DOMAIN w = 1..n /\ I \in SUBSET (1..n) /\ DOMAIN v = 1..Cardinality(I)
  BY DEF PicksAll
<1>2. /\ \A i \in 1..n : w[i] \in Nat
      /\ \A k \in 1..Cardinality(I) : v[k] = w[Nth(I, k)]
  BY DEF PicksAll
<1>3. \A i \in (1..n) \ I : w[i] = 0
  BY DEF PicksAll
<1>4. /\ SumFunction(v) = SumFunctionOnSet(w, I)
      /\ SumFunction(v) <= SumFunction(w)
      /\ (\A i \in (1..n) \ I : w[i] = 0) => SumFunction(v) = SumFunction(w)
      /\ \A i \in (1..n) \ I : SumFunction(v) + w[i] <= SumFunction(w)
  BY <1>1, <1>2, ListSumPicked
<1> QED
  BY <1>3, <1>4

\* The sums of the property are those of the invariant.
LEMMA ExitsLeave ==
  ASSUME TypeOK, pc = "effects", NEW o
  PROVE  Quantity(Exits, FillId(o)) = Leaving(todo, o)
<1> DEFINE I == {i \in DOMAIN todo : todo[i].type = "close"}
           exits == Picked(todo, I)
           w == ExitWeights(todo, o)
           v == [k \in DOMAIN exits |-> IF exits[k].id = FillId(o) THEN exits[k].quantity ELSE 0]
           n == Cardinality(I)
           m == Len(todo)
<1>1. Quantity(Exits, FillId(o)) = SumFunction(v)
  BY DEF Quantity, SumOver, Exits, Keeping
<1>2. todo \in Seq(EffectType) /\ m \in Nat /\ DOMAIN todo = 1..m
  BY WorkIs DEF TypeOK
<1>3. ExitList(todo)
  BY <1>2, EffectsExit
<1>4. DOMAIN w = 1..m /\ \A i \in 1..m : w[i] = ExitWeight(todo[i], o) /\ w[i] \in Nat
  BY <1>2, <1>3, LeavingTyped DEF ExitList
<1>5. I \in SUBSET (1..m)
  BY <1>2
<1>6. exits = [k \in 1..n |-> todo[Nth(I, k)]]
  BY DEF Picked
<1>7. \A i \in I : todo[i].type = "close"
  OBVIOUS
<1>8. \A i \in (1..m) \ I : w[i] = 0
  BY <1>2, <1>4 DEF ExitWeight
<1> HIDE DEF I
<1>9. \A k \in 1..n : Nth(I, k) \in I
  <2>1. IsFiniteSet(1..m)
    BY <1>2, FS_Interval
  <2>2. IsFiniteSet(I) /\ I \in SUBSET Nat
    <3>1. I \in SUBSET Nat
      BY <1>5
    <3>2. IsFiniteSet(I)
      BY <1>5, <2>1, FS_Subset
    <3> QED
      BY <3>1, <3>2
  <2> QED
    BY <2>2, NthLaws
<1> HIDE DEF exits, w
<1>10. DOMAIN v = 1..n /\ \A k \in 1..n : v[k] = w[Nth(I, k)]
  <2>1. DOMAIN exits = 1..n /\ \A k \in 1..n : exits[k] = todo[Nth(I, k)]
    BY <1>6
  <2>2. \A k \in 1..n : w[Nth(I, k)] = ExitWeight(exits[k], o) /\ exits[k].type = "close"
    BY <1>4, <1>5, <1>7, <1>9, <2>1
  <2> HIDE DEF n
  <2> QED
    BY <2>1, <2>2 DEF ExitWeight
<1> HIDE DEF v, m
<1>11. SumFunction(v) = SumFunction(w)
  <2>1. DOMAIN v = 1..Cardinality(I) /\ \A k \in 1..Cardinality(I) : v[k] = w[Nth(I, k)]
    BY <1>10
  <2> HIDE DEF n
  <2>2. PicksAll(v, w, I, m)
    BY <2>1, <1>2, <1>4, <1>5, <1>8 DEF PicksAll
  <2> QED
    BY <2>2, PickedSum
<1> QED
  BY <1>1, <1>11 DEF Leaving, w

LEMMA ExitsSold ==
  ASSUME TypeOK, NEW o
  PROVE  SumOver(Keeping(orders, LAMBDA x : x.closes = FillId(o)), LAMBDA x : x.quantity) = Sold(orders, o)
<1> DEFINE I == {i \in DOMAIN orders : orders[i].closes = FillId(o)}
           exits == Picked(orders, I)
           w == SoldWeights(orders, o)
           v == [k \in DOMAIN exits |-> exits[k].quantity]
           n == Cardinality(I)
           m == Len(orders)
<1>1. SumOver(Keeping(orders, LAMBDA x : x.closes = FillId(o)), LAMBDA x : x.quantity) = SumFunction(v)
  BY DEF SumOver, Keeping
<1>2. orders \in Seq(OrderType) /\ m \in Nat /\ DOMAIN orders = 1..m
  BY DEF TypeOK
<1>3. DOMAIN w = 1..m /\ \A i \in 1..m : w[i] = SoldWeight(orders[i], o) /\ w[i] \in Nat
  BY <1>2, SoldTyped
<1>4. I \in SUBSET (1..m)
  BY <1>2
<1>5. exits = [k \in 1..n |-> orders[Nth(I, k)]]
  BY DEF Picked
<1>6. \A i \in I : orders[i].closes = FillId(o)
  OBVIOUS
<1>7. \A i \in (1..m) \ I : w[i] = 0
  BY <1>2, <1>3 DEF SoldWeight
<1> HIDE DEF I
<1>8. \A k \in 1..n : Nth(I, k) \in I
  <2>1. IsFiniteSet(1..m)
    BY <1>2, FS_Interval
  <2>2. IsFiniteSet(I) /\ I \in SUBSET Nat
    <3>1. I \in SUBSET Nat
      BY <1>4
    <3>2. IsFiniteSet(I)
      BY <1>4, <2>1, FS_Subset
    <3> QED
      BY <3>1, <3>2
  <2> QED
    BY <2>2, NthLaws
<1> HIDE DEF exits, w
<1>9. DOMAIN v = 1..n /\ \A k \in 1..n : v[k] = w[Nth(I, k)]
  <2>1. DOMAIN exits = 1..n /\ \A k \in 1..n : exits[k] = orders[Nth(I, k)]
    BY <1>5
  <2>2. \A k \in 1..n : w[Nth(I, k)] = SoldWeight(exits[k], o) /\ exits[k].closes = FillId(o)
    BY <1>3, <1>4, <1>6, <1>8, <2>1
  <2> HIDE DEF n
  <2> QED
    BY <2>1, <2>2 DEF SoldWeight
<1> HIDE DEF v, m
<1>10. SumFunction(v) = SumFunction(w)
  <2>1. DOMAIN v = 1..Cardinality(I) /\ \A k \in 1..Cardinality(I) : v[k] = w[Nth(I, k)]
    BY <1>9
  <2> HIDE DEF n
  <2>2. PicksAll(v, w, I, m)
    BY <2>1, <1>2, <1>3, <1>4, <1>7 DEF PicksAll
  <2> QED
    BY <2>2, PickedSum
<1> QED
  BY <1>1, <1>10 DEF Sold, w

\* No execution is held or sold twice: what the positions hold of an order, what
\* is being sold of it and what was sold never exceed what the exchange executed,
\* over any number of recoveries, late deliveries, cycles, crashes and restarts.
THEOREM HeldWithinExecutedHolds == Spec => []HeldWithinExecuted
<1>1. IInv /\ Books => HeldWithinExecuted
  <2> SUFFICES ASSUME IInv, Books, NEW o \in OrderNumbers
               PROVE  Quantity(bot.positions, FillId(o))
                        + (IF pc = "effects" THEN Quantity(Exits, FillId(o)) ELSE 0)
                        + SumOver(Keeping(orders, LAMBDA x : x.closes = FillId(o)), LAMBDA x : x.quantity)
                        <= orders[o].done
    BY DEF HeldWithinExecuted
  <2>1. TypeOK /\ o \in Nat /\ HeldOnce
    BY Orderly DEF IInv, Books
  <2>2. Quantity(bot.positions, FillId(o)) = Held(bot.positions, o)
    BY DEF Quantity, SumOver, Held, Weights, Weight
  <2>3. (IF pc = "effects" THEN Quantity(Exits, FillId(o)) ELSE 0) = Leaving(todo, o)
    <3>1. CASE pc = "effects"
      BY <2>1, <3>1, ExitsLeave
    <3>2. CASE pc # "effects"
      <4>1. pc \in Points /\ todo \in Seq(WorkAt(pc))
        BY <2>1 DEF TypeOK, Points
      <4>2. Leaving(todo, o) = 0
        BY <3>2, <4>1, TodoExits
      <4> QED
        BY <3>2, <4>2
    <3> QED
      BY <3>1, <3>2
  <2>4. SumOver(Keeping(orders, LAMBDA x : x.closes = FillId(o)), LAMBDA x : x.quantity) = Sold(orders, o)
    BY <2>1, ExitsSold
  <2>5. Mass(o) <= orders[o].done
    BY <2>1 DEF HeldOnce
  <2> QED
    BY <2>2, <2>3, <2>4, <2>5 DEF Mass
<1> QED
  BY <1>1, BooksInvariance, PTL

\* No position is ever written to the database, whatever is filled and however
\* often the process starts: a position comes into memory between two cycles,
\* by the reconciliation that finds its fill, so the difference a cycle persists
\* never shows it as new, and a process that starts knows of none.
THEOREM TableStaysEmpty == Spec => [](dbPositions = <<>>)
<1>1. IInv /\ Books => dbPositions = <<>>
  BY DEF Books, NothingStored
<1> QED
  BY <1>1, BooksInvariance, PTL

=============================================================================
