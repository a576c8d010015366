------------------------------- MODULE SumLemmas -------------------------------
(***************************************************************************)
(* The laws of sums over finite sets that the proofs about capital and     *)
(* about positions rest on.                                                *)
(***************************************************************************)
EXTENDS Integers, FiniteSets, Functions, FiniteSetTheorems, TLAPS

-----------------------------------------------------------------------------
(* Sums over a finite set.  SumFunctionOnSet folds by recursion over subsets; *)
(* a smallest set that breaks a law takes the place of an induction.          *)

First(s) == CHOOSE x \in s : TRUE
Body(f, g, s) == IF s = {} THEN 0 ELSE f[First(s)] + g[s \ {First(s)}]
Adds(f, g, S) == g = [s \in SUBSET S |-> Body(f, g, s)]
Adder(f, S) == CHOOSE g : Adds(f, g, S)

LEMMA SumIs ==
  ASSUME NEW f, NEW S
  PROVE  SumFunctionOnSet(f, S) = Adder(f, S)[S]
  BY DEF SumFunctionOnSet, FoldFunctionOnSet, MapThenFoldSet, Adder, Adds, Body, First

LEMMA Smallest ==
  ASSUME NEW S, IsFiniteSet(S), NEW B \in SUBSET SUBSET S, B # {}
  PROVE  \E T \in B : \A U \in SUBSET T : U # T => U \notin B
<1>1. IsWellFoundedOn(StrictSubsetOrdering(S), FiniteSubsetsOf(S))
  BY FS_StrictSubsetOrderingWellFounded
<1>2. FiniteSubsetsOf(S) = SUBSET S
  BY FS_FiniteSubsetsOfFinite
<1>3. PICK T \in B : \A U \in B : <<U, T>> \notin StrictSubsetOrdering(S)
  BY <1>1, <1>2, WFMin
<1> QED
  BY <1>3 DEF StrictSubsetOrdering

LEMMA FirstIn ==
  ASSUME NEW s, s # {}
  PROVE  First(s) \in s /\ s \ {First(s)} \subseteq s /\ s \ {First(s)} # s
  BY DEF First

\* Two adders agree where both are defined.
LEMMA AddersAgree ==
  ASSUME NEW f, NEW S, NEW T, IsFiniteSet(S), NEW g, NEW h, Adds(f, g, S), Adds(f, h, T)
  PROVE  \A s \in SUBSET (S \cap T) : g[s] = h[s]
<1> DEFINE B == {s \in SUBSET (S \cap T) : g[s] # h[s]}
<1> SUFFICES ASSUME B # {} PROVE FALSE
  OBVIOUS
<1>1. PICK s \in B : \A u \in SUBSET s : u # s => u \notin B
  <2>1. B \in SUBSET SUBSET S
    OBVIOUS
  <2> HIDE DEF B
  <2> QED
    BY <2>1, Smallest
<1>2. g[s] = Body(f, g, s) /\ h[s] = Body(f, h, s)
  BY <1>1 DEF Adds
<1>3. CASE s = {}
  BY <1>1, <1>2, <1>3 DEF Body
<1>4. CASE s # {}
  <2>1. s \ {First(s)} \in SUBSET s /\ s \ {First(s)} # s
    BY <1>4, FirstIn
  <2>2. g[s \ {First(s)}] = h[s \ {First(s)}]
    BY <1>1, <2>1
  <2> QED
    BY <1>1, <1>2, <1>4, <2>2 DEF Body
<1> QED
  BY <1>3, <1>4

LEMMA AdderExists ==
  ASSUME NEW f, NEW S, IsFiniteSet(S)
  PROVE  Adds(f, Adder(f, S), S)
<1> DEFINE B == {T \in SUBSET S : ~\E g : Adds(f, g, T)}
<1> SUFFICES ASSUME B # {} PROVE FALSE
  <2>1. S \notin B => \E g : Adds(f, g, S)
    OBVIOUS
  <2> QED
    BY <2>1 DEF Adder
<1>1. PICK T \in B : \A U \in SUBSET T : U # T => U \notin B
  <2>1. B \in SUBSET SUBSET S
    OBVIOUS
  <2> HIDE DEF B
  <2> QED
    BY <2>1, Smallest
<1>2. \A U \in SUBSET T : U # T => Adds(f, Adder(f, U), U)
  BY <1>1 DEF Adder
<1> DEFINE Part(s) == s \ {First(s)}
           G == [s \in SUBSET T |-> IF s = {} THEN 0 ELSE f[First(s)] + Adder(f, Part(s))[Part(s)]]
<1>3. \A s \in SUBSET T : s # {} => Part(s) \in SUBSET s /\ Part(s) # T
  BY FirstIn
<1>4. ASSUME NEW s \in SUBSET T, s # {}
      PROVE  G[Part(s)] = Adder(f, Part(s))[Part(s)]
  <2> DEFINE u == Part(s)
  <2>1. u \in SUBSET T /\ u # T
    BY <1>3, <1>4
  <2>2. Adds(f, Adder(f, u), u)
    BY <1>2, <2>1
  <2>3. Adder(f, u)[u] = Body(f, Adder(f, u), u)
    BY <2>2 DEF Adds
  <2>4. CASE u = {}
    BY <2>1, <2>3, <2>4 DEF Body
  <2>5. CASE u # {}
    <3>1. Part(u) \in SUBSET u /\ Part(u) \in SUBSET T /\ Part(u) # T
      BY <1>3, <2>1, <2>5
    <3>2. Adds(f, Adder(f, Part(u)), Part(u))
      BY <1>2, <3>1
    <3>3. IsFiniteSet(u)
      BY <2>1, FS_Subset
    <3>4. Adder(f, u)[Part(u)] = Adder(f, Part(u))[Part(u)]
      <4>1. Part(u) \in SUBSET (u \cap Part(u))
        BY <3>1
      <4> HIDE DEF u, Part, G
      <4> QED
        BY <2>2, <3>2, <3>3, <4>1, AddersAgree
    <3>5. Adder(f, u)[u] = f[First(u)] + Adder(f, u)[Part(u)]
      BY <2>3, <2>5 DEF Body
    <3>6. G[u] = f[First(u)] + Adder(f, Part(u))[Part(u)]
      BY <2>1, <2>5
    <3> QED
      BY <3>4, <3>5, <3>6
  <2> QED
    BY <2>4, <2>5
<1>5. \A s \in SUBSET T : G[s] = Body(f, G, s)
  <2> SUFFICES ASSUME NEW s \in SUBSET T PROVE G[s] = Body(f, G, s)
    OBVIOUS
  <2>1. CASE s = {}
    BY <2>1 DEF Body
  <2>2. CASE s # {}
    <3>1. G[Part(s)] = Adder(f, Part(s))[Part(s)]
      BY <1>4, <2>2
    <3>2. G[s] = f[First(s)] + Adder(f, Part(s))[Part(s)]
      BY <2>2
    <3> HIDE DEF G
    <3> QED
      BY <2>2, <3>1, <3>2 DEF Body
  <2> QED
    BY <2>1, <2>2
<1>6. G = [s \in SUBSET T |-> Body(f, G, s)]
  <2>1. G = [s \in SUBSET T |-> G[s]]
    OBVIOUS
  <2> HIDE DEF G
  <2> QED
    BY <1>5, <2>1
<1>7. Adds(f, G, T)
  <2> HIDE DEF G
  <2> QED
    BY <1>6 DEF Adds
<1>8. T \notin B
  <2> HIDE DEF G
  <2> QED
    BY <1>7
<1> QED
  BY <1>1, <1>8

\* A smaller sum is a part of the larger one.
LEMMA SumPart ==
  ASSUME NEW f, NEW S, IsFiniteSet(S), NEW T \in SUBSET S
  PROVE  Adder(f, S)[T] = SumFunctionOnSet(f, T)
<1>1. IsFiniteSet(T)
  BY FS_Subset
<1>2. Adds(f, Adder(f, S), S) /\ Adds(f, Adder(f, T), T)
  BY <1>1, AdderExists
<1>3. T \in SUBSET (S \cap T)
  OBVIOUS
<1>4. Adder(f, S)[T] = Adder(f, T)[T]
  BY <1>2, <1>3, AddersAgree
<1> QED
  BY <1>4, SumIs

LEMMA SumUnfolds ==
  ASSUME NEW f, NEW S, IsFiniteSet(S)
  PROVE  /\ SumFunctionOnSet(f, {}) = 0
         /\ S # {} => SumFunctionOnSet(f, S)
                       = f[First(S)] + SumFunctionOnSet(f, S \ {First(S)})
<1>1. Adds(f, Adder(f, S), S)
  BY AdderExists
<1>2. \A T \in SUBSET S : Adder(f, S)[T] = SumFunctionOnSet(f, T)
  BY SumPart
<1>3. \A T \in SUBSET S : Adder(f, S)[T] = Body(f, Adder(f, S), T)
  BY <1>1 DEF Adds
<1>4. SumFunctionOnSet(f, {}) = 0
  BY <1>2, <1>3 DEF Body
<1>5. ASSUME S # {}
      PROVE  SumFunctionOnSet(f, S) = f[First(S)] + SumFunctionOnSet(f, S \ {First(S)})
  <2>1. S \in SUBSET S /\ S \ {First(S)} \in SUBSET S
    OBVIOUS
  <2>2. Adder(f, S)[S] = f[First(S)] + Adder(f, S)[S \ {First(S)}]
    BY <1>3, <1>5, <2>1 DEF Body
  <2> QED
    BY <1>2, <2>1, <2>2
<1> QED
  BY <1>4, <1>5

\* A sum of integers is an integer, one of naturals a natural.
LEMMA SumType ==
  ASSUME NEW S, IsFiniteSet(S), NEW f,
         NEW N, N \in {Nat, Int}, \A x \in S : f[x] \in N
  PROVE  SumFunctionOnSet(f, S) \in N
<1> DEFINE B == {T \in SUBSET S : SumFunctionOnSet(f, T) \notin N}
<1> SUFFICES ASSUME B # {} PROVE FALSE
  OBVIOUS
<1>1. PICK T \in B : \A U \in SUBSET T : U # T => U \notin B
  <2>1. B \in SUBSET SUBSET S
    OBVIOUS
  <2> HIDE DEF B
  <2> QED
    BY <2>1, Smallest
<1>2. IsFiniteSet(T) /\ T \in SUBSET S
  BY <1>1, FS_Subset
<1>3. T # {}
  <2>1. 0 \in N
    OBVIOUS
  <2> QED
    BY <1>1, <1>2, <2>1, SumUnfolds
<1>4. First(T) \in T /\ T \ {First(T)} \in SUBSET T /\ T \ {First(T)} # T
  BY <1>3, FirstIn
<1>5. SumFunctionOnSet(f, T \ {First(T)}) \in N
  BY <1>1, <1>2, <1>4
<1>6. f[First(T)] \in N
  BY <1>2, <1>4
<1>7. SumFunctionOnSet(f, T) = f[First(T)] + SumFunctionOnSet(f, T \ {First(T)})
  BY <1>2, <1>3, SumUnfolds
<1>8. SumFunctionOnSet(f, T) \in N
  <2>1. CASE N = Nat
    BY <2>1, <1>5, <1>6, <1>7
  <2>2. CASE N = Int
    BY <2>2, <1>5, <1>6, <1>7
  <2> QED
    BY <2>1, <2>2
<1> QED
  BY <1>1, <1>8

\* Any term may be taken out first.
LEMMA SumTakes ==
  ASSUME NEW S, IsFiniteSet(S), NEW f, \A y \in S : f[y] \in Int, NEW x \in S
  PROVE  SumFunctionOnSet(f, S) = f[x] + SumFunctionOnSet(f, S \ {x})
<1> DEFINE Sum(T) == SumFunctionOnSet(f, T)
           B == {T \in SUBSET S : \E y \in T : Sum(T) # f[y] + Sum(T \ {y})}
<1> SUFFICES ASSUME B # {} PROVE FALSE
  OBVIOUS
<1>1. PICK T \in B : \A U \in SUBSET T : U # T => U \notin B
  <2>1. B \in SUBSET SUBSET S
    OBVIOUS
  <2> HIDE DEF B
  <2> QED
    BY <2>1, Smallest
<1>2. T \in SUBSET S /\ IsFiniteSet(T)
  BY <1>1, FS_Subset
<1>3. PICK y \in T : Sum(T) # f[y] + Sum(T \ {y})
  BY <1>1
<1> DEFINE c == First(T)
<1>4. c \in T
  BY <1>3, FirstIn
<1>5. \A U \in SUBSET S : Sum(U) \in Int
  <2> SUFFICES ASSUME NEW U \in SUBSET S PROVE Sum(U) \in Int
    OBVIOUS
  <2>1. IsFiniteSet(U) /\ (\A z \in U : f[z] \in Int) /\ Int \in {Nat, Int}
    BY FS_Subset
  <2> QED
    BY <2>1, SumType
<1>6. Sum(T) = f[c] + Sum(T \ {c})
  BY <1>2, <1>4, SumUnfolds
<1>7. y # c
  BY <1>3, <1>6
<1> DEFINE U == T \ {c}
           V == T \ {y}
           W == T \ {c, y}
<1>8. Sum(U) = f[y] + Sum(W)
  <2>1. U \in SUBSET T /\ U # T /\ y \in U /\ U \ {y} = W
    BY <1>3, <1>4, <1>7
  <2> HIDE DEF U, W
  <2> QED
    BY <1>1, <1>2, <2>1
<1>9. Sum(V) = f[c] + Sum(W)
  <2>1. V \in SUBSET T /\ V # T /\ c \in V /\ V \ {c} = W
    BY <1>3, <1>4, <1>7
  <2> HIDE DEF V, W, c
  <2> QED
    BY <1>1, <1>2, <2>1
<1>10. Sum(W) \in Int /\ f[c] \in Int /\ f[y] \in Int
  <2>1. W \in SUBSET S
    BY <1>2
  <2> QED
    BY <1>2, <1>3, <1>4, <1>5, <2>1
<1>11. Sum(T) = f[y] + Sum(V)
  <2> HIDE DEF Sum, c, W
  <2> QED
    BY <1>6, <1>8, <1>9, <1>10
<1> QED
  BY <1>3, <1>11

\* Functions that agree on a set have the same sum.
LEMMA SumSame ==
  ASSUME NEW S, IsFiniteSet(S), NEW f, NEW g, \A x \in S : f[x] = g[x]
  PROVE  SumFunctionOnSet(f, S) = SumFunctionOnSet(g, S)
<1> DEFINE B == {T \in SUBSET S : SumFunctionOnSet(f, T) # SumFunctionOnSet(g, T)}
<1> SUFFICES ASSUME B # {} PROVE FALSE
  OBVIOUS
<1>1. PICK T \in B : \A U \in SUBSET T : U # T => U \notin B
  <2>1. B \in SUBSET SUBSET S
    OBVIOUS
  <2> HIDE DEF B
  <2> QED
    BY <2>1, Smallest
<1>2. IsFiniteSet(T) /\ T \in SUBSET S
  BY <1>1, FS_Subset
<1>3. T # {}
  BY <1>1, <1>2, SumUnfolds
<1>4. First(T) \in T /\ T \ {First(T)} \in SUBSET T /\ T \ {First(T)} # T
  BY <1>3, FirstIn
<1>5. SumFunctionOnSet(f, T \ {First(T)}) = SumFunctionOnSet(g, T \ {First(T)})
  BY <1>1, <1>2, <1>4
<1>6. /\ SumFunctionOnSet(f, T) = f[First(T)] + SumFunctionOnSet(f, T \ {First(T)})
      /\ SumFunctionOnSet(g, T) = g[First(T)] + SumFunctionOnSet(g, T \ {First(T)})
  BY <1>2, <1>3, SumUnfolds
<1>7. f[First(T)] = g[First(T)]
  BY <1>2, <1>4
<1>8. SumFunctionOnSet(f, T) = SumFunctionOnSet(g, T)
  BY <1>5, <1>6, <1>7
<1> QED
  BY <1>1, <1>8

\* A sum changes with the one term that does.
LEMMA SumChanges ==
  ASSUME NEW S, IsFiniteSet(S), NEW f, NEW g, NEW k,
         \A x \in S : f[x] \in Int /\ g[x] \in Int,
         \A x \in S : x # k => g[x] = f[x]
  PROVE  SumFunctionOnSet(g, S)
           = SumFunctionOnSet(f, S) + IF k \in S THEN g[k] - f[k] ELSE 0
<1>1. CASE k \notin S
  <2>1. SumFunctionOnSet(g, S) = SumFunctionOnSet(f, S)
    BY <1>1, SumSame
  <2>2. SumFunctionOnSet(f, S) \in Int
    BY SumType
  <2> QED
    BY <1>1, <2>1, <2>2
<1>2. CASE k \in S
  <2>1. /\ SumFunctionOnSet(f, S) = f[k] + SumFunctionOnSet(f, S \ {k})
        /\ SumFunctionOnSet(g, S) = g[k] + SumFunctionOnSet(g, S \ {k})
    BY <1>2, SumTakes
  <2>2. IsFiniteSet(S \ {k})
    BY FS_Subset
  <2>3. SumFunctionOnSet(g, S \ {k}) = SumFunctionOnSet(f, S \ {k})
    BY <2>2, SumSame
  <2>4. SumFunctionOnSet(f, S \ {k}) \in Int
    BY <2>2, SumType
  <2>5. f[k] \in Int /\ g[k] \in Int
    BY <1>2
  <2> QED
    BY <1>2, <2>1, <2>3, <2>4, <2>5
<1> QED
  BY <1>1, <1>2

LEMMA Intervals == \A a, b \in Int : IsFiniteSet(a..b)
BY FS_Interval

\* The sum of h over T is that of f over S and of g up to k.
AddUp(h, T, f, S, g, k) ==
  SumFunctionOnSet(h, T) = SumFunctionOnSet(f, S) + SumFunctionOnSet(g, 1..k)

\* The terms of a list that is appended to another add its sum.
LEMMA SumAppends ==
  ASSUME NEW size \in Nat, NEW S, S \subseteq 1..size, NEW k \in Nat,
         NEW f, NEW g, NEW h, \A x \in S : f[x] \in Int, \A i \in 1..k : g[i] \in Int,
         \A x \in S : h[x] = f[x], \A i \in 1..k : h[size + i] = g[i]
  PROVE  AddUp(h, S \cup (size + 1)..(size + k), f, S, g, k)
<1> DEFINE Sum(w, T) == SumFunctionOnSet(w, T)
           Both(J) == S \cup {size + i : i \in J}
           B == {J \in SUBSET (1..k) : Sum(h, Both(J)) # Sum(f, S) + Sum(g, J)}
<1>1. Both(1..k) = S \cup (size + 1)..(size + k)
  <2>1. ASSUME NEW x \in (size + 1)..(size + k) PROVE x \in {size + i : i \in 1..k}
    <3>1. x - size \in 1..k /\ x = size + (x - size)
      OBVIOUS
    <3> QED
      BY <3>1
  <2> QED
    BY <2>1
<1>2. IsFiniteSet(1..k) /\ IsFiniteSet(1..size) /\ IsFiniteSet(S)
  <2>1. IsFiniteSet(1..k) /\ IsFiniteSet(1..size)
    BY Intervals
  <2> QED
    BY <2>1, FS_Subset
<1>3. Sum(f, S) \in Int
  BY <1>2, SumType
<1> SUFFICES ASSUME B # {} PROVE FALSE
  <2>1. 1..k \notin B
    OBVIOUS
  <2> QED
    BY <1>1, <2>1 DEF AddUp
<1>4. PICK J \in B : \A U \in SUBSET J : U # J => U \notin B
  <2>1. B \in SUBSET SUBSET (1..k)
    OBVIOUS
  <2> HIDE DEF B
  <2> QED
    BY <1>2, <2>1, Smallest
<1>5. J \in SUBSET (1..k) /\ IsFiniteSet(J)
  BY <1>2, <1>4, FS_Subset
<1>6. J # {}
  <2>1. Both({}) = S
    OBVIOUS
  <2>2. Sum(h, S) = Sum(f, S)
    BY <1>2, SumSame
  <2>3. Sum(g, {}) = 0
    BY <1>2, SumUnfolds
  <2>4. Sum(h, Both({})) = Sum(f, S) + Sum(g, {})
    <3> HIDE DEF Both, Sum
    <3> QED
      BY <1>3, <2>1, <2>2, <2>3
  <2>5. {} \notin B
    BY <2>4
  <2> QED
    BY <1>4, <2>5
<1>7. PICK j \in J : TRUE
  BY <1>6
<1> DEFINE U == J \ {j}
<1>8. U \in SUBSET J /\ U # J /\ U \in SUBSET (1..k) /\ IsFiniteSet(U)
  BY <1>5, <1>7, FS_Subset
<1>9. Sum(h, Both(U)) = Sum(f, S) + Sum(g, U)
  BY <1>4, <1>8
<1>10. Sum(g, J) = g[j] + Sum(g, U)
  BY <1>5, <1>7, SumTakes
<1>11. Sum(h, Both(J)) = h[size + j] + Sum(h, Both(U))
  <2>1. Both(J) \subseteq 1..(size + k) /\ IsFiniteSet(1..(size + k))
    <3>1. \A x \in S : x \in 1..(size + k)
      OBVIOUS
    <3>2. \A i \in J : size + i \in 1..(size + k)
      BY <1>5
    <3>3. \A x \in Both(J) : x \in 1..(size + k)
      BY <3>1, <3>2
    <3>4. 1 \in Int /\ size + k \in Int
      OBVIOUS
    <3>5. IsFiniteSet(1..(size + k))
      BY <3>4, Intervals
    <3> HIDE DEF Both
    <3> QED
      BY <3>3, <3>5
  <2>2. IsFiniteSet(Both(J))
    <3> HIDE DEF Both
    <3> QED
      BY <2>1, FS_Subset
  <2>3. \A x \in Both(J) : h[x] \in Int
    BY <1>5
  <2>4. size + j \in Both(J)
    BY <1>7
  <2>5. Both(J) \ {size + j} = Both(U)
    <3>1. \A x \in S : x # size + j
      BY <1>5, <1>7
    <3>2. \A i \in J : size + i = size + j => i = j
      BY <1>5, <1>7
    <3> QED
      BY <3>1, <3>2
  <2> HIDE DEF Both, U
  <2> QED
    BY <2>2, <2>3, <2>4, <2>5, SumTakes
<1>12. Sum(g, U) \in Int /\ g[j] \in Int /\ h[size + j] = g[j]
  <2>1. \A i \in U : g[i] \in Int
    BY <1>8
  <2>2. Sum(g, U) \in Int
    <3> HIDE DEF U
    <3> QED
      BY <1>8, <2>1, SumType
  <2> QED
    BY <1>5, <1>7, <2>2
<1>13. Sum(h, Both(J)) = Sum(f, S) + Sum(g, J)
  <2> HIDE DEF Sum, Both, U
  <2> QED
    BY <1>3, <1>9, <1>10, <1>11, <1>12
<1> QED
  BY <1>4, <1>13

\* Nothing adds up to nothing.
LEMMA SumNothing ==
  ASSUME NEW S, IsFiniteSet(S), NEW f, \A x \in S : f[x] = 0
  PROVE  SumFunctionOnSet(f, S) = 0
<1> DEFINE B == {T \in SUBSET S : SumFunctionOnSet(f, T) # 0}
<1> SUFFICES ASSUME B # {} PROVE FALSE
  OBVIOUS
<1>1. PICK T \in B : \A U \in SUBSET T : U # T => U \notin B
  <2>1. B \in SUBSET SUBSET S
    OBVIOUS
  <2> HIDE DEF B
  <2> QED
    BY <2>1, Smallest
<1>2. IsFiniteSet(T) /\ T \in SUBSET S
  BY <1>1, FS_Subset
<1>3. T # {}
  BY <1>1, <1>2, SumUnfolds
<1>4. First(T) \in T /\ T \ {First(T)} \in SUBSET T /\ T \ {First(T)} # T
  BY <1>3, FirstIn
<1>5. SumFunctionOnSet(f, T) = f[First(T)] + SumFunctionOnSet(f, T \ {First(T)})
  BY <1>2, <1>3, SumUnfolds
<1>6. f[First(T)] = 0 /\ SumFunctionOnSet(f, T \ {First(T)}) = 0
  BY <1>1, <1>2, <1>4
<1>7. SumFunctionOnSet(f, T) = 0
  BY <1>5, <1>6
<1> QED
  BY <1>1, <1>7


\* Terms that are found elsewhere, each at a place of its own, add up to the same.
LEMMA SumMoved ==
  ASSUME NEW S, IsFiniteSet(S), NEW f, NEW g, NEW h, \A x \in S : f[x] \in Int /\ g[h[x]] = f[x],
         \A x, y \in S : h[x] = h[y] => x = y
  PROVE  SumFunctionOnSet(g, {h[x] : x \in S}) = SumFunctionOnSet(f, S)
<1> DEFINE Sum(w, T) == SumFunctionOnSet(w, T)
           Moved(T) == {h[x] : x \in T}
           B == {T \in SUBSET S : Sum(g, Moved(T)) # Sum(f, T)}
<1> SUFFICES ASSUME B # {} PROVE FALSE
  OBVIOUS
<1>1. PICK T \in B : \A U \in SUBSET T : U # T => U \notin B
  <2>1. B \in SUBSET SUBSET S
    OBVIOUS
  <2> HIDE DEF B
  <2> QED
    BY <2>1, Smallest
<1>2. T \in SUBSET S /\ IsFiniteSet(T)
  BY <1>1, FS_Subset
<1>3. T # {}
  <2>1. Moved({}) = {}
    OBVIOUS
  <2>2. Sum(g, {}) = 0 /\ Sum(f, {}) = 0
    BY <1>2, SumUnfolds
  <2> QED
    BY <1>1, <2>1, <2>2
<1>4. PICK x \in T : TRUE
  BY <1>3
<1> DEFINE U == T \ {x}
<1>5. U \in SUBSET T /\ U # T /\ U \in SUBSET S
  BY <1>2, <1>4
<1>6. Sum(g, Moved(U)) = Sum(f, U)
  BY <1>1, <1>5
<1>7. Sum(f, T) = f[x] + Sum(f, U)
  BY <1>2, <1>4, SumTakes
<1>8. Moved(T) \ {h[x]} = Moved(U) /\ h[x] \in Moved(T)
  <2>1. \A y \in U : h[y] # h[x]
    BY <1>2, <1>4
  <2> QED
    BY <1>4, <2>1
<1>9. IsFiniteSet(Moved(T))
  <2> DEFINE m == [y \in T |-> h[y]]
  <2>1. m \in [T -> Moved(T)] /\ \A z \in Moved(T) : \E y \in T : m[y] = z
    OBVIOUS
  <2> HIDE DEF m, Moved
  <2>2. m \in Surjection(T, Moved(T))
    BY <2>1 DEF Surjection
  <2> QED
    BY <1>2, <2>2, FS_Surjection
<1>10. \A z \in Moved(T) : g[z] \in Int
  BY <1>2
<1>11. Sum(g, Moved(T)) = g[h[x]] + Sum(g, Moved(U))
  <2> HIDE DEF Moved, U
  <2> QED
    BY <1>8, <1>9, <1>10, SumTakes
<1> QED
  BY <1>1, <1>2, <1>4, <1>6, <1>7, <1>11

\* Fewer terms that are not negative add up to no more.
LEMMA SumOfFewer ==
  ASSUME NEW S, IsFiniteSet(S), NEW f, \A x \in S : f[x] \in Nat, NEW R \in SUBSET S
  PROVE  SumFunctionOnSet(f, R) <= SumFunctionOnSet(f, S)
<1> DEFINE Sum(T) == SumFunctionOnSet(f, T)
           B == {T \in SUBSET S : R \subseteq T /\ ~(Sum(R) <= Sum(T))}
<1> SUFFICES ASSUME B # {} PROVE FALSE
  OBVIOUS
<1>1. PICK T \in B : \A U \in SUBSET T : U # T => U \notin B
  <2>1. B \in SUBSET SUBSET S
    OBVIOUS
  <2> HIDE DEF B
  <2> QED
    BY <2>1, Smallest
<1>2. T \in SUBSET S /\ R \subseteq T /\ ~(Sum(R) <= Sum(T)) /\ IsFiniteSet(T) /\ IsFiniteSet(R)
  BY <1>1, FS_Subset
<1>3. Sum(R) \in Nat /\ Sum(T) \in Nat
  BY <1>2, SumType
<1>4. R # T
  BY <1>2, <1>3
<1>5. PICK x \in T : x \notin R
  BY <1>2, <1>4
<1> DEFINE U == T \ {x}
<1>6. U \in SUBSET T /\ U # T /\ R \subseteq U /\ IsFiniteSet(U)
  BY <1>2, <1>5, FS_Subset
<1>7. Sum(U) \in Nat /\ Sum(R) <= Sum(U)
  <2>1. Sum(R) <= Sum(U)
    BY <1>1, <1>2, <1>6
  <2> HIDE DEF U
  <2> QED
    BY <1>2, <1>6, <2>1, SumType
<1>8. Sum(T) = f[x] + Sum(U) /\ f[x] \in Nat
  BY <1>2, <1>5, SumTakes
<1> QED
  BY <1>2, <1>3, <1>7, <1>8

================================================================================
