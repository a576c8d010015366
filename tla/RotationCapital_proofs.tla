------------------------ MODULE RotationCapital_proofs ------------------------
(***************************************************************************)
(* Where the capital of the rotation tree is, for any capital, any prices, *)
(* any number of nodes and orders: what a node holds reserved is backed by *)
(* the children planned with it; with the conditional tree off, a root has *)
(* all it started with while no fill has gone astray; and no child is      *)
(* opened or sold again once it is over.                                   *)
(***************************************************************************)
EXTENDS RotationRuntime_proofs, SumLemmas

-----------------------------------------------------------------------------
(* What the tree adds up to *)

PlannedUnder(t, n) == {c \in children_of(t, n) : t[c].status = "planned"}

Totals(t) == [c \in DOMAIN t |-> t[c].total]
Costs(t) == [c \in DOMAIN t |-> t[c].entryCost]
Proceeds(t) == [c \in DOMAIN t |-> t[c].proceeds]

PlannedIn(t, n) == SumFunctionOnSet(Totals(t), PlannedUnder(t, n))
SpentIn(t, n) == SumFunctionOnSet(Costs(t), children_of(t, n))
EarnedIn(t, n) == SumFunctionOnSet(Proceeds(t), children_of(t, n))

\* A parent comes before its children.
Older(t) == \A n \in 1..Len(t) : t[n].parent < n

Backed(t) == \A n \in 1..Len(t) : t[n].reserved <= PlannedIn(t, n)

Accounts(free, reserved, spent, earned) == free + reserved + spent = Capital + earned

Balanced(t) ==
  /\ Accounts(t[Root].free, t[Root].reserved, SpentIn(t, Root), EarnedIn(t, Root))
  /\ t[Root].reserved = PlannedIn(t, Root)

\* The amounts are numbers, and so are their sums.
LEMMA Amounts ==
  ASSUME NEW t, GoodTree(t), NEW n
  PROVE  /\ Len(t) \in Nat /\ Root \in 1..Len(t) /\ DOMAIN t = 1..Len(t)
         /\ \A m \in 1..Len(t) :
              /\ t[m] \in NodeType /\ Totals(t)[m] = t[m].total /\ Costs(t)[m] = t[m].entryCost
              /\ Proceeds(t)[m] = t[m].proceeds /\ t[m].parent \in Nat
              /\ t[m].total \in Nat /\ t[m].entryCost \in Nat /\ t[m].proceeds \in Nat
              /\ t[m].free \in Nat /\ t[m].reserved \in Nat
         /\ children_of(t, n) \subseteq 1..Len(t) /\ IsFiniteSet(children_of(t, n))
         /\ PlannedUnder(t, n) \subseteq 1..Len(t) /\ IsFiniteSet(PlannedUnder(t, n))
         /\ PlannedIn(t, n) \in Nat /\ SpentIn(t, n) \in Nat /\ EarnedIn(t, n) \in Nat
<1>1. t \in Seq(NodeType) /\ Len(t) >= 1
  BY DEF GoodTree
<1>2. /\ Len(t) \in Nat /\ Root \in 1..Len(t) /\ DOMAIN t = 1..Len(t)
      /\ \A m \in 1..Len(t) : t[m] \in NodeType
  BY <1>1 DEF Root
<1>3. ASSUME NEW m \in 1..Len(t)
      PROVE  /\ Totals(t)[m] = t[m].total /\ Costs(t)[m] = t[m].entryCost
             /\ Proceeds(t)[m] = t[m].proceeds /\ t[m].parent \in Nat
             /\ t[m].total \in Nat /\ t[m].entryCost \in Nat /\ t[m].proceeds \in Nat
             /\ t[m].free \in Nat /\ t[m].reserved \in Nat
  BY <1>2 DEF Totals, Costs, Proceeds, NodeType
<1>4. children_of(t, n) \subseteq 1..Len(t) /\ PlannedUnder(t, n) \subseteq 1..Len(t)
  BY <1>2 DEF children_of, PlannedUnder
<1>5. IsFiniteSet(1..Len(t))
  BY <1>2, Intervals
<1>6. IsFiniteSet(children_of(t, n)) /\ IsFiniteSet(PlannedUnder(t, n))
  BY <1>4, <1>5, FS_Subset
<1>7. PlannedIn(t, n) \in Nat
  <2>1. \A x \in PlannedUnder(t, n) : Totals(t)[x] \in Nat
    BY <1>3, <1>4
  <2> QED
    BY <1>6, <2>1, SumType DEF PlannedIn
<1>8. SpentIn(t, n) \in Nat
  <2>1. \A x \in children_of(t, n) : Costs(t)[x] \in Nat
    BY <1>3, <1>4
  <2> QED
    BY <1>6, <2>1, SumType DEF SpentIn
<1>9. EarnedIn(t, n) \in Nat
  <2>1. \A x \in children_of(t, n) : Proceeds(t)[x] \in Nat
    BY <1>3, <1>4
  <2> QED
    BY <1>6, <2>1, SumType DEF EarnedIn
<1> QED
  BY <1>2, <1>3, <1>4, <1>6, <1>7, <1>8, <1>9

\* Node k leaves the plan, some of what its parent holds reserved goes back and some
\* is freed; of the other nodes nothing else changes.
Moves(t, u, k, back, freed) ==
  /\ GoodTree(u) /\ Len(u) = Len(t)
  /\ u[k].status # "planned" /\ u[k].reserved <= t[k].reserved
  /\ \A m \in 1..Len(t) :
       /\ u[m].parent = t[m].parent /\ u[m].pair = t[m].pair
       /\ m # k => /\ u[m].total = t[m].total /\ u[m].entryCost = t[m].entryCost
                   /\ u[m].proceeds = t[m].proceeds /\ u[m].status = t[m].status
                   /\ u[m].free = t[m].free + IF m = t[k].parent THEN freed ELSE 0
                   /\ u[m].reserved = IF m = t[k].parent THEN Monus(t[m].reserved, back)
                                      ELSE t[m].reserved

\* What the sums over the children of a node become.
LEMMA MovedSums ==
  ASSUME NEW t, GoodTree(t), NEW u, NEW k \in 1..Len(t), NEW back, NEW freed,
         Moves(t, u, k, back, freed), NEW n
  PROVE  /\ PlannedIn(u, n) = PlannedIn(t, n)
              - IF t[k].status = "planned" /\ t[k].parent = n THEN t[k].total ELSE 0
         /\ SpentIn(u, n) = SpentIn(t, n)
              + IF t[k].parent = n THEN u[k].entryCost - t[k].entryCost ELSE 0
         /\ EarnedIn(u, n) = EarnedIn(t, n)
              + IF t[k].parent = n THEN u[k].proceeds - t[k].proceeds ELSE 0
         /\ t[k].status = "planned" /\ t[k].parent = n => t[k].total <= PlannedIn(t, n)
<1> DEFINE C == children_of(t, n)
           P == PlannedUnder(t, n)
<1>1. GoodTree(u) /\ Len(u) = Len(t)
  BY DEF Moves
<1>2. children_of(u, n) = C
  BY <1>1, Amounts DEF Moves, children_of
<1>3. PlannedUnder(u, n) = P \ {k}
  <2>1. \A m \in C : m # k => (u[m].status = "planned") = (t[m].status = "planned")
    BY Amounts DEF Moves
  <2>2. u[k].status # "planned"
    BY DEF Moves
  <2> QED
    BY <1>2, <2>1, <2>2 DEF PlannedUnder
<1>4. k \in C <=> t[k].parent = n
  BY Amounts DEF children_of
<1>5. k \in P <=> t[k].status = "planned" /\ t[k].parent = n
  BY <1>4 DEF PlannedUnder
<1>6. /\ IsFiniteSet(C) /\ IsFiniteSet(P) /\ IsFiniteSet(P \ {k})
      /\ C \subseteq 1..Len(t) /\ P \subseteq 1..Len(t)
  BY Amounts, FS_Subset
<1>7. \A m \in 1..Len(t) :
        /\ Totals(t)[m] \in Nat /\ Costs(t)[m] \in Nat /\ Proceeds(t)[m] \in Nat
        /\ Totals(u)[m] \in Nat /\ Costs(u)[m] \in Nat /\ Proceeds(u)[m] \in Nat
        /\ m # k => /\ Totals(u)[m] = Totals(t)[m] /\ Costs(u)[m] = Costs(t)[m]
                    /\ Proceeds(u)[m] = Proceeds(t)[m]
  <2> SUFFICES ASSUME NEW m \in 1..Len(t)
               PROVE  /\ Totals(t)[m] \in Nat /\ Costs(t)[m] \in Nat /\ Proceeds(t)[m] \in Nat
                      /\ Totals(u)[m] \in Nat /\ Costs(u)[m] \in Nat /\ Proceeds(u)[m] \in Nat
                      /\ m # k => /\ Totals(u)[m] = Totals(t)[m] /\ Costs(u)[m] = Costs(t)[m]
                                  /\ Proceeds(u)[m] = Proceeds(t)[m]
    OBVIOUS
  <2>1. /\ Totals(t)[m] = t[m].total /\ Costs(t)[m] = t[m].entryCost
        /\ Proceeds(t)[m] = t[m].proceeds
        /\ t[m].total \in Nat /\ t[m].entryCost \in Nat /\ t[m].proceeds \in Nat
    BY Amounts
  <2>2. /\ Totals(u)[m] = u[m].total /\ Costs(u)[m] = u[m].entryCost
        /\ Proceeds(u)[m] = u[m].proceeds
        /\ u[m].total \in Nat /\ u[m].entryCost \in Nat /\ u[m].proceeds \in Nat
    BY <1>1, Amounts
  <2> QED
    BY <2>1, <2>2 DEF Moves
<1>8. SumFunctionOnSet(Totals(u), P \ {k}) = SumFunctionOnSet(Totals(t), P \ {k})
  BY <1>6, <1>7, SumSame
<1>9. SumFunctionOnSet(Totals(t), P \ {k}) \in Nat
  BY <1>6, <1>7, SumType
<1>10. k \in P => PlannedIn(t, n) = t[k].total + SumFunctionOnSet(Totals(t), P \ {k})
  <2>1. ASSUME k \in P
        PROVE  SumFunctionOnSet(Totals(t), P)
                 = Totals(t)[k] + SumFunctionOnSet(Totals(t), P \ {k})
    <3>1. \A x \in P : Totals(t)[x] \in Int
      BY <1>6, <1>7
    <3> HIDE DEF P
    <3> QED
      BY <1>6, <2>1, <3>1, SumTakes
  <2> QED
    BY <2>1, Amounts DEF PlannedIn
<1>11. k \notin P => P \ {k} = P
  OBVIOUS
<1>12. /\ PlannedIn(u, n) = PlannedIn(t, n)
            - IF t[k].status = "planned" /\ t[k].parent = n THEN t[k].total ELSE 0
       /\ t[k].status = "planned" /\ t[k].parent = n => t[k].total <= PlannedIn(t, n)
  <2>1. PlannedIn(u, n) = SumFunctionOnSet(Totals(t), P \ {k})
    BY <1>3, <1>8 DEF PlannedIn
  <2>2. t[k].total \in Nat
    BY Amounts
  <2>3. k \notin P => PlannedIn(u, n) = PlannedIn(t, n)
    BY <2>1, <1>11 DEF PlannedIn
  <2> HIDE DEF P
  <2> QED
    BY <1>5, <1>9, <1>10, <2>1, <2>2, <2>3
<1>13. SpentIn(u, n) = SpentIn(t, n)
         + IF t[k].parent = n THEN u[k].entryCost - t[k].entryCost ELSE 0
  <2>1. \A x \in C : /\ Costs(t)[x] \in Int /\ Costs(u)[x] \in Int
                     /\ x # k => Costs(u)[x] = Costs(t)[x]
    BY <1>6, <1>7
  <2>2. SumFunctionOnSet(Costs(u), C)
          = SumFunctionOnSet(Costs(t), C) + IF k \in C THEN Costs(u)[k] - Costs(t)[k] ELSE 0
    <3> HIDE DEF C
    <3> QED
      BY <1>6, <2>1, SumChanges
  <2>3. Costs(u)[k] = u[k].entryCost /\ Costs(t)[k] = t[k].entryCost
    BY <1>1, Amounts
  <2> QED
    BY <1>2, <1>4, <2>2, <2>3 DEF SpentIn
<1>14. EarnedIn(u, n) = EarnedIn(t, n)
         + IF t[k].parent = n THEN u[k].proceeds - t[k].proceeds ELSE 0
  <2>1. \A x \in C : /\ Proceeds(t)[x] \in Int /\ Proceeds(u)[x] \in Int
                     /\ x # k => Proceeds(u)[x] = Proceeds(t)[x]
    BY <1>6, <1>7
  <2>2. SumFunctionOnSet(Proceeds(u), C)
          = SumFunctionOnSet(Proceeds(t), C)
            + IF k \in C THEN Proceeds(u)[k] - Proceeds(t)[k] ELSE 0
    <3> HIDE DEF C
    <3> QED
      BY <1>6, <2>1, SumChanges
  <2>3. Proceeds(u)[k] = u[k].proceeds /\ Proceeds(t)[k] = t[k].proceeds
    BY <1>1, Amounts
  <2> QED
    BY <1>2, <1>4, <2>2, <2>3 DEF EarnedIn
<1> QED
  BY <1>12, <1>13, <1>14

\* What is reserved stays backed when a planned node takes back all it was planned with.
LEMMA MovedBacked ==
  ASSUME NEW t, GoodTree(t), Older(t), Backed(t), NEW u, NEW k \in 1..Len(t),
         NEW back \in Nat, NEW freed, Moves(t, u, k, back, freed),
         t[k].status = "planned" => back = t[k].total
  PROVE  Backed(u)
<1> SUFFICES ASSUME NEW n \in 1..Len(t) PROVE u[n].reserved <= PlannedIn(u, n)
  BY DEF Backed, Moves
<1>1. /\ PlannedIn(u, n) = PlannedIn(t, n)
           - IF t[k].status = "planned" /\ t[k].parent = n THEN t[k].total ELSE 0
      /\ SpentIn(u, n) = SpentIn(t, n)
           + IF t[k].parent = n THEN u[k].entryCost - t[k].entryCost ELSE 0
      /\ EarnedIn(u, n) = EarnedIn(t, n)
           + IF t[k].parent = n THEN u[k].proceeds - t[k].proceeds ELSE 0
      /\ t[k].status = "planned" /\ t[k].parent = n => t[k].total <= PlannedIn(t, n)
  BY MovedSums
<1>2. /\ t[n].reserved \in Nat /\ PlannedIn(t, n) \in Nat /\ t[k].total \in Nat
      /\ t[k].parent < k /\ k \in Nat /\ t[k].parent \in Nat
  BY Amounts DEF Older
<1>3. t[n].reserved <= PlannedIn(t, n)
  BY DEF Backed
<1>4. u[n].reserved \in Nat
  BY Amounts DEF Moves
<1>5. CASE n = k
  <2>1. u[k].reserved <= t[k].reserved
    BY DEF Moves
  <2>2. t[k].parent # n
    BY <1>2, <1>5
  <2> QED
    BY <1>1, <1>2, <1>3, <1>4, <1>5, <2>1, <2>2
<1>6. CASE n # k
  <2>1. u[n].reserved = IF n = t[k].parent THEN Monus(t[n].reserved, back) ELSE t[n].reserved
    BY <1>6 DEF Moves
  <2> QED
    BY <1>1, <1>2, <1>3, <2>1 DEF Monus
<1> QED
  BY <1>5, <1>6

LEMMA AccountsKept ==
  ASSUME NEW free \in Int, NEW reserved \in Int, NEW spent \in Int, NEW earned \in Int,
         NEW freed \in Int, NEW back \in Int, NEW cost \in Int, NEW proceeds \in Int,
         Accounts(free, reserved, spent, earned), freed + cost = back + proceeds
  PROVE  Accounts(free + freed, reserved - back, spent + cost, earned + proceeds)
BY RuntimeAssumption DEF Accounts

\* The root stays balanced when what is freed and spent on a child is what it gives
\* back and brings in.
LEMMA MovedBalanced ==
  ASSUME NEW t, GoodTree(t), Balanced(t), NEW u, NEW k \in 1..Len(t), k # Root,
         NEW back \in Nat, NEW freed \in Nat, Moves(t, u, k, back, freed),
         t[k].status = "planned" => back = t[k].total,
         t[k].status # "planned" => back = 0,
         freed + (u[k].entryCost - t[k].entryCost) = back + (u[k].proceeds - t[k].proceeds)
  PROVE  Balanced(u)
<1>1. /\ PlannedIn(u, Root) = PlannedIn(t, Root)
           - IF t[k].status = "planned" /\ t[k].parent = Root THEN t[k].total ELSE 0
      /\ SpentIn(u, Root) = SpentIn(t, Root)
           + IF t[k].parent = Root THEN u[k].entryCost - t[k].entryCost ELSE 0
      /\ EarnedIn(u, Root) = EarnedIn(t, Root)
           + IF t[k].parent = Root THEN u[k].proceeds - t[k].proceeds ELSE 0
      /\ t[k].status = "planned" /\ t[k].parent = Root => t[k].total <= PlannedIn(t, Root)
  BY MovedSums
<1>2. /\ t[Root].reserved \in Nat /\ t[Root].free \in Nat /\ PlannedIn(t, Root) \in Nat
      /\ SpentIn(t, Root) \in Nat /\ EarnedIn(t, Root) \in Nat /\ t[k].total \in Nat
      /\ t[k].entryCost \in Nat /\ t[k].proceeds \in Nat /\ Capital \in Nat
  BY Amounts, RuntimeAssumption
<1>3. u[k].entryCost \in Nat /\ u[k].proceeds \in Nat
  BY Amounts DEF Moves
<1>4. /\ u[Root].free = t[Root].free + IF Root = t[k].parent THEN freed ELSE 0
      /\ u[Root].reserved = IF Root = t[k].parent THEN Monus(t[Root].reserved, back)
                            ELSE t[Root].reserved
  BY Amounts DEF Moves
<1>5. /\ Accounts(t[Root].free, t[Root].reserved, SpentIn(t, Root), EarnedIn(t, Root))
      /\ t[Root].reserved = PlannedIn(t, Root)
  BY DEF Balanced
<1>6. CASE t[k].parent # Root
  <2>1. /\ u[Root].free = t[Root].free /\ u[Root].reserved = t[Root].reserved
        /\ PlannedIn(u, Root) = PlannedIn(t, Root) /\ SpentIn(u, Root) = SpentIn(t, Root)
        /\ EarnedIn(u, Root) = EarnedIn(t, Root)
    BY <1>1, <1>2, <1>4, <1>6
  <2> QED
    BY <1>5, <2>1 DEF Balanced
<1>7. CASE t[k].parent = Root
  <2> DEFINE cost == u[k].entryCost - t[k].entryCost
             proceeds == u[k].proceeds - t[k].proceeds
  <2>1. /\ u[Root].free = t[Root].free + freed
        /\ u[Root].reserved = t[Root].reserved - back
        /\ PlannedIn(u, Root) = PlannedIn(t, Root) - back
        /\ SpentIn(u, Root) = SpentIn(t, Root) + cost
        /\ EarnedIn(u, Root) = EarnedIn(t, Root) + proceeds
    <3>1. PlannedIn(u, Root) = PlannedIn(t, Root) - back
      <4>1. CASE t[k].status = "planned"
        BY <1>1, <1>7, <4>1
      <4>2. CASE t[k].status # "planned"
        BY <1>1, <1>2, <4>2
      <4> QED
        BY <4>1, <4>2
    <3>2. back <= t[Root].reserved
      <4>1. CASE t[k].status = "planned"
        BY <1>1, <1>5, <1>7, <4>1
      <4>2. CASE t[k].status # "planned"
        BY <1>2, <4>2
      <4> QED
        BY <4>1, <4>2
    <3>3. u[Root].reserved = t[Root].reserved - back
      <4>1. u[Root].reserved = Monus(t[Root].reserved, back)
        BY <1>4, <1>7
      <4> QED
        BY ONLY <1>2, <3>2, <4>1, back \in Nat DEF Monus
    <3>4. u[Root].free = t[Root].free + freed
      BY <1>4, <1>7
    <3>5. SpentIn(u, Root) = SpentIn(t, Root) + cost /\ EarnedIn(u, Root) = EarnedIn(t, Root) + proceeds
      BY <1>1, <1>7
    <3> QED
      BY <3>1, <3>3, <3>4, <3>5
  <2>2. cost \in Int /\ proceeds \in Int
    <3>1. t[k].entryCost \in Nat /\ u[k].entryCost \in Nat
      BY <1>2, <1>3
    <3>2. t[k].proceeds \in Nat /\ u[k].proceeds \in Nat
      BY <1>2, <1>3
    <3>3. cost \in Int
      BY ONLY <3>1
    <3>4. proceeds \in Int
      BY ONLY <3>2
    <3> QED
      BY <3>3, <3>4
  <2>3. freed + cost = back + proceeds
    OBVIOUS
  <2> HIDE DEF cost, proceeds
  <2>4. /\ t[Root].free \in Int /\ t[Root].reserved \in Int /\ SpentIn(t, Root) \in Int
        /\ EarnedIn(t, Root) \in Int /\ freed \in Int /\ back \in Int
    BY <1>2
  <2>5. Accounts(t[Root].free + freed, t[Root].reserved - back, SpentIn(t, Root) + cost,
                 EarnedIn(t, Root) + proceeds)
    BY ONLY <1>5, <2>2, <2>3, <2>4, AccountsKept, Zenon
  <2> QED
    BY <1>5, <2>1, <2>5 DEF Balanced
<1> QED
  BY <1>6, <1>7

-----------------------------------------------------------------------------
(* What each operation on the tree does to the amounts *)

\* The second tree differs from the first in its clocks and statuses at most, and
\* plans the same nodes.
Alike(t, u) ==
  /\ GoodTree(u) /\ Len(u) = Len(t)
  /\ \A m \in 1..Len(t) :
       /\ u[m].parent = t[m].parent /\ u[m].total = t[m].total /\ u[m].free = t[m].free
       /\ u[m].reserved = t[m].reserved /\ u[m].entryCost = t[m].entryCost
       /\ u[m].proceeds = t[m].proceeds
       /\ u[m].status = "planned" <=> t[m].status = "planned"
       /\ m # Root => u[m].pair = t[m].pair

\* A tree that is alike is as well backed, and as well balanced.
LEMMA AlikeSums ==
  ASSUME NEW t, GoodTree(t), NEW u, Alike(t, u)
  PROVE  (Backed(t) => Backed(u)) /\ (Balanced(t) => Balanced(u))
<1>1. /\ GoodTree(u) /\ Len(u) = Len(t)
      /\ DOMAIN u = 1..Len(t) /\ DOMAIN t = 1..Len(t) /\ Root \in 1..Len(t)
  BY Amounts DEF Alike
<1>2. /\ Totals(u) = Totals(t) /\ Costs(u) = Costs(t) /\ Proceeds(u) = Proceeds(t)
  BY <1>1 DEF Alike, Totals, Costs, Proceeds
<1>3. ASSUME NEW n PROVE children_of(u, n) = children_of(t, n)
  BY <1>1 DEF Alike, children_of
<1>4. ASSUME NEW n PROVE PlannedUnder(u, n) = PlannedUnder(t, n)
  <2>1. \A c \in children_of(t, n) : u[c].status = "planned" <=> t[c].status = "planned"
    BY <1>1 DEF Alike, children_of
  <2> QED
    BY <1>3, <2>1 DEF PlannedUnder
<1>5. \A n : /\ PlannedIn(u, n) = PlannedIn(t, n) /\ SpentIn(u, n) = SpentIn(t, n)
             /\ EarnedIn(u, n) = EarnedIn(t, n)
  BY <1>2, <1>3, <1>4 DEF PlannedIn, SpentIn, EarnedIn
<1>6. \A m \in 1..Len(t) : u[m].free = t[m].free /\ u[m].reserved = t[m].reserved
  BY DEF Alike
<1> QED
  BY <1>1, <1>5, <1>6 DEF Backed, Balanced

\* A node takes the place of one with its parent and its amounts.
LEMMA PutAlike ==
  ASSUME NEW t, GoodTree(t), NEW n \in 1..Len(t), NEW e \in NodeType,
         e.parent = t[n].parent, e.total = t[n].total, e.free = t[n].free,
         e.reserved = t[n].reserved, e.entryCost = t[n].entryCost,
         e.proceeds = t[n].proceeds, e.status = "planned" <=> t[n].status = "planned",
         n # Root => e.pair = t[n].pair
  PROVE  Alike(t, [t EXCEPT ![n] = e])
<1>1. /\ n # Root => e.pair \in Pairs
      /\ e.status = "planned" => n # Root
  BY DEF GoodTree
<1>2. LET u == [t EXCEPT ![n] = e]
      IN /\ GoodTree(u) /\ Len(u) = Len(t)
         /\ \A m \in 1..Len(t) : u[m] = IF m = n THEN e ELSE t[m]
  BY <1>1, PutNode
<1> DEFINE u == [t EXCEPT ![n] = e]
<1> HIDE DEF u
<1>3. GoodTree(u) /\ Len(u) = Len(t) /\ \A m \in 1..Len(t) : u[m] = IF m = n THEN e ELSE t[m]
  BY <1>2 DEF u
<1>4. Alike(t, u)
  BY <1>3 DEF Alike
<1> QED
  BY <1>4 DEF u

LEMMA SameAlike == ASSUME NEW t, GoodTree(t) PROVE Alike(t, t)
BY DEF Alike

\* A status is set that is not and was not planned.
LEMMA StatusAlike ==
  ASSUME NEW t, GoodTree(t), NEW n \in 1..Len(t), t[n].status # "planned",
         NEW status \in Statuses \ {"planned"}
  PROVE  Alike(t, SetStatus(t, n, status))
<1> DEFINE e == [t[n] EXCEPT !.status = status]
<1>1. t[n] \in NodeType
  BY DEF GoodTree
<1>2. /\ e \in NodeType /\ e.parent = t[n].parent /\ e.total = t[n].total /\ e.free = t[n].free
      /\ e.reserved = t[n].reserved /\ e.entryCost = t[n].entryCost
      /\ e.proceeds = t[n].proceeds /\ e.status = status /\ e.pair = t[n].pair
  BY <1>1 DEF NodeType
<1>3. SetStatus(t, n, status) = [t EXCEPT ![n] = e]
  BY DEF SetStatus
<1>4. e.status = "planned" <=> t[n].status = "planned"
  BY <1>2
<1> HIDE DEF e
<1>5. Alike(t, [t EXCEPT ![n] = e])
  BY <1>2, <1>4, PutAlike
<1> QED
  BY <1>3, <1>5

\* A deadline passes, or is put off.
LEMMA DeadlineAlike ==
  ASSUME NEW t, GoodTree(t), NEW n \in 1..Len(t), NEW d \in Deadlines
  PROVE  Alike(t, [t EXCEPT ![n].deadline = d])
<1> DEFINE e == [t[n] EXCEPT !.deadline = d]
<1>1. t[n] \in NodeType
  BY DEF GoodTree
<1>2. /\ e \in NodeType /\ e.parent = t[n].parent /\ e.total = t[n].total /\ e.free = t[n].free
      /\ e.reserved = t[n].reserved /\ e.entryCost = t[n].entryCost
      /\ e.proceeds = t[n].proceeds /\ e.status = t[n].status /\ e.pair = t[n].pair
  BY <1>1 DEF NodeType
<1>3. [t EXCEPT ![n].deadline = d] = [t EXCEPT ![n] = e]
  OBVIOUS
<1> HIDE DEF e
<1> QED
  BY <1>2, <1>3, PutAlike

\* A root gets the pair it is sold through.
LEMMA RootPairAlike ==
  ASSUME NEW t, GoodTree(t)
  PROVE  Alike(t, [t EXCEPT ![Root].pair = RootPair])
<1> DEFINE e == [t[Root] EXCEPT !.pair = RootPair]
<1>1. t[Root] \in NodeType /\ Root \in 1..Len(t)
  BY Amounts
<1>2. /\ e \in NodeType /\ e.parent = t[Root].parent /\ e.total = t[Root].total
      /\ e.free = t[Root].free /\ e.reserved = t[Root].reserved
      /\ e.entryCost = t[Root].entryCost /\ e.proceeds = t[Root].proceeds
      /\ e.status = t[Root].status
  BY <1>1, RuntimeAssumption DEF NodeType
<1>3. [t EXCEPT ![Root].pair = RootPair] = [t EXCEPT ![Root] = e]
  OBVIOUS
<1> HIDE DEF e
<1> QED
  BY <1>1, <1>2, <1>3, PutAlike

\* Trees alike to one another.
LEMMA AlikeAlike ==
  ASSUME NEW t, NEW u, NEW v, Alike(t, u), Alike(u, v)
  PROVE  Alike(t, v)
BY DEF Alike

\* Node p of the second tree has less reserved, and more free; nothing else differs.
Released(t, u, p, back, freed) ==
  /\ GoodTree(u) /\ Len(u) = Len(t)
  /\ \A m \in 1..Len(t) :
       /\ u[m].status = t[m].status /\ u[m].pair = t[m].pair
       /\ u[m].parent = t[m].parent /\ u[m].total = t[m].total
       /\ u[m].entryCost = t[m].entryCost /\ u[m].proceeds = t[m].proceeds
       /\ u[m].free = t[m].free + IF m = p THEN freed ELSE 0
       /\ u[m].reserved = IF m = p THEN Monus(t[m].reserved, back) ELSE t[m].reserved

\* Release touches what the parent holds free and reserved.
LEMMA ReleasedAmounts ==
  ASSUME NEW t, GoodTree(t), NEW p \in 0..Len(t), NEW back \in Nat, NEW freed \in Nat
  PROVE  Released(t, Release(t, p, back, freed), p, back, freed)
<1> DEFINE u == Release(t, p, back, freed)
<1>1. /\ GoodTree(u) /\ Len(u) = Len(t)
      /\ \A m \in 1..Len(t) : /\ u[m].status = t[m].status /\ u[m].pair = t[m].pair
                              /\ u[m].parent = t[m].parent
  BY ReleaseKeeps
<1>2. ASSUME NEW m \in 1..Len(t)
      PROVE  /\ u[m].total = t[m].total
             /\ u[m].entryCost = t[m].entryCost /\ u[m].proceeds = t[m].proceeds
             /\ u[m].free = t[m].free + IF m = p THEN freed ELSE 0
             /\ u[m].reserved = IF m = p THEN Monus(t[m].reserved, back) ELSE t[m].reserved
  <2>1. t[m] \in NodeType /\ t[m].free \in Nat /\ m # NoParent /\ DOMAIN t = 1..Len(t)
    BY Amounts DEF NoParent
  <2>2. CASE m # p
    <3>1. u[m] = t[m]
      BY <2>1, <2>2 DEF Release
    <3> QED
      BY <2>1, <2>2, <3>1
  <2>3. CASE m = p
    <3> DEFINE r == Monus(t[m].reserved, back)
               f == t[m].free + freed
    <3>1. u[m] = [t[m] EXCEPT !.reserved = r, !.free = f]
      BY <2>1, <2>3 DEF Release
    <3> HIDE DEF r, f, u
    <3>2. /\ u[m].total = t[m].total /\ u[m].free = f /\ u[m].reserved = r
          /\ u[m].entryCost = t[m].entryCost /\ u[m].proceeds = t[m].proceeds
      BY <2>1, <3>1 DEF NodeType
    <3> QED
      BY <2>3, <3>2 DEF r, f
  <2> QED
    BY <2>2, <2>3
<1> HIDE DEF u
<1>3. Released(t, u, p, back, freed)
  BY <1>1, <1>2 DEF Released
<1> QED
  BY <1>3 DEF u

\* cancel_planned_node gives back, and frees, all that was set aside.
LEMMA CancelMoves ==
  ASSUME NEW t, GoodTree(t), Older(t), NEW n \in 1..Len(t), t[n].status = "planned"
  PROVE  LET u == cancel_planned_node(t, n)
         IN /\ Moves(t, u, n, t[n].total, t[n].total)
            /\ u[n].entryCost = t[n].entryCost /\ u[n].proceeds = t[n].proceeds
            /\ u[n].status = "cancelled"
<1> DEFINE p == t[n].parent
           v == Release(t, p, t[n].total, t[n].total)
           u == SetStatus(v, n, "cancelled")
           e == [v[n] EXCEPT !.status = "cancelled"]
<1>1. cancel_planned_node(t, n) = u
  BY DEF cancel_planned_node
<1>2. p \in 0..Len(t) /\ p # n /\ t[n].total \in Nat /\ t[n].reserved \in Nat
  <2>1. p \in 0..Len(t) /\ p < n
    BY DEF GoodTree, Older
  <2> QED
    BY <2>1, Amounts
<1>3. Released(t, v, p, t[n].total, t[n].total)
  <2> HIDE DEF p
  <2> QED
    BY <1>2, ReleasedAmounts
<1> HIDE DEF v
<1> USE DEF Released
<1>4. v[n] \in NodeType /\ DOMAIN v = 1..Len(t)
  BY <1>3, Amounts
<1>5. u = [v EXCEPT ![n] = e]
  BY DEF SetStatus
<1>6. Sets(v, u, n, "cancelled")
  BY <1>3, SetStatusSets DEF Statuses
<1>7. /\ e.total = v[n].total /\ e.entryCost = v[n].entryCost /\ e.proceeds = v[n].proceeds
      /\ e.reserved = v[n].reserved
  BY <1>4 DEF NodeType
<1>8. \A m \in 1..Len(t) : u[m] = IF m = n THEN e ELSE v[m]
  BY <1>4, <1>5
<1> HIDE DEF e, u, p
<1>9. Moves(t, u, n, t[n].total, t[n].total)
  <2>1. GoodTree(u) /\ Len(u) = Len(t) /\ u[n].status # "planned"
    BY <1>3, <1>6 DEF Sets
  <2>2. u[n].reserved <= t[n].reserved
    BY <1>2, <1>3, <1>7, <1>8
  <2>3. \A m \in 1..Len(t) : u[m].parent = t[m].parent /\ u[m].pair = t[m].pair
    BY <1>3, <1>6 DEF Sets
  <2> QED
    BY <1>3, <1>8, <2>1, <2>2, <2>3 DEF Moves, p
<1>10. u[n].entryCost = t[n].entryCost /\ u[n].proceeds = t[n].proceeds /\ u[n].status = "cancelled"
  BY <1>3, <1>6, <1>7, <1>8 DEF Sets
<1> QED
  BY <1>1, <1>9, <1>10

CostOf(fill) == IF IsBuy(tree[fill.node]) THEN fill.qty * fill.price ELSE fill.qty

\* A fill of its entry gives back what was set aside for a node, less what it cost.
LEMMA OpenMoves ==
  ASSUME GoodTree(tree), Older(tree), NEW fill \in FillType, fill.node \in 1..Len(tree)
  PROVE  LET n == fill.node
             u == OpenedBy(fill)
         IN /\ CostOf(fill) \in Nat
            /\ Moves(tree, u, n, tree[n].total, Monus(tree[n].total, CostOf(fill)))
            /\ u[n].entryCost = CostOf(fill) /\ u[n].proceeds = tree[n].proceeds
            /\ u[n].status = "open"
<1> DEFINE n == fill.node
           p == tree[n].parent
           cost == CostOf(fill)
           dest == destination_quantity(tree[n], fill.qty, fill.price)
           e == OpenedAs(tree[n], dest, cost)
           v == [tree EXCEPT ![n] = e]
           back == tree[n].total
           freed == Monus(back, cost)
           u == Release(v, p, back, freed)
<1>1. OpenedBy(fill) = u
  BY DEF OpenedBy, OpenedAs, CostOf
<1>2. /\ tree[n] \in NodeType /\ back \in Nat /\ tree[n].reserved \in Nat
      /\ tree[n].proceeds \in Nat /\ DOMAIN tree = 1..Len(tree)
  BY Amounts
<1>3. fill.qty \in Nat /\ fill.price \in Nat /\ fill.qty * fill.price \in Nat
  BY NatOperations DEF FillType
<1>4. cost \in Nat /\ dest \in Nat
  BY <1>3 DEF destination_quantity, CostOf
<1>5. freed \in Nat
  <2> HIDE DEF cost, back
  <2> QED
    BY <1>2, <1>4 DEF Monus
<1>6. p \in 0..Len(tree) /\ p # n
  <2>1. p \in 0..Len(tree) /\ p < n
    BY DEF GoodTree, Older
  <2> QED
    BY <2>1
<1> HIDE DEF cost, dest, freed, back
<1>7. /\ e \in NodeType /\ e.status = "open" /\ e.parent = p /\ e.pair = tree[n].pair
  BY <1>2, <1>4, OpenedNode
<1>8. e.reserved = 0 /\ e.entryCost = cost /\ e.proceeds = tree[n].proceeds
  BY <1>2 DEF OpenedAs, NodeType
<1> HIDE DEF e
<1>9. /\ GoodTree(v) /\ Len(v) = Len(tree)
      /\ \A m \in 1..Len(tree) : v[m] = IF m = n THEN e ELSE tree[m]
  <2>1. n # Root => e.pair \in Pairs
    BY <1>7 DEF GoodTree
  <2> QED
    BY <1>7, <2>1, PutNode
<1> HIDE DEF v
<1>10. Released(v, u, p, back, freed)
  <2> HIDE DEF p
  <2> QED
    BY <1>2, <1>5, <1>6, <1>9, ReleasedAmounts
<1> HIDE DEF u, p
<1> USE DEF Released
<1>11. Moves(tree, u, n, back, freed)
  <2>1. u[n].status # "planned" /\ u[n].reserved <= tree[n].reserved
    BY <1>2, <1>6, <1>7, <1>8, <1>9, <1>10
  <2>2. \A m \in 1..Len(tree) : u[m].parent = tree[m].parent /\ u[m].pair = tree[m].pair
    BY <1>7, <1>9, <1>10 DEF p
  <2> QED
    BY <1>9, <1>10, <2>1, <2>2 DEF Moves, p
<1>12. u[n].entryCost = cost /\ u[n].proceeds = tree[n].proceeds /\ u[n].status = "open"
  BY <1>7, <1>8, <1>9, <1>10
<1> QED
  BY <1>1, <1>4, <1>11, <1>12 DEF cost, back, freed

ProceedsOf(fill) ==
  IF fill.node = Root THEN fill.qty * fill.price
  ELSE exit_proceeds(tree[fill.node], fill.qty, fill.price)

\* A fill of its exit hands its proceeds to the parent of a node.
LEMMA CloseMoves ==
  ASSUME GoodTree(tree), Older(tree), NEW fill \in FillType, fill.node \in 1..Len(tree),
         tree[fill.node].status # "planned"
  PROVE  LET n == fill.node
             u == ClosedBy(fill)
         IN /\ ProceedsOf(fill) \in Nat
            /\ Moves(tree, u, n, 0, ProceedsOf(fill))
            /\ u[n].entryCost = tree[n].entryCost /\ u[n].proceeds = ProceedsOf(fill)
            /\ u[n].status = "closed" /\ u[n].total = tree[n].total
            /\ u[n].free = tree[n].free /\ u[n].reserved = tree[n].reserved
<1> DEFINE n == fill.node
           p == tree[n].parent
           freed == ProceedsOf(fill)
           f == [tree[n] EXCEPT !.status = "closed"]
           e == [tree[n] EXCEPT !.status = "closed", !.proceeds = freed]
           v == [tree EXCEPT ![n] = e]
           u == Release(v, p, 0, freed)
<1>1. ClosedBy(fill) = u
  BY DEF ClosedBy, ProceedsOf
<1>2. /\ tree[n] \in NodeType /\ tree[n].reserved \in Nat /\ tree[n].free \in Nat
      /\ DOMAIN tree = 1..Len(tree)
  BY Amounts
<1>3. fill.qty \in Nat /\ fill.price \in Nat /\ fill.qty * fill.price \in Nat
  BY NatOperations DEF FillType
<1>4. freed \in Nat
  BY <1>3 DEF ProceedsOf, exit_proceeds
<1>5. p \in 0..Len(tree) /\ p # n
  <2>1. p \in 0..Len(tree) /\ p < n
    BY DEF GoodTree, Older
  <2> QED
    BY <2>1
<1> HIDE DEF freed
<1>6. /\ e \in NodeType /\ e.status = "closed" /\ e.parent = p /\ e.pair = tree[n].pair
      /\ e.reserved = tree[n].reserved /\ e.free = tree[n].free /\ e.total = tree[n].total
      /\ e.entryCost = tree[n].entryCost /\ e.proceeds = freed
  <2>1. e = [f EXCEPT !.proceeds = freed]
    OBVIOUS
  <2>2. /\ f \in NodeType /\ f.status = "closed" /\ f.parent = p /\ f.pair = tree[n].pair
        /\ f.reserved = tree[n].reserved /\ f.free = tree[n].free /\ f.total = tree[n].total
        /\ f.entryCost = tree[n].entryCost
    BY <1>2 DEF NodeType, Statuses
  <2> HIDE DEF f, e
  <2> QED
    BY <1>4, <2>1, <2>2 DEF NodeType
<1> HIDE DEF e
<1>7. /\ GoodTree(v) /\ Len(v) = Len(tree)
      /\ \A m \in 1..Len(tree) : v[m] = IF m = n THEN e ELSE tree[m]
  <2>1. n # Root => e.pair \in Pairs
    BY <1>6 DEF GoodTree
  <2> QED
    BY <1>6, <2>1, PutNode
<1> HIDE DEF v
<1>8. Released(v, u, p, 0, freed)
  <2> HIDE DEF p
  <2>1. GoodTree(v) /\ p \in 0..Len(v) /\ 0 \in Nat
    BY <1>5, <1>7
  <2> QED
    BY <1>4, <2>1, ReleasedAmounts
<1> HIDE DEF u, p
<1> USE DEF Released
<1>9. /\ u[n].entryCost = tree[n].entryCost /\ u[n].proceeds = freed /\ u[n].status = "closed"
      /\ u[n].total = tree[n].total
      /\ u[n].free = tree[n].free /\ u[n].reserved = tree[n].reserved
  BY <1>2, <1>5, <1>6, <1>7, <1>8
<1>10. Moves(tree, u, n, 0, freed)
  <2>1. u[n].status # "planned" /\ u[n].reserved <= tree[n].reserved
    BY <1>2, <1>9
  <2>2. \A m \in 1..Len(tree) : u[m].parent = tree[m].parent /\ u[m].pair = tree[m].pair
    BY <1>6, <1>7, <1>8 DEF p
  <2>3. ASSUME NEW m \in 1..Len(tree), m # n
        PROVE  /\ u[m].total = tree[m].total /\ u[m].entryCost = tree[m].entryCost
               /\ u[m].proceeds = tree[m].proceeds /\ u[m].status = tree[m].status
               /\ u[m].free = tree[m].free + IF m = p THEN freed ELSE 0
               /\ u[m].reserved = IF m = p THEN Monus(tree[m].reserved, 0) ELSE tree[m].reserved
    <3>1. v[m] = tree[m]
      BY <1>7, <2>3
    <3> QED
      BY <1>7, <1>8, <3>1
  <2>4. p = tree[n].parent
    BY DEF p
  <2> QED
    BY <1>7, <1>8, <2>1, <2>2, <2>3, <2>4 DEF Moves
<1> QED
  BY <1>1, <1>4, <1>9, <1>10 DEF freed

\* The k nodes planned under n come after the others and share what n has free; the
\* other nodes are as they were.
Grows(t, u, n, k, shares, quantity) ==
  /\ GoodTree(u) /\ k \in Nat /\ Len(u) = Len(t) + k /\ shares \in 0..t[n].free
  /\ quantity \in [1..k -> Nat] /\ shares = SumFunctionOnSet(quantity, 1..k)
  /\ \A m \in 1..Len(t) :
       /\ u[m].parent = t[m].parent /\ u[m].pair = t[m].pair /\ u[m].status = t[m].status
       /\ u[m].total = t[m].total /\ u[m].entryCost = t[m].entryCost
       /\ u[m].proceeds = t[m].proceeds
       /\ u[m].free = IF m = n THEN t[m].free - shares ELSE t[m].free
       /\ u[m].reserved = IF m = n THEN t[m].reserved + shares ELSE t[m].reserved
  /\ \A i \in 1..k :
       /\ u[Len(t) + i].parent = n /\ u[Len(t) + i].status = "planned"
       /\ u[Len(t) + i].total = quantity[i] /\ u[Len(t) + i].reserved = 0
       /\ u[Len(t) + i].entryCost = 0 /\ u[Len(t) + i].proceeds = 0

LEMMA LeafGrows ==
  ASSUME IInv, NEW n \in DOMAIN tree, PlanLeaf(n)
  PROVE  \E k, shares, quantity : Grows(tree, tree', n, k, shares, quantity)
<1>1. /\ DOMAIN tree = 1..Len(tree) /\ Len(tree) \in Nat /\ tree \in Seq(NodeType)
      /\ tree[n] \in NodeType /\ tree[n].free \in Nat /\ tree[n].reserved \in Nat
  BY Sizes, Amounts DEF IInv, TypeInv, GoodTree
<1> DEFINE Spread(a) == [tree EXCEPT ![n] =
               [@ EXCEPT !.free = Monus(tree[n].free, Shares(a)),
                         !.reserved = tree[n].reserved + Shares(a)]]
           Planned(a) == [i \in DOMAIN a |-> Child(tree, n, a[i].pair, a[i].qty)]
<1>2. PICK a \in Allocations(n) : tree' = Spread(a) \o Planned(a)
  BY DEF PlanLeaf
<1>3. Shares(a) \in 0..tree[n].free
  BY DEF Allocations
<1>4. PICK k \in 1..MaxChildren : a \in [1..k -> [pair : Pairs, qty : Lots]]
  <2> DEFINE held == {tree[m].pair : m \in live_nodes(tree)}
  <2>1. a \in UNION {[1..i -> [pair : Pairs \ held, qty : Lots]] : i \in 1..MaxChildren}
    BY DEF Allocations
  <2> HIDE DEF held
  <2>2. PICK i \in 1..MaxChildren : a \in [1..i -> [pair : Pairs \ held, qty : Lots]]
    BY <2>1
  <2>3. a \in [1..i -> [pair : Pairs, qty : Lots]]
    BY <2>2
  <2> QED
    BY <2>3
<1>5. k \in Nat /\ DOMAIN a = 1..k /\ \A i \in 1..k : a[i].pair \in Pairs /\ a[i].qty \in Nat
  <2>1. k \in Nat /\ DOMAIN a = 1..k
    BY <1>4, RuntimeAssumption
  <2>2. ASSUME NEW i \in 1..k PROVE a[i].pair \in Pairs /\ a[i].qty \in Nat
    BY <1>4, RuntimeAssumption
  <2> QED
    BY <2>1, <2>2
<1> DEFINE shares == Shares(a)
           quantity == [i \in 1..k |-> a[i].qty]
           u == Spread(a)
           c == Planned(a)
<1>6. quantity \in [1..k -> Nat] /\ shares = SumFunctionOnSet(quantity, 1..k)
  BY <1>5 DEF Shares
<1>7. \A i \in 1..k : LET x == Child(tree, n, a[i].pair, a[i].qty)
                      IN /\ x \in NodeType /\ x.parent = n /\ x.status = "planned"
                         /\ x.total = a[i].qty /\ x.reserved = 0
                         /\ x.entryCost = 0 /\ x.proceeds = 0
  <2> SUFFICES ASSUME NEW i \in 1..k
               PROVE  LET x == Child(tree, n, a[i].pair, a[i].qty)
                      IN /\ x \in NodeType /\ x.parent = n /\ x.status = "planned"
                         /\ x.total = a[i].qty /\ x.reserved = 0
                         /\ x.entryCost = 0 /\ x.proceeds = 0
    OBVIOUS
  <2>1. Child(tree, n, a[i].pair, a[i].qty) \in NodeType
    BY <1>1, <1>5, ChildIsPlanned
  <2> QED
    BY <2>1 DEF Child
<1>8. c = [i \in 1..k |-> Child(tree, n, a[i].pair, a[i].qty)]
  BY <1>5
<1>9. /\ c \in Seq(NodeType) /\ Len(c) = k
      /\ \A i \in 1..k : /\ c[i].parent = n /\ c[i].status = "planned"
                         /\ c[i].total = quantity[i] /\ c[i].reserved = 0
                         /\ c[i].entryCost = 0 /\ c[i].proceeds = 0
  <2> HIDE DEF c
  <2>1. c \in [1..k -> NodeType]
    BY <1>7, <1>8
  <2>2. c \in Seq(NodeType) /\ Len(c) = k
    BY <1>5, <2>1
  <2> QED
    BY <1>7, <1>8, <2>2
<1>10. /\ u \in Seq(NodeType) /\ Len(u) = Len(tree)
       /\ \A m \in 1..Len(tree) :
            /\ u[m].parent = tree[m].parent /\ u[m].pair = tree[m].pair
            /\ u[m].status = tree[m].status
            /\ u[m].total = tree[m].total /\ u[m].entryCost = tree[m].entryCost
            /\ u[m].proceeds = tree[m].proceeds
            /\ u[m].free = IF m = n THEN tree[m].free - shares ELSE tree[m].free
            /\ u[m].reserved = IF m = n THEN tree[m].reserved + shares ELSE tree[m].reserved
  <2> DEFINE free == Monus(tree[n].free, shares)
             kept == tree[n].reserved + shares
             f == [tree[n] EXCEPT !.free = free]
             e == [tree[n] EXCEPT !.free = free, !.reserved = kept]
  <2>1. free = tree[n].free - shares /\ free \in Nat /\ kept \in Nat
    <3> HIDE DEF shares
    <3> QED
      BY <1>1, <1>3 DEF Monus, shares
  <2>2. u = [tree EXCEPT ![n] = e] /\ e = [f EXCEPT !.reserved = kept]
    OBVIOUS
  <2> HIDE DEF free, kept, u, e
  <2>3. /\ f \in NodeType /\ f.parent = tree[n].parent /\ f.pair = tree[n].pair
        /\ f.status = tree[n].status /\ f.total = tree[n].total
        /\ f.entryCost = tree[n].entryCost /\ f.proceeds = tree[n].proceeds /\ f.free = free
    BY <1>1, <2>1 DEF NodeType
  <2> HIDE DEF f
  <2>4. /\ e \in NodeType /\ e.parent = tree[n].parent /\ e.pair = tree[n].pair
        /\ e.status = tree[n].status /\ e.total = tree[n].total
        /\ e.entryCost = tree[n].entryCost /\ e.proceeds = tree[n].proceeds /\ e.free = free
        /\ e.reserved = kept
    BY <2>1, <2>2, <2>3 DEF NodeType
  <2>5. /\ u \in Seq(NodeType) /\ Len(u) = Len(tree)
        /\ \A m \in 1..Len(tree) : u[m] = IF m = n THEN e ELSE tree[m]
    BY <1>1, <2>2, <2>4, ExceptSeq
  <2> QED
    BY <2>1, <2>4, <2>5 DEF kept
<1> HIDE DEF u, c, shares, quantity
<1>11. /\ Len(tree') = Len(tree) + k
       /\ \A m \in 1..Len(tree) : tree'[m] = u[m]
       /\ \A i \in 1..k : tree'[Len(tree) + i] = c[i]
  <2>1. /\ u \o c \in Seq(NodeType) /\ Len(u \o c) = Len(u) + Len(c)
        /\ \A m \in 1..Len(u) + Len(c) :
             (u \o c)[m] = IF m <= Len(u) THEN u[m] ELSE c[m - Len(u)]
    <3>1. u \in Seq(NodeType) /\ c \in Seq(NodeType)
      BY <1>9, <1>10
    <3> QED
      BY <3>1, ConcatProperties
  <2>2. tree' = u \o c
    BY <1>2 DEF u, c
  <2>3. \A m \in 1..Len(tree) : m \in 1..(Len(tree) + k) /\ m <= Len(tree)
    BY <1>1, <1>5
  <2>4. \A i \in 1..k : /\ Len(tree) + i \in 1..(Len(tree) + k) /\ ~ (Len(tree) + i <= Len(tree))
                        /\ (Len(tree) + i) - Len(tree) = i
    BY <1>1, <1>5
  <2> QED
    BY <1>9, <1>10, <2>1, <2>2, <2>3, <2>4
<1>12. GoodTree(tree')
  BY PlanLeafExtends
<1>13. Grows(tree, tree', n, k, shares, quantity)
  <2>1. shares \in 0..tree[n].free
    BY <1>3 DEF shares
  <2>2. \A m \in 1..Len(tree) :
          /\ tree'[m].parent = tree[m].parent /\ tree'[m].pair = tree[m].pair
          /\ tree'[m].status = tree[m].status
          /\ tree'[m].total = tree[m].total /\ tree'[m].entryCost = tree[m].entryCost
          /\ tree'[m].proceeds = tree[m].proceeds
          /\ tree'[m].free = IF m = n THEN tree[m].free - shares ELSE tree[m].free
          /\ tree'[m].reserved = IF m = n THEN tree[m].reserved + shares ELSE tree[m].reserved
    BY <1>10, <1>11
  <2>3. \A i \in 1..k :
          /\ tree'[Len(tree) + i].parent = n /\ tree'[Len(tree) + i].status = "planned"
          /\ tree'[Len(tree) + i].total = quantity[i] /\ tree'[Len(tree) + i].reserved = 0
          /\ tree'[Len(tree) + i].entryCost = 0 /\ tree'[Len(tree) + i].proceeds = 0
    BY <1>9, <1>11
  <2> QED
    BY <1>5, <1>6, <1>11, <1>12, <2>1, <2>2, <2>3 DEF Grows
<1> QED
  BY <1>13

\* What has grown adds the shares to what is planned under n, and nothing else.
LEMMA GrownSums ==
  ASSUME NEW t, GoodTree(t), Older(t), NEW n \in 1..Len(t), NEW u, NEW k, NEW shares,
         NEW quantity, Grows(t, u, n, k, shares, quantity), NEW m \in 1..Len(t)
  PROVE  /\ PlannedIn(u, m) = PlannedIn(t, m) + IF m = n THEN shares ELSE 0
         /\ SpentIn(u, m) = SpentIn(t, m) /\ EarnedIn(u, m) = EarnedIn(t, m)
<1> DEFINE new == (Len(t) + 1)..(Len(t) + k)
           C == children_of(t, m)
           P == PlannedUnder(t, m)
           none == [i \in 1..k |-> 0]
<1>1. /\ GoodTree(u) /\ k \in Nat /\ Len(u) = Len(t) + k /\ Len(t) \in Nat
      /\ DOMAIN t = 1..Len(t) /\ DOMAIN u = 1..(Len(t) + k)
      /\ C \subseteq 1..Len(t) /\ P \subseteq 1..Len(t) /\ IsFiniteSet(C) /\ IsFiniteSet(P)
  <2>1. GoodTree(u) /\ k \in Nat /\ Len(u) = Len(t) + k
    BY DEF Grows
  <2>2. DOMAIN u = 1..Len(u)
    BY <2>1, Amounts
  <2> QED
    BY <2>1, <2>2, Amounts
<1>2. ASSUME NEW x \in new
      PROVE  /\ x \in 1..(Len(t) + k) /\ x \notin 1..Len(t)
             /\ u[x].parent = n /\ u[x].status = "planned"
  <2>1. x - Len(t) \in 1..k /\ x = Len(t) + (x - Len(t))
    BY <1>1
  <2>2. /\ u[Len(t) + (x - Len(t))].parent = n
        /\ u[Len(t) + (x - Len(t))].status = "planned"
    BY <2>1 DEF Grows
  <2> QED
    BY <1>1, <2>1, <2>2
<1>3. 1..(Len(t) + k) = 1..Len(t) \cup new
  BY <1>1
<1>4. \A c \in 1..Len(t) : u[c].parent = t[c].parent /\ u[c].status = t[c].status
  BY DEF Grows
<1>5. /\ children_of(u, m) = C \cup IF m = n THEN new ELSE {}
      /\ PlannedUnder(u, m) = P \cup IF m = n THEN new ELSE {}
  <2> HIDE DEF new
  <2>1. children_of(u, m) = C \cup IF m = n THEN new ELSE {}
    BY <1>1, <1>2, <1>3, <1>4 DEF children_of
  <2>2. \A c \in C : u[c].status = t[c].status
    BY <1>1, <1>4
  <2> HIDE DEF C
  <2> QED
    BY <1>2, <2>1, <2>2 DEF PlannedUnder, C
<1>6. /\ \A x \in 1..Len(t) :
           /\ Totals(t)[x] \in Int /\ Costs(t)[x] \in Int /\ Proceeds(t)[x] \in Int
           /\ Totals(u)[x] = Totals(t)[x] /\ Costs(u)[x] = Costs(t)[x]
           /\ Proceeds(u)[x] = Proceeds(t)[x]
      /\ \A i \in 1..k : /\ Totals(u)[Len(t) + i] = quantity[i] /\ quantity[i] \in Int
                         /\ Costs(u)[Len(t) + i] = none[i] /\ none[i] \in Int
                         /\ Proceeds(u)[Len(t) + i] = none[i]
  <2>1. ASSUME NEW x \in 1..Len(t)
        PROVE  /\ Totals(t)[x] \in Int /\ Costs(t)[x] \in Int /\ Proceeds(t)[x] \in Int
               /\ Totals(u)[x] = Totals(t)[x] /\ Costs(u)[x] = Costs(t)[x]
               /\ Proceeds(u)[x] = Proceeds(t)[x]
    <3>1. x \in 1..(Len(t) + k)
      BY <1>1
    <3>2. /\ Totals(t)[x] = t[x].total /\ Costs(t)[x] = t[x].entryCost
          /\ Proceeds(t)[x] = t[x].proceeds
          /\ t[x].total \in Nat /\ t[x].entryCost \in Nat /\ t[x].proceeds \in Nat
      BY Amounts
    <3>3. /\ Totals(u)[x] = u[x].total /\ Costs(u)[x] = u[x].entryCost
          /\ Proceeds(u)[x] = u[x].proceeds
      BY <1>1, <3>1 DEF Totals, Costs, Proceeds
    <3>4. u[x].total = t[x].total /\ u[x].entryCost = t[x].entryCost /\ u[x].proceeds = t[x].proceeds
      BY DEF Grows
    <3> QED
      BY <3>2, <3>3, <3>4
  <2>2. ASSUME NEW i \in 1..k
        PROVE  /\ Totals(u)[Len(t) + i] = quantity[i] /\ quantity[i] \in Int
               /\ Costs(u)[Len(t) + i] = none[i] /\ none[i] \in Int
               /\ Proceeds(u)[Len(t) + i] = none[i]
    <3>1. Len(t) + i \in DOMAIN u
      BY <1>1
    <3>2. quantity \in [1..k -> Nat]
      BY DEF Grows
    <3>3. /\ u[Len(t) + i].total = quantity[i] /\ u[Len(t) + i].entryCost = 0
          /\ u[Len(t) + i].proceeds = 0
      BY DEF Grows
    <3> QED
      BY <3>1, <3>2, <3>3 DEF Totals, Costs, Proceeds
  <2> QED
    BY <2>1, <2>2
<1>7. SumFunctionOnSet(none, 1..k) = 0
  <2>1. 1 \in Int /\ k \in Int
    BY <1>1
  <2>2. IsFiniteSet(1..k)
    BY <2>1, Intervals
  <2>3. \A i \in 1..k : none[i] = 0
    OBVIOUS
  <2> HIDE DEF none
  <2> QED
    BY <2>2, <2>3, SumNothing
<1>8. PlannedIn(u, m) = PlannedIn(t, m) + IF m = n THEN shares ELSE 0
  <2>1. ASSUME m = n
        PROVE  AddUp(Totals(u), P \cup new, Totals(t), P, quantity, k)
    <3>1. /\ \A x \in P : Totals(t)[x] \in Int
          /\ \A x \in P : Totals(u)[x] = Totals(t)[x]
      BY <1>1, <1>6
    <3>2. /\ \A i \in 1..k : quantity[i] \in Int
          /\ \A i \in 1..k : Totals(u)[Len(t) + i] = quantity[i]
      BY <1>6
    <3>3. Len(t) \in Nat /\ k \in Nat /\ P \subseteq 1..Len(t)
      BY <1>1
    <3> HIDE DEF P, none
    <3> QED
      BY ONLY <3>1, <3>2, <3>3, SumAppends, Zenon
  <2>2. SumFunctionOnSet(Totals(u), P) = SumFunctionOnSet(Totals(t), P)
    <3>1. \A x \in P : Totals(u)[x] = Totals(t)[x]
      BY <1>1, <1>6
    <3> HIDE DEF P
    <3> QED
      BY <1>1, <3>1, SumSame
  <2>3. shares = SumFunctionOnSet(quantity, 1..k)
    BY DEF Grows
  <2>4. PlannedIn(t, m) \in Nat
    BY Amounts
  <2>5. CASE m = n
    <3>1. PlannedUnder(u, m) = P \cup new
      BY <1>5, <2>5
    <3> QED
      BY <2>1, <2>3, <2>5, <3>1 DEF PlannedIn, AddUp
  <2>6. CASE m # n
    <3>1. PlannedUnder(u, m) = P
      BY <1>5, <2>6
    <3>2. PlannedIn(u, m) = PlannedIn(t, m)
      BY <2>2, <3>1 DEF PlannedIn
    <3> QED
      BY <2>4, <2>6, <3>2
  <2> QED
    BY <2>5, <2>6
<1>9. ASSUME NEW f, NEW g, \A x \in C : f[x] \in Int /\ g[x] = f[x],
             \A i \in 1..k : g[Len(t) + i] = none[i] /\ none[i] \in Int
      PROVE  SumFunctionOnSet(g, children_of(u, m)) = SumFunctionOnSet(f, C)
  <2>1. AddUp(g, C \cup new, f, C, none, k)
    <3>1. /\ \A x \in C : f[x] \in Int
          /\ \A x \in C : g[x] = f[x]
      BY <1>9
    <3>2. /\ \A i \in 1..k : none[i] \in Int
          /\ \A i \in 1..k : g[Len(t) + i] = none[i]
      BY <1>9
    <3>3. Len(t) \in Nat /\ k \in Nat /\ C \subseteq 1..Len(t)
      BY <1>1
    <3> HIDE DEF C, none
    <3> QED
      BY ONLY <3>1, <3>2, <3>3, SumAppends, Zenon
  <2>2. SumFunctionOnSet(g, C) = SumFunctionOnSet(f, C)
    <3> HIDE DEF C
    <3> QED
      BY <1>1, <1>9, SumSame
  <2>3. SumFunctionOnSet(f, C) \in Int
    <3> HIDE DEF C
    <3> QED
      BY <1>1, <1>9, SumType
  <2>4. SumFunctionOnSet(g, C \cup new) = SumFunctionOnSet(f, C)
    BY <1>7, <2>1, <2>3 DEF AddUp
  <2>5. children_of(u, m) = C \cup new \/ children_of(u, m) = C
    BY <1>5
  <2> QED
    BY <2>2, <2>4, <2>5
<1>10. \A x \in C : /\ Costs(t)[x] \in Int /\ Costs(u)[x] = Costs(t)[x]
                    /\ Proceeds(t)[x] \in Int /\ Proceeds(u)[x] = Proceeds(t)[x]
  BY <1>1, <1>6
<1>11. SpentIn(u, m) = SpentIn(t, m)
  BY <1>6, <1>9, <1>10 DEF SpentIn
<1>12. EarnedIn(u, m) = EarnedIn(t, m)
  BY <1>6, <1>9, <1>10 DEF EarnedIn
<1> QED
  BY <1>8, <1>11, <1>12

-----------------------------------------------------------------------------
(* Reserved capital is backed *)

\* An amount and a price that a planned node may be entered with.
AsPlanned(n, quantity, price) ==
  tree[n].status = "planned" =>
    quantity <= entry_base_quantity(tree[n]) /\ price = PriceOf[tree[n].pair]

\* An entry is for what its node is planned with; no exit is of a planned node.
OnPlan(o) ==
  /\ orders[o].filled <= orders[o].qty
  /\ IF orders[o].kind = "rotation_entry"
       THEN AsPlanned(orders[o].node, orders[o].qty, orders[o].price)
       ELSE StatusOf(o) # "planned"

\* A message tells of a part of what was executed, at the order's price.
Executed(message) ==
  /\ message.qty <= orders[message.order].qty /\ message.price = orders[message.order].price
  /\ orders[message.order].filled > 0

Fresh(t) == \A n \in 1..Len(t) : t[n].status = "planned" => t[n].entryCost = 0 /\ t[n].proceeds = 0

PlanInv ==
  /\ Older(tree) /\ Backed(tree) /\ Fresh(tree)
  /\ \A o \in 1..Len(orders) : OnPlan(o)
  /\ \A i \in 1..Len(feed) : Executed(feed[i])
  /\ \A i \in 1..Len(fillQueue) :
       fillQueue[i].kind = "rotation_exit" => tree[fillQueue[i].node].status # "planned"
  /\ pc = "monitor" => \A n \in work : n \in 1..Len(tree) /\ tree[n].status # "planned"

\* The nodes planned before are planned as they were, if at all.
TreeKept ==
  /\ Older(tree') /\ Backed(tree') /\ Fresh(tree') /\ Len(tree') \in Nat /\ Len(tree') >= Len(tree)
  /\ \A m \in 1..Len(tree) :
       tree'[m].status = "planned" =>
         /\ tree[m].status = "planned" /\ tree'[m].total = tree[m].total
         /\ tree'[m].pair = tree[m].pair

LEMMA AlikeKept ==
  ASSUME GoodTree(tree), PlanInv, Alike(tree, tree')
  PROVE  TreeKept
<1>1. Backed(tree')
  BY AlikeSums DEF PlanInv
<1>2. Len(tree') = Len(tree) /\ Len(tree) \in Nat
  BY Amounts DEF Alike
<1>3. Older(tree') /\ Fresh(tree')
  BY <1>2 DEF Alike, Older, Fresh, PlanInv
<1>4. ASSUME NEW m \in 1..Len(tree), tree'[m].status = "planned"
      PROVE  /\ tree[m].status = "planned" /\ tree'[m].total = tree[m].total
             /\ tree'[m].pair = tree[m].pair
  <2>1. tree[m].status = "planned"
    BY <1>4 DEF Alike
  <2>2. m # Root
    BY <2>1 DEF GoodTree
  <2> QED
    BY <2>1, <2>2 DEF Alike
<1> QED
  BY <1>1, <1>2, <1>3, <1>4 DEF TreeKept

LEMMA MovesKept ==
  ASSUME GoodTree(tree), PlanInv, NEW n \in 1..Len(tree), NEW back \in Nat, NEW freed,
         Moves(tree, tree', n, back, freed), tree[n].status = "planned" => back = tree[n].total
  PROVE  TreeKept
<1>1. Backed(tree')
  BY MovedBacked DEF PlanInv
<1>2. Len(tree') = Len(tree) /\ Len(tree) \in Nat
  BY Amounts DEF Moves
<1>3. Older(tree')
  BY <1>2 DEF Moves, Older, PlanInv
<1>4. Fresh(tree')
  BY <1>2 DEF Moves, Fresh, PlanInv
<1>5. ASSUME NEW m \in 1..Len(tree), tree'[m].status = "planned"
      PROVE  /\ tree[m].status = "planned" /\ tree'[m].total = tree[m].total
             /\ tree'[m].pair = tree[m].pair
  BY <1>5 DEF Moves
<1> QED
  BY <1>1, <1>2, <1>3, <1>4, <1>5 DEF TreeKept

LEMMA CancelKept ==
  ASSUME GoodTree(tree), PlanInv, NEW n \in 1..Len(tree), tree' = cancel_planned_node(tree, n)
  PROVE  TreeKept
<1>1. CASE tree[n].status # "planned"
  <2>1. tree' = tree
    BY <1>1 DEF cancel_planned_node
  <2> QED
    BY <2>1, SameAlike, AlikeKept
<1>2. CASE tree[n].status = "planned"
  <2>1. Moves(tree, tree', n, tree[n].total, tree[n].total)
    BY <1>2, CancelMoves DEF PlanInv
  <2>2. tree[n].total \in Nat
    BY Amounts
  <2> QED
    BY <2>1, <2>2, MovesKept
<1> QED
  BY <1>1, <1>2

LEMMA SettleKept ==
  ASSUME IInv, PlanInv, Settle
  PROVE  TreeKept
<1> DEFINE fill == Head(fillQueue)
<1>1. /\ GoodTree(tree) /\ Older(tree) /\ fillQueue # <<>> /\ fillQueue \in Seq(FillType)
      /\ \A i \in 1..Len(fillQueue) : fillQueue[i].node \in 1..Len(tree)
      /\ tree' = IF fill.kind = "rotation_entry" THEN OpenedBy(fill) ELSE ClosedBy(fill)
  BY DEF IInv, TypeInv, PlanInv, Settle, OfNode
<1>2. 1 \in 1..Len(fillQueue) /\ fill = fillQueue[1]
  BY <1>1
<1>3. /\ fill \in FillType /\ fill.node \in 1..Len(tree)
      /\ fill.kind = "rotation_exit" => tree[fill.node].status # "planned"
  BY <1>1, <1>2 DEF PlanInv
<1> HIDE DEF fill
<1>4. CASE fill.kind = "rotation_entry"
  <2>1. Moves(tree, OpenedBy(fill), fill.node, tree[fill.node].total,
              Monus(tree[fill.node].total, CostOf(fill)))
    BY <1>1, <1>3, OpenMoves
  <2>2. tree[fill.node].total \in Nat
    BY <1>1, <1>3, Amounts
  <2>3. tree' = OpenedBy(fill)
    BY <1>1, <1>4
  <2> QED
    BY <1>1, <1>3, <2>1, <2>2, <2>3, MovesKept
<1>5. CASE fill.kind # "rotation_entry"
  <2>1. tree[fill.node].status # "planned" /\ tree' = ClosedBy(fill)
    BY <1>1, <1>3, <1>5 DEF FillType, Kinds
  <2>2. Moves(tree, ClosedBy(fill), fill.node, 0, ProceedsOf(fill))
    BY <1>1, <1>3, <2>1, CloseMoves
  <2>3. 0 \in Nat
    OBVIOUS
  <2> QED
    BY <1>1, <1>3, <2>1, <2>2, <2>3, MovesKept
<1> QED
  BY <1>4, <1>5

LEMMA GrowsKept ==
  ASSUME GoodTree(tree), PlanInv, NEW n \in 1..Len(tree), NEW k, NEW shares, NEW quantity,
         Grows(tree, tree', n, k, shares, quantity)
  PROVE  TreeKept
<1>1. /\ GoodTree(tree') /\ k \in Nat /\ Len(tree') = Len(tree) + k /\ Len(tree) \in Nat
      /\ shares \in Nat /\ Older(tree)
  <2>1. tree[n].free \in Nat /\ shares \in 0..tree[n].free
    BY Amounts DEF Grows
  <2> QED
    BY <2>1, Amounts DEF Grows, PlanInv
<1>2. ASSUME NEW m \in 1..Len(tree'), m \notin 1..Len(tree)
      PROVE  /\ tree'[m].parent = n /\ tree'[m].reserved = 0
             /\ tree'[m].entryCost = 0 /\ tree'[m].proceeds = 0 /\ n < m
  <2>1. m - Len(tree) \in 1..k /\ m = Len(tree) + (m - Len(tree)) /\ n < m
    BY <1>1, <1>2
  <2> QED
    BY <2>1 DEF Grows
<1>3. \A m \in 1..Len(tree) :
        /\ tree'[m].parent = tree[m].parent /\ tree'[m].pair = tree[m].pair
        /\ tree'[m].status = tree[m].status /\ tree'[m].total = tree[m].total
        /\ tree'[m].entryCost = tree[m].entryCost /\ tree'[m].proceeds = tree[m].proceeds
        /\ tree'[m].reserved = IF m = n THEN tree[m].reserved + shares ELSE tree[m].reserved
  BY DEF Grows
<1>4. Older(tree')
  BY <1>1, <1>2, <1>3 DEF Older
<1>5. Fresh(tree')
  BY <1>2, <1>3 DEF Fresh, PlanInv
<1>6. Backed(tree')
  <2> SUFFICES ASSUME NEW m \in 1..Len(tree') PROVE tree'[m].reserved <= PlannedIn(tree', m)
    BY DEF Backed
  <2>1. CASE m \in 1..Len(tree)
    <3>1. PlannedIn(tree', m) = PlannedIn(tree, m) + IF m = n THEN shares ELSE 0
      BY <1>1, <2>1, GrownSums
    <3>2. tree[m].reserved \in Nat /\ PlannedIn(tree, m) \in Nat
      BY <2>1, Amounts
    <3>3. tree[m].reserved <= PlannedIn(tree, m)
      BY <2>1 DEF Backed, PlanInv
    <3> QED
      BY <1>1, <1>3, <2>1, <3>1, <3>2, <3>3
  <2>2. CASE m \notin 1..Len(tree)
    <3>1. PlannedIn(tree', m) \in Nat
      BY <1>1, Amounts
    <3> QED
      BY <1>2, <2>2, <3>1
  <2> QED
    BY <2>1, <2>2
<1> QED
  BY <1>1, <1>3, <1>4, <1>5, <1>6 DEF TreeKept

\* Orders stay for what they were placed; more of them may be executed, and those
\* placed are as planned.
OrdersKept(os, us) ==
  /\ us \in Seq(OrderType) /\ Len(us) >= Len(os)
  /\ \A o \in 1..Len(os) :
       /\ us[o].node = os[o].node /\ us[o].kind = os[o].kind
       /\ us[o].qty = os[o].qty /\ us[o].price = os[o].price
       /\ us[o].filled >= os[o].filled
       /\ os[o].filled <= os[o].qty => us[o].filled <= us[o].qty

Placed == \A o \in 1..Len(orders') : o \notin 1..Len(orders) => OnPlan(o)'

\* The plan stays in order.
PlanStays == PlanInv' /\ TreeKept /\ OrdersKept(orders, orders')

\* What keeps the plan in order.
LEMMA PlanFrame ==
  ASSUME IInv, PlanInv, TreeKept, OrdersKept(orders, orders'), Placed,
         (\A i \in 1..Len(feed) : Executed(feed[i]))',
         \A i \in 1..Len(fillQueue') :
           fillQueue'[i].kind = "rotation_exit" =>
             fillQueue'[i].node \in 1..Len(tree) /\ tree[fillQueue'[i].node].status # "planned",
         pc' = "monitor" =>
           \A n \in work' : n \in 1..Len(tree) /\ tree[n].status # "planned"
  PROVE  PlanStays
<1>1. Older(tree') /\ Backed(tree') /\ Fresh(tree')
  BY DEF TreeKept
<1>2. ASSUME NEW o \in 1..Len(orders') PROVE OnPlan(o)'
  <2>1. CASE o \in 1..Len(orders)
    <3>1. OnPlan(o) /\ orders[o].node \in 1..Len(tree)
      BY <2>1, Sizes DEF PlanInv, IInv
    <3>2. /\ orders'[o].node = orders[o].node /\ orders'[o].kind = orders[o].kind
          /\ orders'[o].qty = orders[o].qty /\ orders'[o].price = orders[o].price
          /\ orders[o].filled <= orders[o].qty => orders'[o].filled <= orders'[o].qty
      BY <2>1 DEF OrdersKept
    <3> DEFINE n == orders[o].node
    <3>3. tree'[n].status = "planned" =>
            /\ tree[n].status = "planned" /\ tree'[n].total = tree[n].total
            /\ tree'[n].pair = tree[n].pair
      BY <3>1 DEF TreeKept
    <3>4. CASE orders[o].kind = "rotation_entry"
      <4>1. AsPlanned(n, orders[o].qty, orders[o].price)
        BY <3>1, <3>4 DEF OnPlan
      <4>2. AsPlanned(n, orders[o].qty, orders[o].price)'
        <5> SUFFICES ASSUME tree'[n].status = "planned"
                     PROVE  /\ orders'[o].qty <= entry_base_quantity(tree'[n])
                            /\ orders'[o].price = PriceOf[tree'[n].pair]
          BY <3>2 DEF AsPlanned
        <5>1. entry_base_quantity(tree'[n]) = entry_base_quantity(tree[n])
          BY <3>3 DEF entry_base_quantity, IsBuy
        <5> QED
          BY <3>2, <3>3, <4>1, <5>1 DEF AsPlanned
      <4> QED
        BY <3>1, <3>2, <3>4, <4>2 DEF OnPlan
    <3>5. CASE orders[o].kind # "rotation_entry"
      BY <3>1, <3>2, <3>3, <3>5 DEF OnPlan, StatusOf
    <3> QED
      BY <3>4, <3>5
  <2>2. CASE o \notin 1..Len(orders)
    BY <2>2 DEF Placed
  <2> QED
    BY <2>1, <2>2
<1>3. \A m \in 1..Len(tree) : tree[m].status # "planned" => tree'[m].status # "planned"
  BY DEF TreeKept
<1>4. \A n \in 1..Len(tree) : n \in 1..Len(tree')
  BY Sizes DEF TreeKept, IInv
<1>5. (\A o \in 1..Len(orders) : OnPlan(o))'
  BY <1>2
<1>6. (\A i \in 1..Len(feed) : Executed(feed[i]))'
  OBVIOUS
<1>7. (\A i \in 1..Len(fillQueue) :
         fillQueue[i].kind = "rotation_exit" => tree[fillQueue[i].node].status # "planned")'
  BY <1>3
<1>8. (pc = "monitor" => \A n \in work : n \in 1..Len(tree) /\ tree[n].status # "planned")'
  BY <1>3, <1>4
<1>9. PlanInv'
  BY <1>1, <1>5, <1>6, <1>7, <1>8 DEF PlanInv
<1> QED
  BY <1>9 DEF PlanStays

\* A step that hands no message over and settles no fill keeps it in order.
LEMMA PlanSteady ==
  ASSUME IInv, PlanInv, TreeKept, OrdersKept(orders, orders'), Placed,
         UNCHANGED <<feed, fillQueue>>,
         pc' = "monitor" => pc = "monitor" /\ work' \subseteq work
  PROVE  PlanStays
<1>1. ASSUME NEW i \in 1..Len(feed) PROVE Executed(feed[i])'
  <2> DEFINE o == feed[i].order
  <2>1. Executed(feed[i]) /\ o \in 1..Len(orders) /\ feed' = feed
    BY DEF PlanInv, IInv, TypeInv
  <2>2. /\ orders'[o].qty = orders[o].qty /\ orders'[o].price = orders[o].price
        /\ orders'[o].filled >= orders[o].filled
    BY <2>1 DEF OrdersKept
  <2>3. orders[o].filled \in Nat /\ orders'[o].filled \in Nat
    <3>1. o \in 1..Len(orders') /\ orders' \in Seq(OrderType) /\ orders[o] \in OrderType
      BY <2>1, Sizes DEF OrdersKept, IInv
    <3>2. orders'[o] \in OrderType
      BY <3>1
    <3> QED
      BY <3>1, <3>2 DEF OrderType
  <2> QED
    BY <2>1, <2>2, <2>3 DEF Executed
<1>2. (\A i \in 1..Len(feed) : Executed(feed[i]))'
  BY <1>1
<1>3. \A i \in 1..Len(fillQueue') :
        fillQueue'[i].kind = "rotation_exit" =>
          fillQueue'[i].node \in 1..Len(tree) /\ tree[fillQueue'[i].node].status # "planned"
  BY DEF PlanInv, IInv, TypeInv, OfNode
<1>4. pc' = "monitor" => \A n \in work' : n \in 1..Len(tree) /\ tree[n].status # "planned"
  BY DEF PlanInv
<1> QED
  BY <1>2, <1>3, <1>4, PlanFrame

LEMMA OrdersStay == ASSUME IInv PROVE OrdersKept(orders, orders)
<1>1. orders \in Seq(OrderType) /\ \A o \in 1..Len(orders) : orders[o] \in OrderType
  BY Sizes DEF IInv, TypeInv, GoodOrders
<1>2. Len(orders) \in Nat
  BY <1>1
<1>3. \A o \in 1..Len(orders) : orders[o].filled \in Nat
  BY <1>1 DEF OrderType
<1> QED
  BY <1>1, <1>2, <1>3 DEF OrdersKept

LEMMA SameOrders ==
  ASSUME IInv, orders' = orders
  PROVE  OrdersKept(orders, orders') /\ Placed
BY OrdersStay DEF Placed

\* A step without the tree and the orders.
LEMMA PlanQuiet ==
  ASSUME IInv, PlanInv, UNCHANGED <<orders, tree, feed, fillQueue>>,
         pc' = "monitor" => pc = "monitor" /\ work' \subseteq work
  PROVE  PlanStays
<1>1. TreeKept
  BY SameAlike, AlikeKept DEF IInv, TypeInv
<1> QED
  BY <1>1, SameOrders, PlanSteady

\* An order placed is the last one, and leaves the others as they were.
LEMMA PlacedKept ==
  ASSUME NEW os \in Seq(OrderType), NEW n \in Nat, NEW kind \in Kinds, NEW quantity \in Nat,
         NEW price \in Nat
  PROVE  LET us == With(os, n, kind, quantity, price)
         IN /\ OrdersKept(os, us) /\ Len(us) = Len(os) + 1
            /\ us[Len(os) + 1] = [node |-> n, kind |-> kind, qty |-> quantity,
                                  price |-> price, filled |-> 0, open |-> TRUE]
<1> DEFINE e == [node |-> n, kind |-> kind, qty |-> quantity, price |-> price,
                 filled |-> 0, open |-> TRUE]
           us == With(os, n, kind, quantity, price)
<1>1. e \in OrderType
  BY DEF OrderType
<1>2. us = Append(os, e)
  BY DEF With
<1> HIDE DEF e, us
<1>3. /\ us \in Seq(OrderType) /\ Len(us) = Len(os) + 1 /\ Len(os) \in Nat
      /\ \A o \in 1..Len(os) : us[o] = os[o] /\ os[o] \in OrderType
      /\ us[Len(os) + 1] = e
  BY <1>1, <1>2
<1>4. \A o \in 1..Len(os) : os[o].filled \in Nat
  BY <1>3 DEF OrderType
<1>5. OrdersKept(os, us)
  BY <1>3, <1>4 DEF OrdersKept
<1> QED
  BY <1>3, <1>5 DEF e, us

\* Cancelling an order changes no other thing about it.
LEMMA CancelledKept ==
  ASSUME IInv, NEW o, NEW us \in AfterCancel(o)
  PROVE  OrdersKept(orders, us) /\ Len(us) = Len(orders) /\ GoodOrders(us, Len(tree))
<1>1. GoodOrders(us, Len(tree)) /\ Len(us) = Len(orders)
  BY CancelledOrders DEF IInv
<1>2. orders \in Seq(OrderType) /\ us \in Seq(OrderType) /\ Len(orders) \in Nat
  BY <1>1 DEF IInv, TypeInv, GoodOrders
<1>3. \A p \in 1..Len(orders) : orders[p] \in OrderType /\ orders[p].filled \in Nat
  <2>1. \A p \in 1..Len(orders) : orders[p] \in OrderType
    BY <1>2
  <2> QED
    BY <2>1 DEF OrderType
<1>4. CASE us = orders
  BY <1>1, <1>2, <1>3, <1>4 DEF OrdersKept
<1>5. ASSUME NEW p, us = [orders EXCEPT ![p].open = FALSE]
      PROVE  OrdersKept(orders, us)
  <2>1. ASSUME NEW q \in 1..Len(orders)
        PROVE  /\ us[q].node = orders[q].node /\ us[q].kind = orders[q].kind
               /\ us[q].qty = orders[q].qty /\ us[q].price = orders[q].price
               /\ us[q].filled = orders[q].filled
    <3>1. q \in DOMAIN orders
      BY <1>2
    <3> QED
      BY <1>3, <1>5, <3>1 DEF OrderType
  <2> QED
    BY <1>1, <1>2, <1>3, <2>1 DEF OrdersKept
<1>6. us # orders => \E p : us = [orders EXCEPT ![p].open = FALSE]
  BY DEF AfterCancel
<1> QED
  BY <1>1, <1>4, <1>5, <1>6

\* _close_rotation_node places an exit of a node that is not planned, if any.
LEMMA ClosePlan ==
  ASSUME IInv, NEW n \in 1..Len(tree), tree[n].status # "planned", NEW t, Alike(tree, t),
         NEW os, OrdersKept(orders, os), Len(os) = Len(orders), GoodOrders(os, Len(tree)),
         NEW tracked, CloseNode(n, t, os, tracked)
  PROVE  Alike(tree, tree') /\ OrdersKept(orders, orders') /\ Placed
<1>1. /\ GoodTree(t) /\ Len(t) = Len(tree) /\ t[n].status # "planned" /\ n \in 1..Len(t)
      /\ Len(orders) \in Nat /\ os \in Seq(OrderType) /\ n \in Nat
  BY Sizes DEF Alike, OrdersKept, IInv
<1>2. \A status \in Statuses \ {"planned"} : Alike(tree, SetStatus(t, n, status))
  BY <1>1, StatusAlike, AlikeAlike
<1>3. /\ tree' = t \/ \E status \in Statuses \ {"planned"} : tree' = SetStatus(t, n, status)
      /\ \/ orders' = os
         \/ \E price \in ExitPrices : \E quantity \in ExitQuantities(t[n], price) :
              orders' = With(os, n, "rotation_exit", quantity, price)
  BY DEF CloseNode, Statuses
<1>4. Alike(tree, tree')
  BY <1>2, <1>3
<1>5. CASE orders' = os
  <2>1. OrdersKept(orders, orders')
    BY <1>5
  <2>2. Len(orders') = Len(orders)
    BY <1>5
  <2> QED
    BY <1>4, <2>1, <2>2 DEF Placed
<1>6. ASSUME NEW price \in ExitPrices, NEW quantity \in ExitQuantities(t[n], price),
             orders' = With(os, n, "rotation_exit", quantity, price)
      PROVE  OrdersKept(orders, orders') /\ Placed
  <2>1. price \in Nat \ {0} /\ t[n].total \in Nat
    BY <1>1, Amounts, RuntimeAssumption
  <2>2. exit_base_quantity(t[n], price) \in Nat
    BY <2>1, NatOperations DEF exit_base_quantity
  <2>3. quantity \in Nat /\ price \in Nat /\ "rotation_exit" \in Kinds
    BY <2>1, <2>2 DEF ExitQuantities, Kinds
  <2>4. /\ OrdersKept(os, orders') /\ Len(orders') = Len(os) + 1
        /\ orders'[Len(os) + 1] = [node |-> n, kind |-> "rotation_exit", qty |-> quantity,
                                   price |-> price, filled |-> 0, open |-> TRUE]
    BY <1>1, <1>6, <2>3, PlacedKept
  <2>5. OrdersKept(orders, orders')
    <3>1. orders \in Seq(OrderType) /\ orders' \in Seq(OrderType)
      BY <2>4 DEF OrdersKept, IInv, TypeInv, GoodOrders
    <3>2. ASSUME NEW o \in 1..Len(orders)
          PROVE  orders[o].filled \in Nat /\ os[o].filled \in Nat /\ orders'[o].filled \in Nat
      <4>1. orders[o] \in OrderType /\ os[o] \in OrderType /\ orders'[o] \in OrderType
        BY <1>1, <2>4, <3>1
      <4> QED
        BY <4>1 DEF OrderType
    <3>3. ASSUME NEW o \in 1..Len(orders)
          PROVE  /\ orders'[o].node = orders[o].node /\ orders'[o].kind = orders[o].kind
                 /\ orders'[o].qty = orders[o].qty /\ orders'[o].price = orders[o].price
                 /\ orders'[o].filled >= orders[o].filled
                 /\ orders[o].filled <= orders[o].qty => orders'[o].filled <= orders'[o].qty
      <4>1. o \in 1..Len(os)
        BY <1>1
      <4>2. /\ os[o].filled >= orders[o].filled /\ orders'[o].filled >= os[o].filled
            /\ orders[o].filled <= orders[o].qty => os[o].filled <= os[o].qty
            /\ os[o].filled <= os[o].qty => orders'[o].filled <= orders'[o].qty
        BY <2>4, <4>1 DEF OrdersKept
      <4>3. /\ orders'[o].node = orders[o].node /\ orders'[o].kind = orders[o].kind
            /\ orders'[o].qty = orders[o].qty /\ orders'[o].price = orders[o].price
        BY <2>4, <4>1 DEF OrdersKept
      <4> QED
        BY <3>2, <4>2, <4>3
    <3>4. Len(orders') >= Len(orders)
      BY <1>1, <2>4
    <3> QED
      BY <3>1, <3>3, <3>4 DEF OrdersKept
  <2>6. tree'[n].status # "planned"
    BY <1>4 DEF Alike
  <2>7. ASSUME NEW o \in 1..Len(orders'), o \notin 1..Len(orders) PROVE OnPlan(o)'
    <3>1. o = Len(os) + 1
      BY <1>1, <2>4, <2>7
    <3>2. /\ orders'[o].node = n /\ orders'[o].kind = "rotation_exit"
          /\ orders'[o].filled = 0 /\ orders'[o].qty = quantity
      BY <2>4, <3>1
    <3> QED
      BY <2>3, <2>6, <3>2 DEF OnPlan, StatusOf
  <2> QED
    BY <2>5, <2>7 DEF Placed
<1> QED
  BY <1>3, <1>4, <1>5, <1>6

-----------------------------------------------------------------------------
(* The steps keep the plan *)

\* An order is executed, or ends.
LEMMA PlanExchange == IInv /\ PlanInv /\ Exchange => PlanStays
<1> SUFFICES ASSUME IInv, PlanInv, Exchange PROVE PlanStays
  OBVIOUS
<1>1. UNCHANGED <<tree, fillQueue, pc, work>>
  BY DEF Exchange, CancelledOutside, Execute, Lose, bot, control
<1>2. TreeKept
  BY <1>1, SameAlike, AlikeKept DEF IInv, TypeInv
<1>3. /\ orders \in Seq(OrderType) /\ Len(orders) \in Nat /\ feed \in Seq(MessageType)
      /\ \A i \in 1..Len(feed) : feed[i].order \in 1..Len(orders)
      /\ \A o \in 1..Len(orders) : /\ orders[o].filled \in Nat /\ orders[o].qty \in Nat
                                   /\ orders[o].price \in Nat
  <2>1. \A o \in 1..Len(orders) : orders[o] \in OrderType
    BY Sizes DEF IInv
  <2>2. /\ orders \in Seq(OrderType) /\ Len(orders) \in Nat /\ feed \in Seq(MessageType)
        /\ \A i \in 1..Len(feed) : feed[i].order \in 1..Len(orders)
    BY Sizes DEF IInv, TypeInv, GoodOrders
  <2> QED
    BY <2>1, <2>2 DEF OrderType
<1>4. \A i \in 1..Len(feed) : Executed(feed[i])
  BY DEF PlanInv
<1>5. ASSUME OrdersKept(orders, orders'), Len(orders') = Len(orders),
             (\A i \in 1..Len(feed) : Executed(feed[i]))'
      PROVE  PlanStays
  <2>1. Placed
    BY <1>5 DEF Placed
  <2>2. \A i \in 1..Len(fillQueue') :
          fillQueue'[i].kind = "rotation_exit" =>
            fillQueue'[i].node \in 1..Len(tree) /\ tree[fillQueue'[i].node].status # "planned"
    BY <1>1 DEF PlanInv, IInv, TypeInv, OfNode
  <2>3. pc' = "monitor" => \A n \in work' : n \in 1..Len(tree) /\ tree[n].status # "planned"
    BY <1>1 DEF PlanInv
  <2> QED
    BY <1>2, <1>5, <2>1, <2>2, <2>3, PlanFrame
<1>6. ASSUME NEW o \in OrderIds, CancelledOutside(o) PROVE PlanStays
  <2>1. /\ orders' = [orders EXCEPT ![o].open = FALSE] /\ feed' = feed
        /\ o \in 1..Len(orders) /\ orders' \in Seq(OrderType) /\ Len(orders') = Len(orders)
    <3>1. TypeInv'
      BY ExchangeStep DEF IInv
    <3> QED
      BY <1>3, <1>6, <3>1 DEF CancelledOutside, TypeInv, GoodOrders, OrderIds
  <2>2. \A p \in 1..Len(orders) :
          /\ orders'[p].node = orders[p].node /\ orders'[p].kind = orders[p].kind
          /\ orders'[p].qty = orders[p].qty /\ orders'[p].price = orders[p].price
          /\ orders'[p].filled = orders[p].filled
    <3>1. \A p \in 1..Len(orders) : orders[p] \in OrderType
      BY <1>3
    <3>2. \A p \in 1..Len(orders) : p # o => orders'[p] = orders[p]
      BY <1>3, <2>1
    <3>3. orders'[o] = [orders[o] EXCEPT !.open = FALSE]
      BY <1>3, <2>1
    <3>4. /\ orders'[o].node = orders[o].node /\ orders'[o].kind = orders[o].kind
          /\ orders'[o].qty = orders[o].qty /\ orders'[o].price = orders[o].price
          /\ orders'[o].filled = orders[o].filled
      BY <2>1, <3>1, <3>3 DEF OrderType
    <3> QED
      BY <3>2, <3>4
  <2>3. OrdersKept(orders, orders')
    BY <1>3, <2>1, <2>2 DEF OrdersKept
  <2>4. (\A i \in 1..Len(feed) : Executed(feed[i]))'
    BY <1>3, <1>4, <2>1, <2>2 DEF Executed
  <2> QED
    BY <1>5, <2>1, <2>3, <2>4
<1>7. ASSUME NEW o \in OrderIds, NEW q \in 1..orders[o].qty, Execute(o, q) PROVE PlanStays
  <2> DEFINE msg == [order |-> o, qty |-> q, price |-> orders[o].price]
  <2>1. /\ q <= orders[o].qty - orders[o].filled
        /\ orders' = [orders EXCEPT ![o] =
                        [@ EXCEPT !.filled = orders[o].filled + q,
                                  !.open = orders[o].filled + q < orders[o].qty]]
        /\ feed' = Append(feed, msg) /\ o \in 1..Len(orders)
    BY <1>3, <1>7 DEF Execute, OrderIds
  <2>2. orders' \in Seq(OrderType) /\ Len(orders') = Len(orders)
    <3>1. TypeInv'
      BY ExchangeStep DEF IInv
    <3> QED
      BY <1>3, <2>1, <3>1 DEF TypeInv, GoodOrders
  <2>3. \A p \in 1..Len(orders) :
          /\ orders'[p].node = orders[p].node /\ orders'[p].kind = orders[p].kind
          /\ orders'[p].qty = orders[p].qty /\ orders'[p].price = orders[p].price
          /\ orders'[p].filled = orders[p].filled + IF p = o THEN q ELSE 0
    <3>1. \A p \in 1..Len(orders) : orders[p] \in OrderType
      BY <1>3
    <3>2. \A p \in 1..Len(orders) : p # o => orders'[p] = orders[p]
      BY <1>3, <2>1
    <3>3. orders'[o] = [orders[o] EXCEPT !.filled = orders[o].filled + q,
                                         !.open = orders[o].filled + q < orders[o].qty]
      <4> DEFINE e == [orders[o] EXCEPT !.filled = orders[o].filled + q,
                                        !.open = orders[o].filled + q < orders[o].qty]
      <4>1. orders' = [orders EXCEPT ![o] = e] /\ o \in DOMAIN orders
        BY <1>3, <2>1
      <4> HIDE DEF e
      <4>2. orders'[o] = e
        BY <4>1
      <4> QED
        BY <4>2 DEF e
    <3>4. /\ orders'[o].node = orders[o].node /\ orders'[o].kind = orders[o].kind
          /\ orders'[o].qty = orders[o].qty /\ orders'[o].price = orders[o].price
          /\ orders'[o].filled = orders[o].filled + q
      BY <2>1, <3>1, <3>3 DEF OrderType
    <3> QED
      BY <1>3, <3>2, <3>4
  <2>4. q \in Nat /\ q > 0 /\ orders[o].filled + q <= orders[o].qty
    BY <1>3, <2>1
  <2>5. OrdersKept(orders, orders')
    BY <1>3, <2>2, <2>3, <2>4 DEF OrdersKept
  <2>6. \A i \in 1..Len(feed) : Executed(feed[i])'
    <3> SUFFICES ASSUME NEW i \in 1..Len(feed) PROVE Executed(feed[i])'
      OBVIOUS
    <3> DEFINE p == feed[i].order
    <3>1. feed'[i] = feed[i] /\ p \in 1..Len(orders) /\ Executed(feed[i])
      BY <1>3, <1>4, <2>1
    <3>2. /\ orders'[p].qty = orders[p].qty /\ orders'[p].price = orders[p].price
          /\ orders[p].filled \in Nat
          /\ orders'[p].filled = orders[p].filled + IF p = o THEN q ELSE 0
      <4> HIDE DEF p
      <4> QED
        BY <1>3, <2>3, <3>1
    <3>3. orders'[p].filled > 0
      <4>1. orders[p].filled > 0
        BY <3>1 DEF Executed
      <4> HIDE DEF p
      <4> QED
        BY <2>4, <3>2, <4>1
    <3> QED
      BY <3>1, <3>2, <3>3 DEF Executed
  <2> QED
    <3>1. /\ q <= orders'[o].qty /\ orders[o].price = orders'[o].price
          /\ orders'[o].filled > 0
      BY <1>3, <2>1, <2>3, <2>4
    <3>2. /\ msg \in MessageType /\ msg.order = o /\ msg.qty = q
          /\ msg.price = orders[o].price
      BY <1>3, <2>1, <2>4 DEF MessageType
    <3> HIDE DEF msg
    <3>3. /\ Len(feed') = Len(feed) + 1 /\ feed'[Len(feed) + 1] = msg
          /\ \A i \in 1..Len(feed) : feed'[i] = feed[i]
          /\ Len(feed) \in Nat
      BY <1>3, <2>1, <3>2
    <3>4. ASSUME NEW i \in 1..Len(feed') PROVE Executed(feed[i])'
      <4>1. CASE i \in 1..Len(feed)
        BY <2>6, <4>1
      <4>2. CASE i \notin 1..Len(feed)
        <5>1. i = Len(feed) + 1
          BY <3>3, <4>2
        <5> QED
          BY <3>1, <3>2, <3>3, <5>1 DEF Executed
      <4> QED
        BY <4>1, <4>2
    <3>5. (\A i \in 1..Len(feed) : Executed(feed[i]))'
      BY <3>4
    <3> QED
      BY <1>5, <2>2, <2>5, <3>5
<1>8. CASE Lose
  <2>1. orders' = orders /\ feed' = Tail(feed) /\ feed # <<>>
    BY <1>8 DEF Lose
  <2>2. /\ Len(feed') = Len(feed) - 1 /\ Len(feed) \in Nat
        /\ \A i \in 1..Len(feed') : feed'[i] = feed[i + 1]
    BY <1>3, <2>1, HeadTailProperties
  <2>3. (\A i \in 1..Len(feed) : Executed(feed[i]))'
    BY <1>4, <2>1, <2>2 DEF Executed
  <2>4. OrdersKept(orders, orders')
    BY <2>1, SameOrders
  <2> QED
    BY <1>5, <2>1, <2>3, <2>4
<1> QED
  BY <1>6, <1>7, <1>8 DEF Exchange

LEMMA PlanClock == IInv /\ PlanInv /\ Clock => PlanStays
<1> SUFFICES ASSUME IInv, PlanInv, Clock PROVE PlanStays
  OBVIOUS
<1>1. UNCHANGED <<orders, feed, fillQueue, pc, work>>
  BY DEF Clock, DeadlinePasses, FillTimeoutPasses, ReconcileIntervalPasses, CooldownPasses,
         exchange, control
<1>2. Alike(tree, tree')
  <2>1. GoodTree(tree) /\ DOMAIN tree = 1..Len(tree)
    BY Sizes DEF IInv, TypeInv
  <2>2. "passed" \in Deadlines
    BY DEF Deadlines
  <2>3. tree' = tree \/ \E n \in 1..Len(tree) : tree' = [tree EXCEPT ![n].deadline = "passed"]
    BY <2>1 DEF Clock, DeadlinePasses, FillTimeoutPasses, ReconcileIntervalPasses,
                CooldownPasses
  <2> QED
    BY <2>1, <2>2, <2>3, SameAlike, DeadlineAlike
<1>3. TreeKept
  BY <1>2, AlikeKept DEF IInv, TypeInv
<1> QED
  BY <1>1, <1>3, SameOrders, PlanSteady

\* A fill is queued for the node of a tracked order.
LEMMA QueuedPlan ==
  ASSUME IInv, PlanInv, fillQueue' = fillQueue \/ \E m, q, price : Queues(m, q, price)
  PROVE  \A i \in 1..Len(fillQueue') :
           fillQueue'[i].kind = "rotation_exit" =>
             fillQueue'[i].node \in 1..Len(tree) /\ tree[fillQueue'[i].node].status # "planned"
<1>1. /\ fillQueue \in Seq(FillType)
      /\ \A i \in 1..Len(fillQueue) : fillQueue[i].node \in 1..Len(tree)
      /\ \A i \in 1..Len(fillQueue) :
           fillQueue[i].kind = "rotation_exit" => tree[fillQueue[i].node].status # "planned"
  BY DEF PlanInv, IInv, TypeInv, OfNode
<1>2. CASE fillQueue' = fillQueue
  BY <1>1, <1>2
<1>3. ASSUME NEW m, NEW q, NEW price, Queues(m, q, price),
             NEW i \in 1..Len(fillQueue'), fillQueue'[i].kind = "rotation_exit"
      PROVE  fillQueue'[i].node \in 1..Len(tree) /\ tree[fillQueue'[i].node].status # "planned"
  <2> DEFINE f == FillOf(m, q, price)
  <2>1. /\ m \in 1..Len(orders) /\ orders[m] \in OrderType /\ q \in Nat /\ price \in Nat
        /\ orders[m].node \in 1..Len(tree) /\ fillQueue' = Append(fillQueue, f)
    BY <1>3, Sizes DEF Queues, IInv, TypeInv
  <2>2. OnPlan(m)
    BY <2>1 DEF PlanInv
  <2>3. /\ f.node = orders[m].node /\ f.kind = orders[m].kind /\ f \in FillType
    BY <2>1 DEF FillOf, FillType, OrderType
  <2>4. f.kind = "rotation_exit" => tree[f.node].status # "planned"
    BY <2>2, <2>3 DEF OnPlan, StatusOf
  <2> HIDE DEF f
  <2>5. /\ Len(fillQueue') = Len(fillQueue) + 1 /\ fillQueue'[Len(fillQueue) + 1] = f
        /\ \A j \in 1..Len(fillQueue) : fillQueue'[j] = fillQueue[j]
        /\ Len(fillQueue) \in Nat
    BY <1>1, <2>1, <2>3
  <2>6. CASE i \in 1..Len(fillQueue)
    BY <1>1, <1>3, <2>5, <2>6
  <2>7. CASE i \notin 1..Len(fillQueue)
    <3>1. fillQueue'[i] = f
      BY <2>5, <2>7
    <3> QED
      BY <1>3, <2>1, <2>3, <2>4, <3>1
  <2> QED
    BY <2>6, <2>7
<1> QED
  BY <1>2, <1>3

LEMMA PlanDeliver == IInv /\ PlanInv /\ Deliver => PlanStays
<1> SUFFICES ASSUME IInv, PlanInv, Deliver PROVE PlanStays
  OBVIOUS
<1>1. /\ feed # <<>> /\ feed' = Tail(feed) /\ UNCHANGED <<orders, tree, pc, work>>
      /\ pc \in Awaits
  BY DEF Deliver, control
<1>2. pc # "monitor"
  BY <1>1 DEF Awaits
<1>3. feed \in Seq(MessageType) /\ \A i \in 1..Len(feed) : Executed(feed[i])
  BY DEF PlanInv, IInv, TypeInv
<1>4. (\A i \in 1..Len(feed) : Executed(feed[i]))'
  <2>1. /\ Len(feed') = Len(feed) - 1 /\ Len(feed) \in Nat
        /\ \A i \in 1..Len(feed') : feed'[i] = feed[i + 1]
    BY <1>1, <1>3, HeadTailProperties
  <2> QED
    BY <1>1, <1>3, <2>1 DEF Executed
<1>5. fillQueue' = fillQueue \/ \E m, q, price : Queues(m, q, price)
  <2> DEFINE msg == Head(feed)
             matched == MatchingPending(msg.order)
  <2>1. fillQueue' = IF matched = {} THEN fillQueue
                     ELSE Append(fillQueue, FillOf(CHOOSE p \in matched : TRUE, msg.qty, msg.price))
    BY DEF Deliver
  <2>2. msg.qty \in Nat /\ msg.price \in Nat
    <3>1. msg \in MessageType
      BY <1>1, <1>3, HeadTailProperties
    <3> HIDE DEF msg
    <3> QED
      BY <3>1 DEF MessageType
  <2>3. matched \subseteq pendings
    BY MatchedIsTracked
  <2> HIDE DEF matched, msg
  <2>4. matched # {} => Queues(CHOOSE p \in matched : TRUE, msg.qty, msg.price)
    BY <2>1, <2>2, <2>3 DEF Queues
  <2> QED
    BY <2>1, <2>4
<1>6. TreeKept
  BY <1>1, SameAlike, AlikeKept DEF IInv, TypeInv
<1> QED
  BY <1>1, <1>2, <1>4, <1>5, <1>6, QueuedPlan, SameOrders, PlanFrame

LEMMA PlanRecover ==
  ASSUME IInv, PlanInv, NEW o \in OrderIds, RecoverFill(o)
  PROVE  PlanStays
<1> DEFINE same == pendings \ Untracked(o)
           matched == IF same # {} THEN {Earliest(same)} ELSE MatchingPending(o)
           m == CHOOSE p \in matched : TRUE
<1>1. /\ pc = "reconcile" /\ UNCHANGED <<orders, feed, tree, pc>>
      /\ fillQueue' = IF matched = {} THEN fillQueue
                      ELSE Append(fillQueue, FillOf(m, Recovered(o), orders[o].price))
  BY DEF RecoverFill, exchange
<1>2. Recovered(o) \in Nat /\ orders[o].price \in Nat
  <2>1. orders[o] \in OrderType
    BY Sizes DEF IInv
  <2> QED
    BY <2>1 DEF Recovered, OrderType
<1>3. matched \subseteq pendings
  <2>1. \A q \in same : q \in Nat /\ q \in pendings
    BY Sizes DEF IInv, TypeInv
  <2>2. matched = IF same # {} THEN {Earliest(same)} ELSE MatchingPending(o)
    OBVIOUS
  <2> HIDE DEF same, matched
  <2>3. same # {} => Earliest(same) \in same
    BY <2>1, EarliestIsFirst
  <2> QED
    BY <2>1, <2>2, <2>3, MatchedIsTracked
<1>4. fillQueue' = fillQueue \/ \E x, q, price : Queues(x, q, price)
  <2> HIDE DEF matched
  <2>1. matched # {} => m \in pendings
    BY <1>3
  <2> HIDE DEF m
  <2>2. matched # {} => Queues(m, Recovered(o), orders[o].price)
    BY <1>1, <1>2, <2>1 DEF Queues
  <2> QED
    BY <1>1, <2>2
<1>5. TreeKept
  BY <1>1, SameAlike, AlikeKept DEF IInv, TypeInv
<1>6. (\A i \in 1..Len(feed) : Executed(feed[i]))'
  BY <1>1 DEF Executed, PlanInv
<1>7. pc' # "monitor"
  BY <1>1
<1> QED
  BY <1>1, <1>4, <1>5, <1>6, <1>7, QueuedPlan, SameOrders, PlanFrame

LEMMA PlanTakeAsCancelled ==
  ASSUME IInv, PlanInv, NEW o \in OrderIds, TakeAsCancelled(o)
  PROVE  PlanStays
<1> DEFINE n == orders[o].node
<1>1. /\ pc = "reconcile" /\ UNCHANGED <<orders, feed, fillQueue, pc>>
      /\ tree' = IF orders[o].kind = "rotation_entry" THEN cancel_planned_node(tree, n)
                 ELSE SetStatus(tree, n, "open")
  BY DEF TakeAsCancelled, exchange
<1>2. n \in 1..Len(tree) /\ GoodTree(tree) /\ OnPlan(o)
  BY Sizes DEF IInv, TypeInv, PlanInv
<1>3. TreeKept
  <2>1. CASE orders[o].kind = "rotation_entry"
    <3>1. tree' = cancel_planned_node(tree, n)
      BY <1>1, <2>1
    <3> HIDE DEF n
    <3> QED
      BY <1>2, <3>1, CancelKept
  <2>2. CASE orders[o].kind # "rotation_entry"
    <3>1. tree' = SetStatus(tree, n, "open") /\ tree[n].status # "planned"
      BY <1>1, <1>2, <2>2 DEF OnPlan, StatusOf
    <3>2. "open" \in Statuses \ {"planned"}
      BY DEF Statuses
    <3> HIDE DEF n
    <3> QED
      BY <1>2, <3>1, <3>2, StatusAlike, AlikeKept
  <2> QED
    BY <2>1, <2>2
<1> QED
  BY <1>1, <1>3, SameOrders, PlanSteady

LEMMA PlanReconcile == IInv /\ PlanInv /\ Reconcile => PlanStays
<1> SUFFICES ASSUME IInv, PlanInv, Reconcile PROVE PlanStays
  OBVIOUS
<1>1. CASE WakeUp \/ FetchOpenOrders \/ FetchTradeHistory \/ FetchFails \/ EndReconcile
           \/ RunCycle \/ CycleFails
  <2>1. UNCHANGED <<orders, tree, feed, fillQueue>> /\ pc' # "monitor"
    BY <1>1 DEF WakeUp, FetchOpenOrders, FetchTradeHistory, FetchFails, EndReconcile, RunCycle,
                CycleFails, exchange, bot
  <2> QED
    BY <2>1, PlanQuiet
<1>2. CASE PruneOrphanRoot
  <2>1. /\ tree' = SetStatus(tree, Root, "closed") /\ UNCHANGED <<orders, feed, fillQueue>>
        /\ pc' # "monitor"
    BY <1>2 DEF PruneOrphanRoot, exchange, control
  <2>2. Root \in 1..Len(tree) /\ GoodTree(tree) /\ tree[Root].status # "planned"
    BY Sizes DEF Root, IInv, TypeInv, GoodTree
  <2>3. "closed" \in Statuses \ {"planned"}
    BY DEF Statuses
  <2>4. TreeKept
    BY <2>1, <2>2, <2>3, StatusAlike, AlikeKept
  <2> QED
    BY <2>1, <2>4, SameOrders, PlanSteady
<1> QED
  BY <1>1, <1>2, PlanRecover, PlanTakeAsCancelled DEF Reconcile

\* A node is closed that is not planned.
LEMMA PlanClosing ==
  ASSUME IInv, PlanInv, NEW n \in 1..Len(tree), tree[n].status # "planned",
         NEW t, Alike(tree, t), NEW os, OrdersKept(orders, os), Len(os) = Len(orders),
         GoodOrders(os, Len(tree)), NEW tracked, CloseNode(n, t, os, tracked),
         UNCHANGED <<feed, fillQueue>>, pc' = "monitor" => pc = "monitor" /\ work' \subseteq work
  PROVE  PlanStays
<1>1. Alike(tree, tree') /\ OrdersKept(orders, orders') /\ Placed
  BY ClosePlan
<1>2. TreeKept
  BY <1>1, AlikeKept DEF IInv, TypeInv
<1> QED
  BY <1>1, <1>2, PlanSteady

\* A node is taken off the plan, and one of its orders may be cancelled.
LEMMA PlanCancelling ==
  ASSUME IInv, PlanInv, NEW n \in 1..Len(tree), tree' = cancel_planned_node(tree, n),
         orders' = orders \/ \E o : orders' \in AfterCancel(o),
         UNCHANGED <<feed, fillQueue>>, pc' # "monitor"
  PROVE  PlanStays
<1>1. TreeKept
  BY CancelKept DEF IInv, TypeInv
<1>2. CASE orders' = orders
  BY <1>1, <1>2, SameOrders, PlanSteady
<1>3. ASSUME NEW o, orders' \in AfterCancel(o) PROVE PlanStays
  <2>1. OrdersKept(orders, orders') /\ Len(orders') = Len(orders)
    BY <1>3, CancelledKept
  <2>2. Placed
    BY <2>1 DEF Placed
  <2> QED
    BY <1>1, <2>1, <2>2, PlanSteady
<1> QED
  BY <1>2, <1>3

LEMMA PlanExpiry == IInv /\ PlanInv /\ Expiry => PlanStays
<1> SUFFICES ASSUME IInv, PlanInv, Expiry PROVE PlanStays
  OBVIOUS
<1>1. /\ GoodTree(tree) /\ DOMAIN tree = 1..Len(tree) /\ GoodOrders(orders, Len(tree))
      /\ tree[Root].status # "planned" /\ Root \in 1..Len(tree) /\ Alike(tree, tree)
  BY Sizes, SameAlike DEF IInv, TypeInv, GoodTree, Root
<1>2. OrdersKept(orders, orders)
  BY OrdersStay
<1>3. CASE BeginPlanner \/ EndExpiry
  <2>1. UNCHANGED <<orders, tree, feed, fillQueue>> /\ pc' # "monitor"
    BY <1>3 DEF BeginPlanner, EndExpiry, exchange, bot
  <2> QED
    BY <2>1, PlanQuiet
<1>4. ASSUME NEW n, ExpiresNow(n), Expired(n)
      PROVE  UNCHANGED <<feed, fillQueue>> /\ pc' # "monitor"
  BY <1>4 DEF ExpiresNow, Expired
<1>5. ASSUME NEW n \in 1..Len(tree), ExpirePlanned(n) PROVE PlanStays
  BY <1>4, <1>5, PlanCancelling DEF ExpirePlanned
<1>6. ASSUME NEW n \in 1..Len(tree), ExpireOpen(n) PROVE PlanStays
  BY <1>1, <1>2, <1>4, <1>6, PlanClosing DEF ExpireOpen
<1>7. ASSUME NEW n \in 1..Len(tree), ExpireRoot(n) PROVE PlanStays
  <2>1. n = Root /\ UNCHANGED <<feed, fillQueue>> /\ pc' # "monitor"
    BY <1>4, <1>7 DEF ExpireRoot
  <2>2. ASSUME NEW d \in {"none", "ahead"}, tree' = [tree EXCEPT ![n].deadline = d],
               UNCHANGED <<orders, pendings>>
        PROVE  PlanStays
    <3>1. TreeKept
      BY <1>1, <2>2, DeadlineAlike, AlikeKept DEF Deadlines
    <3> QED
      BY <2>1, <2>2, <3>1, SameOrders, PlanSteady
  <2>3. ASSUME CloseNode(n, [tree EXCEPT ![n].pair = RootPair], orders, pendings)
        PROVE  PlanStays
    <3> DEFINE t == [tree EXCEPT ![Root].pair = RootPair]
    <3>1. Alike(tree, t) /\ CloseNode(Root, t, orders, pendings)
      BY <1>1, <2>1, <2>3, RootPairAlike
    <3> HIDE DEF t
    <3> QED
      BY <1>1, <1>2, <2>1, <3>1, PlanClosing
  <2> QED
    BY <1>7, <2>2, <2>3 DEF ExpireRoot
<1> QED
  BY <1>1, <1>3, <1>5, <1>6, <1>7 DEF Expiry

LEMMA PlanRoots == IInv /\ PlanInv /\ Roots => PlanStays
<1> SUFFICES ASSUME IInv, PlanInv, Roots PROVE PlanStays
  OBVIOUS
<1>1. /\ GoodTree(tree) /\ Root \in 1..Len(tree) /\ GoodOrders(orders, Len(tree))
      /\ tree[Root].status # "planned" /\ tree[Root] \in NodeType /\ Alike(tree, tree)
  BY Sizes, SameAlike DEF IInv, TypeInv, GoodTree, Root
<1>2. ASSUME RootsDone PROVE UNCHANGED <<feed, fillQueue>> /\ pc' # "monitor"
  BY <1>2 DEF RootsDone
<1>3. CASE SetRootDeadline
  <2> DEFINE e == [tree[Root] EXCEPT !.deadline = "ahead", !.pair = RootPair]
  <2>1. RootsDone /\ orders' = orders /\ tree' = [tree EXCEPT ![Root] = e]
    BY <1>3 DEF SetRootDeadline
  <2>2. /\ e \in NodeType /\ e.parent = tree[Root].parent /\ e.total = tree[Root].total
        /\ e.free = tree[Root].free /\ e.reserved = tree[Root].reserved
        /\ e.entryCost = tree[Root].entryCost /\ e.proceeds = tree[Root].proceeds
        /\ e.status = tree[Root].status
    BY <1>1, RuntimeAssumption DEF NodeType, Deadlines
  <2> HIDE DEF e
  <2>3. TreeKept
    BY <1>1, <2>1, <2>2, PutAlike, AlikeKept
  <2> QED
    BY <1>2, <2>1, <2>3, SameOrders, PlanSteady
<1>4. CASE RecoverRoot
  <2> DEFINE e == [tree[Root] EXCEPT !.status = "open", !.deadline = "none"]
  <2>1. RootsDone /\ orders' = orders /\ tree' = [tree EXCEPT ![Root] = e]
    BY <1>4 DEF RecoverRoot
  <2>2. /\ e \in NodeType /\ e.parent = tree[Root].parent /\ e.total = tree[Root].total
        /\ e.free = tree[Root].free /\ e.reserved = tree[Root].reserved
        /\ e.entryCost = tree[Root].entryCost /\ e.proceeds = tree[Root].proceeds
        /\ e.status = "open"
    BY <1>1 DEF NodeType, Deadlines, Statuses
  <2> HIDE DEF e
  <2>3. TreeKept
    BY <1>1, <2>1, <2>2, PutAlike, AlikeKept
  <2> QED
    BY <1>2, <2>1, <2>3, SameOrders, PlanSteady
<1>5. CASE CloseExhaustedRoot
  <2>1. RootsDone /\ CloseNode(Root, tree, orders, pendings)
    BY <1>5 DEF CloseExhaustedRoot
  <2> QED
    BY <1>1, <1>2, <2>1, OrdersStay, PlanClosing
<1>6. CASE LeaveRoot
  BY <1>2, <1>6, PlanQuiet DEF LeaveRoot
<1> QED
  BY <1>3, <1>4, <1>5, <1>6 DEF Roots

LEMMA PlanFills == IInv /\ PlanInv /\ Fills => PlanStays
<1> SUFFICES ASSUME IInv, PlanInv, Fills PROVE PlanStays
  OBVIOUS
<1>1. CASE Settle
  <2>1. /\ fillQueue # <<>> /\ fillQueue' = Tail(fillQueue) /\ pc = "settle"
        /\ UNCHANGED <<orders, feed, pc>>
    BY <1>1 DEF Settle, exchange, control
  <2>2. TreeKept
    BY <1>1, SettleKept
  <2>3. (\A i \in 1..Len(feed) : Executed(feed[i]))'
    BY <2>1 DEF Executed, PlanInv
  <2>4. \A i \in 1..Len(fillQueue') :
          fillQueue'[i].kind = "rotation_exit" =>
            fillQueue'[i].node \in 1..Len(tree) /\ tree[fillQueue'[i].node].status # "planned"
    <3>1. /\ fillQueue \in Seq(FillType)
          /\ \A i \in 1..Len(fillQueue) :
               fillQueue[i].kind = "rotation_exit" =>
                 fillQueue[i].node \in 1..Len(tree) /\ tree[fillQueue[i].node].status # "planned"
      BY DEF PlanInv, IInv, TypeInv, OfNode
    <3>2. /\ Len(fillQueue') = Len(fillQueue) - 1 /\ Len(fillQueue) \in Nat
          /\ \A i \in 1..Len(fillQueue') : fillQueue'[i] = fillQueue[i + 1]
      BY <2>1, <3>1, HeadTailProperties
    <3> QED
      BY <3>1, <3>2
  <2>5. pc' # "monitor"
    BY <2>1
  <2> QED
    BY <2>1, <2>2, <2>3, <2>4, <2>5, SameOrders, PlanFrame
<1>2. CASE EndSettle
  <2>1. UNCHANGED <<orders, tree, feed, fillQueue>> /\ pc' # "monitor"
    BY <1>2 DEF EndSettle, exchange, bot
  <2> QED
    BY <2>1, PlanQuiet
<1> QED
  BY <1>1, <1>2 DEF Fills

LEMMA PlanTimeouts == IInv /\ PlanInv /\ Timeouts => PlanStays
<1> SUFFICES ASSUME IInv, PlanInv, Timeouts PROVE PlanStays
  OBVIOUS
<1>1. /\ GoodTree(tree) /\ OrderIds = 1..Len(orders) /\ Alike(tree, tree)
      /\ \A o \in OrderIds : orders[o].node \in 1..Len(tree) /\ OnPlan(o)
  BY Sizes, SameAlike DEF IInv, TypeInv, PlanInv
<1>2. ASSUME NEW o, TimesOut(o), TimedOut(o)
      PROVE  UNCHANGED <<feed, fillQueue>> /\ pc' # "monitor"
  BY <1>2 DEF TimesOut, TimedOut
<1>3. ASSUME NEW o \in OrderIds, CancelStaleEntry(o) PROVE PlanStays
  BY <1>1, <1>2, <1>3, PlanCancelling DEF CancelStaleEntry
<1>4. ASSUME NEW o \in OrderIds, EscalateStaleExit(o) PROVE PlanStays
  <2> DEFINE n == orders[o].node
             tracked == pendings \ TrackedFor(n)
  <2>1. /\ TimesOut(o) /\ TimedOut(o) /\ orders[o].kind = "rotation_exit"
        /\ \E os \in AfterCancel(o) : CloseNode(n, tree, os, tracked)
    BY <1>4 DEF EscalateStaleExit
  <2>2. n \in 1..Len(tree) /\ tree[n].status # "planned"
    BY <1>1, <2>1 DEF OnPlan, StatusOf
  <2> HIDE DEF n, tracked
  <2>3. PICK os \in AfterCancel(o) : CloseNode(n, tree, os, tracked)
    BY <2>1
  <2>4. OrdersKept(orders, os) /\ Len(os) = Len(orders) /\ GoodOrders(os, Len(tree))
    BY CancelledKept
  <2> QED
    BY <1>1, <1>2, <2>1, <2>2, <2>3, <2>4, PlanClosing
<1>5. CASE EndTimeouts
  <2>1. /\ UNCHANGED <<orders, tree, feed, fillQueue>>
        /\ \A n \in work' : n \in 1..Len(tree) /\ tree[n].status # "planned"
    BY <1>5, Sizes DEF EndTimeouts, exchange, bot, IInv
  <2>2. TreeKept
    BY <1>1, <2>1, AlikeKept
  <2>3. (\A i \in 1..Len(feed) : Executed(feed[i]))'
    BY <2>1 DEF Executed, PlanInv
  <2>4. \A i \in 1..Len(fillQueue') :
          fillQueue'[i].kind = "rotation_exit" =>
            fillQueue'[i].node \in 1..Len(tree) /\ tree[fillQueue'[i].node].status # "planned"
    BY <2>1 DEF PlanInv, IInv, TypeInv, OfNode
  <2> QED
    BY <2>1, <2>2, <2>3, <2>4, SameOrders, PlanFrame
<1> QED
  BY <1>3, <1>4, <1>5 DEF Timeouts

LEMMA PlanMonitor == IInv /\ PlanInv /\ Monitor => PlanStays
<1> SUFFICES ASSUME IInv, PlanInv, Monitor PROVE PlanStays
  OBVIOUS
<1>1. GoodTree(tree) /\ Alike(tree, tree) /\ GoodOrders(orders, Len(tree))
  BY SameAlike DEF IInv, TypeInv
<1>2. ASSUME NEW n \in DOMAIN tree, TriggerExit(n) PROVE PlanStays
  <2>1. /\ pc = "monitor" /\ n \in work /\ CloseNode(n, tree, orders, pendings)
        /\ work' = work \ {n} /\ UNCHANGED <<feed, fillQueue, pc>>
    BY <1>2 DEF TriggerExit
  <2>2. n \in 1..Len(tree) /\ tree[n].status # "planned"
    BY <2>1 DEF PlanInv
  <2> QED
    BY <1>1, <2>1, <2>2, OrdersStay, PlanClosing
<1>3. CASE EndMonitor
  <2>1. UNCHANGED <<orders, tree, feed, fillQueue>> /\ pc' # "monitor"
    BY <1>3 DEF EndMonitor, exchange, bot
  <2> QED
    BY <2>1, PlanQuiet
<1> QED
  BY <1>2, <1>3 DEF Monitor

LEMMA PlanPlan == IInv /\ PlanInv /\ Plan => PlanStays
<1> SUFFICES ASSUME IInv, PlanInv, Plan PROVE PlanStays
  OBVIOUS
<1>1. ASSUME NEW n \in DOMAIN tree, PlanLeaf(n) PROVE PlanStays
  <2>1. PICK k, shares, quantity : Grows(tree, tree', n, k, shares, quantity)
    BY <1>1, LeafGrows
  <2>2. n \in 1..Len(tree) /\ GoodTree(tree)
    BY Sizes DEF IInv, TypeInv
  <2>3. TreeKept
    BY <2>1, <2>2, GrowsKept
  <2>4. UNCHANGED <<orders, feed, fillQueue>> /\ pc' # "monitor"
    BY <1>1 DEF PlanLeaf, exchange
  <2> QED
    BY <2>3, <2>4, SameOrders, PlanSteady
<1>2. CASE EndPlan
  <2>1. UNCHANGED <<orders, tree, feed, fillQueue>> /\ pc' # "monitor"
    BY <1>2 DEF EndPlan, exchange, bot
  <2> QED
    BY <2>1, PlanQuiet
<1> QED
  BY <1>1, <1>2 DEF Plan

\* An entry is placed with what its node is planned with.
LEMMA EntryPlanned ==
  ASSUME IInv, NEW n \in 1..Len(tree), tree[n].status = "planned", orders' = EntryOrder(n),
         \/ tree' = tree
         \/ tree'[n].status # "planned"
  PROVE  OrdersKept(orders, orders') /\ Placed
<1> DEFINE quantity == entry_base_quantity(tree[n])
           price == PriceOf[tree[n].pair]
<1>1. /\ tree[n] \in NodeType /\ tree[n].pair \in Pairs /\ orders \in Seq(OrderType)
      /\ tree[n].total \in Nat /\ n \in Nat /\ Len(orders) \in Nat
  <2>1. /\ GoodTree(tree) /\ orders \in Seq(OrderType) /\ Len(orders) \in Nat
        /\ tree[n] \in NodeType
    BY Sizes DEF IInv, TypeInv, GoodOrders
  <2>2. n # Root /\ tree[n].pair \in Pairs
    BY <2>1 DEF GoodTree
  <2> QED
    BY <2>1, <2>2, Amounts
<1>2. price \in Nat \ {0}
  BY <1>1, PairsAssumption
<1>3. quantity \in Nat
  BY <1>1, <1>2, NatOperations DEF entry_base_quantity
<1>4. price \in Nat /\ "rotation_entry" \in Kinds
  BY <1>2 DEF Kinds
<1>5. orders' = With(orders, n, "rotation_entry", quantity, price)
  BY DEF EntryOrder
<1>6. \/ tree' = tree /\ quantity = entry_base_quantity(tree'[n]) /\ price = PriceOf[tree'[n].pair]
      \/ tree'[n].status # "planned"
  OBVIOUS
<1> HIDE DEF quantity, price
<1>7. /\ OrdersKept(orders, orders') /\ Len(orders') = Len(orders) + 1
      /\ orders'[Len(orders) + 1] = [node |-> n, kind |-> "rotation_entry", qty |-> quantity,
                                     price |-> price, filled |-> 0, open |-> TRUE]
  <2>1. \A q, p \in Nat, kind \in Kinds : orders' = With(orders, n, kind, q, p) =>
          /\ OrdersKept(orders, orders') /\ Len(orders') = Len(orders) + 1
          /\ orders'[Len(orders) + 1] = [node |-> n, kind |-> kind, qty |-> q,
                                         price |-> p, filled |-> 0, open |-> TRUE]
    BY <1>1, PlacedKept
  <2> QED
    BY <1>3, <1>4, <1>5, <2>1
<1>8. ASSUME NEW o \in 1..Len(orders'), o \notin 1..Len(orders) PROVE OnPlan(o)'
  <2>1. o = Len(orders) + 1
    BY <1>1, <1>7, <1>8
  <2>2. /\ orders'[o].node = n /\ orders'[o].kind = "rotation_entry"
        /\ orders'[o].filled = 0 /\ orders'[o].qty = quantity /\ orders'[o].price = price
    BY <1>7, <2>1
  <2> QED
    BY <1>3, <1>6, <2>2 DEF OnPlan, AsPlanned
<1> QED
  BY <1>7, <1>8 DEF Placed

LEMMA PlanEntries == IInv /\ PlanInv /\ Entries => PlanStays
<1> SUFFICES ASSUME IInv, PlanInv, Entries PROVE PlanStays
  OBVIOUS
<1>1. GoodTree(tree) /\ DOMAIN tree = 1..Len(tree)
  BY Sizes DEF IInv, TypeInv
<1>2. ASSUME NEW n \in DOMAIN tree,
             DropEntry(n) \/ DeferEntry(n) \/ EntryRefused(n) \/ EntryReplyLost(n) \/ EntryPlaced(n)
      PROVE  PlanStays
  <2>1. /\ UNCHANGED <<feed, fillQueue>> /\ pc' # "monitor" /\ pc = "entries" /\ n \in work
        /\ tree' = tree \/ tree' = cancel_planned_node(tree, n)
        /\ orders' = orders \/ orders' = EntryOrder(n)
    BY <1>2 DEF DropEntry, DeferEntry, EntryRefused, EntryReplyLost, EntryPlaced, Visits, Visited,
                MayEnter, GiveUpEntry
  <2>2. tree[n].status = "planned" /\ n \in 1..Len(tree)
    BY <2>1 DEF IInv, TrackedInv
  <2>3. TreeKept
    BY <1>1, <2>1, <2>2, CancelKept, SameAlike, AlikeKept
  <2>4. tree' = tree \/ tree'[n].status # "planned"
    <3>1. CASE tree' = cancel_planned_node(tree, n)
      <4>1. Sets(tree, tree', n, "cancelled")
        BY <1>1, <2>2, <3>1, CancelSets
      <4> QED
        BY <2>2, <4>1 DEF Sets
    <3> QED
      BY <2>1, <3>1
  <2>5. OrdersKept(orders, orders') /\ Placed
    BY <2>1, <2>2, <2>4, SameOrders, EntryPlanned
  <2> QED
    BY <2>1, <2>3, <2>5, PlanSteady
<1>3. CASE EndRun
  <2>1. UNCHANGED <<orders, tree, feed, fillQueue>> /\ pc' # "monitor"
    BY <1>3 DEF EndRun, exchange, bot
  <2> QED
    BY <2>1, PlanQuiet
<1> QED
  BY <1>2, <1>3 DEF Entries

LEMMA PlanInit == Init => PlanInv
<1> SUFFICES ASSUME Init PROVE PlanInv
  OBVIOUS
<1>1. IInv
  BY InitInv
<1>2. /\ tree = <<RootNode(Capital)>> /\ orders = <<>> /\ feed = <<>> /\ fillQueue = <<>>
      /\ pc = "idle" /\ GoodTree(tree)
  BY <1>1 DEF Init, IInv, TypeInv
<1>3. /\ Len(tree) = 1 /\ tree[1].parent = 0 /\ tree[1].status = "open" /\ tree[1].reserved = 0
  BY <1>2 DEF RootNode, NoParent
<1>4. PlannedIn(tree, 1) \in Nat
  BY <1>2, Amounts
<1>5. Older(tree) /\ Backed(tree) /\ Fresh(tree)
  BY <1>3, <1>4 DEF Older, Backed, Fresh
<1> QED
  BY <1>2, <1>5 DEF PlanInv

LEMMA PlanNext == IInv /\ PlanInv /\ [Next]_vars => PlanStays
<1> SUFFICES ASSUME IInv, PlanInv, [Next]_vars PROVE PlanStays
  OBVIOUS
<1>1. CASE UNCHANGED vars
  BY <1>1, PlanQuiet DEF vars
<1> QED
  BY <1>1, PlanExchange, PlanClock, PlanDeliver, PlanReconcile, PlanExpiry, PlanRoots, PlanFills,
     PlanTimeouts, PlanMonitor, PlanPlan, PlanEntries DEF Next, RunOnce

LEMMA PlanAlways == Spec => []PlanInv
<1>1. Spec => []IInv
  BY RuntimeInv
<1>2. IInv /\ PlanInv /\ [Next]_vars => PlanInv'
  BY PlanNext DEF PlanStays
<1> QED
  BY <1>1, <1>2, PlanInit, PTL DEF Spec

\* What a node holds reserved is backed by the children planned with it: whatever
\* fills, expiries, cancellations and timeouts have done to them, also repeated or out
\* of order, _rotation_tree sets no capital aside for nothing.
THEOREM ReservedBackedHolds == Spec => []ReservedBacked
<1>1. IInv /\ PlanInv => ReservedBacked
  <2> SUFFICES ASSUME IInv, PlanInv PROVE ReservedBacked
    OBVIOUS
  <2>1. DOMAIN tree = 1..Len(tree) /\ Backed(tree)
    BY Sizes DEF IInv, PlanInv
  <2>2. \A n : PlannedTotal(n) = PlannedIn(tree, n)
    BY DEF PlannedTotal, PlannedIn, Totals, PlannedUnder
  <2> QED
    BY <2>1, <2>2 DEF ReservedBacked, Backed
<1>2. Spec => []IInv
  BY RuntimeInv
<1> QED
  BY <1>1, <1>2, PlanAlways, PTL

-----------------------------------------------------------------------------
(* While no fill goes astray, with the conditional tree off *)

\* What the next settlement does with a queued fill: an entry costs no more than what
\* was set aside, and what is sold awaits it, or has been closed by another fill of
\* its one exit, of which no untraded one is tracked.
Due(fill) ==
  IF fill.kind = "rotation_entry" THEN AsPlanned(fill.node, fill.qty, fill.price)
  ELSE fill.node # Root =>
         /\ tree[fill.node].status \in {"closing", "closed"}
         /\ pc \in Early =>
              \A o \in pendings :
                orders[o].kind = "rotation_exit" /\ orders[o].node = fill.node
                  => orders[o].filled > 0
         /\ pc \in Middle => TrackedFor(fill.node) = {}

\* An exit of a child.
Sells(o) == orders[o].kind = "rotation_exit" /\ orders[o].node # Root

Faithful ==
  /\ Balanced(tree)
  /\ \A n \in 2..Len(tree) : tree[n].status # "closed" => tree[n].proceeds = 0
  /\ \A o \in pendings : Sells(o) => StatusOf(o) = "closing"
  /\ \A i \in 1..Len(fillQueue) : Due(fillQueue[i])
  /\ pc = "reconcile" => work \subseteq pendings
  /\ pc = "timeouts" =>
       \A o \in work : o \in 1..Len(orders) /\ (Sells(o) => StatusOf(o) = "closing")

\* A step that keeps this neither opens nor sells again what was closed or cancelled.
FaithfulStep ==
  /\ Faithful'
  /\ \A n \in 2..Len(tree) : tree[n].status \in {"closed", "cancelled"} =>
                               tree'[n].status = tree[n].status

\* No fill of an exit of node n is queued.
Unsold(n) == \A i \in 1..Len(fillQueue) :
               ~(fillQueue[i].kind = "rotation_exit" /\ fillQueue[i].node = n)

\* Node m keeps its status, or it leaves one that is not final in good order.
Stays(m) == tree'[m].status = tree[m].status /\ tree'[m].proceeds = tree[m].proceeds
Turns(m) ==
  /\ tree[m].status \notin {"closed", "cancelled"}
  /\ tree'[m].status = "closed" \/ tree'[m].proceeds = tree[m].proceeds
  /\ \A o \in pendings' :
       orders'[o].kind = "rotation_exit" /\ orders'[o].node = m => tree'[m].status = "closing"
  /\ tree'[m].status \in {"closing", "closed"} \/ Unsold(m)

\* The orders tracked next are tracked already, are the root's, or are of a node
\* without a queued fill, which now awaits them.
TracksWell ==
  \A o \in pendings' :
    \/ o \in pendings
    \/ orders'[o].node = Root
    \/ /\ Unsold(orders'[o].node)
       /\ orders'[o].kind = "rotation_exit" => tree'[orders'[o].node].status = "closing"

\* run_once goes from one part to the next, with what it has still to visit.
GoesOn ==
  /\ pc' = "reconcile" => work' \subseteq pendings'
  /\ pc' = "timeouts" =>
       /\ \A o \in work' : o \in pendings \/ (pc = "timeouts" /\ o \in work)
       /\ \A m \in 2..Len(tree) : tree[m].status = "closing" => tree'[m].status = "closing"
  /\ fillQueue # <<>> /\ pc' \in Early => pc \in Early
  /\ fillQueue # <<>> /\ pc' \in Middle => pc \in Middle \/ pendings' = {}

\* A queued fill stays due.
LEMMA DueStays ==
  ASSUME IInv, Faithful, PlanStays, TracksWell, GoesOn,
         \A m \in 2..Len(tree) : Stays(m) \/ Turns(m), NEW i \in 1..Len(fillQueue),
         NEW f, f = fillQueue[i]
  PROVE  Due(f)'
<1>1. /\ f \in FillType /\ f.node \in 1..Len(tree) /\ Due(f) /\ Len(tree) \in Nat
      /\ f.kind = "rotation_entry" \/ f.kind = "rotation_exit"
  <2>1. /\ fillQueue \in Seq(FillType) /\ OfNode(fillQueue[i], Len(tree)) /\ Len(tree) \in Nat
    BY Sizes DEF IInv, TypeInv
  <2>2. f \in FillType
    BY <2>1
  <2> QED
    BY <2>1, <2>2 DEF Faithful, OfNode, FillType, Kinds
<1>2. CASE f.kind = "rotation_entry"
  <2>1. AsPlanned(f.node, f.qty, f.price)
    BY <1>1, <1>2 DEF Due
  <2>2. AsPlanned(f.node, f.qty, f.price)'
    <3> SUFFICES ASSUME tree'[f.node].status = "planned"
                 PROVE  /\ f.qty <= entry_base_quantity(tree'[f.node])
                        /\ f.price = PriceOf[tree'[f.node].pair]
      BY DEF AsPlanned
    <3>1. /\ tree[f.node].status = "planned" /\ tree'[f.node].total = tree[f.node].total
          /\ tree'[f.node].pair = tree[f.node].pair
      BY <1>1 DEF PlanStays, TreeKept
    <3>2. entry_base_quantity(tree'[f.node]) = entry_base_quantity(tree[f.node])
      BY <3>1 DEF entry_base_quantity, IsBuy
    <3> QED
      BY <2>1, <3>1, <3>2 DEF AsPlanned
  <2> QED
    BY <1>2, <2>2 DEF Due
<1>3. CASE f.kind # "rotation_entry" /\ f.node # Root
  <2>1. f.node \in 2..Len(tree) /\ f.kind = "rotation_exit" /\ ~Unsold(f.node)
    BY <1>1, <1>3 DEF Unsold, Root
  <2>2. /\ tree[f.node].status \in {"closing", "closed"}
        /\ pc \in Early =>
             \A o \in pendings :
               orders[o].kind = "rotation_exit" /\ orders[o].node = f.node
                 => orders[o].filled > 0
        /\ pc \in Middle => TrackedFor(f.node) = {}
    BY <1>1, <1>3 DEF Due
  <2>3. tree'[f.node].status \in {"closing", "closed"}
    BY <2>1, <2>2 DEF Stays, Turns
  <2>4. ASSUME NEW o \in pendings', orders'[o].node = f.node
        PROVE  /\ o \in pendings /\ orders[o].node = f.node
               /\ orders'[o].kind = orders[o].kind
               /\ orders[o].filled > 0 => orders'[o].filled > 0
    <3>1. o \in pendings /\ o \in 1..Len(orders)
      BY <1>3, <2>1, <2>4 DEF TracksWell, IInv, TypeInv
    <3>2. /\ orders'[o].node = orders[o].node /\ orders'[o].kind = orders[o].kind
          /\ orders'[o].filled >= orders[o].filled /\ orders' \in Seq(OrderType)
          /\ Len(orders') >= Len(orders)
      BY <3>1 DEF PlanStays, OrdersKept
    <3>3. orders[o].filled \in Nat /\ orders'[o].filled \in Nat
      <4>1. orders[o] \in OrderType /\ orders'[o] \in OrderType
        BY <3>1, <3>2, Sizes DEF IInv
      <4> QED
        BY <4>1 DEF OrderType
    <3> QED
      BY <2>4, <3>1, <3>2, <3>3
  <2>5. fillQueue # <<>>
    BY <1>1
  <2>6. pc' \in Early =>
          \A o \in pendings' :
            orders'[o].kind = "rotation_exit" /\ orders'[o].node = f.node
              => orders'[o].filled > 0
    BY <2>2, <2>4, <2>5 DEF GoesOn
  <2>7. pc' \in Middle => TrackedFor(f.node)' = {}
    <3> SUFFICES ASSUME pc' \in Middle, NEW o \in pendings', orders'[o].node = f.node
                 PROVE  FALSE
      BY DEF TrackedFor
    <3>1. pc \in Middle
      BY <2>5 DEF GoesOn
    <3> QED
      BY <2>2, <2>4, <3>1 DEF TrackedFor
  <2> QED
    BY <1>3, <2>3, <2>6, <2>7 DEF Due
<1>4. CASE f.kind # "rotation_entry" /\ f.node = Root
  BY <1>4 DEF Due
<1> QED
  BY <1>2, <1>3, <1>4

\* What keeps a step faithful.
LEMMA OnceFrame ==
  ASSUME IInv, PlanInv, Faithful, PlanStays, TracksWell, GoesOn, Balanced(tree'),
         \A m \in 2..Len(tree) : Stays(m) \/ Turns(m),
         \A m \in 2..Len(tree') : m \notin 1..Len(tree) => tree'[m].proceeds = 0,
         \A i \in 1..Len(fillQueue') : \/ \E j \in 1..Len(fillQueue) : fillQueue'[i] = fillQueue[j]
                                       \/ Due(fillQueue[i])'
  PROVE  FaithfulStep
<1>1. /\ pendings \subseteq 1..Len(orders) /\ Len(tree) \in Nat /\ Len(tree') \in Nat
      /\ \A o \in 1..Len(orders) :
           /\ orders[o].node \in 1..Len(tree)
           /\ orders'[o].node = orders[o].node /\ orders'[o].kind = orders[o].kind
  BY Sizes DEF IInv, TypeInv, PlanStays, OrdersKept, TreeKept
<1>2. \A n \in 2..Len(tree') : tree'[n].status # "closed" => tree'[n].proceeds = 0
  <2> SUFFICES ASSUME NEW n \in 2..Len(tree'), tree'[n].status # "closed"
               PROVE  tree'[n].proceeds = 0
    OBVIOUS
  <2>1. CASE n \in 1..Len(tree)
    <3>1. n \in 2..Len(tree)
      BY <1>1, <2>1
    <3> QED
      BY <3>1 DEF Stays, Turns, Faithful
  <2> QED
    BY <2>1
<1>3. ASSUME NEW o \in pendings', Sells(o)' PROVE StatusOf(o)' = "closing"
  <2> DEFINE m == orders'[o].node
  <2>1. m # Root /\ orders'[o].kind = "rotation_exit"
    BY <1>3 DEF Sells
  <2>2. CASE o \in pendings
    <3>1. /\ m \in 2..Len(tree) /\ Sells(o) /\ m = orders[o].node
      BY <1>1, <2>1, <2>2 DEF Sells, Root
    <3>2. tree[m].status = "closing"
      BY <2>2, <3>1 DEF Faithful, StatusOf
    <3>3. tree'[m].status = "closing"
      BY <2>1, <3>1, <3>2 DEF Stays, Turns
    <3> QED
      BY <3>3 DEF StatusOf
  <2>3. CASE o \notin pendings
    BY <2>1, <2>3 DEF TracksWell, StatusOf
  <2> QED
    BY <2>2, <2>3
<1>4. (\A o \in pendings : Sells(o) => StatusOf(o) = "closing")'
  BY <1>3
<1>5. (\A i \in 1..Len(fillQueue) : Due(fillQueue[i]))'
  <2> SUFFICES ASSUME NEW i \in 1..Len(fillQueue') PROVE Due(fillQueue[i])'
    OBVIOUS
  <2>1. ASSUME NEW j \in 1..Len(fillQueue), fillQueue'[i] = fillQueue[j] PROVE Due(fillQueue[i])'
    <3>1. ASSUME NEW f, f = fillQueue[j] PROVE Due(f)'
      BY <3>1, DueStays
    <3>2. \A f : f = fillQueue[j] => Due(f)'
      BY <3>1
    <3> QED
      BY <2>1, <3>2
  <2> QED
    BY <2>1
<1>6. (pc = "reconcile" => work \subseteq pendings)'
  BY DEF GoesOn
<1>7. ASSUME pc' = "timeouts", NEW o \in work'
      PROVE  o \in 1..Len(orders') /\ (Sells(o)' => StatusOf(o)' = "closing")
  <2>1. o \in 1..Len(orders) /\ (Sells(o) => StatusOf(o) = "closing")
    BY <1>1, <1>7 DEF GoesOn, Faithful
  <2>2. o \in 1..Len(orders')
    BY <2>1, Sizes DEF IInv, PlanStays, OrdersKept
  <2>3. Sells(o)' => StatusOf(o)' = "closing"
    BY <1>1, <1>7, <2>1 DEF GoesOn, Sells, StatusOf, Root
  <2> QED
    BY <2>2, <2>3
<1>8. (pc = "timeouts" =>
         \A o \in work : o \in 1..Len(orders) /\ (Sells(o) => StatusOf(o) = "closing"))'
  BY <1>7
<1>9. Faithful'
  BY <1>2, <1>4, <1>5, <1>6, <1>8 DEF Faithful
<1>10. \A n \in 2..Len(tree) : tree[n].status \in {"closed", "cancelled"} =>
                                 tree'[n].status = tree[n].status
  BY DEF Stays, Turns
<1> QED
  BY <1>9, <1>10 DEF FaithfulStep

\* A step that settles, closes and cancels nothing.
LEMMA OnceQuiet ==
  ASSUME IInv, PlanInv, Faithful, PlanStays, Alike(tree, tree'),
         \A m \in 2..Len(tree) : tree'[m].status = tree[m].status,
         TracksWell, fillQueue' = fillQueue, GoesOn
  PROVE  FaithfulStep
<1>1. GoodTree(tree) /\ Len(tree') = Len(tree) /\ Len(tree) \in Nat
  BY Sizes DEF IInv, TypeInv, Alike
<1>2. Balanced(tree')
  BY <1>1, AlikeSums DEF Faithful
<1>3. \A m \in 2..Len(tree) : Stays(m)
  BY <1>1 DEF Alike, Stays
<1>4. \A m \in 2..Len(tree') : m \notin 1..Len(tree) => tree'[m].proceeds = 0
  BY <1>1
<1> QED
  BY <1>2, <1>3, <1>4, OnceFrame

\* A node is taken off the plan.
LEMMA OnceCancelling ==
  ASSUME IInv, PlanInv, Faithful, PlanStays, NEW n \in 1..Len(tree),
         tree' = cancel_planned_node(tree, n), pendings' \subseteq pendings,
         fillQueue' = fillQueue, GoesOn
  PROVE  FaithfulStep
<1>1. /\ GoodTree(tree) /\ Len(tree) \in Nat /\ Older(tree) /\ pendings \subseteq 1..Len(orders)
      /\ \A o \in 1..Len(orders) : /\ orders'[o].node = orders[o].node
                                   /\ orders'[o].kind = orders[o].kind
  BY Sizes DEF IInv, TypeInv, PlanInv, PlanStays, OrdersKept
<1>2. TracksWell
  BY DEF TracksWell
<1>3. CASE tree[n].status # "planned"
  <2>1. tree' = tree
    BY <1>3 DEF cancel_planned_node
  <2>2. Alike(tree, tree')
    BY <1>1, <2>1, SameAlike
  <2> QED
    BY <1>2, <2>1, <2>2, OnceQuiet
<1>4. CASE tree[n].status = "planned"
  <2>1. /\ Moves(tree, tree', n, tree[n].total, tree[n].total)
        /\ tree'[n].entryCost = tree[n].entryCost /\ tree'[n].proceeds = tree[n].proceeds
        /\ tree'[n].status = "cancelled"
    BY <1>1, <1>4, CancelMoves
  <2>2. /\ n # Root /\ tree[n].total \in Nat /\ tree[n].entryCost \in Nat
        /\ tree[n].proceeds \in Nat
    BY <1>1, <1>4, Amounts DEF GoodTree
  <2>3. tree[n].total + (tree'[n].entryCost - tree[n].entryCost)
          = tree[n].total + (tree'[n].proceeds - tree[n].proceeds)
    BY <2>1, <2>2
  <2>4. Balanced(tree')
    BY <1>1, <1>4, <2>1, <2>2, <2>3, MovedBalanced DEF Faithful
  <2>5. \A m \in 2..Len(tree) : m # n => Stays(m)
    BY <2>1 DEF Moves, Stays
  <2>6. Unsold(n)
    BY <1>4, <2>2 DEF Unsold, Faithful, Due
  <2>7. \A o \in pendings' : ~(orders'[o].kind = "rotation_exit" /\ orders'[o].node = n)
    BY <1>1, <1>4, <2>2 DEF Faithful, Sells, StatusOf
  <2>8. Turns(n)
    BY <1>4, <2>1, <2>6, <2>7 DEF Turns
  <2>9. Len(tree') = Len(tree)
    BY <2>1 DEF Moves
  <2>10. \A m \in 2..Len(tree') : m \notin 1..Len(tree) => tree'[m].proceeds = 0
    BY <1>1, <2>9
  <2>11. \A m \in 2..Len(tree) : Stays(m) \/ Turns(m)
    BY <2>5, <2>8
  <2> QED
    BY <1>2, <2>4, <2>10, <2>11, OnceFrame
<1> QED
  BY <1>3, <1>4

\* A node is closed, the root or one that no fill is queued for.
LEMMA OnceClosing ==
  ASSUME IInv, PlanInv, Faithful, PlanStays, NEW n \in 1..Len(tree),
         n # Root => tree[n].status \in {"open", "closing"} /\ Unsold(n), n = Root => tree[n].status # "planned",
         NEW t, Alike(tree, t), \A m \in 2..Len(tree) : t[m].status = tree[m].status,
         NEW os, OrdersKept(orders, os), Len(os) = Len(orders), GoodOrders(os, Len(tree)),
         NEW tracked, tracked \subseteq pendings, CloseNode(n, t, os, tracked),
         fillQueue' = fillQueue, pc' \notin Early, pc' \in Middle => pc \in Middle,
         pc' = "timeouts" => pc = "timeouts" /\ work' \subseteq work
  PROVE  FaithfulStep
<1>1. /\ GoodTree(tree) /\ Len(tree) \in Nat /\ GoodTree(t) /\ Len(t) = Len(tree)
      /\ tree[n].status # "planned"
  BY Sizes DEF IInv, TypeInv, Alike
<1>2. Alike(tree, tree')
  BY <1>1, ClosePlan
<1>3. Closes(n, t, os, tracked)
  BY <1>1, CloseNodeCloses
<1>4. \A m \in 2..Len(tree) : tree'[m].proceeds = tree[m].proceeds
  BY <1>2 DEF Alike
<1>5. \A m \in 2..Len(tree) : /\ m # n => tree'[m].status = tree[m].status
                              /\ m = n => \/ tree'[m].status = tree[m].status
                                          \/ tree'[m].status = "closing"
  BY <1>1, <1>3 DEF Closes, Root
<1>6. \A m \in 2..Len(tree) : Stays(m) \/ Turns(m)
  <2> SUFFICES ASSUME NEW m \in 2..Len(tree) PROVE Stays(m) \/ Turns(m)
    OBVIOUS
  <2>1. CASE tree'[m].status = tree[m].status
    BY <1>4, <2>1 DEF Stays
  <2>2. CASE tree'[m].status # tree[m].status
    <3>1. m = n /\ m # Root /\ tree'[m].status = "closing"
      BY <1>5, <2>2 DEF Root
    <3> QED
      BY <1>4, <3>1 DEF Turns
  <2> QED
    BY <2>1, <2>2
<1>7. TracksWell
  BY <1>3 DEF Closes, TracksWell
<1>8. GoesOn
  <2>1. \A m \in 2..Len(tree) : tree[m].status = "closing" => tree'[m].status = "closing"
    BY <1>5
  <2> QED
    BY <2>1 DEF GoesOn, Early
<1>9. Balanced(tree')
  BY <1>1, <1>2, AlikeSums DEF Faithful
<1>10. \A m \in 2..Len(tree') : m \notin 1..Len(tree) => tree'[m].proceeds = 0
  BY <1>1, <1>2 DEF Alike
<1> QED
  BY <1>6, <1>7, <1>8, <1>9, <1>10, OnceFrame

-----------------------------------------------------------------------------
(* The steps stay faithful *)

\* A step without the tree, the orders tracked, the queue and the place of run_once.
LEMMA OnceStill ==
  ASSUME IInv, PlanInv, Faithful, PlanStays, UNCHANGED <<pendings, fillQueue, pc, work>>,
         Alike(tree, tree'), \A m \in 2..Len(tree) : tree'[m].status = tree[m].status
  PROVE  FaithfulStep
<1>1. TracksWell
  BY DEF TracksWell
<1>2. GoesOn
  <2>1. pc = "reconcile" => work \subseteq pendings
    BY DEF Faithful
  <2> QED
    BY <2>1 DEF GoesOn
<1> QED
  BY <1>1, <1>2, OnceQuiet

LEMMA OnceExchange ==
  ASSUME IInv, PlanInv, Faithful, PlanStays, Exchange
  PROVE  FaithfulStep
<1>1. UNCHANGED <<tree, pendings, fillQueue, pc, work>>
  BY DEF Exchange, CancelledOutside, Execute, Lose, bot, control
<1>2. Alike(tree, tree')
  BY <1>1, SameAlike DEF IInv, TypeInv
<1> QED
  BY <1>1, <1>2, OnceStill

LEMMA OnceClock ==
  ASSUME IInv, PlanInv, Faithful, PlanStays, Clock
  PROVE  FaithfulStep
<1>1. UNCHANGED <<pendings, fillQueue, pc, work>>
  BY DEF Clock, DeadlinePasses, FillTimeoutPasses, ReconcileIntervalPasses, CooldownPasses,
         control
<1>2. GoodTree(tree) /\ DOMAIN tree = 1..Len(tree) /\ Len(tree) \in Nat
  BY Sizes DEF IInv, TypeInv
<1>3. tree' = tree \/ \E n \in 1..Len(tree) : tree' = [tree EXCEPT ![n].deadline = "passed"]
  BY <1>2 DEF Clock, DeadlinePasses, FillTimeoutPasses, ReconcileIntervalPasses, CooldownPasses
<1>4. Alike(tree, tree') /\ \A m \in 1..Len(tree) : tree'[m].status = tree[m].status
  <2>1. CASE tree' = tree
    BY <1>2, <2>1, SameAlike
  <2>2. ASSUME NEW n \in 1..Len(tree), tree' = [tree EXCEPT ![n].deadline = "passed"]
        PROVE  Alike(tree, tree') /\ \A m \in 1..Len(tree) : tree'[m].status = tree[m].status
    <3>1. "passed" \in Deadlines
      BY DEF Deadlines
    <3>2. Alike(tree, tree')
      BY <1>2, <2>2, <3>1, DeadlineAlike
    <3> QED
      BY <1>2, <2>2, <3>2
  <2> QED
    BY <1>3, <2>1, <2>2
<1>5. \A m \in 2..Len(tree) : m \in 1..Len(tree)
  BY <1>2
<1> QED
  BY <1>1, <1>4, <1>5, OnceStill

\* What is executed of a tracked order is due.
LEMMA DueQueued ==
  ASSUME IInv, AInv, PlanInv, Faithful, UNCHANGED <<orders, tree, pc>>, pc \in Early,
         pendings' \subseteq pendings, NEW o \in pendings, orders[o].filled > 0,
         NEW q \in Nat, NEW price \in Nat, q <= orders[o].qty, price = orders[o].price,
         NEW f, f = FillOf(o, q, price)
  PROVE  Due(f)'
<1>1. /\ o \in 1..Len(orders) /\ OnPlan(o) /\ orders[o].kind \in Kinds /\ orders[o].qty \in Nat
      /\ f.node = orders[o].node /\ f.kind = orders[o].kind /\ f.qty = q /\ f.price = price
      /\ tree[orders[o].node] \in NodeType /\ orders[o].node \in 1..Len(tree)
  <2>1. /\ o \in 1..Len(orders) /\ orders[o] \in OrderType /\ tree[orders[o].node] \in NodeType
        /\ orders[o].node \in 1..Len(tree)
    BY Sizes DEF IInv, TypeInv
  <2>2. OnPlan(o)
    BY <2>1 DEF PlanInv
  <2> QED
    BY <2>1, <2>2 DEF OrderType, FillOf
<1>2. CASE f.kind = "rotation_entry"
  <2>1. AsPlanned(f.node, orders[o].qty, price)
    BY <1>1, <1>2 DEF OnPlan
  <2>2. ASSUME tree[f.node].status = "planned"
        PROVE  q <= entry_base_quantity(tree[f.node]) /\ price = PriceOf[tree[f.node].pair]
    <3>1. /\ orders[o].qty <= entry_base_quantity(tree[f.node])
          /\ price = PriceOf[tree[f.node].pair]
      BY <2>1, <2>2 DEF AsPlanned
    <3>2. entry_base_quantity(tree[f.node]) \in Nat
      <4>1. f.node # Root /\ tree[f.node].pair \in Pairs /\ tree[f.node].total \in Nat
        BY <1>1, <2>2 DEF IInv, TypeInv, GoodTree, NodeType
      <4>2. PriceOf[tree[f.node].pair] \in Nat \ {0}
        BY <4>1, PairsAssumption
      <4> QED
        BY <4>1, <4>2, NatOperations DEF entry_base_quantity
    <3> QED
      BY <1>1, <3>1, <3>2
  <2> QED
    BY <1>1, <1>2, <2>2 DEF Due, AsPlanned
<1>3. CASE f.kind # "rotation_entry"
  <2>1. f.kind = "rotation_exit"
    BY <1>1, <1>3 DEF Kinds
  <2>2. f.node # Root => tree[f.node].status = "closing"
    BY <1>1, <2>1 DEF Faithful, Sells, StatusOf
  <2>3. ASSUME NEW p \in pendings, orders[p].kind = "rotation_exit", orders[p].node = f.node
        PROVE  orders[p].filled > 0
    BY <1>1, <2>1, <2>3 DEF AInv, AloneInv, ClientId
  <2> QED
    BY <1>3, <2>2, <2>3 DEF Due, Early, Middle
<1> QED
  BY <1>2, <1>3

\* A fill is queued that is due, and the orders tracked are so already.
LEMMA OnceQueued ==
  ASSUME IInv, PlanInv, Faithful, PlanStays, tree' = tree, GoesOn, pendings' \subseteq pendings,
         \/ fillQueue' = fillQueue
         \/ \E f \in FillType : fillQueue' = Append(fillQueue, f) /\ Due(f)'
  PROVE  FaithfulStep
<1>1. Balanced(tree') /\ Len(tree) \in Nat /\ fillQueue \in Seq(FillType)
  BY Sizes DEF Faithful, IInv, TypeInv
<1>2. TracksWell
  BY DEF TracksWell
<1>3. \A m \in 2..Len(tree) : Stays(m)
  BY DEF Stays
<1>4. \A m \in 2..Len(tree') : m \notin 1..Len(tree) => tree'[m].proceeds = 0
  BY <1>1
<1>5. \A i \in 1..Len(fillQueue') : \/ \E j \in 1..Len(fillQueue) : fillQueue'[i] = fillQueue[j]
                                    \/ Due(fillQueue[i])'
  <2>1. CASE fillQueue' = fillQueue
    BY <2>1
  <2>2. ASSUME NEW f \in FillType, fillQueue' = Append(fillQueue, f), Due(f)',
               NEW i \in 1..Len(fillQueue')
        PROVE  (\E j \in 1..Len(fillQueue) : fillQueue'[i] = fillQueue[j]) \/ Due(fillQueue[i])'
    <3>1. (i \in 1..Len(fillQueue) /\ fillQueue'[i] = fillQueue[i]) \/ fillQueue'[i] = f
      BY <1>1, <2>2
    <3>2. fillQueue'[i] = f => Due(fillQueue[i])'
      BY <2>2 DEF Due, AsPlanned, TrackedFor
    <3> QED
      BY <3>1, <3>2
  <2> QED
    BY <2>1, <2>2
<1> QED
  BY <1>1, <1>2, <1>3, <1>4, <1>5, OnceFrame

LEMMA OnceDeliver ==
  ASSUME ConditionalTree = FALSE, IInv, AInv, PlanInv, Faithful, PlanStays, Deliver, ~misled'
  PROVE  FaithfulStep
<1> DEFINE msg == Head(feed)
           matched == MatchingPending(msg.order)
<1>1. /\ pc \in {"idle", "ready"} /\ feed # <<>>
      /\ fillQueue' = IF matched = {} THEN fillQueue
                      ELSE Append(fillQueue, FillOf(CHOOSE p \in matched : TRUE,
                                                    msg.qty, msg.price))
      /\ UNCHANGED <<orders, tree, pendings, pc, work>>
      /\ ~Misattributed(msg.order, matched)
  BY DEF Deliver, Awaits, control
<1>2. pc \in Early
  BY <1>1 DEF Early
<1>3. GoesOn
  BY <1>1, <1>2 DEF GoesOn, Middle
<1>4. matched = {} \/ (msg.order \in pendings /\ matched = {msg.order})
  BY <1>1 DEF Misattributed, MatchingPending
<1>5. msg \in MessageType /\ Executed(msg)
  <2>1. feed \in Seq(MessageType) /\ \A i \in 1..Len(feed) : Executed(feed[i])
    BY DEF PlanInv, IInv, TypeInv
  <2>2. 1 \in 1..Len(feed) /\ msg = feed[1]
    BY <1>1, <2>1
  <2> QED
    BY <2>1, <2>2
<1> HIDE DEF msg, matched
<1>6. CASE matched = {}
  <2>1. fillQueue' = fillQueue
    BY <1>1, <1>6
  <2> QED
    BY <1>1, <1>3, <2>1, OnceQueued
<1>7. CASE matched # {}
  <2> DEFINE o == msg.order
             f == FillOf(o, msg.qty, msg.price)
  <2>1. o \in pendings /\ fillQueue' = Append(fillQueue, f)
    BY <1>1, <1>4, <1>7
  <2>2. /\ msg.qty \in Nat /\ msg.price \in Nat /\ orders[o].filled > 0
        /\ msg.qty <= orders[o].qty /\ msg.price = orders[o].price
    BY <1>5 DEF MessageType, Executed
  <2>3. f \in FillType
    <3>1. orders[o] \in OrderType
      BY <2>1, Sizes DEF IInv, TypeInv
    <3> QED
      BY <2>2, <3>1 DEF FillOf, FillType, OrderType
  <2>4. ASSUME NEW g, g = f PROVE Due(g)'
    BY <1>1, <1>2, <2>1, <2>2, <2>4, DueQueued
  <2> HIDE DEF f
  <2>5. \E g \in FillType : fillQueue' = Append(fillQueue, g) /\ Due(g)'
    <3>1. \A g : g = f => Due(g)'
      BY <2>4
    <3>2. PICK g \in FillType : g = f
      BY <2>3
    <3> QED
      BY <2>1, <3>1, <3>2
  <2> QED
    BY <1>1, <1>3, <2>5, OnceQueued
<1> QED
  BY <1>6, <1>7

\* Of the orders tracked, only one has its client order id.
LEMMA AloneIs ==
  ASSUME IInv, AInv, NEW o \in pendings
  PROVE  /\ pendings \ Untracked(o) = {o} /\ Untracked(o) = pendings \ {o}
         /\ Earliest({o}) = o
<1>1. \A p \in pendings : ClientId(p) = ClientId(o) => p = o
  BY DEF AInv, AloneInv
<1>2. o \in Nat
  BY Sizes DEF IInv, TypeInv
<1>3. Earliest({o}) \in {o}
  BY <1>2, EarliestIsFirst
<1> QED
  BY <1>1, <1>3 DEF Untracked

LEMMA OnceRecover ==
  ASSUME IInv, AInv, PlanInv, Faithful, PlanStays, NEW o \in OrderIds, RecoverFill(o)
  PROVE  FaithfulStep
<1>1. /\ pc = "reconcile" /\ work # {} /\ o = Earliest(work) /\ work' = work \ {o}
      /\ UNCHANGED <<orders, tree, pc>> /\ Recovered(o) > 0
  BY DEF RecoverFill, exchange
<1>2. o \in pendings /\ work \subseteq pendings
  <2>1. work \subseteq Nat /\ work \subseteq pendings
    BY <1>1 DEF IInv, TypeInv, Faithful
  <2> QED
    BY <1>1, <2>1, EarliestIsFirst
<1>3. pendings \ Untracked(o) = {o} /\ Untracked(o) = pendings \ {o} /\ Earliest({o}) = o
  BY <1>2, AloneIs
<1> DEFINE f == FillOf(o, Recovered(o), orders[o].price)
<1>4. fillQueue' = Append(fillQueue, f) /\ pendings' = pendings \ {o}
  <2> DEFINE same == pendings \ Untracked(o)
             matched == IF same # {} THEN {Earliest(same)} ELSE MatchingPending(o)
             m == CHOOSE p \in matched : TRUE
  <2>1. IF matched = {} THEN UNCHANGED <<fillQueue, pendings>>
        ELSE /\ fillQueue' = Append(fillQueue, FillOf(m, Recovered(o), orders[o].price))
             /\ pendings' = Untracked(m)
    BY DEF RecoverFill
  <2>2. matched = {o}
    BY <1>3
  <2> HIDE DEF matched
  <2>3. m = o
    BY <2>2
  <2> HIDE DEF m
  <2> QED
    BY <1>3, <2>1, <2>2, <2>3
<1>5. /\ orders[o] \in OrderType /\ Recovered(o) \in Nat /\ orders[o].price \in Nat
      /\ orders[o].filled > 0 /\ Recovered(o) <= orders[o].qty
  <2>1. o \in 1..Len(orders) /\ orders[o] \in OrderType
    BY <1>2, Sizes DEF IInv, TypeInv
  <2>2. orders[o].filled <= orders[o].qty
    BY <2>1 DEF PlanInv, OnPlan
  <2> QED
    BY <1>1, <2>1, <2>2 DEF Recovered, OrderType
<1>6. f \in FillType
  BY <1>5 DEF FillOf, FillType, OrderType
<1>7. pc \in Early /\ pendings' \subseteq pendings
  BY <1>1, <1>4 DEF Early
<1>8. ASSUME NEW g, g = f PROVE Due(g)'
  <2>1. \A q, p \in Nat : q <= orders[o].qty /\ p = orders[o].price /\ g = FillOf(o, q, p) => Due(g)'
    BY <1>1, <1>2, <1>5, <1>7, DueQueued
  <2> QED
    BY <1>5, <1>8, <2>1
<1> HIDE DEF f
<1>9. \E g \in FillType : fillQueue' = Append(fillQueue, g) /\ Due(g)'
  <2>1. \A g : g = f => Due(g)'
    BY <1>8
  <2>2. PICK g \in FillType : g = f
    BY <1>6
  <2> QED
    BY <1>4, <2>1, <2>2
<1>10. GoesOn
  BY <1>1, <1>2, <1>4, <1>7 DEF GoesOn, Middle
<1> QED
  BY <1>1, <1>7, <1>9, <1>10, OnceQueued

LEMMA OnceTakeAsCancelled ==
  ASSUME IInv, AInv, PlanInv, Faithful, PlanStays, NEW o \in OrderIds, TakeAsCancelled(o)
  PROVE  FaithfulStep
<1> DEFINE n == orders[o].node
<1>1. /\ pc = "reconcile" /\ work # {} /\ o = Earliest(work) /\ work' = work \ {o}
      /\ UNCHANGED <<orders, fillQueue, pc>> /\ orders[o].filled = 0 /\ pendings' = Untracked(o)
      /\ tree' = IF orders[o].kind = "rotation_entry" THEN cancel_planned_node(tree, n)
                 ELSE SetStatus(tree, n, "open")
  BY DEF TakeAsCancelled, Recovered, exchange
<1>2. o \in pendings /\ work \subseteq pendings
  <2>1. work \subseteq Nat /\ work \subseteq pendings
    BY <1>1 DEF IInv, TypeInv, Faithful
  <2> QED
    BY <1>1, <2>1, EarliestIsFirst
<1>3. pendings' = pendings \ {o}
  BY <1>1, <1>2, AloneIs
<1>4. GoesOn
  BY <1>1, <1>2, <1>3 DEF GoesOn, Early, Middle
<1>5. /\ n \in 1..Len(tree) /\ GoodTree(tree) /\ Len(tree) \in Nat /\ OnPlan(o)
      /\ orders[o].kind \in Kinds /\ pendings \subseteq 1..Len(orders)
  BY Sizes DEF IInv, TypeInv, PlanInv, OrderType
<1>6. CASE orders[o].kind = "rotation_entry"
  <2>1. tree' = cancel_planned_node(tree, n)
    BY <1>1, <1>6
  <2> HIDE DEF n
  <2> QED
    BY <1>1, <1>3, <1>4, <1>5, <2>1, OnceCancelling
<1>7. CASE orders[o].kind = "rotation_exit"
  <2>1. tree' = SetStatus(tree, n, "open") /\ tree[n].status # "planned"
    BY <1>1, <1>5, <1>7 DEF OnPlan, StatusOf
  <2>2. "open" \in Statuses \ {"planned"}
    BY DEF Statuses
  <2> HIDE DEF n
  <2>3. Alike(tree, tree') /\ Sets(tree, tree', n, "open")
    BY <1>5, <2>1, <2>2, StatusAlike, SetStatusSets
  <2>4. TracksWell
    BY <1>3 DEF TracksWell
  <2>5. ASSUME NEW m \in 2..Len(tree) PROVE Stays(m) \/ Turns(m)
    <3>1. tree'[m].proceeds = tree[m].proceeds /\ m # Root
      BY <1>5, <2>3 DEF Alike, Root
    <3>2. CASE m # n
      BY <2>3, <3>1, <3>2 DEF Sets, Stays
    <3>3. CASE m = n
      <4>1. tree[m].status = "closing"
        BY <1>2, <1>7, <3>1, <3>3 DEF Faithful, Sells, StatusOf, n
      <4>2. Unsold(m)
        BY <1>1, <1>2, <1>7, <3>1, <3>3 DEF Unsold, Faithful, Due, Early, n
      <4>3. ASSUME NEW p \in pendings', orders[p].kind = "rotation_exit", orders[p].node = m
            PROVE  FALSE
        BY <1>2, <1>3, <1>7, <3>3, <4>3 DEF AInv, AloneInv, ClientId, n
      <4> QED
        BY <1>1, <3>1, <4>1, <4>2, <4>3 DEF Turns
    <3> QED
      BY <3>2, <3>3
  <2>6. Balanced(tree')
    BY <1>5, <2>3, AlikeSums DEF Faithful
  <2>7. \A m \in 2..Len(tree') : m \notin 1..Len(tree) => tree'[m].proceeds = 0
    BY <1>5, <2>3 DEF Alike
  <2> QED
    BY <1>1, <1>4, <2>4, <2>5, <2>6, <2>7, OnceFrame
<1> QED
  BY <1>5, <1>6, <1>7 DEF Kinds

LEMMA OnceReconcile ==
  ASSUME IInv, AInv, PlanInv, Faithful, PlanStays, Reconcile
  PROVE  FaithfulStep
<1>1. GoodTree(tree) /\ Len(tree) \in Nat
  BY Sizes DEF IInv, TypeInv
<1>2. CASE WakeUp \/ FetchOpenOrders \/ FetchTradeHistory \/ FetchFails \/ EndReconcile
           \/ RunCycle \/ CycleFails
  <2>1. /\ tree' = tree /\ fillQueue' = fillQueue /\ pendings' \subseteq pendings
    BY <1>2 DEF WakeUp, FetchOpenOrders, FetchTradeHistory, FetchFails, EndReconcile, RunCycle,
                CycleFails, bot
  <2>2. pc \in Early /\ pc' # "timeouts" /\ (pc' = "reconcile" => work' \subseteq pendings')
    BY <1>2 DEF WakeUp, FetchOpenOrders, FetchTradeHistory, FetchFails, EndReconcile, RunCycle,
                CycleFails, Early, bot
  <2>3. fillQueue # <<>> /\ pc' \in Middle => pendings' = {}
    BY <1>2, <2>2 DEF WakeUp, FetchOpenOrders, FetchTradeHistory, FetchFails, EndReconcile,
                      RunCycle, CycleFails, Middle, AInv, QueueInv
  <2>4. GoesOn
    BY <2>2, <2>3 DEF GoesOn
  <2>5. TracksWell
    BY <2>1 DEF TracksWell
  <2>6. Alike(tree, tree')
    BY <1>1, <2>1, SameAlike
  <2> QED
    BY <2>1, <2>4, <2>5, <2>6, OnceQuiet
<1>3. CASE PruneOrphanRoot
  <2>1. /\ tree' = SetStatus(tree, Root, "closed") /\ UNCHANGED <<fillQueue, pendings, pc, work>>
    BY <1>3 DEF PruneOrphanRoot, control
  <2>2. Root \in 1..Len(tree) /\ tree[Root].status # "planned" /\ "closed" \in Statuses \ {"planned"}
    BY <1>1 DEF Root, GoodTree, Statuses
  <2>3. Alike(tree, tree') /\ Sets(tree, tree', Root, "closed")
    BY <1>1, <2>1, <2>2, StatusAlike, SetStatusSets
  <2>4. \A m \in 2..Len(tree) : tree'[m].status = tree[m].status
    BY <1>1, <2>3 DEF Sets, Root
  <2> QED
    BY <2>1, <2>3, <2>4, OnceStill
<1> QED
  BY <1>2, <1>3, OnceRecover, OnceTakeAsCancelled DEF Reconcile


\* What the closing lemmas ask of the tree and the orders as they are.
LEMMA AsTheyAre ==
  ASSUME IInv
  PROVE  /\ GoodTree(tree) /\ DOMAIN tree = 1..Len(tree) /\ Len(tree) \in Nat
         /\ Root \in 1..Len(tree) /\ tree[Root].status # "planned" /\ tree[Root] \in NodeType
         /\ Alike(tree, tree) /\ OrdersKept(orders, orders) /\ GoodOrders(orders, Len(tree))
         /\ \A m \in 2..Len(tree) : m \in 1..Len(tree) /\ m # Root
BY Sizes, SameAlike, OrdersStay DEF IInv, TypeInv, GoodTree, Root

LEMMA OnceExpiry ==
  ASSUME IInv, AInv, PlanInv, Faithful, PlanStays, Expiry
  PROVE  FaithfulStep
<1>1. /\ GoodTree(tree) /\ DOMAIN tree = 1..Len(tree) /\ Len(tree) \in Nat
      /\ Root \in 1..Len(tree) /\ tree[Root].status # "planned"
      /\ Alike(tree, tree) /\ OrdersKept(orders, orders) /\ GoodOrders(orders, Len(tree))
      /\ \A m \in 2..Len(tree) : m \in 1..Len(tree) /\ m # Root
  BY AsTheyAre
<1>2. CASE BeginPlanner \/ EndExpiry
  <2>1. /\ tree' = tree /\ fillQueue' = fillQueue /\ pendings' = pendings
        /\ pc \in Middle /\ pc' \in Middle
    BY <1>2 DEF BeginPlanner, EndExpiry, bot, Middle
  <2>2. GoesOn /\ TracksWell
    BY <2>1 DEF GoesOn, TracksWell, Early, Middle
  <2> QED
    BY <1>1, <2>1, <2>2, OnceQuiet
<1>3. ASSUME NEW n, ExpiresNow(n), Expired(n)
      PROVE  fillQueue' = fillQueue /\ pc = "expiry" /\ pc' = "expiry"
  BY <1>3 DEF ExpiresNow, Expired
<1>4. ASSUME pc = "expiry", pc' = "expiry" PROVE GoesOn /\ pc' \notin Early /\ pc \in Middle
  BY <1>4 DEF GoesOn, Early, Middle
<1>5. ASSUME NEW n \in 1..Len(tree), ExpirePlanned(n) PROVE FaithfulStep
  <2>1. /\ tree' = cancel_planned_node(tree, n) /\ pendings' \subseteq pendings
        /\ fillQueue' = fillQueue /\ GoesOn
    BY <1>3, <1>4, <1>5 DEF ExpirePlanned
  <2> QED
    BY <2>1, OnceCancelling
<1>6. ASSUME NEW n \in 1..Len(tree), ExpireOpen(n) PROVE FaithfulStep
  <2>1. /\ n # Root /\ tree[n].status = "open" /\ CloseNode(n, tree, orders, pendings)
        /\ fillQueue' = fillQueue /\ pc = "expiry" /\ pc' = "expiry"
    BY <1>3, <1>6 DEF ExpireOpen
  <2>2. Unsold(n)
    BY <2>1 DEF Unsold, Faithful, Due
  <2> QED
    BY <1>1, <1>4, <2>1, <2>2, OnceClosing
<1>7. ASSUME NEW n \in 1..Len(tree), ExpireRoot(n) PROVE FaithfulStep
  <2>1. n = Root /\ fillQueue' = fillQueue /\ pc = "expiry" /\ pc' = "expiry"
    BY <1>3, <1>7 DEF ExpireRoot
  <2>2. ASSUME NEW d \in {"none", "ahead"}, tree' = [tree EXCEPT ![n].deadline = d],
               UNCHANGED <<orders, pendings>>
        PROVE  FaithfulStep
    <3>1. Alike(tree, tree')
      BY <1>1, <2>2, DeadlineAlike DEF Deadlines
    <3>2. \A m \in 2..Len(tree) : tree'[m].status = tree[m].status
      BY <1>1, <2>1, <2>2
    <3>3. TracksWell
      BY <2>2 DEF TracksWell
    <3> QED
      BY <1>4, <2>1, <3>1, <3>2, <3>3, OnceQuiet
  <2>3. ASSUME CloseNode(n, [tree EXCEPT ![n].pair = RootPair], orders, pendings)
        PROVE  FaithfulStep
    <3> DEFINE t == [tree EXCEPT ![Root].pair = RootPair]
    <3>1. Alike(tree, t) /\ CloseNode(Root, t, orders, pendings)
      BY <1>1, <2>1, <2>3, RootPairAlike
    <3>2. \A m \in 2..Len(tree) : t[m].status = tree[m].status
      BY <1>1
    <3> HIDE DEF t
    <3> QED
      BY <1>1, <1>4, <2>1, <3>1, <3>2, OnceClosing
  <2> QED
    BY <1>7, <2>2, <2>3 DEF ExpireRoot
<1> QED
  BY <1>1, <1>2, <1>5, <1>6, <1>7 DEF Expiry

LEMMA OnceRoots ==
  ASSUME IInv, AInv, PlanInv, Faithful, PlanStays, Roots
  PROVE  FaithfulStep
<1>1. /\ GoodTree(tree) /\ DOMAIN tree = 1..Len(tree) /\ Len(tree) \in Nat
      /\ Root \in 1..Len(tree) /\ tree[Root].status # "planned" /\ tree[Root] \in NodeType
      /\ Alike(tree, tree) /\ OrdersKept(orders, orders) /\ GoodOrders(orders, Len(tree))
      /\ \A m \in 2..Len(tree) : m \in 1..Len(tree) /\ m # Root
  BY AsTheyAre
<1>2. /\ fillQueue' = fillQueue /\ pc \in Middle /\ pc' \notin Early /\ pc' \in Middle
      /\ pc' \notin {"timeouts", "reconcile"}
  BY DEF Roots, SetRootDeadline, RecoverRoot, CloseExhaustedRoot, LeaveRoot, RootsDone, Early,
         Middle
<1>3. GoesOn
  BY <1>2 DEF GoesOn
<1>4. ASSUME NEW e \in NodeType, tree' = [tree EXCEPT ![Root] = e], pendings' = pendings,
             e.parent = tree[Root].parent, e.total = tree[Root].total,
             e.free = tree[Root].free, e.reserved = tree[Root].reserved,
             e.entryCost = tree[Root].entryCost, e.proceeds = tree[Root].proceeds,
             e.status # "planned"
      PROVE  FaithfulStep
  <2>1. Alike(tree, tree')
    BY <1>1, <1>4, PutAlike
  <2>2. \A m \in 2..Len(tree) : tree'[m].status = tree[m].status
    BY <1>1, <1>4
  <2>3. TracksWell
    BY <1>4 DEF TracksWell
  <2> QED
    BY <1>2, <1>3, <2>1, <2>2, <2>3, OnceQuiet
<1>5. CASE SetRootDeadline
  <2> DEFINE e == [tree[Root] EXCEPT !.deadline = "ahead", !.pair = RootPair]
  <2>1. pendings' = pendings /\ tree' = [tree EXCEPT ![Root] = e]
    BY <1>5 DEF SetRootDeadline
  <2>2. /\ e \in NodeType /\ e.parent = tree[Root].parent /\ e.total = tree[Root].total
        /\ e.free = tree[Root].free /\ e.reserved = tree[Root].reserved
        /\ e.entryCost = tree[Root].entryCost /\ e.proceeds = tree[Root].proceeds
        /\ e.status = tree[Root].status
    BY <1>1, RuntimeAssumption DEF NodeType, Deadlines
  <2> HIDE DEF e
  <2> QED
    BY <1>1, <1>4, <2>1, <2>2
<1>6. CASE RecoverRoot
  <2> DEFINE e == [tree[Root] EXCEPT !.status = "open", !.deadline = "none"]
  <2>1. pendings' = pendings /\ tree' = [tree EXCEPT ![Root] = e]
    BY <1>6 DEF RecoverRoot
  <2>2. /\ e \in NodeType /\ e.parent = tree[Root].parent /\ e.total = tree[Root].total
        /\ e.free = tree[Root].free /\ e.reserved = tree[Root].reserved
        /\ e.entryCost = tree[Root].entryCost /\ e.proceeds = tree[Root].proceeds
        /\ e.status = "open"
    BY <1>1 DEF NodeType, Deadlines, Statuses
  <2> HIDE DEF e
  <2> QED
    BY <1>4, <2>1, <2>2
<1>7. CASE CloseExhaustedRoot
  <2>1. CloseNode(Root, tree, orders, pendings)
    BY <1>7 DEF CloseExhaustedRoot
  <2> QED
    BY <1>1, <1>2, <2>1, OnceClosing
<1>8. CASE LeaveRoot
  <2>1. tree' = tree /\ pendings' = pendings
    BY <1>8 DEF LeaveRoot
  <2>2. TracksWell
    BY <2>1 DEF TracksWell
  <2> QED
    BY <1>1, <1>2, <1>3, <2>1, <2>2, OnceQuiet
<1> QED
  BY <1>5, <1>6, <1>7, <1>8 DEF Roots

\* So many at a price cost no more than what they are bought with.
LEMMA BoughtWithin ==
  ASSUME NEW a \in Nat, NEW b \in Nat \ {0}, NEW q \in Nat, q <= a \div b
  PROVE  q * b <= a
<1>1. a \div b \in Nat /\ (a \div b) * b <= a
  BY Z3
<1>2. q * b <= (a \div b) * b
  <2>1. ASSUME NEW c \in Nat, q <= c PROVE q * b <= c * b
    BY <2>1, Z3
  <2> QED
    BY <1>1, <2>1
<1> QED
  BY <1>1, <1>2, NatOperations


\* A fill settled on a planned node cost no more than what was set aside for it.
LEMMA CostWithin ==
  ASSUME IInv, NEW fill \in FillType, fill.node \in 1..Len(tree),
         tree[fill.node].status = "planned", AsPlanned(fill.node, fill.qty, fill.price)
  PROVE  CostOf(fill) <= tree[fill.node].total
<1> DEFINE n == fill.node
           price == PriceOf[tree[n].pair]
<1>1. /\ fill.qty \in Nat /\ fill.price = price /\ fill.qty <= entry_base_quantity(tree[n])
      /\ tree[n].total \in Nat
  BY Amounts DEF AsPlanned, FillType, IInv, TypeInv
<1>2. price \in Nat \ {0}
  <2>1. n # Root /\ tree[n].pair \in Pairs
    BY DEF IInv, TypeInv, GoodTree
  <2> QED
    BY <2>1, PairsAssumption
<1>3. CASE IsBuy(tree[n])
  <2>1. fill.qty <= tree[n].total \div price
    BY <1>1, <1>3 DEF entry_base_quantity
  <2>2. CostOf(fill) = fill.qty * price
    BY <1>1, <1>3 DEF CostOf
  <2> HIDE DEF n, price
  <2>3. fill.qty * price <= tree[n].total
    BY <1>1, <1>2, <2>1, BoughtWithin
  <2> QED
    BY <2>2, <2>3 DEF n
<1>4. CASE ~IsBuy(tree[n])
  BY <1>1, <1>4 DEF CostOf, entry_base_quantity
<1> QED
  BY <1>3, <1>4

\* The fill at the head of the queue, and those after it.
LEMMA Heading ==
  ASSUME IInv, PlanInv, Faithful, Settle
  PROVE  /\ Head(fillQueue) \in FillType /\ OfNode(Head(fillQueue), Len(tree))
         /\ Due(Head(fillQueue)) /\ Head(fillQueue).kind \in Kinds
         /\ Head(fillQueue).kind = "rotation_exit" => tree[Head(fillQueue).node].status # "planned"
         /\ \A i \in 1..Len(fillQueue') : \E j \in 1..Len(fillQueue) : fillQueue'[i] = fillQueue[j]
<1>1. fillQueue \in Seq(FillType) /\ fillQueue # <<>> /\ fillQueue' = Tail(fillQueue)
  BY DEF IInv, TypeInv, Settle
<1>2. 1 \in 1..Len(fillQueue) /\ Head(fillQueue) = fillQueue[1]
  BY <1>1
<1>3. /\ Head(fillQueue) \in FillType /\ OfNode(Head(fillQueue), Len(tree))
      /\ Due(Head(fillQueue))
      /\ Head(fillQueue).kind = "rotation_exit" => tree[Head(fillQueue).node].status # "planned"
  BY <1>1, <1>2 DEF IInv, TypeInv, Faithful, PlanInv
<1>4. /\ Len(fillQueue') = Len(fillQueue) - 1 /\ Len(fillQueue) \in Nat
      /\ \A i \in 1..Len(fillQueue') : fillQueue'[i] = fillQueue[i + 1]
  BY <1>1, HeadTailProperties
<1>5. \A i \in 1..Len(fillQueue') : \E j \in 1..Len(fillQueue) : fillQueue'[i] = fillQueue[j]
  <2>1. \A i \in 1..Len(fillQueue') : i + 1 \in 1..Len(fillQueue)
    BY <1>4
  <2> QED
    BY <1>4, <2>1
<1> QED
  BY <1>3, <1>5 DEF FillType

\* The status and the proceeds of one child, the one a fill is of, change at most.
LEMMA OnceSettled ==
  ASSUME IInv, PlanInv, Faithful, PlanStays, Settle, NEW n \in 1..Len(tree), NEW back, NEW freed,
         Moves(tree, tree', n, back, freed), n # Root => Turns(n), Balanced(tree')
  PROVE  FaithfulStep
<1>1. /\ UNCHANGED <<pendings, pc>> /\ pc = "settle" /\ Len(tree') = Len(tree)
      /\ Len(tree) \in Nat
  BY Sizes DEF Settle, control, Moves, IInv
<1>2. GoesOn /\ TracksWell
  BY <1>1 DEF GoesOn, TracksWell, Early, Middle
<1>3. \A m \in 2..Len(tree) : Stays(m) \/ Turns(m)
  BY <1>1 DEF Moves, Stays, Root
<1>4. \A m \in 2..Len(tree') : m \notin 1..Len(tree) => tree'[m].proceeds = 0
  BY <1>1
<1> QED
  BY <1>2, <1>3, <1>4, Heading, OnceFrame

LEMMA OnceOpened ==
  ASSUME IInv, AInv, PlanInv, Faithful, PlanStays, Settle, ~misled',
         Head(fillQueue).kind = "rotation_entry"
  PROVE  FaithfulStep
<1> DEFINE fill == Head(fillQueue)
           n == fill.node
<1>1. fill \in FillType /\ OfNode(fill, Len(tree)) /\ Due(fill)
  BY Heading
<1>2. /\ tree' = OpenedBy(fill) /\ tree[n].status = "planned" /\ UNCHANGED <<orders, pendings>>
  <2>1. /\ tree' = OpenedBy(fill) /\ UNCHANGED <<orders, pendings>>
        /\ misled' = (misled \/ tree[n].status # Awaited[fill.kind])
    BY DEF Settle, exchange
  <2>2. Awaited["rotation_entry"] = "planned"
    BY DEF Awaited
  <2> QED
    BY <2>1, <2>2
<1>3. /\ n \in 1..Len(tree) /\ n # Root /\ GoodTree(tree) /\ Older(tree) /\ Balanced(tree)
      /\ pendings \subseteq 1..Len(orders)
  BY <1>1 DEF OfNode, IInv, TypeInv, PlanInv, Faithful
<1>4. /\ CostOf(fill) \in Nat
      /\ Moves(tree, tree', n, tree[n].total, Monus(tree[n].total, CostOf(fill)))
      /\ tree'[n].entryCost = CostOf(fill) /\ tree'[n].proceeds = tree[n].proceeds
      /\ tree'[n].status = "open"
  <2> HIDE DEF fill
  <2> QED
    BY <1>1, <1>2, <1>3, OpenMoves
<1>5. CostOf(fill) <= tree[n].total
  <2>1. AsPlanned(n, fill.qty, fill.price)
    BY <1>1 DEF Due
  <2> HIDE DEF fill
  <2> QED
    BY <1>1, <1>2, <1>3, <2>1, CostWithin
<1>6. /\ tree[n].total \in Nat /\ tree[n].entryCost = 0 /\ tree[n].proceeds = 0
  BY <1>2, <1>3, Amounts DEF PlanInv, Fresh
<1>7. Turns(n)
  <2>1. Unsold(n)
    BY <1>2, <1>3 DEF Unsold, Faithful, Due
  <2>2. ASSUME NEW o \in pendings', orders'[o].kind = "rotation_exit", orders'[o].node = n
        PROVE  FALSE
    BY <1>2, <2>2 DEF AInv, AloneInv, StatusOf
  <2> QED
    BY <1>2, <1>4, <2>1, <2>2 DEF Turns
<1> HIDE DEF fill, n
<1>8. Balanced(tree')
  <2> DEFINE freed == Monus(tree[n].total, CostOf(fill))
  <2>1. /\ freed \in Nat
        /\ freed + (tree'[n].entryCost - tree[n].entryCost)
             = tree[n].total + (tree'[n].proceeds - tree[n].proceeds)
    BY <1>4, <1>5, <1>6 DEF Monus
  <2>2. Moves(tree, tree', n, tree[n].total, freed)
    BY <1>4
  <2> HIDE DEF freed
  <2> QED
    BY <1>2, <1>3, <1>6, <2>1, <2>2, MovedBalanced
<1> QED
  BY <1>3, <1>4, <1>7, <1>8, OnceSettled

LEMMA OnceClosed ==
  ASSUME IInv, AInv, PlanInv, Faithful, PlanStays, Settle, ~misled',
         Head(fillQueue).kind # "rotation_entry"
  PROVE  FaithfulStep
<1> DEFINE fill == Head(fillQueue)
           n == fill.node
<1>1. /\ fill \in FillType /\ OfNode(fill, Len(tree)) /\ Due(fill) /\ fill.kind = "rotation_exit"
      /\ tree[n].status # "planned"
  BY Heading DEF Kinds
<1>2. /\ tree' = ClosedBy(fill) /\ tree[n].status = "closing" /\ UNCHANGED <<orders, pendings>>
      /\ pc = "settle"
  <2>1. /\ tree' = ClosedBy(fill) /\ UNCHANGED <<orders, pendings>> /\ pc = "settle"
        /\ misled' = (misled \/ tree[n].status # Awaited[fill.kind])
    BY <1>1 DEF Settle, exchange
  <2>2. Awaited["rotation_exit"] = "closing"
    BY DEF Awaited
  <2> QED
    BY <1>1, <2>1, <2>2
<1>3. /\ n \in 1..Len(tree) /\ GoodTree(tree) /\ Older(tree) /\ Balanced(tree)
      /\ pendings \subseteq 1..Len(orders) /\ Len(tree) \in Nat
  BY <1>1, Sizes DEF OfNode, IInv, TypeInv, PlanInv, Faithful
<1>4. /\ ProceedsOf(fill) \in Nat /\ Moves(tree, tree', n, 0, ProceedsOf(fill))
      /\ tree'[n].entryCost = tree[n].entryCost /\ tree'[n].proceeds = ProceedsOf(fill)
      /\ tree'[n].status = "closed" /\ tree'[n].free = tree[n].free
      /\ tree'[n].reserved = tree[n].reserved
  <2> HIDE DEF fill
  <2> QED
    BY <1>1, <1>2, <1>3, CloseMoves
<1>5. n # Root => Turns(n)
  <2> SUFFICES ASSUME n # Root PROVE Turns(n)
    OBVIOUS
  <2>1. TrackedFor(n) = {}
    BY <1>1, <1>2 DEF Due, Middle
  <2>2. \A o \in pendings' : orders'[o].node # n
    BY <1>2, <2>1 DEF TrackedFor
  <2> QED
    BY <1>2, <1>4, <2>2 DEF Turns
<1>6. tree[n].entryCost \in Nat
  BY <1>3, Amounts
<1> HIDE DEF fill
<1>7. CASE n # Root
  <2>1. tree[n].proceeds = 0
    BY <1>2, <1>3, <1>7 DEF Faithful, Root
  <2>2. ProceedsOf(fill) + (tree'[n].entryCost - tree[n].entryCost)
          = 0 + (tree'[n].proceeds - tree[n].proceeds)
    BY <1>4, <1>6, <2>1
  <2> HIDE DEF n
  <2>3. Balanced(tree')
    BY <1>1, <1>3, <1>4, <1>7, <2>2, MovedBalanced
  <2> QED
    BY <1>3, <1>4, <1>5, <2>3, OnceSettled
<1>8. CASE n = Root
  <2>1. tree[n].parent # Root
    <3>1. tree[n].parent < n /\ tree[n].parent \in 0..Len(tree)
      BY <1>3 DEF Older, GoodTree
    <3> QED
      BY <1>8, <3>1 DEF Root
  <2> HIDE DEF n
  <2>2. /\ PlannedIn(tree', Root) = PlannedIn(tree, Root) - 0
        /\ SpentIn(tree', Root) = SpentIn(tree, Root) + 0
        /\ EarnedIn(tree', Root) = EarnedIn(tree, Root) + 0
    BY <1>3, <1>4, <2>1, MovedSums
  <2>3. /\ PlannedIn(tree, Root) \in Nat /\ SpentIn(tree, Root) \in Nat
        /\ EarnedIn(tree, Root) \in Nat
    BY <1>3, Amounts
  <2>4. Balanced(tree')
    BY <1>3, <1>4, <1>8, <2>2, <2>3 DEF Balanced
  <2> QED
    BY <1>3, <1>4, <1>5, <2>4, OnceSettled
<1> QED
  BY <1>7, <1>8

LEMMA OnceFills ==
  ASSUME IInv, AInv, PlanInv, Faithful, PlanStays, Fills, ~misled'
  PROVE  FaithfulStep
<1>1. CASE EndSettle
  <2>1. /\ tree' = tree /\ pendings' = pendings /\ fillQueue' = fillQueue /\ fillQueue = <<>>
        /\ pc' = "timeouts" /\ work' = stale /\ stale \subseteq pendings
    BY <1>1 DEF EndSettle, bot, IInv, TypeInv
  <2>2. GoesOn /\ TracksWell
    BY <2>1 DEF GoesOn, TracksWell
  <2> QED
    BY <2>1, <2>2, AsTheyAre, OnceQuiet
<1> QED
  BY <1>1, OnceOpened, OnceClosed DEF Fills


LEMMA OnceTimeouts ==
  ASSUME IInv, AInv, PlanInv, Faithful, PlanStays, Timeouts
  PROVE  FaithfulStep
<1>1. /\ GoodTree(tree) /\ DOMAIN tree = 1..Len(tree) /\ Len(tree) \in Nat
      /\ Root \in 1..Len(tree) /\ tree[Root].status # "planned"
      /\ Alike(tree, tree) /\ OrdersKept(orders, orders) /\ GoodOrders(orders, Len(tree))
      /\ \A m \in 2..Len(tree) : m \in 1..Len(tree) /\ m # Root
  BY AsTheyAre
<1>2. /\ OrderIds = 1..Len(orders) /\ \A o \in 1..Len(orders) : orders[o].node \in 1..Len(tree)
      /\ work \subseteq Nat
  BY Sizes DEF IInv, TypeInv
<1>3. ASSUME NEW o, TimesOut(o), TimedOut(o)
      PROVE  /\ fillQueue' = fillQueue /\ fillQueue = <<>> /\ pc = "timeouts" /\ pc' = "timeouts"
             /\ work' \subseteq work /\ o \in work
  <2>1. /\ fillQueue' = fillQueue /\ pc = "timeouts" /\ pc' = "timeouts" /\ work # {}
        /\ o = Earliest(work) /\ work' = work \ {o}
    BY <1>3 DEF TimesOut, TimedOut
  <2>2. Earliest(work) \in work
    BY <1>2, <2>1, EarliestIsFirst
  <2> QED
    BY <2>1, <2>2 DEF AInv, QueueInv, Late
<1>4. ASSUME NEW o \in OrderIds, CancelStaleEntry(o) PROVE FaithfulStep
  <2> DEFINE n == orders[o].node
  <2>1. /\ tree' = cancel_planned_node(tree, n) /\ pendings' \subseteq pendings
        /\ fillQueue' = fillQueue /\ fillQueue = <<>> /\ pc = "timeouts" /\ pc' = "timeouts"
        /\ work' \subseteq work /\ n \in 1..Len(tree)
    BY <1>2, <1>3, <1>4 DEF CancelStaleEntry
  <2> HIDE DEF n
  <2>2. Sets(tree, tree', n, IF tree[n].status = "planned" THEN "cancelled" ELSE tree[n].status)
    BY <1>1, <2>1, CancelSets
  <2>3. \A m \in 1..Len(tree) : tree[m].status = "closing" => tree'[m].status = "closing"
    BY <2>2 DEF Sets
  <2>4. GoesOn
    BY <1>1, <2>1, <2>3 DEF GoesOn, Early, Middle
  <2> QED
    BY <2>1, <2>4, OnceCancelling
<1>5. ASSUME NEW o \in OrderIds, EscalateStaleExit(o) PROVE FaithfulStep
  <2> DEFINE n == orders[o].node
             tracked == pendings \ TrackedFor(n)
  <2>1. /\ TimesOut(o) /\ TimedOut(o) /\ orders[o].kind = "rotation_exit"
        /\ \E os \in AfterCancel(o) : CloseNode(n, tree, os, tracked)
    BY <1>5 DEF EscalateStaleExit
  <2>2. /\ n \in 1..Len(tree) /\ tracked \subseteq pendings
        /\ n # Root => tree[n].status = "closing"
    BY <1>2, <1>3, <2>1 DEF Faithful, Sells, StatusOf
  <2>3. Unsold(n)
    BY <1>3, <2>1 DEF Unsold
  <2>4. /\ fillQueue' = fillQueue /\ pc = "timeouts" /\ pc' = "timeouts" /\ work' \subseteq work
    BY <1>3, <2>1
  <2> HIDE DEF n, tracked
  <2>5. PICK os \in AfterCancel(o) : CloseNode(n, tree, os, tracked)
    BY <2>1
  <2>6. OrdersKept(orders, os) /\ Len(os) = Len(orders) /\ GoodOrders(os, Len(tree))
    BY CancelledKept
  <2>7. pc' \notin Early /\ pc' \notin Middle
    BY <2>4 DEF Early, Middle
  <2> QED
    BY <1>1, <2>2, <2>3, <2>4, <2>5, <2>6, <2>7, OnceClosing
<1>6. CASE EndTimeouts
  <2>1. /\ tree' = tree /\ pendings' = pendings /\ fillQueue' = fillQueue /\ pc' = "monitor"
    BY <1>6 DEF EndTimeouts, bot
  <2>2. GoesOn /\ TracksWell
    BY <2>1 DEF GoesOn, TracksWell, Early, Middle
  <2> QED
    BY <1>1, <2>1, <2>2, OnceQuiet
<1> QED
  BY <1>4, <1>5, <1>6 DEF Timeouts

LEMMA OnceMonitor ==
  ASSUME IInv, AInv, PlanInv, Faithful, PlanStays, Monitor
  PROVE  FaithfulStep
<1>1. /\ GoodTree(tree) /\ DOMAIN tree = 1..Len(tree) /\ Len(tree) \in Nat
      /\ Root \in 1..Len(tree) /\ tree[Root].status # "planned"
      /\ Alike(tree, tree) /\ OrdersKept(orders, orders) /\ GoodOrders(orders, Len(tree))
      /\ \A m \in 2..Len(tree) : m \in 1..Len(tree) /\ m # Root
  BY AsTheyAre
<1>2. ASSUME NEW n \in DOMAIN tree, TriggerExit(n) PROVE FaithfulStep
  <2>1. /\ pc = "monitor" /\ pc' = "monitor" /\ n \in work /\ fillQueue' = fillQueue
        /\ CloseNode(n, tree, orders, pendings)
    BY <1>2 DEF TriggerExit
  <2>2. /\ tree[n].status = "open" /\ fillQueue = <<>>
    BY <2>1 DEF AInv, WorkInv, QueueInv, Late
  <2>3. Unsold(n)
    BY <2>2 DEF Unsold
  <2>4. pc' \notin Early /\ pc' \notin Middle
    BY <2>1 DEF Early, Middle
  <2> QED
    BY <1>1, <2>1, <2>2, <2>3, <2>4, OnceClosing
<1>3. CASE EndMonitor
  <2>1. tree' = tree /\ pendings' = pendings /\ fillQueue' = fillQueue /\ pc' = "plan"
    BY <1>3 DEF EndMonitor, bot
  <2>2. GoesOn /\ TracksWell
    BY <2>1 DEF GoesOn, TracksWell, Early, Middle
  <2> QED
    BY <1>1, <2>1, <2>2, OnceQuiet
<1> QED
  BY <1>2, <1>3 DEF Monitor

LEMMA OncePlan ==
  ASSUME IInv, AInv, PlanInv, Faithful, PlanStays, Plan
  PROVE  FaithfulStep
<1>1. /\ GoodTree(tree) /\ DOMAIN tree = 1..Len(tree) /\ Len(tree) \in Nat
      /\ Root \in 1..Len(tree) /\ Older(tree) /\ Balanced(tree)
      /\ \A m \in 2..Len(tree) : m \in 1..Len(tree) /\ m # Root
  BY AsTheyAre DEF PlanInv, Faithful
<1>2. ASSUME NEW n \in DOMAIN tree, PlanLeaf(n) PROVE FaithfulStep
  <2>1. PICK k, shares, quantity : Grows(tree, tree', n, k, shares, quantity)
    BY <1>2, LeafGrows
  <2>2. /\ pc = "plan" /\ pc' = "plan" /\ pendings' = pendings /\ fillQueue' = fillQueue
        /\ n \in 1..Len(tree)
    BY <1>1, <1>2 DEF PlanLeaf
  <2>3. GoesOn /\ TracksWell
    BY <2>2 DEF GoesOn, TracksWell, Early, Middle
  <2>4. \A m \in 2..Len(tree) : Stays(m)
    BY <1>1, <2>1 DEF Grows, Stays
  <2>5. \A m \in 2..Len(tree') : m \notin 1..Len(tree) => tree'[m].proceeds = 0
    <3> SUFFICES ASSUME NEW m \in 2..Len(tree'), m \notin 1..Len(tree)
                 PROVE  tree'[m].proceeds = 0
      OBVIOUS
    <3>1. k \in Nat /\ Len(tree') = Len(tree) + k
      BY <2>1 DEF Grows
    <3>2. m - Len(tree) \in 1..k /\ m = Len(tree) + (m - Len(tree))
      BY <1>1, <3>1
    <3>3. \A i \in 1..k : tree'[Len(tree) + i].proceeds = 0
      BY <2>1 DEF Grows
    <3>4. tree'[Len(tree) + (m - Len(tree))].proceeds = 0
      BY <3>2, <3>3
    <3> QED
      BY <3>2, <3>4
  <2>6. Balanced(tree')
    <3>1. /\ PlannedIn(tree', Root) = PlannedIn(tree, Root) + IF Root = n THEN shares ELSE 0
          /\ SpentIn(tree', Root) = SpentIn(tree, Root)
          /\ EarnedIn(tree', Root) = EarnedIn(tree, Root)
      BY <1>1, <2>1, <2>2, GrownSums
    <3>2. /\ tree'[Root].free = IF Root = n THEN tree[Root].free - shares ELSE tree[Root].free
          /\ tree'[Root].reserved = IF Root = n THEN tree[Root].reserved + shares
                                    ELSE tree[Root].reserved
          /\ shares \in 0..tree[n].free
      BY <1>1, <2>1 DEF Grows
    <3>3. /\ tree[Root].free \in Nat /\ tree[Root].reserved \in Nat /\ tree[n].free \in Nat
          /\ PlannedIn(tree, Root) \in Nat /\ SpentIn(tree, Root) \in Nat
          /\ EarnedIn(tree, Root) \in Nat /\ Capital \in Nat
      BY <1>1, <2>2, Amounts, RuntimeAssumption
    <3>4. /\ Accounts(tree[Root].free, tree[Root].reserved, SpentIn(tree, Root),
                      EarnedIn(tree, Root))
          /\ tree[Root].reserved = PlannedIn(tree, Root)
      BY <1>1 DEF Balanced
    <3>5. shares \in Nat
      BY <3>2, <3>3
    <3>6. CASE Root = n
      <4>1. Accounts(tree[Root].free - shares, tree[Root].reserved + shares,
                     SpentIn(tree, Root), EarnedIn(tree, Root))
        BY <3>3, <3>4, <3>5 DEF Accounts
      <4> QED
        BY <3>1, <3>2, <3>4, <3>6, <4>1 DEF Balanced
    <3>7. CASE Root # n
      <4>1. PlannedIn(tree', Root) = PlannedIn(tree, Root)
        BY <3>1, <3>3, <3>7
      <4> QED
        BY <3>1, <3>2, <3>4, <3>7, <4>1 DEF Balanced
    <3> QED
      BY <3>6, <3>7
  <2> QED
    BY <2>2, <2>3, <2>4, <2>5, <2>6, OnceFrame
<1>3. CASE EndPlan
  <2>1. tree' = tree /\ pendings' = pendings /\ fillQueue' = fillQueue /\ pc' = "entries"
    BY <1>3 DEF EndPlan, bot
  <2>2. GoesOn /\ TracksWell
    BY <2>1 DEF GoesOn, TracksWell, Early, Middle
  <2> QED
    BY <2>1, <2>2, AsTheyAre, OnceQuiet
<1> QED
  BY <1>2, <1>3 DEF Plan

LEMMA OnceEntries ==
  ASSUME IInv, AInv, PlanInv, Faithful, PlanStays, Entries
  PROVE  FaithfulStep
<1>1. /\ Alike(tree, tree) /\ DOMAIN tree = 1..Len(tree) /\ orders \in Seq(OrderType)
      /\ Len(orders) \in Nat /\ pendings \subseteq 1..Len(orders)
  BY AsTheyAre, Sizes DEF IInv, TypeInv, GoodOrders
<1>2. pc = "entries" /\ fillQueue' = fillQueue /\ fillQueue = <<>>
  <2>1. pc = "entries" /\ fillQueue' = fillQueue
    BY DEF Entries, EndRun, DropEntry, DeferEntry, EntryRefused, EntryReplyLost, EntryPlaced,
           Visits, Visited, MayEnter, bot
  <2> QED
    BY <2>1 DEF AInv, QueueInv, Late
<1>3. pc' \in {"entries", "idle"}
  BY <1>2 DEF Entries, EndRun, DropEntry, DeferEntry, EntryRefused, EntryReplyLost, EntryPlaced,
              Visited
<1>4. GoesOn
  BY <1>2, <1>3 DEF GoesOn
<1>5. \A n : Unsold(n)
  BY <1>2 DEF Unsold
<1>6. ASSUME NEW n \in DOMAIN tree, tree' = cancel_planned_node(tree, n), pendings' = pendings
      PROVE  FaithfulStep
  BY <1>1, <1>2, <1>4, <1>6, OnceCancelling
<1>7. ASSUME tree' = tree, pendings' = pendings PROVE FaithfulStep
  <2>1. TracksWell
    BY <1>7 DEF TracksWell
  <2> QED
    BY <1>1, <1>2, <1>4, <1>7, <2>1, OnceQuiet
<1>8. ASSUME NEW n \in DOMAIN tree, EntryPlaced(n) PROVE FaithfulStep
  <2>1. /\ tree' = tree /\ orders' = EntryOrder(n) /\ pendings' = pendings \cup {Len(orders) + 1}
    BY <1>8 DEF EntryPlaced
  <2>2. orders'[Len(orders) + 1].kind = "rotation_entry"
    BY <1>1, <2>1 DEF EntryOrder, With
  <2>3. TracksWell
    BY <1>5, <2>1, <2>2 DEF TracksWell
  <2> QED
    BY <1>1, <1>2, <1>4, <2>1, <2>3, OnceQuiet
<1>9. ASSUME NEW n \in DOMAIN tree,
             DropEntry(n) \/ DeferEntry(n) \/ EntryRefused(n) \/ EntryReplyLost(n)
      PROVE  FaithfulStep
  <2>1. /\ tree' = tree \/ tree' = cancel_planned_node(tree, n)
        /\ pendings' = pendings
    BY <1>9 DEF DropEntry, DeferEntry, EntryRefused, EntryReplyLost, GiveUpEntry
  <2> QED
    BY <1>6, <1>7, <2>1
<1>10. CASE EndRun
  BY <1>7, <1>10 DEF EndRun, bot
<1> QED
  BY <1>8, <1>9, <1>10 DEF Entries


LEMMA OnceInit == Init => Faithful
<1> SUFFICES ASSUME Init PROVE Faithful
  OBVIOUS
<1>1. IInv
  BY InitInv
<1>2. /\ tree = <<RootNode(Capital)>> /\ GoodTree(tree) /\ pendings = {} /\ fillQueue = <<>>
      /\ pc = "idle"
  BY <1>1 DEF Init, IInv, TypeInv
<1>3. /\ Len(tree) = 1 /\ DOMAIN tree = {1} /\ tree[1].parent = 0 /\ tree[1].reserved = 0
      /\ tree[1].free = Capital
  BY <1>2 DEF RootNode, NoParent
<1>4. children_of(tree, Root) = {} /\ PlannedUnder(tree, Root) = {}
  <2>1. children_of(tree, Root) = {}
    BY <1>3 DEF children_of, Root
  <2> QED
    BY <2>1 DEF PlannedUnder
<1>5. PlannedIn(tree, Root) = 0 /\ SpentIn(tree, Root) = 0 /\ EarnedIn(tree, Root) = 0
  BY <1>4, FS_EmptySet, SumUnfolds DEF PlannedIn, SpentIn, EarnedIn
<1>6. Balanced(tree)
  BY <1>3, <1>5, RuntimeAssumption DEF Balanced, Accounts, Root
<1>7. \A n \in 2..Len(tree) : FALSE
  BY <1>3
<1> QED
  BY <1>2, <1>6, <1>7 DEF Faithful

\* The history of the settlements only grows.
LEMMA MisledStays == [Next]_vars => (misled => misled')
BY DEF Next, vars, Exchange, CancelledOutside, Execute, Lose, bot, control, Clock, DeadlinePasses,
       FillTimeoutPasses, ReconcileIntervalPasses, CooldownPasses, Deliver, RunOnce, Reconcile,
       WakeUp, FetchOpenOrders, FetchTradeHistory, FetchFails, RecoverFill, TakeAsCancelled,
       EndReconcile, RunCycle, CycleFails, PruneOrphanRoot, Expiry, BeginPlanner, EndExpiry,
       ExpirePlanned, ExpireOpen, ExpireRoot, Expired, Roots, SetRootDeadline, RecoverRoot,
       CloseExhaustedRoot, LeaveRoot, RootsDone, Fills, Settle, EndSettle, Timeouts, EndTimeouts,
       CancelStaleEntry, EscalateStaleExit, TimedOut, Monitor, EndMonitor, TriggerExit, Plan,
       EndPlan, PlanLeaf, Entries, EndRun, DropEntry, DeferEntry, EntryRefused, EntryReplyLost,
       EntryPlaced, Visited

\* While no fill has gone astray the state is faithful.
EInv == ~misled => Faithful

LEMMA OnceNext ==
  ASSUME ConditionalTree = FALSE, IInv, AInv, PlanInv, EInv, [Next]_vars, ~misled'
  PROVE  FaithfulStep
<1>1. PlanStays
  BY PlanNext
<1>2. Faithful
  BY MisledStays DEF EInv
<1>3. CASE UNCHANGED vars
  <2>1. Alike(tree, tree')
    BY <1>3, AsTheyAre DEF vars
  <2> QED
    BY <1>1, <1>2, <1>3, <2>1, OnceStill DEF vars
<1> QED
  BY <1>1, <1>2, <1>3, OnceExchange, OnceClock, OnceDeliver, OnceReconcile, OnceExpiry, OnceRoots,
     OnceFills, OnceTimeouts, OnceMonitor, OncePlan, OnceEntries DEF Next, RunOnce

\* With the conditional tree off, what the root had is what it has free, reserved and
\* spent on entries, less the exits' proceeds, while every fill has been settled on a
\* node that awaited it: no expiry, cancellation, timeout or lost reply makes
\* _rotation_tree lose capital or count it twice.
THEOREM RootCapitalConservedHolds ==
  ConditionalTree = FALSE => (Spec => []RootCapitalConserved)
<1> SUFFICES ASSUME ConditionalTree = FALSE PROVE Spec => []RootCapitalConserved
  OBVIOUS
<1>1. IInv /\ AInv /\ [Next]_vars => AInv'
  BY AloneNext
<1>2. IInv /\ AInv /\ PlanInv /\ EInv /\ [Next]_vars => EInv'
  BY OnceNext DEF EInv, FaithfulStep
<1>3. Init => EInv
  BY OnceInit DEF EInv
<1>4. IInv /\ EInv => RootCapitalConserved
  <2> SUFFICES ASSUME IInv, Faithful PROVE RootCapitalConserved
    BY DEF EInv, RootCapitalConserved
  <2>1. /\ PlannedTotal(Root) = PlannedIn(tree, Root) /\ Spent(Root) = SpentIn(tree, Root)
        /\ Earned(Root) = EarnedIn(tree, Root)
    BY DEF PlannedTotal, Spent, Earned, PlannedIn, SpentIn, EarnedIn, PlannedUnder, Totals, Costs,
           Proceeds
  <2> QED
    BY <2>1 DEF Faithful, Balanced, Accounts, RootCapitalConserved
<1> QED
  BY <1>1, <1>2, <1>3, <1>4, AloneInit, RuntimeInv, PlanAlways, PTL DEF Spec

\* With the conditional tree off, a child that was closed or cancelled is not opened or
\* sold again, unless a fill has gone astray.
THEOREM TerminalStatusesLastHolds ==
  ConditionalTree = FALSE => (Spec => TerminalStatusesLast)
<1> SUFFICES ASSUME ConditionalTree = FALSE PROVE Spec => TerminalStatusesLast
  OBVIOUS
<1>1. IInv /\ AInv /\ [Next]_vars => AInv'
  BY AloneNext
<1>2. IInv /\ AInv /\ PlanInv /\ EInv /\ [Next]_vars => EInv'
  BY OnceNext DEF EInv, FaithfulStep
<1>3. Init => EInv
  BY OnceInit DEF EInv
<1>4. IInv /\ AInv /\ PlanInv /\ EInv /\ [Next]_vars
        => [\A n \in DOMAIN tree \ {Root} :
              (tree[n].status \in {"closed", "cancelled"} /\ tree'[n].status # tree[n].status)
                => misled']_vars
  <2> SUFFICES ASSUME IInv, AInv, PlanInv, EInv, [Next]_vars, ~misled',
                      NEW n \in DOMAIN tree \ {Root}, tree[n].status \in {"closed", "cancelled"}
               PROVE  tree'[n].status = tree[n].status
    OBVIOUS
  <2>1. n \in 2..Len(tree)
    BY Sizes DEF IInv, Root
  <2> QED
    BY <2>1, OnceNext DEF FaithfulStep
<1> QED
  BY <1>1, <1>2, <1>3, <1>4, AloneInit, RuntimeInv, PlanAlways, PTL DEF Spec, TerminalStatusesLast

=============================================================================
