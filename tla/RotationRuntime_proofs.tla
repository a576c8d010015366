----------------------- MODULE RotationRuntime_proofs -----------------------
(***************************************************************************)
(* The runtime of the rotation tree, for any capital, any prices, any      *)
(* number of nodes and orders: its state keeps its types, no order of a    *)
(* cancelled node is tracked, and, with the conditional tree off as it is  *)
(* by default, reconciliation never takes an executed order for a          *)
(* cancelled one.                                                          *)
(***************************************************************************)
EXTENDS RotationRuntime, SequenceTheorems, WellFoundedInduction, TLAPS

FillType == [node : Nat, kind : Kinds, qty : Nat, price : Nat]
MessageType == [order : Nat, qty : Nat, price : Nat]

\* A child has a parent and the pair it is entered through; a root is not planned.
GoodTree(t) ==
  /\ t \in Seq(NodeType) /\ Len(t) >= 1
  /\ \A n \in 1..Len(t) :
       /\ t[n].parent \in 0..Len(t)
       /\ n # Root => t[n].pair \in Pairs
       /\ t[n].status = "planned" => n # Root

\* What is bought and sold belongs to a node, what is entered to a child.
OfNode(x, size) == x.node \in 1..size /\ (x.kind = "rotation_entry" => x.node # Root)

GoodOrders(os, size) ==
  os \in Seq(OrderType) /\ \A o \in 1..Len(os) : OfNode(os[o], size)

TypeInv ==
  /\ GoodTree(tree)
  /\ GoodOrders(orders, Len(tree))
  /\ feed \in Seq(MessageType) /\ \A i \in 1..Len(feed) : feed[i].order \in 1..Len(orders)
  /\ fillQueue \in Seq(FillType) /\ \A i \in 1..Len(fillQueue) : OfNode(fillQueue[i], Len(tree))
  /\ stale \subseteq pendings /\ pendings \subseteq 1..Len(orders)
  /\ reconcileDue \in BOOLEAN /\ cooldowns \subseteq Pairs
  /\ pc \in Phases /\ openSeen \subseteq 1..Len(orders) /\ work \subseteq Nat
  /\ misled \in BOOLEAN

StatusOf(o) == tree[orders[o].node].status

\* No order of a cancelled node is tracked, and no exit of a planned one.  The
\* entries still to be placed are of planned nodes without a tracked order.
TrackedInv ==
  /\ \A o \in pendings : StatusOf(o) # "cancelled"
  /\ \A o \in pendings : orders[o].kind = "rotation_exit" => StatusOf(o) # "planned"
  /\ pc = "entries" =>
       \A n \in work : n \in 1..Len(tree) /\ tree[n].status = "planned" /\ TrackedFor(n) = {}

IInv == TypeInv /\ TrackedInv

-----------------------------------------------------------------------------
(* Arithmetic and choices *)

\* Products and quotients of naturals are naturals.
LEMMA NatOperations ==
  /\ \A a, b \in Nat : a * b \in Nat
  /\ \A a \in Nat, b \in Nat \ {0} : a \div b \in Nat
OBVIOUS

\* The first of some numbers is one of them.
LEMMA EarliestIsFirst ==
  ASSUME NEW ids, ids \subseteq Nat, ids # {}
  PROVE  Earliest(ids) \in ids /\ \A p \in ids : Earliest(ids) <= p
<1> DEFINE R == {ss \in Nat \X Nat : ss[1] < ss[2]}
<1>1. OpToRel(<, Nat) = R
  BY Zenon DEF OpToRel
<1>2. IsWellFoundedOn(R, Nat)
  BY NatLessThanWellFounded, <1>1, Zenon
<1>3. PICK m \in ids : \A p \in ids : ~ (<<p, m>> \in R)
  <2> HIDE DEF R
  <2> QED
    BY <1>2, WFMin
<1>4. ASSUME NEW p \in ids PROVE m <= p
  <2>1. p \in Nat /\ m \in Nat
    OBVIOUS
  <2>2. p < m => <<p, m>> \in R
    BY <2>1
  <2> QED
    BY <1>3, <2>1, <2>2
<1> QED
  BY <1>4 DEF Earliest

-----------------------------------------------------------------------------
(* The operations on the tree *)

\* Putting a typed node in the place of another, with its parent and its pair.
LEMMA PutNode ==
  ASSUME NEW t, GoodTree(t), NEW n \in 1..Len(t), NEW e \in NodeType,
         e.parent = t[n].parent, n # Root => e.pair \in Pairs,
         e.status = "planned" => n # Root
  PROVE  LET u == [t EXCEPT ![n] = e]
         IN /\ GoodTree(u) /\ Len(u) = Len(t)
            /\ \A m \in 1..Len(t) : u[m] = IF m = n THEN e ELSE t[m]
BY ExceptSeq DEF GoodTree

\* The second tree has the first one's statuses, but for that of node n.
Sets(t, u, n, status) ==
  /\ GoodTree(u) /\ Len(u) = Len(t)
  /\ \A m \in 1..Len(t) : u[m].status = IF m = n THEN status ELSE t[m].status
  /\ \A m \in 1..Len(t) : u[m].pair = t[m].pair /\ u[m].parent = t[m].parent

Keeps(t, u) == GoodTree(u) /\ Len(u) = Len(t) /\ \A m \in 1..Len(t) : u[m].status = t[m].status

\* SetStatus sets the status, and nothing else.
LEMMA SetStatusSets ==
  ASSUME NEW t, GoodTree(t), NEW n \in 1..Len(t), NEW status \in Statuses \ {"planned"}
  PROVE  Sets(t, SetStatus(t, n, status), n, status)
<1>1. t[n] \in NodeType
  BY DEF GoodTree
<1> DEFINE e == [t[n] EXCEPT !.status = status]
<1>2. /\ e \in NodeType /\ e.parent = t[n].parent /\ e.pair = t[n].pair /\ e.status = status
  BY <1>1 DEF NodeType
<1>3. SetStatus(t, n, status) = [t EXCEPT ![n] = e]
  BY DEF SetStatus
<1> HIDE DEF e
<1> QED
  BY <1>2, <1>3, PutNode DEF Sets, GoodTree

\* Release changes no status.
LEMMA ReleaseKeeps ==
  ASSUME NEW t, GoodTree(t), NEW p \in 0..Len(t), NEW unreserved \in Nat, NEW freed \in Nat
  PROVE  LET u == Release(t, p, unreserved, freed)
         IN /\ GoodTree(u) /\ Len(u) = Len(t)
            /\ \A m \in 1..Len(t) : /\ u[m].status = t[m].status /\ u[m].pair = t[m].pair
                                    /\ u[m].parent = t[m].parent
<1>1. CASE p = NoParent
  BY <1>1 DEF Release
<1>2. CASE p # NoParent
  <2>1. p \in 1..Len(t) /\ Len(t) \in Nat
    BY <1>2, LenProperties DEF NoParent, GoodTree
  <2>2. t[p] \in NodeType
    BY <2>1 DEF GoodTree
  <2> DEFINE r == Monus(t[p].reserved, unreserved)
             f == [t[p] EXCEPT !.reserved = r]
             e == [t[p] EXCEPT !.reserved = r, !.free = t[p].free + freed]
  <2>3. r \in Nat
    BY <2>2 DEF NodeType, Monus
  <2>5. Release(t, p, unreserved, freed) = [t EXCEPT ![p] = e]
    BY <1>2 DEF Release
  <2> HIDE DEF r
  <2>6. /\ e \in NodeType /\ e.parent = t[p].parent /\ e.pair = t[p].pair
        /\ e.status = t[p].status
    <3>1. /\ f \in NodeType /\ f.parent = t[p].parent /\ f.pair = t[p].pair
          /\ f.status = t[p].status
      BY <2>2, <2>3 DEF NodeType
    <3>2. e = [f EXCEPT !.free = t[p].free + freed] /\ t[p].free + freed \in Nat
      BY <2>2 DEF NodeType
    <3> HIDE DEF e, f
    <3> QED
      BY <3>1, <3>2 DEF NodeType
  <2> HIDE DEF e
  <2> QED
    BY <2>1, <2>5, <2>6, PutNode DEF GoodTree
<1> QED
  BY <1>1, <1>2

\* cancel_planned_node cancels a planned node, and leaves any other alone.
LEMMA CancelSets ==
  ASSUME NEW t, GoodTree(t), NEW n \in 1..Len(t)
  PROVE  Sets(t, cancel_planned_node(t, n), n,
              IF t[n].status = "planned" THEN "cancelled" ELSE t[n].status)
<1>1. CASE t[n].status # "planned"
  <2>1. cancel_planned_node(t, n) = t
    BY <1>1 DEF cancel_planned_node
  <2> QED
    BY <1>1, <2>1 DEF Sets
<1>2. CASE t[n].status = "planned"
  <2> DEFINE u == Release(t, t[n].parent, t[n].total, t[n].total)
  <2>1. t[n].parent \in 0..Len(t) /\ t[n].total \in Nat
    <3>1. t[n] \in NodeType /\ t[n].parent \in 0..Len(t)
      BY DEF GoodTree
    <3> QED
      BY <3>1 DEF NodeType
  <2>2. /\ GoodTree(u) /\ Len(u) = Len(t)
        /\ \A m \in 1..Len(t) : /\ u[m].status = t[m].status /\ u[m].pair = t[m].pair
                                /\ u[m].parent = t[m].parent
    BY <2>1, ReleaseKeeps
  <2>3. cancel_planned_node(t, n) = SetStatus(u, n, "cancelled")
    BY <1>2 DEF cancel_planned_node
  <2> HIDE DEF u
  <2>4. Sets(u, SetStatus(u, n, "cancelled"), n, "cancelled")
    BY <2>2, SetStatusSets DEF Statuses
  <2> QED
    BY <1>2, <2>2, <2>3, <2>4 DEF Sets
<1> QED
  BY <1>1, <1>2

OpenedAs(x, quantity, cost) ==
  [x EXCEPT !.status = "open", !.total = quantity, !.free = quantity, !.reserved = 0,
            !.entryCost = cost]

\* A node that is opened keeps its place and its type.
LEMMA OpenedNode ==
  ASSUME NEW x \in NodeType, NEW quantity \in Nat, NEW cost \in Nat
  PROVE  /\ OpenedAs(x, quantity, cost) \in NodeType
         /\ OpenedAs(x, quantity, cost).status = "open"
         /\ OpenedAs(x, quantity, cost).parent = x.parent
         /\ OpenedAs(x, quantity, cost).pair = x.pair
<1> DEFINE e == [x EXCEPT !.status = "open", !.total = quantity, !.free = quantity,
                          !.reserved = 0, !.entryCost = cost]
           a == [x EXCEPT !.status = "open"]
           b == [a EXCEPT !.total = quantity]
           c == [b EXCEPT !.free = quantity]
           d == [c EXCEPT !.reserved = 0]
<1>1. e = [d EXCEPT !.entryCost = cost]
  OBVIOUS
<1>2. a \in NodeType /\ a.status = "open" /\ a.parent = x.parent /\ a.pair = x.pair
  BY DEF NodeType, Statuses
<1> HIDE DEF a, e
<1>3. b \in NodeType /\ b.status = "open" /\ b.parent = x.parent /\ b.pair = x.pair
  BY <1>2 DEF NodeType
<1> HIDE DEF b
<1>4. c \in NodeType /\ c.status = "open" /\ c.parent = x.parent /\ c.pair = x.pair
  BY <1>3 DEF NodeType
<1> HIDE DEF c
<1>5. d \in NodeType /\ d.status = "open" /\ d.parent = x.parent /\ d.pair = x.pair
  BY <1>4 DEF NodeType
<1> HIDE DEF d
<1>6. e \in NodeType /\ e.status = "open" /\ e.parent = x.parent /\ e.pair = x.pair
  BY <1>1, <1>5 DEF NodeType
<1> QED
  BY <1>6 DEF e, OpenedAs

\* A fill of its entry opens a node, whatever its status was.
LEMMA OpenedSets ==
  ASSUME GoodTree(tree), NEW fill \in FillType, fill.node \in 1..Len(tree)
  PROVE  Sets(tree, OpenedBy(fill), fill.node, "open")
<1> DEFINE node == tree[fill.node]
           cost == IF IsBuy(node) THEN fill.qty * fill.price ELSE fill.qty
           dest == destination_quantity(node, fill.qty, fill.price)
           e == [node EXCEPT !.status = "open", !.total = dest, !.free = dest,
                             !.reserved = 0, !.entryCost = cost]
           opened == [tree EXCEPT ![fill.node] = e]
<1>1. node \in NodeType /\ node.parent \in 0..Len(tree)
  BY DEF GoodTree
<1>2. fill.qty \in Nat /\ fill.price \in Nat /\ fill.qty * fill.price \in Nat
  BY NatOperations DEF FillType
<1>3. cost \in Nat /\ dest \in Nat
  BY <1>2 DEF destination_quantity
<1>4. OpenedBy(fill) = Release(opened, node.parent, node.total, Monus(node.total, cost))
  BY DEF OpenedBy
<1>5. node.total \in Nat /\ Monus(node.total, cost) \in Nat
  <2> HIDE DEF node, cost
  <2> QED
    BY <1>1, <1>3 DEF NodeType, Monus
<1>6. /\ e \in NodeType /\ e.status = "open" /\ e.parent = node.parent
      /\ e.pair = node.pair
  <2>1. e = OpenedAs(node, dest, cost)
    BY DEF OpenedAs
  <2> HIDE DEF node, cost, dest, e
  <2> QED
    BY <1>1, <1>3, <2>1, OpenedNode
<1>7. /\ GoodTree(opened) /\ Len(opened) = Len(tree)
      /\ \A m \in 1..Len(tree) : opened[m] = IF m = fill.node THEN e ELSE tree[m]
  <2> HIDE DEF e
  <2>1. fill.node # Root => e.pair \in Pairs
    BY <1>6 DEF GoodTree
  <2>2. e.parent = tree[fill.node].parent /\ e.status # "planned"
    BY <1>6
  <2> QED
    BY <1>6, <2>1, <2>2, PutNode
<1> HIDE DEF e, opened, cost
<1>8. LET u == Release(opened, node.parent, node.total, Monus(node.total, cost))
      IN /\ GoodTree(u) /\ Len(u) = Len(opened)
         /\ \A m \in 1..Len(opened) : /\ u[m].status = opened[m].status
                                       /\ u[m].pair = opened[m].pair
                                       /\ u[m].parent = opened[m].parent
  <2>1. node.parent \in 0..Len(opened)
    BY <1>1, <1>7
  <2> HIDE DEF node
  <2> QED
    BY <1>5, <1>7, <2>1, ReleaseKeeps
<1> QED
  BY <1>4, <1>6, <1>7, <1>8 DEF Sets

\* A fill of its exit closes a node, whatever its status was.
LEMMA ClosedSets ==
  ASSUME GoodTree(tree), NEW fill \in FillType, fill.node \in 1..Len(tree)
  PROVE  Sets(tree, ClosedBy(fill), fill.node, "closed")
<1> DEFINE node == tree[fill.node]
           proceeds == IF fill.node = Root THEN fill.qty * fill.price
                       ELSE exit_proceeds(node, fill.qty, fill.price)
           f == [node EXCEPT !.status = "closed"]
           e == [node EXCEPT !.status = "closed", !.proceeds = proceeds]
           closed == [tree EXCEPT ![fill.node] = e]
<1>1. node \in NodeType /\ node.parent \in 0..Len(tree)
  BY DEF GoodTree
<1>2. fill.qty \in Nat /\ fill.price \in Nat /\ fill.qty * fill.price \in Nat
  BY NatOperations DEF FillType
<1>3. proceeds \in Nat
  BY <1>2 DEF exit_proceeds
<1>4. ClosedBy(fill) = Release(closed, node.parent, 0, proceeds)
  BY DEF ClosedBy
<1>5. /\ e \in NodeType /\ e.status = "closed" /\ e.parent = node.parent
      /\ e.pair = node.pair
  <2> HIDE DEF node, proceeds
  <2>1. e = [f EXCEPT !.proceeds = proceeds]
    OBVIOUS
  <2>2. /\ f \in NodeType /\ f.status = "closed" /\ f.parent = node.parent
        /\ f.pair = node.pair
    BY <1>1 DEF NodeType, Statuses
  <2> HIDE DEF f, e
  <2> QED
    BY <1>3, <2>1, <2>2 DEF NodeType
<1>6. /\ GoodTree(closed) /\ Len(closed) = Len(tree)
      /\ \A m \in 1..Len(tree) : closed[m] = IF m = fill.node THEN e ELSE tree[m]
  <2> HIDE DEF e
  <2>1. fill.node # Root => e.pair \in Pairs
    BY <1>5 DEF GoodTree
  <2>2. e.parent = tree[fill.node].parent /\ e.status # "planned"
    BY <1>5
  <2> QED
    BY <1>5, <2>1, <2>2, PutNode
<1> HIDE DEF e, closed, proceeds
<1>7. LET u == Release(closed, node.parent, 0, proceeds)
      IN /\ GoodTree(u) /\ Len(u) = Len(closed)
         /\ \A m \in 1..Len(closed) : /\ u[m].status = closed[m].status
                                       /\ u[m].pair = closed[m].pair
                                       /\ u[m].parent = closed[m].parent
  <2>1. node.parent \in 0..Len(closed) /\ 0 \in Nat
    BY <1>1, <1>6
  <2> HIDE DEF node
  <2> QED
    BY <1>3, <1>6, <2>1, ReleaseKeeps
<1> QED
  BY <1>4, <1>5, <1>6, <1>7 DEF Sets

-----------------------------------------------------------------------------
(* Placing and cancelling orders *)

\* Every order stays that of its node and of its kind.
KeepsOrders(os, us) ==
  /\ Len(us) \in Nat /\ Len(us) >= Len(os)
  /\ \A o \in 1..Len(os) : us[o].node = os[o].node /\ us[o].kind = os[o].kind

\* An order placed is the last one, and changes none of the others.
LEMMA PlacedOrder ==
  ASSUME NEW size \in Nat, NEW os, GoodOrders(os, size), NEW n \in 1..size, NEW kind \in Kinds,
         kind = "rotation_entry" => n # Root, NEW quantity \in Nat, NEW price \in Nat
  PROVE  LET us == With(os, n, kind, quantity, price)
         IN /\ GoodOrders(us, size) /\ KeepsOrders(os, us) /\ Len(us) = Len(os) + 1
            /\ us[Len(us)].node = n /\ us[Len(us)].kind = kind
<1> DEFINE e == [node |-> n, kind |-> kind, qty |-> quantity, price |-> price,
                 filled |-> 0, open |-> TRUE]
           us == With(os, n, kind, quantity, price)
<1>1. e \in OrderType /\ e.node = n /\ e.kind = kind
  BY DEF OrderType
<1>2. us = Append(os, e) /\ os \in Seq(OrderType)
  BY DEF With, GoodOrders
<1> HIDE DEF e, us
<1>3. /\ us \in Seq(OrderType) /\ Len(us) = Len(os) + 1 /\ Len(os) \in Nat
      /\ \A o \in 1..Len(us) : us[o] = IF o <= Len(os) THEN os[o] ELSE e
  BY <1>1, <1>2
<1>4. GoodOrders(us, size)
  BY <1>1, <1>3 DEF GoodOrders, OfNode
<1>5. KeepsOrders(os, us)
  BY <1>3 DEF KeepsOrders
<1> QED
  BY <1>1, <1>3, <1>4, <1>5 DEF us

\* A change of what was executed of an order and of whether it is open.
LEMMA ChangedOrder ==
  ASSUME NEW size \in Nat, NEW os, GoodOrders(os, size), NEW o \in 1..Len(os),
         NEW e \in OrderType, e.node = os[o].node, e.kind = os[o].kind
  PROVE  LET us == [os EXCEPT ![o] = e]
         IN GoodOrders(us, size) /\ KeepsOrders(os, us) /\ Len(us) = Len(os)
<1> DEFINE us == [os EXCEPT ![o] = e]
<1>1. os \in Seq(OrderType)
  BY DEF GoodOrders
<1>2. /\ us \in Seq(OrderType) /\ Len(us) = Len(os) /\ Len(os) \in Nat
      /\ \A p \in 1..Len(os) : us[p] = IF p = o THEN e ELSE os[p]
  BY <1>1, ExceptSeq
<1> HIDE DEF us
<1>3. ASSUME NEW p \in 1..Len(os)
      PROVE  us[p].node = os[p].node /\ us[p].kind = os[p].kind
  BY <1>2
<1>4. GoodOrders(us, size) /\ KeepsOrders(os, us)
  BY <1>2, <1>3 DEF GoodOrders, OfNode, KeepsOrders
<1> QED
  BY <1>2, <1>4 DEF us

\* Cancelling an order changes no other thing about it.
LEMMA CancelledOrders ==
  ASSUME TypeInv, NEW o, NEW us \in AfterCancel(o)
  PROVE  GoodOrders(us, Len(tree)) /\ KeepsOrders(orders, us) /\ Len(us) = Len(orders)
<1>1. /\ GoodOrders(orders, Len(tree)) /\ pendings \subseteq 1..Len(orders)
      /\ orders \in Seq(OrderType) /\ Len(orders) \in Nat /\ Len(tree) \in Nat
  BY LenProperties DEF TypeInv, GoodOrders, GoodTree
<1>2. CASE us = orders
  BY <1>1, <1>2 DEF KeepsOrders
<1>3. CASE us # orders
  <2> DEFINE tracked == pendings \ Untracked(o)
             p == Earliest(tracked)
             e == [orders[p] EXCEPT !.open = FALSE]
  <2>1. us = [orders EXCEPT ![p].open = FALSE] /\ tracked # {}
    BY <1>3 DEF AfterCancel
  <2>2. p \in tracked
    <3>1. ASSUME NEW q \in tracked PROVE q \in Nat
      <4>1. q \in pendings
        OBVIOUS
      <4> QED
        BY <1>1, <4>1
    <3> HIDE DEF tracked
    <3> QED
      BY <2>1, <3>1, EarliestIsFirst
  <2>3. p \in 1..Len(orders)
    BY <1>1, <2>2
  <2> HIDE DEF p
  <2>4. orders[p] \in OrderType
    BY <1>1, <2>3
  <2>5. e \in OrderType /\ e.node = orders[p].node /\ e.kind = orders[p].kind
    BY <2>4 DEF OrderType
  <2>6. us = [orders EXCEPT ![p] = e]
    BY <2>1
  <2> HIDE DEF e
  <2> QED
    BY <1>1, <2>3, <2>5, <2>6, ChangedOrder
<1> QED
  BY <1>2, <1>3

\* What closing node n does to the tree t, to the orders os and to the tracked.
Closes(n, t, os, tracked) ==
  /\ GoodTree(tree') /\ Len(tree') = Len(t)
  /\ GoodOrders(orders', Len(t)) /\ KeepsOrders(os, orders')
  /\ \A m \in 1..Len(t) : m # n => tree'[m].status = t[m].status
  /\ \/ /\ pendings' = tracked
        /\ tree'[n].status = t[n].status \/ (n = Root /\ tree'[n].status = "expired")
     \/ /\ pendings' = tracked \cup {Len(os) + 1} /\ Len(orders') = Len(os) + 1
        /\ tree'[n].status = "closing"
        /\ orders'[Len(os) + 1].node = n /\ orders'[Len(os) + 1].kind = "rotation_exit"

\* _close_rotation_node.
LEMMA CloseNodeCloses ==
  ASSUME NEW t, GoodTree(t), NEW n \in 1..Len(t), NEW os, GoodOrders(os, Len(t)),
         NEW tracked, CloseNode(n, t, os, tracked)
  PROVE  Closes(n, t, os, tracked)
<1>1. /\ os \in Seq(OrderType) /\ Len(os) \in Nat /\ KeepsOrders(os, os)
      /\ t \in Seq(NodeType) /\ Len(t) \in Nat /\ t[n] \in NodeType
  <2>1. os \in Seq(OrderType) /\ t \in Seq(NodeType)
    BY DEF GoodOrders, GoodTree
  <2> QED
    BY <2>1 DEF KeepsOrders
<1>2. CASE tree' = t /\ orders' = os /\ pendings' = tracked
  BY <1>1, <1>2 DEF Closes
<1>3. CASE n = Root /\ tree' = SetStatus(t, n, "expired") /\ orders' = os /\ pendings' = tracked
  <2>1. Sets(t, tree', n, "expired")
    BY <1>3, SetStatusSets DEF Statuses
  <2> QED
    BY <1>1, <1>3, <2>1 DEF Closes, Sets
<1>4. ASSUME NEW price \in ExitPrices, NEW quantity \in ExitQuantities(t[n], price),
             orders' = With(os, n, "rotation_exit", quantity, price),
             \/ tree' = SetStatus(t, n, "closing") /\ pendings' = tracked \cup {Len(os) + 1}
             \/ tree' = t /\ pendings' = tracked
      PROVE  Closes(n, t, os, tracked)
  <2>1. price \in Nat \ {0} /\ t[n].total \in Nat
    BY <1>1, RuntimeAssumption DEF NodeType
  <2>2. exit_base_quantity(t[n], price) \in Nat
    BY <2>1, NatOperations DEF exit_base_quantity
  <2>3. quantity \in Nat
    BY <2>2 DEF ExitQuantities
  <2>4. /\ GoodOrders(orders', Len(t)) /\ KeepsOrders(os, orders') /\ Len(orders') = Len(os) + 1
        /\ orders'[Len(orders')].node = n /\ orders'[Len(orders')].kind = "rotation_exit"
    <3>1. "rotation_exit" \in Kinds /\ "rotation_exit" # "rotation_entry" /\ price \in Nat
      BY <2>1 DEF Kinds
    <3> QED
      BY <1>1, <1>4, <2>3, <3>1, PlacedOrder
  <2>5. CASE tree' = t /\ pendings' = tracked
    BY <1>1, <2>4, <2>5 DEF Closes
  <2>6. CASE tree' = SetStatus(t, n, "closing") /\ pendings' = tracked \cup {Len(os) + 1}
    <3>1. Sets(t, tree', n, "closing")
      BY <2>6, SetStatusSets DEF Statuses
    <3> QED
      BY <1>1, <2>4, <2>6, <3>1 DEF Closes, Sets
  <2> QED
    BY <1>4, <2>5, <2>6
<1> QED
  BY <1>2, <1>3, <1>4 DEF CloseNode

-----------------------------------------------------------------------------
(* What most steps have in common *)

\* Lengths are numbers, and domains go up to them.
LEMMA Sizes ==
  ASSUME TypeInv
  PROVE  /\ Len(tree) \in Nat /\ Len(tree) >= 1 /\ DOMAIN tree = 1..Len(tree)
         /\ Len(orders) \in Nat /\ OrderIds = 1..Len(orders)
         /\ KeepsOrders(orders, orders)
         /\ \A n \in 1..Len(tree) : tree[n] \in NodeType
         /\ \A o \in 1..Len(orders) : orders[o] \in OrderType /\ orders[o].node \in 1..Len(tree)
<1>1. tree \in Seq(NodeType) /\ orders \in Seq(OrderType) /\ Len(tree) >= 1
  BY DEF TypeInv, GoodTree, GoodOrders
<1>2. \A o \in 1..Len(orders) : orders[o].node \in 1..Len(tree)
  BY DEF TypeInv, GoodOrders, OfNode
<1> QED
  BY <1>1, <1>2 DEF OrderIds, KeepsOrders

\* A step that keeps the messages and the queue, and places or cancels an order at
\* most, keeps the types.
LEMMA TypeFrame ==
  ASSUME TypeInv, GoodTree(tree'), Len(tree') = Len(tree),
         GoodOrders(orders', Len(tree)), KeepsOrders(orders, orders'),
         pendings' \subseteq 1..Len(orders'), stale' \subseteq pendings',
         cooldowns' \subseteq Pairs, reconcileDue' \in BOOLEAN, pc' \in Phases,
         work' \subseteq Nat, openSeen' \subseteq 1..Len(orders'),
         UNCHANGED <<feed, fillQueue, misled>>
  PROVE  TypeInv'
<1>1. \A i \in 1..Len(feed) : feed[i].order \in 1..Len(orders')
  <2>1. Len(orders) \in Nat /\ Len(orders') \in Nat /\ Len(orders') >= Len(orders)
    BY Sizes DEF KeepsOrders
  <2> QED
    BY <2>1 DEF TypeInv
<1> QED
  BY <1>1 DEF TypeInv

\* What is tracked stays in order when no node is cancelled, or planned again, that
\* an order is still tracked for.
LEMMA TrackedFrame ==
  ASSUME IInv, KeepsOrders(orders, orders'), pendings' \subseteq pendings, pc' # "entries",
         \A o \in pendings' : \/ tree'[orders[o].node].status = StatusOf(o)
                              \/ tree'[orders[o].node].status \notin {"cancelled", "planned"}
  PROVE  TrackedInv'
<1>1. \A o \in pendings' : /\ o \in pendings
                           /\ orders'[o].node = orders[o].node
                           /\ orders'[o].kind = orders[o].kind
  BY DEF IInv, TypeInv, KeepsOrders
<1> QED
  BY <1>1 DEF IInv, TrackedInv, StatusOf

\* Nothing is the matter with a step that changes no status and tracks no more.
LEMMA QuietStep ==
  ASSUME IInv, Keeps(tree, tree'), GoodOrders(orders', Len(tree)), KeepsOrders(orders, orders'),
         pendings' \subseteq pendings, stale' \subseteq pendings',
         cooldowns' \subseteq Pairs, reconcileDue' \in BOOLEAN, pc' \in Phases,
         pc' # "entries", work' \subseteq Nat, openSeen' \subseteq 1..Len(orders'),
         UNCHANGED <<feed, fillQueue, misled>>
  PROVE  IInv'
<1>1. /\ Len(orders') \in Nat /\ Len(orders') >= Len(orders) /\ Len(orders) \in Nat
      /\ pendings \subseteq 1..Len(orders)
  BY Sizes DEF KeepsOrders, IInv, TypeInv
<1>2. pendings' \subseteq 1..Len(orders')
  BY <1>1
<1>3. TypeInv'
  BY <1>2, TypeFrame DEF Keeps, IInv
<1>4. \A o \in pendings' : tree'[orders[o].node].status = StatusOf(o)
  <2> SUFFICES ASSUME NEW o \in pendings'
               PROVE  tree'[orders[o].node].status = StatusOf(o)
    OBVIOUS
  <2>1. orders[o].node \in 1..Len(tree)
    BY <1>1, Sizes DEF IInv
  <2> QED
    BY <2>1 DEF Keeps, StatusOf
<1> QED
  BY <1>3, <1>4, TrackedFrame DEF IInv

\* A node is closed, and its own orders may be forgotten before.
LEMMA ClosingStep ==
  ASSUME IInv, NEW n \in 1..Len(tree), NEW t, Keeps(tree, t), NEW os,
         GoodOrders(os, Len(tree)), KeepsOrders(orders, os), Len(os) = Len(orders),
         NEW tracked, tracked \subseteq pendings, CloseNode(n, t, os, tracked),
         stale' \subseteq pendings', cooldowns' \subseteq Pairs,
         pc' \in Phases \ {"entries"}, work' \subseteq Nat,
         UNCHANGED <<feed, fillQueue, misled, reconcileDue, openSeen>>
  PROVE  IInv'
<1>1. GoodTree(t) /\ Len(t) = Len(tree) /\ \A m \in 1..Len(tree) : t[m].status = tree[m].status
  BY DEF Keeps
<1>2. Closes(n, t, os, tracked)
  BY <1>1, CloseNodeCloses
<1>3. /\ Len(orders) \in Nat /\ Len(orders') \in Nat /\ Len(orders') >= Len(orders)
      /\ pendings \subseteq 1..Len(orders) /\ openSeen \subseteq 1..Len(orders)
      /\ reconcileDue \in BOOLEAN
      /\ \A o \in 1..Len(orders) : orders[o].node \in 1..Len(tree)
  BY <1>2, Sizes DEF Closes, KeepsOrders, IInv, TypeInv
<1>4. KeepsOrders(orders, orders')
  BY <1>2, <1>3 DEF Closes, KeepsOrders
<1>5. pendings' \subseteq 1..Len(orders')
  <2> SUFFICES ASSUME NEW o \in pendings' PROVE o \in 1..Len(orders')
    OBVIOUS
  <2>1. o \in pendings \/ (o = Len(orders) + 1 /\ Len(orders') = Len(orders) + 1)
    BY <1>2 DEF Closes
  <2>2. CASE o \in pendings
    <3>1. o \in 1..Len(orders)
      BY <1>3, <2>2
    <3> QED
      BY <1>3, <3>1
  <2>3. CASE o = Len(orders) + 1 /\ Len(orders') = Len(orders) + 1
    BY <1>3, <2>3
  <2> QED
    BY <2>1, <2>2, <2>3
<1>6. openSeen' \subseteq 1..Len(orders')
  BY <1>3
<1>7. TypeInv'
  BY <1>1, <1>2, <1>3, <1>4, <1>5, <1>6, TypeFrame DEF Closes, IInv
<1>8. TrackedInv'
  <2> SUFFICES ASSUME NEW o \in pendings'
               PROVE  /\ tree'[orders'[o].node].status # "cancelled"
                      /\ orders'[o].kind = "rotation_exit" =>
                           tree'[orders'[o].node].status # "planned"
    BY DEF TrackedInv, StatusOf
  <2>1. CASE o \in pendings
    <3>1. o \in 1..Len(orders) /\ orders[o].node \in 1..Len(tree)
      BY <1>3, <2>1
    <3>2. orders'[o].node = orders[o].node /\ orders'[o].kind = orders[o].kind
      BY <1>4, <3>1 DEF KeepsOrders
    <3>3. \/ tree'[orders[o].node].status = tree[orders[o].node].status
          \/ tree'[orders[o].node].status \in {"expired", "closing"}
      BY <1>1, <1>2, <3>1 DEF Closes
    <3> QED
      BY <2>1, <3>2, <3>3 DEF IInv, TrackedInv, StatusOf
  <2>2. CASE o \notin pendings
    BY <1>2, <2>2 DEF Closes
  <2> QED
    BY <2>1, <2>2
<1> QED
  BY <1>7, <1>8 DEF IInv

\* Nor with one that only moves run_once on.
LEMMA ControlStep ==
  ASSUME IInv, reconcileDue' \in BOOLEAN, pc' \in Phases, pc' # "entries",
         work' \subseteq Nat, openSeen' \subseteq 1..Len(orders),
         UNCHANGED <<orders, feed, tree, pendings, stale, fillQueue, cooldowns, misled>>
  PROVE  IInv'
<1>1. Keeps(tree, tree') /\ GoodOrders(orders', Len(tree)) /\ KeepsOrders(orders, orders')
  BY Sizes DEF Keeps, IInv, TypeInv
<1>2. /\ pendings' \subseteq pendings /\ stale' \subseteq pendings'
      /\ cooldowns' \subseteq Pairs /\ openSeen' \subseteq 1..Len(orders')
  BY DEF IInv, TypeInv
<1> QED
  BY <1>1, <1>2, QuietStep

-----------------------------------------------------------------------------
(* The steps *)

\* The exchange changes nothing the bot knows of.
LEMMA ExchangeStep == IInv /\ Exchange => IInv'
<1> SUFFICES ASSUME IInv, Exchange PROVE IInv'
  OBVIOUS
<1>1. UNCHANGED <<tree, pendings, stale, fillQueue, reconcileDue, cooldowns, pc, openSeen,
                  work, misled>>
  BY DEF Exchange, CancelledOutside, Execute, Lose, bot, control
<1>2. /\ GoodOrders(orders, Len(tree)) /\ feed \in Seq(MessageType)
      /\ \A i \in 1..Len(feed) : feed[i].order \in 1..Len(orders)
  BY DEF IInv, TypeInv
<1>3. ASSUME GoodOrders(orders', Len(tree)), KeepsOrders(orders, orders'),
             Len(orders') = Len(orders), feed' \in Seq(MessageType),
             \A i \in 1..Len(feed') : feed'[i].order \in 1..Len(orders)
      PROVE  IInv'
  <2>1. TypeInv'
    BY <1>1, <1>3 DEF IInv, TypeInv
  <2>2. \A o \in pendings : orders'[o].node = orders[o].node /\ orders'[o].kind = orders[o].kind
    BY <1>3 DEF IInv, TypeInv, KeepsOrders
  <2>3. \A n : TrackedFor(n)' = TrackedFor(n)
    BY <1>1, <2>2 DEF TrackedFor
  <2>4. TrackedInv'
    BY <1>1, <2>2, <2>3 DEF IInv, TrackedInv, StatusOf
  <2> QED
    BY <2>1, <2>4 DEF IInv
<1>4. ASSUME NEW o \in OrderIds, CancelledOutside(o) PROVE IInv'
  <2> DEFINE e == [orders[o] EXCEPT !.open = FALSE]
  <2>1. o \in 1..Len(orders) /\ orders[o] \in OrderType
    BY Sizes DEF IInv
  <2>2. e \in OrderType /\ e.node = orders[o].node /\ e.kind = orders[o].kind
    BY <2>1 DEF OrderType
  <2>3. orders' = [orders EXCEPT ![o] = e] /\ feed' = feed
    BY <1>4 DEF CancelledOutside
  <2> HIDE DEF e
  <2>4. Len(tree) \in Nat
    BY Sizes DEF IInv
  <2> QED
    BY <1>2, <1>3, <2>1, <2>2, <2>3, <2>4, ChangedOrder
<1>5. ASSUME NEW o \in OrderIds, NEW q \in 1..orders[o].qty, Execute(o, q) PROVE IInv'
  <2> DEFINE a == [orders[o] EXCEPT !.filled = orders[o].filled + q]
             still == orders[o].filled + q < orders[o].qty
             e == [orders[o] EXCEPT !.filled = orders[o].filled + q, !.open = still]
             msg == [order |-> o, qty |-> q, price |-> orders[o].price]
  <2>1. o \in 1..Len(orders) /\ orders[o] \in OrderType /\ Len(tree) \in Nat
    BY Sizes DEF IInv
  <2>2. q \in Nat /\ orders[o].filled + q \in Nat /\ orders[o].price \in Nat
    BY <2>1 DEF OrderType
  <2>3. orders' = [orders EXCEPT ![o] = e] /\ feed' = Append(feed, msg)
    BY <1>5 DEF Execute
  <2>4. e \in OrderType /\ e.node = orders[o].node /\ e.kind = orders[o].kind
    <3>1. a \in OrderType /\ a.node = orders[o].node /\ a.kind = orders[o].kind
      BY <2>1, <2>2 DEF OrderType
    <3>2. e = [a EXCEPT !.open = still] /\ still \in BOOLEAN
      OBVIOUS
    <3> HIDE DEF e, a, still
    <3> QED
      BY <3>1, <3>2 DEF OrderType
  <2> HIDE DEF e
  <2>5. msg \in MessageType /\ msg.order = o
    BY <2>1, <2>2 DEF MessageType
  <2> HIDE DEF msg
  <2>6. /\ feed' \in Seq(MessageType)
        /\ \A i \in 1..Len(feed') : feed'[i].order \in 1..Len(orders)
    BY <1>2, <2>1, <2>3, <2>5
  <2> QED
    BY <1>2, <1>3, <2>1, <2>3, <2>4, <2>6, ChangedOrder
<1>6. CASE Lose
  <2>1. orders' = orders /\ feed' = Tail(feed) /\ feed # <<>>
    BY <1>6 DEF Lose
  <2>2. /\ feed' \in Seq(MessageType) /\ Len(feed') = Len(feed) - 1
        /\ \A i \in 1..Len(feed') : feed'[i] = feed[i + 1]
    BY <1>2, <2>1, HeadTailProperties
  <2>3. Len(feed) \in Nat
    BY <1>2
  <2>4. \A i \in 1..Len(feed') : feed'[i].order \in 1..Len(orders)
    BY <1>2, <2>2, <2>3
  <2>5. GoodOrders(orders', Len(tree)) /\ KeepsOrders(orders, orders') /\ Len(orders') = Len(orders)
    BY <1>2, <2>1, Sizes DEF IInv
  <2> QED
    BY <1>3, <2>2, <2>4, <2>5
<1> QED
  BY <1>4, <1>5, <1>6 DEF Exchange

\* Time passes between two cycles.
LEMMA ClockStep == IInv /\ Clock => IInv'
<1> SUFFICES ASSUME IInv, Clock PROVE IInv'
  OBVIOUS
<1>1. pc' = "idle" /\ UNCHANGED <<orders, feed, pendings, fillQueue, pc, openSeen, work, misled>>
  BY DEF Clock, DeadlinePasses, FillTimeoutPasses, ReconcileIntervalPasses, CooldownPasses,
         exchange, control
<1>2. /\ Keeps(tree, tree) /\ GoodOrders(orders', Len(tree)) /\ KeepsOrders(orders, orders')
      /\ pendings' \subseteq pendings /\ stale \subseteq pendings' /\ cooldowns \subseteq Pairs
      /\ pc' \in Phases /\ pc' # "entries" /\ work' \subseteq Nat
      /\ openSeen' \subseteq 1..Len(orders') /\ reconcileDue \in BOOLEAN
  BY <1>1, Sizes DEF Keeps, IInv, TypeInv, Phases
<1>3. ASSUME NEW n \in DOMAIN tree, DeadlinePasses(n) PROVE IInv'
  <2> DEFINE e == [tree[n] EXCEPT !.deadline = "passed"]
  <2>1. n \in 1..Len(tree) /\ tree[n] \in NodeType /\ GoodTree(tree)
    BY Sizes DEF IInv, TypeInv
  <2>2. /\ e \in NodeType /\ e.parent = tree[n].parent /\ e.pair = tree[n].pair
        /\ e.status = tree[n].status
    BY <2>1 DEF NodeType, Deadlines
  <2>3. tree' = [tree EXCEPT ![n] = e] /\ UNCHANGED <<stale, reconcileDue, cooldowns>>
    BY <1>3 DEF DeadlinePasses
  <2> HIDE DEF e
  <2>4. Keeps(tree, tree')
    BY <2>1, <2>2, <2>3, PutNode DEF Keeps, GoodTree
  <2> QED
    BY <1>1, <1>2, <2>3, <2>4, QuietStep
<1>4. ASSUME NEW o \in OrderIds, FillTimeoutPasses(o) PROVE IInv'
  BY <1>1, <1>2, <1>4, QuietStep DEF FillTimeoutPasses
<1>5. CASE ReconcileIntervalPasses
  BY <1>1, <1>2, <1>5, QuietStep DEF ReconcileIntervalPasses
<1>6. ASSUME NEW pair \in Pairs, CooldownPasses(pair) PROVE IInv'
  BY <1>1, <1>2, <1>6, QuietStep DEF CooldownPasses
<1> QED
  BY <1>3, <1>4, <1>5, <1>6 DEF Clock

\* A fill is credited to an order that is tracked.
LEMMA MatchedIsTracked ==
  ASSUME NEW o
  PROVE  MatchingPending(o) \subseteq pendings
<1> DEFINE samePair == {p \in pendings : PairOf(p) = PairOf(o)}
<1>1. CASE o \in pendings
  BY <1>1 DEF MatchingPending
<1>2. CASE o \notin pendings /\ Cardinality(samePair) = 1
  BY <1>2 DEF MatchingPending
<1>3. CASE o \notin pendings /\ Cardinality(samePair) # 1
  <2>1. MatchingPending(o) = {}
    BY <1>3 DEF MatchingPending
  <2> QED
    BY <2>1
<1> QED
  BY <1>1, <1>2, <1>3

\* The queue grows by a fill of a tracked order, if at all.
Queues(m, quantity, price) ==
  /\ m \in pendings /\ quantity \in Nat /\ price \in Nat
  /\ fillQueue' = Append(fillQueue, FillOf(m, quantity, price))

\* Putting a fill in the queue keeps its type.
LEMMA QueueType ==
  ASSUME IInv, fillQueue' = fillQueue \/ \E m, q, price : Queues(m, q, price)
  PROVE  /\ fillQueue' \in Seq(FillType)
         /\ \A i \in 1..Len(fillQueue') : OfNode(fillQueue'[i], Len(tree))
<1>1. fillQueue \in Seq(FillType) /\ \A i \in 1..Len(fillQueue) : OfNode(fillQueue[i], Len(tree))
  BY DEF IInv, TypeInv
<1>2. CASE fillQueue' = fillQueue
  BY <1>1, <1>2
<1>3. ASSUME NEW m, NEW q, NEW price, Queues(m, q, price)
      PROVE  /\ fillQueue' \in Seq(FillType)
             /\ \A i \in 1..Len(fillQueue') : OfNode(fillQueue'[i], Len(tree))
  <2> DEFINE f == FillOf(m, q, price)
  <2>1. m \in 1..Len(orders) /\ orders[m] \in OrderType /\ OfNode(orders[m], Len(tree))
    BY <1>3, Sizes DEF Queues, IInv, TypeInv, GoodOrders
  <2>2. /\ f.node = orders[m].node /\ f.kind = orders[m].kind /\ f.qty = q /\ f.price = price
        /\ f = [node |-> orders[m].node, kind |-> orders[m].kind, qty |-> q, price |-> price]
    BY DEF FillOf
  <2>3. f \in FillType /\ OfNode(f, Len(tree))
    <3>1. orders[m].node \in Nat /\ orders[m].kind \in Kinds /\ q \in Nat /\ price \in Nat
      BY <1>3, <2>1 DEF OrderType, Queues
    <3> HIDE DEF f
    <3> QED
      BY <2>1, <2>2, <3>1 DEF FillType, OfNode
  <2>4. fillQueue' = Append(fillQueue, f)
    BY <1>3 DEF Queues
  <2> HIDE DEF f
  <2> QED
    BY <1>1, <2>3, <2>4
<1> QED
  BY <1>2, <1>3

\* The WebSocket task hands a fill over, while run_once is suspended.
LEMMA DeliverStep == IInv /\ Deliver => IInv'
<1> SUFFICES ASSUME IInv, Deliver PROVE IInv'
  OBVIOUS
<1> DEFINE msg == Head(feed)
           matched == MatchingPending(msg.order)
<1>1. /\ pc # "entries" /\ feed # <<>> /\ feed' = Tail(feed) /\ reconcileDue' = TRUE
      /\ fillQueue' = IF matched = {} THEN fillQueue
                      ELSE Append(fillQueue, FillOf(CHOOSE p \in matched : TRUE, msg.qty, msg.price))
      /\ misled' = (misled \/ Misattributed(msg.order, matched))
      /\ UNCHANGED <<orders, tree, pendings, stale, cooldowns, pc, openSeen, work>>
  BY DEF Deliver, Awaits, control
<1>2. feed \in Seq(MessageType) /\ \A i \in 1..Len(feed) : feed[i].order \in 1..Len(orders)
  BY DEF IInv, TypeInv
<1>3. /\ msg \in MessageType /\ feed' \in Seq(MessageType) /\ Len(feed') = Len(feed) - 1
      /\ \A i \in 1..Len(feed') : feed'[i] = feed[i + 1]
  BY <1>1, <1>2, HeadTailProperties
<1>4. \A i \in 1..Len(feed') : feed'[i].order \in 1..Len(orders)
  BY <1>2, <1>3
<1>5. fillQueue' = fillQueue \/ \E m, q, price : Queues(m, q, price)
  <2>1. CASE matched = {}
    BY <1>1, <2>1
  <2>2. CASE matched # {}
    <3>1. (CHOOSE p \in matched : TRUE) \in pendings
      <4> HIDE DEF matched
      <4>1. (CHOOSE p \in matched : TRUE) \in matched
        BY <2>2
      <4> QED
        BY <4>1, MatchedIsTracked DEF matched
    <3>2. msg.qty \in Nat /\ msg.price \in Nat
      BY <1>3 DEF MessageType
    <3>3. Queues(CHOOSE p \in matched : TRUE, msg.qty, msg.price)
      <4> HIDE DEF matched, msg
      <4> QED
        BY <1>1, <2>2, <3>1, <3>2 DEF Queues
    <3> QED
      BY <3>3
  <2> QED
    BY <2>1, <2>2
<1>6. fillQueue' \in Seq(FillType) /\ \A i \in 1..Len(fillQueue') : OfNode(fillQueue'[i], Len(tree))
  BY <1>5, QueueType
<1>7. misled' \in BOOLEAN
  BY <1>1 DEF Misattributed
<1> HIDE DEF matched, msg
<1>8. TypeInv'
  BY <1>1, <1>3, <1>4, <1>6, <1>7 DEF IInv, TypeInv
<1>9. TrackedInv'
  BY <1>1 DEF IInv, TrackedInv, StatusOf
<1> QED
  BY <1>8, <1>9 DEF IInv

\* What is left of the orders tracked when those like o are forgotten.
LEMMA UntrackedIsTracked == \A o : Untracked(o) \subseteq pendings
BY DEF Untracked

\* A fill found in the trade history is queued.
LEMMA RecoverStep ==
  ASSUME IInv, NEW o \in OrderIds, RecoverFill(o)
  PROVE  IInv'
<1> DEFINE same == pendings \ Untracked(o)
           matched == IF same # {} THEN {Earliest(same)} ELSE MatchingPending(o)
           m == CHOOSE p \in matched : TRUE
<1>1. /\ pc = "reconcile" /\ work' = work \ {o} /\ stale' = stale \cap pendings'
      /\ misled' = (misled \/ Misattributed(o, matched))
      /\ IF matched = {} THEN UNCHANGED <<fillQueue, pendings>>
         ELSE /\ fillQueue' = Append(fillQueue, FillOf(m, Recovered(o), orders[o].price))
              /\ pendings' = Untracked(m)
      /\ UNCHANGED <<orders, feed, tree, reconcileDue, cooldowns, pc, openSeen>>
  BY DEF RecoverFill, exchange
<1>2. /\ o \in 1..Len(orders) /\ orders[o] \in OrderType /\ pendings \subseteq 1..Len(orders)
      /\ Len(orders) \in Nat
  BY Sizes DEF IInv, TypeInv
<1>3. matched \subseteq pendings
  <2>1. CASE same = {}
    BY <2>1, MatchedIsTracked
  <2>2. CASE same # {}
    <3>1. ASSUME NEW q \in same PROVE q \in Nat /\ q \in pendings
      <4>1. q \in pendings
        OBVIOUS
      <4> QED
        BY <1>2, <4>1
    <3>2. matched = {Earliest(same)}
      BY <2>2
    <3> HIDE DEF same, matched
    <3>3. Earliest(same) \in same
      BY <2>2, <3>1, EarliestIsFirst
    <3> QED
      BY <3>1, <3>2, <3>3
  <2> QED
    BY <2>1, <2>2
<1>4. misled' \in BOOLEAN
  BY <1>1 DEF Misattributed
<1>5. Recovered(o) \in Nat /\ orders[o].price \in Nat
  BY <1>2 DEF Recovered, OrderType
<1> HIDE DEF matched
<1>6. fillQueue' = fillQueue \/ \E x, q, price : Queues(x, q, price)
  <2>1. CASE matched = {}
    BY <1>1, <2>1
  <2>2. CASE matched # {}
    <3>1. m \in pendings
      <4>1. m \in matched
        BY <2>2
      <4> QED
        BY <1>3, <4>1
    <3> HIDE DEF m
    <3>2. Queues(m, Recovered(o), orders[o].price)
      BY <1>1, <1>5, <2>2, <3>1 DEF Queues
    <3> QED
      BY <3>2
  <2> QED
    BY <2>1, <2>2
<1>7. fillQueue' \in Seq(FillType) /\ \A i \in 1..Len(fillQueue') : OfNode(fillQueue'[i], Len(tree))
  BY <1>6, QueueType
<1>8. pendings' \subseteq pendings
  BY <1>1, UntrackedIsTracked
<1>9. TypeInv'
  <2>1. stale' \subseteq pendings' /\ work' \subseteq Nat
    BY <1>1 DEF IInv, TypeInv
  <2> QED
    BY <1>1, <1>4, <1>7, <1>8, <2>1 DEF IInv, TypeInv
<1>10. TrackedInv'
  BY <1>1, <1>8 DEF IInv, TrackedInv, StatusOf
<1> QED
  BY <1>9, <1>10 DEF IInv

\* An order that is missing and has no trades is taken as cancelled.
LEMMA TakeAsCancelledStep ==
  ASSUME IInv, NEW o \in OrderIds, TakeAsCancelled(o)
  PROVE  IInv'
<1> DEFINE n == orders[o].node
<1>1. /\ pc = "reconcile" /\ work' = work \ {o} /\ stale' = stale \cap pendings'
      /\ pendings' = Untracked(o)
      /\ UNCHANGED <<orders, feed, fillQueue, reconcileDue, cooldowns, pc, openSeen, misled>>
      /\ tree' = IF orders[o].kind = "rotation_entry" THEN cancel_planned_node(tree, n)
                 ELSE SetStatus(tree, n, "open")
  BY DEF TakeAsCancelled, exchange
<1>2. /\ o \in 1..Len(orders) /\ n \in 1..Len(tree) /\ GoodTree(tree)
      /\ orders[o].kind \in Kinds
      /\ pendings \subseteq 1..Len(orders)
      /\ \A p \in pendings : orders[p].node \in 1..Len(tree) /\ orders[p].kind \in Kinds
  BY Sizes DEF IInv, TypeInv, OrderType
<1>3. /\ GoodTree(tree') /\ Len(tree') = Len(tree)
      /\ \A m \in 1..Len(tree) : m # n => tree'[m].status = tree[m].status
      /\ orders[o].kind = "rotation_entry" =>
           tree'[n].status = IF tree[n].status = "planned" THEN "cancelled" ELSE tree[n].status
      /\ orders[o].kind # "rotation_entry" => tree'[n].status = "open"
  <2> HIDE DEF n
  <2>1. CASE orders[o].kind = "rotation_entry"
    <3>1. Sets(tree, tree', n, IF tree[n].status = "planned" THEN "cancelled"
                               ELSE tree[n].status)
      BY <1>1, <1>2, <2>1, CancelSets
    <3> QED
      BY <1>2, <2>1, <3>1 DEF Sets
  <2>2. CASE orders[o].kind # "rotation_entry"
    <3>1. Sets(tree, tree', n, "open")
      BY <1>1, <1>2, <2>2, SetStatusSets DEF Statuses
    <3> QED
      BY <1>2, <2>2, <3>1 DEF Sets
  <2> QED
    BY <2>1, <2>2
<1>4. pendings' \subseteq pendings /\ stale' \subseteq pendings'
  BY <1>1, UntrackedIsTracked
<1>5. TypeInv'
  <2>1. /\ GoodOrders(orders', Len(tree)) /\ KeepsOrders(orders, orders')
        /\ pendings' \subseteq 1..Len(orders') /\ cooldowns' \subseteq Pairs
        /\ reconcileDue' \in BOOLEAN /\ pc' \in Phases /\ work' \subseteq Nat
        /\ openSeen' \subseteq 1..Len(orders')
    BY <1>1, <1>4, Sizes DEF IInv, TypeInv
  <2> QED
    BY <1>1, <1>3, <1>4, <2>1, TypeFrame DEF IInv
<1>6. TrackedInv'
  <2>1. \A p \in pendings' : \/ tree'[orders[p].node].status = StatusOf(p)
                             \/ tree'[orders[p].node].status \notin {"cancelled", "planned"}
    <3> SUFFICES ASSUME NEW p \in pendings'
                 PROVE  \/ tree'[orders[p].node].status = StatusOf(p)
                        \/ tree'[orders[p].node].status \notin {"cancelled", "planned"}
      OBVIOUS
    <3>1. p \in pendings /\ ClientId(p) # ClientId(o)
      BY <1>1 DEF Untracked
    <3>2. CASE orders[p].node # n
      BY <1>2, <1>3, <3>1, <3>2 DEF StatusOf
    <3>3. CASE orders[p].node = n /\ orders[o].kind = "rotation_entry"
      <4>1. orders[p].kind = "rotation_exit"
        BY <1>2, <3>1, <3>3 DEF ClientId, Kinds
      <4>2. tree[n].status # "planned"
        BY <3>1, <3>3, <4>1 DEF IInv, TrackedInv, StatusOf
      <4> QED
        BY <1>3, <3>3, <4>2 DEF StatusOf
    <3>4. CASE orders[p].node = n /\ orders[o].kind # "rotation_entry"
      BY <1>3, <3>4
    <3> QED
      BY <3>2, <3>3, <3>4
  <2> QED
    BY <1>1, <1>4, <2>1, Sizes, TrackedFrame DEF IInv
<1> QED
  BY <1>5, <1>6 DEF IInv

\* A status set other than cancelled and planned breaks nothing.
LEMMA StatusStep ==
  ASSUME IInv, NEW n \in 1..Len(tree), NEW status,
         status \notin {"cancelled", "planned"}, Sets(tree, tree', n, status),
         pc' # "entries", UNCHANGED <<orders, pendings>>
  PROVE  GoodTree(tree') /\ Len(tree') = Len(tree) /\ TrackedInv'
<1>1. \A o \in pendings' : \/ tree'[orders[o].node].status = StatusOf(o)
                           \/ tree'[orders[o].node].status \notin {"cancelled", "planned"}
  <2> SUFFICES ASSUME NEW o \in pendings'
               PROVE  \/ tree'[orders[o].node].status = StatusOf(o)
                      \/ tree'[orders[o].node].status \notin {"cancelled", "planned"}
    OBVIOUS
  <2>1. o \in 1..Len(orders)
    BY DEF IInv, TypeInv
  <2>2. orders[o].node \in 1..Len(tree)
    BY <2>1, Sizes DEF IInv
  <2> QED
    BY <2>2 DEF Sets, StatusOf
<1>2. KeepsOrders(orders, orders')
  BY Sizes DEF IInv
<1> QED
  BY <1>1, <1>2, TrackedFrame DEF Sets

\* run_once up to the tree.
LEMMA ReconcileStep == IInv /\ Reconcile => IInv'
<1> SUFFICES ASSUME IInv, Reconcile PROVE IInv'
  OBVIOUS
<1>1. /\ openSeen \subseteq 1..Len(orders) /\ work \subseteq Nat /\ reconcileDue \in BOOLEAN
      /\ pendings \subseteq 1..Len(orders) /\ OrderIds = 1..Len(orders) /\ Len(orders) \in Nat
      /\ {"idle", "fetchOrders", "fetchTrades", "reconcile", "ready", "effects", "expiry"}
           \subseteq Phases
  BY Sizes DEF IInv, TypeInv, Phases
<1>2. CASE WakeUp
  BY <1>1, <1>2, ControlStep DEF WakeUp, exchange, bot
<1>3. CASE FetchOpenOrders
  <2>1. OpenOrders \subseteq 1..Len(orders)
    BY <1>1 DEF OpenOrders
  <2> QED
    BY <1>1, <1>3, <2>1, ControlStep DEF FetchOpenOrders, exchange, bot
<1>4. CASE FetchTradeHistory
  <2>1. pendings \ openSeen \subseteq Nat
    <3> SUFFICES ASSUME NEW o \in pendings PROVE o \in Nat
      OBVIOUS
    <3> QED
      BY <1>1
  <2> QED
    BY <1>1, <1>4, <2>1, ControlStep DEF FetchTradeHistory, exchange, bot
<1>5. CASE FetchFails
  BY <1>1, <1>5, ControlStep DEF FetchFails, exchange, bot
<1>6. CASE EndReconcile
  BY <1>1, <1>6, ControlStep DEF EndReconcile, exchange, bot
<1>7. CASE RunCycle
  <2>1. /\ Keeps(tree, tree') /\ GoodOrders(orders', Len(tree)) /\ KeepsOrders(orders, orders')
        /\ UNCHANGED <<feed, fillQueue, misled>> /\ pc' = "effects" /\ reconcileDue' \in BOOLEAN
        /\ work' \subseteq Nat /\ openSeen' \subseteq 1..Len(orders') /\ cooldowns' \subseteq Pairs
    BY <1>1, <1>7, Sizes DEF RunCycle, exchange, Keeps, IInv, TypeInv
  <2>2. pendings' \subseteq pendings /\ stale' \subseteq pendings'
    BY <1>7 DEF RunCycle
  <2> QED
    BY <1>1, <2>1, <2>2, QuietStep
<1>8. CASE CycleFails
  BY <1>1, <1>8, ControlStep DEF CycleFails, exchange, bot
<1>9. CASE PruneOrphanRoot
  <2>1. /\ tree' = SetStatus(tree, Root, "closed") /\ pc' = pc /\ pc = "effects"
        /\ UNCHANGED <<orders, feed, pendings, stale, fillQueue, reconcileDue, cooldowns,
                       work, openSeen, misled>>
    BY <1>9 DEF PruneOrphanRoot, exchange, control
  <2>2. Root \in 1..Len(tree) /\ GoodTree(tree)
    BY Sizes DEF Root, IInv, TypeInv
  <2>3. Sets(tree, tree', Root, "closed")
    BY <2>1, <2>2, SetStatusSets DEF Statuses
  <2>4. GoodTree(tree') /\ Len(tree') = Len(tree) /\ TrackedInv'
    BY <2>1, <2>2, <2>3, StatusStep
  <2>5. TypeInv'
    BY <2>1, <2>4 DEF IInv, TypeInv
  <2> QED
    BY <2>4, <2>5 DEF IInv
<1> QED
  BY <1>2, <1>3, <1>4, <1>5, <1>6, <1>7, <1>8, <1>9, RecoverStep, TakeAsCancelledStep
  DEF Reconcile

\* A node whose orders are forgotten may be cancelled.
LEMMA CancelStep ==
  ASSUME IInv, NEW n \in 1..Len(tree), tree' = cancel_planned_node(tree, n),
         GoodOrders(orders', Len(tree)), KeepsOrders(orders, orders'),
         pendings' = pendings \ TrackedFor(n), stale' \subseteq pendings',
         cooldowns' \subseteq Pairs, pc' \in Phases, pc' # "entries", work' \subseteq Nat,
         UNCHANGED <<feed, fillQueue, misled, reconcileDue, openSeen>>
  PROVE  IInv'
<1>1. GoodTree(tree) /\ pendings \subseteq 1..Len(orders) /\ openSeen \subseteq 1..Len(orders)
      /\ reconcileDue \in BOOLEAN
  BY DEF IInv, TypeInv
<1>2. Sets(tree, tree', n, IF tree[n].status = "planned" THEN "cancelled" ELSE tree[n].status)
  BY <1>1, CancelSets
<1>3. Len(orders) \in Nat /\ Len(orders') \in Nat /\ Len(orders') >= Len(orders)
  BY Sizes DEF IInv, KeepsOrders
<1>4. pendings' \subseteq 1..Len(orders')
  <2> SUFFICES ASSUME NEW o \in pendings PROVE o \in 1..Len(orders')
    OBVIOUS
  <2>1. o \in 1..Len(orders)
    BY <1>1
  <2> QED
    BY <1>3, <2>1
<1>5. openSeen' \subseteq 1..Len(orders')
  BY <1>1, <1>3
<1>6. TypeInv'
  BY <1>1, <1>2, <1>4, <1>5, TypeFrame DEF Sets, IInv
<1>7. \A o \in pendings' : tree'[orders[o].node].status = StatusOf(o)
  <2> SUFFICES ASSUME NEW o \in pendings' PROVE tree'[orders[o].node].status = StatusOf(o)
    OBVIOUS
  <2>1. o \in 1..Len(orders) /\ orders[o].node # n
    BY <1>1 DEF TrackedFor
  <2>2. orders[o].node \in 1..Len(tree)
    BY <2>1, Sizes DEF IInv
  <2> QED
    BY <1>2, <2>1, <2>2 DEF Sets, StatusOf
<1> QED
  BY <1>6, <1>7, TrackedFrame DEF IInv

\* _handle_rotation_expiry.
LEMMA ExpiryStep == IInv /\ Expiry => IInv'
<1> SUFFICES ASSUME IInv, Expiry PROVE IInv'
  OBVIOUS
<1>1. /\ openSeen \subseteq 1..Len(orders) /\ work \subseteq Nat /\ reconcileDue \in BOOLEAN
      /\ GoodTree(tree) /\ Keeps(tree, tree) /\ Len(tree) \in Nat /\ DOMAIN tree = 1..Len(tree)
      /\ GoodOrders(orders, Len(tree)) /\ KeepsOrders(orders, orders)
      /\ stale \subseteq pendings /\ cooldowns \subseteq Pairs
      /\ "expiry" \in Phases /\ "roots" \in Phases
  BY Sizes DEF IInv, TypeInv, Phases, Keeps
<1>2. CASE BeginPlanner
  <2>1. expired_nodes(tree) \subseteq Nat
    BY <1>1 DEF expired_nodes, live_nodes
  <2> QED
    BY <1>1, <1>2, <2>1, ControlStep DEF BeginPlanner, exchange, bot
<1>3. CASE EndExpiry
  BY <1>1, <1>3, ControlStep DEF EndExpiry, exchange, bot
<1>4. ASSUME NEW n \in 1..Len(tree), ExpiresNow(n), Expired(n)
      PROVE  /\ pc' = "expiry" /\ work' \subseteq Nat /\ stale' \subseteq pendings'
             /\ cooldowns' \subseteq Pairs
             /\ UNCHANGED <<feed, fillQueue, misled, reconcileDue, openSeen>>
  BY <1>1, <1>4 DEF ExpiresNow, Expired
<1>5. ASSUME NEW n \in 1..Len(tree), ExpirePlanned(n) PROVE IInv'
  <2>1. /\ ExpiresNow(n) /\ Expired(n) /\ tree' = cancel_planned_node(tree, n)
        /\ pendings' = pendings \ TrackedFor(n)
        /\ orders' = orders \/ orders' \in AfterCancel(Earliest(TrackedFor(n)))
    BY <1>5 DEF ExpirePlanned
  <2>2. GoodOrders(orders', Len(tree)) /\ KeepsOrders(orders, orders')
    BY <1>1, <2>1, CancelledOrders DEF IInv
  <2> QED
    BY <1>1, <1>4, <2>1, <2>2, CancelStep
<1>6. ASSUME NEW n \in 1..Len(tree), ExpireOpen(n) PROVE IInv'
  <2>1. ExpiresNow(n) /\ Expired(n) /\ CloseNode(n, tree, orders, pendings)
    BY <1>6 DEF ExpireOpen
  <2> QED
    BY <1>1, <1>4, <2>1, ClosingStep
<1>7. ASSUME NEW n \in 1..Len(tree), ExpireRoot(n) PROVE IInv'
  <2>1. ExpiresNow(n) /\ n = Root /\ Expired(n)
    BY <1>7 DEF ExpireRoot
  <2>2. tree[n] \in NodeType
    BY Sizes DEF IInv
  <2>3. ASSUME NEW d \in {"none", "ahead"}, tree' = [tree EXCEPT ![n].deadline = d],
               UNCHANGED <<orders, pendings>>
        PROVE  IInv'
    <3> DEFINE e == [tree[n] EXCEPT !.deadline = d]
    <3>1. /\ e \in NodeType /\ e.parent = tree[n].parent /\ e.pair = tree[n].pair
          /\ e.status = tree[n].status /\ tree' = [tree EXCEPT ![n] = e]
      BY <2>2, <2>3 DEF NodeType, Deadlines
    <3> HIDE DEF e
    <3>2. Keeps(tree, tree')
      BY <1>1, <2>1, <3>1, PutNode DEF Keeps, GoodTree
    <3> QED
      BY <1>1, <1>4, <2>1, <2>3, <3>2, QuietStep
  <2>4. ASSUME RootPair # NoPair,
               CloseNode(n, [tree EXCEPT ![n].pair = RootPair], orders, pendings)
        PROVE  IInv'
    <3> DEFINE e == [tree[n] EXCEPT !.pair = RootPair]
               t == [tree EXCEPT ![n].pair = RootPair]
    <3>1. /\ e \in NodeType /\ e.parent = tree[n].parent /\ e.pair \in Pairs
          /\ e.status = tree[n].status /\ t = [tree EXCEPT ![n] = e]
      BY <2>2, <2>4, RuntimeAssumption DEF NodeType
    <3> HIDE DEF e, t
    <3>2. Keeps(tree, t)
      BY <1>1, <2>1, <3>1, PutNode DEF Keeps, GoodTree
    <3>3. CloseNode(n, t, orders, pendings)
      BY <2>4 DEF t
    <3> QED
      BY <1>1, <1>4, <2>1, <3>2, <3>3, ClosingStep
  <2> QED
    BY <1>7, <2>3, <2>4 DEF ExpireRoot
<1> QED
  BY <1>1, <1>2, <1>3, <1>5, <1>6, <1>7 DEF Expiry

\* _evaluate_root_deadlines.
LEMMA RootsStep == IInv /\ Roots => IInv'
<1> SUFFICES ASSUME IInv, Roots PROVE IInv'
  OBVIOUS
<1>1. /\ openSeen \subseteq 1..Len(orders) /\ work \subseteq Nat /\ reconcileDue \in BOOLEAN
      /\ GoodTree(tree) /\ Keeps(tree, tree) /\ Root \in 1..Len(tree)
      /\ GoodOrders(orders, Len(tree)) /\ KeepsOrders(orders, orders)
      /\ stale \subseteq pendings /\ cooldowns \subseteq Pairs /\ tree[Root] \in NodeType
      /\ "settle" \in Phases /\ pendings \subseteq 1..Len(orders)
  BY Sizes DEF IInv, TypeInv, Phases, Keeps, Root
<1>2. ASSUME RootsDone
      PROVE  /\ pc' = "settle" /\ work' \subseteq Nat /\ cooldowns' \subseteq Pairs
             /\ openSeen' \subseteq 1..Len(orders)
             /\ UNCHANGED <<feed, fillQueue, reconcileDue, cooldowns, openSeen, misled>>
  BY <1>1, <1>2 DEF RootsDone
<1>3. CASE SetRootDeadline
  <2> DEFINE a == [tree[Root] EXCEPT !.deadline = "ahead"]
             e == [tree[Root] EXCEPT !.deadline = "ahead", !.pair = RootPair]
  <2>1. /\ RootsDone /\ RootPair # NoPair /\ UNCHANGED <<orders, pendings, stale>>
        /\ tree' = [tree EXCEPT ![Root] = e]
    BY <1>3 DEF SetRootDeadline
  <2>2. /\ e \in NodeType /\ e.parent = tree[Root].parent /\ e.pair \in Pairs
        /\ e.status = tree[Root].status
    <3>1. e = [a EXCEPT !.pair = RootPair] /\ RootPair \in Pairs
      BY <2>1, RuntimeAssumption
    <3>2. a \in NodeType /\ a.parent = tree[Root].parent /\ a.status = tree[Root].status
      BY <1>1 DEF NodeType, Deadlines
    <3> HIDE DEF a, e
    <3> QED
      BY <3>1, <3>2 DEF NodeType
  <2> HIDE DEF e
  <2>3. Keeps(tree, tree')
    BY <1>1, <2>1, <2>2, PutNode DEF Keeps, GoodTree
  <2> QED
    BY <1>1, <1>2, <2>1, <2>3, QuietStep
<1>4. CASE RecoverRoot
  <2> DEFINE a == [tree[Root] EXCEPT !.status = "open"]
             e == [tree[Root] EXCEPT !.status = "open", !.deadline = "none"]
  <2>1. /\ RootsDone /\ UNCHANGED <<orders, pendings, stale>>
        /\ tree' = [tree EXCEPT ![Root] = e]
    BY <1>4 DEF RecoverRoot
  <2>2. /\ e \in NodeType /\ e.parent = tree[Root].parent /\ e.pair = tree[Root].pair
        /\ e.status = "open"
    <3>1. e = [a EXCEPT !.deadline = "none"]
      OBVIOUS
    <3>2. /\ a \in NodeType /\ a.parent = tree[Root].parent /\ a.pair = tree[Root].pair
          /\ a.status = "open"
      BY <1>1 DEF NodeType, Statuses
    <3> HIDE DEF a, e
    <3> QED
      BY <3>1, <3>2 DEF NodeType, Deadlines
  <2> HIDE DEF e
  <2>3. Sets(tree, tree', Root, "open")
    BY <1>1, <2>1, <2>2, PutNode DEF Sets, GoodTree
  <2>4. GoodTree(tree') /\ Len(tree') = Len(tree) /\ TrackedInv'
    BY <1>1, <1>2, <2>1, <2>3, StatusStep
  <2>5. TypeInv'
    BY <1>1, <1>2, <2>1, <2>4, TypeFrame DEF IInv
  <2> QED
    BY <2>4, <2>5 DEF IInv
<1>5. CASE CloseExhaustedRoot
  <2>1. RootsDone /\ CloseNode(Root, tree, orders, pendings) /\ stale' = stale
    BY <1>5 DEF CloseExhaustedRoot
  <2>2. Closes(Root, tree, orders, pendings)
    BY <1>1, <2>1, CloseNodeCloses
  <2>3. stale' \subseteq pendings'
    BY <1>1, <2>1, <2>2 DEF Closes
  <2> QED
    BY <1>1, <1>2, <2>1, <2>3, ClosingStep
<1>6. CASE LeaveRoot
  <2>1. RootsDone /\ UNCHANGED <<orders, tree, pendings, stale>>
    BY <1>6 DEF LeaveRoot
  <2> QED
    BY <1>1, <1>2, <2>1, ControlStep
<1> QED
  BY <1>3, <1>4, <1>5, <1>6 DEF Roots

\* _settle_rotation_fills.
LEMMA FillsStep == IInv /\ Fills => IInv'
<1> SUFFICES ASSUME IInv, Fills PROVE IInv'
  OBVIOUS
<1>1. CASE Settle
  <2> DEFINE fill == Head(fillQueue)
  <2>1. /\ pc = "settle" /\ fillQueue # <<>> /\ fillQueue' = Tail(fillQueue)
        /\ tree' = IF fill.kind = "rotation_entry" THEN OpenedBy(fill) ELSE ClosedBy(fill)
        /\ misled' = (misled \/ tree[fill.node].status # Awaited[fill.kind])
        /\ UNCHANGED <<orders, feed, pendings, stale, reconcileDue, cooldowns, pc, work, openSeen>>
    BY <1>1 DEF Settle, exchange, control
  <2>2. /\ fillQueue \in Seq(FillType) /\ Len(fillQueue) \in Nat /\ GoodTree(tree)
        /\ \A i \in 1..Len(fillQueue) : OfNode(fillQueue[i], Len(tree))
    BY DEF IInv, TypeInv
  <2>3. /\ fill \in FillType /\ fill = fillQueue[1] /\ Len(fillQueue) >= 1
        /\ fillQueue' \in Seq(FillType) /\ Len(fillQueue') = Len(fillQueue) - 1
        /\ \A i \in 1..Len(fillQueue') : fillQueue'[i] = fillQueue[i + 1]
    BY <2>1, <2>2, HeadTailProperties
  <2>4. \A i \in 1..Len(fillQueue') : OfNode(fillQueue'[i], Len(tree))
    BY <2>2, <2>3
  <2>5. fill.node \in 1..Len(tree)
    <3>1. OfNode(fillQueue[1], Len(tree))
      BY <2>2, <2>3
    <3> QED
      BY <2>3, <3>1 DEF OfNode
  <2>6. misled' \in BOOLEAN
    BY <2>1
  <2> HIDE DEF fill
  <2>7. \E status \in {"open", "closed"} : Sets(tree, tree', fill.node, status)
    BY <2>1, <2>2, <2>3, <2>5, OpenedSets, ClosedSets
  <2>8. GoodTree(tree') /\ Len(tree') = Len(tree) /\ TrackedInv'
    BY <2>1, <2>5, <2>7, StatusStep
  <2>9. TypeInv'
    BY <2>1, <2>3, <2>4, <2>6, <2>8 DEF IInv, TypeInv
  <2> QED
    BY <2>8, <2>9 DEF IInv
<1>2. CASE EndSettle
  <2>1. stale \subseteq Nat
    <3> SUFFICES ASSUME NEW o \in stale PROVE o \in Nat
      OBVIOUS
    <3>1. o \in 1..Len(orders) /\ Len(orders) \in Nat
      BY Sizes DEF IInv, TypeInv
    <3> QED
      BY <3>1
  <2> QED
    BY <1>2, <2>1, ControlStep DEF EndSettle, exchange, bot, IInv, TypeInv, Phases
<1> QED
  BY <1>1, <1>2 DEF Fills

\* _check_rotation_fill_timeouts.
LEMMA TimeoutsStep == IInv /\ Timeouts => IInv'
<1> SUFFICES ASSUME IInv, Timeouts PROVE IInv'
  OBVIOUS
<1>1. /\ openSeen \subseteq 1..Len(orders) /\ work \subseteq Nat /\ reconcileDue \in BOOLEAN
      /\ Keeps(tree, tree) /\ DOMAIN tree = 1..Len(tree) /\ Len(tree) \in Nat
      /\ OrderIds = 1..Len(orders) /\ cooldowns \subseteq Pairs /\ GoodTree(tree)
      /\ "timeouts" \in Phases /\ "monitor" \in Phases
  BY Sizes DEF IInv, TypeInv, Phases, Keeps
<1>2. ASSUME NEW o \in OrderIds, TimesOut(o), TimedOut(o)
      PROVE  /\ pc' = "timeouts" /\ work' \subseteq Nat /\ stale' \subseteq pendings'
             /\ orders[o].node \in 1..Len(tree)
             /\ UNCHANGED <<feed, fillQueue, misled, reconcileDue, openSeen>>
  BY <1>1, <1>2, Sizes DEF TimesOut, TimedOut, IInv
<1>3. ASSUME NEW o \in OrderIds, CancelStaleEntry(o) PROVE IInv'
  <2> DEFINE n == orders[o].node
  <2>1. /\ TimesOut(o) /\ TimedOut(o) /\ orders[o].kind = "rotation_entry"
        /\ orders' \in AfterCancel(o) /\ pendings' = pendings \ TrackedFor(n)
        /\ tree' = cancel_planned_node(tree, n)
        /\ cooldowns' = cooldowns \cup {PairOf(o)}
    BY <1>3 DEF CancelStaleEntry
  <2>2. n \in 1..Len(tree) /\ n # Root
    BY <1>1, <1>2, <2>1 DEF IInv, TypeInv, GoodOrders, OfNode
  <2>3. PairOf(o) \in Pairs
    BY <1>1, <2>2 DEF PairOf, GoodTree
  <2>4. cooldowns' \subseteq Pairs
    BY <1>1, <2>1, <2>3
  <2>5. GoodOrders(orders', Len(tree)) /\ KeepsOrders(orders, orders')
    BY <2>1, CancelledOrders DEF IInv
  <2> HIDE DEF n
  <2> QED
    BY <1>1, <1>2, <2>1, <2>2, <2>4, <2>5, CancelStep
<1>4. ASSUME NEW o \in OrderIds, EscalateStaleExit(o) PROVE IInv'
  <2> DEFINE n == orders[o].node
             tracked == pendings \ TrackedFor(n)
  <2>1. TimesOut(o) /\ TimedOut(o) /\ cooldowns' = cooldowns
    BY <1>4 DEF EscalateStaleExit
  <2>2. PICK os \in AfterCancel(o) : CloseNode(n, tree, os, tracked)
    BY <1>4 DEF EscalateStaleExit
  <2>3. /\ GoodOrders(os, Len(tree)) /\ KeepsOrders(orders, os) /\ Len(os) = Len(orders)
        /\ n \in 1..Len(tree) /\ tracked \subseteq pendings
    BY <1>2, <2>1, CancelledOrders DEF IInv
  <2> HIDE DEF n, tracked
  <2> QED
    BY <1>1, <1>2, <2>1, <2>2, <2>3, ClosingStep
<1>5. CASE EndTimeouts
  <2>1. work' \subseteq Nat /\ pc' = "monitor" /\ UNCHANGED <<exchange, bot, openSeen, misled>>
    BY <1>1, <1>5 DEF EndTimeouts
  <2> QED
    BY <1>1, <2>1, ControlStep DEF exchange, bot
<1> QED
  BY <1>3, <1>4, <1>5 DEF Timeouts

\* _monitor_rotation_prices.
LEMMA MonitorStep == IInv /\ Monitor => IInv'
<1> SUFFICES ASSUME IInv, Monitor PROVE IInv'
  OBVIOUS
<1>1. /\ openSeen \subseteq 1..Len(orders) /\ work \subseteq Nat /\ reconcileDue \in BOOLEAN
      /\ Keeps(tree, tree) /\ DOMAIN tree = 1..Len(tree) /\ Len(tree) \in Nat
      /\ GoodOrders(orders, Len(tree)) /\ KeepsOrders(orders, orders)
      /\ stale \subseteq pendings /\ cooldowns \subseteq Pairs
      /\ "monitor" \in Phases /\ "plan" \in Phases
  BY Sizes DEF IInv, TypeInv, Phases, Keeps
<1>2. ASSUME NEW n \in DOMAIN tree, TriggerExit(n) PROVE IInv'
  <2>1. /\ pc = "monitor" /\ CloseNode(n, tree, orders, pendings) /\ work' = work \ {n}
        /\ UNCHANGED <<feed, stale, fillQueue, reconcileDue, cooldowns, pc, openSeen, misled>>
    BY <1>2 DEF TriggerExit
  <2>2. Closes(n, tree, orders, pendings)
    BY <1>1, <2>1, CloseNodeCloses DEF Keeps
  <2>3. stale' \subseteq pendings' /\ work' \subseteq Nat
    BY <1>1, <2>1, <2>2 DEF Closes
  <2> QED
    BY <1>1, <2>1, <2>3, ClosingStep
<1>3. CASE EndMonitor
  <2>1. leaf_nodes(tree) \subseteq Nat
    BY <1>1 DEF leaf_nodes, live_nodes
  <2>2. work' \subseteq Nat /\ pc' = "plan" /\ UNCHANGED <<exchange, bot, openSeen, misled>>
    BY <1>3, <2>1 DEF EndMonitor
  <2> QED
    BY <1>1, <2>2, ControlStep DEF exchange, bot
<1> QED
  BY <1>2, <1>3 DEF Monitor

\* Children are typed, planned, and entered through one of the pairs.
LEMMA ChildIsPlanned ==
  ASSUME NEW n \in 1..Len(tree), tree[n] \in NodeType, NEW pair \in Pairs, NEW quantity \in Nat
  PROVE  LET c == Child(tree, n, pair, quantity)
         IN c \in NodeType /\ c.parent = n /\ c.pair = pair /\ c.status = "planned"
<1>1. /\ tree[n].depth + 1 \in Nat /\ (tree[n].deadline # "none") \in BOOLEAN
      /\ pair \in Pairs \cup {NoPair} /\ "planned" \in Statuses /\ "ahead" \in Deadlines
  BY DEF NodeType, Statuses, Deadlines
<1> QED
  BY <1>1 DEF Child, NodeType

\* The children planned under a leaf come after the other nodes, whose status stays.
LEMMA PlanLeafExtends ==
  ASSUME IInv, NEW n \in DOMAIN tree, PlanLeaf(n)
  PROVE  /\ GoodTree(tree') /\ 1..Len(tree) \subseteq 1..Len(tree')
         /\ \A m \in 1..Len(tree) : tree'[m].status = tree[m].status
<1>2. /\ DOMAIN tree = 1..Len(tree) /\ Len(tree) \in Nat /\ GoodTree(tree)
      /\ tree \in Seq(NodeType) /\ \A m \in 1..Len(tree) : tree[m] \in NodeType
  BY Sizes DEF IInv, TypeInv, GoodTree
<1> DEFINE Spread(a) == [tree EXCEPT ![n] =
               [@ EXCEPT !.free = Monus(tree[n].free, Shares(a)),
                         !.reserved = tree[n].reserved + Shares(a)]]
           Planned(a) == [i \in DOMAIN a |-> Child(tree, n, a[i].pair, a[i].qty)]
<1>1. PICK a \in Allocations(n) : tree' = Spread(a) \o Planned(a)
  BY DEF PlanLeaf
<1>3. /\ Shares(a) \in 0..tree[n].free /\ tree[n] \in NodeType
  BY <1>2 DEF Allocations
<1>4. PICK k \in 1..MaxChildren : a \in [1..k -> [pair : Pairs, qty : Lots]]
  <2> DEFINE held == {tree[m].pair : m \in live_nodes(tree)}
  <2>1. a \in UNION {[1..i -> [pair : Pairs \ held, qty : Lots]] : i \in 1..MaxChildren}
    BY DEF Allocations
  <2> HIDE DEF held
  <2>2. PICK i \in 1..MaxChildren : a \in [1..i -> [pair : Pairs \ held, qty : Lots]]
    BY <2>1
  <2>3. a \in [1..i -> [pair : Pairs, qty : Lots]]
    BY <2>2
  <2> QED
    BY <2>3
<1> DEFINE u == Spread(a)
           c == Planned(a)
<1>5. GoodTree(u) /\ Len(u) = Len(tree) /\ \A m \in 1..Len(tree) : u[m].status = tree[m].status
  <2> DEFINE spread == Monus(tree[n].free, Shares(a))
             kept == tree[n].reserved + Shares(a)
             f == [tree[n] EXCEPT !.free = spread]
             e == [tree[n] EXCEPT !.free = spread, !.reserved = kept]
  <2>1. spread \in Nat /\ kept \in Nat
    <3>1. tree[n].free \in Nat /\ tree[n].reserved \in Nat
      BY <1>3 DEF NodeType
    <3> QED
      BY <1>3, <3>1 DEF Monus
  <2>2. u = [tree EXCEPT ![n] = e]
    OBVIOUS
  <2> HIDE DEF spread, kept, u
  <2>3. e = [f EXCEPT !.reserved = kept]
    OBVIOUS
  <2>4. /\ f \in NodeType /\ f.parent = tree[n].parent /\ f.pair = tree[n].pair
        /\ f.status = tree[n].status
    BY <1>3, <2>1 DEF NodeType
  <2> HIDE DEF f, e
  <2>5. /\ e \in NodeType /\ e.parent = tree[n].parent /\ e.pair = tree[n].pair
        /\ e.status = tree[n].status
    BY <2>1, <2>3, <2>4 DEF NodeType
  <2> QED
    BY <1>2, <2>2, <2>5, PutNode DEF GoodTree
<1>6. /\ c \in Seq(NodeType) /\ Len(c) = k /\ k \in Nat
      /\ \A i \in 1..k : c[i].parent = n /\ c[i].pair \in Pairs /\ c[i].status = "planned"
  <2>1. k \in Nat /\ DOMAIN a = 1..k
    BY <1>4, RuntimeAssumption
  <2>2. ASSUME NEW i \in 1..k
        PROVE  LET x == Child(tree, n, a[i].pair, a[i].qty)
               IN /\ x \in NodeType /\ x.parent = n /\ x.pair \in Pairs
                  /\ x.status = "planned"
    <3>1. a[i].pair \in Pairs /\ a[i].qty \in Nat
      BY <1>4, RuntimeAssumption
    <3> QED
      BY <1>2, <3>1, ChildIsPlanned
  <2>3. c = [i \in 1..k |-> Child(tree, n, a[i].pair, a[i].qty)]
    BY <2>1
  <2> HIDE DEF c
  <2>4. c \in [1..k -> NodeType]
    BY <2>2, <2>3
  <2>5. c \in Seq(NodeType) /\ Len(c) = k
    BY <2>1, <2>4
  <2> QED
    BY <2>1, <2>2, <2>3, <2>5
<1> HIDE DEF u, c
<1>7. tree' = u \o c
  BY <1>1 DEF u, c
<1>8. /\ tree' \in Seq(NodeType) /\ Len(tree') = Len(tree) + k
      /\ \A m \in 1..Len(tree') :
           tree'[m] = IF m <= Len(tree) THEN u[m] ELSE c[m - Len(tree)]
  <2>1. u \in Seq(NodeType)
    BY <1>5 DEF GoodTree
  <2>2. /\ u \o c \in Seq(NodeType) /\ Len(u \o c) = Len(u) + Len(c)
        /\ \A m \in 1..Len(u) + Len(c) :
             (u \o c)[m] = IF m <= Len(u) THEN u[m] ELSE c[m - Len(u)]
    BY <1>6, <2>1, ConcatProperties
  <2>3. Len(u) = Len(tree) /\ Len(c) = k
    BY <1>5, <1>6
  <2> QED
    BY <1>7, <2>2, <2>3
<1>9. GoodTree(tree')
  <2> SUFFICES ASSUME NEW m \in 1..Len(tree')
               PROVE  /\ tree'[m].parent \in 0..Len(tree')
                      /\ m # Root => tree'[m].pair \in Pairs
                      /\ tree'[m].status = "planned" => m # Root
    BY <1>2, <1>6, <1>8 DEF GoodTree
  <2>1. CASE m <= Len(tree)
    <3>1. m \in 1..Len(tree) /\ tree'[m] = u[m]
      BY <1>2, <1>6, <1>8, <2>1
    <3>2. /\ u[m].parent \in 0..Len(tree)
          /\ m # Root => u[m].pair \in Pairs
          /\ u[m].status = "planned" => m # Root
      BY <1>5, <3>1 DEF GoodTree
    <3>3. 0..Len(tree) \subseteq 0..Len(tree')
      BY <1>2, <1>6, <1>8
    <3> QED
      BY <3>1, <3>2, <3>3
  <2>2. CASE m > Len(tree)
    <3>1. m - Len(tree) \in 1..k /\ tree'[m] = c[m - Len(tree)] /\ m # Root
      BY <1>2, <1>6, <1>8, <2>2 DEF GoodTree, Root
    <3>2. n \in 0..Len(tree')
      BY <1>2, <1>6, <1>8
    <3> QED
      BY <1>6, <3>1, <3>2
  <2> QED
    BY <1>2, <1>6, <1>8, <2>1, <2>2
<1>10. 1..Len(tree) \subseteq 1..Len(tree')
  BY <1>2, <1>6, <1>8
<1>11. \A m \in 1..Len(tree) : tree'[m].status = tree[m].status
  <2> SUFFICES ASSUME NEW m \in 1..Len(tree) PROVE tree'[m].status = tree[m].status
    OBVIOUS
  <2>1. tree'[m] = u[m]
    BY <1>2, <1>8, <1>10
  <2> QED
    BY <1>5, <2>1
<1> QED
  BY <1>9, <1>10, <1>11

\* plan_cycle.
LEMMA PlanStep == IInv /\ Plan => IInv'
<1> SUFFICES ASSUME IInv, Plan PROVE IInv'
  OBVIOUS
<1>1. /\ DOMAIN tree = 1..Len(tree) /\ Len(tree) \in Nat /\ GoodTree(tree)
      /\ tree \in Seq(NodeType) /\ \A m \in 1..Len(tree) : tree[m] \in NodeType
  BY Sizes DEF IInv, TypeInv, GoodTree
<1>2. CASE EndPlan
  <2>1. /\ work' = {n \in DOMAIN tree : /\ tree[n].status = "planned" /\ tree[n].depth > 0
                                        /\ TrackedFor(n) = {}}
        /\ pc' = "entries" /\ UNCHANGED <<exchange, bot, openSeen, misled>>
    BY <1>2 DEF EndPlan
  <2>2. work' \subseteq Nat /\ pc' \in Phases
    BY <1>1, <2>1 DEF Phases
  <2>3. TypeInv'
    BY <2>1, <2>2 DEF exchange, bot, IInv, TypeInv
  <2>4. \A n : TrackedFor(n)' = TrackedFor(n)
    BY <2>1 DEF exchange, bot, TrackedFor
  <2>5. TrackedInv'
    BY <1>1, <2>1, <2>4 DEF exchange, bot, IInv, TrackedInv, StatusOf
  <2> QED
    BY <2>3, <2>5 DEF IInv
<1>3. ASSUME NEW n \in DOMAIN tree, PlanLeaf(n) PROVE IInv'
  <2>1. /\ pc = "plan" /\ work' = work \ {n}
        /\ UNCHANGED <<orders, feed, pendings, stale, fillQueue, reconcileDue, cooldowns, pc,
                       openSeen, misled>>
    BY <1>3 DEF PlanLeaf, exchange
  <2>2. /\ GoodTree(tree') /\ 1..Len(tree) \subseteq 1..Len(tree')
        /\ \A m \in 1..Len(tree) : tree'[m].status = tree[m].status
    BY <1>3, PlanLeafExtends
  <2>3. \A x : OfNode(x, Len(tree)) => OfNode(x, Len(tree'))
    BY <2>2 DEF OfNode
  <2>4. TypeInv'
    BY <2>1, <2>2, <2>3 DEF IInv, TypeInv, GoodOrders
  <2>5. \A o \in pendings : tree'[orders[o].node].status = StatusOf(o)
    BY <2>2, Sizes DEF StatusOf, IInv, TypeInv
  <2>6. TrackedInv'
    BY <2>1, <2>5, Sizes, TrackedFrame DEF IInv
  <2> QED
    BY <2>4, <2>6 DEF IInv
<1> QED
  BY <1>2, <1>3 DEF Plan

\* The entry order of a planned node.
LEMMA EntryOrderPlaced ==
  ASSUME IInv, NEW n \in 1..Len(tree), tree[n].status = "planned"
  PROVE  LET us == EntryOrder(n)
         IN /\ GoodOrders(us, Len(tree)) /\ KeepsOrders(orders, us)
            /\ Len(us) = Len(orders) + 1
            /\ us[Len(us)].node = n /\ us[Len(us)].kind = "rotation_entry"
<1>1. /\ GoodTree(tree) /\ tree[n] \in NodeType /\ GoodOrders(orders, Len(tree))
      /\ Len(tree) \in Nat
  BY Sizes DEF IInv, TypeInv
<1>2. n # Root /\ tree[n].pair \in Pairs
  BY <1>1 DEF GoodTree
<1>3. PriceOf[tree[n].pair] \in Nat \ {0} /\ tree[n].total \in Nat
  BY <1>1, <1>2, PairsAssumption DEF NodeType
<1>4. entry_base_quantity(tree[n]) \in Nat
  BY <1>3, NatOperations DEF entry_base_quantity
<1>5. "rotation_entry" \in Kinds /\ PriceOf[tree[n].pair] \in Nat
  BY <1>3 DEF Kinds
<1> QED
  BY <1>1, <1>2, <1>4, <1>5, PlacedOrder DEF EntryOrder

\* Visiting an entry that ends without a tracked order.
LEMMA VisitStep ==
  ASSUME IInv, NEW n \in 1..Len(tree), Visits(n), Visited(n), pendings' = pendings,
         tree' = tree \/ tree' = cancel_planned_node(tree, n),
         orders' = orders \/ orders' = EntryOrder(n),
         cooldowns' = cooldowns \/ cooldowns' = cooldowns \cup {tree[n].pair}
  PROVE  IInv'
<1>1. /\ pc = "entries" /\ n \in work /\ work' = work \ {n}
      /\ UNCHANGED <<feed, stale, fillQueue, reconcileDue, pc, openSeen, misled>>
  BY DEF Visits, Visited
<1>2. tree[n].status = "planned" /\ TrackedFor(n) = {}
  BY <1>1 DEF IInv, TrackedInv
<1>3. /\ GoodTree(tree) /\ work \subseteq Nat /\ Len(orders) \in Nat
      /\ pendings \subseteq 1..Len(orders)
      /\ openSeen \subseteq 1..Len(orders) /\ cooldowns \subseteq Pairs /\ stale \subseteq pendings
  BY Sizes DEF IInv, TypeInv
<1>4. /\ GoodTree(tree') /\ Len(tree') = Len(tree)
      /\ \A m \in 1..Len(tree) : m # n => tree'[m].status = tree[m].status
  BY <1>3, CancelSets DEF Sets
<1>5. /\ GoodOrders(orders', Len(tree)) /\ KeepsOrders(orders, orders')
  BY <1>2, Sizes, EntryOrderPlaced DEF IInv, TypeInv
<1>6. Len(orders') \in Nat /\ Len(orders') >= Len(orders)
  BY <1>5 DEF KeepsOrders
<1>7. 1..Len(orders) \subseteq 1..Len(orders')
  BY <1>3, <1>6
<1>8. tree[n].pair \in Pairs
  BY <1>2, <1>3 DEF GoodTree
<1>9. /\ pendings' \subseteq 1..Len(orders') /\ openSeen' \subseteq 1..Len(orders')
      /\ cooldowns' \subseteq Pairs /\ work' \subseteq Nat /\ stale' \subseteq pendings'
  BY <1>1, <1>3, <1>7, <1>8
<1>10. TypeInv'
  <2>1. reconcileDue' \in BOOLEAN /\ pc' \in Phases
    BY <1>1 DEF IInv, TypeInv
  <2> QED
    BY <1>1, <1>4, <1>5, <1>9, <2>1, TypeFrame DEF IInv
<1>11. ASSUME NEW o \in pendings
       PROVE  /\ orders'[o].node = orders[o].node /\ orders'[o].kind = orders[o].kind
              /\ orders[o].node # n /\ tree'[orders[o].node].status = StatusOf(o)
  <2>1. o \in 1..Len(orders) /\ orders[o].node # n
    BY <1>2, <1>3 DEF TrackedFor
  <2>2. orders[o].node \in 1..Len(tree)
    BY <2>1, Sizes DEF IInv
  <2> QED
    BY <1>4, <1>5, <2>1, <2>2 DEF KeepsOrders, StatusOf
<1>12. \A m : TrackedFor(m)' = TrackedFor(m)
  BY <1>11 DEF TrackedFor
<1>13. TrackedInv'
  <2>1. \A o \in pendings' :
          /\ StatusOf(o)' # "cancelled"
          /\ orders'[o].kind = "rotation_exit" => StatusOf(o)' # "planned"
    BY <1>11 DEF IInv, TrackedInv, StatusOf
  <2>2. ASSUME NEW m \in work'
        PROVE  m \in 1..Len(tree') /\ tree'[m].status = "planned" /\ TrackedFor(m)' = {}
    <3>1. m \in work /\ m # n
      BY <1>1
    <3>2. m \in 1..Len(tree) /\ tree[m].status = "planned" /\ TrackedFor(m) = {}
      BY <1>1, <3>1 DEF IInv, TrackedInv
    <3> QED
      BY <1>4, <1>12, <3>1, <3>2
  <2> QED
    BY <2>1, <2>2 DEF TrackedInv
<1> QED
  BY <1>10, <1>13 DEF IInv

\* _execute_rotation_entries.
LEMMA EntriesStep == IInv /\ Entries => IInv'
<1> SUFFICES ASSUME IInv, Entries PROVE IInv'
  OBVIOUS
<1>1. /\ openSeen \subseteq 1..Len(orders) /\ work \subseteq Nat /\ reconcileDue \in BOOLEAN
      /\ DOMAIN tree = 1..Len(tree) /\ "idle" \in Phases /\ GoodTree(tree)
      /\ pendings \subseteq 1..Len(orders) /\ Len(orders) \in Nat
  BY Sizes DEF IInv, TypeInv, Phases
<1>2. CASE EndRun
  BY <1>1, <1>2, ControlStep DEF EndRun, exchange, bot
<1>3. ASSUME NEW n \in DOMAIN tree, DropEntry(n) PROVE IInv'
  BY <1>1, <1>3, VisitStep DEF DropEntry
<1>4. ASSUME NEW n \in DOMAIN tree, DeferEntry(n) PROVE IInv'
  BY <1>1, <1>4, VisitStep DEF DeferEntry, MayEnter
<1>5. ASSUME NEW n \in DOMAIN tree, EntryRefused(n) PROVE IInv'
  BY <1>1, <1>5, VisitStep DEF EntryRefused, MayEnter, GiveUpEntry
<1>6. ASSUME NEW n \in DOMAIN tree, EntryReplyLost(n) PROVE IInv'
  BY <1>1, <1>6, VisitStep DEF EntryReplyLost, MayEnter, GiveUpEntry
<1>7. ASSUME NEW n \in DOMAIN tree, EntryPlaced(n) PROVE IInv'
  <2>1. /\ pc = "entries" /\ n \in work /\ orders' = EntryOrder(n)
        /\ pendings' = pendings \cup {Len(orders) + 1} /\ pc' = "idle" /\ work' = {}
        /\ UNCHANGED <<feed, tree, stale, fillQueue, reconcileDue, cooldowns, openSeen, misled>>
    BY <1>7 DEF EntryPlaced, MayEnter, Visits
  <2>2. n \in 1..Len(tree) /\ tree[n].status = "planned"
    BY <2>1 DEF IInv, TrackedInv
  <2>3. /\ GoodOrders(orders', Len(tree)) /\ KeepsOrders(orders, orders')
        /\ Len(orders') = Len(orders) + 1 /\ orders'[Len(orders) + 1].node = n
        /\ orders'[Len(orders) + 1].kind = "rotation_entry"
    BY <2>1, <2>2, EntryOrderPlaced
  <2>4. 1..Len(orders) \subseteq 1..Len(orders') /\ Len(orders) + 1 \in 1..Len(orders')
    BY <1>1, <2>3
  <2>5. TypeInv'
    <3>1. /\ pendings' \subseteq 1..Len(orders') /\ openSeen' \subseteq 1..Len(orders')
          /\ stale' \subseteq pendings' /\ cooldowns' \subseteq Pairs /\ work' \subseteq Nat
      BY <1>1, <2>1, <2>4 DEF IInv, TypeInv
    <3> QED
      BY <1>1, <2>1, <2>3, <3>1, TypeFrame DEF IInv
  <2>6. TrackedInv'
    <3> SUFFICES ASSUME NEW o \in pendings'
                 PROVE  /\ tree[orders'[o].node].status # "cancelled"
                        /\ orders'[o].kind = "rotation_exit" =>
                             tree[orders'[o].node].status # "planned"
      BY <2>1 DEF TrackedInv, StatusOf
    <3>1. CASE o = Len(orders) + 1
      BY <2>2, <2>3, <3>1
    <3>2. CASE o \in pendings
      <4>1. o \in 1..Len(orders)
        BY <1>1, <3>2
      <4>2. orders'[o].node = orders[o].node /\ orders'[o].kind = orders[o].kind
        BY <2>3, <4>1 DEF KeepsOrders
      <4> QED
        BY <3>2, <4>2 DEF IInv, TrackedInv, StatusOf
    <3> QED
      BY <2>1, <3>1, <3>2
  <2> QED
    BY <2>5, <2>6 DEF IInv
<1> QED
  BY <1>2, <1>3, <1>4, <1>5, <1>6, <1>7 DEF Entries

-----------------------------------------------------------------------------
(* The inductive invariant *)

\* The runtime starts with the root alone.
LEMMA InitInv == Init => IInv
<1> SUFFICES ASSUME Init PROVE IInv
  OBVIOUS
<1>1. RootNode(Capital) \in NodeType /\ RootNode(Capital).parent = 0
      /\ RootNode(Capital).status = "open"
  BY RuntimeAssumption DEF RootNode, NodeType, NoParent, Statuses, Deadlines
<1> HIDE DEF RootNode
<1>2. GoodTree(tree)
  BY <1>1 DEF Init, GoodTree, Root
<1>3. GoodOrders(orders, Len(tree))
  BY DEF Init, GoodOrders
<1>4. TypeInv
  <2>1. feed \in Seq(MessageType) /\ \A i \in 1..Len(feed) : feed[i].order \in 1..Len(orders)
    BY DEF Init
  <2>2. /\ fillQueue \in Seq(FillType)
        /\ \A i \in 1..Len(fillQueue) : OfNode(fillQueue[i], Len(tree))
    BY DEF Init
  <2> QED
    BY <1>2, <1>3, <2>1, <2>2 DEF Init, TypeInv, Phases
<1> QED
  BY <1>4 DEF Init, IInv, TrackedInv

\* Every step keeps it.
LEMMA NextInv == IInv /\ [Next]_vars => IInv'
<1>1. IInv /\ UNCHANGED vars => IInv'
  BY DEF vars, IInv, TypeInv, TrackedInv, StatusOf, TrackedFor
<1> QED
  BY <1>1, ExchangeStep, ClockStep, DeliverStep, ReconcileStep, ExpiryStep, RootsStep, FillsStep,
     TimeoutsStep, MonitorStep, PlanStep, EntriesStep
  DEF Next, RunOnce

\* It holds in every reachable state.
LEMMA RuntimeInv == Spec => []IInv
BY InitInv, NextInv, PTL DEF Spec

\* The state of the runtime, the tree and the exchange keeps its types: for any
\* capital, prices, depths and numbers of nodes and orders, and whatever the exchange does.
THEOREM RuntimeTyped == Spec => []TypeOK
<1>1. IInv => TypeOK
  <2> SUFFICES ASSUME IInv PROVE TypeOK
    OBVIOUS
  <2>1. feed \in Seq([order : Nat, qty : Nat, price : Nat])
    BY DEF IInv, TypeInv, MessageType
  <2>2. fillQueue \in Seq([node : Nat, kind : Kinds, qty : Nat, price : Nat])
    BY DEF IInv, TypeInv, FillType
  <2>3. orders \in Seq(OrderType) /\ tree \in Seq(NodeType)
    BY DEF IInv, TypeInv, GoodOrders, GoodTree
  <2> QED
    BY <2>1, <2>2, <2>3, Sizes DEF TypeOK, IInv, TypeInv
<1> QED
  BY <1>1, RuntimeInv, PTL

\* No order of a cancelled node is tracked: the capital of a cancelled node has gone
\* back to its parent, and no fill that the bot knows the order of is settled on it.
THEOREM CancelledUntrackedHolds == Spec => []CancelledUntracked
<1>1. IInv => CancelledUntracked
  BY DEF IInv, TrackedInv, StatusOf, CancelledUntracked
<1> QED
  BY <1>1, RuntimeInv, PTL

-----------------------------------------------------------------------------
(* With the conditional tree off, run_once is not suspended between run_cycle *)
(* and the settlement of the queue, and each order is tracked alone.          *)

\* A node has one tracked order of a kind, an entry while it is planned and an exit
\* when it is neither planned nor open nor expired.
AloneInv ==
  /\ \A o, p \in pendings : ClientId(o) = ClientId(p) => o = p
  /\ \A o \in pendings : IF orders[o].kind = "rotation_entry" THEN StatusOf(o) = "planned"
                         ELSE StatusOf(o) \notin {"planned", "open", "expired"}

Early == {"idle", "fetchOrders", "fetchTrades", "reconcile", "ready"}
Middle == {"effects", "expiry", "roots", "settle"}
Late == {"timeouts", "monitor", "plan", "entries"}

\* Whatever is queued makes the next cycle forget the orders it tracks before the
\* queue is settled, so a node opened by a fill has none.
Opens(fill) ==
  fill.kind = "rotation_entry" =>
    IF pc = "settle" THEN TrackedFor(fill.node) = {}
    ELSE tree[fill.node].status \in {"planned", "cancelled"}
QueueInv ==
  /\ fillQueue # <<>> /\ pc \in Early => reconcileDue
  /\ pc \in {"fetchOrders", "fetchTrades", "reconcile"} => reconcileDue
  /\ pc \in Late => fillQueue = <<>>
  /\ fillQueue # <<>> /\ pc \in Middle => \A o \in pendings : orders[o].kind = "rotation_exit"
  /\ \A i \in 1..Len(fillQueue) : Opens(fillQueue[i])

\* What the loops of run_once have still to visit is as they found it.
Missing(o) ==
  /\ o \in 1..Len(orders)
  /\ orders[o].kind = "rotation_exit" => StatusOf(o) \notin {"planned", "cancelled"}
  /\ \A p \in pendings : ClientId(o) = ClientId(p) => o = p
WorkInv ==
  /\ pc = "reconcile" => \A o \in work : Missing(o)
  /\ pc = "expiry" =>
       \A n \in work : n \in 1..Len(tree) /\ tree[n].status \in {"planned", "open"}
  /\ pc = "monitor" => \A n \in work : n \in 1..Len(tree) /\ tree[n].status = "open"

AInv == AloneInv /\ QueueInv /\ WorkInv

\* No order is tracked of a node that is open, expired or cancelled.
LEMMA NoneTracked ==
  ASSUME IInv, AloneInv, NEW n, tree[n].status \in {"open", "expired", "cancelled"}
  PROVE  TrackedFor(n) = {}
<1> SUFFICES ASSUME NEW o \in pendings, orders[o].node = n PROVE FALSE
  BY DEF TrackedFor
<1>1. StatusOf(o) \in {"open", "expired", "cancelled"}
  BY DEF StatusOf
<1> QED
  BY <1>1 DEF AloneInv, IInv, TrackedInv

\* Each stays alone while no more are tracked, and no status changes that matters.
LEMMA AloneFrame ==
  ASSUME IInv, AloneInv, KeepsOrders(orders, orders'), pendings' \subseteq pendings,
         \A o \in pendings' :
           \/ tree'[orders[o].node].status = StatusOf(o)
           \/ /\ orders[o].kind # "rotation_entry"
              /\ tree'[orders[o].node].status \notin {"planned", "open", "expired"}
  PROVE  AloneInv'
<1>1. \A o \in pendings' : /\ o \in pendings
                           /\ orders'[o].node = orders[o].node
                           /\ orders'[o].kind = orders[o].kind
  BY DEF IInv, TypeInv, KeepsOrders
<1>2. \A o, p \in pendings' : ClientId(o)' = ClientId(p)' => o = p
  <2> SUFFICES ASSUME NEW o \in pendings', NEW p \in pendings', ClientId(o)' = ClientId(p)'
               PROVE  o = p
    OBVIOUS
  <2>1. ClientId(o) = ClientId(p)
    BY <1>1 DEF ClientId
  <2> QED
    BY <1>1, <2>1 DEF AloneInv
<1>3. ASSUME NEW o \in pendings'
      PROVE  IF orders'[o].kind = "rotation_entry" THEN StatusOf(o)' = "planned"
             ELSE StatusOf(o)' \notin {"planned", "open", "expired"}
  BY <1>1 DEF AloneInv, StatusOf
<1> QED
  BY <1>2, <1>3 DEF AloneInv

\* A node that no order is tracked of is closed.
LEMMA AloneCloses ==
  ASSUME IInv, AloneInv, NEW n \in 1..Len(tree), NEW t, Keeps(tree, t), NEW os,
         KeepsOrders(orders, os), Len(os) = Len(orders),
         NEW tracked, tracked \subseteq pendings \ TrackedFor(n), Closes(n, t, os, tracked)
  PROVE  AloneInv'
<1>1. /\ \A m \in 1..Len(tree) : m # n => tree'[m].status = tree[m].status
      /\ KeepsOrders(os, orders') /\ Len(t) = Len(tree)
  BY DEF Closes, Keeps
<1>2. ASSUME NEW o \in tracked
      PROVE  /\ o \in pendings /\ o \in 1..Len(orders) /\ orders[o].node # n
             /\ orders'[o].node = orders[o].node /\ orders'[o].kind = orders[o].kind
             /\ tree'[orders[o].node].status = StatusOf(o)
  <2>1. o \in pendings /\ o \in 1..Len(orders) /\ orders[o].node # n
    BY DEF TrackedFor, IInv, TypeInv
  <2>2. orders[o].node \in 1..Len(tree)
    BY <2>1, Sizes DEF IInv
  <2> QED
    BY <1>1, <2>1, <2>2 DEF KeepsOrders, StatusOf
<1>3. CASE pendings' = tracked
  <2>1. \A o, p \in pendings' : ClientId(o)' = ClientId(p)' => o = p
    BY <1>2, <1>3 DEF ClientId, AloneInv
  <2>2. ASSUME NEW o \in pendings'
        PROVE  IF orders'[o].kind = "rotation_entry" THEN StatusOf(o)' = "planned"
               ELSE StatusOf(o)' \notin {"planned", "open", "expired"}
    BY <1>2, <1>3 DEF AloneInv, StatusOf
  <2> QED
    BY <2>1, <2>2 DEF AloneInv
<1>4. ASSUME pendings' = tracked \cup {Len(os) + 1}, tree'[n].status = "closing",
             orders'[Len(os) + 1].node = n, orders'[Len(os) + 1].kind = "rotation_exit"
      PROVE  AloneInv'
  <2>1. ASSUME NEW o \in pendings', NEW p \in pendings', ClientId(o)' = ClientId(p)'
        PROVE  o = p
    <3>1. orders'[o].node = orders'[p].node /\ orders'[o].kind = orders'[p].kind
      BY <2>1 DEF ClientId
    <3>2. CASE o \in tracked /\ p \in tracked
      BY <1>2, <3>1, <3>2 DEF ClientId, AloneInv
    <3>3. CASE o \notin tracked \/ p \notin tracked
      BY <1>2, <1>4, <3>1, <3>3
    <3> QED
      BY <3>2, <3>3
  <2>2. ASSUME NEW o \in pendings'
        PROVE  IF orders'[o].kind = "rotation_entry" THEN StatusOf(o)' = "planned"
               ELSE StatusOf(o)' \notin {"planned", "open", "expired"}
    <3>1. CASE o \in tracked
      BY <1>2, <3>1 DEF AloneInv, StatusOf
    <3>2. CASE o \notin tracked
      BY <1>4, <3>2 DEF StatusOf
    <3> QED
      BY <3>1, <3>2
  <2> QED
    BY <2>1, <2>2 DEF AloneInv
<1> QED
  BY <1>3, <1>4 DEF Closes

\* What a cycle that changes no status and tracks the same orders leaves as it was.
LEMMA SameFrame ==
  ASSUME IInv, AInv, Keeps(tree, tree'), KeepsOrders(orders, orders'),
         reconcileDue => reconcileDue', UNCHANGED <<pendings, fillQueue, pc, work>>
  PROVE  AInv'
<1>1. /\ pendings \subseteq 1..Len(orders) /\ Len(orders) \in Nat /\ Len(orders') \in Nat
      /\ Len(orders') >= Len(orders)
      /\ \A o \in 1..Len(orders) : orders[o].node \in 1..Len(tree)
      /\ \A i \in 1..Len(fillQueue) : fillQueue[i].node \in 1..Len(tree)
  BY Sizes DEF IInv, TypeInv, OfNode, KeepsOrders
<1>2. \A o \in 1..Len(orders) : /\ orders'[o].node = orders[o].node
                                /\ orders'[o].kind = orders[o].kind
                                /\ StatusOf(o)' = StatusOf(o) /\ ClientId(o)' = ClientId(o)
  BY <1>1 DEF Keeps, KeepsOrders, StatusOf, ClientId
<1>3. \A n : TrackedFor(n)' = TrackedFor(n)
  BY <1>1, <1>2 DEF TrackedFor
<1>4. AloneInv'
  BY <1>1, <1>2 DEF AInv, AloneInv
<1>5. QueueInv'
  <2>1. ASSUME NEW i \in 1..Len(fillQueue) PROVE Opens(fillQueue[i])'
    <3>1. Opens(fillQueue[i]) /\ fillQueue[i].node \in 1..Len(tree)
      BY <1>1 DEF AInv, QueueInv
    <3>2. tree'[fillQueue[i].node].status = tree[fillQueue[i].node].status
      BY <3>1 DEF Keeps
    <3> QED
      BY <1>3, <3>1, <3>2 DEF Opens
  <2>2. fillQueue # <<>> /\ pc \in Middle => \A o \in pendings : orders'[o].kind = "rotation_exit"
    BY <1>1, <1>2 DEF AInv, QueueInv
  <2> QED
    BY <2>1, <2>2 DEF AInv, QueueInv
<1>6. WorkInv'
  <2>1. ASSUME pc = "reconcile", NEW o \in work PROVE Missing(o)'
    <3>1. Missing(o) /\ o \in 1..Len(orders)
      BY <2>1 DEF AInv, WorkInv, Missing
    <3>2. o \in 1..Len(orders')
      BY <1>1, <3>1
    <3> QED
      BY <1>1, <1>2, <3>1, <3>2 DEF Missing
  <2> QED
    BY <2>1 DEF AInv, WorkInv, Keeps
<1> QED
  BY <1>4, <1>5, <1>6 DEF AInv

\* An empty queue asks for nothing but the reconciliation that has begun.
LEMMA EmptyQueue ==
  ASSUME fillQueue' = <<>>, pc' \in {"fetchOrders", "fetchTrades", "reconcile"} => reconcileDue'
  PROVE  QueueInv'
BY DEF QueueInv

\* The queue as it was, before it is settled, when what is entered stays to be.
LEMMA SameQueue ==
  ASSUME IInv, QueueInv, fillQueue' = fillQueue, pc # "settle", pc' # "settle", pc' \notin Late,
         fillQueue # <<>> /\ pc' \in Early => reconcileDue',
         pc' \in {"fetchOrders", "fetchTrades", "reconcile"} => reconcileDue',
         fillQueue # <<>> /\ pc' \in Middle =>
           \A o \in pendings' : orders'[o].kind = "rotation_exit",
         \A n \in 2..Len(tree) : tree[n].status \in {"planned", "cancelled"} =>
                                 tree'[n].status \in {"planned", "cancelled"}
  PROVE  QueueInv'
<1>1. ASSUME NEW i \in 1..Len(fillQueue) PROVE Opens(fillQueue[i])'
  <2>1. Opens(fillQueue[i]) /\ OfNode(fillQueue[i], Len(tree)) /\ Len(tree) \in Nat
    BY Sizes DEF QueueInv, IInv, TypeInv
  <2>2. fillQueue[i].kind = "rotation_entry" => fillQueue[i].node \in 2..Len(tree)
    BY <2>1 DEF OfNode, Root
  <2> QED
    BY <2>1, <2>2 DEF Opens
<1> QED
  BY <1>1 DEF QueueInv

\* Nothing is to be visited in the other phases.
LEMMA NoWork ==
  ASSUME pc' \notin {"reconcile", "expiry", "monitor"}
  PROVE  WorkInv'
BY DEF WorkInv

\* The exchange, the clock, and a fill that arrives between two cycles.
LEMMA AloneExchange == IInv /\ AInv /\ Exchange => AInv'
<1> SUFFICES ASSUME IInv, AInv, Exchange PROVE AInv'
  OBVIOUS
<1>1. UNCHANGED <<tree, pendings, fillQueue, reconcileDue, pc, work>>
  BY DEF Exchange, CancelledOutside, Execute, Lose, bot, control
<1>2. Keeps(tree, tree')
  BY <1>1 DEF Keeps, IInv, TypeInv
<1>3. KeepsOrders(orders, orders')
  <2>1. GoodOrders(orders, Len(tree)) /\ KeepsOrders(orders, orders) /\ Len(tree) \in Nat
    BY Sizes DEF IInv, TypeInv
  <2>2. ASSUME NEW o \in OrderIds, CancelledOutside(o) PROVE KeepsOrders(orders, orders')
    BY <2>1, <2>2, Sizes DEF CancelledOutside, KeepsOrders, IInv
  <2>3. ASSUME NEW o \in OrderIds, NEW q, Execute(o, q) PROVE KeepsOrders(orders, orders')
    <3> DEFINE e == [orders[o] EXCEPT !.filled = orders[o].filled + q,
                                      !.open = orders[o].filled + q < orders[o].qty]
    <3>1. orders' = [orders EXCEPT ![o] = e] /\ orders[o] \in OrderType /\ o \in 1..Len(orders)
      BY <2>3, Sizes DEF Execute, IInv
    <3>2. e.node = orders[o].node /\ e.kind = orders[o].kind
      BY <3>1 DEF OrderType
    <3> HIDE DEF e
    <3> QED
      BY <2>1, <3>1, <3>2 DEF KeepsOrders, GoodOrders
  <2>4. CASE Lose
    BY <2>1, <2>4 DEF Lose
  <2> QED
    BY <2>2, <2>3, <2>4 DEF Exchange
<1> QED
  BY <1>1, <1>2, <1>3, SameFrame

LEMMA AloneClock == IInv /\ AInv /\ Clock => AInv'
<1> SUFFICES ASSUME IInv, AInv, Clock PROVE AInv'
  OBVIOUS
<1>1. /\ UNCHANGED <<orders, pendings, fillQueue, pc, work>>
      /\ reconcileDue => reconcileDue'
      /\ tree' = tree \/ \E n \in DOMAIN tree : tree' = [tree EXCEPT ![n].deadline = "passed"]
  BY DEF Clock, DeadlinePasses, FillTimeoutPasses, ReconcileIntervalPasses, CooldownPasses,
         exchange, control
<1>2. KeepsOrders(orders, orders') /\ GoodTree(tree)
  BY <1>1, Sizes DEF IInv, TypeInv
<1>3. Keeps(tree, tree')
  <2>1. CASE tree' = tree
    BY <1>2, <2>1 DEF Keeps
  <2>2. ASSUME NEW n \in DOMAIN tree, tree' = [tree EXCEPT ![n].deadline = "passed"]
        PROVE  Keeps(tree, tree')
    <3> DEFINE e == [tree[n] EXCEPT !.deadline = "passed"]
    <3>1. n \in 1..Len(tree) /\ tree[n] \in NodeType
      BY Sizes DEF IInv
    <3>2. /\ e \in NodeType /\ e.parent = tree[n].parent /\ e.pair = tree[n].pair
          /\ e.status = tree[n].status /\ tree' = [tree EXCEPT ![n] = e]
      BY <2>2, <3>1 DEF NodeType, Deadlines
    <3> HIDE DEF e
    <3> QED
      BY <1>2, <3>1, <3>2, PutNode DEF Keeps, GoodTree
  <2> QED
    BY <1>1, <2>1, <2>2
<1> QED
  BY <1>1, <1>2, <1>3, SameFrame

\* An entry fill credited to an order that is tracked is of a planned node.
LEMMA QueuedOpens ==
  ASSUME IInv, AInv, NEW m, NEW q, NEW price, Queues(m, q, price), pc \in Early, pc' = pc,
         reconcileDue', tree' = tree
  PROVE  QueueInv'
<1> DEFINE f == FillOf(m, q, price)
<1>1. fillQueue \in Seq(FillType) /\ f.node = orders[m].node /\ f.kind = orders[m].kind
  BY DEF IInv, TypeInv, FillOf
<1>2. f \in FillType
  <2>1. m \in 1..Len(orders) /\ orders[m] \in OrderType
    BY Sizes DEF Queues, IInv, TypeInv
  <2>2. orders[m].node \in Nat /\ orders[m].kind \in Kinds /\ q \in Nat /\ price \in Nat
    BY <2>1 DEF OrderType, Queues
  <2> QED
    BY <2>2 DEF FillOf, FillType
<1>3. f.kind = "rotation_entry" => tree[f.node].status = "planned"
  BY <1>1 DEF Queues, AInv, AloneInv, StatusOf
<1> HIDE DEF f
<1>4. fillQueue' = Append(fillQueue, f)
  BY DEF Queues, f
<1>5. ASSUME NEW i \in 1..Len(fillQueue') PROVE Opens(fillQueue[i])'
  <2>1. (i \in 1..Len(fillQueue) /\ fillQueue'[i] = fillQueue[i]) \/ fillQueue'[i] = f
    BY <1>1, <1>2, <1>4
  <2>2. pc # "settle" /\ pc' # "settle"
    BY DEF Early
  <2>3. CASE i \in 1..Len(fillQueue) /\ fillQueue'[i] = fillQueue[i]
    <3>1. Opens(fillQueue[i])
      BY <2>3 DEF AInv, QueueInv
    <3> QED
      BY <2>2, <2>3, <3>1 DEF Opens
  <2>4. CASE fillQueue'[i] = f
    BY <1>3, <2>2, <2>4 DEF Opens
  <2> QED
    BY <2>1, <2>3, <2>4
<1> QED
  BY <1>5 DEF QueueInv, Early, Middle, Late

LEMMA AloneDeliver == ConditionalTree = FALSE /\ IInv /\ AInv /\ Deliver => AInv'
<1> SUFFICES ASSUME ConditionalTree = FALSE, IInv, AInv, Deliver PROVE AInv'
  OBVIOUS
<1> DEFINE msg == Head(feed)
           matched == MatchingPending(msg.order)
           m == CHOOSE p \in matched : TRUE
<1>1. /\ pc \in {"idle", "ready"} /\ reconcileDue' = TRUE /\ feed # <<>>
      /\ fillQueue' = IF matched = {} THEN fillQueue
                      ELSE Append(fillQueue, FillOf(m, msg.qty, msg.price))
      /\ UNCHANGED <<orders, tree, pendings, pc, work>>
  BY DEF Deliver, Awaits, control
<1>2. AloneInv'
  BY <1>1 DEF AInv, AloneInv, StatusOf, ClientId
<1>3. WorkInv'
  BY <1>1, NoWork
<1>4. QueueInv'
  <2>1. CASE matched = {}
    <3>1. \A o \in 1..Len(fillQueue) : Opens(fillQueue[o])' 
      BY <1>1 DEF AInv, QueueInv, Opens
    <3> QED
      BY <1>1, <2>1, <3>1 DEF QueueInv, Middle, Late
  <2>2. CASE matched # {}
    <3>1. msg \in MessageType
      <4>1. feed \in Seq(MessageType)
        BY DEF IInv, TypeInv
      <4> QED
        BY <1>1, <4>1, HeadTailProperties
    <3>2. msg.qty \in Nat /\ msg.price \in Nat
      BY <3>1 DEF MessageType
    <3>3. matched \subseteq pendings
      BY MatchedIsTracked
    <3> HIDE DEF matched, msg
    <3>4. m \in pendings
      BY <2>2, <3>3
    <3> HIDE DEF m
    <3>5. Queues(m, msg.qty, msg.price)
      BY <1>1, <2>2, <3>2, <3>4 DEF Queues
    <3>6. pc \in Early
      BY <1>1 DEF Early
    <3> QED
      BY <1>1, <3>5, <3>6, QueuedOpens
  <2> QED
    BY <2>1, <2>2
<1> QED
  BY <1>2, <1>3, <1>4 DEF AInv

\* The bot tracks no more than it did: what is still to be visited stays missing.
LEMMA StillMissing ==
  ASSUME IInv, NEW o, Missing(o), UNCHANGED orders, pendings' \subseteq pendings,
         orders[o].kind = "rotation_exit" => StatusOf(o)' \notin {"planned", "cancelled"}
  PROVE  Missing(o)'
BY DEF Missing, ClientId

\* A fill found in the trade history.
LEMMA AloneRecover ==
  ASSUME IInv, AInv, NEW o \in OrderIds, RecoverFill(o)
  PROVE  AInv'
<1> DEFINE same == pendings \ Untracked(o)
           matched == IF same # {} THEN {Earliest(same)} ELSE MatchingPending(o)
           m == CHOOSE p \in matched : TRUE
<1>1. /\ pc = "reconcile" /\ work' = work \ {o}
      /\ IF matched = {} THEN UNCHANGED <<fillQueue, pendings>>
         ELSE /\ fillQueue' = Append(fillQueue, FillOf(m, Recovered(o), orders[o].price))
              /\ pendings' = Untracked(m)
      /\ UNCHANGED <<orders, tree, reconcileDue, pc>>
  BY DEF RecoverFill, exchange
<1>2. o \in 1..Len(orders) /\ orders[o] \in OrderType /\ pendings \subseteq 1..Len(orders)
      /\ Len(orders) \in Nat
  BY Sizes DEF IInv, TypeInv
<1>3. matched \subseteq pendings
  <2>1. CASE same = {}
    BY <2>1, MatchedIsTracked
  <2>2. CASE same # {}
    <3>1. ASSUME NEW q \in same PROVE q \in Nat /\ q \in pendings
      <4>1. q \in pendings
        OBVIOUS
      <4> QED
        BY <1>2, <4>1
    <3>2. matched = {Earliest(same)}
      BY <2>2
    <3> HIDE DEF same, matched
    <3>3. Earliest(same) \in same
      BY <2>2, <3>1, EarliestIsFirst
    <3> QED
      BY <3>1, <3>2, <3>3
  <2> QED
    BY <2>1, <2>2
<1>4. Recovered(o) \in Nat /\ orders[o].price \in Nat
  BY <1>2 DEF Recovered, OrderType
<1> HIDE DEF matched
<1>5. pendings' \subseteq pendings
  BY <1>1, UntrackedIsTracked
<1>6. AloneInv'
  BY <1>1, <1>5 DEF AInv, AloneInv, StatusOf, ClientId
<1>7. WorkInv'
  BY <1>1, <1>5, StillMissing DEF AInv, WorkInv, Missing, StatusOf
<1>8. reconcileDue
  BY <1>1 DEF AInv, QueueInv
<1>9. QueueInv'
  <2>1. CASE matched = {}
    BY <1>1, <1>8, <2>1, SameQueue DEF AInv, Early, Middle, Late
  <2>2. CASE matched # {}
    <3>1. m \in pendings
      BY <1>3, <2>2
    <3> HIDE DEF m
    <3>2. Queues(m, Recovered(o), orders[o].price)
      BY <1>1, <1>4, <2>2, <3>1 DEF Queues
    <3>3. pc \in Early
      BY <1>1 DEF Early
    <3> QED
      BY <1>1, <1>8, <3>2, <3>3, QueuedOpens
  <2> QED
    BY <2>1, <2>2
<1> QED
  BY <1>6, <1>7, <1>9 DEF AInv

\* An order taken as cancelled.
LEMMA AloneTakeAsCancelled ==
  ASSUME IInv, AInv, NEW o \in OrderIds, TakeAsCancelled(o)
  PROVE  AInv'
<1> DEFINE n == orders[o].node
<1>1. /\ pc = "reconcile" /\ work # {} /\ o = Earliest(work) /\ work' = work \ {o}
      /\ pendings' = Untracked(o)
      /\ UNCHANGED <<orders, fillQueue, reconcileDue, pc>>
      /\ tree' = IF orders[o].kind = "rotation_entry" THEN cancel_planned_node(tree, n)
                 ELSE SetStatus(tree, n, "open")
  BY DEF TakeAsCancelled, exchange
<1>2. /\ o \in 1..Len(orders) /\ n \in 1..Len(tree) /\ GoodTree(tree) /\ work \subseteq Nat
      /\ orders[o].kind \in Kinds /\ pendings \subseteq 1..Len(orders)
      /\ \A p \in 1..Len(orders) : orders[p].node \in 1..Len(tree) /\ orders[p].kind \in Kinds
  BY Sizes DEF IInv, TypeInv, OrderType
<1>3. /\ \A m \in 1..Len(tree) : m # n => tree'[m].status = tree[m].status
      /\ orders[o].kind = "rotation_entry" =>
           tree'[n].status = IF tree[n].status = "planned" THEN "cancelled" ELSE tree[n].status
      /\ orders[o].kind = "rotation_exit" => tree'[n].status = "open"
  <2> HIDE DEF n
  <2>1. CASE orders[o].kind = "rotation_entry"
    <3>1. Sets(tree, tree', n, IF tree[n].status = "planned" THEN "cancelled"
                               ELSE tree[n].status)
      BY <1>1, <1>2, <2>1, CancelSets
    <3> QED
      BY <1>2, <2>1, <3>1 DEF Sets
  <2>2. CASE orders[o].kind # "rotation_entry"
    <3>1. Sets(tree, tree', n, "open")
      BY <1>1, <1>2, <2>2, SetStatusSets DEF Statuses
    <3> QED
      BY <1>2, <2>2, <3>1 DEF Sets
  <2> QED
    BY <2>1, <2>2
<1>4. Missing(o)
  <2>1. o \in work
    BY <1>1, <1>2, EarliestIsFirst
  <2> QED
    BY <1>1, <2>1 DEF AInv, WorkInv
<1>5. orders[o].kind = "rotation_exit" => tree[n].status \notin {"planned", "cancelled"}
  BY <1>4 DEF Missing, StatusOf
<1>6. pendings' \subseteq pendings
  BY <1>1, UntrackedIsTracked
<1>7. AloneInv'
  <2>1. ASSUME NEW p \in pendings' PROVE tree'[orders[p].node].status = StatusOf(p)
    <3>1. p \in pendings /\ ClientId(p) # ClientId(o) /\ p \in 1..Len(orders)
      BY <1>1, <1>2 DEF Untracked
    <3>2. CASE orders[p].node # n
      BY <1>2, <1>3, <3>1, <3>2 DEF StatusOf
    <3>3. CASE orders[p].node = n
      <4>1. CASE orders[o].kind = "rotation_entry"
        <5>1. orders[p].kind = "rotation_exit"
          BY <1>2, <3>1, <3>3, <4>1 DEF ClientId, Kinds
        <5>2. tree[n].status # "planned"
          BY <3>1, <3>3, <5>1 DEF IInv, TrackedInv, StatusOf
        <5> QED
          BY <1>3, <3>3, <4>1, <5>2 DEF StatusOf
      <4>2. CASE orders[o].kind = "rotation_exit"
        <5>1. orders[p].kind = "rotation_entry"
          BY <1>2, <3>1, <3>3, <4>2 DEF ClientId, Kinds
        <5>2. tree[n].status = "planned"
          BY <3>1, <3>3, <5>1 DEF AInv, AloneInv, StatusOf
        <5> QED
          BY <1>5, <4>2, <5>2
      <4> QED
        BY <1>2, <4>1, <4>2 DEF Kinds
    <3> QED
      BY <3>2, <3>3
  <2>2. KeepsOrders(orders, orders')
    BY <1>1, Sizes DEF IInv
  <2> QED
    BY <1>1, <1>6, <2>1, <2>2, AloneFrame DEF AInv
<1>8. QueueInv'
  <2>1. reconcileDue
    BY <1>1 DEF AInv, QueueInv
  <2>2. ASSUME NEW m \in 1..Len(tree), tree[m].status \in {"planned", "cancelled"}
        PROVE  tree'[m].status \in {"planned", "cancelled"}
    BY <1>2, <1>3, <1>5, <2>2 DEF Kinds
  <2>3. \A m \in 2..Len(tree) : m \in 1..Len(tree)
    BY Sizes DEF IInv
  <2> QED
    BY <1>1, <2>1, <2>2, <2>3, SameQueue DEF AInv, Early, Middle, Late
<1>9. WorkInv'
  <2>1. ASSUME NEW p \in work' PROVE Missing(p)'
    <3>1. Missing(p) /\ p \in 1..Len(orders)
      BY <1>1 DEF AInv, WorkInv, Missing
    <3>2. orders[p].kind = "rotation_exit" => StatusOf(p)' \notin {"planned", "cancelled"}
      <4> SUFFICES ASSUME orders[p].kind = "rotation_exit"
                   PROVE  tree'[orders[p].node].status \notin {"planned", "cancelled"}
        BY <1>1 DEF StatusOf
      <4>1. tree[orders[p].node].status \notin {"planned", "cancelled"}
        BY <3>1 DEF Missing, StatusOf
      <4>2. orders[p].node \in 1..Len(tree)
        BY <1>2, <3>1
      <4> QED
        BY <1>2, <1>3, <4>1, <4>2 DEF Kinds
    <3> QED
      BY <1>1, <1>6, <3>1, <3>2, StillMissing
  <2> QED
    BY <1>1, <2>1 DEF WorkInv
<1> QED
  BY <1>7, <1>8, <1>9 DEF AInv

\* run_once up to the tree.
LEMMA AloneReconcile == IInv /\ AInv /\ Reconcile => AInv'
<1> SUFFICES ASSUME IInv, AInv, Reconcile PROVE AInv'
  OBVIOUS
<1>1. KeepsOrders(orders, orders) /\ pendings \subseteq 1..Len(orders)
  BY Sizes DEF IInv, TypeInv
<1>2. ASSUME UNCHANGED <<orders, tree>>, pendings' \subseteq pendings PROVE AloneInv'
  BY <1>1, <1>2, AloneFrame DEF AInv, StatusOf
<1>3. CASE WakeUp
  BY <1>2, <1>3, SameQueue, NoWork DEF WakeUp, exchange, bot, AInv, Early, Middle, Late, QueueInv
<1>4. CASE FetchOpenOrders
  BY <1>2, <1>4, SameQueue, NoWork
  DEF FetchOpenOrders, exchange, bot, AInv, Early, Middle, Late, QueueInv
<1>5. CASE FetchTradeHistory
  <2>1. /\ pc = "fetchTrades" /\ pc' = "reconcile" /\ work' = pendings \ openSeen
        /\ UNCHANGED <<orders, tree, pendings, fillQueue, reconcileDue>>
    BY <1>5 DEF FetchTradeHistory, exchange, bot
  <2>2. \A o \in pendings : Missing(o)'
    BY <1>1, <2>1 DEF Missing, AInv, AloneInv, IInv, TrackedInv, StatusOf, ClientId
  <2>3. WorkInv'
    BY <2>1, <2>2 DEF WorkInv
  <2>4. QueueInv'
    BY <2>1, SameQueue DEF AInv, Early, Middle, Late, QueueInv
  <2> QED
    BY <1>2, <2>1, <2>3, <2>4 DEF AInv
<1>6. CASE FetchFails
  BY <1>2, <1>6, SameQueue, NoWork
  DEF FetchFails, exchange, bot, AInv, Early, Middle, Late, QueueInv
<1>7. CASE EndReconcile
  BY <1>2, <1>7, SameQueue, NoWork
  DEF EndReconcile, exchange, bot, AInv, Early, Middle, Late, QueueInv
<1>8. CASE RunCycle
  <2>1. /\ pc = "ready" /\ pc' = "effects" /\ pendings' = IF reconcileDue THEN {} ELSE pendings
        /\ UNCHANGED <<orders, tree, fillQueue>>
    BY <1>8 DEF RunCycle, exchange
  <2>2. fillQueue # <<>> => pendings' = {}
    BY <2>1 DEF AInv, QueueInv, Early
  <2> QED
    BY <1>2, <2>1, <2>2, SameQueue, NoWork DEF AInv, Early, Middle, Late
<1>9. CASE CycleFails
  BY <1>2, <1>9, SameQueue, NoWork
  DEF CycleFails, exchange, bot, AInv, Early, Middle, Late, QueueInv
<1>10. CASE PruneOrphanRoot
  <2>1. /\ tree' = SetStatus(tree, Root, "closed") /\ pc' = pc /\ pc = "effects"
        /\ tree[Root].status \in {"planned", "open", "closing", "expired"}
        /\ UNCHANGED <<orders, pendings, fillQueue, reconcileDue, work>>
    BY <1>10 DEF PruneOrphanRoot, exchange, control
  <2>2. Root \in 1..Len(tree) /\ GoodTree(tree) /\ Len(tree) \in Nat
    BY Sizes DEF Root, IInv, TypeInv
  <2>3. Sets(tree, tree', Root, "closed")
    BY <2>1, <2>2, SetStatusSets DEF Statuses
  <2>4. AloneInv'
    <3>1. ASSUME NEW o \in pendings
          PROVE  \/ tree'[orders[o].node].status = StatusOf(o)
                 \/ /\ orders[o].kind # "rotation_entry"
                    /\ tree'[orders[o].node].status \notin {"planned", "open", "expired"}
      <4>1. OfNode(orders[o], Len(tree))
        BY <1>1 DEF IInv, TypeInv, GoodOrders
      <4> QED
        BY <2>2, <2>3, <4>1 DEF OfNode, Sets, StatusOf
    <3> QED
      BY <1>1, <2>1, <3>1, AloneFrame DEF AInv
  <2>5. QueueInv'
    <3>1. \A m \in 2..Len(tree) : tree'[m].status = tree[m].status
      BY <2>2, <2>3 DEF Sets, Root
    <3> QED
      BY <2>1, <3>1, SameQueue DEF AInv, Early, Middle, Late, QueueInv
  <2> QED
    BY <2>1, <2>4, <2>5, NoWork DEF AInv
<1> QED
  BY <1>3, <1>4, <1>5, <1>6, <1>7, <1>8, <1>9, <1>10, AloneRecover, AloneTakeAsCancelled
  DEF Reconcile

\* A node's orders are forgotten before its status changes.
LEMMA AloneForgets ==
  ASSUME IInv, AloneInv, NEW n, KeepsOrders(orders, orders'),
         pendings' = pendings \ TrackedFor(n),
         \A m \in 1..Len(tree) : m # n => tree'[m].status = tree[m].status
  PROVE  AloneInv'
<1>1. ASSUME NEW o \in pendings' PROVE tree'[orders[o].node].status = StatusOf(o)
  <2>1. o \in 1..Len(orders) /\ orders[o].node # n
    BY DEF TrackedFor, IInv, TypeInv
  <2>2. orders[o].node \in 1..Len(tree)
    BY <2>1, Sizes DEF IInv
  <2> QED
    BY <2>1, <2>2 DEF StatusOf
<1> QED
  BY <1>1, AloneFrame

\* A node without tracked orders is closed before the queue is settled.
LEMMA QueueCloses ==
  ASSUME IInv, AInv, NEW n \in 1..Len(tree),
         n # Root => tree[n].status \notin {"planned", "cancelled"}, NEW t, Keeps(tree, t), Closes(n, t, orders, pendings), pc \in {"expiry", "roots"},
         pc' = pc, fillQueue' = fillQueue
  PROVE  QueueInv'
<1>1. \A m \in 2..Len(tree) : tree[m].status \in {"planned", "cancelled"} =>
                              tree'[m].status \in {"planned", "cancelled"}
  <2> SUFFICES ASSUME NEW m \in 2..Len(tree), tree[m].status \in {"planned", "cancelled"}
               PROVE  tree'[m].status = tree[m].status
    OBVIOUS
  <2>1. m \in 1..Len(tree) /\ m # n
    BY Sizes DEF IInv, Root
  <2> QED
    BY <2>1 DEF Closes, Keeps
<1>2. ASSUME NEW o \in pendings', fillQueue # <<>> PROVE orders'[o].kind = "rotation_exit"
  <2>1. CASE o \in pendings
    <3>1. orders[o].kind = "rotation_exit" /\ o \in 1..Len(orders)
      BY <1>2, <2>1 DEF AInv, QueueInv, Middle, IInv, TypeInv
    <3> QED
      BY <3>1 DEF Closes, KeepsOrders
  <2>2. CASE o \notin pendings
    BY <2>2 DEF Closes
  <2> QED
    BY <2>1, <2>2
<1> QED
  BY <1>1, <1>2, SameQueue DEF AInv, Early, Middle, Late

\* _handle_rotation_expiry.
LEMMA AloneExpiry == IInv /\ AInv /\ Expiry => AInv'
<1> SUFFICES ASSUME IInv, AInv, Expiry PROVE AInv'
  OBVIOUS
<1>1. /\ GoodTree(tree) /\ Keeps(tree, tree) /\ Len(tree) \in Nat /\ DOMAIN tree = 1..Len(tree)
      /\ GoodOrders(orders, Len(tree)) /\ KeepsOrders(orders, orders)
      /\ pendings \subseteq 1..Len(orders)
  BY Sizes DEF IInv, TypeInv, Keeps
<1>2. CASE BeginPlanner
  <2>1. /\ pc = "effects" /\ pc' = "expiry" /\ work' = expired_nodes(tree)
        /\ UNCHANGED <<orders, tree, pendings, fillQueue, reconcileDue>>
    BY <1>2 DEF BeginPlanner, exchange, bot
  <2>2. AloneInv'
    BY <1>1, <2>1, AloneFrame DEF AInv, StatusOf
  <2>3. QueueInv'
    BY <2>1, SameQueue DEF AInv, Early, Middle, Late, QueueInv
  <2>4. WorkInv'
    BY <1>1, <2>1 DEF WorkInv, expired_nodes, live_nodes
  <2> QED
    BY <2>2, <2>3, <2>4 DEF AInv
<1>3. CASE EndExpiry
  <2>1. /\ pc = "expiry" /\ pc' = "roots"
        /\ UNCHANGED <<orders, tree, pendings, fillQueue, reconcileDue>>
    BY <1>3 DEF EndExpiry, exchange, bot
  <2>2. AloneInv'
    BY <1>1, <2>1, AloneFrame DEF AInv, StatusOf
  <2>3. QueueInv'
    BY <2>1, SameQueue DEF AInv, Early, Middle, Late, QueueInv
  <2> QED
    BY <2>1, <2>2, <2>3, NoWork DEF AInv
<1>4. ASSUME NEW n \in 1..Len(tree), ExpiresNow(n), Expired(n), Len(tree') = Len(tree),
             \A m \in 1..Len(tree) : m # n => tree'[m].status = tree[m].status
      PROVE  /\ WorkInv' /\ pc = "expiry" /\ pc' = pc
             /\ fillQueue' = fillQueue /\ reconcileDue' = reconcileDue
             /\ tree[n].status \in {"planned", "open"}
  <2>1. /\ pc = "expiry" /\ pc' = "expiry" /\ n \in work /\ work' = work \ {n}
        /\ UNCHANGED <<fillQueue, reconcileDue>>
    BY <1>4 DEF ExpiresNow, Expired
  <2>2. \A m \in work : m \in 1..Len(tree) /\ tree[m].status \in {"planned", "open"}
    BY <2>1 DEF AInv, WorkInv
  <2> QED
    BY <1>4, <2>1, <2>2 DEF WorkInv
<1>5. ASSUME NEW n \in 1..Len(tree), ExpirePlanned(n) PROVE AInv'
  <2>1. /\ ExpiresNow(n) /\ Expired(n) /\ tree' = cancel_planned_node(tree, n)
        /\ pendings' = pendings \ TrackedFor(n) /\ tree[n].status = "planned"
        /\ orders' = orders \/ orders' \in AfterCancel(Earliest(TrackedFor(n)))
    BY <1>5 DEF ExpirePlanned
  <2>2. KeepsOrders(orders, orders')
    BY <1>1, <2>1, CancelledOrders DEF IInv
  <2>3. Sets(tree, tree', n, "cancelled")
    BY <1>1, <2>1, CancelSets
  <2>4. /\ WorkInv' /\ pc = "expiry" /\ pc' = pc
        /\ fillQueue' = fillQueue /\ reconcileDue' = reconcileDue
    BY <1>4, <2>1, <2>3 DEF Sets
  <2>5. AloneInv'
    BY <1>1, <2>1, <2>2, <2>3, AloneForgets DEF AInv, Sets
  <2>6. QueueInv'
    <3>1. \A m \in 2..Len(tree) : tree[m].status \in {"planned", "cancelled"} =>
                                  tree'[m].status \in {"planned", "cancelled"}
      <4> SUFFICES ASSUME NEW m \in 2..Len(tree), tree[m].status \in {"planned", "cancelled"}
                   PROVE  tree'[m].status \in {"planned", "cancelled"}
        OBVIOUS
      <4>1. m \in 1..Len(tree)
        BY <1>1
      <4> QED
        BY <2>3, <4>1 DEF Sets
    <3>2. ASSUME NEW o \in pendings', fillQueue # <<>> PROVE orders'[o].kind = "rotation_exit"
      BY <1>1, <2>1, <2>2, <2>4, <3>2 DEF AInv, QueueInv, Middle, KeepsOrders
    <3> QED
      BY <2>4, <3>1, <3>2, SameQueue DEF AInv, Early, Middle, Late
  <2> QED
    BY <2>4, <2>5, <2>6 DEF AInv
<1>6. ASSUME NEW n \in 1..Len(tree), NEW t, Keeps(tree, t), ExpiresNow(n), Expired(n),
             CloseNode(n, t, orders, pendings), tree[n].status = "open" \/ n = Root
      PROVE  AInv'
  <2>1. Closes(n, t, orders, pendings)
    BY <1>1, <1>6, CloseNodeCloses DEF Keeps
  <2>2. Len(tree') = Len(tree) /\ \A m \in 1..Len(tree) : m # n => tree'[m].status = tree[m].status
    BY <1>6, <2>1 DEF Closes, Keeps
  <2>3. /\ WorkInv' /\ pc = "expiry" /\ pc' = pc
        /\ fillQueue' = fillQueue /\ reconcileDue' = reconcileDue
        /\ tree[n].status \in {"planned", "open"}
    BY <1>4, <1>6, <2>2
  <2>4. tree[n].status = "open"
    BY <1>1, <1>6, <2>3 DEF GoodTree
  <2>5. TrackedFor(n) = {}
    BY <2>4, NoneTracked DEF AInv
  <2>6. AloneInv'
    BY <1>1, <1>6, <2>1, <2>5, AloneCloses DEF AInv
  <2>7. QueueInv'
    BY <1>6, <2>1, <2>3, <2>4, QueueCloses
  <2> QED
    BY <2>3, <2>6, <2>7 DEF AInv
<1>7. ASSUME NEW n \in 1..Len(tree), ExpireOpen(n) PROVE AInv'
  BY <1>1, <1>6, <1>7 DEF ExpireOpen
<1>8. ASSUME NEW n \in 1..Len(tree), ExpireRoot(n) PROVE AInv'
  <2>1. ExpiresNow(n) /\ n = Root /\ Expired(n)
    BY <1>8 DEF ExpireRoot
  <2>2. tree[n] \in NodeType
    BY Sizes DEF IInv
  <2>3. ASSUME NEW d \in {"none", "ahead"}, tree' = [tree EXCEPT ![n].deadline = d],
               UNCHANGED <<orders, pendings>>
        PROVE  AInv'
    <3> DEFINE e == [tree[n] EXCEPT !.deadline = d]
    <3>1. /\ e \in NodeType /\ e.parent = tree[n].parent /\ e.pair = tree[n].pair
          /\ e.status = tree[n].status /\ tree' = [tree EXCEPT ![n] = e]
      BY <2>2, <2>3 DEF NodeType, Deadlines
    <3> HIDE DEF e
    <3>2. Keeps(tree, tree')
      BY <1>1, <2>1, <3>1, PutNode DEF Keeps, GoodTree
    <3>3. /\ WorkInv' /\ pc = "expiry" /\ pc' = pc
          /\ fillQueue' = fillQueue /\ reconcileDue' = reconcileDue
      BY <1>4, <2>1, <3>2 DEF Keeps
    <3>4. AloneInv'
      <4>1. \A o \in pendings : orders[o].node \in 1..Len(tree)
        BY <1>1, Sizes DEF IInv
      <4> QED
        BY <1>1, <2>3, <3>2, <4>1, AloneFrame DEF AInv, Keeps, StatusOf
    <3>5. QueueInv'
      <4>1. \A m \in 2..Len(tree) : tree'[m].status = tree[m].status
        BY <1>1, <3>2 DEF Keeps
      <4> QED
        BY <2>3, <3>3, <4>1, SameQueue DEF AInv, Early, Middle, Late, QueueInv
    <3> QED
      BY <3>3, <3>4, <3>5 DEF AInv
  <2>4. ASSUME RootPair # NoPair,
               CloseNode(n, [tree EXCEPT ![n].pair = RootPair], orders, pendings)
        PROVE  AInv'
    <3> DEFINE e == [tree[n] EXCEPT !.pair = RootPair]
               t == [tree EXCEPT ![n].pair = RootPair]
    <3>1. /\ e \in NodeType /\ e.parent = tree[n].parent /\ e.pair \in Pairs
          /\ e.status = tree[n].status /\ t = [tree EXCEPT ![n] = e]
      BY <2>2, <2>4, RuntimeAssumption DEF NodeType
    <3> HIDE DEF e, t
    <3>2. Keeps(tree, t)
      BY <1>1, <2>1, <3>1, PutNode DEF Keeps, GoodTree
    <3>3. CloseNode(n, t, orders, pendings)
      BY <2>4 DEF t
    <3> QED
      BY <1>6, <2>1, <3>2, <3>3
  <2> QED
    BY <1>8, <2>3, <2>4 DEF ExpireRoot
<1> QED
  BY <1>1, <1>2, <1>3, <1>5, <1>7, <1>8 DEF Expiry

\* _evaluate_root_deadlines.  The queue, if there is one, holds no entry of a node
\* an order is tracked of.
LEMMA AloneRoots == IInv /\ AInv /\ Roots => AInv'
<1> SUFFICES ASSUME IInv, AInv, Roots PROVE AInv'
  OBVIOUS
<1>1. /\ GoodTree(tree) /\ Keeps(tree, tree) /\ Root \in 1..Len(tree) /\ Len(tree) \in Nat
      /\ GoodOrders(orders, Len(tree)) /\ KeepsOrders(orders, orders)
      /\ pendings \subseteq 1..Len(orders) /\ tree[Root] \in NodeType
  BY Sizes DEF IInv, TypeInv, Keeps, Root
<1>2. pc = "roots" /\ pc' = "settle" /\ fillQueue' = fillQueue
  BY DEF Roots, SetRootDeadline, RecoverRoot, CloseExhaustedRoot, LeaveRoot, RootsDone
<1>3. WorkInv'
  BY <1>2, NoWork
<1>4. ASSUME NEW o \in pendings, NEW i \in 1..Len(fillQueue),
             fillQueue[i].kind = "rotation_entry", orders[o].node = fillQueue[i].node
      PROVE  FALSE
  <2>1. tree[fillQueue[i].node].status \in {"planned", "cancelled"}
    BY <1>2, <1>4 DEF AInv, QueueInv, Opens
  <2>2. orders[o].kind = "rotation_exit"
    <3>1. fillQueue # <<>>
      OBVIOUS
    <3> QED
      BY <1>2, <3>1 DEF AInv, QueueInv, Middle
  <2> QED
    BY <1>4, <2>1, <2>2 DEF IInv, TrackedInv, StatusOf
<1>5. ASSUME \A o \in pendings' \ pendings :
               orders'[o].node = Root /\ orders'[o].kind = "rotation_exit",
             \A o \in pendings :
               orders'[o].node = orders[o].node /\ orders'[o].kind = orders[o].kind
      PROVE  QueueInv'
  <2>1. ASSUME NEW i \in 1..Len(fillQueue), fillQueue[i].kind = "rotation_entry",
               NEW o \in pendings', orders'[o].node = fillQueue[i].node
        PROVE  FALSE
    <3>1. fillQueue[i].node # Root
      BY <2>1 DEF IInv, TypeInv, OfNode
    <3> QED
      BY <1>4, <1>5, <2>1, <3>1
  <2>2. \A i \in 1..Len(fillQueue) : Opens(fillQueue[i])'
    BY <1>2, <2>1 DEF Opens, TrackedFor
  <2>3. ASSUME fillQueue # <<>>, NEW o \in pendings' PROVE orders'[o].kind = "rotation_exit"
    BY <1>2, <1>5, <2>3 DEF AInv, QueueInv, Middle
  <2> QED
    BY <1>2, <2>2, <2>3 DEF QueueInv, Early, Middle, Late
<1>6. ASSUME NEW status, Sets(tree, tree', Root, status), UNCHANGED <<orders, pendings>>,
             status = tree[Root].status \/ tree[Root].status = "expired"
      PROVE  AInv'
  <2>1. tree[Root].status = "expired" => TrackedFor(Root) = {}
    BY NoneTracked DEF AInv
  <2>2. ASSUME NEW o \in pendings PROVE tree'[orders[o].node].status = StatusOf(o)
    <3>1. orders[o].node \in 1..Len(tree)
      BY <1>1, Sizes DEF IInv
    <3> QED
      BY <1>6, <2>1, <3>1 DEF Sets, StatusOf, TrackedFor
  <2>3. AloneInv'
    BY <1>1, <1>6, <2>2, AloneFrame DEF AInv
  <2> QED
    BY <1>3, <1>5, <1>6, <2>3 DEF AInv
<1>7. CASE SetRootDeadline
  <2> DEFINE a == [tree[Root] EXCEPT !.deadline = "ahead"]
             e == [tree[Root] EXCEPT !.deadline = "ahead", !.pair = RootPair]
  <2>1. /\ RootPair # NoPair /\ UNCHANGED <<orders, pendings>>
        /\ tree' = [tree EXCEPT ![Root] = e]
    BY <1>7 DEF SetRootDeadline
  <2>2. /\ e \in NodeType /\ e.parent = tree[Root].parent /\ e.pair \in Pairs
        /\ e.status = tree[Root].status
    <3>1. e = [a EXCEPT !.pair = RootPair] /\ RootPair \in Pairs
      BY <2>1, RuntimeAssumption
    <3>2. a \in NodeType /\ a.parent = tree[Root].parent /\ a.status = tree[Root].status
      BY <1>1 DEF NodeType, Deadlines
    <3> HIDE DEF a, e
    <3> QED
      BY <3>1, <3>2 DEF NodeType
  <2> HIDE DEF e
  <2>3. \A m \in 1..Len(tree) : tree'[m].status = tree[m].status
    BY <1>1, <2>1, <2>2, PutNode DEF GoodTree
  <2>4. AloneInv'
    <3>1. \A o \in pendings : orders[o].node \in 1..Len(tree)
      BY <1>1, Sizes DEF IInv
    <3> QED
      BY <1>1, <2>1, <2>3, <3>1, AloneFrame DEF AInv, StatusOf
  <2> QED
    BY <1>3, <1>5, <2>1, <2>4 DEF AInv
<1>8. CASE RecoverRoot
  <2> DEFINE a == [tree[Root] EXCEPT !.status = "open"]
             e == [tree[Root] EXCEPT !.status = "open", !.deadline = "none"]
  <2>1. /\ UNCHANGED <<orders, pendings>> /\ tree[Root].status = "expired"
        /\ tree' = [tree EXCEPT ![Root] = e]
    BY <1>8 DEF RecoverRoot
  <2>2. /\ e \in NodeType /\ e.parent = tree[Root].parent /\ e.pair = tree[Root].pair
        /\ e.status = "open"
    <3>1. e = [a EXCEPT !.deadline = "none"]
      OBVIOUS
    <3>2. /\ a \in NodeType /\ a.parent = tree[Root].parent /\ a.pair = tree[Root].pair
          /\ a.status = "open"
      BY <1>1 DEF NodeType, Statuses
    <3> HIDE DEF a, e
    <3> QED
      BY <3>1, <3>2 DEF NodeType, Deadlines
  <2> HIDE DEF e
  <2>3. Sets(tree, tree', Root, "open")
    BY <1>1, <2>1, <2>2, PutNode DEF Sets, GoodTree
  <2> QED
    BY <1>6, <2>1, <2>3
<1>9. CASE CloseExhaustedRoot
  <2>1. tree[Root].status = "expired" /\ Closes(Root, tree, orders, pendings)
    BY <1>1, <1>9, CloseNodeCloses DEF CloseExhaustedRoot
  <2>2. AloneInv'
    BY <1>1, <2>1, NoneTracked, AloneCloses DEF AInv
  <2>3. QueueInv'
    BY <1>1, <1>5, <2>1 DEF Closes, KeepsOrders
  <2> QED
    BY <1>3, <2>2, <2>3 DEF AInv
<1>10. CASE LeaveRoot
  <2>1. UNCHANGED <<orders, tree, pendings>>
    BY <1>10 DEF LeaveRoot
  <2>2. AloneInv'
    BY <1>1, <2>1, AloneFrame DEF AInv, StatusOf
  <2> QED
    BY <1>3, <1>5, <2>1, <2>2 DEF AInv
<1> QED
  BY <1>7, <1>8, <1>9, <1>10 DEF Roots

\* _settle_rotation_fills.  Once a fill has opened its node no order is tracked of
\* it, and once another has closed it none but its exits.
LEMMA AloneFills == IInv /\ AInv /\ Fills => AInv'
<1> SUFFICES ASSUME IInv, AInv, Fills PROVE AInv'
  OBVIOUS
<1>1. CASE Settle
  <2> DEFINE fill == Head(fillQueue)
  <2>1. /\ pc = "settle" /\ fillQueue # <<>> /\ fillQueue' = Tail(fillQueue) /\ pc' = pc
        /\ tree' = IF fill.kind = "rotation_entry" THEN OpenedBy(fill) ELSE ClosedBy(fill)
        /\ UNCHANGED <<orders, pendings>>
    BY <1>1 DEF Settle, exchange, control
  <2>2. /\ fillQueue \in Seq(FillType) /\ Len(fillQueue) \in Nat /\ GoodTree(tree)
        /\ \A i \in 1..Len(fillQueue) : OfNode(fillQueue[i], Len(tree))
    BY DEF IInv, TypeInv
  <2>3. /\ fill \in FillType /\ fill = fillQueue[1] /\ Len(fillQueue) >= 1
        /\ Len(fillQueue') = Len(fillQueue) - 1
        /\ \A i \in 1..Len(fillQueue') : fillQueue'[i] = fillQueue[i + 1]
    BY <2>1, <2>2, HeadTailProperties
  <2>4. fill.node \in 1..Len(tree) /\ Opens(fill)
    <3>1. OfNode(fillQueue[1], Len(tree)) /\ Opens(fillQueue[1])
      BY <2>2, <2>3 DEF AInv, QueueInv
    <3> QED
      BY <2>3, <3>1 DEF OfNode
  <2> HIDE DEF fill
  <2>5. \/ fill.kind = "rotation_entry" /\ Sets(tree, tree', fill.node, "open")
        \/ Sets(tree, tree', fill.node, "closed")
    BY <2>1, <2>2, <2>3, <2>4, OpenedSets, ClosedSets
  <2>6. ASSUME NEW o \in pendings
        PROVE  \/ tree'[orders[o].node].status = StatusOf(o)
               \/ /\ orders[o].kind # "rotation_entry"
                  /\ tree'[orders[o].node].status \notin {"planned", "open", "expired"}
    <3>1. o \in 1..Len(orders) /\ orders[o].kind = "rotation_exit"
      BY <2>1 DEF AInv, QueueInv, Middle, IInv, TypeInv
    <3>2. orders[o].node \in 1..Len(tree)
      BY <3>1, Sizes DEF IInv
    <3>3. fill.kind = "rotation_entry" => orders[o].node # fill.node
      BY <2>1, <2>4 DEF Opens, TrackedFor
    <3> QED
      BY <2>5, <3>1, <3>2, <3>3 DEF Sets, StatusOf
  <2>7. AloneInv'
    BY <2>1, <2>6, Sizes, AloneFrame DEF AInv, IInv
  <2>8. ASSUME NEW i \in 1..Len(fillQueue') PROVE Opens(fillQueue[i])'
    <3>1. i + 1 \in 1..Len(fillQueue) /\ fillQueue'[i] = fillQueue[i + 1]
      BY <2>2, <2>3
    <3>2. Opens(fillQueue[i + 1])
      BY <3>1 DEF AInv, QueueInv
    <3> QED
      BY <2>1, <3>1, <3>2 DEF Opens, TrackedFor
  <2>9. QueueInv'
    BY <2>1, <2>8 DEF AInv, QueueInv, Early, Middle, Late
  <2> QED
    BY <2>1, <2>7, <2>9, NoWork DEF AInv
<1>2. CASE EndSettle
  <2>1. /\ pc' = "timeouts" /\ fillQueue' = <<>> /\ UNCHANGED <<orders, tree, pendings>>
    BY <1>2 DEF EndSettle, exchange, bot
  <2>2. AloneInv'
    BY <2>1, Sizes, AloneFrame DEF AInv, IInv, StatusOf
  <2> QED
    BY <2>1, <2>2, EmptyQueue, NoWork DEF AInv
<1> QED
  BY <1>1, <1>2 DEF Fills

\* _check_rotation_fill_timeouts.
LEMMA AloneTimeouts == IInv /\ AInv /\ Timeouts => AInv'
<1> SUFFICES ASSUME IInv, AInv, Timeouts PROVE AInv'
  OBVIOUS
<1>1. /\ Keeps(tree, tree) /\ DOMAIN tree = 1..Len(tree) /\ GoodTree(tree)
      /\ OrderIds = 1..Len(orders) /\ KeepsOrders(orders, orders)
      /\ \A o \in 1..Len(orders) : orders[o].node \in 1..Len(tree)
  BY Sizes DEF IInv, TypeInv, Keeps
<1>2. /\ pc = "timeouts" /\ pc' \in {"timeouts", "monitor"} /\ fillQueue' = <<>>
  BY DEF Timeouts, EndTimeouts, CancelStaleEntry, EscalateStaleExit, TimesOut, TimedOut, bot,
         AInv, QueueInv, Late
<1>3. QueueInv'
  BY <1>2, EmptyQueue
<1>4. ASSUME NEW o \in OrderIds, CancelStaleEntry(o) PROVE AInv'
  <2> DEFINE n == orders[o].node
  <2>1. /\ TimedOut(o) /\ orders' \in AfterCancel(o) /\ pendings' = pendings \ TrackedFor(n)
        /\ tree' = cancel_planned_node(tree, n) /\ n \in 1..Len(tree)
    BY <1>1, <1>4 DEF CancelStaleEntry
  <2>2. KeepsOrders(orders, orders')
    BY <2>1, CancelledOrders DEF IInv
  <2>3. \A m \in 1..Len(tree) : m # n => tree'[m].status = tree[m].status
    BY <1>1, <2>1, CancelSets DEF Sets
  <2> HIDE DEF n
  <2>4. AloneInv'
    BY <2>1, <2>2, <2>3, AloneForgets DEF AInv
  <2>5. WorkInv'
    BY <1>2, <2>1, NoWork DEF TimedOut
  <2> QED
    BY <1>3, <2>4, <2>5 DEF AInv
<1>5. ASSUME NEW o \in OrderIds, EscalateStaleExit(o) PROVE AInv'
  <2> DEFINE n == orders[o].node
             tracked == pendings \ TrackedFor(n)
  <2>1. TimedOut(o) /\ n \in 1..Len(tree)
    BY <1>1, <1>5 DEF EscalateStaleExit
  <2>2. PICK os \in AfterCancel(o) : CloseNode(n, tree, os, tracked)
    BY <1>5 DEF EscalateStaleExit
  <2>3. GoodOrders(os, Len(tree)) /\ KeepsOrders(orders, os) /\ Len(os) = Len(orders)
    BY CancelledOrders DEF IInv
  <2>4. tracked \subseteq pendings \ TrackedFor(n)
    OBVIOUS
  <2> HIDE DEF n, tracked
  <2>5. Closes(n, tree, os, tracked)
    BY <1>1, <2>1, <2>2, <2>3, CloseNodeCloses
  <2>6. AloneInv'
    BY <1>1, <2>1, <2>3, <2>4, <2>5, AloneCloses DEF AInv
  <2>7. WorkInv'
    BY <1>2, <2>1, NoWork DEF TimedOut
  <2> QED
    BY <1>3, <2>6, <2>7 DEF AInv
<1>6. CASE EndTimeouts
  <2>1. UNCHANGED <<orders, tree, pendings>> /\ pc' = "monitor"
    BY <1>6 DEF EndTimeouts, exchange, bot
  <2>2. AloneInv'
    BY <1>1, <2>1, AloneFrame DEF AInv, StatusOf
  <2>3. \A n \in work' : n \in 1..Len(tree) /\ tree[n].status = "open"
    BY <1>1, <1>6 DEF EndTimeouts
  <2>4. WorkInv'
    BY <2>1, <2>3 DEF WorkInv
  <2> QED
    BY <1>3, <2>2, <2>4 DEF AInv
<1> QED
  BY <1>4, <1>5, <1>6 DEF Timeouts

\* _monitor_rotation_prices.
LEMMA AloneMonitor == IInv /\ AInv /\ Monitor => AInv'
<1> SUFFICES ASSUME IInv, AInv, Monitor PROVE AInv'
  OBVIOUS
<1>1. /\ Keeps(tree, tree) /\ DOMAIN tree = 1..Len(tree) /\ GoodTree(tree)
      /\ GoodOrders(orders, Len(tree)) /\ KeepsOrders(orders, orders)
  BY Sizes DEF IInv, TypeInv, Keeps
<1>2. /\ pc = "monitor" /\ pc' \in {"monitor", "plan"} /\ fillQueue' = <<>>
  BY DEF Monitor, EndMonitor, TriggerExit, bot, AInv, QueueInv, Late
<1>3. QueueInv'
  BY <1>2, EmptyQueue
<1>4. ASSUME NEW n \in DOMAIN tree, TriggerExit(n) PROVE AInv'
  <2>1. /\ n \in work /\ work' = work \ {n} /\ n \in 1..Len(tree)
        /\ CloseNode(n, tree, orders, pendings)
    BY <1>1, <1>4 DEF TriggerExit
  <2>2. Closes(n, tree, orders, pendings)
    BY <1>1, <2>1, CloseNodeCloses
  <2>3. tree[n].status = "open"
    BY <1>2, <2>1 DEF AInv, WorkInv
  <2>4. TrackedFor(n) = {}
    BY <2>3, NoneTracked DEF AInv
  <2>5. AloneInv'
    BY <1>1, <2>1, <2>2, <2>4, AloneCloses DEF AInv
  <2>6. WorkInv'
    <3>1. \A m \in work : m \in 1..Len(tree) /\ tree[m].status = "open"
      BY <1>2 DEF AInv, WorkInv
    <3> QED
      BY <1>2, <2>1, <2>2, <3>1 DEF WorkInv, Closes
  <2> QED
    BY <1>3, <2>5, <2>6 DEF AInv
<1>5. CASE EndMonitor
  <2>1. UNCHANGED <<orders, tree, pendings>> /\ pc' = "plan"
    BY <1>5 DEF EndMonitor, exchange, bot
  <2>2. AloneInv'
    BY <1>1, <2>1, AloneFrame DEF AInv, StatusOf
  <2> QED
    BY <1>3, <2>1, <2>2, NoWork DEF AInv
<1> QED
  BY <1>4, <1>5 DEF Monitor

\* plan_cycle.
LEMMA AlonePlan == IInv /\ AInv /\ Plan => AInv'
<1> SUFFICES ASSUME IInv, AInv, Plan PROVE AInv'
  OBVIOUS
<1>1. /\ KeepsOrders(orders, orders) /\ pendings \subseteq 1..Len(orders)
      /\ \A o \in 1..Len(orders) : orders[o].node \in 1..Len(tree)
  BY Sizes DEF IInv, TypeInv
<1>2. /\ pc = "plan" /\ pc' \in {"plan", "entries"} /\ fillQueue' = <<>>
      /\ UNCHANGED <<orders, pendings>>
  BY DEF Plan, EndPlan, PlanLeaf, exchange, bot, AInv, QueueInv, Late
<1>3. \A m \in 1..Len(tree) : tree'[m].status = tree[m].status
  BY PlanLeafExtends DEF Plan, EndPlan, bot
<1>4. AloneInv'
  BY <1>1, <1>2, <1>3, AloneFrame DEF AInv, StatusOf
<1> QED
  BY <1>2, <1>4, EmptyQueue, NoWork DEF AInv

\* _execute_rotation_entries.  An entry is placed of a node that has none.
LEMMA AloneEntries == IInv /\ AInv /\ Entries => AInv'
<1> SUFFICES ASSUME IInv, AInv, Entries PROVE AInv'
  OBVIOUS
<1>1. /\ KeepsOrders(orders, orders) /\ pendings \subseteq 1..Len(orders) /\ Len(orders) \in Nat
      /\ \A o \in 1..Len(orders) : orders[o].node \in 1..Len(tree)
      /\ DOMAIN tree = 1..Len(tree) /\ GoodTree(tree)
  BY Sizes DEF IInv, TypeInv
<1>2. /\ pc = "entries" /\ pc' \in {"entries", "idle"} /\ fillQueue' = <<>>
  BY DEF Entries, EndRun, DropEntry, DeferEntry, EntryRefused, EntryReplyLost, EntryPlaced,
         MayEnter, Visits, Visited, bot, AInv, QueueInv, Late
<1>3. QueueInv' /\ WorkInv'
  BY <1>2, EmptyQueue, NoWork
<1>4. CASE EndRun
  <2>1. UNCHANGED <<orders, tree, pendings>>
    BY <1>4 DEF EndRun, exchange, bot
  <2> QED
    BY <1>1, <1>3, <2>1, AloneFrame DEF AInv, StatusOf
<1>5. ASSUME NEW n \in DOMAIN tree, Visits(n), pendings' = pendings,
             orders' = orders \/ orders' = EntryOrder(n),
             tree' = tree \/ tree' = cancel_planned_node(tree, n)
      PROVE  AInv'
  <2>1. n \in 1..Len(tree) /\ tree[n].status = "planned" /\ TrackedFor(n) = {}
    BY <1>1, <1>5 DEF Visits, IInv, TrackedInv
  <2>2. KeepsOrders(orders, orders')
    BY <1>1, <1>5, <2>1, EntryOrderPlaced
  <2>3. \A m \in 1..Len(tree) : m # n => tree'[m].status = tree[m].status
    BY <1>1, <1>5, <2>1, CancelSets DEF Sets
  <2>4. pendings' = pendings \ TrackedFor(n)
    BY <1>5, <2>1
  <2> QED
    BY <1>3, <2>2, <2>3, <2>4, AloneForgets DEF AInv
<1>6. ASSUME NEW n \in DOMAIN tree,
             DropEntry(n) \/ DeferEntry(n) \/ EntryRefused(n) \/ EntryReplyLost(n)
      PROVE  AInv'
  BY <1>5, <1>6 DEF DropEntry, DeferEntry, EntryRefused, EntryReplyLost, MayEnter, GiveUpEntry
<1>7. ASSUME NEW n \in DOMAIN tree, EntryPlaced(n) PROVE AInv'
  <2> DEFINE new == Len(orders) + 1
  <2>1. /\ Visits(n) /\ orders' = EntryOrder(n) /\ pendings' = pendings \cup {new}
        /\ tree' = tree
    BY <1>7 DEF EntryPlaced, MayEnter
  <2>2. n \in 1..Len(tree) /\ tree[n].status = "planned" /\ TrackedFor(n) = {}
    BY <1>1, <2>1 DEF Visits, IInv, TrackedInv
  <2>3. /\ KeepsOrders(orders, orders')
        /\ orders'[new].node = n /\ orders'[new].kind = "rotation_entry"
    BY <2>1, <2>2, EntryOrderPlaced
  <2>4. ASSUME NEW o \in pendings
        PROVE  /\ orders'[o].node = orders[o].node /\ orders'[o].kind = orders[o].kind
               /\ orders[o].node # n
    BY <1>1, <2>2, <2>3 DEF KeepsOrders, TrackedFor
  <2> HIDE DEF new
  <2>5. \A o, p \in pendings' : ClientId(o)' = ClientId(p)' => o = p
    <3> SUFFICES ASSUME NEW o \in pendings', NEW p \in pendings', ClientId(o)' = ClientId(p)'
                 PROVE  o = p
      OBVIOUS
    <3>1. orders'[o].node = orders'[p].node /\ orders'[o].kind = orders'[p].kind
      BY DEF ClientId
    <3>2. CASE o \in pendings /\ p \in pendings
      BY <2>4, <3>1, <3>2 DEF AInv, AloneInv, ClientId
    <3>3. CASE o = new \/ p = new
      BY <2>1, <2>3, <2>4, <3>1, <3>3
    <3> QED
      BY <2>1, <3>2, <3>3
  <2>6. ASSUME NEW o \in pendings'
        PROVE  IF orders'[o].kind = "rotation_entry" THEN StatusOf(o)' = "planned"
               ELSE StatusOf(o)' \notin {"planned", "open", "expired"}
    <3>1. CASE o \in pendings
      BY <2>1, <2>4, <3>1 DEF AInv, AloneInv, StatusOf
    <3>2. CASE o = new
      BY <2>1, <2>2, <2>3, <3>2 DEF StatusOf
    <3> QED
      BY <2>1, <3>1, <3>2
  <2> QED
    BY <1>3, <2>5, <2>6 DEF AInv, AloneInv
<1> QED
  BY <1>4, <1>6, <1>7 DEF Entries

\* Nothing is tracked, queued or to be visited at the start.
LEMMA AloneInit == Init => AInv
BY DEF Init, AInv, AloneInv, QueueInv, WorkInv, Early, Middle, Late

\* Every step keeps the order of things, as long as run_once is not suspended
\* between run_cycle and the tree.
LEMMA AloneNext == ConditionalTree = FALSE /\ IInv /\ AInv /\ [Next]_vars => AInv'
<1> SUFFICES ASSUME ConditionalTree = FALSE, IInv, AInv, [Next]_vars PROVE AInv'
  OBVIOUS
<1>1. CASE UNCHANGED vars
  <2>1. UNCHANGED <<orders, tree, pendings, fillQueue, reconcileDue, pc, work>>
    BY <1>1 DEF vars
  <2>2. Keeps(tree, tree') /\ KeepsOrders(orders, orders')
    BY <2>1, Sizes DEF Keeps, IInv, TypeInv
  <2> QED
    BY <2>1, <2>2, SameFrame
<1> QED
  BY <1>1, AloneExchange, AloneClock, AloneDeliver, AloneReconcile, AloneExpiry, AloneRoots,
     AloneFills, AloneTimeouts, AloneMonitor, AlonePlan, AloneEntries
  DEF Next, RunOnce

\* An order that reconciliation stops tracking and that was executed is queued.
LEMMA ForgottenIsQueued ==
  ASSUME IInv, AInv, [Next]_vars, pc = "reconcile",
         NEW o \in pendings \ pendings', orders[o].filled > 0
  PROVE  Len(fillQueue') > Len(fillQueue)
<1>1. PICK p \in OrderIds : RecoverFill(p) \/ TakeAsCancelled(p)
  BY DEF Next, vars, Exchange, CancelledOutside, Execute, Lose, bot, Clock, DeadlinePasses,
         FillTimeoutPasses, ReconcileIntervalPasses, CooldownPasses, Deliver, RunOnce, Reconcile,
         WakeUp, FetchOpenOrders, FetchTradeHistory, FetchFails, EndReconcile, RunCycle,
         CycleFails, PruneOrphanRoot, Expiry, BeginPlanner, EndExpiry, ExpirePlanned, ExpireOpen,
         ExpireRoot, ExpiresNow, Roots, SetRootDeadline, RecoverRoot, CloseExhaustedRoot,
         LeaveRoot, RootsDone, Fills, Settle, EndSettle, Timeouts, EndTimeouts, CancelStaleEntry,
         EscalateStaleExit, TimesOut, Monitor, EndMonitor, TriggerExit, Plan, EndPlan, PlanLeaf,
         Entries, EndRun, DropEntry, DeferEntry, EntryRefused, EntryReplyLost, EntryPlaced,
         MayEnter, Visits
<1>2. CASE RecoverFill(p)
  <2>1. \E f : fillQueue' = Append(fillQueue, f)
    BY <1>2 DEF RecoverFill
  <2>2. fillQueue \in Seq(FillType)
    BY DEF IInv, TypeInv
  <2> QED
    BY <2>1, <2>2
<1>3. CASE TakeAsCancelled(p)
  <2>1. /\ work # {} /\ p = Earliest(work) /\ pendings' = Untracked(p)
        /\ orders[p].filled = 0
    BY <1>3 DEF TakeAsCancelled, Recovered
  <2>2. ClientId(o) = ClientId(p)
    BY <2>1 DEF Untracked
  <2>3. p \in work
    BY <2>1, EarliestIsFirst DEF IInv, TypeInv
  <2>4. p = o
    BY <2>2, <2>3 DEF AInv, WorkInv, Missing
  <2> QED
    BY <2>1, <2>4
<1> QED
  BY <1>1, <1>2, <1>3

\* With the conditional tree off, reconciliation never takes an order the exchange has
\* executed, even in part, for a cancelled one.  What can be missing from the list of
\* open orders is then the only tracked order with its client order id, so the trades
\* found and the order forgotten are the same order's.
THEOREM ExecutedSeen ==
  ConditionalTree = FALSE => (Spec => ExecutedNotTakenAsCancelled)
<1> SUFFICES ASSUME ConditionalTree = FALSE PROVE Spec => ExecutedNotTakenAsCancelled
  OBVIOUS
<1>1. AInv /\ IInv /\ [Next]_vars => AInv'
  BY AloneNext
<1>2. AInv /\ IInv /\ [Next]_vars
        => [\A o \in pendings \ pendings' :
              (pc = "reconcile" /\ orders[o].filled > 0) => Len(fillQueue') > Len(fillQueue)]_vars
  BY ForgottenIsQueued
<1> QED
  BY <1>1, <1>2, AloneInit, RuntimeInv, PTL DEF Spec, ExecutedNotTakenAsCancelled
=============================================================================
