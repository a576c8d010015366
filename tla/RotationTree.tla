---------------------------- MODULE RotationTree ----------------------------
(***************************************************************************)
(* The rotation tree of trading/rotation_tree.py: a flat list of nodes and *)
(* the pure operations on it.  A node is known by its place in the list    *)
(* (the code numbers new ids with the length of the list); node 1 is the   *)
(* root, a holding of the portfolio.                                       *)
(*                                                                         *)
(* Quantities are whole units.  A node's own quantities are in the asset   *)
(* it holds; entryCost and proceeds are in its parent's.                   *)
(***************************************************************************)
EXTENDS Integers, Sequences, FiniteSets, FiniteSetsExt

CONSTANTS
  Pairs,      \* the pairs a node can be entered through
  BuyPairs,   \* of these, the ones entered by a BUY
  PriceOf     \* the reference price a pair is planned at

ASSUME PairsAssumption ==
  /\ BuyPairs \subseteq Pairs
  /\ PriceOf \in [Pairs -> Nat \ {0}]

Root == 1
NoParent == 0
NoPair == "no pair"

Statuses == {"planned", "open", "closing", "closed", "expired", "cancelled"}

\* deadline_at against the clock: not set, still ahead, or passed.
Deadlines == {"none", "ahead", "passed"}

NodeType ==
  [parent: Nat, depth: Nat, pair: Pairs \cup {NoPair}, status: Statuses,
   deadline: Deadlines,
   withinParent: BOOLEAN,  \* its deadline was cut to its parent's
   total: Nat, free: Nat, reserved: Nat, entryCost: Nat, proceeds: Nat]

RootNode(quantity) ==
  [parent |-> NoParent, depth |-> 0, pair |-> NoPair, status |-> "open",
   deadline |-> "none", withinParent |-> FALSE, total |-> quantity,
   free |-> quantity, reserved |-> 0, entryCost |-> 0, proceeds |-> 0]

live_nodes(tree) ==
  {n \in DOMAIN tree : tree[n].status \in {"planned", "open"}}

children_of(tree, p) == {n \in DOMAIN tree : tree[n].parent = p}

leaf_nodes(tree) ==
  {n \in live_nodes(tree) : children_of(tree, n) \cap live_nodes(tree) = {}}

\* Faulty: planned nodes do not expire.
expired_open_nodes(tree) ==
  {n \in live_nodes(tree) : tree[n].status = "open" /\ tree[n].deadline = "passed"}

expired_nodes(tree) == {n \in live_nodes(tree) : tree[n].deadline = "passed"}

\* What cascade_close and _root_has_live_descendants walk: every node under p,
\* whatever the status of those between (a parent precedes its children).
descendants(tree, p) ==
  LET under[n \in DOMAIN tree] ==
        /\ tree[n].parent # NoParent
        /\ tree[n].parent = p \/ under[tree[n].parent]
  IN {n \in DOMAIN tree : under[n]}

Monus(a, b) == IF a >= b THEN a - b ELSE 0

\* make_child_node: the child's deadline never lies after its parent's.
Child(tree, p, pair, quantity) ==
  [parent |-> p, depth |-> tree[p].depth + 1, pair |-> pair, status |-> "planned",
   deadline |-> "ahead", withinParent |-> tree[p].deadline # "none",
   total |-> quantity, free |-> quantity, reserved |-> 0, entryCost |-> 0,
   proceeds |-> 0]

SetStatus(tree, n, status) == [tree EXCEPT ![n].status = status]

\* Capital set aside in p comes back to what p may deploy.
Release(tree, p, unreserved, freed) ==
  IF p = NoParent THEN tree
  ELSE [tree EXCEPT ![p] = [@ EXCEPT !.reserved = Monus(tree[p].reserved, unreserved),
                                     !.free = tree[p].free + freed]]

\* Faulty: the capital is freed, but stays reserved.
cancel_planned_node_reserving(tree, n) ==
  IF tree[n].status # "planned" THEN tree
  ELSE SetStatus(Release(tree, tree[n].parent, 0, tree[n].total), n, "cancelled")

\* A no-op unless the node is still planned.
cancel_planned_node(tree, n) ==
  IF tree[n].status # "planned" THEN tree
  ELSE SetStatus(Release(tree, tree[n].parent, tree[n].total, tree[n].total),
                 n, "cancelled")

IsBuy(node) == node.pair \in BuyPairs

entry_base_quantity(node) ==
  IF IsBuy(node) THEN node.total \div PriceOf[node.pair] ELSE node.total

destination_quantity(node, quantity, price) ==
  IF IsBuy(node) THEN quantity ELSE quantity * price

exit_base_quantity(node, price) ==
  IF IsBuy(node) THEN node.total ELSE node.total \div price

exit_proceeds(node, quantity, price) ==
  IF IsBuy(node) THEN quantity * price ELSE quantity
=============================================================================
