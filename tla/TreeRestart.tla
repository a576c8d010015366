----------------------------- MODULE TreeRestart -----------------------------
(***************************************************************************)
(* The rotation tree over several processes: what SchedulerRuntime.__init__*)
(* of runtime_loop.py rebuilds of it from the wallet and from the table    *)
(* rotation_nodes, and what a cycle keeps of it there and in the table     *)
(* trade_outcomes.  The quantities and the exchange are RotationRuntime's; *)
(* here a node is its id and its status.                                   *)
(*                                                                         *)
(* An id tells the node's whole descent: make_child_node appends to the    *)
(* parent's id the asset and a number, the length of the list of nodes.    *)
(* The number starts again with every process, so nodes may share an id.   *)
(***************************************************************************)
EXTENDS Naturals, Sequences, FiniteSets, SequencesExt

CONSTANTS
  TreeAssets,     \* the assets of the pairs
  Wallets,        \* the sets of assets a wallet may hold enough of for a root
  TreeDepth,      \* RotationTreeState.max_depth
  TreeChildren,   \* rotation_max_children_per_parent
  TreeNodes,      \* bound on the nodes of a process
  TreeCycles,     \* bound on the cycles of all processes
  TreeFills       \* bound on the fills queued at a time

ASSUME TreeAssumption ==
  /\ IsFiniteSet(TreeAssets) /\ \A held \in Wallets : held \subseteq TreeAssets
  /\ TreeDepth \in Nat /\ TreeChildren \in Nat
  /\ TreeNodes \in Nat /\ TreeCycles \in Nat /\ TreeFills \in Nat

VARIABLES
  phase,      \* the part of the cycle the process is in, or "down"
  nodes,      \* _rotation_tree.nodes
  atStart,    \* how many of them __init__ made
  placed,     \* what pending_orders says of the tree: node id and kind
  filled,     \* _rotation_fill_queue
  leaves,     \* the leaves plan_cycle has still to visit
  table,      \* the rows of rotation_nodes: node id to status
  outcomes,   \* the ids of the children that have a row in trade_outcomes
  cycles      \* counts the cycles, for TreeCycles

memoryVars == <<nodes, atStart, placed, filled, leaves>>
treeVars == <<phase, memoryVars, table, outcomes, cycles>>

Live == {"planned", "open"}                              \* live_nodes
Unfinished == {"planned", "open", "closing", "expired"}  \* _LIVE_ROTATION_TREE_STATUSES

RootId(asset) == <<[asset |-> asset, n |-> 0]>>
AssetOf(id) == Last(id).asset
IsChild(id) == Len(id) > 1
IdsIn(list) == {list[i].id : i \in DOMAIN list}

\* update_node and close_node change every node with the id.
Marked(id, status) ==
  [i \in DOMAIN nodes |-> IF nodes[i].id = id THEN [nodes[i] EXCEPT !.status = status]
                          ELSE nodes[i]]

\* node_by_id: the first one.
node_by_id(id) ==
  nodes[CHOOSE i \in DOMAIN nodes :
          nodes[i].id = id /\ \A j \in 1..(i - 1) : nodes[j].id # id]

Cancelled(id) ==
  IF node_by_id(id).status = "planned" THEN Marked(id, "cancelled") ELSE nodes

TreeInit ==
  /\ phase = "down" /\ cycles = 0
  /\ nodes = <<>> /\ atStart = 0 /\ placed = {} /\ filled = <<>> /\ leaves = {}
  /\ table = <<>> /\ outcomes = {}

-----------------------------------------------------------------------------
(* __init__ *)

\* initialize_roots, for the assets of which the wallet holds enough at the
\* prices _collect_root_prices finds; a root keeps two of its old statuses.
Roots(held, restored) ==
  [i \in 1..Cardinality(held) |->
     LET id == RootId(SetToSeq(held)[i])
     IN [id |-> id,
         status |-> IF restored /\ id \in DOMAIN table /\ table[id] \in {"closing", "expired"}
                    THEN table[id] ELSE "open"]]

Restorable(id) == table[id] \in {"planned", "open", "closing"}

\* Faulty: children of children are not looked for.
ChildrenOfRoots(held) ==
  {id \in DOMAIN table : Len(id) = 2 /\ Restorable(id) /\ Head(id).asset \in held}

\* Read with the parents first, a child comes back if its parent is there.
Rehydrated(held) ==
  {id \in DOMAIN table :
     /\ IsChild(id) /\ Restorable(id) /\ Head(id).asset \in held
     /\ \A k \in 2..(Len(id) - 1) :
          SubSeq(id, 1, k) \in DOMAIN table /\ Restorable(SubSeq(id, 1, k))}

\* The lists of the ids, each once, those of parents before those of children.
ByDepth(ids) ==
  {s \in [1..Cardinality(ids) -> ids] :
     Range(s) = ids /\ \A i, j \in DOMAIN s : i < j => Len(s[i]) <= Len(s[j])}

\* The tree is restored whole, or not at all when the table cannot be read.  The
\* open orders come back without their node ids: none is known to be a node's.
StartTree(held, restored) ==
  /\ phase = "down" /\ cycles < TreeCycles
  /\ \E children \in ByDepth(IF restored THEN Rehydrated(held) ELSE {}) :
       nodes' = Roots(held, restored)
                \o [i \in DOMAIN children |-> [id |-> children[i], status |-> table[children[i]]]]
  /\ atStart' = Len(nodes')
  /\ phase' = "idle"
  /\ UNCHANGED <<placed, filled, leaves, table, outcomes, cycles>>

Forgotten ==
  /\ phase' = "down"
  /\ nodes' = <<>> /\ atStart' = 0 /\ placed' = {} /\ filled' = <<>> /\ leaves' = {}

\* The process is killed, at any point of its cycle.
TreeCrash ==
  /\ phase # "down"
  /\ Forgotten
  /\ UNCHANGED <<table, outcomes, cycles>>

-----------------------------------------------------------------------------
(* save_rotation_tree *)

\* The rows of unfinished nodes are deleted and every node but the cancelled ones
\* is written; of the nodes with one id, the last.
Saved(list) ==
  LET kept == {i \in DOMAIN list : list[i].status # "cancelled"}
      lastOf(id) == CHOOSE i \in kept : list[i].id = id /\ \A j \in kept : list[j].id = id => j <= i
      written == {list[i].id : i \in kept}
      closed == {id \in DOMAIN table : table[id] = "closed"}
  IN [id \in written \cup closed |-> IF id \in written THEN list[lastOf(id)].status ELSE "closed"]

\* A failure is logged, and rolled back.
SaveOrFail(list) == table' \in {Saved(list), table}

-----------------------------------------------------------------------------
(* Between two cycles: fills, reconciliation, pruning *)

\* The pending order of a partial fill, or of one to be recovered as well, stays.
FillQueued(p) ==
  /\ phase = "idle" /\ p \in placed /\ Len(filled) < TreeFills
  /\ filled' = Append(filled, p)
  /\ placed' \in {placed, placed \ {p}}
  /\ UNCHANGED <<phase, nodes, atStart, leaves, table, outcomes, cycles>>

\* _cancel_missing_pending_order.
OrderMissing(p) ==
  /\ phase = "idle" /\ p \in placed
  /\ nodes' = IF p.kind = "entry" THEN Cancelled(p.id) ELSE Marked(p.id, "open")
  /\ placed' = placed \ {p}
  /\ UNCHANGED <<phase, atStart, filled, leaves, table, outcomes, cycles>>

\* run_cycle of a reconciliation, which on this tier forgets every pending order.
OrdersForgotten ==
  /\ phase = "idle" /\ placed # {}
  /\ placed' = {}
  /\ UNCHANGED <<phase, nodes, atStart, filled, leaves, table, outcomes, cycles>>

Under(id) == {i \in DOMAIN nodes : IsStrictPrefix(id, nodes[i].id)}

\* _prune_orphan_roots, for roots of which the wallet holds too little.
PruneRoots(pruned) ==
  /\ phase = "idle" /\ pruned # {}
  /\ \A i \in pruned : /\ ~IsChild(nodes[i].id) /\ nodes[i].status \in Unfinished
                       /\ \A j \in Under(nodes[i].id) : nodes[j].status \notin Unfinished
  /\ nodes' = [i \in DOMAIN nodes |-> IF i \in pruned THEN [nodes[i] EXCEPT !.status = "closed"]
                                      ELSE nodes[i]]
  /\ SaveOrFail(nodes')
  /\ UNCHANGED <<phase, atStart, placed, filled, leaves, outcomes, cycles>>

-----------------------------------------------------------------------------
(* _maybe_run_rotation_planner, phase by phase *)

Follows == [idle |-> "expiry", expiry |-> "settle", settle |-> "watch",
            watch |-> "plan", plan |-> "entries"]

LiveNodes == {i \in DOMAIN nodes : nodes[i].status \in Live}

leaf_nodes == {i \in LiveNodes : \A j \in LiveNodes : nodes[i].id # Front(nodes[j].id)}

NextPhase ==
  /\ phase \in DOMAIN Follows
  /\ phase = "settle" => filled = <<>>
  /\ phase = "idle" => cycles < TreeCycles
  /\ cycles' = cycles + IF phase = "idle" THEN 1 ELSE 0
  /\ phase' = Follows[phase]
  /\ leaves' = IF phase = "watch" THEN leaf_nodes ELSE {}
  /\ UNCHANGED <<nodes, atStart, placed, filled, table, outcomes>>

\* The deadline has passed, or the entry is not to be placed.
GiveUpPlan(i) ==
  /\ phase \in {"expiry", "entries"}
  /\ IsChild(nodes[i].id) /\ nodes[i].status = "planned"
  /\ nodes' = Cancelled(nodes[i].id)
  /\ placed' = {p \in placed : p.id # nodes[i].id}
  /\ UNCHANGED <<phase, atStart, filled, leaves, table, outcomes, cycles>>

Exit(id) == [id |-> id, kind |-> "exit"]

\* _close_rotation_node: the exit is placed of a node expired, stopped or won.
PlaceExit(i) ==
  LET id == nodes[i].id
  IN /\ \/ phase = "expiry" /\ nodes[i].status = "open"
        \/ phase = "expiry" /\ nodes[i].status = "expired" /\ ~IsChild(id)
        \/ phase = "watch" /\ nodes[i].status = "open" /\ Exit(id) \notin placed
     /\ nodes' = Marked(id, "closing")
     /\ placed' = placed \cup {Exit(id)}
     /\ UNCHANGED <<phase, atStart, filled, leaves, table, outcomes, cycles>>

\* _check_rotation_fill_timeouts: an entry is given up; an exit is placed again
\* at the market, whatever has become of its node, or that order is refused.
OrderTimesOut(p) ==
  /\ phase = "watch" /\ p \in placed
  /\ LET others == {q \in placed : q.id # p.id}
     IN \/ /\ p.kind = "entry"
           /\ nodes' = Cancelled(p.id) /\ placed' = others
        \/ /\ p.kind = "exit"
           /\ \/ nodes' = Marked(p.id, "closing") /\ placed' = others \cup {p}
              \/ UNCHANGED nodes /\ placed' = others
  /\ UNCHANGED <<phase, atStart, filled, leaves, table, outcomes, cycles>>

\* A root that cannot be sold is marked expired, and opened again later.
MarkRoot(i) ==
  /\ ~IsChild(nodes[i].id)
  /\ \/ /\ phase \in {"expiry", "watch"} /\ nodes[i].status = "open"
        /\ nodes' = Marked(nodes[i].id, "expired")
     \/ /\ phase = "expiry" /\ nodes[i].status = "expired"
        /\ nodes' = Marked(nodes[i].id, "open")
  /\ UNCHANGED <<phase, atStart, placed, filled, leaves, table, outcomes, cycles>>

Children == {id \in IdsIn(nodes) : IsChild(id)}

\* Faulty: a trade's outcome that cannot be stored is passed over.
OutcomeStored(id) == outcomes' \in {outcomes, outcomes \cup ({id} \cap Children)}

StoreOutcome(id) == outcomes' = outcomes \cup ({id} \cap Children)

\* _settle_rotation_fills, one fill at a time.
SettleFill ==
  /\ phase = "settle" /\ filled # <<>>
  /\ LET fill == Head(filled)
     IN \/ /\ fill.kind = "entry"
           /\ nodes' = Marked(fill.id, "open")
           /\ UNCHANGED outcomes
        \/ /\ fill.kind = "exit"
           /\ nodes' = Marked(fill.id, "closed")
           /\ StoreOutcome(fill.id)
  /\ filled' = Tail(filled)
  /\ UNCHANGED <<phase, atStart, placed, leaves, table, cycles>>

\* insert_trade_outcome raises.  Nothing catches it: run_forever ends, the node it
\* had closed and the fills behind it are lost, and the tree is not saved.
OutcomeFails ==
  /\ phase = "settle" /\ filled # <<>> /\ Head(filled).kind = "exit"
  /\ Forgotten
  /\ UNCHANGED <<table, outcomes, cycles>>

\* Faulty: the children are numbered by the nodes still live.
LiveCount == Cardinality(LiveNodes)

\* child_seq of the first child; add_node makes it count up with the rest.
ChildSeq == Len(nodes)

HeldAssets == {AssetOf(nodes[i].id) : i \in LiveNodes}

\* plan_cycle, for a leaf and the candidates found for it.
PlanLeafNode(i, assets) ==
  /\ phase = "plan" /\ i \in leaves
  /\ Len(nodes[i].id) <= TreeDepth
  /\ IsInjective(assets) /\ HeldAssets \cap Range(assets) = {}
  /\ Len(nodes) + Len(assets) <= TreeNodes
  /\ nodes' = nodes \o
       [k \in DOMAIN assets |->
          [id |-> Append(nodes[i].id, [asset |-> assets[k], n |-> ChildSeq + k - 1]),
           status |-> "planned"]]
  /\ leaves' = {j \in leaves : j > i}
  /\ UNCHANGED <<phase, atStart, placed, filled, table, outcomes, cycles>>

\* _execute_rotation_entries: one order a cycle, for a plan that has none, and
\* the tree is saved.
EndCycle(entries) ==
  /\ phase = "entries"
  /\ Cardinality(entries) <= 1
  /\ \A i \in entries : /\ IsChild(nodes[i].id) /\ nodes[i].status = "planned"
                        /\ \A p \in placed : p.id # nodes[i].id
  /\ placed' = placed \cup {[id |-> nodes[i].id, kind |-> "entry"] : i \in entries}
  /\ phase' = "idle"
  /\ SaveOrFail(nodes)
  /\ UNCHANGED <<nodes, atStart, filled, leaves, outcomes, cycles>>

TreeNext ==
  \/ \E held \in Wallets, restored \in BOOLEAN : StartTree(held, restored)
  \/ TreeCrash
  \/ \E p \in placed : FillQueued(p) \/ OrderMissing(p) \/ OrderTimesOut(p)
  \/ OrdersForgotten
  \/ \E pruned \in SUBSET DOMAIN nodes : PruneRoots(pruned)
  \/ NextPhase
  \/ \E i \in DOMAIN nodes : \/ GiveUpPlan(i) \/ PlaceExit(i) \/ MarkRoot(i)
                             \/ \E k \in 1..TreeChildren : \E assets \in [1..k -> TreeAssets] :
                                  PlanLeafNode(i, assets)
  \/ SettleFill \/ OutcomeFails
  \/ \E entries \in SUBSET DOMAIN nodes : EndCycle(entries)

-----------------------------------------------------------------------------
(* Properties *)

\* Ids are not unique, since each process numbers its children anew; but a new
\* child shares its id only with a node this process was started with and which is
\* no longer traded into: no order or fill of a live node is taken for another's.
SharedIdsExplained ==
  [][phase = "plan" =>
       \A i \in DOMAIN nodes' \ DOMAIN nodes : \A j \in DOMAIN nodes :
         nodes[j].id = nodes'[i].id => j <= atStart /\ nodes[j].status \notin Live]_treeVars

\* A child is closed in the table only when its outcome is there too, whichever
\* write failed and wherever the process was killed: no result is lost unseen.
ClosedRowHasOutcome ==
  \A id \in DOMAIN table : (IsChild(id) /\ table[id] = "closed") => id \in outcomes

\* A position in a child is forgotten by the table only if the process found no
\* tree there, or not all of the child's ancestors: when some other child came
\* back, so did every child whose ancestors did.
OpenChildrenKept ==
  [][\A id \in DOMAIN table \ DOMAIN table' :
       (IsChild(id) /\ table[id] = "open" /\ id \notin IdsIn(nodes))
         => \/ \A i \in 1..atStart : ~IsChild(nodes[i].id)
            \/ SubSeq(id, 1, Len(id) - 1) \notin {nodes[i].id : i \in 1..atStart}]_treeVars
=============================================================================
