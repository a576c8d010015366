--------------------------- MODULE RotationRuntime ---------------------------
(***************************************************************************)
(* One asyncio task drives the rotation tree: SchedulerRuntime.run_once of *)
(* runtime_loop.py, with the fills the WebSocket task hands it while it    *)
(* is suspended, and the exchange its orders live on.                      *)
(*                                                                         *)
(* run_once suspends only where pc is in Awaits; everything between two    *)
(* suspensions runs without the WebSocket task, but the exchange goes on.  *)
(* The bot runs on the Starter tier, the only one client.py accepts, where *)
(* an order carries no client order id on the exchange.                    *)
(***************************************************************************)
EXTENDS RotationTree

CONSTANTS
  Capital,          \* the root's quantity
  Lots,             \* the allocations compute_child_allocations may make
  ExitPrices,       \* the prices an exit may be placed and filled at
  MaxDepth,         \* RotationTreeState.max_depth
  MaxChildren,      \* rotation_max_children_per_parent
  RootPair,         \* the root's exit pair, or NoPair
  ConditionalTree,  \* enable_conditional_tree
  MaxNodes,         \* bound on the nodes ever planned
  MaxOrders         \* bound on the orders ever placed

ASSUME RuntimeAssumption ==
  /\ Capital \in Nat
  /\ Lots \subseteq Nat \ {0}
  /\ ExitPrices \subseteq Nat \ {0}
  /\ MaxDepth \in Nat
  /\ MaxChildren \in Nat
  /\ RootPair \in Pairs \cup {NoPair}
  /\ ConditionalTree \in BOOLEAN
  /\ MaxNodes \in Nat
  /\ MaxOrders \in Nat

VARIABLES
  \* the exchange
  orders,        \* every order placed, in order: an order's id is its place
  feed,          \* executions on their way over the WebSocket
  \* the bot
  tree,          \* _rotation_tree
  pendings,      \* ids of the orders in bot_state.pending_orders
  stale,         \* of these, the ones older than their fill timeout
  fillQueue,     \* _rotation_fill_queue
  reconcileDue,  \* last_reconcile_at is None or an interval ago
  cooldowns,     \* _rotation_pair_cooldowns not yet over
  \* where run_once is
  pc,            \* the step it is about to take
  openSeen,      \* the open orders it has fetched for this reconciliation
  work,          \* the nodes or orders its current loop has still to visit
  \* a history of the settlements, which the code does not keep
  misled         \* a fill was credited to an order other than its own, or settled
                 \* on a node that no longer awaited it

exchange == <<orders, feed>>
bot == <<tree, pendings, stale, fillQueue, reconcileDue, cooldowns>>
control == <<pc, openSeen, work>>
vars == <<orders, feed, tree, pendings, stale, fillQueue, reconcileDue,
          cooldowns, pc, openSeen, work, misled>>

Kinds == {"rotation_entry", "rotation_exit"}

OrderType == [node: Nat, kind: Kinds, qty: Nat, price: Nat, filled: Nat,
              open: BOOLEAN]

Phases == {"idle", "fetchOrders", "fetchTrades", "reconcile", "ready", "effects",
           "expiry", "roots", "settle", "timeouts", "monitor", "plan", "entries"}

Awaits == {"idle", "ready"} \cup IF ConditionalTree THEN {"effects"} ELSE {}

OrderIds == DOMAIN orders
OpenOrders == {o \in OrderIds : orders[o].open}

PairOf(o) == tree[orders[o].node].pair

\* The client order id: derived from the node and the kind, so a node's second
\* entry order has the id of its first.
ClientId(o) == <<orders[o].node, orders[o].kind>>

Init ==
  /\ orders = <<>> /\ feed = <<>>
  /\ tree = <<RootNode(Capital)>>
  /\ pendings = {} /\ stale = {} /\ fillQueue = <<>>
  /\ reconcileDue = FALSE /\ cooldowns = {}
  /\ pc = "idle" /\ openSeen = {} /\ work = {}
  /\ misled = FALSE

-----------------------------------------------------------------------------
(* The exchange, and time *)

\* Part or all of an order is executed, and an execution message sent.
Execute(o, quantity) ==
  /\ orders[o].open
  /\ quantity <= orders[o].qty - orders[o].filled
  /\ orders' = [orders EXCEPT ![o] =
                  [@ EXCEPT !.filled = orders[o].filled + quantity,
                            !.open = orders[o].filled + quantity < orders[o].qty]]
  /\ feed' = Append(feed, [order |-> o, qty |-> quantity, price |-> orders[o].price])
  /\ UNCHANGED <<bot, control, misled>>

\* An order ends without the bot asking: the exchange or its user cancels it.
CancelledOutside(o) ==
  /\ orders[o].open
  /\ orders' = [orders EXCEPT ![o].open = FALSE]
  /\ UNCHANGED <<feed, bot, control, misled>>

\* A message is lost with the connection it was sent on, or its handler fails
\* while it refreshes the exchange state.
Lose ==
  /\ feed # <<>>
  /\ feed' = Tail(feed)
  /\ UNCHANGED <<orders, bot, control, misled>>

\* Time passes for a node; a child cut to its parent's deadline comes first.
DeadlinePasses(n) ==
  /\ pc = "idle"
  /\ tree[n].deadline = "ahead"
  /\ \A c \in children_of(tree, n) :
       tree[c].withinParent => tree[c].deadline = "passed"
  /\ tree' = [tree EXCEPT ![n].deadline = "passed"]
  /\ UNCHANGED <<exchange, pendings, stale, fillQueue, reconcileDue, cooldowns,
                 control, misled>>

FillTimeoutPasses(o) ==
  /\ pc = "idle"
  /\ o \in pendings \ stale
  /\ stale' = stale \cup {o}
  /\ UNCHANGED <<exchange, tree, pendings, fillQueue, reconcileDue, cooldowns,
                 control, misled>>

ReconcileIntervalPasses ==
  /\ pc = "idle"
  /\ ~reconcileDue
  /\ reconcileDue' = TRUE
  /\ UNCHANGED <<exchange, tree, pendings, stale, fillQueue, cooldowns, control,
                 misled>>

CooldownPasses(pair) ==
  /\ pc = "idle"
  /\ pair \in cooldowns
  /\ cooldowns' = cooldowns \ {pair}
  /\ UNCHANGED <<exchange, tree, pendings, stale, fillQueue, reconcileDue, control,
                 misled>>

-----------------------------------------------------------------------------
(* _handle_fill_confirmed, run by the WebSocket task *)

\* _find_pending_order: by exchange order id, else the only one of the pair.
MatchingPending(o) ==
  LET samePair == {p \in pendings : PairOf(p) = PairOf(o)}
  IN CASE o \in pendings -> {o}
       [] o \notin pendings /\ Cardinality(samePair) = 1 -> samePair
       [] OTHER -> {}

\* A fill of o has gone to another order, of whichever node and kind.
Misattributed(o, matched) == matched # {} /\ o \notin matched

FillOf(o, quantity, price) ==
  [node |-> orders[o].node, kind |-> orders[o].kind, qty |-> quantity, price |-> price]

\* The fill is queued for the tree, and the next cycle made to reconcile.  The
\* pending order itself stays: the reducer is to remove it in run_cycle.
Deliver ==
  /\ pc \in Awaits
  /\ feed # <<>>
  /\ LET msg == Head(feed)
         matched == MatchingPending(msg.order)
     IN /\ fillQueue' = IF matched = {} THEN fillQueue
                        ELSE Append(fillQueue, FillOf(CHOOSE p \in matched : TRUE,
                                                      msg.qty, msg.price))
        /\ misled' = (misled \/ Misattributed(msg.order, matched))
  /\ feed' = Tail(feed)
  /\ reconcileDue' = TRUE
  /\ UNCHANGED <<orders, tree, pendings, stale, cooldowns, control>>

-----------------------------------------------------------------------------
(* run_once: fetch_kraken_state and _reconcile_pending_orders *)

WakeUp ==
  /\ pc = "idle"
  /\ pc' = IF reconcileDue THEN "fetchOrders" ELSE "ready"
  /\ UNCHANGED <<exchange, bot, openSeen, work, misled>>

FetchOpenOrders ==
  /\ pc = "fetchOrders"
  /\ openSeen' = OpenOrders
  /\ pc' = "fetchTrades"
  /\ UNCHANGED <<exchange, bot, work, misled>>

\* The pending orders missing from the list fetched before are reconciled with
\* the trades fetched now: what is missing has ended, so its trades are all in.
FetchTradeHistory ==
  /\ pc = "fetchTrades"
  /\ work' = pendings \ openSeen
  /\ openSeen' = {}
  /\ pc' = "reconcile"
  /\ UNCHANGED <<exchange, bot, misled>>

\* A query fails: the cycle is over before it has done anything.
FetchFails ==
  /\ pc \in {"fetchOrders", "fetchTrades"}
  /\ pc' = "idle"
  /\ openSeen' = {}
  /\ UNCHANGED <<exchange, bot, work, misled>>

-----------------------------------------------------------------------------
(* _reconcile_pending_orders, one order of its loop at a time *)

Earliest(ids) == CHOOSE o \in ids : \A p \in ids : o <= p

\* Faulty: only an order executed in full counts.
RecoveredWhole(o) == IF orders[o].filled = orders[o].qty THEN orders[o].filled ELSE 0

\* _reconciled_fill_from_trade_history: the sum of the order's trades.
Recovered(o) == orders[o].filled

Untracked(o) == {p \in pendings : ClientId(p) # ClientId(o)}

\* The trades found are queued as one fill, and the order is no longer tracked.
RecoverFill(o) ==
  /\ pc = "reconcile" /\ work # {} /\ o = Earliest(work)
  /\ Recovered(o) > 0
  /\ LET same == pendings \ Untracked(o)
         matched == IF same # {} THEN {Earliest(same)} ELSE MatchingPending(o)
     IN /\ IF matched = {} THEN UNCHANGED <<fillQueue, pendings>>
           ELSE LET m == CHOOSE p \in matched : TRUE
                IN /\ fillQueue' = Append(fillQueue,
                                          FillOf(m, Recovered(o), orders[o].price))
                   /\ pendings' = Untracked(m)
        /\ misled' = (misled \/ Misattributed(o, matched))
  /\ stale' = stale \cap pendings'
  /\ work' = work \ {o}
  /\ UNCHANGED <<exchange, tree, reconcileDue, cooldowns, pc, openSeen>>

\* _cancel_missing_pending_order: nothing was traded, so nothing will be.
TakeAsCancelled(o) ==
  /\ pc = "reconcile" /\ work # {} /\ o = Earliest(work)
  /\ Recovered(o) = 0
  /\ tree' = IF orders[o].kind = "rotation_entry"
               THEN cancel_planned_node(tree, orders[o].node)
               ELSE SetStatus(tree, orders[o].node, "open")
  /\ pendings' = Untracked(o)
  /\ stale' = stale \cap pendings'
  /\ work' = work \ {o}
  /\ UNCHANGED <<exchange, fillQueue, reconcileDue, cooldowns, pc, openSeen, misled>>

EndReconcile ==
  /\ pc = "reconcile" /\ work = {}
  /\ pc' = "ready"
  /\ UNCHANGED <<exchange, bot, openSeen, work, misled>>

\* Scheduler.run_cycle.  The reducer's ReconciliationResult keeps the pending
\* orders whose client order id the exchange lists; on this tier it lists none.
RunCycle ==
  /\ pc = "ready"
  /\ pendings' = IF reconcileDue THEN {} ELSE pendings
  /\ stale' = stale \cap pendings'
  /\ reconcileDue' = FALSE
  /\ pc' = "effects"
  /\ UNCHANGED <<exchange, tree, fillQueue, cooldowns, openSeen, work, misled>>

\* The guardian misses the price of a core position, also when asked again: the
\* cycle is over, reconciled or not, before the tree is looked at.
CycleFails ==
  /\ pc = "ready"
  /\ pc' = "idle"
  /\ UNCHANGED <<exchange, bot, openSeen, work, misled>>

\* _prune_orphan_roots, for a root of which the wallet holds too little.
PruneOrphanRoot ==
  /\ pc = "effects"
  /\ tree[Root].status \in {"planned", "open", "closing", "expired"}
  /\ \A n \in descendants(tree, Root) : tree[n].status \in {"closed", "cancelled"}
  /\ tree' = SetStatus(tree, Root, "closed")
  /\ UNCHANGED <<exchange, pendings, stale, fillQueue, reconcileDue, cooldowns,
                 control, misled>>

\* _maybe_run_rotation_planner begins, with the nodes expired by now.
BeginPlanner ==
  /\ pc = "effects"
  /\ pc' = "expiry"
  /\ work' = expired_nodes(tree)
  /\ UNCHANGED <<exchange, bot, openSeen, misled>>

-----------------------------------------------------------------------------
(* Placing and cancelling orders *)

With(os, n, kind, quantity, price) ==
  Append(os, [node |-> n, kind |-> kind, qty |-> quantity, price |-> price,
              filled |-> 0, open |-> TRUE])

TrackedFor(n) == {o \in pendings : orders[o].node = n}

\* _execute_cancel_order resolves the client order id among the orders the bot
\* tracks.  Whether the exchange carried it out, refused it or never saw it, its
\* caller goes on as if it had.
AfterCancel(o) ==
  LET tracked == pendings \ Untracked(o)
  IN {orders} \cup IF tracked = {} THEN {}
                   ELSE {[orders EXCEPT ![Earliest(tracked)].open = FALSE]}

\* What an exit at this price may sell or buy back; a sale is capped by the
\* balance the bot last fetched.
ExitQuantities(node, price) ==
  LET base == exit_base_quantity(node, price)
  IN IF IsBuy(node) THEN 1..base ELSE {base}

\* _close_rotation_node, on the tree t, with the orders os on the exchange and
\* those of tracked known to the bot.  Refused, or the reply lost: the node stays
\* as it was.  A root no price is known of is only marked.
CloseNode(n, t, os, tracked) ==
  \/ tree' = t /\ orders' = os /\ pendings' = tracked
  \/ /\ n = Root
     /\ tree' = SetStatus(t, n, "expired") /\ orders' = os /\ pendings' = tracked
  \/ /\ Len(os) < MaxOrders
     /\ \E price \in ExitPrices : \E quantity \in ExitQuantities(t[n], price) :
          orders' = With(os, n, "rotation_exit", quantity, price)
     /\ \/ tree' = SetStatus(t, n, "closing") /\ pendings' = tracked \cup {Len(os) + 1}
        \/ tree' = t /\ pendings' = tracked

-----------------------------------------------------------------------------
(* _handle_rotation_expiry *)

\* Deepest first.
ExpiresNow(n) == /\ pc = "expiry" /\ n \in work
                 /\ \A m \in work : tree[m].depth <= tree[n].depth

Expired(n) == /\ work' = work \ {n}
              /\ stale' = stale \cap pendings'
              /\ UNCHANGED <<feed, fillQueue, reconcileDue, cooldowns, pc, openSeen, misled>>

\* _cancel_rotation_entry.
ExpirePlanned(n) ==
  /\ ExpiresNow(n) /\ tree[n].status = "planned"
  /\ orders' \in IF TrackedFor(n) = {} THEN {orders}
                 ELSE AfterCancel(Earliest(TrackedFor(n)))
  /\ pendings' = pendings \ TrackedFor(n)
  /\ tree' = cancel_planned_node(tree, n)
  /\ Expired(n)

ExpireOpen(n) ==
  /\ ExpiresNow(n) /\ tree[n].status = "open" /\ n # Root
  /\ CloseNode(n, tree, orders, pendings)
  /\ Expired(n)

\* _handle_root_expiry: extended, put off until it can be judged, or sold.
ExpireRoot(n) ==
  /\ ExpiresNow(n) /\ n = Root
  /\ \/ /\ \E d \in {"none", "ahead"} : tree' = [tree EXCEPT ![n].deadline = d]
        /\ UNCHANGED <<orders, pendings>>
     \/ /\ RootPair # NoPair
        /\ CloseNode(n, [tree EXCEPT ![n].pair = RootPair], orders, pendings)
  /\ Expired(n)

EndExpiry ==
  /\ pc = "expiry" /\ work = {}
  /\ pc' = "roots"
  /\ UNCHANGED <<exchange, bot, openSeen, work, misled>>

-----------------------------------------------------------------------------
(* _evaluate_root_deadlines *)

RootsDone == /\ pc = "roots" /\ pc' = "settle"
             /\ UNCHANGED <<feed, fillQueue, reconcileDue, cooldowns, openSeen, work,
                            misled>>

\* A root without a deadline gets one, with the pair it would be sold through,
\* unless there is none or its market cannot be judged.
SetRootDeadline ==
  /\ RootsDone
  /\ RootPair # NoPair
  /\ tree[Root].status = "open" /\ tree[Root].deadline = "none"
  /\ tree' = [tree EXCEPT ![Root] = [@ EXCEPT !.deadline = "ahead", !.pair = RootPair]]
  /\ UNCHANGED <<orders, pendings, stale>>

RecoverRoot ==
  /\ RootsDone
  /\ tree[Root].status = "expired"
  /\ tree' = [tree EXCEPT ![Root] = [@ EXCEPT !.status = "open", !.deadline = "none"]]
  /\ UNCHANGED <<orders, pendings, stale>>

\* After three recoveries, which are not counted here.
CloseExhaustedRoot ==
  /\ RootsDone
  /\ tree[Root].status = "expired"
  /\ CloseNode(Root, tree, orders, pendings)
  /\ UNCHANGED stale

LeaveRoot ==
  /\ RootsDone
  /\ tree[Root].status # "expired"
  /\ UNCHANGED <<orders, tree, pendings, stale>>

-----------------------------------------------------------------------------
(* _settle_rotation_fills, one fill of the queue at a time *)

\* Faulty: what the entry did not spend is not refunded.
OpenedByUnrefunded(fill) ==
  LET node == tree[fill.node]
      cost == IF IsBuy(node) THEN fill.qty * fill.price ELSE fill.qty
      dest == destination_quantity(node, fill.qty, fill.price)
      opened == [tree EXCEPT ![fill.node] =
                   [@ EXCEPT !.status = "open", !.total = dest, !.free = dest,
                             !.reserved = 0, !.entryCost = cost]]
  IN Release(opened, node.parent, node.total, 0)

\* Whatever has become of the node, a fill of its entry opens it.
OpenedBy(fill) ==
  LET node == tree[fill.node]
      cost == IF IsBuy(node) THEN fill.qty * fill.price ELSE fill.qty
      dest == destination_quantity(node, fill.qty, fill.price)
      opened == [tree EXCEPT ![fill.node] =
                   [@ EXCEPT !.status = "open", !.total = dest, !.free = dest,
                             !.reserved = 0, !.entryCost = cost]]
  IN Release(opened, node.parent, node.total, Monus(node.total, cost))

\* Faulty: the proceeds are the quantity sold, whatever its price.
ClosedByUnpriced(fill) ==
  LET node == tree[fill.node]
      closed == [tree EXCEPT ![fill.node].status = "closed",
                             ![fill.node].proceeds =
                               exit_proceeds(node, fill.qty, fill.price)]
  IN Release(closed, node.parent, 0, fill.qty)

\* Likewise, a fill of its exit closes it and hands its proceeds to the parent.
ClosedBy(fill) ==
  LET node == tree[fill.node]
      proceeds == IF fill.node = Root THEN fill.qty * fill.price
                  ELSE exit_proceeds(node, fill.qty, fill.price)
      closed == [tree EXCEPT ![fill.node] =
                   [@ EXCEPT !.status = "closed", !.proceeds = proceeds]]
  IN Release(closed, node.parent, 0, proceeds)

Awaited == [rotation_entry |-> "planned", rotation_exit |-> "closing"]

\* Faulty: the queue is not cleared.
SettleUncleared ==
  /\ pc = "settle" /\ fillQueue # <<>>
  /\ LET fill == Head(fillQueue)
     IN tree' = IF fill.kind = "rotation_entry" THEN OpenedBy(fill) ELSE ClosedBy(fill)
  /\ UNCHANGED <<exchange, pendings, stale, fillQueue, reconcileDue, cooldowns,
                 control, misled>>

Settle ==
  /\ pc = "settle" /\ fillQueue # <<>>
  /\ LET fill == Head(fillQueue)
     IN /\ tree' = IF fill.kind = "rotation_entry" THEN OpenedBy(fill) ELSE ClosedBy(fill)
        /\ misled' = (misled \/ tree[fill.node].status # Awaited[fill.kind])
  /\ fillQueue' = Tail(fillQueue)
  /\ UNCHANGED <<exchange, pendings, stale, reconcileDue, cooldowns, control>>

EndSettle ==
  /\ pc = "settle" /\ fillQueue = <<>>
  /\ pc' = "timeouts"
  /\ work' = stale
  /\ UNCHANGED <<exchange, bot, openSeen, misled>>

-----------------------------------------------------------------------------
(* _check_rotation_fill_timeouts, one order of its loop at a time *)

TimesOut(o) == pc = "timeouts" /\ work # {} /\ o = Earliest(work)

TimedOut(o) == /\ work' = work \ {o}
               /\ stale' = stale \cap pendings'
               /\ UNCHANGED <<feed, fillQueue, reconcileDue, pc, openSeen, misled>>

\* Faulty: the order stays tracked.
CancelStaleEntryTracked(o) ==
  /\ TimesOut(o) /\ orders[o].kind = "rotation_entry"
  /\ orders' \in AfterCancel(o)
  /\ tree' = cancel_planned_node(tree, orders[o].node)
  /\ cooldowns' = cooldowns \cup {PairOf(o)}
  /\ UNCHANGED pendings
  /\ TimedOut(o)

CancelStaleEntry(o) ==
  /\ TimesOut(o) /\ orders[o].kind = "rotation_entry"
  /\ orders' \in AfterCancel(o)
  /\ pendings' = pendings \ TrackedFor(orders[o].node)
  /\ tree' = cancel_planned_node(tree, orders[o].node)
  /\ cooldowns' = cooldowns \cup {PairOf(o)}
  /\ TimedOut(o)

\* The exit is placed again at the market, whatever has become of the node.
EscalateStaleExit(o) ==
  /\ TimesOut(o) /\ orders[o].kind = "rotation_exit"
  /\ \E os \in AfterCancel(o) :
       CloseNode(orders[o].node, tree, os, pendings \ TrackedFor(orders[o].node))
  /\ UNCHANGED cooldowns
  /\ TimedOut(o)

\* Faulty: the prices of closed nodes are watched too.
EndTimeoutsAny ==
  /\ pc = "timeouts" /\ work = {}
  /\ pc' = "monitor"
  /\ work' = {n \in DOMAIN tree : /\ tree[n].status \in {"open", "closed"}
                                  /\ tree[n].pair # NoPair
                                  /\ \A o \in TrackedFor(n) : orders[o].kind = "rotation_entry"}
  /\ UNCHANGED <<exchange, bot, openSeen, misled>>

EndTimeouts ==
  /\ pc = "timeouts" /\ work = {}
  /\ pc' = "monitor"
  /\ work' = {n \in DOMAIN tree : /\ tree[n].status = "open" /\ tree[n].pair # NoPair
                                  /\ \A o \in TrackedFor(n) : orders[o].kind = "rotation_entry"}
  /\ UNCHANGED <<exchange, bot, openSeen, misled>>

-----------------------------------------------------------------------------
(* _monitor_rotation_prices, for the open nodes not awaiting an exit *)

\* A price has reached the node's take-profit or stop-loss.
TriggerExit(n) ==
  /\ pc = "monitor" /\ n \in work
  /\ CloseNode(n, tree, orders, pendings)
  /\ work' = work \ {n}
  /\ UNCHANGED <<feed, stale, fillQueue, reconcileDue, cooldowns, pc, openSeen, misled>>

\* plan_cycle begins, if PLAN_INTERVAL_SEC has passed.
EndMonitor ==
  /\ pc = "monitor"
  /\ pc' = "plan"
  /\ work' \in {leaf_nodes(tree), {}}
  /\ UNCHANGED <<exchange, bot, openSeen, misled>>

-----------------------------------------------------------------------------
(* RotationTreePlanner.plan_cycle, one leaf at a time *)

Shares(allocated) ==
  SumFunctionOnSet([i \in DOMAIN allocated |-> allocated[i].qty], DOMAIN allocated)

\* What compute_child_allocations may return: no more than four fifths of what is
\* free, and for several children no more than three fifths to each.
Allocations(n) ==
  LET held == {tree[m].pair : m \in live_nodes(tree)}
  IN {a \in UNION {[1..k -> [pair : Pairs \ held, qty : Lots]] : k \in 1..MaxChildren} :
        /\ \A i, j \in DOMAIN a : a[i].pair = a[j].pair => i = j
        /\ Shares(a) \in 0..tree[n].free /\ Shares(a) * 5 <= tree[n].free * 4
        /\ Len(a) > 1 => \A i \in DOMAIN a : a[i].qty * 5 <= tree[n].free * 3}

\* The leaf is passed over when it is too deep or too near its deadline, or no
\* candidate is found.
PlanLeaf(n) ==
  /\ pc = "plan" /\ n \in work
  /\ tree[n].depth < MaxDepth
  /\ tree[n].deadline # "passed"
  /\ \E a \in Allocations(n) :
       /\ Len(tree) + Len(a) <= MaxNodes
       /\ tree' = [tree EXCEPT ![n] = [@ EXCEPT !.free = Monus(tree[n].free, Shares(a)),
                                               !.reserved = tree[n].reserved + Shares(a)]]
                  \o [i \in DOMAIN a |-> Child(tree, n, a[i].pair, a[i].qty)]
  /\ work' = work \ {n}
  /\ UNCHANGED <<exchange, pendings, stale, fillQueue, reconcileDue, cooldowns, pc,
                 openSeen, misled>>

EndPlan ==
  /\ pc = "plan"
  /\ pc' = "entries"
  /\ work' = {n \in DOMAIN tree : /\ tree[n].status = "planned" /\ tree[n].depth > 0
                                  /\ TrackedFor(n) = {}}
  /\ UNCHANGED <<exchange, bot, openSeen, misled>>

-----------------------------------------------------------------------------
(* _execute_rotation_entries, in the order of the nodes' confidence *)

Visits(n) == pc = "entries" /\ n \in work

Visited(n) == /\ work' = work \ {n}
              /\ UNCHANGED <<feed, stale, fillQueue, reconcileDue, pc, openSeen, misled>>

\* The pair is cooling down, opposed by the 15-minute bars too often, or the
\* balance does not cover it.
DropEntry(n) ==
  /\ Visits(n)
  /\ tree' = cancel_planned_node(tree, n)
  /\ UNCHANGED <<orders, pendings, cooldowns>>
  /\ Visited(n)

MayEnter(n) == Visits(n) /\ tree[n].pair \notin cooldowns

\* Put off (opposed, rate limited, safe mode), or refused but for the last time.
\* Retries and deferrals are not counted here.
DeferEntry(n) ==
  /\ MayEnter(n)
  /\ UNCHANGED <<orders, tree, pendings, cooldowns>>
  /\ Visited(n)

GiveUpEntry(n) == /\ tree' = cancel_planned_node(tree, n)
                  /\ cooldowns' = cooldowns \cup {tree[n].pair}

\* Insufficient funds, or the last retry refused.
EntryRefused(n) ==
  /\ MayEnter(n)
  /\ GiveUpEntry(n)
  /\ UNCHANGED <<orders, pendings>>
  /\ Visited(n)

EntryOrder(n) == With(orders, n, "rotation_entry", entry_base_quantity(tree[n]),
                      PriceOf[tree[n].pair])

\* The order is placed but AddOrder's reply is lost: execute_order raises.
EntryReplyLost(n) ==
  /\ MayEnter(n)
  /\ Len(orders) < MaxOrders
  /\ orders' = EntryOrder(n)
  /\ GiveUpEntry(n) \/ UNCHANGED <<tree, cooldowns>>
  /\ UNCHANGED pendings
  /\ Visited(n)

\* One order a cycle: the first placed ends the loop, and run_once.
EntryPlaced(n) ==
  /\ MayEnter(n)
  /\ Len(orders) < MaxOrders
  /\ orders' = EntryOrder(n)
  /\ pendings' = pendings \cup {Len(orders) + 1}
  /\ pc' = "idle" /\ work' = {}
  /\ UNCHANGED <<feed, tree, stale, fillQueue, reconcileDue, cooldowns, openSeen, misled>>

EndRun ==
  /\ pc = "entries" /\ work = {}
  /\ pc' = "idle"
  /\ UNCHANGED <<exchange, bot, openSeen, work, misled>>

-----------------------------------------------------------------------------

Exchange == \/ \E o \in OrderIds :
                 CancelledOutside(o) \/ \E q \in 1..orders[o].qty : Execute(o, q)
            \/ Lose

Clock == \/ \E n \in DOMAIN tree : DeadlinePasses(n)
         \/ \E o \in OrderIds : FillTimeoutPasses(o)
         \/ ReconcileIntervalPasses
         \/ \E pair \in Pairs : CooldownPasses(pair)

Reconcile == \/ WakeUp \/ FetchOpenOrders \/ FetchTradeHistory \/ FetchFails
             \/ \E o \in OrderIds : RecoverFill(o) \/ TakeAsCancelled(o)
             \/ EndReconcile \/ RunCycle \/ CycleFails \/ PruneOrphanRoot

\* The steps of _maybe_run_rotation_planner, in their order.
Expiry == \/ BeginPlanner \/ EndExpiry
          \/ \E n \in DOMAIN tree : ExpirePlanned(n) \/ ExpireOpen(n) \/ ExpireRoot(n)
Roots == SetRootDeadline \/ RecoverRoot \/ CloseExhaustedRoot \/ LeaveRoot
Fills == Settle \/ EndSettle
Timeouts == EndTimeouts \/ \E o \in OrderIds : CancelStaleEntry(o) \/ EscalateStaleExit(o)
Monitor == EndMonitor \/ \E n \in DOMAIN tree : TriggerExit(n)
Plan == EndPlan \/ \E n \in DOMAIN tree : PlanLeaf(n)
Entries == \/ EndRun
           \/ \E n \in DOMAIN tree : \/ DropEntry(n) \/ DeferEntry(n) \/ EntryRefused(n)
                                     \/ EntryReplyLost(n) \/ EntryPlaced(n)

RunOnce == Reconcile \/ Expiry \/ Roots \/ Fills \/ Timeouts \/ Monitor \/ Plan \/ Entries

Next == Exchange \/ Clock \/ Deliver \/ RunOnce

Spec == Init /\ [][Next]_vars

\* run_forever calls run_once for ever, and no step of it waits for anything but
\* the two queries and the guardian's prices, which may fail and do not fail for
\* ever.
FairSpec == /\ Spec
            /\ WF_vars(RunOnce)
            /\ SF_vars(FetchOpenOrders)
            /\ SF_vars(FetchTradeHistory)
            /\ SF_vars(RunCycle)

-----------------------------------------------------------------------------
(* Properties *)

\* The types of the bot's and the exchange's state.
TypeOK ==
  /\ orders \in Seq(OrderType)
  /\ feed \in Seq([order : Nat, qty : Nat, price : Nat])
  /\ tree \in Seq(NodeType)
  /\ stale \subseteq pendings /\ pendings \subseteq OrderIds
  /\ fillQueue \in Seq([node : Nat, kind : Kinds, qty : Nat, price : Nat])
  /\ reconcileDue \in BOOLEAN /\ cooldowns \subseteq Pairs
  /\ pc \in Phases /\ openSeen \subseteq OrderIds /\ work \subseteq Nat
  /\ misled \in BOOLEAN

PlannedTotal(n) ==
  SumFunctionOnSet([c \in DOMAIN tree |-> tree[c].total],
                   {c \in children_of(tree, n) : tree[c].status = "planned"})

Spent(n) ==
  SumFunctionOnSet([c \in DOMAIN tree |-> tree[c].entryCost], children_of(tree, n))

Earned(n) ==
  SumFunctionOnSet([c \in DOMAIN tree |-> tree[c].proceeds], children_of(tree, n))

\* Capital is never set aside for nothing: what a node holds reserved is backed
\* by the children planned with it, whatever fills, expiries, cancellations and
\* timeouts, also repeated or out of order, have done to them.
ReservedBacked == \A n \in DOMAIN tree : tree[n].reserved <= PlannedTotal(n)

\* While every fill has been settled on a node that awaited it, what the root had
\* is what it has free, reserved and spent on entries, less the exits' proceeds.
RootCapitalConserved ==
  \/ misled
  \/ /\ tree[Root].free + tree[Root].reserved + Spent(Root) = Capital + Earned(Root)
     /\ tree[Root].reserved = PlannedTotal(Root)

\* A cancelled node's orders are no longer tracked: their capital has gone back to
\* the parent, and no fill the bot attributes to them will be settled on it.
CancelledUntracked ==
  \A o \in pendings : tree[orders[o].node].status # "cancelled"

\* Reconciliation never takes an order the exchange has executed, even in part,
\* for a cancelled one: when it stops tracking such an order, it queues a fill.
ExecutedNotTakenAsCancelled ==
  [][\A o \in pendings \ pendings' :
       (pc = "reconcile" /\ orders[o].filled > 0) => Len(fillQueue') > Len(fillQueue)]_vars

PlanExpired(n) == /\ n \in DOMAIN tree
                  /\ tree[n].status = "planned" /\ tree[n].deadline = "passed"

\* A child that was closed or cancelled is not opened or sold again, unless by a
\* fill that went astray.
TerminalStatusesLast ==
  [][\A n \in DOMAIN tree \ {Root} :
       (tree[n].status \in {"closed", "cancelled"} /\ tree'[n].status # tree[n].status)
         => misled']_vars

\* A planned child whose deadline has passed does not stay planned.
ExpiredPlanResolved == \A n \in 1..MaxNodes : PlanExpired(n) ~> ~PlanExpired(n)

\* Every fill handed over is settled in the end.
FillsSettled == (fillQueue # <<>>) ~> (fillQueue = <<>>)

\* "Build set of node IDs that already have pending orders": the entries are only
\* placed for the other nodes, so a node has one live entry order at most.
OneLiveEntryPerNode ==
  \A o, p \in OpenOrders :
    (ClientId(o) = ClientId(p) /\ orders[o].kind = "rotation_entry") => o = p

\* "quantity_free + quantity_reserved <= quantity_total": until the proceeds of an
\* exit come in, a node has no more to deploy than it was entered with.
FreeReservedWithinTotal ==
  \A n \in DOMAIN tree :
    (\A c \in children_of(tree, n) : tree[c].proceeds = 0)
      => tree[n].free + tree[n].reserved <= tree[n].total

\* "Parent expires: force-close all descendants first (bottom-up)": when the exit
\* of an expired node is placed, none of those under it still has any capital.
ParentClosesLast ==
  [][\A o \in DOMAIN orders' \ OrderIds :
       (pc = "expiry" /\ orders'[o].kind = "rotation_exit")
         => \A n \in descendants(tree, orders'[o].node) :
              tree[n].status \in {"closed", "cancelled", "expired"}]_vars
=============================================================================
