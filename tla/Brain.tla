------------------------------- MODULE Brain -------------------------------
(***************************************************************************)
(* scripts/cc_brain.py: a second trader beside the runtime, in a process   *)
(* of its own.  Each cycle is a long sequence of calls to the bot's web    *)
(* API (web/routes.py), and fetch turns every failure into an answer that  *)
(* most callers read as "nothing there".                                   *)
(*                                                                         *)
(* Scores, prices, sizes, minimums and the wallet are abstracted: the      *)
(* holdings may be anything, whatever passes the filters may be chosen,    *)
(* and the exchange may refuse any order.  An asset has two pairs, one     *)
(* quoted in USD and one in another asset.  A pending_order memory is as   *)
(* old as its order; that memories are searched 24 hours back only is not  *)
(* modelled.                                                               *)
(***************************************************************************)
EXTENDS Naturals, FiniteSets

CONSTANTS
  BrainAssets,
  Renamed,          \* the pairs that the exchange's list gives another name
  StaleOrderHours,       \* STALE_ORDER_HOURS
  MaxOrders,        \* bound on the orders placed
  MaxFailures       \* bound on the calls that fail

ASSUME BrainAssumption ==
  Renamed \subseteq BrainAssets \X {"usd", "cross"} /\
  StaleOrderHours \in Nat /\ MaxOrders \in Nat /\ MaxFailures \in Nat

VARIABLES
  order,        \* the orders on the exchange: pair, who placed it why ("unchecked"
                \* stands for the brain's reasons that look at no pending order),
                \* how old, and what the decision for it could not read: nothing,
                \* the memory, or the open orders
  roots,        \* the assets of the open roots of the rotation tree
  remembered,   \* the memories: pending orders,
  blocked,      \* and blocked pairs
  step,         \* where the cycle is
  todo,         \* the orders to cancel, or the assets to sell
  handled,      \* the orders the cycle tried to cancel
  view,         \* the open roots as the cycle saw them
  unseen,       \* the open roots it did not see, once it looked: a history
  choice,       \* orders_to_place: at most one
  failures      \* counts the failed calls, for MaxFailures

brainVars ==
  <<order, roots, remembered, blocked, step, todo, handled, view,
    unseen, choice, failures>>

OrderIds == 1 .. MaxOrders
BrainPairs == BrainAssets \X {"usd", "cross"}
Base(pair) == pair[1]
Usd(x) == <<x, "usd">>

NoOrder ==
  [status |-> "none", pair |-> <<"none", "none">>, why |-> "none", age |-> 0,
   unread |-> "nothing"]
Nothing == [pair |-> <<"none", "none">>, why |-> "none", unread |-> "nothing"]

BrainInit ==
  /\ order = [o \in OrderIds |-> NoOrder]
  /\ roots = {}
  /\ remembered = {} /\ blocked = {}
  /\ step = "asleep" /\ todo = {} /\ handled = {} /\ view = {} /\ unseen = {}
  /\ choice = Nothing /\ failures = 0

Live == {o \in OrderIds : order[o].status = "live"}
Unused == {o \in OrderIds : order[o].status = "none"}
NextId == Cardinality(OrderIds \ Unused) + 1
Stale == {o \in OrderIds : order[o].age >= StaleOrderHours}

\* fetch: n of the calls of a step end in an error that tells nothing.
Failing(n) == failures + n <= MaxFailures /\ failures' = failures + n
Works == UNCHANGED failures

Count(lost) == IF lost THEN 1 ELSE 0

\* What the scores of the analyses let through, what the values of the holdings
\* make dust, and what fits the pairs' minimums and the wallet: anything.
Attractive == SUBSET BrainPairs
Dusty(assets) == SUBSET assets
Affordable == SUBSET BrainPairs

\* CCMemory: an SQL error is an empty answer to a query, and a write that failed
\* is answered like one that did not.
Query(memories, answer) == (Works /\ answer = memories) \/ (Failing(1) /\ answer = {})
Write(o) ==
  \/ Works /\ remembered' = remembered \union {o}
  \/ Failing(1) /\ UNCHANGED remembered

memories == <<remembered, blocked>>
exchange == <<order, roots>>
seeing == <<view, unseen>>

-----------------------------------------------------------------------------
(* The exchange, and everybody else who trades on the account *)

NewOrder(o, pair, why, unread) ==
  order' = [order EXCEPT ![o] =
    [status |-> "live", pair |-> pair, why |-> why, age |-> 0, unread |-> unread]]

\* The steps after it looked at the tree.
Looked == {"decide", "act", "dust", "sellDust", "sellUntracked"}

GoneOrder == [NoOrder EXCEPT !.status = "gone", !.age = StaleOrderHours]

\* Executed or cancelled: of an order that is gone only the memory matters.
Ended(o) ==
  [order EXCEPT ![o] =
     IF o \in remembered
       THEN [GoneOrder EXCEPT !.pair = order[o].pair, !.age = order[o].age]
       ELSE GoneOrder]

Young == {o \in OrderIds \ Unused : order[o].age < StaleOrderHours}

OrdersAge ==
  /\ Young # {}
  /\ order' = [o \in OrderIds |->
       IF o \in Young THEN [order[o] EXCEPT !.age = @ + 1] ELSE order[o]]
  /\ UNCHANGED <<roots, memories, step, todo, handled, seeing, choice, failures>>

Executes(o) ==
  /\ o \in Live
  /\ order' = Ended(o)
  /\ UNCHANGED <<roots, memories, step, todo, handled, seeing, choice, failures>>

\* The runtime, or a person, through the same web API or not.
OthersOrder(pair) ==
  /\ Unused # {}
  /\ NewOrder(NextId, pair, "other", "nothing")
  /\ UNCHANGED <<roots, memories, step, todo, handled, seeing, choice, failures>>

\* The runtime opens a root, and closes it, while the brain computes.
RootOpens(x) ==
  /\ x \notin roots
  /\ roots' = roots \union {x}
  /\ unseen' = IF step \in Looked THEN unseen \union {x} ELSE unseen
  /\ UNCHANGED <<order, memories, step, todo, handled, view, choice, failures>>

RootCloses(x) ==
  /\ x \in roots
  /\ roots' = roots \ {x} /\ unseen' = unseen \ {x}
  /\ UNCHANGED <<order, memories, step, todo, handled, view, choice, failures>>

-----------------------------------------------------------------------------
(* Recall: check_pending_orders *)

StartCycle ==
  /\ step = "asleep"
  /\ step' = "recall"
  /\ UNCHANGED <<exchange, memories, todo, handled, seeing, choice, failures>>

\* A memory that cannot be read ends the check, the ghosts' part too.
Recall ==
  /\ step = "recall"
  /\ \/ /\ Query(remembered \intersect Stale, todo')
        /\ step' = "cancel"
     \/ /\ Failing(1)
        /\ step' = "observe" /\ UNCHANGED todo
  /\ UNCHANGED <<exchange, memories, handled, seeing, choice>>

\* GET /api/open-orders, for what it is asked
OpenOrders(asked) == Live \intersect asked

\* mutant: only what is remembered is looked for
GhostsRemembered == OpenOrders(remembered \intersect Stale)

\* The loop over the exchange's open orders asks for nothing but their age.
Ghosts == OpenOrders(Stale \ handled)

ListGhosts ==
  /\ step = "cancel" /\ todo = {}
  /\ \/ /\ Works
        /\ step' = "ghosts" /\ todo' = Ghosts
     \/ /\ Failing(1)
        /\ step' = "observe" /\ UNCHANGED todo
  /\ UNCHANGED <<exchange, memories, handled, seeing, choice>>

CancelStale(o) ==
  /\ step \in {"cancel", "ghosts"} /\ o \in todo
  /\ todo' = todo \ {o} /\ handled' = handled \union {o}
  /\ \/ /\ Works
        /\ order' = IF o \in Live THEN Ended(o) ELSE order
     \/ /\ Failing(1)
        /\ UNCHANGED order
  /\ UNCHANGED <<roots, memories, step, seeing, choice>>

-----------------------------------------------------------------------------
(* Observe *)

\* The nodes of depth 0 that are open: what the tree holds in a child, or in a root
\* that is closing, is not seen, and is for the sweep as if nobody managed it,
\* whatever find_wallet_only_untracked says of "any open rotation node".  A tree
\* that cannot be read is empty.
Observe ==
  /\ step = "observe" \/ (step = "ghosts" /\ todo = {})
  /\ \/ Works /\ view' = roots /\ unseen' = {}
     \/ Failing(1) /\ view' = {} /\ unseen' = roots
  /\ step' = "decide" /\ handled' = {}
  /\ UNCHANGED <<exchange, memories, todo, choice>>

-----------------------------------------------------------------------------
(* Decide *)

\* mutant: the exchange's own list is not looked at
PendingPairsRemembered(noMemory, noOrders) ==
  IF noMemory THEN {} ELSE {order[o].pair : o \in remembered \ Stale}

\* The name parse_open_orders gives a pair: normalize_pair cuts the quote from
\* Kraken's compact name by the longest suffix it knows, and makes XT/USD of XTZUSD
\* and TR/BTC of TRXXBT, names of no pair of the brain's.
Listed(pair) == IF pair \in Renamed THEN <<Base(pair), "renamed">> ELSE pair

\* get_pairs_with_pending_orders | get_pairs_with_open_orders: the memories have the
\* brain's own names.
PendingPairs(noMemory, noOrders) ==
  (IF noMemory THEN {} ELSE {order[o].pair : o \in remembered \ Stale})
    \union (IF noOrders THEN {} ELSE {Listed(order[o].pair) : o \in OpenOrders(OrderIds)})

\* load_memory_blocked_pairs, which the orders are filtered by
Barred(noBlocks) == IF noBlocks THEN {} ELSE blocked

Unread(noMemory, noOrders) ==
  IF noOrders THEN "orders" ELSE IF noMemory THEN "memory" ELSE "nothing"

Order(pair, why, unread) == [pair |-> pair, why |-> why, unread |-> unread]

\* 5a, a rotation out of a root, or 5b, an entry: both are filtered alike
Proposals(wanted, unread) == {Order(p, "proposal", unread) : p \in wanted}

\* The wallet holds too little of the quote of the best pair.
Short(wanted, affordable) ==
  {x \in BrainAssets : <<x, "cross">> \in wanted \ affordable}

\* resolve_entry_analysis_for_quote_inventory puts the USD pair in the place of
\* the best one, for want of its quote: what is pending there is not looked at.
Substitutes(wanted, affordable, barred) ==
  {Order(Usd(x), "unchecked", "nothing") :
     x \in {y \in Short(wanted, affordable) : Usd(y) \notin barred}}

\* 5c, check_exits: what is pending does not matter
Exits(barred) ==
  {Order(Usd(x), "unchecked", "nothing") : x \in {y \in BrainAssets : Usd(y) \notin barred}}

Decide ==
  /\ step = "decide"
  /\ \E noMemory, noOrders, noBlocks \in BOOLEAN,
        attractive \in Attractive, affordable \in Affordable :
       LET pending == PendingPairs(noMemory, noOrders)
           barred == Barred(noBlocks)
           wanted == attractive \ (pending \union barred)
       IN
         /\ Failing(Count(noMemory) + Count(noOrders) + Count(noBlocks))
         /\ \/ /\ choice' \in Proposals(wanted, Unread(noMemory, noOrders))
                               \union Substitutes(wanted, affordable, barred)
                               \union Exits(barred) \union {Nothing}
               /\ UNCHANGED blocked
            \* No substitute either: the pair is blocked for good.
            \/ /\ choice' \in Exits(barred) \union {Nothing}
               /\ \E x \in Short(wanted, affordable) :
                    blocked' = blocked \union {<<x, "cross">>}
  /\ step' = "act"
  /\ UNCHANGED <<exchange, remembered, todo, handled, seeing>>

-----------------------------------------------------------------------------
(* Act and remember *)

\* The answer or the memory may be lost, or the cycle fail between the two.
Place ==
  /\ step = "act" /\ choice # Nothing /\ Unused # {}
  /\ NewOrder(NextId, choice.pair, choice.why, choice.unread)
  /\ Write(NextId)
  /\ step' = "dust" /\ choice' = Nothing
  /\ UNCHANGED <<roots, blocked, todo, handled, seeing>>

\* There is nothing to place, or the exchange turns it down.
NotPlaced ==
  /\ step = "act" /\ step' = "dust" /\ choice' = Nothing
  /\ Works \/ Failing(1)
  /\ UNCHANGED <<exchange, memories, todo, handled, seeing>>

\* It does so for want of permission: the pair is blocked for good.
NotPermitted ==
  /\ step = "act" /\ choice # Nothing
  /\ step' = "dust" /\ choice' = Nothing
  /\ Works /\ blocked' = blocked \union {choice.pair}
  /\ UNCHANGED <<exchange, remembered, todo, handled, seeing>>

-----------------------------------------------------------------------------
(* The sweeps *)

\* find_dust_positions: the roots worth little
FindDust ==
  /\ step = "dust"
  /\ todo' \in Dusty(view)
  /\ step' = "sellDust"
  /\ UNCHANGED <<exchange, memories, handled, seeing, choice, failures>>

\* mutant: the holdings of the roots are wallet-only too
UntrackedAnyhow == BrainAssets

\* find_wallet_only_untracked
Untracked == BrainAssets \ view

FindUntracked ==
  /\ step = "sellDust" /\ todo = {}
  /\ Works \/ Failing(1)
  /\ todo' \in SUBSET Untracked
  /\ step' = "sellUntracked"
  /\ UNCHANGED <<exchange, memories, handled, seeing, choice>>

\* sweep_dust places one order per asset and remembers the refusals only, for the
\* next sweep to leave them out, as it may any asset here.
Sweep(x) ==
  /\ step \in {"sellDust", "sellUntracked"} /\ x \in todo
  /\ todo' = todo \ {x}
  /\ \/ /\ Unused # {}
        /\ NewOrder(NextId, Usd(x),
                    IF step = "sellDust" THEN "unchecked" ELSE "sweep", "nothing")
        /\ Works
     \/ /\ UNCHANGED order
        /\ Works \/ Failing(1)
  /\ UNCHANGED <<roots, memories, step, handled, seeing, choice>>

EndCycle ==
  /\ step = "sellUntracked" /\ todo = {}
  /\ step' = "asleep" /\ view' = {} /\ unseen' = {}
  /\ UNCHANGED <<exchange, memories, todo, handled, choice, failures>>

\* An exception ends the cycle; main sleeps and starts the next one.
CycleFails ==
  /\ step # "asleep" /\ Failing(1)
  /\ step' = "asleep" /\ todo' = {} /\ handled' = {}
  /\ view' = {} /\ unseen' = {} /\ choice' = Nothing
  /\ UNCHANGED <<exchange, memories>>

-----------------------------------------------------------------------------
Cycle ==
  \/ StartCycle \/ Recall \/ ListGhosts
  \/ \E o \in OrderIds : CancelStale(o)
  \/ Observe \/ Decide \/ Place \/ NotPlaced \/ NotPermitted
  \/ FindDust \/ FindUntracked \/ EndCycle
  \/ \E x \in BrainAssets : Sweep(x)

BrainNext ==
  \/ Cycle \/ CycleFails
  \/ OrdersAge
  \/ \E o \in OrderIds : Executes(o)
  \/ \E p \in BrainPairs : OthersOrder(p)
  \/ \E x \in BrainAssets : RootOpens(x) \/ RootCloses(x)

\* main loops for ever, and time passes.
BrainFairness == WF_brainVars(Cycle) /\ WF_brainVars(OrdersAge)

BrainSpec == BrainInit /\ [][BrainNext]_brainVars /\ BrainFairness

-----------------------------------------------------------------------------
(* Properties *)

\* A decision that could not read this could not know of o, an order of the brain:
\* the exchange's own list was not read, or calls the pair by another name, and the
\* memory was lost, too old or not read.
Missed(o, unread) ==
  \/ unread = "orders"
  \/ /\ order[o].pair \in Renamed
     /\ unread = "memory" \/ o \notin remembered \/ o \in Stale

\* The decision step does not propose again a trade that is in flight: an entry
\* or a rotation finds an order of the brain still live on its pair only when the
\* exchange's open orders could not be read, or when the pair is one they rename and
\* its memory does not help either.  For every other pair lost answers, memories
\* that were not written and orders older than the memory's window do not matter.
RepeatsExplained ==
  \A o, p \in Live :
    ( /\ o < p /\ order[o].pair = order[p].pair /\ order[o].why # "other"
      /\ order[p].why = "proposal" )
    => Missed(o, order[p].unread)

\* The tree is read early in a cycle and the wallet swept at its end, while the
\* runtime opens and closes roots: the sweep places an order on an asset that is an
\* open root only if that root was opened since, or the tree could not be read.  (Of
\* what the tree holds in children and closing roots nothing of the kind is true:
\* see Observe.)
TrackedNotSwept ==
  [][\A o \in OrderIds :
       order[o].status = "none" /\ order'[o].status = "live" /\ order'[o].why = "sweep" =>
         Base(order'[o].pair) \notin roots \ unseen]_brainVars

\* No order stays open for ever, whoever placed it and whether or not the brain
\* remembers it, as soon as the failures end.
StaleOrdersEnd ==
  \A o \in OrderIds : order[o].status = "live" ~> order[o].status = "gone"
=============================================================================
