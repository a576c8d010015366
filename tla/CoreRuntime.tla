---------------------------- MODULE CoreRuntime ----------------------------
(***************************************************************************)
(* The core (not the rotation) side of the bot over the life of several    *)
(* processes: run_once with the reducer, the database rows it survives by, *)
(* the orders the web API places from its own threads, the reaper of those *)
(* orders, and the start that rebuilds the state after a crash.            *)
(*                                                                         *)
(* A crash may come between any two steps.  A step ends where the event    *)
(* loop may run something else or where the database or the exchange has   *)
(* been written.                                                           *)
(***************************************************************************)
EXTENDS CoreReducer, TLC

CONSTANTS Balances,       \* what the account may be found to hold: usd and doge
          WebOrders,      \* what the web API may be asked for: pair and side
          OrderQuantity,  \* and how much of it
          MaxOrders,      \* orders ever placed on the exchange
          MaxWebOrders,   \* those of them the web API places
          MaxBeliefs,     \* beliefs ever enqueued
          Views,          \* directions the belief handlers answer with
          MaxUnread,      \* fills delivered and not yet looked at
          MaxCrashes      \* crashes; a process killed by its own error not counted

ASSUME CoreAssumption ==
    /\ Balances \subseteq [usd : Int, doge : Int]
    /\ WebOrders \subseteq [pair : Pairs, side : {"buy", "sell"}]
    /\ Views \subseteq Directions \ {"none"}
    /\ OrderQuantity \in Nat \ {0}
    /\ {MaxOrders, MaxWebOrders, MaxBeliefs, MaxUnread, MaxCrashes} \subseteq Nat

VARIABLES pc,           \* where run_once is; "down" without a process
          bot,          \* BotState
          signals,      \* pending_belief_signals
          fills,        \* pending_fills
          due,          \* the reconciliation interval has passed
          todo,         \* what the loop under way has still to do
          webOrder,     \* order a web thread has placed and not recorded, or 0
          orders,       \* the exchange's orders, in the order they were placed
          rows,         \* table orders: what it says of each of them
          dbPositions,  \* table positions, the rows with closed_at NULL
          dbCooldowns,  \* table cooldowns
          believed, crashes,   \* counters for the bounds
          stopped       \* history: pairs whose stop has sold and still cools

memory == <<bot, signals, fills, due, todo, webOrder>>
disk == <<rows, dbPositions, dbCooldowns>>
history == <<believed, crashes, stopped>>
vars == <<pc, memory, orders, disk, history>>

OrderNumbers == DOMAIN orders
NoRow == [status |-> "none", kind |-> "none", client |-> NoId, position |-> NoId,
          base |-> 0, quote |-> 0]

\* A client order id made from the exchange's own id of an order: that of an
\* order the API recorded, and that of one placed without a client id.
OrderId(o) == [source |-> "order", n |-> o]

NewOrder(pair, side, quantity, cause, closes) ==
    [pair |-> pair, side |-> side, quantity |-> quantity, done |-> 0, live |-> TRUE,
     cause |-> cause, closes |-> closes]

---------------------------------------------------------------------------
(* The process begins and ends *)

\* Everything in memory is gone.
Down == /\ pc' = "down"
        /\ bot' = InitialBot(0, 0, <<>>, <<>>, {})
        /\ signals' = <<>> /\ fills' = <<>> /\ due' = FALSE
        /\ todo' = <<>> /\ webOrder' = 0

\* fetch_open_orders: the rows still open, by order id.
PendingOf(o) == [client |-> rows[o].client, kind |-> rows[o].kind,
                 pair |-> orders[o].pair, side |-> orders[o].side,
                 base |-> rows[o].base, filled |-> 0, quote |-> rows[o].quote,
                 position |-> rows[o].position, exchange |-> o]
FetchOpenOrders ==
    LET open == Keeping([o \in OrderNumbers |-> o], LAMBDA o : rows[o].status = "open")
    IN  [i \in DOMAIN open |-> PendingOf(open[i])]

\* Open orders and trades are listed under the exchange's ids only: neither
\* carries a client order id on this account's tier.
ListedOpen(q) == q.exchange # 0 /\ orders[q.exchange].live
Traded(q) == IF q.exchange = 0 THEN 0 ELSE orders[q.exchange].done

\* Mutant: an order counts as gone unless its client order id is listed open.
MissingByClientId(pending) ==
    [i \in DOMAIN pending |->
        [type |-> "resolve", pending |-> pending[i], traded |-> Traded(pending[i])]]

\* What one fetch_kraken_state says of the pending orders neither of whose ids
\* is open: the quantity its trade history has of each.  The fetch is three
\* queries; RotationRuntime has what may come between them.
Missing(pending) ==
    LET gone == Keeping(pending, LAMBDA q : ~ListedOpen(q))
    IN  [i \in DOMAIN gone |->
            [type |-> "resolve", pending |-> gone[i], traded |-> Traded(gone[i])]]

\* The rows of the positions table not closed, whole: stop and target too.
FetchOpenPositions == dbPositions
FetchCooldowns == dbCooldowns

\* main() up to run_forever: state of the exchange first, then the database,
\* then the constructor.  Reconciliation is as good as just done.
Start ==
    /\ pc = "down"
    /\ pc' = "starting"
    /\ \E b \in Balances :
          bot' = InitialBot(b.usd, b.doge, FetchOpenPositions, FetchOpenOrders, FetchCooldowns)
    /\ todo' = Missing(FetchOpenOrders)
    /\ UNCHANGED <<signals, fills, due, webOrder, orders, disk, history>>

\* The process is killed, or ends by an error run_once does not expect: a
\* URLError, a TimeoutError, a connection closed while it subscribes.
Crash == /\ pc # "down" /\ crashes < MaxCrashes
         /\ crashes' = crashes + 1
         /\ Down
         /\ UNCHANGED <<orders, disk, believed, stopped>>

---------------------------------------------------------------------------
(* run_once: reconciliation of pending orders *)

BeginCycle ==
    /\ pc = "idle"
    /\ pc' = "resolving"
    /\ \/ /\ due' = TRUE       \* the interval has passed, or a fill has asked for it
          /\ todo' = Missing(bot.pending)
       \/ ~due /\ UNCHANGED <<due, todo>>
    /\ UNCHANGED <<bot, signals, fills, webOrder, orders, disk, history>>

SetStatus(o, status) ==
    IF o = 0 \/ rows[o].status = "none" THEN rows ELSE [rows EXCEPT ![o].status = status]

WithoutClient(pending, client) == Keeping(pending, LAMBDA q : q.client # client)

\* _record_fill_confirmation(terminal=True) with _apply_terminal_fill.  A fill
\* against the belief of its pair raises, which ends the cycle; at the start,
\* where it would end the process, there is no belief yet.
RecoverFill ==
    /\ pc \in {"starting", "resolving"} /\ todo # <<>>
    /\ LET q == Head(todo).pending
           fill == [order |-> q.exchange, client |-> q.client, pair |-> q.pair,
                    quantity |-> Head(todo).traded]
           result == FillConfirmed(bot, fill)
       IN  /\ Head(todo).traded > 0
           /\ IF result.ok
              THEN /\ bot' = [result.bot EXCEPT !.pending = WithoutClient(@, q.client)]
                   /\ todo' = Tail(todo)
                   /\ rows' = SetStatus(q.exchange, "filled")
                   /\ UNCHANGED <<pc, signals, fills, due, webOrder>>
              ELSE /\ pc' = "idle" /\ todo' = <<>>
                   /\ UNCHANGED <<bot, signals, fills, due, webOrder, rows>>
    /\ UNCHANGED <<orders, dbPositions, dbCooldowns, believed, crashes, stopped>>

\* _cancel_missing_pending_order: neither open nor traded.
TakeAsCancelled ==
    /\ pc \in {"starting", "resolving"} /\ todo # <<>>
    /\ LET q == Head(todo).pending
       IN  /\ Head(todo).traded = 0
           /\ bot' = [bot EXCEPT !.pending = WithoutClient(@, q.client)]
           /\ rows' = SetStatus(q.exchange, "cancelled")
    /\ todo' = Tail(todo)
    /\ UNCHANGED <<pc, signals, fills, due, webOrder, orders,
                   dbPositions, dbCooldowns, believed, crashes, stopped>>

EndStart ==
    /\ pc = "starting" /\ todo = <<>>
    /\ pc' = "idle"
    /\ UNCHANGED <<memory, orders, disk, history>>

---------------------------------------------------------------------------
(* run_once: the reaper of the API's orders *)

\* _reap_stale_cc_orders begins with the rows of kind cc_api still open.  Those
\* too old are the ones placed before some moment.
BeginReaping ==
    /\ pc = "resolving" /\ todo = <<>>
    /\ \E last \in OrderNumbers :
          todo' = Keeping([o \in OrderNumbers |-> [type |-> "reap", order |-> o]],
                            LAMBDA i : /\ rows[i.order].kind = "cc_api"
                                       /\ rows[i.order].status = "open"
                                       /\ i.order <= last)
    /\ todo' # <<>>      \* none to reap: RunCycle follows at once
    /\ pc' = "reaping"
    /\ UNCHANGED <<bot, signals, fills, due, webOrder, orders,
                   disk, history>>

\* What a cancellation comes to.  It may fail before or after the exchange has
\* done it.
CancelAnswers(o) ==
    IF orders[o].live
    THEN {[live |-> FALSE, answer |-> "cancelled"], [live |-> TRUE, answer |-> "failed"],
          [live |-> FALSE, answer |-> "failed"]}
    ELSE {[live |-> FALSE, answer |-> "not_found"], [live |-> FALSE, answer |-> "failed"]}

WithoutStale(pending, o) ==
    Keeping(pending, LAMBDA q : ~(q.kind = "cc_api" /\ q.exchange = o))

\* An order cancelled or unknown is recorded as cancelled and forgotten; one
\* whose cancellation failed is tried again in a later cycle.
ReapOrder ==
    /\ pc = "reaping" /\ todo # <<>>
    /\ LET o == Head(todo).order
       IN  \E a \in CancelAnswers(o) :
              /\ orders' = [orders EXCEPT ![o].live = a.live]
              /\ IF a.answer = "failed" THEN UNCHANGED <<bot, rows>>
                 ELSE /\ rows' = SetStatus(o, "cancelled")
                      /\ bot' = [bot EXCEPT !.pending = WithoutStale(@, o)]
    /\ todo' = Tail(todo)
    /\ UNCHANGED <<pc, signals, fills, due, webOrder,
                   dbPositions, dbCooldowns, believed, crashes, stopped>>

---------------------------------------------------------------------------
(* run_once: the scheduler's cycle *)

\* _persist_state_changes as a list of writes: new and changed positions, those
\* that are gone, then the cooldowns of the stops of this cycle.
Writes(old, new, actions) ==
    LET Same(q) == \E i \in DOMAIN old : old[i] = q
        Gone(q) == \A i \in DOMAIN new : new[i].id # q.id
        changed == Keeping(new, LAMBDA q : ~Same(q))
        removed == Keeping(old, Gone)
        stops == Keeping(actions, LAMBDA a : a.type = "close" /\ a.reason = "stop_loss")
    IN  [i \in DOMAIN changed |-> [type |-> "upsert", position |-> changed[i]]]
        \o [i \in DOMAIN removed |-> [type |-> "closed", id |-> removed[i].id]]
        \o [i \in DOMAIN stops |-> [type |-> "cooldown", pair |-> stops[i].pair]]

\* The pairs a cycle has prices of: ticks of the WebSocket, the fallback of the
\* belief poll, and one more asked for over REST when the guardian misses one.
\* Within a process current_prices only grows; here it may be any set each
\* time, which adds behaviours and takes none away.
KnownPrices == SUBSET Pairs

\* run_cycle with the guardian due or not, then everything it leaves to do.
CycleOf(prices, guarding, verdict, expired, balances, gain) ==
    IF guarding /\ MissingPrices(bot, prices) # {} THEN Raised(bot)
    ELSE Cycle(bot, Events(bot, verdict, expired, due, balances, fills, signals), prices, gain)

Holding == [i \in DOMAIN bot.positions |-> "hold"]

\* What a cycle may find; a choice it does not look at is not made.
CycleInputs ==
    LET held == bot.positions # <<>>
    IN  [prices : IF held \/ signals # <<>> THEN KnownPrices ELSE {{}},
         guarding : IF held THEN BOOLEAN ELSE {FALSE},
         balances : IF due THEN Balances ELSE {[usd |-> bot.usd, doge |-> bot.doge]},
         gain : IF held THEN -1..1 ELSE {0}]

RunCycle ==
    /\ pc \in {"resolving", "reaping"} /\ todo = <<>>
    /\ \E in \in CycleInputs :
       \E verdict \in IF in.guarding THEN Verdicts(bot) ELSE {Holding},
          expired \in IF in.guarding THEN Windows(bot) ELSE {NoId} :
          LET result == CycleOf(in.prices, in.guarding, verdict, expired, in.balances, in.gain)
          IN  \/ /\ result.ok
                 /\ bot' = result.bot
                 /\ todo' = Writes(bot.positions, result.bot.positions, result.actions)
                            \o <<[type |-> "poll"]>> \o result.actions
                 /\ signals' = <<>> /\ fills' = <<>> /\ due' = FALSE
                 /\ pc' = "effects"
              \/ /\ ~result.ok
                 /\ pc' = "idle"
                 /\ UNCHANGED <<bot, todo, signals, fills, due>>
    /\ UNCHANGED <<webOrder, orders, disk, history>>

---------------------------------------------------------------------------
(* run_once: writes and effects *)

Doing(types) == pc = "effects" /\ todo # <<>> /\ Head(todo).type \in types
\* Mutant: what is left to do is put off when the first item is done.
FirstItemDone == todo' = Tail(todo) /\ pc' = "idle"
ItemDone == /\ todo' = Tail(todo)
            /\ pc' = IF Tail(todo) = <<>> THEN "idle" ELSE pc

PersistPosition ==
    /\ Doing({"upsert", "closed"})
    /\ LET item == Head(todo)
           Other(q) == q.id # (IF item.type = "upsert" THEN item.position.id ELSE item.id)
           others == Keeping(dbPositions, Other)
       IN  dbPositions' = IF item.type = "upsert" THEN Append(others, item.position) ELSE others
    /\ ItemDone
    /\ UNCHANGED <<bot, signals, fills, due, webOrder, orders,
                   rows, dbCooldowns, believed, crashes, stopped>>

PersistCooldown ==
    /\ Doing({"cooldown"})
    /\ dbCooldowns' = dbCooldowns \cup {Head(todo).pair}
    /\ ItemDone
    /\ UNCHANGED <<bot, signals, fills, due, webOrder, orders,
                   rows, dbPositions, believed, crashes, stopped>>

\* enqueue_belief.  A belief without enough confidence is dropped; that is a
\* pair not asked for.
Enqueued(asked, direction) ==
    LET answers == [p \in asked |-> [pair |-> p, direction |-> direction]]
    IN  signals \o SetToSeq({answers[p] : p \in asked})

\* _maybe_poll_beliefs, which enqueues what the handler answers for each pair;
\* beliefs asked for by the guardian and by the conditional tree take the same
\* way.
PollBeliefs ==
    /\ Doing({"poll"})
    /\ \E asked \in SUBSET Pairs, direction \in Views :
          /\ believed + Cardinality(asked) <= MaxBeliefs
          /\ signals' = Enqueued(asked, direction)
          /\ believed' = believed + Cardinality(asked)
    /\ ItemDone
    /\ UNCHANGED <<bot, fills, due, webOrder, orders, disk,
                   crashes, stopped>>

\* What is remembered of an order the reducer has just asked for.
PendingFor(a) ==
    LET known == Keeping(bot.pending, LAMBDA q : q.client = a.id)
    IN  IF a.id = NoId \/ known = <<>> THEN <<>> ELSE <<known[1]>>

OrderOf(a) == NewOrder(a.pair, a.side, a.quantity, a.reason,
                       IF a.type = "close" THEN a.id ELSE NoId)

\* _execute_place_order up to the answer, and the whole of
\* _execute_close_position, which records nothing.
PlaceEffect ==
    /\ Doing({"place", "close"})
    /\ Len(orders) < MaxOrders
    /\ LET a == Head(todo)
           o == Len(orders) + 1
       IN  /\ orders' = Append(orders, OrderOf(a))
           /\ rows' = Append(rows, NoRow)
           /\ stopped' = IF a.reason = "stop_loss" THEN stopped \cup {a.pair} ELSE stopped
           /\ \/ /\ a.type = "place"
                 /\ todo' = <<[type |-> "record", order |-> o, of |-> a]>> \o Tail(todo)
                 /\ UNCHANGED pc
              \/ ItemDone                \* recorded nowhere, or the answer was lost
    /\ UNCHANGED <<bot, signals, fills, due, webOrder,
                   dbPositions, dbCooldowns, believed, crashes>>

\* The exchange, the gate or the transport refuses.
EffectRefused ==
    /\ Doing({"place", "close"})
    /\ ItemDone
    /\ UNCHANGED <<bot, signals, fills, due, webOrder, orders,
                   disk, history>>

\* upsert_order.  The table's foreign key wants the position in the positions
\* table; the error is not one _execute_place_order expects, and it ends the
\* process.
RecordOrder ==
    /\ Doing({"record"})
    /\ LET item == Head(todo)
           pending == PendingFor(item.of)
           row == IF pending = <<>>
                  THEN [NoRow EXCEPT !.status = "open", !.kind = "position_entry",
                                     !.client = OrderId(item.order), !.base = item.of.quantity]
                  ELSE [status |-> "open", kind |-> pending[1].kind, client |-> pending[1].client,
                        position |-> pending[1].position, base |-> pending[1].base,
                        quote |-> pending[1].quote]
           keyed == row.position = NoId
                    \/ \E i \in DOMAIN dbPositions : dbPositions[i].id = row.position
       IN  \/ /\ keyed
              /\ rows' = [rows EXCEPT ![item.order] = row]
              /\ ItemDone
              /\ UNCHANGED <<bot, signals, fills, due, webOrder>>
           \/ ~keyed /\ Down /\ UNCHANGED rows
    /\ UNCHANGED <<orders, dbPositions, dbCooldowns, believed, crashes, stopped>>

---------------------------------------------------------------------------
(* Callbacks and web threads *)

\* Where the event loop can run something else.
Suspended == pc = "idle" \/ (pc = "resolving" /\ todo = <<>>)

\* Where the exchange takes its steps, and where the web threads do.  In the
\* other phases the loop reads nothing they write, so a step of theirs there
\* has the effect it has before or after.
Exchange == pc \in {"down", "idle", "resolving"}
Web == pc = "idle"

\* _record_fill_confirmation(terminal=False): the fill waits for the next
\* cycle, the whole picture of the exchange is fetched again, and the order's
\* row is closed, however much of the order is filled.  The exchange may tell
\* of a fill late, again after a new subscription, or never.
Deliver(o, n) ==
    /\ Suspended /\ Len(fills) < MaxUnread
    /\ n <= orders[o].done
    /\ fills' = Append(fills, [order |-> o, client |-> NoId, pair |-> orders[o].pair,
                               quantity |-> n])
    /\ rows' = SetStatus(o, "filled")
    /\ due' = TRUE
    /\ UNCHANGED <<pc, bot, signals, todo, webOrder, orders, dbPositions, dbCooldowns,
                   believed, crashes, stopped>>

\* POST /orders: the exchange call and the write run in pool threads, so the
\* loop goes on between them.
WebPlace(pair, side) ==
    /\ Web /\ webOrder = 0 /\ Len(orders) < MaxOrders
    /\ Len(Keeping(orders, LAMBDA x : x.cause = "api")) < MaxWebOrders
    /\ orders' = Append(orders, NewOrder(pair, side, OrderQuantity, "api", NoId))
    /\ rows' = Append(rows, NoRow)
    /\ \/ webOrder' = Len(orders) + 1
       \/ webOrder' = 0                   \* the answer was lost
    /\ UNCHANGED <<pc, bot, signals, fills, due, todo, dbPositions,
                   dbCooldowns, history>>

WebRecord ==
    /\ Web /\ webOrder # 0
    /\ rows' = [rows EXCEPT ![webOrder] = [NoRow EXCEPT !.status = "open", !.kind = "cc_api",
                                      !.client = OrderId(webOrder), !.base = OrderQuantity]]
    /\ webOrder' = 0
    /\ UNCHANGED <<pc, bot, signals, fills, due, todo, orders,
                   dbPositions, dbCooldowns, believed, crashes, stopped>>

\* DELETE /orders/{id}, which writes nothing.
WebCancel(o) ==
    /\ Exchange /\ pc # "down" /\ rows[o].status = "open" /\ orders[o].live
    /\ orders' = [orders EXCEPT ![o].live = FALSE]
    /\ UNCHANGED <<pc, memory, disk, history>>

---------------------------------------------------------------------------
(* The exchange and time *)

\* Part of a live order is executed.  What becomes of an order whose row is not
\* open changes the balances only, and those are free already.
Execute(o, n) ==
    /\ Exchange /\ rows[o].status = "open" /\ orders[o].live /\ orders[o].done + n <= orders[o].quantity
    /\ orders' = [orders EXCEPT ![o].done = @ + n,
                                ![o].live = orders[o].done + n < orders[o].quantity]
    /\ UNCHANGED <<pc, memory, disk, history>>

\* A cooldown lasts for hours: none begun in a cycle ends in the same cycle.
CooldownPasses(p) ==
    /\ p \in bot.cooling \cup dbCooldowns \cup stopped
    /\ pc \in {"idle", "down"}
    /\ bot' = [bot EXCEPT !.cooling = @ \ {p}]
    /\ dbCooldowns' = dbCooldowns \ {p}
    /\ stopped' = stopped \ {p}
    /\ UNCHANGED <<pc, signals, fills, due, todo, webOrder, orders,
                   rows, dbPositions, believed, crashes>>

---------------------------------------------------------------------------
Init ==
    /\ pc = "down"
    /\ bot = InitialBot(0, 0, <<>>, <<>>, {})
    /\ signals = <<>> /\ fills = <<>> /\ due = FALSE
    /\ todo = <<>> /\ webOrder = 0
    /\ orders = <<>> /\ rows = <<>>
    /\ dbPositions = <<>> /\ dbCooldowns = {}
    /\ believed = 0 /\ crashes = 0 /\ stopped = {}

RunOnce ==
    \/ BeginCycle \/ RecoverFill \/ TakeAsCancelled \/ EndStart
    \/ BeginReaping \/ ReapOrder \/ RunCycle
    \/ PersistPosition \/ PersistCooldown \/ PollBeliefs
    \/ PlaceEffect \/ EffectRefused \/ RecordOrder

Surroundings ==
    \/ Start \/ Crash \/ WebRecord
    \/ \E p \in Pairs : CooldownPasses(p)
    \/ \E w \in WebOrders : WebPlace(w.pair, w.side)
    \/ \E o \in OrderNumbers : WebCancel(o)
    \/ \E o \in OrderNumbers, n \in 1..OrderQuantity : Execute(o, n) \/ Deliver(o, n)

Next == RunOnce \/ Surroundings

Spec == Init /\ [][Next]_vars

---------------------------------------------------------------------------
(* Properties *)

Ids == [source : {"none", "sequence", "fill", "order"}, n : Nat]
OrderKinds == {"position_entry", "inventory_sell", "cc_api"}
Reasons == {"position_entry", "inventory_sell", "accumulate",
            "stop_loss", "target_hit", "belief_change", "window_expired"}

PositionType == [id : Ids, pair : Pairs, side : {"long", "short"}, quantity : Nat,
                 armed : BOOLEAN]
PendingType == [client : Ids, kind : OrderKinds, pair : Pairs, side : {"buy", "sell"},
                base : Nat, filled : Nat, quote : Nat, position : Ids, exchange : Nat]
BotType == [positions : Seq(PositionType), pending : Seq(PendingType), cooling : SUBSET Pairs,
            beliefs : [Pairs -> Directions], usd : Int, doge : Int, seq : Nat]
SignalType == [pair : Pairs, direction : Directions \ {"none"}]
FillType == [order : Nat, client : Ids, pair : Pairs, quantity : Nat]
OrderType == [pair : Pairs, side : {"buy", "sell"}, quantity : Nat, done : Nat,
              live : BOOLEAN, closes : Ids, cause : {"api"} \cup Reasons]
RowType == [status : {"none", "open", "filled", "cancelled"}, kind : {"none"} \cup OrderKinds,
            client : Ids, position : Ids, base : Nat, quote : Nat]

\* The actions of the reducer, and what each loop works through.
ActionType == [type : {"place", "close"}, id : Ids, pair : Pairs, side : {"buy", "sell"},
               quantity : Nat, reason : Reasons]
ResolveType == [type : {"resolve"}, pending : PendingType, traded : Nat]
ReapType == [type : {"reap"}, order : Nat]
EffectType == ActionType \cup [type : {"upsert"}, position : PositionType]
                \cup [type : {"closed"}, id : Ids] \cup [type : {"cooldown"}, pair : Pairs]
                \cup [type : {"poll"}] \cup [type : {"record"}, order : Nat, of : ActionType]
WorkAt(point) == CASE point \in {"starting", "resolving"} -> ResolveType
                   [] point = "reaping" -> ReapType
                   [] point = "effects" -> EffectType
                   [] OTHER -> {}

\* The state has the types of core/types.py and of the tables, every order the
\* exchange knows has a place in the table, and what a loop still has to do
\* belongs to the point it has reached.
TypeOK ==
    /\ pc \in {"down", "starting", "idle", "resolving", "reaping", "effects"}
    /\ bot \in BotType /\ signals \in Seq(SignalType) /\ fills \in Seq(FillType)
    /\ due \in BOOLEAN /\ todo \in Seq(WorkAt(pc))
    /\ orders \in Seq(OrderType) /\ rows \in Seq(RowType) /\ Len(orders) = Len(rows)
    /\ dbPositions \in Seq(PositionType) /\ dbCooldowns \subseteq Pairs
    /\ webOrder \in OrderNumbers \cup {0} /\ believed \in Nat /\ crashes \in Nat
    /\ stopped \subseteq Pairs

Quantity(s, id) == SumOver(s, LAMBDA q : IF q.id = id THEN q.quantity ELSE 0)
Exits == Keeping(todo, LAMBDA a : a.type = "close")

\* Whatever was executed of an order is held in one position, or being sold, or
\* sold, and never more than that: no execution becomes a position twice,
\* although both the start and every reconciliation look it up in the trade
\* history, and no position is sold twice.
HeldWithinExecuted ==
    \A o \in OrderNumbers :
       LET exits == Keeping(orders, LAMBDA x : x.closes = FillId(o))
           leaving == IF pc = "effects" THEN Quantity(Exits, FillId(o)) ELSE 0
       IN  Quantity(bot.positions, FillId(o)) + leaving
             + SumOver(exits, LAMBDA x : x.quantity) <= orders[o].done

\* An order the table calls cancelled is not live on the exchange: the reaper
\* and the reconciliation write it only for an order that is gone.
CancelledRowNotLive ==
    \A o \in OrderNumbers : rows[o].status = "cancelled" => ~orders[o].live

\* After a stop has sold a pair, and until its cooldown is over, no belief buys
\* or sells it again, in this process or in one started later.
ReentryBlockedAfterStop ==
    [][\A o \in DOMAIN orders' \ DOMAIN orders :
          orders'[o].cause \in {"position_entry", "inventory_sell"}
             => orders'[o].pair \notin stopped]_vars

\* SPEC.md: every position has a stop-loss, with no exceptions.
EveryPositionHasStop == \A i \in DOMAIN bot.positions : bot.positions[i].armed

\* Two positions make every cycle fail that is to close them on a belief: one
\* without stop and target, and one whose profit is to be turned into DOGE,
\* for which the reducer is not given DOGE's price.
Poisoned ==
    \E i \in DOMAIN bot.positions :
       \/ ~bot.positions[i].armed
       \/ /\ bot.positions[i].pair # Doge
          /\ \/ bot.beliefs[Doge] = "bullish"
             \/ \E j \in DOMAIN signals : signals[j] = [pair |-> Doge, direction |-> "bullish"]

\* Nothing but such a position keeps a cycle that knows its prices from working
\* off the fills and beliefs that wait for it: a queue is emptied only by a
\* cycle that ends, so a cycle that fails is repeated with the same queue.
OnlyPoisonBlocks ==
    pc \in {"resolving", "reaping"} /\ todo = <<>> /\ ~Poisoned
       => \A in \in {i \in CycleInputs : i.prices = Pairs} :
          \A verdict \in IF in.guarding THEN Verdicts(bot) ELSE {Holding},
             expired \in IF in.guarding THEN Windows(bot) ELSE {NoId} :
             CycleOf(in.prices, in.guarding, verdict, expired, in.balances, in.gain).ok

=============================================================================
