----------------------------- MODULE Reconciler -----------------------------
(***************************************************************************)
(* trading/reconciler.py, which compares what the exchange says with what  *)
(* the database says, as run_once and main.py call it: the exchange is asked*)
(* three queries, then the database two, and nothing holds the books still.*)
(*                                                                         *)
(* Orders are placed by the event loop, by the worker threads of the web   *)
(* API and by the user; only the first two have rows.  On the Starter tier *)
(* no order has a client order id on the exchange, so every open order is  *)
(* foreign to the reconciler, and its row acknowledges it.  No row has a   *)
(* recorded_fee, so fees never drift; reconcile is never given a writer.   *)
(* Time is counted in quarters of an hour.                                 *)
(***************************************************************************)
EXTENDS Integers, Sequences, FiniteSets, FiniteSetsExt

CONSTANTS
  LoopOrders,    \* orders of the event loop: their rows name their position
  ApiOrders,     \* orders of the web API: their rows name none
  UserOrders,    \* orders placed by hand
  Buys,          \* the asset an order buys
  FillWindow,    \* DEFAULT_RECENT_FILL_WINDOW
  StaleAge,      \* DEFAULT_STALE_ORDER_AGE
  LastQuarter    \* bound on the time

Own == LoopOrders \cup ApiOrders
Placeable == Own \cup UserOrders

ASSUME ReconcilerAssumption ==
  /\ LoopOrders \cap ApiOrders = {} /\ Own \cap UserOrders = {}
  /\ DOMAIN Buys = Placeable
  /\ {FillWindow, StaleAge, LastQuarter} \subseteq Nat

VARIABLES
  quarter,     \* the time
  opened,      \* when each order was placed; -1: not yet
  open,        \* the open orders at Kraken
  trades,      \* its trade history: order and time
  rows,        \* the orders that have a row
  placing,     \* the API orders placed, whose row is still to be written
  unrecorded,  \* the orders of the bot that will never have a row: a history
  positions,   \* the open rows of positions, by the order that opened them
  asked,       \* how many of the queries of this reconciliation are done
  seen,        \* what they returned
  report       \* last_reconciliation_report

marketVars == <<opened, open, trades>>
bookVars == <<rows, placing, unrecorded, positions>>
readVars == <<asked, seen, report>>
reconcilerVars == <<quarter, marketVars, bookVars, readVars>>

Unplaced == -1

\* Faulty: the database is read first.
QueriesRowsFirst == <<"positions", "rows", "balances", "open", "trades">>

\* fetch_kraken_state, then fetch_recorded_state.
Queries == <<"balances", "open", "trades", "positions", "rows">>

NothingSeen == [q \in {"balances", "open", "trades", "positions", "rows"} |-> {}]

NoReport == [ghosts |-> {}, acked |-> {}, new |-> {}, stale |-> {}, untracked |-> {}]

ReconcilerInit ==
  /\ quarter = 0
  /\ opened = [o \in Placeable |-> Unplaced] /\ open = {} /\ trades = {}
  /\ rows = {} /\ placing = {} /\ unrecorded = {} /\ positions = {}
  /\ asked = 0 /\ seen = NothingSeen /\ report = NoReport

-----------------------------------------------------------------------------
(* The exchange, and time *)

TimePasses ==
  /\ quarter < LastQuarter
  /\ quarter' = quarter + 1
  /\ UNCHANGED <<marketVars, bookVars, readVars>>

Placed(o) ==
  /\ opened[o] = Unplaced
  /\ opened' = [opened EXCEPT ![o] = quarter]
  /\ open' = open \cup {o}
  /\ UNCHANGED trades

PlacedByUser(o) ==
  /\ Placed(o)
  /\ UNCHANGED <<quarter, bookVars, readVars>>

\* An order is executed, or ends without.
OrderDone(o) ==
  /\ o \in open
  /\ open' = open \ {o}
  /\ trades' \in {trades, trades \cup {[order |-> o, at |-> quarter]}}
  /\ UNCHANGED <<quarter, opened, bookVars, readVars>>

-----------------------------------------------------------------------------
(* The bot's books *)

\* _execute_place_order and the rotation's, which place an order and write its row
\* without a query in between: the reply, or the row, may be lost.
PlacedByLoop(o) ==
  /\ asked = 0
  /\ Placed(o)
  /\ \/ rows' = rows \cup {o} /\ UNCHANGED unrecorded
     \/ unrecorded' = unrecorded \cup {o} /\ UNCHANGED rows
  /\ UNCHANGED <<quarter, placing, positions, readVars>>

\* POST /api/orders: the order and its row are two calls of the thread pool.
PlacedByApi(o) ==
  /\ Placed(o)
  /\ \/ placing' = placing \cup {o} /\ UNCHANGED unrecorded
     \/ unrecorded' = unrecorded \cup {o} /\ UNCHANGED placing
  /\ UNCHANGED <<quarter, rows, positions, readVars>>

RowWritten(o) ==
  /\ o \in placing
  /\ placing' = placing \ {o}
  /\ \/ rows' = rows \cup {o} /\ UNCHANGED unrecorded
     \/ unrecorded' = unrecorded \cup {o} /\ UNCHANGED rows
  /\ UNCHANGED <<quarter, marketVars, positions, readVars>>

\* A cycle stores the position a fill became, or closes it.
PositionStored(o) ==
  /\ asked = 0
  /\ \E t \in trades : t.order = o
  /\ positions' = IF o \in positions THEN positions \ {o} ELSE positions \cup {o}
  /\ UNCHANGED <<quarter, marketVars, rows, placing, unrecorded, readVars>>

-----------------------------------------------------------------------------
(* reconcile *)

\* Faulty: an order is acknowledged by a row that names a position only.
AcknowledgedByPosition(o, recorded) == o \in recorded \cap LoopOrders

\* A row has the order's transaction id.
Acknowledged(o, recorded) == o \in recorded

\* _resolve_as_of: the latest time the exchange mentions.
AsOf(now) == Max({0} \cup {opened[o] : o \in now.open} \cup {t.at : t \in now.trades})

\* The orders whose rows name the position: the one that opened it, or none.
OrdersOf(p, now) == {p} \cap now.rows \cap LoopOrders

\* _is_recent_fill: a position no row names goes by the fills of its asset.
RecentFills(p, now) ==
  {t \in now.trades :
     /\ t.at >= AsOf(now) - FillWindow
     /\ \/ t.order \in OrdersOf(p, now)
        \/ OrdersOf(p, now) = {} /\ Buys[t.order] = Buys[p]}

\* _detect_ghost_positions: neither an order of the position is open, nor one has
\* been filled lately.
Ghosts(now) ==
  {p \in now.positions : OrdersOf(p, now) \cap now.open = {} /\ RecentFills(p, now) = {}}

\* _detect_foreign_orders.
Strangers(now) == {o \in now.open : ~Acknowledged(o, now.rows)}
StaleOnes(now) == {o \in Strangers(now) : AsOf(now) - opened[o] >= StaleAge}

\* _detect_untracked_assets.
Untracked(now) == now.balances \ {Buys[o] : o \in now.rows \cup now.positions}

Reconciled(now) ==
  [ghosts |-> Ghosts(now), acked |-> now.open \ Strangers(now),
   new |-> Strangers(now) \ StaleOnes(now), stale |-> StaleOnes(now),
   untracked |-> Untracked(now)]

-----------------------------------------------------------------------------
(* run_once *)

Answer == [balances |-> {Buys[t.order] : t \in trades}, open |-> open, trades |-> trades,
           positions |-> positions, rows |-> rows]

\* A query, and after the last one the reconciliation.
Ask ==
  LET query == Queries[asked + 1]
      now == [seen EXCEPT ![query] = Answer[query]]
  IN IF asked + 1 < Len(Queries)
       THEN /\ asked' = asked + 1 /\ seen' = now
            /\ UNCHANGED <<report, quarter, marketVars, bookVars>>
       ELSE /\ asked' = 0 /\ seen' = NothingSeen
            /\ report' = Reconciled(now)
            /\ UNCHANGED <<quarter, marketVars, bookVars>>

\* A query fails: the cycle is over.
AskFails ==
  /\ asked > 0
  /\ asked' = 0 /\ seen' = NothingSeen
  /\ UNCHANGED <<report, quarter, marketVars, bookVars>>

\* The process is killed and started again.
BotRestarts ==
  /\ placing' = {} /\ unrecorded' = unrecorded \cup placing
  /\ asked' = 0 /\ seen' = NothingSeen /\ report' = NoReport
  /\ UNCHANGED <<quarter, marketVars, rows, positions>>

ReconcilerNext ==
  \/ TimePasses
  \/ \E o \in UserOrders : PlacedByUser(o)
  \/ \E o \in LoopOrders : PlacedByLoop(o)
  \/ \E o \in ApiOrders : PlacedByApi(o) \/ RowWritten(o)
  \/ \E o \in Placeable : OrderDone(o)
  \/ \E o \in Own : PositionStored(o)
  \/ Ask \/ AskFails
  \/ BotRestarts

-----------------------------------------------------------------------------
(* Properties *)

\* "cancel_foreign_order", "manual_review_foreign_order": the bot's own orders are
\* recommended for neither, though the exchange is asked and the database read in
\* five queries while the web API's threads place and record orders.  The only
\* ones it does not recognise are those whose row is still, or for ever, missing.
OwnOrdersRecognised ==
  [][(report' # report) =>
       (report'.new \cup report'.stale) \cap Own \subseteq placing \cup unrecorded]_reconcilerVars
=============================================================================
