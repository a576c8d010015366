------------------------------ MODULE FeedLink ------------------------------
(***************************************************************************)
(* exchange/websocket.py: KrakenWebSocketV2 and its FallbackPoller, and the*)
(* part of runtime_loop.py that connects and subscribes them.              *)
(*                                                                         *)
(* Four tasks share one event loop: run_once (which connects and           *)
(* subscribes), the reader (which receives, and reconnects after a drop),  *)
(* and the two loops of the poller (which stand in for the feed while it   *)
(* is away).  A step of the model is what a task does between two awaits.  *)
(* Kraken announces an execution on the connection that subscribed to      *)
(* them, and on no other.                                                  *)
(*                                                                         *)
(* Whether there are poller loops is for the caller: Loops.  The bot's own *)
(* factory (_default_websocket_factory, runtime_loop.py:3138-3145) passes  *)
(* no REST pollers, so that as shipped Loops = {} and the feed, while it is*)
(* away, is replaced by nothing.  Everything here holds with any of them.  *)
(***************************************************************************)
EXTENDS Naturals, FiniteSets

CONSTANTS
  FeedPairs,     \* the pairs run_once subscribes to
  FeedOrders,    \* the orders that execute, or are cancelled
  Loops,         \* the poller's loops whose fetchers were passed
  MaxFaults       \* bound on the connections that break and the loops that end

ASSUME FeedAssumption == Loops \subseteq {"ticker", "orders"} /\ MaxFaults \in Nat

VARIABLES
  state,       \* KrakenWebSocketV2._state
  socket,      \* _websocket: none, open, or broken without our knowing it
  keeping,     \* _should_reconnect
  reader,      \* what the reader task awaits; "none" before connect, and how it
               \* ended: "dead" (a handler), "cut" (the connection), "struck" (the
               \* poller)
  main,        \* what run_once awaits of the feed
  pairs,       \* _ticker_pairs
  token,       \* whether _execution_token is set
  believed,    \* SchedulerRuntime._subscribed_pairs
  ready,       \* SchedulerRuntime._execution_feed_ready
  served,      \* the pairs and executions Kraken sends on this connection
  inbox,       \* the executions announced on this connection and not yet read
  ticker,      \* the poller's ticker loop: off, on, or ended by an exception
  polling,     \* the poller's order loop, likewise, or announcing
  known,       \* _known_orders
  polled,      \* current_orders, while the order loop announces
  vanished,    \* the known orders it still has to announce
  orders,      \* the orders at Kraken
  announced,   \* how often a fill was announced for each: a history
  exposed,     \* the orders that may be announced again: executed after Kraken
               \* had our subscription and before the poller was stopped, or
               \* announced in a poll that failed later on: a history
  faults        \* counts those faults, for MaxFaults

connVars == <<state, socket, keeping, reader, main>>
subVars == <<pairs, token, believed, ready, served>>
pollVars == <<ticker, polling, known, polled, vanished>>
exchVars == <<inbox, orders, announced, exposed, faults>>
feedVars == <<connVars, subVars, pollVars, exchVars>>

NothingServed == [pairs |-> {}, executions |-> FALSE]

PollerInit ==
  /\ ticker = "off" /\ polling = "off"
  /\ known = {} /\ polled = {} /\ vanished = {}

FeedInit ==
  /\ state = "DISCONNECTED" /\ socket = "none" /\ keeping = FALSE
  /\ reader = "none" /\ main = "idle"
  /\ pairs = {} /\ token = FALSE /\ believed = {} /\ ready = FALSE
  /\ served = NothingServed
  /\ PollerInit
  /\ inbox = {} /\ faults = 0
  /\ orders = [o \in FeedOrders |-> "open"]
  /\ announced = [o \in FeedOrders |-> 0]
  /\ exposed = {}

Running == main # "stopped"

-----------------------------------------------------------------------------
(* _set_state and the poller it switches *)

\* A faulty deactivate, which keeps the orders it knew.
DeactivateKeepingKnown ==
  /\ ticker' = "off" /\ polling' = "off"
  /\ polled' = {} /\ vanished' = {}
  /\ UNCHANGED known

Deactivate ==
  /\ ticker' = "off" /\ polling' = "off"
  /\ known' = {} /\ polled' = {} /\ vanished' = {}

\* deactivate awaits the loops it cancels: the exception of one that had ended
\* comes out of it, when all is cleared, and out of the _set_state that called it.
Raises == "ended" \in {ticker, polling}

\* A loop that an exception ended is not started again while the other runs.
Activate ==
  /\ IF "on" \in {ticker, polling} \/ polling = "announcing"
       THEN UNCHANGED <<ticker, polling>>
       ELSE /\ ticker' = IF "ticker" \in Loops THEN "on" ELSE "off"
            /\ polling' = IF "orders" \in Loops THEN "on" ELSE "off"
  /\ UNCHANGED <<known, polled, vanished>>

SetState(s, keep) ==
  /\ state' = s
  /\ keeping' = keep
  /\ IF keep /\ s \in {"DISCONNECTED", "RECONNECTING"} THEN Activate ELSE Deactivate

-----------------------------------------------------------------------------
(* run_once: _ensure_websocket_connected and _ensure_subscriptions *)

Connect ==
  /\ main = "idle" /\ state = "DISCONNECTED"
  /\ main' = "connecting"
  /\ SetState("CONNECTING", TRUE)
  /\ UNCHANGED <<socket, reader, subVars, exchVars>>

ConnectRefused ==
  /\ main = "connecting"
  /\ main' = "idle"
  /\ SetState("DISCONNECTED", FALSE)
  /\ UNCHANGED <<socket, reader, subVars, exchVars>>

\* There is nothing to restore the first time, no loop whose exception deactivate
\* could raise, and connect() is not called again: the reader keeps the connection
\* from then on.
ConnectSucceeds ==
  /\ main = "connecting"
  /\ main' = "idle"
  /\ socket' = "open"
  /\ reader' = "receiving"
  /\ SetState("CONNECTED", TRUE)
  /\ UNCHANGED <<subVars, exchVars>>

\* ws.send on a broken connection raises ConnectionClosed, which is no
\* ExchangeError: it leaves run_once and ends run_forever, whose shutdown
\* disconnects.  What disconnect raises, awaiting the reader or the poller's
\* loops, is the end of the process too.
Shutdown ==
  /\ main' = "stopped"
  /\ socket' = "none"
  /\ reader' = "none"
  /\ SetState("DISCONNECTED", FALSE)
  /\ inbox' = {} /\ served' = NothingServed
  /\ UNCHANGED <<orders, announced, exposed, faults>>

\* _ensure_subscriptions asks for the pairs it has not subscribed yet.
NotSubscribed(new) == new # {} /\ new \cap believed = {}

SubscribeTicker(new) ==
  /\ main = "idle" /\ state = "CONNECTED" /\ socket # "none"
  /\ NotSubscribed(new)
  /\ pairs' = pairs \cup new
  /\ \/ /\ socket = "open"
        /\ served' = [served EXCEPT !.pairs = @ \cup new]
        /\ believed' = believed \cup new
        /\ UNCHANGED <<connVars, pollVars, exchVars>>
     \/ /\ socket = "broken"      \* sent into a connection that is gone
        /\ believed' = believed \cup new
        /\ UNCHANGED <<served, connVars, pollVars, exchVars>>
     \/ /\ socket = "broken"
        /\ UNCHANGED believed
        /\ Shutdown
  /\ UNCHANGED <<token, ready>>

\* subscribe_executions keeps the token before it sends.
SendExecutions ==
  /\ token' = TRUE
  /\ \/ /\ socket = "open"
        /\ served' = [served EXCEPT !.executions = TRUE]
        /\ ready' = TRUE
        /\ UNCHANGED <<connVars, pollVars, exchVars>>
     \/ /\ socket = "broken"
        /\ ready' = TRUE
        /\ UNCHANGED <<served, connVars, pollVars, exchVars>>
     \/ /\ socket = "broken"
        /\ UNCHANGED ready
        /\ Shutdown

\* get_ws_token, then subscribe_executions.  The token's request may fail: with
\* an ExchangeError, to be tried again, or with a network error, which ends
\* run_forever too.
SubscribeExecutions ==
  /\ main = "idle" /\ state = "CONNECTED" /\ socket # "none" /\ ~ready
  /\ \/ SendExecutions
     \/ /\ UNCHANGED <<token, ready>>
        /\ Shutdown
  /\ UNCHANGED <<pairs, believed>>

-----------------------------------------------------------------------------
(* The reader: _run and _reconnect *)

\* recv, a pong or a fill handler raised one of _disconnect_errors.
Dropped ==
  /\ socket' = "none"
  /\ reader' = "sleeping"
  /\ SetState("RECONNECTING", keeping)
  /\ inbox' = {} /\ served' = NothingServed
  /\ UNCHANGED <<main, pairs, token, believed, ready, orders, exposed, faults>>

ReceiveFails ==
  /\ reader = "receiving" /\ socket = "broken"
  /\ Dropped
  /\ UNCHANGED announced

\* An execution is put on the queue and handed to the runtime, which records it
\* and fetches the exchange's state.  That request may raise a network error,
\* an OSError that the reader takes for a drop of its own connection; any other
\* exception ends the reader, and nobody looks at it.
ReceiveFill(o) ==
  /\ reader = "receiving" /\ o \in inbox
  /\ announced' = [announced EXCEPT ![o] = @ + 1]
  /\ \/ /\ inbox' = inbox \ {o}
        /\ UNCHANGED <<connVars, subVars, pollVars, orders, exposed, faults>>
     \/ Dropped
     \/ /\ inbox' = inbox \ {o}
        /\ reader' = "dead"
        /\ UNCHANGED <<state, socket, keeping, main, subVars, pollVars,
                       orders, exposed, faults>>

WakeUp ==
  /\ reader = "sleeping"
  /\ reader' = "connecting"
  /\ SetState("RECONNECTING", keeping)
  /\ UNCHANGED <<socket, main, subVars, exchVars>>

\* A faulty _reconnect, which gives up after a refused connection.
ReconnectOnce ==
  /\ reader = "connecting"
  /\ reader' = "none"
  /\ SetState("RECONNECTING", keeping)
  /\ UNCHANGED <<socket, main, subVars, exchVars>>

ReconnectRefused ==
  /\ reader = "connecting"
  /\ reader' = "sleeping"
  /\ SetState("RECONNECTING", keeping)
  /\ UNCHANGED <<socket, main, subVars, exchVars>>

\* Faulty _restore_subscriptions: the executions only.
RestoreExecutions == [pairs |-> {}, executions |-> token]

Restored == [pairs |-> pairs, executions |-> token]

\* The connector succeeds and the subscriptions are sent again.
Reconnected ==
  /\ reader = "connecting"
  /\ socket' = "open"
  /\ served' = Restored
  /\ reader' = "restored"
  /\ UNCHANGED <<state, keeping, main, pairs, token, believed, ready,
                 pollVars, exchVars>>

\* The connection breaks while they are sent: the exception passes through
\* _reconnect, which expects a connect error only, and ends the reader.
RestoreFails ==
  /\ reader = "connecting" /\ (pairs # {} \/ token)
  /\ socket' = "broken"
  /\ reader' = "cut"
  /\ UNCHANGED <<state, keeping, main, subVars, pollVars, exchVars>>

\* The state is CONNECTED before the poller is stopped: the exception of a loop
\* that had ended passes through _open_connection and _reconnect, and ends the
\* reader of a connection that is up.
FeedBack ==
  /\ reader = "restored"
  /\ reader' = IF Raises THEN "struck" ELSE "receiving"
  /\ SetState("CONNECTED", keeping)
  /\ UNCHANGED <<socket, main, subVars, exchVars>>

-----------------------------------------------------------------------------
(* The poller *)

OpenNow == {o \in FeedOrders : orders[o] = "open"}

PollOrders ==
  /\ polling = "on"
  /\ polled' = OpenNow
  /\ vanished' = known \ OpenNow
  /\ IF vanished' = {} THEN known' = OpenNow /\ UNCHANGED polling
                       ELSE polling' = "announcing" /\ UNCHANGED known
  /\ UNCHANGED <<connVars, subVars, ticker, exchVars>>

\* _resolve_terminal_fill: what the trades say, or else the order as it was
\* known, an order somebody cancelled too.
AnnounceVanished(o) ==
  /\ polling = "announcing" /\ o \in vanished
  /\ announced' = [announced EXCEPT ![o] = @ + 1]
  /\ vanished' = vanished \ {o}
  /\ IF vanished' = {} THEN polling' = "on" /\ known' = polled
                       ELSE UNCHANGED <<polling, known>>
  /\ UNCHANGED <<connVars, subVars, ticker, polled, inbox, orders,
                 exposed, faults>>

\* A request or a handler of theirs raises.
OrderLoopEnds ==
  /\ polling \in {"on", "announcing"} /\ faults < MaxFaults
  /\ faults' = faults + 1
  /\ polling' = "ended"
  /\ exposed' = IF polling = "announcing" THEN exposed \cup (known \ (polled \cup vanished))
                ELSE exposed
  /\ UNCHANGED <<connVars, subVars, ticker, known, polled, vanished,
                 inbox, orders, announced>>

TickerLoopEnds ==
  /\ ticker = "on" /\ faults < MaxFaults
  /\ faults' = faults + 1
  /\ ticker' = "ended"
  /\ UNCHANGED <<connVars, subVars, polling, known, polled, vanished,
                 inbox, orders, announced, exposed>>

-----------------------------------------------------------------------------
(* Kraken and the network *)

Break ==
  /\ socket = "open" /\ faults < MaxFaults
  /\ socket' = "broken"
  /\ faults' = faults + 1
  /\ served' = NothingServed
  /\ UNCHANGED <<state, keeping, reader, main, pairs, token, believed, ready,
                 pollVars, inbox, orders, announced, exposed>>

OrderExecutes(o) ==
  /\ orders[o] = "open"
  /\ orders' = [orders EXCEPT ![o] = "executed"]
  /\ inbox' = IF served.executions THEN inbox \cup {o} ELSE inbox
  /\ exposed' = IF reader = "restored" THEN exposed \cup {o} ELSE exposed
  /\ UNCHANGED <<connVars, subVars, pollVars, announced, faults>>

OrderCancelled(o) ==
  /\ orders[o] = "open"
  /\ orders' = [orders EXCEPT ![o] = "cancelled"]
  /\ UNCHANGED <<connVars, subVars, pollVars, inbox, announced, exposed, faults>>

-----------------------------------------------------------------------------
Reader ==
  \/ ReceiveFails \/ WakeUp \/ ReconnectRefused
  \/ Reconnected \/ RestoreFails \/ FeedBack
  \/ \E o \in FeedOrders : ReceiveFill(o)

FeedNext ==
  \/ Connect \/ ConnectRefused \/ ConnectSucceeds
  \/ \E new \in SUBSET FeedPairs : SubscribeTicker(new)
  \/ SubscribeExecutions
  \/ Reader
  \/ PollOrders \/ OrderLoopEnds \/ TickerLoopEnds
  \/ \E o \in FeedOrders : AnnounceVanished(o)
  \/ Break
  \/ \E o \in FeedOrders : OrderExecutes(o) \/ OrderCancelled(o)

\* asyncio resumes a task whose await is over; and Kraken lets a client back in
\* that keeps trying.
FeedFairness ==
  /\ WF_feedVars(Reader)
  /\ SF_feedVars(Reconnected)

FeedSpec == FeedInit /\ [][FeedNext]_feedVars /\ FeedFairness

-----------------------------------------------------------------------------
(* Properties *)

\* run_once never subscribes a pair twice and never asks for the executions
\* again: what it believes subscribed is what Kraken sends, after any number of
\* faults in any order with its own subscriptions, as long as the connection is
\* up and read.
SubscriptionsKept ==
  state = "CONNECTED" /\ reader = "receiving" /\ socket = "open" =>
    believed \subseteq served.pairs /\ (ready => served.executions)

\* An order is announced once, by the feed or by the poller, however often they
\* take over from each other.  Two moments are the exception: both announce an
\* order that executed between the renewed subscription and the end of the
\* poller, and an order loop that fails between two announcements, when it is
\* started again, repeats those it had made.
AnnouncedOnce ==
  \A o \in FeedOrders : announced[o] > 1 => o \in exposed

\* After a drop the feed is read again, unless the process ends or the reader does,
\* which then stays dead: "cut" by a second drop at the very moment the
\* subscriptions are sent again, or "struck", in state CONNECTED, by the exception
\* that ended one of the poller's loops.
DropIsRepaired ==
  reader = "sleeping" ~>
    \/ reader = "receiving" /\ state = "CONNECTED"
    \/ reader \in {"cut", "struck"}
    \/ ~Running
=============================================================================
