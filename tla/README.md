# Formal models of kraken-bot-v4

TLA+ specifications of the parts of the bot whose correctness depends on order,
interleaving and failure: the way to the exchange (gate, limiter, transport, feed), the
rotation tree with the cycle that drives it and its restart, the core positions with their
database, the reports an operator acts on, and the programs that run beside the bot.  TLC
checks them on small instances; TLAPS proves every safety property of the runs that pass, for
every value of the constants (three of them for the default configuration only).

Code is cited as `file:line` relative to the repository's root.

## 1. The system

The bot is one Python process.  An asyncio task (`SchedulerRuntime.run_forever`)
runs a cycle every few seconds; a WebSocket task calls back with price ticks and
fills whenever that task is suspended; the FastAPI routes run exchange calls in a
thread pool.  State lives in memory (`SchedulerState`, `RotationTreeState`), part of
it in SQLite.  The exchange account is on Kraken's Starter tier, the only one
`exchange/client.py:191` accepts: orders carry no client order id there
(`exchange/order_gate.py:251`), which matters throughout.  Beside it run the CC brain, a
second trader that talks to the bot's web API, and the broker of the LLM council, which
talks to it through files.

| component | state | operations | talks to | hard behaviour | correct when |
|---|---|---|---|---|---|
| Order gate, circuit breaker (`exchange/order_gate.py`) | failure times, opening time | `before_mutation`, `record_success`, `record_failure`, `place_order` | executor, client | shared by event loop and pool threads, no lock | trips on failures, lets nothing through while open |
| Executor (`exchange/executor.py`) | none of its own | `execute_order`, `execute_cancel`, `fetch_kraken_state` | gate, client, transport | lost replies, two queries for one picture | an outcome reported is the outcome |
| Rotation tree (`trading/rotation_tree.py`) | nodes with status, deadline, total/free/reserved quantity | plan, cancel, open, close, expire | planner, runtime | capital moves between parent and child in several steps | capital is neither lost nor invented |
| Rotation planner (`trading/rotation_planner.py`) | — | `plan_cycle`, allocations | scanner, tree | plans under nodes not yet filled | no more is reserved than is free |
| Runtime (`runtime_loop.py`) | tree, pending orders, fill queue, cooldowns | `run_once` and its steps, `_handle_fill_confirmed` | everything | fills between its steps, reconciliation against a moving exchange, retries, timeouts | every fill settles once, every node resolves |
| Reducer and scheduler (`core/state_machine.py`, `scheduler.py`) | `BotState` | one handler per event, `run_cycle` | runtime, guardian | order of event phases, pruning of pending orders | positions match fills |
| Reconciler (`trading/reconciler.py`) | — | `reconcile` | scheduler | compares two moving records | no ghost or foreign order is missed |
| Restart, persistence (`persistence/sqlite.py`, runtime constructor) | orders, tree, cooldowns on disk | upsert, close, cancel, save, fetch | runtime | a crash between two writes | nothing live is forgotten |
| REST client, rate limiter (`exchange/client.py`) | two kinds of counters | `consume_*`, decay | executor | unsynchronised callers, requests the transport repeats unpaid | what it pays for never exceeds the exchange's budget |
| Transport (`exchange/transport.py`) | nonce | `send`, sign | executor | retries of mutations, nonces of two threads | a mutation happens once at most |
| WebSocket client, fallback (`exchange/websocket.py`) | connection state, subscriptions | connect, reconnect, poll | runtime | lost connection, resubscription | no fill missed for ever |
| Portfolio, positions (`trading/portfolio.py`, `trading/position.py`) | positions, cash | apply fill, close | reducer | — | value conserved |
| Guardian, risk rules (`guardian.py`, `trading/risk_rules.py`) | — | `check_positions` | scheduler | stale prices | a stop reached is a stop triggered |
| Grid engine (`grid/`) | slots, orphans | activate, deactivate, redistribute | nobody yet | — | capacity respected |
| Conditional tree (`trading/conditional_tree.py`) | armed plan | `maybe_plan` | runtime | off by default | one plan per position |
| Scanner, regime, duration (`trading/pair_scanner.py`, ...) | caches | scan, estimate | planner | remote data | — |
| Beliefs, LLM council (`beliefs/`, `scripts/llm_council_broker.py`) | request and consensus files | poll, answer | runtime | two processes over files | an answer is used for its own request |
| Healing (`healing/`) | heartbeat, incidents | write, read, advise | another process | file replaced atomically | staleness noticed |
| Web, SSE, TUI (`web/`, `tui/`) | subscribers | order routes, streams | executor | pool threads | — |
| Build phases (`build/run_phase.py`, `build/common.py`) | phase state file, work tree, commits | one step per phase of a task | agents, pytest, git, persons | killed between any two steps, agents that live on | what is committed was tested, and is committed once |
| CC brain (`scripts/cc_brain.py`) | memories in the database | one cycle an hour: cancel, propose, sell, sweep | web API | every call may fail, and failures read as "nothing there" | does not repeat itself, leaves the tree alone |
| CC order reaper (`runtime_loop.py:1246`) | order rows | cancel what the API placed and is too old | executor, database | web threads and the exchange between its steps | a row says what is so |
| Research, scripts, alerts | files | offline jobs | — | — | not part of the bot |

How the parts in the models meet: the planner sets capital of a node aside for
planned children; the runtime places an entry order for each through executor and
gate; the exchange executes it and tells the bot over the WebSocket, or the next
reconciliation finds it in the trade history; either puts a fill in
`_rotation_fill_queue`; the runtime settles the queue, opening the child; a trigger,
timeout or deadline closes it through an exit order; its fill returns the proceeds to
the parent.  Every arrow can be late, lost, doubled or overtaken.

What is hard here is listed as hazards, each at its line and with the properties that
would catch it, in `PROJECT.json`.

## 2. The modules

    OrderGate            breaker, execute_order, execute_cancel; any number of callers
      MCOrderGate        instance: one caller
    RotationTree         the tree as data, and the pure operations on it
      RotationRuntime    run_once's rotation pipeline, the WebSocket handler, the exchange
        MCRotation       instances: a BUY pair and a SELL pair
    TreeRestart          the tree's ids and rows over crashes and restarts
    Reconciler           the report that compares exchange, database and memory
    AnomalyNotes         the recorders of root exclusions and valuation drift
    Healing              heartbeat, watchdog, incidents
      MCSafeguards       instances of OrderGate and the last four
    CoreReducer          reducer, guardian, scheduler cycle as pure operators
      CoreRuntime        run_once's core side, database rows, web threads, reaper, crashes
        MCCore           instances: DOGE/USD and one other pair
    AtMostOnceCalls      what a call to the exchange promises (abstract)
      ExchangeLink       executor, transport, nonces, network; implements it
    RateLimiter          the local rate limiter against the exchange's budgets
    FeedLink             WebSocket client, fallback poller, subscriptions
      MCExchange         instances of the last three
    Council              handler, broker and agents of the LLM council, over files
    Brain                scripts/cc_brain.py against the web API
    Grid                 the grid engine
    BuildPhase           the build controller
      MCCompanions       instances of the last four

A module `X_proofs` holds the theorems about `X`; `RotationCapital_proofs` goes on from
`RotationRuntime_proofs` with those about where the capital is, and `CoreHoldings_proofs` from
`CoreRuntime_proofs` with those about what the positions hold; `Exchange_proofs` has those
about `ExchangeLink`, `RateLimiter` and `FeedLink`, `Companions_proofs` those about the
programs of `MCCompanions` and about `Healing`, and `Safeguards_proofs` those about `OrderGate`, `TreeRestart`,
`Reconciler` and `AnomalyNotes`.  `SumLemmas` has the laws of sums over finite sets that the proofs about capital
and about the core share.  `MCExchange`, `MCCompanions` and `MCSafeguards` put specifications that
share no variable into one instance: a variable `part` says which of them moves, and the
others stay as they began.  Since none reads another's state, this
loses no behaviour of any of them.

### OrderGate

Constants: `Callers`, the policy (`Threshold`, `Window`, `Cooldown`), whether
mutations are enabled, and `MaxTime`, a bound on the clock.

`failures` and `openedAt` are the breaker's two fields; `pc[c]` is the point a caller
has reached inside `execute_order` or `execute_cancel`; `admittedAt` and `streak` are
histories the code does not keep.  Each action ends at a call of the breaker or of the
transport, since a thread may lose the processor there.  `Admit` and `Refuse` are the
two outcomes of `before_mutation`; `OrderPrepared` is `OrderGate.place_order`, which
records a success before anything is sent; `OrderFailed` is the failed AddOrder nobody
records; the `Cancel...` actions are the ways out of `execute_cancel`.

A call of one method of the breaker is one step.  That leaves out the interleavings
inside a method (`before_mutation` reads `_opened_at` twice).

### RotationTree

A node is known by its place in the list, node 1 being the root; statuses are those of
`RotationNodeStatus`.  `deadline` is `deadline_at` compared with the clock, and
`withinParent` remembers that `make_child_node` cut a child's deadline to its
parent's.  Quantities are whole units, and fees are left out, as the tree's own
accounting leaves them out.  Each pair has a reference price; `BuyPairs` are entered
by a BUY, whose cost is `quantity * price` in the parent's asset.  The operators have
the names of the functions they model.

### RotationRuntime

One variable per piece of state of the runtime that matters to the tree, and `pc` for
where `run_once` is.  The order of its phases is the order of the calls in
`run_once` and `_maybe_run_rotation_planner`:

    idle -> fetchOrders -> fetchTrades -> reconcile -> ready -> effects -> expiry
         -> roots -> settle -> timeouts -> monitor -> plan -> entries -> idle

The exchange's actions may happen at any point, between any two of them.  The
WebSocket handler (`Deliver`) may run only where the task really suspends: between
cycles, before `run_cycle`, and, with the conditional tree, while effects are handled
(`Awaits`); everything else in a cycle is synchronous code.

| actions | code |
|---|---|
| `Execute`, `CancelledOutside`, `Lose` | the exchange and the connection (external) |
| `DeadlinePasses`, `FillTimeoutPasses`, `ReconcileIntervalPasses`, `CooldownPasses` | time, for the comparisons the code makes with it |
| `Deliver` | `_handle_fill_confirmed`, `_find_pending_order` |
| `WakeUp`, `FetchOpenOrders`, `FetchTradeHistory`, `FetchFails` | `run_once`, `fetch_kraken_state` |
| `RecoverFill`, `TakeAsCancelled`, `EndReconcile` | `_reconcile_pending_orders` |
| `RunCycle`, `CycleFails` | `Scheduler.run_cycle`, with the reducer's pruning of pending orders |
| `PruneOrphanRoot` | `_prune_orphan_roots` |
| `BeginPlanner`, `Expire...`, `EndExpiry` | `_handle_rotation_expiry`, `_cancel_rotation_entry`, `_handle_root_expiry` |
| `SetRootDeadline`, `RecoverRoot`, `CloseExhaustedRoot`, `LeaveRoot` | `_evaluate_root_deadlines` |
| `Settle`, `EndSettle` | `_settle_rotation_fills` |
| `CancelStaleEntry`, `EscalateStaleExit`, `EndTimeouts` | `_check_rotation_fill_timeouts` |
| `TriggerExit`, `EndMonitor` | `_monitor_rotation_prices` |
| `PlanLeaf`, `EndPlan` | `RotationTreePlanner.plan_cycle` |
| `DropEntry`, `DeferEntry`, `EntryRefused`, `EntryReplyLost`, `EntryPlaced` | `_execute_rotation_entries` |
| `CloseNode` | `_close_rotation_node`, called from five of the above |

What is abstracted: prices and indicators become a choice (an exit may trigger or
not, a candidate may be found or not); counters of retries, deferrals and root
recoveries become a choice between "once more" and "for the last time"; balances
become a choice of the quantity an exit may sell; one cycle handles one tree with one
root, since roots share nothing but their pairs.  A base quantity that rounds to zero,
and seeding of reference prices, have no action.

`misled` is a history variable: it becomes true when a fill is credited to an order
other than its own (the pair fallback of `_find_pending_order`), be it another order of the
same node, or settled on a node that no longer awaits it.  The code can do both; two
properties say what holds until it does.  That the other order's node does not matter was
found by a proof that failed: the exit of a node is placed and its reply lost, a second exit
is tracked, the first one's fill is credited to the second by its pair, the second is then
cancelled from outside, so reconciliation opens the node again and it is sold a third time
while the first fill is still queued.  The capital of that node counts twice at the end.

### TreeRestart, Reconciler, AnomalyNotes

`TreeRestart` has what `RotationRuntime` leaves out: the names of nodes and the database.
A node is its id and its status; an id is the node's whole descent, each step an asset and a
number, as `make_child_node` writes it.  `table` is `rotation_nodes` and `outcomes` the
children with a row in `trade_outcomes`.  A cycle goes through `expiry`, `settle`, `watch`,
`plan` and `entries` and saves the tree at its end (`EndCycle`), or fails to; `SettleFill`
stores an outcome, `OutcomeFails` is the failure that ends the process; `TreeCrash` may come
anywhere.  `StartTree` builds the roots from the wallet and rehydrates the children whose
parents came back; numbers start anew with each process.  Capital is `RotationRuntime`'s.

`Reconciler` is `reconcile` with the five queries it is given (balances, open orders and
trades of the exchange, then positions and rows of the database), between any two of which
orders are placed by the web API or by hand, recorded, executed and cancelled.  `placing` and
`unrecorded` are the bot's orders whose row is still to be written, or never will be.

`AnomalyNotes` has the two recorders' memory of what they noted last (`noted`), the last
note of each in the database (`memory`), and what each was last given (`told`, a history);
a write may fail.

### ExchangeLink, AtMostOnceCalls

Threads make calls: `place` is one request, `cancel` two (the order is looked up first),
`fetch` three.  A request draws a nonce once, when it is signed; `transport.py:186`
repeats it with the same nonce after a failure that does not say whether the exchange got
it.  `Begin` is a call's start, `Sign`, `Send`, `NotSent`, `GatewayError`, `AnswerLost`,
`RateLimited`, `ApiError`, `NextRequest`, `Return` the steps of
`HttpKrakenTransport.send` and of the executor around it (together `Progress`), `Restart`
the death of the process, and `Exchange` Kraken's acceptance or refusal of whatever is on
the way.  The network may lose a request or an answer, or deliver a request after its
sender gave up; a nonce not above the last accepted one is refused.  `told`, `before` and
`effects` are histories: they are the variables of `AtMostOnceCalls`, which states what a
caller may rely on.  The mapping is the identity on them.

What the model shows of the code on the way: a retry of an attempt that was carried out is
answered "Invalid nonce", so the call is reported failed while its order is live; 4xx
answers are retried too, because `HTTPError` is an `URLError` and its branch is never
reached.

### RateLimiter

`ReadRest`, `WriteRest`, `ReadEngine` and `WriteEngine` are the points at which another
thread may come in: the limiter has no lock.  The accounts are settled when they are drawn
on; `restOwed` and `engineOwed` are the exchange's accounts, settled at every tick, and
`overlapped` remembers that two threads were between a read and a write of one account.
The engine's account gives back whole points only, and moves its clock when it does
(`client.py:164`).  REST points stay consumed when the engine's check refuses.

What was paid for is then `sending`.  `HttpKrakenTransport.send` may send it again
`MaxRepeats` times (`Repeat`): the exchange counts every attempt, the limiter only the call.
`restRepeated` and `engineRepeated` are what of the exchange's accounts may be due to that:
the cost of the repetitions, never more than the account holds.

### FeedLink

Four tasks of one event loop: `run_once`, which connects and subscribes; the reader;
and the two loops of the fallback poller.  A step is what a task does between two awaits.
`Loops` says which of the poller's loops there are.  The bot as it is shipped has neither:
`_default_websocket_factory` (`runtime_loop.py:3138`) passes no fetchers, so its poller polls
nothing and nothing is handed over.  The run gives it both, as the class is built and tested
for; the theorems hold for any.  A loop that an exception ended is awaited by the next
`deactivate`, which raises that exception out of `_set_state` and into the reader (`Raises`):
the reader is then `struck`, in state CONNECTED.
Kraken sends executions on the connection that subscribed to them (`served`).  Faults
(`Break`, refused connections, failing sends and polls) are bounded by `MaxFaults`.
`announced` counts how often an execution was announced; `exposed` marks the two moments
in which the code can announce it again (see `AnnouncedOnce`).

### CoreReducer, CoreRuntime

`CoreReducer` has no state: each operator is a function of the code, and the record it
returns has a field `ok`, false where the function raises.  `Cycle` is
`Scheduler.run_cycle`: `Events` lists what a cycle has to apply, in the order of its phases (the
guardian's verdicts, the position whose window is over, the reconciliation, the fills, the
beliefs), `ApplyEvent` applies one of them, and `Cycle` follows the state along the list.  An
exception anywhere leaves the old state and the queues (`scheduler.py:132`).

`CoreRuntime` drives it: `pc` is `down` without a process, `starting` while the database's
open orders are looked up, `idle` between cycles, then `resolving` (reconciliation),
`reaping`, and `effects`.  Every write to the database and every order is a step of its
own, and `Crash` may come between any two: memory goes, rows and the exchange's orders
stay.  `Start` rebuilds the state in the order of `main.py`.  Web threads place
(`WebPlace`), record (`WebRecord`) and cancel (`WebCancel`) orders.  Quantities are worth
a dollar each and a position gains -1, 0 or 1.

Reductions: the exchange and the web threads act only where `run_once` is suspended or the
process is down; what may come between two queries of one fetch is in `RotationRuntime`.  Prices
known to a cycle are any set of pairs, beliefs of too little confidence are left out, and
SQLite itself does not fail.

### Council

A call is a number; its request, responses and consensus are files that are first torn,
then whole, as none is written atomically.  The handler asks and reads, the broker takes a
request, dispatches prompts, collects until all have answered or the time is up, and
writes the consensus; agents answer at any time, or never.  An answer is torn, or a vote, or
neutral, or parses and has a direction that is none (`unlisted`): `CouncilVote.from_json`
takes all but the first for valid, and a missing direction for neutral.  Bot and broker may be killed
at any point.

### Brain

One action per step of a cycle that reads or changes orders or memories; `Failing(n)`
is a call that fails in it, which most callers read as an empty answer.  Scores, values
and minimums are a choice; so is which assets a sweep leaves out because selling them
failed lately.  Each order remembers why it was placed and what the decision for it could not
read (`unread`).  The exchange's open orders come with the names `parse_open_orders` gives
their pairs, which differ from the brain's for those in `Renamed` (`Listed`): `normalize_pair`
makes `XT/USD` of `XTZUSD` and `TR/BTC` of `TRXXBT`.  Other parties place and execute orders,
and the runtime opens and closes roots of the tree at any moment of a cycle (`RootOpens`,
`RootCloses`); `unseen`, a history, has the open roots that the cycle under way did not see,
because they were opened after it looked or because it could not look.

### Healing, Grid, BuildPhase

`Healing`: the bot writes a temporary file and renames it, in two steps; the watchdog
reads heartbeat and incidents in two steps, decides (by rule, or by the model's validated
answer), audits and records.  Each may die anywhere.  Nothing in the program starts the
watchdog yet.  The category for a lost database is left out: the bot writes
`persistence_connected` as true in every heartbeat.

`Grid`: pure functions on slots, each of two legs; any order of fills and
redistributions.  Nothing in the program calls the engine yet.

`BuildPhase`: the controller's copy of the phase state and the saved one, the work tree
of each task (clean, untested, tested, failing, touched since), attempts, commits.  A run
may be killed between any two steps, and its agent may live on and write; a person may
start a run, edit files and write a review decision.

## 3. Properties and runs

| run | instance | properties | result |
|---|---|---|---|
| `safeguards` | gate: 2 symmetric callers, threshold 2, window 2, cooldown 2, clock to 3; tree: 2 assets, a wallet with one of them or none, depth 2, 3 nodes a process, 4 cycles; report: 3 orders, one each of the loop, the API and the user; notes: windows of 2 and 1; healing: 2 incidents, 2 audits | `TypeOK`, `ClosedBelowThreshold`, `InFlightPredatesOpening`, `EarlyClosingIsOverdue`; `SharedIdsExplained`, `ClosedRowHasOutcome`, `OpenChildrenKept`; `OwnOrdersRecognised`; `AnomalyOnRecord`; `SilenceIsReal` | hold |
| `gate_addorder` | 1 caller, threshold 3 | `FailuresHaltMutations` | violated |
| `child` | BUY pair, 1 child of 2 units, 3 orders, capital 3 | `RootCapitalConserved`, `ExecutedNotTakenAsCancelled`, `TerminalStatusesLast` | hold |
| `tree` | BUY and SELL pair, 2 children or a child and a grandchild, 2 orders, capital 3 | `ReservedBacked`, `RootCapitalConserved`, `CancelledUntracked` | hold |
| `root` | BUY and SELL pair, root with an exit pair, 1 child, 1 order, conditional tree, fairness | `ExpiredPlanResolved`, `FillsSettled` | hold |
| `one_entry` | 1 BUY pair, 1 child, 2 orders | `OneLiveEntryPerNode` | violated |
| `phantom` | 1 child, 1 order | `FreeReservedWithinTotal` | violated |
| `bottom_up` | root with an exit pair, 1 child, 2 orders | `ParentClosesLast` | violated |
| `core` | DOGE and another pair, 3 orders of which 1 over the API, 2 beliefs, 2 crashes | `TypeOK`, `HeldWithinExecuted`, `CancelledRowNotLive`, `OnlyPoisonBlocks`, `ReentryBlockedAfterStop` | hold |
| `core_stops` | the same, 1 crash | `EveryPositionHasStop` | violated |
| `exchange` | link: 2 threads, 2 calls, 1 retry, 1 restart; limiter: 2 threads, 1 pair, 1 repetition, clock to 2; feed: both loops, 2 pairs, 2 orders, 3 faults; fairness | `AtMostOnce`, `GivenUpStaysDead`, `EveryCallReturns`; `WithinPolicy`; `SubscriptionsKept`, `AnnouncedOnce`, `DropIsRepaired` | hold |
| `companions` | build: 2 tasks, the second dependent, 2 attempts; council: 1 pair, 2 agents, 1 direction besides neutral, 2 requests, 1 broker killed; brain: 1 asset, its cross pair renamed, 2 orders, 1 failure; grid: up to 2 slots, 2 cycles; fairness | `CommittedIsTested`, `CommittedOnce`, `EveryRunEnds`; `OneRequestPending`, `BeliefHasVote`, `EveryRequestAnswered`; `RepeatsExplained`, `TrackedNotSwept`, `StaleOrdersEnd`; `LegsLevel` | hold |

### The gate

* `ClosedBelowThreshold`: a closed breaker has counted fewer failures than its
  threshold.  With several callers a success of one may come between the failures of
  another; none of these orders leaves a count at the threshold and the breaker closed.
* `InFlightPredatesOpening`: whatever is under way while the breaker is open was let
  through before.
* `EarlyClosingIsOverdue`: only the answer of such a mutation closes it early.  This
  is what the code does, and weaker than "stays open for its cooldown": an overdue
  success, and `place_order` of an order admitted earlier, resets it.
* `FailuresHaltMutations` (violated) is SPEC.md:297, "3 failures in 120s -> halt all
  operations".  Three failed AddOrder calls are enough: none is recorded.

### The tree

* `RootCapitalConserved`: what the root started with equals what it has free,
  reserved and spent on entries, less the proceeds of exits, until a fill goes astray.
  It relates planning, settlement, cancellation from six places, and recovery.
* `ReservedBacked`: no node holds a reservation that no planned child stands for, even
  when fills do go astray.
* `ExecutedNotTakenAsCancelled`: an order executed in part or in full is not treated
  as cancelled, although open orders and trades are fetched one after the other.  It
  holds because the orders are fetched first: with the queries the other way round, a
  fill between the two would be in neither.  The model's trade history is complete; the
  code asks for one page of it (`exchange/client.py:219`), so an order whose trades have
  been pushed off that page since the last reconciliation would be taken as cancelled.
* `CancelledUntracked`: no pending order of a cancelled node, so no capital is
  released that a tracked fill may still spend.
* `TerminalStatusesLast`: closed and cancelled children stay so, except for a stray fill
  (a root's statuses are managed by its deadline, not by its orders alone).
  It holds in the default configuration.  With `ConditionalTree = TRUE` it does not: a
  fill delivered while effects are handled is settled in the same cycle, its pending
  order is still there, and if that order is older than the exit timeout,
  `_check_rotation_fill_timeouts` sells the closed node again without a look at its
  status (`runtime_loop.py:2368`).  The second exit's proceeds are credited too, so
  `RootCapitalConserved` fails there with three orders as well.  It takes an exit timeout
  shorter than the reconciliation interval, which would have forgotten the order first.
* `ExpiredPlanResolved`, `FillsSettled`: liveness, see below.
* `OneLiveEntryPerNode` (violated): after a reconciliation the live entry order of a
  planned node is forgotten and a second one placed.  Both may fill.
* `FreeReservedWithinTotal` (violated) is the invariant of
  `docs/specs/recursive-rotation-tree-spec.md:70`, taken only for nodes without exit
  proceeds (a profitable child lifts `quantity_free` above `quantity_total` by
  design).  A fill that comes between two cycles is settled twice.
* `ParentClosesLast` (violated) is line 158 of that document.

Other differences between documents and code, met on the way and too plain for a run:
SPEC.md:304 allows one test operation in HALF_OPEN, `before_mutation` lets any number
through; a comment in `order_gate.py:204` says rate limits do not count toward the
breaker, `executor.py:205` counts them for cancellations; SPEC.md:299 wants client order
ids on every order; the docstrings in `transport.py:160` and `:177` call the retries
read-only, and `send` retries mutations too.

### Restart, reports and notes

* `SharedIdsExplained`: ids are not unique, since each process numbers its children anew, but
  a new child shares its id only with a node that came back from the table and is no longer
  planned or open: no order or fill of a live node can be taken for another's.
* `ClosedRowHasOutcome`: a child is closed in the table only when its outcome is stored,
  wherever the process was killed and whichever write failed.
* `OpenChildrenKept`: saving the tree forgets the row of an open child only if the process
  began without any child or without the child's parent.
* `OwnOrdersRecognised`: the report calls an order of the bot's own foreign only if its row
  is still to be written or was lost.  It rests on the order of the queries: the exchange is
  asked first, so a row written between is read.
* `AnomalyOnRecord`: what a recorder was last given stands in its last note, not older than
  the window, unless writing that note failed.

### The core

* `HeldWithinExecuted`: what is held of an order, being sold and already sold is never
  more than was executed of it, although the start and every reconciliation look the same
  executions up in the trade history, and a crash may come between any two writes.
* `CancelledRowNotLive`: an order the table calls cancelled is not live on the exchange,
  whatever web threads and reaper do to it at the same time.
* `OnlyPoisonBlocks`: `run_cycle` discards a cycle at the first exception and keeps its
  queues, so the same event fails again in the next.  Two kinds of position cause that (one
  without stop and target; one whose profit is to become DOGE while DOGE's price is not
  handed down); nothing else does, once the prices are known.
* `ReentryBlockedAfterStop`: a stop blocks its pair for entries until its cooldown is over,
  over crashes and restarts too.  The accumulation of DOGE does not look at cooldowns and is
  excepted.
* `EveryPositionHasStop` (violated) is SPEC.md:470, "Every position has stop-loss (required,
  no exceptions)": a fill without a belief becomes a position with stop and target zero.

One more difference, shown by a theorem rather than a run: `_persist_state_changes` says it
persists the changes of the bot's state (`runtime_loop.py:970`), and the restart of SPEC.md:328
builds on that.  It compares the states before and after `run_cycle`, but positions are
opened by the reconciliation before it, and at the start; the cycle drops the pending orders before
it looks at its fills (`scheduler.py:164`), so none of these opens one.  `TableStaysEmpty`
(section 4): the table of positions never has a row, and a process that starts knows of none.

### The way to the exchange

* `AtMostOnce`: the refinement of `AtMostOnceCalls`.  A call is carried out once at most,
  reported done only if it was, and reported failed without any claim: the code keeps no
  stronger promise, since a failed call may have been carried out, or may still be.
* `GivenUpStaysDead`: the one thing a caller may conclude after a failure.  As nonces only
  grow, a failed call can no longer be carried out once a later call is done.
* `EveryCallReturns`: every call returns or raises, since `run_once` waits for it.
* `WithinPolicy`: unless two threads have overlapped on an account, the exchange's budgets
  are overdrawn by no more than what the transport sent again, although the limiter settles
  its accounts late and in whole points.  With an overlap they can be overdrawn further: one
  of the two charges is lost.  That the budgets themselves are kept is not true: one call
  is paid for once and sent up to `max_retries + 1` times (`transport.py:191`), also when the
  exchange refused it for its rate.
* `SubscriptionsKept`: `run_once` subscribes a pair once and never asks again, so after any
  drop the client must restore what it believes subscribed.
* `AnnouncedOnce`: feed and poller take over from each other without announcing an
  execution twice, but for two moments: an order executed between the renewed subscription
  and the end of the poller, and an order loop that fails between two announcements.
* `DropIsRepaired`: after a drop the feed comes back, read and CONNECTED, unless the reader is
  killed, which it can be in two ways: by a second drop while subscriptions are being restored
  (`websocket.py:503`), and by the exception that ended a loop of the poller, which comes out of
  `deactivate` (`websocket.py:207`) as the state turns to CONNECTED (`:471`) and which nothing
  catches.  Nothing restarts a dead reader, and in the second case the state says CONNECTED
  for ever, so `run_once` sees no reason to connect.

### Beside the bot

* `OneRequestPending`: no two unprocessed requests of one pair, whatever is torn, removed
  or killed.  `BeliefHasVote`: a direction that is served is one somebody finished writing a
  vote for, and a neutral consensus has at least an answer that parses behind it.  It need not be
  a vote: `{}`, or a direction that is none of the three, counts among the valid ones
  (`llm_council_broker.py:253-261`), so a completed neutral consensus may be made of nothing but
  such answers.
  `EveryRequestAnswered`: each request gets a consensus file or is removed.
* `RepeatsExplained`: the brain proposes a trade again while its order is live only if it
  could not read the open orders, or if they call the pair by another name and its memory of
  the order was lost, too old or not read (`cc_brain.py:1026` compares the names as they come).
  For other pairs lost memories alone do not make it.  Substitutes, exits and sweeps do not
  look at pending orders at all and are excepted.  `TrackedNotSwept`: its sweep places an order
  on an asset that is an open root only if that root was opened since the cycle read the tree,
  or the tree could not be read (`cc_brain.py:1510` reads the failure as an empty tree).  For
  the rest of what the tree holds there is no such property: see below.  `StaleOrdersEnd`: no
  order stays open for ever.
* `SilenceIsReal`: the watchdog advises on a silent bot only if the bot was silent for the
  threshold, however write, rename, crash and reading interleave.
* `LegsLevel`: all legs of all slots trade one quantity, never below the minimum, though
  profits are redistributed between the entry and the exit of a slot.
* `CommittedIsTested`: what is committed for a task is what its tests passed on, apart from
  what was written since by somebody else.  `CommittedOnce`: a crash between commit and saved
  state does not lead to a second commit.  `EveryRunEnds`: a run of the controller ends, or
  stays in its tests for ever, which have no timeout.

Differences between documents and code on this side.  `find_wallet_only_untracked` promises
(`cc_brain.py:1338`, and the comment at 1822) balances "not in any open rotation node"; it is
given the open nodes of depth 0 (`:1501`), so what an open child holds, or a root that is
closing, is swept like what nobody manages.  `get_pairs_with_open_orders` (`:1026`) is to keep
the brain from placing again what is in flight, and misses the pairs `normalize_pair` renames.

### Bounds, and why they are enough

`MaxTime` leaves room for the window and the cooldown to pass once each and for
failures on both sides of them; thresholds of 2 and 3 distinguish "one below" from "at".
`MaxNodes` and `MaxOrders` count everything ever planned and placed: a root and one
child with three orders go through entry and exit, with any of the three doubled or placed
again (a closed node sold once more needs the third); three nodes give siblings and a
grandchild.  Children of two units can be filled in part.  Capital and lots are chosen so
that a child, a second child, and a child of a child can be funded under the four-fifths
rule of `compute_child_allocations`.  Exit prices differ from entry prices, so proceeds and
costs cannot be confused.  The queue of messages and the fill queue need no bound of their own:
orders are executed at most `qty` times.

In `core` three orders are an entry, its exit, and one of the API's between; two crashes
let one hit the recovery from the other; an order of two units can be executed in part.
In `exchange` two calls of up to three requests from two threads give every order of their
nonces, one retry gives an attempt whose predecessor is still on the way, and one restart
one that outlives its process.  The limiter's budgets hold two or three requests, and the
clock passes a point's decay of either account; one repetition of each of two requests takes
the exchange's accounts above their budgets.  Three faults let a drop hit the recovery from a drop.
In `safeguards` `TreeNodes` and `TreeDepth` allow a root, its child and a grandchild, or two
generations of children in one process; `TreeCycles` lets a tree be saved, lost, rebuilt and
planned on again twice; one fill of `TreeFills` at a time is enough, as fills are settled one
by one.  A wallet that holds a root's asset, or no longer does, decides which children come
back.  The report's five queries leave six gaps, for one order each of the loop, of the API
and of the user to be placed, recorded, executed or cancelled in; `LastQuarter` lets an order
turn stale.  `LastTick` passes the longer of the notes' two windows.
In `companions` a dependent task waits for a task that fails; two agents can agree, disagree
and be silent; one failed call of the brain may be any of those of a step, and two orders
are one in flight and its repetition; of the asset's two pairs one is renamed and one is not; two slots differ in which leg is filled.

`MaxCalls`, `MaxCrashes`, `MaxNow`, `MaxFaults`, `MaxRequests`, `MaxHours`, `MaxBrokerKills`,
`MaxFailures`, `MaxIncidents`, `MaxAudits`, `MaxQuantity`, `MaxCycles`, `MaxOrders`,
`MaxWebOrders`, `MaxBeliefs`, `MaxUnread`, `TreeNodes`, `TreeCycles`, `TreeFills`,
`LastQuarter` and `LastTick` are bounds of the models.  `MaxRetries`, `MaxRepeats` and
`MaxAttempts` are the code's.  `exchange`, `companions` and `safeguards` do not check for
deadlock: all calls may be made, the process may have stopped, or the last tick passed.

### Fairness

The runs `child`, `tree`, `core` and the gate's assume none.  The run `root` uses `FairSpec`: weak fairness of `RunOnce`
because `run_forever` awaits `run_once` in a loop and nothing in it waits for another
party; strong fairness of the two queries and of `RunCycle`, which can fail (a network
error; a missing price) and are tried again each cycle.  That last assumption is about the
environment: a core position whose price is missing for ever stops the tree for ever.  No
fairness is assumed of the exchange, of messages or of time.

`LinkFairness` is weak fairness of each thread's `Progress`: an attempt ends by an answer or
by its timeout.  `FeedFairness` is weak fairness of the reader, a task of the event loop, and
strong fairness of `Reconnected`, the connection that succeeds among the attempts; an
exchange that refuses for ever is outside it.  In `companions` the broker and the brain's
cycle run on, as each is a loop that waits for nobody without a timeout, and orders grow older.
So does the controller, except in its tests: pytest on what an agent wrote is run without a
timeout (`common.py:494`, `run_phase.py:416`), so `TimedSteps`, of which `BuildFairness` is the
weak fairness, leaves the steps out that end them, and `EveryRunEnds` allows for it.  Nothing is assumed of persons, agents, messages or the exchange; failed
calls of the brain end because they are bounded.

## 4. What is proved

Each theorem is for every value of the constants, from the module's named assumption.

| module | theorem | states |
|---|---|---|
| `OrderGate` | `GateInvHolds` | `Spec => []GateInv` |
| | `GateTyped` | `TypeOK` |
| | `BreakerTrips` | `ClosedBelowThreshold` |
| | `DequeSorted` | `FailuresInOrder` |
| | `NoneAdmittedWhileOpen` | `InFlightPredatesOpening` |
| | `EarlyClosing` | `EarlyClosingIsOverdue` |
| `RotationRuntime` | `RuntimeTyped` | `TypeOK` |
| | `CancelledUntrackedHolds` | `CancelledUntracked` |
| | `ExecutedSeen` | `ExecutedNotTakenAsCancelled`, when `ConditionalTree = FALSE` |
| | `ReservedBackedHolds` | `ReservedBacked` |
| | `RootCapitalConservedHolds` | `RootCapitalConserved`, when `ConditionalTree = FALSE` |
| | `TerminalStatusesLastHolds` | `TerminalStatusesLast`, when `ConditionalTree = FALSE` |
| `RateLimiter` | `AccountsBounded` | `LimiterTypeOK` |
| | `PolicyKept` | `WithinPolicy` |
| `ExchangeLink` | `LinkTyped` | `LinkTypeOK` |
| | `GivenUpStaysDeadHolds` | `GivenUpStaysDead` |
| | `AtMostOnceHolds` | `AtMostOnce`, the refinement |
| `FeedLink` | `SubscriptionsKeptHolds` | `SubscriptionsKept` |
| | `AnnouncedOnceHolds` | `AnnouncedOnce` |
| `TreeRestart` | `SharedIdsExplainedHolds` | `SharedIdsExplained` |
| | `ClosedRowHasOutcomeHolds` | `ClosedRowHasOutcome` |
| | `OpenChildrenKeptHolds` | `OpenChildrenKept` |
| `Reconciler` | `OwnOrdersRecognisedHolds` | `OwnOrdersRecognised` |
| `AnomalyNotes` | `AnomalyOnRecordHolds` | `AnomalyOnRecord` |
| `CoreRuntime` | `CoreTypes` | `TypeOK` |
| | `CancelledRowNotLiveHolds` | `CancelledRowNotLive` |
| | `ReentryBlockedHolds` | `ReentryBlockedAfterStop` |
| | `OnlyPoisonBlocksHolds` | `OnlyPoisonBlocks` |
| | `HeldWithinExecutedHolds` | `HeldWithinExecuted` |
| | `TableStaysEmpty` | `dbPositions = <<>>` |
| `Council` | `OneRequestPendingHolds` | `OneRequestPending` |
| | `BeliefHasVoteHolds` | `BeliefHasVote` |
| `Healing` | `SilenceIsRealHolds` | `SilenceIsReal` |
| | `IncidentsAuditedHolds` | `IncidentsAudited` |
| `Grid` | `LegsLevelHolds` | `LegsLevel` |
| `Brain` | `RepeatsExplainedHolds` | `RepeatsExplained` |
| | `TrackedNotSweptHolds` | `TrackedNotSwept` |
| `BuildPhase` | `CommittedIsTestedHolds` | `CommittedIsTested` |
| | `CommittedOnceHolds` | `CommittedOnce` |

Each proof module states its inductive invariant at the top, has one lemma per action or
group of actions, and ends in the theorems.

**OrderGate.**  The invariants are not inductive as they stand.  That opening the breaker leaves every
mutation under way admitted before it needs that nobody was admitted later than `now`,
and that a failure appended keeps the deque in order needs the types; `GateInv` is the
conjunction of the four invariants with `admittedAt[c] <= now`.  Lemmas about `Pruned`
(it is a suffix of the deque, so it keeps types, order and bounds) carry the reasoning
about sequences; one lemma per breaker method says what the method keeps of the
invariant; each action's step cites them.  `EarlyClosing` follows from `GateInv`: a step
that closes the breaker before the cooldown is over is not an admission, so it is the
answer of a caller admitted before the opening.

**RotationRuntime.**  Types need `TypeInv`: parents point into the tree, the root is never
planned, every order belongs to a node and an entry to a child, so that no operation reads
past the tree or takes a quantity below zero.  `CancelledUntracked` needs `TrackedInv`: what
the entry loop still has to visit is planned and tracked by no order, and no exit is tracked
for a planned node.  `ExecutedSeen` needs more, `AInv`: one tracked order at most
per client order id; entries belong to planned nodes, exits to nodes past that; as long as
fills are queued, the next cycle reconciles and forgets the orders before it settles them;
and the loop over missing orders works on what it found.  The last two hold only when a
fill cannot be delivered in the middle of a cycle, hence the condition.

**RotationCapital.**  What a node has planned, spent and earned is a sum over its children.
The folds of the library recurse over subsets, and an induction over those is out of reach;
instead, a finite set on which a law of sums fails has a smallest subset on which it does,
and none can be smallest (`Smallest`, from the well-foundedness of strict inclusion).  The
laws say how a sum changes with one child and when another is added.  `ReservedBacked` then
needs `PlanInv`: children are younger than their parents, a planned node has neither cost nor
proceeds, an entry order is as large as its planned node and what was executed of an order
is no more than it asked for, and neither a queued exit nor the price monitor is about a
planned node.  It holds however astray fills go.  The other two theorems do not, so their invariant is
`~misled => Faithful`: the root's account balances (free, reserved and spent are the capital
and what was earned; reserved is what is planned); a child that is not closed has earned
nothing; an exit of a child is tracked, or about to time out, only while the child is
closing; and a fill that is queued finds its node waiting for it (`Due`).  The last uses
`AInv`: a fill credited to its own order comes from the only one tracked, and reconciliation
forgets that one before the fill is settled.

**RateLimiter.**  An account always covers what is owed, either itself or in what the one
thread that has read it is about to write (`Covered`).  A point of the engine comes back
only when its whole time has passed, which carries the lazy settling past the eager one.  A
repetition raises both sides of the bound by the same amount, and a tick that brings the
exchange's account below the repetitions' share lowers that share to it.

**ExchangeLink.**  A busy thread works at a call of its own; the last request of a call has
one nonce, whatever copies of it are on the way; one that was carried out has a nonce not
above the last accepted; and what had failed before a call was asked has smaller nonces.
Then each step is one of `AtMostOnceCalls` or a stutter.

**FeedLink.**  Two invariants.  `Connection`: there is no reader before the first connection,
and its state says so while it is away (`Places`); what is restored covers what `run_once`
believes, and is what Kraken serves afterwards (`Restoring`); executions are served only on a
connection that is up or just restored, when the poller is off (`Serving`).  `Once`: an order
is announced by the inbox or by the poller, never both, where what the poller will still
announce (`Due`) depends on the place its loop is at: before announcing it is what it knew,
in the middle of it what it has left.  Neither needs to know which loops there are.

**TreeRestart.**  `TreeInv`: a child planned by this process bears its place as its number, so
its id differs from all of its siblings of the same process; a node that says closed has its
outcome stored, before its row can say so; and of the rows of children still traded into, each
is some node's, or the rehydration dropped it for one of the two reasons of `OpenChildrenKept`.
That a restored list has all it should rests on the table being finite.

**Reconciler.**  Every order of the bot, open or seen open, has a row, waits for one or never
gets one (`Accounted`); rows are only read after the orders.  **AnomalyNotes.**  What was
noted is in memory as it was (`NotedInMemory`), and what a recorder was told since is a
repetition younger than its window (`ToldRepeats`).

**CoreRuntime.**  One invariant, `IInv`, for the first four theorems; TLC agrees with it on the core
instance.  Beside the types it says that a pending order's exchange id is an order's
(`PendingKnown`); that what a reconciliation found gone is not live while it is worked off
(`GoneStaysGone`, without which a row marked cancelled could name a live order); that a row with
a status has a kind; that fills wait only while a reconciliation is due (`FillsDue`); that a pair
whose stop has sold is in the table and in the memory of every process (`StoppedCools`); and
that of the effects that wait, a sale on a stop comes after its cooldown is written, and none
enters a pair that cools (`EffectsCool`).  The step that needs most is the cycle, which applies
any number of events, each of which may raise.  What a cycle keeps is shown one event at a time
and carried along the list by looking at the least place where it would fail (`CycleIs`,
`CycleAlong`).  `OnlyPoisonBlocks` follows the same list in more detail: a verdict or a window
closes a position that is there, for which a stop price and DOGE's price are enough; the
reconciliation leaves no order pending, so no fill after it matches one; and nothing opens a
position in between.

**CoreHoldings.**  `HeldWithinExecuted` alone says nothing of an execution that is still to be
found, so a step that makes a position of it could not be shown to keep the bound.  What is
inductive, together with `IInv`, is `Books`, which TLC agrees with on the core instance.
`HeldOnce`: what is held, being sold and sold of an order is no more than was executed of it,
and nothing at all while the order is still awaited, that is, pending, waiting in a
reconciliation, or with a row that is open or missing.  `PendingSound` makes sure that settling
one order leaves no other one waiting for the same execution: no two pending orders have the same
exchange id, and each has the client order id of its row, so removing it by that id removes it.
`TradedOnly` bounds what a fetch reported by what was executed, `Unrecorded` gives each order
placed and not yet recorded to one writer, and `NothingStored` keeps positions from coming back
out of the database.  The sums over lists rest on the laws of `SumLemmas`; a position closed, an
exit added, an effect worked off each move one weight, and `Picked` keeps the sum when all
weights are among the places picked (`PickedSum`).  `NothingStored` is more than was looked for:
it says that the positions table is empty for ever, and `TableStaysEmpty` states that by itself.

**Council.**  `Counted`, whatever is killed: what was not asked has no file, and of one pair one
request at most is pending, since the handler asks nothing while one is.  `Voted`, until a broker is killed: no agent is prompted twice for a call, so an
answer seen whole stays what it was (`SeenStands`), and stands behind the consensus when it is
written; the majority is of answers that parse, and of votes unless it is neutral.  A broker
started again prompts anew, and an agent may then be writing over the answer that was counted:
`BeliefHasVote` excepts that.

**Healing.**  The heartbeat file is never torn and is as old as the silence; what a check
concluded was true when it read; the audit line is ahead of its incident.  **Grid.**  One
quantity, not below the minimum, for all legs.  **Brain.**  Orders are numbered as they
come; what is about to be proposed is in flight only on an order that could not be known of,
and stays so, as orders only grow older and memories only come for new ones (`ChoiceFresh`);
the open roots that the cycle has not missed are in its view (`SeenInView`), and what it is
about to sweep is not.  **BuildPhase.**  Controller and
book agree on where the task is, with the book ahead of the file only between tests and
review; a task said to be approvable holds what was tested; a task that was committed and
not recorded can reach a commit again only through somebody's help.

Only model-checked: the properties of the rotation runtime with `ConditionalTree = TRUE`, where
some of them do not hold, and liveness, which is out of TLAPS's reach.
What recursive functions compute over lists and sets of any size is proved only as far as the
laws that these theorems need.

## 5. Not modelled

* Pair scanner, regime and duration estimators: numbers over price bars; the models let them
  return anything.  Research, analysis, alerts and other scripts: no state the bot needs.
* The capital of the rotation tree across a restart (`runtime_loop.py:366`): the roots are built
  from the whole wallet while the open children, whose assets are in it, are read back too.
  That no capital is counted twice is therefore false by a plain reading, and no
  property states it.  `TreeRestart` models which nodes and rows a restart leaves, and
  not their quantities.
* The dashboard, streams and TUI, which display; configuration; the contents of payloads,
  prompts and messages; fees and decimals.
* Functions nothing calls: `check_position_rules`, `detect_orphans`, the grid's caller; the
  drawdown rules, which read a value nothing writes.
* The brain's self-tuning and post-mortems; failures of SQLite inside the runtime; the
  interleavings inside one method of the breaker.

Behaviour met while modelling that no document contradicts and no property is about:

* Brain: a quote substitute is not checked against pending orders; `CCMemory.query` reads an
  SQL error as an empty answer and a failed write is answered "stored"; the cancellation of
  ghosts takes any open order older than the limit, the runtime's too; a pair blocked for
  permissions stays blocked.
* Council: a half-written response counts as seen and invalid and is not read again; an
  unknown direction counts as valid, then as no vote.
* Healing: the heartbeat never says "stopped", and persistence always counts as connected;
  the watchdog's own incidents are among those it reads.
* Grid: slots are never removed, so a grid once deactivated cannot be activated again.
* Build: a crash between commit and save leaves a task that has "no changed files to commit"
  in every later run; one before the prompt is written, "Missing saved prompt".
* Feed: an exception of the fill handler ends the reader while the state stays CONNECTED; a
  cancelled order is announced by the poller as filled; an order loop that ended is not
  restarted while the ticker loop runs.
* Core: since the positions table is empty, the row of an order that a belief places, which
  refers to its position by a foreign key (`sqlite.py:42`, enforced at 216), is refused with an error
  `_execute_place_order` does not expect, and the process ends with the order live and no row
  (`RecordOrder`); an API cancellation does not touch the row; the reaper's cancellation of an order
  executed in part loses that part; client order ids are used again after a restart.

`PROJECT.json` lists every component with what of it is modelled.

## 6. What could come next

1. An abstract ledger (capital moves between free, reserved, deployed and returned) that
   `RotationRuntime` refines while not `misled`; the balance of `Faithful` is its core.
2. A breaker method split at its reads (`before_mutation` reads `_opened_at` twice).
3. Quantities in `TreeRestart`, for the capital a restart counts twice.
