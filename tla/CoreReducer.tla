---------------------------- MODULE CoreReducer ----------------------------
(***************************************************************************)
(* The pure part of the bot: the reducer (core/state_machine.py) with the  *)
(* portfolio and position transitions it calls, the guardian's verdicts    *)
(* and one scheduler cycle (scheduler.py).                                 *)
(*                                                                         *)
(* An operator that stands for a function which may raise returns a record *)
(* whose field ok says whether it did not; the caller of Scheduler's       *)
(* run_cycle keeps its old state then.                                     *)
(*                                                                         *)
(* Quantities are units worth one dollar.  A position's result is its      *)
(* gain: -1 at its stop, +1 at its target, and any of -1, 0, 1 when a      *)
(* belief or a window closes it at the reference price.                    *)
(***************************************************************************)
EXTENDS Integers, Sequences, SequencesExt, FiniteSetsExt

CONSTANTS Pairs,      \* the traded pairs
          Doge,       \* the pair DOGE/USD
          EntryUsd    \* config.min_position_usd: what an entry costs

ASSUME PairsAssumption == IsFiniteSet(Pairs) /\ Doge \in Pairs /\ EntryUsd \in Nat \ {0}

Directions == {"bullish", "bearish", "neutral", "none"}

NoId == [source |-> "none", n |-> 0]
SequenceId(n) == [source |-> "sequence", n |-> n]
FillId(o) == [source |-> "fill", n |-> o]

\* BotState.  The drawdown of a portfolio is never written by any code, so
\* check_portfolio_rules never blocks an entry and entry_blocked stays FALSE;
\* neither is kept here.  seq goes on after the ids of the positions it starts
\* with, whatever orders were numbered before.
InitialBot(usd, doge, positions, pending, cooling) ==
    LET numbers == {positions[i].id.n : i \in DOMAIN positions}
    IN  [positions |-> positions, pending |-> pending, cooling |-> cooling,
         beliefs |-> [p \in Pairs |-> "none"], usd |-> usd, doge |-> doge,
         seq |-> 1 + Max(numbers \cup {0})]

Done(bot, actions) == [ok |-> TRUE, bot |-> bot, actions |-> actions]
Raised(bot) == [ok |-> FALSE, bot |-> bot, actions |-> <<>>]

\* The elements of s at the places I, in their order.
Nth(I, k) == CHOOSE i \in I : Cardinality({j \in I : j <= i}) = k
Picked(s, I) == [k \in 1..Cardinality(I) |-> s[Nth(I, k)]]
Keeping(s, Test(_)) == Picked(s, {i \in DOMAIN s : Test(s[i])})

SumOver(s, Weight(_)) == SumFunction([i \in DOMAIN s |-> Weight(s[i])])

---------------------------------------------------------------------------
(* Portfolio and positions *)

Signed(position) ==
    IF position.side = "long" THEN position.quantity ELSE -position.quantity

\* The DOGE held counts for what it would sell at, and for nothing while DOGE
\* has no price.
TotalValue(bot, priced) ==
    bot.usd + (IF Doge \in priced THEN bot.doge ELSE 0) + SumOver(bot.positions, Signed)

IsPosition(bot, id) == \E i \in DOMAIN bot.positions : bot.positions[i].id = id
PositionOf(bot, id) ==
    bot.positions[SelectInSeq(bot.positions, LAMBDA q : q.id = id)]

\* The first position of a pair, as _find_position_by_pair returns it.
HasPair(bot, pair) == \E i \in DOMAIN bot.positions : bot.positions[i].pair = pair
PositionOfPair(bot, pair) ==
    bot.positions[SelectInSeq(bot.positions, LAMBDA q : q.pair = pair)]

SideFor(direction) ==
    CASE direction = "bullish" -> "long"
      [] direction = "bearish" -> "short"
      [] OTHER -> "none"

\* PortfolioManager.apply_fill: a position already held under this id is
\* replaced, and the difference of the two is paid in cash.
ApplyFill(bot, position) ==
    IF IsPosition(bot, position.id)
    THEN LET i == SelectInSeq(bot.positions, LAMBDA q : q.id = position.id)
         IN  [bot EXCEPT !.usd = @ - (Signed(position) - Signed(bot.positions[i])),
                         !.positions[i] = position]
    ELSE [bot EXCEPT !.usd = @ - Signed(position),
                     !.positions = Append(@, position)]

Closing(position, reason) ==
    [type |-> "close", id |-> position.id, pair |-> position.pair,
     side |-> IF position.side = "long" THEN "sell" ELSE "buy",
     quantity |-> position.quantity, reason |-> reason]

\* Mutants: the position sold stays in the portfolio; DOGE's price is wanted
\* whether or not the profit is turned into DOGE.
CloseAndKeep(bot, position, reason, gain, dogePriced) ==
    IF ~position.armed THEN Raised(bot) ELSE Done(bot, <<Closing(position, reason)>>)
CloseWithDogePrice(bot, position, reason, gain, dogePriced) ==
    IF ~position.armed \/ ~dogePriced THEN Raised(bot)
    ELSE Done([bot EXCEPT !.positions = Keeping(@, LAMBDA q : q # position)],
              <<Closing(position, reason)>>)

\* PositionLifecycle.close_position, then PortfolioManager.apply_close.  The
\* first refuses a position without stop and target; the second turns a
\* profit into an order for DOGE while DOGE is believed to rise, and needs
\* DOGE's price for it.
Close(bot, position, reason, gain, dogePriced) ==
    LET accumulate == gain > 0 /\ bot.beliefs[Doge] = "bullish"
        value == IF position.side = "long" THEN position.quantity + gain
                                           ELSE gain - position.quantity
        buyDoge == [type |-> "place", id |-> NoId, pair |-> Doge, side |-> "buy",
                    quantity |-> gain, reason |-> "accumulate"]
    IN  IF ~position.armed \/ (accumulate /\ ~dogePriced)
        THEN Raised(bot)
        ELSE Done([bot EXCEPT !.usd = @ + value,
                              !.positions = Keeping(@, LAMBDA q : q # position)],
                  <<Closing(position, reason)>> \o IF accumulate THEN <<buyDoge>> ELSE <<>>)

\* A belief the other way opens no position.
MayOpen(side, view) == view \in {"none", side}

\* A position gets its stop and its target from a belief, or it has neither.
Opened(id, pair, side, quantity, view) ==
    [id |-> id, pair |-> pair, side |-> side, quantity |-> quantity, armed |-> view # "none"]

---------------------------------------------------------------------------
(* One handler per event *)

\* Mutant: a stop leaves no cooldown.
StopWithoutCooldown(bot, id, dogePriced) ==
    IF IsPosition(bot, id) THEN Close(bot, PositionOf(bot, id), "stop_loss", -1, dogePriced)
                           ELSE Done(bot, <<>>)

StopTriggered(bot, id, dogePriced) ==
    IF ~IsPosition(bot, id) THEN Done(bot, <<>>)
    ELSE LET position == PositionOf(bot, id)
             closed == Close(bot, position, "stop_loss", -1, dogePriced)
         IN  [closed EXCEPT !.bot.cooling = IF closed.ok THEN @ \cup {position.pair} ELSE @]

TargetHit(bot, id, dogePriced) ==
    IF ~IsPosition(bot, id) THEN Done(bot, <<>>)
    ELSE Close(bot, PositionOf(bot, id), "target_hit", 1, dogePriced)

ReservedUsd(bot) ==
    SumOver(bot.pending, LAMBDA q : IF q.kind = "position_entry" /\ q.filled < q.base
                                    THEN q.quote ELSE 0)
ReservedDoge(bot) ==
    SumOver(bot.pending, LAMBDA q : IF q.kind = "inventory_sell" THEN q.base - q.filled ELSE 0)

\* A new order of the reducer and the pending order it is remembered by.
Ordered(bot, pair, side, kind, quantity) ==
    LET id == SequenceId(bot.seq)
        pending == [client |-> id, kind |-> kind, pair |-> pair, side |-> side,
                    base |-> quantity, filled |-> 0,
                    quote |-> IF kind = "position_entry" THEN quantity ELSE 0,
                    position |-> IF kind = "position_entry" THEN id ELSE NoId,
                    exchange |-> 0]
    IN  Done([bot EXCEPT !.seq = @ + 1, !.pending = Append(@, pending)],
             <<[type |-> "place", id |-> id, pair |-> pair, side |-> side,
                quantity |-> quantity, reason |-> kind]>>)

\* The position is sold at the reference price, whatever it gains, and DOGE's
\* price is at hand only for a position in DOGE.
ClosedOnBelief(bot, position, gain) ==
    Close(bot, position, "belief_change", gain, position.pair = Doge)

\* _handle_belief_update.  The order is a BUY for either direction, but for a
\* bearish belief in DOGE, which sells what is held of it.
BeliefUpdate(bot, priced, pair, direction, gain) ==
    LET side == SideFor(direction)
        freeDoge == bot.doge - ReservedDoge(bot)
    IN  IF HasPair(bot, pair)
        THEN LET position == PositionOfPair(bot, pair)
             IN  IF side = position.side THEN Done(bot, <<>>)
                 ELSE ClosedOnBelief(bot, position, gain)
        ELSE IF side = "none" \/ pair \in bot.cooling \/ pair \notin priced THEN Done(bot, <<>>)
        ELSE IF side = "short" /\ pair = Doge
        THEN IF freeDoge <= 0 THEN Done(bot, <<>>)
             ELSE Ordered(bot, pair, "sell", "inventory_sell",
                          IF EntryUsd < freeDoge THEN EntryUsd ELSE freeDoge)
        ELSE IF TotalValue(bot, priced) < EntryUsd \/ bot.usd - ReservedUsd(bot) < EntryUsd
        THEN Done(bot, <<>>)
        ELSE Ordered(bot, pair, "buy", "position_entry", EntryUsd)

\* What is left of the pending orders after a fill of one of them.
Filled(pending, q, quantity) ==
    IF q.filled + quantity >= q.base
    THEN Keeping(pending, LAMBDA r : r.client # q.client)
    ELSE [i \in DOMAIN pending |-> IF pending[i].client = q.client
                                   THEN [pending[i] EXCEPT !.filled = @ + quantity]
                                   ELSE pending[i]]

\* _match_fill_to_pending.  An event carries the client order id only when it
\* was recovered for a pending order; the open orders never carry one.
MatchesFill(bot, fill) ==
    LET byClient == Keeping(bot.pending, LAMBDA q : q.client = fill.client)
        byPair   == Keeping(bot.pending, LAMBDA q : q.pair = fill.pair)
    IN  IF byClient # <<>> THEN <<byClient[1]>>
        ELSE IF Len(byPair) = 1 THEN byPair ELSE <<>>

\* _handle_fill_confirmed: an inventory sale moves cash; any other kind of
\* order, one placed through the API too, becomes a position, which gets its
\* stop and target only from a belief on its pair.  A belief the other way
\* raises.
FillConfirmed(bot, fill) ==
    LET matched == MatchesFill(bot, fill)
        q == matched[1]
        side == IF q.side = "buy" THEN "long" ELSE "short"
        view == SideFor(bot.beliefs[fill.pair])
        id == IF q.position = NoId THEN FillId(fill.order) ELSE q.position
        position == Opened(id, fill.pair, side, fill.quantity, view)
        pruned == [bot EXCEPT !.pending = Filled(@, q, fill.quantity)]
    IN  CASE matched = <<>> -> Done(bot, <<>>)
          [] matched # <<>> /\ q.kind = "inventory_sell" ->
                Done([pruned EXCEPT !.doge = @ - fill.quantity,
                                    !.usd = @ + fill.quantity], <<>>)
          [] OTHER -> IF MayOpen(side, view) THEN Done(ApplyFill(pruned, position), <<>>)
                                             ELSE Raised(bot)

\* _handle_reconciliation: cash is what the exchange says; a pending order
\* stays if the exchange lists its client order id, and it lists none.
Reconciled(bot, usd, doge) == [bot EXCEPT !.usd = usd, !.doge = doge, !.pending = <<>>]

---------------------------------------------------------------------------
(* One cycle of the scheduler *)

\* Guardian.check_positions needs a price for every position; what it sees at
\* each of them is the prices' choice, nothing for one without stop and target.
Verdicts(bot) ==
    {v \in [DOMAIN bot.positions -> {"hold", "stop", "target"}] :
        \A i \in DOMAIN bot.positions : ~bot.positions[i].armed => v[i] = "hold"}

MissingPrices(bot, priced) == {bot.positions[i].pair : i \in DOMAIN bot.positions} \ priced

\* _handle_window_expired: at the price at hand, and no cooldown.
WindowExpired(bot, id, gain, dogePriced) ==
    IF ~IsPosition(bot, id) THEN Done(bot, <<>>)
    ELSE Close(bot, PositionOf(bot, id), "window_expired", gain, dogePriced)

\* The reducer sees the beliefs before it, and it is
\* merged into them afterwards.
BeliefApplied(bot, signal, priced, gain) ==
    LET next == BeliefUpdate(bot, priced, signal.pair, signal.direction, gain)
    IN  [next EXCEPT !.bot.beliefs[signal.pair] = signal.direction]

\* The positions that the window of the conditional tree's candidate may name, as
\* the guardian finds them before any verdict is acted upon.
Windows(bot) ==
    {NoId} \cup {PositionOfPair(bot, p).id : p \in {q \in Pairs : HasPair(bot, q)}}

\* Scheduler._apply_event: one event through the reducer.  A verdict to hold is none.
ApplyEvent(bot, event, priced, gain) ==
    LET dogePriced == Doge \in priced
    IN  CASE event.type = "stop"   -> StopTriggered(bot, event.id, dogePriced)
          [] event.type = "target" -> TargetHit(bot, event.id, dogePriced)
          [] event.type = "window" -> WindowExpired(bot, event.id, gain, dogePriced)
          [] event.type = "reconciliation" -> Done(Reconciled(bot, event.usd, event.doge), <<>>)
          [] event.type = "fill"   -> FillConfirmed(bot, event.fill)
          [] event.type = "belief" -> BeliefApplied(bot, event.belief, priced, gain)
          [] OTHER -> Done(bot, <<>>)

\* The events of a cycle: the prices' verdicts, the window's, the reconciliation
\* if it is due, fills, beliefs.
Events(bot, verdict, expired, due, wallet, fills, signals) ==
    [i \in DOMAIN bot.positions |-> [type |-> verdict[i], id |-> bot.positions[i].id]]
    \o <<[type |-> "window", id |-> expired]>>
    \o (IF due THEN <<[type |-> "reconciliation", usd |-> wallet.usd, doge |-> wallet.doge]>>
        ELSE <<>>)
    \o [i \in DOMAIN fills |-> [type |-> "fill", fill |-> fills[i]]]
    \o [i \in DOMAIN signals |-> [type |-> "belief", belief |-> signals[i]]]

AndThen(result, event, priced, gain) ==
    IF ~result.ok THEN result
    ELSE LET next == ApplyEvent(result.bot, event, priced, gain)
         IN  [next EXCEPT !.actions = result.actions \o @]

\* Scheduler.run_cycle, which applies each event to what the one before has left.
Cycle(bot, events, priced, gain) ==
    LET after[k \in 0..Len(events)] ==
            IF k = 0 THEN Done(bot, <<>>) ELSE AndThen(after[k - 1], events[k], priced, gain)
    IN  after[Len(events)]

=============================================================================
