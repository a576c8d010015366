----------------------------- MODULE RateLimiter -----------------------------
(***************************************************************************)
(* exchange/client.py: KrakenRateLimiter, the local accounts of the two    *)
(* budgets Kraken gives a Starter key, and the calls of KrakenClient that  *)
(* draw on them; and exchange/transport.py, which sends what was paid for  *)
(* and sends it again, unpaid, when it fails.  The limiter has no lock and *)
(* serves several threads: a consumption reads an account, checks it and   *)
(* writes it back, and another thread may do the same in between.  A whole *)
(* consumption takes less than a tick of the clock.                        *)
(*                                                                         *)
(* The accounts are settled lazily, when they are drawn on.  restOwed and  *)
(* engineOwed are what the policy says, settled at every tick and charged  *)
(* with every attempt that reaches the exchange, the first one as it is    *)
(* paid for: a history the code does not keep.                             *)
(***************************************************************************)
EXTENDS Integers

CONSTANTS
  Buyers,        \* the threads
  TradedPairs,   \* each has an engine budget of its own
  RestMax,       \* rest_bucket_max, in units of which
  RestDecay,     \*   rest_decay_per_second gives back so many a tick
  PlainCost,     \*   and a request costs so many: a point,
  TradesCost,    \*   or two for the trades
  EngineMax,     \* matching_engine_max_per_pair
  TicksPerPoint, \* ticks in which the engine gives back a point
  OrderCost,     \* matching_engine_cost
  CancelPenalty, \* cancel_penalty_points, for an order that is young
  MaxRepeats,    \* max_retries of the transport
  MaxNow         \* bound on the clock

ASSUME LimiterAssumption ==
  /\ RestMax \in Nat /\ RestDecay \in Nat
  /\ PlainCost \in Nat /\ TradesCost \in Nat
  /\ EngineMax \in Nat
  /\ TicksPerPoint \in Nat \ {0}
  /\ OrderCost \in Nat /\ CancelPenalty \in Nat
  /\ TradedPairs # {}
  /\ MaxRepeats \in Nat /\ MaxNow \in Nat

Never == -1

\* What the calls of KrakenClient draw: balances and open orders, trades, an
\* order or the cancellation of an old one, the cancellation of a young one.
KrakenCalls ==
  {[rest |-> PlainCost, engine |-> 0],
   [rest |-> TradesCost, engine |-> 0],
   [rest |-> PlainCost, engine |-> OrderCost],
   [rest |-> PlainCost, engine |-> OrderCost + CancelPenalty]}

VARIABLES
  now,          \* time.monotonic(), in ticks
  restUsed,     \* _rest_used
  restAt,       \* _rest_updated_at
  engineUsed,   \* _matching_engine_usage, 0 for a pair not in the dict
  engineAt,     \* _matching_engine_updated_at, Never for a pair not in the dict
  buyer,        \* where each thread is, with which call, and what it read
  restOwed,     \* the policy's REST bucket
  engineOwed,   \* the policy's engine buckets, in ticks
  restRepeated, \* what is owed for requests sent again: at most what all the
  engineRepeated, \* repetitions cost since the bucket was last empty
  overlapped    \* whether a thread ever read an account another was to write

restVars == <<restUsed, restAt, restOwed, restRepeated>>
engineVars == <<engineUsed, engineAt, engineOwed, engineRepeated>>
limiterVars == <<now, restVars, engineVars, buyer, overlapped>>

Floor0(x) == IF x < 0 THEN 0 ELSE x
Lesser(x, y) == IF x < y THEN x ELSE y

\* pc: what the thread does next; projected: what it will write; repeats: how
\* often its request was sent again.
BuyerType == [pc : {"idle", "writeRest", "readEngine", "writeEngine", "sending"},
              pair : TradedPairs, call : KrakenCalls,
              projected : Nat, repeats : Nat]
AtRest == [pc |-> "idle", pair |-> CHOOSE p \in TradedPairs : TRUE,
           call |-> [rest |-> PlainCost, engine |-> 0], projected |-> 0, repeats |-> 0]

LimiterInit ==
  /\ now = 0
  /\ restUsed = 0 /\ restAt = 0
  /\ engineUsed = [p \in TradedPairs |-> 0]
  /\ engineAt = [p \in TradedPairs |-> Never]
  /\ buyer = [b \in Buyers |-> AtRest]
  /\ restOwed = 0
  /\ engineOwed = [p \in TradedPairs |-> 0]
  /\ restRepeated = 0
  /\ engineRepeated = [p \in TradedPairs |-> 0]
  /\ overlapped = FALSE

Tick ==
  /\ now < MaxNow
  /\ \A b \in Buyers : buyer[b].pc \in {"idle", "readEngine", "sending"}
  /\ now' = now + 1
  /\ restOwed' = Floor0(restOwed - RestDecay)
  /\ engineOwed' = [p \in TradedPairs |-> Floor0(engineOwed[p] - 1)]
  /\ restRepeated' = Lesser(restRepeated, restOwed')
  /\ engineRepeated' =
       [p \in TradedPairs |-> Lesser(engineRepeated[p], engineOwed'[p])]
  /\ UNCHANGED <<restUsed, restAt, engineUsed, engineAt, buyer, overlapped>>

\* _apply_rest_decay
RestDecayed == Floor0(restUsed - RestDecay * (now - restAt))

\* consume_rest up to the check, for a call of KrakenClient.
ReadRest(b, call, pair) ==
  /\ buyer[b].pc = "idle"
  /\ restUsed' = RestDecayed
  /\ restAt' = now
  /\ IF RestDecayed + call.rest > RestMax
       THEN UNCHANGED <<buyer, restOwed, overlapped>>
       ELSE /\ buyer' = [buyer EXCEPT ![b] =
                 [pc |-> "writeRest", pair |-> pair, call |-> call,
                  projected |-> RestDecayed + call.rest, repeats |-> 0]]
            /\ restOwed' = restOwed + call.rest
            /\ overlapped' = (overlapped \/ \E c \in Buyers : buyer[c].pc = "writeRest")
  /\ UNCHANGED <<now, restRepeated, engineVars>>

\* A call that costs the engine nothing is sent at once.
WriteRest(b) ==
  /\ buyer[b].pc = "writeRest"
  /\ restUsed' = buyer[b].projected
  /\ buyer' = [buyer EXCEPT
       ![b].pc = IF buyer[b].call.engine = 0 THEN "sending" ELSE "readEngine",
       ![b].projected = 0]
  /\ UNCHANGED <<now, restAt, restOwed, restRepeated, engineVars, overlapped>>

\* A faulty _apply_matching_engine_decay: it leaves the time of the last update
\* as it was, and gives the same points back again and again.
EngineDecayAgain(p) ==
  LET decay == (now - engineAt[p]) \div TicksPerPoint
  IN IF engineAt[p] = Never THEN [used |-> engineUsed[p], at |-> now]
     ELSE [used |-> Floor0(engineUsed[p] - decay), at |-> engineAt[p]]

\* _apply_matching_engine_decay: whole points only, and the rest of the time is
\* kept for the next call unless a consumption forgets it.
EngineDecayed(p) ==
  LET decay == (now - engineAt[p]) \div TicksPerPoint
  IN IF engineAt[p] = Never THEN [used |-> engineUsed[p], at |-> now]
     ELSE IF decay > 0 THEN [used |-> Floor0(engineUsed[p] - decay), at |-> now]
     ELSE [used |-> engineUsed[p], at |-> engineAt[p]]

TooMuch(projected) == projected > EngineMax

\* consume_matching_engine and consume_cancel, up to the check.
ReadEngine(b) ==
  LET p == buyer[b].pair
      settled == EngineDecayed(p)
      projected == settled.used + buyer[b].call.engine
      refused == TooMuch(projected)
  IN /\ buyer[b].pc = "readEngine"
     /\ engineUsed' = [engineUsed EXCEPT ![p] = settled.used]
     /\ engineAt' = [engineAt EXCEPT ![p] = settled.at]
     /\ IF refused
          THEN /\ buyer' = [buyer EXCEPT ![b] = AtRest]
               /\ UNCHANGED <<engineOwed, overlapped>>
          ELSE /\ buyer' = [buyer EXCEPT ![b] =
                    [@ EXCEPT !.pc = "writeEngine", !.projected = projected]]
               /\ engineOwed' = [engineOwed EXCEPT ![p] =
                    @ + TicksPerPoint * buyer[b].call.engine]
               /\ overlapped' = (overlapped \/ \E c \in Buyers :
                    buyer[c].pc = "writeEngine" /\ buyer[c].pair = p)
     /\ UNCHANGED <<now, restVars, engineRepeated>>

WriteEngine(b) ==
  LET p == buyer[b].pair
  IN /\ buyer[b].pc = "writeEngine"
     /\ engineUsed' = [engineUsed EXCEPT ![p] = buyer[b].projected]
     /\ engineAt' = [engineAt EXCEPT ![p] = now]
     /\ buyer' = [buyer EXCEPT ![b].pc = "sending", ![b].projected = 0]
     /\ UNCHANGED <<now, restVars, engineOwed, engineRepeated, overlapped>>

\* HttpKrakenTransport.send, order or not: a network error, a 5xx or the
\* exchange's own refusal for the rate, and the same request goes out again.
\* The exchange counts it; consume_rest and consume_matching_engine are not
\* called again.
Repeat(b) ==
  LET call == buyer[b].call
      points == TicksPerPoint * call.engine
      p == buyer[b].pair
  IN /\ buyer[b].pc = "sending" /\ buyer[b].repeats < MaxRepeats
     /\ buyer' = [buyer EXCEPT ![b].repeats = @ + 1]
     /\ restOwed' = restOwed + call.rest
     /\ restRepeated' = restRepeated + call.rest
     /\ engineOwed' = [engineOwed EXCEPT ![p] = @ + points]
     /\ engineRepeated' = [engineRepeated EXCEPT ![p] = @ + points]
     /\ UNCHANGED <<now, restUsed, restAt, engineUsed, engineAt, overlapped>>

\* An answer, or the last exception.
Sent(b) ==
  /\ buyer[b].pc = "sending"
  /\ buyer' = [buyer EXCEPT ![b] = AtRest]
  /\ UNCHANGED <<now, restVars, engineVars, overlapped>>

LimiterNext ==
  \/ Tick
  \/ \E b \in Buyers :
       \/ \E call \in KrakenCalls, pair \in TradedPairs : ReadRest(b, call, pair)
       \/ WriteRest(b) \/ ReadEngine(b) \/ WriteEngine(b)
       \/ Repeat(b) \/ Sent(b)

LimiterSpec == LimiterInit /\ [][LimiterNext]_limiterVars

-----------------------------------------------------------------------------
(* Properties *)

\* The accounts keep their types and never exceed their budgets, whatever the
\* threads do to each other's writes.
LimiterTypeOK ==
  /\ now \in Nat
  /\ restUsed \in 0..RestMax
  /\ restAt \in 0..now
  /\ engineUsed \in [TradedPairs -> 0..EngineMax]
  /\ engineAt \in [TradedPairs -> {Never} \cup 0..now]
  /\ buyer \in [Buyers -> BuyerType]
  /\ restOwed \in Nat
  /\ engineOwed \in [TradedPairs -> Nat]
  /\ restRepeated \in Nat
  /\ engineRepeated \in [TradedPairs -> Nat]
  /\ overlapped \in BOOLEAN

\* Although the bot settles its accounts lazily, in whole points and at times of
\* its own, it overdraws the budgets of the exchange, settled tick by tick, by
\* no more than the requests its transport sent again: what it pays for keeps
\* within them, unless a thread wrote over another's consumption.
WithinPolicy ==
  ~overlapped =>
    /\ restOwed <= RestMax + restRepeated
    /\ \A p \in TradedPairs :
         engineOwed[p] <= TicksPerPoint * EngineMax + engineRepeated[p]
=============================================================================
