------------------------------ MODULE OrderGate ------------------------------
(***************************************************************************)
(* The mutation path to the exchange: exchange/order_gate.py (the circuit  *)
(* breaker and OrderGate.place_order) and exchange/executor.py             *)
(* (execute_order and execute_cancel), on the Starter tier.                *)
(*                                                                         *)
(* One executor and one breaker serve several callers: the asyncio loop of *)
(* runtime_loop.py, and the thread-pool workers in which web/routes.py     *)
(* runs execute_order and execute_cancel (run_in_executor).  Nothing is    *)
(* locked, so the calls a mutation makes interleave with those of another  *)
(* caller; a call to one method of the breaker is one step.                *)
(***************************************************************************)
EXTENDS Integers, Sequences

CONSTANTS
  Callers,           \* the event loop and the pool workers
  Threshold,         \* CircuitBreakerPolicy.threshold
  Window,            \* CircuitBreakerPolicy.window_seconds
  Cooldown,          \* CircuitBreakerPolicy.cooldown_seconds
  MutationsEnabled,  \* neither read_only_exchange nor disable_order_mutations
  MaxTime            \* bound on the clock

ASSUME GateAssumption ==
  /\ Threshold \in Nat \ {0}
  /\ Window \in Nat
  /\ Cooldown \in Nat
  /\ MutationsEnabled \in BOOLEAN
  /\ MaxTime \in Nat

NotOpened == -1      \* _opened_at is None

VARIABLES
  now,         \* time.monotonic(), in ticks
  failures,    \* _failures, a deque of times
  openedAt,    \* _opened_at
  pc,          \* what each caller does next
  admittedAt,  \* when before_mutation last let the caller through
  outcome,     \* what the caller's last mutation returned or raised
  streak       \* times of the mutations the exchange failed since it last
               \* carried one out: a history, which the code does not keep

breaker == <<failures, openedAt>>
vars == <<now, failures, openedAt, pc, admittedAt, outcome, streak>>

Steps == {"idle", "prepareOrder", "sendOrder",
          "lookup", "prepareCancel", "sendCancel"}

Outcomes == {"done", "failed", "notFound", "blocked", "rateLimited", "invalid"}

Init ==
  /\ now = 0
  /\ failures = <<>>
  /\ openedAt = NotOpened
  /\ pc = [c \in Callers |-> "idle"]
  /\ admittedAt = [c \in Callers |-> 0]
  /\ outcome = [c \in Callers |-> "done"]
  /\ streak = <<>>

-----------------------------------------------------------------------------
(* OrderMutationCircuitBreaker *)

\* Index of the oldest failure the window still covers; one past the end of
\* the deque when it covers none.
FirstFresh(fs, t) ==
  LET fresh == {i \in DOMAIN fs : /\ fs[i] >= t - Window
                                  /\ \A j \in 1..(i - 1) : fs[j] < t - Window}
  IN IF fresh = {} THEN Len(fs) + 1 ELSE CHOOSE i \in fresh : TRUE

\* _prune_failures pops from the left while the oldest is out of the window.
Pruned(fs, t) == SubSeq(fs, FirstFresh(fs, t), Len(fs))

Blocked == openedAt # NotOpened /\ now < openedAt + Cooldown

HalfOpen == openedAt # NotOpened /\ now >= openedAt + Cooldown

\* Faulty before_mutations: one that never refuses, and one that does not wait
\* for the cooldown.
BeforeMutationUnblocked ==
  IF HalfOpen
    THEN failures' = <<>> /\ openedAt' = NotOpened
    ELSE failures' = Pruned(failures, now) /\ UNCHANGED openedAt

BeforeMutationImpatient == failures' = <<>> /\ openedAt' = NotOpened

\* before_mutation returning: the first call after the cooldown forgets that
\* the breaker ever opened.
BeforeMutation ==
  /\ ~Blocked
  /\ IF HalfOpen
       THEN failures' = <<>> /\ openedAt' = NotOpened
       ELSE failures' = Pruned(failures, now) /\ UNCHANGED openedAt

\* before_mutation raising OrderMutationBlockedError.
RefuseMutation ==
  /\ Blocked
  /\ failures' = Pruned(failures, now)
  /\ UNCHANGED openedAt

RecordSuccess == failures' = <<>> /\ openedAt' = NotOpened

\* Faulty record_failures: one that trips a failure late, and one that counts
\* from the cooldown's end.
RecordFailureLate ==
  LET recent == Append(Pruned(failures, now), now)
  IN /\ failures' = recent
     /\ openedAt' = IF Len(recent) > Threshold THEN now ELSE openedAt

RecordFailureAhead ==
  LET recent == Append(Pruned(failures, now), now)
  IN /\ failures' = recent
     /\ openedAt' = IF Len(recent) >= Threshold THEN now + Cooldown ELSE openedAt

RecordFailure ==
  LET recent == Append(Pruned(failures, now), now)
  IN /\ failures' = recent
     /\ openedAt' = IF Len(recent) >= Threshold THEN now ELSE openedAt

Goto(c, step) ==
  /\ pc' = [pc EXCEPT ![c] = step]
  /\ UNCHANGED <<now, admittedAt, outcome>>

\* The mutation returns or raises.
Return(c, result) ==
  /\ pc' = [pc EXCEPT ![c] = "idle"]
  /\ outcome' = [outcome EXCEPT ![c] = result]
  /\ UNCHANGED <<now, admittedAt>>

\* The history of failed mutations, no longer than the breaker would need.
Failed(fs) == LET longer == Append(Pruned(fs, now), now)
              IN IF Len(longer) > Threshold THEN Tail(longer) ELSE longer

Tick ==
  /\ now < MaxTime
  /\ now' = now + 1
  /\ UNCHANGED <<failures, openedAt, pc, admittedAt, outcome, streak>>

\* The breaker lets the caller through, whichever mutation follows.
Admit(c, step) ==
  /\ MutationsEnabled
  /\ pc[c] = "idle"
  /\ BeforeMutation
  /\ pc' = [pc EXCEPT ![c] = step]
  /\ admittedAt' = [admittedAt EXCEPT ![c] = now]
  /\ streak' = IF HalfOpen THEN <<>> ELSE streak
  /\ UNCHANGED <<now, outcome>>

Refuse(c) ==
  /\ MutationsEnabled
  /\ pc[c] = "idle"
  /\ RefuseMutation
  /\ Return(c, "blocked")
  /\ UNCHANGED streak

-----------------------------------------------------------------------------
(* KrakenExecutor.execute_order *)

AdmitOrder(c) == Admit(c, "prepareOrder")

\* The payload is built and the client, which only charges its rate limiter
\* and wraps the request, returns: success is recorded before anything is sent.
OrderPrepared(c) ==
  /\ pc[c] = "prepareOrder"
  /\ RecordSuccess
  /\ Goto(c, "sendOrder")
  /\ UNCHANGED streak

\* build_order_payload raises, or the rate limiter does: neither is recorded.
OrderNotPrepared(c) ==
  /\ pc[c] = "prepareOrder"
  /\ \E result \in {"invalid", "rateLimited"} : Return(c, result)
  /\ UNCHANGED <<breaker, streak>>

\* The client raises another ExchangeError (a pair it cannot normalise).
OrderRejectedByClient(c) ==
  /\ pc[c] = "prepareOrder"
  /\ RecordFailure
  /\ Return(c, "invalid")
  /\ UNCHANGED streak

\* AddOrder answers with a txid.
OrderPlaced(c) ==
  /\ pc[c] = "sendOrder"
  /\ Return(c, "done")
  /\ streak' = <<>>
  /\ UNCHANGED breaker

\* AddOrder fails: without a cl_ord_id execute_order raises, and the breaker
\* is not told.
OrderFailed(c) ==
  /\ pc[c] = "sendOrder"
  /\ Return(c, "failed")
  /\ streak' = Failed(streak)
  /\ UNCHANGED breaker

-----------------------------------------------------------------------------
(* KrakenExecutor.execute_cancel *)

AdmitCancel(c) == Admit(c, "lookup")

\* _get_open_order_for_cancel finds the order among the open ones.
CancelTargetFound(c) ==
  /\ pc[c] = "lookup"
  /\ Goto(c, "prepareCancel")
  /\ UNCHANGED <<breaker, streak>>

\* CancelOrderNotFoundError is raised again without being recorded.
CancelTargetMissing(c) ==
  /\ pc[c] = "lookup"
  /\ Return(c, "notFound")
  /\ UNCHANGED <<breaker, streak>>

\* The client charges its rate limiter and wraps the request.
CancelPrepared(c) ==
  /\ pc[c] = "prepareCancel"
  /\ Goto(c, "sendCancel")
  /\ UNCHANGED <<breaker, streak>>

\* The rate limiter refuses the OpenOrders query or the cancel request:
\* RateLimitExceededError is an ExchangeError, which execute_cancel records.
CancelRateLimited(c) ==
  /\ pc[c] \in {"lookup", "prepareCancel"}
  /\ RecordFailure
  /\ Return(c, "rateLimited")
  /\ UNCHANGED streak

CancelCarriedOut(c) ==
  /\ pc[c] = "sendCancel"
  /\ RecordSuccess
  /\ Return(c, "done")
  /\ streak' = <<>>

\* OpenOrders or CancelOrder fails, or reports that no order was cancelled.
CancelFailed(c) ==
  /\ pc[c] \in {"lookup", "sendCancel"}
  /\ RecordFailure
  /\ Return(c, "failed")
  /\ streak' = Failed(streak)

Step(c) ==
  \/ AdmitOrder(c) \/ AdmitCancel(c) \/ Refuse(c)
  \/ OrderPrepared(c) \/ OrderNotPrepared(c) \/ OrderRejectedByClient(c)
  \/ OrderPlaced(c) \/ OrderFailed(c)
  \/ CancelTargetFound(c) \/ CancelTargetMissing(c) \/ CancelPrepared(c)
  \/ CancelRateLimited(c) \/ CancelCarriedOut(c) \/ CancelFailed(c)

Next == Tick \/ \E c \in Callers : Step(c)

Spec == Init /\ [][Next]_vars

-----------------------------------------------------------------------------
(* Properties *)

\* The types of the breaker's fields and of each caller's position.
TypeOK ==
  /\ now \in 0..MaxTime
  /\ failures \in Seq(0..MaxTime)
  /\ openedAt \in 0..MaxTime \cup {NotOpened}
  /\ pc \in [Callers -> Steps]
  /\ admittedAt \in [Callers -> 0..MaxTime]
  /\ outcome \in [Callers -> Outcomes]
  /\ streak \in Seq(0..MaxTime)

\* A breaker that is not open has counted fewer failures than its threshold,
\* however the record_ calls of the callers interleave: no failure that should
\* trip it is ever counted without tripping it (record_failure against
\* record_success and the reset in before_mutation).
ClosedBelowThreshold == openedAt = NotOpened => Len(failures) < Threshold

\* The deque is in order of time, which _prune_failures relies on when it stops
\* at the first failure inside the window.
FailuresInOrder ==
  /\ \A i, j \in DOMAIN failures : i <= j => failures[i] <= failures[j]
  /\ \A i \in DOMAIN failures : failures[i] <= now

\* A mutation still under way when the breaker is open was let through before
\* it opened: opening stops every later one, from any caller.
InFlightPredatesOpening ==
  \A c \in Callers : 
    (pc[c] # "idle" /\ openedAt # NotOpened) => admittedAt[c] <= openedAt

ClosesEarly == openedAt # NotOpened /\ openedAt' = NotOpened /\ ~HalfOpen

AnsweredLate(c) == /\ pc[c] # "idle" /\ pc'[c] # pc[c]
                   /\ admittedAt[c] <= openedAt

\* An open breaker closes before its cooldown is over only when the exchange
\* answers a mutation let through before it opened, never by admitting one.
EarlyClosingIsOverdue == [][ClosesEarly => \E c \in Callers : AnsweredLate(c)]_vars

\* "3 failures in 120s -> halt all operations": when the exchange has failed
\* that many mutations in the window and carried out none since, the breaker
\* is open.
FailuresHaltMutations ==
  Len(Pruned(streak, now)) >= Threshold => openedAt # NotOpened
=============================================================================
