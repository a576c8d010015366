---------------------------- MODULE ExchangeLink ----------------------------
(***************************************************************************)
(* The way to the exchange: exchange/executor.py (the sequence of requests *)
(* each call makes), exchange/transport.py (nonces, signing, the attempts  *)
(* and their retries), and the answers of Kraken's private endpoints.      *)
(*                                                                         *)
(* Several threads (the event loop and the pool workers of the web API)    *)
(* share one nonce source.  A request is signed once; its retries repeat   *)
(* the same nonce.  The network may lose a request or an answer, or        *)
(* deliver a request after its sender gave up.  Kraken turns down a nonce  *)
(* that is not above the last one it accepted for the key.                 *)
(***************************************************************************)
EXTENDS Integers, Sequences, FiniteSets

CONSTANTS
  Callers,      \* the event loop and the pool workers
  MaxCalls,     \* bound: calls made in a behaviour
  MaxRetries,   \* RetryPolicy.max_retries
  MaxCrashes    \* bound: restarts of the process

ASSUME LinkAssumption ==
  /\ MaxCalls \in Nat
  /\ MaxRetries \in Nat
  /\ MaxCrashes \in Nat

Calls == 1..MaxCalls

\* How many requests each call makes: execute_order and get_ws_token make one,
\* execute_cancel looks the order up first, fetch_kraken_state reads the
\* balances, the open orders and the trades.
Requests == [place |-> 1, cancel |-> 2, fetch |-> 3]

VARIABLES
  nonce,       \* state["value"] of make_default_nonce_source
  caller,      \* each thread's place in execute_* and HttpKrakenTransport.send
  told,        \* what the caller of each call was told: a history
  before,      \* the calls that had failed when each call was asked: a history
  wire,        \* the requests the exchange may still get and accept
  lastNonce,   \* the highest nonce the exchange accepted
  effects,     \* how often the last request of each call was carried out
  restarts     \* counts the restarts, for MaxCrashes

linkVars == <<nonce, caller, told, before, wire, lastNonce, effects, restarts>>

-----------------------------------------------------------------------------
\* left counts the requests the call still has to make, the current one
\* included; answer is what came back for the current attempt.
Steps == {"idle", "preparing", "sending", "waiting"}
LinkAnswers == {"none", "result", "rateLimit", "error"}
CallerType == [pc : Steps, call : Calls \cup {0}, left : 0..3, nonce : Nat,
               attempt : 0..MaxRetries, answer : LinkAnswers]
Idle == [pc |-> "idle", call |-> 0, left |-> 0, nonce |-> 0, attempt |-> 0,
         answer |-> "none"]

MessageType == [call : Calls, final : BOOLEAN, nonce : Nat]
MessageOf(c) == [call |-> caller[c].call, final |-> caller[c].left = 1,
                 nonce |-> caller[c].nonce]

LinkInit ==
  /\ nonce = 0
  /\ caller = [c \in Callers |-> Idle]
  /\ told = [k \in Calls |-> "unasked"]
  /\ before = [k \in Calls |-> {}]
  /\ wire = {}
  /\ lastNonce = 0
  /\ effects = [k \in Calls |-> 0]
  /\ restarts = 0

Unchanged == UNCHANGED <<before, lastNonce, effects, restarts>>

-----------------------------------------------------------------------------
(* The executor and the transport *)

Begin(c, k, kind) ==
  /\ caller[c].pc = "idle"
  /\ told[k] = "unasked"
  /\ \A j \in 1..(k - 1) : told[j] # "unasked"
  /\ told' = [told EXCEPT ![k] = "asked"]
  /\ before' = [before EXCEPT ![k] = {j \in Calls : told[j] = "failed"}]
  /\ caller' = [caller EXCEPT ![c] =
                  [Idle EXCEPT !.pc = "preparing", !.call = k,
                               !.left = Requests[kind]]]
  /\ UNCHANGED <<nonce, wire, lastNonce, effects, restarts>>

\* The exception leaves execute_order, execute_cancel or fetch_kraken_state.
GiveUp(c) ==
  /\ told' = [told EXCEPT ![caller[c].call] = "failed"]
  /\ caller' = [caller EXCEPT ![c] = Idle]

\* KrakenClient consumes the rate limits before anything is signed, and raises
\* when the local budget is used up; the gate refuses an order here too.
Refused(c) ==
  /\ caller[c].pc = "preparing"
  /\ GiveUp(c)
  /\ Unchanged /\ UNCHANGED <<nonce, wire>>

\* sign_request takes the next nonce.  CPython switches threads at calls and
\* jumps only, so the increment and the read that follows it are one step; two
\* threads may still send in another order than they signed.
Sign(c) ==
  /\ caller[c].pc = "preparing"
  /\ nonce' = nonce + 1
  /\ caller' = [caller EXCEPT ![c].pc = "sending", ![c].nonce = nonce']
  /\ Unchanged /\ UNCHANGED <<told, wire>>

Send(c) ==
  /\ caller[c].pc = "sending"
  /\ wire' = IF caller[c].nonce > lastNonce THEN wire \cup {MessageOf(c)} ELSE wire
  /\ caller' = [caller EXCEPT ![c].pc = "waiting"]
  /\ Unchanged /\ UNCHANGED <<nonce, told>>

\* Faulty retries: one that signs again, and one that does not count.
RetrySigned(c) ==
  IF caller[c].attempt < MaxRetries
    THEN /\ caller' = [caller EXCEPT ![c].pc = "preparing",
                         ![c].attempt = @ + 1, ![c].answer = "none"]
         /\ UNCHANGED told
    ELSE GiveUp(c)
RetryForever(c) ==
  /\ caller' = [caller EXCEPT ![c].pc = "sending", ![c].answer = "none"]
  /\ UNCHANGED told

\* _maybe_retry: the same signed request again, or the last exception raised.
MaybeRetry(c) ==
  IF caller[c].attempt < MaxRetries
    THEN /\ caller' = [caller EXCEPT ![c].pc = "sending",
                         ![c].attempt = @ + 1, ![c].answer = "none"]
         /\ UNCHANGED told
    ELSE GiveUp(c)

Waits(c) == caller[c].pc = "waiting" /\ caller[c].answer = "none"

\* URLError: the request could not be sent.
NotSent(c) ==
  /\ caller[c].pc = "sending"
  /\ MaybeRetry(c)
  /\ Unchanged /\ UNCHANGED <<nonce, wire>>

\* HTTPError, which is a URLError: a gateway answered for the exchange, which
\* may have got the request, or may still get it.
GatewayError(c) ==
  /\ Waits(c)
  /\ MaybeRetry(c)
  /\ Unchanged /\ UNCHANGED <<nonce, wire>>

\* TimeoutError, a closed connection or a body that is no JSON: not retried.
AnswerLost(c) ==
  /\ Waits(c)
  /\ GiveUp(c)
  /\ Unchanged /\ UNCHANGED <<nonce, wire>>

RateLimited(c) ==
  /\ caller[c].pc = "waiting" /\ caller[c].answer = "rateLimit"
  /\ MaybeRetry(c)
  /\ Unchanged /\ UNCHANGED <<nonce, wire>>

\* KrakenAPIError of any other kind, "Invalid nonce" among them.
ApiError(c) ==
  /\ caller[c].pc = "waiting" /\ caller[c].answer = "error"
  /\ GiveUp(c)
  /\ Unchanged /\ UNCHANGED <<nonce, wire>>

NextRequest(c) ==
  /\ caller[c].pc = "waiting" /\ caller[c].answer = "result"
  /\ caller[c].left > 1
  /\ caller' = [caller EXCEPT ![c] =
                  [Idle EXCEPT !.pc = "preparing", !.call = caller[c].call,
                               !.left = caller[c].left - 1]]
  /\ Unchanged /\ UNCHANGED <<nonce, told, wire>>

\* A result the parser or the caller turns down: an order to cancel that is not
\* among the open ones, a cancel count of zero, a response without a txid.
ResultTurnedDown(c) ==
  /\ caller[c].pc = "waiting" /\ caller[c].answer = "result"
  /\ GiveUp(c)
  /\ Unchanged /\ UNCHANGED <<nonce, wire>>

\* A faulty transport that does not look at the error list of the response.
ReturnUnchecked(c) ==
  /\ caller[c].pc = "waiting" /\ caller[c].answer # "none"
  /\ caller[c].left = 1
  /\ told' = [told EXCEPT ![caller[c].call] = "done"]
  /\ caller' = [caller EXCEPT ![c] = Idle]
  /\ Unchanged /\ UNCHANGED <<nonce, wire>>

Return(c) ==
  /\ caller[c].pc = "waiting" /\ caller[c].answer = "result"
  /\ caller[c].left = 1
  /\ told' = [told EXCEPT ![caller[c].call] = "done"]
  /\ caller' = [caller EXCEPT ![c] = Idle]
  /\ Unchanged /\ UNCHANGED <<nonce, wire>>

\* The nonces of a new process start from the wall clock in microseconds, which
\* is past every nonce of the process before.
Restart ==
  /\ restarts < MaxCrashes
  /\ restarts' = restarts + 1
  /\ nonce' = nonce + 1
  /\ caller' = [c \in Callers |-> Idle]
  /\ told' = [k \in Calls |-> IF told[k] = "asked" THEN "failed" ELSE told[k]]
  /\ UNCHANGED <<before, wire, lastNonce, effects>>

-----------------------------------------------------------------------------
(* The network and the exchange.  Nothing obliges them to deliver an attempt or
   to answer it, and a request that was sent may arrive as long as its nonce
   would be accepted.  An attempt whose nonce would not be accepted is of no
   consequence but to the sender that waits for it. *)

\* "EAPI:Invalid nonce", or a rate limit seen before the nonce is looked at;
\* an earlier attempt of the same request may still be under way.
TurnDown(c, a) ==
  /\ Waits(c)
  /\ a = "error" => caller[c].nonce <= lastNonce
  /\ caller' = [caller EXCEPT ![c].answer = a]
  /\ \/ wire' = wire \ {MessageOf(c)}
     \/ caller[c].attempt > 0 /\ wire' = wire
  /\ Unchanged /\ UNCHANGED <<nonce, told>>

\* The nonce is accepted; the request is refused (EOrder:..., a rate limit) or
\* carried out.  The answer reaches the sender if this is the attempt it waits
\* for and the network does not lose it.
Accept(m, a) ==
  /\ lastNonce' = m.nonce
  /\ wire' = {r \in wire : r.nonce > m.nonce}
  /\ effects' = IF a = "result" /\ m.final
                  THEN [effects EXCEPT ![m.call] = @ + 1] ELSE effects
  /\ \/ UNCHANGED caller
     \/ \E c \in Callers : /\ Waits(c) /\ MessageOf(c) = m
                           /\ caller' = [caller EXCEPT ![c].answer = a]
  /\ UNCHANGED <<nonce, told, before, restarts>>

Exchange ==
  \/ \E c \in Callers, a \in {"error", "rateLimit"} : TurnDown(c, a)
  \/ \E m \in wire, a \in {"result", "error", "rateLimit"} : Accept(m, a)

-----------------------------------------------------------------------------
Progress(c) ==
  \/ Refused(c) \/ Sign(c) \/ Send(c) \/ NotSent(c)
  \/ GatewayError(c) \/ AnswerLost(c) \/ RateLimited(c) \/ ApiError(c)
  \/ NextRequest(c) \/ ResultTurnedDown(c) \/ Return(c)

LinkNext ==
  \/ \E c \in Callers, k \in Calls, kind \in DOMAIN Requests : Begin(c, k, kind)
  \/ \E c \in Callers : Progress(c)
  \/ Restart
  \/ Exchange

\* A thread that waits is woken by the answer or by the timeout of the sender,
\* and one that sleeps between two attempts wakes up.
LinkFairness == \A c \in Callers : WF_linkVars(Progress(c))

LinkSpec == LinkInit /\ [][LinkNext]_linkVars /\ LinkFairness

-----------------------------------------------------------------------------
(* Properties *)

\* The threads, the messages and the histories keep their types, and no request
\* is attempted more often than the retry policy says.
LinkTypeOK ==
  /\ nonce \in Nat
  /\ caller \in [Callers -> CallerType]
  /\ told \in [Calls -> {"unasked", "asked", "done", "failed"}]
  /\ before \in [Calls -> SUBSET Calls]
  /\ wire \in SUBSET MessageType
  /\ lastNonce \in Nat
  /\ effects \in [Calls -> Nat]
  /\ restarts \in Nat

\* send repeats a signed request, AddOrder too, after a failure that does not
\* say whether the exchange got it, and the network may deliver an attempt
\* late: still every call is carried out at most once, is reported done only if
\* it was, and nothing is carried out once a later call has settled it.
Promise == INSTANCE AtMostOnceCalls
             WITH Calls <- Calls, told <- told, effects <- effects, before <- before
AtMostOnce == Promise!CallsSpec

\* A call that failed, an order whose answer was lost say, is not carried out
\* behind the back of a later call that is done: what fetch_kraken_state read
\* stays true of the orders given up before it, of this process or of one
\* before a restart.
GivenUpStaysDead ==
  [][\A k \in Calls :
       effects'[k] # effects[k] =>
         ~\E q \in Calls : told[q] = "done" /\ k \in before[q]]_linkVars

\* Every call returns or raises, however often its attempts fail.
EveryCallReturns ==
  \A k \in Calls : told[k] = "asked" ~> told[k] \in {"done", "failed"}
=============================================================================
