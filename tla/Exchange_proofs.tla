---------------------------- MODULE Exchange_proofs ----------------------------
(***************************************************************************)
(* What is proved of the way to the exchange: of the link, the limiter and *)
(* the feed.  They share no variable, so each part below stands on its     *)
(* own, with an invariant of its own.                                      *)
(***************************************************************************)
EXTENDS ExchangeLink, RateLimiter, FeedLink, TLAPS

-----------------------------------------------------------------------------
(***************************************************************************)
(* What the link to the exchange guarantees for any number of threads,     *)
(* calls, retries and restarts: it implements AtMostOnceCalls, and a call  *)
(* given up stays dead once a later call is done.                          *)
(***************************************************************************)

Busy(c) == caller[c].pc # "idle"
InFlight(c) == caller[c].pc \in {"sending", "waiting"}

\* A thread that is busy works at a call of its own, which was asked and is not
\* answered yet; it has a result in hand only if the request was carried out.
CallerInv ==
  \A c \in Callers :
    /\ Busy(c) => /\ caller[c].call \in Calls
                  /\ told[caller[c].call] = "asked"
                  /\ caller[c].left \in 1..3
                  /\ caller[c].nonce <= nonce
    /\ caller[c].pc # "waiting" => caller[c].answer = "none"
    /\ caller[c].answer = "result" /\ caller[c].left = 1 => effects[caller[c].call] # 0
    /\ \A d \in Callers :
         Busy(c) /\ Busy(d) /\ caller[c].call = caller[d].call => c = d

\* The last request of a call has one nonce, whatever retries are under way.
WireInv ==
  /\ \A m \in wire : /\ lastNonce < m.nonce /\ m.nonce <= nonce
                     /\ told[m.call] # "unasked"
  /\ \A m \in wire, c \in Callers :
       Busy(c) /\ caller[c].call = m.call /\ m.final =>
         InFlight(c) /\ caller[c].left = 1 /\ caller[c].nonce = m.nonce
  /\ \A m, n \in wire : m.final /\ n.final /\ m.call = n.call => m.nonce = n.nonce

\* A call that was carried out has no request left that could be accepted.
EffectInv ==
  \A k \in Calls :
    /\ effects[k] \in {0, 1}
    /\ told[k] = "unasked" => effects[k] = 0
    /\ told[k] = "done" => effects[k] = 1
    /\ effects[k] # 0 =>
         /\ \A m \in wire : ~(m.call = k /\ m.final)
         /\ \A c \in Callers : Busy(c) /\ caller[c].call = k =>
              InFlight(c) /\ caller[c].left = 1 /\ caller[c].nonce <= lastNonce

\* The requests of a call are younger than those of the calls given up before it,
\* so that carrying one out shuts those out.
BeforeInv ==
  /\ \A q \in Calls : \A k \in before[q] : told[k] = "failed"
  /\ \A c \in Callers, m \in wire :
       InFlight(c) /\ m.call \in before[caller[c].call] => m.nonce < caller[c].nonce
  /\ \A m, n \in wire : n.call \in before[m.call] => n.nonce < m.nonce
  /\ \A q \in Calls : effects[q] # 0 => \A m \in wire : m.call \notin before[q]

LinkInv == LinkTypeOK /\ CallerInv /\ WireInv /\ EffectInv /\ BeforeInv

-----------------------------------------------------------------------------

\* An idle thread is well typed.
LEMMA IdleType == Idle \in CallerType
BY LinkAssumption DEF Idle, CallerType, Steps, LinkAnswers

\* Nothing is under way at the beginning.
LEMMA InvInit == LinkInit => LinkInv
<1> SUFFICES ASSUME LinkInit
             PROVE  LinkInv
  OBVIOUS
<1>1. LinkTypeOK
  BY IdleType DEF LinkInit, LinkTypeOK
<1>2. CallerInv
  BY DEF LinkInit, CallerInv, Busy, Idle
<1>3. WireInv /\ BeforeInv
  BY DEF LinkInit, WireInv, BeforeInv
<1>4. EffectInv
  BY DEF LinkInit, EffectInv, Busy, Idle
<1> QED
  BY <1>1, <1>2, <1>3, <1>4 DEF LinkInv

\* A thread takes up a call that nobody asked before.
LEMMA BeginStep ==
  ASSUME LinkInv, NEW c \in Callers, NEW k \in Calls, NEW kind \in DOMAIN Requests,
         Begin(c, k, kind)
  PROVE  LinkInv'
<1>1. LinkTypeOK /\ CallerInv /\ WireInv /\ EffectInv /\ BeforeInv
  BY DEF LinkInv
<1>2. Requests[kind] \in 1..3
  BY DEF Requests
<1>3. /\ caller[c].pc = "idle" /\ told[k] = "unasked"
      /\ told' = [told EXCEPT ![k] = "asked"]
      /\ before' = [before EXCEPT ![k] = {j \in Calls : told[j] = "failed"}]
      /\ caller' = [caller EXCEPT ![c] =
                      [Idle EXCEPT !.pc = "preparing", !.call = k, !.left = Requests[kind]]]
      /\ UNCHANGED <<nonce, wire, lastNonce, effects, restarts>>
  BY DEF Begin
<1>4. /\ caller'[c] = [Idle EXCEPT !.pc = "preparing", !.call = k, !.left = Requests[kind]]
      /\ \A d \in Callers : d # c => caller'[d] = caller[d]
  BY <1>1, <1>3 DEF LinkTypeOK
<1>5. /\ caller'[c].pc = "preparing" /\ caller'[c].call = k /\ caller'[c].left \in 1..3
      /\ caller'[c].nonce = 0 /\ caller'[c].answer = "none"
  BY <1>2, <1>4 DEF Idle
<1>6. LinkTypeOK'
  <2>1. caller'[c] \in CallerType
    <3>1. caller'[c] = [pc |-> "preparing", call |-> k, left |-> Requests[kind],
                        nonce |-> 0, attempt |-> 0, answer |-> "none"]
      BY <1>4 DEF Idle
    <3>2. Requests[kind] \in 0..3 /\ 0 \in 0..MaxRetries /\ 0 \in Nat
      BY <1>2, LinkAssumption
    <3> QED
      BY <3>1, <3>2 DEF CallerType, Steps, LinkAnswers
  <2>2. caller' \in [Callers -> CallerType]
    BY <1>1, <1>3, <2>1, <1>4 DEF LinkTypeOK
  <2>3. told' \in [Calls -> {"unasked", "asked", "done", "failed"}]
    BY <1>1, <1>3 DEF LinkTypeOK
  <2>4. before' \in [Calls -> SUBSET Calls]
    BY <1>1, <1>3 DEF LinkTypeOK
  <2> QED
    BY <1>1, <1>3, <2>2, <2>3, <2>4 DEF LinkTypeOK
<1>7. /\ told'[k] = "asked" /\ before'[k] = {j \in Calls : told[j] = "failed"}
      /\ \A j \in Calls : j # k => told'[j] = told[j] /\ before'[j] = before[j]
  BY <1>1, <1>3 DEF LinkTypeOK
<1>8. CallerInv'
  BY <1>1, <1>3, <1>4, <1>5, <1>7 DEF CallerInv, Busy, LinkTypeOK
<1>9. WireInv'
  BY <1>1, <1>3, <1>4, <1>5, <1>7 DEF WireInv, Busy, InFlight, LinkTypeOK, MessageType
<1>10. EffectInv'
  BY <1>1, <1>3, <1>4, <1>5, <1>7 DEF EffectInv, Busy, InFlight, LinkTypeOK
<1>11. BeforeInv'
  <2>1. \A m \in wire : m.call \in Calls /\ m.call # k
    BY <1>1, <1>3 DEF WireInv, LinkTypeOK, MessageType
  <2>2. effects[k] = 0
    BY <1>1, <1>3 DEF EffectInv
  <2>3. \A q \in Calls : k \notin before[q]
    BY <1>1, <1>3 DEF BeforeInv
  <2>4. \A d \in Callers : InFlight(d)' => d # c /\ caller[d].call # k /\ caller[d].call \in Calls
    BY <1>1, <1>3, <1>4, <1>5 DEF CallerInv, Busy, InFlight
  <2> QED
    BY <1>1, <1>3, <1>4, <1>5, <1>7, <2>1, <2>2, <2>3, <2>4 DEF BeforeInv, InFlight
<1> QED
  BY <1>6, <1>8, <1>9, <1>10, <1>11 DEF LinkInv

\* An exception ends a call; requests of it may still be under way.
LEMMA GiveUpStep ==
  ASSUME LinkInv, NEW c \in Callers, caller[c].pc # "idle", GiveUp(c),
         UNCHANGED <<nonce, before, wire, lastNonce, effects, restarts>>
  PROVE  LinkInv'
<1> DEFINE k == caller[c].call
<1>1. LinkTypeOK /\ CallerInv /\ WireInv /\ EffectInv /\ BeforeInv
  BY DEF LinkInv
<1>2. k \in Calls /\ told[k] = "asked"
  BY <1>1 DEF CallerInv, Busy
<1>3. /\ caller'[c] = Idle /\ \A d \in Callers : d # c => caller'[d] = caller[d]
      /\ told'[k] = "failed" /\ \A j \in Calls : j # k => told'[j] = told[j]
  BY <1>1, <1>2 DEF GiveUp, LinkTypeOK
<1>4. LinkTypeOK'
  BY <1>1, <1>2, IdleType DEF GiveUp, LinkTypeOK
<1>5. Idle.pc = "idle" /\ Idle.answer = "none"
  BY DEF Idle
<1> HIDE DEF k
<1>6. \A d \in Callers : Busy(d)' => d # c /\ Busy(d) /\ caller[d].call # k
  BY <1>1, <1>3, <1>5 DEF CallerInv, Busy, k
<1>7. CallerInv'
  BY <1>1, <1>3, <1>5, <1>6 DEF CallerInv, Busy
<1>8. WireInv'
  BY <1>1, <1>2, <1>3, <1>6 DEF WireInv, Busy, InFlight, LinkTypeOK, MessageType
<1>9. EffectInv'
  BY <1>1, <1>2, <1>3, <1>6 DEF EffectInv, Busy, InFlight
<1>10. BeforeInv'
  <2>1. \A d \in Callers : InFlight(d)' => d # c /\ InFlight(d)
    BY <1>3, <1>5 DEF InFlight
  <2>2. \A q \in Calls : before[q] \subseteq Calls
    BY <1>1 DEF LinkTypeOK
  <2> QED
    BY <1>1, <1>2, <1>3, <2>1, <2>2 DEF BeforeInv, InFlight
<1> QED
  BY <1>4, <1>7, <1>8, <1>9, <1>10 DEF LinkInv

\* A retry sends the same signed request again.
LEMMA RetryStep ==
  ASSUME LinkInv, NEW c \in Callers, InFlight(c), MaybeRetry(c),
         UNCHANGED <<nonce, before, wire, lastNonce, effects, restarts>>
  PROVE  LinkInv'
<1>1. CASE caller[c].attempt < MaxRetries
  <2>1. LinkTypeOK /\ CallerInv /\ WireInv /\ EffectInv /\ BeforeInv
    BY DEF LinkInv
  <2>2. /\ told' = told
        /\ caller' = [caller EXCEPT ![c] = [caller[c] EXCEPT
                        !.pc = "sending", !.attempt = caller[c].attempt + 1, !.answer = "none"]]
    BY <1>1, <2>1 DEF MaybeRetry, LinkTypeOK, CallerType
  <2>3. /\ caller'[c] = [caller[c] EXCEPT
                        !.pc = "sending", !.attempt = caller[c].attempt + 1, !.answer = "none"]
        /\ \A d \in Callers : d # c => caller'[d] = caller[d]
        /\ caller[c] \in CallerType
    BY <2>1, <2>2 DEF LinkTypeOK
  <2>4. /\ caller'[c].pc = "sending" /\ caller'[c].call = caller[c].call
        /\ caller'[c].left = caller[c].left /\ caller'[c].nonce = caller[c].nonce
        /\ caller'[c].answer = "none" /\ caller'[c] \in CallerType
    <3>1. caller[c].attempt + 1 \in 0..MaxRetries
      BY <1>1, <2>3, LinkAssumption DEF CallerType
    <3>2. caller'[c] = [pc |-> "sending", call |-> caller[c].call, left |-> caller[c].left,
                        nonce |-> caller[c].nonce, attempt |-> caller[c].attempt + 1,
                        answer |-> "none"]
      BY <2>3 DEF CallerType
    <3> QED
      BY <2>3, <3>1, <3>2 DEF CallerType, Steps, LinkAnswers
  <2>5. LinkTypeOK'
    BY <2>1, <2>2, <2>4 DEF LinkTypeOK
  <2>6. \A d \in Callers : /\ Busy(d)' <=> Busy(d)
                           /\ InFlight(d)' <=> InFlight(d)
                           /\ caller'[d].call = caller[d].call
                           /\ caller'[d].left = caller[d].left
                           /\ caller'[d].nonce = caller[d].nonce
    BY <2>3, <2>4 DEF Busy, InFlight
  <2>7. CallerInv'
    BY <2>1, <2>2, <2>3, <2>4, <2>6 DEF CallerInv
  <2>8. WireInv' /\ EffectInv' /\ BeforeInv'
    BY <2>1, <2>2, <2>6 DEF WireInv, EffectInv, BeforeInv
  <2> QED
    BY <2>5, <2>7, <2>8 DEF LinkInv
<1>2. CASE ~(caller[c].attempt < MaxRetries)
  BY <1>2, GiveUpStep DEF MaybeRetry, InFlight
<1> QED
  BY <1>1, <1>2

\* Signing takes a nonce above all the others.
LEMMA SignStep ==
  ASSUME LinkInv, NEW c \in Callers, Sign(c)
  PROVE  LinkInv'
<1>1. LinkTypeOK /\ CallerInv /\ WireInv /\ EffectInv /\ BeforeInv
  BY DEF LinkInv
<1>2. /\ caller[c].pc = "preparing" /\ nonce' = nonce + 1
      /\ caller' = [caller EXCEPT ![c] = [caller[c] EXCEPT !.pc = "sending", !.nonce = nonce + 1]]
      /\ UNCHANGED <<told, wire, before, lastNonce, effects, restarts>>
  BY <1>1 DEF Sign, Unchanged, LinkTypeOK, CallerType
<1>3. /\ caller'[c] = [caller[c] EXCEPT !.pc = "sending", !.nonce = nonce + 1]
      /\ \A d \in Callers : d # c => caller'[d] = caller[d]
      /\ caller[c] \in CallerType /\ nonce \in Nat /\ nonce' \in Nat
  BY <1>1, <1>2 DEF LinkTypeOK
<1>4. caller'[c] = [pc |-> "sending", call |-> caller[c].call, left |-> caller[c].left,
                    nonce |-> nonce + 1, attempt |-> caller[c].attempt,
                    answer |-> caller[c].answer]
  BY <1>3 DEF CallerType
<1>5. /\ caller'[c].pc = "sending" /\ caller'[c].call = caller[c].call
      /\ caller'[c].left = caller[c].left /\ caller'[c].nonce = nonce + 1
      /\ caller'[c].answer = caller[c].answer /\ caller'[c] \in CallerType
  BY <1>3, <1>4 DEF CallerType, Steps
<1>6. LinkTypeOK'
  <2>1. caller' \in [Callers -> CallerType]
    BY <1>1, <1>2, <1>5 DEF LinkTypeOK
  <2> QED
    BY <1>1, <1>2, <1>3, <2>1 DEF LinkTypeOK
<1>7. \A d \in Callers : /\ Busy(d)' <=> Busy(d)
                         /\ caller'[d].call = caller[d].call
                         /\ caller'[d].left = caller[d].left
                         /\ caller'[d].answer = caller[d].answer
                         /\ d # c => (InFlight(d)' <=> InFlight(d)) /\ caller'[d] = caller[d]
                         /\ caller[d].nonce \in Nat
  BY <1>1, <1>2, <1>3, <1>5 DEF Busy, InFlight, LinkTypeOK, CallerType
<1>8. ~InFlight(c) /\ Busy(c) /\ InFlight(c)'
  BY <1>2, <1>5 DEF InFlight, Busy
<1>9. CallerInv'
  BY <1>1, <1>2, <1>3, <1>5, <1>7 DEF CallerInv
<1>10. \A m \in wire : m.final => m.call # caller[c].call
  BY <1>1, <1>8 DEF WireInv
<1>11. WireInv'
  <2>1. \A m \in wire : m.nonce \in Nat
    BY <1>1 DEF LinkTypeOK, MessageType
  <2> QED
    BY <1>1, <1>2, <1>3, <1>5, <1>7, <1>10, <2>1 DEF WireInv
<1>12. effects[caller[c].call] = 0
  BY <1>1, <1>8 DEF EffectInv, CallerInv
<1>13. EffectInv'
  BY <1>1, <1>2, <1>7, <1>12 DEF EffectInv
<1>14. BeforeInv'
  BY <1>1, <1>2, <1>3, <1>5, <1>7 DEF BeforeInv, WireInv, LinkTypeOK, MessageType
<1> QED
  BY <1>6, <1>9, <1>11, <1>13, <1>14 DEF LinkInv

\* An attempt goes to the wire with the nonce of the caller.
LEMMA SendStep ==
  ASSUME LinkInv, NEW c \in Callers, Send(c)
  PROVE  LinkInv'
<1>1. LinkTypeOK /\ CallerInv /\ WireInv /\ EffectInv /\ BeforeInv
  BY DEF LinkInv
<1>2. /\ caller[c].pc = "sending"
      /\ wire' = IF caller[c].nonce > lastNonce THEN wire \cup {MessageOf(c)} ELSE wire
      /\ caller' = [caller EXCEPT ![c] = [caller[c] EXCEPT !.pc = "waiting"]]
      /\ UNCHANGED <<nonce, told, before, lastNonce, effects, restarts>>
  BY <1>1 DEF Send, Unchanged, LinkTypeOK, CallerType
<1>3. /\ caller'[c] = [caller[c] EXCEPT !.pc = "waiting"]
      /\ \A d \in Callers : d # c => caller'[d] = caller[d]
      /\ caller[c] \in CallerType /\ lastNonce \in Nat /\ nonce \in Nat
  BY <1>1, <1>2 DEF LinkTypeOK
<1>4. caller'[c] = [pc |-> "waiting", call |-> caller[c].call, left |-> caller[c].left,
                    nonce |-> caller[c].nonce, attempt |-> caller[c].attempt,
                    answer |-> caller[c].answer]
  BY <1>3 DEF CallerType
<1>5. /\ caller'[c].pc = "waiting" /\ caller'[c].call = caller[c].call
      /\ caller'[c].left = caller[c].left /\ caller'[c].nonce = caller[c].nonce
      /\ caller'[c].answer = caller[c].answer /\ caller'[c] \in CallerType
  BY <1>3, <1>4 DEF CallerType, Steps
<1>6. \A d \in Callers : /\ Busy(d)' <=> Busy(d)
                         /\ InFlight(d)' <=> InFlight(d)
                         /\ caller'[d].call = caller[d].call
                         /\ caller'[d].left = caller[d].left
                         /\ caller'[d].answer = caller[d].answer
                         /\ caller'[d].nonce = caller[d].nonce
                         /\ caller[d].nonce \in Nat
  BY <1>1, <1>2, <1>3, <1>5 DEF Busy, InFlight, LinkTypeOK, CallerType
<1>7. /\ Busy(c) /\ InFlight(c) /\ caller[c].call \in Calls
      /\ told[caller[c].call] = "asked" /\ caller[c].nonce <= nonce
      /\ caller[c].left \in 1..3
  BY <1>1, <1>2 DEF Busy, InFlight, CallerInv
<1>8. PICK n : n = MessageOf(c)
  OBVIOUS
<1>9. /\ n \in MessageType /\ n.call = caller[c].call /\ n.nonce = caller[c].nonce
      /\ n.final <=> caller[c].left = 1
  <2>1. (caller[c].left = 1) \in BOOLEAN
    OBVIOUS
  <2>2. caller[c].nonce \in Nat
    BY <1>6
  <2> QED
    BY <1>7, <1>8, <2>1, <2>2 DEF MessageOf, MessageType
<1>10. CASE ~(caller[c].nonce > lastNonce)
  <2>1. wire' = wire
    BY <1>2, <1>10
  <2>2. LinkTypeOK'
    <3>1. caller' \in [Callers -> CallerType]
      BY <1>1, <1>2, <1>5 DEF LinkTypeOK
    <3> QED
      BY <1>1, <1>2, <2>1, <3>1 DEF LinkTypeOK
  <2>3. CallerInv'
    BY <1>1, <1>2, <1>3, <1>5, <1>6 DEF CallerInv
  <2>4. WireInv' /\ EffectInv' /\ BeforeInv'
    BY <1>1, <1>2, <1>6, <2>1 DEF WireInv, EffectInv, BeforeInv
  <2> QED
    BY <2>2, <2>3, <2>4 DEF LinkInv
<1>11. CASE caller[c].nonce > lastNonce
  <2>1. wire' = wire \cup {n}
    BY <1>2, <1>8, <1>11
  <2>2. effects[caller[c].call] = 0
    BY <1>1, <1>3, <1>6, <1>7, <1>11 DEF EffectInv
  <2>3. LinkTypeOK'
    <3>1. caller' \in [Callers -> CallerType]
      BY <1>1, <1>2, <1>5 DEF LinkTypeOK
    <3>2. wire' \in SUBSET MessageType
      BY <1>1, <1>9, <2>1 DEF LinkTypeOK
    <3> QED
      BY <1>1, <1>2, <3>1, <3>2 DEF LinkTypeOK
  <2>4. CallerInv'
    BY <1>1, <1>2, <1>3, <1>5, <1>6 DEF CallerInv
  <2>5. WireInv'
    <3>1. \A m \in wire' : m \in wire \/ m = n
      BY <2>1
    <3>2. \A m \in wire' : /\ lastNonce < m.nonce /\ m.nonce <= nonce
                           /\ told[m.call] # "unasked"
      BY <1>1, <1>7, <1>9, <1>11, <3>1 DEF WireInv
    <3>3. \A m \in wire', d \in Callers :
            Busy(d) /\ caller[d].call = m.call /\ m.final =>
              InFlight(d) /\ caller[d].left = 1 /\ caller[d].nonce = m.nonce
      <4>1. \A d \in Callers : Busy(d) /\ caller[d].call = n.call => d = c
        BY <1>1, <1>7, <1>9 DEF CallerInv
      <4> QED
        BY <1>1, <1>7, <1>9, <3>1, <4>1 DEF WireInv
    <3>4. \A m \in wire : m.final /\ n.final /\ m.call = n.call => m.nonce = n.nonce
      BY <1>1, <1>7, <1>9 DEF WireInv
    <3>5. \A m, o \in wire' : m.final /\ o.final /\ m.call = o.call => m.nonce = o.nonce
      BY <1>1, <3>1, <3>4 DEF WireInv
    <3> QED
      BY <1>2, <1>6, <3>2, <3>3, <3>5 DEF WireInv
  <2>6. EffectInv'
    BY <1>1, <1>2, <1>6, <1>9, <2>1, <2>2 DEF EffectInv
  <2>7. BeforeInv'
    <3>1. \A m \in wire' : m \in wire \/ m = n
      BY <2>1
    <3>2. \A q \in Calls : n.call \notin before[q]
      BY <1>1, <1>7, <1>9 DEF BeforeInv
    <3>3. \A d \in Callers : InFlight(d) => caller[d].call \in Calls
      BY <1>1 DEF CallerInv, InFlight, Busy
    <3>4. \A m \in wire' : m.call \in Calls
      BY <1>1, <1>7, <1>9, <3>1 DEF LinkTypeOK, MessageType
    <3>5. \A d \in Callers, m \in wire' :
            InFlight(d) /\ m.call \in before[caller[d].call] => m.nonce < caller[d].nonce
      BY <1>1, <3>1, <3>2, <3>3 DEF BeforeInv
    <3>6. \A m, o \in wire' : o.call \in before[m.call] => o.nonce < m.nonce
      BY <1>1, <1>7, <1>9, <3>1, <3>2, <3>4, <3>5 DEF BeforeInv
    <3>7. \A q \in Calls : effects[q] # 0 => \A m \in wire' : m.call \notin before[q]
      BY <1>1, <3>1, <3>2 DEF BeforeInv
    <3> QED
      BY <1>1, <1>2, <1>6, <3>5, <3>6, <3>7 DEF BeforeInv
  <2> QED
    BY <2>3, <2>4, <2>5, <2>6, <2>7 DEF LinkInv
<1> QED
  BY <1>3, <1>6, <1>10, <1>11

\* The next request of a call of several; the last one was not sent yet.
LEMMA NextRequestStep ==
  ASSUME LinkInv, NEW c \in Callers, NextRequest(c)
  PROVE  LinkInv'
<1>1. LinkTypeOK /\ CallerInv /\ WireInv /\ EffectInv /\ BeforeInv
  BY DEF LinkInv
<1>2. /\ caller[c].pc = "waiting" /\ caller[c].left > 1
      /\ caller' = [caller EXCEPT ![c] =
                      [Idle EXCEPT !.pc = "preparing", !.call = caller[c].call,
                                   !.left = caller[c].left - 1]]
      /\ UNCHANGED <<nonce, told, wire, before, lastNonce, effects, restarts>>
  BY DEF NextRequest, Unchanged
<1>3. /\ caller'[c] = [pc |-> "preparing", call |-> caller[c].call, left |-> caller[c].left - 1,
                       nonce |-> 0, attempt |-> 0, answer |-> "none"]
      /\ \A d \in Callers : d # c => caller'[d] = caller[d]
  BY <1>1, <1>2 DEF LinkTypeOK, Idle
<1>4. /\ Busy(c) /\ caller[c].call \in Calls /\ told[caller[c].call] = "asked"
      /\ caller[c].left \in 1..3
  BY <1>1, <1>2 DEF Busy, CallerInv
<1>5. /\ caller'[c].pc = "preparing" /\ caller'[c].call = caller[c].call
      /\ caller'[c].left = caller[c].left - 1 /\ caller'[c].left \in 1..3
      /\ caller'[c].nonce = 0 /\ caller'[c].answer = "none"
  <2>1. caller[c].left - 1 \in 1..3
    BY <1>2, <1>4
  <2> QED
    BY <1>3, <2>1
<1>6. LinkTypeOK'
  <2>1. caller'[c] \in CallerType
    <3>1. caller[c].left - 1 \in 0..3 /\ 0 \in 0..MaxRetries /\ 0 \in Nat
      BY <1>2, <1>4, LinkAssumption
    <3> QED
      BY <1>3, <1>4, <3>1 DEF CallerType, Steps, LinkAnswers
  <2>2. caller' \in [Callers -> CallerType]
    BY <1>1, <1>2, <2>1, <1>3 DEF LinkTypeOK
  <2> QED
    BY <1>1, <1>2, <2>2 DEF LinkTypeOK
<1>7. \A d \in Callers : /\ Busy(d)' <=> Busy(d)
                         /\ caller'[d].call = caller[d].call
                         /\ InFlight(d)' <=> InFlight(d) /\ d # c
  BY <1>2, <1>3, <1>5 DEF Busy, InFlight
<1>8. nonce \in Nat
  BY <1>1 DEF LinkTypeOK
<1>9. CallerInv'
  BY <1>1, <1>2, <1>3, <1>4, <1>5, <1>7, <1>8 DEF CallerInv
<1>10. /\ \A m \in wire : m.final => m.call # caller[c].call
       /\ effects[caller[c].call] = 0
  BY <1>1, <1>2, <1>4 DEF WireInv, EffectInv
<1>11. WireInv'
  BY <1>1, <1>2, <1>3, <1>5, <1>7, <1>10 DEF WireInv
<1>12. EffectInv'
  BY <1>1, <1>2, <1>3, <1>5, <1>7, <1>10 DEF EffectInv
<1>13. BeforeInv'
  BY <1>1, <1>2, <1>3, <1>7 DEF BeforeInv
<1> QED
  BY <1>6, <1>9, <1>11, <1>12, <1>13 DEF LinkInv

\* The caller is told of the result of the last request.
LEMMA ReturnStep ==
  ASSUME LinkInv, NEW c \in Callers, Return(c)
  PROVE  LinkInv'
<1>1. LinkTypeOK /\ CallerInv /\ WireInv /\ EffectInv /\ BeforeInv
  BY DEF LinkInv
<1>2. /\ caller[c].pc = "waiting" /\ caller[c].answer = "result" /\ caller[c].left = 1
      /\ told' = [told EXCEPT ![caller[c].call] = "done"]
      /\ caller' = [caller EXCEPT ![c] = Idle]
      /\ UNCHANGED <<nonce, wire, before, lastNonce, effects, restarts>>
  BY DEF Return, Unchanged
<1>3. PICK k \in Calls : k = caller[c].call /\ told[k] = "asked" /\ effects[k] # 0
  BY <1>1, <1>2 DEF CallerInv, Busy
<1>4. /\ caller'[c] = Idle /\ \A d \in Callers : d # c => caller'[d] = caller[d]
      /\ told'[k] = "done" /\ \A j \in Calls : j # k => told'[j] = told[j]
  BY <1>1, <1>2, <1>3 DEF LinkTypeOK
<1>5. LinkTypeOK'
  <2>1. caller' \in [Callers -> CallerType]
    BY <1>1, <1>2, IdleType DEF LinkTypeOK
  <2>2. told' \in [Calls -> {"unasked", "asked", "done", "failed"}]
    BY <1>1, <1>2, <1>3 DEF LinkTypeOK
  <2> QED
    BY <1>1, <1>2, <2>1, <2>2 DEF LinkTypeOK
<1>6. Idle.pc = "idle" /\ Idle.answer = "none"
  BY DEF Idle
<1>7. \A d \in Callers : Busy(d)' => d # c /\ Busy(d) /\ caller[d].call # k
  BY <1>1, <1>2, <1>3, <1>4, <1>6 DEF CallerInv, Busy
<1>8. CallerInv'
  BY <1>1, <1>2, <1>3, <1>4, <1>6, <1>7 DEF CallerInv, Busy
<1>9. WireInv'
  BY <1>1, <1>2, <1>3, <1>4, <1>7 DEF WireInv, Busy, InFlight, LinkTypeOK, MessageType
<1>10. EffectInv'
  BY <1>1, <1>2, <1>3, <1>4, <1>7 DEF EffectInv, Busy, InFlight
<1>11. BeforeInv'
  <2>1. \A d \in Callers : InFlight(d)' => d # c /\ InFlight(d)
    BY <1>4, <1>6 DEF InFlight
  <2>2. \A q \in Calls : before[q] \subseteq Calls
    BY <1>1 DEF LinkTypeOK
  <2> QED
    BY <1>1, <1>2, <1>3, <1>4, <2>1, <2>2 DEF BeforeInv, InFlight
<1> QED
  BY <1>5, <1>8, <1>9, <1>10, <1>11 DEF LinkInv

\* A new process: every thread is idle and what was under way has failed.
LEMMA RestartStep == LinkInv /\ Restart => LinkInv'
<1> SUFFICES ASSUME LinkInv, Restart
             PROVE  LinkInv'
  OBVIOUS
<1>1. LinkTypeOK /\ CallerInv /\ WireInv /\ EffectInv /\ BeforeInv
  BY DEF LinkInv
<1>2. /\ nonce' = nonce + 1 /\ restarts' = restarts + 1
      /\ caller' = [c \in Callers |-> Idle]
      /\ told' = [k \in Calls |-> IF told[k] = "asked" THEN "failed" ELSE told[k]]
      /\ UNCHANGED <<before, wire, lastNonce, effects>>
  BY DEF Restart
<1>3. nonce \in Nat /\ nonce' \in Nat /\ restarts' \in Nat /\ nonce' > nonce
  BY <1>1, <1>2 DEF LinkTypeOK
<1>4. \A c \in Callers : caller'[c].pc = "idle" /\ caller'[c].answer = "none"
  BY <1>2 DEF Idle
<1>5. \A k \in Calls : /\ told'[k] = "unasked" <=> told[k] = "unasked"
                       /\ told'[k] = "done" <=> told[k] = "done"
                       /\ told[k] = "failed" => told'[k] = "failed"
  BY <1>2
<1>6. LinkTypeOK'
  <2>1. caller' \in [Callers -> CallerType]
    BY <1>2, IdleType
  <2>2. told' \in [Calls -> {"unasked", "asked", "done", "failed"}]
    BY <1>1, <1>2 DEF LinkTypeOK
  <2> QED
    BY <1>1, <1>2, <1>3, <2>1, <2>2 DEF LinkTypeOK
<1>7. CallerInv'
  BY <1>4 DEF CallerInv, Busy
<1>8. \A m \in wire : m.call \in Calls /\ m.nonce \in Nat
  BY <1>1 DEF LinkTypeOK, MessageType
<1>9. WireInv'
  BY <1>1, <1>2, <1>3, <1>4, <1>5, <1>8 DEF WireInv, Busy
<1>10. EffectInv'
  BY <1>1, <1>2, <1>4, <1>5 DEF EffectInv, Busy
<1>11. \A q \in Calls : before[q] \subseteq Calls
  BY <1>1 DEF LinkTypeOK
<1>12. BeforeInv'
  BY <1>1, <1>2, <1>4, <1>5, <1>11 DEF BeforeInv, InFlight
<1> QED
  BY <1>6, <1>7, <1>9, <1>10, <1>12 DEF LinkInv

\* The exchange turns an attempt down without carrying it out.
LEMMA TurnDownStep ==
  ASSUME LinkInv, NEW c \in Callers, NEW a \in {"error", "rateLimit"}, TurnDown(c, a)
  PROVE  LinkInv'
<1>1. LinkTypeOK /\ CallerInv /\ WireInv /\ EffectInv /\ BeforeInv
  BY DEF LinkInv
<1>2. /\ caller[c].pc = "waiting" /\ caller[c].answer = "none"
      /\ caller' = [caller EXCEPT ![c] = [caller[c] EXCEPT !.answer = a]]
      /\ wire' \subseteq wire
      /\ UNCHANGED <<nonce, told, before, lastNonce, effects, restarts>>
  BY <1>1 DEF TurnDown, Waits, Unchanged, LinkTypeOK, CallerType
<1>3. /\ caller'[c] = [caller[c] EXCEPT !.answer = a]
      /\ \A d \in Callers : d # c => caller'[d] = caller[d]
      /\ caller[c] \in CallerType
  BY <1>1, <1>2 DEF LinkTypeOK
<1>4. caller'[c] = [pc |-> "waiting", call |-> caller[c].call, left |-> caller[c].left,
                    nonce |-> caller[c].nonce, attempt |-> caller[c].attempt, answer |-> a]
  BY <1>2, <1>3 DEF CallerType
<1>5. /\ caller'[c].pc = "waiting" /\ caller'[c].call = caller[c].call
      /\ caller'[c].left = caller[c].left /\ caller'[c].nonce = caller[c].nonce
      /\ caller'[c].answer = a /\ caller'[c].answer # "result" /\ caller'[c] \in CallerType
  BY <1>3, <1>4 DEF CallerType, Steps, LinkAnswers
<1>6. \A d \in Callers : /\ Busy(d)' <=> Busy(d)
                         /\ InFlight(d)' <=> InFlight(d)
                         /\ caller'[d].call = caller[d].call
                         /\ caller'[d].left = caller[d].left
                         /\ caller'[d].nonce = caller[d].nonce
  BY <1>2, <1>3, <1>5 DEF Busy, InFlight
<1>7. LinkTypeOK'
  <2>1. caller' \in [Callers -> CallerType]
    BY <1>1, <1>2, <1>5 DEF LinkTypeOK
  <2> QED
    BY <1>1, <1>2, <2>1 DEF LinkTypeOK
<1>8. CallerInv'
  BY <1>1, <1>2, <1>3, <1>5, <1>6 DEF CallerInv
<1>9. WireInv' /\ EffectInv' /\ BeforeInv'
  BY <1>1, <1>2, <1>6 DEF WireInv, EffectInv, BeforeInv
<1> QED
  BY <1>7, <1>8, <1>9 DEF LinkInv

\* The exchange accepts a nonce: what was carried out is shut out from now on,
\* and so is every call given up before it.
LEMMA AcceptStep ==
  ASSUME LinkInv, NEW m \in wire, NEW a \in {"result", "error", "rateLimit"}, Accept(m, a)
  PROVE  LinkInv'
<1>1. LinkTypeOK /\ CallerInv /\ WireInv /\ EffectInv /\ BeforeInv
  BY DEF LinkInv
<1>2. /\ lastNonce' = m.nonce
      /\ wire' = {r \in wire : r.nonce > m.nonce}
      /\ effects' = IF a = "result" /\ m.final
                      THEN [effects EXCEPT ![m.call] = @ + 1] ELSE effects
      /\ UNCHANGED <<nonce, told, before, restarts>>
  BY DEF Accept
<1>3. PICK k \in Calls : k = m.call
  BY <1>1 DEF LinkTypeOK, MessageType
<1>4. m.nonce \in Nat /\ lastNonce \in Nat /\ lastNonce < m.nonce /\ m.nonce <= nonce
  BY <1>1 DEF LinkTypeOK, MessageType, WireInv
<1>5. m.final => effects[k] = 0
  BY <1>1, <1>3 DEF EffectInv
<1>6. /\ \A j \in Calls : j # k => effects'[j] = effects[j]
      /\ effects'[k] \in {effects[k], 1}
      /\ effects'[k] # effects[k] => m.final /\ a = "result"
      /\ a = "result" /\ m.final => effects'[k] = 1
      /\ effects' \in [Calls -> Nat]
  <2>1. CASE a = "result" /\ m.final
    <3>1. effects' = [effects EXCEPT ![k] = 1] /\ effects \in [Calls -> Nat]
      <4>1. effects' = [effects EXCEPT ![k] = effects[k] + 1] /\ effects[k] = 0
        BY <1>2, <1>3, <1>5, <2>1
      <4> QED
        BY <1>1, <4>1 DEF LinkTypeOK
    <3> QED
      BY <3>1, <2>1
  <2>2. CASE ~(a = "result" /\ m.final)
    <3>1. effects' = effects
      BY <1>2, <2>2
    <3> QED
      BY <1>1, <2>2, <3>1 DEF LinkTypeOK
  <2> QED
    BY <2>1, <2>2
<1>7. \A r \in wire' : r \in wire /\ r.nonce > m.nonce /\ r.nonce \in Nat /\ r.call \in Calls
  BY <1>1, <1>2 DEF LinkTypeOK, MessageType
<1>8. /\ \A d \in Callers : /\ caller'[d].pc = caller[d].pc
                            /\ caller'[d].call = caller[d].call
                            /\ caller'[d].left = caller[d].left
                            /\ caller'[d].nonce = caller[d].nonce
                            /\ \/ caller'[d].answer = caller[d].answer
                               \/ /\ caller'[d].answer = a /\ caller[d].pc = "waiting"
                                  /\ caller[d].call = k /\ (caller[d].left = 1 <=> m.final)
      /\ caller' \in [Callers -> CallerType]
  <2>1. CASE UNCHANGED caller
    BY <1>1, <2>1 DEF LinkTypeOK
  <2>2. ASSUME NEW c \in Callers, Waits(c), MessageOf(c) = m,
               caller' = [caller EXCEPT ![c].answer = a]
        PROVE  <1>8!:
    <3>1. /\ caller' = [caller EXCEPT ![c] = [caller[c] EXCEPT !.answer = a]]
          /\ caller[c] \in CallerType /\ caller \in [Callers -> CallerType]
      BY <1>1, <2>2 DEF LinkTypeOK, CallerType
    <3>2. /\ caller'[c] = [caller[c] EXCEPT !.answer = a]
          /\ \A d \in Callers : d # c => caller'[d] = caller[d]
      BY <3>1
    <3>3. caller'[c] = [pc |-> caller[c].pc, call |-> caller[c].call, left |-> caller[c].left,
                        nonce |-> caller[c].nonce, attempt |-> caller[c].attempt,
                        answer |-> a]
      BY <3>1, <3>2 DEF CallerType
    <3>4. /\ caller[c].call = k /\ caller[c].pc = "waiting" /\ (caller[c].left = 1 <=> m.final)
      BY <1>3, <2>2 DEF MessageOf, Waits
    <3>5. caller'[c] \in CallerType
      BY <3>1, <3>3 DEF CallerType, LinkAnswers
    <3>6. caller' \in [Callers -> CallerType]
      BY <3>1, <3>5
    <3> QED
      BY <3>2, <3>3, <3>4, <3>6
  <2> QED
    BY <2>1, <2>2 DEF Accept
<1>9. \A d \in Callers : /\ Busy(d)' <=> Busy(d)
                         /\ InFlight(d)' <=> InFlight(d)
                         /\ caller[d].nonce \in Nat
  BY <1>1, <1>8 DEF Busy, InFlight, LinkTypeOK, CallerType
<1>10. LinkTypeOK'
  <2>1. wire' \in SUBSET MessageType
    BY <1>1, <1>7 DEF LinkTypeOK
  <2> QED
    BY <1>1, <1>2, <1>4, <1>6, <1>8, <2>1 DEF LinkTypeOK
<1>11. CallerInv'
  <2>1. \A d \in Callers : caller'[d].answer = "result" /\ caller'[d].left = 1
                             => effects'[caller'[d].call] # 0
    <3> SUFFICES ASSUME NEW d \in Callers, caller'[d].answer = "result", caller'[d].left = 1
                 PROVE  effects'[caller[d].call] # 0
      BY <1>8
    <3>1. CASE caller[d].answer = "result"
      <4>1. effects[caller[d].call] # 0 /\ caller[d].call \in Calls
        BY <1>1, <1>8, <3>1 DEF CallerInv, Busy
      <4> QED
        BY <1>6, <4>1
    <3>2. CASE caller[d].answer # "result"
      BY <1>6, <1>8, <3>2
    <3> QED
      BY <3>1, <3>2
  <2>2. \A d \in Callers : caller'[d].pc # "waiting" => caller'[d].answer = "none"
    BY <1>1, <1>8 DEF CallerInv
  <2> QED
    BY <1>1, <1>2, <1>8, <1>9, <2>1, <2>2 DEF CallerInv
<1>12. WireInv'
  BY <1>1, <1>2, <1>7, <1>8, <1>9 DEF WireInv
<1>13. EffectInv'
  <2>1. \A j \in Calls : effects'[j] \in {0, 1}
    BY <1>1, <1>6 DEF EffectInv
  <2>2. told[k] # "unasked"
    BY <1>1, <1>3 DEF WireInv
  <2>3. \A j \in Calls : /\ told[j] = "unasked" => effects'[j] = 0
                         /\ told[j] = "done" => effects'[j] = 1
    BY <1>1, <1>6, <2>2 DEF EffectInv
  <2>4. ASSUME NEW j \in Calls, effects'[j] # 0
        PROVE  /\ \A r \in wire' : ~(r.call = j /\ r.final)
               /\ \A d \in Callers : Busy(d) /\ caller[d].call = j =>
                    InFlight(d) /\ caller[d].left = 1 /\ caller[d].nonce <= m.nonce
    <3>1. CASE effects[j] # 0
      BY <1>1, <1>4, <1>7, <1>9, <3>1 DEF EffectInv
    <3>2. CASE effects[j] = 0
      <4>1. j = k /\ m.final
        BY <1>6, <2>4, <3>2
      <4>2. \A r \in wire' : ~(r.call = k /\ r.final)
        BY <1>1, <1>3, <1>4, <1>7, <4>1 DEF WireInv
      <4>3. \A d \in Callers : Busy(d) /\ caller[d].call = k =>
              InFlight(d) /\ caller[d].left = 1 /\ caller[d].nonce = m.nonce
        BY <1>1, <1>3, <4>1 DEF WireInv
      <4> QED
        BY <1>4, <4>1, <4>2, <4>3
    <3> QED
      BY <3>1, <3>2
  <2> QED
    BY <1>2, <1>8, <1>9, <2>1, <2>3, <2>4 DEF EffectInv
<1>14. BeforeInv'
  <2>1. \A q \in Calls : effects'[q] # 0 => \A r \in wire' : r.call \notin before[q]
    <3> SUFFICES ASSUME NEW q \in Calls, effects'[q] # 0, NEW r \in wire',
                        r.call \in before[q]
                 PROVE  FALSE
      OBVIOUS
    <3>1. effects[q] = 0
      BY <1>1, <1>7 DEF BeforeInv
    <3>2. q = m.call
      BY <1>3, <1>6, <3>1
    <3>3. r.nonce < m.nonce
      BY <1>1, <1>7, <3>2 DEF BeforeInv
    <3> QED
      BY <1>4, <1>7, <3>3
  <2> QED
    BY <1>1, <1>2, <1>7, <1>8, <1>9, <2>1 DEF BeforeInv
<1> QED
  BY <1>10, <1>11, <1>12, <1>13, <1>14 DEF LinkInv

\* Every step keeps the invariant.
LEMMA LinkStep == LinkInv /\ [LinkNext]_linkVars => LinkInv'
<1> SUFFICES ASSUME LinkInv, [LinkNext]_linkVars
             PROVE  LinkInv'
  OBVIOUS
<1>1. CASE UNCHANGED linkVars
  BY <1>1 DEF linkVars, LinkInv, LinkTypeOK, CallerInv, WireInv, EffectInv, BeforeInv,
              Busy, InFlight
<1>2. CASE \E c \in Callers, k \in Calls, kind \in DOMAIN Requests : Begin(c, k, kind)
  BY <1>2, BeginStep
<1>3. CASE \E c \in Callers : Progress(c)
  <2> SUFFICES ASSUME NEW c \in Callers, Progress(c)
               PROVE  LinkInv'
    BY <1>3
  <2>1. CASE Refused(c) \/ AnswerLost(c) \/ ApiError(c) \/ ResultTurnedDown(c)
    BY <2>1, GiveUpStep DEF Refused, AnswerLost, ApiError, ResultTurnedDown, Waits, Unchanged
  <2>2. CASE NotSent(c) \/ GatewayError(c) \/ RateLimited(c)
    BY <2>2, RetryStep DEF NotSent, GatewayError, RateLimited, Waits, InFlight, Unchanged
  <2> QED
    BY <2>1, <2>2, SignStep, SendStep, NextRequestStep, ReturnStep DEF Progress
<1>4. CASE Exchange
  BY <1>4, TurnDownStep, AcceptStep DEF Exchange
<1> QED
  BY <1>1, <1>2, <1>3, <1>4, RestartStep DEF LinkNext

-----------------------------------------------------------------------------

\* The threads, the requests under way and the histories keep their types, with
\* any number of threads, calls, retries and restarts.
THEOREM LinkTyped == LinkSpec => []LinkTypeOK
<1>1. LinkInv => LinkTypeOK
  BY DEF LinkInv
<1> QED
  BY <1>1, InvInit, LinkStep, PTL DEF LinkSpec

\* A call is carried out at a moment when no call that is done had seen it fail:
\* its first time is its only one, and it is not settled yet.
LEMMA EffectStep ==
  ASSUME LinkInv, [LinkNext]_linkVars, NEW k \in Calls, effects'[k] # effects[k]
  PROVE  /\ \E m \in wire : m.call = k /\ m.final
         /\ effects[k] = 0 /\ effects' = [effects EXCEPT ![k] = @ + 1]
         /\ UNCHANGED <<told, before>> /\ told[k] # "unasked"
         /\ ~\E q \in Calls : told[q] = "done" /\ k \in before[q]
<1>1. PICK m \in wire, a \in {"result", "error", "rateLimit"} : Accept(m, a)
  BY DEF LinkNext, linkVars, Begin, Progress, Refused, Sign, Send, NotSent, GatewayError,
         AnswerLost, RateLimited, ApiError, NextRequest, ResultTurnedDown, Return, Restart,
         Exchange, TurnDown, Unchanged
<1>2. /\ effects' = IF a = "result" /\ m.final
                      THEN [effects EXCEPT ![m.call] = @ + 1] ELSE effects
      /\ UNCHANGED <<told, before>>
  BY <1>1 DEF Accept
<1>3. m.call \in Calls /\ effects \in [Calls -> Nat]
  BY DEF LinkInv, LinkTypeOK, MessageType
<1>4. m.final /\ m.call = k /\ effects' = [effects EXCEPT ![k] = @ + 1]
  BY <1>2, <1>3
<1>5. effects[k] = 0
  BY <1>4 DEF LinkInv, EffectInv
<1>6. told[k] # "unasked"
  BY <1>4 DEF LinkInv, WireInv
<1>7. ~\E q \in Calls : told[q] = "done" /\ k \in before[q]
  <2>1. \A q \in Calls : told[q] = "done" => effects[q] = 1
    BY DEF LinkInv, EffectInv
  <2>2. \A q \in Calls : effects[q] # 0 => k \notin before[q]
    BY <1>4 DEF LinkInv, BeforeInv
  <2> QED
    BY <2>1, <2>2
<1> QED
  BY <1>2, <1>4, <1>5, <1>6, <1>7

\* What a call that is done has found given up stays given up: an order whose
\* answer was lost is not placed after the state was read that misses it.
THEOREM GivenUpStaysDeadHolds == LinkSpec => GivenUpStaysDead
<1>1. LinkInv /\ [LinkNext]_linkVars =>
        [\A k \in Calls : effects'[k] # effects[k] =>
           ~\E q \in Calls : told[q] = "done" /\ k \in before[q]]_linkVars
  BY EffectStep
<1> QED
  BY <1>1, InvInit, LinkStep, PTL DEF LinkSpec, GivenUpStaysDead

\* The calls begin as Promise says.
LEMMA PromiseInit == LinkInit => Promise!CallsInit
BY DEF LinkInit, Promise!CallsInit

\* A call that fails, in the words of Promise.
LEMMA GiveUpPromised ==
  ASSUME LinkInv, NEW c \in Callers, caller[c].pc # "idle", GiveUp(c), Unchanged
  PROVE  Promise!CallsNext
<1>1. PICK k \in Calls : k = caller[c].call /\ told[k] = "asked"
  BY DEF LinkInv, CallerInv, Busy
<1>2. told' = [j \in Calls |-> IF j \in {k} THEN "failed" ELSE told[j]]
  BY <1>1 DEF LinkInv, LinkTypeOK, GiveUp
<1>3. Promise!Fail({k})
  BY <1>1, <1>2 DEF Promise!Fail, Unchanged
<1> QED
  BY <1>3 DEF Promise!CallsNext

\* Every step of the link is a step of Promise, or one it does not see.
LEMMA PromiseStep ==
  LinkInv /\ [LinkNext]_linkVars => [Promise!CallsNext]_<<told, effects, before>>
<1> SUFFICES ASSUME LinkInv, [LinkNext]_linkVars
             PROVE  Promise!CallsNext \/ UNCHANGED <<told, effects, before>>
  BY DEF Promise!CallsNext
<1>1. LinkTypeOK /\ CallerInv /\ EffectInv
  BY DEF LinkInv
<1>2. CASE UNCHANGED linkVars
  BY <1>2 DEF linkVars
<1>3. ASSUME NEW c \in Callers, NEW k \in Calls, NEW kind \in DOMAIN Requests,
             Begin(c, k, kind)
      PROVE  Promise!CallsNext
  BY <1>3 DEF Begin, Promise!CallsNext, Promise!Ask, Promise!Failed
<1>4. ASSUME NEW c \in Callers, Progress(c)
      PROVE  Promise!CallsNext \/ UNCHANGED <<told, effects, before>>
  <2>1. CASE Refused(c) \/ AnswerLost(c) \/ ApiError(c) \/ ResultTurnedDown(c)
    BY <2>1, GiveUpPromised DEF Refused, AnswerLost, ApiError, ResultTurnedDown, Waits
  <2>2. CASE NotSent(c) \/ GatewayError(c) \/ RateLimited(c)
    <3>1. MaybeRetry(c) /\ caller[c].pc # "idle" /\ Unchanged
      BY <2>2 DEF NotSent, GatewayError, RateLimited, Waits
    <3>2. CASE caller[c].attempt < MaxRetries
      BY <3>1, <3>2 DEF MaybeRetry, Unchanged
    <3>3. CASE ~(caller[c].attempt < MaxRetries)
      BY <3>1, <3>3, GiveUpPromised DEF MaybeRetry
    <3> QED
      BY <3>2, <3>3
  <2>3. CASE Sign(c) \/ Send(c) \/ NextRequest(c)
    BY <2>3 DEF Sign, Send, NextRequest, Unchanged
  <2>4. CASE Return(c)
    <3>1. PICK k \in Calls : k = caller[c].call /\ told[k] = "asked" /\ effects[k] = 1
      BY <1>1, <2>4 DEF Return, CallerInv, EffectInv, Busy
    <3>2. Promise!Done(k)
      BY <2>4, <3>1 DEF Return, Unchanged, Promise!Done
    <3> QED
      BY <3>2 DEF Promise!CallsNext
  <2> QED
    BY <1>4, <2>1, <2>2, <2>3, <2>4 DEF Progress
<1>5. CASE Restart
  <2> DEFINE K == {k \in Calls : told[k] = "asked"}
  <2>1. told' = [k \in Calls |-> IF k \in K THEN "failed" ELSE told[k]]
    BY <1>5 DEF Restart
  <2>2. Promise!Fail(K)
    BY <1>5, <2>1 DEF Restart, Promise!Fail
  <2>3. K \in SUBSET Calls
    OBVIOUS
  <2> QED
    BY <2>2, <2>3 DEF Promise!CallsNext
<1>6. CASE Exchange
  <2>1. UNCHANGED <<told, before>>
    BY <1>6 DEF Exchange, TurnDown, Accept, Unchanged
  <2>2. CASE effects' = effects
    BY <2>1, <2>2
  <2>3. CASE effects' # effects
    <3>1. effects' \in [Calls -> Nat] /\ effects \in [Calls -> Nat]
      BY LinkStep DEF LinkInv, LinkTypeOK
    <3>2. PICK k \in Calls : effects'[k] # effects[k]
      BY <2>3, <3>1
    <3>3. /\ effects[k] = 0 /\ effects' = [effects EXCEPT ![k] = @ + 1]
          /\ told[k] # "unasked"
          /\ ~\E q \in Calls : told[q] = "done" /\ k \in before[q]
      BY <3>2, EffectStep
    <3>4. effects' = [effects EXCEPT ![k] = 1]
      BY <3>3
    <3>5. Promise!TakeEffect(k)
      BY <2>1, <3>3, <3>4 DEF Promise!TakeEffect, Promise!Settled
    <3> QED
      BY <3>5 DEF Promise!CallsNext
  <2> QED
    BY <2>2, <2>3
<1> QED
  BY <1>2, <1>3, <1>4, <1>5, <1>6 DEF LinkNext

\* Whatever the network loses or delays and however attempts are retried, a
\* call is carried out once at most and reported done only if it was: the link
\* implements AtMostOnceCalls.
THEOREM AtMostOnceHolds == LinkSpec => AtMostOnce
BY PromiseInit, PromiseStep, InvInit, LinkStep, PTL
   DEF LinkSpec, AtMostOnce, Promise!CallsSpec

-----------------------------------------------------------------------------
(***************************************************************************)
(* The local rate limiter, for any number of threads and pairs and any     *)
(* policy: its accounts keep within their budgets, and within the budgets  *)
(* of the exchange and what was sent again as long as no two threads       *)
(* overlap.                                                                *)
(***************************************************************************)

\* What a thread is about to write was checked against the budget.
Checked ==
  \A b \in Buyers :
    /\ buyer[b].pc = "writeRest" => buyer[b].projected <= RestMax
    /\ buyer[b].pc = "writeEngine" => buyer[b].projected <= EngineMax

TypeInv == LimiterTypeOK /\ Checked

\* The REST account covers what is owed and was not sent again, in the account
\* itself or in what the one thread that has read it is about to write.
RestCovered ==
  /\ \A b \in Buyers : buyer[b].pc = "writeRest" =>
       /\ restAt = now
       /\ restOwed <= buyer[b].projected + restRepeated
       /\ \A c \in Buyers : buyer[c].pc = "writeRest" => b = c
  /\ (\A b \in Buyers : buyer[b].pc # "writeRest") => restOwed <= RestDecayed + restRepeated

\* What an engine account that nobody is about to write covers: it gives back a
\* point only when the whole time of a point has passed since it was last settled.
AccountCovers(p) ==
  IF engineAt[p] = Never
    THEN engineOwed[p] <= engineRepeated[p]
    ELSE engineOwed[p] <= Floor0(TicksPerPoint * engineUsed[p] - (now - engineAt[p]))
                            + engineRepeated[p]

\* So each engine account does.
EngineCovered(p) ==
  /\ \A b \in Buyers : buyer[b].pc = "writeEngine" /\ buyer[b].pair = p =>
       /\ engineOwed[p] <= TicksPerPoint * buyer[b].projected + engineRepeated[p]
       /\ \A c \in Buyers : buyer[c].pc = "writeEngine" /\ buyer[c].pair = p => b = c
  /\ (\A b \in Buyers : ~(buyer[b].pc = "writeEngine" /\ buyer[b].pair = p)) =>
       AccountCovers(p)

Covered == ~overlapped => RestCovered /\ \A p \in TradedPairs : EngineCovered(p)

LimiterInv == TypeInv /\ Covered

-----------------------------------------------------------------------------
(* Arithmetic *)

LEMMA Products ==
  ASSUME NEW x \in Nat, NEW y \in Nat
  PROVE  x * y \in Nat
OBVIOUS

\* What is given back never makes an account larger or negative.
LEMMA Floored ==
  ASSUME NEW used \in Nat, NEW d \in Nat
  PROVE  Floor0(used - d) \in Nat /\ Floor0(used - d) <= used
BY DEF Floor0

\* Whole points given back take no longer than the time they took.
LEMMA WholePoints ==
  ASSUME NEW t \in Nat \ {0}, NEW e \in Nat
  PROVE  e \div t \in Nat /\ t * (e \div t) <= e
OBVIOUS

\* A tick later, an account decays by one tick more; what is owed for
\* repetitions never makes up for more than is owed at all.
LEMMA DecayByTick ==
  ASSUME NEW owed \in Nat, NEW used \in Nat, NEW d \in Nat, NEW e \in Nat, NEW again \in Nat,
         owed <= Floor0(used - d * e) + again
  PROVE  Floor0(owed - d) <= Floor0(used - d * (e + 1)) + Lesser(again, Floor0(owed - d))
<1>1. d * (e + 1) = d * e + d /\ d * e \in Nat
  OBVIOUS
<1> QED
  BY <1>1 DEF Floor0, Lesser

\* The lesser of two amounts is an amount.
LEMMA LesserType ==
  ASSUME NEW x \in Nat, NEW y \in Nat
  PROVE  Lesser(x, y) \in Nat
BY DEF Lesser

\* The REST account after its decay, within its budget.
LEMMA RestDecayedType ==
  ASSUME LimiterTypeOK
  PROVE  RestDecayed \in 0..RestMax /\ RestDecayed <= restUsed
<1>1. RestDecay * (now - restAt) \in Nat
  <2>1. RestDecay \in Nat /\ now - restAt \in Nat
    BY LimiterAssumption DEF LimiterTypeOK
  <2> QED
    BY <2>1, Products
<1>2. restUsed \in Nat /\ restUsed <= RestMax /\ RestMax \in Nat
  BY LimiterAssumption DEF LimiterTypeOK
<1>3. RestDecayed \in Nat /\ RestDecayed <= restUsed
  BY <1>1, <1>2, Floored DEF RestDecayed
<1> QED
  BY <1>2, <1>3

\* An engine account after its decay, within its budget.
LEMMA EngineDecayedType ==
  ASSUME LimiterTypeOK, NEW p \in TradedPairs
  PROVE  /\ EngineDecayed(p).used \in 0..EngineMax
         /\ EngineDecayed(p).at \in 0..now
<1>1. CASE engineAt[p] = Never
  BY <1>1 DEF EngineDecayed, LimiterTypeOK
<1>2. CASE engineAt[p] # Never
  <2>1. now - engineAt[p] \in Nat /\ TicksPerPoint \in Nat \ {0}
    BY <1>2, LimiterAssumption DEF LimiterTypeOK
  <2>2. (now - engineAt[p]) \div TicksPerPoint \in Nat
    BY <2>1, WholePoints
  <2> QED
    BY <1>2, <2>2, Floored, LimiterAssumption DEF EngineDecayed, LimiterTypeOK
<1> QED
  BY <1>1, <1>2

-----------------------------------------------------------------------------
(* The accounts keep within their budgets *)

LEMMA CallsType ==
  ASSUME NEW call \in KrakenCalls
  PROVE  call.rest \in Nat /\ call.engine \in Nat
BY LimiterAssumption DEF KrakenCalls

\* A caller at rest is typed.
LEMMA AtRestType == AtRest \in BuyerType
<1>1. [rest |-> PlainCost, engine |-> 0] \in KrakenCalls
  BY DEF KrakenCalls
<1>2. (CHOOSE p \in TradedPairs : TRUE) \in TradedPairs
  BY LimiterAssumption
<1> QED
  BY <1>1, <1>2 DEF AtRest, BuyerType

\* The accounts start typed and empty.
LEMMA TypeInit == LimiterInit => TypeInv
<1> SUFFICES ASSUME LimiterInit
             PROVE  TypeInv
  OBVIOUS
<1>1. /\ now \in Nat /\ restUsed \in 0..RestMax /\ restAt \in 0..now
      /\ restOwed \in Nat /\ restRepeated \in Nat
  BY LimiterAssumption DEF LimiterInit
<1>2. /\ engineUsed \in [TradedPairs -> 0..EngineMax]
      /\ engineAt \in [TradedPairs -> {Never} \cup 0..now]
      /\ engineOwed \in [TradedPairs -> Nat] /\ engineRepeated \in [TradedPairs -> Nat]
  BY LimiterAssumption DEF LimiterInit
<1>3. buyer \in [Buyers -> BuyerType]
  BY AtRestType DEF LimiterInit
<1>4. LimiterTypeOK
  BY <1>1, <1>2, <1>3 DEF LimiterInit, LimiterTypeOK
<1>5. Checked
  BY DEF LimiterInit, Checked, AtRest
<1> QED
  BY <1>4, <1>5 DEF TypeInv

\* Every step keeps the types and the budgets: one step of the proof per action.
LEMMA TypeStep == TypeInv /\ [LimiterNext]_limiterVars => TypeInv'
<1> SUFFICES ASSUME TypeInv, [LimiterNext]_limiterVars
             PROVE  TypeInv'
  OBVIOUS
<1> USE LimiterAssumption DEF TypeInv
<1>1. CASE Tick
  <2>1. Floor0(restOwed - RestDecay) \in Nat
        /\ \A p \in TradedPairs : Floor0(engineOwed[p] - 1) \in Nat
    BY Floored DEF LimiterTypeOK
  <2>2. restOwed' \in Nat /\ engineOwed' \in [TradedPairs -> Nat]
    BY <1>1, <2>1 DEF Tick
  <2>3. restRepeated' \in Nat
    BY <1>1, <2>2, LesserType DEF Tick, LimiterTypeOK
  <2>4. engineRepeated' \in [TradedPairs -> Nat]
    <3>1. \A p \in TradedPairs : Lesser(engineRepeated[p], engineOwed'[p]) \in Nat
      BY <2>2, LesserType DEF LimiterTypeOK
    <3> QED
      BY <1>1, <3>1 DEF Tick
  <2> QED
    BY <1>1, <2>2, <2>3, <2>4 DEF Tick, LimiterTypeOK, Checked
<1>2. ASSUME NEW b \in Buyers, NEW call \in KrakenCalls, NEW pair \in TradedPairs,
             ReadRest(b, call, pair)
      PROVE  TypeInv'
  <2>1. RestDecayed \in 0..RestMax
    BY RestDecayedType
  <2>2. CASE RestDecayed + call.rest > RestMax
    BY <1>2, <2>1, <2>2 DEF ReadRest, engineVars, LimiterTypeOK, Checked
  <2>3. CASE ~(RestDecayed + call.rest > RestMax)
    <3>1. call.rest \in Nat
      BY CallsType
    <3>2. buyer' \in [Buyers -> BuyerType]
      BY <1>2, <2>1, <2>3, <3>1 DEF ReadRest, LimiterTypeOK, BuyerType
    <3>3. Checked'
      BY <1>2, <2>1, <2>3, <3>1 DEF ReadRest, LimiterTypeOK, Checked
    <3>4. /\ restUsed' \in 0..RestMax /\ restAt' \in 0..now'
          /\ restOwed' \in Nat
      BY <1>2, <2>1, <2>3, <3>1 DEF ReadRest, LimiterTypeOK
    <3>5. overlapped' \in BOOLEAN
      BY <1>2, <2>3 DEF ReadRest
    <3> QED
      BY <1>2, <3>2, <3>3, <3>4, <3>5 DEF ReadRest, engineVars, LimiterTypeOK
  <2> QED
    BY <2>2, <2>3
<1>3. ASSUME NEW b \in Buyers, WriteRest(b)
      PROVE  TypeInv'
  <2>1. /\ buyer' \in [Buyers -> BuyerType]
        /\ \A c \in Buyers : c # b => buyer'[c] = buyer[c]
        /\ buyer'[b].pc \in {"sending", "readEngine"}
    <3> DEFINE next == IF buyer[b].call.engine = 0 THEN "sending" ELSE "readEngine"
    <3>1. buyer' = [buyer EXCEPT ![b].pc = next, ![b].projected = 0]
      BY <1>3 DEF WriteRest
    <3>2. next \in {"sending", "readEngine"}
      OBVIOUS
    <3> HIDE DEF next
    <3> QED
      BY <3>1, <3>2 DEF LimiterTypeOK, BuyerType
  <2>2. restUsed' \in 0..RestMax
    BY <1>3 DEF WriteRest, LimiterTypeOK, Checked, BuyerType
  <2>3. Checked'
    BY <2>1 DEF Checked
  <2> QED
    BY <1>3, <2>1, <2>2, <2>3 DEF WriteRest, engineVars, LimiterTypeOK
<1>4. ASSUME NEW b \in Buyers, ReadEngine(b)
      PROVE  TypeInv'
  <2> DEFINE p == buyer[b].pair
             projected == EngineDecayed(p).used + buyer[b].call.engine
  <2>1. p \in TradedPairs /\ buyer[b].call.engine \in Nat /\ buyer[b] \in BuyerType
    BY CallsType DEF LimiterTypeOK, BuyerType
  <2>2. EngineDecayed(p).used \in 0..EngineMax /\ EngineDecayed(p).at \in 0..now
    BY <2>1, EngineDecayedType
  <2>3. /\ engineUsed' \in [TradedPairs -> 0..EngineMax]
        /\ engineAt' \in [TradedPairs -> {Never} \cup 0..now']
    BY <1>4, <2>2 DEF ReadEngine, LimiterTypeOK
  <2>4. CASE TooMuch(projected)
    <3>1. buyer' = [buyer EXCEPT ![b] = AtRest] /\ UNCHANGED <<engineOwed, overlapped>>
      BY <1>4, <2>4 DEF ReadEngine
    <3>2. buyer' \in [Buyers -> BuyerType] /\ Checked'
      BY <3>1, AtRestType DEF LimiterTypeOK, Checked, AtRest
    <3> QED
      BY <1>4, <2>3, <3>1, <3>2 DEF ReadEngine, restVars, LimiterTypeOK, Checked
  <2>5. CASE ~TooMuch(projected)
    <3>1. /\ buyer' = [buyer EXCEPT ![b] =
                 [@ EXCEPT !.pc = "writeEngine", !.projected = projected]]
          /\ engineOwed' = [engineOwed EXCEPT ![p] = @ + TicksPerPoint * buyer[b].call.engine]
          /\ overlapped' \in BOOLEAN
      BY <1>4, <2>5 DEF ReadEngine
    <3>2. projected \in Nat /\ projected <= EngineMax
      BY <2>1, <2>2, <2>5 DEF TooMuch
    <3>3. buyer' \in [Buyers -> BuyerType] /\ Checked'
      BY <2>1, <3>1, <3>2 DEF LimiterTypeOK, Checked, BuyerType
    <3>4. engineOwed' \in [TradedPairs -> Nat]
      BY <2>1, <3>1, Products DEF LimiterTypeOK
    <3> QED
      BY <1>4, <2>3, <3>1, <3>3, <3>4 DEF ReadEngine, restVars, LimiterTypeOK
  <2> QED
    BY <2>4, <2>5
<1>5. ASSUME NEW b \in Buyers, WriteEngine(b)
      PROVE  TypeInv'
  <2>1. buyer[b].projected \in 0..EngineMax
    BY <1>5 DEF WriteEngine, LimiterTypeOK, Checked, BuyerType
  <2>2. buyer' \in [Buyers -> BuyerType] /\ Checked'
    BY <1>5 DEF WriteEngine, LimiterTypeOK, Checked, BuyerType
  <2>3. engineUsed' \in [TradedPairs -> 0..EngineMax]
    BY <1>5, <2>1 DEF WriteEngine, LimiterTypeOK
  <2>4. now \in 0..now /\ now' = now
    BY <1>5 DEF WriteEngine, LimiterTypeOK
  <2>5. engineAt' \in [TradedPairs -> {Never} \cup 0..now']
    BY <1>5, <2>4 DEF WriteEngine, LimiterTypeOK
  <2> QED
    BY <1>5, <2>2, <2>3, <2>5 DEF WriteEngine, restVars, LimiterTypeOK
<1>6. ASSUME NEW b \in Buyers, Repeat(b)
      PROVE  TypeInv'
  <2> DEFINE call == buyer[b].call
  <2>1. /\ buyer[b] \in BuyerType /\ call \in KrakenCalls /\ buyer[b].pc = "sending"
        /\ call.rest \in Nat /\ TicksPerPoint * call.engine \in Nat
    BY <1>6, CallsType, Products DEF Repeat, LimiterTypeOK, BuyerType
  <2>2. /\ buyer' = [buyer EXCEPT ![b].repeats = @ + 1]
        /\ buyer'[b] \in BuyerType /\ buyer'[b].pc = "sending"
        /\ \A c \in Buyers : c # b => buyer'[c] = buyer[c]
    BY <1>6, <2>1 DEF Repeat, LimiterTypeOK, BuyerType
  <2>3. buyer' \in [Buyers -> BuyerType]
    BY <2>2 DEF LimiterTypeOK
  <2>4. Checked'
    BY <2>2 DEF Checked
  <2>5. restOwed' \in Nat /\ restRepeated' \in Nat
    BY <1>6, <2>1 DEF Repeat, LimiterTypeOK
  <2>6. engineOwed' \in [TradedPairs -> Nat] /\ engineRepeated' \in [TradedPairs -> Nat]
    <3> DEFINE points == TicksPerPoint * call.engine
               p == buyer[b].pair
    <3>1. points \in Nat
      BY <2>1
    <3>2. /\ engineOwed' = [engineOwed EXCEPT ![p] = @ + points]
          /\ engineRepeated' = [engineRepeated EXCEPT ![p] = @ + points]
      BY <1>6 DEF Repeat
    <3>3. \A q \in TradedPairs : engineOwed[q] + points \in Nat
                                   /\ engineRepeated[q] + points \in Nat
      BY <3>1 DEF LimiterTypeOK
    <3> HIDE DEF points, p
    <3>4. engineOwed' \in [TradedPairs -> Nat]
      BY <3>2, <3>3 DEF LimiterTypeOK
    <3>5. engineRepeated' \in [TradedPairs -> Nat]
      BY <3>2, <3>3 DEF LimiterTypeOK
    <3> QED
      BY <3>4, <3>5
  <2> QED
    BY <1>6, <2>3, <2>4, <2>5, <2>6 DEF Repeat, LimiterTypeOK
<1>7. ASSUME NEW b \in Buyers, Sent(b)
      PROVE  TypeInv'
  <2>1. buyer' \in [Buyers -> BuyerType] /\ Checked'
    BY <1>7, AtRestType DEF Sent, LimiterTypeOK, Checked, AtRest
  <2> QED
    BY <1>7, <2>1 DEF Sent, restVars, engineVars, LimiterTypeOK
<1>8. CASE UNCHANGED limiterVars
  BY <1>8 DEF limiterVars, restVars, engineVars, LimiterTypeOK, Checked
<1> QED
  BY <1>1, <1>2, <1>3, <1>4, <1>5, <1>6, <1>7, <1>8 DEF LimiterNext

\* The limiter's accounts keep their types and never exceed their budgets,
\* however its threads interleave.
THEOREM AccountsBounded == LimiterSpec => []LimiterTypeOK
<1>1. TypeInv => LimiterTypeOK
  BY DEF TypeInv
<1> QED
  BY TypeInit, TypeStep, <1>1, PTL DEF LimiterSpec

-----------------------------------------------------------------------------
(* Within the policy of the exchange *)

\* A consumption that was checked against the settled account is covered.
LEMMA EngineSettled ==
  ASSUME LimiterTypeOK, NEW p \in TradedPairs, AccountCovers(p)
  PROVE  /\ engineOwed[p] <= TicksPerPoint * EngineDecayed(p).used + engineRepeated[p]
         /\ engineOwed[p] <= Floor0(TicksPerPoint * EngineDecayed(p).used
                                      - (now - EngineDecayed(p).at)) + engineRepeated[p]
<1> DEFINE t == TicksPerPoint
           used == engineUsed[p]
           again == engineRepeated[p]
           elapsed == now - engineAt[p]
           points == elapsed \div t
<1>1. /\ t \in Nat \ {0} /\ used \in Nat /\ engineOwed[p] \in Nat /\ now \in Nat
      /\ again \in Nat
  BY LimiterAssumption DEF LimiterTypeOK
<1>2. t * used \in Nat
  BY <1>1, Products
<1>3. CASE engineAt[p] = Never
  BY <1>1, <1>2, <1>3 DEF AccountCovers, EngineDecayed, Floor0
<1>4. CASE engineAt[p] # Never
  <2>1. elapsed \in Nat
    BY <1>4 DEF LimiterTypeOK
  <2>2. points \in Nat /\ t * points <= elapsed
    BY <1>1, <2>1, WholePoints
  <2>3. engineOwed[p] <= Floor0(t * used - elapsed) + again
    BY <1>4 DEF AccountCovers
  <2>4. CASE points > 0
    <3>1. EngineDecayed(p).used = Floor0(used - points) /\ EngineDecayed(p).at = now
      BY <1>4, <2>4 DEF EngineDecayed
    <3>2. engineOwed[p] <= t * Floor0(used - points) + again
      <4> HIDE DEF t, used, elapsed, points, again
      <4>1. CASE used < points
        <5>1. t * used <= t * points
          BY <1>1, <2>2, <4>1
        <5> QED
          BY <1>1, <1>2, <2>1, <2>2, <2>3, <4>1, <5>1 DEF Floor0
      <4>2. CASE ~(used < points)
        <5>1. t * (used - points) = t * used - t * points
          BY <1>1, <2>2
        <5>2. used - points \in Nat /\ t * (used - points) \in Nat
          BY <1>1, <2>2, <4>2, Products
        <5> QED
          BY <1>1, <1>2, <2>1, <2>2, <2>3, <4>2, <5>1, <5>2 DEF Floor0
      <4> QED
        BY <4>1, <4>2
    <3>3. Floor0(used - points) \in Nat
      BY <1>1, <2>2, Floored
    <3>4. t * Floor0(used - points) \in Nat
      BY <1>1, <3>3, Products
    <3> QED
      BY <1>1, <3>1, <3>2, <3>4 DEF Floor0
  <2>5. CASE ~(points > 0)
    <3>1. EngineDecayed(p).used = used /\ EngineDecayed(p).at = engineAt[p]
      BY <1>4, <2>5 DEF EngineDecayed
    <3> QED
      BY <1>1, <1>2, <2>1, <2>3, <3>1 DEF Floor0
  <2> QED
    BY <2>4, <2>5
<1> QED
  BY <1>3, <1>4

\* At first nothing was charged.
LEMMA CoveredInit == LimiterInit => Covered
BY LimiterAssumption DEF LimiterInit, Covered, RestCovered, EngineCovered,
   AccountCovers, AtRest, RestDecayed, Floor0

\* A tick lets every account decay.
LEMMA CoveredTick ==
  ASSUME LimiterInv, Tick
  PROVE  Covered'
<1> SUFFICES ASSUME ~overlapped'
             PROVE  RestCovered' /\ \A p \in TradedPairs : EngineCovered(p)'
  BY DEF Covered
<1>1. ~overlapped /\ RestCovered /\ \A p \in TradedPairs : EngineCovered(p)
  BY DEF Tick, LimiterInv, Covered
<1>2. LimiterTypeOK
  BY DEF LimiterInv, TypeInv
<1>3. \A b \in Buyers : buyer[b].pc # "writeRest" /\ buyer[b].pc # "writeEngine"
  BY DEF Tick
<1>4. RestCovered'
  <2> DEFINE elapsed == now - restAt
  <2>1. restOwed <= Floor0(restUsed - RestDecay * elapsed) + restRepeated
    BY <1>1, <1>3 DEF RestCovered, RestDecayed
  <2>2. /\ restOwed \in Nat /\ restUsed \in Nat /\ RestDecay \in Nat /\ restRepeated \in Nat
        /\ elapsed \in Nat /\ now' - restAt' = elapsed + 1
    BY <1>2, LimiterAssumption DEF LimiterTypeOK, Tick
  <2> HIDE DEF elapsed
  <2>3. Floor0(restOwed - RestDecay)
          <= Floor0(restUsed - RestDecay * (elapsed + 1))
               + Lesser(restRepeated, Floor0(restOwed - RestDecay))
    BY <2>1, <2>2, DecayByTick
  <2> QED
    BY <1>3, <2>2, <2>3 DEF RestCovered, RestDecayed, Tick
<1>5. ASSUME NEW p \in TradedPairs
      PROVE  EngineCovered(p)'
  <2>1. AccountCovers(p)
    BY <1>1, <1>3 DEF EngineCovered
  <2>2. /\ engineOwed[p] \in Nat /\ engineRepeated[p] \in Nat
        /\ TicksPerPoint * engineUsed[p] \in Nat
        /\ engineAt[p] # Never => now - engineAt[p] \in Nat
    BY <1>2, LimiterAssumption, Products DEF LimiterTypeOK
  <2>3. /\ engineOwed'[p] = Floor0(engineOwed[p] - 1)
        /\ engineRepeated'[p] = Lesser(engineRepeated[p], engineOwed'[p])
        /\ UNCHANGED <<engineAt, engineUsed>> /\ now' = now + 1
    BY DEF Tick
  <2>4. AccountCovers(p)'
    BY <1>2, <2>1, <2>2, <2>3 DEF AccountCovers, Floor0, Lesser, LimiterTypeOK
  <2> QED
    BY <1>3, <2>4 DEF EngineCovered, Tick
<1> QED
  BY <1>4, <1>5

\* Reading the REST account settles it, and charges it unless it is refused.
LEMMA CoveredReadRest ==
  ASSUME LimiterInv, NEW b \in Buyers, NEW call \in KrakenCalls, NEW pair \in TradedPairs,
         ReadRest(b, call, pair)
  PROVE  Covered'
<1> SUFFICES ASSUME ~overlapped'
             PROVE  RestCovered' /\ \A p \in TradedPairs : EngineCovered(p)'
  BY DEF Covered
<1> DEFINE refused == RestDecayed + call.rest > RestMax
<1>1. ~overlapped
  BY DEF ReadRest
<1>2. RestCovered /\ \A p \in TradedPairs : EngineCovered(p)
  BY <1>1 DEF LimiterInv, Covered
<1>3. LimiterTypeOK /\ RestDecayed \in 0..RestMax /\ call.rest \in Nat
  BY RestDecayedType, CallsType DEF LimiterInv, TypeInv
<1>4. /\ restUsed' = RestDecayed /\ restAt' = now /\ now' = now /\ buyer[b].pc = "idle"
      /\ UNCHANGED <<restRepeated, engineVars>>
      /\ refused => UNCHANGED <<buyer, restOwed>>
      /\ ~refused => /\ buyer' = [buyer EXCEPT ![b] =
                          [pc |-> "writeRest", pair |-> pair, call |-> call,
                           projected |-> RestDecayed + call.rest, repeats |-> 0]]
                     /\ restOwed' = restOwed + call.rest
                     /\ \A c \in Buyers : buyer[c].pc # "writeRest"
  BY DEF ReadRest
<1>5. RestDecayed' = restUsed'
  <2>1. RestDecay * (now' - restAt') = 0
    BY <1>3, <1>4, LimiterAssumption DEF LimiterTypeOK
  <2> QED
    BY <1>3, <1>4, <2>1 DEF RestDecayed, Floor0
<1>6. RestCovered'
  <2>1. CASE refused
    BY <1>2, <1>4, <1>5, <2>1 DEF RestCovered
  <2>2. CASE ~refused
    <3>1. restOwed <= RestDecayed + restRepeated /\ restOwed \in Nat /\ restRepeated \in Nat
      BY <1>2, <1>3, <1>4, <2>2 DEF RestCovered, LimiterTypeOK
    <3>2. \A c \in Buyers : buyer'[c].pc = "writeRest" => c = b
      BY <1>3, <1>4, <2>2 DEF LimiterTypeOK
    <3>3. /\ buyer'[b].pc = "writeRest"
          /\ buyer'[b].projected = RestDecayed + call.rest
      BY <1>3, <1>4, <2>2 DEF LimiterTypeOK
    <3> QED
      BY <1>3, <1>4, <2>2, <3>1, <3>2, <3>3 DEF RestCovered
  <2> QED
    BY <2>1, <2>2
<1>7. ASSUME NEW p \in TradedPairs
      PROVE  EngineCovered(p)'
  <2>1. \A c \in Buyers : /\ buyer'[c].pc = "writeEngine" <=> buyer[c].pc = "writeEngine"
                          /\ buyer[c].pc = "writeEngine" => buyer'[c] = buyer[c]
    BY <1>3, <1>4 DEF LimiterTypeOK
  <2> QED
    BY <1>2, <1>4, <2>1 DEF EngineCovered, AccountCovers, engineVars
<1> QED
  BY <1>6, <1>7

\* Writing it puts what was read and charged in the account.
LEMMA CoveredWriteRest ==
  ASSUME LimiterInv, NEW b \in Buyers, WriteRest(b)
  PROVE  Covered'
<1> SUFFICES ASSUME ~overlapped'
             PROVE  RestCovered' /\ \A p \in TradedPairs : EngineCovered(p)'
  BY DEF Covered
<1>1. RestCovered /\ \A p \in TradedPairs : EngineCovered(p)
  BY DEF WriteRest, LimiterInv, Covered
<1>2. LimiterTypeOK
  BY DEF LimiterInv, TypeInv
<1>3. /\ buyer[b].pc = "writeRest" /\ buyer'[b].pc \in {"sending", "readEngine"}
      /\ \A c \in Buyers : c # b => buyer'[c] = buyer[c]
      /\ restUsed' = buyer[b].projected
      /\ UNCHANGED <<now, restAt, restOwed, restRepeated, engineVars>>
  BY <1>2 DEF WriteRest, LimiterTypeOK, BuyerType
<1>4. restAt = now /\ restOwed <= buyer[b].projected + restRepeated
  BY <1>1, <1>3 DEF RestCovered
<1>5. \A c \in Buyers : buyer'[c].pc # "writeRest"
  BY <1>1, <1>3 DEF RestCovered
<1>6. RestDecayed' = restUsed'
  <2>1. RestDecay * (now' - restAt') = 0 /\ restUsed' \in Nat
    BY <1>2, <1>3, <1>4, LimiterAssumption DEF LimiterTypeOK, BuyerType
  <2> QED
    BY <2>1 DEF RestDecayed, Floor0
<1>7. RestCovered'
  BY <1>3, <1>4, <1>5, <1>6 DEF RestCovered
<1>8. ASSUME NEW p \in TradedPairs
      PROVE  EngineCovered(p)'
  BY <1>1, <1>3 DEF EngineCovered, AccountCovers, engineVars
<1> QED
  BY <1>7, <1>8

\* Reading an engine account settles it, and charges it unless it is refused.
LEMMA CoveredReadEngine ==
  ASSUME LimiterInv, NEW b \in Buyers, ReadEngine(b)
  PROVE  Covered'
<1> SUFFICES ASSUME ~overlapped'
             PROVE  RestCovered' /\ \A p \in TradedPairs : EngineCovered(p)'
  BY DEF Covered
<1>0. PICK q \in TradedPairs : buyer[b].pair = q
  BY DEF LimiterInv, TypeInv, LimiterTypeOK, BuyerType
<1> DEFINE projected == EngineDecayed(q).used + buyer[b].call.engine
           refused == TooMuch(projected)
<1>1. ~overlapped
  BY DEF ReadEngine
<1>2. RestCovered /\ \A p \in TradedPairs : EngineCovered(p)
  BY <1>1 DEF LimiterInv, Covered
<1>3. /\ LimiterTypeOK /\ buyer[b].call.engine \in Nat /\ buyer[b] \in BuyerType
      /\ EngineDecayed(q).used \in 0..EngineMax /\ EngineDecayed(q).at \in 0..now
  BY EngineDecayedType, CallsType DEF LimiterInv, TypeInv, LimiterTypeOK, BuyerType
<1>4. /\ buyer[b].pc = "readEngine"
      /\ engineUsed' = [engineUsed EXCEPT ![q] = EngineDecayed(q).used]
      /\ engineAt' = [engineAt EXCEPT ![q] = EngineDecayed(q).at]
      /\ UNCHANGED <<now, restVars, engineRepeated>>
      /\ refused => /\ buyer' = [buyer EXCEPT ![b] = AtRest]
                    /\ UNCHANGED engineOwed
      /\ ~refused => /\ buyer' = [buyer EXCEPT ![b] =
                          [@ EXCEPT !.pc = "writeEngine", !.projected = projected]]
                     /\ engineOwed' = [engineOwed EXCEPT ![q] =
                          @ + TicksPerPoint * buyer[b].call.engine]
                     /\ \A c \in Buyers : ~(buyer[c].pc = "writeEngine" /\ buyer[c].pair = q)
  BY <1>0 DEF ReadEngine
<1> HIDE DEF projected, refused
<1>5. /\ \A c \in Buyers : c # b => buyer'[c] = buyer[c]
      /\ refused => buyer'[b].pc = "idle"
      /\ ~refused => /\ buyer'[b].pc = "writeEngine"
                     /\ buyer'[b].pair = q
                     /\ buyer'[b].projected = projected
  <2>1. buyer \in [Buyers -> BuyerType]
    BY <1>3 DEF LimiterTypeOK
  <2>2. CASE refused
    BY <1>4, <2>1, <2>2 DEF AtRest
  <2>3. CASE ~refused
    <3>1. buyer' = [buyer EXCEPT ![b] =
                      [buyer[b] EXCEPT !.pc = "writeEngine", !.projected = projected]]
      BY <1>4, <2>3
    <3>2. /\ \A c \in Buyers : c # b => buyer'[c] = buyer[c]
          /\ buyer'[b] = [buyer[b] EXCEPT !.pc = "writeEngine", !.projected = projected]
      BY <2>1, <3>1
    <3> QED
      BY <1>0, <1>3, <2>3, <3>2 DEF BuyerType
  <2> QED
    BY <2>2, <2>3
<1>6. RestCovered'
  <2>1. \A c \in Buyers : /\ buyer'[c].pc = "writeRest" <=> buyer[c].pc = "writeRest"
                          /\ buyer[c].pc = "writeRest" => buyer'[c] = buyer[c]
    BY <1>4, <1>5
  <2>2. RestDecayed' = RestDecayed
    BY <1>4 DEF RestDecayed, restVars
  <2> QED
    BY <1>2, <1>4, <2>1, <2>2 DEF RestCovered, restVars
<1>7. ASSUME NEW p \in TradedPairs, p # q
      PROVE  EngineCovered(p)'
  <2>1. /\ engineUsed'[p] = engineUsed[p] /\ engineAt'[p] = engineAt[p]
        /\ engineOwed'[p] = engineOwed[p]
    BY <1>3, <1>4, <1>7 DEF LimiterTypeOK
  <2>2. ~(buyer[b].pc = "writeEngine" /\ buyer[b].pair = p)
    BY <1>4
  <2>3. ~(buyer'[b].pc = "writeEngine" /\ buyer'[b].pair = p)
    BY <1>5, <1>7
  <2> QED
    BY <1>2, <1>4, <1>5, <2>1, <2>2, <2>3 DEF EngineCovered, AccountCovers
<1>8. EngineCovered(q)'
  <2>1. CASE \E c \in Buyers : buyer[c].pc = "writeEngine" /\ buyer[c].pair = q
    <3>1. refused
      BY <1>4, <2>1
    <3>2. buyer'[b].pc = "idle" /\ engineOwed' = engineOwed
      BY <1>4, <1>5, <3>1
    <3>3. \A c \in Buyers :
            /\ buyer'[c].pc = "writeEngine" <=> buyer[c].pc = "writeEngine"
            /\ buyer[c].pc = "writeEngine" => buyer'[c] = buyer[c]
      BY <1>4, <1>5, <3>2
    <3> QED
      BY <1>2, <1>3, <1>4, <2>1, <3>2, <3>3 DEF EngineCovered
  <2>2. CASE ~\E c \in Buyers : buyer[c].pc = "writeEngine" /\ buyer[c].pair = q
    <3>1. AccountCovers(q)
      BY <1>2, <1>3, <2>2 DEF EngineCovered
    <3>2. /\ engineOwed[q] <= TicksPerPoint * EngineDecayed(q).used + engineRepeated[q]
          /\ engineOwed[q] <= Floor0(TicksPerPoint * EngineDecayed(q).used
                                       - (now - EngineDecayed(q).at)) + engineRepeated[q]
      BY <1>3, <3>1, EngineSettled
    <3>3. /\ engineUsed'[q] = EngineDecayed(q).used /\ engineAt'[q] = EngineDecayed(q).at
          /\ engineAt'[q] # Never
      BY <1>3, <1>4 DEF LimiterTypeOK, Never
    <3>4. CASE refused
      <4>1. \A c \in Buyers : ~(buyer'[c].pc = "writeEngine" /\ buyer'[c].pair = q)
        BY <1>5, <2>2, <3>4
      <4> QED
        BY <1>4, <3>2, <3>3, <3>4, <4>1 DEF EngineCovered, AccountCovers
    <3>5. CASE ~refused
      <4>1. /\ buyer'[b].pc = "writeEngine" /\ buyer'[b].pair = q
            /\ buyer'[b].projected = projected
        BY <1>5, <3>5
      <4>2. \A c \in Buyers : buyer'[c].pc = "writeEngine" /\ buyer'[c].pair = q => c = b
        BY <1>5, <2>2
      <4>3. engineOwed'[q] = engineOwed[q] + TicksPerPoint * buyer[b].call.engine
        BY <1>3, <1>4, <3>5 DEF LimiterTypeOK
      <4>4. TicksPerPoint * projected
              = TicksPerPoint * EngineDecayed(q).used + TicksPerPoint * buyer[b].call.engine
        BY <1>3, LimiterAssumption DEF projected
      <4>5. /\ TicksPerPoint * EngineDecayed(q).used \in Nat
            /\ TicksPerPoint * buyer[b].call.engine \in Nat /\ engineOwed[q] \in Nat
            /\ engineRepeated[q] \in Nat
        BY <1>3, LimiterAssumption, Products DEF LimiterTypeOK
      <4>6. engineOwed'[q] <= TicksPerPoint * buyer'[b].projected + engineRepeated'[q]
        BY <1>4, <3>2, <4>1, <4>3, <4>4, <4>5
      <4> QED
        BY <4>1, <4>2, <4>6 DEF EngineCovered
    <3> QED
      BY <3>4, <3>5
  <2> QED
    BY <2>1, <2>2
<1> QED
  BY <1>6, <1>7, <1>8

\* Writing it puts what was read and charged in the account.
LEMMA CoveredWriteEngine ==
  ASSUME LimiterInv, NEW b \in Buyers, WriteEngine(b)
  PROVE  Covered'
<1> SUFFICES ASSUME ~overlapped'
             PROVE  RestCovered' /\ \A p \in TradedPairs : EngineCovered(p)'
  BY DEF Covered
<1>0. PICK q \in TradedPairs : buyer[b].pair = q
  BY DEF LimiterInv, TypeInv, LimiterTypeOK, BuyerType
<1>1. RestCovered /\ \A p \in TradedPairs : EngineCovered(p)
  BY DEF WriteEngine, LimiterInv, Covered
<1>2. LimiterTypeOK /\ buyer[b].projected \in Nat
  BY DEF LimiterInv, TypeInv, LimiterTypeOK, BuyerType
<1>3. /\ buyer[b].pc = "writeEngine" /\ buyer'[b].pc = "sending"
      /\ \A c \in Buyers : c # b => buyer'[c] = buyer[c]
      /\ engineUsed' = [engineUsed EXCEPT ![q] = buyer[b].projected]
      /\ engineAt' = [engineAt EXCEPT ![q] = now]
      /\ UNCHANGED <<now, restVars, engineOwed, engineRepeated>>
  BY <1>0, <1>2 DEF WriteEngine, LimiterTypeOK, BuyerType
<1>4. RestCovered'
  <2>1. \A c \in Buyers : /\ buyer'[c].pc = "writeRest" <=> buyer[c].pc = "writeRest"
                          /\ buyer[c].pc = "writeRest" => buyer'[c] = buyer[c]
    BY <1>3
  <2>2. RestDecayed' = RestDecayed
    BY <1>3 DEF RestDecayed, restVars
  <2> QED
    BY <1>1, <1>3, <2>1, <2>2 DEF RestCovered, restVars
<1>5. ASSUME NEW p \in TradedPairs, p # q
      PROVE  EngineCovered(p)'
  <2>1. engineUsed'[p] = engineUsed[p] /\ engineAt'[p] = engineAt[p]
    BY <1>2, <1>3, <1>5 DEF LimiterTypeOK
  <2> QED
    BY <1>0, <1>1, <1>3, <1>5, <2>1 DEF EngineCovered, AccountCovers
<1>6. EngineCovered(q)'
  <2>1. /\ engineOwed[q] <= TicksPerPoint * buyer[b].projected + engineRepeated[q]
        /\ \A c \in Buyers : buyer[c].pc = "writeEngine" /\ buyer[c].pair = q => b = c
    BY <1>0, <1>1, <1>3 DEF EngineCovered
  <2>2. \A c \in Buyers : ~(buyer'[c].pc = "writeEngine" /\ buyer'[c].pair = q)
    BY <1>3, <2>1
  <2>3. engineUsed'[q] = buyer[b].projected /\ engineAt'[q] = now /\ now # Never
    BY <1>2, <1>3 DEF LimiterTypeOK, Never
  <2>4. TicksPerPoint * buyer[b].projected \in Nat /\ now \in Nat
    BY <1>2, LimiterAssumption, Products DEF LimiterTypeOK
  <2>5. engineOwed[q] <= Floor0(TicksPerPoint * buyer[b].projected - (now - now))
                           + engineRepeated[q]
    BY <2>1, <2>4 DEF Floor0
  <2> QED
    BY <1>3, <2>2, <2>3, <2>5 DEF EngineCovered, AccountCovers
<1> QED
  BY <1>4, <1>5, <1>6

\* A request sent again is owed and counted as sent again, by the same amount.
LEMMA CoveredRepeat ==
  ASSUME LimiterInv, NEW b \in Buyers, Repeat(b)
  PROVE  Covered'
<1> SUFFICES ASSUME ~overlapped'
             PROVE  RestCovered' /\ \A p \in TradedPairs : EngineCovered(p)'
  BY DEF Covered
<1>0. PICK q \in TradedPairs : buyer[b].pair = q
  BY DEF LimiterInv, TypeInv, LimiterTypeOK, BuyerType
<1> DEFINE cost == buyer[b].call.rest
           points == TicksPerPoint * buyer[b].call.engine
<1>1. RestCovered /\ \A p \in TradedPairs : EngineCovered(p)
  BY DEF Repeat, LimiterInv, Covered
<1>2. LimiterTypeOK
  BY DEF LimiterInv, TypeInv
<1>3. cost \in Nat /\ points \in Nat /\ TicksPerPoint \in Nat
  <2>1. buyer[b].call \in KrakenCalls
    BY <1>2 DEF LimiterTypeOK, BuyerType
  <2> QED
    BY <2>1, CallsType, LimiterAssumption, Products
<1>4. /\ restOwed' = restOwed + cost /\ restRepeated' = restRepeated + cost
      /\ \A p \in TradedPairs :
           LET more == IF p = q THEN points ELSE 0
           IN /\ engineOwed'[p] = engineOwed[p] + more
              /\ engineRepeated'[p] = engineRepeated[p] + more
      /\ UNCHANGED <<now, restUsed, restAt, engineUsed, engineAt>>
  BY <1>0, <1>2 DEF Repeat, LimiterTypeOK
<1>5. \A c \in Buyers : /\ buyer'[c].pc = buyer[c].pc
                        /\ buyer[c].pc # "sending" => buyer'[c] = buyer[c]
  BY <1>2 DEF Repeat, LimiterTypeOK, BuyerType
<1> HIDE DEF cost, points
<1>6. RestCovered'
  <2>1. RestDecayed' = RestDecayed /\ RestDecayed \in Nat
    BY <1>2, <1>4, RestDecayedType DEF RestDecayed
  <2>2. restOwed \in Nat /\ restRepeated \in Nat /\ \A c \in Buyers : buyer[c].projected \in Nat
    BY <1>2 DEF LimiterTypeOK, BuyerType
  <2> QED
    BY <1>1, <1>3, <1>4, <1>5, <2>1, <2>2 DEF RestCovered
<1>7. ASSUME NEW p \in TradedPairs
      PROVE  EngineCovered(p)'
  <2> DEFINE more == IF p = q THEN points ELSE 0
  <2>1. /\ engineOwed'[p] = engineOwed[p] + more /\ engineRepeated'[p] = engineRepeated[p] + more
        /\ more \in Nat /\ engineOwed[p] \in Nat /\ engineRepeated[p] \in Nat
    BY <1>2, <1>3, <1>4 DEF LimiterTypeOK
  <2>2. \A x \in Int : engineOwed[p] <= x + engineRepeated[p]
                         => engineOwed'[p] <= x + engineRepeated'[p]
    BY <2>1
  <2>3. AccountCovers(p) => AccountCovers(p)'
    <3>1. engineAt[p] # Never =>
            Floor0(TicksPerPoint * engineUsed[p] - (now - engineAt[p])) \in Int
      BY <1>2, <1>3, Products DEF LimiterTypeOK, Floor0
    <3> HIDE DEF more
    <3> QED
      BY <1>4, <2>1, <2>2, <3>1 DEF AccountCovers
  <2>4. \A c \in Buyers : TicksPerPoint * buyer[c].projected \in Int
    BY <1>2, <1>3, Products DEF LimiterTypeOK, BuyerType
  <2> QED
    BY <1>1, <1>5, <2>2, <2>3, <2>4 DEF EngineCovered
<1> QED
  BY <1>6, <1>7

\* A call that is over leaves the accounts as they were.
LEMMA CoveredSent ==
  ASSUME LimiterInv, NEW b \in Buyers, Sent(b)
  PROVE  Covered'
<1>1. \A c \in Buyers :
        /\ buyer'[c].pc \in {"writeRest", "writeEngine"} \/ buyer[c].pc \in {"writeRest", "writeEngine"}
             => buyer'[c] = buyer[c]
  BY DEF Sent, AtRest, LimiterInv, TypeInv, LimiterTypeOK
<1> QED
  BY <1>1 DEF Sent, LimiterInv, Covered, RestCovered, RestDecayed, EngineCovered, AccountCovers,
     restVars, engineVars

\* Every step keeps the inductive invariant.
LEMMA LimiterStep == LimiterInv /\ [LimiterNext]_limiterVars => LimiterInv'
<1> SUFFICES ASSUME LimiterInv, [LimiterNext]_limiterVars
             PROVE  LimiterInv'
  OBVIOUS
<1>1. TypeInv'
  BY TypeStep DEF LimiterInv
<1>2. CASE UNCHANGED limiterVars
  BY <1>1, <1>2 DEF limiterVars, restVars, engineVars, LimiterInv, Covered, RestCovered,
     EngineCovered, AccountCovers, RestDecayed
<1>3. CASE LimiterNext
  BY <1>1, <1>3, CoveredTick, CoveredReadRest, CoveredWriteRest, CoveredReadEngine,
     CoveredWriteEngine, CoveredRepeat, CoveredSent DEF LimiterNext, LimiterInv
<1> QED
  BY <1>2, <1>3

\* What is covered by accounts within their budgets is within the policy.
LEMMA CoveredWithinPolicy == LimiterInv => WithinPolicy
<1> SUFFICES ASSUME LimiterInv, ~overlapped
             PROVE  /\ restOwed <= RestMax + restRepeated
                    /\ \A p \in TradedPairs :
                         engineOwed[p] <= TicksPerPoint * EngineMax + engineRepeated[p]
  BY DEF WithinPolicy
<1>1. RestCovered /\ \A p \in TradedPairs : EngineCovered(p)
  BY DEF LimiterInv, Covered
<1>2. LimiterTypeOK /\ Checked
  BY DEF LimiterInv, TypeInv
<1>3. restOwed <= RestMax + restRepeated
  <2>1. RestDecayed \in 0..RestMax
    BY <1>2, RestDecayedType
  <2>2. CASE \E b \in Buyers : buyer[b].pc = "writeRest"
    <3>1. PICK b \in Buyers : buyer[b].pc = "writeRest"
      BY <2>2
    <3>2. restOwed <= buyer[b].projected + restRepeated /\ buyer[b].projected <= RestMax
      BY <1>1, <1>2, <3>1 DEF RestCovered, Checked
    <3> QED
      BY <1>2, <3>2, LimiterAssumption DEF LimiterTypeOK, BuyerType
  <2>3. CASE ~\E b \in Buyers : buyer[b].pc = "writeRest"
    BY <1>1, <1>2, <2>1, <2>3, LimiterAssumption DEF RestCovered, LimiterTypeOK
  <2> QED
    BY <2>2, <2>3
<1>4. ASSUME NEW p \in TradedPairs
      PROVE  engineOwed[p] <= TicksPerPoint * EngineMax + engineRepeated[p]
  <2>1. \A x \in 0..EngineMax : TicksPerPoint * x \in Nat
                                /\ TicksPerPoint * x <= TicksPerPoint * EngineMax
    BY LimiterAssumption
  <2>2. /\ engineOwed[p] \in Nat /\ engineRepeated[p] \in Nat
        /\ TicksPerPoint * EngineMax \in Nat
    BY <1>2, LimiterAssumption, Products DEF LimiterTypeOK
  <2>3. CASE \E b \in Buyers : buyer[b].pc = "writeEngine" /\ buyer[b].pair = p
    <3>1. PICK b \in Buyers : buyer[b].pc = "writeEngine" /\ buyer[b].pair = p
      BY <2>3
    <3>2. /\ engineOwed[p] <= TicksPerPoint * buyer[b].projected + engineRepeated[p]
          /\ buyer[b].projected \in 0..EngineMax
      BY <1>1, <1>2, <3>1 DEF EngineCovered, Checked, LimiterTypeOK, BuyerType
    <3> QED
      BY <2>1, <2>2, <3>2
  <2>4. CASE ~\E b \in Buyers : buyer[b].pc = "writeEngine" /\ buyer[b].pair = p
    <3>1. /\ engineUsed[p] \in 0..EngineMax
          /\ engineAt[p] # Never => now - engineAt[p] \in Nat
      BY <1>2 DEF LimiterTypeOK
    <3>2. AccountCovers(p)
      BY <1>1, <2>4 DEF EngineCovered
    <3>3. engineOwed[p] <= TicksPerPoint * engineUsed[p] + engineRepeated[p]
      BY <2>1, <2>2, <3>1, <3>2 DEF AccountCovers, Floor0
    <3> QED
      BY <2>1, <2>2, <3>1, <3>3
  <2> QED
    BY <2>3, <2>4
<1> QED
  BY <1>3, <1>4

\* The lazily settled accounts never let the bot overdraw the budgets of the
\* exchange, settled tick by tick, by more than its transport sent again without
\* paying for it, unless two threads overlapped on an account.
THEOREM PolicyKept == LimiterSpec => []WithinPolicy
<1>1. LimiterInit => LimiterInv
  BY TypeInit, CoveredInit DEF LimiterInv
<1> QED
  BY <1>1, LimiterStep, CoveredWithinPolicy, PTL DEF LimiterSpec

-----------------------------------------------------------------------------
(***************************************************************************)
(* The feed keeps its subscriptions and a fill is announced once, for any  *)
(* pairs, orders and number of faults.  The invariant is in two halves.    *)
(* Connection says which moments of the reader, run_once and the connection*)
(* go together; Once adds what inbox and poller may still announce, which  *)
(* the poller's sets give only together with the place its loop is at.     *)
(***************************************************************************)

FeedTyped ==
  /\ orders \in [FeedOrders -> {"open", "executed", "cancelled"}]
  /\ announced \in [FeedOrders -> Nat]
  /\ served \in [pairs : SUBSET FeedPairs, executions : BOOLEAN]
  /\ pairs \subseteq FeedPairs /\ believed \subseteq FeedPairs
  /\ token \in BOOLEAN /\ ready \in BOOLEAN

\* Until the first connection, and while it is made, there is no reader, no poller
\* loop and nothing to restore; while the reader is away from the connection the state says
\* so, and nobody subscribes.
Places ==
  /\ state = "DISCONNECTED" /\ main = "idle" => reader = "none"
  /\ main = "connecting" => reader = "none" /\ state = "CONNECTING"
  /\ reader = "none" /\ main # "stopped" =>
       believed = {} /\ ~ready /\ state # "CONNECTED" /\ ticker = "off" /\ polling = "off"
  /\ reader \in {"sleeping", "connecting", "restored"} => state = "RECONNECTING"

\* What is restored covers what run_once believes, and what is restored is sent.
Restoring ==
  /\ believed \subseteq pairs /\ (ready => token)
  /\ reader = "restored" /\ socket = "open" =>
       pairs \subseteq served.pairs /\ (token => served.executions)

\* Kraken sends executions only to a connection that is up, or just restored.
Serving ==
  /\ state = "CONNECTED" => polling = "off" /\ known = {}
  /\ served.executions => state = "CONNECTED" \/ reader = "restored"

Connection == FeedTyped /\ Places /\ Restoring /\ Serving /\ SubscriptionsKept

\* The orders the poller will announce once they are no longer open.
Due == IF polling = "announcing" THEN vanished \cup polled ELSE known

Announcing ==
  /\ \A o \in FeedOrders : orders[o] = "open" => announced[o] = 0 /\ o \notin inbox
  /\ polling = "announcing" =>
       /\ vanished \cap polled = {}
       /\ \A o \in FeedOrders \cap vanished : orders[o] # "open"

\* Of an announcement made, one in the inbox and one of the poller, there is one.
OneOfThem ==
  \A o \in FeedOrders \ exposed :
    /\ announced[o] <= 1
    /\ announced[o] = 1 => o \notin inbox /\ o \notin Due
    /\ o \in inbox => o \notin Due

Once == Announcing /\ OneOfThem

-----------------------------------------------------------------------------
LEMMA ConnectionInit == FeedInit => Connection
<1> SUFFICES ASSUME FeedInit PROVE Connection
  OBVIOUS
<1>1. FeedTyped
  BY DEF FeedInit, NothingServed, FeedTyped
<1>2. Places /\ Restoring /\ Serving /\ SubscriptionsKept
  BY DEF FeedInit, PollerInit, NothingServed, Places, Restoring, Serving, SubscriptionsKept
<1> QED BY <1>1, <1>2 DEF Connection

\* Whichever way SetState goes, a connected feed has its poller off.
LEMMA PollerSwitched ==
  ASSUME NEW s, NEW keep \in BOOLEAN, SetState(s, keep)
  PROVE  /\ state' = s
         /\ s = "CONNECTED" => polling' = "off" /\ known' = {}
BY DEF SetState, Activate, Deactivate

\* Shutdown leaves nothing that is read or served.
LEMMA ShutdownKeeps ==
  ASSUME Shutdown, pairs' \subseteq FeedPairs, believed' \subseteq FeedPairs,
         believed' \subseteq pairs', ready' => token',
         token' \in BOOLEAN, ready' \in BOOLEAN, Connection
  PROVE  Connection'
BY DEF Shutdown, SetState, Deactivate, NothingServed, Connection, FeedTyped, Places,
       Restoring, Serving, SubscriptionsKept

LEMMA ConnectionStep == Connection /\ [FeedNext]_feedVars => Connection'
<1> SUFFICES ASSUME Connection, [FeedNext]_feedVars PROVE Connection'
  OBVIOUS
<1> USE DEF Connection, FeedTyped, Places, Restoring, Serving, SubscriptionsKept
<1>1. CASE Connect
  BY <1>1 DEF Connect, SetState, Activate, Deactivate, subVars, exchVars
<1>2. CASE ConnectRefused
  BY <1>2 DEF ConnectRefused, SetState, Activate, Deactivate, subVars, exchVars
<1>3. CASE ConnectSucceeds
  BY <1>3 DEF ConnectSucceeds, SetState, Activate, Deactivate, subVars, exchVars
<1>4. ASSUME NEW new \in SUBSET FeedPairs, SubscribeTicker(new) PROVE Connection'
  <2>1. CASE Shutdown
    BY <1>4, <2>1, ShutdownKeeps DEF SubscribeTicker
  <2>2. CASE socket = "open" /\ ~Shutdown
    <3>1. /\ state = "CONNECTED" /\ reader # "restored" /\ pairs' = pairs \cup new
          /\ served' = [served EXCEPT !.pairs = @ \cup new]
          /\ believed' = believed \cup new
          /\ UNCHANGED <<connVars, pollVars, exchVars, token, ready>>
      BY <1>4, <2>2 DEF SubscribeTicker
    <3>2. /\ served' \in [pairs : SUBSET FeedPairs, executions : BOOLEAN]
          /\ served'.pairs = served.pairs \cup new /\ served'.executions = served.executions
      BY <3>1
    <3> QED BY <3>1, <3>2 DEF connVars, pollVars, exchVars
  <2>3. CASE socket = "broken" /\ ~Shutdown
    BY <1>4, <2>3 DEF SubscribeTicker, connVars, pollVars, exchVars
  <2> QED BY <1>4, <2>1, <2>2, <2>3 DEF SubscribeTicker
<1>5. CASE SubscribeExecutions
  <2>1. CASE Shutdown
    <3>1. /\ token' = TRUE \/ token' = token
          /\ ready' = TRUE => token' = TRUE
          /\ ready' = TRUE \/ ready' = ready
          /\ token' = TRUE \/ ready' = ready
      BY <1>5 DEF SubscribeExecutions, SendExecutions
    <3>2. UNCHANGED <<pairs, believed>>
      BY <1>5 DEF SubscribeExecutions
    <3> QED BY <2>1, <3>1, <3>2, ShutdownKeeps
  <2>2. CASE socket = "open" /\ ~Shutdown
    <3>1. /\ state = "CONNECTED" /\ reader # "restored" /\ token' = TRUE /\ ready' = TRUE
          /\ served' = [served EXCEPT !.executions = TRUE]
          /\ UNCHANGED <<connVars, pollVars, exchVars, pairs, believed>>
      BY <1>5, <2>2 DEF SubscribeExecutions, SendExecutions
    <3>2. /\ served' \in [pairs : SUBSET FeedPairs, executions : BOOLEAN]
          /\ served'.pairs = served.pairs /\ served'.executions = TRUE
      BY <3>1
    <3>3. token' \in BOOLEAN /\ ready' \in BOOLEAN /\ (ready' => token')
      BY <3>1
    <3>4. FeedTyped' /\ Places' /\ Serving'
      BY <3>1, <3>2, <3>3 DEF connVars, pollVars, exchVars
    <3>5. Restoring' /\ SubscriptionsKept'
      BY <3>1, <3>2, <3>3 DEF connVars, pollVars, exchVars
    <3> QED BY <3>4, <3>5
  <2>3. CASE socket = "broken" /\ ~Shutdown
    <3>1. /\ state = "CONNECTED" /\ token' = TRUE /\ ready' = TRUE
          /\ UNCHANGED <<served, connVars, pollVars, exchVars, pairs, believed>>
      BY <1>5, <2>3 DEF SubscribeExecutions, SendExecutions
    <3>2. token' \in BOOLEAN /\ ready' \in BOOLEAN /\ (ready' => token')
      BY <3>1
    <3>3. FeedTyped' /\ Places' /\ Serving'
      BY <3>1, <3>2 DEF connVars, pollVars, exchVars
    <3>4. Restoring' /\ SubscriptionsKept'
      BY <2>3, <3>1, <3>2 DEF connVars, pollVars, exchVars
    <3> QED BY <3>3, <3>4
  <2>4. Shutdown \/ socket = "open" \/ socket = "broken"
    BY <1>5 DEF SubscribeExecutions, SendExecutions
  <2> QED BY <2>1, <2>2, <2>3, <2>4
<1>6. CASE Reader
  <2>1. CASE Dropped /\ reader = "receiving" /\ announced' \in [FeedOrders -> Nat]
    BY <2>1 DEF Dropped, SetState, Activate, Deactivate, NothingServed
  <2>2. CASE WakeUp
    BY <2>2 DEF WakeUp, SetState, Activate, Deactivate, subVars, exchVars
  <2>3. CASE ReconnectRefused
    BY <2>3 DEF ReconnectRefused, SetState, Activate, Deactivate, subVars, exchVars
  <2>4. CASE Reconnected
    BY <2>4 DEF Reconnected, Restored, pollVars, exchVars
  <2>5. CASE RestoreFails
    BY <2>5 DEF RestoreFails, subVars, pollVars, exchVars
  <2>6. CASE FeedBack
    BY <2>6 DEF FeedBack, SetState, Activate, Deactivate, subVars, exchVars
  <2>7. ASSUME NEW o \in FeedOrders, ReceiveFill(o), ~Dropped PROVE Connection'
    BY <2>7 DEF ReceiveFill, connVars, subVars, pollVars
  <2>8. CASE ReceiveFails
    BY <2>1, <2>8 DEF ReceiveFails
  <2>9. ASSUME NEW o \in FeedOrders, ReceiveFill(o), Dropped PROVE Connection'
    <3>1. reader = "receiving" /\ announced' \in [FeedOrders -> Nat]
      BY <2>9 DEF ReceiveFill
    <3> QED BY <2>1, <2>9, <3>1
  <2> QED BY <1>6, <2>2, <2>3, <2>4, <2>5, <2>6, <2>7, <2>8, <2>9 DEF Reader
<1>7. CASE PollOrders
  BY <1>7 DEF PollOrders, connVars, subVars, exchVars
<1>8. CASE OrderLoopEnds
  BY <1>8 DEF OrderLoopEnds, connVars, subVars
<1>9. CASE TickerLoopEnds
  BY <1>9 DEF TickerLoopEnds, connVars, subVars
<1>10. ASSUME NEW o \in FeedOrders, AnnounceVanished(o) PROVE Connection'
  BY <1>10 DEF AnnounceVanished, connVars, subVars
<1>11. CASE Break
  BY <1>11 DEF Break, NothingServed, pollVars
<1>12. ASSUME NEW o \in FeedOrders, OrderExecutes(o) \/ OrderCancelled(o) PROVE Connection'
  BY <1>12 DEF OrderExecutes, OrderCancelled, connVars, subVars, pollVars
<1>13. CASE UNCHANGED feedVars
  BY <1>13 DEF feedVars, connVars, subVars, pollVars, exchVars
<1> QED
  BY <1>1, <1>2, <1>3, <1>4, <1>5, <1>6, <1>7, <1>8, <1>9, <1>10, <1>11, <1>12, <1>13
  DEF FeedNext

-----------------------------------------------------------------------------
LEMMA OnceInit == FeedInit => Once
BY DEF FeedInit, PollerInit, Once, Announcing, OneOfThem, Due

\* Starting and stopping the poller adds nothing to what it will announce.
LEMMA SwitchedDue ==
  ASSUME NEW s, NEW keep, SetState(s, keep)
  PROVE  /\ Due' \subseteq Due
         /\ polling' = "announcing" =>
              polling = "announcing" /\ vanished' = vanished /\ polled' = polled
BY DEF SetState, Activate, Deactivate, Due

\* Steps that announce nothing and deliver nothing.
LEMMA NothingAnnounced ==
  ASSUME Once, Due' \subseteq Due, UNCHANGED <<announced, orders>>, inbox' \subseteq inbox,
         exposed \subseteq exposed',
         polling' = "announcing" =>
           polling = "announcing" /\ vanished' = vanished /\ polled' = polled
  PROVE  Once'
BY DEF Once, Announcing, OneOfThem

LEMMA OnceStep == Connection /\ Once /\ [FeedNext]_feedVars => Once'
<1> SUFFICES ASSUME Connection, Once, [FeedNext]_feedVars PROVE Once'
  OBVIOUS
<1> DEFINE Switched == \E s, keep : SetState(s, keep)
<1>1. ASSUME Switched, UNCHANGED <<announced, orders, exposed>>, inbox' \subseteq inbox
      PROVE  Once'
  BY <1>1, SwitchedDue, NothingAnnounced
<1>2. ASSUME UNCHANGED pollVars, UNCHANGED <<announced, orders, exposed>>,
             inbox' \subseteq inbox
      PROVE  Once'
  BY <1>2, NothingAnnounced DEF pollVars, Due
<1>3. CASE Connect \/ ConnectRefused \/ ConnectSucceeds
  BY <1>1, <1>3 DEF Connect, ConnectRefused, ConnectSucceeds, exchVars
<1>4. CASE Shutdown
  BY <1>1, <1>4 DEF Shutdown
<1>5. ASSUME NEW new \in SUBSET FeedPairs, SubscribeTicker(new) PROVE Once'
  BY <1>2, <1>4, <1>5 DEF SubscribeTicker, exchVars
<1>6. CASE SubscribeExecutions
  BY <1>2, <1>4, <1>6 DEF SubscribeExecutions, SendExecutions, exchVars
<1>7. CASE ReceiveFails
  BY <1>1, <1>7 DEF ReceiveFails, Dropped
<1>8. CASE WakeUp \/ ReconnectRefused \/ FeedBack
  BY <1>1, <1>8 DEF WakeUp, ReconnectRefused, FeedBack, exchVars
<1>9. CASE Reconnected \/ RestoreFails
  BY <1>2, <1>9 DEF Reconnected, RestoreFails, exchVars
<1>10. ASSUME NEW o \in FeedOrders, ReceiveFill(o) PROVE Once'
  <2>1. /\ o \in inbox /\ orders[o] # "open" /\ announced \in [FeedOrders -> Nat]
        /\ announced' = [announced EXCEPT ![o] = @ + 1] /\ UNCHANGED <<orders, exposed>>
    BY <1>10 DEF ReceiveFill, Dropped, Once, Announcing, Connection, FeedTyped
  <2>2. inbox' \subseteq inbox \ {o}
    BY <1>10 DEF ReceiveFill, Dropped
  <2>3. /\ Due' \subseteq Due
        /\ polling' = "announcing" =>
             polling = "announcing" /\ vanished' = vanished /\ polled' = polled
    BY <1>10, SwitchedDue DEF ReceiveFill, Dropped, pollVars, Due
  <2>4. Announcing'
    BY <2>1, <2>2, <2>3 DEF Once, Announcing
  <2>5. OneOfThem'
    BY <2>1, <2>2, <2>3 DEF Once, OneOfThem
  <2> QED BY <2>4, <2>5 DEF Once
<1>11. CASE PollOrders
  <2>1. /\ polling = "on" /\ Due = known /\ polled' = OpenNow /\ vanished' = known \ OpenNow
        /\ Due' \subseteq known \cup OpenNow
        /\ UNCHANGED <<announced, orders, inbox, exposed>>
    BY <1>11 DEF PollOrders, Due, exchVars
  <2>2. Announcing'
    BY <2>1 DEF Once, Announcing, OpenNow
  <2>3. OneOfThem'
    BY <2>1 DEF Once, OneOfThem, Announcing, OpenNow
  <2> QED BY <2>2, <2>3 DEF Once
<1>12. CASE OrderLoopEnds
  <2>1. /\ polling' = "ended" /\ Due' = known
        /\ UNCHANGED <<announced, orders, inbox>>
        /\ exposed \subseteq exposed' /\ Due' \ exposed' \subseteq Due
    BY <1>12 DEF OrderLoopEnds, Due
  <2> QED BY <2>1 DEF Once, Announcing, OneOfThem
<1>13. CASE TickerLoopEnds
  BY <1>13, NothingAnnounced DEF TickerLoopEnds, Due
<1>14. ASSUME NEW o \in FeedOrders, AnnounceVanished(o) PROVE Once'
  <2>1. /\ polling = "announcing" /\ o \in vanished /\ orders[o] # "open"
        /\ vanished \cap polled = {} /\ announced \in [FeedOrders -> Nat]
        /\ announced' = [announced EXCEPT ![o] = @ + 1]
        /\ vanished' = vanished \ {o} /\ UNCHANGED <<orders, exposed, inbox, polled>>
    BY <1>14 DEF AnnounceVanished, Once, Announcing, Connection, FeedTyped
  <2>2. Due = vanished \cup polled /\ Due' = (vanished \ {o}) \cup polled
    BY <1>14, <2>1 DEF AnnounceVanished, Due
  <2>3. Announcing'
    BY <2>1 DEF Once, Announcing
  <2>4. OneOfThem'
    BY <2>1, <2>2 DEF Once, OneOfThem
  <2> QED BY <2>3, <2>4 DEF Once
<1>15. CASE Break
  BY <1>2, <1>15 DEF Break
<1>16. ASSUME NEW o \in FeedOrders, OrderExecutes(o) PROVE Once'
  <2>1. /\ orders[o] = "open" /\ announced[o] = 0 /\ o \notin inbox
        /\ orders' = [orders EXCEPT ![o] = "executed"]
        /\ orders \in [FeedOrders -> {"open", "executed", "cancelled"}]
        /\ inbox' \subseteq inbox \cup {o} /\ inbox \subseteq inbox'
        /\ exposed \subseteq exposed'
        /\ UNCHANGED <<announced, polling, known, polled, vanished>> /\ Due' = Due
    BY <1>16 DEF OrderExecutes, pollVars, Due, Once, Announcing, Connection, FeedTyped
  <2>2. o \in inbox' => o \in exposed' \/ o \notin Due
    BY <1>16, <2>1 DEF OrderExecutes, Connection, Serving, Due
  <2>3. Announcing'
    BY <2>1 DEF Once, Announcing
  <2>4. OneOfThem'
    BY <2>1, <2>2 DEF Once, OneOfThem
  <2> QED BY <2>3, <2>4 DEF Once
<1>17. ASSUME NEW o \in FeedOrders, OrderCancelled(o) PROVE Once'
  BY <1>17 DEF OrderCancelled, pollVars, Due, Once, Announcing, OneOfThem, Connection, FeedTyped
<1>18. CASE UNCHANGED feedVars
  BY <1>2, <1>18 DEF feedVars, exchVars
<1> QED
  BY <1>3, <1>5, <1>6, <1>7, <1>8, <1>9, <1>10, <1>11, <1>12, <1>13, <1>14, <1>15, <1>16,
     <1>17, <1>18 DEF FeedNext, Reader

-----------------------------------------------------------------------------
(* Theorems *)

\* With any pairs and any number of faults, a connection that is up and read serves
\* what run_once believes it subscribed (_ensure_subscriptions, _restore_subscriptions).
THEOREM SubscriptionsKeptHolds == FeedSpec => []SubscriptionsKept
<1>1. Connection => SubscriptionsKept
  BY DEF Connection
<1> QED BY <1>1, ConnectionInit, ConnectionStep, PTL DEF FeedSpec

\* However often feed and poller take over from each other, an order not exposed is
\* announced once (_handle_message, FallbackPoller._resolve_terminal_fill).
THEOREM AnnouncedOnceHolds == FeedSpec => []AnnouncedOnce
<1>1. Connection /\ Once => AnnouncedOnce
  BY DEF Connection, FeedTyped, Once, OneOfThem, AnnouncedOnce
<1> QED BY <1>1, ConnectionInit, ConnectionStep, OnceInit, OnceStep, PTL DEF FeedSpec

================================================================================
