-------------------------- MODULE AtMostOnceCalls --------------------------
(***************************************************************************)
(* What a call to the exchange promises its caller, whatever the network   *)
(* and the retries do: the last request of the call, the one that places,  *)
(* cancels or reads, is carried out at most once; the caller is told "done"*)
(* only when it was; "failed" says nothing, and the request may even be    *)
(* carried out after the caller was told.  One exception to the latter:    *)
(* when a call is done, every call that had failed before it was asked is  *)
(* settled for good.                                                       *)
(***************************************************************************)
EXTENDS Naturals

CONSTANT Calls

VARIABLES
  told,     \* what the caller of each call was told so far
  effects,  \* how many times the last request of each call was carried out
  before    \* the calls that had failed when each call was asked

Answers == {"unasked", "asked", "done", "failed"}

CallsInit ==
  /\ told = [k \in Calls |-> "unasked"]
  /\ effects = [k \in Calls |-> 0]
  /\ before = [k \in Calls |-> {}]

Failed == {k \in Calls : told[k] = "failed"}

Ask(k) ==
  /\ told[k] = "unasked"
  /\ told' = [told EXCEPT ![k] = "asked"]
  /\ before' = [before EXCEPT ![k] = Failed]
  /\ UNCHANGED effects

Settled(k) == \E q \in Calls : told[q] = "done" /\ k \in before[q]

TakeEffect(k) ==
  /\ told[k] # "unasked"
  /\ effects[k] = 0
  /\ ~Settled(k)
  /\ effects' = [effects EXCEPT ![k] = 1]
  /\ UNCHANGED <<told, before>>

Done(k) ==
  /\ told[k] = "asked"
  /\ effects[k] = 1
  /\ told' = [told EXCEPT ![k] = "done"]
  /\ UNCHANGED <<effects, before>>

\* One call fails, or, when the process dies, all that were asked.
Fail(K) ==
  /\ \A k \in K : told[k] = "asked"
  /\ told' = [k \in Calls |-> IF k \in K THEN "failed" ELSE told[k]]
  /\ UNCHANGED <<effects, before>>

CallsNext ==
  \/ \E k \in Calls : Ask(k) \/ TakeEffect(k) \/ Done(k)
  \/ \E K \in SUBSET Calls : Fail(K)

CallsSpec == CallsInit /\ [][CallsNext]_<<told, effects, before>>
=============================================================================
