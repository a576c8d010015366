----------------------------- MODULE MCExchange -----------------------------
(***************************************************************************)
(* The link, the limiter and the feed share no variable: one instance      *)
(* explores each of them alone, which loses no behaviour of any of them.   *)
(***************************************************************************)
EXTENDS ExchangeLink, RateLimiter, FeedLink

VARIABLE part    \* the one that moves

Init ==
  /\ part \in {"link", "limiter", "feed"}
  /\ LinkInit /\ LimiterInit /\ FeedInit

LinkStep == part = "link" /\ LinkNext /\ UNCHANGED <<part, limiterVars, feedVars>>
LimiterStep == part = "limiter" /\ LimiterNext /\ UNCHANGED <<part, linkVars, feedVars>>
FeedStep == part = "feed" /\ FeedNext /\ UNCHANGED <<part, linkVars, limiterVars>>

Next == LinkStep \/ LimiterStep \/ FeedStep

Spec ==
  /\ Init /\ [][Next]_<<part, linkVars, limiterVars, feedVars>>
  /\ LinkFairness /\ FeedFairness
=============================================================================
