---------------------------- MODULE MCCompanions ----------------------------
(***************************************************************************)
(* What runs, or could run, beside the bot's loop.  The four share no      *)
(* variable: one instance explores each of them alone, which loses no      *)
(* behaviour of any of them.                                               *)
(***************************************************************************)
EXTENDS BuildPhase, Council, Brain, Grid

VARIABLE part    \* the one that moves

\* As TRX/BTC is, while TRX/USD is not.
OnlyCross == BrainAssets \X {"cross"}

Init ==
  /\ part \in {"build", "council", "brain", "grid"}
  /\ BuildInit /\ CouncilInit /\ BrainInit /\ GridInit

BuildStep ==
  part = "build" /\ BuildNext
    /\ UNCHANGED <<part, councilVars, brainVars, gridVars>>
CouncilStep ==
  part = "council" /\ CouncilNext
    /\ UNCHANGED <<part, buildVars, brainVars, gridVars>>
BrainStep ==
  part = "brain" /\ BrainNext
    /\ UNCHANGED <<part, buildVars, councilVars, gridVars>>
GridStep ==
  part = "grid" /\ GridNext
    /\ UNCHANGED <<part, buildVars, councilVars, brainVars>>

Next == BuildStep \/ CouncilStep \/ BrainStep \/ GridStep

\* The fairness of each specification, for the one that moves.
Fairness ==
  /\ WF_buildVars(part = "build" /\ TimedSteps)
  /\ WF_councilVars(part = "council" /\ Broker)
  /\ WF_brainVars(part = "brain" /\ Cycle)
  /\ WF_brainVars(part = "brain" /\ OrdersAge)

Spec ==
  /\ Init /\ [][Next]_<<part, buildVars, councilVars, brainVars, gridVars>>
  /\ Fairness
=============================================================================
