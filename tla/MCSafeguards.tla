---------------------------- MODULE MCSafeguards ----------------------------
(***************************************************************************)
(* What guards the bot: the breaker with two callers, the reconciler, the  *)
(* notes of what does not agree, the tree a restart rebuilds, and the      *)
(* heartbeat with its watchdog.  They share no variable: one instance      *)
(* explores each of them alone, which loses no behaviour of any of them.   *)
(***************************************************************************)
EXTENDS OrderGate, TreeRestart, Reconciler, AnomalyNotes, Healing, TLC

CONSTANTS loop, worker

TwoCallers == {loop, worker}

\* The two callers run the same code, and no other part names them.
CallerSymmetry == Permutations(TwoCallers)

CoinOrOther == [o \in {"looped", "posted", "manual"} |->
                  IF o = "manual" THEN "other" ELSE "coin"]

Reports == [ghosts : 0..1, foreign : 0..1, untracked : SUBSET {"coin"}]

VARIABLE part    \* the one that moves

PartsInit ==
  /\ part \in {"gate", "tree", "reconciler", "notes", "healing"}
  /\ Init /\ TreeInit /\ ReconcilerInit /\ NotesInit /\ HealingInit

GateStep ==
  part = "gate" /\ Next
    /\ UNCHANGED <<part, treeVars, reconcilerVars, noteVars, healingVars>>
TreeStep ==
  part = "tree" /\ TreeNext
    /\ UNCHANGED <<part, vars, reconcilerVars, noteVars, healingVars>>
ReconcilerStep ==
  part = "reconciler" /\ ReconcilerNext
    /\ UNCHANGED <<part, vars, treeVars, noteVars, healingVars>>
NotesStep ==
  part = "notes" /\ NotesNext
    /\ UNCHANGED <<part, vars, treeVars, reconcilerVars, healingVars>>
HealingStep ==
  part = "healing" /\ HealingNext
    /\ UNCHANGED <<part, vars, treeVars, reconcilerVars, noteVars>>

PartsNext == GateStep \/ TreeStep \/ ReconcilerStep \/ NotesStep \/ HealingStep

PartsSpec ==
  /\ PartsInit
  /\ [][PartsNext]_<<part, vars, treeVars, reconcilerVars, noteVars, healingVars>>
=============================================================================
