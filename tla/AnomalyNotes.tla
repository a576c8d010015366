--------------------------- MODULE AnomalyNotes ----------------------------
(***************************************************************************)
(* The two recorders of runtime_loop.py that write what does not agree to  *)
(* cc_memory, which the CC brain reads: the discrepancies of a             *)
(* reconciliation (their numbers, whatever they are) and the rotation trees*)
(* worth other than the portfolio.  Neither writes again, within a window, *)
(* what it wrote last.  Time is counted in ticks of half an hour.          *)
(***************************************************************************)
EXTENDS Integers, FiniteSets, FiniteSetsExt

CONSTANTS
  Discrepancies, \* the contents a discrepancy may have
  NoteWindow,    \* RECONCILIATION_ANOMALY_DEDUPE_WINDOW
  DriftWindow,   \* ROTATION_TREE_DRIFT_DEDUPE_WINDOW
  WalletRoots,   \* the rotation tree's roots
  Worths,        \* what a root, and the portfolio, may be worth
  Tolerance,     \* the drift that is tolerated
  LastTick       \* bound on the time

ASSUME NotesAssumption ==
  /\ {NoteWindow, DriftWindow} \subseteq Nat \ {0} /\ {Tolerance, LastTick} \subseteq Nat
  /\ Worths \subseteq Nat

VARIABLES
  clock,
  noted,       \* _last_recon_anomaly_* and _last_rotation_tree_drift_*
  memory,      \* the last note of each kind in cc_memory
  told         \* what each recorder was last given: a history

noteVars == <<clock, noted, memory, told>>

Nothing == <<>>
NoteKinds == {"discrepancy", "drift"}
NoNotes == [kind \in NoteKinds |-> Nothing]

NotesInit == clock = 0 /\ noted = NoNotes /\ memory = NoNotes /\ told = NoNotes

-----------------------------------------------------------------------------
(* The recorders *)

Windows == [discrepancy |-> NoteWindow, drift |-> DriftWindow]

\* Faulty: whatever was noted lately is not noted again.
NotedLately(kind, content) ==
  noted[kind] # Nothing /\ clock - noted[kind].at < Windows[kind]

Repeated(kind, content) ==
  /\ noted[kind] # Nothing /\ content = noted[kind].content
  /\ clock - noted[kind].at < Windows[kind]

Note(content, stored) == [content |-> content, at |-> clock, stored |-> stored]

\* A write that fails returns 0: _record_reconciliation_anomaly then tries again the
\* next time, _record_rotation_tree_drift does not look.
Record(kind, content) ==
  IF Repeated(kind, content)
    THEN /\ told' = [told EXCEPT ![kind] = Note(content, TRUE)]
         /\ UNCHANGED <<noted, memory>>
    ELSE \/ /\ memory' = [memory EXCEPT ![kind] = Note(content, TRUE)]
            /\ noted' = [noted EXCEPT ![kind] = Note(content, TRUE)]
            /\ told' = [told EXCEPT ![kind] = Note(content, TRUE)]
         \/ /\ kind = "discrepancy"
            /\ told' = [told EXCEPT ![kind] = Nothing]
            /\ UNCHANGED <<noted, memory>>
         \/ /\ kind = "drift"
            /\ noted' = [noted EXCEPT ![kind] = Note(content, FALSE)]
            /\ told' = [told EXCEPT ![kind] = Note(content, TRUE)]
            /\ UNCHANGED memory

-----------------------------------------------------------------------------
(* What they are given *)

Unpriced == -1

\* _compute_rotation_tree_value_details, for roots of which _root_usd_price may
\* find no price, not even an old one.
TreeValue(worth) ==
  MapThenSumSet(LAMBDA root : worth[root], {root \in DOMAIN worth : worth[root] # Unpriced})

\* _build_dashboard_state: the roots no longer in the wallet are pruned, the others
\* valued, and _record_rotation_tree_drift told what the portfolio does not explain.
Dashboard(worth, pruned, portfolio) ==
  LET difference == TreeValue(worth) - portfolio
  IN /\ difference > Tolerance \/ difference < -Tolerance
     /\ Record("drift", [missing |-> \E root \in DOMAIN worth : worth[root] = Unpriced,
                         roots |-> DOMAIN worth, pruned |-> Cardinality(pruned)])
     /\ UNCHANGED clock

\* _handle_effects of a ReconciliationDiscrepancy.
DiscrepancyReported(content) ==
  /\ Record("discrepancy", content)
  /\ UNCHANGED clock

HalfHourPasses ==
  /\ clock < LastTick
  /\ clock' = clock + 1
  /\ UNCHANGED <<noted, memory, told>>

\* A new process has noted nothing yet.
NotesForgotten ==
  /\ noted' = NoNotes /\ told' = NoNotes
  /\ UNCHANGED <<clock, memory>>

NotesNext ==
  \/ HalfHourPasses \/ NotesForgotten
  \/ \E content \in Discrepancies : DiscrepancyReported(content)
  \/ \E live, pruned \in SUBSET WalletRoots, portfolio \in Worths :
       /\ live \cap pruned = {}
       /\ \E worth \in [live -> Worths \cup {Unpriced}] : Dashboard(worth, pruned, portfolio)

-----------------------------------------------------------------------------
(* Properties *)

\* The notes in memory are up to date: each recorder's last note tells what it was
\* last given, and is younger than its window, unless writing it failed.  A failed
\* note of a drift is not written again while the drift lasts, within its window.
AnomalyOnRecord ==
  \A kind \in NoteKinds :
    told[kind] # Nothing =>
      \/ /\ memory[kind] # Nothing /\ memory[kind].content = told[kind].content
         /\ told[kind].at - memory[kind].at < Windows[kind]
      \/ kind = "drift" /\ ~noted[kind].stored
=============================================================================
