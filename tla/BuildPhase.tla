----------------------------- MODULE BuildPhase -----------------------------
(***************************************************************************)
(* build/run_phase.py and the parts of build/common.py it stands on: the   *)
(* controller that takes the tasks of a manifest one after the other       *)
(* through an implementing agent, the targeted tests, a review and a       *)
(* commit.  Its memory is a phase state saved to a file at certain points  *)
(* and read again by the next run; a run may be killed between any two     *)
(* steps, and the agent it started may live on.  A person starts the runs, *)
(* writes review decisions, and may touch the files.                       *)
(*                                                                         *)
(* The tasks own disjoint paths.  The call id of an agent is saved only    *)
(* together with the move to the tests, so the branch that picks up the    *)
(* result of an interrupted call by its id is never taken and is left out. *)
(***************************************************************************)
EXTENDS Naturals

CONSTANTS
  Tasks,         \* task ids, in their natural order
  Dependent,     \* the tasks that depend on all tasks before them
  MaxAttempts    \* max_attempts_per_task

ASSUME BuildAssumption == Tasks \subseteq Nat \ {0} /\ MaxAttempts \in Nat \ {0}

VARIABLES
  saved,      \* the phase state file
  phase,      \* the controller's copy of it
  pc, at,     \* what the controller does, and with which task
  manual,     \* --manual-review
  attempt,    \* the directory of each task's latest attempt
  tree,       \* the files each task owns, in the work tree
  commits,    \* how often each task was committed, up to 2: a history
  helped,     \* the tasks a person, or an agent left over, touched since their
              \* commit: a history
  orphans     \* the tasks whose agent outlived its controller

buildVars == <<saved, phase, pc, at, manual, attempt, tree, commits, helped, orphans>>

NoTask == 0

Dependencies(t) == IF t \in Dependent THEN {d \in Tasks : d < t} ELSE {}

NewAttempt == [prompt |-> FALSE, result |-> FALSE, decision |-> "none"]

InitialPhase ==
  [status |-> [t \in Tasks |-> "pending"], resume |-> [t \in Tasks |-> "start"],
   attempts |-> [t \in Tasks |-> 0], exit |-> [t \in Tasks |-> "none"],
   current |-> NoTask, state |-> "pending"]

BuildInit ==
  /\ saved = InitialPhase /\ phase = InitialPhase
  /\ pc = "off" /\ at = NoTask /\ manual = FALSE
  /\ attempt = [t \in Tasks |-> NewAttempt]
  /\ tree = [t \in Tasks |-> "clean"]
  /\ commits = [t \in Tasks |-> 0] /\ helped = {} /\ orphans = {}

-----------------------------------------------------------------------------
(* The phase state *)

Moved(p, t, status, resume) ==
  [p EXCEPT !.status[t] = status, !.resume[t] = resume]

Blocked(p) == [p EXCEPT !.state = "blocked"]

Save(p) == phase' = p /\ saved' = p

Stay == UNCHANGED manual

\* The process ends, and its copies with it.
Leave == pc' = "off" /\ at' = NoTask /\ manual' = FALSE

\* A BuildError or a CommandError: nothing is saved.
Raise == Leave /\ phase' = saved /\ UNCHANGED saved

Dirty(t) == tree[t] # "clean"

Current ==
  {t \in {phase.current} \cap Tasks : phase.status[t] \notin {"done", "failed", "blocked"}}

Ready ==
  {t \in Tasks :
     /\ phase.status[t] \in {"pending", "correcting"}
     /\ phase.attempts[t] < MaxAttempts
     /\ \A d \in Dependencies(t) : phase.status[d] = "done"}

NextReady ==
  IF Current # {} THEN Current ELSE {t \in Ready : \A u \in Ready : t <= u}

outside == <<commits, helped, orphans>>

-----------------------------------------------------------------------------
(* The controller *)

StartRun(byHand) ==
  /\ pc = "off"
  /\ phase' = saved /\ pc' = "loop" /\ manual' = byHand
  /\ UNCHANGED <<saved, at, attempt, tree, outside>>

\* finalize_phase
FinalizePhase(suitePasses) ==
  /\ pc = "loop" /\ NextReady = {}
  /\ IF \E t \in Tasks : phase.status[t] \in {"failed", "blocked"}
       THEN Save(Blocked(phase))
       ELSE IF \E t \in Tasks : phase.status[t] # "done"
              THEN phase' = saved /\ UNCHANGED saved
              ELSE Save([phase EXCEPT !.state = IF suitePasses THEN "done" ELSE "blocked"])
  /\ Leave
  /\ UNCHANGED <<attempt, tree, outside>>

Takes(t) == pc = "loop" /\ t \in NextReady

TakeUpReview(t) ==
  /\ Takes(t) /\ phase.resume[t] = "cc-review"
  /\ pc' = "deciding" /\ at' = t
  /\ UNCHANGED <<saved, phase, manual, attempt, tree, outside>>

\* resume_incomplete_attempt from "pytest"
TakeUpTests(t) ==
  /\ Takes(t) /\ phase.resume[t] = "pytest"
  /\ IF attempt[t].result
       THEN /\ Save(Moved(phase, t, "verifying", "pytest"))
            /\ pc' = "testing" /\ at' = t /\ Stay
       ELSE Raise
  /\ UNCHANGED <<attempt, tree, outside>>

\* resume_incomplete_attempt from "invoke-subagent"
TakeUpAgent(t) ==
  /\ Takes(t) /\ phase.resume[t] = "invoke-subagent"
  /\ \/ /\ Dirty(t)
        /\ Save(Blocked(Moved(phase, t, "blocked", "complete")))
        /\ Leave
     \/ ~Dirty(t) /\ ~attempt[t].prompt /\ Raise
     \/ /\ ~Dirty(t) /\ attempt[t].prompt
        /\ pc' = "invoking" /\ at' = t /\ Stay
        /\ UNCHANGED <<saved, phase>>
  /\ UNCHANGED <<attempt, tree, outside>>

\* mutant: the attempt is not counted
StartedUncounted(t) ==
  [Moved(phase, t, "in-progress", "invoke-subagent") EXCEPT
     !.exit[t] = "none", !.current = t, !.state = "active"]

Started(t) ==
  [Moved(phase, t, "in-progress", "invoke-subagent") EXCEPT
     !.attempts[t] = @ + 1, !.exit[t] = "none", !.current = t, !.state = "active"]

\* run_task_attempt: a fresh task wants its paths clean; a correction goes on
\* with what the attempt before left there.
StartAttempt(t) ==
  /\ Takes(t) /\ phase.resume[t] = "start"
  /\ IF phase.status[t] = "pending" /\ Dirty(t)
       THEN Raise /\ UNCHANGED attempt
       ELSE /\ Save(Started(t))
            /\ attempt' = [attempt EXCEPT ![t] = NewAttempt]
            /\ pc' = "prompting" /\ at' = t /\ Stay
  /\ UNCHANGED <<tree, outside>>

\* prompt_for_task; what the prompt says is left out.
Prompted(a) == [a EXCEPT !.prompt = TRUE]

WritePrompt ==
  /\ pc = "prompting"
  /\ attempt' = [attempt EXCEPT ![at] = Prompted(@)]
  /\ pc' = "invoking"
  /\ UNCHANGED <<saved, phase, at, manual, tree, outside>>

AgentAtWork == pc = "invoking"

AgentWrites ==
  /\ AgentAtWork
  /\ tree' = [tree EXCEPT ![at] = "untested"]
  /\ UNCHANGED <<saved, phase, pc, at, manual, attempt, outside>>

\* Whether the artifacts of the call can be found: it is named by the report, or
\* taken to be the newest one.
ArtifactsFound == BOOLEAN

\* The agent reports success; without the call there is no copy of its result.
AgentCompletes(copied) ==
  /\ AgentAtWork
  /\ attempt' = [attempt EXCEPT ![at].result = copied]
  /\ Save(Moved(phase, at, "verifying", "pytest"))
  /\ pc' = "testing"
  /\ UNCHANGED <<at, manual, tree, outside>>

\* The result is no JSON, or the agent changed too many files (a limit that an
\* invocation taken up again is not held to).
AgentTurnedDown ==
  /\ AgentAtWork
  /\ Raise
  /\ UNCHANGED <<attempt, tree, outside>>

AgentFails ==
  /\ AgentAtWork
  /\ Save(Blocked(Moved(phase, at, "failed", "complete")))
  /\ Leave
  /\ UNCHANGED <<attempt, tree, outside>>

TestExits == {"passed", "failed"}

\* finish_verification: the targeted tests run on what the work tree holds.
RunTests(exit) ==
  /\ pc = "testing"
  /\ tree' = [tree EXCEPT ![at] =
       IF ~Dirty(at) THEN @ ELSE IF exit = "passed" THEN "tested" ELSE "failing"]
  /\ LET p == [phase EXCEPT !.exit[at] = exit] IN
       IF manual
         THEN Save([Moved(p, at, "verifying", "cc-review") EXCEPT
                      !.state = "awaiting-review"]) /\ Leave
         ELSE phase' = p /\ pc' = "reviewing" /\ UNCHANGED <<saved, at, manual>>
  /\ UNCHANGED <<attempt, outside>>

\* What the second agent finds in the change: one that fails, or says nothing
\* that can be read, finds nothing.
ReviewFindings == BOOLEAN

\* auto_review_decision: failing tests, long files or the reviewer's findings.
AutoDecision(exit, findings) ==
  IF exit = "failed" \/ findings THEN "correct" ELSE "approve"

AutoReview(findings) ==
  /\ pc = "reviewing"
  /\ attempt' = [attempt EXCEPT ![at].decision = AutoDecision(phase.exit[at], findings)]
  /\ pc' = "reviewed"
  /\ UNCHANGED <<saved, phase, at, manual, tree, outside>>

SaveReview ==
  /\ pc = "reviewed"
  /\ Save(Moved(phase, at, phase.status[at], "cc-review"))
  /\ pc' = "deciding"
  /\ UNCHANGED <<at, manual, attempt, tree, outside>>

\* process_review_decision, one action per outcome.
AwaitDecision ==
  /\ pc = "deciding" /\ attempt[at].decision = "none"
  /\ Save([phase EXCEPT !.state = "awaiting-review"])
  /\ Leave
  /\ UNCHANGED <<attempt, tree, outside>>

\* mutants: approved against the tests; committed with nothing changed
ApprovableUntested(t) == Dirty(t)
ApprovableUnchanged(t) == phase.exit[t] # "failed"

Approvable(t) == phase.exit[t] # "failed" /\ Dirty(t)

ApproveRefused ==
  /\ pc = "deciding" /\ attempt[at].decision = "approve"
  /\ ~Approvable(at)
  /\ Raise
  /\ UNCHANGED <<attempt, tree, outside>>

Commit ==
  /\ pc = "deciding" /\ attempt[at].decision = "approve" /\ Approvable(at)
  /\ tree' = [tree EXCEPT ![at] = "clean"]
  /\ commits' = [commits EXCEPT ![at] = IF @ = 0 THEN 1 ELSE 2]
  /\ pc' = "committed"
  /\ UNCHANGED <<saved, phase, at, manual, attempt, helped, orphans>>

CommitFails ==
  /\ pc = "deciding" /\ attempt[at].decision = "approve" /\ Approvable(at)
  /\ Raise
  /\ UNCHANGED <<attempt, tree, outside>>

\* Nothing reads the attempt of a finished task again.
RecordCommit ==
  /\ pc = "committed"
  /\ attempt' = [attempt EXCEPT ![at] = NewAttempt]
  /\ Save([Moved(phase, at, "done", "complete") EXCEPT
             !.current = NoTask, !.state = "active"])
  /\ pc' = "loop" /\ at' = NoTask
  /\ UNCHANGED <<manual, tree, outside>>

GiveUpTask ==
  /\ pc = "deciding"
  /\ \/ attempt[at].decision = "fail"
     \/ attempt[at].decision = "correct" /\ phase.attempts[at] >= MaxAttempts
  /\ Save([Blocked(Moved(phase, at, "failed", "complete")) EXCEPT !.current = NoTask])
  /\ Leave
  /\ UNCHANGED <<attempt, tree, outside>>

AskCorrection ==
  /\ pc = "deciding" /\ attempt[at].decision = "correct"
  /\ phase.attempts[at] < MaxAttempts
  /\ Save(Moved(phase, at, "correcting", "start"))
  /\ pc' = "loop" /\ at' = NoTask
  /\ UNCHANGED <<manual, attempt, tree, outside>>

-----------------------------------------------------------------------------
(* The world around it *)

\* The controller is killed, or the runner's own time limit raises
\* subprocess.TimeoutExpired, which nothing catches.  What the agent runs may
\* go on; one agent left over at a time is modelled.
Killed(livesOn) ==
  /\ pc # "off" /\ (livesOn => orphans = {})
  /\ Leave /\ phase' = saved
  /\ orphans' = IF livesOn /\ AgentAtWork THEN orphans \cup {at} ELSE orphans
  /\ UNCHANGED <<saved, attempt, tree, commits, helped>>

Touch(t) ==
  /\ tree' = [tree EXCEPT ![t] =
       IF @ \in {"clean", "tested", "touched"} THEN "touched" ELSE "untested"]
  /\ helped' = IF commits[t] > 0 THEN helped \cup {t} ELSE helped
  /\ UNCHANGED <<saved, phase, pc, at, manual, attempt, commits>>

OrphanWrites(t) == t \in orphans /\ Touch(t) /\ UNCHANGED orphans

OrphanEnds(t) ==
  /\ t \in orphans
  /\ orphans' = orphans \ {t}
  /\ UNCHANGED <<saved, phase, pc, at, manual, attempt, tree, commits, helped>>

PersonEdits(t) == pc = "off" /\ Touch(t) /\ UNCHANGED orphans

PersonDecides(t, decision) ==
  /\ pc = "off" /\ saved.resume[t] = "cc-review"
  /\ attempt' = [attempt EXCEPT ![t].decision = decision]
  /\ helped' = IF commits[t] > 0 THEN helped \cup {t} ELSE helped
  /\ UNCHANGED <<saved, phase, pc, at, manual, tree, commits, orphans>>

-----------------------------------------------------------------------------
\* The agent at work ends, one way or another: the runner limits its time.
AgentEnds ==
  \/ \E copied \in ArtifactsFound : AgentCompletes(copied)
  \/ AgentTurnedDown \/ AgentFails

Controller ==
  \/ \E passes \in BOOLEAN : FinalizePhase(passes)
  \/ \E t \in Tasks : TakeUpReview(t) \/ TakeUpTests(t) \/ TakeUpAgent(t) \/ StartAttempt(t)
  \/ WritePrompt
  \/ AgentEnds
  \/ \E exit \in TestExits : RunTests(exit)
  \/ \E findings \in ReviewFindings : AutoReview(findings)
  \/ SaveReview
  \/ AwaitDecision \/ ApproveRefused \/ Commit \/ CommitFails \/ RecordCommit
  \/ GiveUpTask \/ AskCorrection

BuildNext ==
  \/ \E byHand \in BOOLEAN : StartRun(byHand)
  \/ Controller
  \/ AgentWrites
  \/ \E livesOn \in BOOLEAN : Killed(livesOn)
  \/ \E t \in Tasks :
       \/ OrphanWrites(t) \/ OrphanEnds(t) \/ PersonEdits(t)
       \/ \E decision \in {"approve", "correct", "fail"} : PersonDecides(t, decision)

\* The controller waits for a pytest run, of the targeted tests or of the whole
\* suite: it runs what the agents wrote, and nobody limits its time.
AtTests ==
  \/ pc = "testing"
  \/ pc = "loop" /\ NextReady = {} /\ \A t \in Tasks : phase.status[t] = "done"

\* Of a run that is at its tests nothing is assumed; the agents it calls have a time
\* limit, and git and the files answer.
TimedSteps == ~AtTests /\ Controller

BuildFairness == WF_buildVars(TimedSteps)

BuildSpec == BuildInit /\ [][BuildNext]_buildVars /\ BuildFairness

-----------------------------------------------------------------------------
(* Properties *)

\* What is committed for a task passed its tests, through any number of killed
\* and resumed runs, automatic or manual: only what a person or an agent left
\* over wrote after the tests can slip in.
CommittedIsTested ==
  [][\A t \in Tasks :
       commits'[t] # commits[t] => tree[t] \notin {"untested", "failing"}]_buildVars

\* A run killed between the commit and the save leaves a task that is committed
\* and not recorded: no later run commits it again by itself.
CommittedOnce ==
  [][\A t \in Tasks :
       commits'[t] # commits[t] => commits[t] = 0 \/ t \in helped]_buildVars

\* Every run of the controller comes to an end, whatever the reviewer says, or sits
\* for ever in one run of the tests, which has no timeout: the loop of corrections is
\* bounded by the attempts alone.
EveryRunEnds == pc # "off" ~> (pc = "off" \/ []AtTests)
=============================================================================
