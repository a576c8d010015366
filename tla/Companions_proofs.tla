--------------------------- MODULE Companions_proofs ---------------------------
(***************************************************************************)
(* What is proved of the parts beside the trading: the build phases, the   *)
(* council, the brain, the healing and the grid.  They share nothing, so   *)
(* each part below stands on its own, with an invariant of its own.        *)
(***************************************************************************)
EXTENDS BuildPhase, Council, Brain, Healing, Grid,
        FiniteSetTheorems, SequenceTheorems, TLAPS

-----------------------------------------------------------------------------
(***************************************************************************)
(* What the build controller commits was tested, and is committed once,    *)
(* for any tasks, any number of attempts, and any number of killed runs.   *)
(***************************************************************************)
Statuses == {"pending", "in-progress", "verifying", "correcting", "done", "failed", "blocked"}
Resumes == {"start", "invoke-subagent", "pytest", "cc-review", "complete"}
BuildExits == {"none", "passed", "failed"}
Decisions == {"none", "approve", "correct", "fail"}
PhaseType ==
  [status : [Tasks -> Statuses], resume : [Tasks -> Resumes], attempts : [Tasks -> Nat],
   exit : [Tasks -> BuildExits], current : Tasks \cup {NoTask},
   state : {"pending", "active", "blocked", "awaiting-review", "done"}]
AttemptType == [prompt : BOOLEAN, result : BOOLEAN, decision : Decisions]
Untested == {"untested", "failing"}

BuildTyped ==
  /\ saved \in PhaseType /\ phase \in PhaseType
  /\ at \in Tasks \cup {NoTask}
  /\ attempt \in [Tasks -> AttemptType]
  /\ tree \in [Tasks -> {"clean", "untested", "tested", "failing", "touched"}]
  /\ commits \in [Tasks -> Nat]

\* Where the controller is agrees with where its book says the task is; only
\* between the tests and the review is the book ahead of the file.
PlaceInv ==
  /\ pc \in {"off", "loop"} => at = NoTask
  /\ pc \notin {"off", "loop"} => at \in Tasks /\ phase.status[at] # "done"
  /\ pc \in {"prompting", "invoking"} => phase.resume[at] = "invoke-subagent"
  /\ pc \in {"testing", "reviewing", "reviewed"} => phase.resume[at] = "pytest"
  /\ pc \in {"deciding", "committed"} => phase.resume[at] = "cc-review"
  /\ pc \notin {"reviewing", "reviewed"} => phase = saved

\* A task that awaits its review and whose tests did not fail holds nothing that
\* was not tested, or touched since by a person.
TestedBook(book) ==
  \A t \in Tasks :
    book.resume[t] = "cc-review" /\ book.exit[t] # "failed" => tree[t] \notin Untested
TestedInv ==
  /\ TestedBook(saved) /\ TestedBook(phase)
  /\ pc \in {"reviewing", "reviewed"} /\ phase.exit[at] # "failed" => tree[at] \notin Untested

\* Nothing is promised of a task that is not committed, or was touched since.
Free(t) == commits[t] = 0 \/ t \in helped

\* A task that was committed and left alone is clean, and done or still approved.
Settled(book, t) ==
  \/ book.status[t] = "done"
  \/ book.resume[t] = "cc-review" /\ attempt[t].decision = "approve"
OnceInv ==
  \A t \in Tasks : ~Free(t) =>
    /\ tree[t] = "clean"
    /\ Settled(saved, t) /\ Settled(phase, t)
    /\ at = t => pc \in {"deciding", "committed"}

BuildPhaseInv == BuildTyped /\ PlaceInv /\ TestedInv /\ OnceInv

\* The new book says of every task what the old one did, or has a task on the
\* move that nothing is promised of.
Leads(old, new) ==
  \A t \in Tasks :
    \/ /\ new.status[t] = old.status[t] /\ new.resume[t] = old.resume[t]
       /\ new.exit[t] = old.exit[t]
    \/ new.resume[t] # "cc-review" /\ Free(t)

-----------------------------------------------------------------------------
(* The operators on the book *)

\* No task has the number that stands for none.
LEMMA NoTaskIsNone == NoTask \notin Tasks
BY BuildAssumption DEF NoTask

\* Moving one task changes its status and its step, and nothing else.
LEMMA MovedBook ==
  ASSUME NEW p \in PhaseType, NEW t \in Tasks, NEW status \in Statuses, NEW resume \in Resumes
  PROVE  LET q == Moved(p, t, status, resume) IN
           /\ q \in PhaseType /\ q.exit = p.exit
           /\ q.status = [p.status EXCEPT ![t] = status]
           /\ q.resume = [p.resume EXCEPT ![t] = resume]
           /\ q.attempts = p.attempts
<1>1. Moved(p, t, status, resume) =
        [status |-> [p.status EXCEPT ![t] = status],
         resume |-> [p.resume EXCEPT ![t] = resume], attempts |-> p.attempts,
         exit |-> p.exit, current |-> p.current, state |-> p.state]
  <2>1. Moved(p, t, status, resume) =
          [[p EXCEPT !.status = [p.status EXCEPT ![t] = status]]
             EXCEPT !.resume = [p.resume EXCEPT ![t] = resume]]
    BY DEF Moved, PhaseType
  <2>2. [p EXCEPT !.status = [p.status EXCEPT ![t] = status]] =
          [status |-> [p.status EXCEPT ![t] = status], resume |-> p.resume,
           attempts |-> p.attempts, exit |-> p.exit, current |-> p.current,
           state |-> p.state]
    BY DEF PhaseType
  <2> QED
    BY <2>1, <2>2
<1>2. /\ [p.status EXCEPT ![t] = status] \in [Tasks -> Statuses]
      /\ [p.resume EXCEPT ![t] = resume] \in [Tasks -> Resumes]
  BY DEF PhaseType
<1> QED
  BY <1>1, <1>2 DEF PhaseType

\* The state of the phase and its current task are beside the point.
LEMMA LabelledBook ==
  ASSUME NEW p \in PhaseType,
         NEW current \in Tasks \cup {NoTask},
         NEW state \in {"pending", "active", "blocked", "awaiting-review", "done"}
  PROVE  LET q == [p EXCEPT !.current = current, !.state = state]
             r == [p EXCEPT !.state = state]
         IN /\ q \in PhaseType /\ q.status = p.status /\ q.resume = p.resume /\ q.exit = p.exit
            /\ r \in PhaseType /\ r.status = p.status /\ r.resume = p.resume /\ r.exit = p.exit
<1> DEFINE q == [p EXCEPT !.current = current, !.state = state]
           r == [p EXCEPT !.state = state]
<1>1. /\ q = [status |-> p.status, resume |-> p.resume, attempts |-> p.attempts,
               exit |-> p.exit, current |-> current, state |-> state]
      /\ r = [status |-> p.status, resume |-> p.resume, attempts |-> p.attempts,
               exit |-> p.exit, current |-> p.current, state |-> state]
  <2>1. p = [status |-> p.status, resume |-> p.resume, attempts |-> p.attempts,
             exit |-> p.exit, current |-> p.current, state |-> p.state]
    BY DEF PhaseType
  <2>2. q = [status |-> p.status, resume |-> p.resume, attempts |-> p.attempts,
             exit |-> p.exit, current |-> current, state |-> state]
    <3>1. [p EXCEPT !.current = current] =
            [status |-> p.status, resume |-> p.resume, attempts |-> p.attempts,
             exit |-> p.exit, current |-> current, state |-> p.state]
      BY <2>1
    <3>2. q = [[p EXCEPT !.current = current] EXCEPT !.state = state]
      OBVIOUS
    <3> HIDE DEF q
    <3> QED
      BY <3>1, <3>2
  <2>3. r = [status |-> p.status, resume |-> p.resume, attempts |-> p.attempts,
             exit |-> p.exit, current |-> p.current, state |-> state]
    BY <2>1
  <2> QED
    BY <2>2, <2>3
<1>2. /\ p.status \in [Tasks -> Statuses] /\ p.resume \in [Tasks -> Resumes]
      /\ p.attempts \in [Tasks -> Nat] /\ p.exit \in [Tasks -> BuildExits]
      /\ p.current \in Tasks \cup {NoTask}
  BY DEF PhaseType
<1>3. q \in PhaseType /\ r \in PhaseType
  BY <1>1, <1>2 DEF PhaseType
<1>4. q.status = p.status /\ q.resume = p.resume /\ q.exit = p.exit
  BY <1>1
<1>5. r.status = p.status /\ r.resume = p.resume /\ r.exit = p.exit
  BY <1>1
<1> QED
  BY <1>3, <1>4, <1>5

\* The controller takes up no task that is done.
LEMMA TakesProperties ==
  ASSUME BuildPhaseInv, NEW t, Takes(t)
  PROVE  /\ t \in Tasks /\ phase.status[t] # "done" /\ pc = "loop" /\ phase = saved
         /\ ~Free(t) => phase.resume[t] = "cc-review"
<1>1. t \in Tasks /\ phase.status[t] # "done" /\ pc = "loop"
  BY DEF Takes, NextReady, Current, Ready
<1>2. phase = saved
  BY <1>1 DEF BuildPhaseInv, PlaceInv
<1>3. ~Free(t) => phase.resume[t] = "cc-review"
  BY <1>1 DEF BuildPhaseInv, OnceInv, Settled
<1> QED
  BY <1>1, <1>2, <1>3

\* A step that leaves the files alone, and the books of the tasks that matter.
LEMMA BooksKept ==
  ASSUME BuildPhaseInv, UNCHANGED <<tree, commits, helped>>,
         Leads(saved, saved') \/ Leads(phase, saved'),
         Leads(saved, phase') \/ Leads(phase, phase'),
         \A t \in Tasks : ~Free(t) => attempt'[t].decision = attempt[t].decision,
         \A t \in Tasks : ~Free(t) /\ at' = t => pc' \in {"deciding", "committed"},
         (pc' \in {"reviewing", "reviewed"} /\ phase'.exit[at'] # "failed") =>
           tree[at'] \notin Untested
  PROVE  TestedInv' /\ OnceInv'
<1>1. TestedInv'
  BY DEF BuildPhaseInv, TestedInv, TestedBook, Leads
<1>2. \A t \in Tasks : ~Free(t) => Settled(saved, t)' /\ Settled(phase, t)'
  BY DEF BuildPhaseInv, OnceInv, Settled, Leads
<1>3. OnceInv'
  BY <1>2 DEF BuildPhaseInv, OnceInv, Free
<1> QED
  BY <1>1, <1>3

\* The run is over; what is not saved is lost.
LEMMA GoneStep ==
  ASSUME BuildPhaseInv, pc' = "off", at' = NoTask, phase' = saved,
         UNCHANGED <<saved, attempt, tree, commits, helped>>
  PROVE  BuildPhaseInv'
<1>1. BuildTyped' /\ PlaceInv'
  BY DEF BuildPhaseInv, BuildTyped, PlaceInv
<1>2. Leads(saved, saved') /\ Leads(saved, phase')
  BY DEF Leads
<1>3. TestedInv' /\ OnceInv'
  BY <1>2, NoTaskIsNone, BooksKept
<1> QED
  BY <1>1, <1>3 DEF BuildPhaseInv

\* A book is saved, and the run is over.
LEMMA SavedAndGone ==
  ASSUME BuildPhaseInv, pc' = "off", at' = NoTask, phase' = saved', saved' \in PhaseType,
         Leads(phase, saved'), UNCHANGED <<attempt, tree, commits, helped>>
  PROVE  BuildPhaseInv'
<1>1. BuildTyped' /\ PlaceInv'
  BY DEF BuildPhaseInv, BuildTyped, PlaceInv
<1>2. Leads(phase, phase')
  OBVIOUS
<1>3. TestedInv' /\ OnceInv'
  BY <1>2, NoTaskIsNone, BooksKept
<1> QED
  BY <1>1, <1>3 DEF BuildPhaseInv

\* The controller at work is at a task of its own, with which nothing is
\* promised until its review.
LEMMA AtWork ==
  ASSUME BuildPhaseInv, pc \notin {"off", "loop"}
  PROVE  /\ at \in Tasks /\ phase.status[at] # "done"
         /\ pc \notin {"deciding", "committed"} => Free(at)
BY DEF BuildPhaseInv, PlaceInv, OnceInv

\* What is promised of a task, a task that is put on the move is not among it.
LEMMA MovedLeads ==
  ASSUME BuildPhaseInv, NEW t \in Tasks, Free(t), NEW new \in PhaseType,
         NEW status \in Statuses, NEW resume \in Resumes, resume # "cc-review",
         new.status = [phase.status EXCEPT ![t] = status],
         new.resume = [phase.resume EXCEPT ![t] = resume],
         \A u \in Tasks : u # t => new.exit[u] = phase.exit[u]
  PROVE  Leads(phase, new) /\ new.status[t] = status /\ new.resume[t] = resume
<1>1. phase \in PhaseType
  BY DEF BuildPhaseInv, BuildTyped
<1> QED
  BY <1>1 DEF Leads, PhaseType

-----------------------------------------------------------------------------
(* The controller's actions *)

\* The last look at the tasks ends the run.
LEMMA FinalizeStep == ASSUME BuildPhaseInv, NEW passes \in BOOLEAN, FinalizePhase(passes) PROVE BuildPhaseInv'
<1>1. /\ pc' = "off" /\ at' = NoTask /\ UNCHANGED <<attempt, tree, commits, helped>>
      /\ phase \in PhaseType
  BY DEF FinalizePhase, Leave, outside, BuildPhaseInv, BuildTyped
<1>2. CASE phase' = saved /\ UNCHANGED saved
  BY <1>1, <1>2, GoneStep
<1>3. CASE \E state \in {"blocked", "done"} : Save([phase EXCEPT !.state = state])
  <2>1. PICK state \in {"blocked", "done"} : Save([phase EXCEPT !.state = state])
    BY <1>3
  <2> DEFINE new == [phase EXCEPT !.state = state]
  <2>2. /\ new \in PhaseType /\ new.status = phase.status /\ new.resume = phase.resume
        /\ new.exit = phase.exit
    BY <1>1, LabelledBook
  <2>3. saved' = new /\ phase' = saved'
    BY <2>1 DEF Save
  <2> HIDE DEF new
  <2> QED
    BY <1>1, <2>2, <2>3, SavedAndGone DEF Leads
<1> QED
  BY <1>2, <1>3 DEF FinalizePhase, Blocked

\* An interrupted task is taken up again where the book says.
LEMMA TakeUpStep ==
  ASSUME BuildPhaseInv, NEW t \in Tasks, TakeUpReview(t) \/ TakeUpTests(t) \/ TakeUpAgent(t)
  PROVE  BuildPhaseInv'
<1>1. /\ Takes(t) /\ UNCHANGED <<attempt, tree, commits, helped>>
  BY DEF TakeUpReview, TakeUpTests, TakeUpAgent, outside
<1>2. /\ phase.status[t] # "done" /\ pc = "loop" /\ phase = saved
      /\ ~Free(t) => phase.resume[t] = "cc-review"
  BY <1>1, TakesProperties
<1>3. phase \in PhaseType
  BY DEF BuildPhaseInv, BuildTyped
<1>4. ASSUME UNCHANGED <<saved, phase>>, at' = t,
             \/ pc' = "deciding" /\ phase.resume[t] = "cc-review"
             \/ pc' = "invoking" /\ phase.resume[t] = "invoke-subagent"
      PROVE  BuildPhaseInv'
  <2>1. BuildTyped' /\ PlaceInv'
    BY <1>1, <1>2, <1>4 DEF BuildPhaseInv, BuildTyped, PlaceInv
  <2>2. Leads(saved, saved') /\ Leads(phase, phase')
    BY <1>4 DEF Leads
  <2>3. \A u \in Tasks : ~Free(u) /\ at' = u => pc' \in {"deciding", "committed"}
    BY <1>2, <1>4
  <2>4. pc' \notin {"reviewing", "reviewed"}
    BY <1>4
  <2>5. TestedInv' /\ OnceInv'
    BY <1>1, <2>2, <2>3, <2>4, BooksKept
  <2> QED
    BY <2>1, <2>5 DEF BuildPhaseInv
<1>5. CASE TakeUpReview(t)
  BY <1>4, <1>5 DEF TakeUpReview
<1>6. CASE TakeUpTests(t)
  <2>1. phase.resume[t] = "pytest" /\ Free(t)
    BY <1>2, <1>6 DEF TakeUpTests
  <2>2. CASE attempt[t].result
    <3> DEFINE new == Moved(phase, t, "verifying", "pytest")
    <3>1. saved' = new /\ phase' = new /\ pc' = "testing" /\ at' = t
      BY <1>6, <2>2 DEF TakeUpTests, Save
    <3>2. /\ new \in PhaseType /\ new.exit = phase.exit
          /\ new.status = [phase.status EXCEPT ![t] = "verifying"]
          /\ new.resume = [phase.resume EXCEPT ![t] = "pytest"]
      BY <1>3, MovedBook DEF Statuses, Resumes
    <3> HIDE DEF new
    <3>3. Leads(phase, new) /\ new.status[t] = "verifying" /\ new.resume[t] = "pytest"
      BY <2>1, <3>2, MovedLeads DEF Statuses, Resumes
    <3>4. BuildTyped' /\ PlaceInv'
      BY <1>1, <3>1, <3>2, <3>3 DEF BuildPhaseInv, BuildTyped, PlaceInv
    <3>5. TestedInv' /\ OnceInv'
      BY <1>1, <2>1, <3>1, <3>3, BooksKept
    <3> QED
      BY <3>4, <3>5 DEF BuildPhaseInv
  <2>3. CASE ~attempt[t].result
    BY <1>1, <1>6, <2>3, GoneStep DEF TakeUpTests, Raise, Leave
  <2> QED
    BY <2>2, <2>3
<1>7. CASE TakeUpAgent(t)
  <2>1. phase.resume[t] = "invoke-subagent" /\ Free(t)
    BY <1>2, <1>7 DEF TakeUpAgent
  <2>2. CASE Raise
    BY <1>1, <2>2, GoneStep DEF Raise, Leave
  <2>3. CASE Save(Blocked(Moved(phase, t, "blocked", "complete"))) /\ Leave
    <3> DEFINE moved == Moved(phase, t, "blocked", "complete")
               new == [moved EXCEPT !.state = "blocked"]
    <3>1. saved' = new /\ phase' = new /\ pc' = "off" /\ at' = NoTask
      BY <2>3 DEF Save, Blocked, Leave
    <3>2. /\ moved \in PhaseType /\ moved.exit = phase.exit
          /\ moved.status = [phase.status EXCEPT ![t] = "blocked"]
          /\ moved.resume = [phase.resume EXCEPT ![t] = "complete"]
      BY <1>3, MovedBook DEF Statuses, Resumes
    <3> HIDE DEF moved
    <3>3. /\ new \in PhaseType /\ new.exit = moved.exit
          /\ new.status = moved.status /\ new.resume = moved.resume
      BY <3>2, LabelledBook
    <3> HIDE DEF new
    <3>4. Leads(phase, new)
      <4>1. /\ new.status = [phase.status EXCEPT ![t] = "blocked"]
            /\ new.resume = [phase.resume EXCEPT ![t] = "complete"]
            /\ new.exit = phase.exit
        BY <3>2, <3>3
      <4> QED
        BY <2>1, <3>3, <4>1, MovedLeads DEF Statuses, Resumes
    <3> QED
      BY <1>1, <3>1, <3>3, <3>4, SavedAndGone
  <2>4. CASE pc' = "invoking" /\ at' = t /\ UNCHANGED <<saved, phase>>
    BY <1>4, <2>1, <2>4
  <2> QED
    BY <1>7, <2>2, <2>3, <2>4 DEF TakeUpAgent
<1> QED
  BY <1>5, <1>6, <1>7

\* A new attempt begins with a book that knows nothing of the tests.
LEMMA StartedBook ==
  ASSUME NEW t \in Tasks, phase \in PhaseType
  PROVE  LET new == Started(t) IN
           /\ new \in PhaseType
           /\ new.status = [phase.status EXCEPT ![t] = "in-progress"]
           /\ new.resume = [phase.resume EXCEPT ![t] = "invoke-subagent"]
           /\ new.exit = [phase.exit EXCEPT ![t] = "none"]
<1> DEFINE moved == Moved(phase, t, "in-progress", "invoke-subagent")
           exits == [phase.exit EXCEPT ![t] = "none"]
           counts == [phase.attempts EXCEPT ![t] = @ + 1]
<1>1. /\ moved \in PhaseType /\ moved.exit = phase.exit /\ moved.attempts = phase.attempts
      /\ moved.status = [phase.status EXCEPT ![t] = "in-progress"]
      /\ moved.resume = [phase.resume EXCEPT ![t] = "invoke-subagent"]
  BY MovedBook DEF Statuses, Resumes
<1>2. Started(t) = [[[[moved EXCEPT !.attempts = counts] EXCEPT !.exit = exits]
                       EXCEPT !.current = t] EXCEPT !.state = "active"]
  <2> HIDE DEF moved
  <2>1. [moved EXCEPT !.attempts[t] = @ + 1, !.exit[t] = "none", !.current = t,
                      !.state = "active"] =
        [[[[moved EXCEPT !.attempts = counts] EXCEPT !.exit = exits]
            EXCEPT !.current = t] EXCEPT !.state = "active"]
    BY <1>1 DEF PhaseType
  <2> QED
    BY <2>1 DEF Started, moved
<1>3. exits \in [Tasks -> BuildExits] /\ counts \in [Tasks -> Nat]
  BY DEF PhaseType, BuildExits
<1> HIDE DEF moved, exits, counts
<1>4. PICK counted : counted = [moved EXCEPT !.attempts = counts]
  OBVIOUS
<1>5. counted =
        [status |-> moved.status, resume |-> moved.resume, attempts |-> counts,
         exit |-> moved.exit, current |-> moved.current, state |-> moved.state]
  BY <1>1, <1>4 DEF PhaseType
<1>6. PICK untested : untested = [counted EXCEPT !.exit = exits]
  OBVIOUS
<1>7. untested =
        [status |-> moved.status, resume |-> moved.resume, attempts |-> counts,
         exit |-> exits, current |-> moved.current, state |-> moved.state]
  BY <1>5, <1>6
<1>8. PICK named : named = [untested EXCEPT !.current = t]
  OBVIOUS
<1>9. named =
        [status |-> moved.status, resume |-> moved.resume, attempts |-> counts,
         exit |-> exits, current |-> t, state |-> moved.state]
  BY <1>7, <1>8
<1>10. Started(t) = [named EXCEPT !.state = "active"]
  BY <1>2, <1>4, <1>6, <1>8
<1>11. Started(t) =
        [status |-> moved.status, resume |-> moved.resume, attempts |-> counts,
         exit |-> exits, current |-> t, state |-> "active"]
  BY <1>9, <1>10
<1> QED
  BY <1>1, <1>3, <1>11 DEF PhaseType, exits

\* An attempt begins on clean paths, or is a correction.
LEMMA StartStep == ASSUME BuildPhaseInv, NEW t \in Tasks, StartAttempt(t) PROVE BuildPhaseInv'
<1>1. Takes(t) /\ phase.resume[t] = "start" /\ UNCHANGED <<tree, commits, helped>>
  BY DEF StartAttempt, outside
<1>2. Free(t)
  BY <1>1, TakesProperties
<1>3. CASE phase.status[t] = "pending" /\ Dirty(t)
  BY <1>1, <1>3, GoneStep DEF StartAttempt, Raise, Leave
<1>4. CASE ~(phase.status[t] = "pending" /\ Dirty(t))
  <2> DEFINE new == Started(t)
  <2>1. /\ saved' = new /\ phase' = new /\ pc' = "prompting" /\ at' = t
        /\ attempt' = [attempt EXCEPT ![t] = NewAttempt]
    BY <1>4 DEF StartAttempt, Save
  <2>2. /\ new \in PhaseType
        /\ new.status = [phase.status EXCEPT ![t] = "in-progress"]
        /\ new.resume = [phase.resume EXCEPT ![t] = "invoke-subagent"]
        /\ new.exit = [phase.exit EXCEPT ![t] = "none"]
    BY StartedBook DEF BuildPhaseInv, BuildTyped
  <2> HIDE DEF new
  <2>3. \A u \in Tasks : u # t => new.exit[u] = phase.exit[u]
    BY <2>2 DEF BuildPhaseInv, BuildTyped, PhaseType
  <2>4. /\ Leads(phase, new) /\ new.status[t] = "in-progress"
        /\ new.resume[t] = "invoke-subagent"
    BY <1>2, <2>2, <2>3, MovedLeads DEF Statuses, Resumes
  <2>5. NewAttempt \in AttemptType
    BY DEF NewAttempt, AttemptType, Decisions
  <2>6. attempt' \in [Tasks -> AttemptType]
    BY <2>1, <2>5 DEF BuildPhaseInv, BuildTyped
  <2>7. BuildTyped' /\ PlaceInv'
    BY <1>1, <2>1, <2>2, <2>4, <2>6 DEF BuildPhaseInv, BuildTyped, PlaceInv
  <2>8. \A u \in Tasks : u # t => attempt'[u] = attempt[u]
    BY <2>1 DEF BuildPhaseInv, BuildTyped
  <2>9. TestedInv' /\ OnceInv'
    BY <1>1, <1>2, <2>1, <2>4, <2>8, BooksKept
  <2> QED
    BY <2>7, <2>9 DEF BuildPhaseInv
<1> QED
  BY <1>3, <1>4

\* The prompt is written before the agent starts.
LEMMA PromptStep == BuildPhaseInv /\ WritePrompt => BuildPhaseInv'
<1> SUFFICES ASSUME BuildPhaseInv, WritePrompt
             PROVE  BuildPhaseInv'
  OBVIOUS
<1>1. /\ pc = "prompting" /\ pc' = "invoking"
      /\ attempt' = [attempt EXCEPT ![at] = Prompted(@)]
      /\ UNCHANGED <<saved, phase, at, tree, commits, helped>>
  BY DEF WritePrompt, outside
<1>2. at \in Tasks /\ Free(at)
  BY <1>1, AtWork
<1>3. /\ \A a \in AttemptType : Prompted(a) \in AttemptType
      /\ \A u \in Tasks : u # at => attempt'[u] = attempt[u]
      /\ attempt \in [Tasks -> AttemptType]
  BY <1>1 DEF Prompted, AttemptType, BuildPhaseInv, BuildTyped
<1>4. BuildTyped' /\ PlaceInv'
  BY <1>1, <1>2, <1>3 DEF BuildPhaseInv, BuildTyped, PlaceInv
<1>5. Leads(saved, saved') /\ Leads(phase, phase')
  BY <1>1 DEF Leads
<1>6. TestedInv' /\ OnceInv'
  BY <1>1, <1>2, <1>3, <1>5, BooksKept
<1> QED
  BY <1>4, <1>6 DEF BuildPhaseInv

\* A task with which nothing is promised moves on, and the book is saved.
LEMMA SavedMove ==
  ASSUME BuildPhaseInv, NEW t \in Tasks, Free(t), NEW status \in Statuses, NEW resume \in Resumes,
         resume # "cc-review", saved' = Moved(phase, t, status, resume), phase' = saved',
         UNCHANGED <<tree, commits, helped>>,
         attempt' \in [Tasks -> AttemptType],
         \A u \in Tasks : u # t => attempt'[u].decision = attempt[u].decision,
         \/ pc' = "testing" /\ at' = t /\ resume = "pytest" /\ status # "done"
         \/ pc' = "loop" /\ at' = NoTask
  PROVE  BuildPhaseInv'
<1>1. phase \in PhaseType
  BY DEF BuildPhaseInv, BuildTyped
<1>2. /\ saved' \in PhaseType /\ saved'.exit = phase.exit
      /\ saved'.status = [phase.status EXCEPT ![t] = status]
      /\ saved'.resume = [phase.resume EXCEPT ![t] = resume]
  BY <1>1, MovedBook
<1>3. Leads(phase, saved') /\ saved'.status[t] = status /\ saved'.resume[t] = resume
  <2>1. PICK new : new = saved'
    OBVIOUS
  <2>2. \A u \in Tasks : u # t => new.exit[u] = phase.exit[u]
    BY <1>2, <2>1
  <2>3. Leads(phase, new) /\ new.status[t] = status /\ new.resume[t] = resume
    BY <1>2, <2>1, <2>2, MovedLeads
  <2> QED
    BY <2>1, <2>3
<1>4. BuildTyped' /\ PlaceInv'
  BY <1>2, <1>3 DEF BuildPhaseInv, BuildTyped, PlaceInv
<1>5. TestedInv' /\ OnceInv'
  BY <1>3, NoTaskIsNone, BooksKept
<1> QED
  BY <1>4, <1>5 DEF BuildPhaseInv

\* A task with which nothing is promised is given up.
LEMMA GivenUp ==
  ASSUME BuildPhaseInv, NEW t \in Tasks, Free(t), pc' = "off", at' = NoTask,
         LET isBlocked == Blocked(Moved(phase, t, "failed", "complete")) IN
           saved' = isBlocked \/ saved' = [isBlocked EXCEPT !.current = NoTask],
         phase' = saved', UNCHANGED <<attempt, tree, commits, helped>>
  PROVE  BuildPhaseInv'
<1> DEFINE moved == Moved(phase, t, "failed", "complete")
           isBlocked == [moved EXCEPT !.state = "blocked"]
           labelled == [isBlocked EXCEPT !.current = NoTask]
<1>1. /\ moved \in PhaseType /\ moved.exit = phase.exit
      /\ moved.status = [phase.status EXCEPT ![t] = "failed"]
      /\ moved.resume = [phase.resume EXCEPT ![t] = "complete"]
  BY MovedBook DEF BuildPhaseInv, BuildTyped, Statuses, Resumes
<1>2. saved' = isBlocked \/ saved' = labelled
  BY DEF Blocked
<1> HIDE DEF moved
<1>3. /\ isBlocked \in PhaseType /\ isBlocked.exit = moved.exit
      /\ isBlocked.status = moved.status /\ isBlocked.resume = moved.resume
  BY <1>1, LabelledBook
<1> HIDE DEF isBlocked
<1>4. /\ labelled \in PhaseType /\ labelled.exit = moved.exit
      /\ labelled.status = moved.status /\ labelled.resume = moved.resume
  <2>1. labelled = [status |-> isBlocked.status, resume |-> isBlocked.resume,
                    attempts |-> isBlocked.attempts, exit |-> isBlocked.exit,
                    current |-> NoTask, state |-> isBlocked.state]
    BY <1>3 DEF PhaseType
  <2> QED
    BY <1>3, <2>1 DEF PhaseType
<1> HIDE DEF labelled
<1>5. /\ saved' \in PhaseType /\ saved'.exit = phase.exit
      /\ saved'.status = [phase.status EXCEPT ![t] = "failed"]
      /\ saved'.resume = [phase.resume EXCEPT ![t] = "complete"]
  BY <1>1, <1>2, <1>3, <1>4
<1>6. Leads(phase, saved')
  BY <1>5, MovedLeads DEF Statuses, Resumes
<1> QED
  BY <1>5, <1>6, SavedAndGone

\* The agent ends.
LEMMA AgentStep == BuildPhaseInv /\ AgentEnds => BuildPhaseInv'
<1> SUFFICES ASSUME BuildPhaseInv, AgentEnds
             PROVE  BuildPhaseInv'
  OBVIOUS
<1>1. pc = "invoking" /\ UNCHANGED <<tree, commits, helped>>
  BY DEF AgentEnds, AgentCompletes, AgentTurnedDown, AgentFails, AgentAtWork, outside
<1>2. at \in Tasks /\ Free(at)
  BY <1>1, AtWork
<1>3. CASE AgentTurnedDown
  BY <1>1, <1>3, GoneStep DEF AgentTurnedDown, Raise, Leave
<1>4. CASE AgentFails
  BY <1>1, <1>2, <1>4, GivenUp DEF AgentFails, Save, Leave
<1>5. ASSUME NEW copied \in BOOLEAN, AgentCompletes(copied)
      PROVE  BuildPhaseInv'
  <2>1. /\ saved' = Moved(phase, at, "verifying", "pytest") /\ phase' = saved'
        /\ attempt' = [attempt EXCEPT ![at].result = copied]
        /\ pc' = "testing" /\ at' = at
    BY <1>5 DEF AgentCompletes, Save
  <2>2. /\ attempt' \in [Tasks -> AttemptType]
        /\ \A u \in Tasks : u # at => attempt'[u].decision = attempt[u].decision
    BY <1>2, <2>1 DEF BuildPhaseInv, BuildTyped, AttemptType
  <2> QED
    BY <1>1, <1>2, <2>1, <2>2, SavedMove DEF Statuses, Resumes
<1> QED
  BY <1>3, <1>4, <1>5 DEF AgentEnds, ArtifactsFound

\* The tests tell what the work tree holds.
LEMMA TestStep == ASSUME BuildPhaseInv, NEW exit \in TestExits, RunTests(exit) PROVE BuildPhaseInv'
<1> DEFINE tested == [phase EXCEPT !.exit[at] = exit]
           held == IF ~Dirty(at) THEN tree[at]
                   ELSE IF exit = "passed" THEN "tested" ELSE "failing"
<1>1. /\ pc = "testing" /\ tree' = [tree EXCEPT ![at] = held]
      /\ UNCHANGED <<attempt, commits, helped>>
  BY DEF RunTests, outside
<1>2. /\ at \in Tasks /\ Free(at) /\ phase.status[at] # "done" /\ phase.resume[at] = "pytest"
      /\ phase = saved /\ phase \in PhaseType
  BY <1>1, AtWork DEF BuildPhaseInv, PlaceInv, BuildTyped
<1>3. tested = [status |-> phase.status, resume |-> phase.resume,
                attempts |-> phase.attempts, exit |-> [phase.exit EXCEPT ![at] = exit],
                current |-> phase.current, state |-> phase.state]
  BY <1>2 DEF PhaseType
<1>4. /\ tested \in PhaseType /\ tested.status = phase.status
      /\ tested.resume = phase.resume /\ tested.exit = [phase.exit EXCEPT ![at] = exit]
  <2>1. [phase.exit EXCEPT ![at] = exit] \in [Tasks -> BuildExits]
    BY <1>2 DEF PhaseType, TestExits, BuildExits
  <2> QED
    BY <1>2, <1>3, <2>1 DEF PhaseType
<1>5. /\ held \in {"clean", "untested", "tested", "failing", "touched"}
      /\ exit # "failed" => held \notin Untested
  BY <1>2 DEF BuildPhaseInv, BuildTyped, Untested, Dirty, TestExits
<1> HIDE DEF held, tested
<1>6. /\ tree'[at] = held /\ \A u \in Tasks : u # at => tree'[u] = tree[u]
      /\ tree' \in [Tasks -> {"clean", "untested", "tested", "failing", "touched"}]
  BY <1>1, <1>2, <1>5 DEF BuildPhaseInv, BuildTyped
<1>7. /\ tested.exit[at] = exit
      /\ \A u \in Tasks : u # at => tested.exit[u] = phase.exit[u]
  BY <1>2, <1>4 DEF PhaseType
<1>8. CASE manual
  <2> DEFINE moved == Moved(tested, at, "verifying", "cc-review")
             new == [moved EXCEPT !.state = "awaiting-review"]
  <2>1. saved' = new /\ phase' = new /\ pc' = "off" /\ at' = NoTask
    BY <1>8 DEF RunTests, Save, Leave, Moved, tested
  <2>2. /\ moved \in PhaseType /\ moved.exit = tested.exit
        /\ moved.status = [tested.status EXCEPT ![at] = "verifying"]
        /\ moved.resume = [tested.resume EXCEPT ![at] = "cc-review"]
    <3>1. "verifying" \in Statuses /\ "cc-review" \in Resumes
      BY DEF Statuses, Resumes
    <3>2. tested \in PhaseType /\ at \in Tasks
      BY <1>2, <1>4
    <3> HIDE DEF new
    <3> QED
      BY <3>1, <3>2, MovedBook
  <2> HIDE DEF moved
  <2>3. /\ new \in PhaseType /\ new.exit = moved.exit
        /\ new.status = moved.status /\ new.resume = moved.resume
    BY <2>2, LabelledBook
  <2> HIDE DEF new
  <2>4. /\ new.exit[at] = exit
        /\ \A u \in Tasks : u # at => /\ new.exit[u] = phase.exit[u]
                                      /\ new.status[u] = phase.status[u]
                                      /\ new.resume[u] = phase.resume[u]
    <3>1. /\ new.status = [phase.status EXCEPT ![at] = "verifying"]
          /\ new.resume = [phase.resume EXCEPT ![at] = "cc-review"]
          /\ new.exit = tested.exit
      BY <1>4, <2>2, <2>3
    <3> QED
      BY <1>2, <1>7, <3>1 DEF PhaseType
  <2>5. BuildTyped' /\ PlaceInv'
    BY <1>1, <1>6, <2>1, <2>3 DEF BuildPhaseInv, BuildTyped, PlaceInv
  <2>6. TestedInv'
    BY <1>5, <1>6, <2>1, <2>4 DEF BuildPhaseInv, TestedInv, TestedBook
  <2>7. OnceInv'
    BY <1>1, <1>2, <1>6, <2>1, <2>4, NoTaskIsNone DEF BuildPhaseInv, OnceInv, Settled, Free
  <2> QED
    BY <2>5, <2>6, <2>7 DEF BuildPhaseInv
<1>9. CASE ~manual
  <2>1. phase' = tested /\ pc' = "reviewing" /\ UNCHANGED <<saved, at>>
    BY <1>9 DEF RunTests, tested
  <2>2. BuildTyped' /\ PlaceInv'
    BY <1>1, <1>2, <1>4, <1>6, <2>1 DEF BuildPhaseInv, BuildTyped, PlaceInv
  <2>3. TestedInv'
    BY <1>2, <1>4, <1>5, <1>6, <1>7, <2>1 DEF BuildPhaseInv, TestedInv, TestedBook
  <2>4. OnceInv'
    BY <1>1, <1>2, <1>4, <1>6, <2>1 DEF BuildPhaseInv, OnceInv, Settled, Free
  <2> QED
    BY <2>2, <2>3, <2>4 DEF BuildPhaseInv
<1> QED
  BY <1>8, <1>9

\* The review of a change decides, and the book is saved with it.
LEMMA ReviewStep ==
  ASSUME BuildPhaseInv, SaveReview \/ \E findings \in ReviewFindings : AutoReview(findings)
  PROVE  BuildPhaseInv'
<1>1. pc \in {"reviewing", "reviewed"} /\ UNCHANGED <<at, tree, commits, helped>>
  BY DEF SaveReview, AutoReview, outside
<1>2. /\ at \in Tasks /\ Free(at) /\ phase.status[at] # "done" /\ phase \in PhaseType
  BY <1>1, AtWork DEF BuildPhaseInv, BuildTyped
<1>3. ASSUME NEW findings \in ReviewFindings, AutoReview(findings)
      PROVE  BuildPhaseInv'
  <2>1. /\ attempt' = [attempt EXCEPT ![at].decision = AutoDecision(phase.exit[at], findings)]
        /\ pc = "reviewing" /\ pc' = "reviewed" /\ UNCHANGED <<saved, phase>>
    BY <1>3 DEF AutoReview
  <2>2. AutoDecision(phase.exit[at], findings) \in Decisions
    BY DEF AutoDecision, Decisions
  <2>3. /\ attempt' \in [Tasks -> AttemptType]
        /\ \A u \in Tasks : u # at => attempt'[u] = attempt[u]
    BY <1>2, <2>1, <2>2 DEF BuildPhaseInv, BuildTyped, AttemptType
  <2>4. BuildTyped' /\ PlaceInv'
    BY <1>1, <2>1, <2>3 DEF BuildPhaseInv, BuildTyped, PlaceInv
  <2>5. TestedInv'
    BY <1>1, <2>1 DEF BuildPhaseInv, TestedInv, TestedBook
  <2>6. OnceInv'
    BY <1>1, <1>2, <2>1, <2>3 DEF BuildPhaseInv, OnceInv, Settled, Free
  <2> QED
    BY <2>4, <2>5, <2>6 DEF BuildPhaseInv
<1>4. CASE SaveReview
  <2> DEFINE new == Moved(phase, at, phase.status[at], "cc-review")
  <2>1. /\ saved' = new /\ phase' = new /\ pc = "reviewed" /\ pc' = "deciding"
        /\ UNCHANGED attempt
    BY <1>4 DEF SaveReview, Save
  <2>2. /\ new \in PhaseType /\ new.exit = phase.exit
        /\ new.status = [phase.status EXCEPT ![at] = phase.status[at]]
        /\ new.resume = [phase.resume EXCEPT ![at] = "cc-review"]
    <3>1. phase.status[at] \in Statuses /\ "cc-review" \in Resumes
      BY <1>2 DEF PhaseType, Resumes
    <3> QED
      BY <1>2, <3>1, MovedBook
  <2> HIDE DEF new
  <2>3. /\ new.resume[at] = "cc-review" /\ new.status[at] # "done"
        /\ \A u \in Tasks : u # at => /\ new.status[u] = phase.status[u]
                                      /\ new.resume[u] = phase.resume[u]
    BY <1>2, <2>2 DEF PhaseType
  <2>4. BuildTyped' /\ PlaceInv'
    BY <1>1, <1>2, <2>1, <2>2, <2>3 DEF BuildPhaseInv, BuildTyped, PlaceInv
  <2>5. TestedInv'
    BY <1>1, <1>2, <2>1, <2>2, <2>3 DEF BuildPhaseInv, TestedInv, TestedBook
  <2>6. OnceInv'
    BY <1>1, <1>2, <2>1, <2>3 DEF BuildPhaseInv, OnceInv, Settled, Free
  <2> QED
    BY <2>4, <2>5, <2>6 DEF BuildPhaseInv
<1> QED
  BY <1>3, <1>4

\* A task that was committed and left alone is neither dirty nor turned down.
LEMMA Deciding ==
  ASSUME BuildPhaseInv, pc = "deciding"
  PROVE  /\ at \in Tasks /\ phase = saved /\ phase.resume[at] = "cc-review"
         /\ phase \in PhaseType
         /\ ~Free(at) => tree[at] = "clean" /\ attempt[at].decision = "approve"
<1>1. /\ at \in Tasks /\ phase = saved /\ phase.resume[at] = "cc-review"
      /\ phase \in PhaseType /\ phase.status[at] # "done"
  BY DEF BuildPhaseInv, PlaceInv, BuildTyped
<1>2. ~Free(at) => tree[at] = "clean" /\ attempt[at].decision = "approve"
  BY <1>1 DEF BuildPhaseInv, OnceInv, Settled
<1> QED
  BY <1>1, <1>2

\* The commit itself: the tests did not fail on what it holds.
LEMMA CommitStep ==
  ASSUME BuildPhaseInv, Commit
  PROVE  /\ BuildPhaseInv'
         /\ at \in Tasks /\ tree[at] \notin Untested /\ Free(at)
         /\ \A u \in Tasks : u # at => commits'[u] = commits[u]
<1>1. /\ pc = "deciding" /\ attempt[at].decision = "approve" /\ phase.exit[at] # "failed"
      /\ tree[at] # "clean" /\ tree' = [tree EXCEPT ![at] = "clean"]
      /\ commits' = [commits EXCEPT ![at] = IF @ = 0 THEN 1 ELSE 2]
      /\ pc' = "committed" /\ UNCHANGED <<saved, phase, at, attempt, helped>>
  BY DEF Commit, Approvable, Dirty
<1>2. /\ at \in Tasks /\ phase = saved /\ phase.resume[at] = "cc-review" /\ Free(at)
  BY <1>1, Deciding
<1>3. tree[at] \notin Untested
  BY <1>1, <1>2 DEF BuildPhaseInv, TestedInv, TestedBook
<1>4. /\ tree'[at] = "clean" /\ \A u \in Tasks : u # at => tree'[u] = tree[u]
      /\ \A u \in Tasks : u # at => commits'[u] = commits[u]
      /\ tree' \in [Tasks -> {"clean", "untested", "tested", "failing", "touched"}]
      /\ commits' \in [Tasks -> Nat]
  BY <1>1, <1>2 DEF BuildPhaseInv, BuildTyped
<1>5. BuildTyped' /\ PlaceInv'
  BY <1>1, <1>4 DEF BuildPhaseInv, BuildTyped, PlaceInv
<1>6. TestedInv'
  BY <1>1, <1>4 DEF BuildPhaseInv, TestedInv, TestedBook, Untested
<1>7. OnceInv'
  BY <1>1, <1>2, <1>4 DEF BuildPhaseInv, OnceInv, Settled, Free
<1> QED
  BY <1>2, <1>3, <1>4, <1>5, <1>6, <1>7 DEF BuildPhaseInv

\* What becomes of the task otherwise.
LEMMA BuildDecides ==
  ASSUME BuildPhaseInv,
         \/ AwaitDecision \/ ApproveRefused \/ CommitFails \/ RecordCommit
         \/ GiveUpTask \/ AskCorrection
  PROVE  BuildPhaseInv'
<1>1. UNCHANGED <<tree, commits, helped>>
  BY DEF AwaitDecision, ApproveRefused, CommitFails, RecordCommit, GiveUpTask, AskCorrection,
         outside
<1>2. phase \in PhaseType
  BY DEF BuildPhaseInv, BuildTyped
<1>3. CASE ApproveRefused \/ CommitFails
  BY <1>1, <1>3, GoneStep DEF ApproveRefused, CommitFails, Raise, Leave
<1>4. CASE AwaitDecision
  <2> DEFINE new == [phase EXCEPT !.state = "awaiting-review"]
  <2>1. saved' = new /\ phase' = new /\ pc' = "off" /\ at' = NoTask /\ UNCHANGED attempt
    BY <1>4 DEF AwaitDecision, Save, Leave
  <2>2. /\ new \in PhaseType /\ new.status = phase.status /\ new.resume = phase.resume
        /\ new.exit = phase.exit
    BY <1>2, LabelledBook
  <2> HIDE DEF new
  <2>3. Leads(phase, new)
    BY <2>2 DEF Leads
  <2> QED
    BY <1>1, <2>1, <2>2, <2>3, SavedAndGone
<1>5. CASE GiveUpTask
  <2>1. pc = "deciding" /\ attempt[at].decision # "approve"
    BY <1>5 DEF GiveUpTask
  <2>2. at \in Tasks /\ Free(at)
    BY <2>1, Deciding
  <2> QED
    BY <1>1, <1>5, <2>2, GivenUp DEF GiveUpTask, Save, Leave
<1>6. CASE AskCorrection
  <2>1. /\ pc = "deciding" /\ attempt[at].decision # "approve" /\ UNCHANGED attempt
        /\ saved' = Moved(phase, at, "correcting", "start") /\ phase' = saved'
        /\ pc' = "loop" /\ at' = NoTask
    BY <1>6 DEF AskCorrection, Save
  <2>2. at \in Tasks /\ Free(at)
    BY <2>1, Deciding
  <2>3. attempt \in [Tasks -> AttemptType]
    BY DEF BuildPhaseInv, BuildTyped
  <2> QED
    BY <1>1, <2>1, <2>2, <2>3, SavedMove DEF Statuses, Resumes
<1>7. CASE RecordCommit
  <2> DEFINE moved == Moved(phase, at, "done", "complete")
             new == [moved EXCEPT !.current = NoTask, !.state = "active"]
  <2>1. /\ saved' = new /\ phase' = new /\ pc = "committed" /\ pc' = "loop"
        /\ at' = NoTask /\ attempt' = [attempt EXCEPT ![at] = NewAttempt]
    BY <1>7 DEF RecordCommit, Save
  <2>2. at \in Tasks /\ phase = saved
    BY <2>1 DEF BuildPhaseInv, PlaceInv
  <2>3. /\ moved \in PhaseType /\ moved.exit = phase.exit
        /\ moved.status = [phase.status EXCEPT ![at] = "done"]
        /\ moved.resume = [phase.resume EXCEPT ![at] = "complete"]
    BY <1>2, <2>2, MovedBook DEF Statuses, Resumes
  <2> HIDE DEF moved
  <2>4. /\ new \in PhaseType /\ new.exit = moved.exit
        /\ new.status = moved.status /\ new.resume = moved.resume
    <3>1. NoTask \in Tasks \cup {NoTask}
      OBVIOUS
    <3>2. "active" \in {"pending", "active", "blocked", "awaiting-review", "done"}
      OBVIOUS
    <3>3. moved \in PhaseType
      BY <2>3
    <3> QED
      BY <3>1, <3>2, <3>3, LabelledBook
  <2> HIDE DEF new
  <2>5. /\ new.status[at] = "done" /\ new.resume[at] = "complete"
        /\ \A u \in Tasks : u # at => /\ new.status[u] = phase.status[u]
                                      /\ new.resume[u] = phase.resume[u]
                                      /\ new.exit[u] = phase.exit[u]
    <3>1. /\ new.status = [phase.status EXCEPT ![at] = "done"]
          /\ new.resume = [phase.resume EXCEPT ![at] = "complete"]
          /\ new.exit = phase.exit
      BY <2>3, <2>4
    <3> QED
      BY <1>2, <2>2, <3>1 DEF PhaseType
  <2>6. NewAttempt \in AttemptType
    BY DEF NewAttempt, AttemptType, Decisions
  <2>7. /\ attempt' \in [Tasks -> AttemptType]
        /\ \A u \in Tasks : u # at => attempt'[u] = attempt[u]
    BY <2>1, <2>6 DEF BuildPhaseInv, BuildTyped
  <2>8. BuildTyped' /\ PlaceInv'
    BY <1>1, <2>1, <2>4, <2>7 DEF BuildPhaseInv, BuildTyped, PlaceInv
  <2>9. TestedInv'
    BY <1>1, <2>1, <2>5 DEF BuildPhaseInv, TestedInv, TestedBook
  <2>10. OnceInv'
    BY <1>1, <2>1, <2>2, <2>5, <2>7, NoTaskIsNone DEF BuildPhaseInv, OnceInv, Settled, Free
  <2> QED
    BY <2>8, <2>9, <2>10 DEF BuildPhaseInv
<1> QED
  BY <1>3, <1>4, <1>5, <1>6, <1>7

-----------------------------------------------------------------------------
(* The world around it *)

\* A run begins with what is saved.
LEMMA RunStep ==
  ASSUME BuildPhaseInv,
         \/ \E byHand \in BOOLEAN : StartRun(byHand)
         \/ \E livesOn \in BOOLEAN : Killed(livesOn)
  PROVE  BuildPhaseInv'
<1>1. CASE \E livesOn \in BOOLEAN : Killed(livesOn)
  BY <1>1, GoneStep DEF Killed, Leave
<1>2. CASE \E byHand \in BOOLEAN : StartRun(byHand)
  <2>1. /\ pc = "off" /\ phase' = saved /\ pc' = "loop"
        /\ UNCHANGED <<saved, at, attempt, tree, commits, helped>>
    BY <1>2 DEF StartRun, outside
  <2>2. at = NoTask /\ phase = saved
    BY <2>1 DEF BuildPhaseInv, PlaceInv
  <2>3. BuildTyped' /\ PlaceInv'
    BY <2>1, <2>2 DEF BuildPhaseInv, BuildTyped, PlaceInv
  <2>4. Leads(saved, saved') /\ Leads(saved, phase')
    BY <2>1 DEF Leads
  <2>5. TestedInv' /\ OnceInv'
    BY <2>1, <2>2, <2>4, NoTaskIsNone, BooksKept
  <2> QED
    BY <2>3, <2>5 DEF BuildPhaseInv
<1> QED
  BY <1>1, <1>2

\* Somebody else writes to the files of a task: nothing is promised of it any
\* more, and what was not tested is not tested yet.
LEMMA TouchStep == ASSUME BuildPhaseInv, NEW t \in Tasks, Touch(t) PROVE BuildPhaseInv'
<1> DEFINE held == IF tree[t] \in {"clean", "tested", "touched"} THEN "touched" ELSE "untested"
<1>1. /\ tree' = [tree EXCEPT ![t] = held]
      /\ helped' = IF commits[t] > 0 THEN helped \cup {t} ELSE helped
      /\ UNCHANGED <<saved, phase, pc, at, attempt, commits>>
  BY DEF Touch
<1>2. /\ held \in {"touched", "untested"} /\ (held \in Untested => tree[t] \in Untested)
  BY DEF BuildPhaseInv, BuildTyped, Untested
<1> HIDE DEF held
<1>3. /\ tree'[t] = held /\ \A u \in Tasks : u # t => tree'[u] = tree[u]
      /\ tree' \in [Tasks -> {"clean", "untested", "tested", "failing", "touched"}]
  BY <1>1, <1>2 DEF BuildPhaseInv, BuildTyped
<1>4. BuildTyped' /\ PlaceInv'
  BY <1>1, <1>3 DEF BuildPhaseInv, BuildTyped, PlaceInv
<1>5. TestedInv'
  <2>1. \A u \in Tasks : tree'[u] \in Untested => tree[u] \in Untested
    BY <1>2, <1>3
  <2>2. pc \in {"reviewing", "reviewed"} => at \in Tasks
    BY DEF BuildPhaseInv, PlaceInv
  <2> QED
    BY <1>1, <2>1, <2>2 DEF BuildPhaseInv, TestedInv, TestedBook
<1>6. Free(t)'
  <2>1. commits[t] \in Nat
    BY DEF BuildPhaseInv, BuildTyped
  <2> QED
    BY <1>1, <2>1 DEF Free
<1>7. \A u \in Tasks : Free(u) => Free(u)'
  BY <1>1 DEF Free
<1>8. OnceInv'
  BY <1>1, <1>3, <1>6, <1>7 DEF BuildPhaseInv, OnceInv, Settled
<1> QED
  BY <1>4, <1>5, <1>8 DEF BuildPhaseInv

\* The agent, one left over, and a person.
LEMMA OthersStep ==
  ASSUME BuildPhaseInv,
         \/ AgentWrites
         \/ \E t \in Tasks :
              \/ OrphanWrites(t) \/ OrphanEnds(t) \/ PersonEdits(t)
              \/ \E decision \in {"approve", "correct", "fail"} : PersonDecides(t, decision)
  PROVE  BuildPhaseInv'
<1>1. CASE AgentWrites
  <2>1. /\ pc = "invoking" /\ tree' = [tree EXCEPT ![at] = "untested"]
        /\ UNCHANGED <<saved, phase, pc, at, attempt, commits, helped>>
    BY <1>1 DEF AgentWrites, AgentAtWork, outside
  <2>2. /\ at \in Tasks /\ Free(at)
        /\ phase = saved /\ phase.resume[at] = "invoke-subagent"
    BY <2>1, AtWork DEF BuildPhaseInv, PlaceInv
  <2>3. /\ \A u \in Tasks : u # at => tree'[u] = tree[u]
        /\ tree' \in [Tasks -> {"clean", "untested", "tested", "failing", "touched"}]
    BY <2>1 DEF BuildPhaseInv, BuildTyped
  <2>4. BuildTyped' /\ PlaceInv'
    BY <2>1, <2>3 DEF BuildPhaseInv, BuildTyped, PlaceInv
  <2>5. TestedInv'
    BY <2>1, <2>2, <2>3 DEF BuildPhaseInv, TestedInv, TestedBook
  <2>6. OnceInv'
    BY <2>1, <2>2, <2>3 DEF BuildPhaseInv, OnceInv, Settled, Free
  <2> QED
    BY <2>4, <2>5, <2>6 DEF BuildPhaseInv
<1>2. ASSUME NEW t \in Tasks, OrphanEnds(t)
      PROVE  BuildPhaseInv'
  <2>1. UNCHANGED <<saved, phase, pc, at, attempt, tree, commits, helped>>
    BY <1>2 DEF OrphanEnds
  <2> QED
    BY <2>1 DEF BuildPhaseInv, BuildTyped, PlaceInv, TestedInv, TestedBook, OnceInv, Settled, Free
<1>3. ASSUME NEW t \in Tasks, NEW decision \in {"approve", "correct", "fail"},
             PersonDecides(t, decision)
      PROVE  BuildPhaseInv'
  <2>1. /\ attempt' = [attempt EXCEPT ![t].decision = decision]
        /\ helped' = IF commits[t] > 0 THEN helped \cup {t} ELSE helped
        /\ UNCHANGED <<saved, phase, pc, at, tree, commits>>
    BY <1>3 DEF PersonDecides
  <2>2. /\ attempt' \in [Tasks -> AttemptType]
        /\ \A u \in Tasks : u # t => attempt'[u] = attempt[u]
    BY <2>1 DEF BuildPhaseInv, BuildTyped, AttemptType, Decisions
  <2>3. BuildTyped' /\ PlaceInv' /\ TestedInv'
    BY <2>1, <2>2 DEF BuildPhaseInv, BuildTyped, PlaceInv, TestedInv, TestedBook
  <2>4. commits[t] \in Nat
    BY DEF BuildPhaseInv, BuildTyped
  <2>5. Free(t)' /\ \A u \in Tasks : Free(u) => Free(u)'
    BY <2>1, <2>4 DEF Free
  <2>6. OnceInv'
    BY <2>1, <2>2, <2>5 DEF BuildPhaseInv, OnceInv, Settled
  <2> QED
    BY <2>3, <2>6 DEF BuildPhaseInv
<1> QED
  BY <1>1, <1>2, <1>3, TouchStep DEF OrphanWrites, PersonEdits

-----------------------------------------------------------------------------

\* A phase that was not begun promises nothing.
LEMMA BuildPhaseInvInit == BuildInit => BuildPhaseInv
<1> SUFFICES ASSUME BuildInit
             PROVE  BuildPhaseInv
  OBVIOUS
<1>1. InitialPhase \in PhaseType
  BY DEF InitialPhase, PhaseType, Statuses, Resumes, BuildExits
<1>2. NewAttempt \in AttemptType
  BY DEF NewAttempt, AttemptType, Decisions
<1>3. BuildTyped /\ PlaceInv
  BY <1>1, <1>2 DEF BuildInit, BuildTyped, PlaceInv
<1>4. TestedInv
  BY DEF BuildInit, TestedInv, TestedBook, InitialPhase
<1>5. OnceInv
  BY DEF BuildInit, OnceInv, Free
<1> QED
  BY <1>3, <1>4, <1>5 DEF BuildPhaseInv

\* Every step keeps the invariant; the commit is the one that counts.
LEMMA BuildPhaseInvStep == BuildPhaseInv /\ [BuildNext]_buildVars => BuildPhaseInv'
<1> SUFFICES ASSUME BuildPhaseInv, [BuildNext]_buildVars
             PROVE  BuildPhaseInv'
  OBVIOUS
<1>1. CASE UNCHANGED buildVars
  BY <1>1 DEF buildVars, BuildPhaseInv, BuildTyped, PlaceInv, TestedInv, TestedBook, OnceInv, Settled, Free
<1>2. CASE Controller
  BY <1>2, FinalizeStep, TakeUpStep, StartStep, PromptStep, AgentStep, TestStep, ReviewStep,
     CommitStep, BuildDecides DEF Controller
<1> QED
  BY <1>1, <1>2, RunStep, OthersStep DEF BuildNext

\* No other action touches the history of the commits.
LEMMA OnlyCommits ==
  ASSUME [BuildNext]_buildVars, commits' # commits
  PROVE  Commit
BY DEF BuildNext, buildVars, outside, StartRun, Controller, FinalizePhase, TakeUpReview,
       TakeUpTests, TakeUpAgent, StartAttempt, WritePrompt, AgentEnds, AgentCompletes,
       AgentTurnedDown, AgentFails, RunTests, AutoReview, SaveReview, AwaitDecision,
       ApproveRefused, CommitFails, RecordCommit, GiveUpTask, AskCorrection, AgentWrites,
       Killed, OrphanWrites, OrphanEnds, PersonEdits, PersonDecides, Touch

\* However often a run is killed and taken up again, what is committed for a
\* task is what its tests passed on, apart from what somebody wrote since.
THEOREM CommittedIsTestedHolds == BuildSpec => CommittedIsTested
<1>1. BuildPhaseInv /\ [BuildNext]_buildVars =>
        [\A t \in Tasks :
           commits'[t] # commits[t] => tree[t] \notin {"untested", "failing"}]_buildVars
  BY OnlyCommits, CommitStep DEF Untested
<1> QED
  BY <1>1, BuildPhaseInvInit, BuildPhaseInvStep, PTL DEF BuildSpec, CommittedIsTested

\* A task whose commit was not recorded is not committed again by a later run.
THEOREM CommittedOnceHolds == BuildSpec => CommittedOnce
<1>1. BuildPhaseInv /\ [BuildNext]_buildVars =>
        [\A t \in Tasks :
           commits'[t] # commits[t] => commits[t] = 0 \/ t \in helped]_buildVars
  BY OnlyCommits, CommitStep DEF Free
<1> QED
  BY <1>1, BuildPhaseInvInit, BuildPhaseInvStep, PTL DEF BuildSpec, CommittedOnce

-----------------------------------------------------------------------------
(***************************************************************************)
(* Council: one request of a pair is pending and behind a consensus that is  *)
(* served is a finished response, a vote for its direction unless neutral,   *)
(* for any pairs, agents and directions.  Counted holds whatever is killed;  *)
(* Voted, the half about answers, while no broker was killed, for then an    *)
(* agent is prompted again and may be writing over its answer.               *)
(***************************************************************************)
CouncilTyped ==
  /\ hour \in Nat
  /\ asked \in Seq([pair : CouncilPairs, at : Nat]) /\ Len(asked) <= MaxRequests
  /\ requests \in [CouncilCalls -> {"none", "torn", "whole", "removed"}]
  /\ replies \in [CouncilCalls -> [Agents -> Parsed \cup {"none", "torn"}]]
  /\ prompts \in [CouncilCalls -> [Agents -> Nat]]
  /\ consensus \in [CouncilCalls ->
       [status : {"none", "torn", "failed", "partial", "completed"},
        direction : Directions \cup {"none"}]]
  /\ handler \in 0 .. Len(asked)
  /\ seen \in [Agents -> Parsed \cup {"unseen", "invalid"}]
  /\ killed \in Nat

\* The broker has a call that was made, processed only once it writes.
BrokerAt ==
  /\ broker \in [does : {"polls", "sends", "collects", "writes", "down"}, call : Nat]
  /\ broker.does \in {"sends", "collects", "writes"} => broker.call \in DOMAIN asked
  /\ broker.does \in {"sends", "collects"} => ~Processed(broker.call)
  /\ broker.does = "writes" => consensus[broker.call].status = "torn"

OfPairPending(c) == requests[c] \in {"torn", "whole"} /\ ~Processed(c)

\* What was not asked has no file, and of a pair's requests one is pending.
PendingAlone ==
  /\ \A c \in CouncilCalls : c > Len(asked) => requests[c] = "none" /\ ~Processed(c)
  /\ \A c, d \in DOMAIN asked :
       OfPairPending(c) /\ OfPairPending(d) /\ asked[c].pair = asked[d].pair => c = d

Counted == CouncilTyped /\ BrokerAt /\ PendingAlone

\* Until a broker is killed no agent is prompted twice for a call, so that an answer
\* once whole stays what it is.
PromptedOnce ==
  \A c \in CouncilCalls, a \in Agents :
    prompts[c][a] > 0 =>
      /\ prompts[c][a] = 1 /\ replies[c][a] = "none"
      /\ ~Processed(c) => broker.does = "collects" /\ broker.call = c

SeenStands ==
  \A a \in Agents :
    seen[a] \in Parsed /\ broker.does \in {"sends", "collects", "writes"} =>
      replies[broker.call][a] = seen[a]

Voted == killed = 0 => PromptedOnce /\ SeenStands

-----------------------------------------------------------------------------
LEMMA CouncilStarts == CouncilInit => Counted /\ Voted
<1> SUFFICES ASSUME CouncilInit PROVE Counted /\ Voted
  OBVIOUS
<1>1. CouncilTyped
  BY CouncilAssumption DEF CouncilInit, CouncilTyped, File, NothingSeen
<1>2. BrokerAt
  BY DEF CouncilInit, BrokerAt, Polls
<1>3. PendingAlone
  BY DEF CouncilInit, PendingAlone, Processed, File
<1>4. Voted
  BY CouncilAssumption DEF CouncilInit, Voted, PromptedOnce, SeenStands, Parsed, Directions, Polls, NothingSeen, File
<1> QED BY <1>1, <1>2, <1>3, <1>4 DEF Counted

LEMMA NotParsed == Parsed \intersect {"none", "torn", "unseen", "invalid"} = {}
BY CouncilAssumption DEF Parsed, Directions

\* A majority is of somebody, and where a response is valid somebody's is read.
LEMMA MajorityVoted ==
  ASSUME CouncilTyped, Status \in {"completed", "partial"}
  PROVE  \E a \in Agents :
           /\ seen[a] \in Parsed
           /\ Majority = "neutral" \/ Majority = seen[a]
<1>1. \A S : IsFiniteSet({a \in Agents : seen[a] \in S})
  BY CouncilAssumption, FS_Subset
<1>2. \A S : Voters(S) \in Nat /\ (Voters(S) # 0 => \E a \in Agents : seen[a] \in S)
  <2> SUFFICES ASSUME NEW S
               PROVE  Voters(S) \in Nat /\ (Voters(S) # 0 => \E a \in Agents : seen[a] \in S)
    OBVIOUS
  <2> DEFINE some == {a \in Agents : seen[a] \in S}
  <2>1. IsFiniteSet(some)
    BY <1>1
  <2>2. Cardinality(some) \in Nat /\ (Cardinality(some) = 0 <=> some = {})
    BY <2>1, FS_CardinalityType, FS_EmptySet
  <2> QED BY <2>2 DEF Voters
<1>3. Voters(Parsed) # 0 /\ Voters(Directions) \in Nat
  BY <1>2 DEF Status
<1> DEFINE winners == {v \in Directions : 2 * Voters({v}) > Voters(Directions)}
<1>4. CASE winners = {}
  <2>1. Majority = "neutral"
    BY <1>4 DEF Majority
  <2> QED BY <2>1, <1>2, <1>3
<1>5. CASE winners # {}
  <2>1. Majority \in winners
    BY <1>5 DEF Majority
  <2>2. PICK v \in Directions : v = Majority /\ 2 * Voters({v}) > Voters(Directions)
    BY <2>1
  <2>3. Voters({v}) # 0
    BY <2>2, <1>2, <1>3
  <2>4. PICK a \in Agents : seen[a] \in {v}
    BY <2>3, <1>2
  <2> QED BY <2>2, <2>4 DEF Parsed
<1> QED BY <1>4, <1>5

LEMMA MajorityDirection == Majority \in Directions
BY DEF Majority, Directions

LEMMA StatusKnown == Status \in {"failed", "partial", "completed"}
BY DEF Status

-----------------------------------------------------------------------------
LEMMA CountedStep == Counted /\ [CouncilNext]_councilVars => Counted'
<1> SUFFICES ASSUME Counted, [CouncilNext]_councilVars PROVE Counted'
  OBVIOUS
<1> USE DEF Counted
<1>1. CASE HourPasses \/ BotDies \/ UNCHANGED councilVars
  <2>1. /\ UNCHANGED <<asked, requests, replies, prompts, consensus, broker, seen, killed>>
        /\ hour' \in {hour, hour + 1} /\ handler' \in {0, handler}
    BY <1>1 DEF HourPasses, BotDies, councilVars
  <2> QED BY <2>1 DEF CouncilTyped, BrokerAt, PendingAlone, OfPairPending, Processed
<1>2. ASSUME NEW p \in CouncilPairs, BeginRequest(p) PROVE Counted'
  <2> DEFINE c == Len(asked) + 1
  <2>1. /\ c \in CouncilCalls /\ asked' = Append(asked, [pair |-> p, at |-> hour])
        /\ requests' = [requests EXCEPT ![c] = "torn"] /\ handler' = c
        /\ UNCHANGED <<hour, replies, prompts, consensus, broker, seen, killed>>
    BY <1>2, CouncilAssumption DEF BeginRequest, CouncilTyped, CouncilCalls
  <2>2. /\ asked' \in Seq([pair : CouncilPairs, at : Nat])
        /\ Len(asked') = c /\ DOMAIN asked' = DOMAIN asked \cup {c}
        /\ \A d \in DOMAIN asked : asked'[d] = asked[d] /\ d # c
        /\ asked'[c].pair = p
    BY <2>1 DEF CouncilTyped
  <2>3. \A d \in DOMAIN asked : asked[d].pair = p => ~OfPairPending(d)
    BY <1>2 DEF BeginRequest, Pending, CallsFor, OfPairPending
  <2>4. CouncilTyped'
    BY <2>1, <2>2, CouncilAssumption DEF CouncilTyped, CouncilCalls
  <2>5. BrokerAt'
    BY <2>1, <2>2 DEF BrokerAt, Processed
  <2>6. PendingAlone'
    <3>1. \A d \in CouncilCalls : d # c => requests'[d] = requests[d]
      BY <2>1 DEF CouncilTyped
    <3>2. \A d \in DOMAIN asked : d \in CouncilCalls /\ d # c
      BY <2>2, CouncilAssumption DEF CouncilTyped, CouncilCalls
    <3>3. \A d \in CouncilCalls : d > Len(asked') => requests'[d] = "none" /\ ~Processed(d)'
      BY <2>1, <2>2, <3>1 DEF PendingAlone, Processed, CouncilTyped, CouncilCalls
    <3>4. \A d \in DOMAIN asked : OfPairPending(d)' <=> OfPairPending(d)
      BY <2>1, <3>1, <3>2 DEF OfPairPending, Processed
    <3> QED BY <2>2, <2>3, <3>3, <3>4 DEF PendingAlone
  <2> QED BY <2>4, <2>5, <2>6
<1>3. CASE /\ requests' \in [CouncilCalls -> {"none", "torn", "whole", "removed"}]
           /\ \A c \in CouncilCalls :
                /\ requests[c] = "none" => requests'[c] = "none"
                /\ requests'[c] \in {"torn", "whole"} => requests[c] \in {"torn", "whole"}
           /\ handler' \in {0, handler} /\ (seen' = seen \/ seen' = NothingSeen)
           /\ UNCHANGED <<hour, asked, replies, prompts, consensus>> /\ killed' \in Nat
           /\ BrokerAt'
  <2>1. CouncilTyped'
    BY <1>3 DEF CouncilTyped, NothingSeen
  <2>2. PendingAlone'
    <3>1. \A c \in DOMAIN asked : c \in CouncilCalls
      BY CouncilAssumption DEF CouncilTyped, CouncilCalls
    <3>2. \A c \in CouncilCalls : Processed(c)' <=> Processed(c)
      BY <1>3 DEF Processed
    <3>3. \A c \in CouncilCalls : OfPairPending(c)' => OfPairPending(c)
      BY <1>3, <3>2 DEF OfPairPending
    <3>4. \A c \in CouncilCalls :
             c > Len(asked) => requests'[c] = "none" /\ ~Processed(c)'
      BY <1>3, <3>2 DEF PendingAlone
    <3> QED BY <1>3, <3>1, <3>3, <3>4 DEF PendingAlone
  <2> QED BY <1>3, <2>1, <2>2
<1>4. CASE EndRequest
  <2>1. BrokerAt'
    BY <1>4 DEF EndRequest, BrokerAt, Processed
  <2>2. handler \in CouncilCalls
    BY <1>4, CouncilAssumption DEF EndRequest, CouncilTyped, CouncilCalls
  <2>3. /\ requests' = [requests EXCEPT ![handler] = IF @ = "torn" THEN "whole" ELSE @]
        /\ handler' = 0 /\ UNCHANGED <<hour, asked, replies, prompts, consensus, seen, killed>>
    BY <1>4 DEF EndRequest
  <2>4. requests' \in [CouncilCalls -> {"none", "torn", "whole", "removed"}]
    BY <2>2, <2>3 DEF CouncilTyped
  <2> QED BY <1>3, <2>1, <2>2, <2>3, <2>4 DEF CouncilTyped
<1>5. ASSUME NEW c \in CouncilCalls, TakeRequest(c) PROVE Counted'
  <2>1. BrokerAt'
    <3>1. \/ broker' = broker
          \/ /\ broker' = [does |-> "sends", call |-> c]
             /\ c \in Nat /\ c \in DOMAIN asked /\ ~Processed(c)
      BY <1>5, CouncilAssumption DEF TakeRequest, Waiting, CouncilCalls
    <3> QED BY <1>5, <3>1 DEF TakeRequest, BrokerAt, Processed
  <2>2. \/ requests' = requests
        \/ requests[c] = "torn" /\ requests' = [requests EXCEPT ![c] = "removed"]
    BY <1>5 DEF TakeRequest
  <2>3. /\ seen' = seen \/ seen' = NothingSeen
        /\ UNCHANGED <<hour, asked, replies, prompts, consensus, handler, killed>>
    BY <1>5 DEF TakeRequest
  <2>4. requests' \in [CouncilCalls -> {"none", "torn", "whole", "removed"}]
    BY <2>2 DEF CouncilTyped
  <2> QED BY <1>3, <2>1, <2>2, <2>3, <2>4 DEF CouncilTyped
<1>6. CASE Dispatch
  <2>1. /\ prompts' \in [CouncilCalls -> [Agents -> Nat]]
        /\ UNCHANGED <<hour, asked, requests, replies, consensus, handler, seen, killed>>
    <3>1. PICK to \in SUBSET Agents :
            prompts' = [prompts EXCEPT ![broker.call] =
                          [a \in Agents |-> IF a \in to THEN @[a] + 1 ELSE @[a]]]
      BY <1>6 DEF Dispatch, Reached
    <3>2. [a \in Agents |-> IF a \in to THEN prompts[broker.call][a] + 1
                                       ELSE prompts[broker.call][a]] \in [Agents -> Nat]
      BY <1>6, CouncilAssumption DEF Dispatch, BrokerAt, CouncilTyped, CouncilCalls
    <3> QED BY <1>6, <3>1, <3>2 DEF Dispatch, CouncilTyped
  <2>2. BrokerAt'
    BY <1>6 DEF Dispatch, BrokerAt, Processed
  <2> QED BY <2>1, <2>2 DEF CouncilTyped, PendingAlone, OfPairPending, Processed
<1>7. ASSUME NEW a \in Agents, Collect(a) PROVE Counted'
  <2>1. /\ seen' \in [Agents -> Parsed \cup {"unseen", "invalid"}]
        /\ UNCHANGED <<hour, asked, requests, replies, prompts, consensus, handler, broker, killed>>
    BY <1>7 DEF Collect, ReadAs, CouncilTyped
  <2> QED BY <2>1 DEF CouncilTyped, BrokerAt, PendingAlone, OfPairPending, Processed
<1>8. ASSUME NEW c \in CouncilCalls,
             \A d \in CouncilCalls : d # c => consensus'[d] = consensus[d],
             consensus'[c].status # "none", CouncilTyped', c \in DOMAIN asked,
             UNCHANGED <<asked, requests>>, BrokerAt'
      PROVE  Counted'
  <2>1. \A d \in DOMAIN asked : d \in CouncilCalls
    BY CouncilAssumption DEF CouncilTyped, CouncilCalls
  <2>2. \A d \in CouncilCalls : d > Len(asked) => d # c
    BY <1>8 DEF CouncilTyped, CouncilCalls
  <2>3. \A d \in CouncilCalls : Processed(d) => Processed(d)'
    BY <1>8 DEF Processed
  <2>4. \A d \in CouncilCalls : d > Len(asked) => requests'[d] = "none" /\ ~Processed(d)'
    BY <1>8, <2>2 DEF PendingAlone, Processed
  <2>5. PendingAlone'
    BY <1>8, <2>1, <2>3, <2>4 DEF PendingAlone, OfPairPending
  <2> QED BY <1>8, <2>5
<1>9. CASE BeginConsensus \/ EndConsensus
  <2>1. broker.call \in DOMAIN asked /\ broker.call \in CouncilCalls
    BY <1>9, CouncilAssumption
    DEF BeginConsensus, EndConsensus, BrokerAt, CouncilTyped, CouncilCalls
  <2>2. CASE BeginConsensus
    <3>1. CouncilTyped'
      BY <2>1, <2>2 DEF BeginConsensus, CouncilTyped
    <3>2. consensus'[broker.call].status = "torn"
      BY <2>1, <2>2 DEF BeginConsensus, CouncilTyped
    <3>3. BrokerAt'
      BY <2>1, <2>2, <3>2 DEF BeginConsensus, BrokerAt
    <3> QED BY <1>8, <2>1, <2>2, <3>1, <3>2, <3>3 DEF BeginConsensus, CouncilTyped
  <2>3. CASE EndConsensus
    <3>1. CouncilTyped'
      BY <2>1, <2>3, MajorityDirection, StatusKnown
      DEF EndConsensus, CouncilTyped, File, NothingSeen
    <3>2. consensus'[broker.call].status # "none"
      BY <2>1, <2>3, StatusKnown DEF EndConsensus, CouncilTyped, File
    <3>3. BrokerAt'
      BY <2>3 DEF EndConsensus, BrokerAt, Polls
    <3> QED BY <1>8, <2>1, <2>3, <3>1, <3>2, <3>3 DEF EndConsensus, CouncilTyped
  <2> QED BY <1>9, <2>2, <2>3
<1>10. CASE BrokerStarts \/ BrokerDies
  <2>1. BrokerAt'
    BY <1>10 DEF BrokerStarts, BrokerDies, BrokerAt, Polls, Down
  <2>2. CASE BrokerStarts
    BY <1>3, <2>1, <2>2 DEF BrokerStarts, CouncilTyped
  <2>3. CASE BrokerDies
    BY <1>3, <2>1, <2>3 DEF BrokerDies, CouncilTyped
  <2> QED BY <1>10, <2>2, <2>3
<1>11. ASSUME NEW c \in CouncilCalls, NEW a \in Agents,
              AgentOpens(c, a) \/ \E vote \in Parsed : AgentReplies(c, a, vote)
       PROVE  Counted'
  <2>1. /\ replies' \in [CouncilCalls -> [Agents -> Parsed \cup {"none", "torn"}]]
        /\ prompts' \in [CouncilCalls -> [Agents -> Nat]]
        /\ UNCHANGED <<hour, asked, requests, consensus, handler, broker, seen, killed>>
    <3>1. CASE AgentOpens(c, a)
      BY <3>1 DEF AgentOpens, CouncilTyped
    <3>2. ASSUME NEW vote \in Parsed, AgentReplies(c, a, vote)
          PROVE  /\ replies' \in [CouncilCalls -> [Agents -> Parsed \cup {"none", "torn"}]]
                 /\ UNCHANGED <<hour, asked, requests, prompts, consensus, handler, broker,
                               seen, killed>>
      BY <3>2 DEF AgentReplies, CouncilTyped
    <3> QED BY <1>11, <3>1, <3>2 DEF CouncilTyped
  <2> QED BY <2>1 DEF CouncilTyped, BrokerAt, PendingAlone, OfPairPending, Processed
<1> QED
  BY <1>1, <1>2, <1>4, <1>5, <1>6, <1>7, <1>9, <1>10, <1>11 DEF CouncilNext, Broker

\* A step of which the votes behind what is seen and served see nothing.
LEMMA VotesUntouched ==
  ASSUME Counted, Voted, killed = 0, UNCHANGED <<prompts, consensus, replies>>,
         \/ UNCHANGED <<broker, seen>>
         \/ broker.does # "collects" /\ \A a \in Agents : seen'[a] \notin Parsed
         \/ broker.does # "collects" /\ broker'.does = "polls"
  PROVE  (PromptedOnce /\ SeenStands)'
BY DEF Voted, PromptedOnce, SeenStands, Processed

LEMMA VotedStep == Counted /\ Voted /\ [CouncilNext]_councilVars => Voted'
<1> SUFFICES ASSUME Counted, Voted, [CouncilNext]_councilVars, killed' = 0
             PROVE  (PromptedOnce /\ SeenStands)'
  BY DEF Voted
<1>k. killed \in Nat
  BY DEF Counted, CouncilTyped
<1>0. CASE BrokerDies
  BY <1>0, <1>k DEF BrokerDies
<1>1. ASSUME killed = 0, HourPasses \/ EndRequest \/ BotDies \/ UNCHANGED councilVars
      PROVE (PromptedOnce /\ SeenStands)'
  BY <1>1, VotesUntouched DEF HourPasses, EndRequest, BotDies, councilVars
<1>2. ASSUME killed = 0, NEW p \in CouncilPairs, BeginRequest(p)
      PROVE (PromptedOnce /\ SeenStands)'
  BY <1>2, VotesUntouched DEF BeginRequest
<1>3. ASSUME killed = 0, NEW c \in CouncilCalls, TakeRequest(c)
      PROVE (PromptedOnce /\ SeenStands)'
  BY <1>3, VotesUntouched, NotParsed DEF TakeRequest, Polls, NothingSeen
<1>4. ASSUME killed = 0, BrokerStarts PROVE (PromptedOnce /\ SeenStands)'
  BY <1>4, VotesUntouched DEF BrokerStarts, Polls, Down, Voted
<1>5. ASSUME killed = 0, Dispatch PROVE (PromptedOnce /\ SeenStands)'
  <2> DEFINE b == broker.call
  <2>1. b \in CouncilCalls /\ ~Processed(b) /\ broker.does = "sends"
    BY <1>5, CouncilAssumption
    DEF Dispatch, Counted, BrokerAt, CouncilTyped, CouncilCalls
  <2>2. PICK to \in SUBSET {a \in Agents : replies[b][a] = "none"} :
          prompts' = [prompts EXCEPT ![b] =
                        [a \in Agents |-> IF a \in to THEN @[a] + 1 ELSE @[a]]]
    BY <1>5 DEF Dispatch, Reached
  <2>3. /\ broker'.does = "collects" /\ broker'.call = b
        /\ UNCHANGED <<replies, consensus, seen, killed>>
    BY <1>5 DEF Dispatch, Counted, BrokerAt
  <2>4. \A a \in Agents : prompts[b][a] = 0
    BY <2>1, <1>5 DEF Voted, PromptedOnce, Counted, CouncilTyped
  <2>5. /\ \A c \in CouncilCalls : c # b => prompts'[c] = prompts[c]
        /\ \A a \in Agents : prompts'[b][a] = IF a \in to THEN 1 ELSE 0
    BY <2>1, <2>2, <2>4 DEF Counted, CouncilTyped
  <2>6. PromptedOnce'
    <3>1. \A a \in Agents : a \in to => replies[b][a] = "none"
      BY <2>2
    <3>2. \A c \in CouncilCalls, a \in Agents : prompts[c][a] > 0 => Processed(c) /\ c # b
      BY <1>5, <2>1 DEF Voted, PromptedOnce
    <3> QED BY <1>5, <2>1, <2>3, <2>5, <3>1, <3>2 DEF Voted, PromptedOnce, Processed
  <2>7. SeenStands'
    BY <1>5, <2>1, <2>3 DEF Voted, SeenStands
  <2> QED BY <2>6, <2>7
<1>6. ASSUME killed = 0, NEW a \in Agents, Collect(a)
      PROVE (PromptedOnce /\ SeenStands)'
  <2>1. /\ UNCHANGED <<prompts, consensus, replies, broker>>
        /\ \A e \in Agents : \/ seen'[e] = seen[e]
                             \/ seen'[e] \in Parsed => seen'[e] = replies[broker.call][e]
    BY <1>6, NotParsed DEF Collect, ReadAs, Counted, CouncilTyped
  <2>2. SeenStands'
    BY <1>6, <2>1 DEF Voted, SeenStands
  <2> QED BY <1>6, <2>1, <2>2 DEF Voted, PromptedOnce, Processed
<1>7. ASSUME killed = 0, BeginConsensus PROVE (PromptedOnce /\ SeenStands)'
  <2> DEFINE b == broker.call
  <2>1. /\ b \in CouncilCalls /\ broker.does = "collects"
        /\ broker'.does = "writes" /\ broker'.call = b
        /\ UNCHANGED <<replies, prompts, seen>>
        /\ consensus' = [consensus EXCEPT ![b].status = "torn"]
    BY <1>7, CouncilAssumption
    DEF BeginConsensus, Counted, BrokerAt, CouncilTyped, CouncilCalls
  <2>2. /\ consensus'[b].status = "torn"
        /\ \A c \in CouncilCalls : c # b => consensus'[c] = consensus[c]
    BY <2>1 DEF Counted, CouncilTyped
  <2>3. PromptedOnce'
    BY <1>7, <2>1, <2>2 DEF Voted, PromptedOnce, Processed
  <2>4. SeenStands'
    BY <1>7, <2>1, <2>2 DEF Voted, SeenStands
  <2> QED BY <2>3, <2>4
<1>8. ASSUME killed = 0, EndConsensus PROVE (PromptedOnce /\ SeenStands)'
  <2>0. PICK b \in CouncilCalls : b = broker.call
    BY <1>8, CouncilAssumption
    DEF EndConsensus, Counted, BrokerAt, CouncilTyped, CouncilCalls
  <2>1. /\ broker.does = "writes" /\ broker' = Polls
        /\ consensus' = [consensus EXCEPT ![b] = File(Status, Majority)]
        /\ replies' = [replies EXCEPT ![b] = [a \in Agents |-> "none"]]
        /\ prompts' = [prompts EXCEPT ![b] = [a \in Agents |-> 0]]
    BY <1>8, <2>0 DEF EndConsensus
  <2>2. /\ \A c \in CouncilCalls : c # b =>
              consensus'[c] = consensus[c] /\ replies'[c] = replies[c] /\ prompts'[c] = prompts[c]
        /\ \A a \in Agents : prompts'[b][a] = 0
    BY <2>1 DEF Counted, CouncilTyped
  <2>3. PromptedOnce'
    BY <1>8, <2>1, <2>2 DEF Voted, PromptedOnce, Processed
  <2>4. SeenStands'
    BY <2>1 DEF SeenStands, Polls
  <2> QED BY <2>3, <2>4
<1>9. ASSUME killed = 0, NEW c \in CouncilCalls, NEW a \in Agents, ~Processed(c),
             replies[c][a] \in {"none", "torn"},
             \A d \in CouncilCalls : d # c => replies'[d] = replies[d],
             \A e \in Agents : e # a => replies'[c][e] = replies[c][e],
             UNCHANGED <<consensus, broker, seen>>, PromptedOnce'
      PROVE  (PromptedOnce /\ SeenStands)'
  <2>1. SeenStands'
    <3>1. \A e \in Agents : broker.does \in {"sends", "collects", "writes"} /\ seen[e] \in Parsed =>
             broker.call # c \/ e # a
      BY <1>9, NotParsed DEF Voted, SeenStands
    <3>2. broker.does \in {"sends", "collects", "writes"} => broker.call \in CouncilCalls
      BY CouncilAssumption DEF Counted, BrokerAt, CouncilTyped, CouncilCalls
    <3> QED BY <1>9, <3>1, <3>2 DEF Voted, SeenStands
  <2> QED BY <1>9, <2>1
<1>10. ASSUME killed = 0, NEW c \in CouncilCalls, NEW a \in Agents, AgentOpens(c, a)
       PROVE (PromptedOnce /\ SeenStands)'
  <2>1. prompts[c][a] = 1 /\ replies[c][a] = "none"
    BY <1>10 DEF AgentOpens, Voted, PromptedOnce
  <2>2. /\ \A d \in CouncilCalls : d # c => replies'[d] = replies[d] /\ prompts'[d] = prompts[d]
        /\ \A e \in Agents : e # a => replies'[c][e] = replies[c][e]
                                    /\ prompts'[c][e] = prompts[c][e]
        /\ prompts'[c][a] = 0
    BY <1>10, <2>1 DEF AgentOpens, Counted, CouncilTyped
  <2>3. PromptedOnce'
    BY <1>10, <2>2 DEF AgentOpens, Voted, PromptedOnce, Processed
  <2> QED BY <1>9, <1>10, <2>1, <2>2, <2>3 DEF AgentOpens
<1>11. ASSUME killed = 0, NEW c \in CouncilCalls, NEW a \in Agents, NEW vote \in Parsed,
              AgentReplies(c, a, vote) PROVE (PromptedOnce /\ SeenStands)'
  <2>1. /\ \A d \in CouncilCalls : d # c => replies'[d] = replies[d]
        /\ \A e \in Agents : e # a => replies'[c][e] = replies[c][e]
    BY <1>11 DEF AgentReplies, Counted, CouncilTyped
  <2>2. PromptedOnce'
    BY <1>11, <2>1 DEF AgentReplies, Voted, PromptedOnce, Processed
  <2> QED BY <1>9, <1>11, <2>1, <2>2 DEF AgentReplies
<1>12. killed = 0 \/ BrokerDies
  BY <1>k DEF CouncilNext, Broker, councilVars, HourPasses, BeginRequest, EndRequest, BotDies,
     TakeRequest, Dispatch, Collect, BeginConsensus, EndConsensus, BrokerStarts, AgentOpens,
     AgentReplies
<1> QED
  BY <1>0, <1>1, <1>2, <1>3, <1>4, <1>5, <1>6, <1>7, <1>8, <1>10, <1>11, <1>12
  DEF CouncilNext, Broker

-----------------------------------------------------------------------------
LEMMA PendingOne == Counted => OneRequestPending
<1> SUFFICES ASSUME Counted, NEW p \in CouncilPairs PROVE Cardinality(Pending(p)) <= 1
  BY DEF OneRequestPending, Pending
<1>1. CASE Pending(p) = {}
  BY <1>1, FS_EmptySet
<1>2. CASE Pending(p) # {}
  <2>1. PICK c : Pending(p) = {c}
    BY <1>2 DEF Counted, PendingAlone, Pending, CallsFor, OfPairPending
  <2> QED BY <2>1, FS_Singleton
<1> QED BY <1>1, <1>2

\* What EndConsensus writes is behind a response read, and what is read stands.
LEMMA BeliefBacked ==
  ASSUME Counted, Voted, [CouncilNext]_councilVars, NEW c \in CouncilCalls,
         consensus'[c] # consensus[c], consensus'[c].status \in {"completed", "partial"}
  PROVE  \E a \in Agents :
           \/ replies[c][a] = consensus'[c].direction
           \/ consensus'[c].direction = "neutral" /\ replies[c][a] \in Parsed
           \/ killed > 0
<1> SUFFICES ASSUME killed = 0
             PROVE  \E a \in Agents :
                      \/ replies[c][a] = consensus'[c].direction
                      \/ consensus'[c].direction = "neutral" /\ replies[c][a] \in Parsed
  BY CouncilAssumption DEF Counted, CouncilTyped
<1>1. BeginConsensus \/ EndConsensus
  BY DEF CouncilNext, Broker, councilVars, HourPasses, BeginRequest, EndRequest, BotDies,
     TakeRequest, Dispatch, Collect, BrokerStarts, BrokerDies, AgentOpens, AgentReplies
<1>2. broker.call \in CouncilCalls
  BY <1>1, CouncilAssumption
  DEF BeginConsensus, EndConsensus, Counted, BrokerAt, CouncilTyped, CouncilCalls
<1>3. ~BeginConsensus /\ c = broker.call
  <2>1. CASE BeginConsensus
    BY <1>2, <2>1 DEF BeginConsensus, Counted, CouncilTyped
  <2>2. CASE EndConsensus /\ ~BeginConsensus
    BY <1>2, <2>2 DEF EndConsensus, Counted, CouncilTyped
  <2> QED BY <1>1, <2>1, <2>2
<1>4. broker.does = "writes" /\ consensus'[c] = File(Status, Majority)
  BY <1>1, <1>2, <1>3 DEF EndConsensus, Counted, CouncilTyped
<1>5. Status \in {"completed", "partial"} /\ consensus'[c].direction = Majority
  BY <1>4 DEF File
<1>6. PICK a \in Agents : seen[a] \in Parsed /\ (Majority = "neutral" \/ Majority = seen[a])
  BY <1>5, MajorityVoted DEF Counted
<1>7. replies[c][a] = seen[a]
  BY <1>3, <1>4, <1>6 DEF Voted, SeenStands
<1> QED BY <1>5, <1>6, <1>7

\* However the bot and the broker are killed, the agents are asked once at a time
\* about a pair (llm_council_handler.py, llm_council_broker.py).
THEOREM OneRequestPendingHolds == CouncilSpec => []OneRequestPending
<1>1. CouncilSpec => []Counted
  BY CouncilStarts, CountedStep, PTL DEF CouncilSpec
<1> QED BY <1>1, PendingOne, PTL

\* With any agents and directions, a consensus that is served has a finished response
\* behind it, a vote for its direction unless it is neutral (compute_consensus).
THEOREM BeliefHasVoteHolds == CouncilSpec => BeliefHasVote
<1>1. Counted /\ Voted /\ [CouncilNext]_councilVars => (Counted /\ Voted)'
  BY CountedStep, VotedStep
<1>2. CouncilSpec => [](Counted /\ Voted)
  BY CouncilStarts, <1>1, PTL DEF CouncilSpec
<1> DEFINE Behind ==
  \A c \in CouncilCalls :
    consensus'[c] # consensus[c] /\ consensus'[c].status \in {"completed", "partial"} =>
      \E a \in Agents :
        \/ replies[c][a] = consensus'[c].direction
        \/ consensus'[c].direction = "neutral" /\ replies[c][a] \in Parsed
        \/ killed > 0
<1>3. Counted /\ Voted /\ [CouncilNext]_councilVars => [Behind]_councilVars
  BY BeliefBacked
<1>4. CouncilSpec => [][Behind]_councilVars
  BY <1>2, <1>3, PTL DEF CouncilSpec
<1> QED BY <1>4 DEF BeliefHasVote

-----------------------------------------------------------------------------
(***************************************************************************)
(* The brain repeats no trade it can see and sweeps no open root that it   *)
(* saw, for any assets, orders, failures, ages and renamed pairs.          *)
(***************************************************************************)
Pairs == BrainPairs \cup {<<"none", "none">>}
Reasons == {"none", "other", "proposal", "unchecked", "sweep"}
Unreads == {"nothing", "memory", "orders"}
OrderType ==
  [status : {"none", "live", "gone"}, pair : Pairs, why : Reasons, age : Nat,
   unread : Unreads]
ChoiceType == [pair : Pairs, why : Reasons \ {"sweep"}, unread : Unreads]

BrainTyped == order \in [OrderIds -> OrderType] /\ choice \in ChoiceType

\* The orders are numbered as they come, so that the next number is a new one.
Numbered == \E k \in 0 .. MaxOrders : OrderIds \ Unused = 1 .. k

\* What is about to be proposed is in flight on no order but somebody else's, or
\* on one the decision could not know of.
ChoiceFresh ==
  step = "act" /\ choice.why = "proposal" =>
    \A o \in Live : order[o].why # "other" /\ order[o].pair = choice.pair =>
      Missed(o, choice.unread)

\* The open roots not seen account for all that are not in the cycle's view, and
\* the wallet sweep has nothing of the view on its list.
SeenInView == step \in Looked => roots \ unseen \subseteq view
SweepList == step = "sellUntracked" => \A x \in todo : x \in BrainAssets \ view

OrdersInv == Numbered /\ RepeatsExplained
SweepInv == SeenInView /\ SweepList

BrainInv == BrainTyped /\ OrdersInv /\ ChoiceFresh /\ SweepInv

-----------------------------------------------------------------------------

LEMMA NothingTyped == Nothing \in ChoiceType
BY DEF Nothing, ChoiceType, Pairs, Reasons, Unreads

\* Nothing is ordered at the beginning.
LEMMA BrainInvInit == BrainInit => BrainInv
<1> SUFFICES ASSUME BrainInit
             PROVE  BrainInv
  OBVIOUS
<1>1. /\ \A o \in OrderIds : order[o] = NoOrder
      /\ order = [o \in OrderIds |-> NoOrder] /\ choice = Nothing /\ step = "asleep"
  BY DEF BrainInit
<1>2. BrainTyped
  <2>1. NoOrder \in OrderType
    BY DEF NoOrder, OrderType, Pairs, Reasons, Unreads
  <2> QED
    BY <1>1, <2>1, NothingTyped DEF BrainTyped
<1>3. Live = {} /\ Unused = OrderIds
  BY <1>1 DEF Live, Unused, NoOrder
<1>4. Numbered
  <2>1. OrderIds \ Unused = 1 .. 0
    BY <1>3
  <2> QED
    BY <2>1, BrainAssumption DEF Numbered
<1>5. RepeatsExplained
  BY <1>3 DEF RepeatsExplained
<1> QED
  BY <1>1, <1>2, <1>4, <1>5
     DEF BrainInv, OrdersInv, ChoiceFresh, SweepInv, SeenInView, Looked, SweepList

\* Orders that end, or only grow older, disturb nothing.
LEMMA Quieter ==
  ASSUME BrainInv, order' \in [OrderIds -> OrderType], remembered' = remembered,
         \A o \in OrderIds :
           /\ order'[o].status = "none" <=> order[o].status = "none"
           /\ order'[o].status = "live" =>
                /\ order[o].status = "live"
                /\ order'[o].pair = order[o].pair /\ order'[o].why = order[o].why
                /\ order'[o].unread = order[o].unread
                /\ order'[o].age >= order[o].age
  PROVE  /\ OrdersInv'
         /\ step' = step /\ choice' = choice => ChoiceFresh'
<1>1. Unused' = Unused /\ Live' \subseteq Live
  BY DEF Unused, Live
<1>2. Numbered'
  BY <1>1 DEF BrainInv, OrdersInv, Numbered
<1>3. \A o \in Live' : /\ o \in Live /\ o \in OrderIds /\ order'[o].pair = order[o].pair
                       /\ order'[o].why = order[o].why /\ order'[o].unread = order[o].unread
                       /\ order'[o].age >= order[o].age
  BY DEF Live
<1>4. order \in [OrderIds -> OrderType]
  BY DEF BrainInv, BrainTyped
<1>5. RepeatsExplained'
  <2> SUFFICES ASSUME NEW o \in Live', NEW p \in Live', o < p,
                      order'[o].pair = order'[p].pair, order'[o].why # "other",
                      order'[p].why = "proposal"
               PROVE  Missed(o, order[p].unread)'
    BY DEF RepeatsExplained
  <2>1. Missed(o, order[p].unread)
    BY <1>3 DEF BrainInv, OrdersInv, RepeatsExplained
  <2>2. order'[p].unread = order[p].unread
    BY <1>3
  <2> QED
    BY <1>3, <1>4, <2>1, <2>2, BrainAssumption DEF Missed, Stale, OrderType
<1>6. ASSUME step' = step, choice' = choice
      PROVE  ChoiceFresh'
  <2> SUFFICES ASSUME step = "act", choice.why = "proposal",
                      NEW o \in Live', order'[o].why # "other",
                      order'[o].pair = choice.pair
               PROVE  Missed(o, choice.unread)'
    BY <1>6 DEF ChoiceFresh
  <2>1. Missed(o, choice.unread)
    BY <1>3 DEF BrainInv, ChoiceFresh
  <2> QED
    BY <1>3, <1>4, <1>6, <2>1, BrainAssumption DEF Missed, Stale, OrderType
<1> QED
  BY <1>2, <1>5, <1>6 DEF OrdersInv

\* An executed or cancelled order keeps its number.
LEMMA EndedStep ==
  ASSUME BrainInv, NEW o \in Live, order' = Ended(o), remembered' = remembered
  PROVE  /\ order' \in [OrderIds -> OrderType]
         /\ OrdersInv'
         /\ step' = step /\ choice' = choice => ChoiceFresh'
<1> DEFINE new == IF o \in remembered
                    THEN [GoneOrder EXCEPT !.pair = order[o].pair, !.age = order[o].age]
                    ELSE GoneOrder
<1>1. order \in [OrderIds -> OrderType] /\ o \in OrderIds /\ order[o].status = "live"
  BY DEF BrainInv, BrainTyped, Live
<1>2. new \in OrderType /\ new.status = "gone"
  BY <1>1, BrainAssumption DEF GoneOrder, NoOrder, OrderType, Pairs, Reasons, Unreads
<1>3. order' = [order EXCEPT ![o] = new]
  BY DEF Ended
<1> HIDE DEF new
<1>4. order' \in [OrderIds -> OrderType]
  BY <1>1, <1>2, <1>3
<1>5. \A d \in OrderIds : order'[d] = IF d = o THEN new ELSE order[d]
  BY <1>1, <1>3
<1>6. \A d \in OrderIds : order[d].age \in Nat
  BY <1>1 DEF OrderType
<1> QED
  BY <1>1, <1>2, <1>4, <1>5, <1>6, Quieter

\* A new order gets a number above all others.
LEMMA NewOrderStep ==
  ASSUME BrainInv, Unused # {}, remembered' \subseteq remembered \union {NextId},
         NEW pair \in Pairs, NEW why \in Reasons, NEW unread \in Unreads,
         NewOrder(NextId, pair, why, unread),
         why = "proposal" =>
           \A o \in Live : order[o].why # "other" /\ order[o].pair = pair =>
             Missed(o, unread)
  PROVE  /\ order' \in [OrderIds -> OrderType]
         /\ OrdersInv'
         /\ why = "other" /\ step' = step /\ choice' = choice => ChoiceFresh'
         /\ NextId \in OrderIds /\ order'[NextId].pair = pair
         /\ \A o \in OrderIds : order[o].status = "none" /\ order'[o].status = "live" =>
              o = NextId
<1>1. PICK k \in 0 .. MaxOrders : OrderIds \ Unused = 1 .. k
  BY DEF BrainInv, OrdersInv, Numbered
<1>2. MaxOrders \in Nat /\ k \in Nat /\ OrderIds = 1 .. MaxOrders
  BY BrainAssumption DEF OrderIds
<1>3. Cardinality(1 .. k) = k
  BY <1>2, FS_Interval
<1>4. NextId = k + 1
  BY <1>1, <1>3 DEF NextId
<1>5. k + 1 \in OrderIds
  <2>1. Unused \subseteq OrderIds
    BY DEF Unused
  <2>2. k # MaxOrders
    BY <1>1, <1>2, <2>1
  <2> QED
    BY <1>2, <2>2
<1> DEFINE new == [status |-> "live", pair |-> pair, why |-> why, age |-> 0,
                   unread |-> unread]
<1>6. order \in [OrderIds -> OrderType] /\ new \in OrderType
  BY DEF BrainInv, BrainTyped, OrderType
<1>7. order' = [order EXCEPT ![k + 1] = new]
  BY <1>4 DEF NewOrder
<1>8. new.status = "live" /\ new.pair = pair /\ new.why = why /\ new.unread = unread
  OBVIOUS
<1> HIDE DEF new
<1>9. /\ order'[k + 1] = new
      /\ \A d \in OrderIds : d # k + 1 => order'[d] = order[d]
      /\ order' \in [OrderIds -> OrderType]
  BY <1>5, <1>6, <1>7
<1>10. \A d \in OrderIds : order[d].status # "none" <=> d <= k
  BY <1>1, <1>2 DEF Unused
<1>11. Numbered'
  <2>1. \A d \in OrderIds : order'[d].status # "none" <=> d <= k + 1
    BY <1>2, <1>5, <1>8, <1>9, <1>10
  <2>2. OrderIds \ Unused' = 1 .. k + 1 /\ k + 1 \in 0 .. MaxOrders
    BY <1>2, <1>5, <2>1 DEF Unused
  <2> QED
    BY <2>2 DEF Numbered
<1>12. \A d \in Live' : d = k + 1 \/ (d \in Live /\ order'[d] = order[d] /\ d # k + 1)
  BY <1>2, <1>9, <1>10 DEF Live
<1>13. \A d \in Live : d <= k /\ d \in OrderIds /\ order'[d] = order[d]
  BY <1>2, <1>9, <1>10 DEF Live
<1>14. RepeatsExplained'
  <2> SUFFICES ASSUME NEW o \in Live', NEW p \in Live', o < p,
                      order'[o].pair = order'[p].pair, order'[o].why # "other",
                      order'[p].why = "proposal"
               PROVE  Missed(o, order[p].unread)'
    BY DEF RepeatsExplained
  <2>1. CASE p = k + 1
    <3>1. o # k + 1
      BY <1>2, <1>9, <2>1
    <3>2. o \in Live /\ order'[o] = order[o] /\ order'[p] = new
      BY <1>9, <1>12, <2>1, <3>1
    <3>3. why = "proposal" /\ order[o].why # "other" /\ order[o].pair = pair
      BY <1>8, <3>2
    <3>4. Missed(o, unread)
      BY <3>2, <3>3
    <3>5. order'[p].unread = unread
      BY <1>8, <3>2
    <3> QED
      BY <1>4, <1>13, <3>1, <3>2, <3>4, <3>5 DEF Missed, Stale
  <2>2. CASE p # k + 1
    <3>1. p \in Live /\ p <= k /\ order'[p] = order[p]
      BY <1>12, <1>13, <2>2
    <3>2. o # k + 1
      BY <1>2, <3>1 DEF Live
    <3>3. o \in Live /\ order'[o] = order[o]
      BY <1>12, <3>2
    <3>4. Missed(o, order[p].unread)
      BY <3>1, <3>3 DEF BrainInv, OrdersInv, RepeatsExplained
    <3> QED
      BY <1>4, <1>13, <3>1, <3>2, <3>3, <3>4 DEF Missed, Stale
  <2> QED
    BY <2>1, <2>2
<1>15. ASSUME why = "other", step' = step, choice' = choice
       PROVE  ChoiceFresh'
  <2> SUFFICES ASSUME step = "act", choice.why = "proposal",
                      NEW o \in Live', order'[o].why # "other",
                      order'[o].pair = choice.pair
               PROVE  Missed(o, choice.unread)'
    BY <1>15 DEF ChoiceFresh
  <2>1. o # k + 1
    BY <1>8, <1>9, <1>15
  <2>2. o \in Live /\ order'[o] = order[o]
    BY <1>12, <2>1
  <2>3. Missed(o, choice.unread)
    BY <2>2 DEF BrainInv, ChoiceFresh
  <2> QED
    BY <1>4, <1>13, <1>15, <2>1, <2>2, <2>3 DEF Missed, Stale
<1> QED
  BY <1>4, <1>5, <1>8, <1>9, <1>11, <1>14, <1>15 DEF OrdersInv

-----------------------------------------------------------------------------

\* The decision sees every order of the brain on the exchange, by one of its names,
\* or knows that it could not look.
LEMMA DecideStep == BrainInv /\ Decide => BrainInv'
<1> SUFFICES ASSUME BrainInv, Decide
             PROVE  BrainInv'
  OBVIOUS
<1>1. PICK noMemory, noOrders, noBlocks \in BOOLEAN,
           attractive \in Attractive, affordable \in Affordable :
        LET pending == PendingPairs(noMemory, noOrders)
            barred == Barred(noBlocks)
            wanted == attractive \ (pending \union barred)
        IN
        /\ Failing(Count(noMemory) + Count(noOrders) + Count(noBlocks))
        /\ \/ /\ choice' \in Proposals(wanted, Unread(noMemory, noOrders))
                              \union Substitutes(wanted, affordable, barred)
                              \union Exits(barred) \union {Nothing}
              /\ UNCHANGED blocked
           \/ /\ choice' \in Exits(barred) \union {Nothing}
              /\ \E x \in Short(wanted, affordable) :
                   blocked' = blocked \union {<<x, "cross">>}
  BY DEF Decide
<1> DEFINE unread == Unread(noMemory, noOrders)
<1>2. step' = "act" /\ UNCHANGED <<order, roots, remembered>>
  BY DEF Decide, exchange
<1>3. ASSUME choice' \in ChoiceType, ChoiceFresh'
      PROVE  BrainInv'
  <2>1. OrdersInv'
    BY <1>2
       DEF BrainInv, OrdersInv, Numbered, Unused, RepeatsExplained, Missed, Stale, Live
  <2>2. UNCHANGED <<view, unseen>> /\ step \in Looked
    BY DEF Decide, seeing, Looked
  <2>3. SweepInv'
    BY <1>2, <2>2 DEF BrainInv, SweepInv, SeenInView, SweepList
  <2> QED
    BY <1>2, <1>3, <2>1, <2>3 DEF BrainInv, BrainTyped
<1>4. ASSUME NEW p \in BrainPairs, choice' = Order(p, "proposal", unread),
             p \notin PendingPairs(noMemory, noOrders)
      PROVE  BrainInv'
  <2>1. choice'.pair = p /\ choice'.unread = unread /\ choice'.why = "proposal"
    BY <1>4 DEF Order
  <2>2. unread \in Unreads
    BY DEF Unread, Unreads
  <2>3. choice' \in ChoiceType
    BY <1>4, <2>2 DEF Order, ChoiceType, Pairs, Reasons
  <2>4. ASSUME NEW o \in Live, order[o].pair = p
        PROVE  Missed(o, unread)
    <3>1. CASE noOrders
      BY <3>1 DEF Unread, Missed
    <3>2. CASE ~noOrders
      <4>1. Listed(p) # p
        BY <1>4, <2>4, <3>2 DEF PendingPairs, OpenOrders, Live
      <4>2. p \in Renamed
        BY <4>1 DEF Listed
      <4>3. noMemory => unread = "memory"
        BY <3>2 DEF Unread
      <4>4. ~noMemory => o \notin remembered \ Stale
        BY <1>4, <2>4 DEF PendingPairs
      <4> QED
        BY <2>4, <4>2, <4>3, <4>4 DEF Missed
    <3> QED
      BY <3>1, <3>2
  <2>5. \A o \in Live : Missed(o, unread) => Missed(o, choice.unread)'
    BY <1>2, <2>1 DEF Missed, Stale
  <2>6. ChoiceFresh'
    BY <1>2, <2>1, <2>4, <2>5 DEF ChoiceFresh, Live
  <2> QED
    BY <1>3, <2>3, <2>6
<1>5. CASE (\E x \in BrainAssets : choice' = Order(Usd(x), "unchecked", "nothing"))
             \/ choice' = Nothing
  <2>1. choice' \in ChoiceType
    BY <1>5, NothingTyped DEF Order, ChoiceType, Usd, Pairs, BrainPairs, Reasons, Unreads
  <2>2. choice'.why # "proposal"
    BY <1>5 DEF Order, Nothing
  <2> QED
    BY <1>3, <2>1, <2>2 DEF ChoiceFresh
<1> DEFINE barred == Barred(noBlocks)
           wanted == attractive \ (PendingPairs(noMemory, noOrders) \union barred)
<1>6. CASE choice' \in Proposals(wanted, unread)
  <2>1. PICK p \in wanted : choice' = Order(p, "proposal", unread)
    BY <1>6 DEF Proposals
  <2>2. p \in BrainPairs /\ p \notin PendingPairs(noMemory, noOrders)
    BY DEF Attractive
  <2> QED
    BY <1>4, <2>1, <2>2
<1>7. CASE choice' \in Substitutes(wanted, affordable, barred)
  BY <1>5, <1>7 DEF Substitutes, Short
<1>8. CASE choice' \in Exits(barred)
  BY <1>5, <1>8 DEF Exits
<1>9. CASE choice' = Nothing
  BY <1>5, <1>9
<1> QED
  BY <1>1, <1>6, <1>7, <1>8, <1>9

\* The steps of a cycle that place no order.
LEMMA QuietStep ==
  ASSUME BrainInv, UNCHANGED <<order, remembered>>, choice' = choice \/ choice' = Nothing,
         step' # "act" \/ (step' = step /\ choice' = choice)
  PROVE  BrainTyped' /\ OrdersInv' /\ ChoiceFresh'
<1>1. BrainTyped'
  BY NothingTyped DEF BrainInv, BrainTyped
<1>2. OrdersInv'
  BY DEF BrainInv, OrdersInv, Numbered, Unused, RepeatsExplained, Missed, Stale, Live
<1>3. ChoiceFresh'
  BY DEF BrainInv, ChoiceFresh, Missed, Stale, Live
<1> QED
  BY <1>1, <1>2, <1>3

\* The other steps of a cycle.
LEMMA CycleStep == BrainInv /\ (Cycle \/ CycleFails) => BrainInv'
<1> SUFFICES ASSUME BrainInv, Cycle \/ CycleFails
             PROVE  BrainInv'
  OBVIOUS
<1>1. BrainTyped /\ OrdersInv /\ ChoiceFresh /\ SeenInView /\ SweepList
  BY DEF BrainInv, SweepInv
<1>2. CASE StartCycle \/ Recall \/ ListGhosts \/ EndCycle \/ CycleFails
  <2>1. /\ UNCHANGED <<order, remembered>> /\ (choice' = choice \/ choice' = Nothing)
        /\ step' \notin Looked
    <3>1. CASE StartCycle \/ Recall \/ ListGhosts
      BY <3>1 DEF StartCycle, Recall, ListGhosts, exchange, memories, Looked
    <3>2. CASE EndCycle \/ CycleFails
      BY <3>2 DEF EndCycle, CycleFails, exchange, memories, Looked
    <3> QED
      BY <1>2, <3>1, <3>2
  <2>2. SweepInv' /\ step' # "act"
    BY <2>1 DEF SweepInv, SeenInView, SweepList, Looked
  <2> QED
    BY <2>1, <2>2, QuietStep DEF BrainInv
<1>3. CASE Observe
  <2>1. /\ UNCHANGED <<order, remembered, choice>> /\ step' = "decide"
        /\ roots' \ unseen' \subseteq view'
    BY <1>3 DEF Observe, exchange, memories
  <2> QED
    BY <2>1, QuietStep DEF BrainInv, SweepInv, SeenInView, SweepList
<1>4. CASE NotPlaced \/ NotPermitted \/ FindDust
  <2>1. /\ UNCHANGED <<order, remembered, roots, view, unseen>> /\ step \in Looked
        /\ (choice' = choice \/ choice' = Nothing) /\ step' \in {"dust", "sellDust"}
    BY <1>4 DEF NotPlaced, NotPermitted, FindDust, exchange, memories, seeing, Looked
  <2> QED
    BY <1>1, <2>1, QuietStep DEF BrainInv, SweepInv, SeenInView, SweepList
<1>5. CASE FindUntracked
  <2>1. /\ UNCHANGED <<order, remembered, roots, choice, view, unseen>>
        /\ step \in Looked /\ step' = "sellUntracked"
        /\ \A x \in todo' : x \in BrainAssets \ view
    BY <1>5 DEF FindUntracked, exchange, memories, seeing, Untracked, Looked
  <2> QED
    BY <1>1, <2>1, QuietStep DEF BrainInv, SweepInv, SeenInView, SweepList
<1>6. ASSUME NEW o \in OrderIds, CancelStale(o)
      PROVE  BrainInv'
  <2>1. /\ UNCHANGED <<remembered, step, choice>> /\ step \notin Looked
        /\ (order' = order \/ (o \in Live /\ order' = Ended(o)))
    BY <1>6 DEF CancelStale, memories, Looked
  <2>2. SweepInv'
    BY <2>1 DEF SweepInv, SeenInView, SweepList, Looked
  <2>3. CASE order' = order
    BY <2>1, <2>2, <2>3, QuietStep DEF BrainInv
  <2>4. CASE o \in Live /\ order' = Ended(o)
    BY <1>1, <2>1, <2>2, <2>4, EndedStep DEF BrainInv, BrainTyped
  <2> QED
    BY <2>1, <2>3, <2>4
<1>7. CASE Place
  <2>1. /\ step = "act" /\ step' = "dust" /\ Unused # {} /\ choice' = Nothing
        /\ UNCHANGED <<roots, view, unseen>> /\ remembered' \subseteq remembered \union {NextId}
        /\ NewOrder(NextId, choice.pair, choice.why, choice.unread)
    BY <1>7 DEF Place, Write, seeing
  <2>2. choice.pair \in Pairs /\ choice.why \in Reasons /\ choice.unread \in Unreads
    BY <1>1 DEF BrainTyped, ChoiceType
  <2>3. choice.why = "proposal" =>
          \A o \in Live : order[o].why # "other" /\ order[o].pair = choice.pair =>
            Missed(o, choice.unread)
    BY <1>1, <2>1 DEF ChoiceFresh
  <2>4. order' \in [OrderIds -> OrderType] /\ OrdersInv'
    BY <2>1, <2>2, <2>3, NewOrderStep
  <2>5. SweepInv'
    BY <1>1, <2>1 DEF SweepInv, SeenInView, SweepList, Looked
  <2> QED
    BY <2>1, <2>4, <2>5, NothingTyped DEF BrainInv, BrainTyped, ChoiceFresh
<1>8. ASSUME NEW x \in BrainAssets, Sweep(x)
      PROVE  BrainInv'
  <2>1. /\ step \in {"sellDust", "sellUntracked"} /\ todo' \subseteq todo
        /\ UNCHANGED <<roots, remembered, step, view, unseen, choice>>
    BY <1>8 DEF Sweep, memories, seeing
  <2>2. ChoiceFresh' /\ SweepInv'
    BY <1>1, <2>1 DEF ChoiceFresh, SweepInv, SeenInView, SweepList
  <2>3. CASE order' = order
    BY <2>1, <2>2, <2>3, QuietStep DEF BrainInv
  <2>4. CASE order' # order
    <3>1. PICK why \in {"unchecked", "sweep"} :
            Unused # {} /\ NewOrder(NextId, Usd(x), why, "nothing")
      <4>1. /\ Unused # {}
            /\ NewOrder(NextId, Usd(x),
                        IF step = "sellDust" THEN "unchecked" ELSE "sweep", "nothing")
        BY <1>8, <2>4 DEF Sweep
      <4> QED
        BY <4>1
    <3>2. Usd(x) \in Pairs /\ why \in Reasons /\ "nothing" \in Unreads
      BY DEF Usd, Pairs, BrainPairs, Reasons, Unreads
    <3>3. order' \in [OrderIds -> OrderType] /\ OrdersInv'
      BY <2>1, <3>1, <3>2, NewOrderStep
    <3> QED
      BY <1>1, <2>1, <2>2, <3>3 DEF BrainInv, BrainTyped
  <2> QED
    BY <2>3, <2>4
<1> QED
  BY <1>2, <1>3, <1>4, <1>5, <1>6, <1>7, <1>8, DecideStep DEF Cycle

\* Time, the exchange, the tree and the others who trade on the account.
LEMMA WorldStep ==
  ASSUME BrainInv,
         \/ OrdersAge
         \/ \E o \in OrderIds : Executes(o)
         \/ \E p \in BrainPairs : OthersOrder(p)
         \/ \E x \in BrainAssets : RootOpens(x) \/ RootCloses(x)
  PROVE  BrainInv'
<1>1. BrainTyped /\ OrdersInv /\ ChoiceFresh /\ SeenInView /\ SweepList
  BY DEF BrainInv, SweepInv
<1>2. UNCHANGED <<remembered, step, todo, view, choice>>
  BY DEF OrdersAge, Executes, OthersOrder, RootOpens, RootCloses, memories, seeing
<1>3. ASSUME UNCHANGED <<roots, unseen>>, order' \in [OrderIds -> OrderType],
             OrdersInv', ChoiceFresh'
      PROVE  BrainInv'
  BY <1>1, <1>2, <1>3 DEF BrainInv, BrainTyped, SweepInv, SeenInView, SweepList
<1>4. CASE OrdersAge
  <2>1. order' = [o \in OrderIds |->
                    IF o \in Young THEN [order[o] EXCEPT !.age = @ + 1] ELSE order[o]]
    BY <1>4 DEF OrdersAge
  <2>2. \A d \in OrderType : [d EXCEPT !.age = @ + 1] =
          [status |-> d.status, pair |-> d.pair, why |-> d.why, age |-> d.age + 1,
           unread |-> d.unread]
    BY DEF OrderType
  <2>3. \A o \in OrderIds : /\ order'[o] \in OrderType
                            /\ order'[o].status = order[o].status
                            /\ order'[o].pair = order[o].pair
                            /\ order'[o].why = order[o].why
                            /\ order'[o].unread = order[o].unread
                            /\ order'[o].age >= order[o].age
    <3> SUFFICES ASSUME NEW o \in OrderIds
                 PROVE  /\ order'[o] \in OrderType
                        /\ order'[o].status = order[o].status
                        /\ order'[o].pair = order[o].pair
                        /\ order'[o].why = order[o].why
                        /\ order'[o].unread = order[o].unread
                        /\ order'[o].age >= order[o].age
      OBVIOUS
    <3>1. order[o] \in OrderType /\ order[o].age \in Nat
      BY <1>1 DEF BrainTyped, OrderType
    <3>2. CASE o \in Young
      <4>1. order'[o] = [status |-> order[o].status, pair |-> order[o].pair,
                         why |-> order[o].why, age |-> order[o].age + 1,
                         unread |-> order[o].unread]
        BY <2>1, <2>2, <3>1, <3>2
      <4>2. order[o].age + 1 \in Nat /\ order[o].age + 1 >= order[o].age
        BY <3>1
      <4> QED
        BY <3>1, <4>1, <4>2 DEF OrderType
    <3>3. CASE o \notin Young
      BY <2>1, <3>1, <3>3
    <3> QED
      BY <3>2, <3>3
  <2>4. order' \in [OrderIds -> OrderType]
    BY <2>1, <2>3
  <2>5. UNCHANGED <<roots, unseen>>
    BY <1>4 DEF OrdersAge, seeing
  <2> QED
    BY <1>2, <1>3, <2>3, <2>4, <2>5, Quieter
<1>5. ASSUME NEW o \in OrderIds, Executes(o)
      PROVE  BrainInv'
  BY <1>2, <1>3, <1>5, EndedStep DEF Executes, seeing
<1>6. ASSUME NEW p \in BrainPairs, OthersOrder(p)
      PROVE  BrainInv'
  <2>1. /\ Unused # {} /\ NewOrder(NextId, p, "other", "nothing")
        /\ UNCHANGED <<roots, unseen>>
    BY <1>6 DEF OthersOrder, seeing
  <2>2. p \in Pairs /\ "other" \in Reasons /\ "nothing" \in Unreads
    BY DEF Pairs, Reasons, Unreads
  <2>3. order' \in [OrderIds -> OrderType] /\ OrdersInv' /\ ChoiceFresh'
    BY <1>2, <2>1, <2>2, NewOrderStep
  <2> QED
    BY <1>3, <2>1, <2>3
<1>7. ASSUME NEW x \in BrainAssets, RootOpens(x) \/ RootCloses(x)
      PROVE  BrainInv'
  <2>1. order' = order
    BY <1>7 DEF RootOpens, RootCloses
  <2>2. SeenInView'
    BY <1>1, <1>2, <1>7 DEF SeenInView, RootOpens, RootCloses
  <2>3. SweepList'
    BY <1>1, <1>2 DEF SweepList
  <2> QED
    BY <1>2, <2>1, <2>2, <2>3, QuietStep DEF BrainInv, SweepInv
<1> QED
  BY <1>4, <1>5, <1>6, <1>7

\* Every step keeps the invariant.
LEMMA BrainInvStep == BrainInv /\ [BrainNext]_brainVars => BrainInv'
<1> SUFFICES ASSUME BrainInv, [BrainNext]_brainVars
             PROVE  BrainInv'
  OBVIOUS
<1>1. CASE UNCHANGED brainVars
  <2>1. UNCHANGED <<order, remembered, choice, step, roots, view, unseen, todo>>
    BY <1>1 DEF brainVars
  <2> QED
    BY <2>1, QuietStep DEF BrainInv, SweepInv, SeenInView, SweepList
<1> QED
  BY <1>1, CycleStep, WorldStep DEF BrainNext

\* No step but the wallet sweep's places an order for the sweep, and that is on none
\* of the open roots the cycle saw.
LEMMA SweptUntracked ==
  ASSUME BrainInv, BrainNext, NEW o \in OrderIds,
         order[o].status = "none", order'[o].status = "live", order'[o].why = "sweep"
  PROVE  Base(order'[o].pair) \notin roots \ unseen
<1>1. BrainTyped /\ SeenInView /\ SweepList
  BY DEF BrainInv, SweepInv
<1>2. ASSUME NEW d \in Live, order' = Ended(d)
      PROVE  FALSE
  BY <1>1, <1>2 DEF Ended, GoneOrder, NoOrder, Live, BrainTyped
<1>3. ASSUME NEW pair, NEW why, NEW unread, NewOrder(NextId, pair, why, unread)
      PROVE  why = "sweep" /\ order'[o].pair = pair
  <2>1. order' = [order EXCEPT ![NextId] = [status |-> "live", pair |-> pair, why |-> why,
                                            age |-> 0, unread |-> unread]]
    BY <1>3 DEF NewOrder
  <2>2. o = NextId
    BY <1>1, <2>1 DEF BrainTyped
  <2> QED
    BY <1>1, <2>1, <2>2 DEF BrainTyped
<1>4. order' # order
  OBVIOUS
<1>5. ~OrdersAge
  <2> SUFFICES ASSUME OrdersAge
               PROVE  FALSE
    OBVIOUS
  <2>1. order' = [d \in OrderIds |->
                    IF d \in Young THEN [order[d] EXCEPT !.age = @ + 1] ELSE order[d]]
    BY DEF OrdersAge
  <2>2. o \notin Young
    BY DEF Young, Unused
  <2>3. order'[o] = order[o]
    BY <2>1, <2>2
  <2> QED
    BY <2>3
<1>6. CASE \E d \in OrderIds : Executes(d) \/ CancelStale(d)
  BY <1>2, <1>4, <1>6 DEF Executes, CancelStale
<1>7. CASE \E p \in BrainPairs : OthersOrder(p)
  <2>1. PICK p \in BrainPairs : NewOrder(NextId, p, "other", "nothing")
    BY <1>7 DEF OthersOrder
  <2> QED
    BY <1>3, <2>1
<1>8. CASE Place
  <2>1. choice.why # "sweep"
    BY <1>1 DEF BrainTyped, ChoiceType
  <2> QED
    BY <1>3, <1>8, <2>1 DEF Place
<1>9. CASE \E x \in BrainAssets : Sweep(x)
  <2>1. PICK x \in BrainAssets : Sweep(x)
    BY <1>9
  <2>2. /\ x \in todo
        /\ NewOrder(NextId, Usd(x), IF step = "sellDust" THEN "unchecked" ELSE "sweep",
                    "nothing")
    BY <1>4, <2>1 DEF Sweep
  <2>3. (IF step = "sellDust" THEN "unchecked" ELSE "sweep") = "sweep"
        /\ order'[o].pair = Usd(x)
    BY <1>3, <2>2
  <2>4. step = "sellUntracked"
    BY <2>1, <2>3 DEF Sweep
  <2>5. x \notin view /\ roots \ unseen \subseteq view
    BY <1>1, <2>2, <2>4 DEF SweepList, SeenInView, Looked
  <2> QED
    BY <2>3, <2>5 DEF Base, Usd
<1>10. CASE \/ StartCycle \/ Recall \/ ListGhosts \/ Observe \/ Decide \/ NotPlaced
            \/ NotPermitted \/ FindDust \/ FindUntracked \/ EndCycle \/ CycleFails
            \/ \E x \in BrainAssets : RootOpens(x) \/ RootCloses(x)
  <2>1. CASE StartCycle \/ Recall \/ ListGhosts \/ Observe \/ Decide \/ NotPlaced
    BY <1>4, <2>1 DEF StartCycle, Recall, ListGhosts, Observe, Decide, NotPlaced, exchange
  <2>2. CASE NotPermitted \/ FindDust \/ FindUntracked \/ EndCycle \/ CycleFails
    BY <1>4, <2>2 DEF NotPermitted, FindDust, FindUntracked, EndCycle, CycleFails, exchange
  <2>3. CASE \E x \in BrainAssets : RootOpens(x) \/ RootCloses(x)
    BY <1>4, <2>3 DEF RootOpens, RootCloses
  <2> QED
    BY <1>10, <2>1, <2>2, <2>3
<1> QED
  BY <1>5, <1>6, <1>7, <1>8, <1>9, <1>10 DEF BrainNext, Cycle

-----------------------------------------------------------------------------

\* However many answers and memories are lost, and whatever pairs are renamed, the
\* brain repeats a trade in flight only when it could not read the open orders, or
\* they rename the pair and its memory does not help (cc_brain.py, parsers.py).
THEOREM RepeatsExplainedHolds == BrainSpec => []RepeatsExplained
<1>1. BrainInv => RepeatsExplained
  BY DEF BrainInv, OrdersInv
<1> QED
  BY <1>1, BrainInvInit, BrainInvStep, PTL DEF BrainSpec

\* Whenever roots open and close, the sweep of the wallet places no order on one
\* that was open when the cycle read the tree and stayed so (cc_brain.py,
\* find_wallet_only_untracked).
THEOREM TrackedNotSweptHolds == BrainSpec => TrackedNotSwept
<1> DEFINE NotSwept ==
  \A o \in OrderIds :
    order[o].status = "none" /\ order'[o].status = "live" /\ order'[o].why = "sweep" =>
      Base(order'[o].pair) \notin roots \ unseen
<1>1. BrainInv /\ [BrainNext]_brainVars => [NotSwept]_brainVars
  BY SweptUntracked
<1>2. BrainSpec => [][NotSwept]_brainVars
  BY <1>1, BrainInvInit, BrainInvStep, PTL DEF BrainSpec
<1> QED
  BY <1>2 DEF TrackedNotSwept

-----------------------------------------------------------------------------
(***************************************************************************)
(* The watchdog takes no living bot for dead and records nothing it did    *)
(* not audit, whatever the thresholds, the answers of the model and the    *)
(* number of incidents.                                                    *)
(***************************************************************************)
Ages == 0 .. StaleAfter
Beats == [state : {"none", "whole"}, status : {"none", "healthy", "degraded"},
          connected : BOOLEAN, age : Ages]
Steps == {"idle", "incidents", "analyze", "audit", "record"}
Categories == {"order_failure", "reconciliation", "websocket", "unknown"}

\* The heartbeat file is never torn, and a missing one is as old as can be.
BeatInv ==
  /\ beatFile \in Beats /\ temporary \in Beats
  /\ writing => temporary.state = "whole"
  /\ silent \in Ages
  /\ beatFile.age = silent
  /\ beatFile.state = "none" => silent = StaleAfter

\* What a check concluded from the heartbeat was true when it was read.
CheckInv ==
  /\ check.step # "idle" /\ check.beat.state = "none" => check.silent >= StaleAfter
  /\ check \in [step : Steps, beat : Beats, silent : Ages, recent : Seq(Categories),
                advice : Actions \cup {"none"}]

\* The audit line is ahead of the incident it announces.
AuditInv ==
  /\ incidents \in Seq(Categories)
  /\ recorded \in Nat /\ audits \in Nat
  /\ recorded <= audits
  /\ check.step = "record" => recorded < audits

HealingInv == BeatInv /\ CheckInv /\ AuditInv

-----------------------------------------------------------------------------

\* A check that is over is well formed.
LEMMA IdleProperties ==
  /\ Idle.step = "idle"
  /\ Idle \in [step : Steps, beat : Beats, silent : Ages, recent : Seq(Categories),
               advice : Actions \cup {"none"}]
BY HealingAssumption DEF Idle, NoBeat, Beats, Ages, Steps, Actions

\* Before the first heartbeat there is no file, and nothing was recorded.
LEMMA HealingInvInit == HealingInit => HealingInv
<1> SUFFICES ASSUME HealingInit
             PROVE  HealingInv
  OBVIOUS
<1>1. BeatInv
  BY HealingAssumption DEF HealingInit, BeatInv, NoBeat, Beats, Ages
<1>2. CheckInv
  BY IdleProperties DEF HealingInit, CheckInv
<1>3. AuditInv
  BY IdleProperties DEF HealingInit, AuditInv
<1> QED
  BY <1>1, <1>2, <1>3 DEF HealingInv

\* What the bot does to its files leaves the incidents and the check alone.
LEMMA BeatStep ==
  ASSUME HealingInv,
         \/ \E c \in Conditions : BeginBeat(c[1], c[2])
         \/ EndBeat \/ BeatLost \/ BeatAges
  PROVE  HealingInv'
<1>1. BeatInv /\ CheckInv /\ AuditInv
  BY DEF HealingInv
<1>2. UNCHANGED <<registryVars, audits, check>>
  BY DEF BeginBeat, EndBeat, BeatLost, BeatAges
<1>3. CheckInv' /\ AuditInv'
  BY <1>1, <1>2 DEF CheckInv, AuditInv, registryVars
<1>4. ASSUME NEW c \in Conditions, BeginBeat(c[1], c[2])
      PROVE  BeatInv'
  <2>1. c[1] \in {"healthy", "degraded"} /\ c[2] \in BOOLEAN
    <3>1. \/ c = <<"healthy", TRUE>> \/ c = <<"degraded", TRUE>> \/ c = <<"degraded", FALSE>>
      BY DEF Conditions
    <3>2. CASE c = <<"healthy", TRUE>>
      BY <3>2
    <3>3. CASE c = <<"degraded", TRUE>>
      BY <3>3
    <3>4. CASE c = <<"degraded", FALSE>>
      BY <3>4
    <3> QED
      BY <3>1, <3>2, <3>3, <3>4
  <2>2. Beat(c[1], c[2]) \in Beats /\ Beat(c[1], c[2]).state = "whole"
    BY <2>1, HealingAssumption DEF Beat, Beats, Ages
  <2>3. temporary' = Beat(c[1], c[2]) /\ UNCHANGED <<beatFile, silent>>
    BY <1>4 DEF BeginBeat
  <2> QED
    BY <1>1, <2>2, <2>3 DEF BeatInv
<1>5. NoBeat \in Beats
  BY HealingAssumption DEF NoBeat, Beats, Ages
<1>6. ASSUME EndBeat \/ BeatLost
      PROVE  BeatInv'
  BY <1>1, <1>5, <1>6 DEF EndBeat, BeatLost, BeatInv, Beats
<1>7. ASSUME BeatAges
      PROVE  BeatInv'
  <2>1. \A age \in Ages : Older(age) \in Ages /\ (age = StaleAfter => Older(age) = age)
    BY HealingAssumption DEF Older, Ages
  <2>2. \A beat \in Beats : [beat EXCEPT !.age = Older(@)] =
          [state |-> beat.state, status |-> beat.status, connected |-> beat.connected,
           age |-> Older(beat.age)]
    BY DEF Beats
  <2>3. \A beat \in Beats : /\ [beat EXCEPT !.age = Older(@)] \in Beats
                            /\ [beat EXCEPT !.age = Older(@)].state = beat.state
                            /\ [beat EXCEPT !.age = Older(@)].age = Older(beat.age)
    BY <2>1, <2>2 DEF Beats
  <2>4. /\ beatFile' = [beatFile EXCEPT !.age = Older(@)]
        /\ temporary' = [temporary EXCEPT !.age = Older(@)]
        /\ silent' = Older(silent) /\ UNCHANGED writing
    BY <1>7 DEF BeatAges
  <2> QED
    BY <1>1, <2>1, <2>3, <2>4 DEF BeatInv
<1> QED
  BY <1>3, <1>4, <1>6, <1>7 DEF HealingInv

\* The latest incidents are incidents.
LEMMA RecentType == ASSUME incidents \in Seq(Categories) PROVE Recent \in Seq(Categories)
<1>1. Len(incidents) \in Nat
  OBVIOUS
<1>2. CASE Len(incidents) > RecentLimit
  <2>1. \A i \in Len(incidents) - RecentLimit + 1 .. Len(incidents) : i \in 1 .. Len(incidents)
    BY <1>1, <1>2, HealingAssumption
  <2> QED
    BY <1>2, <2>1, HealingAssumption, SubSeqProperties DEF Recent
<1>3. CASE ~(Len(incidents) > RecentLimit)
  BY <1>3, SubSeqProperties DEF Recent
<1> QED
  BY <1>2, <1>3

\* The watchdog and the other users of the registry leave the heartbeat alone.
LEMMA CheckStep ==
  ASSUME HealingInv,
         \/ Report("order_failure")
         \/ ReadBeat \/ ReadIncidents \/ Analyze \/ Audit \/ RecordAdvisory \/ WatchdogDies
  PROVE  HealingInv'
<1>1. BeatInv /\ CheckInv /\ AuditInv
  BY DEF HealingInv
<1>2. UNCHANGED beatVars
  BY DEF Report, ReadBeat, ReadIncidents, Analyze, Audit, RecordAdvisory, WatchdogDies
<1>3. BeatInv'
  BY <1>1, <1>2 DEF BeatInv, beatVars
<1>4. CASE Report("order_failure")
  <2>1. UNCHANGED <<check, recorded, audits>> /\ incidents' = Append(incidents, "order_failure")
    BY <1>4 DEF Report, RecordIncident, Stored
  <2> QED
    BY <1>1, <1>3, <2>1 DEF HealingInv, CheckInv, AuditInv, Categories
<1>5. CASE ReadBeat
  <2>1. PICK beat : /\ beat = IF Parses(beatFile) /\ beatFile.age < StaleAfter
                                THEN [beatFile EXCEPT !.age = 0] ELSE NoBeat
    OBVIOUS
  <2>2. beat \in Beats /\ (beat.state = "none" => silent >= StaleAfter)
    BY <1>1, <2>1, HealingAssumption DEF BeatInv, NoBeat, Beats, Ages, Parses
  <2>3. /\ check' = [check EXCEPT !.step = "incidents", !.silent = silent, !.beat = beat]
        /\ UNCHANGED <<incidents, recorded, audits>>
    BY <1>5, <2>1 DEF ReadBeat, registryVars
  <2>4. check' = [step |-> "incidents", beat |-> beat, silent |-> silent,
                  recent |-> check.recent, advice |-> check.advice]
    BY <1>1, <2>3 DEF CheckInv
  <2>5. CheckInv'
    BY <1>1, <2>2, <2>4 DEF CheckInv, Steps, BeatInv
  <2>6. AuditInv'
    BY <1>1, <2>3, <2>4 DEF AuditInv
  <2> QED
    BY <1>3, <2>5, <2>6 DEF HealingInv
<1>6. CASE ReadIncidents
  <2>1. Recent \in Seq(Categories)
    BY <1>1, RecentType DEF AuditInv
  <2>2. check' = [step |-> "analyze", beat |-> check.beat, silent |-> check.silent,
                  recent |-> Recent, advice |-> check.advice]
    BY <1>1, <1>6 DEF ReadIncidents, CheckInv
  <2>3. CheckInv'
    BY <1>1, <1>6, <2>1, <2>2 DEF CheckInv, Steps, ReadIncidents
  <2>4. AuditInv'
    BY <1>1, <1>6, <2>2 DEF AuditInv, ReadIncidents, registryVars
  <2> QED
    BY <1>3, <2>3, <2>4 DEF HealingInv
<1>7. CASE Analyze
  <2>1. PICK advice \in Actions :
          check' = [check EXCEPT !.step = "audit", !.advice = advice]
    BY <1>7 DEF Analyze, Deterministic, Advised, Validated, Actions
  <2>2. check' = [step |-> "audit", beat |-> check.beat, silent |-> check.silent,
                  recent |-> check.recent, advice |-> advice]
    BY <1>1, <2>1 DEF CheckInv
  <2>3. CheckInv'
    BY <1>1, <1>7, <2>2 DEF CheckInv, Steps, Analyze
  <2>4. AuditInv'
    BY <1>1, <1>7, <2>2 DEF AuditInv, Analyze, registryVars
  <2> QED
    BY <1>3, <2>3, <2>4 DEF HealingInv
<1>8. CASE Audit /\ check.advice = "NOOP"
  BY <1>1, <1>3, <1>8, IdleProperties
     DEF Audit, HealingInv, CheckInv, AuditInv, registryVars
<1>9. CASE Audit /\ check.advice # "NOOP"
  <2>1. /\ check' = [check EXCEPT !.step = "record"] /\ check.step = "audit"
        /\ audits' = audits + 1 /\ UNCHANGED <<incidents, recorded>>
    BY <1>9 DEF Audit, registryVars
  <2>2. check' = [step |-> "record", beat |-> check.beat, silent |-> check.silent,
                  recent |-> check.recent, advice |-> check.advice]
    BY <1>1, <2>1 DEF CheckInv
  <2>3. CheckInv'
    BY <1>1, <2>1, <2>2 DEF CheckInv, Steps
  <2>4. AuditInv'
    BY <1>1, <2>1, <2>2 DEF AuditInv
  <2> QED
    BY <1>3, <2>3, <2>4 DEF HealingInv
<1>10. CASE RecordAdvisory
  <2>1. /\ check.step = "record" /\ check' = Idle
        /\ recorded' = recorded + 1 /\ UNCHANGED audits
        /\ incidents' = Append(incidents, Category)
    BY <1>10 DEF RecordAdvisory, Audited, RecordIncident, Stored
  <2>2. Category \in Categories
    BY DEF Category, Categories
  <2>3. CheckInv' /\ AuditInv'
    BY <1>1, <2>1, <2>2, IdleProperties DEF CheckInv, AuditInv
  <2> QED
    BY <1>3, <2>3 DEF HealingInv
<1>11. CASE WatchdogDies
  BY <1>1, <1>3, <1>11, IdleProperties
     DEF WatchdogDies, HealingInv, CheckInv, AuditInv, registryVars
<1> QED
  BY <1>4, <1>5, <1>6, <1>7, <1>8, <1>9, <1>10, <1>11

\* Every step keeps the invariant.
LEMMA HealingInvStep == HealingInv /\ [HealingNext]_healingVars => HealingInv'
<1> SUFFICES ASSUME HealingInv, [HealingNext]_healingVars
             PROVE  HealingInv'
  OBVIOUS
<1>1. CASE UNCHANGED healingVars
  BY <1>1 DEF healingVars, beatVars, registryVars, HealingInv, BeatInv, CheckInv, AuditInv
<1>2. CASE HealingNext
  BY <1>2, BeatStep, CheckStep DEF HealingNext
<1> QED
  BY <1>1, <1>2

-----------------------------------------------------------------------------

\* A watchdog that reads the heartbeat at any moment, in the middle of a write
\* or after a crash in one, takes the bot for dead only if it was silent for
\* longer than the threshold.
THEOREM SilenceIsRealHolds == HealingSpec => []SilenceIsReal
<1>1. HealingInv => SilenceIsReal
  BY DEF HealingInv, CheckInv, SilenceIsReal
<1> QED
  BY <1>1, HealingInvInit, HealingInvStep, PTL DEF HealingSpec

\* However often the watchdog is killed, the registry holds no incident of its
\* own without an audit line.
THEOREM IncidentsAuditedHolds == HealingSpec => []IncidentsAudited
<1>1. HealingInv => IncidentsAudited
  BY DEF HealingInv, AuditInv, IncidentsAudited
<1> QED
  BY <1>1, HealingInvInit, HealingInvStep, PTL DEF HealingSpec

-----------------------------------------------------------------------------
(***************************************************************************)
(* The legs of a grid stay level for any capital, capacity, minimum and    *)
(* number of slots, and any order of fills and redistributions.            *)
(***************************************************************************)
LegType == [kind : {"entry", "exit"}, quantity : Nat]
SlotType == [a : LegType, b : LegType]

\* One quantity, not below the minimum, for all legs.
Level ==
  \E q \in Nat :
    /\ q >= Minimum * Parts
    /\ \A i \in DOMAIN slots : slots[i].a.quantity = q /\ slots[i].b.quantity = q

GridInv ==
  /\ slots \in Seq(SlotType)
  /\ pendingProfit \in Nat
  /\ Level

-----------------------------------------------------------------------------

\* An update of one leg, whichever it is, keeps the slot a slot.
LEMMA SlotUpdate ==
  ASSUME NEW slot \in SlotType, NEW leg \in {"a", "b"}, NEW kind \in {"entry", "exit"}
  PROVE  LET new == [slot EXCEPT ![leg].kind = kind] IN
           /\ new \in SlotType
           /\ new.a.quantity = slot.a.quantity /\ new.b.quantity = slot.b.quantity
<1>1. slot = [a |-> slot.a, b |-> slot.b] /\ slot.a \in LegType /\ slot.b \in LegType
  BY DEF SlotType
<1>2. \A l \in LegType : [l EXCEPT !.kind = kind] = [kind |-> kind, quantity |-> l.quantity]
  BY DEF LegType
<1>3. CASE leg = "a"
  <2>1. [slot EXCEPT ![leg].kind = kind] = [slot EXCEPT !["a"] = [slot.a EXCEPT !.kind = kind]]
    BY <1>3
  <2>2. [slot.a EXCEPT !.kind = kind] = [kind |-> kind, quantity |-> slot.a.quantity]
    BY <1>1, <1>2
  <2>3. \A new : [slot EXCEPT !.a = new] = [a |-> new, b |-> slot.b]
    BY <1>1
  <2>4. [slot EXCEPT ![leg].kind = kind] =
          [a |-> [kind |-> kind, quantity |-> slot.a.quantity], b |-> slot.b]
    BY <2>1, <2>2, <2>3
  <2> QED
    BY <1>1, <2>4 DEF SlotType, LegType
<1>4. CASE leg = "b"
  <2>1. [slot EXCEPT ![leg].kind = kind] = [slot EXCEPT !["b"] = [slot.b EXCEPT !.kind = kind]]
    BY <1>4
  <2>2. [slot.b EXCEPT !.kind = kind] = [kind |-> kind, quantity |-> slot.b.quantity]
    BY <1>1, <1>2
  <2>3. \A new : [slot EXCEPT !.b = new] = [a |-> slot.a, b |-> new]
    BY <1>1
  <2>4. [slot EXCEPT ![leg].kind = kind] =
          [a |-> slot.a, b |-> [kind |-> kind, quantity |-> slot.b.quantity]]
    BY <2>1, <2>2, <2>3
  <2> QED
    BY <1>1, <2>4 DEF SlotType, LegType
<1> QED
  BY <1>3, <1>4

\* A redistribution gives both legs of a slot the same.
LEMMA SlotIncrease ==
  ASSUME NEW slot \in SlotType, NEW inc \in Nat
  PROVE  /\ IncreaseSlot(slot, inc) \in SlotType
         /\ IncreaseSlot(slot, inc).a.quantity = slot.a.quantity + inc
         /\ IncreaseSlot(slot, inc).b.quantity = slot.b.quantity + inc
<1>1. slot.a \in LegType /\ slot.b \in LegType
  BY DEF SlotType
<1>2. \A l \in LegType : Grown(l, inc) = [kind |-> l.kind, quantity |-> l.quantity + inc]
  BY DEF LegType, Grown
<1>3. IncreaseSlot(slot, inc) = [a |-> Grown(slot.a, inc), b |-> Grown(slot.b, inc)]
  BY DEF IncreaseSlot
<1> QED
  BY <1>1, <1>2, <1>3 DEF SlotType, LegType

\* No slots are level.
LEMMA GridInvInit == GridInit => GridInv
<1> SUFFICES ASSUME GridInit
             PROVE  GridInv
  OBVIOUS
<1>1. Minimum * Parts \in Nat
  BY GridAssumption
<1>2. slots \in Seq(SlotType) /\ DOMAIN slots = {} /\ pendingProfit \in Nat
  BY DEF GridInit
<1>3. Level
  BY <1>1, <1>2 DEF Level
<1> QED
  BY <1>2, <1>3 DEF GridInv

\* All slots of a new grid are bought at the minimum.
LEMMA ActivateStep ==
  ASSUME GridInv, NEW capital \in Capitals, NEW capacity \in Capacities,
         Activate(capital, capacity)
  PROVE  GridInv'
<1> DEFINE count == SlotCount(capital, capacity)
           entry == Leg("entry", Minimum * Parts)
           slot == [a |-> entry, b |-> entry]
<1>1. Minimum * Parts \in Nat
  BY GridAssumption
<1>2. count \in Nat
  <2>1. capital \in Nat /\ capacity \in Nat /\ HeadroomPct \in Nat
    BY GridAssumption
  <2>2. capacity * HeadroomPct \in Nat
    BY <2>1
  <2>3. HeadroomBudget(capacity) \in Nat
    BY <2>2 DEF HeadroomBudget
  <2>4. HeadroomBudget(capacity) \div 2 \in Nat
    BY <2>3
  <2> QED
    BY <2>1, <2>4 DEF SlotCount
<1>3. slots' = [i \in 1 .. count |-> slot] /\ pendingProfit' = pendingProfit
  BY DEF Activate
<1>4. slot \in SlotType /\ slot.a.quantity = Minimum * Parts /\ slot.b.quantity = Minimum * Parts
  BY <1>1 DEF SlotType, LegType, Leg
<1> HIDE DEF count, slot
<1>5. slots' \in Seq(SlotType)
  BY <1>2, <1>3, <1>4
<1>6. Level'
  BY <1>1, <1>3, <1>4 DEF Level
<1> QED
  BY <1>3, <1>5, <1>6 DEF GridInv

\* Every leg gets the same increment, exit legs too.
LEMMA RedistributeStep ==
  ASSUME GridInv, NEW profit \in {0, 1}, Redistribute(profit)
  PROVE  GridInv'
<1> DEFINE total == pendingProfit + profit
           inc == (total * Parts) \div Len(slots)
<1>1. total \in Nat /\ slots \in Seq(SlotType) /\ Len(slots) \in Nat
  BY DEF GridInv
<1>2. CASE total = 0 \/ slots = <<>>
  BY <1>1, <1>2 DEF Redistribute, RedistributeProfits, GridInv, Level
<1>3. CASE ~(total = 0 \/ slots = <<>>)
  <2>1. /\ slots' = [i \in DOMAIN slots |-> IncreaseSlot(slots[i], inc)]
        /\ pendingProfit' = 0
    BY <1>3 DEF Redistribute, RedistributeProfits
  <2>2. Len(slots) > 0
    BY <1>1, <1>3
  <2>3. inc \in Nat
    <3>1. total * Parts \in Nat
      BY <1>1, GridAssumption
    <3> HIDE DEF total
    <3> QED
      BY <1>1, <2>2, <3>1
  <2> HIDE DEF inc
  <2>4. \A i \in DOMAIN slots : slots[i] \in SlotType
    BY <1>1
  <2>5. \A i \in DOMAIN slots : /\ slots'[i] \in SlotType
                                /\ slots'[i].a.quantity = slots[i].a.quantity + inc
                                /\ slots'[i].b.quantity = slots[i].b.quantity + inc
    BY <2>1, <2>3, <2>4, SlotIncrease
  <2>6. slots' \in Seq(SlotType) /\ DOMAIN slots' = DOMAIN slots
    BY <1>1, <2>1, <2>5
  <2>7. PICK q \in Nat : /\ q >= Minimum * Parts
                         /\ \A i \in DOMAIN slots :
                              slots[i].a.quantity = q /\ slots[i].b.quantity = q
    BY DEF GridInv, Level
  <2>8. q + inc \in Nat /\ q + inc >= Minimum * Parts
    <3>1. Minimum * Parts \in Nat
      BY GridAssumption
    <3> QED
      BY <2>3, <2>7, <3>1
  <2>9. Level'
    BY <2>5, <2>6, <2>7, <2>8 DEF Level
  <2> QED
    BY <2>1, <2>6, <2>9 DEF GridInv
<1> QED
  BY <1>2, <1>3

\* A fill turns a leg round and changes no quantity.
LEMMA FillStep ==
  ASSUME GridInv, NEW i \in DOMAIN slots, NEW side \in {"buy", "sell"},
         EntryFill(i, side) \/ ExitFill(i, side)
  PROVE  GridInv'
<1>1. PICK leg \in {"a", "b"}, kind \in {"entry", "exit"} :
        /\ slots' = [slots EXCEPT ![i][leg].kind = kind]
        /\ pendingProfit' = pendingProfit
  BY DEF EntryFill, ExitFill, FindLeg
<1>2. slots \in Seq(SlotType) /\ slots[i] \in SlotType /\ pendingProfit \in Nat
  BY DEF GridInv
<1> DEFINE new == [slots[i] EXCEPT ![leg].kind = kind]
<1>3. /\ new \in SlotType
      /\ new.a.quantity = slots[i].a.quantity /\ new.b.quantity = slots[i].b.quantity
  BY <1>2, SlotUpdate
<1>4. slots' = [slots EXCEPT ![i] = new]
  BY <1>1
<1> HIDE DEF new
<1>5. /\ slots' \in Seq(SlotType) /\ DOMAIN slots' = DOMAIN slots
      /\ slots'[i] = new /\ \A j \in DOMAIN slots : j # i => slots'[j] = slots[j]
  BY <1>2, <1>3, <1>4
<1>6. Level'
  BY <1>3, <1>5 DEF GridInv, Level
<1> QED
  BY <1>1, <1>2, <1>5, <1>6 DEF GridInv

\* Every step keeps the invariant.
LEMMA GridInvStep == GridInv /\ [GridNext]_gridVars => GridInv'
<1> SUFFICES ASSUME GridInv, [GridNext]_gridVars
             PROVE  GridInv'
  OBVIOUS
<1>1. CASE DeactivateGrid \/ UNCHANGED gridVars
  BY <1>1 DEF DeactivateGrid, gridVars, GridInv, Level
<1> QED
  BY <1>1, ActivateStep, RedistributeStep, FillStep DEF GridNext

\* What a slot sells it can buy back, whatever its history, for every minimum
\* and every number of slots.
THEOREM LegsLevelHolds == GridSpec => []LegsLevel
<1>1. GridInv => LegsLevel
  BY DEF GridInv, Level, LegsLevel
<1> QED
  BY <1>1, GridInvInit, GridInvStep, PTL DEF GridSpec

=============================================================================
