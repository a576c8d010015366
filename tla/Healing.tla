------------------------------ MODULE Healing ------------------------------
(***************************************************************************)
(* The healing package: the bot writes a heartbeat file each cycle         *)
(* (healing/heartbeat.py, runtime_loop.py _write_heartbeat), and a         *)
(* watchdog (healing/watchdog.py), in another process, reads it together   *)
(* with the latest incidents (healing/incidents.py), asks an analyzer      *)
(* (healing/analyzer.py, healing/ollama_analyzer.py) for an action, writes *)
(* an audit line and records an incident.  It only advises: it touches     *)
(* nothing but its own files.  Nothing in the program runs it yet.         *)
(*                                                                         *)
(* Ages are in ticks of the time after which a heartbeat is stale.         *)
(***************************************************************************)
EXTENDS Naturals, Sequences, FiniteSets

CONSTANTS
  StaleAfter,        \* stale_after_seconds
  RecentLimit,       \* recent_incident_limit
  OrderFailureThreshold,
  ModelAnswers,      \* what the Ollama model may answer
  MaxIncidents,      \* bound on the incidents
  MaxAudits          \* bound on the audit lines that advise to do something

ASSUME HealingAssumption ==
  /\ StaleAfter \in Nat \ {0} /\ RecentLimit \in Nat
  /\ OrderFailureThreshold \in Nat \ {0} /\ MaxIncidents \in Nat /\ MaxAudits \in Nat

VARIABLES
  beatFile,      \* the heartbeat file, and its .tmp
  temporary,
  writing,       \* the bot is between writing the one and replacing the other
  silent,        \* the age of the last heartbeat completed: history
  incidents,     \* the categories of the registry's incidents, oldest first
  recorded,      \* how many of them the watchdog recorded: history
  audits,        \* how many audit lines advise to do something
  check          \* the check under way: what it read and what it advises

beatVars == <<beatFile, temporary, writing, silent>>
registryVars == <<incidents, recorded>>
healingVars == <<beatVars, registryVars, audits, check>>

\* No file, or one that does not parse, is read as no heartbeat.  persistence_connected
\* is left out: the one writer of heartbeats always sets it.
NoBeat == [state |-> "none", status |-> "none", connected |-> FALSE, age |-> StaleAfter]
Beat(status, connected) ==
  [state |-> "whole", status |-> status, connected |-> connected, age |-> 0]
Torn(beat) == [beat EXCEPT !.state = "torn"]

\* A file is a heartbeat when every field of it has its type.
Parses(beat) == beat.state = "whole"

\* AllowedAction
Actions ==
  {"NOOP", "RETRY", "PAUSE_COMPONENT", "RUN_RECONCILE", "ESCALATE", "RESTART_NONTRADING_COMPONENT"}

Idle == [step |-> "idle", beat |-> NoBeat, silent |-> 0, recent |-> <<>>, advice |-> "none"]

HealingInit ==
  /\ beatFile = NoBeat /\ temporary = NoBeat /\ writing = FALSE
  /\ silent = StaleAfter
  /\ incidents = <<>> /\ recorded = 0
  /\ audits = 0 /\ check = Idle

-----------------------------------------------------------------------------
(* The heartbeat *)

\* _heartbeat_status: a bot that is not connected is degraded, one with a runtime
\* error too, and none says that it stopped.
Conditions == {<<"healthy", TRUE>>, <<"degraded", TRUE>>, <<"degraded", FALSE>>}

\* mutant: the file is written in place
BeginBeatInPlace(status, connected) ==
  /\ ~writing
  /\ temporary' = Beat(status, connected) /\ beatFile' = Torn(Beat(status, connected))
  /\ writing' = TRUE
  /\ UNCHANGED <<silent, registryVars, audits, check>>

BeginBeat(status, connected) ==
  /\ ~writing
  /\ temporary' = Beat(status, connected) /\ UNCHANGED beatFile
  /\ writing' = TRUE
  /\ UNCHANGED <<silent, registryVars, audits, check>>

EndBeat ==
  /\ writing
  /\ beatFile' = temporary /\ temporary' = NoBeat
  /\ writing' = FALSE
  /\ silent' = temporary.age
  /\ UNCHANGED <<registryVars, audits, check>>

\* The bot is killed as it writes; the next one overwrites the .tmp.
BeatLost ==
  /\ writing
  /\ writing' = FALSE /\ temporary' = NoBeat
  /\ UNCHANGED <<beatFile, silent, registryVars, audits, check>>

Older(age) == IF age < StaleAfter THEN age + 1 ELSE age

BeatAges ==
  /\ silent < StaleAfter \/ (writing /\ temporary.age < StaleAfter)
  /\ beatFile' = [beatFile EXCEPT !.age = Older(@)]
  /\ temporary' = [temporary EXCEPT !.age = Older(@)]
  /\ silent' = Older(silent)
  /\ UNCHANGED <<writing, registryVars, audits, check>>

-----------------------------------------------------------------------------
(* The incidents *)

\* get_recent: the newest ones.  It takes those resolve_incident has resolved
\* too, so resolutions have no effect on the watchdog and are left out.
Recent ==
  LET n == Len(incidents) IN
    SubSeq(incidents, IF n > RecentLimit THEN n - RecentLimit + 1 ELSE 1, n)

\* A record is written aside and renamed: there is never half of one.
Stored(category) == Append(incidents, category)

RecordIncident(category) ==
  /\ Len(incidents) < MaxIncidents
  /\ incidents' = Stored(category)

\* record_incident by another user of the registry
Report(category) ==
  /\ RecordIncident(category)
  /\ UNCHANGED <<beatVars, recorded, audits, check>>

-----------------------------------------------------------------------------
(* The check *)

\* read_heartbeat
ReadBeat ==
  /\ check.step = "idle"
  /\ check' = [check EXCEPT !.step = "incidents", !.silent = silent,
       !.beat = IF Parses(beatFile) /\ beatFile.age < StaleAfter
                  THEN [beatFile EXCEPT !.age = 0] ELSE NoBeat]
  /\ UNCHANGED <<beatVars, registryVars, audits>>

ReadIncidents ==
  /\ check.step = "incidents"
  /\ check' = [check EXCEPT !.step = "analyze", !.recent = Recent]
  /\ UNCHANGED <<beatVars, registryVars, audits>>

Occurs(category) == \E i \in DOMAIN check.recent : check.recent[i] = category
OrderFailures == {i \in DOMAIN check.recent : check.recent[i] = "order_failure"}

\* DeterministicAnalyzer.analyze: the first rule that applies; dropped says that
\* the log speaks of a dropped websocket.
Deterministic(dropped) ==
  IF check.beat.state = "none" THEN "ESCALATE"
  ELSE IF Cardinality(OrderFailures) >= OrderFailureThreshold THEN "PAUSE_COMPONENT"
  ELSE IF Occurs("reconciliation") THEN "RUN_RECONCILE"
  ELSE IF Occurs("websocket") \/ ~check.beat.connected \/ dropped THEN "RETRY"
  ELSE IF check.beat.status = "degraded" THEN "ESCALATE" ELSE "NOOP"

\* An answer that is not valid, or none in time, becomes ESCALATE.
Validated(answer) == IF answer \in Actions THEN answer ELSE "ESCALATE"

\* OllamaAnalyzer.analyze
Advised == {Validated(answer) : answer \in ModelAnswers}

\* _select_analyzer: the model when it is configured and answers.
Analyze ==
  /\ check.step = "analyze"
  /\ \E advice \in {Deterministic(dropped) : dropped \in BOOLEAN} \union Advised :
       check' = [check EXCEPT !.step = "audit", !.advice = advice]
  /\ UNCHANGED <<beatVars, registryVars, audits>>

Audit ==
  /\ check.step = "audit"
  /\ IF check.advice = "NOOP"
       THEN check' = Idle /\ UNCHANGED audits
       ELSE /\ audits < MaxAudits
            /\ audits' = audits + 1
            /\ check' = [check EXCEPT !.step = "record"]
  /\ UNCHANGED <<beatVars, registryVars>>

\* _select_incident_category, without its first case: no heartbeat is written that
\* says its persistence is not connected.
Category ==
  IF check.beat.state # "none" /\ ~check.beat.connected THEN "websocket"
  ELSE IF check.advice = "RUN_RECONCILE" THEN "reconciliation"
  ELSE IF check.advice = "PAUSE_COMPONENT" THEN "order_failure"
  ELSE IF check.advice = "RETRY" THEN "websocket"
  ELSE IF OrderFailures # {} THEN "order_failure"
  ELSE IF Occurs("reconciliation") THEN "reconciliation"
  ELSE IF Occurs("websocket") THEN "websocket" ELSE "unknown"

Audited == check.step = "record"

RecordAdvisory ==
  /\ Audited
  /\ RecordIncident(Category)
  /\ recorded' = recorded + 1
  /\ check' = Idle
  /\ UNCHANGED <<beatVars, audits>>

WatchdogDies ==
  /\ check # Idle
  /\ check' = Idle
  /\ UNCHANGED <<beatVars, registryVars, audits>>

-----------------------------------------------------------------------------
HealingNext ==
  \/ \E c \in Conditions : BeginBeat(c[1], c[2])
  \/ EndBeat \/ BeatLost \/ BeatAges
  \/ Report("order_failure")
  \/ ReadBeat \/ ReadIncidents \/ Analyze \/ Audit \/ RecordAdvisory \/ WatchdogDies

HealingSpec == HealingInit /\ [][HealingNext]_healingVars

-----------------------------------------------------------------------------
(* Properties *)

\* The watchdog takes the bot for dead only when it has been silent too long:
\* not because it looked in the middle of a heartbeat.
SilenceIsReal ==
  check.step # "idle" /\ check.beat.state = "none" => check.silent >= StaleAfter

\* Every incident the watchdog recorded has its audit line, wherever the watchdog
\* was killed: the registry never says more than the audit can explain.
IncidentsAudited == recorded <= audits
=============================================================================
