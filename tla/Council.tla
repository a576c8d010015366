------------------------------ MODULE Council ------------------------------
(***************************************************************************)
(* The LLM council: beliefs/llm_council_handler.py in the bot's process,   *)
(* scripts/llm_council_broker.py in its own, and the agents in tmux panes, *)
(* which meet in three directories of files: requests, responses and       *)
(* consensus.  None of them takes a lock and none of them writes           *)
(* atomically, so each file is first there torn and then whole.            *)
(*                                                                         *)
(* A call is a number, in the order of the time stamps that name the       *)
(* files.  A vote is its direction; confidence and regime are left out.    *)
(* Any JSON object is a response: one that names no direction is neutral,  *)
(* and one that names another than the three is "unlisted", which counts   *)
(* as a response and for no direction.  A response file is removed with its*)
(* request, being the younger one.                                         *)
(***************************************************************************)
EXTENDS Naturals, Sequences, FiniteSets

CONSTANTS
  CouncilPairs, Agents,
  Votes,             \* the directions the agents vote for, beside neutral
  MaxRequests,       \* bound on the calls
  MaxHours,          \* bound on the clock
  MaxBrokerKills,    \* bound on the brokers killed
  StaleHours,        \* STALE_SECONDS
  CleanupHours,      \* STALE_CLEANUP_HOURS
  Window             \* how many consensus files the handler looks at

ASSUME CouncilAssumption ==
  /\ Votes \intersect {"none", "torn", "unseen", "invalid", "neutral", "unlisted"} = {}
  /\ IsFiniteSet(Agents) /\ Agents # {}
  /\ MaxRequests \in Nat /\ StaleHours \in Nat /\ CleanupHours \in Nat
  /\ Window \in Nat \ {0}

VARIABLES
  hour,         \* the clock
  asked,        \* the calls made so far, each with its pair and its hour
  requests,     \* the request file of each
  replies,      \* the response files
  prompts,      \* how many prompts to answer a call each agent has before it
  consensus,    \* the consensus file: none, torn, or its status, and direction
  handler,      \* the request the handler is writing, 0 if none
  broker,       \* what the broker does, and with which call
  seen,         \* vote_details, while it collects
  killed        \* counts the brokers killed, for MaxBrokerKills

councilVars ==
  <<hour, asked, requests, replies, prompts, consensus, handler, broker, seen,
    killed>>

CouncilCalls == 1 .. MaxRequests
Directions == Votes \cup {"neutral"}
Parsed == Directions \cup {"unlisted"}    \* what from_json makes of a response
NothingSeen == [a \in Agents |-> "unseen"]
File(status, direction) == [status |-> status, direction |-> direction]
Down == [does |-> "down", call |-> 0]
Polls == [does |-> "polls", call |-> 0]

CouncilInit ==
  /\ hour = 0 /\ asked = <<>>
  /\ requests = [c \in CouncilCalls |-> "none"]
  /\ replies = [c \in CouncilCalls |-> [a \in Agents |-> "none"]]
  /\ prompts = [c \in CouncilCalls |-> [a \in Agents |-> 0]]
  /\ consensus = [c \in CouncilCalls |-> File("none", "none")]
  /\ handler = 0 /\ broker = Polls /\ seen = NothingSeen
  /\ killed = 0

HourPasses ==
  /\ hour < MaxHours
  /\ hour' = hour + 1
  /\ UNCHANGED <<asked, requests, replies, prompts, consensus, handler, broker, seen, killed>>

-----------------------------------------------------------------------------
(* The handler *)

CallsFor(p) == {c \in DOMAIN asked : asked[c].pair = p}

Processed(c) == consensus[c].status # "none"

\* mutant: a torn request does not count as pending
PendingWhole(p) == {c \in CallsFor(p) : requests[c] = "whole" /\ ~Processed(c)}

\* requests_dir.glob: the files that are there, torn ones too
Pending(p) == {c \in CallsFor(p) : requests[c] \in {"torn", "whole"} /\ ~Processed(c)}

Newest(p) ==
  {c \in CallsFor(p) : Processed(c) /\
     Cardinality({d \in CallsFor(p) : Processed(d) /\ d > c}) < Window}

Fresh(c) ==
  consensus[c].status \in {"completed", "partial"} /\ hour - asked[c].at <= StaleHours

\* _find_fresh_consensus: the call whose direction the handler answers with, if
\* there is one.  It changes no file.
FreshConsensus(p) ==
  {c \in Newest(p) : Fresh(c) /\ \A d \in Newest(p) : Fresh(d) => d <= c}

\* _write_request opens the file; the fallback handler answers this time.
BeginRequest(p) ==
  /\ handler = 0 /\ FreshConsensus(p) = {} /\ Pending(p) = {}
  /\ Len(asked) < MaxRequests
  /\ LET c == Len(asked) + 1 IN
       /\ asked' = Append(asked, [pair |-> p, at |-> hour])
       /\ requests' = [requests EXCEPT ![c] = "torn"]
       /\ handler' = c
  /\ UNCHANGED <<hour, replies, prompts, consensus, broker, seen, killed>>

\* The broker may have removed the torn file under the handler's feet.
EndRequest ==
  /\ handler # 0
  /\ requests' = [requests EXCEPT ![handler] = IF @ = "torn" THEN "whole" ELSE @]
  /\ handler' = 0
  /\ UNCHANGED <<hour, asked, replies, prompts, consensus, broker, seen, killed>>

\* The bot is killed while it writes.
BotDies ==
  /\ handler # 0
  /\ handler' = 0
  /\ UNCHANGED <<hour, asked, requests, replies, prompts, consensus, broker, seen, killed>>

-----------------------------------------------------------------------------
(* The broker *)

Waiting == {c \in DOMAIN asked : requests[c] \in {"torn", "whole"} /\ ~Processed(c)}

\* _process_pending_requests: in the order of the file names.
TakeRequest(c) ==
  /\ broker = Polls /\ c \in Waiting /\ \A d \in Waiting : c <= d
  /\ IF requests[c] = "torn"
       THEN /\ requests' = [requests EXCEPT ![c] = "removed"]
            /\ UNCHANGED <<broker, seen>>
       ELSE /\ broker' = [does |-> "sends", call |-> c]
            /\ seen' = NothingSeen
            /\ UNCHANGED requests
  /\ UNCHANGED <<hour, asked, replies, prompts, consensus, handler, killed>>

\* A pane may be missing, and both attempts to send may fail.
Reached(agents) == SUBSET agents

\* The agents without a response are prompted.
Dispatch ==
  /\ broker.does = "sends"
  /\ \E to \in Reached({a \in Agents : replies[broker.call][a] = "none"}) :
       prompts' = [prompts EXCEPT ![broker.call] =
         [a \in Agents |-> IF a \in to THEN @[a] + 1 ELSE @[a]]]
  /\ broker' = [broker EXCEPT !.does = "collects"]
  /\ UNCHANGED <<hour, asked, requests, replies, consensus, handler, seen, killed>>

\* mutant: every response file counts as a vote
ReadAnyhow(reply) == CHOOSE vote \in Votes : TRUE

ReadAs(reply) == IF reply \in Parsed THEN reply ELSE "invalid"

\* A response that cannot be parsed counts as seen, and is not read again.
Collect(a) ==
  /\ broker.does = "collects" /\ seen[a] = "unseen"
  /\ replies[broker.call][a] # "none"
  /\ seen' = [seen EXCEPT ![a] = ReadAs(replies[broker.call][a])]
  /\ UNCHANGED <<hour, asked, requests, replies, prompts, consensus, handler, broker, killed>>

AllSeen == \A a \in Agents : seen[a] # "unseen"

\* mutant: no deadline
WaitsForAll == AllSeen

\* RESPONSE_TIMEOUT_SEC ends the wait at any moment.
WaitIsOver == AllSeen \/ broker.does = "collects"

BeginConsensus ==
  /\ broker.does = "collects" /\ WaitIsOver
  /\ consensus' = [consensus EXCEPT ![broker.call].status = "torn"]
  /\ broker' = [broker EXCEPT !.does = "writes"]
  /\ UNCHANGED <<hour, asked, requests, replies, prompts, handler, seen, killed>>

Voters(directions) == Cardinality({a \in Agents : seen[a] \in directions})

\* compute_consensus: the direction of more than half of the votes that have one.
Majority ==
  LET winners == {v \in Directions : 2 * Voters({v}) > Voters(Directions)}
  IN IF winners = {} THEN "neutral" ELSE CHOOSE v \in winners : TRUE

\* valid_vote_count: all that was parsed.
Status ==
  LET valid == Voters(Parsed) IN
    IF valid = 0 THEN "failed"
    ELSE IF valid < Cardinality(Agents) THEN "partial" ELSE "completed"

\* Nobody reads the responses any more, nor what the agents still write.
EndConsensus ==
  /\ broker.does = "writes"
  /\ consensus' = [consensus EXCEPT ![broker.call] = File(Status, Majority)]
  /\ broker' = Polls /\ seen' = NothingSeen
  /\ replies' = [replies EXCEPT ![broker.call] = [a \in Agents |-> "none"]]
  /\ prompts' = [prompts EXCEPT ![broker.call] = [a \in Agents |-> 0]]
  /\ UNCHANGED <<hour, asked, requests, handler, killed>>

BrokerDies ==
  /\ broker # Down /\ killed < MaxBrokerKills
  /\ killed' = killed + 1
  /\ broker' = Down /\ seen' = NothingSeen
  /\ UNCHANGED <<hour, asked, requests, replies, prompts, consensus, handler>>

\* run_broker: _cleanup_stale_files, then the loop.
BrokerStarts ==
  /\ broker = Down
  /\ requests' = [c \in CouncilCalls |->
       IF requests[c] \in {"torn", "whole"} /\ hour - asked[c].at > CleanupHours
         THEN "removed" ELSE requests[c]]
  /\ broker' = Polls
  /\ UNCHANGED <<hour, asked, replies, prompts, consensus, handler, seen, killed>>

-----------------------------------------------------------------------------
(* The agents: each writes what it was asked for, once per prompt, if ever. *)
(* What they write once the consensus is made is read by nobody.  A response *)
(* that is no JSON object is one that stays torn.                            *)

AgentOpens(c, a) ==
  /\ prompts[c][a] > 0 /\ ~Processed(c)
  /\ replies' = [replies EXCEPT ![c][a] = "torn"]
  /\ prompts' = [prompts EXCEPT ![c][a] = @ - 1]
  /\ UNCHANGED <<hour, asked, requests, consensus, handler, broker, seen, killed>>

AgentReplies(c, a, vote) ==
  /\ replies[c][a] = "torn" /\ ~Processed(c)
  /\ replies' = [replies EXCEPT ![c][a] = vote]
  /\ UNCHANGED <<hour, asked, requests, prompts, consensus, handler, broker, seen, killed>>

-----------------------------------------------------------------------------
Broker ==
  \/ \E c \in CouncilCalls : TakeRequest(c)
  \/ Dispatch
  \/ \E a \in Agents : Collect(a)
  \/ BeginConsensus \/ EndConsensus
  \/ BrokerStarts

CouncilNext ==
  \/ HourPasses
  \/ \E p \in CouncilPairs : BeginRequest(p)
  \/ EndRequest \/ BotDies
  \/ Broker \/ BrokerDies
  \/ \E c \in CouncilCalls, a \in Agents :
       \/ AgentOpens(c, a)
       \/ \E vote \in Parsed : AgentReplies(c, a, vote)

\* The broker is a loop with a timeout on every wait, and whoever runs it starts
\* it again.  Nothing is assumed of the bot and of the agents.
CouncilFairness == WF_councilVars(Broker)

CouncilSpec == CouncilInit /\ [][CouncilNext]_councilVars /\ CouncilFairness

-----------------------------------------------------------------------------
(* Properties *)

\* The agents are never asked twice about a pair at the same time: whatever is
\* torn, removed or killed, one request of a pair at most is unprocessed.
OneRequestPending ==
  \A p \in CouncilPairs :
    Cardinality({c \in CallsFor(p) :
                   requests[c] \in {"torn", "whole"} /\ ~Processed(c)}) <= 1

\* A consensus that the handler may serve is written over a response that somebody
\* has finished: a vote for its direction, unless that is neutral.  No response read
\* half written decides it.  A neutral one may have no vote behind it at all, only a
\* response that parsed: one object without a direction, or with an unlisted one,
\* makes a consensus that is served.  (A vote the other way may count for nothing: a
\* response read while it was being written is not read again.)  An agent prompted a
\* second time, after the broker was killed, may be writing its answer again.
BeliefHasVote ==
  [][\A c \in CouncilCalls :
       consensus'[c] # consensus[c] /\ consensus'[c].status \in {"completed", "partial"} =>
         \E a \in Agents :
           \/ replies[c][a] = consensus'[c].direction
           \/ consensus'[c].direction = "neutral" /\ replies[c][a] \in Parsed
           \/ killed > 0]_councilVars

\* Every request comes to a consensus file or is removed, even when the agents
\* never answer and the broker is killed on the way.
EveryRequestAnswered ==
  \A c \in CouncilCalls :
    requests[c] = "whole" ~> Processed(c) \/ requests[c] = "removed"
=============================================================================
