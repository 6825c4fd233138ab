------------------------------ MODULE MCAgents ------------------------------
(***************************************************************************)
(* The two ways in which agents outside the gateway are given work: tasks  *)
(* they claim from the database (AgentPoller) and requests sent over a     *)
(* WebSocket (AgentLink).  An agent process uses one of them and they      *)
(* share no state, so a behaviour is one of them, on one of several        *)
(* instances.  Polling agents keep their initial state in the behaviours   *)
(* of connected ones, which have no meaning in theirs.                     *)
(***************************************************************************)
EXTENDS AgentPoller

CONSTANTS
  Parts  \* the instances looked at

VARIABLES part,
          conns, registry, tracker, pending, wants, drain, late, evicted, waiters, call, proc, exec

pollerVars == <<wf, tasks, picked, jobs, up, raced>>
linkVars == <<conns, registry, tracker, pending, wants, drain, late, evicted, waiters, call, proc, exec>>
sumVars == <<part, faults, pollerVars, linkVars>>

T(role, deps) == [role |-> role, deps |-> deps]

\* A planner under the root, which may plan again.
Nested == {<<>>, <<T("planner", {}), T("executor", {})>>}

\* Tasks that may run at once, a dependency, and a role that does not exist.
Flat == {<<>>, <<T("executor", {}), T("executor", {})>>, <<T("executor", {2}), T("executor", {})>>,
         <<T("executor", {2}), T("unknown", {})>>}

\* Agents that take any task, and one among them that takes no planner's.
AnyRole == [a \in Agents |-> {}]
Specialised ==
  LET planner == CHOOSE a \in Agents : TRUE IN
  [a \in Agents |-> IF a = planner THEN {} ELSE {"executor"}]

\* Nested plans are those of the constants of AgentPoller; flat ones allow a fault.
PF == INSTANCE AgentPoller WITH
        RolesOf <- Specialised, Plans <- Flat, Slots <- 1, MaxTasks <- 3, MaxDepth <- 3, MaxFaults <- 1

\* One agent that reconnects; two agents; one agent whose heartbeats count.
LC == INSTANCE AgentLink WITH
        Agents <- {"a"}, Tasks <- {"t"}, MaxParallel <- 1, Reporting <- {},
        EmbeddedEnabled <- FALSE, EmbeddedFallback <- TRUE, MaxConns <- 2, MaxFaults <- 1
LT == INSTANCE AgentLink WITH
        Agents <- {"a", "b"}, Tasks <- {"t"}, MaxParallel <- 1, Reporting <- {},
        EmbeddedEnabled <- FALSE, EmbeddedFallback <- FALSE, MaxConns <- 2, MaxFaults <- 0
LH == INSTANCE AgentLink WITH
        Agents <- {"a"}, Tasks <- {"t"}, MaxParallel <- 1, Reporting <- {"a"},
        EmbeddedEnabled <- TRUE, EmbeddedFallback <- FALSE, MaxConns <- 1, MaxFaults <- 0

NoPoller ==
  /\ wf = [status |-> "running", taskCount |-> 1]
  /\ tasks = [t \in {<<>>} |-> NewTask("planner", {})]
  /\ picked = [a \in Agents |-> {}] /\ jobs = [j \in {} |-> 0]
  /\ up = Agents /\ raced = FALSE
NoLink ==
  /\ conns = "unused" /\ registry = "unused" /\ tracker = "unused" /\ pending = "unused"
  /\ wants = "unused" /\ drain = "unused" /\ late = "unused" /\ evicted = "unused"
  /\ waiters = "unused"
  /\ call = "unused" /\ proc = "unused" /\ exec = "unused"

SumInit ==
  /\ part \in Parts
  /\ \/ part = "nested" /\ Init /\ NoLink
     \/ part = "flat" /\ PF!Init /\ NoLink
     \/ part = "reconnecting" /\ LC!Init /\ NoPoller
     \/ part = "two" /\ LT!Init /\ NoPoller
     \/ part = "reporting" /\ LH!Init /\ NoPoller

In(p) == part = p /\ UNCHANGED part
Polls(p) == In(p) /\ UNCHANGED linkVars
Links(p) == In(p) /\ UNCHANGED pollerVars

SumNext ==
  \/ Polls("nested") /\ Next
  \/ Polls("flat") /\ PF!Next
  \/ Links("reconnecting") /\ LC!Next
  \/ Links("two") /\ LT!Next
  \/ Links("reporting") /\ LH!Next

\* The fairness of AgentPoller, and of AgentLink for the agent that reports.
SumFairness ==
  /\ \A a \in Agents :
       WF_sumVars(Polls("nested") /\ Progress(a)) /\ WF_sumVars(Polls("flat") /\ PF!Progress(a))
  /\ WF_sumVars(Links("reporting") /\ LH!ExecuteSync("t"))
  /\ WF_sumVars(Links("reporting") /\ LH!Connection(1))
  /\ WF_sumVars(Links("reporting") /\ LH!Drain)
  /\ WF_sumVars(Links("reporting") /\ LH!TimeOutLate)
  /\ WF_sumVars(Links("reporting") /\ LH!Evict)
  /\ WF_sumVars(Links("reporting") /\ LH!Client("a"))
  /\ WF_sumVars(Links("reporting") /\ LH!Heartbeat("a"))

SumSpec == SumInit /\ [][SumNext]_sumVars /\ SumFairness

-----------------------------------------------------------------------------

Polling == part \in {"nested", "flat"}
Linked == part \in {"reconnecting", "two", "reporting"}

\* Connected agents: the goroutine of an old connection does not remove the new one,
\* and a channel waits for an answer exactly as long as its caller.
HubIsCurrent == Linked => LC!RegistryIsCurrent /\ LC!WaitersAreAwaited

\* Polling agents end the workflow between them, unless a task is blocked by a
\* failed one, abandoned by a timeout or of a role none of them takes; the count of a connected agent's tasks does
\* not stay wrong while it is idle.
WorkGoesOn ==
  LET Short == part = "reporting" /\ LH!Idle("a") /\ LH!Active("a") > 0 IN
  /\ <>[](Polling => Ended)
  /\ Short ~> ~Short

=============================================================================
