----------------------------- MODULE Lifecycle -----------------------------
(***************************************************************************)
(* A process from its start to its end (cmd/akili): initShared takes the    *)
(* resources one after the other, each with a cleanup; the command starts   *)
(* the loops that were asked for, each on the signal context or on a child  *)
(* of it that is cancelled by a deferred call; the gateways, or the agent's *)
(* own loop, run; and a signal or the first of them to return ends it all:  *)
(* the gateways are stopped, the deferred calls run backwards, and the last *)
(* of them runs the cleanups backwards.                                     *)
(*                                                                          *)
(* Nothing waits for a loop to end: it is told, and ends when it looks.     *)
(***************************************************************************)
EXTENDS Integers, Sequences

CONSTANTS
  Modes,   \* the commands looked at: "gateway", "dbAgent", "wsAgent"
  Options  \* the sets of parts and gateways a configuration may enable

VARIABLES
  mode, on,
  kinds,     \* the gateways, by kind, in the order they are built
  stage,     \* where the command is
  step,      \* steps taken of the current stage
  cleanups,  \* SharedComponents.cleanups
  deferred,  \* the deferred calls of the command
  ctx,       \* whether the signal context is cancelled
  loops,     \* the loops that were started
  told,      \* of these, those whose own context is cancelled
  gateway,   \* what each gateway is doing
  halted,    \* those that were told to return
  busy,      \* those with a request in their hands
  link,      \* the connection of a remote agent; "late" if made during the shutdown
  next,      \* the gateway to stop next
  waiting,   \* whether its Stop waits for requests
  expired    \* whether the deadline of the shutdown has passed

vars == <<mode, on, kinds, stage, step, cleanups, deferred, ctx, loops, told, gateway, halted,
          busy, link, next, waiting, expired>>

configuration == <<mode, on, kinds>>
command == <<configuration, stage, step, cleanups, deferred, ctx, loops, told>>
shutdown == <<next, waiting, expired>>
serving == <<gateway, halted, busy, link>>

Gateways == DOMAIN kinds
Members(s) == {s[k] : k \in DOMAIN s}
Front(s) == SubSeq(s, 1, Len(s) - 1)

-----------------------------------------------------------------------------
(* What is started, in order. *)

\* initShared, and the shorter one of agents that have no database.
initShared ==
  <<"workspace", "dataDir", "observability", "llm", "store", "migrate", "org", "security",
    "sandbox", "mcp", "soul">>
initSharedForWSAgent ==
  <<"workspace", "dataDir", "observability", "llm", "security", "sandbox", "mcp">>

Phases == IF mode = "wsAgent" THEN initSharedForWSAgent ELSE initShared

\* The steps that leave something to clean up, and those that may fail: a server of
\* tools that does not answer and a soul that cannot be loaded do not end the process,
\* and only security without a database has a file to open.
Owners == {"observability", "store", "security"} \union (on \intersect {"mcp", "soul"})
Fallible ==
  Members(Phases) \ ({"mcp", "soul"} \union (IF mode = "wsAgent" THEN {} ELSE {"security"}))

Loop(name, needs, own) == [name |-> name, needs |-> needs, own |-> own]

\* The loops of runGateway: what each requires, and whether it has a context of its own.
gatewayLoops ==
  <<Loop("approvals", {}, TRUE), Loop("stale", {}, FALSE),
    Loop("websocket", {"websocket"}, FALSE),
    Loop("skills", {"orchestrator", "skills"}, FALSE),
    Loop("scheduler", {"scheduler", "orchestrator"}, TRUE),
    Loop("checker", {"notification", "alerting"}, TRUE),
    Loop("taskFiles", {"tasks"}, FALSE), Loop("tasks", {"tasks"}, TRUE)>>

dbAgentLoops ==
  <<Loop("approvals", {}, TRUE), Loop("identity", {}, FALSE), Loop("sender", {}, FALSE),
    Loop("skills", {"skills"}, FALSE)>>

wsAgentLoops == <<Loop("approvals", {}, TRUE)>>

Loops ==
  CASE mode = "gateway" -> gatewayLoops
    [] mode = "dbAgent" -> dbAgentLoops
    [] mode = "wsAgent" -> wsAgentLoops

\* Gateways.  "http", "server": an HTTP server, whose Stop waits; "poll", "cli": a loop,
\* told to end.  Agents connect to the HTTP gateway, or to a server of their own.
\* Without any section, "sections", on gateways there is the terminal.
Enabled(name, kind) == IF name \in on THEN <<kind>> ELSE <<>>

buildGateways ==
  IF on \intersect {"sections", "websocket"} = {} THEN <<"cli">>
  ELSE Enabled("cli", "cli")
       \o (IF "http" \in on THEN <<"http">> ELSE Enabled("websocket", "server"))
       \o Enabled("slack", "server")
       \o Enabled("telegram", IF "webhook" \in on THEN "server" ELSE "poll")
       \o Enabled("signal", "poll")

\* An agent without a gateway's address polls the database, and needs the orchestrator.
Init ==
  /\ mode \in Modes /\ on \in Options
  /\ mode = "dbAgent" => "orchestrator" \in on
  /\ kinds = IF mode = "gateway" THEN buildGateways ELSE <<"run">>
  /\ stage = "init" /\ step = 1
  /\ cleanups = <<>> /\ deferred = <<>> /\ ctx = FALSE /\ loops = {} /\ told = {}
  /\ gateway = [g \in Gateways |-> "none"] /\ halted = {} /\ busy = {} /\ link = "none"
  /\ next = Len(kinds) /\ waiting = FALSE /\ expired = FALSE

-----------------------------------------------------------------------------
(* The start. *)

\* One step of initShared.  A failing one runs the cleanups there are and returns.
Acquire ==
  /\ stage = "init" /\ step <= Len(Phases)
  /\ LET p == Phases[step] IN
       \/ /\ step' = step + 1
          /\ \/ cleanups' = IF p \in Owners THEN Append(cleanups, p) ELSE cleanups
             \/ p = "soul" /\ UNCHANGED cleanups
          /\ loops' = IF "soul" \in Members(cleanups') THEN loops \union {"reflection"} ELSE loops
          /\ UNCHANGED stage
       \/ /\ p \in Fallible
          /\ stage' = "cleanup"
          /\ UNCHANGED <<step, cleanups, loops>>
  /\ UNCHANGED <<configuration, deferred, ctx, told, serving, shutdown>>

\* The command has its components and listens to signals.
Notify ==
  /\ stage = "init" /\ step > Len(Phases)
  /\ stage' = "starting" /\ step' = 1
  /\ deferred' = <<"Cleanup", "stop">>
  /\ UNCHANGED <<configuration, cleanups, ctx, loops, told, serving, shutdown>>

\* The loops that are enabled and have what they need are started, with a deferred
\* cancel where they have a context of their own.  An agent may lack its identity.
StartLoop ==
  /\ stage = "starting" /\ step <= Len(Loops)
  /\ LET l == Loops[step]
         started == l.needs \subseteq on
     IN \/ /\ step' = step + 1
           /\ loops' = IF started /\ l.name # "identity" THEN loops \union {l.name} ELSE loops
           /\ deferred' = IF started /\ l.own THEN Append(deferred, l.name) ELSE deferred
           /\ UNCHANGED stage
        \/ /\ l.name = "identity"
           /\ stage' = "unwinding"
           /\ UNCHANGED <<step, loops, deferred>>
  /\ UNCHANGED <<configuration, cleanups, ctx, told, serving, shutdown>>

\* The goroutines of the gateways are begun; without any there is an error.
StartAll ==
  /\ stage = "starting" /\ step > Len(Loops)
  /\ stage' = IF kinds = <<>> THEN "unwinding" ELSE "serving"
  /\ gateway' = [g \in Gateways |-> "built"]
  /\ UNCHANGED <<configuration, step, cleanups, deferred, ctx, loops, told, halted, busy, link, shutdown>>

-----------------------------------------------------------------------------
(* The gateways, and "run", the loop of an agent. *)

Server(g) == kinds[g] \in {"http", "server"}
Up == stage \notin {"init", "starting", "ended"}

\* Start.  A server that was stopped before it began is not told again, and listens.
Start(g) ==
  /\ Up /\ gateway[g] = "built"
  /\ \/ gateway' = [gateway EXCEPT ![g] = IF Server(g) /\ next < g THEN "late" ELSE "up"]
     \/ Server(g) /\ gateway' = [gateway EXCEPT ![g] = "returned"]
  /\ UNCHANGED <<command, halted, busy, link, shutdown>>

\* A gateway has a request, an agent that polls has taken a task.  A loop looks at its
\* context before it asks for more: what it has asked for it still handles.
Request(g) ==
  /\ Up /\ gateway[g] \in {"up", "late"} /\ g \notin busy
  /\ mode = "gateway" \/ (mode = "dbAgent" /\ ~ctx)
  /\ busy' = busy \union {g}
  /\ UNCHANGED <<command, gateway, halted, link, shutdown>>

Answer(g) ==
  /\ stage # "ended" /\ g \in busy
  /\ busy' = busy \ {g}
  /\ UNCHANGED <<command, gateway, halted, link, shutdown>>

\* A remote agent connects, to the first server; its connection is not one of the
\* requests that the server waits for.
Connect(g) ==
  /\ Up /\ "websocket" \in on /\ link = "none"
  /\ Server(g) /\ gateway[g] \in {"up", "late"} /\ \A h \in 1..(g - 1) : ~Server(h)
  /\ link' = IF stage \in {"serving", "closing"} THEN "open" ELSE "late"
  /\ UNCHANGED <<command, gateway, halted, busy, shutdown>>

\* Start returns: a terminal is left, an agent does not reach its gateway, or the loop
\* looks at its context; the one that polls waits for its tasks first.
StartReturns(g) ==
  /\ Up /\ gateway[g] = "up" /\ ~Server(g) /\ g \notin busy
  /\ kinds[g] = "cli" \/ mode = "wsAgent" \/ ctx \/ g \in halted
  /\ gateway' = [gateway EXCEPT ![g] = "returned"]
  /\ UNCHANGED <<command, halted, busy, link, shutdown>>

\* SIGINT or SIGTERM, from the moment they are listened to.
Signal ==
  /\ stage \in {"starting", "serving"} /\ ~ctx
  /\ ctx' = TRUE
  /\ UNCHANGED <<configuration, stage, step, cleanups, deferred, loops, told, serving, shutdown>>

-----------------------------------------------------------------------------
(* The end. *)

SomeReturned == \E g \in Gateways : gateway[g] = "returned"

\* Mutant: a gateway that returns is not noticed.
AwaitSignal ==
  /\ stage = "serving"
  /\ IF mode = "gateway" THEN ctx ELSE SomeReturned
  /\ stage' = IF mode = "gateway" THEN "closing" ELSE "unwinding"
  /\ UNCHANGED <<configuration, step, cleanups, deferred, ctx, loops, told, serving, shutdown>>

\* runGateway waits for the signal or the first gateway; an agent for its loop.
Await ==
  /\ stage = "serving"
  /\ IF mode = "gateway" THEN ctx \/ SomeReturned ELSE SomeReturned
  /\ stage' = IF mode = "gateway" THEN "closing" ELSE "unwinding"
  /\ UNCHANGED <<configuration, step, cleanups, deferred, ctx, loops, told, serving, shutdown>>

\* wsServer.Shutdown: the connections there are closed first, and those of agents that
\* come back at once are not looked for.
Shutdown ==
  /\ stage = "closing"
  /\ stage' = "stopping"
  /\ link' = "none"
  /\ UNCHANGED <<configuration, step, cleanups, deferred, ctx, loops, told, gateway, halted, busy,
                 shutdown>>

\* Whether Stop reaches the loop of a gateway: that of the terminal by its channel, one
\* that polls by the cancel its Start has made.
Halts(g) == kinds[g] = "cli" \/ (kinds[g] = "poll" /\ gateway[g] # "built")

\* Stop of the next gateway, from the last to the first: a server closes its listener
\* and waits for its requests, a loop is told.
Stop ==
  /\ stage = "stopping" /\ next > 0 /\ ~waiting
  /\ IF Server(next) /\ gateway[next] = "up"
       THEN /\ gateway' = [gateway EXCEPT ![next] = "returned"] /\ waiting' = TRUE
            /\ UNCHANGED <<halted, next>>
       ELSE /\ halted' = IF Halts(next) THEN halted \union {next} ELSE halted
            /\ next' = next - 1
            /\ UNCHANGED <<gateway, waiting>>
  /\ UNCHANGED <<command, busy, link, expired>>

\* Mutant: a server is closed without waiting for its requests.
StopReturnsAtOnce ==
  /\ waiting
  /\ waiting' = FALSE /\ next' = next - 1
  /\ UNCHANGED <<command, serving, expired>>

\* Its Stop returns when its requests are answered, or at the deadline of the shutdown,
\* which Stop of the HTTP API does not pass on.
StopReturns ==
  /\ waiting
  /\ next \notin busy \/ (expired /\ kinds[next] = "server")
  /\ waiting' = FALSE /\ next' = next - 1
  /\ UNCHANGED <<command, serving, expired>>

Expire ==
  /\ stage \in {"closing", "stopping"} /\ ~expired
  /\ expired' = TRUE
  /\ UNCHANGED <<command, serving, next, waiting>>

Stopped ==
  /\ stage = "stopping" /\ next = 0
  /\ stage' = "unwinding"
  /\ UNCHANGED <<configuration, step, cleanups, deferred, ctx, loops, told, serving, shutdown>>

\* The deferred calls, the last one first.
Unwind ==
  /\ stage = "unwinding"
  /\ LET call == deferred[Len(deferred)] IN
       /\ stage' = IF call = "Cleanup" THEN "cleanup" ELSE stage
       /\ ctx' = (ctx \/ call = "stop")
       /\ told' = IF call \in loops THEN told \union {call} ELSE told
  /\ deferred' = Front(deferred)
  /\ UNCHANGED <<configuration, step, cleanups, loops, serving, shutdown>>

\* Cleanup: the last one first; that of the soul cancels its loop, which has a context
\* that no signal reaches.
Cleanup ==
  /\ stage = "cleanup"
  /\ IF cleanups = <<>>
       THEN stage' = "ended" /\ UNCHANGED <<cleanups, told>>
       ELSE /\ cleanups' = Front(cleanups)
            /\ told' = IF cleanups[Len(cleanups)] = "soul" THEN told \union {"reflection"} ELSE told
            /\ UNCHANGED stage
  /\ UNCHANGED <<configuration, step, deferred, ctx, loops, serving, shutdown>>

Command ==
  \/ Acquire \/ Notify \/ StartLoop \/ StartAll \/ Await
  \/ Shutdown \/ Stop \/ StopReturns \/ Stopped \/ Unwind \/ Cleanup

Next ==
  \/ Command \/ Signal \/ Expire
  \/ \E g \in Gateways : Start(g) \/ Request(g) \/ Answer(g) \/ Connect(g) \/ StartReturns(g)

\* The command goes on, the deadline passes, and an agent's loop, which the command
\* calls itself, begins and looks at its context.  Nothing says that a request or a task
\* comes to an end.
RunAgent == mode # "gateway" /\ (Start(1) \/ (ctx /\ StartReturns(1)))

Fairness ==
  /\ WF_vars(Command)
  /\ WF_vars(RunAgent)
  /\ WF_vars(Expire)

Spec == Init /\ [][Next]_vars /\ Fairness

-----------------------------------------------------------------------------

TypeOK ==
  /\ stage \in {"init", "starting", "serving", "closing", "stopping", "unwinding", "cleanup", "ended"}
  /\ gateway \in [Gateways -> {"none", "built", "up", "late", "returned"}]
  /\ busy \subseteq Gateways /\ link \in {"none", "open", "late"} /\ next \in 0..Len(kinds)
  /\ told \subseteq loops /\ halted \subseteq Gateways
  /\ stage = "unwinding" => deferred # <<>>

Told(l) == l \in told \/ (ctx /\ l # "reflection")

\* When the store is closed, every loop that uses it has been told to end and every
\* gateway has been stopped.  The only requests under way are those of a loop, which are
\* not waited for, and of a server that was stopped before it began or outlasted the
\* deadline; the only agent connected is one that came back during the shutdown.
ClosedLast ==
  stage \in {"cleanup", "ended"} /\ deferred = <<>> /\ "store" \notin Members(cleanups) =>
    /\ \A l \in loops : Told(l)
    /\ \A g \in Gateways : gateway[g] = "up" => ctx /\ ~Server(g)
    /\ \A g \in busy :
         \/ mode = "gateway" /\ ~Server(g)
         \/ gateway[g] = "late"
         \/ expired /\ kinds[g] = "server"
    /\ link # "open"

\* What was taken later is given back earlier, and in the end all of it is, also when
\* the start fails half way.
GivenBack ==
  /\ \A i \in DOMAIN Phases :
       \/ Phases[i] \notin Members(cleanups)
       \/ \A j \in 1..i : Phases[j] \in Owners => Phases[j] \in Members(cleanups)
  /\ stage = "ended" => cleanups = <<>> /\ deferred = <<>>

\* What the end of a process may wait for without a deadline: a request of the HTTP
\* API, and a task of an agent that polls.
Hung ==
  \/ waiting /\ next \in busy /\ kinds[next] = "http"
  \/ mode = "dbAgent" /\ stage = "serving" /\ ctx /\ busy # {}

\* A signal, or a gateway that returns, ends the process, unless it hangs there for ever.
Ending == ctx \/ SomeReturned
ProcessEnds == []<>~Hung => <>[](Ending => stage = "ended")

=============================================================================
