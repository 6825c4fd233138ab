------------------------------ MODULE AgentLink ------------------------------
(***************************************************************************)
(* Agents that are connected by WebSocket (gateway/ws, agent/registry.go,  *)
(* agent/wsclient.go, agent/routing.go).  A request is routed to a         *)
(* registered agent, its task is written to the agent's connection and     *)
(* tracked, and the caller waits for the answer, for a failure or for a    *)
(* timer.  Tasks that are not acknowledged, or whose agent is gone, are    *)
(* queued and sent again.                                                  *)
(*                                                                         *)
(* On the server every connection has a goroutine, and so has every        *)
(* request and the check for acknowledgements; all of them may drain the   *)
(* queue.  A connection carries messages in order both ways until one side *)
(* closes it or it is cut.  A task that is completed, failed or timed out  *)
(* is left out of the tracker: no operation tells it from one that was     *)
(* never tracked.                                                          *)
(***************************************************************************)
EXTENDS Integers, Sequences, FiniteSets, Bags, BagsExt

CONSTANTS
  Agents,            \* agent ids
  Tasks,             \* one request each
  MaxParallel,       \* what an agent registers with
  EmbeddedEnabled, EmbeddedFallback,
  Reporting,         \* agents whose heartbeats are looked at
  MaxConns,          \* bound: connections made
  MaxFaults          \* bound: cut connections, stopped agents, evictions, late acknowledgements

VARIABLES
  conns,     \* the connections in the order they were made, with their goroutines
  registry,  \* registered agents: the connection and the number of active tasks
  tracker,   \* tasks that are dispatched or accepted, and the agent
  pending,   \* tasks waiting for an agent
  wants,     \* goroutines about to drain the queue; 0 is the acknowledgement check
  drain,     \* the drain that holds the queue's lock
  late,      \* what the acknowledgement check has still to time out, and its next step
  evicted,   \* connections of silent agents that have still to be closed
  waiters,   \* tasks with a channel in the syncWaiter
  call,      \* the requests
  proc,      \* the agent processes
  exec,      \* their executeTask goroutines
  faults

serverVars == <<registry, tracker, pending, wants, drain, late, evicted, waiters, call>>
vars == <<conns, serverVars, proc, exec, faults>>

NoMsg == [type |-> "none"]
OfTask(type, t) == [type |-> type, task |-> t]
NoSend == [step |-> "none"]
NoDrain == [by |-> -1, todo |-> <<>>, kept |-> <<>>, send |-> NoSend]

Init ==
  /\ conns = <<>>
  /\ registry = [a \in {} |-> 0] /\ tracker = [t \in {} |-> 0]
  /\ pending = <<>> /\ wants = {} /\ drain = NoDrain /\ late = {} /\ evicted = {}
  /\ waiters = {}
  /\ call = [t \in Tasks |-> [stage |-> "idle", send |-> NoSend, answer |-> "none"]]
  /\ proc = [a \in Agents |-> [stage |-> "starting", conn |-> 0]]
  /\ exec = EmptyBag
  /\ faults = 0

Fault == faults < MaxFaults /\ faults' = faults + 1

Put(f, k, v) == [x \in DOMAIN f \cup {k} |-> IF x = k THEN v ELSE f[x]]
Without(f, k) == [x \in DOMAIN f \ {k} |-> f[x]]

-----------------------------------------------------------------------------
(* The registry, the waiters and the connections *)

Count(a, n) == IF a \in DOMAIN registry THEN [registry EXCEPT ![a].active = n] ELSE registry
Active(a) == IF a \in DOMAIN registry THEN registry[a].active ELSE 0
IncrementTasks(a) == Count(a, Active(a) + 1)
DecrementTasks(a) == Count(a, IF Active(a) > 0 THEN Active(a) - 1 ELSE 0)

MarkAccepted(t) ==
  IF t \in DOMAIN tracker THEN [tracker EXCEPT ![t].state = "accepted"] ELSE tracker

\* MarkCompleted, MarkFailed or MarkTimedOut, whichever agent says so.
MarkEnded(t) == Without(tracker, t)

\* Least-loaded routing among the agents that have room.
Route ==
  LET free == {a \in DOMAIN registry : registry[a].active < MaxParallel} IN
  {a \in free : \A b \in free : registry[a].active <= registry[b].active}

\* The channel has room for one answer, and the waiter is gone when it is sent.
resolve(t, answer) ==
  /\ waiters' = waiters \ {t}
  /\ call' = IF t \in waiters THEN [call EXCEPT ![t].answer = answer] ELSE call

Connected(c) == conns[c].link = "up" /\ conns[c].server = "open" /\ conns[c].client = "open"

\* A write fails once this side has closed; until it has noticed that the
\* connection is dead, a write may also seem to succeed.
Writes(c) ==
  IF Connected(c) THEN {"ok"} ELSE IF conns[c].server = "closed" THEN {"error"} ELSE {"ok", "error"}

ToAgent(c, m) == IF Connected(c) THEN [conns EXCEPT ![c].down = Append(@, m)] ELSE conns
ToServer(c, m) == IF Connected(c) THEN [conns EXCEPT ![c].up = Append(@, m)] ELSE conns

CloseServer(cs, c) == [cs EXCEPT ![c].server = "closed", ![c].up = <<>>]

-----------------------------------------------------------------------------
(* sendTaskToAgent: the write, the count and the tracker, one after another *)

SendTo(t, a) == [step |-> "write", task |-> t, agent |-> a, conn |-> registry[a].conn]

Written(s, result) ==
  /\ s.step = "write" /\ result \in Writes(s.conn)
  /\ conns' = ToAgent(s.conn, OfTask("assign", s.task))
  /\ UNCHANGED <<registry, tracker>>

Counted(s) ==
  /\ s.step = "count" /\ registry' = IncrementTasks(s.agent)
  /\ UNCHANGED <<conns, tracker>>

Tracked(s) ==
  /\ s.step = "track"
  /\ tracker' = Put(tracker, s.task, [agent |-> s.agent, state |-> "dispatched"])
  /\ UNCHANGED <<conns, registry>>

-----------------------------------------------------------------------------
(* drainPendingTasks holds the lock of the queue from the first task to the last *)

StartDrain(g) ==
  /\ g \in wants /\ drain = NoDrain
  /\ wants' = wants \ {g}
  /\ IF pending = <<>> THEN UNCHANGED <<pending, drain>>
     ELSE pending' = <<>> /\ drain' = [NoDrain EXCEPT !.by = g, !.todo = pending]
  /\ UNCHANGED <<conns, registry, tracker, late, evicted, waiters, call, proc, exec, faults>>

RouteNext ==
  /\ drain.send = NoSend /\ drain.todo # <<>>
  /\ LET t == Head(drain.todo) rest == [drain EXCEPT !.todo = Tail(@)] IN
       \/ Route = {} /\ drain' = [rest EXCEPT !.kept = Append(@, t)]
       \/ \E a \in Route : drain' = [rest EXCEPT !.send = SendTo(t, a)]
  /\ UNCHANGED <<conns, registry, tracker, pending, wants, late, evicted, waiters, call, proc, exec, faults>>

\* A task that cannot be written is gone: nobody waits for its error.
SendNext ==
  LET s == drain.send
      Then(step) == drain' = [drain EXCEPT !.send = [s EXCEPT !.step = step]]
      Sent == drain' = [drain EXCEPT !.send = NoSend] IN
  /\ \/ Written(s, "ok") /\ Then("count")
     \/ Written(s, "error") /\ Sent
     \/ Counted(s) /\ Then("track")
     \/ Tracked(s) /\ Sent
  /\ UNCHANGED <<pending, wants, late, evicted, waiters, call, proc, exec, faults>>

EndDrain ==
  /\ drain # NoDrain /\ drain.todo = <<>> /\ drain.send = NoSend
  /\ pending' = drain.kept /\ drain' = NoDrain
  /\ UNCHANGED <<conns, registry, tracker, wants, late, evicted, waiters, call, proc, exec, faults>>

Draining(g) == g \in wants \/ drain.by = g

\* requeueTask: append under the lock, then drain.
requeueTask(g, t) ==
  /\ drain = NoDrain
  /\ pending' = Append(pending, t) /\ wants' = wants \cup {g}

-----------------------------------------------------------------------------
(* A request: RoutingAgent.Process and ExecuteSync *)

Reply(t, answer) == call' = [call EXCEPT ![t] = [stage |-> "done", send |-> NoSend, answer |-> answer]]
Embedded(t) == Reply(t, IF EmbeddedEnabled \/ EmbeddedFallback THEN "embedded" ELSE "error")
RemoteFailed(t) == Reply(t, IF EmbeddedFallback THEN "embedded" ELSE "error")

Process(t) ==
  /\ call[t].stage = "idle"
  /\ \/ DOMAIN registry = {} /\ Embedded(t)
     \/ DOMAIN registry # {} /\ Route = {} /\ RemoteFailed(t)
     \/ \E a \in Route : call' = [call EXCEPT ![t].stage = "sending", ![t].send = SendTo(t, a)]
  /\ UNCHANGED <<conns, registry, tracker, pending, wants, drain, late, evicted, waiters, proc, exec, faults>>

\* The waiter is registered before the write and removed when it fails.
ExecuteSync(t) ==
  LET s == call[t].send
      Then(step) == call' = [call EXCEPT ![t].send.step = step] IN
  /\ call[t].stage = "sending"
  /\ \/ Written(s, "ok") /\ Then("count") /\ waiters' = waiters \cup {t}
     \/ Written(s, "error") /\ RemoteFailed(t) /\ UNCHANGED waiters
     \/ Counted(s) /\ Then("track") /\ UNCHANGED waiters
     \/ Tracked(s) /\ UNCHANGED waiters
        /\ call' = [call EXCEPT ![t].stage = "waiting", ![t].send = NoSend]
  /\ UNCHANGED <<pending, wants, drain, late, evicted, proc, exec, faults>>

Receive(t) ==
  /\ call[t].stage = "waiting" /\ call[t].answer # "none"
  /\ Reply(t, call[t].answer)
  /\ UNCHANGED <<conns, registry, tracker, pending, wants, drain, late, evicted, waiters, proc, exec, faults>>

\* The timer, or the end of the request's context.
TimesOut(t) ==
  /\ call[t].stage = "waiting" /\ RemoteFailed(t)
  /\ waiters' = waiters \ {t}
  /\ UNCHANGED <<conns, registry, tracker, pending, wants, drain, late, evicted, proc, exec, faults>>

-----------------------------------------------------------------------------
(* handleConnection *)

\* RegisterOrReplace: the agent's entry is a new one.
Register(c) ==
  LET a == conns[c].agent
      old == IF a \in DOMAIN registry THEN registry[a].conn ELSE 0 IN
  /\ conns[c].stage = "accepting" /\ conns[c].up # <<>>
  /\ registry' = Put(registry, a, [conn |-> c, active |-> 0])
  /\ conns' = [conns EXCEPT ![c].up = Tail(@), ![c].old = old,
                            ![c].stage = IF old = 0 THEN "confirming" ELSE "replacing"]
  /\ UNCHANGED <<tracker, pending, wants, drain, late, evicted, waiters, call, proc, exec, faults>>

\* The connection that was replaced is closed; until then its goroutine goes on.
CloseReplaced(c) ==
  /\ conns[c].stage = "replacing"
  /\ conns' = [CloseServer(conns, conns[c].old) EXCEPT ![c].stage = "confirming", ![c].old = 0]
  /\ UNCHANGED <<serverVars, proc, exec, faults>>

\* The confirmation, after which the queue is drained.
Confirm(c) ==
  /\ conns[c].stage = "confirming"
  /\ conns' = [ToAgent(c, [type |-> "registered"]) EXCEPT ![c].stage = "reading"]
  /\ wants' = wants \cup {c}
  /\ UNCHANGED <<registry, tracker, pending, drain, late, evicted, waiters, call, proc, exec, faults>>

Read(c) ==
  /\ conns[c].stage = "reading" /\ ~Draining(c)
  /\ conns[c].msg = NoMsg /\ conns[c].up # <<>>
  /\ conns' = [conns EXCEPT ![c].msg = Head(conns[c].up), ![c].up = Tail(@)]
  /\ UNCHANGED <<serverVars, proc, exec, faults>>

UpdateHeartbeat(a, n) == Count(a, n)

\* A result is three steps: the count, the tracker, the waiter; then the queue is
\* drained.
handleMessage(c) ==
  LET m == conns[c].msg
      a == conns[c].agent
      Then(rest) == conns' = [conns EXCEPT ![c].msg = rest] IN
  /\ \/ /\ m.type = "heartbeat" /\ Then(NoMsg)
        /\ registry' = UpdateHeartbeat(a, m.active)
        /\ UNCHANGED <<tracker, wants, waiters, call>>
     \/ /\ m.type = "accepted" /\ Then(NoMsg)
        /\ tracker' = MarkAccepted(m.task)
        /\ UNCHANGED <<registry, wants, waiters, call>>
     \/ /\ m.type \in {"success", "failure"} /\ Then([type |-> "mark", task |-> m.task, answer |-> m.type])
        /\ registry' = DecrementTasks(a)
        /\ UNCHANGED <<tracker, wants, waiters, call>>
     \/ /\ m.type = "mark" /\ Then([m EXCEPT !.type = "resolve"])
        /\ tracker' = MarkEnded(m.task)
        /\ UNCHANGED <<registry, wants, waiters, call>>
     \/ /\ m.type = "resolve" /\ Then(NoMsg)
        /\ resolve(m.task, m.answer)
        /\ wants' = wants \cup {c}
        /\ UNCHANGED <<registry, tracker>>
  /\ UNCHANGED <<pending, drain, late, evicted, proc, exec, faults>>

Unreadable(c) ==
  \/ conns[c].server = "closed"
  \/ conns[c].up = <<>> /\ (conns[c].link = "cut" \/ conns[c].client = "closed")

TasksForAgent(a) == {t \in DOMAIN tracker : tracker[t].agent = a}

\* Reading fails: the goroutine looks for the tasks of its agent.  One that has
\* not registered an agent is done.
ReadError(c) ==
  /\ conns[c].stage \in {"accepting", "reading"} /\ ~Draining(c)
  /\ conns[c].msg = NoMsg /\ Unreadable(c)
  /\ conns' = [CloseServer(conns, c) EXCEPT
       ![c].stage = IF conns[c].stage = "accepting" THEN "done" ELSE "closing",
       ![c].todo = IF conns[c].stage = "accepting" THEN {} ELSE TasksForAgent(conns[c].agent)]
  /\ UNCHANGED <<serverVars, proc, exec, faults>>

\* Each of them is marked as failed, its waiter is told, and it is queued again.
FailOrphan(c, t) ==
  /\ conns[c].stage = "closing" /\ ~Draining(c) /\ conns[c].msg = NoMsg /\ t \in conns[c].todo
  /\ conns' = [conns EXCEPT ![c].todo = @ \ {t}, ![c].msg = OfTask("failed", t)]
  /\ tracker' = MarkEnded(t)
  /\ UNCHANGED <<registry, pending, wants, drain, late, evicted, waiters, call, proc, exec, faults>>

ResolveOrphan(c) ==
  /\ conns[c].msg.type = "failed"
  /\ conns' = [conns EXCEPT ![c].msg.type = "requeue"]
  /\ resolve(conns[c].msg.task, "failure")
  /\ UNCHANGED <<registry, tracker, pending, wants, drain, late, evicted, proc, exec, faults>>

RequeueOrphan(c) ==
  /\ conns[c].msg.type = "requeue"
  /\ conns' = [conns EXCEPT ![c].msg = NoMsg]
  /\ requeueTask(c, conns[c].msg.task)
  /\ UNCHANGED <<registry, tracker, drain, late, evicted, waiters, call, proc, exec, faults>>

\* Mutant: whatever connection the agent has now.
DeregisterAny(c) ==
  /\ conns[c].stage = "closing" /\ ~Draining(c) /\ conns[c].msg = NoMsg /\ conns[c].todo = {}
  /\ registry' = Without(registry, conns[c].agent)
  /\ conns' = [conns EXCEPT ![c].stage = "done"]
  /\ UNCHANGED <<tracker, pending, wants, drain, late, evicted, waiters, call, proc, exec, faults>>

Deregister(c) ==
  LET a == conns[c].agent IN
  /\ conns[c].stage = "closing" /\ ~Draining(c) /\ conns[c].msg = NoMsg /\ conns[c].todo = {}
  /\ registry' = IF a \in DOMAIN registry /\ registry[a].conn = c
                 THEN Without(registry, a) ELSE registry
  /\ conns' = [conns EXCEPT ![c].stage = "done"]
  /\ UNCHANGED <<tracker, pending, wants, drain, late, evicted, waiters, call, proc, exec, faults>>

-----------------------------------------------------------------------------
(* The checks for silent agents and for late acknowledgements; when they find  *)
(* something is a matter of time, and counts as a fault *)

RemoveStale(a) ==
  /\ Fault /\ evicted = {} /\ a \in DOMAIN registry
  /\ registry' = Without(registry, a)
  /\ evicted' = {registry[a].conn}
  /\ UNCHANGED <<conns, tracker, pending, wants, drain, late, waiters, call, proc, exec>>

CloseStale(c) ==
  /\ c \in evicted
  /\ conns' = CloseServer(conns, c) /\ evicted' = evicted \ {c}
  /\ UNCHANGED <<registry, tracker, pending, wants, drain, late, waiters, call, proc, exec, faults>>

UnacknowledgedTasks(found) ==
  /\ Fault /\ late = {} /\ ~Draining(0) /\ found # {}
  /\ \A t \in found : tracker[t].state = "dispatched"
  /\ late' = {[task |-> t, agent |-> tracker[t].agent, step |-> "mark"] : t \in found}
  /\ UNCHANGED <<conns, registry, tracker, pending, wants, drain, evicted, waiters, call, proc, exec>>

\* One after another: MarkTimedOut, which does not look at the state again, the count
\* and the queue.
MarkTimedOut(l) ==
  LET Then(step) == late' = (late \ {l}) \cup {[l EXCEPT !.step = step]} IN
  /\ l \in late /\ ~Draining(0) /\ \A k \in late \ {l} : k.step = "mark"
  /\ \/ /\ l.step = "mark" /\ Then("count")
        /\ tracker' = MarkEnded(l.task)
        /\ UNCHANGED <<registry, pending, wants>>
     \/ /\ l.step = "count" /\ Then("queue")
        /\ registry' = DecrementTasks(l.agent)
        /\ UNCHANGED <<tracker, pending, wants>>
     \/ /\ l.step = "queue" /\ late' = late \ {l}
        /\ requeueTask(0, l.task)
        /\ UNCHANGED <<registry, tracker>>
  /\ UNCHANGED <<conns, drain, evicted, waiters, call, proc, exec, faults>>

-----------------------------------------------------------------------------
(* The agent's side *)

NewConn(a) ==
  [agent |-> a, link |-> "up", server |-> "open", client |-> "open",
   up |-> <<[type |-> "register"]>>, down |-> <<>>,
   stage |-> "accepting", msg |-> NoMsg, todo |-> {}, old |-> 0]

Dial(a) ==
  /\ proc[a].stage \in {"starting", "reconnecting"} /\ proc[a].conn = 0
  /\ Len(conns) < MaxConns
  /\ conns' = Append(conns, NewConn(a))
  /\ proc' = [proc EXCEPT ![a].conn = Len(conns) + 1]
  /\ UNCHANGED <<serverVars, exec, faults>>

FirstIs(a, type) ==
  LET c == proc[a].conn IN c # 0 /\ conns[c].down # <<>> /\ Head(conns[c].down).type = type

waitForRegistered(a) ==
  /\ proc[a].stage # "serving" /\ FirstIs(a, "registered")
  /\ conns' = [conns EXCEPT ![proc[a].conn].down = Tail(@)]
  /\ proc' = [proc EXCEPT ![a].stage = "serving"]
  /\ UNCHANGED <<serverVars, exec, faults>>

\* The agent accepts, and a goroutine executes.
Accept(a) ==
  LET c == proc[a].conn IN
  /\ proc[a].stage = "serving" /\ FirstIs(a, "assign")
  /\ LET t == Head(conns[c].down).task IN
       /\ conns' = [ToServer(c, OfTask("accepted", t)) EXCEPT ![c].down = Tail(@)]
       /\ exec' = BagAdd(exec, [agent |-> a, conn |-> c, task |-> t, stage |-> "run"])
  /\ UNCHANGED <<serverVars, proc, faults>>

\* The answer goes to the connection the task came from; then the goroutine stops
\* counting.
executeTask(e, type) ==
  /\ BagIn(e, exec)
  /\ \/ /\ e.stage = "run"
        /\ conns' = ToServer(e.conn, OfTask(type, e.task))
        /\ exec' = BagAdd(BagRemove(exec, e), [e EXCEPT !.stage = "sent"])
     \/ e.stage = "sent" /\ exec' = BagRemove(exec, e) /\ UNCHANGED conns
  /\ UNCHANGED <<serverVars, proc, faults>>

ActiveTasks(a) == BagCardinality([e \in {x \in DOMAIN exec : x.agent = a} |-> exec[e]])

Heartbeat(a) ==
  LET c == proc[a].conn IN
  /\ a \in Reporting /\ proc[a].stage = "serving"
  /\ \A i \in DOMAIN conns[c].up : conns[c].up[i].type # "heartbeat"
  /\ conns' = ToServer(c, [type |-> "heartbeat", active |-> ActiveTasks(a)])
  /\ UNCHANGED <<serverVars, proc, exec, faults>>

\* Reading fails, or the first message is not the confirmation.  A process that
\* has never been connected ends.
Disconnect(a) ==
  LET c == proc[a].conn IN
  /\ c # 0
  /\ \/ conns[c].link = "cut"
     \/ conns[c].server = "closed" /\ conns[c].down = <<>>
     \/ proc[a].stage # "serving" /\ FirstIs(a, "assign")
  /\ conns' = [conns EXCEPT ![c].client = "closed", ![c].down = <<>>]
  /\ proc' = [proc EXCEPT ![a] =
       [stage |-> IF @.stage = "starting" THEN "ended" ELSE "reconnecting", conn |-> 0]]
  /\ UNCHANGED <<serverVars, exec, faults>>

Cut(c) ==
  /\ Fault /\ Connected(c)
  /\ conns' = [conns EXCEPT ![c].link = "cut", ![c].up = <<>>, ![c].down = <<>>]
  /\ UNCHANGED <<serverVars, proc, exec>>

\* The process stops and is started again.
RestartAgent(a) ==
  /\ Fault
  /\ proc' = [proc EXCEPT ![a] = [stage |-> "starting", conn |-> 0]]
  /\ exec' = [e \in {x \in DOMAIN exec : x.agent # a} |-> exec[e]]
  /\ conns' = IF proc[a].conn = 0 THEN conns
              ELSE [conns EXCEPT ![proc[a].conn].client = "closed", ![proc[a].conn].down = <<>>]
  /\ UNCHANGED serverVars

-----------------------------------------------------------------------------

Connection(c) ==
  /\ c \in DOMAIN conns
  /\ \/ Register(c) \/ CloseReplaced(c) \/ Confirm(c) \/ Read(c) \/ handleMessage(c)
     \/ ReadError(c) \/ Deregister(c)
     \/ ResolveOrphan(c) \/ RequeueOrphan(c) \/ \E t \in Tasks : FailOrphan(c, t)

Drain == RouteNext \/ SendNext \/ EndDrain \/ \E g \in 0..MaxConns : StartDrain(g)
Client(a) == Dial(a) \/ waitForRegistered(a) \/ Accept(a) \/ Disconnect(a)
TimeOutLate == \E l \in late : MarkTimedOut(l)
Evict == \E c \in evicted : CloseStale(c)

Failures ==
  \/ \E a \in Agents : RemoveStale(a) \/ RestartAgent(a)
  \/ \E found \in SUBSET DOMAIN tracker : UnacknowledgedTasks(found)
  \/ \E c \in DOMAIN conns : Cut(c)

Next ==
  \/ \E t \in Tasks : Process(t) \/ ExecuteSync(t) \/ Receive(t) \/ TimesOut(t)
  \/ \E c \in 1..MaxConns : Connection(c)
  \/ Drain \/ TimeOutLate \/ Evict
  \/ \E a \in Agents : Client(a) \/ Heartbeat(a)
  \/ \E e \in DOMAIN exec, type \in {"success", "failure"} : executeTask(e, type)
  \/ Failures

Spec == Init /\ [][Next]_vars

\* Goroutines run and agents read and report; an agent's task may take for ever.
Fairness ==
  /\ \A t \in Tasks : WF_vars(ExecuteSync(t))
  /\ \A c \in 1..MaxConns : WF_vars(Connection(c))
  /\ WF_vars(Drain) /\ WF_vars(TimeOutLate) /\ WF_vars(Evict)
  /\ \A a \in Agents : WF_vars(Client(a)) /\ WF_vars(Heartbeat(a))

FairSpec == Spec /\ Fairness

-----------------------------------------------------------------------------

\* Taken out of the registry, and not closed yet.
AboutToClose(c) == c \in evicted \/ \E d \in DOMAIN conns : conns[d].old = c

\* An agent that connects again is not removed by the goroutine of its old
\* connection: an open connection that is served is the one in the registry, but for
\* one that is about to be closed, and the registry names none whose goroutine is
\* done (Deregister).
RegistryIsCurrent ==
  /\ \A c \in DOMAIN conns :
       conns[c].stage \in {"replacing", "confirming", "reading"} /\ conns[c].server = "open" =>
         \/ AboutToClose(c)
         \/ conns[c].agent \in DOMAIN registry /\ registry[conns[c].agent].conn = c
  /\ \A a \in DOMAIN registry : conns[registry[a].conn].stage \notin {"accepting", "done"}

\* A channel waits for an answer exactly as long as its caller does, however
\* answers, disconnections, retries and timers meet: no answer blocks the
\* goroutine that sends it and no waiter is left behind.
WaitersAreAwaited ==
  waiters = {t \in Tasks : /\ call[t].answer = "none"
                           /\ call[t].stage = "waiting" \/ call[t].send.step \in {"count", "track"}}

\* Nothing is on its way to agent a or executed by it.
Idle(a) ==
  /\ a \in DOMAIN registry /\ proc[a].conn = registry[a].conn
  /\ proc[a].stage = "serving" /\ Connected(proc[a].conn)
  /\ ActiveTasks(a) = 0 /\ conns[proc[a].conn].down = <<>>
  /\ \A i \in DOMAIN conns[proc[a].conn].up : conns[proc[a].conn].up[i].type = "heartbeat"
  /\ \A t \in Tasks : call[t].stage # "sending"

\* The count of an agent's tasks may be wrong, as an answer may be handled before
\* the task is counted; an agent that is idle does not stay short of capacity,
\* because its heartbeats correct the count.
CapacityRecovered ==
  \A a \in Agents : (Idle(a) /\ Active(a) > 0) ~> ~(Idle(a) /\ Active(a) > 0)

=============================================================================
