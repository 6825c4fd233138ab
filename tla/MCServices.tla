----------------------------- MODULE MCServices -----------------------------
(***************************************************************************)
(* The background services of a process: alert rules, cron jobs and         *)
(* heartbeat tasks, the copy of the roles, the soul, the skill files, the   *)
(* record of skills and the presence of agents; a command in a sandbox; and *)
(* the start and the end of the process itself.  What is said of one does   *)
(* not depend on the state of another, so a behaviour is one of them.  What *)
(* only alerts have keeps its initial value in the others, the rest have no *)
(* meaning outside of their own.  Heartbeat tasks are looked at twice:      *)
(* their files, and their executions.                                       *)
(***************************************************************************)
EXTENDS AlertChecker, FiniteSets

CONSTANT Jobs

VARIABLES part, work, broken, fired,
          disk, changes, scan, known, running, ran,
          saved, cached, fresh, loading,
          log, pc, version, soul, added, raced,
          hashed, active, handed, prompt, routed, torn,
          tracker, seeder, done, disturbed,
          up, starts, stamp,
          stage, ctx,
          kind, leader, code, spawned, asked, written, piped, captured, copier, cancelled,
          runErr, tmpDir, result,
          mode, on, kinds, step, cleanups, deferred, loops, told, gateway, halted, busy, link,
          next, waiting, expired

alertOnly == <<found, sent, lastSent, early, history, gaps>>
claims == <<phase, pending, edit>>
cronOnly == <<work, broken, fired>>
schedules == <<alertOnly, claims, cronOnly>>
taskOnly == <<known, running, ran>>
roleOnly == <<saved, cached, fresh, loading>>
soulOnly == <<log, pc, version, soul, added, raced>>
skillOnly == <<hashed, active, handed, prompt, routed, torn>>
recordOnly == <<tracker, seeder, done, disturbed>>
presenceOnly == <<up, starts, stamp>>
files == <<disk, changes, scan>>
copies == <<roleOnly, soulOnly, skillOnly, recordOnly, presenceOnly>>
services == <<faults, now, row, schedules, files, taskOnly, copies>>
sandboxOnly == <<kind, leader, code, spawned, asked, written, piped, captured, copier, cancelled,
                 runErr, tmpDir, result>>
processOnly == <<mode, on, kinds, step, cleanups, deferred, loops, told, gateway, halted, busy,
                 link, next, waiting, expired>>
run == <<stage, ctx, sandboxOnly, processOnly>>

sumVars == <<part, services, run>>

NoAlert ==
  /\ found = [i \in Instances |-> "ok"] /\ sent = [s \in Bad |-> 0]
  /\ lastSent = Never /\ early = 0 /\ history = "ok" /\ gaps = 0
NoClaims == phase = "unused" /\ pending = "unused" /\ edit = "unused"
NoCron == work = "unused" /\ broken = "unused" /\ fired = "unused"
NoSchedules == NoAlert /\ NoClaims /\ NoCron
NoTasks == known = "unused" /\ running = "unused" /\ ran = "unused"
NoRoles == saved = "unused" /\ cached = "unused" /\ fresh = "unused" /\ loading = "unused"
NoSoul ==
  /\ log = "unused" /\ pc = "unused" /\ version = "unused" /\ soul = "unused"
  /\ added = "unused" /\ raced = "unused"
NoSkills ==
  /\ hashed = "unused" /\ active = "unused" /\ handed = "unused" /\ prompt = "unused"
  /\ routed = "unused" /\ torn = "unused"
NoRecord == tracker = "unused" /\ seeder = "unused" /\ done = "unused" /\ disturbed = "unused"
NoPresence == up = "unused" /\ starts = "unused" /\ stamp = "unused"
NoFiles == disk = "unused" /\ changes = "unused" /\ scan = "unused"
NoCopies == NoRoles /\ NoSoul /\ NoSkills /\ NoRecord /\ NoPresence
NoTime == now = "unused"
NoTable == row = "unused"
NoServices ==
  /\ faults = 0
  /\ NoTime /\ NoTable /\ NoSchedules /\ NoFiles /\ NoTasks /\ NoCopies
NoSandbox ==
  /\ kind = "unused" /\ leader = "unused" /\ code = "unused" /\ spawned = "unused"
  /\ asked = "unused" /\ written = "unused" /\ piped = "unused" /\ captured = "unused"
  /\ copier = "unused" /\ cancelled = "unused" /\ runErr = "unused" /\ tmpDir = "unused"
  /\ result = "unused"
NoProcess ==
  /\ mode = "unused" /\ on = "unused" /\ kinds = "unused" /\ step = "unused"
  /\ cleanups = "unused" /\ deferred = "unused" /\ loops = "unused" /\ told = "unused"
  /\ gateway = "unused" /\ halted = "unused" /\ busy = "unused" /\ link = "unused"
  /\ next = "unused" /\ waiting = "unused" /\ expired = "unused"
NoRun == stage = "unused" /\ ctx = "unused" /\ NoSandbox /\ NoProcess

File(group, enabled, names) == [group |-> group, enabled |-> enabled, names |-> names]
TaskFiles ==
  [f1 |-> {File("g", "yes", {"a"}), File("g", "no", {"a"})}, f2 |-> {File("g", "yes", {"b"})}]
OneFile == [f1 |-> {File("g", "yes", {"a"})}]
SkillDirs == <<<<"f1", "f3">>, <<"f2">>>>
SkillKeys == [f1 |-> "a", f2 |-> "a", f3 |-> "b"]
Levels ==
  <<[completions |-> 1, percent |-> 70], [completions |-> 2, percent |-> 85],
    [completions |-> 3, percent |-> 95]>>
Roles == [u1 |-> "admin", u2 |-> "viewer"]
Everything ==
  {"mcp", "soul", "websocket", "orchestrator", "skills", "scheduler", "notification", "alerting",
   "tasks", "sections"}
Configurations ==
  {{}, {"sections"}, Everything \union {"cli", "http"},
   (Everything \ {"orchestrator"}) \union {"http", "telegram", "webhook", "signal"},
   (Everything \ {"notification", "soul"}) \union {"slack", "telegram"}}

C == INSTANCE CronScheduler WITH
       Period <- 2, Window <- 0, MaxConcurrent <- 2, Faults <- {"crash", "statement", "edit"}
F == INSTANCE HeartbeatTasks WITH
       Contents <- TaskFiles, Period <- 1, LastTime <- 0, MaxChanges <- 3, MaxFaults <- 0
T == INSTANCE HeartbeatTasks WITH
       Contents <- OneFile, Period <- 1, LastTime <- 2, MaxChanges <- 2, MaxFaults <- 1
R == INSTANCE RoleCache WITH
       ConfigRoles <- {"admin", "viewer"}, UserRoles <- Roles, MaxFaults <- 1
S == INSTANCE Soul WITH Principles <- 2, MaxEvents <- 5, MaxFaults <- 1
P == INSTANCE SkillPoller WITH
       Dirs <- SkillDirs, Key <- SkillKeys, Contents <- {"v1", "v2"}, MaxChanges <- 3, MaxFaults <- 1
K == INSTANCE SkillTracker WITH
       Processes <- Instances, Levels <- Levels, MaxTasks <- 4, MaxFaults <- 1
A == INSTANCE AgentPresence WITH StaleThreshold <- 2, MaxStarts <- 3, MaxFaults <- 2
X == INSTANCE Sandbox WITH
       Kinds <- {"process", "docker"}, Cap <- 2, MaxOutput <- 4, done <- ctx
L == INSTANCE Lifecycle WITH
       Modes <- {"gateway", "dbAgent", "wsAgent"}, Options <- Configurations

ServiceInit ==
  \/ part = "alert" /\ Init /\ NoCron /\ NoFiles /\ NoTasks /\ NoCopies
  \/ part = "cron" /\ C!Init /\ NoAlert /\ NoFiles /\ NoTasks /\ NoCopies
  \/ part = "files" /\ F!Init /\ NoSchedules /\ NoCopies
  \/ part = "tasks" /\ T!Init /\ NoSchedules /\ NoCopies
  \/ /\ NoTime /\ NoSchedules /\ NoTasks
     /\ \/ /\ part = "roles" /\ R!Init
           /\ NoTable /\ NoFiles /\ NoSoul /\ NoSkills /\ NoRecord /\ NoPresence
        \/ /\ part = "soul" /\ S!Init
           /\ NoTable /\ NoFiles /\ NoRoles /\ NoSkills /\ NoRecord /\ NoPresence
        \/ part = "skills" /\ P!Init /\ NoTable /\ NoRoles /\ NoSoul /\ NoRecord /\ NoPresence
        \/ part = "record" /\ K!Init /\ NoFiles /\ NoRoles /\ NoSoul /\ NoSkills /\ NoPresence
        \/ part = "presence" /\ A!Init /\ NoFiles /\ NoRoles /\ NoSoul /\ NoSkills /\ NoRecord

SumInit ==
  \/ ServiceInit /\ NoRun
  \/ part = "sandbox" /\ X!Init /\ NoServices /\ NoProcess
  \/ part = "process" /\ L!Init /\ NoServices /\ NoSandbox

In(p) == part = p /\ UNCHANGED part
Service(p) == In(p) /\ UNCHANGED run
Alert == Service("alert") /\ UNCHANGED <<cronOnly, files, taskOnly, copies>>
Cron == Service("cron") /\ UNCHANGED <<alertOnly, files, taskOnly, copies>>
Heartbeat(p) == Service(p) /\ UNCHANGED <<schedules, copies>>
Copy(p) == Service(p) /\ UNCHANGED <<now, schedules, taskOnly>>
RolesPart == Copy("roles") /\ UNCHANGED <<row, files, soulOnly, skillOnly, recordOnly, presenceOnly>>
SoulPart == Copy("soul") /\ UNCHANGED <<row, files, roleOnly, skillOnly, recordOnly, presenceOnly>>
SkillPart == Copy("skills") /\ UNCHANGED <<row, roleOnly, soulOnly, recordOnly, presenceOnly>>
RecordPart == Copy("record") /\ UNCHANGED <<files, roleOnly, soulOnly, skillOnly, presenceOnly>>
PresencePart == Copy("presence") /\ UNCHANGED <<files, roleOnly, soulOnly, skillOnly, recordOnly>>
SandboxPart == In("sandbox") /\ UNCHANGED <<services, processOnly>>
ProcessPart == In("process") /\ UNCHANGED <<services, sandboxOnly>>

SumNext ==
  \/ Alert /\ Next
  \/ Cron /\ C!Next
  \/ Heartbeat("files") /\ F!Next
  \/ Heartbeat("tasks") /\ T!Next
  \/ RolesPart /\ R!Next
  \/ SoulPart /\ S!Next
  \/ SkillPart /\ P!Next
  \/ RecordPart /\ K!Next
  \/ PresencePart /\ A!Next
  \/ SandboxPart /\ X!Next
  \/ ProcessPart /\ L!Next

\* The tickers of the services keep firing, permissions are asked for, and the goroutines
\* of a command and of the process go on.
SumFairness ==
  /\ \A i \in Instances :
       /\ WF_sumVars(Cron /\ C!Scheduler(i))
       /\ WF_sumVars(Heartbeat("files") /\ F!Poller(i))
       /\ WF_sumVars(RolesPart /\ R!Expire(i))
       /\ WF_sumVars(RolesPart /\ R!Loading(i))
  /\ WF_sumVars(SkillPart /\ P!syncAll)
  /\ WF_sumVars(PresencePart /\ A!Clock)
  /\ WF_sumVars(PresencePart /\ A!Sender)
  /\ WF_sumVars(PresencePart /\ A!MarkStale)
  /\ WF_sumVars(SandboxPart /\ X!Caller)
  /\ WF_sumVars(SandboxPart /\ X!Watcher)
  /\ WF_sumVars(SandboxPart /\ X!Copier)
  /\ WF_sumVars(SandboxPart /\ X!Reap)
  /\ WF_sumVars(ProcessPart /\ L!Command)
  /\ WF_sumVars(ProcessPart /\ L!RunAgent)
  /\ WF_sumVars(ProcessPart /\ L!Expire)

SumSpec == SumInit /\ [][SumNext]_sumVars /\ SumFairness

-----------------------------------------------------------------------------


\* Heartbeat tasks: "SELECT FOR UPDATE SKIP LOCKED prevents double-execution across
\* gateway instances" (README.md), but for executions that were not recorded.
DueOnce == part = "tasks" => T!DueOnce

\* Cron: no job stays due.
EventuallyServed == \A j \in Jobs : []<>(part = "cron" => ~C!Due(j))

\* Heartbeat tasks: the tasks of a file that was removed and put back can run.
TasksFollowFiles == <>[](part = "files" => F!Runnable)

\* Soul: the copy a process keeps is one that could have been built from the log, and
\* has all of the core principles.
SoulReplaysLog == part = "soul" => S!TypeOK /\ S!SoulReplaysLog /\ S!PrinciplesComplete


\* Skill record: the row counts every task and keeps the best level they earned.
RecordIsExact == part = "record" => K!TypeOK /\ K!RecordIsExact

\* Presence: an agent that has stopped is not listed as online for ever, and one
\* that runs is shown as online again and again.
PresenceFollows ==
  /\ <>[](up = "down") =>
       <>[](part = "presence" => (row.beat # A!Never => row.status = "stale"))
  /\ <>[](up # "down") => []<>(part = "presence" => row.status \in {"online", "none"})

\* Commands in a sandbox: what is reported of one is true, and one that is killed as it
\* runs, outside of a container, takes along what it has started.
CommandIsReported == part = "sandbox" => X!TypeOK /\ X!ResultIsTrue /\ X!GroupIsKilled

\* The process: everything that was taken is given back, in reverse, and the store is
\* closed when whatever uses it has been stopped or told to; the requests and the agents
\* that are left then are those that nothing waits for.
StoreClosedLast == part = "process" => L!TypeOK /\ L!ClosedLast /\ L!GivenBack

\* A command ends, unless a process that it left behind has its output open for ever; a
\* signal, or a gateway that returns, ends the process, unless a request of the HTTP API
\* or a task of a polling agent never comes to its end.
EverythingEnds ==
  []<>~((part = "sandbox" /\ X!Held) \/ (part = "process" /\ L!Hung)) =>
    <>[](part = "sandbox" \/ (part = "process" /\ L!Ending) => stage = "ended")

=============================================================================
