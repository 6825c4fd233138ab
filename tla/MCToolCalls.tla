---------------------------- MODULE MCToolCalls -----------------------------
(***************************************************************************)
(* What happens around a tool call: its approval, in memory or in a row of  *)
(* the database; the checks, the audit trail and the cache; the             *)
(* conversation it is part of, in memory or in the database; the counters   *)
(* that limit what a user may do, auto-approvals by the hour, money by the  *)
(* day, requests by the minute; and the gateways that take messages, answer *)
(* them and send notifications.  A behaviour is one of these; the approval  *)
(* in memory keeps its initial state in the others, the rest have no        *)
(* meaning outside of their own.                                            *)
(***************************************************************************)
EXTENDS Approval, AutoApprovalConfig

CONSTANTS Calls, Workers, Users

VARIABLES part, faults,
          rowStatus, rowBy, rowNow, rowPc, rowDecision, rowExecuted, rowCleaner,
          clock, call, cache, audit, held, costs, gaps,
          created, store, req, resume, mixed, torn,
          hour, history, counter, hourSlot, asking, key, checkedAt, granted, manual,
          spent, reserved, phase, cost, day, rows, active, row, charged, time, bucket, allowed,
          transport, up, sent, confirmed, answered, tries, offset, batch, running, prompt,
          approvals, shown, called, ended, ran,
          fences, maxLen, text, remaining, chunks, inCode, lang,
          stored, edited, changes, caller, list, todo, posted, errs, arrived, complete, notes,
          report

approvalRow == <<rowStatus, rowBy, rowNow, rowPc, rowDecision, rowExecuted, rowCleaner>>
toolVars == <<clock, call, cache, audit, held, costs, gaps>>
talkVars == <<created, store, req, resume, mixed, torn>>
toolCalls == <<vars, approvalRow, toolVars, talkVars>>
auto == <<hour, history, counter, hourSlot, asking, key, checkedAt, granted, manual>>
memory == <<spent, reserved>>
table == <<day, rows, active, row, charged>>
calls == <<phase, cost>>
rate == <<time, bucket, allowed>>
counters == <<auto, memory, table, calls, rate>>
chat == <<transport, up, sent, confirmed, answered, tries, offset, batch, running, prompt,
          approvals, shown, called, ended, ran>>
split == <<fences, maxLen, text, remaining, chunks, inCode, lang>>
notices == <<stored, edited, changes, caller, list, todo, posted, errs, arrived, complete, notes,
             report>>
messages == <<chat, split, notices>>
sumVars == <<part, faults, toolCalls, counters, messages>>

Role(permissions, max, always) ==
  [permissions |-> permissions, max |-> max, always |-> always, none |-> FALSE]

Roles == [operator |-> Role({"read", "run"}, 1, {}), viewer |-> Role({"read"}, 0, {"read"})]
Anything == [allowed |-> {}, denied |-> {}]
ToolPolicies == [operator |-> Anything, viewer |-> [allowed |-> {"file_read"}, denied |-> {}]]
ToolSet == [file_read |-> [action |-> [name |-> "read", risk |-> 0], cached |-> TRUE],
            shell |-> [action |-> [name |-> "run", risk |-> 2], cached |-> FALSE]]

P == INSTANCE Approval WITH
       Postgres <- TRUE, status <- rowStatus, approvedBy <- rowBy, now <- rowNow, pc <- rowPc,
       decision <- rowDecision, executed <- rowExecuted, cleaner <- rowCleaner
T == INSTANCE ToolExecution WITH
       now <- clock, UserRoles <- Roles, Policies <- ToolPolicies, Tools <- ToolSet,
       Autonomous <- FALSE, Approvals <- TRUE, TTL <- 1, LastTime <- 2, MaxFaults <- 1

\* One user has not been given a role.
WithoutRole == [Roles EXCEPT !.viewer = T!NoRole]
TA == INSTANCE ToolExecution WITH
       now <- clock, UserRoles <- WithoutRole, Policies <- ToolPolicies, Tools <- ToolSet,
       Calls <- {"c"}, Autonomous <- TRUE, Approvals <- TRUE, TTL <- 1, LastTime <- 0, MaxFaults <- 1
TN == INSTANCE ToolExecution WITH
       now <- clock, UserRoles <- Roles, Policies <- ToolPolicies, Tools <- ToolSet,
       Calls <- {"c"}, Autonomous <- FALSE, Approvals <- FALSE, TTL <- 1, LastTime <- 0, MaxFaults <- 1
CM == INSTANCE Conversation WITH
       Postgres <- FALSE, Requests <- 1..3, MaxHistory <- 5, MaxIterations <- 2, Window <- 2,
       Outcomes <- {<<>>, <<"done">>, <<"pending">>}, Summarizing <- TRUE, MaxFaults <- 0
CD == INSTANCE Conversation WITH
       Postgres <- TRUE, Requests <- 1..2, MaxHistory <- 5, MaxIterations <- 2, Window <- 2,
       Outcomes <- {<<>>, <<"done">>, <<"pending", "pending">>}, Summarizing <- TRUE, MaxFaults <- 1

A == INSTANCE AutoApprover WITH pc <- asking
B == INSTANCE BudgetManager WITH Costs <- {1, 2}, Limit <- 4
R == INSTANCE BudgetRepository WITH Workers <- {"w1", "w2"}, Costs <- {1, 2}, Limit <- 3, LastDay <- 2
L == INSTANCE RateLimiter WITH RequestsPerMinute <- 2, BurstSize <- 3, Minute <- 3, LastTime <- 5
C == INSTANCE ChatGateway WITH
       Transports <- {"poll", "hook", "signal", "slack", "http", "terminal"},
       MaxUpdates <- 3, MaxApprovals <- 1, MaxTries <- 2, MaxFaults <- 1, executed <- ran
M == INSTANCE MessageSplit WITH MaxPieces <- 5, MaxLens <- {5, 7}
N == INSTANCE Notifier WITH
       Channels <- {"mail", "hook", "odd"}, Unsent <- {"odd"},
       Lists <- {<<"mail">>, <<"mail", "mail">>, <<"hook", "odd", "mail">>},
       Parts <- 2, MaxChanges <- 2, MaxFaults <- 1, call <- caller, audit <- notes

NoRow ==
  /\ rowStatus = "unused" /\ rowBy = "unused" /\ rowNow = "unused" /\ rowPc = "unused"
  /\ rowDecision = "unused" /\ rowExecuted = "unused" /\ rowCleaner = "unused"
NoTool ==
  /\ clock = "unused" /\ call = "unused" /\ cache = "unused" /\ audit = "unused"
  /\ held = "unused" /\ costs = "unused" /\ gaps = "unused"
NoTalk ==
  /\ created = "unused" /\ store = "unused" /\ req = "unused"
  /\ resume = "unused" /\ mixed = "unused" /\ torn = "unused"
NoToolCalls == NoRow /\ NoTool /\ NoTalk
NoAuto ==
  /\ hour = "unused" /\ history = "unused" /\ counter = "unused" /\ hourSlot = "unused"
  /\ asking = "unused" /\ key = "unused" /\ checkedAt = "unused" /\ granted = "unused"
  /\ manual = "unused"
NoMemory == spent = "unused" /\ reserved = "unused"
NoTable == day = "unused" /\ rows = "unused" /\ active = "unused" /\ row = "unused" /\ charged = "unused"
NoCost == phase = "unused" /\ cost = "unused"
NoRate == time = "unused" /\ bucket = "unused" /\ allowed = "unused"
NoCounters == NoAuto /\ NoMemory /\ NoTable /\ NoCost /\ NoRate
NoChat ==
  /\ transport = "unused" /\ up = "unused" /\ sent = "unused" /\ confirmed = "unused"
  /\ answered = "unused" /\ tries = "unused" /\ offset = "unused" /\ batch = "unused"
  /\ running = "unused" /\ prompt = "unused" /\ approvals = "unused" /\ shown = "unused"
  /\ called = "unused" /\ ended = "unused" /\ ran = "unused"
NoSplit ==
  /\ fences = "unused" /\ maxLen = "unused" /\ text = "unused" /\ remaining = "unused"
  /\ chunks = "unused" /\ inCode = "unused" /\ lang = "unused"
NoNotices ==
  /\ stored = "unused" /\ edited = "unused" /\ changes = "unused" /\ caller = "unused"
  /\ list = "unused" /\ todo = "unused" /\ posted = "unused" /\ errs = "unused"
  /\ arrived = "unused" /\ complete = "unused" /\ notes = "unused" /\ report = "unused"
NoMessages == NoChat /\ NoSplit /\ NoNotices

ToolCallInit ==
  \/ part = "approval" /\ faults = 0 /\ NoRow /\ NoTool /\ NoTalk
  \/ part = "approval row" /\ faults = 0 /\ P!Init /\ NoTool /\ NoTalk
  \/ part = "tools" /\ T!Init /\ NoRow /\ NoTalk
  \/ part = "autonomous" /\ TA!Init /\ NoRow /\ NoTalk
  \/ part = "no approvals" /\ TN!Init /\ NoRow /\ NoTalk
  \/ part = "talk" /\ CM!Init /\ NoRow /\ NoTool
  \/ part = "talk rows" /\ CD!Init /\ NoRow /\ NoTool

CounterInit ==
  /\ faults = 0
  /\ \/ part = "auto" /\ A!Init /\ NoMemory /\ NoTable /\ NoCost /\ NoRate
     \/ part = "memory" /\ B!Init /\ NoAuto /\ NoTable /\ NoRate
     \/ part = "table" /\ R!Init /\ NoAuto /\ NoMemory /\ NoRate
     \/ part = "rate" /\ L!Init /\ NoAuto /\ NoMemory /\ NoTable /\ NoCost

MessageInit ==
  \/ part = "chat" /\ C!Init /\ NoSplit /\ NoNotices
  \/ part = "split" /\ faults = 0 /\ M!Init /\ NoChat /\ NoNotices
  \/ part = "notices" /\ N!Init /\ NoChat /\ NoSplit

SumInit ==
  /\ Init
  /\ \/ ToolCallInit /\ NoCounters /\ NoMessages
     \/ CounterInit /\ NoToolCalls /\ NoMessages
     \/ MessageInit /\ NoToolCalls /\ NoCounters

In(p) == part = p /\ UNCHANGED part
ToolCall(p) == In(p) /\ UNCHANGED <<counters, messages>>
ApprovalPart == ToolCall("approval") /\ UNCHANGED <<faults, approvalRow, toolVars, talkVars>>
ApprovalRow == ToolCall("approval row") /\ UNCHANGED <<vars, faults, toolVars, talkVars>>
Tool(p) == ToolCall(p) /\ UNCHANGED <<vars, approvalRow, talkVars>>
Talk(p) == ToolCall(p) /\ UNCHANGED <<vars, approvalRow, toolVars>>
Counter(p) == In(p) /\ UNCHANGED <<faults, toolCalls, messages>>
Message(p) == In(p) /\ UNCHANGED <<toolCalls, counters>>

SumNext ==
  \/ ApprovalPart /\ Next
  \/ ApprovalRow /\ P!Next
  \/ Tool("tools") /\ T!Next
  \/ Tool("autonomous") /\ TA!Next
  \/ Tool("no approvals") /\ TN!Next
  \/ Talk("talk") /\ CM!Next
  \/ Talk("talk rows") /\ CD!Next
  \/ Counter("auto") /\ A!Next /\ UNCHANGED <<memory, table, calls, rate>>
  \/ Counter("memory") /\ B!Next /\ UNCHANGED <<auto, table, rate>>
  \/ Counter("table") /\ R!Next /\ UNCHANGED <<auto, memory, rate>>
  \/ Counter("rate") /\ L!Next /\ UNCHANGED <<auto, memory, table, calls>>
  \/ Message("chat") /\ C!Next /\ UNCHANGED <<split, notices>>
  \/ Message("split") /\ M!Next /\ UNCHANGED <<faults, chat, notices>>
  \/ Message("notices") /\ N!Next /\ UNCHANGED <<chat, split>>

\* Time passes, the ticker of StartCleanup fires, and the database answers the
\* clean-up again and again.
SumFairness ==
  /\ WF_sumVars(ApprovalPart /\ Tick) /\ WF_sumVars(ApprovalPart /\ Cleaner)
  /\ WF_sumVars(ApprovalRow /\ P!Tick) /\ WF_sumVars(ApprovalRow /\ P!Cleaner)
  /\ SF_sumVars(ApprovalRow /\ P!ExpireOld(TRUE)) /\ SF_sumVars(ApprovalRow /\ P!DeleteResolved(TRUE))

SumSpec == SumInit /\ [][SumNext]_sumVars /\ SumFairness

-----------------------------------------------------------------------------

\* Approvals: no request stays for ever, in memory or in the database, answered or not.
RequestsRemoved ==
  <>(/\ part = "approval" => status = "deleted"
     /\ part = "approval row" => rowStatus = "deleted")

\* Tool calls: audit trail, costs and reservations agree with what was executed.
EffectsAccounted ==
  /\ part = "tools" => T!EffectsAccounted
  /\ part = "autonomous" => TA!EffectsAccounted
  /\ part = "no approvals" => TN!EffectsAccounted

\* Conversations: what was said in a request is stored once, whole and in order.
StoredOnce ==
  /\ part = "talk" => CM!StoredOnce
  /\ part = "talk rows" => CD!StoredOnce

\* Conversations: the model is sent tool calls with their results and results with
\* their calls, and the result of an approved call replaces its placeholder.
ResultsAreSeen ==
  /\ part = "talk" => CM!CallsMeetResults /\ CM!ApprovedIsShown
  /\ part = "talk rows" => CD!CallsMeetResults /\ CD!ApprovedIsShown

\* Auto-approvals: the hourly cap is overshot by the calls that run at the same time and
\* by no more; and each rests on enough manual approvals of the operation.
OvershootBounded == part = "auto" => A!OvershootBounded
RestsOnManualApprovals ==
  [][part = "auto" => \A c \in Callers : asking[c] = "checked" /\ asking'[c] # "checked" =>
       (asking'[c] = "enough") = (A!Recent(manual[key[c]]) >= RequiredApprovals)]_sumVars

\* The budget in memory is overspent by a bounded amount and leaves no reservation
\* behind; in the table a call under way keeps its reservation, and the calls that
\* share a row stay within the limit.
ReservationsHold ==
  /\ part = "memory" => B!TypeOK /\ B!OverspendBounded /\ B!NoReservationLeaks
  /\ part = "table" => R!TypeOK /\ R!ReservationsAreKept /\ R!RowWithinLimit

\* Requests: let through exactly when burst and rate permit it.
LimitIsExact ==
  [][part = "rate" => \A u \in Users : bucket'[u] # bucket[u] =>
       (allowed'[u] # allowed[u]) = L!Fits(u)]_sumVars

\* Gateways: what Telegram has let go of was handled, over crashes and lost answers,
\* nothing is begun twice but after a crash or a retry of the platform, and an approval
\* is executed once at the most, never after a denial.
UpdatesHandled == part = "chat" => C!NothingSkipped /\ C!RepeatsBounded /\ C!ButtonsActOnce

\* Gateways: a message that is too long is cut without loss, and the cutting ends.
SplitKeepsText == part = "split" => M!SplitKeepsText

\* Notifications: a channel said to have the message has all of it.
ReportIsTrue == part = "notices" => N!TypeOK /\ N!ReportIsTrue

\* Notifications: nil is success, to whoever reads the errors.
NilIsSuccess == part = "notices" => N!NilIsSuccess

=============================================================================
