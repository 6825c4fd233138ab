--------------------------- MODULE ToolExecution ----------------------------
(***************************************************************************)
(* ExecuteTool (internal/agent/orchestrator.go): what a tool call goes      *)
(* through, the audit trail and the costs it leaves (internal/security),    *)
(* and the cache of the results of read-only tools.  The budget itself is   *)
(* in BudgetManager, the approval in Approval: here both just say yes or    *)
(* no.                                                                      *)
(***************************************************************************)
EXTENDS Integers, SequencesExt

CONSTANTS
  Calls,       \* tool calls
  UserRoles,   \* the role of each user, NoRole without one
  Policies,    \* the policy of each user: tools allowed (none: all) and denied
  Tools,       \* the action, its risk and whether results are cached, by tool
  Autonomous,  \* autonomousMode
  Approvals,   \* is there an approval manager?
  TTL,         \* toolCacheTTL
  LastTime,    \* bound: the clock stops there
  MaxFaults    \* bound: failing log entries and crashes

VARIABLES
  now,
  call,    \* the calls: how far they are, for whom, with which result
  cache,   \* until when the cached result of each tool is good
  audit,   \* the audit log of each call
  held,    \* calls with a reservation
  costs,   \* costs recorded for each call
  gaps,    \* history: calls with a log entry that failed
  faults

vars == <<now, call, cache, audit, held, costs, gaps, faults>>

UserIds == DOMAIN UserRoles
NoRole == [permissions |-> {}, max |-> 0, always |-> {}, none |-> TRUE]
Nothing == -1

Idle == [stage |-> "idle", user |-> "none", tool |-> "none", ran |-> "no",
         resumed |-> FALSE]

Init ==
  /\ now = 0
  /\ call = [c \in Calls |-> Idle]
  /\ cache = [t \in DOMAIN Tools |-> Nothing]
  /\ audit = [c \in Calls |-> <<>>]
  /\ held = {} /\ costs = [c \in Calls |-> 0]
  /\ gaps = {} /\ faults = 0

Clock ==
  /\ now < LastTime /\ now' = now + 1
  /\ UNCHANGED <<call, cache, audit, held, costs, gaps, faults>>

Goto(c, stage) == call' = [call EXCEPT ![c].stage = stage]

\* logAuditEvent; its error is ignored by every caller.
LogAction(c, result) ==
  \/ audit' = [audit EXCEPT ![c] = Append(@, result)] /\ UNCHANGED <<gaps, faults>>
  \/ /\ faults < MaxFaults /\ faults' = faults + 1
     /\ gaps' = gaps \cup {c} /\ UNCHANGED audit

NoLog == UNCHANGED <<audit, gaps, faults>>

-----------------------------------------------------------------------------
(* The checks. *)

checkAllowDeny(value, allowed, denied) ==
  value \notin denied /\ (allowed = {} \/ value \in allowed)

CheckToolAllowed(u, t) == checkAllowDeny(t, Policies[u].allowed, Policies[u].denied)

CheckPermission(u, action) == ~UserRoles[u].none /\ action.name \in UserRoles[u].permissions

RequireApproval(u, action) ==
  \/ UserRoles[u].none \/ action.risk > UserRoles[u].max
  \/ action.name \in UserRoles[u].always

Cached(t) == Tools[t].cached /\ cache[t] >= now

\* ExecuteTool up to the security checks.  A call that is not valid ends at once,
\* a cached result is returned as it is.
ExecuteTool(c, u, t, valid) ==
  /\ call[c].stage = "idle"
  /\ LET fresh == [Idle EXCEPT !.user = u, !.tool = t]
         ended == [fresh EXCEPT !.stage = "ended"] IN
       IF ~valid THEN call' = [call EXCEPT ![c] = ended] /\ NoLog
       ELSE IF Cached(t)
       THEN call' = [call EXCEPT ![c] = [ended EXCEPT !.ran = "cached"]] /\ NoLog
       ELSE IF ~CheckToolAllowed(u, t)
       THEN call' = [call EXCEPT ![c] = ended] /\ LogAction(c, "policy_denied")
       ELSE call' = [call EXCEPT ![c] = [fresh EXCEPT !.stage = "checking"]] /\ NoLog
  /\ UNCHANGED <<now, cache, held, costs>>

\* runSecurityChecks.  Whether the history of the user is good for an
\* auto-approval, and whether a request can be created, is open.  Without an
\* approval manager a call that needs an approval is denied.
runSecurityChecks(c) ==
  /\ call[c].stage = "checking"
  /\ LET action == Tools[call[c].tool].action
         u == call[c].user IN
       IF ~CheckPermission(u, action) THEN Goto(c, "ended") /\ LogAction(c, "denied")
       ELSE IF ~RequireApproval(u, action) THEN Goto(c, "reserving") /\ NoLog
       ELSE IF Autonomous THEN Goto(c, "reserving") /\ LogAction(c, "autonomous_approved")
       ELSE \/ Goto(c, "reserving") /\ LogAction(c, "auto_approved")
            \/ Approvals /\ Goto(c, "pending") /\ LogAction(c, "approval_pending")
            \/ Approvals /\ Goto(c, "ended") /\ NoLog
            \/ ~Approvals /\ Goto(c, "ended") /\ LogAction(c, "denied")
  /\ UNCHANGED <<now, cache, held, costs>>

\* ResumeWithApproval: the approved call, or one whose tool is gone or no longer
\* takes its parameters.
ResumeWithApproval(c, valid) ==
  /\ call[c].stage = "pending"
  /\ call' = [call EXCEPT ![c] = [@ EXCEPT !.stage = IF valid THEN "reserving" ELSE "ended",
                                           !.resumed = TRUE]]
  /\ UNCHANGED <<now, cache, audit, held, costs, gaps, faults>>

-----------------------------------------------------------------------------
(* executeWithAudit. *)

ReserveBudget(c, granted) ==
  /\ call[c].stage = "reserving"
  /\ IF granted
     THEN held' = held \cup {c} /\ Goto(c, "intending") /\ NoLog
     ELSE UNCHANGED held /\ Goto(c, "ended") /\ LogAction(c, "denied")
  /\ UNCHANGED <<now, cache, costs>>

LogIntent(c) ==
  /\ call[c].stage = "intending"
  /\ Goto(c, "executing") /\ LogAction(c, "intent")
  /\ UNCHANGED <<now, cache, held, costs>>

Execute(c, ok) ==
  /\ call[c].stage = "executing"
  /\ call' = [call EXCEPT ![c] = [@ EXCEPT !.stage = "logging",
                                           !.ran = IF ok THEN "success" ELSE "failure"]]
  /\ UNCHANGED <<now, cache, audit, held, costs, gaps, faults>>

LogResult(c) ==
  /\ call[c].stage = "logging"
  /\ Goto(c, "recording") /\ LogAction(c, call[c].ran)
  /\ UNCHANGED <<now, cache, held, costs>>

\* Mutant: a tool that fails costs nothing.
RecordSuccess(c) ==
  /\ call[c].stage = "recording"
  /\ costs' = [costs EXCEPT ![c] = IF call[c].ran = "success" THEN @ + 1 ELSE @]
  /\ Goto(c, "returning")
  /\ UNCHANGED <<now, cache, audit, held, gaps, faults>>

RecordCost(c) ==
  /\ call[c].stage = "recording"
  /\ costs' = [costs EXCEPT ![c] = @ + 1]
  /\ Goto(c, "returning")
  /\ UNCHANGED <<now, cache, audit, held, gaps, faults>>

\* The deferred release, and the cache: the result of a resumed call is not put
\* there.
Return(c) ==
  /\ call[c].stage = "returning"
  /\ held' = held \ {c}
  /\ Goto(c, "ended")
  /\ LET t == call[c].tool IN
       cache' = IF Tools[t].cached /\ ~call[c].resumed /\ call[c].ran = "success"
                THEN [cache EXCEPT ![t] = now + TTL]
                ELSE cache
  /\ UNCHANGED <<now, audit, costs, gaps, faults>>

\* The process stops: the log and the costs stay, an approval may still be
\* resumed.
Crash ==
  /\ faults < MaxFaults /\ faults' = faults + 1
  /\ call' = [c \in Calls |-> IF call[c].stage \in {"idle", "pending", "ended"} THEN call[c]
                              ELSE [call[c] EXCEPT !.stage = "lost"]]
  /\ cache' = [t \in DOMAIN Tools |-> Nothing]
  /\ held' = {}
  /\ UNCHANGED <<now, audit, costs, gaps>>

Next ==
  \/ Clock \/ Crash
  \/ \E c \in Calls :
       \/ \E u \in UserIds, t \in DOMAIN Tools, valid \in BOOLEAN : ExecuteTool(c, u, t, valid)
       \/ runSecurityChecks(c)
       \/ \E yes \in BOOLEAN : ResumeWithApproval(c, yes) \/ ReserveBudget(c, yes) \/ Execute(c, yes)
       \/ LogIntent(c) \/ LogResult(c) \/ RecordCost(c) \/ Return(c)

Spec == Init /\ [][Next]_vars

-----------------------------------------------------------------------------

Ran(c) == call[c].ran \in {"success", "failure"}

\* Every execution was announced in the log before it began.  Once a call has
\* ended, the log says how the tool ended and nothing else, and it has cost once
\* if and only if the tool ran; a reservation lasts no longer than its call.  The
\* exceptions are the entries that could not be written.
EffectsAccounted ==
  \A c \in Calls :
    /\ Ran(c) => c \in gaps \/ Contains(audit[c], "intent")
    /\ call[c].stage = "ended" =>
         /\ costs[c] = IF Ran(c) THEN 1 ELSE 0
         /\ Ran(c) /\ c \notin gaps => Last(audit[c]) = call[c].ran
         /\ ~Ran(c) => {"intent", "success", "failure"} \cap ToSet(audit[c]) = {}
    /\ call[c].stage \in {"idle", "pending", "ended"} => c \notin held

=============================================================================
