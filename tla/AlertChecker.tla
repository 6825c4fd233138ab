---------------------------- MODULE AlertChecker ----------------------------
(***************************************************************************)
(* One alert rule (internal/alerting, storage/postgres/alert_repo.go) and   *)
(* the gateway instances that check it.  A poll is one transaction that     *)
(* locks the due rules; notifications and the history are outside of it.    *)
(* What the other rules of a poll do to the transaction is a fault here.    *)
(***************************************************************************)
EXTENDS Integers

CONSTANTS
  Instances,  \* gateway processes, each with a checker
  Period,     \* the schedule of the rule: the multiples of Period
  Cooldown,   \* CooldownS
  LastTime,   \* bound: the clock stops there
  MaxFaults   \* bound: crashes, transactions rolled back, stale updates, lost records

Never == -1
Found == {"ok", "alert", "error"}
Bad == {"alert", "error"}

\* Where no row is held.
NoRow == [enabled |-> "no", status |-> "ok", alerted |-> Never, next |-> 0]
NoEdit == [held |-> "no", row |-> NoRow]

VARIABLES
  now,
  row,      \* the committed row of alert_rules
  phase,    \* what each checker is at
  found,    \* what its check has found
  pending,  \* the row as its transaction has written it
  edit,     \* the row an update handler has put together and not saved
  sent,     \* notifications of each status since the rule last left it
  lastSent, \* when the last one was sent
  early,    \* how many were sent during the cooldown of the one before
  history,  \* the status of the last history record
  gaps,     \* history records that do not continue the one before
  faults    \* what has gone wrong so far

vars == <<now, row, phase, found, pending, edit, sent, lastSent, early, history, gaps, faults>>

Locked == \E i \in Instances : phase[i] \notin {"down", "idle"}

Fault == faults < MaxFaults /\ faults' = faults + 1

\* The cron library: the first time of the schedule after now.
computeNextRun == (now \div Period + 1) * Period

\* The column's default status is "ok".
Init ==
  /\ now = 0
  /\ row = [enabled |-> "yes", status |-> "ok", alerted |-> Never, next |-> Period]
  /\ phase = [i \in Instances |-> "idle"]
  /\ found = [i \in Instances |-> "ok"]
  /\ pending = [i \in Instances |-> NoRow]
  /\ edit = NoEdit
  /\ sent = [s \in Bad |-> 0] /\ lastSent = Never /\ early = 0
  /\ history = "ok" /\ gaps = 0 /\ faults = 0

Clock ==
  /\ now < LastTime /\ now' = now + 1
  /\ UNCHANGED <<row, phase, found, pending, edit, sent, lastSent, early, history, gaps, faults>>

\* GetDueAlerts: FOR UPDATE SKIP LOCKED.
tick(i) ==
  /\ phase[i] = "idle" /\ ~Locked
  /\ row.enabled = "yes" /\ row.next <= now
  /\ phase' = [phase EXCEPT ![i] = "checking"]
  /\ pending' = [pending EXCEPT ![i] = row]
  /\ UNCHANGED <<now, row, found, edit, sent, lastSent, early, history, gaps, faults>>

CoolingDown(rule) == rule.alerted # Never /\ now < rule.alerted + Cooldown

\* Mutant: a rule that stays bad is reported by every check.
ShouldNotifyAlways(rule, status) == status \in Bad /\ ~CoolingDown(rule)

\* Mutant: a change of status is reported at once.
ShouldNotifyAtOnce(rule, status) == status \in Bad /\ rule.status # status

ShouldNotify(rule, status) ==
  status \in Bad /\ rule.status # status /\ ~CoolingDown(rule)

\* The history record; its previous status is that of the row as read.  When it
\* cannot be written, this is logged and the check goes on.
Append(i, status) ==
  \/ /\ history' = status
     /\ gaps' = IF pending[i].status = history THEN gaps ELSE gaps + 1
     /\ UNCHANGED faults
  \/ Fault /\ UNCHANGED <<history, gaps>>

\* evaluateRule up to the history record: run the check, send the
\* notifications, RecordAlerted.
evaluateRule(i, status) ==
  /\ phase[i] = "checking"
  /\ phase' = [phase EXCEPT ![i] = "evaluated"]
  /\ found' = [found EXCEPT ![i] = status]
  /\ IF ShouldNotify(pending[i], status)
     THEN /\ sent' = [sent EXCEPT ![status] = @ + 1]
          /\ early' = IF lastSent # Never /\ now < lastSent + Cooldown THEN early + 1 ELSE early
          /\ lastSent' = now
          /\ pending' = [pending EXCEPT ![i].alerted = now]
     ELSE UNCHANGED <<sent, early, lastSent, pending>>
  /\ Append(i, status)
  /\ UNCHANGED <<now, row, edit>>

\* RecordCheck and the commit.
RecordCheck(i) ==
  /\ phase[i] = "evaluated"
  /\ row' = [pending[i] EXCEPT !.status = found[i], !.next = computeNextRun]
  /\ sent' = [s \in Bad |-> IF s = found[i] THEN sent[s] ELSE 0]
  /\ phase' = [phase EXCEPT ![i] = "idle"]
  /\ found' = [found EXCEPT ![i] = "ok"] /\ pending' = [pending EXCEPT ![i] = NoRow]
  /\ UNCHANGED <<now, edit, lastSent, early, history, gaps, faults>>

\* A statement of the transaction fails, or the process stops: RecordAlerted and
\* RecordCheck are undone; what was sent and the history stay.
RollBack(i, then) ==
  /\ phase[i] \in {"checking", "evaluated"} /\ Fault
  /\ phase' = [phase EXCEPT ![i] = then]
  /\ found' = [found EXCEPT ![i] = "ok"] /\ pending' = [pending EXCEPT ![i] = NoRow]
  /\ UNCHANGED <<now, row, edit, sent, lastSent, early, history, gaps>>

Start(i) ==
  /\ phase[i] = "down"
  /\ phase' = [phase EXCEPT ![i] = "idle"]
  /\ UNCHANGED <<now, row, found, pending, edit, sent, lastSent, early, history, gaps, faults>>

\* handleAlertUpdate up to the save.
UpdateGet(enabled, newExpression) ==
  /\ edit = NoEdit /\ row.enabled # "deleted"
  /\ edit' = [held |-> "yes", row |-> [row EXCEPT
       !.enabled = enabled, !.next = IF newExpression THEN computeNextRun ELSE @]]
  /\ UNCHANGED <<now, row, phase, found, pending, sent, lastSent, early, history, gaps, faults>>

\* Save writes every column, those of the last check included, and waits for
\* whoever has locked the row.
UpdateSave ==
  /\ edit.held = "yes" /\ ~Locked
  /\ IF edit.row.status # row.status \/ edit.row.alerted # row.alerted
     THEN Fault ELSE UNCHANGED faults
  /\ row' = edit.row
  /\ edit' = NoEdit
  /\ UNCHANGED <<now, phase, found, pending, sent, lastSent, early, history, gaps>>

\* A request that is not valid is answered before the save.
UpdateRejected ==
  /\ edit.held = "yes"
  /\ edit' = NoEdit
  /\ UNCHANGED <<now, row, phase, found, pending, sent, lastSent, early, history, gaps, faults>>

Delete ==
  /\ row.enabled # "deleted" /\ ~Locked
  /\ row' = [row EXCEPT !.enabled = "deleted"]
  /\ UNCHANGED <<now, phase, found, pending, edit, sent, lastSent, early, history, gaps, faults>>

Checker(i) ==
  \/ tick(i) \/ RecordCheck(i) \/ Start(i)
  \/ \E status \in Found : evaluateRule(i, status)

Next ==
  \/ Clock
  \/ \E i \in Instances :
       Checker(i) \/ \E then \in {"idle", "down"} : RollBack(i, then)
  \/ \E enabled \in {"yes", "no"}, newExpression \in BOOLEAN : UpdateGet(enabled, newExpression)
  \/ UpdateSave \/ UpdateRejected \/ Delete

Spec == Init /\ [][Next]_vars

-----------------------------------------------------------------------------

Rows ==
  [enabled : {"yes", "no", "deleted"}, status : Found, alerted : 0..LastTime \cup {Never},
   next : 0..(LastTime + Period)]

TypeOK ==
  /\ now \in 0..LastTime /\ row \in Rows
  /\ phase \in [Instances -> {"down", "idle", "checking", "evaluated"}]
  /\ found \in [Instances -> Found] /\ pending \in [Instances -> Rows]
  /\ edit \in [held : {"yes", "no"}, row : Rows]
  /\ sent \in [Bad -> Nat] /\ lastSent \in 0..LastTime \cup {Never}
  /\ early \in Nat /\ history \in Found /\ gaps \in Nat
  /\ faults \in 0..MaxFaults

\* "Notifications are dispatched when status changes": while a rule keeps failing
\* in the same way it is reported once, and once more for each crash, rollback or
\* stale update, whichever instances do the checks.
ReportedOnce == \A s \in Bad : sent[s] <= 1 + faults

\* The cooldown holds between the notifications of different instances, except
\* where the time of the last one was lost.
CooldownHolds == early <= faults

\* The history is a chain: a record's previous status is the status of the record
\* before it, except where a check was rolled back or overwritten or a record lost.
HistoryIsAChain == gaps <= faults

=============================================================================
