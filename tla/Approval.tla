------------------------------ MODULE Approval ------------------------------
(***************************************************************************)
(* One approval request from its creation to its removal: the approvers    *)
(* who answer it through the gateways, the clock, the clean-up goroutine   *)
(* and the execution of the tool the request was made for.                 *)
(*                                                                         *)
(* The request is kept in memory (approval/approval.go, every method under *)
(* one mutex) or in Postgres (storage/postgres/approval_repo.go, every     *)
(* statement a step of its own: the row is read without a lock and written *)
(* without a condition on its status).                                     *)
(***************************************************************************)
EXTENDS Integers, FiniteSets

CONSTANTS
  Approvers,  \* calls of a gateway's approval handler
  NoOne,      \* the value of approvedBy before the request is resolved
  Postgres    \* the store: DBManager or, when FALSE, Manager

ASSUME ApprovalAssumption == NoOne \notin Approvers /\ Postgres \in BOOLEAN

VARIABLES
  status,      \* Status of the request; "deleted" when its entry is gone
  approvedBy,  \* ApprovedBy, written with the status
  now,         \* 0 up to ExpiresAt, 1 after it, 2 once another ttl has passed
  pc,          \* how far each handler is
  decision,    \* what its approver decided
  executed,    \* the handlers that executed the tool
  cleaner      \* the clean-up waits for its ticker or is about to delete (Postgres)

vars == <<status, approvedBy, now, pc, decision, executed, cleaner>>

Status == {"pending", "approved", "denied", "expired"}
Decisions == {"approved", "denied"}

IsExpired == now >= 1

Init ==
  /\ status = "pending" /\ approvedBy = NoOne /\ now = 0
  /\ pc = [a \in Approvers |-> "idle"]
  /\ decision = [a \in Approvers |-> "approved"]
  /\ executed = {} /\ cleaner = "waiting"

Tick ==
  /\ now < 2 /\ now' = now + 1
  /\ UNCHANGED <<status, approvedBy, pc, decision, executed, cleaner>>

Goto(a, where) == pc' = [pc EXCEPT ![a] = where]

\* The handler goes on to ResumeWithApproval only after an approval.
Answered(d) == IF d = "approved" THEN "resuming" ELSE "done"

Settle(a, d) ==
  /\ status' = d /\ approvedBy' = a
  /\ Goto(a, Answered(d))

\* ErrNotFound, ErrExpired and ErrAlreadyResolved end the handler.
Refuse(a) == Goto(a, "refused") /\ UNCHANGED approvedBy

\* Mutant: the status is not looked at.
resolveAgain(a, d) ==
  /\ ~Postgres /\ pc[a] = "idle"
  /\ decision' = [decision EXCEPT ![a] = d]
  /\ CASE status = "deleted" -> Refuse(a) /\ UNCHANGED status
       [] status # "deleted" /\ IsExpired -> Refuse(a) /\ status' = "expired"
       [] OTHER -> Settle(a, d)
  /\ UNCHANGED <<now, executed, cleaner>>

\* Manager.resolve: the deadline is looked at first, and marks the request as
\* expired whatever its status was.
resolve(a, d) ==
  /\ ~Postgres /\ pc[a] = "idle"
  /\ decision' = [decision EXCEPT ![a] = d]
  /\ CASE status = "deleted" -> Refuse(a) /\ UNCHANGED status
       [] status # "deleted" /\ IsExpired -> Refuse(a) /\ status' = "expired"
       [] status # "pending" /\ ~IsExpired -> Refuse(a) /\ UNCHANGED status
       [] OTHER -> Settle(a, d)
  /\ UNCHANGED <<now, executed, cleaner>>

\* The transaction of ApprovalRepository.resolve, first statement.  Marking the
\* row as expired is rolled back with the transaction, which returns an error.
ReadRow(a, d) ==
  /\ Postgres /\ pc[a] = "idle"
  /\ decision' = [decision EXCEPT ![a] = d]
  /\ Goto(a, IF status = "pending" /\ ~IsExpired THEN "read" ELSE "refused")
  /\ UNCHANGED <<status, approvedBy, now, executed, cleaner>>

\* The second statement: an update of the row with this id.  One that matches
\* no row is no error.
WriteRow(a) ==
  /\ pc[a] = "read"
  /\ Goto(a, Answered(decision[a]))
  /\ IF status = "deleted"
       THEN UNCHANGED <<status, approvedBy>>
       ELSE status' = decision[a] /\ approvedBy' = a
  /\ UNCHANGED <<now, decision, executed, cleaner>>

\* Get, and the check of the status.  A handler that resumes has resolved the
\* request, so Get finds nothing pending to mark as expired.
ResumeWithApproval(a) ==
  /\ pc[a] = "resuming"
  /\ Goto(a, IF status = "approved" THEN "executing" ELSE "refused")
  /\ UNCHANGED <<status, approvedBy, now, decision, executed, cleaner>>

Execute(a) ==
  /\ pc[a] = "executing"
  /\ executed' = executed \cup {a}
  /\ Goto(a, "done")
  /\ UNCHANGED <<status, approvedBy, now, decision, cleaner>>

\* The store does not answer, the tool is gone or refuses its parameters, or
\* the process stops: the handler ends without an effect.
Abandon(a) ==
  /\ pc[a] \in IF Postgres THEN {"idle", "read", "resuming"} ELSE {"resuming"}
  /\ Goto(a, "refused")
  /\ UNCHANGED <<status, approvedBy, now, decision, executed, cleaner>>

\* Manager.Cleanup: both loops in one critical section.
Cleanup ==
  /\ ~Postgres
  /\ \/ status = "pending" /\ now = 1 /\ status' = "expired"
     \/ status # "deleted" /\ now >= 2 /\ status' = "deleted"
  /\ UNCHANGED <<approvedBy, now, pc, decision, executed, cleaner>>

\* Mutant: the comparison with the deadline is the wrong way round.
ExpireNew(ok) ==
  /\ Postgres /\ cleaner = "waiting" /\ cleaner' = "deleting"
  /\ status' = IF ok /\ status = "pending" /\ ~IsExpired THEN "expired" ELSE status
  /\ UNCHANGED <<approvedBy, now, pc, decision, executed>>

\* A statement that fails is logged, and the loop goes on.
ExpireOld(ok) ==
  /\ Postgres /\ cleaner = "waiting" /\ cleaner' = "deleting"
  /\ status' = IF ok /\ status = "pending" /\ IsExpired THEN "expired" ELSE status
  /\ UNCHANGED <<approvedBy, now, pc, decision, executed>>

DeleteResolved(ok) ==
  /\ cleaner = "deleting" /\ cleaner' = "waiting"
  /\ status' = IF ok /\ status # "pending" /\ now >= 2 THEN "deleted" ELSE status
  /\ UNCHANGED <<approvedBy, now, pc, decision, executed>>

Handler(a) ==
  \/ \E d \in Decisions : resolve(a, d) \/ ReadRow(a, d)
  \/ WriteRow(a) \/ ResumeWithApproval(a) \/ Execute(a)
  \/ Abandon(a)

Cleaner == Cleanup \/ \E ok \in BOOLEAN : ExpireOld(ok) \/ DeleteResolved(ok)

Next == Tick \/ Cleaner \/ \E a \in Approvers : Handler(a)

\* Time passes, the ticker of StartCleanup fires, and the database answers the
\* clean-up again and again.
Fairness ==
  /\ WF_vars(Tick) /\ WF_vars(Cleaner)
  /\ SF_vars(ExpireOld(TRUE)) /\ SF_vars(DeleteResolved(TRUE))

Spec == Init /\ [][Next]_vars
FairSpec == Spec /\ Fairness

-----------------------------------------------------------------------------

TypeOK ==
  /\ status \in Status \cup {"deleted"}
  /\ approvedBy \in Approvers \cup {NoOne}
  /\ now \in 0..2
  /\ pc \in [Approvers -> {"idle", "read", "resuming", "executing", "done", "refused"}]
  /\ decision \in [Approvers -> Decisions]
  /\ executed \subseteq Approvers
  /\ cleaner \in {"waiting", "deleting"}

\* One approval is good for one execution of the tool, whatever the number of
\* approvers who press the button.
ExecutedAtMostOnce == Cardinality(executed) <= 1

\* Whoever is told that the request was denied can rely on it: the tool is not
\* executed, neither before nor after.
DenialIsFinal == (\E a \in Approvers : pc[a] = "done" /\ decision[a] = "denied") => executed = {}

\* The request names the approver whose decision it carries: status and
\* ApprovedBy are written together.
RecordNamesDecider ==
  status \in Decisions => approvedBy \in Approvers /\ decision[approvedBy] = status

\* The tool is executed only in the name of the recorded approver.
ExecutedByApprover == executed # {} => approvedBy \in executed

\* "Once expired, they cannot be approved."
NotApprovedLate == [][status # "approved" /\ status' = "approved" => ~IsExpired]_vars

\* "Once resolved (approved/denied/expired), the status cannot change", except
\* that the entry is removed in the end.
ResolvedIsImmutable == [][status # "pending" => status' \in {status, "deleted"}]_vars

\* No request stays for ever: it is answered or expires, and is removed.
EventuallyRemoved == <>(status = "deleted")

\* What RecordNamesDecider rests on: a handler that has not written is not
\* the recorded approver, so it may still choose its decision.
RecordInv ==
  /\ TypeOK
  /\ RecordNamesDecider
  /\ \A a \in Approvers : pc[a] \in {"idle", "read"} => approvedBy # a

\* What the promises of the in-memory manager rest on: a handler whose resolve
\* succeeded is the recorded approver, hence the only one.
Settled(a) == pc[a] \in {"resuming", "executing", "done"}
MemoryInv ==
  /\ RecordInv
  /\ \A a \in Approvers : Settled(a) => approvedBy = a
  /\ \A a \in Approvers : pc[a] \in {"resuming", "executing"} => decision[a] = "approved"
  /\ \A a \in executed : pc[a] = "done" /\ decision[a] = "approved"
  /\ status = "pending" => approvedBy = NoOne
  /\ cleaner = "waiting" /\ \A a \in Approvers : pc[a] # "read"

=============================================================================
