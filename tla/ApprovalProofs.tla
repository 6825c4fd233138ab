--------------------------- MODULE ApprovalProofs ---------------------------
(***************************************************************************)
(* What holds of an approval request for any number of approvers.          *)
(***************************************************************************)
EXTENDS Approval, TLAPS, FiniteSetTheorems

\* Moving one handler leaves the others where they were.
LEMMA GotoEffect ==
  ASSUME pc \in [Approvers -> {"idle", "read", "resuming", "executing", "done", "refused"}],
         NEW a \in Approvers, NEW where, Goto(a, where)
  PROVE  /\ pc'[a] = where
         /\ \A b \in Approvers \ {a} : pc'[b] = pc[b]
         /\ where \in {"idle", "read", "resuming", "executing", "done", "refused"}
              => pc' \in [Approvers -> {"idle", "read", "resuming", "executing", "done", "refused"}]
BY DEF Goto

\* Noting a decision leaves the other decisions as they were.
LEMMA DecisionEffect ==
  ASSUME decision \in [Approvers -> Decisions],
         NEW a \in Approvers, NEW d \in Decisions,
         decision' = [decision EXCEPT ![a] = d]
  PROVE  /\ decision' \in [Approvers -> Decisions]
         /\ decision'[a] = d
         /\ \A b \in Approvers \ {a} : decision'[b] = decision[b]
OBVIOUS

\* The type invariant and the record of the decider, with either store.
LEMMA RecordStep == RecordInv /\ [Next]_vars => RecordInv'
<1> SUFFICES ASSUME RecordInv, [Next]_vars PROVE RecordInv'
  OBVIOUS
<1> USE ApprovalAssumption DEF RecordInv, TypeOK, RecordNamesDecider, Status, Decisions
<1>1. CASE Tick
  BY <1>1 DEF Tick
<1>2. CASE Cleanup
  BY <1>2 DEF Cleanup
<1>3. ASSUME NEW ok \in BOOLEAN, ExpireOld(ok) PROVE RecordInv'
  BY <1>3 DEF ExpireOld
<1>4. ASSUME NEW ok \in BOOLEAN, DeleteResolved(ok) PROVE RecordInv'
  BY <1>4 DEF DeleteResolved
<1>5. ASSUME NEW a \in Approvers, NEW d \in Decisions, resolve(a, d) PROVE RecordInv'
  <2>1. decision' = [decision EXCEPT ![a] = d] /\ pc[a] = "idle" /\ approvedBy # a
    BY <1>5 DEF resolve
  <2>2. CASE Refuse(a) /\ status' \in {status, "expired"}
    BY <1>5, <2>1, <2>2, GotoEffect, DecisionEffect DEF resolve, Refuse
  <2>3. CASE Settle(a, d)
    BY <1>5, <2>1, <2>3, GotoEffect, DecisionEffect DEF resolve, Settle, Answered
  <2> QED
    BY <1>5, <2>2, <2>3 DEF resolve
<1>6. ASSUME NEW a \in Approvers, NEW d \in Decisions, ReadRow(a, d) PROVE RecordInv'
  <2>1. decision' = [decision EXCEPT ![a] = d] /\ pc[a] = "idle" /\ approvedBy # a
    BY <1>6 DEF ReadRow
  <2> QED
    BY <1>6, <2>1, GotoEffect, DecisionEffect DEF ReadRow
<1>7. ASSUME NEW a \in Approvers, WriteRow(a) PROVE RecordInv'
  BY <1>7, GotoEffect DEF WriteRow, Answered
<1>8. ASSUME NEW a \in Approvers, ResumeWithApproval(a) PROVE RecordInv'
  BY <1>8, GotoEffect DEF ResumeWithApproval
<1>9. ASSUME NEW a \in Approvers, Execute(a) PROVE RecordInv'
  BY <1>9, GotoEffect DEF Execute
<1>10. ASSUME NEW a \in Approvers, Abandon(a) PROVE RecordInv'
  BY <1>10, GotoEffect DEF Abandon
<1>11. CASE UNCHANGED vars
  BY <1>11 DEF vars
<1> QED
  BY <1>1, <1>2, <1>3, <1>4, <1>5, <1>6, <1>7, <1>8, <1>9, <1>10, <1>11
  DEF Next, Cleaner, Handler

-----------------------------------------------------------------------------
(* The in-memory manager. *)

\* The handlers of the in-memory manager preserve its invariant.
LEMMA MemoryStep ==
  ASSUME ~Postgres
  PROVE  MemoryInv /\ [Next]_vars => MemoryInv'
<1> SUFFICES ASSUME MemoryInv, [Next]_vars PROVE MemoryInv'
  OBVIOUS
<1>0. RecordInv' /\ TypeOK /\ RecordInv
  BY RecordStep DEF MemoryInv, RecordInv
<1> USE ApprovalAssumption, <1>0 DEF MemoryInv, TypeOK, Settled
<1>1. CASE Tick
  BY <1>1 DEF Tick
<1>2. CASE Cleanup
  BY <1>2 DEF Cleanup
<1>3. ASSUME NEW a \in Approvers, NEW d \in Decisions, resolve(a, d) PROVE MemoryInv'
  <2>1. decision' = [decision EXCEPT ![a] = d] /\ pc[a] = "idle" /\ a \notin executed
    BY <1>3 DEF resolve
  <2>2. CASE Refuse(a) /\ status' \in {status, "expired"}
    BY <1>3, <2>1, <2>2, GotoEffect, DecisionEffect DEF resolve, Refuse
  <2>3. CASE status = "pending" /\ Settle(a, d)
    <3>1. \A b \in Approvers : ~Settled(b)
      BY <2>3
    <3>2. executed = {}
      BY <3>1
    <3> QED
      BY <1>3, <2>1, <2>3, <3>1, <3>2, GotoEffect, DecisionEffect DEF resolve, Settle, Answered, Decisions
  <2> QED
    BY <1>3, <2>2, <2>3 DEF resolve
<1>4. ASSUME NEW a \in Approvers, ResumeWithApproval(a) PROVE MemoryInv'
  BY <1>4, GotoEffect DEF ResumeWithApproval
<1>5. ASSUME NEW a \in Approvers, Execute(a) PROVE MemoryInv'
  BY <1>5, GotoEffect DEF Execute
<1>6. ASSUME NEW a \in Approvers, Abandon(a) PROVE MemoryInv'
  BY <1>6, GotoEffect DEF Abandon
<1>7. CASE UNCHANGED vars
  BY <1>7 DEF vars
<1>8. \A a \in Approvers : ~WriteRow(a) /\ \A d \in Decisions : ~ReadRow(a, d)
  BY DEF WriteRow, ReadRow
<1>9. \A ok \in BOOLEAN : ~ExpireOld(ok) /\ ~DeleteResolved(ok)
  BY DEF ExpireOld, DeleteResolved
<1> QED
  BY <1>1, <1>2, <1>3, <1>4, <1>5, <1>6, <1>7, <1>8, <1>9 DEF Next, Cleaner, Handler

\* The invariant of the in-memory manager, for any number of approvers.
THEOREM MemoryInvariance == ASSUME ~Postgres PROVE Spec => []MemoryInv
<1>1. Init => MemoryInv
  BY ApprovalAssumption
  DEF Init, MemoryInv, RecordInv, TypeOK, RecordNamesDecider, Status, Decisions, Settled
<1> QED
  BY <1>1, MemoryStep, PTL DEF Spec

\* However many approvers press the button, the tool is executed once at most.
THEOREM OneExecution == ASSUME ~Postgres PROVE Spec => []ExecutedAtMostOnce
<1>1. MemoryInv => ExecutedAtMostOnce
  <2> SUFFICES ASSUME MemoryInv PROVE Cardinality(executed) <= 1
    BY DEF ExecutedAtMostOnce
  <2>1. executed = {} \/ executed = {approvedBy}
    BY DEF MemoryInv, RecordInv, TypeOK, Settled
  <2>2. CASE executed = {}
    BY <2>2, FS_EmptySet
  <2>3. CASE executed = {approvedBy}
    <3>1. Cardinality({approvedBy}) = 1
      BY FS_Singleton
    <3> QED
      BY <2>3, <3>1
  <2> QED
    BY <2>1, <2>2, <2>3
<1> QED
  BY <1>1, MemoryInvariance, PTL

\* A denial that was accepted excludes any execution.
THEOREM DenialHolds == ASSUME ~Postgres PROVE Spec => []DenialIsFinal
<1>1. MemoryInv => DenialIsFinal
  BY DEF MemoryInv, RecordInv, TypeOK, Settled, DenialIsFinal
<1> QED
  BY <1>1, MemoryInvariance, PTL

\* The tool is executed in the name of the recorded approver only.
THEOREM ExecutionIsNamed == ASSUME ~Postgres PROVE Spec => []ExecutedByApprover
<1>1. MemoryInv => ExecutedByApprover
  BY DEF MemoryInv, RecordInv, TypeOK, Settled, ExecutedByApprover
<1> QED
  BY <1>1, MemoryInvariance, PTL

\* A request is never approved after its deadline.
THEOREM ApprovedInTime == ASSUME ~Postgres PROVE Spec => NotApprovedLate
<1>1. MemoryInv /\ [Next]_vars => [status # "approved" /\ status' = "approved" => ~IsExpired]_vars
  <2> SUFFICES ASSUME MemoryInv, Next, status # "approved", status' = "approved"
               PROVE  ~IsExpired
    BY DEF vars
  <2>1. \A a \in Approvers : ~WriteRow(a) /\ \A d \in Decisions : ~ReadRow(a, d)
    BY DEF WriteRow, ReadRow, MemoryInv
  <2>2. ~Cleaner /\ ~Tick
    BY DEF Cleaner, Cleanup, ExpireOld, DeleteResolved, Tick
  <2>3. PICK a \in Approvers : Handler(a)
    BY <2>2 DEF Next
  <2>4. ~ResumeWithApproval(a) /\ ~Execute(a) /\ ~Abandon(a)
    BY DEF ResumeWithApproval, Execute, Abandon
  <2>5. PICK d \in Decisions : resolve(a, d)
    BY <2>1, <2>3, <2>4 DEF Handler
  <2> QED
    BY <2>5 DEF resolve, Refuse, Settle
<1> QED
  BY <1>1, MemoryInvariance, PTL DEF Spec, NotApprovedLate

=============================================================================
