------------------------- MODULE AutoApprovalConfig -------------------------
(***************************************************************************)
(* The configuration of auto-approval (approval/auto.go, its constants and  *)
(* defaults) and the bounds of the model of it, with what is assumed.       *)
(***************************************************************************)
EXTENDS Integers, FiniteSets

CONSTANTS
  Callers,            \* concurrent calls of ShouldAutoApprove
  Keys,               \* approvalKey of the operations with an allowed tool
  MaxAutoApprovals, RequiredApprovals, WindowHours,
  LastHour,           \* bound: the clock stops there
  MaxManual           \* bound: manual approvals of one operation in one hour

ASSUME AutoApprovalAssumption ==
  /\ MaxAutoApprovals \in Nat \ {0} /\ RequiredApprovals \in Nat \ {0}
  /\ WindowHours \in Nat \ {0} /\ LastHour \in Nat \ {0} /\ MaxManual \in Nat \ {0}
  /\ IsFiniteSet(Callers) /\ Callers # {}

=============================================================================
