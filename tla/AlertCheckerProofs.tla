------------------------- MODULE AlertCheckerProofs -------------------------
(***************************************************************************)
(* What an alert rule guarantees whatever its schedule, its cooldown, the  *)
(* number of gateway instances and the number of crashes, rolled back      *)
(* transactions, stale updates and lost records.                           *)
(***************************************************************************)
EXTENDS AlertChecker, TLAPS

Evaluated(i) == phase[i] = "evaluated"

\* The status and the time of the last notification that the next check will start
\* from, if the transaction that holds the row commits.
ToBe(s) == IF \E i \in Instances : Evaluated(i)
             THEN \E i \in Instances : Evaluated(i) /\ found[i] = s
             ELSE row.status = s
AlertedToBe(t) == IF \E i \in Instances : Evaluated(i)
                    THEN \E i \in Instances : Evaluated(i) /\ pending[i].alerted = t
                    ELSE row.alerted = t

IsRow(r) ==
  r = [enabled |-> r.enabled, status |-> r.status, alerted |-> r.alerted, next |-> r.next]

\* The values the properties look at.
ShapeInv ==
  /\ phase \in [Instances -> {"down", "idle", "checking", "evaluated"}]
  /\ found \in [Instances -> Found]
  /\ DOMAIN pending = Instances /\ pending = [i \in Instances |-> pending[i]]
  /\ IsRow(row) /\ IsRow(edit.row) /\ \A i \in Instances : IsRow(pending[i])
  /\ edit = [held |-> edit.held, row |-> edit.row]
  /\ row.status \in Found /\ edit.row.status \in Found
  /\ sent \in [Bad -> Nat] /\ early \in Nat /\ gaps \in Nat /\ faults \in Nat
  /\ history \in Found

\* One transaction at a time holds the row, and what it has read is still there.
LockInv ==
  /\ \A i, j \in Instances :
       phase[i] \notin {"down", "idle"} /\ phase[j] \notin {"down", "idle"} => i = j
  /\ \A i \in Instances :
       /\ phase[i] = "checking" => pending[i] = row
       /\ Evaluated(i) => pending[i].status = row.status

\* A status that was notified without being recorded, a time that was lost and a
\* record that does not continue the one before have each cost a fault.
FaultInv ==
  /\ \A s \in Bad : sent[s] <= 1 + faults /\ (sent[s] <= faults \/ ToBe(s) \/ row.status = s)
  /\ early <= faults /\ (early < faults \/ AlertedToBe(lastSent))
  /\ gaps <= faults /\ (gaps < faults \/ ToBe(history))

AlertInv == ShapeInv /\ LockInv /\ FaultInv

-----------------------------------------------------------------------------

LEMMA InitAlert == Init => AlertInv
<1> SUFFICES ASSUME Init PROVE AlertInv
  OBVIOUS
<1> USE DEF Init, Bad, Found, NoRow, NoEdit
<1>1. ShapeInv
  BY DEF ShapeInv, IsRow
<1>2. LockInv
  BY DEF LockInv, Evaluated
<1>3. FaultInv
  BY DEF FaultInv, ToBe, AlertedToBe, Evaluated
<1> QED
  BY <1>1, <1>2, <1>3 DEF AlertInv

\* Steps that leave the checkers and what they have written alone.
LEMMA QuietAlert ==
  ASSUME AlertInv, UNCHANGED <<row, phase, found, pending, sent, lastSent, early, history, gaps, faults>>
  PROVE  LockInv' /\ FaultInv'
BY DEF AlertInv, LockInv, FaultInv, ToBe, AlertedToBe, Evaluated

LEMMA ClockStep == ASSUME AlertInv, Clock PROVE AlertInv'
<1>1. ShapeInv'
  BY DEF AlertInv, ShapeInv, Clock
<1> QED
  BY <1>1, QuietAlert DEF AlertInv, Clock

LEMMA UpdateGetStep ==
  ASSUME AlertInv, NEW enabled, NEW newExpression, UpdateGet(enabled, newExpression)
  PROVE  AlertInv'
<1>1. ShapeInv'
  BY DEF AlertInv, ShapeInv, UpdateGet, IsRow
<1> QED
  BY <1>1, QuietAlert DEF AlertInv, UpdateGet

LEMMA UpdateRejectedStep == ASSUME AlertInv, UpdateRejected PROVE AlertInv'
<1>1. ShapeInv'
  BY DEF AlertInv, ShapeInv, UpdateRejected, IsRow, NoEdit, NoRow, Found
<1> QED
  BY <1>1, QuietAlert DEF AlertInv, UpdateRejected

LEMMA TickStep == ASSUME AlertInv, NEW i \in Instances, tick(i) PROVE AlertInv'
<1> USE DEF AlertInv
<1>1. ShapeInv'
  BY DEF ShapeInv, tick, IsRow
<1>2. /\ phase'[i] = "checking" /\ pending'[i] = row /\ phase[i] = "idle"
      /\ \A j \in Instances \ {i} : phase'[j] = phase[j] /\ pending'[j] = pending[j]
      /\ \A j \in Instances : phase[j] \in {"down", "idle"}
  BY DEF tick, Locked, ShapeInv
<1>3. LockInv'
  BY <1>2 DEF LockInv, tick, Evaluated
<1>4. FaultInv'
  <2>1. \A j \in Instances : ~Evaluated(j) /\ ~Evaluated(j)'
    BY <1>2 DEF Evaluated
  <2>2. \A s : ToBe(s)' = ToBe(s) /\ AlertedToBe(s)' = AlertedToBe(s)
    BY <2>1 DEF ToBe, AlertedToBe, tick
  <2> QED
    BY <2>2 DEF FaultInv, tick
<1> QED
  BY <1>1, <1>3, <1>4

LEMMA StartStep == ASSUME AlertInv, NEW i \in Instances, Start(i) PROVE AlertInv'
<1> USE DEF AlertInv
<1>1. ShapeInv'
  BY DEF ShapeInv, Start
<1>2. LockInv'
  BY DEF LockInv, Start, Evaluated, ShapeInv
<1>3. FaultInv'
  <2>1. \A j \in Instances : Evaluated(j)' = Evaluated(j)
    BY DEF Start, Evaluated, ShapeInv
  <2>2. \A s : ToBe(s)' = ToBe(s) /\ AlertedToBe(s)' = AlertedToBe(s)
    BY <2>1 DEF ToBe, AlertedToBe, Start
  <2> QED
    BY <2>2 DEF FaultInv, Start
<1> QED
  BY <1>1, <1>2, <1>3

LEMMA EvaluateStep ==
  ASSUME AlertInv, NEW i \in Instances, NEW status \in Found, evaluateRule(i, status)
  PROVE  AlertInv'
<1> USE DEF AlertInv
<1>1. /\ phase[i] = "checking" /\ phase'[i] = "evaluated" /\ found'[i] = status
      /\ \A j \in Instances \ {i} :
           phase'[j] = phase[j] /\ found'[j] = found[j] /\ pending'[j] = pending[j]
      /\ UNCHANGED <<row, edit>>
      /\ pending[i] = row
  BY DEF evaluateRule, ShapeInv, LockInv
<1>2. faults' \in Nat /\ faults' >= faults
  BY DEF evaluateRule, Append, Fault, ShapeInv
<1>3. gaps' \in Nat /\ history' \in Found
  BY DEF evaluateRule, Append, ShapeInv
<1>4. \A j \in Instances \ {i} : ~Evaluated(j) /\ ~Evaluated(j)'
  BY <1>1 DEF LockInv, Evaluated
<1>5. Evaluated(i)' /\ ~Evaluated(i)
  BY <1>1 DEF Evaluated
<1>6. /\ \A s : ToBe(s) <=> row.status = s
      /\ \A s : ToBe(s)' <=> status = s
      /\ \A t : AlertedToBe(t) <=> row.alerted = t
      /\ \A t : AlertedToBe(t)' <=> pending'[i].alerted = t
  BY <1>1, <1>4, <1>5 DEF ToBe, AlertedToBe
<1>7. gaps' <= faults' /\ (gaps' < faults' \/ ToBe(history)')
  BY <1>1, <1>6 DEF FaultInv, ShapeInv, evaluateRule, Append, Fault
<1>8. CASE ShouldNotify(pending[i], status)
  <2>1. /\ sent' = [sent EXCEPT ![status] = @ + 1]
        /\ early' = IF lastSent # Never /\ now < lastSent + Cooldown THEN early + 1 ELSE early
        /\ lastSent' = now /\ pending'[i] = [row EXCEPT !.alerted = now]
        /\ pending' = [pending EXCEPT ![i].alerted = now]
        /\ status \in Bad /\ row.status # status /\ ~CoolingDown(row)
    BY <1>1, <1>8 DEF evaluateRule, ShouldNotify, ShapeInv
  <2>2. /\ pending'[i].alerted = now /\ pending'[i].status = row.status /\ IsRow(pending'[i])
    BY <2>1 DEF ShapeInv, IsRow
  <2>3. ShapeInv'
    BY <1>1, <1>2, <1>3, <2>1, <2>2 DEF ShapeInv, evaluateRule, IsRow
  <2>4. LockInv'
    BY <1>1, <2>2 DEF LockInv, Evaluated
  <2>5. \A s \in Bad : sent'[s] <= 1 + faults' /\ (sent'[s] <= faults' \/ ToBe(s)' \/ row'.status = s)
    BY <1>1, <1>6, <1>2, <2>1 DEF FaultInv, ShapeInv
  <2>6. early' <= faults' /\ AlertedToBe(lastSent)'
    <3>1. lastSent # Never /\ now < lastSent + Cooldown => row.alerted # lastSent
      BY <2>1 DEF CoolingDown
    <3> QED
      BY <1>1, <1>6, <1>2, <2>1, <2>2, <3>1 DEF FaultInv, ShapeInv
  <2> QED
    BY <1>7, <2>3, <2>4, <2>5, <2>6 DEF FaultInv
<1>9. CASE ~ShouldNotify(pending[i], status)
  <2>1. UNCHANGED <<sent, early, lastSent, pending>>
    BY <1>9 DEF evaluateRule
  <2>2. ShapeInv'
    BY <1>1, <1>2, <1>3, <2>1 DEF ShapeInv, evaluateRule, IsRow
  <2>3. LockInv'
    BY <1>1, <2>1 DEF LockInv, Evaluated
  <2>4. \A s \in Bad : sent'[s] <= 1 + faults' /\ (sent'[s] <= faults' \/ ToBe(s)' \/ row'.status = s)
    BY <1>1, <1>6, <1>9, <1>2, <2>1 DEF FaultInv, ShapeInv
  <2>5. early' <= faults' /\ (early' < faults' \/ AlertedToBe(lastSent)')
    BY <1>1, <1>6, <1>2, <2>1 DEF FaultInv, ShapeInv
  <2> QED
    BY <1>7, <2>2, <2>3, <2>4, <2>5 DEF FaultInv
<1> QED
  BY <1>8, <1>9


\* A commit: the row becomes what it was to be.
LEMMA RecordStep == ASSUME AlertInv, NEW i \in Instances, RecordCheck(i) PROVE AlertInv'
<1> USE DEF AlertInv
<1>1. /\ Evaluated(i) /\ phase'[i] = "idle"
      /\ \A j \in Instances \ {i} : phase'[j] = phase[j] /\ pending'[j] = pending[j]
      /\ row' = [pending[i] EXCEPT !.status = found[i], !.next = computeNextRun]
      /\ sent' = [s \in Bad |-> IF s = found[i] THEN sent[s] ELSE 0]
      /\ UNCHANGED <<edit, lastSent, early, history, gaps, faults>>
      /\ found[i] \in Found
  BY DEF RecordCheck, ShapeInv, Evaluated
<1>2. row'.status = found[i] /\ row'.alerted = pending[i].alerted /\ IsRow(row')
  <2> DEFINE p == pending[i]
  <2>1. p = [enabled |-> p.enabled, status |-> p.status, alerted |-> p.alerted, next |-> p.next]
    BY DEF ShapeInv, IsRow
  <2>2. row' = [enabled |-> p.enabled, status |-> found[i], alerted |-> p.alerted,
                next |-> computeNextRun]
    BY <1>1, <2>1
  <2> QED
    BY <2>2 DEF IsRow
<1>3. \A j \in Instances : (j # i => ~Evaluated(j)) /\ phase'[j] \in {"down", "idle"}
  BY <1>1 DEF LockInv, Evaluated, ShapeInv
<1>4. ShapeInv'
  BY <1>1, <1>2 DEF ShapeInv, RecordCheck, IsRow, NoRow, Found
<1>5. LockInv'
  BY <1>3 DEF LockInv, Evaluated
<1>6. \A s : ToBe(s)' = ToBe(s) /\ AlertedToBe(s)' = AlertedToBe(s)
  BY <1>1, <1>2, <1>3 DEF ToBe, AlertedToBe, Evaluated
<1>7. \A s \in Bad : sent'[s] <= 1 + faults' /\ (sent'[s] <= faults' \/ row'.status = s)
  BY <1>1, <1>2 DEF FaultInv, ShapeInv
<1> QED
  BY <1>1, <1>4, <1>5, <1>6, <1>7 DEF FaultInv

\* What a fault may undo: the bounds grow with it.
LEMMA FaultPays ==
  ASSUME FaultInv, faults \in Nat, sent \in [Bad -> Nat], early \in Nat, gaps \in Nat,
         faults' = faults + 1, UNCHANGED <<sent, early, gaps>>
  PROVE  FaultInv'
<1>1. \A s \in Bad : sent'[s] <= faults'
  BY DEF FaultInv
<1>2. early' < faults' /\ gaps' < faults'
  BY DEF FaultInv
<1>3. \A s \in Bad : sent'[s] <= 1 + faults'
  BY <1>1
<1> QED
  BY <1>1, <1>2, <1>3 DEF FaultInv

LEMMA RollBackStep ==
  ASSUME AlertInv, NEW i \in Instances, NEW then \in {"idle", "down"}, RollBack(i, then)
  PROVE  AlertInv'
<1> USE DEF AlertInv
<1>1. /\ phase'[i] \in {"down", "idle"} /\ UNCHANGED row
      /\ \A j \in Instances \ {i} : phase'[j] = phase[j] /\ pending'[j] = pending[j]
      /\ faults' = faults + 1 /\ UNCHANGED <<sent, early, gaps>>
  BY DEF RollBack, Fault, ShapeInv
<1>2. ShapeInv'
  BY <1>1 DEF ShapeInv, RollBack, IsRow, NoRow, Found
<1>3. LockInv'
  BY <1>1 DEF LockInv, Evaluated
<1> QED
  BY <1>1, <1>2, <1>3, FaultPays DEF ShapeInv

\* Nobody holds the row: it may be written.
LEMMA Unlocked ==
  ASSUME ShapeInv, ~Locked
  PROVE  \A i \in Instances : phase[i] \in {"down", "idle"} /\ ~Evaluated(i)
BY DEF ShapeInv, Locked, Evaluated

LEMMA UpdateSaveStep == ASSUME AlertInv, UpdateSave PROVE AlertInv'
<1> USE DEF AlertInv
<1>1. row' = edit.row /\ UNCHANGED <<phase, found, pending, sent, lastSent, early, history, gaps>>
  BY DEF UpdateSave
<1>2. \A i \in Instances : phase[i] \in {"down", "idle"} /\ ~Evaluated(i)
  BY Unlocked DEF UpdateSave
<1>3. ShapeInv'
  BY <1>1 DEF ShapeInv, UpdateSave, Fault, IsRow, NoEdit, NoRow, Found
<1>4. LockInv'
  BY <1>1, <1>2 DEF LockInv, Evaluated
<1>5. FaultInv'
  <2>1. CASE edit.row.status # row.status \/ edit.row.alerted # row.alerted
    BY <1>1, <2>1, FaultPays DEF UpdateSave, Fault, ShapeInv
  <2>2. CASE ~(edit.row.status # row.status \/ edit.row.alerted # row.alerted)
    <3>1. faults' = faults /\ row'.status = row.status /\ row'.alerted = row.alerted
      BY <1>1, <2>2 DEF UpdateSave
    <3>2. \A s : ToBe(s)' = ToBe(s) /\ AlertedToBe(s)' = AlertedToBe(s)
      BY <1>1, <1>2, <3>1 DEF ToBe, AlertedToBe, Evaluated
    <3> QED
      BY <1>1, <3>1, <3>2 DEF FaultInv
  <2> QED
    BY <2>1, <2>2
<1> QED
  BY <1>3, <1>4, <1>5

LEMMA DeleteStep == ASSUME AlertInv, Delete PROVE AlertInv'
<1> USE DEF AlertInv
<1>1. /\ row' = [row EXCEPT !.enabled = "deleted"]
      /\ UNCHANGED <<phase, found, pending, edit, sent, lastSent, early, history, gaps, faults>>
  BY DEF Delete
<1>2. row'.status = row.status /\ row'.alerted = row.alerted /\ IsRow(row')
  BY <1>1 DEF ShapeInv, IsRow
<1>3. \A i \in Instances : phase[i] \in {"down", "idle"} /\ ~Evaluated(i)
  BY Unlocked DEF Delete
<1>4. ShapeInv'
  BY <1>1, <1>2 DEF ShapeInv
<1>5. LockInv'
  BY <1>1, <1>3 DEF LockInv, Evaluated
<1>6. \A s : ToBe(s)' = ToBe(s) /\ AlertedToBe(s)' = AlertedToBe(s)
  BY <1>1, <1>2, <1>3 DEF ToBe, AlertedToBe, Evaluated
<1> QED
  BY <1>1, <1>2, <1>4, <1>5, <1>6 DEF FaultInv

-----------------------------------------------------------------------------

\* One transaction at a time, and every deviation paid for by a fault.
THEOREM AlertInvariance == Spec => []AlertInv
<1>1. AlertInv /\ UNCHANGED vars => AlertInv'
  <2> SUFFICES ASSUME AlertInv, UNCHANGED vars PROVE AlertInv'
    OBVIOUS
  <2>1. ShapeInv'
    BY DEF AlertInv, ShapeInv, vars
  <2> QED
    BY <2>1, QuietAlert DEF AlertInv, vars
<1>2. AlertInv /\ Next => AlertInv'
  <2> SUFFICES ASSUME AlertInv, Next PROVE AlertInv'
    OBVIOUS
  <2>1. ASSUME NEW i \in Instances, Checker(i) PROVE AlertInv'
    BY <2>1, TickStep, RecordStep, StartStep, EvaluateStep DEF Checker
  <2> QED
    BY <2>1, ClockStep, RollBackStep, UpdateGetStep, UpdateSaveStep, UpdateRejectedStep, DeleteStep
       DEF Next
<1> QED
  BY <1>1, <1>2, InitAlert, PTL DEF Spec

\* A rule that keeps failing in the same way is reported once, and once more for each
\* crash, rolled back transaction, stale update or lost history record, by however
\* many checkers.
THEOREM ReportsBounded == Spec => []ReportedOnce
<1>1. AlertInv => ReportedOnce
  BY DEF AlertInv, FaultInv, ReportedOnce
<1> QED
  BY <1>1, AlertInvariance, PTL

\* A notification during the cooldown of another comes from a fault.
THEOREM CooldownKept == Spec => []CooldownHolds
<1>1. AlertInv => CooldownHolds
  BY DEF AlertInv, FaultInv, CooldownHolds
<1> QED
  BY <1>1, AlertInvariance, PTL

\* A history record that does not continue the one before comes from a fault.
THEOREM HistoryChained == Spec => []HistoryIsAChain
<1>1. AlertInv => HistoryIsAChain
  BY DEF AlertInv, FaultInv, HistoryIsAChain
<1> QED
  BY <1>1, AlertInvariance, PTL

=============================================================================
