---------------------------- MODULE AutoApprover ----------------------------
(***************************************************************************)
(* Auto-approval of operations that one user has approved by hand often    *)
(* enough (approval/auto.go).  ShouldAutoApprove takes and gives back the  *)
(* mutex three times: to check the hourly cap, to read the history, and to *)
(* count the auto-approval; concurrent calls interleave there.  Time       *)
(* passes in whole hours.                                                  *)
(***************************************************************************)
EXTENDS AutoApprovalConfig, Functions

VARIABLES
  hour,      \* time.Now, in hours
  history,   \* history[k][h]: the manual approvals of k in hour h that are kept
  counter,   \* counters[userID]
  hourSlot,
  pc, key,   \* how far each call is, and the operation it is about
  checkedAt, \* the hour in which it passed the check of the cap
  granted,   \* auto-approvals whose cap was checked in that hour
  manual     \* manual[k][h]: every manual approval there was

vars == <<hour, history, counter, hourSlot, pc, key, checkedAt, granted, manual>>

Hours == 1..LastHour

InWindow(h) == h > hour - WindowHours /\ h <= hour

Recent(approvals) == SumFunctionOnSet(approvals, {h \in Hours : InWindow(h)})

Init ==
  /\ hour = 1 /\ counter = 0 /\ hourSlot = 0
  /\ history = [k \in Keys |-> [h \in Hours |-> 0]]
  /\ manual = history
  /\ pc = [c \in Callers |-> "idle"]
  /\ key \in [Callers -> Keys]
  /\ checkedAt = [c \in Callers |-> 1]
  /\ granted = [h \in Hours |-> 0]

Tick ==
  /\ hour < LastHour /\ hour' = hour + 1
  /\ UNCHANGED <<history, counter, hourSlot, pc, key, checkedAt, granted, manual>>

\* Mutant: one auto-approval more than the cap.
CapCheckOneMore(c, k) ==
  /\ pc[c] = "idle"
  /\ hourSlot' = hour
  /\ counter' = IF hourSlot = hour THEN counter ELSE 0
  /\ counter' <= MaxAutoApprovals
  /\ pc' = [pc EXCEPT ![c] = "checked"]
  /\ key' = [key EXCEPT ![c] = k]
  /\ checkedAt' = [checkedAt EXCEPT ![c] = hour]
  /\ UNCHANGED <<hour, history, granted, manual>>

\* First critical section.  A call over the cap returns; the slot is the
\* current one then, so nothing changes.
CapCheck(c, k) ==
  /\ pc[c] = "idle"
  /\ hourSlot' = hour
  /\ counter' = IF hourSlot = hour THEN counter ELSE 0
  /\ counter' < MaxAutoApprovals
  /\ pc' = [pc EXCEPT ![c] = "checked"]
  /\ key' = [key EXCEPT ![c] = k]
  /\ checkedAt' = [checkedAt EXCEPT ![c] = hour]
  /\ UNCHANGED <<hour, history, granted, manual>>

\* Second critical section, and the loop over what it read.
CountRecent(c) ==
  /\ pc[c] = "checked"
  /\ pc' = [pc EXCEPT ![c] =
              IF Recent(history[key[c]]) >= RequiredApprovals THEN "enough" ELSE "idle"]
  /\ UNCHANGED <<hour, history, counter, hourSlot, key, checkedAt, granted, manual>>

\* Third critical section: the counter of whatever hour it is for.
Grant(c) ==
  /\ pc[c] = "enough"
  /\ counter' = counter + 1
  /\ granted' = [granted EXCEPT ![checkedAt[c]] = @ + 1]
  /\ pc' = [pc EXCEPT ![c] = "idle"]
  /\ UNCHANGED <<hour, history, hourSlot, key, checkedAt, manual>>

Append(k) ==
  /\ manual[k][hour] < MaxManual
  /\ manual' = [manual EXCEPT ![k][hour] = @ + 1]
  /\ UNCHANGED <<hour, counter, hourSlot, pc, key, checkedAt, granted>>

\* Mutant: pruning keeps the last hour of the window only.
RecordAndForget(k) ==
  /\ Append(k)
  /\ history' = [history EXCEPT ![k] = [h \in Hours |-> IF h = hour THEN @[h] + 1 ELSE 0]]

\* Called by ResumeWithApproval only: auto-approvals do not count.
RecordManualApproval(k) ==
  /\ Append(k)
  /\ history' = [history EXCEPT ![k] =
       [h \in Hours |-> CASE h = hour -> @[h] + 1
                          [] h # hour /\ InWindow(h) -> @[h]
                          [] OTHER -> 0]]

Next ==
  \/ Tick
  \/ \E k \in Keys : RecordManualApproval(k)
  \/ \E c \in Callers : (\E k \in Keys : CapCheck(c, k)) \/ CountRecent(c) \/ Grant(c)

Spec == Init /\ [][Next]_vars

-----------------------------------------------------------------------------

TypeOK ==
  /\ hour \in Hours /\ hourSlot \in 0..LastHour /\ counter \in Nat
  /\ history \in [Keys -> [Hours -> 0..MaxManual]]
  /\ manual \in [Keys -> [Hours -> 0..MaxManual]]
  /\ pc \in [Callers -> {"idle", "checked", "enough"}]
  /\ key \in [Callers -> Keys]
  /\ checkedAt \in [Callers -> Hours]
  /\ granted \in [Hours -> Nat]

\* "Maximum auto-approvals per user per hour."
CapRespected == \A h \in Hours : granted[h] <= MaxAutoApprovals

\* The cap is checked in one critical section and counted in another: it can
\* be overshot, by the calls that run at the same time and by no more, even
\* when the hour turns between the two.
OvershootBounded ==
  \A h \in Hours : granted[h] <= MaxAutoApprovals + Cardinality(Callers) - 1

\* An operation is auto-approved only on the strength of enough manual
\* approvals of that very operation in the window, and pruning the history
\* never hides one of them.
RestsOnManualApprovals ==
  [][\A c \in Callers : pc[c] = "checked" /\ pc'[c] # "checked" =>
       (pc'[c] = "enough") = (Recent(manual[key[c]]) >= RequiredApprovals)]_vars

\* What OvershootBounded rests on: the calls between check and count.
InFlight(h) == {c \in Callers : pc[c] # "idle" /\ checkedAt[c] = h}
CapInv ==
  /\ TypeOK
  /\ hourSlot <= hour
  /\ \A k \in Keys, h \in Hours : history[k][h] <= manual[k][h]
  /\ \A h \in Hours : h > hourSlot => granted[h] = 0 /\ InFlight(h) = {}
  /\ \A h \in Hours : h = hourSlot => granted[h] <= counter
  /\ \A h \in Hours :
       granted[h] + Cardinality(InFlight(h)) <= MaxAutoApprovals + Cardinality(Callers) - 1

=============================================================================
