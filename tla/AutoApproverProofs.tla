------------------------- MODULE AutoApproverProofs -------------------------
(***************************************************************************)
(* The hourly cap is overshot by the concurrent calls at most, for every   *)
(* cap, window and number of calls.                                        *)
(***************************************************************************)
EXTENDS AutoApprover, TLAPS, FiniteSetTheorems

\* The numbers of a state, and what the invariant says of them.
LEMMA Numbers ==
  ASSUME CapInv
  PROVE  /\ hour \in Nat /\ hour \in Hours /\ hourSlot \in Nat /\ hourSlot <= hour /\ counter \in Nat
         /\ \A h \in Hours : granted[h] \in Nat /\ h \in Nat
         /\ \A h \in Hours : h > hourSlot => granted[h] = 0 /\ InFlight(h) = {}
         /\ \A h \in Hours : h = hourSlot => granted[h] <= counter
BY AutoApprovalAssumption DEF CapInv, TypeOK, Hours

\* Calls in flight are calls, so there are finitely many.
LEMMA InFlightFinite ==
  ASSUME NEW h
  PROVE  /\ IsFiniteSet(InFlight(h)) /\ Cardinality(InFlight(h)) \in Nat
         /\ Cardinality(InFlight(h)) <= Cardinality(Callers)
         /\ Cardinality(Callers) \in Nat
BY AutoApprovalAssumption, FS_Subset, FS_CardinalityType DEF InFlight

\* A call between its check and its count that is turned away frees its place.
LEMMA InFlightShrinks ==
  ASSUME TypeOK, NEW c \in Callers, pc[c] # "idle",
         pc' = [pc EXCEPT ![c] = "idle"], UNCHANGED checkedAt,
         NEW h \in Hours
  PROVE  /\ Cardinality(InFlight(h)') \in Nat
         /\ h = checkedAt[c] => Cardinality(InFlight(h)') = Cardinality(InFlight(h)) - 1
         /\ h # checkedAt[c] => InFlight(h)' = InFlight(h)
<1>1. CASE h = checkedAt[c]
  <2>1. c \in InFlight(h) /\ InFlight(h)' = InFlight(h) \ {c}
    BY <1>1 DEF InFlight, TypeOK
  <2> QED
    BY <1>1, <2>1, InFlightFinite, FS_RemoveElement, FS_CardinalityType
<1>2. CASE h # checkedAt[c]
  <2>1. InFlight(h)' = InFlight(h)
    BY <1>2 DEF InFlight, TypeOK
  <2> QED
    BY <1>2, <2>1, InFlightFinite
<1> QED
  BY <1>1, <1>2

\* What was checked in an hour, as the operators of the invariant see it.
LEMMA CapCheckStep ==
  ASSUME CapInv, NEW c \in Callers, NEW k \in Keys, CapCheck(c, k)
  PROVE  CapInv'
<1> USE AutoApprovalAssumption DEF Hours
<1>1. TypeOK'
  <2>1. hour' \in Hours /\ hourSlot' \in 0..LastHour /\ counter' \in Nat
    BY DEF CapInv, TypeOK, CapCheck
  <2>2. pc' \in [Callers -> {"idle", "checked", "enough"}] /\ key' \in [Callers -> Keys]
    BY DEF CapInv, TypeOK, CapCheck
  <2>3. checkedAt' \in [Callers -> Hours]
    BY DEF CapInv, TypeOK, CapCheck
  <2>4. UNCHANGED <<history, manual, granted>>
    BY DEF CapCheck
  <2> QED
    BY <2>1, <2>2, <2>3, <2>4 DEF CapInv, TypeOK
<1>2. (hourSlot <= hour)'
  BY DEF CapInv, TypeOK, CapCheck
<1>3. (\A j \in Keys, h \in Hours : history[j][h] <= manual[j][h])'
  BY DEF CapInv, CapCheck
<1>4. \A h \in Hours : h # hour => InFlight(h)' \subseteq InFlight(h)
  BY DEF CapInv, TypeOK, CapCheck, InFlight
<1>a. /\ hourSlot' = hour /\ counter' = IF hourSlot = hour THEN counter ELSE 0
      /\ counter' < MaxAutoApprovals /\ UNCHANGED granted
  BY DEF CapCheck
<1>5. granted[hour] <= counter' /\ counter' <= MaxAutoApprovals - 1 /\ counter' \in Nat
  <2>1. CASE hourSlot = hour
    BY <1>a, <2>1, Numbers
  <2>2. CASE hourSlot # hour
    <3>1. hour > hourSlot
      BY <2>2, Numbers
    <3> QED
      BY <1>a, <2>2, <3>1, Numbers
  <2> QED
    BY <2>1, <2>2
<1>6. ASSUME NEW h \in Hours, h > hourSlot' PROVE granted'[h] = 0 /\ InFlight(h)' = {}
  <2>1. h # hour /\ h > hourSlot
    BY <1>a, <1>6, Numbers
  <2> QED
    BY <1>a, <1>4, <2>1, Numbers
<1>7. ASSUME NEW h \in Hours, h = hourSlot' PROVE granted'[h] <= counter'
  BY <1>5, <1>7, <1>a
<1>8. ASSUME NEW h \in Hours
      PROVE  granted'[h] + Cardinality(InFlight(h)') <= MaxAutoApprovals + Cardinality(Callers) - 1
  <2>1. InFlight(h)' \subseteq Callers
    BY DEF InFlight
  <2>2. /\ Cardinality(InFlight(h)') \in Nat /\ Cardinality(InFlight(h)') <= Cardinality(Callers)
        /\ Cardinality(Callers) \in Nat
    BY <2>1, FS_Subset, FS_CardinalityType
  <2>3. CASE h = hour
    BY <1>a, <1>5, <2>2, <2>3, Numbers
  <2>4. CASE h # hour
    <3>1. Cardinality(InFlight(h)') <= Cardinality(InFlight(h))
      BY <1>4, <2>4, InFlightFinite, FS_Subset
    <3>2. granted'[h] = granted[h] /\ granted[h] \in Nat
      BY <1>a, Numbers
    <3> QED
      BY <2>2, <3>1, <3>2, InFlightFinite DEF CapInv
  <2> QED
    BY <2>3, <2>4
<1> QED
  BY <1>1, <1>2, <1>3, <1>6, <1>7, <1>8 DEF CapInv

\* A manual approval touches the two histories only.
LEMMA RecordStep ==
  ASSUME CapInv, NEW k \in Keys, RecordManualApproval(k)
  PROVE  CapInv'
<1> USE AutoApprovalAssumption DEF Hours
<1> DEFINE kept == [h \in Hours |-> CASE h = hour -> history[k][h] + 1
                                      [] h # hour /\ InWindow(h) -> history[k][h]
                                      [] OTHER -> 0]
<1>1. /\ manual[k][hour] < MaxManual /\ manual' = [manual EXCEPT ![k][hour] = @ + 1]
      /\ history' = [history EXCEPT ![k] = kept]
      /\ UNCHANGED <<hour, counter, hourSlot, pc, key, checkedAt, granted>>
  BY DEF RecordManualApproval, Append
<1>2. \A h \in Hours : /\ history[k][h] \in Nat /\ manual[k][h] \in 0..MaxManual
                       /\ history[k][h] <= manual[k][h]
  <2> SUFFICES ASSUME NEW h \in Hours
               PROVE  /\ history[k][h] \in Nat /\ manual[k][h] \in 0..MaxManual
                      /\ history[k][h] <= manual[k][h]
    OBVIOUS
  <2>1. history[k] \in [Hours -> 0..MaxManual] /\ manual[k] \in [Hours -> 0..MaxManual]
    BY DEF CapInv, TypeOK
  <2>2. history[k][h] <= manual[k][h]
    BY DEF CapInv
  <2> QED
    BY <2>1, <2>2
<1>3. ASSUME NEW h \in Hours
      PROVE  /\ manual'[k][h] = IF h = hour THEN manual[k][h] + 1 ELSE manual[k][h]
             /\ kept[h] \in {0, history[k][h], IF h = hour THEN history[k][h] + 1 ELSE 0}
  <2>1. manual \in [Keys -> [Hours -> 0..MaxManual]]
    BY DEF CapInv, TypeOK
  <2>2. CASE h = hour
    BY <1>1, <2>1, <2>2
  <2>3. CASE h # hour
    BY <1>1, <2>1, <2>3
  <2> QED
    BY <2>2, <2>3
<1> HIDE DEF kept
<1>4. \A h \in Hours : kept[h] \in 0..MaxManual /\ manual'[k][h] \in 0..MaxManual /\ kept[h] <= manual'[k][h]
  <2> SUFFICES ASSUME NEW h \in Hours
               PROVE  kept[h] \in 0..MaxManual /\ manual'[k][h] \in 0..MaxManual /\ kept[h] <= manual'[k][h]
    OBVIOUS
  <2>1. CASE h = hour
    BY <1>1, <1>2, <1>3, <2>1
  <2>2. CASE h # hour
    BY <1>2, <1>3, <2>2
  <2> QED
    BY <2>1, <2>2
<1>5. kept \in [Hours -> 0..MaxManual]
  <2>1. kept = [h \in Hours |-> kept[h]]
    BY DEF kept
  <2> QED
    BY <1>4, <2>1
<1>6. TypeOK'
  <2>1. manual' \in [Keys -> [Hours -> 0..MaxManual]]
    BY <1>1, <1>4 DEF CapInv, TypeOK
  <2>2. history' \in [Keys -> [Hours -> 0..MaxManual]]
    BY <1>1, <1>5 DEF CapInv, TypeOK
  <2> QED
    BY <1>1, <2>1, <2>2 DEF CapInv, TypeOK
<1>7. ASSUME NEW j \in Keys, NEW h \in Hours PROVE history'[j][h] <= manual'[j][h]
  BY <1>1, <1>4 DEF CapInv, TypeOK
<1>8. \A h : InFlight(h)' = InFlight(h)
  BY <1>1 DEF InFlight
<1> QED
  BY <1>1, <1>6, <1>7, <1>8 DEF CapInv

\* Counting an auto-approval moves it from the calls in flight to the granted.
LEMMA GrantStep ==
  ASSUME CapInv, NEW c \in Callers, Grant(c)
  PROVE  CapInv'
<1> USE AutoApprovalAssumption DEF Hours
<1>1. TypeOK'
  <2>1. pc' \in [Callers -> {"idle", "checked", "enough"}] /\ counter' \in Nat
    BY DEF CapInv, TypeOK, Grant
  <2>2. granted' \in [Hours -> Nat]
    <3>1. granted \in [Hours -> Nat] /\ checkedAt[c] \in Hours
      BY DEF CapInv, TypeOK
    <3>2. granted' = [granted EXCEPT ![checkedAt[c]] = granted[checkedAt[c]] + 1]
      BY DEF Grant
    <3>3. granted[checkedAt[c]] + 1 \in Nat
      BY <3>1
    <3> HIDE DEF Hours
    <3> QED
      BY <3>1, <3>2, <3>3
  <2>3. UNCHANGED <<hour, history, hourSlot, key, checkedAt, manual>>
    BY DEF Grant
  <2> QED
    BY <2>1, <2>2, <2>3 DEF CapInv, TypeOK
<1>2. pc[c] # "idle" /\ checkedAt[c] \in Hours /\ c \in InFlight(checkedAt[c])
  BY DEF Grant, CapInv, TypeOK, InFlight
<1>3. ~(checkedAt[c] > hourSlot)
  BY <1>2 DEF CapInv
<1>4. ASSUME NEW h \in Hours
      PROVE  /\ granted'[h] = IF h = checkedAt[c] THEN granted[h] + 1 ELSE granted[h]
             /\ granted[h] \in Nat
  BY <1>2 DEF Grant, CapInv, TypeOK
<1>5. ASSUME NEW h \in Hours
      PROVE  /\ Cardinality(InFlight(h)') \in Nat
             /\ h = checkedAt[c] => Cardinality(InFlight(h)') = Cardinality(InFlight(h)) - 1
             /\ h # checkedAt[c] => InFlight(h)' = InFlight(h)
  BY <1>2, InFlightShrinks DEF Grant, CapInv
<1>a. counter' = counter + 1 /\ hourSlot' = hourSlot
  BY DEF Grant
<1>6. ASSUME NEW h \in Hours, h > hourSlot' PROVE granted'[h] = 0 /\ InFlight(h)' = {}
  BY <1>a, <1>3, <1>4, <1>5, <1>6, Numbers
<1>7. ASSUME NEW h \in Hours, h = hourSlot' PROVE granted'[h] <= counter'
  BY <1>a, <1>4, <1>7, Numbers
<1>8. ASSUME NEW h \in Hours
      PROVE  granted'[h] + Cardinality(InFlight(h)') <= MaxAutoApprovals + Cardinality(Callers) - 1
  BY <1>4, <1>5, InFlightFinite DEF CapInv
<1> QED
  BY <1>1, <1>6, <1>7, <1>8 DEF CapInv, Grant

\* A call with too few manual approvals leaves; one with enough stays in flight.
LEMMA CountStep ==
  ASSUME CapInv, NEW c \in Callers, CountRecent(c)
  PROVE  CapInv'
<1> USE AutoApprovalAssumption DEF Hours
<1>1. PICK where \in {"idle", "enough"} : pc' = [pc EXCEPT ![c] = where]
  BY DEF CountRecent
<1>2. /\ pc[c] = "checked"
      /\ UNCHANGED <<hour, history, counter, hourSlot, key, checkedAt, granted, manual>>
  BY DEF CountRecent
<1>3. TypeOK'
  BY <1>1, <1>2 DEF CapInv, TypeOK
<1>4. ASSUME NEW h \in Hours
      PROVE  /\ Cardinality(InFlight(h)') \in Nat /\ InFlight(h)' \subseteq InFlight(h)
             /\ Cardinality(InFlight(h)') <= Cardinality(InFlight(h))
  <2>1. InFlight(h)' \subseteq InFlight(h)
    BY <1>1, <1>2 DEF InFlight, CapInv, TypeOK
  <2> QED
    BY <2>1, InFlightFinite, FS_Subset, FS_CardinalityType
<1>5. ASSUME NEW h \in Hours
      PROVE  granted'[h] + Cardinality(InFlight(h)') <= MaxAutoApprovals + Cardinality(Callers) - 1
  <2>1. granted'[h] = granted[h] /\ granted[h] \in Nat
    BY <1>2 DEF CapInv, TypeOK
  <2> QED
    BY <1>4, <2>1, InFlightFinite DEF CapInv
<1>6. ASSUME NEW h \in Hours, h > hourSlot' PROVE granted'[h] = 0 /\ InFlight(h)' = {}
  BY <1>2, <1>4, <1>6 DEF CapInv
<1> QED
  BY <1>2, <1>3, <1>5, <1>6 DEF CapInv

\* The clock only moves forward.
LEMMA TickStep == CapInv /\ Tick => CapInv'
<1> SUFFICES ASSUME CapInv, Tick PROVE CapInv'
  OBVIOUS
<1>1. \A h : InFlight(h)' = InFlight(h)
  BY DEF Tick, InFlight
<1>2. hour' \in Hours /\ (hourSlot <= hour)'
  BY AutoApprovalAssumption, Numbers DEF Tick, Hours
<1>3. TypeOK'
  BY <1>2 DEF CapInv, TypeOK, Tick
<1> QED
  BY <1>1, <1>2, <1>3 DEF CapInv, Tick

\* The inductive invariant behind the bound on the overshoot.
THEOREM CapInvariance == Spec => []CapInv
<1>1. Init => CapInv
  <2> SUFFICES ASSUME Init PROVE CapInv
    OBVIOUS
  <2> USE AutoApprovalAssumption DEF Hours
  <2>1. \A h : InFlight(h) = {}
    BY DEF Init, InFlight
  <2>2. TypeOK
    BY DEF Init, TypeOK
  <2>3. Cardinality({}) = 0 /\ Cardinality(Callers) \in Nat \ {0}
    BY FS_EmptySet, FS_CardinalityType
  <2>4. \A h \in Hours : granted[h] + Cardinality(InFlight(h)) <= MaxAutoApprovals + Cardinality(Callers) - 1
    <3>1. \A h \in Hours : granted[h] = 0
      BY DEF Init
    <3> QED
      BY <2>1, <2>3, <3>1
  <2> QED
    BY <2>1, <2>2, <2>4 DEF Init, CapInv
<1>2. CapInv /\ [Next]_vars => CapInv'
  <2> SUFFICES ASSUME CapInv, [Next]_vars PROVE CapInv'
    OBVIOUS
  <2>1. CASE UNCHANGED vars
    <3>1. \A h : InFlight(h)' = InFlight(h)
      BY <2>1 DEF vars, InFlight
    <3>2. TypeOK'
      BY <2>1 DEF vars, CapInv, TypeOK
    <3> QED
      BY <2>1, <3>1, <3>2 DEF vars, CapInv
  <2> QED
    BY <2>1, TickStep, RecordStep, CapCheckStep, CountStep, GrantStep DEF Next
<1> QED
  BY <1>1, <1>2, PTL DEF Spec

\* Whatever the interleaving and the turn of the hour, the auto-approvals
\* checked in one hour exceed the cap by the other concurrent calls at most;
\* a single caller never exceeds it.
THEOREM OvershootIsBounded == Spec => []OvershootBounded
<1>1. CapInv => OvershootBounded
  <2> SUFFICES ASSUME CapInv, NEW h \in Hours
               PROVE  granted[h] <= MaxAutoApprovals + Cardinality(Callers) - 1
    BY DEF OvershootBounded
  <2> QED
    BY InFlightFinite, AutoApprovalAssumption DEF CapInv, TypeOK
<1> QED
  BY <1>1, CapInvariance, PTL

=============================================================================
