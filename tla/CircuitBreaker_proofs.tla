------------------------ MODULE CircuitBreaker_proofs ------------------------
(* Proofs about CircuitBreaker, for any calls, threshold and duration. *)
EXTENDS CircuitBreaker, TLAPS

-----------------------------------------------------------------------------
\* Inductive: trials and openings are recorded in the order of the clock.
ClockOrder == /\ lastTrial <= now
              /\ state = "open" => lastTrial <= openedAt

BreakerInv == TypeOK /\ ClosedBelowThreshold /\ HalfOpenHasTrial /\ ClockOrder

\* A new breaker is closed and nobody has tried.
LEMMA InitBreakerInv == Init => BreakerInv
<1> SUFFICES ASSUME Init PROVE BreakerInv
  OBVIOUS
<1>1. TypeOK
  <2>1. trialInFlight \in BOOLEAN
    BY Zenon DEF Init
  <2>2. QED BY <2>1, BreakerAssumption DEF Init, TypeOK
<1>2. ClosedBelowThreshold
  BY BreakerAssumption DEF Init, ClosedBelowThreshold, TypeOK
<1>3. HalfOpenHasTrial
  BY BreakerAssumption DEF Init, HalfOpenHasTrial, TypeOK
<1>4. ClockOrder
  BY BreakerAssumption DEF Init, ClockOrder, TypeOK
<1>5. QED BY <1>1, <1>2, <1>3, <1>4 DEF BreakerInv

\* One step per operation of the breaker, the clock and the stuttering steps.
LEMMA NextBreakerInv ==
  ASSUME BreakerInv, [Next]_vars
  PROVE  BreakerInv'
<1> USE BreakerAssumption DEF BreakerInv, breaker
<1>1. ASSUME NEW c \in Calls, AllowClosed(c) PROVE BreakerInv'
  <2>1. TypeOK'
    BY <1>1 DEF AllowClosed, TypeOK
  <2>2. ClosedBelowThreshold'
    BY <1>1 DEF AllowClosed, ClosedBelowThreshold, TypeOK
  <2>3. HalfOpenHasTrial'
    BY <1>1 DEF AllowClosed, HalfOpenHasTrial, TypeOK
  <2>4. ClockOrder'
    BY <1>1 DEF AllowClosed, ClockOrder, TypeOK
  <2>5. QED BY <2>1, <2>2, <2>3, <2>4 DEF BreakerInv
<1>2. ASSUME NEW c \in Calls, AllowTrial(c) PROVE BreakerInv'
  <2>1. TypeOK'
    BY <1>2 DEF AllowTrial, TrialDue, TypeOK
  <2>2. ClosedBelowThreshold'
    BY <1>2 DEF AllowTrial, TrialDue, ClosedBelowThreshold, TypeOK
  <2>3. HalfOpenHasTrial'
    BY <1>2 DEF AllowTrial, TrialDue, HalfOpenHasTrial, TypeOK
  <2>4. ClockOrder'
    BY <1>2 DEF AllowTrial, TrialDue, ClockOrder, TypeOK
  <2>5. QED BY <2>1, <2>2, <2>3, <2>4 DEF BreakerInv
<1>3. ASSUME NEW c \in Calls, RecordSuccess(c) PROVE BreakerInv'
  <2>1. TypeOK'
    BY <1>3 DEF RecordSuccess, TypeOK
  <2>2. ClosedBelowThreshold'
    BY <1>3 DEF RecordSuccess, ClosedBelowThreshold, TypeOK
  <2>3. HalfOpenHasTrial'
    <3>1. ~trialInFlight' /\ state' # "halfOpen"
      BY <1>3 DEF RecordSuccess
    <3>2. QED BY <3>1 DEF HalfOpenHasTrial
  <2>4. ClockOrder'
    BY <1>3 DEF RecordSuccess, ClockOrder, TypeOK
  <2>5. QED BY <2>1, <2>2, <2>3, <2>4 DEF BreakerInv
<1>4. ASSUME NEW c \in Calls, RecordFailure(c) PROVE BreakerInv'
  <2>1. TypeOK'
    <3>1. trialInFlight' \in BOOLEAN
      BY <1>4, Zenon DEF RecordFailure, Failure, AtThreshold
    <3>2. consecutiveFails' \in Nat /\ call' \in [Calls -> {"idle", "normal", "trial"}]
          /\ UNCHANGED <<now, lastTrial>>
      BY <1>4 DEF RecordFailure, Failure, AtThreshold, TypeOK
    <3>3. state' \in {"closed", "open", "halfOpen"} /\ openedAt' \in Nat
      BY <1>4 DEF RecordFailure, Failure, AtThreshold, TypeOK
    <3>4. QED BY <3>1, <3>2, <3>3 DEF TypeOK
  <2>2. ClosedBelowThreshold'
    BY <1>4 DEF RecordFailure, Failure, AtThreshold, ClosedBelowThreshold, TypeOK
  <2>3. HalfOpenHasTrial'
    BY <1>4 DEF RecordFailure, Failure, AtThreshold, HalfOpenHasTrial, TypeOK
  <2>4. ClockOrder'
    BY <1>4 DEF RecordFailure, Failure, AtThreshold, ClockOrder, TypeOK
  <2>5. QED BY <2>1, <2>2, <2>3, <2>4 DEF BreakerInv
<1>5. CASE Tick
  <2>1. TypeOK'
    BY <1>5 DEF Tick, TypeOK
  <2>2. ClosedBelowThreshold'
    BY <1>5 DEF Tick, ClosedBelowThreshold, TypeOK
  <2>3. HalfOpenHasTrial'
    BY <1>5 DEF Tick, HalfOpenHasTrial, TypeOK
  <2>4. ClockOrder'
    BY <1>5 DEF Tick, ClockOrder, TypeOK
  <2>5. QED BY <2>1, <2>2, <2>3, <2>4 DEF BreakerInv
<1>6. CASE UNCHANGED vars
  BY <1>6 DEF vars, TypeOK, ClosedBelowThreshold, HalfOpenHasTrial, ClockOrder
<1>7. QED
  BY <1>1, <1>2, <1>3, <1>4, <1>5, <1>6 DEF Next, Finish, Refuse

\* The breaker's inductive invariant holds in every reachable state.
LEMMA BreakerInvHolds == Spec => []BreakerInv
<1>1. BreakerInv /\ [Next]_vars => BreakerInv'
  BY NextBreakerInv
<1>2. QED
  BY <1>1, InitBreakerInv, PTL DEF Spec

\* Every variable keeps its shape.
THEOREM BreakerTypeCorrect == Spec => []TypeOK
BY BreakerInvHolds, PTL DEF BreakerInv

\* Calls pass freely exactly below the threshold of recorded failures
\* (allow, recordSuccess, recordFailure).
THEOREM ClosedBelowThresholdHolds == Spec => []ClosedBelowThreshold
BY BreakerInvHolds, PTL DEF BreakerInv

\* Half-open always has a running trial that will move it on, so the refusal in
\* allow's half-open case is never permanent.
THEOREM HalfOpenHasTrialHolds == Spec => []HalfOpenHasTrial
BY BreakerInvHolds, PTL DEF BreakerInv

\* Trials of a failing provider are at least the open duration apart, whatever
\* late results are recorded in between.
THEOREM TrialsSpacedHolds == Spec => TrialsSpaced
<1>1. BreakerInv /\ [Next]_vars =>
        [(\E c \in Calls : call[c] # "trial" /\ call'[c] = "trial")
           => now - lastTrial >= OpenDuration]_vars
  <2> SUFFICES ASSUME BreakerInv, [Next]_vars, NEW c \in Calls, call[c] # "trial", call'[c] = "trial"
               PROVE  now - lastTrial >= OpenDuration
    OBVIOUS
  <2> USE BreakerAssumption DEF BreakerInv, TypeOK
  <2>1. PICK d \in Calls : AllowTrial(d)
    BY DEF Next, AllowClosed, Refuse, Finish, RecordSuccess, RecordFailure, Failure, Tick, vars
  <2>2. state = "open" /\ now - openedAt >= OpenDuration
    BY <2>1 DEF AllowTrial, TrialDue, HalfOpenHasTrial
  <2>3. QED
    BY <2>2 DEF ClockOrder
<1>2. QED
  BY <1>1, BreakerInvHolds, PTL DEF Spec, TrialsSpaced
=============================================================================
