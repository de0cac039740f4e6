------------------------ MODULE CircuitBreakerProofs ------------------------
(***************************************************************************)
(* For every set of request threads, every threshold and every recovery    *)
(* timeout: the invariants of CircuitBreaker hold, and the breaker         *)
(* implements CircuitStateMachine.                                         *)
(***************************************************************************)
EXTENDS CircuitBreaker, TLAPS

(* The three invariants need one another: only the type says that a count  *)
(* below the threshold is a number below it, and only ClosedBelowThreshold *)
(* that no failure is counted past the threshold while closed.             *)
Inv == TypeOK /\ ClosedBelowThreshold /\ TimerArmed

\* What the state property returns is a circuit state, it leaves closed and
\* half-open breakers alone, and it changes an open one to half open only.
LEMMA TimedStateCases ==
  ASSUME TypeOK
  PROVE  /\ TimedState \in CircuitState
         /\ state # "open" => TimedState = state
         /\ TimedState \in {state, "half_open"}
         /\ TimedState = "closed" <=> state = "closed"
  BY DEF TypeOK, TimedState, CircuitState

\* One more failure, counted up to the threshold.
LEMMA CountFailureBounds ==
  ASSUME TypeOK
  PROVE  /\ CountFailure \in 0..FailureThreshold
         /\ failure_count < FailureThreshold => CountFailure = failure_count + 1
  BY BreakerAssumption DEF TypeOK, CountFailure

\* The invariant holds when a breaker is created.
LEMMA InvInit == Init => Inv
  BY BreakerAssumption
  DEF Init, Inv, TypeOK, CircuitState, ClosedBelowThreshold, TimerArmed

\* Every method of the breaker, and every step of its callers, keeps it.
LEMMA InvNext == Inv /\ [Next]_vars => Inv'
<1> SUFFICES ASSUME Inv, [Next]_vars PROVE Inv'
  OBVIOUS
<1> USE BreakerAssumption
<1>1. CASE ReadState
  BY <1>1, TimedStateCases
  DEF ReadState, Inv, TypeOK, ClosedBelowThreshold, TimerArmed
<1>2. CASE Reset
  BY <1>2 DEF Reset, Inv, TypeOK, CircuitState, ClosedBelowThreshold, TimerArmed
<1>3. CASE Tick
  BY <1>3 DEF Tick, Inv, TypeOK, ClosedBelowThreshold, TimerArmed
<1>4. ASSUME NEW w \in Workers, AllowRequest(w) PROVE Inv'
  BY <1>4, TimedStateCases
  DEF AllowRequest, Inv, TypeOK, ClosedBelowThreshold, TimerArmed
<1>5. ASSUME NEW w \in Workers, Decide(w) PROVE Inv'
  BY <1>5 DEF Decide, breaker, Inv, TypeOK, ClosedBelowThreshold, TimerArmed
<1>6. ASSUME NEW w \in Workers, RecordSuccess(w) PROVE Inv'
  BY <1>6
  DEF RecordSuccess, Report, Inv, TypeOK, CircuitState, ClosedBelowThreshold,
      TimerArmed
<1>7. ASSUME NEW w \in Workers, RecordFailure(w) PROVE Inv'
  BY <1>7, CountFailureBounds
  DEF RecordFailure, Report, Inv, TypeOK, CircuitState, ClosedBelowThreshold,
      TimerArmed
<1>8. ASSUME NEW w \in Workers, Abandon(w) PROVE Inv'
  BY <1>8
  DEF Abandon, Report, breaker, Inv, TypeOK, ClosedBelowThreshold, TimerArmed
<1>9. CASE UNCHANGED vars
  BY <1>9 DEF vars, Inv, TypeOK, ClosedBelowThreshold, TimerArmed
<1> QED
  BY <1>1, <1>2, <1>3, <1>4, <1>5, <1>6, <1>7, <1>8, <1>9 DEF Next

\* The breaker's fields always hold values of their types.
THEOREM TypeCorrect == Spec => []TypeOK
<1>1. Inv => TypeOK
  BY DEF Inv
<1> QED
  BY <1>1, InvInit, InvNext, PTL DEF Spec

\* record_failure never leaves a breaker closed at or over its threshold.
THEOREM BelowThreshold == Spec => []ClosedBelowThreshold
<1>1. Inv => ClosedBelowThreshold
  BY DEF Inv
<1> QED
  BY <1>1, InvInit, InvNext, PTL DEF Spec

\* No open or half-open breaker is without the time of a failure.
THEOREM OpenIsTimed == Spec => []TimerArmed
<1>1. Inv => TimerArmed
  BY DEF Inv
<1> QED
  BY <1>1, InvInit, InvNext, PTL DEF Spec

----------------------------------------------------------------------------
\* A new breaker is a new machine, which has admitted nobody.
LEMMA MachineStart == Init => Machine!MachineInit
  BY DEF Init, Machine!MachineInit, Admitted

\* A worker whose call ends was admitted, and is the only one no longer so.
LEMMA ReportEnds ==
  ASSUME TypeOK, NEW w \in Workers, NEW outcome, Report(w, outcome)
  PROVE  Machine!Ends(w, outcome)
  BY DEF TypeOK, Report, Admitted, Machine!Ends

\* A status poll is the machine's expiry, or invisible.
LEMMA ReadStateMoves ==
  ASSUME TypeOK, ReadState
  PROVE  [Machine!MachineNext]_(Machine!machineVars)
<1>1. Admitted' = Admitted /\ event' = event
  BY DEF ReadState, Admitted
<1>2. CASE TimedState = state
  BY <1>1, <1>2 DEF ReadState, Machine!machineVars
<1>3. CASE TimedState # state
  <2>1. state = "open" /\ state' = "half_open"
    BY <1>3 DEF TimedState, ReadState
  <2>2. Machine!Expire
    BY <1>1, <2>1 DEF ReadState, Machine!Expire
  <2> QED
    BY <2>2 DEF Machine!MachineNext
<1> QED
  BY <1>2, <1>3

\* A request is refused, admitted, or admitted as it finds the timer run out.
LEMMA AllowRequestMoves ==
  ASSUME TypeOK, NEW w \in Workers, AllowRequest(w)
  PROVE  [Machine!MachineNext]_(Machine!machineVars)
<1>1. /\ w \notin Admitted
      /\ Admitted' = IF TimedState = "open" THEN Admitted ELSE Admitted \cup {w}
  BY DEF TypeOK, AllowRequest, Admitted
<1>2. /\ state' = TimedState
      /\ UNCHANGED <<failure_count, event>>
  BY DEF AllowRequest
<1>3. CASE state # "open"
  <2>1. TimedState = state
    BY <1>3, TimedStateCases
  <2>2. Machine!Admit(w)
    BY <1>1, <1>2, <1>3, <2>1 DEF Machine!Admit
  <2> QED
    BY <2>2 DEF Machine!MachineNext
<1>4. CASE state = "open" /\ TimedState = "open"
  BY <1>1, <1>2, <1>4 DEF Machine!machineVars
<1>5. CASE state = "open" /\ TimedState # "open"
  <2>1. TimedState = "half_open"
    BY <1>5, TimedStateCases
  <2>2. Machine!Probe(w)
    BY <1>1, <1>2, <1>5, <2>1 DEF Machine!Probe
  <2> QED
    BY <2>2 DEF Machine!MachineNext
<1> QED
  BY <1>3, <1>4, <1>5

\* A success forgives, restores or comes late.
LEMMA RecordSuccessMoves ==
  ASSUME Inv, NEW w \in Workers, RecordSuccess(w)
  PROVE  Machine!MachineNext
<1>1. Machine!Ends(w, "success")
  BY ReportEnds DEF Inv, RecordSuccess
<1>2. CASE state = "closed"
  <2>1. Machine!Forgive(w)
    BY <1>1, <1>2 DEF RecordSuccess, Machine!Forgive
  <2> QED
    BY <2>1 DEF Machine!MachineNext
<1>3. CASE state = "half_open"
  <2>1. Machine!Restore(w)
    BY <1>1, <1>3 DEF RecordSuccess, Machine!Restore
  <2> QED
    BY <2>1 DEF Machine!MachineNext
<1>4. CASE state = "open"
  <2>1. Machine!Late(w)
    BY <1>1, <1>4 DEF RecordSuccess, Machine!Late
  <2> QED
    BY <2>1 DEF Machine!MachineNext
<1> QED
  BY <1>2, <1>3, <1>4 DEF Inv, TypeOK, CircuitState

\* A failure is a strike, trips the breaker, opens it again or comes late.
LEMMA RecordFailureMoves ==
  ASSUME Inv, NEW w \in Workers, RecordFailure(w)
  PROVE  Machine!MachineNext
<1> USE BreakerAssumption
<1>1. Machine!Ends(w, "failure")
  BY ReportEnds DEF Inv, RecordFailure
<1>2. CASE state = "closed"
  <2>1. /\ failure_count \in 0..FailureThreshold
        /\ failure_count < FailureThreshold
        /\ failure_count' = failure_count + 1
        /\ state' = IF failure_count + 1 >= FailureThreshold
                    THEN "open" ELSE "closed"
    BY <1>2, CountFailureBounds
    DEF RecordFailure, Inv, TypeOK, ClosedBelowThreshold
  <2>2. CASE failure_count + 1 < FailureThreshold
    <3>1. Machine!Strike(w)
      BY <1>1, <1>2, <2>1, <2>2 DEF Machine!Strike
    <3> QED
      BY <3>1 DEF Machine!MachineNext
  <2>3. CASE failure_count + 1 = FailureThreshold
    <3>1. Machine!Trip(w)
      BY <1>1, <1>2, <2>1, <2>3 DEF Machine!Trip
    <3> QED
      BY <3>1 DEF Machine!MachineNext
  <2> QED
    BY <2>1, <2>2, <2>3
<1>3. CASE state = "half_open"
  <2>1. Machine!Reopen(w)
    BY <1>1, <1>3 DEF RecordFailure, Machine!Reopen
  <2> QED
    BY <2>1 DEF Machine!MachineNext
<1>4. CASE state = "open"
  <2>1. Machine!Late(w)
    BY <1>1, <1>4 DEF RecordFailure, Machine!Late
  <2> QED
    BY <2>1 DEF Machine!MachineNext
<1> QED
  BY <1>2, <1>3, <1>4 DEF Inv, TypeOK, CircuitState

\* Every step of the breaker and its callers is a step of the machine, or is
\* invisible to it.
LEMMA MachineStep ==
  Inv /\ [Next]_vars => [Machine!MachineNext]_(Machine!machineVars)
<1> SUFFICES ASSUME Inv, [Next]_vars
             PROVE  [Machine!MachineNext]_(Machine!machineVars)
  OBVIOUS
<1> USE DEF Inv
<1>1. CASE ReadState
  BY <1>1, ReadStateMoves
<1>2. CASE Reset
  <2>1. Machine!ForceClosed
    BY <1>2 DEF Reset, Admitted, Machine!ForceClosed
  <2> QED
    BY <2>1 DEF Machine!MachineNext
<1>3. CASE Tick
  BY <1>3 DEF Tick, Admitted, Machine!machineVars
<1>4. ASSUME NEW w \in Workers, AllowRequest(w)
      PROVE  [Machine!MachineNext]_(Machine!machineVars)
  BY <1>4, AllowRequestMoves
<1>5. ASSUME NEW w \in Workers, Decide(w)
      PROVE  [Machine!MachineNext]_(Machine!machineVars)
  <2>1. Admitted' = Admitted
    BY <1>5 DEF Decide, Admitted, TypeOK, CircuitState
  <2> QED
    BY <1>5, <2>1 DEF Decide, breaker, Machine!machineVars
<1>6. ASSUME NEW w \in Workers, RecordSuccess(w) PROVE Machine!MachineNext
  BY <1>6, RecordSuccessMoves
<1>7. ASSUME NEW w \in Workers, RecordFailure(w) PROVE Machine!MachineNext
  BY <1>7, RecordFailureMoves
<1>8. ASSUME NEW w \in Workers, Abandon(w) PROVE Machine!MachineNext
  <2>1. Machine!Drop(w)
    BY <1>8, ReportEnds DEF Abandon, breaker, Machine!Drop
  <2> QED
    BY <2>1 DEF Machine!MachineNext
<1>9. CASE UNCHANGED vars
  BY <1>9 DEF vars, Admitted, Machine!machineVars
<1> QED
  BY <1>1, <1>2, <1>3, <1>4, <1>5, <1>6, <1>7, <1>8, <1>9 DEF Next

\* CircuitBreaker implements CircuitStateMachine, however many threads share
\* the breaker, however stale their admissions and however late they report:
\* nobody is admitted while it is open, it trips on the failure that completes
\* a run of them, and only the timer or reset takes it out of open.
THEOREM Refinement == Spec => ImplementsMachine
<1> QED
  BY InvInit, InvNext, MachineStart, MachineStep, PTL
  DEF Spec, ImplementsMachine, Machine!MachineSpec
=============================================================================
