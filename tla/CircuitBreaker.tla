--------------------------- MODULE CircuitBreaker ---------------------------
(***************************************************************************)
(* toolkit_extensions/circuit_breaker.py: one provider's breaker, shared   *)
(* by the gateway's request threads.                                       *)
(*                                                                         *)
(* Every method takes the breaker's lock, so each is one step, except      *)
(* allow_request: it reads the `state` property under the lock and decides *)
(* after the lock is released, so it is two steps.  A caller then uses the *)
(* provider and reports the outcome, as the docstring of                   *)
(* CircuitBreakerRegistry shows; the report may come long after the        *)
(* breaker has changed state.                                              *)
(*                                                                         *)
(* The wall clock appears only as time.time() - _last_failure_time, and    *)
(* only in a comparison with recovery_timeout: since_failure is that       *)
(* difference, saturated at RecoveryTimeout.                               *)
(***************************************************************************)
EXTENDS Naturals, FiniteSets

CONSTANTS
  Workers,           \* the request threads that share the breaker
  FailureThreshold,  \* failure_threshold
  RecoveryTimeout,   \* recovery_timeout, in ticks of the clock
  NoFailure          \* _last_failure_time is None

ASSUME BreakerAssumption ==
  /\ FailureThreshold \in Nat \ {0}
  /\ RecoveryTimeout \in Nat
  /\ NoFailure \notin Nat

VARIABLES
  state,          \* _state
  failure_count,  \* _failure_count
  since_failure,  \* time.time() - _last_failure_time, or NoFailure
  pc,             \* where each worker is: idle, checked, calling
  seen,           \* what the state property returned to each worker
  event           \* history: the last outcome or reset the breaker was told
                  \* of, read by no guard

breaker == <<state, failure_count, since_failure>>
vars    == <<state, failure_count, since_failure, pc, seen, event>>

CircuitState == {"closed", "open", "half_open"}

\* The values the fields of CircuitBreaker can hold.  Failures past the
\* threshold are counted by the code and compared with nothing:
\* FailureThreshold is where the model stops counting.
TypeOK ==
  /\ state \in CircuitState
  /\ failure_count \in 0..FailureThreshold
  /\ since_failure \in 0..RecoveryTimeout \cup {NoFailure}
  /\ pc \in [Workers -> {"idle", "checked", "calling"}]
  /\ seen \in [Workers -> CircuitState]
  /\ event \in {"none", "success", "failure", "reset"}

Init ==
  /\ state = "closed"
  /\ failure_count = 0
  /\ since_failure = NoFailure
  /\ pc = [w \in Workers |-> "idle"]
  /\ seen = [w \in Workers |-> "closed"]
  /\ event = "none"

----------------------------------------------------------------------------
\* The value of the `state` property, which is also what it leaves in _state.
TimedState ==
  IF /\ state = "open"
     /\ since_failure # NoFailure
     /\ since_failure >= RecoveryTimeout
  THEN "half_open" ELSE state

\* A status poll (get_status, get_all_status) reads the property too.
ReadState ==
  /\ state' = TimedState
  /\ UNCHANGED <<failure_count, since_failure, pc, seen, event>>

\* A slip: a refused request counts as a failure and restarts the timer.
AllowRequestRestartsTimer(w) ==
  /\ pc[w] = "idle"
  /\ state' = TimedState
  /\ seen' = [seen EXCEPT ![w] = TimedState]
  /\ pc' = [pc EXCEPT ![w] = "checked"]
  /\ since_failure' = IF TimedState = "open" THEN 0 ELSE since_failure
  /\ UNCHANGED <<failure_count, event>>

AllowRequest(w) ==
  /\ pc[w] = "idle"
  /\ state' = TimedState
  /\ seen' = [seen EXCEPT ![w] = TimedState]
  /\ pc' = [pc EXCEPT ![w] = "checked"]
  /\ UNCHANGED <<failure_count, since_failure, event>>

\* allow_request returns: the worker calls the provider or falls back.
Decide(w) ==
  /\ pc[w] = "checked"
  /\ pc' = [pc EXCEPT ![w] =
              IF seen[w] \in {"closed", "half_open"} THEN "calling" ELSE "idle"]
  /\ UNCHANGED <<breaker, seen, event>>

Report(w, outcome) ==
  /\ pc[w] = "calling"
  /\ pc' = [pc EXCEPT ![w] = "idle"]
  /\ event' = outcome
  /\ UNCHANGED seen

\* Slips: a success closes the breaker whatever its state, or pays back one
\* failure at a time.
RecordSuccessCloses(w) ==
  /\ Report(w, "success")
  /\ state' = "closed"
  /\ failure_count' = 0
  /\ UNCHANGED since_failure

RecordSuccessDecays(w) ==
  /\ Report(w, "success")
  /\ state' = IF state = "half_open" THEN "closed" ELSE state
  /\ failure_count' = failure_count - 1
  /\ UNCHANGED since_failure

RecordSuccess(w) ==
  /\ Report(w, "success")
  /\ state' = IF state = "half_open" THEN "closed" ELSE state
  /\ failure_count' = 0
  /\ UNCHANGED since_failure

CountFailure ==
  IF failure_count < FailureThreshold THEN failure_count + 1 ELSE failure_count

\* Slips: the comparison is strict, or the time of the failure is not kept.
RecordFailureStrict(w) ==
  /\ Report(w, "failure")
  /\ failure_count' = CountFailure
  /\ since_failure' = 0
  /\ state' = IF \/ state = "half_open"
                 \/ state = "closed" /\ failure_count >= FailureThreshold
              THEN "open" ELSE state

RecordFailureNoStamp(w) ==
  /\ Report(w, "failure")
  /\ failure_count' = CountFailure
  /\ state' = IF \/ state = "half_open"
                 \/ state = "closed" /\ CountFailure >= FailureThreshold
              THEN "open" ELSE state
  /\ UNCHANGED since_failure

RecordFailure(w) ==
  /\ Report(w, "failure")
  /\ failure_count' = CountFailure
  /\ since_failure' = 0
  /\ state' = IF \/ state = "half_open"
                 \/ state = "closed" /\ CountFailure >= FailureThreshold
              THEN "open" ELSE state

\* The usage in the docstring reports ProviderError only: a caller that
\* fails in any other way reports nothing.
Abandon(w) == Report(w, "none") /\ UNCHANGED breaker

Reset ==
  /\ state' = "closed"
  /\ failure_count' = 0
  /\ since_failure' = NoFailure
  /\ event' = "reset"
  /\ UNCHANGED <<pc, seen>>

Tick ==
  /\ since_failure \in 0..(RecoveryTimeout - 1)
  /\ since_failure' = since_failure + 1
  /\ UNCHANGED <<state, failure_count, pc, seen, event>>

Next ==
  \/ ReadState \/ Reset \/ Tick
  \/ \E w \in Workers :
       \/ AllowRequest(w) \/ Decide(w)
       \/ RecordSuccess(w) \/ RecordFailure(w) \/ Abandon(w)

Spec == Init /\ [][Next]_vars

\* Time passes, threads that are not blocked run, requests keep arriving,
\* and a provider call ends (the HTTP client has a timeout).  Nobody is
\* obliged to call reset.
Fairness ==
  /\ WF_vars(Tick)
  /\ \A w \in Workers :
       /\ WF_vars(AllowRequest(w))
       /\ WF_vars(Decide(w))
       /\ WF_vars(RecordSuccess(w) \/ RecordFailure(w) \/ Abandon(w))

FairSpec == Spec /\ Fairness

----------------------------------------------------------------------------
\* A closed breaker is strictly below its threshold (record_failure).
ClosedBelowThreshold == state = "closed" => failure_count < FailureThreshold

\* An open or half-open breaker remembers a failure: the guard
\* `_last_failure_time is not None` of the state property never keeps one open.
TimerArmed == state # "closed" => since_failure # NoFailure

\* The calls the breaker has admitted and not been told the outcome of.
Admitted ==
  {w \in Workers : \/ pc[w] = "calling"
                   \/ pc[w] = "checked" /\ seen[w] # "open"}

(* However calls overlap, however stale an admission is when it is acted   *)
(* on and however late an outcome is reported, the breaker moves like the  *)
(* abstract machine: no call is admitted while it is open; it opens on the *)
(* FailureThreshold-th failure with no success between and not before;     *)
(* every success while closed forgives; an outcome reported while open     *)
(* moves it nowhere, so that only the timer or a reset takes it out of     *)
(* open, and only a reset from there to closed.                            *)
Machine == INSTANCE CircuitStateMachine WITH
  Callers   <- Workers,
  Threshold <- FailureThreshold,
  phase     <- state,
  strikes   <- IF state = "closed" THEN failure_count ELSE 0,
  calls     <- Admitted,
  last      <- event

ImplementsMachine == Machine!MachineSpec

(* An open breaker does not stay open: late failures of calls admitted     *)
(* before it opened restart the recovery timer, but only finitely often,   *)
(* because an open breaker admits no new call (allow_request).             *)
OpenRecovers == state = "open" ~> state # "open"

(* The module docstring: the half-open breaker "allows a single probe      *)
(* request through".                                                       *)
SingleProbe ==
  Cardinality({w \in Workers : pc[w] = "calling" /\ seen[w] = "half_open"}) <= 1
=============================================================================
