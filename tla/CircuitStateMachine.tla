------------------------ MODULE CircuitStateMachine ------------------------
(***************************************************************************)
(* What a circuit breaker promises its callers: a three-phase machine that *)
(* admits calls and is told how they end.  Closed, it counts consecutive   *)
(* failures and trips on the Threshold-th; open, it admits nobody, and the *)
(* only ways out are the recovery timer and an operator's reset; half      *)
(* open, the next outcome decides.  The locks, the reading of the clock    *)
(* and the time between an admission and the call are not visible here.    *)
(***************************************************************************)
EXTENDS Naturals

CONSTANTS Callers, Threshold

VARIABLES phase,    \* "closed", "open" or "half_open"
          strikes,  \* consecutive failures seen while closed
          calls,    \* the callers admitted whose outcome is not known
          last      \* the last thing the machine was told: "success",
                    \* "failure", "reset", or "none" of a call that was dropped

machineVars == <<phase, strikes, calls, last>>

MachineInit ==
  phase = "closed" /\ strikes = 0 /\ calls = {} /\ last = "none"

\* A call is admitted unless the machine is open.
Admit(w) ==
  /\ phase # "open"
  /\ w \notin calls /\ calls' = calls \cup {w}
  /\ UNCHANGED <<phase, strikes, last>>

\* The recovery timer has run out, and somebody looks.
Expire ==
  /\ phase = "open" /\ phase' = "half_open"
  /\ UNCHANGED <<strikes, calls, last>>

\* The one who looks is a caller, and is admitted.
Probe(w) ==
  /\ phase = "open" /\ phase' = "half_open"
  /\ w \notin calls /\ calls' = calls \cup {w}
  /\ UNCHANGED <<strikes, last>>

\* An admitted call ends.
Ends(w, outcome) ==
  /\ w \in calls /\ calls' = calls \ {w}
  /\ last' = outcome

\* A failure that does not trip the breaker, and the failure that does.
Strike(w) ==
  /\ Ends(w, "failure")
  /\ phase = "closed" /\ strikes + 1 < Threshold
  /\ strikes' = strikes + 1
  /\ UNCHANGED phase

Trip(w) ==
  /\ Ends(w, "failure")
  /\ phase = "closed" /\ strikes + 1 = Threshold
  /\ phase' = "open" /\ strikes' = 0

\* A success while closed forgives the failures before it.
Forgive(w) ==
  /\ Ends(w, "success")
  /\ phase = "closed" /\ strikes' = 0
  /\ UNCHANGED phase

\* The first outcome while half open decides.
Restore(w) ==
  /\ Ends(w, "success")
  /\ phase = "half_open" /\ phase' = "closed"
  /\ UNCHANGED strikes

Reopen(w) ==
  /\ Ends(w, "failure")
  /\ phase = "half_open" /\ phase' = "open"
  /\ UNCHANGED strikes

\* The outcome of a call admitted before the machine opened decides nothing.
Late(w) ==
  /\ \E outcome \in {"success", "failure"} : Ends(w, outcome)
  /\ phase = "open"
  /\ UNCHANGED <<phase, strikes>>

\* A call ends and nobody says how.
Drop(w) == Ends(w, "none") /\ UNCHANGED <<phase, strikes>>

\* An operator's reset; calls that are under way stay so.
ForceClosed ==
  /\ last' = "reset"
  /\ phase' = "closed" /\ strikes' = 0
  /\ UNCHANGED calls

MachineNext ==
  \/ Expire \/ ForceClosed
  \/ \E w \in Callers :
       \/ Admit(w) \/ Probe(w)
       \/ Strike(w) \/ Trip(w) \/ Forgive(w) \/ Restore(w) \/ Reopen(w)
       \/ Late(w) \/ Drop(w)

MachineSpec == MachineInit /\ [][MachineNext]_machineVars
=============================================================================
