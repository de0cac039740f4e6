---------------------------- MODULE AlertOutbox -----------------------------
(***************************************************************************)
(* What the alerting pipeline promises of an alert: once raised, it stays  *)
(* what it is and stays open until it is settled, and it is settled only   *)
(* after somebody was told of it and every webhook that must be told is    *)
(* done with.  Progress with a webhook is never undone.                    *)
(*                                                                         *)
(* Who works on an alert, how many do at a time, and what fails and is     *)
(* begun again in between, shows in nothing but the progress made.         *)
(***************************************************************************)
CONSTANTS
  Alerts, Webhooks, Budgets, AlertTypes,
  MustTell,   \* the webhooks that must be done with, for each type of alert
  None

VARIABLES
  entry,      \* [budget, type, sent] of each alert, or None
  progress    \* with each alert at each webhook: none, tried or done

outboxVars == <<entry, progress>>

OutboxInit ==
  /\ entry = [a \in Alerts |-> None]
  /\ progress = [x \in Alerts \X Webhooks |-> "none"]

\* A new alert; a settled one may give up its place.
Raise(a, b, t) ==
  /\ entry[a] # None => entry[a].sent
  /\ entry' = [entry EXCEPT ![a] = [budget |-> b, type |-> t, sent |-> FALSE]]
  /\ progress' = [x \in Alerts \X Webhooks |-> IF x[1] = a THEN "none" ELSE progress[x]]

\* A webhook is tried; it may accept, or have been tried to the end.
Attempt(a, h) ==
  /\ entry[a] # None
  /\ \E p \in {"tried", "done"} :
       /\ progress[<<a, h>>] = "done" => p = "done"
       /\ progress' = [progress EXCEPT ![<<a, h>>] = p]
  /\ UNCHANGED entry

Settle(a) ==
  /\ entry[a] # None
  /\ \E h \in Webhooks : progress[<<a, h>>] # "none"
  /\ \A h \in MustTell[entry[a].type] : progress[<<a, h>>] = "done"
  /\ entry' = [entry EXCEPT ![a].sent = TRUE]
  /\ UNCHANGED progress

OutboxNext ==
  \E a \in Alerts :
    \/ Settle(a)
    \/ \E b \in Budgets, t \in AlertTypes : Raise(a, b, t)
    \/ \E h \in Webhooks : Attempt(a, h)

OutboxSpec == OutboxInit /\ [][OutboxNext]_outboxVars
=============================================================================
