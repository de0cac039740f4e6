----------------------------- MODULE SpendLedger -----------------------------
(***************************************************************************)
(* What the spend writer promises, without queues, Redis, pods or locks:   *)
(* the cost of a request is owed to each table that keeps a sum of it, and *)
(* an owed cost is charged or dropped.  A writer that is told nothing of   *)
(* its transaction charges it again, at most Attempts times in all.        *)
(***************************************************************************)
EXTENDS Naturals

CONSTANTS
  Updates,    \* the increments: the cost of one request to one row
  Attempts    \* transactions that may carry one increment

VARIABLES
  known,      \* increments of the requests that were tracked
  owed,       \* those not settled yet
  charged     \* how often each was added to its table

ledger == <<known, owed, charged>>

Init ==
  /\ known = {} /\ owed = {}
  /\ charged = [u \in Updates |-> 0]

Owe ==
  /\ known' \in SUBSET Updates /\ known \subseteq known'
  /\ owed' = owed \cup (known' \ known)
  /\ UNCHANGED charged

\* A transaction adds owed increments to their tables; these, or more, or none
\* of them, are then settled.
Settle ==
  /\ owed' \in SUBSET owed
  /\ charged' \in [Updates -> 0..Attempts]
  /\ \A u \in Updates : \/ charged'[u] = charged[u]
                        \/ u \in owed /\ charged'[u] = charged[u] + 1
  /\ UNCHANGED known

Next == Owe \/ Settle

Spec == Init /\ [][Next]_ledger
=============================================================================
