--------------------------- MODULE CostAggregates ---------------------------
(***************************************************************************)
(* CostAggregator.materialize beside the clients of CostLedger: processes  *)
(* that replace the aggregates of a day, one transaction per dimension.    *)
(*                                                                         *)
(* A dimension is a name, and its aggregates are of the rows of that name; *)
(* no two of them are of the same row and day, as the unique index has it. *)
(* The dimensions model and provider, whose values are no rows, go the     *)
(* same way as the others and are left out.                                *)
(***************************************************************************)
EXTENDS CostLedger

CONSTANTS
  Runners,      \* the processes that call materialize
  MaxErrors     \* bound: errors of the database that end a run

ASSUME AggregatesAssumption == Names # {} /\ MaxErrors \in Nat

VARIABLES
  agg,      \* total_requests of each row and day; 0: there is no aggregate
  at,       \* where each process is
  dim,      \* the dimension it is at
  target,   \* the day it aggregates
  got,      \* what it read: requests of each row of the dimension
  gone,     \* the aggregates it deleted, and has not committed
  due,      \* history: what was recorded when its run started
  errors

run     == <<at, dim, target, got, gone, due, errors>>
allvars == <<vars, agg, run>>

Nothing == [r \in Rows |-> 0]
FirstDim == CHOOSE n \in Names : \A m \in Names : n <= m

AggregatesTypeOK ==
  /\ agg \in [Rows -> [Days -> Nat]]
  /\ at \in [Runners -> {"idle", "read", "delete", "insert", "done"}]
  /\ dim \in [Runners -> Names]
  /\ target \in [Runners -> Days]
  /\ got \in [Runners -> [Rows -> Nat]]
  /\ gone \in [Runners -> SUBSET Rows]
  /\ due \in [Runners -> [Rows -> Nat]]
  /\ errors \in 0..MaxErrors
  /\ \A q \in Runners :
       at[q] \notin {"delete", "insert"} => got[q] = Nothing /\ gone[q] = {}

AllInit ==
  /\ Init
  /\ agg = [r \in Rows |-> [d \in Days |-> 0]]
  /\ at = [q \in Runners |-> "idle"]
  /\ dim = [q \in Runners |-> FirstDim]
  /\ target = [q \in Runners |-> 0]
  /\ got = [q \in Runners |-> Nothing]
  /\ gone = [q \in Runners |-> {}]
  /\ due = [q \in Runners |-> Nothing]
  /\ errors = 0

----------------------------------------------------------------------------
\* A process starts a run, for any day.
Materialize(q, d) ==
  /\ at[q] \in {"idle", "done"}
  /\ at' = [at EXCEPT ![q] = "read"]
  /\ dim' = [dim EXCEPT ![q] = FirstDim]
  /\ target' = [target EXCEPT ![q] = d]
  /\ due' = [due EXCEPT ![q] = [r \in Rows |-> spent[r][d]]]
  /\ UNCHANGED <<vars, agg, got, gone, errors>>

\* A run is over, having done all dimensions or not.
EndRun(q, l) ==
  /\ at' = [at EXCEPT ![q] = l]
  /\ dim' = [dim EXCEPT ![q] = FirstDim]
  /\ target' = [target EXCEPT ![q] = 0]
  /\ due' = [due EXCEPT ![q] = Nothing]

\* Slip: a dimension too many.
NextDimPastLast(q) ==
  /\ dim' = [dim EXCEPT ![q] = @ + 1]
  /\ at' = [at EXCEPT ![q] = IF dim[q] \in Names THEN "read" ELSE "done"]
  /\ UNCHANGED <<target, due>>

\* The dimension is done: the next one, or materialize returns.
NextDim(q) ==
  \/ \E n \in Names :
       /\ n > dim[q] /\ \A m \in Names : m > dim[q] => n <= m
       /\ dim' = [dim EXCEPT ![q] = n]
       /\ at' = [at EXCEPT ![q] = "read"]
       /\ UNCHANGED <<target, due>>
  \/ /\ \A m \in Names : m <= dim[q]
     /\ EndRun(q, "done")

\* Slip: the end of the period belongs to it, and with it the next day.
CountedPastEnd(r, d) ==
  spent[r][d] + IF d + 1 \in Days THEN spent[r][d + 1] ELSE 0

\* The requests of a row within the bounds of a day.
Counted(r, d) == spent[r][d]

\* The requests of the day are counted, grouped by the dimension's column.
Read(q) ==
  /\ at[q] = "read"
  /\ LET S == [r \in Rows |-> IF r[1] = dim[q] THEN Counted(r, target[q]) ELSE 0]
     IN IF S = Nothing
        THEN NextDim(q) /\ UNCHANGED got
        ELSE /\ got' = [got EXCEPT ![q] = S]
             /\ at' = [at EXCEPT ![q] = "delete"]
             /\ UNCHANGED <<dim, target, due>>
  /\ UNCHANGED <<vars, agg, gone, errors>>

\* The rows that the process has an aggregate for.
Groups(q) == {r \in Rows : got[q][r] > 0}

\* DELETE of each group's aggregate, if there is one.
Delete(q) ==
  /\ at[q] = "delete"
  /\ gone' = [gone EXCEPT ![q] = {r \in Groups(q) : agg[r][target[q]] > 0}]
  /\ at' = [at EXCEPT ![q] = "insert"]
  /\ UNCHANGED <<vars, agg, dim, target, got, due, errors>>

\* Slip: an aggregate that exists is kept.
InsertMissing(q) ==
  /\ at[q] = "insert"
  /\ agg' = [r \in Rows |-> IF r \in Groups(q) /\ agg[r][target[q]] = 0
                            THEN [agg[r] EXCEPT ![target[q]] = got[q][r]] ELSE agg[r]]
  /\ NextDim(q)
  /\ got' = [got EXCEPT ![q] = Nothing]
  /\ gone' = [gone EXCEPT ![q] = {}]
  /\ UNCHANGED <<vars, errors>>

\* INSERT and COMMIT.  The index refuses an aggregate that another process has
\* inserted since the DELETE, which that one took from under it: the
\* transaction is rolled back, and materialize raises.
InsertAggregates(q) ==
  /\ at[q] = "insert"
  /\ IF \E r \in Groups(q) : agg[r][target[q]] > 0 /\ r \notin gone[q]
     THEN /\ EndRun(q, "idle")
          /\ gone' = [gone EXCEPT ![q] = {}]
          /\ UNCHANGED agg
     ELSE /\ agg' = [r \in Rows |-> IF r \in Groups(q)
                                    THEN [agg[r] EXCEPT ![target[q]] = got[q][r]]
                                    ELSE agg[r]]
          /\ gone' = [p \in Runners |->
                        IF p = q THEN {}
                        ELSE IF target[p] = target[q] THEN gone[p] \ Groups(q) ELSE gone[p]]
          /\ NextDim(q)
  /\ got' = [got EXCEPT ![q] = Nothing]
  /\ UNCHANGED <<vars, errors>>

\* The database raises: what is not committed is rolled back.
RunFails(q) ==
  /\ errors < MaxErrors /\ errors' = errors + 1
  /\ at[q] \in {"read", "delete", "insert"}
  /\ EndRun(q, "idle")
  /\ got' = [got EXCEPT ![q] = Nothing]
  /\ gone' = [gone EXCEPT ![q] = {}]
  /\ UNCHANGED <<vars, agg>>

----------------------------------------------------------------------------
Aggregation ==
  \E q \in Runners :
    \/ \E d \in Days : Materialize(q, d)
    \/ Read(q) \/ Delete(q) \/ InsertAggregates(q) \/ RunFails(q)

AllNext ==
  \/ Next /\ UNCHANGED <<agg, run>>
  \/ Aggregation

AllSpec == AllInit /\ [][AllNext]_allvars

----------------------------------------------------------------------------
(* Properties.                                                             *)

\* No request is counted twice, whichever runs overlap.
NeverOvercounts == \A r \in Rows, d \in Days : agg[r][d] <= spent[r][d]

\* A run that did not raise has counted, in every dimension it committed, all
\* that was recorded before it started: aggregating a day again catches up.
RunCatchesUp ==
  [][\A q \in Runners :
       at[q] = "insert" /\ at'[q] \in {"read", "done"} =>
         \A r \in Rows : r[1] = dim[q] => agg'[r][target[q]] >= due[q][r]]_allvars
=============================================================================
