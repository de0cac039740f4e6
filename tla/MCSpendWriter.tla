--------------------------- MODULE MCSpendWriter ----------------------------
(* Two instances of the spend writer in one, three increments in each.  In *)
(* the first, two requests meet in one row of an entity table, and one of  *)
(* them is charged to another table as well; in the second, one request    *)
(* has two rows of a daily table, as for its two tags, and the other is    *)
(* charged to an entity table.                                             *)
EXTENDS SpendWriter

ChargesMC == [r \in Requests |->
  CASE r = "r1" -> {<<1, r, 1>>, <<2, r, 1>>}
    [] r = "r2" -> {<<1, r, 1>>}
    [] r = "r3" -> {<<3, r, 1>>, <<3, r, 2>>}
    [] r = "r4" -> {<<1, r, 1>>}]

\* Only what arrives is bounded, which no fairness asks for.
Followed == arrived \in SUBSET {"r1", "r2"} \cup SUBSET {"r3", "r4"}
=============================================================================
