---------------------------- MODULE MCCostLedger ----------------------------
(* Two clients and two aggregating processes; one user and one team.        *)
EXTENDS CostAggregates, TLC

AttributionsMC == {Names}

\* Budgets and aggregation read the requests and nothing of each other, so a
\* behaviour follows the one, where budgets block, or the other, with a request
\* less.
Followed ==
  IF block THEN \A q \in Runners : at[q] = "idle"
  ELSE calls < MaxCalls /\ budgets = <<>> /\ \A c \in Clients : pc[c] = "idle" \/ op[c] = "track"

Symmetry == Permutations(Clients) \cup Permutations(Runners)
=============================================================================
