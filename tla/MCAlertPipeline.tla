-------------------------- MODULE MCAlertPipeline ---------------------------
(* Webhooks for the runs: `pager' wants exceeded budgets only, `chat' wants *)
(* everything.  Checkers are alike where no fairness tells the loop apart.  *)
EXTENDS AlertPipeline, TLC

AcceptsMC == [h \in Webhooks |->
                IF h = "pager" THEN {"budget_exceeded"} ELSE {}]

Symmetry == Permutations(Checkers) \cup Permutations(Alerts)
=============================================================================
