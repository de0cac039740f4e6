-------------------------- MODULE MCAuthentication ---------------------------
(* Two threads; a key may make two requests a minute, or two tokens' worth. *)
EXTENDS RateWindow, TLC

LimitOfMC == [k \in Keys |-> [rpm |-> 2, tpm |-> 2]]
ScopesMC == {{}, {"read"}}

\* The limiter reads nothing of a row: a window is watched over keys that nobody
\* has edited.
Followed == watching => \A k \in Keys : Valid(k) /\ row[k].scopes = {}

Symmetry == Permutations(Threads)
=============================================================================
