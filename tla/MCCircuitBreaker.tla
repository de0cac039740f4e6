-------------------------- MODULE MCCircuitBreaker --------------------------
(* The .cfg files give the request threads that share one breaker, their   *)
(* number, the threshold and the timeout.                                  *)
EXTENDS CircuitBreaker
=============================================================================
