-------------------------- MODULE MCCircuitBreaker --------------------------
(* A small breaker: two or three callers, one or two probes, a ratio of one half. *)
EXTENDS CircuitBreaker

CONSTANTS c1, c2, c3
=============================================================================
