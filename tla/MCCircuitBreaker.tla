-------------------------- MODULE MCCircuitBreaker --------------------------
(* The circuit of one backend with up to three overlapping calls.          *)
EXTENDS CircuitBreaker

CONSTANTS c1, c2, c3

=============================================================================
