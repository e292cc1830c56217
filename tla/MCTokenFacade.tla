--------------------------- MODULE MCTokenFacade ---------------------------
(* Two researchers, two names and requests that overlap in every way,      *)
(* starting from one Token.                                                *)
EXTENDS TokenFacade, TLC

CONSTANTS p1, p2, q1, q2, q3

Console == {"create", "rename", "rotate", "revoke", "delete"}

RequestSymmetry == Permutations(Requests)

=============================================================================
