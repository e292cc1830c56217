-------------------------- MODULE MCRequestRuntime --------------------------
(* Three callers, two global permits, one connection; the second snapshot   *)
(* has neither vectors nor a graph.                                         *)
EXTENDS RequestRuntime

MCBuild ==
    [s1 |-> [relational |-> "r1", lexical |-> "r1", vector |-> "v1", graph |-> "g1"],
     s2 |-> [relational |-> "r2", lexical |-> "r2", vector |-> None, graph |-> None]]

MCLimit == [hybrid_passages |-> 1]
=============================================================================
