---------------------------- MODULE MCMcpGateway ----------------------------
EXTENDS McpGateway

\* At first every backend serves everything, and the route leads to one of them.
Configured ==
    /\ \A b \in Backends : backend[b].usable
    /\ route.active
    /\ route.backend = CHOOSE b \in Backends : TRUE

MCInit == Init /\ Configured

MCSpec == MCInit /\ [][Next]_vars /\ Fairness
=============================================================================
