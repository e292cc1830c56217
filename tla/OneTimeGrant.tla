---------------------------- MODULE OneTimeGrant ----------------------------
(***************************************************************************)
(* What a one-time credential promises: at most one of the parties that    *)
(* present it ever obtains the grant, it keeps the grant for good, and     *)
(* nobody obtains it once the credential is withdrawn.                     *)
(***************************************************************************)
CONSTANTS
    Parties,  \* those that may present the credential
    NoOne     \* the holder while nobody has the grant

VARIABLES
    holder,     \* the party that obtained the grant
    withdrawn   \* whether the credential was withdrawn

vars == <<holder, withdrawn>>

Init == holder = NoOne /\ withdrawn = FALSE

Take(p) ==
    /\ holder = NoOne
    /\ ~withdrawn
    /\ holder' = p
    /\ UNCHANGED withdrawn

\* A credential may be withdrawn after the grant too: the holder keeps it.
Withdraw ==
    /\ ~withdrawn
    /\ withdrawn' = TRUE
    /\ UNCHANGED holder

Next == Withdraw \/ \E p \in Parties : Take(p)

Spec == Init /\ [][Next]_vars

=============================================================================
