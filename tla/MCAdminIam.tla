----------------------------- MODULE MCAdminIam -----------------------------
(* A platform administrator, an operator who belongs to a team of the       *)
(* tenant and once had its tenant role, and room for two new rows.          *)
EXTENDS AdminIam, TLC

CONSTANTS t, g, a, b, ra, mb, rb, x, y, na, nb, nc, tool, k, q1, q2

MCIds == {t, g, a, b, ra, mb, rb, x, y}

MCStart ==
    [i \in MCIds |->
        CASE i = t  -> New("tenant", None, None, None, na)
          [] i = g  -> New("team", t, None, None, na)
          [] i = a  -> New("principal", None, None, None, na)
          [] i = b  -> New("principal", None, None, None, nb)
          [] i = ra -> New("binding", None, None, a, "platform_admin")
          [] i = mb -> New("membership", t, g, b, None)
          [] i = rb -> [New("binding", t, None, b, "tenant_admin")
                          EXCEPT !.live = FALSE, !.version = 2]
          [] OTHER  -> Absent]

\* Both have signed in.
MCInit == Init /\ sessions = {a, b}

Symmetry == Permutations({x, y}) \cup Permutations({q1, q2})

MCSpec == MCInit /\ [][Next]_vars
=============================================================================
