----------------------------- MODULE McpGateway -----------------------------
(****************************************************************************)
(* The MCP gateway (mcp_gateway.py) with the authentication of its callers  *)
(* (capabilities.py), the route of a request (routing.py), its tools        *)
(* (policy.py), and the two ways to revoke a capability                     *)
(* (admin_capabilities.py, session.py).  A request waits twice, for its     *)
(* body and for the backend, and whatever it knows may change meanwhile.    *)
(* The circuit and the quota are modelled in CircuitBreaker and QuotaLedger *)
(* and show here as refusals.                                               *)
(****************************************************************************)
EXTENDS Naturals

CONSTANTS Slots,        \* requests the gateway handles at a time
          Credentials,  \* capabilities and Access Keys of one tenant
          Capabilities, \* those that are capabilities
          Backends, Corpora,
          Sessions,     \* identifiers of MCP sessions
          Nothing,      \* in place of a session or a row that is not there
          ChangeLimit   \* how often administrators change the configuration

VARIABLES credential,  \* status of each row of dsh_capabilities and access_keys
          backend,     \* scholar_backends
          route,       \* the row of tenant_routes
          affinity,    \* mcp_session_affinities
          request,     \* the requests in progress
          changes,     \* counts the changes of the configuration
          \* history
          home,        \* for whom and where each session was opened last
          late         \* sessions stored after their credential was revoked

configuration == <<backend, route, changes>>
vars == <<credential, backend, route, affinity, request, changes, home, late>>

ASSUME GatewayAssumption ==
    /\ Capabilities \subseteq Credentials
    /\ Nothing \notin Sessions \cup Credentials
    /\ ChangeLimit \in Nat

Methods == {"POST", "DELETE"}   \* a GET is handled like a POST
Phases == {"idle", "reading", "sent", "answered"}

BackendRow == [usable : BOOLEAN, corpus : Corpora]
RouteRow == [active : BOOLEAN, backend : Backends, corpus : Corpora]
AffinityRow == [credential : Credentials, backend : Backends, corpus : Corpora,
                lapsed : BOOLEAN]

\* Where a request is sent.
Selection == [backend : Backends, corpus : Corpora]

ASSUME NothingIsNoRow == Nothing \notin AffinityRow \cup Selection

Request == [phase : Phases, method : Methods, credential : Credentials \cup {Nothing},
            session : Sessions \cup {Nothing},
            selection : Selection \cup {Nothing}, reply : Sessions \cup {Nothing},
            seen : AffinityRow \cup {Nothing}]

Fresh == [phase |-> "idle", method |-> "POST", credential |-> Nothing,
          session |-> Nothing, selection |-> Nothing, reply |-> Nothing, seen |-> Nothing]

Init ==
    /\ credential = [c \in Credentials |-> "live"]
    /\ backend \in [Backends -> BackendRow]
    /\ route \in RouteRow
    /\ affinity = [s \in Sessions |-> Nothing]
    /\ request = [q \in Slots |-> Fresh]
    /\ changes = 0
    /\ home = [s \in Sessions |-> Nothing]
    /\ late = {}

----------------------------------------------------------------------------
\* What happens around the gateway.

\* Administrators, probes and the passing of time change whether and where a tenant is
\* served; BackendRegistry models how.
Configure ==
    /\ changes < ChangeLimit
    /\ changes' = changes + 1
    /\ \/ \E b \in Backends, row \in BackendRow :
             /\ backend' = [backend EXCEPT ![b] = row]
             /\ UNCHANGED route
       \/ /\ route' \in RouteRow
          /\ UNCHANGED backend
    /\ UNCHANGED <<credential, affinity, request, home, late>>

ForgottenNot(c) == affinity

Forgotten(c) ==
    [s \in Sessions |->
        IF affinity[s] # Nothing /\ affinity[s].credential = c THEN Nothing ELSE affinity[s]]

\* revoke_capability of an administrator, revoke_session of the holder.
RevokeCapability(c) ==
    /\ c \in Capabilities
    /\ credential[c] # "revoked"
    /\ credential' = [credential EXCEPT ![c] = "revoked"]
    /\ affinity' = Forgotten(c)
    /\ UNCHANGED <<configuration, request, home, late>>

\* An Access Key is revoked, a credential expires, or its subject is suspended: the stored
\* sessions remain.
Disable(c) ==
    /\ credential[c] = "live"
    /\ credential' = [credential EXCEPT ![c] = "disabled"]
    /\ UNCHANGED <<configuration, affinity, request, home, late>>

\* The principal, the tenant or a membership is activated again.
Restore(c) ==
    /\ credential[c] = "disabled"
    /\ credential' = [credential EXCEPT ![c] = "live"]
    /\ UNCHANGED <<configuration, affinity, request, home, late>>

\* expires_at passes.
Lapse(s) ==
    /\ affinity[s] # Nothing
    /\ ~affinity[s].lapsed
    /\ affinity' = [affinity EXCEPT ![s].lapsed = TRUE]
    /\ UNCHANGED <<credential, configuration, request, home, late>>

----------------------------------------------------------------------------
\* A request.
Becomes(q, r) == request' = [request EXCEPT ![q] = r]

\* The handler returns or raises; the next request may take its place.
Over(q) == Becomes(q, Fresh)

AcceptedUnlessExpired(c) == credential[c] # "disabled"

\* authenticate_credential.
Accepted(c) == credential[c] = "live"

\* The headers arrive and the handler waits for the body.  A caller without a credential,
\* or with one that is refused, leaves only a row of the audit log.
Authenticate(q) ==
    /\ request[q].phase = "idle"
    /\ \E c \in Credentials, method \in Methods, s \in Sessions \cup {Nothing} :
          /\ Accepted(c)
          /\ method = "DELETE" => s # Nothing
          /\ Becomes(q, [Fresh EXCEPT !.phase = "reading", !.method = method,
                                      !.credential = c, !.session = s])
    /\ UNCHANGED <<credential, configuration, affinity, home, late>>

\* deny_gateway before the request is sent: a bad body, a tool that the credential, the
\* tenant's policy or the backend does not permit, no route, a secret that cannot be
\* resolved, an exhausted quota.  Nothing else depends on the tool.
Deny(q) ==
    /\ request[q].phase = "reading"
    /\ Over(q)
    /\ UNCHANGED <<credential, configuration, affinity, home, late>>

\* _select_backend.
Serves(b, corpus) == backend[b].usable /\ backend[b].corpus = corpus

PinnedForAnyone(c, s) ==
    {x \in Selection :
        /\ affinity[s] # Nothing
        /\ ~affinity[s].lapsed
        /\ x.backend = affinity[s].backend
        /\ x.corpus = affinity[s].corpus}

\* resolve_route for a request that names a session, which has to be the caller's own.
Pinned(c, s) ==
    {x \in Selection :
        /\ affinity[s] # Nothing
        /\ ~affinity[s].lapsed
        /\ affinity[s].credential = c
        /\ x.backend = affinity[s].backend
        /\ x.corpus = affinity[s].corpus}

Routed == [backend |-> route.backend, corpus |-> route.corpus]

\* The body has arrived; tools, route and quota permit the request.  The credential is not
\* looked at again.
Send(q) ==
    LET r == request[q] IN
    /\ r.phase = "reading"
    /\ route.active
    /\ \E x \in IF r.session = Nothing THEN {Routed} ELSE Pinned(r.credential, r.session) :
          /\ Serves(x.backend, x.corpus)
          /\ Becomes(q, [r EXCEPT !.phase = "sent", !.selection = x])
    /\ UNCHANGED <<credential, configuration, affinity, home, late>>

\* The circuit refuses, the backend fails, redirects or rejects, or its response is too large
\* or names no possible session: every such way out settles the quota and is audited.
Fail(q) ==
    /\ request[q].phase = "sent"
    /\ Over(q)
    /\ UNCHANGED <<credential, configuration, affinity, home, late>>

RespondAnew(q) ==
    /\ request[q].phase = "sent"
    /\ \E reply \in Sessions \cup {Nothing} :
          Becomes(q, [Fresh EXCEPT !.phase = "answered", !.reply = reply])
    /\ UNCHANGED <<credential, configuration, affinity, home, late>>

\* A response arrives in time.  A session it names counts if the status is 2xx, and cannot
\* be another than that of the request; its row is read, or for a DELETE the row to delete.
Respond(q) ==
    LET r == request[q] IN
    /\ r.phase = "sent"
    /\ \E reply \in Sessions \cup {Nothing} :
          LET key == IF r.method = "DELETE" THEN r.session ELSE reply IN
          /\ r.session # Nothing => reply \in {r.session, Nothing}
          /\ Becomes(q, [r EXCEPT !.phase = "answered", !.reply = reply,
                            !.seen = IF key = Nothing THEN Nothing ELSE affinity[key]])
    /\ UNCHANGED <<credential, configuration, affinity, home, late>>

Pin(r) == [credential |-> r.credential, backend |-> r.selection.backend,
           corpus |-> r.selection.corpus, lapsed |-> FALSE]

\* The stored session belongs to another caller, backend or corpus.
Collides(r) ==
    /\ r.reply # Nothing
    /\ r.seen # Nothing
    /\ [r.seen EXCEPT !.lapsed = FALSE] # Pin(r)

\* INSERT and UPDATE of a row that came or went since it was looked for.
Conflicts(r) ==
    /\ r.reply # Nothing
    /\ IF r.seen = Nothing THEN affinity[r.reply] # Nothing
       ELSE r.method # "DELETE" /\ affinity[r.reply] = Nothing

RefuseCollision(q) ==
    /\ request[q].phase = "answered"
    /\ Collides(request[q])
    /\ Over(q)
    /\ UNCHANGED <<credential, configuration, affinity, home, late>>

\* The commit fails: everything is rolled back, the audit event too; only the quota is
\* settled.
Break(q) ==
    LET r == request[q] IN
    /\ r.phase = "answered"
    /\ ~Collides(r)
    /\ Conflicts(r)
    /\ Over(q)
    /\ UNCHANGED <<credential, configuration, affinity, home, late>>

\* The session's row is stored or kept for longer, and the response goes on to the caller.
Keep(q) ==
    LET r == request[q] IN
    /\ r.phase = "answered"
    /\ r.method = "POST"
    /\ ~Collides(r)
    /\ ~Conflicts(r)
    /\ IF r.reply = Nothing THEN UNCHANGED <<affinity, home, late>>
       ELSE IF r.seen # Nothing
       THEN /\ affinity' = [affinity EXCEPT ![r.reply].lapsed = FALSE]
            /\ UNCHANGED <<home, late>>
       ELSE /\ affinity' = [affinity EXCEPT ![r.reply] = Pin(r)]
            /\ home' = [home EXCEPT ![r.reply] = Pin(r)]
            /\ late' = IF credential[r.credential] = "revoked" THEN late \cup {r.reply}
                       ELSE late \ {r.reply}
    /\ Over(q)
    /\ UNCHANGED <<credential, configuration>>

\* A DELETE that the backend answered ends the session.
End(q) ==
    LET r == request[q] IN
    /\ r.phase = "answered"
    /\ r.method = "DELETE"
    /\ ~Collides(r)
    /\ ~Conflicts(r)
    /\ affinity' = IF r.seen = Nothing THEN affinity
                   ELSE [affinity EXCEPT ![r.session] = Nothing]
    /\ Over(q)
    /\ UNCHANGED <<credential, configuration, home, late>>

\* The worker dies and its requests with it.
Die(q) ==
    /\ request[q].phase # "idle"
    /\ Over(q)
    /\ UNCHANGED <<credential, configuration, affinity, home, late>>

\* What a handler does that does not wait for its caller.
Proceed(q) ==
    Fail(q) \/ Respond(q) \/ RefuseCollision(q) \/ Break(q) \/ Keep(q) \/ End(q)

Step(q) == Authenticate(q) \/ Deny(q) \/ Send(q) \/ Proceed(q) \/ Die(q)

Next ==
    \/ Configure
    \/ \E c \in Credentials : RevokeCapability(c) \/ Disable(c) \/ Restore(c)
    \/ \E s \in Sessions : Lapse(s)
    \/ \E q \in Slots : Step(q)

\* A response comes or times out (backend_request_timeout_seconds), and a handler that waits
\* for nothing runs to its end.  Nothing bounds the wait for a body.
Fairness == \A q \in Slots : WF_vars(Proceed(q))

Spec == Init /\ [][Next]_vars /\ Fairness

----------------------------------------------------------------------------
\* Types of all variables; a request that waits for its backend knows which.
TypeOK ==
    /\ credential \in [Credentials -> {"live", "revoked", "disabled"}]
    /\ backend \in [Backends -> BackendRow]
    /\ route \in RouteRow
    /\ affinity \in [Sessions -> AffinityRow \cup {Nothing}]
    /\ request \in [Slots -> Request]
    /\ \A q \in Slots : request[q].phase # "idle" =>
          request[q].credential # Nothing
    /\ \A q \in Slots : request[q].phase \in {"sent", "answered"} =>
          request[q].selection # Nothing
    /\ changes \in 0 .. ChangeLimit
    /\ home \in [Sessions -> AffinityRow \cup {Nothing}]
    /\ late \subseteq Sessions

\* A session stays with the caller it was opened for, at the backend and with the corpus it
\* was opened with: however routes, backends and rows change under the requests in flight,
\* none that names it is sent anywhere else or for anyone else.
SessionsStayPut ==
    [][\A q \in Slots :
          request[q].phase = "reading" /\ request'[q].phase = "sent" =>
              LET r == request'[q] IN
              r.session # Nothing => home[r.session] = Pin(r)]_vars

\* A revoked capability leaves a stored session behind only if a request that was in flight
\* when it was revoked opened it afterwards.
RevokedSessionsAreLate ==
    \A s \in Sessions :
        affinity[s] # Nothing /\ credential[affinity[s].credential] = "revoked" => s \in late

\* Whatever requests are in flight when a capability is revoked, and however long their
\* bodies take, a time comes after which no backend is asked on its behalf.
RevokedFallsSilent ==
    \A c \in Capabilities :
        credential[c] = "revoked" ~>
            [](\A q \in Slots : request[q].credential = c =>
                  request[q].phase \notin {"sent", "answered"})
=============================================================================
