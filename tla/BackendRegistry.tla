--------------------------- MODULE BackendRegistry ---------------------------
(****************************************************************************)
(* The registry of Scholar backends and the route of the lab's tenant:      *)
(* admin_backends.py and admin_policies.py (put_backend_route), which       *)
(* change a row only if its version is the one they loaded, and             *)
(* simple_tokens.py (probe_service) and single_lab.py (the refresh task),   *)
(* which do not compare.  Probing a backend is a network call: whatever it  *)
(* observed is written to the row some time after the row was read.         *)
(****************************************************************************)
EXTENDS Integers

CONSTANTS Requests,   \* the handlers and refreshes that take place, each once
          Backends,   \* identifiers of backends
          Places,     \* values of base_url
          Secrets,    \* values of credential_ref
          Corpora,    \* values of corpus_version
          LabBackend, \* the backend the deployment configures
          LabRoute,   \* names the route where a resource is asked for
          NoRow       \* in place of a row that does not exist

VARIABLES backend,    \* the table scholar_backends
          route,      \* the lab tenant's row of tenant_routes
          request,    \* the handlers and refreshes
          \* history
          proof,      \* the configuration that was last recorded as ready
          overtaken   \* what a write without comparison changed unseen

vars == <<backend, route, request, proof, overtaken>>

Statuses == {"active", "disabled"}
Config == [place : Places, secret : Secrets, corpus : Corpora]

\* `ready' is last_probe_ready together with the reason "ready"; `fresh' says that
\* last_probe_at lies within backend_probe_max_age_seconds.
BackendRow == [place : Places, secret : Secrets, corpus : Corpora, status : Statuses,
               ready : BOOLEAN, fresh : BOOLEAN, version : Nat]
RouteRow == [backend : Backends, corpus : Corpora, status : Statuses, version : Nat]

ASSUME RegistryAssumption ==
    /\ LabBackend \in Backends
    /\ LabRoute \notin Backends
    /\ NoRow \notin BackendRow \cup RouteRow \cup Config

Edits == {"update", "rotate"}
Probes == {"probe", "service", "refresh"}
Kinds == Edits \cup Probes \cup {"route"}
Phases == {"idle", "asked", "loaded", "observed", "checked", "done"}

NoRequest == [kind |-> "update", target |-> NoRow, phase |-> "idle", etag |-> NoRow,
              row |-> NoRow, path |-> NoRow, ready |-> FALSE]

ConfigOf(row) == [place |-> row.place, secret |-> row.secret, corpus |-> row.corpus]

\* The rows agree in all that an administrator sees; `fresh' passes by itself.
SameBackend(r, s) ==
    /\ ConfigOf(r) = ConfigOf(s)
    /\ r.status = s.status
    /\ r.ready = s.ready

SameRoute(r, s) ==
    /\ r.backend = s.backend
    /\ r.corpus = s.corpus
    /\ r.status = s.status

ProbeIsFresh(row) == row.ready /\ row.fresh

Init ==
    /\ backend = [b \in Backends |-> NoRow]
    /\ route = NoRow
    /\ request = [q \in Requests |-> NoRequest]
    /\ proof = [b \in Backends |-> NoRow]
    /\ overtaken = {}

----------------------------------------------------------------------------
NewBackendUnset(c) ==
    [place |-> c.place, secret |-> c.secret, corpus |-> c.corpus,
     status |-> "unknown", ready |-> FALSE, fresh |-> FALSE, version |-> 1]

\* A new row of scholar_backends.
NewBackend(c) ==
    [place |-> c.place, secret |-> c.secret, corpus |-> c.corpus,
     status |-> "disabled", ready |-> FALSE, fresh |-> FALSE, version |-> 1]

\* create_backend.
Register(b) ==
    /\ backend[b] = NoRow
    /\ \E c \in Config : backend' = [backend EXCEPT ![b] = NewBackend(c)]
    /\ UNCHANGED <<route, request, proof, overtaken>>

\* A worker starts: the lab's backend is created unless it exists, and so is the route.
Bootstrap ==
    /\ route = NoRow
    /\ \E c \in Config :
          LET row == IF backend[LabBackend] = NoRow THEN NewBackend(c)
                     ELSE backend[LabBackend] IN
          /\ backend' = [backend EXCEPT ![LabBackend] = row]
          /\ route' = [backend |-> LabBackend, corpus |-> row.corpus,
                       status |-> "disabled", version |-> 1]
    /\ UNCHANGED <<request, proof, overtaken>>

\* The last probe grows too old to be relied on.
Age(b) ==
    /\ backend[b] # NoRow
    /\ backend[b].fresh
    /\ backend' = [backend EXCEPT ![b].fresh = FALSE]
    /\ UNCHANGED <<route, request, proof, overtaken>>

\* The session ends and with it what the request has read.
Finish(q) ==
    request' = [request EXCEPT ![q] =
       [kind |-> "update", target |-> NoRow, phase |-> "done", etag |-> NoRow,
        row |-> NoRow, path |-> NoRow, ready |-> FALSE]]

\* An administrator reads the resource that a later request is to change, and with it
\* its ETag.
Ask(q) ==
    /\ request[q].phase = "idle"
    /\ \/ \E k \in Edits, b \in Backends :
             /\ backend[b] # NoRow
             /\ request' = [request EXCEPT ![q] =
                   [kind |-> k, target |-> b, phase |-> "asked", etag |-> backend[b],
                    row |-> NoRow, path |-> NoRow, ready |-> FALSE]]
       \/ \E b \in Backends :
             request' = [request EXCEPT ![q] =
                [kind |-> "route", target |-> b, phase |-> "asked", etag |-> route,
                 row |-> NoRow, path |-> NoRow, ready |-> FALSE]]
    /\ UNCHANGED <<backend, route, proof, overtaken>>

\* require_current_etag and _require_upsert_etag: If-Match is "*" for a row that is not there.
EtagMatches(etag, row) ==
    \/ etag = NoRow /\ row = NoRow
    \/ etag # NoRow /\ row # NoRow /\ etag.version = row.version

\* The handler reads its rows; a request with another ETag is refused.
LoadEdit(q) ==
    LET r == request[q]  t == r.target IN
    /\ r.phase = "asked"
    /\ backend[t] # NoRow
    /\ EtagMatches(r.etag, IF r.kind = "route" THEN route ELSE backend[t])
    /\ request' = [request EXCEPT ![q] =
          [kind |-> r.kind, target |-> t, phase |-> "loaded", etag |-> r.etag,
           row |-> backend[t], path |-> route, ready |-> FALSE]]
    /\ UNCHANGED <<backend, route, proof, overtaken>>

\* probe_backend, probe_service and the refresh task read the configuration to probe; the
\* last two that of the lab's route.
LoadProbe(q) ==
    /\ request[q].phase = "idle"
    /\ \E k \in Probes, b \in Backends :
          /\ backend[b] # NoRow
          /\ k # "probe" => route # NoRow /\ route.backend = b
          /\ request' = [request EXCEPT ![q] =
                [kind |-> k, target |-> b, phase |-> "loaded", etag |-> NoRow,
                 row |-> backend[b], path |-> route, ready |-> FALSE]]
    /\ UNCHANGED <<backend, route, proof, overtaken>>

\* The backend answers the probe, in its own time; every other answer than a readiness of
\* the expected corpus counts as not ready.
Observe(q) ==
    LET r == request[q] IN
    /\ r.phase = "loaded"
    /\ r.kind \in Probes
    /\ \E answer \in BOOLEAN :
          request' = [request EXCEPT ![q] =
             [kind |-> r.kind, target |-> r.target, phase |-> "observed", etag |-> NoRow,
              row |-> r.row, path |-> r.path, ready |-> answer]]
    /\ UNCHANGED <<backend, route, proof, overtaken>>

\* The refresh task reads the rows anew and gives up if the configuration is no longer the
\* one it probed.
Recheck(q) ==
    LET r == request[q]  t == r.target IN
    /\ r.phase = "observed"
    /\ r.kind = "refresh"
    /\ route.backend = t
    /\ ConfigOf(backend[t]) = ConfigOf(r.row)
    /\ request' = [request EXCEPT ![q] =
          [kind |-> r.kind, target |-> t, phase |-> "checked", etag |-> NoRow,
           row |-> backend[t], path |-> route, ready |-> r.ready]]
    /\ UNCHANGED <<backend, route, proof, overtaken>>

\* A refusal, an error, or a worker that dies: what was not committed is gone.
GiveUp(q) ==
    /\ request[q].phase \notin {"idle", "done"}
    /\ Finish(q)
    /\ UNCHANGED <<backend, route, proof, overtaken>>

----------------------------------------------------------------------------
\* UPDATE ... WHERE id = ... AND version = the version loaded.
Unchanged(q) == backend[request[q].target].version = request[q].row.version

InvalidatesProbe(row, place, corpus) == place # row.place \/ corpus # row.corpus

StillReady(stored, loaded, place, corpus) ==
    IF InvalidatesProbe(loaded, place, corpus) THEN FALSE ELSE stored.ready

CommitUpdateOfReady(q) ==
    LET r == request[q]  t == r.target IN
    /\ r.phase = "loaded"
    /\ r.kind = "update"
    /\ Unchanged(q)
    /\ \E place \in Places, corpus \in Corpora, status \in Statuses :
          /\ status = "active" => ProbeIsFresh(r.row)
          /\ backend' = [backend EXCEPT ![t] =
                [place |-> place, secret |-> backend[t].secret, corpus |-> corpus,
                 status |-> status,
                 ready |-> StillReady(backend[t], r.row, place, corpus),
                 fresh |-> backend[t].fresh, version |-> r.row.version + 1]]
    /\ Finish(q)
    /\ UNCHANGED <<route, proof, overtaken>>

\* update_backend: a new place or corpus takes back the readiness, and an active backend
\* needs a current successful probe of what it will be.
CommitUpdate(q) ==
    LET r == request[q]  t == r.target IN
    /\ r.phase = "loaded"
    /\ r.kind = "update"
    /\ Unchanged(q)
    /\ \E place \in Places, corpus \in Corpora, status \in Statuses :
          /\ status = "active" => ~InvalidatesProbe(r.row, place, corpus) /\ ProbeIsFresh(r.row)
          /\ backend' = [backend EXCEPT ![t] =
                [place |-> place, secret |-> backend[t].secret, corpus |-> corpus,
                 status |-> status,
                 ready |-> StillReady(backend[t], r.row, place, corpus),
                 fresh |-> backend[t].fresh, version |-> r.row.version + 1]]
    /\ Finish(q)
    /\ UNCHANGED <<route, proof, overtaken>>

CommitRotateInPlace(q) ==
    LET r == request[q]  t == r.target IN
    /\ r.phase = "loaded"
    /\ r.kind = "rotate"
    /\ Unchanged(q)
    /\ \E secret \in Secrets :
          backend' = [backend EXCEPT ![t] =
             [place |-> backend[t].place, secret |-> secret, corpus |-> backend[t].corpus,
              status |-> backend[t].status, ready |-> FALSE, fresh |-> backend[t].fresh,
              version |-> r.row.version]]
    /\ Finish(q)
    /\ UNCHANGED <<route, proof, overtaken>>

\* rotate_backend_credential.
CommitRotate(q) ==
    LET r == request[q]  t == r.target IN
    /\ r.phase = "loaded"
    /\ r.kind = "rotate"
    /\ Unchanged(q)
    /\ \E secret \in Secrets :
          backend' = [backend EXCEPT ![t] =
             [place |-> backend[t].place, secret |-> secret, corpus |-> backend[t].corpus,
              status |-> backend[t].status, ready |-> FALSE, fresh |-> backend[t].fresh,
              version |-> r.row.version + 1]]
    /\ Finish(q)
    /\ UNCHANGED <<route, proof, overtaken>>

\* What was recorded as ready, when `answer' is recorded for the configuration of `row'.
Recorded(t, row, answer) ==
    proof' = IF answer THEN [proof EXCEPT ![t] = ConfigOf(row)] ELSE proof

CommitProbeLate(q) ==
    LET r == request[q]  t == r.target IN
    /\ r.phase = "observed"
    /\ r.kind = "probe"
    /\ backend' = [backend EXCEPT ![t] =
          [place |-> backend[t].place, secret |-> backend[t].secret,
           corpus |-> backend[t].corpus, status |-> backend[t].status,
           ready |-> r.ready, fresh |-> TRUE, version |-> backend[t].version + 1]]
    /\ Recorded(t, r.row, r.ready)
    /\ Finish(q)
    /\ UNCHANGED <<route, overtaken>>

\* probe_backend: the observation counts only if the row is still the one probed.
CommitProbe(q) ==
    LET r == request[q]  t == r.target IN
    /\ r.phase = "observed"
    /\ r.kind = "probe"
    /\ Unchanged(q)
    /\ backend' = [backend EXCEPT ![t] =
          [place |-> backend[t].place, secret |-> backend[t].secret,
           corpus |-> backend[t].corpus, status |-> backend[t].status,
           ready |-> r.ready, fresh |-> TRUE, version |-> r.row.version + 1]]
    /\ Recorded(t, r.row, r.ready)
    /\ Finish(q)
    /\ UNCHANGED <<route, overtaken>>

\* put_backend_route: the backend is tested when it is loaded; the version compared is
\* that of the route, whose absence the primary key of the new row stands for.
CommitRoute(q) ==
    LET r == request[q] IN
    /\ r.phase = "loaded"
    /\ r.kind = "route"
    /\ IF r.path = NoRow THEN route = NoRow ELSE route.version = r.path.version
    /\ \E status \in Statuses :
          /\ status = "active" => r.row.status = "active" /\ ProbeIsFresh(r.row)
          /\ route' = [backend |-> r.target, corpus |-> r.row.corpus, status |-> status,
                       version |-> IF r.path = NoRow THEN 1 ELSE r.path.version + 1]
    /\ Finish(q)
    /\ UNCHANGED <<backend, proof, overtaken>>

\* SQLAlchemy sends the columns whose value differs from the one loaded.
Sent(loaded, new, stored) == IF new = loaded THEN stored ELSE new

\* The end of probe_service, and of a refresh that rechecked: both rows are written by
\* primary key, whatever they hold by now.
CommitBlind(q) ==
    LET r == request[q]
        t == r.target
        status == IF r.ready THEN "active" ELSE "disabled"
    IN
    /\ \/ r.phase = "observed" /\ r.kind = "service"
       \/ r.phase = "checked"
    /\ backend' = [backend EXCEPT ![t] =
          [place |-> backend[t].place, secret |-> backend[t].secret,
           corpus |-> backend[t].corpus,
           status |-> Sent(r.row.status, status, backend[t].status),
           ready |-> Sent(r.row.ready, r.ready, backend[t].ready),
           fresh |-> TRUE, version |-> r.row.version + 1]]
    /\ route' = [backend |-> route.backend,
                 corpus |-> Sent(r.path.corpus, r.row.corpus, route.corpus),
                 status |-> Sent(r.path.status, status, route.status),
                 version |-> r.path.version + 1]
    /\ Recorded(t, r.row, r.ready)
    /\ overtaken' = overtaken
          \cup (IF Unchanged(q) THEN {} ELSE {t})
          \cup (IF route.version = r.path.version THEN {} ELSE {LabRoute})
    /\ Finish(q)

Step(q) ==
    \/ Ask(q) \/ LoadEdit(q) \/ LoadProbe(q) \/ Observe(q) \/ Recheck(q) \/ GiveUp(q)
    \/ CommitUpdate(q) \/ CommitRotate(q) \/ CommitProbe(q) \/ CommitRoute(q)
    \/ CommitBlind(q)

Next ==
    \/ Bootstrap
    \/ \E b \in Backends : Register(b) \/ Age(b)
    \/ \E q \in Requests : Step(q)

Spec == Init /\ [][Next]_vars

----------------------------------------------------------------------------
RequestRecord ==
    [kind : Kinds, target : Backends \cup {NoRow}, phase : Phases,
     etag : BackendRow \cup RouteRow \cup {NoRow}, row : BackendRow \cup {NoRow},
     path : RouteRow \cup {NoRow}, ready : BOOLEAN]

\* Types of all variables; rows that a request has loaded exist.
TypeOK ==
    /\ backend \in [Backends -> BackendRow \cup {NoRow}]
    /\ route \in RouteRow \cup {NoRow}
    /\ request \in [Requests -> RequestRecord]
    /\ proof \in [Backends -> Config \cup {NoRow}]
    /\ overtaken \subseteq Backends \cup {LabRoute}

\* A backend is taken for ready only with the very place, credential and corpus that a
\* probe found ready: every change of them takes the readiness back, and an observation
\* that comes after a change is refused.  Writes without comparison break this;
\* until one overtook another write, it holds.
ReadyWasProbed ==
    \A b \in Backends \ overtaken :
        backend[b] # NoRow /\ backend[b].ready => proof[b] = ConfigOf(backend[b])

\* An active backend has been found ready at its place and with its corpus; its credential
\* may have been rotated since, which leaves it active and unready.
ActiveWasProbed ==
    \A b \in Backends \ overtaken :
        backend[b] # NoRow /\ backend[b].status = "active" =>
            /\ proof[b] # NoRow
            /\ proof[b].place = backend[b].place
            /\ proof[b].corpus = backend[b].corpus

\* An ETag names one state: whoever holds the version of a row knows what it holds, hence
\* no change that an administrator has not seen is overwritten.
VersionNamesState ==
    \A q \in Requests :
        LET r == request[q] IN
        /\ /\ r.phase \in {"asked", "loaded"} /\ r.kind \in Edits
           /\ r.target \notin overtaken
           /\ r.etag.version = backend[r.target].version
           => SameBackend(r.etag, backend[r.target])
        /\ /\ r.phase \in {"asked", "loaded"} /\ r.kind = "route"
           /\ LabRoute \notin overtaken
           /\ r.etag # NoRow /\ route # NoRow
           /\ r.etag.version = route.version
           => SameRoute(r.etag, route)

=============================================================================
