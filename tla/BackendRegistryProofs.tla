------------------------ MODULE BackendRegistryProofs ------------------------
(****************************************************************************)
(* Until a write without comparison overtakes another, a version names one  *)
(* state of a row.  Hence what a comparing write finds unchanged is what it *)
(* loaded, and a readiness belongs to the configuration that was probed.    *)
(****************************************************************************)
EXTENDS BackendRegistry, TLAPS

USE RegistryAssumption

----------------------------------------------------------------------------
\* What a copy of a row says about the row, read before or just now.
KnowsBackend(copy, row) ==
    /\ copy.version <= row.version
    /\ copy.version = row.version => SameBackend(copy, row)

KnowsRoute(copy, row) ==
    /\ row # NoRow
    /\ copy.version <= row.version
    /\ copy.version = row.version => SameRoute(copy, row)

\* The copies each phase of a request holds.
Holds(r) ==
    /\ r.phase \notin {"idle", "done"} => r.target \in Backends
    /\ r.phase = "asked" => r.kind \in Edits \cup {"route"}
    /\ r.phase \in {"asked", "loaded"} /\ r.kind \in Edits => r.etag \in BackendRow
    /\ r.phase \in {"asked", "loaded"} /\ r.kind = "route" => r.etag \in RouteRow \cup {NoRow}
    /\ r.phase \in {"loaded", "observed", "checked"} => r.row \in BackendRow
    /\ r.phase = "observed" => r.kind \in Probes
    /\ r.phase = "checked" => r.kind = "refresh"
    /\ r.phase \in {"loaded", "observed", "checked"} /\ r.kind \in {"service", "refresh"}
          => r.path \in RouteRow

\* A request that holds a row names one that exists, and knows it unless it is overtaken.
KnowsTarget(r) ==
    /\ r.phase \in {"asked", "loaded"} /\ r.kind \in Edits =>
          /\ backend[r.target] \in BackendRow
          /\ r.target \notin overtaken => KnowsBackend(r.etag, backend[r.target])
    /\ r.phase \in {"loaded", "observed", "checked"} =>
          /\ backend[r.target] \in BackendRow
          /\ r.target \notin overtaken => KnowsBackend(r.row, backend[r.target])

KnowsPath(r) ==
    /\ r.phase \in {"asked", "loaded"} /\ r.kind = "route" /\ r.etag # NoRow =>
          /\ route \in RouteRow
          /\ LabRoute \notin overtaken => KnowsRoute(r.etag, route)
    /\ r.phase \in {"loaded", "observed", "checked"} /\ r.path # NoRow =>
          /\ route \in RouteRow
          /\ LabRoute \notin overtaken => KnowsRoute(r.path, route)

IInv ==
    /\ TypeOK
    /\ \A q \in Requests : Holds(request[q])
    /\ \A q \in Requests : KnowsTarget(request[q])
    /\ \A q \in Requests : KnowsPath(request[q])
    /\ ReadyWasProbed
    /\ ActiveWasProbed

----------------------------------------------------------------------------
\* What a step may do to a row that is not overtaken: leave it, let its probe age, or give
\* it the next version.
RowMoves(old, new) ==
    \/ new = old
    \/ /\ SameBackend(new, old)
       /\ new.version = old.version
    \/ new.version = old.version + 1

PathMoves(old, new) ==
    \/ new = old
    \/ new.version = old.version + 1

TablesMove ==
    /\ overtaken \subseteq overtaken'
    /\ \A b \in Backends :
          backend[b] \in BackendRow =>
             /\ backend'[b] \in BackendRow
             /\ b \notin overtaken' => RowMoves(backend[b], backend'[b])
    /\ route \in RouteRow =>
          /\ route' \in RouteRow
          /\ LabRoute \notin overtaken' => PathMoves(route, route')

LEMMA KnowledgeOfBackendLasts ==
    ASSUME NEW copy \in BackendRow, NEW old \in BackendRow, NEW new \in BackendRow,
           KnowsBackend(copy, old), RowMoves(old, new)
    PROVE  KnowsBackend(copy, new)
<1>1. copy.version \in Nat /\ old.version \in Nat /\ new.version \in Nat
  BY DEF BackendRow
<1>2. CASE new = old
  BY <1>2
<1>3. CASE SameBackend(new, old) /\ new.version = old.version
  BY <1>1, <1>3 DEF KnowsBackend, SameBackend, ConfigOf
<1>4. CASE new.version = old.version + 1
  BY <1>1, <1>4 DEF KnowsBackend
<1> QED  BY <1>2, <1>3, <1>4 DEF RowMoves

LEMMA KnowledgeOfRouteLasts ==
    ASSUME NEW copy \in RouteRow, NEW old \in RouteRow, NEW new \in RouteRow,
           KnowsRoute(copy, old), PathMoves(old, new)
    PROVE  KnowsRoute(copy, new)
<1>1. copy.version \in Nat /\ old.version \in Nat /\ new.version \in Nat
  BY DEF RouteRow
<1>2. new # NoRow
  OBVIOUS
<1>3. CASE new = old
  BY <1>3
<1>4. CASE new.version = old.version + 1
  BY <1>1, <1>2, <1>4 DEF KnowsRoute
<1> QED  BY <1>3, <1>4 DEF PathMoves

\* A request that does nothing keeps what it knows.
LEMMA KnowledgeLasts ==
    ASSUME NEW r \in RequestRecord, Holds(r), KnowsTarget(r), KnowsPath(r), TablesMove
    PROVE  KnowsTarget(r)' /\ KnowsPath(r)'
<1>1. KnowsTarget(r)'
  <2>1. ASSUME r.phase \in {"asked", "loaded"}, r.kind \in Edits
        PROVE  /\ backend'[r.target] \in BackendRow
               /\ r.target \notin overtaken' => KnowsBackend(r.etag, backend'[r.target])
    <3>1. r.target \in Backends /\ r.etag \in BackendRow
      BY <2>1 DEF Holds
    <3>2. backend[r.target] \in BackendRow /\ backend'[r.target] \in BackendRow
      BY <2>1, <3>1 DEF KnowsTarget, TablesMove
    <3>3. ASSUME r.target \notin overtaken' PROVE KnowsBackend(r.etag, backend'[r.target])
      BY <2>1, <3>1, <3>2, <3>3, KnowledgeOfBackendLasts DEF KnowsTarget, TablesMove
    <3> QED  BY <3>2, <3>3
  <2>2. ASSUME r.phase \in {"loaded", "observed", "checked"}
        PROVE  /\ backend'[r.target] \in BackendRow
               /\ r.target \notin overtaken' => KnowsBackend(r.row, backend'[r.target])
    <3>1. r.target \in Backends /\ r.row \in BackendRow
      BY <2>2 DEF Holds
    <3>2. backend[r.target] \in BackendRow /\ backend'[r.target] \in BackendRow
      BY <2>2, <3>1 DEF KnowsTarget, TablesMove
    <3>3. ASSUME r.target \notin overtaken' PROVE KnowsBackend(r.row, backend'[r.target])
      BY <2>2, <3>1, <3>2, <3>3, KnowledgeOfBackendLasts DEF KnowsTarget, TablesMove
    <3> QED  BY <3>2, <3>3
  <2> QED  BY <2>1, <2>2 DEF KnowsTarget
<1>2. KnowsPath(r)'
  <2>1. ASSUME r.phase \in {"asked", "loaded"}, r.kind = "route", r.etag # NoRow
        PROVE  /\ route' \in RouteRow
               /\ LabRoute \notin overtaken' => KnowsRoute(r.etag, route')
    <3>1. r.etag \in RouteRow
      BY <2>1 DEF Holds
    <3>2. route \in RouteRow /\ route' \in RouteRow
      BY <2>1 DEF KnowsPath, TablesMove
    <3>3. ASSUME LabRoute \notin overtaken' PROVE KnowsRoute(r.etag, route')
      BY <2>1, <3>1, <3>2, <3>3, KnowledgeOfRouteLasts DEF KnowsPath, TablesMove
    <3> QED  BY <3>2, <3>3
  <2>2. ASSUME r.phase \in {"loaded", "observed", "checked"}, r.path # NoRow
        PROVE  /\ route' \in RouteRow
               /\ LabRoute \notin overtaken' => KnowsRoute(r.path, route')
    <3>1. r.path \in RouteRow
      BY <2>2 DEF RequestRecord
    <3>2. route \in RouteRow /\ route' \in RouteRow
      BY <2>2 DEF KnowsPath, TablesMove
    <3>3. ASSUME LabRoute \notin overtaken' PROVE KnowsRoute(r.path, route')
      BY <2>2, <3>1, <3>2, <3>3, KnowledgeOfRouteLasts DEF KnowsPath, TablesMove
    <3> QED  BY <3>2, <3>3
  <2> QED  BY <2>1, <2>2 DEF KnowsPath
<1> QED  BY <1>1, <1>2

----------------------------------------------------------------------------
\* What each step of a request `q' has to establish.
GoodStep(q) ==
    /\ TypeOK'
    /\ TablesMove
    /\ \A p \in Requests \ {q} : request'[p] = request[p]
    /\ Holds(request'[q])
    /\ KnowsTarget(request[q])'
    /\ KnowsPath(request[q])'
    /\ ReadyWasProbed'
    /\ ActiveWasProbed'

LEMMA GoodStepsKeepIInv ==
    ASSUME IInv, NEW q \in Requests, GoodStep(q)
    PROVE  IInv'
<1>1. ASSUME NEW p \in Requests
      PROVE  Holds(request'[p]) /\ KnowsTarget(request[p])' /\ KnowsPath(request[p])'
  <2>1. CASE p = q
    BY <2>1 DEF GoodStep
  <2>2. CASE p # q
    <3>1. request'[p] = request[p] /\ request[p] \in RequestRecord
      BY <2>2 DEF GoodStep, IInv, TypeOK
    <3>2. Holds(request[p]) /\ KnowsTarget(request[p]) /\ KnowsPath(request[p])
      BY DEF IInv
    <3>3. PICK r : r = request[p]
      OBVIOUS
    <3>4. KnowsTarget(r)' /\ KnowsPath(r)'
      BY <3>1, <3>2, <3>3, KnowledgeLasts DEF GoodStep
    <3> QED  BY <3>1, <3>2, <3>3, <3>4
  <2> QED  BY <2>1, <2>2
<1> QED  BY <1>1 DEF GoodStep, IInv

LEMMA TheDoneKnowNothing ==
    ASSUME NEW r \in RequestRecord, r.phase = "done"
    PROVE  Holds(r) /\ KnowsTarget(r)' /\ KnowsPath(r)'
BY DEF Holds, KnowsTarget, KnowsPath

LEMMA FinishEnds ==
    ASSUME TypeOK, NEW q \in Requests, Finish(q)
    PROVE  /\ request' \in [Requests -> RequestRecord]
           /\ \A p \in Requests \ {q} : request'[p] = request[p]
           /\ request'[q].phase = "done"
<1>1. [kind |-> "update", target |-> NoRow, phase |-> "done", etag |-> NoRow,
       row |-> NoRow, path |-> NoRow, ready |-> FALSE] \in RequestRecord
  BY DEF RequestRecord, Kinds, Edits, Phases
<1> QED  BY <1>1 DEF Finish, TypeOK

\* While the tables stay, TablesMove holds and so do the invariants of the backends.
LEMMA TablesStay ==
    ASSUME IInv, UNCHANGED <<backend, route, proof, overtaken>>
    PROVE  TablesMove /\ ReadyWasProbed' /\ ActiveWasProbed'
BY DEF IInv, TablesMove, RowMoves, PathMoves, ReadyWasProbed, ActiveWasProbed

----------------------------------------------------------------------------
\* Steps that only read.
LEMMA ReadingIsGood ==
    ASSUME IInv, NEW q \in Requests, NEW r \in RequestRecord,
           UNCHANGED <<backend, route, proof, overtaken>>,
           request' = [request EXCEPT ![q] = r],
           Holds(r), KnowsTarget(r), KnowsPath(r)
    PROVE  GoodStep(q)
<1>1. TypeOK /\ TablesMove /\ ReadyWasProbed' /\ ActiveWasProbed'
  BY TablesStay DEF IInv
<1>2. request'[q] = r /\ \A p \in Requests \ {q} : request'[p] = request[p]
  BY <1>1 DEF TypeOK
<1>3. TypeOK'
  BY <1>1 DEF TypeOK
<1>4. KnowsTarget(r)' /\ KnowsPath(r)'
  BY DEF KnowsTarget, KnowsPath
<1> QED  BY <1>1, <1>2, <1>3, <1>4 DEF GoodStep

LEMMA RowsKnowThemselves ==
    /\ \A row \in BackendRow : KnowsBackend(row, row)
    /\ \A row \in RouteRow : KnowsRoute(row, row)
<1>1. ASSUME NEW row \in BackendRow PROVE KnowsBackend(row, row)
  <2>1. row.version \in Nat
    BY DEF BackendRow
  <2> QED  BY <2>1 DEF KnowsBackend, SameBackend
<1>2. ASSUME NEW row \in RouteRow PROVE KnowsRoute(row, row)
  <2>1. row.version \in Nat /\ row # NoRow
    BY DEF RouteRow
  <2> QED  BY <2>1 DEF KnowsRoute, SameRoute
<1> QED  BY <1>1, <1>2

LEMMA AskIsGood ==
    ASSUME IInv, NEW q \in Requests, Ask(q)
    PROVE  GoodStep(q)
<1>1. TypeOK
  BY DEF IInv
<1>2. CASE \E k \in Edits, b \in Backends :
              /\ backend[b] # NoRow
              /\ request' = [request EXCEPT ![q] =
                    [kind |-> k, target |-> b, phase |-> "asked", etag |-> backend[b],
                     row |-> NoRow, path |-> NoRow, ready |-> FALSE]]
  <2>1. PICK k \in Edits, b \in Backends :
              /\ backend[b] # NoRow
              /\ request' = [request EXCEPT ![q] =
                    [kind |-> k, target |-> b, phase |-> "asked", etag |-> backend[b],
                     row |-> NoRow, path |-> NoRow, ready |-> FALSE]]
    BY <1>2
  <2>2. backend[b] \in BackendRow
    BY <1>1, <2>1 DEF TypeOK
  <2>3. PICK r : r = [kind |-> k, target |-> b, phase |-> "asked", etag |-> backend[b],
                      row |-> NoRow, path |-> NoRow, ready |-> FALSE]
    OBVIOUS
  <2>4. r \in RequestRecord
    BY <2>2, <2>3 DEF RequestRecord, Kinds, Phases
  <2>5. r.phase = "asked" /\ r.kind = k /\ r.target = b /\ r.etag = backend[b]
    BY <2>3
  <2>6. Holds(r)
    BY <2>2, <2>5 DEF Holds, Edits
  <2>7. KnowsTarget(r)
    BY <2>2, <2>5, RowsKnowThemselves DEF KnowsTarget
  <2>8. KnowsPath(r)
    BY <2>5 DEF KnowsPath, Edits
  <2> QED  BY <2>1, <2>3, <2>4, <2>6, <2>7, <2>8, ReadingIsGood DEF Ask
<1>3. CASE \E b \in Backends :
              request' = [request EXCEPT ![q] =
                 [kind |-> "route", target |-> b, phase |-> "asked", etag |-> route,
                  row |-> NoRow, path |-> NoRow, ready |-> FALSE]]
  <2>1. PICK b \in Backends :
              request' = [request EXCEPT ![q] =
                 [kind |-> "route", target |-> b, phase |-> "asked", etag |-> route,
                  row |-> NoRow, path |-> NoRow, ready |-> FALSE]]
    BY <1>3
  <2>2. route \in RouteRow \cup {NoRow}
    BY <1>1 DEF TypeOK
  <2>3. PICK r : r = [kind |-> "route", target |-> b, phase |-> "asked", etag |-> route,
                      row |-> NoRow, path |-> NoRow, ready |-> FALSE]
    OBVIOUS
  <2>4. r \in RequestRecord
    BY <2>2, <2>3 DEF RequestRecord, Kinds, Phases
  <2>5. r.phase = "asked" /\ r.kind = "route" /\ r.target = b /\ r.etag = route
    BY <2>3
  <2>6. Holds(r)
    BY <2>2, <2>5 DEF Holds, Edits
  <2>7. KnowsTarget(r)
    BY <2>5 DEF KnowsTarget, Edits
  <2>8. KnowsPath(r)
    BY <2>2, <2>5, RowsKnowThemselves DEF KnowsPath
  <2> QED  BY <2>1, <2>3, <2>4, <2>6, <2>7, <2>8, ReadingIsGood DEF Ask
<1> QED  BY <1>2, <1>3 DEF Ask

LEMMA LoadEditIsGood ==
    ASSUME IInv, NEW q \in Requests, LoadEdit(q)
    PROVE  GoodStep(q)
<1>1. PICK old \in RequestRecord : old = request[q]
  BY DEF IInv, TypeOK
<1>2. Holds(old) /\ KnowsTarget(old) /\ KnowsPath(old)
  BY <1>1 DEF IInv
<1>3. /\ old.phase = "asked"
      /\ old.kind \in Edits \cup {"route"}
      /\ old.target \in Backends
  BY <1>1, <1>2 DEF LoadEdit, Holds
<1>4. backend[old.target] \in BackendRow /\ route \in RouteRow \cup {NoRow}
  BY <1>1, <1>3 DEF LoadEdit, IInv, TypeOK
<1>5. PICK r : r = [kind |-> old.kind, target |-> old.target, phase |-> "loaded",
                    etag |-> old.etag, row |-> backend[old.target], path |-> route,
                    ready |-> FALSE]
  OBVIOUS
<1>6. /\ r.phase = "loaded" /\ r.kind = old.kind /\ r.target = old.target
      /\ r.etag = old.etag /\ r.row = backend[old.target] /\ r.path = route
  BY <1>5
<1>7. r \in RequestRecord
  BY <1>4, <1>5 DEF RequestRecord, Phases
<1>8. Holds(r)
  BY <1>2, <1>3, <1>4, <1>6 DEF Holds, Edits
<1>9. KnowsTarget(r)
  BY <1>2, <1>3, <1>4, <1>6, RowsKnowThemselves DEF KnowsTarget
<1>10. KnowsPath(r)
  BY <1>2, <1>3, <1>4, <1>6, RowsKnowThemselves DEF KnowsPath
<1>11. request' = [request EXCEPT ![q] = r] /\ UNCHANGED <<backend, route, proof, overtaken>>
  BY <1>1, <1>5 DEF LoadEdit
<1> QED  BY <1>7, <1>8, <1>9, <1>10, <1>11, ReadingIsGood

LEMMA LoadProbeIsGood ==
    ASSUME IInv, NEW q \in Requests, LoadProbe(q)
    PROVE  GoodStep(q)
<1>1. PICK k \in Probes, b \in Backends :
         /\ backend[b] # NoRow
         /\ k # "probe" => route # NoRow /\ route.backend = b
         /\ request' = [request EXCEPT ![q] =
               [kind |-> k, target |-> b, phase |-> "loaded", etag |-> NoRow,
                row |-> backend[b], path |-> route, ready |-> FALSE]]
  BY DEF LoadProbe
<1>2. backend[b] \in BackendRow /\ route \in RouteRow \cup {NoRow}
  BY <1>1 DEF IInv, TypeOK
<1>3. PICK r : r = [kind |-> k, target |-> b, phase |-> "loaded", etag |-> NoRow,
                    row |-> backend[b], path |-> route, ready |-> FALSE]
  OBVIOUS
<1>4. /\ r.phase = "loaded" /\ r.kind = k /\ r.target = b
      /\ r.row = backend[b] /\ r.path = route
  BY <1>3
<1>5. r \in RequestRecord
  BY <1>2, <1>3 DEF RequestRecord, Kinds, Phases
<1>6. Holds(r)
  BY <1>1, <1>2, <1>4 DEF Holds, Edits, Probes
<1>7. KnowsTarget(r)
  BY <1>2, <1>4, RowsKnowThemselves DEF KnowsTarget, Edits, Probes
<1>8. KnowsPath(r)
  BY <1>2, <1>4, RowsKnowThemselves DEF KnowsPath, Probes
<1> QED  BY <1>1, <1>3, <1>5, <1>6, <1>7, <1>8, ReadingIsGood DEF LoadProbe

LEMMA ObserveIsGood ==
    ASSUME IInv, NEW q \in Requests, Observe(q)
    PROVE  GoodStep(q)
<1>1. PICK old \in RequestRecord : old = request[q]
  BY DEF IInv, TypeOK
<1>2. Holds(old) /\ KnowsTarget(old) /\ KnowsPath(old)
  BY <1>1 DEF IInv
<1>3. PICK answer \in BOOLEAN :
         request' = [request EXCEPT ![q] =
            [kind |-> old.kind, target |-> old.target, phase |-> "observed", etag |-> NoRow,
             row |-> old.row, path |-> old.path, ready |-> answer]]
  BY <1>1 DEF Observe
<1>4. PICK r : r = [kind |-> old.kind, target |-> old.target, phase |-> "observed",
                    etag |-> NoRow, row |-> old.row, path |-> old.path, ready |-> answer]
  OBVIOUS
<1>5. /\ r.phase = "observed" /\ r.kind = old.kind /\ r.target = old.target
      /\ r.row = old.row /\ r.path = old.path
  BY <1>4
<1>6. old.phase = "loaded" /\ old.kind \in Probes
  BY <1>1 DEF Observe
<1>7. r \in RequestRecord
  BY <1>4 DEF RequestRecord, Phases
<1>8. Holds(r)
  BY <1>2, <1>5, <1>6 DEF Holds
<1>9. KnowsTarget(r)
  BY <1>2, <1>5, <1>6 DEF KnowsTarget
<1>10. KnowsPath(r)
  BY <1>2, <1>5, <1>6 DEF KnowsPath
<1> QED  BY <1>3, <1>4, <1>7, <1>8, <1>9, <1>10, ReadingIsGood DEF Observe

LEMMA RecheckIsGood ==
    ASSUME IInv, NEW q \in Requests, Recheck(q)
    PROVE  GoodStep(q)
<1>1. PICK old \in RequestRecord : old = request[q]
  BY DEF IInv, TypeOK
<1>2. Holds(old) /\ KnowsTarget(old) /\ KnowsPath(old)
  BY <1>1 DEF IInv
<1>3. old.phase = "observed" /\ old.kind = "refresh" /\ old.target \in Backends
  BY <1>1, <1>2 DEF Recheck, Holds
<1>4. backend[old.target] \in BackendRow
  BY <1>2, <1>3 DEF KnowsTarget
<1>5. route \in RouteRow
  BY <1>2, <1>3 DEF KnowsPath, Holds
<1>6. PICK r : r = [kind |-> old.kind, target |-> old.target, phase |-> "checked",
                    etag |-> NoRow, row |-> backend[old.target], path |-> route,
                    ready |-> old.ready]
  OBVIOUS
<1>7. /\ r.phase = "checked" /\ r.kind = old.kind /\ r.target = old.target
      /\ r.row = backend[old.target] /\ r.path = route
  BY <1>6
<1>8. r \in RequestRecord
  BY <1>4, <1>5, <1>6 DEF RequestRecord, Phases
<1>9. Holds(r)
  BY <1>3, <1>4, <1>5, <1>7 DEF Holds
<1>10. KnowsTarget(r)
  BY <1>4, <1>7, RowsKnowThemselves DEF KnowsTarget
<1>11. KnowsPath(r)
  BY <1>5, <1>7, RowsKnowThemselves DEF KnowsPath
<1>12. request' = [request EXCEPT ![q] = r] /\ UNCHANGED <<backend, route, proof, overtaken>>
  BY <1>1, <1>6 DEF Recheck
<1> QED  BY <1>8, <1>9, <1>10, <1>11, <1>12, ReadingIsGood

LEMMA GiveUpIsGood ==
    ASSUME IInv, NEW q \in Requests, GiveUp(q)
    PROVE  GoodStep(q)
<1>1. TypeOK /\ TablesMove /\ ReadyWasProbed' /\ ActiveWasProbed'
  BY TablesStay DEF GiveUp, IInv
<1>2. /\ request' \in [Requests -> RequestRecord]
      /\ \A p \in Requests \ {q} : request'[p] = request[p]
      /\ request'[q].phase = "done"
  BY <1>1, FinishEnds DEF GiveUp
<1>3. PICK r \in RequestRecord : r = request'[q]
  BY <1>2
<1>4. Holds(request'[q]) /\ KnowsTarget(request[q])' /\ KnowsPath(request[q])'
  BY <1>2, <1>3, TheDoneKnowNothing DEF Holds, KnowsTarget, KnowsPath
<1>5. TypeOK'
  BY <1>1, <1>2 DEF TypeOK, GiveUp
<1> QED  BY <1>1, <1>2, <1>4, <1>5 DEF GoodStep

----------------------------------------------------------------------------
\* Steps that write and end the request.
Proven(config, row) ==
    /\ row.ready => config = ConfigOf(row)
    /\ row.status = "active" =>
          config # NoRow /\ config.place = row.place /\ config.corpus = row.corpus

LEMMA InvariantsAreProven ==
    ASSUME IInv, NEW b \in Backends, backend[b] \in BackendRow, b \notin overtaken
    PROVE  Proven(proof[b], backend[b])
BY DEF IInv, ReadyWasProbed, ActiveWasProbed, Proven

LEMMA ProvenIsInvariant ==
    ASSUME \A b \in Backends : backend'[b] # NoRow /\ b \notin overtaken'
                                 => Proven(proof'[b], backend'[b])
    PROVE  ReadyWasProbed' /\ ActiveWasProbed'
BY DEF ReadyWasProbed, ActiveWasProbed, Proven

LEMMA CommitIsGood ==
    ASSUME IInv, NEW q \in Requests, Finish(q), TablesMove,
           backend' \in [Backends -> BackendRow \cup {NoRow}],
           route' \in RouteRow \cup {NoRow},
           proof' \in [Backends -> Config \cup {NoRow}],
           overtaken' \subseteq Backends \cup {LabRoute},
           ReadyWasProbed', ActiveWasProbed'
    PROVE  GoodStep(q)
<1>1. /\ request' \in [Requests -> RequestRecord]
      /\ \A p \in Requests \ {q} : request'[p] = request[p]
      /\ request'[q].phase = "done"
  BY FinishEnds DEF IInv
<1>2. PICK r \in RequestRecord : r = request'[q]
  BY <1>1
<1>3. Holds(request'[q]) /\ KnowsTarget(request[q])' /\ KnowsPath(request[q])'
  BY <1>1, <1>2, TheDoneKnowNothing DEF Holds, KnowsTarget, KnowsPath
<1>4. TypeOK'
  BY <1>1 DEF TypeOK
<1> QED  BY <1>1, <1>3, <1>4 DEF GoodStep

\* The row of `t' gets its next version and is as proven as a row has to be.
LEMMA BackendWriteIsGood ==
    ASSUME IInv, NEW q \in Requests, Finish(q),
           NEW t \in Backends, NEW row \in BackendRow,
           backend[t] \in BackendRow, backend' = [backend EXCEPT ![t] = row],
           proof' \in [Backends -> Config \cup {NoRow}],
           \A b \in Backends \ {t} : proof'[b] = proof[b],
           overtaken \subseteq overtaken', overtaken' \subseteq Backends \cup {LabRoute},
           route' \in RouteRow \cup {NoRow},
           route \in RouteRow => /\ route' \in RouteRow
                                 /\ LabRoute \notin overtaken' => PathMoves(route, route'),
           t \notin overtaken' => /\ row.version = backend[t].version + 1
                                  /\ Proven(proof'[t], row)
    PROVE  GoodStep(q)
<1>1. backend \in [Backends -> BackendRow \cup {NoRow}]
  BY DEF IInv, TypeOK
<1>2. /\ backend' \in [Backends -> BackendRow \cup {NoRow}]
      /\ backend'[t] = row
      /\ \A b \in Backends \ {t} : backend'[b] = backend[b]
  BY <1>1
<1>3. TablesMove
  <2>1. ASSUME NEW b \in Backends, backend[b] \in BackendRow
        PROVE  /\ backend'[b] \in BackendRow
               /\ b \notin overtaken' => RowMoves(backend[b], backend'[b])
    <3>1. CASE b = t
      BY <1>2, <3>1 DEF RowMoves
    <3>2. CASE b # t
      BY <1>2, <2>1, <3>2 DEF RowMoves
    <3> QED  BY <3>1, <3>2
  <2> QED  BY <2>1 DEF TablesMove
<1>4. ASSUME NEW b \in Backends, backend'[b] # NoRow, b \notin overtaken'
      PROVE  Proven(proof'[b], backend'[b])
  <2>1. CASE b = t
    BY <1>2, <1>4, <2>1
  <2>2. CASE b # t
    <3>1. backend'[b] = backend[b] /\ proof'[b] = proof[b]
      BY <1>2, <2>2
    <3>2. backend[b] \in BackendRow /\ b \notin overtaken
      BY <1>1, <1>4, <3>1
    <3> QED  BY <3>1, <3>2, InvariantsAreProven
  <2> QED  BY <2>1, <2>2
<1> QED  BY <1>2, <1>3, <1>4, ProvenIsInvariant, CommitIsGood

\* What a write that found its row unchanged knows of it.
LEMMA UnchangedIsKnown ==
    ASSUME IInv, NEW q \in Requests,
           request[q].phase \in {"loaded", "observed", "checked"}
    PROVE  /\ request[q].target \in Backends
           /\ request[q].row \in BackendRow
           /\ backend[request[q].target] \in BackendRow
           /\ /\ request[q].target \notin overtaken
              /\ Unchanged(q)
              => /\ SameBackend(request[q].row, backend[request[q].target])
                 /\ Proven(proof[request[q].target], backend[request[q].target])
<1>1. Holds(request[q]) /\ KnowsTarget(request[q])
  BY DEF IInv
<1>2. request[q].target \in Backends /\ request[q].row \in BackendRow
  BY <1>1 DEF Holds
<1>3. backend[request[q].target] \in BackendRow
  BY <1>1 DEF KnowsTarget
<1>4. ASSUME request[q].target \notin overtaken, Unchanged(q)
      PROVE  /\ SameBackend(request[q].row, backend[request[q].target])
             /\ Proven(proof[request[q].target], backend[request[q].target])
  <2>1. KnowsBackend(request[q].row, backend[request[q].target])
    BY <1>1, <1>4 DEF KnowsTarget
  <2>2. SameBackend(request[q].row, backend[request[q].target])
    BY <1>4, <2>1 DEF KnowsBackend, Unchanged
  <2> QED  BY <1>2, <1>3, <1>4, <2>2, InvariantsAreProven
<1> QED  BY <1>2, <1>3, <1>4

LEMMA CommitUpdateIsGood ==
    ASSUME IInv, NEW q \in Requests, CommitUpdate(q)
    PROVE  GoodStep(q)
<1>1. PICK r, t, old : r = request[q] /\ t = request[q].target /\ old = backend[t]
  OBVIOUS
<1>2. r.phase = "loaded" /\ Unchanged(q) /\ Finish(q)
  BY <1>1 DEF CommitUpdate
<1>3. t \in Backends /\ r.row \in BackendRow /\ old \in BackendRow
  BY <1>1, <1>2, UnchangedIsKnown
<1>4. t \notin overtaken => SameBackend(r.row, old) /\ Proven(proof[t], old)
  BY <1>1, <1>2, UnchangedIsKnown
<1>5. old.version = r.row.version
  BY <1>1, <1>2 DEF Unchanged
<1>6. PICK place \in Places, corpus \in Corpora, status \in Statuses :
         /\ status = "active" => ~InvalidatesProbe(r.row, place, corpus) /\ ProbeIsFresh(r.row)
         /\ backend' = [backend EXCEPT ![t] =
               [place |-> place, secret |-> old.secret, corpus |-> corpus, status |-> status,
                ready |-> StillReady(old, r.row, place, corpus),
                fresh |-> old.fresh, version |-> r.row.version + 1]]
  BY <1>1 DEF CommitUpdate
<1>7. PICK row : row =
         [place |-> place, secret |-> old.secret, corpus |-> corpus, status |-> status,
          ready |-> StillReady(old, r.row, place, corpus),
          fresh |-> old.fresh, version |-> r.row.version + 1]
  OBVIOUS
<1>8. /\ row.place = place /\ row.secret = old.secret /\ row.corpus = corpus
      /\ row.status = status /\ row.version = r.row.version + 1
      /\ row.ready = StillReady(old, r.row, place, corpus)
  BY <1>7
<1>9. row \in BackendRow
  <2>1. StillReady(old, r.row, place, corpus) \in BOOLEAN
    BY <1>3 DEF StillReady, BackendRow
  <2> QED  BY <1>3, <1>7, <2>1 DEF BackendRow
<1>10. ASSUME t \notin overtaken PROVE Proven(proof[t], row)
  <2>1. r.row.place = old.place /\ r.row.corpus = old.corpus /\ r.row.ready = old.ready
    BY <1>4, <1>10 DEF SameBackend, ConfigOf
  <2>2. ASSUME place = old.place, corpus = old.corpus, old.ready
        PROVE  proof[t] = ConfigOf(row)
    BY <1>4, <1>8, <1>10, <2>2 DEF Proven, ConfigOf
  <2>3. ASSUME row.ready PROVE proof[t] = ConfigOf(row)
    <3>1. ~InvalidatesProbe(r.row, place, corpus) /\ old.ready
      BY <1>8, <2>3 DEF StillReady
    <3> QED  BY <2>1, <2>2, <3>1 DEF InvalidatesProbe
  <2>4. ASSUME row.status = "active" PROVE proof[t] = ConfigOf(row)
    <3>1. ~InvalidatesProbe(r.row, place, corpus) /\ r.row.ready
      BY <1>6, <1>8, <2>4 DEF ProbeIsFresh
    <3> QED  BY <2>1, <2>2, <3>1 DEF InvalidatesProbe
  <2>5. ConfigOf(row).place = row.place /\ ConfigOf(row).corpus = row.corpus
    BY DEF ConfigOf
  <2>6. ConfigOf(row) \in Config
    BY <1>9 DEF ConfigOf, Config, BackendRow
  <2> QED  BY <2>3, <2>4, <2>5, <2>6 DEF Proven
<1>11. UNCHANGED <<route, proof, overtaken>>
  BY DEF CommitUpdate
<1>12. TypeOK
  BY DEF IInv
<1>13. backend' = [backend EXCEPT ![t] = row]
  BY <1>6, <1>7
<1> QED
  BY <1>1, <1>2, <1>3, <1>5, <1>8, <1>9, <1>10, <1>11, <1>12, <1>13, BackendWriteIsGood
  DEF TypeOK, PathMoves

LEMMA CommitRotateIsGood ==
    ASSUME IInv, NEW q \in Requests, CommitRotate(q)
    PROVE  GoodStep(q)
<1>1. PICK r, t, old : r = request[q] /\ t = request[q].target /\ old = backend[t]
  OBVIOUS
<1>2. r.phase = "loaded" /\ Unchanged(q) /\ Finish(q)
  BY <1>1 DEF CommitRotate
<1>3. t \in Backends /\ r.row \in BackendRow /\ old \in BackendRow
  BY <1>1, <1>2, UnchangedIsKnown
<1>4. t \notin overtaken => Proven(proof[t], old)
  BY <1>1, <1>2, UnchangedIsKnown
<1>5. old.version = r.row.version
  BY <1>1, <1>2 DEF Unchanged
<1>6. PICK secret \in Secrets :
         backend' = [backend EXCEPT ![t] =
            [place |-> old.place, secret |-> secret, corpus |-> old.corpus,
             status |-> old.status, ready |-> FALSE, fresh |-> old.fresh,
             version |-> r.row.version + 1]]
  BY <1>1 DEF CommitRotate
<1>7. PICK row : row = [place |-> old.place, secret |-> secret, corpus |-> old.corpus,
                        status |-> old.status, ready |-> FALSE, fresh |-> old.fresh,
                        version |-> r.row.version + 1]
  OBVIOUS
<1>8. /\ row.place = old.place /\ row.corpus = old.corpus /\ row.status = old.status
      /\ row.ready = FALSE /\ row.version = r.row.version + 1
  BY <1>7
<1>9. row \in BackendRow
  BY <1>3, <1>7 DEF BackendRow
<1>10. ASSUME t \notin overtaken PROVE Proven(proof[t], row)
  BY <1>4, <1>8, <1>10 DEF Proven
<1>11. UNCHANGED <<route, proof, overtaken>>
  BY DEF CommitRotate
<1>12. TypeOK
  BY DEF IInv
<1>13. backend' = [backend EXCEPT ![t] = row]
  BY <1>6, <1>7
<1> QED
  BY <1>1, <1>2, <1>3, <1>5, <1>8, <1>9, <1>10, <1>11, <1>12, <1>13, BackendWriteIsGood
  DEF TypeOK, PathMoves

\* What `Recorded' leaves of the history.
LEMMA RecordedProof ==
    ASSUME TypeOK, NEW t \in Backends, NEW row \in BackendRow, NEW answer \in BOOLEAN,
           Recorded(t, row, answer)
    PROVE  /\ proof' \in [Backends -> Config \cup {NoRow}]
           /\ \A b \in Backends \ {t} : proof'[b] = proof[b]
           /\ proof'[t] = IF answer THEN ConfigOf(row) ELSE proof[t]
<1>1. ConfigOf(row) \in Config
  BY DEF ConfigOf, Config, BackendRow
<1> QED  BY <1>1 DEF Recorded, TypeOK

\* A row that carries the answer of a probe of what it holds.
LEMMA ProbedIsProven ==
    ASSUME NEW old \in BackendRow, NEW row \in BackendRow, NEW loaded \in BackendRow,
           NEW answer \in BOOLEAN, NEW config,
           ConfigOf(loaded) = ConfigOf(old), ConfigOf(row) = ConfigOf(old),
           row.ready = answer, row.status = "active" => answer \/ old.status = "active",
           Proven(config, old)
    PROVE  Proven(IF answer THEN ConfigOf(loaded) ELSE config, row)
<1>1. row.place = old.place /\ row.corpus = old.corpus
  BY DEF ConfigOf
<1>2. ConfigOf(row).place = row.place /\ ConfigOf(row).corpus = row.corpus
  BY DEF ConfigOf
<1>3. ConfigOf(row) \in Config
  BY DEF ConfigOf, Config, BackendRow
<1>4. CASE answer
  BY <1>2, <1>3, <1>4 DEF Proven
<1>5. CASE ~answer
  BY <1>1, <1>5 DEF Proven
<1> QED  BY <1>4, <1>5

LEMMA CommitProbeIsGood ==
    ASSUME IInv, NEW q \in Requests, CommitProbe(q)
    PROVE  GoodStep(q)
<1>1. PICK r, t, old : r = request[q] /\ t = request[q].target /\ old = backend[t]
  OBVIOUS
<1>2. r.phase = "observed" /\ Unchanged(q) /\ Finish(q)
  BY <1>1 DEF CommitProbe
<1>3. t \in Backends /\ r.row \in BackendRow /\ old \in BackendRow
  BY <1>1, <1>2, UnchangedIsKnown
<1>4. t \notin overtaken => SameBackend(r.row, old) /\ Proven(proof[t], old)
  BY <1>1, <1>2, UnchangedIsKnown
<1>5. old.version = r.row.version /\ r.ready \in BOOLEAN
  BY <1>1, <1>2 DEF Unchanged, IInv, TypeOK, RequestRecord
<1>6. backend' = [backend EXCEPT ![t] =
         [place |-> old.place, secret |-> old.secret, corpus |-> old.corpus,
          status |-> old.status, ready |-> r.ready, fresh |-> TRUE,
          version |-> r.row.version + 1]]
  BY <1>1 DEF CommitProbe
<1>7. PICK row : row = [place |-> old.place, secret |-> old.secret, corpus |-> old.corpus,
                        status |-> old.status, ready |-> r.ready, fresh |-> TRUE,
                        version |-> r.row.version + 1]
  OBVIOUS
<1>8. /\ row.place = old.place /\ row.secret = old.secret /\ row.corpus = old.corpus
      /\ row.status = old.status /\ row.ready = r.ready /\ row.version = r.row.version + 1
  BY <1>7
<1>9. row \in BackendRow
  BY <1>3, <1>5, <1>7 DEF BackendRow
<1>10. /\ proof' \in [Backends -> Config \cup {NoRow}]
       /\ \A b \in Backends \ {t} : proof'[b] = proof[b]
       /\ proof'[t] = IF r.ready THEN ConfigOf(r.row) ELSE proof[t]
  BY <1>1, <1>3, <1>5, RecordedProof DEF CommitProbe, IInv
<1>11. ASSUME t \notin overtaken PROVE Proven(proof'[t], row)
  <2>1. ConfigOf(r.row) = ConfigOf(old) /\ ConfigOf(row) = ConfigOf(old)
    BY <1>4, <1>8, <1>11 DEF SameBackend, ConfigOf
  <2> QED  BY <1>3, <1>4, <1>5, <1>8, <1>9, <1>10, <1>11, <2>1, ProbedIsProven
<1>12. UNCHANGED <<route, overtaken>>
  BY DEF CommitProbe
<1>13. TypeOK
  BY DEF IInv
<1>14. backend' = [backend EXCEPT ![t] = row]
  BY <1>6, <1>7
<1> QED
  BY <1>1, <1>2, <1>3, <1>5, <1>8, <1>9, <1>10, <1>11, <1>12, <1>13, <1>14, BackendWriteIsGood
  DEF TypeOK, PathMoves

LEMMA CommitRouteIsGood ==
    ASSUME IInv, NEW q \in Requests, CommitRoute(q)
    PROVE  GoodStep(q)
<1>1. PICK r : r = request[q]
  OBVIOUS
<1>2. /\ r.phase = "loaded" /\ Finish(q)
      /\ IF r.path = NoRow THEN route = NoRow ELSE route.version = r.path.version
      /\ UNCHANGED <<backend, proof, overtaken>>
  BY <1>1 DEF CommitRoute
<1>3. r.target \in Backends /\ r.row \in BackendRow
  BY <1>1, <1>2, UnchangedIsKnown
<1>4. TypeOK /\ ReadyWasProbed /\ ActiveWasProbed
  BY DEF IInv
<1>5. r.path \in RouteRow \cup {NoRow}
  BY <1>1, <1>4 DEF TypeOK, RequestRecord
<1>6. PICK status \in Statuses :
         route' = [backend |-> r.target, corpus |-> r.row.corpus, status |-> status,
                   version |-> IF r.path = NoRow THEN 1 ELSE r.path.version + 1]
  BY <1>1 DEF CommitRoute
<1>7. (IF r.path = NoRow THEN 1 ELSE r.path.version + 1) \in Nat
  BY <1>5 DEF RouteRow
<1>8. route' \in RouteRow
  BY <1>3, <1>6, <1>7 DEF RouteRow, BackendRow
<1>9. route \in RouteRow => route'.version = route.version + 1
  BY <1>2, <1>6
<1>10. TablesMove
  BY <1>2, <1>8, <1>9 DEF TablesMove, RowMoves, PathMoves
<1>11. ReadyWasProbed' /\ ActiveWasProbed'
  BY <1>2, <1>4 DEF ReadyWasProbed, ActiveWasProbed
<1> QED  BY <1>2, <1>4, <1>8, <1>10, <1>11, CommitIsGood DEF TypeOK

LEMMA CommitBlindIsGood ==
    ASSUME IInv, NEW q \in Requests, CommitBlind(q)
    PROVE  GoodStep(q)
<1>1. PICK r, t, old, status :
         /\ r = request[q] /\ t = request[q].target /\ old = backend[t]
         /\ status = IF r.ready THEN "active" ELSE "disabled"
  OBVIOUS
<1>2. /\ r.phase \in {"observed", "checked"}
      /\ r.kind \in {"service", "refresh"}
      /\ Finish(q)
  <2>1. Holds(r)
    BY <1>1 DEF IInv
  <2> QED  BY <1>1, <2>1 DEF CommitBlind, Holds
<1>3. t \in Backends /\ r.row \in BackendRow /\ old \in BackendRow
  BY <1>1, <1>2, UnchangedIsKnown
<1>4. t \notin overtaken /\ Unchanged(q) => SameBackend(r.row, old) /\ Proven(proof[t], old)
  BY <1>1, <1>2, UnchangedIsKnown
<1>5. r.ready \in BOOLEAN /\ TypeOK
  BY <1>1 DEF IInv, TypeOK, RequestRecord
<1>6. r.path \in RouteRow /\ route \in RouteRow
  <2>1. Holds(r) /\ KnowsPath(r)
    BY <1>1 DEF IInv
  <2>2. r.path \in RouteRow
    BY <1>2, <2>1 DEF Holds
  <2> QED  BY <1>2, <2>1, <2>2 DEF KnowsPath
<1>7. PICK row : row =
         [place |-> old.place, secret |-> old.secret, corpus |-> old.corpus,
          status |-> Sent(r.row.status, status, old.status),
          ready |-> Sent(r.row.ready, r.ready, old.ready),
          fresh |-> TRUE, version |-> r.row.version + 1]
  OBVIOUS
<1>8. /\ row.place = old.place /\ row.secret = old.secret /\ row.corpus = old.corpus
      /\ row.status = Sent(r.row.status, status, old.status)
      /\ row.ready = Sent(r.row.ready, r.ready, old.ready)
      /\ row.version = r.row.version + 1
  BY <1>7
<1>9. row \in BackendRow
  <2>1. Sent(r.row.status, status, old.status) \in Statuses
    BY <1>1, <1>3 DEF Sent, BackendRow, Statuses
  <2>2. Sent(r.row.ready, r.ready, old.ready) \in BOOLEAN
    BY <1>3, <1>5 DEF Sent, BackendRow
  <2> QED  BY <1>3, <1>7, <2>1, <2>2 DEF BackendRow
<1>10. backend' = [backend EXCEPT ![t] = row]
  BY <1>1, <1>7 DEF CommitBlind
<1>11. /\ proof' \in [Backends -> Config \cup {NoRow}]
       /\ \A b \in Backends \ {t} : proof'[b] = proof[b]
       /\ proof'[t] = IF r.ready THEN ConfigOf(r.row) ELSE proof[t]
  BY <1>1, <1>3, <1>5, RecordedProof DEF CommitBlind
<1>12. /\ overtaken' = overtaken
             \cup (IF Unchanged(q) THEN {} ELSE {t})
             \cup (IF route.version = r.path.version THEN {} ELSE {LabRoute})
  BY <1>1 DEF CommitBlind
<1>13. overtaken \subseteq overtaken' /\ overtaken' \subseteq Backends \cup {LabRoute}
  BY <1>3, <1>5, <1>12 DEF TypeOK
<1>14. route' \in RouteRow
  <2>1. Sent(r.path.corpus, r.row.corpus, route.corpus) \in Corpora
    BY <1>3, <1>6 DEF Sent, RouteRow, BackendRow
  <2>2. Sent(r.path.status, status, route.status) \in Statuses
    BY <1>1, <1>6 DEF Sent, RouteRow, Statuses
  <2>3. route' = [backend |-> route.backend,
                  corpus |-> Sent(r.path.corpus, r.row.corpus, route.corpus),
                  status |-> Sent(r.path.status, status, route.status),
                  version |-> r.path.version + 1]
    BY <1>1 DEF CommitBlind
  <2> QED  BY <1>6, <2>1, <2>2, <2>3 DEF RouteRow
<1>15. ASSUME LabRoute \notin overtaken' PROVE PathMoves(route, route')
  <2>1. route.version = r.path.version
    BY <1>12, <1>15
  <2>2. route'.version = r.path.version + 1
    BY <1>1 DEF CommitBlind
  <2> QED  BY <2>1, <2>2 DEF PathMoves
<1>16. ASSUME t \notin overtaken'
       PROVE  row.version = old.version + 1 /\ Proven(proof'[t], row)
  <2>1. t \notin overtaken /\ Unchanged(q)
    BY <1>12, <1>13, <1>16
  <2>2. SameBackend(r.row, old) /\ Proven(proof[t], old) /\ old.version = r.row.version
    BY <1>1, <1>4, <2>1 DEF Unchanged
  <2>3. row.ready = r.ready /\ row.status = status
    BY <1>8, <2>2 DEF SameBackend, Sent
  <2>4. ConfigOf(r.row) = ConfigOf(old) /\ ConfigOf(row) = ConfigOf(old)
    BY <1>8, <2>2 DEF SameBackend, ConfigOf
  <2>5. row.status = "active" => r.ready
    BY <1>1, <2>3
  <2>6. Proven(IF r.ready THEN ConfigOf(r.row) ELSE proof[t], row)
    BY <1>3, <1>5, <1>9, <2>2, <2>3, <2>4, <2>5, ProbedIsProven
  <2> QED  BY <1>8, <1>11, <2>2, <2>6
<1> QED
  BY <1>1, <1>2, <1>3, <1>6, <1>9, <1>10, <1>11, <1>13, <1>14, <1>15, <1>16,
     BackendWriteIsGood

----------------------------------------------------------------------------
\* Steps that no request takes: it is enough to say what they do to the tables.
LEMMA TablesKeepIInv ==
    ASSUME IInv, TablesMove, UNCHANGED <<request, proof, overtaken>>,
           backend' \in [Backends -> BackendRow \cup {NoRow}],
           route' \in RouteRow \cup {NoRow},
           \A b \in Backends : backend'[b] # NoRow /\ b \notin overtaken
                               => Proven(proof[b], backend'[b])
    PROVE  IInv'
<1>1. TypeOK'
  BY DEF IInv, TypeOK
<1>2. ReadyWasProbed' /\ ActiveWasProbed'
  BY ProvenIsInvariant
<1>3. ASSUME NEW p \in Requests
      PROVE  Holds(request'[p]) /\ KnowsTarget(request[p])' /\ KnowsPath(request[p])'
  <2>1. PICK r \in RequestRecord : r = request[p]
    BY DEF IInv, TypeOK
  <2>2. Holds(r) /\ KnowsTarget(r) /\ KnowsPath(r)
    BY <2>1 DEF IInv
  <2>3. KnowsTarget(r)' /\ KnowsPath(r)'
    BY <2>2, KnowledgeLasts
  <2> QED  BY <2>1, <2>2, <2>3
<1> QED  BY <1>1, <1>2, <1>3 DEF IInv

LEMMA NewIsProven ==
    ASSUME NEW c \in Config, NEW config
    PROVE  NewBackend(c) \in BackendRow /\ Proven(config, NewBackend(c))
<1>1. NewBackend(c) \in BackendRow
  BY DEF NewBackend, BackendRow, Config, Statuses
<1>2. ~NewBackend(c).ready /\ NewBackend(c).status = "disabled"
  BY DEF NewBackend
<1> QED  BY <1>1, <1>2 DEF Proven

LEMMA RegisterKeepsIInv ==
    ASSUME IInv, NEW b \in Backends, Register(b)
    PROVE  IInv'
<1>1. PICK c \in Config : backend' = [backend EXCEPT ![b] = NewBackend(c)]
  BY DEF Register
<1>2. TypeOK /\ backend[b] = NoRow /\ UNCHANGED <<route, request, proof, overtaken>>
  BY DEF Register, IInv
<1>3. NewBackend(c) \in BackendRow /\ Proven(proof[b], NewBackend(c))
  BY NewIsProven
<1>4. backend' \in [Backends -> BackendRow \cup {NoRow}]
  BY <1>1, <1>2, <1>3 DEF TypeOK
<1>5. TablesMove
  BY <1>1, <1>2, <1>3 DEF TablesMove, RowMoves, PathMoves, TypeOK
<1>6. ASSUME NEW d \in Backends, backend'[d] # NoRow, d \notin overtaken
      PROVE  Proven(proof[d], backend'[d])
  <2>1. CASE d = b
    BY <1>1, <1>2, <1>3, <2>1 DEF TypeOK
  <2>2. CASE d # b
    BY <1>1, <1>2, <1>6, <2>2, InvariantsAreProven DEF TypeOK
  <2> QED  BY <2>1, <2>2
<1> QED  BY <1>2, <1>4, <1>5, <1>6, TablesKeepIInv DEF TypeOK

LEMMA BootstrapKeepsIInv ==
    ASSUME IInv, Bootstrap
    PROVE  IInv'
<1>1. TypeOK /\ route = NoRow /\ UNCHANGED <<request, proof, overtaken>>
  BY DEF Bootstrap, IInv
<1>2. PICK c \in Config :
         LET row == IF backend[LabBackend] = NoRow THEN NewBackend(c)
                    ELSE backend[LabBackend] IN
         /\ backend' = [backend EXCEPT ![LabBackend] = row]
         /\ route' = [backend |-> LabBackend, corpus |-> row.corpus,
                      status |-> "disabled", version |-> 1]
  BY DEF Bootstrap
<1>3. PICK row : row = IF backend[LabBackend] = NoRow THEN NewBackend(c)
                       ELSE backend[LabBackend]
  OBVIOUS
<1>4. /\ backend' = [backend EXCEPT ![LabBackend] = row]
      /\ route' = [backend |-> LabBackend, corpus |-> row.corpus,
                   status |-> "disabled", version |-> 1]
  BY <1>2, <1>3
<1>5. row \in BackendRow /\ (backend[LabBackend] \in BackendRow => row = backend[LabBackend])
  BY <1>1, <1>3, NewIsProven DEF TypeOK
<1>6. LabBackend \notin overtaken => Proven(proof[LabBackend], row)
  BY <1>1, <1>3, <1>5, NewIsProven, InvariantsAreProven
<1>7. backend' \in [Backends -> BackendRow \cup {NoRow}] /\ route' \in RouteRow
  BY <1>1, <1>4, <1>5 DEF TypeOK, RouteRow, BackendRow, Statuses
<1>8. TablesMove
  BY <1>1, <1>4, <1>5 DEF TablesMove, RowMoves, TypeOK
<1>9. ASSUME NEW d \in Backends, backend'[d] # NoRow, d \notin overtaken
      PROVE  Proven(proof[d], backend'[d])
  <2>1. CASE d = LabBackend
    BY <1>1, <1>4, <1>6, <1>9, <2>1 DEF TypeOK
  <2>2. CASE d # LabBackend
    BY <1>1, <1>4, <1>9, <2>2, InvariantsAreProven DEF TypeOK
  <2> QED  BY <2>1, <2>2
<1> QED  BY <1>1, <1>7, <1>8, <1>9, TablesKeepIInv DEF TypeOK

LEMMA AgeKeepsIInv ==
    ASSUME IInv, NEW b \in Backends, Age(b)
    PROVE  IInv'
<1>1. TypeOK /\ UNCHANGED <<route, request, proof, overtaken>>
  BY DEF Age, IInv
<1>2. PICK old \in BackendRow : old = backend[b]
  BY <1>1 DEF Age, TypeOK
<1>3. PICK row : row = [old EXCEPT !.fresh = FALSE]
  OBVIOUS
<1>4. row \in BackendRow /\ SameBackend(row, old) /\ row.version = old.version
  BY <1>3 DEF BackendRow, SameBackend, ConfigOf
<1>5. backend' = [backend EXCEPT ![b] = row]
  BY <1>2, <1>3 DEF Age
<1>6. backend' \in [Backends -> BackendRow \cup {NoRow}]
  BY <1>1, <1>4, <1>5 DEF TypeOK
<1>7. TablesMove
  BY <1>1, <1>2, <1>4, <1>5 DEF TablesMove, RowMoves, PathMoves, TypeOK
<1>8. ASSUME NEW d \in Backends, backend'[d] # NoRow, d \notin overtaken
      PROVE  Proven(proof[d], backend'[d])
  <2>1. CASE d = b
    <3>1. Proven(proof[b], old)
      BY <1>2, <1>8, <2>1, InvariantsAreProven
    <3>2. Proven(proof[b], row)
      BY <1>4, <3>1 DEF Proven, SameBackend, ConfigOf
    <3> QED  BY <1>1, <1>5, <2>1, <3>2 DEF TypeOK
  <2>2. CASE d # b
    BY <1>1, <1>5, <1>8, <2>2, InvariantsAreProven DEF TypeOK
  <2> QED  BY <2>1, <2>2
<1> QED  BY <1>1, <1>6, <1>7, <1>8, TablesKeepIInv DEF TypeOK

----------------------------------------------------------------------------
LEMMA InitIInv == Init => IInv
<1> SUFFICES ASSUME Init PROVE IInv
  OBVIOUS
<1>1. NoRequest \in RequestRecord
  BY DEF NoRequest, RequestRecord, Kinds, Edits, Phases
<1>2. TypeOK
  BY <1>1 DEF Init, TypeOK
<1>3. ASSUME NEW q \in Requests PROVE request[q].phase = "idle"
  BY DEF Init, NoRequest
<1>4. ASSUME NEW q \in Requests
      PROVE  Holds(request[q]) /\ KnowsTarget(request[q]) /\ KnowsPath(request[q])
  BY <1>3 DEF Holds, KnowsTarget, KnowsPath
<1>5. ReadyWasProbed /\ ActiveWasProbed
  BY DEF Init, ReadyWasProbed, ActiveWasProbed
<1> QED  BY <1>2, <1>4, <1>5 DEF IInv

LEMMA StepsKeepIInv ==
    ASSUME IInv, NEW q \in Requests, Step(q)
    PROVE  IInv'
<1>1. GoodStep(q)
  BY AskIsGood, LoadEditIsGood, LoadProbeIsGood, ObserveIsGood, RecheckIsGood, GiveUpIsGood,
     CommitUpdateIsGood, CommitRotateIsGood, CommitProbeIsGood, CommitRouteIsGood,
     CommitBlindIsGood
  DEF Step
<1> QED  BY <1>1, GoodStepsKeepIInv

LEMMA NextIInv == IInv /\ [Next]_vars => IInv'
<1> SUFFICES ASSUME IInv, [Next]_vars PROVE IInv'
  OBVIOUS
<1>1. CASE UNCHANGED vars
  BY <1>1 DEF vars, IInv, TypeOK, KnowsTarget, KnowsPath, ReadyWasProbed, ActiveWasProbed
<1>2. CASE Next
  BY <1>2, BootstrapKeepsIInv, RegisterKeepsIInv, AgeKeepsIInv, StepsKeepIInv DEF Next
<1> QED  BY <1>1, <1>2

THEOREM Invariance == Spec => []IInv
BY InitIInv, NextIInv, PTL DEF Spec

\* All variables keep their types, whatever handlers and refreshes interleave.
THEOREM TypeCorrect == Spec => []TypeOK
<1>1. IInv => TypeOK
  BY DEF IInv
<1> QED  BY <1>1, Invariance, PTL

\* What the route and the gateway take for ready was found ready as it is configured, as
\* long as no write without comparison overtakes another.
THEOREM ReadyWasProbedAlways == Spec => []ReadyWasProbed
<1>1. IInv => ReadyWasProbed
  BY DEF IInv
<1> QED  BY <1>1, Invariance, PTL

\* Likewise for the place and the corpus of an active backend.
THEOREM ActiveWasProbedAlways == Spec => []ActiveWasProbed
<1>1. IInv => ActiveWasProbed
  BY DEF IInv
<1> QED  BY <1>1, Invariance, PTL

\* The version in an ETag stands for what its holder has seen.
THEOREM VersionNamesStateAlways == Spec => []VersionNamesState
<1>1. IInv => VersionNamesState
  <2> SUFFICES ASSUME IInv, NEW q \in Requests
               PROVE  LET r == request[q] IN
        /\ /\ r.phase \in {"asked", "loaded"} /\ r.kind \in Edits
           /\ r.target \notin overtaken
           /\ r.etag.version = backend[r.target].version
           => SameBackend(r.etag, backend[r.target])
        /\ /\ r.phase \in {"asked", "loaded"} /\ r.kind = "route"
           /\ LabRoute \notin overtaken
           /\ r.etag # NoRow /\ route # NoRow
           /\ r.etag.version = route.version
           => SameRoute(r.etag, route)
    BY DEF VersionNamesState
  <2>1. KnowsTarget(request[q]) /\ KnowsPath(request[q])
    BY DEF IInv
  <2> QED  BY <2>1 DEF KnowsTarget, KnowsPath, KnowsBackend, KnowsRoute
<1> QED  BY <1>1, Invariance, PTL
=============================================================================
