--------------------------- MODULE AdminIamProofs ---------------------------
(***************************************************************************)
(* A loaded edit or revocation has passed its refusals, and these read     *)
(* only columns no later request can change; so they still hold when the   *)
(* edit is committed, whatever has been committed in between.              *)
(*                                                                         *)
(* The last part is about the enrolment token, whose revocation by an      *)
(* administrator races the requests that exchange it                       *)
(* (EnrolmentExchange.tla): it is a one-time grant for any number of both. *)
(***************************************************************************)
EXTENDS AdminIam, EnrolmentExchange, FiniteSetTheorems, TLAPS

USE AdminAssumption

\* What a loaded request has found out about the row it is going to write.
FoundRow(q) ==
    request[q].found # None =>
        /\ rows[request[q].found] \in Row
        /\ request[q].change.do # "login" => request[q].seen < MaxVersion
        /\ request[q].change.do \in {"edit", "retire"} => NotOneself(q)

Prepared(q) ==
    /\ request[q].change.do \in {"edit", "retire"} => request[q].found = request[q].change.id
    /\ FoundRow(q)

\* What is known of a request from its arrival on: a policy is asked for through
\* a route of its own, rows are not deleted, and mutations have a caller.
Asks(q) ==
    /\ request[q].change.do = "put" => request[q].change.row.kind = "policy"
    /\ request[q].change.do \in {"edit", "retire"} => rows[request[q].change.id] \in Row
    /\ request[q].change.do # "login" => request[q].by \in Ids

IInv ==
    /\ TypeOK
    /\ \A q \in Requests : request[q].phase # "idle" => Asks(q)
    /\ \A q \in Requests : request[q].phase = "loaded" => Prepared(q)

\* No step deletes a row, or changes what it is about.
Same(row, new) ==
    /\ new.kind = row.kind
    /\ new.scope = row.scope
    /\ new.holder = row.holder
    /\ new.label = row.label

RowsKept == \A i \in Ids : rows[i] \in Row => rows'[i] \in Row /\ Same(rows[i], rows'[i])

-----------------------------------------------------------------------------
(* Types *)

LEMMA AbsentIsNoRow == Absent \notin Row
BY DEF Absent, Row, Kinds

LEMMA NewIsRow ==
    ASSUME NEW kind \in Kinds, NEW scope \in Ids \cup {None}, NEW team \in Ids \cup {None},
           NEW holder \in Ids \cup {None}, NEW label \in Labels \cup {None}
    PROVE  New(kind, scope, team, holder, label) \in Row
BY DEF New, Row

LEMMA OfIsIds == \A kind : Of(kind) \subseteq Ids
BY DEF Of

LEMMA OfIsRow ==
    ASSUME TypeOK, NEW kind \in Kinds, NEW i \in Of(kind)
    PROVE  i \in Ids /\ rows[i] \in Row
BY AbsentIsNoRow DEF Of, TypeOK, Kinds, Absent

LEMMA WantedIsRow == ASSUME TypeOK PROVE Wanted \subseteq Row
<1>1. {New("tenant", None, None, None, n) : n \in Titles} \subseteq Row
  BY NewIsRow DEF Kinds, Labels
<1>2. {New("team", t, None, None, n) : t \in Of("tenant"), n \in Titles} \subseteq Row
  BY NewIsRow, OfIsIds DEF Kinds, Labels
<1>3. {New("membership", t, g, p, None) :
         t \in Of("tenant"), g \in Of("team") \cup {None}, p \in Of("principal")} \subseteq Row
  BY NewIsRow, OfIsIds DEF Kinds, Labels
<1>4. {New("binding", t, None, p, "tenant_admin") :
         t \in Of("tenant"), p \in Of("principal")} \subseteq Row
  BY NewIsRow, OfIsIds DEF Kinds, Labels
<1>5. {New("binding", None, None, p, "platform_admin") : p \in Of("principal")} \subseteq Row
  BY NewIsRow, OfIsIds DEF Kinds, Labels
<1>6. {New("enrolment", t, None, p, None) :
         t \in Of("tenant"), p \in Of("principal")} \subseteq Row
  BY NewIsRow, OfIsIds DEF Kinds, Labels
<1> QED  BY <1>1, <1>2, <1>3, <1>4, <1>5, <1>6 DEF Wanted

LEMMA PoliciesAreRows ==
    /\ Policies \subseteq Row
    /\ \A r \in Policies : r.kind = "policy"
<1>1. Policies \subseteq Row
  BY NewIsRow, OfIsIds DEF Policies, Kinds, Labels
<1>2. \A r \in Policies : r.kind = "policy"
  BY DEF Policies, New
<1> QED  BY <1>1, <1>2

\* Versions a client can have seen.
LEMMA VersionsAreTyped ==
    ASSUME TypeOK, NEW kind \in Kinds, NEW i \in Of(kind)
    PROVE  rows[i].version \in 1..MaxVersion /\ 1..rows[i].version \subseteq 1..MaxVersion
<1>1. rows[i].version \in 1..MaxVersion
  BY OfIsRow DEF Row
<1> QED  BY <1>1

LEMMA PutsAreChanges ==
    ASSUME TypeOK, NEW c \in Puts
    PROVE  c \in Put /\ c.row.kind = "policy" /\ c.do = "put"
<1>1. PICK r \in Policies :
         c \in {[do |-> "put", row |-> r, etag |-> v] :
                  v \in {0} \cup {rows[i].version : i \in Twins(r)}}
  BY DEF Puts
<1>2. PICK v \in {0} \cup {rows[i].version : i \in Twins(r)} :
         c = [do |-> "put", row |-> r, etag |-> v]
  BY <1>1
<1>3. r \in Row /\ r.kind = "policy"
  BY PoliciesAreRows
<1>4. \A i \in Twins(r) : rows[i].version \in 1..MaxVersion
  BY <1>3, VersionsAreTyped DEF Twins, Kinds
<1> QED  BY <1>2, <1>3, <1>4 DEF Put

LEMMA EditsAreChanges ==
    ASSUME NEW ids \in SUBSET Ids, NEW do \in {"edit", "retire"},
           NEW teams \in SUBSET (Ids \cup {None, Unset}),
           NEW states \in SUBSET (BOOLEAN \cup {Unset}),
           \A i \in ids : 1..rows[i].version \subseteq 1..MaxVersion,
           NEW c \in Edits(ids, do, teams, states)
    PROVE  c \in Edit /\ c.do = do /\ c.id \in ids
<1>1. PICK i \in ids :
         c \in {[do |-> do, id |-> i, etag |-> v, team |-> g, live |-> s] :
                  v \in 1..rows[i].version, g \in teams, s \in states}
  BY DEF Edits
<1>2. PICK v \in 1..rows[i].version, g \in teams, s \in states :
         c = [do |-> do, id |-> i, etag |-> v, team |-> g, live |-> s]
  BY <1>1
<1> QED  BY <1>2 DEF Edit

LEMMA AskedIsChange ==
    ASSUME TypeOK, NEW c \in Asked
    PROVE  /\ c \in Change
           /\ c.do = "put" => c.row.kind = "policy"
           /\ c.do \in {"edit", "retire"} => rows[c.id] \in Row
<1> DEFINE Places == Of("tenant") \cup Of("team") \cup Of("principal")
           Ends == Of("membership") \cup Of("binding") \cup Of("enrolment")
<1>1. CASE c \in Creations
  BY <1>1, WantedIsRow DEF Creations, Change, Creation
<1>2. CASE c \in Puts
  BY <1>2, PutsAreChanges DEF Change
<1>3. ASSUME NEW i \in Places \cup Ends
      PROVE  /\ i \in Ids /\ rows[i] \in Row
             /\ 1..rows[i].version \subseteq 1..MaxVersion
  BY OfIsIds, OfIsRow, VersionsAreTyped DEF Kinds
<1>4. CASE c \in Edits(Places, "edit", {Unset}, BOOLEAN)
  <2>1. c \in Edit /\ c.do = "edit" /\ rows[c.id] \in Row
    BY <1>3, <1>4, EditsAreChanges
  <2> QED  BY <2>1 DEF Change
<1>5. CASE c \in Edits(Of("membership"), "edit", Of("team") \cup {None, Unset},
                       BOOLEAN \cup {Unset})
  <2>1. Of("team") \cup {None, Unset} \in SUBSET (Ids \cup {None, Unset})
    BY OfIsIds
  <2>2. \A i \in Of("membership") : i \in Ends
    OBVIOUS
  <2>3. c \in Edit /\ c.do = "edit" /\ c.id \in Of("membership")
    BY <1>3, <1>5, <2>1, <2>2, EditsAreChanges
  <2> QED  BY <1>3, <2>2, <2>3 DEF Change
<1>6. CASE c \in Edits(Ends, "retire", {Unset}, {FALSE})
  <2>1. c \in Edit /\ c.do = "retire" /\ rows[c.id] \in Row
    BY <1>3, <1>6, EditsAreChanges
  <2> QED  BY <2>1 DEF Change
<1> QED  BY <1>1, <1>2, <1>4, <1>5, <1>6 DEF Asked

-----------------------------------------------------------------------------
(* The invariant *)

LEMMA OthersKeep ==
    ASSUME IInv, RowsKept, NEW p \in Requests, request'[p] = request[p],
           request[p].phase # "idle"
    PROVE  Asks(p)' /\ (request'[p].phase = "loaded" => Prepared(p)')
<1>1. request[p] \in Request
  BY DEF IInv, TypeOK, Idle
<1>2. Asks(p)'
  <2>1. ASSUME request[p].change.do \in {"edit", "retire"}
        PROVE  request[p].change.id \in Ids
    BY <1>1, <2>1 DEF Request, Change, Creation, Put, Edit, SignIn
  <2> QED  BY <2>1 DEF IInv, Asks, RowsKept
<1>3. ASSUME request[p].phase = "loaded"
      PROVE  Prepared(p)'
  <2>1. Prepared(p)
    BY <1>3 DEF IInv
  <2>2. ASSUME request[p].found # None
        PROVE  /\ request[p].found \in Ids
               /\ rows[request[p].found] \in Row
               /\ rows'[request[p].found] \in Row
               /\ Same(rows[request[p].found], rows'[request[p].found])
    BY <1>1, <2>1, <2>2 DEF Request, Prepared, FoundRow, RowsKept
  <2>3. ASSUME request[p].found # None, request[p].change.do \in {"edit", "retire"}
        PROVE  NotOneself(p)'
    <3>1. NotOneself(p) /\ request[p].found = request[p].change.id
      BY <2>1, <2>3 DEF Prepared, FoundRow
    <3> QED  BY <2>2, <2>3, <3>1 DEF NotOneself, Same
  <2> QED  BY <2>1, <2>2, <2>3 DEF Prepared, FoundRow
<1> QED  BY <1>2, <1>3

LEMMA StepKeeps ==
    ASSUME IInv, NEW q \in Requests, NEW r \in Request \cup {Idle},
           request' = [request EXCEPT ![q] = r],
           RowsKept, rows' \in [Ids -> Row \cup {Absent}], records' \subseteq Record,
           sessions' \subseteq Ids, arrived' \in 0..MaxArrivals,
           r.phase # "idle" => Asks(q)',
           r.phase = "loaded" => Prepared(q)'
    PROVE  IInv'
<1>1. request' \in [Requests -> Request \cup {Idle}] /\ request'[q] = r
  BY DEF IInv, TypeOK
<1>2. TypeOK'
  BY <1>1 DEF TypeOK
<1>3. ASSUME NEW p \in Requests
      PROVE  /\ request'[p].phase # "idle" => Asks(p)'
             /\ request'[p].phase = "loaded" => Prepared(p)'
  <2>1. CASE p = q
    BY <1>1, <2>1
  <2>2. CASE p # q
    <3>1. request'[p] = request[p]
      BY <2>2 DEF IInv, TypeOK
    <3> QED  BY <3>1, OthersKeep
  <2> QED  BY <2>1, <2>2
<1> QED  BY <1>2, <1>3 DEF IInv

LEMMA UnchangedRowsKept == ASSUME UNCHANGED rows PROVE RowsKept
BY DEF RowsKept, Same

LEMMA InitInv == Init => IInv
<1> SUFFICES ASSUME Init PROVE IInv
  OBVIOUS
<1>1. TypeOK
  BY DEF Init, TypeOK
<1>2. \A q \in Requests : request[q].phase = "idle"
  BY DEF Init, Idle
<1> QED  BY <1>1, <1>2 DEF IInv

LEMMA ArriveKeeps ==
    ASSUME IInv, NEW q \in Requests, NEW p \in Ids, Arrive(q, p)
    PROVE  IInv'
<1>1. PICK c \in Asked :
         request' = [request EXCEPT ![q] = [phase |-> "known", by |-> p, change |-> c,
                                            found |-> None, seen |-> 0]]
  BY DEF Arrive
<1>2. PICK r : r = [phase |-> "known", by |-> p, change |-> c, found |-> None, seen |-> 0]
  OBVIOUS
<1>3. TypeOK
  BY DEF IInv
<1>4. /\ c \in Change
      /\ c.do = "put" => c.row.kind = "policy"
      /\ c.do \in {"edit", "retire"} => rows[c.id] \in Row
  BY <1>3, AskedIsChange
<1>5. r \in Request
  BY <1>2, <1>4 DEF Request
<1>6. request' = [request EXCEPT ![q] = r] /\ request'[q] = r
  BY <1>1, <1>2, <1>3 DEF TypeOK
<1>7. UNCHANGED <<rows, records, sessions>> /\ arrived' = arrived + 1 /\ arrived < MaxArrivals
  BY DEF Arrive
<1>8. Asks(q)'
  BY <1>2, <1>4, <1>6, <1>7 DEF Asks
<1>9. arrived' \in 0..MaxArrivals
  BY <1>3, <1>7 DEF TypeOK
<1> QED  BY <1>2, <1>3, <1>5, <1>6, <1>7, <1>8, <1>9, StepKeeps, UnchangedRowsKept DEF TypeOK

LEMMA ArriveLoginKeeps ==
    ASSUME IInv, NEW q \in Requests, NEW n \in Subjects, ArriveLogin(q, n)
    PROVE  IInv'
<1>1. PICK r : r = [phase |-> "known", by |-> None, change |-> [do |-> "login", label |-> n],
                    found |-> None, seen |-> 0]
  OBVIOUS
<1>2. r \in Request /\ r.phase = "known" /\ r.change.do = "login"
  BY <1>1 DEF Request, Change, SignIn
<1>3. request' = [request EXCEPT ![q] = r] /\ request'[q] = r
  BY <1>1 DEF ArriveLogin, IInv, TypeOK
<1>4. UNCHANGED <<rows, records, sessions>> /\ arrived' = arrived + 1 /\ arrived < MaxArrivals
  BY DEF ArriveLogin
<1>5. Asks(q)'
  BY <1>2, <1>3 DEF Asks
<1>6. arrived' \in 0..MaxArrivals
  BY <1>4 DEF IInv, TypeOK
<1> QED  BY <1>2, <1>3, <1>4, <1>5, <1>6, StepKeeps, UnchangedRowsKept DEF IInv, TypeOK

\* Requests that end, whatever the table has become.
LEMMA FinishKeeps ==
    ASSUME IInv, NEW q \in Requests, Finish(q), RowsKept,
           rows' \in [Ids -> Row \cup {Absent}], records' \subseteq Record,
           sessions' \subseteq Ids, UNCHANGED arrived
    PROVE  IInv'
<1>1. Idle.phase = "idle"
  BY DEF Idle
<1>2. request' = [request EXCEPT ![q] = Idle]
  BY DEF Finish
<1>3. arrived' \in 0..MaxArrivals
  BY DEF IInv, TypeOK
<1> QED  BY <1>1, <1>2, <1>3, StepKeeps

\* Requests that go on to write.
LEMMA LoadedRequest ==
    ASSUME NEW r \in Request, NEW found \in Ids \cup {None}, NEW seen \in 0..MaxVersion
    PROVE  [r EXCEPT !.phase = "loaded", !.found = found, !.seen = seen]
              = [phase |-> "loaded", by |-> r.by, change |-> r.change,
                 found |-> found, seen |-> seen]
<1>1. PICK new : new = [r EXCEPT !.phase = "loaded", !.found = found, !.seen = seen]
  OBVIOUS
<1>2. new = [phase |-> "loaded", by |-> r.by, change |-> r.change,
             found |-> found, seen |-> seen]
  BY <1>1 DEF Request
<1> QED  BY <1>1, <1>2

LEMMA LoadedKeeps ==
    ASSUME IInv, NEW q \in Requests, NEW found \in Ids \cup {None}, NEW seen \in 0..MaxVersion,
           request[q].phase = "known", Loaded(q, found, seen),
           request[q].change.do \in {"edit", "retire"} =>
               found = request[q].change.id /\ NotOneself(q),
           found # None => /\ rows[found] \in Row
                           /\ request[q].change.do # "login" => seen < MaxVersion
    PROVE  IInv'
<1>1. request[q] \in Request /\ Asks(q)
  BY DEF IInv, TypeOK, Idle
<1>2. PICK r : r = [phase |-> "loaded", by |-> request[q].by, change |-> request[q].change,
                    found |-> found, seen |-> seen]
  OBVIOUS
<1>3. r \in Request
  BY <1>1, <1>2 DEF Request
<1>8. r = [request[q] EXCEPT !.phase = "loaded", !.found = found, !.seen = seen]
  BY <1>1, <1>2, LoadedRequest
<1>4. request' = [request EXCEPT ![q] = r] /\ request'[q] = r
  BY <1>8 DEF Loaded, IInv, TypeOK
<1>5. UNCHANGED <<rows, records, sessions, arrived>>
  BY DEF Loaded
<1>6. Asks(q)'
  BY <1>1, <1>2, <1>4, <1>5 DEF Asks
<1>7. Prepared(q)'
  BY <1>2, <1>4, <1>5 DEF Prepared, FoundRow, NotOneself
<1> QED  BY <1>3, <1>4, <1>5, <1>6, <1>7, StepKeeps, UnchangedRowsKept DEF IInv, TypeOK

LEMMA KnownRequest ==
    ASSUME IInv, NEW q \in Requests, request[q].phase = "known"
    PROVE  /\ request[q] \in Request
           /\ request[q].change \in Change
           /\ Asks(q)
BY DEF IInv, TypeOK, Idle, Request

\* What a client asks for tells its type.
LEMMA ChangeTypes ==
    ASSUME NEW c \in Change
    PROVE  /\ c.do = "create" => c.row \in Row /\ c.key \in Keys
           /\ c.do = "put" => c.row \in Row /\ c.etag \in 0..MaxVersion
           /\ c.do \in {"edit", "retire"} =>
                 /\ c.id \in Ids
                 /\ c.etag \in 1..MaxVersion
                 /\ c.team \in Ids \cup {None, Unset}
                 /\ c.live \in BOOLEAN \cup {Unset}
           /\ c.do = "login" => c.label \in Subjects
           /\ c.do \in {"create", "put", "edit", "retire", "login"}
BY DEF Change, Creation, Put, Edit, SignIn

LEMMA TwinsAreRows ==
    ASSUME TypeOK, NEW row \in Row, NEW i \in Twins(row)
    PROVE  i \in Ids /\ rows[i] \in Row /\ rows[i].kind = row.kind
<1>1. i \in Of(row.kind) /\ row.kind \in Kinds
  BY DEF Twins, Row
<1> QED  BY <1>1, OfIsRow DEF Of

LEMMA LoadKeeps ==
    ASSUME IInv, NEW q \in Requests, Load(q)
    PROVE  IInv'
<1> DEFINE c == request[q].change
<1>0. TypeOK
  BY DEF IInv
<1>1. CASE LoadNew(q)
  BY <1>1, LoadedKeeps DEF LoadNew, Known
<1>2. CASE LoadRevoked(q)
  <2>1. PICK i \in Sought(c.row) : rows[i].version < MaxVersion /\ Loaded(q, i, rows[i].version)
    BY <1>2 DEF LoadRevoked
  <2>2. request[q].phase = "known" /\ c.do = "create" /\ c.row.kind = "binding"
    BY <1>2 DEF LoadRevoked, Known
  <2>3. c.row \in Row
    BY <2>2, KnownRequest, ChangeTypes
  <2>4. i \in Ids /\ rows[i] \in Row
    BY <1>0, <2>1, <2>2, <2>3, TwinsAreRows DEF Sought
  <2>5. rows[i].version \in 0..MaxVersion
    BY <2>4 DEF Row
  <2> QED  BY <2>1, <2>2, <2>4, <2>5, LoadedKeeps
<1>3. CASE LoadPolicy(q)
  <2>1. request[q].phase = "known" /\ c.do = "put"
    BY <1>3 DEF LoadPolicy, Known
  <2>2. c.row \in Row
    BY <2>1, KnownRequest, ChangeTypes
  <2>3. CASE Loaded(q, None, 0)
    BY <2>1, <2>3, LoadedKeeps
  <2>4. CASE \E i \in Twins(c.row) : /\ c.etag = rows[i].version
                                    /\ c.etag < MaxVersion
                                    /\ Loaded(q, i, c.etag)
    <3>1. PICK i \in Twins(c.row) : /\ c.etag = rows[i].version
                                    /\ c.etag < MaxVersion
                                    /\ Loaded(q, i, c.etag)
      BY <2>4
    <3>2. i \in Ids /\ rows[i] \in Row
      BY <1>0, <2>2, <3>1, TwinsAreRows
    <3>3. c.etag \in 0..MaxVersion
      BY <2>1, KnownRequest, ChangeTypes
    <3> QED  BY <2>1, <3>1, <3>2, <3>3, LoadedKeeps
  <2> QED  BY <1>3, <2>3, <2>4 DEF LoadPolicy
<1>4. CASE LoadEdit(q)
  <2>1. /\ request[q].phase = "known"
        /\ c.do \in {"edit", "retire"}
        /\ NotOneself(q)
        /\ c.etag < MaxVersion
        /\ Loaded(q, c.id, c.etag)
    BY <1>4 DEF LoadEdit, Known, Editable
  <2>2. c.id \in Ids /\ c.etag \in 0..MaxVersion /\ rows[c.id] \in Row
    BY <2>1, KnownRequest, ChangeTypes DEF Asks
  <2> QED  BY <2>1, <2>2, LoadedKeeps
<1>5. CASE LoadLogin(q)
  <2>1. request[q].phase = "known" /\ c.do = "login"
    BY <1>5 DEF LoadLogin, Known
  <2>2. CASE Loaded(q, None, 0)
    BY <2>1, <2>2, LoadedKeeps
  <2>3. CASE \E i \in Of("principal") : Loaded(q, i, rows[i].version)
    <3>1. PICK i \in Of("principal") : Loaded(q, i, rows[i].version)
      BY <2>3
    <3>2. i \in Ids /\ rows[i] \in Row
      BY <1>0, OfIsRow DEF Kinds
    <3>3. rows[i].version \in 0..MaxVersion
      BY <3>2 DEF Row
    <3> QED  BY <2>1, <3>1, <3>2, <3>3, LoadedKeeps
  <2> QED  BY <1>5, <2>2, <2>3 DEF LoadLogin
<1>6. CASE TurnAway(q) \/ Refuse(q)
  <2>1. Finish(q) /\ UNCHANGED <<rows, records, sessions, arrived>>
    BY <1>6 DEF TurnAway, Refuse
  <2> QED  BY <1>0, <2>1, FinishKeeps, UnchangedRowsKept DEF TypeOK
<1> QED  BY <1>1, <1>2, <1>3, <1>4, <1>5, <1>6 DEF Load

-----------------------------------------------------------------------------
(* Commits *)

LEMMA ReadyRequest ==
    ASSUME IInv, NEW q \in Requests, NEW dos, Ready(q, dos)
    PROVE  /\ request[q] \in Request
           /\ request[q].change \in Change
           /\ request[q].change.do \in dos
           /\ Asks(q)
           /\ Prepared(q)
BY DEF IInv, TypeOK, Idle, Ready, Request

LEMMA RememberedRecords ==
    ASSUME IInv, NEW q \in Requests, NEW id \in Ids, Remember(q, id),
           request[q].by \in Ids, request[q] \in Request
    PROVE  records' \subseteq Record
<1>1. CASE request[q].change.do = "create"
  <2>1. request[q].change.row \in Row /\ request[q].change.key \in Keys
    BY <1>1, ChangeTypes DEF Request
  <2> QED  BY <1>1, <2>1 DEF Remember, IInv, TypeOK, Record, Row
<1>2. CASE request[q].change.do # "create"
  BY <1>2 DEF Remember, IInv, TypeOK
<1> QED  BY <1>1, <1>2

\* The row a replacement writes: of the same thing, one version on.
LEMMA ReplacedRow ==
    ASSUME IInv, NEW q \in Requests, CommitReplace(q)
    PROVE  /\ request[q].found \in Ids
           /\ rows[request[q].found] \in Row
           /\ NextRow(q) \in Row
           /\ Same(rows[request[q].found], NextRow(q))
           /\ NextRow(q).version = rows[request[q].found].version + 1
           /\ NextRow(q).live = (CASE request[q].change.do = "create" -> TRUE
                                   [] request[q].change.do = "put" -> rows[request[q].found].live
                                   [] OTHER -> IF request[q].change.live = Unset
                                               THEN rows[request[q].found].live
                                               ELSE request[q].change.live)
<1> DEFINE f == request[q].found
           c == request[q].change
           row == rows[f]
           live == CASE c.do = "create" -> TRUE
                     [] c.do = "put"    -> row.live
                     [] OTHER -> IF c.live = Unset THEN row.live ELSE c.live
           team == IF c.do = "edit" /\ c.team # Unset THEN c.team ELSE row.team
<1>1. /\ request[q] \in Request /\ c \in Change /\ Prepared(q)
      /\ c.do \in {"create", "put", "edit", "retire"}
  BY ReadyRequest DEF CommitReplace
<1>2. f # None /\ Unmoved(q)
  BY DEF CommitReplace, CanReplace
<1>3. f \in Ids /\ row \in Row /\ request[q].seen < MaxVersion
  BY <1>1, <1>2 DEF Request, Prepared, FoundRow
<1>4. request[q].seen \in 0..MaxVersion
  BY <1>1 DEF Request
<1>5. request[q].seen + 1 \in 1..MaxVersion
  BY <1>3, <1>4
<1>6. live \in BOOLEAN
  <2>1. row.live \in BOOLEAN
    BY <1>3 DEF Row
  <2>2. CASE c.do \in {"create", "put"}
    BY <2>1, <2>2
  <2>3. CASE c.do \in {"edit", "retire"}
    <3>1. c.live \in BOOLEAN \cup {Unset}
      BY <1>1, <2>3, ChangeTypes
    <3>2. live = IF c.live = Unset THEN row.live ELSE c.live
      BY <2>3
    <3> QED  BY <2>1, <3>1, <3>2
  <2> QED  BY <1>1, <2>2, <2>3
<1>7. team \in Ids \cup {None}
  <2>1. row.team \in Ids \cup {None}
    BY <1>3 DEF Row
  <2>2. c.do = "edit" => c.team \in Ids \cup {None, Unset}
    BY <1>1, ChangeTypes
  <2> QED  BY <2>1, <2>2
<1>8. NextRow(q) = [kind |-> row.kind, scope |-> row.scope, team |-> team,
                    holder |-> row.holder, label |-> row.label, live |-> live,
                    version |-> request[q].seen + 1]
  BY DEF NextRow
<1> HIDE DEF live, team
<1>9. NextRow(q) \in Row
  BY <1>3, <1>5, <1>6, <1>7, <1>8 DEF Row
<1>10. Same(row, NextRow(q)) /\ NextRow(q).version = row.version + 1 /\ NextRow(q).live = live
  BY <1>2, <1>8 DEF Same, Unmoved
<1> QED  BY <1>3, <1>9, <1>10 DEF live

LEMMA CommitReplaceKeeps ==
    ASSUME IInv, NEW q \in Requests, CommitReplace(q)
    PROVE  IInv'
<1>1. /\ rows' = [rows EXCEPT ![request[q].found] = NextRow(q)]
      /\ Remember(q, request[q].found) /\ Finish(q) /\ UNCHANGED <<sessions, arrived>>
  BY DEF CommitReplace
<1>2. /\ request[q].found \in Ids
      /\ NextRow(q) \in Row
      /\ Same(rows[request[q].found], NextRow(q))
  BY ReplacedRow
<1>3. rows' \in [Ids -> Row \cup {Absent}]
  BY <1>1, <1>2 DEF IInv, TypeOK
<1>4. RowsKept
  BY <1>1, <1>2 DEF RowsKept, Same, IInv, TypeOK
<1>5. request[q] \in Request /\ request[q].by \in Ids
  BY ReadyRequest DEF CommitReplace, Asks
<1>6. records' \subseteq Record
  BY <1>1, <1>2, <1>5, RememberedRecords
<1> QED  BY <1>1, <1>3, <1>4, <1>6, FinishKeeps DEF IInv, TypeOK

\* Where a row is inserted there was none.
LEMMA FreeIsNoRow ==
    ASSUME TypeOK, NEW id \in Free
    PROVE  id \in Ids /\ rows[id] \notin Row
BY DEF Free, Of, TypeOK, Row, Kinds

LEMMA CommitInsertKeeps ==
    ASSUME IInv, NEW q \in Requests, NEW id \in Ids, CommitInsert(q, id)
    PROVE  IInv'
<1>1. /\ rows' = [rows EXCEPT ![id] = request[q].change.row] /\ id \in Free
      /\ Remember(q, id) /\ Finish(q) /\ UNCHANGED <<sessions, arrived>>
  BY DEF CommitInsert
<1>2. /\ request[q] \in Request /\ request[q].by \in Ids
      /\ request[q].change \in Change
      /\ request[q].change.do \in {"create", "put"}
  BY ReadyRequest DEF CommitInsert, Asks
<1>3. request[q].change.row \in Row
  BY <1>2, ChangeTypes
<1>4. rows' \in [Ids -> Row \cup {Absent}]
  BY <1>1, <1>3 DEF IInv, TypeOK
<1>5. RowsKept
  BY <1>1, FreeIsNoRow DEF RowsKept, Same, IInv, TypeOK
<1>6. records' \subseteq Record
  BY <1>1, <1>2, RememberedRecords
<1> QED  BY <1>1, <1>4, <1>5, <1>6, FinishKeeps DEF IInv, TypeOK

LEMMA CommitFirstLoginKeeps ==
    ASSUME IInv, NEW q \in Requests, NEW p \in Ids, NEW b \in Ids, CommitFirstLogin(q, p, b)
    PROVE  IInv'
<1> DEFINE n == request[q].change.label
           who == New("principal", None, None, None, n)
           admin == New("binding", None, None, p, "platform_admin")
<1>1. TypeOK /\ p \in Free /\ b \in Free
  BY DEF CommitFirstLogin, IInv
<1>2. n \in Subjects
  BY ReadyRequest, ChangeTypes DEF CommitFirstLogin
<1>3. who \in Row /\ admin \in Row
  BY <1>2, NewIsRow DEF Kinds, Labels
<1>4. \/ /\ rows' = [i \in Ids |-> IF i = p THEN who
                                   ELSE IF i = b /\ n \in Bootstrap THEN admin
                                   ELSE rows[i]]
         /\ sessions' = sessions \cup {p}
      \/ UNCHANGED <<rows, sessions>>
  BY DEF CommitFirstLogin
<1> HIDE DEF who, admin, n
<1>5. rows' \in [Ids -> Row \cup {Absent}] /\ sessions' \subseteq Ids
  BY <1>1, <1>3, <1>4 DEF TypeOK
<1>6. RowsKept
  <2>1. \A i \in Ids : rows[i] \in Row => i # p /\ i # b
    BY <1>1, FreeIsNoRow
  <2>2. \A i \in Ids : rows[i] \in Row => rows'[i] = rows[i]
    BY <1>1, <1>4, <2>1 DEF TypeOK
  <2> QED  BY <2>2 DEF RowsKept, Same
<1>7. Finish(q) /\ UNCHANGED <<records, arrived>>
  BY DEF CommitFirstLogin
<1> QED  BY <1>1, <1>5, <1>6, <1>7, FinishKeeps DEF TypeOK

LEMMA CommitLoginKeeps ==
    ASSUME IInv, NEW q \in Requests, CommitLogin(q)
    PROVE  IInv'
<1>1. /\ sessions' = sessions \cup {request[q].found} /\ request[q].found # None
      /\ Finish(q) /\ UNCHANGED <<rows, records, arrived>>
  BY DEF CommitLogin
<1>2. request[q].found \in Ids
  BY <1>1, ReadyRequest DEF CommitLogin, Request
<1> QED  BY <1>1, <1>2, FinishKeeps, UnchangedRowsKept DEF IInv, TypeOK

LEMMA NextKeeps == IInv /\ [Next]_vars => IInv'
<1> SUFFICES ASSUME IInv, [Next]_vars PROVE IInv'
  OBVIOUS
<1>1. ASSUME NEW q \in Requests, NEW p \in Ids, Arrive(q, p) PROVE IInv'
  BY <1>1, ArriveKeeps
<1>2. ASSUME NEW q \in Requests, NEW n \in Subjects, ArriveLogin(q, n) PROVE IInv'
  BY <1>2, ArriveLoginKeeps
<1>3. ASSUME NEW q \in Requests, Load(q) PROVE IInv'
  BY <1>3, LoadKeeps
<1>4. ASSUME NEW q \in Requests, NEW id \in Ids, CommitInsert(q, id) PROVE IInv'
  BY <1>4, CommitInsertKeeps
<1>5. ASSUME NEW q \in Requests, CommitReplace(q) PROVE IInv'
  BY <1>5, CommitReplaceKeeps
<1>6. ASSUME NEW q \in Requests, Rollback(q) PROVE IInv'
  BY <1>6, FinishKeeps, UnchangedRowsKept DEF Rollback, IInv, TypeOK
<1>7. ASSUME NEW q \in Requests, CommitLogin(q) PROVE IInv'
  BY <1>7, CommitLoginKeeps
<1>8. ASSUME NEW q \in Requests, NEW p \in Ids, NEW b \in Ids, CommitFirstLogin(q, p, b)
      PROVE  IInv'
  BY <1>8, CommitFirstLoginKeeps
<1>9. ASSUME UNCHANGED <<rows, records, request, arrived>>, sessions' \subseteq Ids PROVE IInv'
  BY <1>9 DEF IInv, TypeOK, Asks, Prepared, FoundRow, NotOneself
<1>10. ASSUME NEW p \in Ids, Logout(p) PROVE IInv'
  BY <1>9, <1>10 DEF Logout, IInv, TypeOK
<1>11. CASE UNCHANGED vars
  BY <1>9, <1>11 DEF vars, IInv, TypeOK
<1> QED  BY <1>1, <1>2, <1>3, <1>4, <1>5, <1>6, <1>7, <1>8, <1>10, <1>11 DEF Next, Commit

\* The invariant holds in every reachable state, for any table at start-up,
\* any number of requests at once and any bounds.
THEOREM Inductive == Spec => []IInv
BY InitInv, NextKeeps, PTL DEF Spec

\* Every variable holds a value of its type: a request never writes a row that
\* is not one, or over a row that is not there (admin.py, admin_iam.py).
THEOREM TypeCorrect == Spec => []TypeOK
<1>1. IInv => TypeOK
  BY DEF IInv
<1> QED  BY <1>1, Inductive, PTL

-----------------------------------------------------------------------------
(* Lost updates *)

LEMMA StepReplacesSeen == IInv /\ [Next]_vars => EditReplacesSeen
<1> SUFFICES ASSUME IInv, [Next]_vars, NEW id \in Ids, id \notin Free, rows'[id] # rows[id]
             PROVE  /\ rows'[id].version = rows[id].version + 1
                    /\ rows'[id].kind = rows[id].kind
  BY DEF EditReplacesSeen
<1>1. ASSUME NEW q \in Requests, NEW p \in Ids, Arrive(q, p) PROVE UNCHANGED rows
  BY <1>1 DEF Arrive
<1>2. ASSUME NEW q \in Requests, NEW n \in Subjects, ArriveLogin(q, n) PROVE UNCHANGED rows
  BY <1>2 DEF ArriveLogin
<1>3. ASSUME NEW q \in Requests, Load(q) PROVE UNCHANGED rows
  BY <1>3 DEF Load, Loaded, LoadNew, LoadRevoked, TurnAway, LoadPolicy, LoadEdit, Refuse,
              LoadLogin
<1>4. ASSUME NEW q \in Requests, NEW i \in Ids, CommitInsert(q, i) PROVE rows'[id] = rows[id]
  BY <1>4 DEF CommitInsert, IInv, TypeOK
<1>5. ASSUME NEW q \in Requests, CommitReplace(q)
      PROVE  rows'[id] = rows[id] \/ (/\ rows'[id].version = rows[id].version + 1
                                     /\ rows'[id].kind = rows[id].kind)
  BY <1>5, ReplacedRow DEF CommitReplace, Same, IInv, TypeOK
<1>6. ASSUME NEW q \in Requests, NEW p \in Ids, NEW b \in Ids, CommitFirstLogin(q, p, b)
      PROVE  rows'[id] = rows[id]
  BY <1>6 DEF CommitFirstLogin
<1>7. ASSUME NEW q \in Requests, Rollback(q) \/ CommitLogin(q) PROVE UNCHANGED rows
  BY <1>7 DEF Rollback, CommitLogin
<1> QED  BY <1>1, <1>2, <1>3, <1>4, <1>5, <1>6, <1>7 DEF Next, Commit, Logout, vars

\* No lost update: a row is only ever written over the version its request has
\* loaded, and the version goes up by one (mutations.py:128-160).
THEOREM EditsReplaceSeenAlways == Spec => EditsReplaceSeen
<1>1. IInv /\ [Next]_vars => [EditReplacesSeen]_vars
  BY StepReplacesSeen
<1> QED  BY <1>1, Inductive, PTL DEF Spec, EditsReplaceSeen

-----------------------------------------------------------------------------
(* Retries *)

\* Rows a record has to name.
ByKey(row) ==
    \/ row.kind \in {"tenant", "team", "membership", "enrolment"}
    \/ row.kind = "binding" /\ row.scope # None

\* Records stay, and a creation adds one for a key that had none.
LEMMA Remembering ==
    ASSUME NEW q \in Requests, NEW id \in Ids, Remember(q, id), KeyFree(q), RetriesCreateOnce
    PROVE  /\ records \subseteq records'
           /\ request[q].change.do = "create" => \E rec \in records' : rec.id = id
           /\ \A r, s \in records' :
                 (r.by = s.by /\ r.kind = s.kind /\ r.scope = s.scope /\ r.key = s.key) => r = s
<1> DEFINE c == request[q].change
           new == [by |-> request[q].by, kind |-> c.row.kind, scope |-> c.row.scope,
                   key |-> c.key, id |-> id]
<1>1. CASE c.do = "create"
  <2>1. records' = records \cup {new}
    BY <1>1 DEF Remember
  <2>2. \A rec \in records : ~(/\ rec.by = new.by /\ rec.kind = new.kind
                              /\ rec.scope = new.scope /\ rec.key = new.key)
    BY <1>1 DEF KeyFree, Recorded
  <2>3. new.id = id
    OBVIOUS
  <2> HIDE DEF new
  <2> QED  BY <2>1, <2>2, <2>3 DEF RetriesCreateOnce
<1>2. CASE c.do # "create"
  BY <1>2 DEF Remember, RetriesCreateOnce
<1> QED  BY <1>1, <1>2

LEMMA RetriesStep == IInv /\ RetriesCreateOnce /\ [Next]_vars => RetriesCreateOnce'
<1> SUFFICES ASSUME IInv, RetriesCreateOnce, [Next]_vars PROVE RetriesCreateOnce'
  OBVIOUS
<1>0. \A id \in Ids : Start[id] = Absent /\ ByKey(rows[id]) => \E rec \in records : rec.id = id
  BY DEF RetriesCreateOnce, CreatedOnce, ByKey
<1>1. ASSUME records \subseteq records',
             \A id \in Ids : ByKey(rows'[id]) =>
                 ByKey(rows[id]) \/ \E rec \in records' : rec.id = id,
             \A r, s \in records' :
                 (r.by = s.by /\ r.kind = s.kind /\ r.scope = s.scope /\ r.key = s.key) => r = s
      PROVE  RetriesCreateOnce'
  BY <1>0, <1>1 DEF RetriesCreateOnce, CreatedOnce, ByKey
<1>2. ASSUME UNCHANGED <<rows, records>> PROVE RetriesCreateOnce'
  BY <1>2 DEF RetriesCreateOnce, CreatedOnce
<1>3. ASSUME NEW q \in Requests, NEW id \in Ids, CommitInsert(q, id) PROVE RetriesCreateOnce'
  <2>1. /\ rows' = [rows EXCEPT ![id] = request[q].change.row]
        /\ Remember(q, id) /\ KeyFree(q) /\ Ready(q, {"create", "put"})
    BY <1>3 DEF CommitInsert, CanInsert
  <2>2. request[q].change.do = "put" => ~ByKey(request[q].change.row)
    BY <2>1, ReadyRequest DEF Asks, ByKey
  <2>3. request[q].change.do \in {"create", "put"}
    BY <2>1, ReadyRequest
  <2>4. ASSUME NEW i \in Ids, ByKey(rows'[i])
        PROVE  ByKey(rows[i]) \/ \E rec \in records' : rec.id = i
    <3>1. CASE i = id
      BY <2>1, <2>2, <2>3, <2>4, <3>1, Remembering DEF IInv, TypeOK
    <3>2. CASE i # id
      BY <2>1, <2>4, <3>2 DEF IInv, TypeOK
    <3> QED  BY <3>1, <3>2
  <2> QED  BY <1>1, <2>1, <2>4, Remembering
<1>4. ASSUME NEW q \in Requests, CommitReplace(q) PROVE RetriesCreateOnce'
  <2>1. /\ rows' = [rows EXCEPT ![request[q].found] = NextRow(q)]
        /\ Remember(q, request[q].found) /\ KeyFree(q)
    BY <1>4 DEF CommitReplace, CanReplace
  <2>2. request[q].found \in Ids /\ Same(rows[request[q].found], NextRow(q))
    BY <1>4, ReplacedRow
  <2>3. ASSUME NEW i \in Ids, ByKey(rows'[i])
        PROVE  ByKey(rows[i])
    BY <2>1, <2>2, <2>3 DEF ByKey, Same, IInv, TypeOK
  <2> QED  BY <1>1, <2>1, <2>2, <2>3, Remembering
<1>5. ASSUME NEW q \in Requests, NEW p \in Ids, NEW b \in Ids, CommitFirstLogin(q, p, b)
      PROVE  RetriesCreateOnce'
  <2>1. ASSUME NEW i \in Ids, ByKey(rows'[i])
        PROVE  ByKey(rows[i])
    BY <1>5, <2>1 DEF CommitFirstLogin, ByKey, New
  <2>2. UNCHANGED records
    BY <1>5 DEF CommitFirstLogin
  <2> QED  BY <1>1, <2>1, <2>2 DEF RetriesCreateOnce
<1>6. ASSUME NEW q \in Requests, Rollback(q) \/ CommitLogin(q) PROVE RetriesCreateOnce'
  BY <1>2, <1>6 DEF Rollback, CommitLogin
<1>7. ASSUME NEW q \in Requests, Load(q) PROVE RetriesCreateOnce'
  BY <1>2, <1>7 DEF Load, Loaded, LoadNew, LoadRevoked, TurnAway, LoadPolicy, LoadEdit, Refuse,
              LoadLogin
<1>8. ASSUME NEW q \in Requests, NEW p \in Ids, Arrive(q, p) PROVE RetriesCreateOnce'
  BY <1>2, <1>8 DEF Arrive
<1>9. ASSUME NEW q \in Requests, NEW n \in Subjects, ArriveLogin(q, n) PROVE RetriesCreateOnce'
  BY <1>2, <1>9 DEF ArriveLogin
<1>10. ASSUME NEW p \in Ids, Logout(p) PROVE RetriesCreateOnce'
  BY <1>2, <1>10 DEF Logout
<1>11. CASE UNCHANGED vars
  BY <1>2, <1>11 DEF vars
<1> QED  BY <1>3, <1>4, <1>5, <1>6, <1>7, <1>8, <1>9, <1>10, <1>11 DEF Next, Commit

\* Retries create once: whatever was created through a route that takes an
\* Idempotency-Key is named by a record, and one key of a caller and operation
\* names one row, however requests with the same key overlap
\* (mutations.py:43-66).
THEOREM RetriesCreateOnceAlways == Spec => []RetriesCreateOnce
<1>1. Init => RetriesCreateOnce
  BY DEF Init, RetriesCreateOnce, CreatedOnce, Absent
<1> QED  BY <1>1, RetriesStep, Inductive, PTL DEF Spec

-----------------------------------------------------------------------------
(* The last administrator *)

\* Binding i makes p a platform administrator.
MakesAdministrator(i, p) ==
    /\ i \in Ids /\ p \in Ids
    /\ rows[i].kind = "binding" /\ rows[i].live
    /\ rows[i].holder = p /\ rows[i].label = "platform_admin" /\ rows[i].scope = None
    /\ rows[p].kind = "principal" /\ rows[p].live

LEMMA AdministratorsAre ==
    \A p : p \in Administrators <=> \E i \in Ids : MakesAdministrator(i, p)
BY DEF Administrators, MakesAdministrator, Live, Of, Granted

\* A step that leaves an administrator's two rows as they are, or renews them,
\* leaves the administrator.
LEMMA AdministratorStays ==
    ASSUME NEW i, NEW p, MakesAdministrator(i, p),
           \A j \in {i, p} : \/ rows'[j] = rows[j]
                             \/ (Same(rows[j], rows'[j]) /\ rows'[j].live = TRUE)
    PROVE  Administrators' # {}
<1>1. MakesAdministrator(i, p)'
  BY DEF MakesAdministrator, Same
<1>2. p \in Administrators' <=> \E j \in Ids : MakesAdministrator(j, p)'
  BY DEF Administrators, MakesAdministrator, Live, Of, Granted
<1> QED  BY <1>1, <1>2 DEF MakesAdministrator

LEMMA ReplacingLeavesCaller ==
    ASSUME IInv, NEW q \in Requests, CommitReplace(q), request[q].by \in Administrators
    PROVE  Administrators' # {}
<1> DEFINE f == request[q].found
           c == request[q].change
<1>1. PICK i \in Ids : MakesAdministrator(i, request[q].by)
  BY AdministratorsAre
<1>2. /\ c \in Change /\ Prepared(q) /\ c.do \in {"create", "put", "edit", "retire"}
  BY ReadyRequest DEF CommitReplace
<1>3. /\ f \in Ids /\ f # None /\ rows[f] \in Row
      /\ rows'[f] = NextRow(q) /\ Same(rows[f], NextRow(q))
      /\ \A j \in Ids : j # f => rows'[j] = rows[j]
  BY ReplacedRow DEF CommitReplace, CanReplace, IInv, TypeOK
<1>4. ASSUME f \in {i, request[q].by}
      PROVE  rows'[f].live = TRUE
  <2>1. rows[f].live = TRUE
    BY <1>1, <1>3, <1>4 DEF MakesAdministrator, Row
  <2>2. CASE c.do \in {"create", "put"}
    BY <1>3, <2>1, <2>2, ReplacedRow
  <2>3. CASE c.do \in {"edit", "retire"}
    <3>1. NotOneself(q) /\ c.id = f
      BY <1>2, <1>3, <2>3 DEF Prepared, FoundRow
    <3>2. f # i
      BY <1>1, <3>1 DEF NotOneself, MakesAdministrator
    <3>3. f = request[q].by
      BY <1>4, <3>2
    <3>4. c.live # FALSE
      BY <1>1, <3>1, <3>3 DEF NotOneself, MakesAdministrator
    <3>5. c.live \in BOOLEAN \cup {Unset}
      BY <1>2, <2>3, ChangeTypes
    <3>6. rows'[f].live = IF c.live = Unset THEN rows[f].live ELSE c.live
      BY <1>3, <2>3, ReplacedRow
    <3> QED  BY <2>1, <3>4, <3>5, <3>6
  <2> QED  BY <1>2, <2>2, <2>3
<1>5. \A j \in {i, request[q].by} : \/ rows'[j] = rows[j]
                                   \/ (Same(rows[j], rows'[j]) /\ rows'[j].live = TRUE)
  BY <1>1, <1>3, <1>4 DEF MakesAdministrator
<1> QED  BY <1>1, <1>5, AdministratorStays

LEMMA LastOneLeavesStep == IInv /\ [Next]_vars => LastOneLeaves
<1> SUFFICES ASSUME IInv, [Next]_vars, Administrators # {}, Administrators' = {}
             PROVE  \E q \in Requests : /\ request[q] # Idle /\ request'[q] = Idle
                                       /\ request[q].by \notin Administrators
  BY DEF LastOneLeaves
<1>1. PICK p \in Administrators, i \in Ids : MakesAdministrator(i, p)
  BY AdministratorsAre
<1>2. i \in Ids /\ p \in Ids /\ i \notin Free /\ p \notin Free
  BY <1>1 DEF MakesAdministrator, Free, Of
<1>3. ~(rows'[i] = rows[i] /\ rows'[p] = rows[p])
  BY <1>1, AdministratorStays
<1>4. ASSUME NEW q \in Requests, NEW id \in Ids, CommitInsert(q, id) PROVE FALSE
  BY <1>2, <1>3, <1>4 DEF CommitInsert, IInv, TypeOK
<1>5. ASSUME NEW q \in Requests, NEW r \in Ids, NEW b \in Ids, CommitFirstLogin(q, r, b)
      PROVE  FALSE
  BY <1>2, <1>3, <1>5 DEF CommitFirstLogin
<1>6. ASSUME NEW q \in Requests, CommitReplace(q)
      PROVE  /\ request[q] # Idle /\ request'[q] = Idle
             /\ request[q].by \notin Administrators
  <2>1. request[q] # Idle
    BY <1>6 DEF CommitReplace, Ready, Idle
  <2>2. request'[q] = Idle
    BY <1>6 DEF CommitReplace, Finish, IInv, TypeOK
  <2> QED  BY <1>6, <2>1, <2>2, ReplacingLeavesCaller
<1>7. ~UNCHANGED rows
  BY <1>3
<1>8. ASSUME NEW q \in Requests, NEW r \in Ids, Arrive(q, r) PROVE FALSE
  BY <1>7, <1>8 DEF Arrive
<1>9. ASSUME NEW q \in Requests, NEW n \in Subjects, ArriveLogin(q, n) PROVE FALSE
  BY <1>7, <1>9 DEF ArriveLogin
<1>10. ASSUME NEW q \in Requests, Load(q) PROVE FALSE
  BY <1>7, <1>10 DEF Load, Loaded, LoadNew, LoadRevoked, TurnAway, LoadPolicy, LoadEdit, Refuse,
              LoadLogin
<1>11. ASSUME NEW q \in Requests, Rollback(q) \/ CommitLogin(q) PROVE FALSE
  BY <1>7, <1>11 DEF Rollback, CommitLogin
<1> QED  BY <1>4, <1>5, <1>6, <1>7, <1>8, <1>9, <1>10, <1>11 DEF Next, Commit, Logout, vars

\* An administrator cannot take the last one away: if a step leaves no platform
\* administrator, its request was let in before its caller had lost the role or
\* the account to someone else (admin_iam.py:896-901, 1099-1107).
THEOREM LastAdministratorStaysAlways == Spec => LastAdministratorStays
<1>1. IInv /\ [Next]_vars => [LastOneLeaves]_vars
  BY LastOneLeavesStep
<1> QED  BY <1>1, Inductive, PTL DEF Spec, LastAdministratorStays

-----------------------------------------------------------------------------
(* The exchange of an enrolment token.                                     *)

HIDE AdminAssumption
USE ExchangeAssumption DEF ExchangeAssumption

\* Why the two conditional UPDATEs exclude each other: whoever is between its
\* SELECT and its UPDATE has seen a version, and the version tells which of
\* the two changes the row has undergone.
ExchangeInv ==
    /\ ExchangeTypeOK
    /\ VersionCountsChanges
    /\ ConsumedMeansIssued
    /\ \A c, d \in Issued : c = d
    /\ \A c \in Clients : exchange[c].step \in {"read", "checked"}
                             => exchange[c].version = 1 /\ exchange[c].at < Lifetime
    /\ RacedMeansTaken
    /\ \A a \in Admins : revocation[a].step = "done" => enrolment.revoked

\* What a step of an exchange other than Consume leaves as it was.
LEMMA OtherStepsIssueNothing ==
    ASSUME ExchangeTypeOK, NEW c \in Clients, NEW x,
           exchange[c].step # "issued", x.step # "issued",
           exchange' = [exchange EXCEPT ![c] = x]
    PROVE  Issued' = Issued
<1>1. /\ exchange'[c] = x
      /\ \A d \in Clients \ {c} : exchange'[d] = exchange[d]
  BY DEF ExchangeTypeOK
<1> QED
  BY <1>1 DEF Issued

\* A row that an UPDATE changed once or twice is still a row.
LEMMA ChangedRow ==
    ASSUME NEW e \in [consumed : BOOLEAN, revoked : BOOLEAN, version : 1..3],
           NEW v \in {1, 2}
    PROVE  /\ [e EXCEPT !.consumed = TRUE, !.version = v + 1]
                \in [consumed : BOOLEAN, revoked : BOOLEAN, version : 1..3]
           /\ [e EXCEPT !.revoked = TRUE, !.version = v + 1]
                \in [consumed : BOOLEAN, revoked : BOOLEAN, version : 1..3]
<1>1. v + 1 \in 1..3
  OBVIOUS
<1> QED
  BY <1>1

LEMMA ExchangeInvInit == ExchangeInit => ExchangeInv
<1> SUFFICES ASSUME ExchangeInit PROVE ExchangeInv
  OBVIOUS
<1>1. Issued = {}
  BY DEF ExchangeInit, Issued
<1>2. ExchangeTypeOK
  BY DEF ExchangeInit, ExchangeTypeOK, ExchangeSteps, RevocationSteps
<1> QED
  BY <1>1, <1>2 DEF ExchangeInit, ExchangeInv, VersionCountsChanges, ConsumedMeansIssued,
     RacedMeansTaken

LEMMA ExchangeInvNext == ExchangeInv /\ [ExchangeNext]_exchangeVars => ExchangeInv'
<1> SUFFICES ASSUME ExchangeInv, [ExchangeNext]_exchangeVars PROVE ExchangeInv'
  OBVIOUS
<1>0. ExchangeTypeOK
  BY DEF ExchangeInv
<1>1. ASSUME NEW c \in Clients, Present(c) PROVE ExchangeInv'
  <2>1. ExchangeTypeOK'
    BY <1>0, <1>1 DEF ExchangeTypeOK, Present, ExchangeSteps
  <2>2. Issued' = Issued
    BY <1>0, <1>1, OtherStepsIssueNothing DEF Present
  <2>3. Available(clock) => enrolment.version = 1 /\ clock < Lifetime
    BY DEF ExchangeInv, VersionCountsChanges, Available
  <2>4. /\ exchange'[c].step \in {"read", "denied"}
        /\ exchange'[c].step = "read"
              => exchange'[c].version = 1 /\ exchange'[c].at < Lifetime
        /\ \A d \in Clients \ {c} : exchange'[d] = exchange[d]
        /\ UNCHANGED <<enrolment, revocation>>
    BY <1>0, <1>1, <2>3 DEF ExchangeTypeOK, Present
  <2> QED
    BY <2>1, <2>2, <2>4 DEF ExchangeInv, VersionCountsChanges, ConsumedMeansIssued,
       RacedMeansTaken
<1>2. ASSUME NEW c \in Clients, Check(c) \/ CrashExchange(c) PROVE ExchangeInv'
  <2>1. /\ exchange'[c].step \in {"checked", "denied", "lost"}
        /\ exchange'[c].version = exchange[c].version
        /\ exchange'[c].at = exchange[c].at
        /\ \A d \in Clients \ {c} : exchange'[d] = exchange[d]
        /\ exchange[c].step \in {"read", "checked"}
        /\ UNCHANGED <<clock, enrolment, revocation>>
    BY <1>0, <1>2 DEF ExchangeTypeOK, Check, CrashExchange
  <2>2. ExchangeTypeOK'
    BY <1>0, <1>2 DEF ExchangeTypeOK, Check, CrashExchange, ExchangeSteps
  <2>3. Issued' = Issued
    BY <2>1 DEF Issued
  <2> QED
    BY <2>1, <2>2, <2>3 DEF ExchangeInv, VersionCountsChanges, ConsumedMeansIssued,
       RacedMeansTaken
<1>3. ASSUME NEW c \in Clients, Consume(c) PROVE ExchangeInv'
  <2>1. /\ exchange[c].step = "checked" /\ exchange[c].version = 1
        /\ ~enrolment.consumed /\ ~enrolment.revoked
        /\ enrolment.version = 1
    BY <1>3 DEF ExchangeInv, Consume, Consumes, Available
  <2>2. Issued = {}
    BY <2>1 DEF ExchangeInv, ConsumedMeansIssued
  <2>3. /\ exchange'[c].step = "issued"
        /\ \A d \in Clients \ {c} : exchange'[d] = exchange[d]
    BY <1>0, <1>3 DEF ExchangeTypeOK, Consume
  <2>4. Issued' = {c}
    BY <2>2, <2>3 DEF Issued
  <2>5. /\ enrolment'.consumed /\ enrolment'.version = 2
        /\ enrolment'.revoked = enrolment.revoked
        /\ revocation' = revocation
    BY <1>0, <1>3, <2>1 DEF ExchangeTypeOK, Consume
  <2>6. ExchangeTypeOK'
    <3>1. enrolment' \in [consumed : BOOLEAN, revoked : BOOLEAN, version : 1..3]
      BY <1>0, <1>3, <2>1, ChangedRow DEF ExchangeTypeOK, Consume
    <3>2. exchange' \in [Clients -> [step : ExchangeSteps, at : 0..Horizon,
                                     version : 1..3]]
      BY <1>0, <1>3 DEF ExchangeTypeOK, Consume, ExchangeSteps
    <3> QED
      BY <1>0, <1>3, <3>1, <3>2 DEF ExchangeTypeOK, Consume
  <2>7. VersionCountsChanges' /\ ConsumedMeansIssued' /\ RacedMeansTaken'
    BY <2>1, <2>4, <2>5
       DEF VersionCountsChanges, ConsumedMeansIssued, RacedMeansTaken
  <2>8. \A d \in Clients : exchange'[d].step \in {"read", "checked"}
           => exchange'[d].version = 1 /\ exchange'[d].at < Lifetime
    BY <2>3 DEF ExchangeInv
  <2>9. \A a \in Admins : revocation'[a].step = "done" => enrolment'.revoked
    BY <2>5 DEF ExchangeInv
  <2> QED
    BY <2>4, <2>6, <2>7, <2>8, <2>9 DEF ExchangeInv
<1>4. ASSUME NEW c \in Clients, LoseRace(c) PROVE ExchangeInv'
  <2>1. /\ exchange'[c].step = "raced"
        /\ \A d \in Clients \ {c} : exchange'[d] = exchange[d]
        /\ exchange[c].step = "checked"
        /\ UNCHANGED <<clock, enrolment, revocation>>
    BY <1>0, <1>4 DEF ExchangeTypeOK, LoseRace
  <2>2. ExchangeTypeOK'
    BY <1>0, <1>4 DEF ExchangeTypeOK, LoseRace, ExchangeSteps
  <2>3. Issued' = Issued
    BY <2>1 DEF Issued
  <2>4. enrolment.consumed \/ enrolment.revoked
    BY <1>4 DEF ExchangeInv, VersionCountsChanges, LoseRace, Consumes, Available
  <2> QED
    BY <2>1, <2>2, <2>3, <2>4 DEF ExchangeInv, VersionCountsChanges,
       ConsumedMeansIssued, RacedMeansTaken
<1>5. ASSUME NEW a \in Admins,
             LoadForRevocation(a) \/ RefuseRevocation(a) \/ CrashRevocation(a)
      PROVE  ExchangeInv'
  <2>1. /\ revocation'[a].step = "done" => enrolment.revoked
        /\ \A b \in Admins \ {a} : revocation'[b] = revocation[b]
        /\ UNCHANGED <<clock, enrolment, exchange>>
    BY <1>0, <1>5
       DEF ExchangeTypeOK, LoadForRevocation, RefuseRevocation, CrashRevocation
  <2>2. ExchangeTypeOK'
    BY <1>0, <1>5 DEF ExchangeTypeOK, LoadForRevocation, RefuseRevocation,
       CrashRevocation, RevocationSteps
  <2>3. Issued' = Issued
    BY <2>1 DEF Issued
  <2> QED
    BY <2>1, <2>2, <2>3 DEF ExchangeInv, VersionCountsChanges, ConsumedMeansIssued,
       RacedMeansTaken
<1>6. ASSUME NEW a \in Admins, CommitRevocation(a) PROVE ExchangeInv'
  <2>1. /\ ~enrolment.revoked
        /\ enrolment'.revoked
        /\ enrolment'.consumed = enrolment.consumed
        /\ enrolment'.version = enrolment.version + 1
        /\ UNCHANGED <<clock, exchange>>
    BY <1>0, <1>6 DEF ExchangeTypeOK, CommitRevocation, Revokes
  <2>2. VersionCountsChanges'
    BY <2>1 DEF ExchangeInv, VersionCountsChanges
  <2>3. enrolment.version \in {1, 2}
    BY <2>1 DEF ExchangeInv, VersionCountsChanges
  <2>4. ExchangeTypeOK'
    <3>1. revocation[a].version = enrolment.version
      BY <1>6 DEF CommitRevocation, Revokes
    <3>2. enrolment' \in [consumed : BOOLEAN, revoked : BOOLEAN, version : 1..3]
      <4>1. enrolment' = [enrolment EXCEPT !.revoked = TRUE,
                                           !.version = enrolment.version + 1]
        BY <1>6, <3>1 DEF CommitRevocation
      <4>2. enrolment \in [consumed : BOOLEAN, revoked : BOOLEAN, version : 1..3]
        BY <1>0 DEF ExchangeTypeOK
      <4> QED
        BY <2>3, <4>1, <4>2, ChangedRow
    <3>3. revocation' \in [Admins -> [step : RevocationSteps, version : 1..3]]
      BY <1>0, <1>6 DEF ExchangeTypeOK, CommitRevocation, RevocationSteps
    <3> QED
      BY <1>0, <1>6, <3>2, <3>3 DEF ExchangeTypeOK, CommitRevocation
  <2>5. Issued' = Issued
    BY <2>1 DEF Issued
  <2> QED
    BY <2>1, <2>2, <2>4, <2>5 DEF ExchangeInv, ConsumedMeansIssued, RacedMeansTaken
<1>7. CASE ChangeSubject \/ Tick \/ UNCHANGED exchangeVars
  <2>1. UNCHANGED <<enrolment, exchange, revocation>>
    BY <1>7 DEF ChangeSubject, Tick, exchangeVars
  <2>2. ExchangeTypeOK'
    <3>1. CASE ChangeSubject
      <4>1. subject' \in BOOLEAN
        BY <3>1 DEF ChangeSubject
      <4>2. UNCHANGED <<clock, enrolment, exchange, revocation>>
        BY <3>1 DEF ChangeSubject
      <4> QED
        BY <1>0, <4>1, <4>2 DEF ExchangeTypeOK
    <3>2. CASE Tick
      BY <1>0, <3>2 DEF ExchangeTypeOK, Tick
    <3>3. CASE UNCHANGED exchangeVars
      BY <1>0, <3>3 DEF ExchangeTypeOK, exchangeVars
    <3> QED
      BY <1>7, <3>1, <3>2, <3>3
  <2>3. Issued' = Issued
    BY <2>1 DEF Issued
  <2> QED
    BY <2>1, <2>2, <2>3 DEF ExchangeInv, VersionCountsChanges, ConsumedMeansIssued,
       RacedMeansTaken
<1> QED
  BY <1>1, <1>2, <1>3, <1>4, <1>5, <1>6, <1>7 DEF ExchangeNext

LEMMA ExchangeInvAlways == ExchangeSpec => []ExchangeInv
  BY ExchangeInvInit, ExchangeInvNext, PTL DEF ExchangeSpec

\* The enrolment row and the requests around it are well typed (session.py,
\* enrolment.py).
THEOREM ExchangeTypeCorrect == ExchangeSpec => []ExchangeTypeOK
<1>1. ExchangeInv => ExchangeTypeOK
  BY DEF ExchangeInv
<1> QED
  BY <1>1, ExchangeInvAlways, PTL

\* However many requests present the token at once, one capability at most is
\* issued from it.
THEOREM OneCapabilityPerTokenAlways == ExchangeSpec => []OneCapabilityPerToken
<1>1. ExchangeInv => OneCapabilityPerToken
  <2> SUFFICES ASSUME ExchangeInv PROVE Cardinality(Issued) <= 1
    BY DEF OneCapabilityPerToken
  <2>1. CASE Issued = {}
    BY <2>1, FS_EmptySet
  <2>2. CASE Issued # {}
    <3>1. PICK c \in Issued : TRUE
      BY <2>2
    <3>2. Issued = {c}
      BY <3>1 DEF ExchangeInv
    <3>3. Cardinality({c}) = 1
      BY FS_Singleton
    <3> QED
      BY <3>2, <3>3
  <2> QED
    BY <2>1, <2>2
<1> QED
  BY <1>1, ExchangeInvAlways, PTL

\* A token is consumed exactly when its capability exists, its version counts
\* its changes, and no request is told of a race that nobody won.
THEOREM RowAgreesAlways ==
    ExchangeSpec => [](ConsumedMeansIssued /\ VersionCountsChanges /\ RacedMeansTaken)
<1>1. ExchangeInv => ConsumedMeansIssued /\ VersionCountsChanges /\ RacedMeansTaken
  BY DEF ExchangeInv
<1> QED
  BY <1>1, ExchangeInvAlways, PTL

-----------------------------------------------------------------------------
(* The exchange implements the one-time grant.                             *)

LEMMA HolderOfNone == Issued = {} => Holder = NoOne
  BY DEF Holder

\* Every step of the exchange takes the grant, withdraws it or is invisible.
LEMMA ExchangeStepImplements ==
    ExchangeInv /\ [ExchangeNext]_exchangeVars => [Grant!Next]_(Grant!vars)
<1> SUFFICES ASSUME ExchangeInv, [ExchangeNext]_exchangeVars PROVE [Grant!Next]_(Grant!vars)
  OBVIOUS
<1>0. ExchangeTypeOK
  BY DEF ExchangeInv
<1>1. ASSUME Issued' = Issued, enrolment'.revoked = enrolment.revoked
      PROVE  UNCHANGED Grant!vars
  BY <1>1 DEF Grant!vars, Holder
<1>2. ASSUME NEW c \in Clients, Present(c) PROVE UNCHANGED Grant!vars
  <2>1. Issued' = Issued
    BY <1>0, <1>2, OtherStepsIssueNothing DEF Present
  <2> QED
    BY <1>1, <1>2, <2>1 DEF Present
<1>3. ASSUME NEW c \in Clients, Check(c) \/ CrashExchange(c) \/ LoseRace(c)
      PROVE  UNCHANGED Grant!vars
  <2>1. /\ exchange'[c].step # "issued" /\ exchange[c].step # "issued"
        /\ \A d \in Clients \ {c} : exchange'[d] = exchange[d]
        /\ enrolment' = enrolment
    BY <1>0, <1>3 DEF ExchangeTypeOK, Check, CrashExchange, LoseRace
  <2>2. Issued' = Issued
    BY <2>1 DEF Issued
  <2> QED
    BY <1>1, <2>1, <2>2
<1>4. ASSUME NEW c \in Clients, Consume(c) PROVE Grant!Take(c)
  <2>1. ~enrolment.consumed /\ ~enrolment.revoked
    BY <1>4 DEF Consume, Consumes, Available
  <2>2. Issued = {}
    BY <2>1 DEF ExchangeInv, ConsumedMeansIssued
  <2>3. /\ exchange'[c].step = "issued"
        /\ \A d \in Clients \ {c} : exchange'[d] = exchange[d]
    BY <1>0, <1>4 DEF ExchangeTypeOK, Consume
  <2>4. Issued' = {c}
    BY <2>2, <2>3 DEF Issued
  <2>5. Holder' = c
    BY <2>4 DEF Holder
  <2>6. Holder = NoOne
    BY <2>2, HolderOfNone
  <2>7. enrolment'.revoked = enrolment.revoked
    BY <1>0, <1>4 DEF ExchangeTypeOK, Consume
  <2> QED
    BY <2>1, <2>5, <2>6, <2>7 DEF Grant!Take
<1>5. ASSUME NEW a \in Admins, CommitRevocation(a) PROVE Grant!Withdraw
  <2>1. /\ ~enrolment.revoked /\ enrolment'.revoked = TRUE
        /\ exchange' = exchange
    BY <1>0, <1>5 DEF ExchangeTypeOK, CommitRevocation, Revokes
  <2>2. Holder' = Holder
    BY <2>1 DEF Holder, Issued
  <2> QED
    BY <2>1, <2>2 DEF Grant!Withdraw
<1>6. ASSUME NEW a \in Admins,
             LoadForRevocation(a) \/ RefuseRevocation(a) \/ CrashRevocation(a)
      PROVE  UNCHANGED Grant!vars
  <2>1. UNCHANGED <<enrolment, exchange>>
    BY <1>6 DEF LoadForRevocation, RefuseRevocation, CrashRevocation
  <2> QED
    BY <1>1, <2>1 DEF Issued
<1>7. CASE ChangeSubject \/ Tick \/ UNCHANGED exchangeVars
  <2>1. UNCHANGED <<enrolment, exchange>>
    BY <1>7 DEF ChangeSubject, Tick, exchangeVars
  <2> QED
    BY <1>1, <2>1 DEF Issued
<1> QED
  BY <1>2, <1>3, <1>4, <1>5, <1>6, <1>7 DEF ExchangeNext, Grant!Next

\* The exchange of session.py with the revocation of enrolment.py is a
\* one-time grant: at most one holder, for good, and none after withdrawal.
THEOREM ExchangeImplementsGrant == ExchangeSpec => GrantSpec
<1>1. ExchangeInit => Grant!Init
  <2> SUFFICES ASSUME ExchangeInit PROVE Grant!Init
    OBVIOUS
  <2>1. Issued = {}
    BY DEF ExchangeInit, Issued
  <2> QED
    BY <2>1, HolderOfNone DEF ExchangeInit, Grant!Init
<1> QED
  BY <1>1, ExchangeInvAlways, ExchangeStepImplements, PTL DEF ExchangeSpec, GrantSpec, Grant!Spec

\* Once a revocation is accepted the token stays revoked and issues nothing.
THEOREM AcceptedRevocationHoldsAlways == ExchangeSpec => AcceptedRevocationHolds
<1>1. ExchangeInv /\ [ExchangeNext]_exchangeVars
        => [(\E a \in Admins : revocation[a].step = "done")
               => enrolment'.revoked /\ Issued' = Issued]_exchangeVars
  <2> SUFFICES ASSUME ExchangeInv, [ExchangeNext]_exchangeVars, NEW a \in Admins,
                      revocation[a].step = "done"
               PROVE  enrolment'.revoked /\ Issued' = Issued
    OBVIOUS
  <2>1. enrolment.revoked /\ ExchangeTypeOK
    BY DEF ExchangeInv
  <2>2. ASSUME NEW c \in Clients, Present(c)
        PROVE  enrolment'.revoked /\ Issued' = Issued
    <3>1. Issued' = Issued
      BY <2>1, <2>2, OtherStepsIssueNothing DEF Present
    <3> QED
      BY <2>1, <2>2, <3>1 DEF Present
  <2>3. ASSUME NEW c \in Clients, Check(c) \/ CrashExchange(c) \/ LoseRace(c)
        PROVE  enrolment'.revoked /\ Issued' = Issued
    <3>1. /\ exchange'[c].step # "issued" /\ exchange[c].step # "issued"
          /\ \A d \in Clients \ {c} : exchange'[d] = exchange[d]
          /\ enrolment' = enrolment
      BY <2>1, <2>3 DEF ExchangeTypeOK, Check, CrashExchange, LoseRace
    <3> QED
      BY <2>1, <3>1 DEF Issued
  <2>4. ASSUME NEW c \in Clients, Consume(c) PROVE FALSE
    BY <2>1, <2>4 DEF Consume, Consumes, Available
  <2>5. CASE UNCHANGED <<enrolment, exchange>>
    BY <2>1, <2>5 DEF Issued
  <2>6. ASSUME NEW b \in Admins, CommitRevocation(b) PROVE FALSE
    BY <2>1, <2>6 DEF CommitRevocation, Revokes
  <2>7. ASSUME NEW b \in Admins,
               \/ LoadForRevocation(b) \/ RefuseRevocation(b)
               \/ CrashRevocation(b)
        PROVE  UNCHANGED <<enrolment, exchange>>
    BY <2>7 DEF LoadForRevocation, RefuseRevocation, CrashRevocation
  <2>8. CASE ChangeSubject \/ Tick \/ UNCHANGED exchangeVars
    BY <2>5, <2>8 DEF ChangeSubject, Tick, exchangeVars
  <2> QED
    BY <2>2, <2>3, <2>4, <2>5, <2>6, <2>7, <2>8 DEF ExchangeNext
<1> QED
  BY <1>1, ExchangeInvAlways, PTL DEF ExchangeSpec, AcceptedRevocationHolds

=============================================================================
