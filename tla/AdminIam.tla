------------------------------ MODULE AdminIam ------------------------------
(***************************************************************************)
(* The administration of identities and tenants: admin.py, admin_iam.py,   *)
(* admin_policies.py (tool and quota policies), the creation of enrolments *)
(* and the operators' sign-in of auth.py.                                  *)
(*                                                                         *)
(* Every resource is a row of one table here.  A mutation takes three      *)
(* steps, as it does in the code: admin_context reads the caller's session *)
(* and grants in a transaction of its own (Arrive); the handler reads the  *)
(* rows it needs and decides (Load); it writes, and the transaction commits*)
(* or fails on a constraint (Commit...).  Requests overlap in every way.   *)
(* Names, slugs, scopes and limits that no guard reads are left out: a     *)
(* rename is an edit that keeps everything but the version.                *)
(***************************************************************************)
EXTENDS Naturals

CONSTANTS
    Ids,          \* identifiers of rows
    Subjects,     \* subjects of operators at the identity provider
    Titles,       \* slugs of tenants and names of teams that are asked for
    PolicyNames,  \* the tool policy and the quota policy of a tenant
    Keys,         \* Idempotency-Key values
    Requests,     \* places for requests being served at once
    Start,        \* the table at start-up
    Bootstrap,    \* subjects made platform administrators at their first login
    None,         \* NULL
    Unset,        \* a field a PATCH does not carry
    MaxVersion,   \* bound on the versions of rows
    MaxArrivals   \* bound on the number of requests

Kinds  == {"tenant", "team", "principal", "membership", "binding", "policy",
           "enrolment"}
Labels == Subjects \cup Titles \cup PolicyNames \cup {"platform_admin", "tenant_admin"}

\* The columns the guards and constraints read; live stands for status =
\* 'active' and for revoked_at IS NULL.
Row == [kind : Kinds, scope : Ids \cup {None}, team : Ids \cup {None},
        holder : Ids \cup {None}, label : Labels \cup {None},
        live : BOOLEAN, version : 1..MaxVersion]

\* No row has this identifier.
Absent == [kind |-> "absent"]

Creation == [do : {"create"}, row : Row, key : Keys]
Put      == [do : {"put"}, row : Row, etag : 0..MaxVersion]
Edit     == [do : {"edit", "retire"}, id : Ids, etag : 1..MaxVersion,
             team : Ids \cup {None, Unset}, live : BOOLEAN \cup {Unset}]
SignIn   == [do : {"login"}, label : Subjects]
Change   == Creation \cup Put \cup Edit \cup SignIn

\* A request: who asked, what for, and the row it has read.
Request == [phase : {"known", "loaded"}, by : Ids \cup {None}, change : Change,
            found : Ids \cup {None}, seen : 0..MaxVersion]
Idle    == [phase |-> "idle"]

\* The key columns of an idempotency record and the row its response names.
Record == [by : Ids, kind : Kinds, scope : Ids \cup {None}, key : Keys, id : Ids]

ASSUME AdminAssumption ==
    /\ None \notin Ids \cup Labels \cup {Unset}
    /\ Unset \notin Ids \cup BOOLEAN
    /\ MaxVersion \in Nat \ {0}
    /\ MaxArrivals \in Nat
    /\ Start \in [Ids -> Row \cup {Absent}]
    /\ Bootstrap \subseteq Subjects

VARIABLES rows,      \* the table
          records,   \* idempotency_records
          sessions,  \* principals with a browser session
          request,   \* the requests being served
          arrived    \* how many have come

vars == <<rows, records, sessions, request, arrived>>

\* Every variable holds a value of its type.
TypeOK ==
    /\ rows \in [Ids -> Row \cup {Absent}]
    /\ records \subseteq Record
    /\ sessions \subseteq Ids
    /\ request \in [Requests -> Request \cup {Idle}]
    /\ arrived \in 0..MaxArrivals

Init ==
    /\ rows = Start
    /\ records = {}
    /\ sessions \in SUBSET {p \in Ids : Start[p].kind = "principal"}
    /\ request = [q \in Requests |-> Idle]
    /\ arrived = 0

-----------------------------------------------------------------------------
(* What the table says *)

Of(kind) == {i \in Ids : rows[i].kind = kind}
Live(kind) == {i \in Of(kind) : rows[i].live}
Free == Of("absent")

New(kind, scope, team, holder, label) ==
    [kind |-> kind, scope |-> scope, team |-> team, holder |-> holder,
     label |-> label, live |-> TRUE, version |-> 1]

\* The principal belongs to the tenant, through any of its teams or none.
Belongs(p, t) ==
    \E i \in Live("membership") : rows[i].holder = p /\ rows[i].scope = t

\* The role is among the grants of admin_context.
Granted(p, role, t) ==
    \E i \in Live("binding") : /\ rows[i].holder = p
                               /\ rows[i].label = role
                               /\ rows[i].scope = t
                               /\ t # None => Belongs(p, t)

MayAdminister(p, t) ==
    \/ Granted(p, "platform_admin", None)
    \/ t # None /\ Granted(p, "tenant_admin", t)

\* require_eligible_principal: an active member, directly or in an active team.
Eligible(p, t) ==
    /\ p \in Live("principal")
    /\ \E i \in Live("membership") :
           /\ rows[i].holder = p
           /\ rows[i].scope = t
           /\ rows[i].team = None \/ rows[i].team \in Live("team")

\* The columns a handler compares, and the UNIQUE constraints name.
KeyOf(row) ==
    CASE row.kind \in {"tenant", "principal"} -> <<row.label>>
      [] row.kind \in {"team", "policy"}      -> <<row.scope, row.label>>
      [] row.kind = "membership" -> <<row.scope, row.team, row.holder>>
      [] row.kind = "binding"    -> <<row.holder, row.scope, row.label>>
      [] OTHER                   -> <<None>>

\* Rows a handler takes for the same thing: NULLs are compared with IS NULL.
Twins(row) == {i \in Of(row.kind) : KeyOf(rows[i]) = KeyOf(row)}

\* Rows a UNIQUE constraint forbids together.  PostgreSQL holds NULLs apart, so
\* a key with a NULL column clashes with nothing.
Clash(row, other) ==
    /\ row.kind = other.kind
    /\ KeyOf(row) = KeyOf(other)
    /\ \A k \in DOMAIN KeyOf(row) : KeyOf(row)[k] # None

Fits(row, id) == \A i \in Ids \ ({id} \cup Free) : ~Clash(rows[i], row)

-----------------------------------------------------------------------------
(* Arrival: admin_context, and the role the handler requires *)

\* The resources a client can ask to create.
Wanted ==
    {New("tenant", None, None, None, n) : n \in Titles}
    \cup {New("team", t, None, None, n) : t \in Of("tenant"), n \in Titles}
    \cup {New("membership", t, g, p, None) :
            t \in Of("tenant"), g \in Of("team") \cup {None}, p \in Of("principal")}
    \cup {New("binding", t, None, p, "tenant_admin") :
            t \in Of("tenant"), p \in Of("principal")}
    \cup {New("binding", None, None, p, "platform_admin") : p \in Of("principal")}
    \cup {New("enrolment", t, None, p, None) :
            t \in Of("tenant"), p \in Of("principal")}

Policies == {New("policy", t, None, None, l) :
                t \in Of("tenant"), l \in PolicyNames}

\* The changes a client can ask for; an edit names a version the row has had.
Creations == {[do |-> "create", row |-> r, key |-> k] : r \in Wanted, k \in Keys}

Puts == UNION {{[do |-> "put", row |-> r, etag |-> v] :
                   v \in {0} \cup {rows[i].version : i \in Twins(r)}} : r \in Policies}

Edits(ids, do, teams, states) ==
    UNION {{[do |-> do, id |-> i, etag |-> v, team |-> g, live |-> s] :
               v \in 1..rows[i].version, g \in teams, s \in states} : i \in ids}

Asked ==
    Creations \cup Puts
    \cup Edits(Of("tenant") \cup Of("team") \cup Of("principal"), "edit", {Unset}, BOOLEAN)
    \cup Edits(Of("membership"), "edit", Of("team") \cup {None, Unset},
               BOOLEAN \cup {Unset})
    \cup Edits(Of("membership") \cup Of("binding") \cup Of("enrolment"), "retire",
               {Unset}, {FALSE})

\* The tenant whose administration a change needs; None is the platform.
TenantOf(change) ==
    LET row == IF "row" \in DOMAIN change THEN change.row ELSE rows[change.id]
    IN  row.scope

\* admin_context reads session, principal and grants, and the handler checks
\* the role against them, before it reads anything else.
Arrive(q, p) ==
    /\ request[q] = Idle
    /\ arrived < MaxArrivals
    /\ p \in sessions \cap Live("principal")
    /\ \E c \in Asked :
           /\ MayAdminister(p, TenantOf(c))
           /\ request' = [request EXCEPT ![q] =
                  [phase |-> "known", by |-> p, change |-> c, found |-> None, seen |-> 0]]
    /\ arrived' = arrived + 1
    /\ UNCHANGED <<rows, records, sessions>>

\* callback finds the login state and goes to the identity provider.
ArriveLogin(q, n) ==
    /\ request[q] = Idle
    /\ arrived < MaxArrivals
    /\ request' = [request EXCEPT ![q] =
           [phase |-> "known", by |-> None, change |-> [do |-> "login", label |-> n],
            found |-> None, seen |-> 0]]
    /\ arrived' = arrived + 1
    /\ UNCHANGED <<rows, records, sessions>>

\* logout revokes the browser session; requests already known go on.
Logout(p) ==
    /\ p \in sessions \cap Live("principal")
    /\ sessions' = sessions \ {p}
    /\ UNCHANGED <<rows, records, request, arrived>>

-----------------------------------------------------------------------------
(* Load: the handler's reads and refusals *)

Known(q, do) == request[q].phase = "known" /\ request[q].change.do = do

Finish(q) == request' = [request EXCEPT ![q] = Idle]

\* The handler goes on to write over row `found', or to insert one.
Loaded(q, found, seen) ==
    /\ request' = [request EXCEPT ![q] =
           [@ EXCEPT !.phase = "loaded", !.found = found, !.seen = seen]]
    /\ UNCHANGED <<rows, records, sessions, arrived>>

\* An idempotency record of this caller, operation and key.
Recorded(q) ==
    LET r == request[q]
    IN  \E rec \in records : /\ rec.by = r.by
                             /\ rec.kind = r.change.row.kind
                             /\ rec.scope = r.change.row.scope
                             /\ rec.key = r.change.key

\* What the handlers ask of the rows a new row refers to.
Admissible(row) ==
    LET tenantActive == row.scope \in Live("tenant")
    IN  CASE row.kind = "team" -> tenantActive
          [] row.kind = "membership" ->
                /\ tenantActive
                /\ row.holder \in Live("principal")
                /\ row.team # None => /\ row.team \in Live("team")
                                      /\ rows[row.team].scope = row.scope
          [] row.kind = "binding" ->
                /\ row.holder \in Live("principal")
                /\ row.scope # None => tenantActive /\ Belongs(row.holder, row.scope)
          [] row.kind = "enrolment" -> tenantActive /\ Eligible(row.holder, row.scope)
          [] OTHER -> TRUE

\* Tenants, memberships and bindings are looked for first; a team's name is
\* left to the constraint.
Sought(row) ==
    IF row.kind \in {"tenant", "membership", "binding"} THEN Twins(row) ELSE {}

\* create_...: nothing of the kind exists yet, a row will be inserted.
LoadNew(q) ==
    /\ Known(q, "create")
    /\ ~Recorded(q)
    /\ Admissible(request[q].change.row)
    /\ Sought(request[q].change.row) = {}
    /\ Loaded(q, None, 0)

\* create_..._role_binding: a revoked binding will be taken up again.
LoadRevoked(q) ==
    /\ Known(q, "create")
    /\ ~Recorded(q)
    /\ Admissible(request[q].change.row)
    /\ request[q].change.row.kind = "binding"
    /\ \E i \in Sought(request[q].change.row) :
           /\ ~rows[i].live
           /\ rows[i].version < MaxVersion
           /\ Loaded(q, i, rows[i].version)

\* A replayed response, a reused key or a refusal: the table stays as it is.
TurnAway(q) ==
    /\ Known(q, "create")
    /\ LET row == request[q].change.row
       IN  \/ Recorded(q)
           \/ ~Admissible(row)
           \/ \E i \in Sought(row) : row.kind = "binding" => rows[i].live
    /\ Finish(q)
    /\ UNCHANGED <<rows, records, sessions, arrived>>

\* put_tool_policy, put_quota_policy: If-Match: * creates, an ETag replaces.
LoadPolicy(q) ==
    /\ Known(q, "put")
    /\ LET c == request[q].change
           there == Twins(c.row)
       IN  \/ there = {} /\ c.etag = 0 /\ Loaded(q, None, 0)
           \/ \E i \in there : /\ c.etag = rows[i].version
                               /\ c.etag < MaxVersion
                               /\ Loaded(q, i, c.etag)

\* Mutant: the row's identifier is compared with the caller's.
NotOneselfById(q) == request[q].change.id # request[q].by

\* principal_self_disable_denied and platform_role_self_revoke_denied.
NotOneself(q) ==
    LET c == request[q].change
        row == rows[c.id]
    IN  /\ row.kind = "principal" => ~(c.id = request[q].by /\ c.live = FALSE)
        /\ row.kind = "binding" =>
               ~(row.scope = None /\ row.holder = request[q].by
                                  /\ row.label = "platform_admin")

\* What each update and revocation asks before it writes.
Editable(q) ==
    LET c == request[q].change
        row == rows[c.id]
    IN  /\ row.version = c.etag
        /\ c.do = "retire" => row.live
        /\ NotOneself(q)
        /\ row.kind = "membership" /\ c.do = "edit" =>
               /\ c.live = TRUE => /\ row.scope \in Live("tenant")
                                   /\ row.holder \in Live("principal")
               /\ c.team \in Ids => /\ c.team \in Live("team")
                                    /\ rows[c.team].scope = row.scope

LoadEdit(q) ==
    /\ Known(q, "edit") \/ Known(q, "retire")
    /\ Editable(q)
    /\ request[q].change.etag < MaxVersion
    /\ Loaded(q, request[q].change.id, request[q].change.etag)

\* 404, 409, 412, or 204 for what is retired already.
Refuse(q) ==
    /\ \/ (Known(q, "edit") \/ Known(q, "retire")) /\ ~Editable(q)
       \/ /\ Known(q, "put")
          /\ LET c == request[q].change
                 there == Twins(c.row)
             IN  IF there = {} THEN c.etag # 0
                 ELSE \A i \in there : c.etag # rows[i].version
    /\ Finish(q)
    /\ UNCHANGED <<rows, records, sessions, arrived>>

\* callback has the claims and looks for their principal.
LoadLogin(q) ==
    /\ Known(q, "login")
    /\ LET there == {i \in Of("principal") : rows[i].label = request[q].change.label}
       IN  \/ there = {} /\ Loaded(q, None, 0)
           \/ \E i \in there : Loaded(q, i, rows[i].version)

-----------------------------------------------------------------------------
(* Commit: the writes, and the constraints that may undo them *)

Ready(q, dos) == request[q].phase = "loaded" /\ request[q].change.do \in dos

\* Mutant: the response is built before the new row has its identifier.
RememberUnflushed(q, id) ==
    LET r == request[q]
    IN  records' = IF r.change.do = "create"
                   THEN records \cup {[by |-> r.by, kind |-> r.change.row.kind,
                                       scope |-> r.change.row.scope,
                                       key |-> r.change.key, id |-> r.found]}
                   ELSE records

\* append_mutation_audit aside, a creation stores its idempotency record.
Remember(q, id) ==
    LET r == request[q]
    IN  records' = IF r.change.do = "create"
                   THEN records \cup {[by |-> r.by, kind |-> r.change.row.kind,
                                       scope |-> r.change.row.scope,
                                       key |-> r.change.key, id |-> id]}
                   ELSE records

\* Mutant: the records have no unique key.
KeyUnchecked(q) == request[q].phase = "loaded"

\* uq_idempotency_operation: another request with the key has committed.
KeyFree(q) == request[q].change.do = "create" => ~Recorded(q)

\* The row an update writes over the one it has seen.
NextRow(q) ==
    LET c == request[q].change
        row == rows[request[q].found]
        live == CASE c.do = "create" -> TRUE
                  [] c.do = "put"    -> row.live
                  [] OTHER -> IF c.live = Unset THEN row.live ELSE c.live
        team == IF c.do = "edit" /\ c.team # Unset THEN c.team ELSE row.team
    IN  [kind |-> row.kind, scope |-> row.scope, team |-> team,
         holder |-> row.holder, label |-> row.label, live |-> live,
         version |-> request[q].seen + 1]

\* Mutant: the UPDATE names the row only.
UnmovedUnchecked(q) == rows[request[q].found] # Absent

\* UPDATE ... WHERE id = ... AND version = the version loaded.
Unmoved(q) == rows[request[q].found].version = request[q].seen

CanInsert(q) == /\ request[q].found = None
                /\ Fits(request[q].change.row, None)
                /\ KeyFree(q)
CanReplace(q) == /\ request[q].found # None
                 /\ Unmoved(q)
                 /\ Fits(NextRow(q), request[q].found)
                 /\ KeyFree(q)

CommitInsert(q, id) ==
    /\ Ready(q, {"create", "put"})
    /\ CanInsert(q)
    /\ id \in Free
    /\ rows' = [rows EXCEPT ![id] = request[q].change.row]
    /\ Remember(q, id)
    /\ Finish(q)
    /\ UNCHANGED <<sessions, arrived>>

CommitReplace(q) ==
    /\ Ready(q, {"create", "put", "edit", "retire"})
    /\ CanReplace(q)
    /\ rows' = [rows EXCEPT ![request[q].found] = NextRow(q)]
    /\ Remember(q, request[q].found)
    /\ Finish(q)
    /\ UNCHANGED <<sessions, arrived>>

\* etag_mismatch, or an IntegrityError: the transaction is rolled back.
Rollback(q) ==
    /\ Ready(q, {"create", "put", "edit", "retire"})
    /\ ~CanInsert(q) /\ ~CanReplace(q)
    /\ Finish(q)
    /\ UNCHANGED <<rows, records, sessions, arrived>>

\* callback opens a browser session for a principal it found.
CommitLogin(q) ==
    /\ Ready(q, {"login"})
    /\ request[q].found # None
    /\ sessions' = sessions \cup {request[q].found}
    /\ Finish(q)
    /\ UNCHANGED <<rows, records, arrived>>

\* A first login: the principal, its session and, for a bootstrap subject, the
\* platform role are one transaction.
CommitFirstLogin(q, p, b) ==
    /\ Ready(q, {"login"})
    /\ request[q].found = None
    /\ p \in Free /\ b \in Free /\ p # b
    /\ LET n == request[q].change.label
           who == New("principal", None, None, None, n)
           admin == New("binding", None, None, p, "platform_admin")
       IN  IF Fits(who, None)
           THEN /\ rows' = [i \in Ids |-> IF i = p THEN who
                                          ELSE IF i = b /\ n \in Bootstrap THEN admin
                                          ELSE rows[i]]
                /\ sessions' = sessions \cup {p}
           ELSE UNCHANGED <<rows, sessions>>
    /\ Finish(q)
    /\ UNCHANGED <<records, arrived>>

Load(q) == \/ LoadNew(q) \/ LoadRevoked(q) \/ TurnAway(q) \/ LoadPolicy(q)
           \/ LoadEdit(q) \/ Refuse(q) \/ LoadLogin(q)

Commit(q) == \/ \E id \in Ids : CommitInsert(q, id)
             \/ CommitReplace(q)
             \/ Rollback(q)
             \/ CommitLogin(q)
             \/ \E p, b \in Ids : CommitFirstLogin(q, p, b)

Next == \/ \E q \in Requests : \/ \E p \in Ids : Arrive(q, p)
                               \/ \E n \in Subjects : ArriveLogin(q, n)
                               \/ Load(q)
                               \/ Commit(q)
        \/ \E p \in Ids : Logout(p)

Spec == Init /\ [][Next]_vars

-----------------------------------------------------------------------------
(* Correctness *)

\* Retries create once: a row made through a route that takes an
\* Idempotency-Key is named by a record, and a key of one caller and operation
\* names one row.  Two copies of a request may both find no record and both
\* insert; only one of their transactions may stand (mutations.py:43-66).
CreatedOnce(id) ==
    (Start[id] = Absent /\ (\/ rows[id].kind \in {"tenant", "team", "membership", "enrolment"}
                            \/ rows[id].kind = "binding" /\ rows[id].scope # None))
        => \E rec \in records : rec.id = id
RetriesCreateOnce ==
    /\ \A id \in Ids : CreatedOnce(id)
    /\ \A r, s \in records :
          (r.by = s.by /\ r.kind = s.kind /\ r.scope = s.scope /\ r.key = s.key) => r = s

\* No lost update: whoever changes a row, by an edit, a revocation, a
\* replacement or the restoration of a revoked role, raises its version by
\* one, so of the requests that loaded one version at most one stands, and an
\* ETag names one state of the row (mutations.py:128-160).
EditReplacesSeen ==
    \A id \in Ids : (id \notin Free /\ rows'[id] # rows[id]) =>
        /\ rows'[id].version = rows[id].version + 1
        /\ rows'[id].kind = rows[id].kind
EditsReplaceSeen == [][EditReplacesSeen]_vars

\* Platform administrators who can act.
Administrators == {p \in Live("principal") : Granted(p, "platform_admin", None)}

\* An administrator cannot take the last one away: when a step leaves nobody,
\* the request that did it was made by someone who had already lost the role,
\* or the account, since admin_context let them in (admin_iam.py:896-901,
\* 1099-1107).
LastOneLeaves ==
    (Administrators # {} /\ Administrators' = {}) =>
        \E q \in Requests : /\ request[q] # Idle
                            /\ request'[q] = Idle
                            /\ request[q].by \notin Administrators
LastAdministratorStays == [][LastOneLeaves]_vars

=============================================================================
