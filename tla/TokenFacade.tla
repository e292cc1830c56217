---------------------------- MODULE TokenFacade ----------------------------
(***************************************************************************)
(* The Tokens of the laboratory: create_token, rename_token, rotate_token, *)
(* revoke_token and delete_token in proxy_hub/simple_tokens.py, together   *)
(* with the older handlers for the same tables in proxy_hub/access_keys.py:*)
(* create_researcher, update_researcher, create_access_key,                *)
(* update_access_key, rotate_access_key and revoke_access_key.             *)
(*                                                                         *)
(* A Token is a managed principal, its membership and its Access Keys.  A  *)
(* handler loads the rows, decides, assigns attributes and commits, all in *)
(* one READ COMMITTED transaction: Load is everything up to the decision,  *)
(* Commit the flush and the commit.  The flush writes only the attributes  *)
(* whose value differs from the one loaded, computed from what was loaded, *)
(* and, except in update_researcher and update_access_key, without         *)
(* comparing versions.  Unique constraints are tested against what others  *)
(* have committed by then.                                                 *)
(*                                                                         *)
(* An operator that stands right before another with the same parameters,  *)
(* and that nothing uses, is that one with a fault.                        *)
(***************************************************************************)
EXTENDS Naturals, Sequences, FiniteSets

CONSTANTS
    Principals,  \* managed researchers that may exist
    Names,       \* normalised Token names
    Null,        \* an empty column, an absent header
    IdemKeys,    \* Idempotency-Key values
    Requests,    \* requests, one operation each
    Operations,  \* the operations in use
    First        \* the principal of a Token that exists from the start

AllOperations ==
    {"create", "rename", "rotate", "revoke", "delete",
     "create_researcher", "suspend", "reinstate", "create_access_key",
     "update_access_key", "rotate_access_key", "revoke_access_key"}

ASSUME TokenAssumption ==
    /\ Null \notin Names
    /\ First \in Principals
    /\ Operations \subseteq AllOperations

VARIABLES
    principal,   \* principals and their memberships
    key,         \* access_keys, in the order of created_at
    records,     \* idempotency_records: operation, key and Idempotency-Key
    request,     \* what each request loaded and is about to do
    listed,      \* history: the ETags, key and version, that were sent out
    deleted,     \* history: principals whose Token was deleted
    renamed,     \* history: principals whose Token was renamed
    origin       \* history: the idempotency record of each key

vars == <<principal, key, records, request, listed, deleted, renamed, origin>>

PrincipalRow ==
    [status : {"none", "active", "disabled"}, member : BOOLEAN,
     name : Names \cup {Null}, version : Nat]

\* live: revoked_at is empty; facade: token_name_key is not; active:
\* active_name_key.
KeyRow ==
    [owner : Principals, live : BOOLEAN, facade : BOOLEAN,
     active : Names \cup {Null}, version : Nat]

NoPrincipal ==
    [status |-> "none", member |-> FALSE, name |-> Null, version |-> 0]

NewPrincipal(n) ==
    [status |-> "active", member |-> TRUE, name |-> n, version |-> 1]

NewKeyUnlisted(p, n) ==
    [owner |-> p, live |-> TRUE, facade |-> FALSE, active |-> n, version |-> 1]

\* issue_access_key: the facade gives its keys a name, the others do not.
NewKey(p, n) ==
    [owner |-> p, live |-> TRUE, facade |-> n # Null, active |-> n,
     version |-> 1]

InputRow ==
    [op : AllOperations, k : Nat, name : Names \cup {Null},
     idem : IdemKeys \cup {Null}]

RequestRow ==
    [step : {"new", "loaded", "answered", "failed"},
     input : InputRow \cup {Null}, count : Nat,
     keyRead : KeyRow \cup {Null}, principalRead : PrincipalRow \cup {Null}]

\* A request to do op to the Token of key k, or to create one (k = 0).  The
\* researcher a key is created for is named by the first of its keys.
Input(ops, ks, names, idems) ==
    [op : ops \cap Operations, k : ks, name : names, idem : idems]

Inputs ==
    LET ks == DOMAIN key
        firsts == {k \in ks : \A j \in 1..(k - 1) : key[j].owner # key[k].owner}
    IN
    UNION {Input({"create"}, {0}, Names, IdemKeys),
           Input({"create_researcher"}, {0}, {Null}, IdemKeys),
           Input({"create_access_key"}, firsts, {Null}, IdemKeys),
           Input({"rename"}, ks, Names, {Null}),
           Input({"rotate", "rotate_access_key"}, ks, {Null}, IdemKeys),
           Input({"revoke", "delete", "update_access_key", "revoke_access_key",
                  "suspend", "reinstate"}, ks, {Null}, {Null})}

Idle(step) ==
    [step |-> step, input |-> Null, count |-> 0,
     keyRead |-> Null, principalRead |-> Null]

RecordRow == AllOperations \X Nat \X (IdemKeys \cup {Null})

Record(input) == <<input.op, input.k, input.idem>>

Idempotent(op) ==
    op \in {"create", "create_researcher", "rotate", "create_access_key",
            "rotate_access_key"}

Init ==
    \E n \in Names, i \in IdemKeys :
        /\ principal = [p \in Principals |->
                          IF p = First THEN NewPrincipal(n) ELSE NoPrincipal]
        /\ key = <<NewKey(First, n)>>
        /\ records = {<<"create", 0, i>>}
        /\ request = [r \in Requests |-> Idle("new")]
        /\ listed = {<<1, 1>>}
        /\ deleted = {}
        /\ renamed = {}
        /\ origin = <<<<"create", 0, i>>>>

-----------------------------------------------------------------------------
(* Loading and deciding.                                                   *)

\* _latest_facade_tokens: the latest facade key of every active principal.
Listed(k) ==
    /\ key[k].facade
    /\ principal[key[k].owner].status = "active"
    /\ \A j \in DOMAIN key : j > k /\ key[j].facade => key[j].owner # key[k].owner

\* A client sends in If-Match an ETag it was sent; it refreshes its list at any
\* time.
EtagMatches(k) == key[k].facade /\ <<k, key[k].version>> \in listed

NameFree(n, holder) == \A p \in Principals \ holder : principal[p].name # n

\* No early return: no replay, no 404, 409 or 412.
Accepts(input) ==
    LET k == input.k
        p == key[k].owner
    IN
    /\ Idempotent(input.op) => Record(input) \notin records
    /\ CASE input.op = "create" -> NameFree(input.name, {})
         [] input.op = "rename" -> EtagMatches(k) /\ NameFree(input.name, {p})
         [] input.op = "rotate" -> key[k].facade /\ principal[p].name # Null
         [] input.op \in {"revoke", "delete"} -> EtagMatches(k)
         [] input.op = "create_access_key" ->
                principal[p].status = "active" /\ principal[p].member
         [] input.op = "rotate_access_key" -> key[k].live /\ principal[p].member
         [] input.op \in {"update_access_key", "revoke_access_key"} -> key[k].live
         [] OTHER -> TRUE

Load(r) ==
    /\ request[r].step = "new"
    /\ \E input \in Inputs :
          request' = [request EXCEPT ![r] =
             IF ~Accepts(input) THEN Idle("answered")
             ELSE [step |-> "loaded", input |-> input, count |-> Len(key),
                   keyRead |-> IF input.k = 0 THEN Null ELSE key[input.k],
                   principalRead |-> IF input.k = 0 THEN Null
                                     ELSE principal[key[input.k].owner]]]
    /\ UNCHANGED <<principal, key, records, listed, deleted, renamed, origin>>

-----------------------------------------------------------------------------
(* Committing.                                                             *)

WrittenAlways(read, value, now) == value

\* What the flush leaves in a column that holds `now', was loaded as `read'
\* and was assigned `value': an assignment that changes nothing is not sent.
Written(read, value, now) == IF value = read THEN now ELSE value

NamesUniqueForPrincipals ==
    \A p, q \in Principals :
        principal[p].name = principal[q].name => p = q \/ principal[p].name = Null

\* The unique constraints on managed_name_key and active_name_key.
NamesUnique ==
    /\ \A p, q \in Principals :
          principal[p].name = principal[q].name => p = q \/ principal[p].name = Null
    /\ \A j, k \in DOMAIN key :
          key[j].active = key[k].active => j = k \/ key[j].active = Null

\* The attributes a handler assigns to revoke the key it loaded.
RevokedKey(read, now, name) ==
    [now EXCEPT !.live = Written(read.live, FALSE, @),
                !.active = name,
                !.version = read.version + 1]

Cleared(read, now) == Written(read.active, Null, now.active)

Answered(r) == request' = [request EXCEPT ![r] = Idle("answered")]

RecordedTwice(input) == records' = records \cup {Record(input)}

\* store_idempotency_record, under its unique constraint.
Recorded(input) ==
    /\ Record(input) \notin records
    /\ records' = records \cup {Record(input)}

CommitCreate(r) ==
    LET input == request[r].input IN
    /\ \E p \in Principals :
          /\ principal[p].status = "none"
          /\ principal' = [principal EXCEPT ![p] = NewPrincipal(input.name)]
          /\ key' = Append(key, NewKey(p, input.name))
    /\ Recorded(input)
    /\ origin' = Append(origin, Record(input))
    /\ UNCHANGED <<deleted, renamed>>

\* create_researcher gives neither the principal nor its key a name.
CommitCreateResearcher(r) == request[r].input.name = Null /\ CommitCreate(r)

\* The bulk UPDATE that names all keys of the principal sees those committed
\* when it starts.  A new name locks the principal against the foreign keys of
\* others: no key of it can commit later.
CommitRename(r) ==
    LET input == request[r].input
        read == request[r].keyRead
        p == read.owner
        was == request[r].principalRead
    IN
    /\ principal' = [principal EXCEPT
                       ![p].name = Written(was.name, input.name, @),
                       ![p].version = was.version + 1]
    /\ \E seen \in (IF input.name = was.name THEN request[r].count
                   ELSE Len(key)) .. Len(key) :
          key' = [j \in DOMAIN key |->
             [key[j] EXCEPT
                !.facade = @ \/ (j <= seen /\ key[j].owner = p),
                !.active = IF j = input.k /\ read.live /\ read.active # Null
                           THEN Written(read.active, input.name, @) ELSE @,
                !.version = IF j = input.k THEN read.version + 1 ELSE @]]
    /\ renamed' = renamed \cup {p}
    /\ UNCHANGED <<records, deleted, origin>>

\* The key loaded is revoked, the identity active, a new key issued under the
\* name loaded.
CommitRotate(r) ==
    LET input == request[r].input
        read == request[r].keyRead
        p == read.owner
        was == request[r].principalRead
    IN
    /\ principal' = [principal EXCEPT
                       ![p].status = Written(was.status, "active", @),
                       ![p].member = Written(was.member, TRUE, @)]
    /\ key' = Append([key EXCEPT ![input.k] =
                        RevokedKey(read, @, Cleared(read, @))],
                     NewKey(p, was.name))
    /\ Recorded(input)
    /\ origin' = Append(origin, Record(input))
    /\ UNCHANGED <<deleted, renamed>>

CommitRevoke(r) ==
    LET input == request[r].input
        read == request[r].keyRead
    IN
    /\ key' = [key EXCEPT ![input.k] =
                 IF read.live THEN RevokedKey(read, @, Cleared(read, @)) ELSE @]
    /\ UNCHANGED <<principal, records, deleted, renamed, origin>>

\* As revoke, and the identity is disabled and gives up its name.
CommitDelete(r) ==
    LET input == request[r].input
        read == request[r].keyRead
        p == read.owner
        was == request[r].principalRead
    IN
    /\ key' = [key EXCEPT ![input.k] =
                 IF read.live THEN RevokedKey(read, @, Cleared(read, @)) ELSE @]
    /\ principal' = [principal EXCEPT
                       ![p].status = Written(was.status, "disabled", @),
                       ![p].name = Written(was.name, Null, @),
                       ![p].member = Written(was.member, FALSE, @),
                       ![p].version = was.version + 1]
    /\ deleted' = deleted \cup {p}
    /\ UNCHANGED <<records, renamed, origin>>

\* The older handlers leave the names of the key alone.
CommitRotateAccessKey(r) ==
    LET input == request[r].input
        read == request[r].keyRead
    IN
    /\ key' = Append([key EXCEPT ![input.k] = RevokedKey(read, @, @.active)],
                     NewKey(read.owner, Null))
    /\ Recorded(input)
    /\ origin' = Append(origin, Record(input))
    /\ UNCHANGED <<principal, deleted, renamed>>

CommitRevokeAccessKey(r) ==
    LET input == request[r].input
        read == request[r].keyRead
    IN
    /\ key' = [key EXCEPT ![input.k] = RevokedKey(read, @, @.active)]
    /\ UNCHANGED <<principal, records, deleted, renamed, origin>>

\* A key of its own, beside those of the researcher's Token.
CommitCreateAccessKey(r) ==
    LET input == request[r].input IN
    /\ key' = Append(key, NewKey(request[r].keyRead.owner, Null))
    /\ Recorded(input)
    /\ origin' = Append(origin, Record(input))
    /\ UNCHANGED <<principal, deleted, renamed>>

\* update_access_key compares the version in its UPDATE; the label, tools,
\* limits and expiry it sets are read by no handler here.
CommitUpdateAccessKey(r) ==
    LET k == request[r].input.k IN
    /\ key[k].version = request[r].keyRead.version
    /\ key' = [key EXCEPT ![k].version = @ + 1]
    /\ UNCHANGED <<principal, records, deleted, renamed, origin>>

\* update_researcher compares the version in its UPDATE.
CommitStatus(r) ==
    LET input == request[r].input
        p == request[r].keyRead.owner
    IN
    /\ principal[p].version = request[r].principalRead.version
    /\ principal' = [principal EXCEPT
                       ![p].status = IF input.op = "suspend" THEN "disabled"
                                     ELSE "active",
                       ![p].version = @ + 1]
    /\ UNCHANGED <<key, records, deleted, renamed, origin>>

\* The ETags a client may hold from now on: of the list, and of the answer.
Listing(input) ==
    LET answered == CASE input.op \in {"create", "rotate"} -> {Len(key')}
                      [] input.op = "rename" -> {input.k}
                      [] OTHER -> {}
    IN  listed' = listed \cup
            {<<k, key'[k].version>> :
                k \in answered \cup {j \in DOMAIN key' : Listed(j)'}}

Commit(r) ==
    /\ request[r].step = "loaded"
    /\ LET op == request[r].input.op IN
       \/ op = "create" /\ CommitCreate(r)
       \/ op = "create_researcher" /\ CommitCreateResearcher(r)
       \/ op = "rename" /\ CommitRename(r)
       \/ op = "rotate" /\ CommitRotate(r)
       \/ op = "revoke" /\ CommitRevoke(r)
       \/ op = "delete" /\ CommitDelete(r)
       \/ op = "create_access_key" /\ CommitCreateAccessKey(r)
       \/ op = "update_access_key" /\ CommitUpdateAccessKey(r)
       \/ op = "rotate_access_key" /\ CommitRotateAccessKey(r)
       \/ op = "revoke_access_key" /\ CommitRevokeAccessKey(r)
       \/ op \in {"suspend", "reinstate"} /\ CommitStatus(r)
    /\ NamesUnique'
    /\ Answered(r)
    /\ Listing(request[r].input)

\* A constraint or a version that no longer matches, or a dead worker.
RollBack(r) ==
    /\ request[r].step = "loaded"
    /\ request' = [request EXCEPT ![r] = Idle("failed")]
    /\ UNCHANGED <<principal, key, records, listed, deleted, renamed, origin>>

Next == \E r \in Requests : Load(r) \/ Commit(r) \/ RollBack(r)

Spec == Init /\ [][Next]_vars

-----------------------------------------------------------------------------
(* Properties.                                                             *)

\* What a request that has decided holds: rows that existed, and a name where
\* it will write one.
Decided(q) ==
    /\ q.input \in InputRow
    /\ q.count <= Len(key)
    /\ q.input.op = "create" => q.input.name # Null
    /\ q.input.op \notin {"create", "create_researcher"} =>
          /\ q.input.k \in 1..q.count
          /\ q.keyRead \in KeyRow
          /\ q.keyRead.owner = key[q.input.k].owner
          /\ q.principalRead \in PrincipalRow
    /\ q.input.op = "rename" => q.input.name # Null
    /\ q.input.op = "rotate" => q.principalRead.name # Null

\* Type correctness: the rows, what each request read of them, and that only
\* the facade's keys hold a name.
TypeOK ==
    /\ principal \in [Principals -> PrincipalRow]
    /\ key \in Seq(KeyRow)
    /\ records \subseteq RecordRow
    /\ origin \in Seq(RecordRow) /\ Len(origin) = Len(key)
    /\ \A k \in DOMAIN key : key[k].active # Null => key[k].facade
    /\ request \in [Requests -> RequestRow]
    /\ \A r \in Requests : request[r].step = "loaded" => Decided(request[r])

\* However often and however concurrently a client repeats a request with one
\* Idempotency-Key, it issues one key.
RetriesIssueOnce ==
    \A j, k \in DOMAIN origin : origin[j] = origin[k] => j = k

\* Every live key the facade issued holds a name no other key holds: the
\* constraint on active_name_key decides the races of rotations and renames.
LiveKeysAreNamed ==
    \A k \in DOMAIN key :
        key[k].live /\ origin[k][1] \in {"create", "rotate"}
            => /\ key[k].active # Null
               /\ \A j \in DOMAIN key : key[j].active = key[k].active => j = k

LiveKeys(p) ==
    {k \in DOMAIN key : key[k].live /\ key[k].owner = p
                        /\ origin[k][1] \in {"create", "rotate"}}

\* A Token has one key that works: rotation replaces it, concurrent rotations
\* of it included, whichever of its keys they name.  A rename in progress can
\* let a second one in.
OneLiveKey == \A p \in Principals \ renamed : \A j, k \in LiveKeys(p) : j = k

\* The identity of a deleted Token is never usable again, whatever rotation,
\* revocation or status change raced with the deletion.
DeletionHolds ==
    \A p \in deleted \ renamed : ~(principal[p].status = "active" /\ principal[p].member)

\* "Delete revokes the Token, disables the managed Principal and Membership":
\* that DeletionHolds without its exception.
DeletedStaysDisabled ==
    \A p \in deleted :
        ~(principal[p].status = "active" /\ principal[p].member)

=============================================================================
