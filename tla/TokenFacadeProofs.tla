------------------------- MODULE TokenFacadeProofs -------------------------
(***************************************************************************)
(* Whatever stale rows the handlers of Tokens write back, for any number   *)
(* of requests, names and researchers: repeated requests issue one key,    *)
(* and every live key of a Token holds its name alone.                     *)
(***************************************************************************)
EXTENDS TokenFacade, TLAPS

USE TokenAssumption DEF TokenAssumption

-----------------------------------------------------------------------------
(* Sequences and rows.                                                     *)

LEMMA AppendedIsSeq ==
    ASSUME NEW S, NEW s \in Seq(S), NEW e \in S
    PROVE  /\ Append(s, e) \in Seq(S)
           /\ Len(Append(s, e)) = Len(s) + 1
           /\ \A i \in 1..Len(s) : Append(s, e)[i] = s[i]
           /\ Append(s, e)[Len(s) + 1] = e
  OBVIOUS

LEMMA ReplacedIsSeq ==
    ASSUME NEW S, NEW s \in Seq(S), NEW i \in 1..Len(s), NEW e \in S
    PROVE  /\ [s EXCEPT ![i] = e] \in Seq(S)
           /\ Len([s EXCEPT ![i] = e]) = Len(s)
           /\ [s EXCEPT ![i] = e][i] = e
           /\ \A j \in 1..Len(s) : j # i => [s EXCEPT ![i] = e][j] = s[j]
  OBVIOUS

\* A revoked key is dead unless it was read as dead, and keeps its owner.
LEMMA RevokedKeyRow ==
    ASSUME NEW read \in KeyRow, NEW now \in KeyRow, NEW n \in Names \cup {Null}
    PROVE  /\ RevokedKey(read, now, n) \in KeyRow
           /\ RevokedKey(read, now, n).owner = now.owner
           /\ RevokedKey(read, now, n).facade = now.facade
           /\ RevokedKey(read, now, n).active = n
           /\ RevokedKey(read, now, n).live => now.live /\ ~read.live
<1> DEFINE l == Written(read.live, FALSE, now.live)
<1>1. l \in BOOLEAN /\ (l => now.live /\ ~read.live)
  BY DEF KeyRow, Written
<1>2. read.version + 1 \in Nat
  BY DEF KeyRow
<1>3. RevokedKey(read, now, n) = [now EXCEPT !.live = l, !.active = n,
                                             !.version = read.version + 1]
  BY DEF RevokedKey
<1> HIDE DEF l
<1> QED
  BY <1>1, <1>2, <1>3 DEF KeyRow

LEMMA NewKeyRow ==
    ASSUME NEW p \in Principals, NEW n \in Names \cup {Null}
    PROVE  /\ NewKey(p, n) \in KeyRow
           /\ NewKey(p, n).active = n
           /\ NewKey(p, n).owner = p
           /\ NewKey(p, n).active # Null => NewKey(p, n).facade
  BY DEF NewKey, KeyRow

LEMMA ClearedName ==
    ASSUME NEW read \in KeyRow, NEW now \in KeyRow
    PROVE  /\ Cleared(read, now) \in {Null, now.active}
           /\ Cleared(read, now) \in Names \cup {Null}
  BY DEF Cleared, Written, KeyRow

-----------------------------------------------------------------------------
(* What a commit does to the keys.                                         *)

\* A key read as revoked is revoked.
DeadStaysDead ==
    \A r \in Requests :
        /\ request[r].step = "loaded"
        /\ request[r].input.op \notin {"create", "create_researcher"}
        /\ ~request[r].keyRead.live
        => ~key[request[r].input.k].live

\* What may become of the row of a key: it keeps its owner, and its name as
\* long as it lives.
Successor(old, new) ==
    /\ new \in KeyRow
    /\ new.owner = old.owner
    /\ new.live => old.live /\ (old.active # Null => new.active # Null)
    /\ (old.active # Null => old.facade) => (new.active # Null => new.facade)

KeysKept(keys) ==
    /\ keys \in Seq(KeyRow)
    /\ Len(keys) = Len(key)
    /\ \A k \in 1..Len(key) : Successor(key[k], keys[k])

FacadeKind(o) == o[1] \in {"create", "rotate"}

\* One more key, under an idempotency record that did not exist.
Issues(o) ==
    /\ o \in RecordRow \ records
    /\ records' = records \cup {o}
    /\ origin' = Append(origin, o)
    /\ \E keys, new :
          /\ KeysKept(keys)
          /\ new \in KeyRow
          /\ new.active # Null => new.facade
          /\ FacadeKind(o) => new.active # Null
          /\ key' = Append(keys, new)

KeyStep ==
    \/ KeysKept(key') /\ UNCHANGED <<records, origin>>
    \/ \E o \in RecordRow : Issues(o)

LEMMA SameKeysKept ==
    ASSUME TypeOK
    PROVE  KeysKept(key)
  BY DEF TypeOK, KeysKept, Successor

\* Replacing the row of one key.
LEMMA OneKeyChanged ==
    ASSUME TypeOK, NEW k \in 1..Len(key), NEW new, Successor(key[k], new)
    PROVE  KeysKept([key EXCEPT ![k] = new])
<1>1. new \in KeyRow /\ key \in Seq(KeyRow)
  BY DEF Successor, TypeOK
<1>2. \A j \in 1..Len(key) : Successor(key[j], key[j])
  BY SameKeysKept DEF KeysKept
<1> QED
  BY <1>1, <1>2, ReplacedIsSeq DEF KeysKept

\* What a request that has decided knows.
LEMMA LoadedRows ==
    ASSUME TypeOK, NEW r \in Requests, request[r].step = "loaded"
    PROVE  /\ request[r].input \in InputRow
           /\ request[r].input.op = "create" => request[r].input.name \in Names
           /\ request[r].input.op = "rename" => request[r].input.name \in Names
           /\ request[r].input.op = "rotate" => request[r].principalRead.name # Null
           /\ request[r].input.op \notin {"create", "create_researcher"} =>
                /\ request[r].input.k \in 1..Len(key)
                /\ request[r].input.k \in 1..request[r].count
                /\ request[r].count \in 0..Len(key)
                /\ request[r].keyRead \in KeyRow
                /\ request[r].keyRead.owner = key[request[r].input.k].owner
                /\ request[r].principalRead \in PrincipalRow
<1>1. Decided(request[r]) /\ request[r] \in RequestRow /\ Len(key) \in Nat
  BY DEF TypeOK
<1>2. request[r].count \in Nat
  BY <1>1 DEF RequestRow
<1>3. request[r].count \in 0..Len(key)
  BY <1>1, <1>2 DEF Decided
<1>4. request[r].input \in InputRow
  BY <1>1 DEF Decided
<1>5. request[r].input.name \in Names \cup {Null}
  BY <1>4 DEF InputRow
<1>6. request[r].input.op \notin {"create", "create_researcher"} => request[r].input.k \in 1..Len(key)
  BY <1>1, <1>2 DEF Decided
<1> QED
  BY <1>1, <1>3, <1>4, <1>5, <1>6 DEF Decided

\* A revocation of the key loaded, under any name it may keep.
LEMMA RevocationKeepsKeys ==
    ASSUME TypeOK, DeadStaysDead, NEW r \in Requests,
           request[r].step = "loaded", request[r].input.op \notin {"create", "create_researcher"},
           NEW n \in {Null, key[request[r].input.k].active}
    PROVE  KeysKept([key EXCEPT ![request[r].input.k] =
                       RevokedKey(request[r].keyRead, key[request[r].input.k], n)])
<1> DEFINE k == request[r].input.k
           read == request[r].keyRead
<1>1. k \in 1..Len(key) /\ read \in KeyRow /\ key[k] \in KeyRow
  BY LoadedRows DEF TypeOK
<1>2. n \in Names \cup {Null}
  BY <1>1 DEF KeyRow
<1>3. ~read.live => ~key[k].live
  BY DEF DeadStaysDead
<1>4. key[k].active # Null => key[k].facade
  BY <1>1 DEF TypeOK
<1> DEFINE new == RevokedKey(read, key[k], n)
<1>5. /\ new \in KeyRow
      /\ new.owner = key[k].owner
      /\ new.facade = key[k].facade
      /\ new.active = n
      /\ new.live => key[k].live /\ ~read.live
  BY <1>1, <1>2, RevokedKeyRow
<1>6. ~new.live
  BY <1>3, <1>5
<1> HIDE DEF new
<1>7. Successor(key[k], new)
  BY <1>4, <1>5, <1>6 DEF Successor
<1>8. KeysKept([key EXCEPT ![k] = new])
  BY <1>1, <1>7, OneKeyChanged
<1> QED
  BY <1>8 DEF new

LEMMA CreateIssues ==
    ASSUME TypeOK, NEW r \in Requests, request[r].step = "loaded",
           request[r].input.op \in {"create", "create_researcher"}, CommitCreate(r)
    PROVE  KeyStep
<1> DEFINE input == request[r].input
           o == Record(input)
<1>1. /\ input \in InputRow /\ input.name \in Names \cup {Null}
      /\ input.op = "create" => input.name # Null
  <2>1. input.op = "create" => input.name \in Names
    BY LoadedRows
  <2> QED
    BY <2>1, LoadedRows, TokenAssumption DEF InputRow
<1>2. /\ o \in RecordRow \ records
      /\ records' = records \cup {o}
      /\ origin' = Append(origin, o)
      /\ FacadeKind(o) => input.name # Null
  BY <1>1 DEF CommitCreate, Recorded, Record, RecordRow, InputRow, FacadeKind
<1>3. PICK p \in Principals : key' = Append(key, NewKey(p, input.name))
  BY DEF CommitCreate
<1>4. /\ NewKey(p, input.name) \in KeyRow
      /\ NewKey(p, input.name).active # Null => NewKey(p, input.name).facade
      /\ input.name # Null => NewKey(p, input.name).active # Null
  BY <1>1, NewKeyRow
<1> QED
  BY <1>2, <1>3, <1>4, SameKeysKept DEF KeyStep, Issues

LEMMA RotateIssues ==
    ASSUME TypeOK, DeadStaysDead, NEW r \in Requests, request[r].step = "loaded",
           request[r].input.op = "rotate", CommitRotate(r)
    PROVE  KeyStep
<1> DEFINE input == request[r].input
           read == request[r].keyRead
           n == request[r].principalRead.name
           o == Record(input)
           keys == [key EXCEPT ![input.k] =
                      RevokedKey(read, key[input.k], Cleared(read, key[input.k]))]
<1>1. /\ input \in InputRow
      /\ input.k \in 1..Len(key)
      /\ read \in KeyRow
      /\ n # Null
      /\ request[r].principalRead \in PrincipalRow
  BY LoadedRows
<1>2. key[input.k] \in KeyRow /\ n \in Names
  BY <1>1 DEF TypeOK, PrincipalRow
<1>3. o \in RecordRow \ records /\ records' = records \cup {o}
      /\ origin' = Append(origin, o)
  BY <1>1 DEF CommitRotate, Recorded, Record, RecordRow, InputRow
<1>4. Cleared(read, key[input.k]) \in {Null, key[input.k].active}
  BY <1>1, <1>2, ClearedName
<1>5. KeysKept(keys)
  BY <1>4, RevocationKeepsKeys
<1>6. key' = Append(keys, NewKey(read.owner, n))
  BY <1>1 DEF CommitRotate, TypeOK
<1>7. /\ NewKey(read.owner, n) \in KeyRow
      /\ NewKey(read.owner, n).active # Null
      /\ NewKey(read.owner, n).facade
  <2>1. read.owner \in Principals
    BY <1>1 DEF KeyRow
  <2> QED
    BY <1>2, <2>1, NewKeyRow
<1> HIDE DEF keys
<1> QED
  BY <1>3, <1>5, <1>6, <1>7 DEF KeyStep, Issues

LEMMA RotateAccessKeyIssues ==
    ASSUME TypeOK, DeadStaysDead, NEW r \in Requests, request[r].step = "loaded",
           request[r].input.op = "rotate_access_key", CommitRotateAccessKey(r)
    PROVE  KeyStep
<1> DEFINE input == request[r].input
           read == request[r].keyRead
           o == Record(input)
           keys == [key EXCEPT ![input.k] =
                      RevokedKey(read, key[input.k], key[input.k].active)]
<1>1. input \in InputRow /\ input.k \in 1..Len(key) /\ read \in KeyRow
  BY LoadedRows
<1>2. /\ o \in RecordRow \ records
      /\ records' = records \cup {o}
      /\ origin' = Append(origin, o)
      /\ ~FacadeKind(o)
  BY <1>1 DEF CommitRotateAccessKey, Recorded, Record, RecordRow, InputRow,
     FacadeKind
<1>3. KeysKept(keys)
  BY RevocationKeepsKeys
<1>4. key' = Append(keys, NewKey(read.owner, Null))
  BY <1>1 DEF CommitRotateAccessKey, TypeOK
<1>5. /\ NewKey(read.owner, Null) \in KeyRow
      /\ NewKey(read.owner, Null).active # Null => NewKey(read.owner, Null).facade
  <2>1. read.owner \in Principals
    BY <1>1 DEF KeyRow
  <2> QED
    BY <2>1, NewKeyRow
<1> HIDE DEF keys
<1> QED
  BY <1>2, <1>3, <1>4, <1>5 DEF KeyStep, Issues

LEMMA CreateAccessKeyIssues ==
    ASSUME TypeOK, NEW r \in Requests, request[r].step = "loaded",
           request[r].input.op = "create_access_key", CommitCreateAccessKey(r)
    PROVE  KeyStep
<1> DEFINE o == Record(request[r].input)
           new == NewKey(request[r].keyRead.owner, Null)
<1>1. request[r].input \in InputRow /\ request[r].keyRead.owner \in Principals
  BY LoadedRows DEF KeyRow
<1>2. /\ o \in RecordRow \ records
      /\ records' = records \cup {o}
      /\ origin' = Append(origin, o)
      /\ ~FacadeKind(o)
  BY <1>1 DEF CommitCreateAccessKey, Recorded, Record, RecordRow, InputRow, FacadeKind
<1>3. new \in KeyRow /\ (new.active # Null => new.facade)
  BY <1>1, NewKeyRow
<1>4. key' = Append(key, new)
  BY DEF CommitCreateAccessKey
<1> HIDE DEF new
<1> QED
  BY <1>2, <1>3, <1>4, SameKeysKept DEF KeyStep, Issues

LEMMA UpdateAccessKeyKeeps ==
    ASSUME TypeOK, NEW r \in Requests, request[r].step = "loaded",
           request[r].input.op = "update_access_key", CommitUpdateAccessKey(r)
    PROVE  KeyStep
<1> DEFINE k == request[r].input.k
           new == [key[k] EXCEPT !.version = key[k].version + 1]
<1>1. k \in 1..Len(key) /\ key[k] \in KeyRow /\ (key[k].active # Null => key[k].facade)
  BY LoadedRows DEF TypeOK
<1>2. Successor(key[k], new)
  BY <1>1 DEF Successor, KeyRow
<1>3. key' = [key EXCEPT ![k] = new] /\ UNCHANGED <<records, origin>>
  BY <1>1 DEF CommitUpdateAccessKey, TypeOK
<1> HIDE DEF new
<1> QED
  BY <1>1, <1>2, <1>3, OneKeyChanged DEF KeyStep

\* revoke, for both of its callers.
LEMMA RevokeKeepsKeys ==
    ASSUME TypeOK, DeadStaysDead, NEW r \in Requests, request[r].step = "loaded",
           request[r].input.op \notin {"create", "create_researcher"},
           UNCHANGED <<records, origin>>,
           key' = [key EXCEPT ![request[r].input.k] =
                     IF request[r].keyRead.live
                     THEN RevokedKey(request[r].keyRead, @,
                                     Cleared(request[r].keyRead, @))
                     ELSE @]
    PROVE  KeyStep
<1> DEFINE k == request[r].input.k
           read == request[r].keyRead
<1>1. k \in 1..Len(key) /\ read \in KeyRow /\ key[k] \in KeyRow
  BY LoadedRows DEF TypeOK
<1>2. Cleared(read, key[k]) \in {Null, key[k].active}
  BY <1>1, ClearedName
<1>3. CASE read.live
  <2>1. key' = [key EXCEPT ![k] = RevokedKey(read, key[k], Cleared(read, key[k]))]
    BY <1>1, <1>3
  <2>2. KeysKept([key EXCEPT ![k] = RevokedKey(read, key[k], Cleared(read, key[k]))])
    BY <1>2, RevocationKeepsKeys
  <2> QED
    BY <2>1, <2>2 DEF KeyStep
<1>4. CASE ~read.live
  <2>1. key' = key
    BY <1>1, <1>4 DEF TypeOK
  <2> QED
    BY <2>1, SameKeysKept DEF KeyStep
<1> QED
  BY <1>3, <1>4

LEMMA RenameKeepsKeys ==
    ASSUME TypeOK, NEW r \in Requests, request[r].step = "loaded",
           request[r].input.op = "rename", CommitRename(r)
    PROVE  KeyStep
<1> DEFINE input == request[r].input
           read == request[r].keyRead
           was == request[r].principalRead
           active(j) == IF j = input.k /\ read.live /\ read.active # Null
                        THEN Written(read.active, input.name, key[j].active)
                        ELSE key[j].active
           version(j) == IF j = input.k THEN read.version + 1 ELSE key[j].version
           facade(j, seen) == key[j].facade \/ (j <= seen /\ key[j].owner = read.owner)
           row(j, seen) == [key[j] EXCEPT !.facade = facade(j, seen),
                                          !.active = active(j),
                                          !.version = version(j)]
<1>1. /\ input.k \in 1..Len(key) /\ input.k \in 1..request[r].count
      /\ request[r].count \in 0..Len(key)
      /\ read \in KeyRow /\ read.owner = key[input.k].owner
      /\ input.name \in Names
  BY LoadedRows
<1> DEFINE first == IF input.name = was.name THEN request[r].count ELSE Len(key)
<1>21. \E seen \in first .. Len(key) : key' = [j \in DOMAIN key |-> row(j, seen)]
  BY DEF CommitRename
<1>22. first \in request[r].count .. Len(key)
  BY <1>1
<1> HIDE DEF first, row
<1>2. PICK seen \in request[r].count .. Len(key) :
         key' = [j \in DOMAIN key |-> row(j, seen)]
  BY <1>1, <1>21, <1>22
<1> USE DEF row
<1>3. key \in Seq(KeyRow) /\ DOMAIN key = 1..Len(key) /\ Len(key) \in Nat
  BY DEF TypeOK
<1>4. \A j \in 1..Len(key) : Successor(key[j], row(j, seen))
  <2> SUFFICES ASSUME NEW j \in 1..Len(key)
               PROVE  Successor(key[j], row(j, seen))
    OBVIOUS
  <2>1. key[j] \in KeyRow /\ (key[j].active # Null => key[j].facade)
    BY <1>3 DEF TypeOK
  <2>2. active(j) \in Names \cup {Null} /\ (key[j].active # Null => active(j) # Null)
    BY <1>1, <2>1 DEF Written, KeyRow
  <2>3. version(j) \in Nat
    BY <1>1, <2>1 DEF KeyRow
  <2>4. active(j) # Null => facade(j, seen)
    <3>1. j = input.k => j <= seen /\ key[j].owner = read.owner
      BY <1>1
    <3>2. j # input.k => active(j) = key[j].active
      OBVIOUS
    <3> HIDE DEF active
    <3> QED
      BY <2>1, <3>1, <3>2
  <2>5. facade(j, seen) \in BOOLEAN
    BY <2>1 DEF KeyRow
  <2> HIDE DEF active, version, facade
  <2>6. /\ row(j, seen) \in KeyRow
        /\ row(j, seen).owner = key[j].owner
        /\ row(j, seen).live = key[j].live
        /\ row(j, seen).active = active(j)
        /\ row(j, seen).facade = facade(j, seen)
    BY <2>1, <2>2, <2>3, <2>5 DEF KeyRow
  <2> HIDE DEF row
  <2> QED
    BY <2>2, <2>4, <2>6 DEF Successor
<1> HIDE DEF row
<1>5. \A j \in 1..Len(key) : row(j, seen) \in KeyRow
  BY <1>4 DEF Successor
<1>6. key' \in Seq(KeyRow) /\ Len(key') = Len(key)
  BY <1>2, <1>3, <1>5
<1>7. KeysKept(key')
  BY <1>2, <1>3, <1>4, <1>6 DEF KeysKept
<1> QED
  BY <1>7 DEF KeyStep, CommitRename

LEMMA CommitStepsKeys ==
    ASSUME TypeOK, DeadStaysDead, NEW r \in Requests, Commit(r)
    PROVE  KeyStep
<1> DEFINE op == request[r].input.op
           k == request[r].input.k
<1>1. request[r].step = "loaded"
  BY DEF Commit
<1>2. CASE op \in {"create", "create_researcher"} /\ CommitCreate(r)
  BY <1>1, <1>2, CreateIssues
<1>3. CASE op = "rename" /\ CommitRename(r)
  BY <1>1, <1>3, RenameKeepsKeys
<1>4. CASE op = "rotate" /\ CommitRotate(r)
  BY <1>1, <1>4, RotateIssues
<1>5. CASE op = "revoke" /\ CommitRevoke(r)
  BY <1>1, <1>5, RevokeKeepsKeys DEF CommitRevoke
<1>6. CASE op = "delete" /\ CommitDelete(r)
  BY <1>1, <1>6, RevokeKeepsKeys DEF CommitDelete
<1>7. CASE op = "rotate_access_key" /\ CommitRotateAccessKey(r)
  BY <1>1, <1>7, RotateAccessKeyIssues
<1>8. CASE op = "revoke_access_key" /\ CommitRevokeAccessKey(r)
  <2>1. k \in 1..Len(key)
    BY <1>1, <1>8, LoadedRows
  <2>2. KeysKept([key EXCEPT ![k] = RevokedKey(request[r].keyRead, key[k],
                                               key[k].active)])
    BY <1>1, <1>8, RevocationKeepsKeys
  <2>3. key' = [key EXCEPT ![k] = RevokedKey(request[r].keyRead, key[k],
                                             key[k].active)]
        /\ UNCHANGED <<records, origin>>
    BY <1>8, <2>1 DEF CommitRevokeAccessKey, TypeOK
  <2> QED
    BY <2>2, <2>3 DEF KeyStep
<1>9. CASE op \in {"suspend", "reinstate"} /\ CommitStatus(r)
  BY <1>9, SameKeysKept DEF CommitStatus, KeyStep
<1>10. CASE op = "create_access_key" /\ CommitCreateAccessKey(r)
  BY <1>1, <1>10, CreateAccessKeyIssues
<1>11. CASE op = "update_access_key" /\ CommitUpdateAccessKey(r)
  BY <1>1, <1>11, UpdateAccessKeyKeeps
<1> QED
  BY <1>2, <1>3, <1>4, <1>5, <1>6, <1>7, <1>8, <1>9, <1>10, <1>11
  DEF Commit, CommitCreateResearcher

-----------------------------------------------------------------------------
(* Principals.                                                             *)

PrincipalsTyped == principal' \in [Principals -> PrincipalRow]

\* A flush that writes some columns of a principal's row leaves a row.
LEMMA WrittenRow ==
    ASSUME NEW now \in PrincipalRow,
           NEW status \in {"none", "active", "disabled"}, NEW member \in BOOLEAN,
           NEW name \in Names \cup {Null}, NEW version \in Nat
    PROVE  [now EXCEPT !.status = status, !.name = name, !.member = member,
                       !.version = version] \in PrincipalRow
  BY DEF PrincipalRow

LEMMA CommitTypesPrincipals ==
    ASSUME TypeOK, NEW r \in Requests, Commit(r)
    PROVE  PrincipalsTyped
<1> DEFINE op == request[r].input.op
           input == request[r].input
           read == request[r].keyRead
           p == read.owner
           was == request[r].principalRead
<1>1. request[r].step = "loaded"
  BY DEF Commit
<1>2. principal \in [Principals -> PrincipalRow]
  BY DEF TypeOK
<1>3. ASSUME op \notin {"create", "create_researcher"}
      PROVE  p \in Principals /\ was \in PrincipalRow /\ was.version + 1 \in Nat
  <2>1. read \in KeyRow /\ was \in PrincipalRow
    BY <1>1, <1>3, LoadedRows
  <2> QED
    BY <2>1 DEF KeyRow, PrincipalRow
<1>4. CASE op \in {"create", "create_researcher"} /\ CommitCreate(r)
  <2>1. input.name \in Names \cup {Null}
    BY <1>1, LoadedRows DEF InputRow
  <2>2. NewPrincipal(input.name) \in PrincipalRow
    BY <2>1 DEF NewPrincipal, PrincipalRow
  <2> QED
    BY <1>2, <1>4, <2>2 DEF CommitCreate, PrincipalsTyped
<1>5. CASE op = "rename" /\ CommitRename(r)
  <2> DEFINE name == Written(was.name, input.name, principal[p].name)
             new == [principal[p] EXCEPT !.name = name, !.version = was.version + 1]
  <2>1. input.name \in Names
    BY <1>1, <1>5, LoadedRows
  <2>2. name \in Names \cup {Null}
    BY <1>2, <1>3, <1>5, <2>1 DEF Written, PrincipalRow
  <2> HIDE DEF name
  <2>3. new \in PrincipalRow
    BY <1>2, <1>3, <1>5, <2>2 DEF PrincipalRow
  <2>4. principal' = [principal EXCEPT ![p] = new]
    BY <1>2, <1>3, <1>5 DEF CommitRename, name
  <2> QED
    BY <1>2, <2>3, <2>4 DEF PrincipalsTyped
<1>6. CASE op = "rotate" /\ CommitRotate(r)
  <2> DEFINE status == Written(was.status, "active", principal[p].status)
             member == Written(was.member, TRUE, principal[p].member)
             new == [principal[p] EXCEPT !.status = status, !.member = member]
  <2>1. status \in {"none", "active", "disabled"}
    BY <1>2, <1>3, <1>6 DEF Written, PrincipalRow
  <2>2. member \in BOOLEAN
    BY <1>2, <1>3, <1>6 DEF Written, PrincipalRow
  <2> HIDE DEF status, member
  <2>3. new \in PrincipalRow
    BY <1>2, <1>3, <1>6, <2>1, <2>2 DEF PrincipalRow
  <2>4. principal' = [principal EXCEPT ![p] = new]
    BY <1>2, <1>3, <1>6 DEF CommitRotate, status, member
  <2> QED
    BY <1>2, <2>3, <2>4 DEF PrincipalsTyped
<1>7. CASE op = "delete" /\ CommitDelete(r)
  <2> DEFINE status == Written(was.status, "disabled", principal[p].status)
             name == Written(was.name, Null, principal[p].name)
             member == Written(was.member, FALSE, principal[p].member)
             new == [principal[p] EXCEPT !.status = status, !.name = name,
                                         !.member = member,
                                         !.version = was.version + 1]
  <2>1. status \in {"none", "active", "disabled"} /\ name \in Names \cup {Null}
    BY <1>2, <1>3, <1>7 DEF Written, PrincipalRow
  <2>2. member \in BOOLEAN
    BY <1>2, <1>3, <1>7 DEF Written, PrincipalRow
  <2> HIDE DEF status, name, member
  <2>3. new \in PrincipalRow
    BY <1>2, <1>3, <1>7, <2>1, <2>2, WrittenRow
  <2>4. principal' = [principal EXCEPT ![p] = new]
    BY <1>2, <1>3, <1>7 DEF CommitDelete, status, name, member
  <2> QED
    BY <1>2, <2>3, <2>4 DEF PrincipalsTyped
<1>8. CASE op \in {"suspend", "reinstate"} /\ CommitStatus(r)
  <2> DEFINE status == IF op = "suspend" THEN "disabled" ELSE "active"
             version == principal[p].version + 1
             new == [principal[p] EXCEPT !.status = status, !.version = version]
  <2>1. status \in {"none", "active", "disabled"} /\ p \in Principals
    BY <1>3, <1>8
  <2>4. version \in Nat /\ principal[p] \in PrincipalRow
    BY <1>2, <2>1 DEF PrincipalRow
  <2>5. principal' = [principal EXCEPT ![p] =
                        [principal[p] EXCEPT !.status = status, !.version = @ + 1]]
    BY <1>2, <1>8, <2>1 DEF CommitStatus
  <2> HIDE DEF status, version
  <2>2. new \in PrincipalRow
    BY <2>4, <2>1 DEF PrincipalRow
  <2>3. principal' = [principal EXCEPT ![p] = new]
    BY <2>5 DEF version
  <2> QED
    BY <1>2, <2>2, <2>3 DEF PrincipalsTyped
<1>9. CASE UNCHANGED principal
  BY <1>2, <1>9 DEF PrincipalsTyped
<1> QED
  BY <1>4, <1>5, <1>6, <1>7, <1>8, <1>9 DEF Commit, CommitCreateResearcher,
     CommitRevoke, CommitCreateAccessKey, CommitUpdateAccessKey, CommitRotateAccessKey,
     CommitRevokeAccessKey

-----------------------------------------------------------------------------
(* The inductive invariant.                                                *)

OriginsRecorded == \A k \in DOMAIN origin : origin[k] \in records

\* A live key of the facade holds a name.  That no other key holds it is the
\* unique constraint.
LiveKeysHoldNames ==
    \A k \in DOMAIN key :
        key[k].live /\ FacadeKind(origin[k]) => key[k].active # Null

Inv ==
    /\ TypeOK
    /\ DeadStaysDead
    /\ OriginsRecorded
    /\ RetriesIssueOnce
    /\ LiveKeysHoldNames
    /\ NamesUnique

LEMMA InvInit == Init => Inv
<1> SUFFICES ASSUME Init PROVE Inv
  OBVIOUS
<1>1. PICK n \in Names, i \in IdemKeys :
         /\ principal = [p \in Principals |->
                           IF p = First THEN NewPrincipal(n) ELSE NoPrincipal]
         /\ key = <<NewKey(First, n)>>
         /\ records = {<<"create", 0, i>>}
         /\ request = [r \in Requests |-> Idle("new")]
         /\ origin = <<<<"create", 0, i>>>>
  BY DEF Init
<1>2. /\ NewKey(First, n) \in KeyRow
      /\ NewKey(First, n).active # Null /\ NewKey(First, n).facade
  BY NewKeyRow
<1>3. NewPrincipal(n) \in PrincipalRow /\ NoPrincipal \in PrincipalRow
  BY DEF NewPrincipal, NoPrincipal, PrincipalRow
<1>4. <<"create", 0, i>> \in RecordRow
  BY DEF RecordRow, AllOperations
<1>5. Idle("new") \in RequestRow /\ Idle("new").step = "new"
  BY DEF Idle, RequestRow
<1>6. /\ DOMAIN key = {1} /\ key \in Seq(KeyRow) /\ Len(key) = 1
      /\ key[1] = NewKey(First, n)
  BY <1>1, <1>2
<1>7. /\ DOMAIN origin = {1} /\ origin \in Seq(RecordRow) /\ Len(origin) = 1
      /\ origin[1] = <<"create", 0, i>>
  BY <1>1, <1>4
<1>8. TypeOK
  BY <1>1, <1>2, <1>3, <1>4, <1>5, <1>6, <1>7 DEF TypeOK
<1>9. DeadStaysDead
  BY <1>1, <1>5 DEF DeadStaysDead
<1>10. OriginsRecorded /\ RetriesIssueOnce
  BY <1>1, <1>7 DEF OriginsRecorded, RetriesIssueOnce
<1>11. LiveKeysHoldNames
  BY <1>2, <1>6 DEF LiveKeysHoldNames
<1>12. NamesUnique
  <2>1. \A p \in Principals \ {First} : principal[p].name = Null
    BY <1>1 DEF NoPrincipal
  <2> QED
    BY <1>6, <2>1 DEF NamesUnique
<1> QED
  BY <1>8, <1>9, <1>10, <1>11, <1>12 DEF Inv

\* What a KeyStep means for a single key, old or new.
LEMMA KeyStepKeys ==
    ASSUME TypeOK, KeyStep
    PROVE  /\ key' \in Seq(KeyRow)
           /\ origin' \in Seq(RecordRow) /\ records' \subseteq RecordRow
           /\ records \subseteq records'
           /\ Len(key) \in Nat /\ Len(key') \in {Len(key), Len(key) + 1}
           /\ Len(origin') = Len(key')
           /\ \A k \in 1..Len(key) :
                 Successor(key[k], key'[k]) /\ origin'[k] = origin[k]
           /\ Len(key') = Len(key) + 1 =>
                 LET k == Len(key) + 1 IN
                 /\ origin'[k] \in records' \ records
                 /\ key'[k].active # Null => key'[k].facade
                 /\ FacadeKind(origin'[k]) => key'[k].active # Null
<1>1. /\ key \in Seq(KeyRow) /\ Len(key) \in Nat
      /\ origin \in Seq(RecordRow) /\ Len(origin) = Len(key)
      /\ records \subseteq RecordRow
  BY DEF TypeOK
<1>2. CASE KeysKept(key') /\ UNCHANGED <<records, origin>>
  BY <1>1, <1>2 DEF KeysKept
<1>3. ASSUME NEW o \in RecordRow, Issues(o)
      PROVE  /\ key' \in Seq(KeyRow)
             /\ origin' \in Seq(RecordRow) /\ records' \subseteq RecordRow
             /\ records \subseteq records'
             /\ Len(key') = Len(key) + 1
             /\ Len(origin') = Len(key')
             /\ \A k \in 1..Len(key) :
                   Successor(key[k], key'[k]) /\ origin'[k] = origin[k]
             /\ origin'[Len(key) + 1] \in records' \ records
             /\ key'[Len(key) + 1].active # Null => key'[Len(key) + 1].facade
             /\ FacadeKind(origin'[Len(key) + 1])
                  => key'[Len(key) + 1].active # Null
  <2>1. PICK keys, new :
           /\ KeysKept(keys)
           /\ new \in KeyRow
           /\ new.active # Null => new.facade
           /\ FacadeKind(o) => new.active # Null
           /\ key' = Append(keys, new)
    BY <1>3 DEF Issues
  <2>2. /\ keys \in Seq(KeyRow) /\ Len(keys) = Len(key)
        /\ \A k \in 1..Len(key) : Successor(key[k], keys[k])
    BY <2>1 DEF KeysKept
  <2>3. /\ key' \in Seq(KeyRow)
        /\ Len(key') = Len(key) + 1
        /\ \A k \in 1..Len(key) : key'[k] = keys[k]
        /\ key'[Len(key) + 1] = new
    BY <2>1, <2>2, AppendedIsSeq
  <2>4. /\ o \in RecordRow \ records
        /\ records' = records \cup {o}
        /\ origin' = Append(origin, o)
    BY <1>3 DEF Issues
  <2>5. /\ origin' \in Seq(RecordRow)
        /\ Len(origin') = Len(key) + 1
        /\ \A k \in 1..Len(key) : origin'[k] = origin[k]
        /\ origin'[Len(key) + 1] = o
    BY <1>1, <2>4, AppendedIsSeq
  <2> QED
    BY <1>1, <2>1, <2>2, <2>3, <2>4, <2>5
<1> QED
  BY <1>1, <1>2, <1>3 DEF KeyStep

\* A request that goes on to another step, decided or not.
LEMMA RequestStep ==
    ASSUME TypeOK, NEW r \in Requests, NEW row \in RequestRow,
           request' = [request EXCEPT ![r] = row]
    PROVE  /\ request' \in [Requests -> RequestRow]
           /\ request'[r] = row
           /\ \A q \in Requests \ {r} : request'[q] = request[q]
  BY DEF TypeOK

LEMMA IdleRow ==
    ASSUME NEW step \in {"new", "answered", "failed"}
    PROVE  Idle(step) \in RequestRow /\ Idle(step).step = step
  BY DEF Idle, RequestRow

\* The requests that can be made.
LEMMA InputFacts ==
    ASSUME TypeOK, NEW input \in Inputs
    PROVE  /\ input \in InputRow
           /\ input.op \in {"create", "rename"} => input.name \in Names
           /\ input.op \notin {"create", "create_researcher"} => input.k \in 1..Len(key)
<1>1. DOMAIN key = 1..Len(key) /\ Len(key) \in Nat
  BY DEF TypeOK
<1> DEFINE ks == DOMAIN key
           firsts == {k \in ks : \A j \in 1..(k - 1) : key[j].owner # key[k].owner}
<1>2. CASE input \in Input({"create"}, {0}, Names, IdemKeys)
  BY <1>2 DEF Input, InputRow, AllOperations
<1>3. CASE input \in Input({"rename"}, ks, Names, {Null})
  BY <1>1, <1>3 DEF Input, InputRow, AllOperations
<1>4. CASE input \in Input({"rotate", "rotate_access_key"}, ks, {Null}, IdemKeys)
  BY <1>1, <1>4 DEF Input, InputRow, AllOperations
<1>5. CASE input \in Input({"revoke", "delete", "update_access_key",
                            "revoke_access_key", "suspend", "reinstate"},
                           ks, {Null}, {Null})
  BY <1>1, <1>5 DEF Input, InputRow, AllOperations
<1>7. CASE input \in Input({"create_researcher"}, {0}, {Null}, IdemKeys)
  BY <1>7 DEF Input, InputRow, AllOperations
<1>8. CASE input \in Input({"create_access_key"}, firsts, {Null}, IdemKeys)
  BY <1>1, <1>8 DEF Input, InputRow, AllOperations
<1>6. \/ input \in Input({"create"}, {0}, Names, IdemKeys)
      \/ input \in Input({"rename"}, ks, Names, {Null})
      \/ input \in Input({"rotate", "rotate_access_key"}, ks, {Null}, IdemKeys)
      \/ input \in Input({"revoke", "delete", "update_access_key",
                          "revoke_access_key", "suspend", "reinstate"},
                         ks, {Null}, {Null})
      \/ input \in Input({"create_researcher"}, {0}, {Null}, IdemKeys)
      \/ input \in Input({"create_access_key"}, firsts, {Null}, IdemKeys)
  BY DEF Inputs
<1> QED
  BY <1>2, <1>3, <1>4, <1>5, <1>6, <1>7, <1>8

LEMMA LoadedRowIsDecided ==
    ASSUME TypeOK, NEW input \in Inputs, Accepts(input), NEW row,
           row = [step |-> "loaded", input |-> input, count |-> Len(key),
                  keyRead |-> IF input.k = 0 THEN Null ELSE key[input.k],
                  principalRead |-> IF input.k = 0 THEN Null
                                    ELSE principal[key[input.k].owner]]
    PROVE  /\ row \in RequestRow /\ Decided(row)
           /\ input.op \notin {"create", "create_researcher"} => row.keyRead = key[input.k]
<1>1. /\ input \in InputRow
      /\ input.op \in {"create", "rename"} => input.name \in Names
      /\ input.op \notin {"create", "create_researcher"} => input.k \in 1..Len(key)
      /\ input.k \in Nat
  BY InputFacts DEF InputRow
<1>2. /\ Len(key) \in Nat /\ DOMAIN key = 1..Len(key)
      /\ \A k \in 1..Len(key) : /\ key[k] \in KeyRow
                                /\ key[k].owner \in Principals
                                /\ principal[key[k].owner] \in PrincipalRow
  <2>1. /\ key \in Seq(KeyRow) /\ Len(key) \in Nat /\ DOMAIN key = 1..Len(key)
        /\ principal \in [Principals -> PrincipalRow]
    BY DEF TypeOK
  <2>2. \A k \in 1..Len(key) : key[k] \in KeyRow
    BY <2>1
  <2>3. \A x \in KeyRow : x.owner \in Principals
    BY DEF KeyRow
  <2> QED
    BY <2>1, <2>2, <2>3
<1>3. CASE input.op \in {"create", "create_researcher"}
  <2>1. input.k = 0
    BY <1>3 DEF Inputs, Input
  <2> QED
    BY <1>1, <1>2, <1>3, <2>1 DEF RequestRow, Decided
<1>4. CASE input.op \notin {"create", "create_researcher"}
  <2>1. /\ input.k \in 1..Len(key)
        /\ row.keyRead = key[input.k]
        /\ row.principalRead = principal[key[input.k].owner]
        /\ row.step = "loaded" /\ row.input = input /\ row.count = Len(key)
    BY <1>1, <1>4
  <2>2. input.op = "rotate" => row.principalRead.name # Null
    BY <2>1 DEF Accepts
  <2>3. Decided(row)
    BY <1>1, <1>2, <1>4, <2>1, <2>2 DEF Decided
  <2>4. row \in RequestRow
    BY <1>1, <1>2, <1>4, <2>1 DEF RequestRow
  <2> QED
    BY <2>1, <2>3, <2>4
<1> QED
  BY <1>3, <1>4

LEMMA LoadKeepsInv ==
    ASSUME Inv, NEW r \in Requests, Load(r)
    PROVE  Inv'
<1>1. TypeOK /\ UNCHANGED <<principal, key, records, listed, deleted, origin>>
  BY DEF Inv, Load
<1>2. PICK row \in RequestRow :
         /\ request' = [request EXCEPT ![r] = row]
         /\ row.step = "loaded" => Decided(row)
         /\ row.step = "loaded" /\ row.input.op \notin {"create", "create_researcher"}
              => row.keyRead = key[row.input.k]
  <2>1. PICK input \in Inputs :
          request' = [request EXCEPT ![r] =
             IF ~Accepts(input) THEN Idle("answered")
             ELSE [step |-> "loaded", input |-> input, count |-> Len(key),
                   keyRead |-> IF input.k = 0 THEN Null ELSE key[input.k],
                   principalRead |-> IF input.k = 0 THEN Null
                                     ELSE principal[key[input.k].owner]]]
    BY DEF Load
  <2>2. CASE ~Accepts(input)
    BY <2>1, <2>2, IdleRow
  <2>3. CASE Accepts(input)
    <3> DEFINE row == [step |-> "loaded", input |-> input, count |-> Len(key),
                       keyRead |-> IF input.k = 0 THEN Null ELSE key[input.k],
                       principalRead |-> IF input.k = 0 THEN Null
                                         ELSE principal[key[input.k].owner]]
    <3>1. /\ row \in RequestRow /\ Decided(row)
          /\ input.op \notin {"create", "create_researcher"} => row.keyRead = key[input.k]
      BY <1>1, <2>3, LoadedRowIsDecided
    <3>2. row.input = input /\ request' = [request EXCEPT ![r] = row]
      BY <2>1, <2>3
    <3> HIDE DEF row
    <3> QED
      BY <3>1, <3>2
  <2> QED
    BY <2>2, <2>3
<1>3. /\ request' \in [Requests -> RequestRow]
      /\ request'[r] = row
      /\ \A q \in Requests \ {r} : request'[q] = request[q]
  BY <1>1, <1>2, RequestStep
<1>4. TypeOK'
  <2>1. \A q \in Requests : request'[q].step = "loaded" => Decided(request'[q])
    BY <1>1, <1>2, <1>3 DEF TypeOK
  <2> QED
    BY <1>1, <1>3, <2>1 DEF TypeOK, Decided
<1>5. DeadStaysDead'
  BY <1>1, <1>2, <1>3 DEF Inv, DeadStaysDead
<1> QED
  BY <1>1, <1>4, <1>5 DEF Inv, OriginsRecorded, RetriesIssueOnce,
     LiveKeysHoldNames, NamesUnique

\* A request that is over leaves the others as decided as they were, whatever
\* became of the keys.
LEMMA OthersStayDecided ==
    ASSUME TypeOK, KeyStep, NEW r \in Requests,
           NEW row \in RequestRow, row.step # "loaded",
           request' = [request EXCEPT ![r] = row]
    PROVE  \A q \in Requests : request'[q].step = "loaded"
              => /\ request'[q] = request[q]
                 /\ Decided(request[q])'
<1> SUFFICES ASSUME NEW q \in Requests, request'[q].step = "loaded"
             PROVE  request'[q] = request[q] /\ Decided(request[q])'
  OBVIOUS
<1>1. request'[q] = request[q]
  BY RequestStep
<1>2. Decided(request[q]) /\ request[q].count \in Nat
  BY <1>1 DEF TypeOK, RequestRow
<1>3. /\ Len(key) \in Nat /\ Len(key') \in Nat /\ Len(key) <= Len(key')
      /\ DOMAIN key' = 1..Len(key') /\ DOMAIN key = 1..Len(key)
      /\ \A k \in 1..Len(key) : key'[k].owner = key[k].owner
  BY KeyStepKeys DEF Successor, TypeOK
<1> QED
  BY <1>1, <1>2, <1>3 DEF Decided

LEMMA CommitKeepsInv ==
    ASSUME Inv, NEW r \in Requests, Commit(r)
    PROVE  Inv'
<1>1. /\ TypeOK /\ KeyStep /\ PrincipalsTyped /\ NamesUnique'
      /\ Idle("answered") \in RequestRow /\ Idle("answered").step # "loaded"
      /\ request' = [request EXCEPT ![r] = Idle("answered")]
  BY CommitStepsKeys, CommitTypesPrincipals, IdleRow DEF Inv, Commit, Answered
<1>2. /\ key \in Seq(KeyRow) /\ key' \in Seq(KeyRow)
      /\ origin \in Seq(RecordRow) /\ origin' \in Seq(RecordRow)
      /\ records' \subseteq RecordRow /\ records \subseteq records'
      /\ Len(key) \in Nat /\ Len(key') \in {Len(key), Len(key) + 1}
      /\ Len(origin') = Len(key') /\ Len(origin) = Len(key)
      /\ \A k \in 1..Len(key) :
            Successor(key[k], key'[k]) /\ origin'[k] = origin[k]
      /\ Len(key') = Len(key) + 1 =>
            /\ origin'[Len(key) + 1] \in records' \ records
            /\ key'[Len(key) + 1].active # Null => key'[Len(key) + 1].facade
            /\ FacadeKind(origin'[Len(key) + 1])
                 => key'[Len(key) + 1].active # Null
  BY <1>1, KeyStepKeys DEF TypeOK
<1>3. /\ DOMAIN key = 1..Len(key) /\ DOMAIN key' = 1..Len(key')
      /\ DOMAIN origin = 1..Len(key) /\ DOMAIN origin' = 1..Len(key')
      /\ \A k \in 1..Len(key') : \/ k \in 1..Len(key)
                                 \/ k = Len(key) + 1 /\ Len(key') = Len(key) + 1
  <2>1. \A S, s : s \in Seq(S) => DOMAIN s = 1..Len(s)
    OBVIOUS
  <2>2. /\ DOMAIN key = 1..Len(key) /\ DOMAIN key' = 1..Len(key')
        /\ DOMAIN origin = 1..Len(origin) /\ DOMAIN origin' = 1..Len(origin')
    BY <1>2, <2>1
  <2>3. \A m, n \in Nat : n \in {m, m + 1} =>
           \A k \in 1..n : k \in 1..m \/ (k = m + 1 /\ n = m + 1)
    OBVIOUS
  <2>4. Len(key) \in Nat /\ Len(key') \in {Len(key), Len(key) + 1}
    BY <1>2
  <2>5. Len(key') \in Nat
    BY <2>4
  <2>6. \A k \in 1..Len(key') : \/ k \in 1..Len(key)
                                \/ k = Len(key) + 1 /\ Len(key') = Len(key) + 1
    BY <2>3, <2>4, <2>5
  <2>7. Len(origin) = Len(key) /\ Len(origin') = Len(key')
    BY <1>2
  <2> QED
    BY <2>2, <2>6, <2>7
<1>4. TypeOK'
  <2>1. /\ request' \in [Requests -> RequestRow]
        /\ \A q \in Requests : request'[q].step = "loaded"
              => request'[q] = request[q] /\ Decided(request[q])'
    BY <1>1, OthersStayDecided, RequestStep
  <2>2. \A k \in DOMAIN key' : key'[k].active # Null => key'[k].facade
    <3> SUFFICES ASSUME NEW k \in DOMAIN key'
                 PROVE  key'[k].active # Null => key'[k].facade
      OBVIOUS
    <3>1. CASE k \in 1..Len(key)
      <4>1. key[k].active # Null => key[k].facade
        BY <1>1, <1>3, <3>1 DEF TypeOK
      <4>2. Successor(key[k], key'[k])
        BY <1>2, <3>1
      <4> QED
        BY <4>1, <4>2 DEF Successor
    <3> QED
      BY <1>2, <1>3, <3>1
  <2>4. (\A q \in Requests : request[q].step = "loaded" => Decided(request[q]))'
    BY <2>1 DEF Decided
  <2> QED
    BY <1>1, <1>2, <2>1, <2>2, <2>4 DEF TypeOK, PrincipalsTyped
<1>5. DeadStaysDead'
  <2> SUFFICES ASSUME NEW q \in Requests, request'[q].step = "loaded",
                      request'[q].input.op \notin {"create", "create_researcher"}, ~request'[q].keyRead.live
               PROVE  ~key'[request'[q].input.k].live
    BY DEF DeadStaysDead
  <2>1. request'[q] = request[q]
    BY <1>1, RequestStep
  <2>2. request[q].input.k \in 1..Len(key)
    BY <1>1, <2>1, LoadedRows
  <2>3. ~key[request[q].input.k].live
    BY <2>1 DEF Inv, DeadStaysDead
  <2>4. Successor(key[request[q].input.k], key'[request[q].input.k])
    BY <1>2, <2>2
  <2> QED
    BY <2>1, <2>3, <2>4 DEF Successor
<1>6. OriginsRecorded'
  BY <1>2, <1>3 DEF Inv, OriginsRecorded
<1>7. RetriesIssueOnce'
  <2>1. \A k \in 1..Len(key) : origin'[k] \in records
    BY <1>2, <1>3 DEF Inv, OriginsRecorded
  <2>2. \A j, k \in 1..Len(key) : origin'[j] = origin'[k] => j = k
    BY <1>2, <1>3 DEF Inv, RetriesIssueOnce
  <2>3. Len(key') = Len(key) + 1 => origin'[Len(key) + 1] \notin records
    BY <1>2
  <2>4. SUFFICES ASSUME NEW j \in 1..Len(key'), NEW k \in 1..Len(key'),
                        origin'[j] = origin'[k]
                 PROVE  j = k
    BY <1>3 DEF RetriesIssueOnce
  <2>5. \A i \in 1..Len(key') : \/ i \in 1..Len(key) /\ origin'[i] \in records
                                \/ i = Len(key) + 1 /\ origin'[i] \notin records
    BY <1>3, <2>1, <2>3
  <2> QED
    BY <2>2, <2>4, <2>5
<1>8. LiveKeysHoldNames'
  <2> SUFFICES ASSUME NEW k \in DOMAIN key', key'[k].live, FacadeKind(origin'[k])
               PROVE  key'[k].active # Null
    BY DEF LiveKeysHoldNames, FacadeKind
  <2>1. CASE k \in 1..Len(key)
    <3>1. Successor(key[k], key'[k]) /\ origin'[k] = origin[k]
      BY <1>2, <2>1
    <3>2. key[k].live
      BY <3>1 DEF Successor
    <3>3. key[k].active # Null
      BY <1>3, <2>1, <3>1, <3>2 DEF Inv, LiveKeysHoldNames
    <3> QED
      BY <3>1, <3>3 DEF Successor
  <2> QED
    BY <1>2, <1>3, <2>1
<1> QED
  BY <1>1, <1>4, <1>5, <1>6, <1>7, <1>8 DEF Inv

LEMMA RollBackKeepsInv ==
    ASSUME Inv, NEW r \in Requests, RollBack(r)
    PROVE  Inv'
<1>1. /\ TypeOK /\ UNCHANGED <<principal, key, records, origin>>
      /\ Idle("failed") \in RequestRow /\ Idle("failed").step # "loaded"
      /\ request' = [request EXCEPT ![r] = Idle("failed")]
  BY IdleRow DEF Inv, RollBack
<1>2. /\ request' \in [Requests -> RequestRow]
      /\ \A q \in Requests : request'[q].step = "loaded"
                               => request'[q] = request[q]
  BY <1>1, RequestStep
<1>3. TypeOK'
  BY <1>1, <1>2 DEF TypeOK, Decided
<1>4. DeadStaysDead'
  BY <1>1, <1>2 DEF Inv, DeadStaysDead
<1> QED
  BY <1>1, <1>3, <1>4 DEF Inv, OriginsRecorded, RetriesIssueOnce,
     LiveKeysHoldNames, NamesUnique

LEMMA InvNext == Inv /\ [Next]_vars => Inv'
<1> SUFFICES ASSUME Inv, [Next]_vars PROVE Inv'
  OBVIOUS
<1>1. CASE UNCHANGED vars
  BY <1>1 DEF vars, Inv, TypeOK, Decided, DeadStaysDead, OriginsRecorded,
     RetriesIssueOnce, LiveKeysHoldNames, NamesUnique
<1>2. ASSUME NEW r \in Requests, Load(r) \/ Commit(r) \/ RollBack(r)
      PROVE  Inv'
  BY <1>2, LoadKeepsInv, CommitKeepsInv, RollBackKeepsInv
<1> QED
  BY <1>1, <1>2 DEF Next

LEMMA InvAlways == Spec => []Inv
  BY InvInit, InvNext, PTL DEF Spec

-----------------------------------------------------------------------------

\* Rows, records and what requests read of them are well typed, and only keys
\* of the facade hold names.
THEOREM TypeCorrect == Spec => []TypeOK
<1>1. Inv => TypeOK
  BY DEF Inv
<1> QED
  BY <1>1, InvAlways, PTL

\* One Idempotency-Key issues one key, however its requests overlap.
THEOREM RetriesIssueOnceAlways == Spec => []RetriesIssueOnce
<1>1. Inv => RetriesIssueOnce
  BY DEF Inv
<1> QED
  BY <1>1, InvAlways, PTL

\* A live key of a Token holds its name alone: a handler takes the name away
\* only from a key it revokes, and a key it read as revoked stays revoked.
THEOREM LiveKeysAreNamedAlways == Spec => []LiveKeysAreNamed
<1>1. Inv => LiveKeysAreNamed
  BY DEF Inv, LiveKeysHoldNames, FacadeKind, NamesUnique, LiveKeysAreNamed
<1> QED
  BY <1>1, InvAlways, PTL

-----------------------------------------------------------------------------
(* Tokens that were never renamed.                                         *)

\* Request r has loaded a key of p and is about to write.
Reads(r, p) ==
    /\ request[r].step = "loaded"
    /\ request[r].input.op \notin {"create", "create_researcher"}
    /\ request[r].keyRead.owner = p

\* The names p has, in its row, on its keys and in the rows others loaded.
HeldNames(p) ==
    {n \in Names :
        \/ principal[p].name = n
        \/ \E k \in DOMAIN key : key[k].owner = p /\ key[k].active = n
        \/ \E r \in Requests : Reads(r, p) /\ request[r].principalRead.name = n}

NamedOnce(p) == \A m, n \in HeldNames(p) : m = n

\* Nothing refers to a researcher that was not created.
Unborn(p) ==
    principal[p].status = "none" =>
        /\ principal[p].name = Null
        /\ p \notin deleted
        /\ \A k \in DOMAIN key : key[k].owner # p

\* A researcher without membership has no name and gets neither back, not even
\* from a request that loaded them.
StaysGone(p) ==
    /\ ~principal[p].member => principal[p].name = Null
    /\ p \in deleted => ~principal[p].member
    /\ \A r \in Requests : Reads(r, p) =>
          /\ request[r].principalRead.name = Null => principal[p].name = Null
          /\ ~request[r].principalRead.member
                => request[r].principalRead.name = Null /\ ~principal[p].member

TokensKeepNames ==
    /\ deleted \subseteq Principals
    /\ \A p \in Principals :
          /\ Unborn(p)
          /\ p \notin renamed => NamedOnce(p) /\ StaysGone(p)

\* A name that a key of p may lose and nothing else.
ActiveKept(p) ==
    \A k \in 1..Len(key) :
        key[k].owner = p => key'[k].active \in {Null, key[k].active}

\* What a commit does to the one researcher p whose key its request loaded.
Touches(r, p) ==
    /\ \A q \in Principals \ {p} : principal'[q] = principal[q] /\ ActiveKept(q)
    /\ principal[p].status # "none" => principal'[p].status # "none"
    /\ renamed' \in {renamed, renamed \cup {p}}
    /\ deleted' \in {deleted, deleted \cup {p}}
    /\ Len(key') = Len(key) + 1 =>
          /\ key'[Len(key) + 1].owner = p
          /\ key'[Len(key) + 1].active \in {Null, request[r].principalRead.name}
    /\ p \notin renamed' =>
          /\ ActiveKept(p)
          /\ principal'[p].name \in {Null, principal[p].name}
          /\ principal'[p].member => principal[p].member
          /\ ~principal'[p].member => principal'[p].name = Null
          /\ p \in deleted' => ~principal'[p].member

LEMMA ReaderRows ==
    ASSUME TypeOK, NEW p \in Principals, NEW r \in Requests, Reads(r, p)
    PROVE  /\ request[r].input.k \in 1..Len(key)
           /\ key[request[r].input.k].owner = p
           /\ key[request[r].input.k] \in KeyRow
           /\ request[r].keyRead \in KeyRow
           /\ request[r].principalRead \in PrincipalRow
           /\ principal[p] \in PrincipalRow
           /\ key \in Seq(KeyRow) /\ Len(key) \in Nat
<1>1. /\ request[r].input.k \in 1..Len(key)
      /\ request[r].keyRead \in KeyRow
      /\ request[r].keyRead.owner = key[request[r].input.k].owner
      /\ request[r].principalRead \in PrincipalRow
  BY LoadedRows DEF Reads
<1> QED
  BY <1>1 DEF TypeOK, Reads

\* Replacing the row of one key by one that holds the same name or none.
LEMMA OneNameDropped ==
    ASSUME TypeOK, NEW k \in 1..Len(key), NEW new,
           new.active \in {Null, key[k].active},
           NEW keys, keys = [key EXCEPT ![k] = new]
    PROVE  /\ Len(keys) = Len(key)
           /\ \A j \in 1..Len(key) : keys[j].active \in {Null, key[j].active}
  BY DEF TypeOK

\* The key loaded, revoked under the name a.
LEMMA LoadedKeyRevoked ==
    ASSUME TypeOK, NEW p \in Principals, NEW r \in Requests, Reads(r, p),
           NEW a \in {Null, key[request[r].input.k].active},
           NEW new, new = RevokedKey(request[r].keyRead,
                                     key[request[r].input.k], a)
    PROVE  new \in KeyRow /\ new.active = a
<1> DEFINE read == request[r].keyRead
           now == key[request[r].input.k]
<1>1. read \in KeyRow /\ now \in KeyRow
  BY ReaderRows
<1>2. a \in Names \cup {Null}
  BY <1>1 DEF KeyRow
<1> HIDE DEF read, now
<1>3. /\ RevokedKey(read, now, a) \in KeyRow
      /\ RevokedKey(read, now, a).owner = now.owner
      /\ RevokedKey(read, now, a).facade = now.facade
      /\ RevokedKey(read, now, a).active = a
      /\ RevokedKey(read, now, a).live => now.live /\ ~read.live
  BY <1>1, <1>2, RevokedKeyRow
<1> QED
  BY <1>3 DEF read, now

\* revoke and delete, of the key loaded.
LEMMA RevocationDropsName ==
    ASSUME TypeOK, NEW p \in Principals, NEW r \in Requests, Reads(r, p),
           key' = [key EXCEPT ![request[r].input.k] =
                     IF request[r].keyRead.live
                     THEN RevokedKey(request[r].keyRead, @,
                                     Cleared(request[r].keyRead, @))
                     ELSE @]
    PROVE  Len(key') = Len(key) /\ \A q \in Principals : ActiveKept(q)
<1> DEFINE k == request[r].input.k
           read == request[r].keyRead
           new == IF read.live
                  THEN RevokedKey(read, key[k], Cleared(read, key[k]))
                  ELSE key[k]
<1>1. k \in 1..Len(key) /\ read \in KeyRow /\ key[k] \in KeyRow
  BY ReaderRows
<1>2. /\ Cleared(read, key[k]) \in {Null, key[k].active}
      /\ Cleared(read, key[k]) \in Names \cup {Null}
  BY <1>1, ClearedName
<1>3. new.active \in {Null, key[k].active}
  <2> DEFINE gone == RevokedKey(read, key[k], Cleared(read, key[k]))
  <2>1. gone.active = Cleared(read, key[k])
    BY <1>2, LoadedKeyRevoked
  <2> HIDE DEF gone
  <2>2. new = IF read.live THEN gone ELSE key[k]
    BY DEF gone
  <2> QED
    BY <1>2, <2>1, <2>2
<1>4. key' = [key EXCEPT ![k] = new]
  BY <1>1 DEF TypeOK
<1> HIDE DEF new, k
<1>5. /\ Len(key') = Len(key)
      /\ \A j \in 1..Len(key) : key'[j].active \in {Null, key[j].active}
  BY <1>1, <1>3, <1>4, OneNameDropped
<1> QED
  BY <1>5 DEF ActiveKept

\* A replacement of the key loaded followed by a new key.
LEMMA ReplacementNames ==
    ASSUME TypeOK, NEW p \in Principals, NEW r \in Requests, Reads(r, p),
           NEW a \in {Null, key[request[r].input.k].active},
           NEW n \in Names \cup {Null},
           key' = Append([key EXCEPT ![request[r].input.k] =
                            RevokedKey(request[r].keyRead,
                                       key[request[r].input.k], a)],
                         NewKey(p, n))
    PROVE  /\ \A q \in Principals : ActiveKept(q)
           /\ key'[Len(key) + 1].owner = p
           /\ key'[Len(key) + 1].active = n
<1> DEFINE k == request[r].input.k
           new == RevokedKey(request[r].keyRead, key[k], a)
           keys == [key EXCEPT ![k] = new]
<1>1. /\ k \in 1..Len(key) /\ request[r].keyRead \in KeyRow
      /\ key[k] \in KeyRow /\ key \in Seq(KeyRow) /\ Len(key) \in Nat
  BY ReaderRows
<1>2. a \in Names \cup {Null}
  BY <1>1 DEF KeyRow
<1>3. new \in KeyRow /\ new.active \in {Null, key[k].active}
  BY LoadedKeyRevoked
<1> HIDE DEF new
<1>4. /\ Len(keys) = Len(key)
      /\ \A j \in 1..Len(key) : keys[j].active \in {Null, key[j].active}
  BY <1>1, <1>3, OneNameDropped
<1>5. keys \in Seq(KeyRow)
  BY <1>1, <1>3, ReplacedIsSeq
<1>6. /\ NewKey(p, n) \in KeyRow /\ NewKey(p, n).owner = p
      /\ NewKey(p, n).active = n
  BY NewKeyRow
<1>7. key' = Append(keys, NewKey(p, n))
  BY DEF new
<1> HIDE DEF keys
<1>8. /\ \A j \in 1..Len(key) : key'[j] = keys[j]
      /\ key'[Len(key) + 1] = NewKey(p, n)
  BY <1>4, <1>5, <1>6, <1>7, AppendedIsSeq
<1> QED
  BY <1>4, <1>6, <1>8 DEF ActiveKept

LEMMA RenameTouches ==
    ASSUME TypeOK, NEW p \in Principals, NEW r \in Requests, Reads(r, p),
           CommitRename(r)
    PROVE  Touches(r, p)
<1> DEFINE was == request[r].principalRead
           k == request[r].input.k
<1>1. /\ k \in 1..Len(key) /\ key[k].owner = p
      /\ was \in PrincipalRow /\ principal[p] \in PrincipalRow
      /\ key \in Seq(KeyRow) /\ Len(key) \in Nat
  BY ReaderRows
<1>2. request[r].keyRead.owner = p
  BY DEF Reads
<1>3. /\ \A q \in Principals \ {p} : principal'[q] = principal[q]
      /\ principal'[p].status = principal[p].status
  BY <1>1, <1>2 DEF CommitRename, TypeOK, PrincipalRow
<1>4. renamed' = renamed \cup {p} /\ deleted' = deleted
  BY <1>2 DEF CommitRename
<1>5. /\ \A j \in 1..Len(key) : j # k => key'[j].active = key[j].active
      /\ Len(key') = Len(key)
  <2>1. DOMAIN key = 1..Len(key) /\ \A j \in 1..Len(key) : key[j] \in KeyRow
    BY <1>1
  <2> DEFINE read == request[r].keyRead
             active(j) == IF j = k /\ read.live /\ read.active # Null
                          THEN Written(read.active, request[r].input.name,
                                       key[j].active)
                          ELSE key[j].active
             version(j) == IF j = k THEN read.version + 1 ELSE key[j].version
             row(j, seen) == [key[j] EXCEPT
                                !.facade = @ \/ (j <= seen /\ key[j].owner = read.owner),
                                !.active = active(j),
                                !.version = version(j)]
  <2>2. \E seen : key' = [j \in DOMAIN key |-> row(j, seen)]
    BY DEF CommitRename
  <2> HIDE DEF row
  <2>3. PICK seen : key' = [j \in DOMAIN key |-> row(j, seen)]
    BY <2>2
  <2>4. DOMAIN key' = DOMAIN key
    BY <2>3
  <2>5. key' \in Seq({row(j, seen) : j \in 1..Len(key)}) /\ Len(key') = Len(key)
    BY <1>1, <2>1, <2>3
  <2>6. \A j \in 1..Len(key) : row(j, seen).active = active(j)
    BY <2>1 DEF KeyRow, row
  <2>7. \A j \in 1..Len(key) : j # k => row(j, seen).active = key[j].active
    BY <2>6
  <2> QED
    BY <2>1, <2>3, <2>5, <2>7
<1>6. \A q \in Principals \ {p} : ActiveKept(q)
  BY <1>1, <1>5 DEF ActiveKept
<1> QED
  BY <1>1, <1>3, <1>4, <1>5, <1>6 DEF Touches

LEMMA RotateTouches ==
    ASSUME TypeOK, NEW p \in Principals, NEW r \in Requests, Reads(r, p),
           request[r].input.op = "rotate", CommitRotate(r),
           p \notin renamed => StaysGone(p)
    PROVE  Touches(r, p)
<1> DEFINE was == request[r].principalRead
           k == request[r].input.k
           read == request[r].keyRead
           status == Written(was.status, "active", principal[p].status)
           member == Written(was.member, TRUE, principal[p].member)
           new == [principal[p] EXCEPT !.status = status, !.member = member]
<1>1. /\ k \in 1..Len(key) /\ key[k].owner = p /\ key[k] \in KeyRow
      /\ was \in PrincipalRow /\ principal[p] \in PrincipalRow
      /\ read \in KeyRow /\ key \in Seq(KeyRow) /\ Len(key) \in Nat
  BY ReaderRows
<1>2. read.owner = p /\ was.name # Null
  BY LoadedRows DEF Reads
<1>3. was.member \/ p \in renamed
  BY <1>1, <1>2 DEF StaysGone
<1>4. principal' = [principal EXCEPT ![p] = new]
  BY <1>1, <1>2 DEF CommitRotate, TypeOK
<1>5. /\ principal[p].status # "none" => status # "none"
      /\ p \notin renamed => member = principal[p].member
  BY <1>1, <1>3 DEF Written
<1>6. /\ new.status = status /\ new.member = member
      /\ new.name = principal[p].name
  BY <1>1 DEF PrincipalRow
<1> HIDE DEF status, member, new
<1>7. /\ principal'[p] = new
      /\ \A q \in Principals \ {p} : principal'[q] = principal[q]
  BY <1>4 DEF TypeOK
<1>8. Cleared(read, key[k]) \in {Null, key[k].active}
  BY <1>1, ClearedName
<1>9. key' = Append([key EXCEPT ![k] = RevokedKey(read, key[k],
                                                  Cleared(read, key[k]))],
                    NewKey(p, was.name))
  BY <1>1, <1>2 DEF CommitRotate, TypeOK
<1>10. was.name \in Names \cup {Null}
  BY <1>1 DEF PrincipalRow
<1>11. /\ \A q \in Principals : ActiveKept(q)
       /\ key'[Len(key) + 1].owner = p
       /\ key'[Len(key) + 1].active = was.name
  BY <1>8, <1>9, <1>10, ReplacementNames
<1>12. deleted' = deleted /\ renamed' = renamed
  BY DEF CommitRotate
<1> HIDE DEF was, k, read
<1>13. p \notin renamed =>
          /\ principal'[p].name \in {Null, principal[p].name}
          /\ principal'[p].member => principal[p].member
          /\ ~principal'[p].member => principal'[p].name = Null
          /\ p \in deleted' => ~principal'[p].member
  BY <1>5, <1>6, <1>7, <1>12 DEF StaysGone
<1> QED
  BY <1>5, <1>6, <1>7, <1>11, <1>12, <1>13 DEF Touches, was

LEMMA DeleteTouches ==
    ASSUME TypeOK, NEW p \in Principals, NEW r \in Requests, Reads(r, p),
           CommitDelete(r), p \notin renamed => StaysGone(p)
    PROVE  Touches(r, p)
<1> DEFINE was == request[r].principalRead
           status == Written(was.status, "disabled", principal[p].status)
           name == Written(was.name, Null, principal[p].name)
           member == Written(was.member, FALSE, principal[p].member)
           new == [principal[p] EXCEPT !.status = status, !.name = name,
                                       !.member = member,
                                       !.version = was.version + 1]
<1>1. was \in PrincipalRow /\ principal[p] \in PrincipalRow
  BY ReaderRows
<1>2. request[r].keyRead.owner = p
  BY DEF Reads
<1>3. principal' = [principal EXCEPT ![p] = new]
  BY <1>2 DEF CommitDelete, TypeOK
<1>4. new.status = status /\ new.member = member /\ new.name = name
  BY <1>1 DEF PrincipalRow
<1>5. /\ principal[p].status # "none" => status # "none"
      /\ p \notin renamed => name = Null /\ ~member
  <2>1. was.member \in BOOLEAN
    BY <1>1 DEF PrincipalRow
  <2>2. p \notin renamed =>
          /\ was.name = Null => principal[p].name = Null
          /\ ~was.member => ~principal[p].member
    BY DEF StaysGone
  <2> QED
    BY <2>1, <2>2 DEF Written
<1> HIDE DEF status, member, name, new
<1>6. /\ principal'[p] = new
      /\ \A q \in Principals \ {p} : principal'[q] = principal[q]
  BY <1>3 DEF TypeOK
<1>7. Len(key') = Len(key) /\ \A q \in Principals : ActiveKept(q)
  BY RevocationDropsName DEF CommitDelete
<1>8. deleted' = deleted \cup {p} /\ renamed' = renamed /\ Len(key) \in Nat
  BY <1>2, ReaderRows DEF CommitDelete
<1> QED
  BY <1>4, <1>5, <1>6, <1>7, <1>8 DEF Touches

\* The commits that leave researchers, or all of them but their status, alone.
LEMMA NamesAloneTouches ==
    ASSUME TypeOK, NEW p \in Principals, NEW r \in Requests, Reads(r, p),
           p \notin renamed => StaysGone(p),
           \A q \in Principals \ {p} : principal'[q] = principal[q],
           principal[p].status # "none" => principal'[p].status # "none",
           principal'[p].name = principal[p].name,
           principal'[p].member = principal[p].member,
           UNCHANGED <<renamed, deleted>>,
           \A q \in Principals : ActiveKept(q),
           Len(key') = Len(key) + 1 =>
              /\ key'[Len(key) + 1].owner = p
              /\ key'[Len(key) + 1].active
                    \in {Null, request[r].principalRead.name}
    PROVE  Touches(r, p)
  BY DEF Touches, StaysGone

LEMMA OlderKeysTouch ==
    ASSUME TypeOK, NEW p \in Principals, NEW r \in Requests, Reads(r, p),
           p \notin renamed => StaysGone(p),
           \/ CommitRevoke(r) \/ CommitRotateAccessKey(r)
           \/ CommitRevokeAccessKey(r) \/ CommitCreateAccessKey(r)
           \/ CommitUpdateAccessKey(r)
    PROVE  Touches(r, p)
<1> DEFINE k == request[r].input.k
           read == request[r].keyRead
<1>1. /\ k \in 1..Len(key) /\ key[k] \in KeyRow /\ read \in KeyRow
      /\ read.owner = p /\ key \in Seq(KeyRow) /\ Len(key) \in Nat
  BY ReaderRows DEF Reads
<1>2. UNCHANGED <<principal, renamed, deleted>>
  BY DEF CommitRevoke, CommitRotateAccessKey, CommitRevokeAccessKey,
     CommitCreateAccessKey, CommitUpdateAccessKey
<1>3. CASE CommitRevoke(r)
  <2>1. Len(key') = Len(key) /\ \A q \in Principals : ActiveKept(q)
    BY <1>3, RevocationDropsName DEF CommitRevoke
  <2> QED
    BY <1>1, <1>2, <2>1, NamesAloneTouches
<1>4. CASE CommitRotateAccessKey(r)
  <2>1. key' = Append([key EXCEPT ![k] = RevokedKey(read, key[k], key[k].active)],
                      NewKey(p, Null))
    BY <1>1, <1>4 DEF CommitRotateAccessKey, TypeOK
  <2>2. /\ \A q \in Principals : ActiveKept(q)
        /\ key'[Len(key) + 1].owner = p
        /\ key'[Len(key) + 1].active = Null
    BY <2>1, ReplacementNames
  <2> QED
    BY <1>2, <2>2, NamesAloneTouches
<1>5. CASE CommitRevokeAccessKey(r)
  <2> DEFINE new == RevokedKey(read, key[k], key[k].active)
  <2>1. key[k].active \in Names \cup {Null}
    BY <1>1 DEF KeyRow
  <2>2. new.active = key[k].active
    BY LoadedKeyRevoked
  <2>3. key' = [key EXCEPT ![k] = new]
    BY <1>1, <1>5 DEF CommitRevokeAccessKey, TypeOK
  <2> HIDE DEF new, k
  <2>4. /\ Len(key') = Len(key)
        /\ \A j \in 1..Len(key) : key'[j].active \in {Null, key[j].active}
    BY <1>1, <2>2, <2>3, OneNameDropped
  <2>5. \A q \in Principals : ActiveKept(q)
    BY <2>4 DEF ActiveKept
  <2> QED
    BY <1>1, <1>2, <2>4, <2>5, NamesAloneTouches
<1>6. CASE CommitCreateAccessKey(r)
  <2>1. key' = Append(key, NewKey(p, Null))
    BY <1>1, <1>6 DEF CommitCreateAccessKey
  <2>2. /\ NewKey(p, Null) \in KeyRow /\ NewKey(p, Null).owner = p
        /\ NewKey(p, Null).active = Null
    BY NewKeyRow
  <2>3. /\ \A j \in 1..Len(key) : key'[j] = key[j]
        /\ key'[Len(key) + 1] = NewKey(p, Null)
    BY <1>1, <2>1, <2>2, AppendedIsSeq
  <2>4. \A q \in Principals : ActiveKept(q)
    BY <2>3 DEF ActiveKept
  <2> QED
    BY <1>2, <2>2, <2>3, <2>4, NamesAloneTouches
<1>7. CASE CommitUpdateAccessKey(r)
  <2> DEFINE new == [key[k] EXCEPT !.version = key[k].version + 1]
  <2>1. new.active = key[k].active
    BY <1>1 DEF KeyRow
  <2>2. key' = [key EXCEPT ![k] = new]
    BY <1>1, <1>7 DEF CommitUpdateAccessKey, TypeOK
  <2> HIDE DEF new, k
  <2>3. /\ Len(key') = Len(key)
        /\ \A j \in 1..Len(key) : key'[j].active \in {Null, key[j].active}
    BY <1>1, <2>1, <2>2, OneNameDropped
  <2>4. \A q \in Principals : ActiveKept(q)
    BY <2>3 DEF ActiveKept
  <2> QED
    BY <1>1, <1>2, <2>3, <2>4, NamesAloneTouches
<1> QED
  BY <1>3, <1>4, <1>5, <1>6, <1>7

LEMMA StatusTouches ==
    ASSUME TypeOK, NEW p \in Principals, NEW r \in Requests, Reads(r, p),
           p \notin renamed => StaysGone(p), CommitStatus(r)
    PROVE  Touches(r, p)
<1>1. request[r].keyRead.owner = p /\ principal[p] \in PrincipalRow
  BY ReaderRows DEF Reads
<1>2. /\ \A q \in Principals \ {p} : principal'[q] = principal[q]
      /\ principal'[p].status # "none"
      /\ principal'[p].name = principal[p].name
      /\ principal'[p].member = principal[p].member
      /\ UNCHANGED <<key, renamed, deleted>>
  BY <1>1 DEF CommitStatus, TypeOK, PrincipalRow
<1>3. Len(key) \in Nat /\ \A q \in Principals : ActiveKept(q)
  BY <1>2, ReaderRows DEF ActiveKept
<1> QED
  BY <1>2, <1>3, NamesAloneTouches

\* A name is loaded with its row, and lost with its request.
LEMMA RequestsKeepReading ==
    ASSUME TypeOK, NEW r \in Requests,
           NEW row \in RequestRow, row.step # "loaded",
           request' = [request EXCEPT ![r] = row],
           NEW q \in Requests, NEW p, Reads(q, p)'
    PROVE  Reads(q, p) /\ request'[q] = request[q]
<1>1. request'[q] = request[q]
  BY RequestStep DEF Reads
<1> QED
  BY <1>1 DEF Reads

\* The keys after a commit: those there were, with their owners, and one more.
LEMMA CommitKeys ==
    ASSUME Inv, NEW r \in Requests, Commit(r)
    PROVE  /\ Len(key) \in Nat
           /\ DOMAIN key = 1..Len(key)
           /\ \A k \in DOMAIN key' :
                 \/ k \in 1..Len(key)
                 \/ k = Len(key) + 1 /\ Len(key') = Len(key) + 1
           /\ \A k \in 1..Len(key) : key'[k].owner = key[k].owner
<1>1. TypeOK /\ KeyStep
  BY CommitStepsKeys DEF Inv
<1>2. /\ key' \in Seq(KeyRow) /\ Len(key) \in Nat
      /\ Len(key') \in {Len(key), Len(key) + 1}
      /\ \A k \in 1..Len(key) : Successor(key[k], key'[k])
  BY <1>1, KeyStepKeys
<1>3. DOMAIN key = 1..Len(key) /\ DOMAIN key' = 1..Len(key')
  BY <1>1, <1>2 DEF TypeOK
<1>4. \A k \in 1..Len(key) : key'[k].owner = key[k].owner
  BY <1>2 DEF Successor
<1>5. \A m, n \in Nat : n \in {m, m + 1} =>
         \A k \in 1..n : k \in 1..m \/ (k = m + 1 /\ n = m + 1)
  OBVIOUS
<1>6. \A k \in 1..Len(key') : \/ k \in 1..Len(key)
                              \/ k = Len(key) + 1 /\ Len(key') = Len(key) + 1
  BY <1>2, <1>5
<1> QED
  BY <1>2, <1>3, <1>4, <1>6

\* A commit that touches p gives nobody a name it did not have.
LEMMA TouchesAddNoName ==
    ASSUME Inv, NEW p \in Principals, NEW r \in Requests, Reads(r, p),
           Commit(r), Touches(r, p), NEW q \in Principals \ renamed'
    PROVE  HeldNames(q)' \subseteq HeldNames(q)
<1> SUFFICES ASSUME NEW n \in Names, n \in HeldNames(q)'
             PROVE  n \in HeldNames(q)
  BY DEF HeldNames
<1>1. TypeOK /\ n # Null
  BY DEF Inv
<1>2. \/ principal'[q].name = n
      \/ \E k \in DOMAIN key' : key'[k].owner = q /\ key'[k].active = n
      \/ \E s \in Requests : Reads(s, q)' /\ request'[s].principalRead.name = n
  BY DEF HeldNames
<1>3. CASE principal'[q].name = n
  <2>1. principal[q].name = n
    BY <1>1, <1>3 DEF Touches
  <2> QED
    BY <2>1 DEF HeldNames
<1>4. ASSUME NEW k \in DOMAIN key', key'[k].owner = q, key'[k].active = n
      PROVE  n \in HeldNames(q)
  <2>1. ActiveKept(q)
    BY DEF Touches
  <2>2. CASE k \in 1..Len(key)
    <3>1. key[k].owner = q /\ key[k].active = n
      BY <1>1, <1>4, <2>1, <2>2, CommitKeys DEF ActiveKept
    <3> QED
      BY <2>2, <3>1, CommitKeys DEF HeldNames
  <2>3. CASE k = Len(key) + 1 /\ Len(key') = Len(key) + 1
    <3>1. q = p /\ request[r].principalRead.name = n
      BY <1>1, <1>4, <2>3 DEF Touches
    <3> QED
      BY <3>1 DEF HeldNames
  <2> QED
    BY <2>2, <2>3, CommitKeys
<1>5. ASSUME NEW s \in Requests, Reads(s, q)',
             request'[s].principalRead.name = n
      PROVE  n \in HeldNames(q)
  <2>1. Reads(s, q) /\ request'[s] = request[s]
    BY <1>1, <1>5, RequestsKeepReading, IdleRow DEF Commit, Answered
  <2> QED
    BY <1>5, <2>1 DEF HeldNames
<1> QED
  BY <1>2, <1>3, <1>4, <1>5

LEMMA TouchesKeepNames ==
    ASSUME Inv, TokensKeepNames, NEW p \in Principals, NEW r \in Requests,
           Reads(r, p), Commit(r), Touches(r, p)
    PROVE  TokensKeepNames'
<1>0. deleted' \subseteq Principals
  BY DEF Touches, TokensKeepNames
<1> SUFFICES ASSUME NEW q \in Principals
             PROVE  /\ Unborn(q)'
                    /\ q \notin renamed' => (NamedOnce(q) /\ StaysGone(q))'
  BY <1>0 DEF TokensKeepNames
<1>1. /\ TypeOK /\ Unborn(q)
      /\ q \notin renamed => NamedOnce(q) /\ StaysGone(q)
  BY DEF Inv, TokensKeepNames
<1>2. principal[p].status # "none"
  <2>1. /\ request[r].input.k \in DOMAIN key
        /\ key[request[r].input.k].owner = p
    BY <1>1, ReaderRows
  <2> QED
    BY <2>1 DEF TokensKeepNames, Unborn
<1>3. Unborn(q)'
  <2> SUFFICES ASSUME principal'[q].status = "none"
               PROVE  /\ principal'[q].name = Null
                      /\ q \notin deleted'
                      /\ \A k \in DOMAIN key' : key'[k].owner # q
    BY DEF Unborn
  <2>1. q # p /\ principal'[q] = principal[q]
    BY <1>2 DEF Touches
  <2>2. /\ principal[q].name = Null /\ q \notin deleted
        /\ \A k \in DOMAIN key : key[k].owner # q
    BY <1>1, <2>1 DEF Unborn
  <2>3. q \notin deleted'
    BY <2>1, <2>2 DEF Touches
  <2>4. Len(key') = Len(key) + 1 => key'[Len(key) + 1].owner = p
    BY DEF Touches
  <2>5. \A k \in DOMAIN key' : key'[k].owner # q
    BY <2>1, <2>2, <2>4, CommitKeys
  <2> QED
    BY <2>1, <2>2, <2>3, <2>5
<1>4. ASSUME q \notin renamed' PROVE NamedOnce(q)' /\ StaysGone(q)'
  <2>1. q \notin renamed
    BY <1>4 DEF Touches
  <2>2. NamedOnce(q)'
    <3>1. HeldNames(q)' \subseteq HeldNames(q)
      BY <1>4, TouchesAddNoName
    <3>2. \A m, n \in HeldNames(q) : m = n
      BY <1>1, <2>1 DEF NamedOnce
    <3>3. \A m, n \in HeldNames(q)' : m = n
      BY <3>1, <3>2
    <3> QED
      BY <3>3 DEF NamedOnce
  <2>3. /\ principal'[q].name \in {Null, principal[q].name}
        /\ principal'[q].member => principal[q].member
        /\ ~principal'[q].member => principal'[q].name = Null
        /\ q \in deleted' => ~principal'[q].member
    BY <1>1, <1>4, <2>1 DEF Touches, StaysGone
  <2>4. ASSUME NEW s \in Requests, Reads(s, q)'
        PROVE  /\ request'[s].principalRead.name = Null
                     => principal'[q].name = Null
               /\ ~request'[s].principalRead.member
                     => /\ request'[s].principalRead.name = Null
                        /\ ~principal'[q].member
    <3>1. Reads(s, q) /\ request'[s] = request[s]
      BY <1>1, <2>4, RequestsKeepReading, IdleRow DEF Commit, Answered
    <3>2. /\ request[s].principalRead.name = Null => principal[q].name = Null
          /\ ~request[s].principalRead.member
                => /\ request[s].principalRead.name = Null
                   /\ ~principal[q].member
      BY <1>1, <2>1, <3>1 DEF StaysGone
    <3> QED
      BY <2>3, <3>1, <3>2
  <2> QED
    BY <2>2, <2>3, <2>4 DEF StaysGone
<1> QED
  BY <1>3, <1>4

\* A researcher is born with its only key, under one name or none.
LEMMA CreateKeepsNames ==
    ASSUME Inv, TokensKeepNames, NEW r \in Requests, Commit(r),
           CommitCreate(r)
    PROVE  TokensKeepNames'
<1> DEFINE n == request[r].input.name
<1>1. PICK p \in Principals :
         /\ principal[p].status = "none"
         /\ principal' = [principal EXCEPT ![p] = NewPrincipal(n)]
         /\ key' = Append(key, NewKey(p, n))
  BY DEF CommitCreate
<1>2. TypeOK /\ UNCHANGED <<deleted, renamed>> /\ n \in Names \cup {Null}
  BY LoadedRows DEF Inv, Commit, CommitCreate, InputRow
<1>3. /\ p \notin deleted
      /\ \A k \in DOMAIN key : key[k].owner # p
  BY <1>1 DEF TokensKeepNames, Unborn
<1>4. /\ \A k \in 1..Len(key) : key'[k] = key[k]
      /\ key'[Len(key) + 1] = NewKey(p, n)
      /\ NewKey(p, n).owner = p /\ NewKey(p, n).active = n
  <2>1. /\ NewKey(p, n) \in KeyRow /\ NewKey(p, n).active = n
        /\ NewKey(p, n).owner = p
    BY <1>2, NewKeyRow
  <2>2. key \in Seq(KeyRow)
    BY <1>2 DEF TypeOK
  <2> HIDE DEF n
  <2> QED
    BY <1>1, <2>1, <2>2, AppendedIsSeq
<1>5. /\ principal'[p].status = "active" /\ principal'[p].member
      /\ principal'[p].name = n
      /\ \A q \in Principals \ {p} : principal'[q] = principal[q]
  BY <1>1, <1>2 DEF TypeOK, NewPrincipal
<1>6. \A s \in Requests : ~Reads(s, p)
  BY <1>2, <1>3, ReaderRows
<1>7. ASSUME NEW s \in Requests, NEW q, Reads(s, q)'
      PROVE  Reads(s, q) /\ request'[s] = request[s]
  BY <1>2, <1>7, RequestsKeepReading, IdleRow DEF Commit, Answered
<1> HIDE DEF n
<1>0. deleted' \subseteq Principals
  BY <1>2 DEF TokensKeepNames
<1> SUFFICES ASSUME NEW q \in Principals
             PROVE  /\ Unborn(q)'
                    /\ q \notin renamed' => (NamedOnce(q) /\ StaysGone(q))'
  BY <1>0 DEF TokensKeepNames
<1>8. CASE q = p
  <2>1. Unborn(q)'
    BY <1>5, <1>8 DEF Unborn
  <2>2. \A s \in Requests : ~Reads(s, q)'
    BY <1>6, <1>7, <1>8
  <2>3. \A k \in DOMAIN key' : key'[k].owner = p => key'[k].active = n
    BY <1>3, <1>4, CommitKeys
  <2>4. NamedOnce(q)'
    BY <1>5, <1>8, <2>2, <2>3 DEF NamedOnce, HeldNames
  <2>5. StaysGone(q)'
    BY <1>2, <1>3, <1>5, <1>8, <2>2 DEF StaysGone
  <2> QED
    BY <2>1, <2>4, <2>5
<1>9. CASE q # p
  <2>1. principal'[q] = principal[q]
    BY <1>5, <1>9
  <2>2. \A k \in DOMAIN key' : key'[k].owner = q =>
           k \in DOMAIN key /\ key'[k] = key[k]
    BY <1>4, <1>9, CommitKeys
  <2>3. /\ Unborn(q)
        /\ q \notin renamed => NamedOnce(q) /\ StaysGone(q)
    BY DEF TokensKeepNames
  <2>4. Unborn(q)'
    BY <1>2, <2>1, <2>2, <2>3 DEF Unborn
  <2>5. HeldNames(q)' \subseteq HeldNames(q)
    BY <1>7, <2>1, <2>2 DEF HeldNames
  <2>6. q \notin renamed => NamedOnce(q)'
    <3>1. q \notin renamed => \A m, l \in HeldNames(q)' : m = l
      BY <2>3, <2>5 DEF NamedOnce
    <3> QED
      BY <3>1 DEF NamedOnce
  <2>7. q \notin renamed => StaysGone(q)'
    BY <1>2, <1>7, <2>1, <2>3 DEF StaysGone
  <2> QED
    BY <1>2, <2>4, <2>6, <2>7
<1> QED
  BY <1>8, <1>9

LEMMA CommitKeepsNames ==
    ASSUME Inv, TokensKeepNames, NEW r \in Requests, Commit(r)
    PROVE  TokensKeepNames'
<1> DEFINE op == request[r].input.op
           p == request[r].keyRead.owner
<1>1. request[r].step = "loaded" /\ TypeOK
  BY DEF Commit, Inv
<1>2. CASE CommitCreate(r)
  BY <1>2, CreateKeepsNames
<1>3. CASE op \notin {"create", "create_researcher"}
  <2>1. p \in Principals /\ Reads(r, p)
    <3>1. request[r].keyRead \in KeyRow
      BY <1>1, <1>3, LoadedRows
    <3> QED
      BY <1>1, <1>3, <3>1 DEF Reads, KeyRow
  <2>2. p \notin renamed => StaysGone(p)
    BY <2>1 DEF TokensKeepNames
  <2> HIDE DEF p
  <2>3. Touches(r, p)
    BY <1>1, <1>3, <2>1, <2>2, RenameTouches, RotateTouches, DeleteTouches,
       OlderKeysTouch, StatusTouches DEF Commit
  <2> QED
    BY <2>1, <2>3, TouchesKeepNames
<1> QED
  BY <1>2, <1>3 DEF Commit, CommitCreateResearcher

\* A request loads the names there are.
LEMMA LoadKeepsNames ==
    ASSUME Inv, TokensKeepNames, NEW r \in Requests, Load(r)
    PROVE  TokensKeepNames'
<1>1. TypeOK /\ UNCHANGED <<principal, key, deleted, renamed>>
  BY DEF Inv, Load
<1>2. PICK row \in RequestRow :
         /\ request' = [request EXCEPT ![r] = row]
         /\ row.step = "loaded"
            /\ row.input.op \notin {"create", "create_researcher"}
              => /\ row.keyRead.owner \in Principals
                 /\ row.principalRead = principal[row.keyRead.owner]
  <2>1. PICK input \in Inputs :
          request' = [request EXCEPT ![r] =
             IF ~Accepts(input) THEN Idle("answered")
             ELSE [step |-> "loaded", input |-> input, count |-> Len(key),
                   keyRead |-> IF input.k = 0 THEN Null ELSE key[input.k],
                   principalRead |-> IF input.k = 0 THEN Null
                                     ELSE principal[key[input.k].owner]]]
    BY DEF Load
  <2>2. CASE ~Accepts(input)
    BY <2>1, <2>2, IdleRow
  <2>3. CASE Accepts(input)
    <3> DEFINE row == [step |-> "loaded", input |-> input, count |-> Len(key),
                       keyRead |-> IF input.k = 0 THEN Null ELSE key[input.k],
                       principalRead |-> IF input.k = 0 THEN Null
                                         ELSE principal[key[input.k].owner]]
    <3>1. row \in RequestRow
      BY <1>1, <2>3, LoadedRowIsDecided
    <3>2. input.op \notin {"create", "create_researcher"} =>
             /\ input.k \in 1..Len(key)
             /\ key[input.k] \in KeyRow
      BY <1>1, InputFacts DEF TypeOK
    <3>3. input.op \notin {"create", "create_researcher"} =>
             /\ row.keyRead = key[input.k]
             /\ row.principalRead = principal[key[input.k].owner]
             /\ row.keyRead.owner \in Principals
      BY <3>2 DEF KeyRow
    <3>4. row.input = input /\ request' = [request EXCEPT ![r] = row]
      BY <2>1, <2>3
    <3> HIDE DEF row
    <3> QED
      BY <3>1, <3>3, <3>4
  <2> QED
    BY <2>2, <2>3
<1>3. /\ request'[r] = row
      /\ \A q \in Requests \ {r} : request'[q] = request[q]
  BY <1>1, <1>2, RequestStep
<1>4. ASSUME NEW s \in Requests, NEW q, Reads(s, q)'
      PROVE  \/ Reads(s, q) /\ request'[s] = request[s]
             \/ /\ request'[s].principalRead = principal[q]
                /\ q \in Principals
  BY <1>2, <1>3, <1>4 DEF Reads
<1>0. deleted' \subseteq Principals
  BY <1>1 DEF TokensKeepNames
<1> SUFFICES ASSUME NEW q \in Principals
             PROVE  /\ Unborn(q)'
                    /\ q \notin renamed' => (NamedOnce(q) /\ StaysGone(q))'
  BY <1>0 DEF TokensKeepNames
<1>5. Unborn(q)'
  BY <1>1 DEF TokensKeepNames, Unborn
<1>6. HeldNames(q)' \subseteq HeldNames(q)
  BY <1>1, <1>4 DEF HeldNames
<1>7. ASSUME q \notin renamed PROVE NamedOnce(q)' /\ StaysGone(q)'
  <2>1. NamedOnce(q) /\ StaysGone(q)
    BY <1>7 DEF TokensKeepNames
  <2>2. \A m, n \in HeldNames(q)' : m = n
    BY <1>6, <2>1 DEF NamedOnce
  <2>3. StaysGone(q)'
    BY <1>1, <1>4, <2>1 DEF StaysGone
  <2> QED
    BY <2>2, <2>3 DEF NamedOnce
<1> QED
  BY <1>1, <1>5, <1>7

LEMMA RollBackKeepsNames ==
    ASSUME Inv, TokensKeepNames, NEW r \in Requests, RollBack(r)
    PROVE  TokensKeepNames'
<1>1. TypeOK /\ UNCHANGED <<principal, key, deleted, renamed>>
  BY DEF Inv, RollBack
<1>2. ASSUME NEW s \in Requests, NEW q, Reads(s, q)'
      PROVE  Reads(s, q) /\ request'[s] = request[s]
  BY <1>1, <1>2, RequestsKeepReading, IdleRow DEF RollBack
<1>0. deleted' \subseteq Principals
  BY <1>1 DEF TokensKeepNames
<1> SUFFICES ASSUME NEW q \in Principals
             PROVE  /\ Unborn(q)'
                    /\ q \notin renamed' => (NamedOnce(q) /\ StaysGone(q))'
  BY <1>0 DEF TokensKeepNames
<1>3. Unborn(q)'
  BY <1>1 DEF TokensKeepNames, Unborn
<1>4. HeldNames(q)' \subseteq HeldNames(q)
  BY <1>1, <1>2 DEF HeldNames
<1>5. ASSUME q \notin renamed PROVE NamedOnce(q)' /\ StaysGone(q)'
  <2>1. NamedOnce(q) /\ StaysGone(q)
    BY <1>5 DEF TokensKeepNames
  <2>2. \A m, n \in HeldNames(q)' : m = n
    BY <1>4, <2>1 DEF NamedOnce
  <2>3. StaysGone(q)'
    BY <1>1, <1>2, <2>1 DEF StaysGone
  <2> QED
    BY <2>2, <2>3 DEF NamedOnce
<1> QED
  BY <1>1, <1>3, <1>5

LEMMA NamesInit == Init => TokensKeepNames
<1> SUFFICES ASSUME Init, NEW q \in Principals
             PROVE  Unborn(q) /\ NamedOnce(q) /\ StaysGone(q)
  BY DEF TokensKeepNames, Init
<1>1. PICK n \in Names :
         /\ principal = [p \in Principals |->
                           IF p = First THEN NewPrincipal(n) ELSE NoPrincipal]
         /\ key = <<NewKey(First, n)>>
         /\ request = [r \in Requests |-> Idle("new")]
         /\ deleted = {}
  BY DEF Init
<1>2. /\ NewKey(First, n).owner = First /\ NewKey(First, n).active = n
      /\ DOMAIN key = {1} /\ key[1] = NewKey(First, n)
  BY <1>1 DEF NewKey
<1>3. \A r \in Requests : ~Reads(r, q)
  BY <1>1 DEF Idle, Reads
<1>4. \/ /\ q = First /\ principal[q].status = "active"
         /\ principal[q].member /\ principal[q].name = n
      \/ /\ q # First /\ principal[q].status = "none"
         /\ ~principal[q].member /\ principal[q].name = Null
  BY <1>1 DEF NewPrincipal, NoPrincipal
<1>5. Unborn(q)
  BY <1>1, <1>2, <1>4 DEF Unborn
<1>6. NamedOnce(q)
  BY <1>2, <1>3, <1>4 DEF NamedOnce, HeldNames
<1>7. StaysGone(q)
  BY <1>1, <1>3, <1>4 DEF StaysGone
<1> QED
  BY <1>5, <1>6, <1>7

LEMMA NamesNext == Inv /\ TokensKeepNames /\ [Next]_vars => TokensKeepNames'
<1> SUFFICES ASSUME Inv, TokensKeepNames, [Next]_vars PROVE TokensKeepNames'
  OBVIOUS
<1>1. CASE UNCHANGED vars
  BY <1>1 DEF vars, TokensKeepNames, Unborn, NamedOnce, StaysGone, HeldNames, Reads
<1>2. ASSUME NEW r \in Requests, Load(r) \/ Commit(r) \/ RollBack(r)
      PROVE  TokensKeepNames'
  BY <1>2, LoadKeepsNames, CommitKeepsNames, RollBackKeepsNames
<1> QED
  BY <1>1, <1>2 DEF Next

LEMMA NamesAlways == Spec => []TokensKeepNames
  BY InvAlways, NamesInit, NamesNext, PTL DEF Spec

\* A Token that was not renamed has one live key of the facade at most: the
\* keys rotation issues hold the one name its researcher ever had, and the
\* unique constraint lets one key at a time hold a name.
THEOREM OneLiveKeyAlways == Spec => []OneLiveKey
<1>1. Inv /\ TokensKeepNames => OneLiveKey
  <2> SUFFICES ASSUME Inv, TokensKeepNames, NEW p \in Principals \ renamed,
                      NEW j \in LiveKeys(p), NEW k \in LiveKeys(p)
               PROVE  j = k
    BY DEF OneLiveKey
  <2>1. ASSUME NEW i \in LiveKeys(p)
        PROVE  /\ i \in DOMAIN key /\ key[i].active # Null
               /\ key[i].active \in HeldNames(p)
    <3>1. i \in DOMAIN key /\ key[i].owner = p
      BY DEF LiveKeys
    <3>2. key[i].active # Null
      BY DEF LiveKeys, Inv, LiveKeysHoldNames, FacadeKind
    <3>3. key[i] \in KeyRow
      BY <3>1 DEF Inv, TypeOK
    <3> QED
      BY <3>1, <3>2, <3>3 DEF HeldNames, KeyRow
  <2>2. key[j].active = key[k].active
    BY <2>1 DEF TokensKeepNames, NamedOnce
  <2> QED
    BY <2>1, <2>2 DEF Inv, NamesUnique
<1> QED
  BY <1>1, InvAlways, NamesAlways, PTL

\* The researcher of a deleted Token that was not renamed is not let in again:
\* the membership is gone, and no rotation that loaded the Token before brings
\* it back, for the flush leaves out what was loaded as it is assigned.
THEOREM DeletionHoldsAlways == Spec => []DeletionHolds
<1>1. TokensKeepNames => DeletionHolds
  BY DEF TokensKeepNames, StaysGone, DeletionHolds
<1> QED
  BY <1>1, NamesAlways, PTL

=============================================================================
