-------------------------- MODULE McpGatewayProofs --------------------------
(****************************************************************************)
(* The row of a session's affinity and its history agree as long as the row *)
(* is there: only an INSERT, which fails on a row that is there, says anew  *)
(* whose the session is.                                                    *)
(*                                                                          *)
(* The second part is about the circuit of a backend that a request enters  *)
(* before it is sent there (CircuitBreaker.tla).                            *)
(****************************************************************************)
EXTENDS McpGateway, CircuitBreaker, TLAPS

USE GatewayAssumption, NothingIsNoRow

SameHome(a, h) ==
    /\ h # Nothing
    /\ h.credential = a.credential
    /\ h.backend = a.backend
    /\ h.corpus = a.corpus
    /\ h.lapsed = FALSE

\* A stored session is where it was opened last.
AtHome == \A s \in Sessions : affinity[s] # Nothing => SameHome(affinity[s], home[s])

IInv == TypeOK /\ AtHome /\ RevokedSessionsAreLate

----------------------------------------------------------------------------
\* The records of requests.
LEMMA FreshIsRequest == Fresh \in Request
BY DEF Fresh, Request, Phases, Methods

\* The part of the type invariant that is about a request.
GoodRequest(r) ==
    /\ r \in Request
    /\ r.phase # "idle" => r.credential # Nothing
    /\ r.phase \in {"sent", "answered"} => r.selection # Nothing

LEMMA TypeOKIsGood ==
    TypeOK <=> /\ credential \in [Credentials -> {"live", "revoked", "disabled"}]
               /\ backend \in [Backends -> BackendRow]
               /\ route \in RouteRow
               /\ affinity \in [Sessions -> AffinityRow \cup {Nothing}]
               /\ request \in [Slots -> Request]
               /\ \A q \in Slots : GoodRequest(request[q])
               /\ changes \in 0 .. ChangeLimit
               /\ home \in [Sessions -> AffinityRow \cup {Nothing}]
               /\ late \subseteq Sessions
BY DEF TypeOK, GoodRequest

LEMMA BecomingKeepsType ==
    ASSUME TypeOK, NEW q \in Slots, NEW r, GoodRequest(r), Becomes(q, r),
           UNCHANGED <<credential, configuration, affinity, home, late>>
    PROVE  TypeOK'
<1>1. request' \in [Slots -> Request]
  BY DEF TypeOK, Becomes, GoodRequest
<1>2. ASSUME NEW p \in Slots
      PROVE  /\ request'[p].phase # "idle" => request'[p].credential # Nothing
             /\ request'[p].phase \in {"sent", "answered"} => request'[p].selection # Nothing
  BY DEF TypeOK, Becomes, GoodRequest
<1> QED  BY <1>1, <1>2 DEF TypeOK, configuration

LEMMA AuthenticateType ==
    ASSUME TypeOK, NEW q \in Slots, Authenticate(q)
    PROVE  TypeOK'
<1>1. PICK c \in Credentials, method \in Methods, s \in Sessions \cup {Nothing} :
         Becomes(q, [Fresh EXCEPT !.phase = "reading", !.method = method,
                                  !.credential = c, !.session = s])
  BY DEF Authenticate
<1>2. PICK r : r = [Fresh EXCEPT !.phase = "reading", !.method = method,
                                 !.credential = c, !.session = s]
  OBVIOUS
<1>3. r = [phase |-> "reading", method |-> method, credential |-> c, session |-> s,
           selection |-> Nothing, reply |-> Nothing, seen |-> Nothing]
  BY <1>2 DEF Fresh
<1>4. r \in Request /\ r.phase = "reading" /\ r.credential = c
  BY <1>3 DEF Request, Phases
<1>5. GoodRequest(r)
  BY <1>4 DEF GoodRequest
<1> QED  BY <1>1, <1>2, <1>5, BecomingKeepsType DEF Authenticate

LEMMA SentIsRequest ==
    ASSUME NEW r \in Request, NEW x \in Selection, r.credential # Nothing
    PROVE  GoodRequest([r EXCEPT !.phase = "sent", !.selection = x])
<1>1. PICK new : new = [r EXCEPT !.phase = "sent", !.selection = x]
  OBVIOUS
<1>2. new = [phase |-> "sent", method |-> r.method, credential |-> r.credential,
             session |-> r.session, selection |-> x, reply |-> r.reply, seen |-> r.seen]
  BY <1>1 DEF Request
<1>3. new \in Request
  BY <1>2 DEF Request, Phases
<1>4. new.credential # Nothing /\ new.selection # Nothing
  BY <1>2
<1> QED  BY <1>1, <1>3, <1>4 DEF GoodRequest

LEMMA AnsweredIsRequest ==
    ASSUME NEW r \in Request, NEW reply \in Sessions \cup {Nothing},
           NEW seen \in AffinityRow \cup {Nothing},
           r.credential # Nothing, r.selection # Nothing
    PROVE  GoodRequest([r EXCEPT !.phase = "answered", !.reply = reply, !.seen = seen])
<1>1. PICK new : new = [r EXCEPT !.phase = "answered", !.reply = reply, !.seen = seen]
  OBVIOUS
<1>2. new = [phase |-> "answered", method |-> r.method, credential |-> r.credential,
             session |-> r.session, selection |-> r.selection, reply |-> reply, seen |-> seen]
  BY <1>1 DEF Request
<1>3. new \in Request
  BY <1>2 DEF Request, Phases
<1>4. new.credential # Nothing /\ new.selection # Nothing
  BY <1>2
<1> QED  BY <1>1, <1>3, <1>4 DEF GoodRequest

LEMMA SendType ==
    ASSUME TypeOK, NEW q \in Slots, Send(q)
    PROVE  TypeOK'
<1>1. PICK x \in Selection : Becomes(q, [request[q] EXCEPT !.phase = "sent", !.selection = x])
  BY DEF Send, Pinned, Routed, Selection, TypeOK, RouteRow
<1>2. request[q] \in Request /\ request[q].credential # Nothing
  BY DEF Send, TypeOK
<1>3. PICK r : r = [request[q] EXCEPT !.phase = "sent", !.selection = x]
  OBVIOUS
<1> QED  BY <1>1, <1>2, <1>3, SentIsRequest, BecomingKeepsType DEF Send

LEMMA RespondType ==
    ASSUME TypeOK, NEW q \in Slots, Respond(q)
    PROVE  TypeOK'
<1>1. PICK reply \in Sessions \cup {Nothing}, seen \in AffinityRow \cup {Nothing} :
         Becomes(q, [request[q] EXCEPT !.phase = "answered", !.reply = reply, !.seen = seen])
  <2>1. PICK reply \in Sessions \cup {Nothing} :
           LET r == request[q]
               key == IF r.method = "DELETE" THEN r.session ELSE reply IN
           Becomes(q, [r EXCEPT !.phase = "answered", !.reply = reply,
                          !.seen = IF key = Nothing THEN Nothing ELSE affinity[key]])
    BY DEF Respond
  <2>2. PICK key : key = IF request[q].method = "DELETE" THEN request[q].session ELSE reply
    OBVIOUS
  <2>3. key \in Sessions \cup {Nothing}
    BY <2>2 DEF TypeOK, Request
  <2>4. (IF key = Nothing THEN Nothing ELSE affinity[key]) \in AffinityRow \cup {Nothing}
    BY <2>3 DEF TypeOK
  <2> QED  BY <2>1, <2>2, <2>4
<1>2. /\ request[q] \in Request
      /\ request[q].credential # Nothing
      /\ request[q].selection # Nothing
  BY DEF Respond, TypeOK
<1>3. PICK r : r = [request[q] EXCEPT !.phase = "answered", !.reply = reply, !.seen = seen]
  OBVIOUS
<1> QED  BY <1>1, <1>2, <1>3, AnsweredIsRequest, BecomingKeepsType DEF Respond

\* Steps that only end a request.
LEMMA EndingType ==
    ASSUME TypeOK, NEW q \in Slots,
           Deny(q) \/ Fail(q) \/ RefuseCollision(q) \/ Break(q) \/ Die(q)
    PROVE  /\ TypeOK'
           /\ UNCHANGED <<credential, configuration, affinity, home, late>>
<1>1. GoodRequest(Fresh)
  <2>1. Fresh.phase = "idle"
    BY DEF Fresh
  <2> QED  BY <2>1, FreshIsRequest DEF GoodRequest
<1>2. UNCHANGED <<credential, configuration, affinity, home, late>> /\ Becomes(q, Fresh)
  BY DEF Deny, Fail, RefuseCollision, Break, Die, Over
<1> QED  BY <1>1, <1>2, BecomingKeepsType

----------------------------------------------------------------------------
\* What a request that is being answered stores.
LEMMA PinIsRow ==
    ASSUME TypeOK, NEW q \in Slots, request[q].phase \in {"sent", "answered"}
    PROVE  /\ Pin(request[q]) \in AffinityRow
           /\ Pin(request[q]).credential = request[q].credential
           /\ Pin(request[q]).backend = request[q].selection.backend
           /\ Pin(request[q]).corpus = request[q].selection.corpus
           /\ Pin(request[q]).lapsed = FALSE
<1>1. request[q].credential \in Credentials /\ request[q].selection \in Selection
  BY DEF TypeOK, Request
<1> QED  BY <1>1 DEF Pin, AffinityRow, Selection

LEMMA StoringKeepsIInv ==
    ASSUME IInv, NEW q \in Slots, Keep(q) \/ End(q)
    PROVE  IInv'
<1>1. TypeOK /\ AtHome /\ RevokedSessionsAreLate
  BY DEF IInv
<1>2. PICK r \in Request : r = request[q]
  BY <1>1 DEF TypeOK
<1>3. /\ UNCHANGED <<credential, configuration>>
      /\ Becomes(q, Fresh)
      /\ r.phase = "answered"
  BY <1>2 DEF Keep, End, Over
<1>4. /\ request' \in [Slots -> Request]
      /\ \A p \in Slots : request'[p] = request[p] \/ request'[p] = Fresh
  BY <1>1, <1>3, FreshIsRequest DEF Becomes, TypeOK
<1>5. \A p \in Slots : GoodRequest(request'[p])
  <2>1. Fresh.phase = "idle"
    BY DEF Fresh
  <2>2. GoodRequest(Fresh) /\ \A p \in Slots : GoodRequest(request[p])
    BY <1>1, <2>1, FreshIsRequest DEF GoodRequest, TypeOK
  <2> QED  BY <1>4, <2>2
<1>6. ASSUME affinity' \in [Sessions -> AffinityRow \cup {Nothing}],
             home' \in [Sessions -> AffinityRow \cup {Nothing}], late' \subseteq Sessions
      PROVE  TypeOK'
  BY <1>1, <1>3, <1>4, <1>5, <1>6 DEF TypeOK, configuration, GoodRequest
<1>7. CASE UNCHANGED <<affinity, home, late>>
  BY <1>1, <1>3, <1>6, <1>7 DEF IInv, AtHome, RevokedSessionsAreLate, TypeOK
<1>8. CASE /\ UNCHANGED <<home, late>>
           /\ r.session \in Sessions
           /\ affinity' = [affinity EXCEPT ![r.session] = Nothing]
  BY <1>1, <1>3, <1>6, <1>8 DEF IInv, AtHome, RevokedSessionsAreLate, TypeOK
<1>9. CASE /\ UNCHANGED <<home, late>>
           /\ r.reply \in Sessions
           /\ affinity[r.reply] # Nothing
           /\ affinity' = [affinity EXCEPT ![r.reply].lapsed = FALSE]
  <2>1. PICK old \in AffinityRow : old = affinity[r.reply]
    BY <1>1, <1>9 DEF TypeOK
  <2>2. PICK new : new = [old EXCEPT !.lapsed = FALSE]
    OBVIOUS
  <2>3. /\ new \in AffinityRow /\ new.credential = old.credential
        /\ new.backend = old.backend /\ new.corpus = old.corpus
    BY <2>2 DEF AffinityRow
  <2>4. affinity' = [affinity EXCEPT ![r.reply] = new]
    BY <1>9, <2>1, <2>2
  <2>5. TypeOK'
    BY <1>1, <1>6, <1>9, <2>3, <2>4 DEF TypeOK
  <2>6. AtHome'
    BY <1>1, <1>9, <2>1, <2>3, <2>4 DEF AtHome, SameHome, TypeOK
  <2>7. RevokedSessionsAreLate'
    BY <1>1, <1>3, <1>9, <2>1, <2>3, <2>4 DEF RevokedSessionsAreLate, TypeOK
  <2> QED  BY <2>5, <2>6, <2>7 DEF IInv
<1>10. CASE /\ r.reply \in Sessions
            /\ affinity' = [affinity EXCEPT ![r.reply] = Pin(r)]
            /\ home' = [home EXCEPT ![r.reply] = Pin(r)]
            /\ late' = IF credential[r.credential] = "revoked" THEN late \cup {r.reply}
                       ELSE late \ {r.reply}
  <2>1. PICK new \in AffinityRow : new = Pin(r)
    BY <1>1, <1>2, <1>3, PinIsRow
  <2>2. new.credential = r.credential /\ new.lapsed = FALSE
    BY <1>1, <1>2, <1>3, <2>1, PinIsRow
  <2>3. TypeOK'
    BY <1>1, <1>6, <1>10, <2>1 DEF TypeOK
  <2>4. SameHome(new, new)
    BY <2>2 DEF SameHome
  <2>5. AtHome'
    BY <1>1, <1>10, <2>1, <2>4 DEF AtHome, TypeOK
  <2>6. RevokedSessionsAreLate'
    BY <1>1, <1>3, <1>10, <2>1, <2>2 DEF RevokedSessionsAreLate, TypeOK
  <2> QED  BY <2>3, <2>5, <2>6 DEF IInv
<1>11. CASE Keep(q)
  BY <1>2, <1>7, <1>9, <1>10, <1>11 DEF Keep, Conflicts, Request
<1>12. CASE End(q)
  <2>1. CASE r.seen = Nothing
    BY <1>2, <1>7, <1>12, <2>1 DEF End
  <2>2. CASE r.seen # Nothing /\ r.session \in Sessions
    BY <1>2, <1>8, <1>12, <2>2 DEF End
  <2>3. CASE r.seen # Nothing /\ r.session \notin Sessions
    <3>1. affinity' = [affinity EXCEPT ![r.session] = Nothing]
      BY <1>2, <1>12, <2>3 DEF End
    <3>2. affinity' = affinity
      BY <1>1, <2>3, <3>1 DEF TypeOK
    <3> QED  BY <1>2, <1>7, <1>12, <3>2 DEF End
  <2> QED  BY <2>1, <2>2, <2>3
<1> QED  BY <1>11, <1>12

----------------------------------------------------------------------------
\* What happens around the requests.
LEMMA ConfigureKeepsIInv ==
    ASSUME IInv, Configure
    PROVE  IInv'
<1>1. TypeOK /\ AtHome /\ RevokedSessionsAreLate
  BY DEF IInv
<1>2. UNCHANGED <<credential, affinity, request, home, late>>
  BY DEF Configure
<1>3. backend' \in [Backends -> BackendRow] /\ route' \in RouteRow
  BY <1>1 DEF Configure, TypeOK
<1>4. changes' \in 0 .. ChangeLimit
  BY <1>1 DEF Configure, TypeOK
<1>5. TypeOK'
  BY <1>1, <1>2, <1>3, <1>4 DEF TypeOK
<1> QED  BY <1>1, <1>2, <1>5 DEF IInv, AtHome, RevokedSessionsAreLate

LEMMA RevokeKeepsIInv ==
    ASSUME IInv, NEW c \in Credentials, RevokeCapability(c)
    PROVE  IInv'
<1>1. TypeOK /\ AtHome /\ RevokedSessionsAreLate
  BY DEF IInv
<1>2. /\ UNCHANGED <<configuration, request, home, late>>
      /\ credential' = [credential EXCEPT ![c] = "revoked"]
      /\ affinity' = Forgotten(c)
  BY DEF RevokeCapability
<1>3. affinity' \in [Sessions -> AffinityRow \cup {Nothing}]
  BY <1>1, <1>2 DEF TypeOK, Forgotten
<1>4. credential' \in [Credentials -> {"live", "revoked", "disabled"}]
  BY <1>1, <1>2 DEF TypeOK
<1>5. TypeOK'
  BY <1>1, <1>2, <1>3, <1>4 DEF TypeOK, configuration
<1>6. ASSUME NEW s \in Sessions, affinity'[s] # Nothing
      PROVE  affinity'[s] = affinity[s] /\ affinity[s].credential # c
  BY <1>2, <1>6 DEF Forgotten
<1>7. AtHome'
  BY <1>1, <1>2, <1>6 DEF AtHome
<1>8. RevokedSessionsAreLate'
  <2>1. ASSUME NEW s \in Sessions, affinity'[s] # Nothing,
               credential'[affinity'[s].credential] = "revoked"
        PROVE  s \in late
    <3>1. affinity[s] \in AffinityRow
      BY <1>1, <1>6, <2>1 DEF TypeOK
    <3>2. affinity[s].credential \in Credentials \ {c}
      BY <1>6, <2>1, <3>1 DEF AffinityRow
    <3>3. credential[affinity[s].credential] = "revoked"
      BY <1>1, <1>2, <1>6, <2>1, <3>2 DEF TypeOK
    <3> QED  BY <1>1, <1>6, <2>1, <3>3 DEF RevokedSessionsAreLate
  <2> QED  BY <1>2, <2>1 DEF RevokedSessionsAreLate
<1> QED  BY <1>5, <1>7, <1>8 DEF IInv

LEMMA DisableOrRestoreKeepsIInv ==
    ASSUME IInv, NEW c \in Credentials, Disable(c) \/ Restore(c)
    PROVE  IInv'
<1>1. TypeOK /\ AtHome /\ RevokedSessionsAreLate
  BY DEF IInv
<1>2. UNCHANGED <<configuration, affinity, request, home, late>>
  BY DEF Disable, Restore
<1>3. credential' \in [Credentials -> {"live", "revoked", "disabled"}]
  BY <1>1 DEF Disable, Restore, TypeOK
<1>4. \A d \in Credentials : credential'[d] = "revoked" => credential[d] = "revoked"
  BY <1>1 DEF Disable, Restore, TypeOK
<1>5. TypeOK'
  BY <1>1, <1>2, <1>3 DEF TypeOK, configuration
<1>6. \A s \in Sessions : affinity[s] # Nothing => affinity[s].credential \in Credentials
  BY <1>1 DEF TypeOK, AffinityRow
<1> QED  BY <1>1, <1>2, <1>4, <1>5, <1>6 DEF IInv, AtHome, RevokedSessionsAreLate

LEMMA LapseKeepsIInv ==
    ASSUME IInv, NEW s \in Sessions, Lapse(s)
    PROVE  IInv'
<1>1. TypeOK /\ AtHome /\ RevokedSessionsAreLate
  BY DEF IInv
<1>2. UNCHANGED <<credential, configuration, request, home, late>>
  BY DEF Lapse
<1>3. PICK old \in AffinityRow : old = affinity[s]
  BY <1>1 DEF Lapse, TypeOK
<1>4. PICK new : new = [old EXCEPT !.lapsed = TRUE]
  OBVIOUS
<1>5. /\ new \in AffinityRow /\ new.credential = old.credential
      /\ new.backend = old.backend /\ new.corpus = old.corpus
  BY <1>4 DEF AffinityRow
<1>6. affinity' = [affinity EXCEPT ![s] = new] /\ affinity[s] # Nothing
  BY <1>3, <1>4 DEF Lapse
<1>7. affinity' \in [Sessions -> AffinityRow \cup {Nothing}]
  BY <1>1, <1>5, <1>6 DEF TypeOK
<1>8. TypeOK'
  BY <1>1, <1>2, <1>7 DEF TypeOK, configuration
<1>9. AtHome'
  BY <1>1, <1>2, <1>3, <1>5, <1>6 DEF AtHome, SameHome, TypeOK
<1>10. RevokedSessionsAreLate'
  BY <1>1, <1>2, <1>3, <1>5, <1>6 DEF RevokedSessionsAreLate, TypeOK
<1> QED  BY <1>8, <1>9, <1>10 DEF IInv

----------------------------------------------------------------------------
LEMMA InitIInv == Init => IInv
<1> SUFFICES ASSUME Init PROVE IInv
  OBVIOUS
<1>1. \A q \in Slots : request[q] = Fresh /\ Fresh.phase = "idle"
  BY DEF Init, Fresh
<1>2. changes \in 0 .. ChangeLimit
  BY DEF Init
<1>3. request \in [Slots -> Request]
  BY FreshIsRequest DEF Init
<1>4. TypeOK
  BY <1>1, <1>2, <1>3 DEF Init, TypeOK
<1> QED  BY <1>4 DEF Init, IInv, AtHome, RevokedSessionsAreLate

LEMMA StepKeepsIInv ==
    ASSUME IInv, NEW q \in Slots, Step(q)
    PROVE  IInv'
<1>1. TypeOK
  BY DEF IInv
<1>2. CASE Keep(q) \/ End(q)
  BY <1>2, StoringKeepsIInv
<1>3. CASE ~(Keep(q) \/ End(q))
  <2>1. TypeOK' /\ UNCHANGED <<credential, configuration, affinity, home, late>>
    <3>1. CASE Authenticate(q)
      BY <1>1, <3>1, AuthenticateType DEF Authenticate
    <3>2. CASE Send(q)
      BY <1>1, <3>2, SendType DEF Send
    <3>3. CASE Respond(q)
      BY <1>1, <3>3, RespondType DEF Respond
    <3> QED  BY <1>1, <1>3, <3>1, <3>2, <3>3, EndingType DEF Step, Proceed
  <2> QED  BY <2>1 DEF IInv, AtHome, RevokedSessionsAreLate
<1> QED  BY <1>2, <1>3

LEMMA NextKeepsIInv == IInv /\ [Next]_vars => IInv'
<1> SUFFICES ASSUME IInv, [Next]_vars PROVE IInv'
  OBVIOUS
<1>1. CASE Configure
  BY <1>1, ConfigureKeepsIInv
<1>2. CASE \E c \in Credentials : RevokeCapability(c) \/ Disable(c) \/ Restore(c)
  BY <1>2, RevokeKeepsIInv, DisableOrRestoreKeepsIInv
<1>3. CASE \E s \in Sessions : Lapse(s)
  BY <1>3, LapseKeepsIInv
<1>4. CASE \E q \in Slots : Step(q)
  BY <1>4, StepKeepsIInv
<1>5. CASE UNCHANGED vars
  BY <1>5 DEF vars, IInv, TypeOK, AtHome, RevokedSessionsAreLate
<1> QED  BY <1>1, <1>2, <1>3, <1>4, <1>5 DEF Next

\* The rows of the gateway and what its requests have read of them agree in every state.
THEOREM Invariance == Spec => []IInv
BY InitIInv, NextKeepsIInv, PTL DEF Spec

\* Every row and request keeps its type.
THEOREM TypeCorrect == Spec => []TypeOK
<1>1. IInv => TypeOK
  BY DEF IInv
<1> QED  BY <1>1, Invariance, PTL

\* The sessions of a revoked capability that are still stored were opened by requests that
\* outlived the revocation, for any number of credentials and requests.
THEOREM RevokedSessionsAreLateAlways == Spec => []RevokedSessionsAreLate
<1>1. IInv => RevokedSessionsAreLate
  BY DEF IInv
<1> QED  BY <1>1, Invariance, PTL

\* A request that is sent for its session goes where the session's row points, which is
\* where it was opened.
LEMMA SentHome ==
    ASSUME IInv, NEW p \in Slots, Send(p), request[p].session # Nothing
    PROVE  home[request[p].session] = Pin(request'[p])
<1>1. TypeOK /\ AtHome
  BY DEF IInv
<1>2. PICK r \in Request : r = request[p]
  BY <1>1 DEF TypeOK
<1>3. PICK x \in Pinned(r.credential, r.session) :
         Becomes(p, [r EXCEPT !.phase = "sent", !.selection = x])
  BY <1>2 DEF Send
<1>4. PICK s \in Sessions : s = r.session
  BY <1>2 DEF Request
<1>5. PICK a \in AffinityRow : a = affinity[s] /\ affinity[s] # Nothing
  BY <1>1, <1>3, <1>4 DEF Pinned, TypeOK
<1>6. a.credential = r.credential /\ x.backend = a.backend /\ x.corpus = a.corpus
  BY <1>3, <1>4, <1>5 DEF Pinned
<1>7. PICK h \in AffinityRow : h = home[s] /\ SameHome(a, h)
  BY <1>1, <1>4, <1>5 DEF AtHome, TypeOK, SameHome
<1>8. h = [credential |-> r.credential, backend |-> x.backend, corpus |-> x.corpus,
           lapsed |-> FALSE]
  BY <1>6, <1>7 DEF SameHome, AffinityRow
<1>9. request'[p] = [r EXCEPT !.phase = "sent", !.selection = x]
  BY <1>1, <1>3 DEF TypeOK, Becomes
<1>10. request'[p].credential = r.credential /\ request'[p].selection = x
  BY <1>9 DEF Request
<1> QED  BY <1>2, <1>4, <1>7, <1>8, <1>10 DEF Pin

\* Only Send lets a request that was being read go out.
LEMMA OnlySendSends ==
    ASSUME IInv, Next, NEW q \in Slots,
           request[q].phase = "reading", request'[q].phase = "sent"
    PROVE  Send(q)
<1>1. TypeOK
  BY DEF IInv
<1>2. request' # request
  BY DEF Phases
<1>3. PICK p \in Slots : Step(p)
  BY <1>2 DEF Next, Configure, RevokeCapability, Disable, Restore, Lapse
<1>4. ASSUME NEW r, Becomes(p, r)
      PROVE  request'[q] = IF p = q THEN r ELSE request[q]
  BY <1>1, <1>4 DEF TypeOK, Becomes
<1>5. Fresh.phase = "idle"
  BY DEF Fresh
<1>6. CASE Authenticate(p)
  <2>1. PICK c \in Credentials, method \in Methods, s \in Sessions \cup {Nothing} :
           Becomes(p, [Fresh EXCEPT !.phase = "reading", !.method = method,
                                    !.credential = c, !.session = s])
    BY <1>6 DEF Authenticate
  <2>2. PICK r : r = [Fresh EXCEPT !.phase = "reading", !.method = method,
                                   !.credential = c, !.session = s]
    OBVIOUS
  <2>3. r.phase = "reading"
    BY <2>2 DEF Fresh
  <2> QED  BY <1>4, <2>1, <2>2, <2>3
<1>7. CASE Respond(p)
  <2>1. request[p].phase = "sent"
    BY <1>7 DEF Respond
  <2>2. p # q
    BY <2>1
  <2>3. PICK r : Becomes(p, r)
    BY <1>7 DEF Respond
  <2> QED  BY <1>4, <2>2, <2>3
<1>8. CASE Deny(p) \/ Fail(p) \/ RefuseCollision(p) \/ Break(p) \/ Keep(p) \/ End(p)
            \/ Die(p)
  <2>1. Becomes(p, Fresh)
    BY <1>8 DEF Deny, Fail, RefuseCollision, Break, Keep, End, Die, Over
  <2> QED  BY <1>4, <1>5, <2>1
<1>9. CASE Send(p)
  <2>1. PICK r : Becomes(p, r)
    BY <1>9 DEF Send
  <2> QED  BY <1>4, <1>9, <2>1
<1> QED  BY <1>3, <1>6, <1>7, <1>8, <1>9 DEF Step, Proceed

\* No request that names a session is sent for another caller, to another backend or with
\* another corpus than the session was opened for, whatever changes meanwhile.
THEOREM SessionsStayPutAlways == Spec => SessionsStayPut
<1> DEFINE StaysPut(q) ==
      request[q].phase = "reading" /\ request'[q].phase = "sent" =>
          LET r == request'[q] IN r.session # Nothing => home[r.session] = Pin(r)
<1>1. ASSUME IInv, Next, NEW q \in Slots
      PROVE  StaysPut(q)
  <2> SUFFICES ASSUME request[q].phase = "reading", request'[q].phase = "sent",
                      request'[q].session # Nothing
               PROVE  home[request'[q].session] = Pin(request'[q])
    OBVIOUS
  <2>1. Send(q)
    BY <1>1, OnlySendSends
  <2>2. TypeOK
    BY <1>1 DEF IInv
  <2>3. request'[q].session = request[q].session
    <3>1. PICK r \in Request : r = request[q]
      BY <2>2 DEF TypeOK
    <3>2. PICK x : Becomes(q, [r EXCEPT !.phase = "sent", !.selection = x])
      BY <2>1, <3>1 DEF Send
    <3>3. PICK new : new = [r EXCEPT !.phase = "sent", !.selection = x]
      OBVIOUS
    <3>4. new.session = r.session
      BY <3>3 DEF Request
    <3> QED  BY <2>2, <3>1, <3>2, <3>3, <3>4 DEF TypeOK, Becomes
  <2> QED  BY <1>1, <2>1, <2>3, SentHome
<1>2. IInv /\ [Next]_vars => [\A q \in Slots : StaysPut(q)]_vars
  BY <1>1
<1> QED  BY <1>2, Invariance, PTL DEF Spec, SessionsStayPut

----------------------------------------------------------------------------
\* The circuit of a backend, which the requests enter that the gateway sends:
\* for any number of overlapping calls, any threshold, recovery time and
\* number of retries.

\* Saturating keeps a counter between zero and its bound.
LEMMA SaturateType ==
    ASSUME NEW n \in Nat, NEW bound \in Nat
    PROVE  /\ Saturate(n, bound) \in 0..bound
           /\ n >= bound => Saturate(n, bound) = bound
           /\ n < bound => Saturate(n, bound) = n
  BY DEF Saturate

\* Every reachable state is well typed (circuit.py and send_upstream).
THEOREM CircuitTypeCorrect == CircuitSpec => []CircuitTypeOK
<1> USE CircuitAssumption DEF CircuitAssumption
<1>1. CircuitInit => CircuitTypeOK
  <2> SUFFICES ASSUME CircuitInit PROVE CircuitTypeOK
    OBVIOUS
  <2>1. ClosedCircuit \in [failure_count : 0..Threshold, open : BOOLEAN,
                           cooldown : 0..Recovery,
                           recovery_probe_in_flight : BOOLEAN]
    BY DEF ClosedCircuit
  <2>2. Idle \in [busy : BOOLEAN, retries : 0..SafeRetries, probe : BOOLEAN]
    BY DEF Idle
  <2>3. call \in [Calls -> [busy : BOOLEAN, retries : 0..SafeRetries,
                           probe : BOOLEAN]]
    BY <2>2 DEF CircuitInit
  <2>4. /\ streak \in 0..Threshold
        /\ sinceFailure \in 0..Recovery
        /\ sinceProbe \in 0..Recovery
    BY DEF CircuitInit
  <2>5. escaped \in BOOLEAN
    BY DEF CircuitInit
  <2> QED
    BY <2>1, <2>3, <2>4, <2>5 DEF CircuitInit, CircuitTypeOK
<1>2. CircuitTypeOK /\ [CircuitNext]_circuitVars => CircuitTypeOK'
  <2> SUFFICES ASSUME CircuitTypeOK, [CircuitNext]_circuitVars PROVE CircuitTypeOK'
    OBVIOUS
  <2>1. ASSUME NEW c \in Calls, NEW method \in HttpMethods, Enter(c, method)
        PROVE  CircuitTypeOK'
    BY <2>1 DEF CircuitTypeOK, Enter, Admitted
  <2>2. ASSUME NEW c \in Calls, Retry(c) PROVE CircuitTypeOK'
    BY <2>2 DEF CircuitTypeOK, Retry, history
  <2>3. ASSUME NEW c \in Calls, RecordFailure(c) PROVE CircuitTypeOK'
    BY <2>3, SaturateType DEF CircuitTypeOK, RecordFailure, AfterFailure, Idle
  <2>4. ASSUME NEW c \in Calls, RecordSuccess(c) PROVE CircuitTypeOK'
    BY <2>4 DEF CircuitTypeOK, RecordSuccess, ClosedCircuit, Idle
  <2>5. ASSUME NEW c \in Calls, Escape(c) PROVE CircuitTypeOK'
    BY <2>5 DEF CircuitTypeOK, Escape, Idle
  <2>6. CASE Tick
    <3>1. circuit.cooldown \in 0..Recovery
      BY DEF CircuitTypeOK
    <3>2. (IF circuit.cooldown = 0 THEN 0 ELSE circuit.cooldown - 1)
             \in 0..Recovery
      BY <3>1
    <3> QED
      BY <2>6, <3>2 DEF CircuitTypeOK, Tick, Saturate
  <2>7. CASE UNCHANGED circuitVars
    BY <2>7 DEF CircuitTypeOK, circuitVars
  <2> QED
    BY <2>1, <2>2, <2>3, <2>4, <2>5, <2>6, <2>7 DEF CircuitNext
<1> QED
  BY <1>1, <1>2, PTL DEF CircuitSpec

\* The strengthening: the failure count is the history's streak, the recovery
\* time still to run and the time since the last failure add up, and so do the
\* recovery time and the time since the last probe while none is marked.
CircuitInv ==
    /\ circuit.failure_count = streak
    /\ circuit.open <=> streak = Threshold
    /\ circuit.open => circuit.cooldown + sinceFailure = Recovery
    /\ circuit.recovery_probe_in_flight => circuit.open /\ circuit.cooldown = 0
    /\ circuit.open /\ ~circuit.recovery_probe_in_flight
          => circuit.cooldown + sinceProbe >= Recovery
    /\ circuit.recovery_probe_in_flight
          => escaped \/ \E c \in Calls : call[c].busy /\ call[c].probe

LEMMA CircuitInvInit == CircuitInit => CircuitInv
  BY CircuitAssumption DEF CircuitAssumption, CircuitInit, CircuitInv, ClosedCircuit

LEMMA CircuitInvNext ==
    CircuitTypeOK /\ CircuitInv /\ [CircuitNext]_circuitVars => CircuitInv'
<1> USE CircuitAssumption DEF CircuitAssumption
<1> SUFFICES ASSUME CircuitTypeOK, CircuitInv, [CircuitNext]_circuitVars PROVE CircuitInv'
  OBVIOUS
<1>1. ASSUME NEW c \in Calls, NEW method \in HttpMethods, Enter(c, method)
      PROVE  CircuitInv'
  BY <1>1 DEF CircuitTypeOK, CircuitInv, Enter, Admitted, Admits
<1>2. ASSUME NEW c \in Calls, Retry(c) PROVE CircuitInv'
  BY <1>2 DEF CircuitTypeOK, CircuitInv, Retry, history
<1>3. ASSUME NEW c \in Calls, RecordFailure(c) PROVE CircuitInv'
  BY <1>3 DEF CircuitTypeOK, CircuitInv, RecordFailure, AfterFailure, Saturate
<1>4. ASSUME NEW c \in Calls, RecordSuccess(c) PROVE CircuitInv'
  BY <1>4 DEF CircuitTypeOK, CircuitInv, RecordSuccess, ClosedCircuit
<1>5. ASSUME NEW c \in Calls, Escape(c) PROVE CircuitInv'
  BY <1>5 DEF CircuitTypeOK, CircuitInv, Escape
<1>6. CASE Tick
  BY <1>6 DEF CircuitTypeOK, CircuitInv, Tick, Saturate
<1>7. CASE UNCHANGED circuitVars
  BY <1>7 DEF CircuitInv, circuitVars
<1> QED
  BY <1>1, <1>2, <1>3, <1>4, <1>5, <1>6, <1>7 DEF CircuitNext

LEMMA CircuitInvariant == CircuitSpec => []CircuitInv
  BY CircuitTypeCorrect, CircuitInvInit, CircuitInvNext, PTL DEF CircuitSpec

\* The circuit is open exactly when the unbroken failures have reached the
\* threshold, for any interleaving of the calls that report them.
THEOREM OpensAtThresholdAlways == CircuitSpec => []OpensAtThreshold
<1>1. CircuitInv => OpensAtThreshold
  BY DEF CircuitInv, OpensAtThreshold
<1> QED
  BY <1>1, CircuitInvariant, PTL

\* After the failure that opens it or prolongs it, the circuit refuses every
\* call for the whole recovery time.
THEOREM OpenForRecoveryAlways == CircuitSpec => []OpenForRecovery
<1>1. CircuitTypeOK /\ CircuitInv => OpenForRecovery
  BY CircuitAssumption DEF CircuitAssumption, CircuitTypeOK, CircuitInv, OpenForRecovery, Admits
<1> QED
  BY <1>1, CircuitTypeCorrect, CircuitInvariant, PTL

\* A circuit that waits for a probe has one in flight, unless a call left
\* without recording its outcome.
THEOREM MarkedProbeIsRunningAlways == CircuitSpec => []MarkedProbeIsRunning
<1>1. CircuitInv => MarkedProbeIsRunning
  BY DEF CircuitInv, MarkedProbeIsRunning, Probing
<1> QED
  BY <1>1, CircuitInvariant, PTL

\* Two recovery probes with no success between them enter at least the
\* recovery time apart.
THEOREM ProbesAreSpacedAlways == CircuitSpec => ProbesAreSpaced
<1> DEFINE Spaced == \A c \in Calls : call'[c].probe /\ ~call[c].probe
                        => sinceProbe = Recovery
<1>1. CircuitTypeOK /\ CircuitInv /\ [CircuitNext]_circuitVars => [Spaced]_circuitVars
  <2> USE CircuitAssumption DEF CircuitAssumption
  <2> SUFFICES ASSUME CircuitTypeOK, CircuitInv, CircuitNext PROVE Spaced
    OBVIOUS
  <2>1. ASSUME NEW c \in Calls, NEW method \in HttpMethods, Enter(c, method)
        PROVE  Spaced
    BY <2>1 DEF CircuitTypeOK, CircuitInv, Enter, Admits
  <2>2. ASSUME NEW c \in Calls, Retry(c) PROVE Spaced
    BY <2>2 DEF CircuitTypeOK, Retry
  <2>3. ASSUME NEW c \in Calls,
               RecordFailure(c) \/ RecordSuccess(c) \/ Escape(c)
        PROVE  Spaced
    BY <2>3 DEF CircuitTypeOK, RecordFailure, RecordSuccess, Escape, Idle
  <2>4. CASE Tick
    BY <2>4 DEF Tick
  <2> QED
    BY <2>1, <2>2, <2>3, <2>4 DEF CircuitNext
<1> QED
  BY <1>1, CircuitTypeCorrect, CircuitInvariant, PTL DEF CircuitSpec, ProbesAreSpaced

=============================================================================
