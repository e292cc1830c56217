---------------------------- MODULE QuotaLedger ----------------------------
(***************************************************************************)
(* The request quota of one tenant and of the Access Keys its requests     *)
(* use: proxy_hub/quota.py, proxy_hub/mcp_quota.py and the calls           *)
(* proxy_hub/mcp_gateway.py makes to them.                                 *)
(*                                                                         *)
(* One action is one database transaction.  The statements of a            *)
(* transaction are conditional UPDATEs that hold the rows they touch until *)
(* the commit, and all of them take reservation rows before the window     *)
(* row, so transactions take effect one after the other.  Requests,        *)
(* workers and crashes interleave freely between transactions; a request   *)
(* reads its timestamp (`now') before the transaction that uses it.        *)
(***************************************************************************)
EXTENDS Naturals, FiniteSets

CONSTANTS
    Requests,    \* gateway requests of the tenant
    AccessKeys,  \* Access Keys with an allowance of their own
    NoKey,       \* the credential of a request that has no such key
    KeyOf,       \* the credential each request presents
    KeyLimit,    \* request_limit of an Access Key
    KeyPeriod,   \* period_seconds of an Access Key
    Policies,    \* quota policies an administrator may put in force
    TTL,         \* quota_reservation_ttl_seconds
    Horizon      \* bound: the last tick of the model's clock

QuotaPolicy ==
    [request_limit : Nat \ {0}, period : Nat \ {0},
     concurrency_limit : Nat \ {0}, enforced : BOOLEAN]

ASSUME QuotaAssumption ==
    /\ IsFiniteSet(Requests)
    /\ NoKey \notin AccessKeys
    /\ KeyOf \in [Requests -> AccessKeys \cup {NoKey}]
    /\ KeyLimit \in Nat \ {0}
    /\ KeyPeriod \in Nat \ {0}
    /\ Policies \subseteq QuotaPolicy
    /\ Policies # {}
    /\ TTL \in Nat \ {0, 1}
    /\ Horizon \in Nat

VARIABLES
    clock,    \* utc_now
    policy,   \* the quota_policies row of the tenant
    window,   \* quota_windows: the counters of each period
    record,   \* quota_reservations: the lease of each request
    keyUsed,  \* access_key_usage_windows: request_count of each key and period
    request   \* what the gateway is doing for each request

vars == <<clock, policy, window, record, keyUsed, request>>

Time == 0..Horizon

\* The stream task wakes every refresh_seconds = TTL / 2.
RefreshEvery == TTL \div 2

-----------------------------------------------------------------------------
(* Rows.                                                                   *)

\* quota_window_start: the period a timestamp falls in.
WindowOf(at, period) == [start |-> at - (at % period), period |-> period]

Windows == {WindowOf(at, p.period) : at \in Time, p \in Policies}
NoWindow == [start |-> 0, period |-> 0]

\* A window row that _ensure_window has not created yet counts nothing.
EmptyWindow == [reserved |-> 0, active |-> 0, completed |-> 0, failed |-> 0]

NoRecord == [status |-> "absent", window |-> NoWindow, expires |-> 0]

KeyWindows == {<<k, WindowOf(at, KeyPeriod)>> : k \in AccessKeys, at \in Time}

Phases ==
    {"new",        \* not arrived
     "arrived",    \* authenticated and routed, `now' read, nothing reserved
     "refused",    \* answered 429
     "forwarding", \* reserved, waiting for the backend's response head
     "streaming",  \* relaying the response body
     "failed",     \* error answer, or a response body cut short
     "delivered",  \* response body relayed to its end
     "lost"}       \* its worker died

\* Phases in which the Hub has a call to the backend open.
InFlight == {"forwarding", "streaming"}

Counters == [reserved : Nat, active : Nat, completed : Nat, failed : Nat]

TypeOK ==
    /\ clock \in Time
    /\ policy \in Policies
    /\ window \in [Windows -> Counters]
    /\ record \in [Requests ->
                     [status : {"absent", "active", "completed", "failed"},
                      window : Windows \cup {NoWindow}, expires : Nat]]
    /\ keyUsed \in [KeyWindows -> 0..KeyLimit]
    /\ request \in [Requests -> [phase : Phases, at : Time, due : Nat,
                                 refreshed : BOOLEAN]]

Init ==
    /\ clock = 0
    /\ policy \in Policies
    /\ window = [w \in Windows |-> EmptyWindow]
    /\ record = [r \in Requests |-> NoRecord]
    /\ keyUsed = [k \in KeyWindows |-> 0]
    /\ request = [r \in Requests |-> [phase |-> "new", at |-> 0, due |-> 0,
                                      refreshed |-> FALSE]]

Holding(w, status) ==
    {r \in Requests : record[r].window = w /\ record[r].status = status}

\* Every reservation ever made in a window.
Reserved(w) == {r \in Requests : record[r].window = w}

Monus(m, n) == IF m >= n THEN m - n ELSE 0

-----------------------------------------------------------------------------
(* The reservation transaction.                                            *)

\* reserve_access_key_request: the allowance of the key, if there is one.
KeyWindow(r) == <<KeyOf[r], WindowOf(request[r].at, KeyPeriod)>>

KeyAllowsOneMore(r) == KeyOf[r] # NoKey => keyUsed[KeyWindow(r)] <= KeyLimit

KeyAllows(r) == KeyOf[r] # NoKey => keyUsed[KeyWindow(r)] < KeyLimit

\* The allowance of a request is consumed even when the tenant then refuses.
ConsumeKey(r) ==
    keyUsed' = IF KeyOf[r] = NoKey THEN keyUsed
               ELSE [keyUsed EXCEPT ![KeyWindow(r)] = @ + 1]

ExpiredNone(w, at) == {}

\* The leases _reap_expired ends: those of this window only.
Expired(w, at) ==
    {r \in Holding(w, "active") : record[r].expires <= at}

ReapedWindowUncounted(w, n) == [window[w] EXCEPT !.active = Monus(@, n)]

\* The counters of a window once n of its leases are reaped.
ReapedWindow(w, n) ==
    [window[w] EXCEPT !.active = Monus(@, n), !.failed = @ + n]

ReapedRecords(gone) ==
    [r \in Requests |-> IF r \in gone THEN [record[r] EXCEPT !.status = "failed"]
                        ELSE record[r]]

FitsOneMore(counters, limit) ==
    /\ counters.reserved <= limit.request_limit
    /\ counters.active < limit.concurrency_limit

FitsOneFewer(counters, limit) ==
    /\ counters.reserved + 1 < limit.request_limit
    /\ counters.active < limit.concurrency_limit

\* The condition of the reserving UPDATE.
Fits(counters, limit) ==
    /\ counters.reserved < limit.request_limit
    /\ counters.active < limit.concurrency_limit

SetPhase(r, phase) ==
    request' = [request EXCEPT ![r].phase = phase, ![r].due = 0,
                               ![r].refreshed = FALSE]

\* The gateway authenticates, inspects, authorises and routes the request and
\* reads the timestamp the quota is charged at.
Arrive(r) ==
    /\ request[r].phase = "new"
    /\ request' = [request EXCEPT ![r].phase = "arrived", ![r].at = clock]
    /\ UNCHANGED <<clock, policy, window, record, keyUsed>>

\* The key's allowance is spent: nothing else of the transaction happens.
RefuseForKey(r) ==
    /\ request[r].phase = "arrived"
    /\ ~KeyAllows(r)
    /\ SetPhase(r, "refused")
    /\ UNCHANGED <<clock, policy, window, record, keyUsed>>

\* No policy is enforced: the request proceeds without a lease.
PassUnenforced(r) ==
    /\ request[r].phase = "arrived"
    /\ KeyAllows(r)
    /\ ~policy.enforced
    /\ ConsumeKey(r)
    /\ SetPhase(r, "forwarding")
    /\ UNCHANGED <<clock, policy, window, record>>

\* DatabaseQuotaService.reserve: expired leases of the window are reaped, then
\* the reserving UPDATE either finds room or the request is refused with 429.
\* The gateway commits in both cases.
Reserve(r) ==
    LET at == request[r].at
        w == WindowOf(at, policy.period)
        gone == Expired(w, at)
        counters == ReapedWindow(w, Cardinality(gone))
    IN
    /\ request[r].phase = "arrived"
    /\ KeyAllows(r)
    /\ policy.enforced
    /\ ConsumeKey(r)
    /\ \/ /\ Fits(counters, policy)
          /\ window' = [window EXCEPT ![w] =
                          [counters EXCEPT !.reserved = @ + 1, !.active = @ + 1]]
          /\ record' = [ReapedRecords(gone) EXCEPT ![r] =
                          [status |-> "active", window |-> w,
                           expires |-> at + TTL]]
          /\ SetPhase(r, "forwarding")
       \/ /\ ~Fits(counters, policy)
          /\ window' = [window EXCEPT ![w] = counters]
          /\ record' = ReapedRecords(gone)
          /\ SetPhase(r, "refused")
    /\ UNCHANGED <<clock, policy>>

-----------------------------------------------------------------------------
(* Settling and refreshing.                                                *)

\* DatabaseQuotaService.complete: only an active record is settled, once.
Settle(r, status) ==
    LET w == record[r].window IN
    IF record[r].status # "active" THEN UNCHANGED <<record, window>>
    ELSE /\ record' = [record EXCEPT ![r].status = status]
         /\ window' = [window EXCEPT ![w].active = Monus(@, 1),
                                     ![w][status] = @ + 1]

\* Open circuit, transport error, redirect, rejected, oversized or unsound
\* response, or a failure of the closing transaction: error answer, settled.
FailUpstream(r) ==
    /\ request[r].phase = "forwarding"
    /\ Settle(r, "failed")
    /\ SetPhase(r, "failed")
    /\ UNCHANGED <<clock, policy, keyUsed>>

\* The response head is accepted and stream_with_quota starts.
StartStream(r) ==
    /\ request[r].phase = "forwarding"
    /\ request' = [request EXCEPT ![r].phase = "streaming",
                                  ![r].due = clock + RefreshEvery]
    /\ UNCHANGED <<clock, policy, window, record, keyUsed>>

Enforced(r) == record[r].status # "absent"

RefreshDue(r) ==
    /\ request[r].phase = "streaming"
    /\ Enforced(r)
    /\ request[r].due <= clock

ExtendedFromExpiry(r) == record[r].expires

\* The expiry a refresh writes.
Extended(r) == clock + TTL

\* refresh_lease extends an active lease.
RefreshLease(r) ==
    /\ RefreshDue(r)
    /\ record[r].status = "active"
    /\ record' = [record EXCEPT ![r].expires = Extended(r)]
    /\ request' = [request EXCEPT ![r].due = clock + RefreshEvery,
                                  ![r].refreshed = TRUE]
    /\ UNCHANGED <<clock, policy, window, keyUsed>>

\* refresh raises quota_reservation_inactive: the task group cancels the
\* relay, and the complete in its `finally' finds nothing to settle.
AbortStream(r) ==
    /\ RefreshDue(r)
    /\ record[r].status # "active"
    /\ Settle(r, "failed")
    /\ SetPhase(r, "failed")
    /\ UNCHANGED <<clock, policy, keyUsed>>

\* The body ends; a status of 400 or more counts as failed.
FinishStream(r) ==
    /\ request[r].phase = "streaming"
    /\ \E status \in {"completed", "failed"} : Settle(r, status)
    /\ SetPhase(r, "delivered")
    /\ UNCHANGED <<clock, policy, keyUsed>>

\* The client or the backend goes away, or the body exceeds the limit.
CutStream(r) ==
    /\ request[r].phase = "streaming"
    /\ Settle(r, "failed")
    /\ SetPhase(r, "failed")
    /\ UNCHANGED <<clock, policy, keyUsed>>

\* The worker dies with the request, or the handler leaves by an exception that
\* settles nothing: the lease stays behind.
Crash(r) ==
    /\ request[r].phase \in InFlight
    /\ SetPhase(r, "lost")
    /\ UNCHANGED <<clock, policy, window, record, keyUsed>>

\* An administrator replaces the tenant's quota policy.
ChangePolicy(p) ==
    /\ p # policy
    /\ policy' = p
    /\ UNCHANGED <<clock, window, record, keyUsed, request>>

\* Time passes.  The refresh task of a stream is not late by a whole tick.
Tick ==
    /\ clock < Horizon
    /\ \A r \in Requests : ~RefreshDue(r)
    /\ clock' = clock + 1
    /\ UNCHANGED <<policy, window, record, keyUsed, request>>

Next ==
    \/ \E r \in Requests :
          \/ Arrive(r)
          \/ RefuseForKey(r)
          \/ PassUnenforced(r)
          \/ Reserve(r)
          \/ FailUpstream(r)
          \/ StartStream(r)
          \/ RefreshLease(r)
          \/ AbortStream(r)
          \/ FinishStream(r)
          \/ CutStream(r)
          \/ Crash(r)
    \/ \E p \in Policies : ChangePolicy(p)
    \/ Tick

Spec == Init /\ [][Next]_vars

-----------------------------------------------------------------------------
(* Properties.                                                             *)

\* The counters of every window are the numbers of its reservation records:
\* no interleaving of reservations, settlements, reaping and crashes loses or
\* double counts one, and the clamps at zero never bite.
WindowConserved ==
    \A w \in Windows :
        /\ window[w].reserved = Cardinality(Reserved(w))
        /\ window[w].active = Cardinality(Holding(w, "active"))
        /\ window[w].completed = Cardinality(Holding(w, "completed"))
        /\ window[w].failed = Cardinality(Holding(w, "failed"))

\* The requests charged to a window never outnumber the most generous
\* request_limit that was ever configured for its period.
RequestLimitHeld ==
    \A w \in Windows : \E p \in Policies :
        /\ p.period = w.period
        /\ Cardinality(Reserved(w)) <= p.request_limit

\* The requests of an Access Key that went upstream in one of its periods
\* never outnumber its allowance, however their transactions interleave.
KeyAllowanceHeld ==
    \A k \in AccessKeys, at \in Time :
        LET passed == {r \in Requests :
                         /\ KeyOf[r] = k
                         /\ request[r].phase \notin {"new", "arrived", "refused"}
                         /\ WindowOf(request[r].at, KeyPeriod)
                              = WindowOf(at, KeyPeriod)}
        IN Cardinality(passed) <= KeyLimit

\* A tenant is refused only by reservations that really occupy it: either the
\* window's requests are used up, or as many leases as the concurrency limit
\* are held in it that had not expired when the request arrived.
RefusalsAreJustified ==
    [][\A r \in Requests :
         LET w == WindowOf(request[r].at, policy.period)
         IN /\ request[r].phase = "arrived"
            /\ request'[r].phase = "refused"
            /\ KeyAllows(r)
            => \/ Cardinality(Reserved(w)) >= policy.request_limit
               \/ Cardinality({q \in Holding(w, "active") :
                                 record[q].expires > request[r].at})
                    >= policy.concurrency_limit]_vars

\* A stream whose lease was refreshed once is never reaped: it keeps its place
\* until it ends or its worker dies.
RefreshedStreamsKeepLease ==
    \A r \in Requests :
        request[r].phase = "streaming" /\ request[r].refreshed
            => record[r].status = "active"

\* What the ledger says of a request agrees with how it went: completed means
\* delivered, and a reservation still active has a call open or a lost worker.
LedgerMatchesOutcome ==
    \A r \in Requests :
        /\ record[r].status = "completed" => request[r].phase = "delivered"
        /\ record[r].status = "active" => request[r].phase \in InFlight \cup {"lost"}
        /\ request[r].phase \in {"refused", "new", "arrived"}
              => record[r].status = "absent"

\* A reservation is settled once: by its request or by the reaper, whichever
\* comes first, and the late one changes nothing.
SettledForGood ==
    [][\A r \in Requests :
         record[r].status \in {"completed", "failed"}
            => record'[r] = record[r]]_vars

=============================================================================
