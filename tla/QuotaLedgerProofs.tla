------------------------- MODULE QuotaLedgerProofs -------------------------
(***************************************************************************)
(* What the quota ledger guarantees for any finite set of requests, any    *)
(* policies, lease time and clock.                                         *)
(***************************************************************************)
EXTENDS QuotaLedger, FiniteSetTheorems, TLAPS

Status == {"absent", "active", "completed", "failed"}

Record == [status : Status, window : Windows \cup {NoWindow}, expires : Nat]

\* A request has no reservation record before its reserving transaction, and
\* every record there is belongs to a window.
Rows ==
    \A r \in Requests :
        /\ record[r].status = "absent" <=> record[r].window = NoWindow
        /\ request[r].phase \in {"new", "arrived", "refused"}
              => record[r].status = "absent"

-----------------------------------------------------------------------------
(* Types.                                                                  *)

LEMMA WindowOfType ==
    ASSUME NEW at \in Time, NEW p \in Policies
    PROVE  /\ WindowOf(at, p.period) \in Windows
           /\ WindowOf(at, p.period) # NoWindow
<1>1. p.period \in Nat \ {0}
  BY QuotaAssumption DEF QuotaAssumption, QuotaPolicy
<1> QED
  BY <1>1 DEF Windows, WindowOf, NoWindow

LEMMA NoWindowIsNone == NoWindow \notin Windows
  BY WindowOfType DEF Windows

\* The sets of requests that the counters count are finite.
LEMMA FiniteCounts ==
    ASSUME NEW S \in SUBSET Requests
    PROVE  IsFiniteSet(S) /\ Cardinality(S) \in Nat
  BY QuotaAssumption, FS_Subset, FS_CardinalityType DEF QuotaAssumption

LEMMA MonusType ==
    ASSUME NEW m \in Nat, NEW n \in Nat
    PROVE  Monus(m, n) \in Nat /\ (m >= n => Monus(m, n) = m - n)
  BY DEF Monus

LEMMA CountersUpdate ==
    ASSUME NEW c \in Counters, NEW m \in Nat, NEW n \in Nat
    PROVE  /\ [c EXCEPT !.active = m, !.failed = n] \in Counters
           /\ [c EXCEPT !.reserved = m, !.active = n] \in Counters
  BY DEF Counters

LEMMA ReapedWindowType ==
    ASSUME window \in [Windows -> Counters], NEW w \in Windows, NEW n \in Nat
    PROVE  ReapedWindow(w, n) \in Counters
<1>1. window[w] \in Counters
  OBVIOUS
<1>2. Monus(window[w].active, n) \in Nat
  BY <1>1, MonusType DEF Counters
<1>3. window[w].failed + n \in Nat
  BY <1>1 DEF Counters
<1> QED
  BY <1>1, <1>2, <1>3, CountersUpdate DEF ReapedWindow

LEMMA SettleType ==
    ASSUME TypeOK, NEW r \in Requests, NEW status \in {"completed", "failed"},
           Settle(r, status),
           record[r].status = "active" => record[r].window \in Windows
    PROVE  /\ window' \in [Windows -> Counters]
           /\ record' \in [Requests -> Record]
<1>1. CASE record[r].status # "active"
  BY <1>1 DEF TypeOK, Settle, Record, Status
<1>2. CASE record[r].status = "active"
  <2> DEFINE w == record[r].window
  <2>1. w \in Windows /\ window[w] \in Counters
    BY <1>2 DEF TypeOK
  <2>2. record' = [record EXCEPT ![r].status = status]
    BY <1>2 DEF Settle
  <2>3. window' = [window EXCEPT ![w].active = Monus(@, 1),
                                 ![w][status] = @ + 1]
    BY <1>2 DEF Settle
  <2>4. record' \in [Requests -> Record]
    BY <2>2 DEF TypeOK, Record, Status
  <2>5. Monus(window[w].active, 1) \in Nat
    BY <2>1, MonusType DEF Counters
  <2>6. window' \in [Windows -> Counters]
    BY <2>1, <2>3, <2>5 DEF TypeOK, Counters
  <2> QED
    BY <2>4, <2>6
<1> QED
  BY <1>1, <1>2

LEMMA ReserveType ==
    ASSUME TypeOK, NEW r \in Requests, Reserve(r)
    PROVE  /\ window' \in [Windows -> Counters]
           /\ record' \in [Requests -> Record]
<1> DEFINE at == request[r].at
           w == WindowOf(at, policy.period)
           gone == Expired(w, at)
           counters == ReapedWindow(w, Cardinality(gone))
<1>1. at \in Time /\ policy \in Policies
  BY DEF TypeOK
<1>2. w \in Windows
  BY <1>1, WindowOfType
<1>3. gone \in SUBSET Requests
  BY DEF Expired, Holding
<1>4. Cardinality(gone) \in Nat
  BY <1>3, FiniteCounts
<1>5. counters \in Counters
  BY <1>2, <1>4, ReapedWindowType DEF TypeOK
<1>6. ReapedRecords(gone) \in [Requests -> Record]
  BY DEF ReapedRecords, TypeOK, Record, Status
<1>7. at + TTL \in Nat
  BY <1>1, QuotaAssumption DEF QuotaAssumption, Time
<1> HIDE DEF at, w, gone, counters
<1>8. CASE /\ window' = [window EXCEPT ![w] =
                            [counters EXCEPT !.reserved = @ + 1, !.active = @ + 1]]
           /\ record' = [ReapedRecords(gone) EXCEPT ![r] =
                            [status |-> "active", window |-> w,
                             expires |-> at + TTL]]
  <2>1. [counters EXCEPT !.reserved = @ + 1, !.active = @ + 1] \in Counters
    <3>1. counters.reserved + 1 \in Nat /\ counters.active + 1 \in Nat
      BY <1>5 DEF Counters
    <3> QED
      BY <1>5, <3>1, CountersUpdate
  <2>2. [status |-> "active", window |-> w, expires |-> at + TTL] \in Record
    BY <1>2, <1>7 DEF Record, Status
  <2> QED
    BY <1>2, <1>6, <1>8, <2>1, <2>2 DEF TypeOK
<1>9. CASE /\ window' = [window EXCEPT ![w] = counters]
           /\ record' = ReapedRecords(gone)
  BY <1>2, <1>5, <1>6, <1>9 DEF TypeOK
<1> QED
  BY <1>8, <1>9 DEF Reserve, at, w, gone, counters

LEMMA ConsumeKeyType ==
    ASSUME TypeOK, NEW r \in Requests, KeyAllows(r), ConsumeKey(r)
    PROVE  keyUsed' \in [KeyWindows -> 0..KeyLimit]
<1> USE QuotaAssumption DEF QuotaAssumption
<1>1. CASE KeyOf[r] = NoKey
  BY <1>1 DEF TypeOK, ConsumeKey
<1>2. CASE KeyOf[r] # NoKey
  <2>1. KeyWindow(r) \in KeyWindows
    BY <1>2 DEF TypeOK, KeyWindow, KeyWindows
  <2>2. keyUsed[KeyWindow(r)] \in 0..KeyLimit /\ keyUsed[KeyWindow(r)] < KeyLimit
    BY <1>2, <2>1 DEF TypeOK, KeyAllows
  <2>3. keyUsed' = [keyUsed EXCEPT ![KeyWindow(r)] = @ + 1]
    BY <1>2 DEF ConsumeKey
  <2> QED
    BY <2>1, <2>2, <2>3 DEF TypeOK
<1> QED
  BY <1>1, <1>2

LEMMA SetPhaseType ==
    ASSUME TypeOK, NEW r \in Requests, NEW phase \in Phases, SetPhase(r, phase)
    PROVE  request' \in [Requests -> [phase : Phases, at : Time, due : Nat,
                                      refreshed : BOOLEAN]]
  BY DEF TypeOK, SetPhase

LEMMA RefreshEveryType == RefreshEvery \in Nat /\ RefreshEvery < TTL
  BY QuotaAssumption DEF QuotaAssumption, RefreshEvery

LEMMA TypeNext == TypeOK /\ Rows /\ [Next]_vars => TypeOK'
<1> SUFFICES ASSUME TypeOK, Rows, [Next]_vars PROVE TypeOK'
  OBVIOUS
<1>0. \A r \in Requests :
        record[r].status = "active" => record[r].window \in Windows
  BY DEF TypeOK, Rows
<1>1. ASSUME NEW r \in Requests, Arrive(r) PROVE TypeOK'
  BY <1>1 DEF TypeOK, Arrive, Phases
<1>2. ASSUME NEW r \in Requests, RefuseForKey(r) PROVE TypeOK'
  BY <1>2, SetPhaseType DEF TypeOK, RefuseForKey, Phases
<1>3. ASSUME NEW r \in Requests, PassUnenforced(r) PROVE TypeOK'
  BY <1>3, SetPhaseType, ConsumeKeyType DEF TypeOK, PassUnenforced, Phases
<1>4. ASSUME NEW r \in Requests, Reserve(r) PROVE TypeOK'
  <2>1. keyUsed' \in [KeyWindows -> 0..KeyLimit]
    BY <1>4, ConsumeKeyType DEF Reserve
  <2>2. request' \in [Requests -> [phase : Phases, at : Time, due : Nat,
                                  refreshed : BOOLEAN]]
    BY <1>4, SetPhaseType DEF Reserve, Phases
  <2>3. UNCHANGED <<clock, policy>>
    BY <1>4 DEF Reserve
  <2> QED
    BY <1>4, <2>1, <2>2, <2>3, ReserveType DEF TypeOK, Record, Status
<1>5. ASSUME NEW r \in Requests, FailUpstream(r) PROVE TypeOK'
  BY <1>0, <1>5, SetPhaseType, SettleType
     DEF TypeOK, FailUpstream, Phases, Record, Status
<1>6. ASSUME NEW r \in Requests, StartStream(r) PROVE TypeOK'
  <2>1. clock + RefreshEvery \in Nat
    BY RefreshEveryType DEF TypeOK, Time
  <2> QED
    BY <1>6, <2>1 DEF TypeOK, StartStream, Phases
<1>7. ASSUME NEW r \in Requests, RefreshLease(r) PROVE TypeOK'
  <2>1. clock + RefreshEvery \in Nat /\ clock + TTL \in Nat
    BY RefreshEveryType, QuotaAssumption DEF QuotaAssumption, TypeOK, Time
  <2>2. record' \in [Requests -> Record]
    BY <1>7, <2>1 DEF TypeOK, RefreshLease, Extended, Record, Status
  <2>3. request' \in [Requests -> [phase : Phases, at : Time, due : Nat,
                                  refreshed : BOOLEAN]]
    BY <1>7, <2>1 DEF TypeOK, RefreshLease
  <2>4. UNCHANGED <<clock, policy, window, keyUsed>>
    BY <1>7 DEF RefreshLease
  <2> QED
    BY <2>2, <2>3, <2>4 DEF TypeOK, Record, Status
<1>8. ASSUME NEW r \in Requests, AbortStream(r) PROVE TypeOK'
  BY <1>0, <1>8, SetPhaseType, SettleType
     DEF TypeOK, AbortStream, Phases, Record, Status
<1>9. ASSUME NEW r \in Requests, FinishStream(r) PROVE TypeOK'
  BY <1>0, <1>9, SetPhaseType, SettleType
     DEF TypeOK, FinishStream, Phases, Record, Status
<1>10. ASSUME NEW r \in Requests, CutStream(r) PROVE TypeOK'
  BY <1>0, <1>10, SetPhaseType, SettleType
     DEF TypeOK, CutStream, Phases, Record, Status
<1>11. ASSUME NEW r \in Requests, Crash(r) PROVE TypeOK'
  BY <1>11, SetPhaseType DEF TypeOK, Crash, Phases
<1>12. ASSUME NEW p \in Policies, ChangePolicy(p) PROVE TypeOK'
  BY <1>12 DEF TypeOK, ChangePolicy
<1>13. CASE Tick
  BY <1>13, QuotaAssumption DEF QuotaAssumption, TypeOK, Tick, Time
<1>14. CASE UNCHANGED vars
  BY <1>14 DEF TypeOK, vars
<1> QED
  BY <1>1, <1>2, <1>3, <1>4, <1>5, <1>6, <1>7, <1>8, <1>9, <1>10, <1>11,
     <1>12, <1>13, <1>14 DEF Next

LEMMA RowsNext == TypeOK /\ Rows /\ [Next]_vars => Rows'
<1> SUFFICES ASSUME TypeOK, Rows, [Next]_vars PROVE Rows'
  OBVIOUS
<1>1. ASSUME NEW r \in Requests, Arrive(r) PROVE Rows'
  BY <1>1 DEF TypeOK, Rows, Arrive
<1>2. ASSUME NEW r \in Requests, RefuseForKey(r) PROVE Rows'
  BY <1>2 DEF TypeOK, Rows, RefuseForKey, SetPhase
<1>3. ASSUME NEW r \in Requests, PassUnenforced(r) PROVE Rows'
  BY <1>3 DEF TypeOK, Rows, PassUnenforced, SetPhase
<1>4. ASSUME NEW r \in Requests, Reserve(r) PROVE Rows'
  <2> DEFINE at == request[r].at
             w == WindowOf(at, policy.period)
             gone == Expired(w, at)
  <2>1. w # NoWindow
    BY WindowOfType DEF TypeOK
  <2>2. \A q \in Requests :
          /\ ReapedRecords(gone)[q].window = record[q].window
          /\ ReapedRecords(gone)[q].status = "absent"
                <=> record[q].status = "absent"
    BY DEF ReapedRecords, Expired, Holding, TypeOK
  <2>3. ReapedRecords(gone) \in [Requests -> Record]
    BY DEF ReapedRecords, TypeOK, Record, Status
  <2> HIDE DEF at, w, gone
  <2>4. CASE /\ record' = [ReapedRecords(gone) EXCEPT ![r] =
                             [status |-> "active", window |-> w,
                              expires |-> at + TTL]]
             /\ SetPhase(r, "forwarding")
    BY <2>1, <2>2, <2>3, <2>4 DEF Rows, SetPhase, TypeOK
  <2>5. CASE /\ record' = ReapedRecords(gone)
             /\ SetPhase(r, "refused")
             /\ request[r].phase = "arrived"
    BY <2>2, <2>5 DEF Rows, SetPhase, TypeOK
  <2> QED
    BY <1>4, <2>4, <2>5 DEF Reserve, at, w, gone
<1>5. ASSUME NEW r \in Requests, NEW status \in {"completed", "failed"},
             NEW phase \in Phases, request[r].phase \in InFlight,
             phase \notin {"new", "arrived", "refused"},
             Settle(r, status), SetPhase(r, phase)
      PROVE  Rows'
  BY <1>5 DEF TypeOK, Rows, Settle, SetPhase
<1>6. ASSUME NEW r \in Requests,
             \/ FailUpstream(r) \/ AbortStream(r)
             \/ FinishStream(r) \/ CutStream(r)
      PROVE  Rows'
  BY <1>5, <1>6 DEF FailUpstream, AbortStream, FinishStream, CutStream,
     RefreshDue, InFlight, Phases
<1>7. ASSUME NEW r \in Requests, StartStream(r) PROVE Rows'
  BY <1>7 DEF TypeOK, Rows, StartStream
<1>8. ASSUME NEW r \in Requests, RefreshLease(r) PROVE Rows'
  BY <1>8 DEF TypeOK, Rows, RefreshLease
<1>9. ASSUME NEW r \in Requests, Crash(r) PROVE Rows'
  BY <1>9 DEF TypeOK, Rows, Crash, SetPhase
<1>10. CASE Tick \/ (\E p \in Policies : ChangePolicy(p)) \/ UNCHANGED vars
  BY <1>10 DEF Rows, Tick, ChangePolicy, vars
<1> QED
  BY <1>1, <1>2, <1>3, <1>4, <1>6, <1>7, <1>8, <1>9, <1>10 DEF Next

LEMMA InitTypes == Init => TypeOK /\ Rows
<1> SUFFICES ASSUME Init PROVE TypeOK /\ Rows
  OBVIOUS
<1> USE QuotaAssumption DEF QuotaAssumption
<1>1. EmptyWindow \in Counters /\ NoRecord \in Record
  BY DEF EmptyWindow, NoRecord, Counters, Record, Status
<1>2. /\ window \in [Windows -> Counters]
      /\ record \in [Requests -> Record]
  BY <1>1 DEF Init
<1>3. keyUsed \in [KeyWindows -> 0..KeyLimit] /\ clock \in Time
  BY DEF Init, Time
<1>4. request \in [Requests -> [phase : Phases, at : Time, due : Nat,
                               refreshed : BOOLEAN]]
  BY DEF Init, Time, Phases
<1>5. Rows
  BY DEF Init, Rows, NoRecord
<1> QED
  BY <1>2, <1>3, <1>4, <1>5 DEF Init, TypeOK, Record, Status

LEMMA TypesAndRows == Spec => [](TypeOK /\ Rows)
<1>1. TypeOK /\ Rows /\ [Next]_vars => (TypeOK /\ Rows)'
  BY TypeNext, RowsNext
<1> QED
  BY <1>1, InitTypes, PTL DEF Spec

\* Every reachable state of the quota tables and of the requests that use
\* them is well typed.
THEOREM TypeCorrect == Spec => []TypeOK
  BY TypesAndRows, PTL

-----------------------------------------------------------------------------
(* Conservation.                                                           *)

\* Holding and Reserved of the model, for any table of records.
Held(R, w, status) == {q \in Requests : R[q].window = w /\ R[q].status = status}
Charged(R, w) == {q \in Requests : R[q].window = w}

\* The counters W[w] count the records R of the window.
Counts(W, R, w) ==
    /\ W[w].reserved = Cardinality(Charged(R, w))
    /\ W[w].active = Cardinality(Held(R, w, "active"))
    /\ W[w].completed = Cardinality(Held(R, w, "completed"))
    /\ W[w].failed = Cardinality(Held(R, w, "failed"))

LEMMA ConservedCounts ==
    WindowConserved <=> \A w \in Windows : Counts(window, record, w)
  BY DEF WindowConserved, Counts, Held, Charged, Holding, Reserved

LEMMA ConservedCountsPrime ==
    WindowConserved' <=> \A w \in Windows : Counts(window', record', w)
  BY DEF WindowConserved, Counts, Held, Charged, Holding, Reserved

\* S is R with one active record of window w moved to a settled status.
Moved(R, S, w, status) ==
    /\ \A v \in Windows \ {w} :
          /\ Charged(S, v) = Charged(R, v)
          /\ \A x \in Status : Held(S, v, x) = Held(R, v, x)
    /\ Charged(S, w) = Charged(R, w)
    /\ \A x \in Status \ {"active", status} : Held(S, w, x) = Held(R, w, x)
    /\ Cardinality(Held(R, w, "active")) >= 1
    /\ Cardinality(Held(S, w, "active"))
          = Cardinality(Held(R, w, "active")) - 1
    /\ Cardinality(Held(S, w, status)) = Cardinality(Held(R, w, status)) + 1

LEMMA MoveOne ==
    ASSUME NEW R \in [Requests -> Record], NEW w \in Windows,
           NEW r \in Requests, R[r].window = w, R[r].status = "active",
           NEW status \in {"completed", "failed"},
           NEW S, S = [R EXCEPT ![r].status = status]
    PROVE  Moved(R, S, w, status)
<1>1. /\ \A q \in Requests \ {r} : S[q] = R[q]
      /\ S[r].window = w
      /\ S[r].status = status
  BY DEF Record
<1>2. /\ Held(R, w, "active") \in SUBSET Requests
      /\ Held(R, w, status) \in SUBSET Requests
  BY DEF Held
<1>3. /\ IsFiniteSet(Held(R, w, "active"))
      /\ IsFiniteSet(Held(R, w, status))
      /\ Cardinality(Held(R, w, "active")) \in Nat
      /\ Cardinality(Held(R, w, status)) \in Nat
  BY <1>2, FiniteCounts
<1>4. r \in Held(R, w, "active") /\ r \notin Held(R, w, status)
  BY DEF Held
<1>5. Held(S, w, "active") = Held(R, w, "active") \ {r}
  BY <1>1 DEF Held
<1>6. Held(S, w, status) = Held(R, w, status) \cup {r}
  BY <1>1 DEF Held
<1>7. /\ Cardinality(Held(S, w, "active"))
            = Cardinality(Held(R, w, "active")) - 1
      /\ Cardinality(Held(S, w, status))
            = Cardinality(Held(R, w, status)) + 1
  <2>1. Cardinality(Held(R, w, "active") \ {r})
          = Cardinality(Held(R, w, "active")) - 1
    BY <1>3, <1>4, FS_RemoveElement
  <2>2. Cardinality(Held(R, w, status) \cup {r})
          = Cardinality(Held(R, w, status)) + 1
    BY <1>3, <1>4, FS_AddElement
  <2> QED
    BY <1>5, <1>6, <2>1, <2>2
<1>8. Cardinality(Held(R, w, "active")) >= 1
  <2>1. Cardinality(Held(R, w, "active")) # 0
    BY <1>3, <1>4, FS_EmptySet
  <2> QED
    BY <1>3, <2>1
<1>9. \A v \in Windows \ {w} :
         /\ Charged(S, v) = Charged(R, v)
         /\ \A x \in Status : Held(S, v, x) = Held(R, v, x)
  BY <1>1 DEF Held, Charged
<1>10. Charged(S, w) = Charged(R, w)
  BY <1>1 DEF Charged
<1>11. \A x \in Status \ {"active", status} : Held(S, w, x) = Held(R, w, x)
  BY <1>1 DEF Held
<1> QED
  BY <1>7, <1>8, <1>9, <1>10, <1>11 DEF Moved

LEMMA SettleConserves ==
    ASSUME TypeOK, Rows, WindowConserved, NEW r \in Requests,
           NEW status \in {"completed", "failed"}, Settle(r, status)
    PROVE  WindowConserved'
<1>1. CASE record[r].status # "active"
  <2>1. window' = window /\ record' = record
    BY <1>1 DEF Settle
  <2> QED
    BY <2>1, ConservedCounts, ConservedCountsPrime
<1>2. CASE record[r].status = "active"
  <2> DEFINE w == record[r].window
             S == [record EXCEPT ![r].status = status]
  <2>1. w \in Windows
    BY <1>2 DEF TypeOK, Rows
  <2>2. record \in [Requests -> Record]
    BY DEF TypeOK, Record, Status
  <2>3. record' = S
    BY <1>2 DEF Settle
  <2>4. window' = [window EXCEPT ![w].active = Monus(@, 1),
                                 ![w][status] = @ + 1]
    BY <1>2 DEF Settle
  <2>a. record[r].window = w /\ S = [record EXCEPT ![r].status = status]
    OBVIOUS
  <2> HIDE DEF w, S
  <2>5. Moved(record, S, w, status)
    BY <1>2, <2>1, <2>2, <2>a, MoveOne
  <2>6. \A v \in Windows : Counts(window, record, v)
    BY ConservedCounts
  <2>7. window[w] \in Counters
    BY <2>1 DEF TypeOK
  <2>8. Monus(window[w].active, 1) = window[w].active - 1
    BY <2>1, <2>5, <2>6, <2>7, MonusType DEF Counts, Counters, Moved
  <2>9. ASSUME NEW v \in Windows \ {w} PROVE Counts(window', record', v)
    <3>1. window'[v] = window[v]
      BY <2>4 DEF TypeOK
    <3> QED
      BY <2>3, <2>5, <2>6, <3>1 DEF Counts, Status, Moved
  <2>10. Counts(window', record', w)
    <3>1. /\ window'[w].active = window[w].active - 1
          /\ window'[w].reserved = window[w].reserved
          /\ window'[w][status] = window[w][status] + 1
          /\ \A x \in {"completed", "failed"} \ {status} :
                window'[w][x] = window[w][x]
      BY <2>1, <2>4, <2>7, <2>8 DEF Counters, TypeOK
    <3>2. CASE status = "completed"
      BY <2>1, <2>3, <2>5, <2>6, <3>1, <3>2 DEF Counts, Status, Moved
    <3>3. CASE status = "failed"
      BY <2>1, <2>3, <2>5, <2>6, <3>1, <3>3 DEF Counts, Status, Moved
    <3> QED
      BY <3>2, <3>3
  <2> QED
    BY <2>9, <2>10, ConservedCountsPrime
<1> QED
  BY <1>1, <1>2

\* Reaping some active leases of a window.
LEMMA ReapConserves ==
    ASSUME TypeOK, WindowConserved, NEW w \in Windows,
           NEW gone \in SUBSET Held(record, w, "active")
    PROVE  \A v \in Windows :
             Counts([window EXCEPT ![w] = ReapedWindow(w, Cardinality(gone))],
                    ReapedRecords(gone), v)
<1> DEFINE n == Cardinality(gone)
           S == ReapedRecords(gone)
           W == [window EXCEPT ![w] = ReapedWindow(w, n)]
           active == Held(record, w, "active")
           failed == Held(record, w, "failed")
<1>1. \A q \in Requests :
        /\ S[q].window = record[q].window
        /\ S[q].status = IF q \in gone THEN "failed" ELSE record[q].status
  BY DEF ReapedRecords, TypeOK
<1>2. /\ gone \in SUBSET Requests /\ active \in SUBSET Requests
      /\ failed \in SUBSET Requests
  BY DEF Held
<1>3. /\ IsFiniteSet(gone) /\ IsFiniteSet(active) /\ IsFiniteSet(failed)
      /\ n \in Nat /\ Cardinality(active) \in Nat /\ Cardinality(failed) \in Nat
  BY <1>2, FiniteCounts
<1>4. \A v \in Windows : Counts(window, record, v)
  BY ConservedCounts
<1>5. window[w] \in Counters
  BY DEF TypeOK
<1>6. n <= Cardinality(active) /\ Cardinality(active \ gone) = Cardinality(active) - n
  <2>1. active \cap gone = gone
    OBVIOUS
  <2>2. Cardinality(active \ gone) = Cardinality(active) - n
    BY <1>3, <2>1, FS_Difference
  <2>3. n <= Cardinality(active)
    BY <1>3, FS_Subset
  <2> QED
    BY <2>2, <2>3
<1>7. Cardinality(failed \cup gone) = Cardinality(failed) + n
  <2>1. failed \cap gone = {}
    BY DEF Held
  <2>2. Cardinality({}) = 0
    BY FS_EmptySet
  <2>3. Cardinality(failed \cup gone)
          = Cardinality(failed) + n - Cardinality(failed \cap gone)
    BY <1>3, FS_Union
  <2> QED
    BY <1>3, <2>1, <2>2, <2>3
<1>8. /\ \A v \in Windows : Charged(S, v) = Charged(record, v)
      /\ \A v \in Windows \ {w} : \A x \in Status :
            Held(S, v, x) = Held(record, v, x)
      /\ Held(S, w, "completed") = Held(record, w, "completed")
      /\ Held(S, w, "active") = active \ gone
      /\ Held(S, w, "failed") = failed \cup gone
  <2> HIDE DEF S
  <2> QED
    BY <1>1 DEF Held, Charged
<1>9. /\ ReapedWindow(w, n).reserved = window[w].reserved
      /\ ReapedWindow(w, n).completed = window[w].completed
      /\ ReapedWindow(w, n).active = window[w].active - n
      /\ ReapedWindow(w, n).failed = window[w].failed + n
  <2>1. window[w].active = Cardinality(active)
    BY <1>4 DEF Counts
  <2>2. Monus(window[w].active, n) = window[w].active - n
    BY <1>3, <1>6, <2>1, MonusType
  <2> HIDE DEF n
  <2> QED
    BY <1>5, <2>2 DEF ReapedWindow, Counters
<1>10. W[w] = ReapedWindow(w, n) /\ \A v \in Windows \ {w} : W[v] = window[v]
  BY DEF TypeOK
<1> HIDE DEF n, S, W
<1>11. ASSUME NEW v \in Windows \ {w} PROVE Counts(W, S, v)
  BY <1>4, <1>8, <1>10 DEF Counts, Status
<1>12. Counts(W, S, w)
  BY <1>4, <1>6, <1>7, <1>8, <1>9, <1>10 DEF Counts
<1> QED
  BY <1>11, <1>12 DEF n, S, W

\* Charging a request that has no record yet to a window.
LEMMA AddConserves ==
    ASSUME NEW W \in [Windows -> Counters], NEW R \in [Requests -> Record],
           \A v \in Windows : Counts(W, R, v),
           NEW w \in Windows, NEW r \in Requests, R[r].window = NoWindow,
           NEW lease \in Record, lease.status = "active", lease.window = w,
           NEW X, X = [W EXCEPT ![w] =
                         [W[w] EXCEPT !.reserved = @ + 1, !.active = @ + 1]],
           NEW S, S = [R EXCEPT ![r] = lease]
    PROVE  \A v \in Windows : Counts(X, S, v)
<1>1. /\ \A q \in Requests \ {r} : S[q] = R[q]
      /\ S[r] = lease
  OBVIOUS
<1>2. w # NoWindow /\ NoWindow \notin Windows
  BY NoWindowIsNone
<1>3. /\ Charged(R, w) \in SUBSET Requests
      /\ Held(R, w, "active") \in SUBSET Requests
  BY DEF Charged, Held
<1>4. /\ IsFiniteSet(Charged(R, w)) /\ Cardinality(Charged(R, w)) \in Nat
      /\ IsFiniteSet(Held(R, w, "active"))
      /\ Cardinality(Held(R, w, "active")) \in Nat
  BY <1>3, FiniteCounts
<1>5. r \notin Charged(R, w) /\ r \notin Held(R, w, "active")
  BY <1>2 DEF Charged, Held
<1>6. /\ Charged(S, w) = Charged(R, w) \cup {r}
      /\ Held(S, w, "active") = Held(R, w, "active") \cup {r}
      /\ Held(S, w, "completed") = Held(R, w, "completed")
      /\ Held(S, w, "failed") = Held(R, w, "failed")
  BY <1>1, <1>2 DEF Charged, Held
<1>7. \A v \in Windows \ {w} :
        /\ Charged(S, v) = Charged(R, v)
        /\ \A x \in Status : Held(S, v, x) = Held(R, v, x)
  BY <1>1, <1>2 DEF Charged, Held
<1>8. Cardinality(Charged(S, w)) = Cardinality(Charged(R, w)) + 1
  BY <1>4, <1>5, <1>6, FS_AddElement
<1>9. Cardinality(Held(S, w, "active")) = Cardinality(Held(R, w, "active")) + 1
  <2>1. Cardinality(Held(R, w, "active") \cup {r})
          = Cardinality(Held(R, w, "active")) + 1
    BY <1>4, <1>5, FS_AddElement
  <2> QED
    BY <1>6, <2>1
<1>10. /\ X[w].reserved = W[w].reserved + 1
       /\ X[w].active = W[w].active + 1
       /\ X[w].completed = W[w].completed
       /\ X[w].failed = W[w].failed
       /\ \A v \in Windows \ {w} : X[v] = W[v]
  BY DEF Counters
<1>11. ASSUME NEW v \in Windows \ {w} PROVE Counts(X, S, v)
  <2>1. Counts(W, R, v)
    OBVIOUS
  <2>2. /\ Held(S, v, "active") = Held(R, v, "active")
        /\ Held(S, v, "completed") = Held(R, v, "completed")
        /\ Held(S, v, "failed") = Held(R, v, "failed")
        /\ Charged(S, v) = Charged(R, v)
    BY <1>7 DEF Status
  <2>3. X[v] = W[v]
    BY <1>10
  <2> QED
    BY <2>1, <2>2, <2>3 DEF Counts
<1>12. Counts(X, S, w)
  <2>1. Counts(W, R, w)
    OBVIOUS
  <2> QED
    BY <1>6, <1>8, <1>9, <1>10, <2>1 DEF Counts
<1> QED
  BY <1>11, <1>12

LEMMA ReserveConserves ==
    ASSUME TypeOK, Rows, WindowConserved, NEW r \in Requests, Reserve(r)
    PROVE  WindowConserved'
<1> DEFINE at == request[r].at
           w == WindowOf(at, policy.period)
           gone == Expired(w, at)
           counters == ReapedWindow(w, Cardinality(gone))
           W == [window EXCEPT ![w] = counters]
           R == ReapedRecords(gone)
           lease == [status |-> "active", window |-> w, expires |-> at + TTL]
<1>1. w \in Windows
  BY WindowOfType DEF TypeOK
<1>2. gone \in SUBSET Held(record, w, "active")
  BY DEF Expired, Holding, Held
<1>3. \A v \in Windows : Counts(W, R, v)
  BY <1>1, <1>2, ReapConserves
<1>4. counters \in Counters
  <2>1. gone \in SUBSET Requests
    BY <1>2 DEF Held
  <2> QED
    BY <1>1, <2>1, FiniteCounts, ReapedWindowType DEF TypeOK
<1>5. W \in [Windows -> Counters] /\ W[w] = counters
  BY <1>1, <1>4 DEF TypeOK
<1>6. R \in [Requests -> Record]
  BY DEF ReapedRecords, TypeOK, Record, Status
<1>7. R[r].window = NoWindow
  BY DEF ReapedRecords, TypeOK, Rows, Reserve
<1>8. lease \in Record /\ lease.status = "active" /\ lease.window = w
  <2>1. at + TTL \in Nat
    BY QuotaAssumption DEF QuotaAssumption, TypeOK, Time
  <2> QED
    BY <1>1, <2>1 DEF Record, Status
<1>9. \/ /\ window' = [window EXCEPT ![w] =
                          [counters EXCEPT !.reserved = @ + 1, !.active = @ + 1]]
         /\ record' = [R EXCEPT ![r] = lease]
      \/ /\ window' = W
         /\ record' = R
  BY DEF Reserve
<1> HIDE DEF w, gone, counters, R, lease
<1>10. CASE /\ window' = [window EXCEPT ![w] =
                          [counters EXCEPT !.reserved = @ + 1, !.active = @ + 1]]
            /\ record' = [R EXCEPT ![r] = lease]
  <2>1. window' = [W EXCEPT ![w] =
                    [W[w] EXCEPT !.reserved = @ + 1, !.active = @ + 1]]
    BY <1>1, <1>5, <1>10 DEF TypeOK
  <2> HIDE DEF W
  <2>2. \A v \in Windows : Counts(window', record', v)
    BY <1>1, <1>3, <1>5, <1>6, <1>7, <1>8, <1>10, <2>1, AddConserves
  <2> QED
    BY <2>2, ConservedCountsPrime
<1>11. CASE window' = W /\ record' = R
  BY <1>3, <1>11, ConservedCountsPrime
<1> QED
  BY <1>9, <1>10, <1>11

LEMMA ConservedNext ==
    TypeOK /\ Rows /\ WindowConserved /\ [Next]_vars => WindowConserved'
<1> SUFFICES ASSUME TypeOK, Rows, WindowConserved, [Next]_vars
             PROVE  WindowConserved'
  OBVIOUS
<1>1. CASE UNCHANGED <<window, record>>
  BY <1>1, ConservedCounts, ConservedCountsPrime
<1>2. ASSUME NEW r \in Requests,
             \/ Arrive(r) \/ RefuseForKey(r) \/ PassUnenforced(r)
             \/ StartStream(r) \/ Crash(r)
      PROVE  WindowConserved'
  BY <1>1, <1>2 DEF Arrive, RefuseForKey, PassUnenforced, StartStream, Crash
<1>3. ASSUME NEW r \in Requests, Reserve(r) PROVE WindowConserved'
  BY <1>3, ReserveConserves
<1>4. ASSUME NEW r \in Requests,
             \/ FailUpstream(r) \/ AbortStream(r)
             \/ FinishStream(r) \/ CutStream(r)
      PROVE  WindowConserved'
  BY <1>4, SettleConserves DEF FailUpstream, AbortStream, FinishStream, CutStream
<1>5. ASSUME NEW r \in Requests, RefreshLease(r) PROVE WindowConserved'
  <2>1. \A q \in Requests : /\ record'[q].window = record[q].window
                            /\ record'[q].status = record[q].status
    BY <1>5 DEF RefreshLease, TypeOK
  <2>2. \A w \in Windows : /\ Charged(record', w) = Charged(record, w)
                           /\ \A x \in Status :
                                 Held(record', w, x) = Held(record, w, x)
    BY <2>1 DEF Charged, Held
  <2>3. window' = window
    BY <1>5 DEF RefreshLease
  <2> QED
    BY <2>2, <2>3, ConservedCounts, ConservedCountsPrime DEF Counts, Status
<1>6. CASE Tick \/ \E p \in Policies : ChangePolicy(p)
  BY <1>1, <1>6 DEF Tick, ChangePolicy
<1>7. CASE UNCHANGED vars
  BY <1>1, <1>7 DEF vars
<1> QED
  BY <1>2, <1>3, <1>4, <1>5, <1>6, <1>7 DEF Next

LEMMA ConservedInit == Init => WindowConserved
<1> SUFFICES ASSUME Init, NEW w \in Windows PROVE Counts(window, record, w)
  BY ConservedCounts
<1>1. Charged(record, w) = {}
  BY NoWindowIsNone DEF Init, Charged, NoRecord
<1>2. \A x \in Status : Held(record, w, x) = {}
  BY NoWindowIsNone DEF Init, Held, NoRecord
<1>3. Cardinality({}) = 0
  BY FS_EmptySet
<1> QED
  BY <1>1, <1>2, <1>3 DEF Init, Counts, EmptyWindow, Status

\* The counters of every quota window agree with its reservation records in
\* every reachable state: quota.py neither loses nor double counts a request,
\* whatever reservations, settlements, reaping and crashes interleave.
THEOREM WindowConservedAlways == Spec => []WindowConserved
<1>1. WindowConserved /\ TypeOK /\ Rows /\ [Next]_vars => WindowConserved'
  BY ConservedNext
<1> QED
  BY <1>1, ConservedInit, TypesAndRows, PTL DEF Spec

-----------------------------------------------------------------------------
(* Limits.                                                                 *)

\* RequestLimitHeld, said of the counters.
LimitKept ==
    \A w \in Windows : \E p \in Policies :
        p.period = w.period /\ window[w].reserved <= p.request_limit

LEMMA LimitKeptInit == Init => LimitKept
<1> SUFFICES ASSUME Init, NEW w \in Windows
             PROVE  \E p \in Policies :
                       /\ p.period = w.period
                       /\ window[w].reserved <= p.request_limit
  BY DEF LimitKept
<1>1. PICK p \in Policies : p.period = w.period
  BY DEF Windows, WindowOf
<1>2. p.request_limit \in Nat \ {0}
  BY QuotaAssumption DEF QuotaAssumption, QuotaPolicy
<1>3. window[w].reserved = 0
  BY DEF Init, EmptyWindow
<1> QED
  BY <1>1, <1>2, <1>3

\* Only a reservation raises the number of requests charged to a window.
LEMMA SettleCharges ==
    ASSUME TypeOK, NEW r \in Requests, NEW status \in {"completed", "failed"},
           Settle(r, status), NEW w \in Windows
    PROVE  window'[w].reserved = window[w].reserved
<1>1. CASE record[r].status # "active"
  BY <1>1 DEF Settle
<1>2. CASE record[r].status = "active"
  <2>1. window' = [window EXCEPT ![record[r].window].active = Monus(@, 1),
                                 ![record[r].window][status] = @ + 1]
    BY <1>2 DEF Settle
  <2>2. window \in [Windows -> Counters]
    BY DEF TypeOK
  <2> QED
    BY <2>1, <2>2 DEF Counters
<1> QED
  BY <1>1, <1>2

LEMMA ReserveKeepsLimit ==
    ASSUME TypeOK, LimitKept, NEW r \in Requests, Reserve(r)
    PROVE  LimitKept'
<1> DEFINE w == WindowOf(request[r].at, policy.period)
           n == Cardinality(Expired(w, request[r].at))
           counters == ReapedWindow(w, n)
<1>1. w \in Windows /\ w.period = policy.period /\ policy \in Policies
  BY WindowOfType DEF TypeOK, WindowOf
<1>2. Expired(w, request[r].at) \in SUBSET Requests
  BY DEF Expired, Holding
<1>3. counters \in Counters /\ counters.reserved = window[w].reserved
  <2>1. n \in Nat
    BY <1>2, FiniteCounts
  <2>2. window[w] \in Counters
    BY <1>1 DEF TypeOK
  <2> QED
    BY <1>1, <2>1, <2>2, ReapedWindowType DEF TypeOK, ReapedWindow, Counters
<1>4. \/ /\ Fits(counters, policy)
         /\ window' = [window EXCEPT ![w] =
                          [counters EXCEPT !.reserved = @ + 1, !.active = @ + 1]]
      \/ window' = [window EXCEPT ![w] = counters]
  BY DEF Reserve
<1> HIDE DEF w, n, counters
<1>5. \A v \in Windows \ {w} : window'[v] = window[v]
  BY <1>4 DEF TypeOK
<1>6. policy.request_limit \in Nat
  BY <1>1, QuotaAssumption DEF QuotaAssumption, QuotaPolicy
<1>7. \/ window'[w].reserved = window[w].reserved
      \/ window'[w].reserved <= policy.request_limit
  <2>1. CASE window' = [window EXCEPT ![w] = counters]
    BY <1>1, <1>3, <2>1 DEF TypeOK
  <2>2. CASE /\ Fits(counters, policy)
             /\ window' = [window EXCEPT ![w] =
                          [counters EXCEPT !.reserved = @ + 1, !.active = @ + 1]]
    <3>1. window'[w].reserved = counters.reserved + 1
      BY <1>1, <1>3, <2>2 DEF TypeOK, Counters
    <3>2. counters.reserved \in Nat /\ counters.reserved < policy.request_limit
      BY <1>3, <2>2 DEF Fits, Counters
    <3> QED
      BY <1>6, <3>1, <3>2
  <2> QED
    BY <1>4, <2>1, <2>2
<1> QED
  BY <1>1, <1>5, <1>7 DEF LimitKept

LEMMA LimitKeptNext == TypeOK /\ LimitKept /\ [Next]_vars => LimitKept'
<1> SUFFICES ASSUME TypeOK, LimitKept, [Next]_vars PROVE LimitKept'
  OBVIOUS
<1>1. CASE \A w \in Windows : window'[w].reserved = window[w].reserved
  BY <1>1 DEF LimitKept
<1>2. ASSUME NEW r \in Requests, Reserve(r) PROVE LimitKept'
  BY <1>2, ReserveKeepsLimit
<1>3. ASSUME NEW r \in Requests,
             \/ FailUpstream(r) \/ AbortStream(r)
             \/ FinishStream(r) \/ CutStream(r)
      PROVE  LimitKept'
  BY <1>1, <1>3, SettleCharges
     DEF FailUpstream, AbortStream, FinishStream, CutStream
<1>4. CASE UNCHANGED window
  BY <1>1, <1>4
<1>5. ASSUME NEW r \in Requests,
             \/ Arrive(r) \/ RefuseForKey(r) \/ PassUnenforced(r)
             \/ StartStream(r) \/ RefreshLease(r) \/ Crash(r)
      PROVE  LimitKept'
  BY <1>4, <1>5 DEF Arrive, RefuseForKey, PassUnenforced, StartStream,
     RefreshLease, Crash
<1>6. CASE Tick \/ (\E p \in Policies : ChangePolicy(p)) \/ UNCHANGED vars
  BY <1>4, <1>6 DEF Tick, ChangePolicy, vars
<1> QED
  BY <1>2, <1>3, <1>5, <1>6 DEF Next

\* No quota window is ever charged more requests than the largest
\* request_limit configured for its period, whatever transactions interleave:
\* the reserving UPDATE of quota.py tests the limit and counts in one step.
THEOREM RequestLimitHeldAlways == Spec => []RequestLimitHeld
<1>1. TypeOK /\ LimitKept /\ [Next]_vars => LimitKept'
  BY LimitKeptNext
<1>2. WindowConserved /\ LimitKept => RequestLimitHeld
  BY DEF WindowConserved, LimitKept, RequestLimitHeld
<1> QED
  BY <1>1, <1>2, LimitKeptInit, TypeCorrect, WindowConservedAlways, PTL DEF Spec

-----------------------------------------------------------------------------
(* Leases.                                                                 *)

\* A request's timestamp is never in the future, and the lease of a stream
\* that was refreshed outlives the next refresh, which is not yet overdue.
LeaseAhead(r) ==
    /\ request[r].at <= clock
    /\ request[r].refreshed => request[r].phase = "streaming"
    /\ request[r].phase = "streaming" /\ request[r].refreshed
          => /\ record[r].status = "active"
             /\ clock <= request[r].due
             /\ request[r].due < record[r].expires

LeasesAhead == \A r \in Requests : LeaseAhead(r)

LEMMA ReserveSpares ==
    ASSUME TypeOK, Rows, LeasesAhead, NEW r \in Requests, Reserve(r),
           NEW q \in Requests, request[q].phase = "streaming",
           request[q].refreshed
    PROVE  record'[q] = record[q]
<1> DEFINE w == WindowOf(request[r].at, policy.period)
           gone == Expired(w, request[r].at)
<1>1. q # r
  BY DEF Reserve
<1>2. request[r].at <= clock /\ clock < record[q].expires
  BY DEF LeasesAhead, LeaseAhead, TypeOK, Time
<1>3. request[r].at \in Nat /\ clock \in Nat /\ record[q].expires \in Nat
  BY DEF TypeOK, Time
<1>4. ~(record[q].expires <= request[r].at)
  BY <1>2, <1>3
<1>5. q \notin gone
  BY <1>4 DEF Expired
<1>6. ReapedRecords(gone)[q] = record[q]
  BY <1>5 DEF ReapedRecords
<1>7. ReapedRecords(gone) \in [Requests -> Record]
  BY DEF ReapedRecords, TypeOK, Record, Status
<1>8. \/ record' = ReapedRecords(gone)
      \/ record' = [ReapedRecords(gone) EXCEPT ![r] =
                      [status |-> "active", window |-> w,
                       expires |-> request[r].at + TTL]]
  BY DEF Reserve
<1> QED
  BY <1>1, <1>6, <1>7, <1>8

LEMMA LeasesAheadNext ==
    TypeOK /\ Rows /\ LeasesAhead /\ [Next]_vars => LeasesAhead'
<1> SUFFICES ASSUME TypeOK, Rows, LeasesAhead, [Next]_vars PROVE LeasesAhead'
  OBVIOUS
<1>0. clock \in Nat
  BY DEF TypeOK, Time
<1>1. ASSUME NEW r \in Requests, Arrive(r) PROVE LeasesAhead'
  BY <1>0, <1>1 DEF TypeOK, LeasesAhead, LeaseAhead, Arrive
<1>2. ASSUME NEW r \in Requests, NEW phase \in Phases \ {"streaming"},
             SetPhase(r, phase), UNCHANGED clock,
             \A q \in Requests : request[q].phase = "streaming" /\ q # r
                                 /\ request[q].refreshed
                                 => record'[q] = record[q]
      PROVE  LeasesAhead'
  BY <1>2 DEF TypeOK, LeasesAhead, LeaseAhead, SetPhase
<1>3. ASSUME NEW r \in Requests,
             RefuseForKey(r) \/ PassUnenforced(r) \/ Crash(r)
      PROVE  LeasesAhead'
  BY <1>2, <1>3 DEF RefuseForKey, PassUnenforced, Crash, Phases
<1>4. ASSUME NEW r \in Requests, Reserve(r) PROVE LeasesAhead'
  BY <1>2, <1>4, ReserveSpares DEF Reserve, Phases
<1>5. ASSUME NEW r \in Requests, NEW status \in {"completed", "failed"},
             Settle(r, status), NEW q \in Requests, q # r
      PROVE  record'[q] = record[q]
  BY <1>5 DEF Settle, TypeOK
<1>6. ASSUME NEW r \in Requests,
             \/ FailUpstream(r) \/ AbortStream(r)
             \/ FinishStream(r) \/ CutStream(r)
      PROVE  LeasesAhead'
  BY <1>2, <1>5, <1>6
     DEF FailUpstream, AbortStream, FinishStream, CutStream, Phases
<1>7. ASSUME NEW r \in Requests, StartStream(r) PROVE LeasesAhead'
  <2>1. \A q \in Requests \ {r} : request'[q] = request[q]
    BY <1>7 DEF StartStream, TypeOK
  <2>2. /\ request'[r].at = request[r].at
        /\ request'[r].refreshed = request[r].refreshed
    BY <1>7 DEF StartStream, TypeOK
  <2>3. request[r].refreshed = FALSE
    BY <1>7 DEF StartStream, LeasesAhead, LeaseAhead
  <2>4. request'[r].phase = "streaming" /\ UNCHANGED <<clock, record>>
    BY <1>7 DEF StartStream, TypeOK
  <2>5. ~request'[r].refreshed
    BY <2>2, <2>3
  <2> SUFFICES ASSUME NEW q \in Requests PROVE LeaseAhead(q)'
    BY DEF LeasesAhead
  <2>6. CASE q = r
    BY <2>2, <2>4, <2>5, <2>6 DEF LeasesAhead, LeaseAhead
  <2>7. CASE q # r
    BY <2>1, <2>4, <2>7 DEF LeasesAhead, LeaseAhead
  <2> QED
    BY <2>6, <2>7
<1>8. ASSUME NEW r \in Requests, RefreshLease(r) PROVE LeasesAhead'
  <2>1. /\ \A q \in Requests \ {r} : /\ request'[q] = request[q]
                                     /\ record'[q] = record[q]
        /\ request'[r].at = request[r].at
        /\ request'[r].phase = "streaming"
        /\ request'[r].due = clock + RefreshEvery
        /\ record'[r].status = "active"
        /\ record'[r].expires = clock + TTL
        /\ clock' = clock
    BY <1>8 DEF RefreshLease, RefreshDue, Extended, TypeOK
  <2>2. TTL \in Nat
    BY QuotaAssumption DEF QuotaAssumption
  <2> QED
    BY <1>0, <2>1, <2>2, RefreshEveryType DEF LeasesAhead, LeaseAhead
<1>9. CASE Tick
  <2>1. /\ clock' = clock + 1
        /\ request' = request /\ record' = record
        /\ \A r \in Requests : ~RefreshDue(r)
    BY <1>9 DEF Tick
  <2>2. ASSUME NEW r \in Requests PROVE request[r].at \in Nat /\ request[r].due \in Nat
    BY DEF TypeOK, Time
  <2>3. ASSUME NEW r \in Requests,
               request[r].phase = "streaming", request[r].refreshed
        PROVE  clock + 1 <= request[r].due
    BY <1>0, <2>1, <2>2, <2>3 DEF LeasesAhead, LeaseAhead, RefreshDue, Enforced
  <2> QED
    BY <1>0, <2>1, <2>2, <2>3 DEF LeasesAhead, LeaseAhead
<1>10. CASE (\E p \in Policies : ChangePolicy(p)) \/ UNCHANGED vars
  BY <1>10 DEF LeasesAhead, LeaseAhead, ChangePolicy, vars
<1> QED
  BY <1>1, <1>3, <1>4, <1>6, <1>7, <1>8, <1>9, <1>10 DEF Next

\* Once its refresh task has extended a stream's lease, no reservation of any
\* other request reaps it: stream_with_quota refreshes at half the lease time.
THEOREM RefreshedStreamsKeepLeaseAlways == Spec => []RefreshedStreamsKeepLease
<1>1. Init => LeasesAhead
  BY DEF Init, LeasesAhead, LeaseAhead
<1>2. TypeOK /\ Rows /\ LeasesAhead /\ [Next]_vars => LeasesAhead'
  BY LeasesAheadNext
<1>3. LeasesAhead => RefreshedStreamsKeepLease
  BY DEF LeasesAhead, LeaseAhead, RefreshedStreamsKeepLease
<1> QED
  BY <1>1, <1>2, <1>3, TypesAndRows, PTL DEF Spec

-----------------------------------------------------------------------------
(* Settlement.                                                             *)

\* A settled reservation stays as it is: whoever comes second, the request
\* that completes or the reservation that reaps, changes nothing.
THEOREM SettledForGoodAlways == Spec => SettledForGood
<1> DEFINE Settled(r) == record[r].status \in {"completed", "failed"}
<1>1. ASSUME TypeOK, Rows, [Next]_vars, NEW r \in Requests, Settled(r)
      PROVE  record'[r] = record[r]
  <2>1. CASE UNCHANGED record
    BY <2>1
  <2>2. ASSUME NEW q \in Requests, Reserve(q) PROVE record'[r] = record[r]
    <3> DEFINE w == WindowOf(request[q].at, policy.period)
               gone == Expired(w, request[q].at)
    <3>1. q # r
      BY <1>1, <2>2 DEF Reserve, Rows
    <3>2. ReapedRecords(gone)[r] = record[r]
      BY <1>1 DEF ReapedRecords, Expired, Holding
    <3>3. ReapedRecords(gone) \in [Requests -> Record]
      BY <1>1 DEF ReapedRecords, TypeOK, Record, Status
    <3>4. \/ record' = ReapedRecords(gone)
          \/ record' = [ReapedRecords(gone) EXCEPT ![q] =
                          [status |-> "active", window |-> w,
                           expires |-> request[q].at + TTL]]
      BY <2>2 DEF Reserve
    <3> QED
      BY <3>1, <3>2, <3>3, <3>4
  <2>3. ASSUME NEW q \in Requests, NEW status \in {"completed", "failed"},
               Settle(q, status)
        PROVE  record'[r] = record[r]
    BY <1>1, <2>3 DEF Settle, TypeOK
  <2>4. ASSUME NEW q \in Requests,
               \/ FailUpstream(q) \/ AbortStream(q)
               \/ FinishStream(q) \/ CutStream(q)
        PROVE  record'[r] = record[r]
    BY <2>3, <2>4 DEF FailUpstream, AbortStream, FinishStream, CutStream
  <2>5. ASSUME NEW q \in Requests, RefreshLease(q)
        PROVE  record'[r] = record[r]
    BY <1>1, <2>5 DEF RefreshLease, TypeOK
  <2>6. ASSUME NEW q \in Requests,
               \/ Arrive(q) \/ RefuseForKey(q) \/ PassUnenforced(q)
               \/ StartStream(q) \/ Crash(q)
        PROVE  record'[r] = record[r]
    BY <2>1, <2>6 DEF Arrive, RefuseForKey, PassUnenforced, StartStream, Crash
  <2>7. CASE Tick \/ (\E p \in Policies : ChangePolicy(p)) \/ UNCHANGED vars
    BY <2>1, <2>7 DEF Tick, ChangePolicy, vars
  <2> QED
    BY <1>1, <2>2, <2>4, <2>5, <2>6, <2>7 DEF Next
<1>2. TypeOK /\ Rows /\ [Next]_vars
        => [\A r \in Requests :
              record[r].status \in {"completed", "failed"}
                => record'[r] = record[r]]_vars
  BY <1>1
<1> QED
  BY <1>2, TypesAndRows, PTL DEF Spec, SettledForGood

\* What a request that moves to phase must leave in the records.
Recorded(r, phase) ==
    /\ \A q \in Requests \ {r} :
          \/ record'[q].status = record[q].status
          \/ record'[q].status = "failed" /\ record[q].status = "active"
    /\ record'[r].status = "completed" => phase = "delivered"
    /\ record'[r].status = "active" => phase \in {"forwarding", "streaming", "lost"}
    /\ phase \in {"refused", "new", "arrived"} => record'[r].status = "absent"

LEMMA MoveKeepsOutcome ==
    ASSUME TypeOK, LedgerMatchesOutcome, NEW r \in Requests, NEW phase,
           SetPhase(r, phase), Recorded(r, phase)
    PROVE  LedgerMatchesOutcome'
<1>1. /\ request'[r].phase = phase
      /\ \A q \in Requests \ {r} : request'[q].phase = request[q].phase
  BY DEF SetPhase, TypeOK
<1> QED
  BY <1>1 DEF LedgerMatchesOutcome, Recorded, InFlight

LEMMA SettledOutcome ==
    ASSUME TypeOK, LedgerMatchesOutcome, NEW r \in Requests,
           request[r].phase \in InFlight,
           NEW status \in {"completed", "failed"}, Settle(r, status),
           NEW phase \in {"delivered", "failed"},
           phase = "failed" => status = "failed"
    PROVE  Recorded(r, phase)
<1>1. CASE record[r].status # "active"
  BY <1>1 DEF Settle, LedgerMatchesOutcome, InFlight, Recorded
<1>2. CASE record[r].status = "active"
  <2>1. /\ record'[r].status = status
        /\ \A q \in Requests \ {r} : record'[q] = record[q]
    BY <1>2 DEF Settle, TypeOK
  <2> QED
    BY <2>1 DEF Recorded
<1> QED
  BY <1>1, <1>2

LEMMA ReserveOutcome ==
    ASSUME TypeOK, Rows, NEW r \in Requests, Reserve(r)
    PROVE  \E phase \in {"forwarding", "refused"} :
              SetPhase(r, phase) /\ Recorded(r, phase)
<1> DEFINE w == WindowOf(request[r].at, policy.period)
           gone == Expired(w, request[r].at)
           R == ReapedRecords(gone)
           lease == [status |-> "active", window |-> w,
                     expires |-> request[r].at + TTL]
<1>1. record[r].status = "absent"
  BY DEF Rows, Reserve
<1>2. /\ \A q \in Requests :
            \/ R[q].status = record[q].status
            \/ R[q].status = "failed" /\ record[q].status = "active"
      /\ R[r].status = "absent"
  BY <1>1 DEF ReapedRecords, Expired, Holding, TypeOK
<1>3. R \in [Requests -> Record]
  BY DEF ReapedRecords, TypeOK, Record, Status
<1>4. \/ record' = R /\ SetPhase(r, "refused")
      \/ record' = [R EXCEPT ![r] = lease] /\ SetPhase(r, "forwarding")
  BY DEF Reserve
<1>5. lease.status = "active"
  OBVIOUS
<1> HIDE DEF R, lease
<1>6. CASE record' = R /\ SetPhase(r, "refused")
  <2>1. Recorded(r, "refused")
    BY <1>2, <1>6 DEF Recorded
  <2> QED
    BY <1>6, <2>1
<1>7. CASE record' = [R EXCEPT ![r] = lease] /\ SetPhase(r, "forwarding")
  <2>1. /\ record'[r].status = "active"
        /\ \A q \in Requests \ {r} : record'[q] = R[q]
    BY <1>3, <1>5, <1>7
  <2>2. Recorded(r, "forwarding")
    BY <1>2, <2>1 DEF Recorded
  <2> QED
    BY <1>7, <2>2
<1> QED
  BY <1>4, <1>6, <1>7

LEMMA OutcomeNext ==
    TypeOK /\ Rows /\ LedgerMatchesOutcome /\ [Next]_vars => LedgerMatchesOutcome'
<1> SUFFICES ASSUME TypeOK, Rows, LedgerMatchesOutcome, [Next]_vars
             PROVE  LedgerMatchesOutcome'
  OBVIOUS
<1>1. ASSUME NEW r \in Requests, Reserve(r) PROVE LedgerMatchesOutcome'
  BY <1>1, ReserveOutcome, MoveKeepsOutcome
<1>2. ASSUME NEW r \in Requests,
             FailUpstream(r) \/ AbortStream(r) \/ CutStream(r)
      PROVE  LedgerMatchesOutcome'
  <2>1. /\ Settle(r, "failed") /\ SetPhase(r, "failed")
        /\ request[r].phase \in InFlight
    BY <1>2 DEF FailUpstream, AbortStream, CutStream, RefreshDue, InFlight
  <2>2. Recorded(r, "failed")
    BY <2>1, SettledOutcome
  <2> QED
    BY <2>1, <2>2, MoveKeepsOutcome
<1>3. ASSUME NEW r \in Requests, FinishStream(r) PROVE LedgerMatchesOutcome'
  <2>1. PICK status \in {"completed", "failed"} : Settle(r, status)
    BY <1>3 DEF FinishStream
  <2>2. SetPhase(r, "delivered") /\ request[r].phase \in InFlight
    BY <1>3 DEF FinishStream, InFlight
  <2>3. Recorded(r, "delivered")
    BY <2>1, <2>2, SettledOutcome
  <2> QED
    BY <2>2, <2>3, MoveKeepsOutcome
<1>4. ASSUME NEW r \in Requests, RefuseForKey(r) PROVE LedgerMatchesOutcome'
  <2>1. SetPhase(r, "refused") /\ Recorded(r, "refused")
    BY <1>4 DEF RefuseForKey, Rows, Recorded
  <2> QED
    BY <2>1, MoveKeepsOutcome
<1>5. ASSUME NEW r \in Requests, PassUnenforced(r) PROVE LedgerMatchesOutcome'
  <2>1. SetPhase(r, "forwarding") /\ Recorded(r, "forwarding")
    BY <1>5 DEF PassUnenforced, Rows, Recorded
  <2> QED
    BY <2>1, MoveKeepsOutcome
<1>6. ASSUME NEW r \in Requests, Crash(r) PROVE LedgerMatchesOutcome'
  <2>1. SetPhase(r, "lost") /\ Recorded(r, "lost")
    BY <1>6 DEF Crash, LedgerMatchesOutcome, InFlight, Recorded
  <2> QED
    BY <2>1, MoveKeepsOutcome
<1>7. ASSUME NEW r \in Requests,
             \/ Arrive(r) \/ StartStream(r) \/ RefreshLease(r)
      PROVE  LedgerMatchesOutcome'
  <2>1. \A q \in Requests : record'[q].status = record[q].status
    BY <1>7 DEF Arrive, StartStream, RefreshLease, TypeOK
  <2>2. /\ \A q \in Requests \ {r} : request'[q].phase = request[q].phase
        /\ \/ request'[r].phase = request[r].phase
           \/ request[r].phase = "new" /\ request'[r].phase = "arrived"
           \/ request[r].phase = "forwarding" /\ request'[r].phase = "streaming"
    BY <1>7 DEF Arrive, StartStream, RefreshLease, TypeOK
  <2> QED
    BY <2>1, <2>2 DEF LedgerMatchesOutcome, InFlight
<1>8. CASE Tick \/ (\E p \in Policies : ChangePolicy(p)) \/ UNCHANGED vars
  BY <1>8 DEF Tick, ChangePolicy, vars, LedgerMatchesOutcome
<1> QED
  BY <1>1, <1>2, <1>3, <1>4, <1>5, <1>6, <1>7, <1>8 DEF Next

\* The ledger agrees with how each request went: "completed" is only written
\* for a response that was relayed to its end, and an active lease belongs to
\* a call that is open or whose worker died.
THEOREM LedgerMatchesOutcomeAlways == Spec => []LedgerMatchesOutcome
<1>1. Init => LedgerMatchesOutcome
  BY DEF Init, LedgerMatchesOutcome, NoRecord
<1>2. TypeOK /\ Rows /\ LedgerMatchesOutcome /\ [Next]_vars
        => LedgerMatchesOutcome'
  BY OutcomeNext
<1> QED
  BY <1>1, <1>2, TypesAndRows, PTL DEF Spec

-----------------------------------------------------------------------------
(* Allowances.                                                             *)

\* The requests of an Access Key that went upstream in one of its periods.
Upstream(k, w) ==
    {r \in Requests : /\ KeyOf[r] = k
                      /\ request[r].phase \notin {"new", "arrived", "refused"}
                      /\ WindowOf(request[r].at, KeyPeriod) = w}

\* Each of them was counted: the usage row of the period is no smaller than
\* their number, and larger when the tenant refused some that it counted.
UpstreamCounted ==
    \A k \in AccessKeys, at \in Time :
        Cardinality(Upstream(k, WindowOf(at, KeyPeriod)))
            <= keyUsed[<<k, WindowOf(at, KeyPeriod)>>]

LEMMA KeyWindowsType ==
    ASSUME NEW k \in AccessKeys, NEW at \in Time
    PROVE  <<k, WindowOf(at, KeyPeriod)>> \in KeyWindows
  BY DEF KeyWindows

\* A step that sends no further request upstream and lowers no usage row.
LEMMA SameUpstream ==
    ASSUME TypeOK, UpstreamCounted,
           \A q \in Requests :
               request'[q].phase \notin {"new", "arrived", "refused"}
                  => /\ request[q].phase \notin {"new", "arrived", "refused"}
                     /\ request'[q].at = request[q].at,
           keyUsed' \in [KeyWindows -> 0..KeyLimit],
           \A kw \in KeyWindows : keyUsed[kw] <= keyUsed'[kw]
    PROVE  UpstreamCounted'
<1> SUFFICES ASSUME NEW k \in AccessKeys, NEW at \in Time
             PROVE  Cardinality(Upstream(k, WindowOf(at, KeyPeriod))')
                       <= keyUsed'[<<k, WindowOf(at, KeyPeriod)>>]
  BY DEF UpstreamCounted
<1> DEFINE w == WindowOf(at, KeyPeriod)
           before == Upstream(k, w)
           after == Upstream(k, w)'
<1>1. after \subseteq before
  BY DEF Upstream
<1>2. before \in SUBSET Requests /\ after \in SUBSET Requests
  BY DEF Upstream
<1>3. Cardinality(after) <= Cardinality(before)
  BY <1>1, <1>2, FiniteCounts, FS_Subset
<1>4. Cardinality(before) \in Nat /\ Cardinality(after) \in Nat
  BY <1>2, FiniteCounts
<1>5. Cardinality(before) <= keyUsed[<<k, w>>]
  BY DEF UpstreamCounted
<1>6. <<k, w>> \in KeyWindows
  BY KeyWindowsType
<1>7. /\ keyUsed[<<k, w>>] \in Nat /\ keyUsed'[<<k, w>>] \in Nat
      /\ keyUsed[<<k, w>>] <= keyUsed'[<<k, w>>]
  BY <1>6, QuotaAssumption DEF TypeOK, QuotaAssumption
<1> HIDE DEF w, before, after
<1> QED
  BY <1>3, <1>4, <1>5, <1>7 DEF w, after

\* A transaction that consumes the key's allowance may send its request on.
LEMMA ConsumedUpstream ==
    ASSUME TypeOK, UpstreamCounted, NEW r \in Requests,
           request[r].phase = "arrived", KeyAllows(r), ConsumeKey(r),
           NEW phase, SetPhase(r, phase)
    PROVE  UpstreamCounted'
<1> SUFFICES ASSUME NEW k \in AccessKeys, NEW at \in Time
             PROVE  Cardinality(Upstream(k, WindowOf(at, KeyPeriod))')
                       <= keyUsed'[<<k, WindowOf(at, KeyPeriod)>>]
  BY DEF UpstreamCounted
<1> DEFINE w == WindowOf(at, KeyPeriod)
           before == Upstream(k, w)
           after == Upstream(k, w)'
           n == keyUsed[<<k, w>>]
<1>1. /\ \A q \in Requests \ {r} : request'[q] = request[q]
      /\ request'[r].at = request[r].at
  BY DEF SetPhase, TypeOK
<1>2. before \in SUBSET Requests /\ after \in SUBSET Requests
  BY DEF Upstream
<1>3. /\ IsFiniteSet(before) /\ IsFiniteSet(after)
      /\ Cardinality(before) \in Nat /\ Cardinality(after) \in Nat
  BY <1>2, FiniteCounts
<1>4. <<k, w>> \in KeyWindows
  BY KeyWindowsType
<1>5. n \in Nat /\ Cardinality(before) <= n
  BY <1>4, QuotaAssumption DEF TypeOK, UpstreamCounted, QuotaAssumption
<1>6. CASE KeyOf[r] = k /\ KeyWindow(r) = <<k, w>>
  <2>1. keyUsed'[<<k, w>>] = n + 1
    BY <1>4, <1>6, QuotaAssumption DEF ConsumeKey, TypeOK, QuotaAssumption
  <2>2. r \notin before
    BY DEF Upstream
  <2>3. after \subseteq before \cup {r}
    BY <1>1 DEF Upstream
  <2>4. /\ IsFiniteSet(before \cup {r})
        /\ Cardinality(before \cup {r}) = Cardinality(before) + 1
    BY <1>3, <2>2, FS_AddElement
  <2>5. Cardinality(after) <= Cardinality(before) + 1
    BY <2>3, <2>4, FS_Subset
  <2> HIDE DEF before, after, n
  <2>6. Cardinality(after) <= n + 1
    BY <1>3, <1>5, <2>5
  <2> QED
    BY <2>1, <2>6 DEF after
<1>7. CASE ~(KeyOf[r] = k /\ KeyWindow(r) = <<k, w>>)
  <2>1. r \notin after
    BY <1>1, <1>7 DEF Upstream, KeyWindow
  <2>2. after \subseteq before
    BY <1>1, <2>1 DEF Upstream
  <2>3. Cardinality(after) <= Cardinality(before)
    BY <1>3, <2>2, FS_Subset
  <2>4. keyUsed'[<<k, w>>] = n
    BY <1>4, <1>7 DEF ConsumeKey, KeyWindow, TypeOK
  <2> HIDE DEF before, after, n
  <2>5. Cardinality(after) <= n
    BY <1>3, <1>5, <2>3
  <2> QED
    BY <2>4, <2>5 DEF after
<1> QED
  BY <1>6, <1>7

LEMMA UpstreamCountedNext ==
    TypeOK /\ UpstreamCounted /\ [Next]_vars => UpstreamCounted'
<1> SUFFICES ASSUME TypeOK, UpstreamCounted, [Next]_vars
             PROVE  UpstreamCounted'
  OBVIOUS
<1>0. /\ keyUsed \in [KeyWindows -> 0..KeyLimit]
      /\ \A kw \in KeyWindows : keyUsed[kw] <= keyUsed[kw]
  BY QuotaAssumption DEF TypeOK, QuotaAssumption
<1>1. ASSUME NEW r \in Requests, PassUnenforced(r) \/ Reserve(r)
      PROVE  UpstreamCounted'
  BY <1>1, ConsumedUpstream DEF PassUnenforced, Reserve
<1>2. ASSUME NEW r \in Requests, NEW phase,
             \/ phase = "refused"
             \/ request[r].phase \notin {"new", "arrived", "refused"},
             SetPhase(r, phase), UNCHANGED keyUsed
      PROVE  UpstreamCounted'
  <2>1. \A q \in Requests :
          request'[q].phase \notin {"new", "arrived", "refused"}
             => /\ request[q].phase \notin {"new", "arrived", "refused"}
                /\ request'[q].at = request[q].at
    BY <1>2 DEF SetPhase, TypeOK
  <2> QED
    BY <1>0, <1>2, <2>1, SameUpstream
<1>3. ASSUME NEW r \in Requests,
             \/ RefuseForKey(r) \/ FailUpstream(r) \/ AbortStream(r)
             \/ FinishStream(r) \/ CutStream(r) \/ Crash(r)
      PROVE  UpstreamCounted'
  BY <1>2, <1>3 DEF RefuseForKey, FailUpstream, AbortStream, FinishStream,
     CutStream, Crash, RefreshDue, InFlight
<1>4. ASSUME NEW r \in Requests,
             Arrive(r) \/ StartStream(r) \/ RefreshLease(r)
      PROVE  UpstreamCounted'
  <2>1. UNCHANGED keyUsed
    BY <1>4 DEF Arrive, StartStream, RefreshLease
  <2>2. \A q \in Requests :
          request'[q].phase \notin {"new", "arrived", "refused"}
             => /\ request[q].phase \notin {"new", "arrived", "refused"}
                /\ request'[q].at = request[q].at
    BY <1>4 DEF Arrive, StartStream, RefreshLease, RefreshDue, TypeOK
  <2> QED
    BY <1>0, <2>1, <2>2, SameUpstream
<1>5. CASE Tick \/ (\E p \in Policies : ChangePolicy(p)) \/ UNCHANGED vars
  <2>1. UNCHANGED <<request, keyUsed>>
    BY <1>5 DEF Tick, ChangePolicy, vars
  <2> QED
    BY <1>0, <2>1, SameUpstream
<1> QED
  BY <1>1, <1>3, <1>4, <1>5 DEF Next

LEMMA UpstreamCountedInit == Init => UpstreamCounted
<1> SUFFICES ASSUME Init, NEW k \in AccessKeys, NEW at \in Time
             PROVE  Cardinality(Upstream(k, WindowOf(at, KeyPeriod)))
                       <= keyUsed[<<k, WindowOf(at, KeyPeriod)>>]
  BY DEF UpstreamCounted
<1>1. Upstream(k, WindowOf(at, KeyPeriod)) = {}
  BY DEF Init, Upstream
<1>2. keyUsed[<<k, WindowOf(at, KeyPeriod)>>] = 0
  BY KeyWindowsType DEF Init
<1> QED
  BY <1>1, <1>2, FS_EmptySet

\* No Access Key sends more requests upstream in one of its periods than its
\* request_limit: reserve_access_key_request tests the allowance and consumes
\* it in one UPDATE, in the transaction that lets the request pass.
THEOREM KeyAllowanceHeldAlways == Spec => []KeyAllowanceHeld
<1>1. TypeOK /\ UpstreamCounted => KeyAllowanceHeld
  <2> SUFFICES ASSUME TypeOK, UpstreamCounted, NEW k \in AccessKeys,
                      NEW at \in Time
               PROVE  Cardinality(Upstream(k, WindowOf(at, KeyPeriod)))
                         <= KeyLimit
    BY DEF KeyAllowanceHeld, Upstream
  <2> DEFINE w == WindowOf(at, KeyPeriod)
  <2>1. keyUsed[<<k, w>>] \in 0..KeyLimit /\ KeyLimit \in Nat
    BY KeyWindowsType, QuotaAssumption DEF TypeOK, QuotaAssumption
  <2>2. Cardinality(Upstream(k, w)) <= keyUsed[<<k, w>>]
    BY DEF UpstreamCounted
  <2>3. Cardinality(Upstream(k, w)) \in Nat
    BY FiniteCounts DEF Upstream
  <2> QED
    BY <2>1, <2>2, <2>3
<1>2. TypeOK /\ UpstreamCounted /\ [Next]_vars => UpstreamCounted'
  BY UpstreamCountedNext
<1> QED
  BY <1>1, <1>2, UpstreamCountedInit, TypeCorrect, PTL DEF Spec

-----------------------------------------------------------------------------
(* Refusals.                                                               *)

\* What a reservation that finds no room has counted: the requests charged to
\* the window and the leases in it that have not expired.
LEMMA RefusalCounts ==
    ASSUME TypeOK, WindowConserved, NEW w \in Windows, NEW at \in Time
    PROVE  LET counters == ReapedWindow(w, Cardinality(Expired(w, at)))
           IN /\ counters.reserved = Cardinality(Reserved(w))
              /\ counters.active = Cardinality({q \in Holding(w, "active") :
                                                  record[q].expires > at})
              /\ counters.reserved \in Nat /\ counters.active \in Nat
<1> DEFINE gone == Expired(w, at)
           n == Cardinality(gone)
           W == [window EXCEPT ![w] = ReapedWindow(w, n)]
           R == ReapedRecords(gone)
<1>1. gone \in SUBSET Held(record, w, "active")
  BY DEF Expired, Holding, Held
<1>2. \A v \in Windows : Counts(W, R, v)
  BY <1>1, ReapConserves
<1>3. W[w] = ReapedWindow(w, n)
  BY DEF TypeOK
<1>4. \A q \in Requests :
        /\ R[q].window = record[q].window
        /\ R[q].status = IF q \in gone THEN "failed" ELSE record[q].status
  BY DEF ReapedRecords, TypeOK
<1>5. \A q \in Requests : record[q].expires \in Nat
  BY DEF TypeOK
<1>6. at \in Nat
  BY DEF Time
<1> HIDE DEF R, W
<1>7. Charged(R, w) = Reserved(w)
  BY <1>4 DEF Charged, Reserved
<1>8. Held(R, w, "active")
         = {q \in Holding(w, "active") : record[q].expires > at}
  BY <1>4, <1>5, <1>6 DEF Held, Holding, Expired
<1>9. /\ Cardinality(Charged(R, w)) \in Nat
      /\ Cardinality(Held(R, w, "active")) \in Nat
  BY FiniteCounts DEF Charged, Held
<1>10. /\ W[w].reserved = Cardinality(Charged(R, w))
       /\ W[w].active = Cardinality(Held(R, w, "active"))
  BY <1>2 DEF Counts
<1> QED
  BY <1>3, <1>7, <1>8, <1>9, <1>10

\* Only a reservation turns away a request whose Access Key allows it.
LEMMA RefusedByReservation ==
    ASSUME TypeOK, [Next]_vars, NEW r \in Requests,
           request[r].phase = "arrived", request'[r].phase = "refused",
           KeyAllows(r)
    PROVE  Reserve(r)
<1>1. ASSUME NEW q \in Requests, q # r, NEW phase, SetPhase(q, phase)
      PROVE  request'[r] = request[r]
  BY <1>1 DEF SetPhase, TypeOK
<1>2. ASSUME NEW q \in Requests,
             \/ Arrive(q) \/ StartStream(q) \/ RefreshLease(q)
      PROVE  FALSE
  BY <1>2 DEF Arrive, StartStream, RefreshLease, RefreshDue, TypeOK
<1>3. ASSUME NEW q \in Requests, q # r,
             \/ RefuseForKey(q) \/ PassUnenforced(q) \/ Reserve(q)
             \/ FailUpstream(q) \/ AbortStream(q) \/ FinishStream(q)
             \/ CutStream(q) \/ Crash(q)
      PROVE  FALSE
  BY <1>1, <1>3 DEF RefuseForKey, PassUnenforced, Reserve, FailUpstream,
     AbortStream, FinishStream, CutStream, Crash
<1>4. ~RefuseForKey(r)
  BY DEF RefuseForKey
<1>5. ~PassUnenforced(r)
  BY DEF PassUnenforced, SetPhase, TypeOK
<1>6. ~(\/ FailUpstream(r) \/ AbortStream(r) \/ FinishStream(r)
        \/ CutStream(r) \/ Crash(r))
  BY DEF FailUpstream, AbortStream, FinishStream, CutStream, Crash,
     RefreshDue, InFlight
<1>7. ~(Tick \/ (\E p \in Policies : ChangePolicy(p)) \/ UNCHANGED vars)
  BY DEF Tick, ChangePolicy, vars
<1> QED
  BY <1>2, <1>3, <1>4, <1>5, <1>6, <1>7 DEF Next

\* A tenant is turned away only when its window is really full: the request
\* limit is used up by reservations made in it, or the concurrency limit by
\* leases that had not expired when the request arrived.  Leases of dead
\* workers that expired are reaped before the condition is tested.
THEOREM RefusalsAreJustifiedAlways == Spec => RefusalsAreJustified
<1> DEFINE Justified(r) ==
             LET w == WindowOf(request[r].at, policy.period)
             IN \/ Cardinality(Reserved(w)) >= policy.request_limit
                \/ Cardinality({q \in Holding(w, "active") :
                                  record[q].expires > request[r].at})
                     >= policy.concurrency_limit
<1>1. ASSUME TypeOK, WindowConserved, [Next]_vars, NEW r \in Requests,
             request[r].phase = "arrived", request'[r].phase = "refused",
             KeyAllows(r)
      PROVE  Justified(r)
  <2> DEFINE at == request[r].at
             w == WindowOf(at, policy.period)
             counters == ReapedWindow(w, Cardinality(Expired(w, at)))
  <2>1. Reserve(r)
    BY <1>1, RefusedByReservation
  <2>2. ~SetPhase(r, "forwarding")
    BY <1>1 DEF SetPhase, TypeOK
  <2>3. ~Fits(counters, policy)
    BY <2>1, <2>2 DEF Reserve
  <2>4. w \in Windows /\ at \in Time
    BY <1>1, WindowOfType DEF TypeOK
  <2>5. /\ counters.reserved = Cardinality(Reserved(w))
        /\ counters.active = Cardinality({q \in Holding(w, "active") :
                                            record[q].expires > at})
        /\ counters.reserved \in Nat /\ counters.active \in Nat
    BY <1>1, <2>4, RefusalCounts
  <2>6. policy.request_limit \in Nat /\ policy.concurrency_limit \in Nat
    BY <1>1, QuotaAssumption DEF TypeOK, QuotaAssumption, QuotaPolicy
  <2> HIDE DEF counters
  <2>7. \/ counters.reserved >= policy.request_limit
        \/ counters.active >= policy.concurrency_limit
    BY <2>3, <2>5, <2>6 DEF Fits
  <2> QED
    BY <2>5, <2>7
<1>2. TypeOK /\ WindowConserved /\ [Next]_vars
        => [\A r \in Requests :
              LET w == WindowOf(request[r].at, policy.period)
              IN /\ request[r].phase = "arrived"
                 /\ request'[r].phase = "refused"
                 /\ KeyAllows(r)
                 => \/ Cardinality(Reserved(w)) >= policy.request_limit
                    \/ Cardinality({q \in Holding(w, "active") :
                                      record[q].expires > request[r].at})
                         >= policy.concurrency_limit]_vars
  BY <1>1
<1> QED
  BY <1>2, TypeCorrect, WindowConservedAlways, PTL
     DEF Spec, RefusalsAreJustified

=============================================================================
