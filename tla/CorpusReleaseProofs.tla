------------------------ MODULE CorpusReleaseProofs -------------------------
(***************************************************************************)
(* Theorems about CorpusRelease for any number of processes, manifests and *)
(* kinds of derived build: what is sealed is whole, and stays sealed and   *)
(* as it is, the release follows its builds, what is served is sealed, and *)
(* a cut-over replaces what its operator saw.                              *)
(*                                                                         *)
(* The argument: the lock gives each build at most one command, and a      *)
(* command only ever writes a build it has found, or made, unsealed.  An   *)
(* import has stored exactly the papers before the one it is at; and while *)
(* no two imports were at work at once, what stands in the way of a file,  *)
(* torn or complete, is never renamed before it is verified.               *)
(***************************************************************************)
EXTENDS CorpusRelease, TLAPS

USE CorpusAssumption DEF CorpusAssumption

Early == {"check", "register", "prepare"}
OfImports == {"check", "register", "look", "write", "verify", "replace", "store"}
OfDerived == {"prepare", "fill"}

Command == [at : Stages, job : Jobs, row : Nat]

\* A command that has not left the rows of its manifest.
InRange(k) == k.row \in 0..Len(Rows[k.job[2]])

\* What a command k knows of the builds b and their rows r: which kind it
\* works on, that its build is not sealed, and where a derived one comes from.
Knows(k, b, r) ==
    /\ k.at \in OfImports => k.job[1] = "relational"
    /\ k.at \in OfDerived => k.job[1] \in Derived
    /\ k.at \in Early \cup {"fill"} => k.row = 0
    /\ k.at = "register" => b[k.job] # "sealed"
    /\ k.at \notin Early => b[k.job] = "running"
    /\ k.job[1] \in Derived => b[Import(k.job[2])] = "sealed"
    /\ k.at = "seal" /\ k.job[1] \in Derived => r[k.job] = r[Import(k.job[2])]

\* The lock: no two commands work on one build.
Alone ==
    \A v, w \in Workers : Busy(v) /\ Busy(w) /\ Job(v) = Job(w) => v = w

\* A sealed derived build has the rows of a sealed relational build.
DerivedFromSealed ==
    \A j \in Jobs : j[1] \in Derived /\ Sealed(j) =>
        Sealed(Import(j[2])) /\ rows[j] = rows[Import(j[2])]

SnapshotsSealed ==
    \A s \in snapshots :
        /\ s.relational \in Manifests
        /\ Sealed(Import(s.relational))
        /\ \A j \in s.derived :
              /\ j \in Derived \X Manifests
              /\ j[2] = s.relational
              /\ Sealed(j)

IInv ==
    /\ Alone
    /\ \A w \in Workers : Busy(w) => Knows(worker[w], build, rows)
    /\ ReleaseFollowsBuilds
    /\ DerivedFromSealed
    /\ SnapshotsSealed
    /\ channel.revision > 0 => channel.snapshot \in snapshots

SealedKept ==
    \A j \in Jobs : Sealed(j) => build'[j] = "sealed" /\ rows'[j] = rows[j]

-----------------------------------------------------------------------------
(* Types.                                                                  *)

LEMMA ImportIsJob == \A m \in Manifests : Import(m) \in Jobs
  BY DEF Import, Jobs

LEMMA ItemTyped ==
    ASSUME NEW m \in Manifests, NEW n \in 0..Len(Rows[m])
    PROVE  Item(m, n) \in Items
<1>1. Rows[m] \in Seq(Papers)
  OBVIOUS
<1>2. CASE n = 0
  BY <1>2 DEF Item, Items
<1>3. CASE n # 0
  BY <1>1, <1>3 DEF Item, Items
<1>. QED
  BY <1>2, <1>3

LEMMA BusyTyped ==
    ASSUME TypeOK, NEW w \in Workers, Busy(w)
    PROVE  /\ worker[w] \in Command /\ InRange(worker[w])
           /\ Job(w) \in Jobs /\ Manifest(w) \in Manifests
           /\ Target(w) \in Items /\ Expected(w) \in Versions
<1>1. worker[w] \in Command
  BY DEF TypeOK, Busy, Idle, Command
<1>2. InRange(worker[w])
  BY DEF TypeOK, Busy, InRange
<1>3. Job(w) \in Jobs /\ Manifest(w) \in Manifests
  BY <1>1 DEF Command, Job, Manifest, Jobs
<1>4. Target(w) \in Items
  BY <1>1, <1>2, <1>3, ItemTyped DEF Target, InRange, Command, Manifest
<1>. QED
  BY <1>1, <1>2, <1>3, <1>4 DEF Expected

WorkersTyped ==
    /\ worker \in [Workers -> {Idle} \cup Command]
    /\ \A w \in Workers : Busy(w) => InRange(worker[w])

\* A step that leaves process w with the command k, or idle.
Leaves(w, k) ==
    /\ k = Idle \/ (k \in Command /\ InRange(k))
    /\ worker' = [worker EXCEPT ![w] = k]

LEMMA LeavesTyped ==
    ASSUME TypeOK, NEW w \in Workers, NEW k, Leaves(w, k)
    PROVE  WorkersTyped'
<1>1. worker \in [Workers -> {Idle} \cup Command]
  BY DEF TypeOK, Command
<1>2. worker' \in [Workers -> {Idle} \cup Command]
  BY <1>1 DEF Leaves
<1>3. ASSUME NEW v \in Workers, Busy(v)'
      PROVE  InRange(worker'[v])
  <2>1. CASE v = w
    BY <1>1, <1>3, <2>1 DEF Leaves, Busy, Idle
  <2>2. CASE v # w
    BY <1>1, <1>3, <2>2 DEF Leaves, Busy, TypeOK, InRange
  <2>. QED
    BY <2>1, <2>2
<1>. QED
  BY <1>2, <1>3 DEF WorkersTyped

\* The forms in which the steps set a worker.
LEMMA GotoLeaves ==
    ASSUME TypeOK, NEW w \in Workers, Busy(w), NEW stage \in Stages,
           Goto(w, stage)
    PROVE  Leaves(w, [at |-> stage, job |-> Job(w), row |-> worker[w].row])
<1>1. worker[w] \in Command /\ InRange(worker[w])
  BY BusyTyped
<1>2. [worker[w] EXCEPT !.at = stage]
        = [at |-> stage, job |-> Job(w), row |-> worker[w].row]
  BY <1>1 DEF Command, Job
<1>. QED
  BY <1>1, <1>2 DEF Goto, Leaves, Command, Job, InRange

LEMMA LeaveLeaves ==
    ASSUME NEW w \in Workers, Leave(w)
    PROVE  Leaves(w, Idle)
  BY DEF Leave, Leaves

LEMMA CopiedLeaves ==
    ASSUME TypeOK, NEW w \in Workers, Busy(w), Copied(w)
    PROVE  IF worker[w].row = 0
           THEN Leaves(w, [at |-> "look", job |-> Job(w), row |-> 1])
           ELSE Leaves(w, [at |-> "store", job |-> Job(w), row |-> worker[w].row])
<1>1. worker[w] \in Command /\ InRange(worker[w]) /\ Manifest(w) \in Manifests
  BY BusyTyped
<1>2. Rows[Manifest(w)] \in Seq(Papers) /\ Rows[Manifest(w)] # <<>>
  BY <1>1
<1>3. 1 \in 0..Len(Rows[Manifest(w)])
  BY <1>2
<1>4. CASE worker[w].row = 0
  <2>3. [at |-> "look", job |-> Job(w), row |-> 1] \in Command
    BY <1>1 DEF Command, Job, Stages
  <2>4. InRange([at |-> "look", job |-> Job(w), row |-> 1])
    BY <1>3 DEF InRange, Job, Manifest
  <2>. QED
    BY <1>4, <2>3, <2>4 DEF Copied, GotoItem, Leaves
<1>5. CASE worker[w].row # 0
  BY <1>5, GotoLeaves DEF Copied, Stages
<1>. QED
  BY <1>4, <1>5

LEMMA GotoItemLeaves ==
    ASSUME TypeOK, NEW w \in Workers, Busy(w),
           NEW n \in 0..Len(Rows[Manifest(w)]), GotoItem(w, n)
    PROVE  Leaves(w, [at |-> "look", job |-> Job(w), row |-> n])
<1>1. Job(w) \in Jobs /\ Rows[Manifest(w)] \in Seq(Papers)
  BY BusyTyped
<1>2. [at |-> "look", job |-> Job(w), row |-> n] \in Command
  BY <1>1 DEF Command, Stages
<1>3. InRange([at |-> "look", job |-> Job(w), row |-> n])
  BY DEF InRange, Job, Manifest
<1>. QED
  BY <1>2, <1>3 DEF GotoItem, Leaves

RestTyped ==
    /\ release \in [status : {"none", "importing", "sealed", "failed"},
                    manifest : Manifests \cup {"none"}]
    /\ build \in [Jobs -> Statuses]
    /\ rows \in [Jobs -> SUBSET (Items \X (Versions \cup {"absent", "torn"}))]
    /\ file \in [Items -> Versions \cup {"absent", "torn"}]
    /\ partial \in [Items -> Versions \cup {"absent", "torn"}]
    /\ started \in 0..MaxCommands
    /\ snapshots \subseteq Snapshots
    /\ channel \in Channels
    /\ seen \in [read : BOOLEAN, channel : Channels]
    /\ contended \in BOOLEAN

LEMMA TypesTogether == TypeOK <=> WorkersTyped /\ RestTyped
  BY DEF TypeOK, WorkersTyped, RestTyped, Command, Busy, InRange

LEMMA TypesTogetherNext == TypeOK' <=> WorkersTyped' /\ RestTyped'
  BY DEF TypeOK, WorkersTyped, RestTyped, Command, Busy, InRange

\* Wherever an error leads, the worker stays typed.
LEMMA AbandonLeaves ==
    ASSUME TypeOK, NEW w \in Workers, Busy(w), Abandon(w)
    PROVE  \E k : Leaves(w, k)
<1>1. CASE Recovers(w)
  BY <1>1, GotoLeaves DEF Abandon, Stages
<1>2. CASE ~Recovers(w)
  BY <1>2, LeaveLeaves DEF Abandon
<1>. QED
  BY <1>1, <1>2

LEMMA StepTyped ==
    ASSUME TypeOK, NEW w \in Workers, Step(w)
    PROVE  TypeOK'
<1>. USE TypesTogether, TypesTogetherNext
<1>a. \A k : Leaves(w, k) => WorkersTyped'
  BY LeavesTyped
<1>b. Busy(w) => /\ Job(w) \in Jobs /\ Target(w) \in Items /\ Expected(w) \in Versions
                 /\ worker[w] \in Command /\ InRange(worker[w])
                 /\ Manifest(w) \in Manifests
  BY BusyTyped
<1>c. RestTyped
  OBVIOUS
<1>d. \A stage \in Stages : Busy(w) /\ Goto(w, stage) => WorkersTyped'
  BY <1>a, GotoLeaves
<1>e. Leave(w) => WorkersTyped'
  BY <1>a, LeaveLeaves
<1>f. Busy(w) /\ Abandon(w) => WorkersTyped'
  BY <1>a, AbandonLeaves
<1>g. Busy(w) /\ Copied(w) => WorkersTyped'
  BY <1>a, CopiedLeaves
<1>1. ASSUME NEW j \in Jobs, Begin(w, j) PROVE TypeOK'
  <2>1. Leaves(w, [at |-> IF j[1] \in Derived THEN "prepare" ELSE "check",
                   job |-> j, row |-> 0])
    <3>1. Rows[j[2]] \in Seq(Papers)
      BY DEF Jobs
    <3>. QED
      BY <1>1, <3>1 DEF Begin, Leaves, Command, InRange, Stages
  <2>2. RestTyped'
    BY <1>1, <1>c DEF Begin, RestTyped, serving, history
  <2>. QED
    BY <2>1, <2>2, <1>a
<1>2. ASSUME Refuse(w) \/ FindSealed(w) PROVE TypeOK'
  <2>1. RestTyped'
    BY <1>2, <1>c DEF Refuse, FindSealed, RestTyped, serving, history
  <2>. QED
    BY <1>2, <2>1, <1>e DEF Refuse, FindSealed
<1>3. ASSUME Proceed(w) PROVE TypeOK'
  <2>1. RestTyped'
    BY <1>3, <1>c DEF Proceed, RestTyped, serving, history
  <2>. QED
    BY <1>3, <2>1, <1>d DEF Proceed, At, Busy, Stages
<1>4. ASSUME Register(w) PROVE TypeOK'
  <2>1. Busy(w)
    BY <1>4 DEF Register, At, Busy
  <2>2. release' \in [status : {"none", "importing", "sealed", "failed"},
                      manifest : Manifests \cup {"none"}]
    BY <1>4, <1>b, <1>c, <2>1 DEF Register, RestTyped
  <2>3. RestTyped'
    BY <1>4, <1>b, <1>c, <2>1, <2>2 DEF Register, RestTyped, serving, Statuses
  <2>. QED
    BY <1>4, <2>1, <2>3, <1>d DEF Register, Stages
<1>5. ASSUME Look(w) PROVE TypeOK'
  <2>1. RestTyped'
    BY <1>5, <1>c DEF Look, RestTyped, serving, history
  <2>. QED
    BY <1>5, <2>1, <1>d, <1>g DEF Look, At, Busy, Stages
<1>6. ASSUME Write(w) PROVE TypeOK'
  <2>1. Busy(w)
    BY <1>6 DEF Write, At, Busy
  <2>2. RestTyped'
    BY <1>6, <1>b, <1>c, <2>1 DEF Write, RestTyped, serving, history
  <2>. QED
    BY <1>6, <2>1, <2>2, <1>d DEF Write, Stages
<1>7. ASSUME Verify(w) PROVE TypeOK'
  <2>1. RestTyped'
    BY <1>7, <1>c DEF Verify, RestTyped, serving, history
  <2>. QED
    BY <1>7, <2>1, <1>d DEF Verify, At, Busy, Stages
<1>8. ASSUME RejectCopy(w) PROVE TypeOK'
  <2>1. Busy(w)
    BY <1>8 DEF RejectCopy, At, Busy
  <2>2. RestTyped'
    BY <1>8, <1>b, <1>c, <2>1 DEF RejectCopy, RestTyped, serving, history
  <2>. QED
    BY <1>8, <2>1, <2>2, <1>f DEF RejectCopy
<1>9. ASSUME Replace(w) PROVE TypeOK'
  <2>1. Busy(w)
    BY <1>9 DEF Replace, At, Busy
  <2>2. RestTyped'
    BY <1>9, <1>b, <1>c, <2>1 DEF Replace, RestTyped, serving, history
  <2>. QED
    BY <1>9, <2>1, <2>2, <1>g DEF Replace
<1>10. ASSUME Store(w) PROVE TypeOK'
  <2>1. Busy(w)
    BY <1>10 DEF Store, At, Busy
  <2>2. <<Target(w), file[Target(w)]>> \in Items \X (Versions \cup {"absent", "torn"})
    BY <1>b, <1>c, <2>1 DEF RestTyped
  <2>3. RestTyped'
    BY <1>10, <1>b, <1>c, <2>1, <2>2 DEF Store, RestTyped, serving, history
  <2>4. CASE worker[w].row = Len(Rows[Manifest(w)])
    BY <1>10, <2>1, <2>3, <2>4, <1>d DEF Store, Stages
  <2>5. CASE worker[w].row # Len(Rows[Manifest(w)])
    <3>1. Rows[Manifest(w)] \in Seq(Papers)
      BY <1>b, <2>1
    <3>2. worker[w].row + 1 \in 0..Len(Rows[Manifest(w)])
      BY <1>b, <2>1, <2>5, <3>1 DEF InRange, Manifest, Command
    <3>. QED
      BY <1>10, <2>1, <2>3, <2>5, <3>2, <1>a, GotoItemLeaves DEF Store
  <2>. QED
    BY <2>4, <2>5
<1>11. ASSUME Prepare(w) PROVE TypeOK'
  <2>1. Busy(w)
    BY <1>11 DEF Prepare, At, Busy
  <2>2. RestTyped'
    BY <1>11, <1>b, <1>c, <2>1 DEF Prepare, RestTyped, serving, Statuses
  <2>. QED
    BY <1>11, <2>1, <2>2, <1>d, <1>e DEF Prepare, Stages
<1>12. ASSUME Fill(w) PROVE TypeOK'
  <2>1. Busy(w)
    BY <1>12 DEF Fill, At, Busy
  <2>2. RestTyped'
    BY <1>12, <1>b, <1>c, <2>1, ImportIsJob DEF Fill, RestTyped, serving, history
  <2>. QED
    BY <1>12, <2>1, <2>2, <1>d DEF Fill, Stages
<1>13. ASSUME Seal(w) \/ Fail(w) PROVE TypeOK'
  <2>1. Busy(w)
    BY <1>13 DEF Seal, Fail, At, Busy
  <2>2. release' \in [status : {"none", "importing", "sealed", "failed"},
                      manifest : Manifests \cup {"none"}]
    BY <1>13, <1>c DEF Seal, Fail, RestTyped
  <2>3. RestTyped'
    BY <1>13, <1>b, <1>c, <2>1, <2>2
       DEF Seal, Fail, RestTyped, serving, history, Statuses
  <2>. QED
    BY <1>13, <2>3, <1>e DEF Seal, Fail
<1>14. ASSUME Raise(w) PROVE TypeOK'
  <2>1. RestTyped'
    BY <1>14, <1>c DEF Raise, RestTyped, serving, history
  <2>. QED
    BY <1>14, <2>1, <1>f DEF Raise
<1>15. ASSUME FailUnrecorded(w) \/ Crash(w) PROVE TypeOK'
  <2>1. Busy(w)
    BY <1>15 DEF FailUnrecorded, Crash, At, Busy
  <2>2. RestTyped'
    BY <1>15, <1>b, <1>c, <2>1 DEF FailUnrecorded, Crash, RestTyped, serving
  <2>. QED
    BY <1>15, <2>2, <1>e DEF FailUnrecorded, Crash
<1>. QED
  BY <1>1, <1>2, <1>3, <1>4, <1>5, <1>6, <1>7, <1>8, <1>9, <1>10, <1>11, <1>12,
     <1>13, <1>14, <1>15 DEF Step

LEMMA ServingTyped ==
    ASSUME TypeOK,
           \/ \E s \in Requests : CreateSnapshot(s)
           \/ ReadChannel
           \/ \E s \in snapshots, expected \in BOOLEAN : Activate(s, expected)
    PROVE  TypeOK'
<1>1. ASSUME NEW s \in Requests, CreateSnapshot(s) PROVE TypeOK'
  <2>1. s \in Snapshots
    BY DEF Requests, Snapshots, Jobs
  <2>. QED
    BY <1>1, <2>1 DEF CreateSnapshot, TypeOK, pipeline, history
<1>2. ASSUME ReadChannel PROVE TypeOK'
  BY <1>2 DEF ReadChannel, TypeOK, pipeline, history
<1>3. ASSUME NEW s \in snapshots, NEW expected \in BOOLEAN, Activate(s, expected)
      PROVE  TypeOK'
  <2>1. channel' \in Channels
    BY <1>3 DEF Activate, TypeOK, Channels
  <2>2. seen' \in [read : BOOLEAN, channel : Channels]
    BY <1>3 DEF Activate, TypeOK
  <2>. QED
    BY <1>3, <2>1, <2>2 DEF Activate, TypeOK, pipeline, history
<1>. QED
  BY <1>1, <1>2, <1>3

LEMMA TypeNext == TypeOK /\ [Next]_vars => TypeOK'
<1>1. ASSUME TypeOK, UNCHANGED vars PROVE TypeOK'
  BY <1>1 DEF vars, pipeline, serving, history, TypeOK
<1>. QED
  BY <1>1, StepTyped, ServingTyped DEF Next

LEMMA TypeInit == Init => TypeOK
<1>. SUFFICES ASSUME Init PROVE TypeOK
  OBVIOUS
<1>1. channel \in Channels
  BY DEF Init, Channels
<1>2. WorkersTyped
  BY DEF Init, WorkersTyped, Busy, Idle
<1>3. release \in [status : {"none", "importing", "sealed", "failed"},
                   manifest : Manifests \cup {"none"}]
  BY DEF Init
<1>4. seen \in [read : BOOLEAN, channel : Channels]
  BY <1>1 DEF Init
<1>5. rows \in [Jobs -> SUBSET (Items \X (Versions \cup {"absent", "torn"}))]
  BY DEF Init
<1>6. build \in [Jobs -> Statuses]
  BY DEF Init, Statuses
<1>7. /\ file \in [Items -> Versions \cup {"absent", "torn"}]
      /\ partial \in [Items -> Versions \cup {"absent", "torn"}]
  BY DEF Init
<1>8. started \in 0..MaxCommands
  BY DEF Init
<1>9. snapshots \subseteq Snapshots /\ contended \in BOOLEAN
  BY DEF Init
<1>10. RestTyped
  BY <1>1, <1>3, <1>4, <1>5, <1>6, <1>7, <1>8, <1>9 DEF RestTyped
<1>. QED
  BY <1>2, <1>10, TypesTogether

\* Releases, builds, files, workers, snapshots and the channel are well typed
\* in every reachable state.
THEOREM TypeCorrect == Spec => []TypeOK
  BY TypeInit, TypeNext, PTL DEF Spec

-----------------------------------------------------------------------------
(* The two ways in which a command's step can preserve the invariant.      *)

\* What process v does after a step that leaves process w with the command k.
LEMMA OthersStay ==
    ASSUME TypeOK, NEW w \in Workers, NEW k, Leaves(w, k)
    PROVE  /\ worker'[w] = k
           /\ \A v \in Workers : v # w => worker'[v] = worker[v]
  BY DEF TypeOK, Leaves

LEMMA StillAlone ==
    ASSUME TypeOK, Alone, NEW w \in Workers, NEW k, Leaves(w, k),
           k # Idle => (Busy(w) /\ k.job = Job(w)) \/ Free(k.job)
    PROVE  Alone'
<1>. SUFFICES ASSUME NEW u \in Workers, NEW v \in Workers,
                     Busy(u)', Busy(v)', Job(u)' = Job(v)'
              PROVE  u = v
  BY DEF Alone
<1>1. worker'[w] = k /\ \A x \in Workers : x # w => worker'[x] = worker[x]
  BY OthersStay
<1>2. CASE u # w /\ v # w
  BY <1>1, <1>2 DEF Alone, Busy, Job
<1>3. ASSUME NEW x \in Workers, x # w, Busy(x)', Busy(w)', Job(x)' = Job(w)'
      PROVE  FALSE
  <2>1. k # Idle /\ Busy(x) /\ Job(x) = k.job
    BY <1>1, <1>3 DEF Busy, Job, Idle
  <2>. QED
    BY <1>3, <2>1 DEF Alone, Free
<1>. QED
  BY <1>2, <1>3

\* A step that changes no table.
LEMMA Move ==
    ASSUME TypeOK, IInv, NEW w \in Workers, NEW k, Leaves(w, k),
           k # Idle => /\ Knows(k, build, rows)
                       /\ (Busy(w) /\ k.job = Job(w)) \/ Free(k.job),
           UNCHANGED <<release, build, rows, serving>>
    PROVE  IInv' /\ SealedKept
<1>1. Alone'
  BY StillAlone DEF IInv
<1>2. ASSUME NEW v \in Workers, Busy(v)'
      PROVE  Knows(worker'[v], build', rows')
  <2>1. worker'[w] = k /\ \A x \in Workers : x # w => worker'[x] = worker[x]
    BY OthersStay
  <2>2. CASE v = w
    BY <1>2, <2>1, <2>2 DEF Busy, Idle
  <2>3. CASE v # w
    BY <1>2, <2>1, <2>3 DEF Busy, IInv
  <2>. QED
    BY <2>2, <2>3
<1>3. ReleaseFollowsBuilds'
  BY DEF IInv, ReleaseFollowsBuilds, Sealed
<1>4. DerivedFromSealed'
  BY DEF IInv, DerivedFromSealed, Sealed
<1>5. SnapshotsSealed'
  BY DEF IInv, SnapshotsSealed, Sealed, serving
<1>7. (channel.revision > 0 => channel.snapshot \in snapshots)'
  BY DEF IInv, serving
<1>6. SealedKept
  BY DEF SealedKept, Sealed
<1>. QED
  BY <1>1, <1>2, <1>3, <1>4, <1>5, <1>6, <1>7 DEF IInv

\* If a derived build is given this status, it has the content it must have.
Rightly(w, status, content) ==
    status = "sealed" /\ Job(w)[1] \in Derived =>
        Sealed(Import(Manifest(w))) /\ content = rows[Import(Manifest(w))]

\* A step that writes the unsealed build of its command.
LEMMA Change ==
    ASSUME TypeOK, IInv, NEW w \in Workers, Busy(w), ~Sealed(Job(w)),
           NEW k, Leaves(w, k),
           NEW status, build' = [build EXCEPT ![Job(w)] = status],
           NEW content, rows' = [rows EXCEPT ![Job(w)] = content],
           k # Idle => k.job = Job(w) /\ Knows(k, build', rows'),
           Rightly(w, status, content),
           ReleaseFollowsBuilds',
           UNCHANGED serving
    PROVE  IInv' /\ SealedKept
<1>1. Alone'
  BY StillAlone DEF IInv
<1>2. Job(w) \in Jobs /\ Manifest(w) = Job(w)[2]
  BY BusyTyped DEF Manifest, Job
<1>3. /\ build'[Job(w)] = status /\ rows'[Job(w)] = content
      /\ \A j \in Jobs : j # Job(w) => build'[j] = build[j] /\ rows'[j] = rows[j]
  BY <1>2 DEF TypeOK
<1>4. SealedKept
  BY <1>3 DEF SealedKept, Sealed
<1>5. ASSUME NEW v \in Workers, Busy(v)'
      PROVE  Knows(worker'[v], build', rows')
  <2>1. worker'[w] = k /\ \A x \in Workers : x # w => worker'[x] = worker[x]
    BY OthersStay
  <2>2. CASE v = w
    BY <1>5, <2>1, <2>2 DEF Busy, Idle
  <2>3. CASE v # w
    <3>1. Busy(v) /\ worker'[v] = worker[v] /\ Knows(worker[v], build, rows)
      BY <1>5, <2>1, <2>3 DEF Busy, IInv
    <3>2. worker[v].job \in Jobs /\ worker[v].job[2] \in Manifests
      BY <3>1, BusyTyped DEF Job, Manifest
    <3>3. worker[v].job # Job(w)
      BY <2>3, <3>1 DEF IInv, Alone, Job
    <3>4. build'[worker[v].job] = build[worker[v].job]
          /\ rows'[worker[v].job] = rows[worker[v].job]
      BY <1>3, <3>2, <3>3
    <3>5. Import(worker[v].job[2]) \in Jobs
      BY <3>2, ImportIsJob
    <3>6. build[Import(worker[v].job[2])] = "sealed" =>
            /\ build'[Import(worker[v].job[2])] = "sealed"
            /\ rows'[Import(worker[v].job[2])] = rows[Import(worker[v].job[2])]
      BY <1>4, <3>5 DEF SealedKept, Sealed
    <3>. QED
      BY <3>1, <3>4, <3>6 DEF Knows
  <2>. QED
    BY <2>2, <2>3
<1>6. DerivedFromSealed'
  <2>1. ASSUME NEW j \in Jobs, j[1] \in Derived, build'[j] = "sealed"
        PROVE  /\ build'[Import(j[2])] = "sealed"
               /\ rows'[j] = rows'[Import(j[2])]
    <3>1. Import(j[2]) \in Jobs
      BY ImportIsJob DEF Jobs
    <3>2. CASE j = Job(w)
      BY <1>2, <1>3, <1>4, <2>1, <3>1, <3>2 DEF SealedKept, Rightly, Sealed
    <3>3. CASE j # Job(w)
      BY <1>3, <1>4, <2>1, <3>1, <3>3 DEF SealedKept, IInv, DerivedFromSealed, Sealed
    <3>. QED
      BY <3>2, <3>3
  <2>. QED
    BY <2>1 DEF DerivedFromSealed, Sealed
<1>7. SnapshotsSealed'
  <2>1. ASSUME NEW s \in snapshots
        PROVE  /\ s.relational \in Manifests
               /\ build'[Import(s.relational)] = "sealed"
               /\ \A j \in s.derived :
                     j \in Derived \X Manifests /\ j[2] = s.relational
                     /\ build'[j] = "sealed"
    <3>1. \A j \in Derived \X Manifests : j \in Jobs
      BY DEF Jobs
    <3>. QED
      BY <1>4, <3>1, ImportIsJob DEF IInv, SnapshotsSealed, SealedKept
  <2>. QED
    BY <2>1 DEF SnapshotsSealed, Sealed, serving
<1>8. (channel.revision > 0 => channel.snapshot \in snapshots)'
  BY DEF IInv, serving
<1>. QED
  BY <1>1, <1>4, <1>5, <1>6, <1>7, <1>8 DEF IInv

-----------------------------------------------------------------------------
(* The steps of a command.                                                 *)

\* A command knows no less of its build in a later stage of the same kind.
LEMMA GotoMoves ==
    ASSUME TypeOK, IInv, NEW w \in Workers, Busy(w), NEW stage \in Stages,
           Goto(w, stage),
           Knows([at |-> stage, job |-> Job(w), row |-> worker[w].row], build, rows),
           UNCHANGED <<release, build, rows, serving>>
    PROVE  IInv' /\ SealedKept
<1>. DEFINE k == [at |-> stage, job |-> Job(w), row |-> worker[w].row]
<1>1. Leaves(w, k) /\ k.job = Job(w)
  BY GotoLeaves
<1>2. Knows(k, build, rows)
  OBVIOUS
<1>. HIDE DEF k
<1>. QED
  BY <1>1, <1>2, Move

LEMMA LeaveMoves ==
    ASSUME TypeOK, IInv, NEW w \in Workers, Leave(w),
           UNCHANGED <<release, build, rows, serving>>
    PROVE  IInv' /\ SealedKept
  BY LeaveLeaves, Move

\* The stages between Register and the end, for imports.
LEMMA GotoImports ==
    ASSUME TypeOK, IInv, NEW w \in Workers, Busy(w), worker[w].at \notin Early,
           NEW stage \in {"look", "write", "verify", "replace", "store", "fail"},
           stage # "fail" => Job(w)[1] = "relational",
           Goto(w, stage),
           UNCHANGED <<release, build, rows, serving>>
    PROVE  IInv' /\ SealedKept
<1>1. Knows(worker[w], build, rows)
  BY DEF IInv
<1>2. Knows([at |-> stage, job |-> Job(w), row |-> worker[w].row], build, rows)
  BY <1>1 DEF Knows, Early, OfImports, OfDerived, Job
<1>. QED
  BY <1>2, GotoMoves DEF Stages

LEMMA CopiedMoves ==
    ASSUME TypeOK, IInv, NEW w \in Workers, Busy(w), worker[w].at \notin Early,
           Job(w)[1] = "relational", Copied(w),
           UNCHANGED <<release, build, rows, serving>>
    PROVE  IInv' /\ SealedKept
<1>1. Knows(worker[w], build, rows)
  BY DEF IInv
<1>2. CASE worker[w].row = 0
  <2>. DEFINE k == [at |-> "look", job |-> Job(w), row |-> 1]
  <2>1. Leaves(w, k) /\ k.job = Job(w)
    BY <1>2, CopiedLeaves
  <2>2. Knows(k, build, rows)
    BY <1>1 DEF Knows, Early, OfImports, OfDerived, Job
  <2>. HIDE DEF k
  <2>. QED
    BY <2>1, <2>2, Move
<1>3. CASE worker[w].row # 0
  BY <1>3, GotoImports DEF Copied
<1>. QED
  BY <1>2, <1>3

LEMMA AbandonMoves ==
    ASSUME TypeOK, IInv, NEW w \in Workers, Busy(w), Abandon(w),
           UNCHANGED <<release, build, rows, serving>>
    PROVE  IInv' /\ SealedKept
<1>1. CASE Recovers(w)
  <2>1. Knows(worker[w], build, rows) /\ worker[w] \in Command
    BY BusyTyped DEF IInv
  <2>2. worker[w].at \notin Early
    BY <1>1, <2>1 DEF Recovers, Knows, Early, OfDerived, At, Command
  <2>. QED
    BY <1>1, <2>2, GotoImports DEF Abandon
<1>2. CASE ~Recovers(w)
  BY <1>2, LeaveMoves DEF Abandon
<1>. QED
  BY <1>1, <1>2

\* No relational build of an unsealed release is sealed, nor is one while
\* its command has work left to do.
LEMMA Unsealed ==
    ASSUME IInv, NEW w \in Workers, Busy(w), worker[w].at \notin {"check", "prepare"}
    PROVE  ~Sealed(Job(w))
<1>1. Knows(worker[w], build, rows)
  BY DEF IInv
<1>. QED
  BY <1>1 DEF Knows, Early, Sealed, Job

\* What becomes of the release when a relational build stays unsealed.
LEMMA ReleaseKept ==
    ASSUME TypeOK, IInv, NEW j \in Jobs, ~Sealed(j),
           NEW status, status # "sealed", build' = [build EXCEPT ![j] = status],
           release'.status = "sealed" <=> release.status = "sealed"
    PROVE  ReleaseFollowsBuilds'
<1>1. \A m \in Manifests : build'[Import(m)] = "sealed" <=> Sealed(Import(m))
  BY ImportIsJob DEF TypeOK, Sealed
<1>. QED
  BY <1>1 DEF IInv, ReleaseFollowsBuilds, Sealed

\* The same for a derived build, whatever becomes of it.
LEMMA ReleaseApart ==
    ASSUME TypeOK, IInv, NEW j \in Jobs, j[1] \in Derived,
           NEW status, build' = [build EXCEPT ![j] = status],
           release' = release
    PROVE  ReleaseFollowsBuilds'
<1>1. \A m \in Manifests : Import(m) # j
  BY DEF Import
<1>2. \A m \in Manifests : build'[Import(m)] = build[Import(m)]
  BY <1>1, ImportIsJob DEF TypeOK
<1>. QED
  BY <1>2 DEF IInv, ReleaseFollowsBuilds, Sealed

LEMMA BeginMoves ==
    ASSUME TypeOK, IInv, NEW w \in Workers, NEW j \in Jobs, Begin(w, j)
    PROVE  IInv' /\ SealedKept
<1>. DEFINE k == [at |-> IF j[1] \in Derived THEN "prepare" ELSE "check",
                  job |-> j, row |-> 0]
<1>1. Rows[j[2]] \in Seq(Papers) /\ j[1] \in {"relational"} \cup Derived
  BY DEF Jobs
<1>2. Leaves(w, k)
  BY <1>1 DEF Begin, Leaves, Command, InRange, Stages
<1>3. Knows(k, build, rows)
  BY <1>1 DEF Begin, Knows, Early, OfImports, OfDerived
<1>4. Free(k.job) /\ UNCHANGED <<release, build, rows, serving>>
  BY DEF Begin
<1>. HIDE DEF k
<1>. QED
  BY <1>2, <1>3, <1>4, Move

LEMMA ProceedMoves ==
    ASSUME TypeOK, IInv, NEW w \in Workers, Proceed(w)
    PROVE  IInv' /\ SealedKept
<1>1. Busy(w) /\ Knows(worker[w], build, rows)
  BY DEF Proceed, At, Busy, IInv
<1>2. Manifest(w) \in Manifests /\ Job(w) = Import(Manifest(w))
  BY <1>1, BusyTyped DEF Proceed, At, Knows, OfImports, Job, Manifest, Import, Jobs
<1>3. build[Job(w)] # "sealed"
  BY <1>2 DEF Proceed, IInv, ReleaseFollowsBuilds, Sealed
<1>4. Knows([at |-> "register", job |-> Job(w), row |-> worker[w].row], build, rows)
  BY <1>1, <1>3 DEF Proceed, At, Knows, Early, OfImports, OfDerived, Job
<1>. QED
  BY <1>1, <1>4, GotoMoves DEF Proceed, Stages

LEMMA RegisterChanges ==
    ASSUME TypeOK, IInv, NEW w \in Workers, Register(w)
    PROVE  IInv' /\ SealedKept
<1>. DEFINE k == [at |-> "look", job |-> Job(w), row |-> worker[w].row]
<1>1. Busy(w) /\ Knows(worker[w], build, rows) /\ Job(w) \in Jobs
  BY BusyTyped DEF Register, At, Busy, IInv
<1>2. ~Sealed(Job(w))
  BY <1>1, Unsealed DEF Register, At
<1>3. Leaves(w, k) /\ k.job = Job(w)
  BY <1>1, GotoLeaves DEF Register, Stages
<1>4. Job(w)[1] = "relational" /\ build'[Job(w)] = "running"
  BY <1>1 DEF Register, At, Knows, OfImports, Job, TypeOK
<1>5. Knows(k, build', rows')
  BY <1>4 DEF Knows, Early, OfImports, OfDerived
<1>6. ReleaseFollowsBuilds'
  BY <1>1, <1>2, ReleaseKept DEF Register
<1>7. /\ build' = [build EXCEPT ![Job(w)] = "running"]
      /\ rows' = [rows EXCEPT ![Job(w)] = {}]
      /\ UNCHANGED serving
  BY DEF Register
<1>8. Rightly(w, "running", {})
  BY DEF Rightly
<1>. HIDE DEF k
<1>. QED
  BY <1>1, <1>2, <1>3, <1>5, <1>6, <1>7, <1>8, Change

LEMMA StoreChanges ==
    ASSUME TypeOK, IInv, NEW w \in Workers, Store(w)
    PROVE  IInv' /\ SealedKept
<1>. DEFINE content == rows[Job(w)] \cup {<<Target(w), file[Target(w)]>>}
<1>1. Busy(w) /\ Knows(worker[w], build, rows) /\ Job(w) \in Jobs
  BY BusyTyped DEF Store, At, Busy, IInv
<1>2. ~Sealed(Job(w))
  BY <1>1, Unsealed DEF Store, At
<1>3. Job(w)[1] = "relational" /\ build[Job(w)] = "running"
  BY <1>1 DEF Store, At, Knows, OfImports, Early, Job
<1>4. build' = [build EXCEPT ![Job(w)] = "running"] /\ build' = build
  BY <1>1, <1>3 DEF Store, TypeOK
<1>5. ReleaseFollowsBuilds'
  BY <1>1, <1>2, <1>4, ReleaseKept DEF Store
<1>6. rows' = [rows EXCEPT ![Job(w)] = content] /\ UNCHANGED serving
  BY DEF Store
<1>7. \A k : /\ Leaves(w, k)
             /\ k # Idle => k.job = Job(w) /\ Knows(k, build', rows')
             => IInv' /\ SealedKept
  <2>1. Rightly(w, "running", content)
    BY DEF Rightly
  <2>. HIDE DEF content
  <2>. QED
    BY <1>1, <1>2, <1>3, <1>4, <1>5, <1>6, <2>1, Change
<1>8. CASE worker[w].row = Len(Rows[Manifest(w)])
  <2>. DEFINE k == [at |-> "seal", job |-> Job(w), row |-> worker[w].row]
  <2>1. Leaves(w, k) /\ k.job = Job(w)
    BY <1>1, <1>8, GotoLeaves DEF Store, Stages
  <2>2. Knows(k, build', rows')
    BY <1>3, <1>4 DEF Knows, Early, OfImports, OfDerived
  <2>. HIDE DEF k
  <2>. QED
    BY <1>7, <2>1, <2>2
<1>9. CASE worker[w].row # Len(Rows[Manifest(w)])
  <2>. DEFINE k == [at |-> "look", job |-> Job(w), row |-> worker[w].row + 1]
  <2>1. worker[w] \in Command /\ InRange(worker[w]) /\ Rows[Manifest(w)] \in Seq(Papers)
    BY <1>1, BusyTyped
  <2>2. worker[w].row + 1 \in 0..Len(Rows[Manifest(w)])
    BY <1>9, <2>1 DEF InRange, Manifest, Command
  <2>3. Leaves(w, k) /\ k.job = Job(w)
    BY <1>1, <1>9, <2>2, GotoItemLeaves DEF Store
  <2>4. Knows(k, build', rows')
    BY <1>3, <1>4 DEF Knows, Early, OfImports, OfDerived
  <2>. HIDE DEF k
  <2>. QED
    BY <1>7, <2>3, <2>4
<1>. QED
  BY <1>8, <1>9

LEMMA PrepareChanges ==
    ASSUME TypeOK, IInv, NEW w \in Workers, Prepare(w)
    PROVE  IInv' /\ SealedKept
<1>1. Busy(w) /\ Knows(worker[w], build, rows) /\ Job(w) \in Jobs
      /\ worker[w] \in Command
  BY BusyTyped DEF Prepare, At, Busy, IInv
<1>2. CASE Sealed(Job(w))
  BY <1>2, LeaveMoves DEF Prepare, Sealed
<1>3. CASE ~Sealed(Job(w))
  <2>. DEFINE k == [at |-> "fill", job |-> Job(w), row |-> worker[w].row]
  <2>1. Leaves(w, k) /\ k.job = Job(w)
    BY <1>1, <1>3, GotoLeaves DEF Prepare, Sealed, Stages
  <2>2. Job(w)[1] \in Derived /\ worker[w].row = 0
        /\ Sealed(Import(Manifest(w))) /\ Manifest(w) \in Manifests
    BY <1>1, BusyTyped
       DEF Prepare, At, Knows, OfDerived, Early, Job, Manifest, Sealed
  <2>3. /\ build' = [build EXCEPT ![Job(w)] = "running"]
        /\ rows' = [rows EXCEPT ![Job(w)] = {}]
        /\ UNCHANGED serving /\ release' = release
    BY <1>3 DEF Prepare, Sealed
  <2>4. /\ build'[Job(w)] = "running"
        /\ build'[Import(Manifest(w))] = "sealed"
    BY <1>1, <1>3, <2>2, <2>3, ImportIsJob DEF TypeOK, Sealed
  <2>5. Knows(k, build', rows')
    BY <2>2, <2>4 DEF Knows, Early, OfImports, OfDerived, Job, Manifest
  <2>6. ReleaseFollowsBuilds'
    BY <1>1, <2>2, <2>3, ReleaseApart
  <2>7. Rightly(w, "running", {})
    BY DEF Rightly
  <2>. HIDE DEF k
  <2>. QED
    BY <1>1, <1>3, <2>1, <2>3, <2>5, <2>6, <2>7, Change
<1>. QED
  BY <1>2, <1>3

LEMMA FillChanges ==
    ASSUME TypeOK, IInv, NEW w \in Workers, Fill(w)
    PROVE  IInv' /\ SealedKept
<1>. DEFINE k == [at |-> "seal", job |-> Job(w), row |-> worker[w].row]
<1>1. Busy(w) /\ Knows(worker[w], build, rows) /\ Job(w) \in Jobs
      /\ Manifest(w) \in Manifests
  BY BusyTyped DEF Fill, At, Busy, IInv
<1>2. ~Sealed(Job(w))
  BY <1>1, Unsealed DEF Fill, At
<1>3. Leaves(w, k) /\ k.job = Job(w)
  BY <1>1, GotoLeaves DEF Fill, Stages
<1>4. Job(w)[1] \in Derived /\ build[Job(w)] = "running"
      /\ Sealed(Import(Manifest(w)))
  BY <1>1 DEF Fill, At, Knows, OfDerived, Early, Job, Manifest, Sealed
<1>5. /\ build' = [build EXCEPT ![Job(w)] = "running"] /\ build' = build
      /\ rows' = [rows EXCEPT ![Job(w)] = rows[Import(Manifest(w))]]
      /\ UNCHANGED serving /\ release' = release
  BY <1>1, <1>4 DEF Fill, TypeOK
<1>6. rows'[Job(w)] = rows'[Import(Manifest(w))]
  BY <1>1, <1>5, ImportIsJob DEF TypeOK
<1>7. Knows(k, build', rows')
  BY <1>4, <1>5, <1>6 DEF Knows, Early, OfImports, OfDerived, Job, Manifest, Sealed
<1>8. ReleaseFollowsBuilds'
  BY <1>1, <1>4, <1>5, ReleaseApart
<1>9. Rightly(w, "running", rows[Import(Manifest(w))])
  BY DEF Rightly
<1>. HIDE DEF k
<1>. QED
  BY <1>1, <1>2, <1>3, <1>5, <1>7, <1>8, <1>9, Change

LEMMA SealChanges ==
    ASSUME TypeOK, IInv, NEW w \in Workers, Seal(w)
    PROVE  IInv' /\ SealedKept
<1>1. Busy(w) /\ Knows(worker[w], build, rows) /\ Job(w) \in Jobs
      /\ Manifest(w) \in Manifests
  BY BusyTyped DEF Seal, At, Busy, IInv
<1>2. ~Sealed(Job(w))
  BY <1>1, Unsealed DEF Seal, At
<1>3. Leaves(w, Idle)
  BY LeaveLeaves DEF Seal
<1>4. /\ build' = [build EXCEPT ![Job(w)] = "sealed"]
      /\ rows' = [rows EXCEPT ![Job(w)] = rows[Job(w)]]
      /\ UNCHANGED serving
  BY <1>1 DEF Seal, TypeOK
<1>5. Rightly(w, "sealed", rows[Job(w)])
  BY <1>1 DEF Seal, At, Knows, Job, Manifest, Sealed, Rightly
<1>6. ReleaseFollowsBuilds'
  <2>1. CASE Job(w)[1] \in Derived
    BY <1>1, <1>4, <2>1, ReleaseApart DEF Seal
  <2>2. CASE Job(w)[1] \notin Derived
    <3>1. Job(w) = Import(Manifest(w)) /\ Job(w)[1] = "relational"
      BY <1>1, <2>2 DEF Jobs, Job, Manifest, Import
    <3>2. release'.status = "sealed"
      BY <3>1 DEF Seal, TypeOK
    <3>3. build'[Import(Manifest(w))] = "sealed"
      BY <1>1, <1>4, <3>1 DEF TypeOK
    <3>. QED
      BY <1>1, <3>2, <3>3 DEF ReleaseFollowsBuilds, Sealed
  <2>. QED
    BY <2>1, <2>2
<1>. QED
  BY <1>1, <1>2, <1>3, <1>4, <1>5, <1>6, Change

LEMMA FailChanges ==
    ASSUME TypeOK, IInv, NEW w \in Workers, Fail(w)
    PROVE  IInv' /\ SealedKept
<1>1. Busy(w) /\ Job(w) \in Jobs
  BY BusyTyped DEF Fail, At, Busy
<1>2. ~Sealed(Job(w))
  BY <1>1, Unsealed DEF Fail, At
<1>3. Leaves(w, Idle)
  BY LeaveLeaves DEF Fail
<1>4. /\ build' = [build EXCEPT ![Job(w)] = "failed"]
      /\ rows' = [rows EXCEPT ![Job(w)] = rows[Job(w)]]
      /\ UNCHANGED serving
  BY <1>1 DEF Fail, TypeOK
<1>5. release'.status = "sealed" <=> release.status = "sealed"
  BY DEF Fail, TypeOK
<1>6. ReleaseFollowsBuilds'
  BY <1>1, <1>2, <1>4, <1>5, ReleaseKept
<1>7. Rightly(w, "failed", rows[Job(w)])
  BY DEF Rightly
<1>. QED
  BY <1>1, <1>2, <1>3, <1>4, <1>6, <1>7, Change

\* Between the two, the steps that change no table.
LEMMA OtherMoves ==
    ASSUME TypeOK, IInv, NEW w \in Workers,
           \/ Refuse(w) \/ FindSealed(w) \/ Look(w) \/ Write(w) \/ Verify(w)
           \/ RejectCopy(w) \/ Replace(w) \/ Raise(w) \/ FailUnrecorded(w)
           \/ Crash(w)
    PROVE  IInv' /\ SealedKept
<1>1. ASSUME Refuse(w) \/ FindSealed(w) \/ FailUnrecorded(w) \/ Crash(w)
      PROVE  IInv' /\ SealedKept
  BY <1>1, LeaveMoves DEF Refuse, FindSealed, FailUnrecorded, Crash
<1>2. ASSUME RejectCopy(w) \/ Raise(w) PROVE IInv' /\ SealedKept
  BY <1>2, AbandonMoves DEF RejectCopy, Raise, At, Busy
<1>3. ASSUME worker[w].at \in {"look", "write", "verify", "replace"}
      PROVE  /\ Busy(w) /\ worker[w].at \notin Early
             /\ Job(w)[1] = "relational"
  <2>1. Busy(w)
    BY <1>3 DEF Busy
  <2>2. Knows(worker[w], build, rows)
    BY <2>1 DEF IInv
  <2>. QED
    BY <1>3, <2>1, <2>2 DEF Knows, Early, OfImports, Job
<1>4. ASSUME Look(w) PROVE IInv' /\ SealedKept
  BY <1>3, <1>4, GotoImports, CopiedMoves DEF Look, At
<1>5. ASSUME Write(w) \/ Verify(w) PROVE IInv' /\ SealedKept
  BY <1>3, <1>5, GotoImports DEF Write, Verify, At
<1>6. ASSUME Replace(w) PROVE IInv' /\ SealedKept
  BY <1>3, <1>6, CopiedMoves DEF Replace, At
<1>. QED
  BY <1>1, <1>2, <1>4, <1>5, <1>6

LEMMA StepKeeps ==
    ASSUME TypeOK, IInv, NEW w \in Workers, Step(w)
    PROVE  IInv' /\ SealedKept
  BY BeginMoves, ProceedMoves, RegisterChanges, StoreChanges, PrepareChanges,
     FillChanges, SealChanges, FailChanges, OtherMoves DEF Step

-----------------------------------------------------------------------------
(* Snapshots, the channel, and the theorems.                               *)

LEMMA CreateKeeps ==
    ASSUME TypeOK, IInv, NEW s \in Requests, CreateSnapshot(s)
    PROVE  IInv' /\ SealedKept
<1>1. UNCHANGED <<release, build, rows, worker, channel>>
  BY DEF CreateSnapshot, pipeline
<1>2. s.relational \in Manifests /\ s.derived \subseteq Derived \X Manifests
  BY DEF Requests
<1>3. SnapshotsSealed'
  BY <1>1, <1>2 DEF IInv, SnapshotsSealed, CreateSnapshot, Sealed
<1>4. (channel.revision > 0 => channel.snapshot \in snapshots)'
  BY <1>1 DEF IInv, CreateSnapshot
<1>5. Alone' /\ \A w \in Workers : Busy(w)' => Knows(worker'[w], build', rows')
  BY <1>1 DEF IInv, Alone, Busy, Job
<1>6. ReleaseFollowsBuilds' /\ DerivedFromSealed'
  BY <1>1 DEF IInv, ReleaseFollowsBuilds, DerivedFromSealed, Sealed
<1>7. SealedKept
  BY <1>1 DEF SealedKept, Sealed
<1>. QED
  BY <1>3, <1>4, <1>5, <1>6, <1>7 DEF IInv

\* Looking at the channel, moving it to a snapshot there is, and stuttering.
LEMMA ChannelKeeps ==
    ASSUME IInv, UNCHANGED <<release, build, rows, worker, snapshots>>,
           channel' = channel \/ channel'.snapshot \in snapshots
    PROVE  IInv' /\ SealedKept
<1>1. SnapshotsSealed'
  BY DEF IInv, SnapshotsSealed, Sealed
<1>2. (channel.revision > 0 => channel.snapshot \in snapshots)'
  BY DEF IInv
<1>3. Alone' /\ \A w \in Workers : Busy(w)' => Knows(worker'[w], build', rows')
  BY DEF IInv, Alone, Busy, Job
<1>4. ReleaseFollowsBuilds' /\ DerivedFromSealed'
  BY DEF IInv, ReleaseFollowsBuilds, DerivedFromSealed, Sealed
<1>5. SealedKept
  BY DEF SealedKept, Sealed
<1>. QED
  BY <1>1, <1>2, <1>3, <1>4, <1>5 DEF IInv

LEMMA IInvNext == TypeOK /\ IInv /\ [Next]_vars => IInv' /\ SealedKept
<1>. SUFFICES ASSUME TypeOK, IInv, [Next]_vars PROVE IInv' /\ SealedKept
  OBVIOUS
<1>1. CASE \E w \in Workers : Step(w)
  BY <1>1, StepKeeps
<1>2. CASE \E s \in Requests : CreateSnapshot(s)
  BY <1>2, CreateKeeps
<1>3. CASE ReadChannel
  BY <1>3, ChannelKeeps DEF ReadChannel, pipeline
<1>4. ASSUME NEW s \in snapshots, NEW expected \in BOOLEAN, Activate(s, expected)
      PROVE  IInv' /\ SealedKept
  BY <1>4, ChannelKeeps DEF Activate, pipeline
<1>5. CASE UNCHANGED vars
  BY <1>5, ChannelKeeps DEF vars, pipeline, serving
<1>. QED
  BY <1>1, <1>2, <1>3, <1>4, <1>5 DEF Next

LEMMA IInvInit == Init => IInv
<1>. SUFFICES ASSUME Init PROVE IInv
  OBVIOUS
<1>1. \A w \in Workers : ~Busy(w)
  BY DEF Init, Busy, Idle
<1>2. \A j \in Jobs : ~Sealed(j)
  BY DEF Init, Sealed
<1>3. ReleaseFollowsBuilds
  BY <1>2, ImportIsJob DEF Init, ReleaseFollowsBuilds
<1>4. DerivedFromSealed
  BY <1>2 DEF DerivedFromSealed
<1>5. SnapshotsSealed /\ channel.revision = 0
  BY DEF Init, SnapshotsSealed
<1>. QED
  BY <1>1, <1>3, <1>4, <1>5 DEF IInv, Alone

THEOREM IInvAlways == Spec => [](TypeOK /\ IInv)
  BY TypeInit, TypeNext, IInvInit, IInvNext, PTL DEF Spec

\* The release is sealed exactly when one of its relational builds is.
THEOREM ReleaseFollowsBuildsAlways == Spec => []ReleaseFollowsBuilds
<1>1. IInv => ReleaseFollowsBuilds
  BY DEF IInv
<1>. QED
  BY <1>1, IInvAlways, PTL

\* The snapshot the channel serves is made of sealed builds, and its derived
\* builds were computed from all of the relational build beside them.
THEOREM ServedIsWholeAlways == Spec => []ServedIsWhole
<1>1. IInv => ServedIsWhole
  <2>. SUFFICES ASSUME IInv, channel.revision > 0 PROVE ServedIsWhole
    BY DEF ServedIsWhole
  <2>1. channel.snapshot \in snapshots
    BY DEF IInv
  <2>2. /\ Sealed(Import(channel.snapshot.relational))
        /\ \A j \in channel.snapshot.derived :
              /\ j \in Derived \X Manifests
              /\ j[2] = channel.snapshot.relational
              /\ Sealed(j)
    BY <2>1 DEF IInv, SnapshotsSealed
  <2>3. \A j \in Derived \X Manifests : j \in Jobs /\ j[1] \in Derived
    BY DEF Jobs
  <2>. QED
    BY <2>2, <2>3 DEF IInv, DerivedFromSealed, ServedIsWhole
<1>. QED
  BY <1>1, IInvAlways, PTL

\* No step of any command opens, empties or fails a sealed build, and the
\* release stays sealed with it.
THEOREM SealedForGoodAlways == Spec => SealedForGood
<1>. DEFINE Kept == /\ \A j \in Jobs : Sealed(j) =>
                          build'[j] = "sealed" /\ rows'[j] = rows[j]
                    /\ release.status = "sealed" => release'.status = "sealed"
<1>1. TypeOK /\ IInv /\ [Next]_vars => [Kept]_vars
  <2>. SUFFICES ASSUME TypeOK, IInv, [Next]_vars PROVE Kept
    OBVIOUS
  <2>1. IInv' /\ SealedKept
    BY IInvNext
  <2>2. ASSUME release.status = "sealed" PROVE release'.status = "sealed"
    <3>1. PICK m \in Manifests : Sealed(Import(m))
      BY <2>2 DEF IInv, ReleaseFollowsBuilds
    <3>2. build'[Import(m)] = "sealed"
      BY <2>1, <3>1, ImportIsJob DEF SealedKept
    <3>. QED
      BY <2>1, <3>2 DEF IInv, ReleaseFollowsBuilds, Sealed
  <2>. QED
    BY <2>1, <2>2 DEF SealedKept
<1>2. Spec => [][Kept]_vars
  BY <1>1, IInvAlways, PTL DEF Spec
<1>. QED
  BY <1>2 DEF SealedForGood

\* A revision stands for one snapshot: what was seen at the channel's present
\* revision is what is there.
SeenIsPast ==
    seen.read => /\ seen.channel.revision <= channel.revision
                 /\ seen.channel.revision = channel.revision => seen.channel = channel

LEMMA SeenNext == TypeOK /\ SeenIsPast /\ [Next]_vars => SeenIsPast'
<1>. SUFFICES ASSUME TypeOK, SeenIsPast, [Next]_vars PROVE SeenIsPast'
  OBVIOUS
<1>1. channel.revision \in Nat /\ seen.channel.revision \in Nat
  BY DEF TypeOK, Channels
<1>2. ASSUME UNCHANGED serving PROVE SeenIsPast'
  BY <1>2 DEF serving, SeenIsPast
<1>3. ASSUME NEW w \in Workers, Step(w) PROVE UNCHANGED serving
  BY <1>3 DEF Step, Begin, Refuse, FindSealed, Proceed, Register, Look, Write,
     Verify, RejectCopy, Replace, Store, Prepare, Fill, Seal, Raise, Fail,
     FailUnrecorded, Crash
<1>4. ASSUME NEW s \in Requests, CreateSnapshot(s) PROVE SeenIsPast'
  BY <1>4 DEF CreateSnapshot, SeenIsPast
<1>5. CASE ReadChannel
  BY <1>1, <1>5 DEF ReadChannel, SeenIsPast
<1>6. ASSUME NEW s \in snapshots, NEW expected \in BOOLEAN, Activate(s, expected)
      PROVE  SeenIsPast'
  <2>1. channel'.revision = channel.revision + 1
    BY <1>6 DEF Activate
  <2>2. CASE expected
    <3>1. seen'.read = FALSE
      BY <1>6, <2>2 DEF Activate, TypeOK
    <3>. QED
      BY <3>1 DEF SeenIsPast
  <2>3. CASE ~expected
    <3>1. seen' = seen
      BY <1>6, <2>3 DEF Activate
    <3>. QED
      BY <1>1, <2>1, <3>1 DEF SeenIsPast
  <2>. QED
    BY <2>2, <2>3
<1>7. CASE UNCHANGED vars
  BY <1>2, <1>7 DEF vars
<1>. QED
  BY <1>2, <1>3, <1>4, <1>5, <1>6, <1>7 DEF Next

\* A cut-over that names the revision its operator saw replaces the very
\* snapshot that operator saw, whatever cut-overs happened in between.
THEOREM CutoverReplacesSeenAlways == Spec => CutoverReplacesSeen
<1>. DEFINE Replaces == seen.read /\ ~seen'.read => channel = seen.channel
<1>1. Init => SeenIsPast
  BY DEF Init, SeenIsPast
<1>2. TypeOK /\ SeenIsPast /\ [Next]_vars => [Replaces]_vars
  <2>. SUFFICES ASSUME TypeOK, SeenIsPast, Next, seen.read, ~seen'.read
                PROVE  channel = seen.channel
    OBVIOUS
  <2>1. ASSUME NEW w \in Workers, Step(w) PROVE UNCHANGED serving
    BY <2>1 DEF Step, Begin, Refuse, FindSealed, Proceed, Register, Look, Write,
       Verify, RejectCopy, Replace, Store, Prepare, Fill, Seal, Raise, Fail,
       FailUnrecorded, Crash
  <2>2. PICK s \in snapshots, expected \in BOOLEAN : Activate(s, expected)
    BY <2>1 DEF Next, serving, CreateSnapshot, ReadChannel
  <2>3. CASE expected
    BY <2>2, <2>3 DEF Activate, SeenIsPast
  <2>4. CASE ~expected
    BY <2>2, <2>4 DEF Activate
  <2>. QED
    BY <2>3, <2>4
<1>3. Spec => [][Replaces]_vars
  BY <1>1, <1>2, SeenNext, TypeInit, TypeNext, PTL DEF Spec
<1>. QED
  BY <1>3 DEF CutoverReplacesSeen

-----------------------------------------------------------------------------
(* What a sealed relational build holds.                                   *)

Copying == {"look", "write", "verify", "replace", "store"}

\* The papers in a build, and the first n papers of a manifest.
PapersIn(content) == {r[1] : r \in content}
First(m, n) == {Rows[m][i] : i \in 1..n}

\* An import at an item has stored the papers before it, and no others.
InStep(k, r) ==
    /\ k.at \in Copying => PapersIn(r[k.job]) = First(k.job[2], k.row - 1)
    /\ k.at = "store" => k.row > 0
    /\ k.at = "seal" /\ k.job[1] = "relational" =>
          PapersIn(r[k.job]) = First(k.job[2], Len(Rows[k.job[2]]))

\* An import nobody disturbs: what it has stored has the content it expects,
\* and so has the file it stands at: in place once it is copied, in the
\* .partial once that is verified.
Undisturbed(k, r, f, beside) ==
    LET m == k.job[2]
        item == Item(m, k.row)
    IN /\ k.at \in Copying \cup {"seal"} /\ k.job[1] = "relational" =>
             r[k.job] \subseteq Whole(m)
       /\ k.at = "store" => f[item] = Version[m][item]
       /\ k.at = "replace" => beside[item] = Version[m][item]

Importing(k) ==
    k.at \notin {"idle", "check", "register"} /\ k.job[1] = "relational"

SealedWhole ==
    \A m \in Manifests : Sealed(Import(m)) =>
        /\ PapersIn(rows[Import(m)]) = First(m, Len(Rows[m]))
        /\ contended \/ rows[Import(m)] \subseteq Whole(m)

\* Until two imports have been at work at once, one at most writes files.
WholeInv ==
    /\ \A w \in Workers : Busy(w) => InStep(worker[w], rows)
    /\ contended \/ \A v, w \in Workers : Writes(v) /\ Writes(w) => v = w
    /\ contended \/ \A w \in Workers :
          Busy(w) => Undisturbed(worker[w], rows, file, partial)
    /\ SealedWhole

LEMMA WritesIsImporting == \A w \in Workers : Writes(w) <=> Importing(worker[w])
  BY DEF Writes, Importing, Busy, Job

\* Who is at an item is importing.
LEMMA CopyingImports ==
    ASSUME IInv, NEW w \in Workers, Busy(w), worker[w].at \in Copying
    PROVE  Writes(w)
<1>1. Knows(worker[w], build, rows)
  BY DEF IInv
<1>. QED
  BY <1>1 DEF Knows, OfImports, Copying, Writes, Job

LEMMA WholeKept ==
    ASSUME TypeOK, IInv, WholeInv, NEW w \in Workers, NEW k, Leaves(w, k),
           \A v \in Workers : v # w /\ Busy(v) => rows'[Job(v)] = rows[Job(v)],
           k # Idle => InStep(k, rows'),
           contended => contended',
           contended' \/ /\ Writes(w) \/ (file' = file /\ partial' = partial)
                         /\ Importing(k) => Writes(w) \/ \A v \in Workers : ~Writes(v)
                         /\ k # Idle => Undisturbed(k, rows', file', partial'),
           SealedWhole'
    PROVE  WholeInv'
<1>1. worker'[w] = k /\ \A v \in Workers : v # w => worker'[v] = worker[v]
  BY OthersStay
<1>2. ASSUME NEW v \in Workers, Busy(v)' PROVE InStep(worker'[v], rows')
  <2>1. CASE v = w
    BY <1>1, <1>2, <2>1 DEF Busy, Idle
  <2>2. CASE v # w
    <3>1. Busy(v) /\ worker'[v] = worker[v] /\ InStep(worker[v], rows)
      BY <1>1, <1>2, <2>2 DEF Busy, WholeInv
    <3>2. rows'[worker[v].job] = rows[worker[v].job]
      BY <2>2, <3>1 DEF Job
    <3>. QED
      BY <3>1, <3>2 DEF InStep
  <2>. QED
    BY <2>1, <2>2
<1>3. ASSUME ~contended', NEW u \in Workers, NEW v \in Workers, Writes(u)', Writes(v)'
      PROVE  u = v
  <2>1. \A x \in Workers : x # w /\ Writes(x)' => Writes(x)
    BY <1>1 DEF Writes, Busy, Job
  <2>2. Writes(w)' => Importing(k)
    BY <1>1 DEF Writes, Busy, Job, Importing
  <2>3. \A x, y \in Workers : Writes(x) /\ Writes(y) => x = y
    BY <1>3 DEF WholeInv
  <2>. QED
    BY <1>3, <2>1, <2>2, <2>3
<1>4. ASSUME ~contended', NEW v \in Workers, Busy(v)'
      PROVE  Undisturbed(worker'[v], rows', file', partial')
  <2>1. CASE v = w
    BY <1>1, <1>4, <2>1 DEF Busy, Idle
  <2>2. CASE v # w
    <3>1. Busy(v) /\ worker'[v] = worker[v]
          /\ Undisturbed(worker[v], rows, file, partial)
      BY <1>1, <1>4, <2>2 DEF Busy, WholeInv
    <3>2. rows'[worker[v].job] = rows[worker[v].job]
      BY <2>2, <3>1 DEF Job
    <3>3. CASE file' = file /\ partial' = partial
      BY <3>1, <3>2, <3>3 DEF Undisturbed
    <3>4. CASE Writes(w)
      <4>1. ~Writes(v)
        BY <1>4, <2>2, <3>4 DEF WholeInv
      <4>2. worker[v].at \notin Copying
        BY <3>1, <4>1, CopyingImports
      <4>3. ~(worker[v].at = "seal" /\ worker[v].job[1] = "relational")
        BY <3>1, <4>1 DEF Writes, Job
      <4>. QED
        BY <3>1, <4>2, <4>3 DEF Undisturbed, Copying
    <3>. QED
      BY <1>4, <3>3, <3>4
  <2>. QED
    BY <2>1, <2>2
<1>. QED
  BY <1>2, <1>3, <1>4 DEF WholeInv

\* A step that seals no import.
LEMMA SealedStays ==
    ASSUME WholeInv, SealedKept, contended => contended',
           \A m \in Manifests : build'[Import(m)] = "sealed" => Sealed(Import(m))
    PROVE  SealedWhole'
<1>1. ASSUME NEW m \in Manifests, build'[Import(m)] = "sealed"
      PROVE  rows'[Import(m)] = rows[Import(m)] /\ Sealed(Import(m))
  BY <1>1, ImportIsJob DEF SealedKept
<1>. QED
  BY <1>1 DEF WholeInv, SealedWhole, Sealed

\* A step that changes no table.
LEMMA QuietKeeps ==
    ASSUME TypeOK, IInv, WholeInv, NEW w \in Workers, NEW k, Leaves(w, k),
           UNCHANGED <<build, rows, contended>>,
           Writes(w) \/ (file' = file /\ partial' = partial),
           k # Idle => /\ InStep(k, rows)
                       /\ Importing(k) => Writes(w)
                       /\ contended \/ Undisturbed(k, rows, file', partial')
    PROVE  WholeInv'
<1>1. SealedKept
  BY DEF SealedKept, Sealed
<1>2. SealedWhole'
  BY <1>1, SealedStays DEF Sealed
<1>3. Importing(k) => Writes(w)
  BY DEF Importing, Idle
<1>4. k # Idle => InStep(k, rows')
  OBVIOUS
<1>5. k # Idle => contended \/ Undisturbed(k, rows', file', partial')
  OBVIOUS
<1>. QED
  BY <1>2, <1>3, <1>4, <1>5, WholeKept

LEMMA LeaveKeeps ==
    ASSUME TypeOK, IInv, WholeInv, NEW w \in Workers, Leave(w),
           UNCHANGED <<build, rows, contended>>,
           Writes(w) \/ (file' = file /\ partial' = partial)
    PROVE  WholeInv'
  BY LeaveLeaves, QuietKeeps

\* A step to another stage that promises nothing about rows and files.
LEMMA GotoKeeps ==
    ASSUME TypeOK, IInv, WholeInv, NEW w \in Workers, Busy(w),
           NEW stage \in {"register", "fail"}, Goto(w, stage),
           stage = "fail" => worker[w].at \notin {"check", "register"},
           UNCHANGED <<build, rows, contended>>,
           Writes(w) \/ (file' = file /\ partial' = partial)
    PROVE  WholeInv'
<1>. DEFINE k == [at |-> stage, job |-> Job(w), row |-> worker[w].row]
<1>1. Leaves(w, k)
  BY GotoLeaves DEF Stages
<1>2. InStep(k, rows) /\ Undisturbed(k, rows, file', partial')
  BY DEF InStep, Undisturbed, Copying
<1>3. Importing(k) => Writes(w)
  BY DEF Importing, Writes
<1>. HIDE DEF k
<1>. QED
  BY <1>1, <1>2, <1>3, QuietKeeps

LEMMA AbandonKeeps ==
    ASSUME TypeOK, IInv, WholeInv, NEW w \in Workers, Busy(w), Abandon(w),
           UNCHANGED <<build, rows, contended>>,
           Writes(w) \/ (file' = file /\ partial' = partial)
    PROVE  WholeInv'
<1>1. CASE Recovers(w)
  <2>1. Knows(worker[w], build, rows) /\ worker[w] \in Command
    BY BusyTyped DEF IInv
  <2>2. worker[w].at \notin {"check", "register"}
    BY <1>1, <2>1 DEF Recovers, Knows, Early, At, Command
  <2>. QED
    BY <1>1, <2>2, GotoKeeps DEF Abandon
<1>2. CASE ~Recovers(w)
  BY <1>2, LeaveKeeps DEF Abandon
<1>. QED
  BY <1>1, <1>2

\* An import that goes on with its item, or to the next one.
LEMMA OnwardKeeps ==
    ASSUME TypeOK, IInv, WholeInv, NEW w \in Workers, Busy(w),
           worker[w].at \in Copying, NEW k, Leaves(w, k),
           k.job = Job(w), k.at \in Copying,
           First(Manifest(w), k.row - 1) = First(Manifest(w), worker[w].row - 1),
           k.at = "store" => /\ k.row > 0
                             /\ \/ contended
                                \/ file'[Item(Manifest(w), k.row)]
                                     = Version[Manifest(w)][Item(Manifest(w), k.row)],
           k.at = "replace" => \/ contended
                               \/ partial'[Item(Manifest(w), k.row)]
                                    = Version[Manifest(w)][Item(Manifest(w), k.row)],
           UNCHANGED <<build, rows, contended>>
    PROVE  WholeInv'
<1>1. Writes(w)
  BY CopyingImports
<1>2. InStep(worker[w], rows) /\ (contended \/ Undisturbed(worker[w], rows, file, partial))
  BY DEF WholeInv
<1>3. InStep(k, rows)
  BY <1>2 DEF InStep, Job, Manifest, Copying
<1>4. contended \/ Undisturbed(k, rows, file', partial')
  BY <1>1, <1>2 DEF Undisturbed, Job, Manifest, Copying, Writes
<1>. QED
  BY <1>1, <1>3, <1>4, QuietKeeps

LEMMA CopiedKeeps ==
    ASSUME TypeOK, IInv, WholeInv, NEW w \in Workers, Busy(w),
           worker[w].at \in Copying, Copied(w),
           contended \/ file'[Target(w)] = Expected(w),
           UNCHANGED <<build, rows, contended>>
    PROVE  WholeInv'
<1>1. worker[w] \in Command
  BY BusyTyped
<1>2. CASE worker[w].row = 0
  <2>. DEFINE k == [at |-> "look", job |-> Job(w), row |-> 1]
  <2>1. Leaves(w, k) /\ k.job = Job(w) /\ k.at = "look"
    BY <1>2, CopiedLeaves
  <2>2. First(Manifest(w), k.row - 1) = First(Manifest(w), worker[w].row - 1)
    BY <1>2 DEF First
  <2>. HIDE DEF k
  <2>. QED
    BY <2>1, <2>2, OnwardKeeps DEF Copying
<1>3. CASE worker[w].row # 0
  <2>. DEFINE k == [at |-> "store", job |-> Job(w), row |-> worker[w].row]
  <2>1. Leaves(w, k) /\ k.job = Job(w) /\ k.at = "store" /\ k.row = worker[w].row
    BY <1>3, CopiedLeaves
  <2>2. k.row > 0
    BY <1>1, <1>3 DEF Command
  <2>3. contended \/ file'[Item(Manifest(w), k.row)]
                        = Version[Manifest(w)][Item(Manifest(w), k.row)]
    BY <2>1 DEF Target, Expected
  <2>. HIDE DEF k
  <2>. QED
    BY <2>1, <2>2, <2>3, OnwardKeeps DEF Copying
<1>. QED
  BY <1>2, <1>3

LEMMA CopyingKeeps ==
    ASSUME TypeOK, IInv, WholeInv, NEW w \in Workers,
           Look(w) \/ Write(w) \/ Verify(w) \/ Replace(w)
    PROVE  WholeInv'
<1>1. Busy(w) /\ worker[w].at \in Copying
  BY DEF Look, Write, Verify, Replace, At, Busy, Copying
<1>2. UNCHANGED <<build, rows, contended>>
  BY DEF Look, Write, Verify, Replace, history
<1>3. ASSUME NEW stage \in {"write", "verify", "replace"}, Goto(w, stage),
             stage = "replace" => partial'[Target(w)] = Expected(w)
      PROVE  WholeInv'
  <2>. DEFINE k == [at |-> stage, job |-> Job(w), row |-> worker[w].row]
  <2>1. Leaves(w, k) /\ k.job = Job(w) /\ k.at = stage /\ k.row = worker[w].row
    BY <1>1, <1>3, GotoLeaves DEF Stages
  <2>2. k.at = "replace" => partial'[Item(Manifest(w), k.row)]
                              = Version[Manifest(w)][Item(Manifest(w), k.row)]
    BY <1>3, <2>1 DEF Target, Expected
  <2>3. k.at \in Copying /\ k.at # "store"
    BY <2>1 DEF Copying
  <2>. HIDE DEF k
  <2>. QED
    BY <1>1, <1>2, <2>1, <2>2, <2>3, OnwardKeeps
<1>4. CASE Look(w)
  <2>1. CASE Goto(w, "write")
    BY <1>3, <2>1
  <2>2. CASE file[Target(w)] = Expected(w) /\ Copied(w)
    BY <1>1, <1>2, <1>4, <2>2, CopiedKeeps DEF Look
  <2>. QED
    BY <1>4, <2>1, <2>2 DEF Look
<1>5. CASE Write(w)
  BY <1>3, <1>5 DEF Write
<1>6. CASE Verify(w)
  BY <1>3, <1>6 DEF Verify
<1>7. CASE Replace(w)
  <2>1. contended \/ partial[Target(w)] = Expected(w)
    BY <1>1, <1>7 DEF WholeInv, Undisturbed, Replace, At, Target, Expected, Manifest
  <2>2. file'[Target(w)] = partial[Target(w)]
    BY <1>1, <1>7, BusyTyped DEF Replace, TypeOK
  <2>. QED
    BY <1>1, <1>2, <1>7, <2>1, <2>2, CopiedKeeps DEF Replace
<1>. QED
  BY <1>4, <1>5, <1>6, <1>7

LEMMA BeginKeeps ==
    ASSUME TypeOK, IInv, WholeInv, NEW w \in Workers, NEW j \in Jobs, Begin(w, j)
    PROVE  WholeInv'
<1>. DEFINE k == [at |-> IF j[1] \in Derived THEN "prepare" ELSE "check",
                  job |-> j, row |-> 0]
<1>1. Leaves(w, k)
  <2>1. Rows[j[2]] \in Seq(Papers)
    BY DEF Jobs
  <2>. QED
    BY <2>1 DEF Begin, Leaves, Command, InRange, Stages
<1>2. InStep(k, rows) /\ Undisturbed(k, rows, file', partial') /\ ~Importing(k)
  BY DEF InStep, Undisturbed, Importing, Copying
<1>3. UNCHANGED <<build, rows, contended, file, partial>>
  BY DEF Begin, history
<1>. HIDE DEF k
<1>. QED
  BY <1>1, <1>2, <1>3, QuietKeeps

\* The other steps that change no table.
LEMMA EndsKeep ==
    ASSUME TypeOK, IInv, WholeInv, NEW w \in Workers,
           \/ Refuse(w) \/ FindSealed(w) \/ Proceed(w) \/ RejectCopy(w)
           \/ Raise(w) \/ FailUnrecorded(w) \/ Crash(w)
    PROVE  WholeInv'
<1>1. Busy(w)
  BY DEF Refuse, FindSealed, Proceed, RejectCopy, Raise, FailUnrecorded, Crash,
     At, Busy
<1>2. UNCHANGED <<build, rows, contended>>
  BY DEF Refuse, FindSealed, Proceed, RejectCopy, Raise, FailUnrecorded, Crash,
     history
<1>3. Writes(w) \/ (file' = file /\ partial' = partial)
  <2>1. At(w, "verify") \/ At(w, "write") => Writes(w)
    BY <1>1, CopyingImports DEF At, Copying
  <2>. QED
    BY <2>1 DEF Refuse, FindSealed, Proceed, RejectCopy, Raise, FailUnrecorded,
       Crash
<1>4. CASE Leave(w)
  BY <1>2, <1>3, <1>4, LeaveKeeps
<1>5. CASE Abandon(w)
  BY <1>1, <1>2, <1>3, <1>5, AbandonKeeps
<1>6. CASE Goto(w, "register")
  BY <1>1, <1>2, <1>3, <1>6, GotoKeeps
<1>. QED
  BY <1>4, <1>5, <1>6
     DEF Refuse, FindSealed, Proceed, RejectCopy, Raise, FailUnrecorded, Crash

\* Through the lock, a command writes its own build only.
LEMMA OthersRows ==
    ASSUME TypeOK, IInv, NEW w \in Workers, Busy(w),
           NEW content, rows' = [rows EXCEPT ![Job(w)] = content]
    PROVE  \A v \in Workers : v # w /\ Busy(v) => rows'[Job(v)] = rows[Job(v)]
  BY BusyTyped DEF IInv, Alone, TypeOK

LEMMA RegisterKeeps ==
    ASSUME TypeOK, IInv, WholeInv, SealedKept, NEW w \in Workers, Register(w)
    PROVE  WholeInv'
<1>. DEFINE k == [at |-> "look", job |-> Job(w), row |-> worker[w].row]
<1>1. Busy(w) /\ Knows(worker[w], build, rows) /\ Job(w) \in Jobs
  BY BusyTyped DEF Register, At, Busy, IInv
<1>2. Leaves(w, k)
  BY <1>1, GotoLeaves DEF Register, Stages
<1>3. rows'[Job(w)] = {} /\ worker[w].row = 0
  BY <1>1 DEF Register, TypeOK, Knows, Early, At
<1>4. InStep(k, rows')
  BY <1>3 DEF InStep, PapersIn, First
<1>5. Undisturbed(k, rows', file', partial')
  BY <1>3 DEF Undisturbed
<1>6. SealedWhole'
  <2>1. \A m \in Manifests : build'[Import(m)] = "sealed" => Sealed(Import(m))
    BY ImportIsJob DEF Register, TypeOK, Sealed
  <2>. QED
    BY <2>1, SealedStays DEF Register
<1>7. \A v \in Workers : v # w /\ Busy(v) => rows'[Job(v)] = rows[Job(v)]
  BY <1>1, OthersRows DEF Register
<1>8. /\ contended => contended'
      /\ contended' \/ \A v \in Workers : ~Writes(v)
      /\ file' = file /\ partial' = partial
  BY DEF Register
<1>. HIDE DEF k
<1>. QED
  BY <1>2, <1>4, <1>5, <1>6, <1>7, <1>8, WholeKept

\* The papers up to number n are those before it, and itself.
LEMMA FirstNext ==
    ASSUME NEW m \in Manifests, NEW n \in 1..Len(Rows[m])
    PROVE  First(m, n) = First(m, n - 1) \cup {Rows[m][n]}
<1>1. n \in Nat /\ \A i \in 1..n : i \in 1..(n - 1) \/ i = n
  OBVIOUS
<1>2. \A i \in 1..(n - 1) : i \in 1..n
  BY <1>1
<1>. QED
  BY <1>1, <1>2 DEF First

LEMMA PapersInAdds ==
    ASSUME NEW content, NEW p, NEW v
    PROVE  PapersIn(content \cup {<<p, v>>}) = PapersIn(content) \cup {p}
<1>. DEFINE more == content \cup {<<p, v>>}
<1>1. <<p, v>>[1] = p
  OBVIOUS
<1>2. \A r : r \in more <=> r \in content \/ r = <<p, v>>
  OBVIOUS
<1>3. \A c, x : x \in PapersIn(c) <=> \E r \in c : x = r[1]
  BY DEF PapersIn
<1>. HIDE DEF more
<1>4. ASSUME NEW x PROVE x \in PapersIn(more) <=> x \in PapersIn(content) \/ x = p
  <2>1. x \in PapersIn(more) <=> \E r \in more : x = r[1]
    BY <1>3
  <2>2. x \in PapersIn(content) <=> \E r \in content : x = r[1]
    BY <1>3
  <2>3. (\E r \in more : x = r[1])
          <=> (\E r \in content : x = r[1]) \/ x = <<p, v>>[1]
    BY <1>2
  <2>. QED
    BY <1>1, <2>1, <2>2, <2>3
<1>5. PapersIn(more) = PapersIn(content) \cup {p}
  BY <1>4
<1>. QED
  BY <1>5 DEF more

LEMMA StoreKeeps ==
    ASSUME TypeOK, IInv, WholeInv, SealedKept, NEW w \in Workers, Store(w)
    PROVE  WholeInv'
<1>. DEFINE n == worker[w].row
            m == Manifest(w)
            pair == <<Target(w), file[Target(w)]>>
<1>1. /\ Busy(w) /\ worker[w].at = "store" /\ Writes(w) /\ Job(w) \in Jobs
      /\ worker[w] \in Command /\ InRange(worker[w]) /\ m \in Manifests
      /\ Job(w)[1] = "relational"
  BY BusyTyped, CopyingImports DEF Store, At, Busy, Copying, Writes
<1>2. /\ InStep(worker[w], rows)
      /\ contended \/ Undisturbed(worker[w], rows, file, partial)
  BY <1>1 DEF WholeInv
<1>3. n > 0 /\ PapersIn(rows[Job(w)]) = First(m, n - 1)
  BY <1>1, <1>2 DEF InStep, Copying, Job, Manifest
<1>4. n \in 1..Len(Rows[m]) /\ Len(Rows[m]) \in Nat /\ n \in Nat
  <2>1. n \in 0..Len(Rows[m]) /\ Rows[m] \in Seq(Papers)
    BY <1>1 DEF InRange, Manifest
  <2>. QED
    BY <1>3, <2>1
<1>5. Target(w) = Rows[m][n]
  BY <1>3 DEF Target, Item
<1>6. rows'[Job(w)] = rows[Job(w)] \cup {pair}
  BY <1>1 DEF Store, TypeOK
<1>7. PapersIn(rows'[Job(w)]) = First(m, n)
  <2>1. PapersIn(rows'[Job(w)]) = PapersIn(rows[Job(w)]) \cup {Rows[m][n]}
    <3>. DEFINE old == rows[Job(w)]
                new == rows'[Job(w)]
                content == file[Target(w)]
    <3>1. new = old \cup {<<Rows[m][n], content>>}
      BY <1>5, <1>6
    <3>. HIDE DEF old, new, content
    <3>2. PapersIn(new) = PapersIn(old) \cup {Rows[m][n]}
      BY <3>1, PapersInAdds
    <3>. QED
      BY <3>2 DEF old, new
  <2>. QED
    BY <1>1, <1>3, <1>4, <2>1, FirstNext
<1>8. contended \/ rows'[Job(w)] \subseteq Whole(m)
  <2>. SUFFICES ASSUME ~contended PROVE rows'[Job(w)] \subseteq Whole(m)
    OBVIOUS
  <2>1. rows[Job(w)] \subseteq Whole(m) /\ file[Target(w)] = Version[m][Target(w)]
    BY <1>1, <1>2 DEF Undisturbed, Copying, Target, Manifest, Job
  <2>2. Rows[m] \in Seq(Papers)
    BY <1>1
  <2>3. pair \in Whole(m)
    BY <1>4, <1>5, <2>1, <2>2 DEF Whole
  <2>. QED
    BY <1>6, <2>1, <2>3
<1>9. SealedWhole' /\ UNCHANGED <<file, partial, contended>>
  BY SealedStays DEF Store, Sealed, history
<1>10. \A v \in Workers : v # w /\ Busy(v) => rows'[Job(v)] = rows[Job(v)]
  BY <1>1, OthersRows DEF Store
<1>11. \A k : /\ Leaves(w, k) /\ InStep(k, rows')
              /\ contended \/ Undisturbed(k, rows', file', partial')
              => WholeInv'
  <2>. HIDE DEF m, n, pair
  <2>. QED
    BY <1>1, <1>9, <1>10, WholeKept
<1>12. CASE n = Len(Rows[m])
  <2>. DEFINE k == [at |-> "seal", job |-> Job(w), row |-> worker[w].row]
  <2>1. Leaves(w, k)
    BY <1>1, <1>12, GotoLeaves DEF Store, Stages
  <2>2. InStep(k, rows')
    BY <1>7, <1>12 DEF InStep, Copying, Job, Manifest
  <2>3. contended \/ Undisturbed(k, rows', file', partial')
    BY <1>8 DEF Undisturbed, Job, Manifest
  <2>. HIDE DEF k
  <2>. QED
    BY <1>11, <2>1, <2>2, <2>3
<1>13. CASE n # Len(Rows[m])
  <2>. DEFINE k == [at |-> "look", job |-> Job(w), row |-> n + 1]
  <2>1. n + 1 \in 0..Len(Rows[m]) /\ (n + 1) - 1 = n
    BY <1>4, <1>13
  <2>2. Leaves(w, k)
    BY <1>1, <1>13, <2>1, GotoItemLeaves DEF Store
  <2>3. InStep(k, rows')
    BY <1>7, <2>1 DEF InStep, Copying, Job, Manifest
  <2>4. contended \/ Undisturbed(k, rows', file', partial')
    BY <1>8 DEF Undisturbed, Job, Manifest
  <2>. HIDE DEF k
  <2>. QED
    BY <1>11, <2>2, <2>3, <2>4
<1>. QED
  BY <1>12, <1>13

\* The builders write no import's build.
LEMMA BuildersKeep ==
    ASSUME TypeOK, IInv, WholeInv, SealedKept, NEW w \in Workers,
           Prepare(w) \/ Fill(w)
    PROVE  WholeInv'
<1>1. Busy(w) /\ Knows(worker[w], build, rows) /\ Job(w) \in Jobs
  BY BusyTyped DEF Prepare, Fill, At, Busy, IInv
<1>2. Job(w)[1] \in Derived
  BY <1>1 DEF Prepare, Fill, At, Knows, OfDerived, Job
<1>3. \A m \in Manifests : Job(w) # Import(m)
  BY <1>2 DEF Import
<1>4. UNCHANGED <<file, partial, contended>>
  BY DEF Prepare, Fill, history
<1>5. CASE Leave(w) /\ UNCHANGED <<build, rows>>
  BY <1>4, <1>5, LeaveKeeps
<1>6. ASSUME NEW stage \in {"fill", "seal"}, Goto(w, stage),
             NEW content, rows' = [rows EXCEPT ![Job(w)] = content],
             build' = build \/ build' = [build EXCEPT ![Job(w)] = "running"]
      PROVE  WholeInv'
  <2>. DEFINE k == [at |-> stage, job |-> Job(w), row |-> worker[w].row]
  <2>1. Leaves(w, k)
    BY <1>1, <1>6, GotoLeaves DEF Stages
  <2>2. InStep(k, rows') /\ Undisturbed(k, rows', file', partial') /\ ~Importing(k)
    BY <1>2 DEF InStep, Undisturbed, Importing, Copying
  <2>3. SealedWhole'
    <3>1. \A m \in Manifests : build'[Import(m)] = "sealed" => Sealed(Import(m))
      BY <1>3, <1>6, ImportIsJob DEF TypeOK, Sealed
    <3>. QED
      BY <1>4, <3>1, SealedStays
  <2>4. \A v \in Workers : v # w /\ Busy(v) => rows'[Job(v)] = rows[Job(v)]
    BY <1>1, <1>6, OthersRows
  <2>. HIDE DEF k
  <2>. QED
    BY <1>4, <2>1, <2>2, <2>3, <2>4, WholeKept
<1>7. CASE Prepare(w)
  BY <1>5, <1>6, <1>7 DEF Prepare
<1>8. CASE Fill(w)
  BY <1>6, <1>8 DEF Fill
<1>. QED
  BY <1>7, <1>8

\* A command that has sealed its build, or recorded its failure, leaves.
LEMMA OutcomeKeeps ==
    ASSUME TypeOK, IInv, WholeInv, SealedKept, NEW w \in Workers,
           Seal(w) \/ Fail(w)
    PROVE  WholeInv'
<1>1. Busy(w) /\ Job(w) \in Jobs /\ Leave(w)
  BY BusyTyped DEF Seal, Fail, At, Busy
<1>2. UNCHANGED <<rows, file, partial, contended>>
  BY DEF Seal, Fail, history
<1>3. SealedWhole'
  <2>1. CASE Fail(w)
    <3>1. \A m \in Manifests : build'[Import(m)] = "sealed" => Sealed(Import(m))
      BY <2>1, ImportIsJob DEF Fail, TypeOK, Sealed
    <3>. QED
      BY <1>2, <3>1, SealedStays
  <2>2. CASE Seal(w)
    <3>1. ASSUME NEW m \in Manifests, build'[Import(m)] = "sealed"
          PROVE  /\ PapersIn(rows[Import(m)]) = First(m, Len(Rows[m]))
                 /\ contended \/ rows[Import(m)] \subseteq Whole(m)
      <4>1. CASE Sealed(Import(m))
        BY <4>1 DEF WholeInv, SealedWhole
      <4>2. CASE ~Sealed(Import(m))
        <5>1. Job(w) = Import(m)
          BY <1>1, <2>2, <3>1, <4>2, ImportIsJob DEF Seal, TypeOK, Sealed
        <5>2. worker[w].job[1] = "relational" /\ worker[w].job[2] = m
              /\ worker[w].job = Import(m) /\ worker[w].at = "seal"
          BY <2>2, <5>1 DEF Job, Import, Seal, At
        <5>. QED
          BY <1>1, <5>2 DEF WholeInv, InStep, Undisturbed
      <4>. QED
        BY <4>1, <4>2
    <3>. QED
      BY <1>2, <3>1 DEF SealedWhole, Sealed
  <2>. QED
    BY <2>1, <2>2
<1>4. Leaves(w, Idle) /\ ~Importing(Idle)
  BY <1>1, LeaveLeaves DEF Importing, Idle
<1>. QED
  BY <1>2, <1>3, <1>4, WholeKept

LEMMA WholeNext == TypeOK /\ IInv /\ WholeInv /\ [Next]_vars => WholeInv'
<1>. SUFFICES ASSUME TypeOK, IInv, WholeInv, [Next]_vars PROVE WholeInv'
  OBVIOUS
<1>1. ASSUME NEW w \in Workers, Step(w) PROVE WholeInv'
  <2>1. SealedKept
    BY <1>1, StepKeeps
  <2>. QED
    BY <1>1, <2>1, BeginKeeps, EndsKeep, CopyingKeeps, RegisterKeeps, StoreKeeps,
       BuildersKeep, OutcomeKeeps DEF Step
<1>2. ASSUME UNCHANGED <<build, rows, file, partial, worker, contended>>
      PROVE  WholeInv'
  BY <1>2 DEF WholeInv, SealedWhole, Sealed, Writes, Busy, Job
<1>3. CASE \E s \in Requests : CreateSnapshot(s)
  BY <1>2, <1>3 DEF CreateSnapshot, pipeline, history
<1>4. CASE ReadChannel
  BY <1>2, <1>4 DEF ReadChannel, pipeline, history
<1>5. CASE \E s \in snapshots, expected \in BOOLEAN : Activate(s, expected)
  BY <1>2, <1>5 DEF Activate, pipeline, history
<1>6. CASE UNCHANGED vars
  BY <1>2, <1>6 DEF vars, pipeline, history
<1>. QED
  BY <1>1, <1>3, <1>4, <1>5, <1>6 DEF Next

LEMMA WholeInit == Init => WholeInv
<1>. SUFFICES ASSUME Init PROVE WholeInv
  OBVIOUS
<1>1. \A w \in Workers : ~Busy(w) /\ ~Writes(w)
  BY DEF Init, Busy, Writes, Idle
<1>2. \A m \in Manifests : ~Sealed(Import(m))
  BY ImportIsJob DEF Init, Sealed
<1>. QED
  BY <1>1, <1>2 DEF WholeInv, SealedWhole

\* However often imports were cut short and tried again, a sealed build has
\* exactly the papers of its manifest; and each paper has the content the
\* manifest names, unless imports of two manifests were at work at once.
THEOREM SealedBuildIsWholeAlways == Spec => []SealedBuildIsWhole
<1>1. WholeInv => SealedBuildIsWhole
  <2>. SUFFICES ASSUME WholeInv, NEW m \in Manifests, Sealed(Import(m))
                PROVE  /\ {r[1] : r \in rows[Import(m)]} = {r[1] : r \in Whole(m)}
                       /\ contended \/ rows[Import(m)] = Whole(m)
    BY DEF SealedBuildIsWhole
  <2>1. PapersIn(Whole(m)) = First(m, Len(Rows[m]))
    <3>1. Rows[m] \in Seq(Papers)
      OBVIOUS
    <3>2. DOMAIN Rows[m] = 1..Len(Rows[m])
      BY <3>1
    <3>3. \A x : x \in First(m, Len(Rows[m])) <=> \E i \in DOMAIN Rows[m] : x = Rows[m][i]
      BY <3>2 DEF First
    <3>4. \A r : r \in Whole(m) <=>
             \E i \in DOMAIN Rows[m] : r = <<Rows[m][i], Version[m][Rows[m][i]]>>
      BY DEF Whole
    <3>5. \A x : x \in PapersIn(Whole(m)) <=> \E r \in Whole(m) : x = r[1]
      BY DEF PapersIn
    <3>6. \A x : x \in PapersIn(Whole(m)) <=> \E i \in DOMAIN Rows[m] : x = Rows[m][i]
      <4>1. ASSUME NEW i \in DOMAIN Rows[m] PROVE Rows[m][i] \in PapersIn(Whole(m))
        <5>1. <<Rows[m][i], Version[m][Rows[m][i]]>> \in Whole(m)
          BY <3>4
        <5>2. <<Rows[m][i], Version[m][Rows[m][i]]>>[1] = Rows[m][i]
          OBVIOUS
        <5>. QED
          BY <3>5, <5>1, <5>2
      <4>2. ASSUME NEW r \in Whole(m) PROVE \E i \in DOMAIN Rows[m] : r[1] = Rows[m][i]
        BY <3>4
      <4>. QED
        BY <3>5, <4>1, <4>2
    <3>. QED
      BY <3>3, <3>6
  <2>2. PapersIn(rows[Import(m)]) = PapersIn(Whole(m))
    BY <2>1 DEF WholeInv, SealedWhole
  <2>3. ASSUME rows[Import(m)] \subseteq Whole(m)
        PROVE  Whole(m) \subseteq rows[Import(m)]
    <3>. SUFFICES ASSUME NEW s \in Whole(m) PROVE s \in rows[Import(m)]
      OBVIOUS
    <3>0. s[1] \in PapersIn(rows[Import(m)])
      BY <2>2 DEF PapersIn
    <3>1. PICK r \in rows[Import(m)] : r[1] = s[1]
      BY <3>0 DEF PapersIn
    <3>2. \A t \in Whole(m) : t = <<t[1], Version[m][t[1]]>>
      BY DEF Whole
    <3>3. r = <<r[1], Version[m][r[1]]>> /\ s = <<s[1], Version[m][s[1]]>>
      BY <2>3, <3>2
    <3>. QED
      BY <3>1, <3>3
  <2>. QED
    BY <2>2, <2>3 DEF PapersIn, WholeInv, SealedWhole
<1>2. Spec => []WholeInv
  BY IInvAlways, WholeInit, WholeNext, PTL DEF Spec
<1>. QED
  BY <1>1, <1>2, PTL

=============================================================================
