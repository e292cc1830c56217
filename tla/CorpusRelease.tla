--------------------------- MODULE CorpusRelease ----------------------------
(***************************************************************************)
(* The life of one corpus release: the imports that fill and seal its      *)
(* relational builds (scholar/v2/corpus_importer.py), the builds derived   *)
(* from them (graph_builder.py, vector_builder.py), the snapshots that     *)
(* combine builds (snapshot_builder.py) and the channel that serves one    *)
(* (activate_snapshot in database.py).                                     *)
(*                                                                         *)
(* Each command is a process of its own, and any of them may die between   *)
(* two steps.  A build's identifier is a hash of its kind and of the       *)
(* manifest it comes from, so a build is named by that pair; the advisory  *)
(* lock a command holds to its end is named by the same pair.  The         *)
(* artifact directory belongs to the release and all imports share it.     *)
(* One action is one transaction or one operation on a file.               *)
(*                                                                         *)
(* An operator that stands right before another with the same parameters,  *)
(* and that nothing uses, is that one with a fault a programmer could have *)
(* made; README.md lists the property each fault breaks.                   *)
(***************************************************************************)
EXTENDS Naturals, Sequences

CONSTANTS
    Workers,      \* command processes
    Manifests,    \* the manifests anyone tries to import
    Papers,
    Versions,     \* contents of a file
    Rows,         \* the papers of each manifest, in order
    Version,      \* the content each manifest gives a paper, and itself
    Derived,      \* kinds of derived build: graph, vector
    MaxCommands,  \* bound: commands started
    MaxRevision   \* bound: activations of the channel

Items == Papers \cup {"manifest"}

\* Item number n of a manifest: itself, then its papers.
Item(m, n) == IF n = 0 THEN "manifest" ELSE Rows[m][n]

\* _manifest_rows lets in manifests with rows and no paper twice, and a
\* manifest's hash identifies it.
ASSUME CorpusAssumption ==
    /\ Rows \in [Manifests -> Seq(Papers) \ {<<>>}]
    /\ \A m \in Manifests : \A i, j \in DOMAIN Rows[m] :
          Rows[m][i] = Rows[m][j] => i = j
    /\ Version \in [Manifests -> [Items -> Versions]]
    /\ \A m, n \in Manifests : Version[m]["manifest"] = Version[n]["manifest"]
          => m = n
    /\ "absent" \notin Versions /\ "torn" \notin Versions
    /\ "relational" \notin Derived /\ "manifest" \notin Papers
    /\ "none" \notin Manifests
    /\ MaxCommands \in Nat /\ MaxRevision \in Nat

\* The builds: <<kind, manifest>>.
Jobs == ({"relational"} \cup Derived) \X Manifests
Import(m) == <<"relational", m>>

VARIABLES
    release,    \* the row of scholar_v2_corpus_releases
    build,      \* status of each row of scholar_v2_projection_builds
    rows,       \* the papers (or what is derived from them) in each build
    file,       \* artifact_root
    partial,    \* the ".partial" file beside each artifact
    worker,     \* what each process is doing
    started,    \* commands started so far
    snapshots,  \* scholar_v2_serving_snapshots, all of them ready
    channel,    \* the serving channel; revision 0 while there is none
    seen,       \* an operator's last look at the channel, until it is used
    contended   \* history: imports of two manifests were at work at once

pipeline == <<release, build, rows, file, partial, worker, started>>
serving == <<snapshots, channel, seen>>
history == <<contended>>
vars == <<pipeline, serving, history>>

Idle == [at |-> "idle", job |-> Import("none"), row |-> 0]
NoSnapshot == [relational |-> "none", derived |-> {}]

Statuses == {"none", "running", "sealed", "failed"}
Stages == {"check", "register", "look", "write", "verify", "replace",
           "store", "prepare", "fill", "seal", "fail"}
Snapshots == [relational : Manifests, derived : SUBSET Jobs]
Channels == [snapshot : Snapshots \cup {NoSnapshot}, revision : 0..MaxRevision]

TypeOK ==
    /\ release \in [status : {"none", "importing", "sealed", "failed"},
                    manifest : Manifests \cup {"none"}]
    /\ build \in [Jobs -> Statuses]
    /\ rows \in [Jobs -> SUBSET (Items \X (Versions \cup {"absent", "torn"}))]
    /\ file \in [Items -> Versions \cup {"absent", "torn"}]
    /\ partial \in [Items -> Versions \cup {"absent", "torn"}]
    /\ worker \in [Workers -> {Idle} \cup [at : Stages, job : Jobs, row : Nat]]
    /\ \A w \in Workers : worker[w].at # "idle" =>
          worker[w].row \in 0..Len(Rows[worker[w].job[2]])
    /\ started \in 0..MaxCommands
    /\ snapshots \subseteq Snapshots
    /\ channel \in Channels
    /\ seen \in [read : BOOLEAN, channel : Channels]
    /\ contended \in BOOLEAN

Init ==
    /\ release = [status |-> "none", manifest |-> "none"]
    /\ build = [j \in Jobs |-> "none"]
    /\ rows = [j \in Jobs |-> {}]
    /\ file = [i \in Items |-> "absent"]
    /\ partial = [i \in Items |-> "absent"]
    /\ worker = [w \in Workers |-> Idle]
    /\ started = 0
    /\ snapshots = {}
    /\ channel = [snapshot |-> NoSnapshot, revision |-> 0]
    /\ seen = [read |-> FALSE, channel |-> channel]
    /\ contended = FALSE

-----------------------------------------------------------------------------
(* Commands and their lock.                                                *)

Busy(w) == worker[w].at # "idle"
At(w, stage) == worker[w].at = stage
Job(w) == worker[w].job
Manifest(w) == worker[w].job[2]
Target(w) == Item(Manifest(w), worker[w].row)
Expected(w) == Version[Manifest(w)][Target(w)]

Goto(w, stage) == worker' = [worker EXCEPT ![w].at = stage]
GotoItem(w, n) ==
    worker' = [worker EXCEPT ![w] = [at |-> "look", job |-> Job(w), row |-> n]]
Leave(w) == worker' = [worker EXCEPT ![w] = Idle]

FreeAlways(j) == TRUE

\* pg_try_advisory_lock succeeds: no living command works on this build.
Free(j) == \A w \in Workers : ~(Busy(w) /\ Job(w) = j)

\* A command starts and gets its lock.  One that waits in vain ends with
\* SERVER_BUSY and has changed nothing.  A derived build needs a sealed
\* relational build (_validate_relational_build).
Begin(w, j) ==
    /\ ~Busy(w)
    /\ started < MaxCommands
    /\ Free(j)
    /\ j[1] \in Derived => build[Import(j[2])] = "sealed"
    /\ worker' = [worker EXCEPT ![w] =
          [at |-> IF j[1] \in Derived THEN "prepare" ELSE "check",
           job |-> j, row |-> 0]]
    /\ started' = started + 1
    /\ UNCHANGED <<release, build, rows, file, partial, serving, history>>

-----------------------------------------------------------------------------
(* Importing a release.                                                    *)

\* _prepare_release, its reads: the manifest is not the one of the sealed
\* release.
Refuse(w) ==
    /\ At(w, "check")
    /\ release.status = "sealed"
    /\ release.manifest # Manifest(w)
    /\ Leave(w)
    /\ UNCHANGED <<release, build, rows, file, partial, started, serving, history>>

\* The release is sealed with this manifest and so is its build: the command
\* answers with what is there.
FindSealed(w) ==
    /\ At(w, "check")
    /\ release = [status |-> "sealed", manifest |-> Manifest(w)]
    /\ build[Job(w)] = "sealed"
    /\ Leave(w)
    /\ UNCHANGED <<release, build, rows, file, partial, started, serving, history>>

Proceed(w) ==
    /\ At(w, "check")
    /\ \/ release.status # "sealed"
       \/ release.manifest = Manifest(w) /\ build[Job(w)] # "sealed"
    /\ Goto(w, "register")
    /\ UNCHANGED <<release, build, rows, file, partial, started, serving, history>>

\* An import past its registration: it may write to artifact_root.
Writes(w) ==
    /\ Busy(w)
    /\ Job(w)[1] = "relational"
    /\ worker[w].at \notin {"check", "register"}

\* _prepare_release, its writes: the release row keeps the manifest it was
\* first inserted with, the build is deleted with all its rows and inserted.
Register(w) ==
    /\ At(w, "register")
    /\ release' =
          [status |-> IF release.status = "sealed" THEN "sealed" ELSE "importing",
           manifest |-> IF release.status = "none" THEN Manifest(w)
                        ELSE release.manifest]
    /\ build' = [build EXCEPT ![Job(w)] = "running"]
    /\ rows' = [rows EXCEPT ![Job(w)] = {}]
    /\ contended' = (contended \/ \E v \in Workers : Writes(v))
    /\ Goto(w, "look")
    /\ UNCHANGED <<file, partial, started, serving>>

\* After a file is in place: the manifest is followed by the first paper, a
\* paper by the parsing of it.
Copied(w) ==
    \/ worker[w].row = 0 /\ GotoItem(w, 1)
    \/ worker[w].row # 0 /\ Goto(w, "store")

LookTrusting(w) ==
    /\ At(w, "look")
    /\ IF file[Target(w)] = "absent" THEN Goto(w, "write") ELSE Copied(w)
    /\ UNCHANGED <<release, build, rows, file, partial, started, serving, history>>

\* _immutable_copy: the target is missing, or it has the expected content.
\* Any other content is a conflict, an error (see Raise).
Look(w) ==
    /\ At(w, "look")
    /\ \/ file[Target(w)] = "absent" /\ Goto(w, "write")
       \/ file[Target(w)] = Expected(w) /\ Copied(w)
    /\ UNCHANGED <<release, build, rows, file, partial, started, serving, history>>

\* copyfile to the .partial beside the target, whoever's it is.
Write(w) ==
    /\ At(w, "write")
    /\ partial' = [partial EXCEPT ![Target(w)] = Expected(w)]
    /\ Goto(w, "verify")
    /\ UNCHANGED <<release, build, rows, file, started, serving, history>>

Verify(w) ==
    /\ At(w, "verify")
    /\ partial[Target(w)] = Expected(w)
    /\ Goto(w, "replace")
    /\ UNCHANGED <<release, build, rows, file, partial, started, serving, history>>

\* What an error leads to: the papers are imported, and derived builds are
\* made, inside a try whose handler records the failure; the reads and writes
\* before it, and the copy of the manifest, are outside.
Recovers(w) ==
    \/ At(w, "fill")
    \/ At(w, "seal")
    \/ worker[w].row > 0

Abandon(w) == IF Recovers(w) THEN Goto(w, "fail") ELSE Leave(w)

\* Another import put its own content there: remove it and give up.
RejectCopy(w) ==
    /\ At(w, "verify")
    /\ partial[Target(w)] # Expected(w)
    /\ partial[Target(w)] # "absent"
    /\ partial' = [partial EXCEPT ![Target(w)] = "absent"]
    /\ Abandon(w)
    /\ UNCHANGED <<release, build, rows, file, started, serving, history>>

\* The rename moves whatever the .partial holds by now.
Replace(w) ==
    /\ At(w, "replace")
    /\ partial[Target(w)] # "absent"
    /\ file' = [file EXCEPT ![Target(w)] = partial[Target(w)]]
    /\ partial' = [partial EXCEPT ![Target(w)] = "absent"]
    /\ Copied(w)
    /\ UNCHANGED <<release, build, rows, started, serving, history>>

StorePastEnd(w) ==
    /\ At(w, "store")
    /\ rows' = [rows EXCEPT ![Job(w)] = @ \cup {<<Target(w), file[Target(w)]>>}]
    /\ IF worker[w].row > Len(Rows[Manifest(w)])
       THEN Goto(w, "seal")
       ELSE GotoItem(w, worker[w].row + 1)
    /\ UNCHANGED <<release, build, file, partial, started, serving, history>>

\* Parse the file in place and insert the paper in one transaction
\* (_insert_paper); the build must not have the paper already.
Store(w) ==
    /\ At(w, "store")
    /\ \A r \in rows[Job(w)] : r[1] # Target(w)
    /\ rows' = [rows EXCEPT ![Job(w)] = @ \cup {<<Target(w), file[Target(w)]>>}]
    /\ IF worker[w].row = Len(Rows[Manifest(w)])
       THEN Goto(w, "seal")
       ELSE GotoItem(w, worker[w].row + 1)
    /\ UNCHANGED <<release, build, file, partial, started, serving, history>>

-----------------------------------------------------------------------------
(* Derived builds.                                                         *)

\* _prepare of a builder: a sealed build is the answer, any other is deleted
\* and inserted afresh.
Prepare(w) ==
    /\ At(w, "prepare")
    /\ IF build[Job(w)] = "sealed"
       THEN Leave(w) /\ UNCHANGED <<build, rows>>
       ELSE /\ build' = [build EXCEPT ![Job(w)] = "running"]
            /\ rows' = [rows EXCEPT ![Job(w)] = {}]
            /\ Goto(w, "fill")
    /\ UNCHANGED <<release, file, partial, started, serving, contended>>

\* Read the relational build, compute, and store in one transaction: _chunks
\* and _store, or _populate.  What was read is still there when it is stored,
\* for the relational build is sealed (SealedForGood).
Fill(w) ==
    /\ At(w, "fill")
    /\ rows' = [rows EXCEPT ![Job(w)] = rows[Import(Manifest(w))]]
    /\ Goto(w, "seal")
    /\ UNCHANGED <<release, build, file, partial, started, serving, history>>

-----------------------------------------------------------------------------
(* The end of a command.                                                   *)

\* _seal_release and _seal: no status is asked for.
Seal(w) ==
    /\ At(w, "seal")
    /\ build' = [build EXCEPT ![Job(w)] = "sealed"]
    /\ release' = IF Job(w)[1] = "relational"
                  THEN [release EXCEPT !.status = "sealed"] ELSE release
    /\ Leave(w)
    /\ UNCHANGED <<rows, file, partial, started, serving, history>>

\* A step fails: a source file that does not match the manifest, a conflict,
\* a missing .partial, a paper that does not parse, the disk, the database,
\* the embedding provider.  Its transaction is rolled back.
Raise(w) ==
    /\ Busy(w)
    /\ ~At(w, "fail")
    /\ Abandon(w)
    /\ UNCHANGED <<release, build, rows, file, partial, started, serving, history>>

\* _fail_release and _fail.
Fail(w) ==
    /\ At(w, "fail")
    /\ build' = [build EXCEPT ![Job(w)] = "failed"]
    /\ release' = IF Job(w)[1] = "relational" /\ release.status # "sealed"
                  THEN [release EXCEPT !.status = "failed"] ELSE release
    /\ Leave(w)
    /\ UNCHANGED <<rows, file, partial, started, serving, history>>

\* The failure cannot be recorded either, and that error is swallowed.
FailUnrecorded(w) ==
    /\ At(w, "fail")
    /\ Leave(w)
    /\ UNCHANGED <<release, build, rows, file, partial, started, serving, contended>>

\* The process dies or is interrupted (no handler catches that); its
\* connection goes and with it its lock.  In the middle of a copy it leaves a
\* torn .partial.
Crash(w) ==
    /\ Busy(w)
    /\ \/ partial' = partial
       \/ At(w, "write") /\ partial' = [partial EXCEPT ![Target(w)] = "torn"]
    /\ Leave(w)
    /\ UNCHANGED <<release, build, rows, file, started, serving, contended>>

-----------------------------------------------------------------------------
(* Snapshots and the serving channel.                                      *)

CreateSnapshotUnsealed(s) ==
    /\ build[Import(s.relational)] = "sealed"
    /\ \A j \in s.derived : build[j] # "none" /\ j[2] = s.relational
    /\ snapshots' = snapshots \cup {s}
    /\ UNCHANGED <<pipeline, channel, seen, history>>

\* SnapshotBuilder.create: all builds are sealed and the derived ones come
\* from the relational one.  A snapshot that exists is left as it is.
CreateSnapshot(s) ==
    /\ build[Import(s.relational)] = "sealed"
    /\ \A j \in s.derived : build[j] = "sealed" /\ j[2] = s.relational
    /\ snapshots' = snapshots \cup {s}
    /\ UNCHANGED <<pipeline, channel, seen, history>>

\* What the command line may ask for: at most one build of each kind.
Requests ==
    {s \in [relational : Manifests, derived : SUBSET (Derived \X Manifests)] :
        \A i, j \in s.derived : i[1] = j[1] => i = j}

\* An operator looks at the channel before a cut-over.
ReadChannel ==
    /\ seen' = [read |-> TRUE, channel |-> channel]
    /\ UNCHANGED <<pipeline, snapshots, channel, history>>

ActivateInPlace(s, expected) ==
    /\ s \in snapshots
    /\ channel.revision < MaxRevision
    /\ expected => seen.read /\ seen.channel.revision = channel.revision
    /\ channel' = [snapshot |-> s, revision |-> IF channel.revision = 0 THEN 1
                                                ELSE channel.revision]
    /\ seen' = IF expected THEN [seen EXCEPT !.read = FALSE] ELSE seen
    /\ UNCHANGED <<pipeline, snapshots, history>>

\* activate_snapshot, with the revision last seen as expected_revision or
\* with none.  The channel's row is locked from the comparison to the commit.
Activate(s, expected) ==
    /\ s \in snapshots
    /\ channel.revision < MaxRevision
    /\ expected => seen.read /\ seen.channel.revision = channel.revision
    /\ channel' = [snapshot |-> s, revision |-> channel.revision + 1]
    /\ seen' = IF expected THEN [seen EXCEPT !.read = FALSE] ELSE seen
    /\ UNCHANGED <<pipeline, snapshots, history>>

Step(w) ==
    \/ \E j \in Jobs : Begin(w, j)
    \/ Refuse(w)
    \/ FindSealed(w)
    \/ Proceed(w)
    \/ Register(w)
    \/ Look(w)
    \/ Write(w)
    \/ Verify(w)
    \/ RejectCopy(w)
    \/ Replace(w)
    \/ Store(w)
    \/ Prepare(w)
    \/ Fill(w)
    \/ Seal(w)
    \/ Raise(w)
    \/ Fail(w)
    \/ FailUnrecorded(w)
    \/ Crash(w)

Next ==
    \/ \E w \in Workers : Step(w)
    \/ \E s \in Requests : CreateSnapshot(s)
    \/ ReadChannel
    \/ \E s \in snapshots, expected \in BOOLEAN : Activate(s, expected)

Spec == Init /\ [][Next]_vars

-----------------------------------------------------------------------------
(* Properties.                                                             *)

Sealed(j) == build[j] = "sealed"

\* What a build made from manifest m must hold.
Whole(m) == {<<p, Version[m][p]>> : p \in {Rows[m][n] : n \in DOMAIN Rows[m]}}

\* However often an import was cut short and tried again, a sealed build has
\* every paper of its manifest, each with the content the manifest names,
\* unless imports of two manifests shared the artifact directory.
SealedBuildIsWhole ==
    \A m \in Manifests : Sealed(Import(m)) =>
        /\ {r[1] : r \in rows[Import(m)]} = {r[1] : r \in Whole(m)}
        /\ contended \/ rows[Import(m)] = Whole(m)

\* A sealed build is never opened, emptied or failed again, and a sealed
\* release never leaves that state, whatever rival commands do.
SealedForGood ==
    [][/\ \A j \in Jobs : Sealed(j) => build'[j] = "sealed" /\ rows'[j] = rows[j]
       /\ release.status = "sealed" => release'.status = "sealed"]_vars

\* The release is sealed exactly when one of its relational builds is, though
\* several imports move the one row.
ReleaseFollowsBuilds ==
    release.status = "sealed" <=> \E m \in Manifests : Sealed(Import(m))

\* What is served has been sealed, every part of it, and its derived builds
\* were computed from all of the relational build they are served with.
ServedIsWhole ==
    channel.revision > 0 =>
        LET s == channel.snapshot
        IN /\ Sealed(Import(s.relational))
           /\ \A j \in s.derived :
                 Sealed(j) /\ rows[j] = rows[Import(s.relational)]

\* A cut-over that names the revision its operator saw replaces the very
\* snapshot that operator saw.
CutoverReplacesSeen ==
    [][seen.read /\ ~seen'.read => channel = seen.channel]_vars

=============================================================================
