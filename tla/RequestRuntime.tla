--------------------------- MODULE RequestRuntime ---------------------------
(***************************************************************************)
(* A call of a Scholar tool, from its permits to its envelope: runtime.py  *)
(* (RequestCoordinator), the pooled connections of database.py, and the    *)
(* services and repositories of scholar/v2, which read projection builds   *)
(* of the snapshot the call has pinned.  The serving channel is moved while*)
(* calls are running.                                                      *)
(*                                                                         *)
(* What a query returns is left out; which build it reads, and that it     *)
(* holds a connection while it does, is not.  Consecutive queries of one   *)
(* build are one step.                                                     *)
(***************************************************************************)
EXTENDS Naturals, Sequences, FiniteSets

CONSTANTS
    Threads,         \* callers being served
    Operations,      \* the service operations called
    Snapshots,       \* serving snapshots that are ready
    Build,           \* Build[s][k]: the build of kind k in snapshot s, or None
    None,
    MaxInflight,     \* V2_MAX_INFLIGHT
    Limit,           \* set_tool_limit: permits of the operations that have some
    MaxConnections   \* V2_PG_POOL_MAX

Kinds == {"relational", "lexical", "vector", "graph"}

-----------------------------------------------------------------------------
(* Which builds an operation reads, and in which order *)

\* One query, or a few of one build, in one connection after another.
ResolveWorkId   == <<"relational">>
PaperRow        == <<"relational">>
Sections        == <<"relational">>
Tables          == <<"relational">>
References      == <<"relational">>
LexicalPassages == <<"lexical">>
GraphEdges      == <<"graph">>

\* vector_model, the embedding of the query, and the nearest chunks.
VectorPassages == <<"model", "embed", "vector">>

GetPaper      == ResolveWorkId \o PaperRow
Parsed        == GetPaper \o Sections
Hybrid        == ResolveWorkId \o LexicalPassages \o VectorPassages
Neighbors     == ResolveWorkId \o GraphEdges \o References
Lineage       == ResolveWorkId \o ResolveWorkId \o GraphEdges \o References
Contexts      == ResolveWorkId \o GraphEdges
CompareTables == ResolveWorkId \o Tables
Outline       == ResolveWorkId \o Sections \o GetPaper
SectionText   == ResolveWorkId \o Sections \o GetPaper
Modules       == ResolveWorkId \o Sections
Recommended   == GetPaper \o Hybrid
Gaps          == Sections

Plan ==
    [search_papers     |-> PaperRow,
     list_papers       |-> PaperRow,
     get_paper         |-> GetPaper,
     get_paper_outline |-> Outline,
     get_section_text  |-> SectionText,
     get_method_modules |-> Modules,
     get_experiment_table |-> CompareTables,
     read_parsed_paper |-> Parsed,
     vector_passages   |-> ResolveWorkId \o VectorPassages,
     hybrid_passages   |-> Hybrid,
     verify_claims     |-> Hybrid,
     recommend_papers  |-> Recommended,
     compare_results   |-> CompareTables,
     get_gap_evidence  |-> Gaps,
     get_lineage       |-> Lineage,
     graph_neighbors   |-> Neighbors,
     graph_stats       |-> GraphEdges,
     get_citation_context |-> Contexts,
     auto_notes        |-> PaperRow]   \* the papers; then Parsed for each

\* Operations that fail without vectors; the others say they are degraded.
VectorOnly == {"vector_passages"}

\* Operations whose envelope is degraded whatever was found.
AlwaysDegraded == {"verify_claims", "compare_results"}

Wants(op, kind) == \E i \in DOMAIN Plan[op] : Plan[op][i] = kind

BuildsOf(s) == {Build[s][k] : k \in Kinds} \ {None}

ASSUME RuntimeAssumption ==
    /\ Operations \subseteq DOMAIN Plan
    /\ DOMAIN Limit \subseteq Operations
    /\ Limit \in [DOMAIN Limit -> Nat \ {0}]
    /\ MaxInflight \in Nat \ {0}
    /\ MaxConnections \in Nat \ {0}
    /\ None \notin Snapshots
    /\ \A s \in Snapshots : /\ Kinds \subseteq DOMAIN Build[s]
                            /\ Build[s]["relational"] # None
                            /\ Build[s]["lexical"] # None

VARIABLES
    channel,     \* the snapshot the serving channel leads to
    call,        \* what each caller is doing
    conn,        \* callers holding a pooled connection
    globalFree,  \* _global_permits
    toolFree,    \* _tool_limits
    dbFree       \* V2Database._permits

vars == <<channel, call, conn, globalFree, toolFree, dbFree>>
permits == <<globalFree, toolFree>>

Idle == [at |-> "idle", op |-> None, snap |-> None, left |-> <<>>, read |-> {},
         degraded |-> FALSE, late |-> FALSE]

\* Callers inside `with coordinator.request(...)', past the global permit, and
\* past the permit of their tool.
Inside   == {h \in Threads : call[h].at \in {"tool", "pin", "work", "reply"}}
InTool(op) == {h \in Threads : call[h].op = op /\ call[h].at \in {"pin", "work", "reply"}}

\* Every variable holds a value of its type.
TypeOK ==
    /\ channel \in Snapshots \cup {None}
    /\ \A h \in Threads :
          /\ call[h].at \in {"idle", "global", "tool", "pin", "work", "reply"}
          /\ call[h].op \in Operations \cup {None}
          /\ call[h].snap \in Snapshots \cup {None}
          /\ call[h].at \in {"work", "reply"} => call[h].snap # None
          /\ call[h].degraded \in BOOLEAN /\ call[h].late \in BOOLEAN
    /\ conn \subseteq Threads
    /\ globalFree \in 0..MaxInflight
    /\ toolFree \in [DOMAIN Limit -> Nat]
    /\ dbFree \in 0..MaxConnections

Init ==
    /\ channel \in Snapshots \cup {None}
    /\ call = [h \in Threads |-> Idle]
    /\ conn = {}
    /\ globalFree = MaxInflight
    /\ toolFree = Limit
    /\ dbFree = MaxConnections

-----------------------------------------------------------------------------
(* Permits of the coordinator *)

Call(h, op) ==
    /\ call[h].at = "idle"
    /\ call' = [call EXCEPT ![h].at = "global", ![h].op = op]
    /\ UNCHANGED <<channel, conn, globalFree, toolFree, dbFree>>

AcquireGlobal(h) ==
    /\ call[h].at = "global"
    /\ globalFree > 0
    /\ globalFree' = globalFree - 1
    /\ call' = [call EXCEPT ![h].at = "tool"]
    /\ UNCHANGED <<channel, conn, toolFree, dbFree>>

\* SERVER_BUSY or DEADLINE_EXCEEDED: the wait is bounded, nothing is held.
GlobalBusy(h) ==
    /\ call[h].at = "global"
    /\ globalFree = 0
    /\ call' = [call EXCEPT ![h] = Idle]
    /\ UNCHANGED <<channel, conn, globalFree, toolFree, dbFree>>

AcquireTool(h) ==
    /\ call[h].at = "tool"
    /\ IF call[h].op \in DOMAIN Limit
       THEN /\ toolFree[call[h].op] > 0
            /\ toolFree' = [toolFree EXCEPT ![call[h].op] = @ - 1]
       ELSE UNCHANGED toolFree
    /\ call' = [call EXCEPT ![h].at = "pin"]
    /\ UNCHANGED <<channel, conn, globalFree, dbFree>>

\* A mutant of Release: the tool's permit is given back only after an answer.
ReleaseAfterAnswer(h) ==
    /\ globalFree' = globalFree + 1
    /\ toolFree' = IF call[h].at = "reply" /\ call[h].op \in DOMAIN Limit
                   THEN [toolFree EXCEPT ![call[h].op] = @ + 1]
                   ELSE toolFree

\* A mutant of Release: the global permit is given back before the tool's wait
\* is over as well as after it.
ReleaseTwice(h) ==
    /\ globalFree' = globalFree + (IF call[h].at = "tool" THEN 2 ELSE 1)
    /\ toolFree' = IF h \in InTool(call[h].op) /\ call[h].op \in DOMAIN Limit
                   THEN [toolFree EXCEPT ![call[h].op] = @ + 1]
                   ELSE toolFree

\* The finally of request: what was acquired is released, in whatever way the
\* body was left.
Release(h) ==
    /\ globalFree' = globalFree + 1
    /\ toolFree' = IF h \in InTool(call[h].op) /\ call[h].op \in DOMAIN Limit
                   THEN [toolFree EXCEPT ![call[h].op] = @ + 1]
                   ELSE toolFree

Leave(h) == call' = [call EXCEPT ![h] = Idle] /\ Release(h)

\* auto_notes knows its papers and reads one of them after the other.
Noting(h) ==
    /\ call[h].at = "work"
    /\ call[h].op = "auto_notes"
    /\ Build[call[h].snap]["relational"] \in call[h].read

\* An error ends the call, except that auto_notes counts a paper as failed and
\* goes on.
Fail(h) ==
    IF Noting(h)
    THEN call' = [call EXCEPT ![h].left = <<>>] /\ UNCHANGED permits
    ELSE Leave(h)

ToolBusy(h) ==
    /\ call[h].at = "tool"
    /\ call[h].op \in DOMAIN Limit
    /\ toolFree[call[h].op] = 0
    /\ Leave(h)
    /\ UNCHANGED <<channel, conn, dbFree>>

-----------------------------------------------------------------------------
(* Pooled connections *)

\* The next thing the caller does is a query.
NeedsConnection(h) ==
    \/ call[h].at = "pin"
    \/ /\ call[h].at = "work"
       /\ call[h].left # <<>>
       /\ Head(call[h].left) # "embed"
       /\ Head(call[h].left) = "model" => Build[call[h].snap]["vector"] # None

TakeConnection(h) ==
    /\ NeedsConnection(h) /\ h \notin conn
    /\ dbFree > 0
    /\ dbFree' = dbFree - 1
    /\ conn' = conn \cup {h}
    /\ UNCHANGED <<channel, call, globalFree, toolFree>>

\* A mutant of PoolBusy: the permit of the pool is waited for without a timeout.
PoolWaits(h) == FALSE /\ UNCHANGED vars

\* The pool stays exhausted for acquire_timeout_ms.
PoolBusy(h) ==
    /\ NeedsConnection(h) /\ h \notin conn
    /\ dbFree = 0
    /\ Fail(h)
    /\ UNCHANGED <<channel, conn, dbFree>>

\* The finally of connection, after a commit or a rollback.
GiveBack(h) == conn' = conn \ {h} /\ dbFree' = dbFree + 1

\* A statement or lock timeout, NOT_FOUND, or any other error of a query.
QueryFails(h) ==
    /\ h \in conn
    /\ GiveBack(h)
    /\ Fail(h)
    /\ UNCHANGED <<channel>>

-----------------------------------------------------------------------------
(* The body of the call *)

\* active_snapshot, and the check that the deadline has not passed.
PinSnapshot(h) ==
    /\ call[h].at = "pin" /\ h \in conn
    /\ GiveBack(h)
    /\ LET unready == \/ channel = None
                      \/ call[h].late
                      \/ Wants(call[h].op, "graph") /\ Build[channel]["graph"] = None
       IN  IF unready
           THEN Leave(h)
           ELSE /\ call' = [call EXCEPT ![h].at = "work", ![h].snap = channel,
                               ![h].left = Plan[call[h].op],
                               ![h].degraded = call[h].op \in AlwaysDegraded]
                /\ UNCHANGED permits
    /\ UNCHANGED <<channel>>

\* A mutant of BuildRead: each query asks for the active snapshot again.
BuildServed(h, kind) ==
    IF kind = "model" \/ channel = None THEN {} ELSE {Build[channel][kind]}

\* The builds a query's rows come from: the pinned snapshot's; the name of the
\* embedding model is no part of the answer.
BuildRead(h, kind) == IF kind = "model" THEN {} ELSE {Build[call[h].snap][kind]}

Query(h) ==
    /\ call[h].at = "work" /\ h \in conn
    /\ GiveBack(h)
    /\ call' = [call EXCEPT ![h].left = Tail(@),
                            ![h].read = @ \cup BuildRead(h, Head(call[h].left))]
    /\ UNCHANGED <<channel, globalFree, toolFree>>

\* No vector build, another embedding model, or no embedding: an operation
\* that can do without goes on and says so.
WithoutVectors(h) ==
    IF call[h].op \in VectorOnly
    THEN Leave(h)
    ELSE /\ call' = [call EXCEPT ![h].left = <<>>, ![h].degraded = TRUE]
         /\ UNCHANGED permits

NoVectors(h) ==
    /\ call[h].at = "work" /\ call[h].left # <<>>
    /\ \/ Head(call[h].left) = "model" /\ Build[call[h].snap]["vector"] = None
       \/ Head(call[h].left) = "embed"
    /\ h \notin conn
    /\ WithoutVectors(h)
    /\ UNCHANGED <<channel, conn, dbFree>>

\* The provider answers in time, or fails and the call with it.
Embed(h) ==
    /\ call[h].at = "work" /\ call[h].left # <<>> /\ Head(call[h].left) = "embed"
    /\ \/ /\ ~call[h].late
          /\ call' = [call EXCEPT ![h].left = Tail(@)]
          /\ UNCHANGED permits
       \/ Leave(h)
    /\ UNCHANGED <<channel, conn, dbFree>>

\* There is one more paper to write a note about; the deadline is checked before
\* each.  Papers that have their note are passed over.
NextNote(h) ==
    /\ Noting(h) /\ call[h].left = <<>>
    /\ IF call[h].late
       THEN Leave(h)
       ELSE call' = [call EXCEPT ![h].left = Parsed] /\ UNCHANGED permits
    /\ UNCHANGED <<channel, conn, dbFree>>

\* _envelope checks the deadline once more and names the snapshot; auto_notes
\* names it without that check.
Answer(h) ==
    /\ call[h].at = "work" /\ call[h].left = <<>>
    /\ IF call[h].late /\ call[h].op # "auto_notes"
       THEN Leave(h)
       ELSE call' = [call EXCEPT ![h].at = "reply"] /\ UNCHANGED permits
    /\ UNCHANGED <<channel, conn, dbFree>>

Return(h) ==
    /\ call[h].at = "reply"
    /\ Leave(h)
    /\ UNCHANGED <<channel, conn, dbFree>>

-----------------------------------------------------------------------------
(* Surroundings *)

DeadlinePasses(h) ==
    /\ call[h].at # "idle" /\ ~call[h].late
    /\ call' = [call EXCEPT ![h].late = TRUE]
    /\ UNCHANGED <<channel, conn, globalFree, toolFree, dbFree>>

\* `scholar v2 activate' in another process.
CutOver(s) ==
    /\ channel # s
    /\ channel' = s
    /\ UNCHANGED <<call, conn, globalFree, toolFree, dbFree>>

Proceed(h) ==
    \/ AcquireGlobal(h) \/ GlobalBusy(h) \/ AcquireTool(h) \/ ToolBusy(h)
    \/ TakeConnection(h) \/ PoolBusy(h) \/ QueryFails(h) \/ PinSnapshot(h)
    \/ Query(h) \/ NoVectors(h) \/ Embed(h) \/ NextNote(h) \/ Answer(h) \/ Return(h)

Next ==
    \/ \E h \in Threads : \/ \E op \in Operations : Call(h, op)
                          \/ Proceed(h)
                          \/ DeadlinePasses(h)
    \/ \E s \in Snapshots : CutOver(s)

\* Permits and connections are waited for with a timeout, statements and the
\* provider's answer are bounded by one; nothing makes anybody call.  Time passes,
\* so the deadline comes that ends the loop of auto_notes if no end of papers does.
Fairness == \A h \in Threads : WF_vars(Proceed(h)) /\ WF_vars(DeadlinePasses(h))

Spec == Init /\ [][Next]_vars /\ Fairness

-----------------------------------------------------------------------------
(* Correctness *)

\* Permits and connections are conserved on every way out of a call: errors of
\* queries, timeouts of the three waits, deadlines, missing projections
\* (runtime.py:72-107, database.py:77-134).
PermitsAddUp ==
    /\ globalFree + Cardinality(Inside) = MaxInflight
    /\ \A op \in DOMAIN Limit : toolFree[op] + Cardinality(InTool(op)) = Limit[op]
    /\ dbFree + Cardinality(conn) = MaxConnections

\* "One active channel pins all projections for a request" (docs/scholar-v2.md):
\* an answer was made from builds of the one snapshot it names, however often
\* the channel was moved meanwhile, and one that lacks vectors it was to use
\* says that it is degraded.
AnswersArePinned ==
    \A h \in Threads : call[h].at = "reply" =>
        /\ call[h].read \subseteq BuildsOf(call[h].snap)
        /\ \A k \in Kinds :
              (Wants(call[h].op, k) /\ Build[call[h].snap][k] \notin call[h].read)
                  => call[h].degraded

\* No wait is for ever: whatever the others hold, every caller is through with
\* its call again and again, or for good (database.py:79-90, runtime.py:68-96).
EveryCallEnds == \A h \in Threads : []<>(call[h].at = "idle")
=============================================================================
