------------------------ MODULE RequestRuntimeProofs ------------------------
(***************************************************************************)
(* Theorems about RequestRuntime for any number of callers, operations,    *)
(* snapshots, permits and connections: what is acquired is accounted for,  *)
(* and an answer is made of the snapshot it names.                         *)
(*                                                                         *)
(* The argument for the permits: each step moves at most one caller across *)
(* a counter, and with it changes that counter by one.  For the answers: a *)
(* query that is still to come, or was made, accounts for every build a    *)
(* call wants, and one of vectors comes only after their model was found.  *)
(***************************************************************************)
EXTENDS RequestRuntime, SequenceTheorems, FiniteSetTheorems, TLAPS

USE RuntimeAssumption DEF RuntimeAssumption

Queries == Kinds \cup {"model", "embed"}
Stages == {"idle", "global", "tool", "pin", "work", "reply"}
Contents == {Build[s][k] : s \in Snapshots, k \in Kinds}

Record == [at : Stages, op : Operations \cup {None}, snap : Snapshots \cup {None},
           left : Seq(Queries), read : SUBSET Contents,
           degraded : BOOLEAN, late : BOOLEAN]

\* The record of a call.
Called(c) ==
    /\ c \in Record
    /\ c.at # "idle" => c.op \in Operations
    /\ c.at \in {"work", "reply"} => c.snap \in Snapshots

Typed ==
    /\ channel \in Snapshots \cup {None}
    /\ call \in [Threads -> Record]
    /\ \A h \in Threads : Called(call[h])
    /\ conn \subseteq Threads

Holds(c) == c.at \in {"tool", "pin", "work", "reply"}
HoldsTool(c, op) == c.op = op /\ c.at \in {"pin", "work", "reply"}

\* A counter of permits and the set of those who hold one.
Accounted(free, holders, total) ==
    /\ IsFiniteSet(holders)
    /\ free \in Nat
    /\ free + Cardinality(holders) = total

PermitsCounted ==
    /\ Accounted(globalFree, Inside, MaxInflight)
    /\ toolFree \in [DOMAIN Limit -> Nat]
    /\ \A op \in DOMAIN Limit : Accounted(toolFree[op], InTool(op), Limit[op])

ConnectionsCounted == Accounted(dbFree, conn, MaxConnections)

-----------------------------------------------------------------------------
(* Counting.                                                               *)

LEMMA OneMore ==
    ASSUME NEW free, NEW holders, NEW total, NEW h, h \notin holders, free > 0,
           Accounted(free, holders, total)
    PROVE  Accounted(free - 1, holders \cup {h}, total)
<1>1. IsFiniteSet(holders) /\ Cardinality(holders) \in Nat
  BY FS_CardinalityType DEF Accounted
<1>2. IsFiniteSet(holders \cup {h})
      /\ Cardinality(holders \cup {h}) = Cardinality(holders) + 1
  BY <1>1, FS_AddElement
<1>. QED
  BY <1>1, <1>2 DEF Accounted

LEMMA OneLess ==
    ASSUME NEW free, NEW holders, NEW total, NEW h \in holders,
           Accounted(free, holders, total)
    PROVE  Accounted(free + 1, holders \ {h}, total)
<1>1. IsFiniteSet(holders) /\ Cardinality(holders) \in Nat
  BY FS_CardinalityType DEF Accounted
<1>2. IsFiniteSet(holders \ {h})
      /\ Cardinality(holders \ {h}) = Cardinality(holders) - 1
  BY <1>1, FS_RemoveElement
<1>. QED
  BY <1>1, <1>2 DEF Accounted

\* What a step does to a caller's record, and to the sets of holders.
LEMMA CallSet ==
    ASSUME Typed, NEW h \in Threads, NEW c, Called(c),
           call' = [call EXCEPT ![h] = c]
    PROVE  /\ call' \in [Threads -> Record]
           /\ call'[h] = c
           /\ \A g \in Threads : g # h => call'[g] = call[g]
           /\ \A g \in Threads : Called(call'[g])
  BY DEF Typed, Called

LEMMA InsideSet ==
    ASSUME Typed, NEW h \in Threads, NEW c, Called(c),
           call' = [call EXCEPT ![h] = c]
    PROVE  /\ Inside' = IF Holds(c) THEN Inside \cup {h} ELSE Inside \ {h}
           /\ \A op : InTool(op)' = IF HoldsTool(c, op) THEN InTool(op) \cup {h}
                                    ELSE InTool(op) \ {h}
<1>1. call'[h] = c /\ \A g \in Threads : g # h => call'[g] = call[g]
  BY CallSet
<1>. QED
  BY <1>1 DEF Inside, InTool, Holds, HoldsTool

\* A caller that keeps what it holds.
LEMMA StayCounts ==
    ASSUME Typed, PermitsCounted, NEW h \in Threads, NEW c, Called(c),
           call' = [call EXCEPT ![h] = c],
           Holds(c) <=> Holds(call[h]),
           \A op \in DOMAIN Limit : HoldsTool(c, op) <=> HoldsTool(call[h], op),
           UNCHANGED permits
    PROVE  PermitsCounted'
<1>1. Inside' = Inside
  BY InsideSet DEF Inside, Holds
<1>2. \A op \in DOMAIN Limit : InTool(op)' = InTool(op)
  BY InsideSet DEF InTool, HoldsTool
<1>. QED
  BY <1>1, <1>2 DEF PermitsCounted, permits

\* A caller that leaves from inside.
LEMMA LeaveCounts ==
    ASSUME Typed, PermitsCounted, NEW h \in Threads, Holds(call[h]), Leave(h)
    PROVE  PermitsCounted'
<1>1. Called(Idle) /\ call' = [call EXCEPT ![h] = Idle]
  BY DEF Leave, Called, Idle, Record, Stages, Queries
<1>2. ~Holds(Idle) /\ \A op : ~HoldsTool(Idle, op)
  BY DEF Holds, HoldsTool, Idle
<1>3. Inside' = Inside \ {h} /\ \A op : InTool(op)' = InTool(op) \ {h}
  BY <1>1, <1>2, InsideSet
<1>4. h \in Inside /\ globalFree' = globalFree + 1
  BY DEF Inside, Holds, Leave, Release
<1>5. Accounted(globalFree', Inside', MaxInflight)
  BY <1>3, <1>4, OneLess DEF PermitsCounted
<1>6. toolFree' = IF h \in InTool(call[h].op) /\ call[h].op \in DOMAIN Limit
                  THEN [toolFree EXCEPT ![call[h].op] = @ + 1] ELSE toolFree
  BY DEF Leave, Release
<1>7. toolFree' \in [DOMAIN Limit -> Nat]
  BY <1>6 DEF PermitsCounted
<1>8. ASSUME NEW op \in DOMAIN Limit
      PROVE  Accounted(toolFree'[op], InTool(op)', Limit[op])
  <2>1. Accounted(toolFree[op], InTool(op), Limit[op])
    BY DEF PermitsCounted
  <2>2. CASE h \in InTool(op)
    <3>1. call[h].op = op
      BY <2>2 DEF InTool
    <3>2. toolFree'[op] = toolFree[op] + 1
      BY <1>6, <2>2, <3>1 DEF PermitsCounted
    <3>. QED
      BY <1>3, <2>1, <2>2, <3>2, OneLess
  <2>3. CASE h \notin InTool(op)
    <3>1. toolFree'[op] = toolFree[op]
      BY <1>6, <2>3 DEF PermitsCounted
    <3>2. InTool(op)' = InTool(op)
      BY <1>3, <2>3
    <3>. QED
      BY <2>1, <3>1, <3>2
  <2>. QED
    BY <2>2, <2>3
<1>. QED
  BY <1>5, <1>7, <1>8 DEF PermitsCounted

-----------------------------------------------------------------------------
(* What the queries of a call lead to.                                     *)

\* Vectors are read only after their model was looked up, or are there.
Readable(left, s) ==
    \A i \in 1..Len(left) :
       /\ left[i] = "vector" =>
             Build[s]["vector"] # None \/ \E j \in 1..(i - 1) : left[j] = "model"
       /\ left[i] = "graph" => Build[s]["graph"] # None

Coming(left, k) == \E i \in 1..Len(left) : left[i] = k

\* A call reads its own snapshot, and reads, or has yet to read, what it wants,
\* or says that it does without.
Faithful(c) ==
    /\ c.at \notin {"work", "reply"} => c.read = {}
    /\ c.at = "work" => Readable(c.left, c.snap)
    /\ c.at \in {"work", "reply"} =>
          /\ c.read \subseteq BuildsOf(c.snap)
          /\ \A k \in Kinds : Wants(c.op, k) =>
                \/ c.at = "work" /\ Coming(c.left, k)
                \/ Build[c.snap][k] \in c.read
                \/ c.degraded

\* Who holds a connection is about to query.
Needs(c) ==
    \/ c.at = "pin"
    \/ /\ c.at = "work"
       /\ c.left # <<>>
       /\ Head(c.left) # "embed"
       /\ Head(c.left) = "model" => Build[c.snap]["vector"] # None

Calling ==
    /\ \A h \in Threads : Faithful(call[h])
    /\ \A h \in conn : Needs(call[h])

IInv == Typed /\ PermitsCounted /\ ConnectionsCounted /\ Calling

LEMMA NeedsIsNeeds == \A h \in Threads : NeedsConnection(h) <=> Needs(call[h])
  BY DEF NeedsConnection, Needs

LEMMA TailOf ==
    ASSUME NEW s \in Seq(Queries), s # <<>>
    PROVE  /\ Head(s) \in Queries /\ Head(s) = s[1]
           /\ Tail(s) \in Seq(Queries)
           /\ Len(s) \in Nat \ {0} /\ Len(Tail(s)) = Len(s) - 1
           /\ \A i \in 1..Len(Tail(s)) : Tail(s)[i] = s[i + 1]
<1>1. Len(s) \in Nat \ {0}
  BY EmptySeq
<1>. QED
  BY <1>1, HeadTailProperties

LEMMA TailReadable ==
    ASSUME NEW left \in Seq(Queries), left # <<>>, NEW s, Readable(left, s),
           Head(left) = "model" => Build[s]["vector"] # None
    PROVE  Readable(Tail(left), s)
<1>1. /\ Head(left) = left[1]
      /\ Len(left) \in Nat \ {0} /\ Len(Tail(left)) = Len(left) - 1
      /\ \A i \in 1..Len(Tail(left)) : Tail(left)[i] = left[i + 1]
  BY TailOf
<1>2. ASSUME NEW i \in 1..Len(Tail(left))
      PROVE  /\ i + 1 \in 1..Len(left) /\ Tail(left)[i] = left[i + 1]
             /\ (i + 1) - 1 = i /\ i \in Nat
  BY <1>1
<1>3. ASSUME NEW i \in 1..Len(Tail(left)), Tail(left)[i] = "vector",
             Build[s]["vector"] = None
      PROVE  \E j \in 1..(i - 1) : Tail(left)[j] = "model"
  <2>1. PICK j \in 1..i : left[j] = "model"
    BY <1>2, <1>3 DEF Readable
  <2>2. j # 1
    BY <1>1, <1>3, <2>1
  <2>3. j - 1 \in 1..(i - 1) /\ j - 1 \in 1..Len(Tail(left)) /\ (j - 1) + 1 = j
    BY <1>1, <1>2, <2>2
  <2>4. Tail(left)[j - 1] = left[j]
    BY <1>1, <2>3
  <2>. QED
    BY <2>1, <2>3, <2>4
<1>4. ASSUME NEW i \in 1..Len(Tail(left)), Tail(left)[i] = "graph"
      PROVE  Build[s]["graph"] # None
  BY <1>2, <1>4 DEF Readable
<1>. QED
  BY <1>3, <1>4 DEF Readable

LEMMA TailComing ==
    ASSUME NEW left \in Seq(Queries), left # <<>>, NEW k, Coming(left, k),
           k # Head(left)
    PROVE  Coming(Tail(left), k)
<1>1. /\ Head(left) = left[1]
      /\ Len(left) \in Nat \ {0} /\ Len(Tail(left)) = Len(left) - 1
      /\ \A i \in 1..Len(Tail(left)) : Tail(left)[i] = left[i + 1]
  BY TailOf
<1>2. PICK i \in 1..Len(left) : left[i] = k
  BY DEF Coming
<1>3. i # 1
  BY <1>1, <1>2
<1>4. i - 1 \in 1..Len(Tail(left)) /\ (i - 1) + 1 = i
  BY <1>1, <1>3
<1>5. Tail(left)[i - 1] = k
  BY <1>1, <1>2, <1>4
<1>. QED
  BY <1>4, <1>5 DEF Coming

\* No plan reads vectors before it has looked their model up.
Guarded(s) ==
    /\ s \in Seq(Queries)
    /\ \A i \in 1..Len(s) : s[i] = "vector" => \E j \in 1..(i - 1) : s[j] = "model"

LEMMA GuardedConcat ==
    ASSUME NEW s, NEW t, Guarded(s), Guarded(t)
    PROVE  Guarded(s \o t)
<1>1. s \in Seq(Queries) /\ t \in Seq(Queries) /\ Len(s) \in Nat /\ Len(t) \in Nat
  BY LenProperties DEF Guarded
<1>2. /\ s \o t \in Seq(Queries)
      /\ Len(s \o t) = Len(s) + Len(t)
      /\ \A i \in 1..(Len(s) + Len(t)) :
            (s \o t)[i] = IF i <= Len(s) THEN s[i] ELSE t[i - Len(s)]
  BY <1>1, ConcatProperties
<1>3. ASSUME NEW i \in 1..Len(s \o t), (s \o t)[i] = "vector"
      PROVE  \E j \in 1..(i - 1) : (s \o t)[j] = "model"
  <2>1. CASE i <= Len(s)
    <3>1. i \in 1..Len(s) /\ s[i] = "vector"
      BY <1>1, <1>2, <1>3, <2>1
    <3>2. PICK j \in 1..(i - 1) : s[j] = "model"
      BY <3>1 DEF Guarded
    <3>3. j \in 1..(Len(s) + Len(t)) /\ j <= Len(s)
      BY <1>1, <3>1
    <3>. QED
      BY <1>2, <3>2, <3>3
  <2>2. CASE ~(i <= Len(s))
    <3>1. i - Len(s) \in 1..Len(t) /\ t[i - Len(s)] = "vector"
      BY <1>1, <1>2, <1>3, <2>2
    <3>2. PICK j \in 1..((i - Len(s)) - 1) : t[j] = "model"
      BY <3>1 DEF Guarded
    <3>3. j \in Nat \ {0} /\ j <= (i - Len(s)) - 1
          /\ i \in Nat /\ i <= Len(s) + Len(t) /\ Len(s) \in Nat /\ Len(t) \in Nat
      BY <1>1, <1>2
    <3>4. /\ j + Len(s) \in 1..(Len(s) + Len(t)) /\ j + Len(s) \in 1..(i - 1)
          /\ ~(j + Len(s) <= Len(s)) /\ (j + Len(s)) - Len(s) = j
      BY <3>3
    <3>. QED
      BY <1>2, <3>2, <3>4
  <2>. QED
    BY <2>1, <2>2
<1>. QED
  BY <1>2, <1>3 DEF Guarded

LEMMA OneQuery ==
    ASSUME NEW k \in Queries, k # "vector" PROVE Guarded(<<k>>)
  BY DEF Guarded

LEMMA VectorsGuarded == Guarded(VectorPassages)
<1>. DEFINE s == VectorPassages
<1>1. Len(s) = 3 /\ s[1] = "model" /\ s[2] = "embed" /\ s[3] = "vector"
  BY DEF VectorPassages
<1>2. s \in Seq(Queries)
  BY DEF VectorPassages, Queries, Kinds
<1>. HIDE DEF s
<1>3. ASSUME NEW i \in 1..Len(s), s[i] = "vector"
      PROVE  \E j \in 1..(i - 1) : s[j] = "model"
  <2>1. i = 3
    BY <1>1, <1>3
  <2>. QED
    BY <1>1, <2>1
<1>4. Guarded(s)
  BY <1>2, <1>3 DEF Guarded
<1>. QED
  BY <1>4 DEF s

LEMMA PlansGuarded == \A op \in Operations : Guarded(Plan[op])
<1>1. /\ Guarded(ResolveWorkId) /\ Guarded(PaperRow) /\ Guarded(Sections)
      /\ Guarded(Tables) /\ Guarded(References) /\ Guarded(LexicalPassages)
      /\ Guarded(GraphEdges) /\ Guarded(Gaps)
  <2>1. Guarded(<<"relational">>) /\ Guarded(<<"lexical">>) /\ Guarded(<<"graph">>)
    BY OneQuery DEF Queries, Kinds
  <2>. QED
    BY <2>1 DEF ResolveWorkId, PaperRow, Sections, Tables, References,
       LexicalPassages, GraphEdges, Gaps
<1>2. Guarded(GetPaper)
  BY <1>1, GuardedConcat DEF GetPaper
<1>3. Guarded(Parsed) /\ Guarded(Contexts) /\ Guarded(CompareTables)
      /\ Guarded(Modules)
  BY <1>1, <1>2, GuardedConcat DEF Parsed, Contexts, CompareTables, Modules
<1>4. Guarded(Hybrid) /\ Guarded(ResolveWorkId \o VectorPassages)
  <2>1. Guarded(ResolveWorkId \o LexicalPassages)
    BY <1>1, GuardedConcat
  <2>. QED
    BY <1>1, <2>1, VectorsGuarded, GuardedConcat DEF Hybrid
<1>5. Guarded(Neighbors) /\ Guarded(Lineage)
  <2>1. Guarded(ResolveWorkId \o GraphEdges) /\ Guarded(ResolveWorkId \o ResolveWorkId)
    BY <1>1, GuardedConcat
  <2>2. Guarded((ResolveWorkId \o ResolveWorkId) \o GraphEdges)
    BY <1>1, <2>1, GuardedConcat
  <2>. QED
    BY <1>1, <2>1, <2>2, GuardedConcat DEF Neighbors, Lineage
<1>6. Guarded(Outline) /\ Guarded(SectionText)
  <2>1. Guarded(ResolveWorkId \o Sections)
    BY <1>1, GuardedConcat
  <2>. QED
    BY <1>2, <2>1, GuardedConcat DEF Outline, SectionText
<1>7. Guarded(Recommended)
  BY <1>2, <1>4, GuardedConcat DEF Recommended
<1>8. DOMAIN Plan =
        {"search_papers", "list_papers", "get_paper", "get_paper_outline",
         "get_section_text", "get_method_modules", "get_experiment_table",
         "read_parsed_paper", "vector_passages", "hybrid_passages",
         "verify_claims", "recommend_papers", "compare_results",
         "get_gap_evidence", "get_lineage", "graph_neighbors", "graph_stats",
         "get_citation_context", "auto_notes"}
  BY DEF Plan
<1>9. /\ Guarded(Plan["search_papers"]) /\ Guarded(Plan["list_papers"])
      /\ Guarded(Plan["get_gap_evidence"]) /\ Guarded(Plan["graph_stats"])
      /\ Guarded(Plan["auto_notes"])
  BY <1>1 DEF Plan
<1>10. /\ Guarded(Plan["get_paper"]) /\ Guarded(Plan["read_parsed_paper"])
       /\ Guarded(Plan["get_citation_context"])
       /\ Guarded(Plan["get_method_modules"])
  BY <1>2, <1>3 DEF Plan
<1>11. /\ Guarded(Plan["get_experiment_table"]) /\ Guarded(Plan["compare_results"])
       /\ Guarded(Plan["get_paper_outline"]) /\ Guarded(Plan["get_section_text"])
  BY <1>3, <1>6 DEF Plan
<1>12. /\ Guarded(Plan["vector_passages"]) /\ Guarded(Plan["hybrid_passages"])
       /\ Guarded(Plan["verify_claims"]) /\ Guarded(Plan["recommend_papers"])
  BY <1>4, <1>7 DEF Plan
<1>13. Guarded(Plan["get_lineage"]) /\ Guarded(Plan["graph_neighbors"])
  BY <1>5 DEF Plan
<1>14. \A op \in DOMAIN Plan : Guarded(Plan[op])
  BY <1>8, <1>9, <1>10, <1>11, <1>12, <1>13
<1>. QED
  BY <1>14

-----------------------------------------------------------------------------
(* The steps.                                                              *)

\* A step of caller h that sets its record to c.
Sets(h, c) ==
    /\ Called(c)
    /\ Faithful(c)
    /\ call' = [call EXCEPT ![h] = c]

\* c holds the permits the caller held before.
Stays(h, c) ==
    /\ Sets(h, c)
    /\ Holds(c) <=> Holds(call[h])
    /\ \A op \in DOMAIN Limit : HoldsTool(c, op) <=> HoldsTool(call[h], op)
    /\ UNCHANGED permits

\* The connections: none moves, one is taken, one is given back.
Pool(h) ==
    \/ UNCHANGED <<conn, dbFree>>
    \/ h \notin conn /\ dbFree > 0 /\ conn' = conn \cup {h} /\ dbFree' = dbFree - 1
    \/ h \in conn /\ GiveBack(h)

LEMMA Moved ==
    ASSUME IInv, NEW h \in Threads, NEW c, Sets(h, c), PermitsCounted', Pool(h),
           h \in conn' => Needs(c),
           channel' \in Snapshots \cup {None}
    PROVE  IInv'
<1>1. Typed /\ ConnectionsCounted /\ Calling
  BY DEF IInv
<1>2. /\ call' \in [Threads -> Record] /\ call'[h] = c
      /\ \A g \in Threads : g # h => call'[g] = call[g]
      /\ \A g \in Threads : Called(call'[g])
  BY <1>1, CallSet DEF Sets
<1>3. conn' \subseteq Threads /\ \A g \in conn' : g # h => g \in conn
  BY <1>1 DEF Pool, GiveBack, Typed
<1>4. Typed'
  BY <1>2, <1>3 DEF Typed
<1>5. ConnectionsCounted'
  <2>1. CASE UNCHANGED <<conn, dbFree>>
    BY <1>1, <2>1 DEF ConnectionsCounted
  <2>2. CASE h \notin conn /\ dbFree > 0 /\ conn' = conn \cup {h} /\ dbFree' = dbFree - 1
    BY <1>1, <2>2, OneMore DEF ConnectionsCounted
  <2>3. CASE h \in conn /\ GiveBack(h)
    <3>1. Accounted(dbFree + 1, conn \ {h}, MaxConnections)
      BY <1>1, <2>3, OneLess DEF ConnectionsCounted
    <3>. QED
      BY <2>3, <3>1 DEF ConnectionsCounted, GiveBack
  <2>. QED
    BY <2>1, <2>2, <2>3 DEF Pool
<1>6. \A g \in Threads : Faithful(call'[g])
  BY <1>1, <1>2 DEF Calling, Sets
<1>7. \A g \in conn' : Needs(call'[g])
  <2>. SUFFICES ASSUME NEW g \in conn' PROVE Needs(call'[g])
    OBVIOUS
  <2>1. CASE g = h
    BY <1>2, <2>1
  <2>2. CASE g # h
    BY <1>1, <1>2, <1>3, <2>2 DEF Calling
  <2>. QED
    BY <2>1, <2>2
<1>8. Calling'
  BY <1>6, <1>7 DEF Calling
<1>. QED
  BY <1>4, <1>5, <1>8 DEF IInv

LEMMA StaysKeeps ==
    ASSUME IInv, NEW h \in Threads, NEW c, Stays(h, c), Pool(h),
           h \in conn' => Needs(c), UNCHANGED channel
    PROVE  IInv'
<1>1. PermitsCounted'
  BY StayCounts DEF IInv, Stays, Sets
<1>. QED
  BY <1>1, Moved DEF IInv, Stays, Typed

LEMMA IdleFits == Called(Idle) /\ Faithful(Idle) /\ ~Holds(Idle)
                  /\ \A op : ~HoldsTool(Idle, op)
<1>1. <<>> \in Seq(Queries)
  OBVIOUS
<1>. QED
  BY <1>1 DEF Called, Faithful, Idle, Record, Stages, Holds, HoldsTool

LEMMA LeaveKeeps ==
    ASSUME IInv, NEW h \in Threads, Holds(call[h]), Leave(h), Pool(h),
           h \notin conn', UNCHANGED channel
    PROVE  IInv'
<1>1. PermitsCounted'
  BY LeaveCounts DEF IInv
<1>2. Sets(h, Idle)
  BY IdleFits DEF Sets, Leave
<1>. QED
  BY <1>1, <1>2, Moved DEF IInv, Typed

LEMMA ConnectionHolds ==
    ASSUME IInv, NEW h \in conn
    PROVE  h \in Threads /\ Needs(call[h]) /\ Holds(call[h])
  BY DEF IInv, Typed, Calling, Needs, Holds

LEMMA Before ==
    ASSUME IInv, NEW h \in Threads
    PROVE  /\ call[h] \in Record /\ Called(call[h]) /\ Faithful(call[h])
           /\ h \in conn => Needs(call[h])
           /\ call \in [Threads -> Record]
  BY DEF IInv, Typed, Calling

LEMMA CallKeeps ==
    ASSUME IInv, NEW h \in Threads, NEW op \in Operations, Call(h, op)
    PROVE  IInv'
<1>. DEFINE c == [call[h] EXCEPT !.at = "global", !.op = op]
<1>1. call[h] \in Record /\ Faithful(call[h]) /\ call[h].at = "idle"
  BY Before DEF Call
<1>2. c \in Record /\ c.at = "global" /\ c.op = op /\ c.read = call[h].read
  BY <1>1 DEF Record, Stages
<1>3. call' = [call EXCEPT ![h] = c]
  BY DEF Call
<1>4. h \notin conn
  BY <1>1, Before DEF Needs
<1>5. UNCHANGED <<permits, conn, dbFree, channel>>
  BY DEF Call, permits
<1>. HIDE DEF c
<1>6. Stays(h, c)
  BY <1>1, <1>2, <1>3, <1>5 DEF Stays, Sets, Called, Faithful, Holds, HoldsTool
<1>. QED
  BY <1>4, <1>5, <1>6, StaysKeeps DEF Pool

LEMMA AcquireGlobalKeeps ==
    ASSUME IInv, NEW h \in Threads, AcquireGlobal(h)
    PROVE  IInv'
<1>. DEFINE c == [call[h] EXCEPT !.at = "tool"]
<1>1. call[h] \in Record /\ Called(call[h]) /\ Faithful(call[h])
      /\ call[h].at = "global"
  BY Before DEF AcquireGlobal
<1>2. c \in Record /\ c.at = "tool" /\ c.op = call[h].op /\ c.read = call[h].read
  BY <1>1 DEF Record, Stages
<1>3. call' = [call EXCEPT ![h] = c]
  BY DEF AcquireGlobal
<1>4. h \notin conn
  BY <1>1, Before DEF Needs
<1>5. UNCHANGED <<conn, dbFree, channel, toolFree>>
      /\ globalFree' = globalFree - 1 /\ globalFree > 0
  BY DEF AcquireGlobal
<1>. HIDE DEF c
<1>6. Sets(h, c) /\ Called(c) /\ Holds(c) /\ \A op : ~HoldsTool(c, op)
  BY <1>1, <1>2, <1>3 DEF Sets, Called, Faithful, Holds, HoldsTool
<1>7. PermitsCounted'
  <2>1. h \notin Inside /\ \A op : h \notin InTool(op)
    BY <1>1 DEF Inside, InTool
  <2>2. Inside' = Inside \cup {h} /\ \A op : InTool(op)' = InTool(op) \ {h}
    BY <1>3, <1>6, InsideSet DEF IInv
  <2>3. \A op : InTool(op)' = InTool(op)
    BY <2>1, <2>2
  <2>4. Accounted(globalFree', Inside', MaxInflight)
    BY <1>5, <2>1, <2>2, OneMore DEF IInv, PermitsCounted
  <2>. QED
    BY <1>5, <2>3, <2>4 DEF IInv, PermitsCounted
<1>. QED
  BY <1>4, <1>5, <1>6, <1>7, Moved DEF Pool, IInv, Typed

LEMMA GlobalBusyKeeps ==
    ASSUME IInv, NEW h \in Threads, GlobalBusy(h)
    PROVE  IInv'
<1>1. h \notin conn
  BY Before DEF GlobalBusy, Needs
<1>2. Stays(h, Idle)
  BY IdleFits DEF GlobalBusy, Stays, Sets, Holds, HoldsTool, permits
<1>. QED
  BY <1>1, <1>2, StaysKeeps DEF GlobalBusy, Pool

LEMMA AcquireToolKeeps ==
    ASSUME IInv, NEW h \in Threads, AcquireTool(h)
    PROVE  IInv'
<1>. DEFINE c == [call[h] EXCEPT !.at = "pin"]
            own == call[h].op
<1>1. call[h] \in Record /\ Called(call[h]) /\ Faithful(call[h])
      /\ call[h].at = "tool"
  BY Before DEF AcquireTool
<1>2. c \in Record /\ c.at = "pin" /\ c.op = own /\ c.read = call[h].read
  BY <1>1 DEF Record, Stages
<1>3. call' = [call EXCEPT ![h] = c]
  BY DEF AcquireTool
<1>4. h \notin conn
  BY <1>1, Before DEF Needs
<1>5. UNCHANGED <<conn, dbFree, channel, globalFree>>
      /\ IF own \in DOMAIN Limit
         THEN toolFree[own] > 0 /\ toolFree' = [toolFree EXCEPT ![own] = @ - 1]
         ELSE toolFree' = toolFree
  BY DEF AcquireTool
<1>. HIDE DEF c
<1>6. Sets(h, c) /\ Called(c) /\ Holds(c) /\ \A op : HoldsTool(c, op) <=> own = op
  BY <1>1, <1>2, <1>3 DEF Sets, Called, Faithful, Holds, HoldsTool
<1>. HIDE DEF own
<1>7. PermitsCounted'
  <2>1. h \in Inside /\ \A op : h \notin InTool(op)
    BY <1>1 DEF Inside, InTool
  <2>2. /\ Inside' = Inside \cup {h}
        /\ \A op : InTool(op)' = IF own = op THEN InTool(op) \cup {h}
                                 ELSE InTool(op) \ {h}
    BY <1>3, <1>6, InsideSet DEF IInv
  <2>3. Accounted(globalFree', Inside', MaxInflight)
    BY <1>5, <2>1, <2>2 DEF IInv, PermitsCounted
  <2>4. ASSUME NEW op \in DOMAIN Limit
        PROVE  /\ toolFree'[op] \in Nat
               /\ Accounted(toolFree'[op], InTool(op)', Limit[op])
    <3>1. Accounted(toolFree[op], InTool(op), Limit[op]) /\ toolFree[op] \in Nat
          /\ h \notin InTool(op) /\ toolFree \in [DOMAIN Limit -> Nat]
      BY <2>1 DEF IInv, PermitsCounted
    <3>2. CASE own = op
      <4>1. toolFree'[op] = toolFree[op] - 1 /\ toolFree[op] > 0
        BY <1>5, <3>1, <3>2
      <4>2. InTool(op)' = InTool(op) \cup {h}
        BY <2>2, <3>2
      <4>3. Accounted(toolFree[op] - 1, InTool(op) \cup {h}, Limit[op])
        BY <3>1, <4>1, OneMore
      <4>. QED
        BY <3>1, <4>1, <4>2, <4>3
    <3>3. CASE own # op
      <4>1. toolFree'[op] = toolFree[op]
        BY <1>5, <3>1, <3>3
      <4>2. InTool(op)' = InTool(op)
        BY <2>2, <3>1, <3>3
      <4>. QED
        BY <3>1, <4>1, <4>2
    <3>. QED
      BY <3>2, <3>3
  <2>5. toolFree' \in [DOMAIN Limit -> Nat]
    <3>1. toolFree \in [DOMAIN Limit -> Nat]
      BY DEF IInv, PermitsCounted
    <3>2. toolFree' = [toolFree EXCEPT ![own] = @ - 1] \/ toolFree' = toolFree
      BY <1>5
    <3>. QED
      BY <2>4, <3>1, <3>2
  <2>. QED
    BY <2>3, <2>4, <2>5 DEF PermitsCounted
<1>. QED
  BY <1>4, <1>5, <1>6, <1>7, Moved DEF Pool, IInv, Typed

\* A wait for the tool's permit that is over, and the return.
LEMMA EndsKeep ==
    ASSUME IInv, NEW h \in Threads, ToolBusy(h) \/ Return(h)
    PROVE  IInv'
<1>1. CASE ToolBusy(h)
  <2>1. h \notin conn
    BY <1>1, Before DEF ToolBusy, Needs
  <2>. QED
    BY <1>1, <2>1, LeaveKeeps DEF ToolBusy, Holds, Pool
<1>2. CASE Return(h)
  <2>1. h \notin conn
    BY <1>2, Before DEF Return, Needs
  <2>. QED
    BY <1>2, <2>1, LeaveKeeps DEF Return, Holds, Pool
<1>. QED
  BY <1>1, <1>2

\* A record that is set to what it was.
LEMMA Same ==
    ASSUME IInv, NEW h \in Threads, UNCHANGED <<call, permits>>
    PROVE  Stays(h, call[h])
<1>1. call \in [Threads -> Record]
  BY Before
<1>. QED
  BY <1>1, Before DEF Stays, Sets

LEMMA TakeConnectionKeeps ==
    ASSUME IInv, NEW h \in Threads, TakeConnection(h)
    PROVE  IInv'
<1>1. Stays(h, call[h])
  BY Same DEF TakeConnection, permits
<1>2. Needs(call[h])
  BY NeedsIsNeeds DEF TakeConnection
<1>. QED
  BY <1>1, <1>2, StaysKeeps DEF TakeConnection, Pool

LEMMA WantsComes ==
    ASSUME NEW op \in Operations, NEW k
    PROVE  Wants(op, k) <=> Coming(Plan[op], k)
<1>1. Plan[op] \in Seq(Queries)
  BY PlansGuarded DEF Guarded
<1>2. DOMAIN Plan[op] = 1..Len(Plan[op])
  BY <1>1, LenProperties
<1>. QED
  BY <1>2 DEF Wants, Coming

LEMMA PinSnapshotKeeps ==
    ASSUME IInv, NEW h \in Threads, PinSnapshot(h)
    PROVE  IInv'
<1>. DEFINE op == call[h].op
            plan == Plan[op]
            short == op \in AlwaysDegraded
            c == [call[h] EXCEPT !.at = "work", !.snap = channel, !.left = plan,
                                 !.degraded = short]
<1>1. /\ call[h] \in Record /\ Called(call[h]) /\ Faithful(call[h])
      /\ call[h].at = "pin" /\ op \in Operations
  BY Before DEF PinSnapshot, Called
<1>2. h \notin conn' /\ Pool(h) /\ channel' = channel
  BY DEF PinSnapshot, GiveBack, Pool
<1>3. CASE Leave(h)
  BY <1>1, <1>2, <1>3, LeaveKeeps DEF Holds
<1>4. CASE /\ channel # None
           /\ Wants(op, "graph") => Build[channel]["graph"] # None
           /\ call' = [call EXCEPT ![h] = c]
           /\ UNCHANGED permits
  <2>1. Guarded(plan) /\ plan \in Seq(Queries)
    BY <1>1, PlansGuarded DEF Guarded
  <2>2. channel \in Snapshots
    BY <1>4 DEF IInv, Typed
  <2>3. /\ c \in Record /\ c.at = "work" /\ c.op = op /\ c.snap = channel
        /\ c.left = plan /\ c.read = {}
    <3>1. call[h].read = {} /\ short \in BOOLEAN
      BY <1>1 DEF Faithful
    <3>. HIDE DEF plan, short
    <3>. QED
      BY <1>1, <2>1, <2>2, <3>1 DEF Record, Stages
  <2>4. \A k \in Kinds : Wants(op, k) <=> Coming(plan, k)
    BY <1>1, WantsComes
  <2>5. Readable(plan, channel)
    <3>1. "graph" \in Kinds
      BY DEF Kinds
    <3>. QED
      BY <1>4, <2>1, <2>4, <3>1 DEF Readable, Guarded, Coming
  <2>. HIDE DEF c, plan, short, op
  <2>6. Faithful(c)
    BY <2>3, <2>4, <2>5 DEF Faithful
  <2>7. Stays(h, c)
    BY <1>1, <1>4, <2>2, <2>3, <2>6 DEF Stays, Sets, Called, Holds, HoldsTool, op
  <2>. QED
    BY <1>2, <2>7, StaysKeeps
<1>. QED
  BY <1>3, <1>4 DEF PinSnapshot

\* A call at work that goes on at work.
LEMMA WorkKeeps ==
    ASSUME IInv, NEW h \in Threads, call[h].at = "work",
           NEW left \in Seq(Queries), NEW read \in SUBSET Contents,
           NEW degraded \in BOOLEAN,
           NEW c, c = [call[h] EXCEPT !.left = left, !.read = read,
                                      !.degraded = degraded],
           call' = [call EXCEPT ![h] = c],
           Readable(left, call[h].snap),
           read \subseteq BuildsOf(call[h].snap),
           \A k \in Kinds : Wants(call[h].op, k) =>
              Coming(left, k) \/ Build[call[h].snap][k] \in read \/ degraded,
           Pool(h), h \notin conn', UNCHANGED <<channel, permits>>
    PROVE  IInv'
<1>1. call[h] \in Record /\ Called(call[h])
  BY Before
<1>2. /\ c \in Record /\ c.at = "work" /\ c.op = call[h].op
      /\ c.snap = call[h].snap /\ c.left = left /\ c.read = read
      /\ c.degraded = degraded
  BY <1>1 DEF Record
<1>3. Faithful(c)
  BY <1>2 DEF Faithful
<1>4. Stays(h, c)
  BY <1>1, <1>2, <1>3 DEF Stays, Sets, Called, Holds, HoldsTool
<1>. QED
  BY <1>4, StaysKeeps

\* Notes are made of the relational build alone.
LEMMA NotesAreRelational ==
    /\ \A k : Wants("auto_notes", k) => k = "relational"
    /\ \A s \in Snapshots : Readable(Parsed, s)
    /\ Parsed \in Seq(Queries)
<1>1. Plan["auto_notes"] = <<"relational">>
  BY DEF Plan, PaperRow
<1>2. Parsed \in Seq({"relational"})
  <2>1. <<"relational">> \in Seq({"relational"})
    OBVIOUS
  <2>2. <<"relational">> \o <<"relational">> \in Seq({"relational"})
    BY <2>1, ConcatProperties
  <2>. QED
    BY <2>1, <2>2, ConcatProperties
       DEF Parsed, GetPaper, ResolveWorkId, PaperRow, Sections
<1>3. \A i \in 1..Len(Parsed) : Parsed[i] = "relational"
  BY <1>2, ElementOfSeq
<1>4. Parsed \in Seq(Queries)
  <2>1. {"relational"} \subseteq Queries
    BY DEF Queries, Kinds
  <2>. QED
    BY <1>2, <2>1, SeqMonotonic
<1>5. \A k : Wants("auto_notes", k) => k = "relational"
  BY <1>1 DEF Wants
<1>. QED
  BY <1>3, <1>4, <1>5 DEF Readable

\* The caller's next steps are these.
SetsLeft(h, left) == call' = [call EXCEPT ![h].left = left]

\* A call that makes notes wants nothing it has not read, so it may go on with
\* the next paper, or without the one it is at.
LEMMA NotesGoOn ==
    ASSUME IInv, NEW h \in Threads, Noting(h), NEW left \in {<<>>, Parsed},
           SetsLeft(h, left),
           Pool(h), h \notin conn', UNCHANGED <<channel, permits>>
    PROVE  IInv'
<1>. DEFINE read == call[h].read
            degraded == call[h].degraded
            c == [call[h] EXCEPT !.left = left, !.read = read, !.degraded = degraded]
<1>1. /\ call[h] \in Record /\ Called(call[h]) /\ Faithful(call[h])
      /\ call[h].at = "work" /\ call[h].snap \in Snapshots
  BY Before DEF Noting, Called
<1>2. /\ read \in SUBSET Contents /\ degraded \in BOOLEAN
      /\ read \subseteq BuildsOf(call[h].snap)
  BY <1>1 DEF Record, Faithful
<1>3. call' = [call EXCEPT ![h] = c]
  <2>1. c = [call[h] EXCEPT !.left = left]
    BY <1>1 DEF Record
  <2>. QED
    BY <2>1 DEF SetsLeft
<1>4. left \in Seq(Queries) /\ Readable(left, call[h].snap)
  <2>1. <<>> \in Seq(Queries) /\ \A s : Readable(<<>>, s)
    BY DEF Readable
  <2>. QED
    BY <1>1, <2>1, NotesAreRelational
<1>5. \A k \in Kinds : Wants(call[h].op, k) =>
         Coming(left, k) \/ Build[call[h].snap][k] \in read \/ degraded
  BY NotesAreRelational DEF Noting
<1>6. c = [call[h] EXCEPT !.left = left, !.read = read, !.degraded = degraded]
  OBVIOUS
<1>. HIDE DEF c, read, degraded
<1>. QED
  BY <1>1, <1>2, <1>3, <1>4, <1>5, <1>6, WorkKeeps

\* A wait for the pool that is over, and a query that failed.
LEMMA FailuresKeep ==
    ASSUME IInv, NEW h \in Threads, PoolBusy(h) \/ QueryFails(h)
    PROVE  IInv'
<1>1. Fail(h) /\ channel' = channel /\ Pool(h) /\ h \notin conn'
  BY DEF PoolBusy, QueryFails, GiveBack, Pool
<1>2. Holds(call[h])
  BY ConnectionHolds DEF PoolBusy, QueryFails, NeedsConnection, Holds
<1>3. CASE Noting(h)
  BY <1>1, <1>3, NotesGoOn DEF Fail, SetsLeft
<1>4. CASE ~Noting(h)
  BY <1>1, <1>2, <1>4, LeaveKeeps DEF Fail
<1>. QED
  BY <1>3, <1>4

LEMMA NextNoteKeeps ==
    ASSUME IInv, NEW h \in Threads, NextNote(h)
    PROVE  IInv'
<1>1. /\ call[h].at = "work" /\ h \notin conn /\ h \notin conn'
      /\ Pool(h) /\ channel' = channel
  BY Before DEF NextNote, Noting, Needs, Pool
<1>2. CASE Leave(h)
  BY <1>1, <1>2, LeaveKeeps DEF Holds
<1>3. CASE call' = [call EXCEPT ![h].left = Parsed] /\ UNCHANGED permits
  BY <1>1, <1>3, NotesGoOn DEF NextNote, SetsLeft
<1>. QED
  BY <1>2, <1>3 DEF NextNote

LEMMA QueryKeeps ==
    ASSUME IInv, NEW h \in Threads, Query(h)
    PROVE  IInv'
<1>. DEFINE s == call[h].snap
            old == call[h].left
            next == Head(old)
            read == call[h].read \cup BuildRead(h, next)
<1>1. /\ call[h] \in Record /\ Called(call[h]) /\ Faithful(call[h])
      /\ call[h].at = "work" /\ Needs(call[h])
  BY Before DEF Query
<1>2. /\ s \in Snapshots /\ old \in Seq(Queries) /\ old # <<>> /\ next # "embed"
      /\ next = "model" => Build[s]["vector"] # None
      /\ Readable(old, s)
  BY <1>1 DEF Called, Record, Needs, Faithful
<1>3. next \in Queries /\ next = old[1] /\ Tail(old) \in Seq(Queries)
      /\ 1 \in 1..Len(old)
  BY <1>2, TailOf
<1>4. next # "model" => next \in Kinds /\ Build[s][next] # None
  <2>. SUFFICES ASSUME next # "model" PROVE next \in Kinds /\ Build[s][next] # None
    OBVIOUS
  <2>1. next \in Kinds
    BY <1>2, <1>3 DEF Queries
  <2>2. next = "vector" => Build[s]["vector"] # None
    BY <1>2, <1>3 DEF Readable
  <2>3. next = "graph" => Build[s]["graph"] # None
    BY <1>2, <1>3 DEF Readable
  <2>4. Build[s]["relational"] # None /\ Build[s]["lexical"] # None
    BY <1>2
  <2>. QED
    BY <2>1, <2>2, <2>3, <2>4 DEF Kinds
<1>5. BuildRead(h, next) \subseteq Contents /\ BuildRead(h, next) \subseteq BuildsOf(s)
  BY <1>2, <1>4 DEF BuildRead, Contents, BuildsOf
<1>6. read \in SUBSET Contents /\ read \subseteq BuildsOf(s)
  BY <1>1, <1>5 DEF Record, Faithful
<1>7. \A k \in Kinds : Wants(call[h].op, k) =>
         Coming(Tail(old), k) \/ Build[s][k] \in read \/ call[h].degraded
  <2>. SUFFICES ASSUME NEW k \in Kinds, Wants(call[h].op, k)
                PROVE  Coming(Tail(old), k) \/ Build[s][k] \in read \/ call[h].degraded
    OBVIOUS
  <2>1. Coming(old, k) \/ Build[s][k] \in call[h].read \/ call[h].degraded
    BY <1>1 DEF Faithful
  <2>2. CASE Coming(old, k) /\ k # next
    BY <1>2, <2>2, TailComing
  <2>3. CASE k = next
    <3>1. k # "model"
      BY DEF Kinds
    <3>. QED
      BY <2>3, <3>1 DEF BuildRead
  <2>. QED
    BY <2>1, <2>2, <2>3
<1>8. Readable(Tail(old), s)
  BY <1>2, TailReadable
<1>9. [call[h] EXCEPT !.left = Tail(old), !.read = read]
        = [call[h] EXCEPT !.left = Tail(old), !.read = read, !.degraded = call[h].degraded]
      /\ call[h].degraded \in BOOLEAN
  BY <1>1 DEF Record
<1>10. call' = [call EXCEPT ![h] = [call[h] EXCEPT !.left = Tail(old), !.read = read,
                                                   !.degraded = call[h].degraded]]
  BY <1>9 DEF Query
<1>11. Pool(h) /\ h \notin conn' /\ UNCHANGED <<channel, permits>>
  BY DEF Query, Pool, GiveBack, permits
<1>. HIDE DEF s, old, next, read
<1>. QED
  BY <1>1, <1>3, <1>6, <1>7, <1>8, <1>9, <1>10, <1>11, WorkKeeps DEF s

LEMMA NoVectorsKeeps ==
    ASSUME IInv, NEW h \in Threads, NoVectors(h)
    PROVE  IInv'
<1>1. call[h] \in Record /\ Faithful(call[h]) /\ call[h].at = "work" /\ h \notin conn
  BY Before DEF NoVectors
<1>2. Pool(h) /\ h \notin conn' /\ channel' = channel
  BY <1>1 DEF NoVectors, Pool
<1>3. CASE Leave(h)
  BY <1>1, <1>2, <1>3, LeaveKeeps DEF Holds
<1>4. CASE /\ call' = [call EXCEPT ![h].left = <<>>, ![h].degraded = TRUE]
           /\ UNCHANGED permits
  <2>. DEFINE read == call[h].read
              c == [call[h] EXCEPT !.left = <<>>, !.read = read, !.degraded = TRUE]
  <2>1. [call[h] EXCEPT !.left = <<>>, !.degraded = TRUE] = c
    BY <1>1 DEF Record
  <2>2. call' = [call EXCEPT ![h] = c]
    BY <1>4, <2>1
  <2>3. read \in SUBSET Contents /\ read \subseteq BuildsOf(call[h].snap)
    BY <1>1 DEF Record, Faithful
  <2>4. <<>> \in Seq(Queries) /\ Readable(<<>>, call[h].snap)
    BY DEF Readable
  <2>5. c = [call[h] EXCEPT !.left = <<>>, !.read = read, !.degraded = TRUE]
    OBVIOUS
  <2>. HIDE DEF c, read
  <2>. QED
    BY <1>1, <1>2, <1>4, <2>2, <2>3, <2>4, <2>5, WorkKeeps
<1>. QED
  BY <1>3, <1>4 DEF NoVectors, WithoutVectors

LEMMA EmbedKeeps ==
    ASSUME IInv, NEW h \in Threads, Embed(h)
    PROVE  IInv'
<1>. DEFINE old == call[h].left
            read == call[h].read
            degraded == call[h].degraded
<1>1. /\ call[h] \in Record /\ Faithful(call[h]) /\ call[h].at = "work"
      /\ old # <<>> /\ Head(old) = "embed"
  BY Before DEF Embed
<1>2. h \notin conn /\ Pool(h) /\ h \notin conn' /\ channel' = channel
  BY <1>1, Before DEF Embed, Pool, Needs
<1>3. CASE Leave(h)
  BY <1>1, <1>2, <1>3, LeaveKeeps DEF Holds
<1>4. CASE call' = [call EXCEPT ![h].left = Tail(@)] /\ UNCHANGED permits
  <2>. DEFINE left == Tail(old)
              c == [call[h] EXCEPT !.left = left, !.read = read,
                                   !.degraded = degraded]
  <2>1. degraded \in BOOLEAN
    BY <1>1 DEF Record
  <2>2. call' = [call EXCEPT ![h] = c]
    <3>1. [call[h] EXCEPT !.left = left] = c
      BY <1>1 DEF Record
    <3>. QED
      BY <1>4, <3>1
  <2>3. read \in SUBSET Contents /\ read \subseteq BuildsOf(call[h].snap)
        /\ old \in Seq(Queries) /\ Readable(old, call[h].snap)
    BY <1>1 DEF Record, Faithful
  <2>4. left \in Seq(Queries) /\ Readable(left, call[h].snap)
    BY <1>1, <2>3, TailOf, TailReadable
  <2>5. \A k \in Kinds : Wants(call[h].op, k) =>
           Coming(left, k) \/ Build[call[h].snap][k] \in read \/ degraded
    <3>1. \A k \in Kinds : k # "embed"
      BY DEF Kinds
    <3>2. \A k \in Kinds : Coming(old, k) => Coming(left, k)
      BY <1>1, <2>3, <3>1, TailComing
    <3>. QED
      BY <1>1, <3>2 DEF Faithful
  <2>6. c = [call[h] EXCEPT !.left = left, !.read = read,
                            !.degraded = degraded]
    OBVIOUS
  <2>7. UNCHANGED <<channel, permits>>
    BY <1>2, <1>4
  <2>. HIDE DEF c, left, read, degraded, old
  <2>. QED
    BY <1>1, <1>2, <2>1, <2>2, <2>3, <2>4, <2>5, <2>6, <2>7, WorkKeeps
<1>. QED
  BY <1>3, <1>4 DEF Embed

LEMMA AnswerKeeps ==
    ASSUME IInv, NEW h \in Threads, Answer(h)
    PROVE  IInv'
<1>. DEFINE c == [call[h] EXCEPT !.at = "reply"]
<1>1. /\ call[h] \in Record /\ Called(call[h]) /\ Faithful(call[h])
      /\ call[h].at = "work" /\ call[h].left = <<>>
  BY Before DEF Answer
<1>2. h \notin conn /\ Pool(h) /\ h \notin conn' /\ channel' = channel
  BY <1>1, Before DEF Answer, Pool, Needs
<1>3. CASE Leave(h)
  BY <1>1, <1>2, <1>3, LeaveKeeps DEF Holds
<1>4. CASE call' = [call EXCEPT ![h] = c] /\ UNCHANGED permits
  <2>1. /\ c \in Record /\ c.at = "reply" /\ c.op = call[h].op
        /\ c.snap = call[h].snap /\ c.read = call[h].read
        /\ c.degraded = call[h].degraded
    BY <1>1 DEF Record, Stages
  <2>. HIDE DEF c
  <2>2. \A k : ~Coming(<<>>, k)
    BY DEF Coming
  <2>3. Faithful(c)
    BY <1>1, <2>1, <2>2 DEF Faithful
  <2>4. Stays(h, c)
    BY <1>1, <1>4, <2>1, <2>3 DEF Stays, Sets, Called, Holds, HoldsTool
  <2>. QED
    BY <1>2, <2>4, StaysKeeps
<1>. QED
  BY <1>3, <1>4 DEF Answer

LEMMA DeadlinePassesKeeps ==
    ASSUME IInv, NEW h \in Threads, DeadlinePasses(h)
    PROVE  IInv'
<1>. DEFINE c == [call[h] EXCEPT !.late = TRUE]
<1>1. /\ call[h] \in Record /\ Called(call[h]) /\ Faithful(call[h])
      /\ h \in conn => Needs(call[h])
  BY Before
<1>2. /\ c \in Record /\ c.at = call[h].at /\ c.op = call[h].op
      /\ c.snap = call[h].snap /\ c.read = call[h].read /\ c.left = call[h].left
      /\ c.degraded = call[h].degraded
  BY <1>1 DEF Record
<1>3. call' = [call EXCEPT ![h] = c]
  BY DEF DeadlinePasses
<1>4. Pool(h) /\ UNCHANGED <<conn, channel, permits>>
  BY DEF DeadlinePasses, Pool, permits
<1>. HIDE DEF c
<1>5. Faithful(c) /\ (h \in conn => Needs(c))
  BY <1>1, <1>2 DEF Faithful, Needs
<1>6. Stays(h, c)
  BY <1>1, <1>2, <1>3, <1>4, <1>5 DEF Stays, Sets, Called, Holds, HoldsTool
<1>. QED
  BY <1>4, <1>5, <1>6, StaysKeeps

\* The channel moves, or nothing does.
LEMMA OthersKeep ==
    ASSUME IInv, UNCHANGED <<call, conn, globalFree, toolFree, dbFree>>,
           channel' \in Snapshots \cup {None}
    PROVE  IInv'
<1>1. Typed' /\ ConnectionsCounted' /\ Calling'
  BY DEF IInv, Typed, ConnectionsCounted, Calling
<1>2. Inside' = Inside /\ \A op : InTool(op)' = InTool(op)
  BY DEF Inside, InTool
<1>3. PermitsCounted'
  BY <1>2 DEF IInv, PermitsCounted
<1>. QED
  BY <1>1, <1>3 DEF IInv

LEMMA IInvNext == IInv /\ [Next]_vars => IInv'
<1>. SUFFICES ASSUME IInv, [Next]_vars PROVE IInv'
  OBVIOUS
<1>1. ASSUME NEW h \in Threads, NEW op \in Operations, Call(h, op) PROVE IInv'
  BY <1>1, CallKeeps
<1>2. ASSUME NEW h \in Threads, Proceed(h) PROVE IInv'
  BY <1>2, AcquireGlobalKeeps, GlobalBusyKeeps, AcquireToolKeeps, EndsKeep,
     TakeConnectionKeeps, PinSnapshotKeeps, QueryKeeps, NoVectorsKeeps,
     EmbedKeeps, FailuresKeep, NextNoteKeeps, AnswerKeeps DEF Proceed
<1>3. ASSUME NEW h \in Threads, DeadlinePasses(h) PROVE IInv'
  BY <1>3, DeadlinePassesKeeps
<1>4. ASSUME NEW s \in Snapshots, CutOver(s) PROVE IInv'
  BY <1>4, OthersKeep DEF CutOver
<1>5. CASE UNCHANGED vars
  BY <1>5, OthersKeep DEF vars, IInv, Typed
<1>. QED
  BY <1>1, <1>2, <1>3, <1>4, <1>5 DEF Next

LEMMA IInvInit == Init => IInv
<1>. SUFFICES ASSUME Init PROVE IInv
  OBVIOUS
<1>1. \A h \in Threads : call[h] = Idle
  BY DEF Init
<1>2. Typed
  BY <1>1, IdleFits DEF Init, Typed, Called
<1>3. Inside = {} /\ (\A op : InTool(op) = {}) /\ conn = {}
  BY <1>1 DEF Init, Inside, InTool, Idle
<1>4. \A n \in Nat : Accounted(n, {}, n)
  BY FS_EmptySet DEF Accounted
<1>5. PermitsCounted
  BY <1>3, <1>4 DEF Init, PermitsCounted
<1>6. ConnectionsCounted
  BY <1>3, <1>4 DEF Init, ConnectionsCounted
<1>7. Calling
  BY <1>1, <1>3, IdleFits DEF Calling
<1>. QED
  BY <1>2, <1>5, <1>6, <1>7 DEF IInv

-----------------------------------------------------------------------------
(* The theorems.                                                           *)

THEOREM IInvAlways == Spec => []IInv
  BY IInvInit, IInvNext, PTL DEF Spec

\* No counter leaves its range, and calls, the channel and the pool are well
\* typed, in every reachable state.
THEOREM TypeCorrect == Spec => []TypeOK
<1>1. IInv => TypeOK
  <2>. SUFFICES ASSUME IInv PROVE TypeOK
    OBVIOUS
  <2>1. \A free, holders : \A total \in Nat :
           Accounted(free, holders, total) => free \in 0..total
    BY FS_CardinalityType DEF Accounted
  <2>2. globalFree \in 0..MaxInflight /\ dbFree \in 0..MaxConnections
    BY <2>1 DEF IInv, PermitsCounted, ConnectionsCounted
  <2>3. ASSUME NEW h \in Threads
        PROVE  /\ call[h].at \in {"idle", "global", "tool", "pin", "work", "reply"}
               /\ call[h].op \in Operations \cup {None}
               /\ call[h].snap \in Snapshots \cup {None}
               /\ call[h].at \in {"work", "reply"} => call[h].snap # None
               /\ call[h].degraded \in BOOLEAN /\ call[h].late \in BOOLEAN
    BY DEF IInv, Typed, Called, Record, Stages
  <2>. QED
    BY <2>2, <2>3 DEF TypeOK, IInv, Typed, PermitsCounted
<1>. QED
  BY <1>1, IInvAlways, PTL

\* On whatever way calls are left, the permits and connections that are free
\* and those that are held add up to what there is.
THEOREM PermitsAddUpAlways == Spec => []PermitsAddUp
<1>1. IInv => PermitsAddUp
  BY DEF IInv, PermitsCounted, ConnectionsCounted, Accounted, PermitsAddUp
<1>. QED
  BY <1>1, IInvAlways, PTL

\* However the channel is moved under a call, its answer is made of builds of
\* the snapshot it names, and of all kinds it wants unless it says that it is
\* degraded.
THEOREM AnswersArePinnedAlways == Spec => []AnswersArePinned
<1>1. IInv => AnswersArePinned
  BY DEF IInv, Calling, Faithful, AnswersArePinned
<1>. QED
  BY <1>1, IInvAlways, PTL

=============================================================================
