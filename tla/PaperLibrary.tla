---------------------------- MODULE PaperLibrary ----------------------------
(***************************************************************************)
(* The local paper library of the `scholar' command line: one parsed JSON  *)
(* file per paper, which is the source of truth, and what is derived from  *)
(* it: rows of several tables (db.py), one vector per paper (vecstore.py), *)
(* the citation graph (graph_mem.py), and the record of what `scholar      *)
(* sync' has seen (sync_ops.py).                                           *)
(*                                                                         *)
(* A command is a process of its own: it does its steps one after another, *)
(* may die between any two of them, and other commands run meanwhile.      *)
(* Nothing locks the files, and a file is overwritten in place.            *)
(*                                                                         *)
(* Of a file are kept: its modification time, its text (title, abstract,   *)
(* sections, citations), which only parsing changes, and whether its       *)
(* metadata were filled in.  The passage chunks (rag.py) are left out: no  *)
(* other step reads them.                                                  *)
(***************************************************************************)
EXTENDS Naturals, Sequences, FiniteSets, SequencesExt

CONSTANTS
    Papers,     \* the papers with a source directory, in the order of their names
    Procs,      \* processes
    Commands,   \* Commands[p]: the commands process p is started for
    TextTables, \* the tables ingest_paper fills after `papers', in its order
    Texts,      \* what parsing a paper may give
    Content,    \* Content[t]: title and abstract of text t, None if it has neither
    None,
    Broken,     \* the text of a file that is being, or was half, written
    DbFails,    \* whether statements of the database may fail
    MaxWrites   \* bound: modifications of one parsed file

Ulids == Range(Papers)

\* The transactions of ingest_paper, in their order.
Tables == <<"papers">> \o TextTables

\* What the other steps of commands are called.
StepNames == {"parse", "save", "read", "lookup", "need", "open", "touch", "enrich",
              "take", "upsert", "list", "relist", "embed", "purge", "print", "ask",
              "load", "look", "cache", "seen"}

CommandNames ==
    {"parse", "parse-all", "parse-all-force", "ingest", "batch-ingest", "kb-update",
     "metadata-enrich", "year-fix", "author-fix", "venue-fix", "quality-score",
     "quality-all", "classify", "classify-all", "bootstrap", "graph-build",
     "graph-stats", "sync"}

ASSUME LibraryAssumption ==
    /\ Papers \in Seq(Ulids)
    /\ \A p \in Procs : Commands[p] \subseteq CommandNames
    /\ None \notin Ulids \cup Texts \cup {Broken}
    /\ None \notin [mtime : Nat, text : Texts \cup {Broken}, meta : BOOLEAN]
    /\ None \notin [Ulids -> Nat]
    /\ None \notin [print : [Ulids -> Nat], of : [Ulids -> SUBSET (Texts \cup {None})]]
    /\ Broken \notin Texts
    /\ TextTables \in Seq(Range(TextTables))
    /\ Range(TextTables) \cap (StepNames \cup {"papers"}) = {}

VARIABLES
    file,     \* PARSED_DIR: the JSON file of each paper, or None
    row,      \* the rows of each paper in each table
    vector,   \* paper_vectors: the content whose digest and vector are stored
    graph,    \* GRAPH_CACHE: fingerprint and content
    seen,     \* sync-state.json: the modification time recorded for each paper
    proc      \* the processes

vars == <<file, row, vector, graph, seen, proc>>
stores == <<row, vector, graph, seen>>

Mtime(u) == IF file[u] = None THEN 0 ELSE file[u].mtime
\* What a reader gets of the file.
TextOf(u) == IF file[u] = None \/ file[u].text = Broken THEN None ELSE file[u].text

\* A mutant of ContentOf: a file is embedded whatever it holds.
ContentOfAny(u) == IF file[u] = None THEN None ELSE file[u].text

\* What is embedded of the file: the model reads title and abstract alone, and no
\* vector is made of a paper that has neither.
ContentOf(u) == IF TextOf(u) = None THEN None ELSE Content[TextOf(u)]

\* What a table holds of a paper: the papers row has metadata, the others text.
\* Left out of the papers row: the arXiv id and the DOI, which a row keeps when the
\* file has none, and the numbers of sections, formulas and citations and the
\* path of the file, which are no part of it: a command that parses stores them,
\* one that reads the file resets them.
Columns(t, data) == IF t = "papers" THEN <<data.text, data.meta>> ELSE <<data.text>>

\* The rows of a paper are those of its file.
Mirrored(u) ==
    \A i \in DOMAIN Tables : row[u][Tables[i]] = Columns(Tables[i], file[u])

\* A process that runs no command.  `steps' are those of its command, in their
\* order, `at' is the place of the one it is at, and `left' holds the places of
\* those that are to follow.  For the properties are kept: `clean', that it
\* is a sync, beside which no other command has run and in which nothing has failed,
\* reported or not, and `rows', that such a sync is to mirror every file.
Idle == [command |-> None, steps |-> <<>>, at |-> 0, left |-> {}, held |-> None,
         listed |-> None, print |-> None, built |-> None, clean |-> FALSE,
         rows |-> FALSE]

\* What becomes of a process that is disturbed or fails at something.
Spoilt(r) == [r EXCEPT !.clean = FALSE, !.rows = FALSE]

\* Every variable holds a value of its type.
TypeOK ==
    /\ \A u \in Ulids :
          /\ \/ file[u] = None
             \/ file[u] \in [mtime : Nat \ {0}, text : Texts \cup {Broken}, meta : BOOLEAN]
          /\ \A i \in DOMAIN Tables :
                row[u][Tables[i]] \in {None} \cup (Texts \X BOOLEAN) \cup {<<t>> : t \in Texts}
          /\ vector[u] \in {Content[t] : t \in Texts} \cup {None}
          /\ seen[u] \in Nat
    /\ \A p \in Procs : proc[p].clean \in BOOLEAN /\ proc[p].rows \in BOOLEAN

Init ==
    /\ file = [u \in Ulids |-> None]
    /\ row = [u \in Ulids |-> [t \in Range(Tables) |-> None]]
    /\ vector = [u \in Ulids |-> None]
    /\ graph = None
    /\ seen = [u \in Ulids |-> 0]
    /\ proc = [p \in Procs |-> Idle]

-----------------------------------------------------------------------------
(* The steps of the commands.  A step is a name and the paper it is for.   *)
(* A command lists the directory before it goes through it; a file that    *)
(* appears after that counts as listed.                                    *)

Of(u, names)   == [i \in DOMAIN names |-> <<names[i], u>>]
Each(name)     == [k \in DOMAIN Papers |-> <<name, Papers[k]>>]
ForEach(names) == FlattenSeq([k \in DOMAIN Papers |-> Of(Papers[k], names)])

Parse  == <<"parse", "save">>
Amend  == <<"read", "open", "touch">>     \* tags or quality, written back
Enrich == <<"lookup", "open", "enrich">>  \* year, authors, venue or arXiv id
Needed == <<"need", "open", "enrich">>    \* likewise; an unreadable file is fatal
Graph  ==
    LET pass == Each("look")  \* papers and citations, then concepts
    IN  <<<<"print", None>>>> \o pass \o pass \o <<<<"cache", None>>>>

\* ensure_graph without force: a fresh cache is served, another one rebuilt.
Consult == <<<<"ask", None>>, <<"load", None>>>> \o Graph

\* The steps that are for the database.
IsRowStep(step) == step[1] \in Range(Tables) \cup {"take", "upsert"}

ParseAll    == Parse \o Tables
BatchIngest == Parse \o Tables \o Enrich \o <<"upsert">> \o Amend \o Amend
Ingest(u)   == Of(u, Parse \o Enrich \o Amend \o Amend) \o Graph

LeanYears    == ForEach(Needed)
ArxivYears   == ForEach(Needed)
ArxivAuthors == ForEach(Enrich)
YearFix      == LeanYears \o ArxivYears
AuthorFix    == ForEach(Needed)
VenueFix     == ForEach(Enrich)

\* A missing venue is filled in before the one query for everything else.
EnrichAll   == ForEach(Enrich \o Enrich \o <<"upsert">>)
ScoreAll    == ForEach(Amend)
ClassifyAll == ForEach(Amend)

Bootstrap ==
    ForEach(Parse) \o LeanYears \o ArxivAuthors \o Graph
    \o ForEach(<<"take">> \o Tables) \o ScoreAll \o ClassifyAll

StepsOf(command, u) ==
    CASE command = "parse"           -> Of(u, ParseAll)
      [] command = "parse-all"       -> ForEach(ParseAll)
      [] command = "parse-all-force" -> ForEach(ParseAll)
      [] command = "ingest"          -> Ingest(u)
      [] command = "batch-ingest"    -> Of(u, BatchIngest)
      [] command = "kb-update"       -> ForEach(BatchIngest)
      [] command = "metadata-enrich" -> EnrichAll
      [] command = "year-fix"        -> YearFix
      [] command = "author-fix"      -> AuthorFix
      [] command = "venue-fix"       -> VenueFix
      [] command = "quality-score"   -> Of(u, Amend)
      [] command = "quality-all"     -> ScoreAll
      [] command = "classify"        -> Of(u, Amend)
      [] command = "classify-all"    -> ClassifyAll
      [] command = "bootstrap"       -> Bootstrap
      [] command = "graph-build"     -> Graph
      [] command = "graph-stats"     -> Consult

\* The steps for papers that were never parsed.
Unparsed(command, step) ==
    \/ command \in {"parse-all", "kb-update"}
    \/ command = "bootstrap" /\ step[1] \in Range(Parse)

\* Vectors are listed with --full or without it.
SyncSteps ==
    ForEach(<<"take">> \o Tables) \o <<<<"relist", None>>, <<"list", None>>>>
    \o Each("embed") \o <<<<"purge", None>>>> \o Graph \o <<<<"seen", None>>>>

\* A process whose step is done goes on to the next one.
Onward(r) ==
    IF r.left = {} THEN Idle
    ELSE LET i == Min(r.left) IN [r EXCEPT !.at = i, !.left = @ \ {i}]

\* Process p starts a command that does those of its steps that are asked for.
Run(p, command, steps, Asked(_), rows) ==
    LET asked   == {i \in DOMAIN steps : Asked(steps[i])}
        alone   == \A q \in Procs : proc[q] = Idle
        started == Onward([Idle EXCEPT !.command = command, !.steps = steps,
                                       !.left = asked, !.rows = rows /\ alone,
                                       !.clean = command = "sync" /\ alone])
    IN  /\ proc[p] = Idle
        /\ command \in Commands[p]
        /\ asked # {}
        /\ proc' = [q \in Procs |-> IF q = p THEN started ELSE Spoilt(proc[q])]
        /\ UNCHANGED <<file, stores>>

\* Without a database a command does what it has to do to the files.
Start(p, command, u, database) ==
    LET Asked(step) == /\ IsRowStep(step) => database
                       /\ Unparsed(command, step) => file[step[2]] = None
    IN  /\ command # "sync"
        /\ Run(p, command, StepsOf(command, u), Asked, FALSE)

\* _changed_files, and --full.  A sync needs the database: without it none but
\* the first step is left out, for the next one does not find the server either,
\* and the command ends there, nothing stored and nothing recorded.
StartSync(p, full) ==
    LET Changed(u) == file[u] # None /\ (full \/ seen[u] # Mtime(u))
        Asked(step) == /\ IsRowStep(step) => Changed(step[2])
                       /\ step[1] # IF full THEN "list" ELSE "relist"
    IN  Run(p, "sync", SyncSteps, Asked, full)

\* Process p is at step `name' for paper u.
At(p, name, u) == proc[p].at # 0 /\ proc[p].steps[proc[p].at] = <<name, u>>

\* Process p passes over some of the steps that would follow.
Without(p, Passed(_)) ==
    [proc[p] EXCEPT !.left = {i \in @ : ~Passed(proc[p].steps[i])}]
Became(p, to) == proc' = [proc EXCEPT ![p] = Onward(to)]

\* Process p ends: an exception nothing catches, or a crash.
Die(p) ==
    /\ proc[p] # Idle
    /\ proc' = [proc EXCEPT ![p] = Idle]
    /\ UNCHANGED <<file, stores>>

-----------------------------------------------------------------------------
(* The parsed file *)

\* write_text opens the file and thereby empties it.
Open(p, u) ==
    /\ At(p, "open", u) \/ At(p, "parse", u)
    /\ Mtime(u) + 2 <= MaxWrites
    /\ file' = [file EXCEPT ![u] = [mtime |-> Mtime(u) + 1, text |-> Broken, meta |-> FALSE]]
    /\ Became(p, proc[p])
    /\ UNCHANGED stores

Written(p, u, text, meta) ==
    LET new == [mtime |-> Mtime(u) + 1, text |-> text, meta |-> meta]
    IN  /\ file' = [file EXCEPT ![u] = new]
        /\ Became(p, [proc[p] EXCEPT !.held = new])
        /\ UNCHANGED stores

\* save_parsed, after parse_paper.
SaveParsed(p, u) == At(p, "save", u) /\ \E t \in Texts : Written(p, u, t, FALSE)

\* The source cannot be parsed: nothing is written.  A command for many papers
\* goes on to the next one, bootstrap with its next stage.
ParseFails(p, u) ==
    LET command == proc[p].command
        Passed(step) ==
            \/ command = "ingest"
            \/ step[2] = u /\ (command = "bootstrap" => step[1] \in Range(Parse))
    IN  /\ At(p, "parse", u)
        /\ Became(p, Without(p, Passed))
        /\ UNCHANGED <<file, stores>>

Read(p, u, step) ==
    /\ At(p, step, u)
    /\ TextOf(u) # None
    /\ Became(p, [proc[p] EXCEPT !.held = file[u]])
    /\ UNCHANGED <<file, stores>>

\* No file, an unreadable one where that is tolerated, nothing to fill in, or no
\* answer from arXiv: the file is not written, and its row not updated.
LeaveAlone(p, u, step) ==
    /\ At(p, step, u)
    /\ \/ file[u] = None
       \/ step # "need" /\ TextOf(u) = None
       \/ step # "read" /\ TextOf(u) # None
    /\ LET i == proc[p].at
           upsert == {j \in proc[p].left : j = i + 3 /\ proc[p].steps[j][1] = "upsert"}
       IN  Became(p, [proc[p] EXCEPT !.left = @ \ ({i + 1, i + 2} \cup upsert)])
    /\ UNCHANGED <<file, stores>>

Touch(p, u)  == At(p, "touch", u) /\ Written(p, u, proc[p].held.text, proc[p].held.meta)
FillIn(p, u) == At(p, "enrich", u) /\ Written(p, u, proc[p].held.text, TRUE)

-----------------------------------------------------------------------------
(* Rows *)

\* A file is read to be stored.  One that cannot be read is passed over by sync,
\* and ends the storing of all files in bootstrap.
Take(p, u) ==
    /\ At(p, "take", u)
    /\ IF TextOf(u) # None
       THEN Became(p, [proc[p] EXCEPT !.held = file[u]])
       ELSE LET Passed(step) == /\ IsRowStep(step)
                                /\ \/ step[2] = u
                                   \/ proc[p].command = "bootstrap" /\ file[u] # None
            IN  Became(p, Without(p, Passed))
    /\ UNCHANGED <<file, stores>>

\* A mutant of Store: rows that are there are left as they are.
StoreOnce(p, u, step, t) ==
    /\ At(p, step, u)
    /\ row' = [row EXCEPT ![u][t] = IF @ = None THEN Columns(t, proc[p].held) ELSE @]
    /\ Became(p, proc[p])
    /\ UNCHANGED <<file, vector, graph, seen>>

\* One transaction of ingest_paper, or the upsert_paper after an enrichment.
Store(p, u, step, t) ==
    /\ At(p, step, u)
    /\ row' = [row EXCEPT ![u][t] = Columns(t, proc[p].held)]
    /\ Became(p, proc[p])
    /\ UNCHANGED <<file, vector, graph, seen>>

\* What was stored before stays.  The failure ends the ingestion of the paper, in
\* bootstrap the storing of all files; after an enrichment, and for sync, only the
\* rest of the paper's rows is left out.
StoreFails(p, u, step) ==
    LET command == proc[p].command
        Passed(s) == CASE command = "sync" \/ step = "upsert" -> IsRowStep(s) /\ s[2] = u
                       [] command = "bootstrap"               -> IsRowStep(s)
                       [] OTHER                               -> s[2] = u
    IN  /\ DbFails
        /\ At(p, step, u)
        /\ Became(p, Spoilt(Without(p, Passed)))
        /\ UNCHANGED <<file, stores>>

-----------------------------------------------------------------------------
(* Vectors and the graph *)

\* A mutant of Stale: only papers without a vector are embedded.
StaleIfMissing(u, old) == ContentOf(u) # None /\ old[u] = None

\* The digest stored with the vector is not that of the file.
Stale(u, old) == ContentOf(u) \notin {None, old[u]}

\* Files and stored digests are compared.  What is to be embedded, and which
\* papers lose their vector because they have no readable file, or one with
\* neither title nor abstract, is settled here; with --full all vectors are
\* deleted first.
List(p, step) ==
    /\ At(p, step, None)
    /\ LET old  == [u \in Ulids |-> IF step = "relist" THEN None ELSE vector[u]]
           gone == {u \in Ulids : ContentOf(u) = None /\ old[u] # None}
           Passed(s) == \/ s[1] = "embed" /\ ~Stale(s[2], old)
                        \/ s[1] = "purge" /\ gone = {}
       IN  /\ vector' = old
           /\ Became(p, [Without(p, Passed) EXCEPT
                  !.held = None,
                  !.listed = [content |-> [u \in Ulids |-> ContentOf(u)],
                              gone |-> gone]])
    /\ UNCHANGED <<file, row, graph, seen>>

\* A paper for which no embedding was had is counted and passed over.
Embed(p, u) ==
    /\ At(p, "embed", u)
    /\ \/ /\ vector' = [vector EXCEPT ![u] = proc[p].listed.content[u]]
          /\ Became(p, proc[p])
       \/ /\ UNCHANGED vector
          /\ Became(p, Spoilt(proc[p]))
    /\ UNCHANGED <<file, row, graph, seen>>

Purge(p) ==
    /\ At(p, "purge", None)
    /\ vector' = [u \in Ulids |-> IF u \in proc[p].listed.gone THEN None ELSE vector[u]]
    /\ Became(p, proc[p])
    /\ UNCHANGED <<file, row, graph, seen>>

\* A mutant of Cached: the fingerprint is taken when the graph is built.
CachedLate(p) ==
    [print |-> [u \in Ulids |-> Mtime(u)], of |-> proc[p].built]

\* build_graph takes the fingerprint of the files before it reads them.
Cached(p) == [print |-> proc[p].print, of |-> proc[p].built]

Fingerprint(p, step) ==
    /\ At(p, step, None)
    /\ Became(p, [proc[p] EXCEPT !.print = [u \in Ulids |-> Mtime(u)],
                                 !.built = [u \in Ulids |-> {}]])
    /\ UNCHANGED <<file, stores>>

\* A cache with the files' fingerprint, and papers in it, is served.
LoadCache(p) ==
    /\ At(p, "load", None)
    /\ IF /\ graph # None
          /\ graph.print = proc[p].print
          /\ \E u \in Ulids : graph.of[u] # {None}
       THEN proc' = [proc EXCEPT ![p] = Idle]
       ELSE Became(p, proc[p])
    /\ UNCHANGED <<file, stores>>

\* A paper that could not be read at first is left out of the second pass.
Look(p, u) ==
    /\ At(p, "look", u)
    /\ Became(p, [proc[p] EXCEPT !.built[u] = IF @ = {None} THEN @ ELSE @ \cup {TextOf(u)}])
    /\ UNCHANGED <<file, stores>>

\* The cache is overwritten in place.  A failure to do so is passed over in
\* silence; it leaves the old cache, or one that is half written and thus none.
WriteCache(p) ==
    /\ At(p, "cache", None)
    /\ \/ graph' = Cached(p) /\ Became(p, proc[p])
       \/ graph' \in {graph, None} /\ Became(p, Spoilt(proc[p]))
    /\ UNCHANGED <<file, row, vector, seen>>

\* The last step of a sync: what is recorded are the times the files have now.
SaveState(p) ==
    /\ At(p, "seen", None)
    /\ seen' = [u \in Ulids |-> IF file[u] = None THEN seen[u] ELSE Mtime(u)]
    /\ Became(p, proc[p])
    /\ UNCHANGED <<file, row, vector, graph>>

Next ==
    \E p \in Procs :
        \/ \E c \in Commands[p], u \in Ulids, database \in BOOLEAN : Start(p, c, u, database)
        \/ \E full \in BOOLEAN : StartSync(p, full)
        \/ \E u \in Ulids :
              \/ Open(p, u) \/ SaveParsed(p, u) \/ ParseFails(p, u)
              \/ \E step \in {"read", "lookup", "need"} : Read(p, u, step) \/ LeaveAlone(p, u, step)
              \/ Touch(p, u) \/ FillIn(p, u) \/ Take(p, u)
              \/ \E t \in Range(Tables) : Store(p, u, t, t) \/ StoreFails(p, u, t)
              \/ Store(p, u, "upsert", "papers") \/ StoreFails(p, u, "upsert")
              \/ Embed(p, u) \/ Look(p, u)
        \/ List(p, "list") \/ List(p, "relist")
        \/ Fingerprint(p, "print") \/ Fingerprint(p, "ask")
        \/ LoadCache(p) \/ Purge(p) \/ WriteCache(p) \/ SaveState(p) \/ Die(p)

Spec == Init /\ [][Next]_vars

-----------------------------------------------------------------------------
(* Correctness *)

\* A cached graph whose fingerprint is that of the files was made from these
\* files, although they are overwritten while it is built
\* (graph_mem.py:370-431, 465-506).
GraphIsOfItsFiles ==
    (graph # None /\ graph.print = [u \in Ulids |-> Mtime(u)])
        => graph.of = [u \in Ulids |-> {TextOf(u)}]

\* A sync that nothing else ran beside and nothing failed in ends with a graph
\* cached that has every file as it is, and with exactly the vectors there are to
\* be: that of each file's title and abstract, and none for a file that has
\* neither, cannot be read or is not there.  It does so whatever was left behind
\* by commands that died, failed half way or overtook each other before it, and
\* for a text that went and came back (vecstore.py:105-178, graph_mem.py:465).
SyncRefreshes ==
    \A p \in Procs, u \in Ulids :
        (At(p, "seen", None) /\ proc[p].clean) =>
            /\ vector[u] = ContentOf(u)
            /\ graph # None
            /\ graph.of[u] = {TextOf(u)}

\* Such a sync, with --full, repairs the rows too: those a failed
\* transaction or a killed command left half stored (sync_ops.py:69-86).
FullSyncMirrors ==
    \A p \in Procs, u \in Ulids :
        (At(p, "seen", None) /\ proc[p].rows /\ TextOf(u) # None) => Mirrored(u)

\* "Files new/modified since last sync" (sync_ops.py:43) are the ones whose
\* rows are out of date: a readable file that is recorded as seen is mirrored,
\* as long as no command is at work on it.
SeenIsMirrored ==
    (\A p \in Procs : proc[p] = Idle) =>
        \A u \in Ulids : (TextOf(u) # None /\ seen[u] = Mtime(u)) => Mirrored(u)
=============================================================================
