--------------------------- MODULE MCPaperLibrary ---------------------------
(* One process keeps the derived stores up to date, the other the files.   *)
EXTENDS PaperLibrary, TLC

CONSTANT Blank   \* a text without title and abstract

MCPapers == <<"u1">>
MCContent == [t \in Texts |-> IF t = Blank THEN None ELSE t]
MCTextTables == <<"sections">>
MCCommands == "p1" :> {"sync", "graph-stats"} @@
              "p2" :> {"batch-ingest"}
MCFew == "p1" :> {"sync"} @@ "p2" :> {"parse", "classify-all", "bootstrap"}
MCSymmetry == Permutations(Texts \ {Blank})
=============================================================================
