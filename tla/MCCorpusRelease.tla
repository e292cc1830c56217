-------------------------- MODULE MCCorpusRelease --------------------------
(* One release, two manifests that disagree about paper p: the first has   *)
(* only p, the second has p and q.  A content is named by its manifest.    *)
EXTENDS CorpusRelease, TLC

CONSTANTS w1, w2, m1, m2, p, q

MCRows == m1 :> <<p>> @@ m2 :> <<p, q>>
MCVersion == [m \in Manifests |-> [i \in Items |-> m]]

\* The command processes are interchangeable.
WorkerSymmetry == Permutations(Workers)

=============================================================================
