------------------------- MODULE PaperLibraryProofs -------------------------
(***************************************************************************)
(* What the commands of the paper library guarantee for any papers, tables *)
(* and processes.                                                          *)
(*                                                                         *)
(* The steps of every command are put together from groups in which a step *)
(* that uses what an earlier one has read comes right after it             *)
(* (WellFormed), and a command that passes over a step passes over those   *)
(* that need it.  That is shown first, by induction over the papers; the   *)
(* invariants then speak of the step a process is at and of those that     *)
(* follow.                                                                 *)
(***************************************************************************)
EXTENDS PaperLibrary, SequenceTheorems, WellFoundedInduction, TLAPS

-----------------------------------------------------------------------------
(* Induction over the natural numbers, and the smallest element of a set.  *)

LEMMA Smallest ==
    ASSUME NEW T \in SUBSET Nat, T # {}
    PROVE  Min(T) \in T /\ \A y \in T : Min(T) <= y
<1> DEFINE R == {ss \in Nat \X Nat : ss[1] < ss[2]}
<1>1. IsWellFoundedOn(R, Nat)
  BY NatLessThanWellFounded DEF OpToRel
<1>2. PICK x \in T : \A y \in T : ~ (<<y, x>> \in R)
  <2> HIDE DEF R
  <2> QED  BY <1>1, WFMin
<1>3. \A y \in T : ~ (y < x)
  BY <1>2
<1>4. \A y \in T : x <= y
  BY <1>3
<1>5. \E z \in T : \A y \in T : z <= y
  BY <1>4
<1> QED  BY <1>5, Zenon DEF Min

LEMMA Induction ==
    ASSUME NEW S \in SUBSET Nat, 0 \in S, \A n \in Nat : n \in S => n + 1 \in S
    PROVE  S = Nat
<1> SUFFICES ASSUME S # Nat PROVE FALSE
  OBVIOUS
<1> DEFINE x == Min(Nat \ S)
<1>1. x \in Nat \ S /\ \A y \in Nat \ S : x <= y
  BY Smallest
<1> HIDE DEF x
<1>2. x # 0
  BY <1>1
<1>3. x - 1 \in Nat /\ x - 1 \in S
  BY <1>1, <1>2
<1> QED  BY <1>1, <1>3

-----------------------------------------------------------------------------
(* Sequences put one after the other.                                      *)

LEMMA Joined ==
    ASSUME NEW S, NEW s \in Seq(S), NEW t \in Seq(S)
    PROVE  /\ s \o t \in Seq(S)
           /\ Len(s \o t) = Len(s) + Len(t)
           /\ \A i \in 1..Len(s) : (s \o t)[i] = s[i]
           /\ \A i \in 1..Len(t) : (s \o t)[Len(s) + i] = t[i]
           /\ \A i \in 1..Len(s) + Len(t) : i > Len(s) => (s \o t)[i] = t[i - Len(s)]
           /\ DOMAIN (s \o t) = 1..Len(s) + Len(t)
  OBVIOUS

\* f puts the first m of some sequences one after the other.
Flattens(f, seqs, m) ==
    f = [i \in 1..m |-> IF i = 1 THEN seqs[i] ELSE f[i - 1] \o seqs[i]]

LEMMA FlattensSteps ==
    ASSUME NEW seqs, NEW m \in Nat, NEW f, Flattens(f, seqs, m)
    PROVE  /\ m > 0 => f[1] = seqs[1]
           /\ \A i \in 2..m : f[i] = f[i - 1] \o seqs[i]
<1> DEFINE val(g, i) == IF i = 1 THEN seqs[i] ELSE g[i - 1] \o seqs[i]
<1>1. f = [i \in 1..m |-> val(f, i)]
  BY DEF Flattens
<1> HIDE DEF val
<1>2. \A i \in 1..m : f[i] = val(f, i)
  BY <1>1
<1>3. ASSUME m > 0 PROVE f[1] = seqs[1]
  <2>1. 1 \in 1..m
    BY <1>3
  <2> QED  BY <1>2, <2>1 DEF val
<1>4. ASSUME NEW i \in 2..m PROVE f[i] = f[i - 1] \o seqs[i]
  <2>1. i \in 1..m /\ i # 1
    OBVIOUS
  <2> QED  BY <1>2, <2>1 DEF val
<1> QED  BY <1>3, <1>4

LEMMA FlattensIs ==
    ASSUME NEW V, NEW seqs, NEW m \in Nat, NEW f \in [1..m -> V],
           m > 0 => f[1] = seqs[1],
           \A i \in 2..m : f[i] = f[i - 1] \o seqs[i]
    PROVE  Flattens(f, seqs, m)
<1> DEFINE val(i) == IF i = 1 THEN seqs[i] ELSE f[i - 1] \o seqs[i]
<1>1. ASSUME NEW i \in 1..m PROVE f[i] = val(i)
  <2>1. CASE i = 1
    BY <2>1
  <2>2. CASE i # 1
    <3>1. i \in 2..m
      BY <2>2
    <3> QED  BY <2>2, <3>1
  <2> QED  BY <2>1, <2>2
<1> HIDE DEF val
<1>2. f = [i \in 1..m |-> val(i)]
  BY <1>1
<1> QED  BY <1>2 DEF val, Flattens

\* There is such a function, whatever the sequences.
LEMMA CanFlatten ==
    ASSUME NEW S, NEW seqs \in Seq(Seq(S))
    PROVE  \E f : Flattens(f, seqs, Len(seqs))
<1> DEFINE n == Len(seqs)
           Can(m) == \E f \in [1..m -> Seq(S)] : Flattens(f, seqs, m)
           Cans == {m \in Nat : m <= n => Can(m)}
<1>0. n \in Nat /\ \A i \in 1..n : seqs[i] \in Seq(S)
  OBVIOUS
<1>1. Can(0)
  <2> DEFINE f == [i \in 1..0 |-> <<>>]
  <2>1. f \in [1..0 -> Seq(S)]
    OBVIOUS
  <2> HIDE DEF f
  <2>2. \A i \in 2..0 : f[i] = f[i - 1] \o seqs[i]
    OBVIOUS
  <2>3. Flattens(f, seqs, 0)
    <3>1. 0 \in Nat /\ (0 > 0 => f[1] = seqs[1])
      OBVIOUS
    <3> QED  BY <2>1, <2>2, <3>1, FlattensIs
  <2> QED  BY <2>1, <2>3
<1>2. ASSUME NEW m \in Nat, m + 1 <= n, Can(m) PROVE Can(m + 1)
  <2>1. PICK g \in [1..m -> Seq(S)] : Flattens(g, seqs, m)
    BY <1>2
  <2> DEFINE next == IF m = 0 THEN seqs[1] ELSE g[m] \o seqs[m + 1]
             f == [i \in 1..m + 1 |-> IF i <= m THEN g[i] ELSE next]
  <2>2. /\ m > 0 => g[1] = seqs[1]
        /\ \A i \in 2..m : g[i] = g[i - 1] \o seqs[i]
    BY <2>1, FlattensSteps
  <2>3. next \in Seq(S)
    <3>1. seqs[1] \in Seq(S) /\ seqs[m + 1] \in Seq(S)
      BY <1>0, <1>2
    <3>2. m # 0 => g[m] \in Seq(S)
      OBVIOUS
    <3> QED  BY <3>1, <3>2, Joined
  <2>4. m = 0 => next = seqs[1]
    OBVIOUS
  <2>5. m # 0 => next = g[m] \o seqs[m + 1]
    OBVIOUS
  <2> HIDE DEF next
  <2>6. /\ \A i \in 1..m : f[i] = g[i]
        /\ f[m + 1] = next
        /\ f \in [1..m + 1 -> Seq(S)]
    BY <2>3
  <2> HIDE DEF f
  <2>7. f[1] = seqs[1]
    BY <2>2, <2>4, <2>6
  <2>8. ASSUME NEW i \in 2..m + 1 PROVE f[i] = f[i - 1] \o seqs[i]
    <3>1. CASE i <= m
      <4>1. i \in 2..m /\ i \in 1..m /\ i - 1 \in 1..m
        BY <3>1
      <4> QED  BY <2>2, <2>6, <4>1
    <3>2. CASE i = m + 1
      <4>1. m # 0 /\ i - 1 = m /\ m \in 1..m
        BY <3>2
      <4> QED  BY <2>5, <2>6, <3>2, <4>1
    <3>3. i <= m \/ i = m + 1
      OBVIOUS
    <3> QED  BY <3>1, <3>2, <3>3
  <2>9. Flattens(f, seqs, m + 1)
    <3>1. m + 1 \in Nat
      OBVIOUS
    <3> QED  BY <2>6, <2>7, <2>8, <3>1, FlattensIs
  <2> QED  BY <2>6, <2>9
<1> HIDE DEF Can, n
<1>3. 0 \in Cans
  BY <1>1
<1>4. ASSUME NEW m \in Nat, m \in Cans PROVE m + 1 \in Cans
  BY <1>0, <1>2, <1>4
<1>5. Cans = Nat
  <2> HIDE DEF Cans
  <2>1. Cans \in SUBSET Nat
    BY DEF Cans
  <2> QED  BY <1>3, <1>4, <2>1, Induction
<1>6. Can(n)
  <2>1. \A m \in Cans : m <= n => Can(m)
    OBVIOUS
  <2> HIDE DEF Cans
  <2>2. n \in Cans /\ n <= n
    BY <1>0, <1>5
  <2> QED  BY <2>1, <2>2
<1> QED  BY <1>6 DEF Can, n

\* What holds of each of some sequences, and of two put together if it holds of
\* them, holds of all put together.
LEMMA FlattenIn ==
    ASSUME NEW S, NEW G \in SUBSET Seq(S), NEW seqs \in Seq(G), <<>> \in G,
           \A a, b \in G : a \o b \in G
    PROVE  FlattenSeq(seqs) \in G
<1> DEFINE n == Len(seqs)
           F == CHOOSE f : Flattens(f, seqs, n)
           Ins == {m \in Nat : m + 1 <= n => F[m + 1] \in G}
<1>1. n \in Nat /\ \A i \in 1..n : seqs[i] \in G
  OBVIOUS
<1>2. Flattens(F, seqs, n)
  <2>1. seqs \in Seq(Seq(S))
    BY <1>1
  <2>2. \E f : Flattens(f, seqs, n)
    BY <2>1, CanFlatten
  <2> QED  BY <2>2, Zenon
<1>3. n # 0 => FlattenSeq(seqs) = F[n]
  BY DEF FlattenSeq, Flattens
<1>4. n = 0 => FlattenSeq(seqs) = <<>>
  BY DEF FlattenSeq
<1> HIDE DEF F
<1>5. /\ n > 0 => F[1] = seqs[1]
      /\ \A i \in 2..n : F[i] = F[i - 1] \o seqs[i]
  BY <1>1, <1>2, FlattensSteps
<1>6. 0 \in Ins
  BY <1>1, <1>5
<1>7. ASSUME NEW m \in Nat, m \in Ins PROVE m + 1 \in Ins
  <2> SUFFICES ASSUME m + 2 <= n PROVE F[m + 2] \in G
    OBVIOUS
  <2>1. F[m + 1] \in G /\ seqs[m + 2] \in G
    BY <1>1, <1>7
  <2>2. F[m + 2] = F[m + 1] \o seqs[m + 2]
    <3>1. m + 2 \in 2..n
      BY <1>1
    <3>2. F[m + 2] = F[(m + 2) - 1] \o seqs[m + 2]
      BY <1>5, <3>1
    <3>3. (m + 2) - 1 = m + 1
      OBVIOUS
    <3> QED  BY <3>2, <3>3
  <2> QED  BY <2>1, <2>2
<1>8. Ins = Nat
  <2> HIDE DEF Ins
  <2>1. Ins \in SUBSET Nat
    BY DEF Ins
  <2> QED  BY <1>6, <1>7, <2>1, Induction
<1>9. CASE n = 0
  BY <1>4, <1>9
<1>10. CASE n # 0
  <2> HIDE DEF n
  <2>1. n - 1 \in Nat /\ (n - 1) + 1 = n
    BY <1>1, <1>10
  <2>2. F[(n - 1) + 1] \in G
    BY <1>8, <2>1
  <2> QED  BY <1>3, <1>10, <2>1, <2>2
<1> QED  BY <1>9, <1>10

-----------------------------------------------------------------------------
(* Programs: the steps of a command in their order.                        *)

Owners  == Ulids \cup {None}
Rows    == Range(Tables)
Readers == {"read", "lookup", "need"}
Looks   == {"look", "cache"}
Heirs   == {"open", "touch", "enrich", "upsert"} \cup Rows

\* A step that uses what was read can come right after these.  The rows of a
\* paper are stored after one of the `sources', and after each other.
Leads(name, sources) ==
    CASE name = "open"              -> Readers
      [] name \in {"touch", "enrich"} -> {"open"}
      [] name = "upsert"            -> {"enrich"}
      [] OTHER                      -> sources \cup Rows

\* The graph that is at hand at place k is the one begun at place b.
Begun(s, b, k) ==
    /\ b < k
    /\ s[b][1] = "print"
    /\ \A j \in b + 1 .. k - 1 : s[j][1] = "look"

Fed(s, sources) ==
    \A k \in 1..Len(s) : s[k][1] \in Heirs =>
        k > 1 /\ s[k - 1][1] \in Leads(s[k][1], sources) /\ s[k - 1][2] = s[k][2]

Followed(s) ==
    \A k \in 1..Len(s) : s[k][1] \in Readers =>
        k + 2 <= Len(s) /\ s[k + 1][1] = "open" /\ s[k + 2][1] \in {"touch", "enrich"}

\* A graph that was begun at b and is to be stored at k has every paper.
Complete(s, b, k) ==
    s[k][1] = "cache" => \A u \in Ulids : \E j \in b + 1 .. k - 1 : s[j] = <<"look", u>>

Whole(s) ==
    \A k \in 1..Len(s) : s[k][1] \in Looks =>
        \E b \in 1..Len(s) : Begun(s, b, k) /\ Complete(s, b, k)

\* The programs whose steps have these names.
Programs(names, sources) ==
    {s \in Seq(names \X Owners) : Fed(s, sources) /\ Followed(s) /\ Whole(s)}

LEMMA Simple ==
    ASSUME NEW N, NEW S, NEW s \in Seq(N \X Owners),
           \A k \in 1..Len(s) : s[k][1] \notin Heirs \cup Readers \cup Looks
    PROVE  s \in Programs(N, S)
  BY DEF Programs, Fed, Followed, Whole

LEMMA Together ==
    ASSUME NEW N, NEW S, NEW a \in Programs(N, S), NEW b \in Programs(N, S)
    PROVE  a \o b \in Programs(N, S)
<1> DEFINE c == a \o b
           n == Len(a)
           m == Len(b)
<1>1. /\ a \in Seq(N \X Owners) /\ Fed(a, S) /\ Followed(a) /\ Whole(a)
      /\ b \in Seq(N \X Owners) /\ Fed(b, S) /\ Followed(b) /\ Whole(b)
  BY DEF Programs
<1>2. /\ c \in Seq(N \X Owners)
      /\ n \in Nat /\ m \in Nat
      /\ Len(c) = n + m
      /\ \A i \in 1..n : c[i] = a[i]
      /\ \A i \in 1..m : c[n + i] = b[i]
  BY <1>1
<1>3. ASSUME NEW k \in 1..n + m
      PROVE  k \in 1..n \/ \E i \in 1..m : k = n + i
  <2>1. CASE k <= n
    BY <2>1, <1>2
  <2>2. CASE k > n
    <3>1. k - n \in 1..m /\ k = n + (k - n)
      BY <2>2, <1>2
    <3> QED  BY <3>1
  <2> QED  BY <2>1, <2>2, <1>2
<1> HIDE DEF c, n, m
<1>4. Fed(c, S)
  <2> SUFFICES ASSUME NEW k \in 1..Len(c), c[k][1] \in Heirs
               PROVE  k > 1 /\ c[k - 1][1] \in Leads(c[k][1], S) /\ c[k - 1][2] = c[k][2]
    BY DEF Fed
  <2>1. CASE k \in 1..n
    <3>1. k > 1 /\ a[k - 1][1] \in Leads(a[k][1], S) /\ a[k - 1][2] = a[k][2]
      BY <1>1, <1>2, <2>1 DEF Fed, n
    <3>2. k - 1 \in 1..n
      BY <1>2, <2>1, <3>1
    <3> QED  BY <1>2, <2>1, <3>1, <3>2
  <2>2. ASSUME NEW i \in 1..m, k = n + i PROVE k > 1 /\ c[k - 1][1] \in Leads(c[k][1], S) /\ c[k - 1][2] = c[k][2]
    <3>1. c[k] = b[i]
      BY <1>2, <2>2
    <3>2. i > 1 /\ b[i - 1][1] \in Leads(b[i][1], S) /\ b[i - 1][2] = b[i][2]
      BY <1>1, <1>2, <3>1 DEF Fed, m
    <3>3. i - 1 \in 1..m /\ k - 1 = n + (i - 1)
      BY <1>2, <2>2, <3>2
    <3>4. c[k - 1] = b[i - 1]
      BY <1>2, <3>3
    <3> QED  BY <1>2, <2>2, <3>1, <3>2, <3>4
  <2> QED  BY <1>2, <1>3, <2>1, <2>2
<1>5. Followed(c)
  <2> SUFFICES ASSUME NEW k \in 1..Len(c), c[k][1] \in Readers
               PROVE  /\ k + 2 <= Len(c)
                      /\ c[k + 1][1] = "open" /\ c[k + 2][1] \in {"touch", "enrich"}
    BY DEF Followed
  <2>1. CASE k \in 1..n
    <3>1. k + 2 <= n /\ a[k + 1][1] = "open" /\ a[k + 2][1] \in {"touch", "enrich"}
      BY <1>1, <1>2, <2>1 DEF Followed, n
    <3>2. k + 1 \in 1..n /\ k + 2 \in 1..n
      BY <1>2, <2>1, <3>1
    <3> QED  BY <1>2, <2>1, <3>1, <3>2
  <2>2. ASSUME NEW i \in 1..m, k = n + i
        PROVE  /\ k + 2 <= Len(c)
               /\ c[k + 1][1] = "open" /\ c[k + 2][1] \in {"touch", "enrich"}
    <3>1. c[k] = b[i]
      BY <1>2, <2>2
    <3>2. i + 2 <= m /\ b[i + 1][1] = "open" /\ b[i + 2][1] \in {"touch", "enrich"}
      BY <1>1, <1>2, <3>1 DEF Followed, m
    <3>3. i + 1 \in 1..m /\ i + 2 \in 1..m /\ k + 1 = n + (i + 1) /\ k + 2 = n + (i + 2)
      BY <1>2, <2>2, <3>2
    <3>4. c[k + 1] = b[i + 1] /\ c[k + 2] = b[i + 2]
      <4>1. c[n + (i + 1)] = b[i + 1] /\ c[n + (i + 2)] = b[i + 2]
        BY <1>2, <3>3
      <4> QED  BY <3>3, <4>1
    <3> QED  BY <1>2, <2>2, <3>2, <3>4
  <2> QED  BY <1>2, <1>3, <2>1, <2>2
<1>6. Whole(c)
  <2> SUFFICES ASSUME NEW k \in 1..Len(c), c[k][1] \in Looks
               PROVE  \E z \in 1..Len(c) : Begun(c, z, k) /\ Complete(c, z, k)
    BY DEF Whole
  <2>1. CASE k \in 1..n
    <3>0. k \in 1..Len(a) /\ a[k][1] \in Looks
      BY <1>2, <2>1 DEF n
    <3>1. PICK z \in 1..Len(a) : Begun(a, z, k) /\ Complete(a, z, k)
      BY <1>1, <3>0 DEF Whole
    <3>2. z \in 1..n /\ z < k /\ a[z][1] = "print" /\ \A j \in z + 1 .. k - 1 : a[j][1] = "look"
      BY <3>1 DEF Begun, n
    <3>3. \A j \in z + 1 .. k - 1 : j \in 1..n
      BY <1>2, <2>1, <3>2
    <3>4. Begun(c, z, k)
      BY <1>2, <2>1, <3>2, <3>3 DEF Begun
    <3>5. ASSUME c[k][1] = "cache", NEW u \in Ulids
          PROVE  \E j \in z + 1 .. k - 1 : c[j] = <<"look", u>>
      <4>1. PICK j \in z + 1 .. k - 1 : a[j] = <<"look", u>>
        BY <1>2, <2>1, <3>1, <3>5 DEF Complete
      <4>2. c[j] = a[j]
        BY <1>2, <3>3
      <4> QED  BY <4>1, <4>2
    <3>6. z \in 1..Len(c)
      BY <1>2, <3>2
    <3> QED  BY <3>4, <3>5, <3>6 DEF Complete
  <2>2. ASSUME NEW i \in 1..m, k = n + i
        PROVE  \E z \in 1..Len(c) : Begun(c, z, k) /\ Complete(c, z, k)
    <3>1. c[k] = b[i] /\ i \in 1..Len(b) /\ b[i][1] \in Looks
      BY <1>2, <2>2 DEF m
    <3>2. PICK y \in 1..Len(b) : Begun(b, y, i) /\ Complete(b, y, i)
      BY <1>1, <3>1 DEF Whole
    <3>3. y \in 1..m /\ y < i /\ b[y][1] = "print" /\ \A j \in y + 1 .. i - 1 : b[j][1] = "look"
      BY <3>2 DEF Begun, m
    <3> DEFINE z == n + y
    <3>4. z \in 1..Len(c) /\ z < k /\ c[z][1] = "print"
      BY <1>2, <2>2, <3>3
    <3>5. ASSUME NEW j \in z + 1 .. k - 1 PROVE c[j][1] = "look"
      <4>1. j - n \in y + 1 .. i - 1 /\ j - n \in 1..m /\ j = n + (j - n)
        BY <1>2, <2>2, <3>3
      <4>2. c[j] = b[j - n]
        BY <1>2, <4>1
      <4> QED  BY <3>3, <4>1, <4>2
    <3>6. ASSUME c[k][1] = "cache", NEW u \in Ulids
          PROVE  \E j \in z + 1 .. k - 1 : c[j] = <<"look", u>>
      <4>1. PICK j \in y + 1 .. i - 1 : b[j] = <<"look", u>>
        BY <3>1, <3>2, <3>6 DEF Complete
      <4>2. n + j \in z + 1 .. k - 1 /\ j \in 1..m
        BY <1>2, <2>2, <3>3
      <4>3. c[n + j] = b[j]
        BY <1>2, <4>2
      <4> QED  BY <4>1, <4>2, <4>3
    <3> HIDE DEF z
    <3>7. Begun(c, z, k)
      BY <3>4, <3>5 DEF Begun
    <3> QED  BY <3>4, <3>6, <3>7 DEF Complete
  <2> QED  BY <1>2, <1>3, <2>1, <2>2
<1> QED  BY <1>2, <1>4, <1>5, <1>6 DEF Programs, c

\* The names of a paper's steps, for each paper.
LEMMA ForEachIn ==
    ASSUME NEW N, NEW S, NEW names, \A u \in Ulids : Of(u, names) \in Programs(N, S)
    PROVE  ForEach(names) \in Programs(N, S)
<1> DEFINE G == Programs(N, S)
           seqs == [k \in DOMAIN Papers |-> Of(Papers[k], names)]
<1>1. Papers \in Seq(Ulids)
  BY LibraryAssumption DEF LibraryAssumption
<1>2. seqs \in Seq(G)
  <2>1. \A k \in 1..Len(Papers) : Of(Papers[k], names) \in G
    BY <1>1
  <2> HIDE DEF G
  <2> QED  BY <1>1, <2>1
<1>3. <<>> \in G
  <2>1. <<>> \in Seq(N \X Owners) /\ Len(<<>>) = 0 /\ 1..0 = {}
    OBVIOUS
  <2> QED  BY <2>1, Simple
<1>4. \A a, b \in G : a \o b \in G
  BY Together
<1>5. G \in SUBSET Seq(N \X Owners)
  BY DEF Programs
<1> HIDE DEF G, seqs
<1>6. FlattenSeq(seqs) \in G
  BY <1>2, <1>3, <1>4, <1>5, FlattenIn
<1> QED  BY <1>6 DEF G, seqs, ForEach

-----------------------------------------------------------------------------
(* The groups of steps that commands are put together from.                *)

LEMMA TablesAre ==
    /\ Tables \in Seq(Rows)
    /\ Rows \cap StepNames = {}
    /\ \A i \in DOMAIN Tables : Tables[i] \in Rows
    /\ \A t \in Rows : \E i \in DOMAIN Tables : t = Tables[i]
<1>1. TextTables \in Seq(Range(TextTables)) /\ Range(TextTables) \cap StepNames = {}
  BY LibraryAssumption DEF LibraryAssumption
<1> DEFINE one == <<"papers">>
<1>2. one \in Seq({"papers"}) /\ Len(one) = 1 /\ one[1] = "papers"
  OBVIOUS
<1> DEFINE X == {"papers"} \cup Range(TextTables)
<1>3. one \in Seq(X) /\ TextTables \in Seq(X)
  BY <1>1, <1>2
<1>4. Tables = one \o TextTables
  BY DEF Tables
<1> HIDE DEF one
<1>5. Tables \in Seq(X)
  BY <1>3, <1>4
<1> HIDE DEF X
<1>6. \A i \in DOMAIN Tables : Tables[i] \in X
  BY <1>5
<1>7. Rows \in SUBSET X
  BY <1>6 DEF Rows, Range
<1>8. X \cap StepNames = {}
  BY <1>1 DEF X, StepNames
<1>9. \A i \in DOMAIN Tables : Tables[i] \in Rows
  BY DEF Rows, Range
<1>10. Tables \in Seq(Rows)
  BY <1>5, <1>9
<1>11. \A t \in Rows : \E i \in DOMAIN Tables : t = Tables[i]
  BY DEF Rows, Range
<1> QED  BY <1>7, <1>8, <1>9, <1>10, <1>11

LEMMA OfTyped ==
    ASSUME NEW N, NEW names \in Seq(N), NEW u \in Ulids
    PROVE  /\ Of(u, names) \in Seq(N \X Owners)
           /\ Len(Of(u, names)) = Len(names)
           /\ \A k \in 1..Len(names) : Of(u, names)[k] = <<names[k], u>>
  BY DEF Of, Owners

LEMMA SameSequence ==
    ASSUME NEW S, NEW a \in Seq(S), NEW b \in Seq(S), Len(a) = Len(b),
           \A i \in 1..Len(a) : a[i] = b[i]
    PROVE  a = b
  OBVIOUS

LEMMA OfJoined ==
    ASSUME NEW N, NEW a \in Seq(N), NEW b \in Seq(N), NEW u \in Ulids
    PROVE  Of(u, a \o b) = Of(u, a) \o Of(u, b)
<1> DEFINE c == a \o b
           n == Len(a)
           m == Len(b)
           x == Of(u, a)
           y == Of(u, b)
           z == Of(u, c)
<1>1. /\ c \in Seq(N)
      /\ n \in Nat /\ m \in Nat
      /\ Len(c) = n + m
      /\ \A i \in 1..n : c[i] = a[i]
      /\ \A i \in 1..m : c[n + i] = b[i]
  OBVIOUS
<1> HIDE DEF c
<1>2. /\ x \in Seq(N \X Owners) /\ Len(x) = n /\ \A k \in 1..n : x[k] = <<a[k], u>>
      /\ y \in Seq(N \X Owners) /\ Len(y) = m /\ \A k \in 1..m : y[k] = <<b[k], u>>
      /\ z \in Seq(N \X Owners) /\ Len(z) = n + m /\ \A k \in 1..n + m : z[k] = <<c[k], u>>
  BY <1>1, OfTyped
<1> HIDE DEF x, y, z, n, m
<1> DEFINE w == x \o y
<1>3. /\ w \in Seq(N \X Owners) /\ Len(w) = n + m
      /\ \A i \in 1..n : w[i] = x[i]
      /\ \A i \in 1..m : w[n + i] = y[i]
  <2>1. x \in Seq(N \X Owners) /\ y \in Seq(N \X Owners)
    BY <1>2
  <2>2. /\ w \in Seq(N \X Owners)
        /\ Len(w) = Len(x) + Len(y)
        /\ \A i \in 1..Len(x) : w[i] = x[i]
        /\ \A i \in 1..Len(y) : w[Len(x) + i] = y[i]
    BY <2>1
  <2> HIDE DEF w
  <2> QED  BY <1>2, <2>2
<1> HIDE DEF w
<1>4. ASSUME NEW k \in 1..n + m PROVE z[k] = w[k]
  <2>1. CASE k <= n
    <3>1. k \in 1..n
      BY <1>1, <2>1
    <3>2. z[k] = <<a[k], u>> /\ w[k] = <<a[k], u>>
      BY <1>1, <1>2, <1>3, <3>1
    <3> QED  BY <3>2
  <2>2. CASE k > n
    <3>1. k - n \in 1..m /\ k = n + (k - n)
      BY <1>1, <2>2
    <3>2. z[k] = <<b[k - n], u>> /\ w[k] = y[k - n]
      BY <1>1, <1>2, <1>3, <3>1
    <3> QED  BY <1>2, <3>1, <3>2
  <2> QED  BY <1>1, <2>1, <2>2
<1>5. z = w
  BY <1>2, <1>3, <1>4, SameSequence
<1> QED  BY <1>5 DEF z, w, c, x, y

LEMMA OfTogether ==
    ASSUME NEW N, NEW S, NEW a \in Seq(N), NEW b \in Seq(N), NEW u \in Ulids,
           Of(u, a) \in Programs(N, S), Of(u, b) \in Programs(N, S)
    PROVE  a \o b \in Seq(N) /\ Of(u, a \o b) \in Programs(N, S)
<1> DEFINE x == Of(u, a)
           y == Of(u, b)
<1>1. a \o b \in Seq(N) /\ Of(u, a \o b) = x \o y
  BY OfJoined
<1>2. x \in Programs(N, S) /\ y \in Programs(N, S)
  OBVIOUS
<1> HIDE DEF x, y
<1>3. x \o y \in Programs(N, S)
  BY <1>2, Together
<1> QED  BY <1>1, <1>3

\* Parsing, by itself.
LEMMA ParseGroup ==
    ASSUME NEW N, NEW S, {"parse", "save"} \subseteq N, NEW u \in Ulids
    PROVE  Parse \in Seq(N) /\ Of(u, Parse) \in Programs(N, S)
<1>1. Parse \in Seq(N) /\ Len(Parse) = 2 /\ Parse[1] = "parse" /\ Parse[2] = "save"
  BY DEF Parse
<1>2. /\ Of(u, Parse) \in Seq(N \X Owners) /\ Len(Of(u, Parse)) = 2
      /\ \A k \in 1..2 : Of(u, Parse)[k] = <<Parse[k], u>>
  BY <1>1, OfTyped
<1>3. \A k \in 1..Len(Of(u, Parse)) : Of(u, Parse)[k][1] \notin Heirs \cup Readers \cup Looks
  <2>1. {"parse", "save"} \cap Rows = {}
    BY TablesAre DEF StepNames
  <2>2. \A k \in 1..2 : Of(u, Parse)[k][1] \in {"parse", "save"}
    BY <1>1, <1>2
  <2> QED  BY <1>2, <2>1, <2>2 DEF Heirs, Readers, Looks
<1> QED  BY <1>1, <1>2, <1>3, Simple

\* A reading, and what is written back.
LEMMA WriteGroup ==
    ASSUME NEW N, NEW S, NEW r \in Readers, NEW w \in {"touch", "enrich"},
           {r, "open", w} \subseteq N, NEW u \in Ulids
    PROVE  <<r, "open", w>> \in Seq(N) /\ Of(u, <<r, "open", w>>) \in Programs(N, S)
<1> DEFINE names == <<r, "open", w>>
           s == Of(u, names)
<1>1. names \in Seq(N) /\ Len(names) = 3 /\ names[1] = r /\ names[2] = "open" /\ names[3] = w
  OBVIOUS
<1> HIDE DEF names
<1>2. /\ s \in Seq(N \X Owners) /\ Len(s) = 3
      /\ \A k \in 1..3 : s[k] = <<names[k], u>>
  BY <1>1, OfTyped
<1> HIDE DEF s
<1>3. s[1] = <<r, u>> /\ s[2] = <<"open", u>> /\ s[3] = <<w, u>>
  BY <1>1, <1>2
<1>4. (Readers \cup {"open", "touch", "enrich"}) \cap (Rows \cup Looks) = {}
  BY TablesAre DEF StepNames, Readers, Looks
<1>5. Fed(s, S)
  <2> SUFFICES ASSUME NEW k \in 1..3, s[k][1] \in Heirs
               PROVE  k > 1 /\ s[k - 1][1] \in Leads(s[k][1], S) /\ s[k - 1][2] = s[k][2]
    BY <1>2 DEF Fed
  <2>1. CASE k = 1
    BY <1>3, <1>4, <2>1 DEF Heirs, Readers
  <2>2. CASE k = 2
    BY <1>3, <2>2 DEF Leads
  <2>3. CASE k = 3
    BY <1>3, <2>3 DEF Leads
  <2> QED  BY <2>1, <2>2, <2>3
<1>6. Followed(s)
  <2> SUFFICES ASSUME NEW k \in 1..3, s[k][1] \in Readers
               PROVE  k + 2 <= 3 /\ s[k + 1][1] = "open" /\ s[k + 2][1] \in {"touch", "enrich"}
    BY <1>2 DEF Followed
  <2>1. k = 1
    BY <1>3 DEF Readers
  <2> QED  BY <1>3, <2>1
<1>7. Whole(s)
  <2>1. \A k \in 1..3 : s[k][1] \notin Looks
    BY <1>3, <1>4
  <2> QED  BY <1>2, <2>1 DEF Whole
<1> QED  BY <1>1, <1>2, <1>5, <1>6, <1>7 DEF Programs, names, s

\* The same, and the row of the paper afterwards.
LEMMA UpsertGroup ==
    ASSUME NEW N, NEW S, {"lookup", "open", "enrich", "upsert"} \subseteq N, NEW u \in Ulids
    PROVE  Enrich \o <<"upsert">> \in Seq(N) /\ Of(u, Enrich \o <<"upsert">>) \in Programs(N, S)
<1> DEFINE names == Enrich \o <<"upsert">>
           s == Of(u, names)
<1>1. /\ names \in Seq(N) /\ Len(names) = 4 /\ names[1] = "lookup" /\ names[2] = "open"
      /\ names[3] = "enrich" /\ names[4] = "upsert"
  BY DEF Enrich
<1> HIDE DEF names
<1>2. /\ s \in Seq(N \X Owners) /\ Len(s) = 4
      /\ \A k \in 1..4 : s[k] = <<names[k], u>>
  BY <1>1, OfTyped
<1> HIDE DEF s
<1>3. s[1] = <<"lookup", u>> /\ s[2] = <<"open", u>> /\ s[3] = <<"enrich", u>> /\ s[4] = <<"upsert", u>>
  BY <1>1, <1>2
<1>4. {"lookup", "open", "enrich", "upsert"} \cap (Rows \cup Looks) = {}
  BY TablesAre DEF StepNames, Looks
<1>5. Fed(s, S)
  <2> SUFFICES ASSUME NEW k \in 1..4, s[k][1] \in Heirs
               PROVE  k > 1 /\ s[k - 1][1] \in Leads(s[k][1], S) /\ s[k - 1][2] = s[k][2]
    BY <1>2 DEF Fed
  <2>1. CASE k = 1
    BY <1>3, <1>4, <2>1 DEF Heirs
  <2>2. CASE k = 2
    BY <1>3, <2>2 DEF Leads, Readers
  <2>3. CASE k = 3
    BY <1>3, <2>3 DEF Leads
  <2>4. CASE k = 4
    BY <1>3, <2>4 DEF Leads
  <2> QED  BY <2>1, <2>2, <2>3, <2>4
<1>6. Followed(s)
  <2> SUFFICES ASSUME NEW k \in 1..4, s[k][1] \in Readers
               PROVE  k + 2 <= 4 /\ s[k + 1][1] = "open" /\ s[k + 2][1] \in {"touch", "enrich"}
    BY <1>2 DEF Followed
  <2>1. k = 1
    BY <1>3 DEF Readers
  <2> QED  BY <1>3, <2>1
<1>7. Whole(s)
  <2>1. \A k \in 1..4 : s[k][1] \notin Looks
    BY <1>3, <1>4
  <2> QED  BY <1>2, <2>1 DEF Whole
<1> QED  BY <1>1, <1>2, <1>5, <1>6, <1>7 DEF Programs, names, s

\* All the rows of a paper, after what gave its file.
LEMMA RowsGroup ==
    ASSUME NEW N, NEW S, NEW first \in S \cap N, first \in {"save", "take"}, Rows \subseteq N,
           NEW u \in Ulids
    PROVE  <<first>> \o Tables \in Seq(N) /\ Of(u, <<first>> \o Tables) \in Programs(N, S)
<1> DEFINE names == <<first>> \o Tables
           s == Of(u, names)
           n == Len(Tables)
<1>1. /\ names \in Seq(N) /\ n \in Nat /\ Len(names) = n + 1 /\ names[1] = first
      /\ \A k \in 2..n + 1 : names[k] \in Rows
  <2>1. Tables \in Seq(N) /\ n \in Nat /\ \A i \in 1..n : Tables[i] \in Rows
    BY TablesAre
  <2>2. <<first>> \in Seq(N) /\ Len(<<first>>) = 1 /\ <<first>>[1] = first
    OBVIOUS
  <2> DEFINE one == <<first>>
  <2> HIDE DEF n, one
  <2>3. /\ one \o Tables \in Seq(N) /\ Len(one \o Tables) = n + 1
        /\ (one \o Tables)[1] = first
        /\ \A k \in 2..n + 1 : (one \o Tables)[k] = Tables[k - 1]
    BY <2>1, <2>2 DEF one, n
  <2>4. \A k \in 2..n + 1 : k - 1 \in 1..n
    BY <2>1
  <2> QED  BY <2>1, <2>3, <2>4 DEF one
<1> HIDE DEF names, n
<1>2. /\ s \in Seq(N \X Owners) /\ Len(s) = n + 1
      /\ \A k \in 1..n + 1 : s[k] = <<names[k], u>>
  BY <1>1, OfTyped
<1> HIDE DEF s
<1>3. /\ s[1] = <<first, u>>
      /\ \A k \in 2..n + 1 : s[k][1] \in Rows /\ s[k][2] = u
  BY <1>1, <1>2
<1>4. /\ {"save", "take"} \cap (Heirs \cup Readers \cup Looks) = {}
      /\ Rows \cap (Readers \cup Looks \cup {"open", "touch", "enrich", "upsert"}) = {}
  BY TablesAre DEF StepNames, Looks, Heirs, Readers
<1>5. Fed(s, S)
  <2> SUFFICES ASSUME NEW k \in 1..n + 1, s[k][1] \in Heirs
               PROVE  k > 1 /\ s[k - 1][1] \in Leads(s[k][1], S) /\ s[k - 1][2] = s[k][2]
    BY <1>2 DEF Fed
  <2>1. k # 1
    BY <1>3, <1>4
  <2>2. k \in 2..n + 1
    BY <1>1, <2>1
  <2>3. Leads(s[k][1], S) = S \cup Rows
    BY <1>3, <1>4, <2>2 DEF Leads
  <2>4. CASE k = 2
    BY <1>3, <2>2, <2>3, <2>4
  <2>5. CASE k # 2
    <3>1. k - 1 \in 2..n + 1
      BY <1>1, <2>2, <2>5
    <3> QED  BY <1>3, <2>2, <2>3, <3>1
  <2> QED  BY <2>4, <2>5
<1>6. \A k \in 1..n + 1 : s[k][1] \notin Readers \cup Looks
  <2> SUFFICES ASSUME NEW k \in 1..n + 1 PROVE s[k][1] \notin Readers \cup Looks
    OBVIOUS
  <2>1. CASE k = 1
    BY <1>3, <1>4, <2>1
  <2>2. CASE k # 1
    <3>1. k \in 2..n + 1
      BY <1>1, <2>2
    <3> QED  BY <1>3, <1>4, <3>1
  <2> QED  BY <2>1, <2>2
<1>7. Followed(s) /\ Whole(s)
  BY <1>2, <1>6 DEF Followed, Whole
<1> QED  BY <1>1, <1>2, <1>5, <1>7 DEF Programs, names, s

LEMMA EachIs ==
    ASSUME NEW N, NEW name \in N
    PROVE  /\ Len(Papers) \in Nat
           /\ Each(name) \in Seq(N \X Owners)
           /\ Len(Each(name)) = Len(Papers)
           /\ \A k \in 1..Len(Papers) : Each(name)[k] = <<name, Papers[k]>>
           /\ \A u \in Ulids : \E k \in 1..Len(Papers) : Each(name)[k] = <<name, u>>
<1>1. Papers \in Seq(Ulids) /\ Ulids \subseteq Owners
  BY LibraryAssumption DEF LibraryAssumption, Owners
<1>2. \A u \in Ulids : \E k \in 1..Len(Papers) : Papers[k] = u
  BY <1>1 DEF Ulids, Range
<1>3. /\ Each(name) \in Seq(N \X Owners)
      /\ Len(Each(name)) = Len(Papers)
      /\ \A k \in 1..Len(Papers) : Each(name)[k] = <<name, Papers[k]>>
  BY <1>1 DEF Each
<1> QED  BY <1>1, <1>2, <1>3

\* The graph is begun, every paper is looked at, and the graph is stored.
LEMMA GraphGroup ==
    ASSUME NEW N, NEW S, {"print", "look", "cache"} \subseteq N
    PROVE  /\ Graph \in Programs(N, S)
           /\ \E k \in 1..Len(Graph) : Graph[k] = <<"cache", None>>
<1> DEFINE n == Len(Papers)
           pass == Each("look")
           first == <<<<"print", None>>>>
           last == <<<<"cache", None>>>>
<1>1. /\ n \in Nat
      /\ pass \in Seq(N \X Owners)
      /\ Len(pass) = n
      /\ \A k \in 1..n : pass[k] = <<"look", Papers[k]>>
      /\ \A u \in Ulids : \E k \in 1..n : pass[k] = <<"look", u>>
  BY EachIs
<1>2. /\ first \in Seq(N \X Owners) /\ Len(first) = 1 /\ first[1] = <<"print", None>>
      /\ last \in Seq(N \X Owners) /\ Len(last) = 1 /\ last[1] = <<"cache", None>>
  BY DEF Owners
<1>3. Graph = ((first \o pass) \o pass) \o last
  BY DEF Graph
<1> HIDE DEF n, pass, first, last
<1> DEFINE a == first \o pass
           b == a \o pass
           s == b \o last
<1>4. /\ a \in Seq(N \X Owners) /\ Len(a) = n + 1 /\ a[1] = <<"print", None>>
      /\ \A i \in 1..n : a[1 + i] = pass[i]
  <2>1. first \in Seq(N \X Owners) /\ pass \in Seq(N \X Owners)
    BY <1>1, <1>2
  <2>2. /\ a \in Seq(N \X Owners)
        /\ Len(a) = Len(first) + Len(pass)
        /\ \A i \in 1..Len(first) : a[i] = first[i]
        /\ \A i \in 1..Len(pass) : a[Len(first) + i] = pass[i]
    BY <2>1
  <2> HIDE DEF a
  <2> QED  BY <1>1, <1>2, <2>2
<1> HIDE DEF a
<1>5. /\ b \in Seq(N \X Owners) /\ Len(b) = 2 * n + 1 /\ b[1] = <<"print", None>>
      /\ \A i \in 1..n : b[1 + i] = pass[i]
      /\ \A i \in 1..n : b[n + 1 + i] = pass[i]
  <2>1. a \in Seq(N \X Owners) /\ pass \in Seq(N \X Owners)
    BY <1>1, <1>4
  <2>2. /\ b \in Seq(N \X Owners)
        /\ Len(b) = Len(a) + Len(pass)
        /\ \A i \in 1..Len(a) : b[i] = a[i]
        /\ \A i \in 1..Len(pass) : b[Len(a) + i] = pass[i]
    BY <2>1
  <2> HIDE DEF b
  <2>3. Len(b) = 2 * n + 1 /\ b[1] = <<"print", None>>
    BY <1>1, <1>4, <2>2
  <2>4. ASSUME NEW i \in 1..n PROVE b[1 + i] = pass[i] /\ b[n + 1 + i] = pass[i]
    <3>1. 1 + i \in 1..Len(a)
      BY <1>1, <1>4
    <3> QED  BY <1>1, <1>4, <2>2, <3>1
  <2> QED  BY <2>2, <2>3, <2>4
<1> HIDE DEF b
<1>6. /\ s \in Seq(N \X Owners) /\ Len(s) = 2 * n + 2 /\ s[1] = <<"print", None>>
      /\ \A i \in 1..n : s[1 + i] = pass[i]
      /\ \A i \in 1..n : s[n + 1 + i] = pass[i]
      /\ s[2 * n + 2] = <<"cache", None>>
  <2>1. b \in Seq(N \X Owners) /\ last \in Seq(N \X Owners)
    BY <1>2, <1>5
  <2>2. /\ s \in Seq(N \X Owners)
        /\ Len(s) = Len(b) + Len(last)
        /\ \A i \in 1..Len(b) : s[i] = b[i]
        /\ \A i \in 1..Len(last) : s[Len(b) + i] = last[i]
    BY <2>1
  <2> HIDE DEF s
  <2>3. Len(s) = 2 * n + 2 /\ s[1] = <<"print", None>>
    BY <1>1, <1>2, <1>5, <2>2
  <2>4. ASSUME NEW i \in 1..n PROVE s[1 + i] = pass[i] /\ s[n + 1 + i] = pass[i]
    <3>1. 1 + i \in 1..Len(b) /\ n + 1 + i \in 1..Len(b)
      BY <1>1, <1>5
    <3> QED  BY <1>1, <1>5, <2>2, <3>1
  <2>5. s[Len(b) + 1] = last[1] /\ Len(b) + 1 = 2 * n + 2
    BY <1>1, <1>2, <1>5, <2>2
  <2> QED  BY <1>2, <2>2, <2>3, <2>4, <2>5
<1> HIDE DEF s
<1>7. ASSUME NEW k \in 2..2 * n + 1 PROVE s[k][1] = "look"
  <2>1. CASE k <= n + 1
    <3>1. k - 1 \in 1..n /\ k = 1 + (k - 1)
      BY <1>1, <2>1
    <3>2. s[k] = pass[k - 1]
      BY <1>6, <3>1
    <3> QED  BY <1>1, <3>1, <3>2
  <2>2. CASE k > n + 1
    <3>1. k - n - 1 \in 1..n /\ k = n + 1 + (k - n - 1)
      BY <1>1, <2>2
    <3>2. s[k] = pass[k - n - 1]
      BY <1>6, <3>1
    <3> QED  BY <1>1, <3>1, <3>2
  <2> QED  BY <1>1, <2>1, <2>2
<1>8. ASSUME NEW k \in 1..2 * n + 2
      PROVE  k = 1 \/ k \in 2..2 * n + 1 \/ k = 2 * n + 2
  BY <1>1
<1>9. {"print", "look", "cache"} \cap (Heirs \cup Readers) = {}
  BY TablesAre DEF Heirs, Readers, StepNames
<1>10. \A k \in 1..2 * n + 2 : s[k][1] \in {"print", "look", "cache"}
  BY <1>6, <1>7, <1>8
<1>11. Fed(s, S) /\ Followed(s)
  BY <1>6, <1>9, <1>10 DEF Fed, Followed
<1>12. Whole(s)
  <2> SUFFICES ASSUME NEW k \in 1..2 * n + 2, s[k][1] \in Looks
               PROVE  Begun(s, 1, k) /\ Complete(s, 1, k)
    <3>1. 1 \in 1..2 * n + 2
      BY <1>1
    <3> QED  BY <1>6, <3>1 DEF Whole
  <2>1. k > 1
    BY <1>6 DEF Looks
  <2>2. \A j \in 1 + 1 .. k - 1 : j \in 2..2 * n + 1
    BY <1>1
  <2>3. Begun(s, 1, k)
    BY <1>6, <1>7, <2>1, <2>2 DEF Begun
  <2>4. ASSUME s[k][1] = "cache", NEW u \in Ulids
        PROVE  \E j \in 1 + 1 .. k - 1 : s[j] = <<"look", u>>
    <3>1. k = 2 * n + 2
      BY <1>6, <1>7, <1>8, <2>4
    <3>2. PICK i \in 1..n : pass[i] = <<"look", u>>
      BY <1>1
    <3>3. 1 + i \in 1 + 1 .. k - 1
      BY <1>1, <3>1
    <3> QED  BY <1>6, <3>2, <3>3
  <2> QED  BY <2>3, <2>4 DEF Complete
<1>13. s \in Programs(N, S)
  BY <1>6, <1>11, <1>12 DEF Programs
<1>14. 2 * n + 2 \in 1..Len(s)
  BY <1>1, <1>6
<1> QED  BY <1>3, <1>6, <1>13, <1>14 DEF s, b, a

-----------------------------------------------------------------------------
(* The program of every command.                                           *)

ParseNames == {"parse", "save"}
WriteNames == {"read", "lookup", "need", "open", "touch", "enrich"}
GraphNames == {"print", "look", "cache"}
RowNames   == Rows \cup {"take", "upsert"}
SyncNames  == {"take"} \cup Rows \cup {"relist", "list", "embed", "purge"} \cup GraphNames \cup {"seen"}
BootstrapNames == ParseNames \cup WriteNames \cup GraphNames \cup RowNames
IngestNames == ParseNames \cup WriteNames \cup GraphNames
ServeNames == {"ask", "load"} \cup GraphNames
OtherNames == ParseNames \cup WriteNames \cup RowNames

NamesOf(command) ==
    CASE command = "sync"      -> SyncNames
      [] command = "bootstrap" -> BootstrapNames
      [] command = "ingest"    -> IngestNames
      [] command \in {"graph-build", "graph-stats"} -> ServeNames
      [] OTHER                 -> OtherNames

SourcesOf(command) ==
    IF command \in {"sync", "bootstrap"} THEN {"take"} ELSE {"save", "take"}

ProgramsOf(command) ==
    {s \in Programs(NamesOf(command), SourcesOf(command)) : command = "sync" => s = SyncSteps}

LEMMA AmendGroup ==
    ASSUME NEW N, NEW S, {"read", "open", "touch"} \subseteq N, NEW u \in Ulids
    PROVE  Amend \in Seq(N) /\ Of(u, Amend) \in Programs(N, S)
  BY WriteGroup DEF Amend, Readers

LEMMA EnrichGroup ==
    ASSUME NEW N, NEW S, {"lookup", "open", "enrich"} \subseteq N, NEW u \in Ulids
    PROVE  Enrich \in Seq(N) /\ Of(u, Enrich) \in Programs(N, S)
  BY WriteGroup DEF Enrich, Readers

LEMMA NeededGroup ==
    ASSUME NEW N, NEW S, {"need", "open", "enrich"} \subseteq N, NEW u \in Ulids
    PROVE  Needed \in Seq(N) /\ Of(u, Needed) \in Programs(N, S)
  BY WriteGroup DEF Needed, Readers

LEMMA ParseAllGroup ==
    ASSUME NEW N, NEW S, "save" \in S, {"parse", "save"} \cup Rows \subseteq N, NEW u \in Ulids
    PROVE  ParseAll \in Seq(N) /\ Of(u, ParseAll) \in Programs(N, S)
<1> DEFINE one == <<"parse">>
           two == <<"save">>
           rest == two \o Tables
<1>1. rest \in Seq(N) /\ Of(u, rest) \in Programs(N, S)
  BY RowsGroup
<1>2. one \in Seq(N) /\ Len(one) = 1 /\ one[1] = "parse"
  OBVIOUS
<1>3. two \in Seq(N) /\ Tables \in Seq(N)
  BY TablesAre
<1>4. Parse = one \o two
  BY DEF Parse
<1> HIDE DEF one, two
<1>5. ParseAll = one \o rest
  <2>1. (one \o two) \o Tables = one \o (two \o Tables)
    BY <1>2, <1>3, ConcatAssociative
  <2> QED  BY <1>4, <2>1 DEF ParseAll
<1> HIDE DEF rest
<1>6. Of(u, one) \in Programs(N, S)
  <2>1. /\ Of(u, one) \in Seq(N \X Owners) /\ Len(Of(u, one)) = 1
        /\ Of(u, one)[1] = <<"parse", u>>
    <3>1. /\ Of(u, one) \in Seq(N \X Owners) /\ Len(Of(u, one)) = Len(one)
          /\ \A k \in 1..Len(one) : Of(u, one)[k] = <<one[k], u>>
      BY <1>2, OfTyped
    <3> QED  BY <1>2, <3>1
  <2>2. "parse" \notin Heirs \cup Readers \cup Looks
    BY TablesAre DEF StepNames, Heirs, Readers, Looks
  <2>3. \A k \in 1..1 : Of(u, one)[k][1] \notin Heirs \cup Readers \cup Looks
    BY <2>1, <2>2
  <2> QED  BY <2>1, <2>3, Simple
<1> QED  BY <1>1, <1>2, <1>5, <1>6, OfTogether

LEMMA BatchIngestGroup ==
    ASSUME NEW N, NEW S, "save" \in S, OtherNames \subseteq N, NEW u \in Ulids
    PROVE  BatchIngest \in Seq(N) /\ Of(u, BatchIngest) \in Programs(N, S)
<1> DEFINE a == ParseAll
           b == Enrich
           c == <<"upsert">>
           d == Amend
           e == b \o c
<1>1. /\ a \in Seq(N) /\ Of(u, a) \in Programs(N, S)
      /\ d \in Seq(N) /\ Of(u, d) \in Programs(N, S)
      /\ e \in Seq(N) /\ Of(u, e) \in Programs(N, S)
      /\ b \in Seq(N)
  BY ParseAllGroup, AmendGroup, UpsertGroup, EnrichGroup DEF OtherNames, ParseNames, WriteNames, RowNames
<1>2. c \in Seq(N)
  BY DEF OtherNames, RowNames
<1>3. BatchIngest = (((a \o b) \o c) \o d) \o d
  BY DEF BatchIngest, ParseAll
<1> HIDE DEF a, b, c, d
<1>4. (a \o b) \o c = a \o e
  <2>1. a \in Seq(N) /\ b \in Seq(N) /\ c \in Seq(N)
    BY <1>1, <1>2
  <2>2. (a \o b) \o c = a \o (b \o c)
    BY <2>1, ConcatAssociative
  <2> QED  BY <2>2
<1> HIDE DEF e
<1>5. a \o e \in Seq(N) /\ Of(u, a \o e) \in Programs(N, S)
  BY <1>1, OfTogether
<1> DEFINE f == a \o e
<1> HIDE DEF f
<1>6. f \o d \in Seq(N) /\ Of(u, f \o d) \in Programs(N, S)
  BY <1>1, <1>5, OfTogether DEF f
<1> DEFINE g == f \o d
<1> HIDE DEF g
<1>7. g \o d \in Seq(N) /\ Of(u, g \o d) \in Programs(N, S)
  BY <1>1, <1>6, OfTogether DEF g
<1> QED  BY <1>3, <1>4, <1>7 DEF f, g

LEMMA EnrichAllGroup ==
    ASSUME NEW N, NEW S, OtherNames \subseteq N, NEW u \in Ulids
    PROVE  Of(u, Enrich \o Enrich \o <<"upsert">>) \in Programs(N, S)
<1> DEFINE b == Enrich
           c == <<"upsert">>
           e == b \o c
<1>1. /\ e \in Seq(N) /\ Of(u, e) \in Programs(N, S)
      /\ b \in Seq(N) /\ Of(u, b) \in Programs(N, S)
  BY UpsertGroup, EnrichGroup DEF OtherNames, WriteNames, RowNames
<1>2. c \in Seq(N)
  BY DEF OtherNames, RowNames
<1> HIDE DEF b, c
<1>3. (b \o b) \o c = b \o e
  BY <1>1, <1>2, ConcatAssociative
<1> HIDE DEF e
<1>4. Of(u, b \o e) \in Programs(N, S)
  BY <1>1, OfTogether
<1> QED  BY <1>3, <1>4 DEF b, c

LEMMA IngestProgram ==
    ASSUME NEW u \in Ulids
    PROVE  Ingest(u) \in Programs(IngestNames, {"save", "take"})
<1> DEFINE N == IngestNames
           S == {"save", "take"}
<1>1. {"parse", "save", "lookup", "open", "enrich", "read", "touch", "print", "look", "cache"} \subseteq N
  BY DEF IngestNames, ParseNames, WriteNames, GraphNames
<1> HIDE DEF N, S
<1> DEFINE a == Parse
           b == Enrich
           d == Amend
<1>2. /\ a \in Seq(N) /\ Of(u, a) \in Programs(N, S)
      /\ b \in Seq(N) /\ Of(u, b) \in Programs(N, S)
      /\ d \in Seq(N) /\ Of(u, d) \in Programs(N, S)
  BY <1>1, ParseGroup, EnrichGroup, AmendGroup
<1>3. Graph \in Programs(N, S)
  BY <1>1, GraphGroup
<1> HIDE DEF a, b, d
<1> DEFINE e == a \o b
           f == e \o d
           g == f \o d
<1>4. e \in Seq(N) /\ Of(u, e) \in Programs(N, S)
  BY <1>2, OfTogether
<1> HIDE DEF e
<1>5. f \in Seq(N) /\ Of(u, f) \in Programs(N, S)
  BY <1>2, <1>4, OfTogether
<1> HIDE DEF f
<1>6. Of(u, g) \in Programs(N, S)
  BY <1>2, <1>5, OfTogether
<1>7. Ingest(u) = Of(u, g) \o Graph
  BY DEF Ingest, g, f, e, a, b, d
<1> HIDE DEF g
<1> DEFINE h == Of(u, g)
<1>8. h \in Programs(N, S)
  BY <1>6
<1> HIDE DEF h
<1>9. h \o Graph \in Programs(N, S)
  BY <1>3, <1>8, Together
<1> QED  BY <1>7, <1>9 DEF h, N, S

LEMMA BootstrapProgram == Bootstrap \in Programs(BootstrapNames, {"take"})
<1> DEFINE N == BootstrapNames
           S == {"take"}
<1>1. /\ {"parse", "save", "lookup", "need", "open", "enrich", "read", "touch"} \subseteq N
      /\ {"print", "look", "cache", "take"} \cup Rows \subseteq N
      /\ "take" \in S
  BY DEF BootstrapNames, ParseNames, WriteNames, GraphNames, RowNames
<1> HIDE DEF N, S
<1> DEFINE a == ForEach(Parse)
           b == LeanYears
           c == ArxivAuthors
           d == Graph
           e == ForEach(<<"take">> \o Tables)
           f == ScoreAll
           g == ClassifyAll
<1>2. a \in Programs(N, S)
  BY <1>1, ParseGroup, ForEachIn
<1>3. b \in Programs(N, S)
  BY <1>1, NeededGroup, ForEachIn DEF LeanYears
<1>4. c \in Programs(N, S)
  BY <1>1, EnrichGroup, ForEachIn DEF ArxivAuthors
<1>5. d \in Programs(N, S)
  BY <1>1, GraphGroup
<1>6. e \in Programs(N, S)
  <2> DEFINE names == <<"take">> \o Tables
  <2>1. \A u \in Ulids : Of(u, names) \in Programs(N, S)
    BY <1>1, RowsGroup
  <2> HIDE DEF names
  <2>2. ForEach(names) \in Programs(N, S)
    BY <2>1, ForEachIn
  <2> QED  BY <2>2 DEF names
<1>7. f \in Programs(N, S) /\ g \in Programs(N, S)
  BY <1>1, AmendGroup, ForEachIn DEF ScoreAll, ClassifyAll
<1>8. Bootstrap = (((((a \o b) \o c) \o d) \o e) \o f) \o g
  BY DEF Bootstrap
<1> HIDE DEF a, b, c, d, e, f, g
<1> DEFINE v == a \o b
           w == v \o c
           x == w \o d
           y == x \o e
           z == y \o f
<1>9. v \in Programs(N, S)
  BY <1>2, <1>3, Together
<1> HIDE DEF v
<1>10. w \in Programs(N, S)
  BY <1>4, <1>9, Together
<1> HIDE DEF w
<1>11. x \in Programs(N, S)
  BY <1>5, <1>10, Together
<1> HIDE DEF x
<1>12. y \in Programs(N, S)
  BY <1>6, <1>11, Together
<1> HIDE DEF y
<1>13. z \in Programs(N, S)
  BY <1>7, <1>12, Together
<1> HIDE DEF z
<1>14. z \o g \in Programs(N, S)
  BY <1>7, <1>13, Together
<1> QED  BY <1>8, <1>14 DEF v, w, x, y, z, N, S

LEMMA ServePrograms ==
    /\ Graph \in Programs(ServeNames, {"save", "take"})
    /\ Consult \in Programs(ServeNames, {"save", "take"})
<1> DEFINE N == ServeNames
           S == {"save", "take"}
           first == <<<<"ask", None>>, <<"load", None>>>>
<1>1. {"ask", "load", "print", "look", "cache"} \subseteq N
  BY DEF ServeNames, GraphNames
<1> HIDE DEF N, S
<1>2. Graph \in Programs(N, S)
  BY <1>1, GraphGroup
<1>3. first \in Programs(N, S)
  <2>1. /\ first \in Seq(N \X Owners) /\ Len(first) = 2
        /\ first[1] = <<"ask", None>> /\ first[2] = <<"load", None>>
    BY <1>1 DEF Owners
  <2>2. {"ask", "load"} \cap (Heirs \cup Readers \cup Looks) = {}
    BY TablesAre DEF StepNames, Heirs, Readers, Looks
  <2> HIDE DEF first
  <2>3. \A k \in 1..Len(first) : first[k][1] \in {"ask", "load"}
    BY <2>1
  <2> QED  BY <2>1, <2>2, <2>3, Simple
<1>4. Consult = first \o Graph
  BY DEF Consult
<1> HIDE DEF first
<1>5. first \o Graph \in Programs(N, S)
  BY <1>2, <1>3, Together
<1> QED  BY <1>2, <1>4, <1>5 DEF N, S

LEMMA OtherPrograms ==
    ASSUME NEW u \in Ulids
    PROVE  LET Good == Programs(OtherNames, {"save", "take"})
           IN  /\ Of(u, ParseAll) \in Good
               /\ ForEach(ParseAll) \in Good
               /\ Of(u, BatchIngest) \in Good
               /\ ForEach(BatchIngest) \in Good
               /\ EnrichAll \in Good
               /\ YearFix \in Good
               /\ AuthorFix \in Good
               /\ VenueFix \in Good
               /\ Of(u, Amend) \in Good
               /\ ScoreAll \in Good
               /\ ClassifyAll \in Good
<1> DEFINE N == OtherNames
           S == {"save", "take"}
<1>1. /\ {"parse", "save", "lookup", "need", "open", "enrich", "read", "touch"} \cup Rows \subseteq N
      /\ OtherNames \subseteq N
      /\ "save" \in S
  BY DEF OtherNames, ParseNames, WriteNames, RowNames
<1> HIDE DEF N, S
<1>2. /\ Of(u, ParseAll) \in Programs(N, S)
      /\ Of(u, BatchIngest) \in Programs(N, S)
      /\ Of(u, Amend) \in Programs(N, S)
  BY <1>1, ParseAllGroup, BatchIngestGroup, AmendGroup
<1>3. ForEach(ParseAll) \in Programs(N, S)
  BY <1>1, ParseAllGroup, ForEachIn
<1>4. ForEach(BatchIngest) \in Programs(N, S)
  BY <1>1, BatchIngestGroup, ForEachIn
<1>5. EnrichAll \in Programs(N, S)
  <2> DEFINE names == Enrich \o Enrich \o <<"upsert">>
  <2>1. \A v \in Ulids : Of(v, names) \in Programs(N, S)
    BY <1>1, EnrichAllGroup
  <2> HIDE DEF names
  <2>2. ForEach(names) \in Programs(N, S)
    BY <2>1, ForEachIn
  <2> QED  BY <2>2 DEF names, EnrichAll
<1>6. ForEach(Needed) \in Programs(N, S)
  BY <1>1, NeededGroup, ForEachIn
<1>7. ForEach(Enrich) \in Programs(N, S)
  BY <1>1, EnrichGroup, ForEachIn
<1>8. ForEach(Amend) \in Programs(N, S)
  BY <1>1, AmendGroup, ForEachIn
<1>9. YearFix \in Programs(N, S)
  <2> DEFINE x == ForEach(Needed)
  <2>1. x \in Programs(N, S)
    BY <1>6
  <2>2. YearFix = x \o x
    BY DEF YearFix, LeanYears, ArxivYears
  <2> HIDE DEF x
  <2> QED  BY <2>1, <2>2, Together
<1> QED  BY <1>2, <1>3, <1>4, <1>5, <1>6, <1>7, <1>8, <1>9
         DEF N, S, AuthorFix, VenueFix, ScoreAll, ClassifyAll

LEMMA StepsOfIs ==
    ASSUME NEW c \in CommandNames, c # "sync", NEW u \in Ulids
    PROVE  StepsOf(c, u) \in ProgramsOf(c)
<1>1. CASE c = "ingest"
  BY <1>1, IngestProgram DEF StepsOf, ProgramsOf, NamesOf, SourcesOf
<1>2. CASE c = "bootstrap"
  BY <1>2, BootstrapProgram DEF StepsOf, ProgramsOf, NamesOf, SourcesOf
<1>3. CASE c \in {"graph-build", "graph-stats"}
  BY <1>3, ServePrograms DEF StepsOf, ProgramsOf, NamesOf, SourcesOf
<1>4. CASE c \notin {"ingest", "bootstrap", "graph-build", "graph-stats"}
  <2> DEFINE Good == Programs(OtherNames, {"save", "take"})
  <2>1. ProgramsOf(c) = Good
    BY <1>4 DEF ProgramsOf, NamesOf, SourcesOf
  <2>2. /\ Of(u, ParseAll) \in Good
        /\ ForEach(ParseAll) \in Good
        /\ Of(u, BatchIngest) \in Good
        /\ ForEach(BatchIngest) \in Good
        /\ EnrichAll \in Good
        /\ YearFix \in Good
        /\ AuthorFix \in Good
        /\ VenueFix \in Good
        /\ Of(u, Amend) \in Good
        /\ ScoreAll \in Good
        /\ ClassifyAll \in Good
    BY OtherPrograms
  <2> HIDE DEF Good
  <2>3. StepsOf(c, u) \in Good
    BY <1>4, <2>2 DEF StepsOf, CommandNames
  <2> QED  BY <2>1, <2>3
<1> QED  BY <1>1, <1>2, <1>3, <1>4

-----------------------------------------------------------------------------
(* The program of a sync.                                                  *)

Has(s, step) == \E k \in 1..Len(s) : s[k] = step

LEMMA HasIn ==
    ASSUME NEW T, NEW a \in Seq(T), NEW b \in Seq(T), NEW step
    PROVE  /\ Has(a, step) => Has(a \o b, step)
           /\ Has(b, step) => Has(a \o b, step)
<1> DEFINE c == a \o b
           n == Len(a)
           m == Len(b)
<1>1. /\ n \in Nat /\ m \in Nat
      /\ Len(c) = n + m
      /\ \A i \in 1..n : c[i] = a[i]
      /\ \A i \in 1..m : c[n + i] = b[i]
  OBVIOUS
<1> HIDE DEF c
<1>2. ASSUME Has(a, step) PROVE Has(c, step)
  <2>1. PICK k \in 1..n : a[k] = step
    BY <1>2 DEF Has
  <2>2. k \in 1..Len(c)
    BY <1>1
  <2> QED  BY <1>1, <2>1, <2>2 DEF Has
<1>3. ASSUME Has(b, step) PROVE Has(c, step)
  <2>1. PICK k \in 1..m : b[k] = step
    BY <1>3 DEF Has
  <2>2. n + k \in 1..Len(c)
    BY <1>1
  <2> QED  BY <1>1, <2>1, <2>2 DEF Has
<1> QED  BY <1>2, <1>3 DEF c

\* What is in one of some sequences is in all of them put together.
LEMMA FlattenHas ==
    ASSUME NEW T, NEW seqs \in Seq(Seq(T)), NEW i \in 1..Len(seqs), NEW step, Has(seqs[i], step)
    PROVE  Has(FlattenSeq(seqs), step)
<1> DEFINE n == Len(seqs)
           F == CHOOSE f : Flattens(f, seqs, n)
           Ins == {m \in Nat : m + 1 <= n =>
                     F[m + 1] \in Seq(T) /\ (i <= m + 1 => Has(F[m + 1], step))}
<1>1. n \in Nat /\ n # 0 /\ \A j \in 1..n : seqs[j] \in Seq(T)
  OBVIOUS
<1>2. Flattens(F, seqs, n)
  <2>1. \E f : Flattens(f, seqs, n)
    BY CanFlatten
  <2> QED  BY <2>1, Zenon
<1>3. FlattenSeq(seqs) = F[n]
  BY <1>1 DEF FlattenSeq, Flattens
<1> HIDE DEF F
<1>4. /\ n > 0 => F[1] = seqs[1]
      /\ \A j \in 2..n : F[j] = F[j - 1] \o seqs[j]
  BY <1>1, <1>2, FlattensSteps
<1>5. 0 \in Ins
  <2>1. F[1] = seqs[1] /\ 1 \in 1..n
    BY <1>1, <1>4
  <2>2. i <= 1 => i = 1
    OBVIOUS
  <2> QED  BY <1>1, <2>1, <2>2
<1>6. ASSUME NEW m \in Nat, m \in Ins PROVE m + 1 \in Ins
  <2> SUFFICES ASSUME m + 2 <= n
               PROVE  F[m + 2] \in Seq(T) /\ (i <= m + 2 => Has(F[m + 2], step))
    OBVIOUS
  <2>1. F[m + 1] \in Seq(T) /\ seqs[m + 2] \in Seq(T) /\ (i <= m + 1 => Has(F[m + 1], step))
    BY <1>1, <1>6
  <2>2. F[m + 2] = F[m + 1] \o seqs[m + 2]
    <3>1. m + 2 \in 2..n
      BY <1>1
    <3>2. F[m + 2] = F[(m + 2) - 1] \o seqs[m + 2]
      BY <1>4, <3>1
    <3>3. (m + 2) - 1 = m + 1
      OBVIOUS
    <3> QED  BY <3>2, <3>3
  <2> DEFINE a == F[m + 1]
             b == seqs[m + 2]
  <2>3. a \in Seq(T) /\ b \in Seq(T) /\ (i <= m + 1 => Has(a, step)) /\ (i = m + 2 => Has(b, step))
    BY <2>1
  <2>4. F[m + 2] = a \o b
    BY <2>2
  <2> HIDE DEF a, b
  <2>5. /\ a \o b \in Seq(T)
        /\ Has(a, step) => Has(a \o b, step)
        /\ Has(b, step) => Has(a \o b, step)
    BY <2>3, HasIn
  <2>6. i <= m + 2 => i <= m + 1 \/ i = m + 2
    OBVIOUS
  <2> QED  BY <2>3, <2>4, <2>5, <2>6
<1>7. Ins = Nat
  <2> HIDE DEF Ins
  <2>1. Ins \in SUBSET Nat
    BY DEF Ins
  <2> QED  BY <1>5, <1>6, <2>1, Induction
<1> HIDE DEF n
<1>8. n - 1 \in Nat /\ (n - 1) + 1 = n /\ i <= n
  BY <1>1 DEF n
<1>9. Has(F[(n - 1) + 1], step)
  BY <1>7, <1>8
<1> QED  BY <1>3, <1>8, <1>9

Lists == {"relist", "list"}

\* The vectors are listed at the places after a, before any is changed.
Listing(s, a) ==
    /\ a + 2 <= Len(s)
    /\ s[a + 1] = <<"relist", None>>
    /\ s[a + 2] = <<"list", None>>
    /\ \A k \in 1..Len(s) : s[k][1] \in Lists => k \in {a + 1, a + 2}
    /\ \A k \in 1..Len(s) : s[k][1] \in {"embed", "purge"} => k > a + 2

LEMMA ListingExtends ==
    ASSUME NEW T, NEW s \in Seq(T), NEW t \in Seq(T), NEW a \in Nat, Listing(s, a),
           \A k \in 1..Len(t) : t[k][1] \notin Lists
    PROVE  Listing(s \o t, a)
<1> DEFINE c == s \o t
           n == Len(s)
           m == Len(t)
<1>1. /\ n \in Nat /\ m \in Nat
      /\ Len(c) = n + m
      /\ \A i \in 1..n : c[i] = s[i]
      /\ \A i \in 1..m : c[n + i] = t[i]
  OBVIOUS
<1> HIDE DEF c
<1>2. /\ a + 2 <= n /\ s[a + 1] = <<"relist", None>> /\ s[a + 2] = <<"list", None>>
      /\ \A k \in 1..n : s[k][1] \in Lists => k \in {a + 1, a + 2}
      /\ \A k \in 1..n : s[k][1] \in {"embed", "purge"} => k > a + 2
      /\ \A k \in 1..m : t[k][1] \notin Lists
  BY DEF Listing
<1> HIDE DEF n, m
<1>3. a + 2 <= Len(c) /\ c[a + 1] = <<"relist", None>> /\ c[a + 2] = <<"list", None>>
  BY <1>1, <1>2
<1>4. ASSUME NEW k \in 1..Len(c)
      PROVE  /\ c[k][1] \in Lists => k \in {a + 1, a + 2}
             /\ c[k][1] \in {"embed", "purge"} => k > a + 2
  <2>1. CASE k <= n
    <3>1. k \in 1..n /\ c[k] = s[k]
      BY <1>1, <2>1
    <3> QED  BY <1>2, <3>1
  <2>2. CASE k > n
    <3>1. k - n \in 1..m /\ k = n + (k - n)
      BY <1>1, <2>2
    <3>2. c[k] = t[k - n]
      BY <1>1, <3>1
    <3>3. k > a + 2
      BY <1>1, <1>2, <2>2
    <3> QED  BY <1>2, <3>1, <3>2, <3>3
  <2> QED  BY <1>1, <2>1, <2>2
<1> QED  BY <1>3, <1>4 DEF Listing, c

LEMMA SyncIs ==
    /\ SyncSteps \in Programs(SyncNames, {"take"})
    /\ \A k \in 1..Len(SyncSteps) : SyncSteps[k][1] = "seen" => k = Len(SyncSteps)
    /\ \E a \in Nat : Listing(SyncSteps, a)
    /\ \A u \in Ulids : Has(SyncSteps, <<"embed", u>>)
    /\ \A u \in Ulids, t \in Rows : Has(SyncSteps, <<t, u>>)
    /\ Has(SyncSteps, <<"purge", None>>)
    /\ Has(SyncSteps, <<"cache", None>>)
<1> DEFINE N == SyncNames
           S == {"take"}
           M == N \ {"seen"}
           names == <<"take">> \o Tables
           A == ForEach(names)
           L == <<<<"relist", None>>, <<"list", None>>>>
           E == Each("embed")
           P == <<<<"purge", None>>>>
           G == Graph
           Z == <<<<"seen", None>>>>
<1>1. /\ {"take", "relist", "list", "embed", "purge", "print", "look", "cache"} \cup Rows \subseteq M
      /\ M \subseteq N /\ "seen" \in N /\ "seen" \notin M
  BY TablesAre DEF SyncNames, GraphNames, StepNames
<1> HIDE DEF N, M
<1>2. Lists \cap ({"take", "embed", "purge", "print", "look", "cache", "seen"} \cup Rows) = {}
  BY TablesAre DEF StepNames, Lists
<1>3. /\ {"relist", "list", "embed", "purge", "seen"} \cap (Heirs \cup Readers \cup Looks) = {}
      /\ {"embed", "purge"} \cap ({"take"} \cup Rows) = {}
  BY TablesAre DEF StepNames, Heirs, Readers, Looks
<1>4. A \in Programs({"take"} \cup Rows, S) /\ \A u \in Ulids, t \in Rows : Has(A, <<t, u>>)
  <2> DEFINE R == {"take"} \cup Rows
             seqs == [k \in DOMAIN Papers |-> Of(Papers[k], names)]
  <2>1. \A u \in Ulids : names \in Seq(R) /\ Of(u, names) \in Programs(R, S)
    BY RowsGroup
  <2>2. \A i \in DOMAIN Tables : Len(names) \in Nat /\ i + 1 \in 1..Len(names) /\ names[i + 1] = Tables[i]
    <3> DEFINE one == <<"take">>
    <3>1. one \in Seq(R) /\ Tables \in Seq(R) /\ Len(one) = 1
      BY TablesAre
    <3> HIDE DEF one, R
    <3> QED  BY <3>1 DEF one
  <2> HIDE DEF names, R
  <2>3. A \in Programs(R, S)
    BY <2>1, ForEachIn
  <2>4. Papers \in Seq(Ulids) /\ \A u \in Ulids : \E k \in 1..Len(Papers) : Papers[k] = u
    BY LibraryAssumption DEF LibraryAssumption, Ulids, Range
  <2>5. seqs \in Seq(Seq(R \X Owners)) /\ Len(seqs) = Len(Papers)
    <3>1. \A k \in 1..Len(Papers) : Of(Papers[k], names) \in Seq(R \X Owners)
      BY <2>1, <2>4 DEF Programs
    <3> DEFINE V == Seq(R \X Owners)
               val(k) == Of(Papers[k], names)
    <3>2. \A k \in 1..Len(Papers) : val(k) \in V
      BY <3>1
    <3>3. seqs = [k \in 1..Len(Papers) |-> val(k)] /\ Len(Papers) \in Nat
      BY <2>4
    <3> HIDE DEF V, val, seqs
    <3>4. seqs \in Seq(V) /\ Len(seqs) = Len(Papers)
      BY <3>2, <3>3
    <3> QED  BY <3>4 DEF V
  <2>6. ASSUME NEW u \in Ulids, NEW t \in Rows PROVE Has(A, <<t, u>>)
    <3>1. PICK k \in 1..Len(Papers) : Papers[k] = u
      BY <2>4
    <3>2. PICK i \in DOMAIN Tables : t = Tables[i]
      BY TablesAre
    <3> DEFINE s == Of(u, names)
    <3>3. Len(s) = Len(names) /\ s[i + 1] = <<names[i + 1], u>>
      <4>1. /\ Len(Of(u, names)) = Len(names)
            /\ \A j \in 1..Len(names) : Of(u, names)[j] = <<names[j], u>>
        BY <2>1, OfTyped
      <4> QED  BY <2>2, <4>1
    <3>4. seqs[k] = s
      BY <2>4, <3>1
    <3> HIDE DEF s, seqs
    <3>5. Has(s, <<t, u>>)
      BY <2>2, <3>2, <3>3 DEF Has
    <3>6. k \in 1..Len(seqs)
      BY <2>5
    <3>7. Has(FlattenSeq(seqs), <<t, u>>)
      BY <2>5, <3>4, <3>5, <3>6, FlattenHas
    <3> QED  BY <3>7 DEF ForEach, seqs
  <2> QED  BY <2>3, <2>6 DEF R
<1>5. /\ L \in Seq(M \X Owners) /\ Len(L) = 2 /\ L[1] = <<"relist", None>> /\ L[2] = <<"list", None>>
      /\ P \in Seq(M \X Owners) /\ Len(P) = 1 /\ P[1] = <<"purge", None>> /\ Has(P, <<"purge", None>>)
      /\ Z \in Seq(N \X Owners) /\ Len(Z) = 1 /\ Z[1] = <<"seen", None>>
  BY <1>1 DEF Owners, Has
<1>6. /\ E \in Seq(M \X Owners) /\ \A k \in 1..Len(E) : E[k][1] = "embed"
      /\ \A u \in Ulids : Has(E, <<"embed", u>>)
  <2>1. "embed" \in M
    BY <1>1
  <2>2. /\ Len(Papers) \in Nat
        /\ E \in Seq(M \X Owners)
        /\ Len(E) = Len(Papers)
        /\ \A k \in 1..Len(Papers) : E[k] = <<"embed", Papers[k]>>
        /\ \A u \in Ulids : \E k \in 1..Len(Papers) : E[k] = <<"embed", u>>
    BY <2>1, EachIs
  <2> QED  BY <2>2 DEF Has
<1>7. /\ G \in Programs({"print", "look", "cache"}, S) /\ Has(G, <<"cache", None>>)
  BY GraphGroup DEF Has
<1>8. SyncSteps = ((((A \o L) \o E) \o P) \o G) \o Z
  BY DEF SyncSteps
<1> HIDE DEF names, A, L, E, P, G, Z, S
<1>9. /\ A \in Programs(M, S) /\ L \in Programs(M, S) /\ E \in Programs(M, S)
      /\ P \in Programs(M, S) /\ G \in Programs(M, S)
  <2>1. A \in Programs(M, S) /\ G \in Programs(M, S)
    <3>1. /\ Seq(({"take"} \cup Rows) \X Owners) \subseteq Seq(M \X Owners)
          /\ Seq({"print", "look", "cache"} \X Owners) \subseteq Seq(M \X Owners)
      BY <1>1
    <3> QED  BY <1>4, <1>7, <3>1 DEF Programs
  <2>2. \A k \in 1..Len(L) : L[k][1] \in Lists
    BY <1>5 DEF Lists
  <2>3. L \in Programs(M, S)
    BY <1>3, <1>5, <2>2, Simple DEF Lists
  <2>4. E \in Programs(M, S)
    BY <1>3, <1>6, Simple
  <2>5. P \in Programs(M, S)
    <3>1. \A k \in 1..Len(P) : P[k][1] = "purge"
      BY <1>5
    <3> QED  BY <1>3, <1>5, <3>1, Simple
  <2> QED  BY <2>1, <2>3, <2>4, <2>5
<1>10. /\ \A k \in 1..Len(A) : A[k][1] \in {"take"} \cup Rows
       /\ \A k \in 1..Len(E) : E[k][1] \notin Lists
       /\ \A k \in 1..Len(P) : P[k][1] \notin Lists
       /\ \A k \in 1..Len(G) : G[k][1] \notin Lists
       /\ \A k \in 1..Len(Z) : Z[k][1] \notin Lists
  <2>1. \A k \in 1..Len(A) : A[k][1] \in {"take"} \cup Rows
    BY <1>4 DEF Programs
  <2>2. \A k \in 1..Len(G) : G[k][1] \in {"print", "look", "cache"}
    BY <1>7 DEF Programs
  <2>3. \A k \in 1..Len(E) : E[k][1] \notin Lists
    BY <1>2, <1>6
  <2>4. \A k \in 1..Len(P) : P[k][1] \notin Lists
    BY <1>2, <1>5
  <2>5. \A k \in 1..Len(Z) : Z[k][1] \notin Lists
    BY <1>2, <1>5
  <2> QED  BY <1>2, <2>1, <2>2, <2>3, <2>4, <2>5
<1> DEFINE a == A \o L
           b == a \o E
           c == b \o P
           d == c \o G
           e == d \o Z
           T == N \X Owners
           n == Len(A)
<1>11. /\ A \in Seq(T) /\ L \in Seq(T) /\ E \in Seq(T) /\ P \in Seq(T) /\ G \in Seq(T) /\ Z \in Seq(T)
  <2>1. Seq(M \X Owners) \subseteq Seq(T)
    BY <1>1
  <2>2. /\ A \in Seq(M \X Owners) /\ L \in Seq(M \X Owners) /\ E \in Seq(M \X Owners)
        /\ P \in Seq(M \X Owners) /\ G \in Seq(M \X Owners)
    BY <1>9 DEF Programs
  <2> QED  BY <1>5, <2>1, <2>2
<1>12. n \in Nat /\ Listing(a, n) /\ a \in Programs(M, S) /\ a \in Seq(T)
       /\ \A u \in Ulids, t \in Rows : Has(a, <<t, u>>)
  <2>1. /\ n \in Nat /\ a \in Seq(T) /\ Len(a) = n + 2
        /\ \A i \in 1..n : a[i] = A[i]
        /\ a[n + 1] = L[1] /\ a[n + 2] = L[2]
    <3> HIDE DEF T
    <3>1. /\ a \in Seq(T) /\ Len(a) = Len(A) + Len(L)
          /\ \A i \in 1..Len(A) : a[i] = A[i]
          /\ \A i \in 1..Len(L) : a[Len(A) + i] = L[i]
      BY <1>11
    <3> HIDE DEF a
    <3> QED  BY <1>5, <1>11, <3>1
  <2>2. a \in Programs(M, S)
    BY <1>9, Together
  <2>3. \A u \in Ulids, t \in Rows : Has(a, <<t, u>>)
    BY <1>4, <1>11, HasIn
  <2> HIDE DEF a, n
  <2>4. a[n + 1] = <<"relist", None>> /\ a[n + 2] = <<"list", None>>
    BY <1>5, <2>1
  <2>5. ASSUME NEW k \in 1..Len(a)
        PROVE  /\ a[k][1] \in Lists => k \in {n + 1, n + 2}
               /\ a[k][1] \in {"embed", "purge"} => k > n + 2
    <3>1. CASE k \in 1..n
      BY <1>2, <1>3, <1>10, <2>1, <3>1 DEF n
    <3>2. CASE k \in {n + 1, n + 2}
      BY <2>4, <3>2
    <3> QED  BY <2>1, <3>1, <3>2
  <2>6. Listing(a, n)
    BY <2>1, <2>4, <2>5 DEF Listing
  <2> QED  BY <2>1, <2>2, <2>3, <2>6
<1> HIDE DEF a, n, T
<1>13. /\ Listing(b, n) /\ b \in Programs(M, S) /\ b \in Seq(T)
       /\ \A u \in Ulids, t \in Rows : Has(b, <<t, u>>)
       /\ \A u \in Ulids : Has(b, <<"embed", u>>)
  BY <1>6, <1>9, <1>10, <1>11, <1>12, ListingExtends, Together, HasIn
<1> HIDE DEF b
<1>14. /\ Listing(c, n) /\ c \in Programs(M, S) /\ c \in Seq(T)
       /\ \A u \in Ulids, t \in Rows : Has(c, <<t, u>>)
       /\ \A u \in Ulids : Has(c, <<"embed", u>>)
       /\ Has(c, <<"purge", None>>)
  BY <1>5, <1>9, <1>10, <1>11, <1>12, <1>13, ListingExtends, Together, HasIn
<1> HIDE DEF c
<1>15. /\ Listing(d, n) /\ d \in Programs(M, S) /\ d \in Seq(T)
       /\ \A u \in Ulids, t \in Rows : Has(d, <<t, u>>)
       /\ \A u \in Ulids : Has(d, <<"embed", u>>)
       /\ Has(d, <<"purge", None>>)
       /\ Has(d, <<"cache", None>>)
  BY <1>7, <1>9, <1>10, <1>11, <1>12, <1>14, ListingExtends, Together, HasIn
<1> HIDE DEF d
<1>16. /\ Listing(e, n) /\ e \in Seq(T)
       /\ \A u \in Ulids, t \in Rows : Has(e, <<t, u>>)
       /\ \A u \in Ulids : Has(e, <<"embed", u>>)
       /\ Has(e, <<"purge", None>>)
       /\ Has(e, <<"cache", None>>)
  <2>1. Listing(e, n)
    BY <1>10, <1>11, <1>12, <1>15, ListingExtends
  <2>2. e \in Seq(T)
    BY <1>11, <1>15
  <2>3. \A x : Has(d, x) => Has(e, x)
    BY <1>11, <1>15, HasIn
  <2> HIDE DEF e
  <2> QED  BY <1>15, <2>1, <2>2, <2>3
<1>17. e \in Programs(N, S)
  <2>1. d \in Programs(N, S)
    BY <1>15 DEF Programs, T
  <2>2. Z \in Programs(N, S)
    <3>1. \A k \in 1..Len(Z) : Z[k][1] = "seen"
      BY <1>5
    <3> QED  BY <1>3, <1>5, <3>1, Simple
  <2> QED  BY <2>1, <2>2, Together
<1>18. ASSUME NEW k \in 1..Len(e), e[k][1] = "seen" PROVE k = Len(e)
  <2>1. /\ e \in Seq(T) /\ Len(e) = Len(d) + Len(Z)
        /\ \A i \in 1..Len(d) : e[i] = d[i]
    BY <1>11, <1>15
  <2>2. d \in Seq(M \X Owners)
    BY <1>15 DEF Programs
  <2>3. \A i \in 1..Len(d) : d[i][1] \in M
    BY <2>2
  <2> HIDE DEF e
  <2>4. Len(d) \in Nat /\ k \notin 1..Len(d)
    BY <1>1, <1>18, <2>1, <2>2, <2>3
  <2> QED  BY <1>5, <2>1, <2>4
<1> QED  BY <1>8, <1>12, <1>16, <1>17, <1>18 DEF e, d, c, b, a, N, S

-----------------------------------------------------------------------------
(* The inductive invariant.                                                *)

AllNames  == StepNames \cup Rows
Records   == [mtime : Nat \ {0}, text : Texts, meta : BOOLEAN]
Files     == [mtime : Nat \ {0}, text : Texts \cup {Broken}, meta : BOOLEAN]
RowValues == {None} \cup (Texts \X BOOLEAN) \cup {<<t>> : t \in Texts}
Contents  == {Content[t] : t \in Texts} \cup {None}
Listings  == [content : [Ulids -> Contents], gone : SUBSET Ulids]
Prints    == [Ulids -> Nat]
Builts    == [Ulids -> SUBSET (Texts \cup {None})]
Caches    == [print : Prints, of : Builts]

Processes ==
    [command : CommandNames \cup {None}, steps : Seq(AllNames \X Owners), at : Nat,
     left : SUBSET Nat, held : {None} \cup Records, listed : {None} \cup Listings,
     print : {None} \cup Prints, built : {None} \cup Builts, clean : BOOLEAN, rows : BOOLEAN]

StoresTyped ==
    /\ row \in [Ulids -> [Rows -> RowValues]]
    /\ vector \in [Ulids -> Contents]
    /\ graph \in {None} \cup Caches
    /\ seen \in [Ulids -> Nat]

Typed ==
    /\ file \in [Ulids -> Files \cup {None}]
    /\ StoresTyped
    /\ proc \in [Procs -> Processes]

\* The places of the steps that a process has not done.
Todo(r) == r.left \cup {r.at}

\* What a step needs is read by the one before it.
Follows(r) ==
    /\ \A k \in r.left : r.steps[k][1] \in Heirs => k - 1 \in Todo(r)
    /\ r.steps[r.at][1] \in Heirs => r.held \in Records

\* With the steps at the places T before it, a graph that is to be stored at k,
\* begun at b or still to be begun there, will have every paper.
Built(r, T, b, k) ==
    IF \A j \in T : j > b
    THEN /\ r.print # None
         /\ r.steps[k][1] = "cache" => \A u \in Ulids :
               r.built[u] = {} => \E j \in T : j > b /\ j < k /\ r.steps[j] = <<"look", u>>
    ELSE \A j \in b .. k - 1 : j \in T

Building(r, T) ==
    \A k \in T, b \in 1..Len(r.steps) :
        (r.steps[k][1] \in Looks /\ Begun(r.steps, b, k)) => Built(r, T, b, k)

ToList(r, T) == \E j \in T : r.steps[j][1] \in Lists

\* The vectors are listed once, before the listing is used.
Listed(r, T) ==
    /\ \A k \in T : r.steps[k][1] \in {"embed", "purge"} => ToList(r, T) \/ r.listed \in Listings
    /\ ToList(r, T) => \A k \in 1..Len(r.steps) : r.steps[k][1] \in {"embed", "purge"} => k \in T
    /\ \A i, j \in T : r.steps[i][1] \in Lists /\ r.steps[j][1] \in Lists => i = j

Running(r) ==
    /\ r.command \in CommandNames
    /\ r.steps \in ProgramsOf(r.command)
    /\ r.at \in 1..Len(r.steps)
    /\ r.left \subseteq 1..Len(r.steps)
    /\ \A k \in r.left : k > r.at
    /\ Follows(r)
    /\ Building(r, Todo(r))
    /\ Listed(r, Todo(r))

\* What has been read is what the files were when the fingerprint was taken.
Noted(r) ==
    r.print # None =>
        /\ r.print \in Prints
        /\ r.built \in Builts
        /\ \A u \in Ulids : /\ r.print[u] <= Mtime(u)
                            /\ r.print[u] = Mtime(u) => r.built[u] \subseteq {TextOf(u)}

GraphNoted ==
    graph # None => \A u \in Ulids : /\ graph.print[u] <= Mtime(u)
                                     /\ graph.print[u] = Mtime(u) => graph.of[u] = {TextOf(u)}

\* What a sync that is clean has done, when the steps at the places T are left.
Embedded(r, T, u) ==
    \/ vector[u] = ContentOf(u)
    \/ \E k \in T : r.steps[k] = <<"embed", u>>
    \/ \E k \in T : /\ r.steps[k] = <<"purge", None>>
                    /\ u \in r.listed.gone
Stored(r, T, u) ==
    \A t \in Rows : row[u][t] = Columns(t, file[u]) \/ \E k \in T : r.steps[k] = <<t, u>>
Drawn(r, T) ==
    \/ \E k \in T : r.steps[k] = <<"cache", None>>
    \/ graph # None /\ \A u \in Ulids : graph.of[u] = {TextOf(u)}
Compared(r, T) ==
    \A k \in T : r.steps[k][1] \in {"embed", "purge"} =>
        \/ ToList(r, T)
        \/ \A u \in Ulids : /\ r.listed.content[u] = ContentOf(u)
                            /\ u \in r.listed.gone => ContentOf(u) = None

Synced(r, T) ==
    /\ r.print # None => \A u \in Ulids : r.print[u] = Mtime(u)
    /\ Compared(r, T)
    /\ \A u \in Ulids : Embedded(r, T, u)
    /\ \A u \in Ulids : r.rows /\ TextOf(u) # None => Stored(r, T, u)
    /\ Drawn(r, T)

Holding(r) == r.steps[r.at][1] \in Rows => r.held = file[r.steps[r.at][2]]

Sole(r) == r.clean /\ r.command = "sync"

\* What holds of every process.
Sound(r) ==
    IF r.at = 0 THEN r = Idle
    ELSE /\ Running(r)
         /\ Noted(r)
         /\ r.rows => r.clean
         /\ Sole(r) => Synced(r, Todo(r)) /\ Holding(r)

Busy(p) == proc[p].at # 0

IInv ==
    /\ Typed
    /\ GraphNoted
    /\ \A p \in Procs, r \in Processes : r = proc[p] => Sound(r)
    /\ \A p, q \in Procs : Busy(p) /\ proc[p].clean /\ q # p => proc[q] = Idle

-----------------------------------------------------------------------------
(* Going on to the next step.                                              *)

LEMMA ProgramIs ==
    ASSUME NEW c \in CommandNames, NEW s \in ProgramsOf(c)
    PROVE  /\ s \in Seq(AllNames \X Owners)
           /\ Len(s) \in Nat
           /\ \A k \in 1..Len(s) : s[k][1] \in NamesOf(c) /\ s[k][1] \in AllNames
           /\ Fed(s, SourcesOf(c))
           /\ Followed(s)
           /\ Whole(s)
           /\ c = "sync" => s = SyncSteps
<1>1. s \in Programs(NamesOf(c), SourcesOf(c)) /\ (c = "sync" => s = SyncSteps)
  BY DEF ProgramsOf
<1>2. NamesOf(c) \subseteq AllNames
  <2>1. NamesOf(c) \in {SyncNames, BootstrapNames, IngestNames, ServeNames, OtherNames}
    BY DEF NamesOf
  <2>2. /\ SyncNames \subseteq AllNames /\ BootstrapNames \subseteq AllNames
        /\ IngestNames \subseteq AllNames /\ ServeNames \subseteq AllNames
        /\ OtherNames \subseteq AllNames
    BY DEF SyncNames, BootstrapNames, IngestNames, ServeNames, OtherNames, AllNames,
           StepNames, ParseNames, WriteNames, GraphNames, RowNames
  <2> QED  BY <2>1, <2>2
<1> DEFINE X == NamesOf(c) \X Owners
           Y == AllNames \X Owners
<1>3. s \in Seq(X) /\ Fed(s, SourcesOf(c)) /\ Followed(s) /\ Whole(s)
  BY <1>1 DEF Programs
<1>4. X \subseteq Y
  BY <1>2
<1>5. Len(s) \in Nat /\ \A k \in 1..Len(s) : s[k] \in X
  BY <1>3
<1>6. \A k \in 1..Len(s) : s[k][1] \in NamesOf(c) /\ s[k][1] \in AllNames
  BY <1>2, <1>5
<1>7. s \in Seq(Y)
  <2> HIDE DEF X, Y
  <2> QED  BY <1>3, <1>4
<1> QED  BY <1>1, <1>3, <1>5, <1>6, <1>7

LEMMA OnwardIs ==
    ASSUME NEW r \in Processes
    PROVE  \/ r.left = {} /\ Onward(r) = Idle
           \/ \E i \in r.left : /\ \A y \in r.left : i <= y
                                /\ Onward(r) = [r EXCEPT !.at = i, !.left = @ \ {i}]
<1>1. r.left \in SUBSET Nat
  BY DEF Processes
<1>2. CASE r.left = {}
  BY <1>2 DEF Onward
<1>3. CASE r.left # {}
  <2> DEFINE T == r.left
             i == Min(T)
  <2>1. i \in T /\ \A y \in T : i <= y
    BY <1>1, <1>3, Smallest
  <2>2. Onward(r) = [r EXCEPT !.at = i, !.left = @ \ {i}]
    BY <1>3 DEF Onward
  <2> HIDE DEF i
  <2> QED  BY <2>1, <2>2
<1> QED  BY <1>2, <1>3

\* n is to at another step.
Like(n, to) ==
    /\ n.command = to.command /\ n.steps = to.steps /\ n.held = to.held
    /\ n.listed = to.listed /\ n.print = to.print /\ n.built = to.built
    /\ n.clean = to.clean /\ n.rows = to.rows

LEMMA BuildingSame ==
    ASSUME NEW to, NEW n, n.steps = to.steps, n.print = to.print, n.built = to.built,
           NEW T, Building(to, T)
    PROVE  Building(n, T)
<1> SUFFICES ASSUME NEW k \in T, NEW b \in 1..Len(to.steps),
                    to.steps[k][1] \in Looks, Begun(to.steps, b, k)
             PROVE  Built(n, T, b, k)
  BY DEF Building
<1>1. Built(to, T, b, k)
  BY DEF Building
<1> QED  BY <1>1, Zenon DEF Built

\* The process is again at a step of its command, or at none.
LEMMA Moves ==
    ASSUME NEW r \in Processes, Running(r), NEW to \in Processes,
           to.command = r.command, to.steps = r.steps, to.left \subseteq r.left,
           \A k \in to.left : r.steps[k][1] \in Heirs => k - 1 \in to.left \cup {r.at},
           r.at + 1 \in to.left /\ r.steps[r.at + 1][1] \in Heirs => to.held \in Records,
           Building(to, to.left),
           Listed(to, to.left)
    PROVE  \/ Onward(to) = Idle
           \/ \E n \in Processes :
                 /\ n = Onward(to)
                 /\ n.at # 0
                 /\ Running(n)
                 /\ Todo(n) = to.left
                 /\ \A k \in to.left : n.at <= k
                 /\ n.at > r.at
                 /\ Like(n, to)
<1> SUFFICES ASSUME NEW i \in to.left, \A y \in to.left : i <= y,
                    NEW n, n = [to EXCEPT !.at = i, !.left = @ \ {i}], n = Onward(to)
             PROVE  /\ n \in Processes
                    /\ n.at # 0
                    /\ Running(n)
                    /\ Todo(n) = to.left
                    /\ \A k \in to.left : n.at <= k
                    /\ n.at > r.at
                    /\ Like(n, to)
  BY OnwardIs
<1> DEFINE L == to.left \ {i}
<1>1. /\ r.command \in CommandNames /\ r.steps \in ProgramsOf(r.command)
      /\ r.at \in 1..Len(r.steps) /\ r.left \subseteq 1..Len(r.steps)
      /\ \A k \in r.left : k > r.at
  BY DEF Running
<1>2. Len(r.steps) \in Nat
  BY <1>1, ProgramIs
<1>3. i \in 1..Len(r.steps) /\ i > r.at /\ i \in Nat /\ r.at \in Nat /\ r.at # 0 /\ i # 0
      /\ to.left \subseteq 1..Len(r.steps)
  BY <1>1, <1>2
<1>4. /\ n \in Processes /\ n.at = i /\ n.left = L /\ n.steps = to.steps /\ n.command = to.command
      /\ n.held = to.held /\ n.listed = to.listed /\ n.print = to.print /\ n.built = to.built
  <2>1. L \in SUBSET Nat /\ n = [to EXCEPT !.at = i, !.left = L]
    BY DEF Processes
  <2> HIDE DEF L
  <2>2. n \in Processes
    BY <1>3, <2>1 DEF Processes
  <2>3. /\ n.at = i /\ n.left = L /\ n.steps = to.steps /\ n.command = to.command
        /\ n.held = to.held /\ n.listed = to.listed /\ n.print = to.print /\ n.built = to.built
    BY <2>1 DEF Processes
  <2> QED  BY <2>2, <2>3
<1>5. Like(n, to)
  BY DEF Processes, Like
<1> HIDE DEF L
<1>6. Todo(n) = to.left
  BY <1>4 DEF Todo, L
<1>7. Follows(n)
  <2>1. ASSUME NEW k \in L, r.steps[k][1] \in Heirs PROVE k - 1 \in to.left
    <3>1. k \in to.left /\ k > i /\ k \in Nat
      BY <1>2, <1>3 DEF L
    <3>2. k - 1 \in to.left \cup {r.at}
      BY <2>1, <3>1
    <3>3. k - 1 # r.at
      BY <1>3, <3>1
    <3> QED  BY <3>2, <3>3
  <2>2. ASSUME r.steps[i][1] \in Heirs PROVE to.held \in Records
    <3>1. i - 1 \in to.left \cup {r.at}
      BY <2>2
    <3>2. i - 1 \notin to.left
      BY <1>3
    <3>3. i = r.at + 1
      BY <1>3, <3>1, <3>2
    <3> QED  BY <2>2, <3>3
  <2> QED  BY <1>4, <1>6, <2>1, <2>2 DEF Follows
<1>8. Building(n, Todo(n))
  BY <1>4, <1>6, BuildingSame
<1>9. Listed(n, Todo(n))
  BY <1>4, <1>6 DEF Listed, ToList
<1>10. \A k \in L : k > i
  BY <1>2, <1>3 DEF L
<1>11. L \subseteq 1..Len(r.steps)
  BY <1>3 DEF L
<1>12. /\ n.command \in CommandNames /\ n.steps \in ProgramsOf(n.command)
       /\ n.at \in 1..Len(n.steps) /\ n.left \subseteq 1..Len(n.steps)
       /\ \A k \in n.left : k > n.at
  BY <1>1, <1>3, <1>4, <1>10, <1>11
<1>13. Running(n)
  BY <1>7, <1>8, <1>9, <1>12 DEF Running
<1> QED  BY <1>3, <1>4, <1>5, <1>6, <1>13

LEMMA BegunOnce ==
    ASSUME NEW s, NEW k \in Nat, NEW b \in Nat, NEW c \in Nat, Begun(s, b, k), Begun(s, c, k)
    PROVE  b = c
<1>1. ASSUME NEW x \in Nat, NEW y \in Nat, Begun(s, x, k), Begun(s, y, k), x < y PROVE FALSE
  <2>1. y \in x + 1 .. k - 1 /\ s[y][1] = "print"
    BY <1>1 DEF Begun
  <2>2. s[y][1] = "look"
    BY <1>1, <2>1 DEF Begun
  <2> QED  BY <2>1, <2>2
<1> QED  BY <1>1

\* What a running process is made of.
LEMMA RunningIs ==
    ASSUME NEW r, Running(r)
    PROVE  /\ r.command \in CommandNames
           /\ r.steps \in ProgramsOf(r.command)
           /\ Len(r.steps) \in Nat
           /\ r.at \in 1..Len(r.steps) /\ r.at \in Nat
           /\ r.left \subseteq 1..Len(r.steps)
           /\ \A k \in r.left : k > r.at
           /\ Follows(r)
           /\ Building(r, Todo(r))
           /\ Listed(r, Todo(r))
  BY ProgramIs DEF Running

\* Only one that looks at a file adds to the graph; a process that passes over no
\* step for the graph comes to it with what it needs.
LEMMA BuildingOn ==
    ASSUME NEW r, Running(r), NEW to, to.steps = r.steps, to.left \subseteq r.left,
           r.steps[r.at][1] # "look",
           r.steps[r.at][1] = "print" => to.print # None,
           \/ to.left = {}
           \/ \A k \in r.left : r.steps[k][1] \in {"print", "look", "cache"} => k \in to.left
    PROVE  Building(to, to.left)
<1> DEFINE s == r.steps
<1> SUFFICES ASSUME NEW k \in to.left, NEW b \in 1..Len(s), s[k][1] \in Looks, Begun(s, b, k)
             PROVE  Built(to, to.left, b, k)
  BY DEF Building
<1>1. /\ r.command \in CommandNames
      /\ s \in ProgramsOf(r.command)
      /\ Len(s) \in Nat
      /\ r.at \in 1..Len(s) /\ r.at \in Nat
      /\ r.left \subseteq 1..Len(s)
      /\ \A j \in r.left : j > r.at
      /\ Building(r, Todo(r))
  BY RunningIs
<1>2. Whole(s)
  BY <1>1, ProgramIs
<1>3. /\ b < k /\ s[b][1] = "print"
      /\ \A j \in b + 1 .. k - 1 : s[j][1] = "look"
  BY DEF Begun
<1>4. /\ k \in r.left /\ k \in Nat /\ b \in Nat /\ r.at < k /\ k \in 1..Len(s)
      /\ \A j \in r.left : s[j][1] \in {"print", "look", "cache"} => j \in to.left
  BY <1>1
<1>5. ~ (r.at > b)
  <2> SUFFICES ASSUME r.at > b PROVE FALSE
    OBVIOUS
  <2>1. r.at \in b + 1 .. k - 1
    BY <1>1, <1>4
  <2> QED  BY <1>3, <2>1
<1>6. Built(r, Todo(r), b, k)
  BY <1>1, <1>4 DEF Building, Todo
<1>7. \A j \in b .. k - 1 : j \in Todo(r)
  <2>1. r.at \in Todo(r)
    BY DEF Todo
  <2>2. ~ \A j \in Todo(r) : j > b
    BY <1>5, <2>1
  <2> QED  BY <1>6, <2>2 DEF Built
<1>8. ASSUME NEW j \in b .. k - 1, j # r.at PROVE j \in to.left
  <2>1. j \in r.left
    BY <1>7, <1>8 DEF Todo
  <2>2. j = b \/ j \in b + 1 .. k - 1
    BY <1>4
  <2>3. s[j][1] \in {"print", "look", "cache"}
    BY <1>3, <2>2
  <2> QED  BY <1>4, <2>1, <2>3
<1>9. CASE r.at # b
  <2>1. \A j \in b .. k - 1 : j \in to.left
    <3>1. \A j \in b .. k - 1 : j # r.at
      BY <1>1, <1>4, <1>5, <1>9
    <3> QED  BY <1>8, <3>1
  <2>2. b \in to.left
    BY <1>3, <1>4, <2>1
  <2>3. ~ \A j \in to.left : j > b
    BY <1>4, <2>2
  <2> QED  BY <2>1, <2>3 DEF Built
<1>10. CASE r.at = b
  <2>1. \A j \in to.left : j > b
    BY <1>1, <1>10
  <2>2. to.print # None
    BY <1>3, <1>10
  <2>3. ASSUME s[k][1] = "cache", NEW u \in Ulids
        PROVE  \E j \in to.left : j > b /\ j < k /\ s[j] = <<"look", u>>
    <3>1. PICK c \in 1..Len(s) : Begun(s, c, k) /\ Complete(s, c, k)
      BY <1>2, <1>4 DEF Whole
    <3>2. c = b
      BY <1>1, <1>4, <3>1, BegunOnce
    <3>3. PICK j \in b + 1 .. k - 1 : s[j] = <<"look", u>>
      BY <2>3, <3>1, <3>2 DEF Complete
    <3>4. j \in b .. k - 1 /\ j # r.at /\ j > b /\ j < k
      BY <1>4, <1>10
    <3> QED  BY <1>8, <3>3, <3>4
  <2> QED  BY <2>1, <2>2, <2>3 DEF Built
<1> QED  BY <1>9, <1>10

LEMMA BuildingLook ==
    ASSUME NEW r, Running(r), NEW to, to.steps = r.steps, to.left = r.left,
           to.print = r.print, NEW v, r.steps[r.at] = <<"look", v>>,
           \A u \in Ulids : to.built[u] = {} => u # v /\ r.built[u] = {}
    PROVE  Building(to, to.left)
<1> DEFINE s == r.steps
<1> SUFFICES ASSUME NEW k \in to.left, NEW b \in 1..Len(s), s[k][1] \in Looks, Begun(s, b, k)
             PROVE  Built(to, to.left, b, k)
  BY DEF Building
<1>1. /\ Len(s) \in Nat
      /\ r.at \in 1..Len(s) /\ r.at \in Nat
      /\ r.left \subseteq 1..Len(s)
      /\ \A j \in r.left : j > r.at
      /\ Building(r, Todo(r))
  BY RunningIs
<1>2. b \in Nat /\ s[b][1] = "print" /\ k \in r.left
  BY <1>1 DEF Begun
<1>3. r.at # b
  BY <1>2
<1>4. Built(r, Todo(r), b, k)
  BY <1>1, <1>2 DEF Building, Todo
<1>5. r.at \in Todo(r) /\ \A j \in Todo(r) : j = r.at \/ j \in to.left
  BY DEF Todo
<1>6. CASE r.at > b
  <2>1. (\A j \in Todo(r) : j > b) /\ (\A j \in to.left : j > b)
    BY <1>1, <1>2, <1>6 DEF Todo
  <2>2. /\ r.print # None
        /\ s[k][1] = "cache" => \A u \in Ulids :
              r.built[u] = {} => \E j \in Todo(r) : j > b /\ j < k /\ s[j] = <<"look", u>>
    BY <1>4, <2>1 DEF Built
  <2>3. ASSUME s[k][1] = "cache", NEW u \in Ulids, to.built[u] = {}
        PROVE  \E j \in to.left : j > b /\ j < k /\ s[j] = <<"look", u>>
    <3>1. u # v /\ r.built[u] = {}
      BY <2>3
    <3>2. PICK j \in Todo(r) : j > b /\ j < k /\ s[j] = <<"look", u>>
      BY <2>2, <2>3, <3>1
    <3>3. j # r.at
      BY <3>1, <3>2
    <3> QED  BY <1>5, <3>2, <3>3
  <2> QED  BY <2>1, <2>2, <2>3 DEF Built
<1>7. CASE r.at < b
  <2>1. ~ \A j \in Todo(r) : j > b
    BY <1>1, <1>2, <1>5, <1>7
  <2>2. \A j \in b .. k - 1 : j \in Todo(r)
    BY <1>4, <2>1 DEF Built
  <2>3. \A j \in b .. k - 1 : j # r.at
    BY <1>1, <1>2, <1>7
  <2>4. \A j \in b .. k - 1 : j \in to.left
    BY <1>5, <2>2, <2>3
  <2>5. b \in b .. k - 1
    BY <1>1, <1>2 DEF Begun
  <2>6. ~ \A j \in to.left : j > b
    BY <1>2, <2>4, <2>5
  <2> QED  BY <2>4, <2>6 DEF Built
<1> QED  BY <1>1, <1>2, <1>3, <1>6, <1>7

\* A process that looks at a file, or stores the graph, has begun it; one that
\* stores it has looked at every paper.
LEMMA LookHas ==
    ASSUME NEW r, Running(r), r.steps[r.at][1] \in Looks
    PROVE  /\ r.print # None
           /\ r.steps[r.at][1] = "cache" => \A u \in Ulids : r.built[u] # {}
<1> DEFINE s == r.steps
<1>1. /\ r.command \in CommandNames
      /\ s \in ProgramsOf(r.command)
      /\ Len(s) \in Nat
      /\ r.at \in 1..Len(s) /\ r.at \in Nat
      /\ r.left \subseteq 1..Len(s)
      /\ \A j \in r.left : j > r.at
      /\ Building(r, Todo(r))
  BY RunningIs
<1>2. PICK b \in 1..Len(s) : Begun(s, b, r.at)
  BY <1>1, ProgramIs DEF Whole
<1>3. b < r.at /\ b \in Nat
  BY <1>1, <1>2 DEF Begun
<1>4. \A j \in Todo(r) : j > b /\ ~ (j < r.at)
  BY <1>1, <1>3 DEF Todo
<1>5. Built(r, Todo(r), b, r.at)
  BY <1>1, <1>2 DEF Building, Todo
<1> QED  BY <1>4, <1>5 DEF Built

\* A process that embeds or purges has its listing, and lists no more.
LEMMA ListingHas ==
    ASSUME NEW r, Running(r), r.steps[r.at][1] \in {"embed", "purge"}
    PROVE  r.command = "sync" /\ ~ ToList(r, Todo(r)) /\ r.listed \in Listings
<1> DEFINE s == r.steps
<1>1. /\ r.command \in CommandNames
      /\ s \in ProgramsOf(r.command)
      /\ Len(s) \in Nat
      /\ r.at \in 1..Len(s) /\ r.at \in Nat
      /\ r.left \subseteq 1..Len(s)
      /\ \A j \in r.left : j > r.at
      /\ Listed(r, Todo(r))
  BY RunningIs
<1>2. s[r.at][1] \in NamesOf(r.command) /\ (r.command = "sync" => s = SyncSteps)
  BY <1>1, ProgramIs
<1>3. r.command = "sync"
  <2>1. {"embed", "purge"} \cap (BootstrapNames \cup IngestNames \cup ServeNames \cup OtherNames) = {}
    BY TablesAre DEF BootstrapNames, IngestNames, ServeNames, OtherNames, ParseNames, WriteNames,
                     GraphNames, RowNames, StepNames
  <2> QED  BY <1>2, <2>1 DEF NamesOf
<1>4. PICK a \in Nat : Listing(s, a)
  BY <1>2, <1>3, SyncIs
<1>5. ASSUME ToList(r, Todo(r)) PROVE FALSE
  <2>1. PICK j \in Todo(r) : s[j][1] \in Lists
    BY <1>5 DEF ToList
  <2>2. j \in 1..Len(s) /\ j >= r.at
    BY <1>1 DEF Todo
  <2>3. j <= a + 2
    BY <1>4, <2>1, <2>2 DEF Listing
  <2>4. r.at > a + 2
    BY <1>1, <1>4 DEF Listing
  <2> QED  BY <1>1, <2>2, <2>3, <2>4
<1>6. r.at \in Todo(r)
  BY DEF Todo
<1> QED  BY <1>1, <1>3, <1>5, <1>6 DEF Listed

LEMMA ListedOn ==
    ASSUME NEW r, Running(r), NEW to, to.steps = r.steps, to.left \subseteq r.left,
           to.listed = r.listed, r.steps[r.at][1] \notin Lists,
           \/ to.left = {}
           \/ \A k \in r.left : r.steps[k][1] \in Lists \cup {"embed", "purge"} => k \in to.left
    PROVE  Listed(to, to.left)
<1> DEFINE s == r.steps
<1>1. Listed(r, Todo(r)) /\ r.left \subseteq 1..Len(s)
  BY RunningIs
<1>2. to.left \subseteq Todo(r) /\ (ToList(to, to.left) => ToList(r, Todo(r)))
  BY DEF ToList, Todo
<1>3. ASSUME to.left # {}, ToList(r, Todo(r)) PROVE ToList(to, to.left)
  <2>1. PICK j \in Todo(r) : s[j][1] \in Lists
    BY <1>3 DEF ToList
  <2>2. j \in r.left
    BY <2>1 DEF Todo
  <2> QED  BY <1>3, <2>1, <2>2 DEF ToList
<1>4. ASSUME NEW k \in to.left, s[k][1] \in {"embed", "purge"}
      PROVE  ToList(to, to.left) \/ to.listed \in Listings
  BY <1>1, <1>2, <1>3, <1>4 DEF Listed
<1>5. ASSUME ToList(to, to.left), NEW k \in 1..Len(s), s[k][1] \in {"embed", "purge"}
      PROVE  k \in to.left
  <2>1. ToList(r, Todo(r)) /\ to.left # {}
    BY <1>2, <1>5 DEF ToList
  <2>2. k \in Todo(r)
    BY <1>1, <1>5, <2>1 DEF Listed
  <2>3. k # r.at
    BY <1>5, <2>1, ListingHas
  <2>4. k \in r.left
    BY <2>2, <2>3 DEF Todo
  <2> QED  BY <1>5, <2>1, <2>4
<1>6. \A i, j \in to.left : s[i][1] \in Lists /\ s[j][1] \in Lists => i = j
  BY <1>1, <1>2 DEF Listed
<1> QED  BY <1>4, <1>5, <1>6 DEF Listed

-----------------------------------------------------------------------------
(* One step of one process.                                                *)

LEMMA IdleIs ==
    /\ Idle \in Processes
    /\ Idle.at = 0
    /\ Idle.left = {}
    /\ Spoilt(Idle) = Idle
<1>1. Idle \in Processes /\ Idle.at = 0 /\ Idle.left = {}
  BY DEF Idle, Processes
<1>2. ASSUME NEW r \in Processes, r.clean = FALSE, r.rows = FALSE PROVE Spoilt(r) = r
  BY <1>2 DEF Spoilt, Processes
<1>3. Idle.clean = FALSE /\ Idle.rows = FALSE
  BY DEF Idle
<1>4. Spoilt(Idle) = Idle
  BY <1>1, <1>2, <1>3
<1> QED  BY <1>1, <1>4

LEMMA SpoiltIs ==
    ASSUME NEW r \in Processes, NEW to, to = Spoilt(r)
    PROVE  /\ to \in Processes
           /\ to.command = r.command /\ to.steps = r.steps /\ to.at = r.at /\ to.left = r.left
           /\ to.held = r.held /\ to.listed = r.listed /\ to.print = r.print
           /\ to.built = r.built
           /\ ~ to.clean /\ ~ to.rows
<1>1. to = [r EXCEPT !.clean = FALSE, !.rows = FALSE]
  BY DEF Spoilt
<1>2. to \in Processes
  BY <1>1 DEF Processes
<1>3. /\ to.command = r.command /\ to.steps = r.steps /\ to.at = r.at /\ to.left = r.left
      /\ to.held = r.held /\ to.listed = r.listed /\ to.print = r.print
      /\ to.built = r.built
      /\ ~ to.clean /\ ~ to.rows
  BY <1>1 DEF Processes
<1> QED  BY <1>2, <1>3

\* A file stays as it is or becomes younger.
Younger == \A u \in Ulids : file'[u] = file[u] \/ Mtime(u)' > Mtime(u)

LEMMA MtimeIs ==
    ASSUME Typed, NEW u \in Ulids
    PROVE  /\ Mtime(u) \in Nat
           /\ TextOf(u) \in Texts \cup {None}
           /\ ContentOf(u) \in Contents
           /\ file[u] # None => /\ file[u] \in Files
                                /\ Mtime(u) = file[u].mtime
                                /\ Mtime(u) # 0
           /\ TextOf(u) # None => /\ file[u] \in Records
                                  /\ TextOf(u) = file[u].text
<1>1. file[u] \in Files \cup {None}
  BY DEF Typed
<1>2. CASE file[u] = None
  BY <1>2 DEF Mtime, TextOf, ContentOf, Contents
<1>3. CASE file[u] \in Files /\ file[u] # None
  BY <1>3 DEF Mtime, TextOf, Files, Records, ContentOf, Contents
<1> QED  BY <1>1, <1>2, <1>3

LEMMA SameFile ==
    ASSUME NEW u \in Ulids, file'[u] = file[u]
    PROVE  Mtime(u)' = Mtime(u) /\ TextOf(u)' = TextOf(u) /\ ContentOf(u)' = ContentOf(u)
  BY DEF Mtime, TextOf, ContentOf

\* What was noted before is still true.
LEMMA NotedOn ==
    ASSUME Typed, NEW r, Noted(r), Younger, \A u \in Ulids : Mtime(u)' \in Nat
    PROVE  Noted(r)'
<1> SUFFICES ASSUME r.print # None, NEW u \in Ulids
             PROVE  /\ r.print \in Prints /\ r.built \in Builts
                    /\ r.print[u] <= Mtime(u)'
                    /\ r.print[u] = Mtime(u)' => r.built[u] \subseteq {TextOf(u)'}
  BY DEF Noted
<1>1. /\ r.print \in Prints /\ r.built \in Builts
      /\ r.print[u] <= Mtime(u)
      /\ r.print[u] = Mtime(u) => r.built[u] \subseteq {TextOf(u)}
  BY DEF Noted
<1>2. Mtime(u) \in Nat /\ Mtime(u)' \in Nat /\ r.print[u] \in Nat
  BY <1>1, MtimeIs DEF Prints
<1>3. CASE file'[u] = file[u]
  BY <1>1, <1>3, SameFile
<1>4. CASE Mtime(u)' > Mtime(u)
  BY <1>1, <1>2, <1>4
<1> QED  BY <1>3, <1>4 DEF Younger

LEMMA GraphNotedOn ==
    ASSUME Typed, GraphNoted, Younger, graph' = graph, \A u \in Ulids : Mtime(u)' \in Nat
    PROVE  GraphNoted'
<1> SUFFICES ASSUME graph # None, NEW u \in Ulids
             PROVE  /\ graph.print[u] <= Mtime(u)'
                    /\ graph.print[u] = Mtime(u)' => graph.of[u] = {TextOf(u)'}
  BY DEF GraphNoted
<1>1. /\ graph.print[u] <= Mtime(u)
      /\ graph.print[u] = Mtime(u) => graph.of[u] = {TextOf(u)}
  BY DEF GraphNoted
<1>2. Mtime(u) \in Nat /\ Mtime(u)' \in Nat /\ graph.print[u] \in Nat
  <2>1. graph \in Caches
    BY DEF Typed, StoresTyped
  <2> QED  BY <2>1, MtimeIs DEF Prints, Caches
<1>3. CASE file'[u] = file[u]
  BY <1>1, <1>3, SameFile
<1>4. CASE Mtime(u)' > Mtime(u)
  BY <1>1, <1>2, <1>4
<1> QED  BY <1>3, <1>4 DEF Younger

LEMMA SyncedSame ==
    ASSUME NEW to, NEW n, Like(n, to), NEW T, Synced(to, T)'
    PROVE  Synced(n, T)'
<1>1. /\ n.print = to.print /\ n.steps = to.steps /\ n.listed = to.listed
      /\ n.rows = to.rows
  BY DEF Like
<1>2. Compared(n, T)' <=> Compared(to, T)'
  BY <1>1 DEF Compared, ToList
<1>3. Drawn(n, T)' <=> Drawn(to, T)'
  BY <1>1 DEF Drawn
<1>4. \A u \in Ulids : /\ Embedded(n, T, u)' <=> Embedded(to, T, u)'
                       /\ Stored(n, T, u)' <=> Stored(to, T, u)'
  BY <1>1 DEF Embedded, Stored
<1> QED  BY <1>1, <1>2, <1>3, <1>4 DEF Synced

LEMMA StepBy ==
    ASSUME IInv, NEW p \in Procs, Busy(p), NEW r, r = proc[p], NEW to \in Processes,
           proc' = [proc EXCEPT ![p] = Onward(to)],
           to.command = r.command, to.steps = r.steps, to.left \subseteq r.left,
           \/ to.clean = r.clean /\ to.rows = r.rows
           \/ ~ to.clean /\ ~ to.rows,
           \A k \in to.left : r.steps[k][1] \in Heirs => k - 1 \in to.left \cup {r.at},
           r.at + 1 \in to.left /\ r.steps[r.at + 1][1] \in Heirs => to.held \in Records,
           Building(to, to.left),
           Listed(to, to.left),
           file' \in [Ulids -> Files \cup {None}],
           Younger,
           StoresTyped',
           GraphNoted',
           Noted(to)',
           (Sole(to) /\ to.left # {}) =>
              /\ Synced(to, to.left)'
              /\ (r.at + 1 \in to.left /\ r.steps[r.at + 1][1] \in Rows) =>
                    to.held = file'[r.steps[r.at + 1][2]]
    PROVE  IInv'
<1>0. PICK n : n = Onward(to)
  OBVIOUS
<1>1. /\ Typed
      /\ proc \in [Procs -> Processes]
      /\ r \in Processes
      /\ \A q \in Procs, x \in Processes : x = proc[q] => Sound(x)
      /\ \A q, x \in Procs : Busy(q) /\ proc[q].clean /\ x # q => proc[x] = Idle
  BY DEF IInv, Typed
<1>2. Running(r)
  BY <1>1 DEF Sound, Busy
<1>3. \/ n = Idle
      \/ /\ n \in Processes
         /\ n.at # 0
         /\ Running(n)
         /\ Todo(n) = to.left
         /\ \A k \in to.left : n.at <= k
         /\ n.at > r.at
         /\ Like(n, to)
  <2>1. \/ Onward(to) = Idle
        \/ \E m \in Processes :
                 /\ m = Onward(to)
                 /\ m.at # 0
                 /\ Running(m)
                 /\ Todo(m) = to.left
                 /\ \A k \in to.left : m.at <= k
                 /\ m.at > r.at
                 /\ Like(m, to)
    BY <1>1, <1>2, Moves
  <2> QED  BY <1>0, <2>1
<1>4. n \in Processes
  BY <1>3, IdleIs
<1>5. proc' = [proc EXCEPT ![p] = n]
  BY <1>0
<1>6. proc' \in [Procs -> Processes] /\ proc'[p] = n /\ \A q \in Procs \ {p} : proc'[q] = proc[q]
  BY <1>1, <1>4, <1>5
<1>7. Typed'
  BY <1>6 DEF Typed
<1>8. \A u \in Ulids : Mtime(u)' \in Nat
  BY <1>7, MtimeIs DEF Typed, Mtime, Files
<1>9. ASSUME n.at # 0
      PROVE  /\ Running(n) /\ Noted(n)'
             /\ Sole(n) => Synced(n, Todo(n))' /\ Holding(n)'
             /\ n.clean => r.clean
             /\ n.rows => n.clean
  <2>1. /\ n \in Processes
        /\ Running(n)
        /\ Todo(n) = to.left
        /\ \A k \in to.left : n.at <= k
        /\ n.at > r.at
        /\ Like(n, to)
    BY <1>3, <1>9, IdleIs
  <2>2. Noted(n)'
    BY <2>1 DEF Noted, Like
  <2>3. ASSUME Sole(n) PROVE Synced(n, Todo(n))' /\ Holding(n)'
    <3>1. Sole(to) /\ to.left # {}
      BY <2>1, <2>3 DEF Sole, Like, Todo
    <3>2. PICK T : T = to.left
      OBVIOUS
    <3>3. Synced(n, T)'
      BY <2>1, <3>1, <3>2, SyncedSame
    <3>4. Synced(n, Todo(n))'
      BY <2>1, <3>2, <3>3
    <3>5. ASSUME n.steps[n.at][1] \in Rows PROVE n.held = file'[n.steps[n.at][2]]
      <4>1. n.at \in to.left /\ n.steps = r.steps /\ n.held = to.held
        BY <2>1 DEF Like, Todo
      <4>2. n.at - 1 \in to.left \cup {r.at}
        BY <3>5, <4>1 DEF Heirs
      <4>3. n.at \in Nat /\ r.at \in Nat
        BY <1>2, <2>1, RunningIs
      <4>4. n.at - 1 \notin to.left
        BY <2>1, <4>3
      <4>5. n.at = r.at + 1
        BY <4>2, <4>3, <4>4
      <4> QED  BY <3>1, <3>5, <4>1, <4>5
    <3> QED  BY <3>4, <3>5 DEF Holding
  <2>4. r.rows => r.clean
    BY <1>1 DEF Sound, Busy
  <2>5. n.clean = to.clean /\ n.rows = to.rows
    BY <2>1 DEF Like
  <2>6. (to.clean => r.clean) /\ (to.rows => to.clean)
    BY <2>4, Zenon
  <2> QED  BY <2>1, <2>2, <2>3, <2>5, <2>6
<1>10. ASSUME NEW q \in Procs, NEW x \in Processes, x = proc'[q]
       PROVE  Sound(x)'
  <2>1. CASE q = p
    <3>1. x = n
      BY <1>6, <1>10, <2>1
    <3>2. n.at = 0 => n = Idle
      BY <1>3
    <3> QED  BY <1>9, <3>1, <3>2 DEF Sound
  <2>2. CASE q # p
    <3>1. x = proc[q]
      BY <1>6, <1>10, <2>2
    <3>2. Sound(x)
      BY <1>1, <3>1
    <3>3. x.at # 0 => ~ x.clean
      <4>1. proc[p] # Idle
        BY IdleIs DEF Busy
      <4> QED  BY <1>1, <2>2, <3>1, <4>1 DEF Busy
    <3>4. x.at # 0 => Noted(x)'
      BY <1>1, <1>8, <3>2, NotedOn DEF Sound
    <3> QED  BY <3>2, <3>3, <3>4 DEF Sound, Sole
  <2> QED  BY <2>1, <2>2
<1>11. ASSUME NEW q \in Procs, NEW x \in Procs, Busy(q)', proc'[q].clean, x # q
       PROVE  proc'[x] = Idle
  <2>1. CASE q = p
    <3>1. r.clean
      BY <1>6, <1>9, <1>11, <2>1 DEF Busy
    <3>2. proc[x] = Idle
      BY <1>1, <1>11, <2>1, <3>1
    <3> QED  BY <1>6, <1>11, <2>1, <3>2
  <2>2. CASE q # p
    <3>1. Busy(q) /\ proc[q].clean
      BY <1>6, <1>11, <2>2 DEF Busy
    <3>2. proc[p] = Idle
      BY <1>1, <2>2, <3>1
    <3> QED  BY <3>2, IdleIs DEF Busy
  <2> QED  BY <2>1, <2>2
<1> QED  BY <1>7, <1>10, <1>11 DEF IInv

\* A process that is at a step.
Standing(r, name, u) ==
    /\ r \in Processes
    /\ Running(r)
    /\ Noted(r)
    /\ r.at \in Nat
    /\ r.steps[r.at] = <<name, u>>
    /\ name \in NamesOf(r.command)
    /\ name \in Heirs => r.held \in Records
    /\ \A k \in r.left : r.steps[k][1] \in Heirs =>
          /\ k - 1 \in r.left \cup {r.at}
          /\ r.steps[k - 1][1] \in Leads(r.steps[k][1], SourcesOf(r.command))
          /\ r.steps[k - 1][2] = r.steps[k][2]
    /\ (r.at + 1 \in r.left /\ r.steps[r.at + 1][1] \in Heirs) =>
          /\ name \in Leads(r.steps[r.at + 1][1], SourcesOf(r.command))
          /\ r.steps[r.at + 1][2] = u
    /\ Sole(r) => Synced(r, Todo(r)) /\ Holding(r) /\ name \in SyncNames

LEMMA AtIs ==
    ASSUME IInv, NEW p \in Procs, NEW name, NEW u, At(p, name, u), NEW r, r = proc[p]
    PROVE  Typed /\ Busy(p) /\ Standing(r, name, u)
<1>1. /\ Typed /\ r \in Processes
      /\ \A q \in Procs, x \in Processes : x = proc[q] => Sound(x)
  BY DEF IInv, Typed
<1>2. r.at # 0 /\ r.steps[r.at] = <<name, u>> /\ Busy(p)
  BY DEF At, Busy
<1>3. Sound(r)
  BY <1>1
<1>4. /\ Running(r) /\ Noted(r)
      /\ Sole(r) => Synced(r, Todo(r)) /\ Holding(r)
  BY <1>2, <1>3 DEF Sound
<1>5. /\ r.command \in CommandNames
      /\ r.steps \in ProgramsOf(r.command)
      /\ Len(r.steps) \in Nat
      /\ r.at \in 1..Len(r.steps) /\ r.at \in Nat
      /\ r.left \subseteq 1..Len(r.steps)
      /\ Follows(r)
  BY <1>4, RunningIs
<1>6. /\ \A k \in 1..Len(r.steps) : r.steps[k][1] \in NamesOf(r.command)
      /\ Fed(r.steps, SourcesOf(r.command))
  BY <1>5, ProgramIs
<1>7. name \in NamesOf(r.command)
  BY <1>2, <1>5, <1>6
<1>8. name \in Heirs => r.held \in Records
  BY <1>2, <1>5 DEF Follows
<1>9. ASSUME NEW k \in r.left, r.steps[k][1] \in Heirs
      PROVE  /\ k - 1 \in r.left \cup {r.at}
             /\ r.steps[k - 1][1] \in Leads(r.steps[k][1], SourcesOf(r.command))
             /\ r.steps[k - 1][2] = r.steps[k][2]
  <2>1. k - 1 \in r.left \cup {r.at}
    BY <1>5, <1>9 DEF Follows, Todo
  <2> QED  BY <1>5, <1>6, <1>9, <2>1 DEF Fed
<1>10. ASSUME r.at + 1 \in r.left, r.steps[r.at + 1][1] \in Heirs
       PROVE  /\ name \in Leads(r.steps[r.at + 1][1], SourcesOf(r.command))
              /\ u = r.steps[r.at + 1][2]
  <2>1. (r.at + 1) - 1 = r.at
    BY <1>5
  <2> QED  BY <1>2, <1>9, <1>10, <2>1
<1>11. Sole(r) => name \in SyncNames
  BY <1>7 DEF Sole, NamesOf
<1> QED  BY <1>1, <1>2, <1>4, <1>5, <1>7, <1>8, <1>9, <1>10, <1>11 DEF Standing

\* Which steps can follow upon which.
LEMMA LeadsAre ==
    ASSUME NEW a, NEW b \in Heirs, NEW c, a \in Leads(b, SourcesOf(c))
    PROVE  /\ a \in Readers => b = "open"
           /\ a = "open" => b \in {"touch", "enrich"}
           /\ a = "enrich" => b = "upsert"
           /\ a \in Rows \cup {"take", "save"} => b \in Rows
           /\ a \in Readers \cup {"open", "enrich", "take", "save"} \cup Rows
           /\ a = "save" => c \notin {"sync", "bootstrap"}
<1>1. Rows \cap ({"open", "touch", "enrich", "upsert", "take", "save"} \cup Readers) = {}
  BY TablesAre DEF StepNames, Readers
<1> QED  BY <1>1 DEF Heirs, Leads, SourcesOf, Readers

\* The steps of the files, of rows, and of the graph and the vectors.
LEMMA NamesAre ==
    /\ Rows \cap StepNames = {}
    /\ SyncNames \cap ({"parse", "save", "open", "touch", "enrich", "upsert", "ask", "load"} \cup Readers) = {}
    /\ OtherNames \cap ({"print", "look", "cache", "embed", "purge"} \cup Lists) = {}
    /\ \A c : NamesOf(c) \cap Rows # {} \/ "upsert" \in NamesOf(c) \/ "take" \in NamesOf(c) =>
          NamesOf(c) \in {OtherNames, BootstrapNames, SyncNames}
    /\ \A c : "parse" \in NamesOf(c) =>
          \/ c = "bootstrap" \/ c = "ingest"
          \/ NamesOf(c) = OtherNames /\ c # "sync"
    /\ \A c : NamesOf(c) = SyncNames => c = "sync"
    /\ \A c : NamesOf(c) = BootstrapNames => c = "bootstrap"
<1>1. Rows \cap StepNames = {}
  BY TablesAre
<1>2. /\ "seen" \in SyncNames /\ "seen" \notin BootstrapNames \cup IngestNames \cup ServeNames \cup OtherNames
      /\ "cache" \in BootstrapNames /\ "cache" \notin OtherNames
      /\ "take" \in BootstrapNames /\ "take" \notin IngestNames \cup ServeNames
  BY <1>1 DEF SyncNames, BootstrapNames, IngestNames, ServeNames, OtherNames, ParseNames, WriteNames,
              GraphNames, RowNames, StepNames
<1>3. \A c : NamesOf(c) = SyncNames => c = "sync"
  BY <1>2 DEF NamesOf
<1>4. \A c : NamesOf(c) = BootstrapNames => c = "bootstrap"
  BY <1>2 DEF NamesOf
<1>5. /\ SyncNames \cap ({"parse", "save", "open", "touch", "enrich", "upsert", "ask", "load"} \cup Readers) = {}
      /\ OtherNames \cap ({"print", "look", "cache", "embed", "purge"} \cup Lists) = {}
  BY <1>1 DEF SyncNames, OtherNames, ParseNames, WriteNames, GraphNames, RowNames, StepNames, Readers, Lists
<1>6. (IngestNames \cup ServeNames) \cap (Rows \cup {"upsert", "take"}) = {}
  BY <1>1 DEF IngestNames, ServeNames, ParseNames, WriteNames, GraphNames, StepNames
<1>7. \A c : NamesOf(c) \cap Rows # {} \/ "upsert" \in NamesOf(c) \/ "take" \in NamesOf(c) =>
          NamesOf(c) \in {OtherNames, BootstrapNames, SyncNames}
  BY <1>6 DEF NamesOf
<1>8. "parse" \notin SyncNames \cup ServeNames
  BY <1>1 DEF SyncNames, ServeNames, GraphNames, StepNames
<1>9. \A c : "parse" \in NamesOf(c) =>
          \/ c = "bootstrap" \/ c = "ingest"
          \/ NamesOf(c) = OtherNames /\ c # "sync"
  BY <1>8 DEF NamesOf
<1> QED  BY <1>1, <1>3, <1>4, <1>5, <1>7, <1>9

\* A step that is neither for the graph nor for the vectors.
LEMMA Plain ==
    ASSUME NEW r, Running(r), Noted(r), NEW to, to.steps = r.steps, to.left \subseteq r.left,
           to.print = r.print, to.built = r.built, to.listed = r.listed,
           r.steps[r.at][1] \notin {"look", "print"} \cup Lists,
           \/ to.left = {}
           \/ \A k \in r.left :
                 r.steps[k][1] \in {"print", "look", "cache", "embed", "purge"} \cup Lists => k \in to.left
    PROVE  Building(to, to.left) /\ Listed(to, to.left) /\ Noted(to)
<1>1. Building(to, to.left)
  BY BuildingOn
<1>2. Listed(to, to.left)
  BY ListedOn
<1>3. Noted(to)
  BY DEF Noted
<1> QED  BY <1>1, <1>2, <1>3

\* A step that stores nothing.
LEMMA QuietStep ==
    ASSUME IInv, NEW p \in Procs, Busy(p), NEW r, r = proc[p], NEW to \in Processes,
           proc' = [proc EXCEPT ![p] = Onward(to)],
           to.command = r.command, to.steps = r.steps, to.left \subseteq r.left,
           \/ to.clean = r.clean /\ to.rows = r.rows
           \/ ~ to.clean /\ ~ to.rows,
           \A k \in to.left : r.steps[k][1] \in Heirs => k - 1 \in to.left \cup {r.at},
           r.at + 1 \in to.left /\ r.steps[r.at + 1][1] \in Heirs => to.held \in Records,
           Building(to, to.left),
           Listed(to, to.left),
           UNCHANGED <<file, stores>>,
           Noted(to),
           (Sole(to) /\ to.left # {}) =>
              /\ Synced(to, to.left)
              /\ (r.at + 1 \in to.left /\ r.steps[r.at + 1][1] \in Rows) =>
                    to.held = file[r.steps[r.at + 1][2]]
    PROVE  IInv'
<1>1. file' = file /\ row' = row /\ vector' = vector /\ graph' = graph /\ seen' = seen
  BY DEF stores
<1>2. Typed /\ GraphNoted /\ file' \in [Ulids -> Files \cup {None}] /\ StoresTyped'
  BY <1>1 DEF IInv, Typed, StoresTyped
<1>3. Younger
  BY <1>1 DEF Younger
<1>4. GraphNoted'
  BY <1>1, <1>2 DEF GraphNoted, Mtime, TextOf
<1>5. Noted(to)'
  BY <1>1 DEF Noted, Mtime, TextOf
<1>6. PICK T : T = to.left
  OBVIOUS
<1>7. Synced(to, T) => Synced(to, T)'
  <2>1. \A u \in Ulids : Mtime(u)' = Mtime(u) /\ TextOf(u)' = TextOf(u) /\ ContentOf(u)' = ContentOf(u) /\ file'[u] = file[u]
    BY <1>1, SameFile
  <2>2. Compared(to, T)' <=> Compared(to, T)
    BY <2>1 DEF Compared, ToList
  <2>3. Drawn(to, T)' <=> Drawn(to, T)
    BY <1>1, <2>1 DEF Drawn
  <2>4. \A u \in Ulids : /\ Embedded(to, T, u)' <=> Embedded(to, T, u)
                         /\ Stored(to, T, u)' <=> Stored(to, T, u)
    BY <1>1, <2>1 DEF Embedded, Stored
  <2> QED  BY <2>1, <2>2, <2>3, <2>4 DEF Synced
<1> QED  BY <1>1, <1>2, <1>3, <1>4, <1>5, <1>6, <1>7, StepBy

\* A sync that only passes over rows of papers that cannot be read.
LEMMA SyncedOn ==
    ASSUME NEW r, Synced(r, Todo(r)), NEW to, to.steps = r.steps, to.left \subseteq Todo(r),
           to.listed = r.listed, to.rows = r.rows,
           to.print # None => \A u \in Ulids : to.print[u] = Mtime(u),
           \A k \in Todo(r) : r.steps[k][1] \in {"embed", "purge", "cache"} \cup Lists => k \in to.left,
           \A u \in Ulids, t \in Rows, k \in Todo(r) :
               TextOf(u) # None /\ r.steps[k] = <<t, u>> => k \in to.left
    PROVE  Synced(to, to.left)
<1>1. Compared(to, to.left)
  <2>1. Compared(r, Todo(r))
    BY DEF Synced
  <2>2. ToList(r, Todo(r)) => ToList(to, to.left)
    BY DEF ToList
  <2> QED  BY <2>1, <2>2 DEF Compared
<1>2. ASSUME NEW u \in Ulids
      PROVE  /\ Embedded(to, to.left, u)
             /\ to.rows /\ TextOf(u) # None => Stored(to, to.left, u)
  <2>1. /\ Embedded(r, Todo(r), u)
        /\ r.rows /\ TextOf(u) # None => Stored(r, Todo(r), u)
    BY <1>2 DEF Synced
  <2>2. Embedded(to, to.left, u)
    BY <2>1 DEF Embedded
  <2>3. ASSUME to.rows, TextOf(u) # None PROVE Stored(to, to.left, u)
    <3> SUFFICES ASSUME NEW t \in Rows
                 PROVE  row[u][t] = Columns(t, file[u]) \/ \E k \in to.left : to.steps[k] = <<t, u>>
      BY DEF Stored
    <3>1. row[u][t] = Columns(t, file[u]) \/ \E k \in Todo(r) : r.steps[k] = <<t, u>>
      BY <2>1, <2>3 DEF Stored
    <3> QED  BY <2>3, <3>1
  <2> QED  BY <2>2, <2>3
<1>3. Drawn(to, to.left)
  <2>1. Drawn(r, Todo(r))
    BY DEF Synced
  <2> QED  BY <2>1 DEF Drawn
<1> QED  BY <1>1, <1>2, <1>3 DEF Synced

-----------------------------------------------------------------------------
(* The steps that read.                                                    *)

LEMMA ReadStep ==
    ASSUME IInv, NEW p \in Procs, NEW u \in Ulids, NEW step \in Readers, Read(p, u, step)
    PROVE  IInv'
<1>1. PICK r : r = proc[p]
  OBVIOUS
<1>2. At(p, step, u) /\ TextOf(u) # None /\ UNCHANGED <<file, stores>>
  BY DEF Read
<1>3. Typed /\ Busy(p) /\ Standing(r, step, u)
  BY <1>1, <1>2, AtIs
<1>4. PICK to : to = [r EXCEPT !.held = file[u]]
  OBVIOUS
<1>5. proc' = [proc EXCEPT ![p] = Onward(to)]
  BY <1>1, <1>4 DEF Read, Became
<1>6. file[u] \in Records
  BY <1>2, <1>3, MtimeIs
<1>7. /\ to \in Processes /\ to.command = r.command /\ to.steps = r.steps /\ to.left = r.left
      /\ to.held = file[u] /\ to.print = r.print /\ to.built = r.built /\ to.listed = r.listed
      /\ to.clean = r.clean /\ to.rows = r.rows
  BY <1>3, <1>4, <1>6 DEF Processes, Standing
<1>8. step \notin {"look", "print"} \cup Lists /\ step \notin SyncNames
  BY NamesAre DEF Readers, Lists
<1>9. Building(to, to.left) /\ Listed(to, to.left) /\ Noted(to)
  BY <1>3, <1>7, <1>8, Plain DEF Standing
<1>10. ~ Sole(to)
  BY <1>3, <1>7, <1>8 DEF Standing, Sole
<1> QED  BY <1>1, <1>2, <1>3, <1>5, <1>6, <1>7, <1>9, <1>10, QuietStep DEF Standing

LEMMA LeaveAloneStep ==
    ASSUME IInv, NEW p \in Procs, NEW u \in Ulids, NEW step \in Readers, LeaveAlone(p, u, step)
    PROVE  IInv'
<1>1. PICK r : r = proc[p]
  OBVIOUS
<1>2. At(p, step, u) /\ UNCHANGED <<file, stores>>
  BY DEF LeaveAlone
<1>3. Typed /\ Busy(p) /\ Standing(r, step, u)
  BY <1>1, <1>2, AtIs
<1> DEFINE i == r.at
           upsert == {j \in r.left : j = i + 3 /\ r.steps[j][1] = "upsert"}
           L == r.left \ ({i + 1, i + 2} \cup upsert)
<1>4. PICK to : to = [r EXCEPT !.left = L]
  OBVIOUS
<1>5. proc' = [proc EXCEPT ![p] = Onward(to)]
  BY <1>1, <1>4 DEF LeaveAlone, Became
<1>6. /\ to \in Processes /\ to.command = r.command /\ to.steps = r.steps /\ to.left = L
      /\ to.held = r.held /\ to.print = r.print /\ to.built = r.built /\ to.listed = r.listed
      /\ to.clean = r.clean /\ to.rows = r.rows
  BY <1>3, <1>4 DEF Processes, Standing
<1>7. step \notin {"look", "print"} \cup Lists /\ step \notin SyncNames
  BY NamesAre DEF Readers, Lists
<1>8. r.steps[i + 1][1] = "open" /\ r.steps[i + 2][1] \in {"touch", "enrich"}
  <2>1. /\ r.command \in CommandNames /\ r.steps \in ProgramsOf(r.command)
        /\ i \in 1..Len(r.steps)
    BY <1>3, RunningIs DEF Standing
  <2>2. r.steps[i][1] \in Readers
    BY <1>3 DEF Standing
  <2> QED  BY <2>1, <2>2, ProgramIs DEF Followed
<1>9. \A k \in r.left :
         r.steps[k][1] \in {"print", "look", "cache", "embed", "purge"} \cup Lists => k \in L
  BY <1>8 DEF Lists
<1>10. ASSUME NEW k \in L, r.steps[k][1] \in Heirs PROVE k - 1 \in L \cup {i}
  <2>1. /\ k - 1 \in r.left \cup {i}
        /\ r.steps[k - 1][1] \in Leads(r.steps[k][1], SourcesOf(r.command))
        /\ i \in Nat /\ k \in Nat
    BY <1>3, <1>10 DEF Standing, Processes
  <2>2. ASSUME k - 1 = i + 1 PROVE FALSE
    <3>1. k = i + 2
      BY <2>1, <2>2
    <3> QED  BY <3>1
  <2>3. ASSUME k - 1 = i + 2 PROVE FALSE
    <3>1. k = i + 3
      BY <2>1, <2>3
    <3>2. r.steps[k - 1][1] \in {"touch", "enrich"}
      BY <1>8, <2>3
    <3>3. "touch" \notin Readers \cup {"open", "enrich", "take", "save"} \cup Rows
      BY TablesAre DEF StepNames, Readers
    <3>4. r.steps[k][1] = "upsert"
      BY <1>10, <2>1, <3>2, <3>3, LeadsAre
    <3> QED  BY <3>1, <3>4
  <2>4. ASSUME k - 1 \in upsert PROVE FALSE
    <3>1. "upsert" \notin Readers \cup {"open", "enrich", "take", "save"} \cup Rows
      BY TablesAre DEF StepNames, Readers
    <3> QED  BY <1>10, <2>1, <2>4, <3>1, LeadsAre
  <2> QED  BY <2>1, <2>2, <2>3, <2>4
<1>11. i + 1 \notin L
  OBVIOUS
<1> HIDE DEF L
<1>12. L \subseteq r.left
  BY DEF L
<1>13. Building(to, to.left) /\ Listed(to, to.left) /\ Noted(to)
  BY <1>3, <1>6, <1>7, <1>9, <1>12, Plain DEF Standing
<1>14. ~ Sole(to)
  BY <1>3, <1>6, <1>7 DEF Standing, Sole
<1> QED  BY <1>1, <1>2, <1>3, <1>5, <1>6, <1>10, <1>11, <1>12, <1>13, <1>14, QuietStep DEF Standing

LEMMA ParseFailsStep ==
    ASSUME IInv, NEW p \in Procs, NEW u \in Ulids, ParseFails(p, u)
    PROVE  IInv'
<1>1. PICK r : r = proc[p]
  OBVIOUS
<1>2. At(p, "parse", u) /\ UNCHANGED <<file, stores>>
  BY DEF ParseFails
<1>3. Typed /\ Busy(p) /\ Standing(r, "parse", u)
  BY <1>1, <1>2, AtIs
<1> DEFINE Passed(s) ==
               \/ r.command = "ingest"
               \/ s[2] = u /\ (r.command = "bootstrap" => s[1] \in Range(Parse))
           L == {k \in r.left : ~ Passed(r.steps[k])}
<1>4. PICK to : to = [r EXCEPT !.left = L]
  OBVIOUS
<1>5. proc' = [proc EXCEPT ![p] = Onward(to)]
  BY <1>1, <1>4 DEF ParseFails, Became, Without
<1>6. /\ to \in Processes /\ to.command = r.command /\ to.steps = r.steps /\ to.left = L
      /\ to.held = r.held /\ to.print = r.print /\ to.built = r.built /\ to.listed = r.listed
      /\ to.clean = r.clean /\ to.rows = r.rows
  BY <1>3, <1>4 DEF Processes, Standing
<1>7. "parse" \notin SyncNames /\ Range(Parse) = {"parse", "save"}
  BY NamesAre DEF Parse, Range
<1>8. r.command \in {"bootstrap", "ingest"} \/ NamesOf(r.command) = OtherNames
  BY <1>3, NamesAre DEF Standing
<1>9. \/ L = {}
      \/ \A k \in r.left :
            r.steps[k][1] \in {"print", "look", "cache", "embed", "purge"} \cup Lists => k \in L
  <2>1. CASE r.command = "ingest"
    BY <2>1
  <2>2. CASE r.command = "bootstrap"
    BY <1>7, <2>2 DEF Lists
  <2>3. CASE NamesOf(r.command) = OtherNames
    <3>1. /\ r.command \in CommandNames /\ r.steps \in ProgramsOf(r.command)
          /\ r.left \subseteq 1..Len(r.steps)
      BY <1>3, RunningIs DEF Standing
    <3>2. \A k \in r.left : r.steps[k][1] \in OtherNames
      BY <2>3, <3>1, ProgramIs
    <3> QED  BY <3>2, NamesAre
  <2> QED  BY <1>8, <2>1, <2>2, <2>3
<1>10. "parse" \notin Readers \cup {"open", "enrich", "take", "save"} \cup Rows
  BY TablesAre DEF StepNames, Readers
<1>11. ASSUME NEW k \in L, r.steps[k][1] \in Heirs PROVE k - 1 \in L \cup {r.at}
  <2>1. /\ k - 1 \in r.left \cup {r.at}
        /\ r.steps[k - 1][1] \in Leads(r.steps[k][1], SourcesOf(r.command))
        /\ r.steps[k - 1][2] = r.steps[k][2]
    BY <1>3, <1>11 DEF Standing
  <2>2. r.command = "bootstrap" => r.steps[k - 1][1] \notin {"parse", "save"}
    BY <1>10, <1>11, <2>1, LeadsAre
  <2> QED  BY <1>7, <1>11, <2>1, <2>2
<1>12. ~ (r.at + 1 \in L /\ r.steps[r.at + 1][1] \in Heirs)
  BY <1>3, <1>10, LeadsAre DEF Standing
<1> HIDE DEF L
<1>13. L \subseteq r.left
  BY DEF L
<1>14. Building(to, to.left) /\ Listed(to, to.left) /\ Noted(to)
  BY <1>3, <1>6, <1>9, <1>13, Plain DEF Standing, Lists
<1>15. ~ Sole(to)
  BY <1>3, <1>6, <1>7 DEF Standing, Sole
<1> QED  BY <1>1, <1>2, <1>3, <1>5, <1>6, <1>11, <1>12, <1>13, <1>14, <1>15, QuietStep DEF Standing

LEMMA RowStepIs ==
    ASSUME NEW step
    PROVE  IsRowStep(step) <=> step[1] \in Rows \cup {"take", "upsert"}
  BY DEF IsRowStep, Rows

LEMMA TakeStep ==
    ASSUME IInv, NEW p \in Procs, NEW u \in Ulids, Take(p, u)
    PROVE  IInv'
<1>1. PICK r : r = proc[p]
  OBVIOUS
<1>2. At(p, "take", u) /\ UNCHANGED <<file, stores>>
  BY DEF Take
<1>3. Typed /\ Busy(p) /\ Standing(r, "take", u)
  BY <1>1, <1>2, AtIs
<1>4. "take" \notin {"look", "print", "embed", "purge", "cache"} \cup Lists
  BY DEF Lists
<1>5. CASE TextOf(u) # None
  <2>1. PICK to : to = [r EXCEPT !.held = file[u]]
    OBVIOUS
  <2>2. proc' = [proc EXCEPT ![p] = Onward(to)]
    BY <1>1, <1>5, <2>1 DEF Take, Became
  <2>3. file[u] \in Records
    BY <1>3, <1>5, MtimeIs
  <2>4. /\ to \in Processes /\ to.command = r.command /\ to.steps = r.steps /\ to.left = r.left
        /\ to.held = file[u] /\ to.print = r.print /\ to.built = r.built /\ to.listed = r.listed
        /\ to.clean = r.clean /\ to.rows = r.rows
    BY <1>3, <2>1, <2>3 DEF Processes, Standing
  <2>5. Building(to, to.left) /\ Listed(to, to.left) /\ Noted(to)
    BY <1>3, <1>4, <2>4, Plain DEF Standing
  <2>6. ASSUME Sole(to) PROVE Synced(to, to.left)
    <3>1. Synced(r, Todo(r))
      BY <1>3, <2>4, <2>6 DEF Standing, Sole
    <3>2. r.print # None => \A v \in Ulids : r.print[v] = Mtime(v)
      BY <3>1 DEF Synced
    <3>3. \A k \in Todo(r) : k \in to.left \/ r.steps[k] = <<"take", u>>
      BY <1>3, <2>4 DEF Todo, Standing
    <3>4. "take" \notin Rows
      BY TablesAre DEF StepNames
    <3>5. to.left \subseteq Todo(r)
      BY <2>4 DEF Todo
    <3> QED  BY <1>4, <2>4, <3>1, <3>2, <3>3, <3>4, <3>5, SyncedOn
  <2>7. r.at + 1 \in to.left /\ r.steps[r.at + 1][1] \in Rows => r.steps[r.at + 1][2] = u
    BY <1>3, <2>4 DEF Standing, Heirs
  <2> QED  BY <1>1, <1>2, <1>3, <2>2, <2>3, <2>4, <2>5, <2>6, <2>7, QuietStep DEF Standing
<1>6. CASE TextOf(u) = None
  <2> DEFINE Passed(s) == /\ IsRowStep(s)
                          /\ \/ s[2] = u
                             \/ r.command = "bootstrap" /\ file[u] # None
             L == {k \in r.left : ~ Passed(r.steps[k])}
  <2>1. PICK to : to = [r EXCEPT !.left = L]
    OBVIOUS
  <2>2. proc' = [proc EXCEPT ![p] = Onward(to)]
    BY <1>1, <1>6, <2>1 DEF Take, Became, Without
  <2>3. /\ to \in Processes /\ to.command = r.command /\ to.steps = r.steps /\ to.left = L
        /\ to.held = r.held /\ to.print = r.print /\ to.built = r.built /\ to.listed = r.listed
        /\ to.clean = r.clean /\ to.rows = r.rows
    BY <1>3, <2>1 DEF Processes, Standing
  <2>4. \A k \in r.left :
           r.steps[k][1] \in {"print", "look", "cache", "embed", "purge"} \cup Lists => k \in L
    BY TablesAre, RowStepIs DEF StepNames, Lists
  <2>5. ASSUME NEW k \in L, r.steps[k][1] \in Heirs PROVE k - 1 \in L \cup {r.at}
    <3>1. /\ k - 1 \in r.left \cup {r.at}
          /\ r.steps[k - 1][1] \in Leads(r.steps[k][1], SourcesOf(r.command))
          /\ r.steps[k - 1][2] = r.steps[k][2]
      BY <1>3, <2>5 DEF Standing
    <3>2. ASSUME Passed(r.steps[k - 1]) PROVE FALSE
      <4>1. r.steps[k - 1][1] \in Rows \cup {"take"}
        <5>1. "upsert" \notin Readers \cup {"open", "enrich", "take", "save"} \cup Rows
          BY TablesAre DEF StepNames, Readers
        <5> QED  BY <2>5, <3>1, <3>2, <5>1, RowStepIs, LeadsAre
      <4>2. r.steps[k][1] \in Rows
        BY <2>5, <3>1, <4>1, LeadsAre
      <4>3. Passed(r.steps[k])
        BY <3>1, <3>2, <4>2, RowStepIs
      <4> QED  BY <4>3
    <3> QED  BY <3>1, <3>2
  <2>6. ~ (r.at + 1 \in L /\ r.steps[r.at + 1][1] \in Heirs)
    <3> SUFFICES ASSUME r.at + 1 \in L, r.steps[r.at + 1][1] \in Heirs PROVE FALSE
      OBVIOUS
    <3>1. r.steps[r.at + 1][1] \in Rows /\ r.steps[r.at + 1][2] = u
      BY <1>3, LeadsAre DEF Standing
    <3>2. Passed(r.steps[r.at + 1])
      BY <3>1, RowStepIs
    <3> QED  BY <3>2
  <2>7. ASSUME Sole(to), NEW v \in Ulids, NEW t \in Rows, NEW k \in Todo(r),
               TextOf(v) # None, r.steps[k] = <<t, v>>
        PROVE  k \in L
    <3>1. r.command # "bootstrap" /\ v # u /\ t # "take"
      BY <1>6, <2>3, <2>7, TablesAre DEF Sole, StepNames
    <3>2. k \in r.left
      BY <1>3, <2>7, <3>1 DEF Todo, Standing
    <3> QED  BY <2>7, <3>1, <3>2
  <2> HIDE DEF L
  <2>8. L \subseteq r.left
    BY DEF L
  <2>9. Building(to, to.left) /\ Listed(to, to.left) /\ Noted(to)
    BY <1>3, <1>4, <2>3, <2>4, <2>8, Plain DEF Standing
  <2>10. ASSUME Sole(to) PROVE Synced(to, to.left)
    <3>1. Synced(r, Todo(r))
      BY <1>3, <2>3, <2>10 DEF Standing, Sole
    <3>2. r.print # None => \A v \in Ulids : r.print[v] = Mtime(v)
      BY <3>1 DEF Synced
    <3>3. \A k \in Todo(r) : r.steps[k][1] \in {"embed", "purge", "cache"} \cup Lists => k \in to.left
      BY <1>3, <1>4, <2>3, <2>4 DEF Todo, Standing
    <3>4. to.left \subseteq Todo(r)
      BY <2>3, <2>8 DEF Todo
    <3> QED  BY <2>3, <2>7, <2>10, <3>1, <3>2, <3>3, <3>4, SyncedOn
  <2>11. r.at + 1 \in to.left /\ r.steps[r.at + 1][1] \in Rows => FALSE
    BY <2>3, <2>6 DEF Heirs
  <2> QED  BY <1>1, <1>2, <1>3, <2>2, <2>3, <2>5, <2>6, <2>8, <2>9, <2>10, <2>11, QuietStep DEF Standing
<1> QED  BY <1>5, <1>6

LEMMA StoreFailsStep ==
    ASSUME IInv, NEW p \in Procs, NEW u \in Ulids, NEW step \in Rows \cup {"upsert"},
           StoreFails(p, u, step)
    PROVE  IInv'
<1>1. PICK r : r = proc[p]
  OBVIOUS
<1>2. At(p, step, u) /\ UNCHANGED <<file, stores>>
  BY DEF StoreFails
<1>3. Typed /\ Busy(p) /\ Standing(r, step, u)
  BY <1>1, <1>2, AtIs
<1> DEFINE Passed(s) ==
               CASE r.command = "sync" \/ step = "upsert" -> IsRowStep(s) /\ s[2] = u
                 [] r.command = "bootstrap"               -> IsRowStep(s)
                 [] OTHER                                 -> s[2] = u
           L == {k \in r.left : ~ Passed(r.steps[k])}
<1>4. PICK but, to : but = [r EXCEPT !.left = L] /\ to = Spoilt(but)
  OBVIOUS
<1>5. proc' = [proc EXCEPT ![p] = Onward(to)]
  BY <1>1, <1>4 DEF StoreFails, Became, Without
<1>6. /\ to \in Processes /\ to.command = r.command /\ to.steps = r.steps /\ to.left = L
      /\ to.held = r.held /\ to.print = r.print /\ to.built = r.built /\ to.listed = r.listed
      /\ ~ to.clean /\ ~ to.rows
  <2>1. /\ but \in Processes /\ but.command = r.command /\ but.steps = r.steps /\ but.left = L
        /\ but.held = r.held /\ but.print = r.print /\ but.built = r.built
        /\ but.listed = r.listed
    BY <1>3, <1>4 DEF Processes, Standing
  <2> HIDE DEF L
  <2> QED  BY <1>4, <2>1, SpoiltIs
<1>7. /\ step \notin {"look", "print", "embed", "purge", "cache"} \cup Lists
      /\ "upsert" \notin SyncNames
      /\ Rows \cap {"look", "print", "embed", "purge", "cache", "list", "relist", "upsert"} = {}
  BY TablesAre, NamesAre DEF Lists, StepNames
<1>8. NamesOf(r.command) = OtherNames \/ r.command \in {"sync", "bootstrap"}
  BY <1>3, NamesAre DEF Standing
<1>9. \A k \in r.left :
         r.steps[k][1] \in {"print", "look", "cache", "embed", "purge"} \cup Lists => k \in L
  <2> SUFFICES ASSUME NEW k \in r.left,
                      r.steps[k][1] \in {"print", "look", "cache", "embed", "purge"} \cup Lists
               PROVE  ~ Passed(r.steps[k])
    OBVIOUS
  <2>1. ~ IsRowStep(r.steps[k])
    BY <1>7, RowStepIs DEF Lists
  <2>2. NamesOf(r.command) # OtherNames
    <3>1. /\ r.command \in CommandNames /\ r.steps \in ProgramsOf(r.command)
          /\ r.left \subseteq 1..Len(r.steps)
      BY <1>3, RunningIs DEF Standing
    <3>2. r.steps[k][1] \in NamesOf(r.command)
      BY <3>1, ProgramIs
    <3> QED  BY <3>2, NamesAre
  <2> QED  BY <1>8, <2>1, <2>2
<1>10. ASSUME NEW k \in r.left, r.steps[k][1] \in Heirs,
              r.steps[k - 1][1] \in Leads(r.steps[k][1], SourcesOf(r.command)),
              r.steps[k - 1][2] = r.steps[k][2], Passed(r.steps[k - 1])
       PROVE  Passed(r.steps[k])
  <2>1. CASE r.command \in {"sync", "bootstrap"} \/ step = "upsert"
    <3>1. r.steps[k - 1][1] \in Rows \cup {"take"}
      <4>1. "upsert" \notin Readers \cup {"open", "enrich", "take", "save"} \cup Rows
        BY TablesAre DEF StepNames, Readers
      <4>2. r.steps[k - 1][1] \in Rows \cup {"take", "upsert"}
        BY <1>10, <2>1, RowStepIs
      <4> QED  BY <1>10, <4>1, <4>2, LeadsAre
    <3>2. r.steps[k][1] \in Rows
      BY <1>10, <3>1, LeadsAre
    <3> QED  BY <1>10, <2>1, <3>2, RowStepIs
  <2>2. CASE ~ (r.command \in {"sync", "bootstrap"} \/ step = "upsert")
    BY <1>10, <2>2
  <2> QED  BY <2>1, <2>2
<1>11. ASSUME NEW k \in L, r.steps[k][1] \in Heirs PROVE k - 1 \in L \cup {r.at}
  <2>1. /\ k - 1 \in r.left \cup {r.at}
        /\ r.steps[k - 1][1] \in Leads(r.steps[k][1], SourcesOf(r.command))
        /\ r.steps[k - 1][2] = r.steps[k][2]
    BY <1>3, <1>11 DEF Standing
  <2>2. ~ Passed(r.steps[k - 1])
    BY <1>10, <1>11, <2>1
  <2> QED  BY <2>1, <2>2
<1>12. ~ (r.at + 1 \in L /\ r.steps[r.at + 1][1] \in Heirs)
  <2> SUFFICES ASSUME r.at + 1 \in L, r.steps[r.at + 1][1] \in Heirs PROVE FALSE
    OBVIOUS
  <2>1. /\ step \in Leads(r.steps[r.at + 1][1], SourcesOf(r.command))
        /\ r.steps[r.at + 1][2] = u
    BY <1>3 DEF Standing
  <2>2. step # "upsert"
    <3>1. "upsert" \notin Readers \cup {"open", "enrich", "take", "save"} \cup Rows
      BY TablesAre DEF StepNames, Readers
    <3> QED  BY <2>1, <3>1, LeadsAre
  <2>3. r.steps[r.at + 1][1] \in Rows
    BY <2>1, <2>2, LeadsAre
  <2>4. Passed(r.steps[r.at + 1])
    BY <2>1, <2>3, RowStepIs
  <2> QED  BY <2>4
<1> HIDE DEF L
<1>15. L \subseteq r.left
  BY DEF L
<1>16. Building(to, to.left) /\ Listed(to, to.left) /\ Noted(to)
  BY <1>3, <1>6, <1>7, <1>9, <1>15, Plain DEF Standing
<1>17. ~ Sole(to)
  BY <1>6 DEF Sole
<1>18. r.at + 1 \in to.left /\ r.steps[r.at + 1][1] \in Rows => FALSE
  BY <1>6, <1>12 DEF Heirs
<1> QED  BY <1>1, <1>2, <1>3, <1>5, <1>6, <1>11, <1>12, <1>15, <1>16, <1>17, <1>18, QuietStep DEF Standing

LEMMA DieStep ==
    ASSUME IInv, NEW p \in Procs, Die(p)
    PROVE  IInv'
<1>1. PICK r : r = proc[p]
  OBVIOUS
<1>2. /\ r \in Processes /\ Sound(r) /\ r # Idle
  BY <1>1 DEF IInv, Typed, Die
<1>3. Busy(p) /\ Running(r) /\ Noted(r)
  BY <1>1, <1>2 DEF Sound, Busy
<1>4. PICK to : to = [r EXCEPT !.left = {}]
  OBVIOUS
<1>5. /\ to \in Processes /\ to.command = r.command /\ to.steps = r.steps /\ to.left = {}
      /\ to.print = r.print /\ to.built = r.built /\ to.clean = r.clean /\ to.rows = r.rows
  BY <1>2, <1>4 DEF Processes
<1>6. proc' = [proc EXCEPT ![p] = Onward(to)]
  BY <1>5 DEF Die, Onward
<1>7. Building(to, to.left) /\ Listed(to, to.left) /\ Noted(to)
  BY <1>3, <1>5 DEF Building, Listed, ToList, Noted
<1>8. UNCHANGED <<file, stores>>
  BY DEF Die
<1> QED  BY <1>1, <1>3, <1>5, <1>6, <1>7, <1>8, QuietStep

LEMMA FingerprintStep ==
    ASSUME IInv, NEW p \in Procs, NEW step \in {"print", "ask"}, Fingerprint(p, step)
    PROVE  IInv'
<1>1. PICK r : r = proc[p]
  OBVIOUS
<1>2. At(p, step, None) /\ UNCHANGED <<file, stores>>
  BY DEF Fingerprint
<1>3. Typed /\ Busy(p) /\ Standing(r, step, None)
  BY <1>1, <1>2, AtIs
<1> DEFINE print == [u \in Ulids |-> Mtime(u)]
           built == [u \in Ulids |-> {}]
<1>4. PICK to : to = [r EXCEPT !.print = print, !.built = built]
  OBVIOUS
<1>5. proc' = [proc EXCEPT ![p] = Onward(to)]
  BY <1>1, <1>4 DEF Fingerprint, Became
<1>6. print \in Prints /\ built \in Builts
  BY <1>3, MtimeIs DEF Prints, Builts
<1>7. print # None
  BY <1>6, LibraryAssumption DEF Prints
<1>8. \A u \in Ulids : print[u] = Mtime(u) /\ built[u] = {}
  OBVIOUS
<1> HIDE DEF print, built
<1>9. /\ to \in Processes /\ to.command = r.command /\ to.steps = r.steps /\ to.left = r.left
      /\ to.held = r.held /\ to.print = print /\ to.built = built /\ to.listed = r.listed
      /\ to.clean = r.clean /\ to.rows = r.rows
  BY <1>3, <1>4, <1>6 DEF Processes, Standing
<1>10. step \notin {"look", "embed", "purge", "cache", "take"} \cup Lists \cup Rows
  BY TablesAre DEF Lists, StepNames
<1>11. Building(to, to.left) /\ Listed(to, to.left)
  BY <1>3, <1>7, <1>9, <1>10, BuildingOn, ListedOn DEF Standing
<1>12. Noted(to)
  <2>1. \A u \in Ulids : print[u] <= Mtime(u)
    BY <1>3, <1>8, MtimeIs
  <2> QED  BY <1>6, <1>8, <1>9, <2>1 DEF Noted
<1>13. ASSUME Sole(to) PROVE Synced(to, to.left)
  <2>1. Synced(r, Todo(r))
    BY <1>3, <1>9, <1>13 DEF Standing, Sole
  <2>2. \A k \in Todo(r) : k \in to.left \/ r.steps[k] = <<step, None>>
    BY <1>3, <1>9 DEF Todo, Standing
  <2>3. to.left \subseteq Todo(r)
    BY <1>9 DEF Todo
  <2> QED  BY <1>8, <1>9, <1>10, <2>1, <2>2, <2>3, SyncedOn
<1>14. ~ (r.at + 1 \in r.left /\ r.steps[r.at + 1][1] \in Heirs)
  BY <1>3, <1>10, LeadsAre DEF Standing, Readers
<1>15. \A k \in r.left : r.steps[k][1] \in Heirs => k - 1 \in r.left \cup {r.at}
  BY <1>3 DEF Standing
<1>16. r.at + 1 \in to.left /\ r.steps[r.at + 1][1] \in Rows => FALSE
  BY <1>9, <1>14 DEF Heirs
<1> QED  BY <1>1, <1>2, <1>3, <1>5, <1>9, <1>11, <1>12, <1>13, <1>14, <1>15, <1>16, QuietStep

LEMMA LoadCacheStep ==
    ASSUME IInv, NEW p \in Procs, LoadCache(p)
    PROVE  IInv'
<1>1. PICK r : r = proc[p]
  OBVIOUS
<1>2. At(p, "load", None) /\ UNCHANGED <<file, stores>>
  BY DEF LoadCache
<1>3. Typed /\ Busy(p) /\ Standing(r, "load", None)
  BY <1>1, <1>2, AtIs
<1>4. "load" \notin {"look", "print"} \cup Lists \cup Rows \cup SyncNames
  BY TablesAre, NamesAre DEF Lists, StepNames
<1>5. PICK L : L \in {{}, r.left} /\ proc' = [proc EXCEPT ![p] = Onward([r EXCEPT !.left = L])]
  <2>1. CASE proc' = [proc EXCEPT ![p] = Idle]
    <3>1. r \in Processes
      BY <1>3 DEF Standing
    <3>2. Onward([r EXCEPT !.left = {}]) = Idle
      BY <3>1 DEF Onward, Processes
    <3> QED  BY <2>1, <3>2
  <2>2. CASE Became(p, proc[p])
    <3>1. r \in Processes
      BY <1>3 DEF Standing
    <3>2. [r EXCEPT !.left = r.left] = r
      BY <3>1 DEF Processes
    <3> QED  BY <1>1, <2>2, <3>2 DEF Became
  <2> QED  BY <2>1, <2>2 DEF LoadCache
<1>6. PICK to : to = [r EXCEPT !.left = L]
  OBVIOUS
<1>7. /\ to \in Processes /\ to.command = r.command /\ to.steps = r.steps /\ to.left = L
      /\ to.print = r.print /\ to.built = r.built /\ to.listed = r.listed
      /\ to.clean = r.clean /\ to.rows = r.rows
  BY <1>3, <1>5, <1>6 DEF Processes, Standing
<1>8. Building(to, to.left) /\ Listed(to, to.left) /\ Noted(to)
  BY <1>3, <1>4, <1>5, <1>7, Plain DEF Standing
<1>9. ~ Sole(to)
  BY <1>3, <1>4, <1>7 DEF Standing, Sole
<1>10. ~ (r.at + 1 \in r.left /\ r.steps[r.at + 1][1] \in Heirs)
  <2>1. "load" \notin Readers \cup {"open", "enrich", "take", "save"}
    BY DEF Readers
  <2> QED  BY <1>3, <1>4, <2>1, LeadsAre DEF Standing
<1>11. \A k \in L : r.steps[k][1] \in Heirs => k - 1 \in L \cup {r.at}
  BY <1>3, <1>5 DEF Standing
<1>12. proc' = [proc EXCEPT ![p] = Onward(to)]
  BY <1>5, <1>6
<1> QED  BY <1>1, <1>2, <1>3, <1>5, <1>7, <1>8, <1>9, <1>10, <1>11, <1>12, QuietStep

LEMMA LookStep ==
    ASSUME IInv, NEW p \in Procs, NEW u \in Ulids, Look(p, u)
    PROVE  IInv'
<1>1. PICK r : r = proc[p]
  OBVIOUS
<1>2. At(p, "look", u) /\ UNCHANGED <<file, stores>>
  BY DEF Look
<1>3. Typed /\ Busy(p) /\ Standing(r, "look", u)
  BY <1>1, <1>2, AtIs
<1>4. r.print \in Prints /\ r.built \in Builts /\ r.print # None
  BY <1>3, LookHas DEF Standing, Looks, Noted
<1> DEFINE new == IF r.built[u] = {None} THEN r.built[u] ELSE r.built[u] \cup {TextOf(u)}
           built == [r.built EXCEPT ![u] = new]
<1>5. PICK to : to = [r EXCEPT !.built = built]
  OBVIOUS
<1>6. proc' = [proc EXCEPT ![p] = Onward(to)]
  <2>1. to = [r EXCEPT !.built[u] = IF @ = {None} THEN @ ELSE @ \cup {TextOf(u)}]
    BY <1>5
  <2> QED  BY <1>1, <2>1 DEF Look, Became
<1>7. /\ built \in Builts
      /\ \A v \in Ulids : v # u => built[v] = r.built[v]
      /\ built[u] = new
      /\ new # {}
      /\ new \in {r.built[u], r.built[u] \cup {TextOf(u)}}
  <2>1. r.built[u] \in SUBSET (Texts \cup {None}) /\ TextOf(u) \in Texts \cup {None}
    BY <1>3, <1>4, MtimeIs DEF Builts
  <2>2. new \in SUBSET (Texts \cup {None})
    BY <2>1
  <2>3. new # {}
    OBVIOUS
  <2> HIDE DEF new
  <2>4. built \in Builts /\ built[u] = new /\ \A v \in Ulids : v # u => built[v] = r.built[v]
    BY <1>4, <2>2 DEF Builts
  <2> QED  BY <2>3, <2>4 DEF new
<1> HIDE DEF new, built
<1>8. /\ to \in Processes /\ to.command = r.command /\ to.steps = r.steps /\ to.left = r.left
      /\ to.held = r.held /\ to.print = r.print /\ to.built = built /\ to.listed = r.listed
      /\ to.clean = r.clean /\ to.rows = r.rows
  BY <1>3, <1>5, <1>7 DEF Processes, Standing
<1>9. "look" \notin {"print", "embed", "purge", "cache", "take"} \cup Lists \cup Rows
  BY TablesAre DEF Lists, StepNames
<1>10. Building(to, to.left)
  <2>1. \A v \in Ulids : to.built[v] = {} => v # u /\ r.built[v] = {}
    BY <1>7, <1>8
  <2>2. Running(r) /\ r.steps[r.at] = <<"look", u>>
    BY <1>3 DEF Standing
  <2>3. to.steps = r.steps /\ to.left = r.left /\ to.print = r.print
    BY <1>8
  <2> QED  BY <2>1, <2>2, <2>3, BuildingLook
<1>11. Listed(to, to.left)
  BY <1>3, <1>8, <1>9, ListedOn DEF Standing
<1>12. Noted(to)
  BY <1>3, <1>4, <1>7, <1>8 DEF Noted, Standing
<1>13. ASSUME Sole(to) PROVE Synced(to, to.left)
  <2>1. Synced(r, Todo(r))
    BY <1>3, <1>8, <1>13 DEF Standing, Sole
  <2>2. \A v \in Ulids : r.print[v] = Mtime(v)
    BY <1>4, <2>1 DEF Synced
  <2>3. \A k \in Todo(r) : k \in to.left \/ r.steps[k] = <<"look", u>>
    BY <1>3, <1>8 DEF Todo, Standing
  <2>4. to.left \subseteq Todo(r)
    BY <1>8 DEF Todo
  <2> QED  BY <1>8, <1>9, <2>1, <2>2, <2>3, <2>4, SyncedOn
<1>14. ~ (r.at + 1 \in r.left /\ r.steps[r.at + 1][1] \in Heirs)
  BY <1>3, <1>9, LeadsAre DEF Standing, Readers
<1>15. \A k \in r.left : r.steps[k][1] \in Heirs => k - 1 \in r.left \cup {r.at}
  BY <1>3 DEF Standing
<1>16. r.at + 1 \in to.left /\ r.steps[r.at + 1][1] \in Rows => FALSE
  BY <1>8, <1>14 DEF Heirs
<1> QED  BY <1>1, <1>2, <1>3, <1>6, <1>8, <1>10, <1>11, <1>12, <1>13, <1>14, <1>15, <1>16, QuietStep

-----------------------------------------------------------------------------
(* The steps that write a file.                                            *)

\* A file that is written is younger than what was noted of it.
LEMMA WriteStep ==
    ASSUME IInv, NEW p \in Procs, NEW u \in Ulids, NEW name, NEW r, r = proc[p],
           Standing(r, name, u), Busy(p), name \in {"parse", "save", "open", "touch", "enrich"},
           NEW new \in Files, file' = [file EXCEPT ![u] = new], new.mtime = Mtime(u) + 1,
           NEW held \in Records \cup {r.held}, name = "save" => held \in Records,
           NEW to, to = [r EXCEPT !.held = held],
           proc' = [proc EXCEPT ![p] = Onward(to)],
           UNCHANGED stores
    PROVE  IInv'
<1>1. Typed /\ GraphNoted
  BY DEF IInv
<1>2. /\ to \in Processes /\ to.command = r.command /\ to.steps = r.steps /\ to.left = r.left
      /\ to.held = held /\ to.print = r.print /\ to.built = r.built /\ to.listed = r.listed
      /\ to.clean = r.clean /\ to.rows = r.rows
  <2>1. r \in Processes
    BY DEF Standing
  <2>2. held \in {None} \cup Records
    BY <2>1 DEF Processes
  <2> QED  BY <2>1, <2>2 DEF Processes
<1>3. /\ name \notin {"look", "print"} \cup Lists \cup SyncNames
      /\ Running(r) /\ Noted(r) /\ r.steps[r.at][1] = name /\ r \in Processes
  BY NamesAre DEF Lists, Standing
<1>4. Building(to, to.left) /\ Listed(to, to.left) /\ Noted(to)
  <2>1. /\ to.steps = r.steps /\ to.left \subseteq r.left /\ to.print = r.print
        /\ to.built = r.built /\ to.listed = r.listed
    BY <1>2
  <2>2. r.steps[r.at][1] \notin {"look", "print"} \cup Lists
    BY <1>3
  <2>3. \A k \in r.left :
           r.steps[k][1] \in {"print", "look", "cache", "embed", "purge"} \cup Lists => k \in to.left
    BY <1>2
  <2> QED  BY <1>3, <2>1, <2>2, <2>3, Plain
<1>5. ~ Sole(to)
  BY <1>2, <1>3 DEF Standing, Sole
<1>6. new # None
  BY LibraryAssumption DEF Files
<1>7. /\ file' \in [Ulids -> Files \cup {None}]
      /\ \A v \in Ulids : v # u => file'[v] = file[v]
      /\ file'[u] = new
  BY <1>1 DEF Typed
<1>8. /\ \A v \in Ulids : v # u => Mtime(v)' = Mtime(v)
      /\ Mtime(u)' = Mtime(u) + 1
  BY <1>6, <1>7 DEF Mtime
<1>9. \A v \in Ulids : Mtime(v) \in Nat
  BY <1>1, MtimeIs
<1>10. (\A v \in Ulids : Mtime(v)' \in Nat) /\ Younger
  BY <1>7, <1>8, <1>9 DEF Younger
<1>11. StoresTyped' /\ graph' = graph
  BY <1>1 DEF Typed, StoresTyped, stores
<1>12. GraphNoted'
  BY <1>1, <1>10, <1>11, GraphNotedOn
<1>13. Noted(to)'
  BY <1>1, <1>4, <1>10, NotedOn
<1>14. \A k \in r.left : r.steps[k][1] \in Heirs => k - 1 \in r.left \cup {r.at}
  BY DEF Standing
<1>15. r.at + 1 \in r.left /\ r.steps[r.at + 1][1] \in Heirs => held \in Records
  <2> SUFFICES ASSUME r.at + 1 \in r.left, r.steps[r.at + 1][1] \in Heirs
               PROVE  held \in Records
    OBVIOUS
  <2>1. /\ name \in Heirs => r.held \in Records
        /\ name \in Leads(r.steps[r.at + 1][1], SourcesOf(r.command))
    BY DEF Standing
  <2>2. "parse" \notin Readers \cup {"open", "enrich", "take", "save"} \cup Rows
    BY TablesAre DEF StepNames, Readers
  <2>3. name # "parse"
    BY <2>1, <2>2, LeadsAre
  <2>4. name \in Heirs \/ name = "save"
    BY <2>3 DEF Heirs
  <2> QED  BY <2>1, <2>4
<1>16. /\ to.left \subseteq r.left
       /\ \A k \in to.left : r.steps[k][1] \in Heirs => k - 1 \in to.left \cup {r.at}
       /\ r.at + 1 \in to.left /\ r.steps[r.at + 1][1] \in Heirs => to.held \in Records
  BY <1>2, <1>14, <1>15
<1> QED  BY <1>2, <1>4, <1>5, <1>7, <1>10, <1>11, <1>12, <1>13, <1>16, StepBy

LEMMA OpenStep ==
    ASSUME IInv, NEW p \in Procs, NEW u \in Ulids, Open(p, u)
    PROVE  IInv'
<1>1. PICK r : r = proc[p]
  OBVIOUS
<1>2. PICK name \in {"parse", "open"} : At(p, name, u)
  BY DEF Open
<1>3. Typed /\ Busy(p) /\ Standing(r, name, u)
  BY <1>1, <1>2, AtIs
<1>4. PICK new : new = [mtime |-> Mtime(u) + 1, text |-> Broken, meta |-> FALSE]
  OBVIOUS
<1>5. new \in Files /\ new.mtime = Mtime(u) + 1 /\ file' = [file EXCEPT ![u] = new]
  <2>1. Mtime(u) + 1 \in Nat \ {0}
    BY <1>3, MtimeIs
  <2> QED  BY <1>4, <2>1 DEF Open, Files
<1>6. PICK held : held = r.held
  OBVIOUS
<1>7. PICK to : to = [r EXCEPT !.held = held]
  OBVIOUS
<1>8. to = r
  BY <1>3, <1>6, <1>7 DEF Standing, Processes
<1>9. proc' = [proc EXCEPT ![p] = Onward(to)] /\ UNCHANGED stores
  BY <1>1, <1>8 DEF Open, Became
<1> QED  BY <1>1, <1>2, <1>3, <1>5, <1>6, <1>7, <1>9, WriteStep

\* Process p at step `name' writes what it holds, or has parsed.
LEMMA WrittenStep ==
    ASSUME IInv, NEW p \in Procs, NEW u \in Ulids, NEW name \in {"save", "touch", "enrich"},
           At(p, name, u), NEW t \in Texts, NEW m \in BOOLEAN, Written(p, u, t, m)
    PROVE  IInv'
<1>1. PICK r : r = proc[p]
  OBVIOUS
<1>2. Typed /\ Busy(p) /\ Standing(r, name, u)
  BY <1>1, AtIs
<1>3. PICK new : new = [mtime |-> Mtime(u) + 1, text |-> t, meta |-> m]
  OBVIOUS
<1>4. new \in Files /\ new \in Records /\ new.mtime = Mtime(u) + 1
  <2>1. Mtime(u) + 1 \in Nat \ {0}
    BY <1>2, MtimeIs
  <2> QED  BY <1>3, <2>1 DEF Files, Records
<1>5. PICK to : to = [r EXCEPT !.held = new]
  OBVIOUS
<1>6. /\ file' = [file EXCEPT ![u] = new]
      /\ proc' = [proc EXCEPT ![p] = Onward(to)]
      /\ UNCHANGED stores
  BY <1>1, <1>3, <1>5 DEF Written, Became
<1> QED  BY <1>1, <1>2, <1>4, <1>5, <1>6, WriteStep

LEMMA FileSteps ==
    ASSUME IInv, NEW p \in Procs, NEW u \in Ulids, SaveParsed(p, u) \/ Touch(p, u) \/ FillIn(p, u)
    PROVE  IInv'
<1>1. CASE SaveParsed(p, u)
  <2>1. At(p, "save", u) /\ \E t \in Texts : Written(p, u, t, FALSE)
    BY <1>1 DEF SaveParsed
  <2> QED  BY <2>1, WrittenStep
<1>2. ASSUME NEW name \in {"touch", "enrich"}, At(p, name, u)
      PROVE  proc[p].held.text \in Texts /\ proc[p].held.meta \in BOOLEAN
  <2>1. PICK r : r = proc[p]
    OBVIOUS
  <2>2. Standing(r, name, u)
    BY <1>2, <2>1, AtIs
  <2>3. r.held \in Records
    BY <2>2 DEF Standing, Heirs
  <2> QED  BY <2>1, <2>3 DEF Records
<1>3. CASE Touch(p, u)
  BY <1>2, <1>3, WrittenStep DEF Touch
<1>4. CASE FillIn(p, u)
  BY <1>2, <1>4, WrittenStep DEF FillIn
<1> QED  BY <1>1, <1>3, <1>4

-----------------------------------------------------------------------------
(* The steps that store what is derived from the files.                    *)

LEMMA SameFiles ==
    ASSUME IInv, file' = file, NEW to, Noted(to)
    PROVE  /\ Typed
           /\ file' \in [Ulids -> Files \cup {None}]
           /\ Younger
           /\ \A u \in Ulids : Mtime(u)' = Mtime(u) /\ TextOf(u)' = TextOf(u) /\ ContentOf(u)' = ContentOf(u)
           /\ graph' = graph => GraphNoted'
           /\ Noted(to)'
<1>1. Typed /\ GraphNoted
  BY DEF IInv
<1>2. file' \in [Ulids -> Files \cup {None}]
  BY <1>1 DEF Typed
<1>3. Younger
  BY DEF Younger
<1>4. \A u \in Ulids : Mtime(u)' = Mtime(u) /\ TextOf(u)' = TextOf(u) /\ ContentOf(u)' = ContentOf(u)
  BY SameFile
<1>5. graph' = graph => GraphNoted'
  BY <1>1, <1>4 DEF GraphNoted
<1>6. Noted(to)'
  BY <1>4 DEF Noted
<1> QED  BY <1>1, <1>2, <1>3, <1>4, <1>5, <1>6

LEMMA SyncedAfter ==
    ASSUME file' = file, NEW r, Synced(r, Todo(r)), NEW to, to.print = r.print,
           to.rows = r.rows,
           Compared(to, to.left),
           \A u \in Ulids :
              /\ Embedded(r, Todo(r), u) => Embedded(to, to.left, u)'
              /\ Stored(r, Todo(r), u) => Stored(to, to.left, u)',
           Drawn(r, Todo(r)) => Drawn(to, to.left)'
    PROVE  Synced(to, to.left)'
<1>1. \A u \in Ulids : Mtime(u)' = Mtime(u) /\ TextOf(u)' = TextOf(u) /\ ContentOf(u)' = ContentOf(u)
  BY SameFile
<1>2. PICK T : T = to.left
  OBVIOUS
<1>3. Compared(to, T)'
  <2>1. Compared(to, T)
    BY <1>2
  <2> QED  BY <1>1, <2>1 DEF Compared, ToList
<1>4. /\ r.print # None => \A u \in Ulids : r.print[u] = Mtime(u)
      /\ Drawn(r, Todo(r))
      /\ \A u \in Ulids : Embedded(r, Todo(r), u)
      /\ \A u \in Ulids : r.rows /\ TextOf(u) # None => Stored(r, Todo(r), u)
  BY DEF Synced
<1>5. \A u \in Ulids : /\ Embedded(to, T, u)'
                       /\ to.rows /\ TextOf(u)' # None => Stored(to, T, u)'
  BY <1>1, <1>2, <1>4
<1>6. Drawn(to, T)'
  BY <1>2, <1>4
<1>7. to.print # None => \A u \in Ulids : to.print[u] = Mtime(u)'
  BY <1>1, <1>4
<1>8. Synced(to, T)'
  BY <1>3, <1>5, <1>6, <1>7 DEF Synced
<1> QED  BY <1>2, <1>8

LEMMA PapersRow ==
    /\ "papers" \in Rows
    /\ \A t \in Rows, data \in Records : Columns(t, data) \in RowValues
<1>1. "papers" \in Rows
  <2>1. Len(Tables) \in Nat /\ Len(Tables) >= 1 /\ Tables[1] = "papers"
    BY LibraryAssumption DEF Tables
  <2>2. 1 \in DOMAIN Tables
    BY <2>1, TablesAre
  <2> QED  BY <2>1, <2>2, TablesAre
<1>2. \A t \in Rows, data \in Records : Columns(t, data) \in RowValues
  BY DEF Columns, Records, RowValues
<1> QED  BY <1>1, <1>2

LEMMA StoreStep ==
    ASSUME IInv, NEW p \in Procs, NEW u \in Ulids, NEW step, NEW t \in Rows,
           step = t \/ step = "upsert", Store(p, u, step, t)
    PROVE  IInv'
<1>1. PICK r : r = proc[p]
  OBVIOUS
<1>2. /\ At(p, step, u)
      /\ row' = [row EXCEPT ![u][t] = Columns(t, r.held)]
      /\ proc' = [proc EXCEPT ![p] = Onward(r)]
      /\ file' = file /\ vector' = vector /\ graph' = graph /\ seen' = seen
  BY <1>1 DEF Store, Became
<1>3. Typed /\ Busy(p) /\ Standing(r, step, u)
  BY <1>1, <1>2, AtIs
<1>4. r \in Processes /\ Running(r) /\ Noted(r) /\ r.steps[r.at] = <<step, u>> /\ r.held \in Records
  BY <1>3 DEF Standing, Heirs
<1>5. /\ Typed
      /\ file' \in [Ulids -> Files \cup {None}]
      /\ Younger
      /\ \A v \in Ulids : Mtime(v)' = Mtime(v) /\ TextOf(v)' = TextOf(v) /\ ContentOf(v)' = ContentOf(v)
      /\ graph' = graph => GraphNoted'
      /\ Noted(r)'
  BY <1>2, <1>4, SameFiles
<1> DEFINE new == Columns(t, r.held)
<1>6. new \in RowValues
  BY <1>4, PapersRow
<1> HIDE DEF new
<1>7. row \in [Ulids -> [Rows -> RowValues]] /\ row' = [row EXCEPT ![u][t] = new]
  BY <1>2, <1>5 DEF Typed, StoresTyped, new
<1>8. /\ row' \in [Ulids -> [Rows -> RowValues]]
      /\ row'[u][t] = new
      /\ \A v \in Ulids, s \in Rows : v # u \/ s # t => row'[v][s] = row[v][s]
  BY <1>6, <1>7
<1>9. StoresTyped'
  BY <1>2, <1>5, <1>8 DEF Typed, StoresTyped
<1>10. step \notin {"look", "print", "embed", "purge", "cache"} \cup Lists
  BY TablesAre DEF Lists, StepNames
<1>11. Building(r, r.left) /\ Listed(r, r.left) /\ Noted(r)
  BY <1>4, <1>10, Plain
<1>12. \A k \in Todo(r) : k \in r.left \/ r.steps[k] = <<step, u>>
  BY <1>4 DEF Todo
<1>13. ASSUME Sole(r) PROVE Synced(r, r.left)'
  <2>1. Synced(r, Todo(r)) /\ Holding(r) /\ step = t
    BY <1>3, <1>13, NamesAre DEF Standing
  <2>2. new = Columns(t, file[u])
    BY <1>4, <2>1 DEF Holding, new
  <2>3. Compared(r, r.left)
    <3>1. Compared(r, Todo(r)) /\ r.left \subseteq Todo(r)
      BY <2>1 DEF Synced, Todo
    <3>2. ToList(r, Todo(r)) => ToList(r, r.left)
      BY <1>10, <1>12 DEF ToList
    <3> QED  BY <3>1, <3>2 DEF Compared
  <2>4. ASSUME NEW v \in Ulids, Embedded(r, Todo(r), v) PROVE Embedded(r, r.left, v)'
    BY <1>2, <1>5, <1>10, <1>12, <2>4 DEF Embedded
  <2>5. ASSUME NEW v \in Ulids, Stored(r, Todo(r), v) PROVE Stored(r, r.left, v)'
    <3> SUFFICES ASSUME NEW s \in Rows
                 PROVE  row'[v][s] = Columns(s, file'[v]) \/ \E k \in r.left : r.steps[k] = <<s, v>>
      BY DEF Stored
    <3>1. row[v][s] = Columns(s, file[v]) \/ \E k \in Todo(r) : r.steps[k] = <<s, v>>
      BY <2>5 DEF Stored
    <3>2. CASE v = u /\ s = t
      BY <1>2, <1>8, <2>2, <3>2
    <3>3. CASE v # u \/ s # t
      BY <1>2, <1>8, <1>12, <2>1, <3>1, <3>3
    <3> QED  BY <3>2, <3>3
  <2>6. Drawn(r, Todo(r)) => Drawn(r, r.left)'
    BY <1>2, <1>5, <1>10, <1>12 DEF Drawn
  <2> QED  BY <1>2, <2>1, <2>3, <2>4, <2>5, <2>6, SyncedAfter
<1>14. ASSUME Sole(r), r.at + 1 \in r.left, r.steps[r.at + 1][1] \in Rows
       PROVE  r.held = file'[r.steps[r.at + 1][2]]
  <2>1. Holding(r) /\ step = t /\ r.steps[r.at + 1][2] = u
    BY <1>3, <1>14, NamesAre DEF Standing, Heirs
  <2> QED  BY <1>2, <1>4, <2>1 DEF Holding
<1>15. \A k \in r.left : r.steps[k][1] \in Heirs => k - 1 \in r.left \cup {r.at}
  BY <1>3 DEF Standing
<1> QED  BY <1>1, <1>2, <1>3, <1>4, <1>5, <1>9, <1>11, <1>13, <1>14, <1>15, StepBy

LEMMA ListStep ==
    ASSUME IInv, NEW p \in Procs, NEW step \in Lists, List(p, step)
    PROVE  IInv'
<1>1. PICK r : r = proc[p]
  OBVIOUS
<1> DEFINE old  == [u \in Ulids |-> IF step = "relist" THEN None ELSE vector[u]]
           gone == {u \in Ulids : ContentOf(u) = None /\ old[u] # None}
           listing == [content |-> [u \in Ulids |-> ContentOf(u)], gone |-> gone]
           Passed(s) == \/ s[1] = "embed" /\ ~ Stale(s[2], old)
                        \/ s[1] = "purge" /\ gone = {}
           L == {k \in r.left : ~ Passed(r.steps[k])}
<1>2. PICK to : to = [r EXCEPT !.left = L, !.held = None, !.listed = listing]
  OBVIOUS
<1>3. /\ At(p, step, None)
      /\ vector' = old
      /\ proc' = [proc EXCEPT ![p] = Onward(to)]
      /\ file' = file /\ row' = row /\ graph' = graph /\ seen' = seen
  BY <1>1, <1>2 DEF List, Became, Without
<1>4. Typed /\ Busy(p) /\ Standing(r, step, None)
  BY <1>1, <1>3, AtIs
<1>5. r \in Processes /\ Running(r) /\ Noted(r) /\ r.steps[r.at] = <<step, None>>
  BY <1>4 DEF Standing
<1>6. listing \in Listings
  BY <1>4, MtimeIs DEF Listings
<1>7. old \in [Ulids -> Contents]
  BY <1>4 DEF Typed, StoresTyped, Contents
<1>8. /\ listing.gone = gone
      /\ \A u \in Ulids : listing.content[u] = ContentOf(u) /\ (u \in gone => ContentOf(u) = None)
      /\ \A u \in Ulids : ContentOf(u) = None /\ old[u] # None => u \in gone
      /\ \A k \in r.left : r.steps[k][1] \notin {"embed", "purge"} => k \in L
      /\ \A k \in r.left, u \in Ulids : r.steps[k] = <<"embed", u>> /\ Stale(u, old) => k \in L
      /\ \A k \in r.left : r.steps[k][1] = "purge" /\ gone # {} => k \in L
      /\ L \subseteq r.left
  OBVIOUS
<1> HIDE DEF old, gone, listing, L
<1>22. listing \in {None} \cup Listings /\ L \in SUBSET Nat /\ None \in {None} \cup Records
  BY <1>5, <1>6, <1>8 DEF Processes
<1>9. /\ to \in Processes /\ to.command = r.command /\ to.steps = r.steps /\ to.left = L
      /\ to.print = r.print /\ to.built = r.built /\ to.listed = listing
      /\ to.clean = r.clean /\ to.rows = r.rows
  BY <1>2, <1>5, <1>22 DEF Processes
<1>10. step \notin {"look", "print", "embed", "purge", "cache"} \cup Rows
  BY TablesAre DEF Lists, StepNames
<1>11. Building(to, to.left)
  BY <1>5, <1>8, <1>9, <1>10, BuildingOn
<1>12. \A k \in r.left : k # r.at /\ k \in Todo(r) /\ k \in 1..Len(r.steps)
  <2>1. /\ Len(r.steps) \in Nat /\ r.at \in Nat
        /\ r.left \subseteq 1..Len(r.steps)
        /\ \A k \in r.left : k > r.at
    BY <1>5, RunningIs
  <2> QED  BY <2>1 DEF Todo
<1>13. ToList(r, Todo(r)) /\ ~ ToList(to, L)
  <2>1. Listed(r, Todo(r)) /\ r.at \in Todo(r) /\ r.steps[r.at][1] \in Lists
    BY <1>5, RunningIs DEF Todo
  <2>2. ASSUME NEW j \in L, r.steps[j][1] \in Lists PROVE FALSE
    BY <1>8, <1>12, <2>1, <2>2 DEF Listed
  <2> QED  BY <1>9, <2>1, <2>2 DEF ToList
<1>14. Listed(to, to.left)
  BY <1>6, <1>9, <1>13 DEF Listed, ToList
<1>15. Noted(to)
  BY <1>5, <1>9 DEF Noted
<1>16. /\ Typed
       /\ file' \in [Ulids -> Files \cup {None}]
       /\ Younger
       /\ \A u \in Ulids : Mtime(u)' = Mtime(u) /\ TextOf(u)' = TextOf(u) /\ ContentOf(u)' = ContentOf(u)
       /\ graph' = graph => GraphNoted'
       /\ Noted(to)'
  BY <1>3, <1>15, SameFiles
<1>17. StoresTyped'
  BY <1>3, <1>7, <1>16 DEF Typed, StoresTyped
<1>18. ASSUME NEW k \in L, r.steps[k][1] \in Heirs PROVE k - 1 \in L \cup {r.at}
  <2>1. /\ k - 1 \in r.left \cup {r.at}
        /\ r.steps[k - 1][1] \in Leads(r.steps[k][1], SourcesOf(r.command))
    BY <1>4, <1>8, <1>18 DEF Standing
  <2>2. {"embed", "purge"} \cap (Readers \cup {"open", "enrich", "take", "save"} \cup Rows) = {}
    BY TablesAre DEF StepNames, Readers
  <2>3. r.steps[k - 1][1] \notin {"embed", "purge"}
    BY <1>18, <2>1, <2>2, LeadsAre
  <2> QED  BY <1>8, <2>1, <2>3
<1>19. ~ (r.at + 1 \in r.left /\ r.steps[r.at + 1][1] \in Heirs)
  <2>1. step \notin Readers \cup {"open", "enrich", "take", "save"}
    BY DEF Readers, Lists
  <2> QED  BY <1>4, <1>10, <2>1, LeadsAre DEF Standing
<1>20. ASSUME Sole(to) PROVE Synced(to, to.left)'
  <2>1. Synced(r, Todo(r)) /\ r.command = "sync"
    BY <1>4, <1>9, <1>20 DEF Standing, Sole
  <2>2. Compared(to, to.left)
    BY <1>8, <1>9 DEF Compared
  <2>3. \A k \in Todo(r) : k \in r.left \/ r.steps[k] = <<step, None>>
    BY <1>5 DEF Todo
  <2>4. /\ \A u \in Ulids : \E k \in r.left : r.steps[k] = <<"embed", u>>
        /\ \E k \in r.left : r.steps[k] = <<"purge", None>>
    <3>1. r.command \in CommandNames /\ r.steps \in ProgramsOf(r.command) /\ Listed(r, Todo(r))
      BY <1>5, RunningIs
    <3>2. r.steps = SyncSteps
      BY <2>1, <3>1, ProgramIs
    <3>3. ASSUME NEW k \in 1..Len(r.steps), r.steps[k][1] \in {"embed", "purge"} PROVE k \in r.left
      <4>1. k \in Todo(r)
        BY <1>13, <3>1, <3>3 DEF Listed
      <4>2. r.steps[k] # <<step, None>>
        BY <1>10, <3>3
      <4> QED  BY <2>3, <4>1, <4>2
    <3>4. \A u \in Ulids : Has(r.steps, <<"embed", u>>)
      BY <3>2, SyncIs
    <3>5. Has(r.steps, <<"purge", None>>)
      BY <3>2, SyncIs
    <3>6. \E k \in r.left : r.steps[k] = <<"purge", None>>
      <4>1. PICK k \in 1..Len(r.steps) : r.steps[k] = <<"purge", None>>
        BY <3>5 DEF Has
      <4> QED  BY <3>3, <4>1
    <3>7. ASSUME NEW u \in Ulids PROVE \E k \in r.left : r.steps[k] = <<"embed", u>>
      <4>1. PICK k \in 1..Len(r.steps) : r.steps[k] = <<"embed", u>>
        BY <3>4 DEF Has
      <4> QED  BY <3>3, <4>1
    <3> QED  BY <3>6, <3>7
  <2>7. ASSUME NEW u \in Ulids PROVE Embedded(to, to.left, u)'
    <3>1. CASE Stale(u, old)
      <4>1. \E k \in L : r.steps[k] = <<"embed", u>>
        BY <1>8, <2>4, <3>1
      <4> QED  BY <1>9, <4>1 DEF Embedded
    <3>2. CASE ContentOf(u) = None /\ old[u] # None
      <4>1. u \in gone
        BY <1>8, <3>2
      <4>2. \E k \in L : r.steps[k] = <<"purge", None>>
        <5>1. PICK k \in r.left : r.steps[k] = <<"purge", None>>
          BY <2>4
        <5> QED  BY <1>8, <4>1, <5>1
      <4> QED  BY <1>8, <1>9, <4>1, <4>2 DEF Embedded
    <3>3. CASE ~ Stale(u, old) /\ ~ (ContentOf(u) = None /\ old[u] # None)
      <4>1. old[u] = ContentOf(u)
        BY <3>3 DEF Stale
      <4> QED  BY <1>3, <1>16, <4>1 DEF Embedded
    <3> QED  BY <3>1, <3>2, <3>3
  <2>5. ASSUME NEW u \in Ulids, Stored(r, Todo(r), u) PROVE Stored(to, to.left, u)'
    <3> SUFFICES ASSUME NEW t \in Rows
                 PROVE  row'[u][t] = Columns(t, file'[u]) \/ \E k \in to.left : to.steps[k] = <<t, u>>
      BY DEF Stored
    <3>1. row[u][t] = Columns(t, file[u]) \/ \E k \in Todo(r) : r.steps[k] = <<t, u>>
      BY <2>5 DEF Stored
    <3>2. t \notin {"embed", "purge"} \cup {step}
      BY <1>10, TablesAre DEF StepNames
    <3>3. \A k \in Todo(r) : r.steps[k] = <<t, u>> => k \in L
      BY <1>8, <2>3, <3>2
    <3> QED  BY <1>3, <1>9, <3>1, <3>3
  <2>6. Drawn(r, Todo(r)) => Drawn(to, to.left)'
    BY <1>3, <1>8, <1>9, <1>10, <1>16, <2>3 DEF Drawn
  <2> QED  BY <1>3, <1>9, <2>1, <2>2, <2>5, <2>6, <2>7, SyncedAfter
<1>21. /\ to.left \subseteq r.left
       /\ \A k \in to.left : r.steps[k][1] \in Heirs => k - 1 \in to.left \cup {r.at}
       /\ ~ (r.at + 1 \in to.left /\ r.steps[r.at + 1][1] \in Heirs)
       /\ ~ (r.at + 1 \in to.left /\ r.steps[r.at + 1][1] \in Rows)
  BY <1>8, <1>9, <1>18, <1>19 DEF Heirs
<1> QED  BY <1>1, <1>3, <1>4, <1>9, <1>11, <1>14, <1>16, <1>17, <1>20, <1>21, StepBy

\* A step that stores something without passing over others: the process loses only
\* the place it is at, and what is stored makes up for it, or it is spoilt.
LEMMA PutStep ==
    ASSUME IInv, NEW p \in Procs, NEW name, NEW u, At(p, name, u), NEW r, r = proc[p],
           name \in {"embed", "purge", "cache", "seen"},
           NEW to \in {r, Spoilt(r)},
           proc' = [proc EXCEPT ![p] = Onward(to)],
           file' = file, row' = row, StoresTyped', GraphNoted',
           to = r /\ Sole(r) =>
              /\ \A v \in Ulids : Embedded(r, Todo(r), v) => Embedded(r, r.left, v)'
              /\ Drawn(r, Todo(r)) => Drawn(r, r.left)'
    PROVE  IInv'
<1>1. Typed /\ Busy(p) /\ Standing(r, name, u)
  BY AtIs
<1>2. r \in Processes /\ Running(r) /\ Noted(r) /\ r.steps[r.at] = <<name, u>>
  BY <1>1 DEF Standing
<1>3. /\ to \in Processes
      /\ to.command = r.command /\ to.steps = r.steps /\ to.left = r.left
      /\ to.held = r.held /\ to.print = r.print /\ to.built = r.built /\ to.listed = r.listed
  BY <1>2, SpoiltIs
<1>11. \/ to.clean = r.clean /\ to.rows = r.rows
       \/ ~ to.clean /\ ~ to.rows
  BY <1>2, SpoiltIs
<1>4. name \notin {"look", "print"} \cup Lists \cup Rows
  BY TablesAre DEF Lists, StepNames
<1>5. Building(to, to.left) /\ Listed(to, to.left) /\ Noted(to)
  BY <1>2, <1>3, <1>4, Plain
<1>6. /\ Typed
      /\ file' \in [Ulids -> Files \cup {None}]
      /\ Younger
      /\ \A v \in Ulids : Mtime(v)' = Mtime(v) /\ TextOf(v)' = TextOf(v) /\ ContentOf(v)' = ContentOf(v)
      /\ graph' = graph => GraphNoted'
      /\ Noted(to)'
  BY <1>5, SameFiles
<1>7. ~ (r.at + 1 \in r.left /\ r.steps[r.at + 1][1] \in Heirs)
  <2>1. name \notin Readers \cup {"open", "enrich", "take", "save"}
    BY DEF Readers
  <2> QED  BY <1>1, <1>4, <2>1, LeadsAre DEF Standing
<1>8. \A k \in Todo(r) : k \in r.left \/ r.steps[k] = <<name, u>>
  BY <1>2 DEF Todo
<1>9. ASSUME Sole(to) PROVE Synced(to, to.left)'
  <2>0. to = r
    BY <1>2, <1>9, SpoiltIs DEF Sole
  <2>1. Sole(r) /\ Synced(r, Todo(r))
    BY <1>1, <1>9, <2>0 DEF Standing
  <2>2. Compared(r, r.left)
    <3>1. Compared(r, Todo(r)) /\ r.left \subseteq Todo(r)
      BY <2>1 DEF Synced, Todo
    <3>2. ToList(r, Todo(r)) => ToList(r, r.left)
      BY <1>4, <1>8 DEF ToList
    <3> QED  BY <3>1, <3>2 DEF Compared
  <2>3. ASSUME NEW v \in Ulids, Stored(r, Todo(r), v) PROVE Stored(r, r.left, v)'
    <3> SUFFICES ASSUME NEW t \in Rows
                 PROVE  row'[v][t] = Columns(t, file'[v]) \/ \E k \in r.left : r.steps[k] = <<t, v>>
      BY DEF Stored
    <3>1. row[v][t] = Columns(t, file[v]) \/ \E k \in Todo(r) : r.steps[k] = <<t, v>>
      BY <2>3 DEF Stored
    <3> QED  BY <1>4, <1>8, <3>1
  <2>4. Synced(r, r.left)'
    BY <2>0, <2>1, <2>2, <2>3, SyncedAfter
  <2> QED  BY <2>0, <2>4
<1>10. /\ \A k \in to.left : r.steps[k][1] \in Heirs => k - 1 \in to.left \cup {r.at}
       /\ ~ (r.at + 1 \in to.left /\ r.steps[r.at + 1][1] \in Heirs)
       /\ ~ (r.at + 1 \in to.left /\ r.steps[r.at + 1][1] \in Rows)
  <2>1. \A k \in r.left : r.steps[k][1] \in Heirs => k - 1 \in r.left \cup {r.at}
    BY <1>1 DEF Standing
  <2> QED  BY <1>3, <1>7, <2>1 DEF Heirs
<1> QED  BY <1>1, <1>3, <1>5, <1>6, <1>9, <1>10, <1>11, StepBy

LEMMA EmbedStep ==
    ASSUME IInv, NEW p \in Procs, NEW u \in Ulids, Embed(p, u)
    PROVE  IInv'
<1>1. PICK r : r = proc[p]
  OBVIOUS
<1>2. PICK to \in {r, Spoilt(r)} :
         /\ proc' = [proc EXCEPT ![p] = Onward(to)]
         /\ \/ vector' = [vector EXCEPT ![u] = r.listed.content[u]] /\ to = r
            \/ vector' = vector /\ to = Spoilt(r)
  BY <1>1 DEF Embed, Became
<1>3. At(p, "embed", u) /\ file' = file /\ row' = row /\ graph' = graph /\ seen' = seen
  BY DEF Embed
<1>4. Typed /\ Busy(p) /\ Standing(r, "embed", u)
  BY <1>1, <1>3, AtIs
<1>5. r \in Processes /\ Running(r) /\ Noted(r) /\ r.steps[r.at] = <<"embed", u>>
  BY <1>4 DEF Standing
<1>6. r.listed \in Listings /\ ~ ToList(r, Todo(r)) /\ r.at \in Todo(r)
  BY <1>5, ListingHas DEF Todo
<1>9. vector \in [Ulids -> Contents] /\ r.listed.content[u] \in Contents
  BY <1>4, <1>6 DEF Typed, StoresTyped, Listings
<1>10. vector' \in [Ulids -> Contents] /\ \A v \in Ulids : v # u => vector'[v] = vector[v]
  BY <1>2, <1>9
<1>11. StoresTyped' /\ GraphNoted'
  <2>1. StoresTyped'
    BY <1>3, <1>4, <1>10 DEF Typed, StoresTyped
  <2> QED  BY <1>3, <1>5, <2>1, SameFiles
<1>12. \A v \in Ulids : TextOf(v)' = TextOf(v) /\ ContentOf(v)' = ContentOf(v)
  BY <1>3, SameFile
<1>13. \A k \in Todo(r) : k \in r.left \/ r.steps[k] = <<"embed", u>>
  BY <1>5 DEF Todo
<1>14. ASSUME to = r, Sole(r), NEW v \in Ulids, Embedded(r, Todo(r), v)
       PROVE  Embedded(r, r.left, v)'
  <2>0. r # Spoilt(r)
    BY <1>5, <1>14, SpoiltIs DEF Sole
  <2>1. CASE v = u
    <3>1. vector' = [vector EXCEPT ![u] = r.listed.content[u]]
      BY <1>2, <1>14, <2>0
    <3>2. vector'[u] = r.listed.content[u]
      BY <1>9, <3>1
    <3>3. Compared(r, Todo(r))
      BY <1>4, <1>14 DEF Standing, Synced
    <3>4. r.listed.content[u] = ContentOf(u)
      BY <1>5, <1>6, <3>3 DEF Compared
    <3> QED  BY <1>12, <2>1, <3>2, <3>4 DEF Embedded
  <2>2. CASE v # u
    BY <1>10, <1>12, <1>13, <1>14, <2>2 DEF Embedded
  <2> QED  BY <2>1, <2>2
<1>15. Drawn(r, Todo(r)) => Drawn(r, r.left)'
  BY <1>3, <1>12, <1>13 DEF Drawn
<1> QED  BY <1>1, <1>2, <1>3, <1>11, <1>14, <1>15, PutStep

LEMMA PurgeStep ==
    ASSUME IInv, NEW p \in Procs, Purge(p)
    PROVE  IInv'
<1>1. PICK r : r = proc[p]
  OBVIOUS
<1>2. /\ At(p, "purge", None) /\ file' = file /\ row' = row /\ graph' = graph /\ seen' = seen
      /\ proc' = [proc EXCEPT ![p] = Onward(r)]
      /\ vector' = [u \in Ulids |-> IF u \in r.listed.gone THEN None ELSE vector[u]]
  BY <1>1 DEF Purge, Became
<1>3. Typed /\ Busy(p) /\ Standing(r, "purge", None)
  BY <1>1, <1>2, AtIs
<1>4. r \in Processes /\ Running(r) /\ Noted(r) /\ r.steps[r.at] = <<"purge", None>>
  BY <1>3 DEF Standing
<1>5. ~ ToList(r, Todo(r)) /\ r.at \in Todo(r)
  BY <1>4, ListingHas DEF Todo
<1>6. StoresTyped' /\ GraphNoted'
  <2>1. vector' \in [Ulids -> Contents]
    BY <1>2, <1>3 DEF Typed, StoresTyped, Contents
  <2>2. StoresTyped'
    BY <1>2, <1>3, <2>1 DEF Typed, StoresTyped
  <2> QED  BY <1>2, <1>4, <2>2, SameFiles
<1>7. \A v \in Ulids : TextOf(v)' = TextOf(v) /\ ContentOf(v)' = ContentOf(v)
  BY <1>2, SameFile
<1>8. \A k \in Todo(r) : k \in r.left \/ r.steps[k] = <<"purge", None>>
  BY <1>4 DEF Todo
<1>9. ASSUME Sole(r), NEW v \in Ulids, Embedded(r, Todo(r), v)
      PROVE  Embedded(r, r.left, v)'
  <2>1. Compared(r, Todo(r))
    BY <1>3, <1>9 DEF Standing, Synced
  <2>2. CASE v \in r.listed.gone
    <3>1. ContentOf(v) = None
      BY <1>4, <1>5, <2>1, <2>2 DEF Compared
    <3> QED  BY <1>2, <1>7, <2>2, <3>1 DEF Embedded
  <2>3. CASE v \notin r.listed.gone
    <3>1. vector'[v] = vector[v]
      BY <1>2, <2>3
    <3> QED  BY <1>7, <1>8, <1>9, <2>3, <3>1 DEF Embedded
  <2> QED  BY <2>2, <2>3
<1>10. Drawn(r, Todo(r)) => Drawn(r, r.left)'
  BY <1>2, <1>7, <1>8 DEF Drawn
<1> QED  BY <1>1, <1>2, <1>6, <1>9, <1>10, PutStep

LEMMA WriteCacheStep ==
    ASSUME IInv, NEW p \in Procs, WriteCache(p)
    PROVE  IInv'
<1>1. PICK r : r = proc[p]
  OBVIOUS
<1>2. /\ At(p, "cache", None) /\ file' = file /\ row' = row /\ vector' = vector /\ seen' = seen
      /\ \/ /\ proc' = [proc EXCEPT ![p] = Onward(r)]
            /\ graph' = [print |-> r.print, of |-> r.built]
         \/ /\ proc' = [proc EXCEPT ![p] = Onward(Spoilt(r))]
            /\ graph' \in {graph, None}
  BY <1>1 DEF WriteCache, Became, Cached
<1>3. Typed /\ Busy(p) /\ Standing(r, "cache", None)
  BY <1>1, <1>2, AtIs
<1>4. r \in Processes /\ Running(r) /\ Noted(r) /\ r.steps[r.at] = <<"cache", None>>
  BY <1>3 DEF Standing
<1>5. r.print # None /\ \A u \in Ulids : r.built[u] # {}
  BY <1>4, LookHas DEF Looks
<1>6. /\ r.print \in Prints /\ r.built \in Builts
      /\ \A u \in Ulids : /\ r.print[u] <= Mtime(u)
                          /\ r.print[u] = Mtime(u) => r.built[u] = {TextOf(u)}
  <2>1. /\ r.print \in Prints /\ r.built \in Builts
        /\ \A u \in Ulids : /\ r.print[u] <= Mtime(u)
                            /\ r.print[u] = Mtime(u) => r.built[u] \subseteq {TextOf(u)}
    BY <1>4, <1>5 DEF Noted
  <2> QED  BY <1>5, <2>1
<1>7. \A v \in Ulids : Mtime(v)' = Mtime(v) /\ TextOf(v)' = TextOf(v) /\ ContentOf(v)' = ContentOf(v)
  BY <1>2, SameFile
<1>8. CASE proc' = [proc EXCEPT ![p] = Onward(Spoilt(r))] /\ graph' \in {graph, None}
  <2>1. StoresTyped'
    BY <1>2, <1>3, <1>8 DEF Typed, StoresTyped
  <2>2. GraphNoted'
    <3>1. CASE graph' = None
      BY <3>1 DEF GraphNoted
    <3>2. CASE graph' = graph
      BY <1>2, <1>4, <3>2, SameFiles
    <3> QED  BY <1>8, <3>1, <3>2
  <2>3. Sole(r) => Spoilt(r) # r
    BY <1>4, SpoiltIs DEF Sole
  <2> QED  BY <1>1, <1>2, <1>8, <2>1, <2>2, <2>3, PutStep
<1>9. CASE proc' = [proc EXCEPT ![p] = Onward(r)] /\ graph' = [print |-> r.print, of |-> r.built]
  <2>0. graph'.print = r.print /\ graph'.of = r.built /\ graph' \in Caches
    BY <1>6, <1>9 DEF Caches
  <2>1. StoresTyped'
    BY <1>2, <1>3, <2>0 DEF Typed, StoresTyped
  <2>2. GraphNoted'
    BY <1>6, <1>7, <2>0 DEF GraphNoted
  <2>3. ASSUME Sole(r) PROVE Drawn(r, r.left)'
    <3>1. \A u \in Ulids : r.print[u] = Mtime(u)
      BY <1>3, <1>5, <2>3 DEF Standing, Synced
    <3>2. graph' # None
      BY <2>0, LibraryAssumption DEF Caches, Prints, Builts
    <3> QED  BY <1>6, <1>7, <2>0, <3>1, <3>2 DEF Drawn
  <2>4. ASSUME NEW v \in Ulids, Embedded(r, Todo(r), v) PROVE Embedded(r, r.left, v)'
    BY <1>2, <1>4, <1>7, <2>4 DEF Embedded, Todo
  <2> QED  BY <1>1, <1>2, <1>9, <2>1, <2>2, <2>3, <2>4, PutStep
<1> QED  BY <1>2, <1>8, <1>9

LEMMA SaveStateStep ==
    ASSUME IInv, NEW p \in Procs, SaveState(p)
    PROVE  IInv'
<1>1. PICK r : r = proc[p]
  OBVIOUS
<1>2. /\ At(p, "seen", None) /\ file' = file /\ row' = row /\ vector' = vector /\ graph' = graph
      /\ proc' = [proc EXCEPT ![p] = Onward(r)]
      /\ seen' = [u \in Ulids |-> IF file[u] = None THEN seen[u] ELSE Mtime(u)]
  BY <1>1 DEF SaveState, Became
<1>3. Typed /\ Busy(p) /\ Standing(r, "seen", None)
  BY <1>1, <1>2, AtIs
<1>4. r \in Processes /\ Running(r) /\ Noted(r) /\ r.steps[r.at] = <<"seen", None>>
  BY <1>3 DEF Standing
<1>5. StoresTyped' /\ GraphNoted'
  <2>1. seen' \in [Ulids -> Nat]
    <3>1. \A u \in Ulids : Mtime(u) \in Nat /\ seen[u] \in Nat
      BY <1>3, MtimeIs DEF Typed, StoresTyped
    <3> QED  BY <1>2, <3>1
  <2>2. StoresTyped'
    BY <1>2, <1>3, <2>1 DEF Typed, StoresTyped
  <2> QED  BY <1>2, <1>4, <2>2, SameFiles
<1>6. \A v \in Ulids : TextOf(v)' = TextOf(v) /\ ContentOf(v)' = ContentOf(v)
  BY <1>2, SameFile
<1>7. ASSUME NEW v \in Ulids, Embedded(r, Todo(r), v) PROVE Embedded(r, r.left, v)'
  BY <1>2, <1>4, <1>6, <1>7 DEF Embedded, Todo
<1>8. Drawn(r, Todo(r)) => Drawn(r, r.left)'
  BY <1>2, <1>4, <1>6 DEF Drawn, Todo
<1> QED  BY <1>1, <1>2, <1>5, <1>7, <1>8, PutStep

-----------------------------------------------------------------------------
(* The start of a command.                                                 *)

LEMMA RunningSame ==
    ASSUME NEW r, NEW n, Running(r), n.command = r.command, n.steps = r.steps, n.at = r.at,
           n.left = r.left, n.held = r.held, n.listed = r.listed, n.print = r.print,
           n.built = r.built
    PROVE  Running(n)
<1>1. Todo(n) = Todo(r)
  BY DEF Todo
<1>2. Follows(n)
  BY <1>1, RunningIs DEF Follows
<1>3. Building(n, Todo(n))
  BY <1>1, RunningIs, BuildingSame
<1>4. Listed(n, Todo(n))
  <2>1. Listed(r, Todo(r))
    BY RunningIs
  <2> QED  BY <1>1, <2>1 DEF Listed, ToList
<1> QED  BY <1>2, <1>3, <1>4 DEF Running

\* What the steps a command is started for have to satisfy.
Startable(steps, A) ==
    /\ \A k \in A : steps[k][1] \in Heirs => k - 1 \in A
    /\ \A k \in A, b \in 1..Len(steps) :
          (steps[k][1] \in Looks /\ Begun(steps, b, k)) => \A j \in b .. k - 1 : j \in A
    /\ (\E j \in A : steps[j][1] \in Lists) =>
          \A k \in 1..Len(steps) : steps[k][1] \in {"embed", "purge"} => k \in A
    /\ (\E j \in A : steps[j][1] \in {"embed", "purge"}) => \E j \in A : steps[j][1] \in Lists
    /\ \A i, j \in A : steps[i][1] \in Lists /\ steps[j][1] \in Lists => i = j

\* What those of a sync have to do.
Refreshing(steps, A, rows) ==
    /\ \E j \in A : steps[j][1] \in Lists
    /\ \A u \in Ulids : \E k \in A : steps[k] = <<"embed", u>>
    /\ \E k \in A : steps[k] = <<"cache", None>>
    /\ rows => \A u \in Ulids, t \in Rows : TextOf(u) # None => \E k \in A : steps[k] = <<t, u>>

\* The process that is then at the first of them.
Fresh(command, steps, A, rows, clean) ==
    Onward([Idle EXCEPT !.command = command, !.steps = steps, !.left = A, !.rows = rows,
                        !.clean = clean])
Begins(n) ==
    /\ n \in Processes
    /\ n.at # 0
    /\ Running(n) /\ Noted(n)
    /\ n.rows => n.clean
    /\ Sole(n) => Synced(n, Todo(n)) /\ Holding(n)

LEMMA NewProcess ==
    ASSUME NEW command \in CommandNames, NEW steps \in ProgramsOf(command),
           NEW A \in SUBSET (1..Len(steps)), A # {}, NEW rows \in BOOLEAN, NEW clean \in BOOLEAN,
           Startable(steps, A), rows => clean, clean => Refreshing(steps, A, rows),
           NEW n, n = Fresh(command, steps, A, rows, clean)
    PROVE  Begins(n) /\ (n.clean <=> clean)
<1>1. steps \in Seq(AllNames \X Owners) /\ Len(steps) \in Nat
  BY ProgramIs
<1>2. PICK to : to = [Idle EXCEPT !.command = command, !.steps = steps, !.left = A, !.rows = rows,
                                  !.clean = clean]
  OBVIOUS
<1>3. A \in SUBSET Nat
  BY <1>1
<1>4. /\ to \in Processes /\ to.command = command /\ to.steps = steps /\ to.left = A
      /\ to.held = None /\ to.listed = None /\ to.print = None /\ to.built = None
      /\ to.rows = rows /\ to.clean = clean
  BY <1>1, <1>2, <1>3 DEF Processes, Idle
<1>5. PICK i \in A : /\ \A y \in A : i <= y
                     /\ Onward(to) = [to EXCEPT !.at = i, !.left = @ \ {i}]
  BY <1>4, OnwardIs
<1> DEFINE L == A \ {i}
<1>6. n = Onward(to)
  BY <1>2 DEF Fresh
<1>7. L \in SUBSET Nat /\ i \in Nat
  BY <1>3
<1>8. /\ n \in Processes /\ n.command = command /\ n.steps = steps /\ n.left = L /\ n.at = i
      /\ n.held = None /\ n.listed = None /\ n.print = None /\ n.built = None
      /\ n.rows = rows /\ n.clean = clean
  <2>1. Onward(to) = [to EXCEPT !.at = i, !.left = L]
    BY <1>4, <1>5
  <2> HIDE DEF L
  <2> QED  BY <1>4, <1>6, <1>7, <2>1 DEF Processes
<1>9. Todo(n) = A /\ i \in 1..Len(steps) /\ i # 0 /\ L \subseteq A
  BY <1>1, <1>8 DEF Todo
<1>10. \A k \in L : k > i
  BY <1>3, <1>5, <1>7
<1> HIDE DEF L
<1>11. steps[i][1] \notin Heirs
  <2>1. steps[i][1] \in Heirs => i - 1 \in A
    BY DEF Startable
  <2> QED  BY <1>5, <1>7, <2>1
<1>12. Follows(n)
  BY <1>8, <1>9, <1>11 DEF Follows, Startable
<1>13. Building(n, A)
  <2> SUFFICES ASSUME NEW k \in A, NEW b \in 1..Len(steps), steps[k][1] \in Looks, Begun(steps, b, k)
               PROVE  Built(n, A, b, k)
    BY <1>8 DEF Building
  <2>1. \A j \in b .. k - 1 : j \in A
    BY DEF Startable
  <2>2. b < k /\ b \in Nat /\ k \in Nat
    BY <1>1, <1>3 DEF Begun
  <2>3. b \in A
    BY <2>1, <2>2
  <2>4. ~ \A j \in A : j > b
    BY <2>2, <2>3
  <2> QED  BY <2>1, <2>4 DEF Built
<1>14. Listed(n, A)
  BY <1>8 DEF Listed, ToList, Startable
<1>15. Running(n)
  BY <1>8, <1>9, <1>10, <1>12, <1>13, <1>14 DEF Running
<1>16. Noted(n)
  BY <1>8 DEF Noted
<1>17. ASSUME Sole(n) PROVE Synced(n, A) /\ Holding(n)
  <2>1. Refreshing(steps, A, rows)
    BY <1>8, <1>17 DEF Sole
  <2>2. Compared(n, A)
    BY <1>8, <2>1 DEF Compared, ToList, Refreshing
  <2>3. \A u \in Ulids : Embedded(n, A, u)
    BY <1>8, <2>1 DEF Embedded, Refreshing
  <2>4. \A u \in Ulids : TextOf(u) # None /\ rows => Stored(n, A, u)
    BY <1>8, <2>1 DEF Stored, Refreshing
  <2>5. Drawn(n, A)
    BY <1>8, <2>1 DEF Drawn, Refreshing
  <2>6. Synced(n, A)
    BY <1>8, <2>2, <2>3, <2>4, <2>5 DEF Synced
  <2>7. Holding(n)
    BY <1>8, <1>11 DEF Holding, Heirs
  <2> QED  BY <2>6, <2>7
<1>18. n \in Processes /\ n.at # 0 /\ (n.rows => n.clean) /\ (n.clean <=> clean)
  BY <1>8, <1>9
<1> QED  BY <1>8, <1>9, <1>15, <1>16, <1>17, <1>18 DEF Begins

\* Process p becomes `started' while the others go on.
Joins(p, started) ==
    proc' = [q \in Procs |-> IF q = p THEN started ELSE Spoilt(proc[q])]

LEMMA RunStep ==
    ASSUME IInv, NEW p \in Procs, NEW n, Begins(n), n.clean => \A q \in Procs : proc[q] = Idle,
           proc[p] = Idle, UNCHANGED <<file, stores>>, Joins(p, n)
    PROVE  IInv'
<1>2. /\ n \in Processes /\ n.at # 0
      /\ Running(n) /\ Noted(n)
      /\ n.rows => n.clean
      /\ Sole(n) => Synced(n, Todo(n)) /\ Holding(n)
  BY DEF Begins
<1>3. /\ Typed /\ GraphNoted
      /\ proc \in [Procs -> Processes]
      /\ \A q \in Procs, x \in Processes : x = proc[q] => Sound(x)
      /\ \A q, x \in Procs : Busy(q) /\ proc[q].clean /\ x # q => proc[x] = Idle
  BY DEF IInv, Typed
<1>4. proc'[p] = n /\ \A q \in Procs \ {p} : proc'[q] = Spoilt(proc[q])
  BY DEF Joins
<1>6. proc' \in [Procs -> Processes]
  <2>1. \A q \in Procs : proc'[q] \in Processes
    <3> SUFFICES ASSUME NEW q \in Procs PROVE proc'[q] \in Processes
      OBVIOUS
    <3>1. proc[q] \in Processes
      BY <1>3
    <3>2. Spoilt(proc[q]) \in Processes
      BY <3>1, SpoiltIs
    <3> QED  BY <1>2, <1>4, <3>2
  <2>2. proc' = [q \in Procs |-> proc'[q]]
    BY DEF Joins
  <2> QED  BY <2>1, <2>2
<1>7. file' = file /\ row' = row /\ vector' = vector /\ graph' = graph /\ seen' = seen
  BY DEF stores
<1>8. Typed' /\ GraphNoted'
  <2>1. Noted(n) => GraphNoted'
    BY <1>7, SameFiles
  <2> QED  BY <1>2, <1>3, <1>6, <1>7, <2>1 DEF Typed, StoresTyped
<1>9. ASSUME NEW q \in Procs, NEW x \in Processes, x = proc'[q] PROVE Sound(x)'
  <2>1. CASE q = p
    <3>1. x = n
      BY <1>4, <1>9, <2>1
    <3>2. Noted(n)'
      BY <1>2, <1>7, SameFiles
    <3>3. ASSUME Sole(n) PROVE Synced(n, Todo(n))' /\ Holding(n)'
      <4>1. \A u \in Ulids : Mtime(u)' = Mtime(u) /\ TextOf(u)' = TextOf(u) /\ ContentOf(u)' = ContentOf(u) /\ file'[u] = file[u]
        BY <1>7, SameFile
      <4>2. PICK T : T = Todo(n)
        OBVIOUS
      <4>3. Synced(n, T) /\ Holding(n)
        BY <1>2, <3>3, <4>2
      <4>4. Compared(n, T)' <=> Compared(n, T)
        BY <4>1 DEF Compared, ToList
      <4>5. Drawn(n, T)' <=> Drawn(n, T)
        BY <1>7, <4>1 DEF Drawn
      <4>6. \A u \in Ulids : /\ Embedded(n, T, u)' <=> Embedded(n, T, u)
                             /\ Stored(n, T, u)' <=> Stored(n, T, u)
        BY <1>7, <4>1 DEF Embedded, Stored
      <4>7. Synced(n, T)'
        BY <4>1, <4>3, <4>4, <4>5, <4>6 DEF Synced
      <4>8. Holding(n)'
        BY <1>7, <4>3 DEF Holding
      <4> QED  BY <4>2, <4>7, <4>8
    <3> QED  BY <1>2, <3>1, <3>2, <3>3 DEF Sound
  <2>2. CASE q # p /\ proc[q] = Idle
    BY <1>4, <1>9, <2>2, IdleIs DEF Sound
  <2>3. CASE q # p /\ proc[q] # Idle
    <3>1. PICK r \in Processes : r = proc[q]
      BY <1>3
    <3>2. Sound(r) /\ r # Idle
      BY <1>3, <2>3, <3>1
    <3>3. r.at # 0 /\ Running(r) /\ Noted(r)
      BY <3>2 DEF Sound
    <3>4. x = Spoilt(r)
      BY <1>4, <1>9, <2>3, <3>1
    <3>5. /\ x.command = r.command /\ x.steps = r.steps /\ x.at = r.at
          /\ x.left = r.left /\ x.held = r.held /\ x.listed = r.listed
          /\ x.print = r.print /\ x.built = r.built /\ ~ x.clean /\ ~ x.rows
      BY <3>4, SpoiltIs
    <3>6. Running(x)
      BY <3>3, <3>5, RunningSame
    <3>7. Noted(x)'
      <4>1. Noted(x)
        BY <3>3, <3>5 DEF Noted
      <4> QED  BY <1>7, <4>1, SameFiles
    <3> QED  BY <3>3, <3>5, <3>6, <3>7 DEF Sound, Sole
  <2> QED  BY <2>1, <2>2, <2>3
<1>10. ASSUME NEW q \in Procs, NEW x \in Procs, Busy(q)', proc'[q].clean, x # q
       PROVE  proc'[x] = Idle
  <2>1. CASE q = p
    <3>1. proc[x] = Idle
      BY <1>4, <1>10, <2>1
    <3> QED  BY <1>4, <1>10, <2>1, <3>1, IdleIs
  <2>2. CASE q # p
    <3>1. proc[q] \in Processes /\ proc'[q] = Spoilt(proc[q])
      BY <1>3, <1>4, <2>2
    <3>2. ~ proc'[q].clean
      BY <3>1, SpoiltIs
    <3> QED  BY <1>10, <3>2
  <2> QED  BY <2>1, <2>2
<1> QED  BY <1>8, <1>9, <1>10 DEF IInv

LEMMA SomeNamesAre ==
    /\ \A c : NamesOf(c) \cap ({"embed", "purge"} \cup Lists) # {} => c = "sync"
    /\ Rows \cap ({"print", "look", "cache", "embed", "purge", "parse", "save", "take", "upsert"}
                  \cup Lists) = {}
<1>1. ({"embed", "purge"} \cup Lists)
         \cap (BootstrapNames \cup IngestNames \cup ServeNames \cup OtherNames) = {}
  BY TablesAre DEF BootstrapNames, IngestNames, ServeNames, OtherNames, ParseNames, WriteNames,
                   GraphNames, RowNames, StepNames, Lists
<1>2. Rows \cap ({"print", "look", "cache", "embed", "purge", "parse", "save", "take", "upsert"}
                 \cup Lists) = {}
  BY TablesAre DEF StepNames, Lists
<1> QED  BY <1>1, <1>2 DEF NamesOf

LEMMA StartStep ==
    ASSUME IInv, NEW p \in Procs, NEW c \in Commands[p], NEW u \in Ulids,
           NEW database \in BOOLEAN, Start(p, c, u, database)
    PROVE  IInv'
<1> DEFINE Asked(step) == /\ IsRowStep(step) => database
                          /\ Unparsed(c, step) => file[step[2]] = None
           s == StepsOf(c, u)
           A == {i \in DOMAIN s : Asked(s[i])}
           alone == \A q \in Procs : proc[q] = Idle
           started == Onward([Idle EXCEPT !.command = c, !.steps = s, !.left = A,
                                          !.rows = FALSE /\ alone, !.clean = c = "sync" /\ alone])
<1>1. /\ c # "sync"
      /\ proc[p] = Idle
      /\ A # {}
      /\ proc' = [q \in Procs |-> IF q = p THEN started ELSE Spoilt(proc[q])]
      /\ UNCHANGED <<file, stores>>
  BY DEF Start, Run
<1>2. c \in CommandNames
  BY LibraryAssumption
<1>3. s \in ProgramsOf(c)
  BY <1>1, <1>2, StepsOfIs
<1> HIDE DEF s
<1>4. /\ s \in Seq(AllNames \X Owners)
      /\ Len(s) \in Nat
      /\ \A k \in 1..Len(s) : s[k][1] \in NamesOf(c) /\ s[k][1] \in AllNames
      /\ Fed(s, SourcesOf(c))
  BY <1>2, <1>3, ProgramIs
<1>5. DOMAIN s = 1..Len(s)
  BY <1>4
<1>6. A \in SUBSET (1..Len(s)) /\ \A k \in 1..Len(s) : Asked(s[k]) => k \in A
  BY <1>5
<1>7. \A k \in A : Asked(s[k])
  OBVIOUS
<1> HIDE DEF A
<1>8. Range(Parse) = {"parse", "save"}
  BY DEF Parse, Range
<1>9. ASSUME NEW k \in A, s[k][1] \in Heirs PROVE k - 1 \in A
  <2>1. /\ k - 1 \in 1..Len(s) /\ s[k - 1][1] \in Leads(s[k][1], SourcesOf(c))
        /\ s[k - 1][2] = s[k][2]
    BY <1>4, <1>6, <1>9 DEF Fed
  <2> DEFINE x == s[k - 1][1]
             y == s[k][1]
  <2>4. /\ x \in Rows \cup {"take", "save"} => y \in Rows
        /\ x \in Readers \cup {"open", "enrich", "take", "save"} \cup Rows
        /\ x = "save" => c \notin {"sync", "bootstrap"}
    <3>1. x \in Leads(y, SourcesOf(c)) /\ y \in Heirs
      BY <1>9, <2>1
    <3> HIDE DEF x, y
    <3>2. /\ x \in Readers => y = "open"
          /\ x = "open" => y \in {"touch", "enrich"}
          /\ x = "enrich" => y = "upsert"
          /\ x \in Rows \cup {"take", "save"} => y \in Rows
          /\ x \in Readers \cup {"open", "enrich", "take", "save"} \cup Rows
          /\ x = "save" => c \notin {"sync", "bootstrap"}
      BY <3>1, LeadsAre
    <3> QED  BY <3>2
  <2>5. {"parse", "upsert"} \cap (Readers \cup {"open", "enrich", "take", "save"} \cup Rows) = {}
    BY TablesAre DEF StepNames, Readers
  <2>2. IsRowStep(s[k - 1]) => IsRowStep(s[k])
    BY <2>4, <2>5, RowStepIs
  <2>3. Unparsed(c, s[k - 1]) => Unparsed(c, s[k])
    <3>1. c = "bootstrap" => s[k - 1][1] \notin {"parse", "save"}
      BY <2>4, <2>5
    <3> QED  BY <1>8, <2>1, <3>1 DEF Unparsed
  <2> QED  BY <1>6, <1>7, <2>1, <2>2, <2>3
<1>10. ASSUME NEW k \in A, NEW b \in 1..Len(s), s[k][1] \in Looks, Begun(s, b, k),
              NEW j \in b .. k - 1
       PROVE  j \in A
  <2>1. j \in 1..Len(s) /\ s[j][1] \in {"print", "look"}
    <3>1. k \in 1..Len(s) /\ (j = b \/ j \in b + 1 .. k - 1)
      BY <1>4, <1>6
    <3> QED  BY <1>4, <1>10, <3>1 DEF Begun
  <2>2. ~ IsRowStep(s[j])
    BY <2>1, RowStepIs, SomeNamesAre
  <2>3. c \notin {"parse-all", "kb-update"}
    <3>1. s[k][1] \in NamesOf(c)
      BY <1>4, <1>6
    <3>2. NamesOf(c) # OtherNames
      BY <1>10, <3>1, NamesAre DEF Looks
    <3> QED  BY <3>2 DEF NamesOf
  <2>4. ~ Unparsed(c, s[j])
    BY <1>8, <2>1, <2>3 DEF Unparsed
  <2> QED  BY <1>6, <2>1, <2>2, <2>4
<1>11. \A j \in A : s[j][1] \notin {"embed", "purge"} \cup Lists
  BY <1>1, <1>4, <1>6, SomeNamesAre
<1>12. Startable(s, A)
  BY <1>9, <1>10, <1>11 DEF Startable
<1>13. PICK new, rows, clean : new = started /\ rows = (FALSE /\ alone) /\ clean = (c = "sync" /\ alone)
  OBVIOUS
<1>14. new = Fresh(c, s, A, rows, clean)
  BY <1>13 DEF Fresh
<1>15. Joins(p, new)
  BY <1>1, <1>13 DEF Joins
<1>16. A # {} /\ c # "sync" /\ proc[p] = Idle /\ UNCHANGED <<file, stores>>
  BY <1>1
<1> HIDE DEF started, alone
<1>17. rows = FALSE /\ clean = FALSE
  BY <1>13, <1>16
<1>18. Begins(new) /\ (new.clean <=> clean)
  BY <1>2, <1>3, <1>6, <1>12, <1>14, <1>16, <1>17, NewProcess
<1> QED  BY <1>15, <1>16, <1>17, <1>18, RunStep

LEMMA StartSyncStep ==
    ASSUME IInv, NEW p \in Procs, NEW full \in BOOLEAN, StartSync(p, full)
    PROVE  IInv'
<1> DEFINE Changed(v) == file[v] # None /\ (full \/ seen[v] # Mtime(v))
           unasked == IF full THEN "list" ELSE "relist"
           Asked(step) == /\ IsRowStep(step) => Changed(step[2])
                          /\ step[1] # unasked
           s == SyncSteps
           A == {i \in DOMAIN s : Asked(s[i])}
           alone == \A q \in Procs : proc[q] = Idle
           rows == full /\ alone
           clean == "sync" = "sync" /\ alone
           started == Onward([Idle EXCEPT !.command = "sync", !.steps = s, !.left = A,
                                          !.rows = rows, !.clean = clean])
<1>1. /\ proc[p] = Idle
      /\ A # {}
      /\ proc' = [q \in Procs |-> IF q = p THEN started ELSE Spoilt(proc[q])]
      /\ UNCHANGED <<file, stores>>
  BY DEF StartSync, Run
<1>2. "sync" \in CommandNames /\ s \in ProgramsOf("sync")
  BY SyncIs DEF CommandNames, ProgramsOf, NamesOf, SourcesOf
<1>3. PICK a \in Nat : Listing(s, a)
  BY SyncIs
<1>4. /\ \A u \in Ulids : Has(s, <<"embed", u>>)
      /\ \A u \in Ulids, t \in Rows : Has(s, <<t, u>>)
      /\ Has(s, <<"cache", None>>)
  BY SyncIs
<1> HIDE DEF s
<1>5. /\ s \in Seq(AllNames \X Owners)
      /\ Len(s) \in Nat
      /\ \A k \in 1..Len(s) : s[k][1] \in NamesOf("sync") /\ s[k][1] \in AllNames
      /\ Fed(s, SourcesOf("sync"))
  BY <1>2, ProgramIs
<1>6. DOMAIN s = 1..Len(s)
  BY <1>5
<1>7. A \in SUBSET (1..Len(s)) /\ \A k \in 1..Len(s) : Asked(s[k]) => k \in A
  BY <1>6
<1>8. \A k \in A : Asked(s[k])
  OBVIOUS
<1>9. \A k \in 1..Len(s) : s[k][1] \in {"print", "look", "cache", "embed", "purge"} => k \in A
  <2>1. \A k \in 1..Len(s) : s[k][1] \in {"print", "look", "cache", "embed", "purge"} => Asked(s[k])
    BY RowStepIs, SomeNamesAre
  <2> QED  BY <1>7, <2>1
<1>10. unasked \in Lists /\ \E x \in Lists : x # unasked /\ Lists = {x, unasked}
  BY DEF Lists
<1>11. \A k \in 1..Len(s) : s[k][1] \in Lists \ {unasked} => k \in A
  <2>1. \A k \in 1..Len(s) : s[k][1] \in Lists \ {unasked} => Asked(s[k])
    BY RowStepIs, SomeNamesAre DEF Lists
  <2> QED  BY <1>7, <2>1
<1>12. \A k \in 1..Len(s) : (\E t \in Rows, u \in Ulids : s[k] = <<t, u>> /\ rows /\ TextOf(u) # None)
                              => k \in A
  <2> SUFFICES ASSUME NEW k \in 1..Len(s), NEW t \in Rows, NEW u \in Ulids, s[k] = <<t, u>>,
                      rows, TextOf(u) # None
               PROVE  Asked(s[k])
    BY <1>7
  <2>1. file[u] # None
    BY DEF TextOf
  <2>2. t # unasked
    BY <1>10, SomeNamesAre
  <2> QED  BY <2>1, <2>2
<1>13. \A k \in A : s[k][1] # unasked
  OBVIOUS
<1>14. ASSUME NEW k \in A, s[k][1] \in Heirs PROVE k - 1 \in A
  <2>1. /\ k - 1 \in 1..Len(s) /\ s[k - 1][1] \in Leads(s[k][1], SourcesOf("sync"))
        /\ s[k - 1][2] = s[k][2]
    BY <1>5, <1>7, <1>14 DEF Fed
  <2>2. s[k][1] \in SyncNames
    BY <1>5, <1>7 DEF NamesOf
  <2>3. s[k][1] \in Rows
    BY <1>14, <2>2, NamesAre DEF Heirs
  <2>4. s[k - 1][1] \in Rows \cup {"take"}
    BY <2>1, <2>3, SomeNamesAre, TablesAre DEF Leads, SourcesOf, StepNames, Readers
  <2>5. IsRowStep(s[k]) /\ IsRowStep(s[k - 1])
    BY <2>3, <2>4, RowStepIs
  <2>6. s[k - 1][1] # unasked
    BY <2>4, SomeNamesAre DEF Lists
  <2> QED  BY <1>7, <1>8, <2>1, <2>5, <2>6
<1>26. (rows => clean) /\ (clean => \A q \in Procs : proc[q] = Idle)
  OBVIOUS
<1> HIDE DEF A, unasked, rows, clean
<1>15. ASSUME NEW k \in A, NEW b \in 1..Len(s), Begun(s, b, k), NEW j \in b .. k - 1
       PROVE  j \in A
  <2>1. k \in 1..Len(s) /\ (j = b \/ j \in b + 1 .. k - 1) /\ j \in 1..Len(s)
    BY <1>5, <1>7
  <2>2. s[j][1] \in {"print", "look"}
    BY <1>15, <2>1 DEF Begun
  <2> QED  BY <1>9, <2>1, <2>2
<1>16. /\ a + 1 \in 1..Len(s) /\ a + 2 \in 1..Len(s)
       /\ s[a + 1][1] = "relist" /\ s[a + 2][1] = "list"
       /\ \A k \in 1..Len(s) : s[k][1] \in Lists => k \in {a + 1, a + 2}
  BY <1>3, <1>5 DEF Listing
<1>17. \E j \in A : s[j][1] \in Lists
  BY <1>10, <1>11, <1>16 DEF Lists
<1>18. \A i, j \in A : s[i][1] \in Lists /\ s[j][1] \in Lists => i = j
  BY <1>7, <1>10, <1>13, <1>16 DEF Lists
<1>19. Startable(s, A)
  BY <1>9, <1>14, <1>15, <1>17, <1>18 DEF Startable
<1>20. Refreshing(s, A, rows)
  <2>1. ASSUME NEW u \in Ulids PROVE \E k \in A : s[k] = <<"embed", u>>
    <3>1. PICK k \in 1..Len(s) : s[k] = <<"embed", u>>
      BY <1>4 DEF Has
    <3>2. k \in A
      BY <1>9, <3>1
    <3> QED  BY <3>1, <3>2
  <2>2. \E k \in A : s[k] = <<"cache", None>>
    <3>1. PICK k \in 1..Len(s) : s[k] = <<"cache", None>>
      BY <1>4 DEF Has
    <3>2. k \in A
      BY <1>9, <3>1
    <3> QED  BY <3>1, <3>2
  <2>3. ASSUME rows, NEW u \in Ulids, NEW t \in Rows, TextOf(u) # None
        PROVE  \E k \in A : s[k] = <<t, u>>
    <3>1. PICK k \in 1..Len(s) : s[k] = <<t, u>>
      BY <1>4 DEF Has
    <3>2. k \in A
      BY <1>12, <2>3, <3>1
    <3> QED  BY <3>1, <3>2
  <2> QED  BY <1>17, <2>1, <2>2, <2>3 DEF Refreshing
<1>21. rows \in BOOLEAN /\ clean \in BOOLEAN
  BY DEF rows, clean
<1>22. PICK new : new = started
  OBVIOUS
<1>23. new = Fresh("sync", s, A, rows, clean)
  BY <1>22 DEF Fresh
<1>24. Joins(p, new)
  BY <1>1, <1>22 DEF Joins
<1> HIDE DEF started
<1>25. A # {} /\ proc[p] = Idle /\ UNCHANGED <<file, stores>>
  BY <1>1
<1>27. Begins(new) /\ (new.clean <=> clean)
  BY <1>2, <1>7, <1>19, <1>20, <1>21, <1>23, <1>25, <1>26, NewProcess
<1> QED  BY <1>24, <1>25, <1>26, <1>27, RunStep

-----------------------------------------------------------------------------
(* The invariant holds at first, and every step preserves it.              *)

LEMMA InitIInv == Init => IInv
<1> SUFFICES ASSUME Init PROVE IInv
  OBVIOUS
<1>1. /\ file = [u \in Ulids |-> None]
      /\ row = [u \in Ulids |-> [t \in Rows |-> None]]
      /\ vector = [u \in Ulids |-> None]
      /\ graph = None
      /\ seen = [u \in Ulids |-> 0]
      /\ proc = [p \in Procs |-> Idle]
  BY DEF Init, Rows
<1>2. row \in [Ulids -> [Rows -> RowValues]]
  <2>1. None \in RowValues
    BY DEF RowValues
  <2> QED  BY <1>1, <2>1
<1>3. Typed
  BY <1>1, <1>2, IdleIs DEF Typed, StoresTyped, Contents
<1>4. \A p \in Procs : proc[p] = Idle
  BY <1>1
<1>5. \A x : x = Idle => Sound(x)
  BY IdleIs DEF Sound
<1>6. \A p \in Procs, r \in Processes : r = proc[p] => Sound(r)
  BY <1>4, <1>5
<1> QED  BY <1>1, <1>3, <1>4, <1>6, IdleIs DEF IInv, GraphNoted, Busy

LEMMA StutterIInv ==
    ASSUME IInv, UNCHANGED vars
    PROVE  IInv'
<1>1. /\ file' = file /\ row' = row /\ vector' = vector /\ graph' = graph /\ seen' = seen
      /\ proc' = proc
  BY DEF vars
<1>2. \A u \in Ulids : Mtime(u)' = Mtime(u) /\ TextOf(u)' = TextOf(u) /\ ContentOf(u)' = ContentOf(u)
  BY <1>1, SameFile
<1>3. Typed' /\ GraphNoted'
  BY <1>1, <1>2 DEF IInv, Typed, StoresTyped, GraphNoted
<1>4. ASSUME NEW r, Sound(r) PROVE Sound(r)'
  <2>1. Noted(r)' <=> Noted(r)
    BY <1>2 DEF Noted
  <2>2. PICK T : T = Todo(r)
    OBVIOUS
  <2>3. Compared(r, T)' <=> Compared(r, T)
    BY <1>2 DEF Compared, ToList
  <2>4. Drawn(r, T)' <=> Drawn(r, T)
    BY <1>1, <1>2 DEF Drawn
  <2>5. \A u \in Ulids : /\ Embedded(r, T, u)' <=> Embedded(r, T, u)
                         /\ Stored(r, T, u)' <=> Stored(r, T, u)
    BY <1>1, <1>2 DEF Embedded, Stored
  <2>6. Synced(r, T)' <=> Synced(r, T)
    BY <1>2, <2>3, <2>4, <2>5 DEF Synced
  <2>7. Holding(r)' <=> Holding(r)
    BY <1>1 DEF Holding
  <2> QED  BY <1>4, <2>1, <2>2, <2>6, <2>7 DEF Sound
<1>5. \A p \in Procs, r \in Processes : r = proc'[p] => Sound(r)'
  BY <1>1, <1>4 DEF IInv
<1>6. \A p, q \in Procs : Busy(p)' /\ proc'[p].clean /\ q # p => proc'[q] = Idle
  BY <1>1 DEF IInv, Busy
<1> QED  BY <1>3, <1>5, <1>6 DEF IInv

LEMMA NextIInv ==
    ASSUME IInv, Next
    PROVE  IInv'
<1>1. PICK p \in Procs :
        \/ \E c \in Commands[p], u \in Ulids, database \in BOOLEAN : Start(p, c, u, database)
        \/ \E full \in BOOLEAN : StartSync(p, full)
        \/ \E u \in Ulids :
              \/ Open(p, u) \/ SaveParsed(p, u) \/ ParseFails(p, u)
              \/ \E step \in {"read", "lookup", "need"} : Read(p, u, step) \/ LeaveAlone(p, u, step)
              \/ Touch(p, u) \/ FillIn(p, u) \/ Take(p, u)
              \/ \E t \in Range(Tables) : Store(p, u, t, t) \/ StoreFails(p, u, t)
              \/ Store(p, u, "upsert", "papers") \/ StoreFails(p, u, "upsert")
              \/ Embed(p, u) \/ Look(p, u)
        \/ List(p, "list") \/ List(p, "relist")
        \/ Fingerprint(p, "print") \/ Fingerprint(p, "ask")
        \/ LoadCache(p) \/ Purge(p) \/ WriteCache(p) \/ SaveState(p) \/ Die(p)
  BY DEF Next
<1>2. CASE \E c \in Commands[p], u \in Ulids, database \in BOOLEAN : Start(p, c, u, database)
  BY <1>2, StartStep
<1>3. CASE \E full \in BOOLEAN : StartSync(p, full)
  BY <1>3, StartSyncStep
<1>4. ASSUME NEW u \in Ulids,
              \/ Open(p, u) \/ SaveParsed(p, u) \/ ParseFails(p, u)
              \/ \E step \in {"read", "lookup", "need"} : Read(p, u, step) \/ LeaveAlone(p, u, step)
              \/ Touch(p, u) \/ FillIn(p, u) \/ Take(p, u)
              \/ \E t \in Range(Tables) : Store(p, u, t, t) \/ StoreFails(p, u, t)
              \/ Store(p, u, "upsert", "papers") \/ StoreFails(p, u, "upsert")
              \/ Embed(p, u) \/ Look(p, u)
      PROVE  IInv'
  <2>1. CASE Open(p, u)
    BY <2>1, OpenStep
  <2>2. CASE SaveParsed(p, u) \/ Touch(p, u) \/ FillIn(p, u)
    BY <2>2, FileSteps
  <2>3. CASE ParseFails(p, u)
    BY <2>3, ParseFailsStep
  <2>4. CASE \E step \in Readers : Read(p, u, step)
    BY <2>4, ReadStep
  <2>5. CASE \E step \in Readers : LeaveAlone(p, u, step)
    BY <2>5, LeaveAloneStep
  <2>6. CASE Take(p, u)
    BY <2>6, TakeStep
  <2>7. CASE \E t \in Rows : Store(p, u, t, t)
    BY <2>7, StoreStep
  <2>8. CASE Store(p, u, "upsert", "papers")
    BY <2>8, StoreStep, PapersRow
  <2>9. CASE \E t \in Rows \cup {"upsert"} : StoreFails(p, u, t)
    BY <2>9, StoreFailsStep
  <2>10. CASE Embed(p, u)
    BY <2>10, EmbedStep
  <2>11. CASE Look(p, u)
    BY <2>11, LookStep
  <2> QED
    BY <1>4, <2>1, <2>2, <2>3, <2>4, <2>5, <2>6, <2>7, <2>8, <2>9, <2>10, <2>11 DEF Readers, Rows
<1>5. CASE List(p, "list") \/ List(p, "relist")
  BY <1>5, ListStep DEF Lists
<1>6. CASE Fingerprint(p, "print") \/ Fingerprint(p, "ask")
  BY <1>6, FingerprintStep
<1>7. CASE LoadCache(p)
  BY <1>7, LoadCacheStep
<1>8. CASE Purge(p)
  BY <1>8, PurgeStep
<1>9. CASE WriteCache(p)
  BY <1>9, WriteCacheStep
<1>10. CASE SaveState(p)
  BY <1>10, SaveStateStep
<1>11. CASE Die(p)
  BY <1>11, DieStep
<1> QED  BY <1>1, <1>2, <1>3, <1>4, <1>5, <1>6, <1>7, <1>8, <1>9, <1>10, <1>11

-----------------------------------------------------------------------------
(* What the invariant implies.                                             *)

LEMMA IInvTypeOK == IInv => TypeOK
<1> SUFFICES ASSUME IInv PROVE TypeOK
  OBVIOUS
<1>1. Typed
  BY DEF IInv
<1>2. \A i \in DOMAIN Tables : Tables[i] \in Rows
  BY TablesAre
<1>3. ASSUME NEW u \in Ulids
      PROVE  /\ \/ file[u] = None
                \/ file[u] \in [mtime : Nat \ {0}, text : Texts \cup {Broken}, meta : BOOLEAN]
             /\ \A i \in DOMAIN Tables : row[u][Tables[i]] \in RowValues
             /\ vector[u] \in {Content[t] : t \in Texts} \cup {None}
             /\ seen[u] \in Nat
  BY <1>1, <1>2 DEF Typed, StoresTyped, Files, Contents
<1>4. \A p \in Procs : proc[p].clean \in BOOLEAN /\ proc[p].rows \in BOOLEAN
  <2>1. \A p \in Procs : proc[p] \in Processes
    BY <1>1 DEF Typed
  <2> QED  BY <2>1 DEF Processes
<1> QED  BY <1>3, <1>4 DEF TypeOK, RowValues

LEMMA IInvGraph == IInv => GraphIsOfItsFiles
<1> SUFFICES ASSUME IInv, graph # None, graph.print = [u \in Ulids |-> Mtime(u)]
             PROVE  graph.of = [u \in Ulids |-> {TextOf(u)}]
  BY DEF GraphIsOfItsFiles
<1>1. graph \in Caches /\ GraphNoted
  BY DEF IInv, Typed, StoresTyped
<1>2. \A u \in Ulids : graph.print[u] = Mtime(u)
  OBVIOUS
<1>3. \A u \in Ulids : graph.of[u] = {TextOf(u)}
  BY <1>1, <1>2 DEF GraphNoted
<1>4. graph.of \in [Ulids -> SUBSET (Texts \cup {None})]
  BY <1>1 DEF Caches, Builts
<1> QED  BY <1>3, <1>4

\* A clean sync that comes to its last step has done all the others.
LEMMA Finished ==
    ASSUME IInv, NEW p \in Procs, At(p, "seen", None), proc[p].clean, NEW u \in Ulids
    PROVE  /\ vector[u] = ContentOf(u)
           /\ graph # None /\ graph.of[u] = {TextOf(u)}
           /\ proc[p].rows /\ TextOf(u) # None => Mirrored(u)
<1>1. PICK r : r = proc[p]
  OBVIOUS
<1>2. At(p, "seen", None) /\ r.clean
  BY <1>1
<1>3. Typed /\ Busy(p) /\ Standing(r, "seen", None)
  BY <1>1, <1>2, AtIs
<1>4. /\ r.command \in CommandNames
      /\ r.steps \in ProgramsOf(r.command)
      /\ Len(r.steps) \in Nat
      /\ r.at \in 1..Len(r.steps) /\ r.at \in Nat
      /\ r.left \subseteq 1..Len(r.steps)
      /\ \A k \in r.left : k > r.at
  BY <1>3, RunningIs DEF Standing
<1>5. r.steps[r.at] = <<"seen", None>> /\ "seen" \in NamesOf(r.command)
  BY <1>3 DEF Standing
<1>6. r.command = "sync"
  <2>1. "seen" \notin BootstrapNames \cup IngestNames \cup ServeNames \cup OtherNames
    BY TablesAre DEF BootstrapNames, IngestNames, ServeNames, OtherNames, ParseNames, WriteNames,
                     GraphNames, RowNames, StepNames
  <2> QED  BY <1>5, <2>1 DEF NamesOf
<1>7. r.steps = SyncSteps
  BY <1>4, <1>6, ProgramIs
<1>8. r.at = Len(r.steps)
  BY <1>4, <1>5, <1>7, SyncIs
<1>9. \A k \in Todo(r) : r.steps[k] = <<"seen", None>>
  BY <1>4, <1>5, <1>8 DEF Todo
<1>10. Synced(r, Todo(r))
  BY <1>2, <1>3, <1>6 DEF Standing, Sole
<1>11. /\ Embedded(r, Todo(r), u) /\ Drawn(r, Todo(r))
       /\ r.rows /\ TextOf(u) # None => Stored(r, Todo(r), u)
  BY <1>10 DEF Synced
<1>12. vector[u] = ContentOf(u)
  BY <1>9, <1>11 DEF Embedded
<1>13. graph # None /\ graph.of[u] = {TextOf(u)}
  BY <1>9, <1>11 DEF Drawn
<1>14. ASSUME r.rows, TextOf(u) # None PROVE Mirrored(u)
  <2>1. "seen" \notin Rows
    BY TablesAre DEF StepNames
  <2>2. \A t \in Rows : row[u][t] = Columns(t, file[u])
    BY <1>9, <1>11, <1>14, <2>1 DEF Stored
  <2> QED  BY <2>2, TablesAre DEF Mirrored
<1> QED  BY <1>1, <1>12, <1>13, <1>14

\* A sync that is to mirror every file is clean.
LEMMA RowsClean ==
    ASSUME IInv, NEW p \in Procs, At(p, "seen", None), proc[p].rows
    PROVE  proc[p].clean
<1>1. PICK r : r = proc[p]
  OBVIOUS
<1>2. r \in Processes /\ Sound(r) /\ r.at # 0
  BY <1>1 DEF IInv, Typed, At
<1> QED  BY <1>1, <1>2 DEF Sound

-----------------------------------------------------------------------------

LEMMA Invariance == Spec => []IInv
<1>1. IInv /\ [Next]_vars => IInv'
  BY NextIInv, StutterIInv
<1> QED  BY InitIInv, <1>1, PTL DEF Spec

\* Files, rows, vectors, the record of what sync has seen and every command at work
\* on them are well typed at any moment (db.py, vecstore.py, sync_ops.py).
THEOREM TypeCorrect == Spec => []TypeOK
  BY Invariance, IInvTypeOK, PTL

\* A cached graph that carries the fingerprint of the files was made from them,
\* whichever commands overwrite files while build_graph goes through them twice, and
\* whichever die: its fingerprint is taken first, and every write makes a file
\* younger (graph_mem.py:370-431, 465-506).
THEOREM GraphIsOfItsFilesAlways == Spec => []GraphIsOfItsFiles
  BY Invariance, IInvGraph, PTL

\* Whatever other commands left behind, a sync beside which no other command has
\* run and in which nothing has failed, even unnoticed, ends with a graph cached that
\* has every file as it is, and with the vector of the title and abstract of every
\* file that has any, and no other vector: none of a file that has neither, that
\* cannot be read or that is gone (sync_ops.py:69-128, vecstore.py:105-178,
\* graph_mem.py:465-506).
THEOREM SyncRefreshesAlways == Spec => []SyncRefreshes
<1>1. IInv => SyncRefreshes
  BY Finished DEF SyncRefreshes
<1> QED  BY Invariance, <1>1, PTL

\* Such a sync with --full ends with every row of every readable file: none of
\* those that a failed transaction or a killed command left from another version
\* remains (sync_ops.py:69-86, db.py:229-234).
THEOREM FullSyncMirrorsAlways == Spec => []FullSyncMirrors
<1>1. IInv => FullSyncMirrors
  BY Finished, RowsClean DEF FullSyncMirrors
<1> QED  BY Invariance, <1>1, PTL
=============================================================================
