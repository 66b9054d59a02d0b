---------------------------- MODULE CorpusProofs ----------------------------
(***************************************************************************)
(* Theorems about what decides which URIs make the corpus: the global      *)
(* deduplication (Dedup), for every list of URIs, cap, number of shards and *)
(* of workers, and whatever files an earlier run has left; and the         *)
(* stratified sampler (Sampler), for every strata, weights, target, scores *)
(* and number of shards.                                                   *)
(*                                                                         *)
(* Deduplication.  The argument has two halves.  While the shard files are *)
(* written, each lists its share of the input positions read so far, in    *)
(* input order (Listed).  The reduction only reads the files: what it has  *)
(* yielded is told by the lines it has read (Yielded), each the first of   *)
(* its URI in its file and with fewer than cap such lines of its domain    *)
(* before it.  Through Listed a line is such a line exactly when its       *)
(* position is one of Firsts and Within the cap.                           *)
(*                                                                         *)
(* Sampler.  The quotas are arithmetic: a sum of natural numbers is a      *)
(* number of cells (Total), the fractional parts add up to a multiple of   *)
(* the weight, and the rank of a stratum among them decides its unit.  The *)
(* heap holds the best of what has arrived (IsTop), in whatever order it   *)
(* came, and the corpus the samples of the strata that ended (Sampled).    *)
(***************************************************************************)
EXTENDS Dedup, Sampler, FiniteSetTheorems, WellFoundedInduction, TLAPS

-----------------------------------------------------------------------------
(***************************************************************************)
(* Deduplication.                                                          *)
(***************************************************************************)
Shard(p)  == ShardIndex(Bucket[Uri(p)], run.shards)
ShardIds  == 0..(run.shards - 1)

\* f is the list of those of the first n positions that belong to shard s; pos says
\* which position each line was written for.
ListedBy(pos, f, s, n) ==
    /\ pos \in [1..Len(f) -> 1..n]
    /\ \A i, j \in 1..Len(f) : i < j => pos[i] < pos[j]
    /\ \A i \in 1..Len(f) : /\ Uri(pos[i]) # NoUri
                            /\ Shard(pos[i]) = s
                            /\ f[i] = <<Bucket[Uri(pos[i])], Uri(pos[i])>>
    /\ \A p \in 1..n : Uri(p) # NoUri /\ Shard(p) = s => \E i \in 1..Len(f) : pos[i] = p
Listed(f, s, n) == \E pos \in [1..Len(f) -> 1..n] : ListedBy(pos, f, s, n)

\* Line j of f is the first with its URI; and those of them, among the first n, of domain b.
FirstLine(f, j)       == \A i \in 1..(j - 1) : f[i][2] # f[j][2]
FirstLines(f, n, b)   == {j \in 1..n : FirstLine(f, j) /\ f[j][1] = b}
\* The lines whose URI is yielded.
Yields(f, j) == /\ FirstLine(f, j)
                /\ \/ run.cap = NoCap
                   \/ f[j][1] = NoDomain
                   \/ Cardinality(FirstLines(f, j - 1, f[j][1])) < run.cap

\* The lines read so far.
Passed(s, j) == s < shard \/ (s = shard /\ j <= line)

FilesListed ==
    phase \in {"partition", "reduce", "done"} =>
        \A s \in ShardIds : s \in DOMAIN files /\ Listed(files[s], s, read)

AtRest == /\ phase \in {"new", "partition"} =>
                shard = 0 /\ line = 0 /\ seen = {} /\ kept = NoneKept /\ out = << >>
          /\ phase = "new" => read = 0
          /\ phase \in {"reduce", "done"} => read = Len(run.input)
          /\ phase = "reduce" => shard < run.shards
          /\ phase = "done"   => shard = run.shards

\* What the reduction remembers of the shard at hand: kept counts up to the cap.
Remembered ==
    phase = "reduce" =>
        /\ line <= Len(files[shard])
        /\ seen = {files[shard][j][2] : j \in 1..line}
        /\ run.cap # NoCap =>
              \A b \in Domains \ {NoDomain} :
                 LET met == Cardinality(FirstLines(files[shard], line, b))
                 IN  \/ kept[b] = met /\ met <= run.cap
                     \/ kept[b] = run.cap /\ met >= run.cap

\* What has been yielded, after the lines read so far.
Yielded ==
    phase \in {"reduce", "done"} =>
        \A u \in Uris :
            u \in Range(out) <=> \E s \in ShardIds : \E j \in 1..Len(files[s]) :
                                    /\ Passed(s, j)
                                    /\ Yields(files[s], j) /\ files[s][j][2] = u

DInv == TypeOK /\ FilesListed /\ AtRest /\ Remembered /\ Yielded /\ OrderedOutput
-----------------------------------------------------------------------------
(***************************************************************************)
(* The positions of the input and the lines they become.                   *)
(***************************************************************************)
LEMMA RunType ==
    ASSUME IsRun(run)
    PROVE  /\ run.input \in Seq(Raw) /\ run.shards \in Nat \ {0}
           /\ run.cap \in Nat \cup {NoCap}
           /\ Len(run.input) \in Nat
BY DEF IsRun

LEMMA UriType ==
    ASSUME IsRun(run), NEW p \in 1..Len(run.input), Uri(p) # NoUri
    PROVE  /\ Uri(p) \in Uris /\ Bucket[Uri(p)] \in Buckets
           /\ Shard(p) \in ShardIds
<1>1. run.input[p] \in Raw
  BY RunType
<1>2. Uri(p) \in Uris
  BY <1>1, DedupAssumption DEF Uri, Uris, Range
<1>3. Bucket[Uri(p)] \in Buckets
  BY <1>2, DedupAssumption
<1>4. Digest[Bucket[Uri(p)]] \in Nat /\ run.shards \in Nat \ {0}
  BY <1>3, DedupAssumption, RunType
<1>5. Shard(p) \in ShardIds
  <2> DEFINE d == Digest[Bucket[Uri(p)]]
             m == run.shards
  <2>1. d \in Nat /\ m \in Nat \ {0}
    BY <1>4
  <2> HIDE DEF d, m
  <2>2. d % m \in 0..(m - 1)
    BY <2>1
  <2> QED BY <2>2 DEF Shard, ShardIds, ShardIndex, d, m
<1> QED BY <1>2, <1>3, <1>5

\* Every URI has one first position.
LEMMA FirstAtIs ==
    ASSUME IsRun(run), NEW p \in Firsts
    PROVE  FirstAt(Uri(p)) = p
<1>1. \A q \in Firsts : Uri(q) = Uri(p) => q = p
  <2> SUFFICES ASSUME NEW q \in Firsts, Uri(q) = Uri(p), q # p PROVE FALSE
    OBVIOUS
  <2>1. p \in 1..Len(run.input) /\ q \in 1..Len(run.input) /\ Len(run.input) \in Nat
    BY RunType DEF Firsts
  <2>2. p \in 1..(q - 1) \/ q \in 1..(p - 1)
    BY <2>1
  <2> QED BY <2>2 DEF Firsts
<1> QED BY <1>1 DEF FirstAt

\* In a listed file a line comes first exactly when its position does.
LEMMA FirstLineIsFirst ==
    ASSUME IsRun(run), NEW f, NEW s, NEW pos, Len(f) \in Nat,
           ListedBy(pos, f, s, Len(run.input)), NEW j \in 1..Len(f)
    PROVE  FirstLine(f, j) <=> pos[j] \in Firsts
<1> DEFINE N == Len(run.input)
<1>0. N \in Nat
  BY RunType
<1>1. /\ pos \in [1..Len(f) -> 1..N]
      /\ \A i, k \in 1..Len(f) : i < k => pos[i] < pos[k]
      /\ \A i \in 1..Len(f) : Uri(pos[i]) # NoUri /\ Shard(pos[i]) = s
      /\ \A i \in 1..Len(f) : f[i] = <<Bucket[Uri(pos[i])], Uri(pos[i])>>
      /\ \A p \in 1..N : Uri(p) # NoUri /\ Shard(p) = s => \E i \in 1..Len(f) : pos[i] = p
  BY DEF ListedBy
<1>2. \A i \in 1..Len(f) : f[i][2] = Uri(pos[i])
  BY <1>1
<1>3. pos[j] \in 1..N /\ Uri(pos[j]) # NoUri
  BY <1>1
<1>4. ASSUME FirstLine(f, j) PROVE pos[j] \in Firsts
  <2>1. ASSUME NEW q \in 1..(pos[j] - 1), Uri(q) = Uri(pos[j]) PROVE FALSE
    <3>1. q \in 1..N /\ q < pos[j]
      BY <1>0, <1>3
    <3>2. Shard(q) = s
      BY <1>1, <2>1 DEF Shard
    <3>3. PICK i \in 1..Len(f) : pos[i] = q
      BY <1>1, <1>3, <2>1, <3>1, <3>2
    <3>4. i < j
      <4>1. CASE j < i
        <5>1. pos[j] < pos[i] /\ pos[i] = q
          BY <1>1, <3>3, <4>1
        <5>2. pos[j] \in Nat /\ q \in Nat
          BY <1>0, <1>3, <3>1
        <5> QED BY <3>1, <5>1, <5>2
      <4>2. CASE j = i
        BY <3>1, <3>3, <4>2, <1>0
      <4> QED BY <4>1, <4>2
    <3>5. i \in 1..(j - 1)
      BY <3>4
    <3> QED BY <1>2, <1>4, <2>1, <3>3, <3>5 DEF FirstLine
  <2> QED BY <1>3, <2>1 DEF Firsts
<1>5. ASSUME pos[j] \in Firsts PROVE FirstLine(f, j)
  <2>1. ASSUME NEW i \in 1..(j - 1), f[i][2] = f[j][2] PROVE FALSE
    <3>1. i \in 1..Len(f) /\ i < j
      OBVIOUS
    <3>2. pos[i] < pos[j] /\ pos[i] \in 1..N
      BY <1>1, <3>1
    <3>3. pos[i] \in 1..(pos[j] - 1)
      BY <3>2, <1>3, <1>0
    <3>4. Uri(pos[i]) = Uri(pos[j])
      BY <1>2, <2>1, <3>1
    <3> QED BY <1>5, <3>3, <3>4 DEF Firsts
  <2> QED BY <2>1 DEF FirstLine
<1> QED BY <1>4, <1>5

\* ... and as many first lines of its domain precede it as first positions do.
LEMMA FirstLinesAreEarlier ==
    ASSUME IsRun(run), NEW f, NEW s, NEW pos, Len(f) \in Nat,
           ListedBy(pos, f, s, Len(run.input)), NEW j \in 1..Len(f)
    PROVE  Cardinality(FirstLines(f, j - 1, f[j][1])) = Cardinality(Earlier(pos[j]))
<1> DEFINE N == Len(run.input)
           S == FirstLines(f, j - 1, f[j][1])
           T == Earlier(pos[j])
           g == [i \in S |-> pos[i]]
<1>0. N \in Nat
  BY RunType
<1>1. /\ pos \in [1..Len(f) -> 1..N]
      /\ \A i, k \in 1..Len(f) : i < k => pos[i] < pos[k]
      /\ \A i \in 1..Len(f) : Uri(pos[i]) # NoUri /\ Shard(pos[i]) = s
      /\ \A i \in 1..Len(f) : f[i] = <<Bucket[Uri(pos[i])], Uri(pos[i])>>
      /\ \A p \in 1..N : Uri(p) # NoUri /\ Shard(p) = s => \E i \in 1..Len(f) : pos[i] = p
  BY DEF ListedBy
<1>2. \A i \in 1..Len(f) : f[i][1] = Bucket[Uri(pos[i])]
  BY <1>1
<1>3. S \subseteq 1..(j - 1) /\ S \subseteq 1..Len(f)
  BY DEF FirstLines
<1>4. IsFiniteSet(S)
  <2>1. IsFiniteSet(1..(j - 1))
    BY FS_Interval
  <2> QED BY <1>3, <2>1, FS_Subset
<1>5. \A i \in S : /\ i \in 1..Len(f) /\ i < j
                   /\ pos[i] \in Firsts /\ pos[i] < pos[j]
                   /\ Bucket[Uri(pos[i])] = Bucket[Uri(pos[j])]
  <2> SUFFICES ASSUME NEW i \in S
               PROVE /\ i \in 1..Len(f) /\ i < j
                     /\ pos[i] \in Firsts /\ pos[i] < pos[j]
                     /\ Bucket[Uri(pos[i])] = Bucket[Uri(pos[j])]
    OBVIOUS
  <2>1. i \in 1..Len(f) /\ i < j /\ FirstLine(f, i) /\ f[i][1] = f[j][1]
    BY DEF FirstLines
  <2>2. pos[i] \in Firsts
    BY <2>1, FirstLineIsFirst
  <2> QED BY <1>1, <1>2, <2>1, <2>2
<1>6. g \in [S -> T]
  BY <1>5 DEF Earlier
<1>7. IsInjective(g)
  <2> SUFFICES ASSUME NEW a \in S, NEW b \in S, pos[a] = pos[b], a # b PROVE FALSE
    BY DEF IsInjective
  <2>1. a \in 1..Len(f) /\ b \in 1..Len(f) /\ (a < b \/ b < a)
    BY <1>3
  <2>2. pos[a] < pos[b] \/ pos[b] < pos[a]
    BY <1>1, <2>1
  <2>3. pos[a] \in Nat /\ pos[b] \in Nat
    BY <1>1, <2>1, <1>0
  <2> QED BY <2>2, <2>3
<1>8. \A q \in T : \E i \in S : g[i] = q
  <2> SUFFICES ASSUME NEW q \in T PROVE \E i \in S : pos[i] = q
    OBVIOUS
  <2>1. /\ q \in Firsts /\ q \in 1..N /\ Uri(q) # NoUri
        /\ q < pos[j] /\ Bucket[Uri(q)] = Bucket[Uri(pos[j])]
    BY DEF Earlier, Firsts
  <2>2. Shard(q) = s
    BY <1>1, <2>1 DEF Shard
  <2>3. PICK i \in 1..Len(f) : pos[i] = q
    BY <1>1, <2>1, <2>2
  <2>4. i < j
    <3>1. CASE j < i
      BY <1>1, <1>0, <2>1, <2>3, <3>1
    <3>2. CASE j = i
      BY <2>1, <2>3, <3>2, <1>0
    <3> QED BY <3>1, <3>2
  <2>5. FirstLine(f, i)
    BY <2>1, <2>3, FirstLineIsFirst
  <2>6. f[i][1] = f[j][1]
    BY <1>2, <2>1, <2>3
  <2>7. i \in S
    BY <2>4, <2>5, <2>6 DEF FirstLines
  <2> QED BY <2>3, <2>7
<1>9. g \in Bijection(S, T)
  BY <1>6, <1>7, <1>8 DEF Bijection, Injection, Surjection
<1> QED BY <1>4, <1>9, FS_Bijection DEF ExistsBijection

\* Hence a line is yielded exactly when its position is to be kept.
LEMMA YieldsIsWithin ==
    ASSUME IsRun(run), NEW f, NEW s, NEW pos, Len(f) \in Nat,
           ListedBy(pos, f, s, Len(run.input)), NEW j \in 1..Len(f)
    PROVE  Yields(f, j) <=> pos[j] \in Firsts /\ Within(pos[j])
<1>1. f[j][1] = Bucket[Uri(pos[j])]
  BY DEF ListedBy
<1> QED BY <1>1, FirstLineIsFirst, FirstLinesAreEarlier DEF Yields, Within
-----------------------------------------------------------------------------
(***************************************************************************)
(* The shard files while they are written.                                 *)
(***************************************************************************)
LEMMA ListedEmpty == ASSUME NEW s PROVE Listed(<< >>, s, 0)
<1> DEFINE pos == [i \in 1..Len(<< >>) |-> 0]
<1>1. Len(<< >>) = 0 /\ 1..0 = {}
  OBVIOUS
<1>2. pos \in [1..Len(<< >>) -> 1..0]
  BY <1>1
<1>3. ListedBy(pos, << >>, s, 0)
  BY <1>1, <1>2 DEF ListedBy
<1> QED BY <1>2, <1>3 DEF Listed

\* A result that another shard gets, or that is dropped, leaves a file as it is ...
LEMMA ListedSkip ==
    ASSUME NEW f, NEW s, NEW n \in Nat, Len(f) \in Nat, Listed(f, s, n),
           ~ (Uri(n + 1) # NoUri /\ Shard(n + 1) = s)
    PROVE  Listed(f, s, n + 1)
<1>1. PICK pos \in [1..Len(f) -> 1..n] : ListedBy(pos, f, s, n)
  BY DEF Listed
<1>2. 1..(n + 1) = 1..n \cup {n + 1}
  OBVIOUS
<1>3. pos \in [1..Len(f) -> 1..(n + 1)]
  BY <1>2
<1>4. ListedBy(pos, f, s, n + 1)
  BY <1>1, <1>2, <1>3 DEF ListedBy
<1> QED BY <1>3, <1>4 DEF Listed

\* ... and the one that gets it appends it, after all earlier positions.
LEMMA ListedAppend ==
    ASSUME NEW T, NEW f \in Seq(T), NEW s, NEW n \in Nat, Listed(f, s, n),
           Uri(n + 1) # NoUri, Shard(n + 1) = s,
           NEW e \in T, e = <<Bucket[Uri(n + 1)], Uri(n + 1)>>
    PROVE  Listed(Append(f, e), s, n + 1)
<1> DEFINE g == Append(f, e)
           m == Len(f)
<1>1. PICK pos \in [1..m -> 1..n] : ListedBy(pos, f, s, n)
  BY DEF Listed
<1>2. /\ m \in Nat /\ Len(g) = m + 1 /\ g[m + 1] = e
      /\ \A i \in 1..m : g[i] = f[i]
  OBVIOUS
<1> DEFINE new == [i \in 1..(m + 1) |-> IF i = m + 1 THEN n + 1 ELSE pos[i]]
<1>3. /\ \A i \in 1..m : new[i] = pos[i] /\ pos[i] \in 1..n
      /\ new[m + 1] = n + 1
      /\ new \in [1..(m + 1) -> 1..(n + 1)]
  <2> HIDE DEF g, m
  <2>1. m + 1 \in 1..(m + 1) /\ \A i \in 1..m : i \in 1..(m + 1) /\ i # m + 1
    BY <1>2
  <2>2. \A i \in 1..m : new[i] = pos[i] /\ pos[i] \in 1..n
    BY <2>1
  <2>3. new[m + 1] = n + 1
    BY <2>1
  <2>4. new \in [1..(m + 1) -> 1..(n + 1)]
    <3>1. \A i \in 1..(m + 1) : i \in 1..m \/ i = m + 1
      BY <1>2
    <3>2. \A i \in 1..(m + 1) : (IF i = m + 1 THEN n + 1 ELSE pos[i]) \in 1..(n + 1)
      BY <3>1
    <3> QED BY <3>2
  <2> QED BY <2>2, <2>3, <2>4
<1>4. /\ \A i, j \in 1..m : i < j => pos[i] < pos[j]
      /\ \A i \in 1..m : /\ Uri(pos[i]) # NoUri /\ Shard(pos[i]) = s
                         /\ f[i] = <<Bucket[Uri(pos[i])], Uri(pos[i])>>
      /\ \A p \in 1..n : Uri(p) # NoUri /\ Shard(p) = s => \E i \in 1..m : pos[i] = p
  BY <1>1 DEF ListedBy
<1> HIDE DEF g, m, new
<1>5. 1..(m + 1) = 1..m \cup {m + 1} /\ 1..(n + 1) = 1..n \cup {n + 1}
  BY <1>2
<1>6. \A i, j \in 1..(m + 1) : i < j => new[i] < new[j]
  <2> SUFFICES ASSUME NEW i \in 1..(m + 1), NEW j \in 1..(m + 1), i < j
               PROVE  new[i] < new[j]
    OBVIOUS
  <2>1. i \in 1..m
    BY <1>2
  <2>2. CASE j = m + 1
    BY <1>3, <2>1, <2>2
  <2>3. CASE j \in 1..m
    BY <1>3, <1>4, <2>1, <2>3
  <2> QED BY <1>5, <2>2, <2>3
<1>7. \A i \in 1..(m + 1) : /\ Uri(new[i]) # NoUri /\ Shard(new[i]) = s
                            /\ g[i] = <<Bucket[Uri(new[i])], Uri(new[i])>>
  <2> SUFFICES ASSUME NEW i \in 1..(m + 1)
               PROVE /\ Uri(new[i]) # NoUri /\ Shard(new[i]) = s
                     /\ g[i] = <<Bucket[Uri(new[i])], Uri(new[i])>>
    OBVIOUS
  <2>1. CASE i = m + 1
    BY <1>2, <1>3, <2>1
  <2>2. CASE i \in 1..m
    <3>1. new[i] = pos[i] /\ g[i] = f[i]
      BY <1>2, <1>3, <2>2
    <3>2. /\ Uri(pos[i]) # NoUri /\ Shard(pos[i]) = s
          /\ f[i] = <<Bucket[Uri(pos[i])], Uri(pos[i])>>
      BY <1>4, <2>2
    <3> QED BY <3>1, <3>2
  <2> QED BY <1>5, <2>1, <2>2
<1>8. ASSUME NEW p \in 1..(n + 1), Uri(p) # NoUri, Shard(p) = s
      PROVE  \E i \in 1..(m + 1) : new[i] = p
  <2>1. CASE p = n + 1
    BY <1>2, <1>3, <1>5, <2>1
  <2>2. CASE p \in 1..n
    <3>1. PICK i \in 1..m : pos[i] = p
      BY <1>4, <1>8, <2>2
    <3> QED BY <1>3, <1>5, <3>1
  <2> QED BY <1>5, <2>1, <2>2
<1>9. ListedBy(new, g, s, n + 1)
  BY <1>2, <1>3, <1>6, <1>7, <1>8 DEF ListedBy
<1> QED BY <1>2, <1>3, <1>9 DEF Listed, g

\* What the invariant says after a step that keeps the call as it is.
LEMMA PrimedParts ==
    ASSUME run' = run
    PROVE  /\ FilesListed' <=>
                (phase' \in {"partition", "reduce", "done"} =>
                    \A s \in ShardIds : s \in DOMAIN files' /\ Listed(files'[s], s, read'))
           /\ Yielded' <=>
                (phase' \in {"reduce", "done"} =>
                    \A u \in Uris :
                       u \in Range(out') <=>
                          \E s \in ShardIds : \E j \in 1..Len(files'[s]) :
                             /\ s < shard' \/ (s = shard' /\ j <= line')
                             /\ Yields(files'[s], j) /\ files'[s][j][2] = u)
           /\ OrderedOutput' <=>
                \A i, j \in 1..Len(out') : i < j =>
                    LET s == ShardIndex(Bucket[out'[i]], run.shards)
                        t == ShardIndex(Bucket[out'[j]], run.shards)
                    IN  s < t \/ (s = t /\ FirstAt(out'[i]) < FirstAt(out'[j]))
<1>1. FilesListed' <=>
                (phase' \in {"partition", "reduce", "done"} =>
                    \A s \in ShardIds : s \in DOMAIN files' /\ Listed(files'[s], s, read'))
  BY DEF FilesListed, Listed, ListedBy, Uri, Shard, ShardIds
<1>2. Yielded' <=>
                (phase' \in {"reduce", "done"} =>
                    \A u \in Uris :
                       u \in Range(out') <=>
                          \E s \in ShardIds : \E j \in 1..Len(files'[s]) :
                             /\ s < shard' \/ (s = shard' /\ j <= line')
                             /\ Yields(files'[s], j) /\ files'[s][j][2] = u)
  BY DEF Yielded, ShardIds, Passed, Yields, FirstLine, FirstLines
<1>3. OrderedOutput' <=>
                \A i, j \in 1..Len(out') : i < j =>
                    LET s == ShardIndex(Bucket[out'[i]], run.shards)
                        t == ShardIndex(Bucket[out'[j]], run.shards)
                    IN  s < t \/ (s = t /\ FirstAt(out'[i]) < FirstAt(out'[j]))
  BY DEF OrderedOutput, FirstAt, Firsts, Uri
<1> QED BY <1>1, <1>2, <1>3
-----------------------------------------------------------------------------
(***************************************************************************)
(* The steps before the reduction.                                         *)
(***************************************************************************)
LEMMA DInitInv == Init => DInv
<1> SUFFICES ASSUME Init PROVE DInv
  OBVIOUS
<1>1. IsRun(run) /\ run \in Runs
  BY DedupAssumption DEF Init
<1>2. TypeOK
  <2>1. \A i \in DOMAIN files : files[i] \in Seq(Buckets \X Uris)
    BY DedupAssumption DEF Init
  <2>2. read \in 0..Len(run.input) /\ shard \in 0..run.shards
    BY <1>1, RunType DEF Init
  <2>3. kept \in [Domains -> Nat] /\ out \in Seq(Uris)
    BY DEF Init, NoneKept
  <2> QED BY <1>1, <2>1, <2>2, <2>3 DEF Init, TypeOK
<1>3. OrderedOutput
  BY DEF Init, OrderedOutput
<1> QED BY <1>2, <1>3 DEF Init, DInv, FilesListed, AtRest, Remembered, Yielded

\* A step of the worker pool, or none.
LEMMA PoolInv ==
    ASSUME DInv, UNCHANGED <<run, phase, files, read, reduceVars>>,
           busy' \subseteq Chunks(run), ready' \subseteq Chunks(run), busy' \cap ready' = {}
    PROVE  DInv'
<1>1. TypeOK'
  BY DEF DInv, TypeOK, reduceVars
<1>2. FilesListed' /\ Yielded' /\ OrderedOutput'
  BY PrimedParts DEF DInv, FilesListed, Yielded, OrderedOutput, Passed, reduceVars
<1>3. AtRest'
  BY DEF DInv, AtRest, reduceVars
<1>4. Remembered'
  BY DEF DInv, Remembered, reduceVars
<1> QED BY <1>1, <1>2, <1>3, <1>4 DEF DInv

LEMMA OpenInv == ASSUME DInv, Open PROVE DInv'
<1>1. /\ phase = "new" /\ phase' = "partition" /\ run' = run /\ read' = read
      /\ UNCHANGED <<busy, ready, shard, line, seen, kept, out>>
      /\ files' = [i \in DOMAIN files \cup ShardIds |->
                      IF i < run.shards THEN << >> ELSE files[i]]
  BY DEF Open, poolVars, reduceVars, ShardIds
<1>2. IsRun(run) /\ run.shards \in Nat \ {0}
  BY RunType DEF DInv, TypeOK
<1>3. \A s \in ShardIds : s \in DOMAIN files' /\ files'[s] = << >>
  BY <1>1, <1>2 DEF ShardIds
<1>4. TypeOK'
  <2>1. ASSUME NEW i \in DOMAIN files' PROVE files'[i] \in Seq(Buckets \X Uris)
    <3>1. CASE i < run.shards
      BY <1>1, <3>1
    <3>2. CASE ~ (i < run.shards)
      <4>1. i \notin ShardIds
        BY <1>2, <3>2 DEF ShardIds
      <4>2. i \in DOMAIN files /\ files'[i] = files[i]
        BY <1>1, <3>2, <4>1
      <4> QED BY <4>2 DEF DInv, TypeOK
    <3> QED BY <3>1, <3>2
  <2> QED BY <1>1, <2>1 DEF DInv, TypeOK
<1>5. read = 0
  BY <1>1 DEF DInv, AtRest
<1>6. FilesListed'
  <2>1. \A s \in ShardIds : s \in DOMAIN files' /\ Listed(files'[s], s, read')
    BY <1>1, <1>3, <1>5, ListedEmpty
  <2> QED BY <1>1, <2>1, PrimedParts
<1>7. OrderedOutput' /\ Yielded'
  BY <1>1, PrimedParts DEF DInv, OrderedOutput
<1>8. AtRest' /\ Remembered'
  BY <1>1, <1>5 DEF DInv, AtRest, Remembered
<1> QED BY <1>4, <1>6, <1>7, <1>8 DEF DInv

LEMMA ConsumeInv == ASSUME DInv, Consume PROVE DInv'
<1> DEFINE p == read + 1
           b == Bucket[Uri(p)]
           e == <<b, Uri(p)>>
           own == ShardIndex(b, run.shards)
<1>1. /\ phase = "partition" /\ phase' = phase /\ read < Len(run.input) /\ read' = p
      /\ files' = Written(p)
      /\ UNCHANGED <<run, busy, ready, shard, line, seen, kept, out>>
  BY DEF Consume, poolVars, reduceVars
<1>2. /\ IsRun(run) /\ Len(run.input) \in Nat /\ read \in Nat /\ p \in 1..Len(run.input)
      /\ \A i \in DOMAIN files : files[i] \in Seq(Buckets \X Uris)
  BY <1>1, RunType DEF DInv, TypeOK
<1>3. \A s \in ShardIds : s \in DOMAIN files /\ Listed(files[s], s, read)
  BY <1>1 DEF DInv, FilesListed
<1>4. CASE Uri(p) = NoUri
  <2>1. files' = files
    BY <1>1, <1>4 DEF Written, Uri
  <2>2. ASSUME NEW s \in ShardIds PROVE Listed(files'[s], s, read')
    <3>1. Len(files[s]) \in Nat /\ Listed(files[s], s, read)
      BY <1>2, <1>3
    <3> QED BY <1>1, <1>2, <1>4, <2>1, <3>1, ListedSkip
  <2>3. FilesListed'
    BY <1>1, <1>3, <2>1, <2>2, PrimedParts
  <2>4. TypeOK'
    BY <1>1, <1>2, <2>1 DEF DInv, TypeOK
  <2> QED
    <3>1. OrderedOutput' /\ Yielded'
      BY <1>1, PrimedParts DEF DInv, OrderedOutput
    <3>2. AtRest' /\ Remembered'
      BY <1>1 DEF DInv, AtRest, Remembered
    <3> QED BY <2>3, <2>4, <3>1, <3>2 DEF DInv
<1>5. CASE Uri(p) # NoUri
  <2>1. files' = [files EXCEPT ![own] = Append(@, e)]
    BY <1>1, <1>5 DEF Written, Uri
  <2>2. /\ Uri(p) \in Uris /\ b \in Buckets /\ own \in ShardIds
        /\ Shard(p) = own
    BY <1>2, <1>5, UriType DEF Shard
  <2>3. e \in Buckets \X Uris
    BY <2>2
  <2> HIDE DEF b, own
  <2>4. e = <<Bucket[Uri(p)], Uri(p)>>
    BY DEF b
  <2> HIDE DEF e
  <2>5. /\ files[own] \in Seq(Buckets \X Uris)
        /\ files'[own] = Append(files[own], e)
        /\ DOMAIN files' = DOMAIN files
        /\ \A i \in DOMAIN files : i # own => files'[i] = files[i]
    BY <1>2, <1>3, <2>1, <2>2
  <2>6. ASSUME NEW s \in ShardIds PROVE Listed(files'[s], s, read')
    <3>1. CASE s = own
      <4>1. Listed(Append(files[own], e), own, read + 1)
        BY <1>2, <1>3, <1>5, <2>2, <2>3, <2>4, <2>5, ListedAppend
      <4> QED BY <1>1, <2>5, <3>1, <4>1
    <3>2. CASE s # own
      <4>1. Len(files[s]) \in Nat /\ Listed(files[s], s, read)
        BY <1>2, <1>3
      <4>2. Listed(files[s], s, read + 1)
        BY <1>2, <2>2, <3>2, <4>1, ListedSkip
      <4> QED BY <1>1, <1>3, <2>5, <3>2, <4>2
    <3> QED BY <3>1, <3>2
  <2>7. FilesListed'
    BY <1>1, <1>3, <2>5, <2>6, PrimedParts
  <2>8. ASSUME NEW i \in DOMAIN files' PROVE files'[i] \in Seq(Buckets \X Uris)
    <3>1. Append(files[own], e) \in Seq(Buckets \X Uris)
      BY <2>3, <2>5
    <3> QED BY <1>2, <2>5, <3>1
  <2>9. TypeOK'
    BY <1>1, <1>2, <2>8 DEF DInv, TypeOK
  <2> QED
    <3>1. OrderedOutput' /\ Yielded'
      BY <1>1, PrimedParts DEF DInv, OrderedOutput
    <3>2. AtRest' /\ Remembered'
      BY <1>1 DEF DInv, AtRest, Remembered
    <3> QED BY <2>7, <2>9, <3>1, <3>2 DEF DInv
<1> QED BY <1>4, <1>5

\* Before the first line of a file nothing is remembered of it.
LEMMA NothingMet ==
    ASSUME NEW f, NEW b PROVE Cardinality(FirstLines(f, 0, b)) = 0
<1>1. FirstLines(f, 0, b) = {}
  BY DEF FirstLines
<1> QED BY <1>1, FS_EmptySet

LEMMA StartShard ==
    ASSUME IsRun(run), run' = run, line' = 0, seen' = {}, kept' = NoneKept,
           Len(files'[shard']) \in Nat
    PROVE  Remembered'
<1>1. ASSUME run.cap # NoCap, NEW b \in Domains \ {NoDomain}
      PROVE  kept'[b] = Cardinality(FirstLines(files'[shard'], 0, b)) /\ 0 <= run.cap
  BY <1>1, NothingMet, RunType DEF NoneKept
<1>2. {files'[shard'][j][2] : j \in 1..0} = {}
  OBVIOUS
<1>3. ASSUME run'.cap # NoCap, NEW b \in Domains \ {NoDomain}
      PROVE  LET met == Cardinality(FirstLines(files'[shard'], line', b))
             IN  \/ kept'[b] = met /\ met <= run'.cap
                 \/ kept'[b] = run'.cap /\ met >= run'.cap
  BY <1>1, <1>3, NothingMet
<1> QED BY <1>2, <1>3 DEF Remembered

LEMMA CloseFilesInv == ASSUME DInv, CloseFiles PROVE DInv'
<1>1. /\ phase = "partition" /\ phase' = "reduce" /\ read = Len(run.input)
      /\ UNCHANGED <<run, files, busy, ready, read, shard, line, seen, kept, out>>
      /\ shard = 0 /\ line = 0 /\ seen = {} /\ kept = NoneKept /\ out = << >>
  BY DEF DInv, AtRest, CloseFiles, poolVars, reduceVars
<1>2. /\ IsRun(run) /\ run.shards \in Nat \ {0} /\ 0 \in ShardIds
      /\ \A i \in DOMAIN files : files[i] \in Seq(Buckets \X Uris)
  BY RunType DEF DInv, TypeOK, ShardIds
<1>3. TypeOK'
  BY <1>1 DEF DInv, TypeOK
<1>4. FilesListed' /\ OrderedOutput'
  BY <1>1, PrimedParts DEF DInv, FilesListed, OrderedOutput
<1>5. 0 \in DOMAIN files /\ Len(files[0]) \in Nat
  BY <1>1, <1>2 DEF DInv, FilesListed
<1>6. AtRest'
  BY <1>1, <1>2 DEF AtRest
<1>7. Remembered'
  BY <1>1, <1>2, <1>5, StartShard
<1>8. Yielded'
  <2>1. Range(out') = {}
    BY <1>1 DEF Range
  <2>2. \A s \in ShardIds : \A j \in 1..Len(files'[s]) :
           ~ (s < shard' \/ (s = shard' /\ j <= line'))
    BY <1>1, <1>2 DEF ShardIds
  <2> QED BY <1>1, <2>1, <2>2, PrimedParts
<1> QED BY <1>3, <1>4, <1>6, <1>7, <1>8 DEF DInv
-----------------------------------------------------------------------------
(***************************************************************************)
(* The reduction of one shard.                                             *)
(***************************************************************************)
\* Reading one more line of f.
LEMMA OneMoreLine ==
    ASSUME NEW f, NEW n \in Nat, NEW c
    PROVE  LET met  == FirstLines(f, n, c)
               more == FirstLines(f, n + 1, c)
           IN  /\ IsFiniteSet(met) /\ Cardinality(met) \in Nat
               /\ FirstLine(f, n + 1) /\ f[n + 1][1] = c
                    => Cardinality(more) = Cardinality(met) + 1
               /\ ~ (FirstLine(f, n + 1) /\ f[n + 1][1] = c) => more = met
<1> DEFINE met  == FirstLines(f, n, c)
           more == FirstLines(f, n + 1, c)
<1>1. 1..(n + 1) = 1..n \cup {n + 1} /\ n + 1 \notin 1..n
  OBVIOUS
<1>2. met \subseteq 1..n
  BY DEF FirstLines
<1>3. IsFiniteSet(met) /\ Cardinality(met) \in Nat
  <2>1. IsFiniteSet(1..n)
    BY FS_Interval
  <2>2. IsFiniteSet(met)
    BY <1>2, <2>1, FS_Subset
  <2> QED BY <2>2, FS_CardinalityType
<1>4. more = IF FirstLine(f, n + 1) /\ f[n + 1][1] = c THEN met \cup {n + 1} ELSE met
  BY <1>1 DEF FirstLines
<1>5. n + 1 \notin met
  BY <1>1, <1>2
<1> HIDE DEF met, more
<1>6. FirstLine(f, n + 1) /\ f[n + 1][1] = c => Cardinality(more) = Cardinality(met) + 1
  BY <1>3, <1>4, <1>5, FS_AddElement
<1> QED BY <1>3, <1>4, <1>6 DEF met, more

\* Where a yielded line's URI belongs, and where it first appeared.
LEMMA YieldedFrom ==
    ASSUME IsRun(run), NEW f, NEW s, NEW pos, Len(f) \in Nat,
           ListedBy(pos, f, s, Len(run.input)), NEW j \in 1..Len(f), FirstLine(f, j)
    PROVE  ShardIndex(Bucket[f[j][2]], run.shards) = s /\ FirstAt(f[j][2]) = pos[j]
<1>1. f[j][2] = Uri(pos[j]) /\ Shard(pos[j]) = s
  BY DEF ListedBy
<1>2. pos[j] \in Firsts
  BY FirstLineIsFirst
<1>3. FirstAt(Uri(pos[j])) = pos[j]
  BY <1>2, FirstAtIs
<1> QED BY <1>1, <1>3 DEF Shard

\* Everything yielded before line j of the shard at hand comes before its URI.
LEMMA YieldedBefore ==
    ASSUME DInv, phase = "reduce", NEW i \in 1..Len(out),
           NEW j \in 1..Len(files[shard]), line < j, FirstLine(files[shard], j)
    PROVE  LET u == files[shard][j][2]
               s == ShardIndex(Bucket[out[i]], run.shards)
               t == ShardIndex(Bucket[u], run.shards)
           IN  s < t \/ (s = t /\ FirstAt(out[i]) < FirstAt(u))
<1> DEFINE N == Len(run.input)
           u == files[shard][j][2]
<1>1. /\ IsRun(run) /\ N \in Nat /\ read = N /\ shard \in ShardIds /\ line \in Nat
      /\ run.shards \in Nat
      /\ out \in Seq(Uris)
      /\ \A k \in DOMAIN files : files[k] \in Seq(Buckets \X Uris)
  BY RunType DEF DInv, TypeOK, AtRest, ShardIds
<1>2. \A s \in ShardIds : s \in DOMAIN files /\ Listed(files[s], s, N) /\ Len(files[s]) \in Nat
  BY <1>1 DEF DInv, FilesListed
<1>3. out[i] \in Range(out) /\ out[i] \in Uris
  BY <1>1 DEF Range
<1>s. PICK s \in ShardIds : \E k \in 1..Len(files[s]) :
         Passed(s, k) /\ Yields(files[s], k) /\ files[s][k][2] = out[i]
  BY <1>3 DEF DInv, Yielded
<1>4. PICK k \in 1..Len(files[s]) :
         Passed(s, k) /\ Yields(files[s], k) /\ files[s][k][2] = out[i]
  BY <1>s
<1>5. FirstLine(files[s], k)
  BY <1>4 DEF Yields
<1>6. PICK pos : ListedBy(pos, files[shard], shard, N)
  BY <1>1, <1>2 DEF Listed
<1>7. ShardIndex(Bucket[u], run.shards) = shard /\ FirstAt(u) = pos[j]
  BY <1>1, <1>2, <1>6, YieldedFrom
<1>8. CASE s < shard
  <2>1. PICK q : ListedBy(q, files[s], s, N)
    BY <1>2 DEF Listed
  <2>2. ShardIndex(Bucket[out[i]], run.shards) = s
    BY <1>1, <1>2, <1>4, <1>5, <2>1, YieldedFrom
  <2> QED BY <1>7, <1>8, <2>2
<1>9. CASE s = shard /\ k <= line
  <2>1. ShardIndex(Bucket[out[i]], run.shards) = shard /\ FirstAt(out[i]) = pos[k]
    BY <1>1, <1>2, <1>4, <1>5, <1>6, <1>9, YieldedFrom
  <2>2. k < j /\ k \in 1..Len(files[shard])
    BY <1>1, <1>2, <1>9
  <2>3. pos[k] < pos[j]
    BY <1>6, <2>2 DEF ListedBy
  <2> QED BY <1>7, <2>1, <2>3
<1> QED BY <1>4, <1>8, <1>9 DEF Passed

LEMMA ReduceLineInv == ASSUME DInv, ReduceLine PROVE DInv'
<1> DEFINE f == files[shard]
           j == line + 1
           b == f[j][1]
           u == f[j][2]
           capped == run.cap # NoCap /\ b # NoDomain
           drop == u \in seen \/ (capped /\ kept[b] >= run.cap)
<1>1. /\ phase = "reduce" /\ phase' = phase /\ shard < run.shards /\ line < Len(f)
      /\ line' = j /\ seen' = seen \cup {u}
      /\ UNCHANGED <<run, files, busy, ready, read, shard>>
      /\ drop => kept' = kept /\ out' = out
      /\ ~ drop => /\ kept' = IF capped THEN [kept EXCEPT ![b] = @ + 1] ELSE kept
                   /\ out' = Append(out, u)
  BY DEF ReduceLine, poolVars
<1>2. /\ IsRun(run) /\ run.shards \in Nat /\ run.cap \in Nat \cup {NoCap} /\ NoCap \notin Nat
      /\ shard \in ShardIds /\ line \in Nat /\ seen \subseteq Uris
      /\ kept \in [Domains -> Nat] /\ out \in Seq(Uris)
  <2>1. IsRun(run) /\ shard \in 0..run.shards /\ line \in Nat /\ seen \subseteq Uris
    BY DEF DInv, TypeOK
  <2>2. kept \in [Domains -> Nat] /\ out \in Seq(Uris)
    BY DEF DInv, TypeOK
  <2>3. run.shards \in Nat /\ run.cap \in Nat \cup {NoCap} /\ NoCap \notin Nat
    BY <2>1, RunType, DedupAssumption
  <2>4. shard \in ShardIds
    BY <1>1, <2>1, <2>3 DEF ShardIds
  <2> QED BY <2>1, <2>2, <2>3, <2>4
<1>3. shard \in DOMAIN files /\ f \in Seq(Buckets \X Uris)
  BY <1>1, <1>2 DEF DInv, FilesListed, TypeOK
<1>4. j \in 1..Len(f) /\ j - 1 = line /\ j \in Nat
  BY <1>1, <1>2, <1>3
<1>5. f[j] \in Buckets \X Uris
  BY <1>3, <1>4
<1>6. b \in Buckets /\ u \in Uris
  BY <1>5
<1>7. capped => b \in Domains \ {NoDomain} /\ kept[b] \in Nat /\ run.cap \in Nat
  BY <1>2, <1>6 DEF Buckets
<1>8. /\ seen = {f[i][2] : i \in 1..line}
      /\ run.cap # NoCap =>
            \A c \in Domains \ {NoDomain} :
               LET met == Cardinality(FirstLines(f, line, c))
               IN  \/ kept[c] = met /\ met <= run.cap
                   \/ kept[c] = run.cap /\ met >= run.cap
  BY <1>1 DEF DInv, Remembered
<1>9. FirstLine(f, j) <=> u \notin seen
  BY <1>4, <1>8 DEF FirstLine
<1>10. Yields(f, j) <=> ~ drop
  <2>1. Yields(f, j) <=> u \notin seen /\ (capped => Cardinality(FirstLines(f, line, b)) < run.cap)
    BY <1>4, <1>9 DEF Yields
  <2>2. Cardinality(FirstLines(f, line, b)) \in Nat
    BY <1>2, OneMoreLine
  <2>3. capped => (Cardinality(FirstLines(f, line, b)) < run.cap <=> ~ (kept[b] >= run.cap))
    <3> SUFFICES ASSUME capped
                 PROVE  Cardinality(FirstLines(f, line, b)) < run.cap <=> ~ (kept[b] >= run.cap)
      OBVIOUS
    <3>1. LET met == Cardinality(FirstLines(f, line, b))
          IN  \/ kept[b] = met /\ met <= run.cap
              \/ kept[b] = run.cap /\ met >= run.cap
      BY <1>7, <1>8
    <3> HIDE DEF f, b
    <3> QED BY <1>7, <2>2, <3>1
  <2> QED BY <2>1, <2>3
<1> HIDE DEF drop
<1>11. TypeOK'
  <2>1. kept' \in [Domains -> Nat]
    <3>1. CASE ~ drop /\ capped
      <4>1. kept' = [kept EXCEPT ![b] = kept[b] + 1] /\ b \in Domains /\ kept[b] \in Nat
        BY <1>1, <1>7, <3>1
      <4> HIDE DEF b
      <4> QED BY <1>2, <4>1
    <3> QED BY <1>1, <1>2, <3>1
  <2>2. out' \in Seq(Uris)
    <3>1. out' = out \/ out' = Append(out, u)
      BY <1>1
    <3> HIDE DEF u
    <3> QED BY <1>2, <1>6, <3>1
  <2>3. line' \in Nat /\ seen' \subseteq Uris
    BY <1>1, <1>2, <1>4, <1>6
  <2> QED BY <1>1, <2>1, <2>2, <2>3 DEF DInv, TypeOK
<1>12. FilesListed'
  BY <1>1, PrimedParts DEF DInv, FilesListed
<1>13. AtRest'
  BY <1>1 DEF DInv, AtRest
<1>14. Remembered'
  <2>1. line' <= Len(files'[shard'])
    BY <1>1, <1>4
  <2>2. seen' = {files'[shard'][i][2] : i \in 1..line'}
    <3>1. 1..j = 1..line \cup {j}
      BY <1>2
    <3> QED BY <1>1, <1>8, <3>1
  <2>3. ASSUME run.cap # NoCap, NEW c \in Domains \ {NoDomain}
        PROVE  LET met == Cardinality(FirstLines(f, j, c))
               IN  \/ kept'[c] = met /\ met <= run.cap
                   \/ kept'[c] = run.cap /\ met >= run.cap
    <3> DEFINE m == Cardinality(FirstLines(f, line, c))
               m2 == Cardinality(FirstLines(f, j, c))
    <3>1. /\ m \in Nat
          /\ FirstLine(f, j) /\ b = c => m2 = m + 1
          /\ ~ (FirstLine(f, j) /\ b = c) => m2 = m
      BY <1>2, OneMoreLine
    <3>2. (kept[c] = m /\ m <= run.cap) \/ (kept[c] = run.cap /\ m >= run.cap)
      BY <1>8, <2>3
    <3>3. kept[c] \in Nat /\ run.cap \in Nat
      BY <1>2, <2>3
    <3>4. b = c => capped
      BY <2>3
    <3> HIDE DEF m, m2
    <3>5. CASE FirstLine(f, j) /\ b = c
      <4>1. CASE drop
        <5>1. kept'[c] = kept[c] /\ kept[c] >= run.cap
          BY <1>1, <1>9, <3>5, <4>1 DEF drop
        <5> QED BY <3>1, <3>2, <3>3, <3>5, <5>1 DEF m2
      <4>2. CASE ~ drop
        <5>1. ~ (kept[c] >= run.cap) /\ kept' = [kept EXCEPT ![c] = kept[c] + 1]
          BY <1>1, <3>4, <3>5, <4>2 DEF drop
        <5>2. kept'[c] = kept[c] + 1
          BY <1>2, <5>1, <2>3
        <5> QED BY <3>1, <3>2, <3>3, <3>5, <5>1, <5>2 DEF m2
      <4> QED BY <4>1, <4>2
    <3>6. CASE ~ (FirstLine(f, j) /\ b = c)
      <4>1. kept'[c] = kept[c]
        <5>1. CASE drop
          BY <1>1, <5>1
        <5>2. CASE ~ drop
          <6>1. b # c
            BY <1>9, <3>6, <5>2 DEF drop
          <6>2. kept' = kept \/ kept' = [kept EXCEPT ![b] = @ + 1]
            BY <1>1, <5>2
          <6> HIDE DEF b
          <6> QED BY <1>2, <2>3, <6>1, <6>2
        <5> QED BY <5>1, <5>2
      <4> QED BY <3>1, <3>2, <3>6, <4>1 DEF m2
    <3> QED BY <3>5, <3>6
  <2>4. run'.cap # NoCap =>
            \A c \in Domains \ {NoDomain} :
               LET met == Cardinality(FirstLines(files'[shard'], line', c))
               IN  \/ kept'[c] = met /\ met <= run'.cap
                   \/ kept'[c] = run'.cap /\ met >= run'.cap
    BY <1>1, <2>3
  <2> QED BY <2>1, <2>2, <2>4 DEF Remembered
<1>15. Yielded'
  <2>1. \A w \in Uris : w \in Range(out') <=> w \in Range(out) \/ (~ drop /\ w = u)
    <3>1. CASE drop
      BY <1>1, <3>1
    <3>2. CASE ~ drop
      <4>1. out' = Append(out, u)
        BY <1>1, <3>2
      <4>2. Range(Append(out, u)) = Range(out) \cup {u}
        <5> HIDE DEF u
        <5>1. u \in Uris
          BY <1>6
        <5>2. /\ DOMAIN Append(out, u) = 1..(Len(out) + 1) /\ DOMAIN out = 1..Len(out)
              /\ Len(out) \in Nat
              /\ Append(out, u)[Len(out) + 1] = u
              /\ \A i \in 1..Len(out) : Append(out, u)[i] = out[i]
          BY <1>2, <5>1
        <5>3. 1..(Len(out) + 1) = 1..Len(out) \cup {Len(out) + 1}
          BY <5>2
        <5> QED BY <5>2, <5>3 DEF Range
      <4> QED BY <3>2, <4>1, <4>2
    <3> QED BY <3>1, <3>2
  <2>2. ASSUME NEW s \in ShardIds, NEW i \in 1..Len(files[s])
        PROVE  (s < shard \/ (s = shard /\ i <= j)) <=> Passed(s, i) \/ (s = shard /\ i = j)
    <3>1. i \in Nat
      BY <1>3
    <3> QED BY <1>2, <3>1 DEF Passed
  <2>3. ASSUME NEW w \in Uris
        PROVE  w \in Range(out') <=>
                  \E s \in ShardIds : \E i \in 1..Len(files[s]) :
                     /\ s < shard \/ (s = shard /\ i <= j)
                     /\ Yields(files[s], i) /\ files[s][i][2] = w
    <3>1. w \in Range(out) <=> \E s \in ShardIds : \E i \in 1..Len(files[s]) :
                                  Passed(s, i) /\ Yields(files[s], i) /\ files[s][i][2] = w
      BY <1>1 DEF DInv, Yielded
    <3>2. ~ drop /\ w = u <=> \E s \in ShardIds : \E i \in 1..Len(files[s]) :
                                 s = shard /\ i = j /\ Yields(files[s], i) /\ files[s][i][2] = w
      BY <1>2, <1>4, <1>10
    <3> QED BY <2>1, <2>2, <3>1, <3>2
  <2> QED BY <1>1, <2>3, PrimedParts
<1>16. OrderedOutput'
  <2>1. CASE drop
    <3>1. out' = out /\ run' = run /\ OrderedOutput
      BY <1>1, <2>1 DEF DInv
    <3>2. OrderedOutput' <=> OrderedOutput
      BY <3>1, PrimedParts DEF OrderedOutput
    <3> QED BY <3>1, <3>2
  <2>2. CASE ~ drop
    <3>1. /\ Len(out') = Len(out) + 1 /\ Len(out) \in Nat
          /\ out'[Len(out) + 1] = u
          /\ \A i \in 1..Len(out) : out'[i] = out[i]
      <4> HIDE DEF u
      <4>1. out' = Append(out, u) /\ u \in Uris
        BY <1>1, <1>6, <2>2
      <4> QED BY <1>2, <4>1
    <3>2. ASSUME NEW i \in 1..Len(out'), NEW k \in 1..Len(out'), i < k
          PROVE  LET s == ShardIndex(Bucket[out'[i]], run.shards)
                     t == ShardIndex(Bucket[out'[k]], run.shards)
                 IN  s < t \/ (s = t /\ FirstAt(out'[i]) < FirstAt(out'[k]))
      <4>1. i \in 1..Len(out)
        BY <3>1, <3>2
      <4>2. CASE k \in 1..Len(out)
        BY <3>1, <3>2, <4>1, <4>2 DEF DInv, OrderedOutput
      <4>3. CASE k = Len(out) + 1
        <5>1. FirstLine(f, j) /\ line < j
          BY <1>2, <1>10, <2>2 DEF Yields
        <5>2. out'[i] = out[i] /\ out'[k] = f[j][2]
          BY <3>1, <4>1, <4>3
        <5> QED BY <1>1, <1>4, <4>1, <5>1, <5>2, YieldedBefore
      <4> QED BY <3>1, <4>2, <4>3
    <3> QED BY <1>1, <3>2, PrimedParts
  <2> QED BY <2>1, <2>2
<1> QED BY <1>11, <1>12, <1>13, <1>14, <1>15, <1>16 DEF DInv

LEMMA NextShardInv == ASSUME DInv, NextShard PROVE DInv'
<1>1. /\ phase = "reduce" /\ shard < run.shards /\ line = Len(files[shard])
      /\ shard' = shard + 1 /\ line' = 0 /\ seen' = {} /\ kept' = NoneKept
      /\ phase' = IF shard + 1 = run.shards THEN "done" ELSE "reduce"
      /\ UNCHANGED <<run, files, busy, ready, read, out>>
  BY DEF NextShard, poolVars
<1>2. /\ IsRun(run) /\ run.shards \in Nat /\ shard \in ShardIds /\ shard \in Nat /\ line \in Nat
      /\ \A i \in DOMAIN files : files[i] \in Seq(Buckets \X Uris)
  BY <1>1, RunType DEF DInv, TypeOK, ShardIds
<1>3. \A s \in ShardIds : s \in DOMAIN files /\ Len(files[s]) \in Nat
  BY <1>1, <1>2 DEF DInv, FilesListed
<1>4. TypeOK'
  BY <1>1, <1>2 DEF DInv, TypeOK, NoneKept, ShardIds
<1>5. FilesListed' /\ OrderedOutput'
  <2>1. \A s \in ShardIds : s \in DOMAIN files' /\ Listed(files'[s], s, read')
    BY <1>1 DEF DInv, FilesListed
  <2>2. FilesListed'
    BY <1>1, <2>1, PrimedParts
  <2>3. OrderedOutput'
    BY <1>1, PrimedParts DEF DInv, OrderedOutput
  <2> QED BY <2>2, <2>3
<1>6. AtRest'
  <2>1. read = Len(run.input)
    BY <1>1 DEF DInv, AtRest
  <2>2. phase' # "new" /\ phase' # "partition" /\ read' = Len(run'.input)
    BY <1>1, <2>1
  <2>3. /\ phase' = "reduce" => shard' < run'.shards
        /\ phase' = "done" => shard' = run'.shards
    BY <1>1, <1>2
  <2> QED BY <2>2, <2>3 DEF AtRest
<1>7. Remembered'
  <2>1. CASE phase' = "reduce"
    <3>1. shard' \in ShardIds
      BY <1>1, <1>2, <2>1 DEF ShardIds
    <3> QED BY <1>1, <1>2, <1>3, <3>1, StartShard
  <2> QED BY <1>1, <2>1 DEF Remembered
<1>8. Yielded'
  <2>1. ASSUME NEW s \in ShardIds, NEW j \in 1..Len(files[s])
        PROVE  Passed(s, j) <=> s < shard' \/ (s = shard' /\ j <= line')
    <3>1. s \in Nat /\ j \in 1..Len(files[s]) /\ Len(files[s]) \in Nat
      BY <1>2, <1>3 DEF ShardIds
    <3>2. ~ (j <= line') /\ shard' = shard + 1
      BY <1>1, <3>1
    <3>3. s = shard => j <= line
      BY <1>1, <3>1
    <3>4. s < shard + 1 <=> s < shard \/ s = shard
      BY <1>2, <3>1
    <3> QED BY <3>2, <3>3, <3>4 DEF Passed
  <2>2. \A v \in Uris :
           v \in Range(out) <=> \E s \in ShardIds : \E j \in 1..Len(files[s]) :
                                   /\ s < shard' \/ (s = shard' /\ j <= line')
                                   /\ Yields(files[s], j) /\ files[s][j][2] = v
    BY <1>1, <2>1 DEF DInv, Yielded
  <2>3. run' = run /\ files' = files /\ out' = out
    BY <1>1
  <2> QED BY <2>2, <2>3, PrimedParts
<1> QED BY <1>4, <1>5, <1>6, <1>7, <1>8 DEF DInv

LEMMA DStepInv == ASSUME DInv, [Next]_vars PROVE DInv'
<1>1. CASE Take
  <2>1. \E c \in Chunks(run) \ (busy \cup ready) : busy' = busy \cup {c}
    BY <1>1 DEF Take
  <2>2. UNCHANGED <<run, phase, files, read, reduceVars>> /\ ready' = ready
    BY <1>1 DEF Take
  <2>3. busy \subseteq Chunks(run) /\ ready \subseteq Chunks(run) /\ busy \cap ready = {}
    BY DEF DInv, TypeOK
  <2> QED BY <2>1, <2>2, <2>3, PoolInv
<1>2. ASSUME NEW c \in busy, Return(c) PROVE DInv'
  <2>1. /\ UNCHANGED <<run, phase, files, read, reduceVars>>
        /\ busy' = busy \ {c} /\ ready' = ready \cup {c}
    BY <1>2 DEF Return
  <2>2. busy \subseteq Chunks(run) /\ ready \subseteq Chunks(run) /\ busy \cap ready = {}
    BY DEF DInv, TypeOK
  <2> QED BY <2>1, <2>2, PoolInv
<1>3. CASE UNCHANGED vars
  BY <1>3, PoolInv DEF vars, poolVars, DInv, TypeOK
<1> QED BY <1>1, <1>2, <1>3, OpenInv, ConsumeInv, CloseFilesInv, ReduceLineInv, NextShardInv
        DEF Next
-----------------------------------------------------------------------------
\* An output in order repeats nothing.
LEMMA OrderedIsInjective ==
    ASSUME DInv PROVE IsInjective(out)
<1>1. out \in Seq(Uris) /\ IsRun(run) /\ run.shards \in Nat \ {0}
  BY RunType DEF DInv, TypeOK
<1> SUFFICES ASSUME NEW i \in 1..Len(out), NEW k \in 1..Len(out), out[i] = out[k], i < k
             PROVE  FALSE
  BY <1>1 DEF IsInjective
<1>2. phase \in {"reduce", "done"}
  BY <1>1 DEF DInv, TypeOK, AtRest
<1>3. ASSUME NEW n \in 1..Len(out)
      PROVE  /\ ShardIndex(Bucket[out[n]], run.shards) \in Int
             /\ FirstAt(out[n]) \in Int
  <2> DEFINE N == Len(run.input)
  <2>1. out[n] \in Uris /\ out[n] \in Range(out)
    BY <1>1 DEF Range
  <2>s. PICK s \in ShardIds : \E j \in 1..Len(files[s]) :
           Yields(files[s], j) /\ files[s][j][2] = out[n]
    BY <1>2, <2>1 DEF DInv, Yielded
  <2>2. PICK j \in 1..Len(files[s]) : Yields(files[s], j) /\ files[s][j][2] = out[n]
    BY <2>s
  <2>3. s \in DOMAIN files /\ Listed(files[s], s, N)
    BY <1>2 DEF DInv, FilesListed, AtRest
  <2>4. Len(files[s]) \in Nat /\ N \in Nat
    BY <1>1, <2>3, RunType DEF DInv, TypeOK
  <2>5. PICK pos \in [1..Len(files[s]) -> 1..N] : ListedBy(pos, files[s], s, N)
    BY <2>3 DEF Listed
  <2>6. ShardIndex(Bucket[out[n]], run.shards) = s /\ FirstAt(out[n]) = pos[j]
    BY <1>1, <2>2, <2>4, <2>5, YieldedFrom DEF Yields
  <2> QED BY <1>1, <2>4, <2>5, <2>6 DEF ShardIds
<1>4. LET s == ShardIndex(Bucket[out[i]], run.shards)
          t == ShardIndex(Bucket[out[k]], run.shards)
      IN  s < t \/ (s = t /\ FirstAt(out[i]) < FirstAt(out[k]))
  BY DEF DInv, OrderedOutput
<1> QED BY <1>3, <1>4

LEMMA YieldedAreKept ==
    ASSUME DInv, phase = "done"
    PROVE  Range(out) = {Uri(p) : p \in {q \in Firsts : Within(q)}}
<1> DEFINE N == Len(run.input)
<1>1. /\ IsRun(run) /\ N \in Nat /\ read = N /\ shard = run.shards /\ run.shards \in Nat
      /\ out \in Seq(Uris)
  BY RunType DEF DInv, TypeOK, AtRest
<1>2. \A s \in ShardIds : s \in DOMAIN files /\ Listed(files[s], s, N) /\ Len(files[s]) \in Nat
  BY <1>1 DEF DInv, FilesListed, TypeOK
<1>3. \A u \in Uris : u \in Range(out) <=> \E s \in ShardIds : \E j \in 1..Len(files[s]) :
                                              Yields(files[s], j) /\ files[s][j][2] = u
  BY <1>1 DEF DInv, Yielded, Passed, ShardIds
<1>4. ASSUME NEW u \in Range(out) PROVE \E p \in Firsts : Within(p) /\ Uri(p) = u
  <2>1. u \in Uris
    BY <1>1 DEF Range
  <2>s. PICK s \in ShardIds : \E j \in 1..Len(files[s]) :
           Yields(files[s], j) /\ files[s][j][2] = u
    BY <1>3, <2>1
  <2>2. PICK j \in 1..Len(files[s]) : Yields(files[s], j) /\ files[s][j][2] = u
    BY <2>s
  <2>3. PICK pos : ListedBy(pos, files[s], s, N)
    BY <1>2 DEF Listed
  <2>4. pos[j] \in Firsts /\ Within(pos[j])
    BY <1>1, <1>2, <2>2, <2>3, YieldsIsWithin
  <2>5. Uri(pos[j]) = u
    BY <2>2, <2>3 DEF ListedBy
  <2> QED BY <2>4, <2>5
<1>5. ASSUME NEW p \in Firsts, Within(p) PROVE Uri(p) \in Range(out)
  <2>1. p \in 1..N /\ Uri(p) # NoUri
    BY DEF Firsts
  <2>2. Uri(p) \in Uris /\ Shard(p) \in ShardIds
    BY <1>1, <2>1, UriType
  <2>3. PICK pos : ListedBy(pos, files[Shard(p)], Shard(p), N)
    BY <1>2, <2>2 DEF Listed
  <2>4. PICK j \in 1..Len(files[Shard(p)]) : pos[j] = p
    BY <2>1, <2>3 DEF ListedBy
  <2>5. Yields(files[Shard(p)], j)
    BY <1>1, <1>2, <1>5, <2>2, <2>3, <2>4, YieldsIsWithin
  <2>6. files[Shard(p)][j][2] = Uri(p)
    BY <2>3, <2>4 DEF ListedBy
  <2> QED BY <1>3, <2>2, <2>5, <2>6
<1> QED BY <1>4, <1>5

\* dedupe_and_cap (dedup.py) yields, for every number of workers and shards and
\* whatever an earlier run left in the directory, the first cap distinct URIs of each
\* domain and every URI without one, each once.
THEOREM KeepsTheFirst == Spec => []KeepsFirstOfEachDomain
<1>1. DInv => KeepsFirstOfEachDomain
  BY OrderedIsInjective, YieldedAreKept DEF KeepsFirstOfEachDomain
<1>2. DInv /\ [Next]_vars => DInv'
  BY DStepInv
<1> QED BY DInitInv, <1>1, <1>2, PTL DEF Spec

\* What it yields comes by shard, and within a shard by first appearance in the input,
\* at every moment: the chunks may come back from the workers in any order.
THEOREM OutputInOrder == Spec => []OrderedOutput
<1>1. DInv => OrderedOutput
  BY DEF DInv
<1>2. DInv /\ [Next]_vars => DInv'
  BY DStepInv
<1> QED BY DInitInv, <1>1, <1>2, PTL DEF Spec
-----------------------------------------------------------------------------
(***************************************************************************)
(* Sampler: induction on a finite set, and up to a number.                 *)
(***************************************************************************)
\* What holds of the empty set, and of a set as soon as it holds without one of its
\* members, holds of every finite set.
LEMMA SetInduction ==
    ASSUME NEW S, IsFiniteSet(S), NEW X, {} \in X,
           \A T \in SUBSET S : T # {} => \E x \in T : T \ {x} \in X => T \in X
    PROVE  S \in X
<1> DEFINE Sizes == {n \in Nat : \E T \in SUBSET S : Cardinality(T) = n /\ T \notin X}
<1>1. \A T \in SUBSET S : IsFiniteSet(T) /\ Cardinality(T) \in Nat
  BY FS_Subset, FS_CardinalityType
<1> SUFFICES ASSUME S \notin X PROVE FALSE
  OBVIOUS
<1>2. Sizes # {} /\ Sizes \subseteq Nat
  BY <1>1
<1>3. PICK n \in Sizes : \A m \in Sizes : ~ (<<m, n>> \in OpToRel(<, Nat))
  BY <1>2, NatLessThanWellFounded, WFMin
<1>4. PICK T \in SUBSET S : Cardinality(T) = n /\ T \notin X
  OBVIOUS
<1>5. PICK x \in T : T \ {x} \in X => T \in X
  BY <1>4
<1>6. T \ {x} \in SUBSET S /\ Cardinality(T \ {x}) = Cardinality(T) - 1
  BY <1>1, <1>5, FS_RemoveElement
<1>7. T \ {x} \notin X
  BY <1>4, <1>5
<1>8. Cardinality(T \ {x}) \in Sizes
  BY <1>1, <1>6, <1>7
<1>9. Cardinality(T \ {x}) < n /\ n \in Nat
  BY <1>1, <1>4, <1>6
<1>10. <<Cardinality(T \ {x}), n>> \in OpToRel(<, Nat)
  BY <1>1, <1>6, <1>9 DEF OpToRel
<1> QED BY <1>3, <1>8, <1>10

\* What holds of 0, and of every number up to N with the one before, holds of N.
LEMMA CountUp ==
    ASSUME NEW N \in Nat, NEW X, 0 \in X, \A n \in 0..(N - 1) : n \in X => n + 1 \in X
    PROVE  N \in X
<1> DEFINE Missing == {n \in 0..N : n \notin X}
<1> SUFFICES ASSUME N \notin X PROVE FALSE
  OBVIOUS
<1>1. Missing # {} /\ Missing \subseteq Nat
  OBVIOUS
<1>2. PICK n \in Missing : \A m \in Missing : ~ (<<m, n>> \in OpToRel(<, Nat))
  BY <1>1, NatLessThanWellFounded, WFMin
<1>3. n \in 0..N /\ n # 0 /\ n \notin X
  OBVIOUS
<1>4. n - 1 \in 0..(N - 1) /\ (n - 1) + 1 = n
  BY <1>3
<1>5. n - 1 \notin X
  BY <1>3, <1>4
<1>6. n - 1 \in Missing
  BY <1>4, <1>5
<1>7. <<n - 1, n>> \in OpToRel(<, Nat)
  BY <1>3, <1>4 DEF OpToRel
<1> QED BY <1>2, <1>6, <1>7
-----------------------------------------------------------------------------
(***************************************************************************)
(* Sums of natural numbers, as numbers of cells.                           *)
(***************************************************************************)
Cells(f, T) == {c \in T \X Nat : c[2] < f[c[1]]}
Total(f, T) == Cardinality(Cells(f, T))

LEMMA CellsGrow ==
    ASSUME NEW f, NEW T, NEW x \in T, f[x] \in Nat, IsFiniteSet(Cells(f, T \ {x}))
    PROVE  /\ IsFiniteSet(Cells(f, T))
           /\ Total(f, T) = f[x] + Total(f, T \ {x})
<1> DEFINE A == Cells(f, T \ {x})
           k == f[x]
           B == {x} \X (0..(k - 1))
<1>1. Cells(f, T) = A \cup B
  <2>1. ASSUME NEW c \in Cells(f, T) PROVE c \in A \cup B
    <3>1. c \in T \X Nat /\ c[2] < f[c[1]]
      BY DEF Cells
    <3>2. CASE c[1] = x
      <4>1. c[2] \in 0..(k - 1)
        BY <3>1, <3>2
      <4>2. c = <<c[1], c[2]>>
        BY <3>1
      <4> QED BY <3>2, <4>1, <4>2
    <3>3. CASE c[1] # x
      BY <3>1, <3>3 DEF Cells
    <3> QED BY <3>2, <3>3
  <2>2. A \subseteq Cells(f, T)
    BY DEF Cells
  <2>3. B \subseteq Cells(f, T)
    BY DEF Cells
  <2> QED BY <2>1, <2>2, <2>3
<1>2. A \cap B = {}
  BY DEF Cells
<1>3. IsFiniteSet({x}) /\ Cardinality({x}) = 1
  BY FS_Singleton
<1>4. IsFiniteSet(0..(k - 1)) /\ Cardinality(0..(k - 1)) = k
  <2> HIDE DEF k
  <2>1. k \in Nat
    BY DEF k
  <2>2. k - 1 \in Int /\ 0 \in Int
    BY <2>1
  <2>3. /\ IsFiniteSet(0..(k - 1))
        /\ Cardinality(0..(k - 1)) = IF 0 > k - 1 THEN 0 ELSE (k - 1) - 0 + 1
    BY <2>2, FS_Interval
  <2> QED BY <2>1, <2>3
<1>5. IsFiniteSet(B) /\ Cardinality(B) = k
  <2>1. IsFiniteSet(B) /\ Cardinality(B) = Cardinality({x}) * Cardinality(0..(k - 1))
    BY <1>3, <1>4, FS_Product
  <2> HIDE DEF B
  <2> QED BY <1>3, <1>4, <2>1
<1> HIDE DEF A, B
<1>6. IsFiniteSet(A) /\ Cardinality(A) \in Nat
  BY FS_CardinalityType DEF A
<1>7. /\ IsFiniteSet(A \cup B)
      /\ Cardinality(A \cup B) = Cardinality(A) + Cardinality(B) - Cardinality(A \cap B)
  BY <1>5, <1>6, FS_Union
<1>8. Cardinality(A \cap B) = 0
  BY <1>2, FS_EmptySet
<1>9. Cardinality(A \cup B) = k + Cardinality(A)
  <2> HIDE DEF k
  <2>1. k \in Nat
    BY DEF k
  <2> QED BY <1>5, <1>6, <1>7, <1>8, <2>1
<1> QED BY <1>1, <1>7, <1>9 DEF Total, A

LEMMA CellsEmpty == ASSUME NEW f PROVE Cells(f, {}) = {} /\ Total(f, {}) = 0
<1>1. Cells(f, {}) = {}
  BY DEF Cells
<1> QED BY <1>1, FS_EmptySet DEF Total

\* The sum over a finite set is a number, and any member can be taken out of it.
LEMMA TotalIs ==
    ASSUME NEW S, IsFiniteSet(S), NEW f, \A x \in S : f[x] \in Nat
    PROVE  /\ IsFiniteSet(Cells(f, S)) /\ Total(f, S) \in Nat
           /\ \A x \in S : Total(f, S) = f[x] + Total(f, S \ {x})
           /\ \A x \in S : Total(f, S \ {x}) \in Nat
<1> DEFINE X == {T \in SUBSET S : IsFiniteSet(Cells(f, T))}
<1>1. {} \in X
  BY CellsEmpty, FS_EmptySet
<1>2. \A T \in SUBSET S : T # {} => \E x \in T : T \ {x} \in X => T \in X
  BY CellsGrow
<1> HIDE DEF X
<1>3. S \in X
  BY <1>1, <1>2, SetInduction
<1> USE DEF X
<1>4. ASSUME NEW x \in S
      PROVE  Total(f, S) = f[x] + Total(f, S \ {x}) /\ Total(f, S \ {x}) \in Nat
  <2>1. Cells(f, S \ {x}) \subseteq Cells(f, S)
    BY DEF Cells
  <2>2. IsFiniteSet(Cells(f, S \ {x}))
    BY <1>3, <2>1, FS_Subset
  <2>3. Total(f, S \ {x}) \in Nat
    BY <2>2, FS_CardinalityType DEF Total
  <2>4. f[x] \in Nat
    OBVIOUS
  <2> QED BY <2>2, <2>3, <2>4, CellsGrow
<1> QED BY <1>3, <1>4, FS_CardinalityType DEF Total

\* SumFunction is that sum.
LEMMA SumIsTotal ==
    ASSUME NEW S, IsFiniteSet(S), NEW f, DOMAIN f = S, \A x \in S : f[x] \in Nat
    PROVE  SumFunction(f) = Total(f, S)
<1> DEFINE h == [T \in SUBSET S |-> Total(f, T)]
           Rec(g) == g = [T \in SUBSET S |->
                            IF T = {} THEN 0
                            ELSE f[CHOOSE x \in T : TRUE] + g[T \ {CHOOSE x \in T : TRUE}]]
           g0 == CHOOSE g : Rec(g)
<1>1. SumFunction(f) = g0[S]
  BY DEF SumFunction, SumFunctionOnSet, FoldFunctionOnSet, MapThenFoldSet
<1>2. \A T \in SUBSET S : T # {} => /\ (CHOOSE x \in T : TRUE) \in T
                                    /\ T \ {CHOOSE x \in T : TRUE} \in SUBSET S
  OBVIOUS
<1>3. \A T \in SUBSET S : T # {} =>
          h[T] = f[CHOOSE x \in T : TRUE] + h[T \ {CHOOSE x \in T : TRUE}]
  <2> SUFFICES ASSUME NEW T \in SUBSET S, T # {}
               PROVE  h[T] = f[CHOOSE x \in T : TRUE] + h[T \ {CHOOSE x \in T : TRUE}]
    OBVIOUS
  <2> DEFINE y == CHOOSE x \in T : TRUE
  <2>1. y \in T /\ T \ {y} \in SUBSET S
    BY <1>2
  <2> HIDE DEF y
  <2>2. IsFiniteSet(T) /\ \A x \in T : f[x] \in Nat
    BY FS_Subset
  <2>3. Total(f, T) = f[y] + Total(f, T \ {y})
    BY <2>1, <2>2, TotalIs
  <2>4. h[T] = f[y] + h[T \ {y}]
    BY <2>1, <2>3
  <2> QED BY <2>4 DEF y
<1>4. h[{}] = 0
  BY CellsEmpty
<1>5. Rec(h)
  <2>1. \A T \in SUBSET S : h[T] = IF T = {} THEN 0
                            ELSE f[CHOOSE x \in T : TRUE] + h[T \ {CHOOSE x \in T : TRUE}]
    BY <1>3, <1>4
  <2>2. h = [T \in SUBSET S |-> h[T]]
    OBVIOUS
  <2> HIDE DEF h
  <2> QED BY <2>1, <2>2
<1>6. Rec(g0)
  <2> HIDE DEF h, Rec
  <2> QED BY <1>5
<1> HIDE DEF g0
<1> DEFINE X == {T \in SUBSET S : g0[T] = h[T]}
<1>7. {} \in X
  BY <1>4, <1>6
<1>8. ASSUME NEW T \in SUBSET S, T # {}
      PROVE  \E x \in T : T \ {x} \in X => T \in X
  <2> DEFINE y == CHOOSE x \in T : TRUE
  <2>1. y \in T
    BY <1>8
  <2>2. ASSUME T \ {y} \in X PROVE T \in X
    <3>1. g0[T] = f[CHOOSE x \in T : TRUE] + g0[T \ {CHOOSE x \in T : TRUE}]
      BY <1>6, <1>8
    <3>2. g0[T \ {CHOOSE x \in T : TRUE}] = h[T \ {CHOOSE x \in T : TRUE}]
      BY <2>2
    <3>3. g0[T] = h[T]
      BY <1>3, <1>8, <3>1, <3>2
    <3> QED BY <3>3
  <2> QED BY <2>1, <2>2
<1>9. S \in X
  <2> HIDE DEF X
  <2> QED BY <1>7, <1>8, SetInduction
<1> QED BY <1>1, <1>9

\* Only the values on the set matter.
LEMMA TotalCongruent ==
    ASSUME NEW S, NEW f, NEW g, \A x \in S : f[x] = g[x]
    PROVE  Total(f, S) = Total(g, S)
<1>1. \A c \in S \X Nat : f[c[1]] = g[c[1]]
  OBVIOUS
<1>2. Cells(f, S) = Cells(g, S)
  BY <1>1 DEF Cells
<1> QED BY <1>2 DEF Total

LEMMA TotalMonotone ==
    ASSUME NEW S, IsFiniteSet(S), NEW f, NEW g, \A x \in S : f[x] \in Nat /\ g[x] \in Nat,
           \A x \in S : f[x] <= g[x]
    PROVE  Total(f, S) <= Total(g, S)
<1>1. Cells(f, S) \subseteq Cells(g, S)
  BY DEF Cells
<1>2. IsFiniteSet(Cells(g, S))
  BY TotalIs
<1> QED BY <1>1, <1>2, FS_Subset DEF Total

\* Sums are linear.
LEMMA TotalAdds ==
    ASSUME NEW S, IsFiniteSet(S), NEW f, NEW g, NEW h,
           \A x \in S : f[x] \in Nat /\ g[x] \in Nat /\ h[x] = f[x] + g[x]
    PROVE  Total(h, S) = Total(f, S) + Total(g, S)
<1> DEFINE X == {T \in SUBSET S : Total(h, T) = Total(f, T) + Total(g, T)}
<1>1. {} \in X
  BY CellsEmpty
<1>2. ASSUME NEW T \in SUBSET S, T # {}
      PROVE  \E x \in T : T \ {x} \in X => T \in X
  <2>1. PICK x : x \in T
    BY <1>2
  <2>2. /\ IsFiniteSet(T)
        /\ \A y \in T : f[y] \in Nat
        /\ \A y \in T : g[y] \in Nat
        /\ \A y \in T : h[y] \in Nat
    BY FS_Subset
  <2>3. Total(f, T) = f[x] + Total(f, T \ {x}) /\ Total(f, T \ {x}) \in Nat
    BY <2>1, <2>2, TotalIs
  <2>4. Total(g, T) = g[x] + Total(g, T \ {x}) /\ Total(g, T \ {x}) \in Nat
    BY <2>1, <2>2, TotalIs
  <2>5. Total(h, T) = h[x] + Total(h, T \ {x}) /\ Total(h, T \ {x}) \in Nat
    BY <2>1, <2>2, TotalIs
  <2>6. h[x] = f[x] + g[x] /\ f[x] \in Nat /\ g[x] \in Nat
    BY <2>1
  <2>7. ASSUME T \ {x} \in X PROVE T \in X
    <3>1. Total(h, T \ {x}) = Total(f, T \ {x}) + Total(g, T \ {x})
      BY <2>7
    <3>2. Total(h, T) = Total(f, T) + Total(g, T)
      BY <2>3, <2>4, <2>5, <2>6, <3>1
    <3> QED BY <3>2
  <2> QED BY <2>1, <2>7
<1> HIDE DEF X
<1>3. S \in X
  BY <1>1, <1>2, SetInduction
<1> QED BY <1>3 DEF X

LEMMA TotalScales ==
    ASSUME NEW S, IsFiniteSet(S), NEW f, NEW g, NEW c \in Nat,
           \A x \in S : f[x] \in Nat /\ g[x] = c * f[x]
    PROVE  Total(g, S) = c * Total(f, S)
<1> DEFINE X == {T \in SUBSET S : Total(g, T) = c * Total(f, T)}
<1>1. {} \in X
  BY CellsEmpty
<1>2. ASSUME NEW T \in SUBSET S, T # {}
      PROVE  \E x \in T : T \ {x} \in X => T \in X
  <2>1. PICK x : x \in T
    BY <1>2
  <2>2. /\ IsFiniteSet(T)
        /\ \A y \in T : f[y] \in Nat
        /\ \A y \in T : g[y] \in Nat
    BY FS_Subset
  <2>3. Total(f, T) = f[x] + Total(f, T \ {x}) /\ Total(f, T \ {x}) \in Nat
    BY <2>1, <2>2, TotalIs
  <2>4. Total(g, T) = g[x] + Total(g, T \ {x}) /\ Total(g, T \ {x}) \in Nat
    BY <2>1, <2>2, TotalIs
  <2>5. g[x] = c * f[x] /\ f[x] \in Nat
    BY <2>1
  <2>6. ASSUME T \ {x} \in X PROVE T \in X
    <3>1. Total(g, T \ {x}) = c * Total(f, T \ {x})
      BY <2>6
    <3>2. \A a, b \in Nat : c * a + c * b = c * (a + b)
      OBVIOUS
    <3>3. Total(g, T) = c * Total(f, T)
      BY <2>3, <2>4, <2>5, <3>1, <3>2
    <3> QED BY <3>3
  <2> QED BY <2>1, <2>6
<1> HIDE DEF X
<1>3. S \in X
  BY <1>1, <1>2, SetInduction
<1> QED BY <1>3 DEF X

\* The sum of an indicator counts.
LEMMA TotalCounts ==
    ASSUME NEW S, IsFiniteSet(S), NEW P \in SUBSET S, NEW f,
           \A x \in P : f[x] = 1, \A x \in S \ P : f[x] = 0
    PROVE  Total(f, S) = Cardinality(P)
<1> DEFINE g == [x \in P |-> <<x, 0>>]
<1>1. IsFiniteSet(P)
  BY FS_Subset
<1>2. g \in [P -> Cells(f, S)]
  BY DEF Cells
<1>3. IsInjective(g)
  BY DEF IsInjective
<1>4. ASSUME NEW c \in Cells(f, S) PROVE \E x \in P : g[x] = c
  <2>1. c \in S \X Nat /\ c[2] < f[c[1]] /\ c[1] \in S /\ c[2] \in Nat /\ c = <<c[1], c[2]>>
    BY DEF Cells
  <2>2. c[1] \in P /\ c[2] = 0
    BY <2>1
  <2> QED BY <2>1, <2>2
<1>5. g \in Bijection(P, Cells(f, S))
  BY <1>2, <1>3, <1>4 DEF Bijection, Injection, Surjection
<1> QED BY <1>1, <1>5, FS_Bijection DEF ExistsBijection, Total
-----------------------------------------------------------------------------
(***************************************************************************)
(* Ranks in a strict total order.                                          *)
(***************************************************************************)
\* below[u] is the set of the members of S that come before u.
Ranking(S, below) ==
    /\ IsFiniteSet(S)
    /\ \A u \in S : below[u] \subseteq S \ {u}
    /\ \A u, v \in S : u # v => u \in below[v] \/ v \in below[u]
    /\ \A u, v \in S : u \in below[v] => below[u] \subseteq below[v]
Rank(S, below) == [u \in S |-> Cardinality(below[u])]

LEMMA BelowGrows ==
    ASSUME NEW S, NEW below, Ranking(S, below)
    PROVE  /\ \A u \in S : IsFiniteSet(below[u]) /\ Cardinality(below[u]) \in Nat
           /\ \A u \in S : Cardinality(below[u]) < Cardinality(S)
           /\ \A u, v \in S : u \in below[v] => Cardinality(below[u]) < Cardinality(below[v])
<1>1. ASSUME NEW T \in SUBSET S, NEW x \in T, NEW U \in SUBSET (T \ {x})
      PROVE  IsFiniteSet(U) /\ Cardinality(U) \in Nat /\ Cardinality(U) < Cardinality(T)
  <2>1. IsFiniteSet(T) /\ Cardinality(T) \in Nat
    BY FS_Subset, FS_CardinalityType DEF Ranking
  <2>2. IsFiniteSet(T \ {x}) /\ Cardinality(T \ {x}) = Cardinality(T) - 1
    BY <2>1, FS_RemoveElement
  <2>3. IsFiniteSet(U) /\ Cardinality(U) <= Cardinality(T \ {x})
    BY <2>2, FS_Subset
  <2>4. Cardinality(U) \in Nat
    BY <2>3, FS_CardinalityType
  <2> QED BY <2>1, <2>2, <2>3, <2>4
<1>2. \A u \in S : below[u] \in SUBSET (S \ {u})
  BY DEF Ranking
<1>3. \A u \in S : /\ IsFiniteSet(below[u]) /\ Cardinality(below[u]) \in Nat
                   /\ Cardinality(below[u]) < Cardinality(S)
  BY <1>1, <1>2
<1>4. ASSUME NEW u \in S, NEW v \in S, u \in below[v]
      PROVE  Cardinality(below[u]) < Cardinality(below[v])
  <2>1. below[v] \in SUBSET S /\ below[u] \in SUBSET (below[v] \ {u})
    BY <1>4 DEF Ranking
  <2> QED BY <1>1, <1>4, <2>1
<1> QED BY <1>3, <1>4

\* The ranks are the numbers below the size of S, each once.
LEMMA RankBijects ==
    ASSUME NEW S, NEW below, Ranking(S, below)
    PROVE  /\ Cardinality(S) \in Nat
           /\ Rank(S, below) \in Bijection(S, 0..(Cardinality(S) - 1))
<1> DEFINE n == Cardinality(S)
           rank == Rank(S, below)
<1>1. IsFiniteSet(S) /\ n \in Nat
  BY FS_CardinalityType DEF Ranking
<1>2. \A u \in S : rank[u] \in Nat /\ rank[u] < n
  BY BelowGrows DEF Rank
<1>3. rank \in [S -> 0..(n - 1)]
  <2>1. \A u \in S : Cardinality(below[u]) \in 0..(n - 1)
    BY <1>1, BelowGrows
  <2> HIDE DEF n
  <2> QED BY <2>1 DEF Rank
<1>4. IsInjective(rank)
  <2> SUFFICES ASSUME NEW u \in S, NEW v \in S, rank[u] = rank[v], u # v PROVE FALSE
    BY DEF IsInjective, Rank
  <2>1. u \in below[v] \/ v \in below[u]
    BY DEF Ranking
  <2>2. rank[u] < rank[v] \/ rank[v] < rank[u]
    BY <2>1, BelowGrows DEF Rank
  <2> QED BY <1>2, <2>2
<1>5. rank \in Injection(S, 0..(n - 1))
  BY <1>3, <1>4 DEF Injection
<1>6. IsFiniteSet(0..(n - 1)) /\ Cardinality(0..(n - 1)) = n
  <2> HIDE DEF n
  <2>1. 0 \in Int /\ n - 1 \in Int
    BY <1>1
  <2>2. /\ IsFiniteSet(0..(n - 1))
        /\ Cardinality(0..(n - 1)) = IF 0 > n - 1 THEN 0 ELSE (n - 1) - 0 + 1
    BY <2>1, FS_Interval
  <2> QED BY <1>1, <2>2
<1>7. rank \in Surjection(S, 0..(n - 1))
  <2> HIDE DEF rank
  <2> QED BY <1>5, <1>6, FS_Injection
<1> QED BY <1>1, <1>5, <1>7 DEF Bijection

\* As many members rank below r as there are such ranks.
LEMMA RankCount ==
    ASSUME NEW S, NEW below, Ranking(S, below), NEW r \in Nat, r <= Cardinality(S)
    PROVE  Cardinality({u \in S : Cardinality(below[u]) < r}) = r
<1> DEFINE n == Cardinality(S)
           rank == Rank(S, below)
           L == {u \in S : Cardinality(below[u]) < r}
           g == [u \in L |-> rank[u]]
<1>1. n \in Nat /\ rank \in Bijection(S, 0..(n - 1)) /\ IsFiniteSet(S)
  BY RankBijects DEF Ranking
<1>2. \A u \in S : rank[u] = Cardinality(below[u])
  BY DEF Rank
<1>3. g \in [L -> 0..(r - 1)]
  <2>1. \A u \in S : rank[u] \in Nat
    BY <1>2, BelowGrows
  <2> QED BY <1>2, <2>1
<1>4. IsInjective(g)
  BY <1>1, <1>2 DEF Bijection, Injection, IsInjective
<1>5. \A k \in 0..(r - 1) : \E u \in L : g[u] = k
  <2> SUFFICES ASSUME NEW k \in 0..(r - 1) PROVE \E u \in L : g[u] = k
    OBVIOUS
  <2>1. k \in 0..(n - 1)
    BY <1>1
  <2>2. PICK u \in S : rank[u] = k
    BY <1>1, <2>1 DEF Bijection, Surjection
  <2>3. u \in L
    BY <1>2, <2>2
  <2> QED BY <2>2, <2>3
<1>6. g \in Bijection(L, 0..(r - 1))
  BY <1>3, <1>4, <1>5 DEF Bijection, Injection, Surjection
<1>7. IsFiniteSet(L)
  BY <1>1, FS_Subset
<1>8. Cardinality(0..(r - 1)) = Cardinality(L)
  BY <1>6, <1>7, FS_Bijection DEF ExistsBijection
<1>9. Cardinality(0..(r - 1)) = r
  <2>1. 0 \in Int /\ r - 1 \in Int
    OBVIOUS
  <2>2. Cardinality(0..(r - 1)) = IF 0 > r - 1 THEN 0 ELSE (r - 1) - 0 + 1
    BY <2>1, FS_Interval
  <2> QED BY <2>2
<1> QED BY <1>8, <1>9

LEMMA FunctionIsSeq ==
    ASSUME NEW n \in Nat, NEW S, NEW f \in [1..n -> S]
    PROVE  f \in Seq(S) /\ Len(f) = n /\ DOMAIN f = 1..n
OBVIOUS

\* Every rank is taken ...
LEMMA EveryRank ==
    ASSUME NEW S, NEW below, Ranking(S, below)
    PROVE  \A n \in 1..Cardinality(S) : \E u \in S : Cardinality(below[u]) = n - 1
<1> SUFFICES ASSUME NEW n \in 1..Cardinality(S) PROVE \E u \in S : Cardinality(below[u]) = n - 1
  OBVIOUS
<1>1. /\ Cardinality(S) \in Nat
      /\ Rank(S, below) \in Bijection(S, 0..(Cardinality(S) - 1))
  BY RankBijects
<1>2. n - 1 \in 0..(Cardinality(S) - 1)
  BY <1>1
<1>3. PICK u \in S : Rank(S, below)[u] = n - 1
  BY <1>1, <1>2 DEF Bijection, Surjection
<1> QED BY <1>3 DEF Rank

\* ... and the members listed by rank are the members, each once.
LEMMA ListedByRank ==
    ASSUME NEW S, NEW below, Ranking(S, below), NEW f \in [1..Cardinality(S) -> S],
           \A n \in 1..Cardinality(S) : Cardinality(below[f[n]]) = n - 1
    PROVE  /\ f \in Seq(S) /\ Len(f) = Cardinality(S) /\ Cardinality(S) \in Nat
           /\ Range(f) = S
           /\ IsInjective(f)
<1> DEFINE n == Cardinality(S)
           rank == Rank(S, below)
<1>1. n \in Nat /\ rank \in Bijection(S, 0..(n - 1))
  BY RankBijects
<1>2. \A u \in S : rank[u] = Cardinality(below[u])
  BY DEF Rank
<1>3. \A k \in 1..n : f[k] \in S /\ rank[f[k]] = k - 1
  BY <1>2
<1>4. f \in Seq(S) /\ Len(f) = n /\ DOMAIN f = 1..n
  <2>1. f \in [1..n -> S] /\ n \in Nat
    BY <1>1
  <2> HIDE DEF n
  <2> QED BY <2>1, FunctionIsSeq
<1>5. IsInjective(f)
  <2> SUFFICES ASSUME NEW a \in 1..n, NEW b \in 1..n, f[a] = f[b] PROVE a = b
    BY <1>4 DEF IsInjective
  <2>1. a - 1 = b - 1
    BY <1>3
  <2> QED BY <1>1, <2>1
<1>6. ASSUME NEW u \in S PROVE \E k \in 1..n : f[k] = u
  <2>1. rank[u] \in 0..(n - 1)
    BY <1>1 DEF Bijection, Injection
  <2>2. rank[u] + 1 \in 1..n
    BY <1>1, <2>1
  <2>3. f[rank[u] + 1] \in S /\ rank[f[rank[u] + 1]] = rank[u]
    <3>1. (rank[u] + 1) - 1 = rank[u]
      BY <2>1
    <3> QED BY <1>3, <2>2, <3>1
  <2>4. f[rank[u] + 1] = u
    BY <1>1, <2>3 DEF Bijection, Injection, IsInjective
  <2> QED BY <2>2, <2>4
<1>7. Range(f) = S
  BY <1>3, <1>4, <1>6 DEF Range
<1> QED BY <1>1, <1>4, <1>5, <1>7
-----------------------------------------------------------------------------
(***************************************************************************)
(* The quotas.                                                             *)
(***************************************************************************)
LEMMA Division ==
    ASSUME NEW a \in Nat, NEW w \in Nat \ {0}
    PROVE  /\ a \div w \in Nat /\ a % w \in Nat /\ a % w < w
           /\ a = w * (a \div w) + (a % w)
OBVIOUS

LEMMA EntryOfSeq == ASSUME NEW T, NEW s \in Seq(T), NEW i \in 1..Len(s) PROVE s[i] \in T
OBVIOUS

LEMMA JobParts ==
    ASSUME NEW j, IsJob(j)
    PROVE  /\ Len(j.strata) \in Nat /\ DOMAIN j.strata = Strata(j)
           /\ IsFiniteSet(Strata(j)) /\ Cardinality(Strata(j)) = Len(j.strata)
           /\ \A i \in Strata(j) : /\ j.strata[i].weight \in Nat
                                   /\ j.strata[i].uris \subseteq Nat
                                   /\ IsFiniteSet(j.strata[i].uris)
                                   /\ \A u \in j.strata[i].uris : Score[i][u] \in Nat
           /\ j.target \in Nat /\ j.shards \in Nat \ {0}
<1>1. j.strata \in Seq([weight : Nat, uris : SUBSET Nat])
  BY DEF IsJob
<1>2. Len(j.strata) \in Nat /\ DOMAIN j.strata = 1..Len(j.strata)
  BY <1>1
<1>3. \A i \in 1..Len(j.strata) : j.strata[i] \in [weight : Nat, uris : SUBSET Nat]
  BY <1>1, EntryOfSeq
<1>4. \A i \in 1..Len(j.strata) : j.strata[i].weight \in Nat /\ j.strata[i].uris \subseteq Nat
  BY <1>3
<1>5. IsFiniteSet(1..Len(j.strata)) /\ Cardinality(1..Len(j.strata)) = Len(j.strata)
  <2>1. 1 \in Int /\ Len(j.strata) \in Int
    BY <1>2
  <2>2. /\ IsFiniteSet(1..Len(j.strata))
        /\ Cardinality(1..Len(j.strata))
              = IF 1 > Len(j.strata) THEN 0 ELSE Len(j.strata) - 1 + 1
    BY <2>1, FS_Interval
  <2> QED BY <1>2, <2>2
<1> QED BY <1>2, <1>4, <1>5 DEF IsJob, Strata

Weights(j)   == [i \in Strata(j) |-> j.strata[i].weight]
Shares(j)    == [i \in Strata(j) |-> j.target * j.strata[i].weight]
Remainder(j) == j.target - SumFunction(Floors(j))
Ahead(j)     == [i \in Strata(j) |-> Before(j, i)]
\* The strata with a fractional part, and those that get one unit more.
Parted(j)    == {i \in Strata(j) : Fraction(j)[i] > 0}
Raised(j)    == {i \in Strata(j) : Cardinality(Before(j, i)) < Remainder(j)}

LEMMA ShareParts ==
    ASSUME NEW j, IsJob(j), TotalWeight(j) > 0
    PROVE  /\ TotalWeight(j) \in Nat \ {0}
           /\ TotalWeight(j) = Total(Weights(j), Strata(j))
           /\ \A i \in Strata(j) :
                 /\ Shares(j)[i] \in Nat
                 /\ Floors(j)[i] \in Nat /\ Fraction(j)[i] \in Nat
                 /\ Fraction(j)[i] < TotalWeight(j)
                 /\ Shares(j)[i] = TotalWeight(j) * Floors(j)[i] + Fraction(j)[i]
<1>1. /\ IsFiniteSet(Strata(j)) /\ j.target \in Nat
      /\ \A i \in Strata(j) : j.strata[i].weight \in Nat
  BY JobParts
<1>2. \A i \in Strata(j) : Weights(j)[i] \in Nat
  BY <1>1 DEF Weights
<1>3. DOMAIN Weights(j) = Strata(j) /\ TotalWeight(j) = SumFunction(Weights(j))
  BY DEF Weights, TotalWeight
<1>4. TotalWeight(j) = Total(Weights(j), Strata(j))
  BY <1>1, <1>2, <1>3, SumIsTotal
<1>5. TotalWeight(j) \in Nat \ {0}
  <2>1. Total(Weights(j), Strata(j)) \in Nat
    BY <1>1, <1>2, TotalIs
  <2> QED BY <1>4, <2>1
<1>6. ASSUME NEW i \in Strata(j)
      PROVE /\ Shares(j)[i] \in Nat
            /\ Floors(j)[i] \in Nat /\ Fraction(j)[i] \in Nat
            /\ Fraction(j)[i] < TotalWeight(j)
            /\ Shares(j)[i] = TotalWeight(j) * Floors(j)[i] + Fraction(j)[i]
  <2> DEFINE a == j.target * j.strata[i].weight
             w == TotalWeight(j)
  <2>1. a \in Nat /\ w \in Nat \ {0}
    <3>1. j.target \in Nat /\ j.strata[i].weight \in Nat
      BY <1>1
    <3>2. \A x, y \in Nat : x * y \in Nat
      OBVIOUS
    <3> QED BY <1>5, <3>1, <3>2
  <2>2. Shares(j)[i] = a /\ Floors(j)[i] = a \div w /\ Fraction(j)[i] = a % w
    BY DEF Shares, Floors, Fraction
  <2> HIDE DEF a, w
  <2>3. /\ a \div w \in Nat /\ a % w \in Nat /\ a % w < w
        /\ a = w * (a \div w) + (a % w)
    BY <2>1, Division
  <2>4. w = TotalWeight(j)
    BY DEF w
  <2> QED BY <2>1, <2>2, <2>3, <2>4
<1> QED BY <1>4, <1>5, <1>6

\* The fractional parts add up to the remainder: Remainder units of TotalWeight each.
LEMMA RemainderIs ==
    ASSUME NEW j, IsJob(j), TotalWeight(j) > 0
    PROVE  /\ SumFunction(Floors(j)) = Total(Floors(j), Strata(j))
           /\ SumFunction(Floors(j)) \in Nat
           /\ Remainder(j) \in Nat
           /\ TotalWeight(j) * Remainder(j) = Total(Fraction(j), Strata(j))
<1> DEFINE S == Strata(j)
           w == TotalWeight(j)
           whole == [i \in S |-> w * Floors(j)[i]]
<1>1. IsFiniteSet(S) /\ j.target \in Nat /\ w \in Nat \ {0}
  BY JobParts, ShareParts
<1>2. \A i \in S : /\ Floors(j)[i] \in Nat /\ Fraction(j)[i] \in Nat /\ Weights(j)[i] \in Nat
                   /\ Shares(j)[i] = j.target * Weights(j)[i]
                   /\ Shares(j)[i] = whole[i] + Fraction(j)[i]
  BY JobParts, ShareParts DEF Weights, Shares
<1>3. DOMAIN Floors(j) = S
  BY DEF Floors
<1>4. SumFunction(Floors(j)) = Total(Floors(j), S)
  BY <1>1, <1>2, <1>3, SumIsTotal
<1>5. Total(Floors(j), S) \in Nat /\ Total(Fraction(j), S) \in Nat
  BY <1>1, <1>2, TotalIs
<1>6. \A i \in S : whole[i] \in Nat
  <2>1. \A x, y \in Nat : x * y \in Nat
    OBVIOUS
  <2> QED BY <1>1, <1>2, <2>1
<1> HIDE DEF S
<1>7. Total(Shares(j), S) = j.target * w
  <2>1. Total(Shares(j), S) = j.target * Total(Weights(j), S)
    BY <1>1, <1>2, TotalScales
  <2> QED BY <2>1, ShareParts DEF S
<1>8. Total(whole, S) = w * Total(Floors(j), S)
  <2>1. \A i \in S : whole[i] = w * Floors(j)[i]
    OBVIOUS
  <2> HIDE DEF w, whole
  <2>2. w \in Nat
    BY <1>1
  <2> QED BY <1>1, <1>2, <2>1, <2>2, TotalScales
<1>9. Total(Shares(j), S) = Total(whole, S) + Total(Fraction(j), S)
  <2> HIDE DEF w, whole
  <2> QED BY <1>1, <1>2, <1>6, TotalAdds
<1>10. j.target * w = w * Total(Floors(j), S) + Total(Fraction(j), S)
  BY <1>7, <1>8, <1>9
<1>11. ASSUME NEW t \in Nat, NEW v \in Nat \ {0}, NEW f \in Nat, NEW r \in Nat, t * v = v * f + r
       PROVE  t - f \in Nat /\ v * (t - f) = r
  <2>1. v * (t - f) = t * v - v * f
    OBVIOUS
  <2>2. v * (t - f) = r
    <3>1. t * v \in Int /\ v * f \in Int
      OBVIOUS
    <3> QED BY <1>11, <2>1, <3>1
  <2>3. ASSUME t < f PROVE FALSE
    <3>1. f - t - 1 \in Nat
      BY <2>3
    <3>2. v * (f - t - 1) >= 0
      BY <3>1
    <3>3. v * (t - f) = - (v * (f - t - 1)) - v
      OBVIOUS
    <3> QED BY <2>2, <3>2, <3>3
  <2> QED BY <2>2, <2>3
<1> QED BY <1>1, <1>4, <1>5, <1>10, <1>11 DEF Remainder, S

\* There are at least that many strata with a fractional part.
LEMMA RemainderWithin ==
    ASSUME NEW j, IsJob(j), TotalWeight(j) > 0
    PROVE  Remainder(j) <= Cardinality(Parted(j))
<1> DEFINE S == Strata(j)
           w == TotalWeight(j)
           P == Parted(j)
           one == [i \in S |-> IF i \in P THEN 1 ELSE 0]
           cap == [i \in S |-> w * one[i]]
<1>1. IsFiniteSet(S) /\ w \in Nat \ {0} /\ P \in SUBSET S
  BY JobParts, ShareParts DEF Parted
<1>2. \A i \in S : Fraction(j)[i] \in Nat /\ Fraction(j)[i] <= cap[i] /\ cap[i] \in Nat
  <2> SUFFICES ASSUME NEW i \in S
               PROVE  Fraction(j)[i] \in Nat /\ Fraction(j)[i] <= cap[i] /\ cap[i] \in Nat
    OBVIOUS
  <2>1. Fraction(j)[i] \in Nat /\ Fraction(j)[i] < w
    BY ShareParts
  <2>2. CASE i \in P
    <3>1. cap[i] = w * 1
      BY <2>2
    <3> HIDE DEF cap, w
    <3> QED BY <1>1, <2>1, <3>1
  <2>3. CASE i \notin P
    <3>1. cap[i] = w * 0
      BY <2>3
    <3>2. Fraction(j)[i] = 0
      BY <2>1, <2>3 DEF Parted
    <3> HIDE DEF cap, w
    <3> QED BY <1>1, <3>1, <3>2
  <2> QED BY <2>2, <2>3
<1>3. /\ \A i \in S : one[i] \in Nat /\ cap[i] = w * one[i]
      /\ \A i \in P : one[i] = 1
      /\ \A i \in S \ P : one[i] = 0
  BY <1>1
<1>4. Total(Fraction(j), S) = w * Remainder(j) /\ Remainder(j) \in Nat
  BY RemainderIs
<1> HIDE DEF S, w, P, one, cap
<1>5. Total(Fraction(j), S) <= Total(cap, S)
  BY <1>1, <1>2, TotalMonotone
<1>6. Total(cap, S) = w * Total(one, S)
  <2>1. w \in Nat
    BY <1>1
  <2> QED BY <1>1, <1>3, <2>1, TotalScales
<1>7. Total(one, S) = Cardinality(P)
  BY <1>1, <1>3, TotalCounts
<1>8. Cardinality(P) \in Nat
  BY <1>1, FS_Subset, FS_CardinalityType
<1>9. w * Remainder(j) <= w * Cardinality(P)
  BY <1>4, <1>5, <1>6, <1>7
<1>10. ASSUME NEW v \in Nat \ {0}, NEW a \in Nat, NEW b \in Nat, v * a <= v * b PROVE a <= b
  <2>1. ASSUME b < a PROVE FALSE
    <3>1. a - b - 1 \in Nat
      BY <2>1
    <3>2. v * (a - b - 1) >= 0
      BY <3>1
    <3>3. v * a = v * b + v * (a - b - 1) + v
      OBVIOUS
    <3>4. v * a \in Int /\ v * b \in Int
      OBVIOUS
    <3> QED BY <1>10, <3>2, <3>3, <3>4
  <2> QED BY <2>1
<1> QED BY <1>1, <1>4, <1>8, <1>9, <1>10 DEF P

\* The order in which the units left over are given out.
LEMMA FractionOrder ==
    ASSUME NEW j, IsJob(j), TotalWeight(j) > 0
    PROVE  Ranking(Strata(j), Ahead(j))
<1> DEFINE S == Strata(j)
           fr == Fraction(j)
           below == Ahead(j)
<1>1. IsFiniteSet(S) /\ \A i \in S : fr[i] \in Nat /\ i \in Nat
  BY JobParts, ShareParts DEF Strata
<1>2. \A i \in S : below[i] = {k \in S : fr[k] > fr[i] \/ (fr[k] = fr[i] /\ k < i)}
  BY DEF Ahead, Before
<1> HIDE DEF S, fr, below
<1>3. \A i \in S : below[i] \subseteq S \ {i}
  BY <1>1, <1>2
<1>4. \A i, k \in S : i # k => i \in below[k] \/ k \in below[i]
  BY <1>1, <1>2
<1>5. \A i, k \in S : i \in below[k] => below[i] \subseteq below[k]
  BY <1>1, <1>2
<1> QED BY <1>1, <1>3, <1>4, <1>5 DEF Ranking, S, below

\* A stratum is raised only if it has a fractional part, and as many are as units are left.
LEMMA RaisedAre ==
    ASSUME NEW j, IsJob(j), TotalWeight(j) > 0
    PROVE  /\ Raised(j) \subseteq Parted(j)
           /\ Cardinality(Raised(j)) = Remainder(j)
           /\ \A i, k \in Strata(j) : k \in Raised(j) /\ i \in Before(j, k) => i \in Raised(j)
<1> DEFINE S == Strata(j)
           below == Ahead(j)
           R == Remainder(j)
           P == Parted(j)
<1>1. /\ Ranking(S, below) /\ R \in Nat /\ R <= Cardinality(P)
      /\ IsFiniteSet(S) /\ P \subseteq S
      /\ \A i \in S : below[i] = Before(j, i)
      /\ \A i \in S : Fraction(j)[i] \in Nat
  BY JobParts, ShareParts, RemainderIs, RemainderWithin, FractionOrder DEF Parted, Ahead
<1>2. Raised(j) = {i \in S : Cardinality(below[i]) < R}
  BY <1>1 DEF Raised
<1>3. IsFiniteSet(P) /\ Cardinality(P) <= Cardinality(S) /\ Cardinality(P) \in Nat
      /\ Cardinality(S) \in Nat
  BY <1>1, FS_Subset, FS_CardinalityType
<1>4. ASSUME NEW i \in S, Cardinality(below[i]) < R PROVE i \in P
  <2> SUFFICES ASSUME i \notin P PROVE FALSE
    OBVIOUS
  <2>1. Fraction(j)[i] = 0
    BY <1>1 DEF Parted
  <2>2. P \subseteq below[i]
    BY <1>1, <2>1 DEF Before, Parted
  <2>3. IsFiniteSet(below[i]) /\ Cardinality(below[i]) \in Nat
    BY <1>1, BelowGrows
  <2>4. Cardinality(P) <= Cardinality(below[i])
    BY <2>2, <2>3, FS_Subset
  <2> QED BY <1>1, <1>3, <1>4, <2>3, <2>4
<1>5. Cardinality(Raised(j)) = R
  <2>1. R <= Cardinality(S)
    BY <1>1, <1>3
  <2> HIDE DEF R, below, S
  <2> QED BY <1>1, <1>2, <2>1, RankCount
<1>6. ASSUME NEW i \in S, NEW k \in S, k \in Raised(j), i \in Before(j, k)
      PROVE  i \in Raised(j)
  <2>1. Cardinality(below[i]) < Cardinality(below[k])
    BY <1>1, <1>6, BelowGrows
  <2>2. Cardinality(below[k]) < R
    BY <1>2, <1>6
  <2>3. Cardinality(below[i]) \in Nat /\ Cardinality(below[k]) \in Nat
    BY <1>1, BelowGrows
  <2> QED BY <1>1, <1>2, <2>1, <2>2, <2>3
<1> QED BY <1>2, <1>4, <1>5, <1>6

LEMMA QuotaIs ==
    ASSUME NEW j, IsJob(j), TotalWeight(j) > 0
    PROVE  /\ Quotas(j) \in [Strata(j) -> Nat]
           /\ \A i \in Strata(j) :
                 /\ i \in Raised(j) => Quotas(j)[i] = Floors(j)[i] + 1
                 /\ i \notin Raised(j) => Quotas(j)[i] = Floors(j)[i]
           /\ SumFunction(Quotas(j)) = j.target
<1> DEFINE S == Strata(j)
           one == [i \in S |-> IF i \in Raised(j) THEN 1 ELSE 0]
<1>1. IsFiniteSet(S) /\ Raised(j) \in SUBSET S /\ j.target \in Nat
  BY JobParts DEF Raised
<1>2. DOMAIN Quotas(j) = S /\ Quotas(j) = [i \in S |-> Quotas(j)[i]]
  BY DEF Quotas
<1>3. \A i \in S : Quotas(j)[i] = Floors(j)[i] + one[i] /\ one[i] \in {0, 1} /\ Floors(j)[i] \in Nat
  BY ShareParts DEF Quotas, Raised, Remainder
<1>4. \A i \in S : /\ i \in Raised(j) => one[i] = 1
                   /\ i \notin Raised(j) => one[i] = 0
  OBVIOUS
<1> HIDE DEF S, one
<1>5. \A i \in S : Quotas(j)[i] \in Nat /\ one[i] \in Nat
  BY <1>3
<1>6. Total(one, S) = Remainder(j)
  <2>1. Total(one, S) = Cardinality(Raised(j))
    BY <1>1, <1>4, TotalCounts
  <2> QED BY <2>1, RaisedAre
<1>7. Total(Quotas(j), S) = Total(Floors(j), S) + Total(one, S)
  BY <1>1, <1>3, <1>5, TotalAdds
<1>8. SumFunction(Quotas(j)) = Total(Quotas(j), S)
  BY <1>1, <1>2, <1>5, SumIsTotal
<1>9. SumFunction(Quotas(j)) = j.target
  BY <1>1, <1>6, <1>7, <1>8, RemainderIs DEF Remainder, S
<1>10. Quotas(j) \in [S -> Nat]
  BY <1>2, <1>5
<1>11. \A i \in S : /\ i \in Raised(j) => Quotas(j)[i] = Floors(j)[i] + 1
                    /\ i \notin Raised(j) => Quotas(j)[i] = Floors(j)[i]
  BY <1>3, <1>4
<1> QED BY <1>9, <1>10, <1>11 DEF S

\* Each quota is within one unit of its exact share ...
LEMMA QuotaWithinOne ==
    ASSUME NEW j, IsJob(j), TotalWeight(j) > 0, NEW i \in Strata(j)
    PROVE  LET share == j.target * j.strata[i].weight
               units == Quotas(j)[i] * TotalWeight(j)
           IN  /\ units > share - TotalWeight(j) /\ units < share + TotalWeight(j)
               /\ j.strata[i].weight = 0 => Quotas(j)[i] = 0
<1> DEFINE w == TotalWeight(j)
           share == Shares(j)[i]
           f == Floors(j)[i]
           r == Fraction(j)[i]
           q == Quotas(j)[i]
<1>1. /\ w \in Nat \ {0} /\ share \in Nat /\ f \in Nat /\ r \in Nat /\ r < w
      /\ share = w * f + r
  BY ShareParts
<1>2. share = j.target * j.strata[i].weight
  BY DEF Shares
<1>3. (i \in Raised(j) /\ q = f + 1 /\ r > 0) \/ (i \notin Raised(j) /\ q = f)
  BY QuotaIs, RaisedAre DEF Parted
<1>4. j.strata[i].weight = 0 => share = 0
  BY <1>2, JobParts
<1> HIDE DEF w, share, f, r, q
<1>5. q = f + 1 \/ q = f
  BY <1>3
<1>6. w * f \in Nat
  <2>1. \A x, y \in Nat : x * y \in Nat
    OBVIOUS
  <2> QED BY <1>1, <2>1
<1>7. CASE q = f /\ i \notin Raised(j)
  <2>1. q * w = w * f
    BY <1>1, <1>7
  <2>2. q * w > share - w /\ q * w < share + w
    BY <1>1, <1>6, <2>1
  <2>3. ASSUME share = 0 PROVE q = 0
    <3>1. w * f = 0
      BY <1>1, <1>6, <2>3
    <3>2. ASSUME f # 0 PROVE FALSE
      <4>1. \A x \in Nat \ {0}, y \in Nat \ {0} : x * y # 0
        OBVIOUS
      <4> QED BY <1>1, <3>1, <3>2, <4>1
    <3> QED BY <1>7, <3>2
  <2> QED BY <1>2, <1>4, <2>2, <2>3 DEF q, w
<1>8. CASE q = f + 1 /\ r > 0
  <2>1. q * w = w * f + w
    <3>1. (f + 1) * w = w * f + w
      BY <1>1
    <3> QED BY <1>8, <3>1
  <2>2. q * w > share - w /\ q * w < share + w
    BY <1>1, <1>6, <1>8, <2>1
  <2>3. share # 0
    BY <1>1, <1>6, <1>8
  <2> QED BY <1>2, <1>4, <2>2, <2>3 DEF q, w
<1> QED BY <1>3, <1>7, <1>8

\* ... and a heavier stratum gets no less.
LEMMA QuotaMonotone ==
    ASSUME NEW j, IsJob(j), TotalWeight(j) > 0, NEW i \in Strata(j), NEW k \in Strata(j),
           j.strata[i].weight > j.strata[k].weight
    PROVE  Quotas(j)[i] >= Quotas(j)[k]
<1> DEFINE w == TotalWeight(j)
           fi == Floors(j)[i]
           ri == Fraction(j)[i]
           fk == Floors(j)[k]
           rk == Fraction(j)[k]
           t == j.target
           a == j.strata[i].weight
           b == j.strata[k].weight
<1>1. /\ w \in Nat \ {0} /\ fi \in Nat /\ ri \in Nat /\ ri < w
      /\ fk \in Nat /\ rk \in Nat /\ rk < w
      /\ t * a = w * fi + ri /\ t * b = w * fk + rk
  BY ShareParts DEF Shares
<1>2. t \in Nat /\ a \in Nat /\ b \in Nat /\ a > b
  BY JobParts
<1>3. /\ i \in Raised(j) => Quotas(j)[i] = fi + 1
      /\ i \notin Raised(j) => Quotas(j)[i] = fi
      /\ k \in Raised(j) => Quotas(j)[k] = fk + 1 /\ rk > 0
      /\ k \notin Raised(j) => Quotas(j)[k] = fk
  BY QuotaIs, RaisedAre DEF Parted
<1>4. ri > rk => (k \in Raised(j) => i \in Raised(j))
  <2> SUFFICES ASSUME ri > rk, k \in Raised(j) PROVE i \in Raised(j)
    OBVIOUS
  <2>1. i \in Before(j, k)
    BY DEF Before
  <2> QED BY <2>1, RaisedAre
<1> HIDE DEF w, fi, ri, fk, rk, t, a, b
<1>5. t * a = t * b + t * (a - b) /\ t * (a - b) >= 0
  <2>1. a - b \in Nat
    BY <1>2
  <2>2. \A x, y \in Nat : x * y >= 0
    OBVIOUS
  <2> QED BY <1>2, <2>1, <2>2
<1>6. w * fi + ri >= w * fk + rk
  <2>1. t * b \in Int /\ t * (a - b) \in Int
    BY <1>2
  <2> QED BY <1>1, <1>5, <2>1
<1>7. fi >= fk
  <2>1. ASSUME fi < fk PROVE FALSE
    <3>1. fk - fi - 1 \in Nat
      BY <1>1, <2>1
    <3>2. w * (fk - fi - 1) >= 0
      BY <1>1, <3>1
    <3>3. w * fk = w * fi + w * (fk - fi - 1) + w
      BY <1>1
    <3>4. w * fi \in Int /\ w * (fk - fi - 1) \in Int
      BY <1>1
    <3> QED BY <1>1, <1>6, <3>2, <3>3, <3>4
  <2> QED BY <1>1, <2>1
<1>8. CASE fi > fk
  BY <1>1, <1>3, <1>8
<1>9. CASE fi = fk
  <2>1. ri >= rk
    <3>1. w * fi \in Int /\ w * fk = w * fi
      BY <1>1, <1>9
    <3> QED BY <1>1, <1>6, <3>1
  <2>2. CASE ri > rk
    BY <1>1, <1>3, <1>4, <1>9, <2>2
  <2>3. CASE ri = rk
    <3>1. t * (a - b) = 0
      BY <1>1, <1>2, <1>5, <1>9, <2>3
    <3>2. a - b \in Nat \ {0}
      BY <1>2
    <3>3. t = 0
      <4>1. \A x, y \in Nat \ {0} : x * y # 0
        OBVIOUS
      <4> QED BY <1>2, <3>1, <3>2, <4>1
    <3>4. rk = 0
      <4>1. t * b = 0
        BY <1>2, <3>3
      <4>2. w * fk >= 0 /\ w * fk \in Int
        BY <1>1
      <4> QED BY <1>1, <4>1, <4>2
    <3>5. k \notin Raised(j)
      BY <1>3, <3>4
    <3> QED BY <1>1, <1>3, <1>9, <3>5
  <2> QED BY <1>1, <2>1, <2>2, <2>3
<1>10. fi > fk \/ fi = fk
  BY <1>1, <1>7
<1> QED BY <1>8, <1>9, <1>10
-----------------------------------------------------------------------------
(***************************************************************************)
(* The bounded heap and the sorted sample.                                 *)
(***************************************************************************)
Scored(i, A) == \A u \in A : u \in Nat /\ Score[i][u] \in Nat

\* What Sorted returns.
LEMMA SortedIs ==
    ASSUME NEW i, NEW S, IsFiniteSet(S), Scored(i, S)
    PROVE  /\ Sorted(i, S) \in Seq(S) /\ Len(Sorted(i, S)) = Cardinality(S)
           /\ Cardinality(S) \in Nat
           /\ Range(Sorted(i, S)) = S /\ IsInjective(Sorted(i, S))
<1> DEFINE below == [u \in S |-> {v \in S : Precedes(i, v, u)}]
           f == Sorted(i, S)
           N == Cardinality(S)
<1>1. \A u \in S : u \in Nat /\ Score[i][u] \in Nat
  BY DEF Scored
<1>2. \A u \in S : below[u] = {v \in S : Precedes(i, v, u)}
  OBVIOUS
<1>3. Ranking(S, below)
  <2> HIDE DEF below
  <2>1. \A u \in S : below[u] \subseteq S \ {u}
    BY <1>1, <1>2 DEF Precedes
  <2>2. \A u, v \in S : u # v => u \in below[v] \/ v \in below[u]
    BY <1>1, <1>2 DEF Precedes
  <2>3. \A u, v \in S : u \in below[v] => below[u] \subseteq below[v]
    BY <1>1, <1>2 DEF Precedes
  <2> QED BY <2>1, <2>2, <2>3 DEF Ranking
<1>4. f = [n \in 1..N |-> CHOOSE u \in S : Cardinality({v \in S : Precedes(i, v, u)}) = n - 1]
  BY DEF Sorted, InOrder
<1>5. ASSUME NEW n \in 1..N
      PROVE  f[n] \in S /\ Cardinality(below[f[n]]) = n - 1
  <2>1. f[n] = CHOOSE u \in S : Cardinality({v \in S : Precedes(i, v, u)}) = n - 1
    BY <1>4
  <2>2. \E u \in S : Cardinality({v \in S : Precedes(i, v, u)}) = n - 1
    BY <1>2, <1>3, EveryRank
  <2> HIDE DEF f, below
  <2>3. f[n] \in S /\ Cardinality({v \in S : Precedes(i, v, f[n])}) = n - 1
    BY <2>1, <2>2
  <2> QED BY <1>2, <2>3
<1>6. f \in [1..Cardinality(S) -> S]
  <2>1. f = [n \in 1..N |-> f[n]]
    BY <1>4
  <2> HIDE DEF f
  <2> QED BY <1>5, <2>1
<1> HIDE DEF f, below
<1>7. /\ f \in Seq(S) /\ Len(f) = Cardinality(S) /\ Cardinality(S) \in Nat
      /\ Range(f) = S /\ IsInjective(f)
  <2>1. \A n \in 1..Cardinality(S) : Cardinality(below[f[n]]) = n - 1
    BY <1>5
  <2> QED BY <1>3, <1>6, <2>1, ListedByRank, Zenon
<1> QED BY <1>7 DEF f

\* Better is a strict total order.
LEMMA BetterOrder ==
    ASSUME NEW i, NEW A, Scored(i, A)
    PROVE  /\ \A u \in A : ~ Better(i, u, u)
           /\ \A u, v \in A : u # v => Better(i, u, v) \/ Better(i, v, u)
           /\ \A u, v \in A : Better(i, u, v) => ~ Better(i, v, u)
           /\ \A u, v, w \in A : Better(i, u, v) /\ Better(i, v, w) => Better(i, u, w)
BY DEF Scored, Better

\* A finite set that is not empty has a worst member.
LEMMA WorstExists ==
    ASSUME NEW i, NEW H, IsFiniteSet(H), H # {}, Scored(i, H)
    PROVE  \E v \in H : \A w \in H \ {v} : Better(i, w, v)
<1> DEFINE below == [u \in H |-> {v \in H : Better(i, v, u)}]
           n == Cardinality(H)
<1>1. \A u \in H : below[u] = {v \in H : Better(i, v, u)}
  OBVIOUS
<1>2. Ranking(H, below)
  <2> HIDE DEF below
  <2>1. \A u \in H : below[u] \subseteq H \ {u}
    BY <1>1, BetterOrder
  <2>2. \A u, v \in H : u # v => u \in below[v] \/ v \in below[u]
    BY <1>1, BetterOrder
  <2>3. \A u, v \in H : u \in below[v] => below[u] \subseteq below[v]
    BY <1>1, BetterOrder
  <2> QED BY <2>1, <2>2, <2>3 DEF Ranking
<1> HIDE DEF below
<1>3. n \in Nat /\ n # 0
  BY FS_CardinalityType, FS_EmptySet
<1>4. PICK v \in H : Cardinality(below[v]) = n - 1
  <2>1. n \in 1..n
    BY <1>3
  <2> QED BY <1>2, <2>1, EveryRank
<1>5. below[v] \in SUBSET (H \ {v})
  BY <1>2 DEF Ranking
<1>6. IsFiniteSet(H \ {v}) /\ Cardinality(H \ {v}) = n - 1
  BY FS_RemoveElement
<1>7. below[v] = H \ {v}
  BY <1>4, <1>5, <1>6, FS_Subset
<1> QED BY <1>1, <1>7

\* H holds the best of A, up to t.
IsTop(i, H, A, t) ==
    /\ H \subseteq A /\ IsFiniteSet(H) /\ Cardinality(H) <= t
    /\ \A u \in H : \A v \in A \ H : Better(i, u, v)
    /\ Cardinality(H) < t => H = A

\* What an arrival makes of the heap.
Pushed(i, H, u, t) ==
    IF Cardinality(H) < t THEN H \cup {u}
    ELSE LET worst == CHOOSE v \in H : \A w \in H \ {v} : Better(i, w, v)
         IN  IF Better(i, u, worst) THEN (H \ {worst}) \cup {u} ELSE H

LEMMA TopStays ==
    ASSUME NEW i, NEW H, NEW A, NEW t \in Nat \ {0}, NEW u,
           IsTop(i, H, A, t), Scored(i, A \cup {u}), u \notin A
    PROVE  IsTop(i, Pushed(i, H, u, t), A \cup {u}, t)
<1>1. /\ H \subseteq A /\ IsFiniteSet(H) /\ Cardinality(H) <= t /\ Cardinality(H) \in Nat
      /\ \A h \in H : \A v \in A \ H : Better(i, h, v)
      /\ Cardinality(H) < t => H = A
  BY FS_CardinalityType DEF IsTop
<1>2. /\ \A a, b \in A \cup {u} : a # b => Better(i, a, b) \/ Better(i, b, a)
      /\ \A a, b, c \in A \cup {u} : Better(i, a, b) /\ Better(i, b, c) => Better(i, a, c)
  BY BetterOrder
<1>3. CASE Cardinality(H) < t
  <2>1. H = A /\ Pushed(i, H, u, t) = H \cup {u}
    BY <1>1, <1>3 DEF Pushed
  <2>2. IsFiniteSet(H \cup {u}) /\ Cardinality(H \cup {u}) = Cardinality(H) + 1
    BY <1>1, <2>1, FS_AddElement
  <2>3. Cardinality(H \cup {u}) <= t
    BY <1>1, <1>3, <2>2
  <2> QED BY <2>1, <2>2, <2>3 DEF IsTop
<1>4. CASE ~ (Cardinality(H) < t)
  <2> DEFINE worst == CHOOSE v \in H : \A w \in H \ {v} : Better(i, w, v)
  <2>1. Cardinality(H) = t /\ H # {}
    BY <1>1, <1>4, FS_EmptySet
  <2>2. Scored(i, H)
    BY <1>1 DEF Scored
  <2>3. worst \in H /\ \A w \in H \ {worst} : Better(i, w, worst)
    <3>1. \E v \in H : \A w \in H \ {v} : Better(i, w, v)
      BY <1>1, <2>1, <2>2, WorstExists
    <3> QED BY <3>1
  <2>4. Pushed(i, H, u, t) = IF Better(i, u, worst) THEN (H \ {worst}) \cup {u} ELSE H
    BY <1>4 DEF Pushed
  <2> HIDE DEF worst
  <2>5. CASE Better(i, u, worst)
    <3> DEFINE G == (H \ {worst}) \cup {u}
    <3>1. IsFiniteSet(H \ {worst}) /\ Cardinality(H \ {worst}) = t - 1
      BY <1>1, <2>1, <2>3, FS_RemoveElement
    <3>2. IsFiniteSet(G) /\ Cardinality(G) = t
      <4>1. u \notin H \ {worst}
        BY <1>1
      <4> QED BY <3>1, <4>1, FS_AddElement
    <3>3. G \subseteq A \cup {u}
      BY <1>1
    <3>4. ASSUME NEW h \in G, NEW v \in (A \cup {u}) \ G PROVE Better(i, h, v)
      <4>1. v \in A \ H \/ v = worst
        BY <3>4
      <4>2. CASE h = u
        <5>1. CASE v = worst
          BY <2>5, <4>2, <5>1
        <5>2. CASE v \in A \ H
          <6>1. Better(i, worst, v) /\ worst \in A
            BY <1>1, <2>3, <5>2
          <6> QED BY <1>2, <2>5, <4>2, <5>2, <6>1
        <5> QED BY <4>1, <5>1, <5>2
      <4>3. CASE h \in H \ {worst}
        BY <1>1, <2>3, <4>1, <4>3
      <4> QED BY <4>2, <4>3
    <3> HIDE DEF G
    <3>5. IsTop(i, G, A \cup {u}, t)
      BY <3>2, <3>3, <3>4 DEF IsTop
    <3> QED BY <2>4, <2>5, <3>5 DEF G
  <2>6. CASE ~ Better(i, u, worst)
    <3>1. Better(i, worst, u) /\ worst \in A
      BY <1>1, <1>2, <2>3, <2>6
    <3>2. ASSUME NEW h \in H, NEW v \in (A \cup {u}) \ H PROVE Better(i, h, v)
      <4>1. CASE v \in A \ H
        BY <1>1, <4>1
      <4>2. CASE v = u /\ h = worst
        BY <3>1, <4>2
      <4>3. CASE v = u /\ h # worst
        <5>1. Better(i, h, worst) /\ h \in A
          BY <1>1, <2>3, <4>3
        <5> QED BY <1>2, <3>1, <4>3, <5>1
      <4> QED BY <4>1, <4>2, <4>3
    <3>3. IsTop(i, H, A \cup {u}, t)
      BY <1>1, <2>1, <3>2 DEF IsTop
    <3> QED BY <2>4, <2>6, <3>3
  <2> QED BY <2>5, <2>6
<1> QED BY <1>3, <1>4

\* The best of U, up to t.
BestIn(i, U, t) == {u \in U : Cardinality({v \in U : Better(i, v, u)}) < t}

\* Once everything has arrived, or for a quota of zero, the heap holds the best of the
\* stratum.
LEMMA TopIsBest ==
    ASSUME NEW i, NEW H, NEW A, NEW t \in Nat, IsTop(i, H, A, t),
           NEW U, IsFiniteSet(U), Scored(i, U), A \subseteq U, A = U \/ t = 0
    PROVE  H = BestIn(i, U, t)
<1> DEFINE below == [u \in U |-> {v \in U : Better(i, v, u)}]
<1>1. /\ H \subseteq A /\ IsFiniteSet(H) /\ Cardinality(H) <= t /\ Cardinality(H) \in Nat
      /\ \A h \in H : \A v \in A \ H : Better(i, h, v)
      /\ Cardinality(H) < t => H = A
  BY FS_CardinalityType DEF IsTop
<1>2. \A u \in U : below[u] = {v \in U : Better(i, v, u)} /\ below[u] \in SUBSET U
  OBVIOUS
<1> HIDE DEF below
<1>3. \A u \in U : IsFiniteSet(below[u]) /\ Cardinality(below[u]) \in Nat
  BY <1>2, FS_Subset, FS_CardinalityType
<1> SUFFICES H = {u \in U : Cardinality({v \in U : Better(i, v, u)}) < t}
  BY DEF BestIn
<1>4. CASE t = 0
  <2>1. H = {}
    BY <1>1, <1>4, FS_EmptySet
  <2>2. \A u \in U : ~ (Cardinality(below[u]) < t)
    BY <1>3, <1>4
  <2> QED BY <1>2, <2>1, <2>2
<1>5. CASE A = U
  <2>1. ASSUME NEW u \in H PROVE Cardinality(below[u]) < t
    <3>1. below[u] \subseteq H \ {u}
      <4>1. ASSUME NEW v \in below[u] PROVE v \in H \ {u}
        <5>1. v \in U /\ Better(i, v, u) /\ u \in U
          BY <1>1, <1>2, <1>5, <2>1, <4>1
        <5>2. v # u /\ ~ Better(i, u, v)
          BY <5>1, BetterOrder
        <5> QED BY <1>1, <1>5, <2>1, <5>1, <5>2
      <4> QED BY <4>1
    <3>2. IsFiniteSet(H \ {u}) /\ Cardinality(H \ {u}) = Cardinality(H) - 1
      BY <1>1, <2>1, FS_RemoveElement
    <3>3. Cardinality(below[u]) <= Cardinality(H) - 1
      BY <3>1, <3>2, FS_Subset
    <3>4. Cardinality(below[u]) \in Nat
      BY <1>1, <1>3, <1>5, <2>1
    <3> QED BY <1>1, <3>3, <3>4
  <2>2. ASSUME NEW u \in U, u \notin H PROVE ~ (Cardinality(below[u]) < t)
    <3>1. Cardinality(H) = t
      BY <1>1, <1>5, <2>2
    <3>2. H \subseteq below[u]
      BY <1>1, <1>2, <1>5, <2>2
    <3>3. Cardinality(H) <= Cardinality(below[u])
      BY <1>3, <2>2, <3>2, FS_Subset
    <3> QED BY <1>1, <1>3, <2>2, <3>1, <3>3
  <2>3. H \subseteq U
    BY <1>1, <1>5
  <2>4. \A u \in U : u \in H <=> Cardinality({v \in U : Better(i, v, u)}) < t
    BY <1>2, <2>1, <2>2
  <2> QED BY <2>3, <2>4
<1> QED BY <1>4, <1>5
-----------------------------------------------------------------------------
(***************************************************************************)
(* The corpus files.                                                       *)
(***************************************************************************)
\* A quotient and a remainder are the only ones.
LEMMA RemainderUnique ==
    ASSUME NEW m \in Nat \ {0}, NEW q \in Nat, NEW t \in 0..(m - 1)
    PROVE  (m * q + t) % m = t
<1> DEFINE b == m * q + t
           p == b \div m
           r == b % m
<1>1. b \in Nat
  <2>1. m * q \in Nat
    OBVIOUS
  <2> QED BY <2>1
<1>2. p \in Nat /\ r \in Nat /\ r < m /\ b = m * p + r
  <2> HIDE DEF b
  <2> QED BY <1>1, Division
<1>3. m * q + t = m * p + r
  BY <1>2
<1> HIDE DEF p, r
<1>4. m * (q - p) = m * q - m * p /\ m * q \in Int /\ m * p \in Int
  BY <1>2
<1>5. m * (q - p) = r - t
  BY <1>2, <1>3, <1>4
<1>6. ASSUME NEW k \in Nat \ {0} PROVE m * k >= m
  <2>1. m * k = m * (k - 1) + m /\ m * (k - 1) >= 0
    <3>1. k - 1 \in Nat
      OBVIOUS
    <3> QED BY <3>1
  <2>2. m * (k - 1) \in Int
    OBVIOUS
  <2> QED BY <2>1, <2>2
<1>7. ~ (q > p)
  <2> SUFFICES ASSUME q > p PROVE FALSE
    OBVIOUS
  <2>1. q - p \in Nat \ {0}
    BY <1>2
  <2>2. m * (q - p) >= m
    BY <1>6, <2>1
  <2> QED BY <1>2, <1>5, <2>2
<1>8. ~ (p > q)
  <2> SUFFICES ASSUME p > q PROVE FALSE
    OBVIOUS
  <2>1. p - q \in Nat \ {0}
    BY <1>2
  <2>2. m * (p - q) >= m
    BY <1>6, <2>1
  <2>3. m * (p - q) = - (m * (q - p))
    BY <1>2
  <2>4. m * (p - q) = t - r
    BY <1>2, <1>5, <2>3
  <2> QED BY <1>2, <2>2, <2>4
<1>9. q = p
  BY <1>2, <1>7, <1>8
<1>10. r = t
  BY <1>2, <1>3, <1>4, <1>9
<1> QED BY <1>10 DEF r

\* The places of the corpus that shard s of m gets.
Places(n, m, s) == {p \in 1..n : ShardOf(p - 1, m) = s}

LEMMA PlacesFinite ==
    ASSUME NEW n \in Nat, NEW m, NEW s
    PROVE  /\ IsFiniteSet(Places(n, m, s)) /\ Cardinality(Places(n, m, s)) \in Nat
           /\ Cardinality(Places(n, m, s)) <= n
<1>1. IsFiniteSet(1..n) /\ Cardinality(1..n) = n
  <2>1. 1 \in Int /\ n \in Int
    OBVIOUS
  <2>2. /\ IsFiniteSet(1..n)
        /\ Cardinality(1..n) = IF 1 > n THEN 0 ELSE n - 1 + 1
    BY <2>1, FS_Interval
  <2> QED BY <2>2
<1>2. Places(n, m, s) \in SUBSET (1..n)
  BY DEF Places
<1> QED BY <1>1, <1>2, FS_Subset, FS_CardinalityType

LEMMA PlacesBalanced ==
    ASSUME NEW n \in Nat, NEW m \in Nat \ {0}, NEW s \in 0..(m - 1), NEW t \in 0..(m - 1)
    PROVE  Cardinality(Places(n, m, s)) <= Cardinality(Places(n, m, t)) + 1
<1> DEFINE P == Places(n, m, s)
           Q == Places(n, m, t)
           shift == IF s >= t THEN s - t ELSE s - t + m
           g == [p \in P \ {s + 1} |-> p - shift]
<1>1. /\ IsFiniteSet(P) /\ Cardinality(P) \in Nat
      /\ IsFiniteSet(Q) /\ Cardinality(Q) \in Nat
  BY PlacesFinite
<1>2. shift \in Nat /\ (s >= t => shift = s - t) /\ (~ (s >= t) => shift = s - t + m)
  OBVIOUS
<1> HIDE DEF shift
<1>3. ASSUME NEW p \in P \ {s + 1} PROVE p - shift \in Q
  <2> DEFINE a == p - 1
             b == a - shift
  <2>1. p \in 1..n /\ a \in Nat /\ a % m = s /\ a # s
    BY DEF Places, ShardOf
  <2>2. (s >= t => b = a - (s - t)) /\ (~ (s >= t) => b = a - (s - t + m))
    BY <1>2
  <2>3. b \in Nat /\ b % m = t
    <3> HIDE DEF a, b
    <3> DEFINE q == a \div m
    <3>1. q \in Nat /\ s \in Nat /\ s < m /\ a = m * q + s
      BY <2>1, Division
    <3> HIDE DEF q
    <3>2. m * q \in Nat
      BY <3>1
    <3>3. CASE s >= t
      <4>1. b = m * q + t
        BY <2>2, <3>1, <3>2, <3>3
      <4>2. (m * q + t) % m = t
        BY <3>1, RemainderUnique
      <4> QED BY <3>2, <4>1, <4>2
    <3>4. CASE ~ (s >= t)
      <4>1. q >= 1
        <5>1. ASSUME q = 0 PROVE FALSE
          <6>1. m * q = 0
            BY <5>1
          <6> QED BY <2>1, <3>1, <6>1
        <5> QED BY <3>1, <5>1
      <4>2. m * q = m * (q - 1) + m /\ q - 1 \in Nat
        BY <3>1, <4>1
      <4>3. m * (q - 1) \in Nat
        BY <4>2
      <4>4. b = m * (q - 1) + t
        BY <2>2, <3>1, <3>2, <3>4, <4>2, <4>3
      <4>5. (m * (q - 1) + t) % m = t
        BY <4>2, RemainderUnique
      <4> QED BY <4>3, <4>4, <4>5
    <3> QED BY <3>3, <3>4
  <2>4. p - shift \in 1..n /\ (p - shift) - 1 = b
    BY <1>2, <2>1, <2>3
  <2> QED BY <2>3, <2>4 DEF Places, ShardOf
<1>4. g \in [P \ {s + 1} -> Q]
  BY <1>3
<1>5. IsInjective(g)
  <2>1. \A p \in P : p \in Int
    BY DEF Places
  <2> QED BY <1>2, <2>1 DEF IsInjective
<1>6. g \in Injection(P \ {s + 1}, Q)
  BY <1>4, <1>5 DEF Injection
<1> HIDE DEF P, Q, g
<1>7. Cardinality(P \ {s + 1}) <= Cardinality(Q)
  BY <1>1, <1>6, FS_Injection
<1>8. Cardinality(P \ {s + 1}) = Cardinality(P) - 1 \/ Cardinality(P \ {s + 1}) = Cardinality(P)
  BY <1>1, FS_RemoveElement
<1> QED BY <1>1, <1>7, <1>8 DEF P, Q

\* Every place belongs to one shard.
LEMMA PlacesAddUp ==
    ASSUME NEW n \in Nat, NEW m \in Nat \ {0}, NEW f,
           \A s \in 0..(m - 1) : f[s] = Cardinality(Places(n, m, s))
    PROVE  Total(f, 0..(m - 1)) = n
<1> DEFINE S == 0..(m - 1)
           Of(T) == {p \in 1..n : ShardOf(p - 1, m) \in T}
           X == {T \in SUBSET S : Total(f, T) = Cardinality(Of(T))}
<1>1. IsFiniteSet(S)
  <2>1. 0 \in Int /\ m - 1 \in Int
    OBVIOUS
  <2> QED BY <2>1, FS_Interval
<1>2. IsFiniteSet(1..n) /\ Cardinality(1..n) = n
  <2>1. 1 \in Int /\ n \in Int
    OBVIOUS
  <2>2. IsFiniteSet(1..n) /\ Cardinality(1..n) = IF 1 > n THEN 0 ELSE n - 1 + 1
    BY <2>1, FS_Interval
  <2> QED BY <2>2
<1>3. {} \in X
  <2>1. Of({}) = {}
    OBVIOUS
  <2>2. Cardinality(Of({})) = 0
    BY <2>1, FS_EmptySet
  <2> QED BY <2>2, CellsEmpty
<1>4. ASSUME NEW T \in SUBSET S, T # {}
      PROVE  \E x \in T : T \ {x} \in X => T \in X
  <2>1. PICK x : x \in T
    BY <1>4
  <2>2. IsFiniteSet(T) /\ \A s \in T : f[s] \in Nat
    <3>1. \A s \in T : f[s] = Cardinality(Places(n, m, s))
      OBVIOUS
    <3>2. \A s \in T : Cardinality(Places(n, m, s)) \in Nat
      BY PlacesFinite
    <3> QED BY <1>1, <3>1, <3>2, FS_Subset
  <2>3. Total(f, T) = f[x] + Total(f, T \ {x})
    BY <2>1, <2>2, TotalIs
  <2>4. Of(T) = Of(T \ {x}) \cup Places(n, m, x) /\ Of(T \ {x}) \cap Places(n, m, x) = {}
    BY <2>1 DEF Places
  <2>5. ASSUME T \ {x} \in X PROVE T \in X
    <3> DEFINE A == Of(T \ {x})
               B == Places(n, m, x)
    <3>1. Total(f, T \ {x}) = Cardinality(A)
      BY <2>5
    <3>2. A \in SUBSET (1..n) /\ Of(T) = A \cup B /\ A \cap B = {}
      BY <2>4
    <3>3. f[x] = Cardinality(B)
      BY <2>1
    <3> HIDE DEF A, B
    <3>4. IsFiniteSet(A) /\ IsFiniteSet(B) /\ Cardinality(A) \in Nat /\ Cardinality(B) \in Nat
      BY <1>2, <3>2, FS_Subset, FS_CardinalityType, PlacesFinite DEF B
    <3>5. Cardinality(A \cup B) = Cardinality(A) + Cardinality(B)
      <4>1. Cardinality(A \cup B) = Cardinality(A) + Cardinality(B) - Cardinality(A \cap B)
        BY <3>4, FS_Union
      <4>2. Cardinality(A \cap B) = 0
        BY <3>2, FS_EmptySet
      <4> QED BY <3>4, <4>1, <4>2
    <3>6. Total(f, T) = Cardinality(Of(T))
      BY <2>3, <3>1, <3>2, <3>3, <3>4, <3>5
    <3> QED BY <3>6
  <2> QED BY <2>1, <2>5
<1>5. S \in X
  <2> HIDE DEF X, S
  <2> QED BY <1>1, <1>3, <1>4, SetInduction
<1>6. Of(S) = 1..n
  <2>1. \A p \in 1..n : ShardOf(p - 1, m) \in S
    <3> SUFFICES ASSUME NEW p \in 1..n PROVE (p - 1) % m \in S
      BY DEF ShardOf
    <3>1. p - 1 \in Nat
      OBVIOUS
    <3>2. (p - 1) % m \in Nat /\ (p - 1) % m < m
      BY <3>1, Division
    <3> QED BY <3>2
  <2> QED BY <2>1
<1> QED BY <1>2, <1>5, <1>6

\* File s holds the URIs of the places of shard s, in their order.
LEMMA ShardFileIs ==
    ASSUME NEW uris \in Seq(Nat), NEW m \in Nat \ {0}, NEW s \in 0..(m - 1)
    PROVE  LET P == Places(Len(uris), m, s)
               file == ShardFiles(uris, m)[s]
           IN  \E mine \in Seq(P) :
                  /\ Len(mine) = Cardinality(P) /\ Range(mine) = P /\ IsInjective(mine)
                  /\ Len(file) = Len(mine)
                  /\ \A i \in 1..Len(mine) : file[i] = uris[mine[i]]
<1> DEFINE N == Len(uris)
           P == Places(N, m, s)
           below == [u \in P |-> {v \in P : v < u}]
           mine == InOrder(P, <)
           file == ShardFiles(uris, m)[s]
<1>1. N \in Nat /\ P \subseteq 1..N /\ IsFiniteSet(P)
  <2>1. N \in Nat
    OBVIOUS
  <2>2. P \subseteq 1..N
    BY DEF Places
  <2> HIDE DEF N
  <2>3. IsFiniteSet(P)
    BY <2>1, PlacesFinite
  <2> QED BY <2>1, <2>2, <2>3
<1>2. \A u \in P : u \in Int
  BY <1>1
<1> DEFINE Nth(n) == CHOOSE u \in P : Cardinality({v \in P : v < u}) = n - 1
<1>3. mine = [n \in 1..Cardinality(P) |-> Nth(n)]
  BY DEF InOrder
<1>4. file = [i \in 1..Len(mine) |-> uris[mine[i]]]
  BY DEF ShardFiles, Places
<1> HIDE DEF P, N, file, mine
<1>5. \A u \in P : below[u] = {v \in P : v < u}
  OBVIOUS
<1>6. Ranking(P, below)
  <2> HIDE DEF below
  <2>1. \A u \in P : below[u] \subseteq P \ {u}
    BY <1>2, <1>5
  <2>2. \A u, v \in P : u # v => u \in below[v] \/ v \in below[u]
    BY <1>2, <1>5
  <2>3. \A u, v \in P : u \in below[v] => below[u] \subseteq below[v]
    BY <1>2, <1>5
  <2> QED BY <1>1, <2>1, <2>2, <2>3 DEF Ranking
<1>7. ASSUME NEW n \in 1..Cardinality(P)
      PROVE  mine[n] \in P /\ Cardinality(below[mine[n]]) = n - 1
  <2>1. mine[n] = CHOOSE u \in P : Cardinality({v \in P : v < u}) = n - 1
    BY <1>3
  <2> HIDE DEF below
  <2>2. \E u \in P : Cardinality(below[u]) = n - 1
    BY <1>6, EveryRank
  <2>3. \E u \in P : Cardinality({v \in P : v < u}) = n - 1
    BY <1>5, <2>2
  <2>4. mine[n] \in P /\ Cardinality({v \in P : v < mine[n]}) = n - 1
    BY <2>1, <2>3
  <2> QED BY <1>5, <2>4
<1>8. mine \in [1..Cardinality(P) -> P]
  <2> HIDE DEF Nth
  <2>1. mine = [n \in 1..Cardinality(P) |-> mine[n]]
    BY <1>3
  <2> QED BY <1>7, <2>1
<1> HIDE DEF below
<1>9. \A n \in 1..Cardinality(P) : Cardinality(below[mine[n]]) = n - 1
  BY <1>7
<1>10. /\ mine \in Seq(P) /\ Len(mine) = Cardinality(P) /\ Cardinality(P) \in Nat
       /\ Range(mine) = P /\ IsInjective(mine)
  BY <1>6, <1>8, <1>9, ListedByRank, Zenon
<1>11. Len(file) = Len(mine) /\ \A i \in 1..Len(mine) : file[i] = uris[mine[i]]
  <2>1. \A i \in 1..Len(mine) : uris[mine[i]] \in Nat
    <3>1. \A i \in 1..Len(mine) : mine[i] \in P
      BY <1>10, EntryOfSeq
    <3>2. \A i \in 1..Len(mine) : mine[i] \in 1..Len(uris)
      BY <1>1, <3>1 DEF N
    <3> QED BY <3>2, EntryOfSeq
  <2>2. file \in [1..Len(mine) -> Nat] /\ Len(mine) \in Nat
    BY <1>4, <1>10, <2>1
  <2>3. Len(file) = Len(mine)
    BY <2>2, FunctionIsSeq
  <2> QED BY <1>4, <2>3
<1> QED BY <1>10, <1>11 DEF P, N, file
-----------------------------------------------------------------------------
(***************************************************************************)
(* The samples joined, and what holds at every step.                       *)
(***************************************************************************)
\* FlattenSeq's recursive function, and the first n of the sequences joined.
Joining(seqs, n, g) == g = [i \in 1..n |-> IF i = 1 THEN seqs[i] ELSE g[i - 1] \o seqs[i]]
Joined(seqs)        == CHOOSE g : Joining(seqs, Len(seqs), g)
JoinedTo(seqs, n)   == IF n = 0 THEN << >> ELSE Joined(seqs)[n]

LEMMA JoiningExists ==
    ASSUME NEW seqs, NEW N \in Nat
    PROVE  \E g : Joining(seqs, N, g)
<1> DEFINE X == {n \in Nat : \E g : Joining(seqs, n, g)}
<1>1. 0 \in X
  <2> DEFINE g == [i \in 1..0 |-> 0]
  <2>1. 1..0 = {}
    OBVIOUS
  <2>2. g = [i \in 1..0 |-> IF i = 1 THEN seqs[i] ELSE g[i - 1] \o seqs[i]]
    BY <2>1
  <2> QED BY <2>2 DEF Joining
<1>2. ASSUME NEW n \in 0..(N - 1), n \in X PROVE n + 1 \in X
  <2>1. PICK g : Joining(seqs, n, g)
    BY <1>2
  <2>2. \A i \in 1..n : g[i] = IF i = 1 THEN seqs[i] ELSE g[i - 1] \o seqs[i]
    BY <2>1 DEF Joining
  <2> DEFINE h == [i \in 1..(n + 1) |->
                     IF i <= n THEN g[i] ELSE IF i = 1 THEN seqs[i] ELSE g[i - 1] \o seqs[i]]
  <2>3. ASSUME NEW i \in 1..(n + 1)
        PROVE  h[i] = IF i = 1 THEN seqs[i] ELSE h[i - 1] \o seqs[i]
    <3>1. i # 1 => i - 1 \in 1..(n + 1) /\ i - 1 <= n
      OBVIOUS
    <3>2. i # 1 => h[i - 1] = g[i - 1]
      BY <3>1
    <3>3. CASE i <= n
      <4>1. h[i] = g[i] /\ i \in 1..n
        BY <3>3
      <4> HIDE DEF h
      <4> QED BY <2>2, <3>2, <4>1
    <3>4. CASE ~ (i <= n)
      <4>1. h[i] = IF i = 1 THEN seqs[i] ELSE g[i - 1] \o seqs[i]
        BY <3>4
      <4> HIDE DEF h
      <4> QED BY <3>2, <4>1
    <3> QED BY <3>3, <3>4
  <2>4. h = [i \in 1..(n + 1) |-> h[i]]
    OBVIOUS
  <2> HIDE DEF h
  <2>5. Joining(seqs, n + 1, h)
    BY <2>3, <2>4 DEF Joining
  <2> QED BY <2>5
<1> HIDE DEF X
<1>3. N \in X
  BY <1>1, <1>2, CountUp
<1> QED BY <1>3 DEF X

LEMMA JoinedIs ==
    ASSUME NEW T, NEW seqs \in Seq(Seq(T))
    PROVE  /\ JoinedTo(seqs, 0) = << >>
           /\ \A n \in 0..(Len(seqs) - 1) :
                 JoinedTo(seqs, n) \in Seq(T) =>
                    /\ JoinedTo(seqs, n + 1) = JoinedTo(seqs, n) \o seqs[n + 1]
                    /\ JoinedTo(seqs, n + 1) \in Seq(T)
           /\ Len(seqs) > 0 => FlattenSeq(seqs) = JoinedTo(seqs, Len(seqs))
<1> DEFINE g == Joined(seqs)
           N == Len(seqs)
<1>1. Joining(seqs, N, g)
  <2>1. N \in Nat
    OBVIOUS
  <2>2. \E h : Joining(seqs, Len(seqs), h)
    BY <2>1, JoiningExists
  <2> QED BY <2>2, Zenon DEF Joined
<1> HIDE DEF g
<1>2. \A i \in 1..N : g[i] = IF i = 1 THEN seqs[i] ELSE g[i - 1] \o seqs[i]
  BY <1>1 DEF Joining
<1>3. JoinedTo(seqs, 0) = << >>
  BY DEF JoinedTo
<1>4. ASSUME NEW n \in 0..(N - 1), JoinedTo(seqs, n) \in Seq(T)
      PROVE  /\ JoinedTo(seqs, n + 1) = JoinedTo(seqs, n) \o seqs[n + 1]
             /\ JoinedTo(seqs, n + 1) \in Seq(T)
  <2>1. seqs[n + 1] \in Seq(T) /\ n + 1 \in 1..N /\ n + 1 # 0
    OBVIOUS
  <2>2. JoinedTo(seqs, n + 1) = g[n + 1]
    BY <2>1 DEF JoinedTo, g
  <2>3. CASE n = 0
    <3>1. JoinedTo(seqs, n) = << >> /\ g[n + 1] = seqs[n + 1]
      BY <1>2, <1>3, <2>1, <2>3
    <3>2. << >> \o seqs[n + 1] = seqs[n + 1]
      BY <2>1
    <3> QED BY <2>1, <2>2, <3>1, <3>2
  <2>4. CASE n # 0
    <3>1. JoinedTo(seqs, n) = g[n]
      BY <2>4 DEF JoinedTo, g
    <3>2. n + 1 # 1 /\ (n + 1) - 1 = n
      BY <2>4
    <3>3. g[n + 1] = g[n] \o seqs[n + 1]
      BY <1>2, <2>1, <3>2
    <3>4. g[n] \in Seq(T)
      BY <1>4, <3>1
    <3>5. g[n] \o seqs[n + 1] \in Seq(T)
      BY <2>1, <3>4
    <3> QED BY <2>2, <3>1, <3>3, <3>5
  <2> QED BY <2>3, <2>4
<1>5. ASSUME N > 0 PROVE FlattenSeq(seqs) = JoinedTo(seqs, N)
  <2>1. FlattenSeq(seqs) = Joined(seqs)[N]
    BY <1>5 DEF FlattenSeq, Joined, Joining
  <2> QED BY <1>5, <2>1 DEF JoinedTo
<1> QED BY <1>3, <1>4, <1>5

LEMMA ConcatIs ==
    ASSUME NEW c \in Seq(Nat), NEW d \in Seq(Nat)
    PROVE  /\ c \o d \in Seq(Nat) /\ Len(c \o d) = Len(c) + Len(d)
           /\ Range(c \o d) = Range(c) \cup Range(d)
           /\ IsInjective(c) /\ IsInjective(d) /\ Range(c) \cap Range(d) = {}
                 => IsInjective(c \o d)
<1> DEFINE e == c \o d
           m == Len(c)
           n == Len(d)
<1>1. e \in Seq(Nat) /\ Len(e) = m + n /\ m \in Nat /\ n \in Nat
  OBVIOUS
<1>2. DOMAIN c = 1..m /\ DOMAIN d = 1..n /\ DOMAIN e = 1..(m + n)
  OBVIOUS
<1>3. \A i \in 1..m : i \in 1..(m + n) /\ e[i] = c[i]
  OBVIOUS
<1>4. \A i \in (m + 1)..(m + n) : i - m \in 1..n /\ e[i] = d[i - m]
  OBVIOUS
<1>5. \A i \in 1..n : i + m \in 1..(m + n) /\ e[i + m] = d[i]
  OBVIOUS
<1>6. \A i \in 1..(m + n) : i \in 1..m \/ i \in (m + 1)..(m + n)
  BY <1>1
<1> HIDE DEF e, m, n
<1>7. ASSUME NEW x \in Range(e) PROVE x \in Range(c) \cup Range(d)
  <2>1. PICK i \in 1..(m + n) : x = e[i]
    BY <1>2 DEF Range
  <2>2. CASE i \in 1..m
    BY <1>2, <1>3, <2>1, <2>2 DEF Range
  <2>3. CASE i \in (m + 1)..(m + n)
    BY <1>2, <1>4, <2>1, <2>3 DEF Range
  <2> QED BY <1>6, <2>2, <2>3
<1>8. ASSUME NEW x \in Range(c) \cup Range(d) PROVE x \in Range(e)
  <2>1. CASE x \in Range(c)
    <3>1. PICK i \in 1..m : x = c[i]
      BY <1>2, <2>1 DEF Range
    <3> QED BY <1>2, <1>3, <3>1 DEF Range
  <2>2. CASE x \in Range(d)
    <3>1. PICK i \in 1..n : x = d[i]
      BY <1>2, <2>2 DEF Range
    <3>2. i + m \in 1..(m + n) /\ e[i + m] = x
      BY <1>5, <3>1
    <3> QED BY <1>2, <3>2 DEF Range
  <2> QED BY <2>1, <2>2
<1>9. ASSUME IsInjective(c), IsInjective(d), Range(c) \cap Range(d) = {},
             NEW i \in 1..(m + n), NEW k \in 1..(m + n), e[i] = e[k]
      PROVE  i = k
  <2>1. \A p, q \in 1..m : c[p] = c[q] => p = q
    BY <1>2, <1>9 DEF IsInjective
  <2>2. \A p, q \in 1..n : d[p] = d[q] => p = q
    BY <1>2, <1>9 DEF IsInjective
  <2>3. \A p \in 1..m, q \in 1..n : c[p] # d[q]
    BY <1>2, <1>9 DEF Range
  <2>4. CASE i \in 1..m /\ k \in 1..m
    BY <1>3, <1>9, <2>1, <2>4
  <2>5. CASE i \in 1..m /\ k \in (m + 1)..(m + n)
    BY <1>3, <1>4, <1>9, <2>3, <2>5
  <2>6. CASE i \in (m + 1)..(m + n) /\ k \in 1..m
    BY <1>3, <1>4, <1>9, <2>3, <2>6
  <2>7. CASE i \in (m + 1)..(m + n) /\ k \in (m + 1)..(m + n)
    <3>1. i - m = k - m
      BY <1>4, <1>9, <2>2, <2>7
    <3> QED BY <1>1, <2>7, <3>1
  <2> QED BY <1>6, <2>4, <2>5, <2>6, <2>7
<1>10. IsInjective(c) /\ IsInjective(d) /\ Range(c) \cap Range(d) = {} => IsInjective(e)
  BY <1>2, <1>9 DEF IsInjective
<1> QED BY <1>1, <1>7, <1>8, <1>10 DEF e, m, n
-----------------------------------------------------------------------------
\* Best, Taken and the samples of a call j with the quotas q.
TopOf(j, q, i)  == BestIn(i, j.strata[i].uris, q[i])
NewOf(j, q, i)  == TopOf(j, q, i) \ UNION {TopOf(j, q, k) : k \in 1..(i - 1)}
SamplesOf(j, q) == [i \in Strata(j) |-> Sorted(i, NewOf(j, q, i))]

\* The corpus c and the counts r after n strata.
Sampled(j, q, c, r, n) ==
    /\ c \in Seq(Nat) /\ IsInjective(c)
    /\ c = JoinedTo(SamplesOf(j, q), n)
    /\ Range(c) = UNION {TopOf(j, q, k) : k \in 1..n}
    /\ r \in Seq(Nat) /\ Len(r) = n
    /\ \A k \in 1..n : r[k] <= q[k]
    /\ Total(r, 1..n) = Len(c)

LEMMA SamplesAre ==
    ASSUME NEW j, IsJob(j), NEW q
    PROVE  /\ SamplesOf(j, q) \in Seq(Seq(Nat)) /\ Len(SamplesOf(j, q)) = Len(j.strata)
           /\ \A i \in Strata(j) :
                 /\ Scored(i, j.strata[i].uris)
                 /\ IsFiniteSet(TopOf(j, q, i)) /\ Scored(i, TopOf(j, q, i))
                 /\ SamplesOf(j, q)[i] = Sorted(i, NewOf(j, q, i))
<1>1. Len(j.strata) \in Nat
  BY JobParts
<1>2. ASSUME NEW i \in Strata(j)
      PROVE  /\ Scored(i, j.strata[i].uris)
             /\ IsFiniteSet(TopOf(j, q, i)) /\ Scored(i, TopOf(j, q, i))
             /\ Sorted(i, NewOf(j, q, i)) \in Seq(Nat)
  <2>1. /\ IsFiniteSet(j.strata[i].uris) /\ j.strata[i].uris \subseteq Nat
        /\ \A u \in j.strata[i].uris : Score[i][u] \in Nat
    BY JobParts
  <2>2. Scored(i, j.strata[i].uris)
    BY <2>1 DEF Scored
  <2>3. TopOf(j, q, i) \in SUBSET j.strata[i].uris
    BY DEF TopOf, BestIn
  <2>4. IsFiniteSet(TopOf(j, q, i)) /\ Scored(i, TopOf(j, q, i))
    BY <2>1, <2>2, <2>3, FS_Subset DEF Scored
  <2>5. NewOf(j, q, i) \in SUBSET TopOf(j, q, i)
    BY DEF NewOf
  <2>6. IsFiniteSet(NewOf(j, q, i)) /\ Scored(i, NewOf(j, q, i))
    BY <2>4, <2>5, FS_Subset DEF Scored
  <2>7. Sorted(i, NewOf(j, q, i)) \in Seq(NewOf(j, q, i))
    BY <2>6, SortedIs
  <2>8. NewOf(j, q, i) \subseteq Nat
    BY <2>6 DEF Scored
  <2>9. Seq(NewOf(j, q, i)) \subseteq Seq(Nat)
    BY <2>8
  <2> QED BY <2>2, <2>4, <2>7, <2>9
<1>3. SamplesOf(j, q) \in [1..Len(j.strata) -> Seq(Nat)]
  BY <1>2 DEF SamplesOf, Strata
<1>4. SamplesOf(j, q) \in Seq(Seq(Nat)) /\ Len(SamplesOf(j, q)) = Len(j.strata)
  BY <1>1, <1>3, FunctionIsSeq
<1>5. \A i \in Strata(j) : SamplesOf(j, q)[i] = Sorted(i, NewOf(j, q, i))
  BY DEF SamplesOf
<1> QED BY <1>2, <1>4, <1>5

\* Nothing is sampled at first ...
LEMMA NothingSampled == ASSUME NEW j, NEW q PROVE Sampled(j, q, << >>, << >>, 0)
<1>1. << >> \in Seq(Nat) /\ Len(<< >>) = 0 /\ DOMAIN << >> = {} /\ 1..0 = {}
  OBVIOUS
<1>2. IsInjective(<< >>) /\ Range(<< >>) = {}
  BY <1>1 DEF IsInjective, Range
<1>3. UNION {TopOf(j, q, k) : k \in 1..0} = {}
  BY <1>1
<1>4. Total(<< >>, 1..0) = 0
  BY <1>1, CellsEmpty
<1>5. JoinedTo(SamplesOf(j, q), 0) = << >>
  BY DEF JoinedTo
<1> QED BY <1>1, <1>2, <1>3, <1>4, <1>5 DEF Sampled

\* ... and the end of a stratum adds its sample.
LEMMA OneMoreSample ==
    ASSUME NEW j, IsJob(j), NEW q, \A i \in Strata(j) : q[i] \in Nat,
           NEW n \in 0..(Len(j.strata) - 1), NEW c, NEW r, Sampled(j, q, c, r, n),
           NEW H, H = TopOf(j, q, n + 1), Cardinality(H) <= q[n + 1],
           NEW d, d = Sorted(n + 1, H \ Range(c))
    PROVE  Sampled(j, q, c \o d, Append(r, Len(d)), n + 1)
<1> DEFINE e == c \o d
           x == Append(r, Len(d))
<1>1. n + 1 \in Strata(j) /\ Len(j.strata) \in Nat /\ n \in Nat
  BY JobParts DEF Strata
<1>2. /\ c \in Seq(Nat) /\ IsInjective(c) /\ c = JoinedTo(SamplesOf(j, q), n)
      /\ Range(c) = UNION {TopOf(j, q, k) : k \in 1..n}
      /\ r \in Seq(Nat) /\ Len(r) = n
      /\ \A k \in 1..n : r[k] <= q[k]
      /\ Total(r, 1..n) = Len(c)
  BY DEF Sampled
<1>3. IsFiniteSet(H) /\ Scored(n + 1, H) /\ Cardinality(H) \in Nat
  BY <1>1, SamplesAre, FS_CardinalityType
<1>4. H \ Range(c) \in SUBSET H
  OBVIOUS
<1>5. /\ IsFiniteSet(H \ Range(c)) /\ Scored(n + 1, H \ Range(c))
      /\ Cardinality(H \ Range(c)) <= Cardinality(H)
  BY <1>3, <1>4, FS_Subset DEF Scored
<1>6. /\ d \in Seq(H \ Range(c)) /\ Len(d) = Cardinality(H \ Range(c)) /\ Len(d) \in Nat
      /\ Range(d) = H \ Range(c) /\ IsInjective(d)
  BY <1>5, SortedIs
<1>7. d \in Seq(Nat)
  <2>1. H \ Range(c) \subseteq Nat
    BY <1>5 DEF Scored
  <2>2. Seq(H \ Range(c)) \subseteq Seq(Nat)
    BY <2>1
  <2> QED BY <1>6, <2>2
<1>8. Len(d) <= q[n + 1]
  BY <1>1, <1>3, <1>5, <1>6
<1>9. /\ e \in Seq(Nat) /\ Len(e) = Len(c) + Len(d)
      /\ Range(e) = Range(c) \cup Range(d) /\ IsInjective(e)
  <2>1. Range(c) \cap Range(d) = {}
    BY <1>6
  <2>2. c \in Seq(Nat) /\ IsInjective(c) /\ IsInjective(d)
    BY <1>2, <1>6
  <2>3. /\ c \o d \in Seq(Nat) /\ Len(c \o d) = Len(c) + Len(d)
        /\ Range(c \o d) = Range(c) \cup Range(d)
        /\ IsInjective(c) /\ IsInjective(d) /\ Range(c) \cap Range(d) = {}
              => IsInjective(c \o d)
    BY <1>7, <2>2, ConcatIs
  <2> QED BY <2>1, <2>2, <2>3
<1>10. e = JoinedTo(SamplesOf(j, q), n + 1)
  <2>1. NewOf(j, q, n + 1) = H \ Range(c)
    <3>1. (n + 1) - 1 = n
      BY <1>1
    <3> QED BY <1>2, <3>1 DEF NewOf
  <2>2. SamplesOf(j, q)[n + 1] = d
    BY <1>1, <2>1, SamplesAre
  <2>3. SamplesOf(j, q) \in Seq(Seq(Nat)) /\ Len(SamplesOf(j, q)) = Len(j.strata)
    BY SamplesAre
  <2>4. n \in 0..(Len(SamplesOf(j, q)) - 1) /\ JoinedTo(SamplesOf(j, q), n) \in Seq(Nat)
    BY <1>2, <2>3
  <2>5. JoinedTo(SamplesOf(j, q), n + 1)
           = JoinedTo(SamplesOf(j, q), n) \o SamplesOf(j, q)[n + 1]
    BY <2>3, <2>4, JoinedIs
  <2> QED BY <1>2, <2>2, <2>5
<1>11. Range(e) = UNION {TopOf(j, q, k) : k \in 1..(n + 1)}
  <2>1. 1..(n + 1) = (1..n) \cup {n + 1}
    BY <1>1
  <2>2. UNION {TopOf(j, q, k) : k \in 1..(n + 1)}
           = (UNION {TopOf(j, q, k) : k \in 1..n}) \cup TopOf(j, q, n + 1)
    BY <2>1
  <2> HIDE DEF e
  <2> QED BY <1>2, <1>6, <1>9, <2>2
<1>12. x \in Seq(Nat) /\ Len(x) = n + 1
  BY <1>2, <1>6
<1>13. (\A k \in 1..n : x[k] = r[k]) /\ x[n + 1] = Len(d)
  BY <1>2, <1>6
<1> HIDE DEF e, x
<1>14. \A k \in 1..(n + 1) : x[k] <= q[k]
  <2>1. \A k \in 1..(n + 1) : k \in 1..n \/ k = n + 1
    BY <1>1
  <2> QED BY <1>2, <1>8, <1>13, <2>1
<1>15. Total(x, 1..(n + 1)) = Len(e)
  <2>1. IsFiniteSet(1..(n + 1))
    <3>1. 1 \in Int /\ n + 1 \in Int
      BY <1>1
    <3> QED BY <3>1, FS_Interval
  <2>2. \A k \in 1..(n + 1) : x[k] \in Nat
    BY <1>12
  <2>3. n + 1 \in 1..(n + 1) /\ (1..(n + 1)) \ {n + 1} = 1..n
    BY <1>1
  <2>4. Total(x, 1..(n + 1)) = x[n + 1] + Total(x, (1..(n + 1)) \ {n + 1})
    BY <2>1, <2>2, <2>3, TotalIs
  <2>5. Total(x, 1..n) = Total(r, 1..n)
    BY <1>13, TotalCongruent
  <2>6. Total(x, 1..(n + 1)) = Len(d) + Len(c)
    BY <1>2, <1>13, <2>3, <2>4, <2>5
  <2>7. Len(c) \in Nat
    BY <1>2
  <2> QED BY <1>6, <1>9, <2>6, <2>7
<1> QED BY <1>9, <1>10, <1>11, <1>12, <1>14, <1>15 DEF Sampled, e, x
-----------------------------------------------------------------------------
(***************************************************************************)
(* What holds at every step of the sampler.  Once quotas are set they are  *)
(* those of the job; while a stratum is read the heap holds the best of    *)
(* what has arrived; corpus and realized counts are those of the strata    *)
(* that ended, and the files those of the corpus.                          *)
(***************************************************************************)
SInv ==
    /\ IsJob(job)
    /\ stage \in {"quotas", "read", "write", "done", "error"}
    /\ stage \in {"quotas", "error"} =>
          /\ targets = << >> /\ realized = << >> /\ combined = << >>
          /\ stratum = 0 /\ unread = {} /\ heap = {}
    /\ stage \in {"read", "write", "done"} => TotalWeight(job) > 0 /\ targets = Quotas(job)
    /\ stage = "read" =>
          /\ stratum \in Strata(job)
          /\ unread \subseteq job.strata[stratum].uris
          /\ IsTop(stratum, heap, job.strata[stratum].uris \ unread, targets[stratum])
          /\ Sampled(job, targets, combined, realized, stratum - 1)
    /\ stage \in {"write", "done"} =>
          /\ stratum = Len(job.strata) /\ heap = {}
          /\ Sampled(job, targets, combined, realized, Len(job.strata))
    /\ stage = "done" =>
          /\ shardFiles = ShardFiles(combined, job.shards)
          /\ manifest = [total_written |-> Len(combined), target_n |-> job.target,
                         shards |-> job.shards, targets |-> targets, kept |-> realized]

\* A heap that has seen nothing yet.
LEMMA NothingArrived ==
    ASSUME NEW i, NEW U, NEW t \in Nat
    PROVE  IsTop(i, {}, U \ U, t)
<1>1. IsFiniteSet({}) /\ Cardinality({}) = 0
  BY FS_EmptySet
<1> QED BY <1>1 DEF IsTop

\* No stratum has been read yet.
LEMMA SInitInv == SampleInit => SInv
<1> SUFFICES ASSUME SampleInit PROVE SInv
  OBVIOUS
<1> QED BY SamplerAssumption DEF SampleInit, SInv

\* The call raises ValueError before it reads anything.
LEMMA NoWeightInv == ASSUME SInv, NoWeight PROVE SInv'
BY DEF SInv, NoWeight, readVars, writeVars

\* Weight means strata.
LEMMA SomeStratum ==
    ASSUME NEW j, IsJob(j), TotalWeight(j) > 0
    PROVE  1 \in Strata(j) /\ Len(j.strata) > 0
<1>1. Len(j.strata) \in Nat /\ TotalWeight(j) = Total(Weights(j), Strata(j))
  BY JobParts, ShareParts
<1>2. Strata(j) # {}
  <2>1. ASSUME Strata(j) = {} PROVE FALSE
    <3>1. Total(Weights(j), {}) = 0
      BY CellsEmpty
    <3> QED BY <1>1, <2>1, <3>1
  <2> QED BY <2>1
<1> QED BY <1>1, <1>2 DEF Strata

LEMMA AllocateInv == ASSUME SInv, Allocate PROVE SInv'
<1>1. /\ stage = "quotas" /\ TotalWeight(job) > 0 /\ targets' = Quotas(job)
      /\ stratum' = 1 /\ unread' = job.strata[1].uris /\ stage' = "read"
      /\ job' = job /\ heap' = heap /\ combined' = combined /\ realized' = realized
  BY DEF Allocate, writeVars
<1>2. IsJob(job) /\ heap = {} /\ combined = << >> /\ realized = << >>
  BY <1>1 DEF SInv
<1>3. 1 \in Strata(job)
  BY <1>1, <1>2, SomeStratum
<1>4. Quotas(job)[1] \in Nat
  BY <1>1, <1>2, <1>3, QuotaIs
<1>5. IsTop(1, {}, job.strata[1].uris \ job.strata[1].uris, Quotas(job)[1])
  BY <1>4, NothingArrived
<1>6. Sampled(job, Quotas(job), << >>, << >>, 1 - 1)
  BY NothingSampled
<1> QED BY <1>1, <1>2, <1>3, <1>5, <1>6 DEF SInv

LEMMA ArriveInv == ASSUME SInv, NEW u \in unread, Arrive(u) PROVE SInv'
<1> DEFINE A == job.strata[stratum].uris \ unread
           t == targets[stratum]
<1>1. /\ stage = "read" /\ t > 0 /\ unread' = unread \ {u}
      /\ heap' = Pushed(stratum, heap, u, t)
      /\ job' = job /\ stage' = stage /\ targets' = targets /\ stratum' = stratum
      /\ combined' = combined /\ realized' = realized
  BY DEF Arrive, Pushed
<1>2. /\ IsJob(job) /\ TotalWeight(job) > 0 /\ targets = Quotas(job)
      /\ stratum \in Strata(job) /\ unread \subseteq job.strata[stratum].uris
      /\ IsTop(stratum, heap, A, t)
      /\ Sampled(job, targets, combined, realized, stratum - 1)
  BY <1>1 DEF SInv
<1>3. t \in Nat \ {0}
  BY <1>1, <1>2, QuotaIs
<1>4. Scored(stratum, job.strata[stratum].uris)
  BY <1>2, SamplesAre
<1>5. u \notin A /\ A \cup {u} = job.strata[stratum].uris \ unread'
  BY <1>1, <1>2
<1>6. Scored(stratum, A \cup {u})
  BY <1>4, <1>5 DEF Scored
<1>7. IsTop(stratum, heap', A \cup {u}, t)
  <2> HIDE DEF A, t
  <2> QED BY <1>1, <1>2, <1>3, <1>5, <1>6, TopStays
<1> QED BY <1>1, <1>2, <1>5, <1>7 DEF SInv

LEMMA EndStratumInv == ASSUME SInv, EndStratum PROVE SInv'
<1> DEFINE U == job.strata[stratum].uris
           t == targets[stratum]
           d == Sorted(stratum, heap \ Range(combined))
<1>1. /\ stage = "read" /\ (unread = {} \/ t = 0)
      /\ combined' = combined \o d /\ realized' = Append(realized, Len(d))
      /\ heap' = {} /\ job' = job /\ targets' = targets
      /\ stratum < Len(job.strata) =>
            stratum' = stratum + 1 /\ unread' = job.strata[stratum + 1].uris /\ stage' = stage
      /\ ~ (stratum < Len(job.strata)) => stage' = "write" /\ stratum' = stratum
  BY DEF EndStratum
<1>2. /\ IsJob(job) /\ TotalWeight(job) > 0 /\ targets = Quotas(job)
      /\ stratum \in Strata(job) /\ unread \subseteq U
      /\ IsTop(stratum, heap, U \ unread, t)
      /\ Sampled(job, targets, combined, realized, stratum - 1)
  BY <1>1 DEF SInv
<1>3. \A i \in Strata(job) : targets[i] \in Nat
  BY <1>2, QuotaIs
<1>4. Scored(stratum, U) /\ IsFiniteSet(U) /\ Len(job.strata) \in Nat
  BY <1>2, SamplesAre, JobParts
<1>5. heap = TopOf(job, targets, stratum) /\ Cardinality(heap) <= t
  <2> DEFINE A == U \ unread
  <2>1. A \subseteq U /\ (A = U \/ t = 0) /\ IsTop(stratum, heap, A, t)
    BY <1>1, <1>2
  <2>2. t \in Nat
    BY <1>2, <1>3
  <2>3. heap = BestIn(stratum, U, t)
    <3> HIDE DEF U, t, A
    <3> QED BY <1>4, <2>1, <2>2, TopIsBest
  <2> QED BY <1>2, <2>3 DEF TopOf, IsTop
<1>6. Sampled(job, targets, combined', realized', stratum)
  <2> DEFINE n == stratum - 1
  <2>1. n \in 0..(Len(job.strata) - 1) /\ n + 1 = stratum
    BY <1>2, <1>4 DEF Strata
  <2>2. /\ heap = TopOf(job, targets, n + 1) /\ Cardinality(heap) <= targets[n + 1]
        /\ d = Sorted(n + 1, heap \ Range(combined))
    BY <1>5, <2>1
  <2> HIDE DEF d, n
  <2>3. Sampled(job, targets, combined \o d, Append(realized, Len(d)), n + 1)
    BY <1>2, <1>3, <2>1, <2>2, OneMoreSample DEF n
  <2> QED BY <1>1, <2>1, <2>3
<1>7. CASE stratum < Len(job.strata)
  <2>1. /\ stratum + 1 \in Strata(job) /\ (stratum + 1) - 1 = stratum
        /\ stratum' = stratum + 1 /\ stage' = "read" /\ unread' = job.strata[stratum + 1].uris
    BY <1>1, <1>2, <1>4, <1>7 DEF Strata
  <2>2. IsTop(stratum + 1, {}, job.strata[stratum + 1].uris \ unread', targets[stratum + 1])
    BY <1>3, <2>1, NothingArrived
  <2> HIDE DEF d
  <2> QED BY <1>1, <1>2, <1>6, <2>1, <2>2 DEF SInv
<1>8. CASE ~ (stratum < Len(job.strata))
  <2>1. stratum = Len(job.strata)
    BY <1>2, <1>4, <1>8 DEF Strata
  <2> HIDE DEF d
  <2> QED BY <1>1, <1>2, <1>6, <1>8, <2>1 DEF SInv
<1> QED BY <1>7, <1>8

LEMMA WriteInv == ASSUME SInv, Write PROVE SInv'
BY DEF SInv, Write, readVars

LEMMA SStepInv == ASSUME SInv, [SampleNext]_sampleVars PROVE SInv'
<1>1. CASE UNCHANGED sampleVars
  BY <1>1 DEF SInv, sampleVars, readVars, writeVars
<1> QED
  BY <1>1, NoWeightInv, AllocateInv, ArriveInv, EndStratumInv, WriteInv DEF SampleNext

\* SInv is inductive.
LEMMA SamplerInvariant == SampleSpec => []SInv
<1> QED BY SInitInv, SStepInv, PTL DEF SampleSpec
-----------------------------------------------------------------------------
\* allocate_quotas, for every weights and target: the quotas sum to the target, each is
\* within one of its exact share (nothing for no weight), and more weight never gets less.
THEOREM QuotasAddUp == SampleSpec => []QuotaRule
<1>1. SInv => QuotaRule
  <2> SUFFICES ASSUME SInv, stage \in {"read", "write", "done"} PROVE QuotaRule
    BY DEF QuotaRule
  <2>1. IsJob(job) /\ TotalWeight(job) > 0 /\ targets = Quotas(job)
    BY DEF SInv
  <2>2. SumFunction(targets) = job.target
    BY <2>1, QuotaIs
  <2>3. ASSUME NEW i \in Strata(job)
        PROVE  LET share == job.target * job.strata[i].weight
                   units == targets[i] * TotalWeight(job)
               IN  /\ units > share - TotalWeight(job) /\ units < share + TotalWeight(job)
                   /\ job.strata[i].weight = 0 => targets[i] = 0
    BY <2>1, QuotaWithinOne
  <2>4. ASSUME NEW i \in Strata(job), NEW k \in Strata(job),
               job.strata[i].weight > job.strata[k].weight
        PROVE  targets[i] >= targets[k]
    BY <2>1, <2>4, QuotaMonotone
  <2> QED BY <2>2, <2>3, <2>4 DEF QuotaRule
<1> QED BY <1>1, SamplerInvariant, PTL

\* stratified_sample with _bottom_k, for every order in which the URIs of each stratum
\* arrive, equal fractions included: the corpus is, stratum after stratum, the best of it
\* up to its quota, in order of fraction, less what earlier strata have put there.
THEOREM AnyOrderSameCorpus == SampleSpec => []IndependentOfOrder
<1>1. SInv => IndependentOfOrder
  <2> SUFFICES ASSUME SInv, stage \in {"write", "done"}
               PROVE  combined = FlattenSeq([i \in Strata(job) |-> Sorted(i, Taken(i))])
    BY DEF IndependentOfOrder
  <2>1. /\ IsJob(job) /\ TotalWeight(job) > 0 /\ targets = Quotas(job)
        /\ Sampled(job, targets, combined, realized, Len(job.strata))
    BY DEF SInv
  <2>2. \A i : Best(i) = TopOf(job, targets, i)
    BY DEF Best, TopOf, BestIn
  <2>3. \A i : Taken(i) = NewOf(job, targets, i)
    <3> TAKE i
    <3>1. UNION {Best(k) : k \in 1..(i - 1)} = UNION {TopOf(job, targets, k) : k \in 1..(i - 1)}
      BY <2>2
    <3> QED BY <2>2, <3>1 DEF Taken, NewOf
  <2>4. [i \in Strata(job) |-> Sorted(i, Taken(i))] = SamplesOf(job, targets)
    BY <2>3 DEF SamplesOf
  <2>5. Len(job.strata) > 0
    BY <2>1, SomeStratum
  <2>6. /\ SamplesOf(job, targets) \in Seq(Seq(Nat))
        /\ Len(SamplesOf(job, targets)) = Len(job.strata)
    BY <2>1, SamplesAre
  <2>7. FlattenSeq(SamplesOf(job, targets)) = JoinedTo(SamplesOf(job, targets), Len(job.strata))
    BY <2>5, <2>6, JoinedIs
  <2> QED BY <2>1, <2>4, <2>7 DEF Sampled
<1> QED BY <1>1, SamplerInvariant, PTL
-----------------------------------------------------------------------------
\* The sizes of the shard files ...
LEMMA ShardSizes ==
    ASSUME NEW uris \in Seq(Nat), NEW m \in Nat \ {0}
    PROVE  /\ DOMAIN ShardFiles(uris, m) = 0..(m - 1)
           /\ \A s \in 0..(m - 1) :
                 Len(ShardFiles(uris, m)[s]) = Cardinality(Places(Len(uris), m, s))
<1>1. DOMAIN ShardFiles(uris, m) = 0..(m - 1)
  BY DEF ShardFiles
<1>2. ASSUME NEW s \in 0..(m - 1)
      PROVE  Len(ShardFiles(uris, m)[s]) = Cardinality(Places(Len(uris), m, s))
  <2>1. \E mine \in Seq(Places(Len(uris), m, s)) :
           /\ Len(mine) = Cardinality(Places(Len(uris), m, s))
           /\ Range(mine) = Places(Len(uris), m, s) /\ IsInjective(mine)
           /\ Len(ShardFiles(uris, m)[s]) = Len(mine)
           /\ \A i \in 1..Len(mine) : ShardFiles(uris, m)[s][i] = uris[mine[i]]
    BY ShardFileIs
  <2> QED BY <2>1
<1> QED BY <1>1, <1>2

\* ... and where a URI is: in one file, once.
PlacesOf(F, S, n, u) ==
    {c \in S \X (1..n) : c[2] <= Len(F[c[1]]) /\ F[c[1]][c[2]] = u}

LEMMA OnceEach ==
    ASSUME NEW uris \in Seq(Nat), IsInjective(uris), NEW m \in Nat \ {0}, NEW u \in Range(uris),
           NEW F, F = ShardFiles(uris, m)
    PROVE  Cardinality(PlacesOf(F, 0..(m - 1), Len(uris), u)) = 1
<1> DEFINE n == Len(uris)
           C == {c \in (0..(m - 1)) \X (1..n) : c[2] <= Len(F[c[1]]) /\ F[c[1]][c[2]] = u}
<1>1. n \in Nat /\ DOMAIN uris = 1..n
  OBVIOUS
<1>2. PICK p \in 1..n : uris[p] = u
  BY <1>1 DEF Range
<1>3. \A q \in 1..n : uris[q] = u => q = p
  BY <1>1, <1>2 DEF IsInjective
<1> DEFINE s == ShardOf(p - 1, m)
<1>4. s \in 0..(m - 1) /\ p \in Places(n, m, s)
  <2>1. p - 1 \in Nat
    BY <1>2
  <2>2. (p - 1) % m \in 0..(m - 1)
    BY <2>1
  <2> QED BY <2>2 DEF Places, ShardOf
<1> HIDE DEF s, n
<1>5. \A t \in 0..(m - 1) : \E mine \in Seq(Places(n, m, t)) :
         /\ Range(mine) = Places(n, m, t) /\ IsInjective(mine)
         /\ Len(mine) = Cardinality(Places(n, m, t)) /\ Len(F[t]) = Len(mine)
         /\ \A i \in 1..Len(mine) : F[t][i] = uris[mine[i]]
  <2> TAKE t \in 0..(m - 1)
  <2>1. PICK mine \in Seq(Places(Len(uris), m, t)) :
           /\ Len(mine) = Cardinality(Places(Len(uris), m, t))
           /\ Range(mine) = Places(Len(uris), m, t) /\ IsInjective(mine)
           /\ Len(ShardFiles(uris, m)[t]) = Len(mine)
           /\ \A i \in 1..Len(mine) : ShardFiles(uris, m)[t][i] = uris[mine[i]]
    BY ShardFileIs, ZenonT(30)
  <2> QED BY <2>1 DEF n
<1>6. PICK mine \in Seq(Places(n, m, s)) :
         /\ Range(mine) = Places(n, m, s) /\ IsInjective(mine)
         /\ Len(mine) = Cardinality(Places(n, m, s)) /\ Len(F[s]) = Len(mine)
         /\ \A i \in 1..Len(mine) : F[s][i] = uris[mine[i]]
  BY <1>4, <1>5
<1>7. DOMAIN mine = 1..Len(mine) /\ Len(mine) \in Nat /\ Len(mine) <= n
  BY <1>1, <1>6, PlacesFinite
<1>8. PICK i \in 1..Len(mine) : mine[i] = p
  BY <1>4, <1>6, <1>7 DEF Range
<1>9. <<s, i>> \in C
  <2>0. Len(F[s]) = Len(mine) /\ F[s][i] = uris[mine[i]]
    BY <1>6, <1>8
  <2>1. i \in 1..n /\ i <= Len(F[s]) /\ F[s][i] = u
    BY <1>1, <1>2, <1>7, <1>8, <2>0
  <2> QED BY <1>4, <2>1
<1>10. ASSUME NEW c \in C PROVE c = <<s, i>>
  <2> DEFINE t == c[1]
             k == c[2]
  <2>1. c = <<t, k>> /\ t \in 0..(m - 1) /\ k \in 1..n /\ k <= Len(F[t]) /\ F[t][k] = u
    OBVIOUS
  <2> HIDE DEF t, k
  <2>2. PICK other \in Seq(Places(n, m, t)) :
           /\ Len(F[t]) = Len(other) /\ \A x \in 1..Len(other) : F[t][x] = uris[other[x]]
    BY <1>5, <2>1
  <2>3. k \in 1..Len(other)
    BY <2>1, <2>2
  <2>4. other[k] \in Places(n, m, t) /\ uris[other[k]] = u
    <3>0. other \in Seq(Places(n, m, t))
      BY <2>2
    <3>1. other[k] \in Places(n, m, t)
      BY <2>3, <3>0, EntryOfSeq, Zenon
    <3> QED BY <2>1, <2>2, <2>3, <3>1
  <2>5. other[k] = p /\ ShardOf(p - 1, m) = t
    <3>1. other[k] \in 1..n /\ ShardOf(other[k] - 1, m) = t
      BY <2>4 DEF Places
    <3> QED BY <1>3, <2>4, <3>1
  <2>6. t = s
    BY <2>5 DEF s
  <2>7. k \in 1..Len(mine) /\ uris[mine[k]] = u
    BY <1>6, <2>1, <2>2, <2>3, <2>6
  <2>8. mine[k] \in Places(n, m, s)
    <3>1. mine \in Seq(Places(n, m, s)) /\ k \in 1..Len(mine)
      BY <1>6, <2>7
    <3> QED BY <3>1, EntryOfSeq, Zenon
  <2>9. mine[k] = p
    BY <1>3, <2>7, <2>8 DEF Places
  <2>10. k = i
    <3>1. \A x, y \in DOMAIN mine : mine[x] = mine[y] => x = y
      BY <1>6 DEF IsInjective
    <3> QED BY <1>7, <1>8, <2>7, <2>9, <3>1
  <2> QED BY <2>1, <2>6, <2>10
<1> HIDE DEF C
<1>11. C = {<<s, i>>}
  BY <1>9, <1>10
<1>12. Cardinality(C) = 1
  BY <1>11, FS_Singleton
<1> QED BY <1>12 DEF C, n, PlacesOf

\* _write_shards and _manifest_dict, for every corpus and number of shards: every URI of
\* the corpus is in one shard, once, the shards' sizes differ by at most one, and their
\* sum and that of the realized counts are the manifest's total, within the target.
THEOREM ManifestAndShards == SampleSpec => []ManifestMatchesFiles
<1>1. SInv => ManifestMatchesFiles
  <2> SUFFICES ASSUME SInv, stage = "done" PROVE ManifestMatchesFiles
    BY DEF ManifestMatchesFiles
  <2> DEFINE m == job.shards
             n == Len(combined)
             S == 0..(m - 1)
             sizes == [s \in S |-> Len(shardFiles[s])]
  <2>1. /\ IsJob(job) /\ TotalWeight(job) > 0 /\ targets = Quotas(job)
        /\ Sampled(job, targets, combined, realized, Len(job.strata))
        /\ shardFiles = ShardFiles(combined, m)
        /\ manifest = [total_written |-> n, target_n |-> job.target, shards |-> job.shards,
                       targets |-> targets, kept |-> realized]
    BY DEF SInv
  <2>2. /\ combined \in Seq(Nat) /\ IsInjective(combined) /\ n \in Nat
        /\ realized \in Seq(Nat) /\ Len(realized) = Len(job.strata)
        /\ \A k \in 1..Len(job.strata) : realized[k] <= targets[k]
        /\ Total(realized, 1..Len(job.strata)) = n
    BY <2>1 DEF Sampled
  <2>3. m \in Nat \ {0}
    BY <2>1 DEF IsJob
  <2>4. /\ manifest.total_written = n /\ manifest.target_n = job.target
        /\ manifest.kept = realized
    BY <2>1
  <2>5. /\ DOMAIN shardFiles = S
        /\ \A s \in S : Len(shardFiles[s]) = Cardinality(Places(n, m, s))
    BY <2>1, <2>2, <2>3, ShardSizes
  <2> HIDE DEF m, n, S, sizes
  <2>6. ASSUME NEW u \in Range(combined)
        PROVE  Cardinality({c \in (DOMAIN shardFiles) \X (1..Len(combined)) :
                               /\ c[2] <= Len(shardFiles[c[1]])
                               /\ shardFiles[c[1]][c[2]] = u}) = 1
    <3>1. Cardinality(PlacesOf(shardFiles, 0..(m - 1), Len(combined), u)) = 1
      BY <2>1, <2>2, <2>3, OnceEach
    <3> QED BY <2>5, <3>1 DEF S, PlacesOf
  <2>7. ASSUME NEW s \in S, NEW t \in S PROVE Len(shardFiles[s]) <= Len(shardFiles[t]) + 1
    BY <2>2, <2>3, <2>5, PlacesBalanced DEF S
  <2>8. SumFunction(sizes) = n
    <3>1. IsFiniteSet(S)
      <4>1. 0 \in Int /\ m - 1 \in Int
        BY <2>3
      <4> QED BY <4>1, FS_Interval DEF S
    <3>2. DOMAIN sizes = S /\ \A s \in S : sizes[s] = Cardinality(Places(n, m, s))
      BY <2>5 DEF sizes
    <3>3. \A s \in S : sizes[s] \in Nat
      BY <2>2, <3>2, PlacesFinite
    <3>4. SumFunction(sizes) = Total(sizes, S)
      BY <3>1, <3>2, <3>3, SumIsTotal
    <3>5. Total(sizes, 0..(m - 1)) = n
      BY <2>2, <2>3, <3>2, PlacesAddUp DEF S
    <3> QED BY <3>4, <3>5 DEF S
  <2>9. IsFiniteSet(Strata(job)) /\ Strata(job) = 1..Len(job.strata)
    BY <2>1, JobParts DEF Strata
  <2>10. DOMAIN realized = Strata(job) /\ \A k \in Strata(job) : realized[k] \in Nat
    BY <2>2, <2>9
  <2>11. SumFunction(realized) = n
    BY <2>2, <2>9, <2>10, SumIsTotal
  <2>12. n <= job.target
    <3>1. DOMAIN targets = Strata(job) /\ \A k \in Strata(job) : targets[k] \in Nat
      BY <2>1, QuotaIs
    <3>2. Total(targets, Strata(job)) = job.target
      BY <2>1, <2>9, <3>1, QuotaIs, SumIsTotal
    <3>3. Total(realized, Strata(job)) <= Total(targets, Strata(job))
      BY <2>2, <2>9, <2>10, <3>1, TotalMonotone
    <3> QED BY <2>2, <2>9, <3>2, <3>3
  <2> QED BY <2>4, <2>5, <2>6, <2>7, <2>8, <2>11, <2>12 DEF ManifestMatchesFiles, sizes
<1> QED BY <1>1, SamplerInvariant, PTL

\* The types of the sampler's variables; what is in the heap does not arrive again.
THEOREM SamplerTyped == SampleSpec => []SampleTypeOK
<1>1. SInv => SampleTypeOK
  <2> SUFFICES ASSUME SInv PROVE SampleTypeOK
    OBVIOUS
  <2>1. IsJob(job) /\ stage \in {"quotas", "read", "write", "done", "error"}
    BY DEF SInv
  <2>2. Len(job.strata) \in Nat /\ Strata(job) = 1..Len(job.strata)
    BY <2>1, JobParts DEF Strata
  <2>3. CASE stage \in {"quotas", "error"}
    <3>1. << >> \in Seq(Nat) /\ 0 \in 0..Len(job.strata)
      BY <2>2
    <3>2. /\ targets = << >> /\ realized = << >> /\ combined = << >>
          /\ stratum = 0 /\ unread = {} /\ heap = {} /\ stage # "read"
      BY <2>3 DEF SInv
    <3> QED BY <2>1, <3>1, <3>2 DEF SampleTypeOK
  <2>4. CASE stage \in {"read", "write", "done"}
    <3>1. targets \in Seq(Nat)
      <4>1. targets \in [1..Len(job.strata) -> Nat]
        BY <2>1, <2>2, <2>4, QuotaIs DEF SInv
      <4> QED BY <2>2, <4>1, FunctionIsSeq
    <3>2. combined \in Seq(Nat) /\ realized \in Seq(Nat)
      BY <2>4 DEF SInv, Sampled
    <3>3. stratum \in 0..Len(job.strata) /\ heap \cap unread = {}
      BY <2>2, <2>4 DEF SInv, IsTop
    <3>4. stage = "read" => heap \cup unread \subseteq job.strata[stratum].uris
      BY DEF SInv, IsTop
    <3> QED BY <2>1, <3>1, <3>2, <3>3, <3>4 DEF SampleTypeOK
  <2> QED BY <2>1, <2>3, <2>4
<1> QED BY <1>1, SamplerInvariant, PTL
=============================================================================
