--------------------------- MODULE TelemetryProofs ---------------------------
(***************************************************************************)
(* Theorems about Telemetry, for every set of shards, every corpus and     *)
(* every setup: whatever groups of documents are merged in whatever order, *)
(* and whichever runs fail.                                                *)
(*                                                                         *)
(* First, the documents on disk partition the finished shards.  This is    *)
(* inductive with the types of the state: a run that writes its document   *)
(* is not finished yet, so no document covers it, and a merge replaces     *)
(* documents by one that covers the same shards.                           *)
(*                                                                         *)
(* Then the counts: those of a document are what the samples of its shards *)
(* credit, so they are usages of its total, and the stage implements the   *)
(* count of the whole corpus (Tally).                                      *)
(***************************************************************************)
EXTENDS Telemetry, FiniteSetTheorems, TLAPS

Types == /\ setup \in Setups
         /\ status \in [Shards -> {"running", "done", "failed"}]

Covered == UNION {d.from : d \in docs}
Finished == {s \in Shards : status[s] = "done"}

Disjoint(D)    == \A d, e \in D : d # e => d.from \cap e.from = {}
OwnGrammar(D)  == \A d \in D : \A s \in d.from : setup.grammar[s] = d.grammar

TInv == Types /\ DocsPartition
-----------------------------------------------------------------------------
LEMMA TInitInv == Init => TInv
BY DEF Init, TInv, Types, DocsPartition

\* A step that neither finishes a run nor touches a document.
LEMMA NoDocumentTouched ==
    ASSUME TInv, UNCHANGED <<setup, docs>>,
           status' \in [Shards -> {"running", "done", "failed"}],
           \A s \in Shards : status'[s] = "done" <=> status[s] = "done"
    PROVE  TInv'
<1>1. {s \in Shards : status'[s] = "done"} = {s \in Shards : status[s] = "done"}
  OBVIOUS
<1> QED BY <1>1 DEF TInv, Types, DocsPartition

LEMMA WriteHitsInv == ASSUME TInv, NEW s \in Shards, WriteHits(s) PROVE TInv'
<1> DEFINE new == [from |-> {s}, grammar |-> setup.grammar[s],
                   total |-> agg[s].total, hits |-> agg[s].counts]
<1>1. /\ docs' = docs \cup {new} /\ setup' = setup
      /\ status[s] = "running" /\ status' = [status EXCEPT ![s] = "done"]
  BY DEF WriteHits, given
<1>2. /\ status \in [Shards -> {"running", "done", "failed"}]
      /\ Covered = Finished /\ Disjoint(docs) /\ OwnGrammar(docs)
  BY DEF TInv, Types, DocsPartition, Covered, Finished, Disjoint, OwnGrammar
<1>3. new.from = {s} /\ new.grammar = setup.grammar[s]
  OBVIOUS
<1> HIDE DEF new
<1>4. \A d \in docs : s \notin d.from
  BY <1>1, <1>2 DEF Covered, Finished
<1>5. Types'
  BY <1>1, <1>2 DEF TInv, Types
<1>6. UNION {d.from : d \in docs'} = {t \in Shards : status'[t] = "done"}
  <2>1. UNION {d.from : d \in docs'} = Covered \cup {s}
    BY <1>1, <1>3 DEF Covered
  <2>2. {t \in Shards : status'[t] = "done"} = Finished \cup {s}
    BY <1>1, <1>2 DEF Finished
  <2> QED BY <1>2, <2>1, <2>2
<1>7. Disjoint(docs')
  BY <1>1, <1>2, <1>3, <1>4 DEF Disjoint
<1>8. \A d \in docs' : \A t \in d.from : setup'.grammar[t] = d.grammar
  BY <1>1, <1>2, <1>3 DEF OwnGrammar
<1> QED BY <1>5, <1>6, <1>7, <1>8 DEF TInv, DocsPartition, Disjoint

LEMMA MergeInv == ASSUME TInv, NEW D \in SUBSET docs, Merge(D) PROVE TInv'
<1> DEFINE one == CHOOSE d \in D : TRUE
           new == [from |-> UNION {d.from : d \in D}, grammar |-> one.grammar,
                   total |-> SumTotals(D), hits |-> SumHits(D)]
<1>1. /\ docs' = (docs \ D) \cup {new} /\ setup' = setup /\ status' = status
      /\ SameGrammar(D) /\ Cardinality(D) >= 2
  BY DEF Merge, given
<1>2. /\ UNION {d.from : d \in docs} = {s \in Shards : status[s] = "done"}
      /\ Disjoint(docs) /\ OwnGrammar(docs)
  BY DEF TInv, DocsPartition, Disjoint, OwnGrammar
<1>3. D # {}
  BY <1>1, FS_EmptySet
<1>4. one \in D
  BY <1>3
<1>5. new.from = UNION {d.from : d \in D} /\ new.grammar = one.grammar
  OBVIOUS
<1> HIDE DEF one, new
<1>6. Types'
  BY <1>1 DEF TInv, Types
<1>7. UNION {d.from : d \in docs'} = UNION {d.from : d \in docs}
  BY <1>1, <1>5
<1>8. Disjoint(docs')
  <2>1. \A d \in docs \ D : d.from \cap new.from = {}
    BY <1>2, <1>5 DEF Disjoint
  <2> QED BY <1>1, <1>2, <2>1 DEF Disjoint
<1>9. \A d \in docs' : \A s \in d.from : setup'.grammar[s] = d.grammar
  <2>1. ASSUME NEW s \in new.from PROVE setup.grammar[s] = new.grammar
    <3>1. PICK d \in D : s \in d.from
      BY <1>5, <2>1
    <3>2. setup.grammar[s] = d.grammar
      BY <1>2, <3>1 DEF OwnGrammar
    <3>3. d.grammar = one.grammar
      BY <1>1, <1>4, <3>1 DEF SameGrammar
    <3> QED BY <1>5, <3>2, <3>3
  <2> QED BY <1>1, <1>2, <2>1 DEF OwnGrammar
<1> QED BY <1>1, <1>2, <1>6, <1>7, <1>8, <1>9 DEF TInv, DocsPartition, Disjoint

LEMMA TStepInv == ASSUME TInv, [Next]_vars PROVE TInv'
<1>t. status \in [Shards -> {"running", "done", "failed"}]
  BY DEF TInv, Types
<1>1. ASSUME NEW s \in Shards, SkipLine(s) \/ ParseLine(s) PROVE TInv'
  BY <1>1, <1>t, NoDocumentTouched DEF SkipLine, ParseLine, given
<1>2. ASSUME NEW s \in Shards, Fail(s) PROVE TInv'
  BY <1>2, <1>t, NoDocumentTouched DEF Fail, given
<1>3. CASE UNCHANGED vars
  BY <1>3, <1>t, NoDocumentTouched DEF vars, given
<1> QED BY <1>1, <1>2, <1>3, WriteHitsInv, MergeInv DEF Next, Run
-----------------------------------------------------------------------------
\* At any moment the hits documents on disk (mvs-telemetry --out, hitsmerge.py) are
\* those of the finished shards, each in one document of its own grammar.
THEOREM DocumentsPartition == Spec => []DocsPartition
<1>1. TInv /\ [Next]_vars => TInv'
  BY TStepInv
<1>2. TInv => DocsPartition
  BY DEF TInv
<1> QED BY TInitInv, <1>1, <1>2, PTL DEF Spec
-----------------------------------------------------------------------------
(***************************************************************************)
(* What the counters are, told from the lines that have been read: the     *)
(* total of a group of shards is the number of their samples, and a node   *)
(* has been hit by those of them that credit it.  In this form a sum over  *)
(* documents or shards is the union of sets of samples without a common    *)
(* member, whatever the order of the fold.                                 *)
(***************************************************************************)
\* Of the samples P, those of the shards in S before the lines a.
Upto(P, S, a) == {id \in P : id[1] \in S /\ id[2] < a[id[1]]}
Counted(S)    == Upto(Samples, S, at)

\* The nodes a sample adds 1 to, and what a set of samples adds up to.
Credits(L, id) == LET line == L[id[1]][id[2]]
                  IN  IF line.matched THEN {line.visited[i] : i \in 1..Len(line.visited)} ELSE {}
Crediting(L, I, n) == {id \in I : n \in Credits(L, id)}
BagOf(L, I) == [n \in UNION {Credits(L, id) : id \in I} |-> Cardinality(Crediting(L, I, n))]

Places == /\ lines \in Corpora
          /\ at \in [Shards -> Nat]
          /\ \A s \in Shards : at[s] >= 1 /\ at[s] <= Len(lines[s]) + 1
          /\ \A s \in Shards : status[s] = "done" => at[s] = Len(lines[s]) + 1

ShardCounts ==
    /\ agg = [s \in Shards |-> agg[s]]
    /\ \A s \in Shards : /\ agg[s].total = Cardinality(Counted({s}))
                         /\ agg[s].counts = BagOf(lines, Counted({s}))

DocumentCounts ==
    \A d \in docs : /\ d.from # {} /\ d.from \subseteq Shards
                    /\ d.total = Cardinality(Counted(d.from))
                    /\ d.hits = BagOf(lines, Counted(d.from))

CountInv == TInv /\ Places /\ ShardCounts /\ DocumentCounts
-----------------------------------------------------------------------------
LEMMA SamplesFinite ==
    ASSUME lines \in Corpora
    PROVE  IsFiniteSet(Samples)
<1> DEFINE Cut(s) == {s} \X (1..Len(lines[s]))
           cuts == {Cut(s) : s \in Shards}
<1>1. \A s \in Shards : IsFiniteSet(Cut(s))
  <2> TAKE s \in Shards
  <2>1. Len(lines[s]) \in Nat
    BY CorporaAreLines
  <2>2. IsFiniteSet({s}) /\ IsFiniteSet(1..Len(lines[s]))
    <3>1. IsFiniteSet({s})
      BY FS_Singleton
    <3>2. IsFiniteSet(1..Len(lines[s]))
      BY <2>1, FS_Interval
    <3> QED BY <3>1, <3>2
  <2> QED BY <2>2, FS_Product
<1>2. IsFiniteSet(cuts)
  <2> DEFINE g == [s \in Shards |-> Cut(s)]
  <2>1. g \in Surjection(Shards, cuts)
    BY DEF Surjection
  <2> QED BY <2>1, ShardsAssumption, FS_Surjection
<1>3. IsFiniteSet(UNION cuts)
  BY <1>1, <1>2, FS_UNION
<1>4. Samples \subseteq UNION cuts
  BY DEF Samples
<1> QED BY <1>3, <1>4, FS_Subset

LEMMA SamplesAre ==
    ASSUME NEW s \in Shards, NEW i
    PROVE  <<s, i>> \in Samples <=> i \in 1..Len(lines[s]) /\ Sample(s, lines[s][i])
<1>1. \A id \in UNION {{t} \X (1..Len(lines[t])) : t \in Shards} :
         id[1] \in Shards /\ id[2] \in 1..Len(lines[id[1]]) /\ id = <<id[1], id[2]>>
  OBVIOUS
<1>2. i \in 1..Len(lines[s]) => <<s, i>> \in UNION {{t} \X (1..Len(lines[t])) : t \in Shards}
  OBVIOUS
<1> QED BY <1>1, <1>2 DEF Samples

LEMMA SampleIds ==
    \A id \in Samples : /\ id[1] \in Shards /\ id[2] \in 1..Len(lines[id[1]])
                        /\ id = <<id[1], id[2]>>
BY DEF Samples

LEMMA SamplesStay == ASSUME UNCHANGED given PROVE Samples' = Samples
BY DEF given, Samples, Sample, Ignored, TooLong

\* Counts of sets of samples without a common member add up.
LEMMA BagOfUnion ==
    ASSUME NEW L, NEW I, NEW J, IsFiniteSet(I), IsFiniteSet(J), I \cap J = {}
    PROVE  /\ Cardinality(I \cup J) = Cardinality(I) + Cardinality(J)
           /\ BagOf(L, I \cup J) = BagOf(L, I) (+) BagOf(L, J)
<1>1. Cardinality(I \cup J) = Cardinality(I) + Cardinality(J)
  <2>1. Cardinality(I \cap J) = 0
    BY FS_EmptySet
  <2>2. Cardinality(I) \in Nat /\ Cardinality(J) \in Nat
    BY FS_CardinalityType
  <2>3. Cardinality(I \cup J) = Cardinality(I) + Cardinality(J) - Cardinality(I \cap J)
    BY FS_Union
  <2> QED BY <2>1, <2>2, <2>3
<1> DEFINE X(K) == UNION {Credits(L, id) : id \in K}
<1>2. X(I \cup J) = X(I) \cup X(J)
  OBVIOUS
<1>3. ASSUME NEW n
      PROVE  /\ Cardinality(Crediting(L, I \cup J, n))
                  = Cardinality(Crediting(L, I, n)) + Cardinality(Crediting(L, J, n))
             /\ Cardinality(Crediting(L, I, n)) \in Nat /\ Cardinality(Crediting(L, J, n)) \in Nat
             /\ n \notin X(I) => Cardinality(Crediting(L, I, n)) = 0
             /\ n \notin X(J) => Cardinality(Crediting(L, J, n)) = 0
  <2> DEFINE A == Crediting(L, I, n)
             B == Crediting(L, J, n)
  <2>1. A \subseteq I /\ B \subseteq J /\ Crediting(L, I \cup J, n) = A \cup B /\ A \cap B = {}
    BY DEF Crediting
  <2>2. (n \notin X(I) => A = {}) /\ (n \notin X(J) => B = {})
    BY DEF Crediting
  <2> HIDE DEF A, B, X
  <2>3. IsFiniteSet(A) /\ IsFiniteSet(B)
    BY <2>1, FS_Subset
  <2>4. Cardinality(A) \in Nat /\ Cardinality(B) \in Nat
    BY <2>3, FS_CardinalityType
  <2>5. Cardinality(A \cup B) = Cardinality(A) + Cardinality(B) - Cardinality(A \cap B)
    BY <2>3, FS_Union
  <2>6. Cardinality(A \cap B) = 0 /\ Cardinality({}) = 0
    BY <2>1, FS_EmptySet
  <2>7. Cardinality(A \cup B) = Cardinality(A) + Cardinality(B)
    BY <2>4, <2>5, <2>6
  <2>8. (n \notin X(I) => Cardinality(A) = 0) /\ (n \notin X(J) => Cardinality(B) = 0)
    BY <2>2, <2>6
  <2> QED BY <2>1, <2>4, <2>7, <2>8 DEF A, B
<1>4. BagOf(L, I \cup J) = BagOf(L, I) (+) BagOf(L, J)
  <2> DEFINE b == BagOf(L, I)
             c == BagOf(L, J)
             count(K, n) == Cardinality(Crediting(L, K, n))
  <2>1. /\ BagOf(L, I \cup J) = [n \in X(I \cup J) |-> count(I \cup J, n)]
        /\ DOMAIN b = X(I) /\ DOMAIN c = X(J)
        /\ \A n \in X(I) : b[n] = count(I, n)
        /\ \A n \in X(J) : c[n] = count(J, n)
    BY DEF BagOf
  <2>2. b (+) c = [n \in X(I) \cup X(J) |-> (IF n \in X(I) THEN b[n] ELSE 0)
                                            + (IF n \in X(J) THEN c[n] ELSE 0)]
    BY <2>1 DEF (+)
  <2>3. ASSUME NEW n \in X(I) \cup X(J)
        PROVE  count(I \cup J, n) = (IF n \in X(I) THEN b[n] ELSE 0)
                                    + (IF n \in X(J) THEN c[n] ELSE 0)
    <3> HIDE DEF b, c, X, count
    <3>1. /\ count(I \cup J, n) = count(I, n) + count(J, n)
          /\ count(I, n) \in Nat /\ count(J, n) \in Nat
          /\ n \notin X(I) => count(I, n) = 0
          /\ n \notin X(J) => count(J, n) = 0
      BY <1>3 DEF count
    <3> QED BY <2>1, <3>1
  <2> HIDE DEF b, c, X, count
  <2>4. [n \in X(I \cup J) |-> count(I \cup J, n)]
           = [n \in X(I) \cup X(J) |-> (IF n \in X(I) THEN b[n] ELSE 0)
                                       + (IF n \in X(J) THEN c[n] ELSE 0)]
    BY <1>2, <2>3
  <2> QED BY <2>1, <2>2, <2>4 DEF b, c
<1> QED BY <1>1, <1>4

LEMMA BagOfOne ==
    ASSUME NEW L, NEW id
    PROVE  /\ Cardinality({id}) = 1
           /\ BagOf(L, {id}) = SetToBag(Credits(L, id))
<1>1. Cardinality({id}) = 1
  BY FS_Singleton
<1>2. \A n \in Credits(L, id) : Crediting(L, {id}, n) = {id}
  BY DEF Crediting
<1>3. UNION {Credits(L, j) : j \in {id}} = Credits(L, id)
  OBVIOUS
<1> QED BY <1>1, <1>2, <1>3 DEF BagOf, SetToBag

LEMMA BagOfNone ==
    ASSUME NEW L
    PROVE  Cardinality({}) = 0 /\ BagOf(L, {}) = EmptyBag
BY FS_EmptySet DEF BagOf, EmptyBag, SetToBag

\* A bag and no more.
LEMMA BagOfAndNothing ==
    ASSUME NEW L, NEW I, IsFiniteSet(I)
    PROVE  BagOf(L, I) (+) EmptyBag = BagOf(L, I)
<1>1. BagOf(L, I \cup {}) = BagOf(L, I) (+) BagOf(L, {})
  BY BagOfUnion, FS_EmptySet
<1> QED BY <1>1, BagOfNone
-----------------------------------------------------------------------------
(***************************************************************************)
(* The folds.  A fold is the value at S of the function that its recursion *)
(* chooses.  The closed form satisfies the recursion, so such a function   *)
(* exists; and it is the only one, for a smallest set on which two of them *)
(* differ has a member, without which they agree.                          *)
(***************************************************************************)
One(T) == CHOOSE x \in T : TRUE

AgreeOnward(g, h, S) ==
    /\ g[{}] = h[{}]
    /\ \A T \in SUBSET S : T # {} /\ g[T \ {One(T)}] = h[T \ {One(T)}] => g[T] = h[T]

LEMMA SameRecursion ==
    ASSUME NEW S, IsFiniteSet(S), NEW g, NEW h, AgreeOnward(g, h, S)
    PROVE  g[S] = h[S]
<1> DEFINE Differ == {n \in Nat : \E T \in SUBSET S : Cardinality(T) = n /\ g[T] # h[T]}
<1>1. \A T \in SUBSET S : IsFiniteSet(T) /\ Cardinality(T) \in Nat
  BY FS_Subset, FS_CardinalityType
<1> SUFFICES ASSUME g[S] # h[S] PROVE FALSE
  OBVIOUS
<1>2. Differ # {} /\ Differ \subseteq Nat
  BY <1>1
<1>3. PICK n \in Differ : \A m \in Differ : ~ (<<m, n>> \in OpToRel(<, Nat))
  BY <1>2, NatLessThanWellFounded, WFMin
<1>4. PICK T \in SUBSET S : Cardinality(T) = n /\ g[T] # h[T]
  OBVIOUS
<1>5. T # {}
  BY <1>4 DEF AgreeOnward
<1> DEFINE x == One(T)
           U == T \ {x}
<1>6. x \in T
  BY <1>5 DEF One
<1>7. U \in SUBSET S /\ Cardinality(U) = Cardinality(T) - 1
  BY <1>1, <1>6, FS_RemoveElement
<1>8. g[U] # h[U]
  BY <1>4, <1>5 DEF AgreeOnward
<1>9. Cardinality(U) \in Differ
  BY <1>1, <1>7, <1>8
<1>10. Cardinality(U) < n /\ n \in Nat
  BY <1>1, <1>4, <1>7
<1>11. <<Cardinality(U), n>> \in OpToRel(<, Nat)
  BY <1>1, <1>7, <1>10 DEF OpToRel
<1> QED BY <1>3, <1>9, <1>11

\* What the parts of T cover.
Joined(part, T) == UNION {part[x] : x \in T}

\* Each x of S has a part of P of its own.
Apart(part, S, P) == /\ IsFiniteSet(P)
                     /\ part \in [S -> SUBSET P]
                     /\ \A x, y \in S : x # y => part[x] \cap part[y] = {}

\* Disjoint parts add up, one member of the set after another.
LEMMA PartsAddUp ==
    ASSUME NEW S, NEW P, NEW part, Apart(part, S, P),
           NEW T \in SUBSET S, NEW x \in T
    PROVE  /\ Cardinality(Joined(part, T))
                 = Cardinality(part[x]) + Cardinality(Joined(part, T \ {x}))
           /\ \A L : BagOf(L, Joined(part, T))
                        = BagOf(L, Joined(part, T \ {x})) (+) BagOf(L, part[x])
<1> DEFINE A == part[x]
           B == Joined(part, T \ {x})
<1>1. Joined(part, T) = B \cup A /\ B \cap A = {}
  BY DEF Apart, Joined
<1>2. A \subseteq P /\ B \subseteq P
  BY DEF Apart, Joined
<1> HIDE DEF A, B
<1>3. IsFiniteSet(A) /\ IsFiniteSet(B)
  BY <1>2, FS_Subset DEF Apart
<1>4. Cardinality(A) \in Nat /\ Cardinality(B) \in Nat
  BY <1>3, FS_CardinalityType
<1>5. Cardinality(B \cup A) = Cardinality(B) + Cardinality(A)
  BY <1>1, <1>3, BagOfUnion
<1>6. \A L : BagOf(L, B \cup A) = BagOf(L, B) (+) BagOf(L, A)
  BY <1>1, <1>3, BagOfUnion
<1>7. Cardinality(B \cup A) = Cardinality(A) + Cardinality(B)
  BY <1>4, <1>5
<1> QED BY <1>1, <1>6, <1>7 DEF A, B

LEMMA JoinedNone == ASSUME NEW part PROVE Joined(part, {}) = {}
BY DEF Joined

LEMMA DocumentTotals ==
    ASSUME NEW D, IsFiniteSet(D), NEW P, NEW part, Apart(part, D, P),
           \A d \in D : d.total = Cardinality(part[d])
    PROVE  SumTotals(D) = Cardinality(Joined(part, D))
<1> DEFINE Step(h) == h = [T \in SUBSET D |-> IF T = {} THEN 0
                                 ELSE LET x == CHOOSE x \in T : TRUE IN x.total + h[T \ {x}]]
           H == CHOOSE h : Step(h)
           G == [T \in SUBSET D |-> Cardinality(Joined(part, T))]
<1>1. \A T \in SUBSET D : T # {} => /\ One(T) \in T /\ T \ {One(T)} \in SUBSET D
                                    /\ G[T] = One(T).total + G[T \ {One(T)}]
  <2> SUFFICES ASSUME NEW T \in SUBSET D, T # {}
               PROVE  /\ One(T) \in T /\ T \ {One(T)} \in SUBSET D
                      /\ G[T] = One(T).total + G[T \ {One(T)}]
    OBVIOUS
  <2>1. One(T) \in T /\ T \ {One(T)} \in SUBSET D
    BY DEF One
  <2>2. G[T] = Cardinality(Joined(part, T)) /\ G[T \ {One(T)}] = Cardinality(Joined(part, T \ {One(T)}))
    BY <2>1
  <2> HIDE DEF G
  <2>3. Cardinality(Joined(part, T))
           = Cardinality(part[One(T)]) + Cardinality(Joined(part, T \ {One(T)}))
    BY <2>1, PartsAddUp
  <2>4. One(T).total = Cardinality(part[One(T)])
    BY <2>1
  <2> QED BY <2>1, <2>2, <2>3, <2>4
<1>2. G[{}] = 0
  BY JoinedNone, BagOfNone
<1>3. Step(G)
  <2>1. ASSUME NEW T \in SUBSET D
        PROVE  G[T] = IF T = {} THEN 0 ELSE LET x == CHOOSE x \in T : TRUE
                                            IN x.total + G[T \ {x}]
    BY <1>1, <1>2 DEF One
  <2>2. G = [T \in SUBSET D |-> G[T]]
    OBVIOUS
  <2> HIDE DEF G
  <2> QED BY <2>1, <2>2
<1>4. Step(H)
  BY <1>3
<1>5. SumTotals(D) = H[D]
  BY DEF SumTotals, MapThenSumSet, MapThenFoldSet
<1> HIDE DEF H, G
<1>6. \A T \in SUBSET D : T # {} => H[T] = One(T).total + H[T \ {One(T)}]
  BY <1>4 DEF One
<1>7. H[{}] = 0
  BY <1>4
<1>8. AgreeOnward(G, H, D)
  BY <1>1, <1>2, <1>6, <1>7 DEF AgreeOnward
<1>9. G[D] = H[D]
  BY <1>8, SameRecursion
<1> QED BY <1>5, <1>9 DEF G

LEMMA DocumentHits ==
    ASSUME NEW L, NEW D, IsFiniteSet(D), NEW P, NEW part, Apart(part, D, P),
           \A d \in D : d.hits = BagOf(L, part[d])
    PROVE  SumHits(D) = BagOf(L, Joined(part, D))
<1> DEFINE Step(h) == h = [T \in SUBSET D |-> IF T = {} THEN EmptyBag
                                 ELSE LET x == CHOOSE x \in T : TRUE IN h[T \ {x}] (+) x.hits]
           H == CHOOSE h : Step(h)
           G == [T \in SUBSET D |-> BagOf(L, Joined(part, T))]
<1>1. \A T \in SUBSET D : T # {} => /\ One(T) \in T /\ T \ {One(T)} \in SUBSET D
                                    /\ G[T] = G[T \ {One(T)}] (+) One(T).hits
  <2> SUFFICES ASSUME NEW T \in SUBSET D, T # {}
               PROVE  /\ One(T) \in T /\ T \ {One(T)} \in SUBSET D
                      /\ G[T] = G[T \ {One(T)}] (+) One(T).hits
    OBVIOUS
  <2>1. One(T) \in T /\ T \ {One(T)} \in SUBSET D
    BY DEF One
  <2>2. G[T] = BagOf(L, Joined(part, T)) /\ G[T \ {One(T)}] = BagOf(L, Joined(part, T \ {One(T)}))
    BY <2>1
  <2> HIDE DEF G
  <2>3. BagOf(L, Joined(part, T))
           = BagOf(L, Joined(part, T \ {One(T)})) (+) BagOf(L, part[One(T)])
    BY <2>1, PartsAddUp
  <2>4. One(T).hits = BagOf(L, part[One(T)])
    BY <2>1
  <2> QED BY <2>1, <2>2, <2>3, <2>4
<1>2. G[{}] = EmptyBag
  BY JoinedNone, BagOfNone
<1>3. Step(G)
  <2>1. ASSUME NEW T \in SUBSET D
        PROVE  G[T] = IF T = {} THEN EmptyBag ELSE LET x == CHOOSE x \in T : TRUE
                                                   IN G[T \ {x}] (+) x.hits
    BY <1>1, <1>2 DEF One
  <2>2. G = [T \in SUBSET D |-> G[T]]
    OBVIOUS
  <2> HIDE DEF G
  <2> QED BY <2>1, <2>2
<1>4. Step(H)
  BY <1>3
<1>5. SumHits(D) = H[D]
  BY DEF SumHits, FoldSet, MapThenFoldSet
<1> HIDE DEF H, G
<1>6. \A T \in SUBSET D : T # {} => H[T] = H[T \ {One(T)}] (+) One(T).hits
  BY <1>4 DEF One
<1>7. H[{}] = EmptyBag
  BY <1>4
<1>8. AgreeOnward(G, H, D)
  BY <1>1, <1>2, <1>6, <1>7 DEF AgreeOnward
<1>9. G[D] = H[D]
  BY <1>8, SameRecursion
<1> QED BY <1>5, <1>9 DEF G

LEMMA ShardTotals ==
    ASSUME NEW P, NEW part, Apart(part, Shards, P),
           \A s \in Shards : agg[s].total = Cardinality(part[s])
    PROVE  CorpusTotal = Cardinality(Joined(part, Shards))
<1> DEFINE Step(h) == h = [T \in SUBSET Shards |-> IF T = {} THEN 0
                                 ELSE LET x == CHOOSE x \in T : TRUE IN agg[x].total + h[T \ {x}]]
           H == CHOOSE h : Step(h)
           G == [T \in SUBSET Shards |-> Cardinality(Joined(part, T))]
<1>1. \A T \in SUBSET Shards : T # {} => /\ One(T) \in T /\ T \ {One(T)} \in SUBSET Shards
                                    /\ G[T] = agg[One(T)].total + G[T \ {One(T)}]
  <2> SUFFICES ASSUME NEW T \in SUBSET Shards, T # {}
               PROVE  /\ One(T) \in T /\ T \ {One(T)} \in SUBSET Shards
                      /\ G[T] = agg[One(T)].total + G[T \ {One(T)}]
    OBVIOUS
  <2>1. One(T) \in T /\ T \ {One(T)} \in SUBSET Shards
    BY DEF One
  <2>2. G[T] = Cardinality(Joined(part, T)) /\ G[T \ {One(T)}] = Cardinality(Joined(part, T \ {One(T)}))
    BY <2>1
  <2> HIDE DEF G
  <2>3. Cardinality(Joined(part, T))
           = Cardinality(part[One(T)]) + Cardinality(Joined(part, T \ {One(T)}))
    BY <2>1, PartsAddUp
  <2>4. agg[One(T)].total = Cardinality(part[One(T)])
    BY <2>1
  <2> QED BY <2>1, <2>2, <2>3, <2>4
<1>2. G[{}] = 0
  BY JoinedNone, BagOfNone
<1>3. Step(G)
  <2>1. ASSUME NEW T \in SUBSET Shards
        PROVE  G[T] = IF T = {} THEN 0 ELSE LET x == CHOOSE x \in T : TRUE
                                            IN agg[x].total + G[T \ {x}]
    BY <1>1, <1>2 DEF One
  <2>2. G = [T \in SUBSET Shards |-> G[T]]
    OBVIOUS
  <2> HIDE DEF G
  <2> QED BY <2>1, <2>2
<1>4. Step(H)
  BY <1>3
<1>5. CorpusTotal = H[Shards]
  BY DEF CorpusTotal, MapThenSumSet, MapThenFoldSet
<1> HIDE DEF H, G
<1>6. \A T \in SUBSET Shards : T # {} => H[T] = agg[One(T)].total + H[T \ {One(T)}]
  BY <1>4 DEF One
<1>7. H[{}] = 0
  BY <1>4
<1>8. AgreeOnward(G, H, Shards)
  BY <1>1, <1>2, <1>6, <1>7 DEF AgreeOnward
<1>9. G[Shards] = H[Shards]
  BY <1>8, ShardsAssumption, SameRecursion
<1> QED BY <1>5, <1>9 DEF G

LEMMA ShardHits ==
    ASSUME NEW L, NEW P, NEW part, Apart(part, Shards, P),
           \A s \in Shards : agg[s].counts = BagOf(L, part[s])
    PROVE  CorpusHits = BagOf(L, Joined(part, Shards))
<1> DEFINE Step(h) == h = [T \in SUBSET Shards |-> IF T = {} THEN EmptyBag
                                 ELSE LET x == CHOOSE x \in T : TRUE IN h[T \ {x}] (+) agg[x].counts]
           H == CHOOSE h : Step(h)
           G == [T \in SUBSET Shards |-> BagOf(L, Joined(part, T))]
<1>1. \A T \in SUBSET Shards : T # {} => /\ One(T) \in T /\ T \ {One(T)} \in SUBSET Shards
                                    /\ G[T] = G[T \ {One(T)}] (+) agg[One(T)].counts
  <2> SUFFICES ASSUME NEW T \in SUBSET Shards, T # {}
               PROVE  /\ One(T) \in T /\ T \ {One(T)} \in SUBSET Shards
                      /\ G[T] = G[T \ {One(T)}] (+) agg[One(T)].counts
    OBVIOUS
  <2>1. One(T) \in T /\ T \ {One(T)} \in SUBSET Shards
    BY DEF One
  <2>2. G[T] = BagOf(L, Joined(part, T)) /\ G[T \ {One(T)}] = BagOf(L, Joined(part, T \ {One(T)}))
    BY <2>1
  <2> HIDE DEF G
  <2>3. BagOf(L, Joined(part, T))
           = BagOf(L, Joined(part, T \ {One(T)})) (+) BagOf(L, part[One(T)])
    BY <2>1, PartsAddUp
  <2>4. agg[One(T)].counts = BagOf(L, part[One(T)])
    BY <2>1
  <2> QED BY <2>1, <2>2, <2>3, <2>4
<1>2. G[{}] = EmptyBag
  BY JoinedNone, BagOfNone
<1>3. Step(G)
  <2>1. ASSUME NEW T \in SUBSET Shards
        PROVE  G[T] = IF T = {} THEN EmptyBag ELSE LET x == CHOOSE x \in T : TRUE
                                                   IN G[T \ {x}] (+) agg[x].counts
    BY <1>1, <1>2 DEF One
  <2>2. G = [T \in SUBSET Shards |-> G[T]]
    OBVIOUS
  <2> HIDE DEF G
  <2> QED BY <2>1, <2>2
<1>4. Step(H)
  BY <1>3
<1>5. CorpusHits = H[Shards]
  BY DEF CorpusHits, FoldSet, MapThenFoldSet
<1> HIDE DEF H, G
<1>6. \A T \in SUBSET Shards : T # {} => H[T] = H[T \ {One(T)}] (+) agg[One(T)].counts
  BY <1>4 DEF One
<1>7. H[{}] = EmptyBag
  BY <1>4
<1>8. AgreeOnward(G, H, Shards)
  BY <1>1, <1>2, <1>6, <1>7 DEF AgreeOnward
<1>9. G[Shards] = H[Shards]
  BY <1>8, ShardsAssumption, SameRecursion
<1> QED BY <1>5, <1>9 DEF G
-----------------------------------------------------------------------------
(***************************************************************************)
(* The counters, step by step.                                             *)
(***************************************************************************)
LEMMA CountInitInv == Init => CountInv
<1> SUFFICES ASSUME Init PROVE CountInv
  OBVIOUS
<1>1. TInv
  BY TInitInv
<1>2. lines \in Corpora /\ \A s \in Shards : at[s] = 1 /\ Len(lines[s]) \in Nat
  BY CorporaAreLines DEF Init
<1>3. Places
  BY <1>2 DEF Init, Places
<1>4. \A S \in SUBSET Shards : Counted(S) = {}
  BY <1>2, SampleIds DEF Counted, Upto
<1>5. ShardCounts
  BY <1>4, BagOfNone DEF Init, ShardCounts
<1> QED BY <1>1, <1>3, <1>5 DEF CountInv, DocumentCounts, Init

\* What is counted before a run has read its next line, and after.
LEMMA ReadOn ==
    ASSUME Places, NEW s \in Shards, at[s] <= Len(lines[s]), NEW S,
           NEW b, b = [at EXCEPT ![s] = @ + 1]
    PROVE  /\ ~ Sample(s, Line(s)) => Upto(Samples, S, b) = Counted(S)
           /\ s \notin S => Upto(Samples, S, b) = Counted(S)
           /\ Sample(s, Line(s)) =>
                 /\ <<s, at[s]>> \in Samples /\ <<s, at[s]>> \notin Counted(S)
                 /\ s \in S => Upto(Samples, S, b) = Counted(S) \cup {<<s, at[s]>>}
<1> DEFINE new == <<s, at[s]>>
<1>1. /\ at \in [Shards -> Nat] /\ at[s] \in 1..Len(lines[s]) /\ Len(lines[s]) \in Nat
      /\ b[s] = at[s] + 1 /\ \A t \in Shards \ {s} : b[t] = at[t]
  BY CorporaAreLines DEF Places
<1>2. new \in Samples <=> Sample(s, Line(s))
  BY <1>1, SamplesAre DEF Line
<1>3. ASSUME NEW id \in Samples
      PROVE  id[2] < b[id[1]] <=> id[2] < at[id[1]] \/ id = new
  <2>1. id[1] \in Shards /\ id[2] \in Nat /\ id = <<id[1], id[2]>>
    BY SampleIds, CorporaAreLines DEF Places
  <2>2. CASE id[1] = s
    BY <1>1, <2>1, <2>2
  <2>3. CASE id[1] # s
    BY <1>1, <2>1, <2>3
  <2> QED BY <2>2, <2>3
<1>4. new \notin Counted(S)
  BY <1>1 DEF Counted, Upto
<1>5. Upto(Samples, S, b) = {id \in Samples : id[1] \in S /\ (id[2] < at[id[1]] \/ id = new)}
  BY <1>3 DEF Upto
<1>6. ASSUME ~ Sample(s, Line(s)) \/ s \notin S PROVE Upto(Samples, S, b) = Counted(S)
  BY <1>2, <1>5, <1>6 DEF Counted, Upto
<1>7. ASSUME Sample(s, Line(s)), s \in S PROVE Upto(Samples, S, b) = Counted(S) \cup {new}
  BY <1>2, <1>5, <1>7 DEF Counted, Upto
<1> QED BY <1>2, <1>4, <1>6, <1>7

\* A run that is still going is in no document.
LEMMA RunningUncovered ==
    ASSUME TInv, NEW s \in Shards, status[s] = "running", NEW d \in docs
    PROVE  s \notin d.from
BY DEF TInv, DocsPartition

LEMMA PlacesMove ==
    ASSUME Places, NEW s \in Shards, status[s] = "running", at[s] <= Len(lines[s]),
           at' = [at EXCEPT ![s] = @ + 1], UNCHANGED <<given, status>>
    PROVE  Places'
<1>1. Len(lines[s]) \in Nat /\ lines' = lines /\ status' = status
  BY CorporaAreLines DEF Places, given
<1> QED BY <1>1 DEF Places

LEMMA SkipCounts ==
    ASSUME CountInv, NEW s \in Shards, SkipLine(s)
    PROVE  CountInv'
<1>1. /\ UNCHANGED <<given, status, agg, docs>> /\ lines' = lines /\ setup' = setup
      /\ at' = [at EXCEPT ![s] = @ + 1] /\ status[s] = "running" /\ at[s] <= Len(lines[s])
      /\ ~ Sample(s, Line(s)) /\ Places
  BY DEF SkipLine, Reading, CountInv, given
<1>2. TInv'
  BY <1>1, NoDocumentTouched DEF CountInv, TInv, Types
<1>3. Places'
  BY <1>1, PlacesMove
<1>4. Samples' = Samples
  BY <1>1, SamplesStay
<1>5. \A S : Upto(Samples, S, at') = Counted(S)
  BY <1>1, ReadOn
<1>7. ShardCounts'
  BY <1>1, <1>4, <1>5 DEF CountInv, ShardCounts, Counted
<1>8. DocumentCounts'
  BY <1>1, <1>4, <1>5 DEF CountInv, DocumentCounts, Counted
<1> QED BY <1>2, <1>3, <1>7, <1>8 DEF CountInv

\* record_visited adds to the counters what one more sample credits.
LEMMA ParseCounts ==
    ASSUME CountInv, NEW s \in Shards, ParseLine(s)
    PROVE  CountInv'
<1> DEFINE new == <<s, at[s]>>
<1>1. /\ UNCHANGED <<given, status, docs>> /\ lines' = lines /\ setup' = setup
      /\ at' = [at EXCEPT ![s] = @ + 1] /\ status[s] = "running" /\ at[s] <= Len(lines[s])
      /\ Sample(s, Line(s)) /\ Places /\ TInv /\ ShardCounts /\ DocumentCounts
      /\ agg' = [agg EXCEPT ![s] = Record(agg[s], Line(s))]
  BY DEF ParseLine, Reading, CountInv, given
<1>2. TInv'
  BY <1>1, NoDocumentTouched DEF CountInv, TInv, Types
<1>3. Places'
  BY <1>1, PlacesMove
<1>4. Samples' = Samples
  BY <1>1, SamplesStay
<1>5. /\ \A S : s \notin S => Upto(Samples, S, at') = Counted(S)
      /\ \A S : s \in S => Upto(Samples, S, at') = Counted(S) \cup {new}
      /\ \A S : new \notin Counted(S)
  BY <1>1, ReadOn
<1>6. IsFiniteSet(Counted({s})) /\ Counted({s}) \cap {new} = {}
  <2>1. IsFiniteSet(Samples)
    BY <1>1, SamplesFinite DEF Places
  <2>2. Counted({s}) \subseteq Samples
    BY DEF Counted, Upto
  <2>3. IsFiniteSet(Counted({s}))
    BY <2>1, <2>2, FS_Subset
  <2>4. new \notin Counted({s})
    BY <1>5
  <2> QED BY <2>3, <2>4
<1>7. Record(agg[s], Line(s)) =
        [total  |-> Cardinality(Counted({s}) \cup {new}),
         counts |-> BagOf(lines, Counted({s}) \cup {new})]
  <2>1. agg[s].total = Cardinality(Counted({s})) /\ agg[s].counts = BagOf(lines, Counted({s}))
    BY <1>1 DEF ShardCounts
  <2>2. Cardinality(Counted({s}) \cup {new}) = Cardinality(Counted({s})) + 1
    <3>1. Cardinality(Counted({s}) \cup {new}) = Cardinality(Counted({s})) + Cardinality({new})
      BY <1>6, BagOfUnion, FS_Singleton
    <3> QED BY <3>1, FS_Singleton
  <2>3. BagOf(lines, Counted({s}) \cup {new})
           = BagOf(lines, Counted({s})) (+) SetToBag(Credits(lines, new))
    <3>1. IsFiniteSet({new})
      BY FS_Singleton
    <3>2. BagOf(lines, Counted({s}) \cup {new})
             = BagOf(lines, Counted({s})) (+) BagOf(lines, {new})
      BY <1>6, <3>1, BagOfUnion
    <3> QED BY <3>2, BagOfOne
  <2>4. Line(s) = lines[new[1]][new[2]]
    BY DEF Line
  <2>5. CASE Line(s).matched
    <3>1. Credits(lines, new) = {Line(s).visited[i] : i \in 1..Len(Line(s).visited)}
      BY <2>4, <2>5 DEF Credits
    <3> QED BY <2>1, <2>2, <2>3, <2>5, <3>1 DEF Record
  <2>6. CASE ~ Line(s).matched
    <3>1. SetToBag(Credits(lines, new)) = EmptyBag
      BY <2>4, <2>6 DEF Credits, EmptyBag
    <3>2. BagOf(lines, Counted({s}) \cup {new}) = BagOf(lines, Counted({s}))
      BY <1>6, <2>3, <3>1, BagOfAndNothing
    <3> QED BY <2>1, <2>2, <2>6, <3>2 DEF Record
  <2> QED BY <2>5, <2>6
<1>8. ShardCounts'
  <2>1. agg = [t \in Shards |-> agg[t]]
    BY <1>1 DEF ShardCounts
  <2>2. /\ agg'[s] = Record(agg[s], Line(s))
        /\ \A t \in Shards \ {s} : agg'[t] = agg[t]
        /\ agg' = [t \in Shards |-> agg'[t]]
    BY <1>1, <2>1
  <2>3. ASSUME NEW t \in Shards
        PROVE  /\ agg'[t].total = Cardinality(Upto(Samples, {t}, at'))
               /\ agg'[t].counts = BagOf(lines, Upto(Samples, {t}, at'))
    <3>1. CASE t = s
      <4>1. Upto(Samples, {t}, at') = Counted({s}) \cup {new}
        BY <1>5, <3>1
      <4>2. /\ agg'[t].total = Cardinality(Counted({s}) \cup {new})
            /\ agg'[t].counts = BagOf(lines, Counted({s}) \cup {new})
        BY <1>7, <2>2, <3>1
      <4> QED BY <4>1, <4>2
    <3>2. CASE t # s
      <4>1. Upto(Samples, {t}, at') = Counted({t}) /\ agg'[t] = agg[t]
        BY <1>5, <2>2, <3>2
      <4> QED BY <1>1, <4>1 DEF ShardCounts
    <3> QED BY <3>1, <3>2
  <2> QED BY <1>1, <1>4, <2>2, <2>3 DEF ShardCounts, Counted
<1>9. DocumentCounts'
  <2>1. \A d \in docs : Upto(Samples, d.from, at') = Counted(d.from)
    BY <1>1, <1>5, RunningUncovered
  <2> QED BY <1>1, <1>4, <2>1 DEF DocumentCounts, Counted
<1> QED BY <1>2, <1>3, <1>8, <1>9 DEF CountInv

\* The documents are finitely many, each with shards of its own.
LEMMA DocsApart ==
    ASSUME CountInv, NEW D \in SUBSET docs
    PROVE  /\ IsFiniteSet(D)
           /\ Apart([d \in D |-> Counted(d.from)], D, Samples)
           /\ Joined([d \in D |-> Counted(d.from)], D) = Counted(UNION {d.from : d \in D})
<1>1. /\ \A d \in D : d.from # {} /\ d.from \subseteq Shards
      /\ \A d, e \in D : d # e => d.from \cap e.from = {}
  BY DEF CountInv, TInv, DocsPartition, DocumentCounts
<1>2. IsFiniteSet(D)
  <2> DEFINE f == [d \in D |-> CHOOSE s \in d.from : TRUE]
  <2>1. \A d \in D : f[d] \in d.from
    BY <1>1
  <2>2. f \in [D -> Shards]
    BY <1>1, <2>1
  <2>3. IsInjective(f)
    BY <1>1, <2>1 DEF IsInjective
  <2>4. f \in Injection(D, Shards)
    BY <2>2, <2>3 DEF Injection
  <2> QED BY <2>4, ShardsAssumption, FS_Injection
<1>3. IsFiniteSet(Samples)
  BY SamplesFinite DEF CountInv, Places
<1> DEFINE part == [d \in D |-> Counted(d.from)]
<1>4. part \in [D -> SUBSET Samples]
  BY DEF Counted, Upto
<1>5. \A d, e \in D : d # e => part[d] \cap part[e] = {}
  BY <1>1 DEF Counted, Upto
<1>6. Joined(part, D) = Counted(UNION {d.from : d \in D})
  BY DEF Joined, Counted, Upto
<1> QED BY <1>2, <1>3, <1>4, <1>5, <1>6 DEF Apart

LEMMA WriteCounts ==
    ASSUME CountInv, NEW s \in Shards, WriteHits(s)
    PROVE  CountInv'
<1> DEFINE new == [from |-> {s}, grammar |-> setup.grammar[s],
                   total |-> agg[s].total, hits |-> agg[s].counts]
<1>1. /\ UNCHANGED <<given, at, agg>> /\ lines' = lines
      /\ docs' = docs \cup {new} /\ at[s] > Len(lines[s])
      /\ status' = [status EXCEPT ![s] = "done"]
      /\ Places /\ TInv /\ ShardCounts /\ DocumentCounts
  BY DEF WriteHits, CountInv, given
<1>2. TInv'
  BY WriteHitsInv DEF CountInv
<1>3. Places'
  <2>1. at[s] = Len(lines[s]) + 1
    BY <1>1, CorporaAreLines DEF Places
  <2>2. \A t \in Shards : status'[t] = "done" => t = s \/ status[t] = "done"
    BY <1>1 DEF TInv, Types
  <2> QED BY <1>1, <2>1, <2>2 DEF Places
<1>4. Samples' = Samples
  BY <1>1, SamplesStay
<1>5. ShardCounts'
  BY <1>1, <1>4 DEF ShardCounts, Counted
<1>6. DocumentCounts'
  <2>1. /\ new.from = {s} /\ new.total = agg[s].total /\ new.hits = agg[s].counts
    OBVIOUS
  <2> HIDE DEF new
  <2>2. /\ new.total = Cardinality(Counted(new.from))
        /\ new.hits = BagOf(lines, Counted(new.from))
    BY <1>1, <2>1 DEF ShardCounts
  <2> QED BY <1>1, <1>4, <2>1, <2>2 DEF DocumentCounts, Counted
<1> QED BY <1>2, <1>3, <1>5, <1>6 DEF CountInv

\* merge_hits: what the merged document counts is what its parts have counted.
LEMMA MergedCounts ==
    ASSUME CountInv, NEW D \in SUBSET docs
    PROVE  /\ SumTotals(D) = Cardinality(Counted(UNION {d.from : d \in D}))
           /\ SumHits(D) = BagOf(lines, Counted(UNION {d.from : d \in D}))
<1> DEFINE part == [d \in D |-> Counted(d.from)]
<1>1. IsFiniteSet(D) /\ Apart(part, D, Samples)
  BY DocsApart
<1>2. Joined(part, D) = Counted(UNION {d.from : d \in D})
  BY DocsApart
<1>3. \A d \in D : d.total = Cardinality(part[d]) /\ d.hits = BagOf(lines, part[d])
  BY DEF CountInv, DocumentCounts
<1> HIDE DEF part
<1>4. SumTotals(D) = Cardinality(Joined(part, D))
  BY <1>1, <1>3, DocumentTotals
<1>5. SumHits(D) = BagOf(lines, Joined(part, D))
  BY <1>1, <1>3, DocumentHits
<1> QED BY <1>2, <1>4, <1>5

LEMMA MergeCounts ==
    ASSUME CountInv, NEW D \in SUBSET docs, Merge(D)
    PROVE  CountInv'
<1> DEFINE all == UNION {d.from : d \in D}
           new == [from |-> all, grammar |-> (CHOOSE d \in D : TRUE).grammar,
                   total |-> SumTotals(D), hits |-> SumHits(D)]
<1>1. /\ UNCHANGED <<given, at, agg, status>> /\ lines' = lines
      /\ docs' = (docs \ D) \cup {new} /\ Cardinality(D) >= 2
      /\ Places /\ TInv /\ ShardCounts /\ DocumentCounts
  BY DEF Merge, CountInv, given
<1>2. TInv'
  BY MergeInv DEF CountInv
<1>3. Places'
  BY <1>1 DEF Places
<1>4. Samples' = Samples
  BY <1>1, SamplesStay
<1>5. ShardCounts'
  BY <1>1, <1>4 DEF ShardCounts, Counted
<1>6. DocumentCounts'
  <2>1. new.from = all /\ new.total = SumTotals(D) /\ new.hits = SumHits(D)
    OBVIOUS
  <2> HIDE DEF new
  <2>2. new.total = Cardinality(Counted(new.from)) /\ new.hits = BagOf(lines, Counted(new.from))
    BY <2>1, MergedCounts
  <2>3. D # {}
    BY <1>1, FS_EmptySet
  <2>4. new.from # {} /\ new.from \subseteq Shards
    BY <1>1, <2>1, <2>3 DEF DocumentCounts
  <2> QED BY <1>1, <1>4, <2>2, <2>4 DEF DocumentCounts, Counted
<1> QED BY <1>2, <1>3, <1>5, <1>6 DEF CountInv

LEMMA CountStepInv == ASSUME CountInv, [Next]_vars PROVE CountInv'
<1>1. ASSUME UNCHANGED <<given, at, agg, docs>>, TInv',
             \A s \in Shards : status'[s] = "done" => status[s] = "done"
      PROVE  CountInv'
  <2>1. Samples' = Samples /\ lines' = lines
    BY <1>1, SamplesStay DEF given
  <2>2. Places'
    BY <1>1, <2>1 DEF CountInv, Places
  <2>3. ShardCounts' /\ DocumentCounts'
    BY <1>1, <2>1 DEF CountInv, ShardCounts, DocumentCounts, Counted
  <2> QED BY <1>1, <2>2, <2>3 DEF CountInv
<1>2. TInv'
  BY TStepInv DEF CountInv
<1>3. ASSUME NEW s \in Shards, Fail(s) PROVE CountInv'
  BY <1>1, <1>2, <1>3 DEF Fail, CountInv, TInv, Types
<1>4. CASE UNCHANGED vars
  BY <1>1, <1>2, <1>4 DEF vars
<1> QED BY <1>3, <1>4, SkipCounts, ParseCounts, WriteCounts, MergeCounts DEF Next, Run
-----------------------------------------------------------------------------
(***************************************************************************)
(* What a document counts is a usage of its total.                         *)
(***************************************************************************)
LEMMA CopiesAre ==
    ASSUME NEW L, NEW I, IsFiniteSet(I), NEW n
    PROVE  /\ Copies(n, BagOf(L, I)) = Cardinality(Crediting(L, I, n))
           /\ IsFiniteSet(Crediting(L, I, n))
<1>1. n \in BagToSet(BagOf(L, I)) <=> n \in UNION {Credits(L, id) : id \in I}
  BY DEF BagToSet, BagOf
<1>2. n \notin UNION {Credits(L, id) : id \in I} => Crediting(L, I, n) = {}
  BY DEF Crediting
<1>3. Cardinality({}) = 0
  BY FS_EmptySet
<1>4. IsFiniteSet(Crediting(L, I, n))
  <2>1. Crediting(L, I, n) \subseteq I
    BY DEF Crediting
  <2> QED BY <2>1, FS_Subset
<1>5. CASE n \in UNION {Credits(L, id) : id \in I}
  <2>1. BagOf(L, I)[n] = Cardinality(Crediting(L, I, n))
    BY <1>5 DEF BagOf
  <2> QED BY <1>1, <1>5, <1>4, <2>1 DEF Copies, BagIn
<1>6. CASE n \notin UNION {Credits(L, id) : id \in I}
  BY <1>1, <1>2, <1>3, <1>6, <1>4 DEF Copies, BagIn
<1> QED BY <1>5, <1>6

LEMMA UsagesOfCounts == CountInv => CountsAreUsages
<1> SUFFICES ASSUME CountInv, NEW d \in docs
             PROVE  /\ \A r \in Requires : Copies(r[1], d.hits) <= Copies(r[2], d.hits)
                    /\ \A n \in BagToSet(d.hits) : Copies(n, d.hits) <= d.total
  BY DEF CountsAreUsages
<1> DEFINE I == Counted(d.from)
<1>1. /\ d.total = Cardinality(I) /\ d.hits = BagOf(lines, I)
      /\ lines \in Corpora /\ I \subseteq Samples
  BY DEF CountInv, DocumentCounts, Places, Counted, Upto
<1>2. IsFiniteSet(I)
  BY <1>1, SamplesFinite, FS_Subset
<1>3. ASSUME NEW r \in Requires PROVE Copies(r[1], d.hits) <= Copies(r[2], d.hits)
  <2>1. ASSUME NEW id \in I PROVE r[1] \in Credits(lines, id) => r[2] \in Credits(lines, id)
    <3>1. id[1] \in Shards /\ id[2] \in 1..Len(lines[id[1]])
      BY <1>1, SampleIds
    <3> QED BY <1>1, <3>1, ClosedVerdicts DEF Credits
  <2>2. Crediting(lines, I, r[1]) \subseteq Crediting(lines, I, r[2])
    BY <2>1 DEF Crediting
  <2> HIDE DEF I
  <2>3. Cardinality(Crediting(lines, I, r[1])) <= Cardinality(Crediting(lines, I, r[2]))
    BY <1>2, <2>2, CopiesAre, FS_Subset
  <2> QED BY <1>1, <1>2, <2>3, CopiesAre
<1>4. ASSUME NEW n PROVE Copies(n, d.hits) <= d.total
  <2>1. Crediting(lines, I, n) \subseteq I
    BY DEF Crediting
  <2> HIDE DEF I
  <2>2. Cardinality(Crediting(lines, I, n)) <= Cardinality(I)
    BY <1>2, <2>1, FS_Subset
  <2> QED BY <1>1, <1>2, <2>2, CopiesAre
<1> QED BY <1>3, <1>4

LEMMA CountersExact == Spec => []CountInv
<1>1. CountInv /\ [Next]_vars => CountInv'
  BY CountStepInv
<1> QED BY CountInitInv, <1>1, PTL DEF Spec

\* In every hits document, however it was merged (hitsmerge.py), a mandatory child is
\* counted at least as often as its parent, and no node more often than there are
\* samples (codegen.py credits a reference only when its target rule matched).
THEOREM UsagesAreFractions == Spec => []CountsAreUsages
BY CountersExact, UsagesOfCounts, PTL
-----------------------------------------------------------------------------
(***************************************************************************)
(* Sharding and merging are invisible.  The count of the whole corpus is   *)
(* that of Counted(Shards): parsing a sample counts it; writing or merging *)
(* the document that covers the last shards publishes the count; every     *)
(* other step leaves it alone.                                             *)
(***************************************************************************)
CorpusCounts ==
    /\ CorpusTotal = Cardinality(Counted(Shards))
    /\ CorpusHits = BagOf(lines, Counted(Shards))
    /\ Unread = Samples \ Counted(Shards)
    /\ IsFiniteSet(Counted(Shards))
    /\ Published = IF Complete = {} THEN NotYet
                   ELSE [total |-> CorpusTotal, hits |-> CorpusHits]
    /\ Complete # {} => Unread = {} /\ \A s \in Shards : status[s] = "done"

LEMMA CorpusIsCounted == CountInv => CorpusCounts
<1> SUFFICES ASSUME CountInv PROVE CorpusCounts
  OBVIOUS
<1> DEFINE part == [s \in Shards |-> Counted({s})]
<1>1. Places /\ ShardCounts /\ DocumentCounts /\ TInv
  BY DEF CountInv
<1>2. IsFiniteSet(Samples)
  BY <1>1, SamplesFinite DEF Places
<1>3. Apart(part, Shards, Samples)
  BY <1>2 DEF Apart, Counted, Upto
<1>4. Joined(part, Shards) = Counted(Shards)
  BY DEF Joined, Counted, Upto
<1>5. \A s \in Shards : agg[s].total = Cardinality(part[s]) /\ agg[s].counts = BagOf(lines, part[s])
  BY <1>1 DEF ShardCounts
<1> HIDE DEF part
<1>6. CorpusTotal = Cardinality(Counted(Shards))
  BY <1>3, <1>4, <1>5, ShardTotals
<1>7. CorpusHits = BagOf(lines, Counted(Shards))
  BY <1>3, <1>4, <1>5, ShardHits
<1>8. Unread = Samples \ Counted(Shards)
  <2>1. \A id \in Samples : id[2] \in Int /\ at[id[1]] \in Int /\ id[1] \in Shards
    BY <1>1, SampleIds, CorporaAreLines DEF Places
  <2> QED BY <2>1 DEF Unread, Counted, Upto
<1>9. IsFiniteSet(Counted(Shards))
  <2>1. Counted(Shards) \subseteq Samples
    BY DEF Counted, Upto
  <2> QED BY <1>2, <2>1, FS_Subset
<1>10. \A d \in Complete : /\ d \in docs /\ d.from = Shards
                           /\ d.total = CorpusTotal /\ d.hits = CorpusHits
  BY <1>1, <1>6, <1>7 DEF DocumentCounts, Complete
<1>11. Published = IF Complete = {} THEN NotYet
                   ELSE [total |-> CorpusTotal, hits |-> CorpusHits]
  BY <1>10 DEF Published
<1>12. ASSUME Complete # {} PROVE \A s \in Shards : status[s] = "done"
  BY <1>1, <1>10, <1>12 DEF TInv, DocsPartition
<1>13. ASSUME Complete # {} PROVE Unread = {}
  <2>1. \A s \in Shards : at[s] = Len(lines[s]) + 1 /\ Len(lines[s]) \in Nat
    BY <1>1, <1>12, <1>13, CorporaAreLines DEF Places
  <2>2. \A id \in Samples : id[1] \in Shards /\ id[2] \in 1..Len(lines[id[1]])
    BY SampleIds
  <2> QED BY <2>1, <2>2 DEF Unread
<1> QED BY <1>6, <1>7, <1>8, <1>9, <1>11, <1>12, <1>13 DEF CorpusCounts

\* The bags of the abstract specification are those of this one.
LEMMA SameBags ==
    /\ Whole!EmptyBag = EmptyBag
    /\ \A S : Whole!SetToBag(S) = SetToBag(S)
    /\ \A b, c : Whole!(+)(b, c) = b (+) c
BY DEF Whole!EmptyBag, EmptyBag, Whole!SetToBag, SetToBag, Whole!(+), (+)

LEMMA WholeInit == Init => Whole!Init
<1> SUFFICES ASSUME Init PROVE Whole!Init
  OBVIOUS
<1>1. CorpusCounts /\ Places
  BY CountInitInv, CorpusIsCounted DEF CountInv
<1>2. Counted(Shards) = {}
  BY SampleIds, CorporaAreLines DEF Init, Counted, Upto
<1>3. CorpusTotal = 0 /\ CorpusHits = EmptyBag
  BY <1>1, <1>2, BagOfNone DEF CorpusCounts
<1>4. Unread = DOMAIN Verdicts
  BY <1>1, <1>2 DEF CorpusCounts, Verdicts
<1>5. Published = NotYet
  BY <1>1 DEF CorpusCounts, Complete, Init
<1> QED BY <1>3, <1>4, <1>5, SameBags DEF Whole!Init

\* A step that reads nothing leaves the count alone, and may publish it.
LEMMA NothingRead ==
    ASSUME CorpusCounts, CorpusCounts', UNCHANGED given,
           Counted(Shards)' = Counted(Shards), Complete # {} => Complete' # {}
    PROVE  [Whole!Next]_(Whole!vars)
<1>1. Samples' = Samples /\ lines' = lines
  BY SamplesStay DEF given
<1>2. Verdicts' = Verdicts
  BY <1>1 DEF Verdicts
<1>3. Unread' = Unread /\ CorpusTotal' = CorpusTotal /\ CorpusHits' = CorpusHits
  BY <1>1 DEF CorpusCounts
<1>4. CASE Complete = {} <=> Complete' = {}
  <2>1. Published' = Published
    BY <1>3, <1>4 DEF CorpusCounts, NotYet
  <2> QED BY <1>2, <1>3, <2>1 DEF Whole!vars
<1>5. CASE Complete = {} /\ Complete' # {}
  <2>1. Unread = {} /\ Published = NotYet
        /\ Published' = [total |-> CorpusTotal, hits |-> CorpusHits]
    BY <1>3, <1>5 DEF CorpusCounts
  <2>2. Whole!Publish
    BY <1>2, <1>3, <2>1 DEF Whole!Publish
  <2> QED BY <2>2 DEF Whole!Next
<1> QED BY <1>4, <1>5

LEMMA ParseImplements ==
    ASSUME CountInv, CorpusCounts, CorpusCounts', NEW s \in Shards, ParseLine(s)
    PROVE  Whole!Next
<1> DEFINE new == <<s, at[s]>>
<1>1. /\ UNCHANGED <<given, status, docs>> /\ lines' = lines
      /\ at' = [at EXCEPT ![s] = @ + 1] /\ status[s] = "running" /\ at[s] <= Len(lines[s])
      /\ Sample(s, Line(s)) /\ Places
  BY DEF ParseLine, Reading, CountInv, given
<1>2. Samples' = Samples
  BY <1>1, SamplesStay
<1>3. Verdicts' = Verdicts
  BY <1>1, <1>2 DEF Verdicts
<1>4. Complete = {} /\ Complete' = {}
  BY <1>1 DEF CorpusCounts, Complete
<1>5. Published' = Published
  BY <1>4 DEF CorpusCounts, NotYet
<1>6. /\ new \in Samples /\ new \notin Counted(Shards)
      /\ Counted(Shards)' = Counted(Shards) \cup {new}
  <2>1. /\ new \in Samples /\ new \notin Counted(Shards)
        /\ Upto(Samples, Shards, at') = Counted(Shards) \cup {new}
    BY <1>1, ReadOn
  <2> QED BY <1>2, <2>1 DEF Counted
<1>7. new \in Unread /\ Unread' = Unread \ {new}
  BY <1>2, <1>6 DEF CorpusCounts
<1>8. IsFiniteSet({new}) /\ Counted(Shards) \cap {new} = {} /\ IsFiniteSet(Counted(Shards))
  BY <1>6, FS_Singleton DEF CorpusCounts
<1>9. /\ Cardinality(Counted(Shards) \cup {new}) = Cardinality(Counted(Shards)) + Cardinality({new})
      /\ BagOf(lines, Counted(Shards) \cup {new}) = BagOf(lines, Counted(Shards)) (+) BagOf(lines, {new})
  BY <1>8, BagOfUnion
<1>10. Cardinality({new}) = 1 /\ BagOf(lines, {new}) = SetToBag(Credits(lines, new))
  BY BagOfOne
<1>11. SetToBag(Credits(lines, new)) = Whole!Credited(new)
  <2>1. Verdicts[new] = [matched |-> lines[s][at[s]].matched,
                         visited |-> {lines[s][at[s]].visited[i] : i \in 1..Len(lines[s][at[s]].visited)}]
    BY <1>6 DEF Verdicts
  <2> QED BY <2>1, SameBags DEF Credits, Whole!Credited, EmptyBag
<1> HIDE DEF new
<1>12. CorpusTotal' = CorpusTotal + 1 /\ CorpusHits' = CorpusHits (+) Whole!Credited(new)
  BY <1>1, <1>6, <1>9, <1>10, <1>11 DEF CorpusCounts
<1>13. Whole!Count(new)
  BY <1>3, <1>5, <1>7, <1>12, SameBags DEF Whole!Count
<1> QED BY <1>7, <1>13 DEF Whole!Next

\* A document of the whole corpus is the only one, so no merge takes it.
LEMMA CompleteStays ==
    ASSUME CountInv, NEW D \in SUBSET docs, Merge(D)
    PROVE  Complete # {} => Complete' # {}
<1> SUFFICES ASSUME NEW c \in Complete PROVE c \in Complete'
  OBVIOUS
<1>1. /\ c \in docs /\ c.from = Shards /\ Cardinality(D) >= 2
      /\ \A d \in docs : d.from # {} /\ d.from \subseteq Shards
      /\ \A d, e \in docs : d # e => d.from \cap e.from = {}
  BY DEF Merge, Complete, CountInv, TInv, DocsPartition, DocumentCounts
<1>2. docs = {c}
  BY <1>1
<1>3. Cardinality({c}) = 1 /\ Cardinality({}) = 0
  BY FS_Singleton, FS_EmptySet
<1>4. D = {} \/ D = {c}
  BY <1>2
<1> QED BY <1>1, <1>3, <1>4

LEMMA WholeStep ==
    ASSUME CountInv, CorpusCounts, CorpusCounts', [Next]_vars
    PROVE  [Whole!Next]_(Whole!vars)
<1>1. ASSUME NEW s \in Shards, SkipLine(s) PROVE [Whole!Next]_(Whole!vars)
  <2>1. /\ UNCHANGED given /\ docs' = docs /\ at' = [at EXCEPT ![s] = @ + 1]
        /\ at[s] <= Len(lines[s]) /\ ~ Sample(s, Line(s)) /\ Places
    BY <1>1 DEF SkipLine, Reading, CountInv
  <2>2. Upto(Samples, Shards, at') = Counted(Shards)
    BY <2>1, ReadOn
  <2>3. Counted(Shards)' = Counted(Shards)
    BY <2>1, <2>2, SamplesStay DEF Counted
  <2>4. Complete' = Complete
    BY <2>1 DEF Complete
  <2> QED BY <2>1, <2>3, <2>4, NothingRead
<1>2. ASSUME UNCHANGED <<given, at>>, Complete # {} => Complete' # {}
      PROVE  [Whole!Next]_(Whole!vars)
  <2>1. Counted(Shards)' = Counted(Shards)
    BY <1>2, SamplesStay DEF Counted
  <2> QED BY <1>2, <2>1, NothingRead
<1>3. ASSUME NEW s \in Shards, WriteHits(s) PROVE [Whole!Next]_(Whole!vars)
  BY <1>2, <1>3 DEF WriteHits, Complete
<1>4. ASSUME NEW s \in Shards, Fail(s) PROVE [Whole!Next]_(Whole!vars)
  BY <1>2, <1>4 DEF Fail, Complete
<1>5. ASSUME NEW D \in SUBSET docs, Merge(D) PROVE [Whole!Next]_(Whole!vars)
  <2>1. UNCHANGED <<given, at>>
    BY <1>5 DEF Merge
  <2> QED BY <1>2, <1>5, <2>1, CompleteStays
<1>6. CASE UNCHANGED vars
  BY <1>2, <1>6 DEF vars, Complete
<1> QED BY <1>1, <1>3, <1>4, <1>5, <1>6, ParseImplements DEF Next, Run

\* Sharding and merging are invisible: the stage implements the count of the whole
\* corpus by a single run (hitsmerge.py: "exactly what a single run over the whole corpus
\* would have produced"), for every cut of it into shards and every order of merges.
THEOREM ImplementsTally == Spec => CountsTheWholeCorpus
<1>1. CorpusCounts /\ CorpusCounts' /\ CountInv /\ [Next]_vars => [Whole!Next]_(Whole!vars)
  BY WholeStep
<1> QED BY CountersExact, CorpusIsCounted, WholeInit, <1>1, PTL DEF Spec, CountsTheWholeCorpus, Whole!Spec
=============================================================================
