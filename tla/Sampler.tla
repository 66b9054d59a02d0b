------------------------------ MODULE Sampler ------------------------------
(***************************************************************************)
(* The stratified sampler (sampler.py): quotas, bottom-k selection of each *)
(* stratum, the cross-stratum deduplication, the corpus shards and the     *)
(* manifest.                                                               *)
(*                                                                         *)
(* A stratum delivers the URIs dedupe_and_cap yields for it (Dedup), each  *)
(* once, in an order that depends on the source and on the shard count:    *)
(* here any order.  URIs are natural numbers, in their string order; the   *)
(* stable fraction of a URI under a seed is abstracted to a score, equal   *)
(* scores included; weights are natural numbers.                           *)
(***************************************************************************)
EXTENDS Integers, Sequences, FiniteSets, Functions, FiniteSetsExt, SequencesExt

CONSTANTS Jobs,   \* the calls: [strata, target, shards]; a stratum is [weight, uris]
          Score   \* Score[i][u]: stable_fraction(u, seed + i)

IsJob(j) == /\ j.strata \in Seq([weight : Nat, uris : SUBSET Nat])
            /\ \A i \in DOMAIN j.strata : /\ IsFiniteSet(j.strata[i].uris)
                                          /\ \A u \in j.strata[i].uris : Score[i][u] \in Nat
            /\ j.target \in Nat
            /\ j.shards \in Nat \ {0}

ASSUME SamplerAssumption == \A j \in Jobs : IsJob(j)

VARIABLES job,         \* the call (never changes)
          stage,       \* "quotas", "read", "write", "done" or "error" (ValueError)
          targets,     \* the quota of each stratum
          stratum,     \* the stratum being read
          unread,      \* its URIs that have not arrived yet
          heap,        \* the best URIs of it so far
          combined,    \* the corpus so far
          realized,    \* the realized counts of the strata read
          shardFiles,  \* the corpus shards
          manifest     \* manifest.json, or << >> before it is written

readVars   == <<targets, stratum, unread, heap, combined, realized>>
writeVars  == <<shardFiles, manifest>>
sampleVars == <<job, stage, readVars, writeVars>>
-----------------------------------------------------------------------------
\* The members of S, in the order of a strict total order on them: the n-th has n - 1
\* before it.  (SortSeq is built into TLC; this definition can also be proved about.)
InOrder(S, Comes(_, _)) ==
    [n \in 1..Cardinality(S) |->
        CHOOSE u \in S : Cardinality({v \in S : Comes(v, u)}) = n - 1]

Strata(j)      == 1..Len(j.strata)
TotalWeight(j) == SumFunction([i \in Strata(j) |-> j.strata[i].weight])

\* Largest remainder: the floor of the exact share, and one unit more for those of the
\* largest fractional parts, the earlier stratum first among equals.
Floors(j)    == [i \in Strata(j) |-> (j.target * j.strata[i].weight) \div TotalWeight(j)]
Fraction(j)  == [i \in Strata(j) |-> (j.target * j.strata[i].weight) % TotalWeight(j)]
Before(j, i) == {k \in Strata(j) : \/ Fraction(j)[k] > Fraction(j)[i]
                                   \/ Fraction(j)[k] = Fraction(j)[i] /\ k < i}
\* Mutant of Quotas: the leftover units go to the first strata.
QuotasToFirst(j) ==
    LET remainder == j.target - SumFunction(Floors(j))
    IN  [i \in Strata(j) |-> Floors(j)[i] + (IF i <= remainder THEN 1 ELSE 0)]
Quotas(j) ==
    LET remainder == j.target - SumFunction(Floors(j))
    IN  [i \in Strata(j) |->
            Floors(j)[i] + (IF Cardinality(Before(j, i)) < remainder THEN 1 ELSE 0)]

\* u is preferred to v: a smaller fraction, the larger string among equals (the
\* heap's entries are <<-fraction, uri>>, and its smallest entry is replaced).
Better(i, u, v) == \/ Score[i][u] < Score[i][v]
                   \/ Score[i][u] = Score[i][v] /\ u > v

\* The order they are returned in: smallest fraction first, then lexicographic.
Precedes(i, u, v) == \/ Score[i][u] < Score[i][v]
                     \/ Score[i][u] = Score[i][v] /\ u < v
Sorted(i, S) == InOrder(S, LAMBDA u, v : Precedes(i, u, v))

SampleInit == /\ job \in Jobs
              /\ stage = "quotas"
              /\ targets = << >> /\ realized = << >> /\ combined = << >>
              /\ stratum = 0 /\ unread = {} /\ heap = {}
              /\ shardFiles = << >> /\ manifest = << >>

NoWeight == /\ stage = "quotas" /\ TotalWeight(job) = 0
            /\ stage' = "error"
            /\ UNCHANGED <<job, readVars, writeVars>>

Allocate == /\ stage = "quotas" /\ TotalWeight(job) > 0
            /\ targets' = Quotas(job)
            /\ stratum' = 1 /\ unread' = job.strata[1].uris
            /\ stage' = "read"
            /\ UNCHANGED <<job, heap, combined, realized, writeVars>>

\* Mutant of Arrive: on equal fractions the URI that came first stays.
ArriveFirst(u) ==
    /\ stage = "read" /\ u \in unread /\ targets[stratum] > 0
    /\ unread' = unread \ {u}
    /\ heap' = IF Cardinality(heap) < targets[stratum] THEN heap \cup {u}
               ELSE LET worst == CHOOSE v \in heap :
                                    \A w \in heap \ {v} : Better(stratum, w, v)
                    IN  IF Score[stratum][u] < Score[stratum][worst]
                        THEN (heap \ {worst}) \cup {u} ELSE heap
    /\ UNCHANGED <<job, stage, targets, stratum, combined, realized, writeVars>>

\* One more URI of the stratum: pushed while the heap has room, otherwise it replaces
\* the worst one if it is better.
Arrive(u) ==
    /\ stage = "read"
    /\ u \in unread
    /\ targets[stratum] > 0
    /\ unread' = unread \ {u}
    /\ heap' = IF Cardinality(heap) < targets[stratum] THEN heap \cup {u}
               ELSE LET worst == CHOOSE v \in heap :
                                    \A w \in heap \ {v} : Better(stratum, w, v)
                    IN  IF Better(stratum, u, worst) THEN (heap \ {worst}) \cup {u} ELSE heap
    /\ UNCHANGED <<job, stage, targets, stratum, combined, realized, writeVars>>

\* The stratum has been read (not at all for a quota of zero): its sample is appended
\* to the corpus, without the URIs an earlier stratum has put there.
EndStratum ==
    /\ stage = "read"
    /\ unread = {} \/ targets[stratum] = 0
    /\ LET new == Sorted(stratum, heap \ Range(combined))
       IN  /\ combined' = combined \o new
           /\ realized' = Append(realized, Len(new))
    /\ heap' = {}
    /\ IF stratum < Len(job.strata)
       THEN stratum' = stratum + 1 /\ unread' = job.strata[stratum + 1].uris /\ UNCHANGED stage
       ELSE stage' = "write" /\ UNCHANGED <<stratum, unread>>
    /\ UNCHANGED <<job, targets, writeVars>>

\* Mutant of ShardOf: contiguous slices instead of round robin.
ShardOfSlices(n, shards) == n \div shards

\* Round robin, in corpus order.
ShardOf(n, shards) == n % shards
ShardFiles(uris, shards) ==
    [s \in 0..(shards - 1) |->
        LET mine == InOrder({n \in 1..Len(uris) : ShardOf(n - 1, shards) = s}, <)
        IN  [i \in 1..Len(mine) |-> uris[mine[i]]]]

Write == /\ stage = "write"
         /\ shardFiles' = ShardFiles(combined, job.shards)
         /\ manifest' = [total_written |-> Len(combined), target_n |-> job.target,
                         shards |-> job.shards, targets |-> targets, kept |-> realized]
         /\ stage' = "done"
         /\ UNCHANGED <<job, readVars>>

SampleNext == \/ NoWeight \/ Allocate \/ EndStratum \/ Write
              \/ \E u \in unread : Arrive(u)

SampleSpec == SampleInit /\ [][SampleNext]_sampleVars
-----------------------------------------------------------------------------
(***************************************************************************)
(* Properties.                                                             *)
(***************************************************************************)
SampleTypeOK == /\ IsJob(job)
                /\ stage \in {"quotas", "read", "write", "done", "error"}
                /\ targets \in Seq(Nat) /\ realized \in Seq(Nat)
                /\ stratum \in 0..Len(job.strata)
                /\ heap \cap unread = {}
                /\ stage = "read" => heap \cup unread \subseteq job.strata[stratum].uris
                /\ combined \in Seq(Nat)

\* allocate_quotas: "the parts sum to exactly target_n", each within one of its exact
\* share; a stratum without weight gets nothing, and one of more weight never less than
\* one of less.
QuotaRule ==
    stage \in {"read", "write", "done"} =>
        /\ SumFunction(targets) = job.target
        /\ \A i \in Strata(job) :
              LET share == job.target * job.strata[i].weight
                  units == targets[i] * TotalWeight(job)
              IN  /\ units > share - TotalWeight(job) /\ units < share + TotalWeight(job)
                  /\ job.strata[i].weight = 0 => targets[i] = 0
        /\ \A i, k \in Strata(job) :
              job.strata[i].weight > job.strata[k].weight => targets[i] >= targets[k]

\* sampler.py: "a uniform sample, independent of arrival order".  The corpus is, for
\* each stratum in turn, its best URIs up to its quota, less those of the strata before.
Best(i)    == {u \in job.strata[i].uris :
                  Cardinality({v \in job.strata[i].uris : Better(i, v, u)}) < targets[i]}
Taken(i)   == Best(i) \ UNION {Best(k) : k \in 1..(i - 1)}
IndependentOfOrder ==
    stage \in {"write", "done"} =>
        combined = FlattenSeq([i \in Strata(job) |-> Sorted(i, Taken(i))])

\* The shards hold the corpus, each URI once, in sizes that differ by at most one, and
\* the manifest's counts are those of the shards.
ManifestMatchesFiles ==
    stage = "done" =>
        /\ \A u \in Range(combined) :
              Cardinality({c \in (DOMAIN shardFiles) \X (1..Len(combined)) :
                              /\ c[2] <= Len(shardFiles[c[1]])
                              /\ shardFiles[c[1]][c[2]] = u}) = 1
        /\ \A s, t \in DOMAIN shardFiles : Len(shardFiles[s]) <= Len(shardFiles[t]) + 1
        /\ SumFunction([s \in DOMAIN shardFiles |-> Len(shardFiles[s])]) = manifest.total_written
        /\ SumFunction(manifest.kept) = manifest.total_written
        /\ manifest.total_written <= manifest.target_n
=============================================================================
