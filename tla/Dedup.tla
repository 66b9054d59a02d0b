------------------------------- MODULE Dedup -------------------------------
(***************************************************************************)
(* The disk-shuffle deduplication of the collector (dedup.py).             *)
(*                                                                         *)
(* dedupe_and_cap partitions the raw URIs of one source into shard files   *)
(* by a hash of their registrable domain, then reduces one shard at a      *)
(* time.  With more than one worker the classification of the URIs runs in *)
(* a process pool, chunk by chunk, and the chunks finish in any order.     *)
(***************************************************************************)
EXTENDS Integers, Sequences, FiniteSets, Functions, SequencesExt

CONSTANTS Raw,        \* the raw URIs a source can yield
          NoUri,      \* what normalize_uri returns for one it drops
          Domains,    \* the registrable domains
          NoDomain,   \* the bucket of the URIs without one
          NoCap,      \* domain_cap = None
          Normal,     \* normalize_uri, on Raw
          Bucket,     \* registrable_domain(host_of(uri)), on the normalized URIs
          Digest,     \* the blake2b digest of a bucket, a natural number
          ChunkSize,  \* _WORKER_CHUNKSIZE
          Leftovers,  \* the shard files an earlier run over the workdir has left
          Runs        \* the calls: [input, cap, shards, workers]

Uris    == Range(Normal) \ {NoUri}
Buckets == Domains \cup {NoDomain}

IsRun(r) == /\ r.input \in Seq(Raw)
            /\ r.cap \in Nat \cup {NoCap}
            /\ r.shards \in Nat \ {0}
            /\ r.workers \in Nat \ {0}

ASSUME DedupAssumption ==
    /\ DOMAIN Normal = Raw
    /\ Bucket \in [Uris -> Buckets]
    /\ Digest \in [Buckets -> Nat]
    /\ ChunkSize \in Nat \ {0}
    /\ NoCap \notin Nat
    /\ \A f \in Leftovers : \A i \in DOMAIN f : f[i] \in Seq(Buckets \X Uris)
    /\ \A r \in Runs : IsRun(r)

VARIABLES run,      \* the call (never changes)
          phase,    \* "new", "partition", "reduce" or "done"
          files,    \* shard number -> the lines <<bucket, uri>> of its file
          busy,     \* the chunks a worker is classifying
          ready,    \* the chunks whose results have come back
          read,     \* how many results the partition loop has consumed
          shard,    \* the shard being reduced
          line,     \* how many of its lines have been read
          seen,     \* the URIs met in this shard
          kept,     \* domain -> URIs of it kept in this shard
          out       \* what the generator has yielded

poolVars   == <<busy, ready>>
reduceVars == <<shard, line, seen, kept, out>>
vars       == <<run, phase, files, poolVars, read, reduceVars>>
-----------------------------------------------------------------------------
NoneKept == [d \in Domains |-> 0]

ShardIndex(bucket, shards) == Digest[bucket] % shards

Chunk(p)  == (p - 1) \div ChunkSize
Chunks(r) == {Chunk(p) : p \in 1..Len(r.input)}
Pooled    == run.workers > 1

\* The earlier run may have been killed, and may have had more shards.
Init == /\ run \in Runs
        /\ phase = "new"
        /\ files \in Leftovers
        /\ busy = {} /\ ready = {} /\ read = 0
        /\ shard = 0 /\ line = 0 /\ seen = {} /\ kept = NoneKept /\ out = << >>

\* Every shard file of this run is opened for writing; a file of a shard number
\* beyond them is left alone.
Open == /\ phase = "new"
        /\ phase' = "partition"
        /\ files' = [i \in DOMAIN files \cup 0..(run.shards - 1) |->
                        IF i < run.shards THEN << >> ELSE files[i]]
        /\ UNCHANGED <<run, poolVars, read, reduceVars>>

\* An idle worker takes the next chunk ...
Take == /\ phase = "partition" /\ Pooled
        /\ Cardinality(busy) < run.workers
        /\ \E c \in Chunks(run) \ (busy \cup ready) :
              /\ \A d \in Chunks(run) \ (busy \cup ready) : c <= d
              /\ busy' = busy \cup {c}
        /\ UNCHANGED <<run, phase, files, ready, read, reduceVars>>

\* ... and may finish before the workers of earlier chunks do.
Return(c) == /\ phase = "partition"
             /\ c \in busy
             /\ busy' = busy \ {c}
             /\ ready' = ready \cup {c}
             /\ UNCHANGED <<run, phase, files, read, reduceVars>>

\* The line that the result for position p is written as, in its shard's file.
Written(p) ==
    LET uri == Normal[run.input[p]]
    IN  IF uri = NoUri THEN files
        ELSE LET b == Bucket[uri]
             IN  [files EXCEPT ![ShardIndex(b, run.shards)] = Append(@, <<b, uri>>)]

\* Mutant of Consume: results are taken as they complete.
ConsumeAny == /\ phase = "partition" /\ read < Len(run.input)
              /\ \E p \in 1..Len(run.input) :
                    /\ IF Pooled THEN Chunk(p) \in ready ELSE p = read + 1
                    /\ files' = Written(p)
              /\ read' = read + 1
              /\ UNCHANGED <<run, phase, poolVars, reduceVars>>

\* Results are consumed in input order, whoever classified them.
Consume == /\ phase = "partition"
           /\ read < Len(run.input)
           /\ Pooled => Chunk(read + 1) \in ready
           /\ files' = Written(read + 1)
           /\ read' = read + 1
           /\ UNCHANGED <<run, phase, poolVars, reduceVars>>

CloseFiles == /\ phase = "partition" /\ read = Len(run.input)
              /\ phase' = "reduce"
              /\ UNCHANGED <<run, files, poolVars, read, reduceVars>>

\* Mutant of ReduceLine: a URI counts against the cap before it is known to be new.
ReduceCountFirst ==
    /\ phase = "reduce" /\ shard < run.shards /\ line < Len(files[shard])
    /\ line' = line + 1
    /\ LET b == files[shard][line + 1][1]
           u == files[shard][line + 1][2]
           full == b # NoDomain /\ run.cap # NoCap /\ kept[b] >= run.cap
       IN  /\ kept' = IF b = NoDomain \/ run.cap = NoCap \/ full THEN kept
                      ELSE [kept EXCEPT ![b] = @ + 1]
           /\ seen' = seen \cup {u}
           /\ out' = IF full \/ u \in seen THEN out ELSE Append(out, u)
    /\ UNCHANGED <<run, phase, files, poolVars, read, shard>>

ReduceLine ==
    /\ phase = "reduce"
    /\ shard < run.shards
    /\ line < Len(files[shard])
    /\ line' = line + 1
    /\ LET b == files[shard][line + 1][1]
           u == files[shard][line + 1][2]
           capped == run.cap # NoCap /\ b # NoDomain
       IN  IF u \in seen \/ (capped /\ kept[b] >= run.cap)
           THEN /\ seen' = seen \cup {u}
                /\ UNCHANGED <<kept, out>>
           ELSE /\ seen' = seen \cup {u}
                /\ kept' = IF capped THEN [kept EXCEPT ![b] = @ + 1] ELSE kept
                /\ out' = Append(out, u)
    /\ UNCHANGED <<run, phase, files, poolVars, read, shard>>

NextShard == /\ phase = "reduce"
             /\ shard < run.shards
             /\ line = Len(files[shard])
             /\ shard' = shard + 1
             /\ line' = 0 /\ seen' = {} /\ kept' = NoneKept
             /\ phase' = IF shard + 1 = run.shards THEN "done" ELSE phase
             /\ UNCHANGED <<run, files, poolVars, read, out>>

Next == \/ Open \/ Take \/ Consume \/ CloseFiles \/ ReduceLine \/ NextShard
        \/ \E c \in busy : Return(c)

Spec == Init /\ [][Next]_vars
-----------------------------------------------------------------------------
(***************************************************************************)
(* Properties.                                                             *)
(***************************************************************************)
TypeOK == /\ IsRun(run)
          /\ phase \in {"new", "partition", "reduce", "done"}
          /\ \A i \in DOMAIN files : files[i] \in Seq(Buckets \X Uris)
          /\ busy \subseteq Chunks(run) /\ ready \subseteq Chunks(run)
          /\ busy \cap ready = {}
          /\ read \in 0..Len(run.input)
          /\ shard \in 0..run.shards /\ line \in Nat
          /\ seen \subseteq Uris
          /\ kept \in [Domains -> Nat]
          /\ out \in Seq(Uris)

\* The first position of each URI of the input, and those of them that the cap lets
\* through: with fewer than cap earlier URIs of the same domain.  Neither the number
\* of shards nor the number of workers is mentioned.
Uri(p)   == Normal[run.input[p]]
Firsts   == {p \in 1..Len(run.input) : Uri(p) # NoUri /\ \A q \in 1..(p - 1) : Uri(q) # Uri(p)}
Earlier(p) == {q \in Firsts : q < p /\ Bucket[Uri(q)] = Bucket[Uri(p)]}
Within(p)  == \/ run.cap = NoCap
              \/ Bucket[Uri(p)] = NoDomain
              \/ Cardinality(Earlier(p)) < run.cap

\* dedup.py: "the shard files - and therefore which URIs survive the per-domain cap -
\* are bit-identical to the serial path.  Determinism does not depend on workers."
\* What is yielded is, without duplicates, the first cap distinct URIs of every
\* domain and every URI without one; leftovers of an earlier run never show.
KeepsFirstOfEachDomain ==
    phase = "done" => /\ Range(out) = {Uri(p) : p \in {q \in Firsts : Within(q)}}
                      /\ IsInjective(out)

\* dedup.py: "Output order is deterministic for a given input order and shard count":
\* by shard, and within a shard by first appearance in the input.
FirstAt(u) == CHOOSE p \in Firsts : Uri(p) = u
OrderedOutput ==
    \A i, j \in 1..Len(out) : i < j =>
        LET s == ShardIndex(Bucket[out[i]], run.shards)
            t == ShardIndex(Bucket[out[j]], run.shards)
        IN  s < t \/ (s = t /\ FirstAt(out[i]) < FirstAt(out[j]))
=============================================================================
