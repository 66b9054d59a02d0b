----------------------------- MODULE Collection -----------------------------
(***************************************************************************)
(* Successive collector runs over one output directory (orchestrate.py):   *)
(* the sampler's corpus shards and manifest, one mvs-telemetry process and *)
(* hits file per shard, the merged hits.json stamped with the provenance   *)
(* the manifest gives, and, on request, the minified grammar and the       *)
(* pruned document.                                                        *)
(*                                                                         *)
(* A run may raise at any step, or be killed.  Files are written in place  *)
(* (write_text), so the one in hand may be left truncated; nothing is      *)
(* cleaned up and the next run starts over the files it finds.  What a     *)
(* file says is abstracted to the run it was computed from.                *)
(***************************************************************************)
EXTENDS Integers, FiniteSets, Functions

CONSTANTS MaxRuns,    \* bound: runs over the directory
          MaxShards   \* bound: num_output_shards

ASSUME CollectionAssumption == MaxRuns \in Nat \ {0} /\ MaxShards \in Nat \ {0}

RunIds  == 1..MaxRuns
ShardNs == 0..(MaxShards - 1)
None    == [at |-> "none"]    \* no such file
Torn    == [at |-> "torn"]    \* written in part

\* A corpus shard, its hits file and the documents made from them; parts are the
\* shards whose counts were summed, prov is the run the provenance block tells of.
CorpusOf(r)       == [at |-> "corpus", run |-> r]
ShardHitsOf(c)    == [at |-> "counts", run |-> c.run]
ManifestOf(r, n)  == [at |-> "manifest", run |-> r, shards |-> n]
HitsOf(parts, m)  == [at |-> "hits", parts |-> parts, prov |-> m.run]

VARIABLES id,         \* the run, 0 before the first
          pc,         \* where it stands
          shards,     \* its num_output_shards
          emit,       \* --emit-mvs given: the run goes on into pruning
          prune,      \* --pruned-out given
          next,       \* the shard at hand
          corpus,     \* corpus-NNN.txt
          counts,     \* corpus-NNN.hits.json
          manifest, hits, mvs, pruned,    \* the other files
          collected,  \* shard_hits: <<shard, run>> of the counts held in memory
          merged      \* the merged document held in memory

memory == <<collected, merged>>
files  == <<corpus, counts, manifest, hits, mvs, pruned>>
vars   == <<id, pc, shards, emit, prune, next, files, memory>>
-----------------------------------------------------------------------------
Init == /\ id = 0 /\ pc = "idle" /\ shards = 1 /\ next = 0
        /\ emit = FALSE /\ prune = FALSE
        /\ corpus = [n \in ShardNs |-> None] /\ counts = [n \in ShardNs |-> None]
        /\ manifest = None /\ hits = None /\ mvs = None /\ pruned = None
        /\ collected = {} /\ merged = None

Start == /\ pc \in {"idle", "done", "aborted"}
         /\ id < MaxRuns
         /\ id' = id + 1
         /\ \E n \in 1..MaxShards : shards' = n
         /\ \E e, p \in BOOLEAN : (p => e) /\ emit' = e /\ prune' = p
         /\ pc' = "shards" /\ next' = 0
         /\ collected' = {} /\ merged' = None
         /\ UNCHANGED files

\* _write_shards; shards of an earlier run with more of them stay.
WriteShard == /\ pc = "shards"
              /\ corpus' = [corpus EXCEPT ![next] = CorpusOf(id)]
              /\ IF next + 1 < shards THEN next' = next + 1 /\ UNCHANGED pc
                                      ELSE next' = 0 /\ pc' = "manifest"
              /\ UNCHANGED <<id, shards, emit, prune, counts, manifest, hits, mvs, pruned, memory>>

WriteManifest == /\ pc = "manifest"
                 /\ manifest' = ManifestOf(id, shards)
                 /\ pc' = "telemetry"
                 /\ UNCHANGED <<id, shards, emit, prune, next, corpus, counts, hits, mvs, pruned, memory>>

\* Mutant of Telemetry: every shard file in the directory is counted.
TelemetryAll ==
    /\ pc = "telemetry"
    /\ LET found == {n \in ShardNs : corpus[n] \notin {None, Torn}}
       IN  /\ counts' = [n \in ShardNs |-> IF n \in found THEN ShardHitsOf(corpus[n]) ELSE counts[n]]
           /\ collected' = {<<n, corpus[n].run>> : n \in found}
    /\ pc' = "merge"
    /\ UNCHANGED <<id, shards, emit, prune, next, corpus, manifest, hits, mvs, pruned, merged>>

\* The binary reads the shard and writes its hits file, which is read back.
Telemetry ==
    /\ pc = "telemetry"
    /\ LET c == ShardHitsOf(corpus[next])
       IN  /\ counts' = [counts EXCEPT ![next] = c]
           /\ collected' = collected \cup {<<next, c.run>>}
    /\ IF next + 1 < shards THEN next' = next + 1 /\ UNCHANGED pc
                            ELSE next' = next /\ pc' = "merge"
    /\ UNCHANGED <<id, shards, emit, prune, corpus, manifest, hits, mvs, pruned, merged>>

\* Mutant of Merge: the grammar is emitted before hits.json is written.
MergeAndEmit == /\ pc = "merge"
                /\ merged' = HitsOf(collected, manifest)
                /\ mvs' = IF emit THEN merged' ELSE mvs
                /\ pc' = "hits"
                /\ UNCHANGED <<id, shards, emit, prune, next, corpus, counts, manifest, hits,
                               pruned, collected>>

\* The manifest is read back from disk, the counts are in memory.
Merge == /\ pc = "merge"
         /\ merged' = HitsOf(collected, manifest)
         /\ pc' = "hits"
         /\ UNCHANGED <<id, shards, emit, prune, next, files, collected>>

\* Mutant of WriteHits: pruning starts from the hits.json found on disk.
WriteHitsLate == /\ pc = "hits"
                 /\ hits' = IF hits \in {None, Torn} \/ ~ emit THEN merged ELSE hits
                 /\ merged' = hits'
                 /\ pc' = IF emit THEN "mvs" ELSE "done"
                 /\ UNCHANGED <<id, shards, emit, prune, next, corpus, counts, manifest, mvs, pruned, collected>>

WriteHits == /\ pc = "hits"
             /\ hits' = merged
             /\ pc' = IF emit THEN "mvs" ELSE "done"
             /\ UNCHANGED <<id, shards, emit, prune, next, corpus, counts, manifest, mvs, pruned, memory>>

\* _emit_mvs prunes the merged document held in memory, not the file.
WriteMvs == /\ pc = "mvs"
            /\ mvs' = merged
            /\ pc' = IF prune THEN "pruned" ELSE "done"
            /\ UNCHANGED <<id, shards, emit, prune, next, corpus, counts, manifest, hits, pruned, memory>>

WritePruned == /\ pc = "pruned"
               /\ pruned' = merged
               /\ pc' = "done"
               /\ UNCHANGED <<id, shards, emit, prune, next, corpus, counts, manifest, hits, mvs, memory>>

\* An exception, or a kill: the file in hand may be left truncated.
Running == pc \notin {"idle", "done", "aborted"}
Abort == /\ Running
         /\ pc' = "aborted"
         /\ \E torn \in BOOLEAN :
               /\ corpus'   = [n \in ShardNs |-> IF torn /\ pc = "shards" /\ n = next
                                                 THEN Torn ELSE corpus[n]]
               /\ counts'   = [n \in ShardNs |-> IF torn /\ pc = "telemetry" /\ n = next
                                                 THEN Torn ELSE counts[n]]
               /\ manifest' = IF torn /\ pc = "manifest" THEN Torn ELSE manifest
               /\ hits'     = IF torn /\ pc = "hits" THEN Torn ELSE hits
               /\ mvs'      = IF torn /\ pc = "mvs" THEN Torn ELSE mvs
               /\ pruned'   = IF torn /\ pc = "pruned" THEN Torn ELSE pruned
         /\ UNCHANGED <<id, shards, emit, prune, next, memory>>

Step == WriteShard \/ WriteManifest \/ Telemetry \/ Merge \/ WriteHits \/ WriteMvs \/ WritePruned
Next == Start \/ Step \/ Abort

Spec == Init /\ [][Next]_vars
-----------------------------------------------------------------------------
(***************************************************************************)
(* Properties.                                                             *)
(***************************************************************************)
CorpusFiles   == {None, Torn} \cup {CorpusOf(r) : r \in RunIds}
CountFiles    == {None, Torn} \cup {[at |-> "counts", run |-> r] : r \in RunIds}
ManifestFiles == {None, Torn} \cup {ManifestOf(r, n) : r \in RunIds, n \in 1..MaxShards}
Documents     == [at : {"hits"}, parts : SUBSET (ShardNs \X RunIds), prov : RunIds]
HitsFiles     == {None, Torn} \cup Documents

TypeOK == /\ id \in 0..MaxRuns
          /\ pc \in {"idle", "shards", "manifest", "telemetry", "merge", "hits", "mvs",
                     "pruned", "done", "aborted"}
          /\ shards \in 1..MaxShards /\ next \in 0..(shards - 1)
          /\ emit \in BOOLEAN /\ prune \in BOOLEAN
          /\ corpus \in [ShardNs -> CorpusFiles] /\ counts \in [ShardNs -> CountFiles]
          /\ manifest \in ManifestFiles
          /\ hits \in HitsFiles /\ mvs \in HitsFiles /\ pruned \in HitsFiles
          /\ collected \in SUBSET (ShardNs \X RunIds)
          /\ merged \in {None} \cup Documents

\* A published document sums the counts of one run, each of that run's shards once, and
\* its provenance tells of that run: no shard a larger or an interrupted run left
\* behind is ever counted.
OfOneRun(doc) ==
    doc \in Documents =>
        \E n \in 1..MaxShards : doc.parts = {<<s, doc.prov>> : s \in 0..(n - 1)}
DocumentsOfOneRun == OfOneRun(hits) /\ OfOneRun(mvs) /\ OfOneRun(pruned)

\* After a run all the files it was asked for are whole and of that run, so the
\* grammar, the pruned document, the hits and the manifest agree.
PublishedTogether ==
    pc = "done" =>
        /\ manifest = ManifestOf(id, shards)
        /\ \A s \in 0..(shards - 1) : corpus[s] = CorpusOf(id)
        /\ hits = HitsOf({<<s, id>> : s \in 0..(shards - 1)}, manifest)
        /\ emit => mvs = hits
        /\ prune => pruned = hits

\* The minified grammar is never newer than the hits it is justified by, nor these than
\* the corpus: an interrupted run leaves older results, never unfounded ones.
NotNewer(doc, base) == doc \in Documents => \/ base = Torn
                                            \/ base \in Documents /\ doc.prov <= base.prov
NeverUnfounded ==
    /\ NotNewer(mvs, hits) /\ NotNewer(pruned, mvs)
    /\ hits \in Documents => \/ manifest = Torn
                             \/ manifest # None /\ hits.prov <= manifest.run
=============================================================================
