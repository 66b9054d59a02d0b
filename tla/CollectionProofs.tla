-------------------------- MODULE CollectionProofs --------------------------
(***************************************************************************)
(* What successive collector runs leave in their directory, for every      *)
(* number of runs and of shards, and whenever a run dies.                  *)
(***************************************************************************)
EXTENDS Collection, TLAPS

\* The counts of the first n shards of this run, and its document.
Parts(n) == {<<s, id>> : s \in 0..(n - 1)}
Document == [at |-> "hits", parts |-> Parts(shards), prov |-> id]

AfterHits     == {"mvs", "pruned", "done"}
AfterMerge    == {"hits"} \cup AfterHits
AfterManifest == {"telemetry", "merge"} \cup AfterMerge
AfterShards   == {"manifest"} \cup AfterManifest

\* What a run knows at each point of its way: what it has written of its own, and that
\* nothing of another run has come into its memory.
OnItsWay ==
    /\ pc # "idle" => id \in RunIds
    /\ prune => emit
    /\ pc = "shards" => \A s \in 0..(next - 1) : corpus[s] = CorpusOf(id)
    /\ pc = "manifest" => next = 0
    /\ pc \in {"shards", "manifest"} => collected = {}
    /\ pc \in AfterShards => \A s \in 0..(shards - 1) : corpus[s] = CorpusOf(id)
    /\ pc \in AfterManifest => manifest = ManifestOf(id, shards)
    /\ pc = "telemetry" => collected = Parts(next)
    /\ pc = "merge" => collected = Parts(shards)
    /\ pc \in AfterMerge => merged = Document
    /\ pc \in AfterHits => hits = Document
    /\ pc \in {"mvs", "pruned"} => emit
    /\ pc = "pruned" => prune /\ mvs = Document
    /\ pc = "done" => (emit => mvs = Document) /\ (prune => pruned = Document)

\* A document on disk is of one run, of this one or of an earlier.
Sound(doc) == doc \in Documents => OfOneRun(doc) /\ doc.prov <= id
OnDisk == Sound(hits) /\ Sound(mvs) /\ Sound(pruned)

Inv == TypeOK /\ OnItsWay /\ OnDisk /\ NeverUnfounded
-----------------------------------------------------------------------------
\* A missing or torn file is not a document; a run's own document is, and of one run.
LEMMA NoDocument == None \notin Documents /\ Torn \notin Documents
BY DEF None, Torn, Documents

LEMMA OwnDocument ==
    ASSUME id \in RunIds, shards \in 1..MaxShards
    PROVE  /\ Document \in Documents
           /\ OfOneRun(Document)
           /\ Document.prov = id
           /\ Document # None /\ Document # Torn
<1>1. Parts(shards) \subseteq ShardNs \X RunIds
  BY CollectionAssumption DEF Parts, ShardNs, RunIds
<1>2. Document \in Documents
  BY <1>1 DEF Document, Documents
<1>3. OfOneRun(Document)
  BY DEF OfOneRun, Document, Parts
<1> QED BY <1>2, <1>3, NoDocument DEF Document
-----------------------------------------------------------------------------
(***************************************************************************)
(* Types.                                                                  *)
(***************************************************************************)
LEMMA TypesInit == Init => TypeOK
<1> SUFFICES ASSUME Init PROVE TypeOK
  OBVIOUS
<1>1. corpus \in [ShardNs -> CorpusFiles] /\ counts \in [ShardNs -> CountFiles]
  BY DEF Init, CorpusFiles, CountFiles
<1>2. /\ manifest \in ManifestFiles
      /\ hits \in HitsFiles /\ mvs \in HitsFiles /\ pruned \in HitsFiles
  BY DEF Init, ManifestFiles, HitsFiles
<1>3. /\ id \in 0..MaxRuns
      /\ shards \in 1..MaxShards /\ next \in 0..(shards - 1)
  BY CollectionAssumption DEF Init
<1> QED BY <1>1, <1>2, <1>3 DEF Init, TypeOK

\* The steps that change files or memory leave both well typed.
LEMMA TypesStart == TypeOK /\ Start => TypeOK'
BY CollectionAssumption DEF Start, TypeOK, files, memory

LEMMA TypesWriteShard == Inv /\ WriteShard => TypeOK'
<1> SUFFICES ASSUME Inv, WriteShard PROVE TypeOK'
  OBVIOUS
<1>1. id \in RunIds
  BY DEF Inv, OnItsWay, WriteShard
<1>2. CorpusOf(id) \in CorpusFiles
  BY <1>1 DEF CorpusFiles
<1>3. corpus' \in [ShardNs -> CorpusFiles]
  BY <1>2 DEF WriteShard, Inv, TypeOK
<1>4. pc' \in {"shards", "manifest"} /\ next' \in 0..(shards - 1)
  BY DEF WriteShard, Inv, TypeOK
<1> QED BY <1>3, <1>4 DEF WriteShard, Inv, TypeOK, memory

LEMMA TypesWriteManifest == Inv /\ WriteManifest => TypeOK'
<1> SUFFICES ASSUME Inv, WriteManifest PROVE TypeOK'
  OBVIOUS
<1>1. id \in RunIds /\ shards \in 1..MaxShards
  BY DEF Inv, OnItsWay, TypeOK, WriteManifest
<1>2. manifest' \in ManifestFiles
  BY <1>1 DEF WriteManifest, ManifestFiles
<1> QED BY <1>2 DEF WriteManifest, Inv, TypeOK, memory

\* The shard that telemetry reads is this run's.
LEMMA ShardAtHand ==
    ASSUME Inv, pc = "telemetry"
    PROVE  /\ next \in ShardNs /\ id \in RunIds
           /\ ShardHitsOf(corpus[next]) = [at |-> "counts", run |-> id]
<1>1. next \in 0..(shards - 1) /\ shards \in 1..MaxShards
  BY DEF Inv, TypeOK
<1>2. corpus[next] = CorpusOf(id) /\ id \in RunIds
  BY <1>1 DEF Inv, OnItsWay, AfterShards, AfterManifest
<1> QED BY <1>1, <1>2, CollectionAssumption DEF ShardHitsOf, CorpusOf, ShardNs

LEMMA TypesTelemetry == Inv /\ Telemetry => TypeOK'
<1> SUFFICES ASSUME Inv, Telemetry PROVE TypeOK'
  OBVIOUS
<1>1. /\ next \in ShardNs /\ id \in RunIds
      /\ ShardHitsOf(corpus[next]) = [at |-> "counts", run |-> id]
  BY ShardAtHand DEF Telemetry
<1>2. /\ counts' = [counts EXCEPT ![next] = [at |-> "counts", run |-> id]]
      /\ collected' = collected \cup {<<next, id>>}
  BY <1>1 DEF Telemetry
<1>3. counts' \in [ShardNs -> CountFiles]
  BY <1>1, <1>2 DEF Inv, TypeOK, CountFiles
<1>4. collected' \in SUBSET (ShardNs \X RunIds)
  BY <1>1, <1>2 DEF Inv, TypeOK
<1>5. pc' \in {"telemetry", "merge"} /\ next' \in 0..(shards - 1)
  BY DEF Telemetry, Inv, TypeOK
<1> QED BY <1>3, <1>4, <1>5 DEF Telemetry, Inv, TypeOK

\* What Merge makes of the counts in memory and the manifest on disk.
LEMMA MergedIsOwn ==
    ASSUME Inv, Merge
    PROVE  merged' = Document
<1>1. manifest.run = id /\ collected = Parts(shards)
  BY DEF Inv, OnItsWay, Merge, AfterManifest, ManifestOf
<1> QED BY <1>1 DEF Merge, HitsOf, Document

\* At hand is the run's own document, whenever it is written.
LEMMA MergedAtHand ==
    ASSUME Inv, pc \in {"hits", "mvs", "pruned"}
    PROVE  merged = Document /\ id \in RunIds /\ shards \in 1..MaxShards
BY DEF Inv, OnItsWay, TypeOK, AfterMerge, AfterHits

LEMMA TypesMerge == Inv /\ Merge => TypeOK'
<1> SUFFICES ASSUME Inv, Merge PROVE TypeOK'
  OBVIOUS
<1>1. merged' = Document
  BY MergedIsOwn
<1>2. id \in RunIds /\ shards \in 1..MaxShards
  BY DEF Inv, OnItsWay, TypeOK, Merge
<1>3. Document \in Documents
  BY <1>2, OwnDocument
<1> QED BY <1>1, <1>3 DEF Merge, Inv, TypeOK, files

LEMMA TypesPublish == Inv /\ (WriteHits \/ WriteMvs \/ WritePruned) => TypeOK'
<1> SUFFICES ASSUME Inv, WriteHits \/ WriteMvs \/ WritePruned PROVE TypeOK'
  OBVIOUS
<1>1. merged = Document /\ id \in RunIds /\ shards \in 1..MaxShards
  BY MergedAtHand DEF WriteHits, WriteMvs, WritePruned
<1>2. merged \in HitsFiles
  BY <1>1, OwnDocument DEF HitsFiles
<1>3. CASE WriteHits
  BY <1>2, <1>3 DEF WriteHits, Inv, TypeOK, memory
<1>4. CASE WriteMvs
  BY <1>2, <1>4 DEF WriteMvs, Inv, TypeOK, memory
<1>5. CASE WritePruned
  BY <1>2, <1>5 DEF WritePruned, Inv, TypeOK, memory
<1> QED BY <1>3, <1>4, <1>5

LEMMA TypesAbort == TypeOK /\ Abort => TypeOK'
<1> SUFFICES ASSUME TypeOK, Abort PROVE TypeOK'
  OBVIOUS
<1>1. corpus' \in [ShardNs -> CorpusFiles]
  BY DEF Abort, TypeOK, CorpusFiles
<1>2. counts' \in [ShardNs -> CountFiles]
  BY DEF Abort, TypeOK, CountFiles
<1>3. manifest' \in ManifestFiles
  BY DEF Abort, TypeOK, ManifestFiles
<1>4. hits' \in HitsFiles /\ mvs' \in HitsFiles /\ pruned' \in HitsFiles
  BY DEF Abort, TypeOK, HitsFiles
<1> QED BY <1>1, <1>2, <1>3, <1>4 DEF Abort, TypeOK, memory
-----------------------------------------------------------------------------
(***************************************************************************)
(* What a run knows on its way.                                            *)
(***************************************************************************)
LEMMA WayInit == Init => OnItsWay
BY DEF Init, OnItsWay, AfterShards, AfterManifest, AfterMerge, AfterHits

LEMMA WayStart == TypeOK /\ Start => OnItsWay'
<1> SUFFICES ASSUME TypeOK, Start PROVE OnItsWay'
  OBVIOUS
<1>1. id' \in RunIds /\ pc' = "shards" /\ next' = 0 /\ collected' = {} /\ (prune' => emit')
  BY CollectionAssumption DEF Start, TypeOK, RunIds
<1> QED BY <1>1 DEF OnItsWay, AfterShards, AfterManifest, AfterMerge, AfterHits

LEMMA WayWriteShard == Inv /\ WriteShard => OnItsWay'
<1> SUFFICES ASSUME Inv, WriteShard PROVE OnItsWay'
  OBVIOUS
<1>1. id \in RunIds /\ (prune => emit) /\ collected = {}
  BY DEF Inv, OnItsWay, WriteShard
<1>2. /\ corpus \in [ShardNs -> CorpusFiles] /\ shards \in 1..MaxShards /\ next \in 0..(shards - 1)
      /\ \A s \in 0..(next - 1) : corpus[s] = CorpusOf(id)
  BY DEF Inv, TypeOK, OnItsWay, WriteShard
<1>3. \A s \in 0..next : corpus'[s] = CorpusOf(id)
  BY <1>2, CollectionAssumption DEF WriteShard, ShardNs
<1>4. CASE next + 1 < shards
  <2>1. pc' = "shards" /\ next' = next + 1
    BY <1>4 DEF WriteShard
  <2>2. \A s \in 0..(next' - 1) : corpus'[s] = CorpusOf(id')
    BY <1>2, <1>3, <2>1 DEF WriteShard
  <2> QED BY <1>1, <2>1, <2>2
          DEF OnItsWay, WriteShard, memory, AfterShards, AfterManifest, AfterMerge, AfterHits
<1>5. CASE ~ (next + 1 < shards)
  <2>1. pc' = "manifest" /\ next' = 0
    BY <1>5 DEF WriteShard
  <2>2. \A s \in 0..(shards' - 1) : corpus'[s] = CorpusOf(id')
    BY <1>2, <1>3, <1>5 DEF WriteShard
  <2> QED BY <1>1, <2>1, <2>2
          DEF OnItsWay, WriteShard, memory, AfterShards, AfterManifest, AfterMerge, AfterHits
<1> QED BY <1>4, <1>5

LEMMA WayWriteManifest == Inv /\ WriteManifest => OnItsWay'
<1> SUFFICES ASSUME Inv, WriteManifest PROVE OnItsWay'
  OBVIOUS
<1>1. /\ id \in RunIds /\ (prune => emit) /\ collected = {} /\ next = 0
      /\ \A s \in 0..(shards - 1) : corpus[s] = CorpusOf(id)
  BY DEF Inv, OnItsWay, WriteManifest, AfterShards
<1>2. pc' = "telemetry" /\ manifest' = ManifestOf(id, shards)
  BY DEF WriteManifest
<1>3. Parts(next)' = {}
  BY <1>1 DEF WriteManifest, Parts
<1> QED BY <1>1, <1>2, <1>3
        DEF OnItsWay, WriteManifest, memory, AfterShards, AfterManifest, AfterMerge, AfterHits

LEMMA WayTelemetry == Inv /\ Telemetry => OnItsWay'
<1> SUFFICES ASSUME Inv, Telemetry PROVE OnItsWay'
  OBVIOUS
<1>1. /\ id \in RunIds /\ (prune => emit)
      /\ collected = Parts(next) /\ manifest = ManifestOf(id, shards)
      /\ \A s \in 0..(shards - 1) : corpus[s] = CorpusOf(id)
  BY DEF Inv, OnItsWay, Telemetry, AfterShards, AfterManifest
<1>2. /\ next \in 0..(shards - 1) /\ shards \in 1..MaxShards
      /\ UNCHANGED <<id, shards, emit, prune, corpus, manifest>>
  BY DEF Inv, TypeOK, Telemetry
<1>3. collected' = collected \cup {<<next, id>>}
  BY ShardAtHand DEF Telemetry
<1>4. collected' = {<<s, id>> : s \in 0..next}
  BY <1>1, <1>2, <1>3 DEF Parts
<1>5. CASE next + 1 < shards
  <2>1. pc' = "telemetry" /\ next' = next + 1
    BY <1>5 DEF Telemetry
  <2>2. collected' = Parts(next)'
    BY <1>2, <1>4, <2>1 DEF Parts
  <2> QED BY <1>1, <1>2, <2>1, <2>2
          DEF OnItsWay, AfterShards, AfterManifest, AfterMerge, AfterHits
<1>6. CASE ~ (next + 1 < shards)
  <2>1. pc' = "merge" /\ next + 1 = shards
    BY <1>2, <1>6 DEF Telemetry
  <2>2. collected' = Parts(shards)'
    BY <1>2, <1>4, <2>1 DEF Parts
  <2> QED BY <1>1, <1>2, <2>1, <2>2
          DEF OnItsWay, AfterShards, AfterManifest, AfterMerge, AfterHits
<1> QED BY <1>5, <1>6

LEMMA WayMerge == Inv /\ Merge => OnItsWay'
<1> SUFFICES ASSUME Inv, Merge PROVE OnItsWay'
  OBVIOUS
<1>1. /\ id \in RunIds /\ (prune => emit) /\ manifest = ManifestOf(id, shards)
      /\ \A s \in 0..(shards - 1) : corpus[s] = CorpusOf(id)
  BY DEF Inv, OnItsWay, Merge, AfterShards, AfterManifest
<1>2. merged' = Document' /\ pc' = "hits"
  BY MergedIsOwn DEF Merge, Document, Parts
<1> QED BY <1>1, <1>2
        DEF OnItsWay, Merge, files, AfterShards, AfterManifest, AfterMerge, AfterHits

LEMMA WayPublish == Inv /\ (WriteHits \/ WriteMvs \/ WritePruned) => OnItsWay'
<1> SUFFICES ASSUME Inv, WriteHits \/ WriteMvs \/ WritePruned PROVE OnItsWay'
  OBVIOUS
<1>1. /\ id \in RunIds /\ (prune => emit) /\ manifest = ManifestOf(id, shards)
      /\ \A s \in 0..(shards - 1) : corpus[s] = CorpusOf(id)
      /\ merged = Document
  BY DEF Inv, OnItsWay, WriteHits, WriteMvs, WritePruned, AfterShards, AfterManifest, AfterMerge, AfterHits
<1>2. /\ UNCHANGED <<id, shards, emit, prune, next, corpus, manifest, merged, collected>>
      /\ Document' = Document
  BY DEF WriteHits, WriteMvs, WritePruned, memory, Document, Parts
<1>3. emit \in BOOLEAN /\ prune \in BOOLEAN
  BY DEF Inv, TypeOK
<1>4. CASE WriteHits
  <2>1. hits' = Document /\ pc' = IF emit THEN "mvs" ELSE "done"
    BY <1>1, <1>4 DEF WriteHits
  <2> QED BY <1>1, <1>2, <1>3, <2>1
          DEF OnItsWay, AfterShards, AfterManifest, AfterMerge, AfterHits
<1>5. CASE WriteMvs
  <2>1. hits' = Document /\ mvs' = Document /\ emit /\ pc' = IF prune THEN "pruned" ELSE "done"
    BY <1>1, <1>5 DEF WriteMvs, Inv, OnItsWay, AfterHits
  <2> QED BY <1>1, <1>2, <1>3, <2>1
          DEF OnItsWay, AfterShards, AfterManifest, AfterMerge, AfterHits
<1>6. CASE WritePruned
  <2>1. hits' = Document /\ mvs' = Document /\ pruned' = Document /\ pc' = "done"
    BY <1>1, <1>6 DEF WritePruned, Inv, OnItsWay, AfterHits
  <2> QED BY <1>1, <1>2, <1>3, <2>1
          DEF OnItsWay, AfterShards, AfterManifest, AfterMerge, AfterHits
<1> QED BY <1>4, <1>5, <1>6

LEMMA WayAbort == Inv /\ Abort => OnItsWay'
<1> SUFFICES ASSUME Inv, Abort PROVE OnItsWay'
  OBVIOUS
<1>1. pc' = "aborted" /\ id' = id /\ prune' = prune /\ emit' = emit /\ id \in RunIds /\ (prune => emit)
  BY DEF Inv, OnItsWay, Abort, Running
<1> QED BY <1>1 DEF OnItsWay, AfterShards, AfterManifest, AfterMerge, AfterHits
-----------------------------------------------------------------------------
(***************************************************************************)
(* What is on disk.                                                        *)
(***************************************************************************)
\* A document of an earlier run stays sound in a later one.
LEMMA StaysSound ==
    ASSUME NEW f \in Documents, NEW i \in Nat, NEW j \in Nat, i <= j, f.prov <= i
    PROVE  f.prov <= j
<1>1. f.prov \in RunIds
  BY DEF Documents
<1> QED BY <1>1 DEF RunIds

LEMMA DiskInit == Init => OnDisk /\ NeverUnfounded
BY NoDocument DEF Init, OnDisk, Sound, NeverUnfounded, NotNewer

\* A new run, and the steps before the first document is written.
LEMMA DiskEarly ==
    Inv /\ (Start \/ WriteShard \/ Telemetry \/ Merge) => (OnDisk /\ NeverUnfounded)'
<1> SUFFICES ASSUME Inv, Start \/ WriteShard \/ Telemetry \/ Merge PROVE (OnDisk /\ NeverUnfounded)'
  OBVIOUS
<1>1. UNCHANGED <<manifest, hits, mvs, pruned>>
  BY DEF Start, WriteShard, Telemetry, Merge, files
<1>2. id \in Nat /\ id' \in Nat /\ id <= id'
  BY CollectionAssumption DEF Inv, TypeOK, Start, WriteShard, Telemetry, Merge
<1>3. Sound(hits)' /\ Sound(mvs)' /\ Sound(pruned)'
  BY <1>1, <1>2, StaysSound DEF Inv, OnDisk, Sound
<1>4. NeverUnfounded'
  BY <1>1 DEF Inv, NeverUnfounded
<1> QED BY <1>3, <1>4 DEF OnDisk

\* The manifest of a run is at least as new as any document.
LEMMA DiskWriteManifest == Inv /\ WriteManifest => (OnDisk /\ NeverUnfounded)'
<1> SUFFICES ASSUME Inv, WriteManifest PROVE (OnDisk /\ NeverUnfounded)'
  OBVIOUS
<1>1. UNCHANGED <<id, hits, mvs, pruned>> /\ manifest' = ManifestOf(id, shards)
  BY DEF WriteManifest
<1>2. OnDisk'
  BY <1>1 DEF Inv, OnDisk, Sound
<1>3. manifest' # None /\ manifest'.run = id
  BY <1>1 DEF ManifestOf, None
<1>4. hits' \in Documents => hits'.prov <= manifest'.run
  BY <1>1, <1>3 DEF Inv, OnDisk, Sound
<1>5. NotNewer(mvs, hits)' /\ NotNewer(pruned, mvs)'
  BY <1>1 DEF Inv, NeverUnfounded
<1> QED BY <1>2, <1>3, <1>4, <1>5 DEF NeverUnfounded

\* The run's own document is at least as new as any other, so nothing on disk is newer
\* once it is there; it is itself no newer than what was written before it.
LEMMA DiskPublish == Inv /\ (WriteHits \/ WriteMvs \/ WritePruned) => (OnDisk /\ NeverUnfounded)'
<1> SUFFICES ASSUME Inv, WriteHits \/ WriteMvs \/ WritePruned PROVE (OnDisk /\ NeverUnfounded)'
  OBVIOUS
<1>1. merged = Document /\ id \in RunIds /\ shards \in 1..MaxShards
  BY MergedAtHand DEF WriteHits, WriteMvs, WritePruned
<1>2. /\ merged \in Documents /\ OfOneRun(merged) /\ merged.prov = id
      /\ merged # None /\ merged # Torn /\ id \in Nat
  BY <1>1, OwnDocument DEF RunIds
<1>3. manifest # None /\ manifest.run = id
  BY DEF Inv, OnItsWay, AfterManifest, AfterMerge, AfterHits, ManifestOf, None,
         WriteHits, WriteMvs, WritePruned
<1>4. UNCHANGED <<id, manifest>>
  BY DEF WriteHits, WriteMvs, WritePruned
<1>5. Sound(hits) /\ Sound(mvs) /\ Sound(pruned)
  BY DEF Inv, OnDisk
<1>6. CASE WriteHits
  <2>1. hits' = merged /\ UNCHANGED <<mvs, pruned>>
    BY <1>6 DEF WriteHits
  <2>2. OnDisk'
    BY <1>2, <1>4, <1>5, <2>1 DEF OnDisk, Sound
  <2>3. NotNewer(mvs, hits)'
    BY <1>2, <1>5, <2>1 DEF NotNewer, Sound
  <2>4. NotNewer(pruned, mvs)'
    BY <2>1 DEF Inv, NeverUnfounded
  <2> QED BY <1>2, <1>3, <1>4, <2>1, <2>2, <2>3, <2>4 DEF NeverUnfounded
<1>7. CASE WriteMvs
  <2>1. mvs' = merged /\ hits = merged /\ UNCHANGED <<hits, pruned>>
    BY <1>1, <1>7 DEF WriteMvs, Inv, OnItsWay, AfterHits
  <2>2. OnDisk'
    BY <1>2, <1>4, <1>5, <2>1 DEF OnDisk, Sound
  <2>3. NotNewer(mvs, hits)'
    BY <1>2, <2>1 DEF NotNewer
  <2>4. NotNewer(pruned, mvs)'
    BY <1>2, <1>5, <2>1 DEF NotNewer, Sound
  <2> QED BY <1>2, <1>3, <1>4, <2>1, <2>2, <2>3, <2>4 DEF NeverUnfounded
<1>8. CASE WritePruned
  <2>1. pruned' = merged /\ mvs = merged /\ hits = merged /\ UNCHANGED <<hits, mvs>>
    BY <1>1, <1>8 DEF WritePruned, Inv, OnItsWay, AfterHits
  <2>2. OnDisk'
    BY <1>2, <1>4, <1>5, <2>1 DEF OnDisk, Sound
  <2>3. NotNewer(mvs, hits)' /\ NotNewer(pruned, mvs)'
    BY <1>2, <2>1 DEF NotNewer
  <2> QED BY <1>2, <1>3, <1>4, <2>1, <2>2, <2>3 DEF NeverUnfounded
<1> QED BY <1>6, <1>7, <1>8

\* A torn file founds nothing and contradicts nothing.
LEMMA DiskAbort == Inv /\ Abort => (OnDisk /\ NeverUnfounded)'
<1> SUFFICES ASSUME Inv, Abort PROVE (OnDisk /\ NeverUnfounded)'
  OBVIOUS
<1>1. /\ hits' \in {hits, Torn} /\ mvs' \in {mvs, Torn} /\ pruned' \in {pruned, Torn}
      /\ manifest' \in {manifest, Torn} /\ id' = id
  BY DEF Abort
<1>2. Sound(hits) /\ Sound(mvs) /\ Sound(pruned)
  BY DEF Inv, OnDisk
<1>3. Sound(hits)' /\ Sound(mvs)' /\ Sound(pruned)'
  <2>1. Sound(hits)'
    BY <1>1, <1>2, NoDocument DEF Sound
  <2>2. Sound(mvs)'
    BY <1>1, <1>2, NoDocument DEF Sound
  <2>3. Sound(pruned)'
    BY <1>1, <1>2, NoDocument DEF Sound
  <2> QED BY <2>1, <2>2, <2>3
<1>4. NotNewer(mvs, hits)' /\ NotNewer(pruned, mvs)'
  <2>1. NotNewer(mvs, hits) /\ NotNewer(pruned, mvs)
    BY DEF Inv, NeverUnfounded
  <2>2. NotNewer(mvs, hits)'
    BY <1>1, <2>1, NoDocument DEF NotNewer
  <2>3. NotNewer(pruned, mvs)'
    BY <1>1, <2>1, NoDocument DEF NotNewer
  <2> QED BY <2>2, <2>3
<1>5. hits' \in Documents => manifest' = Torn \/ (manifest' # None /\ hits'.prov <= manifest'.run)
  BY <1>1, NoDocument DEF Inv, NeverUnfounded
<1> QED BY <1>3, <1>4, <1>5 DEF OnDisk, NeverUnfounded
-----------------------------------------------------------------------------
LEMMA InvInit == Init => Inv
BY TypesInit, WayInit, DiskInit DEF Inv

LEMMA InvNext == Inv /\ [Next]_vars => Inv'
<1> SUFFICES ASSUME Inv, [Next]_vars PROVE Inv'
  OBVIOUS
<1>1. CASE Start
  BY <1>1, TypesStart, WayStart, DiskEarly DEF Inv
<1>2. CASE WriteShard
  BY <1>2, TypesWriteShard, WayWriteShard, DiskEarly DEF Inv
<1>3. CASE WriteManifest
  BY <1>3, TypesWriteManifest, WayWriteManifest, DiskWriteManifest DEF Inv
<1>4. CASE Telemetry
  BY <1>4, TypesTelemetry, WayTelemetry, DiskEarly DEF Inv
<1>5. CASE Merge
  BY <1>5, TypesMerge, WayMerge, DiskEarly DEF Inv
<1>6. CASE WriteHits \/ WriteMvs \/ WritePruned
  BY <1>6, TypesPublish, WayPublish, DiskPublish DEF Inv
<1>7. CASE Abort
  BY <1>7, TypesAbort, WayAbort, DiskAbort DEF Inv
<1>8. CASE UNCHANGED vars
  BY <1>8 DEF vars, files, memory, Inv, TypeOK, OnItsWay, OnDisk, Sound, NeverUnfounded, NotNewer,
              OfOneRun, Parts, Document
<1> QED BY <1>1, <1>2, <1>3, <1>4, <1>5, <1>6, <1>7, <1>8 DEF Next, Step

LEMMA InvAlways == Spec => []Inv
BY InvInit, InvNext, PTL DEF Spec

\* For every number of runs and of shards, and whenever a run dies: a document on disk
\* sums the counts of one run, and of all its shards.
THEOREM OneRunDocuments == Spec => []DocumentsOfOneRun
<1>1. Inv => DocumentsOfOneRun
  <2> SUFFICES ASSUME Inv PROVE DocumentsOfOneRun
    OBVIOUS
  <2>1. Sound(hits) /\ Sound(mvs) /\ Sound(pruned)
    BY DEF Inv, OnDisk
  <2> QED BY <2>1 DEF Sound, DocumentsOfOneRun, OfOneRun
<1> QED BY <1>1, InvAlways, PTL

\* A finished run has published whole files that agree.
THEOREM FinishedRunsAgree == Spec => []PublishedTogether
<1>1. Inv => PublishedTogether
  <2> SUFFICES ASSUME Inv, pc = "done" PROVE PublishedTogether
    BY DEF PublishedTogether
  <2>1. /\ manifest = ManifestOf(id, shards)
        /\ \A s \in 0..(shards - 1) : corpus[s] = CorpusOf(id)
        /\ hits = Document /\ (emit => mvs = Document) /\ (prune => pruned = Document)
    BY DEF Inv, OnItsWay, AfterShards, AfterManifest, AfterMerge, AfterHits
  <2>2. HitsOf({<<s, id>> : s \in 0..(shards - 1)}, manifest) = Document
    BY <2>1 DEF HitsOf, ManifestOf, Document, Parts
  <2> QED BY <2>1, <2>2 DEF PublishedTogether
<1> QED BY <1>1, InvAlways, PTL

\* A grammar on disk is never newer than the hits, nor these than the manifest, however
\* many runs have died over the directory.
THEOREM NothingUnfounded == Spec => []NeverUnfounded
<1>1. Inv => NeverUnfounded
  BY DEF Inv
<1> QED BY <1>1, InvAlways, PTL
=============================================================================
