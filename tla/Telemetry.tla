------------------------------ MODULE Telemetry ------------------------------
(***************************************************************************)
(* The telemetry stage: mvs-telemetry runs once per shard of the corpus    *)
(* (mvs-cli main.rs, HitAggregator of telemetry.rs) and emits a hits       *)
(* document; merge_hits (hitsmerge.py) sums any group of documents into    *)
(* one, and merged documents can be merged again.                          *)
(*                                                                         *)
(* The shard runs are separate processes, so their steps interleave.  The  *)
(* parse of a line is the verdict of Matcher (or of the DER walker) and a  *)
(* datum here: whether it matched and the list of nodes it visited.        *)
(***************************************************************************)
EXTENDS Integers, Sequences, FiniteSets, Bags, FiniteSetsExt

CONSTANTS Shards,        \* the shard files
          Corpora,       \* the contents they may have: [Shards -> Seq(line)]
          Setups,        \* how the runs may be called: [grammar, der], see IsSetup
          MaxInputBytes, \* --max-input-bytes
          Requires       \* <<node, child>>: no derivation uses node without child

\* A line of a shard: a comment or blank line, or an input of some length whose
\* parse has a verdict.  visited is a list: a node is visited once per use.
IsLine(line) ==
    /\ line.kind \in {"blank", "input"}
    /\ line.bytes \in Nat
    /\ line.matched \in BOOLEAN
    /\ Len(line.visited) \in Nat

ASSUME ShardsAssumption == IsFiniteSet(Shards)
ASSUME CorporaAreLines ==
    \A lines \in Corpora : \A s \in Shards :
        /\ Len(lines[s]) \in Nat
        /\ \A i \in 1..Len(lines[s]) : IsLine(lines[s][i])
\* What Matcher guarantees of a verdict (HitsAreDerivation).
ASSUME ClosedVerdicts ==
    \A lines \in Corpora : \A s \in Shards : \A i \in 1..Len(lines[s]) :
        LET visited == {lines[s][i].visited[j] : j \in 1..Len(lines[s][i].visited)}
        IN  \A r \in Requires : r[1] \in visited => r[2] \in visited
\* grammar: the grammar of the AST each run is given; der: the runs called with --der-dir
\* instead of --corpus.
IsSetup(su) == DOMAIN su.grammar = Shards /\ su.der \subseteq Shards
ASSUME SetupsAssumption == \A su \in Setups : IsSetup(su)
ASSUME BoundAssumption == MaxInputBytes \in Nat

VARIABLES lines,    \* the shard files (never change)
          setup,    \* how their runs are called (never changes)
          status,   \* of each shard run: "running", "done" or "failed"
          at,       \* the line each run is about to read
          agg,      \* HitAggregator: [total, counts], counts a bag of node ids
          tally,    \* the run's own counters: [matched, skipped]
          docs      \* the hits documents on disk not merged into another yet

given == <<lines, setup>>
vars  == <<given, status, at, agg, tally, docs>>
-----------------------------------------------------------------------------
(***************************************************************************)
(* One shard run.                                                          *)
(***************************************************************************)
Line(s) == lines[s][at[s]]

\* Blank lines and comments are not samples, and neither are over-long lines;
\* --der-dir has neither rule: every file is a sample.
Ignored(s, line) == s \notin setup.der /\ line.kind = "blank"
TooLong(s, line) == s \notin setup.der /\ line.bytes > MaxInputBytes
Sample(s, line)  == ~ Ignored(s, line) /\ ~ TooLong(s, line)

\* Mutant of Record: a node visited twice counts twice.
RecordEveryVisit(a, line) ==
    [total  |-> a.total + 1,
     counts |-> a.counts (+) [n \in {line.visited[i] : i \in 1..Len(line.visited)} |->
                                Cardinality({i \in 1..Len(line.visited) : line.visited[i] = n})]]

\* HitAggregator::record_visited: each visited node once, the total always.
Record(a, line) ==
    [total  |-> a.total + 1,
     counts |-> IF line.matched
                THEN a.counts (+) SetToBag({line.visited[i] : i \in 1..Len(line.visited)})
                ELSE a.counts]

Init ==
    /\ lines \in Corpora /\ setup \in Setups
    /\ status = [s \in Shards |-> "running"]
    /\ at = [s \in Shards |-> 1]
    /\ agg = [s \in Shards |-> [total |-> 0, counts |-> EmptyBag]]
    /\ tally = [s \in Shards |-> [matched |-> 0, skipped |-> 0]]
    /\ docs = {}

Reading(s) == status[s] = "running" /\ at[s] <= Len(lines[s])

SkipLine(s) ==
    /\ Reading(s)
    /\ ~ Sample(s, Line(s))
    /\ at' = [at EXCEPT ![s] = @ + 1]
    /\ tally' = IF Ignored(s, Line(s)) THEN tally
                ELSE [tally EXCEPT ![s].skipped = @ + 1]
    /\ UNCHANGED <<given, status, agg, docs>>

ParseLine(s) ==
    /\ Reading(s)
    /\ Sample(s, Line(s))
    /\ at' = [at EXCEPT ![s] = @ + 1]
    /\ agg' = [agg EXCEPT ![s] = Record(@, Line(s))]
    /\ tally' = IF Line(s).matched THEN [tally EXCEPT ![s].matched = @ + 1] ELSE tally
    /\ UNCHANGED <<given, status, docs>>

\* Mutant of WriteHits: a shard without samples writes no document.
WriteHitsIfAny(s) ==
    /\ status[s] = "running" /\ at[s] > Len(lines[s])
    /\ status' = [status EXCEPT ![s] = "done"]
    /\ docs' = IF agg[s].total = 0 THEN docs
               ELSE docs \cup {[from |-> {s}, grammar |-> setup.grammar[s],
                                total |-> agg[s].total, hits |-> agg[s].counts]}
    /\ UNCHANGED <<given, at, agg, tally>>

\* into_hits, written to --out.
WriteHits(s) ==
    /\ status[s] = "running"
    /\ at[s] > Len(lines[s])
    /\ status' = [status EXCEPT ![s] = "done"]
    /\ docs' = docs \cup {[from |-> {s}, grammar |-> setup.grammar[s],
                           total |-> agg[s].total, hits |-> agg[s].counts]}
    /\ UNCHANGED <<given, at, agg, tally>>

\* An unreadable file or a grammar that does not compile: no document.
Fail(s) ==
    /\ status[s] = "running"
    /\ status' = [status EXCEPT ![s] = "failed"]
    /\ UNCHANGED <<given, at, agg, tally, docs>>
-----------------------------------------------------------------------------
(***************************************************************************)
(* merge_hits over a group of documents.                                   *)
(***************************************************************************)
SumHits(D)   == FoldSet(LAMBDA d, sum : sum (+) d.hits, EmptyBag, D)
\* Mutant of SumTotals: the total of one document instead of the sum.
OneTotal(D) == (CHOOSE d \in D : TRUE).total

SumTotals(D) == MapThenSumSet(LAMBDA d : d.total, D)

\* Mutant of SameGrammar: any documents merge.
AnyGrammar(D) == TRUE

\* A merge across grammars raises, and leaves the documents as they were.
SameGrammar(D) == \A d, e \in D : d.grammar = e.grammar

Merge(D) ==
    /\ Cardinality(D) >= 2
    /\ SameGrammar(D)
    /\ docs' = (docs \ D) \cup {[from    |-> UNION {d.from : d \in D},
                                 grammar |-> (CHOOSE d \in D : TRUE).grammar,
                                 total   |-> SumTotals(D),
                                 hits    |-> SumHits(D)]}
    /\ UNCHANGED <<given, status, at, agg, tally>>
-----------------------------------------------------------------------------
Run(s) == SkipLine(s) \/ ParseLine(s) \/ WriteHits(s)
Next   == \/ \E s \in Shards : Run(s) \/ Fail(s)
          \/ \E D \in SUBSET docs : Merge(D)
Spec   == Init /\ [][Next]_vars

\* Every run keeps executing, and a possible merge is eventually asked for.
FairSpec == /\ Spec
            /\ \A s \in Shards : WF_vars(Run(s))
            /\ WF_vars(\E D \in SUBSET docs : Merge(D))
-----------------------------------------------------------------------------
(***************************************************************************)
(* Properties.                                                             *)
(***************************************************************************)
Complete == {d \in docs : d.from = Shards}

TypeOK ==
    /\ lines \in Corpora /\ setup \in Setups
    /\ status \in [Shards -> {"running", "done", "failed"}]
    /\ \A s \in Shards :
          /\ at[s] \in 1..(Len(lines[s]) + 1)
          /\ agg[s].total \in Nat /\ IsABag(agg[s].counts)
          /\ tally[s] \in [matched : Nat, skipped : Nat]
    /\ \A d \in docs : /\ d.from \in SUBSET Shards
                       /\ d.total \in Nat /\ IsABag(d.hits)

Copies(n, hits) == IF BagIn(n, hits) THEN hits[n] ELSE 0

\* "A reference is only credited when its target rule is" (codegen.py), and so for
\* every mandatory child: in every document, of one shard or of many, a child is counted
\* at least as often as its parent, so a threshold that keeps the parent keeps the
\* child; and usage = hits / total is a fraction.
CountsAreUsages ==
    \A d \in docs :
        /\ \A r \in Requires : Copies(r[1], d.hits) <= Copies(r[2], d.hits)
        /\ \A n \in BagToSet(d.hits) : Copies(n, d.hits) <= d.total

\* The documents on disk partition the finished shards, failures and merges of
\* any group notwithstanding: no slice of the corpus is lost or counted in two
\* documents, and none is summed with another grammar's.
DocsPartition ==
    /\ UNION {d.from : d \in docs} = {s \in Shards : status[s] = "done"}
    /\ \A d, e \in docs : d # e => d.from \cap e.from = {}
    /\ \A d \in docs : \A s \in d.from : setup.grammar[s] = d.grammar

\* Sharding and merging are invisible: the stage implements the count of the
\* whole corpus (hitsmerge.py: the merged document is "exactly what a single run
\* over the whole corpus would have produced", "associative and
\* order-independent").
Samples == {id \in UNION {{s} \X (1..Len(lines[s])) : s \in Shards} :
               Sample(id[1], lines[id[1]][id[2]])}

\* The count that the shard runs make between them, and the document that answers
\* for the corpus.
Verdicts    == [id \in Samples |->
                  LET line == lines[id[1]][id[2]]
                  IN  [matched |-> line.matched,
                       visited |-> {line.visited[i] : i \in 1..Len(line.visited)}]]
Unread      == {id \in Samples : id[2] >= at[id[1]]}
CorpusTotal == MapThenSumSet(LAMBDA s : agg[s].total, Shards)
CorpusHits  == FoldSet(LAMBDA s, sum : sum (+) agg[s].counts, EmptyBag, Shards)
NotYet      == [total |-> -1, hits |-> EmptyBag]
Published   == IF Complete = {} THEN NotYet
               ELSE LET d == CHOOSE d \in Complete : TRUE
                    IN  [total |-> d.total, hits |-> d.hits]

Whole == INSTANCE Tally WITH
    Unpublished <- NotYet,
    result      <- Verdicts,
    pending     <- Unread,
    total       <- CorpusTotal,
    hits        <- CorpusHits,
    published   <- Published

CountsTheWholeCorpus == Whole!Spec

\* Unless a run fails or the shards are of different grammars, a document of the
\* whole corpus comes out.
EventuallyComplete ==
    <>(\/ Complete # {}
       \/ \E s \in Shards : status[s] = "failed"
       \/ \E s, t \in Shards : setup.grammar[s] # setup.grammar[t])
=============================================================================
