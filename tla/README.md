# A TLA+ verification development for RFE-Standards

RFE-Standards derives *Minimum Viable Standards*: it parses a large corpus with
an instrumented recognizer of a grammar (RFC 3986 URIs, RFC 5280 certificates),
counts which grammar nodes are used, prunes the nodes below a threshold, emits
the minified grammar and a reference parser for it, and lets users submit
evidence (an RFE, *request for explanation*) that restores a pruned node.

This directory holds TLA+ models of that system, translated from its source, the
TLC configurations that check them on small instances, and theorems about them
with TLAPS proofs. Paths below are relative to `src/`; `PROJECT.json` gives, for
every definition that models code, the lines it stands for.

```
tlasany M.tla                          parse a module
tlc -config X.cfg M                    model-check (run names: PROJECT.json "runs")
tlapm M.tla                            check the proofs of M
```

## 1. Inventory

| Component | State it keeps | Operations | Interacts with |
|---|---|---|---|
| **ABNF front end** (`abnf.py`, `astbuild.py`) | none (token position) | tokenize, parse, assemble the node table, check references | writes `*.ast.json` |
| **ASN.1 front end** (`asn1.py`, `astbuild.py`) | none | the same for ASN.1 modules | writes `*.ast.json` |
| Schemas (`mvs-schema`, `schema.py`) | none | (de)serialise AST, hits, pruned, overrides; `usage_fraction`, `is_protected`, `validate_references` | used by all |
| **ABNF recognizer** (`mvs-core/telemetry.rs`) | `visited`, `depth`, `depth_exceeded` and the Rust call stack | `compile`, `parse_bounded`, `m`, `run_cont`, `rep_step` | runner, reference parser |
| **DER walker** (`mvs-core/der.rs`) | the same | `walk`, `match_type`, `match_value`, one handler per kind | runner, reference parser |
| **Telemetry runner** (`mvs-cli/main.rs`), `HitAggregator` | counters per node, matched / total / skipped | one process per shard, `record_*`, `finish` | corpus file in, `hits.json` out |
| **Merge** (`hitsmerge.py`) | none | sum documents of one grammar | orchestration |
| **Pruner** (`pruner.py`, `overrides.py`) | the kept and protected sets while it runs | `prune`, `_expand_protection` | hits and registry in, `pruned.json` out |
| **Code generator** (`codegen.py`) | none | render the kept nodes | `*.mvs.abnf` |
| **Reference parser** (`mvs-refparse`) | the deny list | parse with the full grammar, reject what uses a pruned node | `mvs-validate` |
| **Collector** `orchestrate.py` | the files of a work directory | sample, write shards, telemetry, merge, stamp, prune | all of the above |
| **Collector** `dedup.py` | shard files, per-domain counts, a process pool | partition, reduce | sources, sampler |
| **Collector** `sampler.py` | one bounded heap per stratum | quotas, bottom-k, cross-stratum dedup, shards, manifest | orchestration |
| **Collector** `http.py` | attempts of one request | open, read, retry, back off | sources, `ct.py` |
| **Collector sources** (`commoncrawl.py`, `wat.py`, `wikipedia.py`, `filelist.py`) | stream position | list the files, read them, yield raw URIs, sample | dedup |
| **Normalization** (`normalize.py`, `psl.py`) | the suffix list | URI to normal form, host to registrable domain | dedup |
| **CT fetcher** (`ct.py`) | index in the log, hashes seen, files written | page `get-entries`, decode leaves, sample, write | `http.py`, runner |
| Corpus preparation (`corpus.py`) | none | extract URIs, dedupe, write | runner |
| **Provenance** (`provenance.py`, inside `Collection`) | none | build the block that names a document's evidence | orchestration, pruner |
| **RFE restore loop** (`rfe_service/rerun.py`) | the override registry, proposals open on it | `evaluate_report`, `apply_to_overrides` | recognizer, pruner |
| RFE ingest and API (`ingest.py`, `app.py`) | none | validate a zip archive | rerun |

Components in bold have a model. `PROJECT.json` "components" says of each how
complete the model is.

What is hard here, and what the properties are for (`PROJECT.json` "hazards"
lists each at its line):

* **Backtracking with side effects.** Both recognizers credit nodes while they
  search; an abandoned branch must leave nothing behind and a failed one must take
  away no other branch's credit. A test sees one input, the property is about
  every grammar.
* **A depth counter** raised and lowered on many early-return paths.
* **Three descriptions of one grammar.** The front ends, the code generator and the
  recognizer each walk the AST in their own way; what the generator writes has to be
  what the front ends read.
* **Text that names a site in many ways**: user information with an `@`, ports, upper
  case, wildcard and exception rules of the suffix list, quotes escaped inside an SQL
  dump, records cut short.
* **A chain of invariants across languages.** The pruner and the code generator
  (Python) rest on what the recognizers (Rust) credit: a child is counted whenever
  its wrapper is, a rule whenever a reference to it is.
* **Iteration over Python sets**, whose order changes from process to process.
* **Processes that interleave or die**: shard runs, pool workers whose chunks end
  in any order, a collection run killed between two of the files it publishes, the
  next run over what it left.
* **A server that answers as it likes**: short pages, errors, dropped connections,
  a log that grows between two runs.
* **Concurrent proposals** computed from a registry that has changed since.

## 2. The modules

Each module is one component; a component's `MC...` module (where it needs one)
gives TLC its constants; `...Proofs` modules hold the theorems. An arrow points from or
to the module that is used: `A <- B` and `B -> A` both say that B builds on A.

```
 AbnfCompile <- AbnfLanguage <- Matcher <- MCMatcher, MatcherProofs
     ^           what a grammar describes, without any recognizer
     +--- AbnfParse <- MCMatcher   Matcher's verdict in one expression
             ^
         RefParser          MCGrammars <- MCCounts   counts of real parses
                                ^            ^
 Pruner, Codegen  <----------- MCPruner ----+ 
   ^  ^     |                     |
   |  |     +-> AbnfReader -+     +-> Asn1Reader (INSTANCE)
   |  |                     +-> AstBuild <-+
   |  +-- RestoreLoop (INSTANCE Pruner) <- MCRestoreLoop, RestoreLoopProofs
   +----- PrunerProofs
 DerWalker <- MCDerWalker -> Tlv          DerWalker <- DerProofs
 Tally  <= Telemetry (refinement) <- MCTelemetry, TelemetryProofs
 CtFetch <- CtRun <- MCCtRun, CtProofs
              +---- HttpRetry (INSTANCE)
 UriText <- Sources <- MCSources <- MCDedup -> Dedup <- CorpusProofs -> Sampler <- MCSampler
 Collection <- CollectionProofs
```

### Recognizer: AbnfCompile, Matcher, AbnfLanguage, AbnfParse

`Matcher` turns the recursion of `telemetry.rs` into a machine. `ctl` is the call
about to be made (`m`, `run_cont`, `rep_step`) or the value just returned;
`stack` holds the frames of calls that still have something to do; `visited`,
`depth`, `depth_exceeded` are the fields of `struct Matcher`. A continuation (the
`Cont` enum, a linked list borrowed from the callers' frames) is a sequence,
innermost obligation first. Every branch of `m` by node kind is an action, so is
every way a call returns to the frame below it. `AbnfCompile` is `compile`: it
refuses an AST with a missing root, an unknown reference, and so on, and gives the
table the machine runs.

`AbnfLanguage` defines what ABNF says a grammar describes, without looking at the
recognizer: the least set of *parts* `<<n, k, i, j>>`, node `n` deriving the bytes from
offset `i` to `j`, where `k > 0` means what is left of a sequence after `k` elements or of
a repetition after `k` items (`Derives` is the one rule per kind of node; from
`LastPart` on the items of a repetition are alike, which keeps the set finite).
`Matcher` states its verdict against it (`AcceptsTheLanguage`). `AbnfParse` is the verdict
of a whole parse in one recursive expression, for modules in which a parse is a single
event; `MCMatcher` checks that it is the verdict the machine reaches (`VerdictIsParse`).

### DER walker: DerWalker, Tlv

The same form: `match_type` and `match_value` are the two kinds of call, a frame records
the call, the length of `visited` when it was made (the `checkpoint` of the code) and,
for a SEQUENCE, a repetition or a CHOICE, the loop's position. `Open`, `Credit` and
`Truncated` are the three things every handler does: enter, credit the node after its
children, roll back. Bytes are abstracted to what `read_tlv` makes of them: a buffer is
the sequence of values it can be cut into and a flag, *torn*, for bytes after the last
one that are not a value. A failing read is therefore reachable wherever the code can
meet one. `Tlv` is `read_tlv` itself, from a sequence of bytes: tag numbers in one byte
or in several, short and long lengths, and what it refuses. `MCDerWalker` writes each of
its values as bytes, with the length in the short form or in the long one, and
`BytesHoldTheirValues` says that cutting the bytes again and again gives the values that
the walk is given.

### Telemetry: Tally, Telemetry

`Telemetry` has one process per shard, with the loop of `main.rs` over its input
file (a line skipped as empty, as a comment or as too long; counted and matched or
not; the document written at the end, or the run failed without one) and
`Merge`, which `merge_hits` does to any set of documents. `Tally` is the abstract
specification: one count over the whole corpus. `Telemetry` implements it
(`CountsTheWholeCorpus` is `Tally!Spec` under a refinement mapping).

### Pruner, code generator, reference parser: Pruner, Codegen, RefParser

`Pruner` has one action per step of `prune`: take the nodes above the threshold,
add protected ones with what they stand for and with the context in which they
appear, then drop references whose rule is gone. Where the code iterates over a
Python set, the action picks any element that is due. `Codegen` and `RefParser`
are functions; `MCPruner` composes the three and compares the *languages*: of the
full grammar, the emitted one, and what the reference parser accepts. Counts are
not invented: `MCCounts` parses every sample of bounded size with `AbnfParse` and
counts as the aggregator does, so that a job of the pruner is one the pipeline can
produce.

### Front ends: AstBuild, AbnfReader, Asn1Reader

`AbnfReader` and `Asn1Reader` are the two recursive descents over tokens, with what
comes before them: comments, continuation lines, rule heads and incremental
alternatives in the one; the module's frame, imports, tags, constraints and named
numbers in the other. A text is a sequence of lines of lexemes. `AstBuild` is
`assemble`: identities from paths, the node table, duplicate and undefined rules. The
code generator's text is in the same lexemes, so `EmittedTextMeansKept` composes the
three: the front end reads what is emitted, also when its lines are broken or commented
as a person would, and gets the AST without what was pruned.

### Collector and CT fetcher: Dedup, Sampler, Collection, HttpRetry, CtFetch, CtRun

`Sources` is the four connectors: which files of a listing are read, and what a URI
list, an index (ranges of a file read over HTTP), a stream of WARC records or an SQL
dump yields, sampled by the run's seed. `UriText` is `normalize_uri`, `host_of` and
`PublicSuffixList` on texts of the characters the code tells apart. `MCSources` writes
the files that hold given links, as their producers do; `MCDedup` feeds what
`IterUris` reads from them to `Dedup`, with the domains `UriText` finds.
`Dedup` is `dedupe_and_cap` for one source: open shard files (an earlier run's may
be there), classify and partition with or without a pool, reduce shard after shard.
`Sampler` takes the URIs of each stratum in any order. `Collection` is a run of the
orchestration over a directory: its state is what each file on disk was computed
from (`Torn` when a run died while writing it), its actions are the writes, in
their order, and `Abort`, which can strike between any two and in any of them.
`HttpRetry` is `_run_with_retries` around one request, the answers chosen by the
environment. `CtFetch` is the reader and writer of `ct.py` against a log that
grows and a server that may answer with fewer entries than asked; a request is one
step there. `CtRun` composes the two: the request becomes a call of the retrying
client, the log may grow while it lasts, and an error that the client raises ends
the run. That the composition still implements `CtFetch` is `PagesAreAtomic`.

### RestoreLoop

Composes the registry with `Pruner` (INSTANCE): a submission is evaluated against
the published pruned document, the result is a proposal made from the registry *of
that moment*; proposals are merged or declined in any order; publication prunes
anew. A proposal is a whole `overrides.yaml` on a branch (`rerun.py:211`). What
merging does is git's and external: it is assumed that the branch was cut from the
registry the proposal was computed from, and that the merge is three-way, entry by
entry. A proposal that has become stale is thus merged with what others have
restored since, or declined. Were the file to replace the registry instead,
`NothingLost` would fail; that is its mutant, `MergeWhole`. Edits of the registry by
hand are not modelled.

## 3. The runs

Passing runs. Every property is one a plausible bug breaks: `PROJECT.json`
"mutants" names, for each, a mutation of a modelled definition under which TLC
finds it violated.

| Run | What it shows | Bounds, and why they are enough |
|---|---|---|
| `recognizer` | `AcceptsTheLanguage`: exactly the language, nothing outside it in any case and nothing lost unless the depth bound struck or counted items can be empty; `HitsAreDerivation`: the credited nodes hold a derivation, and the grammar without the others still describes the input; `NothingToUndo`: nothing is credited before the input is accepted; `DepthIsOpenFrames`: the depth counter balances; `Terminates` | every input to 3 bytes; grammars with each construct and each pair that interacts (bounded repetition of an option, alternation in a sequence, nesting, left recursion, and one whose counted items can be empty); depth bound 13, which the left-recursive grammar always reaches, two others on their longer inputs, and the rest never |
| `der` | `BytesHoldTheirValues`: `read_tlv` cuts the bytes of a value into that value, in short and long forms of length, and stops at bytes that are none (a tag alone, a value cut short, an indefinite length, one of five bytes, an endless tag); `CreditsPrecisely`: a conforming value credits the nodes ASN.1 says; `KeepsItsPlace`: an unknown field costs no neighbour its credit; `DepthIsOpenCalls`, `PlainCreditsClosed`: a credited wrapper has its child credited, at every moment of the walk; `Returns` | about 600 values, three levels deep, cut short, with fields missing, added or of another type, against four schemas with each kind of node; depth bound 7, which two of the schemas reach; tag numbers to the largest of `TagBits` (16, three bytes, where the code has 32) |
| `telemetry` | `CountsTheWholeCorpus`: refinement of `Tally`; `CountsAreUsages`: counts are fractions, a child is counted as often as its wrapper; `DocsPartition`: documents always partition the finished shards and never mix grammars; `EventuallyComplete`: a complete document comes out | 3 shards with every combination of four contents, of one grammar or of two (one then of certificates), merged in any grouping, each failing anywhere |
| `pruner` | no dangling kept reference, protected subgrammars whole, one outcome for every iteration order (`OrderIndependent`: the least set closed under what protection adds); `RequiredKept`: what is kept can still be used, a sequence kept around a protected rule's reference excepted, which keeps its literals; `EmittedTextMeansKept`: the front ends read the emitted text, in three layouts, as the kept part of the AST; `EmittedGrammarMeansKept`: the emitted grammar describes the strings that can be derived from kept nodes, and no other, up to the two exceptions below; `ValidatorAcceptsMvs`: the reference parser accepts such strings only, and each that has a single reading; `Terminates` | every sample of up to two inputs of four grammars of text (a path of rules, alternatives, two readings of one string, branches that can be lost) and a certificate schema, registries and thresholds at the boundaries; strings of up to 3 symbols |
| `dedup` | `SourceYieldsItsLinks`: a source of each kind yields the links its files hold, of a stream cut short those before the cut, and at a sampling rate the share the seed selects, with the domain each link belongs to; `KeepsFirstOfEachDomain`, `OrderedOutput`: the same URIs as one serial pass, in the documented order, whatever the chunks' order and the files found | four kinds of source; nine hosts (normal, wildcard and exception rules, a suffix alone, numbers, a literal address) with every user information, port and tail, two of them holding an `@` more; links with up to two special characters; pairs of links at rates of 0, 50 and 100 per cent; a stream cut after every line. Lists of up to 4 URIs, two domains, equal normal forms, 2 shards, leftovers of an earlier run |
| `sampler` | quotas, independence of arrival order, manifest agrees with files | strata that share URIs, equal scores |
| `collection` | documents are each of one run, and a grammar is never newer than its evidence | 3 runs: a victim, its predecessor and its successor; up to 3 shards |
| `ct` | `RetriesAsPromised`: how long a call goes on and how it waits; `DirectoryIsCorpus`, `ProvenanceAccounts`: files and provenance are those of the range, and nothing of an earlier run; `PagesAreAtomic`: an error is never taken for the end of the log; `RunEnds` | 2 runs over one directory, 4 attempts a call with every answer to each, a range of 6 entries with repeated, malformed and unsampled certificates, pages of 3 |
| `restore` | `EvidenceRestores`: merged evidence restores; `NothingLost`: nothing kept is lost, whatever was merged between a proposal and its own merge | 2 proposals open at once, so that one becomes stale when the other is merged; samples of up to 2 inputs |

A run with `CHECK_DEADLOCK FALSE` is of a program that ends. A `TypeOK` or `Types` in a
module tells the reader what its variables hold; it is proved where the module has
theorems, and the runs spend their time on the properties above.

Runs that refute a claim. Each checks one sentence of the documentation or of a
comment and TLC shows a behaviour of the code that contradicts it;
`PROJECT.json` "findings" quotes the sentence and gives the lines.

| Run | Claim | What the code does |
|---|---|---|
| `der_implicit` | a reference is credited only when its rule is | behind an IMPLICIT tag the reference is credited unwalked |
| `pruner_dangling` | the minified grammar has no dangling references | an alternation that lost every branch empties its rule |
| `http_dropped` | a dropped connection is retried | its exceptions are not among the retried ones |

### Where the documentation says more than the models show

Other sentences that the code, as read and modelled, does not bear out as widely as
they are put. No run states them; where a passing property carries a hypothesis
because of one, the hypothesis is named.

* A zero-width item ends a repetition without counting towards its minimum
  (`telemetry.rs:331`), so `2["a"]` does not accept the empty string, which the grammar
  describes. `AcceptsTheLanguage` has the hypothesis `CountedItemsConsume` for what must be
  accepted (a repetition that needs two items or more has none that can be empty); that
  nothing else is accepted has no such hypothesis. `EmptyItemsAst` of `recognizer` is a
  grammar in which it fails.
* At the depth bound only the call is refused; the parse goes on and can match
  (`telemetry.rs:266`, `der.rs:205`), although `DerResult` speaks of an abandoned walk.
  `AcceptsTheLanguage`, `CreditsPrecisely` and `KeepsItsPlace` are about parses that did
  not reach the bound.
* An absent OPTIONAL CHOICE takes the next component's value, since a CHOICE with no
  matching alternative succeeds (`der.rs:334`). No schema of `der` has one.
* The emitted grammar is not always a subset of the full one, nor does it always
  describe all that kept nodes derive. An element that was pruned, or lost all it
  contains, drops out of its sequence (`codegen.py:63`), which then describes strings
  that the full grammar does not: a sequence kept around the reference to a protected
  rule, a group that was emptied. `EmittedGrammarMeansKept` names these sequences
  (`Torn`) and says that without them nothing foreign is described. A branch with
  nothing left in it is dropped (`codegen.py:88`), and with it the empty string if the branch
  was a repetition from zero: the property names these branches (`Emptied`) and says
  that without them nothing is lost.
* The reference parser judges the first derivation only (`mvs-refparse/src/lib.rs:116`),
  so it does not accept "exactly" the standard (`lib.rs:3`): it refuses a string whose
  first reading uses a pruned node, although it has another of kept nodes only
  (`AmbiguousAst` of `pruner`). `ValidatorAcceptsMvs` demands that every string with one
  reading is accepted, and of every string accepted that it can be derived from kept
  nodes. The emitted grammar describes those too, unless a branch was emptied: the
  parser then accepts the empty string through a repetition that is no longer emitted.
* A protected rule is kept without the rules that refer to it (`pruner.py:158`).
* The pool's `map` takes its whole input before it yields (`dedup.py:86`), so memory is
  not bounded by a shard while partitioning with workers.
* What the cross-stratum deduplication drops is not replaced (`sampler.py:158`):
  `IndependentOfOrder` and `ManifestMatchesFiles` speak of what is written, not of the
  target.
* The next collection run overwrites the manifest that an older document names
  (`sampler.py:183`); `NeverUnfounded` is the order that remains.
* A range that reaches past the end of the log gives another corpus once the log has
  grown (`ct.py:177`); `DirectoryIsCorpus` is about the entries scanned.
* `normalize_uri` strips white space before it drops control characters
  (`normalize.py:25`), so a blank after a leading control character stays, where the
  docstring has surrounding white space trimmed.
* `registrable_domain` returns labels in lower case, where its docstring says the
  original ones (`psl.py:77`).
* A record whose header ends at `Content-Length:` makes the reader raise and not stop
  gracefully (`wat.py:88`: a truncated stream "degrades gracefully rather than
  raising"). The streams of `dedup` are cut between lines.
* A link that starts with `#` passes the collector, and the runner skips it as a comment
  (`mvs-cli/src/main.rs`): a document's `total_samples` can be below what the manifest
  says was written.
* The rerun does not compare a submission's grammar with that of the pruned document it
  is evaluated against (`rerun.py`); the submissions of `restore` are of its grammar.
* A node whose entry says `protected: false` is not proposed again (`rerun.py:100`):
  the hypothesis of `EvidenceRestores`.

## 4. Fairness

Liveness is checked only where the code's scheduling gives it:

* `Matcher`, `DerWalker`, `Pruner` are sequential code: `WF_vars(Next)`, a program
  that can go on does. `Terminates` and `Returns` then say that recursion and loops
  come to an end.
* `Telemetry`: weak fairness of every shard's run (a process), and of merging,
  which the orchestration calls once the shards are done.
* `CtRun`: weak fairness of the command's own steps, waits included; the log need not
  grow, nor anybody run the command again.

`Dedup`, `Sampler`, `Collection` and `RestoreLoop` are checked for safety alone.

## 5. What is proved

TLC checks small instances; the following hold for every value of the constants.
The assumptions are those named in the modules: the ASTs are well formed
(`AstsWellFormed`; what the front ends write and `validate_references` checks), the
depth bound is a natural number, a value's content is a buffer, a job's counts are
what telemetry leaves (`JobsAreJobs` and the like). TLC evaluates each of them in
the runs of the module that declares it.

**MatcherProofs.**
`TypeCorrect`; `CreditsOnlyWhenAccepted` (no node is credited before the whole input
is accepted, so there is nothing to undo when a branch is abandoned); `DepthBounded`
(the depth is the number of open frames of `m`). The last is not inductive as it
stands: a return lowers the counter, so the invariant has to know that a frame is
there to be closed; the strengthening counts frames and types the stack.
`HitsClosed`: the nodes credited for a matched input hold the root and, with each
node, what its derivation needs, and they alone derive the input. For the first half: crediting
happens while the calls return, long after the choices were made, so the invariant
follows the frames (`HInv`): every open frame has what it needs either in the frames above it or
pending in the continuation saved with it, and when a branch fails both are what they were. The
second half is told below, since it rests on the language.

`VerdictIsTheLanguage`: the machine, with its ordered choice, greedy repetitions and depth
bound, decides the least fixed point of `AbnfLanguage`. The proof has three parts.
*The language*: `Derivable`, which grows a set until nothing is to be added, is the
intersection of all sets closed under `Derives` (`DerivableIsHull`): growing stays
within every closed set, and it stops because there are finitely many parts, the AST being
finite. Hence the language is closed (`LanguageFixed`) and least (`LanguageLeast`); that what a
repetition with enough items can still match it could match one item earlier is
`OneItemLess`, by leastness. *What a state can still do*: `Completes` says that a list of
continuations can take the input from an offset to its end, `Untried` that a frame has a
branch, a skip or a settled repetition left that would. *The invariant* `LInv`:
the state is hopeful (the call in hand can match, or some frame has something untried
that would) only if the input is in the language, and if the input is in the language the
state is hopeful or a call has been refused. Every action but two keeps hopefulness
exactly (the `Even...` lemmas); a refusal may lose it, and one more item of a repetition
(`RepTry`) gains none, and loses none when counted items consume, the only place where
`CountedItemsConsume` is needed.

`CreditsSuffice`, and with it the second half of `HitsClosed`: when any of the nodes a matched input
does not credit are lost (`Keeping` replaces them by an alternation without branches), the
grammar still describes the input. A credit is given to the node of every frame of `m` that
returns true, so what counts at any moment is what the open frames will credit. The invariant
`KInv` says of every open frame, and of the call in hand, that it is *backed* by the open frames
below it: each grammar that keeps their nodes and can make that call good describes
the input. It speaks of all such grammars at once because the nodes still to be credited are
not known when a frame is opened, and it speaks of the frames, not only of the call
in hand, because after a failure the frame's own call is in hand again. A step then has to
show, in each grammar that has kept its node, that what it goes on to can be made good only if
what it came from can (the `...GainsNothing` lemmas, from the same facts about the language);
when a frame returns true its node passes from the open to the credited ones.

**DerProofs.**
`TypeCorrect` and `DepthBounded`, by an invariant that adds that the marks of the
frames grow along the stack and stay within `visited`: without it a rollback could
truncate to a length the list does not have. `CreditsClosedWhenPlain`: at every
moment, whatever has been rolled back, what a credited wrapper, reference or tag
stands for is credited as well, for every schema whose IMPLICIT tags are on types
written out in full. The invariant (`CInv`) says that needs are met by *earlier*
credits, which every truncation keeps; that each open call is a call for what the
frame below needs (`Chained`, `Called`); and that a call that has returned true has
credited its node (`Met`). The hypothesis is necessary: `der_implicit` is the
counterexample without it.

**PrunerProofs.** For every job and every order of iteration: `TypeCorrect`;
`ReferencesSafe` (a kept reference names a kept rule, given counts that satisfy
the node-hit invariant that `HitsClosed` and `CreditsClosedWhenPlain` establish);
`SubgrammarSafe` (the protected subtrees are kept whole, through references);
`RequiredSafe` (every kept node keeps what it cannot do without, a protected one
included; only a sequence below the threshold around a reference to a protected rule
is kept in part, and not without its literals); `OneOutcome` (what is kept does
not depend on the order in which sets are walked). For the last, the protected set is
compared with the least set that is closed under what protection adds: it stays within
every closed set while it grows, because each step adds only what such a set must
hold, and it is closed itself when a sweep ends without a change. `Closure` is
that set written without recursion, as an intersection, so that TLC and the proof use the
same definition. `RequiredSafe` rests on `OneOutcome`, for it has to tell what is kept by
protection from what is kept around it, and on one assumption about `_subtree`
(`SubtreesAreWalks`): it stops when all children of what it has visited are visited, and
what it visits below a node lies below one of its children. That is a fact about a
recursive definition, out of the prover's reach; TLC evaluates it for every AST of the
runs.

**RestoreLoopProofs.** `TypeCorrect`; `NothingIsLost` (no publication prunes what the
one before kept); `EvidenceIsEnough` (a merged proposal's nodes are restored together
with what they stand in). Both rest on the pruner's outcome as a least closed set: a
least closed set grows with the set it starts from, so more protection never prunes
more. The invariant says of every open proposal what it has added to the registry it was
made from (`Added`), and that the registry of today, stale though the proposal may be,
extends that one (`Extends`): so a three-way merge takes nothing away (`MergeExtends`).
It adds that the registry extends the one last published and that what has been found is
recorded (`Recorded`). `CountsNested` is an assumption on a submission's counts: a sample
that uses a node uses the node it stands in, since the recognizer enters a node from there
and nowhere else. It is not proved (`HitsClosed` is about what a node needs, which is the
other direction); TLC evaluates it on the submissions counted by the recognizer
(`RestoreAssumption`). `RestoreLoop` defines what a
publication prunes by `Closure`, which `OneOutcome` shows to be what the pruner ends
with.

**CollectionProofs.** `OneRunDocuments`, `FinishedRunsAgree`, `NothingUnfounded`, for
every number of runs and shards, and every place a run can die. The invariant says what
a run knows at each point of its way (`OnItsWay`: the shards it has written, the parts
it has collected, nothing of another run in its memory) and that what lies in the
directory is no newer than the run that is on its way.

**TelemetryProofs.** `DocumentsPartition`: through any merges and failures the documents
partition the finished shards, each of one grammar. `UsagesAreFractions`: a child is
counted at least as often as what requires it, and no node more often than there are
samples. `ImplementsTally`: every step of the stage is a step of `Tally` or a stutter
under the refinement mapping of `Telemetry`. The invariant (`CountInv`) tells every counter
and every document from the lines that have been read: a total is the number of the
shards' samples so far (`Counted`), a node's count the number of those that credit it
(`BagOf`). In that form the sum of documents is the union of sets of samples without a
common member, whatever the order of the fold (`PartsAddUp`). `ClosedVerdicts`, the
assumption on a parse, is what `HitsClosed` proves.

**CorpusProofs.** *Deduplication.* `KeepsTheFirst`: when the call is done, what has been yielded is the first
`cap` distinct URIs of each domain and every URI without one, each once. `OutputInOrder`:
at every moment, what has been yielded is in order of shard, and within a shard of first
appearance. Neither mentions workers, chunks or an earlier run's files. The invariant has
two halves. While files are written, each lists, in input order, its share of the positions
consumed so far (`Listed`): chunks are consumed in the order they were submitted, whatever
order they end in, and the files are opened anew. While they are reduced, `out`, `seen` and
`kept` are told by the lines read (`Yielded`, `Remembered`): a line is yielded exactly when
its position is the first of its URI and the cap has room, since all URIs of one domain
are in one file.

*Sampler.* For every strata, weights, target, scores and number of shards: `QuotasAddUp`,
`AnyOrderSameCorpus`, `ManifestAndShards` and `SamplerTyped`. The invariant (`SInv`) has
three parts, each with an argument of its own.
*The quotas*: a sum of natural numbers is the number of cells below its graph (`Total`,
`SumIsTotal`), so that facts about sums are facts about finite sets. The fractional parts
are remainders modulo the weight and add up to a multiple of it, which is the number of
leftover units. In the order of remainders exactly that many strata have fewer than that
many before them (`Ranking`), so the units given out are the units left over.
*The heap*: at every moment it is the best of what has arrived, as many as the quota allows
(`IsTop`), and pushing or replacing the worst keeps it so (`Pushed`), equal fractions
included since `Better` is a strict total order on URIs. There is only one such set
(`BestIn`), whatever the order of arrival. *The corpus*: after each stratum it is the join
of the samples of the strata that ended, without a URI twice, and the realized counts
are the samples' lengths (`Sampled`). The files follow from the corpus by the places of
each shard (`Places`, `PlacesOf`). `InOrder`, which sorts, defines the n-th member as the one
with n - 1 before it; `InOrder` and `BestIn` rest on the ranks of a strict total order.

**CtProofs.** `NetworkImplementsPages`: every step of the run over the retrying client
is a step of `CtFetch` or a stutter, so that what is proved of `CtFetch` carries over
(`CorpusOverNetwork`). `ProvenanceIsRange` and `DirectoryIsRange`: the counters are
those of the entries read so far, as a function of the log (`CInv`); every file, an
earlier run's too, is an entry of the range under the number the range gives it
(`Founded`), what this run has kept is written (`Written`), and a finished run has left
nothing beyond (`Ended`): the files it finds are written over with what they hold.
`CallsAsPromised`: the attempts made, the waits and the errors met agree at every moment
of a call.

## 6. What is only model-checked

* Liveness (`Terminates`, `Returns`, `EventuallyComplete`, `RunEnds`): reasoning under
  fairness and about ENABLED is out of the prover's reach.
* What a recursive definition computes (`AbnfParse`, `RefParser`, `Codegen`, the front ends,
  `Tlv`): induction over data cannot be instantiated, and the prover has no arithmetic in
  modules with RECURSIVE operators. Hence `VerdictIsParse`, `CreditsPrecisely`, `KeepsItsPlace`,
  `BytesHoldTheirValues`, `EmittedTextMeansKept`, `EmittedGrammarMeansKept` and
  `ValidatorAcceptsMvs`.
* What the connectors yield (`SourceYieldsItsLinks`: `UriText` and `Sources` are
  recursive over text).

`CreditsPrecisely` and `KeepsItsPlace` compare the walker with a decoder written for the
schemas checked: of a schema in which two readings of the same value exist (an optional
component before another of the same tag) they say nothing.

Where a sum, a fold or a recursive function is needed in a proof, induction is replaced by
its one instance that can be stated: the definition is compared with a closed form that
satisfies the same recursion, and a smallest set on which the two differ
contradicts the step (`SameRecursion` in `TelemetryProofs`).

## 7. Abstractions, and what is not modelled

* An input of the recognizer is a sequence of members of a small character set;
  a literal or a range is matched by membership, as in the code.
* DER bytes: `Tlv` is checked at `TagBits = 16`, with contents of tens of bytes; a
  length is a natural number there (the code's `usize` holds any of four bytes).
  `DerWalker` takes values already cut.
* A text of the front ends is a sequence of lexemes; the spelling of a lexeme (quotes,
  number ranges, hyphens) and the errors raised on malformed text are left out. The
  eight hexadecimal digits of a node's identity are taken to tell paths of a rule apart.
* Decompression, Parquet and JSON decoding are external: a file of `Sources` is the
  sequence of its lines or rows, and the bytes of `Content-Length` are counted in lines.
  `stable_fraction` is a function given as a constant.
* Floats (weights, fractions, the sampler's stable fractions) are naturals or
  fractions of naturals; the sampler's heap is the set of its entries. Rounding is not
  modelled.
* Hashes are functions given as constants, collisions included.
* What a file says is the run or the counts it was computed from; formatting, JSON
  and logging are left out.
* Python exceptions that end a run are one action (`Abort`, `Fail`).

* The rules that refer to a protected rule may be pruned, by design (`pruner.py:159`):
  the model has it so, and no property says otherwise.
* Two CT runs in one directory have the same arguments in `ct`. Certificates that a run
  over a larger range left behind (`ct.py:245` writes, and removes nothing beyond what
  it writes) are outside `DirectoryIsCorpus`.
* What an ingested submission holds enters `RestoreLoop` as its counts.

Not modelled, and why:

* The validator binary: reads one input, calls the reference parser and prints.
* `MvsCertParser`: the deny list of `RefParser` over the walker's credits; the
  same few lines as `MvsTextParser`, which is modelled.
* `corpus.py`: one pass over a file to describe it, a pure function of the file.
* Ingest and API (`ingest.py`, `app.py`): one pass of checks over one archive, nothing
  kept between requests; a model could only restate the checks.
* Argument parsing, entry points, and the grammars, artifacts and documents.

## 8. Plan

Done, in this order: recognizer and its language; pruner, code generator and
reference parser on real counts; telemetry and its refinement; dedup, sampler,
collection; CT over HTTP; restore loop; DER walker; front ends, bytes of DER, sources and
normalization; proofs about the recognizer's
language, the pruner's outcome, the collection, the restore loop, telemetry,
deduplication, the sampler and the CT fetcher. What is left:

1. **Runs with other arguments**: a CT or collection run over a directory that a run
   with another range, seed or shard count has used.
2. **One model from source to document**: `Sources`, `Dedup` and `Sampler` composed with
   `Collection`, so that a manifest's numbers and a document's totals can be compared.
3. **Malformed texts** for the front ends: which errors are raised, and that none is
   taken for the end of the text.
