------------------------------ MODULE MCDedup ------------------------------
(* Small sources for Dedup: lists of two spellings of one URI, three URIs of *)
(* one domain, one of another, one without a domain, one that is dropped;    *)
(* and sources of all kinds with one or two links, read from their files.    *)
EXTENDS Dedup, MCSources

AK    == << <<"a">>, <<"k">> >>
Named == [u1    |-> [uri |-> <<"h", ":", "/", "/", "a", ".", "k">>, domain |-> AK],
          u1b   |-> [uri |-> <<" ", "h", ":", "/", "/", "a", "DEL", ".", "k", "\t">>, domain |-> AK],
          u2    |-> [uri |-> <<"h", ":", "/", "/", "b", ".", "a", ".", "k", "/", "1">>, domain |-> AK],
          u3    |-> [uri |-> <<"h", ":", "/", "/", "A", ".", "k", ".", ":", "1">>, domain |-> AK],
          v1    |-> [uri |-> <<"h", ":", "/", "/", "a", ".", "w", ".", "k">>,
                     domain |-> << <<"w">>, <<"k">> >>],
          m1    |-> [uri |-> <<"h", ":", "a", "@", "a", ".", "k">>, domain |-> None],
          blank |-> [uri |-> <<" ", "\t">>, domain |-> None]]
Names == DOMAIN Named

NamedInputs == UNION {[1..n -> Names] : n \in 0..3} \cup
               {<<"u1", "u2", "u1b", "u3">>, <<"u1", "u1b", "u2", "v1">>, <<"m1", "v1", "u3", "m1">>,
                <<"u2", "blank", "u1", "u3">>, <<"v1", "u1", "u2", "u1b">>}

\* A run whose input is read from a source that was written to hold the links.
Reading(source, links, cap, shards) ==
    [input |-> IterUris(source), cap |-> cap, shards |-> shards, workers |-> 1,
     links |-> links, rate |-> source.rate]
Given(names, cap, shards, workers) ==
    LET links == [i \in DOMAIN names |-> Named[names[i]]]
    IN  [input |-> [i \in DOMAIN links |-> links[i].uri], cap |-> cap, shards |-> shards,
         workers |-> workers, links |-> links, rate |-> 100]

GivenRuns == {Given(i, c, 2, w) : i \in NamedInputs, c \in {NoCap, 1, 2}, w \in {1, 2}} \cup
             {Given(i, 2, s, 3) : i \in {j \in NamedInputs : Len(j) = 4}, s \in {1, 3}}

Kinds == {"list", "index", "wat", "dump"}
Single(kind, link) == Reading(SourceOf(kind, <<link>>, 100), <<link>>, 1, 1)
Pair(kind, links, rate) == Reading(SourceOf(kind, links, rate), links, 1, 2)
Pairs == FewLinks \X FewLinks
LinkRuns == {Single("index", l) : l \in LinksTo(Tails)} \cup
            {Single(k, l) : k \in Kinds, l \in AwkwardLinks} \cup
            {Pair(k, p, r) : k \in Kinds, p \in Pairs, r \in {0, 50, 100}} \cup
            UNION {{Reading(CutWat(p, n), SubSeq(p, 1, WholeRecords(p, n)), 1, 1) :
                        n \in 0..Len(WatStream(p))} : p \in Pairs}
MCRuns == GivenRuns \cup LinkRuns

\* Every link, and what the text of a nuisance could be taken for.
MCRaw     == {l.uri : l \in LinksTo(Tails) \cup AwkwardLinks \cup FewLinks \cup Range(Named)}
                 \cup {<<"h", ":", "1">>}
MCNormal  == [r \in MCRaw |-> NormalizeUri(r)]
MCBucket  == [u \in Range(MCNormal) \ {None} |-> DomainOf(u)]
MCDomains == Range(MCBucket) \ {None}
\* Of two shards, a.k and w.k share one and NoDomain has the other; of three, each has its own.
MCDigest  == [d \in MCDomains \cup {None} |->
                 CASE d = None -> 1 [] d = AK -> 0 [] OTHER -> 2]

MCLeftovers == {[i \in 0..2 |-> << >>], [i \in 0..2 |-> << <<AK, Named["u2"].uri>> >>]}
-----------------------------------------------------------------------------
\* commoncrawl.py, wat.py, wikipedia.py, filelist.py: a source yields every link that
\* its files hold, in their order, unchanged, and nothing else: not the text of
\* other WARC records or tables, not the columns beside the URL, and of a WARC stream
\* that ends early the links of its whole records.  normalize.py, psl.py: a link
\* counts against the domain its host belongs to, however its userinfo, port,
\* case and path look.
SourceYieldsItsLinks ==
    phase = "new" =>
        LET held == SelectSeq(run.links, LAMBDA l : KeepSample(l.uri, run.rate))
        IN  /\ run.input = [i \in DOMAIN held |-> held[i].uri]
            /\ \A i \in DOMAIN held : LET uri == Normal[held[i].uri]
                                      IN  uri # NoUri => Bucket[uri] = held[i].domain
=============================================================================
