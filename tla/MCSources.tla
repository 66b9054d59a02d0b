----------------------------- MODULE MCSources -----------------------------
(* Links with the domains they belong to, and the files that hold them: what *)
(* the writers of the sources (mysqldump, the crawl, a curated list) produce. *)
EXTENDS Sources

\* A list with normal, wildcard and exception rules.
MCPslLines == << <<"/", "/", "k">>, << >>, <<"k">>, <<"c", ".", "k", " ">>,
                 <<"*", ".", "w">>, <<"!", "x", ".", "w">> >>

MCPercentile(uri) == (Len(uri) * 37) % 100

\* Hosts, each with the domain that the list gives it.
Sites == { [host |-> <<"a", ".", "k">>,                domain |-> << <<"a">>, <<"k">> >>],
           [host |-> <<"b", ".", "A", ".", "K", ".">>, domain |-> << <<"a">>, <<"k">> >>],
           [host |-> <<"b", ".", "a", ".", "c", ".", "k">>, domain |-> << <<"a">>, <<"c">>, <<"k">> >>],
           [host |-> <<"c", ".", "k">>,                domain |-> None],
           [host |-> <<"b", ".", "a", ".", "w">>,      domain |-> << <<"b">>, <<"a">>, <<"w">> >>],
           [host |-> <<"a", ".", "w">>,                domain |-> None],
           [host |-> <<"b", ".", "x", ".", "w">>,      domain |-> << <<"x">>, <<"w">> >>],
           [host |-> <<"b", ".", "1">>,                domain |-> << <<"b">>, <<"1">> >>],
           [host |-> <<"[", ":", ":", "1", "]">>,      domain |-> None] }

UserInfos == {<< >>, <<"a", ":", "1", "@">>, <<"a", "@", "b", "@">>}
Ports     == {<< >>, <<":", "1">>}
Tails     == {<< >>, <<"/", "a", "@", "b", ".", "k", ":", "1">>, <<"?", "@", "a">>, <<"#", "/", "'">>}

LinksTo(tails) ==
    {[uri |-> <<"h", ":", "/", "/">> \o user \o site.host \o port \o tail, domain |-> site.domain] :
        user \in UserInfos, port \in Ports, tail \in tails, site \in Sites}

\* Tails with the characters that mean something in a dump.
Awkward == UNION {[1..n -> {"'", "\\", "n", ",", ")"}] : n \in 1..2} \cup
           {<<"'", ")", ",", "(">>, <<"\\", "\\", "'">>}
AwkwardLinks == {[uri |-> <<"h", ":">> \o tail, domain |-> None] : tail \in Awkward}

FewLinks == {[uri |-> <<"h", ":", "/", "/", "a", ".", "k", "/", "'">>, domain |-> << <<"a">>, <<"k">> >>],
             [uri |-> <<"h", ":", "\\", "n">>, domain |-> None]}
-----------------------------------------------------------------------------
Is(kind) == [is |-> kind]
Heading(key, value) == [is |-> "header", key |-> key, value |-> value]
Record(type, body) ==
    <<Is("WARC"), Heading("warc-type", type), Heading("content-length", Len(body)), Is("blank")>>
        \o body \o <<Is("blank"), Is("blank")>>

\* A record of the crawl itself, whose text could be taken for records.
Nuisance == Record("warcinfo", <<Is("blank"), Is("WARC"), Heading("warc-type", "metadata"), Is("blank"),
                                 Is("open"), [is |-> "link", url |-> <<"h", ":", "1">>], Is("close")>>)

Metadata(uri) == Record("metadata", <<Is("open"), Is("blank"), [is |-> "link", url |-> uri],
                                     [is |-> "link", url |-> None], Is("close")>>)
WatRecords(links) ==
    Nuisance \o FlattenSeq([i \in DOMAIN links |-> Metadata(links[i].uri) \o Nuisance])
WatStream(links) == WatRecords(links) \o Record("metadata", <<Is("open"), Is("WARC")>>)

\* How many of the links have their records whole in the first n lines.
WholeRecords(links, n) ==
    Cardinality({i \in DOMAIN links :
                    Len(WatRecords(SubSeq(links, 1, i))) - Len(Nuisance) - 2 <= n})

Escaped(s) ==
    FlattenSeq([i \in DOMAIN s |-> CASE s[i] \in {"'", "\\"} -> <<"\\", s[i]>>
                                     [] s[i] = "\n" -> <<"\\", "n">>
                                     [] OTHER -> <<s[i]>>])
Quote(s) == <<"'">> \o Escaped(s) \o <<"'">>

\* el_id, el_from, el_to, el_index: the index has the shape of a URL too.
Tuple(to) == <<"(", "1", ",", "NULL", ",">> \o to \o <<",">> \o Quote(<<"h", ":", ")", "1">>) \o <<")", ",">>
DumpLines(links) ==
    LET tuples == FlattenSeq([i \in DOMAIN links |-> Tuple(Quote(links[i].uri))])
    IN  << [table |-> "page", values |-> Tuple(Quote(<<"h", ":", "1">>))],
           [table |-> "externallinks", values |-> Tuple(<<"NULL">>) \o tuples \o Tuple(<<"1">>) \o <<";">>] >>

ListLines(links) ==
    << <<"#", "h", ":">>, <<" ", "\n">> >> \o
        [i \in DOMAIN links |-> <<" ">> \o links[i].uri \o <<" ", "\n">>]

\* Two row groups and the footer.
IndexFile(links) ==
    LET rows == [i \in DOMAIN links |-> links[i].uri]
    IN  <<None>> \o rows \o <<None>>
        \o << [groups |-> <<[offset |-> 0, rows |-> 1], [offset |-> 1, rows |-> Len(rows) + 1]>>] >>

Holding(kind, links) == CASE kind = "list"  -> ListLines(links)
                          [] kind = "index" -> IndexFile(links)
                          [] kind = "wat"   -> WatStream(links)
                          [] kind = "dump"  -> DumpLines(links)

\* The first link in one file, the others in the next; a third is beyond the limit.
Entry(kind, links) == [subset |-> "warc", content |-> Holding(kind, links),
                       suffix |-> IF kind = "index" THEN "parquet" ELSE "wat.gz"]
SourceOf(kind, links, rate) ==
    LET first == SubSeq(links, 1, 1)
        rest  == Tail(links)
        other == [Entry(kind, links) EXCEPT !.subset = "robotstxt",
                     !.suffix = IF kind = "index" THEN "parquet" ELSE "wet.gz"]
        files == IF kind \in {"index", "wat"}
                 THEN <<other, Entry(kind, first), Entry(kind, rest), Entry(kind, links)>>
                 ELSE <<Entry(kind, first), Entry(kind, rest)>>
    IN  [kind |-> kind, limit |-> 2, rate |-> rate, files |-> files]

\* One WAT file that ends after n lines.
CutWat(links, n) ==
    [kind |-> "wat", limit |-> NoLimit, rate |-> 100,
     files |-> << [Entry("wat", links) EXCEPT !.content = SubSeq(@, 1, n)] >>]
=============================================================================
