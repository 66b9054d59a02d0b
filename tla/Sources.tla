------------------------------ MODULE Sources ------------------------------
(***************************************************************************)
(* The collector's sources: what each connector yields from the files it   *)
(* reads.                                                                  *)
(*   "list"   filelist.py     a text file, one URI a line                  *)
(*   "index"  commoncrawl.py  the url column of a parquet file, of which   *)
(*                            ranges are read over HTTP                    *)
(*   "wat"    wat.py          a WARC stream with JSON metadata records     *)
(*   "dump"   wikipedia.py    the SQL dump of the externallinks table      *)
(* A list line and a dump line are sequences of characters.  A WARC stream *)
(* is a sequence of lines, and the bytes that Content-Length counts are    *)
(* counted in lines here; those of a parquet file are counted in rows.     *)
(***************************************************************************)
EXTENDS UriText

CONSTANTS Percentile(_),  \* stable_fraction under the seed of the run, in hundredths
          NoLimit         \* limit = None, and subset = None

SchemeLetters == {"h", "n", "A", "H"}
SchemeChars   == SchemeLetters \cup {"1", "+", "-", "."}
-----------------------------------------------------------------------------
\* A connector for a whole crawl reads a listing of files first: those of the wanted
\* kind, and the first limit of them.
Listed(paths, limit) ==
    IF limit = NoLimit THEN paths ELSE SubSeq(paths, 1, Min({limit, Len(paths)}))

ResolveIndexPaths(listing, subset, limit) ==
    Listed(SelectSeq(listing, LAMBDA k : /\ k.suffix = "parquet"
                                         /\ subset \in {NoLimit, k.subset}), limit)

ResolveWatPaths(listing, limit) ==
    Listed(SelectSeq(listing, LAMBDA k : k.suffix = "wat.gz"), limit)
-----------------------------------------------------------------------------
ListUris(lines) ==
    LET stripped == [i \in DOMAIN lines |-> Strip(lines[i])]
    IN  SelectSeq(stripped, LAMBDA u : u # << >> /\ u[1] # "#")

\* _HttpRangeFile: a position in a remote file of some size.  A read asks for a range
\* of it, both ends included, and moves by as much as came.
Seek(f, offset, whence) ==
    [f EXCEPT !.pos = CASE whence = 0 -> offset
                        [] whence = 1 -> f.pos + offset
                        [] whence = 2 -> f.size + offset]
Served(content, first, last) == SubSeq(content, first + 1, last + 1)
Read(f, nbytes) ==
    LET end  == IF nbytes < 0 THEN f.size ELSE Min({f.pos + nbytes, f.size})
        data == IF end <= f.pos THEN << >> ELSE Served(f.content, f.pos, end - 1)
    IN  [f EXCEPT !.pos = @ + Len(data), !.data = data]
Remote(content) == [content |-> content, size |-> Len(content), pos |-> 0, data |-> << >>]

\* What pyarrow does with it: the footer, which is last, says where the row groups are.
Rows(content) ==
    LET opened == Read(Seek(Remote(content), -1, 2), 1)
        groups == opened.data[1].groups
    IN  FlattenSeq([i \in DOMAIN groups |-> Read(Seek(opened, groups[i].offset, 0), groups[i].rows).data])

IndexUris(content) == SelectSeq(Rows(content), LAMBDA url : url # None)
-----------------------------------------------------------------------------
\* The value of the last header of a name; headers is a dict.
Header(lines, key, default) ==
    LET named == {i \in DOMAIN lines : lines[i].is = "header" /\ lines[i].key = key}
    IN  IF named = {} THEN default ELSE lines[Max(named)].value

\* Mutant of WarcRecords: a body ends at the next line that opens a record.
WarcRecordsByHeuristic(stream) ==
    LET n == Len(stream)
        Next(i, kinds) == Min({j \in i..n : stream[j].is \in kinds} \cup {n + 1})
        from[i \in 1..(n + 1)] ==
            IF i > n THEN << >>
            ELSE IF stream[i].is # "WARC" THEN from[i + 1]
            ELSE LET blank == Next(i + 1, {"blank"})
                     end   == Next(blank, {"WARC"})
                 IN  << [type |-> Header(SubSeq(stream, i + 1, blank - 1), "warc-type", None),
                         body |-> SubSeq(stream, blank + 1, end - 1)] >> \o from[end]
    IN  from[1]

\* _iter_warc_records: lines are skipped up to one that opens a record; its headers
\* end at a blank line, and its body is as long as Content-Length says, whatever it
\* looks like.  At the end of the stream both are as long as what is left.
WarcRecords(stream) ==
    LET n == Len(stream)
        from[i \in 1..(n + 1)] ==
            IF i > n THEN << >>
            ELSE IF stream[i].is # "WARC" THEN from[i + 1]
            ELSE LET blank   == Min({j \in (i + 1)..n : stream[j].is = "blank"} \cup {n + 1})
                     headers == SubSeq(stream, i + 1, blank - 1)
                     end     == Min({blank + Header(headers, "content-length", 0), n})
                 IN  << [type |-> Header(headers, "warc-type", None),
                         body |-> SubSeq(stream, blank + 1, end)] >>
                     \o from[Min({Max({blank, end}) + 1, n + 1})]
    IN  from[1]

\* json.loads and _links_from_wat_payload: a body that is not one whole document has
\* no links.  A link without a url is passed over.
PayloadLinks(body) ==
    LET text == SelectSeq(body, LAMBDA l : l.is # "blank")
        n    == Len(text)
    IN  IF n < 2 \/ (n >= 2 /\ (text[1].is # "open" \/ text[n].is # "close")) THEN << >>
        ELSE LET urls == [i \in 1..(n - 2) |-> text[i + 1].url]
             IN  SelectSeq(urls, LAMBDA u : u \notin {None, << >>})

WatUris(stream) ==
    LET metadata == SelectSeq(WarcRecords(stream), LAMBDA r : r.type = "metadata")
    IN  FlattenSeq([i \in DOMAIN metadata |-> PayloadLinks(metadata[i].body)])
-----------------------------------------------------------------------------
\* What a backslash makes of the character after it.
Unescape(c) == CASE c = "n" -> "\n" [] c = "t" -> "\t" [] OTHER -> c

\* _iter_insert_tuples: the tuples of the text after VALUES, each a sequence of fields.
InsertTuples(text) ==
    LET n == Len(text)
        \* from inside a quoted string: its characters and where it ends
        quoted[i \in 1..(n + 1)] ==
            IF i > n THEN [field |-> << >>, end |-> i]
            ELSE IF text[i] = "\\" /\ i < n
            THEN [quoted[i + 2] EXCEPT !.field = <<Unescape(text[i + 1])>> \o @]
            ELSE IF text[i] = "'" THEN [field |-> << >>, end |-> i + 1]
            ELSE [quoted[i + 1] EXCEPT !.field = <<text[i]>> \o @]
        Bare(i) ==
            LET end   == Min({j \in i..n : text[j] \in {",", ")"}} \cup {n + 1})
                token == Strip(SubSeq(text, i, end - 1))
            IN  [field |-> IF token = <<"NULL">> THEN None ELSE token, end |-> end]
        \* from inside a tuple: the rest of its fields and where it ends
        fields[i \in 1..(n + 1)] ==
            IF i > n \/ (i <= n /\ text[i] = ")") THEN [tuple |-> << >>, end |-> i]
            ELSE LET this == IF text[i] = "'" THEN quoted[i + 1] ELSE Bare(i)
                     next == IF this.end <= n /\ text[this.end] = "," THEN this.end + 1 ELSE this.end
                 IN  [fields[next] EXCEPT !.tuple = <<this.field>> \o @]
        tuples[i \in 1..(n + 1)] ==
            IF i > n THEN << >>
            ELSE IF text[i] # "(" THEN tuples[i + 1]
            ELSE LET this == fields[i + 1]
                 IN  <<this.tuple>> \o tuples[Min({this.end + 1, n + 1})]
    IN  tuples[1]

\* _URL_SHAPE: a scheme and a colon.
UrlShaped(value) ==
    LET scheme == Before(value, {":"})
    IN  /\ Len(scheme) \in 1..(Len(value) - 1)
        /\ scheme[1] \in SchemeLetters
        /\ Range(scheme) \subseteq SchemeChars

\* iter_external_urls; columns are counted from 0.
DumpUris(lines, column) ==
    LET inserts == SelectSeq(lines, LAMBDA l : l.table = "externallinks")
        tuples  == FlattenSeq([i \in DOMAIN inserts |-> InsertTuples(inserts[i].values)])
        present == SelectSeq(tuples, LAMBDA t : column < Len(t) /\ t[column + 1] # None)
    IN  SelectSeq([i \in DOMAIN present |-> present[i][column + 1]], UrlShaped)
-----------------------------------------------------------------------------
KeepSample(uri, rate) == rate >= 100 \/ (rate > 0 /\ Percentile(uri) < rate)

UrisOfFile(kind, content) ==
    CASE kind = "list"  -> ListUris(content)
      [] kind = "index" -> IndexUris(content)
      [] kind = "wat"   -> WatUris(content)
      [] kind = "dump"  -> DumpUris(content, 2)

\* The files that a connector reads: those it is given, or those its listing resolves to.
FilesOf(source) ==
    CASE source.kind = "index" -> ResolveIndexPaths(source.files, "warc", source.limit)
      [] source.kind = "wat"   -> ResolveWatPaths(source.files, source.limit)
      [] OTHER                 -> source.files

\* iter_uris: file after file, sampled.
IterUris(source) ==
    LET files == FilesOf(source)
        uris  == FlattenSeq([i \in DOMAIN files |-> UrisOfFile(source.kind, files[i].content)])
    IN  SelectSeq(uris, LAMBDA u : KeepSample(u, source.rate))
=============================================================================
