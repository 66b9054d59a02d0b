------------------------------ MODULE UriText ------------------------------
(***************************************************************************)
(* What the collector reads off the text of a URI: the normalized URI      *)
(* (normalize_uri), its host (host_of) and the registrable domain of the   *)
(* host under the Public Suffix List (psl.py).  A text is a sequence of    *)
(* characters; only the characters that the code tells apart occur.        *)
(***************************************************************************)
EXTENDS Integers, Sequences, FiniteSets, SequencesExt

CONSTANTS None,      \* Python's None
          PslLines   \* the lines of public_suffix_list.dat

White   == {" ", "\t", "\n"}
Control == {"\t", "\n", "DEL"}
Lower   == [A |-> "a", H |-> "h", K |-> "k"]

-----------------------------------------------------------------------------
\* str.strip and str.rstrip, of a set of characters.
RStrip(s, chars) ==
    LET kept == {i \in DOMAIN s : s[i] \notin chars}
    IN  IF kept = {} THEN << >> ELSE SubSeq(s, 1, Max(kept))
LStrip(s, chars) == Reverse(RStrip(Reverse(s), chars))
Strip(s)         == LStrip(RStrip(s, White), White)

\* str.split(sep) of a one-character separator.
Split(s, sep) ==
    FoldLeft(LAMBDA parts, c : IF c = sep THEN Append(parts, << >>)
                               ELSE [parts EXCEPT ![Len(parts)] = Append(@, c)],
             << << >> >>, s)

\* The part of a text before the first character of a set.
Before(s, chars) ==
    LET found == {i \in DOMAIN s : s[i] \in chars}
    IN  IF found = {} THEN s ELSE SubSeq(s, 1, Min(found) - 1)
-----------------------------------------------------------------------------
NormalizeUri(value) ==
    LET cleaned == SelectSeq(Strip(value), LAMBDA c : c \notin Control)
    IN  IF cleaned = << >> THEN None ELSE cleaned

\* The authority ends at the first of '/', '?' and '#'; userinfo goes to its last '@',
\* and a port starts at the first ':' after that.
HostOf(uri) ==
    LET seps == {i \in 1..(Len(uri) - 2) : SubSeq(uri, i, i + 2) = <<":", "/", "/">>}
    IN  IF seps = {} THEN None
        ELSE LET authority == Before(SubSeq(uri, Min(seps) + 3, Len(uri)), {"/", "?", "#"})
                 server == Last(Split(authority, "@"))
                 host   == Before(server, {":"})
             IN  IF host = << >> \/ host[1] = "[" THEN None ELSE host
-----------------------------------------------------------------------------
\* A rule of the list: its labels, and whether it is an exception.
Rules ==
    LET lines == {Strip(PslLines[i]) : i \in DOMAIN PslLines}
        used  == {l \in lines : l # << >> /\ ~IsPrefix(<<"/", "/">>, l)}
        IsException(l) == l[1] = "!"
    IN  {[labels    |-> Split(IF IsException(l) THEN Tail(l) ELSE l, "."),
          exception |-> IsException(l)] : l \in used}

LastN(s, n) == SubSeq(s, Len(s) - n + 1, Len(s))

\* _match_len: the length in labels of the public suffix.  Rules are looked up by
\* their last label; '*' stands for any label.
MatchLen(labels) ==
    LET Applies(r) ==
            /\ Last(r.labels) = Last(labels)
            /\ Len(r.labels) <= Len(labels)
            /\ LET end == LastN(labels, Len(r.labels))
               IN  \A i \in DOMAIN end : r.labels[i] \in {<<"*">>, end[i]}
        matching   == {r \in Rules : Applies(r)}
        exceptions == {Len(r.labels) - 1 : r \in {x \in matching : x.exception}} \ {0}
        others     == {Len(r.labels) : r \in {x \in matching : ~x.exception}}
    IN  IF exceptions # {} THEN Max(exceptions)
        ELSE IF others # {} THEN Max(others) ELSE 1

\* registrable_domain: the public suffix and the label below it.
RegistrableDomain(host) ==
    LET text   == RStrip(Strip(host), {"."})
        folded == [i \in DOMAIN text |-> IF text[i] \in DOMAIN Lower THEN Lower[text[i]] ELSE text[i]]
        labels == Split(folded, ".")
    IN  IF \/ << >> \in Range(labels)
           \/ Range(folded) \cap {":", "/"} # {}
           \/ Len(labels) <= MatchLen(labels)
        THEN None
        ELSE LastN(labels, MatchLen(labels) + 1)

\* The bucket that _classify puts a normalized URI into.
DomainOf(uri) == LET host == HostOf(uri)
                 IN  IF host = None THEN None ELSE RegistrableDomain(host)
=============================================================================
