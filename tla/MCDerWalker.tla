----------------------------- MODULE MCDerWalker -----------------------------
(***************************************************************************)
(* Small schemas and values for DerWalker, and the properties that compare *)
(* a walk with what ASN.1 itself says of the value.                        *)
(***************************************************************************)
EXTENDS DerWalker, Tlv, TLC

Nd(kind, name, children) == [kind |-> kind, name |-> name, children |-> children]
Leaf(name)       == Nd("terminal", name, << >>)
Rule(name, body) == Nd("rule", name, <<body>>)
Field(name, c)   == Nd("named-type", name, <<c>>)
Optn(c)          == Nd("optional", "OPTIONAL", <<c>>)
Tag(num, mode, c) == Nd("tag", [num |-> num, mode |-> mode], <<c>>)

\* C ::= SEQUENCE { v [0] EXPLICIT INTEGER DEFAULT, s N, u [1] IMPLICIT OCTET STRING OPTIONAL }
\* N ::= CHOICE { p UTF8String, i INTEGER }                       (a small certificate)
Choice == ("fs" :> Field("s", "sr")) @@ ("sr" :> Nd("reference", "N", << >>))
          @@ ("N" :> Rule("N", "nc")) @@ ("nc" :> Nd("alternation", "CHOICE", <<"np", "ni">>))
          @@ ("np" :> Field("p", "npt")) @@ ("npt" :> Nd("string-type", "UTF8String", << >>))
          @@ ("ni" :> Field("i", "nit")) @@ ("nit" :> Leaf("INTEGER"))
Fields == ("C" :> Rule("C", "cs")) @@ ("cs" :> Nd("sequence", "SEQUENCE", <<"fv", "fs", "fu">>))
          @@ ("fv" :> Field("v", "vo")) @@ ("vo" :> Optn("vt"))
          @@ ("fu" :> Field("u", "uo")) @@ ("uo" :> Optn("ut")) @@ Choice
Inline == ("vt" :> Tag(0, "EXPLICIT", "vi")) @@ ("vi" :> Leaf("INTEGER"))
ById   == ("vt" :> Tag(0, "EXPLICIT", "vr")) @@ ("vr" :> Nd("reference", "V", << >>))
          @@ ("V" :> Rule("V", "vi")) @@ ("vi" :> Leaf("INTEGER"))
OctetField == ("ut" :> Tag(1, "IMPLICIT", "uy")) @@ ("uy" :> Leaf("OCTET STRING"))
Cert   == [root |-> "C", nodes |-> Fields @@ OctetField @@ Inline]
\* With v [0] EXPLICIT V, V ::= INTEGER: the walk of v is one call too deep for MaxDepth 7.
CertDeep == [root |-> "C", nodes |-> Fields @@ OctetField @@ ById]
\* With u [1] IMPLICIT U, U ::= OCTET STRING, as RFC 5280 has it.
CertById == [root |-> "C", nodes |-> Fields @@ Inline @@ ("ut" :> Tag(1, "IMPLICIT", "ur"))
                                            @@ ("ur" :> Nd("reference", "U", << >>))
                                            @@ ("U" :> Rule("U", "uy"))
                                            @@ ("uy" :> Leaf("OCTET STRING"))]

\* T ::= CHOICE { l INTEGER, s SEQUENCE OF T }     (a type that contains itself)
Nested == [root |-> "T", nodes |-> ("T" :> Rule("T", "tc"))
             @@ ("tc" :> Nd("alternation", "CHOICE", <<"fl", "fs">>))
             @@ ("fl" :> Field("l", "l")) @@ ("l" :> Leaf("INTEGER"))
             @@ ("fs" :> Field("s", "so"))
             @@ ("so" :> Nd("repetition", "SEQUENCE OF", <<"tr">>))
             @@ ("tr" :> Nd("reference", "T", << >>))]

\* SEQUENCE { a INTEGER, s N, l SEQUENCE OF INTEGER, z ANY }
Required ==
    [root |-> "C", nodes |-> ("C" :> Rule("C", "cs"))
        @@ ("cs" :> Nd("sequence", "SEQUENCE", <<"fa", "fs", "fl", "fz">>))
        @@ ("fa" :> Field("a", "at")) @@ ("at" :> Leaf("INTEGER"))
        @@ ("fl" :> Field("l", "ls")) @@ ("ls" :> Nd("repetition", "SEQUENCE OF", <<"lt">>))
        @@ ("lt" :> Leaf("INTEGER"))
        @@ ("fz" :> Field("z", "zt")) @@ ("zt" :> Leaf("ANY")) @@ Choice]

MCAsts     == {Cert, CertDeep, Nested, Required}
MCImplicit == {CertById}
-----------------------------------------------------------------------------
Cut(items)  == [items |-> items, torn |-> FALSE]
Torn(items) == [items |-> items, torn |-> TRUE]
Val(class, constructed, tag, content) ==
    [class |-> class, constructed |-> constructed, tag |-> tag, content |-> content]
Num      == Val(0, FALSE, 2, Torn(<< >>))
Utf8     == Val(0, FALSE, 12, Torn(<< >>))
Ia5      == Val(0, FALSE, 22, Cut(<< >>))
Uid      == Val(2, FALSE, 1, Torn(<< >>))
Ctx0(c)  == Val(2, TRUE, 0, c)
Body(c)  == Val(0, TRUE, 16, c)

Parts == {Num, Utf8, Ia5, Uid, Ctx0(Cut(<<Num>>)), Ctx0(Cut(<<Utf8>>)), Ctx0(Torn(<< >>)),
          Body(Cut(<<Num>>))}
Bodies == {Body(Cut(s)) : s \in UNION {[1..n -> Parts] : n \in 0..3}}
          \cup {Body(Torn(s)) : s \in UNION {[1..n -> Parts] : n \in 0..1}}
Nests == {Body(Cut(<<b, Num>>)) : b \in {Body(Cut(s)) : s \in UNION {[1..n -> Parts] : n \in 0..1}}}
\* Values with a tag number of more than five bits.
High  == {Val(2, c, tag, Torn(<< >>)) : c \in BOOLEAN, tag \in {31, 200, 2^TagBits - 1}}
MCTlvs   == Parts \cup Bodies \cup Nests \cup High
MCInputs == {Cut(<<t>>) : t \in MCTlvs} \cup {Torn(<<Body(Cut(<<Num>>))>>), Torn(<< >>),
                                              Cut(<< >>), Cut(<<Body(Cut(<<Num>>)), Num>>)}
-----------------------------------------------------------------------------
(***************************************************************************)
(* ASN.1: the ways a value t is of type n, each given by the nodes used.   *)
(***************************************************************************)
\* An implicitly tagged value, with the tag its type has by itself.
RECURSIVE Untagged(_, _)
Untagged(n, t) ==
    CASE Kind(n) \in Wrapping \cup {"reference"} -> Untagged(Target(n), t)
      [] Kind(n) \in {"sequence", "repetition"} ->
            [t EXCEPT !.class = 0, !.tag = BodyTag(ast.nodes[n].name)]
      [] OTHER -> [t EXCEPT !.class = 0,
                   !.tag = CHOOSE g \in TagsOf(StringTags \cup TerminalTags, ast.nodes[n].name) : TRUE]

Joins(xs, ys) == {x \cup y : x \in xs, y \in ys}

RECURSIVE Derivations(_, _)
RECURSIVE Components(_, _)
RECURSIVE Elements(_, _)
\* The components cs taken by the values ts in order, optional ones possibly missing.
Components(cs, ts) ==
    IF cs = << >> THEN IF ts = << >> THEN {{}} ELSE {}
    ELSE (IF ts = << >> THEN {}
          ELSE Joins(Derivations(Head(cs), Head(ts)), Components(Tail(cs), Tail(ts))))
         \cup (IF IsOptional(Head(cs)) THEN Components(Tail(cs), ts) ELSE {})
Elements(c, ts) == IF ts = << >> THEN {{}}
                   ELSE Joins(Derivations(c, Head(ts)), Elements(c, Tail(ts)))
Derivations(n, t) ==
    LET with(xs) == Joins({{n}}, xs)
    IN  IF ~ Fits(n, t) THEN {}
        ELSE CASE Kind(n) \in Wrapping \cup {"reference"} -> with(Derivations(Target(n), t))
               [] Kind(n) = "sequence" ->
                     IF t.content.torn THEN {} ELSE with(Components(Kids(n), t.content.items))
               [] Kind(n) = "repetition" ->
                     IF t.content.torn THEN {} ELSE with(Elements(Kids(n)[1], t.content.items))
               [] Kind(n) = "alternation" ->
                     with(UNION {Derivations(c, t) : c \in Range(Kids(n))})
               [] Kind(n) = "tag" ->
                     IF ~ IsExplicit(n, t) THEN with(Derivations(Kids(n)[1], Untagged(Kids(n)[1], t)))
                     ELSE IF t.content.torn \/ Len(t.content.items) # 1 THEN {}
                     ELSE with(Derivations(Kids(n)[1], t.content.items[1]))
               [] OTHER -> {{n}}

\* docs/telemetry.md: "it credits modeled fields precisely".  A value of the schema's
\* type is matched, and the nodes credited are those it uses, unless the walk hit the
\* depth bound.
CreditsPrecisely ==
    Returned /\ ~ depth_exceeded /\ Len(input.items) = 1 /\ ~ input.torn =>
        LET of == Derivations(ast.root, input.items[1])
        IN  of # {} => Matched /\ VisitedNodes \in of

\* der.rs: it "consumes the value and keeps its place rather than failing the whole
\* certificate".  In a SEQUENCE without optional components, every component whose value
\* is of its type is credited in full, whatever the other values are.
RootBody == Target(ast.root)
KeepsItsPlace ==
    /\ Walked /\ ~ depth_exceeded /\ Kind(RootBody) = "sequence"
    /\ \A c \in Range(Kids(RootBody)) : ~ IsOptional(c)
    => LET cs == Kids(RootBody)
           ts == input.items[1].content.items
       IN  \A i \in 1..Len(cs) : i <= Len(ts) =>
              LET of == Derivations(cs[i], ts[i])
              IN  of # {} => \E used \in of : used \subseteq VisitedNodes
-----------------------------------------------------------------------------
(***************************************************************************)
(* Bytes.                                                                  *)
(***************************************************************************)
\* The digits of n in a base, most significant first, at least k of them.
RECURSIVE Digits(_, _, _)
Digits(n, base, k) ==
    IF n = 0 /\ k <= 0 THEN << >> ELSE Append(Digits(n \div base, base, k - 1), n % base)

\* The encoding of a value and of a buffer: form 0 gives lengths in the shortest way,
\* form k in the long form with at least k bytes; scrap is what a torn buffer ends with.
TagOctets(t) ==
    LET first  == 64 * t.class + (IF t.constructed THEN 32 ELSE 0)
        digits == Digits(t.tag, 128, 1)
    IN  IF t.tag < 31 THEN <<first + t.tag>>
        ELSE <<first + 31>> \o [d \in DOMAIN digits |->
                                   IF d < Len(digits) THEN 128 + digits[d] ELSE digits[d]]
LengthOctets(n, form) ==
    LET digits == Digits(n, 256, form)
    IN  IF form = 0 /\ n < 128 THEN <<n>> ELSE <<128 + Len(digits)>> \o digits
RECURSIVE Octets(_, _, _)
Octets(buf, scrap, form) ==
    FlattenSeq([i \in DOMAIN buf.items |->
        LET content == Octets(buf.items[i].content, scrap, form)
        IN  TagOctets(buf.items[i]) \o LengthOctets(Len(content), form) \o content])
    \o (IF buf.torn THEN scrap ELSE << >>)

\* The values read_tlv cuts a buffer into, and their contents, at every depth.
RECURSIVE CutUp(_)
CutUp(input_bytes) ==
    LET t    == ReadTlv(input_bytes)
        rest == CutUp(SubSeq(input_bytes, t.total + 1, Len(input_bytes)))
    IN  IF t = None THEN [items |-> << >>, torn |-> input_bytes # << >>]
        ELSE [rest EXCEPT !.items =
                <<Val(t.class, t.constructed, t.tag, CutUp(t.content))>> \o @]

\* A tag alone, a value cut short, an indefinite length, one of five bytes, and a tag
\* that goes on for longer than a short length can say.
Layouts == {<< <<5>>, 0>>, << <<4, 2, 9>>, 1>>, << <<36, 128, 0, 0>>, 4>>,
            << <<4, 133, 0, 0, 0, 0, 0>>, 0>>, << [i \in 1..130 |-> 255], 0>>}

\* What the walk is given is what the bytes hold: however a buffer is written, its values
\* are found again, at every depth, each with its class, tag and content, and bytes that
\* are no value end it (read_tlv, der.rs; checked where a walk starts).
BytesHoldTheirValues ==
    stack = << >> /\ ctl.op = "type" =>
        \A l \in Layouts : CutUp(Octets(input, l[1], l[2])) = input
=============================================================================
