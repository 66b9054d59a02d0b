----------------------------- MODULE Asn1Reader -----------------------------
(***************************************************************************)
(* The ASN.1 front end (asn1.py): a module text becomes rules.             *)
(*                                                                         *)
(* A text is a sequence of lines, a line a sequence of token texts; the    *)
(* name of a construct is the sequence of the tokens it is written with,   *)
(* <<"OCTET", "STRING">> or <<"[", "0", "]", "EXPLICIT">>.                 *)
(***************************************************************************)
EXTENDS AstBuild

Marks       == {"{", "}", "[", "]", "(", ")", ",", ";", "::=", ".."}
NumberTexts == {"0", "1", "2", "3"}
StringTypes == {"UTF8String", "PrintableString", "IA5String", "TeletexString", "T61String",
                "UniversalString", "BMPString", "NumericString", "VisibleString",
                "GeneralString", "GraphicString", "VideotexString", "ISO646String"}
Primitives  == {"INTEGER", "BOOLEAN", "NULL", "UTCTime", "GeneralizedTime", "REAL", "ENUMERATED"}
TwoWords    == {<<"BIT", "STRING">>, <<"OCTET", "STRING">>, <<"OBJECT", "IDENTIFIER">>}

\* _tokenize: anything that is neither a mark nor a number is a word here.
IsWord(t) == t \notin Marks \cup NumberTexts \cup {"end"}

\* _strip_comments: a comment ends at the next "--" or with its line.
Uncommented(line) ==
    LET Step(r, t) == IF t = "--" THEN [r EXCEPT !.inside = ~ @]
                      ELSE IF r.inside THEN r ELSE [r EXCEPT !.kept = Append(@, t)]
    IN  FoldLeft(Step, [inside |-> FALSE, kept |-> << >>], line).kept
-----------------------------------------------------------------------------
(***************************************************************************)
(* _Parser, on the tokens s from position i.                               *)
(***************************************************************************)
RECURSIVE TypeAt(_, _), Components(_, _)

At(s, i) == IF i \in DOMAIN s THEN s[i] ELSE "end"

\* _skip_braced, _skip_constraint: the position after a balanced block, if one opens at i;
\* 0 if it never closes.
Skip(s, i, open, close) ==
    LET Depth(j) == Cardinality({k \in i..j : s[k] = open}) - Cardinality({k \in i..j : s[k] = close})
        ends     == {j \in i..Len(s) : Depth(j) = 0}
    IN  IF At(s, i) # open THEN i ELSE IF ends = {} THEN 0 ELSE Min(ends) + 1

SkipConstraint(s, i) == Skip(s, i, "(", ")")

Leaf(kind, name, at) == IF at = 0 THEN Raised ELSE Read(<<Elem(kind, name, << >>)>>, at)

\* _tagged: everything up to the bracket is the tag.
Tagged(s, i) ==
    LET closing == {k \in (i + 1)..Len(s) : s[k] = "]"}
        close   == Min(closing)
        last    == IF At(s, close + 1) \in {"IMPLICIT", "EXPLICIT"} THEN close + 1 ELSE close
    IN  IF closing = {} THEN Raised
        ELSE Wrapped("tag", SubSeq(s, i, last), TypeAt(s, last + 1))

SequenceOrSet(s, i) ==
    LET next == SkipConstraint(s, i + 1)
        list == Components(s, next + 1)
    IN  IF next = 0 THEN Raised
        ELSE IF At(s, next) = "OF"
        THEN Wrapped("repetition", <<s[i], "OF">>, TypeAt(s, next + 1))
        ELSE IF At(s, next) # "{" \/ list.at = 0 THEN Raised
        ELSE Read(<<Elem("sequence", <<s[i]>>, list.got)>>, list.at)

Choice(s, i) ==
    LET list == Components(s, i + 2)
    IN  IF At(s, i + 1) # "{" \/ list.at = 0 THEN Raised
        ELSE Read(<<Elem("alternation", <<"CHOICE">>, list.got)>>, list.at)

TypeAt(s, i) ==
    LET t == At(s, i)
    IN  CASE t = "["                  -> Tagged(s, i)
          [] t \in {"SEQUENCE", "SET"} -> SequenceOrSet(s, i)
          [] t = "CHOICE"             -> Choice(s, i)
          [] t = "ANY"                ->
               IF At(s, i + 1) # "DEFINED" THEN Leaf("terminal", <<t>>, i + 1)
               ELSE IF At(s, i + 2) # "BY" \/ i + 3 > Len(s) THEN Raised
               ELSE Leaf("terminal", <<t>>, i + 4)
          [] t \in {w[1] : w \in TwoWords} ->
               LET braced == IF t = "BIT" THEN Skip(s, i + 2, "{", "}") ELSE i + 2
               IN  IF <<t, At(s, i + 1)>> \notin TwoWords \/ braced = 0 THEN Raised
                   ELSE Leaf("terminal", <<t, s[i + 1]>>,
                             IF t = "OBJECT" THEN braced ELSE SkipConstraint(s, braced))
          [] t = "INTEGER"            ->
               LET braced == Skip(s, i + 1, "{", "}")
               IN  IF braced = 0 THEN Raised
                   ELSE Leaf("terminal", <<t>>, SkipConstraint(s, braced))
          [] t \in StringTypes        -> Leaf("string-type", <<t>>, SkipConstraint(s, i + 1))
          [] t \in Primitives \ {"INTEGER"} -> Leaf("terminal", <<t>>, SkipConstraint(s, i + 1))
          [] OTHER                    ->
               IF IsWord(t) THEN Leaf("reference", <<t>>, SkipConstraint(s, i + 1)) ELSE Raised

\* _component: a field, OPTIONAL or with a DEFAULT of one token.
Component(s, i) ==
    LET type == TypeAt(s, i + 1)
        more == At(s, type.at)
        opt  == CASE more = "OPTIONAL" -> Wrapped("optional", <<more>>, [type EXCEPT !.at = @ + 1])
                  [] more = "DEFAULT"  -> Wrapped("optional", <<more>>, [type EXCEPT !.at = @ + 2])
                  [] OTHER             -> type
    IN  IF ~ IsWord(At(s, i)) \/ type.at = 0 \/ opt.at > Len(s) + 1 THEN Raised
        ELSE Wrapped("named-type", <<s[i]>>, opt)

\* _component_list, after its brace; the commas are not insisted on.
Components(s, i) ==
    LET one  == Component(s, i)
        rest == Components(s, IF At(s, one.at) = "," THEN one.at + 1 ELSE one.at)
    IN  IF At(s, i) = "}" THEN Read(<< >>, i + 1)
        ELSE IF one.at = 0 \/ rest.at = 0 THEN Raised
        ELSE Read(one.got \o rest.got, rest.at)
-----------------------------------------------------------------------------
(***************************************************************************)
(* parse_module.                                                           *)
(***************************************************************************)
\* The assignments up to END: their names, which must differ, and types.
RECURSIVE Assignments(_, _, _)
Assignments(s, i, rules) ==
    LET type == TypeAt(s, i + 2)
    IN  IF At(s, i) \in {"end", "END"} THEN rules
        ELSE IF \/ ~ IsWord(At(s, i)) \/ At(s, i + 1) # "::=" \/ type.at = 0
                \/ \E k \in DOMAIN rules : rules[k].name = <<s[i]>>
        THEN << >>
        ELSE Assignments(s, type.at, Append(rules, [name |-> <<s[i]>>, body |-> type.got[1]]))

\* IMPORTS and EXPORTS, each up to its semicolon.
RECURSIVE SkipClauses(_, _)
SkipClauses(s, i) ==
    IF At(s, i) \notin {"IMPORTS", "EXPORTS"} THEN i
    ELSE SkipClauses(s, Min({k \in i..Len(s) : s[k] = ";"} \cup {Len(s)}) + 1)

\* What is before BEGIN is not looked at.  build_ast assembles the rules.
ParseRules(text) ==
    LET s      == FlattenSeq([l \in DOMAIN text |-> Uncommented(text[l])])
        begins == {k \in DOMAIN s : s[k] = "BEGIN"}
    IN  IF begins = {} THEN << >>
        ELSE Assignments(s, SkipClauses(s, Min(begins) + 1), << >>)
=============================================================================
