----------------------------- MODULE AbnfReader -----------------------------
(***************************************************************************)
(* The ABNF front end (abnf.py): a grammar text becomes rules.             *)
(*                                                                         *)
(* A text is a sequence of lines [indented, lexemes].  A lexeme is [t, v]: *)
(* a rule name, a repeat, a value (char-val, num-val or prose-val, as a    *)
(* whole: what it holds is no lexeme), or a mark of its own: "=", "=/",    *)
(* "/", a bracket, and ";", which starts a comment.  White space between   *)
(* the lexemes of a line has no meaning, also not after a repeat.          *)
(***************************************************************************)
EXTENDS AstBuild

Mark(t)    == [t |-> t, v |-> ""]
Lx(t, v)   == [t |-> t, v |-> v]
-----------------------------------------------------------------------------
(***************************************************************************)
(* Lines.                                                                  *)
(***************************************************************************)
\* _strip_comments_line
Uncommented(line) ==
    LET comments == {k \in DOMAIN line.lexemes : line.lexemes[k].t = ";"}
    IN  IF comments = {} THEN line.lexemes ELSE SubSeq(line.lexemes, 1, Min(comments) - 1)

\* _looks_like_rule_head, on a line that starts in the first column.
IsHead(line) == /\ ~ line.indented
                /\ Len(line.lexemes) >= 2
                /\ line.lexemes[1].t = "name"
                /\ line.lexemes[2].t \in {"=", "=/"}

\* _split_rules: a line that is no head continues the rule before it.
AddLine(rules, line) ==
    IF IsHead(line)
    THEN Append(rules, [name |-> line.lexemes[1].v, assign |-> line.lexemes[2].t,
                        elements |-> SubSeq(line.lexemes, 3, Len(line.lexemes))])
    ELSE [rules EXCEPT ![Len(rules)].elements = @ \o line.lexemes]
-----------------------------------------------------------------------------
(***************************************************************************)
(* _ElementParser, on the lexemes s from position i.                       *)
(***************************************************************************)
RECURSIVE Alternatives(_, _), Items(_, _), Element(_, _)

\* A single part stands for itself.
Parts(kind, elems) == IF Len(elems) = 1 THEN elems[1] ELSE Elem(kind, kind, elems)

At(s, i) == IF i \in DOMAIN s THEN s[i].t ELSE "end"

Alternatives(s, i) ==
    LET one  == Items(s, i)
        alt  == <<Parts("sequence", one.got)>>
        rest == Alternatives(s, one.at + 1)
    IN  IF one.at = 0 \/ one.got = << >> THEN Raised
        ELSE IF At(s, one.at) # "/" THEN Read(alt, one.at)
        ELSE IF rest.at = 0 THEN Raised
        ELSE Read(alt \o rest.got, rest.at)

Alternation(s, i) ==
    LET r == Alternatives(s, i)
    IN  IF r.at = 0 THEN Raised ELSE Read(<<Parts("alternation", r.got)>>, r.at)

Repetition(s, i) ==
    IF At(s, i) = "repeat" THEN Wrapped("repetition", s[i].v, Element(s, i + 1))
    ELSE Element(s, i)

\* _concatenation: the items up to its end, a "/" or a closing bracket.
Items(s, i) ==
    LET one  == Repetition(s, i)
        rest == Items(s, one.at)
    IN  IF At(s, i) \in {"end", "/", ")", "]"} THEN Read(<< >>, i)
        ELSE IF one.at = 0 \/ rest.at = 0 THEN Raised
        ELSE Read(one.got \o rest.got, rest.at)

Bracketed(s, i, close, kind) ==
    LET inner == Wrapped(kind, kind, Alternation(s, i + 1))
    IN  IF At(s, inner.at) = close THEN Read(inner.got, inner.at + 1) ELSE Raised

Element(s, i) ==
    CASE At(s, i) = "("     -> Bracketed(s, i, ")", "group")
      [] At(s, i) = "["     -> Bracketed(s, i, "]", "optional")
      [] At(s, i) = "value" -> Read(<<Elem("terminal", s[i].v, << >>)>>, i + 1)
      [] At(s, i) = "name"  -> Read(<<Elem("reference", s[i].v, << >>)>>, i + 1)
      [] OTHER              -> Raised
-----------------------------------------------------------------------------
(***************************************************************************)
(* parse_rules.                                                            *)
(***************************************************************************)
Branches(body) == IF body.kind = "alternation" THEN body.kids ELSE <<body>>

\* Mutant of AddRule: an increment replaces what its rule had.
AddRuleReplacing(rules, name, body) ==
    LET known == {k \in DOMAIN rules : rules[k].name = name}
    IN  IF known = {} THEN Append(rules, [name |-> name, body |-> body])
        ELSE [rules EXCEPT ![CHOOSE k \in known : TRUE].body = body]

\* An increment adds branches to its rule, which becomes an alternation.
AddRule(rules, name, body) ==
    LET known == {k \in DOMAIN rules : rules[k].name = name}
    IN  IF known = {} THEN Append(rules, [name |-> name, body |-> body])
        ELSE [rules EXCEPT ![CHOOSE k \in known : TRUE].body =
                 Elem("alternation", "alternation", Branches(@) \o Branches(body))]

\* Definition after definition; one of a name defined before, an increment of none, and
\* anything left over after the elements are errors.
RECURSIVE RulesFrom(_, _, _)
RulesFrom(defined, k, rules) ==
    LET r     == defined[k]
        body  == Alternation(r.elements, 1)
        known == \E j \in DOMAIN rules : rules[j].name = r.name
    IN  IF k > Len(defined) THEN rules
        ELSE IF (r.assign = "=/") # known \/ body.at # Len(r.elements) + 1 THEN << >>
        ELSE RulesFrom(defined, k + 1, AddRule(rules, r.name, body.got[1]))

\* The rules of a text; none when it raises.  build_ast assembles them.
ParseRules(text) ==
    LET stripped == [l \in DOMAIN text |-> [text[l] EXCEPT !.lexemes = Uncommented(text[l])]]
        lines    == SelectSeq(stripped, LAMBDA line : line.lexemes # << >>)
    IN  IF lines = << >> \/ ~ IsHead(lines[1]) THEN << >>
        ELSE RulesFrom(FoldLeft(AddLine, << >>, lines), 1, << >>)
=============================================================================
