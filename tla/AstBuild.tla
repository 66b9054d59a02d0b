------------------------------ MODULE AstBuild ------------------------------
(***************************************************************************)
(* Assembly of an AST document from the constructs a front end has parsed  *)
(* (astbuild.py).                                                          *)
(*                                                                         *)
(* An Elem's tag repeats what its kind and name say, and is left out.  The *)
(* id of a node, <rule>#<hash8 of its structural path>, is the rule and    *)
(* the path: the eight hex digits are taken to tell paths of a rule apart. *)
(***************************************************************************)
EXTENDS Integers, SequencesExt

Elem(kind, name, kids) == [kind |-> kind, name |-> name, kids |-> kids]

\* What a parsing function returns: the constructs it has read and the position after
\* them; position 0 when it raises.
Read(got, at) == [got |-> got, at |-> at]
Raised        == Read(<< >>, 0)

\* The node read from the single construct of r, of which it is the only child.
Wrapped(kind, name, r) ==
    IF r.at = 0 THEN Raised ELSE Read(<<Elem(kind, name, r.got)>>, r.at)

ChildPath(path, kid, idx) == Append(path, <<kid.kind, kid.name, idx>>)

\* build_elem: the nodes of an Elem, children first.
RECURSIVE BuildElem(_, _, _)
BuildElem(elem, rule, path) ==
    LET at(k) == ChildPath(path, elem.kids[k], k)
        below == [k \in DOMAIN elem.kids |-> BuildElem(elem.kids[k], rule, at(k))]
    IN  Append(FlattenSeq(below),
               [id   |-> <<rule, path>>,
                node |-> [kind     |-> elem.kind, name |-> elem.name,
                          children |-> [k \in DOMAIN elem.kids |-> <<rule, at(k)>>]]])

RuleNodes(rule) ==
    LET body == <<rule.name, << <<"body">> >> >>
    IN  Append(BuildElem(rule.body, rule.name, body[2]),
               [id   |-> <<rule.name, << >> >>,
                node |-> [kind |-> "rule", name |-> rule.name, children |-> <<body>>]])

\* assemble: no AST from no rules, nor when two nodes get one id.  rules is the order of
\* the rules' spans.
NoAst == [rules |-> << >>]
Assemble(rules) ==
    LET built == FlattenSeq([r \in DOMAIN rules |-> RuleNodes(rules[r])])
        ids   == [k \in DOMAIN built |-> built[k].id]
    IN  IF rules = << >> \/ ~ IsInjective(ids) THEN NoAst
        ELSE [root  |-> <<rules[1].name, << >> >>,
              rules |-> [r \in DOMAIN rules |-> <<rules[r].name, << >> >>],
              nodes |-> [id \in Range(ids) |-> built[CHOOSE k \in DOMAIN ids : ids[k] = id].node]]
=============================================================================
