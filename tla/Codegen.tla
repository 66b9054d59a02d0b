------------------------------- MODULE Codegen -------------------------------
(***************************************************************************)
(* The code generator (codegen.py): the AST minus the pruned nodes, as the *)
(* grammar text it emits, in the lexemes of the front ends (AbnfReader,    *)
(* Asn1Reader), and as the AST that text stands for (Generate).            *)
(*                                                                         *)
(* ast.rules are the rules in the order of their spans.                    *)
(***************************************************************************)
EXTENDS AbnfReader

\* Mutant of Renders: a sequence or alternation drops out with any of its children.
RendersIfAll(ast, pruned) ==
    LET live[n \in DOMAIN ast.nodes] ==
          LET node == ast.nodes[n]
          IN  /\ n \notin pruned
              /\ \A c \in Range(node.children) : live[c]
    IN  live

\* _unparse(n) is not None.  Leaves render as their name; a wrapper renders if
\* its first child does, a sequence or alternation if any child does.
Renders(ast, pruned) ==
    LET live[n \in DOMAIN ast.nodes] ==
          LET node == ast.nodes[n]
          IN  /\ n \notin pruned
              /\ CASE node.kind \in {"terminal", "string-type", "reference"} -> TRUE
                   [] node.kind \in {"named-type", "optional", "group", "repetition", "tag"} ->
                        node.children # << >> /\ live[node.children[1]]
                   [] node.kind \in {"sequence", "alternation"} ->
                        \E c \in Range(node.children) : live[c]
                   [] OTHER -> FALSE
    IN  live

\* The rules generate() writes a line for: kept, with a body that renders.
EmittedRules(ast, pruned) ==
    LET live == Renders(ast, pruned)
    IN  {r \in DOMAIN ast.nodes : /\ ast.nodes[r].kind = "rule"
                                  /\ r \notin pruned
                                  /\ ast.nodes[r].children # << >>
                                  /\ live[ast.nodes[r].children[1]]}

\* The nodes whose text is part of an emitted rule.
EmittedNodes(ast, pruned) ==
    LET live     == Renders(ast, pruned)
        below[k \in Nat] ==
            IF k = 0 THEN EmittedRules(ast, pruned)
            ELSE {c \in UNION {Range(ast.nodes[n].children) : n \in below[k - 1]} : live[c]}
    IN  UNION {below[k] : k \in 0..Cardinality(DOMAIN ast.nodes)}

\* _rule_order, of the emitted rules.
RuleOrder(ast, pruned) ==
    LET emitted == EmittedRules(ast, pruned)
    IN  SelectSeq(ast.rules, LAMBDA r : r \in emitted)

\* The emitted grammar; its root is the first rule (astbuild.py).
Generate(ast, pruned) ==
    LET text  == EmittedNodes(ast, pruned)
        order == RuleOrder(ast, pruned)
    IN  [root  |-> IF order = << >> THEN ast.root ELSE order[1],
         rules |-> order,
         nodes |-> [n \in text |->
            [ast.nodes[n] EXCEPT !.children =
                SelectSeq(@, LAMBDA c : c \in text)]]]

-----------------------------------------------------------------------------
(***************************************************************************)
(* The text.                                                               *)
(***************************************************************************)
Joined(parts, separator) ==
    FlattenSeq([k \in DOMAIN parts |-> IF k = 1 THEN parts[k] ELSE <<separator>> \o parts[k]])

\* _unparse; the empty text of a node that drops out.
RECURSIVE UnparseAbnf(_, _, _), UnparseAsn1(_, _, _)
UnparseAbnf(ast, pruned, n) ==
    LET node  == ast.nodes[n]
        parts == SelectSeq([k \in DOMAIN node.children |-> UnparseAbnf(ast, pruned, node.children[k])],
                           LAMBDA text : text # << >>)
    IN  IF n \in pruned THEN << >>
        ELSE IF node.kind = "terminal"  THEN <<Lx("value", node.name)>>
        ELSE IF node.kind = "reference" THEN <<Lx("name", node.name)>>
        ELSE IF parts = << >> THEN << >>
        ELSE CASE node.kind = "optional"    -> <<Mark("[")>> \o parts[1] \o <<Mark("]")>>
               [] node.kind = "group"       -> <<Mark("(")>> \o parts[1] \o <<Mark(")")>>
               [] node.kind = "repetition"  -> <<Lx("repeat", node.name)>> \o parts[1]
               [] node.kind = "sequence"    -> FlattenSeq(parts)
               [] node.kind = "alternation" -> Joined(parts, Mark("/"))

UnparseAsn1(ast, pruned, n) ==
    LET node  == ast.nodes[n]
        parts == SelectSeq([k \in DOMAIN node.children |-> UnparseAsn1(ast, pruned, node.children[k])],
                           LAMBDA text : text # << >>)
    IN  IF n \in pruned THEN << >>
        ELSE IF node.kind \in {"terminal", "string-type", "reference"} THEN node.name
        ELSE IF parts = << >> THEN << >>
        ELSE CASE node.kind \in {"named-type", "repetition", "tag"} -> node.name \o parts[1]
               [] node.kind = "optional" -> parts[1] \o <<"OPTIONAL">>
               [] node.kind \in {"sequence", "alternation"} ->
                    node.name \o <<"{">> \o Joined(parts, ",") \o <<"}">>

\* generate: a header of comments, a line for each emitted rule, and the module around
\* them for ASN.1.
Body(ast, r) == ast.nodes[r].children[1]
AbnfText(ast, pruned) ==
    <<[indented |-> FALSE, lexemes |-> <<Mark(";"), Lx("name", "Minified")>>]>>
    \o [k \in DOMAIN RuleOrder(ast, pruned) |->
          LET r == RuleOrder(ast, pruned)[k]
          IN  [indented |-> FALSE, lexemes |-> <<Lx("name", ast.nodes[r].name), Mark("=")>>
                                               \o UnparseAbnf(ast, pruned, Body(ast, r))]]
Asn1Text(ast, pruned) ==
    << <<"--", "Minified">>, <<"module", "DEFINITIONS", "::=", "BEGIN">> >>
    \o [k \in DOMAIN RuleOrder(ast, pruned) |->
          LET r == RuleOrder(ast, pruned)[k]
          IN  ast.nodes[r].name \o <<"::=">> \o UnparseAsn1(ast, pruned, Body(ast, r))]
    \o << <<"END">> >>

\* A reference in the emitted text to a rule the text does not define.
Dangling(ast, pruned) ==
    LET mvs == Generate(ast, pruned).nodes
    IN  {n \in DOMAIN mvs : /\ mvs[n].kind = "reference"
                            /\ ~ \E r \in DOMAIN mvs : /\ mvs[r].kind = "rule"
                                                       /\ mvs[r].name = mvs[n].name}
=============================================================================
