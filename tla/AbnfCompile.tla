----------------------------- MODULE AbnfCompile -----------------------------
(***************************************************************************)
(* Grammar::compile of the telemetry core (telemetry.rs): an AST document  *)
(* becomes a table of executable nodes, or is refused.                     *)
(*                                                                         *)
(* An AST is [root, nodes] with nodes a function from node ids to          *)
(* [kind, name, children].  Text is abstracted to what the compiler tells  *)
(* apart: the name of a rule or reference is an atom, the name of a        *)
(* repetition is the parsed shape of "<left>*<right>(...)", the name of a  *)
(* terminal the shape of its literal with its byte values.                 *)
(***************************************************************************)
EXTENDS Integers, Sequences

Blank   == -1     \* an omitted bound in a repetition name
NoMax   == -1     \* RepSpec.max = None
NoMatch == -1     \* Term::match_at = None
MaxByte == 255    \* u8::MAX

AbnfKind == {"rule", "group", "reference", "sequence", "alternation",
             "optional", "repetition", "terminal"}
Asn1Kind == {"tag", "string-type", "named-type"}
-----------------------------------------------------------------------------
(***************************************************************************)
(* Terminals.                                                              *)
(***************************************************************************)
\* parse_term: the forms it understands; a value above u8 is a BadTerminal.
GoodTerm(t) ==
    \/ t.form = "prose"
    \/ t.form = "quoted"
    \/ t.form = "range"  /\ Len(t.vals) = 2 /\ \A i \in 1..2 : t.vals[i] <= MaxByte
    \/ t.form = "series" /\ \A i \in 1..Len(t.vals) : t.vals[i] <= MaxByte

\* eq_ignore_ascii_case
Lower(b) == IF b \in 65..90 THEN b + 32 ELSE b

\* Term: whether its i-th position accepts a byte, and how many positions it has.
Accepts(t, i, byte) ==
    CASE t.form = "quoted" -> Lower(byte) = Lower(t.vals[i])
      [] t.form = "range"  -> t.vals[1] <= byte /\ byte <= t.vals[2]
      [] t.form = "series" -> byte = t.vals[i]

Width(t) == IF t.form = "range" THEN 1 ELSE Len(t.vals)

\* Term::match_at: the offset after the terminal, or NoMatch.
MatchAt(term, input, pos) ==
    IF /\ term.form # "prose"
       /\ pos + Width(term) <= Len(input)
       /\ \A i \in 1..Width(term) : Accepts(term, i, input[pos + i])
    THEN pos + Width(term)
    ELSE NoMatch
-----------------------------------------------------------------------------
(***************************************************************************)
(* Repetitions.                                                            *)
(***************************************************************************)
\* parse_repeat: "n" without a star is n*n; no number at all is a BadRepeat.
GoodRepeat(r) == r.star \/ r.left # Blank

ParseRepeat(r) ==
    IF r.star THEN [min |-> IF r.left = Blank THEN 0 ELSE r.left,
                    max |-> IF r.right = Blank THEN NoMax ELSE r.right]
              ELSE [min |-> r.left, max |-> r.left]
-----------------------------------------------------------------------------
(***************************************************************************)
(* Compilation.                                                            *)
(***************************************************************************)
RulesNamed(ast, name) ==
    {n \in DOMAIN ast.nodes : ast.nodes[n].kind = "rule" /\ ast.nodes[n].name = name}

NeedsChild == {"rule", "group", "optional", "repetition"}

\* No CompileError: every node compiles and the root is a node.
Compiles(ast) ==
    /\ ast.root \in DOMAIN ast.nodes
    /\ \A n \in DOMAIN ast.nodes :
          LET node == ast.nodes[n]
          IN  /\ node.kind \notin Asn1Kind
              /\ node.kind \in NeedsChild => node.children # << >>
              /\ node.kind = "reference"  => RulesNamed(ast, node.name) # {}
              /\ node.kind = "repetition" => GoodRepeat(node.name)
              /\ node.kind = "terminal"   => GoodTerm(node.name)

NoTerm == [form |-> "none", vals |-> << >>]

\* One Compiled node.  Pass and Ref are executed alike, so both are "Pass".
CompiledNode(ast, n) ==
    LET node == ast.nodes[n]
        shape(op, kids) == [op |-> op, kids |-> kids, min |-> 0, max |-> NoMax,
                            term |-> NoTerm]
    IN  CASE node.kind \in {"rule", "group"} -> shape("Pass", node.children)
          [] node.kind = "reference" ->
                shape("Pass", << CHOOSE r \in RulesNamed(ast, node.name) : TRUE >>)
          [] node.kind = "sequence"    -> shape("Seq", node.children)
          [] node.kind = "alternation" -> shape("Alt", node.children)
          [] node.kind = "optional"    -> shape("Opt", node.children)
          [] node.kind = "repetition"  ->
                [shape("Rep", node.children) EXCEPT
                    !.min = ParseRepeat(node.name).min,
                    !.max = ParseRepeat(node.name).max]
          [] node.kind = "terminal"    -> [shape("Term", << >>) EXCEPT !.term = node.name]

Compile(ast) == [n \in DOMAIN ast.nodes |-> CompiledNode(ast, n)]
=============================================================================
