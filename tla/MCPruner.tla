------------------------------ MODULE MCPruner ------------------------------
(***************************************************************************)
(* Pruning jobs from real counts: for small grammars, every sample of up   *)
(* to MaxSample inputs is parsed and counted as the telemetry does, and    *)
(* pruned under several registries and thresholds.  The emitted grammar is *)
(* compared with the full one and with the reference parser.               *)
(***************************************************************************)
EXTENDS Pruner, Codegen, MCCounts

A1 == INSTANCE Asn1Reader

CONSTANTS Grammars, Thresholds

\* The inputs the emitted grammar is tried on.
Probes == LET bytes == {a, b, AtSign}
          IN  {<< >>} \cup {<<x>> : x \in bytes} \cup {<<x, y>> : x, y \in bytes}
              \cup {<<x, y, z>> : x, y, z \in bytes}

Registries(g) ==
    {{}, {"foreign-node"}}
    \cup (CASE g = AuthorityAst -> {{"user", "host"}, {"pct", "foreign-node"}, {"us", "h2"}, {"URI"}}
            [] g = ChoiceAst    -> {{"at"}, {"c2"}}
            [] g = CertAst      -> {{"vt"}, {"Point"}}
            [] g = AmbiguousAst -> {{"one"}}
            [] g = BranchesAst  -> {{"tail"}})

JobsOf(g, uses) ==
    {[ast |-> g, hits |-> h.hits, total |-> h.total, protected |-> p,
      threshold |-> t, sameGrammar |-> p # {"foreign-node"}] :
        h \in {Counted(g, uses, c) : c \in Samples(g)}, p \in Registries(g), t \in Thresholds}

\* A bound variable holds the verdicts, so TLC computes them once.
MCJobs == UNION {JobsOf(v[1], v[2]) : v \in {<<g, Verdicts(g)>> : g \in Grammars}}

MCThresholds == {[num |-> 1, den |-> 2], [num |-> 2, den |-> 3], [num |-> 1, den |-> 1000]}
MCGrammarSet == {AuthorityAst, ChoiceAst, AmbiguousAst, BranchesAst, CertAst}
-----------------------------------------------------------------------------
(***************************************************************************)
(* The emitted grammar.                                                    *)
(***************************************************************************)
\* The inputs of I that a compiled grammar describes.  (Bound variables hold what TLC is
\* to compute once; @@ makes a table of the compiled grammar.)
Described(compiled, root, I) ==
    UNION {{i \in I : L!InLanguage(code, root, i)} : code \in {compiled @@ << >>}}

TextGrammars == {g \in Grammars : Text(g)}
Full == [g \in TextGrammars |-> Described(L!Compile(g), g.root, Probes)] @@ << >>
Mvs  == Generate(job.ast, pruned)

\* codegen.py: "the minified grammar has no dangling references".
NoDanglingReferences == Done => Dangling(job.ast, pruned) = {}

\* What the standard is to be: the full grammar, in which nothing matches a pruned node.
Rest(V) == L!Keeping(L!Compile(job.ast), V)

\* A node consists of something as long as one way down from it to a leaf is kept.
RECURSIVE Consists(_)
Consists(n) == /\ n \in Kept
               /\ Children(n) = {} \/ \E c \in Children(n) : Consists(c)

\* Kept sequences that have lost an element that cannot be empty: it was pruned, or all
\* it consists of was.
CanBeEmpty(n) == L!InLanguage(Rest(Kept), n, << >>)
Torn == {n \in Kept : /\ Kind(n) = "sequence"
                      /\ \E c \in Children(n) : ~ Consists(c) /\ ~ CanBeEmpty(c)}

\* Kept branches and bodies that have nothing in them any more.
Emptied == {c \in Kept : /\ ~ Consists(c)
                         /\ \E n \in Kept : Kind(n) # "sequence" /\ c \in Children(n)}

\* What codegen.py emits is the full grammar less the pruned nodes: it describes every
\* input that can be derived from kept nodes, and no other.  The first holds up to the
\* branches that were emptied, the second up to the sequences that were torn; and where
\* nothing was torn or emptied it compiles.
EmittedGrammarMeansKept ==
    Done /\ Text(job.ast) /\ job.ast.root \in DOMAIN Mvs.nodes =>
        \A mvs \in {Mvs} : \A torn \in {Torn}, emptied \in {Emptied} :
            /\ torn = {} /\ emptied = {} => L!Compiles(mvs)
            /\ L!Compiles(mvs) =>
                \A rest \in {Described(Rest(Kept), mvs.root, Full[job.ast])} :
                    /\ Described(L!Keeping(L!Compile(mvs), DOMAIN mvs.nodes \ torn),
                                 mvs.root, Probes \ rest) = {}
                    /\ Described(Rest(Kept \ emptied), mvs.root, rest)
                         \subseteq Described(L!Compile(mvs), mvs.root, rest)
-----------------------------------------------------------------------------
(***************************************************************************)
(* The reference parser against the emitted grammar.                       *)
(***************************************************************************)
Limits == [max_input_len |-> 8, max_depth |-> 60]
Validated == {i \in Probes : RP!Validate(job.ast, pruned, Limits, i).outcome = "ok"}

\* The inputs with one reading: no derivation avoids a node of the one the recognizer
\* finds.
Visited(g, i) == Range(RP!ParseBounded(RP!Compile(g), g.root, i, Limits.max_depth).visited)
OneReading ==
    [g \in TextGrammars |->
        {i \in Full[g] : \A n \in Visited(g, i) :
            ~ L!InLanguage(L!Keeping(L!Compile(g), DOMAIN g.nodes \ {n}), g.root, i)}] @@ << >>

\* mvs-refparse lib.rs: "accepts exactly the Minimum Viable Standard".  What it accepts
\* can be derived from kept nodes, and is described by the emitted grammar where that
\* has lost no branch; and it refuses no input with one reading that can be so derived.
\* (Of an input with several, it judges the reading the recognizer finds first.)
ValidatorAcceptsMvs ==
    Done /\ Text(job.ast) =>
        \A rest \in {Described(Rest(Kept), job.ast.root, Full[job.ast])} :
        \A mvs \in {Mvs} : \A valid \in {Validated} :
            /\ rest \cap OneReading[job.ast] \subseteq valid
            /\ valid \subseteq rest
            /\ L!Compiles(mvs) /\ Emptied = {} =>
                  Described(L!Compile(mvs), mvs.root, valid) = valid
-----------------------------------------------------------------------------
(***************************************************************************)
(* The front ends on the emitted text, and on other layouts of it.         *)
(***************************************************************************)
RECURSIVE Tree(_, _)
Tree(ast, n) ==
    LET node == ast.nodes[n]
        kids == [k \in DOMAIN node.children |-> Tree(ast, node.children[k])]
    IN  IF node.kind \in {"sequence", "alternation"} /\ Text(ast) /\ Len(kids) = 1 THEN kids[1]
        ELSE Elem(node.kind, IF node.kind = "optional" THEN "optional" ELSE node.name, kids)
Trees(ast) == [r \in DOMAIN ast.rules |-> Tree(ast, ast.rules[r])]

Line(indented, lexemes) == [indented |-> indented, lexemes |-> lexemes]
PerRule(Layout(_), text) == FlattenSeq([k \in DOMAIN text |-> Layout(text[k].lexemes)])

\* Every element on a line of its own, with a comment.
Folded(rule) ==
    [k \in 1..(Len(rule) - 1) |->
        IF k = 1 THEN Line(FALSE, SubSeq(rule, 1, 2))
        ELSE Line(TRUE, <<rule[k + 1], Mark(";"), Lx("name", "note")>>)]

\* Every branch a definition of its own: name = one / two as name = one, name =/ two.
Depth(rule, k) == Cardinality({i \in 1..k : rule[i].t \in {"(", "["}})
                  - Cardinality({i \in 1..k : rule[i].t \in {")", "]"}})
Incremented(rule) ==
    LET bars == {k \in DOMAIN rule : rule[k].t = "/" /\ Depth(rule, k) = 0}
        cuts == SetToSortSeq({2} \cup bars \cup {Len(rule) + 1}, <)
    IN  [c \in 1..(Len(cuts) - 1) |->
            Line(FALSE, <<rule[1], Mark(IF c = 1 THEN "=" ELSE "=/")>>
                        \o SubSeq(rule, cuts[c] + 1, cuts[c + 1] - 1))]

\* Comments inside the lines; imports, named numbers, constraints and default values.
Commented(line) == FlattenSeq([k \in DOMAIN line |-> <<line[k], "--", "note", "--">>])
Imports  == << <<"IMPORTS", "Name", "FROM", "Other", ";">> >>
Decorate(t) ==
    CASE t = "INTEGER"    -> <<t, "{", "v1", "(", "0", ")", "}", "(", "0", "..", "3", ")">>
      [] t = "UTF8String" -> <<t, "(", "SIZE", "(", "1", ")", ")">>
      [] t = "OPTIONAL"   -> <<"DEFAULT", "0">>
      [] OTHER            -> <<t>>
Decorated(line) == FlattenSeq([k \in DOMAIN line |-> Decorate(line[k])])

ReadRules ==
    IF Text(job.ast)
    THEN LET text  == AbnfText(job.ast, pruned)
             rules == Tail(text)
         IN  {ParseRules(t) : t \in {text, PerRule(Folded, rules), PerRule(Incremented, rules)}}
    ELSE LET text == Asn1Text(job.ast, pruned)
         IN  {A1!ParseRules(t) :
                 t \in {text,
                        <<text[1]>> \o [k \in DOMAIN Tail(text) |-> Commented(text[k + 1])],
                        SubSeq(text, 1, 2) \o Imports
                            \o [k \in 1..(Len(text) - 2) |-> Decorated(text[k + 2])]}}

\* The emitted text defines a rule exactly when a front end finds one in it, and what
\* the front end reads, however the lines are broken and commented and the alternatives
\* spread over increments, is the kept part of the AST, rule for rule and node for node
\* (codegen.py, abnf.py, asn1.py; DEFAULT is emitted as OPTIONAL).
EmittedTextMeansKept ==
    Done => \A rules \in ReadRules : Trees(Assemble(rules)) = Trees(Mvs)
=============================================================================
