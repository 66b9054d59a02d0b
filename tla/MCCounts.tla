------------------------------ MODULE MCCounts ------------------------------
(***************************************************************************)
(* Counts as the telemetry takes them: for the grammars of MCGrammars,     *)
(* every sample of up to MaxSample inputs, each parsed by the recognizer.  *)
(***************************************************************************)
EXTENDS MCGrammars, FiniteSetsExt

CONSTANT MaxSample

L  == INSTANCE AbnfLanguage
RP == INSTANCE RefParser

\* The inputs a sample is drawn from.
AtSign == 64
SumOf(f) == MapThenSumSet(LAMBDA x : f[x], DOMAIN f)
Corpus(ast) ==
    CASE ast = AuthorityAst -> {<<b>>, <<a, b>>, <<a, AtSign, b>>, <<AtSign>>}
      [] ast = ChoiceAst    -> {<<a, a>>, <<a, b>>, <<a, a, AtSign>>, <<b>>}
      [] ast = AmbiguousAst -> {<<a>>, <<a, a>>, <<b>>}
      [] ast = BranchesAst  -> {<< >>, <<a>>, <<b>>, <<AtSign, b, a>>}
      [] ast = CertAst      -> DOMAIN CertUses

\* Unbounded recursion: --max-depth is far above what these inputs need.
Verdicts(g) ==
    IF g = CertAst THEN CertUses
    ELSE LET code == RP!Compile(g)
         IN  [i \in Corpus(g) |-> Range(RP!ParseBounded(code, g.root, i, 60).visited)]

\* How often each input is in the sample, and what the telemetry counts of it.
Samples(g) == {c \in [Corpus(g) -> 0..MaxSample] : SumOf(c) <= MaxSample}
Counted(g, uses, c) ==
    [total |-> SumOf(c),
     hits  |-> [n \in DOMAIN g.nodes |-> SumOf([i \in Corpus(g) |-> IF n \in uses[i] THEN c[i] ELSE 0])]]
=============================================================================
