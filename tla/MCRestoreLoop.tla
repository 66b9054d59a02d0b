---------------------------- MODULE MCRestoreLoop ----------------------------
(***************************************************************************)
(* Standards for RestoreLoop: grammars pruned from one counted sample,     *)
(* with every other sample of up to MaxSample inputs as a submission.      *)
(***************************************************************************)
EXTENDS RestoreLoop, MCCounts

Only(ns, ast, e) == [n \in DOMAIN ast.nodes |-> IF n \in ns THEN e ELSE "absent"]

\* Public samples: one plain input.
Public(g) == {c \in Samples(g) : SumOf(c) = 1 /\ \E i \in {<<b>>, <<a, a>>} \cap Corpus(g) : c[i] = 1}

StandardsOf(g, uses, entry) ==
    {[ast |-> g, hits |-> h.hits, total |-> h.total,
      threshold |-> [num |-> 1, den |-> 2], minUsage |-> u, registry |-> r,
      submissions |-> {Counted(g, uses, c) : c \in {s \in Samples(g) : SumOf(s) > 0}}] :
        h \in {Counted(g, uses, c) : c \in Public(g)},
        u \in {[num |-> 1, den |-> 2], [num |-> 1, den |-> 1000]},
        r \in {Only({}, g, "absent")} \cup {Only({n}, g, entry) : n \in {"user", "c2"} \cap DOMAIN g.nodes}}

\* Bound variables hold the verdicts, so TLC computes them once.
MCGrammarSet == {AuthorityAst, ChoiceAst}
MCStandards  == UNION {StandardsOf(v[1], v[2], e) :
                          v \in {<<g, Verdicts(g)>> : g \in MCGrammarSet},
                          e \in {"protected", "unprotected"}}
=============================================================================
