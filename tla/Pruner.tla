------------------------------- MODULE Pruner -------------------------------
(***************************************************************************)
(* The pruning logic engine (pruner.py): prune and _expand_protection.     *)
(*                                                                         *)
(* A job is what prune is called with: an AST, the merged hits of that     *)
(* grammar, the protected node ids of the override registry and the        *)
(* threshold, a fraction num/den.  The expansion of the protected set      *)
(* walks Python sets of strings, whose order changes from process to       *)
(* process: each step takes any node that is due.                          *)
(***************************************************************************)
EXTENDS Integers, Sequences, FiniteSets, Functions

CONSTANT Jobs

\* A job the pipeline can build (astbuild.py, hits.schema.json, overrides.py).
IsJob(j) ==
    /\ \A n \in DOMAIN j.ast.nodes :
          /\ j.ast.nodes[n].children \in Seq(DOMAIN j.ast.nodes)
          /\ j.ast.nodes[n].kind \in {"reference", "terminal"} =>
                j.ast.nodes[n].children = << >>
          /\ j.ast.nodes[n].kind = "group" => Len(j.ast.nodes[n].children) = 1
          \* rules are the trees of the forest: nobody's children
          /\ \A c \in Range(j.ast.nodes[n].children) : j.ast.nodes[c].kind # "rule"
    \* a rule name is defined once
    /\ \A n, m \in DOMAIN j.ast.nodes :
          (/\ j.ast.nodes[n].kind = "rule" /\ j.ast.nodes[m].kind = "rule"
           /\ j.ast.nodes[n].name = j.ast.nodes[m].name) => n = m
    /\ j.hits \in [DOMAIN j.ast.nodes -> Nat]
    /\ j.total \in Nat
    /\ j.threshold \in [num : Nat, den : Nat \ {0}]
    /\ j.sameGrammar \in BOOLEAN

Rules(ast, name) == {r \in DOMAIN ast.nodes : /\ ast.nodes[r].kind = "rule"
                                              /\ ast.nodes[r].name = name}

\* The nodes without which a sample cannot use node n: the rule a reference names,
\* the body of a rule or group, every element of a text grammar's sequence (the
\* DER walker passes over the components of a SEQUENCE that it does not find).
Text(ast) == \A n \in DOMAIN ast.nodes :
                ast.nodes[n].kind \notin {"tag", "string-type", "named-type"}
Required(ast, n) ==
    LET node == ast.nodes[n]
    IN  CASE node.kind = "reference" -> Rules(ast, node.name)
          [] node.kind \in {"rule", "group"} -> Range(node.children)
          [] node.kind = "sequence" -> IF Text(ast) THEN Range(node.children) ELSE {}
          [] OTHER -> {}

\* The node-hit invariant of the telemetry (Matcher: HitsAreDerivation, Telemetry:
\* CountsAreUsages).
HitsCovered(j) ==
    \A n \in DOMAIN j.ast.nodes : \A m \in Required(j.ast, n) : j.hits[n] <= j.hits[m]

ASSUME JobsAreJobs == \A j \in Jobs : IsJob(j) /\ HitsCovered(j)

VARIABLES job,       \* what is being pruned (never changes)
          phase,     \* "seed", "down", "up", "done", or "error" (ValueError)
          keep,      \* the growing protected set
          todo,      \* the nodes the current loop has not come to yet
          changed,   \* the downward loop has grown keep in this sweep
          pruned     \* the emitted document

vars == <<job, phase, keep, todo, changed, pruned>>
-----------------------------------------------------------------------------
Nodes  == DOMAIN job.ast.nodes
Kind(n) == job.ast.nodes[n].kind
Name(n) == job.ast.nodes[n].name
Children(n) == Range(job.ast.nodes[n].children)

\* _usage(hits, total) < threshold
Below(j, n) == IF j.total = 0 THEN 0 < j.threshold.num
               ELSE j.hits[n] * j.threshold.den < j.threshold.num * j.total

\* _subtree: every node reachable through children, root included.
Subtree(ast, root) ==
    LET below[k \in Nat] == IF k = 0 THEN {root}
                            ELSE UNION {Range(ast.nodes[n].children) : n \in below[k - 1]}
    IN  {root} \cup {c \in UNION {Range(ast.nodes[n].children) : n \in DOMAIN ast.nodes} :
                        \E k \in 1..Cardinality(DOMAIN ast.nodes) : c \in below[k]}

\* It stops when every child of what it has visited has been visited, and visits below a
\* node nothing but what lies below its children.
Walked(ast) ==
    \A root \in DOMAIN ast.nodes :
        /\ \A n \in Subtree(ast, root) : Range(ast.nodes[n].children) \subseteq Subtree(ast, root)
        /\ \A n \in Subtree(ast, root) \ {root} :
              \E c \in Range(ast.nodes[root].children) : n \in Subtree(ast, c)

ASSUME SubtreesAreWalks == \A ast \in {j.ast : j \in Jobs} : Walked(ast)

\* The registry may protect nodes of other grammars; only this one's matter.
Protected(j) == j.protected \cap DOMAIN j.ast.nodes

\* The rules reference n stands for that usage alone would prune.
Targets(j, n) == Rules(j.ast, j.ast.nodes[n].name)
WeakTargets(j, n) == {r \in Targets(j, n) : Below(j, r)}

\* The nodes between n and its rule, through the parent map ...
Wrappers(j, n) ==
    {w \in DOMAIN j.ast.nodes : /\ j.ast.nodes[w].children # << >>
                                /\ j.ast.nodes[w].kind # "rule"
                                /\ n \in Subtree(j.ast, w)}
\* ... and the literals beside one of them in a sequence.
Separators(j, W) ==
    {t \in DOMAIN j.ast.nodes :
        /\ j.ast.nodes[t].kind = "terminal"
        /\ \E w \in W : /\ j.ast.nodes[w].kind = "sequence"
                        /\ t \in Range(j.ast.nodes[w].children)}

\* Mutant of Context: the literals are left behind.
ContextBare(j, n) == {n} \cup Wrappers(j, n)

\* The reference, what it stands in and the literals beside.
Context(j, n) == {n} \cup Wrappers(j, n) \cup Separators(j, Wrappers(j, n))

\* The references to explicitly protected rules.
Reattached(j) ==
    {n \in DOMAIN j.ast.nodes : /\ j.ast.nodes[n].kind = "reference"
                                /\ Targets(j, n) \cap Protected(j) # {}}
-----------------------------------------------------------------------------
Init == /\ job \in Jobs
        /\ phase = "seed"
        /\ keep = {} /\ todo = {} /\ pruned = {}
        /\ changed = TRUE

\* "grammar mismatch": nothing is emitted.
Mismatch == /\ phase = "seed"
            /\ ~ job.sameGrammar
            /\ phase' = "error"
            /\ UNCHANGED <<job, keep, todo, changed, pruned>>

\* Every protected node with its subtree.
Seed == /\ phase = "seed"
        /\ job.sameGrammar
        /\ keep' = UNION {Subtree(job.ast, p) : p \in Protected(job)}
        /\ phase' = "down"
        /\ UNCHANGED <<job, todo, changed, pruned>>

\* Downward: sweep over a snapshot of keep until a sweep changes nothing.
\* Only references do anything in a sweep.
Sweep == /\ phase = "down" /\ todo = {} /\ changed
         /\ changed' = FALSE
         /\ todo' = {n \in keep : Kind(n) = "reference"}
         /\ UNCHANGED <<job, phase, keep, pruned>>

\* Mutants of Follow: the sweep is not repeated; the target is kept without its
\* body; the sweep is always repeated.
FollowOnce(n) ==
    /\ phase = "down" /\ n \in todo
    /\ todo' = todo \ {n}
    /\ keep' = keep \cup UNION {Subtree(job.ast, r) : r \in WeakTargets(job, n) \ keep}
    /\ UNCHANGED <<job, phase, changed, pruned>>
FollowBare(n) ==
    /\ phase = "down" /\ n \in todo
    /\ todo' = todo \ {n}
    /\ keep' = keep \cup WeakTargets(job, n)
    /\ changed' = (changed \/ WeakTargets(job, n) \ keep # {})
    /\ UNCHANGED <<job, phase, pruned>>
FollowForEver(n) ==
    /\ phase = "down" /\ n \in todo
    /\ todo' = todo \ {n}
    /\ keep' = keep \cup UNION {Subtree(job.ast, r) : r \in WeakTargets(job, n) \ keep}
    /\ changed' = TRUE
    /\ UNCHANGED <<job, phase, pruned>>

Follow(n) ==
    /\ phase = "down" /\ n \in todo
    /\ todo' = todo \ {n}
    /\ LET missing == WeakTargets(job, n) \ keep
       IN  /\ keep' = keep \cup UNION {Subtree(job.ast, r) : r \in missing}
           /\ changed' = (changed \/ missing # {})
    /\ UNCHANGED <<job, phase, pruned>>

\* Mutant of Turn: the upward pass starts before the sweep has ended.
TurnEarly == /\ phase = "down" /\ ~ (todo = {} /\ changed)
             /\ phase' = "up"
             /\ todo' = Reattached(job)
             /\ UNCHANGED <<job, keep, changed, pruned>>

\* Upward: the references to the protected rules.
Turn == /\ phase = "down" /\ todo = {} /\ ~ changed
        /\ phase' = "up"
        /\ todo' = Reattached(job)
        /\ UNCHANGED <<job, keep, changed, pruned>>

Reattach(n) ==
    /\ phase = "up" /\ n \in todo
    /\ todo' = todo \ {n}
    /\ keep' = keep \cup Context(job, n)
    /\ UNCHANGED <<job, phase, changed, pruned>>

Decide == /\ phase = "up" /\ todo = {}
          /\ pruned' = {n \in Nodes : n \notin keep /\ Below(job, n)}
          /\ phase' = "done"
          /\ UNCHANGED <<job, keep, todo, changed>>

Next == \/ Mismatch \/ Seed \/ Sweep \/ Turn \/ Decide
        \/ \E n \in todo : Follow(n) \/ Reattach(n)

Spec     == Init /\ [][Next]_vars
FairSpec == Spec /\ WF_vars(Next)    \* sequential code: it runs until it returns
-----------------------------------------------------------------------------
(***************************************************************************)
(* Properties.                                                             *)
(***************************************************************************)
TypeOK == /\ IsJob(job)
          /\ phase \in {"seed", "down", "up", "done", "error"}
          /\ keep \subseteq Nodes
          /\ todo \subseteq keep \cup Nodes
          /\ changed \in BOOLEAN
          /\ pruned \subseteq Nodes

Done == phase = "done"
Kept == Nodes \ pruned

\* codegen.py: "a kept reference always points at a kept rule".  Holds because a
\* reference survives by usage only if its rule does, by protection only if the
\* downward loop has looked at it after its last change, and by reattachment only
\* if its rule is protected.
KeptReferenceHasKeptRule ==
    Done => \A n \in Kept : Kind(n) = "reference" => Targets(job, n) \subseteq Kept

\* docs/overrides.md: "protecting a rule also keeps the sub-grammar it needs to
\* render": its subtree and, from reference to reference, the whole of every rule
\* that usage alone would prune.
DownClosed(j, S) ==
    \A n \in S : j.ast.nodes[n].kind = "reference" =>
        \A r \in WeakTargets(j, n) : Subtree(j.ast, r) \subseteq S
SubgrammarKept ==
    Done => /\ \A p \in Protected(job) : Subtree(job.ast, p) \subseteq keep
            /\ DownClosed(job, keep)
            /\ keep \subseteq Kept

\* What is kept when rules R are followed, and the rules usage alone would prune
\* that a set of nodes refers to.
Grown(j, R)   == UNION {Subtree(j.ast, n) : n \in Protected(j) \cup R}
Missing(j, S) == UNION {WeakTargets(j, n) : n \in {m \in S : j.ast.nodes[m].kind = "reference"}}

\* The least set of rules that leaves nothing to follow.
WeakRules(j) == {r \in DOMAIN j.ast.nodes : j.ast.nodes[r].kind = "rule" /\ Below(j, r)}
Closed(j)    == {R \in SUBSET WeakRules(j) : Missing(j, Grown(j, R)) \subseteq R}
Closure(j)   == LET closed == Closed(j)
                IN  Grown(j, {r \in WeakRules(j) : \A R \in closed : r \in R})

\* The outcome does not depend on the order in which Python's sets are walked:
\* the kept set is the least one the docstring describes.
OrderIndependent ==
    Done => keep = Closure(job) \cup UNION {Context(job, n) : n \in Reattached(job)}

\* What is kept can still be used: a kept node keeps whatever it cannot do without,
\* with one exception, a sequence that too few samples use and that no protected
\* sub-grammar holds, kept for the reference to a protected rule within it.  It may
\* lose its other elements, never its literals ("the literal separators that sit beside
\* the path", pruner.py).
RequiredKept ==
    Done => \A n \in Kept : \A m \in Required(job.ast, n) \ Kept :
               /\ Below(job, n) /\ n \notin Closure(job)
               /\ Kind(n) = "sequence" /\ Kind(m) # "terminal"

Terminates == <>(phase \in {"done", "error"})
=============================================================================
