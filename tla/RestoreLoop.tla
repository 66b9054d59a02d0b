----------------------------- MODULE RestoreLoop -----------------------------
(***************************************************************************)
(* The RFE loop (rfe_service/rerun.py and docs/rfe.md): a submission's     *)
(* corpus is counted against the full AST, the pruned nodes it uses often  *)
(* enough are proposed for the override registry, the proposal is merged,  *)
(* and the pruner runs again with the new registry (Pruner).               *)
(*                                                                         *)
(* The proposal is a whole overrides.yaml, computed from the registry of   *)
(* that moment and committed to a branch cut from it.  By the time it is   *)
(* merged others may have been: what reaches the registry is what the      *)
(* branch has changed.  Merging, declining and re-running the pruner are   *)
(* the maintainers' doing.                                                 *)
(***************************************************************************)
EXTENDS Integers, Sequences, FiniteSets, Functions

CONSTANTS Standards,   \* [ast, hits, total, threshold, minUsage, registry, submissions]
          MaxOpen      \* bound: pull requests open at a time

\* An entry of overrides.yaml, for a node of this grammar.
Entries == {"absent", "protected", "unprotected"}

IsCount(ast, c) == c.hits \in [DOMAIN ast.nodes -> Nat] /\ c.total \in Nat
\* A sample that uses a node uses the node it stands in: the recognizer reaches it from
\* there and nowhere else.
CountsNested(ast, c) ==
    \A m \in DOMAIN ast.nodes : \A n \in Range(ast.nodes[m].children) : c.hits[n] <= c.hits[m]
IsStandard(s) ==
    /\ IsCount(s.ast, s)
    /\ \A c \in s.submissions : IsCount(s.ast, c) /\ CountsNested(s.ast, c)
    /\ s.minUsage \in [num : Nat, den : Nat \ {0}]
    /\ s.registry \in [DOMAIN s.ast.nodes -> Entries]

ASSUME RestoreAssumption == MaxOpen \in Nat /\ \A s \in Standards : IsStandard(s)

VARIABLES std,        \* the standard (never changes)
          registry,   \* overrides.yaml: node -> entry
          pruned,     \* the published pruned.json
          basis,      \* the registry it was computed from
          proposals,  \* the open pull requests
          merged      \* the nodes found by the reports whose pull request was merged

vars == <<std, registry, pruned, basis, proposals, merged>>
-----------------------------------------------------------------------------
Nodes        == DOMAIN std.ast.nodes
Protected(r) == {n \in DOMAIN r : r[n] = "protected"}

\* The pruner's job under registry r.
JobOf(s, r) == [ast |-> s.ast, hits |-> s.hits, total |-> s.total, threshold |-> s.threshold,
                protected |-> Protected(r), sameGrammar |-> TRUE]
Prune == INSTANCE Pruner WITH Jobs <- {}, job <- JobOf(std, registry), phase <- "done",
                              keep <- {}, todo <- {}, changed <- FALSE

\* What it emits (Pruner: OrderIndependent).
PrunedUnder(s, r) ==
    LET j    == JobOf(s, r)
        keep == Prune!Closure(j) \cup UNION {Prune!Context(j, n) : n \in Prune!Reattached(j)}
    IN  {n \in DOMAIN s.ast.nodes : n \notin keep /\ Prune!Below(j, n)}

\* Mutant of Restorable: only leaves are reported.
RestorableLeaves(s, published, c) ==
    {n \in published : /\ s.ast.nodes[n].children = << >>
                       /\ c.hits[n] > 0 /\ c.total > 0
                       /\ c.hits[n] * s.minUsage.den >= s.minUsage.num * c.total}

\* evaluate_report: the pruned nodes this corpus uses at or above the threshold.
Restorable(s, published, c) ==
    {n \in published : /\ c.hits[n] > 0
                       /\ c.total > 0
                       /\ c.hits[n] * s.minUsage.den >= s.minUsage.num * c.total}

\* apply_to_overrides: a node with an entry, whatever it says, is left alone.
Apply(r, nodes) ==
    [n \in DOMAIN r |-> IF n \in nodes /\ r[n] = "absent" THEN "protected" ELSE r[n]]

Init == /\ std \in Standards
        /\ registry = std.registry
        /\ pruned = PrunedUnder(std, std.registry)
        /\ basis = std.registry
        /\ proposals = {} /\ merged = {}

\* One run of rerun.py on a submission: nothing is proposed without evidence.
Evaluate(c) ==
    LET found == Restorable(std, pruned, c)
    IN  /\ found # {} /\ Cardinality(proposals) < MaxOpen
        /\ proposals' = proposals \cup
              {[base |-> registry, updated |-> Apply(registry, found), found |-> found]}
        /\ UNCHANGED <<std, registry, pruned, basis, merged>>

\* Mutant of Merge: the branch's file replaces the registry.
MergeWhole(p) ==
    /\ proposals' = proposals \ {p}
    /\ registry' = p.updated
    /\ merged' = merged \cup p.found
    /\ UNCHANGED <<std, pruned, basis>>

\* A three-way merge, entry by entry: where the branch differs from what it was cut from,
\* the branch; elsewhere the registry as it has become.
Merge(p) ==
    /\ proposals' = proposals \ {p}
    /\ registry' = [n \in Nodes |-> IF p.updated[n] # p.base[n] THEN p.updated[n]
                                   ELSE registry[n]]
    /\ merged' = merged \cup p.found
    /\ UNCHANGED <<std, pruned, basis>>

\* Any proposal may be declined.
Close(p) == /\ proposals' = proposals \ {p}
            /\ UNCHANGED <<std, registry, pruned, basis, merged>>

Republish == /\ basis # registry
             /\ pruned' = PrunedUnder(std, registry)
             /\ basis' = registry
             /\ UNCHANGED <<std, registry, proposals, merged>>

Next == \/ \E c \in std.submissions : Evaluate(c)
        \/ \E p \in proposals : Merge(p) \/ Close(p)
        \/ Republish

Spec == Init /\ [][Next]_vars
-----------------------------------------------------------------------------
(***************************************************************************)
(* Properties.                                                             *)
(***************************************************************************)
TypeOK == /\ IsStandard(std)
          /\ registry \in [Nodes -> Entries]
          /\ pruned \subseteq Nodes
          /\ \A p \in proposals : /\ p.base \in [Nodes -> Entries]
                                  /\ p.updated \in [Nodes -> Entries]
                                  /\ p.found \subseteq Nodes
          /\ merged \subseteq Nodes /\ basis \in [Nodes -> Entries]

Published == basis = registry

\* docs/rfe.md: "the standard restores the feature".  No merged proposal takes back what
\* another has restored, a stale one included, which was computed from a registry that
\* did not have it: the published grammar only grows.
NothingLost == [][pruned' \subseteq pruned]_vars

\* What a merged proposal found is kept from the next publication on, and so is the
\* rule or wrapper it stands in, unless an entry says the node is not protected: the
\* evidence for a node is evidence for every node it stands in.
Above(n) == {m \in Nodes : n \in Range(std.ast.nodes[m].children)}
EvidenceRestores ==
    Published => \A n \in merged :
        registry[n] # "unprotected" =>
            /\ n \notin pruned
            /\ \A m \in Above(n) : registry[m] # "unprotected" => m \notin pruned
=============================================================================
