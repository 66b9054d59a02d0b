-------------------------- MODULE RestoreLoopProofs --------------------------
(***************************************************************************)
(* Proofs about RestoreLoop, for every set of standards and submissions    *)
(* and any number of open proposals: no publication takes back a node, and *)
(* a merged proposal restores what it found together with what that        *)
(* stands in.                                                              *)
(*                                                                         *)
(* Both rest on one fact about the pruner, that more protection never      *)
(* prunes more.  It holds of _expand_protection because its outcome is a   *)
(* least fixpoint (PrunerProofs: OneOutcome), and a least fixpoint grows   *)
(* with the set it starts from.                                            *)
(***************************************************************************)
EXTENDS RestoreLoop, TLAPS

-----------------------------------------------------------------------------
(***************************************************************************)
(* More protection never prunes more.                                      *)
(***************************************************************************)
LEMMA JobFacts ==
    ASSUME NEW s, NEW r
    PROVE  /\ JobOf(s, r).ast = s.ast /\ JobOf(s, r).hits = s.hits
           /\ JobOf(s, r).total = s.total /\ JobOf(s, r).threshold = s.threshold
           /\ JobOf(s, r).protected = Protected(r)
BY DEF JobOf

LEMMA BelowAlike ==
    ASSUME NEW s, NEW r1, NEW r2, NEW n
    PROVE  Prune!Below(JobOf(s, r1), n) = Prune!Below(JobOf(s, r2), n)
BY JobFacts DEF Prune!Below

LEMMA WeakAlike ==
    ASSUME NEW s, NEW r1, NEW r2
    PROVE  /\ Prune!WeakRules(JobOf(s, r1)) = Prune!WeakRules(JobOf(s, r2))
           /\ \A n : Prune!WeakTargets(JobOf(s, r1), n) = Prune!WeakTargets(JobOf(s, r2), n)
<1>1. \A n : Prune!Below(JobOf(s, r1), n) <=> Prune!Below(JobOf(s, r2), n)
  BY BelowAlike
<1>2. Prune!WeakRules(JobOf(s, r1)) = Prune!WeakRules(JobOf(s, r2))
  BY <1>1, JobFacts DEF Prune!WeakRules
<1>3. ASSUME NEW n
      PROVE  Prune!WeakTargets(JobOf(s, r1), n) = Prune!WeakTargets(JobOf(s, r2), n)
  BY <1>1, JobFacts DEF Prune!WeakTargets, Prune!Targets
<1> QED BY <1>2, <1>3

LEMMA GrownMonotone ==
    ASSUME NEW s, NEW r1, NEW r2, Protected(r1) \subseteq Protected(r2), NEW R, NEW Q,
           R \subseteq Q
    PROVE  Prune!Grown(JobOf(s, r1), R) \subseteq Prune!Grown(JobOf(s, r2), Q)
BY JobFacts DEF Prune!Grown, Prune!Protected

LEMMA MissingMonotone ==
    ASSUME NEW s, NEW r1, NEW r2, NEW S, NEW T, S \subseteq T
    PROVE  Prune!Missing(JobOf(s, r1), S) \subseteq Prune!Missing(JobOf(s, r2), T)
BY JobFacts, WeakAlike DEF Prune!Missing

LEMMA ClosureMonotone ==
    ASSUME NEW s, NEW r1, NEW r2, Protected(r1) \subseteq Protected(r2)
    PROVE  Prune!Closure(JobOf(s, r1)) \subseteq Prune!Closure(JobOf(s, r2))
<1> DEFINE j1 == JobOf(s, r1)
           j2 == JobOf(s, r2)
           least(j) == {r \in Prune!WeakRules(j) : \A R \in Prune!Closed(j) : r \in R}
<1>1. ASSUME NEW R \in Prune!Closed(j2) PROVE R \in Prune!Closed(j1)
  <2>1. R \in SUBSET Prune!WeakRules(j2) /\ Prune!Missing(j2, Prune!Grown(j2, R)) \subseteq R
    BY <1>1 DEF Prune!Closed
  <2>2. Prune!Grown(j1, R) \subseteq Prune!Grown(j2, R)
    BY GrownMonotone
  <2>3. Prune!Missing(j1, Prune!Grown(j1, R)) \subseteq R
    BY <2>1, <2>2, MissingMonotone
  <2>4. R \in SUBSET Prune!WeakRules(j1)
    BY <2>1, WeakAlike
  <2> QED BY <2>3, <2>4 DEF Prune!Closed
<1>2. least(j1) \subseteq least(j2)
  BY <1>1, WeakAlike
<1>3. Prune!Grown(j1, least(j1)) \subseteq Prune!Grown(j2, least(j2))
  BY <1>2, GrownMonotone
<1> QED BY <1>3 DEF Prune!Closure

LEMMA ContextsMonotone ==
    ASSUME NEW s, NEW r1, NEW r2, Protected(r1) \subseteq Protected(r2)
    PROVE  /\ Prune!Reattached(JobOf(s, r1)) \subseteq Prune!Reattached(JobOf(s, r2))
           /\ \A n : Prune!Context(JobOf(s, r1), n) = Prune!Context(JobOf(s, r2), n)
<1>1. \A n : Prune!Targets(JobOf(s, r1), n) = Prune!Targets(JobOf(s, r2), n)
  BY JobFacts DEF Prune!Targets
<1>2. Prune!Reattached(JobOf(s, r1)) \subseteq Prune!Reattached(JobOf(s, r2))
  BY <1>1, JobFacts DEF Prune!Reattached, Prune!Protected
<1>3. ASSUME NEW n
      PROVE  Prune!Context(JobOf(s, r1), n) = Prune!Context(JobOf(s, r2), n)
  BY JobFacts DEF Prune!Context, Prune!Wrappers, Prune!Separators
<1> QED BY <1>2, <1>3

Kept(j) == Prune!Closure(j) \cup UNION {Prune!Context(j, n) : n \in Prune!Reattached(j)}

LEMMA PrunedIs ==
    ASSUME NEW s, NEW r
    PROVE  PrunedUnder(s, r) =
              {n \in DOMAIN s.ast.nodes : n \notin Kept(JobOf(s, r)) /\ Prune!Below(JobOf(s, r), n)}
BY DEF PrunedUnder, Kept

LEMMA PruningAntitone ==
    ASSUME NEW s, NEW r1, NEW r2, Protected(r1) \subseteq Protected(r2)
    PROVE  PrunedUnder(s, r2) \subseteq PrunedUnder(s, r1)
<1>1. Kept(JobOf(s, r1)) \subseteq Kept(JobOf(s, r2))
  BY ClosureMonotone, ContextsMonotone DEF Kept
<1> QED BY <1>1, PrunedIs, BelowAlike

LEMMA ProtectedKept ==
    ASSUME NEW s, NEW r, NEW n \in Protected(r)
    PROVE  n \notin PrunedUnder(s, r)
<1> SUFFICES ASSUME n \in DOMAIN s.ast.nodes PROVE n \in Kept(JobOf(s, r))
  BY PrunedIs
<1>1. n \in Prune!Protected(JobOf(s, r))
  BY JobFacts DEF Prune!Protected
<1>2. n \in Prune!Subtree(s.ast, n)
  BY DEF Prune!Subtree
<1> QED BY <1>1, <1>2, JobFacts DEF Kept, Prune!Closure, Prune!Grown
-----------------------------------------------------------------------------
(***************************************************************************)
(* The inductive invariant.                                                *)
(***************************************************************************)
\* Every entry that r has, q has too.
Extends(q, r) == \A n \in Nodes : r[n] # "absent" => q[n] = r[n]

\* The loop adds protections to the registry the standard began with, and nothing else.
Added(r) == \A n \in Nodes : \/ r[n] = std.registry[n]
                             \/ std.registry[n] = "absent" /\ r[n] = "protected"

\* The nodes a report found, in the registry and in the published grammar: each has
\* an entry, and what it stands in was found too or is not pruned.
Recorded(nodes, r) ==
    \A n \in nodes : /\ r[n] # "absent"
                     /\ \A m \in Above(n) : m \in nodes \/ m \notin pruned

Proposal(p) == /\ p.base \in [Nodes -> Entries] /\ p.updated \in [Nodes -> Entries]
               /\ p.found \subseteq Nodes
               /\ Added(p.base) /\ Added(p.updated)
               /\ Extends(p.updated, p.base) /\ Extends(registry, p.base)
               /\ Recorded(p.found, p.updated)

Types == /\ std \in Standards
         /\ registry \in [Nodes -> Entries] /\ basis \in [Nodes -> Entries]
         /\ merged \subseteq Nodes

\* The published grammar is the pruner's answer to an earlier state of the registry.
RInv == /\ Types
        /\ pruned = PrunedUnder(std, basis)
        /\ Extends(registry, basis) /\ Added(registry)
        /\ \A p \in proposals : Proposal(p)
        /\ Recorded(merged, registry)

LEMMA ExtendsProtects ==
    ASSUME NEW q \in [Nodes -> Entries], NEW r \in [Nodes -> Entries], Extends(q, r)
    PROVE  Protected(r) \subseteq Protected(q)
BY DEF Extends, Protected

LEMMA RInitInv == Init => RInv
<1> SUFFICES ASSUME Init PROVE RInv
  OBVIOUS
<1>1. IsStandard(std)
  BY RestoreAssumption DEF Init
<1>2. registry \in [Nodes -> Entries]
  BY <1>1 DEF Init, IsStandard, Nodes
<1>3. Types
  BY <1>2 DEF Init, Types
<1>4. proposals = {} /\ merged = {} /\ basis = registry /\ pruned = PrunedUnder(std, basis)
  BY DEF Init
<1> QED BY <1>3, <1>4 DEF Init, RInv, Extends, Added, Recorded

\* Evidence for a node is evidence for every pruned node it stands in.
LEMMA FoundAbove ==
    ASSUME RInv, NEW c \in std.submissions, NEW n \in Restorable(std, pruned, c), NEW m \in Above(n)
    PROVE  m \in Restorable(std, pruned, c) \/ m \notin pruned
<1> SUFFICES ASSUME m \in pruned PROVE m \in Restorable(std, pruned, c)
  OBVIOUS
<1>1. IsStandard(std)
  BY RestoreAssumption DEF RInv, Types
<1>2. /\ c.hits \in [DOMAIN std.ast.nodes -> Nat] /\ c.total \in Nat
      /\ CountsNested(std.ast, c)
      /\ std.minUsage.num \in Nat /\ std.minUsage.den \in Nat
  BY <1>1 DEF IsStandard, IsCount
<1>3. m \in DOMAIN std.ast.nodes /\ n \in DOMAIN std.ast.nodes
  BY DEF Above, Nodes, Restorable, RInv, PrunedUnder
<1>4. c.hits[n] <= c.hits[m]
  BY <1>2, <1>3 DEF CountsNested, Above
<1>5. /\ c.hits[n] \in Nat /\ c.hits[m] \in Nat /\ c.hits[n] > 0 /\ c.total > 0
      /\ c.hits[n] * std.minUsage.den >= std.minUsage.num * c.total
  BY <1>2, <1>3 DEF Restorable
<1>6. \A x, y, d \in Nat : x <= y => x * d <= y * d
  OBVIOUS
<1>7. c.hits[n] * std.minUsage.den <= c.hits[m] * std.minUsage.den
  BY <1>2, <1>4, <1>5, <1>6
<1>8. \A x, y, z \in Int : x >= z /\ x <= y => y >= z
  OBVIOUS
<1>9. /\ c.hits[n] * std.minUsage.den \in Int /\ c.hits[m] * std.minUsage.den \in Int
      /\ std.minUsage.num * c.total \in Int
  BY <1>2, <1>5
<1>10. c.hits[m] * std.minUsage.den >= std.minUsage.num * c.total
  BY <1>5, <1>7, <1>8, <1>9
<1>11. c.hits[m] > 0
  BY <1>4, <1>5
<1> QED BY <1>5, <1>10, <1>11 DEF Restorable

LEMMA EvaluateInv == ASSUME RInv, NEW c \in std.submissions, Evaluate(c) PROVE RInv'
<1> DEFINE found == Restorable(std, pruned, c)
           updated == Apply(registry, found)
           p == [base |-> registry, updated |-> updated, found |-> found]
<1>1. /\ proposals' = proposals \cup {p}
      /\ std' = std /\ registry' = registry /\ pruned' = pruned /\ basis' = basis
      /\ merged' = merged
  BY DEF Evaluate
<1>2. registry \in [Nodes -> Entries]
  BY DEF RInv, Types
<1>3. found \subseteq Nodes
  BY DEF Restorable, RInv, PrunedUnder, Nodes
<1>4. /\ updated \in [Nodes -> Entries]
      /\ \A n \in Nodes : updated[n] = IF n \in found /\ registry[n] = "absent"
                                       THEN "protected" ELSE registry[n]
  BY <1>2 DEF Apply, Entries
<1>5. Extends(updated, registry)
  BY <1>4 DEF Extends
<1>6. \A n \in found : updated[n] # "absent"
  BY <1>3, <1>4
<1>7. Recorded(found, updated)
  BY <1>6, FoundAbove DEF Recorded
<1>a. Added(registry)
  BY DEF RInv
<1>b. Added(updated)
  BY <1>4, <1>a DEF Added
<1>8. Proposal(p)
  <2>1. Extends(registry, registry)
    BY DEF Extends
  <2> QED BY <1>2, <1>3, <1>4, <1>5, <1>7, <1>a, <1>b, <2>1 DEF Proposal
<1> HIDE DEF p
<1>9. \A q \in proposals' : Proposal(q)
  BY <1>1, <1>8 DEF RInv
<1>10. \A q \in proposals' : Proposal(q)'
  BY <1>1, <1>9 DEF Proposal, Added, Extends, Recorded, Above, Nodes
<1> QED BY <1>1, <1>10 DEF RInv, Types, Nodes, Added, Extends, Recorded, Above

\* What a branch has changed are protections of nodes that had no entry: merging them
\* into a registry that extends the branch's base takes nothing from it.
LEMMA MergeExtends ==
    ASSUME RInv, NEW p \in proposals, Merge(p)
    PROVE  /\ registry' \in [Nodes -> Entries]
           /\ Extends(registry', registry) /\ Extends(registry', p.updated)
           /\ Added(registry')
<1>1. registry' = [n \in Nodes |-> IF p.updated[n] # p.base[n] THEN p.updated[n] ELSE registry[n]]
  BY DEF Merge
<1>2. /\ p.base \in [Nodes -> Entries] /\ p.updated \in [Nodes -> Entries]
      /\ registry \in [Nodes -> Entries]
  BY DEF RInv, Types, Proposal
<1>3. registry' \in [Nodes -> Entries]
  BY <1>1, <1>2
<1>4. /\ \A n \in Nodes : p.base[n] # "absent" => p.updated[n] = p.base[n]
      /\ \A n \in Nodes : p.base[n] # "absent" => registry[n] = p.base[n]
      /\ Added(registry) /\ Added(p.updated)
  BY DEF RInv, Proposal, Extends
<1>5. ASSUME NEW n \in Nodes, p.updated[n] # p.base[n]
      PROVE  /\ registry'[n] = "protected" /\ p.updated[n] = "protected"
             /\ std.registry[n] = "absent" /\ registry[n] \in {"absent", "protected"}
  <2>1. p.base[n] = "absent" /\ p.updated[n] # "absent"
    BY <1>4, <1>5
  <2>2. Added(p.base)
    BY DEF RInv, Proposal
  <2>3. std.registry[n] = "absent"
    BY <2>1, <2>2 DEF Added
  <2> QED BY <1>1, <1>4, <1>5, <2>1, <2>3 DEF Added
<1>6. ASSUME NEW n \in Nodes, p.updated[n] = p.base[n] PROVE registry'[n] = registry[n]
  BY <1>1, <1>6
<1>7. Extends(registry', registry)
  BY <1>5, <1>6 DEF Extends
<1>8. Extends(registry', p.updated)
  BY <1>4, <1>5, <1>6 DEF Extends
<1>9. Added(registry')
  BY <1>4, <1>5, <1>6 DEF Added
<1> QED BY <1>3, <1>7, <1>8, <1>9

LEMMA MergeInv == ASSUME RInv, NEW p \in proposals, Merge(p) PROVE RInv'
<1>1. /\ proposals' = proposals \ {p} /\ merged' = merged \cup p.found
      /\ std' = std /\ pruned' = pruned /\ basis' = basis
  BY DEF Merge
<1>2. Proposal(p)
  BY DEF RInv
<1>3. Types'
  BY <1>1, <1>2, MergeExtends DEF RInv, Types, Nodes, Proposal
<1>4. /\ \A n \in Nodes : registry[n] # "absent" => registry'[n] = registry[n]
      /\ \A n \in Nodes : p.updated[n] # "absent" => registry'[n] = p.updated[n]
      /\ Added(registry')
  BY MergeExtends DEF Extends
<1>5. \A r : Extends(registry, r) => Extends(registry', r)
  BY <1>4 DEF Extends
<1>6. Extends(registry', basis)
  BY <1>5 DEF RInv
<1>7. \A q \in proposals' : Proposal(q)'
  <2> SUFFICES ASSUME NEW q \in proposals PROVE Proposal(q)'
    BY <1>1
  <2>1. Proposal(q) /\ Extends(registry', q.base)
    BY <1>5 DEF RInv, Proposal
  <2> QED BY <1>1, <2>1 DEF Proposal, Added, Extends, Recorded, Above, Nodes
<1>8. Recorded(merged \cup p.found, registry')
  <2>1. \A n \in merged : registry'[n] # "absent"
    BY <1>4 DEF RInv, Recorded, Types
  <2>2. \A n \in p.found : registry'[n] # "absent"
    BY <1>2, <1>4 DEF Proposal, Recorded
  <2>3. \A n \in merged : \A m \in Above(n) : m \in merged \/ m \notin pruned
    BY DEF RInv, Recorded
  <2>4. \A n \in p.found : \A m \in Above(n) : m \in p.found \/ m \notin pruned
    BY <1>2 DEF Proposal, Recorded
  <2> QED BY <2>1, <2>2, <2>3, <2>4 DEF Recorded
<1>9. Recorded(merged, registry)'
  BY <1>1, <1>8 DEF Recorded, Above, Nodes
<1>10. Extends(registry, basis)' /\ Added(registry)'
  BY <1>1, <1>4, <1>6 DEF Extends, Added, Nodes
<1>11. pruned' = PrunedUnder(std', basis')
  BY <1>1 DEF RInv
<1> QED BY <1>3, <1>7, <1>9, <1>10, <1>11 DEF RInv

LEMMA CloseInv == ASSUME RInv, NEW p \in proposals, Close(p) PROVE RInv'
<1>1. /\ proposals' \subseteq proposals
      /\ std' = std /\ registry' = registry /\ pruned' = pruned /\ basis' = basis
      /\ merged' = merged
  BY DEF Close
<1> QED BY <1>1 DEF RInv, Types, Proposal, Nodes, Added, Extends, Recorded, Above

LEMMA PublicationShrinks == ASSUME RInv, Republish PROVE pruned' \subseteq pruned
<1>1. Protected(basis) \subseteq Protected(registry)
  BY ExtendsProtects DEF RInv, Types
<1> QED BY <1>1, PruningAntitone DEF Republish, RInv

LEMMA RepublishInv == ASSUME RInv, Republish PROVE RInv'
<1>1. /\ pruned' = PrunedUnder(std, registry) /\ basis' = registry
      /\ std' = std /\ registry' = registry /\ proposals' = proposals /\ merged' = merged
  BY DEF Republish
<1>2. pruned' \subseteq pruned
  BY PublicationShrinks
<1>3. \A q \in proposals' : Proposal(q)'
  <2> SUFFICES ASSUME NEW q \in proposals PROVE Proposal(q)'
    BY <1>1
  <2>1. Proposal(q)
    BY DEF RInv
  <2>2. \A n \in q.found : /\ q.updated[n] # "absent"
                           /\ \A m \in Above(n) : m \in q.found \/ m \notin pruned
    BY <2>1 DEF Proposal, Recorded
  <2>3. Recorded(q.found, q.updated)'
    BY <1>1, <1>2, <2>2 DEF Recorded, Above, Nodes
  <2> QED BY <1>1, <2>1, <2>3 DEF Proposal, Added, Extends, Nodes
<1>4. Recorded(merged, registry)'
  BY <1>1, <1>2 DEF RInv, Recorded, Above, Nodes
<1>5. Types' /\ Extends(registry, basis)' /\ Added(registry)' /\ (pruned = PrunedUnder(std, basis))'
  BY <1>1 DEF RInv, Types, Nodes, Added, Extends
<1> QED BY <1>3, <1>4, <1>5 DEF RInv

LEMMA RStutterInv == ASSUME RInv, UNCHANGED vars PROVE RInv'
BY DEF RInv, vars, Types, Proposal, Nodes, Added, Extends, Recorded, Above

THEOREM RInvariance == Spec => []RInv
<1>1. RInv /\ [Next]_vars => RInv'
  BY EvaluateInv, MergeInv, CloseInv, RepublishInv, RStutterInv DEF Next
<1> QED BY RInitInv, <1>1, PTL DEF Spec
-----------------------------------------------------------------------------
(***************************************************************************)
(* The properties.                                                         *)
(***************************************************************************)
\* Every state of the loop is well formed (rerun.py, overrides.py).
THEOREM TypeCorrect == Spec => []TypeOK
<1>1. RInv => TypeOK
  BY RestoreAssumption DEF RInv, Types, TypeOK, Proposal, PrunedUnder, Nodes
<1> QED BY <1>1, RInvariance, PTL

\* No publication prunes a node the one before it kept, whatever was proposed, merged
\* or declined in between, from a registry however old: apply_to_overrides (rerun.py)
\* adds entries and changes none, so that is all a merge brings in.
THEOREM NothingIsLost == Spec => NothingLost
<1>1. RInv /\ [Next]_vars => pruned' \subseteq pruned
  <2> SUFFICES ASSUME RInv, [Next]_vars PROVE pruned' \subseteq pruned
    OBVIOUS
  <2>1. CASE Republish
    BY <2>1, PublicationShrinks
  <2>2. CASE ~ Republish
    BY <2>2 DEF Next, Evaluate, Merge, Close, vars
  <2> QED BY <2>1, <2>2
<1> QED BY <1>1, RInvariance, PTL DEF Spec, NothingLost

\* docs/rfe.md: merging a proposal restores the features it found, with every rule or
\* wrapper they stand in, from the next publication on.
THEOREM EvidenceIsEnough == Spec => []EvidenceRestores
<1>1. ASSUME RInv, Published, NEW n \in merged, registry[n] # "unprotected"
      PROVE  /\ n \notin pruned
             /\ \A m \in Above(n) : registry[m] # "unprotected" => m \notin pruned
  <2>1. \A k \in merged : registry[k] # "unprotected" => k \notin pruned
    <3> SUFFICES ASSUME NEW k \in merged, registry[k] # "unprotected" PROVE k \notin pruned
      OBVIOUS
    <3>1. k \in Nodes /\ registry[k] \in Entries /\ DOMAIN registry = Nodes
      BY <1>1 DEF RInv, Types
    <3>2. registry[k] # "absent"
      BY <1>1 DEF RInv, Recorded
    <3>3. k \in Protected(registry)
      BY <3>1, <3>2 DEF Entries, Protected
    <3> QED BY <1>1, <3>3, ProtectedKept DEF RInv, Published
  <2>2. \A m \in Above(n) : m \in merged \/ m \notin pruned
    BY <1>1 DEF RInv, Recorded
  <2> QED BY <1>1, <2>1, <2>2
<1>2. RInv => EvidenceRestores
  BY <1>1 DEF EvidenceRestores
<1> QED BY <1>2, RInvariance, PTL
=============================================================================
