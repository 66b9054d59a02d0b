---------------------------- MODULE PrunerProofs ----------------------------
(***************************************************************************)
(* Proofs about Pruner, for every set of jobs: whatever the order in which *)
(* the sets are walked, a kept reference points at a kept rule, the        *)
(* protected sub-grammar is kept whole, and what is kept is one set.       *)
(***************************************************************************)
EXTENDS Pruner, TLAPS

IsRef(n)  == job.ast.nodes[n].kind = "reference"
IsRule(n) == job.ast.nodes[n].kind = "rule"

\* The protected subtrees have been seeded.
Seeded == phase \in {"down", "up", "done"} =>
            \A p \in Protected(job) : Subtree(job.ast, p) \subseteq keep

\* A kept rule is kept with its subtree: keep is a union of subtrees, and then of
\* context nodes none of which is a rule.
RulesWhole == \A r \in keep : IsRule(r) => Subtree(job.ast, r) \subseteq keep

\* What a sweep that has changed nothing so far has checked; and what is left
\* of it once the sweeps are over.
Followed ==
    /\ phase = "down" /\ ~ changed =>
          \A n \in keep \ todo : IsRef(n) => WeakTargets(job, n) \subseteq keep
    /\ phase \in {"up", "done"} =>
          \A n \in keep : IsRef(n) => WeakTargets(job, n) \subseteq keep

Verdict == phase = "done" => pruned = {n \in Nodes : n \notin keep /\ Below(job, n)}

Types == /\ job \in Jobs
         /\ phase \in {"seed", "down", "up", "done", "error"}
         /\ keep \subseteq Nodes /\ todo \subseteq Nodes /\ pruned \subseteq Nodes
         /\ changed \in BOOLEAN
         /\ phase = "seed" => changed
         /\ phase = "up" => todo \subseteq Reattached(job)

PInv == Types /\ Seeded /\ RulesWhole /\ Followed /\ Verdict
-----------------------------------------------------------------------------
(***************************************************************************)
(* Lemmas about the operators.                                             *)
(***************************************************************************)
\* A subtree holds its root, and no rule but its root.
LEMMA SubtreeFacts ==
    ASSUME NEW j \in Jobs, NEW p \in DOMAIN j.ast.nodes
    PROVE  /\ p \in Subtree(j.ast, p)
           /\ Subtree(j.ast, p) \subseteq DOMAIN j.ast.nodes
           /\ \A r \in Subtree(j.ast, p) : j.ast.nodes[r].kind = "rule" => r = p
<1> DEFINE ast  == j.ast
           kids == UNION {Range(ast.nodes[n].children) : n \in DOMAIN ast.nodes}
<1>1. IsJob(j)  BY JobsAreJobs
<1>2. \A n \in DOMAIN ast.nodes : Range(ast.nodes[n].children) \subseteq DOMAIN ast.nodes
  BY <1>1 DEF IsJob, Range
<1>3. \A c \in kids : c \in DOMAIN ast.nodes /\ ast.nodes[c].kind # "rule"
  BY <1>1, <1>2 DEF IsJob
<1>4. Subtree(ast, p) \subseteq {p} \cup kids /\ p \in Subtree(ast, p)
  BY DEF Subtree
<1> QED BY <1>3, <1>4

\* A name stands for one rule.
LEMMA OneRuleByName ==
    ASSUME NEW j \in Jobs, NEW n \in DOMAIN j.ast.nodes,
           NEW p \in Targets(j, n), NEW r \in Targets(j, n)
    PROVE  p = r
BY JobsAreJobs DEF Targets, Rules, IsJob

LEMMA TargetsAreRules ==
    ASSUME NEW j \in Jobs, NEW n
    PROVE  /\ Targets(j, n) \subseteq DOMAIN j.ast.nodes
           /\ \A r \in Targets(j, n) : j.ast.nodes[r].kind = "rule"
           /\ WeakTargets(j, n) \subseteq Targets(j, n)
BY DEF Targets, WeakTargets, Rules

\* The context of a reference: itself, and nodes that are neither rules nor
\* references.
LEMMA ContextFacts ==
    ASSUME NEW j \in Jobs, NEW n \in DOMAIN j.ast.nodes, j.ast.nodes[n].kind = "reference",
           NEW m \in Context(j, n)
    PROVE  /\ m \in DOMAIN j.ast.nodes
           /\ j.ast.nodes[m].kind # "rule"
           /\ j.ast.nodes[m].kind = "reference" => m = n
<1>1. IsJob(j)  BY JobsAreJobs
<1>2. CASE m = n  BY <1>2
<1>3. CASE m \in Wrappers(j, n)
  BY <1>1, <1>3 DEF Wrappers, IsJob
<1>4. CASE m \in Separators(j, Wrappers(j, n))
  BY <1>4 DEF Separators
<1> QED BY <1>2, <1>3, <1>4 DEF Context

\* The usage comparison is monotone in the hits.
LEMMA BelowMonotone ==
    ASSUME NEW j \in Jobs, NEW n \in DOMAIN j.ast.nodes, NEW m \in DOMAIN j.ast.nodes,
           j.hits[n] <= j.hits[m], Below(j, m)
    PROVE  Below(j, n)
<1>1. /\ j.hits[n] \in Nat /\ j.hits[m] \in Nat
      /\ j.threshold.den \in Nat /\ j.threshold.num \in Nat /\ j.total \in Nat
  BY JobsAreJobs DEF IsJob
<1>2. \A a, b, d \in Nat : a <= b => a * d <= b * d
  OBVIOUS
<1>3. j.hits[n] * j.threshold.den <= j.hits[m] * j.threshold.den
  BY <1>1, <1>2
<1>4. \A x, y, z \in Int : x <= y /\ y < z => x < z
  OBVIOUS
<1>5. /\ j.hits[n] * j.threshold.den \in Int /\ j.hits[m] * j.threshold.den \in Int
      /\ j.threshold.num * j.total \in Int
  BY <1>1
<1> QED BY <1>3, <1>4, <1>5 DEF Below
-----------------------------------------------------------------------------
(***************************************************************************)
(* The inductive invariant.                                                *)
(***************************************************************************)
LEMMA InitInv == Init => PInv
BY DEF Init, PInv, Types, Seeded, RulesWhole, Followed, Verdict

LEMMA SeedInv == PInv /\ Seed => PInv'
<1> SUFFICES ASSUME PInv, Seed PROVE PInv'
  OBVIOUS
<1>t. Types  BY DEF PInv
<1>1. /\ job' = job /\ phase' = "down" /\ todo' = todo /\ changed' = changed /\ pruned' = pruned
      /\ keep' = {} \cup UNION {Subtree(job.ast, p) : p \in Protected(job)}
      /\ job \in Jobs /\ changed
  BY <1>t DEF Seed, Types
<1>2. Protected(job) \in SUBSET DOMAIN job.ast.nodes
  BY DEF Protected
<1>f. \A p \in Protected(job) :
         /\ Subtree(job.ast, p) \subseteq DOMAIN job.ast.nodes
         /\ \A r \in Subtree(job.ast, p) : job.ast.nodes[r].kind = "rule" => r = p
  BY <1>1, <1>2, SubtreeFacts
<1>3. /\ keep' \subseteq DOMAIN job.ast.nodes
      /\ \A p \in Protected(job) : Subtree(job.ast, p) \subseteq keep'
      /\ \A r \in keep' : job.ast.nodes[r].kind = "rule" => Subtree(job.ast, r) \subseteq keep'
  BY <1>1, <1>f
<1>4. Types'  BY <1>1, <1>3, <1>t DEF Types, Nodes
<1>5. Seeded'  BY <1>1, <1>3 DEF Seeded
<1>6. RulesWhole'  BY <1>1, <1>3 DEF RulesWhole, IsRule
<1>7. Followed'  BY <1>1 DEF Followed
<1>8. Verdict'  BY <1>1 DEF Verdict
<1> QED BY <1>4, <1>5, <1>6, <1>7, <1>8 DEF PInv

LEMMA SweepInv == PInv /\ Sweep => PInv'
<1> SUFFICES ASSUME PInv, Sweep PROVE PInv'
  OBVIOUS
<1>1. /\ job' = job /\ phase = "down" /\ phase' = "down" /\ keep' = keep /\ ~ changed'
      /\ todo' = {n \in keep : Kind(n) = "reference"} /\ pruned' = pruned
      /\ changed' \in BOOLEAN
  BY DEF Sweep
<1>2. Types'  BY <1>1 DEF PInv, Types, Nodes
<1>3. Seeded'  BY <1>1 DEF PInv, Seeded
<1>4. RulesWhole'  BY <1>1 DEF PInv, RulesWhole, IsRule
<1>5. Followed'  BY <1>1 DEF Followed, IsRef, Kind
<1>6. Verdict'  BY <1>1 DEF Verdict
<1> QED BY <1>2, <1>3, <1>4, <1>5, <1>6 DEF PInv

LEMMA FollowInv == ASSUME NEW n \in todo, PInv, Follow(n) PROVE PInv'
<1> DEFINE missing == WeakTargets(job, n) \ keep
<1>t. Types  BY DEF PInv
<1>1. /\ job' = job /\ phase = "down" /\ phase' = "down" /\ pruned' = pruned
      /\ todo' = todo \ {n}
      /\ keep' = keep \cup UNION {Subtree(job.ast, r) : r \in missing}
      /\ changed' = (changed \/ missing # {})
      /\ job \in Jobs /\ keep \in SUBSET DOMAIN job.ast.nodes
  BY <1>t DEF Follow, Types, Nodes
<1>2. missing \in SUBSET DOMAIN job.ast.nodes
  BY TargetsAreRules, <1>1
<1>3. \A r \in keep : job.ast.nodes[r].kind = "rule" => Subtree(job.ast, r) \subseteq keep
  BY DEF PInv, RulesWhole, IsRule
<1>4. /\ keep' \subseteq DOMAIN job.ast.nodes
      /\ keep \subseteq keep'
      /\ \A r \in keep' : job.ast.nodes[r].kind = "rule" => Subtree(job.ast, r) \subseteq keep'
  <2>1. \A p \in missing :
           /\ Subtree(job.ast, p) \subseteq DOMAIN job.ast.nodes
           /\ \A r \in Subtree(job.ast, p) : job.ast.nodes[r].kind = "rule" => r = p
    BY <1>1, <1>2, SubtreeFacts
  <2> HIDE DEF missing
  <2>2. keep' \subseteq DOMAIN job.ast.nodes /\ keep \subseteq keep'
    BY <1>1, <2>1
  <2>3. \A r \in keep' : job.ast.nodes[r].kind = "rule" => Subtree(job.ast, r) \subseteq keep'
    BY <1>1, <1>3, <2>1
  <2> QED BY <2>2, <2>3
<1>5. Types'
  <2>1. changed' \in BOOLEAN  BY <1>1, <1>t DEF Types
  <2> QED BY <1>1, <1>4, <1>t, <2>1 DEF Types, Nodes
<1>6. Seeded'  BY <1>1, <1>4 DEF PInv, Seeded
<1>7. RulesWhole'  BY <1>1, <1>4 DEF RulesWhole, IsRule
<1>8. Followed'
  <2> SUFFICES ASSUME ~ changed', NEW m \in keep' \ todo', IsRef(m)'
               PROVE  WeakTargets(job, m)' \subseteq keep'
    BY <1>1 DEF Followed
  <2>1. missing = {} /\ ~ changed
    BY <1>1, <1>t DEF Types
  <2>2. keep' = keep
    BY <1>1, <2>1
  <2>3. CASE m = n  BY <1>1, <2>1, <2>2, <2>3
  <2>4. CASE m # n
    BY <1>1, <2>1, <2>2, <2>4 DEF PInv, Followed, IsRef
  <2> QED BY <2>3, <2>4
<1>9. Verdict'  BY <1>1 DEF Verdict
<1> QED BY <1>5, <1>6, <1>7, <1>8, <1>9 DEF PInv

LEMMA TurnInv == PInv /\ Turn => PInv'
<1> SUFFICES ASSUME PInv, Turn PROVE PInv'
  OBVIOUS
<1>1. /\ job' = job /\ phase = "down" /\ phase' = "up" /\ keep' = keep /\ changed' = changed
      /\ ~ changed /\ todo = {} /\ todo' = Reattached(job) /\ pruned' = pruned
  BY DEF Turn
<1>2. Types'  BY <1>1 DEF PInv, Types, Nodes, Reattached
<1>3. Seeded'  BY <1>1 DEF PInv, Seeded
<1>4. RulesWhole'  BY <1>1 DEF PInv, RulesWhole, IsRule
<1>5. Followed'  BY <1>1 DEF PInv, Followed, IsRef
<1>6. Verdict'  BY <1>1 DEF Verdict
<1> QED BY <1>2, <1>3, <1>4, <1>5, <1>6 DEF PInv

\* The rule a reattached reference names is the protected one.
LEMMA ReattachInv == ASSUME NEW n \in todo, PInv, Reattach(n) PROVE PInv'
<1>t. Types  BY DEF PInv
<1>1. /\ job' = job /\ phase = "up" /\ phase' = "up" /\ pruned' = pruned /\ changed' = changed
      /\ todo' = todo \ {n}
      /\ keep' = keep \cup Context(job, n)
      /\ job \in Jobs
  BY <1>t DEF Reattach, Types
<1>2. n \in DOMAIN job.ast.nodes /\ job.ast.nodes[n].kind = "reference"
      /\ Targets(job, n) \cap Protected(job) # {}
  BY <1>1, <1>t DEF Types, Reattached
<1>3. \A m \in Context(job, n) : /\ m \in DOMAIN job.ast.nodes
                                 /\ job.ast.nodes[m].kind # "rule"
                                 /\ job.ast.nodes[m].kind = "reference" => m = n
  BY <1>1, <1>2, ContextFacts
<1>4. Types'  BY <1>1, <1>3, <1>t DEF Types, Nodes
<1>5. Seeded'  BY <1>1 DEF PInv, Seeded
<1>6. RulesWhole'
  <2> SUFFICES ASSUME NEW r \in keep', job.ast.nodes[r].kind = "rule"
               PROVE  Subtree(job.ast, r) \subseteq keep'
    BY <1>1 DEF RulesWhole, IsRule
  <2>1. r \in keep  BY <1>1, <1>3
  <2> QED BY <1>1, <2>1 DEF PInv, RulesWhole, IsRule
<1>7. Followed'
  <2> SUFFICES ASSUME NEW m \in keep', job.ast.nodes[m].kind = "reference"
               PROVE  WeakTargets(job, m) \subseteq keep'
    BY <1>1 DEF Followed, IsRef
  <2>1. CASE m \in keep  BY <1>1, <2>1 DEF PInv, Followed, IsRef
  <2>2. CASE m \in Context(job, n)
    <3>1. m = n  BY <1>3, <2>2
    <3>2. PICK p \in Targets(job, n) : p \in Protected(job)
      BY <1>2
    <3>3. p \in keep
      <4>1. p \in DOMAIN job.ast.nodes  BY <3>2 DEF Protected
      <4>2. p \in Subtree(job.ast, p)  BY <1>1, <4>1, SubtreeFacts
      <4> QED BY <1>1, <3>2, <4>2 DEF PInv, Seeded
    <3>4. \A r \in WeakTargets(job, n) : r = p
      BY <1>1, <1>2, OneRuleByName, TargetsAreRules
    <3> QED BY <1>1, <3>1, <3>3, <3>4
  <2> QED BY <1>1, <2>1, <2>2
<1>8. Verdict'  BY <1>1 DEF Verdict
<1> QED BY <1>4, <1>5, <1>6, <1>7, <1>8 DEF PInv

LEMMA DecideInv == PInv /\ Decide => PInv'
<1> SUFFICES ASSUME PInv, Decide PROVE PInv'
  OBVIOUS
<1>1. /\ job' = job /\ phase = "up" /\ phase' = "done" /\ keep' = keep /\ changed' = changed
      /\ todo' = todo /\ pruned' = {n \in Nodes : n \notin keep /\ Below(job, n)}
  BY DEF Decide
<1>2. Types'  BY <1>1 DEF PInv, Types, Nodes
<1>3. Seeded'  BY <1>1 DEF PInv, Seeded
<1>4. RulesWhole'  BY <1>1 DEF PInv, RulesWhole, IsRule
<1>5. Followed'  BY <1>1 DEF PInv, Followed, IsRef
<1>6. Verdict'  BY <1>1 DEF Verdict, Nodes
<1> QED BY <1>2, <1>3, <1>4, <1>5, <1>6 DEF PInv

LEMMA MismatchInv == PInv /\ Mismatch => PInv'
BY DEF PInv, Mismatch, Types, Nodes, Seeded, RulesWhole, IsRule, Followed, Verdict

LEMMA StutterInv == PInv /\ UNCHANGED vars => PInv'
BY DEF PInv, vars, Types, Nodes, Seeded, RulesWhole, IsRule, Followed, IsRef, Verdict

THEOREM Invariance == Spec => []PInv
<1>1. PInv /\ [Next]_vars => PInv'
  BY SeedInv, SweepInv, FollowInv, TurnInv, ReattachInv, DecideInv, MismatchInv, StutterInv
     DEF Next
<1> QED BY InitInv, <1>1, PTL DEF Spec
-----------------------------------------------------------------------------
(***************************************************************************)
(* The properties.                                                         *)
(***************************************************************************)
\* Every state of the pruner is well formed: what it keeps and prunes are nodes of
\* the AST it was given (pruner.py prune, _expand_protection).
THEOREM TypeCorrect == Spec => []TypeOK
<1>1. PInv => TypeOK
  BY JobsAreJobs DEF PInv, Types, TypeOK
<1> QED BY <1>1, Invariance, PTL

LEMMA KeptIsNotWeak ==
    ASSUME PInv, Done, NEW n \in Nodes
    PROVE  n \in Kept <=> n \in keep \/ ~ Below(job, n)
BY DEF PInv, Verdict, Done, Kept

\* The claim codegen.py rests on: in the emitted document a reference that is not
\* pruned names a rule that is not pruned.
THEOREM ReferencesSafe == Spec => []KeptReferenceHasKeptRule
<1>1. ASSUME PInv, Done, NEW n \in Kept, Kind(n) = "reference", NEW r \in Targets(job, n)
      PROVE  r \in Kept
  <2>1. /\ job \in Jobs /\ n \in Nodes /\ r \in Nodes
        /\ n \in DOMAIN job.ast.nodes /\ r \in DOMAIN job.ast.nodes
    BY <1>1, TargetsAreRules DEF PInv, Types, Kept, Nodes
  <2>2. CASE n \in keep
    <3>1. WeakTargets(job, n) \subseteq keep
      BY <1>1, <2>2 DEF PInv, Followed, Done, IsRef, Kind
    <3>2. CASE Below(job, r)
      BY <1>1, <2>1, <3>1, <3>2, KeptIsNotWeak DEF WeakTargets
    <3>3. CASE ~ Below(job, r)
      BY <1>1, <2>1, <3>3, KeptIsNotWeak
    <3> QED BY <3>2, <3>3
  <2>3. CASE n \notin keep
    <3>1. ~ Below(job, n)  BY <1>1, <2>1, <2>3, KeptIsNotWeak
    <3>2. r \in Required(job.ast, n)
      BY <1>1 DEF Required, Targets, Kind
    <3>3. job.hits[n] <= job.hits[r]
      BY <2>1, <3>2, JobsAreJobs DEF HitsCovered
    <3>4. ~ Below(job, r)
      BY <2>1, <3>1, <3>3, BelowMonotone
    <3> QED BY <1>1, <2>1, <3>4, KeptIsNotWeak
  <2> QED BY <2>2, <2>3
<1>2. PInv => KeptReferenceHasKeptRule
  BY <1>1 DEF KeptReferenceHasKeptRule
<1> QED BY <1>2, Invariance, PTL

\* The sub-grammar of a protected node is kept: its subtree, and from reference to
\* reference the whole of each rule that usage alone would prune
\* (docs/overrides.md, pruner.py _expand_protection).
THEOREM SubgrammarSafe == Spec => []SubgrammarKept
<1>1. ASSUME PInv, Done, NEW n \in keep, job.ast.nodes[n].kind = "reference",
             NEW r \in WeakTargets(job, n)
      PROVE  Subtree(job.ast, r) \subseteq keep
  <2>1. r \in keep
    BY <1>1 DEF PInv, Followed, Done, IsRef
  <2>2. IsRule(r)
    BY <1>1, TargetsAreRules DEF PInv, Types, IsRule
  <2> QED BY <1>1, <2>1, <2>2 DEF PInv, RulesWhole
<1>2. PInv /\ Done => DownClosed(job, keep)
  BY <1>1 DEF DownClosed
<1>3. PInv /\ Done => \A p \in Protected(job) : Subtree(job.ast, p) \subseteq keep
  BY DEF PInv, Seeded, Done
<1>4. PInv /\ Done => keep \subseteq Kept
  BY DEF PInv, Types, Verdict, Done, Kept
<1>5. PInv => SubgrammarKept
  BY <1>2, <1>3, <1>4 DEF SubgrammarKept
<1> QED BY <1>5, Invariance, PTL
-----------------------------------------------------------------------------
(***************************************************************************)
(* The outcome is one set, whatever the order: the protected set stays     *)
(* within the closure while it grows, holds it when the sweeps are over,   *)
(* and the contexts added to it then depend on the job alone.              *)
(***************************************************************************)
\* A reference in the closure leaves nothing to follow.
LEMMA ClosureFollows ==
    ASSUME NEW j, NEW n \in Closure(j), j.ast.nodes[n].kind = "reference",
           NEW r \in WeakTargets(j, n)
    PROVE  Subtree(j.ast, r) \subseteq Closure(j)
<1> DEFINE least == {q \in WeakRules(j) : \A R \in Closed(j) : q \in R}
<1>1. Closure(j) = Grown(j, least)
  BY DEF Closure
<1>2. ASSUME NEW R \in Closed(j) PROVE r \in R
  <2>1. least \subseteq R
    OBVIOUS
  <2>2. n \in Grown(j, R)
    BY <1>1, <2>1 DEF Grown
  <2>3. r \in Missing(j, Grown(j, R))
    BY <2>2 DEF Missing
  <2> QED BY <2>3 DEF Closed
<1>3. r \in WeakRules(j)
  BY DEF WeakTargets, Targets, Rules, WeakRules
<1>4. r \in least
  BY <1>2, <1>3
<1> QED BY <1>1, <1>4 DEF Grown

LEMMA ClosureHoldsProtected ==
    ASSUME NEW j, NEW p \in Protected(j)
    PROVE  Subtree(j.ast, p) \subseteq Closure(j)
BY DEF Closure, Grown

\* A set that holds the protected subtrees and leaves nothing to follow holds it.
LEMMA ClosureIsLeast ==
    ASSUME NEW j, NEW S, DownClosed(j, S),
           \A p \in Protected(j) : Subtree(j.ast, p) \subseteq S
    PROVE  Closure(j) \subseteq S
<1> DEFINE R == {r \in WeakRules(j) : Subtree(j.ast, r) \subseteq S}
<1>1. Grown(j, R) \subseteq S
  BY DEF Grown
<1>2. ASSUME NEW r \in Missing(j, Grown(j, R)) PROVE r \in R
  <2>1. PICK n \in S : j.ast.nodes[n].kind = "reference" /\ r \in WeakTargets(j, n)
    BY <1>1, <1>2 DEF Missing
  <2>2. r \in WeakRules(j)
    BY <2>1 DEF WeakTargets, Targets, Rules, WeakRules
  <2> QED BY <2>1, <2>2 DEF DownClosed
<1>3. R \in Closed(j)
  BY <1>2 DEF Closed
<1>4. Closure(j) \subseteq Grown(j, R)
  BY <1>3 DEF Closure, Grown
<1> QED BY <1>1, <1>4

Contexts(j) == UNION {Context(j, n) : n \in Reattached(j)}

Within ==
    /\ phase = "seed" => todo = {}
    /\ phase \in {"seed", "down"} => keep \subseteq Closure(job)
    /\ phase = "down" => todo \subseteq {n \in keep : IsRef(n)}
    /\ phase \in {"up", "done"} =>
          Closure(job) \subseteq keep /\ keep \subseteq Closure(job) \cup Contexts(job)
    /\ phase = "up" => \A n \in Reattached(job) \ todo : Context(job, n) \subseteq keep
    /\ phase = "done" => keep = Closure(job) \cup Contexts(job)

\* Once the sweeps are over nothing is left to follow.
LEMMA SweptIsClosed ==
    ASSUME PInv, phase = "down", ~ changed, todo = {}
    PROVE  Closure(job) \subseteq keep
<1>1. ASSUME NEW n \in keep, job.ast.nodes[n].kind = "reference", NEW r \in WeakTargets(job, n)
      PROVE  Subtree(job.ast, r) \subseteq keep
  <2>1. r \in keep
    BY <1>1 DEF PInv, Followed, IsRef
  <2>2. IsRule(r)
    BY <1>1, TargetsAreRules DEF PInv, Types, IsRule
  <2> QED BY <2>1, <2>2 DEF PInv, RulesWhole
<1>2. DownClosed(job, keep)
  BY <1>1 DEF DownClosed
<1>3. \A p \in Protected(job) : Subtree(job.ast, p) \subseteq keep
  BY DEF PInv, Seeded
<1> QED BY <1>2, <1>3, ClosureIsLeast

LEMMA WithinSeed == ASSUME Within, Seed PROVE Within'
<1>1. /\ job' = job /\ phase' = "down" /\ todo' = {}
      /\ keep' = UNION {Subtree(job.ast, p) : p \in Protected(job)}
  BY DEF Seed, Within
<1>2. keep' \subseteq Closure(job)
  BY <1>1, ClosureHoldsProtected
<1> QED BY <1>1, <1>2 DEF Within

LEMMA WithinFollow == ASSUME PInv, Within, NEW n \in todo, Follow(n) PROVE Within'
<1>1. /\ job' = job /\ phase = "down" /\ phase' = "down" /\ todo' = todo \ {n}
      /\ keep' = keep \cup UNION {Subtree(job.ast, r) : r \in WeakTargets(job, n) \ keep}
  BY DEF Follow
<1>2. n \in Closure(job) /\ job.ast.nodes[n].kind = "reference"
  BY <1>1 DEF Within, IsRef
<1>3. \A r \in WeakTargets(job, n) : Subtree(job.ast, r) \subseteq Closure(job)
  BY <1>2, ClosureFollows
<1>4. keep' \subseteq Closure(job)
  BY <1>1, <1>3 DEF Within
<1>5. todo' \subseteq {m \in keep' : IsRef(m)'}
  BY <1>1 DEF Within, IsRef
<1> QED BY <1>1, <1>4, <1>5 DEF Within

LEMMA WithinReattach == ASSUME Within, NEW n \in todo, PInv, Reattach(n) PROVE Within'
<1>1. /\ job' = job /\ phase = "up" /\ phase' = "up" /\ todo' = todo \ {n}
      /\ keep' = keep \cup Context(job, n)
  BY DEF Reattach
<1>2. n \in Reattached(job)
  BY <1>1 DEF PInv, Types
<1>3. Context(job, n) \subseteq Contexts(job)
  BY <1>2 DEF Contexts
<1>4. Closure(job) \subseteq keep' /\ keep' \subseteq Closure(job) \cup Contexts(job)
  BY <1>1, <1>3 DEF Within
<1>5. \A m \in Reattached(job) \ todo' : Context(job, m) \subseteq keep'
  BY <1>1 DEF Within
<1> QED BY <1>1, <1>4, <1>5 DEF Within

LEMMA WithinStep == PInv /\ Within /\ [Next]_vars => Within'
<1> SUFFICES ASSUME PInv, Within, [Next]_vars PROVE Within'
  OBVIOUS
<1>1. CASE Mismatch
  BY <1>1 DEF Mismatch, Within
<1>2. CASE Seed
  BY <1>2, WithinSeed
<1>3. CASE Sweep
  BY <1>3 DEF Sweep, Within, IsRef, Kind
<1>4. CASE Turn
  <2>1. /\ job' = job /\ phase = "down" /\ phase' = "up" /\ keep' = keep
        /\ todo' = Reattached(job) /\ Closure(job) \subseteq keep
    BY <1>4, SweptIsClosed DEF Turn
  <2> QED BY <2>1 DEF Within
<1>5. CASE Decide
  <2>1. /\ job' = job /\ phase = "up" /\ phase' = "done" /\ keep' = keep /\ todo = {}
    BY <1>5 DEF Decide
  <2>2. keep = Closure(job) \cup Contexts(job)
    BY <2>1 DEF Within, Contexts
  <2> QED BY <2>1, <2>2 DEF Within
<1>6. CASE \E n \in todo : Follow(n) \/ Reattach(n)
  BY <1>6, WithinFollow, WithinReattach
<1>7. CASE UNCHANGED vars
  BY <1>7 DEF vars, Within, IsRef
<1> QED BY <1>1, <1>2, <1>3, <1>4, <1>5, <1>6, <1>7 DEF Next

LEMMA WithinAlways == Spec => []Within
<1>1. Init => Within
  BY DEF Init, Within
<1> QED BY <1>1, WithinStep, Invariance, PTL DEF Spec

\* The emitted document does not depend on the order in which Python walks the
\* sets: what is kept is the least set the docstring of _expand_protection describes,
\* with the context of the references to protected rules.
THEOREM OneOutcome == Spec => []OrderIndependent
<1>1. Within => OrderIndependent
  BY DEF Within, OrderIndependent, Done, Contexts
<1> QED BY <1>1, WithinAlways, PTL
-----------------------------------------------------------------------------
(***************************************************************************)
(* What a kept node may lose.                                              *)
(***************************************************************************)
\* A protected sub-grammar is whole, up to the rules that need no protection.
LEMMA ClosureIsWhole ==
    ASSUME NEW j \in Jobs, NEW n \in Closure(j), NEW m \in Required(j.ast, n)
    PROVE  m \in Closure(j) \/ ~ Below(j, m)
<1> SUFFICES ASSUME Below(j, m) PROVE m \in Closure(j)
  OBVIOUS
<1> DEFINE least == {q \in WeakRules(j) : \A R \in Closed(j) : q \in R}
<1>1. CASE j.ast.nodes[n].kind = "reference"
  <2>1. m \in Rules(j.ast, j.ast.nodes[n].name)
    BY <1>1 DEF Required
  <2>2. m \in WeakTargets(j, n) /\ m \in DOMAIN j.ast.nodes
    BY <2>1 DEF WeakTargets, Targets, Rules
  <2> QED BY <1>1, <2>2, ClosureFollows, SubtreeFacts
<1>2. CASE j.ast.nodes[n].kind # "reference"
  <2>1. m \in Range(j.ast.nodes[n].children)
    BY <1>2 DEF Required
  <2>2. PICK p \in Protected(j) \cup least : n \in Subtree(j.ast, p)
    BY DEF Closure, Grown
  <2>3. p \in DOMAIN j.ast.nodes
    BY <2>2 DEF Protected, WeakRules
  <2>4. Range(j.ast.nodes[n].children) \subseteq Subtree(j.ast, p)
    BY <2>2, <2>3, SubtreesAreWalks DEF Walked
  <2>5. Subtree(j.ast, p) \subseteq Closure(j)
    BY <2>2 DEF Closure, Grown
  <2> QED BY <2>1, <2>4, <2>5
<1> QED BY <1>1, <1>2

\* The path from a reattached reference up to its rule is kept, with its literals: only
\* a sequence on it can lose anything.
LEMMA ContextIsPath ==
    ASSUME NEW j \in Jobs, NEW r \in Reattached(j), NEW n \in Context(j, r), n # r,
           NEW m \in Required(j.ast, n), m \notin Context(j, r)
    PROVE  j.ast.nodes[n].kind = "sequence" /\ j.ast.nodes[m].kind # "terminal"
<1> DEFINE kind(q) == j.ast.nodes[q].kind
           kids(q) == Range(j.ast.nodes[q].children)
<1>0. IsJob(j) /\ r \in DOMAIN j.ast.nodes /\ kind(r) = "reference"
  BY JobsAreJobs DEF Reattached
<1>1. n \in Wrappers(j, r)
  <2>1. CASE n \in Separators(j, Wrappers(j, r))
    BY <2>1 DEF Separators, Required
  <2> QED BY <2>1 DEF Context
<1>2. /\ n \in DOMAIN j.ast.nodes /\ kind(n) # "rule" /\ kids(n) \subseteq DOMAIN j.ast.nodes
      /\ r \in Subtree(j.ast, n) \ {n} /\ j.ast.nodes[n].children # << >>
  BY <1>0, <1>1 DEF Wrappers, IsJob, Range
<1>3. PICK c \in kids(n) : r \in Subtree(j.ast, c)
  BY <1>2, SubtreesAreWalks DEF Walked
<1>4. c \in Context(j, r)
  <2>0. c \in DOMAIN j.ast.nodes /\ kind(c) # "rule"
    BY <1>0, <1>2, <1>3 DEF IsJob
  <2>1. CASE c = r
    BY <2>1 DEF Context
  <2>2. CASE c # r
    <3>1. \E d \in kids(c) : r \in Subtree(j.ast, d)
      BY <1>3, <2>0, <2>2, SubtreesAreWalks DEF Walked
    <3>2. j.ast.nodes[c].children # << >>
      BY <3>1 DEF Range
    <3> QED BY <1>3, <2>0, <3>2 DEF Context, Wrappers
  <2> QED BY <2>1, <2>2
<1>5. kind(n) \in {"group", "sequence"} /\ m \in kids(n)
  <2>1. kind(n) # "reference"
    BY <1>0, <1>2 DEF IsJob
  <2> QED BY <1>2, <2>1 DEF Required
<1>6. kind(n) # "group"
  <2> SUFFICES ASSUME kind(n) = "group" PROVE FALSE
    OBVIOUS
  <2>1. Len(j.ast.nodes[n].children) = 1 /\ j.ast.nodes[n].children \in Seq(DOMAIN j.ast.nodes)
    BY <1>0, <1>2 DEF IsJob
  <2>2. \A x, y \in kids(n) : x = y
    BY <2>1 DEF Range
  <2> QED BY <1>3, <1>4, <1>5, <2>2
<1>7. kind(m) # "terminal"
  <2> SUFFICES ASSUME kind(m) = "terminal" PROVE FALSE
    OBVIOUS
  <2>1. m \in Separators(j, Wrappers(j, r))
    BY <1>1, <1>2, <1>5, <1>6 DEF Separators
  <2> QED BY <2>1 DEF Context
<1> QED BY <1>5, <1>6, <1>7

\* What is kept can still be used, at any threshold and for any counts that satisfy the
\* node-hit invariant: only a sequence around a reattached reference is ever kept in
\* part, and keeps its literals (pruner.py prune, _expand_protection).
THEOREM RequiredSafe == Spec => []RequiredKept
<1>1. ASSUME PInv, Within, Done, NEW n \in Kept, NEW m \in Required(job.ast, n) \ Kept
      PROVE  /\ Below(job, n) /\ n \notin Closure(job)
             /\ Kind(n) = "sequence" /\ Kind(m) # "terminal"
  <2>1. job \in Jobs /\ n \in Nodes /\ n \in DOMAIN job.ast.nodes
    BY <1>1 DEF PInv, Types, Kept, Nodes
  <2>2. m \in DOMAIN job.ast.nodes
    <3>1. Range(job.ast.nodes[n].children) \subseteq DOMAIN job.ast.nodes
      BY <2>1, JobsAreJobs DEF IsJob, Range
    <3> QED BY <1>1, <3>1 DEF Required, Rules
  <2>3. Below(job, m) /\ m \notin keep
    BY <1>1, <2>2, KeptIsNotWeak DEF Nodes
  <2>4. job.hits[n] <= job.hits[m]
    BY <1>1, <2>1, JobsAreJobs DEF HitsCovered
  <2>5. Below(job, n)
    BY <2>1, <2>2, <2>3, <2>4, BelowMonotone
  <2>6. keep = Closure(job) \cup Contexts(job)
    BY <1>1 DEF Within, Done
  <2>7. n \notin Closure(job)
    BY <1>1, <2>1, <2>3, <2>6, ClosureIsWhole
  <2>8. PICK r \in Reattached(job) : n \in Context(job, r)
    BY <1>1, <2>1, <2>5, <2>6, <2>7, KeptIsNotWeak DEF Contexts
  <2>9. Context(job, r) \subseteq keep
    BY <2>6 DEF Contexts
  <2>10. n # r
    <3> SUFFICES ASSUME n = r PROVE FALSE
      OBVIOUS
    <3>1. Kind(n) = "reference" /\ n \in keep
      BY <2>8, <2>9 DEF Reattached, Kind
    <3>2. m \in WeakTargets(job, n)
      BY <1>1, <2>3, <3>1 DEF Required, WeakTargets, Targets, Kind
    <3>3. WeakTargets(job, n) \subseteq keep
      BY <1>1, <3>1 DEF PInv, Followed, Done, IsRef, Kind
    <3> QED BY <2>3, <3>2, <3>3
  <2>11. Kind(n) = "sequence" /\ Kind(m) # "terminal"
    BY <1>1, <2>1, <2>3, <2>8, <2>9, <2>10, ContextIsPath DEF Kind
  <2> QED BY <2>5, <2>7, <2>11
<1>2. PInv /\ Within => RequiredKept
  BY <1>1 DEF RequiredKept
<1> QED BY <1>2, Invariance, WithinAlways, PTL
=============================================================================
