-------------------------------- MODULE Tally --------------------------------
(***************************************************************************)
(* What the telemetry stage promises (telemetry.rs, hitsmerge.py): one     *)
(* count of a whole corpus.  Every sample adds 1 to the total and, if it   *)
(* matched, 1 to each node its parse visited; the hits document published  *)
(* at the end is the count of the complete corpus.  How the corpus is cut  *)
(* into shards, and how shard documents are combined, does not show.       *)
(***************************************************************************)
EXTENDS Integers, Bags

CONSTANT Unpublished     \* no document yet

VARIABLES pending,       \* the samples not counted yet: a set of sample ids
          result,        \* the parse result of each sample (never changes)
          total, hits,   \* the count so far; hits is a bag of node ids
          published

vars == <<pending, result, total, hits, published>>

Credited(s) == IF result[s].matched THEN SetToBag(result[s].visited) ELSE EmptyBag

Init == /\ pending = DOMAIN result
        /\ total = 0
        /\ hits = EmptyBag
        /\ published = Unpublished

Count(s) == /\ s \in pending
            /\ pending' = pending \ {s}
            /\ total' = total + 1
            /\ hits' = hits (+) Credited(s)
            /\ UNCHANGED <<result, published>>

Publish == /\ pending = {}
           /\ published = Unpublished
           /\ published' = [total |-> total, hits |-> hits]
           /\ UNCHANGED <<pending, result, total, hits>>

Next == (\E s \in pending : Count(s)) \/ Publish
Spec == Init /\ [][Next]_vars
=============================================================================
