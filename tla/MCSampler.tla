----------------------------- MODULE MCSampler -----------------------------
(* Small sampling jobs: strata that share URIs, a stratum smaller than its *)
(* quota, zero weights and targets, scores with ties.                      *)
EXTENDS Sampler

S(w, us) == [weight |-> w, uris |-> us]
MCScore == << <<2, 1, 2, 3>>, <<1, 1, 3, 1>>, <<3, 2, 1, 1>> >>

MCStrata == { << >>,
              <<S(1, {1, 2, 3, 4}), S(1, {1, 2, 3, 4})>>,
              <<S(2, {1, 2, 3}), S(1, {2, 3, 4})>>,
              <<S(0, {1, 2}), S(3, {1, 3, 4}), S(2, {2, 4})>>,
              <<S(1, {1, 2}), S(1, {2, 3}), S(1, {1, 3, 4})>>,
              <<S(1, {2, 3, 4}), S(5, {1, 2, 3, 4}), S(3, {1, 4})>>,
              <<S(0, {1}), S(0, {2})>> }
MCJobs == {[strata |-> s, target |-> n, shards |-> k] : s \in MCStrata, n \in 0..5, k \in 1..3}
=============================================================================
