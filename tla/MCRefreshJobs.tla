---------------------------- MODULE MCRefreshJobs ----------------------------
(* Values for model-checking RefreshJobs. *)
EXTENDS RefreshJobs, TLC

CONSTANTS a1, a2, w1, w2

McReported == {"done", "failed"}

McTallies == {{"new_count", "visible_count"}}

Symmetric == Permutations({a1, a2}) \cup Permutations({w1, w2})

=============================================================================
