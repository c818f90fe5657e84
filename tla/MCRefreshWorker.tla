--------------------------- MODULE MCRefreshWorker ---------------------------
(* Values for model-checking RefreshWorker. *)
EXTENDS RefreshWorker, TLC

CONSTANTS w1, w2, p1, p2, h

McHostOf == [p \in Process |-> h]

McIdOf == p1 :> w1 @@ p2 :> w2

=============================================================================
