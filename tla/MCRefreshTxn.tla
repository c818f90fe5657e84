----------------------------- MODULE MCRefreshTxn -----------------------------
(* Values for model-checking RefreshTxn: sessions, workers, jobs and        *)
(* accounts are alike.                                                      *)
EXTENDS RefreshTxn, TLC

Alike ==
  Permutations(Session) \cup Permutations(Worker) \cup Permutations(Job) \cup Permutations(Account)
=============================================================================
