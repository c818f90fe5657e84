----------------------------- MODULE LeaseQueue -----------------------------
(***************************************************************************)
(* What the refresh coordinator promises to its callers: a set of jobs of  *)
(* which at most one at a time is in the hands of a worker.  A worker may  *)
(* lose a job it holds, by giving it back or by silence, and the job can   *)
(* then be granted again; only its holder finishes a job, once; a job that *)
(* nobody holds may be withdrawn.                                          *)
(***************************************************************************)
CONSTANTS Job, Worker

VARIABLES
  stage,    \* of each job: not submitted, open, or done for good
  holders   \* who works on which job: empty or one pair

vars == <<stage, holders>>

Init ==
  /\ stage = [j \in Job |-> "none"]
  /\ holders = {}

Submit(j) ==
  /\ stage[j] = "none"
  /\ stage' = [stage EXCEPT ![j] = "open"]
  /\ UNCHANGED holders

Grant(w, j) ==
  /\ stage[j] = "open"
  /\ holders = {}
  /\ holders' = {<<j, w>>}
  /\ UNCHANGED stage

\* The holder gives the job back, or is silent until its lease expires.
Lose ==
  /\ holders # {}
  /\ holders' = {}
  /\ UNCHANGED stage

Finish(w, j) ==
  /\ holders = {<<j, w>>}
  /\ stage' = [stage EXCEPT ![j] = "done"]
  /\ holders' = {}

Withdraw(j) ==
  /\ stage[j] = "open"
  /\ \A w \in Worker : <<j, w>> \notin holders
  /\ stage' = [stage EXCEPT ![j] = "done"]
  /\ UNCHANGED holders

Next ==
  \/ \E j \in Job : Submit(j)
  \/ \E w \in Worker, j \in Job : Grant(w, j)
  \/ Lose
  \/ \E w \in Worker, j \in Job : Finish(w, j)
  \/ \E j \in Job : Withdraw(j)

Spec == Init /\ [][Next]_vars

=============================================================================
