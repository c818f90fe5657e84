-------------------------- MODULE RefreshExecution ---------------------------
(***************************************************************************)
(* One attempt at one job: the runner of SourceRefresh prints into a pipe, *)
(* the worker of DurableProgress reads it some way behind and settles the  *)
(* job once the runner has ended and its output is read, as                *)
(* execute_claimed_job does.  RefreshWorker has the leases and the several *)
(* workers; here the lease is held or has been lost.                       *)
(***************************************************************************)
EXTENDS SourceRefresh, DurableProgress

VARIABLES
  reader,   \* what execute_claimed_job is at
  lease,    \* whether the database still accepts this worker
  settled   \* how the worker left the job

executionVars ==
  <<structured, phase, source, reports, pipe, exit, memory, current, counted, rows,
    reader, lease, settled>>

ExecutionTypeOK ==
  /\ SourceTypeOK
  /\ ProgressTypeOK
  /\ reader \in {"reading", "ended", "left"}
  /\ lease \in {"held", "lost"}
  /\ settled \in {"running", "completed", "failed", "refused", "aborted", "abandoned"}

ExecutionInit ==
  /\ SourceInit
  /\ ProgressInit
  /\ reader = "reading" /\ lease = "held" /\ settled = "running"

Leave(how) ==
  /\ reader' = "left"
  /\ settled' = how
  /\ UNCHANGED lease

Run == RunnerNext /\ UNCHANGED <<progressVars, reader, lease, settled>>

Read ==
  /\ reader = "reading" /\ pipe # <<>> /\ lease = "held"
  /\ Consume(Head(pipe))
  /\ pipe' = Tail(pipe)
  /\ UNCHANGED <<structured, phase, source, reports, exit, reader, lease, settled>>

LoseLease ==
  /\ reader # "left" /\ lease = "held"
  /\ lease' = "lost"
  /\ UNCHANGED <<sourceVars, progressVars, reader, settled>>

\* The child is terminated: on the first line after the lease is lost, or when
\* a line cannot be written for another reason and the job is failed as it is.
Terminate(how) ==
  /\ reader = "reading" /\ pipe # <<>>
  /\ IF lease = "lost" THEN how = "abandoned" ELSE how = "aborted"
  /\ phase' = "exited"
  /\ exit' = IF exit = "none" THEN "error" ELSE exit
  /\ pipe' = <<>>
  /\ Leave(how)
  /\ UNCHANGED <<structured, source, reports, progressVars>>

EndOfOutput ==
  /\ reader = "reading" /\ pipe = <<>> /\ phase = "exited"
  /\ reader' = "ended"
  /\ UNCHANGED <<sourceVars, progressVars, lease, settled>>

Complete ==
  /\ reader = "ended" /\ lease = "held" /\ exit = "ok"
  /\ Leave(IF \A m \in Marketplaces :
                rows[m].state \in {"done", "skipped", "authentication_required",
                                   "awaiting_handoff"}
           THEN "completed" ELSE "refused")
  /\ UNCHANGED <<sourceVars, progressVars>>

FinalizeFailure ==
  /\ reader = "ended" /\ lease = "held" /\ exit = "error"
  /\ \/ FinalizeRow /\ UNCHANGED <<reader, lease, settled>>
     \/ Open = {} /\ Leave("failed") /\ UNCHANGED progressVars
  /\ UNCHANGED sourceVars

Abandon ==
  /\ reader = "ended" /\ lease = "lost"
  /\ Leave("abandoned")
  /\ UNCHANGED <<sourceVars, progressVars>>

\* The attempt is over; nobody waits for anybody before that.
Over == reader = "left" /\ UNCHANGED executionVars

ExecutionNext ==
  \/ Over \/ Run \/ Read \/ LoseLease \/ EndOfOutput \/ Complete \/ FinalizeFailure \/ Abandon
  \/ \E how \in {"aborted", "abandoned"} : Terminate(how)

ExecutionSpec == ExecutionInit /\ [][ExecutionNext]_executionVars

-----------------------------------------------------------------------------
(* Properties *)

\* A runner that exits with status 0 leaves every marketplace completable once
\* its output is read: mark_refresh_job_completed is never refused.
SuccessIsCompletable == settled # "refused"

\* Once the output is read to its end, the durable rows say of each marketplace
\* what the runner's own status file says.
RowsAgree ==
  reader = "ended" /\ exit = "ok" =>
    \A m \in Marketplaces : rows[m].state = Mapped(source[m])

\* A job failed after its runner shows where the refresh stopped: a marketplace
\* is shown as not run exactly when the runner never came to it, as failed when
\* it was at work or had failed, and never as waiting or running.
FailureShowsWhere ==
  settled = "failed" =>
    \A m \in Marketplaces :
      Shown("failed", rows[m]) =
        CASE source[m] = "waiting" -> "not_run"
          [] source[m] \in {"running", "failed"} -> "failed"
          [] OTHER -> source[m]

\* started_at and finished_at go with the state, through every line and reset.
TimesAgree ==
  \A m \in Marketplaces :
    /\ rows[m].state = "running" => rows[m].started = "set" /\ rows[m].finished = "null"
    /\ rows[m].finished = "set" <=> rows[m].state \notin {"waiting", "running"}

\* Within an attempt a marketplace that has finished stays finished, so that the
\* execution_progress shown to the user never goes back.
ProgressIsMonotone ==
  [][\A m \in Marketplaces :
       rows[m].finished = "set" => rows'[m].finished = "set"]_executionVars

\* What --require-all-sources is said to give: a run is not called successful
\* without Buyee.  Not kept by the code: a pending sign-in passes.
StrictRunHasBuyee ==
  structured = "yes" /\ exit = "ok" => source["buyee"] = "done"

=============================================================================
