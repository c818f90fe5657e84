---------------------------- MODULE RefreshWorker ----------------------------
(***************************************************************************)
(* The persistent workers of scripts/run_cloud_refresh_worker.py over the  *)
(* durable coordinator: each worker process polls, claims a job, spawns    *)
(* the ingestion round as a child process of its own session, reads the    *)
(* child's output while a thread renews the lease, and settles the job.    *)
(*                                                                         *)
(* Processes crash, are told to stop, and are restarted; a database call   *)
(* may fail; a heartbeat may come too late.  One budget, MaxFaults, bounds *)
(* all of these together.  A child may outlive its crashed worker, and     *)
(* then keeps the flock of its host until it ends.                         *)
(***************************************************************************)
EXTENDS RefreshJobs

CONSTANTS
  Process,     \* worker processes
  NoProcess,   \* the parent of an orphaned child
  Host,        \* machines, each with one LOCK_PATH
  HostOf,      \* where a process, and its child, runs
  IdOf,        \* what worker_id() answers, the same after a restart
  MaxFaults    \* bound: crashes, stop signals, failed calls and stalls

ASSUME WorkerAssumption ==
  /\ NoProcess \notin Process
  /\ HostOf \in [Process -> Host]
  /\ IdOf \in [Process -> WorkerId]
  /\ \A p, q \in Process : IdOf[p] = IdOf[q] => p = q
  /\ MaxFaults \in Nat
  \* finalize_runner_failure reports with states of its own, and no counters.
  /\ {"failed", "skipped"} \subseteq Reported /\ {} \in Tallies

VARIABLES
  proc,      \* the main loop and the heartbeat thread of each process
  runners,   \* live child processes
  faults     \* faults so far

workerVars == <<job, market, events, proc, runners, faults>>

ProcRow ==
  [pc : {"poll", "claim", "claimed", "reading", "reaped", "finalizing", "failing",
         "exited", "dead"},
   job : Job \cup {0}, attempt : 0..MaxAttempts,
   beat : {"off", "on", "lost"}, stop : {"no", "yes"}, exit : {"none", "ok", "error"}]

Runner ==
  [parent : Process \cup {NoProcess}, host : Host, job : Job, attempt : 0..MaxAttempts,
   phase : {"starting", "ingesting"}]

WorkerTypeOK ==
  /\ TypeOK
  /\ proc \in [Process -> ProcRow]
  /\ runners \subseteq Runner
  /\ faults \in 0..MaxFaults

-----------------------------------------------------------------------------

\* Every process of a service answering with the service's id.
WorkerOf_Service(p) == CHOOSE w \in WorkerId : TRUE

WorkerOf(p) == IdOf[p]

FreshProc ==
  [pc |-> "poll", job |-> 0, attempt |-> 0, beat |-> "off", stop |-> "no",
   exit |-> "none"]

\* The database accepts p as the owner of the job it works on.
Owning(p) == proc[p].job # 0 /\ Owns(WorkerOf(p), proc[p].job)

ChildOf(p) == {r \in runners : r.parent = p}

Goto(p, pc) == proc' = [proc EXCEPT ![p] = [@ EXCEPT !.pc = pc]]

Fault == faults < MaxFaults /\ faults' = faults + 1

\* The finally clause of execute_claimed_job: no heartbeat, no child.  The
\* process is back in its loop, or marks the job failed first.
Leave_KeepsChild(p, pc) ==
  /\ proc' = [proc EXCEPT ![p] =
       IF pc = "poll" THEN [FreshProc EXCEPT !.stop = proc[p].stop]
       ELSE [@ EXCEPT !.pc = pc, !.beat = "off"]]
  /\ UNCHANGED runners

Leave(p, pc) ==
  /\ proc' = [proc EXCEPT ![p] =
       IF pc = "poll" THEN [FreshProc EXCEPT !.stop = proc[p].stop]
       ELSE [@ EXCEPT !.pc = pc, !.beat = "off"]]
  /\ runners' = runners \ ChildOf(p)

-----------------------------------------------------------------------------

WorkerInit ==
  /\ Init
  /\ proc = [p \in Process |-> FreshProc]
  /\ runners = {}
  /\ faults = 0

\* The web control plane.
Web ==
  /\ \/ \E j \in Job, a \in Account, i \in Input \cup {NoInput} : Create(j, a, i)
     \/ \E j \in Job : RequestCancel(j) \/ CancelQueued(j)
  /\ UNCHANGED <<proc, runners, faults>>

\* while not _STOP_EVENT.is_set()
KeepsPolling_Forever(p) == proc[p].pc = "poll"

KeepsPolling(p) == proc[p].pc = "poll" /\ proc[p].stop = "no"

\* No transaction is open between actions, so SKIP LOCKED skips nothing.
Recover(p) ==
  /\ KeepsPolling(p)
  /\ LET S == {j \in Job : Expired(j)}
     IN  IF S = {} THEN UNCHANGED vars ELSE RequeueExpired(S)
  /\ Goto(p, "claim")
  /\ UNCHANGED <<runners, faults>>

TakeJob(p) ==
  /\ proc[p].pc = "claim"
  /\ \/ \E j \in Job :
          /\ Claim(WorkerOf(p), j)
          /\ proc' = [proc EXCEPT ![p] =
               [@ EXCEPT !.pc = "claimed", !.job = j, !.attempt = job'[j].attempt]]
     \/ /\ \A j \in Job : ~Claimable(j)
        /\ Goto(p, "poll")
        /\ UNCHANGED vars
  /\ UNCHANGED <<runners, faults>>

\* The structured input is imported and the child spawned, or either raises;
\* there is no heartbeat yet.
ImportFails(p) ==
  /\ proc[p].pc = "claimed"
  /\ Leave(p, "failing")
  /\ UNCHANGED <<job, market, events, faults>>

Spawn(p) ==
  /\ proc[p].pc = "claimed"
  /\ proc' = [proc EXCEPT ![p] = [@ EXCEPT !.pc = "reading", !.beat = "on"]]
  /\ runners' = runners \cup
       {[parent |-> p, host |-> HostOf[p], job |-> proc[p].job,
         attempt |-> proc[p].attempt, phase |-> "starting"]}
  /\ UNCHANGED <<job, market, events, faults>>

\* Heartbeat._run: whatever the exception, the lease counts as lost.
Beat(p) ==
  /\ proc[p].beat = "on"
  /\ \/ /\ Owning(p)
        /\ Heartbeat(WorkerOf(p), proc[p].job)
        /\ UNCHANGED <<proc, faults>>
     \/ /\ IF Owning(p) THEN Fault ELSE UNCHANGED faults
        /\ proc' = [proc EXCEPT ![p] = [@ EXCEPT !.beat = "lost"]]
        /\ UNCHANGED vars
  /\ UNCHANGED runners

\* What the runner that r stands for does: takes the flock of its host, or
\* finds it taken and exits; ingests; exits.
Exits(r, code) ==
  /\ runners' = runners \ {r}
  /\ IF r.parent = NoProcess THEN UNCHANGED proc
     ELSE proc' = [proc EXCEPT ![r.parent] = [@ EXCEPT !.exit = code]]

TakeLock(r) ==
  /\ r.phase = "starting"
  /\ IF \E q \in runners : q.phase = "ingesting" /\ q.host = r.host
     THEN Exits(r, "error")
     ELSE /\ runners' = (runners \ {r}) \cup {[r EXCEPT !.phase = "ingesting"]}
          /\ UNCHANGED proc
  /\ UNCHANGED <<job, market, events, faults>>

RunnerExit(r) ==
  /\ \/ r.phase = "ingesting" /\ Exits(r, "ok")
     \/ Exits(r, "error")
  /\ UNCHANGED <<job, market, events, faults>>

\* One line of output is read.  _STOP_EVENT and heartbeat.lease_lost are looked
\* at here and, while the child is silent, nowhere else.
Line(p) ==
  /\ proc[p].pc = "reading"
  /\ \/ /\ proc[p].stop = "yes" \/ proc[p].beat = "lost"
        /\ proc' = [proc EXCEPT ![p] =
             [@ EXCEPT !.pc = "reaped",
                       !.exit = IF proc[p].exit = "none" THEN "error" ELSE proc[p].exit]]
        /\ runners' = runners \ ChildOf(p)
        /\ UNCHANGED <<job, market, events, faults>>
     \/ /\ proc[p].stop = "no" /\ proc[p].beat # "lost"
        /\ \/ /\ Owning(p)
              /\ \E m \in Marketplace, s \in Reported, c \in Tallies :
                   UpdateMarketplace(WorkerOf(p), proc[p].job, m, s, c)
              /\ UNCHANGED <<proc, runners, faults>>
           \/ /\ ~Owning(p)
              /\ Leave(p, "poll")
              /\ UNCHANGED <<job, market, events, faults>>
           \/ /\ Fault
              /\ Leave(p, "failing")
              /\ UNCHANGED <<job, market, events>>

\* The output ends and child.wait() returns.
Reap(p) ==
  /\ proc[p].pc = "reading"
  /\ proc[p].exit # "none"
  /\ Goto(p, "reaped")
  /\ UNCHANGED <<job, market, events, runners, faults>>

Succeeded_Signalled(p) == proc[p].exit # "none"

Succeeded(p) == proc[p].exit = "ok"

\* After the child: a lost lease first, then a stop, then the return code.  A
\* stop that comes after the child has ended requeues finished work.
Settle(p) ==
  /\ proc[p].pc = "reaped"
  /\ IF proc[p].beat = "lost"
     THEN Leave(p, "poll") /\ UNCHANGED <<job, market, events, faults>>
     ELSE IF proc[p].stop = "yes"
     THEN \/ /\ Release(WorkerOf(p), proc[p].job)
             /\ Leave(p, "poll")
             /\ UNCHANGED faults
          \/ /\ job[proc[p].job].owner # WorkerOf(p)
             /\ Leave(p, "poll")
             /\ UNCHANGED <<job, market, events, faults>>
          \/ Fault /\ Leave(p, "failing") /\ UNCHANGED <<job, market, events>>
     ELSE IF Succeeded(p)
     THEN \/ /\ MarkCompleted(WorkerOf(p), proc[p].job)
             /\ Leave(p, "poll")
             /\ UNCHANGED faults
          \/ /\ ~AllCompletable(proc[p].job)
             /\ Leave(p, "failing")
             /\ UNCHANGED <<job, market, events, faults>>
          \/ /\ AllCompletable(proc[p].job) /\ ~Owning(p)
             /\ Leave(p, "poll")
             /\ UNCHANGED <<job, market, events, faults>>
          \/ Fault /\ Leave(p, "failing") /\ UNCHANGED <<job, market, events>>
     ELSE Goto(p, "finalizing") /\ UNCHANGED <<job, market, events, runners, faults>>

Unsettled(j) == {m \in Marketplace : market[j][m].state \in {"waiting", "running"}}

\* finalize_runner_failure, one row at a time, then mark_refresh_job_failed.
Finalize(p) ==
  /\ proc[p].pc = "finalizing"
  /\ \/ /\ \E m \in Unsettled(proc[p].job), s \in {"failed", "skipped"} :
             UpdateMarketplace(WorkerOf(p), proc[p].job, m, s, {})
        /\ UNCHANGED <<proc, runners, faults>>
     \/ /\ Unsettled(proc[p].job) = {}
        /\ MarkFailed(WorkerOf(p), proc[p].job, {})
        /\ Leave(p, "poll")
        /\ UNCHANGED faults
     \/ /\ ~Owning(p)
        /\ Leave(p, "poll")
        /\ UNCHANGED <<job, market, events, faults>>
     \/ Fault /\ Leave(p, "failing") /\ UNCHANGED <<job, market, events>>

\* run_worker's handler: the job fails, or the lease is gone, or this call
\* fails as well and the job stays running until its lease expires.
Fail(p) ==
  /\ proc[p].pc = "failing"
  /\ \/ MarkFailed(WorkerOf(p), proc[p].job, {}) /\ UNCHANGED faults
     \/ ~Owning(p) /\ UNCHANGED <<job, market, events, faults>>
     \/ Fault /\ UNCHANGED <<job, market, events>>
  /\ Leave(p, "poll")

\* SIGTERM or SIGINT
RequestStop(p) ==
  /\ proc[p].pc \notin {"exited", "dead"}
  /\ proc[p].stop = "no"
  /\ Fault
  /\ proc' = [proc EXCEPT ![p] = [@ EXCEPT !.stop = "yes"]]
  /\ UNCHANGED <<job, market, events, runners>>

Shutdown(p) ==
  /\ proc[p].pc = "poll" /\ proc[p].stop = "yes"
  /\ Goto(p, "exited")
  /\ UNCHANGED <<job, market, events, runners, faults>>

\* The worker dies, alone or with its child.
Crash(p) ==
  /\ proc[p].pc \notin {"exited", "dead"}
  /\ Fault
  /\ proc' = [proc EXCEPT ![p] = [FreshProc EXCEPT !.pc = "dead"]]
  /\ \E orphans \in {{}, {[r EXCEPT !.parent = NoProcess] : r \in ChildOf(p)}} :
       runners' = (runners \ ChildOf(p)) \cup orphans
  /\ UNCHANGED <<job, market, events>>

\* restartPolicyType ALWAYS
Restart(p) ==
  /\ proc[p].pc \in {"exited", "dead"}
  /\ proc' = [proc EXCEPT ![p] = FreshProc]
  /\ UNCHANGED <<job, market, events, runners, faults>>

\* A heartbeat interval is less than half a lease, so that a lease under which
\* a process works and beats runs out only when something stalls.
Due(p) ==
  /\ Owning(p)
  /\ proc[p].beat # "lost"
  /\ job[proc[p].job].lease = 1

ClockTick ==
  /\ Tick
  /\ IF \E p \in Process : Due(p) THEN Fault ELSE UNCHANGED faults
  /\ UNCHANGED <<proc, runners>>

\* The main thread of p.
Main(p) ==
  \/ Recover(p) \/ TakeJob(p) \/ ImportFails(p) \/ Spawn(p) \/ Reap(p)
  \/ Settle(p) \/ Finalize(p) \/ Fail(p) \/ Shutdown(p)

RunnerStep == \E r \in runners : TakeLock(r) \/ RunnerExit(r)

WorkerNext ==
  \/ Web
  \/ \E p \in Process :
       Main(p) \/ Beat(p) \/ Line(p) \/ RequestStop(p) \/ Crash(p) \/ Restart(p)
  \/ RunnerStep
  \/ ClockTick

\* Threads are scheduled, children end, supervisors restart, clocks run.
Fairness ==
  /\ \A p \in Process : /\ WF_workerVars(Main(p))
                        /\ WF_workerVars(Beat(p))
                        /\ WF_workerVars(Restart(p))
  /\ WF_workerVars(RunnerStep)
  /\ WF_workerVars(ClockTick)

WorkerSpec == WorkerInit /\ [][WorkerNext]_workerVars /\ Fairness

-----------------------------------------------------------------------------
(* Properties *)

\* No duplicate ownership: a process that the database would still accept as
\* the owner of the job it works on is the one that made the latest claim.
OwnerIsClaimant ==
  \A p \in Process :
    Owning(p) => proc[p].attempt = job[proc[p].job].attempt

\* A child whose worker lives is being read or settled by it, for the job and
\* the attempt it was spawned for: no worker loops on past its own child.
NoStrayChild ==
  \A r \in runners : r.parent # NoProcess =>
    /\ proc[r.parent].pc = "reading"
    /\ proc[r.parent].job = r.job /\ proc[r.parent].attempt = r.attempt
    /\ proc[r.parent].exit = "none"

\* A job completes only when the child of its current attempt has exited with
\* status 0, whatever earlier attempts and their orphans do.
CompletedByRunner ==
  [][\A j \in Job : job[j].state # "completed" /\ job'[j].state = "completed" =>
       \E p \in Process : /\ proc[p].job = j /\ proc[p].attempt = job[j].attempt
                          /\ proc[p].exit = "ok"]_workerVars

\* A queued job is in the end completed, failed or cancelled: no crash, stop,
\* lost lease or failed call leaves it behind.
JobSettles ==
  \A j \in Job : job[j].state = "queued" ~> job[j].state \in JobStates \ ActiveStates

\* A worker told to stop ends, whatever job it has in hand.
StopIsHonoured ==
  \A p \in Process : proc[p].stop = "yes" ~> proc[p].pc \in {"exited", "dead"}

=============================================================================
