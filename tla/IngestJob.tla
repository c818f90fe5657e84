------------------------------ MODULE IngestJob ------------------------------
(***************************************************************************)
(* The on-demand refresh of services/auction_ingest_job.py.  A page starts *)
(* a worker process, which runs the production refresh and publishes its   *)
(* status; the pages look at the status every few seconds, and write it    *)
(* themselves when they find the worker gone.                              *)
(*                                                                         *)
(* A status is published by replacing two files, first the job's own and   *)
(* then latest.json, which all accounts share.  Only start_job takes the   *)
(* controller's lock.  The pages are threads of one process: a worker that *)
(* ends remains a zombie, which still answers a signal, until that process *)
(* starts another one or ends.                                             *)
(***************************************************************************)
EXTENDS Integers

CONSTANTS
  Account,
  Nobody,      \* nobody holds the lock; no account
  MaxTabs,     \* bound: pages each account has open
  MaxJobs,     \* bound: jobs ever started
  MaxFaults    \* bound: processes and threads that die, starts that fail

Tab == Account \X (1 .. MaxTabs)

ASSUME IngestAssumption ==
  /\ Nobody \notin Account \cup Tab
  /\ {MaxTabs, MaxJobs, MaxFaults} \subseteq Nat

Job == 1 .. MaxJobs

\* A status document, and the state of a page or a worker that is publishing one
Doc ==
  [job : Job \cup {0}, account : Account \cup {Nobody}, pid : {"null", "set"},
   status : {"none", "queued", "running", "completed", "failed"}]
NoDoc == [job |-> 0, account |-> Nobody, pid |-> "null", status |-> "none"]
Writing == {"nothing", "job", "latest"}

VARIABLES
  file,      \* jobs/<id>.json
  latest,    \* latest.json
  lock,      \* who holds controller.lock
  page,      \* what each page is at
  worker,    \* the worker process of each job
  runner,    \* and the refresh it runs
  late,      \* jobs whose worker_registration_deadline has passed
  jobs, faults

files == <<file, latest>>
processes == <<worker, runner>>
ingestVars == <<files, lock, page, processes, late, jobs, faults>>

Gone == {"none", "zombie", "reaped"}

IngestTypeOK ==
  /\ file \in [Job -> Doc] /\ latest \in Doc
  /\ \A j \in Job : file[j].job \in {0, j}
  /\ lock \in Tab \cup {Nobody}
  /\ page \in [Tab -> [at : {"idle", "locked", "probe", "failing", "creating",
                                 "spawning", "registering", "refusing"},
                           doc : Doc, writing : Writing]]
  /\ \A s \in Tab :
       page[s].at \in {"locked", "creating", "spawning", "registering", "refusing"} => lock = s
  /\ worker \in [Job -> [at : Gone \cup {"waiting", "opening", "reading", "closing"},
                         doc : Doc, writing : Writing, parent : {"page", "init"}]]
  /\ runner \in [Job -> {"none", "running", "ok", "error"}]
  /\ late \subseteq Job
  /\ jobs \in 0 .. MaxJobs /\ faults \in 0 .. MaxFaults

NoPage == [at |-> "idle", doc |-> NoDoc, writing |-> "nothing"]

IngestInit ==
  /\ file = [j \in Job |-> NoDoc] /\ latest = NoDoc
  /\ lock = Nobody
  /\ page = [s \in Tab |-> NoPage]
  /\ worker = [j \in Job |-> [at |-> "none", doc |-> NoDoc, writing |-> "nothing",
                              parent |-> "page"]]
  /\ runner = [j \in Job |-> "none"]
  /\ late = {}
  /\ jobs = 0 /\ faults = 0

Fault == faults < MaxFaults /\ faults' = faults + 1

-----------------------------------------------------------------------------
(* A page *)

\* The slip: a page that only looks gives up the lock, too.
Finish_Unlocks(s) ==
  /\ page' = [page EXCEPT ![s] = NoPage]
  /\ lock' = Nobody

\* The call returns; if it is start_job, the lock is given up.
Finish(s) ==
  /\ page' = [page EXCEPT ![s] = NoPage]
  /\ lock' = IF lock = s THEN Nobody ELSE lock

Publish(s, at, doc) ==
  /\ page' = [page EXCEPT ![s] = [at |-> at, doc |-> doc, writing |-> "job"]]
  /\ UNCHANGED lock

\* start_job takes the lock.
Enter(s) ==
  /\ page[s].at = "idle" /\ lock = Nobody /\ jobs < MaxJobs
  /\ lock' = s
  /\ page' = [page EXCEPT ![s].at = "locked"]
  /\ UNCHANGED <<files, processes, late, jobs, faults>>

Create(s) ==
  /\ jobs < MaxJobs
  /\ jobs' = jobs + 1
  /\ Publish(s, "creating",
       [job |-> jobs', account |-> s[1], pid |-> "null", status |-> "queued"])

\* What get_latest_status takes for a job of s that runs or is about to
ActiveFor(s, doc) == doc.account = s[1] /\ doc.status \in {"queued", "running"}

\* get_latest_status reads latest.json: from a page that is refreshed, or from
\* start_job under the lock.
GetLatest(s) ==
  /\ page[s].at \in {"idle", "locked"}
  /\ IF ~ActiveFor(s, latest)
     THEN IF page[s].at = "locked" THEN Create(s) ELSE UNCHANGED <<lock, page, jobs>>
     ELSE /\ IF latest.pid = "set"
             THEN page' = [page EXCEPT ![s].at = "probe", ![s].doc = latest] /\ UNCHANGED lock
             ELSE IF latest.job \in late
             THEN Publish(s, "failing", [latest EXCEPT !.status = "failed"])
             ELSE Finish(s)
          /\ UNCHANGED jobs
  /\ UNCHANGED <<files, processes, late, faults>>

\* process_is_alive: os.kill(pid, 0)
Alive(j) == worker[j].at \notin {"none", "reaped"}

Probe(s) ==
  /\ page[s].at = "probe"
  /\ IF Alive(page[s].doc.job) THEN Finish(s)
     ELSE Publish(s, "failing", [page[s].doc EXCEPT !.status = "failed"])
  /\ UNCHANGED <<files, processes, late, jobs, faults>>

\* The first of the two files of persist_status
WriteJob(s) ==
  /\ page[s].writing = "job"
  /\ file' = [file EXCEPT ![page[s].doc.job] = page[s].doc]
  /\ page' = [page EXCEPT ![s].writing = "latest"]
  /\ UNCHANGED <<latest, lock, processes, late, jobs, faults>>

\* The second, and what follows
WriteLatest(s) ==
  /\ page[s].writing = "latest"
  /\ latest' = page[s].doc
  /\ CASE page[s].at = "failing" /\ lock = s -> Create(s)
       [] page[s].at = "creating" ->
            /\ page' = [page EXCEPT ![s].at = "spawning", ![s].writing = "nothing"]
            /\ UNCHANGED <<lock, jobs>>
       [] OTHER -> Finish(s) /\ UNCHANGED jobs
  /\ UNCHANGED <<file, processes, late, faults>>

\* Every zombie of the process of the pages is reaped.
Reaped == [j \in Job |-> IF worker[j].at = "zombie" THEN [worker[j] EXCEPT !.at = "reaped"]
                         ELSE worker[j]]

\* subprocess.Popen reaps zombies before it starts the worker, or raises.
Spawn(s) ==
  LET doc == page[s].doc IN
  /\ page[s].at = "spawning"
  /\ \/ /\ worker' = [Reaped EXCEPT ![doc.job].at = "waiting"]
        /\ Publish(s, "registering", [doc EXCEPT !.pid = "set"])
        /\ UNCHANGED faults
     \/ /\ Fault
        /\ worker' = Reaped
        /\ Publish(s, "refusing", [doc EXCEPT !.status = "failed"])
  /\ UNCHANGED <<files, runner, late, jobs>>

\* The call raises or its thread is ended.
PageDies(s) ==
  /\ page[s].at # "idle" /\ Fault
  /\ Finish(s)
  /\ UNCHANGED <<files, processes, late, jobs>>

\* The process of the pages ends and is started anew.
Restart ==
  /\ Fault
  /\ page' = [s \in Tab |-> NoPage]
  /\ lock' = Nobody
  /\ worker' = [j \in Job |-> [Reaped[j] EXCEPT !.parent = "init"]]
  /\ UNCHANGED <<files, runner, late, jobs>>

\* Another page starts another process.
Reap ==
  /\ worker' = Reaped /\ worker' # worker
  /\ UNCHANGED <<files, lock, page, runner, late, jobs, faults>>

-----------------------------------------------------------------------------
(* A worker *)

WorkerTo(j, at, doc, writing) ==
  worker' = [worker EXCEPT ![j].at = at, ![j].doc = doc, ![j].writing = writing]

Exit(j) ==
  WorkerTo(j, IF worker[j].parent = "page" THEN "zombie" ELSE "reaped", NoDoc, "nothing")

\* The slip: the worker does not wait for its pid.
Registered_AtOnce(j) == file[j].job = j

Registered(j) == file[j].pid = "set"

\* wait_for_worker_registration, and the status running
Register(j) ==
  /\ worker[j].at = "waiting" /\ Registered(j)
  /\ WorkerTo(j, "opening", [file[j] EXCEPT !.status = "running"], "job")
  /\ UNCHANGED <<files, lock, page, runner, late, jobs, faults>>

\* The page is still at it.
Starting(j) ==
  \E s \in Tab : page[s].doc.job = j /\ page[s].at \in {"creating", "spawning", "registering"}

\* Ten seconds have passed, much more than a page takes to register its worker.
GiveUp(j) ==
  /\ worker[j].at = "waiting" /\ ~Registered(j) /\ ~Starting(j)
  /\ Exit(j)
  /\ UNCHANGED <<files, lock, page, runner, late, jobs, faults>>

WorkerWritesJob(j) ==
  /\ worker[j].writing = "job"
  /\ file' = [file EXCEPT ![j] = worker[j].doc]
  /\ WorkerTo(j, worker[j].at, worker[j].doc, "latest")
  /\ UNCHANGED <<latest, lock, page, runner, late, jobs, faults>>

WorkerWritesLatest(j) ==
  /\ worker[j].writing = "latest"
  /\ latest' = worker[j].doc
  /\ IF worker[j].at = "closing" THEN Exit(j) ELSE WorkerTo(j, worker[j].at, worker[j].doc, "nothing")
  /\ UNCHANGED <<file, lock, page, runner, late, jobs, faults>>

\* The runner is started, and its pid published.
StartRunner(j) ==
  /\ worker[j].at = "opening" /\ worker[j].writing = "nothing"
  /\ runner' = [runner EXCEPT ![j] = "running"]
  /\ WorkerTo(j, "reading", worker[j].doc, "job")
  /\ UNCHANGED <<files, lock, page, late, jobs, faults>>

\* A line of output is read and published.
Line(j) ==
  /\ worker[j].at = "reading" /\ worker[j].writing = "nothing" /\ runner[j] = "running"
  /\ WorkerTo(j, "reading", worker[j].doc, "job")
  /\ UNCHANGED <<files, lock, page, runner, late, jobs, faults>>

Result(j) == IF runner[j] = "ok" THEN "completed" ELSE "failed"

\* The slip: the worker keeps its result to itself.
Conclude_Silent(j) ==
  /\ worker[j].at = "reading" /\ worker[j].writing = "nothing" /\ runner[j] \in {"ok", "error"}
  /\ Exit(j)
  /\ UNCHANGED <<files, lock, page, runner, late, jobs, faults>>

\* The output and the runner have ended.
Conclude(j) ==
  /\ worker[j].at = "reading" /\ worker[j].writing = "nothing" /\ runner[j] \in {"ok", "error"}
  /\ WorkerTo(j, "closing", [worker[j].doc EXCEPT !.status = Result(j)], "job")
  /\ UNCHANGED <<files, lock, page, runner, late, jobs, faults>>

\* It is killed or raises; its runner, in a session of its own, goes on.
WorkerDies(j) ==
  /\ worker[j].at \notin Gone /\ Fault
  /\ Exit(j)
  /\ UNCHANGED <<files, lock, page, runner, late, jobs>>

RunnerEnds(j) ==
  /\ runner[j] = "running"
  /\ \E how \in {"ok", "error"} : runner' = [runner EXCEPT ![j] = how]
  /\ UNCHANGED <<files, lock, page, worker, late, jobs, faults>>

\* Fifteen seconds have passed since the job was created: enough for its page to
\* be done with it, and for its worker to have registered or given up.
Expire(j) ==
  /\ j \notin late /\ file[j].job = j /\ ~Starting(j)
  /\ worker[j].at \notin {"waiting", "opening"}
  /\ late' = late \cup {j}
  /\ UNCHANGED <<files, lock, page, processes, jobs, faults>>

-----------------------------------------------------------------------------

\* A call that has begun
Call(s) ==
  \/ page[s].at # "idle" /\ GetLatest(s)
  \/ Probe(s) \/ WriteJob(s) \/ WriteLatest(s) \/ Spawn(s)

Work(j) ==
  \/ Register(j) \/ GiveUp(j) \/ WorkerWritesJob(j) \/ WorkerWritesLatest(j)
  \/ StartRunner(j) \/ Conclude(j)

IngestNext ==
  \/ \E s \in Tab : Enter(s) \/ GetLatest(s) \/ Call(s) \/ PageDies(s)
  \/ \E j \in Job : Work(j) \/ Line(j) \/ WorkerDies(j) \/ RunnerEnds(j) \/ Expire(j)
  \/ Restart \/ Reap

IngestSpec ==
  /\ IngestInit /\ [][IngestNext]_ingestVars
  /\ \A s \in Tab : WF_ingestVars(Call(s))
  /\ \A j \in Job : WF_ingestVars(Work(j)) /\ WF_ingestVars(RunnerEnds(j))

-----------------------------------------------------------------------------
(* Properties *)

Terminal == {"completed", "failed"}

Rank == [none |-> 0, queued |-> 1, running |-> 2, completed |-> 3, failed |-> 3]

\* A job's own status never goes back, whoever of page, worker and other pages
\* writes it, with whatever it has read before: that the worker waits for its pid
\* keeps the page's last status of the start from covering the worker's first.
StatusMovesOn ==
  [][\A j \in Job : Rank[file[j].status] <= Rank[file'[j].status]]_ingestVars

\* As long as nothing dies, every job whose worker was started ends with a result.
UndisturbedJobEnds ==
  \A j \in Job : worker[j].at = "waiting" ~> file[j].status \in Terminal \/ faults > 0

\* What a page says when it writes failed for a worker that is gone: it stopped
\* before publishing a completion result.  Not kept by the code: the page has read
\* the status before it looks whether the worker is there.
PublishedStays ==
  [][\A j \in Job : file[j].status = "completed" => file'[j].status = "completed"]_ingestVars
=============================================================================
