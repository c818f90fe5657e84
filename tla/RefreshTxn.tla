------------------------------ MODULE RefreshTxn ------------------------------
(***************************************************************************)
(* The calls of services/refresh_jobs.py, statement by statement.          *)
(* RefreshJobs takes every call for one step; here a call is a database    *)
(* transaction at READ COMMITTED, and the transactions of several          *)
(* connections interleave.  A statement sees what is committed when it     *)
(* starts, waits for the rows it wants that others have locked, and looks  *)
(* at each again once it has it.  now() is the time at which the           *)
(* transaction began, however long it has waited since.                    *)
(*                                                                         *)
(* Time is relative: a lease is the time until lease_expires_at, negative  *)
(* once that is past, and a transaction has an age, so that its now() is   *)
(* that long ago.  The marketplace rows of a job are one row: calls that   *)
(* lock them all meet calls that lock one of them here too.                *)
(***************************************************************************)
EXTENDS Integers, Sequences

CONSTANTS
  Session,     \* connections: the threads of the workers, the control plane
  Worker,      \* lease_owner values
  Nobody,      \* no lock holder; lease_owner IS NULL
  Job,         \* the jobs there may be
  Account,     \* the accounts they may be for
  LeaseTime,   \* lease_seconds in clock ticks
  MaxAge       \* bound: how many ticks a transaction may last

ASSUME TxnAssumption ==
  /\ Nobody \notin Session \cup Worker
  /\ MaxAge \in Nat
  /\ LeaseTime \in Nat \ {0}

JobOf(j) == <<"job", j>>
MarketOf(j) == <<"market", j>>
Row == ({"job"} \X Job) \cup ({"market"} \X Job)

\* Each call is a list of statements, named for the rows they are about; "request"
\* is request_refresh_job_cancel.
Slip(create, claim, release) ==
  [create |-> create, requeue |-> <<"pick", "market">>, claim |-> claim,
   beat |-> <<"job">>, update |-> <<"job", "market">>,
   complete |-> <<"market", "job">>, fail |-> <<"market", "job">>, release |-> release,
   request |-> <<"job">>, cancel |-> <<"job", "market">>]

\* The slip: rows first and the job after them in release_refresh_job.
Statements_RowsFirst ==
  Slip(<<"advisory", "active", "insert">>, <<"advisory", "live", "pick">>, <<"market", "job">>)

\* The slip: claim_next_refresh_job without its advisory lock.
Statements_NoAdvisory ==
  Slip(<<"advisory", "active", "insert">>, <<"live", "pick">>, <<"job", "market">>)

\* The slip: create_refresh_job without it.
Statements_FreeCreate ==
  Slip(<<"active", "insert">>, <<"advisory", "live", "pick">>, <<"job", "market">>)

Statements ==
  [create |-> <<"advisory", "active", "insert">>,
   requeue |-> <<"pick", "market">>, claim |-> <<"advisory", "live", "pick">>,
   beat |-> <<"job">>, update |-> <<"job", "market">>,
   complete |-> <<"market", "job">>, fail |-> <<"market", "job">>,
   release |-> <<"job", "market">>, request |-> <<"job">>, cancel |-> <<"job", "market">>]

Call == DOMAIN Statements

VARIABLES
  stored,     \* the committed rows
  written,    \* the rows with the writes of the open transactions
  holder,     \* who holds the lock of each row
  advisory,   \* who holds pg_advisory_xact_lock(_COORDINATION_LOCK_KEY)
  tx,         \* per session: its transaction
  account     \* the account each job is for, should it be created: no call changes it

rowVars == <<stored, written, holder>>
txnVars == <<rowVars, advisory, tx, account>>

Never == -(MaxAge + 1)     \* expired, for whatever transaction is open

JobRow ==
  [state : {"absent", "queued", "running", "completed", "failed", "cancelled"},
   owner : Worker \cup {Nobody}, lease : Never .. LeaseTime]
NoRow == [state |-> "absent", owner |-> Nobody, lease |-> Never]

\* Marketplace states: "done" stands for every completable one.
MarketRow == {"waiting", "running", "done", "failed", "skipped"}
Completable == {"done", "skipped"}
Reported == {"running", "done"}

\* jobs: what the call is about.  place, phase: the statement it is at, and
\* whether it has its snapshot.  todo: the rows it matched and has still to lock.
\* met, history: a heartbeat was open when this claim looked for live leases.
Transaction ==
  [call : Call \cup {"none"}, worker : Worker \cup {Nobody}, jobs : SUBSET Job,
   age : 0 .. MaxAge, place : 1 .. 4, phase : {"start", "lock", "raise"},
   todo : SUBSET Job, met : BOOLEAN]
Idle ==
  [call |-> "none", worker |-> Nobody, jobs |-> {}, age |-> 0, place |-> 1,
   phase |-> "start", todo |-> {}, met |-> FALSE]

TxnTypeOK ==
  /\ \A f \in {stored, written} : \A j \in Job :
       f[JobOf(j)] \in JobRow /\ f[MarketOf(j)] \in MarketRow
  /\ holder \in [Row -> Session \cup {Nobody}]
  /\ advisory \in Session \cup {Nobody}
  /\ tx \in [Session -> Transaction]
  /\ \A r \in Row : holder[r] = Nobody => written[r] = stored[r]
  /\ \A s \in Session : tx[s].call = "none" =>
       tx[s] = Idle /\ advisory # s /\ \A r \in Row : holder[r] # s

TxnInit ==
  /\ stored = [r \in Row |-> IF r[1] = "job" THEN NoRow ELSE "waiting"]
  /\ written = stored
  /\ holder = [r \in Row |-> Nobody]
  /\ advisory = Nobody
  /\ tx = [s \in Session |-> Idle]
  /\ account \in [Job -> Account]

-----------------------------------------------------------------------------
(* What the calls look for and what they write *)

ActiveStates == {"queued", "running"}

\* The ownership test of the worker-side writes
Owned(t, row) == row.state = "running" /\ row.owner = t.worker /\ row.lease + t.age >= 0

\* The WHERE clause on the job's row
JobMatches(t, row) ==
  CASE t.call \in {"beat", "update", "complete", "fail"} -> Owned(t, row)
    [] t.call = "release" -> row.state = "running" /\ row.owner = t.worker
    [] t.call = "request" -> row.state \in ActiveStates
    [] t.call = "cancel" -> row.state = "queued"

Lost(state) == [state |-> state, owner |-> Nobody, lease |-> Never]

\* The row after the statement.  The SELECT ... FOR UPDATE of "update" changes none,
\* and cancel_requested_at is a column that no call here reads.
JobWritten(t, row) ==
  CASE t.call = "claim" ->
         [state |-> "running", owner |-> t.worker, lease |-> LeaseTime - t.age]
    [] t.call = "beat" -> [row EXCEPT !.lease = LeaseTime - t.age]
    [] t.call \in {"release", "requeue"} -> Lost("queued")
    [] t.call = "complete" -> Lost("completed")
    [] t.call = "fail" -> Lost("failed")
    [] t.call = "cancel" -> Lost("cancelled")
    [] OTHER -> row

MarketWritten(t, row) ==
  CASE t.call \in {"release", "requeue"} -> {"waiting"}
    [] t.call = "cancel" -> {"skipped"}
    [] t.call = "fail" -> {"failed"}
    [] t.call = "update" -> Reported
    [] OTHER -> {row}

\* A row as the session sees it: its own writes, or what is committed
View(s, r) == IF holder[r] = s THEN written[r] ELSE stored[r]
Lockable(s, r) == holder[r] \in {Nobody, s}

-----------------------------------------------------------------------------
(* Statements *)

Statement(s) == IF tx[s].call = "none" \/ tx[s].place > Len(Statements[tx[s].call])
                THEN "commit" ELSE Statements[tx[s].call][tx[s].place]

Goto(s, t) == tx' = [tx EXCEPT ![s] = t] /\ UNCHANGED account
Step(t) == [t EXCEPT !.place = @ + 1, !.phase = "start", !.todo = {},
                     !.age = IF t.call \in {"claim", "complete", "fail"} THEN @ ELSE 0]
Return(t) == [t EXCEPT !.place = 4, !.phase = "start", !.todo = {}, !.age = 0]
Raise(t) == [Idle EXCEPT !.call = t.call, !.phase = "raise"]

\* A call that would find nothing at once is no step, as in RefreshJobs.  The job
\* that create_refresh_job is about has a fresh id.
Finds(t) ==
  CASE Statements[t.call][1] = "job" ->
         \A j \in t.jobs : JobMatches(t, stored[JobOf(j)])
    [] Statements[t.call][1] = "market" ->
         \A j \in t.jobs : stored[JobOf(j)].state = "running"
    [] t.call = "requeue" ->
         \E j \in Job : /\ stored[JobOf(j)].state = "running"
                        /\ stored[JobOf(j)].lease + t.age < 0
    [] t.call = "claim" -> \E j \in Job : stored[JobOf(j)].state \in ActiveStates
    [] t.call = "create" ->
         \A j \in t.jobs : /\ stored[JobOf(j)] = NoRow
                           /\ \A s \in Session : tx[s].call = "create" => j \notin tx[s].jobs

Begin(s, call, w, j) ==
  /\ tx[s].call = "none"
  /\ LET t == [Idle EXCEPT !.call = call, !.worker = w,
                           !.jobs = IF call \in {"claim", "requeue"} THEN {} ELSE {j}]
     IN Finds(t) /\ Goto(s, t)
  /\ UNCHANGED <<rowVars, advisory>>

\* pg_advisory_xact_lock waits for its turn.
TakeAdvisory(s) ==
  /\ Statement(s) = "advisory"
  /\ advisory = Nobody
  /\ advisory' = s
  /\ Goto(s, Step(tx[s]))
  /\ UNCHANGED <<rowVars>>

\* A statement on the job's row finds it locked: it waits if what is committed
\* matches, and has found nothing otherwise.
WaitForJob(s) ==
  \E j \in tx[s].jobs :
    LET t == tx[s] IN
    /\ Statement(s) = "job" /\ t.phase = "start"
    /\ ~Lockable(s, JobOf(j))
    /\ Goto(s, IF JobMatches(t, stored[JobOf(j)]) THEN [t EXCEPT !.phase = "lock", !.todo = {j}]
               ELSE Raise(t))
    /\ UNCHANGED <<rowVars, advisory>>

\* The slip: update_marketplace_state reads the job's row without FOR UPDATE.
LockJob_Reads(s) ==
  \E j \in tx[s].jobs :
    LET t == tx[s]
        r == JobOf(j)
    IN
    /\ Statement(s) = "job" /\ t.phase \in {"start", "lock"}
    /\ t.call = "update" \/ Lockable(s, r)
    /\ holder' = IF t.call = "update" THEN holder ELSE [holder EXCEPT ![r] = s]
    /\ IF JobMatches(t, stored[r])
       THEN /\ written' = IF t.call = "update" THEN written
                          ELSE [written EXCEPT ![r] = JobWritten(t, @)]
            /\ Goto(s, Step(t))
       ELSE /\ Goto(s, Raise(t))
            /\ UNCHANGED written
    /\ UNCHANGED <<stored, advisory>>

\* The slip: a statement that has waited does not look at the row again.
LockJob_Once(s) ==
  \E j \in tx[s].jobs :
    LET t == tx[s]
        r == JobOf(j)
    IN
    /\ Statement(s) = "job" /\ t.phase \in {"start", "lock"}
    /\ Lockable(s, r)
    /\ holder' = [holder EXCEPT ![r] = s]
    /\ IF t.phase = "lock" \/ JobMatches(t, written[r])
       THEN /\ written' = [written EXCEPT ![r] = JobWritten(t, @)]
            /\ Goto(s, Step(t))
       ELSE /\ Goto(s, Raise(t))
            /\ UNCHANGED written
    /\ UNCHANGED <<stored, advisory>>

\* It has the row, and its WHERE clause is evaluated on the row as it is now.  When it
\* does not hold the call raises, or returns having done nothing.
LockJob(s) ==
  \E j \in tx[s].jobs :
    LET t == tx[s]
        r == JobOf(j)
    IN
    /\ Statement(s) = "job" /\ t.phase \in {"start", "lock"}
    /\ Lockable(s, r)
    /\ holder' = [holder EXCEPT ![r] = s]
    /\ IF JobMatches(t, written[r])
       THEN /\ written' = [written EXCEPT ![r] = JobWritten(t, @)]
            /\ Goto(s, Step(t))
       ELSE /\ Goto(s, Raise(t))
            /\ UNCHANGED written
    /\ UNCHANGED <<stored, advisory>>

\* The slip: the states of the marketplaces are read without FOR UPDATE.
LockMarket_Reads(s) ==
  \E j \in tx[s].jobs :
    LET t == tx[s]
        r == MarketOf(j)
        left == [t EXCEPT !.jobs = IF t.call = "requeue" THEN @ \ {j} ELSE @]
    IN
    /\ Statement(s) = "market" /\ t.phase = "start"
    /\ t.call = "complete" \/ Lockable(s, r)
    /\ holder' = IF t.call = "complete" THEN holder ELSE [holder EXCEPT ![r] = s]
    /\ \E row \in MarketWritten(t, View(s, r)) :
         written' = IF t.call = "complete" THEN written ELSE [written EXCEPT ![r] = row]
    /\ Goto(s, IF t.call = "complete" /\ View(s, r) \notin Completable THEN Raise(t)
               ELSE IF t.call = "requeue" /\ left.jobs # {} THEN left
               ELSE Step(t))
    /\ UNCHANGED <<stored, advisory>>

\* mark_refresh_job_failed with no marketplace to blame
SkipMarket(s) ==
  /\ tx[s].call = "fail" /\ Statement(s) = "market" /\ tx[s].phase = "start"
  /\ Goto(s, Step(tx[s]))
  /\ UNCHANGED <<rowVars, advisory>>

\* A statement on the marketplace rows; mark_refresh_job_completed locks them and
\* raises when one is not completable.  Recovery goes from job to job.
LockMarket(s) ==
  \E j \in tx[s].jobs :
    LET t == tx[s]
        r == MarketOf(j)
        left == [t EXCEPT !.jobs = IF t.call = "requeue" THEN @ \ {j} ELSE @]
    IN
    /\ Statement(s) = "market" /\ t.phase = "start"
    /\ Lockable(s, r)
    /\ holder' = [holder EXCEPT ![r] = s]
    /\ \E row \in MarketWritten(t, written[r]) : written' = [written EXCEPT ![r] = row]
    /\ Goto(s, IF t.call = "complete" /\ written[r] \notin Completable THEN Raise(t)
               ELSE IF t.call = "requeue" /\ left.jobs # {} THEN left
               ELSE Step(t))
    /\ UNCHANGED <<stored, advisory>>

LiveAt(age, row) == row.state = "running" /\ row.lease + age >= 0

\* claim_next_refresh_job looks for live leases, and locks one that it finds.
StartLive(s) ==
  LET t == tx[s]
      live == {j \in Job : LiveAt(t.age, View(s, JobOf(j)))}
  IN
  /\ Statement(s) = "live" /\ t.phase = "start"
  /\ LET look == [t EXCEPT !.met = \E b \in Session : tx[b].call = "beat"] IN
     Goto(s, IF live = {} THEN Step(look) ELSE [look EXCEPT !.phase = "lock", !.todo = live])
  /\ UNCHANGED <<rowVars, advisory>>

LockLive(s) ==
  \E j \in tx[s].todo :
    LET t == tx[s]
        r == JobOf(j)
    IN
    /\ Statement(s) = "live" /\ t.phase = "lock"
    /\ Lockable(s, r)
    /\ holder' = [holder EXCEPT ![r] = s]
    /\ Goto(s, IF LiveAt(t.age, written[r]) THEN Return(t)
               ELSE IF t.todo = {j} THEN Step(t)
               ELSE [t EXCEPT !.todo = @ \ {j}])
    /\ UNCHANGED <<stored, written, advisory>>

\* create_refresh_job looks for the account's active job, and locks it when it finds
\* one.  If it is still active then the call ends, with that job or raising because
\* its input differs: either way it has written nothing.
StartActive(s) ==
  LET t == tx[s]
      active == {k \in Job : /\ stored[JobOf(k)].state \in ActiveStates
                             /\ \E j \in t.jobs : account[k] = account[j]}
  IN
  /\ Statement(s) = "active" /\ t.phase = "start"
  /\ Goto(s, IF active = {} THEN Step(t) ELSE [t EXCEPT !.phase = "lock", !.todo = active])
  /\ UNCHANGED <<rowVars, advisory>>

LockActive(s) ==
  \E k \in tx[s].todo :
    LET t == tx[s]
        r == JobOf(k)
    IN
    /\ Statement(s) = "active" /\ t.phase = "lock"
    /\ Lockable(s, r)
    /\ holder' = [holder EXCEPT ![r] = s]
    /\ Goto(s, IF written[r].state \in ActiveStates THEN Return(t)
               ELSE IF t.todo = {k} THEN Step(t)
               ELSE [t EXCEPT !.todo = @ \ {k}])
    /\ UNCHANGED <<stored, written, advisory>>

\* The new job, and its marketplace rows, which are as they were here.
Insert(s) ==
  \E j \in tx[s].jobs :
    /\ Statement(s) = "insert"
    /\ holder' = [holder EXCEPT ![JobOf(j)] = s]
    /\ written' = [written EXCEPT ![JobOf(j)] = Lost("queued")]
    /\ Goto(s, Step(tx[s]))
    /\ UNCHANGED <<stored, advisory>>

\* FOR UPDATE SKIP LOCKED LIMIT 1, and the UPDATE.  Which of the queued jobs comes
\* first, the oldest, is RefreshJobs' business: here it is any that nobody holds.
PickQueued(s) ==
  LET t == tx[s]
      queued == {j \in Job : /\ Lockable(s, JobOf(j))
                             /\ View(s, JobOf(j)).state = "queued"}
  IN
  /\ t.call = "claim" /\ Statement(s) = "pick"
  /\ IF queued = {} THEN UNCHANGED <<holder, written>>
     ELSE \E j \in queued :
            /\ holder' = [holder EXCEPT ![JobOf(j)] = s]
            /\ written' = [written EXCEPT ![JobOf(j)] = JobWritten(t, @)]
  /\ Goto(s, Return(t))
  /\ UNCHANGED <<stored, advisory>>

\* The slip: every lease that no transaction holds is taken for expired.
Picks_Unlocked(s) ==
  {S \in SUBSET Job : \A j \in S : /\ Lockable(s, JobOf(j))
                                   /\ stored[JobOf(j)].state = "running"}

\* FOR UPDATE SKIP LOCKED of the expired leases
Picks(s) ==
  {S \in SUBSET Job : \A j \in S : /\ Lockable(s, JobOf(j))
                                   /\ stored[JobOf(j)].state = "running"
                                   /\ stored[JobOf(j)].lease + tx[s].age < 0}

PickExpired(s) ==
  /\ tx[s].call = "requeue" /\ Statement(s) = "pick"
  /\ \E S \in Picks(s) :
       /\ holder' = [r \in Row |-> IF r[1] = "job" /\ r[2] \in S THEN s ELSE holder[r]]
       /\ written' = [r \in Row |-> IF r[1] = "job" /\ r[2] \in S
                                    THEN JobWritten(tx[s], written[r]) ELSE written[r]]
       /\ Goto(s, IF S = {} THEN Return(tx[s]) ELSE Step([tx[s] EXCEPT !.jobs = S]))
  /\ UNCHANGED <<stored, advisory>>

-----------------------------------------------------------------------------
(* The ends of a transaction, and the clock *)

Close(s, rows) ==
  /\ stored' = [r \in Row |-> IF holder[r] = s THEN rows[r] ELSE stored[r]]
  /\ written' = [r \in Row |-> IF holder[r] = s THEN rows[r] ELSE written[r]]
  /\ holder' = [r \in Row |-> IF holder[r] = s THEN Nobody ELSE holder[r]]
  /\ advisory' = IF advisory = s THEN Nobody ELSE advisory
  /\ Goto(s, Idle)

Commit(s) == tx[s].call # "none" /\ Statement(s) = "commit" /\ Close(s, written)

Rollback(s) == tx[s].phase = "raise" /\ Close(s, stored)

\* Whoever holds what the session could go on with
Awaited(s) ==
  LET t == tx[s] IN
  CASE Statement(s) = "advisory" -> {advisory}
    [] Statement(s) \in {"job", "live", "active"} /\ t.phase = "lock" -> {holder[JobOf(j)] : j \in t.todo}
    [] Statement(s) = "market" /\ t.phase = "start" -> {holder[MarketOf(j)] : j \in t.jobs}
    [] OTHER -> {}

\* Sessions that wait for each other in a circle
Circle(S) == \A s \in S : Awaited(s) # {} /\ Awaited(s) \subseteq S \ {s}

\* The database ends one transaction of a circle; or a connection is lost.
Kill(s) == tx[s].call # "none" /\ tx[s].phase # "raise" /\ Close(s, stored)

\* The transaction has still to compare something with its now().
UsesNow(s) ==
  \/ tx[s].call \in {"claim", "complete", "fail"} /\ Statement(s) # "commit"
  \/ tx[s].call \in {"beat", "update", "requeue"} /\ tx[s].place = 1

Tick ==
  LET Older(rows) == [r \in Row |-> IF r[1] = "job" /\ rows[r].lease > Never
                                    THEN [rows[r] EXCEPT !.lease = @ - 1] ELSE rows[r]]
  IN
  /\ \A s \in Session : tx[s].age < MaxAge
  /\ stored' = Older(stored)
  /\ written' = Older(written)
  /\ tx' = [s \in Session |-> IF UsesNow(s) /\ tx[s].phase # "raise"
                               THEN [tx[s] EXCEPT !.age = @ + 1] ELSE tx[s]]
  /\ UNCHANGED <<holder, advisory, account>>

WebCall == {"create", "request", "cancel"}
WorkerCall == Call \ (WebCall \cup {"requeue"})

Proceed(s) ==
  \/ TakeAdvisory(s) \/ WaitForJob(s) \/ LockJob(s) \/ LockMarket(s) \/ SkipMarket(s)
  \/ StartLive(s) \/ LockLive(s) \/ PickQueued(s) \/ PickExpired(s)
  \/ StartActive(s) \/ LockActive(s) \/ Insert(s)
  \/ Commit(s) \/ Rollback(s)

TxnNext ==
  \/ Tick
  \/ \E s \in Session : Proceed(s) \/ Kill(s)
  \/ \E s \in Session, j \in Job :
       \/ \E c \in WebCall \cup {"requeue"} : Begin(s, c, Nobody, j)
       \/ \E w \in Worker, c \in WorkerCall : Begin(s, c, w, j)

TxnSpec == TxnInit /\ [][TxnNext]_txnVars

-----------------------------------------------------------------------------
(* Properties *)

OneLive == \A j, k \in Job :
  j # k => ~(LiveAt(0, stored[JobOf(j)]) /\ LiveAt(0, stored[JobOf(k)]))

\* Claims are serialised, and each looks for live leases.  A second live lease comes
\* about in one way only: a heartbeat that began before its lease ran out is still
\* open when another worker's claim looks, and both commit, in either order.
LeasesMeetAcrossABeat ==
  [][~OneLive' /\ OneLive =>
       \E s \in Session : /\ tx[s].call = "beat" \/ (tx[s].call = "claim" /\ tx[s].met)
                          /\ tx'[s] = Idle]_stored

\* Whatever waits, rolls back or interleaves, a completed job's marketplace rows are
\* completable: mark_refresh_job_completed locks the rows it has read until the job
\* is written.
CompletedRowsHold ==
  \A j \in Job : stored[JobOf(j)].state = "completed" => stored[MarketOf(j)] \in Completable

\* A job that waits for a worker shows none of an earlier attempt's progress: no late
\* report slips in between a requeue's two statements or after them.
WaitingRowsAreReset ==
  \A j \in Job : stored[JobOf(j)].state = "queued" => stored[MarketOf(j)] = "waiting"

\* Recovery may requeue an abandoned job only after its lease expires
\* (docs/DATABASE_DEPLOYMENT.md:194): what ends a worker's possession before that is
\* its own completion, failure or release, also when a heartbeat and a recovery pass
\* begin with the lease about to run out.
RecoveryNeedsExpiry ==
  [][\A j \in Job : LiveAt(0, stored[JobOf(j)]) /\ stored'[JobOf(j)].state # "running" =>
       \E s \in Session : /\ tx[s].call \in {"complete", "fail", "release"}
                          /\ tx[s].worker = stored[JobOf(j)].owner]_stored

\* A report lands only in a job that its worker still has when the report commits,
\* however late that is.
ReportsAreTheOwners ==
  [][\A j \in Job :
       stored'[MarketOf(j)] # stored[MarketOf(j)] /\ stored'[MarketOf(j)] \notin {"waiting", "skipped"}
       => \E s \in Session : /\ tx[s].call \in {"update", "fail"}
                             /\ tx[s].worker = stored[JobOf(j)].owner]_stored

\* An account never has two jobs that are active, committed or not yet: creates take
\* turns, each waits for the call that may be ending the account's job, and no call
\* makes a job active that was not.  So refresh_job_one_active_per_account_idx makes
\* no INSERT wait or fail, and the INSERT here need not look at it.
MayBeActive(j) == \E rows \in {stored, written} : rows[JobOf(j)].state \in ActiveStates

CreatesNeverCollide ==
  \A j, k \in Job : MayBeActive(j) /\ MayBeActive(k) /\ account[j] = account[k] => j = k

\* The calls lock a job's row before its marketplace rows, but for
\* mark_refresh_job_completed and mark_refresh_job_failed, and the advisory lock before
\* any job's: wherever sessions wait for each other in a circle, one of the two is in it.
CirclesNeedAnEnd ==
  \A S \in (SUBSET Session) \ {{}} :
    Circle(S) => \E s \in S : tx[s].call \in {"complete", "fail"}

\* What the transactions promise for each job, whatever becomes of its lease: it is
\* handed to a worker only when no other has it, and once it is over it stays over.
Stage(j) ==
  CASE stored[JobOf(j)].state = "absent" -> "none"
    [] stored[JobOf(j)].state \in {"queued", "running"} -> "open"
    [] OTHER -> "done"

OneJob(j) == INSTANCE LeaseQueue WITH
  Job <- {j}, stage <- [k \in {j} |-> Stage(k)],
  holders <- IF stored[JobOf(j)].state = "running" THEN {<<j, stored[JobOf(j)].owner>>} ELSE {}

EachJobIsPromised ==
  /\ \A j \in Job : OneJob(j)!Init
  /\ [][\A j \in Job : stored'[JobOf(j)] # stored[JobOf(j)] =>
           OneJob(j)!Next \/ UNCHANGED OneJob(j)!vars]_stored
=============================================================================
