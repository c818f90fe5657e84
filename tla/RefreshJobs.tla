----------------------------- MODULE RefreshJobs -----------------------------
(***************************************************************************)
(* The durable refresh coordinator, auction_etl/services/refresh_jobs.py:  *)
(* the tables ops.refresh_job, ops.refresh_marketplace and                 *)
(* ops.refresh_event, and the functions that the web control plane and the *)
(* persistent workers call on them.  Every function is one database        *)
(* transaction and one action here.                                        *)
(*                                                                         *)
(* A call that raises, or whose UPDATE matches no row, changes nothing and *)
(* is no step.  Jobs are numbered in the order of requested_at.  A lease   *)
(* is the number of clock ticks for which lease_expires_at >= now() still  *)
(* holds; it is 0 once the lease has expired, and when there is none.      *)
(***************************************************************************)
EXTENDS Integers, Sequences, FiniteSets

CONSTANTS
  Account,       \* accounts of identity.account
  WorkerId,      \* lease_owner values
  NoOne,         \* lease_owner IS NULL
  Input,         \* structured eBay inputs, told apart by sha256
  NoInput,       \* no row in ops.refresh_job_input
  Marketplace,   \* MARKETPLACES
  Reported,      \* marketplace states the callers report
  Tallies,       \* sets of counters one report may carry
  MaxJobs,       \* bound: jobs ever created
  LeaseTime,     \* lease_seconds in clock ticks
  MaxAttempts,   \* bound: claims of one job
  MaxCancels     \* bound: cancellation requests of one job

JobStates == {"queued", "running", "completed", "failed", "cancelled"}

MarketplaceStates ==
  {"waiting", "running", "done", "failed", "skipped",
   "authentication_required", "awaiting_handoff"}

\* A finished marketplace that does not fail the whole refresh.
Completable == {"done", "skipped", "authentication_required", "awaiting_handoff"}

ActiveStates == {"queued", "running"}

ResetCounters ==
  {"discovered", "already_known", "new_count", "detail_scraped",
   "detail_skipped", "discovery_pages", "consecutive_known_at_stop"}

Counters == ResetCounters \cup {"visible_count", "visible_added"}

ASSUME ConstantsAssumption ==
  /\ NoOne \notin WorkerId \cup Account
  /\ NoInput \notin Input
  /\ Reported \subseteq MarketplaceStates
  /\ Tallies \subseteq SUBSET Counters
  /\ MaxJobs \in Nat
  /\ LeaseTime \in Nat \ {0}
  /\ MaxAttempts \in Nat
  /\ MaxCancels \in Nat

Job == 1..MaxJobs

VARIABLES
  job,      \* ops.refresh_job, with the input row of ops.refresh_job_input
  market,   \* ops.refresh_marketplace: state, and the counters that are not 0
  events    \* ops.refresh_event: the job-level event types, in order

vars == <<job, market, events>>

JobRow ==
  [state : JobStates \cup {"absent"}, account : Account \cup {NoOne},
   input : Input \cup {NoInput}, owner : WorkerId \cup {NoOne},
   lease : 0..LeaseTime, attempt : 0..MaxAttempts, cancelAt : {"null", "set"}]

NoJob ==
  [state |-> "absent", account |-> NoOne, input |-> NoInput, owner |-> NoOne,
   lease |-> 0, attempt |-> 0, cancelAt |-> "null"]

MarketRow == [state : MarketplaceStates, counted : SUBSET Counters]

EventTypes ==
  {"job_queued", "job_claimed", "job_lease_expired", "job_requeued",
   "job_completed", "job_failed", "job_cancel_requested", "job_cancelled"}

TypeOK ==
  /\ job \in [Job -> JobRow]
  /\ market \in [Job -> [Marketplace -> MarketRow]]
  /\ events \in [Job -> Seq(EventTypes)]

-----------------------------------------------------------------------------

(* A definition whose name ends in an underscore and a word is a slip: the *)
(* definition of the same name with one thing wrong, which the properties  *)
(* must tell from the right one.                                           *)

Active(j) == job[j].state \in ActiveStates

\* A worker still counts as running the job: lease_expires_at >= now().
Live(j) == job[j].state = "running" /\ job[j].lease > 0

Expired(j) == job[j].state = "running" /\ job[j].lease = 0

\* The ownership test in the WHERE clause of the worker-side writes.
Owns_NoExpiry(w, j) == job[j].state = "running" /\ job[j].owner = w

Owns(w, j) == Live(j) /\ job[j].owner = w

WaitingRow == [state |-> "waiting", counted |-> {}]

\* The two resets of the marketplace rows leave visible_count and visible_added.
ResetRow(row) == [state |-> "waiting", counted |-> row.counted \ ResetCounters]

Unclaimed(row, state) == [row EXCEPT !.state = state, !.owner = NoOne, !.lease = 0]

Log_Partial(j, event) ==
  events' = IF event = "job_requeued" THEN events
            ELSE [events EXCEPT ![j] = Append(@, event)]

Log(j, event) == events' = [events EXCEPT ![j] = Append(@, event)]

-----------------------------------------------------------------------------

Init ==
  /\ job = [j \in Job |-> NoJob]
  /\ market = [j \in Job |-> [m \in Marketplace |-> WaitingRow]]
  /\ events = [j \in Job |-> <<>>]

\* create_refresh_job.  An account's active job is returned as it is, or the
\* call raises because the input differs: either way nothing is written.
NoActiveJob_Queued(a) == \A k \in Job : job[k].state = "queued" => job[k].account # a

NoActiveJob(a) == \A k \in Job : Active(k) => job[k].account # a

Create(j, a, i) ==
  /\ job[j].state = "absent"
  /\ \A k \in Job : k < j => job[k].state # "absent"
  /\ NoActiveJob(a)
  /\ job' = [job EXCEPT ![j] =
               [@ EXCEPT !.state = "queued", !.account = a, !.input = i]]
  /\ market' = [market EXCEPT ![j] = [m \in Marketplace |-> WaitingRow]]
  /\ Log(j, "job_queued")

\* requeue_expired_refresh_jobs.  The LIMIT and the rows that FOR UPDATE SKIP
\* LOCKED leaves to other transactions make S any part of the expired jobs.
RequeueExpired(S) ==
  /\ S # {}
  /\ \A j \in S : Expired(j)
  /\ job' = [j \in Job |-> IF j \in S THEN Unclaimed(job[j], "queued") ELSE job[j]]
  /\ market' = [j \in Job |-> IF j \in S
                               THEN [m \in Marketplace |-> ResetRow(market[j][m])]
                               ELSE market[j]]
  /\ events' = [j \in Job |-> IF j \in S
                               THEN Append(events[j], "job_lease_expired")
                               ELSE events[j]]

\* claim_next_refresh_job: nothing while any lease is live, else the oldest
\* queued job.  A requested cancellation is not consulted.
Claimable_Uncancelled(j) ==
  /\ job[j].state = "queued" /\ job[j].cancelAt = "null"
  /\ job[j].attempt < MaxAttempts
  /\ \A k \in Job : job[k].state = "queued" => j <= k
  /\ \A k \in Job : ~Live(k)

Claimable(j) ==
  /\ job[j].state = "queued"
  /\ job[j].attempt < MaxAttempts
  /\ \A k \in Job : job[k].state = "queued" => j <= k
  /\ \A k \in Job : ~Live(k)

Claimed(row, w) ==
  [row EXCEPT !.state = "running", !.owner = w, !.lease = LeaseTime,
              !.attempt = row.attempt + 1]

Claim(w, j) ==
  /\ Claimable(j)
  /\ job' = [job EXCEPT ![j] = Claimed(@, w)]
  /\ Log(j, "job_claimed")
  /\ UNCHANGED market

\* heartbeat_refresh_job
Heartbeat(w, j) ==
  /\ Owns(w, j)
  /\ job' = [job EXCEPT ![j] = [@ EXCEPT !.lease = LeaseTime]]
  /\ UNCHANGED <<market, events>>

\* update_marketplace_state: any state may follow any other, and a counter
\* that the report leaves out keeps its value.
UpdateMarketplace(w, j, m, state, counted) ==
  /\ Owns(w, j)
  /\ market' = [market EXCEPT ![j] = [@ EXCEPT ![m] =
                  [state |-> state, counted |-> market[j][m].counted \cup counted]]]
  /\ UNCHANGED <<job, events>>

\* mark_refresh_job_completed
AllCompletable(j) == \A m \in Marketplace : market[j][m].state \in Completable

MarkCompleted(w, j) ==
  /\ AllCompletable(j)
  /\ Owns(w, j)
  /\ job' = [job EXCEPT ![j] = Unclaimed(@, "completed")]
  /\ Log(j, "job_completed")
  /\ UNCHANGED market

\* mark_refresh_job_failed; F holds the marketplace that the caller blames, or
\* nothing.
MarkFailed(w, j, F) ==
  /\ Owns(w, j)
  /\ job' = [job EXCEPT ![j] = Unclaimed(@, "failed")]
  /\ market' = [market EXCEPT ![j] = [m \in Marketplace |->
                  IF m \in F THEN [state |-> "failed", counted |-> market[j][m].counted]
                             ELSE market[j][m]]]
  /\ Log(j, "job_failed")

\* release_refresh_job: the owner gives the job back.  Unlike the other
\* worker-side writes this one does not ask whether the lease is still live.
Release(w, j) ==
  /\ job[j].state = "running"
  /\ job[j].owner = w
  /\ job' = [job EXCEPT ![j] = Unclaimed(@, "queued")]
  /\ market' = [market EXCEPT ![j] = [m \in Marketplace |-> ResetRow(market[j][m])]]
  /\ Log(j, "job_requeued")

\* request_refresh_job_cancel: each request is an event, also of a job whose
\* cancellation has been requested before.
Requests(log) == {i \in DOMAIN log : log[i] = "job_cancel_requested"}

RequestCancel(j) ==
  /\ Active(j)
  /\ Cardinality(Requests(events[j])) < MaxCancels
  /\ job' = [job EXCEPT ![j] = [@ EXCEPT !.cancelAt = "set"]]
  /\ Log(j, "job_cancel_requested")
  /\ UNCHANGED market

\* cancel_queued_refresh_job
Cancellable(j) == job[j].state = "queued"

CancelQueued(j) ==
  /\ Cancellable(j)
  /\ job' = [job EXCEPT ![j] = [@ EXCEPT !.state = "cancelled"]]
  /\ market' = [market EXCEPT ![j] = [m \in Marketplace |->
                  [state |-> "skipped", counted |-> market[j][m].counted]]]
  /\ Log(j, "job_cancelled")

\* The database clock moves on.
Tick ==
  /\ \E j \in Job : Live(j)
  /\ job' = [j \in Job |-> IF Live(j) THEN [job[j] EXCEPT !.lease = @ - 1] ELSE job[j]]
  /\ UNCHANGED <<market, events>>

Next ==
  \/ \E j \in Job, a \in Account, i \in Input \cup {NoInput} : Create(j, a, i)
  \/ \E S \in SUBSET Job : RequeueExpired(S)
  \/ \E w \in WorkerId, j \in Job : Claim(w, j)
  \/ \E w \in WorkerId, j \in Job : Heartbeat(w, j)
  \/ \E w \in WorkerId, j \in Job, m \in Marketplace, s \in Reported, c \in Tallies :
       UpdateMarketplace(w, j, m, s, c)
  \/ \E w \in WorkerId, j \in Job : MarkCompleted(w, j)
  \/ \E w \in WorkerId, j \in Job :
       \E F \in {{}} \cup {{m} : m \in Marketplace} : MarkFailed(w, j, F)
  \/ \E w \in WorkerId, j \in Job : Release(w, j)
  \/ \E j \in Job : RequestCancel(j)
  \/ \E j \in Job : CancelQueued(j)
  \/ Tick

Spec == Init /\ [][Next]_vars

-----------------------------------------------------------------------------
(* Safety *)

\* A job has an owner exactly while it runs, and only a running job has a live
\* lease: the CHECK constraint on ops.refresh_job, kept by every UPDATE.
OwnedWhileRunning ==
  \A j \in Job : /\ job[j].state = "running" <=> job[j].owner # NoOne
                 /\ job[j].lease > 0 => job[j].state = "running"

\* Of calls that are one step each no two leave a live lease behind: what the
\* refinement below rests on.  RefreshTxn has what the statements make of it.
OneLiveLease == \A j, k \in Job : Live(j) /\ Live(k) => j = k

\* refresh_job_one_active_per_account_idx: a job that recovery or a release
\* puts back never meets a second active job of its account.
OneActivePerAccount ==
  \A j, k \in Job :
    Active(j) /\ Active(k) /\ job[j].account = job[k].account => j = k

\* A completed job has no waiting, running or failed marketplace, then or later.
CompletedIsCompletable ==
  \A j \in Job : job[j].state = "completed" =>
    \A m \in Marketplace : market[j][m].state \in Completable

\* A job waiting for a worker shows none of an earlier attempt's progress,
\* except the two visible counters that the resets leave alone.
QueuedIsReset ==
  \A j \in Job : job[j].state = "queued" =>
    \A m \in Marketplace : /\ market[j][m].state = "waiting"
                           /\ market[j][m].counted \cap ResetCounters = {}

Claims(log) == Cardinality({i \in 1 .. Len(log) : log[i] = "job_claimed"})

StateAfter ==
  [job_queued |-> "queued", job_claimed |-> "running", job_lease_expired |-> "queued",
   job_requeued |-> "queued", job_completed |-> "completed", job_failed |-> "failed",
   job_cancelled |-> "cancelled"]

\* The append-only history alone tells each job's attempts, whether its cancellation
\* was ever requested, and its state: that which the latest event but for such requests
\* has brought about.  A request leaves no trace after the end, whatever it raced with.
EventsTellJob ==
  \A j \in Job :
    LET log == events[j]
        Moves == {i \in DOMAIN log : log[i] \in DOMAIN StateAfter}
    IN
    /\ Claims(log) = job[j].attempt
    /\ job[j].cancelAt = "set" <=> Requests(log) # {}
    /\ IF log = <<>> THEN job[j].state = "absent"
       ELSE \E i \in Moves : /\ \A k \in Moves : k <= i
                             /\ job[j].state = StateAfter[log[i]]
                             /\ Active(j) \/ i = Len(log)

\* A finished job and its marketplace rows never change again, whichever late
\* worker, recovery pass or cancellation still names it.
TerminalIsFinal ==
  [][\A j \in Job : job[j].state \in JobStates \ ActiveStates =>
        /\ job'[j] = job[j]
        /\ market'[j] = market[j]]_vars

\* Recovery may requeue an abandoned job only after its lease expires: while a
\* lease is live the job leaves its owner only by that owner's own completion,
\* failure or release.
LiveLeaseIsKept ==
  [][\A j \in Job : Live(j) =>
        \/ job'[j].owner = job[j].owner
        \/ job'[j].state \in {"completed", "failed"}
        \/ events'[j] = Append(events[j], "job_requeued")]_vars

\* What the coordinator promises, with its tables abstracted away.
Stage ==
  [j \in Job |-> IF job[j].state = "absent" THEN "none"
                 ELSE IF Active(j) THEN "open" ELSE "done"]

Holders == {<<j, job[j].owner>> : j \in {k \in Job : Live(k)}}

Promise == INSTANCE LeaseQueue WITH
  Worker <- WorkerId, stage <- Stage, holders <- Holders

\* Claims, expiries, recoveries, heartbeats and reports, seen from outside, are
\* a queue of which one job at a time is handed to one worker.
KeepsPromise == Promise!Spec

=============================================================================
