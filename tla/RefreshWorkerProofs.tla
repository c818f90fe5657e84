------------------------- MODULE RefreshWorkerProofs -------------------------
(***************************************************************************)
(* Theorems about the coordinator of RefreshJobs, for every set of         *)
(* accounts, workers and marketplaces, every lease time and any number of  *)
(* jobs and attempts, and then about RefreshWorker, for any number of      *)
(* processes, hosts, claims and faults: what workers do with the           *)
(* coordinator are calls of it, so that everything proved of it holds      *)
(* beside them; and a worker acts only for the claim that it made.         *)
(***************************************************************************)
EXTENDS RefreshWorker, FiniteSetTheorems, TLAPS

-----------------------------------------------------------------------------
(* The coordinator *)

LEMMA Ranges ==
  /\ 0 \in 0..LeaseTime
  /\ LeaseTime \in 0..LeaseTime
  /\ 0 \in 0..MaxAttempts
  /\ \A n \in 0..MaxAttempts : n < MaxAttempts => n + 1 \in 0..MaxAttempts
  /\ \A n \in 0..LeaseTime : n > 0 => n - 1 \in 0..LeaseTime
  BY ConstantsAssumption

LEMMA TypeInit == Init => TypeOK
  <1> SUFFICES ASSUME Init PROVE TypeOK
    OBVIOUS
  <1> USE DEF Init
  <1>1. job \in [Job -> JobRow]
    BY Ranges DEF NoJob, JobRow, JobStates
  <1>2. market \in [Job -> [Marketplace -> MarketRow]]
    BY DEF WaitingRow, MarketRow, MarketplaceStates
  <1>3. events \in [Job -> Seq(EventTypes)]
    OBVIOUS
  <1>4. QED
    BY <1>1, <1>2, <1>3 DEF TypeOK

LEMMA UnclaimedType ==
  ASSUME NEW row \in JobRow, NEW state \in JobStates
  PROVE  Unclaimed(row, state) \in JobRow
  BY Ranges DEF Unclaimed, JobRow

LEMMA ClaimedType ==
  ASSUME NEW row \in JobRow, NEW w \in WorkerId, row.attempt < MaxAttempts
  PROVE  Claimed(row, w) \in JobRow
  <1> DEFINE n == row.attempt + 1
  <1>1. LeaseTime \in 0..LeaseTime
    BY Ranges
  <1>2. n \in 0..MaxAttempts
    BY Ranges DEF JobRow
  <1>3. Claimed(row, w) = [row EXCEPT !.state = "running", !.owner = w,
                                      !.lease = LeaseTime, !.attempt = n]
    BY DEF Claimed
  <1> HIDE DEF n
  <1>4. QED
    BY <1>1, <1>2, <1>3 DEF JobRow, JobStates

LEMMA ResetType ==
  ASSUME NEW row \in MarketRow
  PROVE  ResetRow(row) \in MarketRow
  BY DEF ResetRow, MarketRow, MarketplaceStates

LEMMA LogType ==
  ASSUME TypeOK, NEW j \in Job, NEW e \in EventTypes, Log(j, e)
  PROVE  events' \in [Job -> Seq(EventTypes)]
  BY DEF TypeOK, Log

\* The type invariant is inductive.
LEMMA TypeStep == TypeOK /\ [Next]_vars => TypeOK'
  <1> SUFFICES ASSUME TypeOK, [Next]_vars PROVE TypeOK'
    OBVIOUS
  <1>1. ASSUME NEW j \in Job, NEW a \in Account, NEW i \in Input \cup {NoInput},
               Create(j, a, i)
        PROVE  TypeOK'
    <2>1. job' \in [Job -> JobRow]
      <3>1. [job[j] EXCEPT !.state = "queued", !.account = a, !.input = i] \in JobRow
        BY DEF TypeOK, JobRow, JobStates
      <3>2. QED
        BY <1>1, <3>1 DEF Create, TypeOK
    <2>2. market' \in [Job -> [Marketplace -> MarketRow]]
      BY <1>1 DEF Create, TypeOK, WaitingRow, MarketRow, MarketplaceStates
    <2>3. events' \in [Job -> Seq(EventTypes)]
      BY <1>1, LogType DEF Create, EventTypes
    <2>4. QED
      BY <2>1, <2>2, <2>3 DEF TypeOK
  <1>2. ASSUME NEW S \in SUBSET Job, RequeueExpired(S)
        PROVE  TypeOK'
    <2>1. job' \in [Job -> JobRow]
      BY <1>2, UnclaimedType DEF RequeueExpired, TypeOK, JobStates
    <2>2. market' \in [Job -> [Marketplace -> MarketRow]]
      BY <1>2, ResetType DEF RequeueExpired, TypeOK
    <2>3. events' \in [Job -> Seq(EventTypes)]
      BY <1>2 DEF RequeueExpired, TypeOK, EventTypes
    <2>4. QED
      BY <2>1, <2>2, <2>3 DEF TypeOK
  <1>3. ASSUME NEW w \in WorkerId, NEW j \in Job, Claim(w, j)
        PROVE  TypeOK'
    <2>1. job' \in [Job -> JobRow]
      BY <1>3, ClaimedType DEF Claim, Claimable, TypeOK
    <2>2. events' \in [Job -> Seq(EventTypes)]
      BY <1>3, LogType DEF Claim, EventTypes
    <2>3. QED
      BY <1>3, <2>1, <2>2 DEF TypeOK, Claim
  <1>4. ASSUME NEW w \in WorkerId, NEW j \in Job, Heartbeat(w, j)
        PROVE  TypeOK'
    <2>1. [job[j] EXCEPT !.lease = LeaseTime] \in JobRow
      BY Ranges DEF TypeOK, JobRow
    <2>2. QED
      BY <1>4, <2>1 DEF Heartbeat, TypeOK
  <1>5. ASSUME NEW w \in WorkerId, NEW j \in Job, NEW m \in Marketplace,
               NEW s \in Reported, NEW c \in Tallies,
               UpdateMarketplace(w, j, m, s, c)
        PROVE  TypeOK'
    <2>1. [state |-> s, counted |-> market[j][m].counted \cup c] \in MarketRow
      BY ConstantsAssumption DEF TypeOK, MarketRow
    <2>2. QED
      BY <1>5, <2>1 DEF UpdateMarketplace, TypeOK
  <1>6. ASSUME NEW w \in WorkerId, NEW j \in Job, MarkCompleted(w, j)
        PROVE  TypeOK'
    <2>1. job' \in [Job -> JobRow]
      BY <1>6, UnclaimedType DEF MarkCompleted, TypeOK, JobStates
    <2>2. events' \in [Job -> Seq(EventTypes)]
      BY <1>6, LogType DEF MarkCompleted, EventTypes
    <2>3. QED
      BY <1>6, <2>1, <2>2 DEF TypeOK, MarkCompleted
  <1>7. ASSUME NEW w \in WorkerId, NEW j \in Job, NEW F, MarkFailed(w, j, F)
        PROVE  TypeOK'
    <2>1. job' \in [Job -> JobRow]
      BY <1>7, UnclaimedType DEF MarkFailed, TypeOK, JobStates
    <2>2. market' \in [Job -> [Marketplace -> MarketRow]]
      BY <1>7 DEF MarkFailed, TypeOK, MarketRow, MarketplaceStates
    <2>3. events' \in [Job -> Seq(EventTypes)]
      BY <1>7, LogType DEF MarkFailed, EventTypes
    <2>4. QED
      BY <2>1, <2>2, <2>3 DEF TypeOK
  <1>8. ASSUME NEW w \in WorkerId, NEW j \in Job, Release(w, j)
        PROVE  TypeOK'
    <2>1. job' \in [Job -> JobRow]
      BY <1>8, UnclaimedType DEF Release, TypeOK, JobStates
    <2>2. market' \in [Job -> [Marketplace -> MarketRow]]
      BY <1>8, ResetType DEF Release, TypeOK
    <2>3. events' \in [Job -> Seq(EventTypes)]
      BY <1>8, LogType DEF Release, EventTypes
    <2>4. QED
      BY <2>1, <2>2, <2>3 DEF TypeOK
  <1>9. ASSUME NEW j \in Job, RequestCancel(j)
        PROVE  TypeOK'
    <2>1. [job[j] EXCEPT !.cancelAt = "set"] \in JobRow
      BY DEF TypeOK, JobRow
    <2>2. events' \in [Job -> Seq(EventTypes)]
      BY <1>9, LogType DEF RequestCancel, EventTypes
    <2>3. QED
      BY <1>9, <2>1, <2>2 DEF RequestCancel, TypeOK
  <1>10. ASSUME NEW j \in Job, CancelQueued(j)
         PROVE  TypeOK'
    <2>1. job' \in [Job -> JobRow]
      <3>1. [job[j] EXCEPT !.state = "cancelled"] \in JobRow
        BY DEF TypeOK, JobRow, JobStates
      <3>2. QED
        BY <1>10, <3>1 DEF CancelQueued, TypeOK
    <2>2. market' \in [Job -> [Marketplace -> MarketRow]]
      BY <1>10 DEF CancelQueued, TypeOK, MarketRow, MarketplaceStates
    <2>3. events' \in [Job -> Seq(EventTypes)]
      BY <1>10, LogType DEF CancelQueued, EventTypes
    <2>4. QED
      BY <2>1, <2>2, <2>3 DEF TypeOK
  <1>11. ASSUME Tick
         PROVE  TypeOK'
    <2>1. ASSUME NEW j \in Job, Live(j)
          PROVE  [job[j] EXCEPT !.lease = @ - 1] \in JobRow
      <3>1. job[j].lease - 1 \in 0..LeaseTime
        BY <2>1, Ranges DEF Live, TypeOK, JobRow
      <3>2. QED
        BY <3>1 DEF TypeOK, JobRow
    <2>2. QED
      BY <1>11, <2>1 DEF Tick, TypeOK
  <1>12. CASE UNCHANGED vars
    BY <1>12 DEF vars, TypeOK
  <1>13. QED
    BY <1>1, <1>2, <1>3, <1>4, <1>5, <1>6, <1>7, <1>8, <1>9, <1>10, <1>11, <1>12
    DEF Next

\* The rows of the three tables keep their types, through every interleaving of
\* the coordinator's calls: leases stay within the lease time, attempts within
\* the bound.
THEOREM TypeCorrect == Spec => []TypeOK
  <1>1. Spec => []TypeOK
    BY TypeInit, TypeStep, PTL DEF Spec
  <1>2. QED
    BY <1>1

-----------------------------------------------------------------------------
(* What each action leaves in the rows, in the form the steps below use.    *)

LEMMA UnclaimedFields ==
  ASSUME NEW row \in JobRow, NEW state
  PROVE  LET r == Unclaimed(row, state)
         IN  /\ r.state = state /\ r.owner = NoOne /\ r.lease = 0
             /\ r.account = row.account
  BY DEF Unclaimed, JobRow

LEMMA ClaimedFields ==
  ASSUME NEW row \in JobRow, NEW w
  PROVE  LET r == Claimed(row, w)
         IN  /\ r.state = "running" /\ r.owner = w /\ r.lease = LeaseTime
             /\ r.account = row.account
  BY DEF Claimed, JobRow

LEMMA CreateEffect ==
  ASSUME TypeOK, NEW j \in Job, NEW a, NEW i, Create(j, a, i)
  PROVE  /\ \A k \in Job \ {j} : job'[k] = job[k] /\ market'[k] = market[k]
         /\ job'[j].state = "queued" /\ job'[j].account = a
         /\ job'[j].owner = job[j].owner /\ job'[j].lease = job[j].lease
         /\ job[j].state = "absent"
         /\ NoActiveJob(a)
  BY DEF Create, TypeOK, JobRow

LEMMA RequeueEffect ==
  ASSUME TypeOK, NEW S \in SUBSET Job, RequeueExpired(S)
  PROVE  /\ \A k \in Job \ S : job'[k] = job[k] /\ market'[k] = market[k]
         /\ \A k \in S : /\ Expired(k)
                         /\ job'[k].state = "queued" /\ job'[k].owner = NoOne
                         /\ job'[k].lease = 0 /\ job'[k].account = job[k].account
  BY UnclaimedFields DEF RequeueExpired, TypeOK

LEMMA ClaimEffect ==
  ASSUME TypeOK, NEW w \in WorkerId, NEW j \in Job, Claim(w, j)
  PROVE  /\ \A k \in Job \ {j} : job'[k] = job[k]
         /\ job'[j].state = "running" /\ job'[j].owner = w
         /\ job'[j].lease = LeaseTime /\ job'[j].account = job[j].account
         /\ job[j].state = "queued"
         /\ \A k \in Job : ~Live(k)
         /\ market' = market
  BY ClaimedFields DEF Claim, Claimable, TypeOK

LEMMA HeartbeatEffect ==
  ASSUME TypeOK, NEW w \in WorkerId, NEW j \in Job, Heartbeat(w, j)
  PROVE  /\ \A k \in Job \ {j} : job'[k] = job[k]
         /\ job'[j].state = job[j].state /\ job'[j].owner = job[j].owner
         /\ job'[j].lease = LeaseTime /\ job'[j].account = job[j].account
         /\ Live(j)
         /\ market' = market
  BY DEF Heartbeat, TypeOK, JobRow, Owns

LEMMA MarkCompletedEffect ==
  ASSUME TypeOK, NEW w \in WorkerId, NEW j \in Job, MarkCompleted(w, j)
  PROVE  /\ \A k \in Job \ {j} : job'[k] = job[k]
         /\ job'[j].state = "completed" /\ job'[j].owner = NoOne
         /\ job'[j].lease = 0 /\ job'[j].account = job[j].account
         /\ Live(j)
         /\ market' = market
  BY UnclaimedFields DEF MarkCompleted, TypeOK, Owns

LEMMA MarkFailedEffect ==
  ASSUME TypeOK, NEW w \in WorkerId, NEW j \in Job, NEW F, MarkFailed(w, j, F)
  PROVE  /\ \A k \in Job \ {j} : job'[k] = job[k] /\ market'[k] = market[k]
         /\ job'[j].state = "failed" /\ job'[j].owner = NoOne
         /\ job'[j].lease = 0 /\ job'[j].account = job[j].account
         /\ Live(j)
  BY UnclaimedFields DEF MarkFailed, TypeOK, Owns

LEMMA ReleaseEffect ==
  ASSUME TypeOK, NEW w \in WorkerId, NEW j \in Job, Release(w, j)
  PROVE  /\ \A k \in Job \ {j} : job'[k] = job[k] /\ market'[k] = market[k]
         /\ job'[j].state = "queued" /\ job'[j].owner = NoOne
         /\ job'[j].lease = 0 /\ job'[j].account = job[j].account
         /\ job[j].state = "running"
  BY UnclaimedFields DEF Release, TypeOK

LEMMA RequestCancelEffect ==
  ASSUME TypeOK, NEW j \in Job, RequestCancel(j)
  PROVE  /\ \A k \in Job \ {j} : job'[k] = job[k]
         /\ job'[j].state = job[j].state /\ job'[j].owner = job[j].owner
         /\ job'[j].lease = job[j].lease /\ job'[j].account = job[j].account
         /\ market' = market
  BY DEF RequestCancel, TypeOK, JobRow

LEMMA CancelQueuedEffect ==
  ASSUME TypeOK, NEW j \in Job, CancelQueued(j)
  PROVE  /\ \A k \in Job \ {j} : job'[k] = job[k] /\ market'[k] = market[k]
         /\ job[j].state = "queued"
         /\ job'[j].state = "cancelled" /\ job'[j].owner = job[j].owner
         /\ job'[j].lease = job[j].lease /\ job'[j].account = job[j].account
  BY DEF CancelQueued, Cancellable, TypeOK, JobRow

LEMMA TickEffect ==
  ASSUME TypeOK, Tick
  PROVE  /\ \A k \in Job : /\ job'[k].state = job[k].state
                           /\ job'[k].owner = job[k].owner
                           /\ job'[k].account = job[k].account
                           /\ job'[k].lease > 0 => job[k].lease > 0
         /\ market' = market
  <1>1. ASSUME NEW k \in Job
        PROVE  /\ job'[k].state = job[k].state
               /\ job'[k].owner = job[k].owner
               /\ job'[k].account = job[k].account
               /\ job'[k].lease > 0 => job[k].lease > 0
    <2>1. job[k] \in JobRow
      BY DEF TypeOK
    <2>2. CASE Live(k)
      <3>1. job'[k] = [job[k] EXCEPT !.lease = job[k].lease - 1]
        BY <2>2 DEF Tick
      <3>2. QED
        BY <2>1, <2>2, <3>1 DEF JobRow, Live
    <2>3. CASE ~Live(k)
      BY <2>3 DEF Tick
    <2>4. QED
      BY <2>2, <2>3
  <1>2. QED
    BY <1>1 DEF Tick

-----------------------------------------------------------------------------
(* The history.                                                             *)

LEMMA ClaimsOfLonger ==
  ASSUME NEW log \in Seq(EventTypes), NEW e
  PROVE  /\ Claims(log) \in Nat
         /\ Claims(Append(log, e)) = IF e = "job_claimed" THEN Claims(log) + 1 ELSE Claims(log)
  <1> DEFINE At(l) == {i \in 1 .. Len(l) : l[i] = "job_claimed"}
             n == Len(log) + 1
             longer == Append(log, e)
  <1>1. Len(log) \in Nat
    OBVIOUS
  <1>2. IsFiniteSet(At(log))
    <2>1. IsFiniteSet(1 .. Len(log))
      BY <1>1, FS_Interval
    <2>2. QED
      BY <2>1, FS_Subset
  <1>3. Cardinality(At(log)) \in Nat
    BY <1>2, FS_CardinalityType
  <1>4. n \notin At(log)
    BY <1>1
  <1>5. Len(longer) = n /\ longer[n] = e /\ \A i \in 1 .. Len(log) : longer[i] = log[i]
    OBVIOUS
  <1>6. 1 .. n = (1 .. Len(log)) \cup {n}
    BY <1>1
  <1>7. At(longer) = IF e = "job_claimed" THEN At(log) \cup {n} ELSE At(log)
    <2> HIDE DEF longer
    <2>1. \A i : i \in At(longer) <=> i \in 1 .. n /\ longer[i] = "job_claimed"
      BY <1>5
    <2>2. n \notin 1 .. Len(log)
      BY <1>1
    <2> HIDE DEF n
    <2>3. \A i : i \in At(longer) <=> \/ i \in At(log)
                                      \/ i = n /\ e = "job_claimed"
      BY <2>1, <2>2, <1>5, <1>6
    <2> HIDE DEF At
    <2>4. QED
      BY <2>3
  <1>8. Cardinality(At(log) \cup {n}) = Cardinality(At(log)) + 1
    BY <1>2, <1>4, FS_AddElement
  <1>9. QED
    BY <1>3, <1>7, <1>8 DEF Claims

\* The events that announce a state, and what the history tells of one row
Moves(log) == {i \in DOMAIN log : log[i] \in DOMAIN StateAfter}

LatestMove(log, i) == i \in Moves(log) /\ \A k \in Moves(log) : k <= i

Told(row, log) ==
  /\ Claims(log) = row.attempt
  /\ row.cancelAt = "set" <=> Requests(log) # {}
  /\ log = <<>> => row.state = "absent"
  /\ log # <<>> => \E i \in DOMAIN log : /\ LatestMove(log, i)
                                         /\ row.state = StateAfter[log[i]]
                                         /\ row.state \in ActiveStates \/ i = Len(log)

LEMMA ToldIsTold == EventsTellJob <=> \A j \in Job : Told(job[j], events[j])
  BY DEF EventsTellJob, Told, Moves, LatestMove, Active

LEMMA EventsSplit ==
  /\ EventTypes \ {"job_cancel_requested"} = DOMAIN StateAfter
  /\ "job_cancel_requested" \notin DOMAIN StateAfter
  /\ StateAfter["job_queued"] = "queued" /\ StateAfter["job_claimed"] = "running"
  /\ StateAfter["job_lease_expired"] = "queued" /\ StateAfter["job_requeued"] = "queued"
  /\ StateAfter["job_completed"] = "completed" /\ StateAfter["job_failed"] = "failed"
  /\ StateAfter["job_cancelled"] = "cancelled"
  BY DEF EventTypes, StateAfter

LEMMA OneLonger ==
  ASSUME NEW log \in Seq(EventTypes), NEW e \in EventTypes
  PROVE  LET n == Len(log) + 1
             longer == Append(log, e)
         IN  /\ Len(log) \in Nat /\ Len(longer) = n /\ longer # <<>> /\ longer[n] = e
             /\ DOMAIN longer = DOMAIN log \cup {n} /\ n \notin DOMAIN log
             /\ \A i \in DOMAIN log : longer[i] = log[i] /\ i \in Nat /\ i < n
  <1> DEFINE n == Len(log) + 1
             longer == Append(log, e)
  <1>1. Len(log) \in Nat /\ Len(longer) = n /\ longer # <<>> /\ longer[n] = e
    OBVIOUS
  <1>2. DOMAIN log = 1 .. Len(log) /\ DOMAIN longer = 1 .. n
    OBVIOUS
  <1>3. \A i \in DOMAIN log : longer[i] = log[i] /\ i \in Nat /\ i < n
    OBVIOUS
  <1>4. 1 .. n = (1 .. Len(log)) \cup {n} /\ n \notin 1 .. Len(log)
    BY <1>1
  <1>5. QED
    BY <1>1, <1>2, <1>3, <1>4

\* An event other than a request keeps the history true when the row takes the state
\* it announces, and counts one attempt more exactly when it is a claim.
LEMMA ToldByOneMore ==
  ASSUME NEW log \in Seq(EventTypes), NEW e \in DOMAIN StateAfter, NEW row, NEW next,
         Told(row, log),
         next.state = StateAfter[e], next.cancelAt = row.cancelAt,
         next.attempt = IF e = "job_claimed" THEN row.attempt + 1 ELSE row.attempt
  PROVE  Told(next, Append(log, e))
  <1> DEFINE n == Len(log) + 1
             longer == Append(log, e)
  <1>a. e \in EventTypes /\ e # "job_cancel_requested"
    BY EventsSplit
  <1>b. /\ Len(log) \in Nat /\ Len(longer) = n /\ longer # <<>> /\ longer[n] = e
        /\ DOMAIN longer = DOMAIN log \cup {n} /\ n \notin DOMAIN log
        /\ \A i \in DOMAIN log : longer[i] = log[i] /\ i \in Nat /\ i < n
    BY <1>a, OneLonger
  <1>1. Claims(longer) = next.attempt
    BY ClaimsOfLonger DEF Told
  <1> HIDE DEF longer, n
  <1>2. Requests(longer) = Requests(log)
    BY <1>a, <1>b DEF Requests
  <1>3. LatestMove(longer, n)
    <2>1. n \in Nat
      BY <1>b DEF n
    <2>2. n \in Moves(longer)
      BY <1>b DEF Moves
    <2>3. \A k \in DOMAIN longer : k <= n
      BY <1>b, <2>1
    <2>4. QED
      BY <2>2, <2>3 DEF LatestMove, Moves
  <1>4. next.cancelAt = "set" <=> Requests(longer) # {}
    BY <1>2 DEF Told
  <1>5. n \in DOMAIN longer /\ next.state = StateAfter[longer[n]] /\ n = Len(longer)
    BY <1>b
  <1>6. Told(next, longer)
    BY <1>1, <1>3, <1>4, <1>5, <1>b DEF Told
  <1>7. QED
    BY <1>6 DEF longer

\* A request tells that the cancellation was requested, and nothing else: the job is
\* active, so that an event of another kind came before.
LEMMA ToldByRequest ==
  ASSUME NEW log \in Seq(EventTypes), NEW row, NEW next, Told(row, log),
         row.state \in ActiveStates,
         next.state = row.state, next.attempt = row.attempt, next.cancelAt = "set"
  PROVE  Told(next, Append(log, "job_cancel_requested"))
  <1> DEFINE e == "job_cancel_requested"
             n == Len(log) + 1
             longer == Append(log, e)
  <1>a. e \in EventTypes /\ e \notin DOMAIN StateAfter
    BY EventsSplit DEF EventTypes
  <1>b. /\ Len(log) \in Nat /\ Len(longer) = n /\ longer # <<>> /\ longer[n] = e
        /\ DOMAIN longer = DOMAIN log \cup {n} /\ n \notin DOMAIN log
        /\ \A i \in DOMAIN log : longer[i] = log[i] /\ i \in Nat /\ i < n
    BY <1>a, OneLonger
  <1>1. Claims(longer) = next.attempt
    BY <1>a, ClaimsOfLonger DEF Told
  <1> HIDE DEF longer, n
  <1>2. n \in Requests(longer)
    BY <1>b DEF Requests
  <1>3. Moves(longer) = Moves(log)
    BY <1>a, <1>b DEF Moves
  <1>4. log # <<>>
    BY DEF Told, ActiveStates
  <1>5. PICK i \in DOMAIN log : LatestMove(log, i) /\ row.state = StateAfter[log[i]]
    BY <1>4 DEF Told
  <1>6. LatestMove(longer, i) /\ i \in DOMAIN longer /\ next.state = StateAfter[longer[i]]
    BY <1>3, <1>5, <1>b DEF LatestMove
  <1>7. Told(next, longer)
    BY <1>1, <1>2, <1>6, <1>b DEF Told
  <1>8. QED
    BY <1>7 DEF longer

LEMMA ToldByOneLog ==
  ASSUME TypeOK, EventsTellJob, NEW j \in Job, NEW e \in DOMAIN StateAfter, Log(j, e),
         \A k \in Job \ {j} : job'[k] = job[k],
         job'[j].state = StateAfter[e], job'[j].cancelAt = job[j].cancelAt,
         job'[j].attempt = IF e = "job_claimed" THEN job[j].attempt + 1 ELSE job[j].attempt
  PROVE  EventsTellJob'
  <1>1. events[j] \in Seq(EventTypes) /\ events'[j] = Append(events[j], e)
    BY DEF Log, TypeOK
  <1>2. \A k \in Job : Told(job[k], events[k])
    BY ToldIsTold
  <1>3. Told(job'[j], events'[j])
    BY <1>1, <1>2, ToldByOneMore
  <1>4. ASSUME NEW k \in Job, k # j
        PROVE  Told(job'[k], events'[k])
    BY <1>2, <1>4 DEF Log, TypeOK
  <1>5. \A k \in Job : Told(job'[k], events'[k])
    BY <1>3, <1>4
  <1>6. QED
    BY <1>5 DEF EventsTellJob, Told, Moves, LatestMove, Active

LEMMA ToldByNoLog ==
  ASSUME EventsTellJob, events' = events,
         \A k \in Job : /\ job'[k].state = job[k].state /\ job'[k].attempt = job[k].attempt
                        /\ job'[k].cancelAt = job[k].cancelAt
  PROVE  EventsTellJob'
  BY DEF EventsTellJob, Active

LEMMA ToldStep == TypeOK /\ EventsTellJob /\ [Next]_vars => EventsTellJob'
  <1> SUFFICES ASSUME TypeOK, EventsTellJob, [Next]_vars PROVE EventsTellJob'
    OBVIOUS
  <1>a. \A j \in Job : job[j] \in JobRow
    BY DEF TypeOK
  <1>1. ASSUME NEW j \in Job, NEW a \in Account, NEW i \in Input \cup {NoInput},
               Create(j, a, i)
        PROVE  EventsTellJob'
    <2>1. /\ job'[j].state = "queued" /\ job'[j].attempt = job[j].attempt
          /\ job'[j].cancelAt = job[j].cancelAt
      BY <1>a, <1>1 DEF Create, TypeOK, JobRow
    <2>2. Log(j, "job_queued") /\ \A k \in Job \ {j} : job'[k] = job[k]
      BY <1>1 DEF Create, TypeOK
    <2>3. QED
      BY <2>1, <2>2, ToldByOneLog, EventsSplit DEF EventTypes
  <1>2. ASSUME NEW S \in SUBSET Job, RequeueExpired(S)
        PROVE  EventsTellJob'
    <2>1. \A k \in Job : Told(job[k], events[k]) /\ events[k] \in Seq(EventTypes)
      BY ToldIsTold DEF TypeOK
    <2>2. ASSUME NEW k \in S
          PROVE  Told(job'[k], events'[k])
      <3>1. job'[k] = Unclaimed(job[k], "queued") /\ events'[k] = Append(events[k], "job_lease_expired")
        BY <1>2 DEF RequeueExpired
      <3>2. /\ job'[k].state = "queued" /\ job'[k].attempt = job[k].attempt
            /\ job'[k].cancelAt = job[k].cancelAt
        BY <1>a, <3>1 DEF Unclaimed, JobRow
      <3>3. QED
        BY <2>1, <3>1, <3>2, ToldByOneMore, EventsSplit DEF EventTypes
    <2>3. ASSUME NEW k \in Job \ S
          PROVE  Told(job'[k], events'[k])
      BY <1>2, <2>1 DEF RequeueExpired
    <2>4. QED
      BY <2>2, <2>3 DEF EventsTellJob, Told, Moves, LatestMove, Active
  <1>3. ASSUME NEW w \in WorkerId, NEW j \in Job, Claim(w, j)
        PROVE  EventsTellJob'
    <2>1. job'[j] = Claimed(job[j], w)
      BY <1>3 DEF Claim, TypeOK
    <2>2. /\ job'[j].state = "running" /\ job'[j].attempt = job[j].attempt + 1
          /\ job'[j].cancelAt = job[j].cancelAt
      BY <1>a, <2>1 DEF Claimed, JobRow
    <2>3. Log(j, "job_claimed") /\ \A k \in Job \ {j} : job'[k] = job[k]
      BY <1>3 DEF Claim, TypeOK
    <2>4. QED
      BY <2>2, <2>3, ToldByOneLog, EventsSplit DEF EventTypes
  <1>4. ASSUME NEW w \in WorkerId, NEW j \in Job, Heartbeat(w, j)
        PROVE  EventsTellJob'
    <2>1. \A k \in Job : /\ job'[k].state = job[k].state /\ job'[k].attempt = job[k].attempt
                         /\ job'[k].cancelAt = job[k].cancelAt
      BY <1>a, <1>4 DEF Heartbeat, TypeOK, JobRow
    <2>2. QED
      BY <1>4, <2>1, ToldByNoLog DEF Heartbeat
  <1>5. ASSUME NEW w \in WorkerId, NEW j \in Job, NEW m \in Marketplace,
               NEW s \in Reported, NEW c \in Tallies,
               UpdateMarketplace(w, j, m, s, c)
        PROVE  EventsTellJob'
    BY <1>5 DEF UpdateMarketplace, EventsTellJob, Active
  <1>6. ASSUME NEW w \in WorkerId, NEW j \in Job, MarkCompleted(w, j)
        PROVE  EventsTellJob'
    <2>1. job'[j] = Unclaimed(job[j], "completed")
      BY <1>6 DEF MarkCompleted, TypeOK
    <2>2. /\ job'[j].state = "completed" /\ job'[j].attempt = job[j].attempt
          /\ job'[j].cancelAt = job[j].cancelAt
      BY <1>a, <2>1 DEF Unclaimed, JobRow
    <2>3. Log(j, "job_completed") /\ \A k \in Job \ {j} : job'[k] = job[k]
      BY <1>6 DEF MarkCompleted, TypeOK
    <2>4. QED
      BY <2>2, <2>3, ToldByOneLog, EventsSplit DEF EventTypes
  <1>7. ASSUME NEW w \in WorkerId, NEW j \in Job, NEW F, MarkFailed(w, j, F)
        PROVE  EventsTellJob'
    <2>1. job'[j] = Unclaimed(job[j], "failed")
      BY <1>7 DEF MarkFailed, TypeOK
    <2>2. /\ job'[j].state = "failed" /\ job'[j].attempt = job[j].attempt
          /\ job'[j].cancelAt = job[j].cancelAt
      BY <1>a, <2>1 DEF Unclaimed, JobRow
    <2>3. Log(j, "job_failed") /\ \A k \in Job \ {j} : job'[k] = job[k]
      BY <1>7 DEF MarkFailed, TypeOK
    <2>4. QED
      BY <2>2, <2>3, ToldByOneLog, EventsSplit DEF EventTypes
  <1>8. ASSUME NEW w \in WorkerId, NEW j \in Job, Release(w, j)
        PROVE  EventsTellJob'
    <2>1. job'[j] = Unclaimed(job[j], "queued")
      BY <1>8 DEF Release, TypeOK
    <2>2. /\ job'[j].state = "queued" /\ job'[j].attempt = job[j].attempt
          /\ job'[j].cancelAt = job[j].cancelAt
      BY <1>a, <2>1 DEF Unclaimed, JobRow
    <2>3. Log(j, "job_requeued") /\ \A k \in Job \ {j} : job'[k] = job[k]
      BY <1>8 DEF Release, TypeOK
    <2>4. QED
      BY <2>2, <2>3, ToldByOneLog, EventsSplit DEF EventTypes
  <1>9. ASSUME NEW j \in Job, RequestCancel(j)
        PROVE  EventsTellJob'
    <2>1. \A k \in Job : Told(job[k], events[k]) /\ events[k] \in Seq(EventTypes)
      BY ToldIsTold DEF TypeOK
    <2>2. /\ job'[j].state = job[j].state /\ job'[j].attempt = job[j].attempt
          /\ job'[j].cancelAt = "set" /\ job[j].state \in ActiveStates
      BY <1>a, <1>9 DEF RequestCancel, TypeOK, JobRow, Active
    <2>3. events'[j] = Append(events[j], "job_cancel_requested")
      BY <1>9 DEF RequestCancel, Log, TypeOK
    <2>4. Told(job'[j], events'[j])
      BY <2>1, <2>2, <2>3, ToldByRequest
    <2>5. \A k \in Job \ {j} : Told(job'[k], events'[k])
      BY <1>9, <2>1 DEF RequestCancel, Log, TypeOK
    <2>6. QED
      BY <2>4, <2>5 DEF EventsTellJob, Told, Moves, LatestMove, Active
  <1>10. ASSUME NEW j \in Job, CancelQueued(j)
         PROVE  EventsTellJob'
    <2>1. /\ job'[j].state = "cancelled" /\ job'[j].attempt = job[j].attempt
          /\ job'[j].cancelAt = job[j].cancelAt
      BY <1>a, <1>10 DEF CancelQueued, TypeOK, JobRow
    <2>2. Log(j, "job_cancelled") /\ \A k \in Job \ {j} : job'[k] = job[k]
      BY <1>10 DEF CancelQueued, TypeOK
    <2>3. QED
      BY <2>1, <2>2, ToldByOneLog, EventsSplit DEF EventTypes
  <1>11. ASSUME Tick
         PROVE  EventsTellJob'
    <2>1. \A k \in Job : /\ job'[k].state = job[k].state /\ job'[k].attempt = job[k].attempt
                         /\ job'[k].cancelAt = job[k].cancelAt
      BY <1>a, <1>11 DEF Tick, TypeOK, JobRow
    <2>2. QED
      BY <1>11, <2>1, ToldByNoLog DEF Tick
  <1>12. CASE UNCHANGED vars
    BY <1>12 DEF vars, EventsTellJob, Active
  <1>13. QED
    BY <1>1, <1>2, <1>3, <1>4, <1>5, <1>6, <1>7, <1>8, <1>9, <1>10, <1>11, <1>12
    DEF Next

LEMMA ToldInit == Init => EventsTellJob
  <1>1. Claims(<<>>) = 0
    <2>1. {i \in 1 .. Len(<<>>) : <<>>[i] = "job_claimed"} = {}
      OBVIOUS
    <2>2. QED
      BY <2>1, FS_EmptySet DEF Claims
  <1>2. QED
    BY <1>1 DEF Init, NoJob, EventsTellJob, Requests

\* The append-only table of events tells each job's state, how often it was claimed
\* and whether its cancellation was requested, with such requests anywhere between
\* the events of expiries, recoveries and further attempts, and none after the end.
THEOREM EventsTellJobAlways == Spec => []EventsTellJob
  <1>1. Init => TypeOK /\ EventsTellJob
    BY TypeInit, ToldInit
  <1>2. TypeOK /\ EventsTellJob /\ [Next]_vars => (TypeOK /\ EventsTellJob)'
    BY TypeStep, ToldStep
  <1>3. QED
    BY <1>1, <1>2, PTL DEF Spec

-----------------------------------------------------------------------------
(* The inductive invariant: the safety invariants of the run, together.     *)

IInv ==
  /\ TypeOK
  /\ OwnedWhileRunning
  /\ OneLiveLease
  /\ OneActivePerAccount
  /\ CompletedIsCompletable
  /\ QueuedIsReset

LEMMA IInvInit == Init => IInv
  <1> SUFFICES ASSUME Init PROVE IInv
    OBVIOUS
  <1>1. \A j \in Job : job[j] = NoJob
    BY DEF Init
  <1>2. OwnedWhileRunning /\ OneLiveLease /\ OneActivePerAccount
    BY <1>1 DEF NoJob, OwnedWhileRunning, OneLiveLease, Live, OneActivePerAccount,
                Active, ActiveStates
  <1>3. CompletedIsCompletable /\ QueuedIsReset
    BY <1>1 DEF NoJob, CompletedIsCompletable, QueuedIsReset
  <1>4. QED
    BY <1>2, <1>3, TypeInit DEF IInv

\* An expired job is owned, no job loses its owner but by leaving "running".
LEMMA OwnedStep == IInv /\ [Next]_vars => OwnedWhileRunning'
  <1> SUFFICES ASSUME IInv, [Next]_vars PROVE OwnedWhileRunning'
    OBVIOUS
  <1> USE ConstantsAssumption DEF IInv, OwnedWhileRunning
  <1>1. ASSUME NEW j \in Job, NEW a \in Account, NEW i \in Input \cup {NoInput},
               Create(j, a, i)
        PROVE  OwnedWhileRunning'
    BY <1>1, CreateEffect
  <1>2. ASSUME NEW S \in SUBSET Job, RequeueExpired(S)
        PROVE  OwnedWhileRunning'
    BY <1>2, RequeueEffect
  <1>3. ASSUME NEW w \in WorkerId, NEW j \in Job, Claim(w, j)
        PROVE  OwnedWhileRunning'
    BY <1>3, ClaimEffect
  <1>4. ASSUME NEW w \in WorkerId, NEW j \in Job, Heartbeat(w, j)
        PROVE  OwnedWhileRunning'
    BY <1>4, HeartbeatEffect DEF Live
  <1>5. ASSUME NEW w \in WorkerId, NEW j \in Job, NEW m, NEW s, NEW c,
               UpdateMarketplace(w, j, m, s, c)
        PROVE  OwnedWhileRunning'
    BY <1>5 DEF UpdateMarketplace
  <1>6. ASSUME NEW w \in WorkerId, NEW j \in Job, MarkCompleted(w, j)
        PROVE  OwnedWhileRunning'
    BY <1>6, MarkCompletedEffect
  <1>7. ASSUME NEW w \in WorkerId, NEW j \in Job, NEW F, MarkFailed(w, j, F)
        PROVE  OwnedWhileRunning'
    BY <1>7, MarkFailedEffect
  <1>8. ASSUME NEW w \in WorkerId, NEW j \in Job, Release(w, j)
        PROVE  OwnedWhileRunning'
    BY <1>8, ReleaseEffect
  <1>9. ASSUME NEW j \in Job, RequestCancel(j)
        PROVE  OwnedWhileRunning'
    BY <1>9, RequestCancelEffect
  <1>10. ASSUME NEW j \in Job, CancelQueued(j)
         PROVE  OwnedWhileRunning'
    BY <1>10, CancelQueuedEffect
  <1>11. ASSUME Tick
         PROVE  OwnedWhileRunning'
    BY <1>11, TickEffect
  <1>12. CASE UNCHANGED vars
    BY <1>12 DEF vars
  <1>13. QED
    BY <1>1, <1>2, <1>3, <1>4, <1>5, <1>6, <1>7, <1>8, <1>9, <1>10, <1>11, <1>12
    DEF Next

\* A lease becomes live only by a claim, and a claim finds no live lease.
LEMMA LeaseStep == IInv /\ [Next]_vars => OneLiveLease'
  <1> SUFFICES ASSUME IInv, [Next]_vars PROVE OneLiveLease'
    OBVIOUS
  <1> USE DEF IInv, OneLiveLease, Live
  <1>1. ASSUME NEW j \in Job, NEW a \in Account, NEW i \in Input \cup {NoInput},
               Create(j, a, i)
        PROVE  OneLiveLease'
    BY <1>1, CreateEffect
  <1>2. ASSUME NEW S \in SUBSET Job, RequeueExpired(S)
        PROVE  OneLiveLease'
    BY <1>2, RequeueEffect
  <1>3. ASSUME NEW w \in WorkerId, NEW j \in Job, Claim(w, j)
        PROVE  OneLiveLease'
    <2>1. \A k \in Job \ {j} : ~Live(k)'
      BY <1>3, ClaimEffect
    <2>2. QED
      BY <2>1
  <1>4. ASSUME NEW w \in WorkerId, NEW j \in Job, Heartbeat(w, j)
        PROVE  OneLiveLease'
    BY <1>4, HeartbeatEffect
  <1>5. ASSUME NEW w \in WorkerId, NEW j \in Job, NEW m, NEW s, NEW c,
               UpdateMarketplace(w, j, m, s, c)
        PROVE  OneLiveLease'
    BY <1>5 DEF UpdateMarketplace
  <1>6. ASSUME NEW w \in WorkerId, NEW j \in Job, MarkCompleted(w, j)
        PROVE  OneLiveLease'
    BY <1>6, MarkCompletedEffect
  <1>7. ASSUME NEW w \in WorkerId, NEW j \in Job, NEW F, MarkFailed(w, j, F)
        PROVE  OneLiveLease'
    BY <1>7, MarkFailedEffect
  <1>8. ASSUME NEW w \in WorkerId, NEW j \in Job, Release(w, j)
        PROVE  OneLiveLease'
    BY <1>8, ReleaseEffect
  <1>9. ASSUME NEW j \in Job, RequestCancel(j)
        PROVE  OneLiveLease'
    BY <1>9, RequestCancelEffect
  <1>10. ASSUME NEW j \in Job, CancelQueued(j)
         PROVE  OneLiveLease'
    BY <1>10, CancelQueuedEffect
  <1>11. ASSUME Tick
         PROVE  OneLiveLease'
    BY <1>11, TickEffect
  <1>12. CASE UNCHANGED vars
    BY <1>12 DEF vars
  <1>13. QED
    BY <1>1, <1>2, <1>3, <1>4, <1>5, <1>6, <1>7, <1>8, <1>9, <1>10, <1>11, <1>12
    DEF Next

\* A job becomes active only by its creation, which finds no active job of the
\* account; recovery and release keep an active job active.
LEMMA AccountStep == IInv /\ [Next]_vars => OneActivePerAccount'
  <1> SUFFICES ASSUME IInv, [Next]_vars PROVE OneActivePerAccount'
    OBVIOUS
  <1> USE DEF IInv, OneActivePerAccount, Active, ActiveStates
  <1>1. ASSUME NEW j \in Job, NEW a \in Account, NEW i \in Input \cup {NoInput},
               Create(j, a, i)
        PROVE  OneActivePerAccount'
    <2>1. \A k \in Job \ {j} : Active(k)' => job'[k].account # a
      BY <1>1, CreateEffect DEF NoActiveJob
    <2>2. QED
      BY <1>1, <2>1, CreateEffect
  <1>2. ASSUME NEW S \in SUBSET Job, RequeueExpired(S)
        PROVE  OneActivePerAccount'
    <2>1. \A k \in Job : /\ job'[k].account = job[k].account
                         /\ Active(k)' => Active(k)
      BY <1>2, RequeueEffect DEF Expired
    <2>2. QED
      BY <2>1
  <1>3. ASSUME NEW w \in WorkerId, NEW j \in Job, Claim(w, j)
        PROVE  OneActivePerAccount'
    BY <1>3, ClaimEffect
  <1>4. ASSUME NEW w \in WorkerId, NEW j \in Job, Heartbeat(w, j)
        PROVE  OneActivePerAccount'
    BY <1>4, HeartbeatEffect
  <1>5. ASSUME NEW w \in WorkerId, NEW j \in Job, NEW m, NEW s, NEW c,
               UpdateMarketplace(w, j, m, s, c)
        PROVE  OneActivePerAccount'
    BY <1>5 DEF UpdateMarketplace
  <1>6. ASSUME NEW w \in WorkerId, NEW j \in Job, MarkCompleted(w, j)
        PROVE  OneActivePerAccount'
    BY <1>6, MarkCompletedEffect
  <1>7. ASSUME NEW w \in WorkerId, NEW j \in Job, NEW F, MarkFailed(w, j, F)
        PROVE  OneActivePerAccount'
    BY <1>7, MarkFailedEffect
  <1>8. ASSUME NEW w \in WorkerId, NEW j \in Job, Release(w, j)
        PROVE  OneActivePerAccount'
    BY <1>8, ReleaseEffect
  <1>9. ASSUME NEW j \in Job, RequestCancel(j)
        PROVE  OneActivePerAccount'
    BY <1>9, RequestCancelEffect
  <1>10. ASSUME NEW j \in Job, CancelQueued(j)
         PROVE  OneActivePerAccount'
    BY <1>10, CancelQueuedEffect
  <1>11. ASSUME Tick
         PROVE  OneActivePerAccount'
    BY <1>11, TickEffect
  <1>12. CASE UNCHANGED vars
    BY <1>12 DEF vars
  <1>13. QED
    BY <1>1, <1>2, <1>3, <1>4, <1>5, <1>6, <1>7, <1>8, <1>9, <1>10, <1>11, <1>12
    DEF Next

LEMMA CreateRows ==
  ASSUME TypeOK, NEW j \in Job, NEW a, NEW i, Create(j, a, i)
  PROVE  \A m \in Marketplace : market'[j][m] = WaitingRow
  BY DEF Create, TypeOK

LEMMA RequeueRows ==
  ASSUME TypeOK, NEW S \in SUBSET Job, RequeueExpired(S)
  PROVE  \A k \in S : \A m \in Marketplace : market'[k][m] = ResetRow(market[k][m])
  BY DEF RequeueExpired, TypeOK

LEMMA ReleaseRows ==
  ASSUME TypeOK, NEW w, NEW j \in Job, Release(w, j)
  PROVE  \A m \in Marketplace : market'[j][m] = ResetRow(market[j][m])
  BY DEF Release, TypeOK

LEMMA UpdateEffect ==
  ASSUME TypeOK, NEW w, NEW j \in Job, NEW m, NEW s, NEW c,
         UpdateMarketplace(w, j, m, s, c)
  PROVE  /\ \A k \in Job \ {j} : market'[k] = market[k]
         /\ Live(j)
         /\ job' = job
  BY DEF UpdateMarketplace, TypeOK, Owns

LEMMA ResetIsClean ==
  ASSUME NEW row
  PROVE  /\ ResetRow(row).state = "waiting"
         /\ ResetRow(row).counted \cap ResetCounters = {}
  BY DEF ResetRow

\* The rows of a job that is completed, or waiting to be claimed, are written
\* only by the step that brings it there: every later writer needs a lease.
LEMMA RowsStep ==
  IInv /\ [Next]_vars => CompletedIsCompletable' /\ QueuedIsReset'
  <1> SUFFICES ASSUME IInv, [Next]_vars
               PROVE  CompletedIsCompletable' /\ QueuedIsReset'
    OBVIOUS
  <1> DEFINE Settled(k) ==
               /\ job[k].state = "completed" =>
                    \A m \in Marketplace : market[k][m].state \in Completable
               /\ job[k].state = "queued" =>
                    \A m \in Marketplace :
                      /\ market[k][m].state = "waiting"
                      /\ market[k][m].counted \cap ResetCounters = {}
  <1>a. \A k \in Job : Settled(k)
    BY DEF IInv, CompletedIsCompletable, QueuedIsReset
  <1>b. SUFFICES ASSUME NEW k \in Job PROVE Settled(k)'
    BY <1>b DEF CompletedIsCompletable, QueuedIsReset
  <1>c. TypeOK
    BY DEF IInv
  <1>d. job'[k].state = job[k].state /\ market'[k] = market[k] => Settled(k)'
    BY <1>a
  <1>e. job'[k] = job[k] /\ market'[k] = market[k] => Settled(k)'
    BY <1>d
  <1>f. job'[k].state \notin {"completed", "queued"} => Settled(k)'
    OBVIOUS
  <1> HIDE DEF Settled
  <1>1. ASSUME NEW j \in Job, NEW a \in Account, NEW i \in Input \cup {NoInput},
               Create(j, a, i)
        PROVE  Settled(k)'
    <2>1. CASE k = j
      <3>1. \A m \in Marketplace : /\ market'[k][m].state = "waiting"
                                   /\ market'[k][m].counted \cap ResetCounters = {}
        BY <1>1, <1>c, <2>1, CreateRows DEF WaitingRow
      <3>2. job'[k].state = "queued"
        BY <1>1, <1>c, <2>1, CreateEffect
      <3>3. QED
        BY <3>1, <3>2 DEF Settled
    <2>2. CASE k # j
      BY <1>1, <1>c, <1>e, <2>2, CreateEffect
    <2>3. QED
      BY <2>1, <2>2
  <1>2. ASSUME NEW S \in SUBSET Job, RequeueExpired(S)
        PROVE  Settled(k)'
    <2>1. CASE k \in S
      <3>1. \A m \in Marketplace : /\ market'[k][m].state = "waiting"
                                   /\ market'[k][m].counted \cap ResetCounters = {}
        BY <1>2, <1>c, <2>1, RequeueRows, ResetIsClean
      <3>2. job'[k].state = "queued"
        BY <1>2, <1>c, <2>1, RequeueEffect
      <3>3. QED
        BY <3>1, <3>2 DEF Settled
    <2>2. CASE k \notin S
      BY <1>2, <1>c, <1>e, <2>2, RequeueEffect
    <2>3. QED
      BY <2>1, <2>2
  <1>3. ASSUME NEW w \in WorkerId, NEW j \in Job, Claim(w, j)
        PROVE  Settled(k)'
    BY <1>3, <1>c, <1>e, <1>f, ClaimEffect
  <1>4. ASSUME NEW w \in WorkerId, NEW j \in Job, Heartbeat(w, j)
        PROVE  Settled(k)'
    BY <1>4, <1>c, <1>d, HeartbeatEffect
  <1>5. ASSUME NEW w \in WorkerId, NEW j \in Job, NEW m, NEW s, NEW c,
               UpdateMarketplace(w, j, m, s, c)
        PROVE  Settled(k)'
    <2>1. CASE k = j
      BY <1>5, <1>c, <1>f, <2>1, UpdateEffect DEF Live
    <2>2. CASE k # j
      BY <1>5, <1>c, <1>e, <2>2, UpdateEffect
    <2>3. QED
      BY <2>1, <2>2
  <1>6. ASSUME NEW w \in WorkerId, NEW j \in Job, MarkCompleted(w, j)
        PROVE  Settled(k)'
    <2>1. CASE k = j
      <3>1. \A m \in Marketplace : market'[k][m].state \in Completable
        BY <1>6, <2>1 DEF MarkCompleted, AllCompletable
      <3>2. job'[k].state = "completed"
        BY <1>6, <1>c, <2>1, MarkCompletedEffect
      <3>3. QED
        BY <3>1, <3>2 DEF Settled
    <2>2. CASE k # j
      BY <1>6, <1>c, <1>e, <2>2, MarkCompletedEffect
    <2>3. QED
      BY <2>1, <2>2
  <1>7. ASSUME NEW w \in WorkerId, NEW j \in Job, NEW F, MarkFailed(w, j, F)
        PROVE  Settled(k)'
    BY <1>7, <1>c, <1>e, <1>f, MarkFailedEffect
  <1>8. ASSUME NEW w \in WorkerId, NEW j \in Job, Release(w, j)
        PROVE  Settled(k)'
    <2>1. CASE k = j
      <3>1. \A m \in Marketplace : /\ market'[k][m].state = "waiting"
                                   /\ market'[k][m].counted \cap ResetCounters = {}
        BY <1>8, <1>c, <2>1, ReleaseRows, ResetIsClean
      <3>2. job'[k].state = "queued"
        BY <1>8, <1>c, <2>1, ReleaseEffect
      <3>3. QED
        BY <3>1, <3>2 DEF Settled
    <2>2. CASE k # j
      BY <1>8, <1>c, <1>e, <2>2, ReleaseEffect
    <2>3. QED
      BY <2>1, <2>2
  <1>9. ASSUME NEW j \in Job, RequestCancel(j)
        PROVE  Settled(k)'
    BY <1>9, <1>c, <1>d, RequestCancelEffect
  <1>10. ASSUME NEW j \in Job, CancelQueued(j)
         PROVE  Settled(k)'
    BY <1>10, <1>c, <1>e, <1>f, CancelQueuedEffect
  <1>11. ASSUME Tick
         PROVE  Settled(k)'
    BY <1>11, <1>c, <1>d, TickEffect
  <1>12. CASE UNCHANGED vars
    BY <1>12, <1>e DEF vars
  <1>13. QED
    BY <1>1, <1>2, <1>3, <1>4, <1>5, <1>6, <1>7, <1>8, <1>9, <1>10, <1>11, <1>12
    DEF Next

LEMMA IInvStep == IInv /\ [Next]_vars => IInv'
  BY TypeStep, OwnedStep, LeaseStep, AccountStep, RowsStep DEF IInv

LEMMA Invariant == Spec => []IInv
  BY IInvInit, IInvStep, PTL DEF Spec

\* Every job that runs has an owner, no other has, and no lease is live on a job
\* that does not run.
THEOREM OwnedWhileRunningHolds == Spec => []OwnedWhileRunning
  <1>1. IInv => OwnedWhileRunning
    BY DEF IInv
  <1>2. QED
    BY <1>1, Invariant, PTL

\* At most one queued or running refresh per account.
THEOREM OneActivePerAccountHolds == Spec => []OneActivePerAccount
  <1>1. IInv => OneActivePerAccount
    BY DEF IInv
  <1>2. QED
    BY <1>1, Invariant, PTL

\* A completed job never shows an unfinished or failed marketplace.
THEOREM CompletedIsCompletableHolds == Spec => []CompletedIsCompletable
  <1>1. IInv => CompletedIsCompletable
    BY DEF IInv
  <1>2. QED
    BY <1>1, Invariant, PTL

\* A job in the queue shows no progress of an earlier attempt, but for the two
\* visible counters.
THEOREM QueuedIsResetHolds == Spec => []QueuedIsReset
  <1>1. IInv => QueuedIsReset
    BY DEF IInv
  <1>2. QED
    BY <1>1, Invariant, PTL

-----------------------------------------------------------------------------
(* Action properties.                                                       *)

LEMMA FinalStep ==
  ASSUME IInv, [Next]_vars, NEW k \in Job, job[k].state \in JobStates \ ActiveStates
  PROVE  job'[k] = job[k] /\ market'[k] = market[k]
  <1>a. TypeOK
    BY DEF IInv
  <1>b. job[k].state \notin {"absent", "queued", "running"}
    BY DEF JobStates, ActiveStates
  <1>1. ASSUME NEW j \in Job, NEW a \in Account, NEW i \in Input \cup {NoInput},
               Create(j, a, i)
        PROVE  job'[k] = job[k] /\ market'[k] = market[k]
    BY <1>1, <1>a, <1>b, CreateEffect
  <1>2. ASSUME NEW S \in SUBSET Job, RequeueExpired(S)
        PROVE  job'[k] = job[k] /\ market'[k] = market[k]
    BY <1>2, <1>a, <1>b, RequeueEffect DEF Expired
  <1>3. ASSUME NEW w \in WorkerId, NEW j \in Job, Claim(w, j)
        PROVE  job'[k] = job[k] /\ market'[k] = market[k]
    BY <1>3, <1>a, <1>b, ClaimEffect
  <1>4. ASSUME NEW w \in WorkerId, NEW j \in Job, Heartbeat(w, j)
        PROVE  job'[k] = job[k] /\ market'[k] = market[k]
    BY <1>4, <1>a, <1>b, HeartbeatEffect DEF Live
  <1>5. ASSUME NEW w \in WorkerId, NEW j \in Job, NEW m, NEW s, NEW c,
               UpdateMarketplace(w, j, m, s, c)
        PROVE  job'[k] = job[k] /\ market'[k] = market[k]
    BY <1>5, <1>a, <1>b, UpdateEffect DEF Live
  <1>6. ASSUME NEW w \in WorkerId, NEW j \in Job, MarkCompleted(w, j)
        PROVE  job'[k] = job[k] /\ market'[k] = market[k]
    BY <1>6, <1>a, <1>b, MarkCompletedEffect DEF Live
  <1>7. ASSUME NEW w \in WorkerId, NEW j \in Job, NEW F, MarkFailed(w, j, F)
        PROVE  job'[k] = job[k] /\ market'[k] = market[k]
    BY <1>7, <1>a, <1>b, MarkFailedEffect DEF Live
  <1>8. ASSUME NEW w \in WorkerId, NEW j \in Job, Release(w, j)
        PROVE  job'[k] = job[k] /\ market'[k] = market[k]
    BY <1>8, <1>a, <1>b, ReleaseEffect
  <1>9. ASSUME NEW j \in Job, RequestCancel(j)
        PROVE  job'[k] = job[k] /\ market'[k] = market[k]
    BY <1>9, <1>a, <1>b, RequestCancelEffect DEF RequestCancel, Active, ActiveStates
  <1>10. ASSUME NEW j \in Job, CancelQueued(j)
         PROVE  job'[k] = job[k] /\ market'[k] = market[k]
    BY <1>10, <1>a, <1>b, CancelQueuedEffect
  <1>11. ASSUME Tick
         PROVE  job'[k] = job[k] /\ market'[k] = market[k]
    BY <1>11, <1>b DEF Tick, Live
  <1>12. CASE UNCHANGED vars
    BY <1>12 DEF vars
  <1>13. QED
    BY <1>1, <1>2, <1>3, <1>4, <1>5, <1>6, <1>7, <1>8, <1>9, <1>10, <1>11, <1>12
    DEF Next

\* A finished job and its marketplace rows never change again.
THEOREM TerminalIsFinalHolds == Spec => TerminalIsFinal
  <1>1. IInv /\ [Next]_vars =>
          [\A j \in Job : job[j].state \in JobStates \ ActiveStates =>
             /\ job'[j] = job[j]
             /\ market'[j] = market[j]]_vars
    BY FinalStep
  <1>2. QED
    BY <1>1, Invariant, PTL DEF Spec, TerminalIsFinal

LEMMA KeptStep ==
  ASSUME IInv, [Next]_vars, NEW k \in Job, Live(k)
  PROVE  \/ job'[k].owner = job[k].owner
         \/ job'[k].state \in {"completed", "failed"}
         \/ events'[k] = Append(events[k], "job_requeued")
  <1> DEFINE Kept == \/ job'[k].owner = job[k].owner
                     \/ job'[k].state \in {"completed", "failed"}
                     \/ events'[k] = Append(events[k], "job_requeued")
  <1>a. TypeOK
    BY DEF IInv
  <1>b. job[k].state = "running" /\ ~Expired(k)
    BY DEF Live, Expired
  <1>c. SUFFICES Kept
    OBVIOUS
  <1>d. job'[k] = job[k] => Kept
    OBVIOUS
  <1>1. ASSUME NEW j \in Job, NEW a \in Account, NEW i \in Input \cup {NoInput},
               Create(j, a, i)
        PROVE  Kept
    BY <1>1, <1>a, <1>b, <1>d, CreateEffect
  <1>2. ASSUME NEW S \in SUBSET Job, RequeueExpired(S)
        PROVE  Kept
    <2>1. k \notin S
      BY <1>2, <1>b DEF RequeueExpired
    <2>2. QED
      BY <1>2, <1>a, <1>d, <2>1, RequeueEffect
  <1>3. ASSUME NEW w \in WorkerId, NEW j \in Job, Claim(w, j)
        PROVE  Kept
    BY <1>3, <1>a, <1>b, <1>d, ClaimEffect
  <1>4. ASSUME NEW w \in WorkerId, NEW j \in Job, Heartbeat(w, j)
        PROVE  Kept
    BY <1>4, <1>a, <1>d, HeartbeatEffect
  <1>5. ASSUME NEW w \in WorkerId, NEW j \in Job, NEW m, NEW s, NEW c,
               UpdateMarketplace(w, j, m, s, c)
        PROVE  Kept
    BY <1>5, <1>a, <1>d, UpdateEffect
  <1>6. ASSUME NEW w \in WorkerId, NEW j \in Job, MarkCompleted(w, j)
        PROVE  Kept
    BY <1>6, <1>a, <1>d, MarkCompletedEffect
  <1>7. ASSUME NEW w \in WorkerId, NEW j \in Job, NEW F, MarkFailed(w, j, F)
        PROVE  Kept
    BY <1>7, <1>a, <1>d, MarkFailedEffect
  <1>8. ASSUME NEW w \in WorkerId, NEW j \in Job, Release(w, j)
        PROVE  Kept
    <2>1. CASE k = j
      BY <1>8, <1>a, <2>1 DEF Release, Log, TypeOK
    <2>2. CASE k # j
      BY <1>8, <1>a, <1>d, <2>2, ReleaseEffect
    <2>3. QED
      BY <2>1, <2>2
  <1>9. ASSUME NEW j \in Job, RequestCancel(j)
        PROVE  Kept
    BY <1>9, <1>a, <1>d, RequestCancelEffect
  <1>10. ASSUME NEW j \in Job, CancelQueued(j)
         PROVE  Kept
    BY <1>10, <1>a, <1>d, CancelQueuedEffect
  <1>11. ASSUME Tick
         PROVE  Kept
    BY <1>11, <1>a, TickEffect
  <1>12. CASE UNCHANGED vars
    BY <1>12, <1>d DEF vars
  <1>13. QED
    BY <1>1, <1>2, <1>3, <1>4, <1>5, <1>6, <1>7, <1>8, <1>9, <1>10, <1>11, <1>12
    DEF Next

\* Recovery may requeue an abandoned job only after its lease expires; nobody
\* else takes a job from a live owner either.
THEOREM LiveLeaseIsKeptHolds == Spec => LiveLeaseIsKept
  <1>1. IInv /\ [Next]_vars =>
          [\A j \in Job : Live(j) =>
             \/ job'[j].owner = job[j].owner
             \/ job'[j].state \in {"completed", "failed"}
             \/ events'[j] = Append(events[j], "job_requeued")]_vars
    BY KeptStep
  <1>2. QED
    BY <1>1, Invariant, PTL DEF Spec, LiveLeaseIsKept

-----------------------------------------------------------------------------
(* RefreshJobs implements LeaseQueue.                                       *)

LEMMA SameHolders ==
  ASSUME \A k \in Job : /\ Live(k)' <=> Live(k)
                        /\ Live(k) => job'[k].owner = job[k].owner
  PROVE  Holders' = Holders
  BY DEF Holders

\* With one live lease the set of holders is empty or a single pair.
LEMMA OneHolder ==
  ASSUME NEW j \in Job, Live(j), \A k \in Job : Live(k) => k = j
  PROVE  Holders = {<<j, job[j].owner>>}
  BY DEF Holders

LEMMA NoHolder ==
  ASSUME \A k \in Job : ~Live(k)
  PROVE  Holders = {}
  BY DEF Holders

LEMMA NoHolderNext ==
  ASSUME \A k \in Job : ~Live(k)'
  PROVE  Holders' = {}
  BY DEF Holders

LEMMA SameStage ==
  ASSUME \A k \in Job : \/ job'[k].state = job[k].state
                        \/ {job'[k].state, job[k].state} \subseteq ActiveStates
  PROVE  Stage' = Stage
  BY DEF Stage, Active, ActiveStates

LEMMA StageTo ==
  ASSUME NEW j \in Job, NEW s,
         \A k \in Job \ {j} : job'[k].state = job[k].state,
         s = IF job'[j].state = "absent" THEN "none"
             ELSE IF Active(j)' THEN "open" ELSE "done"
  PROVE  Stage' = [Stage EXCEPT ![j] = s]
  BY DEF Stage, Active

LEMMA PromiseInit == Init => Promise!Init
  BY DEF Init, NoJob, Promise!Init, Stage, Holders, Live

LEMMA PromiseStep == IInv /\ [Next]_vars => [Promise!Next]_(Promise!vars)
  <1> SUFFICES ASSUME IInv, [Next]_vars PROVE [Promise!Next]_(Promise!vars)
    OBVIOUS
  <1>a. TypeOK /\ OneLiveLease
    BY DEF IInv
  <1> DEFINE Stutter == Stage' = Stage /\ Holders' = Holders
  <1>b. Stutter => [Promise!Next]_(Promise!vars)
    BY DEF Promise!vars
  <1>1. ASSUME NEW j \in Job, NEW a \in Account, NEW i \in Input \cup {NoInput},
               Create(j, a, i)
        PROVE  Promise!Next
    <2>1. Holders' = Holders
      BY <1>1, <1>a, CreateEffect, SameHolders DEF Live
    <2>2. Stage' = [Stage EXCEPT ![j] = "open"]
      BY <1>1, <1>a, CreateEffect, StageTo DEF Active, ActiveStates
    <2>3. Stage[j] = "none"
      BY <1>1, <1>a, CreateEffect DEF Stage
    <2>4. QED
      BY <2>1, <2>2, <2>3 DEF Promise!Next, Promise!Submit
  <1>2. ASSUME NEW S \in SUBSET Job, RequeueExpired(S)
        PROVE  Stutter
    <2>1. \A k \in Job : /\ Live(k)' <=> Live(k)
                         /\ Live(k) => job'[k].owner = job[k].owner
      BY <1>2, <1>a, RequeueEffect DEF Live, Expired
    <2>2. \A k \in Job : \/ job'[k].state = job[k].state
                         \/ {job'[k].state, job[k].state} \subseteq ActiveStates
      BY <1>2, <1>a, RequeueEffect DEF Expired, ActiveStates
    <2>3. QED
      BY <2>1, <2>2, SameHolders, SameStage
  <1>3. ASSUME NEW w \in WorkerId, NEW j \in Job, Claim(w, j)
        PROVE  Promise!Next
    <2>1. Holders = {}
      BY <1>3, <1>a, ClaimEffect, NoHolder
    <2>2. Live(j)' /\ \A k \in Job : Live(k)' => k = j
      BY <1>3, <1>a, ClaimEffect, ConstantsAssumption DEF Live
    <2>3. Holders' = {<<j, w>>}
      BY <1>3, <1>a, <2>2, ClaimEffect DEF Holders
    <2>4. Stage' = Stage
      BY <1>3, <1>a, ClaimEffect, SameStage DEF ActiveStates
    <2>5. Stage[j] = "open"
      BY <1>3, <1>a, ClaimEffect DEF Stage, Active, ActiveStates
    <2>6. QED
      BY <2>1, <2>3, <2>4, <2>5 DEF Promise!Next, Promise!Grant
  <1>4. ASSUME NEW w \in WorkerId, NEW j \in Job, Heartbeat(w, j)
        PROVE  Stutter
    <2>1. \A k \in Job : /\ Live(k)' <=> Live(k)
                         /\ Live(k) => job'[k].owner = job[k].owner
      BY <1>4, <1>a, HeartbeatEffect, ConstantsAssumption DEF Live
    <2>2. QED
      BY <1>4, <1>a, <2>1, HeartbeatEffect, SameHolders, SameStage
  <1>5. ASSUME NEW w \in WorkerId, NEW j \in Job, NEW m, NEW s, NEW c,
               UpdateMarketplace(w, j, m, s, c)
        PROVE  Stutter
    BY <1>5, <1>a, UpdateEffect DEF Stage, Holders, Live, Active
  <1>f. ASSUME NEW w \in WorkerId, NEW j \in Job, Live(j), job[j].owner = w,
               \A k \in Job \ {j} : job'[k] = job[k],
               job'[j].state \in {"completed", "failed"}
        PROVE  Promise!Next
    <2>1. Holders = {<<j, w>>}
      BY <1>a, <1>f, OneHolder DEF OneLiveLease
    <2>2. \A k \in Job : ~Live(k)'
      BY <1>a, <1>f DEF Live, OneLiveLease
    <2>3. Holders' = {}
      BY <2>2, NoHolderNext
    <2>4. Stage' = [Stage EXCEPT ![j] = "done"]
      BY <1>f, StageTo DEF Active, ActiveStates
    <2>5. QED
      BY <2>1, <2>3, <2>4 DEF Promise!Next, Promise!Finish
  <1>6. ASSUME NEW w \in WorkerId, NEW j \in Job, MarkCompleted(w, j)
        PROVE  Promise!Next
    BY <1>6, <1>a, <1>f, MarkCompletedEffect DEF MarkCompleted, Owns
  <1>7. ASSUME NEW w \in WorkerId, NEW j \in Job, NEW F, MarkFailed(w, j, F)
        PROVE  Promise!Next
    BY <1>7, <1>a, <1>f, MarkFailedEffect DEF MarkFailed, Owns
  <1>8. ASSUME NEW w \in WorkerId, NEW j \in Job, Release(w, j)
        PROVE  [Promise!Next]_(Promise!vars)
    <2>1. Stage' = Stage
      BY <1>8, <1>a, ReleaseEffect, SameStage DEF ActiveStates
    <2>2. CASE Live(j)
      <3>1. Holders # {}
        BY <2>2 DEF Holders
      <3>2. \A k \in Job : ~Live(k)'
        BY <1>8, <1>a, <2>2, ReleaseEffect DEF Live, OneLiveLease
      <3>3. QED
        BY <2>1, <3>1, <3>2, NoHolderNext DEF Promise!Next, Promise!Lose
    <2>3. CASE ~Live(j)
      <3>1. \A k \in Job : /\ Live(k)' <=> Live(k)
                           /\ Live(k) => job'[k].owner = job[k].owner
        BY <1>8, <1>a, <2>3, ReleaseEffect DEF Live
      <3>2. QED
        BY <1>b, <2>1, <3>1, SameHolders
    <2>4. QED
      BY <2>2, <2>3
  <1>9. ASSUME NEW j \in Job, RequestCancel(j)
        PROVE  Stutter
    <2>1. \A k \in Job : /\ Live(k)' <=> Live(k)
                         /\ Live(k) => job'[k].owner = job[k].owner
      BY <1>9, <1>a, RequestCancelEffect DEF Live
    <2>2. QED
      BY <1>9, <1>a, <2>1, RequestCancelEffect, SameHolders, SameStage
  <1>10. ASSUME NEW j \in Job, CancelQueued(j)
         PROVE  Promise!Next
    <2>1. \A k \in Job : /\ Live(k)' <=> Live(k)
                         /\ Live(k) => job'[k].owner = job[k].owner
      BY <1>10, <1>a, CancelQueuedEffect DEF Live
    <2>2. Stage' = [Stage EXCEPT ![j] = "done"]
      BY <1>10, <1>a, CancelQueuedEffect, StageTo DEF Active, ActiveStates
    <2>3. Stage[j] = "open"
      BY <1>10, <1>a, CancelQueuedEffect DEF Stage, Active, ActiveStates
    <2>4. \A w \in WorkerId : <<j, w>> \notin Holders
      BY <1>10, <1>a, CancelQueuedEffect DEF Holders, Live
    <2>5. QED
      BY <2>1, <2>2, <2>3, <2>4, SameHolders DEF Promise!Next, Promise!Withdraw
  <1>11. ASSUME Tick
         PROVE  [Promise!Next]_(Promise!vars)
    <2>1. Stage' = Stage
      BY <1>11, <1>a, TickEffect, SameStage
    <2>2. PICK j \in Job : Live(j)
      BY <1>11 DEF Tick
    <2>3. \A k \in Job : Live(k)' => Live(k)
      BY <1>11, <1>a, TickEffect DEF Live
    <2>4. CASE Live(j)'
      <3>1. \A k \in Job : /\ Live(k)' <=> Live(k)
                           /\ Live(k) => job'[k].owner = job[k].owner
        BY <1>11, <1>a, <2>2, <2>3, <2>4, TickEffect DEF OneLiveLease
      <3>2. QED
        BY <1>b, <2>1, <3>1, SameHolders
    <2>5. CASE ~Live(j)'
      <3>1. Holders # {}
        BY <2>2 DEF Holders
      <3>2. \A k \in Job : ~Live(k)'
        BY <1>a, <2>2, <2>3, <2>5 DEF OneLiveLease
      <3>3. QED
        BY <2>1, <3>1, <3>2, NoHolderNext DEF Promise!Next, Promise!Lose
    <2>6. QED
      BY <2>4, <2>5
  <1>12. CASE UNCHANGED vars
    BY <1>12 DEF vars, Stage, Holders, Live, Active, Promise!vars
  <1>13. QED
    BY <1>b, <1>1, <1>2, <1>3, <1>4, <1>5, <1>6, <1>7, <1>8, <1>9, <1>10, <1>11,
       <1>12
    DEF Next

\* Seen from outside, the coordinator is a queue of jobs of which one at a time
\* is granted to one worker, and which only that worker finishes.
THEOREM Refinement == Spec => KeepsPromise
  <1>1. Spec => Promise!Init
    BY PromiseInit DEF Spec
  <1>2. Spec => [][Promise!Next]_(Promise!vars)
    BY PromiseStep, Invariant, PTL DEF Spec
  <1>3. QED
    BY <1>1, <1>2, PTL DEF KeepsPromise, Promise!Spec

-----------------------------------------------------------------------------
(* The workers *)

WorkStages == {"claimed", "reading", "reaped", "finalizing", "failing"}

\* A process that works has a job.
WorkIsOnJob == \A p \in Process : proc[p].pc \in WorkStages => proc[p].job \in Job

\* No exit status is known before a child is there.
ExitComesLater ==
  \A p \in Process : proc[p].pc \in {"poll", "claim", "claimed"} => proc[p].exit = "none"

OneChild == \A r, q \in runners : r.parent = q.parent /\ r.parent # NoProcess => r = q

\* What the processes and children of the hosts keep, whatever the coordinator answers
ProcInv ==
  /\ proc \in [Process -> ProcRow] /\ runners \subseteq Runner /\ faults \in 0 .. MaxFaults
  /\ WorkIsOnJob /\ ExitComesLater /\ NoStrayChild /\ OneChild

WorkerInv == TypeOK /\ ProcInv /\ OwnerIsClaimant

-----------------------------------------------------------------------------
(* Workers call the coordinator *)

\* The calls that end an attempt are calls of the coordinator
LEMMA UpdateIsCall ==
  ASSUME NEW w \in WorkerId, NEW j \in Job, NEW m \in Marketplace, NEW s \in {"failed", "skipped"},
         UpdateMarketplace(w, j, m, s, {})
  PROVE  Next
BY WorkerAssumption DEF Next

LEMMA FailedIsCall ==
  ASSUME NEW w \in WorkerId, NEW j \in Job, MarkFailed(w, j, {})
  PROVE  Next
<1>1. {} \in {{}} \cup {{m} : m \in Marketplace}
  OBVIOUS
<1> QED BY <1>1 DEF Next

LEMMA StepIsCall ==
  ASSUME TypeOK, ProcInv, [WorkerNext]_workerVars
  PROVE  [Next]_vars
<1> USE DEF vars
<1>w. \A p \in Process : WorkerOf(p) \in WorkerId
  BY WorkerAssumption DEF WorkerOf
<1>j. \A p \in Process : proc[p].job \in Job \cup {0}
  BY DEF ProcInv, ProcRow
<1>o. \A p \in Process : Owning(p) => proc[p].job \in Job
  BY <1>j DEF Owning
<1>k. \A p \in Process : proc[p].pc \in WorkStages => proc[p].job \in Job
  BY DEF ProcInv, WorkIsOnJob
<1>1. CASE Web
  BY <1>1 DEF Web, Next
<1>2. ASSUME NEW p \in Process, Main(p) PROVE [Next]_vars
  <2>1. CASE Recover(p)
    <3>1. {j \in Job : Expired(j)} \in SUBSET Job
      OBVIOUS
    <3> QED BY <2>1, <3>1 DEF Recover, Next
  <2>2. CASE TakeJob(p)
    BY <1>w, <2>2 DEF TakeJob, Next
  <2>3. CASE ImportFails(p) \/ Spawn(p) \/ Reap(p) \/ Shutdown(p)
    BY <2>3 DEF ImportFails, Spawn, Reap, Shutdown
  <2>4. CASE Settle(p)
    <3>1. proc[p].job \in Job
      BY <2>4, <1>k DEF Settle, WorkStages
    <3>2. \/ Release(WorkerOf(p), proc[p].job)
          \/ MarkCompleted(WorkerOf(p), proc[p].job)
          \/ UNCHANGED vars
      BY <2>4 DEF Settle
    <3> QED BY <1>w, <3>1, <3>2 DEF Next
  <2>5. CASE Finalize(p)
    <3>1. proc[p].job \in Job
      BY <2>5, <1>k DEF Finalize, WorkStages
    <3>2. \/ \E m \in Marketplace, s \in {"failed", "skipped"} :
               UpdateMarketplace(WorkerOf(p), proc[p].job, m, s, {})
          \/ MarkFailed(WorkerOf(p), proc[p].job, {})
          \/ UNCHANGED vars
      BY <2>5 DEF Finalize, Unsettled
    <3> QED BY <1>w, <3>1, <3>2, UpdateIsCall, FailedIsCall
  <2>6. CASE Fail(p)
    <3>1. proc[p].job \in Job
      BY <2>6, <1>k DEF Fail, WorkStages
    <3>2. MarkFailed(WorkerOf(p), proc[p].job, {}) \/ UNCHANGED vars
      BY <2>6 DEF Fail
    <3> QED BY <1>w, <3>1, <3>2, FailedIsCall
  <2> QED BY <1>2, <2>1, <2>2, <2>3, <2>4, <2>5, <2>6 DEF Main
<1>3. ASSUME NEW p \in Process, Beat(p) PROVE [Next]_vars
  <2>1. (proc[p].job \in Job /\ Heartbeat(WorkerOf(p), proc[p].job)) \/ UNCHANGED vars
    BY <1>3, <1>o DEF Beat
  <2> QED BY <1>w, <2>1 DEF Next
<1>4. ASSUME NEW p \in Process, Line(p) PROVE [Next]_vars
  <2>1. proc[p].job \in Job
    BY <1>4, <1>k DEF Line, WorkStages
  <2>2. \/ \E m \in Marketplace, s \in Reported, c \in Tallies :
             UpdateMarketplace(WorkerOf(p), proc[p].job, m, s, c)
        \/ UNCHANGED vars
    BY <1>4 DEF Line
  <2> QED BY <1>w, <2>1, <2>2 DEF Next
<1>5. ASSUME NEW p \in Process, RequestStop(p) \/ Crash(p) \/ Restart(p) PROVE [Next]_vars
  BY <1>5 DEF RequestStop, Crash, Restart
<1>6. CASE RunnerStep
  BY <1>6 DEF RunnerStep, TakeLock, RunnerExit
<1>7. CASE ClockTick
  BY <1>7 DEF ClockTick, Next
<1>8. CASE UNCHANGED workerVars
  BY <1>8 DEF workerVars
<1> QED BY <1>1, <1>2, <1>3, <1>4, <1>5, <1>6, <1>7, <1>8 DEF WorkerNext

-----------------------------------------------------------------------------
(* Processes and children *)

LEMMA LeaveRow ==
  ASSUME ProcInv, NEW p \in Process, NEW pc \in {"poll", "failing"}, Leave(p, pc)
  PROVE  /\ proc' \in [Process -> ProcRow]
         /\ \A q \in Process \ {p} : proc'[q] = proc[q]
         /\ proc'[p].pc = pc
         /\ pc = "poll" => proc'[p].job = 0 /\ proc'[p].exit = "none"
         /\ pc = "failing" => proc'[p].job = proc[p].job /\ proc'[p].attempt = proc[p].attempt
         /\ runners' = runners \ ChildOf(p)
<1>1. FreshProc \in ProcRow /\ [FreshProc EXCEPT !.stop = proc[p].stop] \in ProcRow
  BY ConstantsAssumption DEF ProcInv, ProcRow, FreshProc
<1> QED BY <1>1 DEF ProcInv, ProcRow, FreshProc, Leave

\* A process that stops working, or goes on in a stage where it has no child
LEMMA AloneKeeps ==
  ASSUME ProcInv, NEW p \in Process,
         proc' \in [Process -> ProcRow],
         \A q \in Process \ {p} : proc'[q] = proc[q],
         runners' = runners \ ChildOf(p), faults' \in 0 .. MaxFaults,
         proc'[p].pc \in WorkStages => proc'[p].job \in Job,
         proc'[p].pc \in {"poll", "claim", "claimed"} => proc'[p].exit = "none"
  PROVE  ProcInv'
<1>1. \A r \in runners' : r \in runners /\ r.parent # p
  BY DEF ChildOf
<1>2. \A r \in runners : r.parent \in Process \cup {NoProcess}
  BY DEF ProcInv, Runner
<1>3. NoStrayChild'
  BY <1>1, <1>2 DEF ProcInv, NoStrayChild
<1>4. WorkIsOnJob' /\ ExitComesLater'
  BY DEF ProcInv, WorkIsOnJob, ExitComesLater
<1>5. OneChild' /\ runners' \subseteq Runner
  BY <1>1 DEF ProcInv, OneChild
<1> QED BY <1>3, <1>4, <1>5 DEF ProcInv

LEMMA LeaveKeeps ==
  ASSUME ProcInv, NEW p \in Process, NEW pc \in {"poll", "failing"}, Leave(p, pc),
         faults' \in 0 .. MaxFaults, proc[p].pc \in WorkStages
  PROVE  ProcInv'
<1>1. proc[p].job \in Job
  BY DEF ProcInv, WorkIsOnJob
<1> QED BY <1>1, LeaveRow, AloneKeeps, Zenon DEF WorkStages

LEMMA FaultCounts ==
  ASSUME ProcInv, Fault
  PROVE  faults' \in 0 .. MaxFaults
BY WorkerAssumption DEF ProcInv, Fault

LEMMA NoChild ==
  ASSUME ProcInv, NEW p \in Process, proc[p].pc # "reading" \/ proc[p].exit # "none"
  PROVE  ChildOf(p) = {} /\ runners \ ChildOf(p) = runners
<1>1. p # NoProcess
  BY WorkerAssumption
<1> QED BY <1>1 DEF ProcInv, NoStrayChild, ChildOf

\* A process that has no child changes its row.
LEMMA RowKeeps ==
  ASSUME ProcInv, NEW p \in Process, NEW row \in ProcRow,
         proc' = [proc EXCEPT ![p] = row],
         proc[p].pc # "reading" \/ proc[p].exit # "none",
         UNCHANGED runners, faults' \in 0 .. MaxFaults,
         row.pc \in WorkStages => row.job \in Job,
         row.pc \in {"poll", "claim", "claimed"} => row.exit = "none"
  PROVE  ProcInv'
<1>1. proc' \in [Process -> ProcRow] /\ proc'[p] = row /\ \A q \in Process \ {p} : proc'[q] = proc[q]
  BY DEF ProcInv
<1>2. runners' = runners \ ChildOf(p)
  BY NoChild
<1> QED BY <1>1, <1>2, AloneKeeps

LEMMA GotoKeeps ==
  ASSUME ProcInv, NEW p \in Process, NEW pc, Goto(p, pc), UNCHANGED <<runners, faults>>,
         proc[p].pc # "reading" \/ proc[p].exit # "none",
         \/ proc[p].pc \in {"poll", "claim"} /\ pc \in {"poll", "claim", "exited"}
         \/ proc[p].pc \in WorkStages /\ pc \in {"reaped", "finalizing"}
  PROVE  ProcInv'
<1> DEFINE row == [proc[p] EXCEPT !.pc = pc]
<1>1. row \in ProcRow /\ row.pc = pc /\ row.job = proc[p].job /\ row.exit = proc[p].exit
  BY DEF ProcInv, ProcRow, WorkStages
<1>2. proc' = [proc EXCEPT ![p] = row]
  BY DEF Goto
<1>3. faults' \in 0 .. MaxFaults
  BY DEF ProcInv
<1>4. /\ pc \in WorkStages => row.job \in Job
      /\ pc \in {"poll", "claim", "claimed"} => row.exit = "none"
  BY <1>1 DEF ProcInv, WorkIsOnJob, ExitComesLater, WorkStages
<1> HIDE DEF row
<1> QED BY <1>1, <1>2, <1>3, <1>4, RowKeeps

\* What changes no stage, job, attempt or exit status changes nothing that matters here.
LEMMA AsideKeeps ==
  ASSUME ProcInv, NEW p \in Process, NEW row \in ProcRow,
         proc' = [proc EXCEPT ![p] = row], UNCHANGED runners, faults' \in 0 .. MaxFaults,
         row.pc = proc[p].pc, row.job = proc[p].job, row.attempt = proc[p].attempt,
         row.exit = proc[p].exit
  PROVE  ProcInv'
<1>1. proc' \in [Process -> ProcRow]
  BY DEF ProcInv
<1>2. \A q \in Process : /\ proc'[q].pc = proc[q].pc /\ proc'[q].job = proc[q].job
                         /\ proc'[q].attempt = proc[q].attempt /\ proc'[q].exit = proc[q].exit
  BY DEF ProcInv
<1>3. \A r \in runners : r.parent \in Process \cup {NoProcess}
  BY DEF ProcInv, Runner
<1>4. NoStrayChild'
  BY <1>2, <1>3 DEF ProcInv, NoStrayChild
<1>5. WorkIsOnJob' /\ ExitComesLater' /\ OneChild'
  BY <1>2 DEF ProcInv, WorkIsOnJob, ExitComesLater, OneChild
<1> QED BY <1>1, <1>4, <1>5 DEF ProcInv

LEMMA SpawnKeeps ==
  ASSUME ProcInv, NEW p \in Process, Spawn(p)
  PROVE  ProcInv'
<1> DEFINE child == [parent |-> p, host |-> HostOf[p], job |-> proc[p].job,
                     attempt |-> proc[p].attempt, phase |-> "starting"]
<1>1. /\ proc' \in [Process -> ProcRow] /\ \A q \in Process \ {p} : proc'[q] = proc[q]
      /\ proc'[p].pc = "reading" /\ proc'[p].exit = "none"
      /\ proc'[p].job = proc[p].job /\ proc'[p].attempt = proc[p].attempt
      /\ proc[p].job \in Job
  BY DEF Spawn, ProcInv, ProcRow, ExitComesLater, WorkIsOnJob, WorkStages
<1>2. ChildOf(p) = {}
  BY NoChild DEF Spawn
<1>3. child \in Runner
  <2>1. proc[p].attempt \in 0 .. MaxAttempts /\ HostOf[p] \in Host
    BY WorkerAssumption DEF ProcInv, ProcRow
  <2> QED BY <1>1, <2>1 DEF Runner
<1>4. runners' = runners \cup {child} /\ UNCHANGED faults
  BY DEF Spawn
<1>5. child.parent = p /\ child.job = proc[p].job /\ child.attempt = proc[p].attempt
  OBVIOUS
<1>6. \A r \in runners : r.parent \in (Process \cup {NoProcess}) \ {p}
  BY <1>2 DEF ProcInv, Runner, ChildOf
<1> HIDE DEF child
<1>7. NoStrayChild'
  BY <1>1, <1>4, <1>5, <1>6 DEF ProcInv, NoStrayChild
<1>8. OneChild'
  BY <1>4, <1>5, <1>6 DEF ProcInv, OneChild
<1>9. WorkIsOnJob' /\ ExitComesLater'
  BY <1>1 DEF ProcInv, WorkIsOnJob, ExitComesLater
<1> QED BY <1>1, <1>3, <1>4, <1>7, <1>8, <1>9 DEF ProcInv

LEMMA ExitsKeeps ==
  ASSUME ProcInv, NEW r \in runners, NEW code \in {"ok", "error"}, Exits(r, code), UNCHANGED faults
  PROVE  ProcInv'
<1>1. r \in Runner /\ runners' = runners \ {r}
  BY DEF ProcInv, Exits
<1>2. CASE r.parent = NoProcess
  <2>1. UNCHANGED proc
    BY <1>2 DEF Exits
  <2> QED BY <1>1, <2>1 DEF ProcInv, NoStrayChild, WorkIsOnJob, ExitComesLater, OneChild
<1>3. CASE r.parent # NoProcess
  <2> DEFINE p == r.parent
  <2>1. p \in Process /\ proc[p].pc = "reading"
    BY <1>1, <1>3 DEF Runner, ProcInv, NoStrayChild
  <2>2. /\ proc' \in [Process -> ProcRow] /\ \A q \in Process \ {p} : proc'[q] = proc[q]
        /\ proc'[p].pc = "reading" /\ proc'[p].job = proc[p].job
    BY <1>3, <2>1 DEF Exits, ProcInv, ProcRow
  <2>3. ChildOf(p) = {r}
    BY <1>3 DEF ChildOf, ProcInv, OneChild
  <2>4. proc[p].job \in Job
    BY <2>1 DEF ProcInv, WorkIsOnJob, WorkStages
  <2>5. faults' \in 0 .. MaxFaults
    BY DEF ProcInv
  <2> HIDE DEF p
  <2> QED BY <1>1, <2>1, <2>2, <2>3, <2>4, <2>5, AloneKeeps
<1> QED BY <1>2, <1>3

LEMMA TakeLockKeeps ==
  ASSUME ProcInv, NEW r \in runners, TakeLock(r)
  PROVE  ProcInv'
<1>1. CASE \E q \in runners : q.phase = "ingesting" /\ q.host = r.host
  BY <1>1, ExitsKeeps DEF TakeLock
<1>2. CASE ~\E q \in runners : q.phase = "ingesting" /\ q.host = r.host
  <2> DEFINE s == [r EXCEPT !.phase = "ingesting"]
  <2>1. s \in Runner /\ s.parent = r.parent /\ s.job = r.job /\ s.attempt = r.attempt
    BY DEF ProcInv, Runner
  <2>2. runners' = (runners \ {r}) \cup {s} /\ UNCHANGED <<proc, faults>>
    BY <1>2 DEF TakeLock
  <2> HIDE DEF s
  <2>3. NoStrayChild' /\ OneChild'
    BY <2>1, <2>2 DEF ProcInv, NoStrayChild, OneChild
  <2> QED BY <2>1, <2>2, <2>3 DEF ProcInv, WorkIsOnJob, ExitComesLater
<1> QED BY <1>1, <1>2

LEMMA CrashKeeps ==
  ASSUME ProcInv, NEW p \in Process, Crash(p)
  PROVE  ProcInv'
<1> DEFINE Orphan(r) == [r EXCEPT !.parent = NoProcess]
<1>1. PICK orphans \in {{}, {Orphan(r) : r \in ChildOf(p)}} :
        runners' = (runners \ ChildOf(p)) \cup orphans
  BY DEF Crash
<1>2. \A r \in orphans : r \in Runner /\ r.parent = NoProcess
  BY DEF ChildOf, ProcInv, Runner
<1>3. /\ proc' \in [Process -> ProcRow] /\ \A q \in Process \ {p} : proc'[q] = proc[q]
      /\ proc'[p].pc = "dead"
  BY ConstantsAssumption DEF Crash, ProcInv, ProcRow, FreshProc
<1>4. \A r \in runners \ ChildOf(p) : r.parent \in (Process \cup {NoProcess}) \ {p}
  BY DEF ProcInv, Runner, ChildOf
<1>5. NoStrayChild'
  BY <1>1, <1>2, <1>3, <1>4 DEF ProcInv, NoStrayChild
<1>6. OneChild' /\ runners' \subseteq Runner
  BY <1>1, <1>2 DEF ProcInv, OneChild
<1>7. WorkIsOnJob' /\ ExitComesLater'
  BY <1>3 DEF ProcInv, WorkIsOnJob, ExitComesLater, WorkStages
<1>8. faults' \in 0 .. MaxFaults
  BY FaultCounts DEF Crash
<1> QED BY <1>3, <1>5, <1>6, <1>7, <1>8 DEF ProcInv

-----------------------------------------------------------------------------
(* What a call of somebody else may do to a claim *)

\* No worker comes to own a job, and none is completed.
Steady ==
  \A k \in Job :
    /\ job'[k].state = "completed" => job[k].state = "completed"
    /\ \A w \in WorkerId : Owns(w, k)' => Owns(w, k) /\ job'[k].attempt = job[k].attempt

LEMMA WebIsSteady ==
  ASSUME TypeOK, Web
  PROVE  Steady
<1>1. ASSUME NEW j \in Job, NEW a \in Account, NEW i \in Input \cup {NoInput}, Create(j, a, i)
      PROVE  Steady
  BY <1>1 DEF Create, TypeOK, JobRow, Steady, Owns, Live
<1>2. ASSUME NEW j \in Job, RequestCancel(j) PROVE Steady
  BY <1>2 DEF RequestCancel, TypeOK, JobRow, Steady, Owns, Live
<1>3. ASSUME NEW j \in Job, CancelQueued(j) PROVE Steady
  BY <1>3 DEF CancelQueued, TypeOK, JobRow, Steady, Owns, Live
<1> QED BY <1>1, <1>2, <1>3 DEF Web

LEMMA RequeueIsSteady ==
  ASSUME TypeOK, NEW S \in SUBSET Job, RequeueExpired(S)
  PROVE  Steady
<1>1. \A k \in S : job'[k].state = "queued"
  BY RequeueEffect
<1>2. \A k \in Job \ S : job'[k] = job[k]
  BY RequeueEffect
<1> QED BY <1>1, <1>2 DEF Steady, Owns, Live

LEMMA HeartbeatIsSteady ==
  ASSUME TypeOK, NEW w \in WorkerId, NEW j \in Job, Heartbeat(w, j)
  PROVE  Steady
BY DEF Heartbeat, TypeOK, JobRow, Steady, Owns, Live

LEMMA FailedIsSteady ==
  ASSUME TypeOK, NEW w \in WorkerId, NEW j \in Job, MarkFailed(w, j, {})
  PROVE  Steady
<1>1. (\A k \in Job \ {j} : job'[k] = job[k]) /\ job'[j].state = "failed"
  BY MarkFailedEffect
<1> QED BY <1>1 DEF Steady, Owns, Live

LEMMA ReleaseIsSteady ==
  ASSUME TypeOK, NEW w \in WorkerId, NEW j \in Job, Release(w, j)
  PROVE  Steady
<1>1. (\A k \in Job \ {j} : job'[k] = job[k]) /\ job'[j].state = "queued"
  BY ReleaseEffect
<1> QED BY <1>1 DEF Steady, Owns, Live

LEMMA TickIsSteady ==
  ASSUME TypeOK, Tick
  PROVE  Steady
BY DEF Tick, TypeOK, JobRow, Steady, Owns, Live

LEMMA SameIsSteady ==
  ASSUME job' = job
  PROVE  Steady
BY DEF Steady, Owns, Live

\* Processes that keep their jobs, or drop them
Keeping ==
  \A q \in Process : \/ proc'[q].job = 0
                     \/ proc'[q].job = proc[q].job /\ proc'[q].attempt = proc[q].attempt

LEMMA LeaveIsKeeping ==
  ASSUME ProcInv, NEW p \in Process, NEW pc \in {"poll", "failing"}, Leave(p, pc)
  PROVE  Keeping
BY LeaveRow DEF Keeping

LEMMA ClaimantStays ==
  ASSUME WorkerInv, ProcInv', Steady, Keeping
  PROVE  OwnerIsClaimant'
<1> SUFFICES ASSUME NEW p \in Process, Owning(p)'
             PROVE  proc'[p].attempt = job'[proc'[p].job].attempt
  BY DEF OwnerIsClaimant
<1>1. proc'[p].job \in Job
  BY DEF ProcInv, ProcRow, Owning
<1>2. proc'[p].job = proc[p].job /\ proc'[p].attempt = proc[p].attempt
  BY DEF Keeping, Owning
<1>3. WorkerOf(p) \in WorkerId
  BY WorkerAssumption DEF WorkerOf
<1>4. Owns(WorkerOf(p), proc[p].job) /\ job'[proc[p].job].attempt = job[proc[p].job].attempt
  BY <1>1, <1>2, <1>3 DEF Steady, Owning, WorkerOf
<1>5. Owning(p)
  BY <1>2, <1>4 DEF Owning
<1> QED BY <1>2, <1>4, <1>5 DEF WorkerInv, OwnerIsClaimant

\* The claim itself: the owner is new, and so is its attempt.
LEMMA ClaimKeeps ==
  ASSUME WorkerInv, TypeOK', NEW p \in Process, NEW j \in Job,
         proc[p].pc = "claim", Claim(WorkerOf(p), j),
         proc' = [proc EXCEPT ![p] = [@ EXCEPT !.pc = "claimed", !.job = j, !.attempt = job'[j].attempt]],
         UNCHANGED <<runners, faults>>
  PROVE  ProcInv' /\ OwnerIsClaimant'
<1> DEFINE row == [proc[p] EXCEPT !.pc = "claimed", !.job = j, !.attempt = job'[j].attempt]
<1>1. /\ row \in ProcRow /\ row.pc = "claimed" /\ row.job = j /\ row.attempt = job'[j].attempt
      /\ row.exit = proc[p].exit
  <2>1. job'[j].attempt \in 0 .. MaxAttempts
    BY DEF TypeOK, JobRow
  <2> QED BY <2>1 DEF WorkerInv, ProcInv, ProcRow
<1>2. proc' = [proc EXCEPT ![p] = row]
  OBVIOUS
<1>3. proc[p].exit = "none" /\ faults' \in 0 .. MaxFaults
  BY DEF WorkerInv, ProcInv, ExitComesLater
<1> HIDE DEF row
<1>4. ProcInv'
  BY <1>1, <1>2, <1>3, RowKeeps DEF WorkerInv
<1>5. OwnerIsClaimant'
  <2> SUFFICES ASSUME NEW q \in Process, Owning(q)'
               PROVE  proc'[q].attempt = job'[proc'[q].job].attempt
    BY DEF OwnerIsClaimant
  <2>1. proc'[p] = row /\ \A o \in Process \ {p} : proc'[o] = proc[o]
    BY <1>2 DEF WorkerInv, ProcInv
  <2>2. CASE q = p
    BY <1>1, <2>1, <2>2
  <2>3. CASE q # p
    <3>1. proc'[q] = proc[q]
      BY <2>1, <2>3
    <3>2. WorkerOf(q) # WorkerOf(p) /\ WorkerOf(p) \in WorkerId
      BY <2>3, WorkerAssumption DEF WorkerOf
    <3>3. proc[q].job # 0 /\ Owns(WorkerOf(q), proc[q].job)'
      BY <3>1 DEF Owning, WorkerOf
    <3>4. proc[q].job \in Job
      BY <3>3 DEF WorkerInv, ProcInv, ProcRow
    <3>5. job'[j].owner = WorkerOf(p) /\ \A k \in Job \ {j} : job'[k] = job[k]
      BY <3>2, ClaimEffect DEF WorkerInv
    <3>6. proc[q].job # j
      BY <3>2, <3>3, <3>5 DEF Owns, WorkerOf
    <3>7. job'[proc[q].job] = job[proc[q].job]
      BY <3>4, <3>5, <3>6
    <3>8. Owning(q)
      BY <3>1, <3>3, <3>7 DEF Owning, Owns, Live, WorkerOf
    <3> QED BY <3>1, <3>7, <3>8 DEF WorkerInv, OwnerIsClaimant
  <2> QED BY <2>2, <2>3
<1> QED BY <1>4, <1>5

\* A completion: nobody owns the job any more.
LEMMA CompletedEnds ==
  ASSUME TypeOK, NEW w \in WorkerId, NEW j \in Job, MarkCompleted(w, j)
  PROVE  \A k \in Job, v \in WorkerId : Owns(v, k)' => Owns(v, k) /\ job'[k].attempt = job[k].attempt
<1>1. (\A k \in Job \ {j} : job'[k] = job[k]) /\ job'[j].state = "completed"
  BY MarkCompletedEffect
<1> QED BY <1>1 DEF Owns, Live

-----------------------------------------------------------------------------
(* Every step *)

\* A process leaves its job while the coordinator's rows are steady.
LEMMA LeaveStep ==
  ASSUME WorkerInv, NEW p \in Process, NEW pc \in {"poll", "failing"}, Leave(p, pc),
         proc[p].pc \in WorkStages, UNCHANGED faults \/ Fault, Steady
  PROVE  ProcInv' /\ OwnerIsClaimant'
<1>1. faults' \in 0 .. MaxFaults
  BY FaultCounts DEF WorkerInv, ProcInv
<1>2. ProcInv'
  BY <1>1, LeaveKeeps DEF WorkerInv
<1> QED BY <1>2, LeaveIsKeeping, ClaimantStays DEF WorkerInv

LEMMA GotoStep ==
  ASSUME WorkerInv, NEW p \in Process, NEW pc, Goto(p, pc), UNCHANGED <<runners, faults>>, Steady,
         proc[p].pc # "reading" \/ proc[p].exit # "none",
         \/ proc[p].pc \in {"poll", "claim"} /\ pc \in {"poll", "claim", "exited"}
         \/ proc[p].pc \in WorkStages /\ pc \in {"reaped", "finalizing"}
  PROVE  ProcInv' /\ OwnerIsClaimant'
<1>1. ProcInv'
  BY GotoKeeps DEF WorkerInv
<1>2. Keeping
  BY DEF Keeping, Goto, WorkerInv, ProcInv, ProcRow
<1> QED BY <1>1, <1>2, ClaimantStays

\* A report, of a line or of a row that is finalised, changes no job.
LEMMA ReportStep ==
  ASSUME WorkerInv, NEW w, NEW j, NEW m, NEW s, NEW c, UpdateMarketplace(w, j, m, s, c),
         UNCHANGED <<proc, runners, faults>>
  PROVE  ProcInv' /\ OwnerIsClaimant'
<1>1. ProcInv' /\ Keeping
  BY DEF WorkerInv, ProcInv, WorkIsOnJob, ExitComesLater, NoStrayChild, OneChild, Keeping
<1>2. Steady
  BY SameIsSteady DEF UpdateMarketplace
<1> QED BY <1>1, <1>2, ClaimantStays

LEMMA SettleStep ==
  ASSUME WorkerInv, NEW p \in Process, Settle(p)
  PROVE  /\ ProcInv' /\ OwnerIsClaimant'
         /\ \A k \in Job : job[k].state # "completed" /\ job'[k].state = "completed" =>
              proc[p].job = k /\ proc[p].attempt = job[k].attempt /\ proc[p].exit = "ok"
<1> DEFINE Completes(k) == job[k].state # "completed" /\ job'[k].state = "completed"
<1>a. proc[p].pc = "reaped" /\ proc[p].pc \in WorkStages /\ TypeOK
  BY DEF Settle, WorkStages, WorkerInv
<1>b. proc[p].job \in Job /\ WorkerOf(p) \in WorkerId
  BY <1>a, WorkerAssumption DEF WorkerInv, ProcInv, WorkIsOnJob, WorkerOf
<1>1. \/ /\ UNCHANGED job
         /\ \E pc \in {"poll", "failing"} : Leave(p, pc)
         /\ UNCHANGED faults \/ Fault
      \/ Release(WorkerOf(p), proc[p].job) /\ Leave(p, "poll") /\ UNCHANGED faults
      \/ /\ Succeeded(p) /\ MarkCompleted(WorkerOf(p), proc[p].job)
         /\ Leave(p, "poll") /\ UNCHANGED faults
      \/ Goto(p, "finalizing") /\ UNCHANGED <<job, runners, faults>>
  BY DEF Settle
<1>2. CASE /\ UNCHANGED job
           /\ \E pc \in {"poll", "failing"} : Leave(p, pc)
           /\ UNCHANGED faults \/ Fault
  BY <1>2, <1>a, SameIsSteady, LeaveStep
<1>3. CASE Release(WorkerOf(p), proc[p].job) /\ Leave(p, "poll") /\ UNCHANGED faults
  <2>1. Steady
    BY <1>3, <1>a, <1>b, ReleaseIsSteady
  <2> QED BY <1>3, <1>a, <2>1, LeaveStep DEF Steady
<1>4. CASE /\ Succeeded(p) /\ MarkCompleted(WorkerOf(p), proc[p].job)
           /\ Leave(p, "poll") /\ UNCHANGED faults
  <2>1. ProcInv'
    BY <1>4, <1>a, LeaveKeeps DEF WorkerInv, ProcInv
  <2>2. Keeping
    BY <1>4, LeaveIsKeeping DEF WorkerInv
  <2>3. OwnerIsClaimant'
    <3> SUFFICES ASSUME NEW q \in Process, Owning(q)'
                 PROVE  proc'[q].attempt = job'[proc'[q].job].attempt
      BY DEF OwnerIsClaimant
    <3>1. proc'[q].job \in Job /\ proc'[q].job = proc[q].job /\ proc'[q].attempt = proc[q].attempt
      BY <2>1, <2>2 DEF ProcInv, ProcRow, Owning, Keeping
    <3>2. Owns(WorkerOf(q), proc[q].job) /\ job'[proc[q].job].attempt = job[proc[q].job].attempt
      <4>1. \A k \in Job, v \in WorkerId :
              Owns(v, k)' => Owns(v, k) /\ job'[k].attempt = job[k].attempt
        BY <1>4, <1>a, <1>b, CompletedEnds
      <4>2. WorkerOf(q) \in WorkerId
        BY WorkerAssumption DEF WorkerOf
      <4> QED BY <3>1, <4>1, <4>2 DEF Owning, WorkerOf
    <3>3. Owning(q)
      BY <3>1, <3>2 DEF Owning
    <3> QED BY <3>1, <3>2, <3>3 DEF WorkerInv, OwnerIsClaimant
  <2>4. ASSUME NEW k \in Job, Completes(k)
        PROVE  proc[p].job = k /\ proc[p].attempt = job[k].attempt /\ proc[p].exit = "ok"
    <3>1. proc[p].job = k
      BY <1>4, <1>a, <1>b, <2>4, MarkCompletedEffect
    <3>2. Owning(p)
      BY <1>4, <1>b DEF MarkCompleted, Owning, Job
    <3> QED BY <1>4, <3>1, <3>2 DEF Succeeded, WorkerInv, OwnerIsClaimant
  <2> QED BY <2>1, <2>3, <2>4
<1>5. CASE Goto(p, "finalizing") /\ UNCHANGED <<job, runners, faults>>
  BY <1>5, <1>a, SameIsSteady, GotoStep
<1> QED BY <1>1, <1>2, <1>3, <1>4, <1>5

LEMMA FinalizeStep ==
  ASSUME WorkerInv, NEW p \in Process, Finalize(p) \/ Fail(p)
  PROVE  ProcInv' /\ OwnerIsClaimant' /\ Steady
<1>a. proc[p].pc \in WorkStages /\ TypeOK
  BY DEF Finalize, Fail, WorkStages, WorkerInv
<1>b. proc[p].job \in Job /\ WorkerOf(p) \in WorkerId
  BY <1>a, WorkerAssumption DEF WorkerInv, ProcInv, WorkIsOnJob, WorkerOf
<1>1. \/ /\ \E m, s : UpdateMarketplace(WorkerOf(p), proc[p].job, m, s, {})
         /\ UNCHANGED <<proc, runners, faults>>
      \/ /\ MarkFailed(WorkerOf(p), proc[p].job, {}) \/ UNCHANGED job
         /\ \E pc \in {"poll", "failing"} : Leave(p, pc)
         /\ UNCHANGED faults \/ Fault
  BY DEF Finalize, Fail
<1>2. CASE /\ \E m, s : UpdateMarketplace(WorkerOf(p), proc[p].job, m, s, {})
           /\ UNCHANGED <<proc, runners, faults>>
  <2>1. Steady
    BY <1>2, SameIsSteady DEF UpdateMarketplace
  <2> QED BY <1>2, <2>1, ReportStep
<1>3. CASE /\ MarkFailed(WorkerOf(p), proc[p].job, {}) \/ UNCHANGED job
           /\ \E pc \in {"poll", "failing"} : Leave(p, pc)
           /\ UNCHANGED faults \/ Fault
  <2>1. Steady
    BY <1>3, <1>a, <1>b, FailedIsSteady, SameIsSteady
  <2> QED BY <1>3, <1>a, <2>1, LeaveStep
<1> QED BY <1>1, <1>2, <1>3

LEMMA LineStep ==
  ASSUME WorkerInv, NEW p \in Process, Line(p)
  PROVE  ProcInv' /\ OwnerIsClaimant' /\ Steady
<1> DEFINE row == [proc[p] EXCEPT !.pc = "reaped",
                                  !.exit = IF proc[p].exit = "none" THEN "error" ELSE proc[p].exit]
<1>a. proc[p].pc \in WorkStages
  BY DEF Line, WorkStages
<1>0. Steady
  BY SameIsSteady DEF Line, UpdateMarketplace
<1>1. \/ /\ proc' = [proc EXCEPT ![p] = row] /\ runners' = runners \ ChildOf(p)
         /\ UNCHANGED faults
      \/ /\ \E m, s, c : UpdateMarketplace(WorkerOf(p), proc[p].job, m, s, c)
         /\ UNCHANGED <<proc, runners, faults>>
      \/ /\ \E pc \in {"poll", "failing"} : Leave(p, pc)
         /\ UNCHANGED faults \/ Fault
  BY DEF Line
<1>2. CASE /\ proc' = [proc EXCEPT ![p] = row] /\ runners' = runners \ ChildOf(p)
           /\ UNCHANGED faults
  <2>1. /\ row \in ProcRow /\ row.pc = "reaped"
        /\ row.job = proc[p].job /\ row.attempt = proc[p].attempt
    BY DEF WorkerInv, ProcInv, ProcRow
  <2> HIDE DEF row
  <2>2. /\ proc' \in [Process -> ProcRow] /\ proc'[p] = row
        /\ \A q \in Process \ {p} : proc'[q] = proc[q]
    BY <1>2, <2>1 DEF WorkerInv, ProcInv
  <2>3. proc[p].job \in Job /\ faults' \in 0 .. MaxFaults
    BY <1>a, <1>2 DEF WorkerInv, ProcInv, WorkIsOnJob
  <2>4. ProcInv'
    BY <1>2, <2>1, <2>2, <2>3, AloneKeeps DEF WorkerInv
  <2>5. Keeping
    BY <2>1, <2>2 DEF Keeping
  <2> QED BY <1>0, <2>4, <2>5, ClaimantStays
<1>3. CASE /\ \E m, s, c : UpdateMarketplace(WorkerOf(p), proc[p].job, m, s, c)
           /\ UNCHANGED <<proc, runners, faults>>
  BY <1>0, <1>3, ReportStep
<1>4. CASE /\ \E pc \in {"poll", "failing"} : Leave(p, pc)
           /\ UNCHANGED faults \/ Fault
  BY <1>0, <1>4, <1>a, LeaveStep
<1> QED BY <1>1, <1>2, <1>3, <1>4

LEMMA BeatStep ==
  ASSUME WorkerInv, NEW p \in Process, Beat(p)
  PROVE  ProcInv' /\ OwnerIsClaimant' /\ Steady
<1>1. CASE /\ Owning(p) /\ Heartbeat(WorkerOf(p), proc[p].job)
           /\ UNCHANGED <<proc, runners, faults>>
  <2>1. proc[p].job \in Job /\ WorkerOf(p) \in WorkerId /\ TypeOK
    BY <1>1, WorkerAssumption DEF Owning, WorkerInv, ProcInv, ProcRow, WorkerOf
  <2>2. Steady
    BY <1>1, <2>1, HeartbeatIsSteady
  <2>3. ProcInv' /\ Keeping
    BY <1>1 DEF WorkerInv, ProcInv, WorkIsOnJob, ExitComesLater, NoStrayChild, OneChild, Keeping
  <2> QED BY <2>2, <2>3, ClaimantStays
<1>2. CASE /\ proc' = [proc EXCEPT ![p] = [@ EXCEPT !.beat = "lost"]]
           /\ UNCHANGED <<job, runners>> /\ (Fault \/ UNCHANGED faults)
  <2> DEFINE row == [proc[p] EXCEPT !.beat = "lost"]
  <2>1. /\ row \in ProcRow /\ row.pc = proc[p].pc /\ row.job = proc[p].job
        /\ row.attempt = proc[p].attempt /\ row.exit = proc[p].exit
    BY DEF WorkerInv, ProcInv, ProcRow
  <2>2. proc' = [proc EXCEPT ![p] = row]
    BY <1>2
  <2> HIDE DEF row
  <2>3. faults' \in 0 .. MaxFaults
    BY <1>2, FaultCounts DEF WorkerInv, ProcInv
  <2>4. ProcInv'
    BY <1>2, <2>1, <2>2, <2>3, AsideKeeps DEF WorkerInv
  <2>5. Keeping /\ Steady
    BY <1>2, <2>1, <2>2, SameIsSteady DEF Keeping, WorkerInv, ProcInv
  <2> QED BY <2>4, <2>5, ClaimantStays
<1> QED BY <1>1, <1>2 DEF Beat, vars

LEMMA LoopStep ==
  ASSUME WorkerInv, TypeOK', NEW p \in Process,
         Recover(p) \/ TakeJob(p) \/ ImportFails(p) \/ Spawn(p) \/ Reap(p) \/ Shutdown(p)
  PROVE  /\ ProcInv' /\ OwnerIsClaimant'
         /\ \A k \in Job : job'[k].state = "completed" => job[k].state = "completed"
<1>a. TypeOK /\ ProcInv /\ WorkerOf(p) \in WorkerId
  BY WorkerAssumption DEF WorkerInv, WorkerOf
<1>1. CASE Recover(p)
  <2>1. {j \in Job : Expired(j)} \in SUBSET Job
    OBVIOUS
  <2>2. Steady
    BY <1>1, <1>a, <2>1, RequeueIsSteady, SameIsSteady DEF Recover, vars
  <2>3. proc[p].pc = "poll" /\ Goto(p, "claim") /\ UNCHANGED <<runners, faults>>
    BY <1>1 DEF Recover, KeepsPolling
  <2> QED BY <2>2, <2>3, GotoStep DEF Steady
<1>2. CASE TakeJob(p)
  <2>1. ASSUME NEW j \in Job, Claim(WorkerOf(p), j),
               proc' = [proc EXCEPT ![p] =
                 [@ EXCEPT !.pc = "claimed", !.job = j, !.attempt = job'[j].attempt]]
        PROVE  /\ ProcInv' /\ OwnerIsClaimant'
               /\ \A k \in Job : job'[k].state = "completed" => job[k].state = "completed"
    <3>1. proc[p].pc = "claim" /\ UNCHANGED <<runners, faults>>
      BY <1>2 DEF TakeJob
    <3>2. ProcInv' /\ OwnerIsClaimant'
      BY <2>1, <3>1, ClaimKeeps
    <3>3. job'[j].state = "running" /\ \A k \in Job \ {j} : job'[k] = job[k]
      BY <1>a, <2>1, ClaimEffect
    <3> QED BY <3>2, <3>3
  <2>2. CASE Goto(p, "poll") /\ UNCHANGED vars
    <3>1. proc[p].pc = "claim" /\ UNCHANGED <<runners, faults>> /\ Steady
      BY <1>2, <2>2, SameIsSteady DEF TakeJob, vars
    <3> QED BY <2>2, <3>1, GotoStep DEF Steady
  <2> QED BY <1>2, <2>1, <2>2 DEF TakeJob
<1>3. CASE ImportFails(p)
  <2>1. Steady /\ proc[p].pc \in WorkStages /\ Leave(p, "failing") /\ UNCHANGED faults
    BY <1>3, SameIsSteady DEF ImportFails, WorkStages
  <2> QED BY <2>1, LeaveStep DEF Steady
<1>4. CASE Spawn(p)
  <2>1. Steady /\ ProcInv'
    BY <1>4, <1>a, SpawnKeeps, SameIsSteady DEF Spawn
  <2>2. Keeping
    BY <1>4 DEF Keeping, Spawn, WorkerInv, ProcInv, ProcRow
  <2> QED BY <2>1, <2>2, ClaimantStays DEF Steady
<1>5. CASE Reap(p)
  <2>1. Steady /\ proc[p].pc \in WorkStages /\ proc[p].exit # "none" /\ Goto(p, "reaped")
        /\ UNCHANGED <<runners, faults>>
    BY <1>5, SameIsSteady DEF Reap, WorkStages
  <2> QED BY <2>1, GotoStep DEF Steady
<1>6. CASE Shutdown(p)
  <2>1. Steady /\ proc[p].pc = "poll" /\ Goto(p, "exited") /\ UNCHANGED <<runners, faults>>
    BY <1>6, SameIsSteady DEF Shutdown
  <2> QED BY <2>1, GotoStep DEF Steady
<1> QED BY <1>1, <1>2, <1>3, <1>4, <1>5, <1>6

LEMMA HostStep ==
  ASSUME WorkerInv, NEW p \in Process, RequestStop(p) \/ Crash(p) \/ Restart(p)
  PROVE  ProcInv' /\ OwnerIsClaimant' /\ Steady
<1>0. Steady /\ ProcInv
  BY SameIsSteady DEF RequestStop, Crash, Restart, WorkerInv
<1>1. CASE RequestStop(p)
  <2> DEFINE row == [proc[p] EXCEPT !.stop = "yes"]
  <2>1. /\ row \in ProcRow /\ row.pc = proc[p].pc /\ row.job = proc[p].job
        /\ row.attempt = proc[p].attempt /\ row.exit = proc[p].exit
    BY <1>0 DEF ProcInv, ProcRow
  <2>2. proc' = [proc EXCEPT ![p] = row] /\ UNCHANGED runners
    BY <1>1 DEF RequestStop
  <2> HIDE DEF row
  <2>3. faults' \in 0 .. MaxFaults
    BY <1>0, <1>1, FaultCounts DEF RequestStop
  <2>4. ProcInv'
    BY <1>0, <2>1, <2>2, <2>3, AsideKeeps
  <2>5. Keeping
    BY <1>0, <2>1, <2>2 DEF Keeping, ProcInv
  <2> QED BY <1>0, <2>4, <2>5, ClaimantStays
<1>2. CASE Crash(p)
  <2>1. ProcInv'
    BY <1>0, <1>2, CrashKeeps
  <2>2. Keeping
    BY <1>0, <1>2 DEF Keeping, Crash, ProcInv, ProcRow, FreshProc
  <2> QED BY <1>0, <2>1, <2>2, ClaimantStays
<1>3. CASE Restart(p)
  <2>1. /\ proc' = [proc EXCEPT ![p] = FreshProc] /\ UNCHANGED <<runners, faults>>
        /\ proc[p].pc # "reading"
    BY <1>3 DEF Restart
  <2>2. FreshProc \in ProcRow /\ FreshProc.pc = "poll" /\ FreshProc.job = 0 /\ FreshProc.exit = "none"
    BY ConstantsAssumption DEF FreshProc, ProcRow
  <2>3. faults' \in 0 .. MaxFaults
    BY <1>0, <2>1 DEF ProcInv
  <2>4. ProcInv'
    BY <1>0, <2>1, <2>2, <2>3, RowKeeps DEF WorkStages
  <2>5. Keeping
    BY <1>0, <2>1, <2>2 DEF Keeping, ProcInv
  <2> QED BY <1>0, <2>4, <2>5, ClaimantStays
<1> QED BY <1>1, <1>2, <1>3

\* Steps of children, clocks and pages
LEMMA ElsewhereStep ==
  ASSUME WorkerInv, RunnerStep \/ ClockTick \/ Web \/ UNCHANGED workerVars
  PROVE  ProcInv' /\ OwnerIsClaimant' /\ Steady
<1>0. TypeOK /\ ProcInv
  BY DEF WorkerInv
<1>1. ASSUME NEW r \in runners, TakeLock(r) \/ RunnerExit(r)
      PROVE  ProcInv' /\ OwnerIsClaimant' /\ Steady
  <2>1. Steady /\ UNCHANGED faults
    BY <1>1, SameIsSteady DEF TakeLock, RunnerExit
  <2>2. ProcInv'
    BY <1>0, <1>1, TakeLockKeeps, ExitsKeeps DEF RunnerExit
  <2>3. Keeping
    <3>1. UNCHANGED proc \/ \E code : proc' = [proc EXCEPT ![r.parent] = [@ EXCEPT !.exit = code]]
      BY <1>1 DEF TakeLock, RunnerExit, Exits
    <3>2. ASSUME NEW q \in Process
          PROVE  proc'[q].job = proc[q].job /\ proc'[q].attempt = proc[q].attempt
      <4>1. CASE UNCHANGED proc
        BY <4>1
      <4>2. ASSUME NEW code, proc' = [proc EXCEPT ![r.parent] = [@ EXCEPT !.exit = code]]
            PROVE  proc'[q].job = proc[q].job /\ proc'[q].attempt = proc[q].attempt
        <5>1. proc'[q] = proc[q] \/ proc'[q] = [proc[q] EXCEPT !.exit = code]
          BY <1>0, <4>2 DEF ProcInv
        <5>2. proc[q] \in ProcRow
          BY <1>0 DEF ProcInv
        <5> QED BY <5>1, <5>2 DEF ProcRow
      <4> QED BY <3>1, <4>1, <4>2
    <3> QED BY <3>2 DEF Keeping
  <2> QED BY <2>1, <2>2, <2>3, ClaimantStays
<1>2. CASE ClockTick \/ Web \/ UNCHANGED workerVars
  <2>1. Steady
    BY <1>0, <1>2, TickIsSteady, WebIsSteady, SameIsSteady DEF ClockTick, workerVars
  <2>2. UNCHANGED <<proc, runners>> /\ (UNCHANGED faults \/ Fault)
    BY <1>2 DEF ClockTick, Web, workerVars
  <2>3. faults' \in 0 .. MaxFaults
    BY <1>0, <2>2, FaultCounts DEF ProcInv
  <2>4. ProcInv' /\ Keeping
    BY <1>0, <2>2, <2>3 DEF ProcInv, WorkIsOnJob, ExitComesLater, NoStrayChild, OneChild, Keeping
  <2> QED BY <2>1, <2>4, ClaimantStays
<1> QED BY <1>1, <1>2 DEF RunnerStep

LEMMA WorkerInvStep == WorkerInv /\ [WorkerNext]_workerVars => WorkerInv'
<1> SUFFICES ASSUME WorkerInv, [WorkerNext]_workerVars PROVE WorkerInv'
  OBVIOUS
<1>1. TypeOK'
  <2>1. TypeOK /\ [Next]_vars
    BY StepIsCall DEF WorkerInv
  <2> QED BY <2>1, TypeStep
<1>2. ASSUME NEW p \in Process, Main(p) PROVE ProcInv' /\ OwnerIsClaimant'
  BY <1>1, <1>2, LoopStep, SettleStep, FinalizeStep DEF Main
<1>3. ASSUME NEW p \in Process, Beat(p) \/ Line(p) \/ RequestStop(p) \/ Crash(p) \/ Restart(p)
      PROVE  ProcInv' /\ OwnerIsClaimant'
  BY <1>3, BeatStep, LineStep, HostStep
<1>4. ASSUME RunnerStep \/ ClockTick \/ Web \/ UNCHANGED workerVars
      PROVE  ProcInv' /\ OwnerIsClaimant'
  BY <1>4, ElsewhereStep
<1>5. ProcInv' /\ OwnerIsClaimant'
  BY <1>2, <1>3, <1>4 DEF WorkerNext
<1> QED BY <1>1, <1>5 DEF WorkerInv

LEMMA WorkerInvInit == WorkerInit => WorkerInv
<1> SUFFICES ASSUME WorkerInit PROVE WorkerInv
  OBVIOUS
<1>1. TypeOK
  BY TypeInit DEF WorkerInit
<1>2. /\ FreshProc \in ProcRow /\ FreshProc.pc = "poll" /\ FreshProc.job = 0 /\ FreshProc.exit = "none"
  BY ConstantsAssumption DEF FreshProc, ProcRow
<1>3. \A p \in Process : proc[p] = FreshProc
  BY DEF WorkerInit
<1>4. ProcInv
  BY <1>2, <1>3, WorkerAssumption
  DEF WorkerInit, ProcInv, WorkIsOnJob, ExitComesLater, NoStrayChild, OneChild, WorkStages
<1>5. OwnerIsClaimant
  BY <1>2, <1>3 DEF OwnerIsClaimant, Owning
<1> QED BY <1>1, <1>4, <1>5 DEF WorkerInv

-----------------------------------------------------------------------------
(* The theorems *)

\* Types, and what ties processes to their children and claims, hold through crashes,
\* stops, restarts, stalls and failed calls.
THEOREM WorkerInvHolds == WorkerSpec => []WorkerInv
BY WorkerInvInit, WorkerInvStep, PTL DEF WorkerSpec

\* Whatever workers do, their children, their hosts and the pages included, is calls of
\* the coordinator: what is proved of it above holds beside them.
THEOREM RefinesCoordinator == WorkerSpec => Spec
<1>1. WorkerInit => Init
  BY DEF WorkerInit
<1>2. WorkerInv /\ [WorkerNext]_workerVars => [Next]_vars
  BY StepIsCall DEF WorkerInv
<1> QED BY <1>1, <1>2, WorkerInvHolds, PTL DEF WorkerSpec, Spec

\* A worker whom the database takes for the owner of the job it works on has made the
\* latest claim of it, for ids are not shared and a process forgets its job when it stops.
THEOREM OwnerIsClaimantHolds == WorkerSpec => []OwnerIsClaimant
<1>1. WorkerInv => OwnerIsClaimant
  BY DEF WorkerInv
<1> QED BY <1>1, WorkerInvHolds, PTL

\* A child whose worker lives is read by that worker, for the attempt it was spawned for.
THEOREM NoStrayChildHolds == WorkerSpec => []NoStrayChild
<1>1. WorkerInv => NoStrayChild
  BY DEF WorkerInv, ProcInv
<1> QED BY <1>1, WorkerInvHolds, PTL

\* No job completes but on the exit status 0 of the child of its present attempt.
THEOREM CompletedByRunnerHolds == WorkerSpec => CompletedByRunner
<1>1. ASSUME WorkerInv, WorkerInv', [WorkerNext]_workerVars, NEW j \in Job,
             job[j].state # "completed", job'[j].state = "completed"
      PROVE  \E p \in Process : /\ proc[p].job = j /\ proc[p].attempt = job[j].attempt
                                /\ proc[p].exit = "ok"
  <2>1. ASSUME NEW p \in Process, Settle(p) PROVE proc[p].job = j /\ proc[p].attempt = job[j].attempt
                                                 /\ proc[p].exit = "ok"
    BY <1>1, <2>1, SettleStep
  <2>2. ~\E p \in Process : Finalize(p) \/ Fail(p) \/ Beat(p) \/ Line(p) \/ RequestStop(p)
                            \/ Crash(p) \/ Restart(p)
    BY <1>1, FinalizeStep, BeatStep, LineStep, HostStep DEF Steady
  <2>3. ~\E p \in Process : Recover(p) \/ TakeJob(p) \/ ImportFails(p) \/ Spawn(p) \/ Reap(p)
                            \/ Shutdown(p)
    BY <1>1, LoopStep DEF WorkerInv
  <2>4. ~(RunnerStep \/ ClockTick \/ Web \/ UNCHANGED workerVars)
    BY <1>1, ElsewhereStep DEF Steady
  <2>5. \E p \in Process : Settle(p)
    BY <1>1, <2>2, <2>3, <2>4 DEF WorkerNext, Main
  <2> QED BY <2>1, <2>5
<1>2. WorkerInv /\ WorkerInv' /\ [WorkerNext]_workerVars =>
        [\A j \in Job : job[j].state # "completed" /\ job'[j].state = "completed" =>
           \E p \in Process : /\ proc[p].job = j /\ proc[p].attempt = job[j].attempt
                              /\ proc[p].exit = "ok"]_workerVars
  BY <1>1
<1> QED BY <1>2, WorkerInvHolds, PTL DEF WorkerSpec, CompletedByRunner

=============================================================================
