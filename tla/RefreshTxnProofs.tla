--------------------------- MODULE RefreshTxnProofs ---------------------------
(***************************************************************************)
(* Theorems about RefreshTxn, for any number of connections, workers and   *)
(* jobs, any lease time and transactions of any length.  TxnInv says of    *)
(* every open transaction which rows it has locked by the statement it is  *)
(* at, what it has written there, and over what: from a row's lock follows *)
(* what its transaction is going to commit.                                *)
(***************************************************************************)
EXTENDS RefreshTxn, TLAPS

OneJobCalls == Call \ {"claim", "requeue", "create"}

\* The calls that begin with the advisory lock
Turns == {"claim", "create"}
Raising(s) == tx[s].phase = "raise"

Tables ==
  /\ stored = [r \in Row |-> stored[r]]
  /\ written = [r \in Row |-> written[r]]

\* What a call is about, and where it may be
Shaped(t) ==
  /\ t.phase = "raise" => t.call \in OneJobCalls /\ t.place = 1 /\ t.jobs = {} /\ t.age = 0
  /\ t.phase # "raise" =>
       /\ t.call \in WorkerCall => t.worker \in Worker
       /\ t.call \in OneJobCalls => \E j \in Job : t.jobs = {j}
       /\ t.call \in OneJobCalls => t.place <= Len(Statements[t.call]) + 1
       /\ t.call = "claim" => t.jobs = {}
       /\ t.call = "create" => \E j \in Job : t.jobs = {j}
       /\ t.call = "requeue" /\ t.place = 1 => t.jobs = {}
  /\ t.phase = "lock" =>
       \/ t.call \in Turns /\ t.place = 2
       \/ t.call \in OneJobCalls /\ Statements[t.call][t.place] = "job" /\ t.todo = t.jobs
  /\ t.place = 3 => t.todo = {}

\* The state a call leaves the job in, if it takes it from its owner
Outcome ==
  [complete |-> "completed", fail |-> "failed", release |-> "queued", requeue |-> "queued",
   cancel |-> "cancelled"]

JobPlace(call) == IF call \in {"complete", "fail"} THEN 2 ELSE 1

\* What a transaction has made of the job's row it holds, and of what
JobFits(t, old, new) ==
  /\ t.place > JobPlace(t.call)
  /\ t.call = "claim" =>
       new = old \/ (t.place = 4 /\ old.state = "queued" /\ new.state = "running" /\ new.owner = t.worker)
  /\ t.call = "create" => new = old \/ (t.place = 4 /\ old = NoRow /\ new = Lost("queued"))
  /\ t.call \in {"beat", "update", "complete", "fail", "release"} =>
       old.state = "running" /\ old.owner = t.worker
  /\ t.call = "request" => old.state \in ActiveStates /\ new = old
  /\ t.call = "cancel" => old.state = "queued"
  /\ t.call = "requeue" => old.state = "running" /\ old.lease < 0
  /\ t.call = "beat" => new.state = "running" /\ new.owner = old.owner
  /\ t.call = "update" => new = old
  /\ t.call \in DOMAIN Outcome => new = Lost(Outcome[t.call])

\* And of the marketplace rows
MarketFits(t, old, new) ==
  /\ t.call \in {"update", "complete", "fail", "release", "cancel", "requeue"}
  /\ t.place >= (IF t.call \in {"complete", "fail", "requeue"} THEN 2 ELSE 3)
  /\ t.call = "update" => new \in Reported
  /\ t.call = "complete" => new = old /\ new \in Completable
  /\ t.call = "fail" => new = "failed"
  /\ t.call \in {"release", "requeue"} => new = "waiting"
  /\ t.call = "cancel" => new = "skipped"

HeldFits(s) ==
  \A j \in Job : ~Raising(s) =>
    /\ holder[JobOf(j)] = s =>
         /\ JobFits(tx[s], stored[JobOf(j)], written[JobOf(j)])
         /\ tx[s].call \in OneJobCalls => j \in tx[s].jobs
    /\ holder[MarketOf(j)] = s =>
         /\ MarketFits(tx[s], stored[MarketOf(j)], written[MarketOf(j)])
         /\ tx[s].call \in OneJobCalls => j \in tx[s].jobs
         /\ tx[s].call \notin {"complete", "fail"} => holder[JobOf(j)] = s

\* The rows that a transaction has locked by now
Keeps(s) ==
  LET t == tx[s] IN
  ~Raising(s) =>
    /\ \A j \in t.jobs :
         /\ t.call \in Call \ Turns /\ t.place > JobPlace(t.call) => holder[JobOf(j)] = s
         /\ t.call = "complete" /\ t.place >= 2 => holder[MarketOf(j)] = s
         /\ t.call \in {"update", "release", "cancel"} /\ t.place >= 3 => holder[MarketOf(j)] = s
    /\ t.call = "requeue" =>
         \A j \in Job : holder[JobOf(j)] = s /\ (j \notin t.jobs \/ t.place >= 3) => holder[MarketOf(j)] = s

SessionInv(s) == Shaped(tx[s]) /\ HeldFits(s) /\ Keeps(s)

\* The jobs a transaction is about that have been committed before it began, and the
\* one that a create is about, which nobody else is
Named(t) == t.todo \cup (IF t.call = "create" THEN {} ELSE t.jobs)

Clean(s, t) ==
  /\ \A j \in Named(t) : stored[JobOf(j)].state # "absent"
  /\ t.call = "create" =>
       \A j \in t.jobs : /\ stored[JobOf(j)] = NoRow
                         /\ \A q \in Session \ {s} : tx[q].call = "create" => j \notin tx[q].jobs

\* The row of a job that is absent is its create's, if anybody's.
Known ==
  /\ \A s \in Session : Clean(s, tx[s])
  /\ \A j \in Job :
       stored[JobOf(j)].state = "absent" =>
         /\ \A s \in Session : holder[JobOf(j)] = s => tx[s].call = "create" /\ j \in tx[s].jobs
         /\ holder[MarketOf(j)] = Nobody /\ stored[MarketOf(j)] = "waiting"

ClaimsInTurn ==
  \A s \in Session : advisory = s <=> tx[s].call \in Turns /\ tx[s].place > 1

TxnInv ==
  /\ TxnTypeOK /\ Tables
  /\ \A s \in Session : SessionInv(s)
  /\ Known /\ ClaimsInTurn
  /\ CompletedRowsHold /\ WaitingRowsAreReset

-----------------------------------------------------------------------------
(* Rows, statements, and what is written *)

LEMMA Rows ==
  /\ \A j \in Job : JobOf(j) \in Row /\ JobOf(j)[1] = "job" /\ JobOf(j)[2] = j
  /\ \A j \in Job : MarketOf(j) \in Row /\ MarketOf(j)[1] = "market" /\ MarketOf(j)[2] = j
  /\ \A j, k \in Job : JobOf(j) # MarketOf(k) /\ (JobOf(j) = JobOf(k) => j = k)
                       /\ (MarketOf(j) = MarketOf(k) => j = k)
  /\ \A r \in Row : \E j \in Job : r = JobOf(j) \/ r = MarketOf(j)
BY DEF Row, JobOf, MarketOf

\* Statements, position by position
LEMMA Calls ==
  /\ Call = {"create", "requeue", "claim", "beat", "update", "complete", "fail", "release",
             "request", "cancel"}
  /\ \A c \in Turns : Len(Statements[c]) = 3
  /\ \A c \in {"beat", "request"} : Len(Statements[c]) = 1
  /\ \A c \in Call \ (Turns \cup {"beat", "request"}) : Len(Statements[c]) = 2
  /\ Statements["claim"][1] = "advisory" /\ Statements["claim"][2] = "live"
  /\ Statements["claim"][3] = "pick"
  /\ Statements["create"][1] = "advisory" /\ Statements["create"][2] = "active"
  /\ Statements["create"][3] = "insert"
  /\ Statements["requeue"][1] = "pick" /\ Statements["requeue"][2] = "market"
  /\ \A c \in {"beat", "request"} : Statements[c][1] = "job"
  /\ \A c \in {"update", "release", "cancel"} : Statements[c][1] = "job" /\ Statements[c][2] = "market"
  /\ \A c \in {"complete", "fail"} : Statements[c][1] = "market" /\ Statements[c][2] = "job"
<1>1. Call = {"create", "requeue", "claim", "beat", "update", "complete", "fail", "release",
              "request", "cancel"}
  BY DEF Call, Statements
<1>2. Statements["claim"] = <<"advisory", "live", "pick">>
  BY DEF Statements
<1>3. Statements["create"] = <<"advisory", "active", "insert">>
  BY DEF Statements
<1>4. Statements["requeue"] = <<"pick", "market">>
  BY DEF Statements
<1>5. \A c \in {"beat", "request"} : Statements[c] = <<"job">>
  BY DEF Statements
<1>6. \A c \in {"update", "release", "cancel"} : Statements[c] = <<"job", "market">>
  BY DEF Statements
<1>7. \A c \in {"complete", "fail"} : Statements[c] = <<"market", "job">>
  BY DEF Statements
<1>8. /\ \A c \in Turns : Len(Statements[c]) = 3
      /\ \A c \in {"beat", "request"} : Len(Statements[c]) = 1
  BY <1>2, <1>3, <1>5 DEF Turns
<1>9. \A c \in Call \ (Turns \cup {"beat", "request"}) : Len(Statements[c]) = 2
  BY <1>1, <1>4, <1>6, <1>7 DEF Turns
<1> QED BY <1>1, <1>2, <1>3, <1>4, <1>5, <1>6, <1>7, <1>8, <1>9

\* Where a session is, by its statement
LEMMA StatementAt ==
  ASSUME NEW s \in Session, tx[s] \in Transaction
  PROVE  LET t == tx[s] IN
         /\ Statement(s) = "advisory" <=> t.call \in Turns /\ t.place = 1
         /\ Statement(s) = "live" <=> t.call = "claim" /\ t.place = 2
         /\ Statement(s) = "active" <=> t.call = "create" /\ t.place = 2
         /\ Statement(s) = "insert" <=> t.call = "create" /\ t.place = 3
         /\ Statement(s) = "pick" <=>
              (t.call = "claim" /\ t.place = 3) \/ (t.call = "requeue" /\ t.place = 1)
         /\ Statement(s) = "job" <=>
              \/ t.call \in {"beat", "request", "update", "release", "cancel"} /\ t.place = 1
              \/ t.call \in {"complete", "fail"} /\ t.place = 2
         /\ Statement(s) = "market" <=>
              \/ t.call \in {"update", "release", "cancel", "requeue"} /\ t.place = 2
              \/ t.call \in {"complete", "fail"} /\ t.place = 1
         /\ Statement(s) = "commit" <=>
              \/ t.call = "none" \/ t.place = 4
              \/ t.place = 3 /\ t.call \notin Turns
              \/ t.place = 2 /\ t.call \in {"beat", "request"}
<1> DEFINE t == tx[s]
<1>1. t.place \in 1 .. 4 /\ t.call \in Call \cup {"none"}
  BY DEF Transaction
<1>2. t.call = "none" => Statement(s) = "commit"
  BY DEF Statement
<1>3. t.call = "claim" =>
        Statement(s) = (IF t.place = 1 THEN "advisory" ELSE IF t.place = 2 THEN "live"
                        ELSE IF t.place = 3 THEN "pick" ELSE "commit")
  BY <1>1, Calls DEF Statement, Turns
<1>4. t.call = "create" =>
        Statement(s) = (IF t.place = 1 THEN "advisory" ELSE IF t.place = 2 THEN "active"
                        ELSE IF t.place = 3 THEN "insert" ELSE "commit")
  BY <1>1, Calls DEF Statement, Turns
<1>5. t.call = "requeue" =>
        Statement(s) = (IF t.place = 1 THEN "pick" ELSE IF t.place = 2 THEN "market" ELSE "commit")
  BY <1>1, Calls DEF Statement, Turns
<1>6. t.call \in {"beat", "request"} => Statement(s) = (IF t.place = 1 THEN "job" ELSE "commit")
  BY <1>1, Calls DEF Statement, Turns
<1>7. t.call \in {"update", "release", "cancel"} =>
        Statement(s) = (IF t.place = 1 THEN "job" ELSE IF t.place = 2 THEN "market" ELSE "commit")
  BY <1>1, Calls DEF Statement, Turns
<1>8. t.call \in {"complete", "fail"} =>
        Statement(s) = (IF t.place = 1 THEN "market" ELSE IF t.place = 2 THEN "job" ELSE "commit")
  BY <1>1, Calls DEF Statement, Turns
<1> HIDE DEF t
<1>9. /\ Statement(s) = "advisory" <=> t.call \in Turns /\ t.place = 1
      /\ Statement(s) = "live" <=> t.call = "claim" /\ t.place = 2
      /\ Statement(s) = "active" <=> t.call = "create" /\ t.place = 2
      /\ Statement(s) = "insert" <=> t.call = "create" /\ t.place = 3
      /\ Statement(s) = "pick" <=>
           (t.call = "claim" /\ t.place = 3) \/ (t.call = "requeue" /\ t.place = 1)
  BY <1>1, <1>2, <1>3, <1>4, <1>5, <1>6, <1>7, <1>8, Calls DEF Turns
<1>10. /\ Statement(s) = "job" <=>
            \/ t.call \in {"beat", "request", "update", "release", "cancel"} /\ t.place = 1
            \/ t.call \in {"complete", "fail"} /\ t.place = 2
       /\ Statement(s) = "market" <=>
            \/ t.call \in {"update", "release", "cancel", "requeue"} /\ t.place = 2
            \/ t.call \in {"complete", "fail"} /\ t.place = 1
  BY <1>1, <1>2, <1>3, <1>4, <1>5, <1>6, <1>7, <1>8, Calls
<1>11. Statement(s) = "commit" <=>
         \/ t.call = "none" \/ t.place = 4
         \/ t.place = 3 /\ t.call \notin Turns
         \/ t.place = 2 /\ t.call \in {"beat", "request"}
  BY <1>1, <1>2, <1>3, <1>4, <1>5, <1>6, <1>7, <1>8, Calls DEF Turns
<1> QED BY <1>9, <1>10, <1>11 DEF t

LEMMA LostType ==
  ASSUME NEW state \in {"queued", "completed", "failed", "cancelled"}
  PROVE  Lost(state) \in JobRow /\ Lost(state).state = state /\ Lost(state).lease < 0
BY TxnAssumption DEF Lost, JobRow, Never

LEMMA JobWrittenType ==
  ASSUME NEW t \in Transaction, NEW row \in JobRow
  PROVE  JobWritten(t, row) \in JobRow
<1>1. LeaseTime - t.age \in Never .. LeaseTime
  BY TxnAssumption DEF Transaction, Never
<1>2. t.worker \in Worker \cup {Nobody}
  BY DEF Transaction
<1> QED BY <1>1, <1>2, LostType, Zenon DEF JobWritten, JobRow

LEMMA MarketWrittenType ==
  ASSUME NEW t \in Transaction, NEW row \in MarketRow
  PROVE  MarketWritten(t, row) \subseteq MarketRow
BY DEF MarketWritten, MarketRow, Reported

-----------------------------------------------------------------------------
(* Steps that leave the committed rows alone *)

\* Nothing changes for a session whose transaction and whose rows stay as they are.
LEMMA OthersKeep ==
  ASSUME NEW s \in Session, tx[s] \in Transaction, SessionInv(s), tx'[s] = tx[s],
         \A r \in Row : /\ holder'[r] = s <=> holder[r] = s
                        /\ holder[r] = s => stored'[r] = stored[r] /\ written'[r] = written[r]
  PROVE  SessionInv(s)'
<1>1. Shaped(tx[s])'
  BY DEF SessionInv
<1>2. HeldFits(s)'
  <2> SUFFICES ASSUME NEW j \in Job, ~Raising(s)
               PROVE  /\ holder'[JobOf(j)] = s =>
                           /\ JobFits(tx[s], stored'[JobOf(j)], written'[JobOf(j)])
                           /\ tx[s].call \in OneJobCalls => j \in tx[s].jobs
                      /\ holder'[MarketOf(j)] = s =>
                           /\ MarketFits(tx[s], stored'[MarketOf(j)], written'[MarketOf(j)])
                           /\ tx[s].call \in OneJobCalls => j \in tx[s].jobs
                           /\ tx[s].call \notin {"complete", "fail"} => holder'[JobOf(j)] = s
    BY DEF HeldFits, Raising
  <2> QED BY Rows DEF SessionInv, HeldFits
<1>3. Keeps(s)'
  <2>1. \A j \in Job : /\ holder[JobOf(j)] = s <=> holder'[JobOf(j)] = s
                       /\ holder[MarketOf(j)] = s <=> holder'[MarketOf(j)] = s
    BY Rows
  <2> SUFFICES ASSUME ~Raising(s)
               PROVE  Keeps(s)'
    BY DEF Keeps, Raising
  <2>2. ASSUME NEW j \in tx[s].jobs, j \in Job
        PROVE  /\ tx[s].call \in Call \ Turns /\ tx[s].place > JobPlace(tx[s].call) => holder'[JobOf(j)] = s
               /\ tx[s].call = "complete" /\ tx[s].place >= 2 => holder'[MarketOf(j)] = s
               /\ tx[s].call \in {"update", "release", "cancel"} /\ tx[s].place >= 3 =>
                    holder'[MarketOf(j)] = s
    BY <2>1, <2>2 DEF SessionInv, Keeps
  <2>3. ASSUME NEW j \in Job, tx[s].call = "requeue", holder'[JobOf(j)] = s,
               j \notin tx[s].jobs \/ tx[s].place >= 3
        PROVE  holder'[MarketOf(j)] = s
    BY <2>1, <2>3 DEF SessionInv, Keeps
  <2>4. tx[s].jobs \subseteq Job
    BY DEF Transaction
  <2> QED BY <2>2, <2>3, <2>4 DEF Keeps
<1> QED BY <1>1, <1>2, <1>3 DEF SessionInv

\* A session goes on to t, and may take rows that are free or its own.
Moves(s, t) ==
  /\ tx' = [tx EXCEPT ![s] = t]
  /\ stored' = stored
  /\ written' = [r \in Row |-> written'[r]]
  /\ holder' = [r \in Row |-> holder'[r]]
  /\ \A j \in Job : written'[JobOf(j)] \in JobRow /\ written'[MarketOf(j)] \in MarketRow
  /\ \A r \in Row : \/ holder'[r] = holder[r] /\ written'[r] = written[r]
                    \/ holder[r] \in {Nobody, s} /\ holder'[r] = s
  /\ \A j \in Job : stored[JobOf(j)].state = "absent" =>
       /\ holder'[JobOf(j)] = s => t.call = "create" /\ j \in t.jobs
       /\ holder'[MarketOf(j)] = holder[MarketOf(j)]
  /\ Clean(s, t)
  /\ advisory' = advisory \/ (advisory = Nobody /\ advisory' = s)
  /\ advisory' = s <=> t.call \in Turns /\ t.place > 1

LEMMA MoveKeeps ==
  ASSUME TxnInv, NEW s \in Session, NEW t \in Transaction, t.call # "none", Moves(s, t),
         SessionInv(s)'
  PROVE  TxnInv'
<1>1. tx'[s] = t /\ \A q \in Session \ {s} : tx'[q] = tx[q]
  BY DEF TxnInv, TxnTypeOK, Moves
<1>2. TxnTypeOK'
  <2>1. \A j \in Job : stored'[JobOf(j)] \in JobRow /\ stored'[MarketOf(j)] \in MarketRow
                       /\ written'[JobOf(j)] \in JobRow /\ written'[MarketOf(j)] \in MarketRow
    BY DEF TxnInv, TxnTypeOK, Moves
  <2>2. holder' \in [Row -> Session \cup {Nobody}]
    BY DEF TxnInv, TxnTypeOK, Moves
  <2>3. advisory' \in Session \cup {Nobody}
    BY DEF TxnInv, TxnTypeOK, Moves
  <2>4. tx' \in [Session -> Transaction]
    BY DEF TxnInv, TxnTypeOK, Moves
  <2>5. \A r \in Row : holder'[r] = Nobody => written'[r] = stored'[r]
    BY TxnAssumption DEF TxnInv, TxnTypeOK, Moves
  <2>6. \A q \in Session : tx'[q].call = "none" =>
          tx'[q] = Idle /\ advisory' # q /\ \A r \in Row : holder'[r] # q
    <3> SUFFICES ASSUME NEW q \in Session \ {s}, tx[q].call = "none"
                 PROVE  tx[q] = Idle /\ advisory' # q /\ \A r \in Row : holder'[r] # q
      BY <1>1
    <3> QED BY DEF TxnInv, TxnTypeOK, Moves
  <2> QED BY <2>1, <2>2, <2>3, <2>4, <2>5, <2>6, Zenon DEF TxnTypeOK
<1>3. Tables'
  BY DEF TxnInv, Tables, Moves
<1>4. ASSUME NEW q \in Session
      PROVE  SessionInv(q)'
  <2>1. CASE q = s
    BY <2>1
  <2>2. CASE q # s
    <3>1. \A r \in Row : /\ holder'[r] = q <=> holder[r] = q
                         /\ holder[r] = q => stored'[r] = stored[r] /\ written'[r] = written[r]
      BY <2>2, TxnAssumption DEF Moves
    <3> QED BY <1>1, <2>2, <3>1, OthersKeep DEF TxnInv, TxnTypeOK
  <2> QED BY <2>1, <2>2
<1>5. Known'
  <2>1. ASSUME NEW q \in Session
        PROVE  Clean(q, tx[q])'
    <3>1. CASE q = s
      BY <1>1, <3>1 DEF Moves, Clean
    <3>2. CASE q # s
      <4>1. Clean(q, tx[q]) /\ Clean(s, t)
        BY DEF TxnInv, Known, Moves
      <4> QED BY <1>1, <3>2, <4>1 DEF Moves, Clean
    <3> QED BY <3>1, <3>2
  <2>2. ASSUME NEW j \in Job, stored'[JobOf(j)].state = "absent"
        PROVE  /\ \A q \in Session : holder'[JobOf(j)] = q => tx'[q].call = "create" /\ j \in tx'[q].jobs
               /\ holder'[MarketOf(j)] = Nobody /\ stored'[MarketOf(j)] = "waiting"
    <3>1. /\ \A q \in Session : holder[JobOf(j)] = q => tx[q].call = "create" /\ j \in tx[q].jobs
          /\ holder[MarketOf(j)] = Nobody /\ stored[MarketOf(j)] = "waiting"
      BY <2>2 DEF TxnInv, Known, Moves
    <3>2. ASSUME NEW q \in Session, holder'[JobOf(j)] = q
          PROVE  tx'[q].call = "create" /\ j \in tx'[q].jobs
      BY <1>1, <2>2, <3>1, <3>2, Rows DEF Moves
    <3> QED BY <2>2, <3>1, <3>2 DEF Moves
  <2> QED BY <2>1, <2>2 DEF Known
<1>6. ClaimsInTurn'
  <2> SUFFICES ASSUME NEW q \in Session \ {s}
               PROVE  advisory' = q <=> tx[q].call \in Turns /\ tx[q].place > 1
    BY <1>1 DEF ClaimsInTurn, Moves
  <2> QED BY TxnAssumption DEF TxnInv, ClaimsInTurn, Moves
<1>7. CompletedRowsHold' /\ WaitingRowsAreReset'
  BY DEF TxnInv, CompletedRowsHold, WaitingRowsAreReset, Moves
<1> QED BY <1>2, <1>3, <1>4, <1>5, <1>6, <1>7 DEF TxnInv

\* What the session's next transaction record keeps of the last one
LEMMA IdleType == Idle \in Transaction /\ Idle.call = "none" /\ Idle.place = 1
                  /\ Idle.jobs = {} /\ Idle.todo = {} /\ Idle.phase = "start" /\ Idle.age = 0
<1>1. Idle \in Transaction
  BY TxnAssumption DEF Idle, Transaction
<1> QED BY <1>1 DEF Idle

LEMMA Stepped ==
  ASSUME NEW t \in Transaction, t.place < 4
  PROVE  /\ Step(t) \in Transaction
         /\ Step(t).call = t.call /\ Step(t).worker = t.worker /\ Step(t).jobs = t.jobs
         /\ Step(t).place = t.place + 1 /\ Step(t).phase = "start" /\ Step(t).todo = {}
         /\ Step(t).met = t.met
         /\ t.call = "claim" => Step(t).age = t.age
<1>1. t.place + 1 \in 1 .. 4 /\ 0 \in 0 .. MaxAge
  BY TxnAssumption DEF Transaction
<1>2. Step(t) \in Transaction
  BY <1>1 DEF Step, Transaction
<1>3. /\ Step(t).call = t.call /\ Step(t).worker = t.worker /\ Step(t).jobs = t.jobs
      /\ Step(t).place = t.place + 1 /\ Step(t).phase = "start" /\ Step(t).todo = {}
  BY DEF Step, Transaction
<1>4. Step(t).met = t.met
  BY DEF Step, Transaction
<1>5. t.call = "claim" => Step(t).age = t.age
  BY DEF Step, Transaction
<1> QED BY <1>2, <1>3, <1>4, <1>5

LEMMA Returned ==
  ASSUME NEW t \in Transaction
  PROVE  /\ Return(t) \in Transaction
         /\ Return(t).call = t.call /\ Return(t).worker = t.worker /\ Return(t).jobs = t.jobs
         /\ Return(t).place = 4 /\ Return(t).phase = "start" /\ Return(t).todo = {}
         /\ Return(t).met = t.met
<1>1. 4 \in 1 .. 4 /\ 0 \in 0 .. MaxAge
  BY TxnAssumption
<1>2. Return(t) \in Transaction
  BY <1>1 DEF Return, Transaction
<1>3. /\ Return(t).call = t.call /\ Return(t).worker = t.worker /\ Return(t).jobs = t.jobs
      /\ Return(t).place = 4 /\ Return(t).phase = "start" /\ Return(t).todo = {}
  BY DEF Return, Transaction
<1>4. Return(t).met = t.met
  BY DEF Return, Transaction
<1> QED BY <1>2, <1>3, <1>4

LEMMA Raised ==
  ASSUME NEW t \in Transaction
  PROVE  /\ Raise(t) \in Transaction
         /\ Raise(t).call = t.call /\ Raise(t).jobs = {} /\ Raise(t).todo = {}
         /\ Raise(t).place = 1 /\ Raise(t).phase = "raise" /\ Raise(t).age = 0
<1>1. Raise(t) \in Transaction
  BY IdleType DEF Raise, Transaction
<1>2. /\ Raise(t).call = t.call /\ Raise(t).jobs = {} /\ Raise(t).todo = {}
      /\ Raise(t).place = 1 /\ Raise(t).phase = "raise" /\ Raise(t).age = 0
  BY DEF Raise, Idle
<1> QED BY <1>1, <1>2

\* What a session has made of its rows it keeps having made of them.
LEMMA FitsLater ==
  ASSUME NEW t \in Transaction, NEW u \in Transaction, u.call = t.call, u.worker = t.worker,
         u.place >= t.place, NEW old, NEW new
  PROVE  /\ JobFits(t, old, new) => JobFits(u, old, new)
         /\ MarketFits(t, old, new) => MarketFits(u, old, new)
<1>1. t.place \in 1 .. 4 /\ u.place \in 1 .. 4
  BY DEF Transaction
<1>2. JobFits(t, old, new) => JobFits(u, old, new)
  BY <1>1 DEF JobFits, JobPlace
<1>3. MarketFits(t, old, new) => MarketFits(u, old, new)
  BY <1>1 DEF MarketFits
<1> QED BY <1>2, <1>3

\* A session at a statement is not raising; what its call says of it
LEMMA Active ==
  ASSUME TxnInv, NEW s \in Session, tx[s].phase # "raise"
  PROVE  /\ ~Raising(s) /\ tx[s] \in Transaction
         /\ tx[s].place \in 1 .. 4 /\ tx[s].age \in 0 .. MaxAge
         /\ tx[s].call \in OneJobCalls => \E j \in Job : tx[s].jobs = {j}
         /\ tx[s].call \in OneJobCalls => tx[s].place <= 3
         /\ tx[s].call \in WorkerCall => tx[s].worker \in Worker
<1>1. tx[s] \in Transaction /\ Shaped(tx[s])
  BY Zenon DEF TxnInv, TxnTypeOK, SessionInv
<1>2. tx[s].place \in 1 .. 4 /\ tx[s].age \in 0 .. MaxAge
  BY <1>1 DEF Transaction
<1>3. tx[s].call \in OneJobCalls => tx[s].place <= Len(Statements[tx[s].call]) + 1
  BY <1>1 DEF Shaped
<1>4. ASSUME NEW c \in OneJobCalls
      PROVE  Len(Statements[c]) \in {1, 2}
  <2>1. CASE c \in {"beat", "request"}
    BY <2>1, Calls
  <2>2. CASE c \notin {"beat", "request"}
    BY <2>2, Calls DEF OneJobCalls, Turns
  <2> QED BY <2>1, <2>2
<1>5. tx[s].call \in OneJobCalls => tx[s].place <= 3
  <2> DEFINE n == Len(Statements[tx[s].call])
  <2>1. tx[s].call \in OneJobCalls => n \in {1, 2} /\ tx[s].place <= n + 1
    BY <1>3, <1>4
  <2> HIDE DEF n
  <2> QED BY <1>2, <2>1
<1>6. /\ tx[s].call \in OneJobCalls => \E j \in Job : tx[s].jobs = {j}
      /\ tx[s].call \in WorkerCall => tx[s].worker \in Worker
  BY <1>1 DEF Shaped
<1> QED BY <1>1, <1>2, <1>5, <1>6 DEF Raising

\* A session that raises has only its locks left.
LEMMA RaiseKeeps ==
  ASSUME TxnInv, NEW s \in Session, tx[s].call \in OneJobCalls, tx[s].phase # "raise",
         Moves(s, Raise(tx[s]))
  PROVE  TxnInv'
<1>1. tx[s] \in Transaction /\ tx'[s] = Raise(tx[s])
  BY DEF TxnInv, TxnTypeOK, Moves
<1>2. Raising(s)' /\ Shaped(tx'[s])
  BY <1>1, Raised DEF Raising, Shaped
<1>3. SessionInv(s)'
  BY <1>2 DEF SessionInv, HeldFits, Keeps, Raising
<1>4. tx[s].call # "none"
  BY Calls DEF OneJobCalls
<1> QED BY <1>1, <1>3, <1>4, Raised, MoveKeeps

\* A session that goes on having locked and written nothing new
LEMMA AdvanceFits ==
  ASSUME TxnInv, NEW s \in Session, NEW u \in Transaction, tx[s].phase # "raise",
         tx'[s] = u, u.call = tx[s].call, u.worker = tx[s].worker, u.place >= tx[s].place,
         u.call \in OneJobCalls => u.jobs = tx[s].jobs,
         UNCHANGED rowVars
  PROVE  HeldFits(s)'
<1> DEFINE t == tx[s]
<1>1. t \in Transaction /\ HeldFits(s) /\ ~Raising(s)
  BY Active DEF TxnInv, SessionInv
<1> SUFFICES ASSUME NEW j \in Job
             PROVE  /\ holder[JobOf(j)] = s =>
                         /\ JobFits(u, stored[JobOf(j)], written[JobOf(j)])
                         /\ u.call \in OneJobCalls => j \in u.jobs
                    /\ holder[MarketOf(j)] = s =>
                         /\ MarketFits(u, stored[MarketOf(j)], written[MarketOf(j)])
                         /\ u.call \in OneJobCalls => j \in u.jobs
                         /\ u.call \notin {"complete", "fail"} => holder[JobOf(j)] = s
  BY DEF HeldFits, rowVars
<1> QED BY <1>1, FitsLater DEF HeldFits

\* Which step moves a session that has locked nothing new
LEMMA AdvanceMoves ==
  ASSUME TxnInv, NEW s \in Session, NEW u \in Transaction, UNCHANGED rowVars,
         tx' = [tx EXCEPT ![s] = u],
         tx[s].call = "create" => u.call = "create" /\ u.jobs = tx[s].jobs,
         Clean(s, u),
         advisory' = advisory \/ (advisory = Nobody /\ advisory' = s),
         advisory' = s <=> u.call \in Turns /\ u.place > 1
  PROVE  Moves(s, u)
<1>1. \A j \in Job : stored[JobOf(j)].state = "absent" /\ holder[JobOf(j)] = s =>
        u.call = "create" /\ j \in u.jobs
  BY DEF TxnInv, Known
<1> QED BY <1>1 DEF Moves, rowVars, TxnInv, Tables, TxnTypeOK

\* But for creates, calls are about jobs that have been committed.
LEMMA OldJobs ==
  ASSUME NEW s \in Session, NEW u \in Transaction, u.call # "create"
  PROVE  Clean(s, u) <=> \A j \in u.jobs \cup u.todo : stored[JobOf(j)].state # "absent"
BY DEF Clean, Named

-----------------------------------------------------------------------------
(* The statements, one by one *)

\* A call begins with nothing locked.
LEMMA BeginKeeps ==
  ASSUME TxnInv, NEW s \in Session, NEW c \in Call, NEW w \in Worker \cup {Nobody}, NEW j \in Job,
         c \in WorkerCall => w \in Worker,
         Begin(s, c, w, j)
  PROVE  TxnInv'
<1> DEFINE u == [Idle EXCEPT !.call = c, !.worker = w,
                             !.jobs = IF c \in {"claim", "requeue"} THEN {} ELSE {j}]
<1>1. /\ tx[s].call = "none" /\ Finds(u) /\ tx' = [tx EXCEPT ![s] = u]
      /\ UNCHANGED <<rowVars, advisory>>
  BY DEF Begin, Goto
<1>2. u \in Transaction
  BY IdleType DEF Transaction
<1>3. /\ u.call = c /\ u.worker = w /\ u.place = 1 /\ u.phase = "start" /\ u.todo = {}
      /\ u.jobs = IF c \in {"claim", "requeue"} THEN {} ELSE {j}
  BY DEF Idle
<1> HIDE DEF u
<1>4. tx'[s] = u /\ advisory # s /\ \A r \in Row : holder[r] # s
  BY <1>1 DEF TxnInv, TxnTypeOK
<1>5. Clean(s, u)
  <2>1. CASE c \in {"claim", "requeue"}
    BY <1>2, <1>3, <2>1, OldJobs
  <2>2. CASE c \in {"complete", "fail"}
    <3>1. stored[JobOf(j)].state = "running"
      BY <1>1, <1>3, <2>2, Calls DEF Finds
    <3> QED BY <1>2, <1>3, <2>2, <3>1, OldJobs
  <2>3. CASE c \in {"beat", "request", "update", "release", "cancel"}
    <3>1. JobMatches(u, stored[JobOf(j)])
      BY <1>1, <1>3, <2>3, Calls DEF Finds
    <3>2. stored[JobOf(j)].state \in {"queued", "running"}
      BY <1>3, <2>3, <3>1 DEF JobMatches, Owned, ActiveStates
    <3> QED BY <1>2, <1>3, <2>3, <3>2, OldJobs
  <2>4. CASE c = "create"
    <3>1. Statements[u.call][1] = "advisory" /\ u.call = "create" /\ u.jobs = {j} /\ u.todo = {}
      BY <1>3, <2>4, Calls
    <3>2. stored[JobOf(j)] = NoRow /\ \A q \in Session : tx[q].call = "create" => j \notin tx[q].jobs
      BY <1>1, <3>1 DEF Finds
    <3> QED BY <3>1, <3>2 DEF Clean, Named
  <2> QED BY <2>1, <2>2, <2>3, <2>4, Calls
<1>6. Moves(s, u)
  <2>1. advisory' = s <=> u.call \in Turns /\ u.place > 1
    BY <1>1, <1>3, <1>4
  <2> QED BY <1>1, <1>2, <1>5, <2>1, AdvanceMoves
<1>7. Shaped(u)
  <2>1. u.place <= Len(Statements[c]) + 1
    <3>1. Len(Statements[c]) \in {1, 2, 3}
      BY Calls DEF Turns
    <3> QED BY <1>3, <3>1
  <2> QED BY <1>3, <2>1 DEF Shaped, OneJobCalls
<1>8. HeldFits(s)'
  BY <1>1, <1>4, Rows DEF HeldFits, rowVars
<1>9. Keeps(s)'
  BY <1>1, <1>3, <1>4, Rows DEF Keeps, JobPlace, rowVars
<1>10. u.call # "none"
  BY <1>3, Calls
<1> QED BY <1>2, <1>4, <1>6, <1>7, <1>8, <1>9, <1>10, MoveKeeps DEF SessionInv

LEMMA TakeAdvisoryKeeps ==
  ASSUME TxnInv, NEW s \in Session, TakeAdvisory(s)
  PROVE  TxnInv'
<1> DEFINE t == tx[s]
           u == Step(t)
<1>1. /\ Statement(s) = "advisory" /\ advisory = Nobody /\ advisory' = s
      /\ tx' = [tx EXCEPT ![s] = u] /\ UNCHANGED rowVars
  BY DEF TakeAdvisory, Goto
<1>2. t \in Transaction /\ tx'[s] = u
  BY <1>1 DEF TxnInv, TxnTypeOK
<1>3. t.call \in Turns /\ t.place = 1
  BY <1>1, <1>2, StatementAt
<1>4. t.phase # "raise" /\ t.call \notin OneJobCalls /\ Shaped(t) /\ Clean(s, t)
  BY <1>3 DEF TxnInv, SessionInv, Shaped, OneJobCalls, Turns, Known
<1>5. /\ u \in Transaction /\ u.call = t.call /\ u.worker = t.worker /\ u.jobs = t.jobs
      /\ u.place = 2 /\ u.phase = "start" /\ u.todo = {}
  BY <1>2, <1>3, Stepped
<1> HIDE DEF u
<1>6. Shaped(u)
  BY <1>3, <1>4, <1>5 DEF Shaped, Turns
<1>7. Moves(s, u)
  <2>1. advisory' = s <=> u.call \in Turns /\ u.place > 1
    BY <1>1, <1>3, <1>5
  <2>2. Clean(s, u)
    BY <1>4, <1>5 DEF Clean, Named
  <2> QED BY <1>1, <1>5, <2>1, <2>2, AdvanceMoves
<1>8. HeldFits(s)'
  BY <1>1, <1>2, <1>3, <1>4, <1>5, AdvanceFits
<1>9. Keeps(s)'
  BY <1>2, <1>3, <1>5 DEF Keeps, Turns
<1>10. u.call # "none"
  BY <1>3, <1>5 DEF Turns
<1> QED BY <1>2, <1>5, <1>6, <1>7, <1>8, <1>9, <1>10, MoveKeeps DEF SessionInv

LEMMA SkipMarketKeeps ==
  ASSUME TxnInv, NEW s \in Session, SkipMarket(s)
  PROVE  TxnInv'
<1> DEFINE t == tx[s]
           u == Step(t)
<1>1. /\ Statement(s) = "market" /\ t.call = "fail" /\ t.phase = "start"
      /\ tx' = [tx EXCEPT ![s] = u] /\ UNCHANGED <<rowVars, advisory>>
  BY DEF SkipMarket, Goto
<1>2. t \in Transaction /\ tx'[s] = u
  BY <1>1 DEF TxnInv, TxnTypeOK
<1>3. t.place = 1
  BY <1>1, <1>2, StatementAt
<1>4. /\ u \in Transaction /\ u.call = "fail" /\ u.worker = t.worker /\ u.jobs = t.jobs
      /\ u.place = 2 /\ u.phase = "start" /\ u.todo = {}
  BY <1>1, <1>2, <1>3, Stepped
<1>5. Shaped(u)
  <2>1. Shaped(t)
    BY DEF TxnInv, SessionInv
  <2>2. "fail" \in OneJobCalls /\ "fail" \in WorkerCall /\ Len(Statements["fail"]) = 2
    BY Calls DEF OneJobCalls, WorkerCall, WebCall, Turns
  <2> QED BY <1>1, <1>4, <2>1, <2>2 DEF Shaped
<1> HIDE DEF u
<1>6. advisory # s /\ u.call \notin Turns
  BY <1>1, <1>4 DEF TxnInv, ClaimsInTurn, Turns
<1>7. Moves(s, u)
  <2>1. Clean(s, u)
    BY <1>1, <1>4 DEF TxnInv, Known, Clean, Named
  <2> QED BY <1>1, <1>4, <1>6, <2>1, AdvanceMoves
<1>8. HeldFits(s)'
  BY <1>1, <1>2, <1>3, <1>4, AdvanceFits
<1>9. Keeps(s)'
  BY <1>2, <1>4 DEF Keeps, JobPlace
<1> QED BY <1>2, <1>4, <1>5, <1>7, <1>8, <1>9, MoveKeeps DEF SessionInv

\* A session at a statement on the job's row: it holds that row no more than anybody.
LEMMA AtJob ==
  ASSUME TxnInv, NEW s \in Session, Statement(s) = "job", NEW j \in tx[s].jobs
  PROVE  /\ tx[s].call \in OneJobCalls /\ tx[s].phase # "raise"
         /\ tx[s].jobs = {j} /\ j \in Job /\ stored[JobOf(j)].state # "absent"
         /\ tx[s].place = JobPlace(tx[s].call) /\ tx[s].place \in {1, 2}
         /\ holder[JobOf(j)] # s
         /\ advisory # s
<1> DEFINE t == tx[s]
<1>1. t \in Transaction /\ Shaped(t) /\ HeldFits(s)
  BY DEF TxnInv, TxnTypeOK, SessionInv
<1>2. t.call \in OneJobCalls /\ t.place = JobPlace(t.call) /\ t.place \in {1, 2}
  BY <1>1, StatementAt, Calls DEF OneJobCalls, JobPlace
<1>3. t.phase # "raise"
  BY <1>1, <1>2, StatementAt DEF Shaped, JobPlace
<1>4. t.jobs = {j} /\ j \in Job
  BY <1>1, <1>2, <1>3 DEF Shaped
<1>5. stored[JobOf(j)].state # "absent"
  BY <1>2 DEF TxnInv, Known, Clean, Named, OneJobCalls
<1>6. holder[JobOf(j)] # s
  BY <1>1, <1>2, <1>3, <1>4 DEF HeldFits, Raising, JobFits
<1>7. advisory # s
  BY <1>2 DEF TxnInv, ClaimsInTurn, OneJobCalls, Turns
<1> QED BY <1>2, <1>3, <1>4, <1>5, <1>6, <1>7

LEMMA WaitForJobKeeps ==
  ASSUME TxnInv, NEW s \in Session, WaitForJob(s)
  PROVE  TxnInv'
<1> DEFINE t == tx[s]
<1>1. PICK j \in t.jobs :
        /\ Statement(s) = "job" /\ t.phase = "start" /\ UNCHANGED <<rowVars, advisory>>
        /\ Goto(s, IF JobMatches(t, stored[JobOf(j)]) THEN [t EXCEPT !.phase = "lock", !.todo = {j}]
                   ELSE Raise(t))
  BY DEF WaitForJob
<1>2. /\ t.call \in OneJobCalls /\ t.jobs = {j} /\ j \in Job /\ stored[JobOf(j)].state # "absent"
      /\ advisory # s /\ t.place = JobPlace(t.call) /\ t.place \in {1, 2}
  BY <1>1, AtJob
<1>3. t \in Transaction /\ t.call \notin Turns /\ t.call # "none" /\ t.call # "create"
  BY <1>2, Calls DEF TxnInv, TxnTypeOK, OneJobCalls, Turns
<1>4. CASE ~JobMatches(t, stored[JobOf(j)])
  <2>1. Raise(t) \in Transaction /\ Raise(t).call \notin Turns /\ Clean(s, Raise(t))
    BY <1>3, Raised, OldJobs
  <2>2. Moves(s, Raise(t))
    BY <1>1, <1>2, <1>3, <1>4, <2>1, AdvanceMoves DEF Goto
  <2> QED BY <1>1, <1>2, <2>2, RaiseKeeps
<1>5. CASE JobMatches(t, stored[JobOf(j)])
  <2> DEFINE u == [t EXCEPT !.phase = "lock", !.todo = {j}]
  <2>1. /\ u \in Transaction /\ u.call = t.call /\ u.worker = t.worker /\ u.jobs = t.jobs
        /\ u.place = t.place /\ u.phase = "lock" /\ u.todo = {j}
    BY <1>2, <1>3 DEF Transaction
  <2>2. tx' = [tx EXCEPT ![s] = u]
    BY <1>1, <1>5 DEF Goto
  <2> HIDE DEF u
  <2>3. tx'[s] = u
    BY <2>2 DEF TxnInv, TxnTypeOK
  <2>4. Shaped(u)
    <3>1. Shaped(t)
      BY DEF TxnInv, SessionInv
    <3>2. Statements[t.call][t.place] = "job"
      BY <1>1, <1>3, StatementAt, Calls
    <3> QED BY <1>1, <1>2, <2>1, <3>1, <3>2 DEF Shaped
  <2>5. Moves(s, u)
    <3>1. advisory' = s <=> u.call \in Turns /\ u.place > 1
      BY <1>1, <1>2, <1>3, <2>1
    <3>2. Clean(s, u)
      BY <1>2, <1>3, <2>1, OldJobs
    <3> QED BY <1>1, <2>1, <2>2, <3>1, <3>2, AdvanceMoves
  <2>6. HeldFits(s)'
    <3>1. u.place >= t.place /\ t.phase # "raise"
      BY <1>1, <1>2, <2>1
    <3> QED BY <1>1, <2>1, <2>3, <3>1, AdvanceFits
  <2>7. Keeps(s)'
    <3>1. Keeps(s) /\ ~Raising(s)
      BY <1>1 DEF TxnInv, SessionInv, Raising
    <3> QED BY <1>1, <2>1, <2>3, <3>1 DEF Keeps, rowVars
  <2> QED BY <1>3, <2>1, <2>3, <2>4, <2>5, <2>6, <2>7, MoveKeeps DEF SessionInv
<1> QED BY <1>4, <1>5

\* A session that takes the lock of one row of a job and writes the row, or leaves it
LEMMA TakeMoves ==
  ASSUME TxnInv, NEW s \in Session, NEW u \in Transaction, NEW j \in Job, NEW r \in {JobOf(j), MarketOf(j)},
         NEW row,
         r = JobOf(j) => row \in JobRow, r = MarketOf(j) => row \in MarketRow,
         Lockable(s, r), stored[JobOf(j)].state # "absent",
         holder' = [holder EXCEPT ![r] = s], written' = [written EXCEPT ![r] = row],
         UNCHANGED <<stored, advisory>>, tx' = [tx EXCEPT ![s] = u],
         tx[s].call = "create" => u.call = "create" /\ u.jobs = tx[s].jobs,
         Clean(s, u),
         advisory = s <=> u.call \in Turns /\ u.place > 1
  PROVE  Moves(s, u)
<1>1. r \in Row /\ holder \in [Row -> Session \cup {Nobody}] /\ written = [q \in Row |-> written[q]]
  BY Rows DEF TxnInv, TxnTypeOK, Tables
<1>2. /\ holder'[r] = s /\ written'[r] = row
      /\ \A q \in Row \ {r} : holder'[q] = holder[q] /\ written'[q] = written[q]
      /\ written' = [q \in Row |-> written'[q]] /\ holder' = [q \in Row |-> holder'[q]]
  BY <1>1
<1>3. \A q \in Row : \/ holder'[q] = holder[q] /\ written'[q] = written[q]
                     \/ holder[q] \in {Nobody, s} /\ holder'[q] = s
  BY <1>2 DEF Lockable
<1>4. \A k \in Job : written'[JobOf(k)] \in JobRow /\ written'[MarketOf(k)] \in MarketRow
  <2> SUFFICES ASSUME NEW k \in Job
               PROVE  written'[JobOf(k)] \in JobRow /\ written'[MarketOf(k)] \in MarketRow
    OBVIOUS
  <2>1. written[JobOf(k)] \in JobRow /\ written[MarketOf(k)] \in MarketRow
    BY DEF TxnInv, TxnTypeOK
  <2>2. JobOf(k) \in Row /\ MarketOf(k) \in Row
    BY Rows
  <2>3. r = JobOf(k) => row \in JobRow
    BY Rows
  <2>4. r = MarketOf(k) => row \in MarketRow
    BY Rows
  <2> QED BY <1>2, <2>1, <2>2, <2>3, <2>4
<1>5. \A k \in Job : stored[JobOf(k)].state = "absent" =>
        /\ holder'[JobOf(k)] = s => u.call = "create" /\ k \in u.jobs
        /\ holder'[MarketOf(k)] = holder[MarketOf(k)]
  <2> SUFFICES ASSUME NEW k \in Job \ {j}, stored[JobOf(k)].state = "absent"
               PROVE  /\ holder'[JobOf(k)] = s => u.call = "create" /\ k \in u.jobs
                      /\ holder'[MarketOf(k)] = holder[MarketOf(k)]
    OBVIOUS
  <2>1. holder'[JobOf(k)] = holder[JobOf(k)] /\ holder'[MarketOf(k)] = holder[MarketOf(k)]
    BY <1>2, Rows
  <2>2. holder[JobOf(k)] = s => tx[s].call = "create" /\ k \in tx[s].jobs
    BY DEF TxnInv, Known
  <2> QED BY <2>1, <2>2
<1>6. /\ tx' = [tx EXCEPT ![s] = u] /\ stored' = stored
      /\ advisory' = advisory /\ Clean(s, u)
      /\ advisory' = s <=> u.call \in Turns /\ u.place > 1
  OBVIOUS
<1> QED BY <1>2, <1>3, <1>4, <1>5, <1>6, Zenon DEF Moves

LEMMA LockJobKeeps ==
  ASSUME TxnInv, NEW s \in Session, LockJob(s)
  PROVE  TxnInv'
<1> DEFINE t == tx[s]
<1>1. PICK j \in t.jobs :
        /\ Statement(s) = "job" /\ t.phase \in {"start", "lock"} /\ Lockable(s, JobOf(j))
        /\ holder' = [holder EXCEPT ![JobOf(j)] = s]
        /\ IF JobMatches(t, written[JobOf(j)])
           THEN /\ written' = [written EXCEPT ![JobOf(j)] = JobWritten(t, @)]
                /\ Goto(s, Step(t))
           ELSE Goto(s, Raise(t)) /\ UNCHANGED written
        /\ UNCHANGED <<stored, advisory>>
  BY DEF LockJob
<1> DEFINE r == JobOf(j)
<1>2. /\ t.call \in OneJobCalls /\ t.jobs = {j} /\ j \in Job /\ stored[r].state # "absent"
      /\ advisory # s /\ t.place = JobPlace(t.call) /\ t.place \in {1, 2}
  BY <1>1, AtJob
<1>3. /\ t \in Transaction /\ t.call \notin Turns /\ t.call # "create" /\ t.call # "none"
      /\ ~Raising(s) /\ t.phase # "raise"
      /\ r \in Row /\ written[r] \in JobRow
  BY <1>1, <1>2, Calls, Rows DEF TxnInv, TxnTypeOK, OneJobCalls, Raising, Turns
<1>4. written[r] = stored[r] /\ holder[r] # s
  <2>1. holder[r] = Nobody
    BY <1>1, AtJob DEF Lockable
  <2> QED BY <1>1, <1>3, <2>1, AtJob DEF TxnInv, TxnTypeOK
<1>5. CASE ~JobMatches(t, written[r])
  <2>1. written = [written EXCEPT ![r] = written[r]]
    BY <1>3 DEF TxnInv, Tables
  <2>2. advisory = s <=> Raise(t).call \in Turns /\ Raise(t).place > 1
    BY <1>2, <1>3, Raised
  <2>3. tx' = [tx EXCEPT ![s] = Raise(t)] /\ written' = [written EXCEPT ![r] = written[r]]
    BY <1>1, <1>5, <2>1 DEF Goto
  <2>4. Raise(t) \in Transaction /\ Clean(s, Raise(t))
    BY <1>3, Raised, OldJobs
  <2>5. r # MarketOf(j)
    BY <1>2, Rows
  <2>6. Moves(s, Raise(t))
    BY <1>1, <1>2, <1>3, <2>2, <2>3, <2>4, <2>5, TakeMoves
  <2> QED BY <1>3, <1>2, <2>6, RaiseKeeps
<1>6. CASE JobMatches(t, written[r])
  <2> DEFINE u == Step(t)
             row == JobWritten(t, written[r])
  <2>1. /\ u \in Transaction /\ u.call = t.call /\ u.worker = t.worker /\ u.jobs = {j}
        /\ u.place = t.place + 1 /\ u.phase = "start" /\ u.todo = {}
    BY <1>2, <1>3, Stepped
  <2>2. tx' = [tx EXCEPT ![s] = u] /\ tx'[s] = u /\ written' = [written EXCEPT ![r] = row]
    BY <1>1, <1>3, <1>6 DEF Goto, TxnInv, TxnTypeOK, Tables
  <2>3. row \in JobRow
    BY <1>3, JobWrittenType
  <2> HIDE DEF u
  <2>4. JobFits(u, stored[r], row)
    <3>1. t.call \in {"beat", "request", "update", "complete", "fail", "release", "cancel"}
      BY <1>2, Calls DEF OneJobCalls
    <3>2. u.place > JobPlace(u.call)
      BY <1>2, <2>1
    <3>3. t.call \in {"beat", "update", "complete", "fail", "release"} =>
            stored[r].state = "running" /\ stored[r].owner = t.worker
      BY <1>4, <1>6 DEF JobMatches, Owned
    <3>4. /\ t.call = "cancel" => stored[r].state = "queued"
          /\ t.call = "request" => stored[r].state \in ActiveStates
      BY <1>4, <1>6 DEF JobMatches
    <3>5. t.call = "beat" => row.state = "running" /\ row.owner = stored[r].owner
      BY <1>3, <1>4, <3>3 DEF JobWritten, JobRow
    <3>6. t.call \in {"update", "request"} => row = stored[r]
      BY <1>4 DEF JobWritten
    <3>7. t.call \in {"complete", "fail", "release", "cancel"} => row = Lost(Outcome[t.call])
      BY DEF JobWritten, Outcome
    <3> QED BY <2>1, <3>1, <3>2, <3>3, <3>4, <3>5, <3>6, <3>7 DEF JobFits, Outcome
  <2>5. Shaped(u)
    <3>1. Shaped(t)
      BY DEF TxnInv, SessionInv
    <3>2. u.place <= Len(Statements[u.call]) + 1
      <4>1. t.call \in {"complete", "fail"} => Len(Statements[t.call]) = 2 /\ u.place = 3
        BY <1>2, <2>1, Calls DEF JobPlace, Turns
      <4>2. t.call \notin {"complete", "fail"} => Len(Statements[t.call]) \in {1, 2} /\ u.place = 2
        BY <1>2, <2>1, Calls DEF JobPlace, OneJobCalls, Turns
      <4> DEFINE n == Len(Statements[t.call])
      <4>3. (n = 2 /\ u.place = 3) \/ (n \in {1, 2} /\ u.place = 2)
        BY <4>1, <4>2
      <4> HIDE DEF n
      <4>4. u.place <= n + 1
        BY <4>3
      <4> QED BY <2>1, <4>4 DEF n
    <3> QED BY <1>2, <1>3, <2>1, <3>1, <3>2 DEF Shaped, OneJobCalls
  <2>6. Moves(s, u)
    <3>1. advisory = s <=> u.call \in Turns /\ u.place > 1
      BY <1>2, <1>3, <2>1
    <3>2. Clean(s, u)
      BY <1>2, <1>3, <2>1, OldJobs
    <3> HIDE DEF row
    <3> QED BY <1>1, <1>2, <1>3, <2>1, <2>2, <2>3, <3>1, <3>2, Rows, TakeMoves
  <2>7. /\ holder'[r] = s /\ written'[r] = row
        /\ \A k \in Job \ {j} : holder'[JobOf(k)] = holder[JobOf(k)] /\ written'[JobOf(k)] = written[JobOf(k)]
        /\ \A k \in Job : holder'[MarketOf(k)] = holder[MarketOf(k)] /\ written'[MarketOf(k)] = written[MarketOf(k)]
    BY <1>1, <1>2, <1>3, <2>2, Rows DEF TxnInv, TxnTypeOK, Tables
  <2> HIDE DEF row
  <2>8. HeldFits(s)'
    <3> SUFFICES ASSUME NEW k \in Job
                 PROVE  /\ holder'[JobOf(k)] = s =>
                             JobFits(u, stored[JobOf(k)], written'[JobOf(k)]) /\ k \in u.jobs
                        /\ holder'[MarketOf(k)] = s =>
                             /\ MarketFits(u, stored[MarketOf(k)], written'[MarketOf(k)])
                             /\ k \in u.jobs /\ holder'[JobOf(k)] = s
      BY <1>1, <1>2, <2>1, <2>2 DEF HeldFits
    <3>1. HeldFits(s)
      BY DEF TxnInv, SessionInv
    <3>2. CASE k = j
      <4>1. u.place >= t.place
        BY <1>2, <2>1
      <4>2. holder[MarketOf(j)] = s => MarketFits(u, stored[MarketOf(j)], written[MarketOf(j)])
        BY <1>2, <1>3, <2>1, <3>1, <4>1, FitsLater DEF HeldFits
      <4> QED BY <1>2, <2>1, <2>4, <2>7, <3>2, <4>2
    <3>3. CASE k # j
      <4>1. holder[JobOf(k)] # s /\ holder[MarketOf(k)] # s
        BY <1>2, <1>3, <3>1, <3>3 DEF HeldFits
      <4> QED BY <2>7, <3>3, <4>1
    <3> QED BY <3>2, <3>3
  <2>9. Keeps(s)'
    <3>1. Keeps(s)
      BY DEF TxnInv, SessionInv
    <3>2. t.call = "complete" => holder[MarketOf(j)] = s
      BY <1>2, <1>3, <3>1 DEF Keeps, JobPlace
    <3>3. u.call \in {"update", "release", "cancel"} => u.place = 2
      BY <1>2, <2>1 DEF JobPlace
    <3> QED BY <1>2, <2>1, <2>2, <2>7, <3>2, <3>3, Calls DEF Keeps, OneJobCalls
  <2> QED BY <1>3, <2>1, <2>2, <2>5, <2>6, <2>8, <2>9, MoveKeeps DEF SessionInv
<1> QED BY <1>5, <1>6

\* A session at a statement on marketplace rows
LEMMA AtMarket ==
  ASSUME TxnInv, NEW s \in Session, Statement(s) = "market", tx[s].phase # "raise"
  PROVE  /\ tx[s].call \in {"update", "release", "cancel", "requeue", "complete", "fail"}
         /\ tx[s].place = (IF tx[s].call \in {"complete", "fail"} THEN 1 ELSE 2)
         /\ tx[s].call # "requeue" => tx[s].call \in OneJobCalls /\ \E j \in Job : tx[s].jobs = {j}
         /\ advisory # s /\ tx[s].call \notin Turns
<1> DEFINE t == tx[s]
<1>1. t \in Transaction /\ Shaped(t)
  BY DEF TxnInv, TxnTypeOK, SessionInv
<1>2. /\ t.call \in {"update", "release", "cancel", "requeue", "complete", "fail"}
      /\ t.place = (IF t.call \in {"complete", "fail"} THEN 1 ELSE 2)
  BY <1>1, StatementAt
<1>3. t.call # "requeue" => t.call \in OneJobCalls /\ \E j \in Job : t.jobs = {j}
  BY <1>1, <1>2, Calls DEF Shaped, OneJobCalls
<1>4. advisory # s /\ t.call \notin Turns
  BY <1>2 DEF TxnInv, ClaimsInTurn, Turns
<1> QED BY <1>2, <1>3, <1>4

LEMMA LockMarketKeeps ==
  ASSUME TxnInv, NEW s \in Session, LockMarket(s)
  PROVE  TxnInv'
<1> DEFINE t == tx[s]
           Left(j) == [t EXCEPT !.jobs = IF t.call = "requeue" THEN @ \ {j} ELSE @]
<1>1. PICK j \in t.jobs :
        /\ Statement(s) = "market" /\ t.phase = "start" /\ Lockable(s, MarketOf(j))
        /\ holder' = [holder EXCEPT ![MarketOf(j)] = s]
        /\ \E row \in MarketWritten(t, written[MarketOf(j)]) :
             written' = [written EXCEPT ![MarketOf(j)] = row]
        /\ Goto(s, IF t.call = "complete" /\ written[MarketOf(j)] \notin Completable THEN Raise(t)
                   ELSE IF t.call = "requeue" /\ Left(j).jobs # {} THEN Left(j)
                   ELSE Step(t))
        /\ UNCHANGED <<stored, advisory>>
  BY DEF LockMarket
<1> DEFINE r == MarketOf(j)
           left == Left(j)
<1>2. PICK row \in MarketWritten(t, written[r]) : written' = [written EXCEPT ![r] = row]
  BY <1>1
<1>3. /\ t.call \in {"update", "release", "cancel", "requeue", "complete", "fail"}
      /\ t.place = (IF t.call \in {"complete", "fail"} THEN 1 ELSE 2)
      /\ t.call # "requeue" => t.call \in OneJobCalls /\ t.jobs = {j}
      /\ advisory # s /\ t.phase # "raise" /\ ~Raising(s) /\ t.call \notin Turns
  BY <1>1, AtMarket DEF Raising
<1>4. /\ t \in Transaction /\ j \in Job /\ r \in Row /\ written[r] \in MarketRow
      /\ stored[JobOf(j)].state # "absent" /\ r # JobOf(j)
      /\ Shaped(t) /\ HeldFits(s) /\ Keeps(s) /\ Clean(s, t)
  <2>1. t \in Transaction /\ Shaped(t) /\ HeldFits(s) /\ Keeps(s) /\ Clean(s, t)
    BY DEF TxnInv, TxnTypeOK, SessionInv, Known
  <2>2. j \in Job
    BY <1>1, <2>1 DEF Transaction
  <2>3. stored[JobOf(j)].state # "absent"
    BY <1>1, <1>3, <2>1, OldJobs
  <2> QED BY <2>1, <2>2, <2>3, Rows DEF TxnInv, TxnTypeOK
<1>5. row \in MarketRow
  BY <1>4, MarketWrittenType
<1>6. \A u \in Transaction : /\ tx' = [tx EXCEPT ![s] = u]
                             /\ \A k \in u.jobs \cup u.todo : stored[JobOf(k)].state # "absent"
                             /\ u.call = t.call
                             => Moves(s, u)
  <2> SUFFICES ASSUME NEW u \in Transaction, tx' = [tx EXCEPT ![s] = u],
                      \A k \in u.jobs \cup u.todo : stored[JobOf(k)].state # "absent",
                      u.call = t.call
               PROVE  Moves(s, u)
    OBVIOUS
  <2>1. advisory = s <=> u.call \in Turns /\ u.place > 1
    BY <1>3
  <2>2. Clean(s, u) /\ t.call # "create"
    BY <1>3, OldJobs
  <2> QED BY <1>1, <1>2, <1>4, <1>5, <2>1, <2>2, TakeMoves
<1>7. CASE t.call = "complete" /\ written[r] \notin Completable
  <2>1. tx' = [tx EXCEPT ![s] = Raise(t)]
    BY <1>1, <1>7 DEF Goto
  <2>2. /\ Raise(t) \in Transaction
        /\ \A k \in Raise(t).jobs \cup Raise(t).todo : stored[JobOf(k)].state # "absent"
        /\ Raise(t).call = t.call
    BY <1>4, <1>7, Raised
  <2> QED BY <1>3, <1>6, <1>7, <2>1, <2>2, RaiseKeeps
<1>8. CASE ~(t.call = "complete" /\ written[r] \notin Completable)
  <2> DEFINE u == IF t.call = "requeue" /\ left.jobs # {} THEN left ELSE Step(t)
  <2>1. /\ left \in Transaction /\ left.call = t.call /\ left.worker = t.worker /\ left.place = t.place
        /\ left.phase = t.phase /\ left.todo = t.todo
        /\ t.call = "requeue" => left.jobs = t.jobs \ {j}
    BY <1>4 DEF Transaction
  <2>2. /\ Step(t) \in Transaction /\ Step(t).call = t.call /\ Step(t).worker = t.worker
        /\ Step(t).jobs = t.jobs /\ Step(t).place = t.place + 1 /\ Step(t).phase = "start"
        /\ Step(t).todo = {}
    BY <1>3, <1>4, Stepped
  <2> HIDE DEF left
  <2>3. /\ u \in Transaction /\ u.call = t.call /\ u.worker = t.worker /\ u.phase = "start"
        /\ u.jobs \subseteq t.jobs /\ u.todo \in {t.todo, {}} /\ u.place \in {t.place, t.place + 1}
        /\ t.call # "requeue" => u.jobs = t.jobs /\ u.place = t.place + 1
        /\ t.call = "requeue" => \A k \in t.jobs : k = j \/ (u.place = 2 /\ k \in u.jobs)
        /\ u.place = 3 => u.todo = {}
    <3>1. CASE t.call = "requeue" /\ left.jobs # {}
      <4>1. u = left /\ t.place = 2 /\ t.phase = "start"
        BY <1>1, <1>3, <3>1
      <4> HIDE DEF u
      <4> QED BY <2>1, <3>1, <4>1
    <3>2. CASE t.call = "requeue" /\ left.jobs = {}
      <4>1. u = Step(t) /\ t.place = 2
        BY <1>3, <3>2
      <4>2. \A k \in t.jobs : k = j
        BY <2>1, <3>2
      <4> HIDE DEF u
      <4> QED BY <2>2, <3>2, <4>1, <4>2
    <3>3. CASE t.call # "requeue"
      BY <1>3, <2>2, <3>3
    <3> QED BY <3>1, <3>2, <3>3
  <2>4. tx' = [tx EXCEPT ![s] = u] /\ tx'[s] = u
    <3>1. tx' = [tx EXCEPT ![s] = u]
      BY <1>1, <1>8 DEF Goto, left
    <3> QED BY <3>1 DEF TxnInv, TxnTypeOK
  <2> HIDE DEF u
  <2>5. u.place >= t.place /\ u.place <= 3
    BY <1>3, <2>3
  <2>6. Moves(s, u)
    <3>1. \A k \in u.jobs \cup u.todo : stored[JobOf(k)].state # "absent"
      BY <1>3, <1>4, <2>3, OldJobs
    <3> QED BY <1>3, <1>6, <2>3, <2>4, <3>1
  <2>7. Shaped(u)
    <3>1. u.call \in OneJobCalls => u.place <= Len(Statements[u.call]) + 1
      <4>1. \A c \in {"update", "release", "cancel", "complete", "fail"} : Len(Statements[c]) = 2
        BY Calls DEF Turns
      <4>2. u.call \in OneJobCalls => u.call \in {"update", "release", "cancel", "complete", "fail"}
        BY <1>3, <2>3 DEF OneJobCalls
      <4> SUFFICES ASSUME u.call \in OneJobCalls
                   PROVE  u.place <= Len(Statements[u.call]) + 1
        OBVIOUS
      <4>3. Len(Statements[u.call]) = 2
        BY <4>1, <4>2
      <4> QED BY <2>5, <4>3
    <3>2. u.call \in WorkerCall => u.worker \in Worker
      BY <1>3, <1>4, <2>3 DEF Shaped
    <3>3. u.call \in OneJobCalls => \E k \in Job : u.jobs = {k}
      BY <1>3, <1>4, <2>3 DEF OneJobCalls
    <3>4. u.call \notin Turns /\ ~(u.call = "requeue" /\ u.place = 1)
      BY <1>3, <2>3
    <3> QED BY <2>3, <3>1, <3>2, <3>3, <3>4 DEF Shaped, Turns
  <2>8. /\ holder'[r] = s /\ written'[r] = row
        /\ \A k \in Job \ {j} : holder'[MarketOf(k)] = holder[MarketOf(k)]
                                /\ written'[MarketOf(k)] = written[MarketOf(k)]
        /\ \A k \in Job : holder'[JobOf(k)] = holder[JobOf(k)] /\ written'[JobOf(k)] = written[JobOf(k)]
    BY <1>1, <1>2, <1>4, Rows DEF TxnInv, TxnTypeOK, Tables
  <2>9. MarketFits(u, stored[r], row)
    <3>1. t.call = "complete" => holder[r] # s
      BY <1>3, <1>4 DEF HeldFits, MarketFits
    <3>2. t.call = "complete" => row = stored[r] /\ row \in Completable
      <4> SUFFICES ASSUME t.call = "complete"
                   PROVE  row = stored[r] /\ row \in Completable
        OBVIOUS
      <4>1. row = written[r]
        BY DEF MarketWritten
      <4>2. holder[r] = Nobody
        BY <1>1, <3>1 DEF Lockable
      <4> QED BY <1>4, <1>8, <4>1, <4>2 DEF TxnInv, TxnTypeOK
    <3>3. /\ t.call = "update" => row \in Reported
          /\ t.call = "fail" => row = "failed"
          /\ t.call \in {"release", "requeue"} => row = "waiting"
          /\ t.call = "cancel" => row = "skipped"
      BY DEF MarketWritten
    <3>4. u.place >= (IF u.call \in {"complete", "fail", "requeue"} THEN 2 ELSE 3)
      BY <1>3, <2>3
    <3> QED BY <1>3, <2>3, <3>2, <3>3, <3>4 DEF MarketFits
  <2>10. t.call \notin {"complete", "fail"} => holder[JobOf(j)] = s
    BY <1>3, <1>4, Calls DEF Keeps, JobPlace
  <2>11. HeldFits(s)'
    <3> SUFFICES ASSUME NEW k \in Job
                 PROVE  /\ holder'[JobOf(k)] = s =>
                             /\ JobFits(u, stored[JobOf(k)], written'[JobOf(k)])
                             /\ u.call \in OneJobCalls => k \in u.jobs
                        /\ holder'[MarketOf(k)] = s =>
                             /\ MarketFits(u, stored[MarketOf(k)], written'[MarketOf(k)])
                             /\ u.call \in OneJobCalls => k \in u.jobs
                             /\ u.call \notin {"complete", "fail"} => holder'[JobOf(k)] = s
      BY <1>1, <2>4 DEF HeldFits
    <3>1. u.call \in OneJobCalls => u.jobs = t.jobs
      BY <2>3 DEF OneJobCalls
    <3>2. holder'[JobOf(k)] = s =>
            /\ JobFits(u, stored[JobOf(k)], written'[JobOf(k)])
            /\ u.call \in OneJobCalls => k \in u.jobs
      BY <1>3, <1>4, <2>3, <2>5, <2>8, <3>1, FitsLater DEF HeldFits
    <3>3. CASE k = j
      BY <1>1, <2>3, <2>8, <2>9, <2>10, <3>1, <3>2, <3>3
    <3>4. CASE k # j
      BY <1>3, <1>4, <2>3, <2>5, <2>8, <3>1, <3>2, <3>4, FitsLater DEF HeldFits
    <3> QED BY <3>3, <3>4
  <2>12. Keeps(s)'
    <3>1. \A k \in u.jobs : u.place > JobPlace(u.call) => holder'[JobOf(k)] = s
      <4>1. u.place > JobPlace(u.call) => t.call \notin {"complete", "fail"} /\ t.place > JobPlace(t.call)
        BY <1>3, <2>3 DEF JobPlace
      <4> QED BY <1>3, <1>4, <2>3, <2>8, <4>1, Calls DEF Keeps, Transaction
    <3>2. \A k \in u.jobs : u.call # "requeue" => holder'[MarketOf(k)] = s
      BY <1>3, <2>3, <2>8
    <3>3. u.call = "requeue" =>
            \A k \in Job : holder'[JobOf(k)] = s /\ (k \notin u.jobs \/ u.place >= 3) => holder'[MarketOf(k)] = s
      BY <1>3, <1>4, <2>3, <2>8 DEF Keeps
    <3> QED BY <2>4, <3>1, <3>2, <3>3 DEF Keeps
  <2>13. u.call # "none"
    BY <1>3, <2>3
  <2> QED BY <2>3, <2>4, <2>6, <2>7, <2>11, <2>12, <2>13, MoveKeeps DEF SessionInv
<1> QED BY <1>7, <1>8

\* A claim or a create past its first statement, and the rows it has
LEMMA AtTurn ==
  ASSUME TxnInv, NEW s \in Session, tx[s].call \in Turns, tx[s].place \in {2, 3}
  PROVE  /\ tx[s] \in Transaction /\ tx[s].phase # "raise" /\ tx[s].call \notin OneJobCalls
         /\ tx[s].call = "claim" => tx[s].jobs = {} /\ tx[s].worker \in Worker
         /\ tx[s].call = "create" => \E j \in Job : tx[s].jobs = {j}
         /\ advisory = s /\ Clean(s, tx[s])
         /\ \A j \in Job : /\ holder[MarketOf(j)] # s
                           /\ holder[JobOf(j)] \in {s, Nobody} => written[JobOf(j)] = stored[JobOf(j)]
<1> DEFINE t == tx[s]
<1>1. t \in Transaction /\ Shaped(t) /\ HeldFits(s) /\ Clean(s, t)
  BY DEF TxnInv, TxnTypeOK, SessionInv, Known
<1>2. t.phase # "raise" /\ t.call \notin OneJobCalls
  BY <1>1 DEF Shaped, OneJobCalls, Turns
<1>3. /\ t.call = "claim" => t.jobs = {} /\ t.worker \in Worker
      /\ t.call = "create" => \E j \in Job : t.jobs = {j}
  BY <1>1, <1>2, Calls DEF Shaped, WorkerCall, WebCall
<1>4. advisory = s
  BY DEF TxnInv, ClaimsInTurn
<1>5. ASSUME NEW j \in Job
      PROVE  /\ holder[MarketOf(j)] # s
             /\ holder[JobOf(j)] \in {s, Nobody} => written[JobOf(j)] = stored[JobOf(j)]
  <2>1. holder[MarketOf(j)] # s
    BY <1>1, <1>2 DEF HeldFits, MarketFits, Raising, Turns
  <2>2. holder[JobOf(j)] = s => written[JobOf(j)] = stored[JobOf(j)]
    BY <1>1, <1>2 DEF HeldFits, JobFits, Raising, Turns
  <2>3. holder[JobOf(j)] = Nobody => written[JobOf(j)] = stored[JobOf(j)]
    BY Rows DEF TxnInv, TxnTypeOK
  <2> QED BY <2>1, <2>2, <2>3
<1> QED BY <1>1, <1>2, <1>3, <1>4, <1>5

\* A row that such a session has left as it was, or has at its end
LEMMA LeftFits ==
  ASSUME NEW u, u.call \in Turns, u.place > 1, NEW row
  PROVE  JobFits(u, row, row)
BY DEF JobFits, JobPlace, Outcome, Turns

\* What a claim or a create becomes when it goes on
LEMMA TurnKeeps ==
  ASSUME TxnInv, NEW s \in Session, tx[s].call \in Turns, tx[s].place \in {2, 3},
         NEW u \in Transaction, u.call = tx[s].call, u.worker = tx[s].worker, u.jobs = tx[s].jobs,
         u.place > 1, u.phase = "start" \/ (u.phase = "lock" /\ u.place = 2),
         u.place = 3 => u.todo = {},
         Moves(s, u),
         \A j \in Job : holder'[JobOf(j)] = s => JobFits(u, stored[JobOf(j)], written'[JobOf(j)]),
         \A j \in Job : holder'[MarketOf(j)] = holder[MarketOf(j)]
  PROVE  TxnInv'
<1>1. tx'[s] = u /\ stored' = stored
  BY DEF TxnInv, TxnTypeOK, Moves
<1>2. Shaped(u)
  BY AtTurn, Calls DEF Shaped, Turns, WorkerCall, WebCall
<1>3. HeldFits(s)'
  <2>1. \A j \in Job : holder'[MarketOf(j)] # s
    BY AtTurn
  <2> QED BY <1>1, <2>1, AtTurn DEF HeldFits
<1>4. Keeps(s)'
  BY <1>1 DEF Keeps, Turns
<1> QED BY <1>1, <1>2, <1>3, <1>4, MoveKeeps DEF SessionInv, Turns

LEMMA StartLiveKeeps ==
  ASSUME TxnInv, NEW s \in Session, StartLive(s)
  PROVE  TxnInv'
<1> DEFINE t == tx[s]
           live == {j \in Job : LiveAt(t.age, View(s, JobOf(j)))}
           look == [t EXCEPT !.met = \E b \in Session : tx[b].call = "beat"]
           u == IF live = {} THEN Step(look) ELSE [look EXCEPT !.phase = "lock", !.todo = live]
<1>1. /\ Statement(s) = "live" /\ UNCHANGED <<rowVars, advisory>> /\ t.phase = "start"
      /\ tx' = [tx EXCEPT ![s] = u]
  BY DEF StartLive, Goto
<1>2. t \in Transaction
  BY DEF TxnInv, TxnTypeOK
<1>3. t.call = "claim" /\ t.place = 2
  BY <1>1, <1>2, StatementAt
<1>4. /\ look \in Transaction /\ look.call = "claim" /\ look.place = 2 /\ look.worker = t.worker
      /\ look.jobs = {} /\ t.jobs = {} /\ t.call \in Turns
  BY <1>2, <1>3, AtTurn DEF Transaction, Turns
<1>5. \A j \in live : j \in Job /\ stored[JobOf(j)].state # "absent"
  BY <1>3, <1>4, AtTurn DEF LiveAt, View
<1> HIDE DEF live, look
<1>6. /\ u \in Transaction /\ u.call = "claim" /\ u.worker = t.worker /\ u.jobs = {}
      /\ u.place \in {2, 3}
      /\ u.phase = "start" \/ (u.phase = "lock" /\ u.place = 2)
      /\ u.place = 3 => u.todo = {}
      /\ u.todo \in {live, {}}
  <2>1. CASE live = {}
    BY <1>4, <2>1, Stepped
  <2>2. CASE live # {}
    <3>1. live \in SUBSET Job
      BY <1>5
    <3> DEFINE w == [look EXCEPT !.phase = "lock", !.todo = live]
    <3>2. /\ w \in Transaction /\ w.call = "claim" /\ w.worker = t.worker /\ w.jobs = {}
          /\ w.place = 2 /\ w.phase = "lock" /\ w.todo = live
      BY <1>4, <3>1 DEF Transaction
    <3> HIDE DEF w
    <3>3. u = w
      BY <2>2 DEF w
    <3> HIDE DEF u
    <3> QED BY <3>2, <3>3
  <2> QED BY <2>1, <2>2
<1> HIDE DEF u
<1>7. Moves(s, u)
  <2>1. \A j \in u.jobs \cup u.todo : stored[JobOf(j)].state # "absent"
    BY <1>5, <1>6
  <2>2. Clean(s, u)
    BY <1>6, <2>1, OldJobs
  <2>3. advisory' = s <=> u.call \in Turns /\ u.place > 1
    BY <1>1, <1>3, <1>4, <1>6, AtTurn
  <2> QED BY <1>1, <1>3, <1>6, <2>2, <2>3, AdvanceMoves
<1>8. \A j \in Job : holder'[JobOf(j)] = s => JobFits(u, stored[JobOf(j)], written'[JobOf(j)])
  BY <1>1, <1>3, <1>4, <1>6, AtTurn, LeftFits DEF rowVars
<1>9. u.place > 1 /\ \A j \in Job : holder'[MarketOf(j)] = holder[MarketOf(j)]
  BY <1>1, <1>6 DEF rowVars
<1> QED BY <1>3, <1>4, <1>6, <1>7, <1>8, <1>9, TurnKeeps

LEMMA LockLiveKeeps ==
  ASSUME TxnInv, NEW s \in Session, LockLive(s)
  PROVE  TxnInv'
<1> DEFINE t == tx[s]
<1>1. PICK j \in t.todo :
        /\ Statement(s) = "live" /\ t.phase = "lock" /\ Lockable(s, JobOf(j))
        /\ holder' = [holder EXCEPT ![JobOf(j)] = s]
        /\ Goto(s, IF LiveAt(t.age, written[JobOf(j)]) THEN Return(t)
                   ELSE IF t.todo = {j} THEN Step(t)
                   ELSE [t EXCEPT !.todo = @ \ {j}])
        /\ UNCHANGED <<stored, written, advisory>>
  BY DEF LockLive
<1> DEFINE r == JobOf(j)
           u == IF LiveAt(t.age, written[r]) THEN Return(t)
                ELSE IF t.todo = {j} THEN Step(t) ELSE [t EXCEPT !.todo = @ \ {j}]
<1>2. t \in Transaction /\ t.call = "claim" /\ t.call \in Turns /\ t.place = 2 /\ t.jobs = {}
      /\ Clean(s, t)
  BY <1>1, StatementAt, AtTurn DEF TxnInv, TxnTypeOK, Turns
<1>3. /\ j \in Job /\ stored[r].state # "absent" /\ r # MarketOf(j)
      /\ written[r] \in JobRow /\ r \in Row
  BY <1>2, OldJobs, Rows DEF TxnInv, TxnTypeOK, Transaction
<1>4. tx' = [tx EXCEPT ![s] = u]
  BY <1>1 DEF Goto
<1>5. /\ u \in Transaction /\ u.call = "claim" /\ u.worker = t.worker /\ u.jobs = {}
      /\ u.place \in {2, 3, 4}
      /\ u.phase = "start" \/ (u.phase = "lock" /\ u.place = 2)
      /\ u.place = 3 => u.todo = {}
      /\ u.todo \subseteq t.todo
  <2>1. CASE LiveAt(t.age, written[r])
    BY <1>2, <2>1, Returned
  <2>2. CASE ~LiveAt(t.age, written[r]) /\ t.todo = {j}
    BY <1>2, <2>2, Stepped
  <2>3. CASE ~LiveAt(t.age, written[r]) /\ t.todo # {j}
    <3> DEFINE w == [t EXCEPT !.todo = @ \ {j}]
    <3>1. /\ w \in Transaction /\ w.call = "claim" /\ w.worker = t.worker /\ w.jobs = {}
          /\ w.place = 2 /\ w.phase = "lock" /\ w.todo = t.todo \ {j}
      BY <1>1, <1>2 DEF Transaction
    <3> HIDE DEF w
    <3>2. u = w
      BY <2>3 DEF w
    <3> HIDE DEF u
    <3> QED BY <3>1, <3>2
  <2> QED BY <2>1, <2>2, <2>3
<1> HIDE DEF u
<1>6. Moves(s, u)
  <2>1. Clean(s, u)
    BY <1>2, <1>5, OldJobs
  <2>2. advisory = s <=> u.call \in Turns /\ u.place > 1
    BY <1>2, <1>5, AtTurn
  <2>3. written' = [written EXCEPT ![r] = written[r]] /\ tx[s].call # "create"
    BY <1>1, <1>2, <1>3 DEF TxnInv, Tables
  <2> QED BY <1>1, <1>3, <1>4, <1>5, <2>1, <2>2, <2>3, TakeMoves
<1>7. /\ \A k \in Job : holder'[MarketOf(k)] = holder[MarketOf(k)]
      /\ \A k \in Job \ {j} : holder'[JobOf(k)] = holder[JobOf(k)]
  BY <1>1, <1>3, Rows DEF TxnInv, TxnTypeOK
<1>8. ASSUME NEW k \in Job, holder'[JobOf(k)] = s
      PROVE  JobFits(u, stored[JobOf(k)], written'[JobOf(k)])
  <2>1. written'[JobOf(k)] = stored[JobOf(k)]
    <3>1. holder[JobOf(k)] \in {s, Nobody}
      BY <1>1, <1>7, <1>8 DEF Lockable
    <3> QED BY <1>1, <1>2, <3>1, AtTurn
  <2> QED BY <1>2, <1>5, <2>1, LeftFits
<1>9. u.place > 1
  BY <1>5
<1>10. /\ tx[s].call \in Turns /\ tx[s].place \in {2, 3} /\ u.call = tx[s].call
       /\ u.worker = tx[s].worker /\ u.jobs = tx[s].jobs
  BY <1>2, <1>5
<1>11. \A k \in Job : holder'[JobOf(k)] = s => JobFits(u, stored[JobOf(k)], written'[JobOf(k)])
  BY <1>8
<1> HIDE DEF r
<1> QED BY <1>5, <1>6, <1>7, <1>9, <1>10, <1>11, TurnKeeps

LEMMA PickQueuedKeeps ==
  ASSUME TxnInv, NEW s \in Session, PickQueued(s)
  PROVE  TxnInv'
<1> DEFINE t == tx[s]
           u == Return(t)
           queued == {j \in Job : Lockable(s, JobOf(j)) /\ View(s, JobOf(j)).state = "queued"}
<1>1. /\ t.call = "claim" /\ Statement(s) = "pick" /\ UNCHANGED <<stored, advisory>>
      /\ tx' = [tx EXCEPT ![s] = u]
      /\ IF queued = {} THEN UNCHANGED <<holder, written>>
         ELSE \E j \in queued :
                /\ holder' = [holder EXCEPT ![JobOf(j)] = s]
                /\ written' = [written EXCEPT ![JobOf(j)] = JobWritten(t, @)]
  BY DEF PickQueued, Goto
<1>2. t \in Transaction /\ t.place = 3
  BY <1>1, StatementAt DEF TxnInv, TxnTypeOK
<1>3. /\ u \in Transaction /\ u.call = "claim" /\ u.worker = t.worker /\ u.jobs = {} /\ t.jobs = {}
      /\ u.place = 4 /\ u.phase = "start" /\ u.todo = {} /\ t.call \in Turns
  BY <1>1, <1>2, AtTurn, Returned DEF Turns
<1> HIDE DEF u
<1>4. Clean(s, u)
  BY <1>3, OldJobs
<1>5. advisory = s /\ u.place > 1
  BY <1>1, <1>2, <1>3, AtTurn
<1>6. \A k \in Job : holder[JobOf(k)] = s => JobFits(u, stored[JobOf(k)], written[JobOf(k)])
  BY <1>1, <1>2, <1>3, <1>5, AtTurn, LeftFits
<1>7. CASE queued = {}
  <2>1. UNCHANGED rowVars
    BY <1>1, <1>7 DEF rowVars
  <2>2. Moves(s, u)
    BY <1>1, <1>3, <1>4, <1>5, <2>1, AdvanceMoves
  <2>3. /\ tx[s].call \in Turns /\ tx[s].place \in {2, 3} /\ u.call = tx[s].call
        /\ u.worker = tx[s].worker /\ u.jobs = tx[s].jobs
    BY <1>1, <1>2, <1>3
  <2>4. /\ \A k \in Job : holder'[MarketOf(k)] = holder[MarketOf(k)]
        /\ \A k \in Job : holder'[JobOf(k)] = s => JobFits(u, stored[JobOf(k)], written'[JobOf(k)])
    BY <1>6, <2>1 DEF rowVars
  <2> QED BY <1>3, <1>5, <2>2, <2>3, <2>4, TurnKeeps
<1>8. CASE queued # {}
  <2>1. PICK j \in queued : /\ holder' = [holder EXCEPT ![JobOf(j)] = s]
                            /\ written' = [written EXCEPT ![JobOf(j)] = JobWritten(t, @)]
    BY <1>1, <1>8
  <2> DEFINE r == JobOf(j)
             row == JobWritten(t, written[r])
  <2>2. /\ j \in Job /\ r \in Row /\ Lockable(s, r) /\ written[r] \in JobRow /\ r # MarketOf(j)
        /\ View(s, r).state = "queued"
    BY Rows DEF TxnInv, TxnTypeOK
  <2>3. stored[r].state = "queued" /\ written[r] = stored[r]
    BY <1>1, <1>2, <1>3, <2>2, AtTurn DEF View, Lockable
  <2>4. row \in JobRow /\ row.state = "running" /\ row.owner = t.worker
    <3>1. row.state = "running" /\ row.owner = t.worker
      BY <1>1 DEF JobWritten
    <3> QED BY <1>2, <2>2, <3>1, JobWrittenType
  <2>5. written' = [written EXCEPT ![r] = row]
    BY <2>1, <2>2 DEF TxnInv, Tables
  <2> HIDE DEF row
  <2>6. Moves(s, u)
    <3>1. /\ stored[JobOf(j)].state # "absent" /\ tx[s].call # "create" /\ u.call \in Turns
          /\ r \in {JobOf(j), MarketOf(j)}
      BY <1>1, <1>3, <2>3
    <3>2. advisory = s <=> u.call \in Turns /\ u.place > 1
      BY <1>5, <3>1
    <3> QED BY <1>1, <1>3, <1>4, <2>1, <2>2, <2>4, <2>5, <3>1, <3>2, TakeMoves
  <2>7. /\ \A k \in Job : holder'[MarketOf(k)] = holder[MarketOf(k)]
        /\ \A k \in Job \ {j} : /\ holder'[JobOf(k)] = holder[JobOf(k)]
                                /\ written'[JobOf(k)] = written[JobOf(k)]
        /\ written'[r] = row
    BY <2>1, <2>2, <2>5, Rows DEF TxnInv, TxnTypeOK, Tables
  <2>8. JobFits(u, stored[r], row)
    BY <1>3, <2>3, <2>4 DEF JobFits, JobPlace, Outcome
  <2>9. \A k \in Job : holder'[JobOf(k)] = s => JobFits(u, stored[JobOf(k)], written'[JobOf(k)])
    BY <1>6, <2>7, <2>8
  <2>10. /\ tx[s].call \in Turns /\ tx[s].place \in {2, 3} /\ u.call = tx[s].call
         /\ u.worker = tx[s].worker /\ u.jobs = tx[s].jobs
    BY <1>1, <1>2, <1>3
  <2> QED BY <1>3, <1>5, <2>6, <2>7, <2>9, <2>10, TurnKeeps
<1> QED BY <1>7, <1>8

\* The look for the account's active job: all it finds has been committed.
LEMMA StartActiveKeeps ==
  ASSUME TxnInv, NEW s \in Session, StartActive(s)
  PROVE  TxnInv'
<1> DEFINE t == tx[s]
           active == {k \in Job : /\ stored[JobOf(k)].state \in ActiveStates
                                  /\ \E j \in t.jobs : account[k] = account[j]}
           locks == [t EXCEPT !.phase = "lock", !.todo = active]
           u == IF active = {} THEN Step(t) ELSE locks
<1>1. /\ Statement(s) = "active" /\ UNCHANGED <<rowVars, advisory>> /\ t.phase = "start"
      /\ tx' = [tx EXCEPT ![s] = u]
  BY DEF StartActive, Goto
<1>2. t \in Transaction
  BY DEF TxnInv, TxnTypeOK
<1>3. t.call = "create" /\ t.place = 2 /\ t.call \in Turns
  BY <1>1, <1>2, StatementAt DEF Turns
<1>4. active \in SUBSET Job /\ \A k \in active : stored[JobOf(k)].state # "absent"
  BY DEF ActiveStates
<1> HIDE DEF active
<1>5. /\ locks \in Transaction /\ locks.call = t.call /\ locks.worker = t.worker /\ locks.jobs = t.jobs
      /\ locks.place = 2 /\ locks.phase = "lock" /\ locks.todo = active
  BY <1>2, <1>3, <1>4 DEF Transaction
<1>6. /\ Step(t) \in Transaction /\ Step(t).call = t.call /\ Step(t).worker = t.worker
      /\ Step(t).jobs = t.jobs /\ Step(t).place = 3 /\ Step(t).phase = "start" /\ Step(t).todo = {}
  BY <1>2, <1>3, Stepped
<1> HIDE DEF locks
<1>7. /\ u \in Transaction /\ u.call = t.call /\ u.worker = t.worker /\ u.jobs = t.jobs
      /\ u.place > 1
      /\ u.phase = "start" \/ (u.phase = "lock" /\ u.place = 2)
      /\ u.place = 3 => u.todo = {}
      /\ u.todo \subseteq active
  BY <1>5, <1>6
<1> HIDE DEF u
<1>8. Moves(s, u)
  <2>1. Clean(s, u)
    BY <1>3, <1>4, <1>7, AtTurn DEF Clean, Named
  <2>2. advisory' = s <=> u.call \in Turns /\ u.place > 1
    BY <1>1, <1>3, <1>7, AtTurn
  <2> QED BY <1>1, <1>7, <2>1, <2>2, AdvanceMoves
<1>9. \A j \in Job : holder'[JobOf(j)] = s => JobFits(u, stored[JobOf(j)], written'[JobOf(j)])
  BY <1>1, <1>3, <1>7, AtTurn, LeftFits DEF rowVars
<1>10. \A j \in Job : holder'[MarketOf(j)] = holder[MarketOf(j)]
  BY <1>1 DEF rowVars
<1> QED BY <1>3, <1>7, <1>8, <1>9, <1>10, TurnKeeps

LEMMA LockActiveKeeps ==
  ASSUME TxnInv, NEW s \in Session, LockActive(s)
  PROVE  TxnInv'
<1> DEFINE t == tx[s]
<1>1. PICK k \in t.todo :
        /\ Statement(s) = "active" /\ t.phase = "lock" /\ Lockable(s, JobOf(k))
        /\ holder' = [holder EXCEPT ![JobOf(k)] = s]
        /\ Goto(s, IF written[JobOf(k)].state \in ActiveStates THEN Return(t)
                   ELSE IF t.todo = {k} THEN Step(t)
                   ELSE [t EXCEPT !.todo = @ \ {k}])
        /\ UNCHANGED <<stored, written, advisory>>
  BY DEF LockActive
<1> DEFINE r == JobOf(k)
           left == [t EXCEPT !.todo = @ \ {k}]
           u == IF written[r].state \in ActiveStates THEN Return(t)
                ELSE IF t.todo = {k} THEN Step(t) ELSE left
<1>2. t \in Transaction /\ t.call = "create" /\ t.call \in Turns /\ t.place = 2 /\ Clean(s, t)
  BY <1>1, StatementAt, AtTurn DEF TxnInv, TxnTypeOK, Turns
<1>3. /\ k \in Job /\ stored[r].state # "absent" /\ r # MarketOf(k)
      /\ written[r] \in JobRow /\ r \in Row
  BY <1>2, Rows DEF TxnInv, TxnTypeOK, Transaction, Clean, Named
<1>4. tx' = [tx EXCEPT ![s] = u]
  BY <1>1 DEF Goto
<1>5. /\ left \in Transaction /\ left.call = t.call /\ left.worker = t.worker /\ left.jobs = t.jobs
      /\ left.place = 2 /\ left.phase = "lock" /\ left.todo \subseteq t.todo
  BY <1>1, <1>2 DEF Transaction
<1> HIDE DEF left
<1>6. /\ u \in Transaction /\ u.call = t.call /\ u.worker = t.worker /\ u.jobs = t.jobs
      /\ u.place > 1
      /\ u.phase = "start" \/ (u.phase = "lock" /\ u.place = 2)
      /\ u.place = 3 => u.todo = {}
      /\ u.todo \subseteq t.todo
  <2>1. u \in {Return(t), Step(t), left}
    OBVIOUS
  <2> HIDE DEF u
  <2> QED BY <1>2, <1>5, <2>1, Returned, Stepped
<1> HIDE DEF u
<1>7. Moves(s, u)
  <2>1. Clean(s, u)
    BY <1>2, <1>6 DEF Clean, Named
  <2>2. advisory = s <=> u.call \in Turns /\ u.place > 1
    BY <1>2, <1>6, AtTurn
  <2>3. written' = [written EXCEPT ![r] = written[r]]
    BY <1>1, <1>3 DEF TxnInv, Tables
  <2> QED BY <1>1, <1>3, <1>4, <1>6, <2>1, <2>2, <2>3, TakeMoves
<1>8. /\ \A i \in Job : holder'[MarketOf(i)] = holder[MarketOf(i)]
      /\ \A i \in Job \ {k} : holder'[JobOf(i)] = holder[JobOf(i)]
  BY <1>1, <1>3, Rows DEF TxnInv, TxnTypeOK
<1>9. ASSUME NEW i \in Job, holder'[JobOf(i)] = s
      PROVE  JobFits(u, stored[JobOf(i)], written'[JobOf(i)])
  <2>1. written'[JobOf(i)] = stored[JobOf(i)]
    <3>1. holder[JobOf(i)] \in {s, Nobody}
      BY <1>1, <1>8, <1>9 DEF Lockable
    <3> QED BY <1>1, <1>2, <3>1, AtTurn
  <2> QED BY <1>2, <1>6, <2>1, LeftFits
<1> QED BY <1>2, <1>6, <1>7, <1>8, <1>9, TurnKeeps

\* What the insert writes: the row of a job that is nobody else's
LEMMA Inserted ==
  ASSUME TxnInv, NEW s \in Session, Insert(s)
  PROVE  /\ tx[s] \in Transaction /\ tx[s].call = "create" /\ tx[s].place = 3 /\ advisory = s
         /\ tx' = [tx EXCEPT ![s] = Step(tx[s])] /\ stored' = stored /\ advisory' = advisory
         /\ \E j \in Job :
              /\ tx[s].jobs = {j} /\ stored[JobOf(j)] = NoRow /\ holder[JobOf(j)] \in {Nobody, s}
              /\ holder' = [holder EXCEPT ![JobOf(j)] = s]
              /\ written' = [written EXCEPT ![JobOf(j)] = Lost("queued")]
              /\ holder'[JobOf(j)] = s /\ written'[JobOf(j)] = Lost("queued")
              /\ \A k \in Job \ {j} : /\ holder'[JobOf(k)] = holder[JobOf(k)]
                                      /\ written'[JobOf(k)] = written[JobOf(k)]
              /\ \A k \in Job : /\ holder'[MarketOf(k)] = holder[MarketOf(k)]
                               /\ written'[MarketOf(k)] = written[MarketOf(k)]
<1> DEFINE t == tx[s]
<1>1. PICK j \in t.jobs :
        /\ Statement(s) = "insert"
        /\ holder' = [holder EXCEPT ![JobOf(j)] = s]
        /\ written' = [written EXCEPT ![JobOf(j)] = Lost("queued")]
        /\ tx' = [tx EXCEPT ![s] = Step(t)] /\ UNCHANGED <<stored, advisory>>
  BY DEF Insert, Goto
<1>2. t \in Transaction /\ t.call = "create" /\ t.place = 3 /\ t.call \in Turns
  BY <1>1, StatementAt DEF TxnInv, TxnTypeOK, Turns
<1>3. t.jobs = {j} /\ j \in Job /\ advisory = s /\ Clean(s, t)
  BY <1>1, <1>2, AtTurn
<1>4. stored[JobOf(j)] = NoRow /\ \A q \in Session \ {s} : tx[q].call = "create" => j \notin tx[q].jobs
  BY <1>2, <1>3 DEF Clean
<1>5. holder[JobOf(j)] \in {Nobody, s}
  <2>1. \A q \in Session : holder[JobOf(j)] = q => tx[q].call = "create" /\ j \in tx[q].jobs
    BY <1>3, <1>4 DEF TxnInv, Known, NoRow
  <2>2. holder[JobOf(j)] \in Session \cup {Nobody}
    BY <1>3, Rows DEF TxnInv, TxnTypeOK
  <2> QED BY <1>4, <2>1, <2>2
<1>6. /\ holder \in [Row -> Session \cup {Nobody}] /\ written = [r \in Row |-> written[r]]
      /\ JobOf(j) \in Row
  BY <1>3, Rows DEF TxnInv, TxnTypeOK, Tables
<1>7. /\ holder'[JobOf(j)] = s /\ written'[JobOf(j)] = Lost("queued")
      /\ \A k \in Job \ {j} : /\ holder'[JobOf(k)] = holder[JobOf(k)]
                              /\ written'[JobOf(k)] = written[JobOf(k)]
      /\ \A k \in Job : /\ holder'[MarketOf(k)] = holder[MarketOf(k)]
                       /\ written'[MarketOf(k)] = written[MarketOf(k)]
  BY <1>1, <1>3, <1>6, Rows
<1> QED BY <1>1, <1>2, <1>3, <1>4, <1>5, <1>7

LEMMA InsertKeeps ==
  ASSUME TxnInv, NEW s \in Session, Insert(s)
  PROVE  TxnInv'
<1> DEFINE t == tx[s]
           u == Step(t)
<1>1. /\ t \in Transaction /\ t.call = "create" /\ t.place = 3 /\ t.call \in Turns /\ advisory = s
      /\ tx' = [tx EXCEPT ![s] = u] /\ stored' = stored /\ advisory' = advisory
  BY Inserted DEF Turns
<1>2. PICK j \in Job :
        /\ t.jobs = {j} /\ stored[JobOf(j)] = NoRow /\ holder[JobOf(j)] \in {Nobody, s}
        /\ holder' = [holder EXCEPT ![JobOf(j)] = s]
        /\ written' = [written EXCEPT ![JobOf(j)] = Lost("queued")]
        /\ holder'[JobOf(j)] = s /\ written'[JobOf(j)] = Lost("queued")
        /\ \A k \in Job \ {j} : /\ holder'[JobOf(k)] = holder[JobOf(k)]
                                /\ written'[JobOf(k)] = written[JobOf(k)]
        /\ \A k \in Job : /\ holder'[MarketOf(k)] = holder[MarketOf(k)]
                         /\ written'[MarketOf(k)] = written[MarketOf(k)]
  BY Inserted
<1>3. /\ u \in Transaction /\ u.call = t.call /\ u.worker = t.worker /\ u.jobs = t.jobs
      /\ u.place = 4 /\ u.phase = "start" /\ u.todo = {}
  BY <1>1, Stepped
<1> HIDE DEF u
<1>4. Moves(s, u)
  <2>1. Clean(s, u)
    BY <1>1, <1>3, AtTurn DEF Clean, Named
  <2>2. advisory' = s <=> u.call \in Turns /\ u.place > 1
    BY <1>1, <1>3
  <2>3. written' = [r \in Row |-> written'[r]] /\ holder' = [r \in Row |-> holder'[r]]
    BY <1>2 DEF TxnInv, TxnTypeOK, Tables
  <2>4. \A k \in Job : written'[JobOf(k)] \in JobRow /\ written'[MarketOf(k)] \in MarketRow
    BY <1>2, LostType DEF TxnInv, TxnTypeOK
  <2>5. \A r \in Row : \/ holder'[r] = holder[r] /\ written'[r] = written[r]
                       \/ holder[r] \in {Nobody, s} /\ holder'[r] = s
    <3> SUFFICES ASSUME NEW k \in Job
                 PROVE  \A r \in {JobOf(k), MarketOf(k)} :
                          \/ holder'[r] = holder[r] /\ written'[r] = written[r]
                          \/ holder[r] \in {Nobody, s} /\ holder'[r] = s
      BY Rows
    <3> QED BY <1>2
  <2>6. \A k \in Job : stored[JobOf(k)].state = "absent" =>
          /\ holder'[JobOf(k)] = s => u.call = "create" /\ k \in u.jobs
          /\ holder'[MarketOf(k)] = holder[MarketOf(k)]
    <3> SUFFICES ASSUME NEW k \in Job \ {j}, stored[JobOf(k)].state = "absent", holder[JobOf(k)] = s
                 PROVE  k \in t.jobs
      BY <1>1, <1>2, <1>3
    <3> QED BY DEF TxnInv, Known
  <2> QED BY <1>1, <2>1, <2>2, <2>3, <2>4, <2>5, <2>6 DEF Moves
<1>5. \A k \in Job : holder'[JobOf(k)] = s => JobFits(u, stored[JobOf(k)], written'[JobOf(k)])
  <2> SUFFICES ASSUME NEW k \in Job, holder'[JobOf(k)] = s
               PROVE  JobFits(u, stored[JobOf(k)], written'[JobOf(k)])
    OBVIOUS
  <2>1. CASE k = j
    <3>1. u.call = "create" /\ u.place = 4
      BY <1>1, <1>3
    <3> QED BY <1>2, <2>1, <3>1 DEF JobFits, JobPlace, Outcome
  <2>2. CASE k # j
    <3>1. written'[JobOf(k)] = stored[JobOf(k)]
      BY <1>1, <1>2, <2>2, AtTurn
    <3> QED BY <1>1, <1>3, <3>1, LeftFits
  <2> QED BY <2>1, <2>2
<1>6. \A k \in Job : holder'[MarketOf(k)] = holder[MarketOf(k)]
  BY <1>2
<1>7. tx[s].place \in {2, 3} /\ u.place > 1
  BY <1>1, <1>3
<1> QED BY <1>1, <1>3, <1>4, <1>5, <1>6, <1>7, TurnKeeps

\* Recovery takes all it will take at its first statement.
LEMMA PickExpiredKeeps ==
  ASSUME TxnInv, NEW s \in Session, PickExpired(s)
  PROVE  TxnInv'
<1> DEFINE t == tx[s]
<1>1. t.call = "requeue" /\ Statement(s) = "pick" /\ UNCHANGED <<stored, advisory>>
  BY DEF PickExpired
<1>2. PICK S \in Picks(s) :
        /\ holder' = [r \in Row |-> IF r[1] = "job" /\ r[2] \in S THEN s ELSE holder[r]]
        /\ written' = [r \in Row |-> IF r[1] = "job" /\ r[2] \in S
                                     THEN JobWritten(t, written[r]) ELSE written[r]]
        /\ Goto(s, IF S = {} THEN Return(t) ELSE Step([t EXCEPT !.jobs = S]))
  BY DEF PickExpired
<1> DEFINE u == IF S = {} THEN Return(t) ELSE Step([t EXCEPT !.jobs = S])
<1>3. t \in Transaction /\ t.place = 1 /\ Shaped(t) /\ HeldFits(s)
  BY <1>1, StatementAt DEF TxnInv, TxnTypeOK, SessionInv
<1>4. t.phase # "raise" /\ ~Raising(s) /\ t.jobs = {} /\ advisory # s
  BY <1>1, <1>3 DEF Shaped, OneJobCalls, Raising, TxnInv, ClaimsInTurn, Turns
<1>5. \A j \in Job : holder[JobOf(j)] # s /\ holder[MarketOf(j)] # s
  BY <1>1, <1>3, <1>4 DEF HeldFits, JobFits, MarketFits, JobPlace
<1>6. S \in SUBSET Job
  BY DEF Picks
<1>7. \A j \in S : /\ holder[JobOf(j)] = Nobody
                   /\ stored[JobOf(j)].state = "running" /\ stored[JobOf(j)].lease < 0
  <2> SUFFICES ASSUME NEW j \in S
               PROVE  /\ holder[JobOf(j)] = Nobody
                      /\ stored[JobOf(j)].state = "running" /\ stored[JobOf(j)].lease < 0
    OBVIOUS
  <2>1. /\ Lockable(s, JobOf(j)) /\ stored[JobOf(j)].state = "running"
        /\ stored[JobOf(j)].lease + t.age < 0
    BY DEF Picks
  <2>2. t.age \in Nat
    BY <1>3, TxnAssumption DEF Transaction
  <2>3. stored[JobOf(j)].lease \in Int
    BY <1>6, TxnAssumption DEF TxnInv, TxnTypeOK, JobRow, Never
  <2> QED BY <1>5, <1>6, <2>1, <2>2, <2>3 DEF Lockable
<1>8. /\ u \in Transaction /\ u.call = "requeue" /\ u.worker = t.worker /\ u.jobs = S
      /\ u.place \in {2, 4} /\ u.phase = "start" /\ u.todo = {} /\ (u.place = 4 => S = {})
  <2>1. CASE S = {}
    BY <1>1, <1>3, <1>4, <2>1, Returned
  <2>2. CASE S # {}
    <3> DEFINE w == [t EXCEPT !.jobs = S]
    <3>1. /\ w \in Transaction /\ w.call = "requeue" /\ w.worker = t.worker /\ w.jobs = S
          /\ w.place = 1
      BY <1>1, <1>3, <1>6 DEF Transaction
    <3> HIDE DEF w
    <3>2. u = Step(w)
      BY <2>2 DEF w
    <3> HIDE DEF u
    <3> QED BY <3>1, <3>2, Stepped
  <2> QED BY <2>1, <2>2
<1>9. tx' = [tx EXCEPT ![s] = u] /\ tx'[s] = u
  BY <1>2 DEF Goto, TxnInv, TxnTypeOK
<1> HIDE DEF u
<1>10. \A j \in Job : /\ holder'[JobOf(j)] = IF j \in S THEN s ELSE holder[JobOf(j)]
                      /\ written'[JobOf(j)] = IF j \in S THEN Lost("queued") ELSE written[JobOf(j)]
                      /\ holder'[MarketOf(j)] = holder[MarketOf(j)]
                      /\ written'[MarketOf(j)] = written[MarketOf(j)]
  <2>1. \A row : JobWritten(t, row) = Lost("queued")
    BY <1>1 DEF JobWritten
  <2> QED BY <1>2, <2>1, Rows
<1>11. Moves(s, u)
  <2>1. \A r \in Row : \/ holder'[r] = holder[r] /\ written'[r] = written[r]
                       \/ holder[r] \in {Nobody, s} /\ holder'[r] = s
    <3> SUFFICES ASSUME NEW j \in Job
                 PROVE  \A r \in {JobOf(j), MarketOf(j)} :
                          \/ holder'[r] = holder[r] /\ written'[r] = written[r]
                          \/ holder[r] \in {Nobody, s} /\ holder'[r] = s
      BY Rows
    <3> QED BY <1>7, <1>10
  <2>2. written' = [r \in Row |-> written'[r]] /\ holder' = [r \in Row |-> holder'[r]]
    BY <1>2
  <2>3. \A j \in Job : written'[JobOf(j)] \in JobRow /\ written'[MarketOf(j)] \in MarketRow
    BY <1>10, LostType DEF TxnInv, TxnTypeOK
  <2>4. \A j \in Job : stored[JobOf(j)].state = "absent" =>
          holder'[JobOf(j)] # s /\ holder'[MarketOf(j)] = holder[MarketOf(j)]
    BY <1>5, <1>7, <1>10
  <2>5. Clean(s, u)
    BY <1>7, <1>8, OldJobs
  <2>6. advisory' = advisory /\ stored' = stored /\ advisory' # s /\ u.call \notin Turns
    BY <1>1, <1>4, <1>8 DEF Turns
  <2> QED BY <1>9, <2>1, <2>2, <2>3, <2>4, <2>5, <2>6 DEF Moves
<1>12. Shaped(u)
  BY <1>8, Calls DEF Shaped, OneJobCalls, WorkerCall, Turns
<1>13. HeldFits(s)'
  <2> SUFFICES ASSUME NEW j \in S
               PROVE  JobFits(u, stored[JobOf(j)], Lost("queued"))
    BY <1>1, <1>5, <1>8, <1>9, <1>10 DEF HeldFits, OneJobCalls
  <2>1. u.place > JobPlace("requeue")
    BY <1>8 DEF JobPlace
  <2> QED BY <1>6, <1>7, <1>8, <2>1 DEF JobFits, Outcome
<1>14. Keeps(s)'
  <2>1. \A j \in u.jobs : holder'[JobOf(j)] = s
    BY <1>6, <1>8, <1>10
  <2>2. \A j \in Job : ~(holder'[JobOf(j)] = s /\ (j \notin u.jobs \/ u.place >= 3))
    BY <1>5, <1>8, <1>10
  <2> QED BY <1>8, <1>9, <2>1, <2>2 DEF Keeps
<1> QED BY <1>8, <1>9, <1>11, <1>12, <1>13, <1>14, MoveKeeps DEF SessionInv

-----------------------------------------------------------------------------
(* The clock, and the ends of transactions *)

\* A tick later a row is what it was, but for its lease.
Aged(row) == IF row.lease > Never THEN [row EXCEPT !.lease = @ - 1] ELSE row

LEMMA AgedRow ==
  ASSUME NEW row \in JobRow
  PROVE  /\ Aged(row) \in JobRow /\ Aged(row).state = row.state /\ Aged(row).owner = row.owner
         /\ Aged(row).lease = (IF row.lease > Never THEN row.lease - 1 ELSE row.lease)
         /\ row.lease < 0 => Aged(row).lease < 0
         /\ \A state : row = Lost(state) => Aged(row) = row
<1>1. row.lease \in Never .. LeaseTime /\ Never \in Int /\ LeaseTime \in Int
  BY TxnAssumption DEF JobRow, Never
<1>2. CASE row.lease > Never
  <2>1. row.lease - 1 \in Never .. LeaseTime
    BY <1>1, <1>2
  <2>2. /\ [row EXCEPT !.lease = @ - 1] \in JobRow /\ [row EXCEPT !.lease = @ - 1].state = row.state
        /\ [row EXCEPT !.lease = @ - 1].owner = row.owner
        /\ [row EXCEPT !.lease = @ - 1].lease = row.lease - 1
    BY <2>1 DEF JobRow
  <2>3. \A state : row # Lost(state)
    BY <1>1, <1>2 DEF Lost
  <2> QED BY <1>1, <1>2, <2>2, <2>3 DEF Aged
<1>3. CASE ~(row.lease > Never)
  BY <1>3 DEF Aged
<1> QED BY <1>2, <1>3

LEMMA TickRows ==
  ASSUME TxnInv, Tick
  PROVE  /\ \A j \in Job : /\ stored'[JobOf(j)] = Aged(stored[JobOf(j)])
                           /\ written'[JobOf(j)] = Aged(written[JobOf(j)])
                           /\ stored'[MarketOf(j)] = stored[MarketOf(j)]
                           /\ written'[MarketOf(j)] = written[MarketOf(j)]
         /\ \A s \in Session : tx'[s] = (IF UsesNow(s) /\ tx[s].phase # "raise"
                                         THEN [tx[s] EXCEPT !.age = @ + 1] ELSE tx[s])
BY Rows DEF Tick, Aged

LEMMA TickSession ==
  ASSUME TxnInv, Tick, NEW s \in Session
  PROVE  /\ tx'[s] \in Transaction
         /\ tx'[s].call = tx[s].call /\ tx'[s].worker = tx[s].worker /\ tx'[s].jobs = tx[s].jobs
         /\ tx'[s].place = tx[s].place /\ tx'[s].phase = tx[s].phase /\ tx'[s].todo = tx[s].todo
         /\ tx[s].phase = "raise" \/ tx[s].call = "none" => tx'[s] = tx[s]
<1>1. tx[s] \in Transaction /\ tx[s].age < MaxAge
  BY DEF TxnInv, TxnTypeOK, Tick
<1>2. tx[s].age + 1 \in 0 .. MaxAge
  BY <1>1, TxnAssumption DEF Transaction
<1> DEFINE u == [tx[s] EXCEPT !.age = @ + 1]
<1>3. /\ u \in Transaction
      /\ u.call = tx[s].call /\ u.worker = tx[s].worker /\ u.jobs = tx[s].jobs
      /\ u.place = tx[s].place /\ u.phase = tx[s].phase /\ u.todo = tx[s].todo
  BY <1>1, <1>2 DEF Transaction
<1> HIDE DEF u
<1>4. tx'[s] = (IF UsesNow(s) /\ tx[s].phase # "raise" THEN u ELSE tx[s])
  BY TickRows DEF u
<1>5. tx[s].call = "none" => ~UsesNow(s)
  BY DEF UsesNow
<1> QED BY <1>1, <1>3, <1>4, <1>5

LEMMA TickKeeps ==
  ASSUME TxnInv, Tick
  PROVE  TxnInv'
<1>1. holder' = holder /\ advisory' = advisory
  BY DEF Tick
<1>2. \A j \in Job : stored[JobOf(j)] \in JobRow /\ written[JobOf(j)] \in JobRow
                     /\ stored[MarketOf(j)] \in MarketRow /\ written[MarketOf(j)] \in MarketRow
  BY DEF TxnInv, TxnTypeOK
<1>3. \A j \in Job : stored'[JobOf(j)].state = stored[JobOf(j)].state
                     /\ stored'[MarketOf(j)] = stored[MarketOf(j)]
  BY <1>2, TickRows, AgedRow
<1>4. TxnTypeOK'
  <2>1. \A j \in Job : stored'[JobOf(j)] \in JobRow /\ stored'[MarketOf(j)] \in MarketRow
                       /\ written'[JobOf(j)] \in JobRow /\ written'[MarketOf(j)] \in MarketRow
    BY <1>2, TickRows, AgedRow
  <2>2. tx' \in [Session -> Transaction]
    <3>1. tx' = [s \in Session |-> tx'[s]]
      BY DEF Tick
    <3> QED BY <3>1, TickSession
  <2>3. \A r \in Row : holder'[r] = Nobody => written'[r] = stored'[r]
    <3> SUFFICES ASSUME NEW j \in Job
                 PROVE  \A r \in {JobOf(j), MarketOf(j)} : holder'[r] = Nobody => written'[r] = stored'[r]
      BY Rows
    <3> QED BY <1>1, TickRows, Rows DEF TxnInv, TxnTypeOK
  <2>4. \A s \in Session : tx'[s].call = "none" =>
          tx'[s] = Idle /\ advisory' # s /\ \A r \in Row : holder'[r] # s
    BY <1>1, TickSession DEF TxnInv, TxnTypeOK
  <2> QED BY <1>1, <2>1, <2>2, <2>3, <2>4 DEF TxnInv, TxnTypeOK
<1>5. Tables'
  BY DEF Tick, Tables
<1>6. ASSUME NEW s \in Session
      PROVE  SessionInv(s)'
  <2> DEFINE t == tx[s]
             u == tx'[s]
  <2>1. /\ u \in Transaction /\ t \in Transaction
        /\ u.call = t.call /\ u.worker = t.worker /\ u.jobs = t.jobs
        /\ u.place = t.place /\ u.phase = t.phase /\ u.todo = t.todo
        /\ t.phase = "raise" => u = t
    BY TickSession DEF TxnInv, TxnTypeOK
  <2>2. Shaped(t) /\ HeldFits(s) /\ Keeps(s)
    BY DEF TxnInv, SessionInv
  <2> HIDE DEF u
  <2>3. Shaped(u)
    BY <2>1, <2>2 DEF Shaped
  <2>4. Raising(s)' = Raising(s)
    BY <2>1 DEF Raising, u
  <2>5. HeldFits(s)'
    <3> SUFFICES ASSUME NEW j \in Job, ~Raising(s)
                 PROVE  /\ holder[JobOf(j)] = s =>
                             /\ JobFits(u, stored'[JobOf(j)], written'[JobOf(j)])
                             /\ u.call \in OneJobCalls => j \in u.jobs
                        /\ holder[MarketOf(j)] = s =>
                             /\ MarketFits(u, stored'[MarketOf(j)], written'[MarketOf(j)])
                             /\ u.call \in OneJobCalls => j \in u.jobs
                             /\ u.call \notin {"complete", "fail"} => holder[JobOf(j)] = s
      BY <1>1, <2>4 DEF HeldFits, u
    <3> DEFINE old == stored[JobOf(j)]
               new == written[JobOf(j)]
    <3>1. old \in JobRow /\ new \in JobRow
      BY <1>2
    <3>2. ASSUME JobFits(t, old, new)
          PROVE  JobFits(u, Aged(old), Aged(new))
      <4>1. /\ Aged(old).state = old.state /\ Aged(old).owner = old.owner
            /\ Aged(new).state = new.state /\ Aged(new).owner = new.owner
            /\ old.lease < 0 => Aged(old).lease < 0
            /\ \A state : new = Lost(state) => Aged(new) = Lost(state)
            /\ old = NoRow => Aged(old) = NoRow
            /\ old = new => Aged(old) = Aged(new)
        BY <3>1, AgedRow DEF NoRow, Lost
      <4> QED BY <2>1, <3>2, <4>1 DEF JobFits
    <3>3. MarketFits(t, stored[MarketOf(j)], written[MarketOf(j)]) =>
            MarketFits(u, stored'[MarketOf(j)], written'[MarketOf(j)])
      BY <2>1, TickRows DEF MarketFits
    <3>4. stored'[JobOf(j)] = Aged(old) /\ written'[JobOf(j)] = Aged(new)
      BY TickRows
    <3> QED BY <2>1, <2>2, <3>2, <3>3, <3>4 DEF HeldFits
  <2>6. Keeps(s)'
    BY <1>1, <2>1, <2>2, <2>4 DEF Keeps, u
  <2> QED BY <2>3, <2>5, <2>6 DEF SessionInv, u
<1>7. Known'
  <2>1. \A s \in Session : /\ tx'[s].jobs = tx[s].jobs /\ tx'[s].todo = tx[s].todo
                           /\ tx'[s].call = tx[s].call
                           /\ tx[s].jobs \subseteq Job /\ tx[s].todo \subseteq Job
    BY TickSession DEF TxnInv, TxnTypeOK, Transaction
  <2>2. Known
    BY DEF TxnInv
  <2>3. \A j \in Job : stored[JobOf(j)] = NoRow => stored'[JobOf(j)] = NoRow
    BY <1>2, TickRows, AgedRow DEF NoRow, Lost
  <2>4. ASSUME NEW s \in Session
        PROVE  Clean(s, tx[s])'
    BY <1>3, <2>1, <2>2, <2>3 DEF Known, Clean, Named
  <2>5. \A j \in Job : stored'[JobOf(j)].state = "absent" =>
          /\ \A s \in Session : holder'[JobOf(j)] = s => tx'[s].call = "create" /\ j \in tx'[s].jobs
          /\ holder'[MarketOf(j)] = Nobody /\ stored'[MarketOf(j)] = "waiting"
    BY <1>1, <1>3, <2>1, <2>2 DEF Known
  <2> QED BY <2>4, <2>5 DEF Known
<1>8. ClaimsInTurn'
  BY <1>1, TickSession DEF TxnInv, ClaimsInTurn
<1>9. CompletedRowsHold' /\ WaitingRowsAreReset'
  BY <1>3 DEF TxnInv, CompletedRowsHold, WaitingRowsAreReset
<1> QED BY <1>4, <1>5, <1>6, <1>7, <1>8, <1>9 DEF TxnInv

\* What a commit can make of a job: t the transaction, the job's row and its
\* marketplace rows before and after
Commits(t, old, new, oldMarket, newMarket) ==
  \/ new = old /\ newMarket = oldMarket
  \/ t.call = "create" /\ old = NoRow /\ new = Lost("queued") /\ newMarket = oldMarket
  \/ /\ t.call = "claim" /\ t.worker \in Worker
     /\ old.state = "queued" /\ new.state = "running" /\ new.owner = t.worker
     /\ newMarket = oldMarket
  \/ /\ old.state = "running" /\ old.owner = t.worker /\ t.worker \in Worker
     /\ \/ /\ t.call = "beat" /\ new.state = "running" /\ new.owner = old.owner
           /\ newMarket = oldMarket
        \/ t.call = "update" /\ new = old /\ newMarket \in Reported
        \/ t.call = "complete" /\ new = Lost("completed") /\ newMarket = oldMarket /\ newMarket \in Completable
        \/ t.call = "fail" /\ new = Lost("failed") /\ newMarket \in {oldMarket, "failed"}
        \/ t.call = "release" /\ new = Lost("queued") /\ newMarket = "waiting"
  \/ /\ t.call = "requeue" /\ old.state = "running" /\ old.lease < 0
     /\ new = Lost("queued") /\ newMarket = "waiting"
  \/ /\ t.call = "cancel" /\ old.state = "queued"
     /\ new = Lost("cancelled") /\ newMarket = "skipped"

LEMMA CommitRows ==
  ASSUME TxnInv, NEW s \in Session, Commit(s), NEW j \in Job
  PROVE  /\ stored'[JobOf(j)] = (IF holder[JobOf(j)] = s THEN written[JobOf(j)] ELSE stored[JobOf(j)])
         /\ Commits(tx[s], stored[JobOf(j)], stored'[JobOf(j)], stored[MarketOf(j)], stored'[MarketOf(j)])
<1> DEFINE t == tx[s]
           old == stored[JobOf(j)]
           new == stored'[JobOf(j)]
<1>1. /\ stored'[JobOf(j)] = (IF holder[JobOf(j)] = s THEN written[JobOf(j)] ELSE stored[JobOf(j)])
      /\ stored'[MarketOf(j)] =
           (IF holder[MarketOf(j)] = s THEN written[MarketOf(j)] ELSE stored[MarketOf(j)])
  BY Rows DEF Commit, Close
<1>2. t \in Transaction /\ Shaped(t) /\ HeldFits(s) /\ Keeps(s)
  BY DEF TxnInv, TxnTypeOK, SessionInv
<1>3. /\ t.call # "none"
      /\ \/ t.place = 4
         \/ t.place = 3 /\ t.call \notin Turns
         \/ t.place = 2 /\ t.call \in {"beat", "request"}
  BY <1>2, StatementAt DEF Commit
<1>4. t.phase # "raise" /\ ~Raising(s)
  BY <1>2, <1>3 DEF Shaped, Raising
<1>5. t.call \in OneJobCalls => t.place \in {2, 3} /\ t.worker \in Worker \cup {Nobody}
  BY <1>2, <1>3, <1>4, Active DEF Transaction
<1>6. holder[JobOf(j)] = s => JobFits(t, old, new)
  BY <1>1, <1>2, <1>4 DEF HeldFits
<1>7. holder[MarketOf(j)] = s => MarketFits(t, stored[MarketOf(j)], stored'[MarketOf(j)])
  BY <1>1, <1>2, <1>4 DEF HeldFits
<1>8. holder[MarketOf(j)] = s => holder[JobOf(j)] = s
  <2> SUFFICES ASSUME holder[MarketOf(j)] = s, t.call \in {"complete", "fail"}
               PROVE  holder[JobOf(j)] = s
    BY <1>2, <1>4 DEF HeldFits
  <2>1. t.call \in OneJobCalls /\ t.place = 3 /\ t.call \notin Turns /\ t.call \in Call
    BY <1>3, <1>5, Calls DEF OneJobCalls, Turns
  <2>2. j \in t.jobs
    BY <1>2, <1>4, <2>1 DEF HeldFits
  <2> QED BY <1>2, <1>4, <2>1, <2>2 DEF Keeps, JobPlace
<1>9. holder[JobOf(j)] = s /\ t.call \in {"update", "complete", "release", "cancel", "requeue"} =>
        holder[MarketOf(j)] = s
  <2>1. t.call \in {"update", "complete", "release", "cancel"} => t.place = 3 /\ t.call \in OneJobCalls
    BY <1>3, <1>5, Calls DEF OneJobCalls
  <2>2. t.call = "requeue" => t.place >= 3
    BY <1>3
  <2> QED BY <1>2, <1>4, <2>1, <2>2 DEF HeldFits, Keeps
<1>10. t.call \in Call
  BY <1>2, <1>3 DEF Transaction
<1>11. t.call \in {"claim", "beat", "update", "complete", "fail", "release"} => t.worker \in Worker
  BY <1>2, <1>4, Calls DEF Shaped, WorkerCall, WebCall
<1> SUFFICES Commits(t, old, new, stored[MarketOf(j)], stored'[MarketOf(j)])
  BY <1>1
<1>12. CASE holder[JobOf(j)] # s
  BY <1>1, <1>8, <1>12 DEF Commits
<1>13. CASE holder[JobOf(j)] = s
  <2>1. JobFits(t, old, new)
    BY <1>6, <1>13
  <2>2. CASE t.call = "claim"
    <3>1. holder[MarketOf(j)] # s
      BY <1>7, <2>2 DEF MarketFits
    <3>2. stored'[MarketOf(j)] = stored[MarketOf(j)]
      BY <1>1, <3>1
    <3>3. new = old \/ (old.state = "queued" /\ new.state = "running" /\ new.owner = t.worker)
      BY <2>1, <2>2 DEF JobFits
    <3> QED BY <1>11, <2>2, <3>2, <3>3 DEF Commits
  <2>3. CASE t.call = "beat"
    <3>1. holder[MarketOf(j)] # s
      BY <1>7, <2>3 DEF MarketFits
    <3>2. stored'[MarketOf(j)] = stored[MarketOf(j)]
      BY <1>1, <3>1
    <3>3. old.state = "running" /\ old.owner = t.worker /\ new.state = "running" /\ new.owner = old.owner
      BY <2>1, <2>3 DEF JobFits
    <3> QED BY <1>11, <2>3, <3>2, <3>3 DEF Commits
  <2>4. CASE t.call \in {"update", "complete", "release", "cancel", "requeue"}
    <3>1. MarketFits(t, stored[MarketOf(j)], stored'[MarketOf(j)])
      BY <1>7, <1>9, <1>13, <2>4
    <3> QED BY <1>11, <2>1, <2>4, <3>1 DEF JobFits, MarketFits, Commits, Outcome
  <2>6. CASE t.call \in {"create", "request"}
    <3>1. holder[MarketOf(j)] # s
      BY <1>7, <2>6 DEF MarketFits
    <3>2. stored'[MarketOf(j)] = stored[MarketOf(j)]
      BY <1>1, <3>1
    <3>3. new = old \/ (t.call = "create" /\ old = NoRow /\ new = Lost("queued"))
      BY <2>1, <2>6 DEF JobFits
    <3> QED BY <3>2, <3>3 DEF Commits
  <2>5. CASE t.call = "fail"
    <3>1. stored'[MarketOf(j)] \in {stored[MarketOf(j)], "failed"}
      BY <1>1, <1>7, <2>5 DEF MarketFits
    <3> QED BY <1>11, <2>1, <2>5, <3>1 DEF JobFits, Commits, Outcome
  <2> QED BY <1>10, <2>2, <2>3, <2>4, <2>5, <2>6, Calls
<1> QED BY <1>12, <1>13

\* However a transaction ends, the others go on as they were.
LEMMA CloseKeeps ==
  ASSUME TxnInv, NEW s \in Session, NEW rows, Close(s, rows), tx[s].call # "none",
         \A j \in Job : stored'[JobOf(j)] \in JobRow /\ stored'[MarketOf(j)] \in MarketRow,
         \A j \in Job : stored[JobOf(j)].state # "absent" => stored'[JobOf(j)].state # "absent",
         CompletedRowsHold', WaitingRowsAreReset'
  PROVE  TxnInv'
<1>1. /\ stored' = [r \in Row |-> IF holder[r] = s THEN rows[r] ELSE stored[r]]
      /\ written' = [r \in Row |-> IF holder[r] = s THEN rows[r] ELSE written[r]]
      /\ holder' = [r \in Row |-> IF holder[r] = s THEN Nobody ELSE holder[r]]
      /\ advisory' = IF advisory = s THEN Nobody ELSE advisory
      /\ tx' = [tx EXCEPT ![s] = Idle]
  BY DEF Close, Goto
<1>2. \A r \in Row : /\ stored'[r] = (IF holder[r] = s THEN rows[r] ELSE stored[r])
                     /\ written'[r] = (IF holder[r] = s THEN rows[r] ELSE written[r])
                     /\ holder'[r] = (IF holder[r] = s THEN Nobody ELSE holder[r])
  BY <1>1
<1>3. tx'[s] = Idle /\ \A q \in Session \ {s} : tx'[q] = tx[q]
  BY <1>1 DEF TxnInv, TxnTypeOK
<1>4. TxnTypeOK'
  <2>1. \A j \in Job : written'[JobOf(j)] \in JobRow /\ written'[MarketOf(j)] \in MarketRow
    <3> SUFFICES ASSUME NEW j \in Job
                 PROVE  written'[JobOf(j)] \in JobRow /\ written'[MarketOf(j)] \in MarketRow
      OBVIOUS
    <3>1. /\ written'[JobOf(j)] \in {stored'[JobOf(j)], written[JobOf(j)]}
          /\ written'[MarketOf(j)] \in {stored'[MarketOf(j)], written[MarketOf(j)]}
      BY <1>2, Rows
    <3> QED BY <3>1 DEF TxnInv, TxnTypeOK
  <2>2. holder' \in [Row -> Session \cup {Nobody}]
    BY <1>1 DEF TxnInv, TxnTypeOK
  <2>3. advisory' \in Session \cup {Nobody} /\ tx' \in [Session -> Transaction]
    BY <1>1, IdleType DEF TxnInv, TxnTypeOK
  <2>4. \A r \in Row : holder'[r] = Nobody => written'[r] = stored'[r]
    BY <1>2 DEF TxnInv, TxnTypeOK
  <2>5. ASSUME NEW q \in Session, tx'[q].call = "none"
        PROVE  tx'[q] = Idle /\ advisory' # q /\ \A r \in Row : holder'[r] # q
    <3>1. CASE q = s
      BY <1>1, <1>2, <1>3, <3>1, TxnAssumption
    <3>2. CASE q # s
      BY <1>1, <1>2, <1>3, <2>5, <3>2, TxnAssumption DEF TxnInv, TxnTypeOK
    <3> QED BY <3>1, <3>2
  <2> QED BY <2>1, <2>2, <2>3, <2>4, <2>5 DEF TxnTypeOK
<1>5. Tables'
  BY <1>1 DEF Tables
<1>6. ASSUME NEW q \in Session
      PROVE  SessionInv(q)'
  <2>1. CASE q = s
    <3>1. \A r \in Row : holder'[r] # s
      BY <1>2, TxnAssumption
    <3>2. Shaped(Idle)
      BY IdleType, Calls DEF Shaped, OneJobCalls, WorkerCall, Turns
    <3>3. HeldFits(s)'
      BY <3>1, Rows DEF HeldFits
    <3>4. Keeps(s)'
      BY <1>3, IdleType, Calls DEF Keeps
    <3> QED BY <1>3, <2>1, <3>2, <3>3, <3>4 DEF SessionInv
  <2>2. CASE q # s
    <3>1. \A r \in Row : /\ holder'[r] = q <=> holder[r] = q
                         /\ holder[r] = q => stored'[r] = stored[r] /\ written'[r] = written[r]
      BY <1>2, <2>2, TxnAssumption
    <3> QED BY <1>3, <2>2, <3>1, OthersKeep DEF TxnInv, TxnTypeOK
  <2> QED BY <2>1, <2>2
<1>7. Known'
  <2>1. ASSUME NEW q \in Session
        PROVE  Clean(q, tx[q])'
    <3>1. CASE q = s
      BY <1>3, <3>1, IdleType DEF Clean, Named
    <3>2. CASE q # s
      <4>1. Clean(q, tx[q]) /\ tx[q].jobs \subseteq Job /\ tx[q].todo \subseteq Job /\ tx'[q] = tx[q]
        BY <1>3, <3>2 DEF TxnInv, TxnTypeOK, Transaction, Known
      <4>2. \A j \in Named(tx[q]) : stored'[JobOf(j)].state # "absent"
        BY <4>1 DEF Clean, Named
      <4>3. ASSUME tx[q].call = "create", NEW j \in tx[q].jobs
            PROVE  /\ stored'[JobOf(j)] = NoRow
                   /\ \A p \in Session \ {q} : tx'[p].call = "create" => j \notin tx'[p].jobs
        <5>1. /\ j \in Job /\ stored[JobOf(j)] = NoRow /\ stored[JobOf(j)].state = "absent"
              /\ \A p \in Session \ {q} : tx[p].call = "create" => j \notin tx[p].jobs
          BY <4>1, <4>3 DEF Clean, NoRow
        <5>2. holder[JobOf(j)] # s
          BY <3>2, <5>1 DEF TxnInv, Known
        <5>3. stored'[JobOf(j)] = stored[JobOf(j)]
          BY <1>2, <5>1, <5>2, Rows
        <5> QED BY <1>3, <5>1, <5>3, IdleType
      <4> QED BY <4>1, <4>2, <4>3 DEF Clean
    <3> QED BY <3>1, <3>2
  <2>2. ASSUME NEW j \in Job, stored'[JobOf(j)].state = "absent"
        PROVE  /\ \A q \in Session : holder'[JobOf(j)] = q => tx'[q].call = "create" /\ j \in tx'[q].jobs
               /\ holder'[MarketOf(j)] = Nobody /\ stored'[MarketOf(j)] = "waiting"
    <3>1. /\ \A q \in Session : holder[JobOf(j)] = q => tx[q].call = "create" /\ j \in tx[q].jobs
          /\ holder[MarketOf(j)] = Nobody /\ stored[MarketOf(j)] = "waiting"
      BY <2>2 DEF TxnInv, Known
    <3>2. ASSUME NEW q \in Session, holder'[JobOf(j)] = q
          PROVE  tx'[q].call = "create" /\ j \in tx'[q].jobs
      <4>1. q # s /\ holder[JobOf(j)] = q
        BY <1>2, <3>2, Rows, TxnAssumption
      <4> QED BY <1>3, <3>1, <4>1
    <3> QED BY <1>2, <3>1, <3>2, Rows, TxnAssumption
  <2> QED BY <2>1, <2>2 DEF Known
<1>8. ClaimsInTurn'
  <2> SUFFICES ASSUME NEW q \in Session
               PROVE  advisory' = q <=> tx'[q].call \in Turns /\ tx'[q].place > 1
    BY DEF ClaimsInTurn
  <2>1. CASE q = s
    BY <1>1, <1>3, <2>1, IdleType, TxnAssumption
  <2>2. CASE q # s
    BY <1>1, <1>3, <2>2, TxnAssumption DEF TxnInv, ClaimsInTurn
  <2> QED BY <2>1, <2>2
<1> QED BY <1>4, <1>5, <1>6, <1>7, <1>8 DEF TxnInv

LEMMA CommitKeeps ==
  ASSUME TxnInv, NEW s \in Session, Commit(s)
  PROVE  TxnInv'
<1>1. tx[s].call # "none" /\ Close(s, written)
  BY DEF Commit
<1>2. \A j \in Job : stored'[JobOf(j)] \in JobRow /\ stored'[MarketOf(j)] \in MarketRow
  BY <1>1, Rows DEF Close, TxnInv, TxnTypeOK
<1>3. \A j \in Job : Commits(tx[s], stored[JobOf(j)], stored'[JobOf(j)],
                             stored[MarketOf(j)], stored'[MarketOf(j)])
  BY CommitRows
<1>4. \A j \in Job : /\ stored[JobOf(j)].state # "absent" => stored'[JobOf(j)].state # "absent"
                     /\ stored'[JobOf(j)].state = "completed" => stored'[MarketOf(j)] \in Completable
                     /\ stored'[JobOf(j)].state = "queued" => stored'[MarketOf(j)] = "waiting"
  <2> SUFFICES ASSUME NEW j \in Job
               PROVE  /\ stored[JobOf(j)].state # "absent" => stored'[JobOf(j)].state # "absent"
                      /\ stored'[JobOf(j)].state = "completed" => stored'[MarketOf(j)] \in Completable
                      /\ stored'[JobOf(j)].state = "queued" => stored'[MarketOf(j)] = "waiting"
    OBVIOUS
  <2>1. /\ stored[JobOf(j)].state = "completed" => stored[MarketOf(j)] \in Completable
        /\ stored[JobOf(j)].state = "queued" => stored[MarketOf(j)] = "waiting"
    BY DEF TxnInv, CompletedRowsHold, WaitingRowsAreReset
  <2>2. NoRow.state = "absent" /\ \A state : Lost(state).state = state
    BY DEF Lost, NoRow
  <2>3. stored[JobOf(j)].state = "absent" => stored[MarketOf(j)] = "waiting"
    BY DEF TxnInv, Known
  <2> QED BY <1>3, <2>1, <2>2, <2>3 DEF Commits
<1>5. CompletedRowsHold' /\ WaitingRowsAreReset'
  BY <1>4 DEF CompletedRowsHold, WaitingRowsAreReset
<1> QED BY <1>1, <1>2, <1>4, <1>5, CloseKeeps

\* A transaction that is rolled back leaves the committed rows as they were.
LEMMA Undone ==
  ASSUME TxnInv, NEW s \in Session, Close(s, stored)
  PROVE  stored' = stored
BY DEF Close, TxnInv, Tables

LEMMA UndoKeeps ==
  ASSUME TxnInv, NEW s \in Session, Close(s, stored), tx[s].call # "none"
  PROVE  TxnInv'
<1>1. stored' = stored
  BY Undone
<1>2. CompletedRowsHold' /\ WaitingRowsAreReset'
  BY <1>1 DEF TxnInv, CompletedRowsHold, WaitingRowsAreReset
<1>3. \A j \in Job : stored'[JobOf(j)] \in JobRow /\ stored'[MarketOf(j)] \in MarketRow
  BY <1>1 DEF TxnInv, TxnTypeOK
<1> QED BY <1>1, <1>2, <1>3, CloseKeeps

\* The steps of a session that leave the committed rows alone
Silent(s) ==
  \/ TakeAdvisory(s) \/ WaitForJob(s) \/ LockJob(s) \/ LockMarket(s) \/ SkipMarket(s)
  \/ StartLive(s) \/ LockLive(s) \/ PickQueued(s) \/ PickExpired(s)
  \/ StartActive(s) \/ LockActive(s) \/ Insert(s)

\* Every step, by what it does to the committed rows
LEMMA StepCases ==
  ASSUME TxnInv, TxnNext
  PROVE  \/ Tick
         \/ \E s \in Session : Commit(s)
         \/ \E s \in Session : Silent(s)
         \/ \E s \in Session : tx[s].call # "none" /\ Close(s, stored)
         \/ \E s \in Session, j \in Job, c \in Call, w \in Worker \cup {Nobody} :
              (c \in WorkerCall => w \in Worker) /\ Begin(s, c, w, j)
<1>1. ASSUME NEW s \in Session, Rollback(s) \/ Kill(s)
      PROVE  tx[s].call # "none" /\ Close(s, stored)
  <2>1. tx[s].phase = "raise" => tx[s].call # "none"
    BY Calls DEF TxnInv, SessionInv, Shaped, OneJobCalls
  <2> QED BY <1>1, <2>1 DEF Rollback, Kill
<1>2. ASSUME NEW s \in Session, Proceed(s)
      PROVE  Commit(s) \/ Silent(s) \/ Rollback(s)
  BY <1>2 DEF Proceed, Silent
<1>3. \A c \in WebCall \cup {"requeue"} : c \in Call /\ c \notin WorkerCall
  BY Calls DEF WorkerCall, WebCall
<1>4. WorkerCall \subseteq Call
  BY DEF WorkerCall
<1> QED BY <1>1, <1>2, <1>3, <1>4 DEF TxnNext

LEMMA SilentKeeps ==
  ASSUME TxnInv, NEW s \in Session, Silent(s)
  PROVE  TxnInv' /\ stored' = stored
<1>1. TxnInv'
  BY TakeAdvisoryKeeps, WaitForJobKeeps, LockJobKeeps, LockMarketKeeps, SkipMarketKeeps,
     StartLiveKeeps, LockLiveKeeps, PickQueuedKeeps, PickExpiredKeeps, StartActiveKeeps,
     LockActiveKeeps, InsertKeeps DEF Silent
<1>2. stored' = stored
  BY DEF Silent, TakeAdvisory, WaitForJob, LockJob, LockMarket, SkipMarket, StartLive, LockLive,
         PickQueued, PickExpired, StartActive, LockActive, Insert, rowVars
<1> QED BY <1>1, <1>2

LEMMA TxnInvInit == TxnInit => TxnInv
<1> SUFFICES ASSUME TxnInit
             PROVE  TxnInv
  OBVIOUS
<1>1. /\ stored = [r \in Row |-> IF r[1] = "job" THEN NoRow ELSE "waiting"]
      /\ written = stored /\ holder = [r \in Row |-> Nobody] /\ advisory = Nobody
      /\ tx = [s \in Session |-> Idle]
  BY DEF TxnInit
<1>2. \A j \in Job : /\ stored[JobOf(j)] = NoRow /\ stored[MarketOf(j)] = "waiting"
                     /\ written[JobOf(j)] = NoRow /\ written[MarketOf(j)] = "waiting"
  BY <1>1, Rows
<1>3. NoRow \in JobRow /\ NoRow.state = "absent"
  BY TxnAssumption DEF NoRow, JobRow, Never
<1>4. TxnTypeOK
  <2>1. \A j \in Job : /\ stored[JobOf(j)] \in JobRow /\ stored[MarketOf(j)] \in MarketRow
                       /\ written[JobOf(j)] \in JobRow /\ written[MarketOf(j)] \in MarketRow
    BY <1>2, <1>3 DEF MarketRow
  <2>2. \A s \in Session : tx[s].call = "none" =>
          tx[s] = Idle /\ advisory # s /\ \A r \in Row : holder[r] # s
    BY <1>1, TxnAssumption
  <2>3. tx \in [Session -> Transaction]
    BY <1>1, IdleType
  <2> QED BY <1>1, <2>1, <2>2, <2>3 DEF TxnTypeOK
<1>5. Tables
  BY <1>1 DEF Tables
<1>6. ASSUME NEW s \in Session
      PROVE  SessionInv(s)
  <2>1. \A r \in Row : holder[r] # s
    BY <1>1, TxnAssumption
  <2>2. Shaped(tx[s])
    BY <1>1, IdleType, Calls DEF Shaped, OneJobCalls, WorkerCall, Turns
  <2>3. HeldFits(s)
    BY <2>1, Rows DEF HeldFits
  <2>4. Keeps(s)
    BY <1>1, IdleType, Calls DEF Keeps
  <2> QED BY <2>2, <2>3, <2>4 DEF SessionInv
<1>7. Known
  BY <1>1, <1>2, <1>3, IdleType, Rows, TxnAssumption DEF Known, Clean, Named
<1>8. ClaimsInTurn
  <2> SUFFICES ASSUME NEW s \in Session
               PROVE  advisory # s /\ ~(tx[s].place > 1)
    BY DEF ClaimsInTurn
  <2>1. tx[s] = Idle /\ advisory # s
    BY <1>1, TxnAssumption
  <2> QED BY <2>1, IdleType
<1>9. CompletedRowsHold /\ WaitingRowsAreReset
  BY <1>2, <1>3 DEF CompletedRowsHold, WaitingRowsAreReset
<1> QED BY <1>4, <1>5, <1>6, <1>7, <1>8, <1>9 DEF TxnInv

LEMMA TxnInvNext == TxnInv /\ [TxnNext]_txnVars => TxnInv'
<1> SUFFICES ASSUME TxnInv, [TxnNext]_txnVars
             PROVE  TxnInv'
  OBVIOUS
<1>1. CASE TxnNext
  BY <1>1, StepCases, TickKeeps, CommitKeeps, SilentKeeps, UndoKeeps, BeginKeeps
<1>2. CASE UNCHANGED txnVars
  <2>1. \A s \in Session : SessionInv(s)'
    BY <1>2, OthersKeep DEF txnVars, rowVars, TxnInv, TxnTypeOK
  <2>2. TxnTypeOK' /\ Tables' /\ ClaimsInTurn' /\ CompletedRowsHold' /\ WaitingRowsAreReset'
    BY <1>2 DEF txnVars, rowVars, TxnInv, TxnTypeOK, Tables, ClaimsInTurn, CompletedRowsHold,
            WaitingRowsAreReset
  <2>3. Known'
    <3>1. stored' = stored /\ holder' = holder /\ tx' = tx
      BY <1>2 DEF txnVars, rowVars
    <3>2. Known
      BY DEF TxnInv
    <3> QED BY <3>1, <3>2 DEF Known, Clean, Named
  <2> QED BY <2>1, <2>2, <2>3 DEF TxnInv
<1> QED BY <1>1, <1>2

LEMMA TxnInvAlways == TxnSpec => []TxnInv
BY TxnInvInit, TxnInvNext, PTL DEF TxnSpec

-----------------------------------------------------------------------------
(* What follows of the committed rows *)

\* Rows, transactions and locks are what their definitions say, in every interleaving:
\* whatever no transaction holds is committed, and a session without a call holds nothing.
THEOREM TxnTypes == TxnSpec => []TxnTypeOK
<1>1. TxnInv => TxnTypeOK
  BY DEF TxnInv
<1> QED BY <1>1, TxnInvAlways, PTL

\* A completed job's marketplace rows are completable, for any number of sessions:
\* mark_refresh_job_completed holds the rows it has read until it commits.
THEOREM CompletedRowsHoldAlways == TxnSpec => []CompletedRowsHold
<1>1. TxnInv => CompletedRowsHold
  BY DEF TxnInv
<1> QED BY <1>1, TxnInvAlways, PTL

\* A job that waits for a worker shows nothing of an earlier attempt: the transactions that
\* requeue it reset its marketplace rows before anybody sees it queued.
THEOREM WaitingRowsAreResetAlways == TxnSpec => []WaitingRowsAreReset
<1>1. TxnInv => WaitingRowsAreReset
  BY DEF TxnInv
<1> QED BY <1>1, TxnInvAlways, PTL

\* What a step can do to a job: time passes, or a transaction commits.
LEMMA RowSteps ==
  ASSUME TxnInv, [TxnNext]_txnVars, NEW j \in Job
  PROVE  \/ /\ stored'[JobOf(j)] \in {stored[JobOf(j)], Aged(stored[JobOf(j)])}
            /\ stored'[MarketOf(j)] = stored[MarketOf(j)]
         \/ \E s \in Session : Commits(tx[s], stored[JobOf(j)], stored'[JobOf(j)],
                                       stored[MarketOf(j)], stored'[MarketOf(j)])
<1>1. CASE UNCHANGED txnVars
  BY <1>1 DEF txnVars, rowVars
<1>2. CASE Tick
  BY <1>2, TickRows
<1>3. CASE \E s \in Session : Commit(s)
  BY <1>3, CommitRows
<1>4. CASE \E s \in Session : Silent(s)
  BY <1>4, SilentKeeps
<1>5. CASE \E s \in Session : Close(s, stored)
  BY <1>5, Undone
<1>6. CASE \E s \in Session, k \in Job, c \in Call, w \in Worker \cup {Nobody} : Begin(s, c, w, k)
  BY <1>6 DEF Begin, rowVars
<1> QED BY <1>1, <1>2, <1>3, <1>4, <1>5, <1>6, StepCases

\* Before its lease is past, nobody but the owner ends a worker's possession of a job:
\* recovery's transaction has seen an expired lease in the row it has locked.
THEOREM RecoveryNeedsExpiryAlways == TxnSpec => RecoveryNeedsExpiry
<1> DEFINE Ended == \A j \in Job : LiveAt(0, stored[JobOf(j)]) /\ stored'[JobOf(j)].state # "running" =>
                      \E s \in Session : /\ tx[s].call \in {"complete", "fail", "release"}
                                         /\ tx[s].worker = stored[JobOf(j)].owner
<1>1. TxnInv /\ [TxnNext]_txnVars => [Ended]_stored
  <2> SUFFICES ASSUME TxnInv, [TxnNext]_txnVars, NEW j \in Job,
                      LiveAt(0, stored[JobOf(j)]), stored'[JobOf(j)].state # "running"
               PROVE  \E s \in Session : /\ tx[s].call \in {"complete", "fail", "release"}
                                         /\ tx[s].worker = stored[JobOf(j)].owner
    OBVIOUS
  <2>1. /\ stored[JobOf(j)] \in JobRow /\ stored[JobOf(j)].state = "running"
        /\ ~(stored[JobOf(j)].lease < 0)
    BY TxnAssumption DEF LiveAt, TxnInv, TxnTypeOK, JobRow, Never
  <2>2. stored'[JobOf(j)] \notin {stored[JobOf(j)], Aged(stored[JobOf(j)])}
    BY <2>1, AgedRow
  <2>3. PICK s \in Session : Commits(tx[s], stored[JobOf(j)], stored'[JobOf(j)],
                                     stored[MarketOf(j)], stored'[MarketOf(j)])
    BY <2>1, <2>2, RowSteps DEF NoRow
  <2> QED BY <2>1, <2>2, <2>3 DEF Commits, NoRow
<1> QED BY <1>1, TxnInvAlways, PTL DEF TxnSpec, RecoveryNeedsExpiry

\* Whatever a late report waits for, it lands in the marketplace rows only if its worker
\* has the job when the report commits.
THEOREM ReportsAreTheOwnersAlways == TxnSpec => ReportsAreTheOwners
<1> DEFINE Owns == \A j \in Job :
      stored'[MarketOf(j)] # stored[MarketOf(j)] /\ stored'[MarketOf(j)] \notin {"waiting", "skipped"}
      => \E s \in Session : /\ tx[s].call \in {"update", "fail"}
                            /\ tx[s].worker = stored[JobOf(j)].owner
<1>1. TxnInv /\ [TxnNext]_txnVars => [Owns]_stored
  <2> SUFFICES ASSUME TxnInv, [TxnNext]_txnVars, NEW j \in Job,
                      stored'[MarketOf(j)] # stored[MarketOf(j)],
                      stored'[MarketOf(j)] \notin {"waiting", "skipped"}
               PROVE  \E s \in Session : /\ tx[s].call \in {"update", "fail"}
                                         /\ tx[s].worker = stored[JobOf(j)].owner
    OBVIOUS
  <2>1. PICK s \in Session : Commits(tx[s], stored[JobOf(j)], stored'[JobOf(j)],
                                     stored[MarketOf(j)], stored'[MarketOf(j)])
    BY RowSteps
  <2> QED BY <2>1 DEF Commits
<1> QED BY <1>1, TxnInvAlways, PTL DEF TxnSpec, ReportsAreTheOwners

\* What the transactions make of one job, whatever its lease, is what LeaseQueue promises:
\* from nobody's hands into one worker's, finished by its holder only, and then for good.
THEOREM EachJobIsPromisedAlways == TxnSpec => EachJobIsPromised
<1> DEFINE Promised == \A j \in Job : stored'[JobOf(j)] # stored[JobOf(j)] =>
                         OneJob(j)!Next \/ UNCHANGED OneJob(j)!vars
<1>1. TxnInit => \A j \in Job : OneJob(j)!Init
  <2> SUFFICES ASSUME TxnInit, NEW j \in Job
               PROVE  OneJob(j)!Init
    OBVIOUS
  <2>1. stored[JobOf(j)].state = "absent"
    BY Rows DEF TxnInit, NoRow
  <2> QED BY <2>1 DEF OneJob!Init, Stage
<1>2. TxnInv /\ [TxnNext]_txnVars => [Promised]_stored
  <2> SUFFICES ASSUME TxnInv, [TxnNext]_txnVars, NEW j \in Job, stored'[JobOf(j)] # stored[JobOf(j)]
               PROVE  OneJob(j)!Next \/ UNCHANGED OneJob(j)!vars
    OBVIOUS
  <2> DEFINE old == stored[JobOf(j)]
             new == stored'[JobOf(j)]
             market == stored[MarketOf(j)]
  <2>1. old \in JobRow
    BY DEF TxnInv, TxnTypeOK
  <2>2. CASE new.state = old.state /\ new.owner = old.owner
    BY <2>2 DEF OneJob!vars, Stage
  <2>3. CASE old.state = "absent" /\ new.state = "queued"
    BY <2>3 DEF OneJob!Next, OneJob!Submit, Stage
  <2>4. ASSUME NEW s \in Session, Commits(tx[s], old, new, market, stored'[MarketOf(j)])
        PROVE  OneJob(j)!Next \/ UNCHANGED OneJob(j)!vars
    <3>1. CASE tx[s].worker \in Worker /\ old.state = "queued" /\ new.state = "running" /\ new.owner = tx[s].worker
      BY <3>1 DEF OneJob!Next, OneJob!Grant, Stage
    <3>2. CASE old.state = "running" /\ new.state = "queued"
      BY <3>2 DEF OneJob!Next, OneJob!Lose, Stage
    <3>3. CASE old.state = "running" /\ old.owner \in Worker /\ new.state \in {"completed", "failed"}
      BY <3>3 DEF OneJob!Next, OneJob!Finish, Stage
    <3>4. CASE old.state = "queued" /\ new.state = "cancelled"
      BY <3>4 DEF OneJob!Next, OneJob!Withdraw, Stage
    <3> QED BY <2>2, <2>3, <2>4, <3>1, <3>2, <3>3, <3>4 DEF Commits, Lost, NoRow
  <2> QED BY <2>1, <2>2, <2>3, <2>4, RowSteps, AgedRow DEF NoRow, Lost
<1> QED BY <1>1, <1>2, TxnInvAlways, PTL DEF TxnSpec, EachJobIsPromised

-----------------------------------------------------------------------------
(* Circles *)

\* A session that waits, and so is part of no circle of its own making
LEMMA Waits ==
  ASSUME TxnInv, NEW s \in Session, Awaited(s) # {}
  PROVE  /\ ~Raising(s) /\ tx[s] \in Transaction /\ HeldFits(s) /\ Keeps(s)
         /\ \/ Statement(s) = "advisory" /\ tx[s].call \in Turns /\ tx[s].place = 1
            \/ /\ tx[s].phase = "lock" /\ tx[s].call \in Turns /\ tx[s].place = 2
               /\ Awaited(s) = {holder[JobOf(j)] : j \in tx[s].todo}
            \/ /\ tx[s].phase = "lock" /\ Statement(s) = "job"
               /\ Awaited(s) = {holder[JobOf(j)] : j \in tx[s].todo}
            \/ /\ Statement(s) = "market"
               /\ Awaited(s) = {holder[MarketOf(j)] : j \in tx[s].jobs}
<1> DEFINE t == tx[s]
<1>1. t \in Transaction /\ Shaped(t) /\ HeldFits(s) /\ Keeps(s)
  BY DEF TxnInv, TxnTypeOK, SessionInv
<1>2. \/ Statement(s) = "advisory"
      \/ /\ Statement(s) \in {"live", "active"} /\ t.phase = "lock"
         /\ Awaited(s) = {holder[JobOf(j)] : j \in t.todo}
      \/ Statement(s) = "job" /\ t.phase = "lock" /\ Awaited(s) = {holder[JobOf(j)] : j \in t.todo}
      \/ Statement(s) = "market" /\ t.phase = "start" /\ Awaited(s) = {holder[MarketOf(j)] : j \in t.jobs}
  BY DEF Awaited
<1>3. t.phase # "raise"
  <2>1. Statement(s) = "advisory" => t.call \in Turns
    BY <1>1, StatementAt
  <2> QED BY <1>1, <1>2, <2>1 DEF Shaped, OneJobCalls, Turns
<1> QED BY <1>1, <1>2, <1>3, StatementAt DEF Raising, Turns

LEMMA OnlyEndsMakeCircles ==
  ASSUME TxnInv, NEW S \in SUBSET Session, Circle(S),
         \A s \in S : tx[s].call \notin {"complete", "fail"}
  PROVE  S = {}
<1>1. \A s \in S : /\ s \in Session /\ Awaited(s) # {} /\ Awaited(s) \subseteq S \ {s}
                   /\ tx[s].call \notin {"complete", "fail"}
  BY DEF Circle
<1>2. ASSUME NEW s \in S, Statement(s) = "market"
      PROVE  FALSE
  <2>1. Awaited(s) = {holder[MarketOf(j)] : j \in tx[s].jobs} /\ ~Raising(s) /\ tx[s] \in Transaction
    <3>1. Statement(s) # "advisory" /\ Statement(s) # "job" /\ Statement(s) # "live"
      BY <1>2
    <3>2. ~(tx[s].call \in Turns /\ tx[s].place = 2)
      BY <1>1, <1>2, Waits, StatementAt DEF Turns
    <3> QED BY <1>1, <3>1, <3>2, Waits
  <2>2. PICK j \in tx[s].jobs : holder[MarketOf(j)] \in S \ {s}
    BY <1>1, <2>1
  <2> DEFINE q == holder[MarketOf(j)]
  <2>3. j \in Job /\ q \in Session /\ q # s /\ q \in S
    BY <2>1, <2>2 DEF Transaction
  <2>4. holder[JobOf(j)] = q
    BY <1>1, <2>3, Waits DEF HeldFits
  <2>5. /\ tx[s].call \in {"update", "release", "cancel", "requeue"}
        /\ tx[s].place = 2
    BY <1>1, <1>2, <2>1, AtMarket DEF Raising
  <2>6. holder[JobOf(j)] = s
    BY <1>1, <2>1, <2>5, Waits, Calls DEF Keeps, JobPlace, Turns
  <2> QED BY <2>3, <2>4, <2>6
<1>3. ASSUME NEW q \in S, NEW j \in Job, holder[JobOf(j)] = q
      PROVE  tx[q].call \in Turns /\ tx[q].place = 2
  <2>1. q \in Session /\ ~Raising(q) /\ tx[q] \in Transaction /\ HeldFits(q)
    BY <1>1, Waits
  <2>2. tx[q].place > JobPlace(tx[q].call) /\ tx[q].place # 1 /\ tx[q].call \notin {"complete", "fail"}
    BY <1>1, <1>3, <2>1 DEF HeldFits, JobFits, JobPlace
  <2>3. Statement(q) # "market"
    BY <1>2
  <2>4. Statement(q) # "job"
    BY <2>1, <2>2, StatementAt
  <2> QED BY <1>1, <2>1, <2>2, <2>3, <2>4, Waits
<1>4. ASSUME NEW s \in S, tx[s].phase = "lock", Awaited(s) = {holder[JobOf(j)] : j \in tx[s].todo}
      PROVE  \E q \in S \ {s} : tx[q].call \in Turns /\ tx[q].place = 2
  <2>1. PICK j \in tx[s].todo : holder[JobOf(j)] \in S \ {s}
    BY <1>1, <1>4
  <2>2. j \in Job
    BY <1>1, Waits DEF Transaction
  <2> QED BY <1>3, <2>1, <2>2
<1>5. ASSUME NEW s \in S, tx[s].call \in Turns, tx[s].place = 2
      PROVE  FALSE
  <2>1. Statement(s) \in {"live", "active"}
    BY <1>1, <1>5, Waits, StatementAt DEF Turns
  <2>2. tx[s].phase = "lock" /\ Awaited(s) = {holder[JobOf(j)] : j \in tx[s].todo}
    BY <1>1, <1>5, <2>1, Waits
  <2>3. PICK q \in S \ {s} : tx[q].call \in Turns /\ tx[q].place = 2
    BY <1>4, <2>2
  <2> QED BY <1>1, <1>5, <2>3 DEF TxnInv, ClaimsInTurn
<1>6. ASSUME NEW s \in S, Statement(s) = "advisory"
      PROVE  FALSE
  <2>1. Awaited(s) = {advisory}
    BY <1>6 DEF Awaited
  <2>2. advisory \in S \ {s}
    BY <1>1, <2>1
  <2>3. tx[advisory].call \in Turns /\ tx[advisory].place > 1
    BY <1>1, <2>2 DEF TxnInv, ClaimsInTurn
  <2>4. tx[advisory].place # 1
    BY <2>3
  <2>5. tx[advisory].place = 2
    BY <1>1, <2>2, <2>3, <2>4, Waits, StatementAt DEF Turns
  <2> QED BY <1>5, <2>2, <2>3, <2>5
<1>7. ASSUME NEW s \in S
      PROVE  FALSE
  <2>1. ~(tx[s].phase = "lock" /\ Awaited(s) = {holder[JobOf(j)] : j \in tx[s].todo})
    BY <1>4, <1>5
  <2> QED BY <1>1, <1>2, <1>6, <2>1, Waits
<1> QED BY <1>7

\* The order in which the calls take their rows: of any number of sessions that wait for
\* each other in a circle, one is completing or failing its job.
THEOREM CirclesNeedAnEndAlways == TxnSpec => []CirclesNeedAnEnd
<1>1. TxnInv => CirclesNeedAnEnd
  <2> SUFFICES ASSUME TxnInv, NEW S \in SUBSET Session, S # {}, Circle(S),
                      ~ \E s \in S : tx[s].call \in {"complete", "fail"}
               PROVE  FALSE
    BY DEF CirclesNeedAnEnd
  <2>1. \A s \in S : tx[s].call \notin {"complete", "fail"}
    OBVIOUS
  <2> QED BY <2>1, OnlyEndsMakeCircles
<1> QED BY <1>1, TxnInvAlways, PTL

-----------------------------------------------------------------------------
(* Leases *)

OpenBeat(b) == tx[b].call = "beat" /\ ~Raising(b)

\* A claim that has looked, when no heartbeat was open, and has still to pick
Looked(c) ==
  /\ tx[c].call = "claim" /\ ~tx[c].met
  /\ tx[c].place = 3 \/ (tx[c].place = 2 /\ tx[c].phase = "lock")

\* What it has seen is so: any heartbeat that has still to find its row began after the
\* claim, and the jobs it need not wait for are not live for it nor with a heartbeat.
LookIsTrue(c) ==
  Looked(c) =>
    /\ \A b \in Session : OpenBeat(b) /\ tx[b].place = 1 => tx[b].age <= tx[c].age
    /\ \A k \in Job \ tx[c].todo :
         /\ ~LiveAt(tx[c].age, stored[JobOf(k)])
         /\ \A b \in Session : holder[JobOf(k)] = b => ~OpenBeat(b)

\* The job that a claim is about to hand out
Grants(c, j) == holder[JobOf(j)] = c /\ written[JobOf(j)] # stored[JobOf(j)]

Granting(c) ==
  /\ tx[c].call = "claim" /\ ~tx[c].met /\ tx[c].place = 4
  /\ \E j \in Job : Grants(c, j)

\* No lease is live beside it, and no heartbeat can make one live.
GrantIsAlone(c) ==
  Granting(c) =>
    \A k \in Job :
      /\ ~LiveAt(0, stored[JobOf(k)])
      /\ \A b \in Session : OpenBeat(b) =>
           /\ holder[JobOf(k)] # b
           /\ tx[b].place = 1 => ~LiveAt(tx[b].age, stored[JobOf(k)])

GrantsOne(c) ==
  tx[c].call = "claim" => \A j, k \in Job : Grants(c, j) /\ Grants(c, k) => j = k

LeaseFits(c) == LookIsTrue(c) /\ GrantIsAlone(c) /\ GrantsOne(c)

LeaseInv == TxnInv /\ \A c \in Session : LeaseFits(c)

\* What a heartbeat's session does without committing
BeatStep(s) ==
  \/ ~OpenBeat(s)'
  \/ /\ tx[s].call = "none" /\ tx'[s].place = 1 /\ tx'[s].age = 0 /\ holder' = holder
     /\ \E k \in Job : LiveAt(0, stored[JobOf(k)])
  \/ /\ OpenBeat(s) /\ tx[s].place = 1 /\ tx'[s].place = 1 /\ tx'[s].age = tx[s].age
     /\ holder' = holder
  \/ /\ OpenBeat(s) /\ tx[s].place = 1 /\ tx'[s].place = 2
     /\ \E k \in Job : /\ LiveAt(tx[s].age, stored[JobOf(k)])
                       /\ holder' = [holder EXCEPT ![JobOf(k)] = s]

\* A session's step that commits nothing, seen from the claims of the others
SilentStep(s) ==
  /\ stored' = stored
  /\ \A q \in Session \ {s} : tx'[q] = tx[q]
  /\ \A r \in Row : \/ holder'[r] = holder[r] /\ written'[r] = written[r]
                    \/ holder[r] \in {Nobody, s} /\ holder'[r] = s
  /\ BeatStep(s)

LEMMA LiveLater ==
  ASSUME NEW row \in JobRow, NEW m \in 0 .. MaxAge, NEW n \in 0 .. MaxAge, m <= n, LiveAt(m, row)
  PROVE  LiveAt(n, row)
BY TxnAssumption DEF LiveAt, JobRow, Never

\* Ages, rows and holders, as the lemmas below need them
LEMMA LeaseTypes ==
  ASSUME TxnInv
  PROVE  /\ \A s \in Session : tx[s] \in Transaction /\ tx[s].age \in 0 .. MaxAge /\ 0 \in 0 .. MaxAge
         /\ \A j \in Job : stored[JobOf(j)] \in JobRow /\ written[JobOf(j)] \in JobRow /\ JobOf(j) \in Row
         /\ holder \in [Row -> Session \cup {Nobody}]
<1>1. 0 \in 0 .. MaxAge
  BY TxnAssumption
<1>2. \A s \in Session : tx[s] \in Transaction
  BY DEF TxnInv, TxnTypeOK
<1>3. \A s \in Session : tx[s].age \in 0 .. MaxAge
  BY <1>2 DEF Transaction
<1>4. \A j \in Job : stored[JobOf(j)] \in JobRow /\ written[JobOf(j)] \in JobRow
  BY DEF TxnInv, TxnTypeOK
<1>5. holder \in [Row -> Session \cup {Nobody}]
  BY DEF TxnInv, TxnTypeOK
<1> QED BY <1>1, <1>2, <1>3, <1>4, <1>5, Rows

LEMMA OthersFit ==
  ASSUME LeaseInv, TxnInv', NEW s \in Session, SilentStep(s), NEW c \in Session \ {s}
  PROVE  LeaseFits(c)'
<1>1. /\ stored' = stored /\ tx'[c] = tx[c] /\ BeatStep(s)
      /\ \A q \in Session \ {s} : tx'[q] = tx[q]
      /\ \A j \in Job : \/ holder'[JobOf(j)] = holder[JobOf(j)] /\ written'[JobOf(j)] = written[JobOf(j)]
                        \/ holder[JobOf(j)] \in {Nobody, s} /\ holder'[JobOf(j)] = s
  BY Rows DEF SilentStep
<1>2. TxnInv /\ LookIsTrue(c) /\ GrantIsAlone(c) /\ GrantsOne(c)
  BY DEF LeaseInv, LeaseFits
<1>3. \A j \in Job : Grants(c, j)' => Grants(c, j)
  BY <1>1 DEF Grants
<1>4. \A b \in Session \ {s} : OpenBeat(b)' <=> OpenBeat(b)
  BY <1>1 DEF OpenBeat, Raising
<1>5. LookIsTrue(c)'
  <2> SUFFICES ASSUME Looked(c)'
               PROVE  /\ \A b \in Session : OpenBeat(b)' /\ tx'[b].place = 1 => tx'[b].age <= tx[c].age
                      /\ \A k \in Job \ tx[c].todo :
                           /\ ~LiveAt(tx[c].age, stored[JobOf(k)])
                           /\ \A b \in Session : holder'[JobOf(k)] = b => ~OpenBeat(b)'
    BY <1>1 DEF LookIsTrue
  <2>1. /\ \A b \in Session : OpenBeat(b) /\ tx[b].place = 1 => tx[b].age <= tx[c].age
        /\ \A k \in Job \ tx[c].todo :
             /\ ~LiveAt(tx[c].age, stored[JobOf(k)])
             /\ \A b \in Session : holder[JobOf(k)] = b => ~OpenBeat(b)
    BY <1>1, <1>2 DEF LookIsTrue, Looked
  <2>2. tx[c].age \in 0 .. MaxAge /\ tx[s].age \in 0 .. MaxAge
    BY <1>2, LeaseTypes
  <2>3. ASSUME NEW b \in Session, OpenBeat(b)', tx'[b].place = 1
        PROVE  tx'[b].age <= tx[c].age
    <3>1. CASE b # s
      BY <1>1, <1>4, <2>1, <2>3, <3>1
    <3>2. CASE b = s
      BY <1>1, <2>1, <2>2, <2>3, <3>2 DEF BeatStep
    <3> QED BY <3>1, <3>2
  <2>4. ASSUME NEW k \in Job \ tx[c].todo, NEW b \in Session, holder'[JobOf(k)] = b, OpenBeat(b)'
        PROVE  FALSE
    <3>1. CASE b # s
      BY <1>1, <1>4, <2>1, <2>4, <3>1
    <3>2. CASE b = s
      <4>1. CASE holder' = holder /\ (tx[s].call = "none" \/ OpenBeat(s))
        <5>1. tx[s].call = "none" => holder[JobOf(k)] # s
          BY <1>2, Rows DEF TxnInv, TxnTypeOK
        <5> QED BY <2>1, <2>4, <3>2, <4>1, <5>1
      <4>2. ASSUME OpenBeat(s), tx[s].place = 1, NEW i \in Job, LiveAt(tx[s].age, stored[JobOf(i)]),
                   holder' = [holder EXCEPT ![JobOf(i)] = s]
            PROVE  FALSE
        <5>1. LiveAt(tx[c].age, stored[JobOf(i)])
          BY <1>2, <2>1, <2>2, <4>2, LeaseTypes, LiveLater
        <5>2. i # k
          BY <2>1, <5>1
        <5>3. holder'[JobOf(k)] = holder[JobOf(k)]
          BY <1>2, <4>2, <5>2, Rows, LeaseTypes
        <5> QED BY <2>1, <2>4, <3>2, <4>2, <5>3
      <4> QED BY <1>1, <2>4, <3>2, <4>1, <4>2 DEF BeatStep
    <3> QED BY <3>1, <3>2
  <2> QED BY <2>1, <2>3, <2>4
<1>6. GrantIsAlone(c)'
  <2> SUFFICES ASSUME Granting(c)', NEW k \in Job
               PROVE  /\ ~LiveAt(0, stored[JobOf(k)])
                      /\ \A b \in Session : OpenBeat(b)' =>
                           /\ holder'[JobOf(k)] # b
                           /\ tx'[b].place = 1 => ~LiveAt(tx'[b].age, stored[JobOf(k)])
    BY <1>1 DEF GrantIsAlone
  <2>1. \A i \in Job : /\ ~LiveAt(0, stored[JobOf(i)])
                       /\ \A b \in Session : OpenBeat(b) =>
                            /\ holder[JobOf(i)] # b
                            /\ tx[b].place = 1 => ~LiveAt(tx[b].age, stored[JobOf(i)])
    BY <1>1, <1>2, <1>3 DEF GrantIsAlone, Granting
  <2>2. ASSUME NEW b \in Session, OpenBeat(b)'
        PROVE  /\ holder'[JobOf(k)] # b
               /\ tx'[b].place = 1 => ~LiveAt(tx'[b].age, stored[JobOf(k)])
    <3>1. CASE b # s
      BY <1>1, <1>4, <2>1, <2>2, <3>1
    <3>2. CASE b = s
      <4>1. OpenBeat(s) /\ tx[s].place = 1 /\ holder' = holder /\ tx'[s].age = tx[s].age
        BY <1>1, <2>1, <2>2, <3>2 DEF BeatStep
      <4> QED BY <2>1, <3>2, <4>1
    <3> QED BY <3>1, <3>2
  <2> QED BY <2>1, <2>2
<1>7. GrantsOne(c)'
  BY <1>1, <1>2, <1>3 DEF GrantsOne
<1> QED BY <1>5, <1>6, <1>7 DEF LeaseFits

\* One row taken, and perhaps written
LEMMA OneTaken ==
  ASSUME TxnInv, NEW s \in Session, NEW r \in Row, Lockable(s, r),
         holder' = [holder EXCEPT ![r] = s],
         \/ written' = written
         \/ \E row : written' = [written EXCEPT ![r] = row]
  PROVE  \A q \in Row : \/ holder'[q] = holder[q] /\ written'[q] = written[q]
                        \/ holder[q] \in {Nobody, s} /\ holder'[q] = s
BY DEF Lockable, TxnInv, TxnTypeOK, Tables

\* What the silent actions do to the transactions and the rows
LEMMA SilentRows ==
  ASSUME TxnInv, NEW s \in Session, Silent(s)
  PROVE  /\ stored' = stored
         /\ \A q \in Session \ {s} : tx'[q] = tx[q]
         /\ \A r \in Row : \/ holder'[r] = holder[r] /\ written'[r] = written[r]
                           \/ holder[r] \in {Nobody, s} /\ holder'[r] = s
<1>1. tx \in [Session -> Transaction]
  BY DEF TxnInv, TxnTypeOK
<1>2. CASE TakeAdvisory(s)
  BY <1>1, <1>2 DEF TakeAdvisory, Goto, rowVars
<1>3. CASE WaitForJob(s)
  BY <1>1, <1>3 DEF WaitForJob, Goto, rowVars
<1>4. CASE SkipMarket(s)
  BY <1>1, <1>4 DEF SkipMarket, Goto, rowVars
<1>5. CASE StartLive(s)
  BY <1>1, <1>5 DEF StartLive, Goto, rowVars
<1>6. CASE LockJob(s)
  <2>1. PICK j \in tx[s].jobs :
          /\ Lockable(s, JobOf(j)) /\ holder' = [holder EXCEPT ![JobOf(j)] = s]
          /\ \/ written' = written
             \/ \E row : written' = [written EXCEPT ![JobOf(j)] = row]
    BY <1>6 DEF LockJob
  <2>2. JobOf(j) \in Row
    BY <1>1, Rows DEF Transaction
  <2>3. stored' = stored /\ \A q \in Session \ {s} : tx'[q] = tx[q]
    BY <1>1, <1>6 DEF LockJob, Goto
  <2> QED BY <2>1, <2>2, <2>3, OneTaken
<1>7. CASE LockMarket(s)
  <2>1. PICK j \in tx[s].jobs :
          /\ Lockable(s, MarketOf(j)) /\ holder' = [holder EXCEPT ![MarketOf(j)] = s]
          /\ \E row : written' = [written EXCEPT ![MarketOf(j)] = row]
    BY <1>7 DEF LockMarket
  <2>2. MarketOf(j) \in Row
    BY <1>1, Rows DEF Transaction
  <2>3. stored' = stored /\ \A q \in Session \ {s} : tx'[q] = tx[q]
    BY <1>1, <1>7 DEF LockMarket, Goto
  <2> QED BY <2>1, <2>2, <2>3, OneTaken
<1>8. CASE LockLive(s)
  <2>1. PICK j \in tx[s].todo : /\ Lockable(s, JobOf(j)) /\ holder' = [holder EXCEPT ![JobOf(j)] = s]
                                /\ written' = written
    BY <1>8 DEF LockLive
  <2>2. JobOf(j) \in Row
    BY <1>1, Rows DEF Transaction
  <2>3. stored' = stored /\ \A q \in Session \ {s} : tx'[q] = tx[q]
    BY <1>1, <1>8 DEF LockLive, Goto
  <2> QED BY <2>1, <2>2, <2>3, OneTaken
<1>9. CASE PickQueued(s)
  <2>1. stored' = stored /\ \A q \in Session \ {s} : tx'[q] = tx[q]
    BY <1>1, <1>9 DEF PickQueued, Goto
  <2>2. \/ holder' = holder /\ written' = written
        \/ \E j \in Job : /\ Lockable(s, JobOf(j)) /\ holder' = [holder EXCEPT ![JobOf(j)] = s]
                          /\ \E row : written' = [written EXCEPT ![JobOf(j)] = row]
    BY <1>9 DEF PickQueued
  <2> QED BY <2>1, <2>2, OneTaken, Rows
<1>10. CASE PickExpired(s)
  <2>1. stored' = stored /\ \A q \in Session \ {s} : tx'[q] = tx[q]
    BY <1>1, <1>10 DEF PickExpired, Goto
  <2>2. PICK S \in Picks(s) :
          /\ holder' = [r \in Row |-> IF r[1] = "job" /\ r[2] \in S THEN s ELSE holder[r]]
          /\ written' = [r \in Row |-> IF r[1] = "job" /\ r[2] \in S
                                       THEN JobWritten(tx[s], written[r]) ELSE written[r]]
    BY <1>10 DEF PickExpired
  <2>3. \A j \in S : holder[JobOf(j)] \in {Nobody, s}
    BY DEF Picks, Lockable
  <2>4. \A r \in Row : r[1] = "job" => r = JobOf(r[2])
    BY DEF Row, JobOf
  <2> QED BY <2>1, <2>2, <2>3, <2>4
<1>11. CASE StartActive(s)
  BY <1>1, <1>11 DEF StartActive, Goto, rowVars
<1>12. CASE LockActive(s)
  <2>1. PICK k \in tx[s].todo : /\ Lockable(s, JobOf(k)) /\ holder' = [holder EXCEPT ![JobOf(k)] = s]
                                /\ written' = written
    BY <1>12 DEF LockActive
  <2>2. JobOf(k) \in Row
    BY <1>1, Rows DEF Transaction
  <2>3. stored' = stored /\ \A q \in Session \ {s} : tx'[q] = tx[q]
    BY <1>1, <1>12 DEF LockActive, Goto
  <2> QED BY <2>1, <2>2, <2>3, OneTaken
<1>13. CASE Insert(s)
  <2>1. stored' = stored /\ \A q \in Session \ {s} : tx'[q] = tx[q]
    BY <1>1, <1>13, Inserted
  <2>2. \E j \in Job : /\ Lockable(s, JobOf(j)) /\ holder' = [holder EXCEPT ![JobOf(j)] = s]
                       /\ \E row : written' = [written EXCEPT ![JobOf(j)] = row]
    BY <1>13, Inserted DEF Lockable
  <2> QED BY <2>1, <2>2, OneTaken, Rows
<1> QED BY <1>2, <1>3, <1>4, <1>5, <1>6, <1>7, <1>8, <1>9, <1>10, <1>11, <1>12, <1>13 DEF Silent

\* A heartbeat waits, or has its row, which it has found live.
LEMMA BeatSteps ==
  ASSUME TxnInv, NEW s \in Session, Silent(s)
  PROVE  BeatStep(s)
<1>1. tx[s] \in Transaction /\ Shaped(tx[s])
  BY DEF TxnInv, TxnTypeOK, SessionInv
<1>2. /\ tx[s].place < 4 => Step(tx[s]).call = tx[s].call
      /\ Return(tx[s]).call = tx[s].call /\ Raise(tx[s]).phase = "raise"
  BY <1>1, Stepped, Returned, Raised
<1>3. \A u : tx' = [tx EXCEPT ![s] = u] => tx'[s] = u
  BY DEF TxnInv, TxnTypeOK
<1>4. \A u : tx' = [tx EXCEPT ![s] = u] /\ u.phase = "raise" => ~OpenBeat(s)'
  BY <1>3 DEF OpenBeat, Raising
<1>5. \A u : tx' = [tx EXCEPT ![s] = u] /\ u.call # "beat" => ~OpenBeat(s)'
  BY <1>3 DEF OpenBeat
<1>6. CASE WaitForJob(s)
  <2> DEFINE t == tx[s]
  <2>1. PICK j \in t.jobs :
          /\ Statement(s) = "job" /\ t.phase = "start" /\ UNCHANGED <<rowVars, advisory>>
          /\ Goto(s, IF JobMatches(t, stored[JobOf(j)]) THEN [t EXCEPT !.phase = "lock", !.todo = {j}]
                     ELSE Raise(t))
    BY <1>6 DEF WaitForJob
  <2>2. CASE JobMatches(t, stored[JobOf(j)])
    <3> DEFINE u == [t EXCEPT !.phase = "lock", !.todo = {j}]
    <3>1. u.call = t.call /\ u.place = t.place /\ u.age = t.age
      BY <1>1 DEF Transaction
    <3>2. tx' = [tx EXCEPT ![s] = u]
      BY <2>1, <2>2 DEF Goto
    <3> HIDE DEF u
    <3>3. CASE t.call = "beat"
      <4>1. t.place = 1 /\ OpenBeat(s)
        BY <1>1, <2>1, <3>3, StatementAt DEF OpenBeat, Raising
      <4> QED BY <1>3, <2>1, <3>1, <3>2, <4>1 DEF BeatStep, rowVars
    <3>4. CASE t.call # "beat"
      BY <1>5, <3>1, <3>2, <3>4 DEF BeatStep
    <3> QED BY <3>3, <3>4
  <2>3. CASE ~JobMatches(t, stored[JobOf(j)])
    BY <1>2, <1>4, <2>1, <2>3 DEF Goto, BeatStep
  <2> QED BY <2>2, <2>3
<1>7. CASE LockJob(s)
  <2> DEFINE t == tx[s]
  <2>1. PICK j \in t.jobs :
          /\ Statement(s) = "job" /\ t.phase \in {"start", "lock"} /\ Lockable(s, JobOf(j))
          /\ holder' = [holder EXCEPT ![JobOf(j)] = s]
          /\ IF JobMatches(t, written[JobOf(j)]) THEN Goto(s, Step(t)) ELSE Goto(s, Raise(t))
    BY <1>7 DEF LockJob
  <2>2. CASE JobMatches(t, written[JobOf(j)])
    <3>1. t.place \in {1, 2} /\ j \in Job /\ holder[JobOf(j)] # s
      BY <2>1, AtJob
    <3>2. /\ tx' = [tx EXCEPT ![s] = Step(t)]
          /\ Step(t).call = t.call /\ Step(t).place = t.place + 1
      BY <1>1, <2>1, <2>2, <3>1, Stepped DEF Goto
    <3>3. CASE t.call = "beat"
      <4>1. t.place = 1 /\ OpenBeat(s)
        BY <1>1, <2>1, <3>3, StatementAt DEF OpenBeat, Raising
      <4>2. written[JobOf(j)] = stored[JobOf(j)]
        BY <2>1, <3>1, Rows DEF Lockable, TxnInv, TxnTypeOK
      <4>3. LiveAt(t.age, stored[JobOf(j)])
        BY <2>2, <3>3, <4>2 DEF JobMatches, Owned, LiveAt
      <4>4. tx'[s] = Step(t)
        BY <1>3, <3>2
      <4>5. tx'[s].place = 2
        BY <3>2, <4>1, <4>4
      <4> QED BY <2>1, <3>1, <4>1, <4>3, <4>5 DEF BeatStep
    <3>4. CASE t.call # "beat"
      BY <1>5, <3>2, <3>4 DEF BeatStep
    <3> QED BY <3>3, <3>4
  <2>3. CASE ~JobMatches(t, written[JobOf(j)])
    BY <1>2, <1>4, <2>1, <2>3 DEF Goto, BeatStep
  <2> QED BY <2>2, <2>3
<1>8. CASE LockMarket(s)
  <2> DEFINE t == tx[s]
             Left(k) == [t EXCEPT !.jobs = IF t.call = "requeue" THEN @ \ {k} ELSE @]
  <2>1. PICK j \in t.jobs :
          /\ Statement(s) = "market" /\ t.phase = "start"
          /\ Goto(s, IF t.call = "complete" /\ written[MarketOf(j)] \notin Completable THEN Raise(t)
                     ELSE IF t.call = "requeue" /\ Left(j).jobs # {} THEN Left(j)
                     ELSE Step(t))
    BY <1>8 DEF LockMarket
  <2>2. t.call # "beat" /\ t.place < 4
    BY <1>1, <2>1, AtMarket
  <2>3. Left(j).call # "beat" /\ Step(t).call # "beat" /\ Raise(t).phase = "raise"
    BY <1>1, <1>2, <2>2 DEF Transaction
  <2> HIDE DEF Left
  <2> QED BY <1>4, <1>5, <2>1, <2>3 DEF Goto, BeatStep
<1>9. CASE TakeAdvisory(s) \/ SkipMarket(s)
  <2>1. /\ tx[s].call \in {"claim", "create", "fail"} /\ tx[s].place = 1
        /\ tx' = [tx EXCEPT ![s] = Step(tx[s])]
    BY <1>1, <1>9, StatementAt DEF TakeAdvisory, SkipMarket, Goto, Turns
  <2>2. Step(tx[s]).call # "beat"
    BY <1>1, <2>1, Stepped
  <2> QED BY <1>5, <2>1, <2>2 DEF BeatStep
<1>10. CASE StartLive(s)
  <2> DEFINE look == [tx[s] EXCEPT !.met = \E b \in Session : tx[b].call = "beat"]
             Locks(live) == [look EXCEPT !.phase = "lock", !.todo = live]
  <2>1. tx[s].call = "claim" /\ tx[s].place = 2
    BY <1>1, <1>10, StatementAt DEF StartLive
  <2>2. look \in Transaction /\ look.call = "claim" /\ look.place = 2
    BY <1>1, <2>1 DEF Transaction
  <2>3. \E live : tx' = [tx EXCEPT ![s] = Step(look)] \/ tx' = [tx EXCEPT ![s] = Locks(live)]
    <3> DEFINE found == {j \in Job : LiveAt(tx[s].age, View(s, JobOf(j)))}
    <3>1. tx' = [tx EXCEPT ![s] = IF found = {} THEN Step(look) ELSE Locks(found)]
      BY <1>10 DEF StartLive, Goto
    <3> HIDE DEF found, look, Locks
    <3> QED BY <3>1
  <2>4. Step(look).call # "beat"
    <3> HIDE DEF look
    <3> QED BY <2>2, Stepped
  <2>5. \A live : Locks(live).call = look.call
    <3> HIDE DEF look
    <3> QED BY <2>2 DEF Transaction
  <2> HIDE DEF look, Locks
  <2> QED BY <1>5, <2>2, <2>3, <2>4, <2>5 DEF BeatStep
<1>11. CASE LockLive(s)
  <2> DEFINE Left(k) == [tx[s] EXCEPT !.todo = @ \ {k}]
  <2>1. tx[s].call = "claim" /\ tx[s].place = 2
    BY <1>1, <1>11, StatementAt DEF LockLive
  <2>2. \E j : \/ tx' = [tx EXCEPT ![s] = Return(tx[s])] \/ tx' = [tx EXCEPT ![s] = Step(tx[s])]
               \/ tx' = [tx EXCEPT ![s] = Left(j)]
    BY <1>11 DEF LockLive, Goto
  <2>3. /\ Return(tx[s]).call # "beat" /\ Step(tx[s]).call # "beat"
        /\ \A j : Left(j).call # "beat"
    BY <1>1, <1>2, <2>1 DEF Transaction
  <2> HIDE DEF Left
  <2> QED BY <1>5, <2>2, <2>3 DEF BeatStep
<1>12. CASE PickQueued(s)
  <2>1. tx[s].call = "claim" /\ tx' = [tx EXCEPT ![s] = Return(tx[s])]
    BY <1>12 DEF PickQueued, Goto
  <2>2. Return(tx[s]).call # "beat"
    BY <1>2, <2>1
  <2> QED BY <1>5, <2>1, <2>2 DEF BeatStep
<1>13. CASE PickExpired(s)
  <2> DEFINE With(S) == [tx[s] EXCEPT !.jobs = S]
  <2>1. tx[s].call = "requeue" /\ tx[s].place = 1
    BY <1>1, <1>13, StatementAt DEF PickExpired
  <2>2. PICK S \in SUBSET Job : \/ tx' = [tx EXCEPT ![s] = Return(tx[s])]
                                \/ tx' = [tx EXCEPT ![s] = Step(With(S))]
    BY <1>13 DEF PickExpired, Picks, Goto
  <2>3. With(S) \in Transaction /\ With(S).call = "requeue" /\ With(S).place = 1
    BY <1>1, <2>1 DEF Transaction
  <2> HIDE DEF With
  <2>4. Return(tx[s]).call # "beat" /\ Step(With(S)).call # "beat"
    BY <1>2, <2>1, <2>3, Stepped
  <2> QED BY <1>5, <2>2, <2>4 DEF BeatStep
<1>14. CASE StartActive(s)
  <2> DEFINE Locks(S) == [tx[s] EXCEPT !.phase = "lock", !.todo = S]
  <2>1. tx[s].call = "create" /\ tx[s].place = 2
    BY <1>1, <1>14, StatementAt DEF StartActive
  <2>2. \E S : tx' = [tx EXCEPT ![s] = Step(tx[s])] \/ tx' = [tx EXCEPT ![s] = Locks(S)]
    <3> DEFINE active == {k \in Job : /\ stored[JobOf(k)].state \in ActiveStates
                                      /\ \E j \in tx[s].jobs : account[k] = account[j]}
    <3>1. tx' = [tx EXCEPT ![s] = IF active = {} THEN Step(tx[s]) ELSE Locks(active)]
      BY <1>14 DEF StartActive, Goto
    <3> HIDE DEF active, Locks
    <3> QED BY <3>1
  <2>3. Step(tx[s]).call # "beat" /\ \A S : Locks(S).call # "beat"
    BY <1>1, <1>2, <2>1 DEF Transaction
  <2> HIDE DEF Locks
  <2> QED BY <1>5, <2>2, <2>3 DEF BeatStep
<1>15. CASE LockActive(s)
  <2> DEFINE Left(k) == [tx[s] EXCEPT !.todo = @ \ {k}]
  <2>1. tx[s].call = "create" /\ tx[s].place = 2
    BY <1>1, <1>15, StatementAt DEF LockActive
  <2>2. \E j : \/ tx' = [tx EXCEPT ![s] = Return(tx[s])] \/ tx' = [tx EXCEPT ![s] = Step(tx[s])]
               \/ tx' = [tx EXCEPT ![s] = Left(j)]
    BY <1>15 DEF LockActive, Goto
  <2>3. /\ Return(tx[s]).call # "beat" /\ Step(tx[s]).call # "beat"
        /\ \A j : Left(j).call # "beat"
    BY <1>1, <1>2, <2>1 DEF Transaction
  <2> HIDE DEF Left
  <2> QED BY <1>5, <2>2, <2>3 DEF BeatStep
<1>16. CASE Insert(s)
  <2>1. tx[s].call = "create" /\ tx[s].place = 3 /\ tx' = [tx EXCEPT ![s] = Step(tx[s])]
    BY <1>16, Inserted
  <2>2. Step(tx[s]).call # "beat"
    BY <1>2, <2>1
  <2> QED BY <1>5, <2>1, <2>2 DEF BeatStep
<1> QED BY <1>6, <1>7, <1>8, <1>9, <1>10, <1>11, <1>12, <1>13, <1>14, <1>15, <1>16 DEF Silent

\* A session that does not hold the advisory lock is no claim that has looked.
LEMMA UnlockedFits ==
  ASSUME TxnInv', NEW c \in Session, advisory' # c
  PROVE  LeaseFits(c)'
<1>1. tx'[c].call = "claim" => ~(tx'[c].place > 1)
  BY DEF TxnInv, ClaimsInTurn, Turns
<1>2. tx'[c].call = "claim" => ~Raising(c)'
  BY DEF TxnInv, SessionInv, Shaped, OneJobCalls, Raising
<1>3. tx'[c].call = "claim" => \A j \in Job : ~Grants(c, j)'
  BY <1>1, <1>2 DEF Grants, TxnInv, SessionInv, HeldFits, JobFits, JobPlace
<1>4. ~Looked(c)' /\ ~Granting(c)'
  BY <1>1 DEF Looked, Granting
<1> QED BY <1>3, <1>4 DEF LeaseFits, LookIsTrue, GrantIsAlone, GrantsOne

\* Nor is a session with another call.
LEMMA OtherCallFits ==
  ASSUME NEW c \in Session, tx'[c].call # "claim"
  PROVE  LeaseFits(c)'
BY DEF LeaseFits, LookIsTrue, Looked, GrantIsAlone, Granting, GrantsOne

\* A claim that has not picked grants nothing.
LEMMA UnpickedFits ==
  ASSUME TxnInv', NEW c \in Session, tx'[c].place # 4
  PROVE  GrantIsAlone(c)' /\ GrantsOne(c)'
<1>1. tx'[c].call = "claim" => ~Raising(c)'
  BY DEF TxnInv, SessionInv, Shaped, OneJobCalls, Raising
<1>2. tx'[c].call = "claim" => \A j \in Job : ~Grants(c, j)'
  BY <1>1 DEF Grants, TxnInv, SessionInv, HeldFits, JobFits, JobPlace
<1> QED BY <1>2 DEF GrantIsAlone, Granting, GrantsOne

\* The look: no heartbeat is open, or the claim has met one.
LEMMA StartLiveFits ==
  ASSUME LeaseInv, TxnInv', NEW s \in Session, StartLive(s)
  PROVE  LeaseFits(s)'
<1> DEFINE t == tx[s]
           live == {j \in Job : LiveAt(t.age, View(s, JobOf(j)))}
           look == [t EXCEPT !.met = \E b \in Session : tx[b].call = "beat"]
           locks == [look EXCEPT !.phase = "lock", !.todo = live]
           u == IF live = {} THEN Step(look) ELSE locks
<1>1. TxnInv /\ t \in Transaction /\ tx \in [Session -> Transaction]
  BY DEF LeaseInv, TxnInv, TxnTypeOK
<1>2. t.call = "claim" /\ t.place = 2 /\ tx' = [tx EXCEPT ![s] = u] /\ UNCHANGED rowVars
  BY <1>1, StatementAt DEF StartLive, Goto
<1>3. live = {j \in Job : LiveAt(t.age, stored[JobOf(j)])}
  BY <1>1, <1>2, AtTurn DEF View, Turns
<1> HIDE DEF live
<1>4. /\ look \in Transaction /\ look.call = "claim" /\ look.place = 2 /\ look.age = t.age
      /\ look.met <=> \E b \in Session : tx[b].call = "beat"
  BY <1>1, <1>2 DEF Transaction
<1> HIDE DEF look
<1>5. /\ Step(look).place = 3 /\ Step(look).age = t.age /\ Step(look).todo = {}
      /\ Step(look).met = look.met /\ Step(look).call = "claim"
  BY <1>4, Stepped
<1>6. locks.place = 2 /\ locks.age = t.age /\ locks.todo = live /\ locks.call = "claim"
  BY <1>4 DEF Transaction
<1>7. locks.met = look.met
  BY <1>4 DEF Transaction
<1> HIDE DEF locks
<1>8. u \in {Step(look), locks} /\ u.place # 4 /\ u.age = t.age /\ u.todo = live /\ u.call = "claim"
  BY <1>5, <1>6
<1> HIDE DEF u
<1>9. u.met = look.met
  BY <1>5, <1>7, <1>8
<1>10. tx'[s] = u /\ \A q \in Session \ {s} : tx'[q] = tx[q]
  BY <1>1, <1>2
<1>11. LookIsTrue(s)'
  <2> SUFFICES ASSUME ~u.met
               PROVE  /\ \A b \in Session : ~OpenBeat(b)'
                      /\ \A k \in Job \ live : ~LiveAt(t.age, stored[JobOf(k)])
    BY <1>2, <1>8, <1>10 DEF LookIsTrue, Looked, rowVars
  <2>1. \A b \in Session : tx[b].call # "beat"
    BY <1>4, <1>9
  <2> QED BY <1>2, <1>3, <1>8, <1>10, <2>1 DEF OpenBeat
<1>12. GrantIsAlone(s)' /\ GrantsOne(s)'
  BY <1>8, <1>10, UnpickedFits
<1> QED BY <1>11, <1>12 DEF LeaseFits

LEMMA LockLiveFits ==
  ASSUME LeaseInv, TxnInv', NEW s \in Session, LockLive(s)
  PROVE  LeaseFits(s)'
<1> DEFINE t == tx[s]
<1>1. TxnInv /\ t \in Transaction /\ tx \in [Session -> Transaction] /\ LookIsTrue(s)
  BY DEF LeaseInv, LeaseFits, TxnInv, TxnTypeOK
<1>2. PICK j \in t.todo :
        /\ Statement(s) = "live" /\ t.phase = "lock" /\ Lockable(s, JobOf(j))
        /\ holder' = [holder EXCEPT ![JobOf(j)] = s]
        /\ Goto(s, IF LiveAt(t.age, written[JobOf(j)]) THEN Return(t)
                   ELSE IF t.todo = {j} THEN Step(t)
                   ELSE [t EXCEPT !.todo = @ \ {j}])
        /\ UNCHANGED <<stored, written, advisory>>
  BY DEF LockLive
<1>3. t.call = "claim" /\ t.place = 2
  BY <1>1, <1>2, StatementAt
<1>4. j \in Job /\ written[JobOf(j)] = stored[JobOf(j)]
  BY <1>1, <1>2, <1>3, AtTurn DEF Lockable, Transaction, Turns
<1> DEFINE left == [t EXCEPT !.todo = @ \ {j}]
           u == IF LiveAt(t.age, written[JobOf(j)]) THEN Return(t)
                ELSE IF t.todo = {j} THEN Step(t) ELSE left
<1>5. tx'[s] = u /\ \A q \in Session \ {s} : tx'[q] = tx[q]
  BY <1>1, <1>2 DEF Goto
<1>6. /\ left.call = "claim" /\ left.place = 2 /\ left.age = t.age /\ left.todo = t.todo \ {j}
      /\ Return(t).place = 4
      /\ Step(t).place = 3 /\ Step(t).age = t.age /\ Step(t).todo = {}
  BY <1>1, <1>3, Returned, Stepped DEF Transaction
<1>7. left.met = t.met /\ Step(t).met = t.met /\ Return(t).met = t.met
  BY <1>1, <1>3, Returned, Stepped DEF Transaction
<1> HIDE DEF left
<1>8. CASE LiveAt(t.age, written[JobOf(j)])
  <2>1. tx'[s].place = 4
    BY <1>5, <1>6, <1>8
  <2>2. \A k \in Job : ~Grants(s, k)'
    <3> SUFFICES ASSUME NEW k \in Job, holder'[JobOf(k)] = s
                 PROVE  written'[JobOf(k)] = stored'[JobOf(k)]
      BY DEF Grants
    <3>1. holder[JobOf(k)] = s \/ k = j
      BY <1>1, <1>2, <1>4, Rows, LeaseTypes
    <3> QED BY <1>1, <1>2, <1>3, <1>4, <3>1, AtTurn DEF Turns
  <2> QED BY <2>1, <2>2 DEF LeaseFits, LookIsTrue, Looked, GrantIsAlone, Granting, GrantsOne
<1>9. CASE ~LiveAt(t.age, written[JobOf(j)])
  <2>1. u \in {Step(t), left} /\ (u = Step(t) => t.todo = {j})
    BY <1>9, <1>6
  <2> HIDE DEF u
  <2>2. u.age = t.age /\ u.todo = t.todo \ {j} /\ u.place # 4
    BY <1>6, <2>1
  <2>3. u.met = t.met
    BY <1>7, <2>1
  <2>4. LookIsTrue(s)'
    <3> SUFFICES ASSUME ~t.met
                 PROVE  /\ \A b \in Session : OpenBeat(b)' /\ tx'[b].place = 1 => tx'[b].age <= t.age
                        /\ \A k \in Job \ u.todo :
                             /\ ~LiveAt(t.age, stored[JobOf(k)])
                             /\ \A b \in Session : holder'[JobOf(k)] = b => ~OpenBeat(b)'
      BY <1>2, <1>5, <2>2, <2>3 DEF LookIsTrue, Looked
    <3>1. /\ \A b \in Session : OpenBeat(b) /\ tx[b].place = 1 => tx[b].age <= t.age
          /\ \A k \in Job \ t.todo :
               /\ ~LiveAt(t.age, stored[JobOf(k)])
               /\ \A b \in Session : holder[JobOf(k)] = b => ~OpenBeat(b)
      BY <1>1, <1>2, <1>3 DEF LookIsTrue, Looked
    <3>2. ~OpenBeat(s)' /\ \A b \in Session \ {s} : OpenBeat(b)' <=> OpenBeat(b)
      <4>1. u.call = "claim"
        BY <1>1, <1>3, <1>6, <2>1, Stepped
      <4> QED BY <1>5, <4>1 DEF OpenBeat, Raising
    <3>3. \A b \in Session : OpenBeat(b)' /\ tx'[b].place = 1 => tx'[b].age <= t.age
      BY <1>5, <3>1, <3>2
    <3>4. ASSUME NEW k \in Job \ u.todo
          PROVE  /\ ~LiveAt(t.age, stored[JobOf(k)])
                 /\ \A b \in Session : holder'[JobOf(k)] = b => ~OpenBeat(b)'
      <4>1. CASE k = j
        BY <1>1, <1>2, <1>4, <1>9, <3>2, <4>1, LeaseTypes
      <4>2. CASE k # j
        <5>1. holder'[JobOf(k)] = holder[JobOf(k)] /\ k \notin t.todo
          BY <1>1, <1>2, <1>4, <2>2, <4>2, Rows, LeaseTypes
        <5> QED BY <3>1, <3>2, <5>1
      <4> QED BY <4>1, <4>2
    <3> QED BY <3>3, <3>4
  <2>5. GrantIsAlone(s)' /\ GrantsOne(s)'
    BY <1>5, <2>2, UnpickedFits
  <2> QED BY <2>4, <2>5 DEF LeaseFits
<1> QED BY <1>8, <1>9

\* The pick: what the look has found holds until the job is written.
LEMMA PickQueuedFits ==
  ASSUME LeaseInv, TxnInv', NEW s \in Session, PickQueued(s)
  PROVE  LeaseFits(s)'
<1> DEFINE t == tx[s]
           u == Return(t)
<1>1. TxnInv /\ t \in Transaction /\ tx \in [Session -> Transaction] /\ LookIsTrue(s)
  BY DEF LeaseInv, LeaseFits, TxnInv, TxnTypeOK
<1>2. /\ t.call = "claim" /\ t.place = 3 /\ t.todo = {}
      /\ tx' = [tx EXCEPT ![s] = u] /\ stored' = stored
  <2>1. t.call = "claim" /\ t.place = 3 /\ tx' = [tx EXCEPT ![s] = u] /\ stored' = stored
    BY <1>1, StatementAt DEF PickQueued, Goto
  <2> QED BY <1>1, <2>1 DEF TxnInv, SessionInv, Shaped
<1>3. u.call = "claim" /\ u.place = 4
  BY <1>1, <1>2, Returned
<1>4. u.met = t.met
  BY <1>1, Returned
<1> HIDE DEF u
<1>5. tx'[s] = u /\ \A q \in Session \ {s} : tx'[q] = tx[q]
  BY <1>1, <1>2
<1>6. \/ holder' = holder /\ written' = written
      \/ \E j \in Job : \A k \in Job \ {j} : /\ holder'[JobOf(k)] = holder[JobOf(k)]
                                             /\ written'[JobOf(k)] = written[JobOf(k)]
  <2>1. CASE holder' = holder /\ written' = written
    BY <2>1
  <2>2. ASSUME NEW j \in Job, holder' = [holder EXCEPT ![JobOf(j)] = s],
               NEW row, written' = [written EXCEPT ![JobOf(j)] = row]
        PROVE  \A k \in Job \ {j} : /\ holder'[JobOf(k)] = holder[JobOf(k)]
                                    /\ written'[JobOf(k)] = written[JobOf(k)]
    BY <1>1, <2>2, Rows DEF TxnInv, TxnTypeOK, Tables
  <2> QED BY <2>1, <2>2 DEF PickQueued
<1>7. \A k \in Job : holder[JobOf(k)] = s => written[JobOf(k)] = stored[JobOf(k)]
  BY <1>1, <1>2, AtTurn DEF Turns
<1>8. GrantsOne(s)'
  BY <1>2, <1>6, <1>7 DEF GrantsOne, Grants
<1>9. \A k \in Job : holder'[JobOf(k)] \in {holder[JobOf(k)], s}
  BY <1>1, Rows, SilentRows DEF Silent
<1>10. GrantIsAlone(s)'
  <2> SUFFICES ASSUME ~t.met, NEW k \in Job
               PROVE  /\ ~LiveAt(0, stored[JobOf(k)])
                      /\ \A b \in Session : OpenBeat(b)' =>
                           /\ holder'[JobOf(k)] # b
                           /\ tx'[b].place = 1 => ~LiveAt(tx'[b].age, stored[JobOf(k)])
    BY <1>2, <1>4, <1>5 DEF GrantIsAlone, Granting
  <2>1. /\ \A b \in Session : OpenBeat(b) /\ tx[b].place = 1 => tx[b].age <= t.age
        /\ ~LiveAt(t.age, stored[JobOf(k)])
        /\ \A b \in Session : holder[JobOf(k)] = b => ~OpenBeat(b)
    BY <1>1, <1>2 DEF LookIsTrue, Looked
  <2>2. ~LiveAt(0, stored[JobOf(k)])
    <3>1. 0 <= t.age
      BY <1>1, LeaseTypes
    <3> QED BY <1>1, <2>1, <3>1, LeaseTypes, LiveLater
  <2>3. ASSUME NEW b \in Session, OpenBeat(b)'
        PROVE  /\ holder'[JobOf(k)] # b
               /\ tx'[b].place = 1 => ~LiveAt(tx'[b].age, stored[JobOf(k)])
    <3>1. b # s /\ OpenBeat(b) /\ tx'[b] = tx[b]
      BY <1>3, <1>5, <2>3 DEF OpenBeat, Raising
    <3>2. holder'[JobOf(k)] # b
      BY <1>9, <2>1, <3>1
    <3>3. tx[b].place = 1 => ~LiveAt(tx[b].age, stored[JobOf(k)])
      BY <1>1, <2>1, <3>1, LeaseTypes, LiveLater
    <3> QED BY <3>1, <3>2, <3>3
  <2> QED BY <2>2, <2>3
<1>11. LookIsTrue(s)'
  BY <1>3, <1>5 DEF LookIsTrue, Looked
<1> QED BY <1>8, <1>10, <1>11 DEF LeaseFits

LEMMA SilentFits ==
  ASSUME LeaseInv, NEW s \in Session, Silent(s)
  PROVE  LeaseInv'
<1>1. TxnInv /\ TxnInv'
  BY SilentKeeps DEF LeaseInv
<1>2. \A c \in Session \ {s} : LeaseFits(c)'
  BY <1>1, SilentRows, BeatSteps, OthersFit DEF SilentStep
<1>3. LeaseFits(s)'
  <2>1. tx[s] \in Transaction /\ tx \in [Session -> Transaction]
    BY <1>1 DEF TxnInv, TxnTypeOK
  <2>2. CASE TakeAdvisory(s)
    <3>1. tx'[s] = Step(tx[s]) /\ tx[s].place = 1
      BY <2>1, <2>2, StatementAt DEF TakeAdvisory, Goto
    <3>2. tx'[s].place = 2 /\ tx'[s].phase = "start"
      BY <2>1, <3>1, Stepped
    <3>3. LookIsTrue(s)'
      BY <3>2 DEF LookIsTrue, Looked
    <3> QED BY <1>1, <3>2, <3>3, UnpickedFits DEF LeaseFits
  <2>3. CASE StartLive(s) \/ LockLive(s) \/ PickQueued(s)
    BY <1>1, <2>3, StartLiveFits, LockLiveFits, PickQueuedFits
  <2>4. CASE WaitForJob(s) \/ LockJob(s) \/ LockMarket(s) \/ SkipMarket(s) \/ PickExpired(s)
    <3>1. advisory' = advisory
      BY <2>4 DEF WaitForJob, LockJob, LockMarket, SkipMarket, PickExpired
    <3>2. tx[s].call # "claim"
      BY <2>1, <2>4, StatementAt DEF WaitForJob, LockJob, LockMarket, SkipMarket, PickExpired
    <3>3. advisory # s
      BY <1>1, <2>1, <2>4, StatementAt
         DEF WaitForJob, LockJob, LockMarket, SkipMarket, PickExpired, TxnInv, ClaimsInTurn, Turns
    <3> QED BY <1>1, <3>1, <3>3, UnlockedFits
  <2>5. CASE StartActive(s) \/ LockActive(s) \/ Insert(s)
    <3>1. tx[s].call = "create" /\ tx[s].place \in {2, 3} /\ tx[s].call \in Turns
      BY <2>1, <2>5, StatementAt DEF StartActive, LockActive, Insert, Turns
    <3>2. \E u : /\ tx' = [tx EXCEPT ![s] = u]
                 /\ u.call = "create"
      <4> DEFINE Locks(S) == [tx[s] EXCEPT !.phase = "lock", !.todo = S]
                 Left(k) == [tx[s] EXCEPT !.todo = @ \ {k}]
                 active == {k \in Job : /\ stored[JobOf(k)].state \in ActiveStates
                                        /\ \E j \in tx[s].jobs : account[k] = account[j]}
      <4>1. Step(tx[s]).call = "create" /\ Return(tx[s]).call = "create"
        BY <2>1, <3>1, Stepped, Returned
      <4>2. \A S : Locks(S).call = "create" /\ Left(S).call = "create"
        BY <2>1, <3>1 DEF Transaction
      <4>3. StartActive(s) => tx' = [tx EXCEPT ![s] = IF active = {} THEN Step(tx[s]) ELSE Locks(active)]
        BY DEF StartActive, Goto
      <4>4. LockActive(s) => \E k : \/ tx' = [tx EXCEPT ![s] = Return(tx[s])]
                                    \/ tx' = [tx EXCEPT ![s] = Step(tx[s])]
                                    \/ tx' = [tx EXCEPT ![s] = Left(k)]
        BY DEF LockActive, Goto
      <4>5. Insert(s) => tx' = [tx EXCEPT ![s] = Step(tx[s])]
        BY DEF Insert, Goto
      <4> HIDE DEF Locks, Left, active
      <4> QED BY <2>5, <4>1, <4>2, <4>3, <4>4, <4>5
    <3>3. tx'[s].call = "create"
      BY <2>1, <3>2
    <3> QED BY <3>3, OtherCallFits
  <2> QED BY <2>2, <2>3, <2>4, <2>5 DEF Silent
<1> QED BY <1>1, <1>2, <1>3 DEF LeaseInv

LEMMA BeginFits ==
  ASSUME LeaseInv, NEW s \in Session, NEW c \in Call, NEW w \in Worker \cup {Nobody}, NEW j \in Job,
         c \in WorkerCall => w \in Worker,
         Begin(s, c, w, j)
  PROVE  LeaseInv'
<1> DEFINE u == [Idle EXCEPT !.call = c, !.worker = w,
                             !.jobs = IF c \in {"claim", "requeue"} THEN {} ELSE {j}]
<1>1. TxnInv /\ TxnInv'
  BY BeginKeeps DEF LeaseInv
<1>2. /\ tx[s].call = "none" /\ Finds(u) /\ tx' = [tx EXCEPT ![s] = u]
      /\ UNCHANGED <<rowVars, advisory>>
  BY DEF Begin, Goto
<1>3. /\ u.call = c /\ u.place = 1 /\ u.age = 0
      /\ u.jobs = IF c \in {"claim", "requeue"} THEN {} ELSE {j}
  BY DEF Idle
<1> HIDE DEF u
<1>4. tx'[s] = u /\ \A q \in Session \ {s} : tx'[q] = tx[q]
  BY <1>1, <1>2 DEF TxnInv, TxnTypeOK
<1>5. c = "beat" => LiveAt(0, stored[JobOf(j)])
  <2> SUFFICES ASSUME c = "beat"
               PROVE  LiveAt(0, stored[JobOf(j)])
    OBVIOUS
  <2>1. JobMatches(u, stored[JobOf(j)])
    BY <1>2, <1>3, Calls DEF Finds
  <2> QED BY <1>3, <2>1 DEF JobMatches, Owned, LiveAt
<1>6. SilentStep(s)
  BY <1>2, <1>3, <1>4, <1>5 DEF SilentStep, BeatStep, OpenBeat, rowVars
<1>7. advisory' # s
  BY <1>1, <1>2 DEF TxnInv, TxnTypeOK
<1> QED BY <1>1, <1>6, <1>7, OthersFit, UnlockedFits DEF LeaseInv

\* As leases shorten, transactions grow older: what was live for one stays so.
LEMMA AgedLive ==
  ASSUME NEW row \in JobRow, NEW m \in 0 .. MaxAge
  PROVE  /\ m < MaxAge => (LiveAt(m + 1, Aged(row)) <=> LiveAt(m, row))
         /\ LiveAt(0, Aged(row)) => LiveAt(0, row)
<1>1. row.lease \in Never .. LeaseTime /\ Never = -(MaxAge + 1) /\ MaxAge \in Nat /\ LeaseTime \in Nat
  BY TxnAssumption DEF JobRow, Never
<1>2. /\ Aged(row).state = row.state
      /\ Aged(row).lease = (IF row.lease > Never THEN row.lease - 1 ELSE row.lease)
  BY AgedRow
<1> QED BY <1>1, <1>2 DEF LiveAt

LEMMA TickFits ==
  ASSUME LeaseInv, Tick
  PROVE  LeaseInv'
<1>1. TxnInv /\ TxnInv' /\ holder' = holder
  BY TickKeeps DEF LeaseInv, Tick
<1>2. \A j \in Job : /\ stored'[JobOf(j)] = Aged(stored[JobOf(j)])
                     /\ written'[JobOf(j)] = Aged(written[JobOf(j)])
  BY <1>1, TickRows
<1>3. \A s \in Session : /\ tx'[s].call = tx[s].call /\ tx'[s].place = tx[s].place
                         /\ tx'[s].phase = tx[s].phase /\ tx'[s].todo = tx[s].todo
                         /\ OpenBeat(s)' <=> OpenBeat(s)
  BY <1>1, TickSession DEF OpenBeat, Raising
<1>4. \A s \in Session : tx'[s].met = tx[s].met
  <2> SUFFICES ASSUME NEW s \in Session
               PROVE  tx'[s].met = tx[s].met
    OBVIOUS
  <2>1. tx[s] \in Transaction
    BY <1>1, LeaseTypes
  <2>2. [tx[s] EXCEPT !.age = @ + 1].met = tx[s].met
    BY <2>1 DEF Transaction
  <2> QED BY <1>1, <2>2, TickRows
<1>5. ASSUME NEW s \in Session, tx[s].phase # "raise", UsesNow(s)
      PROVE  tx'[s].age = tx[s].age + 1
  <2>1. tx[s] \in Transaction
    BY <1>1, LeaseTypes
  <2>2. [tx[s] EXCEPT !.age = @ + 1].age = tx[s].age + 1
    BY <2>1 DEF Transaction
  <2> QED BY <1>1, <1>5, <2>2, TickRows
<1>6. ASSUME NEW c \in Session, Looked(c)
      PROVE  tx'[c].age = tx[c].age + 1
  <2>1. tx[c] \in Transaction /\ tx[c].phase # "raise"
    BY <1>1, <1>6 DEF Looked, TxnInv, TxnTypeOK, SessionInv, Shaped, OneJobCalls
  <2>2. UsesNow(c)
    BY <1>6, <2>1, StatementAt DEF Looked, UsesNow
  <2> QED BY <1>5, <2>1, <2>2
<1>7. ASSUME NEW b \in Session, OpenBeat(b), tx[b].place = 1
      PROVE  tx'[b].age = tx[b].age + 1
  BY <1>5, <1>7 DEF OpenBeat, Raising, UsesNow
<1>8. \A s \in Session : tx[s].age \in 0 .. MaxAge /\ tx[s].age < MaxAge
  BY <1>1, LeaseTypes DEF Tick
<1>9. \A c \in Session, j \in Job : Grants(c, j)' => Grants(c, j)
  BY <1>1, <1>2 DEF Grants
<1>10. ASSUME NEW c \in Session
       PROVE  LeaseFits(c)'
  <2>1. LookIsTrue(c) /\ GrantIsAlone(c) /\ GrantsOne(c)
    BY DEF LeaseInv, LeaseFits
  <2>2. LookIsTrue(c)'
    <3> SUFFICES ASSUME Looked(c)
                 PROVE  /\ \A b \in Session : OpenBeat(b) /\ tx[b].place = 1 => tx'[b].age <= tx'[c].age
                        /\ \A k \in Job \ tx[c].todo :
                             /\ ~LiveAt(tx'[c].age, stored'[JobOf(k)])
                             /\ \A b \in Session : holder[JobOf(k)] = b => ~OpenBeat(b)
      BY <1>1, <1>3, <1>4 DEF LookIsTrue, Looked
    <3>1. /\ \A b \in Session : OpenBeat(b) /\ tx[b].place = 1 => tx[b].age <= tx[c].age
          /\ \A k \in Job \ tx[c].todo :
               /\ ~LiveAt(tx[c].age, stored[JobOf(k)])
               /\ \A b \in Session : holder[JobOf(k)] = b => ~OpenBeat(b)
      BY <2>1 DEF LookIsTrue
    <3>2. \A b \in Session : OpenBeat(b) /\ tx[b].place = 1 => tx'[b].age <= tx'[c].age
      BY <1>6, <1>7, <1>8, <3>1
    <3>3. \A k \in Job \ tx[c].todo : ~LiveAt(tx'[c].age, stored'[JobOf(k)])
      BY <1>1, <1>2, <1>6, <1>8, <3>1, AgedLive, LeaseTypes
    <3> QED BY <3>1, <3>2, <3>3
  <2>3. GrantIsAlone(c)'
    <3> SUFFICES ASSUME Granting(c), NEW k \in Job
                 PROVE  /\ ~LiveAt(0, stored'[JobOf(k)])
                        /\ \A b \in Session : OpenBeat(b) =>
                             /\ holder[JobOf(k)] # b
                             /\ tx[b].place = 1 => ~LiveAt(tx'[b].age, stored'[JobOf(k)])
      BY <1>1, <1>3, <1>4, <1>9 DEF GrantIsAlone, Granting
    <3>1. /\ ~LiveAt(0, stored[JobOf(k)])
          /\ \A b \in Session : OpenBeat(b) =>
               /\ holder[JobOf(k)] # b
               /\ tx[b].place = 1 => ~LiveAt(tx[b].age, stored[JobOf(k)])
      BY <2>1 DEF GrantIsAlone
    <3>2. ~LiveAt(0, stored'[JobOf(k)])
      BY <1>1, <1>2, <1>8, <2>1, <3>1, AgedLive, LeaseTypes
    <3>3. ASSUME NEW b \in Session, OpenBeat(b), tx[b].place = 1
          PROVE  ~LiveAt(tx'[b].age, stored'[JobOf(k)])
      BY <1>1, <1>2, <1>7, <1>8, <3>1, <3>3, AgedLive, LeaseTypes
    <3> QED BY <3>1, <3>2, <3>3
  <2>4. GrantsOne(c)'
    BY <1>3, <1>9, <2>1 DEF GrantsOne
  <2> QED BY <2>2, <2>3, <2>4 DEF LeaseFits
<1> QED BY <1>1, <1>10 DEF LeaseInv

\* A step that commits: rows that change were not a claim's to look at, or are not live.
LEMMA CommitFits ==
  ASSUME LeaseInv, TxnInv', NEW c \in Session,
         advisory = c => tx'[c] = tx[c],
         advisory' = c => advisory = c,
         \A b \in Session : OpenBeat(b)' => OpenBeat(b) /\ tx'[b] = tx[b],
         \A k \in Job, b \in Session :
           holder'[JobOf(k)] = b =>
             holder[JobOf(k)] = b /\ stored'[JobOf(k)] = stored[JobOf(k)] /\ written'[JobOf(k)] = written[JobOf(k)],
         advisory = c => \A k \in Job :
           \/ stored'[JobOf(k)] = stored[JobOf(k)]
           \/ stored'[JobOf(k)].state # "running"
           \/ \E b \in Session : holder[JobOf(k)] = b /\ OpenBeat(b)
  PROVE  LeaseFits(c)'
<1>1. TxnInv /\ LookIsTrue(c) /\ GrantIsAlone(c) /\ GrantsOne(c)
  BY DEF LeaseInv, LeaseFits
<1>2. CASE advisory' # c
  BY <1>2, UnlockedFits
<1>3. CASE advisory' = c
  <2>1. tx'[c] = tx[c] /\ advisory = c
    BY <1>3
  <2>2. \A j \in Job : Grants(c, j)' => Grants(c, j)
    BY DEF Grants
  <2>3. Looked(c)' = Looked(c) /\ (Granting(c)' => Granting(c))
    BY <2>1, <2>2 DEF Looked, Granting
  <2>4. LookIsTrue(c)'
    <3> SUFFICES ASSUME Looked(c)
                 PROVE  /\ \A b \in Session : OpenBeat(b)' /\ tx'[b].place = 1 => tx'[b].age <= tx[c].age
                        /\ \A k \in Job \ tx[c].todo :
                             /\ ~LiveAt(tx[c].age, stored'[JobOf(k)])
                             /\ \A b \in Session : holder'[JobOf(k)] = b => ~OpenBeat(b)'
      BY <2>1, <2>3 DEF LookIsTrue
    <3>1. /\ \A b \in Session : OpenBeat(b) /\ tx[b].place = 1 => tx[b].age <= tx[c].age
          /\ \A k \in Job \ tx[c].todo :
               /\ ~LiveAt(tx[c].age, stored[JobOf(k)])
               /\ \A b \in Session : holder[JobOf(k)] = b => ~OpenBeat(b)
      BY <1>1 DEF LookIsTrue
    <3>2. \A k \in Job \ tx[c].todo : ~LiveAt(tx[c].age, stored'[JobOf(k)])
      BY <2>1, <3>1 DEF LiveAt
    <3> QED BY <3>1, <3>2
  <2>5. GrantIsAlone(c)'
    <3> SUFFICES ASSUME Granting(c), NEW k \in Job
                 PROVE  /\ ~LiveAt(0, stored'[JobOf(k)])
                        /\ \A b \in Session : OpenBeat(b)' =>
                             /\ holder'[JobOf(k)] # b
                             /\ tx'[b].place = 1 => ~LiveAt(tx'[b].age, stored'[JobOf(k)])
      BY <2>3 DEF GrantIsAlone
    <3>1. /\ ~LiveAt(0, stored[JobOf(k)])
          /\ \A b \in Session : OpenBeat(b) =>
               /\ holder[JobOf(k)] # b
               /\ tx[b].place = 1 => ~LiveAt(tx[b].age, stored[JobOf(k)])
      BY <1>1 DEF GrantIsAlone
    <3>2. stored'[JobOf(k)] = stored[JobOf(k)] \/ stored'[JobOf(k)].state # "running"
      BY <2>1, <3>1
    <3> QED BY <3>1, <3>2 DEF LiveAt
  <2>6. GrantsOne(c)'
    BY <1>1, <2>1, <2>2 DEF GrantsOne
  <2> QED BY <2>4, <2>5, <2>6 DEF LeaseFits
<1> QED BY <1>2, <1>3

\* What is common to the ends of a transaction
LEMMA CloseFits ==
  ASSUME LeaseInv, TxnInv', NEW s \in Session, NEW rows, Close(s, rows),
         advisory # s => \A k \in Job :
           \/ stored'[JobOf(k)] = stored[JobOf(k)]
           \/ stored'[JobOf(k)].state # "running"
           \/ holder[JobOf(k)] = s /\ OpenBeat(s)
  PROVE  LeaseInv'
<1>1. TxnInv /\ tx \in [Session -> Transaction]
  BY DEF LeaseInv, TxnInv, TxnTypeOK
<1>2. /\ tx'[s] = Idle /\ \A q \in Session \ {s} : tx'[q] = tx[q]
      /\ advisory' = IF advisory = s THEN Nobody ELSE advisory
      /\ \A r \in Row : /\ stored'[r] = (IF holder[r] = s THEN rows[r] ELSE stored[r])
                        /\ written'[r] = (IF holder[r] = s THEN rows[r] ELSE written[r])
                        /\ holder'[r] = (IF holder[r] = s THEN Nobody ELSE holder[r])
  BY <1>1 DEF Close, Goto
<1>3. ASSUME NEW k \in Job, NEW b \in Session, holder'[JobOf(k)] = b
      PROVE  /\ holder[JobOf(k)] = b
             /\ stored'[JobOf(k)] = stored[JobOf(k)] /\ written'[JobOf(k)] = written[JobOf(k)]
  BY <1>2, <1>3, TxnAssumption, Rows
<1>4. \A b \in Session : OpenBeat(b)' => OpenBeat(b) /\ tx'[b] = tx[b]
  BY <1>2, IdleType DEF OpenBeat, Raising
<1>5. ASSUME NEW c \in Session
      PROVE  LeaseFits(c)'
  <2>1. CASE c = s
    <3>1. advisory' # s
      BY <1>2, TxnAssumption
    <3> QED BY <2>1, <3>1, UnlockedFits
  <2>2. CASE c # s
    BY <1>2, <1>3, <1>4, <2>2, CommitFits, TxnAssumption
  <2> QED BY <2>1, <2>2
<1> QED BY <1>5 DEF LeaseInv

LEMMA CommitRowLive ==
  ASSUME TxnInv, NEW s \in Session, Commit(s), NEW k \in Job, tx[s].call # "claim"
  PROVE  \/ stored'[JobOf(k)] = stored[JobOf(k)]
         \/ stored'[JobOf(k)].state # "running"
         \/ holder[JobOf(k)] = s /\ tx[s].call = "beat"
<1>1. Commits(tx[s], stored[JobOf(k)], stored'[JobOf(k)], stored[MarketOf(k)], stored'[MarketOf(k)])
  BY CommitRows
<1>2. stored'[JobOf(k)] = (IF holder[JobOf(k)] = s THEN written[JobOf(k)] ELSE stored[JobOf(k)])
  BY CommitRows
<1>3. \A state \in {"queued", "completed", "failed", "cancelled"} : Lost(state).state # "running"
  BY DEF Lost
<1> QED BY <1>1, <1>2, <1>3 DEF Commits

LEMMA AtCommit ==
  ASSUME TxnInv, NEW s \in Session, Commit(s)
  PROVE  /\ ~Raising(s) /\ tx[s].call # "none" /\ Close(s, written)
         /\ tx[s].call = "claim" => tx[s].place = 4 /\ advisory = s
<1>1. tx[s] \in Transaction /\ Shaped(tx[s])
  BY DEF TxnInv, TxnTypeOK, SessionInv
<1>2. /\ tx[s].call # "none" /\ Close(s, written)
      /\ \/ tx[s].place = 4
         \/ tx[s].place = 3 /\ tx[s].call \notin Turns
         \/ tx[s].place = 2 /\ tx[s].call \in {"beat", "request"}
  BY <1>1, StatementAt DEF Commit
<1>3. ~Raising(s)
  BY <1>1, <1>2 DEF Shaped, Raising
<1>4. tx[s].call = "claim" => tx[s].place = 4 /\ advisory = s
  BY <1>2 DEF TxnInv, ClaimsInTurn, Turns
<1> QED BY <1>2, <1>3, <1>4

LEMMA EndFits ==
  ASSUME LeaseInv, NEW s \in Session, Commit(s) \/ (tx[s].call # "none" /\ Close(s, stored))
  PROVE  LeaseInv'
<1>1. TxnInv
  BY DEF LeaseInv
<1>2. CASE Commit(s)
  <2>1. TxnInv' /\ Close(s, written)
    BY <1>1, <1>2, CommitKeeps, AtCommit
  <2>2. advisory # s => tx[s].call # "claim" /\ (tx[s].call = "beat" => OpenBeat(s))
    BY <1>1, <1>2, AtCommit DEF OpenBeat
  <2>3. advisory # s => \A k \in Job :
          \/ stored'[JobOf(k)] = stored[JobOf(k)]
          \/ stored'[JobOf(k)].state # "running"
          \/ holder[JobOf(k)] = s /\ OpenBeat(s)
    BY <1>1, <1>2, <2>2, CommitRowLive
  <2> QED BY <2>1, <2>3, CloseFits
<1>3. CASE tx[s].call # "none" /\ Close(s, stored)
  <2>1. TxnInv' /\ stored' = stored
    BY <1>1, <1>3, UndoKeeps, Undone
  <2> QED BY <1>3, <2>1, CloseFits
<1> QED BY <1>2, <1>3

LEMMA LeaseInvInit == TxnInit => LeaseInv
<1> SUFFICES ASSUME TxnInit
             PROVE  LeaseInv
  OBVIOUS
<1>1. TxnInv
  BY TxnInvInit
<1>2. \A c \in Session : tx[c].call = "none"
  BY IdleType DEF TxnInit
<1> QED BY <1>1, <1>2 DEF LeaseInv, LeaseFits, LookIsTrue, Looked, GrantIsAlone, Granting, GrantsOne

LEMMA LeaseInvNext == LeaseInv /\ [TxnNext]_txnVars => LeaseInv'
<1> SUFFICES ASSUME LeaseInv, [TxnNext]_txnVars
             PROVE  LeaseInv'
  OBVIOUS
<1>1. TxnInv
  BY DEF LeaseInv
<1>2. CASE TxnNext
  BY <1>1, <1>2, StepCases, TickFits, EndFits, SilentFits, BeginFits
<1>3. CASE UNCHANGED txnVars
  <2>1. TxnInv'
    BY <1>1, <1>3, TxnInvNext
  <2> QED BY <1>3, <2>1 DEF txnVars, rowVars, LeaseInv, LeaseFits, LookIsTrue, Looked, GrantIsAlone,
             Granting, GrantsOne, Grants, OpenBeat, Raising
<1> QED BY <1>2, <1>3

\* Which commits can make a second lease live
LEMMA SecondLease ==
  ASSUME LeaseInv, NEW s \in Session, Commit(s), OneLive, ~OneLive'
  PROVE  tx[s].call = "beat" \/ (tx[s].call = "claim" /\ tx[s].met)
<1> SUFFICES ASSUME tx[s].call # "beat", tx[s].call = "claim" => ~tx[s].met
             PROVE  OneLive'
  OBVIOUS
<1>1. TxnInv
  BY DEF LeaseInv
<1>2. CASE tx[s].call # "claim"
  <2>1. \A k \in Job : LiveAt(0, stored'[JobOf(k)]) => LiveAt(0, stored[JobOf(k)])
    BY <1>1, <1>2, CommitRowLive DEF LiveAt
  <2> QED BY <2>1 DEF OneLive
<1>3. CASE tx[s].call = "claim"
  <2>1. tx[s].place = 4 /\ GrantIsAlone(s) /\ GrantsOne(s)
    BY <1>1, <1>3, AtCommit DEF LeaseInv, LeaseFits
  <2>2. \A k \in Job : stored'[JobOf(k)] # stored[JobOf(k)] => Grants(s, k)
    BY <1>1, CommitRows DEF Grants
  <2>3. CASE \E j \in Job : Grants(s, j)
    <3>1. \A k \in Job : ~LiveAt(0, stored[JobOf(k)])
      BY <1>3, <2>1, <2>3 DEF GrantIsAlone, Granting
    <3>2. \A k \in Job : LiveAt(0, stored'[JobOf(k)]) => Grants(s, k)
      BY <2>2, <3>1
    <3> QED BY <1>3, <2>1, <3>2 DEF OneLive, GrantsOne
  <2>4. CASE ~ \E j \in Job : Grants(s, j)
    BY <2>2, <2>4 DEF OneLive
  <2> QED BY <2>3, <2>4
<1> QED BY <1>2, <1>3

\* Two leases are live at once only where a heartbeat and a claim have met: the heartbeat
\* began before its lease ran out and was still open when the claim looked.
THEOREM LeasesMeetAcrossABeatAlways == TxnSpec => LeasesMeetAcrossABeat
<1> DEFINE Meets == ~OneLive' /\ OneLive =>
                      \E s \in Session : /\ tx[s].call = "beat" \/ (tx[s].call = "claim" /\ tx[s].met)
                                         /\ tx'[s] = Idle
<1>1. LeaseInv /\ [TxnNext]_txnVars => [Meets]_stored
  <2> SUFFICES ASSUME LeaseInv, [TxnNext]_txnVars, stored' # stored, OneLive, ~OneLive'
               PROVE  \E s \in Session : /\ tx[s].call = "beat" \/ (tx[s].call = "claim" /\ tx[s].met)
                                         /\ tx'[s] = Idle
    OBVIOUS
  <2>1. TxnInv
    BY DEF LeaseInv
  <2>2. ASSUME Tick
        PROVE  FALSE
    <3>1. \A k \in Job : LiveAt(0, stored'[JobOf(k)]) => LiveAt(0, stored[JobOf(k)])
      <4> SUFFICES ASSUME NEW k \in Job
                   PROVE  LiveAt(0, stored'[JobOf(k)]) => LiveAt(0, stored[JobOf(k)])
        OBVIOUS
      <4>1. stored'[JobOf(k)] = Aged(stored[JobOf(k)]) /\ stored[JobOf(k)] \in JobRow
        BY <2>1, <2>2, TickRows, LeaseTypes
      <4>2. 0 \in 0 .. MaxAge
        BY TxnAssumption
      <4> QED BY <4>1, <4>2, AgedLive
    <3> QED BY <3>1 DEF OneLive
  <2>3. ASSUME NEW s \in Session, Commit(s)
        PROVE  /\ tx[s].call = "beat" \/ (tx[s].call = "claim" /\ tx[s].met)
               /\ tx'[s] = Idle
    <3>1. tx'[s] = Idle
      BY <2>1, <2>3, AtCommit DEF Close, Goto, TxnInv, TxnTypeOK
    <3> QED BY <2>3, <3>1, SecondLease
  <2>4. \A s \in Session : ~Silent(s) /\ ~Close(s, stored)
    BY <2>1, SilentKeeps, Undone
  <2>5. \A s \in Session, k \in Job, c \in Call, w \in Worker \cup {Nobody} : ~Begin(s, c, w, k)
    BY DEF Begin, rowVars
  <2>6. TxnNext
    BY DEF txnVars, rowVars
  <2> QED BY <2>1, <2>2, <2>3, <2>4, <2>5, <2>6, StepCases
<1>2. TxnSpec => []LeaseInv
  BY LeaseInvInit, LeaseInvNext, PTL DEF TxnSpec
<1> QED BY <1>1, <1>2, PTL DEF TxnSpec, LeasesMeetAcrossABeat
-----------------------------------------------------------------------------
(* Creates *)

\* A job that is active only where nobody else sees it yet has a create that is about
\* to commit it.
NewIsCreated ==
  \A k \in Job :
    written[JobOf(k)].state \in ActiveStates /\ stored[JobOf(k)].state \notin ActiveStates =>
      \E s \in Session : holder[JobOf(k)] = s /\ tx[s].call = "create" /\ tx[s].place = 4

\* A create that has looked for the account's active job has it in its list, or may insert.
CreateFits(c) ==
  tx[c].call = "create" /\ (tx[c].place = 3 \/ (tx[c].place = 2 /\ tx[c].phase = "lock")) =>
    \A j \in tx[c].jobs, k \in Job :
      MayBeActive(k) /\ account[k] = account[j] => tx[c].place = 2 /\ k \in tx[c].todo

CreateInv ==
  /\ TxnInv /\ CreatesNeverCollide /\ NewIsCreated
  /\ \A c \in Session : CreateFits(c)

LEMMA ActiveRows ==
  ASSUME NEW k
  PROVE  /\ MayBeActive(k) <=> stored[JobOf(k)].state \in ActiveStates \/ written[JobOf(k)].state \in ActiveStates
         /\ MayBeActive(k)' <=> stored'[JobOf(k)].state \in ActiveStates \/ written'[JobOf(k)].state \in ActiveStates
BY DEF MayBeActive

\* Only an insert makes a job active that was not.
LEMMA SilentActive ==
  ASSUME TxnInv, NEW s \in Session, Silent(s), NEW k \in Job, MayBeActive(k)'
  PROVE  MayBeActive(k) \/ (Insert(s) /\ tx[s].jobs = {k})
<1>1. stored' = stored /\ tx[s] \in Transaction
  BY SilentRows DEF TxnInv, TxnTypeOK
<1> SUFFICES ASSUME written'[JobOf(k)].state \in ActiveStates
             PROVE  MayBeActive(k) \/ (Insert(s) /\ tx[s].jobs = {k})
  BY <1>1, ActiveRows
<1>2. CASE written'[JobOf(k)] = written[JobOf(k)]
  BY <1>2, ActiveRows
<1>3. CASE written'[JobOf(k)] # written[JobOf(k)]
  <2>1. CASE LockJob(s)
    <3>1. PICK j \in tx[s].jobs :
            IF JobMatches(tx[s], written[JobOf(j)])
            THEN written' = [written EXCEPT ![JobOf(j)] = JobWritten(tx[s], @)] ELSE written' = written
      BY <2>1 DEF LockJob
    <3>2. j \in Job /\ tx[s].call \in OneJobCalls
      BY <2>1, <3>1, AtJob DEF LockJob
    <3>3. JobMatches(tx[s], written[JobOf(j)]) /\ k = j
      BY <1>3, <3>1, <3>2, Rows DEF TxnInv, Tables
    <3>4. written[JobOf(k)].state \in ActiveStates
      BY <3>2, <3>3, Calls DEF JobMatches, Owned, ActiveStates, OneJobCalls
    <3> QED BY <3>4, ActiveRows
  <2>2. CASE LockMarket(s)
    <3>1. PICK j \in tx[s].jobs : \E row : written' = [written EXCEPT ![MarketOf(j)] = row]
      BY <2>2 DEF LockMarket
    <3> QED BY <1>1, <1>3, <3>1, Rows DEF Transaction, TxnInv, Tables
  <2>3. CASE PickQueued(s)
    <3>1. \E j \in Job : /\ View(s, JobOf(j)).state = "queued"
                         /\ written' = [written EXCEPT ![JobOf(j)] = JobWritten(tx[s], @)]
      BY <1>3, <2>3 DEF PickQueued
    <3>2. View(s, JobOf(k)).state = "queued"
      BY <1>3, <3>1, Rows DEF TxnInv, Tables
    <3> QED BY <3>2, ActiveRows DEF View, ActiveStates
  <2>4. CASE PickExpired(s)
    <3>1. PICK S \in Picks(s) :
            written' = [r \in Row |-> IF r[1] = "job" /\ r[2] \in S
                                      THEN JobWritten(tx[s], written[r]) ELSE written[r]]
      BY <2>4 DEF PickExpired
    <3>2. k \in S
      BY <1>3, <3>1, Rows
    <3> QED BY <3>2, ActiveRows DEF Picks, ActiveStates
  <2>5. CASE Insert(s)
    <3>1. PICK j \in Job : /\ tx[s].jobs = {j}
                           /\ \A i \in Job \ {j} : written'[JobOf(i)] = written[JobOf(i)]
      BY <2>5, Inserted
    <3> QED BY <1>3, <2>5, <3>1
  <2>6. CASE TakeAdvisory(s) \/ WaitForJob(s) \/ SkipMarket(s) \/ StartLive(s) \/ LockLive(s)
             \/ StartActive(s) \/ LockActive(s)
    BY <1>3, <2>6 DEF TakeAdvisory, WaitForJob, SkipMarket, StartLive, LockLive, StartActive, LockActive, rowVars
  <2> QED BY <2>1, <2>2, <2>3, <2>4, <2>5, <2>6 DEF Silent
<1> QED BY <1>2, <1>3

\* A session whose call is all done but for its commit does nothing else.
LEMMA SilentGoesOn ==
  ASSUME TxnInv, NEW s \in Session, Silent(s)
  PROVE  tx[s].place # 4
<1>1. Statement(s) # "commit"
  BY DEF Silent, TakeAdvisory, WaitForJob, LockJob, LockMarket, SkipMarket, StartLive, LockLive,
         PickQueued, PickExpired, StartActive, LockActive, Insert
<1> QED BY <1>1, StatementAt DEF TxnInv, TxnTypeOK

\* The steps of the other calls are no create's.
LEMMA OtherCallStays ==
  ASSUME TxnInv, NEW s \in Session,
         WaitForJob(s) \/ LockJob(s) \/ LockMarket(s) \/ SkipMarket(s) \/ StartLive(s) \/ LockLive(s)
         \/ PickQueued(s) \/ PickExpired(s)
  PROVE  tx'[s].call # "create"
<1> DEFINE t == tx[s]
           Looking(b) == [t EXCEPT !.met = b]
           Locks(S, v) == [v EXCEPT !.phase = "lock", !.todo = S]
           Todo(S) == [t EXCEPT !.todo = S]
           Jobs(S) == [t EXCEPT !.jobs = S]
<1>1. t \in Transaction /\ tx \in [Session -> Transaction]
  BY DEF TxnInv, TxnTypeOK
<1>2. t.call # "create" /\ t.place < 4
  <2>1. Statement(s) \in {"job", "market", "live", "pick"} /\ (Statement(s) = "pick" => t.call # "create")
    BY DEF WaitForJob, LockJob, LockMarket, SkipMarket, StartLive, LockLive, PickQueued, PickExpired
  <2> QED BY <1>1, <2>1, StatementAt
<1>3. /\ Step(t).call # "create" /\ Return(t).call # "create" /\ Raise(t).call # "create"
      /\ \A S \in SUBSET Job : Todo(S).call # "create" /\ Jobs(S).call # "create" /\ Locks(S, t).call # "create"
      /\ \A b \in BOOLEAN : Looking(b).call # "create"
  BY <1>1, <1>2, Stepped, Returned, Raised DEF Transaction
<1>4. \A S \in SUBSET Job : Step(Jobs(S)).call # "create"
  <2> SUFFICES ASSUME NEW S \in SUBSET Job
               PROVE  Step(Jobs(S)).call # "create"
    OBVIOUS
  <2>1. Jobs(S) \in Transaction /\ Jobs(S).call # "create" /\ Jobs(S).place < 4
    BY <1>1, <1>2 DEF Transaction
  <2> QED BY <2>1, Stepped
<1>5. \A S \in SUBSET Job, b \in BOOLEAN :
        Step(Looking(b)).call # "create" /\ Locks(S, Looking(b)).call # "create"
  <2> SUFFICES ASSUME NEW S \in SUBSET Job, NEW b \in BOOLEAN
               PROVE  Step(Looking(b)).call # "create" /\ Locks(S, Looking(b)).call # "create"
    OBVIOUS
  <2>1. Looking(b) \in Transaction /\ Looking(b).call # "create" /\ Looking(b).place < 4
    BY <1>1, <1>2 DEF Transaction
  <2> HIDE DEF Looking
  <2> QED BY <2>1, Stepped DEF Transaction
<1>6. \A j \in t.jobs \cup t.todo : {j} \in SUBSET Job /\ t.todo \ {j} \in SUBSET Job /\ t.jobs \ {j} \in SUBSET Job
  BY <1>1 DEF Transaction
<1>7. \E u : tx' = [tx EXCEPT ![s] = u] /\ u.call # "create"
  <2>1. CASE WaitForJob(s)
    <3>1. \E j \in t.jobs : tx' = [tx EXCEPT ![s] = Locks({j}, t)] \/ tx' = [tx EXCEPT ![s] = Raise(t)]
      BY <2>1 DEF WaitForJob, Goto
    <3> HIDE DEF Locks, t
    <3> QED BY <1>3, <1>6, <3>1
  <2>2. CASE LockJob(s) \/ SkipMarket(s) \/ PickQueued(s)
    <3>1. \E u \in {Step(t), Raise(t), Return(t)} : tx' = [tx EXCEPT ![s] = u]
      BY <2>2 DEF LockJob, SkipMarket, PickQueued, Goto
    <3> QED BY <1>3, <3>1
  <2>3. CASE LockMarket(s)
    <3>1. PICK j \in t.jobs : \E u \in {Raise(t), Step(t), Jobs(IF t.call = "requeue" THEN t.jobs \ {j} ELSE t.jobs)} :
                                tx' = [tx EXCEPT ![s] = u]
      BY <2>3 DEF LockMarket, Goto
    <3> DEFINE rest == IF t.call = "requeue" THEN t.jobs \ {j} ELSE t.jobs
    <3>2. rest \in SUBSET Job
      BY <1>1, <1>6 DEF Transaction
    <3>3. \E u \in {Raise(t), Step(t), Jobs(rest)} : tx' = [tx EXCEPT ![s] = u]
      BY <3>1
    <3> HIDE DEF Jobs, rest
    <3>4. Jobs(rest).call # "create" /\ Step(t).call # "create" /\ Raise(t).call # "create"
      BY <1>3, <3>2
    <3> QED BY <3>3, <3>4
  <2>4. CASE StartLive(s)
    <3> DEFINE live == {j \in Job : LiveAt(t.age, View(s, JobOf(j)))}
               met == \E b \in Session : tx[b].call = "beat"
    <3>1. \E u \in {Step(Looking(met)), Locks(live, Looking(met))} : tx' = [tx EXCEPT ![s] = u]
      BY <2>4 DEF StartLive, Goto
    <3>2. live \in SUBSET Job /\ met \in BOOLEAN
      OBVIOUS
    <3> HIDE DEF Looking, Locks, live, met
    <3> QED BY <1>5, <3>1, <3>2
  <2>5. CASE LockLive(s)
    <3>1. \E j \in t.todo : \E u \in {Return(t), Step(t), Todo(t.todo \ {j})} : tx' = [tx EXCEPT ![s] = u]
      BY <2>5 DEF LockLive, Goto
    <3> HIDE DEF Todo
    <3> QED BY <1>3, <1>6, <3>1
  <2>6. CASE PickExpired(s)
    <3>1. \E S \in SUBSET Job : \E u \in {Return(t), Step(Jobs(S))} : tx' = [tx EXCEPT ![s] = u]
      BY <2>6 DEF PickExpired, Picks, Goto
    <3> HIDE DEF Jobs
    <3> QED BY <1>3, <1>4, <3>1
  <2> QED BY <2>1, <2>2, <2>3, <2>4, <2>5, <2>6
<1> QED BY <1>1, <1>7

\* The look: what is active and not committed would be that of a create that has the
\* advisory lock.
LEMMA StartActiveLooks ==
  ASSUME CreateInv, NEW s \in Session, StartActive(s)
  PROVE  CreateFits(s)'
<1> DEFINE t == tx[s]
           active == {k \in Job : /\ stored[JobOf(k)].state \in ActiveStates
                                  /\ \E j \in t.jobs : account[k] = account[j]}
           locks == [t EXCEPT !.phase = "lock", !.todo = active]
<1>1. /\ TxnInv /\ NewIsCreated /\ t \in Transaction
      /\ Statement(s) = "active" /\ UNCHANGED <<stored, written, account>>
      /\ tx' = [tx EXCEPT ![s] = IF active = {} THEN Step(t) ELSE locks]
  BY DEF StartActive, Goto, rowVars, CreateInv, TxnInv, TxnTypeOK
<1>2. t.call = "create" /\ t.place = 2 /\ t.call \in Turns
  BY <1>1, StatementAt DEF Turns
<1>3. advisory = s
  BY <1>1, <1>2, AtTurn
<1>4. ASSUME NEW k \in Job, NEW j \in t.jobs, MayBeActive(k), account[k] = account[j]
      PROVE  k \in active
  <2>1. CASE stored[JobOf(k)].state \in ActiveStates
    BY <1>4, <2>1
  <2>2. CASE stored[JobOf(k)].state \notin ActiveStates
    <3>1. PICK q \in Session : tx[q].call = "create" /\ tx[q].place = 4
      BY <1>1, <1>4, <2>2, ActiveRows DEF NewIsCreated
    <3>2. advisory = q
      BY <1>1, <3>1 DEF TxnInv, ClaimsInTurn, Turns
    <3> QED BY <1>2, <1>3, <3>1, <3>2
  <2> QED BY <2>1, <2>2
<1>5. active \in SUBSET Job
  OBVIOUS
<1> HIDE DEF active
<1>6. /\ Step(t).jobs = t.jobs
      /\ locks.jobs = t.jobs /\ locks.place = 2 /\ locks.todo = active
  BY <1>1, <1>2, Stepped DEF Transaction
<1> HIDE DEF locks
<1>7. tx'[s] = IF active = {} THEN Step(t) ELSE locks
  BY <1>1 DEF TxnInv, TxnTypeOK
<1>8. \A k \in Job : MayBeActive(k)' <=> MayBeActive(k)
  BY <1>1, ActiveRows
<1> SUFFICES ASSUME NEW j \in tx'[s].jobs, NEW k \in Job, MayBeActive(k), account[k] = account[j]
             PROVE  tx'[s].place = 2 /\ k \in tx'[s].todo
  BY <1>1, <1>8 DEF CreateFits
<1> QED BY <1>4, <1>6, <1>7

\* A job it has waited for and found no longer active is not anybody's to make active.
LEMMA LockActiveLooks ==
  ASSUME CreateInv, NEW s \in Session, LockActive(s)
  PROVE  CreateFits(s)'
<1> DEFINE t == tx[s]
<1>1. PICK i \in t.todo :
        /\ Statement(s) = "active" /\ t.phase = "lock" /\ Lockable(s, JobOf(i))
        /\ Goto(s, IF written[JobOf(i)].state \in ActiveStates THEN Return(t)
                   ELSE IF t.todo = {i} THEN Step(t)
                   ELSE [t EXCEPT !.todo = @ \ {i}])
        /\ UNCHANGED <<stored, written>>
  BY DEF LockActive
<1> DEFINE left == [t EXCEPT !.todo = @ \ {i}]
<1>2. /\ TxnInv /\ t \in Transaction /\ CreateFits(s) /\ account' = account
      /\ tx' = [tx EXCEPT ![s] = IF written[JobOf(i)].state \in ActiveStates THEN Return(t)
                                 ELSE IF t.todo = {i} THEN Step(t) ELSE left]
  BY <1>1 DEF Goto, CreateInv, TxnInv, TxnTypeOK
<1>3. t.call = "create" /\ t.place = 2 /\ t.call \in Turns /\ i \in Job
  BY <1>1, <1>2, StatementAt DEF Turns, Transaction
<1>4. written[JobOf(i)] = stored[JobOf(i)]
  BY <1>1, <1>2, <1>3, AtTurn DEF Lockable
<1>5. /\ Return(t).place = 4 /\ Step(t).jobs = t.jobs
      /\ left.jobs = t.jobs /\ left.place = 2 /\ left.todo = t.todo \ {i}
  BY <1>2, <1>3, Returned, Stepped DEF Transaction
<1> HIDE DEF left
<1>6. tx'[s] = IF written[JobOf(i)].state \in ActiveStates THEN Return(t)
               ELSE IF t.todo = {i} THEN Step(t) ELSE left
  BY <1>2 DEF TxnInv, TxnTypeOK
<1>7. \A k \in Job : MayBeActive(k)' <=> MayBeActive(k)
  BY <1>1, ActiveRows
<1>8. CASE written[JobOf(i)].state \in ActiveStates
  BY <1>5, <1>6, <1>8 DEF CreateFits
<1>9. CASE written[JobOf(i)].state \notin ActiveStates
  <2>1. ~MayBeActive(i)
    BY <1>4, <1>9, ActiveRows
  <2>2. \A j \in t.jobs, k \in Job : MayBeActive(k) /\ account[k] = account[j] => k \in t.todo \ {i}
    BY <1>1, <1>2, <1>3, <2>1 DEF CreateFits
  <2> SUFFICES ASSUME NEW j \in tx'[s].jobs, NEW k \in Job, MayBeActive(k), account[k] = account[j]
               PROVE  tx'[s].place = 2 /\ k \in tx'[s].todo
    BY <1>2, <1>7 DEF CreateFits
  <2> QED BY <1>5, <1>6, <1>9, <2>2
<1> QED BY <1>8, <1>9

LEMMA SilentCreates ==
  ASSUME CreateInv, NEW s \in Session, Silent(s)
  PROVE  CreateInv'
<1>1. TxnInv /\ TxnInv' /\ tx[s] \in Transaction
  BY SilentKeeps DEF CreateInv, TxnInv, TxnTypeOK
<1>2. /\ stored' = stored /\ \A q \in Session \ {s} : tx'[q] = tx[q]
      /\ \A k \in Job : \/ holder'[JobOf(k)] = holder[JobOf(k)] /\ written'[JobOf(k)] = written[JobOf(k)]
                        \/ holder[JobOf(k)] \in {Nobody, s} /\ holder'[JobOf(k)] = s
  BY <1>1, SilentRows, Rows
<1>8. account' = account
  BY DEF Silent, TakeAdvisory, WaitForJob, LockJob, LockMarket, SkipMarket, StartLive, LockLive,
         PickQueued, PickExpired, StartActive, LockActive, Insert, Goto
<1>3. NewIsCreated'
  <2> SUFFICES ASSUME NEW k \in Job, written'[JobOf(k)].state \in ActiveStates,
                      stored[JobOf(k)].state \notin ActiveStates
               PROVE  \E q \in Session : holder'[JobOf(k)] = q /\ tx'[q].call = "create" /\ tx'[q].place = 4
    BY <1>2 DEF NewIsCreated
  <2>1. CASE written[JobOf(k)].state \in ActiveStates
    <3>1. PICK q \in Session : holder[JobOf(k)] = q /\ tx[q].call = "create" /\ tx[q].place = 4
      BY <2>1 DEF CreateInv, NewIsCreated
    <3>2. q # s /\ q # Nobody
      BY <1>1, <3>1, SilentGoesOn, TxnAssumption
    <3> QED BY <1>2, <3>1, <3>2
  <2>2. CASE written[JobOf(k)].state \notin ActiveStates
    <3>1. Insert(s) /\ tx[s].jobs = {k}
      BY <1>1, <2>2, SilentActive, ActiveRows
    <3>2. tx[s].call = "create" /\ tx[s].place = 3 /\ tx' = [tx EXCEPT ![s] = Step(tx[s])]
      BY <1>1, <3>1, Inserted
    <3>3. \E j \in Job : tx[s].jobs = {j} /\ holder'[JobOf(j)] = s
      BY <1>1, <3>1, Inserted
    <3>4. holder'[JobOf(k)] = s /\ tx'[s] = Step(tx[s])
      BY <1>1, <3>1, <3>2, <3>3 DEF TxnInv, TxnTypeOK
    <3>5. tx'[s].call = "create" /\ tx'[s].place = 4
      BY <1>1, <3>2, <3>4, Stepped
    <3> QED BY <3>4, <3>5
  <2> QED BY <2>1, <2>2
<1>4. ASSUME NEW k \in Job, MayBeActive(k)', ~MayBeActive(k)
      PROVE  /\ Insert(s) /\ tx[s].jobs = {k} /\ tx[s].call = "create" /\ tx[s].place = 3 /\ advisory = s
             /\ \A i \in Job : MayBeActive(i) => account[i] # account[k]
  <2>1. Insert(s) /\ tx[s].jobs = {k}
    BY <1>1, <1>4, SilentActive
  <2>2. tx[s].call = "create" /\ tx[s].place = 3 /\ advisory = s
    BY <1>1, <2>1, Inserted
  <2>3. \A i \in Job : MayBeActive(i) => account[i] # account[k]
    BY <2>1, <2>2 DEF CreateInv, CreateFits
  <2> QED BY <2>1, <2>2, <2>3
<1>5. CreatesNeverCollide'
  <2> SUFFICES ASSUME NEW j \in Job, NEW k \in Job, MayBeActive(j)', MayBeActive(k)',
                      account[j] = account[k]
               PROVE  j = k
    BY <1>8 DEF CreatesNeverCollide
  <2>1. CASE MayBeActive(j) /\ MayBeActive(k)
    BY <2>1 DEF CreateInv, CreatesNeverCollide
  <2>2. CASE ~MayBeActive(j) /\ ~MayBeActive(k)
    <3>1. tx[s].jobs = {j} /\ tx[s].jobs = {k}
      BY <1>4, <2>2
    <3> QED BY <3>1
  <2>3. CASE ~(MayBeActive(j) <=> MayBeActive(k))
    BY <1>4, <2>3
  <2> QED BY <2>1, <2>2, <2>3
<1>6. ASSUME NEW c \in Session \ {s}
      PROVE  CreateFits(c)'
  <2> SUFFICES ASSUME tx[c].call = "create", tx[c].place = 3 \/ (tx[c].place = 2 /\ tx[c].phase = "lock"),
                      NEW j \in tx[c].jobs, NEW k \in Job, MayBeActive(k)', account[k] = account[j]
               PROVE  tx[c].place = 2 /\ k \in tx[c].todo
    BY <1>2, <1>8 DEF CreateFits
  <2>1. advisory = c
    BY <1>1 DEF TxnInv, ClaimsInTurn, Turns
  <2>2. MayBeActive(k)
    BY <1>4, <2>1
  <2> QED BY <2>2 DEF CreateInv, CreateFits
<1>7. CreateFits(s)'
  <2>1. CASE TakeAdvisory(s)
    <3>1. tx'[s] = Step(tx[s]) /\ tx[s].place = 1
      BY <1>1, <2>1, StatementAt DEF TakeAdvisory, Goto, TxnInv, TxnTypeOK
    <3>2. tx'[s].place = 2 /\ tx'[s].phase = "start"
      BY <1>1, <3>1, Stepped
    <3> QED BY <3>2 DEF CreateFits
  <2>2. CASE Insert(s)
    <3>1. tx'[s] = Step(tx[s]) /\ tx[s].place = 3
      BY <1>1, <2>2, Inserted DEF TxnInv, TxnTypeOK
    <3>2. tx'[s].place = 4
      BY <1>1, <3>1, Stepped
    <3> QED BY <3>2 DEF CreateFits
  <2>3. CASE StartActive(s) \/ LockActive(s)
    BY <2>3, StartActiveLooks, LockActiveLooks
  <2>4. CASE WaitForJob(s) \/ LockJob(s) \/ LockMarket(s) \/ SkipMarket(s) \/ StartLive(s) \/ LockLive(s)
             \/ PickQueued(s) \/ PickExpired(s)
    BY <1>1, <2>4, OtherCallStays DEF CreateFits
  <2> QED BY <2>1, <2>2, <2>3, <2>4 DEF Silent
<1> QED BY <1>1, <1>3, <1>5, <1>6, <1>7 DEF CreateInv

\* A step that makes nothing active, and takes the sessions of A to the begin or the end
\* of a call.
Settles(A) ==
  /\ \A k \in Job : MayBeActive(k)' => MayBeActive(k)
  /\ \A k \in Job :
       written'[JobOf(k)].state \in ActiveStates /\ stored'[JobOf(k)].state \notin ActiveStates =>
         /\ written[JobOf(k)].state \in ActiveStates /\ stored[JobOf(k)].state \notin ActiveStates
         /\ holder[JobOf(k)] \notin A /\ holder'[JobOf(k)] = holder[JobOf(k)]
  /\ \A q \in Session \ A : /\ tx'[q].call = tx[q].call /\ tx'[q].place = tx[q].place
                             /\ tx'[q].phase = tx[q].phase /\ tx'[q].jobs = tx[q].jobs
                             /\ tx'[q].todo = tx[q].todo
  /\ \A q \in A : tx'[q].place = 1
  /\ account' = account

LEMMA OtherCreates ==
  ASSUME CreateInv, TxnInv', NEW A \in SUBSET Session, Settles(A)
  PROVE  CreateInv'
<1>1. CreatesNeverCollide'
  BY DEF CreateInv, CreatesNeverCollide, Settles
<1>2. NewIsCreated'
  <2> SUFFICES ASSUME NEW k \in Job, written'[JobOf(k)].state \in ActiveStates,
                      stored'[JobOf(k)].state \notin ActiveStates
               PROVE  \E q \in Session : holder'[JobOf(k)] = q /\ tx'[q].call = "create" /\ tx'[q].place = 4
    BY DEF NewIsCreated
  <2>1. PICK q \in Session : holder[JobOf(k)] = q /\ tx[q].call = "create" /\ tx[q].place = 4
    BY DEF CreateInv, NewIsCreated, Settles
  <2>2. /\ holder[JobOf(k)] \notin A /\ holder'[JobOf(k)] = holder[JobOf(k)]
    BY DEF Settles
  <2> QED BY <2>1, <2>2 DEF Settles
<1>3. ASSUME NEW c \in Session
      PROVE  CreateFits(c)'
  <2>1. CASE c \in A
    BY <2>1 DEF CreateFits, Settles
  <2>2. CASE c \notin A
    BY <2>2 DEF CreateInv, CreateFits, Settles
  <2> QED BY <2>1, <2>2
<1> QED BY <1>1, <1>2, <1>3 DEF CreateInv

LEMMA CloseCreates ==
  ASSUME CreateInv, TxnInv', NEW s \in Session, NEW rows \in {stored, written}, Close(s, rows)
  PROVE  CreateInv'
<1>1. TxnInv /\ tx \in [Session -> Transaction]
  BY DEF CreateInv, TxnInv, TxnTypeOK
<1>2. /\ tx'[s] = Idle /\ \A q \in Session \ {s} : tx'[q] = tx[q]
      /\ account' = account
      /\ \A k \in Job :
           /\ stored'[JobOf(k)] = (IF holder[JobOf(k)] = s THEN rows[JobOf(k)] ELSE stored[JobOf(k)])
           /\ written'[JobOf(k)] = (IF holder[JobOf(k)] = s THEN rows[JobOf(k)] ELSE written[JobOf(k)])
           /\ holder'[JobOf(k)] = (IF holder[JobOf(k)] = s THEN Nobody ELSE holder[JobOf(k)])
  BY <1>1, Rows DEF Close, Goto
<1>3. \A k \in Job : MayBeActive(k)' => MayBeActive(k)
  BY <1>2, ActiveRows
<1>4. Idle.place = 1
  BY IdleType
<1>5. Settles({s})
  BY <1>2, <1>3, <1>4, TxnAssumption DEF Settles
<1> QED BY <1>5, OtherCreates

LEMMA TickCreates ==
  ASSUME CreateInv, Tick
  PROVE  CreateInv'
<1>1. TxnInv /\ TxnInv' /\ holder' = holder /\ account' = account
  BY TickKeeps DEF CreateInv, Tick
<1>2. \A k \in Job : /\ stored'[JobOf(k)].state = stored[JobOf(k)].state
                     /\ written'[JobOf(k)].state = written[JobOf(k)].state
  BY <1>1, TickRows, AgedRow, LeaseTypes
<1>3. \A k \in Job : MayBeActive(k)' => MayBeActive(k)
  BY <1>2, ActiveRows
<1>4. \A q \in Session : /\ tx'[q].call = tx[q].call /\ tx'[q].place = tx[q].place
                         /\ tx'[q].phase = tx[q].phase /\ tx'[q].jobs = tx[q].jobs
                         /\ tx'[q].todo = tx[q].todo
  BY <1>1, TickSession
<1>5. Settles({})
  BY <1>1, <1>2, <1>3, <1>4 DEF Settles
<1> QED BY <1>1, <1>5, OtherCreates

LEMMA BeginCreates ==
  ASSUME CreateInv, NEW s \in Session, NEW c \in Call, NEW w \in Worker \cup {Nobody}, NEW j \in Job,
         c \in WorkerCall => w \in Worker,
         Begin(s, c, w, j)
  PROVE  CreateInv'
<1> DEFINE u == [Idle EXCEPT !.call = c, !.worker = w,
                             !.jobs = IF c \in {"claim", "requeue"} THEN {} ELSE {j}]
<1>1. /\ TxnInv /\ TxnInv' /\ tx[s].call = "none" /\ tx' = [tx EXCEPT ![s] = u]
      /\ UNCHANGED <<stored, written, holder, account>>
  BY BeginKeeps DEF CreateInv, Begin, Goto, rowVars
<1>2. u.place = 1
  BY DEF Idle
<1> HIDE DEF u
<1>3. tx'[s].place = 1 /\ \A q \in Session \ {s} : tx'[q] = tx[q]
  BY <1>1, <1>2 DEF TxnInv, TxnTypeOK
<1>4. \A k \in Job : MayBeActive(k)' => MayBeActive(k)
  BY <1>1, ActiveRows
<1>5. \A k \in Job : holder[JobOf(k)] # s
  BY <1>1, Rows DEF TxnInv, TxnTypeOK
<1>6. Settles({s})
  BY <1>1, <1>3, <1>4, <1>5 DEF Settles
<1> QED BY <1>1, <1>6, OtherCreates

LEMMA CreateInvInit == TxnInit => CreateInv
<1> SUFFICES ASSUME TxnInit
             PROVE  CreateInv
  OBVIOUS
<1>1. TxnInv
  BY TxnInvInit
<1>2. \A s \in Session : tx[s].call = "none"
  BY IdleType DEF TxnInit
<1>3. \A k \in Job : stored[JobOf(k)] = NoRow /\ written[JobOf(k)] = NoRow
  BY Rows DEF TxnInit
<1>4. \A k \in Job : ~MayBeActive(k)
  BY <1>3, ActiveRows DEF NoRow, ActiveStates
<1>5. CreatesNeverCollide /\ NewIsCreated
  BY <1>3, <1>4 DEF CreatesNeverCollide, NewIsCreated, NoRow, ActiveStates
<1>6. \A c \in Session : CreateFits(c)
  BY <1>2 DEF CreateFits
<1> QED BY <1>1, <1>5, <1>6 DEF CreateInv

LEMMA CreateInvNext == CreateInv /\ [TxnNext]_txnVars => CreateInv'
<1> SUFFICES ASSUME CreateInv, [TxnNext]_txnVars
             PROVE  CreateInv'
  OBVIOUS
<1>1. TxnInv /\ TxnInv'
  BY TxnInvNext DEF CreateInv
<1>2. CASE TxnNext
  <2>1. ASSUME NEW s \in Session, Commit(s) \/ Close(s, stored)
        PROVE  CreateInv'
    BY <1>1, <2>1, CloseCreates DEF Commit
  <2> QED BY <1>1, <1>2, <2>1, StepCases, TickCreates, SilentCreates, BeginCreates
<1>3. CASE UNCHANGED txnVars
  <2>1. stored' = stored /\ written' = written /\ holder' = holder /\ tx' = tx /\ account' = account
    BY <1>3 DEF txnVars, rowVars
  <2>2. \A k \in Job : MayBeActive(k)' => MayBeActive(k)
    BY <2>1, ActiveRows
  <2>3. Settles({})
    BY <2>1, <2>2 DEF Settles
  <2> QED BY <1>1, <2>3, OtherCreates
<1> QED BY <1>2, <1>3

\* However many calls create jobs at once, with claims, completions and recovery between
\* their statements, an account never has two that are active, or would be if the open
\* transactions committed: the unique index has nothing to refuse.
THEOREM CreatesNeverCollideAlways == TxnSpec => []CreatesNeverCollide
<1>1. CreateInv => CreatesNeverCollide
  BY DEF CreateInv
<1> QED BY <1>1, CreateInvInit, CreateInvNext, PTL DEF TxnSpec
=============================================================================
