--------------------------- MODULE IngestionRound ---------------------------
(***************************************************************************)
(* The guarded round, scripts/run_multisource_ingestion_round.py: it       *)
(* counts the protected tables, takes the host's lock, drains what is      *)
(* staged and not yet in the warehouse, runs the source refresh, counts    *)
(* again, and writes what is new as evidence.  It raises when the counts   *)
(* do not add up.                                                          *)
(*                                                                         *)
(* Every read is a query of its own in autocommit, and the first ones are  *)
(* made before the lock is taken; meanwhile other rounds, and an operator  *)
(* at the command line or in the review page, may write.                   *)
(***************************************************************************)
EXTENDS Warehouse

CONSTANTS
  Rounds,        \* executions of the script
  NoRound,       \* nobody holds the lock
  MaxCommands    \* bound: commands of the operator

ASSUME RoundAssumption ==
  /\ NoRound \notin Rounds
  /\ MaxCommands \in Nat

VARIABLES
  lock,       \* who holds the flock on multisource-ingestion-round.lock
  pc,         \* where main() of each round is
  before,     \* the counts it began from
  pending,    \* the marketplaces it has still to drain
  prior,      \* the keys it takes as known
  after,      \* the counts it ended with
  outcome,    \* how it ended, and why when it raised
  evidence,   \* what it wrote as auction_observations
  commands,   \* commands the operator has given
  own,        \* history: what the round itself brought into the warehouse
  earlier,    \* history: the rounds that were over when it began
  disturbed   \* history: the rounds during which somebody else wrote

readVars == <<before, pending, prior, after>>
historyVars == <<own, earlier, disturbed>>
vars == <<dataVars, lock, pc, readVars, outcome, evidence, commands, historyVars>>

Steps == {"start", "counted", "listed", "ready", "drain", "buyee", "ebay", "fill",
          "exited", "recounted", "verified", "done"}
Locked == {"drain", "buyee", "ebay", "fill", "exited", "recounted", "verified"}
Outcomes == {"none", "PLANNED", "BLOCKED", "FAILED", "COMPLETED", "KILLED",
             "queue", "sync", "remaining", "decrease", "pending", "evidence"}
Staging == {"buyee", "ebay"}

\* database_state: one query
Counts == [auctions |-> Cardinality(warehouse),
           assignments |-> Cardinality(Assigned),
           queue |-> Cardinality(Queue)]
NoCounts == [auctions |-> 0, assignments |-> 0, queue |-> 0]

\* pending_marketplace_identities: the marketplaces with any
Pending == {m \in Staging : ~(Staged(m) \subseteq warehouse)}

RoundTypeOK ==
  /\ WarehouseTypeOK
  /\ lock \in Rounds \cup {NoRound}
  /\ pc \in [Rounds -> Steps]
  /\ \A r \in Rounds : /\ pc[r] \in Locked <=> lock = r
                       /\ outcome[r] # "none" <=> pc[r] = "done"
  /\ {before, after} \subseteq [Rounds -> [auctions : Nat, assignments : Nat, queue : Nat]]
  /\ pending \in [Rounds -> SUBSET Staging]
  /\ {prior, evidence, own} \subseteq [Rounds -> SUBSET Listings]
  /\ outcome \in [Rounds -> Outcomes]
  /\ commands \in 0 .. MaxCommands
  /\ earlier \in [Rounds -> SUBSET Rounds]
  /\ disturbed \subseteq Rounds

RoundInit ==
  /\ WarehouseInit
  /\ lock = NoRound
  /\ pc = [r \in Rounds |-> "start"]
  /\ before = [r \in Rounds |-> NoCounts] /\ after = before
  /\ pending = [r \in Rounds |-> {}]
  /\ prior = pending /\ evidence = pending /\ own = pending /\ earlier = pending
  /\ outcome = [r \in Rounds |-> "none"]
  /\ commands = 0
  /\ disturbed = {}

-----------------------------------------------------------------------------
(* How a round moves *)

Goto(r, step) ==
  /\ pc' = [pc EXCEPT ![r] = step]
  /\ UNCHANGED <<lock, outcome>>

\* main() returns, raises or is killed; closing the file gives up the lock.
End(r, how) ==
  /\ pc' = [pc EXCEPT ![r] = "done"]
  /\ outcome' = [outcome EXCEPT ![r] = how]
  /\ lock' = IF lock = r THEN NoRound ELSE lock

Running == {r \in Rounds : pc[r] \notin {"start", "done"}}

\* A query changes nothing in the database.
Query == UNCHANGED <<dataVars, commands, own, disturbed>>

\* The round, or its child, writes to the database.
Writes(r) ==
  /\ own' = [own EXCEPT ![r] = @ \cup (warehouse' \ warehouse)]
  /\ disturbed' = disturbed \cup (Running \ {r})
  /\ UNCHANGED <<commands, earlier>>

-----------------------------------------------------------------------------
(* Before the lock *)

Count(r) ==
  /\ pc[r] = "start"
  /\ before' = [before EXCEPT ![r] = Counts]
  /\ earlier' = [earlier EXCEPT ![r] = {q \in Rounds : pc[q] = "done"}]
  /\ Goto(r, "counted")
  /\ Query /\ UNCHANGED <<pending, prior, after, evidence>>

ListPending(r) ==
  /\ pc[r] = "counted"
  /\ pending' = [pending EXCEPT ![r] = Pending]
  /\ Goto(r, "listed")
  /\ Query /\ UNCHANGED <<before, prior, after, evidence, earlier>>

QueueAddsUp(counts) == counts.queue = counts.auctions - counts.assignments

\* auction_keys, then verify_transition(before, before)
ReadKeys(r) ==
  /\ pc[r] = "listed"
  /\ prior' = [prior EXCEPT ![r] = warehouse]
  /\ IF QueueAddsUp(before[r]) THEN Goto(r, "ready") ELSE End(r, "queue")
  /\ Query /\ UNCHANGED <<before, pending, after, evidence, earlier>>

\* Without --execute the round ends here.
Plan(r) ==
  /\ pc[r] = "ready"
  /\ End(r, "PLANNED")
  /\ Query /\ UNCHANGED <<readVars, evidence, earlier>>

TakeLock(r) ==
  /\ pc[r] = "ready"
  /\ IF lock # NoRound THEN End(r, "BLOCKED")
     ELSE /\ lock' = r
          /\ pc' = [pc EXCEPT ![r] = IF pending[r] = {} THEN "buyee" ELSE "drain"]
          /\ UNCHANGED outcome
  /\ Query /\ UNCHANGED <<readVars, evidence, earlier>>

-----------------------------------------------------------------------------
(* Under the lock *)

\* The slip: counts and keys are read when the leftovers have been drained.
Drain_BeforeBaseline(r) ==
  /\ pc[r] = "drain" /\ pending[r] # {}
  /\ LET m == IF "buyee" \in pending[r] THEN "buyee" ELSE "ebay" IN
       /\ Sync({m})
       /\ pending' = [pending EXCEPT ![r] = @ \ {m}]
  /\ Writes(r) /\ Goto(r, "drain")
  /\ prior' = [prior EXCEPT ![r] = warehouse']
  /\ before' = [before EXCEPT ![r] = Counts']
  /\ UNCHANGED <<after, evidence>>

\* One sync of drain_pending_marketplace_identities, Buyee before eBay
Drain(r) ==
  /\ pc[r] = "drain" /\ pending[r] # {}
  /\ LET m == IF "buyee" \in pending[r] THEN "buyee" ELSE "ebay" IN
       /\ Sync({m})
       /\ pending' = [pending EXCEPT ![r] = @ \ {m}]
  /\ Writes(r) /\ Goto(r, "drain")
  /\ UNCHANGED <<before, prior, after, evidence>>

DrainFails(r) ==
  /\ pc[r] = "drain" /\ pending[r] # {}
  /\ End(r, "sync")
  /\ Query /\ UNCHANGED <<readVars, evidence, earlier>>

\* The slip: every marketplace with staged rows counts as pending.
Remaining_Staged == {m \in Staging : Staged(m) # {}}

\* What drain_pending_marketplace_identities reads when it has synced
Remaining == Pending

Drained(r) ==
  /\ pc[r] = "drain" /\ pending[r] = {}
  /\ IF Remaining = {} THEN Goto(r, "buyee") ELSE End(r, "remaining")
  /\ Query /\ UNCHANGED <<readVars, evidence, earlier>>

\* What the source refresh does to the data, marketplace by marketplace; it may
\* leave a marketplace at any point of it.
Refresh(r) ==
  /\ \/ /\ pc[r] = "buyee"
        /\ \/ \E p \in FromSource("buyee") : Fetch(p)
           \/ Parse(Unparsed)
           \/ Sync({"buyee"})
     \/ /\ pc[r] = "ebay"
        /\ \/ \E p \in FromSource("ebay") : Fetch(p) \/ (p \in Fetched /\ Parse({p}))
           \/ Parse(Unparsed \cap FromSource("ebay"))
           \/ Sync({"ebay"})
     \/ /\ pc[r] = "fill"
        /\ \E l \in Listings : Fill(l)
  /\ Writes(r)
  /\ UNCHANGED <<lock, pc, outcome, readVars, evidence>>

\* The refresh goes on to its next part, and ends with state "success".
RefreshOn(r) ==
  /\ pc[r] \in {"buyee", "ebay", "fill"}
  /\ Goto(r, [buyee |-> "ebay", ebay |-> "fill", fill |-> "exited"][pc[r]])
  /\ Query /\ UNCHANGED <<readVars, evidence, earlier>>

RefreshFails(r) ==
  /\ pc[r] \in {"buyee", "ebay", "fill"}
  /\ End(r, "FAILED")
  /\ Query /\ UNCHANGED <<readVars, evidence, earlier>>

Recount(r) ==
  /\ pc[r] = "exited"
  /\ after' = [after EXCEPT ![r] = Counts]
  /\ Goto(r, "recounted")
  /\ Query /\ UNCHANGED <<before, pending, prior, evidence, earlier>>

Decreased(r) == \/ after[r].assignments < before[r].assignments
                \/ after[r].auctions < before[r].auctions

\* pending_after is read, then verify_transition(before, after)
Verify(r) ==
  /\ pc[r] = "recounted"
  /\ IF Decreased(r) THEN End(r, "decrease")
     ELSE IF ~QueueAddsUp(after[r]) THEN End(r, "queue")
     ELSE IF Pending # {} THEN End(r, "pending")
     ELSE Goto(r, "verified")
  /\ Query /\ UNCHANGED <<readVars, evidence, earlier>>

\* The slip: the keys of Buyee, in another spelling, are not recognised.
New_Respelt(r) == warehouse \ (prior[r] \ Of("buyee"))

\* stable_reference_evidence: the auctions that are not among the prior keys
New(r) == warehouse \ prior[r]

WriteEvidence(r) ==
  /\ pc[r] = "verified"
  /\ IF Cardinality(New(r)) = after[r].auctions - before[r].auctions
     THEN evidence' = [evidence EXCEPT ![r] = New(r)] /\ End(r, "COMPLETED")
     ELSE End(r, "evidence") /\ UNCHANGED evidence
  /\ Query /\ UNCHANGED <<readVars, earlier>>

\* The process group is killed, by the worker or with its host.
Kill(r) ==
  /\ r \in Running
  /\ End(r, "KILLED")
  /\ Query /\ UNCHANGED <<readVars, evidence, earlier>>

\* The operator runs a command of the CLI or decides in the review page.
Command ==
  /\ commands < MaxCommands
  /\ WarehouseNext
  /\ commands' = commands + 1
  /\ disturbed' = disturbed \cup Running
  /\ UNCHANGED <<lock, pc, outcome, readVars, evidence, own, earlier>>

\* Every round is over.
Over == (\A r \in Rounds : pc[r] = "done") /\ UNCHANGED vars

\* The steps a running round takes by itself
Advance(r) ==
  \/ Count(r) \/ ListPending(r) \/ ReadKeys(r) \/ TakeLock(r) \/ Drain(r) \/ Drained(r)
  \/ RefreshOn(r) \/ Recount(r) \/ Verify(r) \/ WriteEvidence(r)

RoundNext ==
  \/ Over \/ Command
  \/ \E r \in Rounds : \/ Advance(r) \/ Plan(r) \/ DrainFails(r) \/ Refresh(r)
                       \/ RefreshFails(r) \/ Kill(r)

\* A process that runs goes on: every call the round waits for ends.
RoundSpec == RoundInit /\ [][RoundNext]_vars /\ \A r \in Rounds : WF_vars(Advance(r))

-----------------------------------------------------------------------------
(* Properties *)

\* A completed round accounts for everything it brought in itself, the drained
\* leftovers included, whoever wrote before, during or after it; and when nobody
\* else wrote meanwhile it accounts for nothing else.
EvidenceCoversOwn ==
  \A r \in Rounds : outcome[r] = "COMPLETED" =>
    /\ own[r] \subseteq evidence[r]
    /\ r \notin disturbed => evidence[r] = own[r]

\* Two rounds that follow each other never report the same auction as new,
\* although nothing of the first round is kept for the second to read.
SuccessorsReportOnce ==
  \A r \in Rounds : outcome[r] = "COMPLETED" =>
    \A q \in earlier[r] : evidence[q] \cap evidence[r] = {}

\* The checks of the round only ever stop it because somebody else wrote while
\* it ran: alone, whatever earlier rounds left half done, it drains what is
\* pending and its counts add up.
QuietRoundAddsUp ==
  \A r \in Rounds \ disturbed : outcome[r] \notin {"queue", "remaining", "decrease", "evidence"}

\* The lock is never held for good: the next round of this host is not blocked
\* by one that raised at any of its checks, failed or was killed.
LockIsFreed == []<>(lock = NoRound)

\* What the evidence is said to be (stable_reference_evidence): of newly observed
\* records.  Not kept by the code: a round reads its keys before it takes the
\* lock, and reports what the round that held it has reported.
ReportedOnce ==
  \A q, r \in Rounds : q # r /\ {outcome[q], outcome[r]} = {"COMPLETED"} =>
    evidence[q] \cap evidence[r] = {}
=============================================================================
