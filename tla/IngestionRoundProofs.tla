------------------------- MODULE IngestionRoundProofs -------------------------
(***************************************************************************)
(* Theorems about IngestionRound, for any number of rounds and of commands *)
(* of the operator, and whatever the parsers find on the pages: the rounds *)
(* do to the warehouse what its writers may do, and what they say of it    *)
(* is so.                                                                  *)
(***************************************************************************)
EXTENDS IngestionRound, WarehouseProofs

-----------------------------------------------------------------------------
(* The invariant *)

\* Where the rounds are, who holds the lock, and who is over
ProgressOK ==
  /\ lock \in Rounds \cup {NoRound}
  /\ pc \in [Rounds -> Steps]
  /\ outcome \in [Rounds -> Outcomes]
  /\ \A r \in Rounds : /\ pc[r] \in Locked <=> lock = r
                       /\ outcome[r] # "none" <=> pc[r] = "done"

\* What the rounds have read and written
ReadsOK ==
  /\ {before, after} \subseteq [Rounds -> [auctions : Nat, assignments : Nat, queue : Nat]]
  /\ pending \in [Rounds -> SUBSET Staging]
  /\ {prior, evidence, own} \subseteq [Rounds -> SUBSET Listings]
  /\ commands \in 0 .. MaxCommands
  /\ earlier \in [Rounds -> SUBSET Rounds]
  /\ disturbed \subseteq Rounds

BeforeKeys == {"start", "counted", "listed"}
PastKeys == Steps \ (BeforeKeys \cup {"done"})

\* The round has read its keys, and went on from there.
KeysRead(r) == pc[r] \in PastKeys \/ outcome[r] = "COMPLETED"

\* What is so of a round, whoever else writes: nothing of what it brought in was among
\* its keys, and what the rounds before it reported was.
Sound(r) ==
  /\ own[r] \subseteq warehouse /\ prior[r] \subseteq warehouse /\ evidence[r] \subseteq warehouse
  /\ pc[r] \in BeforeKeys => own[r] = {}
  /\ KeysRead(r) => own[r] \cap prior[r] = {}
  /\ outcome[r] = "COMPLETED" => own[r] \subseteq evidence[r] /\ evidence[r] \cap prior[r] = {}
  /\ \A q \in earlier[r] : pc[q] = "done" /\ (KeysRead(r) => evidence[q] \subseteq prior[r])

\* What is so while nobody else writes: what it read still is so, but for what it did.
Quiet(r) ==
  /\ pc[r] \in {"counted", "listed"} => before[r] = Counts
  /\ pc[r] \in {"listed", "ready", "drain"} => Pending \subseteq pending[r]
  /\ pc[r] \in PastKeys =>
       /\ warehouse = prior[r] \cup own[r]
       /\ before[r].auctions = Cardinality(prior[r])
       /\ before[r].assignments <= Cardinality(Assigned)
  /\ pc[r] \in {"recounted", "verified"} => after[r] = Counts
  /\ outcome[r] = "COMPLETED" => evidence[r] = own[r]
  /\ outcome[r] \notin {"queue", "remaining", "decrease", "evidence"}

RowOK(r) == Sound(r) /\ (r \notin disturbed => Quiet(r))

RoundInv == WarehouseInv /\ ProgressOK /\ ReadsOK /\ \A r \in Rounds : RowOK(r)

-----------------------------------------------------------------------------
(* Counting *)

LEMMA CountsType ==
  ASSUME WarehouseTypeOK
  PROVE  /\ IsFiniteSet(warehouse) /\ IsFiniteSet(Assigned)
         /\ Counts \in [auctions : Nat, assignments : Nat, queue : Nat]
<1>1. warehouse \in SUBSET Listings /\ Assigned \in SUBSET Listings /\ Queue \in SUBSET warehouse
  BY DEF WarehouseTypeOK, Assigned, Queue
<1>2. IsFiniteSet(warehouse) /\ IsFiniteSet(Assigned)
  BY <1>1, WarehouseAssumption, FS_Subset
<1>3. IsFiniteSet(Queue)
  BY <1>1, <1>2, FS_Subset
<1>4. Cardinality(warehouse) \in Nat /\ Cardinality(Assigned) \in Nat /\ Cardinality(Queue) \in Nat
  BY <1>2, <1>3, FS_CardinalityType
<1> QED BY <1>2, <1>4 DEF Counts

\* The counts of one moment add up.
LEMMA CountsAddUp == WarehouseInv => QueueAddsUp(Counts)
BY QueueAddsUpNow DEF QueueIsComplement, QueueAddsUp, Counts

\* Nothing is taken back: what a set has gained can be counted.
LEMMA CountGrows ==
  ASSUME NEW T, IsFiniteSet(T), NEW S \in SUBSET T
  PROVE  /\ Cardinality(S) \in Nat /\ Cardinality(T) \in Nat
         /\ Cardinality(S) <= Cardinality(T)
         /\ Cardinality(T \ S) = Cardinality(T) - Cardinality(S)
<1>1. IsFiniteSet(S) /\ Cardinality(S) <= Cardinality(T)
  BY FS_Subset
<1>2. Cardinality(S) \in Nat /\ Cardinality(T) \in Nat
  BY <1>1, FS_CardinalityType
<1>3. Cardinality(T \ S) = Cardinality(T) - Cardinality(T \cap S)
  BY FS_Difference
<1>4. T \cap S = S
  OBVIOUS
<1> QED BY <1>1, <1>2, <1>3, <1>4

-----------------------------------------------------------------------------
(* The rows a step does not touch *)

Untouched(r) ==
  UNCHANGED <<pc[r], outcome[r], before[r], pending[r], prior[r], after[r], evidence[r],
              own[r], earlier[r]>>

\* Rounds that are over stay as they are.
OverStays == \A q \in Rounds : pc[q] = "done" => pc'[q] = "done" /\ evidence'[q] = evidence[q]

\* A round that looks on is disturbed, or nothing happens to the data.
LEMMA BystanderKeeps ==
  ASSUME RoundInv, NEW r \in Rounds, Untouched(r), OverStays,
         warehouse \subseteq warehouse', disturbed \subseteq disturbed',
         UNCHANGED dataVars \/ (r \in Running => r \in disturbed')
  PROVE  RowOK(r)'
<1> USE DEF RoundInv
<1>1. RowOK(r) /\ earlier[r] \subseteq Rounds
  BY DEF ReadsOK
<1>2. /\ pc'[r] = pc[r] /\ outcome'[r] = outcome[r] /\ before'[r] = before[r]
      /\ pending'[r] = pending[r] /\ prior'[r] = prior[r] /\ after'[r] = after[r]
      /\ evidence'[r] = evidence[r] /\ own'[r] = own[r] /\ earlier'[r] = earlier[r]
  BY DEF Untouched
<1>3. Sound(r)'
  BY <1>1, <1>2 DEF RowOK, Sound, KeysRead, OverStays
<1>4. ASSUME r \notin disturbed' PROVE Quiet(r)'
  <2>1. Quiet(r)
    BY <1>1, <1>4 DEF RowOK
  <2>2. CASE UNCHANGED dataVars
    <3>1. warehouse' = warehouse /\ Assigned' = Assigned /\ Counts' = Counts /\ Pending' = Pending
      BY <2>2 DEF dataVars, Assigned, Counts, Queue, Pending, Staged
    <3> QED BY <1>2, <2>1, <3>1 DEF Quiet
  <2>3. CASE r \notin Running
    <3>1. pc[r] \in {"start", "done"}
      BY <2>3 DEF Running
    <3> QED BY <1>2, <2>1, <3>1 DEF Quiet, PastKeys, BeforeKeys
  <2> QED BY <1>4, <2>2, <2>3
<1> QED BY <1>3, <1>4 DEF RowOK

-----------------------------------------------------------------------------
(* Going on, and ending *)

LEMMA GotoProgress ==
  ASSUME ProgressOK, NEW p \in Rounds, NEW step \in Steps \ {"done"},
         pc[p] # "done", step \in Locked <=> pc[p] \in Locked, Goto(p, step)
  PROVE  ProgressOK' /\ \A r \in Rounds : r # p => pc'[r] = pc[r]
BY DEF ProgressOK, Goto

LEMMA EndProgress ==
  ASSUME ProgressOK, NEW p \in Rounds, NEW how \in Outcomes \ {"none"}, pc[p] # "done", End(p, how)
  PROVE  /\ ProgressOK'
         /\ pc'[p] = "done" /\ outcome'[p] = how
         /\ \A r \in Rounds : r # p => pc'[r] = pc[r] /\ outcome'[r] = outcome[r]
<1> USE DEF ProgressOK
<1>1. /\ pc'[p] = "done" /\ outcome'[p] = how
      /\ \A r \in Rounds : r # p => pc'[r] = pc[r] /\ outcome'[r] = outcome[r]
  BY DEF End
<1>2. pc' \in [Rounds -> Steps] /\ outcome' \in [Rounds -> Outcomes]
  BY DEF End, Steps
<1>3. lock' \in Rounds \cup {NoRound}
  BY DEF End
<1>4. lock' = IF lock = p THEN NoRound ELSE lock
  BY DEF End
<1>5. \A r \in Rounds : pc'[r] \in Locked <=> lock' = r
  BY <1>1, <1>4, RoundAssumption DEF Locked
<1> QED BY <1>1, <1>2, <1>3, <1>5

\* A step that only reads keeps the invariant if it keeps the round's own row.
LEMMA QueryKeeps ==
  ASSUME RoundInv, NEW p \in Rounds, pc[p] # "done", Query,
         ProgressOK', ReadsOK', \A r \in Rounds : r # p => Untouched(r), RowOK(p)'
  PROVE  RoundInv'
<1>1. UNCHANGED dataVars /\ disturbed' = disturbed
  BY DEF Query
<1>2. WarehouseInv'
  BY <1>1, NextInv DEF RoundInv
<1>3. OverStays
  BY DEF OverStays, Untouched
<1>4. ASSUME NEW r \in Rounds, r # p PROVE RowOK(r)'
  <2>1. warehouse' = warehouse
    BY <1>1 DEF dataVars
  <2> QED BY <1>1, <1>3, <1>4, <2>1, BystanderKeeps
<1> QED BY <1>2, <1>4 DEF RoundInv

\* So does one that ends the round without evidence, unless it blames a quiet one.
LEMMA EndKeeps ==
  ASSUME RoundInv, NEW p \in Rounds, NEW how \in Outcomes \ {"none", "COMPLETED"},
         pc[p] # "done", End(p, how), Query, UNCHANGED <<before, pending, after, evidence, earlier>>,
         prior' = prior \/ prior' = [prior EXCEPT ![p] = warehouse],
         p \notin disturbed => how \notin {"queue", "remaining", "decrease", "evidence"}
  PROVE  RoundInv'
<1> USE DEF RoundInv
<1>1. ProgressOK' /\ pc'[p] = "done" /\ outcome'[p] = how
      /\ \A r \in Rounds : r # p => pc'[r] = pc[r] /\ outcome'[r] = outcome[r]
  BY EndProgress
<1>2. own' = own /\ disturbed' = disturbed /\ commands' = commands /\ warehouse' = warehouse
  BY DEF Query, dataVars
<1>3. \A r \in Rounds : prior'[r] = prior[r] \/ (r = p /\ prior'[r] = warehouse)
  BY DEF ReadsOK
<1>4. ReadsOK'
  BY <1>2 DEF ReadsOK, WarehouseInv, WarehouseTypeOK
<1>5. ASSUME NEW r \in Rounds, r # p PROVE Untouched(r)
  BY <1>1, <1>2, <1>3, <1>5 DEF Untouched
<1>6. Sound(p)'
  <2>1. Sound(p) /\ earlier[p] \subseteq Rounds
    BY DEF RowOK, ReadsOK
  <2>2. \A q \in earlier[p] : pc'[q] = "done"
    BY <1>1, <2>1 DEF Sound
  <2> QED BY <1>1, <1>2, <1>3, <2>1, <2>2 DEF Sound, KeysRead, PastKeys, BeforeKeys
<1>7. p \notin disturbed => Quiet(p)'
  BY <1>1 DEF Quiet, PastKeys, BeforeKeys
<1>8. RowOK(p)'
  BY <1>2, <1>6, <1>7 DEF RowOK
<1> QED BY <1>1, <1>4, <1>5, <1>8, QueryKeeps

-----------------------------------------------------------------------------
(* Before the lock *)

\* A round that goes on stays as it is in all but what it read.
LEMMA CountKeeps ==
  ASSUME RoundInv, NEW p \in Rounds, Count(p)
  PROVE  RoundInv'
<1> USE DEF RoundInv
<1>1. /\ pc[p] = "start" /\ Goto(p, "counted") /\ Query
      /\ before' = [before EXCEPT ![p] = Counts]
      /\ earlier' = [earlier EXCEPT ![p] = {q \in Rounds : pc[q] = "done"}]
      /\ UNCHANGED <<pending, prior, after, evidence, outcome>>
  BY DEF Count, Goto
<1>2. ProgressOK' /\ \A r \in Rounds : r # p => pc'[r] = pc[r]
  BY <1>1, GotoProgress DEF Steps, Locked
<1>3. pc'[p] = "counted"
  BY <1>1 DEF Goto, ProgressOK
<1>4. own' = own /\ disturbed' = disturbed /\ commands' = commands
      /\ warehouse' = warehouse /\ Counts' = Counts
  BY <1>1 DEF Query, dataVars, Counts, Assigned, Queue
<1>5. /\ before'[p] = Counts /\ earlier'[p] = {q \in Rounds : pc[q] = "done"}
      /\ \A r \in Rounds : r # p => before'[r] = before[r] /\ earlier'[r] = earlier[r]
  BY <1>1 DEF ReadsOK
<1>6. ReadsOK'
  BY <1>1, <1>4, CountsType DEF ReadsOK, WarehouseInv
<1>7. \A r \in Rounds : r # p => Untouched(r)
  BY <1>1, <1>2, <1>4, <1>5 DEF Untouched
<1>8. Sound(p)'
  <2>1. Sound(p)
    BY DEF RowOK
  <2>2. outcome'[p] # "COMPLETED"
    BY <1>1 DEF ProgressOK
  <2>3. \A q \in earlier'[p] : pc'[q] = "done"
    BY <1>1, <1>2, <1>5
  <2> QED BY <1>1, <1>3, <1>4, <2>1, <2>2, <2>3 DEF Sound, KeysRead, PastKeys, BeforeKeys
<1>9. p \notin disturbed => Quiet(p)'
  <2>1. outcome'[p] = "none"
    BY <1>1 DEF ProgressOK
  <2> QED BY <1>3, <1>4, <1>5, <2>1 DEF Quiet, PastKeys, BeforeKeys
<1>10. RowOK(p)'
  BY <1>4, <1>8, <1>9 DEF RowOK
<1> QED BY <1>1, <1>2, <1>6, <1>7, <1>10, QueryKeeps

LEMMA ListPendingKeeps ==
  ASSUME RoundInv, NEW p \in Rounds, ListPending(p)
  PROVE  RoundInv'
<1> USE DEF RoundInv
<1>1. /\ pc[p] = "counted" /\ Goto(p, "listed") /\ Query
      /\ pending' = [pending EXCEPT ![p] = Pending]
      /\ UNCHANGED <<before, prior, after, evidence, earlier, outcome>>
  BY DEF ListPending, Goto
<1>2. ProgressOK' /\ \A r \in Rounds : r # p => pc'[r] = pc[r]
  BY <1>1, GotoProgress DEF Steps, Locked
<1>3. pc'[p] = "listed" /\ outcome'[p] = "none"
  BY <1>1 DEF Goto, ProgressOK
<1>4. own' = own /\ disturbed' = disturbed /\ commands' = commands
      /\ warehouse' = warehouse /\ Counts' = Counts /\ Pending' = Pending
  BY <1>1 DEF Query, dataVars, Counts, Assigned, Queue, Pending, Staged
<1>5. /\ pending'[p] = Pending
      /\ \A r \in Rounds : r # p => pending'[r] = pending[r]
  BY <1>1 DEF ReadsOK
<1>6. ReadsOK'
  BY <1>1, <1>4 DEF ReadsOK, Pending
<1>7. \A r \in Rounds : r # p => Untouched(r)
  BY <1>1, <1>2, <1>4, <1>5 DEF Untouched
<1>8. Sound(p)'
  <2>1. Sound(p) /\ earlier[p] \subseteq Rounds
    BY DEF RowOK, ReadsOK
  <2>2. \A q \in earlier'[p] : pc'[q] = "done"
    BY <1>1, <1>2, <2>1 DEF Sound
  <2> QED BY <1>1, <1>3, <1>4, <2>1, <2>2 DEF Sound, KeysRead, PastKeys, BeforeKeys
<1>9. ASSUME p \notin disturbed PROVE Quiet(p)'
  <2>1. Quiet(p)
    BY <1>9 DEF RowOK
  <2> QED BY <1>1, <1>3, <1>4, <1>5, <2>1 DEF Quiet, PastKeys, BeforeKeys
<1>10. RowOK(p)'
  BY <1>4, <1>8, <1>9 DEF RowOK
<1> QED BY <1>1, <1>2, <1>6, <1>7, <1>10, QueryKeeps

\* A round that nobody disturbed finds that its counts add up: they are of one moment.
LEMMA ReadKeysKeeps ==
  ASSUME RoundInv, NEW p \in Rounds, ReadKeys(p)
  PROVE  RoundInv'
<1> USE DEF RoundInv
<1>1. /\ pc[p] = "listed" /\ Query
      /\ prior' = [prior EXCEPT ![p] = warehouse]
      /\ UNCHANGED <<before, pending, after, evidence, earlier>>
  BY DEF ReadKeys
<1>2. p \notin disturbed => Quiet(p) /\ before[p] = Counts
  BY <1>1 DEF RowOK, Quiet
<1>3. CASE ~QueueAddsUp(before[p])
  <2>1. End(p, "queue") /\ p \in disturbed
    BY <1>2, <1>3, CountsAddUp DEF ReadKeys
  <2> QED BY <1>1, <2>1, EndKeeps DEF Outcomes
<1>4. CASE QueueAddsUp(before[p])
  <2>1. Goto(p, "ready") /\ outcome' = outcome
    BY <1>4 DEF ReadKeys, Goto
  <2>2. ProgressOK' /\ \A r \in Rounds : r # p => pc'[r] = pc[r]
    BY <1>1, <2>1, GotoProgress DEF Steps, Locked
  <2>3. pc'[p] = "ready" /\ outcome'[p] = "none" /\ outcome[p] = "none"
    BY <1>1, <2>1 DEF Goto, ProgressOK
  <2>4. own' = own /\ disturbed' = disturbed /\ commands' = commands
        /\ warehouse' = warehouse /\ Counts' = Counts /\ Pending' = Pending /\ Assigned' = Assigned
    BY <1>1 DEF Query, dataVars, Counts, Assigned, Queue, Pending, Staged
  <2>5. /\ prior'[p] = warehouse
        /\ \A r \in Rounds : r # p => prior'[r] = prior[r]
    BY <1>1 DEF ReadsOK
  <2>6. ReadsOK'
    BY <1>1, <2>4 DEF ReadsOK, WarehouseInv, WarehouseTypeOK
  <2>7. \A r \in Rounds : r # p => Untouched(r)
    BY <1>1, <2>1, <2>2, <2>4, <2>5 DEF Untouched
  <2>8. Sound(p)'
    <3>1. Sound(p) /\ earlier[p] \subseteq Rounds
      BY DEF RowOK, ReadsOK
    <3>2. own[p] = {}
      BY <1>1, <3>1 DEF Sound, BeforeKeys
    <3>3. \A q \in earlier'[p] : pc'[q] = "done" /\ evidence'[q] \subseteq warehouse
      BY <1>1, <2>2, <3>1 DEF Sound, RowOK
    <3> QED BY <1>1, <2>3, <2>4, <2>5, <3>1, <3>2, <3>3 DEF Sound, BeforeKeys
  <2>9. ASSUME p \notin disturbed PROVE Quiet(p)'
    <3>1. own[p] = {} /\ Pending \subseteq pending[p]
      BY <1>1, <1>2, <2>9 DEF RowOK, Sound, BeforeKeys, Quiet
    <3>2. /\ before[p].auctions = Cardinality(warehouse)
          /\ before[p].assignments = Cardinality(Assigned)
          /\ Cardinality(Assigned) \in Nat
      BY <1>2, <2>9, CountsType, FS_CardinalityType DEF Counts, WarehouseInv
    <3> QED BY <1>1, <2>3, <2>4, <2>5, <3>1, <3>2 DEF Quiet
  <2>10. RowOK(p)'
    BY <2>4, <2>8, <2>9 DEF RowOK
  <2> QED BY <1>1, <2>2, <2>6, <2>7, <2>10, QueryKeeps
<1> QED BY <1>3, <1>4

LEMMA PlanKeeps ==
  ASSUME RoundInv, NEW p \in Rounds, Plan(p)
  PROVE  RoundInv'
<1>1. pc[p] # "done" /\ End(p, "PLANNED") /\ Query /\ UNCHANGED <<readVars, evidence, earlier>>
  BY DEF Plan
<1> QED BY <1>1, EndKeeps DEF Outcomes, readVars

-----------------------------------------------------------------------------
(* From step to step *)

\* A round that goes on without reading or writing keeps what is so of it.
LEMMA GoesOn ==
  ASSUME RoundInv, NEW p \in Rounds, NEW step \in PastKeys, pc[p] \in PastKeys,
         pc' = [pc EXCEPT ![p] = step], ProgressOK',
         Query, UNCHANGED <<outcome, readVars, evidence, earlier>>,
         step \in {"ready", "drain"} => pc[p] \in {"ready", "drain"},
         step \in {"recounted", "verified"} => pc[p] \in {"recounted", "verified"}
  PROVE  RoundInv'
<1> USE DEF RoundInv
<1>1. pc[p] # "done" /\ pc[p] \notin BeforeKeys /\ step \notin BeforeKeys
  BY DEF PastKeys
<1>2. pc'[p] = step /\ \A r \in Rounds : r # p => pc'[r] = pc[r]
  BY DEF ProgressOK
<1>3. own' = own /\ disturbed' = disturbed /\ commands' = commands
      /\ warehouse' = warehouse /\ Counts' = Counts /\ Pending' = Pending /\ Assigned' = Assigned
  BY DEF Query, dataVars, Counts, Assigned, Queue, Pending, Staged
<1>4. /\ outcome' = outcome /\ before' = before /\ pending' = pending /\ prior' = prior
      /\ after' = after /\ evidence' = evidence /\ earlier' = earlier
  BY DEF readVars
<1>5. ReadsOK'
  BY <1>3, <1>4 DEF ReadsOK
<1>6. \A r \in Rounds : r # p => Untouched(r)
  BY <1>2, <1>3, <1>4 DEF Untouched
<1>7. Sound(p)'
  <2>1. Sound(p) /\ earlier[p] \subseteq Rounds
    BY DEF RowOK, ReadsOK
  <2>2. \A q \in earlier[p] : pc'[q] = "done"
    BY <1>1, <1>2, <2>1 DEF Sound
  <2> QED BY <1>1, <1>2, <1>3, <1>4, <2>1, <2>2 DEF Sound, KeysRead
<1>8. ASSUME p \notin disturbed PROVE Quiet(p)'
  <2>1. Quiet(p)
    BY <1>8 DEF RowOK
  <2>2. step \notin {"counted", "listed"}
    BY <1>1 DEF BeforeKeys
  <2> QED BY <1>2, <1>3, <1>4, <2>1, <2>2 DEF Quiet
<1>9. RowOK(p)'
  BY <1>3, <1>7, <1>8 DEF RowOK
<1> QED BY <1>1, <1>5, <1>6, <1>9, QueryKeeps

LEMMA GotoGoesOn ==
  ASSUME RoundInv, NEW p \in Rounds, NEW step \in PastKeys, pc[p] \in PastKeys, Goto(p, step),
         step \in Locked <=> pc[p] \in Locked,
         Query, UNCHANGED <<readVars, evidence, earlier>>,
         step \in {"ready", "drain"} => pc[p] \in {"ready", "drain"},
         step \in {"recounted", "verified"} => pc[p] \in {"recounted", "verified"}
  PROVE  RoundInv'
<1>1. ProgressOK'
  BY GotoProgress DEF RoundInv, PastKeys
<1>2. pc' = [pc EXCEPT ![p] = step] /\ UNCHANGED <<outcome, readVars, evidence, earlier>>
  BY DEF Goto
<1> QED BY <1>1, <1>2, GoesOn

LEMMA TakeLockKeeps ==
  ASSUME RoundInv, NEW p \in Rounds, TakeLock(p)
  PROVE  RoundInv'
<1>1. pc[p] = "ready" /\ Query /\ UNCHANGED <<readVars, evidence, earlier>>
  BY DEF TakeLock
<1>2. CASE lock # NoRound
  <2>1. End(p, "BLOCKED")
    BY <1>2 DEF TakeLock
  <2> QED BY <1>1, <2>1, EndKeeps DEF Outcomes, readVars
<1>3. CASE lock = NoRound
  <2> DEFINE step == IF pending[p] = {} THEN "buyee" ELSE "drain"
  <2>1. lock' = p /\ pc' = [pc EXCEPT ![p] = step] /\ outcome' = outcome
    BY <1>3 DEF TakeLock
  <2>2. step \in {"buyee", "drain"}
    OBVIOUS
  <2> HIDE DEF step
  <2>3. step \in PastKeys /\ pc[p] \in PastKeys /\ step \in Locked /\ step \in Steps /\ step # "done"
    BY <1>1, <2>2 DEF PastKeys, Steps, BeforeKeys, Locked
  <2>4. ProgressOK'
    <3>1. ProgressOK /\ p # NoRound
      BY RoundAssumption DEF RoundInv
    <3>2. \A r \in Rounds : pc'[r] = IF r = p THEN step ELSE pc[r]
      BY <2>1, <3>1 DEF ProgressOK
    <3>3. \A r \in Rounds : lock # r
      BY <1>3, RoundAssumption
    <3>4. pc' \in [Rounds -> Steps]
      BY <2>1, <2>3, <3>1 DEF ProgressOK
    <3>5. \A r \in Rounds : pc'[r] \in Locked <=> lock' = r
      BY <2>1, <2>3, <3>1, <3>2, <3>3 DEF ProgressOK
    <3>6. \A r \in Rounds : outcome'[r] # "none" <=> pc'[r] = "done"
      BY <1>1, <2>1, <2>3, <3>1, <3>2 DEF ProgressOK
    <3>7. lock' \in Rounds \cup {NoRound} /\ outcome' \in [Rounds -> Outcomes]
      BY <2>1, <3>1 DEF ProgressOK
    <3> QED BY <3>4, <3>5, <3>6, <3>7 DEF ProgressOK
  <2> QED BY <1>1, <2>1, <2>2, <2>3, <2>4, GoesOn
<1> QED BY <1>2, <1>3

LEMMA DrainFailsKeeps ==
  ASSUME RoundInv, NEW p \in Rounds, DrainFails(p)
  PROVE  RoundInv'
<1>1. pc[p] # "done" /\ End(p, "sync") /\ Query /\ UNCHANGED <<readVars, evidence, earlier>>
  BY DEF DrainFails
<1> QED BY <1>1, EndKeeps DEF Outcomes, readVars

\* Nobody else stages anything in a quiet round: all that was pending is drained.
LEMMA DrainedKeeps ==
  ASSUME RoundInv, NEW p \in Rounds, Drained(p)
  PROVE  RoundInv'
<1>1. pc[p] = "drain" /\ pending[p] = {} /\ Query /\ UNCHANGED <<readVars, evidence, earlier>>
  BY DEF Drained
<1>2. CASE Remaining = {}
  <2>1. Goto(p, "buyee")
    BY <1>2 DEF Drained
  <2> QED BY <1>1, <2>1, GotoGoesOn DEF PastKeys, Steps, BeforeKeys, Locked
<1>3. CASE Remaining # {}
  <2>1. End(p, "remaining")
    BY <1>3 DEF Drained
  <2>2. p \in disturbed
    BY <1>1, <1>3 DEF RoundInv, RowOK, Quiet, Remaining
  <2> QED BY <1>1, <2>1, <2>2, EndKeeps DEF Outcomes, readVars
<1> QED BY <1>2, <1>3

LEMMA RefreshOnKeeps ==
  ASSUME RoundInv, NEW p \in Rounds, RefreshOn(p)
  PROVE  RoundInv'
<1> DEFINE step == [buyee |-> "ebay", ebay |-> "fill", fill |-> "exited"][pc[p]]
<1>1. pc[p] \in {"buyee", "ebay", "fill"} /\ Goto(p, step) /\ Query
      /\ UNCHANGED <<readVars, evidence, earlier>>
  BY DEF RefreshOn
<1>2. step \in {"ebay", "fill", "exited"}
  BY <1>1
<1> HIDE DEF step
<1> QED BY <1>1, <1>2, GotoGoesOn DEF PastKeys, Steps, BeforeKeys, Locked

LEMMA RefreshFailsKeeps ==
  ASSUME RoundInv, NEW p \in Rounds, RefreshFails(p)
  PROVE  RoundInv'
<1>1. pc[p] # "done" /\ End(p, "FAILED") /\ Query /\ UNCHANGED <<readVars, evidence, earlier>>
  BY DEF RefreshFails
<1> QED BY <1>1, EndKeeps DEF Outcomes, readVars

LEMMA KillKeeps ==
  ASSUME RoundInv, NEW p \in Rounds, Kill(p)
  PROVE  RoundInv'
<1>1. pc[p] # "done" /\ End(p, "KILLED") /\ Query /\ UNCHANGED <<readVars, evidence, earlier>>
  BY DEF Kill, Running
<1> QED BY <1>1, EndKeeps DEF Outcomes, readVars

-----------------------------------------------------------------------------
(* After the refresh *)

LEMMA RecountKeeps ==
  ASSUME RoundInv, NEW p \in Rounds, Recount(p)
  PROVE  RoundInv'
<1> USE DEF RoundInv
<1>1. /\ pc[p] = "exited" /\ Goto(p, "recounted") /\ Query
      /\ after' = [after EXCEPT ![p] = Counts]
      /\ UNCHANGED <<before, pending, prior, evidence, earlier, outcome>>
  BY DEF Recount, Goto
<1>2. ProgressOK' /\ \A r \in Rounds : r # p => pc'[r] = pc[r]
  BY <1>1, GotoProgress DEF Steps, Locked
<1>3. pc'[p] = "recounted" /\ outcome'[p] = "none" /\ pc[p] \in PastKeys
  BY <1>1 DEF Goto, ProgressOK, PastKeys, BeforeKeys, Steps
<1>4. own' = own /\ disturbed' = disturbed /\ commands' = commands
      /\ warehouse' = warehouse /\ Counts' = Counts /\ Assigned' = Assigned
  BY <1>1 DEF Query, dataVars, Counts, Assigned, Queue
<1>5. /\ after'[p] = Counts
      /\ \A r \in Rounds : r # p => after'[r] = after[r]
  BY <1>1 DEF ReadsOK
<1>6. ReadsOK'
  BY <1>1, <1>4, CountsType DEF ReadsOK, WarehouseInv
<1>7. \A r \in Rounds : r # p => Untouched(r)
  BY <1>1, <1>2, <1>4, <1>5 DEF Untouched
<1>8. Sound(p)'
  <2>1. Sound(p) /\ earlier[p] \subseteq Rounds
    BY DEF RowOK, ReadsOK
  <2>2. \A q \in earlier'[p] : pc'[q] = "done"
    BY <1>1, <1>2, <2>1 DEF Sound
  <2> QED BY <1>1, <1>3, <1>4, <2>1, <2>2 DEF Sound, KeysRead, BeforeKeys
<1>9. ASSUME p \notin disturbed PROVE Quiet(p)'
  <2>1. Quiet(p)
    BY <1>9 DEF RowOK
  <2> QED BY <1>1, <1>3, <1>4, <1>5, <2>1 DEF Quiet
<1>10. RowOK(p)'
  BY <1>4, <1>8, <1>9 DEF RowOK
<1> QED BY <1>1, <1>2, <1>6, <1>7, <1>10, QueryKeeps

\* The counts of a quiet round have not decreased, and they add up.
LEMMA VerifyKeeps ==
  ASSUME RoundInv, NEW p \in Rounds, Verify(p)
  PROVE  RoundInv'
<1>1. pc[p] = "recounted" /\ pc[p] \in PastKeys /\ Query /\ UNCHANGED <<readVars, evidence, earlier>>
  BY DEF Verify, PastKeys, Steps, BeforeKeys
<1>2. p \notin disturbed => QueueAddsUp(after[p])
  BY <1>1, CountsAddUp DEF RoundInv, RowOK, Quiet
<1>3. p \notin disturbed => ~Decreased(p)
  <2> SUFFICES ASSUME p \notin disturbed PROVE ~Decreased(p)
    OBVIOUS
  <2>1. /\ after[p] = Counts /\ prior[p] \subseteq warehouse
        /\ before[p].auctions = Cardinality(prior[p])
        /\ before[p].assignments <= Cardinality(Assigned)
    BY <1>1 DEF RoundInv, RowOK, Quiet, Sound
  <2>2. IsFiniteSet(warehouse) /\ IsFiniteSet(Assigned)
    BY CountsType DEF RoundInv, WarehouseInv
  <2>3. Cardinality(prior[p]) \in Nat /\ Cardinality(warehouse) \in Nat
        /\ Cardinality(prior[p]) <= Cardinality(warehouse)
    BY <2>1, <2>2, CountGrows
  <2>4. before[p].assignments \in Nat /\ Cardinality(Assigned) \in Nat
    BY <2>2, FS_CardinalityType DEF RoundInv, ReadsOK
  <2>5. after[p].auctions = Cardinality(warehouse) /\ after[p].assignments = Cardinality(Assigned)
    BY <2>1 DEF Counts
  <2> QED BY <2>1, <2>3, <2>4, <2>5 DEF Decreased
<1>4. \/ \E how \in {"decrease", "queue", "pending"} :
           End(p, how) /\ (p \notin disturbed => how = "pending")
      \/ Goto(p, "verified")
  BY <1>2, <1>3 DEF Verify
<1>5. ASSUME NEW how \in {"decrease", "queue", "pending"}, End(p, how),
             p \notin disturbed => how = "pending"
      PROVE  RoundInv'
  BY <1>1, <1>5, EndKeeps DEF Outcomes, readVars
<1>6. CASE Goto(p, "verified")
  BY <1>1, <1>6, GotoGoesOn DEF PastKeys, Steps, BeforeKeys, Locked
<1> QED BY <1>4, <1>5, <1>6

\* What is new is what was not among the keys: of a quiet round, what it brought in.
LEMMA WriteEvidenceKeeps ==
  ASSUME RoundInv, NEW p \in Rounds, WriteEvidence(p)
  PROVE  RoundInv'
<1> USE DEF RoundInv
<1>1. pc[p] = "verified" /\ pc[p] \in PastKeys /\ Query /\ UNCHANGED <<readVars, earlier>>
  BY DEF WriteEvidence, PastKeys, Steps, BeforeKeys
<1>2. Sound(p) /\ (p \notin disturbed => Quiet(p)) /\ earlier[p] \subseteq Rounds
  BY DEF RowOK, ReadsOK
<1>3. CASE Cardinality(New(p)) # after[p].auctions - before[p].auctions
  <2>1. End(p, "evidence") /\ evidence' = evidence
    BY <1>3 DEF WriteEvidence
  <2>2. ASSUME p \notin disturbed PROVE FALSE
    <3>1. /\ after[p].auctions = Cardinality(warehouse) /\ prior[p] \subseteq warehouse
          /\ before[p].auctions = Cardinality(prior[p])
      BY <1>1, <1>2, <2>2 DEF Quiet, Sound, Counts
    <3>2. IsFiniteSet(warehouse)
      BY CountsType DEF WarehouseInv
    <3> QED BY <1>3, <3>1, <3>2, CountGrows DEF New
  <2> QED BY <1>1, <2>1, <2>2, EndKeeps DEF Outcomes, readVars
<1>4. CASE Cardinality(New(p)) = after[p].auctions - before[p].auctions
  <2>1. evidence' = [evidence EXCEPT ![p] = New(p)] /\ End(p, "COMPLETED")
    BY <1>4 DEF WriteEvidence
  <2>2. ProgressOK' /\ pc'[p] = "done" /\ outcome'[p] = "COMPLETED"
        /\ \A r \in Rounds : r # p => pc'[r] = pc[r] /\ outcome'[r] = outcome[r]
    BY <1>1, <2>1, EndProgress DEF Outcomes
  <2>3. own' = own /\ disturbed' = disturbed /\ commands' = commands /\ warehouse' = warehouse
    BY <1>1 DEF Query, dataVars
  <2>4. evidence'[p] = New(p) /\ \A r \in Rounds : r # p => evidence'[r] = evidence[r]
    BY <2>1 DEF ReadsOK
  <2>5. ReadsOK'
    BY <1>1, <2>1, <2>3 DEF ReadsOK, readVars, New, WarehouseInv, WarehouseTypeOK
  <2>6. \A r \in Rounds : r # p => Untouched(r)
    BY <1>1, <2>2, <2>3, <2>4 DEF Untouched, readVars
  <2>7. prior'[p] = prior[p] /\ earlier'[p] = earlier[p]
    BY <1>1 DEF readVars
  <2>8. Sound(p)'
    <3>1. \A q \in earlier[p] : q # p /\ pc'[q] = "done" /\ evidence'[q] \subseteq prior[p]
      BY <1>1, <1>2, <2>2, <2>4 DEF Sound, KeysRead
    <3>2. own[p] \subseteq New(p) /\ New(p) \cap prior[p] = {} /\ New(p) \subseteq warehouse
      BY <1>1, <1>2 DEF Sound, KeysRead, New
    <3> QED BY <1>1, <1>2, <2>2, <2>3, <2>4, <2>7, <3>1, <3>2 DEF Sound, KeysRead, BeforeKeys
  <2>9. ASSUME p \notin disturbed PROVE Quiet(p)'
    <3>1. New(p) = own[p]
      BY <1>1, <1>2, <2>9 DEF Quiet, Sound, KeysRead, New
    <3> QED BY <2>2, <2>3, <2>4, <3>1 DEF Quiet, PastKeys
  <2>10. RowOK(p)'
    BY <2>3, <2>8, <2>9 DEF RowOK
  <2> QED BY <1>1, <2>2, <2>5, <2>6, <2>10, QueryKeeps
<1> QED BY <1>3, <1>4

-----------------------------------------------------------------------------
(* Writing *)

\* What a round writes itself it knows to be its own; the others it disturbs.
LEMMA WritesKeeps ==
  ASSUME RoundInv, [WarehouseNext]_dataVars, NEW p \in Rounds,
         pc[p] \in {"drain", "buyee", "ebay", "fill"}, Writes(p),
         UNCHANGED <<lock, pc, outcome, before, prior, after, evidence>>,
         pending' \in [Rounds -> SUBSET Staging],
         \A r \in Rounds : r # p => pending'[r] = pending[r],
         Assigned \subseteq Assigned',
         pc[p] = "drain" /\ Pending \subseteq pending[p] => Pending' \subseteq pending'[p]
  PROVE  RoundInv'
<1> USE DEF RoundInv
<1>1. WarehouseInv' /\ warehouse \subseteq warehouse' /\ warehouse' \subseteq Listings
  <2>1. WarehouseInv'
    BY NextInv
  <2>2. warehouse \subseteq warehouse'
    BY WarehouseGrows DEF WarehouseInv
  <2> QED BY <2>1, <2>2 DEF WarehouseInv, WarehouseTypeOK
<1>2. ProgressOK'
  BY DEF ProgressOK
<1>3. /\ own'[p] = own[p] \cup (warehouse' \ warehouse)
      /\ \A r \in Rounds : r # p => own'[r] = own[r]
      /\ disturbed' = disturbed \cup (Running \ {p})
      /\ commands' = commands /\ earlier' = earlier
      /\ own' \in [Rounds -> SUBSET Listings]
  BY <1>1 DEF Writes, ReadsOK
<1>4. ReadsOK'
  BY <1>3 DEF ReadsOK, Running
<1>5. ASSUME NEW r \in Rounds, r # p PROVE RowOK(r)'
  <2>1. Untouched(r)
    BY <1>3, <1>5 DEF Untouched
  <2>2. OverStays
    BY DEF OverStays
  <2>3. disturbed \subseteq disturbed' /\ (r \in Running => r \in disturbed')
    BY <1>3, <1>5
  <2> QED BY <1>1, <2>1, <2>2, <2>3, BystanderKeeps
<1>6. pc[p] \in PastKeys /\ pc[p] \notin BeforeKeys /\ outcome[p] = "none"
      /\ pc[p] \notin {"recounted", "verified", "ready"}
  BY DEF PastKeys, BeforeKeys, Steps, ProgressOK
<1>7. Sound(p)'
  <2>1. Sound(p)
    BY DEF RowOK
  <2> QED BY <1>1, <1>3, <1>6, <2>1 DEF Sound, KeysRead
<1>8. ASSUME p \notin disturbed' PROVE Quiet(p)'
  <2>1. Quiet(p)
    BY <1>3, <1>8 DEF RowOK
  <2>2. pc[p] = "drain" => Pending' \subseteq pending'[p]
    BY <2>1 DEF Quiet
  <2>3. warehouse' = prior[p] \cup own'[p] /\ before[p].auctions = Cardinality(prior[p])
    BY <1>1, <1>3, <1>6, <2>1 DEF Quiet
  <2>4. before[p].assignments <= Cardinality(Assigned')
    <3>1. IsFiniteSet(Assigned')
      <4>1. Assigned' \in SUBSET Listings
        BY DEF Assigned
      <4> QED BY <4>1, WarehouseAssumption, FS_Subset
    <3>2. Cardinality(Assigned) \in Nat /\ Cardinality(Assigned') \in Nat
          /\ Cardinality(Assigned) <= Cardinality(Assigned')
      BY <3>1, CountGrows
    <3>3. before[p].assignments \in Nat /\ before[p].assignments <= Cardinality(Assigned)
      BY <1>6, <2>1 DEF ReadsOK, Quiet
    <3> QED BY <3>2, <3>3
  <2> QED BY <1>6, <2>1, <2>2, <2>3, <2>4 DEF Quiet, BeforeKeys
<1>9. RowOK(p)'
  BY <1>7, <1>8 DEF RowOK
<1> QED BY <1>1, <1>2, <1>4, <1>5, <1>9

LEMMA DrainKeeps ==
  ASSUME RoundInv, NEW p \in Rounds, Drain(p)
  PROVE  WarehouseNext /\ RoundInv'
<1> DEFINE m == IF "buyee" \in pending[p] THEN "buyee" ELSE "ebay"
<1>1. /\ pc[p] = "drain" /\ Sync({m}) /\ Writes(p) /\ Goto(p, "drain")
      /\ pending' = [pending EXCEPT ![p] = @ \ {m}]
      /\ UNCHANGED <<before, prior, after, evidence>>
  BY DEF Drain
<1>2. m \in Staging
  BY DEF Staging
<1> HIDE DEF m
<1>3. WarehouseNext
  BY <1>1, <1>2 DEF WarehouseNext, Staging
<1>4. UNCHANGED <<lock, pc, outcome>>
  BY <1>1 DEF Goto, RoundInv, ProgressOK
<1>5. /\ pending' \in [Rounds -> SUBSET Staging] /\ pending'[p] = pending[p] \ {m}
      /\ \A r \in Rounds : r # p => pending'[r] = pending[r]
  BY <1>1 DEF RoundInv, ReadsOK
<1>6. Assigned' = Assigned /\ Pending' \subseteq Pending \ {m}
  <2>1. assignment' = assignment /\ staging' = staging /\ warehouse' = warehouse \cup Staged(m)
    BY <1>1 DEF Sync
  <2> QED BY <2>1 DEF Assigned, Pending, Staged
<1> QED BY <1>1, <1>3, <1>4, <1>5, <1>6, WritesKeeps

LEMMA RefreshKeeps ==
  ASSUME RoundInv, NEW p \in Rounds, Refresh(p)
  PROVE  WarehouseNext /\ RoundInv'
<1>1. /\ pc[p] \in {"buyee", "ebay", "fill"} /\ Writes(p)
      /\ UNCHANGED <<lock, pc, outcome, before, pending, prior, after, evidence>>
  BY DEF Refresh, readVars
<1>2. WarehouseNext
  BY DEF Refresh, WarehouseNext, ParseSome, FromSource
<1>3. Assigned \subseteq Assigned'
  <2>1. CASE \E l \in Listings : Fill(l)
    BY <2>1 DEF Fill, Assigned, RoundInv, WarehouseInv, WarehouseTypeOK
  <2>2. CASE assignment' = assignment
    BY <2>2 DEF Assigned
  <2>3. (\E l \in Listings : Fill(l)) \/ assignment' = assignment
    BY DEF Refresh, Fetch, Parse, Sync
  <2> QED BY <2>1, <2>2, <2>3
<1>4. pending' \in [Rounds -> SUBSET Staging] /\ \A r \in Rounds : pending'[r] = pending[r]
  BY <1>1 DEF RoundInv, ReadsOK
<1> QED BY <1>1, <1>2, <1>3, <1>4, WritesKeeps

\* The operator disturbs every round that runs.
LEMMA CommandKeeps ==
  ASSUME RoundInv, Command
  PROVE  RoundInv'
<1> USE DEF RoundInv
<1>1. /\ WarehouseNext /\ commands < MaxCommands /\ commands' = commands + 1
      /\ disturbed' = disturbed \cup Running
      /\ UNCHANGED <<lock, pc, outcome, before, pending, prior, after, evidence, own, earlier>>
  BY DEF Command, readVars
<1>2. WarehouseInv' /\ warehouse \subseteq warehouse'
  BY <1>1, NextInv, WarehouseGrows DEF WarehouseInv
<1>3. ProgressOK'
  BY <1>1 DEF ProgressOK
<1>4. ReadsOK'
  BY <1>1, RoundAssumption DEF ReadsOK, Running
<1>5. ASSUME NEW r \in Rounds PROVE RowOK(r)'
  BY <1>1, <1>2, BystanderKeeps DEF Untouched, OverStays
<1> QED BY <1>2, <1>3, <1>4, <1>5

-----------------------------------------------------------------------------
(* The theorems *)

LEMMA RoundInitInv == RoundInit => RoundInv
<1> SUFFICES ASSUME RoundInit PROVE RoundInv
  OBVIOUS
<1>1. WarehouseInv
  BY InitInv DEF RoundInit
<1>2. ProgressOK
  BY RoundAssumption DEF RoundInit, ProgressOK, Steps, Outcomes, Locked
<1>3. ReadsOK
  BY RoundAssumption DEF RoundInit, ReadsOK, NoCounts
<1>4. ASSUME NEW r \in Rounds PROVE RowOK(r)
  BY <1>4 DEF RoundInit, RowOK, Sound, Quiet, KeysRead, PastKeys, BeforeKeys
<1> QED BY <1>1, <1>2, <1>3, <1>4 DEF RoundInv

LEMMA RoundNextInv == RoundInv /\ [RoundNext]_vars => RoundInv' /\ [WarehouseNext]_dataVars
<1> SUFFICES ASSUME RoundInv, [RoundNext]_vars PROVE RoundInv' /\ [WarehouseNext]_dataVars
  OBVIOUS
<1>1. CASE UNCHANGED vars
  <2>1. UNCHANGED <<dataVars, lock, pc, outcome, before, pending, prior, after, evidence,
                    commands, own, earlier, disturbed>>
    BY <1>1 DEF vars, readVars, historyVars
  <2>2. WarehouseInv' /\ ProgressOK' /\ ReadsOK' /\ warehouse' = warehouse
    BY <2>1, NextInv DEF RoundInv, ProgressOK, ReadsOK, dataVars
  <2>3. ASSUME NEW r \in Rounds PROVE RowOK(r)'
    BY <2>1, <2>2, BystanderKeeps DEF Untouched, OverStays
  <2> QED BY <2>1, <2>2, <2>3 DEF RoundInv
<1>2. CASE Command
  BY <1>2, CommandKeeps DEF Command
<1>3. ASSUME NEW p \in Rounds, Drain(p) \/ Refresh(p) PROVE RoundInv' /\ WarehouseNext
  BY <1>3, DrainKeeps, RefreshKeeps
<1>4. ASSUME NEW p \in Rounds,
             \/ Count(p) \/ ListPending(p) \/ ReadKeys(p) \/ Plan(p) \/ TakeLock(p)
             \/ DrainFails(p) \/ Drained(p) \/ RefreshOn(p) \/ RefreshFails(p) \/ Kill(p)
             \/ Recount(p) \/ Verify(p) \/ WriteEvidence(p)
      PROVE  RoundInv' /\ UNCHANGED dataVars
  <2>1. Query
    BY <1>4 DEF Count, ListPending, ReadKeys, Plan, TakeLock, DrainFails, Drained, RefreshOn,
                RefreshFails, Kill, Recount, Verify, WriteEvidence
  <2>2. RoundInv'
    BY <1>4, CountKeeps, ListPendingKeeps, ReadKeysKeeps, PlanKeeps, TakeLockKeeps,
       DrainFailsKeeps, DrainedKeeps, RefreshOnKeeps, RefreshFailsKeeps, KillKeeps,
       RecountKeeps, VerifyKeeps, WriteEvidenceKeeps
  <2> QED BY <2>1, <2>2 DEF Query
<1>5. \/ UNCHANGED vars \/ Command
      \/ \E p \in Rounds :
           \/ Drain(p) \/ Refresh(p)
           \/ Count(p) \/ ListPending(p) \/ ReadKeys(p) \/ Plan(p) \/ TakeLock(p)
           \/ DrainFails(p) \/ Drained(p) \/ RefreshOn(p) \/ RefreshFails(p) \/ Kill(p)
           \/ Recount(p) \/ Verify(p) \/ WriteEvidence(p)
  BY DEF RoundNext, Over, Advance
<1> QED BY <1>1, <1>2, <1>3, <1>4, <1>5

\* The invariant of the rounds, of any number of them beside the operator's commands
THEOREM RoundInvHolds == RoundSpec => []RoundInv
<1>1. RoundInv /\ [RoundNext]_vars => RoundInv'
  BY RoundNextInv
<1> QED BY <1>1, RoundInitInv, PTL DEF RoundSpec

\* The rounds implement the warehouse: whatever they do to it is what one of its
\* writers may do, so that all that is proved of it holds beside them.
THEOREM RoundsRefineWarehouse == RoundSpec => WarehouseSpec
<1>1. RoundInit => WarehouseInit
  BY DEF RoundInit
<1>2. RoundInv /\ [RoundNext]_vars => [WarehouseNext]_dataVars
  BY RoundNextInv
<1> QED BY <1>1, <1>2, RoundInvHolds, PTL DEF RoundSpec, WarehouseSpec

\* One round at a time is past the lock, and holds it: none leaves it behind.
THEOREM RoundTypeOKHolds == RoundSpec => []RoundTypeOK
<1>1. RoundInv => RoundTypeOK
  BY DEF RoundInv, ProgressOK, ReadsOK, RoundTypeOK, WarehouseInv
<1> QED BY <1>1, RoundInvHolds, PTL

\* A completed round accounts for all it brought in, and for nothing else when nobody
\* else wrote.
THEOREM EvidenceCoversOwnHolds == RoundSpec => []EvidenceCoversOwn
<1>1. RoundInv => EvidenceCoversOwn
  BY DEF RoundInv, RowOK, Sound, Quiet, EvidenceCoversOwn
<1> QED BY <1>1, RoundInvHolds, PTL

\* Rounds that follow each other never report the same auction: what the first has
\* reported is among the keys of the second.
THEOREM SuccessorsReportOnceHolds == RoundSpec => []SuccessorsReportOnce
<1>1. ASSUME RoundInv PROVE SuccessorsReportOnce
  <2> SUFFICES ASSUME NEW r \in Rounds, outcome[r] = "COMPLETED", NEW q \in earlier[r]
               PROVE  evidence[q] \cap evidence[r] = {}
    BY DEF SuccessorsReportOnce
  <2>1. Sound(r)
    BY <1>1 DEF RoundInv, RowOK
  <2> QED BY <2>1 DEF Sound, KeysRead
<1> QED BY <1>1, RoundInvHolds, PTL

\* The checks of a round never stop it but for what somebody else wrote.
THEOREM QuietRoundAddsUpHolds == RoundSpec => []QuietRoundAddsUp
<1>1. RoundInv => QuietRoundAddsUp
  BY DEF RoundInv, RowOK, Quiet, QuietRoundAddsUp
<1> QED BY <1>1, RoundInvHolds, PTL
=============================================================================
