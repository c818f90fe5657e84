---------------------------- MODULE EvidenceProofs ----------------------------
(***************************************************************************)
(* Theorems about two of the things the pages do beside the refresh:       *)
(* EvidenceApply, for any number of sessions, reports and saves, and       *)
(* IngestJob, for any number of pages, jobs and deaths.                    *)
(*                                                                         *)
(* EvidenceInv says what an open transaction may hold: a row that  *)
(* it has decided to fill in is locked by it and not the operator's, or    *)
(* was not there when it looked; and what it has written differs from what *)
(* is committed in the value alone.                                        *)
(*                                                                         *)
(* IngestInv says what is true of a status that somebody has read or is    *)
(* about to write: a page that will write queued is the only one to start  *)
(* that worker, one that will write failed speaks of a worker that is      *)
(* gone, and a pid that is published is that of a worker that was started. *)
(***************************************************************************)
EXTENDS EvidenceApply, IngestJob, TLAPS

At(s) == ApplyOrder(s)[place[s]]

\* The decision to write stands on a row that is held, or on one that was not there.
DecisionIsHeld ==
  \A s \in Session : phase[s] = "write" =>
    /\ place[s] \in 1 .. 3
    /\ At(s) \in blind[s] \/ (holder[At(s)] = s /\ stored[At(s)].value # "manual")

\* What is written over an operator's value was written without having seen a row.
OverwrittenIsBlind ==
  \A t \in Table : holder[t] # Free /\ written[t].value = "auto" /\ stored[t].value = "manual" =>
    t \in blind[holder[t]]

RestIsTheSame == \A t \in Table : written[t].rest = stored[t].rest

AbsentIsNoRow == \A t \in Table : written[t].value = "absent" => written[t] = NoRow

EvidenceInv ==
  EvidenceTypeOK /\ DecisionIsHeld /\ OverwrittenIsBlind /\ RestIsTheSame /\ AbsentIsNoRow

LEMMA OrderIsOfTables ==
  ASSUME NEW s \in Session, NEW k \in 1 .. 3
  PROVE  ApplyOrder(s)[k] \in Table
BY DEF ApplyOrder, Table

\* Locking a table and deciding about it, the decision apart from its reasons
LEMMA LookDecides ==
  ASSUME NEW s \in Session, Look(s)
  PROVE  /\ phase[s] = "look" /\ place[s] <= 3 /\ At(s) \in todo[s]
         /\ Locks(s, At(s))
         /\ seen' = [seen EXCEPT ![s] = stored[At(s)]]
         /\ blind' = [blind EXCEPT ![s] = IF stored[At(s)] = NoRow THEN @ \cup {At(s)} ELSE @]
         /\ UNCHANGED <<stored, written, reports, saves>>
         /\ \/ ~Claimed(At(s), stored[At(s)]) /\ Goto(s, "write", place[s], todo[s])
            \/ Goto(s, "look", place[s] + 1, todo[s] \ {At(s)})
BY Zenon DEF Look, At

LEMMA InitInv == EvidenceInit => EvidenceInv
BY EvidenceAssumption
DEF EvidenceInit, EvidenceInv, EvidenceTypeOK, DecisionIsHeld, OverwrittenIsBlind, RestIsTheSame,
    AbsentIsNoRow, Row, NoRow, Table

\* A save leaves a row of its own, and takes nobody's.
LEMMA SaveKeeps ==
  ASSUME EvidenceInv, NEW t \in Table, Save(t)
  PROVE  EvidenceInv'
<1> USE DEF EvidenceInv
<1>1. PICK r \in Saved(t) : /\ stored' = [stored EXCEPT ![t] = r]
                            /\ written' = [written EXCEPT ![t] = r]
  BY DEF Save
<1>2. r \in Row /\ (r.value = "absent" => r = NoRow)
  BY <1>1 DEF Saved, Row, NoRow
<1>3. holder[t] = Free /\ holder' = holder /\ UNCHANGED sessionVars /\ reports' = reports
      /\ saves' \in 0 .. MaxSaves
  BY EvidenceAssumption DEF Save, EvidenceTypeOK
<1>4. EvidenceTypeOK'
  BY <1>1, <1>2, <1>3 DEF EvidenceTypeOK, sessionVars
<1>5. DecisionIsHeld'
  BY <1>1, <1>3, EvidenceAssumption, OrderIsOfTables
  DEF DecisionIsHeld, sessionVars, At, ApplyOrder, EvidenceTypeOK
<1>6. OverwrittenIsBlind'
  BY <1>1, <1>3 DEF OverwrittenIsBlind, sessionVars, EvidenceTypeOK
<1>7. RestIsTheSame' /\ AbsentIsNoRow'
  BY <1>1, <1>2 DEF RestIsTheSame, AbsentIsNoRow, EvidenceTypeOK
<1> QED BY <1>4, <1>5, <1>6, <1>7

\* The steps that touch no row
LEMMA QuietKeeps ==
  ASSUME EvidenceInv, NEW s \in Session, Begin(s) \/ Propose(s) \/ Submit(s) \/ Skip(s)
  PROVE  EvidenceInv'
<1> USE DEF EvidenceInv
<1>1. /\ UNCHANGED rowVars /\ UNCHANGED <<seen, blind>>
      /\ reports' \in 0 .. MaxReports /\ saves' = saves
  BY EvidenceAssumption DEF Begin, Propose, Submit, Skip, EvidenceTypeOK
<1>2. PICK to \in {"idle", "build", "look"}, at \in 1 .. 4, left \in SUBSET Table :
        /\ Goto(s, to, at, left)
        /\ phase[s] = "look" => to = "look"
        /\ phase[s] # "write"
  <2>1. CASE Begin(s)
    BY <2>1 DEF Begin
  <2>2. CASE Propose(s)
    BY <2>2 DEF Propose, BuildOrder, Table, EvidenceTypeOK
  <2>3. CASE Submit(s)
    BY <2>3 DEF Submit, EvidenceTypeOK
  <2>4. CASE Skip(s)
    BY <2>4 DEF Skip, EvidenceTypeOK
  <2> QED BY <2>1, <2>2, <2>3, <2>4
<1>3. EvidenceTypeOK'
  BY <1>1, <1>2 DEF EvidenceTypeOK, Goto, rowVars
<1>4. DecisionIsHeld'
  BY <1>1, <1>2 DEF DecisionIsHeld, EvidenceTypeOK, Goto, rowVars, At, ApplyOrder
<1>5. OverwrittenIsBlind' /\ RestIsTheSame' /\ AbsentIsNoRow'
  BY <1>1 DEF OverwrittenIsBlind, RestIsTheSame, AbsentIsNoRow, rowVars
<1> QED BY <1>3, <1>4, <1>5

\* What is locked is free, and so as it is committed; what is not there is remembered.
LEMMA LookKeeps ==
  ASSUME EvidenceInv, NEW s \in Session, Look(s)
  PROVE  EvidenceInv'
<1> USE DEF EvidenceInv
<1> DEFINE t == At(s)
<1>1. /\ phase[s] = "look" /\ place[s] \in 1 .. 3 /\ t \in Table
      /\ UNCHANGED <<stored, written, reports, saves>>
  <2>1. phase[s] = "look" /\ place[s] <= 3 /\ UNCHANGED <<stored, written, reports, saves>>
    BY LookDecides
  <2>2. place[s] \in 1 .. 3
    BY <2>1 DEF EvidenceTypeOK
  <2>3. t \in Table
    BY <2>2, OrderIsOfTables DEF At
  <2> QED BY <2>1, <2>2, <2>3
<1>2. /\ seen' = [seen EXCEPT ![s] = stored[t]]
      /\ blind' = [blind EXCEPT ![s] = IF stored[t] = NoRow THEN @ \cup {t} ELSE @]
  BY LookDecides
<1>3. \/ stored[t] = NoRow /\ holder' = holder
      \/ stored[t] # NoRow /\ holder[t] = Free /\ holder' = [holder EXCEPT ![t] = s]
  BY LookDecides DEF Locks
<1>4. \/ ~Claimed(t, stored[t]) /\ Goto(s, "write", place[s], todo[s])
      \/ Goto(s, "look", place[s] + 1, todo[s] \ {t})
  BY LookDecides
<1> HIDE DEF t
<1>5. EvidenceTypeOK'
  <2>1. /\ holder' \in [Table -> Session \cup {Free}]
        /\ seen' \in [Session -> Row] /\ blind' \in [Session -> SUBSET Table]
    BY <1>1, <1>2, <1>3 DEF EvidenceTypeOK
  <2>2. /\ phase' \in [Session -> {"idle", "build", "look", "write"}]
        /\ place' \in [Session -> 1 .. 4] /\ todo' \in [Session -> SUBSET Table]
        /\ phase'[s] \in {"look", "write"} /\ \A x \in Session \ {s} : phase'[x] = phase[x]
    BY <1>1, <1>4 DEF EvidenceTypeOK, Goto
  <2>3. \A x \in Table : /\ holder'[x] = Free => written'[x] = stored'[x]
                         /\ holder'[x] # Free => phase'[holder'[x]] \in {"look", "write"}
    BY <1>1, <1>3, <2>2, EvidenceAssumption DEF EvidenceTypeOK
  <2> QED BY <1>1, <2>1, <2>2, <2>3 DEF EvidenceTypeOK
<1>6. DecisionIsHeld'
  <2> SUFFICES ASSUME NEW x \in Session, phase'[x] = "write"
               PROVE  /\ place'[x] \in 1 .. 3
                      /\ \/ At(x)' \in blind'[x]
                         \/ holder'[At(x)'] = x /\ stored'[At(x)'].value # "manual"
    BY DEF DecisionIsHeld
  <2>1. CASE x = s
    <3>1. ~Claimed(t, stored[t]) /\ place'[s] = place[s]
      BY <1>4, <2>1 DEF Goto, EvidenceTypeOK
    <3>2. At(s)' = t
      BY <3>1 DEF At, ApplyOrder, t
    <3>3. stored[t].value # "manual"
      BY <3>1 DEF Claimed
    <3>4. stored[t] = NoRow => t \in blind'[s]
      BY <1>2 DEF EvidenceTypeOK
    <3>5. stored[t] # NoRow => holder'[t] = s
      BY <1>1, <1>3 DEF EvidenceTypeOK
    <3> QED BY <1>1, <2>1, <3>1, <3>2, <3>3, <3>4, <3>5
  <2>2. CASE x # s
    <3>1. phase[x] = "write" /\ place'[x] = place[x] /\ blind'[x] = blind[x]
      BY <1>2, <1>4, <2>2 DEF Goto, EvidenceTypeOK
    <3>2. At(x)' = At(x) /\ At(x) \in Table
      BY <3>1, OrderIsOfTables DEF At, ApplyOrder, DecisionIsHeld
    <3>3. holder[At(x)] = x => holder'[At(x)] = x
      BY <1>1, <1>3, <3>2, EvidenceAssumption DEF EvidenceTypeOK
    <3> QED BY <1>1, <3>1, <3>2, <3>3 DEF DecisionIsHeld
  <2> QED BY <2>1, <2>2
<1>7. OverwrittenIsBlind'
  <2> SUFFICES ASSUME NEW x \in Table, holder'[x] # Free, written[x].value = "auto",
                      stored[x].value = "manual"
               PROVE  x \in blind'[holder'[x]]
    BY <1>1 DEF OverwrittenIsBlind
  <2>1. holder[x] # Free
    BY DEF EvidenceTypeOK
  <2>2. holder'[x] = holder[x]
    BY <1>1, <1>3, <2>1 DEF EvidenceTypeOK
  <2>3. blind[holder[x]] \subseteq blind'[holder[x]]
    BY <1>2, <2>1 DEF EvidenceTypeOK
  <2> QED BY <2>1, <2>2, <2>3 DEF OverwrittenIsBlind
<1>8. RestIsTheSame' /\ AbsentIsNoRow'
  BY <1>1 DEF RestIsTheSame, AbsentIsNoRow
<1> QED BY <1>5, <1>6, <1>7, <1>8

\* Only the value is written, and over an operator's only where there was no row.
LEMMA WriteKeeps ==
  ASSUME EvidenceInv, NEW s \in Session, Write(s)
  PROVE  EvidenceInv'
<1> USE DEF EvidenceInv
<1> DEFINE t == At(s)
<1>1. /\ phase[s] = "write" /\ holder[t] \in {Free, s}
      /\ holder' = [holder EXCEPT ![t] = s]
      /\ written' = [written EXCEPT ![t] = [written[t] EXCEPT !.value = "auto"]]
      /\ Goto(s, "look", place[s] + 1, todo[s] \ {t})
      /\ UNCHANGED <<stored, seen, blind, reports, saves>>
  BY DEF Write, Upserted, At
<1>2. place[s] \in 1 .. 3 /\ t \in Table
  BY <1>1, OrderIsOfTables DEF DecisionIsHeld, At
<1>3. t \in blind[s] \/ stored[t].value # "manual"
  BY <1>1 DEF DecisionIsHeld
<1> HIDE DEF t
<1>4. EvidenceTypeOK'
  <2>1. written'[t] \in Row
    BY <1>1, <1>2 DEF EvidenceTypeOK, Row
  <2>2. written' \in [Table -> Row] /\ holder' \in [Table -> Session \cup {Free}]
    BY <1>1, <1>2, <2>1 DEF EvidenceTypeOK
  <2>3. /\ phase' \in [Session -> {"idle", "build", "look", "write"}]
        /\ place' \in [Session -> 1 .. 4] /\ todo' \in [Session -> SUBSET Table]
        /\ phase'[s] = "look" /\ \A x \in Session \ {s} : phase'[x] = phase[x]
    BY <1>1, <1>2 DEF EvidenceTypeOK, Goto
  <2>4. \A x \in Table : /\ holder'[x] = Free => written'[x] = stored'[x]
                         /\ holder'[x] # Free => phase'[holder'[x]] \in {"look", "write"}
    BY <1>1, <1>2, <2>3, EvidenceAssumption DEF EvidenceTypeOK
  <2> QED BY <1>1, <2>2, <2>3, <2>4 DEF EvidenceTypeOK
<1>5. DecisionIsHeld'
  <2> SUFFICES ASSUME NEW x \in Session, phase'[x] = "write"
               PROVE  /\ place'[x] \in 1 .. 3
                      /\ \/ At(x)' \in blind'[x]
                         \/ holder'[At(x)'] = x /\ stored'[At(x)'].value # "manual"
    BY DEF DecisionIsHeld
  <2>1. x # s /\ phase[x] = "write" /\ place'[x] = place[x]
    BY <1>1 DEF Goto, EvidenceTypeOK
  <2>2. At(x)' = At(x) /\ At(x) \in Table
    BY <2>1, OrderIsOfTables DEF At, ApplyOrder, DecisionIsHeld
  <2>3. holder[At(x)] = x => holder'[At(x)] = x
    BY <1>1, <1>2, <2>1, <2>2, EvidenceAssumption DEF EvidenceTypeOK
  <2> QED BY <1>1, <2>1, <2>2, <2>3 DEF DecisionIsHeld
<1>6. OverwrittenIsBlind'
  BY <1>1, <1>2, <1>3 DEF OverwrittenIsBlind, EvidenceTypeOK
<1>7. RestIsTheSame' /\ AbsentIsNoRow'
  BY <1>1, <1>2 DEF RestIsTheSame, AbsentIsNoRow, EvidenceTypeOK, Row
<1> QED BY <1>4, <1>5, <1>6, <1>7

\* The end of a transaction, either way
LEMMA CloseKeeps ==
  ASSUME EvidenceInv, NEW s \in Session, NEW rows \in {stored, written}, Close(s, rows)
  PROVE  EvidenceInv'
<1> USE DEF EvidenceInv
<1>1. /\ stored' = [t \in Table |-> IF holder[t] = s THEN rows[t] ELSE stored[t]]
      /\ written' = [t \in Table |-> IF holder[t] = s THEN rows[t] ELSE written[t]]
      /\ holder' = [t \in Table |-> IF holder[t] = s THEN Free ELSE holder[t]]
      /\ Goto(s, "idle", 1, {})
      /\ seen' = [seen EXCEPT ![s] = NoRow] /\ blind' = [blind EXCEPT ![s] = {}]
      /\ UNCHANGED <<reports, saves>>
  BY DEF Close
<1>2. /\ rows \in [Table -> Row]
      /\ \A t \in Table : /\ rows[t].value = "absent" => rows[t] = NoRow
                          /\ rows[t].rest = stored[t].rest
  BY DEF EvidenceTypeOK, RestIsTheSame, AbsentIsNoRow
<1>3. EvidenceTypeOK'
  <2>1. stored' \in [Table -> Row] /\ written' \in [Table -> Row]
        /\ holder' \in [Table -> Session \cup {Free}]
    BY <1>1, <1>2 DEF EvidenceTypeOK
  <2>2. /\ phase' \in [Session -> {"idle", "build", "look", "write"}]
        /\ place' \in [Session -> 1 .. 4] /\ todo' \in [Session -> SUBSET Table]
        /\ \A x \in Session \ {s} : phase'[x] = phase[x]
    BY <1>1 DEF EvidenceTypeOK, Goto
  <2>3. seen' \in [Session -> Row] /\ blind' \in [Session -> SUBSET Table]
    BY <1>1 DEF EvidenceTypeOK, NoRow, Row
  <2>4. \A t \in Table : /\ holder'[t] = Free => written'[t] = stored'[t]
                         /\ holder'[t] # Free => phase'[holder'[t]] \in {"look", "write"}
                         /\ stored'[t].value = "absent" => stored'[t] = NoRow
    BY <1>1, <1>2, <2>2, EvidenceAssumption DEF EvidenceTypeOK
  <2> QED BY <1>1, <2>1, <2>2, <2>3, <2>4 DEF EvidenceTypeOK
<1>4. DecisionIsHeld'
  <2> SUFFICES ASSUME NEW x \in Session, phase'[x] = "write"
               PROVE  /\ place'[x] \in 1 .. 3
                      /\ \/ At(x)' \in blind'[x]
                         \/ holder'[At(x)'] = x /\ stored'[At(x)'].value # "manual"
    BY DEF DecisionIsHeld
  <2>1. x # s /\ phase[x] = "write" /\ place'[x] = place[x] /\ blind'[x] = blind[x]
    BY <1>1 DEF Goto, EvidenceTypeOK
  <2>2. At(x)' = At(x) /\ At(x) \in Table
    BY <2>1, OrderIsOfTables DEF At, ApplyOrder, DecisionIsHeld
  <2>3. holder[At(x)] = x => holder'[At(x)] = x /\ stored'[At(x)] = stored[At(x)]
    BY <1>1, <2>1, <2>2
  <2> QED BY <2>1, <2>2, <2>3 DEF DecisionIsHeld
<1>5. OverwrittenIsBlind'
  <2> SUFFICES ASSUME NEW x \in Table, holder'[x] # Free, written'[x].value = "auto",
                      stored'[x].value = "manual"
               PROVE  x \in blind'[holder'[x]]
    BY DEF OverwrittenIsBlind
  <2>1. holder[x] # s /\ holder'[x] = holder[x] /\ stored'[x] = stored[x] /\ written'[x] = written[x]
    BY <1>1
  <2>2. holder[x] \in Session /\ blind'[holder[x]] = blind[holder[x]]
    BY <1>1, <2>1 DEF EvidenceTypeOK
  <2> QED BY <2>1, <2>2 DEF OverwrittenIsBlind
<1>6. RestIsTheSame' /\ AbsentIsNoRow'
  BY <1>1, <1>2 DEF RestIsTheSame, AbsentIsNoRow
<1> QED BY <1>3, <1>4, <1>5, <1>6

\* Every step keeps the invariant.
LEMMA NextInv == EvidenceInv /\ [EvidenceNext]_evidenceVars => EvidenceInv'
<1> SUFFICES ASSUME EvidenceInv, [EvidenceNext]_evidenceVars
             PROVE  EvidenceInv'
  OBVIOUS
<1>1. CASE UNCHANGED evidenceVars
  BY <1>1 DEF EvidenceInv, EvidenceTypeOK, DecisionIsHeld, OverwrittenIsBlind, RestIsTheSame,
     AbsentIsNoRow, At, ApplyOrder, evidenceVars, rowVars, sessionVars
<1>2. ASSUME NEW t \in Table, Save(t)
      PROVE  EvidenceInv'
  BY <1>2, SaveKeeps
<1>3. ASSUME NEW s \in Session, Begin(s) \/ Proceed(s) \/ Abort(s)
      PROVE  EvidenceInv'
  <2>1. CASE Begin(s) \/ Propose(s) \/ Submit(s) \/ Skip(s)
    BY <2>1, QuietKeeps
  <2>2. CASE Look(s)
    BY <2>2, LookKeeps
  <2>3. CASE Write(s)
    BY <2>3, WriteKeeps
  <2>4. CASE Commit(s) \/ Abort(s)
    BY <2>4, CloseKeeps DEF Commit, Abort
  <2> QED BY <1>3, <2>1, <2>2, <2>3, <2>4 DEF Proceed
<1> QED BY <1>1, <1>2, <1>3 DEF EvidenceNext, Over

\* In every order of the statements, what an open transaction has decided stands on a
\* row it holds or on one that was not there.
THEOREM InvHolds == EvidenceSpec => []EvidenceInv
<1> QED BY InitInv, NextInv, PTL DEF EvidenceSpec

-----------------------------------------------------------------------------

\* What one step does to the committed rows: a save replaces one, the end of a
\* transaction publishes those it holds.
LEMMA RowsChange ==
  ASSUME EvidenceInv, EvidenceNext, NEW t \in Table, stored'[t] # stored[t]
  PROVE  \/ stored'[t].value # "auto"
         \/ holder[t] # Free /\ stored'[t] = written[t]
<1>1. ASSUME NEW x \in Table, Save(x)
      PROVE  stored'[t].value # "auto"
  <2>1. PICK r \in Saved(x) : stored' = [stored EXCEPT ![x] = r]
    BY <1>1 DEF Save
  <2>2. r.value # "auto"
    BY <2>1 DEF Saved, Row, NoRow
  <2>3. x = t /\ stored'[t] = r
    BY <2>1 DEF EvidenceInv, EvidenceTypeOK
  <2> QED BY <2>2, <2>3
<1>2. ASSUME NEW s \in Session, Begin(s) \/ Proceed(s) \/ Abort(s)
      PROVE  holder[t] # Free /\ stored'[t] = written[t]
  <2>1. CASE Begin(s) \/ Propose(s) \/ Submit(s) \/ Look(s) \/ Skip(s) \/ Write(s)
    BY <2>1 DEF Begin, Propose, Submit, Look, Skip, Write, rowVars
  <2>2. CASE Commit(s)
    BY <2>2, EvidenceAssumption DEF Commit, Close
  <2>3. CASE Abort(s)
    BY <2>3 DEF Abort, Close
  <2> QED BY <1>2, <2>1, <2>2, <2>3 DEF Proceed
<1>3. CASE Over
  BY <1>3 DEF Over, evidenceVars, rowVars
<1> QED BY <1>1, <1>2, <1>3 DEF EvidenceNext

\* Whatever is saved, applied or rolled back beside it, the assistant overwrites an
\* operator's value only where it has read that there was no row.
THEOREM ReadClaimsAreKeptHolds == EvidenceSpec => ReadClaimsAreKept
<1>1. EvidenceInv /\ [EvidenceNext]_evidenceVars =>
        [\A t \in Table : stored[t].value = "manual" /\ stored'[t].value = "auto" =>
           \E s \in Session : t \in blind[s]]_evidenceVars
  <2> SUFFICES ASSUME EvidenceInv, EvidenceNext, NEW t \in Table,
                      stored[t].value = "manual", stored'[t].value = "auto"
               PROVE  \E s \in Session : t \in blind[s]
    OBVIOUS
  <2>1. holder[t] # Free /\ written[t].value = "auto"
    BY RowsChange
  <2>2. holder[t] \in Session
    BY <2>1 DEF EvidenceInv, EvidenceTypeOK
  <2> QED BY <2>1, <2>2 DEF EvidenceInv, OverwrittenIsBlind
<1> QED BY <1>1, InvHolds, PTL DEF EvidenceSpec, ReadClaimsAreKept

\* The operator's other columns survive every write of the assistant's, wherever it
\* comes between the operator's saves.
THEOREM RestIsKeptHolds == EvidenceSpec => RestIsKept
<1>1. EvidenceInv /\ [EvidenceNext]_evidenceVars =>
        [\A t \in Table : stored'[t].value = "auto" =>
           stored'[t].rest = stored[t].rest]_evidenceVars
  <2> SUFFICES ASSUME EvidenceInv, EvidenceNext, NEW t \in Table, stored'[t].value = "auto"
               PROVE  stored'[t].rest = stored[t].rest
    OBVIOUS
  <2> QED BY RowsChange DEF EvidenceInv, RestIsTheSame
<1> QED BY <1>1, InvHolds, PTL DEF EvidenceSpec, RestIsKept

-----------------------------------------------------------------------------
(* The on-demand job: what pages and workers know of the status they write  *)

PageRow ==
  [at : {"idle", "locked", "probe", "failing", "creating", "spawning", "registering", "refusing"},
   doc : Doc, writing : Writing]

WorkerRow ==
  [at : Gone \cup {"waiting", "opening", "reading", "closing"},
   doc : Doc, writing : Writing, parent : {"page", "init"}]

Early == {"none", "queued"}

\* A page that has not yet written down the pid of the worker it starts
Opens(s) ==
  \/ page[s].at \in {"creating", "spawning"}
  \/ page[s].at = "registering" /\ page[s].writing = "job"

\* Nobody is about to start the worker of j, nor to write that it waits.
Settled(j) == \A s \in Tab : Opens(s) => page[s].doc.job # j

\* A worker that has ended, or never began, and never will
Dead(j) == worker[j].at \in Gone /\ Settled(j)

\* A worker has been there, and a page has written its pid down.
Known(j) == worker[j].at # "none" /\ Settled(j)

\* Jobs that are not yet created are nowhere.
NumbersInv ==
  /\ \A j \in Job : j > jobs => file[j] = NoDoc /\ j \notin late /\ worker[j].at = "none"
  /\ latest.job <= jobs
  /\ \A s \in Tab : page[s].doc.job <= jobs

FileInv == \A j \in Job : file[j].pid = "set" => file[j].job = j /\ Known(j)

\* Until a worker ends, only it goes on with the status of its job.
WorkerInv ==
  \A j \in Job :
    /\ worker[j].doc.job \in {0, j}
    /\ worker[j].at \in Gone \cup {"waiting"} => worker[j].writing = "nothing"
    /\ worker[j].at = "waiting" => file[j].status \in Early
    /\ worker[j].at \in {"opening", "reading", "closing"} =>
         worker[j].doc.job = j /\ worker[j].doc.pid = "set" /\ Settled(j)
    /\ worker[j].at \in {"opening", "reading"} =>
         worker[j].doc.status = "running" /\ file[j].status \in Early \cup {"running"}
    /\ worker[j].at = "closing" =>
         /\ worker[j].doc.status \in Terminal /\ worker[j].writing # "nothing"
         /\ worker[j].writing = "job" => file[j].status \in Early \cup {"running"}

LateInv == \A j \in late : worker[j].at \notin {"waiting", "opening"} /\ Settled(j)

\* A status that may be latest.json: it names the pid of a worker that is known, and
\* of any that reads.
LatestFits(doc) ==
  /\ doc.status \in {"queued", "running"} => doc.job \in Job
  /\ \A j \in Job : doc.job = j =>
       /\ doc.pid = "set" => Known(j)
       /\ \/ worker[j].at \in {"reading", "closing"}
          \/ worker[j].at = "opening" /\ worker[j].writing = "nothing"
          => doc.pid = "set"

LatestInv == LatestFits(latest)

\* A page that starts a worker is the first to write of it; one that writes failed does
\* so of a worker that is dead.
PageFits(s) ==
  /\ page[s].at \in {"idle", "locked", "probe", "spawning"} <=> page[s].writing = "nothing"
  /\ page[s].at \in {"probe", "failing", "creating", "spawning", "registering", "refusing"} =>
       page[s].doc.job \in Job
  /\ page[s].at = "probe" => Known(page[s].doc.job)
  /\ page[s].at \in {"failing", "refusing"} =>
       /\ page[s].doc.status = "failed" /\ Dead(page[s].doc.job)
       /\ page[s].doc.pid = "set" => Known(page[s].doc.job)
  /\ page[s].at \in {"creating", "spawning"} =>
       /\ page[s].doc.status = "queued" /\ page[s].doc.pid = "null"
       /\ worker[page[s].doc.job].at = "none" /\ file[page[s].doc.job].status \in Early
  /\ page[s].at = "registering" =>
       /\ page[s].doc.status = "queued" /\ page[s].doc.pid = "set"
       /\ worker[page[s].doc.job].at # "none"
       /\ page[s].writing = "job" =>
            /\ worker[page[s].doc.job].at \in Gone \cup {"waiting"}
            /\ file[page[s].doc.job].status \in Early

PageInv == \A s \in Tab : PageFits(s)

IngestInv ==
  IngestTypeOK /\ NumbersInv /\ FileInv /\ WorkerInv /\ LateInv /\ LatestInv /\ PageInv

Locking == {"locked", "creating", "spawning", "registering", "refusing"}

LEMMA IngestTypes ==
  ASSUME IngestTypeOK
  PROVE  /\ file \in [Job -> Doc] /\ latest \in Doc /\ lock \in Tab \cup {Nobody}
         /\ page \in [Tab -> PageRow] /\ worker \in [Job -> WorkerRow]
         /\ runner \in [Job -> {"none", "running", "ok", "error"}] /\ late \subseteq Job
         /\ jobs \in 0 .. MaxJobs /\ faults \in 0 .. MaxFaults
         /\ \A j \in Job : file[j].job \in {0, j}
         /\ \A s \in Tab : page[s].at \in Locking => lock = s
BY DEF IngestTypeOK, PageRow, WorkerRow, Locking

LEMMA IngestTypesBack ==
  ASSUME file' \in [Job -> Doc], latest' \in Doc, lock' \in Tab \cup {Nobody},
         page' \in [Tab -> PageRow], worker' \in [Job -> WorkerRow],
         runner' \in [Job -> {"none", "running", "ok", "error"}], late' \subseteq Job,
         jobs' \in 0 .. MaxJobs, faults' \in 0 .. MaxFaults,
         \A j \in Job : file'[j].job \in {0, j},
         \A s \in Tab : page'[s].at \in Locking => lock' = s
  PROVE  IngestTypeOK'
BY DEF IngestTypeOK, PageRow, WorkerRow, Locking

LEMMA IngestFacts ==
  ASSUME IngestInv
  PROVE  /\ IngestTypeOK /\ NumbersInv /\ FileInv /\ WorkerInv /\ LateInv /\ LatestInv /\ PageInv
         /\ file \in [Job -> Doc] /\ latest \in Doc /\ lock \in Tab \cup {Nobody}
         /\ page \in [Tab -> PageRow] /\ worker \in [Job -> WorkerRow]
         /\ runner \in [Job -> {"none", "running", "ok", "error"}] /\ late \subseteq Job
         /\ jobs \in 0 .. MaxJobs /\ faults \in 0 .. MaxFaults
         /\ \A j \in Job : file[j].job \in {0, j}
         /\ \A s \in Tab : page[s].at \in Locking => lock = s
BY IngestTypes DEF IngestInv

LEMMA IngestNumbers ==
  /\ MaxJobs \in Nat /\ MaxFaults \in Nat /\ Job \subseteq Int /\ 0 \notin Job
  /\ Job = 1 .. MaxJobs /\ Nobody \notin Tab
BY IngestAssumption DEF Job

LEMMA IngestFaultCounts ==
  ASSUME IngestInv, Fault
  PROVE  faults' \in 0 .. MaxFaults
BY IngestNumbers, IngestFacts DEF Fault

LEMMA NoDocFields ==
  /\ NoDoc \in Doc /\ NoDoc.job = 0 /\ NoDoc.pid = "null" /\ NoDoc.status = "none"
BY DEF NoDoc, Doc

LEMMA NoPageFields ==
  /\ NoPage \in PageRow /\ NoPage.at = "idle" /\ NoPage.writing = "nothing" /\ NoPage.doc.job = 0
BY NoDocFields DEF NoPage, PageRow, Writing

\* What is anywhere in a file, a worker or a page is of a job that has been created.
LEMMA CreatedJobs ==
  ASSUME IngestInv, NEW j \in Job
  PROVE  /\ file[j].pid = "set" \/ worker[j].at # "none" \/ j \in late => j <= jobs
         /\ file[j].job = j => j <= jobs
<1>1. j \in Int /\ jobs \in Int /\ j # 0
  BY IngestNumbers, IngestFacts
<1>2. j > jobs => file[j] = NoDoc /\ j \notin late /\ worker[j].at = "none"
  BY IngestFacts DEF NumbersInv
<1> QED BY <1>1, <1>2, NoDocFields

-----------------------------------------------------------------------------
(* Pages that open *)

\* No page begins to open a job that is already there.
OpensNew ==
  \A s \in Tab : Opens(s)' => \/ Opens(s) /\ page'[s].doc.job = page[s].doc.job
                              \/ page'[s].doc.job > jobs

LEMMA SettledStays ==
  ASSUME IngestInv, OpensNew, NEW j \in Job, j <= jobs, Settled(j)
  PROVE  Settled(j)'
<1>1. j \in Int /\ jobs \in Int
  BY IngestNumbers, IngestFacts
<1>2. ~(j > jobs)
  BY <1>1
<1> QED BY <1>2 DEF Settled, OpensNew

\* Only one page opens: it has the lock.
LEMMA OneOpens ==
  ASSUME IngestInv, NEW s \in Tab, NEW t \in Tab, Opens(s), Opens(t)
  PROVE  s = t
BY IngestFacts DEF Opens, Locking

-----------------------------------------------------------------------------
(* A page moves *)

\* What a page holds, of one that moves on to row
RowFits(row) ==
  /\ row.at \in {"idle", "locked", "probe"} <=> row.writing = "nothing"
  /\ row.at \in {"idle", "locked", "probe", "failing", "creating"}
  /\ row.at \in {"probe", "failing"} => row.doc.job \in Job /\ row.doc.job <= jobs
  /\ row.at \in {"idle", "locked"} => row.doc.job <= jobs
  /\ row.at = "probe" => Known(row.doc.job)
  /\ row.at = "failing" => /\ row.doc.status = "failed" /\ Dead(row.doc.job)
                           /\ row.doc.pid = "set" => Known(row.doc.job)
  /\ row.at = "creating" =>
       /\ row.writing = "job" /\ row.doc.status = "queued" /\ row.doc.pid = "null"
       /\ row.doc.job = jobs + 1 /\ jobs < MaxJobs

\* The worker of j goes on as it was, or its zombie is reaped, or a page starts it.
AsItWas(j) ==
  /\ worker'[j].doc = worker[j].doc /\ worker'[j].writing = worker[j].writing
  /\ \/ worker'[j].at = worker[j].at
     \/ worker[j].at = "zombie" /\ worker'[j].at = "reaped"
     \/ /\ worker[j].at = "none" /\ worker'[j].at = "waiting"
        /\ file[j].status \in Early /\ ~Settled(j)

\* A page moves, and may have written latest.json: what everything else says of a job
\* that is there stays true.
LEMMA PagesKeep ==
  ASSUME IngestInv, OpensNew, UNCHANGED <<file, late>>, \A j \in Job : AsItWas(j),
         latest'.job <= jobs, LatestFits(latest')
  PROVE  FileInv' /\ WorkerInv' /\ LateInv' /\ LatestInv'
<1>1. \A j \in Job : j <= jobs /\ Settled(j) => Settled(j)'
  BY SettledStays
<1>2. \A j \in Job : Known(j) /\ j <= jobs => Known(j)'
  BY <1>1 DEF Known, AsItWas
<1>3. FileInv'
  BY <1>2, CreatedJobs, IngestFacts DEF FileInv
<1>4. WorkerInv'
  <2> SUFFICES ASSUME NEW j \in Job
               PROVE  /\ worker'[j].doc.job \in {0, j}
                      /\ worker'[j].at \in Gone \cup {"waiting"} => worker'[j].writing = "nothing"
                      /\ worker'[j].at = "waiting" => file[j].status \in Early
                      /\ worker'[j].at \in {"opening", "reading", "closing"} =>
                           /\ worker[j].at = worker'[j].at
                           /\ worker[j].doc.job = j /\ worker[j].doc.pid = "set" /\ Settled(j)'
    BY IngestFacts DEF WorkerInv, AsItWas
  <2>1. /\ worker[j].doc.job \in {0, j}
        /\ worker[j].at \in Gone \cup {"waiting"} => worker[j].writing = "nothing"
        /\ worker[j].at = "waiting" => file[j].status \in Early
        /\ worker[j].at \in {"opening", "reading", "closing"} =>
             worker[j].doc.job = j /\ worker[j].doc.pid = "set" /\ Settled(j)
    BY IngestFacts DEF WorkerInv
  <2>2. worker[j].at \in {"opening", "reading", "closing"} => j <= jobs
    BY CreatedJobs
  <2> QED BY <1>1, <2>1, <2>2 DEF AsItWas, Gone
<1>5. LateInv'
  BY <1>1, CreatedJobs, IngestFacts DEF LateInv, AsItWas
<1>6. LatestInv'
  <2>1. latest'.status \in {"queued", "running"} => latest'.job \in Job
    BY DEF LatestFits
  <2> SUFFICES ASSUME NEW j \in Job, latest'.job = j
               PROVE  /\ latest'.pid = "set" => Known(j)'
                      /\ \/ worker'[j].at \in {"reading", "closing"}
                         \/ worker'[j].at = "opening" /\ worker'[j].writing = "nothing"
                         => latest'.pid = "set"
    BY <2>1 DEF LatestInv, LatestFits
  <2>2. /\ latest'.pid = "set" => Known(j)
        /\ \/ worker[j].at \in {"reading", "closing"}
           \/ worker[j].at = "opening" /\ worker[j].writing = "nothing"
           => latest'.pid = "set"
    BY DEF LatestFits
  <2> QED BY <1>2, <2>2 DEF AsItWas
<1> QED BY <1>3, <1>4, <1>5, <1>6

\* What a page t that does not move knows of the job it is at, while a worker that is
\* dead stays so, and of the job t opens nobody else writes.
LEMMA OtherPagesKeep ==
  ASSUME IngestInv, OpensNew, NEW t \in Tab, page'[t] = page[t],
         \A j \in Job : worker[j].at # "none" => worker'[j].at # "none",
         \A j \in Job : Dead(j) => worker'[j].at \in Gone,
         Opens(t) => LET j == page[t].doc.job IN
                     /\ worker[j].at = "none" => worker'[j].at = "none"
                     /\ worker[j].at \in Gone \cup {"waiting"} =>
                          worker'[j].at \in Gone \cup {"waiting"}
                     /\ file'[j].status \in Early
  PROVE  PageFits(t)'
<1>1. page[t].doc.job <= jobs /\ PageFits(t)
  BY IngestFacts DEF NumbersInv, PageInv
<1>2. page[t].doc.job \in Job /\ Settled(page[t].doc.job) => Settled(page[t].doc.job)'
  BY <1>1, SettledStays
<1>3. page[t].at \in {"probe", "failing", "refusing"} => page[t].doc.job \in Job
  BY <1>1 DEF PageFits
<1>4. page[t].at = "probe" => Known(page[t].doc.job)'
  BY <1>1, <1>2, <1>3 DEF PageFits, Known
<1>5. page[t].at \in {"failing", "refusing"} =>
        /\ page[t].doc.status = "failed" /\ Dead(page[t].doc.job)'
        /\ page[t].doc.pid = "set" => Known(page[t].doc.job)'
  BY <1>1, <1>2, <1>3 DEF PageFits, Known, Dead
<1>6. page[t].at = "registering" /\ page[t].writing = "job" => Opens(t)
  BY DEF Opens
<1>7. page[t].at \in {"creating", "spawning"} => Opens(t)
  BY DEF Opens
<1> QED BY <1>1, <1>4, <1>5, <1>6, <1>7 DEF PageFits

\* A page moves on to row, and may have written latest.json.
LEMMA PagePublishes ==
  ASSUME IngestInv, NEW s \in Tab, NEW row \in PageRow, page' = [page EXCEPT ![s] = row],
         \/ RowFits(row)
         \/ /\ row.at = "spawning" /\ row.doc = page[s].doc /\ row.writing = "nothing"
            /\ page[s].at = "creating",
         jobs' = IF row.at = "creating" THEN jobs + 1 ELSE jobs,
         UNCHANGED <<file, worker, runner, late>>, faults' \in 0 .. MaxFaults,
         latest' \in Doc, latest'.job <= jobs, LatestFits(latest'),
         lock' \in Tab \cup {Nobody}, row.at \in Locking => lock' = s,
         \A t \in Tab \ {s} : lock = t => lock' = t
  PROVE  IngestInv'
<1>1. /\ page' \in [Tab -> PageRow] /\ page'[s] = row
      /\ \A t \in Tab \ {s} : page'[t] = page[t]
  BY IngestFacts
<1>2. jobs \in Int /\ jobs' \in 0 .. MaxJobs /\ jobs' \in {jobs, jobs + 1}
      /\ \A j \in Job : j \in Int /\ (j > jobs' => j > jobs)
  BY IngestNumbers, IngestFacts DEF RowFits
<1>3. OpensNew
  <2> SUFFICES ASSUME NEW t \in Tab, Opens(t)'
               PROVE  \/ Opens(t) /\ page'[t].doc.job = page[t].doc.job
                      \/ page'[t].doc.job > jobs
    BY DEF OpensNew
  <2>1. CASE t = s
    <3>1. row.at = "creating" \/ row.at = "spawning"
      BY <1>1, <2>1 DEF Opens, RowFits
    <3>2. CASE row.at = "creating"
      BY <1>1, <1>2, <2>1, <3>2 DEF RowFits
    <3>3. CASE row.at = "spawning"
      BY <1>1, <2>1, <3>3 DEF Opens, RowFits
    <3> QED BY <3>1, <3>2, <3>3
  <2>2. CASE t # s
    BY <1>1, <2>2 DEF Opens
  <2> QED BY <2>1, <2>2
<1>4. FileInv' /\ WorkerInv' /\ LateInv' /\ LatestInv'
  <2>1. \A j \in Job : AsItWas(j)
    <3>1. worker' = worker
      OBVIOUS
    <3> QED BY <3>1 DEF AsItWas
  <2>2. UNCHANGED <<file, late>>
    OBVIOUS
  <2> QED BY <1>3, <2>1, <2>2, PagesKeep
<1>5. NumbersInv'
  <2>1. \A t \in Tab : page'[t].doc.job <= jobs'
    <3> SUFFICES ASSUME NEW t \in Tab PROVE page'[t].doc.job <= jobs'
      OBVIOUS
    <3>1. CASE t = s
      <4>1. row.doc.job \in Int
        BY IngestNumbers DEF PageRow, Doc
      <4>2. row.at = "creating" => jobs' = jobs + 1 /\ row.doc.job = jobs + 1
        BY DEF RowFits
      <4>3. row.at # "creating" => row.doc.job <= jobs
        BY IngestFacts DEF RowFits, NumbersInv
      <4> QED BY <1>1, <1>2, <3>1, <4>1, <4>2, <4>3
    <3>2. CASE t # s
      <4>1. page[t].doc.job <= jobs /\ page[t] \in PageRow
        BY IngestFacts DEF NumbersInv
      <4>2. page[t].doc.job \in Int
        BY <4>1, IngestNumbers DEF PageRow, Doc
      <4> QED BY <1>1, <1>2, <3>2, <4>1, <4>2
    <3> QED BY <3>1, <3>2
  <2>2. latest'.job \in Int
    BY IngestNumbers DEF Doc
  <2>3. latest'.job <= jobs'
    BY <1>2, <2>2
  <2> QED BY <1>2, <2>1, <2>3, IngestFacts DEF NumbersInv
<1>6. PageFits(s)'
  <2>1. CASE row.at \in {"idle", "locked"}
    BY <1>1, <2>1 DEF PageFits, RowFits
  <2>2. CASE row.at \in {"probe", "failing"}
    <3>1. row.doc.job \in Job /\ row.doc.job <= jobs
      BY <2>2 DEF RowFits
    <3>2. Settled(row.doc.job)
      BY <2>2 DEF RowFits, Known, Dead
    <3>3. Settled(row.doc.job)'
      BY <1>3, <3>1, <3>2, SettledStays
    <3> QED BY <1>1, <2>2, <3>1, <3>3 DEF PageFits, RowFits, Known, Dead, Settled
  <2>3. CASE row.at = "creating"
    <3>1. row.doc.job = jobs + 1 /\ row.doc.job \in Job
      BY <1>2, <2>3, IngestNumbers, IngestFacts DEF RowFits
    <3>2. file[row.doc.job] = NoDoc /\ worker[row.doc.job].at = "none"
      BY <1>2, <3>1, IngestFacts DEF NumbersInv
    <3> QED BY <1>1, <2>3, <3>1, <3>2, NoDocFields DEF PageFits, RowFits, Early
  <2>4. CASE row.at = "spawning"
    BY <1>1, <2>4, IngestFacts DEF PageFits, PageInv, RowFits
  <2> QED BY <2>1, <2>2, <2>3, <2>4 DEF RowFits
<1>7. PageInv'
  <2> SUFFICES ASSUME NEW t \in Tab PROVE PageFits(t)'
    BY DEF PageInv
  <2>1. CASE t # s
    <3>1. Opens(t) => file[page[t].doc.job].status \in Early
      BY IngestFacts DEF PageInv, PageFits, Opens
    <3>2. page'[t] = page[t]
      BY <1>1, <2>1
    <3> QED BY <1>3, <3>1, <3>2, OtherPagesKeep DEF Dead
  <2> QED BY <1>6, <2>1
<1>8. \A t \in Tab : page'[t].at \in Locking => lock' = t
  BY <1>1, IngestFacts
<1>9. IngestTypeOK'
  BY <1>1, <1>2, <1>8, IngestFacts, IngestTypesBack
<1> QED BY <1>4, <1>5, <1>7, <1>9 DEF IngestInv

\* A page moves on to row, and nothing is written.
LEMMA PageMoves ==
  ASSUME IngestInv, NEW s \in Tab, NEW row \in PageRow, page' = [page EXCEPT ![s] = row],
         RowFits(row), jobs' = IF row.at = "creating" THEN jobs + 1 ELSE jobs,
         UNCHANGED <<file, latest, worker, runner, late>>, faults' \in 0 .. MaxFaults,
         lock' \in Tab \cup {Nobody}, row.at \in Locking => lock' = s,
         \A t \in Tab \ {s} : lock = t => lock' = t
  PROVE  IngestInv'
<1>1. latest' \in Doc /\ latest'.job <= jobs
  BY IngestFacts DEF NumbersInv
<1>2. LatestFits(latest')
  BY IngestFacts DEF LatestInv
<1> QED BY <1>1, <1>2, PagePublishes

\* A call returns.
LEMMA FinishKeeps ==
  ASSUME IngestInv, NEW s \in Tab, Finish(s), UNCHANGED <<file, latest, worker, runner, late, jobs>>,
         faults' \in 0 .. MaxFaults
  PROVE  IngestInv'
<1>1. RowFits(NoPage)
  BY NoPageFields, IngestFacts DEF RowFits
<1>2. NoPage.at # "creating" /\ NoPage.at \notin Locking
  BY NoPageFields DEF Locking
<1> QED BY <1>1, <1>2, NoPageFields, PageMoves, IngestFacts DEF Finish

LEMMA EnterKeeps ==
  ASSUME IngestInv, NEW s \in Tab, Enter(s)
  PROVE  IngestInv'
<1>1. /\ page[s].at = "idle" /\ lock = Nobody /\ lock' = s /\ page[s] \in PageRow
      /\ UNCHANGED <<file, latest, worker, runner, late, jobs, faults>>
  BY IngestFacts DEF Enter, files, processes
<1> DEFINE row == [page[s] EXCEPT !.at = "locked"]
<1>2. page' = [page EXCEPT ![s] = row]
  BY IngestFacts DEF Enter
<1>3. row \in PageRow /\ row.at = "locked" /\ row.doc = page[s].doc /\ row.writing = page[s].writing
  BY <1>1 DEF PageRow
<1> HIDE DEF row
<1>4. page[s].writing = "nothing" /\ page[s].doc.job <= jobs
  BY <1>1, IngestFacts DEF PageInv, PageFits, NumbersInv
<1>5. RowFits(row)
  BY <1>3, <1>4 DEF RowFits
<1> QED BY <1>1, <1>2, <1>3, <1>5, PageMoves, IngestNumbers, IngestFacts

\* Under the lock, a page creates a job.
LEMMA CreatesRow ==
  ASSUME IngestInv, NEW s \in Tab, Create(s), lock = s
  PROVE  \E row \in PageRow :
           /\ page' = [page EXCEPT ![s] = row] /\ row.at = "creating" /\ RowFits(row)
           /\ jobs' = jobs + 1 /\ lock' = s
<1> DEFINE doc == [job |-> jobs', account |-> s[1], pid |-> "null", status |-> "queued"]
           row == [at |-> "creating", doc |-> doc, writing |-> "job"]
<1>1. /\ jobs < MaxJobs /\ jobs' = jobs + 1 /\ page' = [page EXCEPT ![s] = row] /\ lock' = lock
  BY DEF Create, Publish
<1>2. jobs' \in Job /\ s[1] \in Account
  BY <1>1, IngestNumbers, IngestFacts DEF Tab
<1>3. row \in PageRow
  BY <1>2 DEF PageRow, Doc, Writing
<1>4. RowFits(row)
  BY <1>1 DEF RowFits
<1>5. row.at = "creating"
  OBVIOUS
<1> HIDE DEF row
<1> QED BY <1>1, <1>3, <1>4, <1>5

LEMMA GetLatestKeeps ==
  ASSUME IngestInv, NEW s \in Tab, GetLatest(s)
  PROVE  IngestInv'
<1>1. /\ page[s].at \in {"idle", "locked"} /\ page[s] \in PageRow
      /\ UNCHANGED <<file, latest, worker, runner, late, faults>>
  BY IngestFacts DEF GetLatest, files, processes
<1>2. CASE ~ActiveFor(s, latest) /\ page[s].at = "locked" /\ Create(s)
  <2>1. lock = s
    BY <1>2, IngestFacts DEF Locking
  <2>2. PICK row \in PageRow :
          /\ page' = [page EXCEPT ![s] = row] /\ row.at = "creating" /\ RowFits(row)
          /\ jobs' = jobs + 1 /\ lock' = s
    BY <1>2, <2>1, CreatesRow
  <2> QED BY <1>1, <2>1, <2>2, PageMoves, IngestFacts
<1>3. CASE UNCHANGED <<lock, page, jobs>>
  <2>1. UNCHANGED <<file, latest, worker, runner, late, faults, lock, page, jobs>>
    BY <1>1, <1>3
  <2>2. IngestTypeOK' /\ NumbersInv'
    BY <2>1, IngestFacts DEF IngestTypeOK, NumbersInv
  <2>3. FileInv' /\ WorkerInv' /\ LateInv' /\ LatestInv' /\ PageInv'
    BY <2>1, IngestFacts DEF FileInv, WorkerInv, LateInv, LatestInv, LatestFits, PageInv, PageFits, Known, Dead,
                             Settled, Opens
  <2> QED BY <2>2, <2>3 DEF IngestInv
<1>4. CASE /\ ActiveFor(s, latest) /\ latest.pid = "set" /\ UNCHANGED <<lock, jobs>>
           /\ page' = [page EXCEPT ![s].at = "probe", ![s].doc = latest]
  <2> DEFINE row == [page[s] EXCEPT !.at = "probe", !.doc = latest]
  <2>1. page' = [page EXCEPT ![s] = row]
    BY <1>4, IngestFacts
  <2>2. row \in PageRow /\ row.at = "probe" /\ row.doc = latest /\ row.writing = page[s].writing
    BY <1>1, IngestFacts DEF PageRow
  <2> HIDE DEF row
  <2>3. page[s].writing = "nothing"
    BY <1>1, IngestFacts DEF PageInv, PageFits
  <2>4. latest.job \in Job /\ latest.job <= jobs /\ Known(latest.job)
    BY <1>4, IngestFacts DEF ActiveFor, LatestInv, LatestFits, NumbersInv
  <2>5. RowFits(row)
    BY <2>2, <2>3, <2>4 DEF RowFits
  <2> QED BY <1>1, <1>4, <2>1, <2>2, <2>5, PageMoves, IngestFacts DEF Locking
<1>5. CASE /\ ActiveFor(s, latest) /\ latest.pid # "set" /\ latest.job \in late /\ jobs' = jobs
           /\ Publish(s, "failing", [latest EXCEPT !.status = "failed"])
  <2> DEFINE doc == [latest EXCEPT !.status = "failed"]
             row == [at |-> "failing", doc |-> doc, writing |-> "job"]
  <2>1. page' = [page EXCEPT ![s] = row] /\ lock' = lock
    BY <1>5 DEF Publish
  <2>2. doc \in Doc /\ doc.status = "failed" /\ doc.job = latest.job /\ doc.pid = latest.pid
    BY IngestFacts DEF Doc
  <2>3. row \in PageRow /\ row.at = "failing" /\ row.writing = "job" /\ row.doc = doc
    BY <2>2 DEF PageRow, Writing
  <2> HIDE DEF row, doc
  <2>4. latest.job \in Job /\ latest.job <= jobs
    BY <1>5, IngestFacts DEF ActiveFor, LatestInv, LatestFits, NumbersInv
  <2>5. worker[latest.job].at \in Gone
    <3>1. worker[latest.job] \in WorkerRow
      BY <2>4, IngestFacts
    <3>2. worker[latest.job].at \notin {"waiting", "opening"}
      BY <1>5, IngestFacts DEF LateInv
    <3>3. worker[latest.job].at \notin {"reading", "closing"}
      BY <1>5, <2>4, IngestFacts DEF LatestInv, LatestFits
    <3> QED BY <3>1, <3>2, <3>3 DEF WorkerRow
  <2>6. Dead(latest.job)
    BY <1>5, <2>5, IngestFacts DEF LateInv, Dead
  <2>7. RowFits(row)
    BY <1>5, <2>2, <2>3, <2>4, <2>6 DEF RowFits
  <2> QED BY <1>1, <1>5, <2>1, <2>3, <2>7, PageMoves, IngestFacts DEF Locking
<1>6. CASE Finish(s) /\ jobs' = jobs
  BY <1>1, <1>6, FinishKeeps, IngestFacts
<1> QED BY <1>2, <1>3, <1>4, <1>5, <1>6 DEF GetLatest

LEMMA ProbeKeeps ==
  ASSUME IngestInv, NEW s \in Tab, Probe(s)
  PROVE  IngestInv'
<1>1. /\ page[s].at = "probe" /\ page[s] \in PageRow
      /\ UNCHANGED <<file, latest, worker, runner, late, jobs, faults>>
  BY IngestFacts DEF Probe, files, processes
<1>2. CASE Finish(s)
  BY <1>1, <1>2, FinishKeeps, IngestFacts
<1>3. CASE ~Alive(page[s].doc.job) /\ Publish(s, "failing", [page[s].doc EXCEPT !.status = "failed"])
  <2> DEFINE doc == [page[s].doc EXCEPT !.status = "failed"]
             row == [at |-> "failing", doc |-> doc, writing |-> "job"]
  <2>1. page' = [page EXCEPT ![s] = row] /\ lock' = lock
    BY <1>3 DEF Publish
  <2>2. page[s].doc \in Doc
    BY <1>1 DEF PageRow
  <2>3. doc \in Doc /\ doc.status = "failed" /\ doc.job = page[s].doc.job
    BY <2>2 DEF Doc
  <2>4. row \in PageRow /\ row.at = "failing" /\ row.writing = "job" /\ row.doc = doc
    BY <2>3 DEF PageRow, Writing
  <2> HIDE DEF row, doc
  <2>5. page[s].doc.job \in Job /\ Known(page[s].doc.job) /\ page[s].doc.job <= jobs
    BY <1>1, IngestFacts DEF PageInv, PageFits, NumbersInv
  <2>6. Dead(page[s].doc.job)
    BY <1>3, <2>5 DEF Alive, Dead, Known, Gone
  <2>7. RowFits(row)
    BY <2>3, <2>4, <2>5, <2>6 DEF RowFits
  <2> QED BY <1>1, <2>1, <2>4, <2>7, PageMoves, IngestFacts DEF Locking
<1> QED BY <1>2, <1>3 DEF Probe

LEMMA PageDiesKeeps ==
  ASSUME IngestInv, NEW s \in Tab, PageDies(s)
  PROVE  IngestInv'
<1>1. faults' \in 0 .. MaxFaults
  BY IngestFaultCounts DEF PageDies
<1> QED BY <1>1, FinishKeeps DEF PageDies, files, processes

\* A page writes the job's own file: only the page that starts its worker, or that
\* refuses it, or one that finds it dead.
LEMMA WriteJobKeeps ==
  ASSUME IngestInv, NEW s \in Tab, WriteJob(s)
  PROVE  IngestInv'
<1> DEFINE doc == page[s].doc
           row == [page[s] EXCEPT !.writing = "latest"]
<1>1. /\ page[s].writing = "job" /\ page[s] \in PageRow
      /\ UNCHANGED <<latest, lock, worker, runner, late, jobs, faults>>
  BY IngestFacts DEF WriteJob, processes
<1>2. page[s].at \in {"failing", "creating", "registering", "refusing"}
  <2>1. page[s].at \notin {"idle", "locked", "probe", "spawning"}
    BY <1>1, IngestFacts DEF PageInv, PageFits
  <2> QED BY <1>1, <2>1 DEF PageRow
<1>3. doc \in Doc /\ doc.job \in Job /\ doc.job <= jobs
  BY <1>1, <1>2, IngestFacts DEF PageRow, PageInv, PageFits, NumbersInv
<1>4. row \in PageRow /\ row.at = page[s].at /\ row.doc = doc /\ row.writing = "latest"
  BY <1>1 DEF PageRow, Writing
<1> PICK j \in Job : j = doc.job
  BY <1>3
<1>5. /\ page' \in [Tab -> PageRow] /\ page'[s] = row
      /\ \A t \in Tab \ {s} : page'[t] = page[t]
  BY <1>4, IngestFacts DEF WriteJob
<1>6. /\ file' \in [Job -> Doc] /\ file'[j] = doc
      /\ \A k \in Job \ {j} : file'[k] = file[k]
  BY <1>3, IngestFacts DEF WriteJob
<1>7. PageFits(s)
  BY IngestFacts DEF PageInv
<1>8. /\ page[s].at \in {"failing", "refusing"} =>
           doc.status = "failed" /\ Dead(j) /\ (doc.pid = "set" => Known(j))
      /\ page[s].at = "creating" =>
           doc.status = "queued" /\ doc.pid = "null" /\ worker[j].at = "none"
      /\ page[s].at = "registering" =>
           /\ doc.status = "queued" /\ doc.pid = "set" /\ worker[j].at # "none"
           /\ worker[j].at \in Gone \cup {"waiting"}
  BY <1>1, <1>7 DEF PageFits
<1>9. page[s].at \in {"creating", "registering"} => Opens(s)
  BY <1>1 DEF Opens
<1> HIDE DEF row, doc
<1>10. OpensNew
  BY <1>4, <1>5, <1>1 DEF OpensNew, Opens, doc
<1>11. \A k \in Job : k <= jobs /\ Settled(k) => Settled(k)'
  BY <1>10, SettledStays
<1>12. page[s].at = "registering" => Settled(j)'
  BY <1>4, <1>5, <1>9, OneOpens DEF Settled, Opens
<1>13. page[s].at # "creating" /\ doc.pid = "set" => Known(j)'
  BY <1>1, <1>2, <1>3, <1>8, <1>11, <1>12 DEF Known
<1>14. IngestTypeOK'
  <2>1. \A k \in Job : file'[k].job \in {0, k}
    BY <1>6, IngestFacts
  <2>2. \A t \in Tab : page'[t].at \in Locking => lock' = t
    BY <1>1, <1>4, <1>5, IngestFacts
  <2> QED BY <1>1, <1>5, <1>6, <2>1, <2>2, IngestFacts, IngestTypesBack
<1>15. NumbersInv'
  <2>1. \A k \in Job : k > jobs => k # j
    BY <1>3, IngestNumbers, IngestFacts
  <2> QED BY <1>1, <1>4, <1>5, <1>6, <2>1, IngestFacts DEF NumbersInv, doc
<1>16. FileInv'
  <2> SUFFICES ASSUME NEW k \in Job, file'[k].pid = "set"
               PROVE  file'[k].job = k /\ Known(k)'
    BY DEF FileInv
  <2>1. CASE k = j
    <3>1. page[s].at # "creating" /\ doc.pid = "set"
      BY <1>6, <1>8, <2>1
    <3> QED BY <1>6, <1>13, <2>1, <3>1
  <2>2. CASE k # j
    BY <1>1, <1>6, <1>11, <2>2, CreatedJobs, IngestFacts DEF FileInv, Known
  <2> QED BY <2>1, <2>2
<1>17. WorkerInv'
  <2> SUFFICES ASSUME NEW k \in Job
               PROVE  /\ worker[k].doc.job \in {0, k}
                      /\ worker[k].at \in Gone \cup {"waiting"} => worker[k].writing = "nothing"
                      /\ worker[k].at = "waiting" => file'[k].status \in Early
                      /\ worker[k].at \in {"opening", "reading", "closing"} =>
                           worker[k].doc.job = k /\ worker[k].doc.pid = "set" /\ Settled(k)'
                      /\ worker[k].at \in {"opening", "reading"} =>
                           worker[k].doc.status = "running" /\ file'[k].status \in Early \cup {"running"}
                      /\ worker[k].at = "closing" =>
                           /\ worker[k].doc.status \in Terminal /\ worker[k].writing # "nothing"
                           /\ worker[k].writing = "job" => file'[k].status \in Early \cup {"running"}
    BY <1>1 DEF WorkerInv
  <2>1. worker[k].at \in {"opening", "reading", "closing"} => Settled(k) /\ k <= jobs
    BY CreatedJobs, IngestFacts DEF WorkerInv
  <2>2. CASE k = j
    <3>1. worker[j].at \in Gone \cup {"waiting"}
      BY <1>2, <1>8 DEF Dead, Gone
    <3>2. worker[j].at = "waiting" => doc.status \in Early
      BY <1>2, <1>8 DEF Dead, Gone, Early
    <3> QED BY <1>6, <2>2, <3>1, <3>2, IngestFacts DEF WorkerInv, Gone
  <2>3. CASE k # j
    BY <1>6, <1>11, <2>1, <2>3, IngestFacts DEF WorkerInv
  <2> QED BY <2>2, <2>3
<1>18. LateInv'
  BY <1>1, <1>11, CreatedJobs, IngestFacts DEF LateInv
<1>19. LatestInv'
  <2>1. \A k \in Job : latest.job = k /\ latest.pid = "set" => Known(k)'
    BY <1>1, <1>11, CreatedJobs, IngestFacts DEF LatestInv, LatestFits, Known
  <2> QED BY <1>1, <2>1, IngestFacts DEF LatestInv, LatestFits
<1>20. PageFits(s)'
  <2>1. page[s].at \in {"failing", "refusing"} => Dead(j)' /\ (doc.pid = "set" => Known(j)')
    BY <1>1, <1>3, <1>8, <1>11 DEF Dead, Known
  <2> QED BY <1>1, <1>2, <1>3, <1>4, <1>5, <1>6, <1>8, <2>1 DEF PageFits, Early
<1>21. PageInv'
  <2> SUFFICES ASSUME NEW t \in Tab PROVE PageFits(t)'
    BY DEF PageInv
  <2>1. CASE t # s
    <3>1. ASSUME Opens(t) PROVE file'[page[t].doc.job].status \in Early
      <4>1. page[t].doc.job \in Job /\ file[page[t].doc.job].status \in Early
        BY <3>1, IngestFacts DEF PageInv, PageFits, Opens
      <4>2. page[t].doc.job # j
        <5>1. page[s].at \in {"failing", "refusing"}
          BY <1>2, <1>9, <2>1, <3>1, OneOpens
        <5> QED BY <1>8, <3>1, <5>1 DEF Dead, Settled
      <4> QED BY <1>6, <4>1, <4>2
    <3>2. page'[t] = page[t]
      BY <1>5, <2>1
    <3>3. \A k \in Job : Dead(k) => worker'[k].at \in Gone
      BY <1>1 DEF Dead
    <3> QED BY <1>1, <1>10, <3>1, <3>2, <3>3, OtherPagesKeep
  <2> QED BY <1>20, <2>1
<1> QED BY <1>14, <1>15, <1>16, <1>17, <1>18, <1>19, <1>21 DEF IngestInv

LEMMA WriteLatestKeeps ==
  ASSUME IngestInv, NEW s \in Tab, WriteLatest(s)
  PROVE  IngestInv'
<1> DEFINE doc == page[s].doc
<1>1. /\ page[s].writing = "latest" /\ page[s] \in PageRow /\ latest' = doc
      /\ UNCHANGED <<file, worker, runner, late, faults>> /\ faults' \in 0 .. MaxFaults
  BY IngestFacts DEF WriteLatest, processes
<1>2. page[s].at \in {"failing", "creating", "registering", "refusing"}
  <2>1. page[s].at \notin {"idle", "locked", "probe", "spawning"}
    BY <1>1, IngestFacts DEF PageInv, PageFits
  <2> QED BY <1>1, <2>1 DEF PageRow
<1>3. doc \in Doc /\ doc.job \in Job /\ doc.job <= jobs /\ PageFits(s)
  BY <1>1, <1>2, IngestFacts DEF PageRow, PageInv, PageFits, NumbersInv
<1>4. latest' \in Doc /\ latest'.job <= jobs
  BY <1>1, <1>3
<1>5. LatestFits(latest')
  <2>1. page[s].at = "registering" => Settled(doc.job)
    BY <1>1, IngestFacts DEF Settled, Opens, Locking
  <2>2. doc.pid = "set" => Known(doc.job)
    BY <1>2, <1>3, <2>1 DEF PageFits, Known
  <2>3. worker[doc.job].at \notin Gone => doc.pid = "set"
    BY <1>2, <1>3 DEF PageFits, Dead, Gone
  <2> HIDE DEF doc
  <2> QED BY <1>1, <1>3, <2>2, <2>3 DEF LatestFits, Gone
<1>6. CASE page[s].at = "failing" /\ lock = s /\ Create(s)
  <2>1. PICK row \in PageRow :
          /\ page' = [page EXCEPT ![s] = row] /\ row.at = "creating" /\ RowFits(row)
          /\ jobs' = jobs + 1 /\ lock' = s
    BY <1>6, CreatesRow
  <2> HIDE DEF doc
  <2> QED BY <1>1, <1>4, <1>5, <1>6, <2>1, PagePublishes, IngestFacts
<1>7. CASE page[s].at = "creating" /\ UNCHANGED <<lock, jobs>>
           /\ page' = [page EXCEPT ![s].at = "spawning", ![s].writing = "nothing"]
  <2> DEFINE row == [page[s] EXCEPT !.at = "spawning", !.writing = "nothing"]
  <2>1. page' = [page EXCEPT ![s] = row]
    BY <1>7, IngestFacts
  <2>2. row \in PageRow /\ row.at = "spawning" /\ row.doc = doc /\ row.writing = "nothing"
    BY <1>1 DEF PageRow, Writing
  <2> HIDE DEF row
  <2>3. lock' = s
    BY <1>7, IngestFacts DEF Locking
  <2> QED BY <1>1, <1>4, <1>5, <1>7, <2>1, <2>2, <2>3, PagePublishes, IngestFacts
<1>8. CASE Finish(s) /\ UNCHANGED jobs
  <2>1. RowFits(NoPage)
    BY NoPageFields, IngestFacts DEF RowFits
  <2>2. NoPage.at # "creating" /\ NoPage.at \notin Locking
    BY NoPageFields DEF Locking
  <2>3. /\ page' = [page EXCEPT ![s] = NoPage] /\ lock' \in Tab \cup {Nobody}
        /\ \A t \in Tab \ {s} : lock = t => lock' = t
    BY <1>8, IngestFacts DEF Finish
  <2> HIDE DEF doc
  <2> QED BY <1>1, <1>4, <1>5, <1>8, <2>1, <2>2, <2>3, NoPageFields, PagePublishes
<1>9. \/ page[s].at = "failing" /\ lock = s /\ Create(s)
      \/ /\ page[s].at = "creating" /\ UNCHANGED <<lock, jobs>>
         /\ page' = [page EXCEPT ![s].at = "spawning", ![s].writing = "nothing"]
      \/ Finish(s) /\ UNCHANGED jobs
  BY DEF WriteLatest
<1> QED BY <1>6, <1>7, <1>8, <1>9

-----------------------------------------------------------------------------
(* A page starts a worker, and what happens to the process of the pages     *)

LEMMA ReapedFacts ==
  ASSUME IngestInv
  PROVE  /\ Reaped \in [Job -> WorkerRow]
         /\ \A j \in Job :
              /\ Reaped[j].doc = worker[j].doc /\ Reaped[j].writing = worker[j].writing
              /\ Reaped[j].parent = worker[j].parent
              /\ IF worker[j].at = "zombie" THEN Reaped[j].at = "reaped"
                 ELSE Reaped[j].at = worker[j].at
<1> SUFFICES ASSUME NEW j \in Job
             PROVE  /\ Reaped[j] \in WorkerRow
                    /\ Reaped[j].doc = worker[j].doc /\ Reaped[j].writing = worker[j].writing
                    /\ Reaped[j].parent = worker[j].parent
                    /\ IF worker[j].at = "zombie" THEN Reaped[j].at = "reaped"
                       ELSE Reaped[j].at = worker[j].at
  BY DEF Reaped
<1>1. worker[j] \in WorkerRow
  BY IngestFacts
<1>2. Reaped[j] = IF worker[j].at = "zombie" THEN [worker[j] EXCEPT !.at = "reaped"] ELSE worker[j]
  BY DEF Reaped
<1> QED BY <1>1, <1>2 DEF WorkerRow, Gone

\* A page has left the step at which it starts the worker of job j.
LEMMA SpawnMoves ==
  ASSUME IngestInv, NEW s \in Tab, page[s].at = "spawning", NEW row \in PageRow,
         page' = [page EXCEPT ![s] = row], row.doc.job = page[s].doc.job,
         UNCHANGED <<file, latest, lock, runner, late, jobs>>, faults' \in 0 .. MaxFaults,
         worker' \in [Job -> WorkerRow], \A j \in Job : AsItWas(j),
         \A j \in Job : Dead(j) => worker'[j].at \in Gone,
         row.at \in {"registering", "refusing"}, OpensNew, PageFits(s)'
  PROVE  IngestInv'
<1>1. /\ page' \in [Tab -> PageRow] /\ page'[s] = row
      /\ \A t \in Tab \ {s} : page'[t] = page[t]
  BY IngestFacts
<1>2. FileInv' /\ WorkerInv' /\ LateInv' /\ LatestInv'
  BY PagesKeep, IngestFacts DEF LatestInv, NumbersInv
<1>3. PageInv'
  <2> SUFFICES ASSUME NEW t \in Tab \ {s} PROVE PageFits(t)'
    BY DEF PageInv
  <2>1. ~Opens(t)
    BY OneOpens DEF Opens
  <2>2. \A j \in Job : worker[j].at # "none" => worker'[j].at # "none"
    BY DEF AsItWas
  <2> QED BY <1>1, <2>1, <2>2, OtherPagesKeep
<1>4. NumbersInv'
  <2>1. page[s].doc.job \in Job /\ ~Settled(page[s].doc.job) /\ page[s].doc.job <= jobs
    BY IngestFacts DEF PageInv, PageFits, Opens, Settled, NumbersInv
  <2>2. \A j \in Job : j > jobs => Settled(j)
    <3> SUFFICES ASSUME NEW j \in Job, j > jobs, NEW t \in Tab, page[t].doc.job = j PROVE FALSE
      BY DEF Settled
    <3>1. page[t].doc.job <= jobs
      BY IngestFacts DEF NumbersInv
    <3> QED BY <3>1, IngestNumbers, IngestFacts
  <2>3. \A j \in Job : j > jobs => worker'[j].at = "none"
    BY <2>2, IngestFacts DEF NumbersInv, AsItWas
  <2> QED BY <1>1, <2>1, <2>3, IngestFacts DEF NumbersInv
<1>5. \A t \in Tab : page'[t].at \in Locking => lock' = t
  BY <1>1, IngestFacts DEF Locking
<1>6. IngestTypeOK'
  BY <1>1, <1>5, IngestFacts, IngestTypesBack
<1> QED BY <1>2, <1>3, <1>4, <1>6 DEF IngestInv

LEMMA SpawnKeeps ==
  ASSUME IngestInv, NEW s \in Tab, Spawn(s)
  PROVE  IngestInv'
<1> DEFINE doc == page[s].doc
<1>1. /\ page[s].at = "spawning" /\ page[s] \in PageRow /\ PageFits(s)
      /\ UNCHANGED <<file, latest, runner, late, jobs>>
  BY IngestFacts DEF Spawn, files, PageInv
<1>2. /\ doc \in Doc /\ doc.job \in Job /\ doc.pid = "null" /\ doc.status = "queued"
      /\ file[doc.job].status \in Early /\ worker[doc.job].at = "none"
  BY <1>1 DEF PageFits, PageRow
<1>3. ~Settled(doc.job)
  BY <1>1 DEF Settled, Opens
<1>4. \A k \in Job : Dead(k) => k # doc.job
  BY <1>3 DEF Dead
<1>5. ASSUME NEW row \in PageRow, page' = [page EXCEPT ![s] = row], row.doc.job = doc.job,
             row.at \in {"registering", "refusing"}
      PROVE  OpensNew
  <2>1. /\ page'[s] = row
        /\ \A t \in Tab \ {s} : page'[t] = page[t]
    BY <1>5, IngestFacts
  <2>2. Opens(s)
    BY <1>1 DEF Opens
  <2> SUFFICES ASSUME NEW t \in Tab, Opens(t)'
               PROVE  Opens(t) /\ page'[t].doc.job = page[t].doc.job
    BY DEF OpensNew
  <2>3. CASE t = s
    BY <1>5, <2>1, <2>2, <2>3
  <2>4. CASE t # s
    BY <2>1, <2>4 DEF Opens
  <2> QED BY <2>3, <2>4
<1>6. CASE /\ worker' = [Reaped EXCEPT ![doc.job].at = "waiting"]
           /\ Publish(s, "registering", [doc EXCEPT !.pid = "set"])
           /\ UNCHANGED faults
  <2> DEFINE new == [doc EXCEPT !.pid = "set"]
             row == [at |-> "registering", doc |-> new, writing |-> "job"]
  <2>1. page' = [page EXCEPT ![s] = row] /\ lock' = lock
    BY <1>6 DEF Publish
  <2>2. new \in Doc /\ new.pid = "set" /\ new.job = doc.job /\ new.status = "queued"
    BY <1>2 DEF Doc
  <2>3. row \in PageRow /\ row.at = "registering" /\ row.writing = "job" /\ row.doc = new
    BY <2>2 DEF PageRow, Writing
  <2> HIDE DEF row, new
  <2> PICK j \in Job : j = doc.job
    BY <1>2
  <2>4. /\ worker' \in [Job -> WorkerRow]
        /\ worker'[j] = [Reaped[j] EXCEPT !.at = "waiting"]
        /\ \A k \in Job \ {j} : worker'[k] = Reaped[k]
    <3>1. Reaped \in [Job -> WorkerRow]
      BY ReapedFacts
    <3>2. [Reaped[j] EXCEPT !.at = "waiting"] \in WorkerRow
      BY <3>1 DEF WorkerRow, Gone
    <3> QED BY <1>6, <3>1, <3>2
  <2>5. worker'[j].at = "waiting" /\ worker'[j].doc = worker[j].doc
        /\ worker'[j].writing = worker[j].writing
    <3>1. Reaped[j] \in WorkerRow
      BY ReapedFacts
    <3> QED BY <2>4, <3>1, ReapedFacts DEF WorkerRow
  <2>6. \A k \in Job : AsItWas(k)
    <3> SUFFICES ASSUME NEW k \in Job PROVE AsItWas(k)
      OBVIOUS
    <3>1. CASE k = j
      BY <1>2, <1>3, <2>5, <3>1 DEF AsItWas
    <3>2. CASE k # j
      BY <2>4, <3>2, ReapedFacts DEF AsItWas
    <3> QED BY <3>1, <3>2
  <2>7. \A k \in Job : Dead(k) => worker'[k].at \in Gone
    BY <1>4, <2>4, ReapedFacts DEF Dead, Gone
  <2>8. page'[s] = row
    BY <2>1, IngestFacts
  <2>9. PageFits(s)'
    BY <1>1, <1>2, <2>2, <2>3, <2>5, <2>8 DEF PageFits
  <2>10. OpensNew
    BY <1>5, <2>1, <2>2, <2>3
  <2>11. faults' \in 0 .. MaxFaults
    BY <1>6, IngestFacts
  <2> QED BY <1>1, <2>1, <2>2, <2>3, <2>4, <2>6, <2>7, <2>9, <2>10, <2>11, SpawnMoves
<1>7. CASE Fault /\ worker' = Reaped /\ Publish(s, "refusing", [doc EXCEPT !.status = "failed"])
  <2> DEFINE new == [doc EXCEPT !.status = "failed"]
             row == [at |-> "refusing", doc |-> new, writing |-> "job"]
  <2>1. page' = [page EXCEPT ![s] = row] /\ lock' = lock
    BY <1>7 DEF Publish
  <2>2. new \in Doc /\ new.pid = "null" /\ new.job = doc.job /\ new.status = "failed"
    BY <1>2 DEF Doc
  <2>3. row \in PageRow /\ row.at = "refusing" /\ row.writing = "job" /\ row.doc = new
    BY <2>2 DEF PageRow, Writing
  <2> HIDE DEF row, new
  <2> PICK j \in Job : j = doc.job
    BY <1>2
  <2>4. worker' \in [Job -> WorkerRow] /\ \A k \in Job : worker'[k] = Reaped[k]
    BY <1>7, ReapedFacts
  <2>5. worker'[j].at = "none"
    BY <1>2, <2>4, ReapedFacts
  <2>6. \A k \in Job : AsItWas(k)
    BY <2>4, ReapedFacts DEF AsItWas
  <2>7. \A k \in Job : Dead(k) => worker'[k].at \in Gone
    BY <2>4, ReapedFacts DEF Dead, Gone
  <2>8. /\ page'[s] = row
        /\ \A t \in Tab \ {s} : page'[t] = page[t]
    BY <2>1, IngestFacts
  <2>9. Settled(j)'
    BY <1>1, <2>3, <2>8, OneOpens DEF Settled, Opens
  <2>10. PageFits(s)'
    BY <2>2, <2>3, <2>5, <2>8, <2>9 DEF PageFits, Dead, Gone
  <2>11. OpensNew
    BY <1>5, <2>1, <2>2, <2>3
  <2>12. faults' \in 0 .. MaxFaults
    BY <1>7, IngestFaultCounts
  <2> QED BY <1>1, <2>1, <2>2, <2>3, <2>4, <2>6, <2>7, <2>10, <2>11, <2>12, SpawnMoves
<1> QED BY <1>6, <1>7 DEF Spawn

\* The pages' process ends, or reaps its zombies.
LEMMA ReapedKeeps ==
  ASSUME IngestInv, UNCHANGED <<file, latest, runner, late, jobs>>, faults' \in 0 .. MaxFaults,
         worker' \in [Job -> WorkerRow],
         \A j \in Job : /\ worker'[j].doc = Reaped[j].doc /\ worker'[j].at = Reaped[j].at
                        /\ worker'[j].writing = Reaped[j].writing,
         \/ UNCHANGED <<page, lock>>
         \/ page' = [s \in Tab |-> NoPage] /\ lock' = Nobody
  PROVE  IngestInv'
<1>1. \A j \in Job : AsItWas(j)
  BY ReapedFacts DEF AsItWas
<1>2. \A t \in Tab : page'[t] \in {page[t], NoPage}
  BY IngestFacts
<1>3. OpensNew
  BY <1>2, NoPageFields DEF OpensNew, Opens
<1>4. FileInv' /\ WorkerInv' /\ LateInv' /\ LatestInv'
  BY <1>1, <1>3, PagesKeep, IngestFacts DEF LatestInv, NumbersInv
<1>5. PageInv'
  <2> SUFFICES ASSUME NEW t \in Tab PROVE PageFits(t)'
    BY DEF PageInv
  <2>1. CASE page'[t] = NoPage
    BY <2>1, NoPageFields DEF PageFits
  <2>2. CASE page'[t] = page[t]
    <3>1. \A j \in Job : worker[j].at # "none" => worker'[j].at # "none"
      BY ReapedFacts
    <3>2. \A j \in Job : Dead(j) => worker'[j].at \in Gone
      BY ReapedFacts DEF Dead, Gone
    <3>3. ASSUME Opens(t)
          PROVE  LET j == page[t].doc.job IN
                 /\ worker[j].at = "none" => worker'[j].at = "none"
                 /\ worker[j].at \in Gone \cup {"waiting"} =>
                      worker'[j].at \in Gone \cup {"waiting"}
                 /\ file'[j].status \in Early
      <4> DEFINE j == page[t].doc.job
      <4>1. j \in Job /\ file[j].status \in Early
        BY <3>3, IngestFacts DEF Opens, PageInv, PageFits
      <4> HIDE DEF j
      <4>2. /\ worker[j].at = "none" => worker'[j].at = "none"
            /\ worker[j].at \in Gone \cup {"waiting"} => worker'[j].at \in Gone \cup {"waiting"}
            /\ file'[j].status \in Early
        BY <4>1, ReapedFacts DEF Gone
      <4> USE DEF j
      <4> QED BY <4>2
    <3> QED BY <1>3, <2>2, <3>1, <3>2, <3>3, OtherPagesKeep
  <2> QED BY <1>2, <2>1, <2>2
<1>6. NumbersInv'
  <2>1. \A t \in Tab : page'[t].doc.job <= jobs
    BY <1>2, NoPageFields, IngestFacts DEF NumbersInv
  <2>2. \A j \in Job : j > jobs => worker'[j].at = "none"
    BY ReapedFacts, IngestFacts DEF NumbersInv
  <2> QED BY <2>1, <2>2, IngestFacts DEF NumbersInv
<1>7. page' \in [Tab -> PageRow] /\ \A t \in Tab : page'[t].at \in Locking => lock' = t
  BY NoPageFields, IngestFacts DEF Locking
<1>8. lock' \in Tab \cup {Nobody}
  BY IngestFacts
<1>9. IngestTypeOK'
  BY <1>7, <1>8, IngestFacts, IngestTypesBack
<1> QED BY <1>4, <1>5, <1>6, <1>9 DEF IngestInv

LEMMA ReapKeeps ==
  ASSUME IngestInv, Reap
  PROVE  IngestInv'
BY ReapedKeeps, ReapedFacts, IngestFacts DEF Reap, files

LEMMA RestartKeeps ==
  ASSUME IngestInv, Restart
  PROVE  IngestInv'
<1>1. /\ faults' \in 0 .. MaxFaults /\ UNCHANGED <<file, latest, runner, late, jobs>>
      /\ page' = [s \in Tab |-> NoPage] /\ lock' = Nobody
  BY IngestFaultCounts DEF Restart, files
<1>2. \A j \in Job :
        /\ worker'[j] \in WorkerRow
        /\ worker'[j].doc = Reaped[j].doc /\ worker'[j].at = Reaped[j].at
        /\ worker'[j].writing = Reaped[j].writing
  <2> SUFFICES ASSUME NEW j \in Job
               PROVE  LET row == [Reaped[j] EXCEPT !.parent = "init"] IN
                      /\ row \in WorkerRow
                      /\ row.doc = Reaped[j].doc /\ row.at = Reaped[j].at
                      /\ row.writing = Reaped[j].writing
    BY DEF Restart
  <2>1. Reaped[j] \in WorkerRow
    BY ReapedFacts
  <2> QED BY <2>1 DEF WorkerRow
<1>3. worker' \in [Job -> WorkerRow]
  BY <1>2 DEF Restart
<1> QED BY <1>1, <1>2, <1>3, ReapedKeeps

-----------------------------------------------------------------------------
(* A worker moves *)

\* The worker of j goes on to row, and has published what it was at, or will.
LEMMA WorkerMoves ==
  ASSUME IngestInv, NEW j \in Job, NEW row \in WorkerRow,
         worker' = [worker EXCEPT ![j] = row], worker[j].at \notin Gone,
         row.at \notin {"none", "waiting"}, row.doc.job \in {0, j},
         row.at \in Gone => row.writing = "nothing",
         row.at \in {"opening", "reading", "closing"} =>
           row.doc.job = j /\ row.doc.pid = "set" /\ Settled(j),
         row.at \in {"opening", "reading"} =>
           row.doc.status = "running" /\ file'[j].status \in Early \cup {"running"},
         row.at = "closing" =>
           /\ row.doc.status \in Terminal /\ row.writing # "nothing"
           /\ row.writing = "job" => file'[j].status \in Early \cup {"running"},
         j \in late => row.at # "opening",
         \/ file' = file
         \/ /\ row.at \in {"opening", "reading", "closing"}
            /\ file' = [file EXCEPT ![j] = row.doc],
         latest' \in Doc, latest'.job <= jobs, LatestFits(latest'),
         /\ latest'.job = j
         /\ \/ row.at \in {"reading", "closing"}
            \/ row.at = "opening" /\ row.writing = "nothing"
         => latest'.pid = "set",
         runner' \in [Job -> {"none", "running", "ok", "error"}], faults' \in 0 .. MaxFaults,
         UNCHANGED <<lock, page, late, jobs>>
  PROVE  IngestInv'
<1>1. /\ worker' \in [Job -> WorkerRow] /\ worker'[j] = row
      /\ \A k \in Job \ {j} : worker'[k] = worker[k]
  BY IngestFacts
<1>2. row.doc \in Doc
  BY DEF WorkerRow
<1>3. /\ file' \in [Job -> Doc]
      /\ \A k \in Job \ {j} : file'[k] = file[k]
      /\ \/ file'[j] = file[j]
         \/ row.at \in {"opening", "reading", "closing"} /\ file'[j] = row.doc
  BY <1>2, IngestFacts
<1>4. \A k \in Job : Settled(k)' <=> Settled(k)
  BY DEF Settled, Opens
<1>5. \A k \in Job : Known(k) => Known(k)'
  BY <1>1, <1>4 DEF Known
<1>6. row.at \in {"opening", "reading", "closing"} => Known(j)'
  BY <1>1, <1>4 DEF Known
<1>7. FileInv'
  BY <1>3, <1>5, <1>6, IngestFacts DEF FileInv
<1>8. WorkerInv'
  BY <1>1, <1>3, <1>4, IngestFacts DEF WorkerInv
<1>9. LateInv'
  BY <1>1, <1>4, IngestFacts DEF LateInv
<1>10. LatestInv'
  BY <1>1, <1>5 DEF LatestInv, LatestFits
<1>11. \A k \in Job : worker[k].at = "none" <=> worker'[k].at = "none"
  BY <1>1 DEF Gone
<1>12. \A k \in Job : Dead(k) => Dead(k)'
  BY <1>1, <1>4 DEF Dead
<1>13. PageInv'
  <2> SUFFICES ASSUME NEW t \in Tab PROVE PageFits(t)'
    BY DEF PageInv
  <2>1. PageFits(t) /\ page' = page
    BY IngestFacts DEF PageInv
  <2>2. ASSUME Opens(t)
        PROVE  /\ worker[page[t].doc.job].at \in Gone \cup {"waiting"} =>
                    worker'[page[t].doc.job].at \in Gone \cup {"waiting"}
               /\ file'[page[t].doc.job].status \in Early
    <3>1. page[t].doc.job \in Job /\ file[page[t].doc.job].status \in Early
      BY <2>1, <2>2 DEF PageFits, Opens
    <3>2. CASE page[t].doc.job = j
      <4>1. ~Settled(j)
        BY <2>2, <3>2 DEF Settled
      <4>2. row.at \in Gone
        BY <4>1 DEF WorkerRow
      <4>3. row.at \notin {"opening", "reading", "closing"}
        BY <4>1
      <4> QED BY <1>1, <1>3, <3>1, <3>2, <4>2, <4>3
    <3>3. CASE page[t].doc.job # j
      BY <1>1, <1>3, <3>1, <3>3
    <3> QED BY <3>2, <3>3
  <2>3. /\ page[t].at \in {"creating", "spawning"} => Opens(t)
        /\ page[t].at = "registering" /\ page[t].writing = "job" => Opens(t)
    BY DEF Opens
  <2> QED BY <1>5, <1>11, <1>12, <2>1, <2>2, <2>3 DEF PageFits
<1>14. NumbersInv'
  <2>1. j <= jobs
    BY CreatedJobs DEF Gone
  <2>2. \A k \in Job : k > jobs => k # j
    BY <2>1, IngestNumbers, IngestFacts
  <2> QED BY <1>1, <1>3, <2>2, IngestFacts DEF NumbersInv
<1>15. IngestTypeOK'
  <2>1. \A k \in Job : file'[k].job \in {0, k}
    BY <1>3, IngestFacts
  <2> QED BY <1>1, <1>3, <2>1, IngestFacts, IngestTypesBack
<1> QED BY <1>7, <1>8, <1>9, <1>10, <1>13, <1>14, <1>15 DEF IngestInv

\* A worker writes what it holds, or goes on.
LEMMA WorkerToRow ==
  ASSUME IngestInv, NEW j \in Job, NEW at, NEW doc, NEW writing, WorkerTo(j, at, doc, writing),
         at \in Gone \cup {"waiting", "opening", "reading", "closing"}, doc \in Doc,
         writing \in Writing
  PROVE  \E row \in WorkerRow :
           /\ worker' = [worker EXCEPT ![j] = row]
           /\ row.at = at /\ row.doc = doc /\ row.writing = writing
<1> DEFINE row == [worker[j] EXCEPT !.at = at, !.doc = doc, !.writing = writing]
<1>1. worker[j] \in WorkerRow
  BY IngestFacts
<1>2. row \in WorkerRow /\ row.at = at /\ row.doc = doc /\ row.writing = writing
  BY <1>1 DEF WorkerRow
<1>3. worker' = [worker EXCEPT ![j] = row]
  BY IngestFacts DEF WorkerTo
<1> HIDE DEF row
<1> QED BY <1>2, <1>3

\* What is in latest.json fits as long as nothing is written there.
LEMMA LatestStays ==
  ASSUME IngestInv, latest' = latest
  PROVE  latest' \in Doc /\ latest'.job <= jobs /\ LatestFits(latest')
BY IngestFacts DEF LatestInv, NumbersInv

\* A worker that ends
LEMMA ExitKeeps ==
  ASSUME IngestInv, NEW j \in Job, worker[j].at \notin Gone, Exit(j),
         latest' \in Doc, latest'.job <= jobs, LatestFits(latest'),
         faults' \in 0 .. MaxFaults, UNCHANGED <<file, lock, page, runner, late, jobs>>
  PROVE  IngestInv'
<1> DEFINE at == IF worker[j].parent = "page" THEN "zombie" ELSE "reaped"
<1>1. WorkerTo(j, at, NoDoc, "nothing")
  BY DEF Exit
<1>2. at \in {"zombie", "reaped"}
  OBVIOUS
<1> HIDE DEF at
<1>3. at \in Gone \cup {"waiting", "opening", "reading", "closing"} /\ "nothing" \in Writing
  BY <1>2 DEF Gone, Writing
<1>4. PICK row \in WorkerRow :
        /\ worker' = [worker EXCEPT ![j] = row]
        /\ row.at = at /\ row.doc = NoDoc /\ row.writing = "nothing"
  BY <1>1, <1>3, NoDocFields, WorkerToRow
<1> QED BY <1>2, <1>4, NoDocFields, WorkerMoves, IngestFacts

LEMMA RegisterKeeps ==
  ASSUME IngestInv, NEW j \in Job, Register(j)
  PROVE  IngestInv'
<1> DEFINE doc == [file[j] EXCEPT !.status = "running"]
<1>1. /\ worker[j].at = "waiting" /\ file[j].pid = "set" /\ WorkerTo(j, "opening", doc, "job")
      /\ UNCHANGED <<file, latest, lock, page, runner, late, jobs, faults>>
  BY DEF Register, Registered, files
<1>2. file[j].job = j /\ Settled(j) /\ file[j].status \in Early /\ j \notin late /\ file[j] \in Doc
  BY <1>1, IngestFacts DEF FileInv, Known, WorkerInv, LateInv
<1>3. doc \in Doc /\ doc.job = j /\ doc.pid = "set" /\ doc.status = "running"
  BY <1>1, <1>2 DEF Doc
<1> HIDE DEF doc
<1>4. PICK row \in WorkerRow :
        /\ worker' = [worker EXCEPT ![j] = row]
        /\ row.at = "opening" /\ row.doc = doc /\ row.writing = "job"
  BY <1>1, <1>3, WorkerToRow DEF Gone, Writing
<1> QED BY <1>1, <1>2, <1>3, <1>4, LatestStays, WorkerMoves, IngestFacts DEF Gone

LEMMA GiveUpKeeps ==
  ASSUME IngestInv, NEW j \in Job, GiveUp(j)
  PROVE  IngestInv'
BY ExitKeeps, LatestStays, IngestFacts DEF GiveUp, files, Gone

\* What a worker that has begun holds
LEMMA WorkerHolds ==
  ASSUME IngestInv, NEW j \in Job, worker[j].at \in {"opening", "reading", "closing"}
  PROVE  /\ worker[j] \in WorkerRow /\ worker[j].doc \in Doc /\ worker[j].doc.job = j
         /\ worker[j].doc.pid = "set" /\ Settled(j) /\ Known(j) /\ j <= jobs
         /\ worker[j].at \in {"opening", "reading"} =>
              worker[j].doc.status = "running" /\ file[j].status \in Early \cup {"running"}
         /\ worker[j].at = "closing" =>
              /\ worker[j].doc.status \in Terminal /\ worker[j].writing # "nothing"
              /\ worker[j].writing = "job" => file[j].status \in Early \cup {"running"}
         /\ j \in late => worker[j].at # "opening"
<1>1. worker[j] \in WorkerRow /\ j <= jobs
  BY CreatedJobs, IngestFacts
<1> QED BY <1>1, IngestFacts DEF WorkerRow, WorkerInv, LateInv, Known

LEMMA WorkerWritesJobKeeps ==
  ASSUME IngestInv, NEW j \in Job, WorkerWritesJob(j)
  PROVE  IngestInv'
<1>1. /\ worker[j].writing = "job" /\ file' = [file EXCEPT ![j] = worker[j].doc]
      /\ WorkerTo(j, worker[j].at, worker[j].doc, "latest")
      /\ UNCHANGED <<latest, lock, page, runner, late, jobs, faults>>
  BY DEF WorkerWritesJob
<1>2. worker[j].at \in {"opening", "reading", "closing"}
  BY <1>1, IngestFacts DEF WorkerInv, WorkerRow
<1>3. PICK row \in WorkerRow :
        /\ worker' = [worker EXCEPT ![j] = row]
        /\ row.at = worker[j].at /\ row.doc = worker[j].doc /\ row.writing = "latest"
  BY <1>1, <1>2, WorkerHolds, WorkerToRow DEF Gone, Writing
<1>4. file'[j] = row.doc /\ file' = [file EXCEPT ![j] = row.doc]
  BY <1>1, <1>3, IngestFacts
<1>5. /\ latest'.job = j
      /\ \/ row.at \in {"reading", "closing"}
         \/ row.at = "opening" /\ row.writing = "nothing"
      => latest'.pid = "set"
  BY <1>1, <1>3, IngestFacts DEF LatestInv, LatestFits
<1>6. worker[j].at \notin Gone \cup {"waiting"}
  BY <1>2 DEF Gone
<1>7. latest' \in Doc /\ latest'.job <= jobs /\ LatestFits(latest')
  BY <1>1, LatestStays
<1>8. row.doc.job = j /\ row.doc.pid = "set" /\ Settled(j)
  BY <1>2, <1>3, WorkerHolds
<1>9. /\ row.at \in {"opening", "reading"} =>
           row.doc.status = "running" /\ file'[j].status \in Early \cup {"running"}
      /\ row.at = "closing" => row.doc.status \in Terminal
  BY <1>2, <1>3, <1>4, WorkerHolds
<1>10. j \in late => row.at # "opening"
  BY <1>2, <1>3, WorkerHolds
<1>11. row.at \notin Gone /\ row.at # "waiting" /\ row.at # "none" /\ worker[j].at \notin Gone
  BY <1>2, <1>3, <1>6 DEF Gone
<1> QED BY <1>1, <1>2, <1>3, <1>4, <1>5, <1>7, <1>8, <1>9, <1>10, <1>11, WorkerMoves, IngestFacts

LEMMA WorkerWritesLatestKeeps ==
  ASSUME IngestInv, NEW j \in Job, WorkerWritesLatest(j)
  PROVE  IngestInv'
<1>1. /\ worker[j].writing = "latest" /\ latest' = worker[j].doc
      /\ UNCHANGED <<file, lock, page, runner, late, jobs, faults>>
  BY DEF WorkerWritesLatest
<1>2. worker[j].at \in {"opening", "reading", "closing"} /\ worker[j].at \notin Gone
  BY <1>1, IngestFacts DEF WorkerInv, WorkerRow, Gone
<1>3. latest' \in Doc /\ latest'.job = j /\ latest'.job <= jobs /\ latest'.pid = "set"
  BY <1>1, <1>2, WorkerHolds
<1>4. LatestFits(latest')
  BY <1>2, <1>3, WorkerHolds DEF LatestFits
<1>5. CASE worker[j].at = "closing"
  <2>1. Exit(j)
    BY <1>5 DEF WorkerWritesLatest
  <2> QED BY <1>1, <1>2, <1>3, <1>4, <2>1, ExitKeeps, IngestFacts
<1>6. CASE worker[j].at # "closing"
  <2>1. WorkerTo(j, worker[j].at, worker[j].doc, "nothing")
    BY <1>6 DEF WorkerWritesLatest
  <2>2. PICK row \in WorkerRow :
          /\ worker' = [worker EXCEPT ![j] = row]
          /\ row.at = worker[j].at /\ row.doc = worker[j].doc /\ row.writing = "nothing"
    BY <1>2, <2>1, WorkerHolds, WorkerToRow DEF Gone, Writing
  <2>3. row.at \notin {"none", "waiting", "closing"} /\ row.at \notin Gone
    BY <1>2, <1>6, <2>2 DEF Gone
  <2> QED BY <1>1, <1>2, <1>3, <1>4, <2>2, <2>3, WorkerHolds, WorkerMoves, IngestFacts
<1> QED BY <1>5, <1>6

\* The runner is started, or a line of its output is read.
LEMMA ReadsKeeps ==
  ASSUME IngestInv, NEW j \in Job, worker[j].at \in {"opening", "reading"},
         worker[j].writing = "nothing", WorkerTo(j, "reading", worker[j].doc, "job"),
         runner' \in [Job -> {"none", "running", "ok", "error"}],
         UNCHANGED <<file, latest, lock, page, late, jobs, faults>>
  PROVE  IngestInv'
<1>1. PICK row \in WorkerRow :
        /\ worker' = [worker EXCEPT ![j] = row]
        /\ row.at = "reading" /\ row.doc = worker[j].doc /\ row.writing = "job"
  BY WorkerHolds, WorkerToRow DEF Gone, Writing
<1>2. latest'.job = j => latest'.pid = "set"
  BY IngestFacts DEF LatestInv, LatestFits
<1>3. worker[j].at \notin Gone /\ row.at \notin Gone
  BY <1>1 DEF Gone
<1>4. latest' \in Doc /\ latest'.job <= jobs /\ LatestFits(latest')
  BY LatestStays
<1>5. /\ row.doc.job = j /\ row.doc.pid = "set" /\ Settled(j)
      /\ row.doc.status = "running" /\ file'[j].status \in Early \cup {"running"}
  BY <1>1, WorkerHolds
<1>6. file' = file /\ faults' \in 0 .. MaxFaults /\ UNCHANGED <<lock, page, late, jobs>>
  BY IngestFacts
<1>7. row.at \notin {"none", "waiting", "opening", "closing"}
  BY <1>1
<1> QED BY <1>1, <1>2, <1>3, <1>4, <1>5, <1>6, <1>7, WorkerMoves

LEMMA ConcludeKeeps ==
  ASSUME IngestInv, NEW j \in Job, Conclude(j)
  PROVE  IngestInv'
<1> DEFINE doc == [worker[j].doc EXCEPT !.status = Result(j)]
<1>1. /\ worker[j].at = "reading" /\ WorkerTo(j, "closing", doc, "job")
      /\ UNCHANGED <<file, latest, lock, page, runner, late, jobs, faults>>
  BY DEF Conclude, files
<1>2. Result(j) \in {"completed", "failed"}
  BY DEF Result
<1>3. doc \in Doc /\ doc.status \in Terminal /\ doc.job = worker[j].doc.job /\ doc.pid = worker[j].doc.pid
  BY <1>1, <1>2, WorkerHolds DEF Doc, Terminal
<1> HIDE DEF doc
<1>4. PICK row \in WorkerRow :
        /\ worker' = [worker EXCEPT ![j] = row]
        /\ row.at = "closing" /\ row.doc = doc /\ row.writing = "job"
  BY <1>1, <1>3, WorkerToRow DEF Gone, Writing
<1>5. latest'.job = j => latest'.pid = "set"
  BY <1>1, IngestFacts DEF LatestInv, LatestFits
<1>6. worker[j].at \notin Gone /\ row.at \notin Gone
  BY <1>1, <1>4 DEF Gone
<1> QED BY <1>1, <1>3, <1>4, <1>5, <1>6, WorkerHolds, LatestStays, WorkerMoves, IngestFacts

LEMMA WorkKeeps ==
  ASSUME IngestInv, NEW j \in Job, Work(j) \/ Line(j) \/ WorkerDies(j)
  PROVE  IngestInv'
<1>1. CASE StartRunner(j)
  <2>1. runner' \in [Job -> {"none", "running", "ok", "error"}]
    BY <1>1, IngestFacts DEF StartRunner
  <2> QED BY <1>1, <2>1, ReadsKeeps DEF StartRunner, files
<1>2. CASE Line(j)
  <2>1. runner' \in [Job -> {"none", "running", "ok", "error"}]
    BY <1>2, IngestFacts DEF Line
  <2> QED BY <1>2, <2>1, ReadsKeeps DEF Line, files
<1>3. CASE WorkerDies(j)
  <2>1. faults' \in 0 .. MaxFaults
    BY <1>3, IngestFaultCounts DEF WorkerDies
  <2> QED BY <1>3, <2>1, ExitKeeps, LatestStays DEF WorkerDies, files
<1> QED BY <1>1, <1>2, <1>3, RegisterKeeps, GiveUpKeeps, WorkerWritesJobKeeps,
           WorkerWritesLatestKeeps, ConcludeKeeps DEF Work

LEMMA RunnerEndsKeeps ==
  ASSUME IngestInv, NEW j \in Job, RunnerEnds(j)
  PROVE  IngestInv'
<1>1. UNCHANGED <<file, latest, lock, page, worker, late, jobs, faults>>
  BY DEF RunnerEnds, files
<1>2. runner' \in [Job -> {"none", "running", "ok", "error"}]
  BY IngestFacts DEF RunnerEnds
<1>3. IngestTypeOK'
  BY <1>1, <1>2, IngestFacts, IngestTypesBack
<1>4. NumbersInv' /\ FileInv' /\ WorkerInv' /\ LateInv' /\ LatestInv' /\ PageInv'
  BY <1>1, IngestFacts DEF NumbersInv, FileInv, WorkerInv, LateInv, LatestInv, LatestFits, PageInv,
                           PageFits, Known, Dead, Settled, Opens
<1> QED BY <1>3, <1>4 DEF IngestInv

\* The time a worker has to register is over.
LEMMA ExpireKeeps ==
  ASSUME IngestInv, NEW j \in Job, Expire(j)
  PROVE  IngestInv'
<1>1. /\ late' = late \cup {j} /\ file[j].job = j /\ worker[j].at \notin {"waiting", "opening"}
      /\ UNCHANGED <<file, latest, lock, page, worker, runner, jobs, faults>>
  BY DEF Expire, files, processes
<1>2. Settled(j)
  BY DEF Expire, Starting, Settled, Opens
<1>3. j <= jobs
  BY <1>1, CreatedJobs
<1>4. IngestTypeOK'
  BY <1>1, IngestFacts, IngestTypesBack
<1>5. FileInv' /\ WorkerInv' /\ LatestInv' /\ PageInv'
  BY <1>1, IngestFacts DEF FileInv, WorkerInv, LatestInv, LatestFits, PageInv,
                           PageFits, Known, Dead, Settled, Opens
<1>6. LateInv'
  BY <1>1, <1>2, IngestFacts DEF LateInv, Settled, Opens
<1>7. NumbersInv'
  <2>1. \A k \in Job : k > jobs => k # j
    BY <1>3, IngestNumbers, IngestFacts
  <2> QED BY <1>1, <2>1, IngestFacts DEF NumbersInv
<1> QED BY <1>4, <1>5, <1>6, <1>7 DEF IngestInv

-----------------------------------------------------------------------------

LEMMA IngestStarts ==
  ASSUME IngestInit
  PROVE  IngestInv
<1>1. /\ file \in [Job -> Doc] /\ latest \in Doc /\ lock \in Tab \cup {Nobody}
      /\ page \in [Tab -> PageRow] /\ runner \in [Job -> {"none", "running", "ok", "error"}]
      /\ late \subseteq Job /\ jobs \in 0 .. MaxJobs /\ faults \in 0 .. MaxFaults
  BY NoDocFields, NoPageFields, IngestNumbers DEF IngestInit
<1>2. /\ \A j \in Job : file[j] = NoDoc
      /\ \A s \in Tab : page[s] = NoPage
      /\ late = {} /\ latest = NoDoc /\ jobs = 0
  BY DEF IngestInit
<1>3. \A j \in Job : /\ worker[j] \in WorkerRow /\ worker[j].at = "none"
                     /\ worker[j].doc = NoDoc /\ worker[j].writing = "nothing"
  BY NoDocFields DEF IngestInit, WorkerRow, Gone, Writing
<1>4. worker \in [Job -> WorkerRow]
  BY <1>3 DEF IngestInit
<1>5. IngestTypeOK
  BY <1>1, <1>2, <1>4, NoDocFields, NoPageFields DEF IngestTypeOK, PageRow, WorkerRow
<1>6. NumbersInv /\ FileInv /\ LateInv
  BY <1>2, <1>3, NoDocFields, NoPageFields DEF NumbersInv, FileInv, LateInv
<1>7. WorkerInv
  BY <1>3, NoDocFields DEF WorkerInv
<1>8. LatestInv
  BY <1>2, NoDocFields, IngestNumbers DEF LatestInv, LatestFits
<1>9. PageInv
  BY <1>2, NoPageFields DEF PageInv, PageFits
<1> QED BY <1>5, <1>6, <1>7, <1>8, <1>9 DEF IngestInv

LEMMA IngestStep ==
  ASSUME IngestInv, [IngestNext]_ingestVars
  PROVE  IngestInv'
<1>1. CASE UNCHANGED ingestVars
  <2>1. UNCHANGED <<file, latest, lock, page, worker, runner, late, jobs, faults>>
    BY <1>1 DEF ingestVars, files, processes
  <2>2. IngestTypeOK' /\ NumbersInv'
    BY <2>1, IngestFacts DEF IngestTypeOK, NumbersInv
  <2>3. FileInv' /\ WorkerInv' /\ LateInv' /\ LatestInv' /\ PageInv'
    BY <2>1, IngestFacts DEF FileInv, WorkerInv, LateInv, LatestInv, LatestFits, PageInv,
                             PageFits, Known, Dead, Settled, Opens
  <2> QED BY <2>2, <2>3 DEF IngestInv
<1>2. ASSUME NEW s \in Tab, Enter(s) \/ GetLatest(s) \/ Call(s) \/ PageDies(s)
      PROVE  IngestInv'
  BY <1>2, EnterKeeps, GetLatestKeeps, ProbeKeeps, WriteJobKeeps, WriteLatestKeeps, SpawnKeeps,
     PageDiesKeeps DEF Call
<1>3. ASSUME NEW j \in Job, Work(j) \/ Line(j) \/ WorkerDies(j) \/ RunnerEnds(j) \/ Expire(j)
      PROVE  IngestInv'
  BY <1>3, WorkKeeps, RunnerEndsKeeps, ExpireKeeps
<1> QED BY <1>1, <1>2, <1>3, ReapKeeps, RestartKeeps DEF IngestNext

\* The invariant holds of every on-demand job, whoever of its pages, workers and
\* runners dies and when: what pages and workers remember of a status fits the
\* processes there are (start_job, get_latest_status and run_worker).
THEOREM IngestInvHolds == IngestSpec => []IngestInv
BY IngestStarts, IngestStep, PTL DEF IngestSpec

\* Pages, workers, the lock and the two status files hold what they may hold, and
\* only the page with the controller's lock is past taking it.
THEOREM IngestTypeHolds == IngestSpec => []IngestTypeOK
BY IngestInvHolds, PTL DEF IngestInv

\* A status that is written over another of the same job is not an earlier one.
LEMMA StatusSteps ==
  ASSUME IngestInv, IngestNext, NEW j \in Job
  PROVE  Rank[file[j].status] <= Rank[file'[j].status]
<1>1. /\ Rank["none"] = 0 /\ Rank["queued"] = 1 /\ Rank["running"] = 2
      /\ Rank["completed"] = 3 /\ Rank["failed"] = 3
  BY DEF Rank
<1>2. file[j].status \in {"none", "queued", "running", "completed", "failed"}
  BY IngestFacts DEF Doc
<1>3. CASE file'[j] = file[j]
  BY <1>1, <1>2, <1>3
<1>4. ASSUME NEW s \in Tab, WriteJob(s)
      PROVE  Rank[file[j].status] <= Rank[file'[j].status]
  <2>1. page[s].writing = "job" /\ file' = [file EXCEPT ![page[s].doc.job] = page[s].doc]
    BY <1>4 DEF WriteJob
  <2>2. page[s].at \in {"failing", "creating", "registering", "refusing"}
    <3>1. page[s].at \notin {"idle", "locked", "probe", "spawning"} /\ page[s] \in PageRow
      BY <2>1, IngestFacts DEF PageInv, PageFits
    <3> QED BY <3>1 DEF PageRow
  <2>3. CASE page[s].doc.job = j
    <3>1. PageFits(s) /\ file'[j] = page[s].doc
      BY <2>1, <2>3, IngestFacts DEF PageInv
    <3>2. CASE page[s].at \in {"failing", "refusing"}
      BY <1>1, <1>2, <3>1, <3>2 DEF PageFits
    <3>3. CASE page[s].at \in {"creating", "registering"}
      <4>1. page[s].doc.status = "queued" /\ file[j].status \in {"none", "queued"}
        BY <2>1, <2>3, <3>1, <3>3 DEF PageFits, Early
      <4> QED BY <1>1, <3>1, <4>1
    <3> QED BY <2>2, <3>2, <3>3
  <2>4. CASE page[s].doc.job # j
    <3>1. file'[j] = file[j]
      BY <2>1, <2>4, IngestFacts
    <3> QED BY <1>3, <3>1
  <2> QED BY <2>3, <2>4
<1>5. ASSUME NEW k \in Job, WorkerWritesJob(k)
      PROVE  Rank[file[j].status] <= Rank[file'[j].status]
  <2>1. worker[k].writing = "job" /\ file' = [file EXCEPT ![k] = worker[k].doc]
    BY <1>5 DEF WorkerWritesJob
  <2>2. worker[k].at \in {"opening", "reading", "closing"}
    BY <2>1, IngestFacts DEF WorkerInv, WorkerRow
  <2>3. CASE k = j
    <3>1. file'[j] = worker[j].doc
      BY <2>1, <2>3, IngestFacts
    <3>2. /\ file[j].status \in Early \cup {"running"}
          /\ worker[j].doc.status \in {"running"} \cup Terminal
      BY <2>1, <2>2, <2>3, WorkerHolds
    <3> QED BY <1>1, <3>1, <3>2 DEF Early, Terminal
  <2>4. CASE k # j
    <3>1. file'[j] = file[j]
      BY <2>1, <2>4, IngestFacts
    <3> QED BY <1>3, <3>1
  <2> QED BY <2>3, <2>4
<1>6. \/ file' = file
      \/ \E s \in Tab : WriteJob(s)
      \/ \E k \in Job : WorkerWritesJob(k)
  BY DEF IngestNext, Enter, GetLatest, Call, Probe, WriteLatest, Spawn, PageDies, Work, Register,
         GiveUp, WorkerWritesLatest, StartRunner, Conclude, Line, WorkerDies, RunnerEnds, Expire,
         Restart, Reap, files
<1> QED BY <1>3, <1>4, <1>5, <1>6

\* A job's own status never goes back, for any number of pages, jobs and deaths:
\* pages write queued only before the worker may write running, and failed only
\* when the worker is gone; the worker writes running until it writes its result.
THEOREM StatusMovesOnHolds == IngestSpec => StatusMovesOn
<1>1. ASSUME IngestInv, [IngestNext]_ingestVars
      PROVE  [\A j \in Job : Rank[file[j].status] <= Rank[file'[j].status]]_ingestVars
  BY <1>1, StatusSteps
<1> QED BY <1>1, IngestInvHolds, PTL DEF IngestSpec, StatusMovesOn
=============================================================================
