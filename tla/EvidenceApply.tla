---------------------------- MODULE EvidenceApply ----------------------------
(***************************************************************************)
(* The evidence assistant (services/collector_evidence.py) beside the      *)
(* operator's editor (services/collector_curation.py), for one listing.    *)
(* The assistant builds a report of what could be filled in, and later     *)
(* applies it in one transaction of several statements; the editor saves   *)
(* one table with one statement.                                           *)
(*                                                                         *)
(* The database is at READ COMMITTED: a statement sees what is committed   *)
(* when it starts, and waits for the row it locks or writes.  Locking a    *)
(* row that is not there locks nothing.                                    *)
(***************************************************************************)
EXTENDS Integers, Sequences

CONSTANTS
  Session,      \* assistants: browser sessions and runs of the script
  Free,         \* nobody holds a row
  MaxReports,   \* bound: reports built
  MaxSaves      \* bound: saves of the operator

ASSUME EvidenceAssumption ==
  /\ Free \notin Session
  /\ MaxReports \in Nat /\ MaxSaves \in Nat

Table == {"condition", "window", "anchor"}
BuildOrder == <<"condition", "anchor", "window">>

\* The slip: the order of a set of strings, which differs between processes.
ApplyOrder_OfSet(s) ==
  IF s = CHOOSE x \in Session : TRUE THEN <<"condition", "window", "anchor">>
  ELSE <<"anchor", "window", "condition">>

ApplyOrder(s) == <<"condition", "window", "anchor">>

\* A row: the value the assistant may propose and who gave it, and whether the
\* operator has filled columns the assistant has no value for; notes left out.
Row == [value : {"absent", "unset", "manual", "auto"}, rest : {"none", "manual"}]
NoRow == [value |-> "absent", rest |-> "none"]

VARIABLES
  stored,     \* the committed rows
  written,    \* the rows with the writes of the open transactions
  holder,     \* who holds the lock of each row
  phase,      \* what each session is at
  place,      \* how far it has come in that
  todo,       \* the proposals of its report that it has not settled
  seen,       \* the row it has read and not yet written
  blind,      \* history: where it read that there was no row
  reports, saves

rowVars == <<stored, written, holder>>
sessionVars == <<phase, place, todo, seen, blind>>
evidenceVars == <<rowVars, sessionVars, reports, saves>>

EvidenceTypeOK ==
  /\ {stored, written} \subseteq [Table -> Row]
  /\ holder \in [Table -> Session \cup {Free}]
  /\ \A t \in Table : /\ holder[t] = Free => written[t] = stored[t]
                      /\ holder[t] # Free => phase[holder[t]] \in {"look", "write"}
                      /\ stored[t].value = "absent" => stored[t] = NoRow
  /\ phase \in [Session -> {"idle", "build", "look", "write"}]
  /\ place \in [Session -> 1 .. 4]
  /\ todo \in [Session -> SUBSET Table]
  /\ seen \in [Session -> Row]
  /\ blind \in [Session -> SUBSET Table]
  /\ reports \in 0 .. MaxReports /\ saves \in 0 .. MaxSaves

EvidenceInit ==
  /\ stored = [t \in Table |-> NoRow] /\ written = stored
  /\ holder = [t \in Table |-> Free]
  /\ phase = [s \in Session |-> "idle"]
  /\ place = [s \in Session |-> 1]
  /\ todo = [s \in Session |-> {}] /\ blind = todo
  /\ seen = [s \in Session |-> NoRow]
  /\ reports = 0 /\ saves = 0

-----------------------------------------------------------------------------
(* The operator *)

\* What save_condition, save_behavior and save_analysis_input can leave: a row
\* with or without the value, and no row when a form is empty (but for behavior).
Saved(t) ==
  {r \in Row : r.value = "manual"}
    \cup (IF t = "condition" THEN {} ELSE {[value |-> "unset", rest |-> "manual"]})
    \cup (IF t = "window" THEN {[value |-> "unset", rest |-> "none"]} ELSE {NoRow})

\* One statement, which waits for the holder of the row and then replaces it
Save(t) ==
  /\ saves < MaxSaves
  /\ holder[t] = Free
  /\ \E r \in Saved(t) : /\ stored' = [stored EXCEPT ![t] = r]
                         /\ written' = [written EXCEPT ![t] = r]
  /\ saves' = saves + 1
  /\ UNCHANGED <<holder, sessionVars, reports>>

-----------------------------------------------------------------------------
(* The assistant *)

\* What the assistant leaves alone: a manual condition, any window, any anchor
Claimed(t, r) == IF t = "condition" THEN r.value = "manual" ELSE r.value \in {"manual", "auto"}

Goto(s, to, at, left) ==
  /\ phase' = [phase EXCEPT ![s] = to]
  /\ place' = [place EXCEPT ![s] = at]
  /\ todo' = [todo EXCEPT ![s] = left]

Begin(s) ==
  /\ phase[s] = "idle" /\ reports < MaxReports
  /\ Goto(s, "build", 1, {})
  /\ reports' = reports + 1
  /\ UNCHANGED <<rowVars, seen, blind, saves>>

\* build_evidence_report, one table; the rest of the evidence may be missing.
Propose(s) ==
  LET t == BuildOrder[place[s]] IN
  /\ phase[s] = "build" /\ place[s] <= 3
  /\ \E proposed \in IF Claimed(t, stored[t]) THEN {{}} ELSE {{}, {t}} :
       Goto(s, "build", place[s] + 1, todo[s] \cup proposed)
  /\ UNCHANGED <<rowVars, seen, blind, reports, saves>>

\* The transaction begins; or the report is empty or not applied.
Submit(s) ==
  /\ phase[s] = "build" /\ place[s] = 4
  /\ \/ todo[s] # {} /\ Goto(s, "look", 1, todo[s])
     \/ Goto(s, "idle", 1, {})
  /\ UNCHANGED <<rowVars, seen, blind, reports, saves>>

\* The slip: the row is read without FOR UPDATE.
Locks_Nothing(s, t) == UNCHANGED holder

\* FOR UPDATE: waits for the row, and locks it when there is one
Locks(s, t) ==
  IF stored[t] = NoRow THEN UNCHANGED holder
  ELSE holder[t] = Free /\ holder' = [holder EXCEPT ![t] = s]

\* _historical_anchor_is_still_valid: whether the comparables are what they were
StillValid(t) == IF t = "anchor" THEN BOOLEAN ELSE {TRUE}

\* SELECT ... FOR UPDATE of a proposed table, and the decision
Look(s) ==
  LET t == ApplyOrder(s)[place[s]] IN
  /\ phase[s] = "look" /\ place[s] <= 3 /\ t \in todo[s]
  /\ Locks(s, t)
  /\ seen' = [seen EXCEPT ![s] = stored[t]]
  /\ blind' = [blind EXCEPT ![s] = IF stored[t] = NoRow THEN @ \cup {t} ELSE @]
  /\ \E valid \in StillValid(t) :
       IF ~Claimed(t, stored[t]) /\ valid THEN Goto(s, "write", place[s], todo[s])
       ELSE Goto(s, "look", place[s] + 1, todo[s] \ {t})
  /\ UNCHANGED <<stored, written, reports, saves>>

\* A table that is not proposed is passed over.
Skip(s) ==
  /\ phase[s] = "look" /\ place[s] <= 3 /\ ApplyOrder(s)[place[s]] \notin todo[s]
  /\ Goto(s, "look", place[s] + 1, todo[s])
  /\ UNCHANGED <<rowVars, seen, blind, reports, saves>>

\* The slip: DO UPDATE also sets the columns that were read for VALUES.
Upserted_Whole(s, t) == [value |-> "auto", rest |-> seen[s].rest]

\* INSERT ... ON CONFLICT DO UPDATE of the proposed columns
Upserted(s, t) == [written[t] EXCEPT !.value = "auto"]

Write(s) ==
  LET t == ApplyOrder(s)[place[s]] IN
  /\ phase[s] = "write"
  /\ holder[t] \in {Free, s}
  /\ holder' = [holder EXCEPT ![t] = s]
  /\ written' = [written EXCEPT ![t] = Upserted(s, t)]
  /\ Goto(s, "look", place[s] + 1, todo[s] \ {t})
  /\ UNCHANGED <<stored, seen, blind, reports, saves>>

\* The rows s holds are given up, as they are now or as they were.
Close(s, rows) ==
  /\ stored' = [t \in Table |-> IF holder[t] = s THEN rows[t] ELSE stored[t]]
  /\ written' = [t \in Table |-> IF holder[t] = s THEN rows[t] ELSE written[t]]
  /\ holder' = [t \in Table |-> IF holder[t] = s THEN Free ELSE holder[t]]
  /\ Goto(s, "idle", 1, {})
  /\ seen' = [seen EXCEPT ![s] = NoRow]
  /\ blind' = [blind EXCEPT ![s] = {}]
  /\ UNCHANGED <<reports, saves>>

Commit(s) == phase[s] = "look" /\ place[s] = 4 /\ Close(s, written)

\* An exception, or the end of the process or of the connection
Abort(s) == phase[s] \in {"look", "write"} /\ Close(s, stored)

Proceed(s) == Propose(s) \/ Submit(s) \/ Look(s) \/ Skip(s) \/ Write(s) \/ Commit(s)

\* The bounds are reached and every session is done.
Over ==
  /\ \A s \in Session : phase[s] = "idle"
  /\ reports = MaxReports /\ saves = MaxSaves
  /\ UNCHANGED evidenceVars

EvidenceNext ==
  \/ Over
  \/ \E t \in Table : Save(t)
  \/ \E s \in Session : Begin(s) \/ Proceed(s) \/ Abort(s)

\* A session goes on by itself; the database wakes it when its row is free.
EvidenceSpec ==
  EvidenceInit /\ [][EvidenceNext]_evidenceVars /\ \A s \in Session : WF_evidenceVars(Proceed(s))

-----------------------------------------------------------------------------
(* Properties *)

\* An operator's value gives way to the assistant only where the assistant read
\* that there was no row: a row that exists is locked between the check and the
\* write, whatever is saved, applied or rolled back beside it.
ReadClaimsAreKept ==
  [][\A t \in Table : stored[t].value = "manual" /\ stored'[t].value = "auto" =>
       \E s \in Session : t \in blind[s]]_evidenceVars

\* The columns the assistant has no value for keep what the operator put into them,
\* also when the row was not there yet when the assistant read it.
RestIsKept ==
  [][\A t \in Table : stored'[t].value = "auto" => stored'[t].rest = stored[t].rest]_evidenceVars

\* Sessions never wait for each other in a circle: an apply that has begun ends,
\* without the database having to pick a victim.
AppliesEnd == \A s \in Session : phase[s] # "idle" ~> phase[s] = "idle"

\* What apply_evidence_report says of itself: it applies proposals that remain
\* unclaimed.  Not kept by the code: there is no row to lock before the operator's
\* first save, and the upsert takes that save for its own row.
ClaimsAreKept ==
  [][\A t \in Table : stored[t].value = "manual" => stored'[t].value # "auto"]_evidenceVars
=============================================================================
