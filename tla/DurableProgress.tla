--------------------------- MODULE DurableProgress ---------------------------
(***************************************************************************)
(* DurableProgress of scripts/run_cloud_refresh_worker.py: what the worker *)
(* makes of the runner's lines, in its own memory and, through             *)
(* update_marketplace_state, in the rows of ops.refresh_marketplace; and   *)
(* refresh_job_to_ui_status, what the web shows of those rows.             *)
(*                                                                         *)
(* Messages are told apart as far as the web reads them back.              *)
(***************************************************************************)
EXTENDS Integers, Sequences

Marketplaces == {"buyee", "ebay", "gripsweat"}

None == "none"

RowStates ==
  {"waiting", "running", "done", "failed", "skipped", "authentication_required",
   "awaiting_handoff"}

Messages == {"waiting", "stated", "execution failed", "interrupted", "not reached"}

VARIABLES
  memory,    \* _states
  current,   \* current_marketplace
  counted,   \* _counters: the kinds of counters seen
  rows       \* the durable rows

progressVars == <<memory, current, counted, rows>>

Row ==
  [state : RowStates, started : {"null", "set"}, finished : {"null", "set"},
   counted : SUBSET {"visible", "progress"}, message : Messages]

ProgressTypeOK ==
  /\ memory \in [Marketplaces -> RowStates]
  /\ current \in Marketplaces \cup {None}
  /\ counted \in [Marketplaces -> SUBSET {"visible", "progress"}]
  /\ rows \in [Marketplaces -> Row]

-----------------------------------------------------------------------------

\* SOURCE_STATE_MAP
Mapped(state) == IF state = "unavailable" THEN "skipped" ELSE state

Finishing ==
  {"done", "failed", "skipped", "authentication_required", "awaiting_handoff"}

\* update_marketplace_state.  None leaves the message as it is.
Write(m, state, message) ==
  rows' = [rows EXCEPT ![m] =
    [state |-> state,
     started |-> IF state = "running" THEN "set" ELSE @.started,
     finished |-> IF state \in Finishing THEN "set"
                  ELSE IF state = "running" THEN "null" ELSE @.finished,
     counted |-> @.counted \cup counted'[m],
     message |-> IF message = None THEN @.message ELSE message]]

\* The state that goes with a counter line.
Moving(state) == IF state = "waiting" THEN "running" ELSE state

ProgressInit ==
  /\ memory = [m \in Marketplaces |-> "waiting"]
  /\ current = None
  /\ counted = [m \in Marketplaces |-> {}]
  /\ rows = [m \in Marketplaces |->
       [state |-> "waiting", started |-> "null", finished |-> "null",
        counted |-> {}, message |-> "waiting"]]

\* consume, on a state line
ConsumeState(m, state) ==
  /\ current' = m
  /\ memory' = [memory EXCEPT ![m] = Mapped(state)]
  /\ UNCHANGED counted
  /\ Write(m, Mapped(state), "stated")

\* on a diagnostic line
ConsumeDiagnostic_Current(m) ==
  /\ UNCHANGED <<memory, current, counted>>
  /\ Write(m, "running", "stated")

ConsumeDiagnostic(m) ==
  /\ UNCHANGED <<memory, current, counted>>
  /\ Write(m, memory[m], "stated")

\* on a line of the visible counters
ConsumeVisible(m) ==
  /\ counted' = [counted EXCEPT ![m] = @ \cup {"visible"}]
  /\ UNCHANGED <<memory, current>>
  /\ Write(m, memory[m], None)

\* on a line of progress counters: the row may move where the memory does not
ConsumeProgress(m) ==
  /\ current' = m
  /\ counted' = [counted EXCEPT ![m] = @ \cup {"progress"}]
  /\ UNCHANGED memory
  /\ Write(m, Moving(memory[m]), None)

Consume(line) ==
  CASE line.kind = "state" -> ConsumeState(line.source, line.state)
    [] line.kind = "diagnostic" -> ConsumeDiagnostic(line.source)
    [] line.kind = "visible" -> ConsumeVisible(line.source)
    [] line.kind = "progress" -> ConsumeProgress(line.source)

-----------------------------------------------------------------------------
(* finalize_runner_failure, one durable row at a time *)

Open == {m \in Marketplaces : memory[m] \in {"waiting", "running"}}

FinalizeCurrent ==
  /\ current \in Open
  /\ memory' = [memory EXCEPT ![current] = "failed"]
  /\ UNCHANGED <<current, counted>>
  /\ Write(current, "failed", "execution failed")

FinalizeOther_Unreached(m) ==
  /\ m \in Open
  /\ memory' = [memory EXCEPT ![m] = "skipped"]
  /\ UNCHANGED <<current, counted>>
  /\ Write(m, "skipped", "stated")

FinalizeOther(m) ==
  /\ m \in Open
  /\ current \notin Open
  /\ memory' = [memory EXCEPT ![m] = "skipped"]
  /\ UNCHANGED <<current, counted>>
  /\ Write(m, "skipped", IF memory[m] = "running" THEN "interrupted" ELSE "not reached")

FinalizeRow == FinalizeCurrent \/ \E m \in Marketplaces : FinalizeOther(m)

-----------------------------------------------------------------------------
(* refresh_job_to_ui_status *)

Shown(jobState, row) ==
  IF row.state = "running" /\ jobState \notin {"queued", "running"}
  THEN IF row.message = "execution failed" THEN "failed" ELSE "interrupted"
  ELSE IF row.state = "skipped"
  THEN CASE row.message = "interrupted" -> "interrupted"
         [] row.message = "not reached" -> "not_run"
         [] OTHER -> "unavailable"
  ELSE row.state

=============================================================================
