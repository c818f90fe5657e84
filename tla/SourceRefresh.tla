---------------------------- MODULE SourceRefresh ----------------------------
(***************************************************************************)
(* The runner, scripts/run_latest_auction_refresh.py: one refresh takes    *)
(* the marketplaces one after the other, says on its standard output how   *)
(* each of them fares, and ends with an exit status.  A marketplace that   *)
(* is unavailable or failed does not keep the later ones from being tried; *)
(* an exception does.                                                      *)
(*                                                                         *)
(* What a marketplace's acquisition does inside (crawl, parse, normalise,  *)
(* synchronise, enrich) is one of its outcomes here, or an exception.      *)
(***************************************************************************)
EXTENDS Integers, Sequences

CONSTANT MaxReports   \* bound: counter lines one marketplace prints

ASSUME SourceAssumption == MaxReports \in Nat

Source == {"buyee", "ebay", "gripsweat"}

SourceState ==
  {"waiting", "running", "done", "unavailable", "failed", "awaiting_handoff",
   "authentication_required"}

VARIABLES
  structured,   \* whether --ebay-structured-raw-page-id and --require-all-sources
  phase,        \* where main() is
  source,       \* status["marketplace_states"]
  reports,      \* counter lines printed for the present marketplace
  pipe,         \* lines printed and not yet read
  exit          \* the exit status of the round

sourceVars == <<structured, phase, source, reports, pipe, exit>>

Line ==
  [kind : {"state"}, source : Source, state : SourceState]
    \cup [kind : {"diagnostic", "visible", "progress"}, source : Source]

SourceTypeOK ==
  /\ structured \in {"yes", "no"}
  /\ phase \in {"preflight", "final", "exited"} \cup Source
  /\ source \in [Source -> SourceState]
  /\ reports \in 0..MaxReports
  /\ pipe \in Seq(Line)
  /\ exit \in {"none", "ok", "error"}

-----------------------------------------------------------------------------

Following == [buyee |-> "ebay", ebay |-> "gripsweat", gripsweat |-> "final"]

\* The states in which a marketplace may be left.  A structured eBay page
\* forbids the browser and the idle handoff: it is processed, or main() raises.
Outcomes(s) ==
  CASE s = "buyee" -> {"done", "authentication_required", "unavailable", "failed"}
    [] s = "ebay" -> IF structured = "yes" THEN {"done"}
                     ELSE {"done", "awaiting_handoff", "unavailable", "failed"}
    [] s = "gripsweat" -> {"done", "failed"}

\* emit_source_state: a state line, and a diagnostic line after it.
Emit(s, state) ==
  /\ source' = [source EXCEPT ![s] = state]
  /\ pipe' = pipe \o << [kind |-> "state", source |-> s, state |-> state],
                        [kind |-> "diagnostic", source |-> s] >>

SourceInit ==
  /\ structured \in {"yes", "no"}
  /\ phase = "preflight"
  /\ source = [s \in Source |-> "waiting"]
  /\ reports = 0
  /\ pipe = <<>>
  /\ exit = "none"

\* The checks before the first marketplace.
Begin ==
  /\ phase = "preflight"
  /\ phase' = "buyee"
  /\ Emit("buyee", "running")
  /\ UNCHANGED <<structured, reports, exit>>

\* emit_incremental_progress and publish_source_visibility
Report(kind) ==
  /\ phase \in Source
  /\ source[phase] = "running"
  /\ reports < MaxReports
  /\ reports' = reports + 1
  /\ pipe' = Append(pipe, [kind |-> kind, source |-> phase])
  /\ UNCHANGED <<structured, phase, source, exit>>

Conclude(outcome) ==
  /\ phase \in Source
  /\ source[phase] = "running"
  /\ outcome \in Outcomes(phase)
  /\ Emit(phase, outcome)
  /\ UNCHANGED <<structured, phase, reports, exit>>

\* On to the next marketplace.  A failed Gripsweat raises instead.
Advance ==
  /\ phase \in Source
  /\ source[phase] # "running"
  /\ phase = "gripsweat" => source[phase] = "done"
  /\ phase' = Following[phase]
  /\ IF phase = "gripsweat" THEN UNCHANGED <<source, pipe>>
     ELSE Emit(Following[phase], "running")
  /\ reports' = 0
  /\ UNCHANGED <<structured, exit>>

\* An exception, in main() or in the round around it.
Raise ==
  /\ phase # "exited"
  /\ phase' = "exited"
  /\ exit' = "error"
  /\ UNCHANGED <<structured, source, reports, pipe>>

\* Marketplaces that the refresh may not end without.
TerminalFailures ==
  {s \in Source : \/ source[s] = "failed"
                  \/ source[s] = "unavailable" /\ structured = "yes"}

Finish ==
  /\ phase = "final"
  /\ phase' = "exited"
  /\ exit' = IF TerminalFailures = {} THEN "ok" ELSE "error"
  /\ UNCHANGED <<structured, source, reports, pipe>>

RunnerNext ==
  \/ Begin
  \/ \E kind \in {"visible", "progress"} : Report(kind)
  \/ \E outcome \in SourceState : Conclude(outcome)
  \/ Advance
  \/ Raise
  \/ Finish

=============================================================================
