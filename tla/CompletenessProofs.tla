-------------------------- MODULE CompletenessProofs --------------------------
(***************************************************************************)
(* Theorems about Completeness, for any slots, components, quantities,     *)
(* references, observations and profiles, and any listings, pressings,     *)
(* sessions and calls.  First the evaluators: they agree on every table    *)
(* there can be, by the definition of each, slot by slot.  Then the        *)
(* transactions of the services: what each knows of the tables, and what   *)
(* it therefore finds when it commits.  Then the snapshots: what a call's  *)
(* statements have captured, by induction over them; that the history is   *)
(* told apart by its ids; and what it says of a listing, after a call that *)
(* met no other, and after one among others that are isolated.             *)
(***************************************************************************)
EXTENDS Completeness, FiniteSetTheorems, WellFoundedInduction, TLAPS

Sightings == {"PRESENT", "ABSENT", "UNKNOWN", "NOT_VISIBLE", "NOT_APPLICABLE"}

\* A required slot has a positive quantity.
LEMMA RequiredIsPositive ==
  ASSUME NEW reference \in Reference, NEW s \in Required(reference)
  PROVE  s \in Slot /\ reference[s].quantity \in Nat \ {0}
<1>1. s \in Slot /\ reference[s].state = "REQUIRED"
  BY DEF Required
<1>2. reference[s] \in Expectation \cup {NoExpectation}
  BY <1>1 DEF Reference
<1>3. reference[s] \in Expectation
  BY <1>1, <1>2 DEF NoExpectation
<1>4. reference[s].quantity \in 1 .. MaxQuantity
  BY <1>3 DEF Expectation
<1> QED BY <1>1, <1>4, RulesAssumption

\* The range of an observation
LEMMA ObservationRange ==
  ASSUME NEW observed \in Observed, NEW s \in Slot
  PROVE  /\ observed[s].state \in Sightings \cup {"none"}
         /\ observed[s].quantity \in Int /\ observed[s].quantity >= -1
<1>1. observed[s] \in Observation \cup {NoObservation}
  BY DEF Observed
<1>2. CASE observed[s] = NoObservation
  BY <1>2 DEF NoObservation
<1>3. CASE observed[s] \in Observation
  <2>1. observed[s].state \in Sightings /\ observed[s].quantity \in Unstated .. MaxQuantity
    BY <1>3 DEF Observation, Sightings
  <2> QED BY <2>1, RulesAssumption DEF Unstated
<1> QED BY <1>1, <1>2, <1>3

\* A slot of which enough is seen is present, and enough of it for the service too.
LEMMA SeenIsPresent ==
  ASSUME NEW reference \in Reference, NEW observed \in Observed,
         NEW s \in Required(reference), Seen(observed[s]) >= reference[s].quantity
  PROVE  /\ observed[s].state = "PRESENT"
         /\ AtLeastOne(observed[s].quantity) >= reference[s].quantity
<1>1. s \in Slot /\ reference[s].quantity \in Nat \ {0}
  BY RequiredIsPositive
<1>2. observed[s].quantity \in Int /\ observed[s].quantity >= -1
  BY <1>1, ObservationRange
<1>3. observed[s].state = "PRESENT"
  BY <1>1 DEF Seen
<1>4. Units(observed[s].quantity) >= reference[s].quantity
  BY <1>3 DEF Seen
<1>5. AtLeastOne(observed[s].quantity) >= Units(observed[s].quantity)
  BY <1>2 DEF AtLeastOne, Units, Unstated
<1>6. /\ AtLeastOne(observed[s].quantity) \in Int /\ Units(observed[s].quantity) \in Int
  BY <1>2 DEF AtLeastOne, Units, Unstated
<1> QED BY <1>1, <1>3, <1>4, <1>5, <1>6

\* What the service finds lacking the snapshot finds missing.
LEMMA LackingIsMissing ==
  ASSUME NEW reference \in Reference, NEW observed \in Observed, NEW profile \in Profile
  PROVE  Lacking(reference, observed, profile) \subseteq Missing(reference, observed, profile)
<1> SUFFICES ASSUME NEW s \in Lacking(reference, observed, profile)
             PROVE  Seen(observed[s]) < reference[s].quantity
  BY DEF Lacking, Missing
<1>1. s \in Required(reference)
  BY DEF Lacking
<1>2. s \in Slot /\ reference[s].quantity \in Nat \ {0}
  BY <1>1, RequiredIsPositive
<1>3. observed[s].quantity \in Int /\ observed[s].quantity >= -1
  BY <1>2, ObservationRange
<1>4. Seen(observed[s]) \in Int
  BY <1>3 DEF Seen, Units
<1>5. SUFFICES ASSUME Seen(observed[s]) >= reference[s].quantity PROVE FALSE
  BY <1>2, <1>4
<1>6. /\ observed[s].state = "PRESENT"
      /\ AtLeastOne(observed[s].quantity) >= reference[s].quantity
  BY <1>1, <1>5, SeenIsPresent
<1>7. AtLeastOne(observed[s].quantity) \in Int
  BY <1>3 DEF AtLeastOne
<1> QED BY <1>2, <1>6, <1>7 DEF Lacking

\* Where nothing is missing, nothing is lacking or unverified, and nothing absent.
LEMMA NothingMissing ==
  ASSUME NEW reference \in Reference, NEW observed \in Observed, NEW profile \in Profile,
         Missing(reference, observed, profile) = {},
         NEW s \in Required(reference) \cap Applicable(profile)
  PROVE  observed[s].state = "PRESENT"
<1>1. s \in Slot /\ reference[s].quantity \in Nat \ {0}
  BY RequiredIsPositive
<1>2. observed[s].quantity \in Int
  BY <1>1, ObservationRange
<1>3. Seen(observed[s]) \in Int
  BY <1>2 DEF Seen, Units
<1>4. ~(Seen(observed[s]) < reference[s].quantity)
  BY DEF Missing
<1> QED BY <1>1, <1>3, <1>4, SeenIsPresent

\* A required slot that is neither lacking nor unverified, and not present with the
\* quantity 0, is not missing.
LEMMA NothingLacking ==
  ASSUME NEW reference \in Reference, NEW observed \in Observed, NEW profile \in Profile,
         Lacking(reference, observed, profile) = {},
         Unverified(reference, observed) \cap Applicable(profile) = {},
         PresentNone(observed) = {}
  PROVE  Missing(reference, observed, profile) = {}
<1> SUFFICES ASSUME NEW s \in Required(reference) \cap Applicable(profile)
             PROVE  ~(Seen(observed[s]) < reference[s].quantity)
  BY DEF Missing
<1>1. s \in Slot /\ reference[s].quantity \in Nat \ {0}
  BY RequiredIsPositive
<1>2. /\ observed[s].state \in Sightings \cup {"none"}
      /\ observed[s].quantity \in Int /\ observed[s].quantity >= -1
  BY <1>1, ObservationRange
<1>3. observed[s].state # "ABSENT"
  BY <1>1 DEF Lacking
<1>4. observed[s].state \notin {"none", "UNKNOWN", "NOT_VISIBLE", "NOT_APPLICABLE"}
  BY <1>1 DEF Unverified, In
<1>5. observed[s].state = "PRESENT"
  BY <1>2, <1>3, <1>4 DEF Sightings
<1>6. observed[s].quantity # 0
  BY <1>1, <1>5 DEF PresentNone
<1>7. ~(AtLeastOne(observed[s].quantity) < reference[s].quantity)
  BY <1>1, <1>5 DEF Lacking
<1>8. AtLeastOne(observed[s].quantity) = Units(observed[s].quantity)
  BY <1>2, <1>6 DEF AtLeastOne, Units, Unstated
<1> QED BY <1>5, <1>7, <1>8 DEF Seen

\* A listing that the snapshot calls COMPLETE the service calls COMPLETE, or sealed.
LEMMA SnapshotCompleteEvaluated ==
  ASSUME NEW reference \in Reference, NEW observed \in Observed, NEW profile \in Profile,
         SnapshotStatus(reference, observed, profile) = "COMPLETE"
  PROVE  Evaluated(reference, observed, profile) \in {"COMPLETE", "FACTORY_SEALED_EXCEPTION"}
<1>1. /\ Missing(reference, observed, profile) = {}
      /\ Required(reference) \cap Applicable(profile) # {}
  BY DEF SnapshotStatus
<1>2. Lacking(reference, observed, profile) = {}
  BY <1>1, LackingIsMissing
<1>3. \A s \in Required(reference) \cap Applicable(profile) : observed[s].state = "PRESENT"
  BY <1>1, NothingMissing
<1>4. Unverified(reference, observed) \cap Applicable(profile) = {}
  BY <1>3 DEF Unverified, In
<1>5. ~ \A s \in Applicable(profile) : reference[s].state \notin {"REQUIRED", "NOT_INCLUDED"}
  BY <1>1 DEF Required
<1> QED BY <1>2, <1>4, <1>5 DEF Evaluated

\* What the service calls INCOMPLETE the snapshot calls INCOMPLETE.
LEMMA EvaluatedIncompleteSnapshot ==
  ASSUME NEW reference \in Reference, NEW observed \in Observed, NEW profile \in Profile,
         Evaluated(reference, observed, profile) = "INCOMPLETE"
  PROVE  SnapshotStatus(reference, observed, profile) = "INCOMPLETE"
<1>1. Lacking(reference, observed, profile) # {}
  BY DEF Evaluated
<1>2. Missing(reference, observed, profile) # {}
  BY <1>1, LackingIsMissing
<1>3. Required(reference) \cap Applicable(profile) # {}
  BY <1>2 DEF Missing
<1> QED BY <1>2, <1>3 DEF SnapshotStatus

\* What the service calls COMPLETE the snapshot does not call INCOMPLETE, unless
\* something is present with the quantity 0.
LEMMA EvaluatedCompleteSnapshot ==
  ASSUME NEW reference \in Reference, NEW observed \in Observed, NEW profile \in Profile,
         Evaluated(reference, observed, profile) = "COMPLETE", PresentNone(observed) = {}
  PROVE  SnapshotStatus(reference, observed, profile) \in {"COMPLETE", "NO_VERIFIED_REFERENCE"}
<1>1. /\ Lacking(reference, observed, profile) = {}
      /\ Unverified(reference, observed) \cap Applicable(profile) = {}
  BY DEF Evaluated
<1>2. Missing(reference, observed, profile) = {}
  BY <1>1, NothingLacking
<1> QED BY <1>2 DEF SnapshotStatus

\* The view, where the media profile has every required component
LEMMA ViewAgrees ==
  ASSUME NEW reference \in Reference, NEW observed \in Observed, NEW profile \in Profile,
         Required(reference) \subseteq Applicable(profile)
  PROVE  /\ SnapshotStatus(reference, observed, profile) = "COMPLETE" =>
              ViewStatus(reference, observed) = "COMPLETE"
         /\ ViewStatus(reference, observed) = "INCOMPLETE" =>
              Evaluated(reference, observed, profile) = "INCOMPLETE"
<1>1. ASSUME SnapshotStatus(reference, observed, profile) = "COMPLETE"
      PROVE  ViewStatus(reference, observed) = "COMPLETE"
  <2>1. /\ Missing(reference, observed, profile) = {}
        /\ Required(reference) \cap Applicable(profile) # {}
    BY <1>1 DEF SnapshotStatus
  <2>2. \A s \in Required(reference) : observed[s].state = "PRESENT"
    BY <2>1, NothingMissing
  <2>3. Unverified(reference, observed) = {} /\ Required(reference) \cap In(observed, {"ABSENT"}) = {}
    BY <2>2 DEF Unverified, In
  <2> QED BY <2>1, <2>3 DEF ViewStatus
<1>2. ASSUME ViewStatus(reference, observed) = "INCOMPLETE"
      PROVE  Evaluated(reference, observed, profile) = "INCOMPLETE"
  <2>1. Required(reference) \cap In(observed, {"ABSENT"}) # {}
    BY <1>2 DEF ViewStatus
  <2>2. PICK s \in Required(reference) : s \in Slot /\ observed[s].state = "ABSENT"
    BY <2>1 DEF In
  <2>3. s \in Lacking(reference, observed, profile)
    BY <2>2 DEF Lacking
  <2>4. ~ \A x \in Applicable(profile) : reference[x].state \notin {"REQUIRED", "NOT_INCLUDED"}
    BY <2>2 DEF Required
  <2> QED BY <1>2, <2>3, <2>4 DEF Evaluated
<1> QED BY <1>1, <1>2

\* The snapshot function, the service and the view contradict each other on no tables.
THEOREM RulesAgree ==
  \A reference \in Reference, observed \in Observed, profile \in Profile :
    Agree(reference, observed, profile)
<1> TAKE reference \in Reference, observed \in Observed, profile \in Profile
<1>1. SnapshotStatus(reference, observed, profile) = "COMPLETE" =>
        Evaluated(reference, observed, profile) \in {"COMPLETE", "FACTORY_SEALED_EXCEPTION"}
  BY SnapshotCompleteEvaluated
<1>2. Evaluated(reference, observed, profile) = "INCOMPLETE" =>
        SnapshotStatus(reference, observed, profile) = "INCOMPLETE"
  BY EvaluatedIncompleteSnapshot
<1>3. Evaluated(reference, observed, profile) = "COMPLETE" /\ PresentNone(observed) = {} =>
        SnapshotStatus(reference, observed, profile) \in {"COMPLETE", "NO_VERIFIED_REFERENCE"}
  BY EvaluatedCompleteSnapshot
<1>4. Required(reference) \subseteq Applicable(profile) =>
        /\ SnapshotStatus(reference, observed, profile) = "COMPLETE" =>
             ViewStatus(reference, observed) = "COMPLETE"
        /\ ViewStatus(reference, observed) = "INCOMPLETE" =>
             Evaluated(reference, observed, profile) = "INCOMPLETE"
  BY ViewAgrees
<1> QED BY <1>1, <1>2, <1>3, <1>4 DEF Agree

\* So no listing, in any state whose tables are tables at all, is judged one way by one
\* evaluator and the opposite way by another.
THEOREM EvaluatorsNeverContradict == tables \in Tables => EvaluatorsAgree
<1> SUFFICES ASSUME tables \in Tables, NEW l \in Listing, tables.assigned[l] # None
             PROVE  Agree(tables.reference[tables.assigned[l]], tables.observed[l], tables.profile)
  BY DEF EvaluatorsAgree
<1>1. tables.assigned[l] \in Pressing
  BY DEF Tables
<1>2. /\ tables.reference[tables.assigned[l]] \in Reference
      /\ tables.observed[l] \in Observed /\ tables.profile \in Profile
  BY <1>1 DEF Tables
<1> QED BY <1>2, RulesAgree

-----------------------------------------------------------------------------
(* What a transaction at SERIALIZABLE knows of the tables.                 *)
(*                                                                         *)
(* done remembers what was committed since a transaction took its snapshot:*)
(* a row of the tables is either as the snapshot has it, or some k of done *)
(* wrote it.  The rest is what a transaction that has written holds: the   *)
(* locks that keep others off its rows until it commits.                   *)

Fields ==
  {"request", "phase", "token", "why", "at", "base", "past", "since", "mine", "added",
   "wrote", "reads", "met"}

\* Committed since the session took its snapshot
Since(s) == tx[s].since + 1 .. Len(done)
Changed(s, row) == \E k \in Since(s) : row \in done[k].wrote

Shaped(s) ==
  /\ DOMAIN tx[s] = Fields
  /\ tx[s].phase \in {"planned", "begun", "looked", "written"} => tx[s].request \in Requests
  /\ (/\ tx[s].phase \in {"planned", "begun", "looked", "written"}
      /\ tx[s].request.kind = "review")
     => tx[s].token.reference = [x \in Slot |-> tx[s].token.reference[x]]
  /\ tx[s].phase = "looked" => Serial(s)

\* It knows of everything plain that was committed since.
MetThem(s) ==
  Serial(s) /\ tx[s].phase \in {"looked", "written"} =>
    /\ tx[s].since \in 0 .. Len(done)
    /\ \A k \in Since(s) : done[k].serial \/ "plain" \in tx[s].met

SnapshotAges(s) ==
  tx[s].phase = "looked" =>
    /\ \A l \in Listing :
         tables.assigned[l] = tx[s].base.assigned[l] \/ Changed(s, <<"assigned", l>>)
    /\ \A p \in Pressing, x \in Slot :
         tables.reference[p][x] = tx[s].base.reference[p][x] \/ Changed(s, <<"reference", p, x>>)

\* A review that has written: the reference is what it reviewed, or changed since.
TokenAges(s) ==
  (tx[s].phase = "written" /\ tx[s].request.kind = "review") =>
    /\ \A x \in Slot :
         \/ tables.reference[tx[s].request.pressing][x] = tx[s].token.reference[x]
         \/ Changed(s, <<"reference", tx[s].request.pressing, x>>)
    /\ ReferenceRows(tx[s].request.pressing, Slot) \subseteq tx[s].reads
    /\ \E x \in Slot : <<"reference", tx[s].request.pressing, x>> \in tx[s].wrote

ObservedFits(s) ==
  (tx[s].phase = "written" /\ tx[s].request.kind = "observe") =>
    tables.assigned[tx[s].request.listing] = tx[s].request.pressing

\* What is written of a reference was read, the whole of it.
ReadsReference(wrote, reads) ==
  \A p \in Pressing, x \in Slot :
    <<"reference", p, x>> \in wrote => ReferenceRows(p, Slot) \subseteq reads

WroteWhatItRead(s) ==
  tx[s].phase = "written" /\ Serial(s) => ReadsReference(tx[s].wrote, tx[s].reads)

SessionOK(s) ==
  /\ Shaped(s) /\ MetThem(s) /\ SnapshotAges(s) /\ TokenAges(s) /\ ObservedFits(s)
  /\ WroteWhatItRead(s)

\* Of two transactions: they have met, and neither has what the other locks.
PairOK(s, o) ==
  /\ Open(s) /\ Open(o) /\ tx[o].request.kind \in Plain => "plain" \in tx[s].met
  /\ tx[s].phase = "written" /\ tx[o].phase = "written" =>
       Locks(tx[s].request) \cap tx[o].wrote = {}

CommonOK ==
  /\ DOMAIN tx = Session
  /\ \A p \in Pressing : tables.reference[p] = [x \in Slot |-> tables.reference[p][x]]
  /\ \E S : done \in Seq(S)
  /\ \A k \in 1 .. Len(done) : done[k].serial => ReadsReference(done[k].wrote, done[k].reads)

CallsInv ==
  /\ CommonOK
  /\ \A s \in Session : SessionOK(s)
  /\ \A s \in Session : \A o \in Others(s) : PairOK(s, o)


-----------------------------------------------------------------------------
(* The operators of a call, row by row                                     *)

\* Only calls on its reference write a pressing's rows, and among them the record
\* editor's alone ask for no isolation.
LEMMA ReferenceWrites ==
  ASSUME NEW r \in Requests, NEW rows, NEW p, NEW x, <<"reference", p, x>> \in Writes(r, rows)
  PROVE  \/ r.kind \in Plain
         \/ r.kind \in {"save", "guide", "review"} /\ p = r.pressing
<1>1. r \in Request
  BY CompletenessAssumption
<1>2. r.kind \in {"save", "review", "guide", "edit", "move", "restore", "observe", "seal", "unseal",
                  "fill", "profile", "assign"}
  BY <1>1 DEF Request
<1> DEFINE row == <<"reference", p, x>>
<1>3. row[1] = "reference" /\ row[2] = p
  OBVIOUS
<1>4. row \in Writes(r, rows)
  OBVIOUS
<1> HIDE DEF row
<1>5. CASE r.kind \in {"save", "review", "guide"}
  <2>1. PICK slots : row \in ReferenceRows(r.pressing, slots)
    BY <1>4, <1>5 DEF Writes
  <2>2. row[2] = r.pressing
    BY <2>1 DEF ReferenceRows
  <2> QED BY <1>3, <1>5, <2>2
<1>6. CASE r.kind \in {"observe", "seal", "unseal"}
  <2>1. PICK slots : row \in ObservedRows(r.listing, slots)
    BY <1>4, <1>6 DEF Writes
  <2>2. row[1] = "observed"
    BY <2>1 DEF ObservedRows
  <2> QED BY <1>3, <2>2
<1>7. CASE r.kind \in {"fill", "assign"}
  <2>1. row = <<"assigned", r.listing>>
    BY <1>4, <1>7 DEF Writes
  <2> QED BY <1>3, <2>1
<1>8. CASE r.kind = "profile"
  <2>1. row = <<"profile">>
    BY <1>4, <1>8 DEF Writes
  <2> QED BY <1>3, <2>1
<1>9. CASE r.kind \in {"edit", "move", "restore"}
  BY <1>9 DEF Plain
<1> QED BY <1>2, <1>5, <1>6, <1>7, <1>8, <1>9

\* A call at SERIALIZABLE that writes of a reference has read it all.
LEMMA ReferenceReads ==
  ASSUME NEW r \in Requests, r.kind \in {"save", "guide", "review"}, NEW work
  PROVE  ReferenceRows(r.pressing, Slot) \subseteq Reads(r, work)
BY DEF Reads

LEMMA CallReads ==
  ASSUME NEW r \in Requests, NEW rows, NEW work, r.kind \notin Plain
  PROVE  ReadsReference(Writes(r, rows), Reads(r, work))
<1> SUFFICES ASSUME NEW p \in Pressing, NEW x \in Slot,
                    <<"reference", p, x>> \in Writes(r, rows)
             PROVE  ReferenceRows(p, Slot) \subseteq Reads(r, work)
  BY DEF ReadsReference
<1>1. r.kind \in {"save", "guide", "review"} /\ p = r.pressing
  BY ReferenceWrites
<1> QED BY <1>1, ReferenceReads

\* What an observation that is not refused has found
LEMMA ObserveNotRefused ==
  ASSUME NEW r, NEW rows, NEW token, r.kind = "observe", Refusal(r, rows, token) = "none"
  PROVE  rows.assigned[r.listing] = r.pressing
<1>1. ~Stale(r, rows, token)
  BY DEF Stale, Reviewed
<1> SUFFICES ASSUME rows.assigned[r.listing] # r.pressing PROVE FALSE
  OBVIOUS
<1>2. Refusal(r, rows, token) = "moved"
  BY <1>1 DEF Refusal
<1> QED BY <1>2

\* What a review that is not refused has found
LEMMA ReviewNotRefused ==
  ASSUME NEW r, NEW rows, NEW token, r.kind = "review", Refusal(r, rows, token) = "none"
  PROVE  token.reference = rows.reference[r.pressing] /\ r.slots # {}
<1>1. ~Stale(r, rows, token)
  <2> SUFFICES ASSUME Stale(r, rows, token) PROVE FALSE
    OBVIOUS
  <2>1. Refusal(r, rows, token) \in {"stale", "blocked"}
    BY DEF Refusal
  <2> QED BY <2>1
<1>2. token = Token(r, rows)
  BY <1>1 DEF Stale, Reviewed
<1>3. r.slots # {}
  <2> SUFFICES ASSUME r.slots = {} PROVE FALSE
    OBVIOUS
  <2>1. Refusal(r, rows, token) = "blocked"
    BY <1>1 DEF Refusal
  <2> QED BY <2>1
<1> QED BY <1>2, <1>3 DEF Token

\* One transaction more in done
LEMMA DoneGrows ==
  ASSUME NEW S, done \in Seq(S), NEW e, done' = Append(done, e)
  PROVE  /\ \E T : done' \in Seq(T)
         /\ Len(done') = Len(done) + 1 /\ Len(done) \in Nat
         /\ \A k \in 1 .. Len(done) : done'[k] = done[k]
         /\ done'[Len(done) + 1] = e
<1> DEFINE T == S \cup {e}
<1>1. Len(done) \in Nat /\ done \in [1 .. Len(done) -> S]
  OBVIOUS
<1>2. done \in Seq(T)
  BY <1>1
<1>3. Append(done, e) \in Seq(T)
  BY <1>2
<1> QED BY <1>1, <1>2, <1>3

-----------------------------------------------------------------------------
(* A transaction that stays as it is *)

\* When the tables and done do not change, and of the transaction at most met grows
LEMMA Unmoved ==
  ASSUME NEW s, SessionOK(s), tables' = tables, done' = done, DOMAIN tx'[s] = Fields,
         tx'[s].phase = tx[s].phase, tx'[s].request = tx[s].request,
         tx'[s].token = tx[s].token, tx'[s].base = tx[s].base, tx'[s].since = tx[s].since,
         tx'[s].wrote = tx[s].wrote, tx'[s].reads = tx[s].reads, tx[s].met \subseteq tx'[s].met
  PROVE  SessionOK(s)'
<1> USE DEF SessionOK
<1>1. Since(s)' = Since(s) /\ Serial(s)' = Serial(s) /\ \A row : Changed(s, row)' = Changed(s, row)
  BY DEF Since, Changed, Serial
<1>2. Shaped(s)'
  BY <1>1 DEF Shaped
<1>3. MetThem(s)'
  BY <1>1 DEF MetThem
<1>4. SnapshotAges(s)'
  BY <1>1 DEF SnapshotAges
<1>5. TokenAges(s)'
  BY <1>1 DEF TokenAges
<1>6. ObservedFits(s)'
  BY DEF ObservedFits
<1>7. WroteWhatItRead(s)'
  BY <1>1 DEF WroteWhatItRead
<1> QED BY <1>2, <1>3, <1>4, <1>5, <1>6, <1>7

\* A transaction that has neither looked nor written
LEMMA Young ==
  ASSUME NEW s, Shaped(s)', tx'[s].phase \notin {"looked", "written"}
  PROVE  SessionOK(s)'
BY DEF SessionOK, MetThem, SnapshotAges, TokenAges, ObservedFits, WroteWhatItRead

LEMMA CommonStays ==
  ASSUME CommonOK, tables' = tables, done' = done, DOMAIN tx' = Session
  PROVE  CommonOK'
BY DEF CommonOK

\* Two that stay as they are, but for what they have met
LEMMA PairStays ==
  ASSUME NEW s, NEW o, PairOK(s, o),
         tx'[s].phase = tx[s].phase, tx'[s].request = tx[s].request,
         tx'[s].wrote = tx[s].wrote, tx[s].met \subseteq tx'[s].met,
         tx'[o].phase = tx[o].phase, tx'[o].request = tx[o].request,
         tx'[o].wrote = tx[o].wrote
  PROVE  PairOK(s, o)'
BY DEF PairOK, Open

\* A transaction that is closed gets in nobody's way.
LEMMA PairClosed ==
  ASSUME NEW s, NEW o, tx'[s].phase \notin {"begun", "looked", "written"}
  PROVE  PairOK(s, o)' /\ PairOK(o, s)'
BY DEF PairOK, Open

\* One of the two goes on, and does not write.
LEMMA PairOpens ==
  ASSUME NEW s, NEW o, PairOK(s, o), PairOK(o, s), Open(s),
         tx'[s].phase \in {"begun", "looked"}, tx'[s].request = tx[s].request,
         tx'[s].met = tx[s].met, tx'[o] = tx[o]
  PROVE  PairOK(s, o)' /\ PairOK(o, s)'
BY DEF PairOK, Open

-----------------------------------------------------------------------------
(* The steps *)

\* A step of one session that leaves the tables alone
LEMMA OneMoves ==
  ASSUME CallsInv, NEW s \in Session, tables' = tables, done' = done, DOMAIN tx' = Session,
         \A o \in Others(s) : tx'[o] = tx[o], SessionOK(s)',
         \A o \in Others(s) : PairOK(s, o)' /\ PairOK(o, s)'
  PROVE  CallsInv'
<1>1. CommonOK'
  BY CommonStays DEF CallsInv
<1>2. ASSUME NEW o \in Session
      PROVE  SessionOK(o)'
  <2>1. CASE o = s
    BY <2>1
  <2>2. CASE o # s
    <3>1. SessionOK(o) /\ tx'[o] = tx[o]
      BY <2>2 DEF CallsInv, Others
    <3>2. DOMAIN tx'[o] = Fields
      BY <3>1 DEF SessionOK, Shaped
    <3> QED BY <3>1, <3>2, Unmoved
  <2> QED BY <2>1, <2>2
<1>3. ASSUME NEW o \in Session, NEW q \in Others(o)
      PROVE  PairOK(o, q)'
  <2>1. CASE o = s
    BY <2>1
  <2>2. CASE q = s
    BY <2>2 DEF Others
  <2>3. CASE o # s /\ q # s
    <3>1. PairOK(o, q) /\ tx'[o] = tx[o] /\ tx'[q] = tx[q]
      BY <2>3 DEF CallsInv, Others
    <3> QED BY <3>1, PairStays
  <2> QED BY <2>1, <2>2, <2>3
<1> QED BY <1>1, <1>2, <1>3 DEF CallsInv, Others

LEMMA SessionTypes ==
  ASSUME CallsInv, NEW s \in Session
  PROVE  /\ s \in DOMAIN tx /\ DOMAIN tx[s] = Fields
         /\ SessionOK(s)
         /\ tx[s].phase \in {"planned", "begun", "looked", "written"} => tx[s].request \in Requests
BY DEF CallsInv, CommonOK, SessionOK, Shaped

\* A closed or raised transaction
LEMMA Closes ==
  ASSUME CallsInv, NEW s \in Session, tables' = tables, done' = done,
         NEW t, DOMAIN t = Fields, t.phase \in {"idle", "raised"}, tx' = [tx EXCEPT ![s] = t]
  PROVE  CallsInv'
<1>1. /\ DOMAIN tx' = Session /\ tx'[s] = t
      /\ \A o \in Others(s) : tx'[o] = tx[o]
  BY SessionTypes DEF CallsInv, CommonOK, Others
<1>2. Shaped(s)'
  BY <1>1 DEF Shaped
<1>3. SessionOK(s)'
  BY <1>1, <1>2, Young
<1>4. \A o \in Others(s) : PairOK(s, o)' /\ PairOK(o, s)'
  BY <1>1, PairClosed
<1> QED BY <1>1, <1>3, <1>4, OneMoves

LEMMA IdleShape == DOMAIN Idle = Fields /\ Idle.phase = "idle"
BY DEF Idle, Fields

LEMMA RaisedShape ==
  ASSUME NEW q, NEW why
  PROVE  LET t == [Idle EXCEPT !.request = q, !.phase = "raised", !.why = why]
         IN  DOMAIN t = Fields /\ t.phase = "raised"
BY DEF Idle, Fields

LEMMA PreviewKeeps ==
  ASSUME CallsInv, NEW s \in Session, NEW r \in Requests, Preview(s, r)
  PROVE  CallsInv'
<1> DEFINE t == [tx[s] EXCEPT !.request = r, !.phase = "planned", !.token = Token(r, tables)]
<1>1. tx' = [tx EXCEPT ![s] = t] /\ tables' = tables /\ done' = done
  BY DEF Preview
<1>2. /\ DOMAIN tx' = Session /\ tx'[s] = t
      /\ \A o \in Others(s) : tx'[o] = tx[o]
  BY <1>1, SessionTypes DEF CallsInv, CommonOK, Others
<1>3. /\ DOMAIN t = Fields /\ t.phase = "planned" /\ t.request = r
      /\ t.token = Token(r, tables)
  BY SessionTypes DEF Fields
<1> HIDE DEF t
<1>4. r.kind = "review" => t.token.reference = [x \in Slot |-> t.token.reference[x]]
  <2> SUFFICES ASSUME r.kind = "review" PROVE t.token.reference = [x \in Slot |-> t.token.reference[x]]
    OBVIOUS
  <2>1. r.pressing \in Pressing
    BY CompletenessAssumption
  <2>2. t.token.reference = tables.reference[r.pressing]
    BY <1>3 DEF Token
  <2> QED BY <2>1, <2>2 DEF CallsInv, CommonOK
<1>5. Shaped(s)'
  BY <1>2, <1>3, <1>4 DEF Shaped
<1>6. SessionOK(s)'
  BY <1>2, <1>3, <1>5, Young
<1>7. \A o \in Others(s) : PairOK(s, o)' /\ PairOK(o, s)'
  BY <1>2, <1>3, PairClosed
<1> QED BY <1>1, <1>2, <1>6, <1>7, OneMoves

LEMMA LookKeeps ==
  ASSUME CallsInv, NEW s \in Session, Look(s)
  PROVE  CallsInv'
<1> DEFINE t == [tx[s] EXCEPT !.phase = "looked", !.base = tables, !.past = history,
                              !.since = Len(done)]
<1>1. tx' = [tx EXCEPT ![s] = t] /\ tables' = tables /\ done' = done /\ tx[s].phase = "begun"
  BY DEF Look
<1>2. /\ DOMAIN tx' = Session /\ tx'[s] = t
      /\ \A o \in Others(s) : tx'[o] = tx[o]
  BY <1>1, SessionTypes DEF CallsInv, CommonOK, Others
<1>3. /\ DOMAIN t = Fields /\ t.phase = "looked" /\ t.request = tx[s].request
      /\ t.token = tx[s].token /\ t.base = tables /\ t.since = Len(done)
      /\ t.met = tx[s].met
  BY SessionTypes DEF Fields
<1> HIDE DEF t
<1>4. Shaped(s)'
  <2>1. Serial(s)'
    BY <1>2, <1>3 DEF Look, Serial
  <2> QED BY <1>1, <1>2, <1>3, <2>1, SessionTypes DEF SessionOK, Shaped
<1>5. Len(done) \in Nat
  BY DEF CallsInv, CommonOK
<1>6. MetThem(s)'
  <2>1. tx'[s].since = Len(done) /\ Len(done') = Len(done)
    BY <1>1, <1>2, <1>3
  <2>2. Since(s)' = {}
    BY <1>5, <2>1 DEF Since
  <2>3. tx'[s].since \in 0 .. Len(done')
    BY <1>5, <2>1
  <2> QED BY <2>2, <2>3 DEF MetThem
<1>7. SnapshotAges(s)'
  BY <1>1, <1>2, <1>3 DEF SnapshotAges
<1>8. TokenAges(s)' /\ ObservedFits(s)' /\ WroteWhatItRead(s)'
  BY <1>2, <1>3 DEF TokenAges, ObservedFits, WroteWhatItRead
<1>9. SessionOK(s)'
  BY <1>4, <1>6, <1>7, <1>8 DEF SessionOK
<1>10. \A o \in Others(s) : PairOK(s, o)' /\ PairOK(o, s)'
  <2> TAKE o \in Others(s)
  <2>1. PairOK(s, o) /\ PairOK(o, s)
    BY DEF CallsInv, Others
  <2>2. Open(s) /\ tx'[o] = tx[o]
    BY <1>1, <1>2 DEF Open
  <2> QED BY <1>2, <1>3, <2>1, <2>2, PairOpens
<1> QED BY <1>1, <1>2, <1>9, <1>10, OneMoves

LEMMA BeginKeeps ==
  ASSUME CallsInv, NEW s \in Session, NEW r \in Requests, Begin(s, r)
  PROVE  CallsInv'
<1> DEFINE met == {Standing(q) : q \in {q \in Others(s) : Open(q)}}
           t == [tx[s] EXCEPT !.request = r, !.phase = "begun", !.at = begun + 1, !.met = met]
           Meets(o) == [tx[o] EXCEPT !.met = @ \cup {IF r.kind \in Plain THEN "plain" ELSE "isolated"}]
<1>1. /\ tx' = [o \in Session |-> IF o = s THEN t ELSE IF Open(o) THEN Meets(o) ELSE tx[o]]
      /\ tables' = tables /\ done' = done
  BY DEF Begin
<1>2. /\ DOMAIN tx' = Session /\ tx'[s] = t
      /\ \A o \in Others(s) : tx'[o] = IF Open(o) THEN Meets(o) ELSE tx[o]
  BY <1>1 DEF Others
<1>3. /\ DOMAIN t = Fields /\ t.phase = "begun" /\ t.request = r /\ t.token = tx[s].token
      /\ t.met = met
  BY SessionTypes DEF Fields
<1>4. ASSUME NEW o \in Others(s)
      PROVE  /\ DOMAIN tx'[o] = Fields
             /\ tx'[o].phase = tx[o].phase /\ tx'[o].request = tx[o].request
             /\ tx'[o].token = tx[o].token /\ tx'[o].base = tx[o].base
             /\ tx'[o].since = tx[o].since /\ tx'[o].wrote = tx[o].wrote
             /\ tx'[o].reads = tx[o].reads /\ tx[o].met \subseteq tx'[o].met
             /\ Open(o) /\ r.kind \in Plain => "plain" \in tx'[o].met
  <2>1. DOMAIN tx[o] = Fields
    BY SessionTypes DEF Others
  <2>2. CASE Open(o)
    <3>1. tx'[o] = Meets(o)
      BY <1>2, <2>2
    <3>2. tx'[o].met = tx[o].met \cup {IF r.kind \in Plain THEN "plain" ELSE "isolated"}
      BY <2>1, <3>1 DEF Fields
    <3> QED BY <2>1, <3>1, <3>2 DEF Fields
  <2>3. CASE ~Open(o)
    BY <1>2, <2>1, <2>3
  <2> QED BY <2>2, <2>3
<1> HIDE DEF t, Meets
<1>5. CommonOK'
  BY <1>1, <1>2, CommonStays DEF CallsInv
<1>6. Shaped(s)'
  <2>1. CASE tx[s] = Idle /\ r.kind \notin Reviewed
    BY <1>2, <1>3, <2>1 DEF Shaped, Reviewed
  <2>2. CASE tx[s].phase = "planned" /\ r = tx[s].request
    BY <1>2, <1>3, <2>2, SessionTypes DEF SessionOK, Shaped
  <2> QED BY <2>1, <2>2 DEF Begin
<1>7. SessionOK(s)'
  BY <1>2, <1>3, <1>6, Young
<1>8. ASSUME NEW o \in Others(s)
      PROVE  SessionOK(o)'
  <2>1. SessionOK(o)
    BY DEF CallsInv, Others
  <2> QED BY <1>1, <1>4, <2>1, Unmoved
<1>9. ASSUME NEW o \in Others(s)
      PROVE  PairOK(s, o)' /\ PairOK(o, s)'
  <2>1. tx'[s].phase = "begun" /\ tx'[s].request = r /\ tx'[s].met = met
    BY <1>2, <1>3
  <2>2. Open(o)' => Open(o)
    BY <1>4 DEF Open
  <2>3. Open(o) /\ tx'[o].request.kind \in Plain => "plain" \in met
    BY <1>4 DEF Standing
  <2> HIDE DEF met
  <2> QED BY <1>4, <2>1, <2>2, <2>3 DEF PairOK
<1>10. ASSUME NEW o \in Others(s), NEW q \in Others(s), q # o
       PROVE  PairOK(o, q)'
  <2>1. PairOK(o, q)
    BY <1>10 DEF CallsInv, Others
  <2> QED BY <1>4, <2>1, PairStays
<1> QED BY <1>5, <1>7, <1>8, <1>9, <1>10 DEF CallsInv, Others

-----------------------------------------------------------------------------
(* The write *)

\* What a write that raises nothing leaves of its transaction
LEMMA WriteEffect ==
  ASSUME CallsInv, NEW s \in Session, Write(s), ~ \E w : tx' = Raised(s, w)
  PROVE  \E rows, work :
           /\ Serial(s) => rows = tx[s].base /\ tx[s].phase = "looked"
           /\ ~Serial(s) => tx[s].phase = "begun"
           /\ Unlocked(s, rows)
           /\ ~Conflicts(s, rows)
           /\ Refusal(tx[s].request, rows, tx[s].token) = "none"
           /\ tables' = tables /\ done' = done /\ DOMAIN tx' = Session
           /\ \A o \in Others(s) : tx'[o] = tx[o]
           /\ DOMAIN tx'[s] = Fields /\ tx'[s].phase = "written"
           /\ tx'[s].request = tx[s].request /\ tx'[s].token = tx[s].token
           /\ tx'[s].since = tx[s].since /\ tx'[s].met = tx[s].met
           /\ tx'[s].wrote = Writes(tx[s].request, rows)
           /\ Serial(s) => tx'[s].reads = Reads(tx[s].request, work)
<1> DEFINE u == tx[s]
           rows == IF Serial(s) THEN u.base ELSE tables
           work == Worked(u.request, [tables |-> rows, history |-> IF Serial(s) THEN u.past ELSE history,
                                      added |-> {}, captured |-> {}, id |-> nextId, at |-> u.at])
           why == IF Conflicts(s, rows) THEN "conflict" ELSE Refusal(u.request, rows, u.token)
           wrote == Writes(u.request, rows)
           seen == IF Serial(s) THEN Reads(u.request, work) ELSE {}
           t == [u EXCEPT !.phase = "written", !.base = {}, !.past = {}, !.mine = work.tables,
                          !.added = work.added, !.wrote = wrote, !.reads = seen]
<1>1. /\ u.phase = IF Serial(s) THEN "looked" ELSE "begun"
      /\ Unlocked(s, rows)
      /\ tables' = tables /\ done' = done
  BY DEF Write
<1>2. \/ \E w : tx' = Raised(s, w)
      \/ why = "none" /\ tx' = [tx EXCEPT ![s] = t]
  BY DEF Write
<1> HIDE DEF rows, work, wrote, seen
<1>3. why = "none" /\ tx' = [tx EXCEPT ![s] = t]
  BY <1>2
<1>4. /\ DOMAIN tx' = Session /\ tx'[s] = t
      /\ \A o \in Others(s) : tx'[o] = tx[o]
  BY <1>3, SessionTypes DEF CallsInv, CommonOK, Others
<1>5. /\ DOMAIN t = Fields /\ t.phase = "written" /\ t.request = u.request /\ t.token = u.token
      /\ t.since = u.since /\ t.met = u.met /\ t.wrote = wrote /\ t.reads = seen
  BY SessionTypes DEF Fields
<1> HIDE DEF t
<1>6. ~Conflicts(s, rows) /\ Refusal(u.request, rows, u.token) = "none"
  BY <1>3
<1>7. /\ Serial(s) => rows = tx[s].base
      /\ Serial(s) => seen = Reads(u.request, work)
      /\ wrote = Writes(u.request, rows)
  BY DEF rows, seen, wrote
<1> QED BY <1>1, <1>4, <1>5, <1>6, <1>7

\* A review has found what its token says.
LEMMA ReviewWrites ==
  ASSUME CallsInv, NEW s \in Session, tx[s].phase = "looked", tx[s].request.kind = "review",
         tables' = tables, done' = done, tx'[s].request = tx[s].request,
         tx'[s].token = tx[s].token, tx'[s].since = tx[s].since,
         tx'[s].wrote = Writes(tx[s].request, tx[s].base),
         NEW work, tx'[s].reads = Reads(tx[s].request, work),
         Refusal(tx[s].request, tx[s].base, tx[s].token) = "none"
  PROVE  TokenAges(s)'
<1> DEFINE r == tx[s].request
<1>1. r \in Requests /\ r \in Request /\ r.pressing \in Pressing
  BY SessionTypes, CompletenessAssumption
<1>2. tx[s].token.reference = tx[s].base.reference[r.pressing] /\ r.slots # {}
  BY ReviewNotRefused
<1>3. SnapshotAges(s)
  BY DEF CallsInv, SessionOK
<1>4. \A row : Changed(s, row)' = Changed(s, row)
  BY DEF Changed, Since
<1>5. ASSUME NEW x \in Slot
      PROVE  \/ tables'.reference[r.pressing][x] = tx'[s].token.reference[x]
             \/ Changed(s, <<"reference", r.pressing, x>>)'
  BY <1>1, <1>2, <1>3, <1>4 DEF SnapshotAges
<1>6. ReferenceRows(r.pressing, Slot) \subseteq tx'[s].reads
  BY <1>1, ReferenceReads
<1>7. \E x \in Slot : <<"reference", r.pressing, x>> \in tx'[s].wrote
  <2>1. tx'[s].wrote = ReferenceRows(r.pressing, r.slots)
    BY DEF Writes
  <2>2. r.slots \subseteq Slot
    BY <1>1 DEF Request
  <2> QED BY <1>2, <2>1, <2>2 DEF ReferenceRows
<1> QED BY <1>5, <1>6, <1>7 DEF TokenAges

\* An observation has found the listing on its pressing, and nobody has moved it since.
LEMMA ObserveWrites ==
  ASSUME CallsInv, NEW s \in Session, tx[s].phase = "looked", tx[s].request.kind = "observe",
         tables' = tables, tx'[s].request = tx[s].request,
         ~Conflicts(s, tx[s].base),
         Refusal(tx[s].request, tx[s].base, tx[s].token) = "none"
  PROVE  ObservedFits(s)'
<1> DEFINE r == tx[s].request
<1>1. r \in Requests /\ r.listing \in Listing
  BY SessionTypes, CompletenessAssumption
<1>2. tx[s].base.assigned[r.listing] = r.pressing
  BY ObserveNotRefused
<1>3. Serial(s)
  BY DEF Serial, IsolationOf, Plain
<1>4. <<"assigned", r.listing>> \in Locks(r)
  BY DEF Locks
<1>5. ~Changed(s, <<"assigned", r.listing>>)
  BY <1>3, <1>4 DEF Conflicts, Changed, Since
<1>6. SnapshotAges(s)
  BY DEF CallsInv, SessionOK
<1>7. tables.assigned[r.listing] = r.pressing
  BY <1>1, <1>2, <1>5, <1>6 DEF SnapshotAges
<1> QED BY <1>7 DEF ObservedFits

LEMMA WriteKeeps ==
  ASSUME CallsInv, NEW s \in Session, Write(s)
  PROVE  CallsInv'
<1>1. CASE \E w : tx' = Raised(s, w)
  <2>1. PICK w : tx' = Raised(s, w)
    BY <1>1
  <2> DEFINE t == [Idle EXCEPT !.request = tx[s].request, !.phase = "raised", !.why = w]
  <2>2. tx' = [tx EXCEPT ![s] = t]
    BY <2>1 DEF Raised
  <2>3. DOMAIN t = Fields /\ t.phase = "raised"
    BY RaisedShape
  <2>4. tables' = tables /\ done' = done
    BY DEF Write
  <2> HIDE DEF t
  <2> QED BY <2>2, <2>3, <2>4, Closes
<1>2. CASE ~ \E w : tx' = Raised(s, w)
  <2> DEFINE r == tx[s].request
  <2>1. PICK rows, work :
           /\ Serial(s) => rows = tx[s].base /\ tx[s].phase = "looked"
           /\ ~Serial(s) => tx[s].phase = "begun"
           /\ Unlocked(s, rows)
           /\ ~Conflicts(s, rows)
           /\ Refusal(tx[s].request, rows, tx[s].token) = "none"
           /\ tables' = tables /\ done' = done /\ DOMAIN tx' = Session
           /\ \A o \in Others(s) : tx'[o] = tx[o]
           /\ DOMAIN tx'[s] = Fields /\ tx'[s].phase = "written"
           /\ tx'[s].request = tx[s].request /\ tx'[s].token = tx[s].token
           /\ tx'[s].since = tx[s].since /\ tx'[s].met = tx[s].met
           /\ tx'[s].wrote = Writes(tx[s].request, rows)
           /\ Serial(s) => tx'[s].reads = Reads(tx[s].request, work)
    BY <1>2, WriteEffect
  <2>2. tx'[s].phase = "written"
    BY <2>1
  <2>3. r \in Requests /\ Open(s)
    BY <2>1, SessionTypes DEF Open
  <2>4. Serial(s)' = Serial(s) /\ Since(s)' = Since(s)
    BY <2>1 DEF Serial, Since
  <2>5. Shaped(s)'
    BY <2>2, <2>1, <2>3, SessionTypes DEF SessionOK, Shaped, Open
  <2>6. MetThem(s)'
    BY <2>1, <2>4, SessionTypes DEF SessionOK, MetThem
  <2>7. SnapshotAges(s)'
    BY <2>2 DEF SnapshotAges
  <2>8. TokenAges(s)'
    <3>1. CASE r.kind = "review"
      <4>1. Serial(s)
        BY <3>1 DEF Serial, IsolationOf, Plain
      <4> QED BY <2>1, <3>1, <4>1, ReviewWrites
    <3>2. CASE r.kind # "review"
      BY <2>1, <3>2 DEF TokenAges
    <3> QED BY <3>1, <3>2
  <2>9. ObservedFits(s)'
    <3>1. CASE r.kind = "observe"
      <4>1. Serial(s)
        BY <3>1 DEF Serial, IsolationOf, Plain
      <4> QED BY <2>1, <3>1, <4>1, ObserveWrites
    <3>2. CASE r.kind # "observe"
      BY <2>1, <3>2 DEF ObservedFits
    <3> QED BY <3>1, <3>2
  <2>10. WroteWhatItRead(s)'
    <3>1. Serial(s) => r.kind \notin Plain
      BY DEF Serial, IsolationOf
    <3> QED BY <2>1, <2>3, <2>4, <3>1, CallReads DEF WroteWhatItRead
  <2>11. SessionOK(s)'
    BY <2>5, <2>6, <2>7, <2>8, <2>9, <2>10 DEF SessionOK
  <2>12. ASSUME NEW o \in Others(s)
         PROVE  PairOK(s, o)' /\ PairOK(o, s)'
    <3>1. PairOK(s, o) /\ PairOK(o, s)
      BY DEF CallsInv, Others
    <3>2. tx[o].phase = "written" => (Writes(r, rows) \cup Locks(r)) \cap (tx[o].wrote \cup Locks(tx[o].request)) = {}
      BY <2>1 DEF Unlocked
    <3>3. /\ tx'[o] = tx[o] /\ tx'[s].request = r /\ tx'[s].met = tx[s].met
          /\ tx'[s].wrote = Writes(r, rows)
      BY <2>1
    <3>4. Open(o)' = Open(o) /\ Open(s)
      BY <2>3, <3>3 DEF Open
    <3>5. Open(o) => /\ tx'[o].request.kind \in Plain => "plain" \in tx'[s].met
                     /\ tx'[s].request.kind \in Plain => "plain" \in tx'[o].met
      BY <3>1, <3>3, <3>4 DEF PairOK
    <3>6. tx'[o].phase = "written" => Locks(tx'[s].request) \cap tx'[o].wrote = {} /\ Locks(tx'[o].request) \cap tx'[s].wrote = {}
      BY <3>2, <3>3
    <3> QED BY <3>4, <3>5, <3>6 DEF PairOK
  <2> QED BY <2>1, <2>11, <2>12, OneMoves
<1> QED BY <1>1, <1>2

-----------------------------------------------------------------------------
(* The commit *)

\* What the commit of s leaves of the rows it did not write
LEMMA MergedKeeps ==
  ASSUME NEW mine, NEW wrote
  PROVE  LET m == Merged(mine, wrote)
         IN  /\ \A l \in Listing : <<"assigned", l>> \notin wrote =>
                  m.assigned[l] = tables.assigned[l]
             /\ \A p \in Pressing, x \in Slot : <<"reference", p, x>> \notin wrote =>
                  m.reference[p][x] = tables.reference[p][x]
             /\ \A p \in Pressing : m.reference[p] = [x \in Slot |-> m.reference[p][x]]
BY DEF Merged

\* Of a pressing's rows the footprint names those that were written.
LEMMA FootprintOfReference ==
  ASSUME NEW s, NEW p, NEW x, <<"reference", p, x>> \in Footprint(s)
  PROVE  <<"reference", p, x>> \in tx[s].wrote
<1> DEFINE row == <<"reference", p, x>>
<1>1. row[1] = "reference" /\ row \in Footprint(s)
  OBVIOUS
<1> HIDE DEF row
<1>2. \A l : row # <<"history", l>> /\ row # <<"assigned to", l>>
  <2> TAKE l
  <2>1. <<"history", l>>[1] = "history" /\ <<"assigned to", l>>[1] = "assigned to"
    OBVIOUS
  <2> QED BY <1>1, <2>1
<1>3. row \in tx[s].wrote
  BY <1>1, <1>2 DEF Footprint
<1> QED BY <1>3 DEF row

\* The effect of a commit that is not refused
LEMMA CommitEffect ==
  ASSUME CallsInv, NEW s \in Session, Commit(s), tx' = Close(s)
  PROVE  /\ tx[s].phase = "written" /\ ~(Serial(s) /\ Dangerous(s))
         /\ tables' = Merged(tx[s].mine, tx[s].wrote)
         /\ DOMAIN tx' = Session /\ tx'[s] = Idle
         /\ \A o \in Others(s) : tx'[o] = tx[o]
         /\ done' = IF \E o \in Others(s) : Open(o)
                    THEN Append(done, [serial |-> Serial(s), since |-> tx[s].since,
                                       wrote |-> Footprint(s), reads |-> tx[s].reads])
                    ELSE << >>
<1>1. DOMAIN tx' = Session /\ tx'[s] = Idle /\ \A o \in Others(s) : tx'[o] = tx[o]
  BY SessionTypes DEF Close, CallsInv, CommonOK, Others
<1>2. ~ \E w : tx' = Raised(s, w)
  <2> SUFFICES ASSUME NEW w, tx' = Raised(s, w) PROVE FALSE
    OBVIOUS
  <2>1. tx'[s] = [Idle EXCEPT !.request = tx[s].request, !.phase = "raised", !.why = w]
    BY SessionTypes DEF Raised
  <2>2. tx'[s].phase = "raised"
    BY <2>1, RaisedShape
  <2> QED BY <1>1, <2>2, IdleShape
<1>3. tx[s].phase = "written"
  BY DEF Commit
<1>4. ~(Serial(s) /\ Dangerous(s))
  BY <1>2 DEF Commit
<1> QED BY <1>1, <1>3, <1>4 DEF Commit

\* Done with one entry more, or forgotten, for nobody is left whom it concerns
LEMMA CommitGrows ==
  ASSUME CallsInv, NEW s \in Session, Commit(s), tx' = Close(s),
         NEW o \in Others(s), Open(o)
  PROVE  /\ Len(done') = Len(done) + 1 /\ Len(done) \in Nat
         /\ \A k \in 1 .. Len(done) : done'[k] = done[k]
         /\ done'[Len(done) + 1].serial = Serial(s)
         /\ done'[Len(done) + 1].wrote = Footprint(s)
<1> DEFINE e == [serial |-> Serial(s), since |-> tx[s].since,
                 wrote |-> Footprint(s), reads |-> tx[s].reads]
<1>1. done' = Append(done, e)
  BY CommitEffect
<1>2. e.serial = Serial(s) /\ e.wrote = Footprint(s)
  OBVIOUS
<1> HIDE DEF e
<1>3. PICK S : done \in Seq(S)
  BY DEF CallsInv, CommonOK
<1> QED BY <1>1, <1>2, <1>3, DoneGrows

\* An open transaction sees the commit of another as one more of done.
LEMMA CommitSeen ==
  ASSUME CallsInv, NEW s \in Session, Commit(s), tx' = Close(s),
         NEW o \in Others(s), Open(o)
  PROVE  SessionOK(o)'
<1>1. tx'[o] = tx[o] /\ SessionOK(o) /\ DOMAIN tx[o] = Fields
  BY CommitEffect, SessionTypes DEF Others
<1>2. tables' = Merged(tx[s].mine, tx[s].wrote) /\ tx[s].phase = "written" /\ Open(s)
  BY CommitEffect DEF Open
<1> DEFINE n == Len(done) + 1
<1>3. /\ Len(done') = n /\ Len(done) \in Nat
      /\ \A k \in 1 .. Len(done) : done'[k] = done[k]
      /\ done'[n].serial = Serial(s) /\ done'[n].wrote = Footprint(s)
  BY CommitGrows
<1>4. tx[o].since \in 0 .. Len(done) /\ Serial(o) /\ tx[o].phase \in {"looked", "written"} =>
        \A row : Changed(o, row)' <=> Changed(o, row) \/ row \in Footprint(s)
  <2> SUFFICES ASSUME tx[o].since \in 0 .. Len(done), NEW row
               PROVE  Changed(o, row)' <=> Changed(o, row) \/ row \in Footprint(s)
    OBVIOUS
  <2>1. Since(o)' = Since(o) \cup {n} /\ Since(o) \subseteq 1 .. Len(done)
    BY <1>1, <1>3 DEF Since
  <2>2. Changed(o, row)' <=> \E k \in Since(o) \cup {n} : row \in done'[k].wrote
    BY <2>1 DEF Changed
  <2>3. Changed(o, row) <=> \E k \in Since(o) : row \in done[k].wrote
    BY DEF Changed
  <2>4. \A k \in Since(o) : done'[k] = done[k]
    BY <1>3, <2>1
  <2> HIDE DEF n
  <2> QED BY <1>3, <2>2, <2>3, <2>4
<1>5. Shaped(o)'
  BY <1>1 DEF SessionOK, Shaped, Serial
<1>6. MetThem(o)'
  <2> SUFFICES ASSUME Serial(o), tx[o].phase \in {"looked", "written"}
               PROVE  /\ tx'[o].since \in 0 .. Len(done')
                      /\ \A k \in Since(o)' : done'[k].serial \/ "plain" \in tx'[o].met
    BY <1>1 DEF MetThem, Serial
  <2>1. tx[o].since \in 0 .. Len(done) /\ \A k \in Since(o) : done[k].serial \/ "plain" \in tx[o].met
    BY <1>1 DEF SessionOK, MetThem
  <2>2. Since(o)' = Since(o) \cup {n} /\ Since(o) \subseteq 1 .. Len(done)
    BY <1>1, <1>3, <2>1 DEF Since
  <2>3. Serial(s) \/ "plain" \in tx[o].met
    <3>1. PairOK(o, s)
      BY DEF CallsInv, Others
    <3>2. tx[s].request.kind \in Plain => "plain" \in tx[o].met
      BY <1>2, <3>1 DEF PairOK
    <3> QED BY <3>2 DEF Serial, IsolationOf
  <2>4. tx'[o].since \in 0 .. Len(done')
    BY <1>1, <1>3, <2>1
  <2> QED BY <1>1, <1>3, <2>1, <2>2, <2>3, <2>4
<1>7. SnapshotAges(o)'
  <2> SUFFICES ASSUME tx[o].phase = "looked"
               PROVE  SnapshotAges(o)'
    BY <1>1 DEF SnapshotAges
  <2>1. tx[o].since \in 0 .. Len(done) /\ Serial(o)
    BY <1>1 DEF SessionOK, Shaped, MetThem
  <2>2. SnapshotAges(o)
    BY <1>1 DEF SessionOK
  <2>3. \A row : Changed(o, row) \/ row \in tx[s].wrote => Changed(o, row)'
    BY <1>4, <2>1 DEF Footprint
  <2>4. \A l \in Listing :
          tables'.assigned[l] = tx'[o].base.assigned[l] \/ Changed(o, <<"assigned", l>>)'
    <3> TAKE l \in Listing
    <3>1. <<"assigned", l>> \notin tx[s].wrote => tables'.assigned[l] = tables.assigned[l]
      BY <1>2, MergedKeeps
    <3>2. tables.assigned[l] = tx[o].base.assigned[l] \/ Changed(o, <<"assigned", l>>)
      BY <2>2 DEF SnapshotAges
    <3> QED BY <1>1, <2>3, <3>1, <3>2
  <2>5. \A p \in Pressing, x \in Slot :
          \/ tables'.reference[p][x] = tx'[o].base.reference[p][x]
          \/ Changed(o, <<"reference", p, x>>)'
    <3> TAKE p \in Pressing, x \in Slot
    <3>1. <<"reference", p, x>> \notin tx[s].wrote =>
            tables'.reference[p][x] = tables.reference[p][x]
      BY <1>2, MergedKeeps
    <3>2. \/ tables.reference[p][x] = tx[o].base.reference[p][x]
          \/ Changed(o, <<"reference", p, x>>)
      BY <2>2 DEF SnapshotAges
    <3> QED BY <1>1, <2>3, <3>1, <3>2
  <2> QED BY <2>4, <2>5 DEF SnapshotAges
<1>8. TokenAges(o)'
  <2> DEFINE r == tx[o].request
  <2> SUFFICES ASSUME tx[o].phase = "written", r.kind = "review"
               PROVE  TokenAges(o)'
    BY <1>1 DEF TokenAges
  <2>1. r.pressing \in Pressing
    BY SessionTypes, CompletenessAssumption DEF Others
  <2>2. Serial(o)
    BY DEF Serial, IsolationOf, Plain
  <2>3. tx[o].since \in 0 .. Len(done)
    BY <1>1, <2>2 DEF SessionOK, MetThem
  <2>4. TokenAges(o)
    BY <1>1 DEF SessionOK
  <2>5. \A row : Changed(o, row) \/ row \in tx[s].wrote => Changed(o, row)'
    BY <1>4, <2>2, <2>3 DEF Footprint
  <2>6. \A x \in Slot :
          \/ tables'.reference[r.pressing][x] = tx'[o].token.reference[x]
          \/ Changed(o, <<"reference", r.pressing, x>>)'
    BY <1>1, <1>2, <2>1, <2>4, <2>5, MergedKeeps DEF TokenAges
  <2> QED BY <1>1, <2>4, <2>6 DEF TokenAges
<1>9. ObservedFits(o)'
  <2> DEFINE r == tx[o].request
  <2> SUFFICES ASSUME tx[o].phase = "written", r.kind = "observe"
               PROVE  ObservedFits(o)'
    BY <1>1 DEF ObservedFits
  <2>1. r.listing \in Listing
    BY SessionTypes, CompletenessAssumption DEF Others
  <2>2. PairOK(o, s)
    BY DEF CallsInv, Others
  <2>3. <<"assigned", r.listing>> \notin tx[s].wrote
    BY <1>2, <2>2 DEF PairOK, Locks
  <2>4. tables.assigned[r.listing] = r.pressing
    BY <1>1 DEF SessionOK, ObservedFits
  <2> QED BY <1>1, <1>2, <2>1, <2>3, <2>4, MergedKeeps DEF ObservedFits
<1>10. WroteWhatItRead(o)'
  BY <1>1 DEF SessionOK, WroteWhatItRead, Serial
<1> QED BY <1>5, <1>6, <1>7, <1>8, <1>9, <1>10 DEF SessionOK

LEMMA CommitKeepsCommon ==
  ASSUME CallsInv, NEW s \in Session, Commit(s), tx' = Close(s)
  PROVE  CommonOK'
<1>1. /\ tables' = Merged(tx[s].mine, tx[s].wrote) /\ tx[s].phase = "written"
      /\ DOMAIN tx' = Session
  BY CommitEffect
<1>2. \A p \in Pressing : tables'.reference[p] = [x \in Slot |-> tables'.reference[p][x]]
  BY <1>1, MergedKeeps
<1> DEFINE e == [serial |-> Serial(s), since |-> tx[s].since,
                 wrote |-> Footprint(s), reads |-> tx[s].reads]
<1>3. e.serial = Serial(s) /\ e.wrote = Footprint(s) /\ e.reads = tx[s].reads
  OBVIOUS
<1>4. e.serial => ReadsReference(e.wrote, e.reads)
  <2>1. WroteWhatItRead(s)
    BY DEF CallsInv, SessionOK
  <2> QED BY <1>1, <1>3, <2>1, FootprintOfReference DEF WroteWhatItRead, ReadsReference
<1>5. done' = Append(done, e) \/ done' = << >>
  BY CommitEffect
<1> HIDE DEF e
<1>6. CASE done' = << >>
  <2>1. done' \in Seq({}) /\ Len(done') = 0
    BY <1>6
  <2> QED BY <1>1, <1>2, <2>1 DEF CommonOK
<1>7. CASE done' = Append(done, e)
  <2>1. PICK S : done \in Seq(S)
    BY DEF CallsInv, CommonOK
  <2>2. /\ \E T : done' \in Seq(T)
        /\ Len(done') = Len(done) + 1 /\ Len(done) \in Nat
        /\ \A k \in 1 .. Len(done) : done'[k] = done[k]
        /\ done'[Len(done) + 1] = e
    BY <1>7, <2>1, DoneGrows
  <2>3. ASSUME NEW k \in 1 .. Len(done')
        PROVE  done'[k].serial => ReadsReference(done'[k].wrote, done'[k].reads)
    <3>1. CASE k \in 1 .. Len(done)
      BY <2>2, <3>1 DEF CallsInv, CommonOK
    <3>2. CASE k = Len(done) + 1
      BY <1>4, <2>2, <3>2
    <3> QED BY <2>2, <3>1, <3>2
  <2> QED BY <1>1, <1>2, <2>2, <2>3 DEF CommonOK
<1> QED BY <1>5, <1>6, <1>7

LEMMA CommitKeeps ==
  ASSUME CallsInv, NEW s \in Session, Commit(s)
  PROVE  CallsInv'
<1>1. CASE tx' = Close(s)
  <2>1. CommonOK'
    BY <1>1, CommitKeepsCommon
  <2>2. /\ tx'[s] = Idle /\ tx'[s].phase = "idle" /\ DOMAIN tx'[s] = Fields
        /\ \A o \in Others(s) : tx'[o] = tx[o]
    BY <1>1, CommitEffect, IdleShape
  <2>3. Shaped(s)'
    BY <2>2 DEF Shaped
  <2>4. SessionOK(s)'
    BY <2>2, <2>3, Young
  <2>5. ASSUME NEW o \in Others(s)
        PROVE  SessionOK(o)'
    <3>1. CASE Open(o)
      BY <1>1, <3>1, CommitSeen
    <3>2. CASE ~Open(o)
      <4>1. tx'[o] = tx[o] /\ SessionOK(o)
        BY <2>2 DEF CallsInv, Others
      <4>2. Shaped(o)' /\ tx'[o].phase \notin {"looked", "written"}
        BY <3>2, <4>1 DEF SessionOK, Shaped, Open
      <4> QED BY <4>2, Young
    <3> QED BY <3>1, <3>2
  <2>6. ASSUME NEW o \in Others(s)
        PROVE  PairOK(s, o)' /\ PairOK(o, s)'
    BY <2>2, PairClosed
  <2>7. ASSUME NEW o \in Others(s), NEW q \in Others(s), q # o
        PROVE  PairOK(o, q)'
    <3>1. PairOK(o, q) /\ tx'[o] = tx[o] /\ tx'[q] = tx[q]
      BY <2>2, <2>7 DEF CallsInv, Others
    <3> QED BY <3>1, PairStays
  <2> QED BY <2>1, <2>4, <2>5, <2>6, <2>7 DEF CallsInv, Others
<1>2. CASE tx' # Close(s)
  <2> DEFINE t == [Idle EXCEPT !.request = tx[s].request, !.phase = "raised", !.why = "conflict"]
  <2>1. tx' = [tx EXCEPT ![s] = t] /\ tables' = tables /\ done' = done
    BY <1>2 DEF Commit, Raised
  <2>2. DOMAIN t = Fields /\ t.phase = "raised"
    BY RaisedShape
  <2> HIDE DEF t
  <2> QED BY <2>1, <2>2, Closes
<1> QED BY <1>1, <1>2

LEMMA EndKeeps ==
  ASSUME CallsInv, NEW s \in Session, End(s)
  PROVE  CallsInv'
<1>1. tx' = [tx EXCEPT ![s] = Idle] /\ tables' = tables /\ done' = done
  BY DEF End, Close
<1> QED BY <1>1, IdleShape, Closes

LEMMA CallsInit == Init => CallsInv
<1> SUFFICES ASSUME Init PROVE CallsInv
  OBVIOUS
<1>1. tx = [s \in Session |-> Idle] /\ done = << >>
  BY DEF Init
<1>2. PICK a \in Assignments, r \in References, o \in Observations :
        tables = [assigned |-> a, reference |-> r, observed |-> o, profile |-> Component]
  BY DEF Init
<1>3. ASSUME NEW p \in Pressing
      PROVE  tables.reference[p] = [x \in Slot |-> tables.reference[p][x]]
  <2>1. tables.reference = r /\ r \in [Pressing -> Reference]
    BY <1>2, CompletenessAssumption
  <2>2. r[p] \in Reference
    BY <2>1
  <2> QED BY <2>1, <2>2 DEF Reference
<1>4. done \in Seq({}) /\ Len(done) = 0
  BY <1>1
<1>5. CommonOK
  BY <1>1, <1>3, <1>4 DEF CommonOK
<1>6. ASSUME NEW s \in Session
      PROVE  SessionOK(s) /\ \A q : PairOK(s, q)
  <2>1. DOMAIN tx[s] = Fields /\ tx[s].phase = "idle"
    BY <1>1, IdleShape
  <2> QED BY <2>1 DEF SessionOK, Shaped, MetThem, SnapshotAges, TokenAges, ObservedFits,
                      WroteWhatItRead, PairOK, Open
<1> QED BY <1>5, <1>6 DEF CallsInv

LEMMA CallsStep == CallsInv /\ [Next]_vars => CallsInv'
<1> SUFFICES ASSUME CallsInv, [Next]_vars PROVE CallsInv'
  OBVIOUS
<1>1. ASSUME NEW s \in Session, NEW r \in Requests, Preview(s, r)
      PROVE  CallsInv'
  BY <1>1, PreviewKeeps
<1>2. ASSUME NEW s \in Session, NEW r \in Requests, Begin(s, r)
      PROVE  CallsInv'
  BY <1>2, BeginKeeps
<1>3. ASSUME NEW s \in Session, Look(s)
      PROVE  CallsInv'
  BY <1>3, LookKeeps
<1>4. ASSUME NEW s \in Session, Write(s)
      PROVE  CallsInv'
  BY <1>4, WriteKeeps
<1>5. ASSUME NEW s \in Session, Commit(s)
      PROVE  CallsInv'
  BY <1>5, CommitKeeps
<1>6. ASSUME NEW s \in Session, End(s)
      PROVE  CallsInv'
  BY <1>6, EndKeeps
<1>7. CASE UNCHANGED vars
  <2>1. tables' = tables /\ done' = done /\ tx' = tx
    BY <1>7 DEF vars
  <2>2. CommonOK'
    BY <2>1, CommonStays DEF CallsInv, CommonOK
  <2>3. \A s \in Session : SessionOK(s)'
    BY <2>1, SessionTypes, Unmoved
  <2>4. \A s \in Session : \A o \in Others(s) : PairOK(s, o)'
    BY <2>1, PairStays DEF CallsInv
  <2> QED BY <2>2, <2>3, <2>4 DEF CallsInv, Others
<1> QED BY <1>1, <1>2, <1>3, <1>4, <1>5, <1>6, <1>7 DEF Next

\* What every transaction of the completeness services knows of the tables, the others
\* and what was committed since its snapshot.
THEOREM CallsInvHolds == Spec => []CallsInv
<1> QED BY CallsInit, CallsStep, PTL DEF Spec

-----------------------------------------------------------------------------
(* What a commit finds *)

LEMMA OnlyCommitsChangeTables ==
  ASSUME CallsInv, [Next]_vars, tables' # tables, NEW s \in Session, Commits(s)
  PROVE  Commit(s) /\ tx' = Close(s)
<1>1. PICK o \in Session : Commit(o)
  <2>1. ASSUME NEW o \in Session, NEW r \in Requests, Preview(o, r) \/ Begin(o, r)
        PROVE  FALSE
    BY <2>1 DEF Preview, Begin
  <2>2. ASSUME NEW o \in Session, Look(o) \/ End(o)
        PROVE  FALSE
    BY <2>2 DEF Look, End
  <2>3. ASSUME NEW o \in Session, Write(o)
        PROVE  FALSE
    <3>1. tables' = tables
      BY <2>3 DEF Write
    <3> QED BY <3>1
  <2> QED BY <2>1, <2>2, <2>3 DEF Next, vars
<1>2. tx' = Close(o)
  BY <1>1 DEF Commit
<1>3. s = o
  <2> SUFFICES ASSUME s # o PROVE FALSE
    OBVIOUS
  <2>1. tx'[s] = tx[s]
    BY <1>1, <1>2, CommitEffect DEF Others
  <2> QED BY <2>1 DEF Commits
<1> QED BY <1>1, <1>2, <1>3

LEMMA ObserveCommits ==
  ASSUME CallsInv, [Next]_vars, tables' # tables, NEW s \in Session, Commits(s),
         tx[s].request.kind = "observe"
  PROVE  tables.assigned[tx[s].request.listing] = tx[s].request.pressing
<1>1. ObservedFits(s)
  BY DEF CallsInv, SessionOK
<1> QED BY <1>1 DEF ObservedFits, Commits

LEMMA ReviewCommits ==
  ASSUME CallsInv, [Next]_vars, tables' # tables, NEW s \in Session, Commits(s),
         tx[s].request.kind = "review", Guarded(s)
  PROVE  tables.reference[tx[s].request.pressing] = tx[s].token.reference
<1> DEFINE p == tx[s].request.pressing
<1>1. Serial(s)
  BY DEF Serial, IsolationOf, Plain
<1>2. tx[s].phase = "written" /\ ~Dangerous(s)
  BY <1>1, OnlyCommitsChangeTables, CommitEffect
<1>3. p \in Pressing
  BY <1>2, SessionTypes, CompletenessAssumption
<1>4. Shaped(s) /\ MetThem(s) /\ TokenAges(s)
  BY DEF CallsInv, SessionOK
<1>5. Since(s) \subseteq 1 .. Len(done)
  <2>1. Len(done) \in Nat
    BY DEF CallsInv, CommonOK
  <2> QED BY <1>1, <1>2, <1>4, <2>1 DEF MetThem, Since
\* Whoever wrote of this reference since, at SERIALIZABLE, had read it: the two would
\* be a dangerous structure.
<1>6. ASSUME NEW x \in Slot
      PROVE  ~Changed(s, <<"reference", p, x>>)
  <2> SUFFICES ASSUME NEW k \in Since(s), <<"reference", p, x>> \in done[k].wrote
               PROVE  FALSE
    BY DEF Changed
  <2>1. done[k].serial
    BY <1>1, <1>2, <1>4 DEF MetThem, Guarded
  <2>2. ReferenceRows(p, Slot) \subseteq done[k].reads
    BY <1>3, <1>5, <2>1 DEF CallsInv, CommonOK, ReadsReference
  <2>3. <<"reference", p, x>> \in tx[s].reads
    BY <1>2, <1>4 DEF TokenAges, ReferenceRows
  <2>4. PICK y \in Slot : <<"reference", p, y>> \in tx[s].wrote
    BY <1>2, <1>4 DEF TokenAges
  <2>5. <<"reference", p, y>> \in done[k].reads \cap Footprint(s)
    BY <2>2, <2>4 DEF ReferenceRows, Footprint
  <2>6. tx[s].reads \cap done[k].wrote # {} /\ done[k].reads \cap Footprint(s) # {}
    BY <2>3, <2>5
  <2>7. k \in tx[s].since + 1 .. Len(done) /\ k <= k
    BY <1>5 DEF Since
  <2> QED BY <1>2, <2>1, <2>6, <2>7 DEF Dangerous
<1>7. \A x \in Slot : tables.reference[p][x] = tx[s].token.reference[x]
  BY <1>2, <1>4, <1>6 DEF TokenAges
<1>8. tables.reference[p] = [x \in Slot |-> tables.reference[p][x]]
  BY <1>3 DEF CallsInv, CommonOK
<1>9. tx[s].token.reference = [x \in Slot |-> tx[s].token.reference[x]]
  BY <1>2, <1>4 DEF Shaped
<1> QED BY <1>7, <1>8, <1>9

\* save_listing_observation_rows commits what it saw against the pressing that the
\* listing is still assigned to: the row it locked is the row its snapshot holds, and
\* nobody moves the listing before it commits.
THEOREM ObservedOnItsPressingHolds == Spec => ObservedOnItsPressing
<1>1. CallsInv /\ [Next]_vars =>
        [\A s \in Session :
           Commits(s) /\ tx[s].request.kind = "observe" =>
             tables.assigned[tx[s].request.listing] = tx[s].request.pressing]_tables
  BY ObserveCommits
<1> QED BY <1>1, CallsInvHolds, PTL DEF Spec, ObservedOnItsPressing

\* apply_reference_changes commits over the reference that was reviewed, when every
\* transaction it overlapped asked for isolation: any that wrote of the same reference
\* meanwhile has also read it, and SERIALIZABLE does not let both commit.
THEOREM ReviewedIsWhatIsAppliedHolds == Spec => ReviewedIsWhatIsApplied
<1>1. CallsInv /\ [Next]_vars =>
        [\A s \in Session :
           Commits(s) /\ tx[s].request.kind = "review" /\ Guarded(s) =>
             tables.reference[tx[s].request.pressing] = tx[s].token.reference]_tables
  BY ReviewCommits
<1> QED BY <1>1, CallsInvHolds, PTL DEF Spec, ReviewedIsWhatIsApplied

-----------------------------------------------------------------------------
(* The statements of a call are a fold over a finite set: it can be followed *)
(* from set to set.                                                          *)

LEMMA LeastNatural ==
  ASSUME NEW T \in SUBSET Nat, T # {}
  PROVE  \E n \in T : \A m \in T : n <= m
<1> DEFINE R == OpToRel(<, Nat)
<1>1. IsWellFoundedOn(R, Nat)
  BY NatLessThanWellFounded
<1>2. \A x, y \in Nat : x < y => <<x, y>> \in R
  BY DEF OpToRel
<1> HIDE DEF R
<1>3. PICK n \in T : \A m \in T : ~ (<<m, n>> \in R)
  BY <1>1, WFMin
<1>4. \A m \in T : ~ (m < n)
  BY <1>2, <1>3
<1> QED BY <1>4

\* What holds of a subset whenever it does without any of its elements holds of all.
LEMMA SubsetsInduction ==
  ASSUME NEW S, IsFiniteSet(S), NEW P \in SUBSET SUBSET S, {} \in P,
         \A T \in SUBSET S : T # {} /\ (\A x \in T : T \ {x} \in P) => T \in P
  PROVE  P = SUBSET S
<1> SUFFICES ASSUME NEW B \in SUBSET S, B \notin P
             PROVE  FALSE
  OBVIOUS
<1>1. \A T \in SUBSET S : IsFiniteSet(T) /\ Cardinality(T) \in Nat
  BY FS_Subset, FS_CardinalityType
<1> DEFINE sizes == {Cardinality(T) : T \in (SUBSET S) \ P}
<1>2. sizes \in SUBSET Nat /\ sizes # {}
  BY <1>1
<1>3. PICK n \in sizes : \A m \in sizes : n <= m
  BY <1>2, LeastNatural
<1>4. PICK T \in (SUBSET S) \ P : n = Cardinality(T)
  OBVIOUS
<1>5. ASSUME NEW x \in T
      PROVE  T \ {x} \in P
  <2>1. Cardinality(T \ {x}) = Cardinality(T) - 1
    BY <1>1, <1>4, <1>5, FS_RemoveElement
  <2>2. T \ {x} \in SUBSET S
    OBVIOUS
  <2>3. Cardinality(T \ {x}) \in Nat /\ n \in Nat /\ Cardinality(T \ {x}) < n
    BY <1>1, <1>4, <2>1, <2>2
  <2>4. T \ {x} \notin P => Cardinality(T \ {x}) \in sizes
    BY <2>2
  <2> QED BY <1>3, <2>3, <2>4
<1> QED BY <1>4, <1>5

\* The element that a fold takes out of a set
First(T) == CHOOSE x \in T : TRUE

\* g follows the statements of r over the subsets of T.
Follows(r, base, T, g) ==
  g = [U \in SUBSET T |-> IF U = {} THEN base ELSE Place(r, First(U), g[U \ {First(U)}])]

LEMMA FirstIsIn ==
  ASSUME NEW T, T # {}
  PROVE  First(T) \in T
BY DEF First

LEMMA FollowsStep ==
  ASSUME NEW r, NEW base, NEW T, NEW g, Follows(r, base, T, g)
  PROVE  \A U \in SUBSET T :
           g[U] = IF U = {} THEN base ELSE Place(r, First(U), g[U \ {First(U)}])
BY DEF Follows

LEMMA FollowsUnique ==
  ASSUME NEW r, NEW base, NEW T, IsFiniteSet(T), NEW g, NEW h,
         Follows(r, base, T, g), Follows(r, base, T, h)
  PROVE  g = h
<1> DEFINE P == {U \in SUBSET T : g[U] = h[U]}
<1>1. ASSUME NEW f, Follows(r, base, T, f)
      PROVE  \A U \in SUBSET T :
               f[U] = IF U = {} THEN base ELSE Place(r, First(U), f[U \ {First(U)}])
  BY <1>1, FollowsStep
<1>2. /\ \A U \in SUBSET T : g[U] = IF U = {} THEN base ELSE Place(r, First(U), g[U \ {First(U)}])
      /\ \A U \in SUBSET T : h[U] = IF U = {} THEN base ELSE Place(r, First(U), h[U \ {First(U)}])
  BY <1>1
<1>3. {} \in P
  BY <1>2
<1>4. ASSUME NEW U \in SUBSET T, U # {}, \A x \in U : U \ {x} \in P
      PROVE  U \in P
  <2>1. g[U \ {First(U)}] = h[U \ {First(U)}]
    BY <1>4, FirstIsIn
  <2> QED BY <1>4, <1>2, <2>1
<1>5. P = SUBSET T
  <2>1. P \in SUBSET SUBSET T
    OBVIOUS
  <2> HIDE DEF P
  <2> QED BY <1>3, <1>4, <2>1, SubsetsInduction
<1>6. g = [U \in SUBSET T |-> g[U]] /\ h = [U \in SUBSET T |-> h[U]]
  BY DEF Follows
<1> QED BY <1>5, <1>6

LEMMA FollowsBelow ==
  ASSUME NEW r, NEW base, NEW T, NEW g, Follows(r, base, T, g), NEW V \in SUBSET T
  PROVE  Follows(r, base, V, [U \in SUBSET V |-> g[U]])
<1> DEFINE h == [U \in SUBSET V |-> g[U]]
<1>1. ASSUME NEW U \in SUBSET V
      PROVE  h[U] = IF U = {} THEN base ELSE Place(r, First(U), h[U \ {First(U)}])
  <2>1. U \in SUBSET T /\ U \ {First(U)} \in SUBSET V
    OBVIOUS
  <2>2. h[U] = g[U] /\ h[U \ {First(U)}] = g[U \ {First(U)}]
    BY <2>1
  <2>3. g[U] = IF U = {} THEN base ELSE Place(r, First(U), g[U \ {First(U)}])
    BY <2>1, FollowsStep
  <2> HIDE DEF h
  <2> QED BY <2>2, <2>3
<1>2. h = [U \in SUBSET V |-> h[U]]
  OBVIOUS
<1> HIDE DEF h
<1>3. h = [U \in SUBSET V |-> IF U = {} THEN base ELSE Place(r, First(U), h[U \ {First(U)}])]
  BY <1>1, <1>2
<1> QED BY <1>3 DEF Follows, h

LEMMA FollowsExists ==
  ASSUME NEW r, NEW base, NEW S, IsFiniteSet(S)
  PROVE  \E g : Follows(r, base, S, g)
<1> DEFINE P == {T \in SUBSET S : \E g : Follows(r, base, T, g)}
<1>1. {} \in P
  <2> DEFINE g == [U \in SUBSET {} |-> base]
  <2>1. Follows(r, base, {}, g)
    BY DEF Follows
  <2> QED BY <2>1
<1>2. ASSUME NEW T \in SUBSET S, T # {}, \A x \in T : T \ {x} \in P
      PROVE  T \in P
  <2> DEFINE k == [U \in SUBSET T |-> CHOOSE g : Follows(r, base, U, g)]
             v(U) == IF U = {} THEN base ELSE Place(r, First(U), k[U \ {First(U)}][U \ {First(U)}])
             g == [U \in SUBSET T |-> v(U)]
  <2>1. ASSUME NEW U \in SUBSET T, U # T
        PROVE  Follows(r, base, U, k[U])
    <3>1. PICK x \in T : x \notin U
      BY <2>1
    <3>2. PICK h : Follows(r, base, T \ {x}, h)
      BY <1>2
    <3>3. U \in SUBSET (T \ {x})
      BY <3>1
    <3>4. Follows(r, base, U, [V \in SUBSET U |-> h[V]])
      BY <3>2, <3>3, FollowsBelow
    <3>5. \E f : Follows(r, base, U, f)
      BY <3>4
    <3>6. Follows(r, base, U, CHOOSE f : Follows(r, base, U, f))
      BY <3>5
    <3> QED BY <3>6
  <2> HIDE DEF k
  <2>2. ASSUME NEW V \in SUBSET T, V # T
        PROVE  k[V][V] = v(V)
    <3> DEFINE kV == k[V]
    <3>1. Follows(r, base, V, kV)
      BY <2>1, <2>2
    <3> HIDE DEF kV
    <3>2. kV[V] = IF V = {} THEN base ELSE Place(r, First(V), kV[V \ {First(V)}])
      BY <3>1, FollowsStep
    <3>3. kV = k[V]
      BY DEF kV
    <3>4. CASE V = {}
      BY <3>2, <3>3, <3>4
    <3>5. CASE V # {}
      <4> DEFINE W == V \ {First(V)}
      <4>1. W \in SUBSET V /\ W \in SUBSET T /\ W # T
        BY <3>5, <2>2, FirstIsIn
      <4>2. kV[V] = Place(r, First(V), kV[W])
        BY <3>2, <3>5
      <4>3. Follows(r, base, W, [U \in SUBSET W |-> kV[U]])
        <5> HIDE DEF W
        <5> QED BY <3>1, <4>1, FollowsBelow
      <4>4. Follows(r, base, W, k[W])
        BY <2>1, <4>1
      <4>5. IsFiniteSet(W)
        BY <4>1, FS_Subset
      <4>6. [U \in SUBSET W |-> kV[U]] = k[W]
        <5> HIDE DEF W
        <5> QED BY <4>3, <4>4, <4>5, FollowsUnique
      <4>7. [U \in SUBSET W |-> kV[U]][W] = kV[W]
        OBVIOUS
      <4> QED BY <3>3, <3>5, <4>2, <4>6, <4>7
    <3> QED BY <3>4, <3>5
  <2>3. ASSUME NEW U \in SUBSET T
        PROVE  v(U) = IF U = {} THEN base ELSE Place(r, First(U), g[U \ {First(U)}])
    <3>1. CASE U = {}
      BY <3>1
    <3>2. CASE U # {}
      <4> DEFINE W == U \ {First(U)}
      <4>1. W \in SUBSET T /\ W # T
        BY <3>2, FirstIsIn
      <4>2. g[W] = k[W][W]
        BY <2>2, <4>1
      <4> QED BY <3>2, <4>2
    <3> QED BY <3>1, <3>2
  <2> HIDE DEF v
  <2>4. g = [U \in SUBSET T |-> IF U = {} THEN base ELSE Place(r, First(U), g[U \ {First(U)}])]
    BY <2>3
  <2> HIDE DEF g
  <2>5. Follows(r, base, T, g)
    BY <2>4 DEF Follows
  <2> QED BY <2>5
<1>3. P = SUBSET S
  <2>1. P \in SUBSET SUBSET S
    OBVIOUS
  <2> HIDE DEF P
  <2> QED BY <1>1, <1>2, <2>1, SubsetsInduction
<1> QED BY <1>3

\* What a call leaves is what its last statement does.
LEMMA WorkedFollows ==
  ASSUME NEW r, NEW work, IsFiniteSet(Placed(r, work.tables))
  PROVE  \E g : /\ Follows(r, Cleared(r, work), Placed(r, work.tables), g)
                /\ Worked(r, work) = g[Placed(r, work.tables)]
<1> DEFINE S == Placed(r, work.tables)
           base == Cleared(r, work)
           Iter(g) == g = [s \in SUBSET S |->
             IF s = {} THEN base ELSE Place(r, CHOOSE x \in s : TRUE, g[s \ {CHOOSE x \in s : TRUE}])]
<1>1. FoldSet(LAMBDA x, w : Place(r, x, w), base, S) = (CHOOSE g : Iter(g))[S]
  BY DEF FoldSet, MapThenFoldSet
<1>2. \A g : Iter(g) <=> Follows(r, base, S, g)
  BY DEF Follows, First
<1>3. \E g : Iter(g)
  <2>1. \E g : Follows(r, base, S, g)
    BY FollowsExists
  <2> HIDE DEF Iter
  <2> QED BY <1>2, <2>1
<1> DEFINE g == CHOOSE g : Iter(g)
<1>4. Iter(g)
  <2> HIDE DEF Iter
  <2> QED BY <1>3
<1>5. Worked(r, work) = g[S]
  BY <1>1 DEF Worked
<1> HIDE DEF g
<1> QED BY <1>2, <1>4, <1>5

-----------------------------------------------------------------------------
(* One statement and its triggers                                          *)

WorkFields == {"tables", "history", "added", "captured", "id", "at"}

\* The ids tell the snapshots of a listing apart.
Told(snapshots) == \A g, h \in snapshots : g.listing = h.listing /\ g.id = h.id => g = h

\* What a transaction that is writing has before it
WorkOK(w) ==
  /\ DOMAIN w = WorkFields
  /\ w.tables \in Tables
  /\ w.captured \subseteq Listing
  /\ w.id \in Nat /\ w.at \in Nat
  /\ \A h \in w.history \cup w.added : h.id \in Nat /\ h.id < w.id /\ h.at \in Nat
  /\ \A h \in w.added : h.listing \in w.captured /\ h.at = w.at
  /\ Told(w.history \cup w.added)

\* None of the history is from after its now().
InOrder(w) == \A h \in w.history : h.at <= w.at

\* What it has captured, it has the latest snapshot of.
Recorded(w) == \A l \in w.captured : Current(w.tables, w.history \cup w.added, l)

\* The listings that come to the same
SamePayload(a, b, l) == Payload(a, l, None) = Payload(b, l, None)

LEMMA PayloadFields ==
  ASSUME NEW rows, NEW l, NEW forced
  PROVE  /\ rows.assigned[l] # None => Payload(rows, l, forced) = Payload(rows, l, None)
         /\ rows.assigned[l] = None => Payload(rows, l, forced).status = "UNASSIGNED"
         /\ Payload(rows, l, None).pressing = rows.assigned[l]
BY DEF Payload

\* A payload is computed from four things.
LEMMA PayloadRows ==
  ASSUME NEW a, NEW b, NEW l,
         a.assigned[l] = b.assigned[l], a.observed[l] = b.observed[l],
         a.assigned[l] # None => a.reference[a.assigned[l]] = b.reference[a.assigned[l]]
                                 /\ a.profile = b.profile
  PROVE  SamePayload(a, b, l)
<1>1. CASE a.assigned[l] = None
  BY <1>1 DEF SamePayload, Payload
<1>2. CASE a.assigned[l] # None
  BY <1>2 DEF SamePayload, Payload
<1> QED BY <1>1, <1>2

LEMMA CurrentStays ==
  ASSUME NEW a, NEW b, NEW snapshots, NEW l, SamePayload(a, b, l), Current(a, snapshots, l)
  PROVE  Current(b, snapshots, l)
<1>1. a.assigned[l] = b.assigned[l]
  BY PayloadFields DEF SamePayload
<1> QED BY <1>1 DEF Current, SamePayload

\* The one with the greatest id, of those that are from no later
LEMMA LatestIsNewest ==
  ASSUME NEW earlier, NEW n, n.id \in Nat, n.at \in Nat,
         \A h \in earlier : h.id \in Nat /\ h.at \in Nat /\ h.id < n.id /\ h.at <= n.at
  PROVE  Latest(earlier \cup {n}) = n
<1> DEFINE all == earlier \cup {n}
           IsLatest(h) == \A g \in all : g.at < h.at \/ (g.at = h.at /\ g.id <= h.id)
<1>1. IsLatest(n)
  OBVIOUS
<1>2. ASSUME NEW h \in all, IsLatest(h)
      PROVE  h = n
  BY <1>2
<1>3. n \in all
  OBVIOUS
<1>4. Latest(all) = CHOOSE h \in all : IsLatest(h)
  BY DEF Latest
<1> HIDE DEF all, IsLatest
<1>5. (CHOOSE h \in all : IsLatest(h)) = n
  BY <1>1, <1>2, <1>3
<1> QED BY <1>4, <1>5 DEF all

LEMMA StatementFields ==
  ASSUME NEW w, WorkOK(w), NEW rows \in Tables, NEW ls \in SUBSET Listing
  PROVE  LET v == Statement(w, rows, ls)
             New(l) == [id |-> w.id, listing |-> l, at |-> w.at,
                        payload |-> Payload(rows, l, w.tables.assigned[l])]
             Newer == {l \in ls : News(w, l, Payload(rows, l, w.tables.assigned[l]))} IN
         /\ DOMAIN v = WorkFields
         /\ v.tables = rows /\ v.history = w.history /\ v.at = w.at /\ v.id = w.id + 1
         /\ v.captured = w.captured \cup ls
         /\ v.added = w.added \cup {New(l) : l \in Newer}
<1> DEFINE more == {[id |-> w.id, listing |-> l, at |-> w.at,
                     payload |-> Payload(rows, l, w.tables.assigned[l])] :
                      l \in {l \in ls : News(w, l, Payload(rows, l, w.tables.assigned[l]))}}
           v == [w EXCEPT !.tables = rows, !.captured = @ \cup ls, !.id = @ + 1, !.added = @ \cup more]
<1>1. Statement(w, rows, ls) = v
  BY DEF Statement
<1>2. DOMAIN w = WorkFields
  BY DEF WorkOK
<1> HIDE DEF more
<1>3. /\ DOMAIN v = WorkFields
      /\ v.tables = rows /\ v.history = w.history /\ v.at = w.at /\ v.id = w.id + 1
      /\ v.captured = w.captured \cup ls
      /\ v.added = w.added \cup more
  BY <1>2 DEF WorkFields
<1> HIDE DEF v
<1> QED BY <1>1, <1>3 DEF more

LEMMA StatementKeeps ==
  ASSUME NEW w, WorkOK(w), NEW rows \in Tables, NEW ls \in SUBSET Listing
  PROVE  LET v == Statement(w, rows, ls) IN
         /\ WorkOK(v)
         /\ v.tables = rows /\ v.history = w.history /\ v.at = w.at /\ w.id <= v.id
         /\ v.captured = w.captured \cup ls
         /\ \A h \in v.added : h \in w.added \/ h.id >= w.id
<1> DEFINE v == Statement(w, rows, ls)
           New(l) == [id |-> w.id, listing |-> l, at |-> w.at,
                      payload |-> Payload(rows, l, w.tables.assigned[l])]
           Newer == {l \in ls : News(w, l, Payload(rows, l, w.tables.assigned[l]))}
           more == {New(l) : l \in Newer}
<1>1. /\ DOMAIN v = WorkFields
      /\ v.tables = rows /\ v.history = w.history /\ v.at = w.at /\ v.id = w.id + 1
      /\ v.captured = w.captured \cup ls
      /\ v.added = w.added \cup more
  BY StatementFields
<1>2. \A h \in more : h.id = w.id /\ h.at = w.at /\ h.listing \in ls
  OBVIOUS
<1>3. \A g, h \in more : g.listing = h.listing => g = h
  OBVIOUS
<1> HIDE DEF v, more
<1>4. /\ w.id \in Nat /\ w.at \in Nat /\ w.captured \subseteq Listing
      /\ \A h \in w.history \cup w.added : h.id \in Nat /\ h.id < w.id /\ h.at \in Nat
      /\ \A h \in w.added : h.listing \in w.captured /\ h.at = w.at
      /\ Told(w.history \cup w.added)
  BY DEF WorkOK
<1>5. v.history \cup v.added = (w.history \cup w.added) \cup more
  BY <1>1
<1>6. \A h \in v.history \cup v.added : h.id \in Nat /\ h.id < v.id /\ h.at \in Nat
  BY <1>1, <1>2, <1>4, <1>5
<1>7. \A h \in v.added : h.listing \in v.captured /\ h.at = v.at
  BY <1>1, <1>2, <1>4
<1>8. Told(v.history \cup v.added)
  <2> SUFFICES ASSUME NEW g \in v.history \cup v.added, NEW h \in v.history \cup v.added,
                      g.listing = h.listing, g.id = h.id
               PROVE  g = h
    BY DEF Told
  <2>1. CASE g \in more /\ h \in more
    BY <1>3, <2>1
  <2>2. CASE g \notin more /\ h \notin more
    BY <1>4, <1>5, <2>2 DEF Told
  <2>3. CASE (g \in more) # (h \in more)
    BY <1>2, <1>4, <1>5, <2>3
  <2> QED BY <2>1, <2>2, <2>3
<1>9. \A h \in v.added : h \in w.added \/ h.id >= w.id
  BY <1>1, <1>2, <1>4
<1>10. v.captured \subseteq Listing /\ v.id \in Nat /\ v.at \in Nat /\ w.id <= v.id /\ v.tables \in Tables
  BY <1>1, <1>4
<1>11. WorkOK(v)
  BY <1>1, <1>6, <1>7, <1>8, <1>10 DEF WorkOK
<1> QED BY <1>1, <1>9, <1>10, <1>11 DEF v

\* A statement that leaves as they were the listings that it does not fire for, of those
\* that an earlier one has
LEMMA StatementRecords ==
  ASSUME NEW w, WorkOK(w), InOrder(w), Recorded(w), NEW rows \in Tables, NEW ls \in SUBSET Listing,
         \A l \in w.captured \ ls : SamePayload(w.tables, rows, l)
  PROVE  Recorded(Statement(w, rows, ls))
<1> DEFINE v == Statement(w, rows, ls)
           New(l) == [id |-> w.id, listing |-> l, at |-> w.at,
                      payload |-> Payload(rows, l, w.tables.assigned[l])]
           Newer == {l \in ls : News(w, l, Payload(rows, l, w.tables.assigned[l]))}
           more == {New(l) : l \in Newer}
           before == w.history \cup w.added
<1>1. /\ v.tables = rows /\ v.captured = w.captured \cup ls
      /\ v.history \cup v.added = before \cup more
  <2>1. v.tables = rows /\ v.captured = w.captured \cup ls /\ v.history = w.history /\ v.added = w.added \cup more
    BY StatementFields
  <2> HIDE DEF v, more
  <2> QED BY <2>1
<1> HIDE DEF v
<1>2. \A l : Of(more, l) = IF l \in Newer THEN {New(l)} ELSE {}
  BY DEF Of
<1>3. \A l : Of(v.history \cup v.added, l) = Of(before, l) \cup Of(more, l)
  <2> HIDE DEF more, before
  <2> QED BY <1>1 DEF Of
<1>4. ASSUME NEW l \in ls
      PROVE  Current(rows, v.history \cup v.added, l)
  <2> DEFINE p == Payload(rows, l, w.tables.assigned[l])
             snapshots == Of(v.history \cup v.added, l)
  <2>1. snapshots # {} /\ Latest(snapshots).payload = p
    <3>1. CASE l \in Newer
      <4>1. New(l).payload = p /\ New(l).id = w.id /\ New(l).at = w.at
        OBVIOUS
      <4>2. snapshots = Of(before, l) \cup {New(l)}
        BY <1>2, <1>3, <3>1
      <4>3. /\ w.id \in Nat /\ w.at \in Nat
            /\ \A h \in Of(before, l) : h.id \in Nat /\ h.at \in Nat /\ h.id < w.id /\ h.at <= w.at
        BY DEF WorkOK, InOrder, Of
      <4> DEFINE n == New(l)
      <4>4. n.id = w.id /\ n.at = w.at /\ n.payload = p
        BY <4>1
      <4> HIDE DEF n, New, p
      <4>5. Latest(Of(before, l) \cup {n}) = n
        BY <4>3, <4>4, LatestIsNewest
      <4>6. snapshots = Of(before, l) \cup {n}
        BY <4>2 DEF n
      <4> HIDE DEF snapshots
      <4> QED BY <4>4, <4>5, <4>6
    <3>2. CASE l \notin Newer
      <4>1. snapshots = Of(before, l)
        BY <1>2, <1>3, <3>2
      <4>2. ~News(w, l, p)
        BY <3>2
      <4> HIDE DEF p
      <4>3. Of(before, l) # {} /\ Latest(Of(before, l)).payload = p
        BY <4>2 DEF News
      <4> HIDE DEF snapshots, before
      <4> QED BY <4>1, <4>3
    <3> QED BY <3>1, <3>2
  <2>2. /\ rows.assigned[l] # None => p = Payload(rows, l, None)
        /\ rows.assigned[l] = None => p.status = "UNASSIGNED"
    BY PayloadFields
  <2> HIDE DEF p
  <2> QED BY <2>1, <2>2 DEF Current
<1>5. ASSUME NEW l \in w.captured, l \notin ls
      PROVE  Current(rows, v.history \cup v.added, l)
  <2>1. Current(w.tables, before, l)
    BY DEF Recorded
  <2>2. SamePayload(w.tables, rows, l)
    BY <1>5
  <2>3. Current(rows, before, l)
    BY <2>1, <2>2, CurrentStays
  <2>4. Of(v.history \cup v.added, l) = Of(before, l)
    BY <1>2, <1>3, <1>5
  <2> HIDE DEF before
  <2> QED BY <2>3, <2>4 DEF Current
<1> QED BY <1>1, <1>4, <1>5 DEF Recorded, v

-----------------------------------------------------------------------------
(* The statements of a call                                                *)

OnReference == {"save", "guide", "review", "edit", "move", "restore"}
OnMoves == {"move", "restore"}
OnObserved == {"observe", "seal", "unseal"}
OnAssigned == {"fill", "assign"}

\* The listings whose payload a call's statements can change
Affects(r, rows) ==
  CASE r.kind \in OnReference -> AssignedTo(rows, r.pressing)
    [] r.kind \in OnObserved \cup OnAssigned -> {r.listing}
    [] r.kind = "profile" -> {l \in Listing : rows.assigned[l] # None}

\* From a to b nothing has changed but the slots X of what r is about, and the key that
\* a record leaves.
Differ(r, X, a, b) ==
  /\ \A l \in Listing : b.assigned[l] = a.assigned[l] \/ (r.kind \in OnAssigned /\ l = r.listing)
  /\ \A p \in Pressing, y \in Slot :
       b.reference[p][y] = a.reference[p][y] \/ (r.kind \in OnReference /\ p = r.pressing /\ y \in X)
       \/ (r.kind \in OnMoves /\ <<p, y>> = r.source /\ b.reference[p][y] = NoExpectation)
  /\ \A l \in Listing, y \in Slot :
       b.observed[l][y] = a.observed[l][y] \/ (r.kind \in OnObserved /\ l = r.listing /\ y \in X)
  /\ b.profile = a.profile \/ r.kind = "profile"

LEMMA RequestTypes ==
  ASSUME NEW r \in Requests
  PROVE  /\ r.kind \in OnReference \cup OnObserved \cup OnAssigned \cup {"profile"}
         /\ r.kind \in OnReference => r.pressing \in Pressing
         /\ r.kind \in OnObserved \cup OnAssigned => r.listing \in Listing
         /\ r.pressing \in Pressing \cup {None} /\ r.slots \subseteq Slot
         /\ r.kind \in {"save", "guide"} => r.slots = Slot
         /\ r.kind \in OnMoves => r.source \in Pressing \X Slot /\ r.slots # {}
         /\ r.reference \in Reference /\ r.observed \in Observed /\ r.profile \in SUBSET Component
<1>1. r \in Request
  BY CompletenessAssumption
<1>2. /\ r.kind \in {"save", "guide", "review", "observe", "seal", "unseal", "edit", "move",
                     "restore", "fill", "profile", "assign"}
      /\ r.pressing \in Pressing \cup {None} /\ r.slots \subseteq Slot
      /\ r.reference \in Reference /\ r.observed \in Observed /\ r.profile \in SUBSET Component
  BY <1>1 DEF Request, Profile
<1> QED BY <1>2, CompletenessAssumption DEF OnReference, OnObserved, OnAssigned, OnMoves

LEMMA TablesTypes ==
  ASSUME NEW a \in Tables
  PROVE  /\ a.assigned \in [Listing -> Pressing \cup {None}]
         /\ a.reference \in [Pressing -> Reference]
         /\ a.observed \in [Listing -> Observed]
         /\ a.profile \in SUBSET Component
         /\ a = [assigned |-> a.assigned, reference |-> a.reference, observed |-> a.observed,
                 profile |-> a.profile]
BY DEF Tables, Profile

LEMMA AffectsListings ==
  ASSUME NEW r \in Requests, NEW a
  PROVE  Affects(r, a) \subseteq Listing
BY RequestTypes DEF Affects, AssignedTo, OnReference, OnObserved, OnAssigned

LEMMA DifferSame ==
  ASSUME NEW r, NEW X, NEW a
  PROVE  Differ(r, X, a, a)
BY DEF Differ

LEMMA DifferMore ==
  ASSUME NEW r, NEW X, NEW Y, NEW a, NEW b, NEW c, Differ(r, X, a, b), Differ(r, Y, b, c)
  PROVE  Differ(r, X \cup Y, a, c)
BY DEF Differ

LEMMA AffectsStay ==
  ASSUME NEW r \in Requests, NEW X, NEW a, NEW b, Differ(r, X, a, b)
  PROVE  Affects(r, b) = Affects(r, a)
<1>1. CASE r.kind \in OnAssigned \cup OnObserved
  BY <1>1 DEF Affects, OnReference, OnObserved, OnAssigned
<1>2. CASE r.kind \notin OnAssigned \cup OnObserved
  <2>1. \A l \in Listing : a.assigned[l] = b.assigned[l]
    BY <1>2 DEF Differ
  <2> QED BY <1>2, <2>1, RequestTypes DEF Affects, AssignedTo, OnReference, OnObserved, OnAssigned
<1> QED BY <1>1, <1>2

LEMMA UnaffectedStay ==
  ASSUME NEW r \in Requests, NEW X, NEW a \in Tables, NEW b \in Tables, Differ(r, X, a, b),
         NEW l \in Listing, l \notin Affects(r, a), a.assigned[l] \notin Left(r)
  PROVE  SamePayload(a, b, l)
<1>1. /\ \A p \in Pressing : a.reference[p] \in [Slot -> Expectation \cup {NoExpectation}]
                             /\ b.reference[p] \in [Slot -> Expectation \cup {NoExpectation}]
      /\ a.observed[l] \in [Slot -> Observation \cup {NoObservation}]
      /\ b.observed[l] \in [Slot -> Observation \cup {NoObservation}]
      /\ a.assigned[l] \in Pressing \cup {None}
  BY TablesTypes DEF Reference, Observed
<1>2. /\ r.kind \in OnReference => a.assigned[l] # r.pressing
      /\ r.kind \in OnMoves => a.assigned[l] # r.source[1]
      /\ r.kind \in OnObserved \cup OnAssigned => l # r.listing
      /\ r.kind = "profile" => a.assigned[l] = None
  BY DEF Affects, AssignedTo, OnReference, OnObserved, OnAssigned, OnMoves, Left
<1>3. a.assigned[l] = b.assigned[l]
  BY <1>2 DEF Differ
<1>4. \A y \in Slot : a.observed[l][y] = b.observed[l][y]
  BY <1>2 DEF Differ
<1>5. a.observed[l] = b.observed[l]
  BY <1>1, <1>4
<1>6. ASSUME a.assigned[l] # None
      PROVE  a.reference[a.assigned[l]] = b.reference[a.assigned[l]] /\ a.profile = b.profile
  <2>1. a.assigned[l] \in Pressing
    BY <1>1, <1>6
  <2>2. \A y \in Slot : a.reference[a.assigned[l]][y] = b.reference[a.assigned[l]][y]
    <3>1. r.kind \in OnMoves => \A y \in Slot : <<a.assigned[l], y>> # r.source
      BY <1>2
    <3> QED BY <1>2, <2>1, <3>1 DEF Differ
  <2>3. a.reference[a.assigned[l]] = b.reference[a.assigned[l]]
    BY <1>1, <2>1, <2>2
  <2> QED BY <1>2, <1>6, <2>3 DEF Differ
<1> QED BY <1>3, <1>5, <1>6, PayloadRows

\* Replacing one row of the tables
LEMMA ReferencePut ==
  ASSUME NEW a \in Tables, NEW p \in Pressing, NEW reference \in Reference
  PROVE  LET b == [a EXCEPT !.reference[p] = reference] IN
         /\ b \in Tables
         /\ b.assigned = a.assigned /\ b.observed = a.observed /\ b.profile = a.profile
         /\ b.reference = [a.reference EXCEPT ![p] = reference]
<1> DEFINE new == [a.reference EXCEPT ![p] = reference]
           b == [a EXCEPT !.reference[p] = reference]
<1>1. new \in [Pressing -> Reference]
  BY TablesTypes
<1>2. b = [assigned |-> a.assigned, reference |-> new, observed |-> a.observed, profile |-> a.profile]
  BY TablesTypes
<1> HIDE DEF new, b
<1>3. /\ b.assigned = a.assigned /\ b.observed = a.observed /\ b.profile = a.profile
      /\ b.reference = new
  BY <1>2
<1>4. b \in Tables
  BY <1>1, <1>2, TablesTypes DEF Tables, Profile
<1> QED BY <1>3, <1>4 DEF b, new

LEMMA ObservedPut ==
  ASSUME NEW a \in Tables, NEW l \in Listing, NEW observed \in Observed
  PROVE  LET b == [a EXCEPT !.observed[l] = observed] IN
         /\ b \in Tables
         /\ b.assigned = a.assigned /\ b.reference = a.reference /\ b.profile = a.profile
         /\ b.observed = [a.observed EXCEPT ![l] = observed]
<1> DEFINE new == [a.observed EXCEPT ![l] = observed]
           b == [a EXCEPT !.observed[l] = observed]
<1>1. new \in [Listing -> Observed]
  BY TablesTypes
<1>2. b = [assigned |-> a.assigned, reference |-> a.reference, observed |-> new, profile |-> a.profile]
  BY TablesTypes
<1> HIDE DEF new, b
<1>3. /\ b.assigned = a.assigned /\ b.reference = a.reference /\ b.profile = a.profile
      /\ b.observed = new
  BY <1>2
<1>4. b \in Tables
  BY <1>1, <1>2, TablesTypes DEF Tables, Profile
<1> QED BY <1>3, <1>4 DEF b, new

LEMMA AssignedPut ==
  ASSUME NEW a \in Tables, NEW l \in Listing, NEW p \in Pressing \cup {None}
  PROVE  LET b == [a EXCEPT !.assigned[l] = p] IN
         /\ b \in Tables
         /\ b.observed = a.observed /\ b.reference = a.reference /\ b.profile = a.profile
         /\ b.assigned = [a.assigned EXCEPT ![l] = p]
<1> DEFINE new == [a.assigned EXCEPT ![l] = p]
           b == [a EXCEPT !.assigned[l] = p]
<1>1. new \in [Listing -> Pressing \cup {None}]
  BY TablesTypes
<1>2. b = [assigned |-> new, reference |-> a.reference, observed |-> a.observed, profile |-> a.profile]
  BY TablesTypes
<1> HIDE DEF new, b
<1>3. /\ b.observed = a.observed /\ b.reference = a.reference /\ b.profile = a.profile
      /\ b.assigned = new
  BY <1>2
<1>4. b \in Tables
  BY <1>1, <1>2, TablesTypes DEF Tables, Profile
<1> QED BY <1>3, <1>4 DEF b, new

LEMMA ProfilePut ==
  ASSUME NEW a \in Tables, NEW profile \in SUBSET Component
  PROVE  LET b == [a EXCEPT !.profile = profile] IN
         /\ b \in Tables
         /\ b.observed = a.observed /\ b.reference = a.reference /\ b.assigned = a.assigned
<1> DEFINE b == [a EXCEPT !.profile = profile]
<1>1. b = [assigned |-> a.assigned, reference |-> a.reference, observed |-> a.observed, profile |-> profile]
  BY TablesTypes
<1> HIDE DEF b
<1>2. b \in Tables
  BY <1>1, TablesTypes DEF Tables, Profile
<1> QED BY <1>1, <1>2 DEF b

\* What w does by statement of r: the slots X change
Fires(r, X, w, v) ==
  \E rows \in Tables : Differ(r, X, w.tables, rows) /\ v = Statement(w, rows, Affects(r, w.tables))

LEMMA FiresReference ==
  ASSUME NEW r \in Requests, r.kind \in OnReference, NEW w, w.tables \in Tables,
         NEW X, NEW new \in Reference,
         \A y \in Slot \ X : new[y] = w.tables.reference[r.pressing][y]
  PROVE  Fires(r, X, w, PutReference(w, r.pressing, new))
<1> DEFINE a == w.tables
           b == [a EXCEPT !.reference[r.pressing] = new]
<1>1. r.pressing \in Pressing
  BY RequestTypes
<1>2. /\ b \in Tables
      /\ b.assigned = a.assigned /\ b.observed = a.observed /\ b.profile = a.profile
      /\ b.reference = [a.reference EXCEPT ![r.pressing] = new]
  BY <1>1, ReferencePut
<1>3. PutReference(w, r.pressing, new) = Statement(w, b, Affects(r, a))
  <2>1. Affects(r, a) = AssignedTo(a, r.pressing)
    BY DEF Affects, AssignedTo, OnReference, OnObserved, OnAssigned
  <2>2. PutReference(w, r.pressing, new) = Statement(w, b, AssignedTo(a, r.pressing))
    BY DEF PutReference
  <2> HIDE DEF a, b
  <2> QED BY <2>1, <2>2
<1> HIDE DEF b
<1>4. \A p \in Pressing : b.reference[p] = IF p = r.pressing THEN new ELSE a.reference[p]
  BY <1>1, <1>2, TablesTypes
<1>5. Differ(r, X, a, b)
  BY <1>2, <1>4 DEF Differ
<1> QED BY <1>2, <1>3, <1>5 DEF Fires

\* The one statement of a record that is given another key
LEMMA FiresMove ==
  ASSUME NEW r \in Requests, r.kind \in OnMoves, NEW w, w.tables \in Tables,
         NEW x \in Slot, Submitted(r)[x] \in Expectation \cup {NoExpectation}
  PROVE  Fires(r, {x}, w, Statement(w, [w.tables EXCEPT !.reference = Moved(r, x, @)],
                                    AssignedTo(w.tables, r.pressing)))
<1> DEFINE a == w.tables
           new == Moved(r, x, a.reference)
           b == [a EXCEPT !.reference = new]
<1>1. r.kind \in OnReference
  BY DEF OnReference, OnMoves
<1>2. a.reference \in [Pressing -> Reference] /\ r.pressing \in Pressing
  BY <1>1, RequestTypes, TablesTypes
<1>3. \A p \in Pressing, y \in Slot :
        /\ new[p][y] \in Expectation \cup {NoExpectation}
        /\ \/ new[p][y] = a.reference[p][y]
           \/ p = r.pressing /\ y = x
           \/ <<p, y>> = r.source /\ new[p][y] = NoExpectation
  <2> SUFFICES ASSUME NEW p \in Pressing, NEW y \in Slot
               PROVE  /\ new[p][y] \in Expectation \cup {NoExpectation}
                      /\ \/ new[p][y] = a.reference[p][y]
                         \/ p = r.pressing /\ y = x
                         \/ <<p, y>> = r.source /\ new[p][y] = NoExpectation
    OBVIOUS
  <2>1. new[p][y] = IF p = r.pressing /\ y = x THEN Submitted(r)[x]
                    ELSE IF <<p, y>> = r.source THEN NoExpectation ELSE a.reference[p][y]
    BY DEF Moved
  <2>2. a.reference[p][y] \in Expectation \cup {NoExpectation}
    BY <1>2 DEF Reference
  <2> HIDE DEF new, a
  <2> QED BY <2>1, <2>2
<1>4. new \in [Pressing -> Reference]
  <2>1. new = [p \in Pressing |-> [y \in Slot |-> new[p][y]]]
    BY DEF Moved
  <2> HIDE DEF new
  <2> QED BY <1>3, <2>1 DEF Reference
<1> HIDE DEF new
<1>5. /\ b.assigned = a.assigned /\ b.observed = a.observed /\ b.profile = a.profile
      /\ b.reference = new /\ b \in Tables
  <2>1. b = [assigned |-> a.assigned, reference |-> new, observed |-> a.observed, profile |-> a.profile]
    BY TablesTypes
  <2> HIDE DEF b
  <2> QED BY <1>4, <2>1, TablesTypes DEF Tables, Profile
<1>6. Affects(r, a) = AssignedTo(a, r.pressing)
  BY <1>1 DEF Affects, AssignedTo, OnReference, OnObserved, OnAssigned
<1> HIDE DEF b
<1>7. Differ(r, {x}, a, b)
  BY <1>1, <1>3, <1>5 DEF Differ
<1> QED BY <1>5, <1>6, <1>7 DEF Fires, b, new

LEMMA FiresObserved ==
  ASSUME NEW r \in Requests, r.kind \in OnObserved, NEW w, w.tables \in Tables,
         NEW X, NEW new \in Observed,
         \A y \in Slot \ X : new[y] = w.tables.observed[r.listing][y]
  PROVE  Fires(r, X, w, PutObserved(w, r.listing, new))
<1> DEFINE a == w.tables
           b == [a EXCEPT !.observed[r.listing] = new]
<1>1. r.listing \in Listing
  BY RequestTypes
<1>2. /\ b \in Tables
      /\ b.assigned = a.assigned /\ b.reference = a.reference /\ b.profile = a.profile
      /\ b.observed = [a.observed EXCEPT ![r.listing] = new]
  BY <1>1, ObservedPut
<1>3. PutObserved(w, r.listing, new) = Statement(w, b, Affects(r, a))
  BY DEF PutObserved, Affects, OnReference, OnObserved
<1> HIDE DEF b
<1>4. \A l \in Listing : b.observed[l] = IF l = r.listing THEN new ELSE a.observed[l]
  BY <1>1, <1>2, TablesTypes
<1>5. Differ(r, X, a, b)
  BY <1>2, <1>4 DEF Differ
<1> QED BY <1>2, <1>3, <1>5 DEF Fires

LEMMA FiresAssigned ==
  ASSUME NEW r \in Requests, r.kind \in OnAssigned, NEW w, w.tables \in Tables, NEW X
  PROVE  Fires(r, X, w, PutAssigned(w, r.listing, r.pressing))
<1> DEFINE a == w.tables
           b == [a EXCEPT !.assigned[r.listing] = r.pressing]
<1>1. r.listing \in Listing /\ r.pressing \in Pressing \cup {None}
  BY RequestTypes
<1>2. /\ b \in Tables
      /\ b.observed = a.observed /\ b.reference = a.reference /\ b.profile = a.profile
      /\ b.assigned = [a.assigned EXCEPT ![r.listing] = r.pressing]
  BY <1>1, AssignedPut
<1>3. PutAssigned(w, r.listing, r.pressing) = Statement(w, b, Affects(r, a))
  BY DEF PutAssigned, Affects, OnReference, OnObserved, OnAssigned
<1> HIDE DEF b
<1>4. \A l \in Listing : b.assigned[l] = IF l = r.listing THEN r.pressing ELSE a.assigned[l]
  BY <1>1, <1>2, TablesTypes
<1>5. Differ(r, X, a, b)
  BY <1>2, <1>4 DEF Differ
<1> QED BY <1>2, <1>3, <1>5 DEF Fires

LEMMA FiresProfile ==
  ASSUME NEW r \in Requests, r.kind = "profile", NEW w, w.tables \in Tables, NEW X,
         NEW new \in SUBSET Component
  PROVE  Fires(r, X, w, PutProfile(w, new))
<1> DEFINE a == w.tables
           b == [a EXCEPT !.profile = new]
<1>1. /\ b \in Tables
      /\ b.observed = a.observed /\ b.reference = a.reference /\ b.assigned = a.assigned
  BY ProfilePut
<1>2. PutProfile(w, new) = Statement(w, b, Affects(r, a))
  BY DEF PutProfile, Affects, OnReference, OnObserved, OnAssigned
<1> HIDE DEF b
<1>3. Differ(r, X, a, b)
  BY <1>1 DEF Differ
<1> QED BY <1>1, <1>2, <1>3 DEF Fires

LEMMA SubmittedTypes ==
  ASSUME NEW r \in Requests, r.kind \in OnReference, Storable(r)
  PROVE  \A x \in r.slots : Submitted(r)[x] \in Expectation \cup {NoExpectation}
<1> SUFFICES ASSUME NEW x \in r.slots
             PROVE  Submitted(r)[x] \in Expectation \cup {NoExpectation}
  OBVIOUS
<1>1. x \in Slot /\ r.reference[x] \in Expectation \cup {NoExpectation}
  BY RequestTypes DEF Reference
<1>2. CASE r.kind \in {"save", "edit", "move"} /\ r.reference[x].state = "NOT_INCLUDED"
  <2>1. Submitted(r)[x] = [r.reference[x] EXCEPT !.quantity = 0]
    BY <1>1, <1>2 DEF Submitted
  <2>2. r.reference[x] \in Expectation
    BY <1>1, <1>2 DEF NoExpectation
  <2>3. Submitted(r)[x].quantity = 0 /\ Submitted(r)[x].state = "NOT_INCLUDED"
    BY <1>2, <2>1, <2>2 DEF Expectation
  <2>4. Submitted(r)[x] # NoExpectation
    BY <2>3 DEF NoExpectation
  <2> QED BY <2>3, <2>4 DEF Storable
<1>3. CASE ~(r.kind \in {"save", "edit", "move"} /\ r.reference[x].state = "NOT_INCLUDED")
  BY <1>1, <1>3 DEF Submitted
<1> QED BY <1>2, <1>3

\* What a fold of the call's statements is over
Items(r) == IF r.kind \in OnAssigned THEN {r.listing}
            ELSE IF r.kind = "profile" THEN Component ELSE r.slots

LEMMA PlaceFires ==
  ASSUME NEW r \in Requests, Storable(r), NEW w, w.tables \in Tables, NEW x \in Items(r)
  PROVE  Fires(r, {x}, w, Place(r, x, w))
<1>5. CASE r.kind \in OnMoves
  <2>1. x \in r.slots /\ x \in Slot /\ r.kind \in OnReference
    BY <1>5, RequestTypes DEF Items, OnReference, OnAssigned, OnMoves
  <2>2. Submitted(r)[x] \in Expectation \cup {NoExpectation}
    BY <2>1, SubmittedTypes
  <2>3. Place(r, x, w) = Statement(w, [w.tables EXCEPT !.reference = Moved(r, x, @)],
                                   AssignedTo(w.tables, r.pressing))
    BY <1>5 DEF Place, OnMoves
  <2> QED BY <1>5, <2>1, <2>2, <2>3, FiresMove
<1>1. CASE r.kind \in OnReference \ OnMoves
  <2> DEFINE old == w.tables.reference[r.pressing]
             new == [old EXCEPT ![x] = Submitted(r)[x]]
  <2>1. x \in r.slots /\ x \in Slot
    BY <1>1, RequestTypes DEF Items, OnReference, OnAssigned
  <2>2. old \in [Slot -> Expectation \cup {NoExpectation}]
    BY <1>1, RequestTypes, TablesTypes DEF Reference
  <2>3. new \in [Slot -> Expectation \cup {NoExpectation}]
    BY <1>1, <2>1, <2>2, SubmittedTypes
  <2>4. \A y \in Slot \ {x} : new[y] = old[y]
    BY <2>2
  <2>5. Place(r, x, w) = PutReference(w, r.pressing, new)
    BY <1>1 DEF Place, OnReference, OnMoves
  <2> HIDE DEF new
  <2> QED BY <1>1, <2>3, <2>4, <2>5, FiresReference DEF Reference
<1>2. CASE r.kind \in OnObserved
  <2> DEFINE old == w.tables.observed[r.listing]
             new == [old EXCEPT ![x] = r.observed[x]]
  <2>1. x \in Slot
    BY <1>2, RequestTypes DEF Items, OnObserved, OnAssigned
  <2>2. old \in [Slot -> Observation \cup {NoObservation}] /\ r.observed \in [Slot -> Observation \cup {NoObservation}]
    BY <1>2, RequestTypes, TablesTypes DEF Observed
  <2>3. new \in [Slot -> Observation \cup {NoObservation}]
    BY <2>1, <2>2
  <2>4. \A y \in Slot \ {x} : new[y] = old[y]
    BY <2>2
  <2>5. Place(r, x, w) = PutObserved(w, r.listing, new)
    BY <1>2 DEF Place, OnObserved
  <2> HIDE DEF new
  <2> QED BY <1>2, <2>3, <2>4, <2>5, FiresObserved DEF Observed
<1>3. CASE r.kind \in OnAssigned
  <2>1. Place(r, x, w) = PutAssigned(w, r.listing, r.pressing)
    BY <1>3 DEF Place, OnAssigned
  <2> QED BY <1>3, <2>1, FiresAssigned
<1>4. CASE r.kind = "profile"
  <2> DEFINE old == w.tables.profile
             new == IF x \in r.profile THEN old \cup {x} ELSE old \ {x}
  <2>1. new \in SUBSET Component
    BY <1>4, TablesTypes DEF Items, OnAssigned
  <2>2. Place(r, x, w) = PutProfile(w, new)
    BY <1>4 DEF Place
  <2> HIDE DEF new
  <2> QED BY <1>4, <2>1, <2>2, FiresProfile
<1> QED BY <1>1, <1>2, <1>3, <1>4, <1>5, RequestTypes

\* The slots that are cleared
Old(r, rows) ==
  IF r.kind \in {"save", "guide"} THEN {s \in Slot : rows.reference[r.pressing][s] # NoExpectation}
  ELSE IF r.kind \in OnObserved THEN {s \in r.slots : rows.observed[r.listing][s] # NoObservation}
  ELSE {}

LEMMA ClearedFires ==
  ASSUME NEW r \in Requests, NEW w, w.tables \in Tables
  PROVE  \/ Fires(r, Old(r, w.tables), w, Cleared(r, w))
         \/ Cleared(r, w) = w /\ Old(r, w.tables) = {}
<1>1. CASE r.kind \in {"save", "guide"}
  <2> DEFINE old == w.tables.reference[r.pressing]
  <2>1. old \in [Slot -> Expectation \cup {NoExpectation}]
    BY <1>1, RequestTypes, TablesTypes DEF Reference, OnReference
  <2>2. NoReference \in Reference /\ \A y \in Slot : NoReference[y] = NoExpectation
    BY DEF NoReference, Reference
  <2>3. Old(r, w.tables) = {s \in Slot : old[s] # NoExpectation}
    BY <1>1 DEF Old
  <2>4. CASE old = NoReference
    <3>1. Cleared(r, w) = w
      BY <1>1, <2>4 DEF Cleared
    <3> QED BY <2>2, <2>3, <2>4, <3>1
  <2>5. CASE old # NoReference
    <3>1. Cleared(r, w) = PutReference(w, r.pressing, NoReference)
      BY <1>1, <2>5 DEF Cleared
    <3>2. \A y \in Slot \ Old(r, w.tables) : NoReference[y] = old[y]
      BY <2>2, <2>3
    <3>3. r.kind \in OnReference
      BY <1>1 DEF OnReference
    <3> QED BY <2>2, <3>1, <3>2, <3>3, FiresReference
  <2> QED BY <2>4, <2>5
<1>2. CASE r.kind \in OnObserved
  <2> DEFINE old == w.tables.observed[r.listing]
             kept == [s \in Slot |-> IF s \in r.slots THEN NoObservation ELSE old[s]]
  <2>1. old \in [Slot -> Observation \cup {NoObservation}]
    BY <1>2, RequestTypes, TablesTypes DEF Observed
  <2>2. kept \in Observed
    BY <2>1 DEF Observed
  <2>3. Old(r, w.tables) = {s \in r.slots : old[s] # NoObservation}
    BY <1>2 DEF Old, OnObserved
  <2>4. CASE kept = old
    <3>1. Cleared(r, w) = w
      BY <1>2, <2>4 DEF Cleared, OnObserved
    <3>2. \A s \in r.slots : old[s] = NoObservation
      <4>1. \A s \in r.slots : kept[s] = NoObservation
        BY RequestTypes
      <4> QED BY <2>4, <4>1
    <3> QED BY <2>3, <3>1, <3>2
  <2>5. CASE kept # old
    <3>1. Cleared(r, w) = PutObserved(w, r.listing, kept)
      BY <1>2, <2>5 DEF Cleared, OnObserved
    <3>2. \A y \in Slot \ Old(r, w.tables) : kept[y] = old[y]
      BY <2>1, <2>3
    <3> HIDE DEF kept
    <3> QED BY <1>2, <2>2, <3>1, <3>2, FiresObserved
  <2> QED BY <2>4, <2>5
<1>3. CASE r.kind \notin {"save", "guide"} \cup OnObserved
  <2>1. Old(r, w.tables) = {}
    BY <1>3 DEF Old
  <2>2. Cleared(r, w) = w
    BY <1>3 DEF Cleared, OnObserved
  <2> QED BY <2>1, <2>2
<1> QED BY <1>1, <1>2, <1>3

-----------------------------------------------------------------------------
(* All the statements of a call                                            *)

\* What the statements of r have come to, from w: they have changed the slots X, and
\* once one has fired the listings that the call affects are captured.
Reached(r, X, w, v, fired) ==
  /\ WorkOK(v)
  /\ v.history = w.history /\ v.at = w.at /\ w.id <= v.id
  /\ Differ(r, X, w.tables, v.tables)
  /\ v.captured = {} \/ v.captured = Affects(r, w.tables)
  /\ fired => v.captured = Affects(r, w.tables)
  /\ \A l \in Listing \ v.captured :
       w.tables.assigned[l] \notin Left(r) => SamePayload(w.tables, v.tables, l)
  /\ InOrder(w) => Recorded(v)
  /\ \A h \in v.added : h.id >= w.id

LEMMA ReachedAtFirst ==
  ASSUME NEW r, NEW w, WorkOK(w), w.captured = {}, w.added = {}
  PROVE  Reached(r, {}, w, w, FALSE)
BY DifferSame DEF Reached, WorkOK, Recorded, SamePayload

LEMMA ReachedNext ==
  ASSUME NEW r \in Requests, NEW X, NEW Y, NEW w, NEW u, NEW v, NEW fired,
         WorkOK(w), Reached(r, X, w, u, fired), Fires(r, Y, u, v)
  PROVE  Reached(r, X \cup Y, w, v, TRUE)
<1>1. PICK rows \in Tables : Differ(r, Y, u.tables, rows) /\ v = Statement(u, rows, Affects(r, u.tables))
  BY DEF Fires
<1> DEFINE ls == Affects(r, u.tables)
<1>2. /\ WorkOK(u)
      /\ u.history = w.history /\ u.at = w.at /\ w.id <= u.id
      /\ Differ(r, X, w.tables, u.tables)
      /\ u.captured = {} \/ u.captured = Affects(r, w.tables)
      /\ \A l \in Listing \ u.captured :
           w.tables.assigned[l] \notin Left(r) => SamePayload(w.tables, u.tables, l)
      /\ InOrder(w) => Recorded(u)
      /\ \A h \in u.added : h.id >= w.id
  BY DEF Reached
<1>3. ls = Affects(r, w.tables) /\ ls \subseteq Listing
  BY <1>2, AffectsStay, AffectsListings
<1>4. \A l \in Listing \ ls :
        u.tables.assigned[l] \notin Left(r) => SamePayload(u.tables, rows, l)
  BY <1>1, <1>2, UnaffectedStay DEF WorkOK
<1> HIDE DEF ls
<1>5. v = Statement(u, rows, ls)
  BY <1>1 DEF ls
<1>6. /\ WorkOK(v)
      /\ v.tables = rows /\ v.history = u.history /\ v.at = u.at /\ u.id <= v.id
      /\ v.captured = u.captured \cup ls
      /\ \A h \in v.added : h \in u.added \/ h.id >= u.id
  BY <1>2, <1>3, <1>5, StatementKeeps
<1>7. Differ(r, X \cup Y, w.tables, v.tables)
  BY <1>1, <1>2, <1>6, DifferMore
<1>8. v.captured = Affects(r, w.tables)
  BY <1>2, <1>3, <1>6
<1>9. \A l \in Listing \ v.captured :
        w.tables.assigned[l] \notin Left(r) => SamePayload(w.tables, v.tables, l)
  <2> SUFFICES ASSUME NEW l \in Listing \ v.captured, w.tables.assigned[l] \notin Left(r)
               PROVE  SamePayload(w.tables, v.tables, l)
    OBVIOUS
  <2>1. SamePayload(w.tables, u.tables, l)
    BY <1>2, <1>6
  <2>2. u.tables.assigned[l] = w.tables.assigned[l]
    BY <2>1, PayloadFields DEF SamePayload
  <2>3. SamePayload(u.tables, rows, l)
    BY <1>4, <1>6, <2>2
  <2> QED BY <1>6, <2>1, <2>3 DEF SamePayload
<1>10. ASSUME InOrder(w)
       PROVE  Recorded(v)
  <2>1. InOrder(u)
    BY <1>2, <1>10 DEF InOrder
  <2> QED BY <1>2, <1>3, <1>5, <1>10, <2>1, StatementRecords
<1>11. \A h \in v.added : h.id >= w.id
  <2> SUFFICES ASSUME NEW h \in v.added
               PROVE  h.id >= w.id
    OBVIOUS
  <2>1. w.id \in Nat /\ u.id \in Nat /\ h.id \in Nat
    BY <1>2, <1>6 DEF WorkOK
  <2> QED BY <1>2, <1>6, <2>1
<1>12. v.history = w.history /\ v.at = w.at /\ w.id <= v.id
  <2>1. w.id \in Nat /\ u.id \in Nat /\ v.id \in Nat
    BY <1>2, <1>6 DEF WorkOK
  <2> QED BY <1>2, <1>6, <2>1
<1> QED BY <1>6, <1>7, <1>8, <1>9, <1>10, <1>11, <1>12 DEF Reached

LEMMA PlacedItems ==
  ASSUME NEW r \in Requests, NEW rows \in Tables
  PROVE  Placed(r, rows) \subseteq Items(r) /\ IsFiniteSet(Placed(r, rows))
<1>1. CASE r.kind \in OnReference \cup OnObserved
  <2>1. Placed(r, rows) \subseteq r.slots /\ r.slots \subseteq Slot
    BY <1>1, RequestTypes DEF Placed, OnReference, OnObserved
  <2>2. Items(r) = r.slots
    BY <1>1 DEF Items, OnReference, OnObserved, OnAssigned
  <2> QED BY <2>1, <2>2, CompletenessAssumption, FS_Subset
<1>2. CASE r.kind \in OnAssigned
  <2>1. Placed(r, rows) = {r.listing}
    BY <1>2 DEF Placed, OnAssigned
  <2> QED BY <1>2, <2>1, FS_Singleton DEF Items
<1>3. CASE r.kind = "profile"
  <2>1. Placed(r, rows) \subseteq Component
    BY <1>3, RequestTypes, TablesTypes DEF Placed
  <2>2. Items(r) = Component
    BY <1>3 DEF Items, OnAssigned
  <2> QED BY <2>1, <2>2, CompletenessAssumption, FS_Subset
<1> QED BY <1>1, <1>2, <1>3, RequestTypes

\* By induction over the statements
LEMMA WorkedReaches ==
  ASSUME NEW r \in Requests, Storable(r), NEW w, WorkOK(w), w.captured = {}, w.added = {}
  PROVE  LET old == Old(r, w.tables)
             placed == Placed(r, w.tables)
         IN Reached(r, old \cup placed, w, Worked(r, w), old \cup placed # {})
<1> DEFINE old == Old(r, w.tables)
           S == Placed(r, w.tables)
           base == Cleared(r, w)
<1>1. w.tables \in Tables
  BY DEF WorkOK
<1>2. S \subseteq Items(r) /\ IsFiniteSet(S)
  BY <1>1, PlacedItems
<1>3. PICK g : Follows(r, base, S, g) /\ Worked(r, w) = g[S]
  BY <1>2, WorkedFollows
<1>4. \A T \in SUBSET S : g[T] = IF T = {} THEN base ELSE Place(r, First(T), g[T \ {First(T)}])
  BY <1>3, FollowsStep
<1>5. Reached(r, old, w, base, old # {})
  <2>1. Reached(r, {}, w, w, FALSE)
    BY ReachedAtFirst
  <2>2. CASE Fires(r, old, w, base)
    <3>1. Reached(r, {} \cup old, w, base, TRUE)
      BY <2>1, <2>2, ReachedNext
    <3>2. {} \cup old = old
      OBVIOUS
    <3> QED BY <3>1, <3>2 DEF Reached
  <2>3. CASE base = w /\ old = {}
    <3>1. Reached(r, old, w, base, FALSE)
      BY <2>1, <2>3
    <3> QED BY <2>3, <3>1 DEF Reached
  <2> QED BY <1>1, <2>2, <2>3, ClearedFires
<1> HIDE DEF old, S, base
<1> DEFINE P == {T \in SUBSET S : Reached(r, old \cup T, w, g[T], old \cup T # {})}
<1>6. {} \in P
  <2>1. g[{}] = base /\ old \cup {} = old
    BY <1>4
  <2> QED BY <1>5, <2>1
<1>7. ASSUME NEW T \in SUBSET S, T # {}, \A x \in T : T \ {x} \in P
      PROVE  T \in P
  <2> DEFINE x == First(T)
             u == g[T \ {x}]
             X == old \cup (T \ {x})
  <2>1. x \in T /\ x \in Items(r)
    BY <1>2, <1>7, FirstIsIn
  <2>2. Reached(r, X, w, u, X # {})
    BY <1>7, <2>1
  <2>3. g[T] = Place(r, x, u)
    BY <1>4, <1>7
  <2>4. X \cup {x} = old \cup T
    BY <2>1
  <2> HIDE DEF x, u, X
  <2>5. u.tables \in Tables
    BY <2>2 DEF Reached, WorkOK
  <2>6. Fires(r, {x}, u, Place(r, x, u))
    BY <2>1, <2>5, PlaceFires
  <2>7. Reached(r, X \cup {x}, w, Place(r, x, u), TRUE)
    BY <2>2, <2>6, ReachedNext
  <2>8. Reached(r, old \cup T, w, g[T], TRUE)
    BY <2>3, <2>4, <2>7
  <2>9. Reached(r, old \cup T, w, g[T], old \cup T # {})
    BY <2>8 DEF Reached
  <2> QED BY <2>9
<1>8. P = SUBSET S
  <2>1. P \in SUBSET SUBSET S
    OBVIOUS
  <2> HIDE DEF P
  <2> QED BY <1>2, <1>6, <1>7, <2>1, SubsetsInduction
<1>9. S \in P
  BY <1>8
<1>10. Reached(r, old \cup S, w, g[S], old \cup S # {})
  BY <1>9
<1> QED BY <1>3, <1>10 DEF old, S

\* What a call leaves alone is not among the rows it writes.
OffWrites(wrote, a, b) ==
  /\ \A l \in Listing : <<"assigned", l>> \in wrote \/ b.assigned[l] = a.assigned[l]
  /\ \A p \in Pressing, y \in Slot :
       <<"reference", p, y>> \in wrote \/ b.reference[p][y] = a.reference[p][y]
  /\ \A l \in Listing, y \in Slot :
       <<"observed", l, y>> \in wrote \/ b.observed[l][y] = a.observed[l][y]
  /\ <<"profile">> \in wrote \/ b.profile = a.profile

\* Who writes a row of what a listing comes to captures it.
Captures(wrote, captured, rows) ==
  \A l \in Listing :
    (\/ \E y \in Slot : <<"observed", l, y>> \in wrote
     \/ rows.assigned[l] # None /\ (\/ <<"profile">> \in wrote
                                    \/ \E y \in Slot : <<"reference", rows.assigned[l], y>> \in wrote))
    => l \in captured

LEMMA WritesCover ==
  ASSUME NEW r \in Requests, NEW a \in Tables
  PROVE  LET X == Old(r, a) \cup Placed(r, a) IN
         /\ r.kind \in OnReference => \A y \in X : <<"reference", r.pressing, y>> \in Writes(r, a)
         /\ r.kind \in OnMoves => \/ a.reference[r.source[1]][r.source[2]] = NoExpectation
                                  \/ <<"reference", r.source[1], r.source[2]>> \in Writes(r, a)
         /\ r.kind \in OnObserved => \A y \in X : <<"observed", r.listing, y>> \in Writes(r, a)
         /\ r.kind \in OnAssigned => <<"assigned", r.listing>> \in Writes(r, a)
         /\ r.kind = "profile" => <<"profile">> \in Writes(r, a)
<1>5. CASE r.kind \in OnMoves
  <2>1. Writes(r, a) = ReferenceRows(r.pressing, r.slots)
          \cup (IF Stands(r, a) THEN ReferenceRows(r.source[1], {r.source[2]}) ELSE {})
    BY <1>5 DEF Writes, OnMoves
  <2>2. Old(r, a) \cup Placed(r, a) \subseteq r.slots
    BY <1>5 DEF Old, Placed, OnObserved, OnMoves
  <2> QED BY <1>5, <2>1, <2>2 DEF ReferenceRows, Stands, OnMoves, OnReference, OnObserved, OnAssigned
<1>1. CASE r.kind \in {"save", "guide"}
  <2>1. Writes(r, a) = ReferenceRows(r.pressing, {s \in Slot : a.reference[r.pressing][s] # NoExpectation
                                                               \/ r.reference[s] # NoExpectation})
    BY <1>1 DEF Writes
  <2>2. \A s \in Slot : Submitted(r)[s] # NoExpectation => r.reference[s] # NoExpectation
    BY DEF Submitted, NoExpectation
  <2>3. Old(r, a) \cup Placed(r, a) \subseteq
          {s \in Slot : a.reference[r.pressing][s] # NoExpectation \/ r.reference[s] # NoExpectation}
    BY <1>1, <2>2 DEF Old, Placed
  <2> QED BY <1>1, <2>1, <2>3 DEF ReferenceRows, OnMoves, OnReference, OnObserved, OnAssigned
<1>2. CASE r.kind \in {"review", "edit"}
  <2>1. Writes(r, a) = ReferenceRows(r.pressing, r.slots)
    BY <1>2 DEF Writes
  <2>2. Old(r, a) \cup Placed(r, a) \subseteq r.slots
    BY <1>2 DEF Old, Placed, OnObserved
  <2> QED BY <1>2, <2>1, <2>2 DEF ReferenceRows, OnMoves, OnReference, OnObserved, OnAssigned
<1>3. CASE r.kind \in OnObserved
  <2>1. Writes(r, a) = ObservedRows(r.listing, {s \in r.slots : a.observed[r.listing][s] # NoObservation
                                                               \/ r.observed[s] # NoObservation})
    BY <1>3 DEF Writes, OnObserved
  <2>2. Old(r, a) \cup Placed(r, a) \subseteq
          {s \in r.slots : a.observed[r.listing][s] # NoObservation \/ r.observed[s] # NoObservation}
    BY <1>3 DEF Old, Placed, OnObserved
  <2> QED BY <1>3, <2>1, <2>2 DEF ObservedRows, OnMoves, OnReference, OnObserved, OnAssigned
<1>4. CASE r.kind \in OnAssigned \cup {"profile"}
  BY <1>4 DEF Writes, OnMoves, OnReference, OnObserved, OnAssigned
<1> QED BY <1>1, <1>2, <1>3, <1>4, <1>5, RequestTypes DEF OnReference, OnMoves

\* The rows that are written, by what is written
LEMMA WrittenRows ==
  ASSUME NEW r \in Requests, NEW a
  PROVE  /\ \A l, y : <<"observed", l, y>> \in Writes(r, a) =>
               r.kind \in OnObserved /\ l = r.listing
         /\ \A p, y : <<"reference", p, y>> \in Writes(r, a) =>
               r.kind \in OnReference /\ (p = r.pressing \/ p \in Left(r))
         /\ \A l : <<"assigned", l>> \in Writes(r, a) => r.kind \in OnAssigned
         /\ <<"profile">> \in Writes(r, a) => r.kind = "profile"
<1>5. CASE r.kind \in OnMoves
  <2>1. Writes(r, a) \subseteq
          ReferenceRows(r.pressing, r.slots) \cup ReferenceRows(r.source[1], {r.source[2]})
    BY <1>5 DEF Writes, OnMoves
  <2> QED BY <1>5, <2>1 DEF ReferenceRows, Left, OnMoves, OnReference
<1>1. CASE r.kind \in OnReference \ OnMoves
  <2>1. \E slots : Writes(r, a) = ReferenceRows(r.pressing, slots)
    BY <1>1 DEF Writes, OnReference, OnMoves
  <2> QED BY <1>1, <2>1 DEF ReferenceRows
<1>2. CASE r.kind \in OnObserved
  <2>1. \E slots : Writes(r, a) = ObservedRows(r.listing, slots)
    BY <1>2 DEF Writes, OnObserved
  <2> QED BY <1>2, <2>1 DEF ObservedRows
<1>3. CASE r.kind \in OnAssigned
  BY <1>3 DEF Writes, OnAssigned
<1>4. CASE r.kind = "profile"
  BY <1>4 DEF Writes
<1> QED BY <1>1, <1>2, <1>3, <1>4, <1>5, RequestTypes

LEMMA RefusalNone ==
  ASSUME NEW r, NEW rows, NEW token, Refusal(r, rows, token) = "none"
  PROVE  /\ Storable(r)
         /\ r.kind = "review" => \E s \in r.slots : rows.reference[r.pressing][s] # r.reference[s]
         /\ r.kind = "profile" => rows.profile # r.profile
         /\ ~Stale(r, rows, token)
BY DEF Refusal

\* Where a row is written a statement fires.
LEMMA SomethingFires ==
  ASSUME NEW r \in Requests, NEW a \in Tables, NEW token, Refusal(r, a, token) = "none",
         Writes(r, a) # {}
  PROVE  Old(r, a) \cup Placed(r, a) # {}
<1>1. CASE r.kind \in {"save", "guide"}
  <2>1. PICK s \in Slot : a.reference[r.pressing][s] # NoExpectation \/ r.reference[s] # NoExpectation
    BY <1>1 DEF Writes, ReferenceRows
  <2>2. r.reference[s] # NoExpectation => Submitted(r)[s] # NoExpectation
    <3>1. CASE r.kind \in {"save", "edit", "move"} /\ r.reference[s].state = "NOT_INCLUDED"
      <4>1. r.reference[s] \in Expectation
        BY <3>1, RequestTypes DEF Reference, NoExpectation
      <4>2. Submitted(r)[s].state = "NOT_INCLUDED"
        BY <3>1, <4>1 DEF Submitted, Expectation
      <4> QED BY <4>2 DEF NoExpectation
    <3>2. CASE ~(r.kind \in {"save", "edit", "move"} /\ r.reference[s].state = "NOT_INCLUDED")
      BY <3>2 DEF Submitted
    <3> QED BY <3>1, <3>2
  <2>3. s \in Old(r, a) \/ s \in Placed(r, a)
    BY <1>1, <2>1, <2>2 DEF Old, Placed
  <2> QED BY <2>3
<1>2. CASE r.kind = "edit"
  BY <1>2 DEF Writes, ReferenceRows, Placed
<1>7. CASE r.kind \in OnMoves
  BY <1>7, RequestTypes DEF Placed, OnMoves
<1>3. CASE r.kind = "review"
  BY <1>3, RefusalNone DEF Placed
<1>4. CASE r.kind \in OnObserved
  <2>1. PICK s \in r.slots : a.observed[r.listing][s] # NoObservation \/ r.observed[s] # NoObservation
    BY <1>4 DEF Writes, ObservedRows, OnObserved
  <2>2. s \in Old(r, a) \/ s \in Placed(r, a)
    BY <1>4, <2>1 DEF Old, Placed, OnObserved
  <2> QED BY <2>2
<1>5. CASE r.kind \in OnAssigned
  BY <1>5 DEF Placed, OnAssigned
<1>6. CASE r.kind = "profile"
  <2>1. a.profile # r.profile
    BY <1>6, RefusalNone
  <2> QED BY <1>6, <2>1 DEF Placed
<1> QED BY <1>1, <1>2, <1>3, <1>4, <1>5, <1>6, <1>7, RequestTypes DEF OnReference, OnMoves

LEMMA WorkedKeeps ==
  ASSUME NEW r \in Requests, NEW w, WorkOK(w), w.captured = {}, w.added = {}, NEW token,
         Refusal(r, w.tables, token) = "none"
  PROVE  LET v == Worked(r, w)
             wrote == Writes(r, w.tables) IN
         /\ WorkOK(v) /\ v.history = w.history /\ v.at = w.at /\ w.id <= v.id
         /\ OffWrites(wrote, w.tables, v.tables)
         /\ Left(r) = {} => Captures(wrote, v.captured, w.tables)
         /\ \A l \in Listing \ v.captured :
              w.tables.assigned[l] \notin Left(r) => SamePayload(w.tables, v.tables, l)
         /\ InOrder(w) => Recorded(v)
         /\ \A h \in v.added : h.id >= w.id
<1> DEFINE v == Worked(r, w)
           wrote == Writes(r, w.tables)
           X == Old(r, w.tables) \cup Placed(r, w.tables)
<1>1. w.tables \in Tables /\ Storable(r)
  BY RefusalNone DEF WorkOK
<1>2. Reached(r, X, w, v, X # {})
  BY <1>1, WorkedReaches
<1>3. /\ WorkOK(v) /\ v.history = w.history /\ v.at = w.at /\ w.id <= v.id
      /\ Differ(r, X, w.tables, v.tables)
      /\ X # {} => v.captured = Affects(r, w.tables)
      /\ \A l \in Listing \ v.captured :
           w.tables.assigned[l] \notin Left(r) => SamePayload(w.tables, v.tables, l)
      /\ InOrder(w) => Recorded(v)
      /\ \A h \in v.added : h.id >= w.id
  BY <1>2 DEF Reached
<1>4. /\ r.kind \in OnReference => \A y \in X : <<"reference", r.pressing, y>> \in wrote
      /\ r.kind \in OnMoves => \/ w.tables.reference[r.source[1]][r.source[2]] = NoExpectation
                               \/ <<"reference", r.source[1], r.source[2]>> \in wrote
      /\ r.kind \in OnObserved => \A y \in X : <<"observed", r.listing, y>> \in wrote
      /\ r.kind \in OnAssigned => <<"assigned", r.listing>> \in wrote
      /\ r.kind = "profile" => <<"profile">> \in wrote
  BY <1>1, WritesCover
<1>5. wrote # {} => X # {}
  BY <1>1, SomethingFires
<1>6. /\ \A l, y : <<"observed", l, y>> \in wrote => r.kind \in OnObserved /\ l = r.listing
      /\ \A p, y : <<"reference", p, y>> \in wrote =>
            r.kind \in OnReference /\ (p = r.pressing \/ p \in Left(r))
      /\ <<"profile">> \in wrote => r.kind = "profile"
  BY WrittenRows
<1> HIDE DEF v, wrote, X
<1>7. OffWrites(wrote, w.tables, v.tables)
  BY <1>3, <1>4 DEF Differ, OffWrites
<1>8. ASSUME Left(r) = {}
      PROVE  Captures(wrote, v.captured, w.tables)
  <2> SUFFICES ASSUME NEW l \in Listing,
                      \/ \E y \in Slot : <<"observed", l, y>> \in wrote
                      \/ w.tables.assigned[l] # None
                         /\ (\/ <<"profile">> \in wrote
                             \/ \E y \in Slot : <<"reference", w.tables.assigned[l], y>> \in wrote)
               PROVE  l \in v.captured
    BY DEF Captures
  <2>1. v.captured = Affects(r, w.tables)
    BY <1>3, <1>5
  <2>2. CASE \E y \in Slot : <<"observed", l, y>> \in wrote
    BY <1>6, <2>1, <2>2 DEF Affects, OnReference, OnObserved, OnAssigned
  <2>3. CASE w.tables.assigned[l] # None /\ <<"profile">> \in wrote
    BY <1>6, <2>1, <2>3 DEF Affects, OnReference, OnObserved, OnAssigned
  <2>4. CASE \E y \in Slot : <<"reference", w.tables.assigned[l], y>> \in wrote
    <3>1. r.kind \in OnReference /\ w.tables.assigned[l] = r.pressing
      BY <1>6, <1>8, <2>4
    <3> QED BY <2>1, <3>1 DEF Affects, AssignedTo, OnReference, OnObserved, OnAssigned
  <2> QED BY <2>2, <2>3, <2>4
<1> QED BY <1>3, <1>7, <1>8 DEF v, wrote

-----------------------------------------------------------------------------
(* What is remembered of the snapshots                                     *)

\* All the snapshots there are, committed or not
Known == history \cup UNION {tx[s].added : s \in Session}

SessionData(s) ==
  /\ tx[s].phase \in {"idle", "planned", "begun", "looked", "written", "raised"}
  /\ tx[s].request \in Requests \cup {NoRequest}
  /\ tx[s].at \in 0 .. begun
  /\ Open(s) <=> tx[s].at > 0
  /\ tx[s].since \in 0 .. Len(done)
  /\ ~Open(s) => tx[s].since = 0
  /\ tx[s].phase = "looked" => tx[s].base \in Tables /\ tx[s].past \subseteq history
  /\ tx[s].phase = "written" => tx[s].mine \in Tables
  /\ tx[s].phase # "written" => tx[s].added = {}

DataInv ==
  /\ tables \in Tables
  /\ nextId \in Nat \ {0} /\ begun \in 0 .. MaxBegun
  /\ \A k \in 1 .. Len(done) : done[k].since \in 0 .. k - 1
  /\ \A h \in Known : h.id \in 1 .. nextId - 1 /\ h.at \in 0 .. begun /\ h.listing \in Listing
  /\ Told(Known)
  /\ \A s \in Session : SessionData(s)

\* A step in which a session's transaction ends without a commit, or has yet to begin
Quiet(s) ==
  /\ tables' = tables /\ history' = history /\ done' = done /\ begun' = begun
  /\ nextId' \in Nat /\ nextId <= nextId'
  /\ DOMAIN tx' = Session
  /\ \A o \in Others(s) : tx'[o] = tx[o]
  /\ tx'[s].phase \in {"idle", "planned", "raised"}
  /\ tx'[s].request \in Requests \cup {NoRequest}
  /\ tx'[s].at = 0 /\ tx'[s].since = 0 /\ tx'[s].added = {}

\* What its statements start from
Before(s) ==
  [tables |-> IF Serial(s) THEN tx[s].base ELSE tables,
   history |-> IF Serial(s) THEN tx[s].past ELSE history,
   added |-> {}, captured |-> {}, id |-> nextId, at |-> tx[s].at]

\* The write that goes through
WritesIt(s) ==
  LET w == Before(s)
      r == tx[s].request
      v == Worked(r, w) IN
  /\ tx[s].phase = IF Serial(s) THEN "looked" ELSE "begun"
  /\ Refusal(r, w.tables, tx[s].token) = "none" /\ FindsItsEvent(r)
  /\ tables' = tables /\ history' = history /\ done' = done /\ begun' = begun
  /\ nextId' = v.id
  /\ DOMAIN tx' = Session
  /\ \A o \in Others(s) : tx'[o] = tx[o]
  /\ tx'[s].phase = "written" /\ tx'[s].request = r
  /\ tx'[s].at = tx[s].at /\ tx'[s].since = tx[s].since /\ tx'[s].met = tx[s].met
  /\ tx'[s].mine = v.tables /\ tx'[s].added = v.added
  /\ tx'[s].wrote = Writes(r, w.tables)
  /\ Serial(s) => tx'[s].reads = Reads(r, v)

\* The commit that goes through
CommitsIt(s) ==
  /\ tx[s].phase = "written" /\ ~(Serial(s) /\ Dangerous(s))
  /\ tables' = Merged(tx[s].mine, tx[s].wrote)
  /\ history' = history \cup tx[s].added
  /\ nextId' = nextId /\ begun' = begun
  /\ DOMAIN tx' = Session /\ tx'[s] = Idle
  /\ \A o \in Others(s) : tx'[o] = tx[o]
  /\ done' = IF \E o \in Others(s) : Open(o)
             THEN Append(done, [serial |-> Serial(s), since |-> tx[s].since,
                                wrote |-> Footprint(s), reads |-> tx[s].reads])
             ELSE << >>

LooksIt(s) ==
  /\ tx[s].phase = "begun" /\ Serial(s)
  /\ tables' = tables /\ history' = history /\ done' = done /\ begun' = begun /\ nextId' = nextId
  /\ DOMAIN tx' = Session
  /\ \A o \in Others(s) : tx'[o] = tx[o]
  /\ tx'[s].phase = "looked" /\ tx'[s].request = tx[s].request
  /\ tx'[s].at = tx[s].at /\ tx'[s].met = tx[s].met
  /\ tx'[s].base = tables /\ tx'[s].past = history /\ tx'[s].since = Len(done)
  /\ tx'[s].added = tx[s].added

BeginsIt(s, r) ==
  /\ ~Open(s) /\ r \in Requests
  /\ tables' = tables /\ history' = history /\ done' = done /\ nextId' = nextId
  /\ begun < MaxBegun /\ begun' = begun + 1
  /\ DOMAIN tx' = Session
  /\ tx'[s].phase = "begun" /\ tx'[s].request = r /\ tx'[s].at = begun + 1
  /\ tx'[s].since = tx[s].since /\ tx'[s].added = tx[s].added
  /\ tx'[s].met = {Standing(q) : q \in {q \in Others(s) : Open(q)}}
  /\ \A o \in Others(s) :
       IF Open(o)
       THEN /\ \A f \in Fields \ {"met"} : tx'[o][f] = tx[o][f]
            /\ DOMAIN tx'[o] = Fields
            /\ tx'[o].met = tx[o].met \cup {IF r.kind \in Plain THEN "plain" ELSE "isolated"}
       ELSE tx'[o] = tx[o]

LEMMA IdleFields ==
  /\ Idle.phase = "idle" /\ Idle.request = NoRequest /\ Idle.at = 0 /\ Idle.since = 0 /\ Idle.added = {}
  /\ \A r, why : LET t == [Idle EXCEPT !.request = r, !.phase = "raised", !.why = why] IN
       t.phase = "raised" /\ t.request = r /\ t.at = 0 /\ t.since = 0 /\ t.added = {}
  /\ \A r, token : LET t == [Idle EXCEPT !.request = r, !.phase = "planned", !.token = token] IN
       t.phase = "planned" /\ t.request = r /\ t.at = 0 /\ t.since = 0 /\ t.added = {}
BY DEF Idle

\* What the statements start from is in order.
LEMMA BeforeOK ==
  ASSUME CallsInv, DataInv, NEW s \in Session,
         tx[s].phase = IF Serial(s) THEN "looked" ELSE "begun"
  PROVE  LET w == Before(s) IN
         /\ WorkOK(w) /\ w.captured = {} /\ w.added = {}
         /\ w.id = nextId /\ w.at = tx[s].at /\ w.history \subseteq history
<1> DEFINE w == Before(s)
<1>1. /\ DOMAIN w = WorkFields
      /\ w.tables = IF Serial(s) THEN tx[s].base ELSE tables
      /\ w.history = IF Serial(s) THEN tx[s].past ELSE history
      /\ w.added = {} /\ w.captured = {} /\ w.id = nextId /\ w.at = tx[s].at
  BY DEF Before, WorkFields
<1> HIDE DEF w
<1>2. SessionData(s) /\ tables \in Tables /\ nextId \in Nat /\ begun \in Nat
  BY CompletenessAssumption DEF DataInv
<1>3. w.history \subseteq history /\ w.tables \in Tables /\ w.at \in Nat
  BY <1>1, <1>2 DEF SessionData
<1>4. \A h \in history : h.id \in Nat /\ h.id < nextId /\ h.at \in Nat
  <2> SUFFICES ASSUME NEW h \in history
               PROVE  h.id \in Nat /\ h.id < nextId /\ h.at \in Nat
    OBVIOUS
  <2>1. h.id \in 1 .. nextId - 1 /\ h.at \in 0 .. begun
    BY DEF DataInv, Known
  <2> QED BY <1>2, <2>1
<1>5. Told(w.history \cup w.added)
  BY <1>1, <1>3 DEF DataInv, Known, Told
<1>6. WorkOK(w)
  BY <1>1, <1>2, <1>3, <1>4, <1>5 DEF WorkOK
<1> QED BY <1>1, <1>3, <1>6 DEF w

LEMMA WrittenTypes ==
  ASSUME CallsInv, DataInv, NEW s \in Session,
         tx[s].phase = IF Serial(s) THEN "looked" ELSE "begun",
         Refusal(tx[s].request, Before(s).tables, tx[s].token) = "none"
  PROVE  LET w == Before(s)
             r == tx[s].request
             v == Worked(r, w)
             wrote == Writes(r, w.tables) IN
         /\ r \in Requests
         /\ WorkOK(v) /\ v.history = w.history /\ v.at = tx[s].at /\ nextId <= v.id
         /\ OffWrites(wrote, w.tables, v.tables)
         /\ Left(r) = {} => Captures(wrote, v.captured, w.tables)
         /\ \A l \in Listing \ v.captured :
              w.tables.assigned[l] \notin Left(r) => SamePayload(w.tables, v.tables, l)
         /\ InOrder(w) => Recorded(v)
         /\ \A h \in v.added : h.id >= nextId
<1> DEFINE w == Before(s)
           r == tx[s].request
<1>1. r \in Requests
  BY SessionTypes
<1>2. WorkOK(w) /\ w.captured = {} /\ w.added = {} /\ w.id = nextId /\ w.at = tx[s].at
  BY BeforeOK
<1>3. Refusal(r, w.tables, tx[s].token) = "none"
  OBVIOUS
<1> HIDE DEF w, r
<1>4. LET v == Worked(r, w)
          wrote == Writes(r, w.tables) IN
      /\ WorkOK(v) /\ v.history = w.history /\ v.at = w.at /\ w.id <= v.id
      /\ OffWrites(wrote, w.tables, v.tables)
      /\ Left(r) = {} => Captures(wrote, v.captured, w.tables)
      /\ \A l \in Listing \ v.captured :
           w.tables.assigned[l] \notin Left(r) => SamePayload(w.tables, v.tables, l)
      /\ InOrder(w) => Recorded(v)
      /\ \A h \in v.added : h.id >= w.id
  BY <1>1, <1>2, <1>3, WorkedKeeps
<1> QED BY <1>1, <1>2, <1>4 DEF w, r

LEMMA RaisesQuietly ==
  ASSUME CallsInv, DataInv, NEW s \in Session, NEW why, tx' = Raised(s, why),
         tables' = tables, history' = history, done' = done, begun' = begun,
         nextId' \in Nat, nextId <= nextId'
  PROVE  Quiet(s)
<1> DEFINE t == [Idle EXCEPT !.request = tx[s].request, !.phase = "raised", !.why = why]
<1>1. tx' = [tx EXCEPT ![s] = t]
  BY DEF Raised
<1>2. t.phase = "raised" /\ t.request = tx[s].request /\ t.at = 0 /\ t.since = 0 /\ t.added = {}
  BY IdleFields
<1>3. tx[s].request \in Requests \cup {NoRequest}
  BY DEF DataInv, SessionData
<1> HIDE DEF t
<1>4. DOMAIN tx' = Session /\ tx'[s] = t /\ \A o \in Others(s) : tx'[o] = tx[o]
  BY <1>1, SessionTypes DEF CallsInv, CommonOK, Others
<1> QED BY <1>2, <1>3, <1>4 DEF Quiet

LEMMA WriteDoes ==
  ASSUME CallsInv, DataInv, NEW s \in Session, Write(s)
  PROVE  Quiet(s) \/ WritesIt(s)
<1> DEFINE u == tx[s]
           w == Before(s)
           rows == IF Serial(s) THEN u.base ELSE tables
           work == Worked(u.request, [tables |-> rows, history |-> IF Serial(s) THEN u.past ELSE history,
                                      added |-> {}, captured |-> {}, id |-> nextId, at |-> u.at])
           why == IF Conflicts(s, rows) THEN "conflict" ELSE Refusal(u.request, rows, u.token)
           wrote == Writes(u.request, rows)
           seen == IF Serial(s) THEN Reads(u.request, work) ELSE {}
           t == [u EXCEPT !.phase = "written", !.base = {}, !.past = {}, !.mine = work.tables,
                          !.added = work.added, !.wrote = wrote, !.reads = seen]
<1>1. /\ u.phase = IF Serial(s) THEN "looked" ELSE "begun"
      /\ tables' = tables /\ history' = history /\ done' = done /\ begun' = begun
  BY DEF Write
<1>2. \/ why # "none" /\ tx' = Raised(s, why) /\ nextId' = nextId
      \/ why = "none" /\ nextId' = work.id /\ ~FindsItsEvent(u.request) /\ tx' = Raised(s, "no event")
      \/ why = "none" /\ nextId' = work.id /\ FindsItsEvent(u.request) /\ tx' = [tx EXCEPT ![s] = t]
  BY DEF Write
<1>3. work = Worked(u.request, w) /\ rows = w.tables
  BY DEF Before
<1>4. nextId \in Nat
  BY DEF DataInv
<1> HIDE DEF work, rows, wrote, seen
<1>5. CASE why # "none" /\ tx' = Raised(s, why) /\ nextId' = nextId
  <2> HIDE DEF why
  <2> QED BY <1>1, <1>4, <1>5, RaisesQuietly
<1>6. CASE why = "none" /\ nextId' = work.id
  <2>1. Refusal(u.request, w.tables, u.token) = "none"
    BY <1>3, <1>6
  <2>2. work.id \in Nat /\ nextId <= work.id
    <3>1. LET v == Worked(tx[s].request, Before(s)) IN WorkOK(v) /\ nextId <= v.id
      BY <1>1, <2>1, WrittenTypes
    <3> QED BY <1>3, <3>1 DEF WorkOK
  <2>3. CASE tx' = Raised(s, "no event")
    BY <1>1, <1>6, <2>2, <2>3, RaisesQuietly
  <2>4. CASE FindsItsEvent(u.request) /\ tx' = [tx EXCEPT ![s] = t]
    <3>1. DOMAIN tx' = Session /\ tx'[s] = t /\ \A o \in Others(s) : tx'[o] = tx[o]
      BY <2>4, SessionTypes DEF CallsInv, CommonOK, Others
    <3>2. /\ t.phase = "written" /\ t.request = u.request /\ t.at = u.at /\ t.since = u.since
          /\ t.met = u.met /\ t.mine = work.tables /\ t.added = work.added
          /\ t.wrote = wrote /\ t.reads = seen
      BY SessionTypes DEF Fields
    <3> HIDE DEF t
    <3>3. wrote = Writes(u.request, w.tables) /\ (Serial(s) => seen = Reads(u.request, work))
      BY <1>3 DEF wrote, seen
    <3> HIDE DEF w
    <3>4. /\ tx'[s].phase = "written" /\ tx'[s].request = u.request
          /\ tx'[s].at = u.at /\ tx'[s].since = u.since /\ tx'[s].met = u.met
          /\ tx'[s].mine = work.tables /\ tx'[s].added = work.added
          /\ tx'[s].wrote = Writes(u.request, w.tables)
          /\ Serial(s) => tx'[s].reads = Reads(u.request, work)
      BY <3>1, <3>2, <3>3
    <3> QED BY <1>1, <1>3, <1>6, <2>1, <2>4, <3>1, <3>4 DEF WritesIt, w
  <2> QED BY <1>2, <1>6, <2>3, <2>4
<1> QED BY <1>2, <1>5, <1>6

LEMMA CommitDoes ==
  ASSUME CallsInv, DataInv, NEW s \in Session, Commit(s)
  PROVE  Quiet(s) \/ CommitsIt(s)
<1>1. CASE tx' = Close(s)
  <2>1. history' = history \cup tx[s].added /\ nextId' = nextId /\ begun' = begun
    <3>1. ~ \E w : tx' = Raised(s, w)
      <4> SUFFICES ASSUME NEW w, tx' = Raised(s, w) PROVE FALSE
        OBVIOUS
      <4>1. tx'[s] = [Idle EXCEPT !.request = tx[s].request, !.phase = "raised", !.why = w]
        BY SessionTypes DEF Raised
      <4>2. tx'[s].phase = "raised"
        BY <4>1, RaisedShape
      <4>3. tx'[s] = Idle
        BY <1>1, CommitEffect
      <4> QED BY <4>2, <4>3, IdleShape
    <3> QED BY <3>1 DEF Commit
  <2> QED BY <1>1, <2>1, CommitEffect DEF CommitsIt
<1>2. CASE tx' # Close(s)
  <2>1. /\ tx' = Raised(s, "conflict") /\ tables' = tables /\ history' = history /\ done' = done
        /\ nextId' = nextId /\ begun' = begun
    BY <1>2 DEF Commit
  <2>2. nextId \in Nat
    BY DEF DataInv
  <2> QED BY <2>1, <2>2, RaisesQuietly
<1> QED BY <1>1, <1>2

LEMMA LookDoes ==
  ASSUME CallsInv, NEW s \in Session, Look(s)
  PROVE  LooksIt(s)
<1> DEFINE t == [tx[s] EXCEPT !.phase = "looked", !.base = tables, !.past = history,
                              !.since = Len(done)]
<1>1. /\ tx' = [tx EXCEPT ![s] = t] /\ tx[s].phase = "begun" /\ Serial(s)
      /\ tables' = tables /\ history' = history /\ done' = done /\ begun' = begun /\ nextId' = nextId
  BY DEF Look
<1>2. DOMAIN tx' = Session /\ tx'[s] = t /\ \A o \in Others(s) : tx'[o] = tx[o]
  BY <1>1, SessionTypes DEF CallsInv, CommonOK, Others
<1>3. /\ t.phase = "looked" /\ t.request = tx[s].request
      /\ t.at = tx[s].at /\ t.base = tables /\ t.past = history /\ t.since = Len(done)
      /\ t.met = tx[s].met /\ t.added = tx[s].added
  BY SessionTypes DEF Fields
<1> HIDE DEF t
<1> QED BY <1>1, <1>2, <1>3 DEF LooksIt

LEMMA BeginDoes ==
  ASSUME CallsInv, NEW s \in Session, NEW r \in Requests, Begin(s, r)
  PROVE  BeginsIt(s, r)
<1> DEFINE met == {Standing(q) : q \in {q \in Others(s) : Open(q)}}
           t == [tx[s] EXCEPT !.request = r, !.phase = "begun", !.at = begun + 1, !.met = met]
           Meets(o) == [tx[o] EXCEPT !.met = @ \cup {IF r.kind \in Plain THEN "plain" ELSE "isolated"}]
<1>1. /\ tx' = [o \in Session |-> IF o = s THEN t ELSE IF Open(o) THEN Meets(o) ELSE tx[o]]
      /\ tables' = tables /\ history' = history /\ done' = done /\ nextId' = nextId
      /\ begun < MaxBegun /\ begun' = begun + 1
  BY DEF Begin
<1>2. /\ DOMAIN tx' = Session /\ tx'[s] = t
      /\ \A o \in Others(s) : tx'[o] = IF Open(o) THEN Meets(o) ELSE tx[o]
  BY <1>1 DEF Others
<1>3. /\ t.phase = "begun" /\ t.request = r /\ t.at = begun + 1
      /\ t.since = tx[s].since /\ t.added = tx[s].added /\ t.met = met
  BY SessionTypes DEF Fields
<1>4. ASSUME NEW o \in Others(s), Open(o)
      PROVE  /\ \A f \in Fields \ {"met"} : tx'[o][f] = tx[o][f]
             /\ DOMAIN tx'[o] = Fields
             /\ tx'[o].met = tx[o].met \cup {IF r.kind \in Plain THEN "plain" ELSE "isolated"}
  <2>1. DOMAIN tx[o] = Fields
    BY SessionTypes DEF Others
  <2>2. tx'[o] = Meets(o)
    BY <1>2, <1>4
  <2> QED BY <2>1, <2>2 DEF Fields
<1>5. ~Open(s)
  BY IdleShape DEF Begin, Open
<1> HIDE DEF t, Meets, met
<1>6. /\ tx'[s].phase = "begun" /\ tx'[s].request = r /\ tx'[s].at = begun + 1
      /\ tx'[s].since = tx[s].since /\ tx'[s].added = tx[s].added /\ tx'[s].met = met
  BY <1>2, <1>3
<1> QED BY <1>1, <1>2, <1>4, <1>5, <1>6 DEF BeginsIt, met

\* Whatever happens is one of these.
LEMMA NextDoes ==
  ASSUME CallsInv, DataInv, [Next]_vars
  PROVE  \/ \E s \in Session : \/ Quiet(s) \/ LooksIt(s) \/ WritesIt(s) \/ CommitsIt(s)
                               \/ \E r \in Requests : BeginsIt(s, r)
         \/ UNCHANGED vars
<1>1. nextId \in Nat
  BY DEF DataInv
<1>2. ASSUME NEW s \in Session, NEW r \in Requests, Preview(s, r)
      PROVE  Quiet(s)
  <2> DEFINE t == [Idle EXCEPT !.request = r, !.phase = "planned", !.token = Token(r, tables)]
  <2>1. /\ tx' = [tx EXCEPT ![s] = t] /\ tables' = tables /\ history' = history /\ done' = done
        /\ begun' = begun /\ nextId' = nextId
    <3>1. tx[s] = Idle
      BY <1>2 DEF Preview
    <3> QED BY <1>2, <3>1 DEF Preview
  <2>2. t.phase = "planned" /\ t.request = r /\ t.at = 0 /\ t.since = 0 /\ t.added = {}
    BY IdleFields
  <2> HIDE DEF t
  <2>3. DOMAIN tx' = Session /\ tx'[s] = t /\ \A o \in Others(s) : tx'[o] = tx[o]
    BY <2>1, SessionTypes DEF CallsInv, CommonOK, Others
  <2> QED BY <1>1, <2>1, <2>2, <2>3 DEF Quiet
<1>3. ASSUME NEW s \in Session, End(s)
      PROVE  Quiet(s)
  <2>1. /\ tx' = [tx EXCEPT ![s] = Idle] /\ tables' = tables /\ history' = history /\ done' = done
        /\ begun' = begun /\ nextId' = nextId
    BY <1>3 DEF End, Close
  <2>2. DOMAIN tx' = Session /\ tx'[s] = Idle /\ \A o \in Others(s) : tx'[o] = tx[o]
    BY <2>1, SessionTypes DEF CallsInv, CommonOK, Others
  <2>3. Idle.phase = "idle" /\ Idle.request = NoRequest /\ Idle.at = 0 /\ Idle.since = 0 /\ Idle.added = {}
    BY IdleFields
  <2> QED BY <1>1, <2>1, <2>2, <2>3 DEF Quiet
<1>4. ASSUME NEW s \in Session, NEW r \in Requests, Begin(s, r)
      PROVE  BeginsIt(s, r)
  BY <1>4, BeginDoes
<1>5. ASSUME NEW s \in Session, Look(s)
      PROVE  LooksIt(s)
  BY <1>5, LookDoes
<1>6. ASSUME NEW s \in Session, Write(s)
      PROVE  Quiet(s) \/ WritesIt(s)
  BY <1>6, WriteDoes
<1>7. ASSUME NEW s \in Session, Commit(s)
      PROVE  Quiet(s) \/ CommitsIt(s)
  BY <1>7, CommitDoes
<1> HIDE DEF Quiet, BeginsIt, LooksIt, WritesIt, CommitsIt
<1>8. CASE Next
  <2>1. PICK s \in Session : \/ \E r \in Requests : Preview(s, r) \/ Begin(s, r)
                             \/ Look(s) \/ Write(s) \/ Commit(s) \/ End(s)
    BY <1>8 DEF Next
  <2>2. CASE \E r \in Requests : Preview(s, r) \/ Begin(s, r)
    BY <1>2, <1>4, <2>2
  <2>3. CASE Look(s) \/ Write(s)
    BY <1>5, <1>6, <2>3
  <2>4. CASE Commit(s) \/ End(s)
    BY <1>3, <1>7, <2>4
  <2> QED BY <2>1, <2>2, <2>3, <2>4
<1> QED BY <1>8

-----------------------------------------------------------------------------
(* The types, and the ids                                                  *)

\* A transaction that goes on as it was, while the rest has only grown
LEMMA DataStays ==
  ASSUME DataInv, NEW o \in Session,
         \A f \in Fields \ {"met"} : tx'[o][f] = tx[o][f],
         history \subseteq history', begun' \in Nat, begun <= begun',
         Len(done') \in Nat, Len(done) <= Len(done') \/ ~Open(o)
  PROVE  SessionData(o)'
<1>1. /\ tx'[o].phase = tx[o].phase /\ tx'[o].request = tx[o].request /\ tx'[o].at = tx[o].at
      /\ tx'[o].since = tx[o].since /\ tx'[o].base = tx[o].base /\ tx'[o].past = tx[o].past
      /\ tx'[o].mine = tx[o].mine /\ tx'[o].added = tx[o].added
  BY DEF Fields
<1>2. SessionData(o) /\ begun \in Nat
  BY CompletenessAssumption DEF DataInv
<1>3. Open(o)' = Open(o)
  BY <1>1 DEF Open
<1>4. tx'[o].at \in 0 .. begun'
  BY <1>1, <1>2 DEF SessionData
<1>5. tx'[o].since \in 0 .. Len(done')
  <2>1. CASE Open(o)
    BY <1>1, <1>2, <2>1 DEF SessionData
  <2>2. CASE ~Open(o)
    BY <1>1, <1>2, <2>2 DEF SessionData
  <2> QED BY <2>1, <2>2
<1> QED BY <1>1, <1>2, <1>3, <1>4, <1>5 DEF SessionData

LEMMA SameFields ==
  ASSUME NEW o, tx'[o] = tx[o]
  PROVE  \A f \in Fields \ {"met"} : tx'[o][f] = tx[o][f]
OBVIOUS

\* No snapshot is lost or gained.
LEMMA KnownStays ==
  ASSUME DataInv, NEW T \in SUBSET Known, Known' = T, nextId' \in Nat, nextId <= nextId',
         begun' \in Nat, begun <= begun'
  PROVE  /\ \A h \in Known' : h.id \in 1 .. nextId' - 1 /\ h.at \in 0 .. begun' /\ h.listing \in Listing
         /\ Told(Known')
<1>1. nextId \in Nat /\ begun \in Nat
  BY CompletenessAssumption DEF DataInv
<1>2. ASSUME NEW h \in T
      PROVE  h.id \in 1 .. nextId' - 1 /\ h.at \in 0 .. begun' /\ h.listing \in Listing
  <2>1. h.id \in 1 .. nextId - 1 /\ h.at \in 0 .. begun /\ h.listing \in Listing
    BY DEF DataInv
  <2> QED BY <1>1, <2>1
<1>3. Told(T)
  BY DEF Told, DataInv
<1> QED BY <1>2, <1>3

LEMMA LengthOfDone ==
  ASSUME CallsInv
  PROVE  Len(done) \in Nat /\ DOMAIN done = 1 .. Len(done)
BY DEF CallsInv, CommonOK

LEMMA QuietData ==
  ASSUME CallsInv, DataInv, NEW s \in Session, Quiet(s)
  PROVE  DataInv'
<1>1. nextId \in Nat /\ nextId # 0 /\ begun \in Nat /\ Len(done) \in Nat
  BY LengthOfDone, CompletenessAssumption DEF DataInv
<1>2. /\ tables' = tables /\ history' = history /\ done' = done /\ begun' = begun
      /\ nextId' \in Nat /\ nextId <= nextId'
      /\ \A o \in Others(s) : tx'[o] = tx[o]
      /\ tx'[s].phase \in {"idle", "planned", "raised"}
      /\ tx'[s].request \in Requests \cup {NoRequest}
      /\ tx'[s].at = 0 /\ tx'[s].since = 0 /\ tx'[s].added = {}
  BY DEF Quiet
<1>3. \A o \in Session : tx'[o].added \subseteq tx[o].added
  BY <1>2 DEF Others
<1>4. Known' \in SUBSET Known
  BY <1>2, <1>3 DEF Known
<1>5. /\ \A h \in Known' : h.id \in 1 .. nextId' - 1 /\ h.at \in 0 .. begun' /\ h.listing \in Listing
      /\ Told(Known')
  <2> DEFINE T == Known'
  <2>1. T \in SUBSET Known
    BY <1>4
  <2> QED BY <1>1, <1>2, <2>1, KnownStays
<1>6. SessionData(s)'
  BY <1>1, <1>2 DEF SessionData, Open
<1>7. ASSUME NEW o \in Others(s)
      PROVE  SessionData(o)'
  <2>1. o \in Session /\ tx'[o] = tx[o]
    BY <1>2 DEF Others
  <2> QED BY <1>1, <1>2, <2>1, SameFields, DataStays
<1>8. \A o \in Session : SessionData(o)'
  BY <1>6, <1>7 DEF Others
<1> QED BY <1>1, <1>2, <1>5, <1>8 DEF DataInv

LEMMA LookData ==
  ASSUME CallsInv, DataInv, NEW s \in Session, LooksIt(s)
  PROVE  DataInv'
<1>1. nextId \in Nat /\ nextId # 0 /\ begun \in Nat /\ Len(done) \in Nat /\ tables \in Tables
  BY LengthOfDone, CompletenessAssumption DEF DataInv
<1>2. /\ tx[s].phase = "begun"
      /\ tables' = tables /\ history' = history /\ done' = done /\ begun' = begun /\ nextId' = nextId
      /\ \A o \in Others(s) : tx'[o] = tx[o]
      /\ tx'[s].phase = "looked" /\ tx'[s].request = tx[s].request
      /\ tx'[s].at = tx[s].at
      /\ tx'[s].base = tables /\ tx'[s].past = history /\ tx'[s].since = Len(done)
      /\ tx'[s].added = tx[s].added
  BY DEF LooksIt
<1>3. \A o \in Session : tx'[o].added = tx[o].added
  BY <1>2 DEF Others
<1>4. Known' \in SUBSET Known
  BY <1>2, <1>3 DEF Known
<1>5. /\ \A h \in Known' : h.id \in 1 .. nextId' - 1 /\ h.at \in 0 .. begun' /\ h.listing \in Listing
      /\ Told(Known')
  <2> DEFINE T == Known'
  <2>1. T \in SUBSET Known
    BY <1>4
  <2> QED BY <1>1, <1>2, <2>1, KnownStays
<1>6. SessionData(s)'
  <2>1. SessionData(s)
    BY DEF DataInv
  <2> QED BY <1>1, <1>2, <2>1 DEF SessionData, Open
<1>7. ASSUME NEW o \in Others(s)
      PROVE  SessionData(o)'
  <2>1. o \in Session /\ tx'[o] = tx[o]
    BY <1>2 DEF Others
  <2> QED BY <1>1, <1>2, <2>1, SameFields, DataStays
<1>8. \A o \in Session : SessionData(o)'
  BY <1>6, <1>7 DEF Others
<1> QED BY <1>1, <1>2, <1>5, <1>8 DEF DataInv

LEMMA BeginData ==
  ASSUME CallsInv, DataInv, NEW s \in Session, NEW r \in Requests, BeginsIt(s, r)
  PROVE  DataInv'
<1>1. nextId \in Nat /\ nextId # 0 /\ begun \in Nat /\ Len(done) \in Nat /\ tables \in Tables /\ MaxBegun \in Nat
  BY LengthOfDone, CompletenessAssumption DEF DataInv
<1>2. /\ ~Open(s)
      /\ tables' = tables /\ history' = history /\ done' = done /\ nextId' = nextId
      /\ begun < MaxBegun /\ begun' = begun + 1
      /\ tx'[s].phase = "begun" /\ tx'[s].request = r /\ tx'[s].at = begun + 1
      /\ tx'[s].since = tx[s].since /\ tx'[s].added = tx[s].added
  BY DEF BeginsIt
<1>3. ASSUME NEW o \in Others(s)
      PROVE  \A f \in Fields \ {"met"} : tx'[o][f] = tx[o][f]
  BY DEF BeginsIt
<1>4. \A o \in Session : tx'[o].added = tx[o].added
  BY <1>2, <1>3 DEF Others, Fields
<1>5. Known' \in SUBSET Known
  BY <1>2, <1>4 DEF Known
<1>6. begun' \in Nat /\ begun <= begun' /\ begun' \in 0 .. MaxBegun
  BY <1>1, <1>2
<1>7. /\ \A h \in Known' : h.id \in 1 .. nextId' - 1 /\ h.at \in 0 .. begun' /\ h.listing \in Listing
      /\ Told(Known')
  <2> DEFINE T == Known'
  <2>1. T \in SUBSET Known
    BY <1>5
  <2> QED BY <1>1, <1>2, <1>6, <2>1, KnownStays
<1>8. SessionData(s)'
  <2>1. SessionData(s)
    BY DEF DataInv
  <2>2. tx[s].added = {} /\ tx[s].since = 0
    BY <1>2, <2>1 DEF SessionData, Open
  <2> QED BY <1>1, <1>2, <2>2 DEF SessionData, Open
<1>9. ASSUME NEW o \in Others(s)
      PROVE  SessionData(o)'
  <2>1. o \in Session /\ \A f \in Fields \ {"met"} : tx'[o][f] = tx[o][f]
    BY <1>3 DEF Others
  <2> QED BY <1>1, <1>2, <1>6, <2>1, DataStays
<1>10. \A o \in Session : SessionData(o)'
  BY <1>8, <1>9 DEF Others
<1> QED BY <1>1, <1>2, <1>6, <1>7, <1>10 DEF DataInv

LEMMA WriteData ==
  ASSUME CallsInv, DataInv, NEW s \in Session, WritesIt(s)
  PROVE  DataInv'
<1>1. nextId \in Nat /\ nextId # 0 /\ begun \in Nat /\ Len(done) \in Nat /\ tables \in Tables
  BY LengthOfDone, CompletenessAssumption DEF DataInv
<1> DEFINE v == Worked(tx[s].request, Before(s))
<1>2. /\ tx[s].phase = IF Serial(s) THEN "looked" ELSE "begun"
      /\ Refusal(tx[s].request, Before(s).tables, tx[s].token) = "none"
      /\ tables' = tables /\ history' = history /\ done' = done /\ begun' = begun
      /\ nextId' = v.id
      /\ \A o \in Others(s) : tx'[o] = tx[o]
      /\ tx'[s].phase = "written" /\ tx'[s].request = tx[s].request
      /\ tx'[s].at = tx[s].at /\ tx'[s].since = tx[s].since
      /\ tx'[s].mine = v.tables /\ tx'[s].added = v.added
  BY DEF WritesIt
<1>3. /\ WorkOK(v) /\ v.at = tx[s].at /\ nextId <= v.id
      /\ \A h \in v.added : h.id >= nextId
  BY <1>2, WrittenTypes
<1> HIDE DEF v
<1>4. SessionData(s)
  BY DEF DataInv
<1>5. /\ v.id \in Nat /\ v.tables \in Tables /\ Told(v.added)
      /\ \A h \in v.added : h.id \in Nat /\ h.id < v.id /\ h.listing \in Listing /\ h.at = v.at
  BY <1>3 DEF WorkOK, Told
<1>6. tx[s].added = {}
  BY <1>2, <1>4 DEF SessionData
<1>7. Known' = Known \cup v.added
  <2>1. \A o \in Session : tx'[o].added = IF o = s THEN v.added ELSE tx[o].added
    BY <1>2 DEF Others
  <2>2. Known' \subseteq Known \cup v.added
    BY <1>2, <2>1 DEF Known
  <2>3. Known \cup v.added \subseteq Known'
    BY <1>2, <1>6, <2>1 DEF Known
  <2> QED BY <2>2, <2>3
<1>8. ASSUME NEW h \in Known'
      PROVE  h.id \in 1 .. nextId' - 1 /\ h.at \in 0 .. begun' /\ h.listing \in Listing
  <2>1. CASE h \in Known
    <3>1. h.id \in 1 .. nextId - 1 /\ h.at \in 0 .. begun /\ h.listing \in Listing
      BY <2>1 DEF DataInv
    <3> QED BY <1>1, <1>2, <1>3, <1>5, <3>1
  <2>2. CASE h \in v.added
    <3>1. tx[s].at \in 0 .. begun
      BY <1>4 DEF SessionData
    <3>2. h.id \in Nat /\ h.id < v.id /\ h.id >= nextId /\ h.at = tx[s].at /\ h.listing \in Listing
      BY <1>3, <1>5, <2>2
    <3> QED BY <1>1, <1>2, <1>5, <3>1, <3>2
  <2> QED BY <1>7, <2>1, <2>2
<1>9. Told(Known')
  <2> SUFFICES ASSUME NEW g \in Known', NEW h \in Known', g.listing = h.listing, g.id = h.id
               PROVE  g = h
    BY DEF Told
  <2>1. \A k \in Known : k.id \in Nat /\ k.id < nextId
    <3>1. \A k \in Known : k.id \in 1 .. nextId - 1
      BY DEF DataInv
    <3> QED BY <1>1, <3>1
  <2>2. \A k \in v.added : k.id \in Nat /\ k.id >= nextId
    BY <1>3, <1>5
  <2>3. CASE g \in Known /\ h \in Known
    BY <2>3 DEF DataInv, Told
  <2>4. CASE g \in v.added /\ h \in v.added
    BY <1>5, <2>4 DEF Told
  <2>5. ~(g \in Known /\ h \in v.added) /\ ~(g \in v.added /\ h \in Known)
    BY <1>1, <2>1, <2>2
  <2> QED BY <1>7, <2>3, <2>4, <2>5
<1>10. SessionData(s)'
  BY <1>2, <1>4, <1>5 DEF SessionData, Open
<1>11. ASSUME NEW o \in Others(s)
       PROVE  SessionData(o)'
  <2>1. o \in Session /\ tx'[o] = tx[o]
    BY <1>2 DEF Others
  <2> QED BY <1>1, <1>2, <2>1, SameFields, DataStays
<1>12. \A o \in Session : SessionData(o)'
  BY <1>10, <1>11 DEF Others
<1>13. nextId' \in Nat \ {0}
  BY <1>1, <1>2, <1>3, <1>5
<1> QED BY <1>1, <1>2, <1>8, <1>9, <1>12, <1>13 DEF DataInv

LEMMA MergedTypes ==
  ASSUME tables \in Tables, NEW mine \in Tables, NEW wrote
  PROVE  Merged(mine, wrote) \in Tables
<1> DEFINE m == Merged(mine, wrote)
<1>1. /\ m = [assigned |-> m.assigned, reference |-> m.reference, observed |-> m.observed,
              profile |-> m.profile]
      /\ m.assigned = [l \in Listing |-> IF <<"assigned", l>> \in wrote THEN mine.assigned[l]
                                         ELSE tables.assigned[l]]
      /\ m.reference = [p \in Pressing |-> [s \in Slot |->
                          IF <<"reference", p, s>> \in wrote THEN mine.reference[p][s]
                          ELSE tables.reference[p][s]]]
      /\ m.observed = [l \in Listing |-> [s \in Slot |->
                         IF <<"observed", l, s>> \in wrote THEN mine.observed[l][s]
                         ELSE tables.observed[l][s]]]
      /\ m.profile = IF <<"profile">> \in wrote THEN mine.profile ELSE tables.profile
  BY DEF Merged
<1> HIDE DEF m
<1>2. /\ tables.assigned \in [Listing -> Pressing \cup {None}]
      /\ mine.assigned \in [Listing -> Pressing \cup {None}]
      /\ tables.profile \in Profile /\ mine.profile \in Profile
  BY TablesTypes DEF Profile
<1>3. m.assigned \in [Listing -> Pressing \cup {None}] /\ m.profile \in Profile
  BY <1>1, <1>2
<1>4. m.reference \in [Pressing -> Reference]
  <2>1. ASSUME NEW p \in Pressing, NEW s \in Slot
        PROVE  /\ mine.reference[p][s] \in Expectation \cup {NoExpectation}
               /\ tables.reference[p][s] \in Expectation \cup {NoExpectation}
    <3>1. mine.reference[p] \in Reference /\ tables.reference[p] \in Reference
      BY TablesTypes
    <3> QED BY <3>1 DEF Reference
  <2>2. ASSUME NEW p \in Pressing
        PROVE  m.reference[p] \in Reference
    BY <1>1, <2>1 DEF Reference
  <2> QED BY <1>1, <2>2
<1>5. m.observed \in [Listing -> Observed]
  <2>1. ASSUME NEW l \in Listing, NEW s \in Slot
        PROVE  /\ mine.observed[l][s] \in Observation \cup {NoObservation}
               /\ tables.observed[l][s] \in Observation \cup {NoObservation}
    <3>1. mine.observed[l] \in Observed /\ tables.observed[l] \in Observed
      BY TablesTypes
    <3> QED BY <3>1 DEF Observed
  <2>2. ASSUME NEW l \in Listing
        PROVE  m.observed[l] \in Observed
    BY <1>1, <2>1 DEF Observed
  <2> QED BY <1>1, <2>2
<1>6. m \in Tables
  BY <1>1, <1>3, <1>4, <1>5 DEF Tables
<1> QED BY <1>6 DEF m

\* done, after a commit that others were open to see
LEMMA DoneAfter ==
  ASSUME CallsInv, NEW s \in Session, CommitsIt(s)
  PROVE  \/ /\ \E o \in Others(s) : Open(o)
            /\ Len(done') = Len(done) + 1 /\ Len(done) \in Nat
            /\ \A k \in 1 .. Len(done) : done'[k] = done[k]
            /\ done'[Len(done) + 1].serial = Serial(s)
            /\ done'[Len(done) + 1].since = tx[s].since
            /\ done'[Len(done) + 1].wrote = Footprint(s)
            /\ done'[Len(done) + 1].reads = tx[s].reads
         \/ done' = << >> /\ Len(done') = 0 /\ \A o \in Others(s) : ~Open(o)
<1> DEFINE e == [serial |-> Serial(s), since |-> tx[s].since,
                 wrote |-> Footprint(s), reads |-> tx[s].reads]
<1>1. /\ e.serial = Serial(s) /\ e.since = tx[s].since /\ e.wrote = Footprint(s)
      /\ e.reads = tx[s].reads
  OBVIOUS
<1>2. done' = IF \E o \in Others(s) : Open(o) THEN Append(done, e) ELSE << >>
  BY DEF CommitsIt
<1> HIDE DEF e
<1>3. PICK S : done \in Seq(S)
  BY DEF CallsInv, CommonOK
<1>4. CASE \E o \in Others(s) : Open(o)
  BY <1>1, <1>2, <1>3, <1>4, DoneGrows
<1>5. CASE \A o \in Others(s) : ~Open(o)
  BY <1>2, <1>5
<1> QED BY <1>4, <1>5

LEMMA CommitData ==
  ASSUME CallsInv, DataInv, NEW s \in Session, CommitsIt(s)
  PROVE  DataInv'
<1>1. nextId \in Nat /\ nextId # 0 /\ begun \in Nat /\ Len(done) \in Nat /\ tables \in Tables
  BY LengthOfDone, CompletenessAssumption DEF DataInv
<1>2. /\ tx[s].phase = "written"
      /\ tables' = Merged(tx[s].mine, tx[s].wrote)
      /\ history' = history \cup tx[s].added
      /\ nextId' = nextId /\ begun' = begun
      /\ tx'[s] = Idle
      /\ \A o \in Others(s) : tx'[o] = tx[o]
  BY DEF CommitsIt
<1>3. SessionData(s)
  BY DEF DataInv
<1>4. tables' \in Tables
  BY <1>1, <1>2, <1>3, MergedTypes DEF SessionData
<1>5. Idle.phase = "idle" /\ Idle.request = NoRequest /\ Idle.at = 0 /\ Idle.since = 0 /\ Idle.added = {}
  BY IdleFields
<1>6. Known' \in SUBSET Known
  <2>1. \A o \in Session : tx'[o].added \subseteq tx[o].added
    BY <1>2, <1>5 DEF Others
  <2> QED BY <1>2, <2>1 DEF Known
<1>7. /\ \A h \in Known' : h.id \in 1 .. nextId' - 1 /\ h.at \in 0 .. begun' /\ h.listing \in Listing
      /\ Told(Known')
  <2> DEFINE T == Known'
  <2>1. T \in SUBSET Known
    BY <1>6
  <2> QED BY <1>1, <1>2, <2>1, KnownStays
<1>8. Len(done') \in Nat /\ \A o \in Others(s) : Len(done) <= Len(done') \/ ~Open(o)
  BY <1>1, DoneAfter
<1>9. ASSUME NEW k \in 1 .. Len(done')
      PROVE  done'[k].since \in 0 .. k - 1
  <2>1. tx[s].since \in 0 .. Len(done)
    BY <1>3 DEF SessionData
  <2>2. CASE Len(done') = Len(done) + 1 /\ k = Len(done) + 1
    BY <1>1, <2>1, <2>2, DoneAfter
  <2>3. CASE Len(done') = Len(done) + 1 /\ k \in 1 .. Len(done)
    <3>1. done'[k] = done[k]
      BY <1>1, <2>3, DoneAfter
    <3> QED BY <2>3, <3>1 DEF DataInv
  <2>4. CASE Len(done') = 0
    BY <2>4
  <2> QED BY <1>1, <2>2, <2>3, <2>4, DoneAfter
<1>10. SessionData(s)'
  BY <1>1, <1>2, <1>5, <1>8 DEF SessionData, Open
<1>11. ASSUME NEW o \in Others(s)
       PROVE  SessionData(o)'
  <2>1. o \in Session /\ tx'[o] = tx[o]
    BY <1>2 DEF Others
  <2> QED BY <1>1, <1>2, <1>8, <2>1, SameFields, DataStays
<1>12. \A o \in Session : SessionData(o)'
  BY <1>10, <1>11 DEF Others
<1>13. begun' \in 0 .. MaxBegun
  BY <1>2 DEF DataInv
<1> QED BY <1>1, <1>2, <1>4, <1>7, <1>9, <1>12, <1>13 DEF DataInv

LEMMA StutterData ==
  ASSUME DataInv, UNCHANGED vars
  PROVE  DataInv'
<1>1. /\ tables' = tables /\ history' = history /\ nextId' = nextId /\ begun' = begun
      /\ done' = done /\ tx' = tx
  BY DEF vars
<1>2. Known' = Known /\ \A s : SessionData(s)' = SessionData(s)
  BY <1>1 DEF Known, SessionData, Open
<1> QED BY <1>1, <1>2 DEF DataInv

LEMMA DataInit == Init => DataInv
<1> SUFFICES ASSUME Init PROVE DataInv
  OBVIOUS
<1>1. tx = [s \in Session |-> Idle] /\ done = << >> /\ begun = 0 /\ Len(done) = 0
  BY DEF Init
<1>2. PICK a \in Assignments, r \in References, o \in Observations :
        tables = [assigned |-> a, reference |-> r, observed |-> o, profile |-> Component]
  BY DEF Init
<1>3. tables \in Tables
  BY <1>2, CompletenessAssumption DEF Tables, Profile
<1> DEFINE w == [tables |-> tables, history |-> {}, added |-> {}, captured |-> {}, id |-> 1, at |-> 0]
           ls == {l \in Listing : tables.assigned[l] # None}
           v == Statement(w, tables, ls)
<1>4. WorkOK(w) /\ w.id = 1 /\ w.at = 0 /\ w.history = {} /\ w.added = {}
  BY <1>3 DEF WorkOK, WorkFields, Told
<1>5. history = v.added /\ nextId = v.id
  BY DEF Init
<1> HIDE DEF w
<1>6. ls \in SUBSET Listing
  OBVIOUS
<1> HIDE DEF ls
<1>7. /\ WorkOK(v) /\ v.at = 0 /\ 1 <= v.id
      /\ \A h \in v.added : h \in w.added \/ h.id >= 1
  BY <1>3, <1>4, <1>6, StatementKeeps
<1> HIDE DEF v
<1>8. /\ v.id \in Nat /\ Told(v.added)
      /\ \A h \in v.added : h.id \in Nat /\ h.id >= 1 /\ h.id < v.id /\ h.at = 0 /\ h.listing \in Listing
  BY <1>4, <1>7 DEF WorkOK, Told
<1>9. Known = v.added
  BY <1>1, <1>5, IdleFields DEF Known
<1>10. \A h \in Known : h.id \in 1 .. nextId - 1 /\ h.at \in 0 .. begun /\ h.listing \in Listing
  BY <1>1, <1>5, <1>8, <1>9
<1>11. ASSUME NEW s \in Session
       PROVE  SessionData(s)
  BY <1>1, IdleFields DEF SessionData, Open
<1>12. nextId \in Nat \ {0} /\ begun \in 0 .. MaxBegun
  BY <1>1, <1>5, <1>7, <1>8, CompletenessAssumption
<1> QED BY <1>1, <1>3, <1>8, <1>9, <1>10, <1>11, <1>12 DEF DataInv

LEMMA DataStep == CallsInv /\ DataInv /\ [Next]_vars => DataInv'
<1> SUFFICES ASSUME CallsInv, DataInv, [Next]_vars PROVE DataInv'
  OBVIOUS
<1> QED BY NextDoes, QuietData, LookData, BeginData, WriteData, CommitData, StutterData

\* What the services, the triggers and the sequence of the snapshots leave of every row,
\* and what every transaction holds of them: the snapshots of a listing have ids of
\* their own, committed or not, and none is from after the last BEGIN.
THEOREM DataInvHolds == Spec => [](CallsInv /\ DataInv)
<1> QED BY CallsInit, CallsStep, DataInit, DataStep, PTL DEF Spec

\* The completeness tables stay tables whatever the calls write over one another, and the
\* history of a listing is told apart by its ids.
THEOREM CompletenessTypeHolds == Spec => []CompletenessTypeOK
<1>1. CallsInv /\ DataInv => CompletenessTypeOK
  <2> SUFFICES ASSUME CallsInv, DataInv PROVE CompletenessTypeOK
    OBVIOUS
  <2>1. \A h \in history : h.id \in 1 .. nextId - 1 /\ h.at \in 0 .. begun /\ h.listing \in Listing
    BY DEF DataInv, Known
  <2>2. \A g, h \in history : g.listing = h.listing /\ g.id = h.id => g = h
    BY DEF DataInv, Known, Told
  <2>3. \A k \in DOMAIN done : done[k].since \in 0 .. k - 1
    BY LengthOfDone DEF DataInv
  <2>4. \A s \in Session : SessionData(s)
    BY DEF DataInv
  <2> QED BY <2>1, <2>2, <2>3, <2>4 DEF DataInv, SessionData, Open, CompletenessTypeOK
<1> QED BY <1>1, DataInvHolds, PTL

\* The snapshot function of the triggers, the service's evaluator and the view contradict
\* each other on no tables that the services can come to.
THEOREM EvaluatorsAgreeHolds == Spec => []EvaluatorsAgree
<1>1. DataInv => EvaluatorsAgree
  BY EvaluatorsNeverContradict DEF DataInv
<1> QED BY <1>1, DataInvHolds, PTL

-----------------------------------------------------------------------------
(* A call that meets no other                                              *)

LoneOK(s) ==
  Open(s) /\ tx[s].met = {} =>
    /\ \A o \in Others(s) : ~Open(o)
    /\ tx[s].at = begun
    /\ tx[s].phase = "looked" => tx[s].base = tables /\ tx[s].past = history
    /\ tx[s].phase = "written" =>
         /\ OffWrites(tx[s].wrote, tables, tx[s].mine)
         /\ \A l \in Listing : tables.assigned[l] \notin Left(tx[s].request) =>
              \/ SamePayload(tables, tx[s].mine, l) /\ Of(tx[s].added, l) = {}
              \/ Current(tx[s].mine, history \cup tx[s].added, l)

LoneInv == \A s \in Session : LoneOK(s)

\* The payload of a listing is that of the writer's rows, when what the writer left alone
\* has stayed as it saw it.
LEMMA MergedPayload ==
  ASSUME tables \in Tables, NEW mine \in Tables, NEW wrote, NEW l \in Listing,
         LET m == Merged(mine, wrote) IN
         /\ <<"assigned", l>> \in wrote \/ mine.assigned[l] = tables.assigned[l]
         /\ \A y \in Slot : <<"observed", l, y>> \in wrote \/ mine.observed[l][y] = tables.observed[l][y]
         /\ mine.assigned[l] # None =>
              /\ \A y \in Slot : \/ <<"reference", mine.assigned[l], y>> \in wrote
                                 \/ mine.reference[mine.assigned[l]][y]
                                      = tables.reference[mine.assigned[l]][y]
              /\ <<"profile">> \in wrote \/ mine.profile = tables.profile
  PROVE  SamePayload(mine, Merged(mine, wrote), l)
<1> DEFINE m == Merged(mine, wrote)
           p == mine.assigned[l]
<1>1. /\ m.assigned[l] = IF <<"assigned", l>> \in wrote THEN mine.assigned[l] ELSE tables.assigned[l]
      /\ m.observed[l] = [s \in Slot |-> IF <<"observed", l, s>> \in wrote THEN mine.observed[l][s]
                                         ELSE tables.observed[l][s]]
      /\ p \in Pressing => m.reference[p] = [s \in Slot |->
           IF <<"reference", p, s>> \in wrote THEN mine.reference[p][s] ELSE tables.reference[p][s]]
      /\ m.profile = IF <<"profile">> \in wrote THEN mine.profile ELSE tables.profile
  BY DEF Merged
<1>2. p \in Pressing \cup {None} /\ mine.observed[l] \in Observed
      /\ (p \in Pressing => mine.reference[p] \in Reference)
  BY TablesTypes
<1> HIDE DEF m
<1>3. m.assigned[l] = mine.assigned[l]
  BY <1>1
<1>4. m.observed[l] = mine.observed[l]
  BY <1>1, <1>2 DEF Observed
<1>5. p # None => m.reference[p] = mine.reference[p] /\ m.profile = mine.profile
  BY <1>1, <1>2 DEF Reference
<1>6. SamePayload(mine, m, l)
  BY <1>3, <1>4, <1>5, PayloadRows
<1> QED BY <1>6 DEF m

LEMMA LoneMerged ==
  ASSUME tables \in Tables, NEW mine \in Tables, NEW wrote, OffWrites(wrote, tables, mine),
         NEW l \in Listing
  PROVE  SamePayload(mine, Merged(mine, wrote), l)
<1>1. mine.assigned[l] \in Pressing \cup {None}
  BY TablesTypes
<1> QED BY <1>1, MergedPayload DEF OffWrites

LEMMA LoneInit == Init => LoneInv
BY IdleFields DEF Init, LoneInv, LoneOK, Open

\* Nothing moves under it while the others are not open.
LEMMA LoneStays ==
  ASSUME NEW o \in Session, LoneOK(o), tx'[o] = tx[o], begun' = begun,
         tables' = tables, history' = history, \A q \in Others(o) : ~Open(q) => ~Open(q)'
  PROVE  LoneOK(o)'
<1>1. Open(o)' = Open(o)
  BY DEF Open
<1> SUFFICES ASSUME Open(o), tx[o].met = {}
             PROVE  LoneOK(o)'
  BY <1>1 DEF LoneOK
<1>2. /\ \A q \in Others(o) : ~Open(q)
      /\ tx[o].at = begun
      /\ tx[o].phase = "looked" => tx[o].base = tables /\ tx[o].past = history
      /\ tx[o].phase = "written" =>
           /\ OffWrites(tx[o].wrote, tables, tx[o].mine)
           /\ \A l \in Listing : tables.assigned[l] \notin Left(tx[o].request) =>
                \/ SamePayload(tables, tx[o].mine, l) /\ Of(tx[o].added, l) = {}
                \/ Current(tx[o].mine, history \cup tx[o].added, l)
  BY DEF LoneOK
<1>3. \A q \in Others(o)' : ~Open(q)'
  BY <1>2 DEF Others
<1> QED BY <1>2, <1>3 DEF LoneOK

LEMMA LoneWrite ==
  ASSUME CallsInv, DataInv, LoneInv, NEW s \in Session, WritesIt(s)
  PROVE  LoneOK(s)'
<1> DEFINE w == Before(s)
           v == Worked(tx[s].request, w)
           wrote == Writes(tx[s].request, w.tables)
<1>1. /\ tx[s].phase = IF Serial(s) THEN "looked" ELSE "begun"
      /\ Refusal(tx[s].request, w.tables, tx[s].token) = "none"
      /\ tables' = tables /\ history' = history /\ begun' = begun
      /\ \A o \in Others(s) : tx'[o] = tx[o]
      /\ tx'[s].phase = "written" /\ tx'[s].request = tx[s].request /\ tx'[s].at = tx[s].at /\ tx'[s].met = tx[s].met
      /\ tx'[s].mine = v.tables /\ tx'[s].added = v.added /\ tx'[s].wrote = wrote
  BY DEF WritesIt
<1> SUFFICES ASSUME tx[s].met = {}
             PROVE  LoneOK(s)'
  BY <1>1 DEF LoneOK
<1>2. Open(s)
  BY <1>1 DEF Open
<1>3. /\ \A o \in Others(s) : ~Open(o)
      /\ tx[s].at = begun
      /\ tx[s].phase = "looked" => tx[s].base = tables /\ tx[s].past = history
  BY <1>2 DEF LoneInv, LoneOK
<1>4. w.tables = tables /\ w.history = history /\ w.at = begun
  BY <1>1, <1>3 DEF Before
<1>5. InOrder(w)
  <2> SUFFICES ASSUME NEW h \in history
               PROVE  h.at <= begun
    BY <1>4 DEF InOrder
  <2>1. h.at \in 0 .. begun
    BY DEF DataInv, Known
  <2>2. begun \in Nat
    BY CompletenessAssumption DEF DataInv
  <2> QED BY <2>1, <2>2
<1>6. /\ WorkOK(v) /\ v.history = w.history
      /\ OffWrites(wrote, w.tables, v.tables)
      /\ \A l \in Listing \ v.captured :
           w.tables.assigned[l] \notin Left(tx[s].request) => SamePayload(w.tables, v.tables, l)
      /\ Recorded(v)
  BY <1>1, <1>5, WrittenTypes
<1> HIDE DEF v, w, wrote
<1>7. ASSUME NEW l \in Listing, tables.assigned[l] \notin Left(tx[s].request)
      PROVE  \/ SamePayload(tables, v.tables, l) /\ Of(v.added, l) = {}
             \/ Current(v.tables, history \cup v.added, l)
  <2>1. CASE l \in v.captured
    BY <1>4, <1>6, <2>1 DEF Recorded
  <2>2. CASE l \notin v.captured
    BY <1>4, <1>6, <1>7, <2>2 DEF WorkOK, Of
  <2> QED BY <2>1, <2>2
<1>8. \A o \in Others(s)' : ~Open(o)'
  BY <1>1, <1>3 DEF Others, Open
<1>9. /\ OffWrites(tx'[s].wrote, tables', tx'[s].mine)
      /\ \A l \in Listing : tables'.assigned[l] \notin Left(tx'[s].request) =>
           \/ SamePayload(tables', tx'[s].mine, l) /\ Of(tx'[s].added, l) = {}
           \/ Current(tx'[s].mine, history' \cup tx'[s].added, l)
  BY <1>1, <1>4, <1>6, <1>7
<1> QED BY <1>1, <1>3, <1>8, <1>9 DEF LoneOK

LEMMA LoneStep == CallsInv /\ DataInv /\ LoneInv /\ [Next]_vars => LoneInv'
<1> SUFFICES ASSUME CallsInv, DataInv, LoneInv, [Next]_vars PROVE LoneInv'
  OBVIOUS
<1>1. ASSUME NEW s \in Session, Quiet(s)
      PROVE  LoneInv'
  <2>1. ~Open(s)'
    BY <1>1 DEF Quiet, Open
  <2>2. LoneOK(s)'
    BY <2>1 DEF LoneOK
  <2>3. ASSUME NEW o \in Others(s)
        PROVE  LoneOK(o)'
    <3>1. o \in Session /\ tx'[o] = tx[o] /\ LoneOK(o)
      BY <1>1 DEF Quiet, Others, LoneInv
    <3>2. \A q \in Others(o) : ~Open(q) => ~Open(q)'
      BY <1>1, <2>1 DEF Quiet, Others, Open
    <3> QED BY <1>1, <3>1, <3>2, LoneStays DEF Quiet
  <2> QED BY <2>2, <2>3 DEF LoneInv, Others
<1>2. ASSUME NEW s \in Session, LooksIt(s)
      PROVE  LoneInv'
  <2>1. Open(s) /\ Open(s)'
    BY <1>2 DEF LooksIt, Open
  <2>2. LoneOK(s)'
    <3>1. \A o \in Others(s) : Open(o)' = Open(o)
      BY <1>2 DEF LooksIt, Open
    <3>2. Others(s)' = Others(s)
      BY DEF Others
    <3>3. tx[s].met = {} => (\A o \in Others(s) : ~Open(o)) /\ tx[s].at = begun
      BY <2>1 DEF LoneInv, LoneOK
    <3>4. /\ tx'[s].phase = "looked" /\ tx'[s].met = tx[s].met /\ tx'[s].at = tx[s].at
          /\ tx'[s].base = tables' /\ tx'[s].past = history' /\ begun' = begun
      BY <1>2 DEF LooksIt
    <3> QED BY <3>1, <3>2, <3>3, <3>4 DEF LoneOK
  <2>3. ASSUME NEW o \in Others(s)
        PROVE  LoneOK(o)'
    <3>1. o \in Session /\ tx'[o] = tx[o] /\ LoneOK(o)
      BY <1>2 DEF LooksIt, Others, LoneInv
    <3>2. \A q \in Others(o) : ~Open(q) => ~Open(q)'
      BY <1>2, <2>1 DEF LooksIt, Others, Open
    <3> QED BY <1>2, <3>1, <3>2, LoneStays DEF LooksIt
  <2> QED BY <2>2, <2>3 DEF LoneInv, Others
<1>3. ASSUME NEW s \in Session, NEW r \in Requests, BeginsIt(s, r)
      PROVE  LoneInv'
  <2>1. LoneOK(s)'
    <3>1. /\ tx'[s].phase = "begun" /\ tx'[s].at = begun'
          /\ tx'[s].met = {Standing(q) : q \in {q \in Others(s) : Open(q)}}
      BY <1>3 DEF BeginsIt
    <3>2. \A o \in Others(s) : ~Open(o) => ~Open(o)'
      BY <1>3 DEF BeginsIt, Open
    <3>3. tx'[s].met = {} => \A o \in Others(s) : ~Open(o)
      BY <3>1
    <3> QED BY <3>1, <3>2, <3>3 DEF LoneOK, Others
  <2>2. ASSUME NEW o \in Others(s)
        PROVE  LoneOK(o)'
    <3>1. CASE Open(o)
      <4>1. tx'[o].met # {}
        BY <1>3, <3>1 DEF BeginsIt
      <4> QED BY <4>1 DEF LoneOK
    <3>2. CASE ~Open(o)
      <4>1. tx'[o] = tx[o]
        BY <1>3, <3>2 DEF BeginsIt
      <4>2. ~Open(o)'
        BY <3>2, <4>1 DEF Open
      <4> QED BY <4>2 DEF LoneOK
    <3> QED BY <3>1, <3>2
  <2> QED BY <2>1, <2>2 DEF LoneInv, Others
<1>4. ASSUME NEW s \in Session, WritesIt(s)
      PROVE  LoneInv'
  <2>1. Open(s)
    BY <1>4 DEF WritesIt, Open
  <2>2. ASSUME NEW o \in Others(s)
        PROVE  LoneOK(o)'
    <3>1. o \in Session /\ tx'[o] = tx[o] /\ LoneOK(o)
      BY <1>4 DEF WritesIt, Others, LoneInv
    <3>2. \A q \in Others(o) : ~Open(q) => ~Open(q)'
      BY <1>4, <2>1 DEF WritesIt, Others, Open
    <3> QED BY <1>4, <3>1, <3>2, LoneStays DEF WritesIt
  <2>3. LoneOK(s)'
    BY <1>4, LoneWrite
  <2> QED BY <2>2, <2>3 DEF LoneInv, Others
<1>5. ASSUME NEW s \in Session, CommitsIt(s)
      PROVE  LoneInv'
  <2>1. Open(s) /\ ~Open(s)'
    BY <1>5, IdleFields DEF CommitsIt, Open
  <2>2. LoneOK(s)'
    BY <2>1 DEF LoneOK
  <2>3. ASSUME NEW o \in Others(s)
        PROVE  LoneOK(o)'
    <3>1. o \in Session /\ tx'[o] = tx[o] /\ LoneOK(o) /\ s \in Others(o)
      BY <1>5 DEF CommitsIt, Others, LoneInv
    <3>2. Open(o) => tx[o].met # {}
      BY <2>1, <3>1 DEF LoneOK
    <3>3. Open(o)' = Open(o)
      BY <3>1 DEF Open
    <3> QED BY <3>1, <3>2, <3>3 DEF LoneOK
  <2> QED BY <2>2, <2>3 DEF LoneInv, Others
<1>6. ASSUME UNCHANGED vars
      PROVE  LoneInv'
  <2>1. tx' = tx /\ tables' = tables /\ history' = history /\ begun' = begun
    BY <1>6 DEF vars
  <2>2. \A q \in Session : ~Open(q) => ~Open(q)'
    BY <2>1 DEF Open
  <2> QED BY <2>1, <2>2, LoneStays DEF LoneInv, Others
<1> QED BY <1>1, <1>2, <1>3, <1>4, <1>5, <1>6, NextDoes

\* Who commits is whom the step is of.
LEMMA CommitIs ==
  ASSUME CallsInv, DataInv, [Next]_vars, NEW s \in Session, Commits(s)
  PROVE  CommitsIt(s) \/ (tables' = tables /\ history' = history)
<1>1. tx[s].phase = "written" /\ tx'[s].phase = "idle"
  BY DEF Commits
<1>2. ASSUME NEW q \in Session, CommitsIt(q)
      PROVE  q = s
  BY <1>1, <1>2 DEF CommitsIt, Others
<1> QED BY <1>2, NextDoes DEF Quiet, LooksIt, WritesIt, BeginsIt, vars

\* When a transaction that met no other commits, the latest snapshot of every listing
\* whose payload it changed, through whichever of the tables, is what the rows now come
\* to, but for the listings of a pressing that a record is moved away from.
THEOREM AloneMeansCurrentHolds == Spec => AloneMeansCurrent
<1>1. ASSUME CallsInv, DataInv, LoneInv, [Next]_vars, NEW s \in Session, Commits(s), tx[s].met = {},
             CommitsIt(s), NEW l \in Listing,
             tables.assigned[l] \notin Left(tx[s].request),
             Payload(tables, l, None) # Payload(tables', l, None) \/ Of(tx[s].added, l) # {}
      PROVE  Current(tables', history', l)
  <2>1. /\ tx[s].phase = "written" /\ tables' = Merged(tx[s].mine, tx[s].wrote)
        /\ history' = history \cup tx[s].added
    BY <1>1 DEF CommitsIt
  <2>2. tables \in Tables /\ tx[s].mine \in Tables
    BY <1>1, <2>1 DEF DataInv, SessionData
  <2>3. /\ OffWrites(tx[s].wrote, tables, tx[s].mine)
        /\ \/ SamePayload(tables, tx[s].mine, l) /\ Of(tx[s].added, l) = {}
           \/ Current(tx[s].mine, history \cup tx[s].added, l)
    BY <1>1, <2>1 DEF LoneInv, LoneOK, Open
  <2>4. SamePayload(tx[s].mine, tables', l)
    BY <2>1, <2>2, <2>3, LoneMerged
  <2>5. Current(tx[s].mine, history \cup tx[s].added, l)
    BY <1>1, <2>3, <2>4 DEF SamePayload
  <2> QED BY <2>1, <2>4, <2>5, CurrentStays
<1>2. CallsInv /\ DataInv /\ LoneInv /\ [Next]_vars =>
        [\A s \in Session : Commits(s) /\ tx[s].met = {} =>
           \A l \in Listing :
             /\ tables.assigned[l] \notin Left(tx[s].request)
             /\ \/ Payload(tables, l, None) # Payload(tables', l, None)
                \/ Of(tx[s].added, l) # {}
             => Current(tables', history', l)]_<<tables, history>>
  BY <1>1, CommitIs
<1> QED BY <1>2, CallsInit, CallsStep, DataInit, DataStep, LoneInit, LoneStep, PTL DEF Spec, AloneMeansCurrent

-----------------------------------------------------------------------------
(* Calls at SERIALIZABLE among themselves                                  *)

Histories(reads) == {l \in Listing : <<"history", l>> \in reads}

\* A row that it has not written is as it is in rows, or was changed since.
AgesBy(s, rows, wrote) ==
  /\ \A l \in Listing :
       \/ <<"assigned", l>> \in wrote \/ tables.assigned[l] = rows.assigned[l]
       \/ Changed(s, <<"assigned", l>>)
  /\ \A p \in Pressing, y \in Slot :
       \/ <<"reference", p, y>> \in wrote \/ tables.reference[p][y] = rows.reference[p][y]
       \/ Changed(s, <<"reference", p, y>>)
  /\ \A l \in Listing, y \in Slot :
       \/ <<"observed", l, y>> \in wrote \/ tables.observed[l][y] = rows.observed[l][y]
       \/ Changed(s, <<"observed", l, y>>)
  /\ \/ <<"profile">> \in wrote \/ tables.profile = rows.profile
     \/ Changed(s, <<"profile">>)

\* All that the payload of a listing is computed from
Watches(reads, rows, l) ==
  /\ <<"profile">> \in reads /\ ObservedRows(l, Slot) \subseteq reads
  /\ rows.assigned[l] # None => ReferenceRows(rows.assigned[l], Slot) \subseteq reads

MovesNothing(wrote) == \A l \in Listing : <<"assigned", l>> \notin wrote

SerialOK(s) ==
  Serial(s) =>
    /\ tx[s].phase = "looked" => AgesBy(s, tx[s].base, {})
    /\ tx[s].phase = "written" =>
         /\ AgesBy(s, tx[s].mine, tx[s].wrote)
         /\ MovesNothing(tx[s].wrote)
         /\ \A h \in tx[s].added : Watches(tx[s].reads, tx[s].mine, h.listing)
         /\ "plain" \notin tx[s].met => Captures(tx[s].wrote, Histories(tx[s].reads), tables)
    /\ tx[s].phase \in {"looked", "written"} /\ Sheltered(s) =>
         \A k \in Since(s) : Captures(done[k].wrote, Histories(done[k].reads), tables)

\* No plain call can have moved a listing under what a sheltered one meets.
ShelterOK(s, o) == Open(s) /\ Open(o) /\ Sheltered(s) => "plain" \notin tx[o].met

TruthInv ==
  /\ \A k \in 1 .. Len(done) : done[k].serial => MovesNothing(done[k].wrote)
  /\ \A s \in Session : SerialOK(s)
  /\ \A s \in Session : \A o \in Others(s) : ShelterOK(s, o)

LEMMA TruthInit == Init => TruthInv
BY IdleFields DEF Init, TruthInv, SerialOK, ShelterOK, Open

\* Which listings a writer has to capture depends on the rows by the assignments alone.
LEMMA CapturesStay ==
  ASSUME NEW wrote, NEW more, NEW captured, NEW a, NEW b, Captures(wrote, captured, a),
         \A l \in Listing : b.assigned[l] = a.assigned[l],
         \A row \in more : row[1] \in {"observed", "reference", "profile"} => row \in wrote
  PROVE  Captures(more, captured, b)
<1> SUFFICES ASSUME NEW l \in Listing,
                    \/ \E y \in Slot : <<"observed", l, y>> \in more
                    \/ b.assigned[l] # None
                       /\ (\/ <<"profile">> \in more
                           \/ \E y \in Slot : <<"reference", b.assigned[l], y>> \in more)
             PROVE  l \in captured
  BY DEF Captures
<1>1. \A x, y : /\ <<"observed", x, y>>[1] = "observed" /\ <<"reference", x, y>>[1] = "reference"
                /\ <<"profile">>[1] = "profile"
  OBVIOUS
<1>2. /\ \A x, y : <<"observed", x, y>> \in more => <<"observed", x, y>> \in wrote
      /\ \A x, y : <<"reference", x, y>> \in more => <<"reference", x, y>> \in wrote
      /\ <<"profile">> \in more => <<"profile">> \in wrote
  BY <1>1
<1> QED BY <1>2 DEF Captures

\* Of the rows of the tables the footprint names those that were written.
LEMMA FootprintRows ==
  ASSUME NEW s
  PROVE  /\ \A row \in Footprint(s) : row[1] \notin {"history", "assigned to"} => row \in tx[s].wrote
         /\ tx[s].wrote \subseteq Footprint(s)
         /\ \A h \in tx[s].added : <<"history", h.listing>> \in Footprint(s)
<1>1. \A x : <<"history", x>>[1] = "history" /\ <<"assigned to", x>>[1] = "assigned to"
  OBVIOUS
<1> QED BY <1>1 DEF Footprint

\* It stays as it is, but may have met another.
LEMMA TruthStays ==
  ASSUME NEW o, SerialOK(o), tables' = tables, done' = done,
         tx'[o].phase = tx[o].phase, tx'[o].request = tx[o].request, tx'[o].base = tx[o].base,
         tx'[o].since = tx[o].since, tx'[o].mine = tx[o].mine, tx'[o].added = tx[o].added,
         tx'[o].wrote = tx[o].wrote, tx'[o].reads = tx[o].reads, tx[o].met \subseteq tx'[o].met
  PROVE  SerialOK(o)'
<1>1. /\ Since(o)' = Since(o) /\ Serial(o)' = Serial(o)
      /\ \A row : Changed(o, row)' = Changed(o, row)
      /\ Sheltered(o)' => Sheltered(o)
  BY DEF Since, Serial, Changed, Sheltered, Guarded
<1>2. AgesBy(o, tx[o].base, {})' = AgesBy(o, tx[o].base, {})
  BY <1>1 DEF AgesBy
<1>3. AgesBy(o, tx[o].mine, tx[o].wrote)' = AgesBy(o, tx[o].mine, tx[o].wrote)
  BY <1>1 DEF AgesBy
<1> QED BY <1>1, <1>2, <1>3 DEF SerialOK

\* What a call reads for the listings that its triggers captured
LEMMA ReadsWatch ==
  ASSUME NEW r, NEW work, NEW l \in work.captured
  PROVE  <<"history", l>> \in Reads(r, work) /\ Watches(Reads(r, work), work.tables, l)
<1> DEFINE Rows(x) == {<<"history", x>>, <<"assigned", x>>, <<"profile">>}
                        \cup ObservedRows(x, Slot)
                        \cup (IF work.tables.assigned[x] = None THEN {}
                              ELSE ReferenceRows(work.tables.assigned[x], Slot))
<1>1. UNION {Rows(x) : x \in work.captured} \subseteq Reads(r, work)
  BY DEF Reads
<1>2. Rows(l) \subseteq UNION {Rows(x) : x \in work.captured}
  OBVIOUS
<1>3. Rows(l) \subseteq Reads(r, work)
  BY <1>1, <1>2
<1>4. /\ <<"history", l>> \in Rows(l) /\ <<"profile">> \in Rows(l) /\ ObservedRows(l, Slot) \subseteq Rows(l)
      /\ work.tables.assigned[l] # None => ReferenceRows(work.tables.assigned[l], Slot) \subseteq Rows(l)
  OBVIOUS
<1> HIDE DEF Rows
<1> QED BY <1>3, <1>4 DEF Watches

\* The assignments are as it saw them, when all that it met are isolated.
LEMMA NothingMoved ==
  ASSUME CallsInv, TruthInv, NEW s \in Session, Serial(s), tx[s].phase \in {"looked", "written"},
         "plain" \notin tx[s].met, NEW l \in Listing
  PROVE  ~Changed(s, <<"assigned", l>>)
<1>1. tx[s].since \in 0 .. Len(done) /\ \A k \in Since(s) : done[k].serial
  BY DEF CallsInv, SessionOK, MetThem
<1>2. Since(s) \subseteq 1 .. Len(done)
  BY <1>1, LengthOfDone DEF Since
<1> QED BY <1>1, <1>2 DEF Changed, TruthInv, MovesNothing

\* An isolated call moves no listing: a reviewed assignment never gets that far.
LEMMA SerialMovesNothing ==
  ASSUME NEW r \in Requests, IsolationOf(r.kind) = "serializable", FindsItsEvent(r), NEW a
  PROVE  MovesNothing(Writes(r, a))
<1>1. r.kind # "assign" /\ r.kind # "fill"
  BY DEF FindsItsEvent, AuditAccount, IsolationOf, Plain
<1> QED BY <1>1, WrittenRows DEF MovesNothing, OnAssigned

LEMMA TruthWrite ==
  ASSUME CallsInv, DataInv, TruthInv, NEW s \in Session, WritesIt(s)
  PROVE  SerialOK(s)'
<1> DEFINE w == Before(s)
           v == Worked(tx[s].request, w)
           wrote == Writes(tx[s].request, w.tables)
           reads == Reads(tx[s].request, v)
<1>1. /\ tx[s].phase = IF Serial(s) THEN "looked" ELSE "begun"
      /\ Refusal(tx[s].request, w.tables, tx[s].token) = "none" /\ FindsItsEvent(tx[s].request)
      /\ tables' = tables /\ done' = done
      /\ tx'[s].phase = "written" /\ tx'[s].request = tx[s].request
      /\ tx'[s].since = tx[s].since /\ tx'[s].met = tx[s].met
      /\ tx'[s].mine = v.tables /\ tx'[s].added = v.added /\ tx'[s].wrote = wrote
      /\ Serial(s) => tx'[s].reads = reads
  BY DEF WritesIt
<1>2. Serial(s)' = Serial(s) /\ Since(s)' = Since(s) /\ Sheltered(s)' = Sheltered(s)
      /\ \A row : Changed(s, row)' = Changed(s, row)
  BY <1>1 DEF Serial, Since, Changed, Sheltered, Guarded
<1> SUFFICES ASSUME Serial(s)
             PROVE  SerialOK(s)'
  BY <1>2 DEF SerialOK
<1>3. tx[s].phase = "looked" /\ w.tables = tx[s].base
  BY <1>1 DEF Before
<1>4. /\ tx[s].request \in Requests /\ WorkOK(v)
      /\ OffWrites(wrote, w.tables, v.tables)
      /\ Captures(wrote, v.captured, w.tables)
  <2>1. Left(tx[s].request) = {}
    BY DEF Serial, IsolationOf, Plain, Left
  <2> QED BY <1>1, <2>1, WrittenTypes
<1>5. MovesNothing(wrote)
  BY <1>1, <1>4, SerialMovesNothing DEF Serial
<1>6. \A l \in v.captured : <<"history", l>> \in reads /\ Watches(reads, v.tables, l)
  BY ReadsWatch
<1> HIDE DEF w, v, wrote, reads
<1>7. SerialOK(s)
  BY DEF TruthInv
<1>8. AgesBy(s, v.tables, wrote)
  <2>1. AgesBy(s, w.tables, {})
    BY <1>3, <1>7 DEF SerialOK
  <2> QED BY <1>4, <2>1 DEF AgesBy, OffWrites
<1>9. AgesBy(s, tx[s].mine, tx[s].wrote)'
  BY <1>1, <1>2, <1>8 DEF AgesBy
<1>10. \A h \in v.added : Watches(reads, v.tables, h.listing)
  BY <1>4, <1>6 DEF WorkOK
<1>11. ASSUME "plain" \notin tx[s].met
       PROVE  Captures(wrote, Histories(reads), tables)
  <2>1. \A l \in Listing : tables.assigned[l] = w.tables.assigned[l]
    <3> SUFFICES ASSUME NEW l \in Listing
                 PROVE  tables.assigned[l] = w.tables.assigned[l]
      OBVIOUS
    <3>1. ~Changed(s, <<"assigned", l>>)
      BY <1>3, <1>11, NothingMoved
    <3> QED BY <1>3, <1>7, <3>1 DEF SerialOK, AgesBy
  <2>2. Captures(wrote, v.captured, tables)
    BY <1>4, <2>1, CapturesStay
  <2> QED BY <1>6, <2>2 DEF Captures, Histories
<1>12. Sheltered(s) => \A k \in Since(s) : Captures(done[k].wrote, Histories(done[k].reads), tables)
  BY <1>3, <1>7 DEF SerialOK
<1>13. Serial(s)' /\ tx'[s].phase = "written"
  BY <1>1, <1>2
<1>14. MovesNothing(tx'[s].wrote) /\ \A h \in tx'[s].added : Watches(tx'[s].reads, tx'[s].mine, h.listing)
  BY <1>1, <1>5, <1>10
<1>15. "plain" \notin tx'[s].met => Captures(tx'[s].wrote, Histories(tx'[s].reads), tables')
  BY <1>1, <1>11
<1>16. Sheltered(s)' => \A k \in Since(s)' : Captures(done'[k].wrote, Histories(done'[k].reads), tables')
  BY <1>1, <1>2, <1>12
<1> QED BY <1>9, <1>13, <1>14, <1>15, <1>16 DEF SerialOK

LEMMA TruthLook ==
  ASSUME CallsInv, TruthInv, NEW s \in Session, LooksIt(s)
  PROVE  SerialOK(s)'
<1>1. /\ tables' = tables /\ done' = done
      /\ tx'[s].phase = "looked" /\ tx'[s].base = tables /\ tx'[s].since = Len(done)
  BY DEF LooksIt
<1>2. Since(s)' = {}
  BY <1>1, LengthOfDone DEF Since
<1>3. AgesBy(s, tx[s].base, {})'
  BY <1>1 DEF AgesBy
<1> QED BY <1>1, <1>2, <1>3 DEF SerialOK

\* What the commit of s leaves as it was
LEMMA CommitLeaves ==
  ASSUME NEW mine, NEW wrote
  PROVE  LET m == Merged(mine, wrote)
         IN  /\ \A l \in Listing : <<"assigned", l>> \notin wrote =>
                  m.assigned[l] = tables.assigned[l]
             /\ \A p \in Pressing, y \in Slot : <<"reference", p, y>> \notin wrote =>
                  m.reference[p][y] = tables.reference[p][y]
             /\ \A l \in Listing, y \in Slot : <<"observed", l, y>> \notin wrote =>
                  m.observed[l][y] = tables.observed[l][y]
             /\ <<"profile">> \notin wrote => m.profile = tables.profile
BY DEF Merged

LEMMA TruthCommit ==
  ASSUME CallsInv, DataInv, TruthInv, NEW s \in Session, CommitsIt(s), NEW o \in Others(s)
  PROVE  SerialOK(o)'
<1>1. /\ tx[s].phase = "written" /\ tx'[o] = tx[o] /\ Open(s)
      /\ tables' = Merged(tx[s].mine, tx[s].wrote)
  BY DEF CommitsIt, Open
<1> SUFFICES ASSUME Serial(o), tx[o].phase \in {"looked", "written"}
             PROVE  SerialOK(o)'
  BY <1>1 DEF SerialOK, Serial
<1>2. Open(o) /\ o \in Session /\ s \in Others(o)
  BY DEF Open, Others
<1> DEFINE n == Len(done) + 1
<1>3. /\ Len(done') = n /\ Len(done) \in Nat
      /\ \A k \in 1 .. Len(done) : done'[k] = done[k]
      /\ done'[n].wrote = Footprint(s) /\ done'[n].reads = tx[s].reads
  BY <1>2, DoneAfter
<1>4. Since(o)' = Since(o) \cup {n} /\ Since(o) \subseteq 1 .. Len(done)
  <2>1. tx[o].since \in 0 .. Len(done)
    BY <1>2 DEF CallsInv, SessionOK, MetThem
  <2> QED BY <1>1, <1>3, <2>1 DEF Since
<1> HIDE DEF n
<1>5. \A row : Changed(o, row) \/ row \in tx[s].wrote => Changed(o, row)'
  <2>1. tx[s].wrote \subseteq done'[n].wrote /\ n \in Since(o)'
    <3>1. tx[s].wrote \subseteq Footprint(s)
      BY FootprintRows
    <3> QED BY <1>3, <1>4, <3>1
  <2>2. \A k \in Since(o) : k \in Since(o)' /\ done'[k] = done[k]
    BY <1>3, <1>4
  <2> QED BY <2>1, <2>2 DEF Changed
<1>6. SerialOK(o)
  BY <1>2 DEF TruthInv
<1>7. /\ \A l \in Listing : <<"assigned", l>> \in tx[s].wrote \/ tables'.assigned[l] = tables.assigned[l]
      /\ \A p \in Pressing, y \in Slot :
           <<"reference", p, y>> \in tx[s].wrote \/ tables'.reference[p][y] = tables.reference[p][y]
      /\ \A l \in Listing, y \in Slot :
           <<"observed", l, y>> \in tx[s].wrote \/ tables'.observed[l][y] = tables.observed[l][y]
      /\ <<"profile">> \in tx[s].wrote \/ tables'.profile = tables.profile
  BY <1>1, CommitLeaves
<1>8. tx[o].phase = "looked" => AgesBy(o, tx[o].base, {})'
  <2> SUFFICES ASSUME tx[o].phase = "looked"
               PROVE  AgesBy(o, tx[o].base, {})'
    OBVIOUS
  <2>1. AgesBy(o, tx[o].base, {})
    BY <1>6 DEF SerialOK
  <2> QED BY <1>1, <1>5, <1>7, <2>1 DEF AgesBy
<1>9. tx[o].phase = "written" => AgesBy(o, tx[o].mine, tx[o].wrote)'
  <2> SUFFICES ASSUME tx[o].phase = "written"
               PROVE  AgesBy(o, tx[o].mine, tx[o].wrote)'
    OBVIOUS
  <2>1. AgesBy(o, tx[o].mine, tx[o].wrote)
    BY <1>6 DEF SerialOK
  <2> QED BY <1>1, <1>5, <1>7, <2>1 DEF AgesBy
<1>10. ASSUME "plain" \notin tx[o].met
       PROVE  Serial(s) /\ \A l \in Listing : tables'.assigned[l] = tables.assigned[l]
  <2>1. PairOK(o, s)
    BY <1>2 DEF CallsInv
  <2>2. Serial(s)
    BY <1>1, <1>2, <1>10, <2>1 DEF PairOK, Serial, IsolationOf
  <2>3. MovesNothing(tx[s].wrote)
    BY <1>1, <2>2 DEF TruthInv, SerialOK
  <2> QED BY <1>7, <2>2, <2>3 DEF MovesNothing
<1>11. ASSUME tx[o].phase = "written", "plain" \notin tx[o].met
       PROVE  Captures(tx[o].wrote, Histories(tx[o].reads), tables')
  <2>1. Captures(tx[o].wrote, Histories(tx[o].reads), tables)
    BY <1>6, <1>11 DEF SerialOK
  <2> QED BY <1>10, <1>11, <2>1, CapturesStay
<1>12. ASSUME Sheltered(o), NEW k \in Since(o)'
       PROVE  Captures(done'[k].wrote, Histories(done'[k].reads), tables')
  <2>1. "plain" \notin tx[o].met
    BY <1>12 DEF Sheltered, Guarded
  <2>2. CASE k \in Since(o)
    <3>1. done'[k] = done[k] /\ Captures(done[k].wrote, Histories(done[k].reads), tables)
      BY <1>3, <1>4, <1>6, <1>12, <2>2 DEF SerialOK
    <3> QED BY <1>10, <2>1, <3>1, CapturesStay
  <2>3. CASE k = n
    <3>1. "plain" \notin tx[s].met
      BY <1>1, <1>2, <1>12 DEF TruthInv, ShelterOK
    <3>2. Captures(tx[s].wrote, Histories(tx[s].reads), tables)
      BY <1>1, <1>10, <2>1, <3>1 DEF TruthInv, SerialOK
    <3>3. \A row \in Footprint(s) : row[1] \in {"observed", "reference", "profile"} => row \in tx[s].wrote
      BY FootprintRows
    <3>4. Captures(Footprint(s), Histories(tx[s].reads), tables')
      BY <1>10, <2>1, <3>2, <3>3, CapturesStay
    <3> QED BY <1>3, <2>3, <3>4
  <2> QED BY <1>4, <1>12, <2>2, <2>3
<1>13. Sheltered(o)' = Sheltered(o)
  BY <1>1 DEF Sheltered, Guarded
<1> QED BY <1>1, <1>6, <1>8, <1>9, <1>11, <1>12, <1>13 DEF SerialOK

\* Neither opens, and neither meets anybody.
LEMMA ShelterStays ==
  ASSUME NEW s, NEW o, ShelterOK(s, o),
         Open(s)' => Open(s) /\ tx'[s].request = tx[s].request /\ tx'[s].met = tx[s].met,
         Open(o)' => Open(o) /\ tx'[o].met = tx[o].met
  PROVE  ShelterOK(s, o)'
BY DEF ShelterOK, Sheltered, Guarded

LEMMA ShelterBegin ==
  ASSUME CallsInv, TruthInv, NEW s \in Session, NEW r \in Requests, BeginsIt(s, r),
         NEW o \in Session, NEW q \in Others(o)
  PROVE  ShelterOK(o, q)'
<1> DEFINE met == {Standing(x) : x \in {x \in Others(s) : Open(x)}}
           kind == IF r.kind \in Plain THEN "plain" ELSE "isolated"
<1>1. /\ tx'[s].request = r /\ tx'[s].met = met
      /\ \A x \in Others(s) : /\ Open(x) => /\ tx'[x].phase = tx[x].phase
                                            /\ tx'[x].request = tx[x].request
                                            /\ tx'[x].met = tx[x].met \cup {kind}
                              /\ ~Open(x) => tx'[x] = tx[x]
  BY DEF BeginsIt, Fields
<1>2. \A x \in Others(s) : Open(x)' = Open(x)
  BY <1>1 DEF Open
<1> HIDE DEF met, kind
<1> SUFFICES ASSUME Open(o)', Open(q)', Sheltered(o)', "plain" \in tx'[q].met
             PROVE  FALSE
  BY DEF ShelterOK
<1>3. tx'[o].request.kind \notin Plain /\ "plain" \notin tx'[o].met /\ "exposed" \notin tx'[o].met
  BY DEF Sheltered, Guarded
<1>4. CASE o = s
  <2>1. q \in Others(s) /\ Open(q) /\ Standing(q) \in met
    BY <1>2, <1>4 DEF met
  <2>2. "plain" \notin tx[q].met
    BY <1>1, <1>3, <1>4, <2>1 DEF Standing
  <2>3. kind # "plain"
    BY <1>1, <1>3, <1>4 DEF kind
  <2> QED BY <1>1, <2>1, <2>2, <2>3
<1>5. CASE q = s
  <2>1. o \in Others(s) /\ Open(o)
    BY <1>2, <1>5 DEF Others
  <2>2. PICK x \in Others(s) : Open(x) /\ Standing(x) = "plain"
    BY <1>1, <1>5 DEF met
  <2>3. tx[x].request.kind \in Plain
    BY <2>2 DEF Standing
  <2>4. tx[o].request.kind \notin Plain /\ "plain" \notin tx[o].met
    BY <1>1, <1>3, <2>1
  <2>5. x \in Others(o)
    BY <2>2, <2>3, <2>4 DEF Others
  <2> QED BY <2>1, <2>2, <2>3, <2>4, <2>5 DEF CallsInv, PairOK, Others
<1>6. CASE o # s /\ q # s
  <2>1. o \in Others(s) /\ Open(o) /\ q \in Others(s) /\ Open(q) /\ ShelterOK(o, q)
    BY <1>2, <1>6 DEF Others, TruthInv
  <2>2. tx'[o].request = tx[o].request /\ tx'[o].met = tx[o].met \cup {kind}
        /\ tx'[q].met = tx[q].met \cup {kind}
    BY <1>1, <2>1
  <2>3. Sheltered(o) /\ kind # "plain"
    BY <1>3, <2>2 DEF Sheltered, Guarded
  <2> QED BY <2>1, <2>2, <2>3 DEF ShelterOK
<1> QED BY <1>4, <1>5, <1>6

\* What does not open, or goes on with what it was
LEMMA ShelterSame ==
  ASSUME TruthInv, NEW s \in Session, \A o \in Others(s) : tx'[o] = tx[o],
         Open(s)' => Open(s) /\ tx'[s].request = tx[s].request /\ tx'[s].met = tx[s].met
  PROVE  \A o \in Session : \A q \in Others(o) : ShelterOK(o, q)'
<1> SUFFICES ASSUME NEW o \in Session, NEW q \in Others(o)
             PROVE  ShelterOK(o, q)'
  OBVIOUS
<1>1. ASSUME NEW x \in Session
      PROVE  Open(x)' => Open(x) /\ tx'[x].request = tx[x].request /\ tx'[x].met = tx[x].met
  BY DEF Others, Open
<1>2. ShelterOK(o, q) /\ q \in Session
  BY DEF TruthInv, Others
<1> QED BY <1>1, <1>2, ShelterStays

LEMMA TruthStep == CallsInv /\ DataInv /\ TruthInv /\ [Next]_vars => TruthInv'
<1> SUFFICES ASSUME CallsInv, DataInv, TruthInv, [Next]_vars PROVE TruthInv'
  OBVIOUS
<1> DEFINE Marked == \A k \in 1 .. Len(done) : done[k].serial => MovesNothing(done[k].wrote)
<1>1. Marked
  BY DEF TruthInv
<1>2. \A o \in Session : SerialOK(o)
  BY DEF TruthInv
<1>3. ASSUME NEW s \in Session, Quiet(s)
      PROVE  TruthInv'
  <2>1. Marked' /\ ~Open(s)' /\ \A o \in Others(s) : tx'[o] = tx[o]
    BY <1>1, <1>3 DEF Quiet, Open
  <2>2. SerialOK(s)'
    BY <2>1 DEF SerialOK, Open
  <2>3. \A o \in Others(s) : SerialOK(o)'
    BY <1>2, <1>3, TruthStays DEF Quiet, Others
  <2>4. \A o \in Session : \A q \in Others(o) : ShelterOK(o, q)'
    BY <2>1, ShelterSame
  <2> QED BY <2>1, <2>2, <2>3, <2>4 DEF TruthInv, Others
<1>4. ASSUME NEW s \in Session, LooksIt(s)
      PROVE  TruthInv'
  <2>1. Marked' /\ Open(s) /\ \A o \in Others(s) : tx'[o] = tx[o]
    BY <1>1, <1>4 DEF LooksIt, Open
  <2>2. SerialOK(s)'
    BY <1>4, TruthLook
  <2>3. \A o \in Others(s) : SerialOK(o)'
    BY <1>2, <1>4, TruthStays DEF LooksIt, Others
  <2>4. \A o \in Session : \A q \in Others(o) : ShelterOK(o, q)'
    BY <1>4, <2>1, ShelterSame DEF LooksIt
  <2> QED BY <2>1, <2>2, <2>3, <2>4 DEF TruthInv, Others
<1>5. ASSUME NEW s \in Session, WritesIt(s)
      PROVE  TruthInv'
  <2>1. Marked' /\ Open(s) /\ \A o \in Others(s) : tx'[o] = tx[o]
    BY <1>1, <1>5 DEF WritesIt, Open
  <2>2. SerialOK(s)'
    BY <1>5, TruthWrite
  <2>3. \A o \in Others(s) : SerialOK(o)'
    BY <1>2, <1>5, TruthStays DEF WritesIt, Others
  <2>4. \A o \in Session : \A q \in Others(o) : ShelterOK(o, q)'
    BY <1>5, <2>1, ShelterSame DEF WritesIt
  <2> QED BY <2>1, <2>2, <2>3, <2>4 DEF TruthInv, Others
<1>6. ASSUME NEW s \in Session, NEW r \in Requests, BeginsIt(s, r)
      PROVE  TruthInv'
  <2>1. Marked'
    BY <1>1, <1>6 DEF BeginsIt
  <2>2. SerialOK(s)'
    BY <1>6 DEF BeginsIt, SerialOK
  <2>3. ASSUME NEW o \in Others(s)
        PROVE  SerialOK(o)'
    <3>1. SerialOK(o) /\ tables' = tables /\ done' = done
      BY <1>2, <1>6 DEF BeginsIt, Others
    <3>2. /\ tx'[o].phase = tx[o].phase /\ tx'[o].request = tx[o].request /\ tx'[o].base = tx[o].base
          /\ tx'[o].since = tx[o].since /\ tx'[o].mine = tx[o].mine /\ tx'[o].added = tx[o].added
          /\ tx'[o].wrote = tx[o].wrote /\ tx'[o].reads = tx[o].reads /\ tx[o].met \subseteq tx'[o].met
      BY <1>6 DEF BeginsIt, Fields
    <3> QED BY <3>1, <3>2, TruthStays
  <2>4. \A o \in Session : \A q \in Others(o) : ShelterOK(o, q)'
    BY <1>6, ShelterBegin
  <2> QED BY <2>1, <2>2, <2>3, <2>4 DEF TruthInv, Others
<1>7. ASSUME NEW s \in Session, CommitsIt(s)
      PROVE  TruthInv'
  <2>1. ~Open(s)' /\ \A o \in Others(s) : tx'[o] = tx[o]
    BY <1>7, IdleFields DEF CommitsIt, Open
  <2>2. ASSUME NEW k \in 1 .. Len(done'), done'[k].serial
        PROVE  MovesNothing(done'[k].wrote)
    <3>1. CASE Len(done') = Len(done) + 1 /\ Len(done) \in Nat /\ k \in 1 .. Len(done)
      BY <1>1, <1>7, <2>2, <3>1, DoneAfter
    <3>2. CASE Len(done') = Len(done) + 1 /\ k = Len(done) + 1
      <4>1. Serial(s) /\ done'[k].wrote = Footprint(s)
        BY <1>7, <2>2, <3>2, DoneAfter
      <4>2. MovesNothing(tx[s].wrote)
        BY <1>2, <1>7, <4>1 DEF CommitsIt, SerialOK
      <4>3. \A l : <<"assigned", l>>[1] = "assigned"
        OBVIOUS
      <4>4. \A l : <<"assigned", l>> \in Footprint(s) => <<"assigned", l>> \in tx[s].wrote
        BY <4>3, FootprintRows
      <4> QED BY <4>1, <4>2, <4>4 DEF MovesNothing
    <3> QED BY <1>7, <3>1, <3>2, DoneAfter
  <2>3. SerialOK(s)'
    BY <2>1 DEF SerialOK, Open
  <2>4. \A o \in Others(s) : SerialOK(o)'
    BY <1>7, TruthCommit
  <2>5. \A o \in Session : \A q \in Others(o) : ShelterOK(o, q)'
    BY <2>1, ShelterSame
  <2> QED BY <2>2, <2>3, <2>4, <2>5 DEF TruthInv, Others
<1>8. ASSUME UNCHANGED vars
      PROVE  TruthInv'
  <2>1. tx' = tx /\ tables' = tables /\ done' = done
    BY <1>8 DEF vars
  <2>2. \A o \in Session : SerialOK(o)'
    BY <1>2, <2>1, TruthStays
  <2>3. \A o \in Session : \A q \in Others(o) : ShelterOK(o, q)'
    BY <2>1 DEF TruthInv, ShelterOK, Sheltered, Guarded, Open, Others
  <2> QED BY <1>1, <2>1, <2>2, <2>3 DEF TruthInv
<1> QED BY <1>3, <1>4, <1>5, <1>6, <1>7, <1>8, NextDoes

\* A row that was changed since a sheltered call saw it, and on which a snapshot of its
\* own rests, completes a dangerous structure.
LEMMA ChangedIsDangerous ==
  ASSUME CallsInv, DataInv, TruthInv, NEW s \in Session, tx[s].phase = "written", Sheltered(s),
         NEW h \in tx[s].added, h.listing \in Listing,
         NEW k \in Since(s), NEW row \in tx[s].reads, row \in done[k].wrote,
         h.listing \in Histories(done[k].reads)
  PROVE  Serial(s) /\ Dangerous(s)
<1>1. Serial(s) /\ "plain" \notin tx[s].met
  BY DEF Sheltered, Guarded, Serial, IsolationOf
<1>2. done[k].serial
  BY <1>1 DEF CallsInv, SessionOK, MetThem
<1>3. k <= k
  <2>1. tx[s].since \in 0 .. Len(done)
    BY <1>1 DEF CallsInv, SessionOK, MetThem
  <2> QED BY <2>1, LengthOfDone DEF Since
<1>4. <<"history", h.listing>> \in done[k].reads \cap Footprint(s)
  BY FootprintRows DEF Histories
<1> QED BY <1>1, <1>2, <1>3, <1>4 DEF Dangerous, Since

LEMMA PublishedCommit ==
  ASSUME CallsInv, DataInv, TruthInv, NEW s \in Session, CommitsIt(s), Sheltered(s),
         NEW h \in tx[s].added
  PROVE  Payload(tx[s].mine, h.listing, None) = Payload(tables', h.listing, None)
<1> DEFINE l == h.listing
           mine == tx[s].mine
           wrote == tx[s].wrote
<1>1. /\ tx[s].phase = "written" /\ ~(Serial(s) /\ Dangerous(s))
      /\ tables' = Merged(mine, wrote)
  BY DEF CommitsIt
<1>2. Serial(s) /\ "plain" \notin tx[s].met
  BY DEF Sheltered, Guarded, Serial, IsolationOf
<1>3. l \in Listing /\ tables \in Tables /\ mine \in Tables
  BY <1>1 DEF DataInv, Known, SessionData
<1>4. /\ AgesBy(s, mine, wrote) /\ MovesNothing(wrote)
      /\ Watches(tx[s].reads, mine, l)
      /\ \A k \in Since(s) : Captures(done[k].wrote, Histories(done[k].reads), tables)
  BY <1>1, <1>2 DEF TruthInv, SerialOK
<1>5. mine.assigned[l] = tables.assigned[l]
  BY <1>1, <1>2, <1>3, <1>4, NothingMoved DEF AgesBy, MovesNothing
<1>6. mine.assigned[l] \in Pressing \cup {None}
  BY <1>3, TablesTypes
<1>7. ASSUME NEW row \in tx[s].reads, Changed(s, row),
             \A k \in Since(s) : row \in done[k].wrote => l \in Histories(done[k].reads)
      PROVE  FALSE
  BY <1>1, <1>3, <1>7, ChangedIsDangerous DEF Changed
<1>8. ASSUME NEW y \in Slot
      PROVE  ~Changed(s, <<"observed", l, y>>)
  <2>1. <<"observed", l, y>> \in tx[s].reads
    BY <1>4 DEF Watches, ObservedRows
  <2>2. \A k \in Since(s) : <<"observed", l, y>> \in done[k].wrote => l \in Histories(done[k].reads)
    BY <1>3, <1>4 DEF Captures
  <2> QED BY <1>7, <2>1, <2>2
<1>9. ASSUME mine.assigned[l] # None
      PROVE  /\ ~Changed(s, <<"profile">>)
             /\ \A y \in Slot : ~Changed(s, <<"reference", mine.assigned[l], y>>)
  <2>1. <<"profile">> \in tx[s].reads
    BY <1>4 DEF Watches
  <2>2. \A k \in Since(s) : <<"profile">> \in done[k].wrote => l \in Histories(done[k].reads)
    BY <1>3, <1>4, <1>5, <1>9 DEF Captures
  <2>3. ASSUME NEW y \in Slot
        PROVE  ~Changed(s, <<"reference", mine.assigned[l], y>>)
    <3>1. <<"reference", mine.assigned[l], y>> \in tx[s].reads
      BY <1>4, <1>9 DEF Watches, ReferenceRows
    <3>2. \A k \in Since(s) : <<"reference", mine.assigned[l], y>> \in done[k].wrote
                                => l \in Histories(done[k].reads)
      BY <1>3, <1>4, <1>5, <1>9 DEF Captures
    <3> QED BY <1>7, <3>1, <3>2
  <2> QED BY <1>7, <2>1, <2>2, <2>3
<1>10. /\ \A y \in Slot : <<"observed", l, y>> \in wrote \/ mine.observed[l][y] = tables.observed[l][y]
       /\ mine.assigned[l] # None =>
            /\ \A y \in Slot : \/ <<"reference", mine.assigned[l], y>> \in wrote
                               \/ mine.reference[mine.assigned[l]][y]
                                    = tables.reference[mine.assigned[l]][y]
            /\ <<"profile">> \in wrote \/ mine.profile = tables.profile
  BY <1>3, <1>4, <1>6, <1>8, <1>9 DEF AgesBy
<1>11. SamePayload(mine, Merged(mine, wrote), l)
  BY <1>3, <1>5, <1>10, MergedPayload
<1> QED BY <1>1, <1>11 DEF SamePayload

\* What capture_listing_completeness_snapshot took a listing to come to, in a call at
\* SERIALIZABLE that no plain one has exposed, is what the listing comes to with all that
\* was committed meanwhile: whoever changed a row of it has looked at its history, which
\* the call adds to, and SERIALIZABLE does not let both commit.
THEOREM PublishedIsTrueHolds == Spec => PublishedIsTrue
<1>1. CallsInv /\ DataInv /\ TruthInv /\ [Next]_vars =>
        [\A s \in Session : Commits(s) /\ Sheltered(s) =>
           \A h \in tx[s].added :
             Payload(tx[s].mine, h.listing, None) = Payload(tables', h.listing, None)]_history
  BY CommitIs, PublishedCommit
<1> QED BY <1>1, CallsInit, CallsStep, DataInit, DataStep, TruthInit, TruthStep, PTL DEF Spec, PublishedIsTrue
=============================================================================
