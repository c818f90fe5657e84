----------------------------- MODULE Completeness -----------------------------
(***************************************************************************)
(* The completeness tables, the services that edit them, and the triggers  *)
(* that keep the history of what each listing came to                      *)
(* (alembic/versions/d4e8b1c7a903_..._up.sql).                             *)
(*                                                                         *)
(* A service call is one transaction: it begins, which fixes its now();    *)
(* at SERIALIZABLE its first statement takes the snapshot it reads from;   *)
(* it writes, once it has the locks; it commits.  The statements of the    *)
(* write are one step, for the rows it writes are locked and what it has   *)
(* not committed nobody sees, but each of them fires its triggers, and the *)
(* captures they make are all recorded.  Of SERIALIZABLE the model has what*)
(* PostgreSQL promises: a row changed since the snapshot cannot be written,*)
(* and of three transactions in a dangerous structure not all commit.  It  *)
(* may end a transaction at any time besides.                              *)
(*                                                                         *)
(* The pressings are all of one media type.                                *)
(***************************************************************************)
EXTENDS CompletenessRules, SequencesExt

CONSTANTS
  Listing, Pressing, Session,
  None,         \* no pressing; a session with nothing to do
  Requests,     \* the calls, with their arguments (see Request)
  Assignments,  \* what is assigned to begin with, and what the tables hold:
  References, Observations,
  MaxBegun      \* bound: transactions begun

\* kind: save, pressing_reference_admin.save_reference_rows; guide,
\* completeness_reference.save_pressing_reference_rows; review,
\* media_aware_reference.apply_reference_changes; observe, seal and unseal, the
\* observations of completeness_reference; edit, move and restore, a record of
\* reference_record_admin: created, updated where it stands, deleted; updated with
\* another key; given the state, and the key, that an event had left it with; fill, the
\* identity fill's assignments; profile, media_profile_admin; assign,
\* auction_intake.apply_assignment.
\* listing or pressing: what the call is about.  slots: the rows it is about.  source:
\* the pressing and the slot under which the record of a move or a restore stands.
Request ==
  [kind : {"save", "guide", "review", "observe", "seal", "unseal", "edit", "move", "restore",
           "fill", "profile", "assign"},
   listing : Listing \cup {None}, pressing : Pressing \cup {None}, slots : SUBSET Slot,
   source : (Pressing \X Slot) \cup {None},
   reference : Reference, observed : Observed, profile : Profile]

NoReference == [s \in Slot |-> NoExpectation]
NothingObserved == [s \in Slot |-> NoObservation]
NoRequest ==
  [kind |-> "none", listing |-> None, pressing |-> None, slots |-> {},
   source |-> None, reference |-> NoReference, observed |-> NothingObserved, profile |-> {}]

ASSUME CompletenessAssumption ==
  /\ Requests \subseteq Request
  /\ \A r \in Requests : r.kind \in {"observe", "seal", "unseal", "fill", "assign"} => r.listing \in Listing
  /\ \A r \in Requests : r.kind \in {"save", "guide", "review", "edit", "move", "restore"} => r.pressing \in Pressing
  /\ \A r \in Requests : r.kind \in {"save", "guide"} => r.slots = Slot
  /\ \A r \in Requests : r.kind \in {"move", "restore"} =>
       r.source \in Pressing \X Slot /\ \E s \in Slot : r.slots = {s} /\ r.reference[s] # NoExpectation
  /\ Assignments \subseteq [Listing -> Pressing \cup {None}]
  /\ References \subseteq [Pressing -> Reference]
  /\ Observations \subseteq [Listing -> Observed]
  /\ None \notin Listing \cup Pressing
  /\ MaxBegun \in Nat
  /\ IsFiniteSet(Slot) /\ IsFiniteSet(Component)

VARIABLES
  tables,    \* the committed rows
  history,   \* listing_completeness_snapshot, committed; never updated or deleted
  nextId,    \* its sequence
  begun,     \* transactions begun: the time of the latest BEGIN
  done,      \* the transactions that committed while others were open, in order
  tx         \* per session: its transaction

vars == <<tables, history, nextId, begun, done, tx>>

Tables ==
  [assigned : [Listing -> Pressing \cup {None}], reference : [Pressing -> Reference],
   observed : [Listing -> Observed], profile : Profile]

-----------------------------------------------------------------------------
(* What a snapshot holds, and when one is taken *)

\* semantic_payload with its three fingerprints; forced is the pressing that the
\* trigger names when the listing has none any more.
Payload(rows, l, forced) ==
  LET p == IF rows.assigned[l] # None THEN rows.assigned[l] ELSE forced
      reference == IF p = None THEN NoReference ELSE rows.reference[p]
      profile == IF p = None THEN {} ELSE rows.profile
      observed == rows.observed[l]
  IN
  [pressing |-> p,
   status |-> IF rows.assigned[l] = None THEN "UNASSIGNED"
              ELSE SnapshotStatus(reference, observed, profile),
   required |-> {<<s, reference[s].quantity>> :
                   s \in Required(reference) \cap Applicable(profile)},
   seen |-> {<<s, observed[s].state, Units(observed[s].quantity)>> :
               s \in {x \in Slot : observed[x] # NoObservation}},
   profile |-> profile]

\* ORDER BY created_at DESC, id DESC LIMIT 1
Latest(snapshots) ==
  CHOOSE h \in snapshots : \A g \in snapshots : g.at < h.at \/ (g.at = h.at /\ g.id <= h.id)

Of(snapshots, l) == {h \in snapshots : h.listing = l}

\* capture_listing_completeness_snapshot: nothing when the latest has the same
\* fingerprint.  work is what the transaction sees: the rows, the history, what it has
\* added to that, the listings it has captured, the next id, its now().
News(work, l, payload) ==
  LET earlier == Of(work.history \cup work.added, l)
  IN earlier = {} \/ Latest(earlier).payload # payload

\* The row triggers of a statement that leaves the tables as they are in rows.  They take
\* an id each; only those of one listing are ever compared, so one stands for them all.
Statement(work, rows, listings) ==
  LET PayloadOf(l) == Payload(rows, l, work.tables.assigned[l]) IN
  [work EXCEPT !.tables = rows, !.captured = @ \cup listings, !.id = @ + 1,
     !.added = @ \cup {[id |-> work.id, listing |-> l, at |-> work.at, payload |-> PayloadOf(l)] :
                         l \in {l \in listings : News(work, l, PayloadOf(l))}}]

AssignedTo(rows, p) == {l \in Listing : rows.assigned[l] = p}

\* The slip: the expectation trigger looks up one listing of the pressing.
PutReference_One(work, p, reference) ==
  Statement(work, [work.tables EXCEPT !.reference[p] = reference],
            LET ls == AssignedTo(work.tables, p) IN
            IF ls = {} THEN {} ELSE {CHOOSE l \in ls : TRUE})

PutReference(work, p, reference) ==
  Statement(work, [work.tables EXCEPT !.reference[p] = reference],
            AssignedTo(work.tables, p))

PutObserved(work, l, observed) ==
  Statement(work, [work.tables EXCEPT !.observed[l] = observed], {l})

PutAssigned(work, l, p) == Statement(work, [work.tables EXCEPT !.assigned[l] = p], {l})

PutProfile(work, profile) ==
  Statement(work, [work.tables EXCEPT !.profile = profile],
            {l \in Listing : work.tables.assigned[l] # None})

-----------------------------------------------------------------------------
(* The services *)

\* The calls that ask for no isolation
Plain == {"edit", "move", "restore", "unseal", "fill"}

\* The slip: the database's default for the others too.
IsolationOf_Default(kind) == "read committed"

IsolationOf(kind) == IF kind \in Plain THEN "read committed" ELSE "serializable"

\* normalize_reference_rows and the record editor give an excluded component the quantity
\* 0; the other normalizers give it 1, and an event has the quantity that was stored.
Submitted(r) ==
  [s \in Slot |-> IF r.kind \in {"save", "edit", "move"} /\ r.reference[s].state = "NOT_INCLUDED"
                  THEN [r.reference[s] EXCEPT !.quantity = 0] ELSE r.reference[s]]

\* The table's CHECK (expected_quantity > 0)
Storable(r) == \A s \in r.slots : Submitted(r)[s] = NoExpectation \/ Submitted(r)[s].quantity > 0

\* What the confirmation token of a preview stands for, beside the call's arguments
Token(r, rows) ==
  [reference |-> IF r.kind = "review" THEN rows.reference[r.pressing] ELSE NoReference,
   profile |-> IF r.kind = "profile" THEN rows.profile ELSE {}]

Reviewed == {"review", "profile", "assign"}

\* The slip: the token is not compared.
Stale_Never(r, rows, token) == FALSE

Stale(r, rows, token) == r.kind \in Reviewed /\ token # Token(r, rows)

\* The record of a move or a restore is there.
Stands(r, rows) == rows.reference[r.source[1]][r.source[2]] # NoExpectation

\* Why a call raises, given the rows that it reads
Refusal(r, rows, token) ==
  CASE Stale(r, rows, token) -> "stale"
    [] r.kind = "review" /\
         ( \/ \A s \in r.slots : rows.reference[r.pressing][s] = r.reference[s]
           \/ \E s \in r.slots \ Applicable(rows.profile) : r.reference[s] # NoExpectation
           \/ \E s \in r.slots : r.reference[s] = NoExpectation
                                 /\ rows.reference[r.pressing][s] = NoExpectation ) -> "blocked"
    [] r.kind = "profile" /\ rows.profile = r.profile -> "blocked"
    [] r.kind = "assign" /\ rows.assigned[r.listing] # None -> "blocked"
    [] r.kind = "observe" /\ rows.assigned[r.listing] # r.pressing -> "moved"
    [] r.kind = "seal" /\
         ( \/ rows.assigned[r.listing] = None
           \/ \E s \in In(rows.observed[r.listing], {"ABSENT"}) :
                ComponentOf[s] = ComponentOf[Seal] ) -> "blocked"
    [] r.kind = "edit" /\ (\E s \in r.slots : r.reference[s] = NoExpectation /\
                             rows.reference[r.pressing][s] = NoExpectation) -> "blocked"
    [] r.kind = "move" /\ ~Stands(r, rows) -> "blocked"
    [] r.kind \in {"move", "restore"} /\ Stands(r, rows) /\
         (\E s \in r.slots : <<r.pressing, s>> # r.source
                            /\ rows.reference[r.pressing][s] # NoExpectation) -> "blocked"
    [] OTHER -> IF Storable(r) THEN "none" ELSE "check"

\* DELETE of the rows that are to be written anew
Cleared(r, work) ==
  LET rows == work.tables
      Kept(observed) == [s \in Slot |-> IF s \in r.slots THEN NoObservation ELSE observed[s]]
  IN
  CASE r.kind \in {"save", "guide"} /\ rows.reference[r.pressing] # NoReference ->
         PutReference(work, r.pressing, NoReference)
    [] r.kind \in {"observe", "seal", "unseal"}
         /\ Kept(rows.observed[r.listing]) # rows.observed[r.listing] ->
         PutObserved(work, r.listing, Kept(rows.observed[r.listing]))
    [] OTHER -> work

\* What is then inserted, updated or switched, with a statement each
Placed(r, rows) ==
  CASE r.kind \in {"save", "guide"} -> {s \in Slot : Submitted(r)[s] # NoExpectation}
    [] r.kind = "review" -> {s \in r.slots : rows.reference[r.pressing][s] # r.reference[s]}
    [] r.kind \in {"edit", "move", "restore"} -> r.slots
    [] r.kind \in {"observe", "seal", "unseal"} -> {s \in r.slots : r.observed[s] # NoObservation}
    [] r.kind \in {"fill", "assign"} -> {r.listing}
    [] r.kind = "profile" -> (r.profile \ rows.profile) \cup (rows.profile \ r.profile)

\* An UPDATE of the record with all its columns, the key among them
Moved(r, x, reference) ==
  [p \in Pressing |-> [s \in Slot |->
     IF p = r.pressing /\ s = x THEN Submitted(r)[x]
     ELSE IF <<p, s>> = r.source THEN NoExpectation
     ELSE reference[p][s]]]

\* The pressing that a record is moved away from: the trigger looks up the listings of
\* NEW.pressing_id only.
Left(r) == IF r.kind \in {"move", "restore"} THEN {r.source[1]} \ {r.pressing} ELSE {}

Place(r, x, work) ==
  LET rows == work.tables IN
  CASE r.kind \in {"save", "guide", "review", "edit"} ->
         PutReference(work, r.pressing, [rows.reference[r.pressing] EXCEPT ![x] = Submitted(r)[x]])
    [] r.kind \in {"move", "restore"} ->
         Statement(work, [rows EXCEPT !.reference = Moved(r, x, @)], AssignedTo(rows, r.pressing))
    [] r.kind \in {"observe", "seal", "unseal"} ->
         PutObserved(work, r.listing, [rows.observed[r.listing] EXCEPT ![x] = r.observed[x]])
    [] r.kind \in {"fill", "assign"} -> PutAssigned(work, r.listing, r.pressing)
    [] r.kind = "profile" ->
         PutProfile(work, IF x \in r.profile THEN rows.profile \cup {x} ELSE rows.profile \ {x})

\* The statements of a call
Worked(r, work) ==
  FoldSet(LAMBDA x, w : Place(r, x, w), Cleared(r, work), Placed(r, work.tables))

\* The trigger on assignments writes its audit event without an account, and
\* apply_assignment looks for one of its own account.
AuditAccount == "none"
FindsItsEvent(r) == r.kind = "assign" => AuditAccount = "owner"

-----------------------------------------------------------------------------
(* Rows: what is locked, written and read *)

ReferenceRows(p, slots) == {<<"reference", p, s>> : s \in slots}
ObservedRows(l, slots) == {<<"observed", l, s>> : s \in slots}

\* The rows that the call writes; those that are not there yet included
Writes(r, rows) ==
  CASE r.kind \in {"save", "guide"} ->
         ReferenceRows(r.pressing, {s \in Slot : rows.reference[r.pressing][s] # NoExpectation
                                                 \/ r.reference[s] # NoExpectation})
    [] r.kind \in {"review", "edit"} -> ReferenceRows(r.pressing, r.slots)
    [] r.kind \in {"move", "restore"} ->
         ReferenceRows(r.pressing, r.slots)
           \cup (IF Stands(r, rows) THEN ReferenceRows(r.source[1], {r.source[2]}) ELSE {})
    [] r.kind \in {"observe", "seal", "unseal"} ->
         ObservedRows(r.listing, {s \in r.slots : rows.observed[r.listing][s] # NoObservation
                                                  \/ r.observed[s] # NoObservation})
    [] r.kind \in {"fill", "assign"} -> {<<"assigned", r.listing>>}
    [] r.kind = "profile" -> {<<"profile">>}

\* The slip: save_listing_observation_rows reads the assignment without FOR UPDATE.
Locks_NoAssignment(r) ==
  IF r.kind \in {"save", "guide", "review"} THEN {<<"pressing", r.pressing>>} ELSE {}

\* SELECT ... FOR UPDATE
Locks(r) ==
  CASE r.kind \in {"save", "guide", "review"} -> {<<"pressing", r.pressing>>}
    [] r.kind \in {"observe", "seal"} -> {<<"assigned", r.listing>>}
    [] OTHER -> {}

\* A new reference or assignment takes its pressing's key.
Shares(r) ==
  IF r.kind \in {"edit", "move", "restore", "fill", "assign"} /\ r.pressing # None
  THEN {<<"pressing", r.pressing>>} ELSE {}

\* What a transaction at SERIALIZABLE has read: what it looked up, and what the
\* triggers did for the listings they captured
Reads(r, work) ==
  LET rows == work.tables
      own == CASE r.kind \in {"save", "guide", "review"} ->
                    ReferenceRows(r.pressing, Slot) \cup {<<"assigned to", r.pressing>>}
               [] r.kind \in {"observe", "seal"} ->
                    ObservedRows(r.listing, Slot) \cup {<<"assigned", r.listing>>}
               [] r.kind = "profile" ->
                    {<<"profile">>} \cup {<<"assigned to", p>> : p \in Pressing}
               [] OTHER -> {<<"assigned", r.listing>>}
  IN own \cup UNION {{<<"history", l>>, <<"assigned", l>>, <<"profile">>}
                       \cup ObservedRows(l, Slot)
                       \cup (IF rows.assigned[l] = None THEN {}
                             ELSE ReferenceRows(rows.assigned[l], Slot)) : l \in work.captured}

\* The committed rows once a transaction has added its own
Merged(mine, wrote) ==
  [assigned |-> [l \in Listing |-> IF <<"assigned", l>> \in wrote THEN mine.assigned[l]
                                   ELSE tables.assigned[l]],
   reference |-> [p \in Pressing |-> [s \in Slot |->
                    IF <<"reference", p, s>> \in wrote THEN mine.reference[p][s]
                    ELSE tables.reference[p][s]]],
   observed |-> [l \in Listing |-> [s \in Slot |->
                    IF <<"observed", l, s>> \in wrote THEN mine.observed[l][s]
                    ELSE tables.observed[l][s]]],
   profile |-> IF <<"profile">> \in wrote THEN mine.profile ELSE tables.profile]

-----------------------------------------------------------------------------
(* Transactions *)

\* why: what a call raised.  since: how many had committed when it took its
\* snapshot.  met, history: for every transaction that overlapped it, what it was when the
\* later of the two began (see Standing).
Idle ==
  [request |-> NoRequest, phase |-> "idle", token |-> Token(NoRequest, [profile |-> {}]),
   why |-> "none", at |-> 0, base |-> {}, past |-> {}, since |-> 0, mine |-> {},
   added |-> {}, wrote |-> {}, reads |-> {}, met |-> {}]

Open(s) == tx[s].phase \in {"begun", "looked", "written"}
Serial(s) == IsolationOf(tx[s].request.kind) = "serializable"
Others(s) == Session \ {s}

\* Plain; or isolated itself, but exposed to a plain one that it has met; or neither.
Standing(s) ==
  IF tx[s].request.kind \in Plain THEN "plain"
  ELSE IF "plain" \in tx[s].met THEN "exposed" ELSE "isolated"

Init ==
  /\ \E a \in Assignments, r \in References, o \in Observations :
       tables = [assigned |-> a, reference |-> r, observed |-> o, profile |-> Component]
  /\ LET baseline == Statement([tables |-> tables, history |-> {}, added |-> {}, captured |-> {},
                                id |-> 1, at |-> 0],
                               tables, {l \in Listing : tables.assigned[l] # None})
     IN history = baseline.added /\ nextId = baseline.id
  /\ begun = 0
  /\ done = << >>
  /\ tx = [s \in Session |-> Idle]

\* A page shows the preview of what its user will confirm.
Preview(s, r) ==
  /\ tx[s] = Idle /\ r.kind \in Reviewed
  /\ begun < MaxBegun
  /\ Refusal(r, tables, Token(r, tables)) = "none"
  /\ tx' = [tx EXCEPT ![s].request = r, ![s].phase = "planned", ![s].token = Token(r, tables)]
  /\ UNCHANGED <<tables, history, nextId, begun, done>>

Begin(s, r) ==
  /\ \/ tx[s] = Idle /\ r.kind \notin Reviewed
     \/ tx[s].phase = "planned" /\ r = tx[s].request
  /\ begun < MaxBegun
  /\ begun' = begun + 1
  /\ tx' = [o \in Session |->
              IF o = s
              THEN [tx[s] EXCEPT !.request = r, !.phase = "begun", !.at = begun + 1,
                                 !.met = {Standing(q) : q \in {q \in Others(s) : Open(q)}}]
              ELSE IF Open(o)
              THEN [tx[o] EXCEPT !.met = @ \cup {IF r.kind \in Plain THEN "plain" ELSE "isolated"}]
              ELSE tx[o]]
  /\ UNCHANGED <<tables, history, nextId, done>>

\* The first statement of a transaction at SERIALIZABLE
Look(s) ==
  /\ tx[s].phase = "begun" /\ Serial(s)
  /\ tx' = [tx EXCEPT ![s].phase = "looked", ![s].base = tables, ![s].past = history,
                      ![s].since = Len(done)]
  /\ UNCHANGED <<tables, history, nextId, begun, done>>

\* No other transaction holds a lock that this one needs.
Unlocked(s, rows) ==
  LET r == tx[s].request IN
  \A o \in Others(s) : tx[o].phase = "written" =>
    /\ (Writes(r, rows) \cup Locks(r)) \cap (tx[o].wrote \cup Locks(tx[o].request)) = {}
    /\ Locks(r) \cap Shares(tx[o].request) = {}
    /\ Shares(r) \cap Locks(tx[o].request) = {}

\* A row that it locks or writes has been changed since its snapshot.
Conflicts(s, rows) ==
  LET r == tx[s].request IN
  Serial(s) /\ \E k \in tx[s].since + 1 .. Len(done) :
    done[k].wrote \cap (Writes(r, rows) \cup Locks(r)) # {}

Raised(s, why) == [tx EXCEPT ![s] = [Idle EXCEPT !.request = tx[s].request, !.phase = "raised",
                                                 !.why = why]]

Write(s) ==
  LET t == tx[s]
      rows == IF Serial(s) THEN t.base ELSE tables
      work == Worked(t.request, [tables |-> rows, history |-> IF Serial(s) THEN t.past ELSE history,
                                 added |-> {}, captured |-> {}, id |-> nextId, at |-> t.at])
      why == IF Conflicts(s, rows) THEN "conflict" ELSE Refusal(t.request, rows, t.token)
      wrote == Writes(t.request, rows)
  IN
  /\ t.phase = IF Serial(s) THEN "looked" ELSE "begun"
  /\ Unlocked(s, rows)
  /\ IF why # "none"
     THEN tx' = Raised(s, why) /\ UNCHANGED nextId
     ELSE /\ nextId' = work.id
          /\ tx' = IF ~FindsItsEvent(t.request) THEN Raised(s, "no event")
                   ELSE [tx EXCEPT ![s].phase = "written", ![s].base = {}, ![s].past = {},
                                   ![s].mine = work.tables, ![s].added = work.added,
                                   ![s].wrote = wrote,
                                   ![s].reads = IF Serial(s) THEN Reads(t.request, work) ELSE {}]
  /\ UNCHANGED <<tables, history, begun, done>>

\* What a transaction counts as having written when reads are compared with writes
Footprint(s) ==
  tx[s].wrote
    \cup {<<"history", h.listing>> : h \in tx[s].added}
    \cup (IF tx[s].request.kind \in {"fill", "assign"}
          THEN {<<"assigned to", p>> : p \in Pressing} ELSE {})

\* With this transaction a dangerous structure would be complete: one read what a
\* second wrote, which read what a third wrote, each overlapping the next, and the
\* third committed first.
Dangerous(s) ==
  LET After == tx[s].since + 1 .. Len(done)
      SawOld(reads, k) == done[k].serial /\ reads \cap done[k].wrote # {}
  IN
  \/ \E k, i \in After : /\ k <= i /\ done[i].serial
                         /\ SawOld(tx[s].reads, k)
                         /\ done[i].reads \cap Footprint(s) # {}
  \/ \E i \in After : /\ SawOld(tx[s].reads, i)
                      /\ \E k \in done[i].since + 1 .. i - 1 : SawOld(done[i].reads, k)

Close(s) == [tx EXCEPT ![s] = Idle]

Commit(s) ==
  /\ tx[s].phase = "written"
  /\ IF Serial(s) /\ Dangerous(s)
     THEN /\ tx' = Raised(s, "conflict")
          /\ UNCHANGED <<tables, history, done>>
     ELSE /\ tables' = Merged(tx[s].mine, tx[s].wrote)
          /\ history' = history \cup tx[s].added
          /\ tx' = Close(s)
          /\ done' = IF \E o \in Others(s) : Open(o)
                     THEN Append(done, [serial |-> Serial(s), since |-> tx[s].since,
                                        wrote |-> Footprint(s), reads |-> tx[s].reads])
                     ELSE << >>
  /\ UNCHANGED <<nextId, begun>>

\* A call that raised rolls back; a connection is lost, or the database ends a
\* transaction of its own accord.
End(s) ==
  /\ tx[s].phase # "idle"
  /\ tx' = Close(s)
  /\ UNCHANGED <<tables, history, nextId, begun, done>>

Next ==
  \E s \in Session :
    \/ \E r \in Requests : Preview(s, r) \/ Begin(s, r)
    \/ Look(s) \/ Write(s) \/ Commit(s) \/ End(s)

Spec == Init /\ [][Next]_vars

-----------------------------------------------------------------------------
(* Properties *)

CompletenessTypeOK ==
  /\ tables \in Tables
  /\ \A h \in history : /\ h.id \in 1 .. nextId - 1 /\ h.at \in 0 .. begun
                        /\ h.listing \in Listing
  /\ \A g, h \in history : g.listing = h.listing /\ g.id = h.id => g = h
  /\ begun \in 0 .. MaxBegun
  /\ \A k \in DOMAIN done : done[k].since \in 0 .. k - 1
  /\ \A s \in Session :
       /\ tx[s].phase \in {"idle", "planned", "begun", "looked", "written", "raised"}
       /\ tx[s].request \in Requests \cup {NoRequest}
       /\ tx[s].phase \in {"begun", "looked", "written"} <=> tx[s].at > 0
       /\ tx[s].phase = "looked" => tx[s].base \in Tables
       /\ tx[s].phase = "written" => tx[s].mine \in Tables

\* The three evaluators contradict each other about no listing: a snapshot that says
\* COMPLETE is borne out by the service and, where the media profile has every
\* required component, by the view; what either finds INCOMPLETE the snapshot does too.
EvaluatorsAgree ==
  \A l \in Listing :
    tables.assigned[l] # None =>
      Agree(tables.reference[tables.assigned[l]], tables.observed[l], tables.profile)

\* The step in which a session's transaction commits
Commits(s) == tx[s].phase = "written" /\ tx'[s].phase = "idle"

\* It is one of the calls that ask for isolation, and so are all that it overlapped.
Guarded(s) == tx[s].request.kind \notin Plain /\ "plain" \notin tx[s].met

\* And so are all that those had overlapped when it began: a call that a plain one has
\* moved a listing under commits rows without a snapshot of that listing.
Sheltered(s) == Guarded(s) /\ "exposed" \notin tx[s].met

\* What the page shows for a listing is what its rows come to.
Current(rows, snapshots, l) ==
  Of(snapshots, l) # {} /\
    IF rows.assigned[l] = None THEN Latest(Of(snapshots, l)).payload.status = "UNASSIGNED"
    ELSE Latest(Of(snapshots, l)).payload = Payload(rows, l, None)

\* When a transaction that met no other commits, the latest snapshot of every listing
\* whose payload it changed, whichever table it changed it through and in however many
\* statements, is what the rows now come to.  The listings of a pressing that a record
\* is moved away from are the exception: the trigger does not look them up.
AloneMeansCurrent ==
  [][\A s \in Session : Commits(s) /\ tx[s].met = {} =>
       \A l \in Listing :
         /\ tables.assigned[l] \notin Left(tx[s].request)
         /\ \/ Payload(tables, l, None) # Payload(tables', l, None)
            \/ Of(tx[s].added, l) # {}
         => Current(tables', history', l)]_<<tables, history>>

\* Among calls at SERIALIZABLE that no plain one has exposed no snapshot is computed from
\* rows that are not there: what a call took a listing to come to, from the rows it could
\* see, is what the listing comes to with everything that was committed meanwhile.
PublishedIsTrue ==
  [][\A s \in Session : Commits(s) /\ Sheltered(s) =>
       \A h \in tx[s].added :
         Payload(tx[s].mine, h.listing, None) = Payload(tables', h.listing, None)]_history

\* A reviewed change is applied to the reference that was reviewed, whatever other calls
\* at SERIALIZABLE ran between the preview and the commit.
ReviewedIsWhatIsApplied ==
  [][\A s \in Session :
       Commits(s) /\ tx[s].request.kind = "review" /\ Guarded(s) =>
         tables.reference[tx[s].request.pressing] = tx[s].token.reference]_tables

\* Observations saved against a pressing are committed while the listing is still
\* assigned to it, also when the identity fill moves it meanwhile.
ObservedOnItsPressing ==
  [][\A s \in Session : Commits(s) /\ tx[s].request.kind = "observe" =>
       tables.assigned[tx[s].request.listing] = tx[s].request.pressing]_tables

\* 'Current derived completeness' (app/pages/12_Completeness_History.py:167): the latest
\* snapshot of an assigned listing is what its rows come to, when no call is under way.
LatestIsCurrent ==
  (\A s \in Session : tx[s].phase = "idle") =>
    \A l \in Listing : tables.assigned[l] # None => Current(tables, history, l)

\* A reference whose every component is classified, and which the normalizer has
\* accepted, can be stored.
AcceptedReferenceIsSaved == \A s \in Session : tx[s].why # "check"

\* A reviewed assignment that nothing has overtaken is applied, with an audit event of
\* its account.
ReviewedAssignmentIsApplied == \A s \in Session : tx[s].why # "no event"
=============================================================================
