---------------------------- MODULE MCCompleteness ----------------------------
(* Values for model-checking Completeness: a disc and its shrink wrap, two  *)
(* pressings, two listings, and the calls that two sessions make of them.   *)
EXTENDS Completeness

CONSTANTS l1, l2, p1, p2, disc, seal, vinyl, wrap

McComponentOf == (disc :> vinyl) @@ (seal :> wrap)
Of2(d, s) == (disc :> d) @@ (seal :> s)
Is(state, n) == [state |-> state, quantity |-> n]
Looks(state, n) == [state |-> state, quantity |-> n, evidence |-> "strong"]

McAssignments == {(l1 :> p1) @@ (l2 :> p1), (l1 :> p1) @@ (l2 :> None), (l1 :> p2) @@ (l2 :> None)}
McReferences == {(p1 :> Of2(Is("REQUIRED", 1), NoExpectation)) @@ (p2 :> NoReference)}
McObservations ==
  {(l1 :> Of2(Looks("PRESENT", Unstated), Looks("UNKNOWN", 1))) @@ (l2 :> NothingObserved)}

About(kind, l, p, slots) ==
  [NoRequest EXCEPT !.kind = kind, !.listing = l, !.pressing = p, !.slots = slots]

Saves(kind, reference) == [About(kind, None, p1, Slot) EXCEPT !.reference = reference]
Puts(kind, slot, row) ==
  [About(kind, None, p1, {slot}) EXCEPT !.reference = [NoReference EXCEPT ![slot] = row]]
Finds(kind, l, slots, observed) == [About(kind, l, p1, slots) EXCEPT !.observed = observed]

Excluded == Saves("save", Of2(Is("REQUIRED", 1), Is("NOT_INCLUDED", 1)))
Assigned == About("assign", l2, p1, {})
Editing ==
  {Puts("edit", disc, NoExpectation), Puts("edit", disc, Is("REQUIRED", 2)),
   Puts("edit", seal, Is("NOT_INCLUDED", 1))}

\* The disc's record is given to the other pressing and back, or becomes the seal's.
Moves(kind, from, to, slot, row) ==
  [Puts(kind, slot, row) EXCEPT !.pressing = to, !.source = from]
Moving ==
  {Moves("move", <<p1, disc>>, p2, disc, Is("REQUIRED", 1)),
   Moves("move", <<p1, disc>>, p1, seal, Is("REQUIRED", 1)),
   Moves("restore", <<p2, disc>>, p1, disc, Is("REQUIRED", 1))}

McRequests ==
  Editing \cup Moving \cup
  {Saves("save", Of2(Is("REQUIRED", 1), Is("UNKNOWN", 1))),
   Saves("guide", Of2(Is("REQUIRED", 2), Is("NOT_INCLUDED", 1))),
   Puts("review", disc, Is("OPTIONAL", 1)), Puts("review", seal, Is("REQUIRED", 1)),
   Finds("observe", l1, Slot, Of2(Looks("PRESENT", 0), NoObservation)),
   Finds("seal", l1, {seal}, Of2(NoObservation, Looks("PRESENT", 1))),
   Finds("unseal", l1, {seal}, NothingObserved),
   About("fill", l1, p2, {}), About("fill", l1, None, {}), About("fill", l2, p1, {}),
   [NoRequest EXCEPT !.kind = "profile", !.profile = {vinyl}],
   Assigned}

Alike == Permutations(Session)

\* For the violations: two editors; one who moves a record; one that excludes a component; one that assigns
McEdits == Editing
McMoves == Moving
McExcludes == {Excluded, Puts("edit", seal, Is("NOT_INCLUDED", 1))}
McAssigns == {Assigned, About("fill", l2, p1, {})}
=============================================================================
