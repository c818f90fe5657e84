--------------------------- MODULE CompletenessRules ---------------------------
(***************************************************************************)
(* When is a copy complete?  Three evaluators answer, over the same rows:  *)
(* the snapshot function system.listing_completeness_payload, the service  *)
(* services/state_safe_completeness.py, and the view                       *)
(* warehouse.auction_completeness with its factory-sealed exception.       *)
(* The rows are functions from slots: a slot is a component and a variant  *)
(* of it, and the tables hold at most one row for each.                    *)
(***************************************************************************)
EXTENDS Integers, FiniteSets

CONSTANTS
  Slot,          \* (component_code, variant_key)
  Component,     \* system.component_type, the active ones
  ComponentOf,   \* the component of a slot
  Seal,          \* the slot SHRINK_WRAP, FACTORY_SEALED
  MaxQuantity    \* bound: quantities

ASSUME RulesAssumption ==
  /\ ComponentOf \in [Slot -> Component]
  /\ Seal \in Slot
  /\ MaxQuantity \in Nat \ {0}

Unstated == -1      \* observed_quantity IS NULL

\* pressing_component_expectation: CHECK (expected_quantity > 0)
Expectation ==
  [state : {"REQUIRED", "OPTIONAL", "NOT_INCLUDED", "UNKNOWN"}, quantity : 1 .. MaxQuantity]
NoExpectation == [state |-> "none", quantity |-> 0]

\* auction_component_observation; evidence is strong when it has a source, an
\* address and a confidence of 0.9 or more.
Observation ==
  [state : {"PRESENT", "ABSENT", "UNKNOWN", "NOT_VISIBLE", "NOT_APPLICABLE"},
   quantity : Unstated .. MaxQuantity, evidence : {"strong", "weak"}]
NoObservation == [state |-> "none", quantity |-> 0, evidence |-> "weak"]

Reference == [Slot -> Expectation \cup {NoExpectation}]
Observed == [Slot -> Observation \cup {NoObservation}]
Profile == SUBSET Component       \* the active rows of one media type

Required(reference) == {s \in Slot : reference[s].state = "REQUIRED"}
Applicable(profile) == {s \in Slot : ComponentOf[s] \in profile}
In(observed, states) == {s \in Slot : observed[s].state \in states}

-----------------------------------------------------------------------------
(* system.listing_completeness_payload *)

Units(quantity) == IF quantity = Unstated THEN 1 ELSE quantity

\* The slip: whatever was looked at counts as present.
Seen_Looked(row) == IF row.state \in {"PRESENT", "UNKNOWN"} THEN Units(row.quantity) ELSE 0

Seen(row) == IF row.state = "PRESENT" THEN Units(row.quantity) ELSE 0

\* missing_components: fewer are seen than the master has.
Missing(reference, observed, profile) ==
  {s \in Required(reference) \cap Applicable(profile) :
     Seen(observed[s]) < reference[s].quantity}

SnapshotStatus(reference, observed, profile) ==
  IF Required(reference) \cap Applicable(profile) = {} THEN "NO_VERIFIED_REFERENCE"
  ELSE IF Missing(reference, observed, profile) = {} THEN "COMPLETE"
  ELSE "INCOMPLETE"

-----------------------------------------------------------------------------
(* warehouse.auction_completeness *)

Unverified(reference, observed) ==
  Required(reference) \cap In(observed, {"none", "UNKNOWN", "NOT_VISIBLE", "NOT_APPLICABLE"})

\* reference_coverage: every active component has a row, none of them UNKNOWN.
VerifiedReference(reference) ==
  LET rows == {s \in Slot : reference[s] # NoExpectation} IN
  /\ {ComponentOf[s] : s \in rows} = Component
  /\ Required(reference) # {}
  /\ \A s \in rows : reference[s].state # "UNKNOWN"

FactorySealed(observed) ==
  /\ observed[Seal].state = "PRESENT"
  /\ Units(observed[Seal].quantity) >= 1
  /\ observed[Seal].evidence = "strong"
  /\ \A s \in Slot : ComponentOf[s] = ComponentOf[Seal] => observed[s].state # "ABSENT"

ViewStatus(reference, observed) ==
  CASE Required(reference) = {} -> "NO_EXPECTATION"
    [] Required(reference) \cap In(observed, {"ABSENT"}) # {} -> "INCOMPLETE"
    [] OTHER ->
         IF Unverified(reference, observed) = {} THEN "COMPLETE"
         ELSE IF VerifiedReference(reference) /\ FactorySealed(observed)
              THEN "FACTORY_SEALED_EXCEPTION" ELSE "UNVERIFIED"

-----------------------------------------------------------------------------
(* state_safe_completeness.evaluate_listing, of a listing that has a pressing *)

AtLeastOne(quantity) == IF quantity < 1 THEN 1 ELSE quantity

\* A required slot is absent, or fewer are present than the master has.
Lacking(reference, observed, profile) ==
  {s \in Required(reference) \cap Applicable(profile) :
     \/ observed[s].state = "ABSENT"
     \/ /\ observed[s].state = "PRESENT"
        /\ AtLeastOne(observed[s].quantity) < reference[s].quantity}

Evaluated(reference, observed, profile) ==
  IF ViewStatus(reference, observed) = "FACTORY_SEALED_EXCEPTION"
  THEN "FACTORY_SEALED_EXCEPTION"
  ELSE IF \A s \in Applicable(profile) : reference[s].state \notin {"REQUIRED", "NOT_INCLUDED"}
  THEN "NO_VERIFIED_REFERENCE"
  ELSE IF Lacking(reference, observed, profile) # {} THEN "INCOMPLETE"
  ELSE IF Unverified(reference, observed) \cap Applicable(profile) # {}
  THEN "INSUFFICIENT_OBSERVATION"
  ELSE "COMPLETE"

-----------------------------------------------------------------------------
(* How far the three agree *)

\* An observation that is PRESENT with a quantity of 0: the service and the view
\* take it for one, the snapshot function for none.
PresentNone(observed) == {s \in Slot : observed[s].state = "PRESENT" /\ observed[s].quantity = 0}

Agree(reference, observed, profile) ==
  LET snapshot == SnapshotStatus(reference, observed, profile)
      evaluated == Evaluated(reference, observed, profile)
      view == ViewStatus(reference, observed)
      whole == Required(reference) \subseteq Applicable(profile)
  IN
  /\ snapshot = "COMPLETE" => evaluated \in {"COMPLETE", "FACTORY_SEALED_EXCEPTION"}
  /\ evaluated = "INCOMPLETE" => snapshot = "INCOMPLETE"
  /\ evaluated = "COMPLETE" /\ PresentNone(observed) = {} =>
       snapshot \in {"COMPLETE", "NO_VERIFIED_REFERENCE"}
  /\ whole /\ snapshot = "COMPLETE" => view = "COMPLETE"
  /\ whole /\ view = "INCOMPLETE" =>
       evaluated = "INCOMPLETE" /\ snapshot = "INCOMPLETE"
=============================================================================
