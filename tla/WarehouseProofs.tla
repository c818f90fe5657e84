---------------------------- MODULE WarehouseProofs ----------------------------
(***************************************************************************)
(* Theorems about Warehouse, for any number of pages, listings and         *)
(* versions of the parsers, whatever these find on the pages.              *)
(***************************************************************************)
EXTENDS Warehouse, FiniteSetTheorems, WellFoundedInduction, TLAPS

\* A listing that a page shows has a staging row from a parse at least as new as the
\* page's, unless some page was parsed by a newer version since.
NewestHasIt ==
  \A p \in Pages : parsed[p] \in 1 .. version => \A l \in Html[parsed[p]][p] :
    \/ staging[l] # NoPage /\ parsed[staging[l]] >= parsed[p]
    \/ \E q \in Pages : parsed[q] > parsed[p]

AssignedIsHeld == Assigned \subseteq warehouse

WarehouseInv == WarehouseTypeOK /\ StagedByItsPage /\ NewestHasIt /\ AssignedIsHeld

-----------------------------------------------------------------------------
(* Parsing *)

\* A set of pages that is not empty has a last one.
LEMMA MaxIsThere ==
  ASSUME NEW T \in SUBSET Pages, T # {}
  PROVE  Max(T) \in T
<1> DEFINE D == {NPages - p : p \in T}
<1>1. NPages \in Nat
  BY WarehouseAssumption
<1>2. D \subseteq Nat /\ D # {}
  BY <1>1 DEF Pages
<1>3. PICK d \in D : \A e \in D : <<e, d>> \notin OpToRel(<, Nat)
  <2> HIDE DEF D
  <2> QED BY <1>2, NatLessThanWellFounded, WFMin
<1>4. \A e \in D : ~(e < d)
  <2> TAKE e \in D
  <2>1. e \in Nat /\ d \in Nat
    BY <1>2
  <2>2. <<e, d>> \notin OpToRel(<, Nat)
    BY <1>3
  <2>3. e < d => <<e, d>> \in OpToRel(<, Nat)
    BY <2>1 DEF OpToRel
  <2> QED BY <2>2, <2>3
<1>5. PICK p \in T : d = NPages - p
  OBVIOUS
<1>6. \A q \in T : p >= q
  <2> TAKE q \in T
  <2>1. ~(NPages - q < NPages - p)
    BY <1>4, <1>5
  <2>2. p \in Int /\ q \in Int
    BY <1>1 DEF Pages
  <2> QED BY <2>1, <2>2, <1>1
<1> QED BY <1>6 DEF Max

Showing(S, l) == {p \in S : l \in Html[version][p]}

\* What a parse does to a page, to a listing that it finds, and to one that it does not
LEMMA ParseEffect ==
  ASSUME WarehouseTypeOK, NEW S \in SUBSET Fetched, Parse(S)
  PROVE  /\ version' = version /\ warehouse' = warehouse /\ assignment' = assignment
         /\ S \subseteq Pages
         /\ parsed' = [p \in Pages |-> IF p \in S THEN version ELSE parsed[p]]
         /\ DOMAIN staging' = Listings
         /\ \A l \in Listings :
              \/ staging'[l] \in S /\ l \in Html[version][staging'[l]]
              \/ /\ \A p \in S : l \notin Html[version][p]
                 /\ staging[l] \in S
                 /\ staging'[l] = NoPage
              \/ /\ \A p \in S : l \notin Html[version][p]
                 /\ staging[l] \notin S
                 /\ staging'[l] = staging[l]
<1>1. S \subseteq Pages
  BY DEF Fetched
<1>2. staging' = [l \in Listings |-> IF Showing(S, l) # {} THEN Max(Showing(S, l))
                                     ELSE IF staging[l] \in S THEN NoPage ELSE staging[l]]
  BY DEF Parse, Restaged, Showing
<1>3. ASSUME NEW l \in Listings
      PROVE  \/ staging'[l] \in S /\ l \in Html[version][staging'[l]]
             \/ /\ \A p \in S : l \notin Html[version][p]
                /\ staging[l] \in S
                /\ staging'[l] = NoPage
             \/ /\ \A p \in S : l \notin Html[version][p]
                /\ staging[l] \notin S
                /\ staging'[l] = staging[l]
  <2>1. CASE Showing(S, l) # {}
    <3>1. Showing(S, l) \in SUBSET Pages
      BY <1>1 DEF Showing
    <3>2. staging'[l] \in Showing(S, l)
      BY <1>2, <2>1, <3>1, MaxIsThere
    <3> QED BY <3>2 DEF Showing
  <2>2. CASE Showing(S, l) = {}
    <3>1. \A p \in S : l \notin Html[version][p]
      BY <2>2 DEF Showing
    <3> QED BY <1>2, <2>2, <3>1
  <2> QED BY <2>1, <2>2
<1>4. parsed' = [p \in Pages |-> IF p \in S THEN version ELSE parsed[p]]
  BY DEF Parse, Stamped
<1> QED BY <1>1, <1>2, <1>3, <1>4 DEF Parse

\* Every parser finds listings of the page's own marketplace.
LEMMA HtmlIsOfItsSource ==
  ASSUME NEW v \in 1 .. NVersions, NEW p \in Pages, NEW l \in Html[v][p]
  PROVE  l \in Listings /\ l[1] = SourceOf[p]
BY WarehouseAssumption DEF Of

LEMMA ParseKeeps ==
  ASSUME WarehouseInv, NEW S \in SUBSET Fetched, Parse(S)
  PROVE  WarehouseInv'
<1> USE DEF WarehouseInv
<1>1. NVersions \in Nat /\ version \in 1 .. NVersions /\ NPages \in Nat
  BY WarehouseAssumption DEF WarehouseTypeOK
<1>2. \A p \in Pages : parsed[p] \in {Absent} \cup 0 .. version
  BY DEF WarehouseTypeOK
<1>3. \A p \in Pages : parsed'[p] = IF p \in S THEN version ELSE parsed[p]
  BY ParseEffect
<1>4. \A p \in Pages : parsed'[p] \in {Absent} \cup 0 .. version /\ parsed'[p] >= parsed[p]
  BY <1>1, <1>2, <1>3 DEF Absent
<1>5. \A l \in Listings : staging[l] # NoPage =>
        /\ staging[l] \in Pages /\ parsed[staging[l]] \in 1 .. version
        /\ SourceOf[staging[l]] = l[1]
        /\ l \in Html[parsed[staging[l]]][staging[l]]
  BY DEF WarehouseTypeOK, StagedByItsPage
<1>6. ASSUME NEW l \in Listings, staging'[l] # NoPage
      PROVE  /\ staging'[l] \in Pages /\ parsed'[staging'[l]] \in 1 .. version
             /\ SourceOf[staging'[l]] = l[1]
             /\ l \in Html[parsed'[staging'[l]]][staging'[l]]
  <2>1. CASE staging'[l] \in S /\ l \in Html[version][staging'[l]]
    <3>1. staging'[l] \in Pages /\ parsed'[staging'[l]] = version
      BY <1>3, <2>1, ParseEffect
    <3> QED BY <1>1, <2>1, <3>1, HtmlIsOfItsSource
  <2>2. CASE staging[l] \notin S /\ staging'[l] = staging[l]
    BY <1>3, <1>5, <1>6, <2>2
  <2> QED BY <1>6, <2>1, <2>2, ParseEffect
<1>7. WarehouseTypeOK'
  <2>1. parsed' \in [Pages -> {Absent} \cup 0 .. version]
    BY <1>4, ParseEffect
  <2>2. staging' \in [Listings -> {NoPage} \cup Pages]
    <3>1. staging' = [l \in Listings |-> staging'[l]]
      BY DEF Parse, Restaged
    <3> QED BY <1>6, <3>1
  <2> QED BY <1>1, <1>6, <2>1, <2>2, ParseEffect DEF WarehouseTypeOK
<1>8. StagedByItsPage'
  BY <1>6, ParseEffect DEF StagedByItsPage
<1>9. NewestHasIt'
  <2> SUFFICES ASSUME NEW p \in Pages, parsed'[p] \in 1 .. version, NEW l \in Html[parsed'[p]][p],
                      \A q \in Pages : ~(parsed'[q] > parsed'[p])
               PROVE  staging'[l] # NoPage /\ parsed'[staging'[l]] >= parsed'[p]
    BY ParseEffect DEF NewestHasIt
  <2>1. l \in Listings
    BY <1>1, HtmlIsOfItsSource
  <2>2. CASE staging'[l] \in S
    <3>1. staging'[l] \in Pages /\ parsed'[staging'[l]] = version
      BY <1>3, <2>2, ParseEffect
    <3> QED BY <1>1, <3>1 DEF Pages, NoPage
  <2>3. CASE staging'[l] \notin S
    <3>1. \A q \in S : l \notin Html[version][q]
      BY <2>1, <2>3, ParseEffect
    <3>2. p \notin S
      BY <1>3, <3>1
    <3>3. parsed'[p] = parsed[p]
      BY <1>3, <3>2
    <3>4. \A q \in Pages : ~(parsed[q] > parsed[p])
      BY <1>2, <1>4, <3>3 DEF Absent
    <3>5. staging[l] # NoPage /\ parsed[staging[l]] >= parsed[p]
      BY <3>3, <3>4 DEF NewestHasIt
    <3>6. staging[l] \notin S
      <4> SUFFICES ASSUME staging[l] \in S PROVE FALSE
        OBVIOUS
      <4>1. staging[l] \in Pages /\ parsed'[staging[l]] = version
        BY <1>3, <1>5, <2>1, <3>5
      <4>2. parsed[staging[l]] = version
        BY <1>1, <1>5, <2>1, <3>3, <3>5, <4>1
      <4> QED BY <1>5, <2>1, <3>1, <3>5, <4>2
    <3>7. staging'[l] = staging[l]
      BY <2>1, <2>3, <3>6, ParseEffect
    <3> QED BY <1>3, <1>5, <2>1, <3>3, <3>5, <3>6, <3>7
  <2> QED BY <2>2, <2>3
<1> QED BY <1>7, <1>8, <1>9, ParseEffect DEF AssignedIsHeld, Assigned

\* Every way of parsing parses some of the fetched pages.
LEMMA ParseSomeIsParse ==
  ASSUME ParseSome
  PROVE  \E S \in SUBSET Fetched : Parse(S)
<1>1. Unparsed \in SUBSET Fetched /\ Fetched \in SUBSET Fetched
  BY DEF Unparsed
<1>2. \A m : Unparsed \cap FromSource(m) \in SUBSET Fetched /\ Fetched \cap FromSource(m) \in SUBSET Fetched
  BY <1>1
<1>3. \A p \in Fetched : {p} \in SUBSET Fetched
  OBVIOUS
<1> QED BY <1>1, <1>2, <1>3 DEF ParseSome

\* A rebuild comes to the same as a forced parse of everything.
LEMMA RebuildIsParse ==
  ASSUME WarehouseTypeOK, Rebuild
  PROVE  Parse(Fetched)
<1>1. \A l \in Listings : staging[l] # NoPage => staging[l] \in Fetched
  <2> TAKE l \in Listings
  <2> HAVE staging[l] # NoPage
  <2>1. staging[l] \in Pages /\ parsed[staging[l]] \in 1 .. version
    BY DEF WarehouseTypeOK
  <2>2. parsed[staging[l]] # Absent
    BY <2>1 DEF Absent
  <2> QED BY <2>1, <2>2 DEF Fetched
<1>2. \A l \in Listings : (IF staging[l] \in Fetched THEN NoPage ELSE staging[l]) = NoPage
  BY <1>1
<1>3. staging' = Restaged(Fetched)
  BY <1>2 DEF Rebuild, Restaged
<1> QED BY <1>3 DEF Rebuild, Parse

-----------------------------------------------------------------------------
(* The warehouse *)

LEMMA StagedIsOfListings ==
  ASSUME NEW m
  PROVE  Staged(m) \subseteq Listings
BY DEF Staged, Of

LEMMA HeldIsFinite ==
  ASSUME WarehouseTypeOK, NEW m
  PROVE  IsFiniteSet(Held(m)) /\ Staged(m) \subseteq Held(m) /\ Held(m) \subseteq Listings
<1>1. Held(m) \in SUBSET Listings
  BY DEF Held, Of
<1>2. IsFiniteSet(Held(m))
  BY <1>1, WarehouseAssumption, FS_Subset
<1> QED BY <1>1, <1>2 DEF Held, Staged

\* A prune that is not refused has nothing to remove: what it holds has all been staged.
LEMMA PruneRemovesNothing ==
  ASSUME WarehouseTypeOK, NEW m, PruneSync(m)
  PROVE  warehouse \subseteq warehouse' /\ warehouse' \subseteq Listings
<1>1. ~(Cardinality(Staged(m)) < Cardinality(Held(m)))
  BY DEF PruneSync, PruneRefused
<1>2. Staged(m) \in SUBSET Held(m)
  BY HeldIsFinite
<1>3. IsFiniteSet(Staged(m)) /\ Cardinality(Staged(m)) <= Cardinality(Held(m))
  BY <1>2, HeldIsFinite, FS_Subset
<1>4. Cardinality(Staged(m)) \in Nat /\ Cardinality(Held(m)) \in Nat
  BY <1>3, HeldIsFinite, FS_CardinalityType
<1>5. Held(m) = Staged(m)
  <2>1. Cardinality(Held(m)) = Cardinality(Staged(m))
    BY <1>1, <1>3, <1>4
  <2> QED BY <1>2, <2>1, HeldIsFinite, FS_Subset
<1>6. warehouse' = warehouse \cup Staged(m)
  BY <1>5 DEF PruneSync
<1> QED BY <1>6, StagedIsOfListings DEF WarehouseTypeOK

\* Nothing leaves the warehouse.
LEMMA WarehouseGrows ==
  ASSUME WarehouseTypeOK, [WarehouseNext]_dataVars
  PROVE  warehouse \subseteq warehouse'
<1>1. CASE UNCHANGED dataVars
  BY <1>1 DEF dataVars
<1>2. ASSUME NEW m, PruneSync(m) PROVE warehouse \subseteq warehouse'
  BY <1>2, PruneRemovesNothing
<1>3. \/ UNCHANGED dataVars
      \/ warehouse \subseteq warehouse'
      \/ \E m \in {"buyee", "ebay"} : PruneSync(m)
  BY DEF WarehouseNext, Fetch, Upgrade, ParseSome, Parse, Rebuild, Sync, Promote, Decide, Fill, Unfill
<1> QED BY <1>1, <1>2, <1>3

\* What grows the warehouse alone keeps the invariant.
LEMMA GrowKeeps ==
  ASSUME WarehouseInv, warehouse \subseteq warehouse', warehouse' \subseteq Listings,
         UNCHANGED <<version, parsed, staging, assignment>>
  PROVE  WarehouseInv'
<1>1. WarehouseTypeOK'
  BY DEF WarehouseInv, WarehouseTypeOK
<1>2. StagedByItsPage'
  BY DEF WarehouseInv, StagedByItsPage
<1>3. NewestHasIt'
  BY DEF WarehouseInv, NewestHasIt
<1>4. AssignedIsHeld'
  BY DEF WarehouseInv, AssignedIsHeld, Assigned
<1> QED BY <1>1, <1>2, <1>3, <1>4 DEF WarehouseInv

\* So does an assignment of a listing that the warehouse has, and its retraction.
LEMMA AssignKeeps ==
  ASSUME WarehouseInv, NEW l \in Listings, NEW a \in {"none", "auto", "manual"},
         a # "none" => l \in warehouse,
         assignment' = [assignment EXCEPT ![l] = a],
         UNCHANGED <<version, parsed, staging, warehouse>>
  PROVE  WarehouseInv'
<1>1. WarehouseTypeOK'
  BY DEF WarehouseInv, WarehouseTypeOK
<1>2. StagedByItsPage'
  BY DEF WarehouseInv, StagedByItsPage
<1>3. NewestHasIt'
  BY DEF WarehouseInv, NewestHasIt
<1>4. AssignedIsHeld'
  BY DEF WarehouseInv, WarehouseTypeOK, AssignedIsHeld, Assigned
<1> QED BY <1>1, <1>2, <1>3, <1>4 DEF WarehouseInv

-----------------------------------------------------------------------------
(* The invariant *)

LEMMA InitInv == WarehouseInit => WarehouseInv
<1> SUFFICES ASSUME WarehouseInit PROVE WarehouseInv
  OBVIOUS
<1>1. WarehouseTypeOK
  BY WarehouseAssumption DEF WarehouseInit, WarehouseTypeOK
<1>2. StagedByItsPage
  BY DEF WarehouseInit, StagedByItsPage
<1>3. NewestHasIt
  BY DEF WarehouseInit, NewestHasIt, Absent
<1>4. AssignedIsHeld
  BY DEF WarehouseInit, AssignedIsHeld, Assigned
<1> QED BY <1>1, <1>2, <1>3, <1>4 DEF WarehouseInv

LEMMA FetchKeeps ==
  ASSUME WarehouseInv, NEW p \in Pages, Fetch(p)
  PROVE  WarehouseInv'
<1> USE DEF WarehouseInv
<1>1. NVersions \in Nat /\ version \in 1 .. NVersions
  BY WarehouseAssumption DEF WarehouseTypeOK
<1>2. /\ parsed[p] = Absent /\ parsed' = [parsed EXCEPT ![p] = 0]
      /\ UNCHANGED <<version, staging, warehouse, assignment>>
  BY DEF Fetch
<1>3. \A q \in Pages : parsed[q] \in {Absent} \cup 0 .. version
  BY DEF WarehouseTypeOK
<1>4. \A q \in Pages : parsed'[q] >= parsed[q] /\ (parsed[q] # Absent \/ parsed'[q] >= 1 => parsed'[q] = parsed[q])
  BY <1>1, <1>2, <1>3 DEF WarehouseTypeOK, Absent
<1>5. \A l \in Listings : staging[l] # NoPage =>
        staging[l] \in Pages /\ parsed[staging[l]] # Absent /\ parsed'[staging[l]] = parsed[staging[l]]
  BY <1>4 DEF WarehouseTypeOK, Absent
<1>6. WarehouseTypeOK'
  BY <1>1, <1>2, <1>5 DEF WarehouseTypeOK
<1>7. StagedByItsPage'
  BY <1>2, <1>5 DEF StagedByItsPage
<1>8. NewestHasIt'
  <2> SUFFICES ASSUME NEW q \in Pages, parsed'[q] \in 1 .. version, NEW l \in Html[parsed'[q]][q]
               PROVE  \/ staging[l] # NoPage /\ parsed'[staging[l]] >= parsed'[q]
                      \/ \E r \in Pages : parsed'[r] > parsed'[q]
    BY <1>2 DEF NewestHasIt
  <2>1. parsed'[q] = parsed[q]
    BY <1>1, <1>4
  <2>2. l \in Listings
    BY <1>1, HtmlIsOfItsSource
  <2>3. CASE staging[l] # NoPage /\ parsed[staging[l]] >= parsed[q]
    BY <1>5, <2>1, <2>2, <2>3
  <2>4. CASE \E r \in Pages : parsed[r] > parsed[q]
    BY <1>1, <1>3, <1>4, <2>1, <2>4 DEF Absent
  <2> QED BY <2>1, <2>3, <2>4 DEF NewestHasIt
<1> QED BY <1>2, <1>6, <1>7, <1>8 DEF AssignedIsHeld, Assigned

LEMMA UpgradeKeeps ==
  ASSUME WarehouseInv, Upgrade
  PROVE  WarehouseInv'
<1> USE DEF WarehouseInv
<1>1. NVersions \in Nat /\ version \in 1 .. NVersions
  BY WarehouseAssumption DEF WarehouseTypeOK
<1>2. /\ version < NVersions /\ version' = version + 1
      /\ UNCHANGED <<parsed, staging, warehouse, assignment>>
  BY DEF Upgrade
<1>3. \A p \in Pages : parsed[p] \in {Absent} \cup 0 .. version
  BY DEF WarehouseTypeOK
<1>4. WarehouseTypeOK'
  <2>1. parsed' \in [Pages -> {Absent} \cup 0 .. version']
    BY <1>1, <1>2, <1>3 DEF WarehouseTypeOK
  <2>2. \A l \in Listings : staging'[l] # NoPage =>
          parsed'[staging'[l]] \in 1 .. version' /\ SourceOf[staging'[l]] = l[1]
    BY <1>1, <1>2 DEF WarehouseTypeOK
  <2> QED BY <1>1, <1>2, <2>1, <2>2 DEF WarehouseTypeOK
<1>5. StagedByItsPage'
  BY <1>2 DEF StagedByItsPage
<1>6. NewestHasIt'
  <2>1. \A p \in Pages : parsed'[p] \in 1 .. version' => parsed[p] \in 1 .. version
    BY <1>1, <1>2, <1>3 DEF Absent
  <2> QED BY <1>2, <2>1 DEF NewestHasIt
<1> QED BY <1>2, <1>4, <1>5, <1>6 DEF AssignedIsHeld, Assigned

LEMMA SyncKeeps ==
  ASSUME WarehouseInv, NEW markets, Sync(markets)
  PROVE  WarehouseInv'
<1>1. warehouse \subseteq warehouse' /\ warehouse' \subseteq Listings
  BY StagedIsOfListings DEF Sync, WarehouseInv, WarehouseTypeOK
<1> QED BY <1>1, GrowKeeps DEF Sync

LEMMA PruneKeeps ==
  ASSUME WarehouseInv, NEW m, PruneSync(m)
  PROVE  WarehouseInv'
<1>1. WarehouseTypeOK
  BY DEF WarehouseInv
<1>2. UNCHANGED <<version, parsed, staging, assignment>>
  BY DEF PruneSync
<1> QED BY <1>1, <1>2, PruneRemovesNothing, GrowKeeps

LEMMA NextInv == WarehouseInv /\ [WarehouseNext]_dataVars => WarehouseInv'
<1> SUFFICES ASSUME WarehouseInv, [WarehouseNext]_dataVars PROVE WarehouseInv'
  OBVIOUS
<1>1. CASE UNCHANGED dataVars
  <2>1. UNCHANGED <<version, parsed, staging, assignment>> /\ warehouse' = warehouse
    BY <1>1 DEF dataVars
  <2> QED BY <2>1, GrowKeeps DEF WarehouseInv, WarehouseTypeOK
<1>2. CASE \E p \in Pages : Fetch(p)
  BY <1>2, FetchKeeps
<1>3. CASE Upgrade
  BY <1>3, UpgradeKeeps
<1>4. CASE ParseSome
  BY <1>4, ParseSomeIsParse, ParseKeeps
<1>5. CASE Rebuild
  <2>1. Parse(Fetched)
    BY <1>5, RebuildIsParse DEF WarehouseInv
  <2> QED BY <2>1, ParseKeeps
<1>6. CASE \E m \in {"buyee", "ebay"} : Sync({m}) \/ PruneSync(m)
  BY <1>6, SyncKeeps, PruneKeeps
<1>7. CASE Sync({"buyee", "ebay"})
  BY <1>7, SyncKeeps
<1>8. ASSUME NEW l \in Listings, Promote(l) PROVE WarehouseInv'
  <2>1. /\ warehouse \subseteq warehouse' /\ warehouse' \subseteq Listings
        /\ UNCHANGED <<version, parsed, staging, assignment>>
    BY <1>8 DEF Promote, WarehouseInv, WarehouseTypeOK
  <2> QED BY <2>1, GrowKeeps
<1>9. ASSUME NEW l \in Listings, Decide(l) \/ Fill(l) \/ Unfill(l) PROVE WarehouseInv'
  <2>1. CASE Decide(l)
    BY <2>1, AssignKeeps DEF Decide
  <2>2. CASE Fill(l)
    BY <2>2, AssignKeeps DEF Fill
  <2>3. CASE Unfill(l)
    BY <2>3, AssignKeeps DEF Unfill
  <2> QED BY <1>9, <2>1, <2>2, <2>3
<1> QED BY <1>1, <1>2, <1>3, <1>4, <1>5, <1>6, <1>7, <1>8, <1>9 DEF WarehouseNext

\* Types, and what ties staging rows to their pages and assignments to auctions, hold
\* in every order of the writers.
THEOREM InvHolds == WarehouseSpec => []WarehouseInv
BY InitInv, NextInv, PTL DEF WarehouseSpec

-----------------------------------------------------------------------------
(* The properties *)

\* A staging row's page, as it was last parsed, shows the listing.
THEOREM StagedByItsPageHolds == WarehouseSpec => []StagedByItsPage
<1>1. WarehouseInv => StagedByItsPage
  BY DEF WarehouseInv
<1> QED BY <1>1, InvHolds, PTL

\* Nothing that a page parsed by the deployed parser shows is missing from staging: no
\* page has been parsed by a newer one.
THEOREM NothingParsedIsLostHolds == WarehouseSpec => []NothingParsedIsLost
<1>1. ASSUME WarehouseInv PROVE NothingParsedIsLost
  <2> SUFFICES ASSUME NEW p \in Pages, parsed[p] = version, NEW l \in Html[version][p]
               PROVE  staging[l] # NoPage
    BY DEF NothingParsedIsLost
  <2>1. version \in 1 .. NVersions /\ NVersions \in Nat
    BY <1>1, WarehouseAssumption DEF WarehouseInv, WarehouseTypeOK
  <2>2. parsed[p] \in 1 .. version
    BY <2>1
  <2>3. \A q \in Pages : ~(parsed[q] > parsed[p])
    <3>1. \A q \in Pages : parsed[q] \in {Absent} \cup 0 .. version
      BY <1>1 DEF WarehouseInv, WarehouseTypeOK
    <3> QED BY <2>1, <3>1 DEF Absent
  <2> QED BY <1>1, <2>2, <2>3 DEF WarehouseInv, NewestHasIt
<1> QED BY <1>1, InvHolds, PTL

\* What is assigned is held, and the rest of what is held is the queue.
LEMMA QueueAddsUpNow == WarehouseInv => QueueIsComplement
<1> SUFFICES ASSUME WarehouseInv PROVE QueueIsComplement
  OBVIOUS
<1>1. warehouse \in SUBSET Listings /\ Assigned \subseteq warehouse
  BY DEF WarehouseInv, WarehouseTypeOK, AssignedIsHeld
<1>2. IsFiniteSet(warehouse)
  BY <1>1, WarehouseAssumption, FS_Subset
<1>3. Cardinality(warehouse \ Assigned) = Cardinality(warehouse) - Cardinality(warehouse \cap Assigned)
  BY <1>2, FS_Difference
<1>4. warehouse \cap Assigned = Assigned
  BY <1>1
<1> QED BY <1>3, <1>4 DEF QueueIsComplement, Queue

\* The assignment queue has as many rows as there are auctions less the assignments,
\* because no auction that is assigned is ever removed.
THEOREM QueueIsComplementHolds == WarehouseSpec => []QueueIsComplement
BY QueueAddsUpNow, InvHolds, PTL

\* A pressing an operator chose stays chosen, in whatever order fills, retunes and
\* choices come.
THEOREM ManualStaysHolds == WarehouseSpec => ManualStays
<1>1. WarehouseInv /\ [WarehouseNext]_dataVars =>
        [\A l \in Listings : assignment[l] = "manual" => assignment'[l] = "manual"]_dataVars
  <2> SUFFICES ASSUME WarehouseInv, WarehouseNext, NEW k \in Listings, assignment[k] = "manual"
               PROVE  assignment'[k] = "manual"
    OBVIOUS
  <2>1. assignment \in [Listings -> {"none", "auto", "manual"}]
    BY DEF WarehouseInv, WarehouseTypeOK
  <2>2. CASE UNCHANGED assignment
    BY <2>2
  <2>3. ASSUME NEW l \in Listings, Decide(l) PROVE assignment'[k] = "manual"
    BY <2>1, <2>3 DEF Decide
  <2>4. ASSUME NEW l \in Listings, Fill(l) PROVE assignment'[k] = "manual"
    <3>1. l # k
      BY <2>4 DEF Fill, FillKeeps
    <3> QED BY <2>1, <2>4, <3>1 DEF Fill
  <2>5. ASSUME NEW l \in Listings, Unfill(l) PROVE assignment'[k] = "manual"
    <3>1. l # k
      BY <2>5 DEF Unfill
    <3> QED BY <2>1, <2>5, <3>1 DEF Unfill
  <2>6. \/ UNCHANGED assignment
        \/ \E l \in Listings : Decide(l) \/ Fill(l) \/ Unfill(l)
    BY DEF WarehouseNext, Fetch, Upgrade, ParseSome, Parse, Rebuild, Sync, PruneSync, Promote
  <2> QED BY <2>2, <2>3, <2>4, <2>5, <2>6
<1> QED BY <1>1, InvHolds, PTL DEF WarehouseSpec, ManualStays
=============================================================================
