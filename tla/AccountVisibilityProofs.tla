------------------------ MODULE AccountVisibilityProofs ------------------------
(***************************************************************************)
(* Theorems about AccountVisibility, for any number of accounts, threads,  *)
(* sales and listings: it runs the writers of Warehouse and nothing else   *)
(* of it, and a remembered count never hides an auction.                   *)
(***************************************************************************)
EXTENDS AccountVisibility, WarehouseProofs

Both == Native("buyee") \cup Native("ebay")
Vouched == Both \cup Offered(Steady)

\* What an account's note, if it is of the present count, vouches for
NoteIsTrue ==
  \A a \in Account : attached[a] <= Generation /\ (attached[a] = Generation => Vouched \subseteq visible[a])

\* What a thread that counted the present number has inserted so far
CountIsTrue ==
  \A p \in Page : page[p] # AtRest =>
    /\ page[p].count <= Generation
    /\ page[p].count = Generation =>
         /\ page[p].does = "ebay" => Native("buyee") \subseteq page[p].got
         /\ page[p].does = "gripsweat" => Both \subseteq page[p].got
         /\ page[p].does = "remember" => Vouched \subseteq visible[page[p].account]

VisibilityInv == WarehouseInv /\ VisibilityTypeOK /\ NoteIsTrue /\ CountIsTrue

-----------------------------------------------------------------------------
(* The writers of the warehouse *)

\* Accounts, pages and imports of sales beside them leave the warehouse to its writers:
\* what is proved of Warehouse alone holds of the composition too.
THEOREM RefinesWarehouse == VisibilitySpec => WarehouseSpec
<1>1. VisibilityInit => WarehouseInit
  BY DEF VisibilityInit
<1>2. [VisibilityNext]_visibilityVars => [WarehouseNext]_dataVars
  BY DEF VisibilityNext, visibilityVars, Write, Import, Enrich, Publish, Look, Insert, Attach,
         Remember, GiveUp, Restart
<1> QED BY <1>1, <1>2, PTL DEF VisibilitySpec, WarehouseSpec

LEMMA GenerationIsNat ==
  ASSUME WarehouseTypeOK
  PROVE  /\ IsFiniteSet(warehouse) /\ IsFiniteSet(Known)
         /\ Cardinality(warehouse) \in Nat /\ Cardinality(Known) \in Nat
         /\ Generation \in Nat
<1>1. warehouse \in SUBSET Listings /\ Known \in SUBSET Sale
  BY DEF WarehouseTypeOK, Known
<1>2. IsFiniteSet(warehouse) /\ IsFiniteSet(Known)
  BY <1>1, WarehouseAssumption, VisibilityAssumption, FS_Subset
<1>3. Cardinality(warehouse) \in Nat /\ Cardinality(Known) \in Nat
  BY <1>2, FS_CardinalityType
<1> QED BY <1>2, <1>3 DEF Generation

\* Where rows are only added, the count stays the same only if they do.
LEMMA CountTells ==
  ASSUME WarehouseTypeOK, WarehouseTypeOK', warehouse \subseteq warehouse', Known \subseteq Known'
  PROVE  /\ Generation \in Nat /\ Generation' \in Nat /\ Generation <= Generation'
         /\ Generation' = Generation => warehouse' = warehouse /\ Known' = Known
<1>1. /\ IsFiniteSet(warehouse) /\ IsFiniteSet(Known)
      /\ Cardinality(warehouse) \in Nat /\ Cardinality(Known) \in Nat /\ Generation \in Nat
  BY GenerationIsNat
<1>2. /\ IsFiniteSet(warehouse') /\ IsFiniteSet(Known')
      /\ Cardinality(warehouse') \in Nat /\ Cardinality(Known') \in Nat /\ Generation' \in Nat
  <2>1. warehouse' \in SUBSET Listings /\ Known' \in SUBSET Sale
    BY DEF WarehouseTypeOK, Known
  <2>2. IsFiniteSet(warehouse') /\ IsFiniteSet(Known')
    BY <2>1, WarehouseAssumption, VisibilityAssumption, FS_Subset
  <2>3. Cardinality(warehouse') \in Nat /\ Cardinality(Known') \in Nat
    BY <2>2, FS_CardinalityType
  <2> QED BY <2>2, <2>3 DEF Generation
<1>3. /\ Cardinality(warehouse) <= Cardinality(warehouse')
      /\ Cardinality(warehouse') = Cardinality(warehouse) => warehouse' = warehouse
  BY <1>2, FS_Subset
<1>4. /\ Cardinality(Known) <= Cardinality(Known')
      /\ Cardinality(Known') = Cardinality(Known) => Known' = Known
  BY <1>2, FS_Subset
<1> QED BY <1>1, <1>2, <1>3, <1>4 DEF Generation

\* Reading a sale's own page changes nothing of a sale that stays under one number.
LEMMA SteadyStays ==
  ASSUME warehouse' = warehouse, Known' = Known
  PROVE  Vouched' = Vouched /\ Both' = Both /\ Native("buyee")' = Native("buyee")
<1>1. Both' = Both /\ Native("buyee")' = Native("buyee")
  BY DEF Both, Native
<1>2. Steady' = Steady
  BY DEF Steady
<1>3. \A s \in Steady : Number(s) = NumberOf[s] /\ Number(s)' = NumberOf[s]
  BY DEF Steady, Number
<1>4. Offered(Steady)' = Offered(Steady)
  BY <1>2, <1>3 DEF Offered
<1> QED BY <1>1, <1>4 DEF Vouched

-----------------------------------------------------------------------------
(* The invariant *)

LEMMA VisibilityInitInv == VisibilityInit => VisibilityInv
<1> SUFFICES ASSUME VisibilityInit PROVE VisibilityInv
  OBVIOUS
<1>1. WarehouseInv
  BY InitInv DEF VisibilityInit
<1>2. VisibilityTypeOK
  BY DEF VisibilityInit, VisibilityTypeOK, Doing
<1>3. NoteIsTrue
  <2>1. Generation \in Nat
    BY <1>1, GenerationIsNat DEF WarehouseInv
  <2> QED BY <2>1 DEF VisibilityInit, NoteIsTrue, Never
<1>4. CountIsTrue
  BY DEF VisibilityInit, CountIsTrue
<1> QED BY <1>1, <1>2, <1>3, <1>4 DEF VisibilityInv

\* Rows that others add leave the notes and the counts true, whether they show or not.
LEMMA GrowthKeeps ==
  ASSUME VisibilityInv, WarehouseTypeOK', warehouse \subseteq warehouse', Known \subseteq Known',
         \A a \in Account : visible[a] \subseteq visible'[a],
         UNCHANGED <<attached, page>>
  PROVE  NoteIsTrue' /\ CountIsTrue'
<1>1. /\ Generation \in Nat /\ Generation' \in Nat /\ Generation <= Generation'
      /\ Generation' = Generation => warehouse' = warehouse /\ Known' = Known
  BY CountTells DEF VisibilityInv, WarehouseInv
<1>2. Generation' = Generation => Vouched' = Vouched /\ Both' = Both /\ Native("buyee")' = Native("buyee")
  BY <1>1, SteadyStays
<1>3. NoteIsTrue'
  <2> SUFFICES ASSUME NEW a \in Account
               PROVE  attached[a] <= Generation' /\ (attached[a] = Generation' => Vouched' \subseteq visible'[a])
    BY DEF NoteIsTrue
  <2>1. attached[a] \in Int
    BY DEF VisibilityInv, VisibilityTypeOK, Never
  <2>2. attached[a] <= Generation /\ (attached[a] = Generation => Vouched \subseteq visible[a])
    BY DEF VisibilityInv, NoteIsTrue
  <2>3. attached[a] = Generation' => Generation' = Generation
    BY <1>1, <2>1, <2>2
  <2> QED BY <1>1, <1>2, <2>1, <2>2, <2>3
<1>4. CountIsTrue'
  <2> SUFFICES ASSUME NEW p \in Page, page[p] # AtRest
               PROVE  /\ page[p].count <= Generation'
                      /\ page[p].count = Generation' =>
                           /\ page[p].does = "ebay" => Native("buyee")' \subseteq page[p].got
                           /\ page[p].does = "gripsweat" => Both' \subseteq page[p].got
                           /\ page[p].does = "remember" => Vouched' \subseteq visible'[page[p].account]
    BY DEF CountIsTrue
  <2>1. page[p].count \in Nat /\ page[p].account \in Account
    BY DEF VisibilityInv, VisibilityTypeOK, Doing
  <2>2. /\ page[p].count <= Generation
        /\ page[p].count = Generation =>
             /\ page[p].does = "ebay" => Native("buyee") \subseteq page[p].got
             /\ page[p].does = "gripsweat" => Both \subseteq page[p].got
             /\ page[p].does = "remember" => Vouched \subseteq visible[page[p].account]
    BY DEF VisibilityInv, CountIsTrue
  <2>3. page[p].count = Generation' => Generation' = Generation
    BY <1>1, <2>1, <2>2
  <2>4. page[p].count <= Generation'
    BY <1>1, <2>1, <2>2
  <2>5. page[p].count = Generation' => Vouched' = Vouched /\ Both' = Both /\ Native("buyee")' = Native("buyee")
    BY <1>1, <1>2, <2>3
  <2>6. visible[page[p].account] \subseteq visible'[page[p].account]
    BY <2>1
  <2> QED BY <2>2, <2>3, <2>4, <2>5, <2>6
<1> QED BY <1>3, <1>4

LEMMA WriteKeeps ==
  ASSUME VisibilityInv, Write
  PROVE  VisibilityInv'
<1>1. WarehouseInv'
  BY NextInv DEF VisibilityInv, Write
<1>2. VisibilityTypeOK'
  BY DEF VisibilityInv, VisibilityTypeOK, Write
<1>3. warehouse \subseteq warehouse'
  BY WarehouseGrows DEF VisibilityInv, WarehouseInv, Write
<1>4. Known \subseteq Known' /\ \A a \in Account : visible[a] \subseteq visible'[a]
  BY DEF Write, Known
<1>5. UNCHANGED <<attached, page>>
  BY DEF Write
<1>6. NoteIsTrue' /\ CountIsTrue'
  BY <1>1, <1>3, <1>4, <1>5, GrowthKeeps DEF WarehouseInv
<1> QED BY <1>1, <1>2, <1>6 DEF VisibilityInv

LEMMA WarehouseStays ==
  ASSUME WarehouseInv, UNCHANGED dataVars
  PROVE  WarehouseInv'
BY NextInv

LEMMA SaleKeeps ==
  ASSUME VisibilityInv, NEW s \in Sale, Import(s) \/ Enrich(s)
  PROVE  VisibilityInv'
<1>1. /\ sales \in [Sale -> {"absent", "unnumbered", "numbered"}]
      /\ \E k \in {"unnumbered", "numbered"} : sales' = [sales EXCEPT ![s] = k]
      /\ UNCHANGED <<dataVars, visible, attached, page>>
  BY DEF VisibilityInv, VisibilityTypeOK, Import, Enrich
<1>2. WarehouseInv'
  BY <1>1, WarehouseStays DEF VisibilityInv
<1>3. VisibilityTypeOK'
  BY <1>1 DEF VisibilityInv, VisibilityTypeOK
<1>4. Known \subseteq Known'
  BY <1>1 DEF Known
<1>5. warehouse \subseteq warehouse' /\ \A a \in Account : visible[a] \subseteq visible'[a]
  BY <1>1 DEF dataVars
<1>6. NoteIsTrue' /\ CountIsTrue'
  BY <1>1, <1>2, <1>4, <1>5, GrowthKeeps DEF WarehouseInv
<1> QED BY <1>2, <1>3, <1>6 DEF VisibilityInv

\* The rows that are inserted are identities of the types.
LEMMA CandidatesAreIdentities ==
  ASSUME WarehouseTypeOK
  PROVE  Eligible \subseteq Identity /\ \A m : Native(m) \subseteq Identity
<1>1. \A m : Native(m) \subseteq Identity
  BY DEF WarehouseTypeOK, Native, Identity
<1>2. Eligible \subseteq Identity
  <2> SUFFICES ASSUME NEW e \in Eligible PROVE e \in Identity
    OBVIOUS
  <2>1. PICK s \in Sale : e = <<"gripsweat", NumberOf[s]>> \/ e = <<"gripsweat", ItemOf[s]>>
    BY DEF Eligible, Offered, Known, Number
  <2> QED BY <2>1 DEF Identity
<1> QED BY <1>1, <1>2

LEMMA PublishKeeps ==
  ASSUME VisibilityInv, NEW a \in Account, NEW m \in Marketplaces, Publish(a, m)
  PROVE  VisibilityInv'
<1>1. /\ visible' = [visible EXCEPT ![a] = @ \cup Candidates(m)]
      /\ UNCHANGED <<dataVars, sales, attached, page>>
  BY DEF Publish
<1>2. WarehouseInv'
  BY <1>1, WarehouseStays DEF VisibilityInv
<1>3. Candidates(m) \subseteq Identity
  BY CandidatesAreIdentities DEF VisibilityInv, WarehouseInv, Candidates
<1>4. VisibilityTypeOK'
  BY <1>1, <1>3 DEF VisibilityInv, VisibilityTypeOK
<1>5. Known \subseteq Known' /\ warehouse \subseteq warehouse'
  BY <1>1 DEF Known, dataVars
<1>6. \A b \in Account : visible[b] \subseteq visible'[b]
  BY <1>1 DEF VisibilityInv, VisibilityTypeOK
<1>7. NoteIsTrue' /\ CountIsTrue'
  BY <1>1, <1>2, <1>5, <1>6, GrowthKeeps DEF WarehouseInv
<1> QED BY <1>2, <1>4, <1>7 DEF VisibilityInv

\* What a page does leaves the rows of the warehouse and of the sales alone.
LEMMA PageLeaves ==
  ASSUME UNCHANGED <<dataVars, sales>>
  PROVE  /\ Generation' = Generation /\ Vouched' = Vouched /\ Both' = Both
         /\ Native("buyee")' = Native("buyee")
BY SteadyStays DEF dataVars, Generation, Known

LEMMA LookKeeps ==
  ASSUME VisibilityInv, NEW p \in Page, NEW a \in Account, Look(p, a)
  PROVE  VisibilityInv'
<1>1. /\ page' = [page EXCEPT ![p] =
                   [does |-> "buyee", account |-> a, count |-> Generation, got |-> {}]]
      /\ UNCHANGED <<dataVars, sales, visible, attached>>
  BY DEF Look
<1>2. WarehouseInv'
  BY <1>1, WarehouseStays DEF VisibilityInv
<1>3. Generation \in Nat /\ Generation' = Generation /\ Vouched' = Vouched /\ Both' = Both
      /\ Native("buyee")' = Native("buyee")
  BY <1>1, GenerationIsNat, PageLeaves DEF VisibilityInv, WarehouseInv
<1>4. VisibilityTypeOK'
  <2>1. [does |-> "buyee", account |-> a, count |-> Generation, got |-> {}] \in Doing
    BY <1>3 DEF Doing, Marketplaces
  <2> QED BY <1>1, <2>1 DEF VisibilityInv, VisibilityTypeOK
<1>5. NoteIsTrue'
  BY <1>1, <1>3 DEF VisibilityInv, NoteIsTrue
<1>6. CountIsTrue'
  BY <1>1, <1>3 DEF VisibilityInv, VisibilityTypeOK, CountIsTrue
<1> QED BY <1>2, <1>4, <1>5, <1>6 DEF VisibilityInv

LEMMA InsertKeeps ==
  ASSUME VisibilityInv, NEW p \in Page, Insert(p)
  PROVE  VisibilityInv'
<1> DEFINE now == [page[p] EXCEPT !.does = IF page[p].does = "buyee" THEN "ebay" ELSE "gripsweat",
                                  !.got = page[p].got \cup Native(page[p].does)]
<1>1. /\ page[p].does \in {"buyee", "ebay"}
      /\ page' = [page EXCEPT ![p] = now]
      /\ UNCHANGED <<dataVars, sales, visible, attached>>
  BY DEF Insert
<1>2. WarehouseInv'
  BY <1>1, WarehouseStays DEF VisibilityInv
<1>3. Generation' = Generation /\ Vouched' = Vouched /\ Both' = Both /\ Native("buyee")' = Native("buyee")
  BY <1>1, PageLeaves
<1>4. page[p] \in [does : Marketplaces \cup {"remember"}, account : Account, count : Nat,
                   got : SUBSET Identity]
      /\ page[p] # AtRest
  BY <1>1 DEF VisibilityInv, VisibilityTypeOK, Doing, AtRest
<1>5. now \in Doing
  <2>1. Native(page[p].does) \subseteq Identity
    BY CandidatesAreIdentities DEF VisibilityInv, WarehouseInv
  <2> QED BY <1>4, <2>1 DEF Doing, Marketplaces
<1>6. /\ now.count = page[p].count /\ now.account = page[p].account
      /\ now.does = IF page[p].does = "buyee" THEN "ebay" ELSE "gripsweat"
      /\ now.got = page[p].got \cup Native(page[p].does)
  BY <1>4
<1>7. /\ page[p].count <= Generation
      /\ page[p].count = Generation => (page[p].does = "ebay" => Native("buyee") \subseteq page[p].got)
  BY <1>4 DEF VisibilityInv, CountIsTrue
<1> HIDE DEF now
<1>8. VisibilityTypeOK'
  BY <1>1, <1>5 DEF VisibilityInv, VisibilityTypeOK
<1>9. NoteIsTrue'
  BY <1>1, <1>3 DEF VisibilityInv, NoteIsTrue
<1>10. CountIsTrue'
  <2> SUFFICES ASSUME NEW q \in Page, page'[q] # AtRest
               PROVE  /\ page'[q].count <= Generation
                      /\ page'[q].count = Generation =>
                           /\ page'[q].does = "ebay" => Native("buyee") \subseteq page'[q].got
                           /\ page'[q].does = "gripsweat" => Both \subseteq page'[q].got
                           /\ page'[q].does = "remember" => Vouched \subseteq visible[page'[q].account]
    BY <1>1, <1>3 DEF CountIsTrue
  <2>1. CASE q = p
    <3>1. page'[q] = now
      BY <1>1, <2>1 DEF VisibilityInv, VisibilityTypeOK
    <3> QED BY <1>1, <1>6, <1>7, <3>1 DEF Both
  <2>2. CASE q # p
    <3>1. page'[q] = page[q]
      BY <1>1, <2>2 DEF VisibilityInv, VisibilityTypeOK
    <3> QED BY <3>1 DEF VisibilityInv, CountIsTrue
  <2> QED BY <2>1, <2>2
<1> QED BY <1>2, <1>8, <1>9, <1>10 DEF VisibilityInv

LEMMA AttachKeeps ==
  ASSUME VisibilityInv, NEW p \in Page, Attach(p)
  PROVE  VisibilityInv'
<1> DEFINE now == [page[p] EXCEPT !.does = "remember", !.got = {}]
<1>1. /\ page[p].does = "gripsweat"
      /\ visible' = [visible EXCEPT ![page[p].account] = @ \cup page[p].got \cup Eligible]
      /\ page' = [page EXCEPT ![p] = now]
      /\ UNCHANGED <<dataVars, sales, attached>>
  BY DEF Attach
<1>2. WarehouseInv'
  BY <1>1, WarehouseStays DEF VisibilityInv
<1>3. Generation' = Generation /\ Vouched' = Vouched /\ Both' = Both /\ Native("buyee")' = Native("buyee")
  BY <1>1, PageLeaves
<1>4. page[p] \in [does : Marketplaces \cup {"remember"}, account : Account, count : Nat,
                   got : SUBSET Identity]
      /\ page[p] # AtRest
  BY <1>1 DEF VisibilityInv, VisibilityTypeOK, Doing, AtRest
<1>5. now \in Doing
  BY <1>4 DEF Doing
<1>6. now.count = page[p].count /\ now.account = page[p].account /\ now.does = "remember"
  BY <1>4
<1>7. /\ page[p].count <= Generation
      /\ page[p].count = Generation => Both \subseteq page[p].got
  BY <1>1, <1>4 DEF VisibilityInv, CountIsTrue
<1> HIDE DEF now
<1>8. Offered(Steady) \subseteq Eligible
  BY DEF Eligible, Offered, Steady
<1>9. /\ \A a \in Account : visible[a] \subseteq visible'[a]
      /\ page[p].got \cup Eligible \subseteq visible'[page[p].account]
  BY <1>1, <1>4 DEF VisibilityInv, VisibilityTypeOK
<1>10. VisibilityTypeOK'
  <2>1. Eligible \subseteq Identity
    BY CandidatesAreIdentities DEF VisibilityInv, WarehouseInv
  <2>2. visible' \in [Account -> SUBSET Identity]
    BY <1>1, <1>4, <2>1 DEF VisibilityInv, VisibilityTypeOK
  <2> QED BY <1>1, <1>5, <2>2 DEF VisibilityInv, VisibilityTypeOK
<1>11. NoteIsTrue'
  BY <1>1, <1>3, <1>9 DEF VisibilityInv, NoteIsTrue
<1>12. CountIsTrue'
  <2> SUFFICES ASSUME NEW q \in Page, page'[q] # AtRest
               PROVE  /\ page'[q].count <= Generation
                      /\ page'[q].count = Generation =>
                           /\ page'[q].does = "ebay" => Native("buyee") \subseteq page'[q].got
                           /\ page'[q].does = "gripsweat" => Both \subseteq page'[q].got
                           /\ page'[q].does = "remember" => Vouched \subseteq visible'[page'[q].account]
    BY <1>1, <1>3 DEF CountIsTrue
  <2>1. CASE q = p
    <3>1. page'[q] = now
      BY <1>1, <2>1 DEF VisibilityInv, VisibilityTypeOK
    <3> QED BY <1>6, <1>7, <1>9, <1>8, <3>1 DEF Vouched
  <2>2. CASE q # p
    <3>1. page'[q] = page[q]
      BY <1>1, <2>2 DEF VisibilityInv, VisibilityTypeOK
    <3>2. page[q].account \in Account
      BY <3>1 DEF VisibilityInv, VisibilityTypeOK, Doing
    <3> QED BY <1>9, <3>1, <3>2 DEF VisibilityInv, CountIsTrue
  <2> QED BY <2>1, <2>2
<1> QED BY <1>2, <1>10, <1>11, <1>12 DEF VisibilityInv

\* A thread that has come to an end leaves nothing to be true of it.
LEMMA RestKeeps ==
  ASSUME VisibilityInv, NEW gone \in SUBSET Page,
         page' = [p \in Page |-> IF p \in gone THEN AtRest ELSE page[p]],
         UNCHANGED <<dataVars, sales, visible>>
  PROVE  WarehouseInv' /\ page' \in [Page -> Doing] /\ CountIsTrue'
<1>1. Generation' = Generation /\ Vouched' = Vouched /\ Both' = Both /\ Native("buyee")' = Native("buyee")
  BY PageLeaves
<1>2. WarehouseInv'
  BY WarehouseStays DEF VisibilityInv
<1>3. page' \in [Page -> Doing]
  BY DEF VisibilityInv, VisibilityTypeOK, Doing
<1>4. CountIsTrue'
  BY <1>1 DEF VisibilityInv, CountIsTrue
<1> QED BY <1>2, <1>3, <1>4

LEMMA RememberKeeps ==
  ASSUME VisibilityInv, NEW p \in Page, Remember(p)
  PROVE  VisibilityInv'
<1>1. /\ page[p].does = "remember"
      /\ attached' = [attached EXCEPT ![page[p].account] = page[p].count]
      /\ page' = [page EXCEPT ![p] = AtRest]
      /\ UNCHANGED <<dataVars, sales, visible>>
  BY DEF Remember
<1>2. page[p].account \in Account /\ page[p].count \in Nat /\ page[p] # AtRest
  BY <1>1 DEF VisibilityInv, VisibilityTypeOK, Doing, AtRest
<1>3. Generation' = Generation /\ Vouched' = Vouched /\ Both' = Both
  BY <1>1, PageLeaves
<1>4. page' = [q \in Page |-> IF q \in {p} THEN AtRest ELSE page[q]]
  BY <1>1 DEF VisibilityInv, VisibilityTypeOK
<1>5. WarehouseInv' /\ page' \in [Page -> Doing] /\ CountIsTrue'
  BY <1>1, <1>4, RestKeeps
<1>6. VisibilityTypeOK'
  BY <1>1, <1>2, <1>5 DEF VisibilityInv, VisibilityTypeOK
<1>7. NoteIsTrue'
  BY <1>1, <1>2, <1>3 DEF VisibilityInv, VisibilityTypeOK, NoteIsTrue, CountIsTrue
<1> QED BY <1>5, <1>6, <1>7 DEF VisibilityInv

LEMMA GiveUpKeeps ==
  ASSUME VisibilityInv, NEW p \in Page, GiveUp(p)
  PROVE  VisibilityInv'
<1>1. page' = [page EXCEPT ![p] = AtRest] /\ UNCHANGED <<dataVars, sales, visible, attached>>
  BY DEF GiveUp
<1>2. page' = [q \in Page |-> IF q \in {p} THEN AtRest ELSE page[q]]
  BY <1>1 DEF VisibilityInv, VisibilityTypeOK
<1>3. WarehouseInv' /\ page' \in [Page -> Doing] /\ CountIsTrue'
  BY <1>1, <1>2, RestKeeps
<1>4. Generation' = Generation /\ Vouched' = Vouched /\ Both' = Both
  BY <1>1, PageLeaves
<1>5. VisibilityTypeOK' /\ NoteIsTrue'
  BY <1>1, <1>3, <1>4 DEF VisibilityInv, VisibilityTypeOK, NoteIsTrue
<1> QED BY <1>3, <1>5 DEF VisibilityInv

LEMMA RestartKeeps ==
  ASSUME VisibilityInv, Restart
  PROVE  VisibilityInv'
<1>1. /\ attached' = [a \in Account |-> Never] /\ page' = [p \in Page |-> AtRest]
      /\ UNCHANGED <<dataVars, sales, visible>>
  BY DEF Restart
<1>2. page' = [q \in Page |-> IF q \in Page THEN AtRest ELSE page[q]]
  BY <1>1
<1>3. WarehouseInv' /\ page' \in [Page -> Doing] /\ CountIsTrue'
  BY <1>1, <1>2, RestKeeps
<1>4. Generation \in Nat /\ Generation' = Generation
  BY <1>1, PageLeaves, GenerationIsNat DEF VisibilityInv, WarehouseInv
<1>5. VisibilityTypeOK' /\ NoteIsTrue'
  BY <1>1, <1>3, <1>4 DEF VisibilityInv, VisibilityTypeOK, NoteIsTrue, Never
<1> QED BY <1>3, <1>5 DEF VisibilityInv

LEMMA VisibilityNextInv == VisibilityInv /\ [VisibilityNext]_visibilityVars => VisibilityInv'
<1> SUFFICES ASSUME VisibilityInv, [VisibilityNext]_visibilityVars PROVE VisibilityInv'
  OBVIOUS
<1>1. CASE UNCHANGED visibilityVars
  <2>1. UNCHANGED <<dataVars, sales, visible, attached, page>>
    BY <1>1 DEF visibilityVars
  <2>2. WarehouseInv'
    BY <2>1, WarehouseStays DEF VisibilityInv
  <2>3. Generation' = Generation /\ Vouched' = Vouched /\ Both' = Both /\ Native("buyee")' = Native("buyee")
    BY <2>1, PageLeaves
  <2>4. VisibilityTypeOK' /\ NoteIsTrue' /\ CountIsTrue'
    BY <2>1, <2>3 DEF VisibilityInv, VisibilityTypeOK, NoteIsTrue, CountIsTrue
  <2> QED BY <2>2, <2>4 DEF VisibilityInv
<1>2. CASE Write
  BY <1>2, WriteKeeps
<1>3. CASE \E s \in Sale : Import(s) \/ Enrich(s)
  BY <1>3, SaleKeeps
<1>4. CASE \E a \in Account, m \in Marketplaces : Publish(a, m)
  BY <1>4, PublishKeeps
<1>5. CASE \E p \in Page, a \in Account : Look(p, a)
  BY <1>5, LookKeeps
<1>6. CASE \E p \in Page : Insert(p) \/ Attach(p) \/ Remember(p) \/ GiveUp(p)
  BY <1>6, InsertKeeps, AttachKeeps, RememberKeeps, GiveUpKeeps
<1>7. CASE Restart
  BY <1>7, RestartKeeps
<1> QED BY <1>1, <1>2, <1>3, <1>4, <1>5, <1>6, <1>7 DEF VisibilityNext

\* Where the remembered count makes a page skip, the account sees every auction of
\* Buyee and eBay there is and every sale that stays under one number and is its to see,
\* however many pages, refreshes and writers there are.
THEOREM SkippedIsAttachedHolds == VisibilitySpec => []SkippedIsAttached
<1>1. VisibilityInv => SkippedIsAttached
  BY DEF VisibilityInv, NoteIsTrue, SkippedIsAttached, Vouched, Both
<1> QED BY <1>1, VisibilityInitInv, VisibilityNextInv, PTL DEF VisibilitySpec
=============================================================================
