------------------------------ MODULE Warehouse ------------------------------
(***************************************************************************)
(* The path of a marketplace listing from a stored search page to the      *)
(* warehouse: services/parse.py (raw.page to staging.listing),             *)
(* services/warehouse.py (staging.listing to warehouse.auction, with the   *)
(* optional prune) and the writers of                                      *)
(* warehouse.auction_pressing_assignment (intake, curation, identity       *)
(* fill).                                                                  *)
(*                                                                         *)
(* A listing is the pair of its marketplace and its number.  What the      *)
(* parser makes of a page depends on the page and on the parser: Html is   *)
(* the listings each version of the parser finds on each page.             *)
(***************************************************************************)
EXTENDS Integers, FiniteSets, FiniteSetsExt

CONSTANTS
  Listings,      \* the identities <<marketplace, number>> that exist
  NPages,        \* raw.page ids are 1 .. NPages
  SourceOf,      \* raw.page.source of each page
  NVersions,     \* bound: versions of the parsers that are deployed
  Html           \* Html[v][p]: the listings version v finds on page p

Marketplaces == {"buyee", "ebay", "gripsweat"}
Pages == 1 .. NPages
NoPage == 0
Of(m) == {l \in Listings : l[1] = m}

ASSUME WarehouseAssumption ==
  /\ Listings \subseteq Marketplaces \X Nat
  /\ IsFiniteSet(Listings)
  /\ NPages \in Nat
  /\ SourceOf \in [Pages -> {"buyee", "ebay"}]
  /\ NVersions \in Nat \ {0}
  /\ Html \in [1 .. NVersions -> [Pages -> SUBSET Listings]]
  /\ \A v \in 1 .. NVersions, p \in Pages : Html[v][p] \subseteq Of(SourceOf[p])

VARIABLES
  version,      \* the version of the parsers that is deployed
  parsed,       \* per page: the version it was last parsed by, 0 before that, or Absent
  staging,      \* per listing: raw_page_id of its staging row, or NoPage
  warehouse,    \* the identities in warehouse.auction
  assignment    \* per listing: its pressing assignment and who made it

dataVars == <<version, parsed, staging, warehouse, assignment>>

Absent == -1
Fetched == {p \in Pages : parsed[p] # Absent}
Staged(m) == {l \in Of(m) : staging[l] # NoPage}
Assigned == {l \in Listings : assignment[l] # "none"}

\* system.new_auction_assignment_queue: a view of the auctions nobody assigned
Queue == warehouse \ Assigned

WarehouseTypeOK ==
  /\ version \in 1 .. NVersions
  /\ parsed \in [Pages -> {Absent} \cup 0 .. version]
  /\ staging \in [Listings -> {NoPage} \cup Pages]
  /\ \A l \in Listings : staging[l] # NoPage =>
        parsed[staging[l]] \in 1 .. version /\ SourceOf[staging[l]] = l[1]
  /\ warehouse \subseteq Listings
  /\ assignment \in [Listings -> {"none", "auto", "manual"}]

\* The Gripsweat sales that are known have no staging rows: Promote brings them in.
WarehouseInit ==
  /\ version = 1
  /\ parsed = [p \in Pages |-> Absent]
  /\ staging = [l \in Listings |-> NoPage]
  /\ warehouse = {}
  /\ assignment = [l \in Listings |-> "none"]

-----------------------------------------------------------------------------
(* Pages and staging rows *)

\* A crawler or an import stores a page.
Fetch(p) ==
  /\ parsed[p] = Absent
  /\ parsed' = [parsed EXCEPT ![p] = 0]
  /\ UNCHANGED <<version, staging, warehouse, assignment>>

\* A release of the program changes what the parsers find.
Upgrade ==
  /\ version < NVersions
  /\ version' = version + 1
  /\ UNCHANGED <<parsed, staging, warehouse, assignment>>

\* The slip: a page drops every staging row of its marketplace.
Restaged_WholeSource(S) ==
  [l \in Listings |->
     LET showing == {p \in S : l \in Html[version][p]} IN
     IF showing # {} THEN Max(showing)
     ELSE IF \E p \in S : SourceOf[p] = l[1] THEN NoPage ELSE staging[l]]

\* The slip: a page keeps the rows of its former contents.
Restaged_Keeps(S) ==
  [l \in Listings |->
     LET showing == {p \in S : l \in Html[version][p]} IN
     IF showing # {} THEN Max(showing) ELSE staging[l]]

\* The staging rows after the pages of S were parsed in the order of their
\* ids: each page drops its own rows, and takes over the listings it shows.
Restaged(S) ==
  [l \in Listings |->
     LET showing == {p \in S : l \in Html[version][p]} IN
     IF showing # {} THEN Max(showing)
     ELSE IF staging[l] \in S THEN NoPage ELSE staging[l]]

\* raw.page.parsed_at of the pages of S
Stamped(S) == [p \in Pages |-> IF p \in S THEN version ELSE parsed[p]]

Parse(S) ==
  /\ staging' = Restaged(S)
  /\ parsed' = Stamped(S)
  /\ UNCHANGED <<version, warehouse, assignment>>

Unparsed == {p \in Fetched : parsed[p] = 0}
FromSource(m) == {p \in Pages : SourceOf[p] = m}

\* parse latest, parse source and parse page, with and without --force
ParseSome ==
  \/ Parse(Unparsed) \/ Parse(Fetched)
  \/ \E m \in {"buyee", "ebay"} : \/ Parse(Unparsed \cap FromSource(m))
                                  \/ Parse(Fetched \cap FromSource(m))
  \/ \E p \in Fetched : Parse({p})

\* rebuild staging: every row is deleted and every page parsed, in one
\* transaction
Rebuild ==
  /\ staging' = [l \in Listings |->
                   LET showing == {p \in Fetched : l \in Html[version][p]} IN
                   IF showing = {} THEN NoPage ELSE Max(showing)]
  /\ parsed' = Stamped(Fetched)
  /\ UNCHANGED <<version, warehouse, assignment>>

-----------------------------------------------------------------------------
(* Staging rows and the warehouse *)

\* sync warehouse, for one marketplace or for all, without pruning
Sync(markets) ==
  /\ warehouse' = warehouse \cup UNION {Staged(m) : m \in markets}
  /\ UNCHANGED <<version, parsed, staging, assignment>>

\* The rows _prune_obsolete compares: sync_staging_to_warehouse has upserted
\* the staged identities before it counts.
Held(m) == (warehouse \cup Staged(m)) \cap Of(m)

\* The slip: the rows are counted before the upserts.
PruneRefused_Before(m) ==
  \/ warehouse \cap Of(m) # {} /\ Staged(m) = {}
  \/ Cardinality(Staged(m)) < Cardinality(warehouse \cap Of(m))

PruneRefused(m) ==
  \/ Held(m) # {} /\ Staged(m) = {}
  \/ Cardinality(Staged(m)) < Cardinality(Held(m))

\* sync warehouse --prune; a refusal raises before the commit
PruneSync(m) ==
  /\ ~PruneRefused(m)
  /\ warehouse' = (warehouse \cup Staged(m)) \ (Held(m) \ Staged(m))
  /\ UNCHANGED <<version, parsed, staging, assignment>>

\* _upsert_gripsweat_auctions: a sale becomes an auction of its own unless the
\* warehouse has the eBay listing of the same number.
Promote(l) ==
  /\ l[1] = "gripsweat"
  /\ <<"ebay", l[2]>> \notin warehouse
  /\ warehouse' = warehouse \cup {l}
  /\ UNCHANGED <<version, parsed, staging, assignment>>

-----------------------------------------------------------------------------
(* Assignments *)

\* apply_assignment, assign_existing_pressing and the picks of the review page
Decide(l) ==
  /\ l \in warehouse
  /\ assignment' = [assignment EXCEPT ![l] = "manual"]
  /\ UNCHANGED <<version, parsed, staging, warehouse>>

\* The slip: the update has no WHERE clause.
FillKeeps_Never(l) == FALSE

\* _assign_pressing of the identity fill: ON CONFLICT updates unless the row is
\* a manual override.
FillKeeps(l) == assignment[l] = "manual"

Fill(l) ==
  /\ l \in warehouse
  /\ ~FillKeeps(l)
  /\ assignment' = [assignment EXCEPT ![l] = "auto"]
  /\ UNCHANGED <<version, parsed, staging, warehouse>>

\* _unassign_auto_identity, reached from identity fill with retune
Unfill(l) ==
  /\ assignment[l] = "auto"
  /\ assignment' = [assignment EXCEPT ![l] = "none"]
  /\ UNCHANGED <<version, parsed, staging, warehouse>>

WarehouseNext ==
  \/ \E p \in Pages : Fetch(p)
  \/ Upgrade
  \/ ParseSome
  \/ Rebuild
  \/ \E m \in {"buyee", "ebay"} : Sync({m}) \/ PruneSync(m)
  \/ Sync({"buyee", "ebay"})
  \/ \E l \in Listings : Promote(l) \/ Decide(l) \/ Fill(l) \/ Unfill(l)

WarehouseSpec == WarehouseInit /\ [][WarehouseNext]_dataVars

-----------------------------------------------------------------------------
(* Properties *)

\* A staging row names the page it came from, and that page, as it was last
\* parsed, shows the listing: no row outlives a new parse of its page, whatever
\* pages took the listing over in between (parse_raw_page's two deletes).
StagedByItsPage ==
  \A l \in Listings :
    staging[l] # NoPage => l \in Html[parsed[staging[l]]][staging[l]]

\* No listing is missing from staging while some page that was last parsed by the
\* deployed parser shows it.  (One that only a page parsed by a former version shows
\* can be: a page that had taken it over no longer does, and drops it.)
NothingParsedIsLost ==
  \A p \in Pages : parsed[p] = version => \A l \in Html[version][p] : staging[l] # NoPage

\* What the ingestion round asserts before and after it runs (verify_transition):
\* the assignment queue has as many rows as there are auctions without an
\* assignment.  No key ties an assignment to its auction, so this rests on
\* nothing ever removing an auction that is assigned.
QueueIsComplement ==
  Cardinality(Queue) = Cardinality(warehouse) - Cardinality(Assigned)

\* A pressing an operator chose is never given up to the identity fill, in
\* whatever order fills, retunes and choices come.
ManualStays ==
  [][\A l \in Listings : assignment[l] = "manual" => assignment'[l] = "manual"]_dataVars

\* What --prune promises (cli/sync.py): it removes the rows absent from a complete
\* staging snapshot.  So a snapshot made of every page by the deployed parser, with
\* no fewer identities than the warehouse has rows, is not refused as incomplete.
PruneTakesCompleteSnapshot ==
  \A m \in {"buyee", "ebay"} :
    /\ \A p \in Fetched : parsed[p] = version
    /\ Cardinality(Staged(m)) >= Cardinality(warehouse \cap Of(m))
    => ~PruneRefused(m)
=============================================================================
