--------------------------- MODULE AccountVisibility ---------------------------
(***************************************************************************)
(* services/account_visibility.py over Warehouse: which listings an        *)
(* account sees.  A refresh publishes a marketplace to its account; a      *)
(* page of a development host attaches the whole warehouse to the account  *)
(* that has signed in, unless the number of auctions and sales is the one  *)
(* that its process remembers from the last time.                          *)
(*                                                                         *)
(* The pages are threads of one process and share what it remembers.       *)
(* Processes have nothing else in common than the rows, which an insert    *)
(* only adds to.                                                           *)
(***************************************************************************)
EXTENDS Warehouse

CONSTANTS
  Account,      \* identity.account
  Page,         \* threads of the process that serves the pages
  Sale,         \* warehouse.gripsweat_sale
  NumberOf,     \* the number of the eBay listing that a sale tells of
  ItemOf        \* gripsweat_item_id of each sale, which is the number in its URL

ASSUME VisibilityAssumption ==
  /\ NumberOf \in [Sale -> Nat] /\ ItemOf \in [Sale -> Nat]
  /\ IsFiniteSet(Sale)

VARIABLES
  sales,        \* per sale: "absent", "unnumbered" or "numbered"
  visible,      \* per account: its rows of account.auction_listing
  attached,     \* _ATTACHED_WAREHOUSE_GENERATION: per account a count, or Never
  page          \* per thread: what it is doing, for whom, and its count

visibilityVars == <<dataVars, sales, visible, attached, page>>

Never == -1
Identity ==
  Listings \cup ({"gripsweat"} \X ({NumberOf[s] : s \in Sale} \cup {ItemOf[s] : s \in Sale}))
Known == {s \in Sale : sales[s] # "absent"}
Generation == Cardinality(warehouse) + Cardinality(Known)

\* What a thread does: the marketplace whose insert comes next, or the note of its
\* count; and the rows that its open transaction has inserted.
AtRest == [does |-> "nothing"]
Doing ==
  {AtRest} \cup [does : Marketplaces \cup {"remember"}, account : Account, count : Nat,
                got : SUBSET Identity]

VisibilityTypeOK ==
  /\ sales \in [Sale -> {"absent", "unnumbered", "numbered"}]
  /\ visible \in [Account -> SUBSET Identity]
  /\ attached \in [Account -> {Never} \cup Nat]
  /\ page \in [Page -> Doing]

VisibilityInit ==
  /\ WarehouseInit
  /\ sales = [s \in Sale |-> "absent"]
  /\ visible = [a \in Account |-> {}]
  /\ attached = [a \in Account |-> Never]
  /\ page = [p \in Page |-> AtRest]

-----------------------------------------------------------------------------
(* Sales *)

\* A sale is imported, with its number if the results page has told it.
Import(s) ==
  /\ sales[s] = "absent"
  /\ \E known \in {"unnumbered", "numbered"} : sales' = [sales EXCEPT ![s] = known]
  /\ UNCHANGED <<dataVars, visible, attached, page>>

\* enrich_gripsweat_details finds the number on the sale's own page.
Enrich(s) ==
  /\ sales[s] = "unnumbered"
  /\ sales' = [sales EXCEPT ![s] = "numbered"]
  /\ UNCHANGED <<dataVars, visible, attached, page>>

\* What a sale is listed under: its number, or while it has none the one in its URL.
\* (The three patterns that read a URL take the same numbers of 9 to 15 digits.)
Number(s) == IF sales[s] = "numbered" THEN NumberOf[s] ELSE ItemOf[s]

\* The identity fill promotes the sales it knows.
Promotable(l) == \E s \in Known : l[2] = Number(s)

\* Any writer of the warehouse
Write ==
  /\ WarehouseNext
  /\ \A l \in warehouse' \ warehouse : l[1] = "gripsweat" => Promotable(l)
  /\ UNCHANGED <<sales, visible, attached, page>>

-----------------------------------------------------------------------------
(* Visibility *)

\* The rows that are inserted for a marketplace
Native(m) == warehouse \cap Of(m)
Offered(S) == {<<"gripsweat", Number(s)>> : s \in {t \in S : <<"ebay", Number(t)>> \notin warehouse}}
Eligible == Offered(Known)
Candidates(m) == IF m = "gripsweat" THEN Eligible ELSE Native(m)

\* publish_marketplace_visibility, by a refresh that has synced the marketplace
Publish(a, m) ==
  /\ visible' = [visible EXCEPT ![a] = @ \cup Candidates(m)]
  /\ UNCHANGED <<dataVars, sales, attached, page>>

\* attach_development_warehouse_visibility counts, and returns when the process
\* remembers the same number.
Look(p, a) ==
  /\ page[p] = AtRest
  /\ attached[a] # Generation
  /\ page' = [page EXCEPT ![p] =
                [does |-> "buyee", account |-> a, count |-> Generation, got |-> {}]]
  /\ UNCHANGED <<dataVars, sales, visible, attached>>

\* Each of the three inserts of the transaction sees what is committed when it starts.
Insert(p) ==
  /\ page[p].does \in {"buyee", "ebay"}
  /\ page' = [page EXCEPT ![p].does = IF page[p].does = "buyee" THEN "ebay" ELSE "gripsweat",
                          ![p].got = page[p].got \cup Native(page[p].does)]
  /\ UNCHANGED <<dataVars, sales, visible, attached>>

\* The last of them, and the commit
Attach(p) ==
  /\ page[p].does = "gripsweat"
  /\ visible' = [visible EXCEPT ![page[p].account] = @ \cup page[p].got \cup Eligible]
  /\ page' = [page EXCEPT ![p].does = "remember", ![p].got = {}]
  /\ UNCHANGED <<dataVars, sales, attached>>

\* The slip: the process remembers the count as it is after the inserts.
Remember_CountsAgain(p) ==
  /\ page[p].does = "remember"
  /\ attached' = [attached EXCEPT ![page[p].account] = Generation]
  /\ page' = [page EXCEPT ![p] = AtRest]
  /\ UNCHANGED <<dataVars, sales, visible>>

Remember(p) ==
  /\ page[p].does = "remember"
  /\ attached' = [attached EXCEPT ![page[p].account] = page[p].count]
  /\ page' = [page EXCEPT ![p] = AtRest]
  /\ UNCHANGED <<dataVars, sales, visible>>

\* A database call of the page raises: nothing is inserted or remembered.
GiveUp(p) ==
  /\ page[p].does \in Marketplaces
  /\ page' = [page EXCEPT ![p] = AtRest]
  /\ UNCHANGED <<dataVars, sales, visible, attached>>

\* The process ends, and another one begins.
Restart ==
  /\ attached' = [a \in Account |-> Never]
  /\ page' = [p \in Page |-> AtRest]
  /\ UNCHANGED <<dataVars, sales, visible>>

VisibilityNext ==
  \/ Write
  \/ \E s \in Sale : Import(s) \/ Enrich(s)
  \/ \E a \in Account, m \in Marketplaces : Publish(a, m)
  \/ \E p \in Page, a \in Account : Look(p, a)
  \/ \E p \in Page : Insert(p) \/ Attach(p) \/ Remember(p) \/ GiveUp(p)
  \/ Restart

VisibilitySpec == VisibilityInit /\ [][VisibilityNext]_visibilityVars

-----------------------------------------------------------------------------
(* Properties *)

\* A sale that stays under one number, whether its own page has been read or not
Steady == {s \in Known : NumberOf[s] = ItemOf[s]}

\* Where the remembered count makes a page skip, the account sees every auction of
\* Buyee and eBay there is, and every sale that eBay's auctions do not stand for, unless
\* its own page has told a number that is not its item's: whatever was added between a
\* page's count, its inserts and its note, by whomever, changes the count.  A count is no
\* proof of contents, and this rests on nothing ever leaving the warehouse.
SkippedIsAttached ==
  \A a \in Account : attached[a] = Generation =>
    Native("buyee") \cup Native("ebay") \cup Offered(Steady) \subseteq visible[a]
=============================================================================
