------------------------- MODULE MCAccountVisibility -------------------------
(* Values for model-checking AccountVisibility: two eBay pages that         *)
(* overlap, a second version of the parser that no longer sees one listing  *)
(* anywhere and sees another for the first time, and a sale that may tell   *)
(* of a listing of the warehouse, and whose item has the same number.       *)
EXTENDS AccountVisibility

e1 == <<"ebay", 1>>
e2 == <<"ebay", 2>>
e3 == <<"ebay", 3>>
g1 == <<"gripsweat", 1>>

McListings == {e1, e2, e3, g1}
McSourceOf == <<"ebay", "ebay">>
McHtml ==
  << << {e1, e2}, {e1} >>,
     << {e2}, {e2, e3} >> >>
McNumberOf == [s \in Sale |-> 1]
McItemOf == [s \in Sale |-> 1]
=============================================================================
