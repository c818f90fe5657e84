----------------------------- MODULE MCWarehouse -----------------------------
(* Values for model-checking Warehouse: one Buyee page and two eBay pages   *)
(* that overlap, and a second version of the parser that no longer sees one *)
(* listing anywhere and sees another for the first time.                    *)
EXTENDS Warehouse

b1 == <<"buyee", 1>>
e1 == <<"ebay", 1>>
e2 == <<"ebay", 2>>
e3 == <<"ebay", 3>>
g1 == <<"gripsweat", 1>>

McListings == {b1, e1, e2, e3, g1}
McSourceOf == <<"buyee", "ebay", "ebay">>
McHtml ==
  << << {b1}, {e1, e2}, {e1} >>,
     << {b1}, {e2}, {e2, e3} >> >>
=============================================================================
