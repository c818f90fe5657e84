-------------------------- MODULE MCIngestionRound --------------------------
(* Values for model-checking IngestionRound: a Buyee page and an eBay page, *)
(* each showing one auction.                                                *)
EXTENDS IngestionRound

McListings == {<<"buyee", 1>>, <<"ebay", 1>>}
McSourceOf == <<"buyee", "ebay">>
McHtml == << << {<<"buyee", 1>>}, {<<"ebay", 1>>} >> >>
=============================================================================
