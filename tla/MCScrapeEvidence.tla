-------------------------- MODULE MCScrapeEvidence --------------------------
(* One product of one shop, whose page changes under its scraper.           *)
EXTENDS ScrapeEvidence, TLC

MCSymbolLength == [kr |-> 2, pound |-> 1, dollar |-> 1, euro |-> 1]
MCKnownCurrencies == {"DKK", "USD"}
MCSimilar == {<<"tea", "tea">>, <<"tea", "tea 250 g">>}

\* texts
G(sep, len, n) == [sep |-> sep, len |-> len, n |-> n]
Number(groups) == [negative |-> FALSE, groups |-> groups]
Blank == [number |-> None, iso |-> None, symbols |-> {}, digits |-> FALSE,
          three |-> FALSE, stock |-> {}, name |-> None, picked |-> None, visible |-> TRUE]
Name(n) == [Blank EXCEPT !.name = n]
Amount(groups) == [Blank EXCEPT !.number = Number(groups), !.digits = TRUE, !.symbols = {"kr"}]
Whole(groups) == [Amount(groups) EXCEPT !.picked = Amount(groups)]
Stock(s) == [Blank EXCEPT !.stock = s]

P1234 == <<G("", 1, 1), G(".", 3, 234), G(",", 2, 50)>>  \* 1.234,50
P2000 == <<G("", 1, 2), G(".", 3, 0)>>                   \* 2.000
P9 == <<G("", 1, 9)>>                                    \* 9

\* places and rules
Rule(at, pattern) == [at |-> at, pattern |-> pattern, safe |-> TRUE]
MCBaseline ==
    [key |-> "shop", revision |-> "v1", fetchMode |-> "http", hosts |-> {"shop"},
     symbolMap |-> [kr |-> "DKK"],
     rules |-> [name |-> <<Rule("title", FALSE)>>,
                price |-> <<Rule("price", TRUE), Rule("was", FALSE)>>,
                currency |-> <<>>, availability |-> <<Rule("stock", FALSE)>>,
                external_product_id |-> <<>>]]
MCCandidates ==
    [name |-> <<Rule("title", FALSE), Rule("heading", FALSE)>>,
     price |-> <<Rule("price", FALSE), Rule("amount", FALSE), Rule("meta", FALSE)>>,
     currency |-> <<Rule("meta", FALSE)>>, availability |-> <<>>,
     external_product_id |-> <<>>]
MCModelAdditions ==
    {[price |-> <<Rule("meta", FALSE), Rule("price", TRUE)>>],
     [name |-> <<Rule("heading", FALSE)>>]}
MCManualSpecs ==
    {[MCBaseline EXCEPT !.revision = "v2", !.rules.price = r] :
       r \in {<<Rule("amount", FALSE)>>, <<Rule("amount", FALSE)>> \o MCBaseline.rules.price}}

Page(text, outside, shown) ==
    [host |-> "shop", antiBot |-> FALSE, container |-> TRUE, context |-> TRUE,
     text |-> [title |-> Name("tea"), stock |-> Stock({"in"})] @@ text,
     outside |-> outside, shown |-> shown]
Nowhere == <<>>
Cheap == Page([price |-> Whole(P1234)], Nowhere, 1234500)
MCContent ==
    [cheap |-> Cheap,
     dear |-> Page([price |-> Whole(P2000), amount |-> Amount(P9)],
                  [heading |-> Name("kettle")], 2000000),
     moved |-> Page([amount |-> Amount(P1234), meta |-> Amount(P1234)], Nowhere, 1234500),
     partial |-> Page([price |-> [Amount(P1234) EXCEPT !.picked = Amount(Tail(P1234))]],
                      Nowhere, 1234500),
     challenge |-> [Cheap EXCEPT !.antiBot = TRUE]]
MCPages == DOMAIN MCContent
\* the shop is redesigned after its first answers
MCServed == <<{"cheap", "dear"}, {"dear", "moved"}, MCPages>>

MCTargetOf == [r \in Results |-> "t"]
MCTargetInfo ==
    [t |-> [hosts |-> {"shop"}, baseHost |-> "shop", host |-> "shop", name |-> "tea",
            id |-> None, currency |-> "DKK", minimum |-> None, maximum |-> 5000000,
            ratio |-> 80]]
Symmetry == Permutations(Workers)
=============================================================================
