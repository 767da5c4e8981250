-------------------------- MODULE SelectorScraper --------------------------
(***************************************************************************)
(* scrapers/selector.py: reading a product from a page with the rules of a *)
(* SiteSpec (scrapers/spec.py).                                            *)
(*                                                                         *)
(* A rule is [at, pattern, safe]: the place it names (selector, attribute  *)
(* and source together), whether it has a pattern, and whether a repair    *)
(* may add it.  A spec is [key, revision, fetchMode, hosts, symbolMap,     *)
(* rules], rules giving each selector field its sequence.  A page is       *)
(* [host, antiBot, container, context, text, outside, shown]: text maps    *)
(* the places found in the product container (anywhere, for metadata) to   *)
(* their texts, outside the other places of the page; context says whether *)
(* the container has text of its own; shown is the amount a visitor sees.  *)
(* A text also has                                                         *)
(*   name    None, or the product name it gives                            *)
(*   picked  None, or the text that the pattern of a rule picks from it    *)
(*   visible whether it can be read in the container                       *)
(***************************************************************************)
EXTENDS MoneyParsing

SelectorFields ==
    {"name", "price", "currency", "availability", "external_product_id"}

\* apply_pattern on the text at the rule's place
Select(page, rule) ==
    IF rule.at \notin DOMAIN page.text THEN None
    ELSE LET raw == page.text[rule.at]
         IN  IF ~ rule.pattern THEN [value |-> raw, raw |-> raw]
             ELSE IF raw.picked = None THEN None
             ELSE [value |-> raw.picked, raw |-> raw]

Yields(page, rules) == {i \in DOMAIN rules : Select(page, rules[i]) # None}

\* the first rule that yields a value
Optional(page, rules) ==
    IF Yields(page, rules) = {} THEN None
    ELSE Select(page, rules[Min(Yields(page, rules))])

Missing(field) == [failed |-> field]

\* the product, or the field whose ScraperExtractionError was raised
Extract(spec, page) ==
    LET pick(field)  == Optional(page, spec.rules[field])
        price        == ParseMoney(pick("price").value)
        currencyOf(selection) ==
            IF selection = None THEN None
            ELSE DetectCurrency(selection.value, spec.symbolMap)
        explicit     == currencyOf(pick("currency"))
        ofPrice      == currencyOf(pick("price"))
        stock        == pick("availability")
        id           == pick("external_product_id")
    IN  IF ~ page.container THEN Missing("product_container")
        ELSE IF pick("name") = None THEN Missing("name")
        ELSE IF pick("price") = None THEN Missing("price")
        ELSE IF price = None THEN Missing("price")
        ELSE IF Cardinality({explicit, ofPrice} \ {None}) # 1 THEN Missing("currency")
        ELSE [failed |-> None,
              name |-> pick("name").value.name,
              price |-> price,
              currency |-> IF explicit # None THEN explicit ELSE ofPrice,
              availability |-> IF stock = None THEN "unknown"
                               ELSE ParseAvailability(stock.value),
              id |-> IF id = None THEN None ELSE id.value.name,
              host |-> page.host,
              evidence |-> pick("price").raw,
              context |-> page.context]
=============================================================================
