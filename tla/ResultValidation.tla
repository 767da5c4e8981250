-------------------------- MODULE ResultValidation --------------------------
(***************************************************************************)
(* services/validation.py: the gate between what was extracted and what is *)
(* recorded.  A target is [hosts, name, id, currency, minimum, maximum,    *)
(* ratio, previous, previousCurrency], its ratio in percent, None for what *)
(* is not configured.  Left out are the checks that no product of          *)
(* SelectorScraper can fail: an empty name, a price that is not finite, a  *)
(* time without zone, missing evidence, a name its evidence lacks.         *)
(***************************************************************************)
EXTENDS SelectorScraper

CONSTANTS
    KnownCurrencies,
    Similar   \* pairs of names whose identity score reaches the minimum

Distance(a, b) == IF a >= b THEN a - b ELSE b - a

TooLargeChange(product, target) ==
    /\ target.previous # None
    /\ target.previousCurrency \in {None, product.currency}
    /\ target.previous > 0
    /\ 100 * Distance(product.price, target.previous)
         > target.ratio * target.previous

Below(a, bound) == bound # None /\ a < bound
Above(a, bound) == bound # None /\ a > bound

Check(code, kind, fails) == [code |-> code, kind |-> kind, fails |-> fails]

SchemaChecks(product) ==
    << Check("currency_unknown", "schema", product.currency \notin KnownCurrencies) >>

PriceChecks(product, target) ==
    << Check("price_non_positive", "plausibility", product.price <= 0),
       Check("invalid_price_bounds", "schema",
             target.minimum # None /\ Above(target.minimum, target.maximum)),
       Check("price_below_minimum", "plausibility", Below(product.price, target.minimum)),
       Check("price_above_maximum", "plausibility", Above(product.price, target.maximum)),
       Check("price_change_too_large", "plausibility", TooLargeChange(product, target)) >>

IdentityChecks(product, target) ==
    << Check("product_url_host_mismatch", "identity", product.host \notin target.hosts),
       Check("product_name_mismatch", "identity",
             target.name # None /\ <<target.name, product.name>> \notin Similar),
       Check("external_id_mismatch", "identity",
             target.id # None /\ product.id # target.id),
       Check("currency_mismatch", "identity",
             target.currency # None /\ product.currency # target.currency),
       Check("currency_changed_unexpectedly", "plausibility",
             target.previousCurrency # None /\ product.currency # target.previousCurrency) >>

\* Mutant of EvidenceChecks: only the context is looked at.
EvidenceContextOnly(product) ==
    << Check("product_context_missing", "extraction", ~ product.context) >>

\* the text the price was read from must itself say the price
EvidenceChecks(product) ==
    LET evidenced == ParseMoney(product.evidence)
    IN  << Check("price_evidence_not_numeric", "extraction", evidenced = None),
           Check("price_evidence_mismatch", "extraction",
                 evidenced # None /\ evidenced # product.price),
           Check("product_context_missing", "extraction", ~ product.context) >>

Checks(product, target) ==
    SchemaChecks(product) \o PriceChecks(product, target)
      \o IdentityChecks(product, target) \o EvidenceChecks(product)

Failing(checks) == {i \in DOMAIN checks : checks[i].fails}

Accepts(product, target) == Failing(Checks(product, target)) = {}

PrimaryFailureKind(product, target) ==
    LET checks == Checks(product, target)
    IN  checks[Min(Failing(checks))].kind

\* what ValidationOutcome.issues names: price_context_weak is only a warning
IssueCodes(product, target) ==
    LET checks == Checks(product, target)
    IN  {checks[i].code : i \in Failing(checks)}
          \union (IF product.evidence.visible \/ ~ product.context
                  THEN {} ELSE {"price_context_weak"})
=============================================================================
