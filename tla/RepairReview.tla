---------------------------- MODULE RepairReview ----------------------------
(***************************************************************************)
(* The gate a repaired SiteSpec passes: what the providers may propose     *)
(* (repair/providers.py), the scope policy (repair/policy.py), the run of  *)
(* the candidate on one page (repair/runner.py, repair/_spec_worker.py)    *)
(* and the review over the fixtures (repair/reviewer.py), with the reading *)
(* of a failure in services/repair_coordinator.py.                         *)
(*                                                                         *)
(* A fixture is [cohort, page, name, price, currency, availability], the   *)
(* last four None where nothing is expected, with the target it is judged  *)
(* for in `target'.                                                        *)
(***************************************************************************)
EXTENDS ResultValidation

CONSTANTS
    Candidates,     \* the allowlist of the deterministic provider, by field
    ModelAdditions, \* what a model may answer: rules added, by field
    ManualSpecs     \* what an operator may supply

MaximumAddedRules == 8
MaximumFieldRules == 10  \* of one field of a SiteSpec
MaximumModelRules == 3   \* that a model may add to one field

\* the first field whose name occurs in a code of the failed row (no code
\* names external_product_id)
FailedFieldsOf(codes) ==
    LET names == [availability |-> {},
                  currency |-> {"EXTRACTION_CURRENCY", "currency_unknown",
                                "currency_mismatch", "currency_changed_unexpectedly"},
                  price |-> {"EXTRACTION_PRICE", "price_non_positive",
                             "invalid_price_bounds", "price_below_minimum",
                             "price_above_maximum", "price_change_too_large",
                             "price_evidence_not_numeric", "price_evidence_mismatch",
                             "price_context_weak"},
                  name |-> {"EXTRACTION_NAME", "product_name_mismatch"}]
        order == <<"availability", "currency", "price", "name">>
        named == {i \in DOMAIN order : names[order[i]] \intersect codes # {}}
    IN  IF named = {} THEN {"name", "price"}
        ELSE {order[Min(named)]}

-----------------------------------------------------------------------------
(* Providers: a proposal only puts new rules in front of the old ones       *)

Novel(rules, existing) == SelectSeq(rules, LAMBDA r : r \notin Range(existing))

\* the deterministic provider looks for its places in the whole page
Meaningful(page, field, rule) ==
    LET texts == page.text @@ page.outside
    IN  /\ rule.at \in DOMAIN texts
        /\ field = "price" => texts[rule.at].digits
        /\ field = "currency" =>
             \/ texts[rule.at].three
             \/ texts[rule.at].symbols \intersect DOMAIN DefaultSymbols # {}

FirstOf(rules) == IF rules = <<>> THEN <<>> ELSE <<Head(rules)>>

Extended(baseline, additions) ==
    [baseline EXCEPT
       !.revision = "candidate",
       !.rules = [f \in SelectorFields |->
                    (IF f \in DOMAIN additions THEN Novel(additions[f], @[f]) ELSE <<>>)
                      \o @[f]]]

Changed(baseline, candidate) ==
    {f \in SelectorFields : baseline.rules[f] # candidate.rules[f]}

DeterministicProposal(baseline, page, failed) ==
    Extended(baseline,
             [f \in failed |->
                FirstOf(SelectSeq(Novel(Candidates[f], baseline.rules[f]),
                                  LAMBDA r : Meaningful(page, f, r)))])

\* a patch of the model in the form and the scope that is asked for
Patches(failed) ==
    {m \in ModelAdditions :
       DOMAIN m \subseteq failed /\ \A f \in DOMAIN m : Len(m[f]) \in 1 .. MaximumModelRules}

\* a provider raises when the extended spec is none
Proposals(baseline, page, failed) ==
    {c \in {DeterministicProposal(baseline, page, failed)}
             \union {Extended(baseline, a) : a \in Patches(failed)} :
       /\ Changed(baseline, c) # {}
       /\ \A f \in SelectorFields : Len(c.rules[f]) <= MaximumFieldRules}
      \union ManualSpecs

-----------------------------------------------------------------------------
(* Policy                                                                   *)

Additions(baseline, candidate, f) ==
    Range(candidate.rules[f]) \ Range(baseline.rules[f])

PolicyAccepts(baseline, candidate, permitted) ==
    /\ candidate.revision # baseline.revision
    /\ \A x \in DOMAIN baseline \ {"revision", "rules"} : candidate[x] = baseline[x]
    /\ Changed(baseline, candidate) # {}
    /\ Changed(baseline, candidate) \subseteq permitted
    /\ \A f \in SelectorFields :
         /\ Cardinality(Range(candidate.rules[f])) = Len(candidate.rules[f])
         /\ Range(baseline.rules[f]) \subseteq Range(candidate.rules[f])
         /\ \A r \in Additions(baseline, candidate, f) : r.safe
    /\ Cardinality(UNION {{f} \X Additions(baseline, candidate, f) : f \in SelectorFields})
         <= MaximumAddedRules

-----------------------------------------------------------------------------
(* Runner and reviewer                                                      *)

\* Mutant of FixturePasses: the expected price is not compared.
FixturePassesUnpriced(candidate, fixture, runs) ==
    LET product == Extract(candidate, fixture.page)
    IN  /\ runs /\ product.failed = None
        /\ Accepts(product, fixture.target)
        /\ fixture.name \in {None, product.name}
        /\ fixture.currency \in {None, product.currency}

\* the judgement of the sandboxed run; runs says whether it gave one at all
FixturePasses(candidate, fixture, runs) ==
    LET product == Extract(candidate, fixture.page)
        expected(x, actual) == x \in {None, actual}
    IN  /\ runs
        /\ product.failed = None
        /\ Accepts(product, fixture.target)
        /\ expected(fixture.name, product.name)
        /\ expected(fixture.price, product.price)
        /\ expected(fixture.currency, product.currency)
        /\ expected(fixture.availability, product.availability)

FixtureSetAccepted(baseline, fixtures) ==
    /\ {fixtures[i].cohort : i \in DOMAIN fixtures} = {"old", "new", "holdout"}
    /\ \A i \in DOMAIN fixtures : fixtures[i].target.hosts = baseline.hosts

\* runs[i]: the sandbox answered for fixture i
ReviewAccepts(baseline, candidate, fixtures, permitted, runs) ==
    /\ PolicyAccepts(baseline, candidate, permitted)
    /\ FixtureSetAccepted(baseline, fixtures)
    /\ \A i \in DOMAIN fixtures : FixturePasses(candidate, fixtures[i], runs[i])
=============================================================================
