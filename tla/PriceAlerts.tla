----------------------------- MODULE PriceAlerts -----------------------------
(***************************************************************************)
(* services/alerts.py with api/alerts.py: alert rules of a customer on one *)
(* of the customer's products, and their state, which is nowhere stored    *)
(* but derived from the accepted price history each time a rule is read.   *)
(*                                                                         *)
(* Only the order of two moments matters here: a change's `after' is the   *)
(* set of rules that existed when its page was fetched (observed_at >=     *)
(* created_at).  The code rounds a percentage to a millionth; here it is   *)
(* exact.  A change is [row, kind, amount, previous, after].               *)
(***************************************************************************)
EXTENDS Integers, Sequences

CONSTANTS
    Rules,       \* identifiers of alert rules: never used twice
    Thresholds,  \* percentages
    Absent, Deleted  \* what a rule is before and after its life

VARIABLES
    changes,     \* price_history of the product, oldest first
    rules        \* alert_rules: Absent, Deleted or a rule

Directions == {"decrease", "increase", "either"}
RuleType == [direction : Directions, threshold : Thresholds, active : BOOLEAN]

AlertInit == /\ changes = <<>>
             /\ rules = [q \in Rules |-> Absent]

Existing == {q \in Rules : rules[q] \notin {Absent, Deleted}}

CreateRule(q) ==
    /\ rules[q] = Absent
    /\ \E d \in Directions, p \in Thresholds :
         rules' = [rules EXCEPT ![q] =
                     [direction |-> d, threshold |-> p, active |-> TRUE]]
    /\ UNCHANGED changes

\* any part of a rule may be set; its creation time stays
UpdateRule(q) ==
    /\ q \in Existing
    /\ \E new \in RuleType : rules' = [rules EXCEPT ![q] = new]
    /\ UNCHANGED changes

DeleteRule(q) ==
    /\ q \in Existing
    /\ rules' = [rules EXCEPT ![q] = Deleted]
    /\ UNCHANGED changes

\* the recorder's part: services/results.py _change and the history row
ChangeOf(row, price, currency, previous, after) ==
    LET amount == price - previous.price
    IN  IF previous.currency = "none"
        THEN [row |-> row, kind |-> "initial", amount |-> 0, previous |-> 0, after |-> after]
        ELSE [row |-> row, amount |-> amount, previous |-> previous.price, after |-> after,
              kind |-> CASE previous.currency # currency -> "currency_changed"
                         [] OTHER -> IF amount = 0 THEN "unchanged"
                                     ELSE IF amount > 0 THEN "increase" ELSE "decrease"]

-----------------------------------------------------------------------------
(* AlertService.evaluate                                                    *)

\* Mutant of HistorySince: what happened before the rule counts as well.
HistoryEver(q) == {i \in DOMAIN changes : q \in Rules}

HistorySince(q) == {i \in DOMAIN changes : q \in changes[i].after}

Matching(rule, c) ==
    LET reaches(amount) == 100 * amount >= rule.threshold * c.previous
    IN  \/ /\ rule.direction \in {"decrease", "either"}
           /\ c.kind = "decrease" /\ reaches(- c.amount)
        \/ /\ rule.direction \in {"increase", "either"}
           /\ c.kind = "increase" /\ reaches(c.amount)

Evaluate(q) ==
    IF ~ rules[q].active THEN "disabled"
    ELSE IF HistorySince(q) = {} THEN "waiting"
    ELSE IF \E i \in HistorySince(q) : Matching(rules[q], changes[i])
    THEN "triggered" ELSE "clear"
=============================================================================
