---------------------------- MODULE MoneyParsing ----------------------------
(***************************************************************************)
(* scrapers/parsing.py: what a text of a shop's page says about money,     *)
(* currency and stock.                                                     *)
(*                                                                         *)
(* A text is a record                                                      *)
(*   number  None, or the first number in it: [negative, groups], where a  *)
(*           group of digits is [sep, len, n]: what separates it from the  *)
(*           group before ("" for the first, " ", "," or "."; a space      *)
(*           stands for every mark that parse_money drops), how many       *)
(*           digits it has, and their value                                *)
(*   iso     None, or the first word of three capitals                     *)
(*   symbols the currency symbols in it                                    *)
(*   digits  whether any digit is in it, in a number or not                *)
(*   three   whether it is three characters long                           *)
(*   stock   which kinds of stock phrase it contains                       *)
(* and further fields that other modules read.  Amounts are in mills       *)
(* (thousandths); a fraction has at most three digits.                     *)
(***************************************************************************)
EXTENDS Integers, SequencesExt

CONSTANTS None, SymbolLength

-----------------------------------------------------------------------------
Digits(groups) == FoldLeft(LAMBDA acc, g : acc * 10 ^ g.len + g.n, 0, groups)

\* spaces and apostrophes disappear: what they separated is one group
Merge(groups, g) ==
    IF g.sep # " " THEN Append(groups, g)
    ELSE [groups EXCEPT ![Len(groups)] =
            [sep |-> @.sep, len |-> @.len + g.len, n |-> Digits(<<@, g>>)]]
Joined(groups) == FoldLeft(Merge, <<Head(groups)>>, Tail(groups))

\* Is the last mark the decimal one?  TRUE, FALSE (it groups, or there is
\* none) or None (ambiguous)
DecimalMark(groups) ==
    LET marks  == {groups[i].sep : i \in 2 .. Len(groups)}
        middle == \A i \in 2 .. Len(groups) - 1 : groups[i].len = 3
        last   == Last(groups).len
    IN  IF marks = {} THEN FALSE
        ELSE IF Cardinality(marks) = 2 THEN TRUE
        ELSE IF middle /\ last \in {1, 2} THEN TRUE
        ELSE IF middle /\ last = 3 THEN FALSE ELSE None

\* mills, or None for a MoneyParseError
ParseMoney(text) ==
    IF text.number = None THEN None
    ELSE LET groups  == Joined(text.number.groups)
             sign    == IF text.number.negative THEN -1 ELSE 1
             decimal == DecimalMark(groups)
         IN  IF decimal = None THEN None
             ELSE IF decimal
             THEN sign * (1000 * Digits(Front(groups))
                            + Last(groups).n * 10 ^ (3 - Last(groups).len))
             ELSE sign * 1000 * Digits(groups)

\* the symbols of a site that lists none
DefaultSymbols == [pound |-> "GBP", dollar |-> "USD", euro |-> "EUR"]

\* a code in capitals wins over the longest of the site's symbols
DetectCurrency(text, symbolMap) ==
    LET mapping == IF DOMAIN symbolMap = {} THEN DefaultSymbols ELSE symbolMap
        found == text.symbols \intersect DOMAIN mapping
    IN  IF text.iso # None THEN text.iso
        ELSE IF found = {} THEN None
        ELSE mapping[CHOOSE s \in found :
                       \A o \in found : SymbolLength[o] <= SymbolLength[s]]

ParseAvailability(text) ==
    IF text.stock \intersect {"out", "zero"} # {} THEN "out_of_stock"
    ELSE IF "preorder" \in text.stock THEN "preorder"
    ELSE IF "in" \in text.stock THEN "in_stock" ELSE "unknown"
=============================================================================
