--------------------------- MODULE MCScrapeQueue ---------------------------
(***************************************************************************)
(* Instances of ScrapeQueue for TLC.                                       *)
(***************************************************************************)
EXTENDS ScrapeQueue, TLC

\* Prices are whole amounts; the validator's limit is a change of 80 percent
\* of the previous price (ScrapeTarget.maximum_price_change_ratio).
MCPlausible ==
  [t \in Targets |-> {<<old, new>> \in (Prices \cup {NoPrice}) \X Prices :
     old # NoPrice => 10 * (new - old) <= 8 * old /\ 10 * (old - new) <= 8 * old}]

WorkerSymmetry == Permutations(Workers)
Symmetry == Permutations(Workers) \cup Permutations(Clients)
=============================================================================
