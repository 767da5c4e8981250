--------------------------- MODULE MCScraperHealth ---------------------------
(* Instances of ScraperHealth for TLC: two targets, two workers. *)
EXTENDS ScraperHealth, TLC

Symmetry == Permutations(Targets) \cup Permutations(Workers) \cup Permutations(Actors)
=============================================================================
