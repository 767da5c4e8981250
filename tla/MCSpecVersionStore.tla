------------------------- MODULE MCSpecVersionStore -------------------------
(* Instances of SpecVersionStore for TLC: two releases of the package and   *)
(* three candidates, two of which have the same revision.                   *)
EXTENDS SpecVersionStore, TLC

CONSTANTS v1, v2, r1, r2, a, b

MCRevisions == {v1, v2, r1, r2}
MCBodies == {a, b}
MCInitial == [rev |-> v1, body |-> a]
MCCandidates == {[rev |-> r1, body |-> a], [rev |-> r1, body |-> b], [rev |-> r2, body |-> b]}
TwoReleases == {MCInitial, [rev |-> v2, body |-> b]}

Symmetry == Permutations(Processes)
=============================================================================
