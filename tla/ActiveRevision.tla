---------------------------- MODULE ActiveRevision ----------------------------
(***************************************************************************)
(* What the version store promises of the specification an adapter runs    *)
(* with, and nothing about files: one current specification and at most    *)
(* one to go back to, both changed at once.  Only a specification that was *)
(* offered becomes current, and going back swaps the two.                  *)
(***************************************************************************)
CONSTANTS
  Specs,    \* all specifications
  Packages, \* those that releases of the package come with
  Initial,  \* the one of the release that is installed at first
  NoSpec    \* there is nothing to go back to

VARIABLES
  current,   \* the specification in use
  previous,  \* the one that a rollback makes current
  offered    \* the specifications staged so far

vars == <<current, previous, offered>>

Init ==
  /\ current = Initial
  /\ previous = NoSpec
  /\ offered = {}

Offer(s) ==
  /\ \A o \in offered : o.rev # s.rev
  /\ offered' = offered \cup {s}
  /\ UNCHANGED <<current, previous>>

Promote(s) ==
  /\ s \in offered
  /\ current' = s
  /\ previous' = current
  /\ UNCHANGED offered

Revert ==
  /\ previous # NoSpec
  /\ current' = previous
  /\ previous' = current
  /\ UNCHANGED offered

\* Until something is promoted, the current one is that of the package.
Release ==
  /\ previous = NoSpec
  /\ current \in Packages /\ current' \in Packages
  /\ UNCHANGED <<previous, offered>>

Next == Revert \/ Release \/ \E s \in Specs : Offer(s) \/ Promote(s)

Spec == Init /\ [][Next]_vars
=============================================================================
