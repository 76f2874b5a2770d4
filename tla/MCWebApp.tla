------------------------------ MODULE MCWebApp ------------------------------
(* Instances of WebApp for TLC.                                            *)
EXTENDS WebApp, TLC

CONSTANT MaxEvents  \* bound: loads, posts and changes by others of one page together

\* Scopes that the unique index takes for the same.
OneKey == [l \in Labels |-> "same"]

\* A collaborator in each Organization.
HomeOf == [m \in Staff |-> IF m = "ann" THEN 1 ELSE 2]

\* All but the longest of these behaviours.
Short ==
  /\ Len(loads) + Len(posts) + others <= MaxEvents
  /\ asked + Len(changes) + elsewhere <= MaxEvents

Symmetry == Permutations(Names)
=============================================================================
