---------------------------- MODULE MCStructure ----------------------------
(* Instances of Structure for TLC.                                         *)
EXTENDS Structure, TLC

\* Two spellings of one identity, and another.
Spellings == {"harbour", "HARBOUR", "quay"}
Folded    == [l \in Spellings |-> IF l = "quay" THEN "quay" ELSE "harbour"]

\* Rows and request slots are interchangeable.
Symmetry == Permutations(Requests) \cup Permutations(Companies)
              \cup Permutations(Scopes) \cup Permutations(Names)
=============================================================================
