--------------------------- MODULE MCInvitations ---------------------------
(* Instances of Invitations for TLC.                                       *)
EXTENDS Invitations, TLC

\* Somebody unknown, an identity without a membership, and former members.
Strangers == {<<FALSE, "NONE">>, <<TRUE, "NONE">>}
AnyStanding == Strangers \cup {<<TRUE, "SUSPENDED">>, <<TRUE, "REMOVED">>}

\* Request slots are interchangeable, and so are people.
Symmetry == Permutations(Requests) \cup Permutations(People)
=============================================================================
