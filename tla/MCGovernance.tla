---------------------------- MODULE MCGovernance ----------------------------
(* Instances of Governance for TLC: starting roles and symmetry.           *)
EXTENDS Governance, TLC

\* Every kind of member a transaction may meet besides the owner.
AllRoles == {<<"ACTIVE", "Administrator">>, <<"ACTIVE", "User">>,
             <<"SUSPENDED", "Administrator">>}

\* Everybody an active Administrator: the roles ownership transfers need.
AdminRoles == {<<"ACTIVE", "Administrator">>}

\* Members and slots are interchangeable in safety properties.
Symmetry == {a @@ b : a \in Permutations(Members), b \in Permutations(Requests)}
=============================================================================
