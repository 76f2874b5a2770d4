---------------------------- MODULE MCCredentials ----------------------------
(* Instances of Credentials for TLC.                                       *)
EXTENDS Credentials, TLC

\* Request slots, sessions and links are interchangeable.
Symmetry == Permutations(Requests) \cup Permutations(Sessions) \cup Permutations(Links)
=============================================================================
