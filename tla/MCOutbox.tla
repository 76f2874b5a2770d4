------------------------------ MODULE MCOutbox ------------------------------
(* Instances of Outbox for TLC.                                            *)
EXTENDS Outbox, TLC

\* Messages and ticks are interchangeable in safety properties.
Symmetry == {a @@ b : a \in Permutations(Messages), b \in Permutations(Timers)}
=============================================================================
