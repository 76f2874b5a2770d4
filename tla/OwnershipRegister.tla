-------------------------- MODULE OwnershipRegister --------------------------
(***************************************************************************)
(* What the membership and ownership services promise about one            *)
(* Organization, with every transaction a single step: an owner who is an  *)
(* active Administrator, at most one offered transfer, and ownership that  *)
(* only passes to the member it was offered to.                            *)
(***************************************************************************)
CONSTANTS Members, None

VARIABLES owner,   \* the member who owns the Organization
          admins,  \* its active Administrators
          offer    \* whom the pending proposal names, or None

register == <<owner, admins, offer>>

Init ==
  /\ owner \in Members /\ admins \in SUBSET Members /\ owner \in admins
  /\ offer \in (Members \cup {None}) \ {owner}

\* The owner offers the Organization to s; an earlier offer lapses.
Propose(s) == s # owner /\ offer' = s /\ UNCHANGED <<owner, admins>>

\* The offer is cancelled.
Withdraw == offer' = None /\ UNCHANGED <<owner, admins>>

\* The member the offer names takes over, if still an active Administrator.
Accept ==
  /\ offer \in admins
  /\ owner' = offer /\ offer' = None
  /\ UNCHANGED admins

\* m becomes an active Administrator: promotion, reactivation.
Gain(m) == admins' = admins \cup {m} /\ UNCHANGED <<owner, offer>>

\* m stops being one: demotion, suspension, removal; never the owner.  An offer
\* to m lapses with it, unless it was made while m was losing the role.
Lose(m) ==
  /\ m # owner
  /\ admins' = admins \ {m}
  /\ offer' \in {offer, IF offer = m THEN None ELSE offer}
  /\ UNCHANGED owner

Next ==
  \/ \E m \in Members : Propose(m) \/ Gain(m) \/ Lose(m)
  \/ Withdraw \/ Accept

Spec == Init /\ [][Next]_register
=============================================================================
