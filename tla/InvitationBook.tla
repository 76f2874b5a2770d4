--------------------------- MODULE InvitationBook ---------------------------
(***************************************************************************)
(* What the invitation services promise about one Organization, with every *)
(* transaction a single step: an invitation is issued once and then        *)
(* resolved once, ACCEPTED or REVOKED, for good; one invitation at most    *)
(* awaits each address; and nobody becomes a member, or the owner, other   *)
(* than by the acceptance of an invitation to that very address.           *)
(***************************************************************************)
CONSTANTS People, Invites, None

VARIABLES book,     \* book[i] = [shown, kind, email] of invitation i
          joined,   \* the addresses that have had a membership
          owner     \* the address of the Organization's owner, or None

bookVars == <<book, joined, owner>>

Blank   == [shown |-> "ABSENT", kind |-> None, email |-> None]
Offered == [shown : {"PENDING"}, kind : {"INITIAL_OWNER", "COLLABORATOR"}, email : People]
Pending == {i \in Invites : book[i].shown = "PENDING"}

Init ==
  /\ \A i, j \in Pending : book[i].email = book[j].email => i = j
  /\ \A i \in Invites : book[i].shown = "ACCEPTED" => book[i].email \in joined
  /\ owner # None => owner \in joined

\* Pending invitations are revoked, and at most one is issued, to an address
\* that no other pending invitation awaits.
Change ==
  LET S == {i \in Pending : book'[i].shown = "REVOKED"}
      new == {i \in Invites : book[i] = Blank /\ book'[i] # Blank}
  IN /\ S \cup new # {}
     /\ \A i \in S : book'[i] = [book[i] EXCEPT !.shown = "REVOKED"]
     /\ \A i \in new : book'[i] \in Offered /\ new = {i}
                       /\ \A j \in Pending \ S : book[j].email # book'[i].email
     /\ \A i \in Invites \ (S \cup new) : book'[i] = book[i]
     /\ UNCHANGED <<joined, owner>>

\* Its addressee accepts invitation i; the first one makes the owner.
Accept(i) ==
  /\ book[i].shown = "PENDING"
  /\ book' = [book EXCEPT ![i].shown = "ACCEPTED"]
  /\ joined' = joined \cup {book[i].email}
  /\ IF book[i].kind = "INITIAL_OWNER"
     THEN owner = None /\ owner' = book[i].email
     ELSE UNCHANGED owner

Next == Change \/ \E i \in Invites : Accept(i)

Spec == Init /\ [][Next]_bookVars
=============================================================================
