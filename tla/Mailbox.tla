------------------------------ MODULE Mailbox ------------------------------
(***************************************************************************)
(* What the transactional outbox promises of each message: it is stored    *)
(* once, mailed at most once, and then settled, DELIVERED or EXPIRED.      *)
(* DELIVERED is true: the message was mailed before.  It is final, while   *)
(* an EXPIRED message may still be mailed, and then recorded as DELIVERED, *)
(* by a call that was under way when it expired.                           *)
(***************************************************************************)
EXTENDS Naturals

CONSTANT Messages

VARIABLES box,   \* box[m]: the status of message m, "ABSENT" before it is stored
          mails  \* mails[m]: how many mails the provider has sent for it

mailboxVars == <<box, mails>>

Init ==
  /\ box = [m \in Messages |-> "ABSENT"]
  /\ mails = [m \in Messages |-> 0]

Pending == {m \in Messages : box[m] = "PENDING"}

\* One transaction: the new messages are stored, the pending ones in S expire.
Change(new, S) ==
  /\ \A m \in new : box[m] = "ABSENT"
  /\ S \subseteq Pending
  /\ box' = [m \in Messages |-> CASE m \in new -> "PENDING"
                                  [] m \in S -> "EXPIRED"
                                  [] OTHER -> box[m]]
  /\ UNCHANGED mails

Mail(m) ==
  /\ box[m] # "ABSENT" /\ mails[m] = 0
  /\ mails' = [mails EXCEPT ![m] = 1]
  /\ UNCHANGED box

Deliver(m) ==
  /\ box[m] \in {"PENDING", "EXPIRED"} /\ mails[m] = 1
  /\ box' = [box EXCEPT ![m] = "DELIVERED"]
  /\ UNCHANGED mails

Next ==
  \/ \E new, S \in SUBSET Messages : Change(new, S)
  \/ \E m \in Messages : Mail(m) \/ Deliver(m)

Spec == Init /\ [][Next]_mailboxVars
=============================================================================
