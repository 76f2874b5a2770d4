---------------------------- MODULE CredentialBook ----------------------------
(***************************************************************************)
(* What the API promises about the password of one identity, with every    *)
(* transaction a single step: a reset link changes it once, while it is    *)
(* live, and a required change happens once.                               *)
(***************************************************************************)
EXTENDS Integers

CONSTANT Links

VARIABLES secret,      \* how often the password has been changed
          mustChange,  \* PasswordCredential.mustChangePassword
          links        \* links[t]: the state of the reset link t

bookVars == <<secret, mustChange, links>>

LinkStates == {"none", "live", "consumed", "invalidated"}

LiveLinks == {t \in Links : links[t] = "live"}

BookInit ==
  secret = 0 /\ mustChange \in BOOLEAN /\ links \in [Links -> {"none", "live"}]

\* A new link ends the ones its transaction saw; another one under way stays.
Issue(t) ==
  /\ links[t] = "none"
  /\ \E old \in SUBSET LiveLinks :
       links' = [u \in Links |-> IF u = t THEN "live" ELSE IF u \in old THEN "invalidated"
                                 ELSE links[u]]
  /\ UNCHANGED <<secret, mustChange>>

Change == secret' = secret + 1 /\ mustChange' = FALSE

Reset(t) == links[t] = "live" /\ links' = [links EXCEPT ![t] = "consumed"] /\ Change

CompleteRequired == mustChange /\ Change /\ UNCHANGED links

BookNext == (\E t \in Links : Issue(t) \/ Reset(t)) \/ CompleteRequired

BookSpec == BookInit /\ [][BookNext]_bookVars
=============================================================================
