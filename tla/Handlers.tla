------------------------------ MODULE Handlers ------------------------------
(***************************************************************************)
(* Request handlers that walk through the SQL statements of a transaction, *)
(* one step per statement: req[r].pc names the statement request r runs    *)
(* next.  Statements of different requests interleave freely.              *)
(***************************************************************************)
EXTENDS Integers, FiniteSets, RowStore

VARIABLE req   \* the request slots

At(r, stage) == req[r].pc = stage

\* r's slot becomes q, or only its next statement changes.
Become(r, q) == req' = [req EXCEPT ![r] = q]
Goto(r, stage) == req' = [req EXCEPT ![r].pc = stage]

\* An UPDATE that leaves x's key alone waits for x's holder only; rows that
\* refer to x (FOR KEY SHARE, here share[x]) do not stop it.
Writer(r, x) == {lock[x]} \ {None, r}

\* PostgreSQL rolls back a transaction on a cycle of waits.
OnWaitCycle(r, Blockers(_)) ==
  Blockers(r) # {} /\ \E n \in 1..Cardinality(Requests) : \E c \in [0..n-1 -> Requests] :
    /\ c[0] = r
    /\ \A i \in 0..n-1 : c[(i + 1) % n] \in Blockers(c[i])
=============================================================================
