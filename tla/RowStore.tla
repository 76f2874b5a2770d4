------------------------------ MODULE RowStore ------------------------------
(***************************************************************************)
(* The part of PostgreSQL every interactive Prisma transaction of the API  *)
(* runs on: READ COMMITTED, one statement at a time, row locks held to the *)
(* end of the transaction.                                                 *)
(*                                                                         *)
(* A row x has a committed value db[x].  An UPDATE locks it: lock[x] is    *)
(* the transaction that holds it, dirty[x] the value that transaction will *)
(* commit.  Reads take no lock and see db, or the reader's own dirty rows. *)
(* SELECT ... FOR SHARE adds the reader to share[x].                       *)
(* The transactions are named by the requests that run them.               *)
(***************************************************************************)

CONSTANTS Requests,  \* request slots of the API, each runs one transaction
          None       \* "no request", "no member", ...

VARIABLES db, dirty, lock, share

rowVars == <<db, dirty, lock, share>>

\* Every row starts committed and unlocked.
InitRows(rows) ==
  /\ db = rows
  /\ dirty = rows
  /\ lock = [x \in DOMAIN rows |-> None]
  /\ share = [x \in DOMAIN rows |-> {}]

\* What a SELECT of transaction r sees of row x.
See(r, x) == IF lock[x] = r THEN dirty[x] ELSE db[x]

Held(r) == {x \in DOMAIN lock : lock[x] = r}

\* The transactions r has to wait for before it may update row x.
Holders(r, x) == ({lock[x]} \cup share[x]) \ {None, r}

\* UPDATE: lock x and make v its uncommitted value.
Update(r, x, v) ==
  /\ lock' = [lock EXCEPT ![x] = r]
  /\ dirty' = [dirty EXCEPT ![x] = v]
  /\ UNCHANGED <<db, share>>

\* SELECT ... FOR SHARE of x.
LockShare(r, x) ==
  /\ share' = [share EXCEPT ![x] = @ \cup {r}]
  /\ UNCHANGED <<db, dirty, lock>>

Release(r) ==
  /\ lock' = [x \in DOMAIN lock |-> IF lock[x] = r THEN None ELSE lock[x]]
  /\ share' = [x \in DOMAIN share |-> share[x] \ {r}]

\* COMMIT installs every uncommitted value at once; ROLLBACK drops them.
CommitRows(r) ==
  /\ db' = [x \in DOMAIN db |-> See(r, x)]
  /\ UNCHANGED dirty
  /\ Release(r)

RollbackRows(r) ==
  /\ dirty' = [x \in DOMAIN dirty |-> IF lock[x] = r THEN db[x] ELSE dirty[x]]
  /\ UNCHANGED db
  /\ Release(r)

(***************************************************************************)
(* The rule of the store: a row nobody holds has no uncommitted value.     *)
(***************************************************************************)
CleanUnlocked == \A x \in DOMAIN lock : lock[x] = None => dirty[x] = db[x]
=============================================================================
