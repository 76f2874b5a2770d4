-------------------------- MODULE CredentialProofs --------------------------
(***************************************************************************)
(* Proofs about Credentials, for any requests, sessions, links, durations  *)
(* and bounds: types, revocation that is final, failures that are counted, *)
(* and the refinement of CredentialBook.                                   *)
(*                                                                         *)
(* Each part says first what a kind of step does (an UPDATE, a COMMIT, a   *)
(* statement that only reads), then goes through the actions.              *)
(***************************************************************************)
EXTENDS Credentials, TLAPS

(***************************************************************************)
(* Kinds of steps.                                                         *)
(***************************************************************************)
RowsOK == RowsTyped(db) /\ RowsTyped(dirty) /\ lock \in [Rows -> Requests \cup {None}]

\* A slot that is not counting a failure becomes q.
LEMMA SlotTyped ==
  ASSUME TypeOK, NEW r \in Requests, NEW q, q \in Slots, Shaped(q), ~At(r, "upsert"),
         Become(r, q), RowsOK', UNCHANGED advisory, now' \in Nat, begun' \in Nat
  PROVE  TypeOK'
<1>1. req' \in [Requests -> Slots] /\ \A s \in Requests : req'[s] = IF s = r THEN q ELSE req[s]
  BY DEF TypeOK, Become
<1>2. \A s \in Requests : Shaped(req'[s])
  BY <1>1 DEF TypeOK
<1>3. AdvisoryHeld'
  <2>1. advisory \in [Buckets -> Requests \cup {None}]
    BY DEF TypeOK, AdvisoryHeld
  <2>2. ASSUME NEW b \in Buckets, advisory[b] # None
        PROVE  req'[advisory[b]].bucket = b /\ req'[advisory[b]].pc = "upsert"
    <3>1. advisory[b] \in Requests /\ req[advisory[b]].bucket = b /\ req[advisory[b]].pc = "upsert"
      BY <2>1, <2>2 DEF TypeOK, AdvisoryHeld, At
    <3>2. advisory[b] # r
      BY <3>1 DEF At
    <3> QED  BY <1>1, <3>1, <3>2
  <2> QED  BY <2>1, <2>2 DEF AdvisoryHeld, At
<1> QED  BY <1>1, <1>2, <1>3 DEF TypeOK, RowsOK

\* The blank slot.
LEMMA WaitingTyped == Waiting \in Slots /\ Shaped(Waiting)
BY DEF Waiting, Slots, Shaped, Stages

LEMMA BecomeGoto ==
  ASSUME NEW r \in Requests, NEW stage, Goto(r, stage), req \in [Requests -> Slots]
  PROVE  Become(r, Stage(req[r], stage))
BY DEF Goto, Become, Stage

\* A slot moves on to a stage that asks for no row.
LEMMA StageTyped ==
  ASSUME NEW q \in Slots, NEW stage \in Stages,
         stage \notin {"find", "renew", "logout", "readLink", "claim", "failure", "upsert"}
  PROVE  Stage(q, stage) \in Slots /\ Shaped(Stage(q, stage))
BY DEF Stage, Slots, Shaped

LEMMA StoreTyped ==
  ASSUME TypeOK, NEW r \in Requests, NEW x \in Rows, NEW v, RowTyped(x, v), Store(r, x, v)
  PROVE  RowsOK'
<1>1. RowsTyped(db') 
  BY DEF TypeOK, RowsTyped, Store
<1>2. RowsTyped(dirty')
  BY DEF TypeOK, RowsTyped, Store
<1> QED  BY <1>1, <1>2 DEF TypeOK, RowsOK, RowsTyped, Store

LEMMA UpdateTyped ==
  ASSUME TypeOK, NEW r \in Requests, NEW x \in Rows, NEW v, RowTyped(x, v), Update(r, x, v)
  PROVE  RowsOK'
<1>1. RowsTyped(dirty')
  BY DEF TypeOK, RowsTyped, Update
<1> QED  BY <1>1 DEF TypeOK, RowsOK, RowsTyped, Update

LEMMA CommitTyped ==
  ASSUME TypeOK, NEW r \in Requests, CommitRows(r)
  PROVE  RowsOK'
<1>1. RowsTyped(db')
  BY DEF TypeOK, RowsTyped, CommitRows, See
<1>2. lock' \in [Rows -> Requests \cup {None}]
  BY DEF TypeOK, CommitRows, Release
<1> QED  BY <1>1, <1>2 DEF TypeOK, RowsOK, RowsTyped, CommitRows

LEMMA RollbackTyped ==
  ASSUME TypeOK, NEW r \in Requests, RollbackRows(r)
  PROVE  RowsOK'
<1>1. RowsTyped(dirty')
  BY DEF TypeOK, RowsTyped, RollbackRows
<1>2. lock' \in [Rows -> Requests \cup {None}]
  BY DEF TypeOK, RollbackRows, Release
<1> QED  BY <1>1, <1>2 DEF TypeOK, RowsOK, RowsTyped, RollbackRows

LEMMA RowsKept == ASSUME TypeOK, UNCHANGED rowVars PROVE RowsOK'
BY DEF TypeOK, RowsOK, rowVars, RowsTyped

\* A request ends, wherever it is.
LEMMA EndTyped ==
  ASSUME TypeOK, NEW r \in Requests, End(r)
  PROVE  TypeOK'
<1>1. RowsOK'
  BY RollbackTyped DEF End
<1>2. req' \in [Requests -> Slots] /\ \A s \in Requests : req'[s] = IF s = r THEN Waiting ELSE req[s]
  BY WaitingTyped DEF TypeOK, End, Become
<1>3. \A s \in Requests : Shaped(req'[s])
  BY <1>2, WaitingTyped DEF TypeOK
<1>4. AdvisoryHeld'
  <2>1. /\ advisory \in [Buckets -> Requests \cup {None}]
        /\ advisory' = [b \in Buckets |-> IF advisory[b] = r THEN None ELSE advisory[b]]
    BY DEF TypeOK, AdvisoryHeld, End
  <2>2. ASSUME NEW b \in Buckets, advisory'[b] # None
        PROVE  req'[advisory'[b]].bucket = b /\ req'[advisory'[b]].pc = "upsert"
    <3>1. advisory'[b] = advisory[b] /\ advisory[b] # r /\ advisory[b] \in Requests
      BY <2>1, <2>2
    <3> QED  BY <1>2, <3>1, <2>2 DEF TypeOK, AdvisoryHeld, At
  <2> QED  BY <2>1, <2>2 DEF AdvisoryHeld, At
<1> QED  BY <1>1, <1>2, <1>3, <1>4 DEF TypeOK, RowsOK, End

-----------------------------------------------------------------------------
(***************************************************************************)
(* The rows that are written.                                              *)
(***************************************************************************)
LEMMA Durations ==
  /\ Lock \in Nat /\ Lock > 0 /\ Idle \in Nat /\ Absolute \in Nat /\ LinkLife \in Nat
  /\ Idle <= Absolute /\ MaxFailures \in Nat
BY CredentialAssumption

LEMMA RowKinds ==
  /\ Credential \in Rows
  /\ Sessions \subseteq Rows /\ Links \subseteq Rows /\ Buckets \subseteq Rows
  /\ Credential \notin Sessions \cup Links \cup Buckets
  /\ Sessions \cap Links = {} /\ Sessions \cap Buckets = {} /\ Links \cap Buckets = {}
  /\ None \notin Requests
BY CredentialAssumption DEF Rows

LEMMA CredentialRow ==
  ASSUME NEW row \in [secret : Nat, mustChange : BOOLEAN]
  PROVE  RowTyped(Credential, [secret |-> row.secret + 1, mustChange |-> FALSE])
BY RowKinds DEF RowTyped

LEMMA SessionRow ==
  ASSUME NEW s \in Sessions, NEW row, RowTyped(s, row), NEW time \in Nat
  PROVE  /\ RowTyped(s, OpenSession(time)) /\ RowTyped(s, Revoked(row))
         /\ RowTyped(s, Renewed(row, time))
<1>1. row \in [state : {"none", "live", "revoked"}, expires : Nat, absolute : Nat]
      /\ row.expires <= row.absolute
  BY DEF RowTyped
<1>2. RowTyped(s, OpenSession(time))
  BY RowKinds, Durations DEF RowTyped, OpenSession
<1>3. RowTyped(s, Revoked(row))
  BY <1>1, RowKinds DEF RowTyped, Revoked
<1>4. RowTyped(s, Renewed(row, time))
  BY <1>1, RowKinds, Durations DEF RowTyped, Renewed, Earlier
<1> QED  BY <1>2, <1>3, <1>4

LEMMA LinkRow ==
  ASSUME NEW t \in Links, NEW row, RowTyped(t, row), NEW time \in Nat
  PROVE  /\ RowTyped(t, OpenLink(time)) /\ RowTyped(t, Consumed(row))
         /\ RowTyped(t, [row EXCEPT !.state = "invalidated"])
BY RowKinds, Durations DEF RowTyped, OpenLink, Consumed

LEMMA BucketRow ==
  ASSUME NEW b \in Buckets, NEW count \in Nat, NEW last \in Nat, NEW until \in Nat
  PROVE  RowTyped(b, [count |-> count, last |-> last, until |-> until])
BY RowKinds DEF RowTyped

LEMMA RowAt ==
  ASSUME TypeOK, NEW x \in Rows
  PROVE  RowTyped(x, db[x]) /\ RowTyped(x, dirty[x])
BY DEF TypeOK, RowsTyped
-----------------------------------------------------------------------------
(***************************************************************************)
(* Types: the actions.                                                     *)
(***************************************************************************)
LEMMA ContinueTyped ==
  ASSUME TypeOK, NEW r \in Requests, NEW q, q \in Slots, Shaped(q), ~At(r, "upsert"), Continue(r, q)
  PROVE  TypeOK'
<1>1. RowsOK'
  BY RowsKept DEF Continue
<1> QED  BY <1>1, SlotTyped DEF Continue, Rest, TypeOK

LEMMA WriteTyped ==
  ASSUME TypeOK, NEW r \in Requests, NEW x \in Rows, NEW v, RowTyped(x, v),
         NEW q, q \in Slots, Shaped(q), ~At(r, "upsert"), Write(r, x, v, q)
  PROVE  TypeOK'
<1>1. RowsOK'
  BY UpdateTyped DEF Write
<1> QED  BY <1>1, SlotTyped DEF Write, Rest, TypeOK

LEMMA StoredTyped ==
  ASSUME TypeOK, NEW r \in Requests, NEW x \in Rows, NEW v, RowTyped(x, v),
         NEW q, q \in Slots, Shaped(q), ~At(r, "upsert"), Store(r, x, v), Become(r, q), UNCHANGED Rest
  PROVE  TypeOK'
<1>1. RowsOK'
  BY StoreTyped
<1> QED  BY <1>1, SlotTyped DEF Rest, TypeOK

LEMMA BeginningTyped ==
  ASSUME TypeOK, NEW r \in Requests, BeginLogin(r) \/ BeginSession(r) \/ BeginReset(r)
  PROVE  TypeOK'
<1> DEFINE Called(call, op, stage) == [call EXCEPT !.op = op, !.pc = stage]
<1>1. ASSUME NEW op, NEW stage, NEW call, Begin(r, op, stage, call),
             op \in Ops => Called(call, op, stage) \in Slots /\ Shaped(Called(call, op, stage))
      PROVE  TypeOK'
  <2>1. op \in Ops /\ At(r, "idle") /\ Become(r, Called(call, op, stage)) /\ UNCHANGED <<advisory, now>>
        /\ begun' = begun + 1
    BY <1>1 DEF Begin
  <2>2. RowsOK'
    BY <1>1, RowsKept DEF Begin
  <2> QED  BY <1>1, <2>1, <2>2, SlotTyped DEF TypeOK, At
<1>2. CASE BeginLogin(r)
  <2>1. PICK given \in {db[Credential].secret, None} :
               Begin(r, "login", "isLocked", [Waiting EXCEPT !.given = given])
    BY <1>2 DEF BeginLogin
  <2>2. given \in Nat \cup {None}
    BY RowAt, RowKinds DEF RowTyped
  <2>3. "login" \in Ops => Called([Waiting EXCEPT !.given = given], "login", "isLocked") \in Slots
    BY <2>2 DEF Waiting, Slots, Stages
  <2>4. Shaped(Called([Waiting EXCEPT !.given = given], "login", "isLocked"))
    BY DEF Waiting, Shaped
  <2> QED  BY <1>1, <2>1, <2>3, <2>4
<1>3. CASE BeginSession(r)
  <2>1. PICK s \in Sessions :
          \/ \E op \in {"use", "completeRequired"} : Begin(r, op, "find", [Waiting EXCEPT !.session = s])
          \/ Begin(r, "logout", "logout", [Waiting EXCEPT !.session = s])
    BY <1>3 DEF BeginSession
  <2>2. \A op \in Ops : \A stage \in {"find", "logout"} :
          Called([Waiting EXCEPT !.session = s], op, stage) \in Slots
    BY DEF Waiting, Slots, Stages
  <2>3. \A op \in Ops : \A stage \in {"find", "logout"} :
          Shaped(Called([Waiting EXCEPT !.session = s], op, stage))
    BY DEF Waiting, Shaped
  <2> QED  BY <1>1, <2>1, <2>2, <2>3
<1>4. CASE BeginReset(r)
  <2>1. CASE Begin(r, "requestReset", "isLocked", Waiting)
    <3>1. "requestReset" \in Ops => Called(Waiting, "requestReset", "isLocked") \in Slots
      BY DEF Waiting, Slots, Stages
    <3>2. Shaped(Called(Waiting, "requestReset", "isLocked"))
      BY DEF Waiting, Shaped
    <3> QED  BY <1>1, <2>1, <3>1, <3>2
  <2>2. ASSUME NEW t \in Links,
               Begin(r, "reset", "readLink", [Waiting EXCEPT !.link = t, !.now = now])
        PROVE  TypeOK'
    <3>1. "reset" \in Ops
            => Called([Waiting EXCEPT !.link = t, !.now = now], "reset", "readLink") \in Slots
      BY DEF Waiting, Slots, Stages, TypeOK
    <3>2. Shaped(Called([Waiting EXCEPT !.link = t, !.now = now], "reset", "readLink"))
      BY DEF Waiting, Shaped
    <3> QED  BY <1>1, <2>2, <3>1, <3>2
  <2> QED  BY <1>4, <2>1, <2>2 DEF BeginReset
<1> QED  BY <1>2, <1>3, <1>4

\* What a slot goes on with.
LEMMA SlotAt ==
  ASSUME TypeOK, NEW r \in Requests
  PROVE  req[r] \in Slots /\ Shaped(req[r])
BY DEF TypeOK

LEMMA ThrottlingTyped ==
  ASSUME TypeOK, NEW r \in Requests, Throttling(r)
  PROVE  TypeOK'
<1> DEFINE q == req[r]
<1>0. q \in Slots /\ Shaped(q)
  BY SlotAt
<1> USE <1>0
<1>1. CASE IsLocked(r)
  <2>1. CASE End(r)
    BY <2>1, EndTyped
  <2>2. CASE Continue(r, Stage(q, "identity"))
    <3>1. Stage(q, "identity") \in Slots /\ Shaped(Stage(q, "identity"))
      BY StageTyped DEF Stages
    <3> QED  BY <1>1, <2>2, <3>1, ContinueTyped DEF IsLocked, At
  <2>3. CASE Continue(r, [q EXCEPT !.pc = "failure", !.todo = BucketsOf(q.op)])
    <3>1. [q EXCEPT !.pc = "failure", !.todo = BucketsOf(q.op)] \in Slots
      BY RowKinds DEF Slots, Stages, BucketsOf
    <3>2. Shaped([q EXCEPT !.pc = "failure", !.todo = BucketsOf(q.op)])
      BY DEF Slots, Shaped, BucketsOf
    <3> QED  BY <1>1, <2>3, <3>1, <3>2, ContinueTyped DEF IsLocked, At
  <2> QED  BY <1>1, <2>1, <2>2, <2>3 DEF IsLocked
<1>2. ASSUME NEW b \in Buckets, CountFailure(r, b)
      PROVE  TypeOK'
  <2> DEFINE c == Counted(q, b)
  <2>1. c \in Slots /\ c.pc = "upsert" /\ c.bucket = b
    <3>1. db[b] \in [count : Nat, last : Nat, until : Nat]
      BY RowAt, RowKinds DEF RowTyped
    <3>2. (IF Lapsed(db[b], now) THEN 0 ELSE db[b].count) + 1 \in Nat
      BY <3>1
    <3> QED  BY <3>1, <3>2 DEF Counted, Slots, Stages, TypeOK
  <2>2. RowsOK' /\ now' \in Nat /\ begun' \in Nat
    BY <1>2, RowsKept DEF CountFailure, TypeOK
  <2>3. \A s \in Requests : req'[s] = IF s = r THEN c ELSE req[s]
    BY <1>2 DEF CountFailure, Become, TypeOK
  <2>4. req' \in [Requests -> Slots] /\ \A s \in Requests : Shaped(req'[s])
    <3>1. Shaped(c)
      <4>1. q.todo \subseteq Buckets
        BY <1>2 DEF CountFailure, At, Shaped
      <4>2. c.todo \subseteq q.todo
        BY DEF Counted, Slots
      <4> QED  BY <2>1, <4>1, <4>2 DEF Shaped
    <3>2. req' = [req EXCEPT ![r] = c]
      BY <1>2 DEF CountFailure, Become
    <3> QED  BY <2>1, <2>3, <3>1, <3>2 DEF TypeOK
  <2>5. AdvisoryHeld'
    <3>1. /\ advisory \in [Buckets -> Requests \cup {None}]
          /\ advisory' = [advisory EXCEPT ![b] = r] /\ q.pc = "failure"
      BY <1>2 DEF TypeOK, AdvisoryHeld, CountFailure, At
    <3>2. ASSUME NEW d \in Buckets, advisory'[d] # None
          PROVE  req'[advisory'[d]].bucket = d /\ req'[advisory'[d]].pc = "upsert"
      <4>1. CASE d = b
        BY <2>1, <2>3, <3>1, <4>1
      <4>2. CASE d # b
        <5>1. advisory'[d] = advisory[d] /\ advisory[d] \in Requests
          BY <3>1, <3>2, <4>2
        <5>2. req[advisory[d]].bucket = d /\ req[advisory[d]].pc = "upsert"
          BY <3>2, <5>1 DEF TypeOK, AdvisoryHeld, At
        <5>3. advisory[d] # r
          BY <3>1, <5>2
        <5> QED  BY <2>3, <5>1, <5>2, <5>3
      <4> QED  BY <4>1, <4>2
    <3> QED  BY <3>1, <3>2 DEF AdvisoryHeld, At
  <2> QED  BY <2>2, <2>4, <2>5 DEF TypeOK, RowsOK
<1>3. CASE UpsertBucket(r)
  <2> DEFINE until == IF q.count >= MaxFailures THEN q.now + Lock ELSE q.until
             left == [Waiting EXCEPT !.op = q.op, !.todo = q.todo]
             row == IF db[q.bucket] = NoFailures
                    THEN [count |-> 1, last |-> q.now,
                          until |-> IF q.count >= MaxFailures THEN until ELSE 0]
                    ELSE [count |-> q.count, last |-> q.now, until |-> until]
             rest == CASE q.todo # {} -> Stage(left, "failure")
                       [] q.op = "login" -> Waiting
                       [] OTHER -> Stage(left, "findIdentity")
  <2>1. /\ q.pc = "upsert" /\ Store(r, q.bucket, row) /\ Become(r, rest)
        /\ advisory' = [advisory EXCEPT ![q.bucket] = None] /\ UNCHANGED <<now, begun>>
    BY <1>3 DEF UpsertBucket, At
  <2>2. q.bucket \in Buckets
    BY <2>1 DEF Shaped
  <2>3. RowTyped(q.bucket, row)
    <3>1. q.count \in Nat /\ q.now \in Nat /\ q.until \in Nat /\ until \in Nat
      BY Durations DEF Slots
    <3>2. row.count \in Nat /\ row.until \in Nat
             /\ row = [count |-> row.count, last |-> q.now, until |-> row.until]
      BY <3>1
    <3> HIDE DEF row
    <3> QED  BY <2>2, <3>1, <3>2, BucketRow
  <2>4. RowsOK'
    <3> HIDE DEF row
    <3> QED  BY <2>1, <2>2, <2>3, StoreTyped, RowKinds
  <2>5. rest \in Slots /\ Shaped(rest)
    <3>1. left \in Slots
      BY DEF Slots, Waiting, Stages
    <3>2. Stage(left, "failure") \in Slots /\ Shaped(Stage(left, "failure"))
      <4>1. q.todo \subseteq Buckets
        BY <2>1 DEF Shaped
      <4>2. Stage(left, "failure").pc = "failure" /\ Stage(left, "failure").todo = q.todo
        BY DEF Stage, Waiting
      <4>3. Stage(left, "failure") \in Slots
        BY <3>1 DEF Stage, Slots, Stages
      <4> QED  BY <4>1, <4>2, <4>3 DEF Shaped
    <3>3. Stage(left, "findIdentity") \in Slots /\ Shaped(Stage(left, "findIdentity"))
      BY <3>1, StageTyped DEF Stages
    <3> QED  BY <3>2, <3>3, WaitingTyped
  <2> HIDE DEF rest, row
  <2>6. \A s \in Requests : req'[s] = IF s = r THEN rest ELSE req[s]
    BY <2>1 DEF Become, TypeOK
  <2>7. req' \in [Requests -> Slots] /\ \A s \in Requests : Shaped(req'[s])
    <3>1. req' = [req EXCEPT ![r] = rest]
      BY <2>1 DEF Become
    <3> QED  BY <2>5, <2>6, <3>1 DEF TypeOK
  <2>8. AdvisoryHeld'
    <3>1. advisory \in [Buckets -> Requests \cup {None}]
      BY DEF TypeOK, AdvisoryHeld
    <3>2. ASSUME NEW d \in Buckets, advisory'[d] # None
          PROVE  req'[advisory'[d]].bucket = d /\ req'[advisory'[d]].pc = "upsert"
      <4>1. advisory'[d] = advisory[d] /\ d # q.bucket /\ advisory[d] \in Requests
        BY <2>1, <2>2, <3>1, <3>2
      <4>2. req[advisory[d]].bucket = d /\ req[advisory[d]].pc = "upsert"
        BY <3>2, <4>1 DEF TypeOK, AdvisoryHeld, At
      <4> QED  BY <2>6, <4>1, <4>2
    <3> QED  BY <2>1, <3>1, <3>2 DEF AdvisoryHeld, At
  <2> QED  BY <2>1, <2>4, <2>7, <2>8 DEF TypeOK, RowsOK
<1> QED  BY <1>1, <1>2, <1>3 DEF Throttling

\* A request that revokes sessions, from the password on.
LEMMA RevokingTyped ==
  ASSUME NEW q \in Slots, NEW stage \in {"sessions", "sweep"}, NEW todo \in SUBSET Sessions
  PROVE  /\ [q EXCEPT !.pc = stage, !.todo = todo] \in Slots
         /\ Shaped([q EXCEPT !.pc = stage, !.todo = todo])
         /\ [q EXCEPT !.pc = stage, !.todo = todo].pc = stage
<1>1. todo \in SUBSET Rows /\ stage \in Stages
  BY RowKinds DEF Stages
<1>2. PICK p : p = [q EXCEPT !.pc = stage, !.todo = todo]
  OBVIOUS
<1>3. p \in Slots /\ p.pc = stage
  BY <1>1, <1>2 DEF Slots
<1>4. Shaped(p)
  BY <1>3 DEF Shaped
<1> QED  BY <1>2, <1>3, <1>4

LEMMA ChangedTyped ==
  ASSUME NEW q \in Slots
  PROVE  Changed(q) \in Slots /\ Shaped(Changed(q)) /\ Changed(q).pc = "sessions"
<1>1. PICK todo \in SUBSET Sessions : todo = {}
  OBVIOUS
<1>2. Changed(q) = [q EXCEPT !.pc = "sessions", !.todo = todo]
  BY <1>1 DEF Changed
<1>3. PICK stage \in {"sessions", "sweep"} : stage = "sessions"
  OBVIOUS
<1>4. PICK p : p = [q EXCEPT !.pc = stage, !.todo = todo]
  OBVIOUS
<1>5. p \in Slots /\ Shaped(p) /\ p.pc = stage
  BY <1>4, RevokingTyped
<1> QED  BY <1>2, <1>3, <1>4, <1>5

LEMMA LoggingInTyped ==
  ASSUME TypeOK, NEW r \in Requests, LoggingIn(r)
  PROVE  TypeOK'
<1> DEFINE q == req[r]
<1>0. q \in Slots /\ Shaped(q)
  BY SlotAt
<1> USE <1>0, RowKinds
<1>1. CASE ReadIdentity(r)
  <2> DEFINE clear == [Waiting EXCEPT !.op = q.op, !.pc = "clear"]
             failure == [Waiting EXCEPT !.op = q.op, !.pc = "failure", !.todo = BucketsOf(q.op)]
  <2>1. clear \in Slots /\ Shaped(clear) /\ failure \in Slots /\ Shaped(failure)
    <3>1. BucketsOf(q.op) \in SUBSET Rows /\ {} \in SUBSET Rows
      BY DEF BucketsOf
    <3>2. q.op \in Ops \cup {None}
      BY DEF Slots
    <3>3. clear \in Slots
      BY <3>1, <3>2 DEF Slots, Waiting, Stages
    <3>4. failure \in Slots
      BY <3>1, <3>2 DEF Slots, Waiting, Stages
    <3>5. Shaped(clear)
      BY DEF Shaped, Waiting
    <3>6. Shaped(failure)
      BY DEF Shaped, Waiting, BucketsOf
    <3> QED  BY <3>3, <3>4, <3>5, <3>6
  <2>2. Continue(r, clear) \/ Continue(r, failure)
    BY <1>1 DEF ReadIdentity
  <2> QED  BY <1>1, <2>1, <2>2, ContinueTyped DEF ReadIdentity, At
<1>2. CASE ClearAccountFailures(r)
  <2>1. <<"login", "ACCOUNT">> \in Buckets
    BY DEF Buckets, Purposes
  <2>2. RowTyped(<<"login", "ACCOUNT">>, NoFailures)
    BY <2>1, BucketRow DEF NoFailures
  <2>3. Stage(q, "open") \in Slots /\ Shaped(Stage(q, "open")) /\ Become(r, Stage(q, "open"))
    BY <1>2, StageTyped, BecomeGoto DEF ClearAccountFailures, TypeOK, Stages
  <2> QED  BY <1>2, <2>1, <2>2, <2>3, StoredTyped DEF ClearAccountFailures, At
<1>3. CASE CreateSession(r)
  <2>1. PICK s \in Sessions : Store(r, s, OpenSession(now))
    BY <1>3 DEF CreateSession, Unused
  <2>2. RowTyped(s, OpenSession(now))
    BY SessionRow, RowAt DEF TypeOK
  <2> QED  BY <1>3, <2>1, <2>2, StoredTyped, WaitingTyped DEF CreateSession, At
<1>4. CASE FindSession(r)
  <2>1. CASE Continue(r, [q EXCEPT !.pc = "renew", !.now = now])
    <3>1. [q EXCEPT !.pc = "renew", !.now = now] \in Slots
      BY DEF Slots, Stages, TypeOK
    <3>2. Shaped([q EXCEPT !.pc = "renew", !.now = now])
      BY <1>4 DEF FindSession, At, Shaped, Slots
    <3> QED  BY <1>4, <2>1, <3>1, <3>2, ContinueTyped DEF FindSession, At
  <2> QED  BY <1>4, <2>1, EndTyped DEF FindSession
<1>5. CASE RenewSession(r)
  <2>1. ASSUME Store(r, q.session, Renewed(db[q.session], q.now)), Become(r, AfterRenewal(q)),
               UNCHANGED Rest
        PROVE  TypeOK'
    <3>1. q.session \in Sessions /\ q.now \in Nat
      BY <1>5 DEF RenewSession, At, Shaped, Slots
    <3>2. RowTyped(q.session, Renewed(db[q.session], q.now))
      BY <3>1, SessionRow, RowAt
    <3>3. AfterRenewal(q) \in Slots /\ Shaped(AfterRenewal(q))
      BY DEF AfterRenewal, Waiting, Slots, Shaped, Stages
    <3> QED  BY <1>5, <2>1, <3>1, <3>2, <3>3, StoredTyped DEF RenewSession, At
  <2> QED  BY <1>5, <2>1, EndTyped DEF RenewSession
<1>6. CASE Logout(r)
  <2>1. ASSUME Store(r, q.session, Revoked(db[q.session])), Become(r, Waiting), UNCHANGED Rest
        PROVE  TypeOK'
    <3>1. q.session \in Sessions
      BY <1>6 DEF Logout, At, Shaped
    <3>2. RowTyped(q.session, Revoked(db[q.session]))
      BY <3>1, SessionRow, RowAt
    <3> QED  BY <1>6, <2>1, <3>1, <3>2, StoredTyped, WaitingTyped DEF Logout, At
  <2> QED  BY <1>6, <2>1, EndTyped DEF Logout
<1>7. CASE RequiredChange(r)
  <2> DEFINE row == [secret |-> db[Credential].secret + 1, mustChange |-> FALSE]
  <2>1. CASE Write(r, Credential, row, Changed(q))
    <3>1. RowTyped(Credential, row)
      BY RowAt, CredentialRow DEF RowTyped
    <3>2. Changed(q) \in Slots /\ Shaped(Changed(q))
      BY ChangedTyped
    <3> HIDE DEF row
    <3> QED  BY <1>7, <2>1, <3>1, <3>2, WriteTyped DEF RequiredChange, At
  <2> QED  BY <1>7, <2>1, EndTyped DEF RequiredChange
<1>8. ASSUME NEW s \in Sessions, Sweep(r, s)
      PROVE  TypeOK'
  <2>1. RowTyped(s, Revoked(db[s]))
    BY SessionRow, RowAt DEF TypeOK
  <2>2. [q EXCEPT !.todo = @ \ {s}] \in Slots /\ Shaped([q EXCEPT !.todo = @ \ {s}])
    BY DEF Slots, Shaped
  <2> QED  BY <1>8, <2>1, <2>2, WriteTyped DEF Sweep, At
<1>9. CASE BeginSweep(r)
  <2>1. PICK todo \in SUBSET Sessions : Continue(r, [q EXCEPT !.pc = "sweep", !.todo = todo])
    BY <1>9 DEF BeginSweep
  <2> QED  BY <1>9, <2>1, RevokingTyped, ContinueTyped DEF BeginSweep, At
<1> QED  BY <1>1, <1>2, <1>3, <1>4, <1>5, <1>6, <1>7, <1>8, <1>9 DEF LoggingIn

LEMMA ResettingTyped ==
  ASSUME TypeOK, NEW r \in Requests, Resetting(r)
  PROVE  TypeOK'
<1> DEFINE q == req[r]
<1>0. q \in Slots /\ Shaped(q)
  BY SlotAt
<1> USE <1>0, RowKinds
<1>1. CASE FindIdentity(r)
  <2> DEFINE live == {t \in Links : LiveLink(db[t])}
  <2>1. live \in SUBSET Rows
    OBVIOUS
  <2>2. Continue(r, [q EXCEPT !.pc = "invalidate", !.todo = live])
    BY <1>1 DEF FindIdentity
  <2> HIDE DEF live
  <2>3. [q EXCEPT !.pc = "invalidate", !.todo = live] \in Slots
        /\ Shaped([q EXCEPT !.pc = "invalidate", !.todo = live])
    <3>1. [q EXCEPT !.pc = "invalidate", !.todo = live] \in Slots
      BY <2>1 DEF Slots, Stages
    <3> QED  BY <3>1 DEF Shaped, Slots
  <2> QED  BY <1>1, <2>2, <2>3, ContinueTyped DEF FindIdentity, At
<1>2. CASE IssueLink(r)
  <2>1. PICK t \in Links : Write(r, t, OpenLink(now), Stage(q, "commit"))
    BY <1>2 DEF IssueLink, Unused
  <2>2. RowTyped(t, OpenLink(now))
    BY LinkRow, RowAt DEF TypeOK
  <2>3. Stage(q, "commit") \in Slots /\ Shaped(Stage(q, "commit"))
    BY StageTyped DEF Stages
  <2> QED  BY <1>2, <2>1, <2>2, <2>3, WriteTyped DEF IssueLink, At
<1>3. CASE ReadLink(r)
  <2>1. CASE Continue(r, Stage(q, "claim"))
    <3>1. q.link \in Links
      BY <1>3 DEF ReadLink, At, Shaped
    <3>2. Stage(q, "claim") \in Slots /\ Shaped(Stage(q, "claim"))
      BY <3>1 DEF Stage, Slots, Shaped, Stages
    <3> QED  BY <1>3, <2>1, <3>2, ContinueTyped DEF ReadLink, At
  <2> QED  BY <1>3, <2>1, EndTyped DEF ReadLink
<1>4. CASE ClaimLink(r)
  <2>1. CASE Write(r, q.link, Consumed(db[q.link]), Stage(q, "password"))
    <3>1. q.link \in Links
      BY <1>4 DEF ClaimLink, At, Shaped
    <3>2. RowTyped(q.link, Consumed(db[q.link]))
      BY <3>1, LinkRow, RowAt DEF TypeOK
    <3>3. Stage(q, "password") \in Slots /\ Shaped(Stage(q, "password"))
      BY StageTyped DEF Stages
    <3> QED  BY <1>4, <2>1, <3>1, <3>2, <3>3, WriteTyped DEF ClaimLink, At
  <2> QED  BY <1>4, <2>1, EndTyped DEF ClaimLink
<1>5. CASE SetPassword(r)
  <2> DEFINE row == [secret |-> db[Credential].secret + 1, mustChange |-> FALSE]
  <2>1. RowTyped(Credential, row)
    BY RowAt, CredentialRow DEF RowTyped
  <2>2. Changed(q) \in Slots /\ Shaped(Changed(q))
    BY ChangedTyped
  <2>3. Write(r, Credential, row, Changed(q)) /\ ~At(r, "upsert")
    BY <1>5 DEF SetPassword, At
  <2> HIDE DEF row
  <2> QED  BY <2>1, <2>2, <2>3, WriteTyped
<1>6. ASSUME NEW t \in Links, Invalidate(r, t)
      PROVE  TypeOK'
  <2> DEFINE row == IF LiveLink(db[t]) THEN [db[t] EXCEPT !.state = "invalidated"] ELSE db[t]
  <2>1. RowTyped(t, row)
    BY LinkRow, RowAt DEF TypeOK
  <2>2. [q EXCEPT !.todo = @ \ {t}] \in Slots /\ Shaped([q EXCEPT !.todo = @ \ {t}])
    BY DEF Slots, Shaped
  <2>3. Write(r, t, row, [q EXCEPT !.todo = @ \ {t}]) /\ ~At(r, "upsert")
    BY <1>6 DEF Invalidate, At
  <2> HIDE DEF row
  <2> QED  BY <2>1, <2>2, <2>3, WriteTyped
<1> QED  BY <1>1, <1>2, <1>3, <1>4, <1>5, <1>6 DEF Resetting

LEMMA CommittingTyped ==
  ASSUME TypeOK, NEW r \in Requests, Commit(r)
  PROVE  TypeOK'
<1> DEFINE next == IF req[r].op = "completeRequired" THEN Stage(req[r], "open") ELSE Waiting
<1>1. next \in Slots /\ Shaped(next)
  BY SlotAt, StageTyped, WaitingTyped DEF Stages
<1>2. Become(r, next) /\ ~At(r, "upsert") /\ UNCHANGED Rest /\ RowsOK'
  BY CommitTyped DEF Commit, At
<1> HIDE DEF next
<1> QED  BY <1>1, <1>2, SlotTyped DEF Rest, TypeOK

LEMMA StutterTyped == ASSUME TypeOK, UNCHANGED vars PROVE TypeOK'
<1>1. RowsOK' /\ AdvisoryHeld'
  BY RowsKept DEF TypeOK, vars, AdvisoryHeld, At
<1> QED  BY <1>1 DEF TypeOK, RowsOK, vars

LEMMA InitTyped == Init => TypeOK
<1> SUFFICES ASSUME Init PROVE TypeOK
  OBVIOUS
<1> DEFINE Start(must, open) ==
      [x \in Rows |->
         CASE x = Credential -> [secret |-> 0, mustChange |-> must]
           [] x \in Sessions -> IF x \in open THEN OpenSession(0) ELSE NoSession
           [] x \in Links -> IF x \in open THEN OpenLink(0) ELSE NoLink
           [] OTHER -> NoFailures]
<1>1. PICK must \in BOOLEAN, open \in SUBSET (Sessions \cup Links) : InitRows(Start(must, open))
  BY DEF Init
<1>2. \A x \in Rows : RowTyped(x, Start(must, open)[x])
  <2>1. RowTyped(Credential, Start(must, open)[Credential])
    BY RowKinds DEF RowTyped
  <2>2. \A s \in Sessions : RowTyped(s, Start(must, open)[s])
    BY RowKinds, Durations DEF RowTyped, OpenSession, NoSession
  <2>3. \A t \in Links : RowTyped(t, Start(must, open)[t])
    BY RowKinds, Durations DEF RowTyped, OpenLink, NoLink
  <2>4. \A b \in Buckets : RowTyped(b, Start(must, open)[b])
    BY RowKinds DEF RowTyped, NoFailures
  <2> QED  BY <2>1, <2>2, <2>3, <2>4 DEF Rows
<1>3. DOMAIN Start(must, open) = Rows /\ Start(must, open) = [x \in Rows |-> Start(must, open)[x]]
  OBVIOUS
<1> HIDE DEF Start
<1>4. RowsTyped(db) /\ RowsTyped(dirty) /\ lock \in [Rows -> Requests \cup {None}]
  BY <1>1, <1>2, <1>3 DEF InitRows, RowsTyped
<1>5. req \in [Requests -> Slots] /\ \A r \in Requests : Shaped(req[r])
  BY WaitingTyped DEF Init
<1>6. AdvisoryHeld /\ now \in Nat /\ begun \in Nat
  BY DEF Init, AdvisoryHeld
<1> QED  BY <1>4, <1>5, <1>6 DEF TypeOK

LEMMA NextTyped == ASSUME TypeOK, [Next]_vars PROVE TypeOK'
<1>1. ASSUME NEW r \in Requests,
             \/ BeginLogin(r) \/ BeginSession(r) \/ BeginReset(r)
             \/ Throttling(r) \/ LoggingIn(r) \/ Resetting(r) \/ Commit(r) \/ Fail(r)
      PROVE  TypeOK'
  BY <1>1, BeginningTyped, ThrottlingTyped, LoggingInTyped, ResettingTyped, CommittingTyped,
     EndTyped DEF Fail
<1>2. CASE Tick
  <2>1. RowsOK' /\ AdvisoryHeld'
    BY <1>2, RowsKept DEF Tick, TypeOK, AdvisoryHeld, At
  <2> QED  BY <1>2, <2>1 DEF Tick, TypeOK, RowsOK
<1>3. CASE UNCHANGED vars
  BY <1>3, StutterTyped
<1> QED  BY <1>1, <1>2, <1>3 DEF Next, Quiescent

\* Rows, requests and advisory locks are what the code can put there, and no session
\* outlives its absolute expiry, whatever is renewed, revoked or rolled back.
THEOREM CredentialsTyped == Spec => []TypeOK
BY InitTyped, NextTyped, PTL DEF Spec
-----------------------------------------------------------------------------
(***************************************************************************)
(* What a step of r may do to the rows, to the slots and to the locks of   *)
(* buckets, unless it counts a failure.                                    *)
(***************************************************************************)
RowStep(r) ==
  \/ UNCHANGED rowVars
  \/ CommitRows(r)
  \/ RollbackRows(r)
  \/ \E x \in Rows \ Buckets : \E v :
       Update(r, x, v) /\ (x \in Sessions => v = Revoked(db[x]))
  \/ \E s \in Sessions : \E v :
       Store(r, s, v) /\ (db[s].state = "live" \/ dirty[s] = NoSession)
  \/ \E b \in Buckets : Store(r, b, NoFailures)

SlotStep(r) ==
  /\ \A s \in Requests \ {r} : req'[s] = req[s]
  /\ req'[r].pc # "upsert"
  /\ \A b \in Buckets : advisory[b] # r => advisory'[b] = advisory[b]

Plain(r) == RowStep(r) /\ SlotStep(r)

LEMMA BecomeStep ==
  ASSUME TypeOK, NEW r \in Requests, NEW q, q.pc # "upsert", Become(r, q), UNCHANGED advisory
  PROVE  SlotStep(r)
BY DEF TypeOK, Become, SlotStep

LEMMA ContinueStep ==
  ASSUME TypeOK, NEW r \in Requests, NEW q, q.pc # "upsert", Continue(r, q)
  PROVE  Plain(r)
BY BecomeStep DEF Continue, Plain, RowStep, Rest

LEMMA WriteStep ==
  ASSUME TypeOK, NEW r \in Requests, NEW x \in Rows \ Buckets, NEW v, NEW q, q.pc # "upsert",
         Write(r, x, v, q), x \in Sessions => v = Revoked(db[x])
  PROVE  Plain(r)
BY BecomeStep DEF Write, Plain, RowStep, Rest

LEMMA EndStep ==
  ASSUME TypeOK, NEW r \in Requests, End(r)
  PROVE  Plain(r)
BY DEF TypeOK, AdvisoryHeld, End, Become, Plain, RowStep, SlotStep, Waiting

LEMMA BeginningStep ==
  ASSUME TypeOK, NEW r \in Requests, BeginLogin(r) \/ BeginSession(r) \/ BeginReset(r)
  PROVE  Plain(r)
<1>1. ASSUME NEW op, NEW stage, NEW call, Begin(r, op, stage, call),
             [call EXCEPT !.op = op, !.pc = stage].pc # "upsert"
      PROVE  Plain(r)
  BY <1>1, BecomeStep DEF Begin, Plain, RowStep
<1>2. \A op : \A stage \in {"isLocked", "find", "logout", "readLink"} :
        /\ [Waiting EXCEPT !.op = op, !.pc = stage].pc # "upsert"
        /\ \A x : /\ [[Waiting EXCEPT !.given = x] EXCEPT !.op = op, !.pc = stage].pc # "upsert"
                  /\ [[Waiting EXCEPT !.session = x] EXCEPT !.op = op, !.pc = stage].pc # "upsert"
                  /\ [[Waiting EXCEPT !.link = x, !.now = now] EXCEPT !.op = op, !.pc = stage].pc
                       # "upsert"
  BY DEF Waiting
<1> QED  BY <1>1, <1>2 DEF BeginLogin, BeginSession, BeginReset

LEMMA LoggingInStep ==
  ASSUME TypeOK, NEW r \in Requests, LoggingIn(r)
  PROVE  Plain(r)
<1> DEFINE q == req[r]
<1>0. q \in Slots /\ Shaped(q)
  BY SlotAt
<1> USE <1>0, RowKinds
<1>1. CASE ReadIdentity(r)
  <2>1. [Waiting EXCEPT !.op = q.op, !.pc = "clear"].pc # "upsert"
        /\ [Waiting EXCEPT !.op = q.op, !.pc = "failure", !.todo = BucketsOf(q.op)].pc # "upsert"
    BY DEF Waiting
  <2> QED  BY <1>1, <2>1, ContinueStep DEF ReadIdentity
<1>2. CASE ClearAccountFailures(r)
  <2>1. <<"login", "ACCOUNT">> \in Buckets
    BY DEF Buckets, Purposes
  <2>2. Become(r, Stage(q, "open")) /\ Stage(q, "open").pc # "upsert"
    BY <1>2, BecomeGoto DEF ClearAccountFailures, TypeOK, Stage, Slots
  <2> QED  BY <1>2, <2>1, <2>2, BecomeStep DEF ClearAccountFailures, Plain, RowStep, Rest
<1>3. CASE CreateSession(r)
  <2>1. Waiting.pc # "upsert"
    BY DEF Waiting
  <2> QED  BY <1>3, <2>1, BecomeStep DEF CreateSession, Unused, Plain, RowStep, Rest
<1>4. CASE FindSession(r)
  <2>1. [q EXCEPT !.pc = "renew", !.now = now].pc # "upsert"
    BY DEF Slots
  <2> QED  BY <1>4, <2>1, ContinueStep, EndStep DEF FindSession
<1>5. CASE RenewSession(r)
  <2>1. AfterRenewal(q).pc # "upsert"
    BY DEF AfterRenewal, Waiting
  <2>2. q.session \in Sessions
    BY <1>5 DEF RenewSession, At, Shaped
  <2> QED  BY <1>5, <2>1, <2>2, BecomeStep, EndStep DEF RenewSession, Valid, Plain, RowStep, Rest
<1>6. CASE Logout(r)
  <2>1. Waiting.pc # "upsert"
    BY DEF Waiting
  <2>2. q.session \in Sessions
    BY <1>6 DEF Logout, At, Shaped
  <2> QED  BY <1>6, <2>1, <2>2, BecomeStep, EndStep DEF Logout, Plain, RowStep, Rest
<1>7. CASE RequiredChange(r)
  <2>1. Changed(q).pc # "upsert"
    BY ChangedTyped
  <2> QED  BY <1>7, <2>1, WriteStep, EndStep DEF RequiredChange
<1>8. ASSUME NEW s \in Sessions, Sweep(r, s)
      PROVE  Plain(r)
  <2>1. [q EXCEPT !.todo = @ \ {s}].pc # "upsert"
    BY <1>8 DEF Sweep, At, Slots
  <2> QED  BY <1>8, <2>1, WriteStep DEF Sweep
<1>9. CASE BeginSweep(r)
  <2>1. PICK todo : Continue(r, [q EXCEPT !.pc = "sweep", !.todo = todo])
    BY <1>9 DEF BeginSweep
  <2>2. [q EXCEPT !.pc = "sweep", !.todo = todo].pc # "upsert"
    BY DEF Slots
  <2> QED  BY <1>9, <2>1, <2>2, ContinueStep DEF BeginSweep
<1> QED  BY <1>1, <1>2, <1>3, <1>4, <1>5, <1>6, <1>7, <1>8, <1>9 DEF LoggingIn

LEMMA ResettingStep ==
  ASSUME TypeOK, NEW r \in Requests, Resetting(r)
  PROVE  Plain(r)
<1> DEFINE q == req[r]
<1>0. q \in Slots /\ Shaped(q)
  BY SlotAt
<1> USE <1>0, RowKinds
<1>1. \A stage \in {"commit", "claim", "password"} : Stage(q, stage).pc # "upsert"
  BY DEF Stage, Slots
<1>2. CASE FindIdentity(r)
  <2>1. [q EXCEPT !.pc = "invalidate", !.todo = {t \in Links : LiveLink(db[t])}].pc # "upsert"
    BY DEF Slots
  <2> QED  BY <1>2, <2>1, ContinueStep DEF FindIdentity
<1>3. CASE IssueLink(r)
  BY <1>1, <1>3, WriteStep DEF IssueLink, Unused
<1>4. CASE ReadLink(r)
  BY <1>1, <1>4, ContinueStep, EndStep DEF ReadLink
<1>5. CASE ClaimLink(r)
  <2>1. q.link \in Links
    BY <1>5 DEF ClaimLink, At, Shaped
  <2> QED  BY <1>1, <1>5, <2>1, WriteStep, EndStep DEF ClaimLink
<1>6. CASE SetPassword(r)
  <2>1. Changed(q).pc # "upsert"
    BY ChangedTyped
  <2> QED  BY <1>6, <2>1, WriteStep DEF SetPassword
<1>7. ASSUME NEW t \in Links, Invalidate(r, t)
      PROVE  Plain(r)
  <2>1. [q EXCEPT !.todo = @ \ {t}].pc # "upsert"
    BY <1>7 DEF Invalidate, At, Slots
  <2> QED  BY <1>7, <2>1, WriteStep DEF Invalidate
<1> QED  BY <1>2, <1>3, <1>4, <1>5, <1>6, <1>7 DEF Resetting

\* Every step is plain, or counts a failure.
LEMMA Steps ==
  ASSUME TypeOK, [Next]_vars
  PROVE  \/ UNCHANGED <<rowVars, req, advisory>>
         \/ \E r \in Requests :
              Plain(r) \/ UpsertBucket(r) \/ \E b \in Buckets : CountFailure(r, b)
<1>1. ASSUME NEW r \in Requests, IsLocked(r)
      PROVE  Plain(r)
  <2>1. req[r] \in Slots
    BY SlotAt
  <2>2. Stage(req[r], "identity").pc # "upsert"
        /\ [req[r] EXCEPT !.pc = "failure", !.todo = BucketsOf(req[r].op)].pc # "upsert"
    BY <2>1 DEF Stage, Slots
  <2> QED  BY <1>1, <2>2, ContinueStep, EndStep DEF IsLocked
<1>2. ASSUME NEW r \in Requests, Commit(r)
      PROVE  Plain(r)
  <2> DEFINE next == IF req[r].op = "completeRequired" THEN Stage(req[r], "open") ELSE Waiting
  <2>1. next.pc # "upsert"
    BY SlotAt DEF Stage, Slots, Waiting
  <2>2. Become(r, next) /\ CommitRows(r) /\ UNCHANGED Rest
    BY <1>2 DEF Commit
  <2> HIDE DEF next
  <2> QED  BY <2>1, <2>2, BecomeStep DEF Plain, RowStep, Rest
<1>3. ASSUME NEW r \in Requests,
             \/ BeginLogin(r) \/ BeginSession(r) \/ BeginReset(r)
             \/ Throttling(r) \/ LoggingIn(r) \/ Resetting(r) \/ Commit(r) \/ Fail(r)
      PROVE  Plain(r) \/ UpsertBucket(r) \/ \E b \in Buckets : CountFailure(r, b)
  BY <1>1, <1>2, <1>3, BeginningStep, LoggingInStep, ResettingStep, EndStep DEF Throttling, Fail
<1>4. CASE Tick \/ UNCHANGED vars
  BY <1>4 DEF Tick, vars
<1> QED  BY <1>3, <1>4 DEF Next, Quiescent
-----------------------------------------------------------------------------
(***************************************************************************)
(* Revocation.  A session row nobody holds has no uncommitted value, and   *)
(* an uncommitted value of a revoked one is the same revoked session: a    *)
(* sweep that reached it late has written what was there.                  *)
(***************************************************************************)
SessionsSafe ==
  \A s \in Sessions :
    /\ lock[s] = None => dirty[s] = db[s]
    /\ db[s].state = "revoked" => dirty[s] = db[s]

RevokedKept == \A s \in Sessions : db[s].state = "revoked" => db'[s] = db[s]

LEMMA SessionsInit == Init => SessionsSafe
BY RowKinds DEF Init, InitRows, SessionsSafe

LEMMA PlainSessions ==
  ASSUME TypeOK, SessionsSafe, NEW r \in Requests, RowStep(r)
  PROVE  SessionsSafe' /\ RevokedKept
<1> USE RowKinds
<1>0. DOMAIN db = Rows /\ DOMAIN dirty = Rows /\ DOMAIN lock = Rows
  BY DEF TypeOK, RowsTyped
<1>1. CASE UNCHANGED rowVars
  BY <1>1 DEF rowVars, SessionsSafe, RevokedKept
<1>2. CASE CommitRows(r)
  BY <1>0, <1>2 DEF CommitRows, Release, See, SessionsSafe, RevokedKept
<1>3. CASE RollbackRows(r)
  BY <1>0, <1>3 DEF RollbackRows, Release, SessionsSafe, RevokedKept
<1>4. ASSUME NEW x \in Rows \ Buckets, NEW v, Update(r, x, v), x \in Sessions => v = Revoked(db[x])
      PROVE  SessionsSafe' /\ RevokedKept
  <2>1. \A s \in Sessions : db[s].state = "revoked" => Revoked(db[s]) = db[s]
    BY DEF Revoked
  <2> QED  BY <1>0, <1>4, <2>1 DEF Update, SessionsSafe, RevokedKept
<1>5. ASSUME NEW t \in Sessions, NEW v, Store(r, t, v), db[t].state = "live" \/ dirty[t] = NoSession
      PROVE  SessionsSafe' /\ RevokedKept
  <2>1. db[t].state # "revoked"
    BY <1>5 DEF SessionsSafe, NoSession
  <2> QED  BY <1>0, <1>5, <2>1 DEF Store, SessionsSafe, RevokedKept
<1>6. ASSUME NEW b \in Buckets, NEW v, Store(r, b, v)
      PROVE  SessionsSafe' /\ RevokedKept
  BY <1>0, <1>6 DEF Store, SessionsSafe, RevokedKept
<1> QED  BY <1>1, <1>2, <1>3, <1>4, <1>5, <1>6 DEF RowStep

LEMMA SessionsNext ==
  ASSUME TypeOK, SessionsSafe, [Next]_vars
  PROVE  SessionsSafe' /\ RevokedKept
<1>1. ASSUME UNCHANGED rowVars
      PROVE  SessionsSafe' /\ RevokedKept
  BY <1>1 DEF rowVars, SessionsSafe, RevokedKept
<1>2. ASSUME NEW r \in Requests, UpsertBucket(r)
      PROVE  SessionsSafe' /\ RevokedKept
  <2>1. req[r].bucket \in Buckets
    BY <1>2, SlotAt DEF UpsertBucket, At, Shaped
  <2>2. PICK v : Store(r, req[r].bucket, v)
    BY <1>2 DEF UpsertBucket
  <2>3. DOMAIN db = Rows /\ DOMAIN dirty = Rows
    BY DEF TypeOK, RowsTyped
  <2> QED  BY <2>1, <2>2, <2>3, RowKinds DEF Store, SessionsSafe, RevokedKept
<1> QED  BY <1>1, <1>2, Steps, PlainSessions DEF Plain, CountFailure

\* A session that was revoked stays as it was, whatever renewal had read it before,
\* whichever sweep reaches it late (auth.repository.ts:51).
THEOREM RevocationIsFinal == Spec => RevokedForGood
<1>1. TypeOK /\ SessionsSafe /\ [Next]_vars
        => TypeOK' /\ SessionsSafe'
  BY NextTyped, SessionsNext
<1>2. TypeOK /\ SessionsSafe /\ [Next]_vars
        => [\A s \in Sessions : db[s].state = "revoked" => db'[s] = db[s]]_vars
  BY SessionsNext DEF RevokedKept
<1> QED  BY <1>1, <1>2, InitTyped, SessionsInit, PTL DEF Spec, RevokedForGood
-----------------------------------------------------------------------------
(***************************************************************************)
(* The throttle.  No transaction holds the row of a bucket, and what a     *)
(* request has counted under the advisory lock is still one more than the  *)
(* bucket has, unless a login has cleared it since.                        *)
(***************************************************************************)
BucketsFree == \A b \in Buckets : lock[b] = None

Counting(q) ==
  LET row == db[q.bucket] IN
  /\ q.count >= 1
  /\ row = NoFailures \/ q.count = (IF Lapsed(row, q.now) THEN 0 ELSE row.count) + 1

CountIsCurrent ==
  \A r \in Requests : req[r].pc = "upsert" => advisory[req[r].bucket] = r /\ Counting(req[r])

CountInv == BucketsFree /\ CountIsCurrent

LEMMA CountInit == Init => CountInv
BY RowKinds DEF Init, InitRows, CountInv, BucketsFree, CountIsCurrent, Waiting

\* A bucket's row changes only by being cleared, or by a count.
LEMMA PlainBuckets ==
  ASSUME TypeOK, BucketsFree, NEW r \in Requests, RowStep(r)
  PROVE  BucketsFree' /\ \A b \in Buckets : db'[b] \in {db[b], NoFailures}
<1> USE RowKinds
<1>0. DOMAIN db = Rows /\ DOMAIN dirty = Rows /\ DOMAIN lock = Rows
  BY DEF TypeOK, RowsTyped
<1>1. CASE UNCHANGED rowVars
  BY <1>1 DEF rowVars, BucketsFree
<1>2. CASE CommitRows(r)
  BY <1>0, <1>2 DEF CommitRows, Release, See, BucketsFree
<1>3. CASE RollbackRows(r)
  BY <1>0, <1>3 DEF RollbackRows, Release, BucketsFree
<1>4. ASSUME NEW x \in Rows \ Buckets, NEW v, Update(r, x, v)
      PROVE  BucketsFree' /\ \A b \in Buckets : db'[b] \in {db[b], NoFailures}
  BY <1>0, <1>4 DEF Update, BucketsFree
<1>5. ASSUME NEW t \in Sessions, NEW v, Store(r, t, v)
      PROVE  BucketsFree' /\ \A b \in Buckets : db'[b] \in {db[b], NoFailures}
  BY <1>0, <1>5 DEF Store, BucketsFree
<1>6. ASSUME NEW b \in Buckets, Store(r, b, NoFailures)
      PROVE  BucketsFree' /\ \A c \in Buckets : db'[c] \in {db[c], NoFailures}
  BY <1>0, <1>6 DEF Store, BucketsFree
<1> QED  BY <1>1, <1>2, <1>3, <1>4, <1>5, <1>6 DEF RowStep

LEMMA CountNext ==
  ASSUME TypeOK, CountInv, [Next]_vars
  PROVE  CountInv'
<1> USE RowKinds
<1>0. \A s \in Requests : req[s].pc = "upsert" => req[s].bucket \in Buckets
  BY DEF TypeOK, Shaped
<1>1. ASSUME UNCHANGED <<rowVars, req, advisory>>
      PROVE  CountInv'
  BY <1>1 DEF rowVars, CountInv, BucketsFree, CountIsCurrent, Counting
<1>2. ASSUME NEW r \in Requests, Plain(r)
      PROVE  CountInv'
  <2>1. BucketsFree' /\ \A b \in Buckets : db'[b] \in {db[b], NoFailures}
    BY <1>2, PlainBuckets DEF Plain, CountInv
  <2>2. ASSUME NEW s \in Requests, req'[s].pc = "upsert"
        PROVE  advisory'[req'[s].bucket] = s /\ Counting(req[s])'
    <3>1. s # r /\ req'[s] = req[s]
      BY <1>2, <2>2 DEF Plain, SlotStep
    <3>2. req[s].bucket \in Buckets /\ advisory[req[s].bucket] = s /\ Counting(req[s])
      BY <1>0, <2>2, <3>1 DEF CountInv, CountIsCurrent
    <3>3. advisory'[req[s].bucket] = s
      BY <1>2, <3>1, <3>2 DEF Plain, SlotStep
    <3>4. db'[req[s].bucket] \in {db[req[s].bucket], NoFailures}
      BY <2>1, <3>2
    <3> QED  BY <3>1, <3>2, <3>3, <3>4 DEF Counting
  <2> QED  BY <2>1, <2>2 DEF CountInv, CountIsCurrent
<1>3. ASSUME NEW r \in Requests, UpsertBucket(r)
      PROVE  CountInv'
  <2>1. PICK v : Store(r, req[r].bucket, v)
    BY <1>3 DEF UpsertBucket
  <2>2. req[r].bucket \in Buckets /\ req[r].pc = "upsert"
    BY <1>0, <1>3 DEF UpsertBucket, At
  <2>3. BucketsFree' /\ \A b \in Buckets : b # req[r].bucket => db'[b] = db[b]
    BY <2>1, <2>2 DEF Store, CountInv, BucketsFree, TypeOK, RowsTyped
  <2>4. req'[r].pc # "upsert" /\ \A s \in Requests : s # r => req'[s] = req[s]
    <3>1. \A q : Become(r, q) => req'[r] = q /\ \A s \in Requests : s # r => req'[s] = req[s]
      BY DEF Become, TypeOK
    <3>2. \A stage \in {"failure", "findIdentity"} :
             Stage([Waiting EXCEPT !.op = req[r].op, !.todo = req[r].todo], stage).pc # "upsert"
      BY DEF Stage, Waiting
    <3>3. Waiting.pc # "upsert"
      BY DEF Waiting
    <3> QED  BY <1>3, <3>1, <3>2, <3>3 DEF UpsertBucket
  <2>5. ASSUME NEW s \in Requests, req'[s].pc = "upsert"
        PROVE  advisory'[req'[s].bucket] = s /\ Counting(req[s])'
    <3>1. s # r /\ req'[s] = req[s]
      BY <2>4, <2>5
    <3>2. req[s].bucket \in Buckets /\ advisory[req[s].bucket] = s /\ Counting(req[s])
      BY <1>0, <2>5, <3>1 DEF CountInv, CountIsCurrent
    <3>3. req[s].bucket # req[r].bucket
      BY <2>2, <3>1, <3>2 DEF CountInv, CountIsCurrent
    <3>4. advisory'[req[s].bucket] = s
      BY <1>3, <3>2, <3>3 DEF UpsertBucket, TypeOK, AdvisoryHeld
    <3> QED  BY <2>3, <3>1, <3>2, <3>3, <3>4 DEF Counting
  <2> QED  BY <2>3, <2>5 DEF CountInv, CountIsCurrent
<1>4. ASSUME NEW r \in Requests, NEW b \in Buckets, CountFailure(r, b)
      PROVE  CountInv'
  <2> DEFINE c == Counted(req[r], b)
  <2>1. UNCHANGED rowVars /\ advisory[b] = None /\ advisory' = [advisory EXCEPT ![b] = r]
        /\ req' = [req EXCEPT ![r] = c]
    BY <1>4 DEF CountFailure, Become
  <2>2. BucketsFree'
    BY <2>1 DEF rowVars, CountInv, BucketsFree
  <2>3. c.bucket = b /\ c.now = now /\ c.count = (IF Lapsed(db[b], now) THEN 0 ELSE db[b].count) + 1
    BY SlotAt DEF Counted, Slots
  <2>4. db[b].count \in Nat
    BY RowAt DEF RowTyped
  <2>5. Counting(c)
    BY <2>3, <2>4 DEF Counting
  <2>6. ASSUME NEW s \in Requests, req'[s].pc = "upsert"
        PROVE  advisory'[req'[s].bucket] = s /\ Counting(req[s])'
    <3>1. CASE s = r
      <4>1. req'[s] = c /\ advisory'[b] = s
        BY <2>1, <3>1 DEF TypeOK, AdvisoryHeld
      <4>2. db' = db
        BY <2>1 DEF rowVars
      <4> QED  BY <2>3, <2>5, <4>1, <4>2 DEF Counting
    <3>2. CASE s # r
      <4>1. req'[s] = req[s]
        BY <2>1, <3>2 DEF TypeOK
      <4>2. req[s].bucket \in Buckets /\ advisory[req[s].bucket] = s /\ Counting(req[s])
        BY <1>0, <2>6, <4>1 DEF CountInv, CountIsCurrent
      <4>3. advisory'[req[s].bucket] = s
        BY <2>1, <4>2 DEF TypeOK, AdvisoryHeld
      <4> QED  BY <2>1, <4>1, <4>2, <4>3 DEF Counting, rowVars
    <3> QED  BY <3>1, <3>2
  <2> QED  BY <2>2, <2>6 DEF CountInv, CountIsCurrent
<1> QED  BY <1>1, <1>2, <1>3, <1>4, Steps

LEMMA UpsertCounts ==
  ASSUME TypeOK, CountInv, NEW r \in Requests, UpsertBucket(r)
  PROVE  LET q == req[r]
             row == db[q.bucket]
         IN /\ db'[q.bucket].count = (IF Lapsed(row, q.now) THEN 0 ELSE row.count) + 1
            /\ db'[q.bucket].count >= MaxFailures => db'[q.bucket].until > q.now
<1> DEFINE q == req[r]
           until == IF q.count >= MaxFailures THEN q.now + Lock ELSE q.until
           new == IF db[q.bucket] = NoFailures
                  THEN [count |-> 1, last |-> q.now,
                        until |-> IF q.count >= MaxFailures THEN until ELSE 0]
                  ELSE [count |-> q.count, last |-> q.now, until |-> until]
<1>1. Store(r, q.bucket, new) /\ q.pc = "upsert"
  BY DEF UpsertBucket, At
<1>2. q \in Slots /\ q.bucket \in Buckets /\ Counting(q)
  BY <1>1, SlotAt DEF Shaped, CountInv, CountIsCurrent
<1>3. q.count \in Nat /\ q.now \in Nat
  BY <1>2 DEF Slots
<1>4. db'[q.bucket] = new
  BY <1>1, <1>2, RowKinds DEF Store, TypeOK, RowsTyped
<1>5. CASE db[q.bucket] = NoFailures
  BY <1>2, <1>3, <1>4, <1>5, Durations DEF Counting, Lapsed
<1>6. CASE db[q.bucket] # NoFailures
  BY <1>2, <1>3, <1>4, <1>6, Durations DEF Counting
<1> QED  BY <1>5, <1>6

\* Each failed login or request for a link adds one to its buckets, and the last one
\* allowed locks them, however many are counted at once (auth.throttle.ts:46).
THEOREM FailuresAreCounted == Spec => FailuresCounted
<1> DEFINE Counts(r) ==
      LET q == req[r]
          row == db[q.bucket]
      IN /\ db'[q.bucket].count = (IF Lapsed(row, q.now) THEN 0 ELSE row.count) + 1
         /\ db'[q.bucket].count >= MaxFailures => db'[q.bucket].until > q.now
<1>1. TypeOK /\ CountInv /\ [Next]_vars => TypeOK' /\ CountInv'
  BY NextTyped, CountNext
<1>2. TypeOK /\ CountInv => [\A r \in Requests : UpsertBucket(r) => Counts(r)]_vars
  BY UpsertCounts
<1> QED  BY <1>1, <1>2, InitTyped, CountInit, PTL DEF Spec, FailuresCounted
-----------------------------------------------------------------------------
(***************************************************************************)
(* The refinement of CredentialBook.  What a transaction holds of the      *)
(* links and the credential says which step of the book its COMMIT is; a   *)
(* row somebody holds is committed by nobody else.                         *)
(***************************************************************************)
BookRows == Links \cup {Credential}
Revoking == {"sessions", "sweep"}
Busy     == {"invalidate", "commit", "password"} \cup Revoking

\* The link t as a transaction that ends links leaves it.
EndedLink(t) ==
  dirty[t].state = db[t].state \/ (db[t].state = "live" /\ dirty[t].state = "invalidated")

Ending(r) ==
  /\ req[r].todo \subseteq Links
  /\ \A t \in Links : lock[t] = r => EndedLink(t)
  /\ \A t \in Links : t \in req[r].todo => db[t].state # "none"

Issuing(r) ==
  \E n \in Links :
    /\ lock[n] = r /\ db[n].state = "none" /\ dirty[n].state = "live"
    /\ \A t \in Links \ {n} : lock[t] = r => EndedLink(t)

Claimed(r) ==
  LET t == req[r].link IN
  /\ t \in Links /\ lock[t] = r /\ db[t].state = "live" /\ dirty[t].state = "consumed"
  /\ \A u \in Links \ {t} : lock[u] # r

Changing(r) ==
  /\ lock[Credential] = r
  /\ req[r].todo \subseteq Sessions
  /\ dirty[Credential].secret = db[Credential].secret + 1
  /\ dirty[Credential].mustChange = FALSE
  /\ Claimed(r) \/ (db[Credential].mustChange /\ \A t \in Links : lock[t] # r)

BookSlot(r) ==
  LET q == req[r] IN
  /\ \A t \in Links : lock[t] = r => q.pc \in Busy /\ dirty[t].state # "none"
  /\ lock[Credential] = r => q.pc \in Revoking
  /\ q.pc = "invalidate" => Ending(r)
  /\ q.pc = "commit" => Issuing(r)
  /\ q.pc = "password" => Claimed(r)
  /\ q.pc \in Revoking => Changing(r)

LinksClean == \A t \in Links : lock[t] = None => dirty[t] = db[t]

BookIInv == LinksClean /\ \A r \in Requests : BookSlot(r)

\* A step of r leaves the other slots, and what they hold, alone; no link is unissued.
OthersKept(r) ==
  /\ \A s \in Requests \ {r} :
       /\ req'[s] = req[s]
       /\ \A x \in BookRows : /\ lock'[x] = s <=> lock[x] = s
                              /\ lock[x] = s => db'[x] = db[x] /\ dirty'[x] = dirty[x]
  /\ \A t \in Links : db[t].state # "none" => db'[t].state # "none"

BookStep == BookIInv' /\ [Book!BookNext]_(Book!bookVars)

LEMMA OtherSlots ==
  ASSUME TypeOK, BookIInv, NEW r \in Requests, OthersKept(r), NEW s \in Requests \ {r}
  PROVE  BookSlot(s)'
<1>0. /\ req'[s] = req[s]
      /\ \A x \in BookRows : /\ lock'[x] = s <=> lock[x] = s
                             /\ lock[x] = s => db'[x] = db[x] /\ dirty'[x] = dirty[x]
      /\ \A t \in Links : db[t].state # "none" => db'[t].state # "none"
      /\ BookSlot(s)
  BY DEF OthersKept, BookIInv
<1>1. Links \subseteq BookRows /\ Credential \in BookRows
  BY DEF BookRows
<1>2. Ending(s) => Ending(s)'
  BY <1>0, <1>1 DEF Ending, EndedLink
<1>3. Issuing(s) => Issuing(s)'
  BY <1>0, <1>1 DEF Issuing, EndedLink
<1>4. Claimed(s) => Claimed(s)'
  BY <1>0, <1>1 DEF Claimed
<1>5. Changing(s) => Changing(s)'
  BY <1>0, <1>1, <1>4 DEF Changing
<1> QED  BY <1>0, <1>1, <1>2, <1>3, <1>4, <1>5 DEF BookSlot, Revoking

\* A step that commits no row of the book is no step of the book.
LEMMA QuietStep ==
  ASSUME TypeOK, BookIInv, NEW r \in Requests, OthersKept(r), LinksClean', BookSlot(r)',
         \A x \in BookRows : db'[x] = db[x]
  PROVE  BookStep
<1>1. BookIInv'
  BY OtherSlots DEF BookIInv
<1>2. UNCHANGED Book!bookVars
  BY DEF Book!bookVars, BookRows
<1> QED  BY <1>1, <1>2 DEF BookStep

RowsOfBookKept ==
  \A x \in BookRows : lock'[x] = lock[x] /\ db'[x] = db[x] /\ dirty'[x] = dirty[x]

\* A step aside: neither before nor after it has r anything of the book.
LEMMA AsideStep ==
  ASSUME TypeOK, BookIInv, NEW r \in Requests, RowsOfBookKept,
         \A s \in Requests \ {r} : req'[s] = req[s],
         req[r].pc \notin Busy, req'[r].pc \notin Busy
  PROVE  BookStep
<1>1. OthersKept(r) /\ LinksClean'
  BY DEF OthersKept, RowsOfBookKept, BookRows, BookIInv, LinksClean
<1>2. BookSlot(r)'
  <2>1. \A x \in BookRows : lock[x] # r
    BY DEF BookIInv, BookSlot, BookRows, Busy, Revoking
  <2> QED  BY <2>1 DEF BookSlot, RowsOfBookKept, BookRows, Busy, Revoking
<1> QED  BY <1>1, <1>2, QuietStep DEF RowsOfBookKept

LEMMA RollbackStep ==
  ASSUME TypeOK, BookIInv, NEW r \in Requests, End(r)
  PROVE  BookStep
<1> USE RowKinds
<1>1. BookRows \subseteq Rows /\ DOMAIN db = Rows /\ DOMAIN dirty = Rows /\ DOMAIN lock = Rows
  BY DEF BookRows, TypeOK, RowsTyped
<1>2. /\ db' = db
      /\ \A x \in BookRows : /\ lock'[x] = IF lock[x] = r THEN None ELSE lock[x]
                             /\ dirty'[x] = IF lock[x] = r THEN db[x] ELSE dirty[x]
  BY <1>1 DEF End, RollbackRows, Release
<1>3. req'[r] = Waiting /\ \A s \in Requests \ {r} : req'[s] = req[s]
  BY DEF TypeOK, End, Become
<1>4. OthersKept(r)
  BY <1>2, <1>3 DEF OthersKept
<1>5. LinksClean'
  BY <1>2 DEF LinksClean, BookIInv, BookRows
<1>6. BookSlot(r)'
  BY <1>2, <1>3 DEF BookSlot, BookRows, Waiting, Busy, Revoking
<1> QED  BY <1>2, <1>4, <1>5, <1>6, QuietStep
LEMMA HoldStep ==
  ASSUME TypeOK, BookIInv, NEW r \in Requests, NEW x \in BookRows, NEW v, NEW q,
         lock[x] \in {None, r}, Write(r, x, v, q)
  PROVE  /\ OthersKept(r) /\ LinksClean' /\ db' = db /\ req'[r] = q
         /\ \A y \in BookRows : /\ lock'[y] = IF y = x THEN r ELSE lock[y]
                                /\ dirty'[y] = IF y = x THEN v ELSE dirty[y]
<1> USE RowKinds
<1>1. BookRows \subseteq Rows /\ DOMAIN dirty = Rows /\ DOMAIN lock = Rows
  BY DEF BookRows, TypeOK, RowsTyped
<1>2. /\ db' = db
      /\ \A y \in BookRows : /\ lock'[y] = IF y = x THEN r ELSE lock[y]
                             /\ dirty'[y] = IF y = x THEN v ELSE dirty[y]
  BY <1>1 DEF Write, Update
<1>3. req'[r] = q /\ \A s \in Requests \ {r} : req'[s] = req[s]
  BY DEF Write, Become, TypeOK
<1>4. OthersKept(r)
  BY <1>2, <1>3 DEF OthersKept
<1>5. LinksClean'
  BY <1>2 DEF LinksClean, BookIInv, BookRows
<1> QED  BY <1>2, <1>3, <1>4, <1>5

\* Nobody but r writes x.
LEMMA WriterFree ==
  ASSUME TypeOK, NEW r \in Requests, NEW x \in Rows, Writer(r, x) = {}
  PROVE  lock[x] \in {None, r}
BY DEF Writer, TypeOK

LEMMA FindIdentityStep ==
  ASSUME TypeOK, BookIInv, NEW r \in Requests, FindIdentity(r)
  PROVE  BookStep
<1> DEFINE live == {t \in Links : LiveLink(db[t])}
           q == [req[r] EXCEPT !.pc = "invalidate", !.todo = live]
<1>1. UNCHANGED rowVars /\ Become(r, q) /\ req[r].pc = "findIdentity"
  BY DEF FindIdentity, Continue, At
<1>2. q.pc = "invalidate" /\ q.todo = live
  BY SlotAt DEF Slots
<1>3. req'[r] = q /\ \A s \in Requests \ {r} : req'[s] = req[s]
  BY <1>1 DEF Become, TypeOK
<1>4. \A x \in BookRows : lock[x] # r
  BY <1>1 DEF BookIInv, BookSlot, BookRows, Busy, Revoking
<1>5. OthersKept(r) /\ LinksClean'
  BY <1>1, <1>3 DEF OthersKept, BookIInv, LinksClean, rowVars
<1>6. BookSlot(r)'
  <2>1. Ending(r)'
    BY <1>1, <1>2, <1>3, <1>4 DEF Ending, LiveLink, rowVars, BookRows
  <2> QED  BY <1>1, <1>2, <1>3, <1>4, <2>1 DEF BookSlot, rowVars, BookRows, Revoking
<1> QED  BY <1>1, <1>5, <1>6, QuietStep DEF rowVars

LEMMA InvalidateStep ==
  ASSUME TypeOK, BookIInv, NEW r \in Requests, NEW t \in Links, Invalidate(r, t)
  PROVE  BookStep
<1> USE RowKinds
<1> DEFINE v == IF LiveLink(db[t]) THEN [db[t] EXCEPT !.state = "invalidated"] ELSE db[t]
           q == [req[r] EXCEPT !.todo = @ \ {t}]
<1>1. req[r].pc = "invalidate" /\ t \in req[r].todo /\ lock[t] \in {None, r} /\ Write(r, t, v, q)
  BY WriterFree DEF Invalidate, At
<1>2. t \in BookRows /\ Links \subseteq BookRows /\ Credential \in BookRows
  BY DEF BookRows
<1>3. q.pc = "invalidate" /\ q.todo \subseteq req[r].todo
  BY <1>1, SlotAt DEF Slots
<1>4. lock[Credential] # r /\ Ending(r)
      /\ \A u \in Links : lock[u] = r => dirty[u].state # "none"
  BY <1>1 DEF BookIInv, BookSlot, Revoking
<1>5. db[t].state # "none" /\ v.state # "none"
      /\ (v.state = db[t].state \/ (db[t].state = "live" /\ v.state = "invalidated"))
  <2>1. db[t] \in [state : {"none", "live", "consumed", "invalidated"}, expires : Nat]
    BY RowAt DEF RowTyped
  <2> QED  BY <1>1, <1>4, <2>1 DEF Ending, LiveLink
<1> HIDE DEF v, q
<1>6. /\ OthersKept(r) /\ LinksClean' /\ db' = db /\ req'[r] = q
      /\ \A y \in BookRows : /\ lock'[y] = IF y = t THEN r ELSE lock[y]
                             /\ dirty'[y] = IF y = t THEN v ELSE dirty[y]
  BY <1>1, <1>2, HoldStep
<1>7. Ending(r)'
  BY <1>2, <1>3, <1>4, <1>5, <1>6 DEF Ending, EndedLink
<1>8. BookSlot(r)'
  BY <1>2, <1>3, <1>4, <1>5, <1>6, <1>7 DEF BookSlot, Busy, Revoking
<1> QED  BY <1>6, <1>8, QuietStep

LEMMA IssueLinkStep ==
  ASSUME TypeOK, BookIInv, NEW r \in Requests, IssueLink(r)
  PROVE  BookStep
<1> USE RowKinds
<1> DEFINE v == OpenLink(now)
           q == Stage(req[r], "commit")
<1>1. req[r].pc = "invalidate"
  BY DEF IssueLink, At
<1>2. PICK n \in Links : dirty[n] = NoLink /\ Write(r, n, v, q)
  BY DEF IssueLink, Unused
<1>3. n \in BookRows /\ Links \subseteq BookRows /\ Credential \in BookRows
  BY DEF BookRows
<1>4. lock[n] = None /\ db[n].state = "none"
  <2>1. lock[n] \in Requests \cup {None}
    BY DEF TypeOK
  <2>2. dirty[n].state = "none"
    BY <1>2 DEF NoLink
  <2>3. lock[n] \notin Requests
    BY <2>2 DEF BookIInv, BookSlot, Revoking
  <2> QED  BY <2>1, <2>2, <2>3 DEF BookIInv, LinksClean
<1>5. lock[Credential] # r /\ Ending(r)
      /\ \A u \in Links : lock[u] = r => dirty[u].state # "none"
  BY <1>1 DEF BookIInv, BookSlot, Revoking
<1>6. v.state = "live" /\ q.pc = "commit"
  BY SlotAt DEF OpenLink, Stage, Slots
<1> HIDE DEF v, q
<1>7. /\ OthersKept(r) /\ LinksClean' /\ db' = db /\ req'[r] = q
      /\ \A y \in BookRows : /\ lock'[y] = IF y = n THEN r ELSE lock[y]
                             /\ dirty'[y] = IF y = n THEN v ELSE dirty[y]
  BY <1>2, <1>3, <1>4, HoldStep
<1>8. Issuing(r)'
  BY <1>3, <1>4, <1>5, <1>6, <1>7 DEF Issuing, Ending, EndedLink
<1>9. BookSlot(r)'
  BY <1>3, <1>5, <1>6, <1>7, <1>8 DEF BookSlot, Busy, Revoking
<1> QED  BY <1>7, <1>9, QuietStep

LEMMA ClaimLinkStep ==
  ASSUME TypeOK, BookIInv, NEW r \in Requests, ClaimLink(r)
  PROVE  BookStep
<1> USE RowKinds
<1> DEFINE t == req[r].link
           v == Consumed(db[t])
           q == Stage(req[r], "password")
<1>1. CASE End(r)
  BY <1>1, RollbackStep
<1>2. CASE LiveLink(db[t]) /\ Writer(r, t) = {} /\ Write(r, t, v, q)
  <2>1. req[r].pc = "claim" /\ t \in Links
    BY SlotAt DEF ClaimLink, At, Shaped
  <2>2. t \in BookRows /\ Links \subseteq BookRows /\ Credential \in BookRows
    BY <2>1 DEF BookRows
  <2>3. lock[t] \in {None, r} /\ \A x \in BookRows : lock[x] # r
    BY <1>2, <2>1, WriterFree DEF BookIInv, BookSlot, BookRows, Busy, Revoking
  <2>4. v.state = "consumed" /\ q.pc = "password" /\ q.link = t /\ db[t].state = "live"
    <3>1. db[t] \in [state : {"none", "live", "consumed", "invalidated"}, expires : Nat]
      BY <2>1, RowAt DEF RowTyped
    <3> QED  BY <1>2, <3>1, SlotAt DEF Consumed, Stage, Slots, LiveLink
  <2> HIDE DEF v, q, t
  <2>5. /\ OthersKept(r) /\ LinksClean' /\ db' = db /\ req'[r] = q
        /\ \A y \in BookRows : /\ lock'[y] = IF y = t THEN r ELSE lock[y]
                               /\ dirty'[y] = IF y = t THEN v ELSE dirty[y]
    BY <1>2, <2>2, <2>3, HoldStep
  <2>6. Claimed(r)'
    BY <2>1, <2>2, <2>3, <2>4, <2>5 DEF Claimed
  <2>7. BookSlot(r)'
    BY <2>1, <2>2, <2>3, <2>4, <2>5, <2>6 DEF BookSlot, Busy, Revoking
  <2> QED  BY <2>5, <2>7, QuietStep
<1> QED  BY <1>1, <1>2 DEF ClaimLink, Usable
\* The UPDATE of the password, by whoever may make it.
LEMMA PasswordStep ==
  ASSUME TypeOK, BookIInv, NEW r \in Requests, Writer(r, Credential) = {},
         Write(r, Credential, [secret |-> db[Credential].secret + 1, mustChange |-> FALSE],
               Changed(req[r])),
         \/ req[r].pc = "password"
         \/ req[r].pc \notin Busy /\ db[Credential].mustChange
  PROVE  BookStep
<1> USE RowKinds
<1> DEFINE v == [secret |-> db[Credential].secret + 1, mustChange |-> FALSE]
           q == Changed(req[r])
<1>1. Links \subseteq BookRows /\ Credential \in BookRows /\ lock[Credential] \in {None, r}
  BY WriterFree DEF BookRows
<1>2. q.pc = "sessions" /\ q.link = req[r].link /\ q.todo \subseteq Sessions
  BY SlotAt DEF Changed, Slots
<1>3. v.secret = db[Credential].secret + 1 /\ v.mustChange = FALSE
  OBVIOUS
<1> HIDE DEF v
<1>4. Write(r, Credential, v, q)
  BY DEF v
<1> HIDE DEF q
<1>5. /\ OthersKept(r) /\ LinksClean' /\ db' = db /\ req'[r] = q
      /\ \A y \in BookRows : /\ lock'[y] = IF y = Credential THEN r ELSE lock[y]
                             /\ dirty'[y] = IF y = Credential THEN v ELSE dirty[y]
  BY <1>1, <1>4, HoldStep
<1>6. /\ req[r].pc = "password" => Claimed(r)
      /\ req[r].pc \notin Busy => \A t \in Links : lock[t] # r
      /\ \A t \in Links : lock[t] = r => dirty[t].state # "none"
  BY DEF BookIInv, BookSlot, Revoking
<1>7. Claimed(r) => Claimed(r)'
  BY <1>1, <1>2, <1>5 DEF Claimed
<1>8. Changing(r)'
  <2>1. lock'[Credential] = r /\ req'[r].todo \subseteq Sessions
    BY <1>1, <1>2, <1>5
  <2>2. /\ dirty'[Credential].secret = db'[Credential].secret + 1
        /\ dirty'[Credential].mustChange = FALSE
    BY <1>1, <1>3, <1>5
  <2>3. Claimed(r)' \/ (db'[Credential].mustChange /\ \A t \in Links : lock'[t] # r)
    BY <1>1, <1>5, <1>6, <1>7
  <2> QED  BY <2>1, <2>2, <2>3 DEF Changing
<1>9. BookSlot(r)'
  BY <1>1, <1>2, <1>5, <1>6, <1>8 DEF BookSlot, Busy, Revoking
<1> QED  BY <1>5, <1>9, QuietStep

\* A transaction that changes the password goes on with its sessions.
LEMMA RevokingStep ==
  ASSUME TypeOK, BookIInv, NEW r \in Requests, RowsOfBookKept, req[r].pc \in Revoking,
         \A u \in Requests \ {r} : req'[u] = req[u],
         req'[r].pc \in Revoking, req'[r].link = req[r].link, req'[r].todo \subseteq Sessions
  PROVE  BookStep
<1> USE RowKinds
<1>1. OthersKept(r) /\ LinksClean'
  BY DEF OthersKept, RowsOfBookKept, BookRows, BookIInv, LinksClean
<1>2. Links \subseteq BookRows /\ Credential \in BookRows /\ BookSlot(r)
  BY DEF BookRows, BookIInv
<1>3. Claimed(r) => Claimed(r)'
  BY <1>2 DEF Claimed, RowsOfBookKept
<1>4. Changing(r)'
  <2>1. Changing(r)
    BY <1>2 DEF BookSlot, Revoking
  <2> QED  BY <1>2, <1>3, <2>1 DEF Changing, RowsOfBookKept
<1>5. BookSlot(r)'
  BY <1>2, <1>4 DEF BookSlot, RowsOfBookKept, Busy, Revoking
<1> QED  BY <1>1, <1>5, QuietStep DEF RowsOfBookKept

LEMMA BeginSweepStep ==
  ASSUME TypeOK, BookIInv, NEW r \in Requests, BeginSweep(r)
  PROVE  BookStep
<1>1. PICK todo \in SUBSET Sessions : Become(r, [req[r] EXCEPT !.pc = "sweep", !.todo = todo])
  BY DEF BeginSweep, Continue
<1>2. RowsOfBookKept /\ req[r].pc = "sessions"
  BY DEF BeginSweep, Continue, At, rowVars, RowsOfBookKept
<1>3. /\ \A u \in Requests \ {r} : req'[u] = req[u]
      /\ req'[r].pc = "sweep" /\ req'[r].link = req[r].link /\ req'[r].todo = todo
  BY <1>1, SlotAt DEF Become, TypeOK, Slots
<1> QED  BY <1>2, <1>3, RevokingStep DEF Revoking

\* The UPDATE of a session.
LEMMA SweepStep ==
  ASSUME TypeOK, BookIInv, NEW r \in Requests, NEW s \in Sessions, Sweep(r, s)
  PROVE  BookStep
<1> USE RowKinds
<1>1. /\ req[r].pc = "sweep" /\ Update(r, s, Revoked(db[s]))
      /\ Become(r, [req[r] EXCEPT !.todo = @ \ {s}])
  BY DEF Sweep, At, Write
<1>2. RowsOfBookKept
  BY <1>1 DEF Update, RowsOfBookKept, BookRows, TypeOK, RowsTyped
<1>3. /\ \A u \in Requests \ {r} : req'[u] = req[u]
      /\ req'[r].pc = "sweep" /\ req'[r].link = req[r].link
      /\ req'[r].todo \subseteq req[r].todo
  BY <1>1, SlotAt DEF Become, TypeOK, Slots
<1>4. req[r].todo \subseteq Sessions
  BY <1>1 DEF BookIInv, BookSlot, Changing, Revoking
<1> QED  BY <1>1, <1>2, <1>3, <1>4, RevokingStep DEF Revoking

\* COMMIT: a new link, a reset, or a required change.
LEMMA CommitStep ==
  ASSUME TypeOK, BookIInv, NEW r \in Requests, Commit(r)
  PROVE  BookStep
<1> USE RowKinds
<1> DEFINE next == IF req[r].op = "completeRequired" THEN Stage(req[r], "open") ELSE Waiting
<1>1. Links \subseteq BookRows /\ Credential \in BookRows
  BY DEF BookRows
<1>2. BookRows \subseteq Rows /\ DOMAIN db = Rows /\ DOMAIN lock = Rows
  BY DEF BookRows, TypeOK, RowsTyped
<1>3. /\ req[r].pc \in {"commit", "sweep"} /\ CommitRows(r) /\ Become(r, next)
  BY DEF Commit, At
<1>4. next.pc \notin Busy
  BY SlotAt DEF Stage, Slots, Waiting, Busy, Revoking
<1> HIDE DEF next
<1>5. /\ dirty' = dirty
      /\ \A x \in BookRows : /\ lock'[x] = IF lock[x] = r THEN None ELSE lock[x]
                             /\ db'[x] = IF lock[x] = r THEN dirty[x] ELSE db[x]
  BY <1>2, <1>3 DEF CommitRows, Release, See
<1>6. req'[r] = next /\ \A s \in Requests \ {r} : req'[s] = req[s]
  BY <1>3 DEF Become, TypeOK
<1>7. OthersKept(r)
  <2>1. \A t \in Links : lock[t] = r => dirty[t].state # "none"
    BY DEF BookIInv, BookSlot, Revoking
  <2> QED  BY <1>1, <1>5, <1>6, <2>1 DEF OthersKept
<1>8. LinksClean'
  BY <1>1, <1>5 DEF LinksClean, BookIInv
<1>9. BookSlot(r)'
  BY <1>1, <1>4, <1>5, <1>6 DEF BookSlot, Busy, Revoking
<1>10. BookIInv'
  BY <1>7, <1>8, <1>9, OtherSlots DEF BookIInv
<1>11. Book!BookNext
  <2>1. CASE req[r].pc = "commit"
    <3>1. Issuing(r) /\ lock[Credential] # r
      BY <2>1 DEF BookIInv, BookSlot, Revoking
    <3>2. PICK n \in Links :
            /\ lock[n] = r /\ db[n].state = "none" /\ dirty[n].state = "live"
            /\ \A t \in Links \ {n} : lock[t] = r => EndedLink(t)
      BY <3>1 DEF Issuing
    <3> DEFINE old == {t \in Links \ {n} : lock[t] = r /\ dirty[t].state # db[t].state}
    <3>3. old \in SUBSET Book!LiveLinks
      BY <3>2 DEF Book!LiveLinks, EndedLink
    <3>4. \A u \in Links : db'[u].state = IF u = n THEN "live" ELSE
                                          IF u \in old THEN "invalidated" ELSE db[u].state
      BY <1>1, <1>5, <3>2 DEF EndedLink
    <3>5. db'[Credential] = db[Credential]
      BY <1>1, <1>5, <3>1
    <3> HIDE DEF old
    <3>6. Book!Issue(n)
      BY <3>2, <3>3, <3>4, <3>5 DEF Book!Issue
    <3> QED  BY <3>6 DEF Book!BookNext
  <2>2. CASE req[r].pc = "sweep"
    <3>1. Changing(r)
      BY <2>2 DEF BookIInv, BookSlot, Revoking
    <3>2. Book!Change
      BY <1>1, <1>5, <3>1 DEF Changing, Book!Change
    <3>3. CASE Claimed(r)
      <4>1. PICK t \in Links : /\ lock[t] = r /\ db[t].state = "live" /\ dirty[t].state = "consumed"
                               /\ \A u \in Links \ {t} : lock[u] # r
        BY <3>3 DEF Claimed
      <4>2. \A u \in Links : db'[u].state = IF u = t THEN "consumed" ELSE db[u].state
        BY <1>1, <1>5, <4>1
      <4>3. Book!Reset(t)
        BY <3>2, <4>1, <4>2 DEF Book!Reset
      <4> QED  BY <4>3 DEF Book!BookNext
    <3>4. CASE db[Credential].mustChange /\ \A t \in Links : lock[t] # r
      <4>1. \A u \in Links : db'[u] = db[u]
        BY <1>1, <1>5, <3>4
      <4>2. Book!CompleteRequired
        BY <3>2, <3>4, <4>1 DEF Book!CompleteRequired
      <4> QED  BY <4>2 DEF Book!BookNext
    <3> QED  BY <3>1, <3>3, <3>4 DEF Changing
  <2> QED  BY <1>3, <2>1, <2>2
<1> QED  BY <1>10, <1>11 DEF BookStep
LEMMA AsideReads ==
  ASSUME TypeOK, BookIInv, NEW r \in Requests, NEW q, UNCHANGED rowVars, Become(r, q),
         req[r].pc \notin Busy, q.pc \notin Busy
  PROVE  BookStep
<1>1. RowsOfBookKept
  BY DEF rowVars, RowsOfBookKept
<1>2. req'[r] = q /\ \A s \in Requests \ {r} : req'[s] = req[s]
  BY DEF Become, TypeOK
<1> QED  BY <1>1, <1>2, AsideStep

LEMMA AsideStores ==
  ASSUME TypeOK, BookIInv, NEW r \in Requests, NEW x \in Sessions \cup Buckets, NEW v, NEW q,
         Store(r, x, v), Become(r, q), req[r].pc \notin Busy, q.pc \notin Busy
  PROVE  BookStep
<1>1. RowsOfBookKept
  BY RowKinds DEF Store, RowsOfBookKept, BookRows, TypeOK, RowsTyped
<1>2. req'[r] = q /\ \A s \in Requests \ {r} : req'[s] = req[s]
  BY DEF Become, TypeOK
<1> QED  BY <1>1, <1>2, AsideStep

LEMMA BeginningBook ==
  ASSUME TypeOK, BookIInv, NEW r \in Requests, BeginLogin(r) \/ BeginSession(r) \/ BeginReset(r)
  PROVE  BookStep
<1>1. ASSUME NEW op, NEW stage, NEW call, Begin(r, op, stage, call),
             [call EXCEPT !.op = op, !.pc = stage].pc \notin Busy
      PROVE  BookStep
  BY <1>1, AsideReads DEF Begin, At, Busy, Revoking
<1>2. \A op : \A stage \in {"isLocked", "find", "logout", "readLink"} :
        /\ [Waiting EXCEPT !.op = op, !.pc = stage].pc \notin Busy
        /\ \A x : /\ [[Waiting EXCEPT !.given = x] EXCEPT !.op = op, !.pc = stage].pc \notin Busy
                  /\ [[Waiting EXCEPT !.session = x] EXCEPT !.op = op, !.pc = stage].pc \notin Busy
                  /\ [[Waiting EXCEPT !.link = x, !.now = now] EXCEPT !.op = op, !.pc = stage].pc
                       \notin Busy
  BY DEF Waiting, Busy, Revoking
<1> QED  BY <1>1, <1>2 DEF BeginLogin, BeginSession, BeginReset

LEMMA ThrottlingBook ==
  ASSUME TypeOK, BookIInv, NEW r \in Requests, Throttling(r)
  PROVE  BookStep
<1> DEFINE q == req[r]
<1>0. q \in Slots /\ Shaped(q)
  BY SlotAt
<1>1. CASE IsLocked(r)
  <2>1. Stage(q, "identity").pc \notin Busy
        /\ [q EXCEPT !.pc = "failure", !.todo = BucketsOf(q.op)].pc \notin Busy
    BY <1>0 DEF Stage, Slots, Busy, Revoking
  <2> QED  BY <1>1, <2>1, AsideReads, RollbackStep DEF IsLocked, Continue, At, Busy, Revoking
<1>2. ASSUME NEW b \in Buckets, CountFailure(r, b)
      PROVE  BookStep
  <2>1. Counted(q, b).pc \notin Busy
    BY <1>0 DEF Counted, Slots, Busy, Revoking
  <2> QED  BY <1>2, <2>1, AsideReads DEF CountFailure, At, Busy, Revoking
<1>3. CASE UpsertBucket(r)
  <2>1. q.pc = "upsert" /\ q.bucket \in Buckets
    BY <1>0, <1>3 DEF UpsertBucket, At, Shaped
  <2>2. \A stage \in {"failure", "findIdentity"} :
           Stage([Waiting EXCEPT !.op = q.op, !.todo = q.todo], stage).pc \notin Busy
    BY DEF Stage, Waiting, Busy, Revoking
  <2>3. Waiting.pc \notin Busy
    BY DEF Waiting, Busy, Revoking
  <2>4. PICK v, p : Store(r, q.bucket, v) /\ Become(r, p) /\ p.pc \notin Busy
    BY <1>3, <2>2, <2>3 DEF UpsertBucket
  <2> QED  BY <2>1, <2>4, AsideStores DEF Busy, Revoking
<1> QED  BY <1>1, <1>2, <1>3 DEF Throttling

LEMMA LoggingInBook ==
  ASSUME TypeOK, BookIInv, NEW r \in Requests, LoggingIn(r)
  PROVE  BookStep
<1> DEFINE q == req[r]
<1>0. q \in Slots /\ Shaped(q)
  BY SlotAt
<1>1. CASE ReadIdentity(r)
  <2>1. [Waiting EXCEPT !.op = q.op, !.pc = "clear"].pc \notin Busy
        /\ [Waiting EXCEPT !.op = q.op, !.pc = "failure", !.todo = BucketsOf(q.op)].pc \notin Busy
    BY DEF Waiting, Busy, Revoking
  <2> QED  BY <1>1, <2>1, AsideReads DEF ReadIdentity, Continue, At, Busy, Revoking
<1>2. CASE ClearAccountFailures(r)
  <2>1. <<"login", "ACCOUNT">> \in Sessions \cup Buckets
    BY DEF Buckets, Purposes
  <2>2. Become(r, Stage(q, "open")) /\ Stage(q, "open").pc \notin Busy
    BY <1>0, <1>2, BecomeGoto DEF ClearAccountFailures, TypeOK, Stage, Slots, Busy, Revoking
  <2> QED  BY <1>2, <2>1, <2>2, AsideStores DEF ClearAccountFailures, At, Busy, Revoking
<1>3. CASE CreateSession(r)
  <2>1. Waiting.pc \notin Busy
    BY DEF Waiting, Busy, Revoking
  <2> QED  BY <1>3, <2>1, AsideStores DEF CreateSession, Unused, At, Busy, Revoking
<1>4. CASE FindSession(r)
  <2>1. [q EXCEPT !.pc = "renew", !.now = now].pc \notin Busy
    BY <1>0 DEF Slots, Busy, Revoking
  <2> QED  BY <1>4, <2>1, AsideReads, RollbackStep DEF FindSession, Continue, At, Busy, Revoking
<1>5. CASE RenewSession(r)
  <2>1. AfterRenewal(q).pc \notin Busy
    BY DEF AfterRenewal, Waiting, Busy, Revoking
  <2>2. q.session \in Sessions \cup Buckets
    BY <1>0, <1>5 DEF RenewSession, At, Shaped
  <2> QED  BY <1>5, <2>1, <2>2, AsideStores, RollbackStep DEF RenewSession, At, Busy, Revoking
<1>6. CASE Logout(r)
  <2>1. Waiting.pc \notin Busy
    BY DEF Waiting, Busy, Revoking
  <2>2. q.session \in Sessions \cup Buckets
    BY <1>0, <1>6 DEF Logout, At, Shaped
  <2> QED  BY <1>6, <2>1, <2>2, AsideStores, RollbackStep DEF Logout, At, Busy, Revoking
<1>7. CASE RequiredChange(r)
  <2>1. CASE End(r)
    BY <2>1, RollbackStep
  <2>2. CASE ~End(r)
    BY <1>7, <2>2, PasswordStep DEF RequiredChange, At, Busy, Revoking
  <2> QED  BY <2>1, <2>2
<1>8. ASSUME NEW s \in Sessions, Sweep(r, s)
      PROVE  BookStep
  BY <1>8, SweepStep
<1>9. CASE BeginSweep(r)
  BY <1>9, BeginSweepStep
<1> QED  BY <1>1, <1>2, <1>3, <1>4, <1>5, <1>6, <1>7, <1>8, <1>9 DEF LoggingIn

LEMMA ResettingBook ==
  ASSUME TypeOK, BookIInv, NEW r \in Requests, Resetting(r)
  PROVE  BookStep
<1>1. CASE ReadLink(r)
  <2>1. Stage(req[r], "claim").pc \notin Busy
    BY SlotAt DEF Stage, Slots, Busy, Revoking
  <2> QED  BY <1>1, <2>1, AsideReads, RollbackStep DEF ReadLink, Continue, At, Busy, Revoking
<1>2. CASE SetPassword(r)
  BY <1>2, PasswordStep DEF SetPassword, At
<1> QED  BY <1>1, <1>2, FindIdentityStep, InvalidateStep, IssueLinkStep, ClaimLinkStep DEF Resetting

LEMMA BookNextStep ==
  ASSUME TypeOK, BookIInv, [Next]_vars
  PROVE  BookStep
<1>1. ASSUME NEW r \in Requests,
             \/ BeginLogin(r) \/ BeginSession(r) \/ BeginReset(r)
             \/ Throttling(r) \/ LoggingIn(r) \/ Resetting(r) \/ Commit(r) \/ Fail(r)
      PROVE  BookStep
  BY <1>1, BeginningBook, ThrottlingBook, LoggingInBook, ResettingBook, CommitStep, RollbackStep
     DEF Fail
<1>2. ASSUME UNCHANGED <<rowVars, req>>
      PROVE  BookStep
  <2>1. UNCHANGED Book!bookVars
    BY <1>2 DEF rowVars, Book!bookVars
  <2>2. \A r \in Requests : BookSlot(r) => BookSlot(r)'
    BY <1>2 DEF rowVars, BookSlot, Ending, EndedLink, Issuing, Claimed, Changing, Revoking
  <2>3. BookIInv'
    BY <1>2, <2>2 DEF rowVars, BookIInv, LinksClean
  <2> QED  BY <2>1, <2>3 DEF BookStep
<1> QED  BY <1>1, <1>2 DEF Next, Quiescent, Tick, vars

LEMMA BookStart == Init => BookIInv /\ Book!BookInit
<1> SUFFICES ASSUME Init PROVE BookIInv /\ Book!BookInit
  OBVIOUS
<1>1. BookIInv
  BY RowKinds DEF Init, InitRows, BookIInv, BookSlot, LinksClean, Waiting, Busy, Revoking
<1>2. PICK must \in BOOLEAN, open \in SUBSET (Sessions \cup Links) :
        InitRows([x \in Rows |->
          CASE x = Credential -> [secret |-> 0, mustChange |-> must]
            [] x \in Sessions -> IF x \in open THEN OpenSession(0) ELSE NoSession
            [] x \in Links -> IF x \in open THEN OpenLink(0) ELSE NoLink
            [] OTHER -> NoFailures])
  BY DEF Init
<1>3. db[Credential] = [secret |-> 0, mustChange |-> must]
  BY <1>2, RowKinds DEF InitRows
<1>4. \A t \in Links : db[t] \in {OpenLink(0), NoLink}
  BY <1>2, RowKinds DEF InitRows
<1>5. \A t \in Links : db[t].state \in {"none", "live"}
  BY <1>4 DEF OpenLink, NoLink
<1> QED  BY <1>1, <1>3, <1>5 DEF Book!BookInit

\* The statements of logins, resets and required changes implement the book: a link
\* changes the password once and only while it is live, a required change happens
\* once (password-reset.repository.ts:90, auth.repository.ts:66).
THEOREM CredentialsKeepTheBook == Spec => ImplementsBook
<1>1. TypeOK /\ BookIInv /\ [Next]_vars
        => TypeOK' /\ BookIInv' /\ [Book!BookNext]_(Book!bookVars)
  BY NextTyped, BookNextStep DEF BookStep
<1> QED  BY <1>1, InitTyped, BookStart, PTL DEF Spec, ImplementsBook, Book!BookSpec
-----------------------------------------------------------------------------
(***************************************************************************)
(* Waits.  The credential comes before the sessions: whoever has locked a  *)
(* session is sweeping, and holds the credential.                          *)
(***************************************************************************)
SweepersHold == \A s \in Sessions : lock[s] # None => req[lock[s]].pc = "sweep"

\* A step of r that locks no session, and is no sweep.
LEMMA NoSweepStep ==
  ASSUME TypeOK, SweepersHold, NEW r \in Requests, req[r].pc # "sweep",
         \A s \in Requests \ {r} : req'[s] = req[s], \A x \in Sessions : lock'[x] = lock[x]
  PROVE  SweepersHold'
BY RowKinds DEF SweepersHold, TypeOK

\* COMMIT or ROLLBACK.
LEMMA ReleasedStep ==
  ASSUME TypeOK, SweepersHold, NEW r \in Requests, Release(r),
         \A s \in Requests \ {r} : req'[s] = req[s]
  PROVE  SweepersHold'
BY RowKinds DEF SweepersHold, TypeOK, Release

\* An UPDATE of a transaction locks a session only to sweep it.
LEMMA WrittenStep ==
  ASSUME TypeOK, SweepersHold, NEW r \in Requests, NEW x \in Rows, NEW v, NEW q, Write(r, x, v, q),
         x \in Sessions => q.pc = "sweep", req[r].pc = "sweep" => x \in Sessions
  PROVE  SweepersHold'
<1>1. \A s \in Requests \ {r} : req'[s] = req[s]
  BY DEF Write, Become, TypeOK
<1>2. req'[r] = q
  BY DEF Write, Become, TypeOK
<1>3. \A y \in Rows : lock'[y] = IF y = x THEN r ELSE lock[y]
  BY DEF Write, Update, TypeOK
<1>4. CASE x \in Sessions
  BY <1>1, <1>2, <1>3, <1>4, RowKinds DEF SweepersHold, TypeOK
<1>5. CASE x \notin Sessions
  <2>1. \A y \in Sessions : lock'[y] = lock[y]
    BY <1>3, <1>5, RowKinds DEF Rows
  <2>2. req[r].pc # "sweep"
    BY <1>5
  <2>3. QED BY <1>1, <2>1, <2>2, NoSweepStep
<1>6. QED BY <1>4, <1>5

LEMMA EndedStep ==
  ASSUME TypeOK, SweepersHold, NEW r \in Requests, End(r)
  PROVE  SweepersHold'
<1>1. Release(r) /\ \A s \in Requests \ {r} : req'[s] = req[s]
  BY DEF End, RollbackRows, Become, TypeOK
<1>2. QED BY <1>1, ReleasedStep

\* Reads, and statements outside a transaction.
LEMMA UnlockedStep ==
  ASSUME TypeOK, SweepersHold, NEW r \in Requests, req[r].pc # "sweep", UNCHANGED lock,
         (\E q : Become(r, q)) \/ (\E stage : Goto(r, stage))
  PROVE  SweepersHold'
<1>1. \A s \in Requests \ {r} : req'[s] = req[s]
  BY DEF Become, Goto, TypeOK
<1>2. QED BY <1>1, NoSweepStep

LEMMA SweepersNext ==
  ASSUME TypeOK, SweepersHold, [Next]_vars
  PROVE  SweepersHold'
<1> USE RowKinds
<1>1. ASSUME NEW r \in Requests, BeginLogin(r) \/ BeginSession(r) \/ BeginReset(r)
      PROVE  SweepersHold'
  <2>1. UNCHANGED lock /\ req[r].pc # "sweep" /\ \E q : Become(r, q)
    BY <1>1 DEF BeginLogin, BeginSession, BeginReset, Begin, At, rowVars
  <2>2. QED BY <2>1, UnlockedStep
<1>2. ASSUME NEW r \in Requests, Throttling(r)
      PROVE  SweepersHold'
  <2>1. ASSUME ~End(r)
        PROVE  UNCHANGED lock /\ req[r].pc # "sweep" /\ \E q : Become(r, q)
    BY <1>2, <2>1 DEF Throttling, IsLocked, UpsertBucket, CountFailure, Continue, Store, At, rowVars
  <2>2. QED BY <2>1, UnlockedStep, EndedStep
<1>3. ASSUME NEW r \in Requests, LoggingIn(r)
      PROVE  SweepersHold'
  <2>1. CASE \E s \in Sessions : Sweep(r, s)
    <3>1. PICK s \in Sessions : Sweep(r, s)
      BY <2>1
    <3>2. req[r].pc = "sweep" /\ req[r] \in Slots
      BY <3>1, SlotAt DEF Sweep, At
    <3>3. [req[r] EXCEPT !.todo = @ \ {s}].pc = "sweep"
      BY <3>2 DEF Slots
    <3>4. QED BY <3>1, <3>2, <3>3, WrittenStep DEF Sweep
  <2>2. CASE RequiredChange(r)
    <3>1. req[r].pc = "required" /\ Credential \in Rows \ Sessions
      BY <2>2 DEF RequiredChange, At
    <3>2. QED BY <2>2, <3>1, WrittenStep, EndedStep DEF RequiredChange
  <2>3. CASE ReadIdentity(r) \/ ClearAccountFailures(r) \/ CreateSession(r) \/ FindSession(r)
             \/ RenewSession(r) \/ Logout(r) \/ BeginSweep(r)
    <3>1. ASSUME ~End(r)
          PROVE  /\ UNCHANGED lock /\ req[r].pc # "sweep"
                 /\ (\E q : Become(r, q)) \/ (\E stage : Goto(r, stage))
      BY <2>3, <3>1 DEF ReadIdentity, ClearAccountFailures, CreateSession, FindSession,
         RenewSession, Logout, BeginSweep, Continue, Store, At, rowVars
    <3>2. QED BY <3>1, UnlockedStep, EndedStep
  <2>4. QED BY <1>3, <2>1, <2>2, <2>3 DEF LoggingIn
<1>4. ASSUME NEW r \in Requests, Resetting(r)
      PROVE  SweepersHold'
  <2>1. CASE FindIdentity(r) \/ (ReadLink(r) /\ ~End(r))
    <3>1. UNCHANGED lock /\ req[r].pc # "sweep" /\ \E q : Become(r, q)
      BY <2>1 DEF FindIdentity, ReadLink, Continue, At, rowVars
    <3>2. QED BY <3>1, UnlockedStep
  <2>2. ASSUME ~End(r), ~FindIdentity(r), ~ReadLink(r)
        PROVE  /\ req[r].pc # "sweep"
               /\ \E x \in Rows \ Sessions : \E v, q : Write(r, x, v, q)
    <3>1. req[r].pc = "claim" => req[r].link \in Links
      BY SlotAt DEF Shaped
    <3>2. QED BY <1>4, <2>2, <3>1 DEF Resetting, IssueLink, ClaimLink, SetPassword, Invalidate,
              Unused, At
  <2>3. QED BY <2>1, <2>2, WrittenStep, EndedStep
<1>5. ASSUME NEW r \in Requests, Commit(r)
      PROVE  SweepersHold'
  <2>1. Release(r) /\ \A s \in Requests \ {r} : req'[s] = req[s]
    BY <1>5 DEF Commit, CommitRows, Become, TypeOK
  <2>2. QED BY <2>1, ReleasedStep
<1>6. CASE Tick \/ UNCHANGED vars
  BY <1>6 DEF Tick, vars, rowVars, SweepersHold
<1>7. QED BY <1>1, <1>2, <1>3, <1>4, <1>5, <1>6, EndedStep DEF Next, Fail, Quiescent

\* Whoever sweeps waits for nobody: one transaction at a time has the credential.
LEMMA SweeperGoesOn ==
  ASSUME TypeOK, BookIInv, SweepersHold, NEW r \in Requests, req[r].pc = "sweep"
  PROVE  Blockers(r) = {}
<1>1. lock[Credential] = r /\ req[r].todo \subseteq Sessions
  BY DEF BookIInv, BookSlot, Changing, Revoking
<1>2. ASSUME NEW x \in req[r].todo, NEW s \in Writer(r, x)
      PROVE  FALSE
  <2>1. lock[x] = s /\ s \in Requests \ {r}
    BY <1>1, <1>2, RowKinds DEF Writer, TypeOK
  <2>2. req[s].pc = "sweep"
    BY <1>1, <1>2, <2>1, RowKinds DEF SweepersHold, Writer
  <2>3. lock[Credential] = s
    BY <2>1, <2>2 DEF BookIInv, BookSlot, Changing, Revoking
  <2>4. QED BY <1>1, <2>1, <2>3
<1>3. UNION {Writer(r, x) : x \in req[r].todo} = {}
  BY <1>2
<1>4. QED BY <1>3 DEF Blockers

\* Whoever is waited for counts a failure or holds a row.
LEMMA WaitedFor ==
  ASSUME TypeOK, BookIInv, SweepersHold, NEW r \in Requests, NEW s \in Blockers(r)
  PROVE  s \in Requests /\ req[s].pc \in Busy \cup {"upsert"}
<1> DEFINE q == req[r]
<1> USE RowKinds
<1>0. q \in Slots /\ Shaped(q)
  BY SlotAt
<1>1. ASSUME NEW x \in Sessions \cup Links \cup {Credential}, s \in Writer(r, x)
      PROVE  s \in Requests /\ req[s].pc \in Busy
  <2>1. s \in Requests /\ lock[x] = s /\ lock[x] # None
    BY <1>1 DEF Writer, TypeOK, Rows
  <2>2. CASE x \in Sessions
    BY <2>1, <2>2 DEF SweepersHold, Busy, Revoking
  <2>3. CASE x \in Links \/ x = Credential
    BY <2>1, <2>3 DEF BookIInv, BookSlot, Busy, Revoking
  <2>4. QED BY <1>1, <2>1, <2>2, <2>3
<1>2. CASE q.pc \in {"renew", "logout"}
  BY <1>0, <1>1, <1>2 DEF Blockers, Shaped
<1>3. CASE q.pc \in {"password", "required"}
  BY <1>1, <1>3 DEF Blockers
<1>4. CASE q.pc = "claim"
  BY <1>0, <1>1, <1>4 DEF Blockers, Shaped
<1>5. CASE q.pc = "failure"
  <2>1. PICK b \in q.todo : s \in {advisory[b]} \ {None}
    BY <1>5 DEF Blockers
  <2>2. b \in Buckets
    BY <1>0, <1>5 DEF Shaped
  <2>3. QED BY <2>1, <2>2 DEF TypeOK, AdvisoryHeld, At
<1>6. CASE q.pc = "invalidate"
  <2>1. q.todo \subseteq Links
    BY <1>6 DEF BookIInv, BookSlot, Ending, Revoking
  <2>2. QED BY <1>1, <1>6, <2>1 DEF Blockers
<1>7. q.pc # "sweep"
  BY SweeperGoesOn
<1>8. QED BY <1>2, <1>3, <1>4, <1>5, <1>6, <1>7 DEF Blockers

\* A transaction that holds a row and waits for one that waits too is ending links.
LEMMA WaitingHolder ==
  ASSUME TypeOK, BookIInv, SweepersHold, NEW r \in Requests,
         req[r].pc \in Busy \cup {"upsert"}, NEW s \in Blockers(r), Blockers(s) # {}
  PROVE  req[r].pc = "invalidate"
<1>1. req[r].pc \notin Revoking \cup {"commit", "upsert"}
  BY SweeperGoesOn DEF Blockers, Revoking
<1>2. ASSUME req[r].pc = "password"
      PROVE  FALSE
  <2>1. s \in Writer(r, Credential)
    BY <1>2 DEF Blockers
  <2>2. s \in Requests /\ lock[Credential] = s
    BY <2>1, RowKinds DEF Writer, TypeOK, Rows
  <2>3. req[s].pc \in Revoking
    BY <2>2 DEF BookIInv, BookSlot, Revoking
  <2>4. QED BY <2>2, <2>3, SweeperGoesOn DEF Revoking, Blockers
<1>3. QED BY <1>1, <1>2 DEF Busy, Revoking

LEMMA Around ==
  ASSUME NEW n \in Nat, n >= 1
  PROVE  /\ 0 \in 0..n-1 /\ n-1 \in 0..n-1 /\ (0 + 1) % n \in 0..n-1 /\ ((n - 1) + 1) % n = 0
OBVIOUS

LEMMA SweepersInit == Init => SweepersHold
BY RowKinds DEF Init, InitRows, SweepersHold

\* Of a circle of waits of any length only requests for a link can be part: a
\* reset, a required change, a renewal or a logout waits for nobody who waits for
\* it (password-reset.repository.ts:90, auth.repository.ts:66, 51).
THEOREM CirclesAreOfIssues == Spec => []OnlyIssuesCircle
<1>1. TypeOK /\ BookIInv /\ SweepersHold => OnlyIssuesCircle
  <2> SUFFICES ASSUME TypeOK, BookIInv, SweepersHold, NEW r \in Requests,
                      NEW n \in 1..Cardinality(Requests),
                      NEW c \in [0..n-1 -> Requests], c[0] = r,
                      \A i \in 0..n-1 : c[(i + 1) % n] \in Blockers(c[i])
               PROVE  req[r].pc = "invalidate"
    BY DEF OnlyIssuesCircle, OnWaitCycle, At
  <2>1. n \in Nat /\ n >= 1
    OBVIOUS
  <2>2. /\ 0 \in 0..n-1 /\ n-1 \in 0..n-1 /\ (0 + 1) % n \in 0..n-1 /\ ((n - 1) + 1) % n = 0
    BY <2>1, Around
  <2>3. r \in Blockers(c[n-1]) /\ c[n-1] \in Requests
    BY <2>2
  <2>4. req[r].pc \in Busy \cup {"upsert"}
    BY <2>3, WaitedFor
  <2>5. PICK s \in Requests : s = c[(0 + 1) % n]
    BY <2>2
  <2>6. s \in Blockers(r) /\ Blockers(s) # {}
    BY <2>2, <2>5
  <2>7. QED BY <2>4, <2>6, WaitingHolder
<1>2. TypeOK /\ BookIInv /\ SweepersHold /\ [Next]_vars => TypeOK' /\ BookIInv' /\ SweepersHold'
  BY NextTyped, BookNextStep, SweepersNext DEF BookStep
<1>3. Init => TypeOK /\ BookIInv /\ SweepersHold
  BY InitTyped, BookStart, SweepersInit
<1>4. QED BY <1>1, <1>2, <1>3, PTL DEF Spec
=============================================================================
