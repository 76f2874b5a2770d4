----------------------------- MODULE Credentials -----------------------------
(***************************************************************************)
(* How the people of the API prove who they are: logins and their          *)
(* throttle, the sessions they open, required password changes, and resets *)
(* by mailed links (AuthService, AuthThrottleService, AuthRepository,      *)
(* PasswordResetHttpService), statement by statement.                      *)
(*                                                                         *)
(* One identity and one source address.  db has the row of its credential, *)
(* one per session and reset link, and one per bucket of the throttle.  A  *)
(* password is the number of changes before it; now counts ticks.          *)
(***************************************************************************)
EXTENDS Handlers

CONSTANTS Sessions, Links, Credential,
          Ops,          \* the operations requests may call
          MaxFailures,  \* failures that lock a bucket
          Lock,         \* LOCK_DURATION_MS, in ticks
          Idle, Absolute, LinkLife,  \* lifetimes of sessions and reset links, in ticks
          MaxTime, MaxBegun          \* bounds: ticks, requests begun

AllOps   == {"login", "use", "logout", "completeRequired", "requestReset", "reset"}
Purposes == {"login", "password-reset"}
Buckets  == Purposes \X {"ACCOUNT", "SOURCE"}
Rows     == {Credential} \cup Sessions \cup Links \cup Buckets

ASSUME CredentialAssumption ==
  /\ IsFiniteSet(Sessions) /\ IsFiniteSet(Links) /\ Sessions \cap Links = {}
  /\ Credential \notin Sessions \cup Links
  /\ ({Credential} \cup Sessions \cup Links) \cap Buckets = {}
  /\ None \notin Sessions \cup Links \cup Requests \cup AllOps
  /\ Ops \subseteq AllOps
  /\ {MaxFailures, Lock} \subseteq Nat \ {0}
  /\ {Idle, Absolute, LinkLife, MaxTime, MaxBegun} \subseteq Nat /\ Idle <= Absolute

VARIABLES advisory,  \* advisory[b]: the transaction holding the advisory lock of bucket b
          now, begun

vars == <<rowVars, req, advisory, now, begun>>

NoSession  == [state |-> "none", expires |-> 0, absolute |-> 0]
NoLink     == [state |-> "none", expires |-> 0]
NoFailures == [count |-> 0, last |-> 0, until |-> 0]

Waiting == [pc |-> "idle", op |-> None, given |-> None, session |-> None,
            link |-> None, bucket |-> None, todo |-> {}, count |-> 0, until |-> 0, now |-> 0]

OpenSession(time) == [state |-> "live", expires |-> time + Idle, absolute |-> time + Absolute]
OpenLink(time)    == [state |-> "live", expires |-> time + LinkLife]

\* The identity has just logged in and asked for a reset link, or, in two requests
\* at once that did not see each other's, for two.
Init ==
  /\ \E must \in BOOLEAN, open \in SUBSET (Sessions \cup Links) :
       /\ Cardinality(open \cap Sessions) = 1 /\ Cardinality(open \cap Links) \in 1..2
       /\ InitRows([x \in Rows |->
            CASE x = Credential -> [secret |-> 0, mustChange |-> must]
              [] x \in Sessions -> IF x \in open THEN OpenSession(0) ELSE NoSession
              [] x \in Links -> IF x \in open THEN OpenLink(0) ELSE NoLink
              [] OTHER -> NoFailures])
  /\ req = [r \in Requests |-> Waiting]
  /\ advisory = [b \in Buckets |-> None]
  /\ now = 0 /\ begun = 0

-----------------------------------------------------------------------------
Rest == <<advisory, now, begun>>

Continue(r, q) == Become(r, q) /\ UNCHANGED <<rowVars, Rest>>

\* An answer, an error, a crash: what is not committed is rolled back.
End(r) ==
  /\ RollbackRows(r) /\ Become(r, Waiting)
  /\ advisory' = [b \in Buckets |-> IF advisory[b] = r THEN None ELSE advisory[b]]
  /\ UNCHANGED <<now, begun>>

\* A statement outside any transaction commits at once.  An UPDATE waits only for
\* the writer of a row that it matches.
Store(r, x, v) ==
  /\ Writer(r, x) = {}
  /\ db' = [db EXCEPT ![x] = v] /\ dirty' = [dirty EXCEPT ![x] = v] /\ UNCHANGED <<lock, share>>

\* A statement of a transaction.
Write(r, x, v, q) == Update(r, x, v) /\ Become(r, q) /\ UNCHANGED Rest

Stage(q, stage) == [q EXCEPT !.pc = stage]

Unused(rows, blank) == {x \in rows : dirty[x] = blank}

Begin(r, op, stage, call) ==
  /\ At(r, "idle") /\ begun < MaxBegun /\ op \in Ops
  /\ Become(r, [call EXCEPT !.op = op, !.pc = stage])
  /\ begun' = begun + 1 /\ UNCHANGED <<rowVars, advisory, now>>

\* Whoever logs in knows the password of now, or does not.
BeginLogin(r) == \E given \in {db[Credential].secret, None} :
  Begin(r, "login", "isLocked", [Waiting EXCEPT !.given = given])

BeginSession(r) == \E s \in Sessions :
  /\ db[s] # NoSession
  /\ \/ \E op \in {"use", "completeRequired"} : Begin(r, op, "find", [Waiting EXCEPT !.session = s])
     \/ Begin(r, "logout", "logout", [Waiting EXCEPT !.session = s])

BeginReset(r) ==
  \/ Begin(r, "requestReset", "isLocked", Waiting)
  \/ \E t \in Links :
       db[t] # NoLink /\ Begin(r, "reset", "readLink", [Waiting EXCEPT !.link = t, !.now = now])

-----------------------------------------------------------------------------
(***************************************************************************)
(* AuthThrottleService.                                                    *)
(***************************************************************************)
PurposeOf(op) == IF op = "login" THEN "login" ELSE "password-reset"
BucketsOf(op) == {b \in Buckets : b[1] = PurposeOf(op)}

Locked(op) == \E b \in BucketsOf(op) : db[b].until > now

IsLocked(r) ==
  LET q == req[r] IN
  /\ At(r, "isLocked")
  /\ IF Locked(q.op) THEN End(r)
     ELSE Continue(r, IF q.op = "login" THEN Stage(q, "identity")
                      ELSE [q EXCEPT !.pc = "failure", !.todo = BucketsOf(q.op)])

Lapsed(row, time) == row = NoFailures \/ time - row.last >= Lock

\* q has read bucket b and counted one failure more.
Counted(q, b) ==
  [q EXCEPT !.pc = "upsert", !.bucket = b, !.todo = @ \ {b}, !.now = now, !.until = db[b].until,
            !.count = (IF Lapsed(db[b], now) THEN 0 ELSE db[b].count) + 1]

\* Mutation: no advisory lock.
CountUnlocked(r, b) ==
  At(r, "failure") /\ b \in req[r].todo /\ Continue(r, Counted(req[r], b))

\* recordBucket, for both buckets in either order: the advisory lock, and what is
\* read once it is held.
CountFailure(r, b) ==
  /\ At(r, "failure") /\ b \in req[r].todo /\ advisory[b] = None
  /\ advisory' = [advisory EXCEPT ![b] = r]
  /\ Become(r, Counted(req[r], b))
  /\ UNCHANGED <<rowVars, now, begun>>

\* INSERT ... ON CONFLICT DO UPDATE, and COMMIT: a new row counts one failure.
UpsertBucket(r) ==
  LET q == req[r]
      until == IF q.count >= MaxFailures THEN q.now + Lock ELSE q.until
      left == [Waiting EXCEPT !.op = q.op, !.todo = q.todo]
  IN /\ At(r, "upsert")
     /\ Store(r, q.bucket,
              IF db[q.bucket] = NoFailures
              THEN [count |-> 1, last |-> q.now, until |-> IF q.count >= MaxFailures THEN until ELSE 0]
              ELSE [count |-> q.count, last |-> q.now, until |-> until])
     /\ advisory' = [advisory EXCEPT ![q.bucket] = None]
     /\ Become(r, CASE q.todo # {} -> Stage(left, "failure")
                    [] q.op = "login" -> Waiting
                    [] OTHER -> Stage(left, "findIdentity"))
     /\ UNCHANGED <<now, begun>>

-----------------------------------------------------------------------------
(***************************************************************************)
(* Logins and sessions.                                                    *)
(***************************************************************************)
\* The password is compared with the hash read here; that takes its time, and
\* the credential may change meanwhile.
ReadIdentity(r) ==
  LET q == req[r] IN
  /\ At(r, "identity")
  /\ Continue(r, IF q.given = db[Credential].secret THEN [Waiting EXCEPT !.op = q.op, !.pc = "clear"]
                 ELSE [Waiting EXCEPT !.op = q.op, !.pc = "failure", !.todo = BucketsOf(q.op)])

ClearAccountFailures(r) ==
  /\ At(r, "clear")
  /\ Store(r, <<"login", "ACCOUNT">>, NoFailures) /\ Goto(r, "open") /\ UNCHANGED Rest

CreateSession(r) ==
  /\ At(r, "open")
  /\ \E s \in Unused(Sessions, NoSession) : Store(r, s, OpenSession(now))
  /\ Become(r, Waiting) /\ UNCHANGED Rest

Valid(row, time) == row.state = "live" /\ row.expires > time /\ row.absolute > time

\* findValidSession.
FindSession(r) ==
  LET q == req[r] IN
  /\ At(r, "find")
  /\ IF Valid(db[q.session], now) THEN Continue(r, [q EXCEPT !.pc = "renew", !.now = now]) ELSE End(r)

Earlier(a, b) == IF a < b THEN a ELSE b

\* Mutation: the absolute expiry is not looked at.
RenewedInFull(row, time) == [row EXCEPT !.expires = time + Idle]

Renewed(row, time) == [row EXCEPT !.expires = Earlier(time + Idle, row.absolute)]

AfterRenewal(q) ==
  IF q.op = "use" THEN Waiting ELSE [Waiting EXCEPT !.op = q.op, !.pc = "required"]

\* Mutation: UPDATE ... WHERE id = ... only.
RenewById(r) ==
  LET q == req[r] IN
  /\ At(r, "renew") /\ Writer(r, q.session) = {}
  /\ Store(r, q.session, Renewed(db[q.session], q.now))
  /\ Become(r, AfterRenewal(q)) /\ UNCHANGED Rest

RenewSession(r) ==
  LET q == req[r] IN
  /\ At(r, "renew")
  /\ IF Valid(db[q.session], q.now)
     THEN /\ Store(r, q.session, Renewed(db[q.session], q.now))
          /\ Become(r, AfterRenewal(q)) /\ UNCHANGED Rest
     ELSE End(r)

Revoked(row) == IF row.state = "live" THEN [row EXCEPT !.state = "revoked"] ELSE row

Logout(r) ==
  LET s == req[r].session IN
  /\ At(r, "logout")
  /\ IF db[s].state = "live"
     THEN Store(r, s, Revoked(db[s])) /\ Become(r, Waiting) /\ UNCHANGED Rest
     ELSE End(r)

\* The password is written, the sessions come next ...
Changed(q) == [q EXCEPT !.pc = "sessions", !.todo = {}]

\* ... updateMany of every session not revoked: the rows of the statement's snapshot ...
BeginSweep(r) ==
  /\ At(r, "sessions")
  /\ Continue(r, [req[r] EXCEPT !.pc = "sweep", !.todo = {s \in Sessions : db[s].state = "live"}])

\* ... one after the other; each is looked at again once it is locked.
Sweep(r, s) ==
  /\ At(r, "sweep") /\ s \in req[r].todo /\ Writer(r, s) = {}
  /\ Write(r, s, Revoked(db[s]), [req[r] EXCEPT !.todo = @ \ {s}])

\* completeRequiredPasswordChange.
RequiredChange(r) ==
  LET row == db[Credential] IN
  /\ At(r, "required")
  /\ row.mustChange => Writer(r, Credential) = {}
  /\ IF row.mustChange
     THEN Write(r, Credential, [secret |-> row.secret + 1, mustChange |-> FALSE], Changed(req[r]))
     ELSE End(r)

-----------------------------------------------------------------------------
(***************************************************************************)
(* Resets by link.                                                         *)
(***************************************************************************)
LiveLink(row) == row.state = "live"

\* The links to invalidate, again a snapshot; then the INSERT of the new one.
FindIdentity(r) ==
  /\ At(r, "findIdentity")
  /\ Continue(r, [req[r] EXCEPT !.pc = "invalidate", !.todo = {t \in Links : LiveLink(db[t])}])

Invalidate(r, t) ==
  /\ At(r, "invalidate") /\ t \in req[r].todo /\ Writer(r, t) = {}
  /\ Write(r, t, IF LiveLink(db[t]) THEN [db[t] EXCEPT !.state = "invalidated"] ELSE db[t],
           [req[r] EXCEPT !.todo = @ \ {t}])

IssueLink(r) ==
  /\ At(r, "invalidate") /\ req[r].todo = {}
  /\ \E t \in Unused(Links, NoLink) :
       Write(r, t, OpenLink(now), Stage(req[r], "commit"))

Usable(row, time) == LiveLink(row) /\ row.expires > time

ReadLink(r) ==
  /\ At(r, "readLink")
  /\ IF Usable(db[req[r].link], req[r].now) THEN Continue(r, Stage(req[r], "claim")) ELSE End(r)

Consumed(row) == [row EXCEPT !.state = "consumed"]

\* Mutation: UPDATE ... WHERE id = ... only.
ClaimLinkById(r) ==
  LET t == req[r].link IN
  At(r, "claim") /\ Writer(r, t) = {} /\ Write(r, t, Consumed(db[t]), Stage(req[r], "password"))

ClaimLink(r) ==
  LET t == req[r].link IN
  /\ At(r, "claim")
  /\ Usable(db[t], req[r].now) => Writer(r, t) = {}
  /\ IF Usable(db[t], req[r].now) THEN Write(r, t, Consumed(db[t]), Stage(req[r], "password"))
     ELSE End(r)

\* Mutation: the sessions are revoked before the credential is written.
SweepThenPassword(r) ==
  \/ At(r, "password") /\ Continue(r, Changed(req[r]))
  \/ /\ At(r, "sweep") /\ req[r].todo = {} /\ lock[Credential] # r /\ req[r].op = "reset"
     /\ Writer(r, Credential) = {}
     /\ Write(r, Credential, [secret |-> db[Credential].secret + 1, mustChange |-> FALSE], req[r])

SetPassword(r) ==
  /\ At(r, "password") /\ Writer(r, Credential) = {}
  /\ Write(r, Credential, [secret |-> db[Credential].secret + 1, mustChange |-> FALSE],
           Changed(req[r]))

\* COMMIT; a required change opens a session of its own.
Commit(r) ==
  /\ At(r, "commit") \/ (At(r, "sweep") /\ req[r].todo = {})
  /\ CommitRows(r)
  /\ Become(r, IF req[r].op = "completeRequired" THEN Stage(req[r], "open") ELSE Waiting)
  /\ UNCHANGED Rest

Fail(r) == ~At(r, "idle") /\ End(r)

Tick == now < MaxTime /\ now' = now + 1 /\ UNCHANGED <<rowVars, req, advisory, begun>>

-----------------------------------------------------------------------------
Throttling(r) ==
  IsLocked(r) \/ UpsertBucket(r) \/ \E b \in Buckets : CountFailure(r, b)

LoggingIn(r) ==
  \/ ReadIdentity(r) \/ ClearAccountFailures(r) \/ CreateSession(r)
  \/ FindSession(r) \/ RenewSession(r) \/ Logout(r) \/ RequiredChange(r)
  \/ BeginSweep(r) \/ \E s \in Sessions : Sweep(r, s)

Resetting(r) ==
  \/ FindIdentity(r) \/ IssueLink(r) \/ ReadLink(r) \/ ClaimLink(r) \/ SetPassword(r)
  \/ \E t \in Links : Invalidate(r, t)

\* A bounded behaviour is over.
Quiescent == (\A r \in Requests : At(r, "idle")) /\ UNCHANGED vars

Next ==
  \/ \E r \in Requests :
       \/ BeginLogin(r) \/ BeginSession(r) \/ BeginReset(r)
       \/ Throttling(r) \/ LoggingIn(r) \/ Resetting(r) \/ Commit(r) \/ Fail(r)
  \/ Tick \/ Quiescent

Spec == Init /\ [][Next]_vars
-----------------------------------------------------------------------------
(***************************************************************************)
(* Properties.                                                             *)
(***************************************************************************)
Stages == {"idle", "isLocked", "failure", "upsert", "identity", "clear", "open",
           "find", "renew", "logout", "sessions", "sweep", "required", "findIdentity", "invalidate", "readLink",
           "claim", "password", "commit"}

RowTyped(x, row) ==
  /\ x = Credential => row \in [secret : Nat, mustChange : BOOLEAN]
  /\ x \in Sessions => /\ row \in [state : {"none", "live", "revoked"}, expires : Nat, absolute : Nat]
                       /\ row.expires <= row.absolute
  /\ x \in Links => row \in [state : {"none", "live", "consumed", "invalidated"}, expires : Nat]
  /\ x \in Buckets => row \in [count : Nat, last : Nat, until : Nat]

RowsTyped(rows) == rows = [x \in Rows |-> rows[x]] /\ \A x \in Rows : RowTyped(x, rows[x])

Slots == [pc : Stages, op : Ops \cup {None}, given : Nat \cup {None},
          session : Sessions \cup {None}, link : Links \cup {None}, bucket : Buckets \cup {None},
          todo : SUBSET Rows, count : Nat, until : Nat, now : Nat]

\* A statement finds the row it is about.
Shaped(q) ==
  /\ q.pc \in {"find", "renew", "logout"} => q.session \in Sessions
  /\ q.pc \in {"readLink", "claim"} => q.link \in Links
  /\ q.pc = "upsert" => q.bucket \in Buckets
  /\ q.pc \in {"failure", "upsert"} => q.todo \subseteq Buckets

\* Who has an advisory lock is counting a failure.
AdvisoryHeld ==
  /\ advisory \in [Buckets -> Requests \cup {None}]
  /\ \A b \in Buckets :
       advisory[b] # None => req[advisory[b]].bucket = b /\ At(advisory[b], "upsert")

\* Every row and slot holds what its table and handler can put there; no session
\* outlives its absolute expiry.
TypeOK ==
  /\ RowsTyped(db) /\ RowsTyped(dirty) /\ lock \in [Rows -> Requests \cup {None}]
  /\ req \in [Requests -> Slots] /\ \A r \in Requests : Shaped(req[r])
  /\ AdvisoryHeld
  /\ now \in Nat /\ begun \in Nat

\* A reset link changes the password once and only while it is live, a required
\* change happens once, whatever other links are issued or used at the same time
\* (password-reset.repository.ts:90, auth.repository.ts:66).
Book == INSTANCE CredentialBook
          WITH secret <- db[Credential].secret, mustChange <- db[Credential].mustChange,
               links <- [t \in Links |-> db[t].state]
ImplementsBook == Book!BookSpec

\* Parallel failures do not lose an increment: each adds one to what the bucket
\* counts when it is written, and the last one allowed locks it (auth.throttle.ts:46).
FailuresCounted ==
  [][\A r \in Requests : UpsertBucket(r) =>
       LET q == req[r]
           row == db[q.bucket]
       IN /\ db'[q.bucket].count = (IF Lapsed(row, q.now) THEN 0 ELSE row.count) + 1
          /\ db'[q.bucket].count >= MaxFailures => db'[q.bucket].until > q.now]_vars

\* A session that has been revoked is never renewed, although it is read before
\* it is renewed and revocations wait for nobody (auth.repository.ts:51).
RevokedForGood ==
  [][\A s \in Sessions : db[s].state = "revoked" => db'[s] = db[s]]_vars

\* What the next statement of r waits for.
Blockers(r) ==
  LET q == req[r] IN
  CASE q.pc = "renew" /\ Valid(db[q.session], q.now) -> Writer(r, q.session)
    [] q.pc = "logout" /\ db[q.session].state = "live" -> Writer(r, q.session)
    [] q.pc = "password" \/ (q.pc = "required" /\ db[Credential].mustChange) -> Writer(r, Credential)
    [] q.pc = "claim" /\ Usable(db[q.link], q.now) -> Writer(r, q.link)
    [] q.pc = "failure" /\ q.todo # {} -> UNION {{advisory[b]} \ {None} : b \in q.todo}
    [] q.pc \in {"sweep", "invalidate"} -> UNION {Writer(r, x) : x \in q.todo}
    [] OTHER -> {}

\* Resets, required changes, renewals and logouts never wait in a circle.  Requests
\* for a link may: when two links are live, each may have ended one of them and wait
\* for the other's (password-reset-http.service.ts:50).
OnlyIssuesCircle ==
  \A r \in Requests : OnWaitCycle(r, Blockers) => At(r, "invalidate")
=============================================================================
