------------------------------- MODULE Outbox -------------------------------
(***************************************************************************)
(* The transactional email outbox: NotificationService, the transactions   *)
(* that store and close its messages, and the mail provider behind it.     *)
(*                                                                         *)
(* A message is stored by a business transaction together with the change  *)
(* it announces.  After the commit the request calls deliver(m); a timer   *)
(* calls dispatchPending, which expires what is too old and calls deliver  *)
(* on a batch of what is still PENDING.  All these calls interleave, one   *)
(* SQL statement or provider call at a time: job[s][m] is the next step of *)
(* the call of deliver(m) made by s, a timer tick or the request (Caller). *)
(* Statements outside transactions are atomic; the transactions that close *)
(* messages hold their row locks until they commit.                        *)
(*                                                                         *)
(* One Organization, and the Platform Administrators beside it.            *)
(***************************************************************************)
EXTENDS Integers, FiniteSets

CONSTANTS Messages, None,
          Timers,     \* ticks of the retry timer that may be under way at once
          Caller,     \* the request that stored a message
          Calls,      \* the operations requests may call
          BatchSize,  \* RETRY_BATCH_SIZE
          MaxFaults   \* bound: crashes, shutdowns, failed statements and rollbacks

Sources   == Timers \cup {Caller}
Templates == {"INITIAL_OWNER", "COLLABORATOR", "PASSWORD_RESET"}
Sweeps    == {"resets", "invitations"}

ASSUME OutboxAssumption ==
  /\ None \notin Messages \cup Templates /\ Caller \notin Timers
  /\ IsFiniteSet(Messages)
  /\ Calls \subseteq {"create", "invite", "resend", "reset", "platformReset", "disable"}
  /\ BatchSize \in Nat \ {0} /\ MaxFaults \in Nat

VARIABLES row,     \* the OutboxMessage rows
          job,     \* job[s][m]: next step of the deliver(m) that s has called
          tick,    \* tick[t]: a dispatchPending up to its batch
          closing, \* the Platform transaction under way, and the rows it has locked
          access,  \* accessStatus of the Organization, "NONE" before it exists
          owned,   \* has its initial owner accepted?
          process, \* the API process
          keys,    \* idempotency keys the provider has accepted
          mails,   \* mails[m]: mails the provider has sent for m
          faults   \* faults so far

storeVars    == <<row, access, owned>>
providerVars == <<keys, mails>>
vars == <<storeVars, job, tick, closing, process, providerVars, faults>>

Statuses == {"ABSENT", "PENDING", "DELIVERED", "EXPIRED"}
Steps    == {"idle", "insert", "read", "send", "mark", "fail"}

\* tenant: has it an organizationId?  born: rank of its createdAt.
\* envelope: is encryptedEnvelope still there?  old: PENDING, and createdAt is
\* past the TTL of the template.  failure: lastFailureCode, of an attempt or of
\* the statement that closed the message.
RowRecord == [status : Statuses, template : Templates \cup {None}, tenant : BOOLEAN,
              born : Nat, envelope : BOOLEAN, old : BOOLEAN,
              failure : {None, "attempt", "closed"}]

NoRow     == [status |-> "ABSENT", template |-> None, tenant |-> TRUE,
              born |-> 0, envelope |-> FALSE, old |-> FALSE, failure |-> None]
NoTick    == [pc |-> "idle", todo |-> {}]
NoClosing == [op |-> None, rows |-> {}, next |-> None]

Init ==
  /\ row = [m \in Messages |-> NoRow]
  /\ job = [s \in Sources |-> [m \in Messages |-> "idle"]]
  /\ tick = [t \in Timers |-> NoTick]
  /\ closing = NoClosing
  /\ access = "NONE" /\ owned = FALSE
  /\ process = "up"
  /\ keys = {}
  /\ mails = [m \in Messages |-> 0]
  /\ faults = 0

Pending == {m \in Messages : row[m].status = "PENDING"}

Fault == faults < MaxFaults /\ faults' = faults + 1

Advance(s, m, step) == job' = [job EXCEPT ![s][m] = step]

-----------------------------------------------------------------------------
(***************************************************************************)
(* Storing messages.  The row and the change it announces are written by   *)
(* one transaction; "insert" stands for its statements up to the recheck   *)
(* before COMMIT.                                                          *)
(***************************************************************************)
Insert(m, template, tenant) ==
  /\ process = "up" /\ row[m].template = None
  /\ row' = [row EXCEPT ![m].template = template, ![m].tenant = tenant,
               ![m].born = Cardinality({n \in Messages : row[n].template # None})]
  /\ Advance(Caller, m, "insert")
  /\ UNCHANGED <<access, owned, tick, process, providerVars, faults>>

CreateOrganization(m) ==
  /\ "create" \in Calls
  /\ access = "NONE"
  /\ \A n \in Messages : job[Caller][n] = "insert" => row[n].template # "INITIAL_OWNER"
  /\ Insert(m, "INITIAL_OWNER", TRUE)
  /\ UNCHANGED closing

Invite(m) ==
  /\ "invite" \in Calls
  /\ access = "ACTIVE"
  /\ Insert(m, "COLLABORATOR", TRUE)
  /\ UNCHANGED closing

\* Of a member, or of a Platform Administrator.
RequestPasswordReset(m, tenant) ==
  /\ (IF tenant THEN "reset" ELSE "platformReset") \in Calls
  /\ tenant => owned
  /\ Insert(m, "PASSWORD_RESET", tenant)
  /\ UNCHANGED closing

\* A row as its INSERT leaves it.
Stored(r) == [r EXCEPT !.status = "PENDING", !.envelope = TRUE]

\* Mutation: the UPDATE that settles a message leaves its token in the row.
SettledKeepingEnvelope(r, status) ==
  [r EXCEPT !.status = status, !.old = FALSE,
            !.failure = IF status = "EXPIRED" THEN "closed" ELSE None]

\* A row as the UPDATE that settles it leaves it.
Settled(r, status) ==
  [r EXCEPT !.status = status, !.envelope = FALSE, !.old = FALSE,
            !.failure = IF status = "EXPIRED" THEN "closed" ELSE None]

\* A row as the catch block leaves it, settled meanwhile or not.
FailureRecorded(r) == [r EXCEPT !.failure = "attempt"]

\* COMMIT, and the request goes on to call deliver(m).
CommitInsert(m) ==
  /\ job[Caller][m] = "insert" /\ closing.next # m
  /\ row' = [row EXCEPT ![m] = Stored(@)]
  /\ access' = IF row[m].template = "INITIAL_OWNER" THEN "PROVISIONING" ELSE access
  /\ Advance(Caller, m, "read")
  /\ UNCHANGED <<owned, tick, closing, process, providerVars, faults>>

\* ROLLBACK: the message never was.
RollbackInsert(m) ==
  /\ job[Caller][m] = "insert" /\ closing.next # m
  /\ Advance(Caller, m, "idle")
  /\ UNCHANGED <<storeVars, tick, closing, process, providerVars, faults>>

-----------------------------------------------------------------------------
(***************************************************************************)
(* Closing messages.  Both Platform transactions hold the Organization's   *)
(* row, so there is one at a time.  The rows its UPDATE has found PENDING  *)
(* stay locked, and PENDING to everybody else, until it ends.              *)
(***************************************************************************)
Locked(m) == m \in closing.rows

\* resendInitialOwnerInvitation: the pending mail is replaced by a new one.
ResendInvitation(n) ==
  /\ "resend" \in Calls
  /\ closing = NoClosing /\ access = "PROVISIONING"
  /\ Insert(n, "INITIAL_OWNER", TRUE)
  /\ closing' = [op |-> "resend", next |-> n,
                 rows |-> {m \in Pending : row[m].template = "INITIAL_OWNER"}]

\* changeAccessStatus to DISABLED
DisableOrganization ==
  /\ "disable" \in Calls /\ process = "up"
  /\ closing = NoClosing /\ access \in {"PROVISIONING", "ACTIVE"}
  /\ closing' = [op |-> "disable", next |-> None, rows |-> {m \in Pending : row[m].tenant}]
  /\ UNCHANGED <<storeVars, job, tick, process, providerVars, faults>>

CommitClosing ==
  /\ closing # NoClosing
  /\ row' = [m \in Messages |-> CASE m \in closing.rows -> Settled(row[m], "EXPIRED")
                                  [] m = closing.next -> Stored(row[m])
                                  [] OTHER -> row[m]]
  /\ access' = IF closing.op = "disable" THEN "DISABLED" ELSE access
  /\ job' = [job EXCEPT ![Caller] =
               [m \in Messages |-> IF m = closing.next THEN "read" ELSE @[m]]]
  /\ closing' = NoClosing
  /\ UNCHANGED <<owned, tick, process, providerVars, faults>>

RollbackClosing ==
  /\ closing # NoClosing /\ Fault
  /\ job' = [job EXCEPT ![Caller] =
               [m \in Messages |-> IF m = closing.next THEN "idle" ELSE @[m]]]
  /\ closing' = NoClosing
  /\ UNCHANGED <<storeVars, tick, process, providerVars>>

\* The initial owner follows the link of the newest mail in time and activates
\* the Organization, whose row no Platform transaction may hold.
AcceptInitialOwner ==
  /\ process = "up" /\ closing = NoClosing /\ access = "PROVISIONING"
  /\ \E m \in Messages :
       /\ row[m].template = "INITIAL_OWNER" /\ mails[m] > 0
       /\ row[m].status \in {"PENDING", "DELIVERED"} /\ ~row[m].old
       /\ \A n \in Messages : row[n].status # "ABSENT" /\ row[n].template = "INITIAL_OWNER"
                                => row[n].born <= row[m].born
  /\ access' = "ACTIVE" /\ owned' = TRUE
  /\ UNCHANGED <<row, job, tick, closing, process, providerVars, faults>>

-----------------------------------------------------------------------------
(***************************************************************************)
(* deliver(m), called by s.  Everything after the read is in its try.      *)
(***************************************************************************)
\* Mutation: deliver sends whatever row it finds.
ReadMessageInAnyStatus(s, m) ==
  /\ job[s][m] = "read"
  /\ Advance(s, m, "send")
  /\ UNCHANGED <<storeVars, tick, closing, process, providerVars, faults>>

ReadMessage(s, m) ==
  /\ job[s][m] = "read"
  /\ Advance(s, m, IF row[m].status # "PENDING" THEN "idle"
                   ELSE IF row[m].envelope THEN "send"
                   ELSE "fail")  \* nothing to decrypt
  /\ UNCHANGED <<storeVars, tick, closing, process, providerVars, faults>>

\* Mutation: a new deliveryKey for every attempt.
DeliveryKeyOfAttempt(s, m) == <<s, m>>

\* deliveryKey is stored with the message and the same on every attempt.
DeliveryKey(s, m) == m

\* The provider mails a key once, and accepts it again without mailing.  Its
\* answer may be lost.
ProviderAccepts(s, m, answered) ==
  LET key == DeliveryKey(s, m) IN
  /\ job[s][m] = "send"
  /\ keys' = keys \cup {key}
  /\ mails' = IF key \in keys THEN mails ELSE [mails EXCEPT ![m] = @ + 1]
  /\ Advance(s, m, IF answered THEN "mark" ELSE "fail")
  /\ UNCHANGED <<storeVars, tick, closing, process, faults>>

\* An error status, no connection, or a message the sender refuses to render.
ProviderRefuses(s, m) ==
  /\ job[s][m] = "send"
  /\ Advance(s, m, "fail")
  /\ UNCHANGED <<storeVars, tick, closing, process, providerVars, faults>>

MarkDelivered(s, m) ==
  /\ job[s][m] = "mark" /\ ~Locked(m)
  /\ row' = [row EXCEPT ![m] = Settled(@, "DELIVERED")]
  /\ Advance(s, m, "idle")
  /\ UNCHANGED <<access, owned, tick, closing, process, providerVars, faults>>

\* The catch block writes the row by its id, in whatever status it finds it.
RecordFailure(s, m) ==
  /\ job[s][m] = "fail" /\ ~Locked(m)
  /\ row' = [row EXCEPT ![m] = FailureRecorded(@)]
  /\ Advance(s, m, "idle")
  /\ UNCHANGED <<access, owned, tick, closing, process, providerVars, faults>>

\* A statement of deliver fails: the UPDATE in the try goes to the catch block,
\* the others make deliver throw to its caller.
StatementFails(s, m) ==
  /\ job[s][m] \in {"read", "mark", "fail"} /\ Fault
  /\ Advance(s, m, IF job[s][m] = "mark" THEN "fail" ELSE "idle")
  /\ UNCHANGED <<storeVars, tick, closing, process, providerVars>>

-----------------------------------------------------------------------------
(***************************************************************************)
(* dispatchPending, called by the timer at every interval whether or not   *)
(* the deliveries of an earlier tick have ended.                           *)
(***************************************************************************)
BeginDispatch(t) ==
  /\ process = "up" /\ tick[t].pc = "idle"
  /\ tick' = [tick EXCEPT ![t] = [pc |-> "expire", todo |-> Sweeps]]
  /\ UNCHANGED <<storeVars, job, closing, process, providerVars, faults>>

\* Mutation: the list of templates misses the initial owner's invitation.
ExpirableButOwners(k) ==
  {m \in Pending : row[m].old /\
     row[m].template = IF k = "resets" THEN "PASSWORD_RESET" ELSE "COLLABORATOR"}

\* The rows each of the two UPDATEs of expireCredentialEnvelopes matches.
Expirable(k) ==
  {m \in Pending : row[m].old /\ (row[m].template = "PASSWORD_RESET") = (k = "resets")}

\* The two UPDATEs run at once, and the batch is read when both have ended.  If
\* one fails the tick is lost, while the other runs on.
Swept(t, k, ok) ==
  LET left == tick[t].todo \ {k}
      lost == ~ok \/ tick[t].pc = "lost"
  IN [todo |-> left, pc |-> IF left = {} THEN (IF lost THEN "idle" ELSE "pick")
                            ELSE IF lost THEN "lost" ELSE tick[t].pc]

ExpireCredentialEnvelopes(t, k) ==
  /\ k \in tick[t].todo
  /\ \A m \in Expirable(k) : ~Locked(m)
  /\ row' = [m \in Messages |-> IF m \in Expirable(k) THEN Settled(row[m], "EXPIRED")
                                ELSE row[m]]
  /\ tick' = [tick EXCEPT ![t] = Swept(t, k, TRUE)]
  /\ UNCHANGED <<access, owned, job, closing, process, providerVars, faults>>

SweepFails(t, k) ==
  /\ k \in tick[t].todo /\ Fault
  /\ tick' = [tick EXCEPT ![t] = Swept(t, k, FALSE)]
  /\ UNCHANGED <<storeVars, job, closing, process, providerVars>>

\* orderBy createdAt asc, take RETRY_BATCH_SIZE
Batch ==
  {m \in Pending : Cardinality({n \in Pending : row[n].born < row[m].born}) < BatchSize}

PickBatch(t) ==
  /\ tick[t].pc = "pick"
  /\ job' = [job EXCEPT ![t] =
               [m \in Messages |-> IF m \in Batch /\ @[m] = "idle" THEN "read" ELSE @[m]]]
  /\ tick' = [tick EXCEPT ![t] = NoTick]
  /\ UNCHANGED <<storeVars, closing, process, providerVars, faults>>

PickFails(t) ==
  /\ tick[t].pc = "pick" /\ Fault
  /\ tick' = [tick EXCEPT ![t] = NoTick]
  /\ UNCHANGED <<storeVars, job, closing, process, providerVars>>

-----------------------------------------------------------------------------
(***************************************************************************)
(* The clock and the process.                                              *)
(***************************************************************************)
\* A PENDING message grows older than the TTL of its template.
Age(m) ==
  /\ m \in Pending /\ ~row[m].old
  /\ row' = [row EXCEPT ![m].old = TRUE]
  /\ UNCHANGED <<access, owned, job, tick, closing, process, providerVars, faults>>

\* onModuleDestroy clears the timer; what has begun goes on until the exit.
Shutdown ==
  /\ process = "up" /\ Fault
  /\ process' = "stopping"
  /\ UNCHANGED <<storeVars, job, tick, closing, providerVars>>

\* The process ends: every call is gone, every open transaction rolled back.
Stop ==
  /\ process' = "down"
  /\ job' = [s \in Sources |-> [m \in Messages |-> "idle"]]
  /\ tick' = [t \in Timers |-> NoTick]
  /\ closing' = NoClosing
  /\ UNCHANGED <<storeVars, providerVars>>

Crash == process = "up" /\ Fault /\ Stop

Exit == process = "stopping" /\ Stop /\ UNCHANGED faults

\* onModuleInit starts the timer.
Restart ==
  /\ process = "down" /\ process' = "up"
  /\ UNCHANGED <<storeVars, job, tick, closing, providerVars, faults>>

-----------------------------------------------------------------------------
Store(m) ==
  \/ CreateOrganization(m) \/ Invite(m) \/ ResendInvitation(m)
  \/ \E tenant \in BOOLEAN : RequestPasswordReset(m, tenant)
  \/ CommitInsert(m) \/ RollbackInsert(m)

Close ==
  DisableOrganization \/ CommitClosing \/ RollbackClosing \/ AcceptInitialOwner

Send(s, m) == ProviderRefuses(s, m) \/ \E answered \in BOOLEAN : ProviderAccepts(s, m, answered)

DeliverStep(s, m) ==
  ReadMessage(s, m) \/ Send(s, m) \/ MarkDelivered(s, m) \/ RecordFailure(s, m)

Dispatch(t) ==
  \/ BeginDispatch(t) \/ PickBatch(t) \/ PickFails(t)
  \/ \E k \in Sweeps : ExpireCredentialEnvelopes(t, k) \/ SweepFails(t, k)

Environment == (\E m \in Messages : Age(m)) \/ Shutdown \/ Crash \/ Exit \/ Restart

Next ==
  \/ \E m \in Messages : Store(m)
  \/ Close
  \/ \E s \in Sources, m \in Messages : DeliverStep(s, m) \/ StatementFails(s, m)
  \/ \E t \in Timers : Dispatch(t)
  \/ Environment

Spec == Init /\ [][Next]_vars

\* The timer fires, PostgreSQL answers, the clock runs, an open transaction
\* ends and the process is restarted.  Nothing is assumed of the provider, nor
\* of the calls of deliver.
Fairness ==
  /\ \A t \in Timers : /\ WF_vars(BeginDispatch(t))
                       /\ \A k \in Sweeps : WF_vars(ExpireCredentialEnvelopes(t, k))
                       /\ WF_vars(PickBatch(t))
  /\ WF_vars(CommitClosing)
  /\ \A m \in Messages : WF_vars(Age(m))
  /\ WF_vars(Exit) /\ WF_vars(Restart)

FairSpec == Spec /\ Fairness

-----------------------------------------------------------------------------
(***************************************************************************)
(* Properties.                                                             *)
(***************************************************************************)
\* Types, with what each call may be doing: only a request stores a message,
\* and a tick that is over has no UPDATE left running.
TypeOK ==
  /\ row \in [Messages -> RowRecord]
  /\ job \in [Sources -> [Messages -> Steps]]
  /\ \A t \in Timers, m \in Messages : job[t][m] # "insert"
  /\ tick \in [Timers -> [pc : {"idle", "expire", "pick", "lost"}, todo : SUBSET Sweeps]]
  /\ \A t \in Timers : tick[t].todo = {} <=> tick[t].pc \in {"idle", "pick"}
  /\ closing \in [op : {None, "resend", "disable"}, rows : SUBSET Messages,
                  next : Messages \cup {None}]
  /\ access \in {"NONE", "PROVISIONING", "ACTIVE", "DISABLED"}
  /\ owned \in BOOLEAN
  /\ process \in {"up", "stopping", "down"}
  /\ keys \subseteq Messages
  /\ mails \in [Messages -> Nat]
  /\ faults \in 0..MaxFaults

\* deliveryKey makes concurrent and repeated attempts one mail
\* (notification.service.ts:131-135).
MailedOnce == \A m \in Messages : mails[m] = IF m \in keys THEN 1 ELSE 0

\* A message is DELIVERED, or about to be, only if the provider has mailed it.
MailedBeforeDelivered ==
  \A m \in Messages :
    row[m].status = "DELIVERED" \/ (\E s \in Sources : job[s][m] = "mark") => m \in keys

\* Every retry finds its token, and none outlives the message's settling: the
\* envelope is there exactly while the message is PENDING.
EnvelopeWhilePending ==
  \A m \in Messages : row[m].envelope <=> row[m].status = "PENDING"

\* A message is ABSENT until its transaction commits, and nobody delivers it
\* before the commit.
DeliveredAfterCommit ==
  \A s \in Sources, m \in Messages :
    /\ row[m].template = None => row[m].status = "ABSENT"
    /\ job[s][m] = "insert" => row[m].status = "ABSENT" /\ row[m].template # None
    /\ job[s][m] \in {"read", "send", "mark", "fail"} => row[m].status # "ABSENT"

\* The rows a Platform transaction has locked are still PENDING, and the
\* message it stores is still its own.
ClosingHoldsRows ==
  /\ closing.rows \subseteq Pending
  /\ closing.next # None => job[Caller][closing.next] = "insert"

\* The inductive invariant.
DeliveryIInv ==
  /\ TypeOK /\ MailedOnce /\ MailedBeforeDelivered
  /\ EnvelopeWhilePending /\ DeliveredAfterCommit /\ ClosingHoldsRows

\* The outbox is a Mailbox: stored once, mailed at most once, DELIVERED only
\* after the mail and for good, EXPIRED only from PENDING.
MB == INSTANCE Mailbox WITH box <- [m \in Messages |-> row[m].status], mails <- mails

ImplementsMailbox == MB!Spec

\* Settled, and no call is sending it or about to mark it.
Quiet(m) ==
  /\ row[m].status \in {"DELIVERED", "EXPIRED"}
  /\ \A s \in Sources : job[s][m] \notin {"send", "mark"}

\* A call that failed before records its failure in the row, and nothing else.
RecordedLate(m) ==
  /\ row'[m] = FailureRecorded(row[m])
  /\ \E s \in Sources : job[s][m] = "fail" /\ job'[s][m] = "idle"

\* Once a message is settled and no call is sending it, that is final: no tick,
\* restart or closing transaction mails it again or writes its row.  All that may
\* still change is the failure code, which a call that had failed meanwhile writes
\* over the settled row (notification.service.ts:121-129).
SettledIsFinal ==
  [][\A m \in Messages :
       Quiet(m) => /\ Quiet(m)' /\ mails'[m] = mails[m]
                   /\ row'[m] = row[m] \/ RecordedLate(m)]_vars

\* Whatever the provider does, and through crashes and failed statements, every
\* stored message is in the end delivered or expired.
EveryMessageSettles ==
  \A m \in Messages : (row[m].status = "PENDING") ~> (row[m].status \in {"DELIVERED", "EXPIRED"})
=============================================================================
