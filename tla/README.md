# Formal models of NOVA

TLA+ models, TLC runs and TLAPS proofs about the system in `src/`: a NestJS API on PostgreSQL,
reached through Prisma (`src/apps/api`), and the React pages that call it (`src/apps/web`). The
API keeps all of its state in the database and all of its concurrency is concurrent HTTP requests,
a timer and the transactions they run: its models are about statements of transactions that
interleave. A page keeps its state in the browser; its models are about answers that come late,
in another order or not at all.

## 1. Inventory

| Component | State | Operations | Hard behaviour |
|---|---|---|---|
| Tenant transaction (`prisma/tenant-transaction.ts`) | row locks, uncommitted rows | BEGIN, callback, recheck of the actor, COMMIT or ROLLBACK | READ COMMITTED: every statement sees a newer state; waits, deadlocks, crashes |
| Ownership (`access/application/ownership.service.ts`) | `OrganizationOwnership`, `OwnershipTransferProposal`, profiles | promote, demote, propose, accept | two requests on the same proposal; owner changes while others read |
| Collaborator lifecycle (`collaborator-lifecycle.service.ts`) | `Membership` status, epoch, version, grants | suspend, reactivate, remove, replaceGrants | lost updates, stale evidence, sessions left alive |
| Platform interventions (`platform/application/organization.service.ts`) | `Organization.accessStatus`, `version` | changeAccessStatus, suspendCollaborator, changeCommercialStatus | every membership is bumped in one statement; wait cycles |
| Admission (`auth/http/*.guard.ts`, `access.service.ts`) | none of its own | session lookup, effective access | what was read may be old when it is used |
| Provisioning (`platform/application/organization.service.ts`, `initial-owner-acceptance.service.ts`) | `Organization`, `Invitation`, `OutboxMessage` | createOrganization, resendInitialOwnerInvitation, accept, acceptExisting | resend and acceptance cross; version not moved by acceptance |
| Invitations (`invitation/application/*.ts`) | `Invitation`, `Membership`, outbox | invite, resend, revoke, accept, acceptExisting | one invitation consumed, revoked and replaced at once |
| Outbox (`notifications/application/notification.service.ts`) | `OutboxMessage` | enqueue, deliver, dispatchPending, expire | crash between send and mark; double dispatch; starvation |
| Sessions and login (`auth/application/auth.service.ts`) | `AuthSession` | login, logout, validate, revoke, required password change | a session opened while all are being revoked |
| Throttle (`auth.throttle.ts`) | `AuthenticationThrottle` | isLocked, recordFailure, clearAccountFailures | check and act in separate statements |
| Password reset (`identity/*`) | `PasswordResetToken`, credential, sessions | request, reset | two tokens; reset crossing a login |
| Structure (`organizations/application/organization-admin.service.ts`) | `Company`, `BusinessScope` | create, rename, deactivate, reactivate, status changes | parent and child status decided from old reads |
| Companies page (`web/app/administration/companies/page.tsx`) | lists, dialogs, forms, the version an edit carries | load, search, create, edit, review, confirm, change of status | overlapping loads, lists replaced under open dialogs, lost answers |
| Platform pages (`web/app/platform/{directory,lifecycle,interventions}/page.tsx`) | lists, selection, cursor, candidates | load, search, more, choose, change of status, resend, intervene | late lists of candidates, merged answers, stale versions |
| Presets, bootstrap, row-level security, other pages | - | - | sequential or no state of their own |

Components interact through shared rows: every tenant operation reads the membership of its actor
at admission and again before COMMIT; lifecycle changes and interventions cancel proposals of the
ownership component and revoke sessions of the login component; provisioning and invitations
create the memberships all the others work on and the outbox messages the timer delivers.

What makes each correct: the owner is always an active Administrator; ownership passes only by an
accepted proposal; at most one proposal is pending and it is the present owner's; no membership
change is lost and each ends the sessions of whom it changes; the evidence tells the truth; every
request is answered; every message is mailed at most once, is delivered or expired in the end, and
that is final; an invitation is resolved once, and only an acceptance lets anybody in; an active
scope has an active company, and names are unique; a reset link changes the password once, no
failed login goes uncounted, and what is revoked stays revoked; what a page writes was judged on
what its user saw.

`PROJECT.json` lists the hazards at their lines, with the properties that watch over them.

## 2. Modules

| Module | Role |
|---|---|
| `RowStore` | PostgreSQL as the code uses it: committed rows `db`, uncommitted rows `dirty`, `lock`, `share`; `Update`, `LockShare`, `CommitRows`, `RollbackRows` |
| `Handlers` | requests that walk through the statements of a transaction: `pc`, waits, cycles of waits; used by the three modules below that were written after `Governance` and `Outbox` |
| `Governance` | the core: admission, ownership, lifecycle and interventions, statement by statement, over `RowStore`; all properties |
| `OwnershipRegister` | the abstract specification: an owner, the active Administrators, one offer; each transaction a single step |
| `MCGovernance` | starting roles and symmetry for TLC |
| `GovernanceProofs` | types, the owner's invariant, the counting of membership changes |
| `OfferProofs` | proposals: one is PENDING at most, it is the owner's, it is resolved once, ownership moves by it |
| `RegisterProofs` | sessions and evidence, the refinement of `OwnershipRegister` |
| `Outbox` | the email outbox: requests and timer ticks that deliver, sweeps, the Platform transactions that close messages, the provider, crashes and restarts; all properties |
| `Mailbox` | the abstract specification: a message is stored, mailed once, delivered or expired |
| `MCOutbox` | symmetry for TLC |
| `OutboxProofs` | the outbox's inductive invariant, the refinement of `Mailbox`, finality |
| `Invitations` | provisioning and invitations over `Handlers`, beside membership changes and DISABLED |
| `InvitationProofs` | the inductive invariant of `Invitations`, the refinement of `InvitationBook` |
| `InvitationBook` | the abstract specification: an invitation is issued once and resolved once; acceptances make members |
| `Structure` | the transactions of `OrganizationAdminService` over `Handlers` |
| `StructureProofs` | the inductive invariant of `Structure`, the refinement of `StructureRegister`, no circle of waits |
| `StructureRegister` | the abstract specification: Companies and Business Scopes, each transaction a single step; also the server of `CompaniesPage` |
| `Credentials` | logins, throttle, sessions, required changes and resets over `Handlers`, with time |
| `CredentialBook` | the abstract specification: what may change a password, and how often |
| `CredentialProofs` | types of `Credentials`, revocation, counting, the refinement of `CredentialBook`, circles of waits |
| `CompaniesPage` | the companies page in the browser, `StructureRegister` its server, others at work |
| `PlatformPages` | the three pages of the Platform Administrator and the part of `OrganizationService` they call |
| `WebApp` | one of these pages in a browser, behind the access check of `AppShell` |
| `PageProofs` | the inductive invariants of `CompaniesPage` and `PlatformPages`, their properties, and what `StructureRegister` keeps |
| `MCInvitations`, `MCStructure`, `MCCredentials`, `MCWebApp` | values of the constants and symmetry for TLC |

### From code to model: `Governance`

One Organization past provisioning. A *request slot* `req[r]` runs one handler at a time; `pc`
names the SQL statement it runs next, the other fields hold its parameters and what it has read
(`epoch` from admission, `seen` from the target read, `todo` the rows a multi-row UPDATE has still
to reach, `cut` the sessions its revoking UPDATE covered; `had`, which no code has, the sessions
that were open when it wrote a membership).

| Handler | Path of `pc` |
|---|---|
| promote, demote | access, owner, target, claim, (cancel, cancelling), revoke, recheck, check, commit |
| propose | access, owner, target, cancel, cancelling, insert, recheck, commit |
| accept | access, offer, successor, ownerRow, former, acceptClaim, ownership, bump, revoke, recheck, check, commit |
| suspend, reactivate, remove | access, target, claim, (cancel, cancelling), revoke, recheck, check, commit |
| replaceGrants | access, target, claim, revoke, recheck, commit |
| suspendCollaborator | share, target, claim, cancel, cancelling, revoke, check, commit |
| changeAccessStatus | orgRead, (orgOwner), orgClaim, (bump, revoke, (cancel, cancelling)), check, commit |

A throw anywhere is `Abort`: the rows go back, the locks are released, the slot is free. `Fail` is
the same for a lost connection or Prisma's transaction timeout, `DeadlockVictim` for PostgreSQL's
choice on a cycle of waits. A statement whose rows are locked waits (`Blockers`); when it runs, it
judges its WHERE clause on the row as committed then, as READ COMMITTED does. The rows of the
cancelling UPDATE are fixed when it starts, so it misses a proposal inserted later.

Abstracted: names, reasons and confirmations; capabilities and scopes (a value of `Grants`);
identities (a membership stands for its identity, `Membership.identityId` is unique); expiry of
sessions; the evidence row keeps the fields the properties tell apart; a session is a number, and
`revoked[m]` the last one revoked. An `expectedVersion` is any positive integer up to `MaxAhead`
beyond the row's: `replaceGrants` and `changeAccessStatus` ask for no more of it, and a commit in
between may make it the present one.

### From code to model: `Outbox`

A message is a row, and `job[s][m]` the call of `deliver(m)` made by `s`: the request that stored
it (`Caller`) or a tick of the timer. Each call goes statement by statement, so any number of them
interleave on one message, as they do in Node.js between two awaits.

| Code | Actions |
|---|---|
| createOrganization, invite, resendInitialOwnerInvitation, password reset `request` | `CreateOrganization`, `Invite`, `ResendInvitation`, `RequestPasswordReset`, then `CommitInsert` (or `CommitClosing`) or a rollback |
| `deliver` | `ReadMessage`, `ProviderAccepts` or `ProviderRefuses`, `MarkDelivered` or `RecordFailure`; `StatementFails` for each of its statements |
| `dispatchPending` | `BeginDispatch`, the sweeps, `PickBatch` or `PickFails` |
| `expireCredentialEnvelopes` | `ExpireCredentialEnvelopes` and `SweepFails`, once for each of its two UPDATEs, which run at once |
| DISABLED, resend | `DisableOrganization`, `ResendInvitation` lock the rows their UPDATE finds PENDING; `CommitClosing`, `RollbackClosing` |
| acceptance of the initial owner | `AcceptInitialOwner`, one step here |
| `onModuleInit`, `onModuleDestroy`, the process | `Restart`, `Shutdown`, `Exit`, `Crash` |

The provider keeps the idempotency keys it has accepted (`keys`) and mails a key once: what the
comment at `notification.service.ts:132-136` relies on, and an assumption, since a key forgotten by
the provider while the row is still PENDING would mean a second mail. Its answer may be lost. A
sweep or a marking UPDATE waits for rows a Platform transaction has locked and judges them anew.
`old` is the clock: `createdAt` has passed the TTL, which is as long as the invitation's own.
The UPDATE of the catch block finds its row by id in whatever status; `failure` is
`lastFailureCode`, as who wrote it last. Abstracted: `attemptCount`, `providerMessageId` and the
encryption of the envelope; ACTIVE stands for SUSPENDED too; one Organization.

### From code to model: `Invitations`

One Organization: its row `Org`, the ownership row `Own`, a row per person (identity and
membership), a row per invitation. `advisory` holds the locks `invite` takes on an address.

| Code | Path of `pc`, or action |
|---|---|
| `invite` | advisory, existing, (replace), insert, recheck, commit |
| `resend` | read (a transaction of its own), then as `invite` |
| `revoke` | claim, recheck, commit |
| collaborator `accept`, `acceptExisting` | find, identity, (membership), consume, join, commit |
| initial owner `accept`, `acceptExisting` | ownerFind, provisioning, identity, (membership), consume, join, own, activate, commit |
| `createOrganization` | `CreateOrganization`: one step, nobody sees its rows before |
| `resendInitialOwnerInvitation` | lockOrg, previous, replace, insert, claimOrg, commit |
| `changeAccessStatus` to DISABLED | readOrg, claimOrg, members, bump, open, close, commit |
| suspend, reactivate, remove | member, claimMember, recheck, commit |

A new row refers to the Organization and shares its lock, so an acceptance waits for the
`FOR UPDATE` of a resend but not for an UPDATE of the status. `expired` is the clock: an acceptance
takes the time before it begins and so may consume what expires meanwhile. The routes of
collaborators call `CollaboratorInvitationService`; `InvitationService` and
`InvitationRepository` are called by no controller and are left out. Mails, grants, passwords and
sessions are left out; the check of grants is a reason to fail.

### From code to model: `Structure`

| Code | Path of `pc` |
|---|---|
| `createCompany` | insert, commit |
| `renameCompany` | readCompany, claim, commit |
| `deactivateCompany` | lock, children, set, commit |
| `reactivateCompany` | lock, set, commit |
| `createBusinessScope` | lock, insert, commit |
| `updateBusinessScope` | readScope, claim, commit |
| `deactivateBusinessScope`, `reactivateBusinessScope` | readScope, lock, set, commit |

Both triggers run with the write, on what its statement sees. A unique index waits for whoever is
writing the same key and fails if it is still there (`IndexHolders`, `KeyTaken`). A label stands
for everything a scope is described by and `Key` for what the index keeps of it: type, normalized
name, normalized identifier. The actor's recheck is one of the reasons to fail.

### From code to model: `Credentials`

One identity and one source address. Statements outside a transaction commit at once (`Store`),
those inside wait, sweep and commit like the ones of the other modules.

| Code | Path of `pc` |
|---|---|
| `login` | isLocked, identity, then clear, open, or failure, upsert for both buckets |
| `findValidSession` | find, renew |
| `logout` | logout |
| `completeRequiredPasswordChange` | find, renew, required, sessions, sweep, commit, then open |
| reset `request` | isLocked, failure, upsert (both), findIdentity, invalidate, commit |
| `resetPassword` | readLink, claim, password, sessions, sweep, commit |

A password is the number of changes before it, so that a login compares what it read with what its
caller knew. An UPDATE waits for a row's writer only if the row matches it. Links and sessions to
end are the ones of the UPDATE's snapshot, which for sessions (`sessions`) comes after the password
is written; each is looked at again once it is locked. The two
buckets of a failure are counted one after the other, in either order; they are independent rows.
`PasswordResetService.createToken` and `consumeToken` are called by no route.

### From code to model: the pages

`CompaniesPage`: a *load* is a run of `refresh`: its GETs are answered at different moments, a newer
run aborts it, and what had been read by then may still be set. A *post* is a mutation: sent,
accepted by the server (which is `StructureRegister`, one step per request: `Structure` implements
it) and answered; either message may be lost. `forms[x]` is the row an edit form was filled from
when it was mounted, which may not be the row in the list by now: text and `expectedVersion` come
from two places. A list has the first fifty rows by name that match a search text: `Some` answers
any selection of the rows, so a row its user has edited may be missing. `PlatformPages` has the same
shape for `load`, `useEffect` and `submit` of its three pages; nothing aborts a GET there. A search
text is the set of Organizations it matches. `WebApp` opens one page, which loads at once, and lets
its user act once `/api/auth/me` has answered. A redirect, a link or a sign-out ends the behaviour:
the state of the page is gone.

## 3. Runs

In the runs of `Governance` three members are enough for an owner, a successor and a bystander; two
slots for every pair of transactions; `race` has a third slot and the two members it takes for
ownership to go and return. `MaxBegun` bounds the requests begun, `MaxSessions` the logins per
member; one more proposal exists than `MaxBegun`, so that an insert never lacks a row. `MaxAhead` is
1 where versions are sent and compared (`transfer`, `lifecycle`): one commit between a read and a
claim makes a version that was ahead the present one.

| Run | Bounds | Asks |
|---|---|---|
| `transfer` | 2 slots, 3 members, 3 requests, owner, Administrators and Platform | `OwnerIsActiveAdministrator`, `RegisterIInv`; `ImplementsRegister`: every commit is one step of `OwnershipRegister`; `ChangesCounted`; `EvidenceIsFaithful` |
| `race` | 3 slots, 2 members, 3 requests, 2 sessions | `OnePendingOffer`, `PendingOfferIsOwners`, `SessionsEndWithChange`, `OfferResolvedOnce`, `TransferByAcceptance` |
| `lifecycle` | 2 slots, 3 members in any role, 2 grants, 2 requests, versions 1 ahead | `TypeOK`, `RegisterIInv`, `EvidenceIsFaithful` |
| `progress` | 2 slots, 2 members, 3 requests, fairness | `RequestsEnd` |
| `invitations` | 2 slots, 2 people of any standing, 3 requests, 5 invitations | `TypeOK`, `InvitationIInv`, `OwnerInvitationClosed`, `OwnerCameByInvitation`, `MembershipWritesCounted`; `ImplementsBook`: every commit is one step of `InvitationBook` |
| `structure` | 2 slots, 2 Companies and 2 scopes, at most 3 of them at the start, 3 spellings of 2 identities, 3 requests | `TypeOK`, `StructureIInv`, `ActiveScopeHasActiveCompany`, `NoDuplicateStructure`, `NoCircleOfWaits`, `StructureEvidence`; `ImplementsRegister`: every commit is one step of `StructureRegister` |
| `credentials` | 2 slots, 2 sessions, 2 links, 3 requests, 2 ticks, a lock after 2 failures | `TypeOK`, `RevokedForGood`, `FailuresCounted`, `OnlyIssuesCircle`; `ImplementsBook`: every commit is one step of `CredentialBook` |
| `web` | 3 loads, 2 posts and 1 change by others (companies); 2 Organizations, 3 GETs, 2 posts, 1 change by others (Platform); 5 of these in all | `WebIInv`, the inductive invariants of both kinds of page; `OwnEditsShown`, `EditReplacesWhatWasShown`, `AppliedToWhatWasShown` |
| `outbox` | 2 messages, 1 tick, batch of 1, 1 fault | `DeliveryIInv`, `ImplementsMailbox`: the outbox is a `Mailbox`; `SettledIsFinal` |
| `outbox_settles` | 1 message, 1 tick, 3 faults, fairness | `EveryMessageSettles` |
| `stale_actor` | 2 slots, 2 suspensions | violates `StaleActorRefused` |
| `late_proposal` | 2 slots, suspend and propose | violates `PendingSuccessorActive` |

In `invitations` the Organization is not there yet, or its owner has just invited somebody; two
people are an owner and a guest, or two guests, who may be strangers, have an identity, or be
former members. Three requests are enough for one to act between the reads and the writes of
another, on what a third had begun. In `structure` any structure of at most three rows (`MaxStart`)
that keeps the register's promises may be there at the start, so three requests reach what longer
histories would; two rows of each kind are enough for two to want the same name or to be locked
crosswise, and with three of them a Company or a scope may still be created. In `credentials` the
tick is as long as a lock and as the life of a link, an idle session lives two and any session
three, so an idle session expires and a renewal meets the absolute limit. The identity starts with
one session and one or two live links; the other rows let one login and, with one link, one more
request for a link succeed. Two live links let two requests for a link meet in a circle of waits.
In `web` three loads are the one on mount and two that overlap it; page size 1 makes a list of two
Organizations continue. `MaxEvents` leaves out only the behaviours that use all of loads, posts and
changes by others at once: five of them let two loads overlap between two posts, or a change by
others come between a form and its post.

Two messages are enough in `outbox` for one to replace the other and for a batch to leave one
behind. One tick is enough for overlap: it is free to begin again when its batch is picked, while
the deliveries it has started go on, and the request's own delivery is another call. `MaxFaults`
bounds crashes, shutdowns, failed statements and rollbacks of closing transactions; the provider
may refuse, or lose its answer, any number of times. In `outbox_settles` one message is enough: the
sweeps, which settle what nothing else does, treat each message alone; messages of the Platform
(no `organizationId`) are in this run.

Members, people and slots, messages, rows of the structure, sessions and links, and names are
interchangeable; all safety runs that pass use such a symmetry. Deadlock is checked
in every run but `web`: a bounded behaviour of the API's modules may stop only in `Quiescent`, with
no request under way, and the outbox never stops. A page does stop when its loads and posts are
used up, and a form whose request the network lost stays disabled for good.

**Fairness.** `progress` assumes weak fairness of each slot's next statement: Node keeps running the
promise it has begun and PostgreSQL serves statements. Weak fairness of `DeadlockVictim`: it aborts
one transaction of a cycle after `deadlock_timeout`. No fairness of failures, logins or arrivals:
requests end without them. Row locks are taken in turn; a request waits for a finite number of
bounded transactions, so weak fairness is enough here.

`outbox_settles` assumes weak fairness of the timer (`setInterval`), of each sweep and of the batch
(PostgreSQL answers), of the COMMIT of an open Platform transaction, of the clock (`Age`), of the
exit after a shutdown and of `Restart`: somebody restarts a server that is down. Nothing is assumed
of the provider or of any call of `deliver`: a message settles even if no delivery ever ends,
because a sweep expires it. That is also all the code promises a given message. A batch is the 25
oldest PENDING rows, so 25 that the provider keeps refusing can hold it until they expire, and a
password reset whose first delivery failed then expires unsent after its 30 minutes.

### What the code does not do

* `stale_actor`: the recheck before COMMIT (`tenant-transaction.ts:48-61`) is a plain read. Two
  Administrators who suspend each other both pass it before either commits. The README of the
  repository (lines 167-169) promises "immediate stale-access refusal".
* `late_proposal`: a proposal inserted while its successor is being suspended survives, PENDING,
  against the test at `collaborator-lifecycle.service.spec.ts:114`. The harm is small: accept
  rereads the successor, and `OwnerIsActiveAdministrator` holds all the same.

Other things are not promised anywhere, so that they are stated as what holds and not as findings.

The evidence of `replaceGrants` names the version its handler read, but the UPDATE claims the
`expectedVersion` of the caller, which is not compared with that read
(`collaborator-lifecycle.service.ts:83, 123, 173-183`). When it is ahead, and another request
commits in between, the evidence names the older version and the grants of then.
`EvidenceIsFaithful` says so of this case (`ReplacedAhead`) and is exact of every other.

A failed delivery writes its failure code into its row by id
(`notification.service.ts:121-129`), also when a sweep, a resend or another call has settled it
meanwhile: a DELIVERED message may carry a failure. `SettledIsFinal` says that nothing else of the
row changes (`RecordedLate`).

A scope's status is read before its Company is locked
(`organization-admin.service.ts:411-415`). Of two requests that deactivate a scope at once, the
second writes what is there already, with evidence of a change that the first one made.
`StructureEvidence` says that the evidence tells the status the commit left, and that no change of
a status is committed without evidence of exactly this change.

A page may change the status of an Organization that its owner's acceptance has made ACTIVE
meanwhile: the acceptance moves no version (`initial-owner-acceptance.service.ts:193-197`), and
`AppliedToWhatWasShown` exempts it.

Two requests for a reset of one password may deadlock. Each ends the live links with an UPDATE of
several rows (`password-reset-http.service.ts:50`); with two links live each may have locked one
and wait for the other's. PostgreSQL tends to find the rows in the same order, but nothing
guarantees it; it aborts one of the two, whose caller asks again. `OnlyIssuesCircle` says that no
other transaction of `Credentials` is ever part of a circle.

## 4. Proofs

Every theorem holds for any values of the constants that satisfy the assumption named with it:
any sets of rows and of request slots, any bounds. Each module of proofs goes the same way: the
inductive invariant `...IInv` of the component's module, which TLC checks first; lemmas on the
statements of `RowStore` and `Handlers` (reads, writes of a locked row, COMMIT, ROLLBACK); one
lemma per action; and from the invariant the safety properties, the action properties and the
refinement, step by step.

### Ownership, lifecycle, interventions

For any sets of members, proposals and request slots and any bounds, under
`GovernanceAssumption` only (the kinds of rows are disjoint, `None` is none of them, the roles
are roles):

* `TypeCorrect`: `Spec => []TypeOK`. `RequestShaped` inside it says which operation may stand at
  which statement, with what parameters; without it no action's typing follows.
* `OwnerInvariant`, `OwnerSafe`: `Spec => []OwnerIInv`, hence `[]OwnerIsActiveAdministrator`.
* `EveryChangeCounted`: `Spec => ChangesCounted`.

`OwnerIsActiveAdministrator` is not inductive: a demotion about to commit may be of the member an
acceptance is about to make the owner. `OwnerIInv` adds what prevents it:

1. `AdmittedAsAdmin`: a request's epoch is never ahead of its actor's, and while equal the actor is
   the active Administrator admitted - every commit that changes a member moves its epoch.
2. `SeenNotOwner`: a target read as a non-owner at a version still current is not the owner - an
   acceptance that makes it the owner moves its version in the same commit.
3. `PendingMember`: an uncommitted membership is exactly one version and one epoch ahead, and
   leaves the present owner its role.
4. `PendingOwner`: whoever holds the ownership row holds the new owner's row too before it can
   commit, and past the recheck that row is an active Administrator's.

All parts but the first speak of one slot; `GovernanceProofs` restates them for a slot (`SlotSafe`),
proves one lemma per kind of step (leaves the rows alone, locks a row, rolls back, commits) and
then one per action. The proof nowhere uses `CheckOwner`: the version claims and the recheck of the
epoch suffice, and the deferred triggers are a second line of defence.

`OfferProofs` (`OfferInvariant`, `OneProposal`, `ProposalIsOwners`, `ResolvedForGood`,
`TransfersAreAcceptances`) adds `OfferIInv`:

1. `OffersHeld`: a locked proposal is being cancelled, inserted or accepted, and what is
   uncommitted of it is one of three values; nobody rewrites a resolved one.
2. `InsertedAlone`: while an inserted proposal waits for its commit no other is or becomes PENDING,
   unless the same transaction holds it. This is what the partial unique index gives, on committed
   and uncommitted rows alike; the cancelling UPDATE alone misses what is inserted after it starts.
3. `OfferRead`: a proposal read as the owner's still names the same two members.
4. `AcceptHolds`: an acceptance holds its proposal, the ownership row and the former owner.

That a PENDING proposal is the present owner's rests on the recheck of the epoch: the inserter's
epoch moves in the commit that takes the ownership from it.

`RegisterProofs` (`TrailInvariant`, `ChangesRevokeSessions`, `EvidenceIsTrue`, `RegisterInvariant`,
`ServicesImplementRegister`) adds `TrailIInv`: the versions a request has read are not ahead of the
rows (`VersionsRead`); what it has written of a member is exactly its operation's change of the
committed row, and past the revoking UPDATE the sessions covered are at least those the member had
when it was written (`MembersHeld`); from claim to commit it holds the row it is about at the
version it has claimed, which is the one it has read but for grants claimed ahead of it
(`TargetHeld`, `OrgHeld`). A login may still open a session between the revoking UPDATE and the
COMMIT; `SessionsEndWithChange` is about the others, at every change. `OwnerIInv`, `OfferIInv` and
`TrailIInv` together are `RegisterIInv`, checked in `transfer` and `lifecycle`, and the refinement
of `OwnershipRegister` needs all of them: a commit is one step of it, and everything else, a
rollback or a victim of a deadlock included, stutters.

### The structure

Under `StructureAssumption` and the register's (`RegisterAssumption`): `StructureInvariant`,
`StructureTyped`, `ParentsStayActive`, `IdentitiesStayUnique`, `EvidenceIsTold`,
`StructureIsRegister`, `NobodyWaitsInCircle`. `StructureIInv` says which rows a transaction holds at
each statement, the Company it has locked and the one row it writes (`HoldsRows`, `WritesOne`); that
what it decided on under the Company's lock is still so (`DecidedUnderLock`: the parent is ACTIVE,
or has no ACTIVE scope); that its evidence agrees with both versions of the row (`EvidenceHolds`);
and that keys differ between committed and uncommitted rows in any combination (`KeysApart`). The
last is stronger than the property and needed: of two rows that take a key, one may be uncommitted.
A scope read before its Company is locked may have changed by then; the edited fields (`Told`) are
true because the claim compares the version. That a change of status is told is an induction of its
own (`StatusesTold`): a request has evidence of a status only if the one it has read is not the one
it was asked for; there are only two, so where the row changes it changes from the status told.

`NobodyWaitsInCircle` is about circles of any length, although TLC sees two slots: whoever may be
waited for waits only for someone who waits for nobody.

### The invitations

Under `InvitationAssumption`: `InvitationInvariant`, `InvitationsTyped`, `OwnerInvitationCloses`,
`OwnerByInvitation`, `MembershipsCounted`, `InvitationsAreBook`. `InvitationIInv`:

1. `OneAwaits`: one live invitation per address, committed or about to be.
2. `OwnerRows`: an open invitation of the owner only while PROVISIONING, and then only one; an
   owner came by the one accepted invitation.
3. `Knows`: what a request has read that nobody can undo. A resend that has locked the
   Organization knows the only open invitation; DISABLED, once it holds the Organization, has
   locked, or has still to lock, each open one.
4. `HoldsInvitations`, `HoldsMembers`, `HoldsOrganization`: which rows it holds at which statement,
   and what it has made of them: an invitation is ended, consumed or inserted; a membership is one
   version ahead, although an acceptance writes it by id and not by version.
5. `RoomLeft`: bookkeeping of the model, so that an insert finds a row.

The proofs show what carries the properties. One live invitation per address rests on the partial
unique index; the advisory lock, which `invite` takes on the address, is used by none of them.

### The outbox

For any finite set of messages, any ticks, batch size and number of faults, under
`OutboxAssumption` (its kinds are disjoint, the messages are finitely many, `Calls` names
operations):

* `DeliveryInvariant`: `Spec => []DeliveryIInv`.
* `OutboxIsMailbox`: `Spec => ImplementsMailbox`. A commit or a sweep is a `Change`, an acceptance
  of a new key a `Mail`, the first marking a `Deliver`; everything else, a second acceptance and a
  second marking among it, stutters.
* `SettledStaysFinal`: `Spec => SettledIsFinal`. The catch block's write of a settled row is the one
  step that has to be told apart (`RecordedLate`).

That DELIVERED is true is not inductive alone. `DeliveryIInv` adds that whoever is about to mark has
had an acceptance (`MailedBeforeDelivered`), that the mails are those of accepted keys
(`MailedOnce`), that nobody delivers before the commit (`DeliveredAfterCommit`: a call could
otherwise mark a row that is then stored over it), and that the rows a Platform transaction has
locked are still PENDING when it commits (`ClosingHoldsRows`: or it would expire a DELIVERED one).
`EnvelopeWhilePending` makes a retry always find its token. `OutboxProofs` proves one lemma per
action, then one lemma per action, or group of actions, for the refinement and for finality.

### The credentials

For any sessions, links, requests, durations and bounds, under `CredentialAssumption` (the kinds of
rows are disjoint, a lock lasts at least a tick, an idle session does not outlive any session):

* `CredentialsTyped`: `Spec => []TypeOK`; no session outlives its absolute expiry.
* `RevocationIsFinal`: `Spec => RevokedForGood`.
* `FailuresAreCounted`: `Spec => FailuresCounted`.
* `CredentialsKeepTheBook`: `Spec => ImplementsBook`.

None of the last three is inductive. `SessionsSafe` adds that an uncommitted value of a revoked
session is that revoked session, so a sweep that comes late changes nothing, and a renewal, which
looks at the committed row when it writes, finds it revoked. `CountInv` adds that nobody's
transaction holds a bucket, and that what a request has counted under the advisory lock is still
one more than the bucket has, unless a login, which takes no such lock, has cleared it since.
`BookIInv` says what a transaction holds of the links and the credential at each statement; a
`COMMIT` of a new link is an `Issue`, of a reset a `Reset`, of a required change a
`CompleteRequired`, and everything else stutters. That a reset changes the password while its link
is live follows from `Claimed`: the link is locked, and so stays live, from the claim to the commit.
`Steps` says once what a step may do to rows, slots and advisory locks; revocation and counting
both use it.

`CirclesAreOfIssues`: `Spec => []OnlyIssuesCircle`, for circles of any length. Whoever has locked a
session is sweeping (`SweepersHold`), holds the credential already and has only sessions before it,
which nobody locks without the credential; so a sweep waits for nobody. The proof attempt of the
property that stood here before, that there is no circle at all, failed at two requests for a link
and showed that it had held in TLC only because one link was live: see "What the code does not do".

### The pages

Under `PageAssumption` and `RegisterAssumption`, for any Companies, scopes and texts and any number
of loads, posts and changes by others:

* `PageInvariant`: `Spec => []PageIInv`, with the `Spec` of `WebApp`.
* `OwnEditsAreShown`: `Spec => []OwnEditsShown`.
* `EditsReplaceWhatWasShown`: `Spec => EditReplacesWhatWasShown`.
* `RegisterKeepsPromises`: `RegisterSpec` keeps names and identities unique and the parents of
  ACTIVE scopes active, so the server of the page, which `Structure` implements, keeps them too.

`PageIInv` says that every row the page lists, holds in a form, has read or has asked for is a copy
(`Copied`): never ahead of the server's, and with its text while the versions are equal. The server
keeps that true because no step of it lowers a version, or changes a text and not its version
(`MovesOn`). `LoadsFresh` says that only the newest load is under way and that it was sent after
every answer to an edit, which is why no row of the page that has set its answers is older;
`FormsShow` that a mounted form is filled from the row listed now, so text and `expectedVersion`
agree.

The Platform's pages, under `PlatformAssumption`, for any Organizations and collaborators, any size
of a page of the directory, and any number of GETs, posts and changes by others:

* `PlatformInvariant`: `Spec => []PlatformIInv`.
* `ChangesApplyToWhatWasShown`: `Spec => AppliedToWhatWasShown`.
* `WebInvariant`: `Spec => []WebIInv`, which is `PageIInv` and `PlatformIInv` behind the shell.

`PlatformIInv` has the same core: what a list, a GET or a post holds of an Organization is a copy
(`OrgCopy`), never ahead of the server, and at the same version as stored there (`Seen`) but for the
owner's acceptance, which moves no version. A change applies to what was shown because the server
compares the version, and the version sent is that of the row shown. The rest says why lists stay
copies. `ListOf` and `GetFits`: a list names each Organization once, in order, and a GET for more
brings only what is behind its cursor, so a page joined to the list repeats nothing (`Joined`).
`MergeFits`: the answer of a status change is merged into the very row its user saw; `LoadsOnce`
and the one post under way (the form is disabled meanwhile) say why no list and no second answer
comes in between, and `ServedMerge` that the merged row is what the server has, but for an
acceptance. The lifecycle page needs both: with an answer merged into a row of another version,
the next change would carry a version its user has not seen.

### Only model-checked

* `RequestsEnd` and `EveryMessageSettles`: liveness under fairness and ENABLED are out of the proof
  system's reach.
* `StaleActorRefused` and `PendingSuccessorActive`, which do not hold.

No module of the project declares a recursive operator.

## 5. Plan

Done: every module the inventory calls for, and a proof of every safety property and refinement the
passing runs check. What is left:

1. `StaleActorRefused`: the strongest statement that does hold, that a stale actor's commit began
   its recheck before the other's commit, could be stated and proved from `AdmittedAsAdmin`.
2. The hazards without a property: a batch held up by refused mails, a throttle read before the
   password is verified, a login across a reset. For each, what the code is
   to promise has to be settled first.

## 6. Not modelled

* **Row-level security** (`prisma/migrations`, `app.organization_id`): a filter on one setting of
  the connection, which `runTenantTransaction` sets before anything else; one Organization is
  modelled, so there is nothing to filter.
* **Permission presets and the capability catalog**: constants, and pure functions over them. A set
  of grants is a value of `Grants`.
* **Platform bootstrap**: two statements in one transaction, a look whether there is a Platform
  Administrator and the INSERT of one. Two bootstraps at once with different addresses would both
  find none, and nothing in the schema stops the second; the command is run once, by hand.
* **The other pages** (overview, portfolio, collaborators, ownership, permissions, login, bootstrap,
  creation of an Organization, passwords) and the middleware: forms and lists of the same shape as
  the four modelled, with fewer states; the middleware only looks whether there is a cookie. The
  shared package holds types and schemas.
* **Code no route reaches**: `InvitationService` and `InvitationRepository`,
  `PasswordResetService.createToken` and `consumeToken`.
* **Below the properties' sight**: HTTP validation and CSRF, wording of mails and pages, encryption
  of envelopes, hashing of passwords and tokens.

In `Governance` the clock appears only as expiry of a proposal, which may happen at any moment
after it is PENDING; `accept` takes the time once, so the second comparison with `expiresAt` agrees
with the first. Serialization failures do not exist at READ COMMITTED.
