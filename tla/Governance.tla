----------------------------- MODULE Governance -----------------------------
(***************************************************************************)
(* Who may act in an Organization and who owns it: the transactions of     *)
(* OwnershipService, CollaboratorLifecycleService and the two Platform     *)
(* interventions of OrganizationService that change memberships, with the  *)
(* guard that admits a request and the tenant transaction around it.       *)
(*                                                                         *)
(* One Organization.  Its rows in the RowStore are Org, Own (the           *)
(* OrganizationOwnership row, whose value is the owner's membership), one  *)
(* row per member and one per ownership transfer proposal.                 *)
(*                                                                         *)
(* A request walks through the SQL statements of its handler, one step per *)
(* statement; req[r].pc names the statement it runs next.  Statements of   *)
(* different requests interleave freely.                                   *)
(***************************************************************************)
EXTENDS Integers, FiniteSets, RowStore

CONSTANTS Members, Offers, Own, Org,
          Grants,       \* the grant sets an Administrator may submit
          Ops,          \* the operations requests may call
          StartRoles,   \* <<status, profile>> of the members that are not the owner
          StartPending, \* does an earlier request's proposal await its successor?
          MaxBegun,     \* bound: requests begun in a behaviour
          MaxAhead,     \* bound: how far an expectedVersion is ahead of its row
          MaxSessions   \* bound: sessions opened per member

OwnerOps    == {"promote", "demote", "propose"}
ChangeOps   == {"suspend", "reactivate", "remove"}
TenantOps   == OwnerOps \cup ChangeOps \cup {"accept", "replaceGrants"}
PlatformOps == {"platformSuspend", "changeAccess"}
AllOps      == TenantOps \cup PlatformOps

Statuses       == {"ACTIVE", "SUSPENDED", "REMOVED"}
Profiles       == {"Administrator", "User"}
AccessStatuses == {"ACTIVE", "SUSPENDED", "DISABLED"}
OfferStatuses  == {"ABSENT", "PENDING", "CANCELLED", "ACCEPTED"}

MemberRow == [status : Statuses, profile : Profiles, epoch : Nat, version : Nat,
              grants : Grants]
OfferRow  == [status : OfferStatuses, proposer : Members \cup {None},
              successor : Members \cup {None}]
OrgRow    == [status : AccessStatuses, version : Nat]
Rows      == Members \cup Offers \cup {Own, Org}

ASSUME GovernanceAssumption ==
  /\ Ops \subseteq AllOps
  /\ Own # Org /\ {Own, Org} \cap (Members \cup Offers) = {}
  /\ Members \cap Offers = {}
  /\ None \notin Members \cup Offers \cup Requests \cup Grants \cup AllOps
  /\ StartRoles \subseteq Statuses \X Profiles
  /\ StartPending \in BOOLEAN
  /\ IsFiniteSet(Offers) /\ Cardinality(Offers) > MaxBegun
  /\ MaxBegun \in Nat /\ MaxAhead \in Nat /\ MaxSessions \in Nat \ {0}

VARIABLES req,       \* the request slots
          session,   \* session[m]: number of sessions m has opened
          revoked,   \* revoked[m]: m's sessions up to this one are revoked
          expired,   \* proposals whose expiresAt has passed
          evidence,  \* AuditEvidence rows
          begun      \* requests begun so far

otherVars == <<session, revoked, expired, evidence, begun>>
vars == <<rowVars, req, otherVars>>

Stages == {"idle", "access", "owner", "target", "claim", "cancel", "cancelling",
           "insert", "revoke", "recheck", "check", "commit", "offer", "successor",
           "ownerRow", "former", "acceptClaim", "ownership", "bump", "share",
           "orgRead", "orgOwner", "orgClaim"}

\* A slot without a request.  cut[m]: the sessions of m that its commit revokes;
\* had[m]: for the properties, those m had opened when the request wrote its row.
Idle == [pc |-> "idle", op |-> None, actor |-> None, target |-> None,
         offer |-> None, status |-> None, grants |-> None, version |-> 0,
         epoch |-> 0, seen |-> None, todo |-> {}, cut |-> [m \in Members |-> 0],
         had |-> [m \in Members |-> 0]]

ActiveAdmin(row) == row.status = "ACTIVE" /\ row.profile = "Administrator"

\* Every membership write that counts as an access change.
Bumped(row) == [row EXCEPT !.epoch = @ + 1, !.version = @ + 1]

NoOffer == [status |-> "ABSENT", proposer |-> None, successor |-> None]

\* The proposal an earlier request left.
StartOffer == IF StartPending THEN CHOOSE p \in Offers : TRUE ELSE None

\* Memberships are created ACTIVE at epoch 0 and version 1; one that is not has
\* been through the change that made it so, and that revoked its sessions.
StartEpoch(m, owner, role) == IF m # owner /\ role[m][1] # "ACTIVE" THEN 1 ELSE 0

\* An Organization that is ACTIVE, with an active Administrator as its owner,
\* and perhaps a PENDING proposal of that owner to another one.
StartRow(x, owner, role, g, successor) ==
  CASE x = Org -> [status |-> "ACTIVE", version |-> 1]
    [] x = Own -> owner
    [] x \in Offers -> IF x # StartOffer THEN NoOffer
                       ELSE [status |-> "PENDING", proposer |-> owner, successor |-> successor]
    [] OTHER -> [status  |-> IF x = owner THEN "ACTIVE" ELSE role[x][1],
                 profile |-> IF x = owner THEN "Administrator" ELSE role[x][2],
                 epoch |-> StartEpoch(x, owner, role),
                 version |-> StartEpoch(x, owner, role) + 1, grants |-> g]

Init ==
  /\ \E owner, successor \in Members, role \in [Members -> StartRoles], g \in Grants :
       /\ owner # successor /\ role[owner] = role[successor]
       /\ StartPending => role[successor] = <<"ACTIVE", "Administrator">>
       /\ InitRows([x \in Rows |-> StartRow(x, owner, role, g, successor)])
       /\ revoked = [m \in Members |-> StartEpoch(m, owner, role)]
  /\ req = [r \in Requests |-> Idle]
  /\ session = [m \in Members |-> 1]
  /\ expired = {}
  /\ evidence = {}
  /\ begun = 0

-----------------------------------------------------------------------------
(***************************************************************************)
(* Moving a request along.                                                 *)
(***************************************************************************)
At(r, stage) == req[r].pc = stage

Goto(r, stage) == req' = [req EXCEPT ![r].pc = stage]

\* A statement that only reads, and the throw that rolls the transaction back.
Continue(r, stage) == Goto(r, stage) /\ UNCHANGED <<rowVars, otherVars>>

\* Mutation: an error answered without ending the transaction.
AbortWithoutRollback(r) ==
  req' = [req EXCEPT ![r] = Idle] /\ UNCHANGED <<rowVars, otherVars>>

Abort(r) ==
  /\ RollbackRows(r)
  /\ req' = [req EXCEPT ![r] = Idle]
  /\ UNCHANGED otherVars

ContinueIf(ok, r, stage) == IF ok THEN Continue(r, stage) ELSE Abort(r)

AfterAccess(op) ==
  CASE op \in OwnerOps -> "owner" [] op = "accept" -> "offer" [] OTHER -> "target"

AfterTarget(op) == IF op = "propose" THEN "cancel" ELSE "claim"

AfterClaim(op) ==
  IF op \in {"demote", "suspend", "remove", "platformSuspend"} THEN "cancel" ELSE "revoke"

\* Mutation: demote, suspend and remove cancel proposals and revoke no session.
AfterCancelKeepingSessions(op) ==
  CASE op = "propose" -> "insert" [] op = "changeAccess" -> "check" [] OTHER -> "recheck"

AfterCancel(op) ==
  CASE op = "propose" -> "insert" [] op = "changeAccess" -> "check" [] OTHER -> "revoke"

\* Mutation: a Platform intervention ends in the recheck of tenant requests.
AfterRevokeRechecking(q) ==
  IF q.op = "changeAccess" /\ q.status = "DISABLED" THEN "cancel" ELSE "recheck"

AfterRevoke(q) ==
  CASE q.op = "changeAccess" -> (IF q.status = "DISABLED" THEN "cancel" ELSE "check")
    [] q.op = "platformSuspend" -> "check"
    [] OTHER -> "recheck"

-----------------------------------------------------------------------------
(***************************************************************************)
(* Admission.  AuthGuard reads the session, then AccessService reads the   *)
(* membership: a tenant request carries the epoch and profile it saw then. *)
(***************************************************************************)
SessionLive(m) == session[m] > revoked[m]

\* The inputs of a request, by operation.  An expectedVersion is any positive
\* integer, a version that nobody has been shown yet included.
AcceptCalls == {[Idle EXCEPT !.op = "accept", !.offer = p] :
                  p \in {p \in Offers : db[p].status # "ABSENT"}}

AccessCalls == {[Idle EXCEPT !.op = "changeAccess", !.status = sv[1], !.version = sv[2]] :
                  sv \in AccessStatuses \X (1..db[Org].version + MaxAhead)}

GrantCalls(m) == {[Idle EXCEPT !.op = "replaceGrants", !.target = m, !.grants = gv[1],
                               !.version = gv[2]] :
                    gv \in Grants \X (1..db[m].version + MaxAhead)}

TargetCalls(op) == {[Idle EXCEPT !.op = op, !.target = m] : m \in Members}

Calls(op) ==
  CASE op = "accept" -> AcceptCalls
    [] op = "changeAccess" -> AccessCalls
    [] op = "replaceGrants" -> UNION {GrantCalls(m) : m \in Members}
    [] OTHER -> TargetCalls(op)

\* A tenant request passes SessionGuard.
Authenticate(r, actor, op) ==
  /\ At(r, "idle") /\ begun < MaxBegun
  /\ op \in Ops \cap TenantOps
  /\ SessionLive(actor)
  /\ \E call \in Calls(op) :
       req' = [req EXCEPT ![r] = [call EXCEPT !.pc = "access", !.actor = actor]]
  /\ begun' = begun + 1
  /\ UNCHANGED <<rowVars, session, revoked, expired, evidence>>

\* AccessService.resolveEffectiveAccess, and the profile check of the services.
ResolveAccess(r) ==
  LET me == db[req[r].actor] IN
  /\ At(r, "access")
  /\ req' = [req EXCEPT ![r] =
       IF ActiveAdmin(me) /\ db[Org].status = "ACTIVE"
       THEN [@ EXCEPT !.pc = AfterAccess(req[r].op), !.epoch = me.epoch]
       ELSE Idle]
  /\ UNCHANGED <<rowVars, otherVars>>

\* A Platform Administrator's request: no membership, so no recheck later.
PlatformRequest(r, op) ==
  /\ At(r, "idle") /\ begun < MaxBegun
  /\ op \in Ops \cap PlatformOps
  /\ \E call \in Calls(op) :
       req' = [req EXCEPT ![r] =
         [call EXCEPT !.pc = IF op = "changeAccess" THEN "orgRead" ELSE "share"]]
  /\ begun' = begun + 1
  /\ UNCHANGED <<rowVars, session, revoked, expired, evidence>>

-----------------------------------------------------------------------------
(***************************************************************************)
(* What r's current statement waits for.  An UPDATE waits only for rows    *)
(* its WHERE clause matches in the committed state.                        *)
(***************************************************************************)
\* Mutation: claims that forget the version they have read.
ClaimMatchesAnyVersion(r, row) ==
  LET q == req[r] IN
  CASE q.op = "replaceGrants" -> row.version = q.version
    [] q.op \in ChangeOps -> row.status = q.seen.status
    [] q.op = "promote" -> row.status = "ACTIVE" /\ row.profile = "User"
    [] OTHER -> row.status = "ACTIVE"

\* WHERE of the membership claim of r.
ClaimMatches(r, row) ==
  LET q == req[r] IN
  CASE q.op = "replaceGrants" -> row.version = q.version
    [] q.op = "platformSuspend" -> row.status = "ACTIVE" /\ row.version = q.seen.version
    [] q.op \in ChangeOps -> row.status = q.seen.status /\ row.version = q.seen.version
    [] q.op = "promote" -> /\ row.status = "ACTIVE" /\ row.profile = "User"
                           /\ row.version = q.seen.version
    [] OTHER -> ActiveAdmin(row) /\ row.version = q.seen.version

\* Mutation: a look for other PENDING proposals in place of the unique index.
IndexHoldersOfNobody(r) == {}

\* The partial unique index on PENDING proposals waits for an uncommitted
\* insert or cancellation of another transaction.
IndexHolders(r) ==
  UNION {Holders(r, p) : p \in {p \in Offers : "PENDING" \in {db[p].status, dirty[p].status}}}

Blockers(r) ==
  LET q == req[r] IN
  CASE q.pc = "claim" /\ ClaimMatches(r, db[q.target]) -> Holders(r, q.target)
    [] q.pc = "insert" -> IndexHolders(r)
    [] q.pc = "share" /\ db[Org].status = "ACTIVE" -> {lock[Org]} \ {None, r}
    [] q.pc = "acceptClaim" /\ db[q.offer].status = "PENDING" -> Holders(r, q.offer)
    [] q.pc = "ownership" /\ db[Own] = q.target -> Holders(r, Own)
    [] q.pc = "orgClaim" /\ db[Org].version = q.version -> Holders(r, Org)
    [] q.pc \in {"cancelling", "bump"} -> UNION {Holders(r, x) : x \in q.todo}
    [] OTHER -> {}

-----------------------------------------------------------------------------
(***************************************************************************)
(* The statements that read and claim a membership.                        *)
(***************************************************************************)
\* requireOwner
ReadOwner(r) ==
  /\ At(r, "owner")
  /\ ContinueIf(See(r, Own) = req[r].actor, r, "target")

AllowedChange(from, op) ==
  \/ from = "ACTIVE" /\ op \in {"suspend", "remove"}
  \/ from = "SUSPENDED" /\ op \in {"reactivate", "remove"}

StatusAfter(op) ==
  CASE op = "reactivate" -> "ACTIVE" [] op = "remove" -> "REMOVED" [] OTHER -> "SUSPENDED"

\* Mutation: grants and Platform suspensions of whoever is active, owner or not.
EligibleOwnerToo(r, row) ==
  LET q == req[r]
      owns == See(r, Own) = q.target
  IN CASE q.op = "promote" -> row.status = "ACTIVE" /\ row.profile = "User"
       [] q.op = "demote"  -> ActiveAdmin(row) /\ ~owns
       [] q.op = "propose" -> ActiveAdmin(row) /\ q.target # q.actor
       [] q.op \in ChangeOps -> ~owns /\ AllowedChange(row.status, q.op)
       [] OTHER -> row.status = "ACTIVE"

\* The target as each handler accepts it; its ownership is read with it.
Eligible(r, row) ==
  LET q == req[r]
      owns == See(r, Own) = q.target
  IN CASE q.op = "promote" -> row.status = "ACTIVE" /\ row.profile = "User"
       [] q.op = "demote"  -> ActiveAdmin(row) /\ ~owns
       [] q.op = "propose" -> ActiveAdmin(row) /\ q.target # q.actor
       [] q.op \in ChangeOps -> ~owns /\ AllowedChange(row.status, q.op)
       [] OTHER -> row.status = "ACTIVE" /\ ~owns

\* change() returns at once when the member already has the status.
AlreadyThere(r, row) ==
  /\ req[r].op \in ChangeOps
  /\ See(r, Own) # req[r].target /\ row.status = StatusAfter(req[r].op)

ReadTarget(r) ==
  LET q == req[r]
      row == See(r, q.target)
  IN /\ At(r, "target")
     /\ \/ /\ Eligible(r, row)
           /\ req' = [req EXCEPT ![r] = [q EXCEPT !.pc = AfterTarget(q.op), !.seen = row]]
           /\ UNCHANGED <<rowVars, otherVars>>
        \/ AlreadyThere(r, row) /\ Continue(r, "recheck")
        \/ ~Eligible(r, row) /\ ~AlreadyThere(r, row) /\ Abort(r)

\* Mutation: a Platform suspension that changes nothing but the status.
WrittenUncounted(q, row) ==
  CASE q.op = "promote" -> [Bumped(row) EXCEPT !.profile = "Administrator"]
    [] q.op = "demote"  -> [Bumped(row) EXCEPT !.profile = "User"]
    [] q.op = "replaceGrants" -> [Bumped(row) EXCEPT !.grants = q.grants]
    [] q.op = "platformSuspend" -> [row EXCEPT !.status = "SUSPENDED"]
    [] OTHER -> [Bumped(row) EXCEPT !.status = StatusAfter(q.op)]

\* The membership row an operation writes.
Written(q, row) ==
  CASE q.op = "promote" -> [Bumped(row) EXCEPT !.profile = "Administrator"]
    [] q.op = "demote"  -> [Bumped(row) EXCEPT !.profile = "User"]
    [] q.op = "replaceGrants" -> [Bumped(row) EXCEPT !.grants = q.grants]
    [] OTHER -> [Bumped(row) EXCEPT !.status = StatusAfter(q.op)]

\* q writes the row of m: the sessions m has opened so far.
SessionsSeen(q, m) == [q.had EXCEPT ![m] = session[m]]

ClaimTarget(r) ==
  LET q == req[r]
      row == db[q.target]
  IN /\ At(r, "claim") /\ Blockers(r) = {}
     /\ IF ClaimMatches(r, row)
        THEN /\ Update(r, q.target, Written(q, row))
             /\ req' = [req EXCEPT ![r] = [q EXCEPT !.pc = AfterClaim(q.op),
                                                   !.had = SessionsSeen(q, q.target)]]
             /\ UNCHANGED otherVars
        ELSE Abort(r)

-----------------------------------------------------------------------------
(***************************************************************************)
(* Cancelling and creating proposals.  The cancelling UPDATE fixes its     *)
(* rows when it starts; it waits for each that is locked, and then looks   *)
(* at the row's status again.                                              *)
(***************************************************************************)
Cancellable(r) ==
  {p \in Offers : /\ See(r, p).status = "PENDING"
                  /\ \/ req[r].op \in {"propose", "changeAccess"}
                     \/ See(r, p).successor = req[r].target}

BeginCancel(r) ==
  /\ At(r, "cancel")
  /\ req' = [req EXCEPT ![r].todo = Cancellable(r),
                        ![r].pc = IF Cancellable(r) = {} THEN AfterCancel(req[r].op)
                                  ELSE "cancelling"]
  /\ UNCHANGED <<rowVars, otherVars>>

CancelOffer(r, p) ==
  LET left == req[r].todo \ {p} IN
  /\ At(r, "cancelling") /\ p \in req[r].todo /\ Holders(r, p) = {}
  /\ IF db[p].status = "PENDING"
     THEN Update(r, p, [db[p] EXCEPT !.status = "CANCELLED"])
     ELSE UNCHANGED rowVars
  /\ req' = [req EXCEPT ![r].todo = left,
                        ![r].pc = IF left = {} THEN AfterCancel(req[r].op) ELSE @]
  /\ UNCHANGED otherVars

\* A new row gets an id nobody has.
FreshOffers == {p \in Offers : db[p].status = "ABSENT" /\ lock[p] = None}
FreshOffer == CHOOSE p \in FreshOffers : TRUE

\* create(): a second PENDING proposal violates the unique index (P2002).
InsertOffer(r) ==
  LET q == req[r]
      taken == \E p \in Offers : See(r, p).status = "PENDING"
  IN /\ At(r, "insert") /\ Blockers(r) = {}
     /\ \/ /\ ~taken
           /\ FreshOffers # {}
           /\ Update(r, FreshOffer, [status |-> "PENDING", proposer |-> q.actor,
                                     successor |-> q.target])
           /\ Goto(r, "recheck")
           /\ UNCHANGED otherVars
        \/ taken /\ Abort(r)

-----------------------------------------------------------------------------
(***************************************************************************)
(* Accepting a transfer.                                                   *)
(***************************************************************************)
\* Mutation: any Administrator accepts any proposal.
ReadOfferOfAnyone(r) ==
  LET q == req[r]
      p == See(r, q.offer)
  IN /\ At(r, "offer")
     /\ IF p.status = "PENDING" /\ q.offer \notin expired
        THEN /\ req' = [req EXCEPT ![r] = [q EXCEPT !.pc = "successor", !.target = p.proposer]]
             /\ UNCHANGED <<rowVars, otherVars>>
        ELSE Abort(r)

ReadOffer(r) ==
  LET q == req[r]
      p == See(r, q.offer)
  IN /\ At(r, "offer")
     /\ IF p.status = "PENDING" /\ p.successor = q.actor /\ q.offer \notin expired
        THEN /\ req' = [req EXCEPT ![r] = [q EXCEPT !.pc = "successor", !.target = p.proposer]]
             /\ UNCHANGED <<rowVars, otherVars>>
        ELSE Abort(r)

ReadSuccessor(r) ==
  /\ At(r, "successor")
  /\ ContinueIf(ActiveAdmin(See(r, req[r].actor)), r, "ownerRow")

ReadOwnerRow(r) ==
  /\ At(r, "ownerRow")
  /\ ContinueIf(See(r, Own) = req[r].target, r, "former")

ReadFormerOwner(r) ==
  /\ At(r, "former")
  /\ ContinueIf(ActiveAdmin(See(r, req[r].target)), r, "acceptClaim")

\* Mutation: the claim of the proposal does not ask whether it is PENDING still.
ClaimOfferTwice(r) ==
  LET p == req[r].offer IN
  /\ At(r, "acceptClaim") /\ Holders(r, p) = {}
  /\ Update(r, p, [db[p] EXCEPT !.status = "ACCEPTED"])
  /\ Goto(r, "ownership")
  /\ UNCHANGED otherVars

\* expiresAt is compared with the time ReadOffer took, so it cannot fail here.
ClaimOffer(r) ==
  LET p == req[r].offer IN
  /\ At(r, "acceptClaim") /\ Blockers(r) = {}
  /\ IF db[p].status = "PENDING"
     THEN /\ Update(r, p, [db[p] EXCEPT !.status = "ACCEPTED"])
          /\ Goto(r, "ownership")
          /\ UNCHANGED otherVars
     ELSE Abort(r)

ClaimOwnership(r) ==
  LET q == req[r] IN
  /\ At(r, "ownership") /\ Blockers(r) = {}
  /\ IF db[Own] = q.target
     THEN /\ Update(r, Own, q.actor)
          /\ req' = [req EXCEPT ![r] = [q EXCEPT !.pc = "bump", !.todo = {q.target, q.actor}]]
          /\ UNCHANGED otherVars
     ELSE Abort(r)

\* UPDATE of several memberships, row by row in any order: both owners for
\* accept, every member for changeAccess.
BumpMember(r, m) ==
  LET q == req[r]
      left == q.todo \ {m}
      done == [q EXCEPT !.todo = left, !.had = SessionsSeen(q, m)]
  IN /\ At(r, "bump") /\ m \in q.todo /\ Holders(r, m) = {}
     /\ Update(r, m, Bumped(See(r, m)))
     /\ req' = [req EXCEPT ![r] = IF left = {} THEN [done EXCEPT !.pc = "revoke"] ELSE done]
     /\ UNCHANGED otherVars

-----------------------------------------------------------------------------
(***************************************************************************)
(* Platform interventions.                                                 *)
(***************************************************************************)
\* suspendCollaborator: SELECT the active Organization FOR SHARE.
ShareOrganization(r) ==
  /\ At(r, "share") /\ Blockers(r) = {}
  /\ IF db[Org].status = "ACTIVE"
     THEN LockShare(r, Org) /\ Goto(r, "target") /\ UNCHANGED otherVars
     ELSE Abort(r)

AllowedAccess(from, to) ==
  \/ from = "ACTIVE" /\ to \in {"SUSPENDED", "DISABLED"}
  \/ from = "SUSPENDED" /\ to \in {"ACTIVE", "DISABLED"}

\* changeAccessStatus
ReadOrganization(r) ==
  LET q == req[r]
      org == See(r, Org)
  IN /\ At(r, "orgRead")
     /\ IF org.version = q.version /\ AllowedAccess(org.status, q.status)
        THEN /\ req' = [req EXCEPT ![r] =
                  [q EXCEPT !.pc = IF q.status = "ACTIVE" THEN "orgOwner" ELSE "orgClaim",
                            !.seen = org]]
             /\ UNCHANGED <<rowVars, otherVars>>
        ELSE Abort(r)  \* also the early return: nothing was written

ReadOrganizationOwner(r) ==
  /\ At(r, "orgOwner")
  /\ ContinueIf(ActiveAdmin(See(r, See(r, Own))), r, "orgClaim")

\* Mutation: the Organization is written without asking for its version again.
ClaimOrganizationBlindly(r) ==
  LET q == req[r] IN
  /\ At(r, "orgClaim") /\ Holders(r, Org) = {}
  /\ Update(r, Org, [status |-> q.status, version |-> q.version + 1])
  /\ req' = [req EXCEPT ![r] =
       IF q.status = "ACTIVE" THEN [q EXCEPT !.pc = "check"]
       ELSE [q EXCEPT !.pc = "bump", !.todo = Members]]
  /\ UNCHANGED otherVars

ClaimOrganization(r) ==
  LET q == req[r] IN
  /\ At(r, "orgClaim") /\ Blockers(r) = {}
  /\ IF db[Org].version = q.version
     THEN /\ Update(r, Org, [status |-> q.status, version |-> q.version + 1])
          /\ req' = [req EXCEPT ![r] =
               IF q.status = "ACTIVE" THEN [q EXCEPT !.pc = "check"]
               ELSE [q EXCEPT !.pc = "bump", !.todo = Members]]
          /\ UNCHANGED otherVars
     ELSE Abort(r)

-----------------------------------------------------------------------------
(***************************************************************************)
(* The end of every transaction.                                           *)
(***************************************************************************)
\* Whose sessions the handler revokes.
Affected(q) ==
  CASE q.op = "accept" -> {q.actor, q.target}
    [] q.op = "changeAccess" -> Members
    [] OTHER -> {q.target}

\* authSession.updateMany: the sessions that exist at this statement.
RevokeSessions(r) ==
  LET q == req[r] IN
  /\ At(r, "revoke")
  /\ req' = [req EXCEPT ![r] =
       [q EXCEPT !.pc = AfterRevoke(q),
                 !.cut = [m \in Members |-> IF m \in Affected(q) THEN session[m] ELSE 0]]]
  /\ UNCHANGED <<rowVars, otherVars>>

\* withTenantContext: the actor is still ACTIVE at the epoch it came with, or
\* at the next one when the handler itself bumped it (accept).
ExpectedEpoch(q) == IF q.op = "accept" THEN q.epoch + 1 ELSE q.epoch

\* The deferred owner triggers fire on the columns these operations write.
FiresTrigger(r) == Held(r) # {} /\ req[r].op \notin {"propose", "replaceGrants"}

\* Mutations: the end of a tenant transaction looks at the actor's status only;
\* it looks at nothing, and no deferred trigger does.
RecheckStatusOnly(r) ==
  /\ At(r, "recheck")
  /\ ContinueIf(See(r, req[r].actor).status = "ACTIVE",
                r, IF FiresTrigger(r) THEN "check" ELSE "commit")

RecheckNothing(r) == At(r, "recheck") /\ Continue(r, "commit")

Recheck(r) ==
  LET q == req[r]
      me == See(r, q.actor)
  IN /\ At(r, "recheck")
     /\ ContinueIf(me.status = "ACTIVE" /\ me.epoch = ExpectedEpoch(q),
                   r, IF FiresTrigger(r) THEN "check" ELSE "commit")

\* nova_assert_active_organization_owner, run by COMMIT.
CheckOwner(r) ==
  /\ At(r, "check")
  /\ ContinueIf(See(r, Org).status = "ACTIVE" => ActiveAdmin(See(r, See(r, Own))),
                r, "commit")

\* The AuditEvidence row of the handler; a handler that returned early has none.
EvidenceOf(r) ==
  LET q == req[r]
      Row(x, from, to) == {[action |-> q.op, subject |-> x, before |-> from, after |-> to]}
  IN IF Held(r) = {} THEN {}
     ELSE CASE q.op = "accept" -> Row(Own, q.target, q.actor)
            [] q.op = "propose" ->
                 UNION {Row(p, None, q.target) :
                          p \in {p \in Held(r) : dirty[p].status = "PENDING"}}
            [] q.op = "changeAccess" -> Row(Org, q.seen.status, q.status)
            [] OTHER -> Row(q.target, q.seen.version, q.seen.version + 1)

Commit(r) ==
  /\ At(r, "commit")
  /\ CommitRows(r)
  /\ revoked' = [m \in Members |-> IF req[r].cut[m] > revoked[m] THEN req[r].cut[m]
                                   ELSE revoked[m]]
  /\ evidence' = evidence \cup EvidenceOf(r)
  /\ req' = [req EXCEPT ![r] = Idle]
  /\ UNCHANGED <<session, expired, begun>>

\* The process or its connection dies, or Prisma's transaction timeout fires.
Fail(r) == ~At(r, "idle") /\ Abort(r)

\* PostgreSQL rolls back a transaction on a cycle of waits.
OnWaitCycle(r) ==
  \E n \in 1..Cardinality(Requests) : \E c \in [0..n-1 -> Requests] :
    /\ c[0] = r
    /\ \A i \in 0..n-1 : c[(i + 1) % n] \in Blockers(c[i])

DeadlockVictim(r) == Blockers(r) # {} /\ OnWaitCycle(r) /\ Abort(r)

-----------------------------------------------------------------------------
(***************************************************************************)
(* The environment: logins and the passing of seven days.                  *)
(***************************************************************************)
Login(m) ==
  /\ session[m] < MaxSessions
  /\ session' = [session EXCEPT ![m] = @ + 1]
  /\ UNCHANGED <<rowVars, req, revoked, expired, evidence, begun>>

ExpireOffer(p) ==
  /\ db[p].status = "PENDING" /\ p \notin expired
  /\ expired' = expired \cup {p}
  /\ UNCHANGED <<rowVars, req, session, revoked, evidence, begun>>

-----------------------------------------------------------------------------
\* The next statement of r's handler.
Statement(r) ==
  \/ ResolveAccess(r) \/ ReadOwner(r) \/ ReadTarget(r) \/ ClaimTarget(r)
  \/ BeginCancel(r) \/ (\E p \in Offers : CancelOffer(r, p)) \/ InsertOffer(r)
  \/ ReadOffer(r) \/ ReadSuccessor(r) \/ ReadOwnerRow(r) \/ ReadFormerOwner(r)
  \/ ClaimOffer(r) \/ ClaimOwnership(r) \/ (\E m \in Members : BumpMember(r, m))
  \/ ShareOrganization(r) \/ ReadOrganization(r) \/ ReadOrganizationOwner(r)
  \/ ClaimOrganization(r)
  \/ RevokeSessions(r) \/ Recheck(r) \/ CheckOwner(r) \/ Commit(r)

Arrive(r) ==
  \/ \E actor \in Members, op \in Ops : Authenticate(r, actor, op)
  \/ \E op \in Ops : PlatformRequest(r, op)

\* A bounded behaviour is over: every request is answered, and no further one
\* fits the bounds on requests and sessions.
Quiescent ==
  /\ \A r \in Requests : At(r, "idle")
  /\ \/ begun = MaxBegun
     \/ \A m \in Members : ~SessionLive(m) /\ session[m] >= MaxSessions
  /\ UNCHANGED vars

Next ==
  \/ \E r \in Requests : Arrive(r) \/ Statement(r) \/ Fail(r) \/ DeadlockVictim(r)
  \/ \E m \in Members : Login(m)
  \/ \E p \in Offers : ExpireOffer(p)
  \/ Quiescent

Spec == Init /\ [][Next]_vars

\* The server keeps running what it has begun, and PostgreSQL breaks deadlocks.
Fairness == \A r \in Requests : WF_vars(Statement(r)) /\ WF_vars(DeadlockVictim(r))

FairSpec == Spec /\ Fairness
-----------------------------------------------------------------------------
(***************************************************************************)
(* Properties.                                                             *)
(***************************************************************************)
RowsTyped(rows) ==
  /\ DOMAIN rows = Rows
  /\ \A m \in Members : rows[m] \in MemberRow
  /\ \A p \in Offers : /\ rows[p] \in OfferRow
                       /\ rows[p].status # "ABSENT" => {rows[p].proposer, rows[p].successor}
                                                         \subseteq Members
  /\ rows[Own] \in Members
  /\ rows[Org] \in OrgRow

Request == [pc : Stages, op : AllOps \cup {None}, actor : Members \cup {None},
            target : Members \cup {None}, offer : Offers \cup {None},
            status : AccessStatuses \cup {None}, grants : Grants \cup {None},
            version : Nat, epoch : Nat, seen : MemberRow \cup OrgRow \cup {None},
            todo : SUBSET (Members \cup Offers), cut : [Members -> Nat],
            had : [Members -> Nat]]

AcceptStages == {"offer", "successor", "ownerRow", "former", "acceptClaim", "ownership"}
OrgStages    == {"orgRead", "orgOwner", "orgClaim"}

\* Which operations visit a statement, and what they carry there.
RequestShaped(q) ==
  /\ q.pc # "idle" => q.op \in AllOps
  /\ q.pc \in {"access", "recheck"} => q.op \in TenantOps
  /\ q.pc = "owner" => q.op \in OwnerOps
  /\ q.pc = "share" => q.op = "platformSuspend"
  /\ q.pc = "insert" => q.op = "propose"
  /\ q.pc \in AcceptStages => q.op = "accept"
  /\ q.pc \in OrgStages => q.op = "changeAccess"
  /\ q.pc = "bump" => q.op \in {"accept", "changeAccess"} /\ q.todo \subseteq Members
  /\ q.pc = "cancelling" => q.todo \subseteq Offers
  /\ q.pc \in {"target", "claim"} => q.op \notin {"accept", "changeAccess"}
  /\ q.pc = "claim" => q.op # "propose" /\ q.seen \in MemberRow
  /\ q.op \in TenantOps => q.actor \in Members
  /\ q.op \in AllOps \ {"accept", "changeAccess"} => q.target \in Members
  /\ q.op = "accept" =>
       q.offer \in Offers /\ (q.pc \notin {"access", "offer"} => q.target \in Members)
  /\ q.op = "changeAccess" => q.status \in AccessStatuses
  /\ q.op = "replaceGrants" => q.grants \in Grants

\* Every row, committed or not, and every request slot holds what its table
\* and its handler can put there (schema.prisma; the services' parameters).
TypeOK ==
  /\ RowsTyped(db) /\ RowsTyped(dirty)
  /\ lock \in [Rows -> Requests \cup {None}]
  /\ share \in [Rows -> SUBSET Requests]
  /\ req \in [Requests -> Request]
  /\ \A r \in Requests : RequestShaped(req[r])
  /\ session \in [Members -> Nat] /\ revoked \in [Members -> Nat]
  /\ expired \subseteq Offers
  /\ \A e \in evidence : e.action \in AllOps /\ e.subject \in Rows
  /\ begun \in Nat

\* The owner of the Organization is always an ACTIVE Administrator, whatever
\* transfers, suspensions, removals and demotions run at the same time
\* (ownership.service.ts, collaborator-lifecycle.service.ts, organization.service.ts).
OwnerIsActiveAdministrator == ActiveAdmin(db[db[Own]])

(***************************************************************************)
(* Why it holds: the parts of an inductive invariant.                      *)
(***************************************************************************)
\* The operations that may take the role of an owner from a member.
RoleOps == ChangeOps \cup {"demote", "platformSuspend"}

\* A tenant request's epoch is not ahead of its actor's; while it is current
\* the actor still is the active Administrator who was admitted.
AdmittedAsAdmin ==
  \A r \in Requests :
    LET q == req[r] IN
    q.pc \notin {"idle", "access"} /\ q.op \in TenantOps =>
      /\ q.epoch <= db[q.actor].epoch
      /\ q.epoch = db[q.actor].epoch => ActiveAdmin(db[q.actor])

\* A target read as a non-owner has not become the owner at the same version.
SeenNotOwner ==
  \A r \in Requests :
    LET q == req[r] IN
    q.pc = "claim" /\ q.op \in RoleOps =>
      /\ q.seen.version <= db[q.target].version
      /\ q.seen.version = db[q.target].version => db[Own] # q.target

\* An uncommitted membership is one version and one epoch ahead; it does not
\* take the owner's role away, and accept leaves status and profile alone.
PendingMember ==
  \A r \in Requests, m \in Members :
    lock[m] = r =>
      /\ req[r].pc \in {"cancel", "cancelling", "revoke", "recheck", "check", "commit", "bump"}
      /\ dirty[m].version = db[m].version + 1 /\ dirty[m].epoch = db[m].epoch + 1
      /\ m = db[Own] => ActiveAdmin(dirty[m])
      /\ req[r].op = "accept" => /\ dirty[m].status = db[m].status
                                 /\ dirty[m].profile = db[m].profile
      /\ req[r].pc = "bump" => m \notin req[r].todo
      /\ req[r].op # "propose"

\* Who holds the ownership row is an accept that will write its own actor into
\* it, and holds, or is about to lock, that member's row as well.
PendingOwner ==
  \A r \in Requests :
    LET q == req[r] IN
    lock[Own] = r =>
      /\ q.op = "accept" /\ dirty[Own] = q.actor
      /\ \/ q.pc = "bump" /\ q.actor \in q.todo
         \/ q.pc \in {"bump", "revoke", "recheck", "check", "commit"} /\ lock[q.actor] = r
      /\ q.pc \in {"check", "commit"} => ActiveAdmin(dirty[q.actor])

\* The inductive invariant (tenant-transaction.ts:46-61 and the claims above it).
OwnerIInv ==
  /\ OwnerIsActiveAdministrator
  /\ AdmittedAsAdmin /\ SeenNotOwner /\ PendingMember /\ PendingOwner

\* At most one committed proposal is PENDING (the partial unique index).
OnePendingOffer ==
  \A p, q \in Offers : db[p].status = "PENDING" /\ db[q].status = "PENDING" => p = q

\* A PENDING proposal was made by the member who owns the Organization now:
\* no transfer leaves a proposal of the former owner behind.
PendingOfferIsOwners ==
  \A p \in Offers : db[p].status = "PENDING" => db[p].proposer = db[Own]

(***************************************************************************)
(* Why they hold: what a request has read, and what it holds, of proposals *)
(* and of the ownership, slot by slot.                                     *)
(***************************************************************************)
CancelOps == {"propose", "changeAccess", "demote", "suspend", "remove", "platformSuspend"}

\* An accept from its claim of the ownership on, and from that of its row on.
OwningStages == {"bump", "revoke", "recheck", "check", "commit"}

\* The proposals the cancelling UPDATE of q may reach.
MayCancel(q, p) ==
  /\ db[p].status # "ABSENT"
  /\ q.op \in {"propose", "changeAccess"} \/ db[p].successor = q.target

\* While a proposer's epoch is current it owns the Organization; an accept has
\* read the members its proposal names, which never change.
OfferRead(q) ==
  /\ q.op = "propose" /\ q.pc \in {"target", "cancel", "cancelling", "insert", "recheck"} =>
       (q.epoch = db[q.actor].epoch => db[Own] = q.actor)
  /\ q.op = "propose" /\ q.pc \in {"cancel", "cancelling", "insert"} => q.target # q.actor
  /\ q.pc \in {"successor", "ownerRow", "former", "acceptClaim"} =>
       /\ db[q.offer].status # "ABSENT"
       /\ db[q.offer].proposer = q.target /\ db[q.offer].successor = q.actor
  /\ q.pc \in {"cancel", "cancelling"} => q.op \in CancelOps
  /\ q.pc = "revoke" => q.op # "propose"
  /\ q.pc = "cancelling" => \A p \in q.todo : MayCancel(q, p)

\* The three uncommitted values a proposal can have.
CancelledBy(q, p) ==
  /\ q.op \in CancelOps /\ MayCancel(q, p)
  /\ q.pc \in {"cancel", "cancelling", "insert", "revoke", "recheck", "check", "commit"}
  /\ db[p].status = "PENDING" /\ dirty[p] = [db[p] EXCEPT !.status = "CANCELLED"]

InsertedBy(q, p) ==
  /\ q.op = "propose" /\ q.pc \in {"recheck", "commit"} /\ q.target # q.actor
  /\ db[p].status = "ABSENT"
  /\ dirty[p] = [status |-> "PENDING", proposer |-> q.actor, successor |-> q.target]
  /\ q.pc = "commit" => db[Own] = q.actor

AcceptedBy(q, p) ==
  /\ q.op = "accept" /\ p = q.offer /\ q.pc \in OwningStages \cup {"ownership"}
  /\ db[p] = [status |-> "PENDING", proposer |-> q.target, successor |-> q.actor]
  /\ dirty[p] = [db[p] EXCEPT !.status = "ACCEPTED"]

OffersHeld(r, q) ==
  \A p \in Offers : lock[p] = r => CancelledBy(q, p) \/ InsertedBy(q, p) \/ AcceptedBy(q, p)

\* An accept on its way to commit holds its proposal, the ownership and, when
\* it has bumped them, both owners.
AcceptHolds(r, q) ==
  /\ q.op = "accept" /\ q.pc \in OwningStages \cup {"ownership"} => lock[q.offer] = r
  /\ q.op = "accept" /\ q.pc \in OwningStages =>
       /\ lock[Own] = r /\ db[Own] = q.target
       /\ lock[q.target] = r \/ (q.pc = "bump" /\ q.target \in q.todo)

\* While an inserted proposal waits for its commit no other can be or become
\* PENDING: its transaction holds those that still are.
InsertedAlone ==
  \A p, o \in Offers :
    p # o /\ lock[p] # None /\ dirty[p].status = "PENDING" =>
      /\ dirty[o].status # "PENDING"
      /\ db[o].status = "PENDING" => lock[o] = lock[p]

\* The inductive invariant (ownership.service.ts and the partial unique index).
OfferIInv ==
  /\ OnePendingOffer /\ PendingOfferIsOwners /\ InsertedAlone
  /\ \A p \in Offers : lock[p] = None => dirty[p] = db[p]
  /\ \A p \in Offers : db[p].status = "PENDING" => db[p].proposer # db[p].successor
  /\ \A r \in Requests :
       OfferRead(req[r]) /\ OffersHeld(r, req[r]) /\ AcceptHolds(r, req[r])

(***************************************************************************)
(* Why evidence and revocations tell the truth: the version a request has  *)
(* read, what exactly it has written, and whose sessions it has revoked.   *)
(***************************************************************************)
\* The operations on one membership.
MemberOps == AllOps \ {"accept", "propose", "changeAccess"}

\* Versions only grow, so one that is current has been current all along.
VersionsRead(q) ==
  /\ q.pc = "claim" => q.seen.version <= db[q.target].version
  /\ q.pc \in {"orgOwner", "orgClaim"} =>
       /\ q.seen \in OrgRow /\ q.seen.version = q.version
       /\ q.version <= db[Org].version
       /\ q.version = db[Org].version => q.seen.status = db[Org].status

\* The sessions are revoked, of everyone q has written.
HasRevoked(q) ==
  \/ q.pc \in {"recheck", "check", "commit"}
  \/ q.op = "changeAccess" /\ q.pc \in {"cancel", "cancelling"}

MembersHeld(r, q) ==
  /\ q.pc = "bump" => q.todo \subseteq Affected(q)
  /\ \A m \in Members :
       lock[m] = r =>
         /\ m \in Affected(q)
         /\ dirty[m] = IF q.op \in MemberOps THEN Written(q, db[m]) ELSE Bumped(db[m])
         /\ q.had[m] <= session[m]
         /\ HasRevoked(q) => q.had[m] <= q.cut[m]

\* replaceGrants claims the version it was called with, not the one it has read.
ClaimedVersion(q) == IF q.op = "replaceGrants" THEN q.version ELSE q.seen.version

\* From its claim to its commit an operation holds the row it is about, at the
\* version it has claimed and no older than the one it has read.
TargetHeld(r, q) ==
  /\ q.op \in MemberOps
  /\ q.pc \in {"cancel", "cancelling", "revoke"} \/ \E x \in Rows : lock[x] = r
  => /\ lock[q.target] = r
     /\ ClaimedVersion(q) = db[q.target].version
     /\ q.seen \in MemberRow /\ q.seen.version <= db[q.target].version

ChangeStages == {"bump", "revoke", "cancel", "cancelling", "check", "commit"}

OrgHeld(r, q) ==
  /\ lock[Org] = r <=> q.op = "changeAccess" /\ q.pc \in ChangeStages
  /\ lock[Org] = r => /\ q.seen.status = db[Org].status
                      /\ dirty[Org] = [status |-> q.status, version |-> db[Org].version + 1]

\* The inductive invariant (what the services write between claim and commit).
TrailIInv ==
  \A r \in Requests : /\ VersionsRead(req[r]) /\ MembersHeld(r, req[r])
                      /\ TargetHeld(r, req[r]) /\ OrgHeld(r, req[r])

\* All that is true of the rows, of what the transactions remember of them and of
\* what each of them has written so far: strong enough to follow from itself one
\* step before, and to imply every safety property below and above.
RegisterIInv == OwnerIInv /\ OfferIInv /\ TrailIInv

\* Ownership moves exactly when a PENDING proposal becomes ACCEPTED, in the same
\* commit, from its proposer to its successor.
TransferByAcceptance ==
  [][\A o, s \in Members :
       (db[Own] = o /\ db'[Own] = s /\ o # s) <=>
       (\E p \in Offers : /\ db[p] = [status |-> "PENDING", proposer |-> o, successor |-> s]
                          /\ db'[p] = [db[p] EXCEPT !.status = "ACCEPTED"])]_vars

\* A proposal that was CANCELLED or ACCEPTED stays so: neither a second accept
\* nor a late cancellation rewrites it.
OfferResolvedOnce ==
  [][\A p \in Offers : db[p].status \in {"CANCELLED", "ACCEPTED"} => db'[p] = db[p]]_vars

\* Every committed change of a membership moves its version and its access epoch
\* by exactly one: no claim overwrites a change it has not seen.
ChangesCounted ==
  [][\A m \in Members : db'[m] # db[m] => /\ db'[m].version = db[m].version + 1
                                          /\ db'[m].epoch = db[m].epoch + 1]_vars

\* No change forgets the sessions of whom it changes, the second no more than the
\* first: the commit that moves a member's access epoch revokes every session the
\* member had opened when the transaction wrote its row.
SessionsEndWithChange ==
  [][\A r \in Requests, m \in Members :
       lock[m] = r /\ db'[m].epoch # db[m].epoch => revoked'[m] >= req[r].had[m]]_vars

\* The grants of x are replaced at a version its handler had not read yet: the
\* caller's expectedVersion was ahead (collaborator-lifecycle.service.ts:83, 123).
ReplacedAhead(x) ==
  \E r \in Requests : /\ req[r].op = "replaceGrants" /\ lock[x] = r /\ lock'[x] # r
                       /\ req[r].seen.version < req[r].version

\* The evidence a commit adds tells what that commit did to the row: its value
\* just before and just after, not the values of an older read.  Only grants
\* replaced ahead of what was read leave evidence of the older version.
EvidenceTrue(e) ==
  LET x == e.subject IN
  CASE e.action = "accept" -> db[x] = e.before /\ db'[x] = e.after
    [] e.action = "propose" -> db'[x].status = "PENDING" /\ db'[x].successor = e.after
    [] e.action = "changeAccess" -> db[x].status = e.before /\ db'[x].status = e.after
    [] e.action = "replaceGrants" /\ ReplacedAhead(x) -> e.before < db[x].version
    [] OTHER -> db[x].version = e.before /\ db'[x].version = e.after

EvidenceIsFaithful == [][\A e \in evidence' \ evidence : EvidenceTrue(e)]_vars

\* The member the PENDING proposal names.
OfferedTo ==
  LET pending == {p \in Offers : db[p].status = "PENDING"}
  IN IF pending = {} THEN None ELSE db[CHOOSE p \in pending : TRUE].successor

Register == INSTANCE OwnershipRegister
              WITH owner  <- db[Own],
                   admins <- {m \in Members : ActiveAdmin(db[m])},
                   offer  <- OfferedTo

\* Whatever the interleaving of statements, each commit is one step of the
\* ownership register: the services implement its promise.
ImplementsRegister == Register!Spec

\* Every request that begins is answered: waits end, in a deadlock too.
RequestsEnd == \A r \in Requests : (req[r].pc # "idle") ~> (req[r].pc = "idle")

(***************************************************************************)
(* What the documentation says and the code does not do.                   *)
(***************************************************************************)
\* "Immediate stale-access refusal" (README.md:167): a tenant transaction whose
\* actor was suspended, removed or changed does not commit.
ActorCurrent(r) ==
  LET me == See(r, req[r].actor)
  IN me.status = "ACTIVE" /\ me.epoch = ExpectedEpoch(req[r])

StaleActorRefused ==
  [][\A r \in Requests :
       Commit(r) /\ req[r].op \in TenantOps /\ Held(r) # {} => ActorCurrent(r)]_vars

\* Suspending or removing a member cancels the PENDING proposal naming it
\* (collaborator-lifecycle.service.spec.ts:114).
PendingSuccessorActive ==
  \A p \in Offers : db[p].status = "PENDING" => db[db[p].successor].status = "ACTIVE"
=============================================================================
