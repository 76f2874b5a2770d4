---------------------------- MODULE Invitations ----------------------------
(***************************************************************************)
(* How people get into an Organization: the transactions that provision it *)
(* and that issue, replace, revoke and accept invitations                  *)
(* (OrganizationService, CollaboratorInvitationService and the two         *)
(* acceptance services), beside the Platform disabling the Organization    *)
(* and an Administrator changing a member.                                 *)
(*                                                                         *)
(* One Organization.  Its rows are Org, Own (the OrganizationOwnership     *)
(* row), one per person, identity and membership together, and one per     *)
(* invitation.  Mails, grants, passwords and sessions are left out.        *)
(***************************************************************************)
EXTENDS Handlers

CONSTANTS People, Invites, Own, Org,
          Ops,       \* the operations requests may call
          Starts,    \* "new": no Organization yet; "open": one with an owner;
                     \* "invited": one whose owner has invited somebody
          Standings, \* <<has an identity, membership status>> of the others
          MaxBegun   \* bound: requests begun in a behaviour

TenantOps   == {"invite", "resend", "revoke", "suspend", "reactivate", "remove"}
JoinOps     == {"accept", "acceptExisting"}
OwnerOps    == {"ownerAccept", "ownerAcceptExisting"}
PlatformOps == {"ownerResend", "disable"}
AllOps      == TenantOps \cup JoinOps \cup OwnerOps \cup PlatformOps

Kinds     == {"INITIAL_OWNER", "COLLABORATOR"}
Statuses  == {"NONE", "ACTIVE", "SUSPENDED", "REMOVED"}
Profiles  == {"Administrator", "User"}
OrgStates == {"ABSENT", "PROVISIONING", "ACTIVE", "DISABLED"}

\* A person: is there an identity, and its membership; every write of a
\* membership moves its version and its access epoch together.
PersonRow == [identity : BOOLEAN, status : Statuses, profile : Profiles, version : Nat]
InviteRow == [kind : Kinds \cup {None}, email : People \cup {None},
              consumed : BOOLEAN, revoked : BOOLEAN]
Rows      == People \cup Invites \cup {Own, Org}

ASSUME InvitationAssumption ==
  /\ Ops \subseteq AllOps
  /\ Own # Org /\ {Own, Org} \cap (People \cup Invites) = {}
  /\ People \cap Invites = {}
  /\ IsFiniteSet(Invites) /\ Cardinality(Invites) > MaxBegun + 1
  /\ None \notin People \cup Invites \cup Requests \cup Kinds \cup AllOps
  /\ Starts \subseteq {"new", "open", "invited"}
  /\ Standings \subseteq BOOLEAN \X (Statuses \ {"ACTIVE"})
  /\ MaxBegun \in Nat

VARIABLES advisory,  \* advisory[p]: the transaction holding the advisory lock of p's address
          expired,   \* invitations whose expiresAt has passed
          begun      \* requests begun so far

otherVars == <<expired, begun>>
vars == <<rowVars, req, advisory, otherVars>>

Idle == [pc |-> "idle", op |-> None, actor |-> None, epoch |-> 0, person |-> None,
         invite |-> None, found |-> None, version |-> 0, seen |-> None, todo |-> {}]

Issued(v) == v.kind # None
Live(v)   == Issued(v) /\ ~v.consumed /\ ~v.revoked

Unissued == [kind |-> None, email |-> None, consumed |-> FALSE, revoked |-> FALSE]
Fresh(kind, p) == [Unissued EXCEPT !.kind = kind, !.email = p]
Nobody   == [identity |-> FALSE, status |-> "NONE", profile |-> "User", version |-> 0]

\* The next unused row of Invitation: its id is a random UUID.
NewInvite(rows) == CHOOSE i \in Invites : rows[i] = Unissued

\* The invitation an owner came with, and the one the owner has sent.
FirstInvite == CHOOSE i \in Invites : TRUE
SentInvite  == CHOOSE i \in Invites : i # FirstInvite

StartInvite(i, start, owner, guest) ==
  CASE start # "new" /\ i = FirstInvite -> [Fresh("INITIAL_OWNER", owner) EXCEPT !.consumed = TRUE]
    [] start = "invited" /\ i = SentInvite -> Fresh("COLLABORATOR", guest)
    [] OTHER -> Unissued

\* A former member was created at version 1 and has been changed since.
StartPerson(p, start, owner, standing) ==
  CASE start = "new" -> [Nobody EXCEPT !.identity = standing[p][1]]
    [] p = owner -> [identity |-> TRUE, status |-> "ACTIVE", profile |-> "Administrator",
                     version |-> 1]
    [] OTHER -> [identity |-> standing[p][1], status |-> standing[p][2], profile |-> "User",
                 version |-> IF standing[p][2] = "NONE" THEN 0 ELSE 2]

StartRow(x, start, owner, guest, standing) ==
  CASE x = Org -> [status |-> IF start = "new" THEN "ABSENT" ELSE "ACTIVE", version |-> 1]
    [] x = Own -> IF start = "new" THEN None ELSE owner
    [] x \in Invites -> StartInvite(x, start, owner, guest)
    [] OTHER -> StartPerson(x, start, owner, standing)

Init ==
  /\ \E start \in Starts, owner, guest \in People, standing \in [People -> Standings] :
       InitRows([x \in Rows |-> StartRow(x, start, owner, guest, standing)])
  /\ req = [r \in Requests |-> Idle]
  /\ advisory = [p \in People |-> None]
  /\ expired = {}
  /\ begun = 0

-----------------------------------------------------------------------------
\* A statement that only reads, and a throw or an early return, which ends the
\* transaction with nothing written.
Continue(r, stage) == Goto(r, stage) /\ UNCHANGED <<rowVars, advisory, otherVars>>

ReleaseAdvisory(r) ==
  advisory' = [p \in People |-> IF advisory[p] = r THEN None ELSE advisory[p]]

Abort(r) ==
  /\ RollbackRows(r) /\ ReleaseAdvisory(r)
  /\ Become(r, Idle)
  /\ UNCHANGED otherVars

\* An UPDATE of row x, and where r goes on.
Write(r, x, v, stage) ==
  /\ Update(r, x, v)
  /\ Goto(r, stage)
  /\ UNCHANGED <<advisory, otherVars>>

Administers(row) == row.status = "ACTIVE" /\ row.profile = "Administrator"

Begin(r, call) ==
  /\ At(r, "idle") /\ begun < MaxBegun
  /\ Become(r, call)
  /\ begun' = begun + 1
  /\ UNCHANGED <<rowVars, advisory, expired>>

-----------------------------------------------------------------------------
(***************************************************************************)
(* The calls.  An Administrator's request carries the access epoch AuthGuard *)
(* saw; an acceptance looks at the clock before its transaction begins.    *)
(***************************************************************************)
FirstStage(op) ==
  CASE op = "invite" -> "advisory" [] op = "resend" -> "read" [] op = "revoke" -> "claim"
    [] op \in {"suspend", "reactivate", "remove"} -> "member"
    [] op \in JoinOps -> "find" [] op \in OwnerOps -> "ownerFind"
    [] op = "ownerResend" -> "lockOrg" [] OTHER -> "readOrg"

Call(op) == [Idle EXCEPT !.op = op, !.pc = FirstStage(op)]

BeginTenant(r, actor, op) ==
  /\ op \in Ops \cap TenantOps
  /\ Administers(db[actor]) /\ db[Org].status = "ACTIVE"
  /\ LET call == [Call(op) EXCEPT !.actor = actor, !.epoch = db[actor].version] IN
     \/ /\ op \in {"resend", "revoke"}
        /\ \E i \in Invites : /\ db[i].kind = "COLLABORATOR"
                              /\ Begin(r, [call EXCEPT !.invite = i, !.person = db[i].email])
     \/ /\ op \notin {"resend", "revoke"}
        /\ \E p \in People : Begin(r, [call EXCEPT !.person = p])

BeginAcceptance(r, op, i) ==
  /\ op \in Ops \cap (JoinOps \cup OwnerOps)
  /\ db[i].kind = (IF op \in OwnerOps THEN "INITIAL_OWNER" ELSE "COLLABORATOR")
  /\ i \notin expired
  /\ Begin(r, [Call(op) EXCEPT !.invite = i, !.person = db[i].email])

BeginPlatform(r, op, version) ==
  /\ op \in Ops \cap PlatformOps
  /\ db[Org].status # "ABSENT" /\ version <= db[Org].version
  /\ Begin(r, [Call(op) EXCEPT !.version = version])

\* OrganizationService.createOrganization: nobody else sees its rows before it
\* commits, so its statements are one step.
CreateOrganization(p) ==
  /\ db[Org].status = "ABSENT" /\ begun < MaxBegun
  /\ db' = [db EXCEPT ![Org].status = "PROVISIONING",
                      ![NewInvite(db)] = Fresh("INITIAL_OWNER", p)]
  /\ dirty' = db'
  /\ begun' = begun + 1
  /\ UNCHANGED <<lock, share, req, advisory, expired>>

-----------------------------------------------------------------------------
(***************************************************************************)
(* invite, resend and revoke.                                              *)
(***************************************************************************)
\* withTenantContext: the actor is still ACTIVE at the epoch it came with.
ActorCurrent(r) ==
  LET me == db[req[r].actor] IN me.status = "ACTIVE" /\ me.version = req[r].epoch

\* resend reads the invitation in a transaction of its own.
ReadForResend(r) ==
  /\ At(r, "read")
  /\ IF Live(db[req[r].invite]) /\ ActorCurrent(r) THEN Continue(r, "advisory") ELSE Abort(r)

LockAddress(r) ==
  LET p == req[r].person IN
  /\ At(r, "advisory") /\ advisory[p] = None
  /\ advisory' = [advisory EXCEPT ![p] = r]
  /\ Goto(r, "existing")
  /\ UNCHANGED <<rowVars, otherVars>>

LiveTo(p) == {i \in Invites : Live(db[i]) /\ db[i].email = p}

\* Mutation: the handler revokes the existing invitation without asking for one.
ReadExistingUnchecked(r) ==
  LET q == req[r]
      existing == LiveTo(q.person)
      found == IF existing = {} THEN None ELSE CHOOSE i \in existing : TRUE
  IN /\ At(r, "existing")
     /\ Become(r, [q EXCEPT !.found = found, !.pc = "replace"])
     /\ UNCHANGED <<rowVars, advisory, otherVars>>

\* The live invitation to the address: a resend must find the one it replaces,
\* an invite none that has not expired.
ReadExisting(r) ==
  LET q == req[r]
      existing == LiveTo(q.person)
      found == IF existing = {} THEN None ELSE CHOOSE i \in existing : TRUE
  IN /\ At(r, "existing")
     /\ IF IF q.op = "resend" THEN found = q.invite ELSE found = None \/ found \in expired
        THEN /\ Become(r, [q EXCEPT !.found = found,
                                    !.pc = IF found = None THEN "insert" ELSE "replace"])
             /\ UNCHANGED <<rowVars, advisory, otherVars>>
        ELSE Abort(r)

\* UPDATE by id: nothing asks whether the invitation is still live.
Replace(r) ==
  LET i == req[r].found IN
  /\ At(r, "replace") /\ Holders(r, i) = {}
  /\ Write(r, i, [See(r, i) EXCEPT !.revoked = TRUE], "insert")

\* The partial unique index on live invitations waits for a transaction that is
\* inserting, or ending, an invitation to the same address.
IndexHolders(r, p) ==
  UNION {Holders(r, i) : i \in {i \in Invites : \/ Live(db[i]) /\ db[i].email = p
                                                \/ Live(dirty[i]) /\ dirty[i].email = p}}

Recipient(q) == IF q.op = "ownerResend" THEN dirty[q.found].email ELSE q.person

Insert(r) ==
  LET q == req[r]
      p == Recipient(q)
      own == q.op = "ownerResend"
  IN /\ At(r, "insert") /\ IndexHolders(r, p) = {}
     /\ IF \E i \in Invites : Live(See(r, i)) /\ See(r, i).email = p
        THEN Abort(r)
        ELSE Write(r, NewInvite(dirty), Fresh(IF own THEN "INITIAL_OWNER" ELSE "COLLABORATOR", p),
                   IF own THEN "claimOrg" ELSE "recheck")

RevokeInvitation(r) ==
  LET i == req[r].invite IN
  /\ At(r, "claim")
  /\ Live(db[i]) => Holders(r, i) = {}
  /\ IF Live(db[i]) THEN Write(r, i, [db[i] EXCEPT !.revoked = TRUE], "recheck") ELSE Abort(r)

Recheck(r) ==
  /\ At(r, "recheck")
  /\ IF ActorCurrent(r) THEN Continue(r, "commit") ELSE Abort(r)

-----------------------------------------------------------------------------
(***************************************************************************)
(* Acceptance.                                                             *)
(***************************************************************************)
\* Collaborator: valid, and the Organization ACTIVE, in one SELECT.
FindInvitation(r) ==
  /\ At(r, "find")
  /\ IF Live(db[req[r].invite]) /\ db[Org].status = "ACTIVE"
     THEN Continue(r, "identity") ELSE Abort(r)

FindOwnerInvitation(r) ==
  /\ At(r, "ownerFind")
  /\ IF Live(db[req[r].invite]) THEN Continue(r, "provisioning") ELSE Abort(r)

ReadProvisioning(r) ==
  /\ At(r, "provisioning")
  /\ IF db[Org].status = "PROVISIONING" THEN Continue(r, "identity") ELSE Abort(r)

\* The public routes refuse an address that has an identity; the authenticated
\* ones are called by that identity.
ReadIdentity(r) ==
  LET existing == req[r].op \in {"acceptExisting", "ownerAcceptExisting"} IN
  /\ At(r, "identity")
  /\ IF db[req[r].person].identity # existing THEN Abort(r)
     ELSE Continue(r, IF existing THEN "membership" ELSE "consume")

\* acceptExisting is for somebody who is not ACTIVE, the owner's for nobody's member.
ReadMembership(r) ==
  LET q == req[r]
      status == db[q.person].status
  IN /\ At(r, "membership")
     /\ IF status = "ACTIVE" \/ (q.op = "ownerAcceptExisting" /\ status # "NONE")
        THEN Abort(r)
        ELSE /\ Become(r, [q EXCEPT !.seen = status, !.pc = "consume"])
             /\ UNCHANGED <<rowVars, advisory, otherVars>>

\* Mutation: the acceptance consumes the invitation it has found, by its id.
ConsumeById(r) ==
  LET i == req[r].invite IN
  /\ At(r, "consume") /\ Holders(r, i) = {}
  /\ Write(r, i, [db[i] EXCEPT !.consumed = TRUE], "join")

\* Mutation: the consumption commits before the membership is written.
ConsumeAtOnce(r) ==
  LET i == req[r].invite IN
  /\ At(r, "consume") /\ Live(db[i]) /\ Holders(r, i) = {}
  /\ db' = [db EXCEPT ![i].consumed = TRUE] /\ dirty' = [dirty EXCEPT ![i].consumed = TRUE]
  /\ Goto(r, "join")
  /\ UNCHANGED <<lock, share, advisory, otherVars>>

Consume(r) ==
  LET i == req[r].invite IN
  /\ At(r, "consume")
  /\ Live(db[i]) => Holders(r, i) = {}
  /\ IF Live(db[i]) THEN Write(r, i, [db[i] EXCEPT !.consumed = TRUE], "join") ELSE Abort(r)

\* A new row that refers to the Organization waits for a SELECT ... FOR UPDATE of it.
ForUpdateOfOrg(r) == {x \in Writer(r, Org) : req[x].op = "ownerResend"}

\* The identity and membership of the person: created, or, for a former member,
\* updated by id whatever became of it since.
Join(r) ==
  LET q == req[r]
      p == q.person
      new == q.op # "acceptExisting" \/ q.seen = "NONE"
      taken == IF q.op \in {"accept", "ownerAccept"} THEN db[p].identity ELSE db[p].status # "NONE"
  IN /\ At(r, "join") /\ Holders(r, p) = {} /\ ForUpdateOfOrg(r) = {}
     /\ IF new /\ taken THEN Abort(r)
        ELSE /\ lock' = [lock EXCEPT ![p] = r]
             /\ dirty' = [dirty EXCEPT ![p] =
                  [identity |-> TRUE, status |-> "ACTIVE", version |-> db[p].version + 1,
                   profile |-> IF q.op \in OwnerOps THEN "Administrator" ELSE db[p].profile]]
             /\ share' = IF new THEN [share EXCEPT ![Org] = @ \cup {r}] ELSE share
             /\ Goto(r, IF q.op \in OwnerOps THEN "own" ELSE "commit")
             /\ UNCHANGED <<db, advisory, otherVars>>

CreateOwnership(r) ==
  /\ At(r, "own") /\ Holders(r, Own) = {}
  /\ IF db[Own] = None THEN Write(r, Own, req[r].person, "activate") ELSE Abort(r)

\* updateMany WHERE accessStatus = PROVISIONING; the version stays.
Activate(r) ==
  /\ At(r, "activate")
  /\ db[Org].status = "PROVISIONING" => Writer(r, Org) = {}
  /\ IF db[Org].status = "PROVISIONING"
     THEN Write(r, Org, [db[Org] EXCEPT !.status = "ACTIVE"], "commit") ELSE Abort(r)

-----------------------------------------------------------------------------
(***************************************************************************)
(* The Platform: resending the owner's invitation, disabling the Organization. *)
(***************************************************************************)
\* Mutation: a SELECT without FOR UPDATE.
ReadOrganizationUnlocked(r) ==
  /\ At(r, "lockOrg")
  /\ IF db[Org] = [status |-> "PROVISIONING", version |-> req[r].version]
     THEN Continue(r, "previous") ELSE Abort(r)

LockOrganization(r) ==
  /\ At(r, "lockOrg") /\ Holders(r, Org) = {}
  /\ IF db[Org] = [status |-> "PROVISIONING", version |-> req[r].version]
     THEN Write(r, Org, db[Org], "previous") ELSE Abort(r)

ReadPrevious(r) ==
  LET open == {i \in Invites : Live(db[i]) /\ db[i].kind = "INITIAL_OWNER"} IN
  /\ At(r, "previous")
  /\ IF open = {} THEN Abort(r)
     ELSE /\ \E i \in open : Become(r, [req[r] EXCEPT !.found = i, !.pc = "replace"])
          /\ UNCHANGED <<rowVars, advisory, otherVars>>

ReadOrganization(r) ==
  /\ At(r, "readOrg")
  /\ IF db[Org].version = req[r].version /\ db[Org].status # "DISABLED"
     THEN Continue(r, "claimOrg") ELSE Abort(r)

\* The version claim of both.
ClaimOrganization(r) ==
  LET q == req[r]
      row == See(r, Org)
      claims == row.version = q.version
      status == IF q.op = "disable" THEN "DISABLED" ELSE row.status
  IN /\ At(r, "claimOrg")
     /\ claims => Writer(r, Org) = {}
     /\ IF claims THEN Write(r, Org, [status |-> status, version |-> q.version + 1],
                             IF q.op = "disable" THEN "members" ELSE "commit")
        ELSE Abort(r)

\* The UPDATEs of changeAccessStatus over many rows: the rows its statement sees...
ListMembers(r) ==
  LET members == {p \in People : db[p].status # "NONE"} IN
  /\ At(r, "members")
  /\ Become(r, [req[r] EXCEPT !.todo = members, !.pc = IF members = {} THEN "open" ELSE "bump"])
  /\ UNCHANGED <<rowVars, advisory, otherVars>>

ListOpen(r) ==
  LET open == {i \in Invites : Live(db[i])} IN
  /\ At(r, "open")
  /\ Become(r, [req[r] EXCEPT !.todo = open, !.pc = IF open = {} THEN "commit" ELSE "close"])
  /\ UNCHANGED <<rowVars, advisory, otherVars>>

\* ... locked one by one, and left alone if they no longer match.
EndOne(r, x, v, next) ==
  LET rest == req[r].todo \ {x} IN
  /\ x \in req[r].todo /\ Holders(r, x) = {}
  /\ Update(r, x, v)
  /\ Become(r, [req[r] EXCEPT !.todo = rest, !.pc = IF rest = {} THEN next ELSE @])
  /\ UNCHANGED <<advisory, otherVars>>

BumpMember(r, p) ==
  At(r, "bump") /\ EndOne(r, p, [db[p] EXCEPT !.version = @ + 1], "open")

CloseInvitation(r, i) ==
  At(r, "close") /\ EndOne(r, i, [db[i] EXCEPT !.revoked = @ \/ Live(db[i])], "commit")

-----------------------------------------------------------------------------
(***************************************************************************)
(* CollaboratorLifecycleService, in short: a member that is not the owner  *)
(* is read, then claimed at that version.                                  *)
(***************************************************************************)
NewStatus(op) ==
  CASE op = "suspend" -> "SUSPENDED" [] op = "reactivate" -> "ACTIVE" [] OTHER -> "REMOVED"

MayChange(op, status) ==
  CASE op = "suspend" -> status = "ACTIVE" [] op = "reactivate" -> status = "SUSPENDED"
    [] OTHER -> status \in {"ACTIVE", "SUSPENDED"}

ReadMember(r) ==
  LET q == req[r]
      row == db[q.person]
  IN /\ At(r, "member")
     /\ IF db[Own] # q.person /\ MayChange(q.op, row.status)
        THEN /\ Become(r, [q EXCEPT !.version = row.version, !.pc = "claimMember"])
             /\ UNCHANGED <<rowVars, advisory, otherVars>>
        ELSE Abort(r)

\* Mutation: the version read before goes into an UPDATE by id.
ClaimMemberById(r) ==
  LET q == req[r]
      p == q.person
  IN /\ At(r, "claimMember") /\ Holders(r, p) = {}
     /\ Write(r, p, [db[p] EXCEPT !.status = NewStatus(q.op), !.version = q.version + 1],
              "recheck")

ClaimMember(r) ==
  LET q == req[r]
      p == q.person
      claims == db[p].version = q.version
  IN /\ At(r, "claimMember")
     /\ claims => Holders(r, p) = {}
     /\ IF claims
        THEN Write(r, p, [db[p] EXCEPT !.status = NewStatus(q.op), !.version = @ + 1], "recheck")
        ELSE Abort(r)

-----------------------------------------------------------------------------
Commit(r) ==
  /\ At(r, "commit")
  /\ CommitRows(r) /\ ReleaseAdvisory(r)
  /\ Become(r, Idle)
  /\ UNCHANGED otherVars

\* An error of the handler (invalid grants), a crash, a timeout.
Fail(r) == ~At(r, "idle") /\ Abort(r)

\* What r's next statement waits for.
Blockers(r) ==
  LET q == req[r] IN
  CASE q.pc = "advisory" -> {advisory[q.person]} \ {None}
    [] q.pc = "replace" -> Holders(r, q.found)
    [] q.pc = "insert" -> IndexHolders(r, Recipient(q))
    [] q.pc \in {"claim", "consume"} /\ Live(db[q.invite]) -> Holders(r, q.invite)
    [] q.pc = "join" -> Holders(r, q.person) \cup ForUpdateOfOrg(r)
    [] q.pc = "own" -> Holders(r, Own)
    [] q.pc = "activate" /\ db[Org].status = "PROVISIONING" -> Writer(r, Org)
    [] q.pc = "lockOrg" -> Holders(r, Org)
    [] q.pc = "claimOrg" /\ See(r, Org).version = q.version -> Writer(r, Org)
    [] q.pc \in {"bump", "close"} -> UNION {Holders(r, x) : x \in q.todo}
    [] q.pc = "claimMember" /\ db[q.person].version = q.version -> Holders(r, q.person)
    [] OTHER -> {}

DeadlockVictim(r) == Blockers(r) # {} /\ OnWaitCycle(r, Blockers) /\ Abort(r)

\* Seven days pass.
Expire(i) ==
  /\ Live(db[i]) /\ i \notin expired
  /\ expired' = expired \cup {i}
  /\ UNCHANGED <<rowVars, req, advisory, begun>>

Arrive(r) ==
  \/ \E actor \in People, op \in Ops : BeginTenant(r, actor, op)
  \/ \E op \in Ops, i \in Invites : BeginAcceptance(r, op, i)
  \/ \E op \in Ops, version \in 1..MaxBegun : BeginPlatform(r, op, version)

Statement(r) ==
  \/ ReadForResend(r) \/ LockAddress(r) \/ ReadExisting(r) \/ Replace(r) \/ Insert(r)
  \/ RevokeInvitation(r) \/ Recheck(r)
  \/ FindInvitation(r) \/ FindOwnerInvitation(r) \/ ReadProvisioning(r) \/ ReadIdentity(r)
  \/ ReadMembership(r) \/ Consume(r) \/ Join(r) \/ CreateOwnership(r) \/ Activate(r)
  \/ LockOrganization(r) \/ ReadPrevious(r) \/ ReadOrganization(r) \/ ClaimOrganization(r)
  \/ ListMembers(r) \/ ListOpen(r)
  \/ (\E p \in People : BumpMember(r, p)) \/ (\E i \in Invites : CloseInvitation(r, i))
  \/ ReadMember(r) \/ ClaimMember(r) \/ Commit(r)

\* A bounded behaviour is over: every request is answered and no other begins.
Quiescent == (\A r \in Requests : At(r, "idle")) /\ UNCHANGED vars

Next ==
  \/ \E r \in Requests : Arrive(r) \/ Statement(r) \/ Fail(r) \/ DeadlockVictim(r)
  \/ \E p \in People : CreateOrganization(p)
  \/ \E i \in Invites : Expire(i)
  \/ Quiescent

Spec == Init /\ [][Next]_vars
-----------------------------------------------------------------------------
(***************************************************************************)
(* Properties.                                                             *)
(***************************************************************************)
Stages == {"idle", "read", "advisory", "existing", "replace", "insert", "claim", "recheck",
           "find", "ownerFind", "provisioning", "identity", "membership", "consume", "join",
           "own", "activate", "lockOrg", "previous", "readOrg", "claimOrg", "members", "bump",
           "open", "close", "member", "claimMember", "commit"}

RowsTyped(rows) ==
  /\ DOMAIN rows = Rows
  /\ \A p \in People : rows[p] \in PersonRow
  /\ \A i \in Invites : rows[i] \in InviteRow
  /\ rows[Own] \in People \cup {None}
  /\ rows[Org] \in [status : OrgStates, version : Nat]

Request == [pc : Stages, op : AllOps \cup {None}, actor : People \cup {None}, epoch : Nat,
            person : People \cup {None}, invite : Invites \cup {None},
            found : Invites \cup {None}, version : Nat, seen : Statuses \cup {None},
            todo : SUBSET (People \cup Invites)]

\* What a statement finds in its request.
RequestShaped(q) ==
  /\ q.pc # "idle" => q.op \in AllOps
  /\ q.op \in AllOps \ PlatformOps => q.person \in People
  /\ q.op \in {"resend", "revoke"} \cup JoinOps \cup OwnerOps => q.invite \in Invites
  /\ q.op \in TenantOps => q.actor \in People
  /\ q.pc = "replace" \/ (q.pc = "insert" /\ q.op = "ownerResend") => q.found \in Invites
  /\ q.pc = "bump" => q.todo \subseteq People
  /\ q.pc = "close" => q.todo \subseteq Invites

\* Every row and every request slot holds what its table and handler can put there.
TypeOK ==
  /\ RowsTyped(db) /\ RowsTyped(dirty)
  /\ lock \in [Rows -> Requests \cup {None}] /\ share \in [Rows -> SUBSET Requests]
  /\ req \in [Requests -> Request] /\ \A r \in Requests : RequestShaped(req[r])
  /\ advisory \in [People -> Requests \cup {None}]
  /\ expired \subseteq Invites /\ begun \in Nat

\* The invitation that makes an owner is open only while the Organization waits
\* for one: an acceptance, a resend and a disabling that overlap never leave it
\* live in an ACTIVE or DISABLED Organization (organization.service.ts:125-141).
OwnerInvitationClosed ==
  \A i \in Invites : Live(db[i]) /\ db[i].kind = "INITIAL_OWNER" => db[Org].status = "PROVISIONING"

\* The four writes of an owner's acceptance go together: the Organization is
\* ACTIVE only with an owner, and has an owner only by one consumed invitation
\* to that address (initial-owner-acceptance.service.ts:65-117).
OwnerCameByInvitation ==
  /\ db[Org].status = "PROVISIONING" => db[Own] = None
  /\ db[Org].status = "ACTIVE" => db[Own] # None
  /\ LET accepted == {i \in Invites : db[i].kind = "INITIAL_OWNER" /\ db[i].consumed} IN
     {db[i].email : i \in accepted} = {db[Own]} \ {None} /\ Cardinality(accepted) <= 1

\* No committed write of a membership is lost: each moves the version by one,
\* an acceptance that reactivates a former member by id included
\* (collaborator-acceptance.service.ts:113-125).
MembershipWritesCounted ==
  [][\A p \in People : db'[p] # db[p] => db'[p].version = db[p].version + 1]_vars

\* The status listPending computes: consumed first, then revoked.
Shown(v) ==
  IF ~Issued(v) THEN "ABSENT" ELSE IF v.consumed THEN "ACCEPTED" ELSE
  IF v.revoked THEN "REVOKED" ELSE "PENDING"

Book == INSTANCE InvitationBook
          WITH book   <- [i \in Invites |-> [shown |-> Shown(db[i]), kind |-> db[i].kind,
                                             email |-> db[i].email]],
               joined <- {p \in People : db[p].status # "NONE"},
               owner  <- db[Own]

\* Whatever the interleaving, each commit is one step of the invitation book:
\* an invitation is resolved once, and only acceptances let people in.
ImplementsBook == Book!Spec
-----------------------------------------------------------------------------
(***************************************************************************)
(* The inductive invariant.                                                *)
(***************************************************************************)
StageOf(op) ==
  CASE op = "invite" -> {"advisory", "existing", "replace", "insert", "recheck", "commit"}
    [] op = "resend" -> {"read", "advisory", "existing", "replace", "insert", "recheck", "commit"}
    [] op = "revoke" -> {"claim", "recheck", "commit"}
    [] op \in {"suspend", "reactivate", "remove"} -> {"member", "claimMember", "recheck", "commit"}
    [] op \in JoinOps -> {"find", "identity", "membership", "consume", "join", "commit"}
    [] op \in OwnerOps -> {"ownerFind", "provisioning", "identity", "membership", "consume", "join",
                           "own", "activate", "commit"}
    [] op = "ownerResend" -> {"lockOrg", "previous", "replace", "insert", "claimOrg", "commit"}
    [] op = "disable" -> {"readOrg", "claimOrg", "members", "bump", "open", "close", "commit"}
    [] OTHER -> {"idle"}

OpenOwner == {i \in Invites : Live(db[i]) /\ db[i].kind = "INITIAL_OWNER"}
Accepted  == {i \in Invites : db[i].kind = "INITIAL_OWNER" /\ db[i].consumed}

\* A row of Invitation is unused or addressed to somebody.
Addressed(v) == IF Issued(v) THEN v.email \in People ELSE v = Unissued

\* Committed or about to be, one live invitation awaits an address; a transaction
\* that replaces one holds both.
OneAwaits ==
  \A i, j \in Invites : i # j =>
    /\ Live(db[i]) /\ Live(db[j]) => db[i].email # db[j].email
    /\ Live(dirty[i]) /\ Live(dirty[j]) => dirty[i].email # dirty[j].email
    /\ Live(db[i]) /\ Live(dirty[j]) /\ db[i].email = dirty[j].email =>
         lock[i] # None /\ lock[i] = lock[j]

\* How the Organization, its owner and the owner's invitations go together.
OwnerRows ==
  /\ \A i \in OpenOwner : db[Org].status = "PROVISIONING" /\ \A j \in OpenOwner : j = i
  /\ db[Org].status \in {"ABSENT", "PROVISIONING"} => db[Own] = None
  /\ db[Org].status = "ACTIVE" => db[Own] # None
  /\ db[Own] # None => Accepted # {}
  /\ \A i \in Accepted : db[Own] = db[i].email /\ \A j \in Accepted : j = i

NothingYet ==
  db[Org].status = "ABSENT" => /\ \A i \in Invites : db[i] = Unissued
                               /\ \A r \in Requests : At(r, "idle")

\* Each request inserts one invitation: a row is left for those still to come.
Coming == {r \in Requests : req[r].pc \in {"read", "advisory", "existing", "replace", "insert",
                                           "lockOrg", "previous"}}
Used   == {i \in Invites : dirty[i] # Unissued}

RoomLeft ==
  /\ begun <= MaxBegun
  /\ IsFiniteSet(Coming) /\ Cardinality(Used) + Cardinality(Coming) <= begun + 2

\* What a request has read that no other transaction can undo, and, of the open
\* invitations of the owner, what the lock of the Organization keeps for it.
Knows(r, q) ==
  /\ q.pc \in StageOf(q.op)
  /\ q.op \in {"resend", "revoke"} \cup JoinOps =>
       db[q.invite].kind = "COLLABORATOR" /\ db[q.invite].email = q.person
  /\ q.op \in OwnerOps => db[q.invite].kind = "INITIAL_OWNER" /\ db[q.invite].email = q.person
  /\ q.found # None => Issued(db[q.found])
  /\ q.pc = "claimMember" => db[q.person].status # "NONE"
  /\ q.pc = "bump" => \A p \in q.todo : db[p].status # "NONE"
  /\ q.pc = "close" => \A i \in q.todo : Issued(db[i])
  /\ q.op = "ownerResend" /\ q.pc \in {"replace", "insert", "claimOrg", "commit"} =>
       OpenOwner \subseteq {q.found}
  /\ q.op = "disable" /\ q.pc \in {"close", "commit"} =>
       \A i \in OpenOwner : lock[i] = r \/ (q.pc = "close" /\ i \in q.todo)

\* The invitations a transaction has locked are those it ends, the one it
\* consumes and the one it inserts.
Ends(q, i) ==
  /\ q.op \in {"invite", "resend", "revoke", "ownerResend", "disable"}
  /\ Issued(db[i]) /\ dirty[i] \in {db[i], [db[i] EXCEPT !.revoked = TRUE]} /\ ~Live(dirty[i])

Consumes(q, i) ==
  /\ q.op \in JoinOps \cup OwnerOps /\ q.pc \in {"join", "own", "activate", "commit"}
  /\ i = q.invite /\ Live(db[i]) /\ dirty[i] = [db[i] EXCEPT !.consumed = TRUE]

Inserts(q, i) ==
  /\ q.op \in {"invite", "resend", "ownerResend"} /\ q.pc \in {"recheck", "claimOrg", "commit"}
  /\ db[i] = Unissued
  /\ Live(dirty[i])
  /\ dirty[i].kind = IF q.op = "ownerResend" THEN "INITIAL_OWNER" ELSE "COLLABORATOR"

HoldsInvitations(r, q) ==
  /\ \A i \in Invites : lock[i] = r => Ends(q, i) \/ Consumes(q, i) \/ Inserts(q, i)
  /\ \A i, j \in Invites : lock[i] = r /\ lock[j] = r /\ Inserts(q, i) /\ Inserts(q, j) => i = j
  /\ q.op \in JoinOps \cup OwnerOps /\ q.pc \in {"join", "own", "activate", "commit"} =>
       lock[q.invite] = r
  /\ q.op = "ownerResend" /\ q.pc \in {"insert", "claimOrg", "commit"} =>
       q.found \in Invites /\ lock[q.found] = r

Joined(q) == q.op \in JoinOps \cup OwnerOps /\ q.pc \in {"own", "activate", "commit"}

HoldsMembers(r, q) ==
  /\ \A p \in People : lock[p] = r =>
       /\ dirty[p].version = db[p].version + 1 /\ dirty[p].status # "NONE"
       /\ db[p].status = "NONE" => Joined(q) /\ p = q.person
  /\ Joined(q) => lock[q.person] = r

HoldsOrganization(r, q) ==
  /\ lock[Own] = r <=> q.op \in OwnerOps /\ q.pc \in {"activate", "commit"}
  /\ lock[Own] = r => db[Own] = None /\ dirty[Own] = q.person
  /\ lock[Org] = r <=>
       \/ q.op = "ownerResend" /\ q.pc # "lockOrg"
       \/ q.op = "disable" /\ q.pc \notin {"readOrg", "claimOrg"}
       \/ q.op \in OwnerOps /\ q.pc = "commit"
  /\ lock[Org] = r =>
       /\ q.op = "disable" => dirty[Org].status = "DISABLED"
       /\ q.op # "disable" => db[Org].status = "PROVISIONING"
       /\ q.op = "ownerResend" => dirty[Org].status = "PROVISIONING"
       /\ q.op \in OwnerOps => dirty[Org].status = "ACTIVE"

\* The rows, and what each transaction knows, holds and is about to commit.
InvitationIInv ==
  /\ TypeOK /\ CleanUnlocked /\ OneAwaits /\ OwnerRows /\ NothingYet /\ RoomLeft
  /\ \A i \in Invites : Addressed(db[i]) /\ Addressed(dirty[i])
  /\ \A r \in Requests :
       /\ Knows(r, req[r]) /\ HoldsInvitations(r, req[r]) /\ HoldsMembers(r, req[r])
       /\ HoldsOrganization(r, req[r])
       /\ At(r, "idle") => \A x \in Rows : lock[x] # r
=============================================================================
