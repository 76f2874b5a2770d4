---------------------------- MODULE RegisterProofs ----------------------------
(***************************************************************************)
(* Proofs about what a commit does: the sessions of whom it changes are    *)
(* revoked, its evidence tells the values it replaced and wrote, and it is *)
(* one step of the ownership register.                                     *)
(*                                                                         *)
(* The inductive invariant is TrailIInv of Governance, on top of TypeOK,   *)
(* OwnerIInv and OfferIInv.  SlotTrail is its part about a request slot.   *)
(***************************************************************************)
EXTENDS OfferProofs

SlotTrail(r, q) ==
  VersionsRead(q) /\ MembersHeld(r, q) /\ TargetHeld(r, q) /\ OrgHeld(r, q)

LEMMA TrailParts == TrailIInv <=> \A r \in Requests : SlotTrail(r, req[r])
BY DEF TrailIInv, SlotTrail

LEMMA TrailPartsNext == (\A r \in Requests : SlotTrail(r, req[r])') => TrailIInv'
BY DEF TrailIInv, SlotTrail

\* Where an operation on one membership looks.
LEMMA TargetNames ==
  ASSUME TypeOK, NEW r \in Requests
  PROVE  /\ req[r].op \in MemberOps => req[r].target \in Members
         /\ req[r].pc = "claim" => req[r].op \in MemberOps /\ req[r].seen \in MemberRow
         /\ req[r].op = "replaceGrants" => req[r].op \in MemberOps
         /\ req[r] \in Request
BY DEF TypeOK, RequestShaped, MemberOps, AllOps, TenantOps, OwnerOps, ChangeOps, PlatformOps

-----------------------------------------------------------------------------
(***************************************************************************)
(* The kinds of steps.                                                     *)
(***************************************************************************)
\* Committed versions only grow, and the Organization's row with its version.
VersionsGrow ==
  /\ \A m \in Members : db[m].version \in Nat /\ db'[m].version \in Nat
                        /\ db[m].version <= db'[m].version
  /\ db[Org].version \in Nat /\ db'[Org].version \in Nat
  /\ db'[Org] = db[Org] \/ db[Org].version < db'[Org].version

LEMMA SameVersions ==
  ASSUME TypeOK, db' = db
  PROVE  VersionsGrow
<1>1. (\A m \in Members : db[m].version \in Nat) /\ db[Org].version \in Nat
  BY DEF TypeOK, RowsTyped, MemberRow, OrgRow
<1>2. QED BY <1>1 DEF VersionsGrow

\* Sessions are opened; none is forgotten.
SessionsKept ==
  \A m \in Members : session[m] \in Nat /\ session'[m] \in Nat /\ session[m] <= session'[m]

\* A slot that keeps its request, and the rows it holds.
LEMMA KeptTrail ==
  ASSUME TypeOK, TrailIInv, NEW s \in Requests, req'[s] = req[s], VersionsGrow, SessionsKept,
         \A x \in Rows : lock'[x] = s <=> lock[x] = s,
         \A x \in Rows : lock[x] = s => db'[x] = db[x] /\ dirty'[x] = dirty[x]
  PROVE  SlotTrail(s, req[s])'
<1> DEFINE q == req[s]
<1>1. SlotTrail(s, q) /\ q \in Request
  BY TrailParts DEF TypeOK
<1>2. Members \subseteq Rows /\ Org \in Rows
  BY RowKinds
<1>3. VersionsRead(req[s])'
  <2>2. q.pc = "claim" => q.seen.version <= db'[q.target].version
    <3> SUFFICES ASSUME q.pc = "claim" PROVE q.seen.version <= db'[q.target].version
      OBVIOUS
    <3>1. q.target \in Members /\ q.seen.version \in Nat
      BY TargetNames DEF MemberRow
    <3>2. QED BY <1>1, <3>1 DEF SlotTrail, VersionsRead, VersionsGrow
  <2>3. q.pc \in {"orgOwner", "orgClaim"} =>
          /\ q.seen \in OrgRow /\ q.seen.version = q.version
          /\ q.version <= db'[Org].version
          /\ q.version = db'[Org].version => q.seen.status = db'[Org].status
    <3> SUFFICES ASSUME q.pc \in {"orgOwner", "orgClaim"}
                 PROVE  /\ q.seen \in OrgRow /\ q.seen.version = q.version
                        /\ q.version <= db'[Org].version
                        /\ q.version = db'[Org].version => q.seen.status = db'[Org].status
      OBVIOUS
    <3>1. q.version \in Nat
      BY <1>1 DEF Request
    <3>2. /\ q.seen \in OrgRow /\ q.seen.version = q.version
          /\ q.version <= db[Org].version
          /\ q.version = db[Org].version => q.seen.status = db[Org].status
      BY <1>1 DEF SlotTrail, VersionsRead
    <3>3. QED BY <3>1, <3>2 DEF VersionsGrow
  <2>4. QED BY <2>2, <2>3 DEF VersionsRead
<1>4. MembersHeld(s, req[s])'
  <2>1. \A m \in Members : q.had[m] \in Nat
    BY <1>1 DEF Request
  <2>2. \A m \in Members : q.had[m] <= session[m] => q.had[m] <= session'[m]
    BY <2>1 DEF SessionsKept
  <2>3. \A m \in Members : lock'[m] = s =>
          lock[m] = s /\ db'[m] = db[m] /\ dirty'[m] = dirty[m]
    BY <1>2
  <2>4. QED BY <1>1, <2>2, <2>3 DEF SlotTrail, MembersHeld, HasRevoked, Affected
<1>5. TargetHeld(s, req[s])'
  BY <1>1, <1>2, TargetNames DEF SlotTrail, TargetHeld, ClaimedVersion
<1>6. OrgHeld(s, req[s])'
  BY <1>1, <1>2 DEF SlotTrail, OrgHeld
<1>7. QED BY <1>3, <1>4, <1>5, <1>6 DEF SlotTrail

LEMMA StutterTrail ==
  ASSUME TypeOK, TrailIInv, UNCHANGED <<rowVars, req>>, SessionsKept, TypeOK'
  PROVE  TrailIInv'
<1>1. db' = db /\ VersionsGrow
  BY SameVersions DEF rowVars
<1>2. \A s \in Requests : SlotTrail(s, req[s])'
  BY <1>1, KeptTrail DEF rowVars
<1>3. QED BY <1>2, TrailPartsNext

\* A step that writes no row.
LEMMA ShareTrail ==
  ASSUME TypeOK, TrailIInv, TypeOK', NEW r \in Requests, SessionsKept,
         db' = db, dirty' = dirty, lock' = lock,
         NEW q, req' = [req EXCEPT ![r] = q], SlotTrail(r, q)
  PROVE  TrailIInv'
<1>1. req'[r] = q /\ \A s \in Requests : s # r => req'[s] = req[s]
  BY DEF TypeOK
<1>2. SlotTrail(r, req[r])'
  <2>1. q \in Request
    BY <1>1 DEF TypeOK
  <2>2. VersionsRead(req[r])' /\ TargetHeld(r, req[r])' /\ OrgHeld(r, req[r])'
    BY <1>1 DEF SlotTrail, VersionsRead, TargetHeld, ClaimedVersion, OrgHeld
  <2>3. MembersHeld(r, req[r])'
    <3>1. \A m \in Members : q.had[m] \in Nat
      BY <2>1 DEF Request
    <3>2. \A m \in Members : q.had[m] <= session[m] => q.had[m] <= session'[m]
      BY <3>1 DEF SessionsKept
    <3>3. QED BY <1>1, <3>2 DEF SlotTrail, MembersHeld, HasRevoked, Affected
  <2>4. QED BY <2>2, <2>3 DEF SlotTrail
<1>3. \A s \in Requests : SlotTrail(s, req[s])'
  BY <1>1, <1>2, SameVersions, KeptTrail
<1>4. QED BY <1>3, TrailPartsNext

LEMMA QuietTrail ==
  ASSUME TypeOK, TrailIInv, TypeOK', NEW r \in Requests, UNCHANGED rowVars, SessionsKept,
         NEW q, req' = [req EXCEPT ![r] = q], SlotTrail(r, q)
  PROVE  TrailIInv'
BY ShareTrail DEF rowVars

\* An UPDATE of a row nobody else holds.
LEMMA WriteTrail ==
  ASSUME TypeOK, TrailIInv, TypeOK', NEW r \in Requests, NEW x \in Rows, NEW v, Update(r, x, v),
         lock[x] \in {None, r}, UNCHANGED otherVars,
         NEW q, req' = [req EXCEPT ![r] = q], SlotTrail(r, req[r])'
  PROVE  TrailIInv'
<1>1. db' = db /\ VersionsGrow /\ SessionsKept
  <2>1. \A m \in Members : session[m] \in Nat
    BY DEF TypeOK
  <2>2. QED BY <2>1, SameVersions DEF Update, SessionsKept, otherVars
<1>2. \A s \in Requests : s # r => req'[s] = req[s]
  BY DEF TypeOK
<1>3. DOMAIN lock = Rows /\ DOMAIN dirty = Rows
  BY DEF TypeOK, RowsTyped
<1>4. ASSUME NEW s \in Requests, s # r PROVE SlotTrail(s, req[s])'
  <2>1. lock[x] # s
    BY <1>4, RowKinds
  <2>2. \A y \in Rows : /\ lock'[y] = s <=> lock[y] = s
                        /\ lock[y] = s => dirty'[y] = dirty[y]
    BY <1>3, <1>4, <2>1 DEF Update
  <2>3. QED BY <1>1, <1>2, <1>4, <2>2, KeptTrail
<1>5. QED BY <1>1, <1>4, TrailPartsNext

LEMMA IdleAims ==
  /\ Idle.pc = "idle" /\ Idle.op \notin MemberOps
  /\ Idle.op # "replaceGrants" /\ Idle.op # "changeAccess"
<1>1. Idle.pc = "idle" /\ Idle.op = None /\ None \notin AllOps
  BY GovernanceAssumption DEF Idle, GovernanceAssumption
<1>2. QED BY <1>1 DEF AllOps, TenantOps, PlatformOps, MemberOps

LEMMA AbortTrail ==
  ASSUME TypeOK, TrailIInv, TypeOK', NEW r \in Requests, Abort(r)
  PROVE  TrailIInv'
<1>1. db' = db /\ RollbackRows(r) /\ req' = [req EXCEPT ![r] = Idle] /\ SessionsKept /\ VersionsGrow
  <2>1. \A m \in Members : session[m] \in Nat
    BY DEF TypeOK
  <2>2. QED BY <2>1, SameVersions DEF Abort, RollbackRows, SessionsKept, otherVars
<1>2. DOMAIN lock = Rows /\ DOMAIN dirty = Rows
  BY DEF TypeOK, RowsTyped
<1>3. ASSUME NEW x \in Rows
      PROVE  /\ lock'[x] = IF lock[x] = r THEN None ELSE lock[x]
             /\ dirty'[x] = IF lock[x] = r THEN db[x] ELSE dirty[x]
  BY <1>1, <1>2, <1>3 DEF RollbackRows, Release
<1>4. ASSUME NEW s \in Requests PROVE SlotTrail(s, req[s])'
  <2>1. CASE s = r
    <3>1. req'[s] = Idle /\ \A x \in Rows : lock'[x] # s
      BY <1>1, <1>3, <2>1, RowKinds DEF TypeOK
    <3>2. QED BY <3>1, <1>2, IdleAims, RowKinds
              DEF SlotTrail, VersionsRead, MembersHeld, TargetHeld, OrgHeld
  <2>2. CASE s # r
    BY <1>1, <1>3, <2>2, RowKinds, KeptTrail DEF TypeOK
  <2>3. QED BY <2>1, <2>2
<1>5. QED BY <1>1, <1>4, TrailPartsNext

-----------------------------------------------------------------------------
(***************************************************************************)
(* The statements before a request's first write.                          *)
(***************************************************************************)
ReadingStages == EarlyStages \ {"bump"}

LEMMA HoldsNoRow ==
  ASSUME TypeOK, OwnerIInv, OfferIInv, TrailIInv, NEW r \in Requests, req[r].pc \in ReadingStages
  PROVE  \A x \in Rows : lock[x] # r
<1>1. \A p \in Offers : lock[p] # r
  BY HoldsNoOffer DEF ReadingStages
<1>2. \A x \in Roles : lock[x] # r
  BY HoldsNothing DEF ReadingStages, EarlyStages, HoldingStages
<1>3. lock[Org] # r
  BY TrailParts DEF SlotTrail, OrgHeld, ReadingStages, EarlyStages, ChangeStages
<1>4. QED BY <1>1, <1>2, <1>3 DEF Roles, Rows

\* A slot that holds nothing, on its way to none of the writing statements.
LEMMA ReaderTrail ==
  ASSUME NEW r, NEW q, \A x \in Rows : lock[x] # r, VersionsRead(q),
         q.pc \notin {"bump", "revoke", "cancelling"},
         q.pc = "cancel" => q.op = "propose",
         q.op = "changeAccess" => q.pc \notin ChangeStages
  PROVE  SlotTrail(r, q)
BY RowKinds DEF SlotTrail, MembersHeld, TargetHeld, OrgHeld, MemberOps

LEMMA ReadStepTrail ==
  ASSUME TypeOK, OwnerIInv, OfferIInv, TrailIInv, TypeOK', NEW r \in Requests,
         req[r].pc \in ReadingStages, UNCHANGED rowVars, SessionsKept,
         NEW q, req' = [req EXCEPT ![r] = q], VersionsRead(q),
         q.pc \notin {"bump", "revoke", "cancelling"},
         q.pc = "cancel" => q.op = "propose",
         q.op = "changeAccess" => q.pc \notin ChangeStages
  PROVE  TrailIInv'
BY HoldsNoRow, ReaderTrail, QuietTrail

LEMMA OthersKeepSessions ==
  ASSUME TypeOK, session' = session, revoked' = revoked
  PROVE  SessionsKept
BY DEF TypeOK, SessionsKept

\* A check that moves r on, away from every claim.
LEMMA CheckStepTrail ==
  ASSUME TypeOK, OwnerIInv, OfferIInv, TrailIInv, TypeOK', NEW r \in Requests, NEW ok, NEW stage,
         ContinueIf(ok, r, stage), req[r].pc \in ReadingStages,
         stage \in {"target", "ownerRow", "former", "acceptClaim"},
         req[r].op # "changeAccess"
  PROVE  TrailIInv'
<1> DEFINE q == [req[r] EXCEPT !.pc = stage]
<1>1. CASE Continue(r, stage)
  <2>1. req' = [req EXCEPT ![r] = q] /\ UNCHANGED rowVars /\ SessionsKept
    BY <1>1, OthersKeepSessions DEF Continue, Goto, TypeOK, otherVars
  <2>2. q.pc = stage /\ q.op = req[r].op /\ q.version = req[r].version /\ q.target = req[r].target
    BY DEF TypeOK, Request
  <2>3. VersionsRead(q)
    BY <2>2 DEF VersionsRead
  <2> HIDE DEF q
  <2>4. QED BY <2>1, <2>2, <2>3, ReadStepTrail
<1>2. CASE Abort(r)
  BY <1>2, AbortTrail
<1>3. QED BY <1>1, <1>2 DEF ContinueIf

LEMMA ChecksTrail ==
  ASSUME TypeOK, OwnerIInv, OfferIInv, TrailIInv, TypeOK', NEW r \in Requests,
         ReadOwner(r) \/ ReadSuccessor(r) \/ ReadOwnerRow(r) \/ ReadFormerOwner(r)
  PROVE  TrailIInv'
<1>1. req[r].pc \in {"owner", "successor", "ownerRow", "former"}
  BY DEF ReadOwner, ReadSuccessor, ReadOwnerRow, ReadFormerOwner, At
<1>2. req[r].pc \in ReadingStages /\ req[r].op # "changeAccess"
  BY <1>1 DEF ReadingStages, EarlyStages, TypeOK, RequestShaped, OwnerOps, AcceptStages
<1>3. QED BY <1>2, CheckStepTrail DEF ReadOwner, ReadSuccessor, ReadOwnerRow, ReadFormerOwner

LEMMA ArriveTrail ==
  ASSUME TypeOK, OwnerIInv, OfferIInv, TrailIInv, TypeOK', NEW r \in Requests, Arrive(r)
  PROVE  TrailIInv'
<1>2. ASSUME NEW actor \in Members, NEW op \in Ops, Authenticate(r, actor, op) PROVE TrailIInv'
  <2>1. op \in AllOps /\ req[r].pc = "idle" /\ UNCHANGED rowVars /\ SessionsKept
        /\ op # "changeAccess"
    BY <1>2, OthersKeepSessions DEF Authenticate, AllOps, At, TenantOps, OwnerOps, ChangeOps
  <2>2. PICK call \in Calls(op) :
          req' = [req EXCEPT ![r] = [call EXCEPT !.pc = "access", !.actor = actor]]
    BY <1>2 DEF Authenticate
  <2> DEFINE q == [call EXCEPT !.pc = "access", !.actor = actor]
  <2>3. q.pc = "access" /\ q.op = op /\ q.version = call.version /\ q.target = call.target
    BY <2>1, CallsTyped DEF Request
  <2>4. VersionsRead(q)
    BY <2>3 DEF VersionsRead
  <2> HIDE DEF q
  <2>5. QED BY <2>1, <2>2, <2>3, <2>4, ReadStepTrail DEF q, ReadingStages, EarlyStages
<1>3. ASSUME NEW op \in Ops, PlatformRequest(r, op) PROVE TrailIInv'
  <2> DEFINE stage == IF op = "changeAccess" THEN "orgRead" ELSE "share"
  <2>1. op \in PlatformOps /\ op \in AllOps /\ req[r].pc = "idle" /\ UNCHANGED rowVars
        /\ SessionsKept
    BY <1>3, OthersKeepSessions DEF PlatformRequest, AllOps, At
  <2>2. PICK call \in Calls(op) : req' = [req EXCEPT ![r] = [call EXCEPT !.pc = stage]]
    BY <1>3 DEF PlatformRequest
  <2> DEFINE q == [call EXCEPT !.pc = stage]
  <2>3. q.pc \in {"orgRead", "share"} /\ q.op = op /\ q.op # "replaceGrants"
    BY <2>1, CallsTyped DEF Request, PlatformOps
  <2>4. VersionsRead(q)
    BY <2>3 DEF VersionsRead
  <2> HIDE DEF q
  <2>5. QED BY <2>1, <2>2, <2>3, <2>4, ReadStepTrail DEF q, ReadingStages, EarlyStages, ChangeStages
<1>4. QED BY <1>2, <1>3 DEF Arrive

LEMMA ResolveAccessTrail ==
  ASSUME TypeOK, OwnerIInv, OfferIInv, TrailIInv, TypeOK', NEW r \in Requests, ResolveAccess(r)
  PROVE  TrailIInv'
<1> DEFINE q == [req[r] EXCEPT !.pc = AfterAccess(req[r].op), !.epoch = db[req[r].actor].epoch]
<1>1. req[r].pc = "access" /\ UNCHANGED rowVars /\ SessionsKept /\ req[r].op \in TenantOps
  BY OthersKeepSessions DEF ResolveAccess, TypeOK, RequestShaped, At, otherVars
<1>2. req[r].pc \in ReadingStages
  BY <1>1 DEF ReadingStages, EarlyStages
<1>3. CASE req' = [req EXCEPT ![r] = q]
  <2>1. q.op = req[r].op /\ q.pc = AfterAccess(req[r].op) /\ q.version = req[r].version
        /\ q.target = req[r].target
    BY DEF TypeOK, Request
  <2>2. q.pc \in {"owner", "offer", "target"} /\ q.op # "changeAccess"
    BY <1>1, <2>1 DEF AfterAccess, TenantOps, OwnerOps, ChangeOps
  <2>3. VersionsRead(q)
    BY <2>2 DEF VersionsRead
  <2> HIDE DEF q
  <2>4. QED BY <1>1, <1>2, <1>3, <2>2, <2>3, ReadStepTrail
<1>4. CASE req' = [req EXCEPT ![r] = Idle]
  <2>1. VersionsRead(Idle) /\ Idle.pc = "idle" /\ Idle.op # "changeAccess"
    BY IdleAims DEF VersionsRead
  <2>2. QED BY <1>1, <1>2, <1>4, <2>1, ReadStepTrail
<1>5. QED BY <1>3, <1>4 DEF ResolveAccess

LEMMA ReadTargetTrail ==
  ASSUME TypeOK, OwnerIInv, OfferIInv, TrailIInv, TypeOK', NEW r \in Requests, ReadTarget(r)
  PROVE  TrailIInv'
<1> DEFINE row == See(r, req[r].target)
           q == [req[r] EXCEPT !.pc = AfterTarget(req[r].op), !.seen = row]
<1>1. req[r] \in Request /\ req[r].pc = "target" /\ VersionsRead(req[r]) /\ req[r].op \in AllOps
      /\ req[r].op \notin {"accept", "changeAccess"} /\ req[r].target \in Members
  BY TrailParts DEF ReadTarget, TypeOK, RequestShaped, At, SlotTrail
<1>2. req[r].pc \in ReadingStages
  BY <1>1 DEF ReadingStages, EarlyStages
<1>3. row = db[req[r].target] /\ row.version \in Nat
  <2>1. lock[req[r].target] # r /\ db[req[r].target] \in MemberRow
    BY <1>1, <1>2, HoldsNoRow, RowKinds DEF TypeOK, RowsTyped
  <2>2. QED BY <2>1 DEF See, MemberRow
<1>4. CASE Eligible(r, row) /\ req' = [req EXCEPT ![r] = q] /\ UNCHANGED <<rowVars, otherVars>>
  <2>1. q.op = req[r].op /\ q.target = req[r].target /\ q.pc = AfterTarget(req[r].op)
        /\ q.version = req[r].version /\ q.seen = row
    BY <1>1 DEF Request
  <2>2. q.pc \in {"cancel", "claim"} /\ (q.pc = "cancel" => q.op = "propose")
    BY <2>1 DEF AfterTarget
  <2>3. VersionsRead(q)
    BY <1>1, <1>3, <2>1, <2>2 DEF VersionsRead
  <2>4. UNCHANGED rowVars /\ SessionsKept
    BY <1>4, OthersKeepSessions DEF otherVars
  <2> HIDE DEF q, row
  <2>5. QED BY <1>1, <1>2, <1>4, <2>1, <2>2, <2>3, <2>4, ReadStepTrail
<1>5. CASE Continue(r, "recheck")
  <2> DEFINE p == [req[r] EXCEPT !.pc = "recheck"]
  <2>1. p.pc = "recheck" /\ p.op = req[r].op /\ p.version = req[r].version
        /\ p.target = req[r].target
    BY <1>1 DEF Request
  <2>2. VersionsRead(p)
    BY <1>1, <2>1 DEF VersionsRead
  <2>3. req' = [req EXCEPT ![r] = p] /\ UNCHANGED rowVars /\ SessionsKept
    BY <1>5, OthersKeepSessions DEF Continue, Goto, TypeOK, otherVars
  <2> HIDE DEF p
  <2>4. QED BY <1>1, <1>2, <2>1, <2>2, <2>3, ReadStepTrail
<1>6. CASE Abort(r)
  BY <1>6, AbortTrail
<1>7. QED BY <1>4, <1>5, <1>6 DEF ReadTarget

LEMMA ReadOfferTrail ==
  ASSUME TypeOK, OwnerIInv, OfferIInv, TrailIInv, TypeOK', NEW r \in Requests, ReadOffer(r)
  PROVE  TrailIInv'
<1> DEFINE p == See(r, req[r].offer)
           q == [req[r] EXCEPT !.pc = "successor", !.target = p.proposer]
<1>1. req[r] \in Request /\ req[r].pc = "offer" /\ req[r].op = "accept"
  BY DEF ReadOffer, TypeOK, RequestShaped, At, AcceptStages
<1>2. req[r].pc \in ReadingStages
  BY <1>1 DEF ReadingStages, EarlyStages
<1>3. CASE req' = [req EXCEPT ![r] = q] /\ UNCHANGED <<rowVars, otherVars>>
  <2>1. q.op = "accept" /\ q.pc = "successor"
    BY <1>1 DEF Request
  <2>2. VersionsRead(q)
    BY <2>1 DEF VersionsRead
  <2>3. UNCHANGED rowVars /\ SessionsKept
    BY <1>3, OthersKeepSessions DEF otherVars
  <2> HIDE DEF q
  <2>4. QED BY <1>2, <1>3, <2>1, <2>2, <2>3, ReadStepTrail
<1>4. CASE Abort(r)
  BY <1>4, AbortTrail
<1>5. QED BY <1>3, <1>4 DEF ReadOffer

LEMMA ShareOrganizationTrail ==
  ASSUME TypeOK, OwnerIInv, OfferIInv, TrailIInv, TypeOK', NEW r \in Requests,
         ShareOrganization(r)
  PROVE  TrailIInv'
<1> DEFINE q == [req[r] EXCEPT !.pc = "target"]
<1>1. req[r] \in Request /\ req[r].pc = "share" /\ req[r].op = "platformSuspend"
  BY DEF ShareOrganization, TypeOK, RequestShaped, At
<1>2. req[r].pc \in ReadingStages
  BY <1>1 DEF ReadingStages, EarlyStages
<1>3. CASE LockShare(r, Org) /\ Goto(r, "target") /\ UNCHANGED otherVars
  <2>1. q.op = "platformSuspend" /\ q.pc = "target"
    BY <1>1 DEF Request
  <2>2. VersionsRead(q)
    BY <2>1 DEF VersionsRead
  <2>3. req' = [req EXCEPT ![r] = q] /\ db' = db /\ dirty' = dirty /\ lock' = lock
        /\ SessionsKept
    BY <1>3, OthersKeepSessions DEF Goto, LockShare, TypeOK, otherVars
  <2> HIDE DEF q
  <2>4. SlotTrail(r, q)
    BY <1>2, <2>1, <2>2, HoldsNoRow, ReaderTrail
  <2>5. QED BY <2>3, <2>4, ShareTrail
<1>4. CASE Abort(r)
  BY <1>4, AbortTrail
<1>5. QED BY <1>3, <1>4 DEF ShareOrganization

LEMMA ReadOrganizationTrail ==
  ASSUME TypeOK, OwnerIInv, OfferIInv, TrailIInv, TypeOK', NEW r \in Requests,
         ReadOrganization(r)
  PROVE  TrailIInv'
<1> DEFINE stage == IF req[r].status = "ACTIVE" THEN "orgOwner" ELSE "orgClaim"
           q == [req[r] EXCEPT !.pc = stage, !.seen = See(r, Org)]
<1>1. req[r] \in Request /\ req[r].pc = "orgRead" /\ req[r].op = "changeAccess"
  BY DEF ReadOrganization, TypeOK, RequestShaped, At, OrgStages
<1>2. req[r].pc \in ReadingStages
  BY <1>1 DEF ReadingStages, EarlyStages
<1>3. See(r, Org) = db[Org] /\ db[Org] \in OrgRow
  BY <1>2, HoldsNoRow, RowKinds DEF See, TypeOK, RowsTyped
<1>4. CASE /\ See(r, Org).version = req[r].version
           /\ req' = [req EXCEPT ![r] = q] /\ UNCHANGED <<rowVars, otherVars>>
  <2>1. q.op = "changeAccess" /\ q.pc = stage /\ q.seen = See(r, Org)
        /\ q.version = req[r].version
    BY <1>1 DEF Request
  <2>2. db[Org].version \in Nat
    BY <1>3 DEF OrgRow
  <2>3. VersionsRead(q)
    BY <1>3, <1>4, <2>1, <2>2 DEF VersionsRead
  <2>4. UNCHANGED rowVars /\ SessionsKept
    BY <1>4, OthersKeepSessions DEF otherVars
  <2>5. q.pc \in {"orgOwner", "orgClaim"}
    BY <2>1
  <2> HIDE DEF q, stage
  <2>6. QED BY <1>2, <1>4, <2>1, <2>3, <2>4, <2>5, ReadStepTrail DEF ChangeStages
<1>5. CASE Abort(r)
  BY <1>5, AbortTrail
<1>6. QED BY <1>4, <1>5 DEF ReadOrganization

LEMMA ReadOrganizationOwnerTrail ==
  ASSUME TypeOK, OwnerIInv, OfferIInv, TrailIInv, TypeOK', NEW r \in Requests,
         ReadOrganizationOwner(r)
  PROVE  TrailIInv'
<1> DEFINE q == [req[r] EXCEPT !.pc = "orgClaim"]
<1>1. req[r] \in Request /\ req[r].pc = "orgOwner" /\ req[r].op = "changeAccess"
      /\ VersionsRead(req[r])
  BY TrailParts DEF ReadOrganizationOwner, TypeOK, RequestShaped, At, OrgStages, SlotTrail
<1>2. req[r].pc \in ReadingStages
  BY <1>1 DEF ReadingStages, EarlyStages
<1>3. CASE Continue(r, "orgClaim")
  <2>1. q.op = "changeAccess" /\ q.pc = "orgClaim" /\ q.seen = req[r].seen
        /\ q.version = req[r].version
    BY <1>1 DEF Request
  <2>2. VersionsRead(q)
    BY <1>1, <2>1 DEF VersionsRead
  <2>3. req' = [req EXCEPT ![r] = q] /\ UNCHANGED rowVars /\ SessionsKept
    BY <1>3, OthersKeepSessions DEF Continue, Goto, TypeOK, otherVars
  <2> HIDE DEF q
  <2>4. QED BY <1>2, <2>1, <2>2, <2>3, ReadStepTrail DEF ChangeStages
<1>4. CASE Abort(r)
  BY <1>4, AbortTrail
<1>5. QED BY <1>3, <1>4 DEF ReadOrganizationOwner, ContinueIf

-----------------------------------------------------------------------------
(***************************************************************************)
(* The statements that write.                                              *)
(***************************************************************************)
SameCall(p, q) ==
  /\ q.op = p.op /\ q.actor = p.actor /\ q.target = p.target /\ q.grants = p.grants
  /\ q.status = p.status /\ q.version = p.version /\ q.seen = p.seen

SameOperation(p, q) == SameCall(p, q) /\ q.had = p.had

\* A slot moves on with the rows it holds.
LEMMA MoveTrail ==
  ASSUME NEW r \in Requests, SlotTrail(r, req[r]), NEW q, SameOperation(req[r], q),
         q.pc \notin {"claim", "orgOwner", "orgClaim"},
         q.pc = "bump" => q.todo \subseteq Affected(q),
         q.op \in MemberOps /\ q.pc \in {"cancel", "cancelling", "revoke"} =>
           req[r].pc \in {"cancel", "cancelling", "revoke"},
         q.op = "changeAccess" => (q.pc \in ChangeStages <=> req[r].pc \in ChangeStages),
         HasRevoked(q) => \/ HasRevoked(req[r]) /\ q.cut = req[r].cut
                          \/ \A m \in Members : lock[m] = r => q.had[m] <= q.cut[m]
  PROVE  SlotTrail(r, q)
<1>1. \A row : Written(q, row) = Written(req[r], row)
  BY DEF Written, SameOperation, SameCall
<1>2. Affected(q) = Affected(req[r])
  BY DEF Affected, SameOperation, SameCall
<1>3. VersionsRead(q)
  BY DEF SlotTrail, VersionsRead, SameOperation, SameCall
<1>4. MembersHeld(r, q)
  BY <1>1, <1>2 DEF SlotTrail, MembersHeld, SameOperation, SameCall
<1>5. TargetHeld(r, q)
  BY DEF SlotTrail, TargetHeld, ClaimedVersion, SameOperation, SameCall
<1>6. OrgHeld(r, q)
  BY DEF SlotTrail, OrgHeld, SameOperation, SameCall
<1>7. QED BY <1>3, <1>4, <1>5, <1>6 DEF SlotTrail

\* Writing a proposal or the ownership leaves memberships and the Organization.
LEMMA AsideTrail ==
  ASSUME TypeOK, TrailIInv, TypeOK', NEW r \in Requests, NEW x \in Offers \cup {Own}, NEW v,
         Update(r, x, v), lock[x] \in {None, r}, UNCHANGED otherVars,
         NEW q, req' = [req EXCEPT ![r] = q], SlotTrail(r, q),
         q.op \in MemberOps => q.target \in Members /\ lock[q.target] = r
                               /\ ClaimedVersion(q) = db[q.target].version
                               /\ q.seen \in MemberRow
                               /\ q.seen.version <= db[q.target].version
  PROVE  TrailIInv'
<1>1. x \in Rows /\ x \notin Members /\ x # Org /\ Org \in Rows /\ Members \subseteq Rows
  BY RowKinds
<1>2. DOMAIN lock = Rows /\ DOMAIN dirty = Rows
  BY DEF TypeOK, RowsTyped
<1>3. /\ db' = db /\ req'[r] = q /\ session' = session
      /\ \A y \in Members \cup {Org} : lock'[y] = lock[y] /\ dirty'[y] = dirty[y]
  BY <1>1, <1>2 DEF Update, TypeOK, otherVars
<1>4. VersionsRead(req[r])' /\ MembersHeld(r, req[r])' /\ OrgHeld(r, req[r])'
  BY <1>3 DEF SlotTrail, VersionsRead, MembersHeld, HasRevoked, Affected, OrgHeld
<1>5. TargetHeld(r, req[r])'
  BY <1>3 DEF TargetHeld, ClaimedVersion
<1>6. SlotTrail(r, req[r])'
  BY <1>4, <1>5 DEF SlotTrail
<1>7. QED BY <1>1, <1>6, WriteTrail

LEMMA CancelOfferTrail ==
  ASSUME TypeOK, OwnerIInv, OfferIInv, TrailIInv, TypeOK', NEW r \in Requests, NEW p \in Offers,
         CancelOffer(r, p)
  PROVE  TrailIInv'
<1> DEFINE left == req[r].todo \ {p}
           stage == IF left = {} THEN AfterCancel(req[r].op) ELSE req[r].pc
           q == [req[r] EXCEPT !.todo = left, !.pc = stage]
           v == [db[p] EXCEPT !.status = "CANCELLED"]
<1>1. req[r] \in Request /\ req[r].pc = "cancelling" /\ SlotTrail(r, req[r])
  BY TrailParts DEF CancelOffer, TypeOK, At
<1>2. req' = [req EXCEPT ![r] = q] /\ UNCHANGED otherVars
  BY DEF CancelOffer
<1>3. SameOperation(req[r], q) /\ q.cut = req[r].cut /\ q.pc = stage
  BY <1>1 DEF Request, SameOperation, SameCall
<1>4. q.pc \in {"cancelling", "insert", "check", "revoke"}
      /\ (q.pc = "insert" => q.op = "propose") /\ (q.pc = "check" => q.op = "changeAccess")
      /\ (q.pc = "revoke" => q.op \notin {"propose", "changeAccess"})
  BY <1>1, <1>3 DEF AfterCancel, SameOperation, SameCall
<1>5. q.op = req[r].op
  BY <1>3 DEF SameOperation, SameCall
<1> HIDE DEF q, stage
<1>6. SlotTrail(r, q)
  BY <1>1, <1>3, <1>4, <1>5, MoveTrail DEF HasRevoked, ChangeStages
<1>7. q.op \in MemberOps => q.target \in Members /\ lock[q.target] = r
                            /\ ClaimedVersion(q) = db[q.target].version
                            /\ q.seen \in MemberRow
                            /\ q.seen.version <= db[q.target].version
  BY <1>1, <1>3, TargetNames DEF SlotTrail, TargetHeld, ClaimedVersion, SameOperation, SameCall
<1>8. CASE Update(r, p, v)
  <2>1. lock[p] \in {None, r}
    BY RowKinds, OneHolder DEF CancelOffer
  <2>2. QED BY <1>2, <1>6, <1>7, <1>8, <2>1, AsideTrail
<1>9. CASE UNCHANGED rowVars
  BY <1>2, <1>6, <1>9, QuietTrail, OthersKeepSessions DEF otherVars
<1>10. QED BY <1>8, <1>9 DEF CancelOffer

LEMMA BeginCancelTrail ==
  ASSUME TypeOK, OwnerIInv, OfferIInv, TrailIInv, TypeOK', NEW r \in Requests, BeginCancel(r)
  PROVE  TrailIInv'
<1> DEFINE stage == IF Cancellable(r) = {} THEN AfterCancel(req[r].op) ELSE "cancelling"
           q == [req[r] EXCEPT !.todo = Cancellable(r), !.pc = stage]
<1>1. req[r] \in Request /\ req[r].pc = "cancel" /\ SlotTrail(r, req[r])
  BY TrailParts DEF BeginCancel, TypeOK, At
<1>2. req' = [req EXCEPT ![r] = q] /\ UNCHANGED rowVars /\ SessionsKept
  BY OthersKeepSessions DEF BeginCancel, otherVars
<1>3. SameOperation(req[r], q) /\ q.cut = req[r].cut /\ q.pc = stage
  BY <1>1 DEF Request, SameOperation, SameCall
<1>4. q.pc \in {"cancelling", "insert", "check", "revoke"}
      /\ (q.pc = "insert" => q.op = "propose") /\ (q.pc = "check" => q.op = "changeAccess")
      /\ (q.pc = "revoke" => q.op \notin {"propose", "changeAccess"})
  BY <1>1, <1>3 DEF AfterCancel, SameOperation, SameCall
<1>5. q.op = req[r].op
  BY <1>3 DEF SameOperation, SameCall
<1> HIDE DEF q, stage
<1>6. SlotTrail(r, q)
  BY <1>1, <1>3, <1>4, <1>5, MoveTrail DEF HasRevoked, ChangeStages
<1>7. QED BY <1>2, <1>6, QuietTrail

LEMMA InsertOfferTrail ==
  ASSUME TypeOK, OwnerIInv, OfferIInv, TrailIInv, TypeOK', NEW r \in Requests, InsertOffer(r)
  PROVE  TrailIInv'
<1> DEFINE q == [req[r] EXCEPT !.pc = "recheck"]
<1>1. req[r] \in Request /\ req[r].pc = "insert" /\ SlotTrail(r, req[r]) /\ req[r].op = "propose"
  BY TrailParts DEF InsertOffer, TypeOK, RequestShaped, At
<1>2. CASE /\ FreshOffers # {} /\ Goto(r, "recheck") /\ UNCHANGED otherVars
           /\ Update(r, FreshOffer, [status |-> "PENDING", proposer |-> req[r].actor,
                                     successor |-> req[r].target])
  <2>1. PICK p \in FreshOffers : p = FreshOffer
    BY <1>2 DEF FreshOffer
  <2>2. p \in Offers /\ lock[p] = None
    BY <2>1 DEF FreshOffers
  <2>3. req' = [req EXCEPT ![r] = q]
    BY <1>2 DEF Goto, TypeOK
  <2>4. SameOperation(req[r], q) /\ q.pc = "recheck" /\ q.op = "propose"
    BY <1>1 DEF Request, SameOperation, SameCall
  <2> HIDE DEF q
  <2>5. \A m \in Members : lock[m] # r
    BY <1>1, HoldsNothing DEF HoldingStages, Roles
  <2>6. SlotTrail(r, q)
    BY <1>1, <2>4, <2>5, MoveTrail
  <2>7. q.op \notin MemberOps
    BY <2>4 DEF MemberOps
  <2>8. QED BY <1>2, <2>1, <2>2, <2>3, <2>6, <2>7, AsideTrail
<1>3. CASE Abort(r)
  BY <1>3, AbortTrail
<1>4. QED BY <1>2, <1>3 DEF InsertOffer

LEMMA ClaimOfferTrail ==
  ASSUME TypeOK, OwnerIInv, OfferIInv, TrailIInv, TypeOK', NEW r \in Requests, ClaimOffer(r)
  PROVE  TrailIInv'
<1> DEFINE p == req[r].offer
           q == [req[r] EXCEPT !.pc = "ownership"]
<1>1. req[r] \in Request /\ req[r].pc = "acceptClaim" /\ req[r].op = "accept" /\ p \in Offers
      /\ SlotTrail(r, req[r])
  BY TrailParts DEF ClaimOffer, TypeOK, RequestShaped, At, AcceptStages
<1>2. CASE /\ db[p].status = "PENDING" /\ Goto(r, "ownership") /\ UNCHANGED otherVars
           /\ Update(r, p, [db[p] EXCEPT !.status = "ACCEPTED"])
  <2>1. req' = [req EXCEPT ![r] = q]
    BY <1>2 DEF Goto, TypeOK
  <2>2. lock[p] \in {None, r}
    BY <1>1, <1>2, RowKinds, OneHolder DEF ClaimOffer, Blockers
  <2>3. SameOperation(req[r], q) /\ q.pc = "ownership" /\ q.op = "accept"
    BY <1>1 DEF Request, SameOperation, SameCall
  <2> HIDE DEF q
  <2>4. SlotTrail(r, q) /\ q.op \notin MemberOps
    BY <1>1, <2>3, MoveTrail DEF HasRevoked, MemberOps
  <2>5. QED BY <1>1, <1>2, <2>1, <2>2, <2>4, AsideTrail
<1>3. CASE Abort(r)
  BY <1>3, AbortTrail
<1>4. QED BY <1>2, <1>3 DEF ClaimOffer

LEMMA ClaimOwnershipTrail ==
  ASSUME TypeOK, OwnerIInv, OfferIInv, TrailIInv, TypeOK', NEW r \in Requests, ClaimOwnership(r)
  PROVE  TrailIInv'
<1> DEFINE q == [req[r] EXCEPT !.pc = "bump", !.todo = {req[r].target, req[r].actor}]
<1>1. req[r] \in Request /\ req[r].pc = "ownership" /\ req[r].op = "accept"
      /\ SlotTrail(r, req[r])
  BY TrailParts DEF ClaimOwnership, TypeOK, RequestShaped, At, AcceptStages
<1>2. CASE /\ db[Own] = req[r].target /\ Update(r, Own, req[r].actor) /\ UNCHANGED otherVars
           /\ req' = [req EXCEPT ![r] = q]
  <2>1. lock[Own] \in {None, r}
    BY <1>1, <1>2, RowKinds, OneHolder DEF ClaimOwnership, Blockers
  <2>2. SameOperation(req[r], q) /\ q.pc = "bump" /\ q.op = "accept"
        /\ q.todo = {q.target, q.actor}
    BY <1>1 DEF Request, SameOperation, SameCall
  <2> HIDE DEF q
  <2>3. SlotTrail(r, q) /\ q.op \notin MemberOps
    BY <1>1, <2>2, MoveTrail DEF HasRevoked, MemberOps, Affected
  <2>4. QED BY <1>2, <2>1, <2>3, AsideTrail
<1>3. CASE Abort(r)
  BY <1>3, AbortTrail
<1>4. QED BY <1>2, <1>3 DEF ClaimOwnership

LEMMA ClaimMatchesVersion ==
  ASSUME NEW r, NEW row, ClaimMatches(r, row)
  PROVE  row.version = ClaimedVersion(req[r])
<1>1. CASE req[r].op = "replaceGrants"
  BY <1>1 DEF ClaimMatches, ClaimedVersion, ChangeOps
<1>2. CASE req[r].op # "replaceGrants"
  BY <1>2 DEF ClaimMatches, ClaimedVersion, ActiveAdmin
<1>3. QED BY <1>1, <1>2

\* The claim writes the one row its operation is about, at the version read.
LEMMA ClaimTargetTrail ==
  ASSUME TypeOK, OwnerIInv, OfferIInv, TrailIInv, TypeOK', NEW r \in Requests, ClaimTarget(r)
  PROVE  TrailIInv'
<1> DEFINE m == req[r].target
           v == Written(req[r], db[m])
           had == SessionsSeen(req[r], m)
           q == [req[r] EXCEPT !.pc = AfterClaim(req[r].op), !.had = had]
<1>1. req[r] \in Request /\ req[r].pc = "claim" /\ SlotTrail(r, req[r])
      /\ m \in Members /\ req[r].op \in MemberOps /\ req[r].seen \in MemberRow
  BY TrailParts, TargetNames DEF ClaimTarget, At
<1>2. CASE ClaimMatches(r, db[m]) /\ Update(r, m, v) /\ req' = [req EXCEPT ![r] = q]
           /\ UNCHANGED otherVars
  <2>1. req' = [req EXCEPT ![r] = q] /\ req'[r] = q
    BY <1>2 DEF TypeOK
  <2>2. SameCall(req[r], q) /\ q.pc = AfterClaim(req[r].op) /\ q.had = had
    BY <1>1 DEF Request, SameCall
  <2>3. q.pc \in {"cancel", "revoke"} /\ q.op \in MemberOps /\ q.op = req[r].op /\ q.target = m
        /\ q.op # "changeAccess"
    BY <1>1, <2>2 DEF AfterClaim, SameCall, MemberOps
  <2>4. m \in Rows /\ m # Org /\ DOMAIN lock = Rows /\ DOMAIN dirty = Rows /\ Org \in Rows
        /\ Members \subseteq Rows
    BY <1>1, RowKinds DEF TypeOK, RowsTyped
  <2>5. lock[m] \in {None, r}
    BY <1>1, <1>2, <2>4, OneHolder DEF ClaimTarget, Blockers
  <2>6. \A x \in Rows : lock[x] # r
    BY <1>1, HoldsNoRow DEF ReadingStages, EarlyStages
  <2>7. /\ db' = db /\ lock'[m] = r /\ dirty'[m] = v
        /\ \A x \in Rows : x # m => lock'[x] = lock[x] /\ dirty'[x] = dirty[x]
    BY <1>2, <2>4 DEF Update
  <2>8. ClaimedVersion(req[r]) = db[m].version /\ req[r].seen.version <= db[m].version
    <3>1. req[r].seen.version <= db[m].version
      BY <1>1 DEF SlotTrail, VersionsRead
    <3>2. QED BY <1>2, <3>1, ClaimMatchesVersion
  <2>9. \A row : Written(q, row) = Written(req[r], row)
    BY <2>2 DEF Written, SameCall
  <2>16. session' = session /\ had[m] = session[m] /\ session[m] \in Nat
    BY <1>1, <1>2 DEF SessionsSeen, Request, TypeOK, otherVars
  <2> HIDE DEF q, v, had
  <2>10. VersionsRead(req[r])'
    BY <1>1, <2>1, <2>2, <2>3, <2>7 DEF SlotTrail, VersionsRead, SameCall
  <2>11. MembersHeld(r, req[r])'
    <3>1. m \in Affected(q) /\ ~HasRevoked(q)
      BY <2>3 DEF Affected, HasRevoked, MemberOps
    <3>2. ASSUME NEW n \in Members, lock'[n] = r PROVE n = m /\ dirty'[n] = Written(q, db'[n])
      BY <2>4, <2>6, <2>7, <2>9, <3>2 DEF v
    <3>3. q.pc # "bump"
      BY <2>3
    <3>4. q.had[m] <= session'[m]
      BY <2>2, <2>16
    <3>5. QED BY <2>1, <2>3, <3>1, <3>2, <3>3, <3>4 DEF MembersHeld, HasRevoked, Affected, Written
  <2>12. TargetHeld(r, req[r])'
    BY <1>1, <2>1, <2>2, <2>3, <2>7, <2>8 DEF TargetHeld, ClaimedVersion, SameCall
  <2>13. OrgHeld(r, req[r])'
    BY <2>1, <2>3, <2>4, <2>6, <2>7 DEF OrgHeld
  <2>14. SlotTrail(r, req[r])'
    BY <2>10, <2>11, <2>12, <2>13 DEF SlotTrail
  <2>15. QED BY <1>2, <2>1, <2>4, <2>5, <2>14, WriteTrail
<1>3. CASE Abort(r)
  BY <1>3, AbortTrail
<1>4. QED BY <1>2, <1>3 DEF ClaimTarget

LEMMA BumpMemberTrail ==
  ASSUME TypeOK, OwnerIInv, OfferIInv, TrailIInv, TypeOK', NEW r \in Requests, NEW m \in Members,
         BumpMember(r, m)
  PROVE  TrailIInv'
<1> DEFINE left == req[r].todo \ {m}
           stage == IF left = {} THEN "revoke" ELSE req[r].pc
           had == SessionsSeen(req[r], m)
           more == [req[r] EXCEPT !.todo = left, !.had = had]
           q == IF left = {} THEN [more EXCEPT !.pc = "revoke"] ELSE more
           v == Bumped(db[m])
<1>1. req[r] \in Request /\ req[r].pc = "bump" /\ m \in req[r].todo /\ SlotTrail(r, req[r])
      /\ req[r].op \in {"accept", "changeAccess"}
  BY TrailParts DEF BumpMember, TypeOK, RequestShaped, At
<1>2. m \in Rows /\ m # Org /\ DOMAIN lock = Rows /\ DOMAIN dirty = Rows /\ Org \in Rows
      /\ Members \subseteq Rows
  BY RowKinds DEF TypeOK, RowsTyped
<1>3. lock[m] = None
  <2>1. lock[m] \in {None, r}
    BY <1>2, OneHolder DEF BumpMember
  <2>2. lock[m] # r
    BY <1>1, OwnerParts DEF SlotSafe, MemberSlot, WriterOf
  <2>3. QED BY <2>1, <2>2
<1>4. Update(r, m, v) /\ req' = [req EXCEPT ![r] = q] /\ req'[r] = q /\ UNCHANGED otherVars
  <2>1. See(r, m) = db[m]
    BY <1>3, RowKinds DEF See
  <2>2. QED BY <2>1 DEF BumpMember, TypeOK
<1>5. SameCall(req[r], q) /\ q.todo = left /\ q.pc \in {"bump", "revoke"}
      /\ q.op \in {"accept", "changeAccess"} /\ q.had = had
  BY <1>1 DEF Request, SameCall
<1>6. /\ db' = db /\ lock'[m] = r /\ dirty'[m] = v
      /\ \A x \in Rows : x # m => lock'[x] = lock[x] /\ dirty'[x] = dirty[x]
  BY <1>2, <1>4 DEF Update
<1>14. /\ session' = session /\ m \in Members
       /\ \A n \in Members : had[n] = IF n = m THEN session[n] ELSE req[r].had[n]
       /\ \A n \in Members : session[n] \in Nat
  BY <1>1, <1>4 DEF SessionsSeen, Request, TypeOK, otherVars
<1> HIDE DEF q, v, stage, had
<1>7. Affected(q) = Affected(req[r]) /\ q.op \notin MemberOps /\ req[r].op \notin MemberOps
      /\ ~HasRevoked(q)
  BY <1>1, <1>5 DEF Affected, SameCall, MemberOps, HasRevoked
<1>8. VersionsRead(req[r])'
  BY <1>4, <1>5 DEF VersionsRead
<1>9. MembersHeld(r, req[r])'
  <2>1. q.todo \subseteq Affected(q) /\ m \in Affected(q)
    BY <1>1, <1>5, <1>7 DEF SlotTrail, MembersHeld
  <2>2. ASSUME NEW n \in Members, lock'[n] = r
        PROVE  n \in Affected(q) /\ dirty'[n] = Bumped(db[n]) /\ had[n] <= session'[n]
    <3>1. CASE n = m
      BY <1>6, <1>14, <2>1, <3>1 DEF v
    <3>2. CASE n # m
      BY <1>1, <1>2, <1>6, <1>7, <1>14, <2>2, <3>2 DEF SlotTrail, MembersHeld
    <3>3. QED BY <3>1, <3>2
  <2>3. QED BY <1>4, <1>5, <1>6, <1>7, <2>1, <2>2 DEF MembersHeld, HasRevoked, Affected, Bumped
<1>10. TargetHeld(r, req[r])'
  BY <1>4, <1>7 DEF TargetHeld
<1>11. OrgHeld(r, req[r])'
  BY <1>1, <1>2, <1>4, <1>5, <1>6 DEF SlotTrail, OrgHeld, SameCall, ChangeStages
<1>12. SlotTrail(r, req[r])'
  BY <1>8, <1>9, <1>10, <1>11 DEF SlotTrail
<1>13. QED BY <1>2, <1>3, <1>4, <1>12, WriteTrail

LEMMA ClaimOrganizationTrail ==
  ASSUME TypeOK, OwnerIInv, OfferIInv, TrailIInv, TypeOK', NEW r \in Requests,
         ClaimOrganization(r)
  PROVE  TrailIInv'
<1> DEFINE v == [status |-> req[r].status, version |-> req[r].version + 1]
           q == IF req[r].status = "ACTIVE" THEN [req[r] EXCEPT !.pc = "check"]
                ELSE [req[r] EXCEPT !.pc = "bump", !.todo = Members]
<1>1. req[r] \in Request /\ req[r].pc = "orgClaim" /\ req[r].op = "changeAccess"
      /\ VersionsRead(req[r])
  BY TrailParts DEF ClaimOrganization, TypeOK, RequestShaped, At, OrgStages, SlotTrail
<1>2. CASE db[Org].version = req[r].version /\ Update(r, Org, v) /\ req' = [req EXCEPT ![r] = q]
           /\ UNCHANGED otherVars
  <2>1. SameOperation(req[r], q) /\ q.pc \in {"bump", "check"} /\ q.op = "changeAccess"
        /\ (q.pc = "bump" => q.todo = Members) /\ req'[r] = q
    BY <1>1, <1>2 DEF Request, SameOperation, SameCall, TypeOK
  <2>2. Org \in Rows /\ DOMAIN lock = Rows /\ DOMAIN dirty = Rows /\ Org \notin Members
        /\ Members \subseteq Rows
    BY RowKinds DEF TypeOK, RowsTyped
  <2>3. lock[Org] \in {None, r}
    BY <1>1, <1>2, <2>2, OneHolder DEF ClaimOrganization, Blockers
  <2>4. \A x \in Rows : lock[x] # r
    BY <1>1, HoldsNoRow DEF ReadingStages, EarlyStages
  <2>5. /\ db' = db /\ lock'[Org] = r /\ dirty'[Org] = v
        /\ \A x \in Rows : x # Org => lock'[x] = lock[x] /\ dirty'[x] = dirty[x]
    BY <1>2, <2>2 DEF Update
  <2>6. req[r].seen.status = db[Org].status
    BY <1>1, <1>2 DEF VersionsRead
  <2> HIDE DEF q
  <2>7. VersionsRead(req[r])'
    BY <2>1 DEF VersionsRead
  <2>8. MembersHeld(r, req[r])'
    BY <2>1, <2>2, <2>4, <2>5 DEF MembersHeld, Affected
  <2>9. TargetHeld(r, req[r])'
    BY <2>1 DEF TargetHeld, MemberOps
  <2>10. OrgHeld(r, req[r])'
    BY <1>2, <2>1, <2>5, <2>6 DEF OrgHeld, SameOperation, SameCall, ChangeStages
  <2>11. SlotTrail(r, req[r])'
    BY <2>7, <2>8, <2>9, <2>10 DEF SlotTrail
  <2>12. QED BY <1>2, <2>2, <2>3, <2>11, WriteTrail
<1>3. CASE Abort(r)
  BY <1>3, AbortTrail
<1>4. QED BY <1>2, <1>3 DEF ClaimOrganization

-----------------------------------------------------------------------------
(***************************************************************************)
(* The end of every transaction.                                           *)
(***************************************************************************)
LEMMA RevokeSessionsTrail ==
  ASSUME TypeOK, OwnerIInv, OfferIInv, TrailIInv, TypeOK', NEW r \in Requests, RevokeSessions(r)
  PROVE  TrailIInv'
<1> DEFINE cut == [m \in Members |-> IF m \in Affected(req[r]) THEN session[m] ELSE 0]
           q == [req[r] EXCEPT !.pc = AfterRevoke(req[r]), !.cut = cut]
<1>1. req[r] \in Request /\ req[r].pc = "revoke" /\ SlotTrail(r, req[r])
  BY TrailParts DEF RevokeSessions, TypeOK, At
<1>2. req' = [req EXCEPT ![r] = q] /\ UNCHANGED rowVars /\ SessionsKept
  BY OthersKeepSessions DEF RevokeSessions, otherVars
<1>3. SameOperation(req[r], q) /\ q.pc = AfterRevoke(req[r]) /\ q.cut = cut /\ q.op = req[r].op
  BY <1>1 DEF Request, SameOperation, SameCall
<1>4. \/ q.op = "changeAccess" /\ q.pc \in {"cancel", "check"}
      \/ q.op # "changeAccess" /\ q.pc \in {"check", "recheck"}
  BY <1>3 DEF AfterRevoke
<1>5. \A m \in Members : lock[m] = r => req[r].had[m] <= cut[m]
  BY <1>1 DEF SlotTrail, MembersHeld
<1> HIDE DEF q, cut
<1>6. SlotTrail(r, q)
  BY <1>1, <1>3, <1>4, <1>5, MoveTrail DEF ChangeStages, MemberOps, SameOperation
<1>7. QED BY <1>2, <1>6, QuietTrail

\* The checks at the end: everything is written, and everybody revoked.
LEMMA EndingTrail ==
  ASSUME TypeOK, OwnerIInv, OfferIInv, TrailIInv, TypeOK', NEW r \in Requests, NEW ok, NEW stage,
         ContinueIf(ok, r, stage), req[r].pc \in {"recheck", "check"},
         stage \in {"check", "commit"},
         req[r].pc = "recheck" => req[r].op # "changeAccess"
  PROVE  TrailIInv'
<1> DEFINE q == [req[r] EXCEPT !.pc = stage]
<1>1. CASE Continue(r, stage)
  <2>1. req' = [req EXCEPT ![r] = q] /\ UNCHANGED rowVars /\ SessionsKept
    BY <1>1, OthersKeepSessions DEF Continue, Goto, TypeOK, otherVars
  <2>2. SameOperation(req[r], q) /\ q.pc = stage /\ q.cut = req[r].cut /\ q.op = req[r].op
    BY DEF TypeOK, Request, SameOperation, SameCall
  <2> HIDE DEF q
  <2>3. SlotTrail(r, q)
    BY <2>2, TrailParts, MoveTrail DEF HasRevoked, ChangeStages
  <2>4. QED BY <2>1, <2>3, QuietTrail
<1>2. CASE Abort(r)
  BY <1>2, AbortTrail
<1>3. QED BY <1>1, <1>2 DEF ContinueIf

LEMMA EndChecksTrail ==
  ASSUME TypeOK, OwnerIInv, OfferIInv, TrailIInv, TypeOK', NEW r \in Requests,
         Recheck(r) \/ CheckOwner(r)
  PROVE  TrailIInv'
<1>1. CASE Recheck(r)
  <2>1. req[r].pc = "recheck" /\ req[r].op # "changeAccess"
    BY <1>1 DEF Recheck, At, TypeOK, RequestShaped, TenantOps, OwnerOps, ChangeOps
  <2>2. QED BY <1>1, <2>1, EndingTrail DEF Recheck
<1>2. CASE CheckOwner(r)
  BY <1>2, EndingTrail DEF CheckOwner, At
<1>3. QED BY <1>1, <1>2

\* What COMMIT does to a row.
LEMMA CommitRow ==
  ASSUME TypeOK, NEW r \in Requests, Commit(r), NEW x \in Rows
  PROVE  /\ db'[x] = IF lock[x] = r THEN dirty[x] ELSE db[x]
         /\ dirty'[x] = dirty[x]
         /\ lock'[x] = IF lock[x] = r THEN None ELSE lock[x]
BY DEF TypeOK, RowsTyped, Commit, CommitRows, See, Release

LEMMA CommitVersions ==
  ASSUME TypeOK, OwnerIInv, TrailIInv, TypeOK', NEW r \in Requests, Commit(r)
  PROVE  VersionsGrow
<1>1. /\ \A m \in Members : db[m].version \in Nat /\ db'[m].version \in Nat
      /\ db[Org].version \in Nat /\ db'[Org].version \in Nat
  BY DEF TypeOK, RowsTyped, MemberRow, OrgRow
<1>2. \A m \in Members : db'[m] = db[m] \/ db'[m].version = db[m].version + 1
  BY CommitCounts
<1>3. lock[Org] = r => dirty[Org].version = db[Org].version + 1
  <2>1. OrgHeld(r, req[r])
    BY TrailParts DEF SlotTrail
  <2>2. QED BY <2>1 DEF OrgHeld
<1>4. db'[Org] = db[Org] \/ db'[Org].version = db[Org].version + 1
  BY <1>3, CommitRow, RowKinds
<1>5. QED BY <1>1, <1>2, <1>4 DEF VersionsGrow

LEMMA CommitTrail ==
  ASSUME TypeOK, OwnerIInv, OfferIInv, TrailIInv, TypeOK', NEW r \in Requests, Commit(r)
  PROVE  TrailIInv'
<1>1. req[r].pc = "commit" /\ req' = [req EXCEPT ![r] = Idle] /\ session' = session
      /\ SlotTrail(r, req[r]) /\ req[r] \in Request
  BY TrailParts DEF Commit, At, TypeOK
<1>2. ASSUME NEW s \in Requests PROVE SlotTrail(s, req[s])'
  <2> SessionsKept
    BY <1>1 DEF TypeOK, SessionsKept
  <2>1. CASE s = r
    <3>1. req'[s] = Idle /\ \A x \in Rows : lock'[x] # s
      BY <1>1, <2>1, CommitRow, RowKinds DEF TypeOK
    <3>2. QED BY <3>1, IdleAims, RowKinds
              DEF SlotTrail, VersionsRead, MembersHeld, TargetHeld, OrgHeld
  <2>2. CASE s # r
    <3>1. \A x \in Rows : lock'[x] = s <=> lock[x] = s
      BY <2>2, CommitRow, RowKinds
    <3>2. \A x \in Rows : lock[x] = s => db'[x] = db[x] /\ dirty'[x] = dirty[x]
      BY <2>2, CommitRow
    <3>3. req'[s] = req[s]
      BY <1>1, <2>2 DEF TypeOK
    <3>4. QED BY <3>1, <3>2, <3>3, CommitVersions, KeptTrail
  <2>3. QED BY <2>1, <2>2
<1>3. QED BY <1>2, TrailPartsNext

-----------------------------------------------------------------------------
(***************************************************************************)
(* The theorems about the trail.                                           *)
(***************************************************************************)
LEMMA StatementTrail ==
  ASSUME TypeOK, OwnerIInv, OfferIInv, TrailIInv, TypeOK', NEW r \in Requests, Statement(r)
  PROVE  TrailIInv'
BY ResolveAccessTrail, ChecksTrail, ReadTargetTrail, ClaimTargetTrail, BeginCancelTrail,
   CancelOfferTrail, InsertOfferTrail, ReadOfferTrail, ClaimOfferTrail, ClaimOwnershipTrail,
   BumpMemberTrail, ShareOrganizationTrail, ReadOrganizationTrail, ReadOrganizationOwnerTrail,
   ClaimOrganizationTrail, RevokeSessionsTrail, EndChecksTrail, CommitTrail
   DEF Statement

LEMMA InitTrail == Init => TrailIInv
<1> SUFFICES ASSUME Init PROVE TrailIInv
  OBVIOUS
<1>1. PICK owner \in Members, successor \in Members, role \in [Members -> StartRoles], g \in Grants :
        /\ InitRows([x \in Rows |-> StartRow(x, owner, role, g, successor)])
        /\ revoked = [m \in Members |-> StartEpoch(m, owner, role)]
  BY DEF Init
<1>2. \A x \in Rows : lock[x] = None /\ db[x] = StartRow(x, owner, role, g, successor)
  BY <1>1 DEF InitRows
<1>3. ASSUME NEW r \in Requests PROVE SlotTrail(r, req[r])
  <2>1. req[r] = Idle /\ \A x \in Rows : lock[x] # r
    BY <1>2, RowKinds DEF Init
  <2>2. QED BY <2>1, IdleAims, RowKinds
            DEF SlotTrail, VersionsRead, MembersHeld, TargetHeld, OrgHeld
<1>4. QED BY <1>3, TrailParts

LEMMA NextTrail ==
  TypeOK /\ OwnerIInv /\ OfferIInv /\ TrailIInv /\ [Next]_vars => TrailIInv'
<1> SUFFICES ASSUME TypeOK, OwnerIInv, OfferIInv, TrailIInv, [Next]_vars PROVE TrailIInv'
  OBVIOUS
<1>1. TypeOK'
  BY NextTyped
<1>2. ASSUME NEW r \in Requests, Arrive(r) \/ Statement(r) \/ Fail(r) \/ DeadlockVictim(r)
      PROVE  TrailIInv'
  BY <1>1, <1>2, ArriveTrail, StatementTrail, AbortTrail DEF Fail, DeadlockVictim
<1>3. ASSUME NEW m \in Members, Login(m) PROVE TrailIInv'
  <2>1. SessionsKept
    BY <1>3 DEF Login, TypeOK, SessionsKept
  <2>2. QED BY <1>1, <1>3, <2>1, StutterTrail DEF Login
<1>4. ASSUME NEW p \in Offers, ExpireOffer(p) PROVE TrailIInv'
  BY <1>1, <1>4, StutterTrail, OthersKeepSessions DEF ExpireOffer
<1>5. CASE UNCHANGED vars
  BY <1>1, <1>5, StutterTrail, OthersKeepSessions DEF vars, otherVars
<1>6. QED BY <1>2, <1>3, <1>4, <1>5 DEF Next, Quiescent

\* The strengthened invariant: the versions a request has read and claimed, what
\* exactly it has written, and that its revocation covers every session whoever
\* it has written had opened by then.
THEOREM TrailInvariant == Spec => []TrailIInv
<1>1. Spec => []TypeOK
  BY TypeCorrect
<1>2. Spec => []OwnerIInv
  BY OwnerInvariant
<1>3. Spec => []OfferIInv
  BY OfferInvariant
<1>4. QED BY <1>1, <1>2, <1>3, InitTrail, NextTrail, PTL DEF Spec

\* Each change of a member, the tenth no less than the first, ends the sessions
\* the member had opened when the row was written, whatever else runs meanwhile
\* (the authSession.updateMany of every handler of the services).
THEOREM ChangesRevokeSessions == Spec => SessionsEndWithChange
<1>1. TypeOK /\ TrailIInv /\ [Next]_vars =>
        [\A r \in Requests, m \in Members :
           lock[m] = r /\ db'[m].epoch # db[m].epoch => revoked'[m] >= req[r].had[m]]_vars
  <2> SUFFICES ASSUME TypeOK, TrailIInv, [Next]_vars, NEW r \in Requests, NEW m \in Members,
                      lock[m] = r, db'[m].epoch # db[m].epoch
               PROVE  revoked'[m] >= req[r].had[m]
    OBVIOUS
  <2>1. PICK s \in Requests : Commit(s)
    BY OnlyCommitWrites
  <2>2. s = r
    BY <2>1, CommitRow, RowKinds
  <2>3. req[r].had[m] <= req[r].cut[m]
    BY <2>1, <2>2, TrailParts DEF SlotTrail, MembersHeld, HasRevoked, Commit, At
  <2>4. req[r].had[m] \in Nat /\ req[r].cut[m] \in Nat /\ revoked[m] \in Nat
    BY DEF TypeOK, Request
  <2>5. revoked'[m] = IF req[r].cut[m] > revoked[m] THEN req[r].cut[m] ELSE revoked[m]
    BY <2>1, <2>2 DEF Commit
  <2>6. QED BY <2>3, <2>4, <2>5
<1>2. QED BY <1>1, TypeCorrect, TrailInvariant, PTL DEF Spec, SessionsEndWithChange

-----------------------------------------------------------------------------
(***************************************************************************)
(* What a commit writes, by operation.                                     *)
(***************************************************************************)
\* Nothing but a commit adds evidence.
LEMMA OnlyCommitRecords ==
  ASSUME [Next]_vars
  PROVE  evidence' = evidence \/ \E r \in Requests : Commit(r)
<1>1. ASSUME NEW r \in Requests, Arrive(r) \/ Fail(r) \/ DeadlockVictim(r)
      PROVE  evidence' = evidence
  BY <1>1 DEF Arrive, Authenticate, PlatformRequest, Fail, DeadlockVictim, Abort, otherVars
<1>2. ASSUME NEW r \in Requests, Statement(r)
      PROVE  evidence' = evidence \/ Commit(r)
  <2>1. \A stage : Continue(r, stage) => evidence' = evidence
    BY DEF Continue, otherVars
  <2>2. Abort(r) => evidence' = evidence
    BY DEF Abort, otherVars
  <2>3. \A ok, stage : ContinueIf(ok, r, stage) => evidence' = evidence
    BY <2>1, <2>2 DEF ContinueIf
  <2>4. CASE \/ ResolveAccess(r) \/ ReadOwner(r) \/ ReadTarget(r) \/ ClaimTarget(r)
             \/ BeginCancel(r) \/ (\E p \in Offers : CancelOffer(r, p)) \/ InsertOffer(r)
    BY <2>1, <2>2, <2>3, <2>4 DEF ResolveAccess, ReadOwner, ReadTarget, ClaimTarget, BeginCancel,
                                  CancelOffer, InsertOffer, otherVars
  <2>5. CASE \/ ReadOffer(r) \/ ReadSuccessor(r) \/ ReadOwnerRow(r) \/ ReadFormerOwner(r)
             \/ ClaimOffer(r) \/ ClaimOwnership(r) \/ (\E m \in Members : BumpMember(r, m))
    BY <2>2, <2>3, <2>5 DEF ReadOffer, ReadSuccessor, ReadOwnerRow, ReadFormerOwner, ClaimOffer,
                            ClaimOwnership, BumpMember, otherVars
  <2>6. CASE \/ ShareOrganization(r) \/ ReadOrganization(r) \/ ReadOrganizationOwner(r)
             \/ ClaimOrganization(r) \/ RevokeSessions(r) \/ Recheck(r) \/ CheckOwner(r)
    BY <2>2, <2>3, <2>6 DEF ShareOrganization, ReadOrganization, ReadOrganizationOwner,
                            ClaimOrganization, RevokeSessions, Recheck, CheckOwner, otherVars
  <2>7. QED BY <1>2, <2>4, <2>5, <2>6 DEF Statement
<1>3. ASSUME NEW m \in Members, Login(m) PROVE evidence' = evidence
  BY <1>3 DEF Login
<1>4. ASSUME NEW p \in Offers, ExpireOffer(p) PROVE evidence' = evidence
  BY <1>4 DEF ExpireOffer
<1>5. CASE UNCHANGED vars
  BY <1>5 DEF vars, otherVars
<1>6. QED BY <1>1, <1>2, <1>3, <1>4, <1>5 DEF Next, Quiescent

\* An operation on one membership commits that row, as its claim wrote it, or
\* nothing at all.
LEMMA CommitTarget ==
  ASSUME TypeOK, OwnerIInv, OfferIInv, TrailIInv, NEW r \in Requests, Commit(r),
         req[r].op \in MemberOps, NEW x \in Rows, lock[x] = r
  PROVE  /\ req[r].target \in Members /\ lock[req[r].target] = r
         /\ db[req[r].target].version = ClaimedVersion(req[r])
         /\ req[r].seen \in MemberRow /\ req[r].seen.version <= db[req[r].target].version
         /\ db'[req[r].target] = Written(req[r], db[req[r].target])
         /\ db'[req[r].target].version = db[req[r].target].version + 1
<1>1. SlotTrail(r, req[r]) /\ req[r].target \in Members
  BY TrailParts, TargetNames
<1>2. /\ lock[req[r].target] = r /\ db[req[r].target].version = ClaimedVersion(req[r])
      /\ req[r].seen \in MemberRow /\ req[r].seen.version <= db[req[r].target].version
  BY <1>1 DEF SlotTrail, TargetHeld
<1>3. dirty[req[r].target] = Written(req[r], db[req[r].target])
  BY <1>1, <1>2 DEF SlotTrail, MembersHeld
<1>4. db'[req[r].target] = dirty[req[r].target]
  BY <1>1, <1>2, CommitRow, RowKinds
<1>5. db[req[r].target] \in MemberRow
  BY <1>1 DEF TypeOK, RowsTyped
<1>6. QED BY <1>1, <1>2, <1>3, <1>4, <1>5, WrittenRow

LEMMA CommitEvidence ==
  ASSUME TypeOK, OwnerIInv, OfferIInv, TrailIInv, NEW r \in Requests, Commit(r),
         NEW e \in EvidenceOf(r)
  PROVE  EvidenceTrue(e)
<1> DEFINE q == req[r]
<1>1. q.pc = "commit" /\ q.op \in AllOps /\ SlotTrail(r, q)
  BY TrailParts DEF Commit, At, TypeOK, RequestShaped
<1>2. DOMAIN lock = Rows /\ Own \in Rows /\ Org \in Rows /\ Offers \subseteq Rows
  BY RowKinds DEF TypeOK
<1>3. PICK x \in Rows : lock[x] = r
  <2>1. Held(r) # {}
    BY DEF EvidenceOf
  <2>2. QED BY <1>2, <2>1 DEF Held
<1>4. Held(r) # {}
  BY <1>2, <1>3 DEF Held
<1>5. CASE q.op = "accept"
  <2>1. e = [action |-> "accept", subject |-> Own, before |-> q.target, after |-> q.actor]
    BY <1>4, <1>5 DEF EvidenceOf
  <2>2. lock[Own] = r /\ db[Own] = q.target
    BY <1>1, <1>5, OfferParts DEF SlotOffers, AcceptHolds, OwningStages
  <2>3. db'[Own] = q.actor
    BY <1>1, <1>2, <2>2, TransferHolds, CommitRow
  <2>4. QED BY <2>1, <2>2, <2>3 DEF EvidenceTrue
<1>6. CASE q.op = "propose"
  <2>1. PICK p \in Held(r) :
          /\ dirty[p].status = "PENDING"
          /\ e = [action |-> "propose", subject |-> p, before |-> None, after |-> q.target]
    BY <1>4, <1>6 DEF EvidenceOf
  <2>2. p \in Rows /\ lock[p] = r
    BY <1>2, <2>1 DEF Held
  <2>3. p \in Offers
    <3>1. p # Org
      BY <1>1, <1>6, <2>2 DEF SlotTrail, OrgHeld
    <3>2. p # Own
      BY <1>6, <2>2, OwnerParts DEF SlotSafe, OwnerSlot
    <3>3. p \notin Members
      BY <1>6, <2>2, OwnerParts DEF SlotSafe, MemberSlot, WriterOf
    <3>4. QED BY <2>2, <3>1, <3>2, <3>3 DEF Rows
  <2>4. InsertedBy(q, p)
    <3>1. ~CancelledBy(q, p)
      <4>1. db[p] \in OfferRow
        BY <2>3 DEF TypeOK, RowsTyped
      <4>2. QED BY <2>1, <4>1 DEF CancelledBy, OfferRow
    <3>2. ~AcceptedBy(q, p)
      BY <1>6 DEF AcceptedBy
    <3>3. QED BY <2>2, <2>3, <3>1, <3>2, HeldOffer
  <2>5. db'[p] = dirty[p]
    BY <2>2, CommitRow
  <2>6. db'[p].status = "PENDING" /\ db'[p].successor = q.target
    BY <2>4, <2>5 DEF InsertedBy
  <2>7. QED BY <2>1, <2>6 DEF EvidenceTrue
<1>7. CASE q.op = "changeAccess"
  <2>1. e = [action |-> "changeAccess", subject |-> Org, before |-> q.seen.status,
             after |-> q.status]
    BY <1>4, <1>7 DEF EvidenceOf
  <2>2. lock[Org] = r /\ q.seen.status = db[Org].status /\ dirty[Org].status = q.status
    BY <1>1, <1>7 DEF SlotTrail, OrgHeld, ChangeStages
  <2>3. db'[Org].status = q.status
    BY <1>2, <2>2, CommitRow
  <2>4. QED BY <2>1, <2>2, <2>3 DEF EvidenceTrue
<1>8. CASE q.op \in MemberOps
  <2>1. e = [action |-> q.op, subject |-> q.target, before |-> q.seen.version,
             after |-> q.seen.version + 1]
    BY <1>4, <1>8 DEF EvidenceOf, MemberOps
  <2>2. e.action = q.op /\ e.subject = q.target /\ e.before = q.seen.version
        /\ e.after = q.seen.version + 1
    BY <2>1
  <2>3. /\ lock[q.target] = r /\ q.target \in Rows /\ db[q.target].version = ClaimedVersion(q)
        /\ q.seen.version \in Nat /\ q.seen.version <= db[q.target].version
        /\ db[q.target].version \in Nat /\ db'[q.target].version = db[q.target].version + 1
    BY <1>3, <1>8, CommitTarget, RowKinds DEF MemberRow, TypeOK, RowsTyped
  <2>4. CASE q.op = "replaceGrants" /\ ReplacedAhead(q.target)
    <3>1. q.seen.version < q.version
      BY <2>3, <2>4 DEF ReplacedAhead
    <3>2. q.version = db[q.target].version
      BY <2>3, <2>4 DEF ClaimedVersion
    <3>3. QED BY <2>2, <2>4, <3>1, <3>2 DEF EvidenceTrue
  <2>5. CASE ~(q.op = "replaceGrants" /\ ReplacedAhead(q.target))
    <3>1. lock'[q.target] # r
      BY <2>3, CommitRow, RowKinds
    <3>2. q.op = "replaceGrants" => ~(q.seen.version < q.version)
      BY <2>3, <2>5, <3>1 DEF ReplacedAhead
    <3>3. q.seen.version = db[q.target].version
      BY <2>3, <3>2 DEF ClaimedVersion
    <3>4. QED BY <1>8, <2>2, <2>3, <2>5, <3>3 DEF EvidenceTrue, MemberOps
  <2>6. QED BY <2>4, <2>5
<1>9. QED BY <1>1, <1>5, <1>6, <1>7, <1>8 DEF MemberOps

\* The evidence of a commit names the values it replaced and the values it
\* wrote, not those of an older read (the claims by version of the services).  The
\* one exception the code has is named in EvidenceTrue: grants replaced at an
\* expectedVersion ahead of the row that was read.
THEOREM EvidenceIsTrue == Spec => EvidenceIsFaithful
<1>1. TypeOK /\ OwnerIInv /\ OfferIInv /\ TrailIInv /\ [Next]_vars =>
        [\A e \in evidence' \ evidence : EvidenceTrue(e)]_vars
  <2> SUFFICES ASSUME TypeOK, OwnerIInv, OfferIInv, TrailIInv, [Next]_vars,
                      NEW e \in evidence' \ evidence
               PROVE  EvidenceTrue(e)
    OBVIOUS
  <2>1. PICK r \in Requests : Commit(r)
    BY OnlyCommitRecords
  <2>2. e \in EvidenceOf(r)
    BY <2>1 DEF Commit
  <2>3. QED BY <2>1, <2>2, CommitEvidence
<1>2. QED BY <1>1, TypeCorrect, OwnerInvariant, OfferInvariant, TrailInvariant, PTL
      DEF Spec, EvidenceIsFaithful

-----------------------------------------------------------------------------
(***************************************************************************)
(* The refinement: a commit is one step of the ownership register.         *)
(***************************************************************************)
\* OfferedTo, of any committed rows.
OfferedIn(rows) ==
  LET pending == {p \in Offers : rows[p].status = "PENDING"}
  IN IF pending = {} THEN None ELSE rows[CHOOSE p \in pending : TRUE].successor

LEMMA OfferedNow == OfferedTo = OfferedIn(db) /\ OfferedTo' = OfferedIn(db')
BY DEF OfferedTo, OfferedIn

LEMMA OfferedNone ==
  ASSUME NEW rows, \A p \in Offers : rows[p].status # "PENDING"
  PROVE  OfferedIn(rows) = None
BY DEF OfferedIn

LEMMA OfferedOne ==
  ASSUME NEW rows, NEW p \in Offers, rows[p].status = "PENDING",
         \A o \in Offers : rows[o].status = "PENDING" => o = p
  PROVE  OfferedIn(rows) = rows[p].successor
<1> DEFINE pending == {o \in Offers : rows[o].status = "PENDING"}
<1>1. pending = {p}
  OBVIOUS
<1>2. (CHOOSE o \in pending : TRUE) = p
  BY <1>1
<1>3. QED BY <1>1, <1>2 DEF OfferedIn

\* A commit whose proposals are cancelled ones leaves the offer or withdraws it.
LEMMA OnlyCancels ==
  ASSUME TypeOK, OfferIInv, NEW r \in Requests, Commit(r),
         \A p \in Offers : lock[p] = r => CancelledBy(req[r], p)
  PROVE  \/ OfferedTo' = OfferedTo
         \/ /\ OfferedTo' = None
            /\ \E p \in Offers : CancelledBy(req[r], p) /\ OfferedTo = db[p].successor
<1>1. \A p \in Offers : db'[p] = IF lock[p] = r THEN dirty[p] ELSE db[p]
  BY CommitRow, RowKinds
<1>2. \A p, o \in Offers : db[p].status = "PENDING" /\ db[o].status = "PENDING" => p = o
  BY DEF OfferIInv, OnePendingOffer
<1>3. CASE \E p \in Offers : lock[p] = r
  <2>1. PICK p \in Offers : lock[p] = r
    BY <1>3
  <2>2. CancelledBy(req[r], p) /\ db[p].status = "PENDING" /\ dirty[p].status = "CANCELLED"
    <3>1. db[p] \in OfferRow
      BY DEF TypeOK, RowsTyped
    <3>2. QED BY <2>1, <3>1 DEF CancelledBy, OfferRow
  <2>3. OfferedTo = db[p].successor
    BY <1>2, <2>2, OfferedNow, OfferedOne
  <2>4. ASSUME NEW o \in Offers PROVE db'[o].status # "PENDING"
    <3>1. CASE o = p
      BY <1>1, <2>1, <2>2, <3>1
    <3>2. CASE o # p
      <4>1. db[o].status # "PENDING"
        BY <1>2, <2>2, <3>2
      <4>2. lock[o] # r
        BY <4>1 DEF CancelledBy
      <4>3. QED BY <1>1, <4>1, <4>2
    <3>3. QED BY <3>1, <3>2
  <2>5. OfferedTo' = None
    BY <2>4, OfferedNow, OfferedNone
  <2>6. QED BY <2>2, <2>3, <2>5
<1>4. CASE \A p \in Offers : lock[p] # r
  <2>1. \A p \in Offers : db'[p] = db[p]
    BY <1>1, <1>4
  <2>2. CASE \E p \in Offers : db[p].status = "PENDING"
    <3>1. PICK p \in Offers : db[p].status = "PENDING"
      BY <2>2
    <3>2. OfferedTo = db[p].successor
      BY <1>2, <3>1, OfferedNow, OfferedOne
    <3>3. OfferedTo' = db'[p].successor
      BY <1>2, <2>1, <3>1, OfferedNow, OfferedOne
    <3>4. QED BY <2>1, <3>2, <3>3
  <2>3. CASE \A p \in Offers : db[p].status # "PENDING"
    BY <2>1, <2>3, OfferedNow, OfferedNone
  <2>4. QED BY <2>2, <2>3
<1>5. QED BY <1>3, <1>4

Admins == {m \in Members : ActiveAdmin(db[m])}

\* A commit that does not take or give the role: transfers, proposals and
\* Platform access changes only count memberships up.
LEMMA AdminsStay ==
  ASSUME TypeOK, OwnerIInv, TrailIInv, NEW r \in Requests, Commit(r), req[r].op \notin MemberOps
  PROVE  Admins' = Admins
<1>1. ASSUME NEW m \in Members PROVE ActiveAdmin(db'[m]) <=> ActiveAdmin(db[m])
  <2>1. db'[m] = IF lock[m] = r THEN dirty[m] ELSE db[m]
    BY CommitRow, RowKinds
  <2>2. lock[m] = r => dirty[m] = Bumped(db[m])
    BY TrailParts DEF SlotTrail, MembersHeld
  <2>3. db[m] \in MemberRow
    BY DEF TypeOK, RowsTyped
  <2>4. QED BY <2>1, <2>2, <2>3, BumpedTyped DEF ActiveAdmin
<1>2. QED BY <1>1 DEF Admins, ActiveAdmin

LEMMA OwnerStays ==
  ASSUME TypeOK, OwnerIInv, NEW r \in Requests, Commit(r), req[r].op # "accept"
  PROVE  db'[Own] = db[Own]
<1>1. lock[Own] # r
  BY OwnerParts DEF SlotSafe, OwnerSlot
<1>2. QED BY <1>1, CommitRow, RowKinds

RegisterStep == [Register!Next]_(Register!register)

LEMMA RegisterSteps ==
  /\ (\E m \in Members :
        /\ m # db[Own] /\ OfferedTo' = m /\ db'[Own] = db[Own] /\ Admins' = Admins) => RegisterStep
  /\ (\E m \in Members :
        /\ Admins' = Admins \cup {m} /\ db'[Own] = db[Own] /\ OfferedTo' = OfferedTo) => RegisterStep
  /\ (\E m \in Members :
        /\ m # db[Own] /\ Admins' = Admins \ {m} /\ db'[Own] = db[Own]
        /\ OfferedTo' = OfferedTo \/ (OfferedTo' = None /\ OfferedTo = m)) => RegisterStep
  /\ OfferedTo' = None /\ db'[Own] = db[Own] /\ Admins' = Admins => RegisterStep
  /\ /\ OfferedTo \in Admins /\ db'[Own] = OfferedTo
     /\ OfferedTo' = None /\ Admins' = Admins
     => RegisterStep
  /\ OfferedTo' = OfferedTo /\ db'[Own] = db[Own] /\ Admins' = Admins => RegisterStep
BY DEF RegisterStep, Register!Next, Register!register, Register!Propose, Register!Gain,
       Register!Lose, Register!Withdraw, Register!Accept, Admins

LEMMA AcceptRegister ==
  ASSUME TypeOK, OwnerIInv, OfferIInv, TrailIInv, NEW r \in Requests, Commit(r),
         req[r].op = "accept"
  PROVE  RegisterStep
<1> DEFINE q == req[r]
           p == q.offer
<1>1. q.pc = "commit" /\ lock[Own] = r
  BY OfferParts DEF Commit, At, SlotOffers, AcceptHolds, OwningStages
<1>2. p \in Offers /\ lock[p] = r /\ AcceptedBy(q, p) /\ db[p].status = "PENDING"
      /\ db[Own] = q.target /\ dirty[Own] = q.actor /\ q.actor \in Members
  BY <1>1, TransferHolds, AcceptNames
<1>3. db[p].successor = q.actor /\ dirty[p].status = "ACCEPTED" /\ db[p] \in OfferRow
  BY <1>2 DEF AcceptedBy, TypeOK, RowsTyped, OfferRow
<1>4. \A o \in Offers : db[o].status = "PENDING" => o = p
  BY <1>2 DEF OfferIInv, OnePendingOffer
<1>5. OfferedTo = q.actor
  BY <1>2, <1>3, <1>4, OfferedNow, OfferedOne
<1>6. ASSUME NEW o \in Offers PROVE db'[o].status # "PENDING"
  <2>1. CASE o = p
    BY <1>2, <1>3, <2>1, CommitRow, RowKinds
  <2>2. CASE o # p
    <3>1. lock[o] # r
      <4> SUFFICES ASSUME lock[o] = r PROVE FALSE
        OBVIOUS
      <4>1. CancelledBy(q, o) \/ InsertedBy(q, o) \/ AcceptedBy(q, o)
        BY HeldOffer
      <4>2. QED BY <2>2, <4>1 DEF CancelledBy, InsertedBy, AcceptedBy, CancelOps
    <3>2. QED BY <1>4, <2>2, <3>1, CommitRow, RowKinds
  <2>3. QED BY <2>1, <2>2
<1>7. OfferedTo' = None
  BY <1>6, OfferedNow, OfferedNone
<1>8. Admins' = Admins
  BY AdminsStay DEF MemberOps
<1>9. db'[Own] = q.actor
  BY <1>1, <1>2, CommitRow, RowKinds
<1>10. q.actor \in Admins
  <2>1. OwnerSlot(r, q)
    BY OwnerParts DEF SlotSafe
  <2>2. lock[q.actor] = r /\ ActiveAdmin(dirty[q.actor])
    BY <1>1, <2>1 DEF OwnerSlot
  <2>3. db'[q.actor] = dirty[q.actor]
    BY <1>2, <2>2, CommitRow, RowKinds
  <2>4. q.actor \in Admins'
    BY <1>2, <2>2, <2>3 DEF Admins, ActiveAdmin
  <2>5. QED BY <1>8, <2>4
<1>11. QED BY <1>5, <1>7, <1>8, <1>9, <1>10, RegisterSteps

LEMMA ProposeRegister ==
  ASSUME TypeOK, OwnerIInv, OfferIInv, TrailIInv, NEW r \in Requests, Commit(r),
         req[r].op = "propose"
  PROVE  RegisterStep
<1> DEFINE q == req[r]
<1>1. q.pc = "commit" /\ q.target \in Members
  BY DEF Commit, At, TypeOK, RequestShaped, AllOps, TenantOps, OwnerOps
<1>2. db'[Own] = db[Own] /\ Admins' = Admins
  BY OwnerStays, AdminsStay DEF MemberOps
<1>3. ASSUME NEW p \in Offers, lock[p] = r PROVE CancelledBy(q, p) \/ InsertedBy(q, p)
  BY <1>3, HeldOffer DEF AcceptedBy
<1>4. CASE \E p \in Offers : lock[p] = r /\ InsertedBy(q, p)
  <2>1. PICK p \in Offers : lock[p] = r /\ InsertedBy(q, p)
    BY <1>4
  <2>2. /\ dirty[p].status = "PENDING" /\ dirty[p].successor = q.target
        /\ db[Own] = q.actor /\ q.target # q.actor /\ db'[p] = dirty[p]
    BY <1>1, <2>1, CommitRow, RowKinds DEF InsertedBy
  <2>3. ASSUME NEW o \in Offers, o # p PROVE db'[o].status # "PENDING"
    <3>1. dirty[o].status # "PENDING" /\ (db[o].status = "PENDING" => lock[o] = r)
      BY <2>1, <2>2, <2>3, RowKinds DEF OfferIInv, InsertedAlone
    <3>2. QED BY <3>1, CommitRow, RowKinds
  <2>4. OfferedTo' = q.target
    BY <2>2, <2>3, OfferedNow, OfferedOne
  <2>5. q.target # db[Own]
    BY <2>2
  <2>6. QED BY <1>1, <1>2, <2>4, <2>5, RegisterSteps
<1>5. CASE \A p \in Offers : lock[p] = r => CancelledBy(q, p)
  <2>1. OfferedTo' = OfferedTo \/ OfferedTo' = None
    BY <1>5, OnlyCancels
  <2>2. QED BY <1>2, <2>1, RegisterSteps
<1>6. QED BY <1>3, <1>4, <1>5

LEMMA ChangeRegister ==
  ASSUME TypeOK, OwnerIInv, OfferIInv, TrailIInv, NEW r \in Requests, Commit(r),
         req[r].op = "changeAccess"
  PROVE  RegisterStep
<1>1. db'[Own] = db[Own] /\ Admins' = Admins
  BY OwnerStays, AdminsStay DEF MemberOps
<1>2. \A p \in Offers : lock[p] = r => CancelledBy(req[r], p)
  BY HeldOffer DEF InsertedBy, AcceptedBy
<1>3. OfferedTo' = OfferedTo \/ OfferedTo' = None
  BY <1>2, OnlyCancels
<1>4. QED BY <1>1, <1>3, RegisterSteps

\* What the claim of an operation does to the role of its target.
LEMMA WrittenRole ==
  ASSUME NEW q, q.op \in MemberOps, NEW row \in MemberRow
  PROVE  /\ q.op \in {"demote", "suspend", "remove", "platformSuspend"} =>
              ~ActiveAdmin(Written(q, row))
         /\ q.op \in {"promote", "reactivate", "replaceGrants"} =>
              (ActiveAdmin(row) => ActiveAdmin(Written(q, row)))
<1> DEFINE b == Bumped(row)
<1>1. b \in MemberRow /\ b.status = row.status /\ b.profile = row.profile
  BY BumpedTyped
<1> HIDE DEF b
<1>2. CASE q.op = "promote"
  BY <1>1, <1>2 DEF Written, ActiveAdmin, MemberRow, b
<1>3. CASE q.op = "demote"
  <2>1. Written(q, row) = [b EXCEPT !.profile = "User"]
    BY <1>3 DEF Written, b
  <2>2. QED BY <1>1, <1>3, <2>1 DEF ActiveAdmin, MemberRow
<1>4. CASE q.op = "replaceGrants"
  <2>1. Written(q, row) = [b EXCEPT !.grants = q.grants]
    BY <1>4 DEF Written, b
  <2>2. QED BY <1>1, <1>4, <2>1 DEF ActiveAdmin, MemberRow
<1>5. CASE q.op \in {"suspend", "remove", "reactivate", "platformSuspend"}
  <2>1. Written(q, row) = [b EXCEPT !.status = StatusAfter(q.op)]
    BY <1>5 DEF Written, b
  <2>2. Written(q, row).status = StatusAfter(q.op) /\ Written(q, row).profile = row.profile
    BY <1>1, <2>1 DEF MemberRow
  <2>3. QED BY <1>5, <2>2 DEF StatusAfter, ActiveAdmin
<1>6. QED BY <1>2, <1>3, <1>4, <1>5 DEF MemberOps, AllOps, TenantOps, OwnerOps, ChangeOps,
                                        PlatformOps

LEMMA TargetRegister ==
  ASSUME TypeOK, OwnerIInv, OfferIInv, TrailIInv, NEW r \in Requests, Commit(r),
         req[r].op \in MemberOps
  PROVE  RegisterStep
<1> DEFINE q == req[r]
           m == q.target
<1>1. db'[Own] = db[Own]
  BY OwnerStays DEF MemberOps
<1>2. ASSUME NEW p \in Offers, lock[p] = r PROVE CancelledBy(q, p)
  BY <1>2, HeldOffer DEF InsertedBy, AcceptedBy, MemberOps
<1>3. CASE \A x \in Rows : lock[x] # r
  <2>1. \A x \in Rows : db'[x] = db[x]
    BY <1>3, CommitRow
  <2>2. Admins' = Admins
    BY <2>1, RowKinds DEF Admins, ActiveAdmin
  <2>3. \A p \in Offers : lock[p] # r
    BY <1>3, RowKinds
  <2>4. OfferedTo' = OfferedTo \/ OfferedTo' = None
    BY <2>3, OnlyCancels
  <2>5. QED BY <1>1, <2>2, <2>4, RegisterSteps
<1>4. CASE \E x \in Rows : lock[x] = r
  <2>1. m \in Members /\ lock[m] = r /\ db'[m] = Written(q, db[m]) /\ db[m] \in MemberRow
    BY <1>4, CommitTarget DEF TypeOK, RowsTyped
  <2>2. \A n \in Members : n # m => db'[n] = db[n]
    <3>1. \A n \in Members : lock[n] = r => n = m
      BY TrailParts DEF SlotTrail, MembersHeld, Affected, MemberOps
    <3>2. QED BY <3>1, CommitRow, RowKinds
  <2>3. CASE q.op \in {"demote", "suspend", "remove", "platformSuspend"}
    <3>1. ~ActiveAdmin(db'[m])
      BY <2>1, <2>3, WrittenRole
    <3>2. Admins' = Admins \ {m}
      BY <2>1, <2>2, <3>1 DEF Admins, ActiveAdmin
    <3>3. m # db[Own]
      <4>1. m = db[Own] => ActiveAdmin(dirty[m])
        BY <2>1, OwnerParts DEF SlotSafe, MemberSlot, PendingRow
      <4>2. db'[m] = dirty[m]
        BY <2>1, CommitRow, RowKinds
      <4>3. QED BY <3>1, <4>1, <4>2
    <3>4. OfferedTo' = OfferedTo \/ (OfferedTo' = None /\ OfferedTo = m)
      <4>1. ASSUME NEW p \in Offers, CancelledBy(q, p) PROVE db[p].successor = m
        BY <4>1 DEF CancelledBy, MayCancel, MemberOps
      <4>2. QED BY <1>2, <4>1, OnlyCancels
    <3>5. QED BY <1>1, <2>1, <3>2, <3>3, <3>4, RegisterSteps
  <2>4. CASE q.op \in {"promote", "reactivate", "replaceGrants"}
    <3>1. \A p \in Offers : ~CancelledBy(q, p)
      BY <2>4 DEF CancelledBy, CancelOps
    <3>2. OfferedTo' = OfferedTo
      BY <1>2, <3>1, OnlyCancels
    <3>3. ActiveAdmin(db[m]) => ActiveAdmin(db'[m])
      BY <2>1, <2>4, WrittenRole
    <3>4. Admins' = Admins \cup {m} \/ Admins' = Admins
      BY <2>1, <2>2, <3>3 DEF Admins, ActiveAdmin
    <3>5. QED BY <1>1, <2>1, <3>2, <3>4, RegisterSteps
  <2>5. QED BY <2>3, <2>4 DEF MemberOps, AllOps, TenantOps, OwnerOps, ChangeOps, PlatformOps
<1>5. QED BY <1>3, <1>4

LEMMA NextRegister ==
  TypeOK /\ OwnerIInv /\ OfferIInv /\ TrailIInv /\ [Next]_vars => RegisterStep
<1> SUFFICES ASSUME TypeOK, OwnerIInv, OfferIInv, TrailIInv, [Next]_vars PROVE RegisterStep
  OBVIOUS
<1>1. CASE db' = db
  <2>1. OfferedTo' = OfferedTo /\ Admins' = Admins
    BY <1>1 DEF OfferedTo, Admins, ActiveAdmin
  <2>2. QED BY <1>1, <2>1, RegisterSteps
<1>2. ASSUME NEW r \in Requests, Commit(r) PROVE RegisterStep
  <2>1. req[r].op \in AllOps
    BY <1>2 DEF Commit, At, TypeOK, RequestShaped
  <2>2. QED BY <1>2, <2>1, AcceptRegister, ProposeRegister, ChangeRegister, TargetRegister
            DEF MemberOps
<1>3. QED BY <1>1, <1>2, OnlyCommitWrites

LEMMA InitRegister == TypeOK /\ OwnerIInv /\ OfferIInv => Register!Init
<1> SUFFICES ASSUME TypeOK, OwnerIInv, OfferIInv PROVE Register!Init
  OBVIOUS
<1>1. db[Own] \in Members /\ ActiveAdmin(db[db[Own]])
  BY DEF TypeOK, RowsTyped, OwnerIInv, OwnerIsActiveAdministrator
<1>2. OfferedTo \in (Members \cup {None}) \ {db[Own]}
  <2>1. CASE \E p \in Offers : db[p].status = "PENDING"
    <3>1. PICK p \in Offers : db[p].status = "PENDING"
      BY <2>1
    <3>2. OfferedTo = db[p].successor
      BY <3>1, OfferedNow, OfferedOne DEF OfferIInv, OnePendingOffer
    <3>3. db[p].successor \in Members
      BY <3>1 DEF TypeOK, RowsTyped
    <3>4. db[p].successor # db[Own]
      BY <3>1 DEF OfferIInv, PendingOfferIsOwners
    <3>5. QED BY <3>2, <3>3, <3>4
  <2>2. CASE \A p \in Offers : db[p].status # "PENDING"
    BY <1>1, <2>2, OfferedNow, OfferedNone, RowKinds
  <2>3. QED BY <2>1, <2>2
<1>3. QED BY <1>1, <1>2 DEF Register!Init, Admins

\* The services keep their whole invariant: owner, proposals, sessions, versions
\* and uncommitted rows (ownership.service.ts, collaborator-lifecycle.service.ts,
\* organization.service.ts).
THEOREM RegisterInvariant == Spec => []RegisterIInv
BY OwnerInvariant, OfferInvariant, TrailInvariant, PTL DEF RegisterIInv

\* Statements, failures and deadlocks of any number of requests add up to steps
\* of the ownership register: nothing but whole commits is seen from outside,
\* and each keeps the promise (ownership.service.ts, collaborator-lifecycle.service.ts).
THEOREM ServicesImplementRegister == Spec => ImplementsRegister
<1>1. Init => Register!Init
  BY InitTyped, InitSafe, InitOffers, InitRegister
<1>2. TypeOK /\ OwnerIInv /\ OfferIInv /\ TrailIInv /\ [Next]_vars =>
        [Register!Next]_(Register!register)
  BY NextRegister DEF RegisterStep
<1>3. QED BY <1>1, <1>2, TypeCorrect, OwnerInvariant, OfferInvariant, TrailInvariant, PTL
      DEF Spec, ImplementsRegister, Register!Spec
=============================================================================
