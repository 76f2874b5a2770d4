-------------------------- MODULE GovernanceProofs --------------------------
(***************************************************************************)
(* Proofs about Governance for any members, proposals, request slots and   *)
(* bounds: types, that the owner of the Organization is always an active   *)
(* Administrator, and that no membership change is lost.                   *)
(***************************************************************************)
EXTENDS Governance, TLAPS

\* TypeOK in three parts: the rows, the request slots, the rest.
StoreTyped ==
  /\ RowsTyped(db) /\ RowsTyped(dirty)
  /\ lock \in [Rows -> Requests \cup {None}]
  /\ share \in [Rows -> SUBSET Requests]

SlotsTyped ==
  /\ req \in [Requests -> Request]
  /\ \A r \in Requests : RequestShaped(req[r])

RestTyped ==
  /\ session \in [Members -> Nat] /\ revoked \in [Members -> Nat]
  /\ expired \subseteq Offers
  /\ \A e \in evidence : e.action \in AllOps /\ e.subject \in Rows
  /\ begun \in Nat

LEMMA TypeParts == TypeOK <=> StoreTyped /\ SlotsTyped /\ RestTyped
BY DEF TypeOK, StoreTyped, SlotsTyped, RestTyped

LEMMA TypePartsNext == StoreTyped' /\ SlotsTyped' /\ RestTyped' => TypeOK'
BY DEF TypeOK, StoreTyped, SlotsTyped, RestTyped

-----------------------------------------------------------------------------
(***************************************************************************)
(* Rows.                                                                   *)
(***************************************************************************)
\* The kinds of rows do not overlap.
LEMMA RowKinds ==
  /\ Members \subseteq Rows /\ Offers \subseteq Rows /\ Own \in Rows /\ Org \in Rows
  /\ Own # Org /\ Own \notin Members \cup Offers /\ Org \notin Members \cup Offers
  /\ \A m \in Members : m \notin Offers
  /\ None \notin Members /\ None \notin Offers /\ None \notin Requests
BY GovernanceAssumption DEF GovernanceAssumption, Rows

\* Mixing two typed stores row by row gives a typed store.
LEMMA MixTyped ==
  ASSUME NEW f, NEW g, NEW h, RowsTyped(f), RowsTyped(g),
         DOMAIN h = Rows, \A x \in Rows : h[x] \in {f[x], g[x]}
  PROVE  RowsTyped(h)
BY RowKinds DEF RowsTyped

LEMMA ReleaseTyped ==
  ASSUME StoreTyped, NEW r \in Requests, Release(r)
  PROVE  /\ lock' \in [Rows -> Requests \cup {None}]
         /\ share' \in [Rows -> SUBSET Requests]
BY DEF StoreTyped, Release

LEMMA RollbackTyped ==
  ASSUME StoreTyped, NEW r \in Requests, RollbackRows(r)
  PROVE  StoreTyped'
<1>1. RowsTyped(db')
  BY DEF StoreTyped, RollbackRows
<1>2. DOMAIN dirty = Rows /\ DOMAIN db = Rows
  BY DEF StoreTyped, RowsTyped
<1>3. RowsTyped(dirty')
  BY <1>2, MixTyped DEF StoreTyped, RollbackRows
<1>4. QED BY <1>1, <1>3, ReleaseTyped DEF StoreTyped, RollbackRows, RowsTyped

LEMMA CommitTyped ==
  ASSUME StoreTyped, NEW r \in Requests, CommitRows(r)
  PROVE  StoreTyped'
<1>1. RowsTyped(dirty')
  BY DEF StoreTyped, CommitRows
<1>2. DOMAIN dirty = Rows /\ DOMAIN db = Rows
  BY DEF StoreTyped, RowsTyped
<1>3. RowsTyped(db')
  BY <1>2, MixTyped DEF StoreTyped, CommitRows, See
<1>4. QED BY <1>1, <1>3, ReleaseTyped DEF StoreTyped, CommitRows, RowsTyped

\* An update keeps the store typed when the new value fits its row.
LEMMA UpdateTyped ==
  ASSUME StoreTyped, NEW r \in Requests, NEW x \in Rows, NEW v, Update(r, x, v),
         RowsTyped([dirty EXCEPT ![x] = v])
  PROVE  StoreTyped'
BY DEF StoreTyped, Update, RowsTyped

LEMMA UpdateMemberTyped ==
  ASSUME StoreTyped, NEW r \in Requests, NEW m \in Members, NEW v \in MemberRow, Update(r, m, v)
  PROVE  StoreTyped'
<1>1. RowsTyped([dirty EXCEPT ![m] = v])
  BY RowKinds DEF StoreTyped, RowsTyped
<1>2. QED BY <1>1, UpdateTyped, RowKinds

LEMMA UpdateOfferTyped ==
  ASSUME StoreTyped, NEW r \in Requests, NEW p \in Offers, NEW v \in OfferRow, Update(r, p, v),
         v.proposer \in Members, v.successor \in Members
  PROVE  StoreTyped'
<1>1. RowsTyped([dirty EXCEPT ![p] = v])
  BY RowKinds DEF StoreTyped, RowsTyped
<1>2. QED BY <1>1, UpdateTyped, RowKinds

LEMMA UpdateOwnTyped ==
  ASSUME StoreTyped, NEW r \in Requests, NEW v \in Members, Update(r, Own, v)
  PROVE  StoreTyped'
<1>1. RowsTyped([dirty EXCEPT ![Own] = v])
  BY RowKinds DEF StoreTyped, RowsTyped
<1>2. QED BY <1>1, UpdateTyped, RowKinds

LEMMA UpdateOrgTyped ==
  ASSUME StoreTyped, NEW r \in Requests, NEW v \in OrgRow, Update(r, Org, v)
  PROVE  StoreTyped'
<1>1. RowsTyped([dirty EXCEPT ![Org] = v])
  BY RowKinds DEF StoreTyped, RowsTyped
<1>2. QED BY <1>1, UpdateTyped, RowKinds

\* What a transaction sees is typed.
LEMMA SeeTyped ==
  ASSUME StoreTyped, NEW r
  PROVE  /\ \A m \in Members : See(r, m) \in MemberRow
         /\ \A p \in Offers : /\ See(r, p) \in OfferRow
                              /\ See(r, p).status # "ABSENT" =>
                                   See(r, p).proposer \in Members /\ See(r, p).successor \in Members
         /\ See(r, Own) \in Members
         /\ See(r, Org) \in OrgRow
BY DEF StoreTyped, RowsTyped, See

LEMMA BumpedTyped ==
  ASSUME NEW row \in MemberRow
  PROVE  /\ Bumped(row) \in MemberRow
         /\ Bumped(row).status = row.status /\ Bumped(row).profile = row.profile
         /\ Bumped(row).version = row.version + 1 /\ Bumped(row).epoch = row.epoch + 1
<1>1. [row EXCEPT !.epoch = @ + 1] \in MemberRow
  BY DEF MemberRow
<1>2. ASSUME NEW x \in MemberRow PROVE [x EXCEPT !.version = @ + 1] \in MemberRow
  BY DEF MemberRow
<1>3. Bumped(row) = [[row EXCEPT !.epoch = @ + 1] EXCEPT !.version = @ + 1]
  BY DEF Bumped, MemberRow
<1>4. Bumped(row) \in MemberRow
  BY <1>1, <1>2, <1>3
<1>5. QED BY <1>4 DEF Bumped, MemberRow

-----------------------------------------------------------------------------
(***************************************************************************)
(* Request slots.                                                          *)
(***************************************************************************)
LEMMA SlotTyped ==
  ASSUME SlotsTyped, NEW r \in Requests, NEW q \in Request, RequestShaped(q),
         req' = [req EXCEPT ![r] = q]
  PROVE  SlotsTyped'
BY DEF SlotsTyped

LEMMA IdleTyped == Idle \in Request /\ RequestShaped(Idle)
<1>1. Idle \in Request
  BY DEF Idle, Request, Stages
<1>2. Idle.pc = "idle" /\ Idle.op = None
  BY DEF Idle
<1>3. None \notin AllOps
  BY GovernanceAssumption DEF GovernanceAssumption
<1>4. QED BY <1>1, <1>2, <1>3 DEF RequestShaped, AcceptStages, OrgStages, AllOps, TenantOps,
                                  OwnerOps, ChangeOps, PlatformOps

\* Setting the fields of a slot.
LEMMA SetPc ==
  ASSUME NEW q \in Request, NEW s \in Stages
  PROVE  [q EXCEPT !.pc = s] \in Request
BY DEF Request

LEMMA SetSeen ==
  ASSUME NEW q \in Request, NEW s \in Stages, NEW x \in MemberRow \cup OrgRow
  PROVE  [q EXCEPT !.pc = s, !.seen = x] \in Request
BY DEF Request

LEMMA SetTarget ==
  ASSUME NEW q \in Request, NEW s \in Stages, NEW m \in Members
  PROVE  [q EXCEPT !.pc = s, !.target = m] \in Request
BY DEF Request

LEMMA SetTodo ==
  ASSUME NEW q \in Request, NEW s \in Stages, NEW left \in SUBSET (Members \cup Offers)
  PROVE  [q EXCEPT !.pc = s, !.todo = left] \in Request
BY DEF Request

LEMMA SetCut ==
  ASSUME NEW q \in Request, NEW s \in Stages, NEW c \in [Members -> Nat]
  PROVE  [q EXCEPT !.pc = s, !.cut = c] \in Request
BY DEF Request

LEMMA SetHad ==
  ASSUME NEW q \in Request, NEW s \in Stages, NEW h \in [Members -> Nat]
  PROVE  [q EXCEPT !.pc = s, !.had = h] \in Request
BY DEF Request

LEMMA SetTodoHad ==
  ASSUME NEW q \in Request, NEW left \in SUBSET (Members \cup Offers),
         NEW h \in [Members -> Nat]
  PROVE  [q EXCEPT !.todo = left, !.had = h] \in Request
BY DEF Request

\* What a request notes of a member when it writes its row.
LEMMA SeenTyped ==
  ASSUME TypeOK, NEW r \in Requests, NEW m \in Members
  PROVE  SessionsSeen(req[r], m) \in [Members -> Nat]
<1>1. req[r].had \in [Members -> Nat] /\ session[m] \in Nat
  BY DEF TypeOK, Request
<1>2. QED BY <1>1 DEF SessionsSeen

LEMMA AbortTyped ==
  ASSUME TypeOK, NEW r \in Requests, Abort(r)
  PROVE  TypeOK'
<1>1. StoreTyped' BY TypeParts, RollbackTyped DEF Abort
<1>2. SlotsTyped' BY TypeParts, SlotTyped, IdleTyped DEF Abort
<1>3. RestTyped' BY TypeParts DEF Abort, otherVars, RestTyped
<1>4. QED BY <1>1, <1>2, <1>3, TypePartsNext

\* A step that leaves the rows alone and moves one slot.
LEMMA ReadTyped ==
  ASSUME TypeOK, NEW r \in Requests, NEW q \in Request, RequestShaped(q),
         req' = [req EXCEPT ![r] = q], UNCHANGED <<rowVars, otherVars>>
  PROVE  TypeOK'
<1>1. StoreTyped' BY TypeParts DEF StoreTyped, rowVars, RowsTyped
<1>2. SlotsTyped' BY TypeParts, SlotTyped
<1>3. RestTyped' BY TypeParts DEF otherVars, RestTyped
<1>4. QED BY <1>1, <1>2, <1>3, TypePartsNext

\* A step that writes a row and moves the slot.
LEMMA WriteTyped ==
  ASSUME TypeOK, StoreTyped', NEW r \in Requests, NEW q \in Request, RequestShaped(q),
         req' = [req EXCEPT ![r] = q], UNCHANGED otherVars
  PROVE  TypeOK'
<1>1. SlotsTyped' BY TypeParts, SlotTyped
<1>2. RestTyped' BY TypeParts DEF otherVars, RestTyped
<1>3. QED BY <1>1, <1>2, TypePartsNext

LEMMA ContinueTyped ==
  ASSUME TypeOK, NEW r \in Requests, NEW stage \in Stages, Continue(r, stage),
         RequestShaped([req[r] EXCEPT !.pc = stage])
  PROVE  TypeOK'
<1>1. req[r] \in Request BY DEF TypeOK
<1>2. [req[r] EXCEPT !.pc = stage] \in Request BY <1>1 DEF Request
<1>3. req' = [req EXCEPT ![r] = [req[r] EXCEPT !.pc = stage]]
  BY DEF Continue, Goto, TypeOK
<1>4. QED BY <1>2, <1>3, ReadTyped DEF Continue

-----------------------------------------------------------------------------
(***************************************************************************)
(* Each action keeps TypeOK.                                               *)
(***************************************************************************)
LEMMA ResolveAccessTyped ==
  ASSUME TypeOK, NEW r \in Requests, ResolveAccess(r)
  PROVE  TypeOK'
<1> DEFINE q == req[r]
           next == [q EXCEPT !.pc = AfterAccess(q.op), !.epoch = db[q.actor].epoch]
<1>1. q \in Request /\ RequestShaped(q) /\ q.pc = "access"
  BY DEF TypeOK, ResolveAccess, At
<1>2. q.op \in TenantOps /\ q.actor \in Members
  BY <1>1 DEF RequestShaped
<1>3. db[q.actor].epoch \in Nat
  BY <1>2 DEF TypeOK, RowsTyped, MemberRow
<1>4. next \in Request
  BY <1>1, <1>3 DEF Request, AfterAccess, Stages
<1>5. RequestShaped(next)
  BY <1>1, <1>2 DEF RequestShaped, Request, AfterAccess, TenantOps, OwnerOps, ChangeOps,
                   AllOps, PlatformOps, AcceptStages, OrgStages
<1>6. req' = [req EXCEPT ![r] = next] \/ req' = [req EXCEPT ![r] = Idle]
  BY DEF ResolveAccess
<1>7. UNCHANGED <<rowVars, otherVars>>
  BY DEF ResolveAccess
<1>8. QED BY <1>4, <1>5, <1>6, <1>7, ReadTyped, IdleTyped

LEMMA ReadOwnerTyped ==
  ASSUME TypeOK, NEW r \in Requests, ReadOwner(r)
  PROVE  TypeOK'
<1>1. req[r] \in Request /\ RequestShaped(req[r]) /\ req[r].pc = "owner"
  BY DEF TypeOK, ReadOwner, At
<1>2. RequestShaped([req[r] EXCEPT !.pc = "target"])
  BY <1>1 DEF RequestShaped, Request, OwnerOps, TenantOps, AllOps, AcceptStages, OrgStages
<1>3. CASE Continue(r, "target")
  BY <1>2, <1>3, ContinueTyped DEF Stages
<1>4. CASE Abort(r)
  BY <1>4, AbortTyped
<1>5. QED BY <1>3, <1>4 DEF ReadOwner, ContinueIf

LEMMA ReadTargetTyped ==
  ASSUME TypeOK, NEW r \in Requests, ReadTarget(r)
  PROVE  TypeOK'
<1> DEFINE q == req[r]
           row == See(r, q.target)
           next == [q EXCEPT !.pc = AfterTarget(q.op), !.seen = row]
<1>1. q \in Request /\ RequestShaped(q) /\ q.pc = "target"
  BY DEF TypeOK, ReadTarget, At
<1>2. q.op \in AllOps \ {"accept", "changeAccess"} /\ q.target \in Members
  BY <1>1 DEF RequestShaped
<1>3. row \in MemberRow
  BY <1>2, SeeTyped, TypeParts
<1>4. CASE req' = [req EXCEPT ![r] = next] /\ UNCHANGED <<rowVars, otherVars>>
  <2>1. next \in Request
    BY <1>1, <1>3, SetSeen DEF AfterTarget, Stages
  <2>2. next.op = q.op /\ next.pc = AfterTarget(q.op) /\ next.seen = row
        /\ next.actor = q.actor /\ next.target = q.target /\ next.grants = q.grants
    BY <1>1 DEF Request
  <2>3. RequestShaped(next)
    BY <1>1, <1>2, <1>3, <2>2 DEF RequestShaped, AfterTarget, AcceptStages, OrgStages
  <2>4. QED BY <1>4, <2>1, <2>3, ReadTyped
<1>5. CASE AlreadyThere(r, row) /\ Continue(r, "recheck")
  <2>1. RequestShaped([q EXCEPT !.pc = "recheck"])
    BY <1>1, <1>5 DEF RequestShaped, Request, AlreadyThere, ChangeOps, TenantOps, AllOps,
                      AcceptStages, OrgStages
  <2>2. QED BY <1>5, <2>1, ContinueTyped DEF Stages
<1>6. CASE Abort(r)
  BY <1>6, AbortTyped
<1>7. QED BY <1>4, <1>5, <1>6 DEF ReadTarget

\* The row an operation writes is a membership row.
LEMMA WrittenTyped ==
  ASSUME NEW q \in Request, RequestShaped(q), NEW row \in MemberRow
  PROVE  Written(q, row) \in MemberRow
<1> DEFINE b == Bumped(row)
<1>1. b \in MemberRow BY BumpedTyped
<1> HIDE DEF b
<1>2. [b EXCEPT !.profile = "Administrator"] \in MemberRow
  BY <1>1 DEF MemberRow, Profiles
<1>3. [b EXCEPT !.profile = "User"] \in MemberRow
  BY <1>1 DEF MemberRow, Profiles
<1>4. q.op = "replaceGrants" => [b EXCEPT !.grants = q.grants] \in MemberRow
  BY <1>1 DEF MemberRow, RequestShaped
<1>5. [b EXCEPT !.status = StatusAfter(q.op)] \in MemberRow
  BY <1>1 DEF MemberRow, StatusAfter, Statuses
<1>6. QED BY <1>2, <1>3, <1>4, <1>5 DEF Written, b

LEMMA ClaimTargetTyped ==
  ASSUME TypeOK, NEW r \in Requests, ClaimTarget(r)
  PROVE  TypeOK'
<1> DEFINE q == req[r]
           had == SessionsSeen(q, q.target)
           next == [q EXCEPT !.pc = AfterClaim(q.op), !.had = had]
<1>1. q \in Request /\ RequestShaped(q) /\ q.pc = "claim"
  BY DEF TypeOK, ClaimTarget, At
<1>2. q.op \in AllOps \ {"accept", "changeAccess", "propose"} /\ q.target \in Members
  BY <1>1 DEF RequestShaped
<1>3. CASE Update(r, q.target, Written(q, db[q.target])) /\ req' = [req EXCEPT ![r] = next]
           /\ UNCHANGED otherVars
  <2>1. Written(q, db[q.target]) \in MemberRow
    BY <1>1, <1>2, WrittenTyped DEF TypeOK, RowsTyped
  <2>2. StoreTyped'
    BY <1>2, <1>3, <2>1, UpdateMemberTyped, TypeParts
  <2>3. had \in [Members -> Nat]
    BY <1>2, SeenTyped
  <2> HIDE DEF had
  <2>4. next \in Request
    BY <1>1, <2>3, SetHad DEF AfterClaim, Stages
  <2>5. RequestShaped(next)
    BY <1>1, <1>2 DEF RequestShaped, Request, AfterClaim, AcceptStages, OrgStages
  <2>6. QED BY <1>3, <2>2, <2>4, <2>5, WriteTyped
<1>4. CASE Abort(r)
  BY <1>4, AbortTyped
<1>5. QED BY <1>3, <1>4 DEF ClaimTarget

\* Where a handler goes once its cancelling UPDATE is done.
LEMMA AfterCancelShaped ==
  ASSUME NEW q \in Request, RequestShaped(q), q.pc \in {"cancel", "cancelling"},
         NEW left \in SUBSET (Members \cup Offers)
  PROVE  /\ AfterCancel(q.op) \in Stages
         /\ RequestShaped([q EXCEPT !.pc = AfterCancel(q.op), !.todo = left])
<1> DEFINE next == [q EXCEPT !.pc = AfterCancel(q.op), !.todo = left]
<1>1. next.pc = AfterCancel(q.op) /\ next.op = q.op /\ next.actor = q.actor
      /\ next.target = q.target /\ next.offer = q.offer /\ next.status = q.status
      /\ next.grants = q.grants /\ next.seen = q.seen /\ next.todo = left
  BY DEF Request
<1>2. QED BY <1>1 DEF RequestShaped, AfterCancel, Stages, AcceptStages, OrgStages

LEMMA BeginCancelTyped ==
  ASSUME TypeOK, NEW r \in Requests, BeginCancel(r)
  PROVE  TypeOK'
<1> DEFINE q == req[r]
           rows == Cancellable(r)
           done == [q EXCEPT !.pc = AfterCancel(q.op), !.todo = rows]
           wait == [q EXCEPT !.pc = "cancelling", !.todo = rows]
<1>1. q \in Request /\ RequestShaped(q) /\ q.pc = "cancel"
  BY DEF TypeOK, BeginCancel, At
<1>2. rows \in SUBSET Offers /\ rows \in SUBSET (Members \cup Offers)
  BY DEF Cancellable
<1>3. RequestShaped(done) /\ done \in Request
  BY <1>1, <1>2, AfterCancelShaped, SetTodo
<1>4. wait \in Request
  BY <1>1, <1>2, SetTodo DEF Stages
<1>5. RequestShaped(wait)
  BY <1>1, <1>2 DEF RequestShaped, Request, AcceptStages, OrgStages
<1>6. req' = [req EXCEPT ![r] = done] \/ req' = [req EXCEPT ![r] = wait]
  BY DEF BeginCancel, TypeOK, Request
<1>7. UNCHANGED <<rowVars, otherVars>>
  BY DEF BeginCancel
<1>8. QED BY <1>3, <1>4, <1>5, <1>6, <1>7, ReadTyped

LEMMA CancelOfferTyped ==
  ASSUME TypeOK, NEW r \in Requests, NEW p \in Offers, CancelOffer(r, p)
  PROVE  TypeOK'
<1> DEFINE q == req[r]
           left == q.todo \ {p}
           done == [q EXCEPT !.pc = AfterCancel(q.op), !.todo = left]
           more == [q EXCEPT !.pc = q.pc, !.todo = left]
<1>1. q \in Request /\ RequestShaped(q) /\ q.pc = "cancelling"
  BY DEF TypeOK, CancelOffer, At
<1>2. left \in SUBSET Offers /\ left \in SUBSET (Members \cup Offers)
  BY <1>1 DEF RequestShaped
<1>3. RequestShaped(done) /\ done \in Request
  BY <1>1, <1>2, AfterCancelShaped, SetTodo
<1>4. more \in Request
  BY <1>1, <1>2, SetTodo DEF Stages
<1>5. RequestShaped(more)
  BY <1>1, <1>2 DEF RequestShaped, Request, AcceptStages, OrgStages
<1>6. req' = [req EXCEPT ![r] = done] \/ req' = [req EXCEPT ![r] = more]
  BY DEF CancelOffer, TypeOK, Request
<1>7. StoreTyped'
  <2>1. CASE Update(r, p, [db[p] EXCEPT !.status = "CANCELLED"]) /\ db[p].status = "PENDING"
    <3>1. db[p] \in OfferRow /\ {db[p].proposer, db[p].successor} \subseteq Members
      BY <2>1 DEF TypeOK, RowsTyped
    <3>2. [db[p] EXCEPT !.status = "CANCELLED"] \in OfferRow
      BY <3>1 DEF OfferRow, OfferStatuses
    <3>3. QED BY <2>1, <3>1, <3>2, UpdateOfferTyped, TypeParts DEF OfferRow
  <2>2. CASE UNCHANGED rowVars
    BY <2>2, TypeParts DEF StoreTyped, rowVars, RowsTyped
  <2>3. QED BY <2>1, <2>2 DEF CancelOffer
<1>8. UNCHANGED otherVars
  BY DEF CancelOffer
<1>9. QED BY <1>3, <1>4, <1>5, <1>6, <1>7, <1>8, WriteTyped

LEMMA InsertOfferTyped ==
  ASSUME TypeOK, NEW r \in Requests, InsertOffer(r)
  PROVE  TypeOK'
<1> DEFINE q == req[r]
           new == [status |-> "PENDING", proposer |-> q.actor, successor |-> q.target]
           next == [q EXCEPT !.pc = "recheck"]
<1>1. q \in Request /\ RequestShaped(q) /\ q.pc = "insert"
  BY DEF TypeOK, InsertOffer, At
<1>2. q.op = "propose" /\ q.actor \in Members /\ q.target \in Members
  BY <1>1 DEF RequestShaped, TenantOps, OwnerOps, AllOps
<1>3. CASE FreshOffers # {} /\ Update(r, FreshOffer, new) /\ Goto(r, "recheck")
           /\ UNCHANGED otherVars
  <2>1. FreshOffer \in Offers
    BY <1>3 DEF FreshOffer, FreshOffers
  <2>2. new \in OfferRow /\ new.proposer \in Members /\ new.successor \in Members
    BY <1>2 DEF OfferRow, OfferStatuses
  <2>3. StoreTyped'
    BY <1>3, <2>1, <2>2, UpdateOfferTyped, TypeParts
  <2>4. next \in Request
    BY <1>1, SetPc DEF Stages
  <2>5. RequestShaped(next)
    BY <1>1, <1>2 DEF RequestShaped, Request, AcceptStages, OrgStages, TenantOps, OwnerOps
  <2>6. req' = [req EXCEPT ![r] = next]
    BY <1>3 DEF Goto, TypeOK
  <2>7. QED BY <1>3, <2>3, <2>4, <2>5, <2>6, WriteTyped
<1>4. CASE Abort(r)
  BY <1>4, AbortTyped
<1>5. QED BY <1>3, <1>4 DEF InsertOffer

-----------------------------------------------------------------------------
LEMMA ReadOfferTyped ==
  ASSUME TypeOK, NEW r \in Requests, ReadOffer(r)
  PROVE  TypeOK'
<1> DEFINE q == req[r]
           p == See(r, q.offer)
           next == [q EXCEPT !.pc = "successor", !.target = p.proposer]
<1>1. q \in Request /\ RequestShaped(q) /\ q.pc = "offer"
  BY DEF TypeOK, ReadOffer, At
<1>2. q.op = "accept" /\ q.offer \in Offers
  BY <1>1 DEF RequestShaped, AcceptStages
<1>3. CASE /\ p.status = "PENDING" /\ req' = [req EXCEPT ![r] = next]
           /\ UNCHANGED <<rowVars, otherVars>>
  <2>1. p.proposer \in Members
    BY <1>2, <1>3, SeeTyped, TypeParts
  <2>2. next \in Request
    BY <1>1, <2>1, SetTarget DEF Stages
  <2>3. RequestShaped(next)
    BY <1>1, <1>2, <2>1 DEF RequestShaped, Request, AcceptStages, OrgStages
  <2>4. QED BY <1>3, <2>2, <2>3, ReadTyped
<1>4. CASE Abort(r)
  BY <1>4, AbortTyped
<1>5. QED BY <1>3, <1>4 DEF ReadOffer

\* The three reads that follow, and the read of the owner for changeAccess.
LEMMA CheckingReadTyped ==
  ASSUME TypeOK, NEW r \in Requests, NEW ok, NEW stage \in Stages, ContinueIf(ok, r, stage),
         \/ req[r].pc \in AcceptStages \ {"offer"} /\ stage \in AcceptStages \ {"offer"}
         \/ req[r].pc = "orgOwner" /\ stage = "orgClaim"
         \/ req[r].pc = "recheck" /\ stage \in {"check", "commit"}
         \/ req[r].pc = "check" /\ stage = "commit"
  PROVE  TypeOK'
<1> DEFINE q == req[r]
           next == [q EXCEPT !.pc = stage]
<1>1. q \in Request /\ RequestShaped(q)
  BY DEF TypeOK
<1>2. next.pc = stage /\ next.op = q.op /\ next.actor = q.actor /\ next.target = q.target
      /\ next.offer = q.offer /\ next.status = q.status /\ next.grants = q.grants
      /\ next.seen = q.seen /\ next.todo = q.todo
  BY <1>1 DEF Request
<1>3. RequestShaped(next)
  BY <1>1, <1>2 DEF RequestShaped, AcceptStages, OrgStages
<1>4. CASE Continue(r, stage)
  BY <1>3, <1>4, ContinueTyped
<1>5. CASE Abort(r)
  BY <1>5, AbortTyped
<1>6. QED BY <1>4, <1>5 DEF ContinueIf

LEMMA AcceptReadsTyped ==
  ASSUME TypeOK, NEW r \in Requests,
         ReadSuccessor(r) \/ ReadOwnerRow(r) \/ ReadFormerOwner(r)
  PROVE  TypeOK'
<1>1. CASE ReadSuccessor(r)
  BY <1>1, CheckingReadTyped DEF ReadSuccessor, At, AcceptStages, Stages
<1>2. CASE ReadOwnerRow(r)
  BY <1>2, CheckingReadTyped DEF ReadOwnerRow, At, AcceptStages, Stages
<1>3. CASE ReadFormerOwner(r)
  BY <1>3, CheckingReadTyped DEF ReadFormerOwner, At, AcceptStages, Stages
<1>4. QED BY <1>1, <1>2, <1>3

LEMMA ClaimOfferTyped ==
  ASSUME TypeOK, NEW r \in Requests, ClaimOffer(r)
  PROVE  TypeOK'
<1> DEFINE q == req[r]
           p == q.offer
           next == [q EXCEPT !.pc = "ownership"]
<1>1. q \in Request /\ RequestShaped(q) /\ q.pc = "acceptClaim"
  BY DEF TypeOK, ClaimOffer, At
<1>2. q.op = "accept" /\ p \in Offers
  BY <1>1 DEF RequestShaped, AcceptStages
<1>3. CASE /\ db[p].status = "PENDING" /\ Update(r, p, [db[p] EXCEPT !.status = "ACCEPTED"])
           /\ Goto(r, "ownership") /\ UNCHANGED otherVars
  <2>1. db[p] \in OfferRow /\ {db[p].proposer, db[p].successor} \subseteq Members
    BY <1>2, <1>3 DEF TypeOK, RowsTyped
  <2>2. [db[p] EXCEPT !.status = "ACCEPTED"] \in OfferRow
    BY <2>1 DEF OfferRow, OfferStatuses
  <2>3. StoreTyped'
    BY <1>2, <1>3, <2>1, <2>2, UpdateOfferTyped, TypeParts DEF OfferRow
  <2>4. next \in Request
    BY <1>1, SetPc DEF Stages
  <2>5. RequestShaped(next)
    BY <1>1, <1>2 DEF RequestShaped, Request, AcceptStages, OrgStages
  <2>6. req' = [req EXCEPT ![r] = next]
    BY <1>3 DEF Goto, TypeOK
  <2>7. QED BY <1>3, <2>3, <2>4, <2>5, <2>6, WriteTyped
<1>4. CASE Abort(r)
  BY <1>4, AbortTyped
<1>5. QED BY <1>3, <1>4 DEF ClaimOffer

LEMMA ClaimOwnershipTyped ==
  ASSUME TypeOK, NEW r \in Requests, ClaimOwnership(r)
  PROVE  TypeOK'
<1> DEFINE q == req[r]
           next == [q EXCEPT !.pc = "bump", !.todo = {q.target, q.actor}]
<1>1. q \in Request /\ RequestShaped(q) /\ q.pc = "ownership"
  BY DEF TypeOK, ClaimOwnership, At
<1>2. q.op = "accept" /\ q.actor \in Members /\ q.target \in Members
  BY <1>1 DEF RequestShaped, AcceptStages, TenantOps
<1>3. CASE Update(r, Own, q.actor) /\ req' = [req EXCEPT ![r] = next] /\ UNCHANGED otherVars
  <2>1. StoreTyped'
    BY <1>2, <1>3, UpdateOwnTyped, TypeParts
  <2>2. next \in Request
    BY <1>1, <1>2 DEF Request, Stages
  <2>3. RequestShaped(next)
    BY <1>1, <1>2 DEF RequestShaped, Request, AcceptStages, OrgStages
  <2>4. QED BY <1>3, <2>1, <2>2, <2>3, WriteTyped
<1>4. CASE Abort(r)
  BY <1>4, AbortTyped
<1>5. QED BY <1>3, <1>4 DEF ClaimOwnership

LEMMA BumpMemberTyped ==
  ASSUME TypeOK, NEW r \in Requests, NEW m \in Members, BumpMember(r, m)
  PROVE  TypeOK'
<1> DEFINE q == req[r]
           left == q.todo \ {m}
           had  == SessionsSeen(q, m)
           more == [q EXCEPT !.todo = left, !.had = had]
           done == [more EXCEPT !.pc = "revoke"]
<1>1. q \in Request /\ RequestShaped(q) /\ q.pc = "bump"
  BY DEF TypeOK, BumpMember, At
<1>had. had \in [Members -> Nat]
  BY SeenTyped
<1>2. left \in SUBSET Members /\ left \in SUBSET (Members \cup Offers)
  BY <1>1 DEF RequestShaped
<1>5. req' = [req EXCEPT ![r] = done] \/ req' = [req EXCEPT ![r] = more]
  BY DEF BumpMember
<1> HIDE DEF had
<1>3. more \in Request
  BY <1>1, <1>2, <1>had, SetTodoHad
<1>10. done \in Request
  <2> HIDE DEF more
  <2>1. "revoke" \in Stages
    BY DEF Stages
  <2>2. QED BY <1>3, <2>1, SetPc
<1>4. RequestShaped(done) /\ RequestShaped(more)
  BY <1>1, <1>2 DEF RequestShaped, Request, AcceptStages, OrgStages
<1>6. Bumped(See(r, m)) \in MemberRow
  BY SeeTyped, TypeParts, BumpedTyped
<1>7. StoreTyped'
  BY <1>6, UpdateMemberTyped, TypeParts DEF BumpMember
<1>8. UNCHANGED otherVars
  BY DEF BumpMember
<1>9. QED BY <1>3, <1>4, <1>5, <1>7, <1>8, <1>10, WriteTyped

LEMMA ShareOrganizationTyped ==
  ASSUME TypeOK, NEW r \in Requests, ShareOrganization(r)
  PROVE  TypeOK'
<1> DEFINE q == req[r]
           next == [q EXCEPT !.pc = "target"]
<1>1. q \in Request /\ RequestShaped(q) /\ q.pc = "share"
  BY DEF TypeOK, ShareOrganization, At
<1>2. CASE LockShare(r, Org) /\ Goto(r, "target") /\ UNCHANGED otherVars
  <2>1. StoreTyped'
    BY <1>2, TypeParts, RowKinds DEF StoreTyped, LockShare, RowsTyped
  <2>2. next \in Request
    BY <1>1, SetPc DEF Stages
  <2>3. RequestShaped(next)
    BY <1>1 DEF RequestShaped, Request, AcceptStages, OrgStages
  <2>4. req' = [req EXCEPT ![r] = next]
    BY <1>2 DEF Goto, TypeOK
  <2>5. QED BY <1>2, <2>1, <2>2, <2>3, <2>4, WriteTyped
<1>3. CASE Abort(r)
  BY <1>3, AbortTyped
<1>4. QED BY <1>2, <1>3 DEF ShareOrganization

LEMMA ReadOrganizationTyped ==
  ASSUME TypeOK, NEW r \in Requests, ReadOrganization(r)
  PROVE  TypeOK'
<1> DEFINE q == req[r]
           stage == IF q.status = "ACTIVE" THEN "orgOwner" ELSE "orgClaim"
           next == [q EXCEPT !.pc = stage, !.seen = See(r, Org)]
<1>1. q \in Request /\ RequestShaped(q) /\ q.pc = "orgRead"
  BY DEF TypeOK, ReadOrganization, At
<1>2. CASE req' = [req EXCEPT ![r] = next] /\ UNCHANGED <<rowVars, otherVars>>
  <2>1. See(r, Org) \in OrgRow
    BY SeeTyped, TypeParts
  <2>2. next \in Request
    BY <1>1, <2>1, SetSeen DEF Stages
  <2>3. next.pc = stage /\ next.op = q.op /\ next.status = q.status
    BY <1>1 DEF Request
  <2>4. RequestShaped(next)
    BY <1>1, <2>3 DEF RequestShaped, Request, AcceptStages, OrgStages, TenantOps, OwnerOps, ChangeOps
  <2>5. QED BY <1>2, <2>2, <2>4, ReadTyped
<1>3. CASE Abort(r)
  BY <1>3, AbortTyped
<1>4. QED BY <1>2, <1>3 DEF ReadOrganization

LEMMA ClaimOrganizationTyped ==
  ASSUME TypeOK, NEW r \in Requests, ClaimOrganization(r)
  PROVE  TypeOK'
<1> DEFINE q == req[r]
           row == [status |-> q.status, version |-> q.version + 1]
           check == [q EXCEPT !.pc = "check"]
           bump == [q EXCEPT !.pc = "bump", !.todo = Members]
<1>1. q \in Request /\ RequestShaped(q) /\ q.pc = "orgClaim"
  BY DEF TypeOK, ClaimOrganization, At
<1>2. q.op = "changeAccess" /\ q.status \in AccessStatuses
  BY <1>1 DEF RequestShaped, OrgStages
<1>3. CASE /\ Update(r, Org, row) /\ UNCHANGED otherVars
           /\ req' = [req EXCEPT ![r] = check] \/ req' = [req EXCEPT ![r] = bump]
  <2>1. row \in OrgRow
    BY <1>1, <1>2 DEF OrgRow, Request
  <2>2. StoreTyped'
    BY <1>3, <2>1, UpdateOrgTyped, TypeParts
  <2>3. check \in Request /\ bump \in Request
    BY <1>1, SetPc, SetTodo DEF Stages
  <2>4. RequestShaped(check) /\ RequestShaped(bump)
    BY <1>1, <1>2 DEF RequestShaped, Request, AcceptStages, OrgStages
  <2>5. QED BY <1>3, <2>2, <2>3, <2>4, WriteTyped
<1>4. CASE Abort(r)
  BY <1>4, AbortTyped
<1>5. QED BY <1>3, <1>4 DEF ClaimOrganization

-----------------------------------------------------------------------------
LEMMA RevokeSessionsTyped ==
  ASSUME TypeOK, NEW r \in Requests, RevokeSessions(r)
  PROVE  TypeOK'
<1> DEFINE q == req[r]
           c == [m \in Members |-> IF m \in Affected(q) THEN session[m] ELSE 0]
           next == [q EXCEPT !.pc = AfterRevoke(q), !.cut = c]
<1>1. q \in Request /\ RequestShaped(q) /\ q.pc = "revoke"
  BY DEF TypeOK, RevokeSessions, At
<1>2. c \in [Members -> Nat]
  BY DEF TypeOK
<1>3. AfterRevoke(q) \in {"cancel", "check", "recheck"}
  BY DEF AfterRevoke
<1>4. next \in Request
  BY <1>1, <1>2, <1>3, SetCut DEF Stages
<1>5. AfterRevoke(q) = "recheck" => q.op \in TenantOps
  BY <1>1 DEF AfterRevoke, RequestShaped, AllOps, PlatformOps
<1> HIDE DEF c
<1>6. /\ next.pc = AfterRevoke(q) /\ next.op = q.op /\ next.actor = q.actor
      /\ next.target = q.target /\ next.offer = q.offer /\ next.status = q.status
      /\ next.grants = q.grants /\ next.seen = q.seen /\ next.todo = q.todo
  BY <1>1 DEF Request
<1>7. RequestShaped(next)
  BY <1>1, <1>3, <1>5, <1>6 DEF RequestShaped, AcceptStages, OrgStages
<1>8. req' = [req EXCEPT ![r] = next] /\ UNCHANGED <<rowVars, otherVars>>
  BY DEF RevokeSessions, c
<1>9. QED BY <1>4, <1>7, <1>8, ReadTyped

LEMMA EvidenceTyped ==
  ASSUME TypeOK, NEW r \in Requests, req[r].pc # "idle"
  PROVE  \A e \in EvidenceOf(r) : e.action \in AllOps /\ e.subject \in Rows
<1>1. req[r].op \in AllOps /\ RequestShaped(req[r])
  BY DEF TypeOK, RequestShaped
<1>2. Held(r) \subseteq Rows
  BY DEF Held, TypeOK
<1>3. req[r].op \notin {"accept", "changeAccess"} => req[r].target \in Rows
  BY <1>1, RowKinds DEF RequestShaped
<1>4. QED BY <1>1, <1>2, <1>3, RowKinds DEF EvidenceOf

LEMMA CommitStepTyped ==
  ASSUME TypeOK, NEW r \in Requests, Commit(r)
  PROVE  TypeOK'
<1>1. StoreTyped'
  BY CommitTyped, TypeParts DEF Commit
<1>2. SlotsTyped'
  BY TypeParts, SlotTyped, IdleTyped DEF Commit
<1>3. req[r].cut \in [Members -> Nat]
  BY DEF TypeOK, Request
<1>4. revoked' \in [Members -> Nat]
  BY <1>3 DEF Commit, TypeOK
<1>5. RestTyped'
  BY <1>4, EvidenceTyped DEF Commit, TypeOK, RestTyped, At
<1>6. QED BY <1>1, <1>2, <1>5, TypePartsNext

LEMMA StatementTyped ==
  ASSUME TypeOK, NEW r \in Requests, Statement(r)
  PROVE  TypeOK'
<1>1. CASE ReadOrganizationOwner(r)
  BY <1>1, CheckingReadTyped DEF ReadOrganizationOwner, At, Stages
<1>2. CASE Recheck(r)
  <2>1. (IF FiresTrigger(r) THEN "check" ELSE "commit") \in {"check", "commit"}
    OBVIOUS
  <2>2. QED BY <1>2, <2>1, CheckingReadTyped DEF Recheck, At, Stages
<1>3. CASE CheckOwner(r)
  BY <1>3, CheckingReadTyped DEF CheckOwner, At, Stages
<1>4. QED
  BY <1>1, <1>2, <1>3, ResolveAccessTyped, ReadOwnerTyped, ReadTargetTyped, ClaimTargetTyped,
     BeginCancelTyped, CancelOfferTyped, InsertOfferTyped, ReadOfferTyped, AcceptReadsTyped,
     ClaimOfferTyped, ClaimOwnershipTyped, BumpMemberTyped, ShareOrganizationTyped,
     ReadOrganizationTyped, ClaimOrganizationTyped, RevokeSessionsTyped, CommitStepTyped
     DEF Statement

\* What a client sends is a well-formed request.
LEMMA CallsTyped ==
  ASSUME TypeOK, NEW op \in AllOps, NEW call \in Calls(op)
  PROVE  /\ call \in Request /\ call.op = op /\ call.pc = "idle"
         /\ op \in AllOps \ {"accept", "changeAccess"} => call.target \in Members
         /\ op = "accept" => call.offer \in Offers
         /\ op = "changeAccess" => call.status \in AccessStatuses
         /\ op = "replaceGrants" => call.grants \in Grants
<1>1. Idle \in Request /\ Idle.pc = "idle"
  BY IdleTyped DEF Idle
<1> DEFINE base == Idle
<1>2. base \in Request /\ base.pc = "idle" BY <1>1
<1> HIDE DEF base
<1>3. CASE op = "accept"
  <2>1. call \in AcceptCalls
    BY <1>3 DEF Calls
  <2>2. PICK p \in Offers : call = [base EXCEPT !.op = op, !.offer = p]
    BY <1>3, <2>1 DEF AcceptCalls, base
  <2>3. QED BY <1>2, <1>3, <2>2 DEF Request
<1>4. CASE op = "changeAccess"
  <2>1. call \in AccessCalls
    BY <1>4 DEF Calls
  <2>2. PICK sv \in AccessStatuses \X (1..db[Org].version + MaxAhead) :
          call = [base EXCEPT !.op = op, !.status = sv[1], !.version = sv[2]]
    BY <1>4, <2>1 DEF AccessCalls, base
  <2>3. sv[1] \in AccessStatuses /\ sv[2] \in Nat
    BY <2>2, GovernanceAssumption DEF GovernanceAssumption, TypeOK, RowsTyped, OrgRow
  <2>4. QED BY <1>2, <1>4, <2>2, <2>3 DEF Request
<1>5. CASE op = "replaceGrants"
  <2>1. PICK m \in Members : call \in GrantCalls(m)
    <3>1. Calls(op) = UNION {GrantCalls(m) : m \in Members}
      BY <1>5 DEF Calls
    <3>2. QED BY <3>1
  <2>2. PICK gv \in Grants \X (1..db[m].version + MaxAhead) :
          call = [base EXCEPT !.op = op, !.target = m, !.grants = gv[1], !.version = gv[2]]
    BY <1>5, <2>1 DEF GrantCalls, base
  <2>3. gv[1] \in Grants /\ gv[2] \in Nat
    BY <2>2, GovernanceAssumption DEF GovernanceAssumption, TypeOK, RowsTyped, MemberRow
  <2>4. QED BY <1>2, <1>5, <2>2, <2>3 DEF Request
<1>6. CASE op \notin {"accept", "changeAccess", "replaceGrants"}
  <2>1. call \in TargetCalls(op)
    BY <1>6 DEF Calls
  <2>2. PICK m \in Members : call = [base EXCEPT !.op = op, !.target = m]
    BY <2>1 DEF TargetCalls, base
  <2>3. QED BY <1>2, <1>6, <2>2 DEF Request
<1>7. QED BY <1>3, <1>4, <1>5, <1>6

LEMMA ArriveTyped ==
  ASSUME TypeOK, NEW r \in Requests, Arrive(r)
  PROVE  TypeOK'
<1>1. ASSUME NEW actor \in Members, NEW op \in Ops, Authenticate(r, actor, op) PROVE TypeOK'
  <2>1. op \in TenantOps /\ op \in AllOps
    BY <1>1 DEF Authenticate, AllOps
  <2>2. PICK call \in Calls(op) :
          req' = [req EXCEPT ![r] = [call EXCEPT !.pc = "access", !.actor = actor]]
    BY <1>1 DEF Authenticate
  <2> DEFINE q == [call EXCEPT !.pc = "access", !.actor = actor]
  <2>3. call \in Request /\ call.op = op
    BY <2>1, CallsTyped
  <2>4. q \in Request
    BY <2>3 DEF Request, Stages
  <2>5. q.pc = "access" /\ q.op = op /\ q.actor = actor /\ q.target = call.target
        /\ q.offer = call.offer /\ q.status = call.status /\ q.grants = call.grants
    BY <2>3 DEF Request
  <2>6. RequestShaped(q)
    BY <2>1, <2>5, CallsTyped DEF RequestShaped, AcceptStages, OrgStages
  <2>7. SlotsTyped'
    BY <2>2, <2>4, <2>6, SlotTyped, TypeParts
  <2>8. StoreTyped' /\ RestTyped'
    BY <1>1, TypeParts DEF Authenticate, StoreTyped, RestTyped, rowVars, RowsTyped
  <2>9. QED BY <2>7, <2>8, TypePartsNext
<1>2. ASSUME NEW op \in Ops, PlatformRequest(r, op) PROVE TypeOK'
  <2>1. op \in PlatformOps /\ op \in AllOps
    BY <1>2 DEF PlatformRequest, AllOps
  <2>2. PICK call \in Calls(op) :
          req' = [req EXCEPT ![r] =
            [call EXCEPT !.pc = IF op = "changeAccess" THEN "orgRead" ELSE "share"]]
    BY <1>2 DEF PlatformRequest
  <2> DEFINE stage == IF op = "changeAccess" THEN "orgRead" ELSE "share"
             q == [call EXCEPT !.pc = stage]
  <2>3. call \in Request /\ call.op = op
    BY <2>1, CallsTyped
  <2>4. q \in Request
    BY <2>3, SetPc DEF Stages
  <2>5. q.pc = stage /\ q.op = op /\ q.actor = call.actor /\ q.target = call.target
        /\ q.offer = call.offer /\ q.status = call.status /\ q.grants = call.grants
    BY <2>3 DEF Request
  <2>6. RequestShaped(q)
    BY <2>1, <2>5, CallsTyped DEF RequestShaped, AcceptStages, OrgStages, PlatformOps, TenantOps,
                                  OwnerOps, ChangeOps
  <2>7. SlotsTyped'
    BY <2>2, <2>4, <2>6, SlotTyped, TypeParts
  <2>8. StoreTyped' /\ RestTyped'
    BY <1>2, TypeParts DEF PlatformRequest, StoreTyped, RestTyped, rowVars, RowsTyped
  <2>9. QED BY <2>7, <2>8, TypePartsNext
<1>3. QED BY <1>1, <1>2 DEF Arrive

\* An Organization starts well formed.
LEMMA StartRowsTyped ==
  ASSUME NEW owner \in Members, NEW successor \in Members, NEW g \in Grants,
         NEW role \in [Members -> StartRoles]
  PROVE  RowsTyped([x \in Rows |-> StartRow(x, owner, role, g, successor)])
<1> DEFINE rows == [x \in Rows |-> StartRow(x, owner, role, g, successor)]
<1>1. ASSUME NEW m \in Members PROVE rows[m] \in MemberRow
  <2>1. m \in Rows /\ m # Org /\ m # Own /\ m \notin Offers
    BY RowKinds
  <2>2. role[m] \in Statuses \X Profiles
    BY GovernanceAssumption DEF GovernanceAssumption
  <2>3. role[m][1] \in Statuses /\ role[m][2] \in Profiles
    BY <2>2
  <2>4. rows[m] = [status  |-> IF m = owner THEN "ACTIVE" ELSE role[m][1],
                   profile |-> IF m = owner THEN "Administrator" ELSE role[m][2],
                   epoch |-> StartEpoch(m, owner, role),
                   version |-> StartEpoch(m, owner, role) + 1, grants |-> g]
    BY <2>1 DEF StartRow
  <2>5. QED BY <2>3, <2>4 DEF StartEpoch, MemberRow, Statuses, Profiles
<1>2. ASSUME NEW p \in Offers
      PROVE  /\ rows[p] \in OfferRow
             /\ rows[p].status # "ABSENT" => {rows[p].proposer, rows[p].successor} \subseteq Members
  <2>1. p \in Rows /\ p # Org /\ p # Own
    BY RowKinds
  <2>2. rows[p] = NoOffer
        \/ rows[p] = [status |-> "PENDING", proposer |-> owner, successor |-> successor]
    BY <2>1 DEF StartRow
  <2>3. QED BY <2>2 DEF NoOffer, OfferRow, OfferStatuses
<1>3. rows[Own] \in Members
  BY RowKinds DEF StartRow
<1>4. rows[Org] \in OrgRow
  BY RowKinds DEF StartRow, OrgRow, AccessStatuses
<1>5. DOMAIN rows = Rows
  OBVIOUS
<1>6. QED BY <1>1, <1>2, <1>3, <1>4, <1>5 DEF RowsTyped

LEMMA InitTyped == Init => TypeOK
<1> SUFFICES ASSUME Init PROVE TypeOK
  OBVIOUS
<1>1. PICK owner \in Members, successor \in Members, role \in [Members -> StartRoles], g \in Grants :
        /\ owner # successor /\ role[owner] = role[successor]
        /\ StartPending => role[successor] = <<"ACTIVE", "Administrator">>
        /\ InitRows([x \in Rows |-> StartRow(x, owner, role, g, successor)])
        /\ revoked = [m \in Members |-> StartEpoch(m, owner, role)]
  BY DEF Init
<1> DEFINE rows == [x \in Rows |-> StartRow(x, owner, role, g, successor)]
<1>2. RowsTyped(rows)
  BY StartRowsTyped
<1>3. DOMAIN rows = Rows
  OBVIOUS
<1>4. InitRows(rows)
  BY <1>1
<1> HIDE DEF rows
<1>5. StoreTyped
  BY <1>2, <1>3, <1>4 DEF InitRows, StoreTyped
<1>6. SlotsTyped
  BY IdleTyped DEF Init, SlotsTyped
<1>7. RestTyped
  BY <1>1 DEF Init, RestTyped, StartEpoch
<1>8. QED BY <1>5, <1>6, <1>7, TypeParts

LEMMA NextTyped == TypeOK /\ [Next]_vars => TypeOK'
<1> SUFFICES ASSUME TypeOK, [Next]_vars PROVE TypeOK'
  OBVIOUS
<1>1. ASSUME NEW r \in Requests, Arrive(r) \/ Statement(r) \/ Fail(r) \/ DeadlockVictim(r)
      PROVE  TypeOK'
  <2>1. CASE Arrive(r) BY <2>1, ArriveTyped
  <2>2. CASE Statement(r) BY <2>2, StatementTyped
  <2>3. CASE Abort(r) BY <2>3, AbortTyped
  <2>4. QED BY <1>1, <2>1, <2>2, <2>3 DEF Fail, DeadlockVictim
<1>2. ASSUME NEW m \in Members, Login(m) PROVE TypeOK'
  BY <1>2 DEF Login, TypeOK, rowVars, RowsTyped, RequestShaped
<1>3. ASSUME NEW p \in Offers, ExpireOffer(p) PROVE TypeOK'
  BY <1>3 DEF ExpireOffer, TypeOK, rowVars, RowsTyped, RequestShaped
<1>4. CASE UNCHANGED vars
  BY <1>4 DEF vars, rowVars, otherVars, TypeOK, RowsTyped, RequestShaped
<1>5. QED BY <1>1, <1>2, <1>3, <1>4 DEF Next, Quiescent

\* Every row and request slot always holds what its table and its handler can
\* put there.
THEOREM TypeCorrect == Spec => []TypeOK
<1>1. QED BY InitTyped, NextTyped, PTL DEF Spec

-----------------------------------------------------------------------------
(***************************************************************************)
(* The owner.                                                              *)
(*                                                                         *)
(* The inductive invariant is OwnerIInv of Governance.  All its parts but  *)
(* the first speak of one request slot at a time; they are restated here   *)
(* for a slot, so that a step of r is settled by what it does to r's slot  *)
(* and to the rows of members and of the ownership.                        *)
(***************************************************************************)
AdmittedSlot(q) ==
  q.pc \notin {"idle", "access"} /\ q.op \in TenantOps =>
    /\ q.epoch <= db[q.actor].epoch
    /\ q.epoch = db[q.actor].epoch => ActiveAdmin(db[q.actor])

SeenSlot(q) ==
  q.pc = "claim" /\ q.op \in RoleOps =>
    /\ q.seen.version <= db[q.target].version
    /\ q.seen.version = db[q.target].version => db[Own] # q.target

\* What r's slot must hold while r has an uncommitted value for member m.
WriterOf(q, m) ==
  /\ q.pc \in {"cancel", "cancelling", "revoke", "recheck", "check", "commit", "bump"}
  /\ q.pc = "bump" => m \notin q.todo
  /\ q.op # "propose"

\* What that value is.
PendingRow(q, m) ==
  /\ dirty[m].version = db[m].version + 1 /\ dirty[m].epoch = db[m].epoch + 1
  /\ m = db[Own] => ActiveAdmin(dirty[m])
  /\ q.op = "accept" => dirty[m].status = db[m].status /\ dirty[m].profile = db[m].profile

MemberSlot(r, q) == \A m \in Members : lock[m] = r => WriterOf(q, m) /\ PendingRow(q, m)

OwnerSlot(r, q) ==
  lock[Own] = r =>
    /\ q.op = "accept" /\ dirty[Own] = q.actor
    /\ \/ q.pc = "bump" /\ q.actor \in q.todo
       \/ q.pc \in {"bump", "revoke", "recheck", "check", "commit"} /\ lock[q.actor] = r
    /\ q.pc \in {"check", "commit"} => ActiveAdmin(dirty[q.actor])

SlotSafe(r, q) ==
  AdmittedSlot(q) /\ SeenSlot(q) /\ MemberSlot(r, q) /\ OwnerSlot(r, q)

LEMMA OwnerParts ==
  OwnerIInv <=> OwnerIsActiveAdministrator /\ \A r \in Requests : SlotSafe(r, req[r])
BY DEF OwnerIInv, AdmittedAsAdmin, SeenNotOwner, PendingMember, PendingOwner, SlotSafe,
       AdmittedSlot, SeenSlot, MemberSlot, WriterOf, PendingRow, OwnerSlot

LEMMA OwnerPartsNext ==
  OwnerIsActiveAdministrator' /\ (\A r \in Requests : SlotSafe(r, req[r])') => OwnerIInv'
BY DEF OwnerIInv, AdmittedAsAdmin, SeenNotOwner, PendingMember, PendingOwner, SlotSafe,
       AdmittedSlot, SeenSlot, MemberSlot, WriterOf, PendingRow, OwnerSlot

\* The rows the invariant speaks of.
Roles == Members \cup {Own}

\* The step leaves the committed rows, and the uncommitted ones of Roles, alone.
RolesKept ==
  db' = db /\ \A x \in Roles : lock'[x] = lock[x] /\ dirty'[x] = dirty[x]

-----------------------------------------------------------------------------
(***************************************************************************)
(* The kinds of steps.                                                     *)
(***************************************************************************)
\* The slot of a typed request names members where the invariant looks.
LEMMA SlotMembers ==
  ASSUME TypeOK, NEW r \in Requests
  PROVE  /\ req[r].op \in TenantOps => req[r].actor \in Members
         /\ req[r].pc = "claim" => req[r].target \in Members
         /\ req[r].op = "accept" => req[r].actor \in Members
BY DEF TypeOK, RequestShaped, TenantOps, AllOps, PlatformOps

\* A slot stays safe when its request and the rows of Roles are as they were.
LEMMA KeptSafe ==
  ASSUME TypeOK, RolesKept, NEW r \in Requests, NEW q, SlotSafe(r, q),
         q.op \in TenantOps => q.actor \in Members, req'[r] = q
  PROVE  SlotSafe(r, req[r])'
<1>1. Own \in Roles /\ Members \subseteq Roles
  BY DEF Roles
<1>2. q.op = "accept" => q.actor \in Members
  BY DEF TenantOps
<1>3. AdmittedSlot(req[r])' /\ SeenSlot(req[r])'
  BY DEF SlotSafe, AdmittedSlot, SeenSlot, RolesKept
<1>4. MemberSlot(r, req[r])'
  BY <1>1 DEF SlotSafe, MemberSlot, WriterOf, PendingRow, RolesKept
<1>5. OwnerSlot(r, req[r])'
  BY <1>1, <1>2 DEF SlotSafe, OwnerSlot, RolesKept
<1>6. QED BY <1>3, <1>4, <1>5 DEF SlotSafe

\* A step that moves r's slot and leaves the rows of Roles alone.
LEMMA QuietSafe ==
  ASSUME TypeOK, OwnerIInv, RolesKept, NEW r \in Requests, NEW q,
         req' = [req EXCEPT ![r] = q], SlotSafe(r, q),
         q.op \in TenantOps => q.actor \in Members
  PROVE  OwnerIInv'
<1>1. OwnerIsActiveAdministrator'
  BY DEF OwnerIInv, OwnerIsActiveAdministrator, RolesKept
<1>2. ASSUME NEW s \in Requests PROVE SlotSafe(s, req[s])'
  <2>1. CASE s = r
    <3>1. req'[r] = q BY DEF TypeOK
    <3>2. QED BY <2>1, <3>1, KeptSafe
  <2>2. CASE s # r
    <3>1. req'[s] = req[s] BY <2>2 DEF TypeOK
    <3>2. SlotSafe(s, req[s]) BY OwnerParts
    <3>3. QED BY <3>1, <3>2, SlotMembers, KeptSafe
  <2>3. QED BY <2>1, <2>2
<1>3. QED BY <1>1, <1>2, OwnerPartsNext

\* Requests that change nothing else keep the invariant too.
LEMMA StutterSafe ==
  ASSUME OwnerIInv, UNCHANGED <<rowVars, req>>
  PROVE  OwnerIInv'
BY DEF OwnerIInv, OwnerIsActiveAdministrator, AdmittedAsAdmin, SeenNotOwner, PendingMember,
       PendingOwner, rowVars

\* ROLLBACK gives up r's rows and keeps every other uncommitted value.
LEMMA AbortSafe ==
  ASSUME TypeOK, OwnerIInv, NEW r \in Requests, Abort(r)
  PROVE  OwnerIInv'
<1>1. db' = db /\ RollbackRows(r) /\ req' = [req EXCEPT ![r] = Idle]
  BY DEF Abort, RollbackRows
<1>2. DOMAIN lock = Rows /\ DOMAIN dirty = Rows /\ Own \in Rows /\ Members \subseteq Rows
  BY RowKinds DEF TypeOK, RowsTyped
<1>3. ASSUME NEW x \in Rows
      PROVE  /\ lock'[x] = IF lock[x] = r THEN None ELSE lock[x]
             /\ lock[x] # r => dirty'[x] = dirty[x]
  BY <1>1, <1>2, <1>3 DEF RollbackRows, Release
<1>4. OwnerIsActiveAdministrator'
  BY <1>1 DEF OwnerIInv, OwnerIsActiveAdministrator
<1>5. ASSUME NEW s \in Requests PROVE SlotSafe(s, req[s])'
  <2>1. CASE s = r
    <3>1. req'[s] = Idle BY <1>1, <2>1 DEF TypeOK
    <3>2. \A x \in Rows : lock'[x] # s BY <1>3, <2>1, RowKinds
    <3>3. QED BY <3>1, <3>2, <1>2 DEF SlotSafe, AdmittedSlot, SeenSlot, MemberSlot, OwnerSlot, Idle
  <2>2. CASE s # r
    <3>1. req'[s] = req[s] BY <1>1, <2>2 DEF TypeOK
    <3>2. SlotSafe(s, req[s]) BY OwnerParts
    <3>3. \A x \in Rows : lock'[x] = s => lock[x] = s /\ dirty'[x] = dirty[x]
      BY <1>3, <2>2, RowKinds
    <3>4. \A x \in Rows : lock[x] = s => lock'[x] = s
      BY <1>3, <2>2
    <3>5. AdmittedSlot(req[s])' /\ SeenSlot(req[s])'
      BY <1>1, <3>1, <3>2 DEF SlotSafe, AdmittedSlot, SeenSlot
    <3>6. MemberSlot(s, req[s])'
      BY <1>1, <1>2, <3>1, <3>2, <3>3 DEF SlotSafe, MemberSlot, WriterOf, PendingRow
    <3>7. req[s].op = "accept" => req[s].actor \in Rows
      BY <1>2, SlotMembers
    <3>8. OwnerSlot(s, req[s])'
      BY <1>2, <3>1, <3>2, <3>3, <3>4, <3>7 DEF SlotSafe, OwnerSlot
    <3>9. QED BY <3>5, <3>6, <3>8 DEF SlotSafe
  <2>3. QED BY <2>1, <2>2
<1>6. QED BY <1>4, <1>5, OwnerPartsNext

\* A step in which r locks a row of Roles that no other request holds.
LEMMA LockSafe ==
  ASSUME TypeOK, OwnerIInv, NEW r \in Requests, NEW x \in Roles, NEW v, Update(r, x, v),
         lock[x] \in {None, r}, NEW q, req' = [req EXCEPT ![r] = q], SlotSafe(r, req[r])'
  PROVE  OwnerIInv'
<1>1. Roles \subseteq Rows /\ DOMAIN lock = Rows /\ DOMAIN dirty = Rows
  BY RowKinds DEF Roles, TypeOK, RowsTyped
<1>2. db' = db /\ lock' = [lock EXCEPT ![x] = r] /\ dirty' = [dirty EXCEPT ![x] = v]
  BY DEF Update
<1>3. OwnerIsActiveAdministrator'
  BY <1>2 DEF OwnerIInv, OwnerIsActiveAdministrator
<1>4. ASSUME NEW s \in Requests, s # r PROVE SlotSafe(s, req[s])'
  <2>1. req'[s] = req[s] /\ SlotSafe(s, req[s])
    BY <1>4, OwnerParts DEF TypeOK
  <2>2. lock[x] # s
    BY <1>4, RowKinds
  <2>3. \A y \in Roles : (lock'[y] = s <=> lock[y] = s) /\ (lock[y] = s => dirty'[y] = dirty[y])
    BY <1>1, <1>2, <1>4, <2>2
  <2>4. AdmittedSlot(req[s])' /\ SeenSlot(req[s])'
    BY <1>2, <2>1 DEF SlotSafe, AdmittedSlot, SeenSlot
  <2>5. MemberSlot(s, req[s])'
    BY <1>2, <2>1, <2>3 DEF SlotSafe, MemberSlot, WriterOf, PendingRow, Roles
  <2>6. req[s].op = "accept" => req[s].actor \in Roles
    BY SlotMembers DEF Roles
  <2>7. OwnerSlot(s, req[s])'
    BY <1>2, <2>1, <2>3, <2>6 DEF SlotSafe, OwnerSlot, Roles
  <2>8. QED BY <2>4, <2>5, <2>7 DEF SlotSafe
<1>5. QED BY <1>3, <1>4, OwnerPartsNext

\* COMMIT: whoever was admitted or read before keeps a lower epoch or version
\* than the members it wrote, and the new owner, if any, is one of those.
LEMMA CommitSafe ==
  ASSUME TypeOK, OwnerIInv, NEW r \in Requests, Commit(r)
  PROVE  OwnerIInv'
<1> DEFINE q == req[r]
<1>1. q.pc = "commit" /\ SlotSafe(r, q) /\ OwnerIsActiveAdministrator
  BY OwnerParts DEF Commit, At
<1>2. Roles \subseteq Rows /\ Members \subseteq Roles /\ Own \in Roles
  BY RowKinds DEF Roles
<1>3. DOMAIN lock = Rows /\ DOMAIN dirty = Rows /\ DOMAIN db = Rows
  BY DEF TypeOK, RowsTyped
<1>4. ASSUME NEW x \in Rows
      PROVE  /\ db'[x] = IF lock[x] = r THEN dirty[x] ELSE db[x]
             /\ dirty'[x] = dirty[x]
             /\ lock'[x] = IF lock[x] = r THEN None ELSE lock[x]
  BY <1>3, <1>4 DEF Commit, CommitRows, See, Release
<1>5. db[Own] \in Members /\ \A m \in Members : db[m] \in MemberRow
  BY DEF TypeOK, RowsTyped
<1>6. lock[Own] = r =>
        /\ q.actor \in Members /\ db'[Own] = q.actor
        /\ lock[q.actor] = r /\ ActiveAdmin(dirty[q.actor])
  BY <1>1, <1>2, <1>4, SlotMembers DEF SlotSafe, OwnerSlot
<1>7. lock[Own] # r => db'[Own] = db[Own]
  BY <1>2, <1>4
<1>8. ASSUME NEW m \in Members
      PROVE  \/ lock[m] # r /\ db'[m] = db[m]
             \/ /\ lock[m] = r /\ db'[m] = dirty[m]
                /\ dirty[m].version = db[m].version + 1 /\ dirty[m].epoch = db[m].epoch + 1
                /\ m = db[Own] => ActiveAdmin(dirty[m])
  BY <1>1, <1>2, <1>4 DEF SlotSafe, MemberSlot, PendingRow
<1>9. OwnerIsActiveAdministrator'
  <2>1. CASE lock[Own] = r
    BY <1>6, <1>8, <2>1 DEF OwnerIsActiveAdministrator
  <2>2. CASE lock[Own] # r
    BY <1>1, <1>5, <1>7, <1>8, <2>2 DEF OwnerIsActiveAdministrator
  <2>3. QED BY <2>1, <2>2
<1>10. ASSUME NEW s \in Requests, s # r PROVE SlotSafe(s, req[s])'
  <2>1. req'[s] = req[s] /\ SlotSafe(s, req[s])
    BY <1>10, OwnerParts DEF Commit, TypeOK
  <2>2. \A x \in Roles : (lock'[x] = s <=> lock[x] = s) /\ dirty'[x] = dirty[x]
    BY <1>2, <1>4, <1>10, RowKinds
  <2>3. req[s] \in Request
    BY DEF TypeOK
  <2>4. AdmittedSlot(req[s])'
    <3>1. req[s].op \in TenantOps => req[s].actor \in Members
      BY SlotMembers
    <3>2. \A m \in Members : db[m].epoch \in Nat
      BY <1>5 DEF MemberRow
    <3>3. req[s].epoch \in Nat
      BY <2>3 DEF Request
    <3>4. QED BY <1>8, <2>1, <3>1, <3>2, <3>3 DEF SlotSafe, AdmittedSlot
  <2>5. SeenSlot(req[s])'
    <3> SUFFICES ASSUME req[s].pc = "claim", req[s].op \in RoleOps
                 PROVE  /\ req[s].seen.version <= db'[req[s].target].version
                        /\ req[s].seen.version = db'[req[s].target].version =>
                             db'[Own] # req[s].target
      BY <2>1 DEF SeenSlot
    <3>1. req[s].target \in Members
      BY SlotMembers
    <3>2. req[s].seen \in MemberRow
      BY DEF TypeOK, RequestShaped
    <3>3. req[s].seen.version \in Nat /\ db[req[s].target].version \in Nat
      BY <1>5, <3>1, <3>2 DEF MemberRow
    <3>4. /\ req[s].seen.version <= db[req[s].target].version
          /\ req[s].seen.version = db[req[s].target].version => db[Own] # req[s].target
      BY <2>1 DEF SlotSafe, SeenSlot
    <3>5. CASE lock[req[s].target] = r
      BY <1>8, <3>1, <3>3, <3>4, <3>5
    <3>6. CASE lock[req[s].target] # r
      BY <1>6, <1>7, <1>8, <3>1, <3>4, <3>6
    <3>7. QED BY <3>5, <3>6
  <2>6. MemberSlot(s, req[s])'
    <3> SUFFICES ASSUME NEW m \in Members, lock[m] = s
                 PROVE  WriterOf(req[s], m)' /\ PendingRow(req[s], m)'
      BY <1>2, <2>2 DEF MemberSlot
    <3>1. db'[m] = db[m] /\ dirty'[m] = dirty[m]
      BY <1>2, <1>8, <1>10, <2>2
    <3>2. m = db'[Own] => m = db[Own]
      BY <1>6, <1>7, <1>10
    <3>3. QED BY <2>1, <3>1, <3>2 DEF SlotSafe, MemberSlot, WriterOf, PendingRow
  <2>7. OwnerSlot(s, req[s])'
    <3>1. req[s].op = "accept" => req[s].actor \in Roles
      BY <1>2, SlotMembers
    <3>2. QED BY <1>2, <2>1, <2>2, <3>1 DEF SlotSafe, OwnerSlot
  <2>8. QED BY <2>4, <2>5, <2>6, <2>7 DEF SlotSafe
<1>11. SlotSafe(r, req[r])'
  <2>1. req'[r] = Idle
    BY DEF Commit, TypeOK
  <2>2. \A x \in Roles : lock'[x] # r
    BY <1>2, <1>4, RowKinds
  <2>3. QED BY <1>2, <2>1, <2>2 DEF SlotSafe, AdmittedSlot, SeenSlot, MemberSlot, OwnerSlot, Idle
<1>12. QED BY <1>9, <1>10, <1>11, OwnerPartsNext
-----------------------------------------------------------------------------
(***************************************************************************)
(* Slots before and after a statement.                                     *)
(***************************************************************************)
HoldingStages == {"cancel", "cancelling", "revoke", "recheck", "check", "commit", "bump"}

\* Before its first write a request holds no row of Roles.
LEMMA HoldsNothing ==
  ASSUME OwnerIInv, NEW r \in Requests, req[r].pc \notin HoldingStages
  PROVE  \A x \in Roles : lock[x] # r
BY OwnerParts DEF SlotSafe, MemberSlot, WriterOf, OwnerSlot, HoldingStages, Roles

\* ... and only its admission and what it has read are to be kept.
LEMMA ReaderSafe ==
  ASSUME NEW r, NEW q, \A x \in Roles : lock[x] # r, AdmittedSlot(q), SeenSlot(q)
  PROVE  SlotSafe(r, q)
BY DEF SlotSafe, MemberSlot, OwnerSlot, Roles

\* Moving on does not touch the admission.
LEMMA StaysAdmitted ==
  ASSUME OwnerIInv, NEW r \in Requests, req[r].pc \notin {"idle", "access"}, NEW q,
         q.op = req[r].op, q.actor = req[r].actor, q.epoch = req[r].epoch
  PROVE  AdmittedSlot(q)
BY OwnerParts DEF SlotSafe, AdmittedSlot

\* A statement that writes no row of Roles, before r's first write.
LEMMA ReadStepSafe ==
  ASSUME TypeOK, OwnerIInv, NEW r \in Requests, RolesKept, NEW q,
         req[r].pc \notin HoldingStages \cup {"idle", "access"},
         req' = [req EXCEPT ![r] = q],
         q.op = req[r].op, q.actor = req[r].actor, q.epoch = req[r].epoch, SeenSlot(q)
  PROVE  OwnerIInv'
<1>1. SlotSafe(r, q)
  BY HoldsNothing, StaysAdmitted, ReaderSafe
<1>2. QED BY <1>1, QuietSafe, SlotMembers

\* The same for a statement that only moves on, or throws.
LEMMA CheckStepSafe ==
  ASSUME TypeOK, OwnerIInv, NEW r \in Requests, NEW ok, NEW stage,
         stage # "claim", req[r].pc \notin HoldingStages \cup {"idle", "access"},
         ContinueIf(ok, r, stage)
  PROVE  OwnerIInv'
<1>1. CASE Continue(r, stage)
  <2> DEFINE q == [req[r] EXCEPT !.pc = stage]
  <2>1. req[r] \in Request BY DEF TypeOK
  <2>2. q.op = req[r].op /\ q.actor = req[r].actor /\ q.epoch = req[r].epoch /\ q.pc = stage
    BY <2>1 DEF Request
  <2>3. req' = [req EXCEPT ![r] = q] /\ RolesKept
    BY <1>1 DEF Continue, Goto, TypeOK, RolesKept, rowVars
  <2>4. SeenSlot(q)
    BY <2>2 DEF SeenSlot
  <2> HIDE DEF q
  <2>5. QED BY <2>2, <2>3, <2>4, ReadStepSafe
<1>2. CASE Abort(r)
  BY <1>2, AbortSafe
<1>3. QED BY <1>1, <1>2 DEF ContinueIf

-----------------------------------------------------------------------------
(***************************************************************************)
(* Admission and reads.                                                    *)
(***************************************************************************)
LEMMA ArriveSafe ==
  ASSUME TypeOK, OwnerIInv, NEW r \in Requests, Arrive(r)
  PROVE  OwnerIInv'
<1>1. ASSUME NEW actor \in Members, NEW op \in Ops, Authenticate(r, actor, op) PROVE OwnerIInv'
  <2>1. op \in AllOps /\ req[r].pc = "idle" /\ RolesKept
    BY <1>1 DEF Authenticate, AllOps, At, RolesKept, rowVars
  <2>2. PICK call \in Calls(op) :
          req' = [req EXCEPT ![r] = [call EXCEPT !.pc = "access", !.actor = actor]]
    BY <1>1 DEF Authenticate
  <2> DEFINE q == [call EXCEPT !.pc = "access", !.actor = actor]
  <2>3. q.pc = "access" /\ q.actor = actor
    BY <2>1, CallsTyped DEF Request
  <2>4. AdmittedSlot(q) /\ SeenSlot(q)
    BY <2>3 DEF AdmittedSlot, SeenSlot
  <2>5. SlotSafe(r, q)
    BY <2>1, <2>4, HoldsNothing, ReaderSafe DEF HoldingStages
  <2> HIDE DEF q
  <2>6. QED BY <2>1, <2>2, <2>3, <2>5, QuietSafe DEF q
<1>2. ASSUME NEW op \in Ops, PlatformRequest(r, op) PROVE OwnerIInv'
  <2> DEFINE stage == IF op = "changeAccess" THEN "orgRead" ELSE "share"
  <2>1. op \in AllOps /\ op \notin TenantOps /\ req[r].pc = "idle" /\ RolesKept
    BY <1>2 DEF PlatformRequest, AllOps, PlatformOps, TenantOps, OwnerOps, ChangeOps, At,
                RolesKept, rowVars
  <2>2. PICK call \in Calls(op) : req' = [req EXCEPT ![r] = [call EXCEPT !.pc = stage]]
    BY <1>2 DEF PlatformRequest
  <2> DEFINE q == [call EXCEPT !.pc = stage]
  <2>3. q.pc = stage /\ q.op = op /\ stage # "claim"
    BY <2>1, CallsTyped DEF Request
  <2>4. AdmittedSlot(q) /\ SeenSlot(q)
    BY <2>1, <2>3 DEF AdmittedSlot, SeenSlot
  <2>5. SlotSafe(r, q)
    BY <2>1, <2>4, HoldsNothing, ReaderSafe DEF HoldingStages
  <2> HIDE DEF q
  <2>6. QED BY <2>1, <2>2, <2>3, <2>5, QuietSafe DEF q
<1>3. QED BY <1>1, <1>2 DEF Arrive

LEMMA ResolveAccessSafe ==
  ASSUME TypeOK, OwnerIInv, NEW r \in Requests, ResolveAccess(r)
  PROVE  OwnerIInv'
<1> DEFINE me == db[req[r].actor]
           q == [req[r] EXCEPT !.pc = AfterAccess(req[r].op), !.epoch = me.epoch]
<1>1. req[r] \in Request /\ req[r].pc = "access" /\ RolesKept
  BY DEF ResolveAccess, TypeOK, At, RolesKept, rowVars
<1>2. req[r].op \in TenantOps /\ req[r].actor \in Members
  BY <1>1, SlotMembers DEF TypeOK, RequestShaped
<1>3. me.epoch \in Nat
  BY <1>2 DEF TypeOK, RowsTyped, MemberRow
<1>4. \A x \in Roles : lock[x] # r
  BY <1>1, HoldsNothing DEF HoldingStages
<1>5. CASE ActiveAdmin(me) /\ req' = [req EXCEPT ![r] = q]
  <2>1. q.op = req[r].op /\ q.actor = req[r].actor /\ q.epoch = me.epoch /\ q.pc # "claim"
    BY <1>1 DEF Request, AfterAccess
  <2>2. AdmittedSlot(q) /\ SeenSlot(q)
    BY <1>3, <1>5, <2>1 DEF AdmittedSlot, SeenSlot
  <2> HIDE DEF q
  <2>3. QED BY <1>1, <1>2, <1>4, <1>5, <2>1, <2>2, ReaderSafe, QuietSafe
<1>6. CASE req' = [req EXCEPT ![r] = Idle]
  <2>1. AdmittedSlot(Idle) /\ SeenSlot(Idle) /\ Idle.op \notin TenantOps
    BY GovernanceAssumption DEF AdmittedSlot, SeenSlot, Idle, GovernanceAssumption, AllOps
  <2>2. QED BY <1>1, <1>4, <1>6, <2>1, ReaderSafe, QuietSafe
<1>7. QED BY <1>5, <1>6 DEF ResolveAccess

\* The target is read as a non-owner at the version the claim will ask for.
LEMMA ReadTargetSafe ==
  ASSUME TypeOK, OwnerIInv, NEW r \in Requests, ReadTarget(r)
  PROVE  OwnerIInv'
<1> DEFINE row == See(r, req[r].target)
           q == [req[r] EXCEPT !.pc = AfterTarget(req[r].op), !.seen = row]
<1>1. req[r] \in Request /\ req[r].pc = "target"
  BY DEF ReadTarget, TypeOK, At
<1>2. req[r].target \in Members
  BY <1>1 DEF TypeOK, RequestShaped, AllOps, TenantOps
<1>3. \A x \in Roles : lock[x] # r
  BY <1>1, HoldsNothing DEF HoldingStages
<1>4. row = db[req[r].target] /\ See(r, Own) = db[Own]
  BY <1>2, <1>3 DEF See, Roles
<1>5. CASE Eligible(r, row) /\ req' = [req EXCEPT ![r] = q] /\ UNCHANGED rowVars
  <2>1. q.op = req[r].op /\ q.actor = req[r].actor /\ q.epoch = req[r].epoch
        /\ q.target = req[r].target /\ q.seen = row
    BY <1>1 DEF Request
  <2>2. req[r].op \in RoleOps => db[Own] # req[r].target
    BY <1>4, <1>5 DEF Eligible, RoleOps, ChangeOps
  <2>3. row.version \in Nat
    BY <1>2, <1>4 DEF TypeOK, RowsTyped, MemberRow
  <2>4. SeenSlot(q)
    BY <1>4, <2>1, <2>2, <2>3 DEF SeenSlot
  <2>5. RolesKept
    BY <1>5 DEF RolesKept, rowVars
  <2> HIDE DEF q
  <2>6. QED BY <1>1, <1>5, <2>1, <2>4, <2>5, ReadStepSafe DEF HoldingStages
<1>6. CASE Continue(r, "recheck")
  BY <1>1, <1>6, CheckStepSafe DEF ContinueIf, HoldingStages
<1>7. CASE Abort(r)
  BY <1>7, AbortSafe
<1>8. QED BY <1>5, <1>6, <1>7 DEF ReadTarget

\* The reads that check a condition and go on to the next statement.
LEMMA ChecksSafe ==
  ASSUME TypeOK, OwnerIInv, NEW r \in Requests,
         \/ ReadOwner(r) \/ ReadSuccessor(r) \/ ReadOwnerRow(r) \/ ReadFormerOwner(r)
         \/ ReadOrganizationOwner(r)
  PROVE  OwnerIInv'
BY CheckStepSafe DEF ReadOwner, ReadSuccessor, ReadOwnerRow, ReadFormerOwner,
   ReadOrganizationOwner, At, HoldingStages

LEMMA ReadOfferSafe ==
  ASSUME TypeOK, OwnerIInv, NEW r \in Requests, ReadOffer(r)
  PROVE  OwnerIInv'
<1> DEFINE q == [req[r] EXCEPT !.pc = "successor", !.target = See(r, req[r].offer).proposer]
<1>1. req[r] \in Request /\ req[r].pc = "offer"
  BY DEF ReadOffer, TypeOK, At
<1>2. CASE req' = [req EXCEPT ![r] = q] /\ UNCHANGED rowVars
  <2>1. q.op = req[r].op /\ q.actor = req[r].actor /\ q.epoch = req[r].epoch /\ q.pc # "claim"
    BY <1>1 DEF Request
  <2>2. SeenSlot(q) /\ RolesKept
    BY <1>2, <2>1 DEF SeenSlot, RolesKept, rowVars
  <2> HIDE DEF q
  <2>3. QED BY <1>1, <1>2, <2>1, <2>2, ReadStepSafe DEF HoldingStages
<1>3. CASE Abort(r)
  BY <1>3, AbortSafe
<1>4. QED BY <1>2, <1>3 DEF ReadOffer

LEMMA ReadOrganizationSafe ==
  ASSUME TypeOK, OwnerIInv, NEW r \in Requests, ReadOrganization(r)
  PROVE  OwnerIInv'
<1> DEFINE q == [req[r] EXCEPT !.pc = IF req[r].status = "ACTIVE" THEN "orgOwner" ELSE "orgClaim",
                               !.seen = See(r, Org)]
<1>1. req[r] \in Request /\ req[r].pc = "orgRead"
  BY DEF ReadOrganization, TypeOK, At
<1>2. CASE req' = [req EXCEPT ![r] = q] /\ UNCHANGED rowVars
  <2>1. q.op = req[r].op /\ q.actor = req[r].actor /\ q.epoch = req[r].epoch /\ q.pc # "claim"
    BY <1>1 DEF Request
  <2>2. SeenSlot(q) /\ RolesKept
    BY <1>2, <2>1 DEF SeenSlot, RolesKept, rowVars
  <2> HIDE DEF q
  <2>3. QED BY <1>1, <1>2, <2>1, <2>2, ReadStepSafe DEF HoldingStages
<1>3. CASE Abort(r)
  BY <1>3, AbortSafe
<1>4. QED BY <1>2, <1>3 DEF ReadOrganization

LEMMA ShareOrganizationSafe ==
  ASSUME TypeOK, OwnerIInv, NEW r \in Requests, ShareOrganization(r)
  PROVE  OwnerIInv'
<1> DEFINE q == [req[r] EXCEPT !.pc = "target"]
<1>1. req[r] \in Request /\ req[r].pc = "share"
  BY DEF ShareOrganization, TypeOK, At
<1>2. CASE LockShare(r, Org) /\ Goto(r, "target")
  <2>1. q.op = req[r].op /\ q.actor = req[r].actor /\ q.epoch = req[r].epoch /\ q.pc # "claim"
    BY <1>1 DEF Request
  <2>2. SeenSlot(q) /\ RolesKept
    BY <1>2, <2>1 DEF SeenSlot, RolesKept, LockShare
  <2>3. req' = [req EXCEPT ![r] = q]
    BY <1>2 DEF Goto, TypeOK
  <2> HIDE DEF q
  <2>4. QED BY <1>1, <2>1, <2>2, <2>3, ReadStepSafe DEF HoldingStages
<1>3. CASE Abort(r)
  BY <1>3, AbortSafe
<1>4. QED BY <1>2, <1>3 DEF ShareOrganization
-----------------------------------------------------------------------------
(***************************************************************************)
(* Writes.                                                                 *)
(***************************************************************************)
\* Writing a proposal or the Organization leaves the rows of Roles alone.
LEMMA UpdateElsewhere ==
  ASSUME TypeOK, NEW r, NEW x \in Offers \cup {Org}, NEW v, Update(r, x, v)
  PROVE  RolesKept
<1>1. x \notin Roles
  BY RowKinds DEF Roles
<1>2. Roles \subseteq DOMAIN lock /\ Roles \subseteq DOMAIN dirty
  BY RowKinds DEF Roles, TypeOK, RowsTyped
<1>3. QED BY <1>1, <1>2 DEF Update, RolesKept

LEMMA OneHolder ==
  ASSUME TypeOK, NEW r \in Requests, NEW x \in Rows, Holders(r, x) = {}
  PROVE  lock[x] \in {None, r}
BY DEF Holders

\* What a claim writes over the owner keeps the owner's role.
LEMMA WrittenRow ==
  ASSUME NEW q, NEW row \in MemberRow
  PROVE  /\ Written(q, row).version = row.version + 1 /\ Written(q, row).epoch = row.epoch + 1
         /\ q.op = "promote" => Written(q, row).status = row.status
                                /\ Written(q, row).profile = "Administrator"
         /\ q.op = "replaceGrants" => Written(q, row).status = row.status
                                      /\ Written(q, row).profile = row.profile
<1> DEFINE b == Bumped(row)
<1>1. b \in MemberRow /\ b.version = row.version + 1 /\ b.epoch = row.epoch + 1
      /\ b.status = row.status /\ b.profile = row.profile
  BY BumpedTyped
<1> HIDE DEF b
<1>2. /\ Written(q, row) = [b EXCEPT !.profile = "Administrator"] \/ q.op # "promote"
      /\ Written(q, row) = [b EXCEPT !.grants = q.grants] \/ q.op # "replaceGrants"
      /\ \/ Written(q, row) = [b EXCEPT !.profile = "Administrator"]
         \/ Written(q, row) = [b EXCEPT !.profile = "User"]
         \/ Written(q, row) = [b EXCEPT !.grants = q.grants]
         \/ Written(q, row) = [b EXCEPT !.status = StatusAfter(q.op)]
  BY DEF Written, b
<1>3. QED BY <1>1, <1>2 DEF MemberRow

LEMMA ClaimTargetSafe ==
  ASSUME TypeOK, OwnerIInv, NEW r \in Requests, ClaimTarget(r)
  PROVE  OwnerIInv'
<1> DEFINE t == req[r].target
           v == Written(req[r], db[t])
           q == [req[r] EXCEPT !.pc = AfterClaim(req[r].op), !.had = SessionsSeen(req[r], t)]
<1>1. req[r] \in Request /\ req[r].pc = "claim" /\ RequestShaped(req[r])
  BY DEF ClaimTarget, TypeOK, At
<1>2. t \in Members /\ db[t] \in MemberRow /\ req[r].op \notin {"propose", "accept", "changeAccess"}
      /\ req[r].op \in AllOps
  BY <1>1, SlotMembers DEF RequestShaped, TypeOK, RowsTyped
<1>3. \A x \in Roles : lock[x] # r
  BY <1>1, HoldsNothing DEF HoldingStages
<1>4. t \in Roles /\ t \in Rows /\ t # Own /\ Own \in Roles /\ Roles \subseteq Rows
  BY <1>2, RowKinds DEF Roles
<1>5. CASE ClaimMatches(r, db[t]) /\ Update(r, t, v) /\ req' = [req EXCEPT ![r] = q]
  <2>1. lock[t] \in {None, r}
    <3>1. Blockers(r) = Holders(r, t)
      BY <1>1, <1>5 DEF Blockers
    <3>2. QED BY <1>4, <3>1, OneHolder DEF ClaimTarget
  <2>2. req' = [req EXCEPT ![r] = q] /\ req'[r] = q
    BY <1>5 DEF TypeOK
  <2>3. q.op = req[r].op /\ q.actor = req[r].actor /\ q.epoch = req[r].epoch
        /\ q.pc \in {"cancel", "revoke"}
    BY <1>1 DEF Request, AfterClaim
  <2>4. db' = db /\ dirty'[t] = v /\ \A x \in Roles : lock'[x] = r <=> x = t
    BY <1>3, <1>4, <1>5 DEF Update, TypeOK, RowsTyped
  <2>5. t = db[Own] => ActiveAdmin(v)
    <3> SUFFICES ASSUME t = db[Own] PROVE ActiveAdmin(v)
      OBVIOUS
    <3>1. ActiveAdmin(db[t])
      BY DEF OwnerIInv, OwnerIsActiveAdministrator
    <3>2. req[r].op \notin RoleOps
      <4>1. req[r].op \in RoleOps => req[r].seen.version = db[t].version
        BY <1>5 DEF ClaimMatches, RoleOps, ChangeOps
      <4>2. QED BY <1>1, <4>1, OwnerParts DEF SlotSafe, SeenSlot
    <3>3. req[r].op \in {"promote", "replaceGrants"}
      BY <1>2, <3>2 DEF AllOps, TenantOps, PlatformOps, OwnerOps, ChangeOps, RoleOps
    <3>4. QED BY <1>2, <3>1, <3>3, WrittenRow DEF ActiveAdmin
  <2>6. AdmittedSlot(q)
    BY <1>1, <2>3, StaysAdmitted
  <2>7. v.version = db[t].version + 1 /\ v.epoch = db[t].epoch + 1
    BY <1>2, WrittenRow
  <2> HIDE DEF q, v, t
  <2>8. AdmittedSlot(req[r])' /\ SeenSlot(req[r])'
    BY <2>2, <2>3, <2>4, <2>6 DEF AdmittedSlot, SeenSlot
  <2>9. MemberSlot(r, req[r])'
    BY <1>2, <2>2, <2>3, <2>4, <2>5, <2>7 DEF MemberSlot, WriterOf, PendingRow, Roles
  <2>10. OwnerSlot(r, req[r])'
    BY <1>4, <2>4 DEF OwnerSlot
  <2>11. SlotSafe(r, req[r])'
    BY <2>8, <2>9, <2>10 DEF SlotSafe
  <2>12. QED BY <1>4, <1>5, <2>1, <2>2, <2>11, LockSafe
<1>6. CASE Abort(r)
  BY <1>6, AbortSafe
<1>7. QED BY <1>5, <1>6 DEF ClaimTarget

\* A statement between r's claims that touches no row of Roles.
LEMMA BetweenSafe ==
  ASSUME TypeOK, OwnerIInv, NEW r \in Requests, RolesKept, NEW q,
         req[r].pc \in HoldingStages, lock[Own] # r,
         req' = [req EXCEPT ![r] = q],
         q.op = req[r].op, q.actor = req[r].actor, q.epoch = req[r].epoch,
         q.pc \in HoldingStages \ {"bump"} \/ (q.op = "propose" /\ q.pc # "claim")
  PROVE  OwnerIInv'
<1>1. SlotSafe(r, req[r])
  BY OwnerParts
<1>2. AdmittedSlot(q)
  BY StaysAdmitted DEF HoldingStages
<1>3. SeenSlot(q) /\ OwnerSlot(r, q)
  BY DEF SeenSlot, OwnerSlot, HoldingStages
<1>4. MemberSlot(r, q)
  BY <1>1 DEF SlotSafe, MemberSlot, WriterOf, PendingRow, HoldingStages
<1>5. QED BY <1>2, <1>3, <1>4, QuietSafe, SlotMembers DEF SlotSafe

\* Only bump and what follows it holds the ownership row.
LEMMA CancelsDoNotOwn ==
  ASSUME OwnerIInv, NEW r \in Requests, req[r].pc \in {"cancel", "cancelling"}
  PROVE  lock[Own] # r
BY OwnerParts DEF SlotSafe, OwnerSlot

LEMMA BeginCancelSafe ==
  ASSUME TypeOK, OwnerIInv, NEW r \in Requests, BeginCancel(r)
  PROVE  OwnerIInv'
<1> DEFINE stage == IF Cancellable(r) = {} THEN AfterCancel(req[r].op) ELSE "cancelling"
           q == [req[r] EXCEPT !.todo = Cancellable(r), !.pc = stage]
<1>1. req[r] \in Request /\ req[r].pc = "cancel"
  BY DEF BeginCancel, TypeOK, At
<1>2. req' = [req EXCEPT ![r] = q] /\ RolesKept
  BY DEF BeginCancel, TypeOK, RolesKept, rowVars
<1>3. q.op = req[r].op /\ q.actor = req[r].actor /\ q.epoch = req[r].epoch /\ q.pc = stage
  BY <1>1 DEF Request
<1>4. q.pc \in HoldingStages \ {"bump"} \/ (q.op = "propose" /\ q.pc # "claim")
  BY <1>3 DEF AfterCancel, HoldingStages
<1>5. lock[Own] # r /\ req[r].pc \in HoldingStages
  BY <1>1, CancelsDoNotOwn DEF HoldingStages
<1> HIDE DEF q, stage
<1>6. QED BY <1>2, <1>3, <1>4, <1>5, BetweenSafe

LEMMA CancelOfferSafe ==
  ASSUME TypeOK, OwnerIInv, NEW r \in Requests, NEW p \in Offers, CancelOffer(r, p)
  PROVE  OwnerIInv'
<1> DEFINE left == req[r].todo \ {p}
           stage == IF left = {} THEN AfterCancel(req[r].op) ELSE req[r].pc
           q == [req[r] EXCEPT !.todo = left, !.pc = stage]
<1>1. req[r] \in Request /\ req[r].pc = "cancelling"
  BY DEF CancelOffer, TypeOK, At
<1>2. RolesKept
  BY UpdateElsewhere DEF CancelOffer, RolesKept, rowVars
<1>3. req' = [req EXCEPT ![r] = q]
  BY DEF CancelOffer, TypeOK
<1>4. q.op = req[r].op /\ q.actor = req[r].actor /\ q.epoch = req[r].epoch /\ q.pc = stage
  BY <1>1 DEF Request
<1>5. q.pc \in HoldingStages \ {"bump"} \/ (q.op = "propose" /\ q.pc # "claim")
  BY <1>1, <1>4 DEF AfterCancel, HoldingStages
<1>6. lock[Own] # r /\ req[r].pc \in HoldingStages
  BY <1>1, CancelsDoNotOwn DEF HoldingStages
<1> HIDE DEF q, stage
<1>7. QED BY <1>2, <1>3, <1>4, <1>5, <1>6, BetweenSafe

\* A proposer holds no membership when it inserts.
LEMMA InsertOfferSafe ==
  ASSUME TypeOK, OwnerIInv, NEW r \in Requests, InsertOffer(r)
  PROVE  OwnerIInv'
<1> DEFINE q == [req[r] EXCEPT !.pc = "recheck"]
<1>1. req[r] \in Request /\ req[r].pc = "insert"
  BY DEF InsertOffer, TypeOK, At
<1>2. ASSUME NEW v, FreshOffers # {}, Update(r, FreshOffer, v), Goto(r, "recheck") PROVE OwnerIInv'
  <2>1. FreshOffer \in Offers
    BY <1>2 DEF FreshOffer, FreshOffers
  <2>2. RolesKept
    BY <1>2, <2>1, UpdateElsewhere
  <2>3. req' = [req EXCEPT ![r] = q]
    BY <1>2 DEF Goto, TypeOK
  <2>4. q.op = req[r].op /\ q.actor = req[r].actor /\ q.epoch = req[r].epoch /\ q.pc = "recheck"
    BY <1>1 DEF Request
  <2>5. SeenSlot(q)
    BY <2>4 DEF SeenSlot
  <2> HIDE DEF q
  <2>6. QED BY <1>1, <2>2, <2>3, <2>4, <2>5, ReadStepSafe DEF HoldingStages
<1>3. CASE Abort(r)
  BY <1>3, AbortSafe
<1>4. QED BY <1>2, <1>3 DEF InsertOffer

LEMMA ClaimOfferSafe ==
  ASSUME TypeOK, OwnerIInv, NEW r \in Requests, ClaimOffer(r)
  PROVE  OwnerIInv'
<1> DEFINE q == [req[r] EXCEPT !.pc = "ownership"]
<1>1. req[r] \in Request /\ req[r].pc = "acceptClaim"
  BY DEF ClaimOffer, TypeOK, At
<1>2. req[r].offer \in Offers
  BY <1>1 DEF TypeOK, RequestShaped, AcceptStages
<1>3. ASSUME NEW v, Update(r, req[r].offer, v), Goto(r, "ownership") PROVE OwnerIInv'
  <2>1. RolesKept
    BY <1>2, <1>3, UpdateElsewhere
  <2>2. req' = [req EXCEPT ![r] = q]
    BY <1>3 DEF Goto, TypeOK
  <2>3. q.op = req[r].op /\ q.actor = req[r].actor /\ q.epoch = req[r].epoch /\ q.pc = "ownership"
    BY <1>1 DEF Request
  <2>4. SeenSlot(q)
    BY <2>3 DEF SeenSlot
  <2> HIDE DEF q
  <2>5. QED BY <1>1, <2>1, <2>2, <2>3, <2>4, ReadStepSafe DEF HoldingStages
<1>4. CASE Abort(r)
  BY <1>4, AbortSafe
<1>5. QED BY <1>3, <1>4 DEF ClaimOffer

LEMMA ClaimOrganizationSafe ==
  ASSUME TypeOK, OwnerIInv, NEW r \in Requests, ClaimOrganization(r)
  PROVE  OwnerIInv'
<1> DEFINE on  == [req[r] EXCEPT !.pc = "check"]
           off == [req[r] EXCEPT !.pc = "bump", !.todo = Members]
<1>1. req[r] \in Request /\ req[r].pc = "orgClaim"
  BY DEF ClaimOrganization, TypeOK, At
<1>2. ASSUME NEW v, Update(r, Org, v), NEW q \in {on, off}, req' = [req EXCEPT ![r] = q]
      PROVE OwnerIInv'
  <2>1. RolesKept
    BY <1>2, UpdateElsewhere
  <2>2. q.op = req[r].op /\ q.actor = req[r].actor /\ q.epoch = req[r].epoch /\ q.pc # "claim"
    BY <1>1, <1>2 DEF Request
  <2>3. SeenSlot(q)
    BY <2>2 DEF SeenSlot
  <2>4. QED BY <1>1, <1>2, <2>1, <2>2, <2>3, ReadStepSafe DEF HoldingStages
<1>3. CASE Abort(r)
  BY <1>3, AbortSafe
<1>4. QED BY <1>2, <1>3 DEF ClaimOrganization

\* From here on accept holds the ownership and is bound to lock its own row.
LEMMA ClaimOwnershipSafe ==
  ASSUME TypeOK, OwnerIInv, NEW r \in Requests, ClaimOwnership(r)
  PROVE  OwnerIInv'
<1> DEFINE q == [req[r] EXCEPT !.pc = "bump", !.todo = {req[r].target, req[r].actor}]
<1>1. req[r] \in Request /\ req[r].pc = "ownership"
  BY DEF ClaimOwnership, TypeOK, At
<1>2. req[r].op = "accept" /\ req[r].actor \in Members
  BY <1>1, SlotMembers DEF TypeOK, RequestShaped, AcceptStages
<1>3. \A x \in Roles : lock[x] # r
  BY <1>1, HoldsNothing DEF HoldingStages
<1>4. Own \in Roles /\ Own \in Rows /\ Own \notin Members /\ Roles \subseteq Rows
  BY RowKinds DEF Roles
<1>5. CASE db[Own] = req[r].target /\ Update(r, Own, req[r].actor) /\ req' = [req EXCEPT ![r] = q]
  <2>1. lock[Own] \in {None, r}
    <3>1. Blockers(r) = Holders(r, Own)
      BY <1>1, <1>5 DEF Blockers
    <3>2. QED BY <1>4, <3>1, OneHolder DEF ClaimOwnership
  <2>2. q.op = req[r].op /\ q.actor = req[r].actor /\ q.epoch = req[r].epoch
        /\ q.pc = "bump" /\ q.actor \in q.todo
    BY <1>1 DEF Request
  <2>3. req'[r] = q /\ AdmittedSlot(q)
    BY <1>1, <1>5, <2>2, StaysAdmitted DEF TypeOK
  <2>4. db' = db /\ dirty'[Own] = q.actor /\ \A x \in Roles : lock'[x] = r <=> x = Own
    BY <1>3, <1>4, <1>5, <2>2 DEF Update, TypeOK, RowsTyped
  <2> HIDE DEF q
  <2>5. AdmittedSlot(req[r])' /\ SeenSlot(req[r])'
    BY <2>2, <2>3, <2>4 DEF AdmittedSlot, SeenSlot
  <2>6. MemberSlot(r, req[r])' /\ OwnerSlot(r, req[r])'
    BY <1>2, <1>4, <2>2, <2>3, <2>4 DEF MemberSlot, OwnerSlot, Roles
  <2>7. SlotSafe(r, req[r])'
    BY <2>5, <2>6 DEF SlotSafe
  <2>8. QED BY <1>4, <1>5, <2>1, <2>7, LockSafe
<1>6. CASE Abort(r)
  BY <1>6, AbortSafe
<1>7. QED BY <1>5, <1>6 DEF ClaimOwnership

LEMMA BumpMemberSafe ==
  ASSUME TypeOK, OwnerIInv, NEW r \in Requests, NEW m \in Members, BumpMember(r, m)
  PROVE  OwnerIInv'
<1> DEFINE left == req[r].todo \ {m}
           stage == IF left = {} THEN "revoke" ELSE req[r].pc
           more == [req[r] EXCEPT !.todo = left, !.had = SessionsSeen(req[r], m)]
           q == IF left = {} THEN [more EXCEPT !.pc = "revoke"] ELSE more
           v == Bumped(db[m])
<1>1. req[r] \in Request /\ req[r].pc = "bump" /\ m \in req[r].todo /\ SlotSafe(r, req[r])
  BY OwnerParts DEF BumpMember, TypeOK, At
<1>2. req[r].op \in {"accept", "changeAccess"}
  BY <1>1 DEF TypeOK, RequestShaped
<1>3. m \in Roles /\ m \in Rows /\ m # Own /\ Own \in Roles /\ Roles \subseteq Rows
      /\ Members \subseteq Roles
  BY RowKinds DEF Roles
<1>4. lock[m] = None
  <2>1. lock[m] \in {None, r}
    BY <1>3, OneHolder DEF BumpMember
  <2>2. QED BY <1>1, <2>1 DEF SlotSafe, MemberSlot, WriterOf
<1>5. See(r, m) = db[m] /\ db[m] \in MemberRow
  BY <1>4, RowKinds DEF See, TypeOK, RowsTyped
<1>6. Update(r, m, v) /\ req' = [req EXCEPT ![r] = q] /\ req'[r] = q
  BY <1>5 DEF BumpMember, TypeOK
<1>7. v.status = db[m].status /\ v.profile = db[m].profile
      /\ v.version = db[m].version + 1 /\ v.epoch = db[m].epoch + 1
  BY <1>5, BumpedTyped
<1>8. m = db[Own] => ActiveAdmin(v)
  BY <1>7 DEF OwnerIInv, OwnerIsActiveAdministrator, ActiveAdmin
<1>9. /\ q.op = req[r].op /\ q.actor = req[r].actor /\ q.epoch = req[r].epoch /\ q.todo = left
      /\ q.pc = stage /\ q.pc \in {"bump", "revoke"} /\ (left # {} => q.pc = "bump")
  BY <1>1 DEF Request
<1>10. AdmittedSlot(q)
  BY <1>1, <1>9, StaysAdmitted
<1>11. DOMAIN lock = Rows /\ DOMAIN dirty = Rows
  BY DEF TypeOK, RowsTyped
<1>12. db' = db /\ dirty'[m] = v /\ lock'[m] = r
       /\ \A x \in Roles : x # m => lock'[x] = lock[x] /\ dirty'[x] = dirty[x]
  BY <1>3, <1>6, <1>11 DEF Update
<1> HIDE DEF q, v, stage
<1>13. AdmittedSlot(req[r])' /\ SeenSlot(req[r])'
  BY <1>6, <1>9, <1>10, <1>12 DEF AdmittedSlot, SeenSlot
<1>14. MemberSlot(r, req[r])'
  <2> SUFFICES ASSUME NEW n \in Members, lock'[n] = r
               PROVE  WriterOf(req[r], n)' /\ PendingRow(req[r], n)'
    BY DEF MemberSlot
  <2>1. CASE n = m
    BY <1>2, <1>6, <1>7, <1>8, <1>9, <1>12, <2>1 DEF WriterOf, PendingRow
  <2>2. CASE n # m
    <3>1. lock[n] = r /\ dirty'[n] = dirty[n]
      BY <1>3, <1>12, <2>2
    <3>2. WriterOf(req[r], n) /\ PendingRow(req[r], n)
      BY <1>1, <3>1 DEF SlotSafe, MemberSlot
    <3>3. QED BY <1>1, <1>6, <1>9, <1>12, <3>1, <3>2 DEF WriterOf, PendingRow
  <2>3. QED BY <2>1, <2>2
<1>15. OwnerSlot(r, req[r])'
  <2> SUFFICES ASSUME lock'[Own] = r
               PROVE  /\ q.op = "accept" /\ dirty'[Own] = q.actor
                      /\ \/ q.pc = "bump" /\ q.actor \in q.todo
                         \/ q.pc \in {"bump", "revoke"} /\ lock'[q.actor] = r
    BY <1>6, <1>9 DEF OwnerSlot
  <2>1. /\ req[r].op = "accept" /\ dirty[Own] = req[r].actor
        /\ req[r].actor \in req[r].todo \/ lock[req[r].actor] = r
    BY <1>1, <1>3, <1>12 DEF SlotSafe, OwnerSlot
  <2>2. req[r].actor \in Roles
    BY <1>3, <2>1, SlotMembers
  <2>3. CASE req[r].actor = m
    BY <1>3, <1>9, <1>12, <2>1, <2>3
  <2>4. CASE req[r].actor # m
    BY <1>3, <1>9, <1>12, <2>1, <2>2, <2>4
  <2>5. QED BY <2>3, <2>4
<1>16. SlotSafe(r, req[r])'
  BY <1>13, <1>14, <1>15 DEF SlotSafe
<1>17. QED BY <1>3, <1>4, <1>6, <1>16, LockSafe
-----------------------------------------------------------------------------
(***************************************************************************)
(* The end of a transaction.                                               *)
(***************************************************************************)
\* A statement of the last stages that leaves the rows alone: ownership stays
\* held with the row of the actor, who is checked before the commit.
EndsOwning(r, q) ==
  lock[Own] = r =>
    q.pc # "cancel" /\ (q.pc \in {"check", "commit"} => ActiveAdmin(dirty[q.actor]))

EndsInTurn(p, q) ==
  p.pc \in {"revoke", "recheck", "check"} /\ q.pc \in {"cancel", "recheck", "check", "commit"}

LEMMA EndingSafe ==
  ASSUME TypeOK, OwnerIInv, NEW r \in Requests, RolesKept, NEW q,
         req' = [req EXCEPT ![r] = q], EndsInTurn(req[r], q), EndsOwning(r, q),
         q.op = req[r].op, q.actor = req[r].actor, q.epoch = req[r].epoch
  PROVE  OwnerIInv'
<1>1. SlotSafe(r, req[r])
  BY OwnerParts
<1>2. AdmittedSlot(q) /\ SeenSlot(q)
  BY StaysAdmitted DEF SeenSlot, EndsInTurn
<1>3. MemberSlot(r, q)
  BY <1>1 DEF SlotSafe, MemberSlot, WriterOf, PendingRow, EndsInTurn
<1>4. OwnerSlot(r, q)
  BY <1>1 DEF SlotSafe, OwnerSlot, EndsOwning, EndsInTurn
<1>5. QED BY <1>2, <1>3, <1>4, QuietSafe, SlotMembers DEF SlotSafe

LEMMA RevokeSessionsSafe ==
  ASSUME TypeOK, OwnerIInv, NEW r \in Requests, RevokeSessions(r)
  PROVE  OwnerIInv'
<1> DEFINE c == [m \in Members |-> IF m \in Affected(req[r]) THEN session[m] ELSE 0]
           q == [req[r] EXCEPT !.pc = AfterRevoke(req[r]), !.cut = c]
<1>1. req[r] \in Request /\ req[r].pc = "revoke"
  BY DEF RevokeSessions, TypeOK, At
<1>2. req' = [req EXCEPT ![r] = q] /\ RolesKept
  BY DEF RevokeSessions, RolesKept, rowVars
<1>3. q.op = req[r].op /\ q.actor = req[r].actor /\ q.epoch = req[r].epoch
      /\ q.pc = AfterRevoke(req[r])
  BY <1>1 DEF Request
<1>4. lock[Own] = r => req[r].op = "accept"
  BY OwnerParts DEF SlotSafe, OwnerSlot
<1>5. /\ AfterRevoke(req[r]) \in {"cancel", "recheck", "check"}
      /\ req[r].op = "accept" => AfterRevoke(req[r]) = "recheck"
  BY DEF AfterRevoke
<1>6. EndsOwning(r, q) /\ EndsInTurn(req[r], q)
  BY <1>1, <1>3, <1>4, <1>5 DEF EndsOwning, EndsInTurn
<1> HIDE DEF q
<1>7. QED BY <1>2, <1>3, <1>6, EndingSafe

\* Recheck finds accept's own bump, so that its actor is still as admitted.
LEMMA RecheckSafe ==
  ASSUME TypeOK, OwnerIInv, NEW r \in Requests, Recheck(r)
  PROVE  OwnerIInv'
<1> DEFINE stage == IF FiresTrigger(r) THEN "check" ELSE "commit"
           q == [req[r] EXCEPT !.pc = stage]
           me == See(r, req[r].actor)
<1>1. req[r] \in Request /\ req[r].pc = "recheck" /\ SlotSafe(r, req[r])
  BY OwnerParts DEF Recheck, TypeOK, At
<1>2. CASE me.epoch = ExpectedEpoch(req[r]) /\ Continue(r, stage)
  <2>1. q.op = req[r].op /\ q.actor = req[r].actor /\ q.epoch = req[r].epoch
        /\ q.pc \in {"check", "commit"}
    BY <1>1 DEF Request
  <2>2. req' = [req EXCEPT ![r] = q] /\ RolesKept
    BY <1>2 DEF Continue, Goto, TypeOK, RolesKept, rowVars
  <2>3. ASSUME lock[Own] = r PROVE ActiveAdmin(dirty[req[r].actor])
    <3>1. req[r].op = "accept" /\ lock[req[r].actor] = r
      BY <1>1, <2>3 DEF SlotSafe, OwnerSlot
    <3>2. req[r].actor \in Members /\ req[r].op \in TenantOps
      BY <3>1, SlotMembers DEF TenantOps
    <3>3. /\ dirty[req[r].actor].epoch = db[req[r].actor].epoch + 1
          /\ dirty[req[r].actor].status = db[req[r].actor].status
          /\ dirty[req[r].actor].profile = db[req[r].actor].profile
      BY <1>1, <3>1, <3>2 DEF SlotSafe, MemberSlot, PendingRow
    <3>4. dirty[req[r].actor].epoch = req[r].epoch + 1
      BY <1>2, <3>1 DEF See, ExpectedEpoch
    <3>5. db[req[r].actor].epoch \in Nat /\ req[r].epoch \in Nat
      BY <1>1, <3>2 DEF TypeOK, RowsTyped, MemberRow, Request
    <3>6. ActiveAdmin(db[req[r].actor])
      BY <1>1, <3>2, <3>3, <3>4, <3>5 DEF SlotSafe, AdmittedSlot
    <3>7. QED BY <3>3, <3>6 DEF ActiveAdmin
  <2>4. EndsOwning(r, q) /\ EndsInTurn(req[r], q)
    BY <1>1, <2>1, <2>3 DEF EndsOwning, EndsInTurn
  <2> HIDE DEF q
  <2>5. QED BY <2>1, <2>2, <2>4, EndingSafe
<1>3. CASE Abort(r)
  BY <1>3, AbortSafe
<1>4. QED BY <1>2, <1>3 DEF Recheck, ContinueIf

LEMMA CheckOwnerSafe ==
  ASSUME TypeOK, OwnerIInv, NEW r \in Requests, CheckOwner(r)
  PROVE  OwnerIInv'
<1> DEFINE q == [req[r] EXCEPT !.pc = "commit"]
<1>1. req[r] \in Request /\ req[r].pc = "check"
  BY DEF CheckOwner, TypeOK, At
<1>2. CASE Continue(r, "commit")
  <2>1. q.op = req[r].op /\ q.actor = req[r].actor /\ q.epoch = req[r].epoch /\ q.pc = "commit"
    BY <1>1 DEF Request
  <2>2. req' = [req EXCEPT ![r] = q] /\ RolesKept
    BY <1>2 DEF Continue, Goto, TypeOK, RolesKept, rowVars
  <2>3. lock[Own] = r => ActiveAdmin(dirty[req[r].actor])
    BY <1>1, OwnerParts DEF SlotSafe, OwnerSlot
  <2>4. EndsOwning(r, q) /\ EndsInTurn(req[r], q)
    BY <1>1, <2>1, <2>3 DEF EndsOwning, EndsInTurn
  <2> HIDE DEF q
  <2>5. QED BY <2>1, <2>2, <2>4, EndingSafe
<1>3. CASE Abort(r)
  BY <1>3, AbortSafe
<1>4. QED BY <1>2, <1>3 DEF CheckOwner, ContinueIf

-----------------------------------------------------------------------------
(***************************************************************************)
(* The theorems.                                                           *)
(***************************************************************************)
LEMMA StatementSafe ==
  ASSUME TypeOK, OwnerIInv, NEW r \in Requests, Statement(r)
  PROVE  OwnerIInv'
BY ResolveAccessSafe, ChecksSafe, ReadTargetSafe, ClaimTargetSafe, BeginCancelSafe,
   CancelOfferSafe, InsertOfferSafe, ReadOfferSafe, ClaimOfferSafe, ClaimOwnershipSafe,
   BumpMemberSafe, ShareOrganizationSafe, ReadOrganizationSafe, ClaimOrganizationSafe,
   RevokeSessionsSafe, RecheckSafe, CheckOwnerSafe, CommitSafe DEF Statement

LEMMA InitSafe == Init => OwnerIInv
<1> SUFFICES ASSUME Init PROVE OwnerIInv
  OBVIOUS
<1>1. PICK owner \in Members, successor \in Members, role \in [Members -> StartRoles], g \in Grants :
        /\ owner # successor /\ role[owner] = role[successor]
        /\ StartPending => role[successor] = <<"ACTIVE", "Administrator">>
        /\ InitRows([x \in Rows |-> StartRow(x, owner, role, g, successor)])
        /\ revoked = [m \in Members |-> StartEpoch(m, owner, role)]
  BY DEF Init
<1>2. Own \in Rows /\ owner \in Rows /\ owner # Own /\ owner # Org /\ owner \notin Offers
      /\ Own # Org /\ Own \notin Offers
  BY RowKinds
<1>3. db[Own] = owner
  BY <1>1, <1>2 DEF InitRows, StartRow
<1>4. ActiveAdmin(db[owner])
  BY <1>1, <1>2 DEF InitRows, StartRow, ActiveAdmin
<1>5. \A x \in Rows : lock[x] = None
  BY <1>1 DEF InitRows
<1>6. \A r \in Requests : req[r].pc = "idle"
  BY DEF Init, Idle
<1>7. \A r \in Requests : SlotSafe(r, req[r])
  BY <1>5, <1>6, RowKinds DEF SlotSafe, AdmittedSlot, SeenSlot, MemberSlot, OwnerSlot
<1>8. QED BY <1>3, <1>4, <1>7, OwnerParts DEF OwnerIsActiveAdministrator

LEMMA NextSafe == TypeOK /\ OwnerIInv /\ [Next]_vars => OwnerIInv'
<1> SUFFICES ASSUME TypeOK, OwnerIInv, [Next]_vars PROVE OwnerIInv'
  OBVIOUS
<1>1. ASSUME NEW r \in Requests, Arrive(r) \/ Statement(r) \/ Fail(r) \/ DeadlockVictim(r)
      PROVE  OwnerIInv'
  BY <1>1, ArriveSafe, StatementSafe, AbortSafe DEF Fail, DeadlockVictim
<1>2. ASSUME NEW m \in Members, Login(m) PROVE OwnerIInv'
  BY <1>2, StutterSafe DEF Login
<1>3. ASSUME NEW p \in Offers, ExpireOffer(p) PROVE OwnerIInv'
  BY <1>3, StutterSafe DEF ExpireOffer
<1>4. CASE UNCHANGED vars
  BY <1>4, StutterSafe DEF vars
<1>5. QED BY <1>1, <1>2, <1>3, <1>4 DEF Next, Quiescent

\* The strengthened invariant: what every request slot remembers of its
\* admission and its reads, and what it holds uncommitted.
THEOREM OwnerInvariant == Spec => []OwnerIInv
<1>1. Init /\ [][Next]_vars => []TypeOK
  BY TypeCorrect DEF Spec
<1>2. QED BY <1>1, InitSafe, NextSafe, PTL DEF Spec

\* The owner of the Organization is always an ACTIVE Administrator, however the
\* statements of transfers, suspensions, removals and demotions interleave
\* (ownership.service.ts, collaborator-lifecycle.service.ts, organization.service.ts).
THEOREM OwnerSafe == Spec => []OwnerIsActiveAdministrator
<1>1. OwnerIInv => OwnerIsActiveAdministrator
  BY DEF OwnerIInv
<1>2. QED BY <1>1, OwnerInvariant, PTL

\* Nothing is committed but by COMMIT.
LEMMA OnlyCommitWrites ==
  ASSUME [Next]_vars
  PROVE  db' = db \/ \E r \in Requests : Commit(r)
<1>1. ASSUME NEW r \in Requests, Abort(r) PROVE db' = db
  BY <1>1 DEF Abort, RollbackRows
<1>2. ASSUME NEW r \in Requests, NEW stage, Continue(r, stage) PROVE db' = db
  BY <1>2 DEF Continue, rowVars
<1>3. ASSUME NEW r \in Requests, NEW ok, NEW stage, ContinueIf(ok, r, stage) PROVE db' = db
  BY <1>1, <1>2, <1>3 DEF ContinueIf
<1>4. ASSUME NEW r \in Requests, Statement(r) PROVE db' = db \/ Commit(r)
  <2>1. ReadOwner(r) \/ ReadSuccessor(r) \/ ReadOwnerRow(r) \/ ReadFormerOwner(r)
        \/ ReadOrganizationOwner(r) \/ CheckOwner(r) \/ Recheck(r) => db' = db
    BY <1>3 DEF ReadOwner, ReadSuccessor, ReadOwnerRow, ReadFormerOwner, ReadOrganizationOwner,
       CheckOwner, Recheck
  <2>2. ReadTarget(r) \/ ReadOffer(r) \/ ReadOrganization(r) \/ ShareOrganization(r) => db' = db
    BY <1>1, <1>2 DEF ReadTarget, ReadOffer, ReadOrganization, ShareOrganization, LockShare, rowVars
  <2>3. ClaimTarget(r) \/ ClaimOffer(r) \/ ClaimOwnership(r) \/ ClaimOrganization(r) => db' = db
    BY <1>1 DEF ClaimTarget, ClaimOffer, ClaimOwnership, ClaimOrganization, Update
  <2>4. InsertOffer(r) \/ BeginCancel(r) \/ ResolveAccess(r) \/ RevokeSessions(r)
        \/ (\E p \in Offers : CancelOffer(r, p)) \/ (\E m \in Members : BumpMember(r, m)) => db' = db
    BY <1>1 DEF InsertOffer, BeginCancel, ResolveAccess, RevokeSessions, CancelOffer, BumpMember,
       Update, rowVars
  <2>5. QED BY <1>4, <2>1, <2>2, <2>3, <2>4 DEF Statement
<1>5. ASSUME NEW r \in Requests, Arrive(r) PROVE db' = db
  BY <1>5 DEF Arrive, Authenticate, PlatformRequest, rowVars
<1>6. ASSUME NEW m \in Members, Login(m) PROVE db' = db
  BY <1>6 DEF Login, rowVars
<1>7. ASSUME NEW p \in Offers, ExpireOffer(p) PROVE db' = db
  BY <1>7 DEF ExpireOffer, rowVars
<1>8. CASE UNCHANGED vars
  BY <1>8 DEF vars, rowVars
<1>9. QED BY <1>1, <1>4, <1>5, <1>6, <1>7, <1>8 DEF Next, Fail, DeadlockVictim, Quiescent

\* A commit moves the version and the epoch of each member it changes by one:
\* what it installs was computed from the row it replaces.
LEMMA CommitCounts ==
  ASSUME TypeOK, OwnerIInv, NEW r \in Requests, Commit(r), NEW m \in Members, db'[m] # db[m]
  PROVE  db'[m].version = db[m].version + 1 /\ db'[m].epoch = db[m].epoch + 1
<1>1. m \in Rows /\ DOMAIN db = Rows
  BY RowKinds DEF TypeOK, RowsTyped
<1>2. lock[m] = r /\ db'[m] = dirty[m]
  BY <1>1 DEF Commit, CommitRows, See
<1>3. QED BY <1>2, OwnerParts DEF SlotSafe, MemberSlot, PendingRow

\* No membership change overwrites one it has not seen: versions and access
\* epochs never skip, repeat or go back (the version claims of both services).
THEOREM EveryChangeCounted == Spec => ChangesCounted
<1>1. TypeOK /\ OwnerIInv /\ [Next]_vars =>
        [\A m \in Members : db'[m] # db[m] => /\ db'[m].version = db[m].version + 1
                                              /\ db'[m].epoch = db[m].epoch + 1]_vars
  BY OnlyCommitWrites, CommitCounts
<1>2. QED BY <1>1, TypeCorrect, OwnerInvariant, PTL DEF Spec, ChangesCounted
=============================================================================
