----------------------------- MODULE OfferProofs -----------------------------
(***************************************************************************)
(* Proofs about ownership transfer proposals: there is one PENDING         *)
(* proposal at most, it is the owner's, it is resolved once, and ownership *)
(* moves by the acceptance of a proposal and in no other way.              *)
(*                                                                         *)
(* The inductive invariant is OfferIInv of Governance, on top of TypeOK    *)
(* and OwnerIInv.  Its parts about rows are OfferRows, and its parts about *)
(* a request slot SlotOffers.                                              *)
(***************************************************************************)
EXTENDS GovernanceProofs

CleanOffers == \A p \in Offers : lock[p] = None => dirty[p] = db[p]

OffersToOthers == \A p \in Offers : db[p].status = "PENDING" => db[p].proposer # db[p].successor

OfferRows ==
  /\ OnePendingOffer /\ PendingOfferIsOwners /\ InsertedAlone
  /\ CleanOffers /\ OffersToOthers

SlotOffers(r, q) == OfferRead(q) /\ OffersHeld(r, q) /\ AcceptHolds(r, q)

LEMMA OfferParts ==
  OfferIInv <=> OfferRows /\ \A r \in Requests : SlotOffers(r, req[r])
BY DEF OfferIInv, OfferRows, CleanOffers, OffersToOthers, SlotOffers

LEMMA OfferPartsNext ==
  OfferRows' /\ (\A r \in Requests : SlotOffers(r, req[r])') => OfferIInv'
BY DEF OfferIInv, OfferRows, CleanOffers, OffersToOthers, SlotOffers

\* Where an accept looks: its proposal and the two members are rows.
LEMMA AcceptNames ==
  ASSUME TypeOK, NEW r \in Requests
  PROVE  /\ req[r].op = "accept" => req[r].offer \in Offers /\ req[r].actor \in Members
         /\ req[r].op = "accept" /\ req[r].pc \notin {"access", "offer"} =>
              req[r].target \in Members
         /\ req[r].pc \in AcceptStages => req[r].op = "accept"
         /\ req[r].op = "propose" => req[r].actor \in Members
BY DEF TypeOK, RequestShaped, TenantOps, OwnerOps

\* An uncommitted proposal that is PENDING has been inserted.
LEMMA HeldOffer ==
  ASSUME OfferIInv, NEW r \in Requests, NEW p \in Offers, lock[p] = r
  PROVE  CancelledBy(req[r], p) \/ InsertedBy(req[r], p) \/ AcceptedBy(req[r], p)
BY OfferParts DEF SlotOffers, OffersHeld

-----------------------------------------------------------------------------
(***************************************************************************)
(* The kinds of steps.                                                     *)
(***************************************************************************)
\* r takes no proposal and gives none up; the others keep what they hold.
OffersKept(r) ==
  /\ db' = db
  /\ \A p \in Offers : lock'[p] = lock[p] /\ dirty'[p] = dirty[p]
  /\ \A s \in Requests \ {r}, x \in Rows : lock[x] = s => lock'[x] = s

\* The others' slots, when the committed rows stay and r writes only its own.
LEMMA OthersOffers ==
  ASSUME TypeOK, OfferIInv, NEW r \in Requests, NEW s \in Requests, s # r, req'[s] = req[s],
         db' = db,
         \A x \in Rows : lock[x] = s => lock'[x] = s,
         \A p \in Offers : lock'[p] = s => lock[p] = s /\ dirty'[p] = dirty[p]
  PROVE  SlotOffers(s, req[s])'
<1>1. SlotOffers(s, req[s])
  BY OfferParts
<1>2. OfferRead(req[s])'
  BY <1>1 DEF SlotOffers, OfferRead, MayCancel
<1>3. OffersHeld(s, req[s])'
  BY <1>1 DEF SlotOffers, OffersHeld, CancelledBy, InsertedBy, AcceptedBy, MayCancel
<1>4. AcceptHolds(s, req[s])'
  <2>1. /\ req[s].op = "accept" => req[s].offer \in Rows /\ Own \in Rows
        /\ req[s].op = "accept" /\ req[s].pc \in OwningStages => req[s].target \in Rows
    BY AcceptNames, RowKinds DEF OwningStages
  <2>2. QED BY <1>1, <2>1 DEF SlotOffers, AcceptHolds
<1>5. QED BY <1>2, <1>3, <1>4 DEF SlotOffers

LEMMA AsideOffers ==
  ASSUME TypeOK, OfferIInv, NEW r \in Requests, OffersKept(r),
         NEW q, req' = [req EXCEPT ![r] = q], SlotOffers(r, req[r])'
  PROVE  OfferIInv'
<1>1. OfferRows'
  BY OfferParts DEF OfferRows, OffersKept, OnePendingOffer, PendingOfferIsOwners, InsertedAlone,
                    CleanOffers, OffersToOthers
<1>2. ASSUME NEW s \in Requests, s # r PROVE SlotOffers(s, req[s])'
  <2>1. req'[s] = req[s] BY <1>2 DEF TypeOK
  <2>2. QED BY <1>2, <2>1, OthersOffers DEF OffersKept
<1>3. QED BY <1>1, <1>2, OfferPartsNext

\* A step that writes no row at all.
LEMMA QuietOffers ==
  ASSUME TypeOK, OfferIInv, NEW r \in Requests, db' = db, dirty' = dirty, lock' = lock,
         NEW q, req' = [req EXCEPT ![r] = q], SlotOffers(r, q)
  PROVE  OfferIInv'
<1>1. req'[r] = q
  BY DEF TypeOK
<1>2. SlotOffers(r, req[r])'
  BY <1>1 DEF SlotOffers, OfferRead, MayCancel, OffersHeld, CancelledBy, InsertedBy, AcceptedBy,
              AcceptHolds
<1>3. QED BY <1>2, AsideOffers DEF OffersKept

LEMMA StutterOffers ==
  ASSUME OfferIInv, UNCHANGED <<rowVars, req>>
  PROVE  OfferIInv'
BY DEF OfferIInv, OnePendingOffer, PendingOfferIsOwners, InsertedAlone, OfferRead, MayCancel,
       OffersHeld, CancelledBy, InsertedBy, AcceptedBy, AcceptHolds, rowVars

\* Writing a membership, the ownership or the Organization.
LEMMA WriteAsideOffers ==
  ASSUME TypeOK, OfferIInv, NEW r \in Requests, NEW x \in Members \cup {Own, Org}, NEW v,
         Update(r, x, v), lock[x] \in {None, r}
  PROVE  OffersKept(r)
<1>1. x \in Rows /\ x \notin Offers /\ Offers \subseteq Rows
  BY RowKinds
<1>2. DOMAIN lock = Rows /\ DOMAIN dirty = Rows
  BY DEF TypeOK, RowsTyped
<1>3. QED BY <1>1, <1>2, RowKinds DEF Update, OffersKept

\* Writing a proposal nobody else holds.
LEMMA WriteOffer ==
  ASSUME TypeOK, OfferIInv, NEW r \in Requests, NEW p \in Offers, NEW v, Update(r, p, v),
         lock[p] \in {None, r}, OfferRows',
         NEW q, req' = [req EXCEPT ![r] = q], SlotOffers(r, req[r])'
  PROVE  OfferIInv'
<1>1. p \in Rows /\ Offers \subseteq Rows /\ DOMAIN lock = Rows /\ DOMAIN dirty = Rows
  BY RowKinds DEF TypeOK, RowsTyped
<1>2. ASSUME NEW s \in Requests, s # r PROVE SlotOffers(s, req[s])'
  <2>1. req'[s] = req[s] BY <1>2 DEF TypeOK
  <2>2. lock[p] # s BY <1>2, RowKinds
  <2>3. db' = db /\ (\A x \in Rows : lock[x] = s => lock'[x] = s)
        /\ \A o \in Offers : lock'[o] = s => lock[o] = s /\ dirty'[o] = dirty[o]
    BY <1>1, <1>2, <2>2 DEF Update
  <2>4. QED BY <1>2, <2>1, <2>3, OthersOffers
<1>3. QED BY <1>2, OfferPartsNext

\* Cancelling or accepting a PENDING proposal is no insertion.
LEMMA ResolveOffer ==
  ASSUME TypeOK, OfferIInv, NEW r \in Requests, NEW p \in Offers, NEW v, Update(r, p, v),
         lock[p] \in {None, r}, v.status # "PENDING"
  PROVE  OfferRows'
<1>1. p \in Rows /\ Offers \subseteq Rows /\ DOMAIN lock = Rows /\ DOMAIN dirty = Rows
  BY RowKinds DEF TypeOK, RowsTyped
<1>2. /\ db' = db /\ lock'[p] = r /\ dirty'[p] = v /\ r # None
      /\ \A o \in Offers : o # p => lock'[o] = lock[o] /\ dirty'[o] = dirty[o]
  BY <1>1, RowKinds DEF Update
<1>3. InsertedAlone'
  <2> SUFFICES ASSUME NEW a \in Offers, NEW o \in Offers, a # o, lock'[a] # None,
                      dirty'[a].status = "PENDING"
               PROVE  /\ dirty'[o].status # "PENDING"
                      /\ db'[o].status = "PENDING" => lock'[o] = lock'[a]
    BY DEF InsertedAlone
  <2>1. a # p /\ lock[a] # None /\ dirty[a].status = "PENDING" /\ lock'[a] = lock[a]
    BY <1>2
  <2>2. dirty[o].status # "PENDING" /\ (db[o].status = "PENDING" => lock[o] = lock[a])
    BY <2>1, OfferParts DEF OfferRows, InsertedAlone
  <2>3. QED BY <1>2, <2>1, <2>2
<1>4. OnePendingOffer' /\ PendingOfferIsOwners' /\ CleanOffers' /\ OffersToOthers'
  BY <1>2, OfferParts DEF OfferRows, OnePendingOffer, PendingOfferIsOwners, CleanOffers,
                          OffersToOthers
<1>5. QED BY <1>3, <1>4 DEF OfferRows

\* ROLLBACK gives up what r held, inserted proposals included.
LEMMA AbortOffers ==
  ASSUME TypeOK, OfferIInv, NEW r \in Requests, Abort(r)
  PROVE  OfferIInv'
<1>1. db' = db /\ RollbackRows(r) /\ req' = [req EXCEPT ![r] = Idle]
  BY DEF Abort, RollbackRows
<1>2. DOMAIN lock = Rows /\ DOMAIN dirty = Rows /\ Own \in Rows /\ Offers \subseteq Rows
  BY RowKinds DEF TypeOK, RowsTyped
<1>3. ASSUME NEW x \in Rows
      PROVE  /\ lock'[x] = IF lock[x] = r THEN None ELSE lock[x]
             /\ dirty'[x] = IF lock[x] = r THEN db[x] ELSE dirty[x]
  BY <1>1, <1>2, <1>3 DEF RollbackRows, Release
<1>4. InsertedAlone' /\ CleanOffers'
  BY <1>1, <1>2, <1>3, OfferParts DEF OfferRows, InsertedAlone, CleanOffers
<1>5. OnePendingOffer' /\ PendingOfferIsOwners' /\ OffersToOthers'
  BY <1>1, OfferParts DEF OfferRows, OnePendingOffer, PendingOfferIsOwners, OffersToOthers
<1>6. ASSUME NEW s \in Requests PROVE SlotOffers(s, req[s])'
  <2>1. CASE s = r
    <3>1. req'[s] = Idle BY <1>1, <2>1 DEF TypeOK
    <3>2. \A x \in Rows : lock'[x] # s BY <1>3, <2>1, RowKinds
    <3>3. Idle.op = None /\ Idle.pc = "idle" /\ None \notin AllOps
      BY GovernanceAssumption DEF Idle, GovernanceAssumption
    <3>4. QED BY <3>1, <3>2, <3>3, <1>2 DEF SlotOffers, OfferRead, OffersHeld, AcceptHolds,
                                            OwningStages
  <2>2. CASE s # r
    <3>1. req'[s] = req[s] BY <1>1, <2>2 DEF TypeOK
    <3>2. /\ \A x \in Rows : lock[x] = s => lock'[x] = s
          /\ \A p \in Offers : lock'[p] = s => lock[p] = s /\ dirty'[p] = dirty[p]
      BY <1>2, <1>3, <2>2, RowKinds
    <3>3. QED BY <1>1, <2>2, <3>1, <3>2, OthersOffers
  <2>3. QED BY <2>1, <2>2
<1>7. QED BY <1>4, <1>5, <1>6, OfferPartsNext DEF OfferRows

\* No commit changes the members a proposal names.
LEMMA OfferStays ==
  ASSUME TypeOK, OfferIInv, NEW r \in Requests, Commit(r), NEW p \in Offers,
         db[p].status # "ABSENT"
  PROVE  /\ db'[p].status # "ABSENT"
         /\ db'[p].proposer = db[p].proposer /\ db'[p].successor = db[p].successor
<1>1. p \in Rows /\ DOMAIN db = Rows /\ db[p] \in OfferRow
  BY RowKinds DEF TypeOK, RowsTyped
<1>2. db'[p] = IF lock[p] = r THEN dirty[p] ELSE db[p]
  BY <1>1 DEF Commit, CommitRows, See
<1>3. lock[p] = r => \/ dirty[p] = [db[p] EXCEPT !.status = "CANCELLED"]
                     \/ dirty[p] = [db[p] EXCEPT !.status = "ACCEPTED"]
  BY HeldOffer DEF CancelledBy, InsertedBy, AcceptedBy
<1>4. QED BY <1>1, <1>2, <1>3 DEF OfferRow

\* A transfer commits with its proposal and both owners in hand.
LEMMA TransferHolds ==
  ASSUME TypeOK, OwnerIInv, OfferIInv, NEW r \in Requests, req[r].pc = "commit", lock[Own] = r
  PROVE  /\ req[r].op = "accept" /\ req[r].offer \in Offers /\ lock[req[r].offer] = r
         /\ AcceptedBy(req[r], req[r].offer) /\ db[req[r].offer].status = "PENDING"
         /\ db[Own] = req[r].target /\ lock[db[Own]] = r /\ dirty[Own] = req[r].actor
<1>1. req[r].op = "accept" /\ dirty[Own] = req[r].actor
  BY OwnerParts DEF SlotSafe, OwnerSlot
<1>2. lock[req[r].offer] = r /\ db[Own] = req[r].target /\ lock[req[r].target] = r
  BY <1>1, OfferParts DEF SlotOffers, AcceptHolds, OwningStages
<1>3. req[r].offer \in Offers
  BY <1>1, AcceptNames
<1>4. AcceptedBy(req[r], req[r].offer)
  BY <1>1, <1>2, <1>3, HeldOffer DEF CancelledBy, InsertedBy, CancelOps
<1>5. db[req[r].offer].status = "PENDING"
  BY <1>4 DEF AcceptedBy
<1>6. QED BY <1>1, <1>2, <1>3, <1>4, <1>5

\* COMMIT: a proposal that becomes PENDING finds no other, and is its owner's;
\* when the ownership moves, the one PENDING proposal is the one accepted.
LEMMA CommitOfferRows ==
  ASSUME TypeOK, OwnerIInv, OfferIInv, NEW r \in Requests, Commit(r)
  PROVE  OfferRows'
<1> DEFINE q == req[r]
<1>1. q.pc = "commit" /\ OfferRows
  BY OfferParts DEF Commit, At
<1>2. Offers \subseteq Rows /\ Own \in Rows /\ DOMAIN lock = Rows /\ DOMAIN dirty = Rows
      /\ DOMAIN db = Rows
  BY RowKinds DEF TypeOK, RowsTyped
<1>3. ASSUME NEW x \in Rows
      PROVE  /\ db'[x] = IF lock[x] = r THEN dirty[x] ELSE db[x]
             /\ dirty'[x] = dirty[x]
             /\ lock'[x] = IF lock[x] = r THEN None ELSE lock[x]
  BY <1>2, <1>3 DEF Commit, CommitRows, See, Release
<1>4. ASSUME NEW p \in Offers, lock[p] = r, dirty[p].status = "PENDING"
      PROVE  InsertedBy(q, p)
  <2>1. db[p] \in OfferRow
    BY DEF TypeOK, RowsTyped
  <2>2. ~CancelledBy(q, p) /\ ~AcceptedBy(q, p)
    BY <1>4, <2>1 DEF CancelledBy, AcceptedBy, OfferRow
  <2>3. QED BY <1>4, <2>2, HeldOffer
<1>5. ASSUME NEW p \in Offers, db'[p].status = "PENDING"
      PROVE  \/ lock[p] = r /\ InsertedBy(q, p) /\ db'[p] = dirty[p]
             \/ lock[p] # r /\ db[p].status = "PENDING" /\ db'[p] = db[p]
  BY <1>2, <1>3, <1>4, <1>5
<1>6. OnePendingOffer'
  <2> SUFFICES ASSUME NEW p \in Offers, NEW o \in Offers, db'[p].status = "PENDING",
                      db'[o].status = "PENDING", p # o
               PROVE  FALSE
    BY DEF OnePendingOffer
  <2>1. ASSUME NEW a \in Offers, NEW b \in Offers, a # b, lock[a] = r, InsertedBy(q, a),
               db'[b].status = "PENDING"
        PROVE  FALSE
    <3>1. dirty[a].status = "PENDING" /\ lock[a] # None
      BY <2>1, RowKinds DEF InsertedBy
    <3>2. dirty[b].status # "PENDING" /\ (db[b].status = "PENDING" => lock[b] = r)
      BY <1>1, <2>1, <3>1 DEF OfferRows, InsertedAlone
    <3>3. QED BY <1>2, <1>3, <2>1, <3>2
  <2>2. QED BY <1>1, <1>5, <2>1 DEF OfferRows, OnePendingOffer
<1>7. PendingOfferIsOwners'
  <2> SUFFICES ASSUME NEW p \in Offers, db'[p].status = "PENDING"
               PROVE  db'[p].proposer = db'[Own]
    BY DEF PendingOfferIsOwners
  <2>1. CASE lock[Own] = r
    <3>1. q.op = "accept" /\ q.offer \in Offers /\ lock[q.offer] = r
          /\ db[q.offer].status = "PENDING"
      BY <1>1, <2>1, TransferHolds
    <3>2. ~InsertedBy(q, p)
      BY <3>1 DEF InsertedBy
    <3>3. QED BY <1>1, <1>5, <3>1, <3>2 DEF OfferRows, OnePendingOffer
  <2>2. CASE lock[Own] # r
    <3>1. db'[Own] = db[Own]
      BY <1>2, <1>3, <2>2
    <3>2. QED BY <1>1, <1>5, <3>1 DEF InsertedBy, OfferRows, PendingOfferIsOwners
  <2>3. QED BY <2>1, <2>2
<1>8. InsertedAlone'
  <2> SUFFICES ASSUME NEW a \in Offers, NEW o \in Offers, a # o, lock'[a] # None,
                      dirty'[a].status = "PENDING"
               PROVE  /\ dirty'[o].status # "PENDING"
                      /\ db'[o].status = "PENDING" => lock'[o] = lock'[a]
    BY DEF InsertedAlone
  <2>1. lock[a] # None /\ lock[a] # r /\ lock'[a] = lock[a] /\ dirty[a].status = "PENDING"
    BY <1>2, <1>3
  <2>2. dirty[o].status # "PENDING" /\ (db[o].status = "PENDING" => lock[o] = lock[a])
    BY <1>1, <2>1 DEF OfferRows, InsertedAlone
  <2>3. QED BY <1>2, <1>3, <2>1, <2>2
<1>9. CleanOffers' /\ OffersToOthers'
  BY <1>1, <1>2, <1>3, <1>5 DEF OfferRows, CleanOffers, OffersToOthers, InsertedBy
<1>10. QED BY <1>6, <1>7, <1>8, <1>9 DEF OfferRows

\* ... and whoever proposed or read before keeps what it has read, or a lower
\* epoch than its actor's.
LEMMA CommitOffers ==
  ASSUME TypeOK, OwnerIInv, OfferIInv, NEW r \in Requests, Commit(r)
  PROVE  OfferIInv'
<1>1. req[r].pc = "commit" /\ req' = [req EXCEPT ![r] = Idle]
  BY DEF Commit, At
<1>2. Offers \subseteq Rows /\ Members \subseteq Rows /\ Own \in Rows /\ DOMAIN lock = Rows
      /\ DOMAIN dirty = Rows /\ DOMAIN db = Rows
  BY RowKinds DEF TypeOK, RowsTyped
<1>3. ASSUME NEW x \in Rows
      PROVE  /\ db'[x] = IF lock[x] = r THEN dirty[x] ELSE db[x]
             /\ dirty'[x] = dirty[x]
             /\ lock'[x] = IF lock[x] = r THEN None ELSE lock[x]
  BY <1>2, <1>3 DEF Commit, CommitRows, See, Release
<1>4. ASSUME NEW s \in Requests, s # r PROVE SlotOffers(s, req[s])'
  <2> DEFINE q == req[s]
  <2>1. req'[s] = q /\ SlotOffers(s, q) /\ SlotSafe(s, q)
    BY <1>1, <1>4, OfferParts, OwnerParts DEF TypeOK
  <2>2. \A x \in Rows : /\ lock'[x] = s <=> lock[x] = s
                        /\ lock[x] = s => db'[x] = db[x] /\ dirty'[x] = dirty[x]
    BY <1>3, <1>4, RowKinds
  <2>3. /\ q.op = "propose" /\ q.pc \in {"target", "cancel", "cancelling", "insert", "recheck"} =>
             (q.epoch = db'[q.actor].epoch => db'[Own] = q.actor)
    <3> SUFFICES ASSUME q.op = "propose", q.epoch = db'[q.actor].epoch,
                        q.pc \in {"target", "cancel", "cancelling", "insert", "recheck"}
                 PROVE  db'[Own] = q.actor
      OBVIOUS
    <3>1. q.actor \in Members /\ q.epoch <= db[q.actor].epoch
      BY <2>1, AcceptNames DEF SlotSafe, AdmittedSlot, TenantOps, OwnerOps
    <3>2. q.epoch \in Nat /\ db[q.actor].epoch \in Nat
      BY <3>1 DEF TypeOK, Request, RowsTyped, MemberRow
    <3>3. lock[q.actor] # r
      <4>1. lock[q.actor] = r => dirty[q.actor].epoch = db[q.actor].epoch + 1
        BY <3>1, OwnerParts DEF SlotSafe, MemberSlot, PendingRow
      <4>2. QED BY <1>2, <1>3, <3>1, <3>2, <4>1
    <3>4. db[Own] = q.actor
      BY <1>2, <1>3, <2>1, <3>1, <3>3 DEF SlotOffers, OfferRead
    <3>5. lock[Own] # r
      BY <1>1, <3>3, <3>4, TransferHolds
    <3>6. QED BY <1>2, <1>3, <3>4, <3>5
  <2>4. q.pc \in {"successor", "ownerRow", "former", "acceptClaim"} => q.offer \in Offers
    BY AcceptNames DEF AcceptStages
  <2>5. q.pc = "cancelling" => q.todo \subseteq Offers
    BY DEF TypeOK, RequestShaped
  <2>6. OfferRead(req[s])'
    BY <2>1, <2>3, <2>4, <2>5, OfferStays DEF SlotOffers, OfferRead, MayCancel
  <2>7. OffersHeld(s, req[s])'
    <3> SUFFICES ASSUME NEW p \in Offers, lock[p] = s
                 PROVE  (CancelledBy(req[s], p) \/ InsertedBy(req[s], p) \/ AcceptedBy(req[s], p))'
      BY <1>2, <2>2 DEF OffersHeld
    <3>1. db'[p] = db[p] /\ dirty'[p] = dirty[p]
      BY <1>2, <2>2
    <3>2. CASE CancelledBy(q, p)
      BY <2>1, <3>1, <3>2 DEF CancelledBy, MayCancel
    <3>3. CASE InsertedBy(q, p)
      <4>1. lock[Own] # r
        <5> SUFFICES ASSUME lock[Own] = r PROVE FALSE
          OBVIOUS
        <5>1. req[r].offer \in Offers /\ lock[req[r].offer] = r
              /\ db[req[r].offer].status = "PENDING"
          BY <1>1, TransferHolds
        <5>2. dirty[p].status = "PENDING" /\ lock[p] # None /\ lock[p] # r
          BY <1>4, <3>3, RowKinds DEF InsertedBy
        <5>3. QED BY <5>1, <5>2, OfferParts DEF OfferRows, InsertedAlone
      <4>2. db'[Own] = db[Own]
        BY <1>2, <1>3, <4>1
      <4>3. QED BY <2>1, <3>1, <3>3, <4>2 DEF InsertedBy
    <3>4. CASE AcceptedBy(q, p)
      BY <2>1, <3>1, <3>4 DEF AcceptedBy
    <3>5. QED BY <3>2, <3>3, <3>4, HeldOffer
  <2>8. AcceptHolds(s, req[s])'
    <3>1. /\ q.op = "accept" => q.offer \in Rows
          /\ q.op = "accept" /\ q.pc \in OwningStages => q.target \in Rows
      BY <1>2, AcceptNames DEF OwningStages
    <3>2. QED BY <1>2, <2>1, <2>2, <3>1 DEF SlotOffers, AcceptHolds
  <2>9. QED BY <2>6, <2>7, <2>8 DEF SlotOffers
<1>5. SlotOffers(r, req[r])'
  <2>1. req'[r] = Idle
    BY <1>1 DEF TypeOK
  <2>2. \A x \in Rows : lock'[x] # r
    BY <1>3, RowKinds
  <2>3. Idle.op = None /\ Idle.pc = "idle" /\ None \notin AllOps
    BY GovernanceAssumption DEF Idle, GovernanceAssumption
  <2>4. QED BY <1>2, <2>1, <2>2, <2>3 DEF SlotOffers, OfferRead, OffersHeld, AcceptHolds,
                                          OwningStages
<1>6. QED BY <1>4, <1>5, CommitOfferRows, OfferPartsNext

-----------------------------------------------------------------------------
(***************************************************************************)
(* Admission and the reads before the first write to a proposal.           *)
(***************************************************************************)
EarlyStages == {"idle", "access", "owner", "target", "claim", "offer", "successor", "ownerRow",
                "former", "acceptClaim", "share", "orgRead", "orgOwner", "orgClaim", "bump"}

\* Until then a request holds no proposal; Platform requests hold none while
\* they bump memberships.
LEMMA HoldsNoOffer ==
  ASSUME OfferIInv, NEW r \in Requests, req[r].pc \in EarlyStages,
         req[r].pc = "bump" => req[r].op # "accept"
  PROVE  \A p \in Offers : lock[p] # r
<1> SUFFICES ASSUME NEW p \in Offers, lock[p] = r PROVE FALSE
  OBVIOUS
<1>1. CancelledBy(req[r], p) \/ InsertedBy(req[r], p) \/ AcceptedBy(req[r], p)
  BY HeldOffer
<1>2. QED BY <1>1 DEF CancelledBy, InsertedBy, AcceptedBy, EarlyStages, OwningStages

LEMMA ReaderOffers ==
  ASSUME NEW r, NEW q, \A p \in Offers : lock[p] # r, OfferRead(q),
         q.op = "accept" => q.pc \notin OwningStages \cup {"ownership"}
  PROVE  SlotOffers(r, q)
BY DEF SlotOffers, OffersHeld, AcceptHolds

\* A read that moves r on, before it holds a proposal.
LEMMA ReadStepOffers ==
  ASSUME TypeOK, OfferIInv, NEW r \in Requests, db' = db, dirty' = dirty, lock' = lock,
         req[r].pc \in EarlyStages \ {"bump"}, NEW q, req' = [req EXCEPT ![r] = q],
         OfferRead(q), q.op = "accept" => q.pc \notin OwningStages \cup {"ownership"}
  PROVE  OfferIInv'
<1>1. \A p \in Offers : lock[p] # r
  BY HoldsNoOffer
<1>2. QED BY <1>1, ReaderOffers, QuietOffers

LEMMA ArriveOffers ==
  ASSUME TypeOK, OfferIInv, NEW r \in Requests, Arrive(r)
  PROVE  OfferIInv'
<1>1. ASSUME NEW actor \in Members, NEW op \in Ops, Authenticate(r, actor, op) PROVE OfferIInv'
  <2>1. op \in AllOps /\ req[r].pc = "idle" /\ db' = db /\ dirty' = dirty /\ lock' = lock
    BY <1>1 DEF Authenticate, AllOps, At, rowVars
  <2>2. PICK call \in Calls(op) :
          req' = [req EXCEPT ![r] = [call EXCEPT !.pc = "access", !.actor = actor]]
    BY <1>1 DEF Authenticate
  <2> DEFINE q == [call EXCEPT !.pc = "access", !.actor = actor]
  <2>3. q.pc = "access"
    BY <2>1, CallsTyped DEF Request
  <2>4. OfferRead(q)
    BY <2>3 DEF OfferRead
  <2> HIDE DEF q
  <2>5. QED BY <2>1, <2>2, <2>3, <2>4, ReadStepOffers DEF q, EarlyStages, OwningStages
<1>2. ASSUME NEW op \in Ops, PlatformRequest(r, op) PROVE OfferIInv'
  <2> DEFINE stage == IF op = "changeAccess" THEN "orgRead" ELSE "share"
  <2>1. op \in AllOps /\ req[r].pc = "idle" /\ db' = db /\ dirty' = dirty /\ lock' = lock
    BY <1>2 DEF PlatformRequest, AllOps, At, rowVars
  <2>2. PICK call \in Calls(op) : req' = [req EXCEPT ![r] = [call EXCEPT !.pc = stage]]
    BY <1>2 DEF PlatformRequest
  <2> DEFINE q == [call EXCEPT !.pc = stage]
  <2>3. q.pc \in {"orgRead", "share"}
    BY <2>1, CallsTyped DEF Request
  <2>4. OfferRead(q)
    BY <2>3 DEF OfferRead
  <2> HIDE DEF q
  <2>5. QED BY <2>1, <2>2, <2>3, <2>4, ReadStepOffers DEF q, EarlyStages, OwningStages
<1>3. QED BY <1>1, <1>2 DEF Arrive

LEMMA ResolveAccessOffers ==
  ASSUME TypeOK, OfferIInv, NEW r \in Requests, ResolveAccess(r)
  PROVE  OfferIInv'
<1> DEFINE q == [req[r] EXCEPT !.pc = AfterAccess(req[r].op), !.epoch = db[req[r].actor].epoch]
<1>1. req[r] \in Request /\ req[r].pc = "access" /\ db' = db /\ dirty' = dirty /\ lock' = lock
  BY DEF ResolveAccess, TypeOK, At, rowVars
<1>2. CASE req' = [req EXCEPT ![r] = q]
  <2>1. q.op = req[r].op /\ q.pc = AfterAccess(req[r].op)
    BY <1>1 DEF Request
  <2>2. q.pc \in {"owner", "offer", "target"} /\ (q.op = "propose" => q.pc = "owner")
    BY <2>1 DEF AfterAccess, OwnerOps
  <2>3. OfferRead(q)
    BY <2>2 DEF OfferRead
  <2> HIDE DEF q
  <2>4. QED BY <1>1, <1>2, <2>2, <2>3, ReadStepOffers DEF EarlyStages, OwningStages
<1>3. CASE req' = [req EXCEPT ![r] = Idle]
  <2>1. OfferRead(Idle) /\ Idle.pc = "idle"
    BY DEF OfferRead, Idle
  <2>2. QED BY <1>1, <1>3, <2>1, ReadStepOffers DEF EarlyStages, OwningStages
<1>4. QED BY <1>2, <1>3 DEF ResolveAccess

\* The statements that only move on when a condition holds, and throw if not.
LEMMA ContinueOffers ==
  ASSUME TypeOK, OfferIInv, NEW r \in Requests, req[r].pc \in EarlyStages \ {"bump"},
         NEW stage, NEW ok, ContinueIf(ok, r, stage),
         ok => OfferRead([req[r] EXCEPT !.pc = stage]),
         stage \notin OwningStages \cup {"ownership"}
  PROVE  OfferIInv'
<1> DEFINE q == [req[r] EXCEPT !.pc = stage]
<1>1. CASE ok /\ Continue(r, stage)
  <2>1. req[r] \in Request
    BY DEF TypeOK
  <2>2. req' = [req EXCEPT ![r] = q] /\ db' = db /\ dirty' = dirty /\ lock' = lock
    BY <1>1 DEF Continue, Goto, TypeOK, rowVars
  <2>3. q.pc = stage
    BY <2>1 DEF Request
  <2>4. OfferRead(q)
    BY <1>1
  <2> HIDE DEF q
  <2>5. QED BY <2>2, <2>3, <2>4, ReadStepOffers
<1>2. CASE Abort(r)
  BY <1>2, AbortOffers
<1>3. QED BY <1>1, <1>2 DEF ContinueIf

\* A proposer is the owner when it asks.
LEMMA ReadOwnerOffers ==
  ASSUME TypeOK, OwnerIInv, OfferIInv, NEW r \in Requests, ReadOwner(r)
  PROVE  OfferIInv'
<1> DEFINE q == [req[r] EXCEPT !.pc = "target"]
<1>1. req[r] \in Request /\ req[r].pc = "owner"
  BY DEF ReadOwner, TypeOK, At
<1>2. q.pc = "target" /\ q.op = req[r].op /\ q.actor = req[r].actor
  BY <1>1 DEF Request
<1>3. See(r, Own) = db[Own]
  BY <1>1, HoldsNothing DEF See, HoldingStages, Roles
<1>4. See(r, Own) = req[r].actor => OfferRead(q)
  BY <1>2, <1>3 DEF OfferRead
<1>5. QED BY <1>1, <1>4, ContinueOffers DEF ReadOwner, EarlyStages, OwningStages

\* The reads of accept after that of the proposal, and the Platform's.
LEMMA AcceptReadsOffers ==
  ASSUME TypeOK, OfferIInv, NEW r \in Requests,
         ReadSuccessor(r) \/ ReadOwnerRow(r) \/ ReadFormerOwner(r) \/ ReadOrganizationOwner(r)
  PROVE  OfferIInv'
<1>1. req[r] \in Request /\ OfferRead(req[r])
  BY OfferParts DEF TypeOK, SlotOffers
<1>2. ASSUME NEW stage \in {"ownerRow", "former", "acceptClaim"},
             req[r].pc \in {"successor", "ownerRow", "former"}
      PROVE  OfferRead([req[r] EXCEPT !.pc = stage])
  <2>1. req[r].op = "accept"
    BY <1>2, AcceptNames DEF AcceptStages
  <2>2. QED BY <1>1, <1>2, <2>1 DEF OfferRead, Request
<1>3. OfferRead([req[r] EXCEPT !.pc = "orgClaim"])
  BY <1>1 DEF OfferRead, Request
<1>4. QED BY <1>2, <1>3, ContinueOffers DEF ReadSuccessor, ReadOwnerRow, ReadFormerOwner,
             ReadOrganizationOwner, At, EarlyStages, OwningStages

LEMMA ReadTargetOffers ==
  ASSUME TypeOK, OfferIInv, NEW r \in Requests, ReadTarget(r)
  PROVE  OfferIInv'
<1> DEFINE row == See(r, req[r].target)
           q == [req[r] EXCEPT !.pc = AfterTarget(req[r].op), !.seen = row]
<1>1. req[r] \in Request /\ req[r].pc = "target" /\ OfferRead(req[r])
  BY OfferParts DEF ReadTarget, TypeOK, At, SlotOffers
<1>2. CASE Eligible(r, row) /\ req' = [req EXCEPT ![r] = q] /\ UNCHANGED rowVars
  <2>1. q.op = req[r].op /\ q.actor = req[r].actor /\ q.epoch = req[r].epoch
        /\ q.target = req[r].target /\ q.pc = AfterTarget(req[r].op)
    BY <1>1 DEF Request
  <2>2. q.op = "propose" => q.target # q.actor
    BY <1>2, <2>1 DEF Eligible, ChangeOps
  <2>3. OfferRead(q) /\ q.pc \in {"cancel", "claim"}
    BY <1>1, <2>1, <2>2 DEF OfferRead, AfterTarget, CancelOps
  <2> HIDE DEF q
  <2>4. QED BY <1>1, <1>2, <2>3, ReadStepOffers DEF EarlyStages, OwningStages, rowVars
<1>3. CASE AlreadyThere(r, row) /\ Continue(r, "recheck")
  <2> DEFINE p == [req[r] EXCEPT !.pc = "recheck"]
  <2>1. p.pc = "recheck" /\ p.op = req[r].op /\ p.op \in ChangeOps
    BY <1>1, <1>3 DEF Request, AlreadyThere
  <2>2. OfferRead(p) /\ p.op # "accept"
    BY <2>1 DEF OfferRead, ChangeOps
  <2>3. req' = [req EXCEPT ![r] = p] /\ db' = db /\ dirty' = dirty /\ lock' = lock
    BY <1>3 DEF Continue, Goto, TypeOK, rowVars
  <2> HIDE DEF p
  <2>4. QED BY <1>1, <2>2, <2>3, ReadStepOffers DEF EarlyStages
<1>4. CASE Abort(r)
  BY <1>4, AbortOffers
<1>5. QED BY <1>2, <1>3, <1>4 DEF ReadTarget

\* From its first read on an accept knows the members its proposal names.
LEMMA ReadOfferOffers ==
  ASSUME TypeOK, OfferIInv, NEW r \in Requests, ReadOffer(r)
  PROVE  OfferIInv'
<1> DEFINE p == See(r, req[r].offer)
           q == [req[r] EXCEPT !.pc = "successor", !.target = p.proposer]
<1>1. req[r] \in Request /\ req[r].pc = "offer"
  BY DEF ReadOffer, TypeOK, At
<1>2. req[r].op = "accept" /\ req[r].offer \in Offers
  BY <1>1, AcceptNames DEF AcceptStages
<1>3. p = db[req[r].offer]
  BY <1>1, <1>2, HoldsNoOffer DEF See, EarlyStages
<1>4. CASE /\ p.status = "PENDING" /\ p.successor = req[r].actor
           /\ req' = [req EXCEPT ![r] = q] /\ UNCHANGED rowVars
  <2>1. q.op = "accept" /\ q.actor = req[r].actor /\ q.offer = req[r].offer
        /\ q.target = p.proposer /\ q.pc = "successor"
    BY <1>1, <1>2 DEF Request
  <2>2. OfferRead(q)
    BY <1>3, <1>4, <2>1 DEF OfferRead
  <2> HIDE DEF q
  <2>3. QED BY <1>1, <1>4, <2>1, <2>2, ReadStepOffers DEF EarlyStages, OwningStages, rowVars
<1>5. CASE Abort(r)
  BY <1>5, AbortOffers
<1>6. QED BY <1>4, <1>5 DEF ReadOffer

LEMMA PlatformReadsOffers ==
  ASSUME TypeOK, OfferIInv, NEW r \in Requests, ShareOrganization(r) \/ ReadOrganization(r)
  PROVE  OfferIInv'
<1>1. req[r] \in Request /\ RequestShaped(req[r])
  BY DEF TypeOK
<1>2. ASSUME NEW q, req' = [req EXCEPT ![r] = q], q.pc \in {"target", "orgOwner", "orgClaim"},
             q.op # "propose", req[r].pc \in {"share", "orgRead"},
             db' = db, dirty' = dirty, lock' = lock
      PROVE  OfferIInv'
  <2>1. OfferRead(q)
    BY <1>2 DEF OfferRead
  <2>2. QED BY <1>2, <2>1, ReadStepOffers DEF EarlyStages, OwningStages
<1>3. CASE ShareOrganization(r)
  <2> DEFINE q == [req[r] EXCEPT !.pc = "target"]
  <2>1. CASE LockShare(r, Org) /\ Goto(r, "target") /\ req[r].pc = "share"
    <3>1. q.pc = "target" /\ q.op # "propose" /\ req' = [req EXCEPT ![r] = q]
      BY <1>1, <2>1 DEF Request, RequestShaped, Goto, TypeOK
    <3> HIDE DEF q
    <3>2. QED BY <1>2, <2>1, <3>1 DEF LockShare
  <2>2. QED BY <1>3, <2>1, AbortOffers DEF ShareOrganization, At
<1>4. CASE ReadOrganization(r)
  <2> DEFINE q == [req[r] EXCEPT !.pc = IF req[r].status = "ACTIVE" THEN "orgOwner" ELSE "orgClaim",
                                 !.seen = See(r, Org)]
  <2>1. CASE req' = [req EXCEPT ![r] = q] /\ UNCHANGED rowVars /\ req[r].pc = "orgRead"
    <3>1. q.pc \in {"orgOwner", "orgClaim"} /\ q.op # "propose"
      BY <1>1, <2>1 DEF Request, RequestShaped, OrgStages
    <3> HIDE DEF q
    <3>2. QED BY <1>2, <2>1, <3>1 DEF rowVars
  <2>2. QED BY <1>4, <2>1, AbortOffers DEF ReadOrganization, At
<1>5. QED BY <1>3, <1>4

-----------------------------------------------------------------------------
(***************************************************************************)
(* Writes.                                                                 *)
(***************************************************************************)
\* The claim of a membership, before any proposal is held.
LEMMA ClaimTargetOffers ==
  ASSUME TypeOK, OfferIInv, NEW r \in Requests, ClaimTarget(r)
  PROVE  OfferIInv'
<1> DEFINE t == req[r].target
           v == Written(req[r], db[t])
           q == [req[r] EXCEPT !.pc = AfterClaim(req[r].op), !.had = SessionsSeen(req[r], t)]
<1>1. req[r] \in Request /\ req[r].pc = "claim" /\ RequestShaped(req[r])
  BY DEF ClaimTarget, TypeOK, At
<1>2. t \in Members /\ t \in Rows /\ req[r].op \in AllOps \ {"propose", "accept", "changeAccess"}
  BY <1>1, RowKinds DEF RequestShaped
<1>3. CASE ClaimMatches(r, db[t]) /\ Update(r, t, v) /\ req' = [req EXCEPT ![r] = q]
  <2>1. lock[t] \in {None, r}
    <3>1. Blockers(r) = Holders(r, t)
      BY <1>1, <1>3 DEF Blockers
    <3>2. QED BY <1>2, <3>1, OneHolder DEF ClaimTarget
  <2>2. req' = [req EXCEPT ![r] = q] /\ req'[r] = q
    BY <1>3 DEF TypeOK
  <2>3. q.op = req[r].op /\ q.pc \in {"cancel", "revoke"} /\ (q.pc = "cancel" => q.op \in CancelOps)
    BY <1>1 DEF Request, AfterClaim, CancelOps
  <2>4. OffersKept(r)
    BY <1>2, <1>3, <2>1, WriteAsideOffers
  <2>5. \A p \in Offers : lock'[p] # r
    BY <1>1, <2>4, HoldsNoOffer DEF OffersKept, EarlyStages
  <2> HIDE DEF q, v
  <2>6. SlotOffers(r, req[r])'
    BY <1>2, <2>2, <2>3, <2>5 DEF SlotOffers, OfferRead, OffersHeld, AcceptHolds
  <2>7. QED BY <2>2, <2>4, <2>6, AsideOffers
<1>4. CASE Abort(r)
  BY <1>4, AbortOffers
<1>5. QED BY <1>3, <1>4 DEF ClaimTarget

\* The cancelling UPDATE fixes the proposals that are PENDING when it starts.
LEMMA BeginCancelOffers ==
  ASSUME TypeOK, OfferIInv, NEW r \in Requests, BeginCancel(r)
  PROVE  OfferIInv'
<1> DEFINE stage == IF Cancellable(r) = {} THEN AfterCancel(req[r].op) ELSE "cancelling"
           q == [req[r] EXCEPT !.todo = Cancellable(r), !.pc = stage]
<1>1. req[r] \in Request /\ req[r].pc = "cancel" /\ SlotOffers(r, req[r])
  BY OfferParts DEF BeginCancel, TypeOK, At
<1>2. req' = [req EXCEPT ![r] = q] /\ db' = db /\ dirty' = dirty /\ lock' = lock
  BY DEF BeginCancel, TypeOK, rowVars
<1>3. /\ q.op = req[r].op /\ q.actor = req[r].actor /\ q.epoch = req[r].epoch
      /\ q.target = req[r].target /\ q.pc = stage /\ q.todo = Cancellable(r)
  BY <1>1 DEF Request
<1>4. q.op \in CancelOps
  BY <1>1, <1>3 DEF SlotOffers, OfferRead
<1>5. ASSUME NEW p \in Cancellable(r) PROVE p \in Offers /\ MayCancel(req[r], p)
  <2>1. p \in Offers /\ See(r, p).status = "PENDING"
        /\ (req[r].op \in {"propose", "changeAccess"} \/ See(r, p).successor = req[r].target)
    BY <1>5 DEF Cancellable
  <2>2. lock[p] = r => CancelledBy(req[r], p)
    BY <1>1, <2>1, HeldOffer DEF InsertedBy, AcceptedBy, OwningStages
  <2>3. lock[p] = r => dirty[p].status = "CANCELLED"
    BY <2>1, <2>2 DEF CancelledBy, TypeOK, RowsTyped, OfferRow
  <2>4. See(r, p) = db[p]
    BY <2>1, <2>3 DEF See
  <2>5. QED BY <2>1, <2>4 DEF MayCancel
<1>6. stage = "cancelling" \/ (stage = "insert" /\ q.op = "propose")
      \/ (stage = "check" /\ q.op = "changeAccess")
      \/ (stage = "revoke" /\ q.op \notin {"propose", "changeAccess"})
  BY <1>3 DEF AfterCancel
<1> HIDE DEF q, stage
<1>7. OfferRead(q)
  BY <1>1, <1>3, <1>4, <1>5, <1>6 DEF SlotOffers, OfferRead, MayCancel
<1>8. OffersHeld(r, q)
  BY <1>1, <1>3, <1>4, <1>6 DEF SlotOffers, OffersHeld, CancelledBy, InsertedBy, AcceptedBy,
                                MayCancel, OwningStages
<1>9. AcceptHolds(r, q)
  BY <1>4 DEF AcceptHolds, CancelOps
<1>10. QED BY <1>2, <1>7, <1>8, <1>9, QuietOffers DEF SlotOffers

\* Each row it reaches is cancelled if it still is PENDING.
LEMMA CancelOfferOffers ==
  ASSUME TypeOK, OfferIInv, NEW r \in Requests, NEW p \in Offers, CancelOffer(r, p)
  PROVE  OfferIInv'
<1> DEFINE left == req[r].todo \ {p}
           stage == IF left = {} THEN AfterCancel(req[r].op) ELSE req[r].pc
           q == [req[r] EXCEPT !.todo = left, !.pc = stage]
           v == [db[p] EXCEPT !.status = "CANCELLED"]
<1>1. req[r] \in Request /\ req[r].pc = "cancelling" /\ SlotOffers(r, req[r]) /\ p \in req[r].todo
      /\ RequestShaped(req[r])
  BY OfferParts DEF CancelOffer, TypeOK, At
<1>2. req' = [req EXCEPT ![r] = q] /\ req'[r] = q
  BY DEF CancelOffer, TypeOK
<1>3. /\ q.op = req[r].op /\ q.actor = req[r].actor /\ q.epoch = req[r].epoch
      /\ q.target = req[r].target /\ q.pc = stage /\ q.todo = left
  BY <1>1 DEF Request
<1>4. q.op \in CancelOps /\ MayCancel(req[r], p) /\ left \subseteq Offers
  BY <1>1, <1>3 DEF SlotOffers, OfferRead, RequestShaped
<1>5. stage = "cancelling" \/ (stage = "insert" /\ q.op = "propose")
      \/ (stage = "check" /\ q.op = "changeAccess")
      \/ (stage = "revoke" /\ q.op \notin {"propose", "changeAccess"})
  BY <1>1, <1>3 DEF AfterCancel
<1>6. p \in Rows /\ Offers \subseteq Rows /\ DOMAIN lock = Rows /\ DOMAIN dirty = Rows
  BY RowKinds DEF TypeOK, RowsTyped
<1>7. lock[p] \in {None, r}
  BY <1>6, OneHolder DEF CancelOffer
<1>8. db' = db
  BY DEF CancelOffer, Update, rowVars
<1> HIDE DEF q, stage
<1>9. OfferRead(req[r])'
  BY <1>1, <1>2, <1>3, <1>4, <1>5, <1>8 DEF SlotOffers, OfferRead, MayCancel
<1>10. AcceptHolds(r, req[r])'
  BY <1>2, <1>4 DEF AcceptHolds, CancelOps
<1>11. ASSUME NEW o \in Offers, lock[o] = r, dirty'[o] = dirty[o]
       PROVE  CancelledBy(req[r], o)'
  <2>1. CancelledBy(req[r], o)
    BY <1>1, <1>11, HeldOffer DEF InsertedBy, AcceptedBy, OwningStages
  <2>2. QED BY <1>2, <1>3, <1>5, <1>8, <1>11, <2>1 DEF CancelledBy, MayCancel
<1>12. CASE db[p].status = "PENDING" /\ Update(r, p, v)
  <2>1. dirty'[p] = v /\ \A o \in Offers : o # p => lock'[o] = lock[o] /\ dirty'[o] = dirty[o]
    BY <1>6, <1>12 DEF Update
  <2>2. CancelledBy(req[r], p)'
    BY <1>2, <1>3, <1>4, <1>5, <1>8, <1>12, <2>1 DEF CancelledBy, MayCancel
  <2>3. OffersHeld(r, req[r])'
    BY <1>11, <2>1, <2>2 DEF OffersHeld
  <2>4. v.status # "PENDING"
    BY DEF TypeOK, RowsTyped, OfferRow
  <2> HIDE DEF v
  <2>5. OfferRows'
    BY <1>7, <1>12, <2>4, ResolveOffer
  <2>6. QED BY <1>2, <1>7, <1>9, <1>10, <1>12, <2>3, <2>5, WriteOffer DEF SlotOffers
<1>13. CASE UNCHANGED rowVars
  <2>1. dirty' = dirty /\ lock' = lock
    BY <1>13 DEF rowVars
  <2>2. OffersHeld(r, req[r])'
    BY <1>11, <2>1 DEF OffersHeld
  <2>3. QED BY <1>2, <1>8, <1>9, <1>10, <2>1, <2>2, AsideOffers DEF SlotOffers, OffersKept
<1>14. QED BY <1>12, <1>13 DEF CancelOffer

\* The insert waits for whoever may be making another proposal PENDING or
\* taking one back, and finds none PENDING that it has not cancelled itself.
LEMMA InsertOfferOffers ==
  ASSUME TypeOK, OfferIInv, NEW r \in Requests, InsertOffer(r)
  PROVE  OfferIInv'
<1> DEFINE q == [req[r] EXCEPT !.pc = "recheck"]
           v == [status |-> "PENDING", proposer |-> req[r].actor, successor |-> req[r].target]
<1>1. req[r] \in Request /\ req[r].pc = "insert" /\ SlotOffers(r, req[r]) /\ OfferRows
  BY OfferParts DEF InsertOffer, TypeOK, At
<1>2. req[r].op = "propose"
  BY <1>1 DEF TypeOK, RequestShaped
<1>3. CASE /\ ~(\E p \in Offers : See(r, p).status = "PENDING")
           /\ FreshOffers # {} /\ Update(r, FreshOffer, v) /\ Goto(r, "recheck")
  <2>1. PICK f \in Offers : f = FreshOffer /\ db[f].status = "ABSENT" /\ lock[f] = None
    BY <1>3 DEF FreshOffer, FreshOffers
  <2>2. Offers \subseteq Rows /\ DOMAIN lock = Rows /\ DOMAIN dirty = Rows /\ r # None
    BY RowKinds DEF TypeOK, RowsTyped
  <2>3. req' = [req EXCEPT ![r] = q] /\ req'[r] = q
    BY <1>3 DEF Goto, TypeOK
  <2>4. q.op = req[r].op /\ q.actor = req[r].actor /\ q.epoch = req[r].epoch
        /\ q.target = req[r].target /\ q.pc = "recheck"
    BY <1>1 DEF Request
  <2>5. /\ db' = db /\ lock'[f] = r /\ dirty'[f] = v
        /\ \A o \in Offers : o # f => lock'[o] = lock[o] /\ dirty'[o] = dirty[o]
    BY <1>3, <2>1, <2>2 DEF Update
  <2>6. ASSUME NEW o \in Offers, "PENDING" \in {db[o].status, dirty[o].status}
        PROVE  lock[o] = r /\ dirty[o].status # "PENDING"
    <3>1. IndexHolders(r) = {}
      BY <1>1 DEF InsertOffer, Blockers
    <3>2. Holders(r, o) = {}
      BY <2>6, <3>1 DEF IndexHolders
    <3>3. lock[o] \in {None, r}
      BY <2>2, <3>2, OneHolder
    <3>4. lock[o] = None => dirty[o] = db[o]
      BY <1>1 DEF OfferRows, CleanOffers
    <3>5. See(r, o).status # "PENDING"
      BY <1>3
    <3>6. QED BY <2>2, <2>6, <3>3, <3>4, <3>5 DEF See
  <2>7. InsertedAlone'
    <3> SUFFICES ASSUME NEW a \in Offers, NEW o \in Offers, a # o, dirty'[a].status = "PENDING"
                 PROVE  /\ dirty'[o].status # "PENDING"
                        /\ db'[o].status = "PENDING" => lock'[o] = lock'[a]
      BY DEF InsertedAlone
    <3>1. a = f
      BY <2>5, <2>6
    <3>2. QED BY <2>5, <2>6, <3>1
  <2>8. OnePendingOffer' /\ PendingOfferIsOwners' /\ CleanOffers' /\ OffersToOthers'
    BY <1>1, <2>2, <2>5 DEF OfferRows, OnePendingOffer, PendingOfferIsOwners, CleanOffers,
                            OffersToOthers
  <2> HIDE DEF q, v
  <2>9. OfferRead(req[r])'
    BY <1>1, <1>2, <2>3, <2>4, <2>5 DEF SlotOffers, OfferRead, CancelOps
  <2>10. AcceptHolds(r, req[r])'
    BY <1>2, <2>3, <2>4 DEF AcceptHolds
  <2>11. InsertedBy(req[r], f)'
    <3>1. q.target # q.actor
      BY <1>1, <1>2, <2>4 DEF SlotOffers, OfferRead
    <3>2. QED BY <1>2, <2>1, <2>3, <2>4, <2>5, <3>1 DEF InsertedBy, v
  <2>12. ASSUME NEW o \in Offers, o # f, lock[o] = r
         PROVE  CancelledBy(req[r], o)'
    <3>1. CancelledBy(req[r], o)
      BY <1>1, <2>12, HeldOffer DEF InsertedBy, AcceptedBy, OwningStages
    <3>2. QED BY <2>3, <2>4, <2>5, <2>12, <3>1 DEF CancelledBy, MayCancel
  <2>13. OffersHeld(r, req[r])'
    BY <2>5, <2>11, <2>12 DEF OffersHeld
  <2>14. lock[f] \in {None, r} /\ Update(r, f, v)
    BY <1>3, <2>1 DEF v
  <2>15. QED BY <2>1, <2>3, <2>7, <2>8, <2>9, <2>10, <2>13, <2>14, WriteOffer
             DEF SlotOffers, OfferRows
<1>4. CASE Abort(r)
  BY <1>4, AbortOffers
<1>5. QED BY <1>3, <1>4 DEF InsertOffer

\* An accept takes its proposal while it is PENDING still.
LEMMA ClaimOfferOffers ==
  ASSUME TypeOK, OfferIInv, NEW r \in Requests, ClaimOffer(r)
  PROVE  OfferIInv'
<1> DEFINE p == req[r].offer
           v == [db[p] EXCEPT !.status = "ACCEPTED"]
           q == [req[r] EXCEPT !.pc = "ownership"]
<1>1. req[r] \in Request /\ req[r].pc = "acceptClaim" /\ SlotOffers(r, req[r])
  BY OfferParts DEF ClaimOffer, TypeOK, At
<1>2. req[r].op = "accept" /\ p \in Offers /\ db[p] \in OfferRow
  BY <1>1, AcceptNames DEF AcceptStages, TypeOK, RowsTyped
<1>3. CASE db[p].status = "PENDING" /\ Update(r, p, v) /\ Goto(r, "ownership")
  <2>1. p \in Rows /\ Offers \subseteq Rows /\ DOMAIN lock = Rows /\ DOMAIN dirty = Rows
    BY <1>2, RowKinds DEF TypeOK, RowsTyped
  <2>2. lock[p] \in {None, r}
    <3>1. Blockers(r) = Holders(r, p)
      BY <1>1, <1>3 DEF Blockers
    <3>2. QED BY <2>1, <3>1, OneHolder DEF ClaimOffer
  <2>3. req' = [req EXCEPT ![r] = q] /\ req'[r] = q
    BY <1>3 DEF Goto, TypeOK
  <2>4. q.op = "accept" /\ q.actor = req[r].actor /\ q.target = req[r].target
        /\ q.offer = p /\ q.pc = "ownership"
    BY <1>1, <1>2 DEF Request
  <2>5. db' = db /\ lock'[p] = r /\ dirty'[p] = v
        /\ \A o \in Offers : o # p => lock'[o] = lock[o]
    BY <1>2, <1>3, <2>1 DEF Update
  <2>6. db[p] = [status |-> "PENDING", proposer |-> q.target, successor |-> q.actor]
    BY <1>1, <1>2, <1>3, <2>4 DEF SlotOffers, OfferRead, OfferRow
  <2>7. v.status # "PENDING"
    BY <1>2 DEF OfferRow
  <2> DEFINE w == v
  <2>8. w = v /\ p = q.offer
    BY <2>4
  <2> HIDE DEF q, w
  <2>9. AcceptedBy(req[r], p)'
    <3>1. p' = p
      BY <2>3, <2>4
    <3>2. QED BY <2>3, <2>4, <2>5, <2>6, <3>1 DEF AcceptedBy
  <2>10. OffersHeld(r, req[r])'
    <3>1. \A o \in Offers : o # p => lock'[o] # r
      BY <1>1, <2>5, HoldsNoOffer DEF EarlyStages
    <3>2. p' = p
      BY <2>3, <2>4
    <3>3. QED BY <2>9, <3>1, <3>2 DEF OffersHeld
  <2>11. OfferRead(req[r])' /\ AcceptHolds(r, req[r])'
    BY <2>3, <2>4, <2>5 DEF OfferRead, AcceptHolds, OwningStages
  <2>12. OfferRows'
    BY <1>2, <1>3, <2>2, <2>7, <2>8, ResolveOffer
  <2>13. QED BY <1>2, <1>3, <2>2, <2>3, <2>10, <2>11, <2>12, WriteOffer DEF SlotOffers
<1>4. CASE Abort(r)
  BY <1>4, AbortOffers
<1>5. QED BY <1>3, <1>4 DEF ClaimOffer

\* ... and then the ownership, from the member the proposal comes from.
LEMMA ClaimOwnershipOffers ==
  ASSUME TypeOK, OfferIInv, NEW r \in Requests, ClaimOwnership(r)
  PROVE  OfferIInv'
<1> DEFINE q == [req[r] EXCEPT !.pc = "bump", !.todo = {req[r].target, req[r].actor}]
<1>1. req[r] \in Request /\ req[r].pc = "ownership" /\ SlotOffers(r, req[r])
  BY OfferParts DEF ClaimOwnership, TypeOK, At
<1>2. req[r].op = "accept" /\ req[r].offer \in Offers
  BY <1>1, AcceptNames DEF TypeOK, RequestShaped, AcceptStages
<1>3. CASE db[Own] = req[r].target /\ Update(r, Own, req[r].actor) /\ req' = [req EXCEPT ![r] = q]
  <2>1. lock[Own] \in {None, r}
    <3>1. Blockers(r) = Holders(r, Own)
      BY <1>1, <1>3 DEF Blockers
    <3>2. QED BY <3>1, OneHolder, RowKinds DEF ClaimOwnership
  <2>2. q.op = "accept" /\ q.actor = req[r].actor /\ q.target = req[r].target
        /\ q.offer = req[r].offer /\ q.pc = "bump" /\ q.target \in q.todo
    BY <1>1, <1>2 DEF Request
  <2>3. req'[r] = q
    BY <1>3 DEF TypeOK
  <2>4. OffersKept(r)
    BY <1>3, <2>1, WriteAsideOffers
  <2>5. db' = db /\ lock'[Own] = r
    BY <1>3, RowKinds DEF Update, TypeOK
  <2> HIDE DEF q
  <2>6. OfferRead(req[r])' /\ AcceptHolds(r, req[r])'
    BY <1>1, <1>2, <1>3, <2>2, <2>3, <2>4, <2>5 DEF SlotOffers, OfferRead, AcceptHolds, OffersKept,
                                                    OwningStages
  <2>7. ASSUME NEW p \in Offers, lock'[p] = r PROVE AcceptedBy(req[r], p)'
    <3>1. lock[p] = r /\ dirty'[p] = dirty[p] /\ db' = db
      BY <2>4, <2>7 DEF OffersKept
    <3>2. AcceptedBy(req[r], p)
      BY <1>1, <3>1, HeldOffer DEF CancelledBy, InsertedBy
    <3>3. QED BY <2>2, <2>3, <3>1, <3>2 DEF AcceptedBy, OwningStages
  <2>8. SlotOffers(r, req[r])'
    BY <2>6, <2>7 DEF SlotOffers, OffersHeld
  <2>9. QED BY <1>3, <2>4, <2>8, AsideOffers
<1>4. CASE Abort(r)
  BY <1>4, AbortOffers
<1>5. QED BY <1>3, <1>4 DEF ClaimOwnership

LEMMA BumpMemberOffers ==
  ASSUME TypeOK, OwnerIInv, OfferIInv, NEW r \in Requests, NEW m \in Members, BumpMember(r, m)
  PROVE  OfferIInv'
<1> DEFINE left == req[r].todo \ {m}
           stage == IF left = {} THEN "revoke" ELSE req[r].pc
           more == [req[r] EXCEPT !.todo = left, !.had = SessionsSeen(req[r], m)]
           q == IF left = {} THEN [more EXCEPT !.pc = "revoke"] ELSE more
           v == Bumped(See(r, m))
<1>1. req[r] \in Request /\ req[r].pc = "bump" /\ SlotOffers(r, req[r])
  BY OfferParts DEF BumpMember, TypeOK, At
<1>2. req[r].op \in {"accept", "changeAccess"}
  BY <1>1 DEF TypeOK, RequestShaped
<1>3. Update(r, m, v) /\ req' = [req EXCEPT ![r] = q] /\ req'[r] = q
  BY DEF BumpMember, TypeOK
<1>4. m \in Rows /\ Members \subseteq Rows /\ Own \in Rows /\ Own # m /\ DOMAIN lock = Rows
  BY RowKinds DEF TypeOK
<1>5. lock[m] \in {None, r}
  BY <1>4, OneHolder DEF BumpMember
<1>6. OffersKept(r)
  BY <1>3, <1>5, WriteAsideOffers
<1>7. db' = db /\ lock'[m] = r /\ \A x \in Rows : x # m => lock'[x] = lock[x]
  BY <1>3, <1>4 DEF Update
<1>8. q.op = req[r].op /\ q.actor = req[r].actor /\ q.target = req[r].target
      /\ q.offer = req[r].offer /\ q.pc = stage /\ q.todo = left
  BY <1>1 DEF Request
<1>9. stage \in {"bump", "revoke"} /\ (stage = "revoke" => left = {})
  BY <1>1
<1> HIDE DEF q, v, stage
<1>10. OfferRead(req[r])'
  BY <1>2, <1>3, <1>8, <1>9 DEF OfferRead
<1>11. AcceptHolds(r, req[r])'
  <2>1. CASE q.op = "accept"
    <3>1. req[r].offer \in Offers /\ req[r].target \in Rows
      BY <1>1, <1>4, <1>8, <2>1, AcceptNames
    <3>2. QED BY <1>1, <1>3, <1>4, <1>6, <1>7, <1>8, <1>9, <2>1, <3>1
              DEF SlotOffers, AcceptHolds, OffersKept, OwningStages
  <2>2. QED BY <1>3, <2>1 DEF AcceptHolds
<1>12. ASSUME NEW p \in Offers, lock'[p] = r PROVE AcceptedBy(req[r], p)'
  <2>1. lock[p] = r /\ dirty'[p] = dirty[p]
    BY <1>6, <1>12 DEF OffersKept
  <2>2. AcceptedBy(req[r], p)
    BY <1>1, <2>1, HeldOffer DEF CancelledBy, InsertedBy
  <2>3. QED BY <1>3, <1>7, <1>8, <1>9, <2>1, <2>2 DEF AcceptedBy, OwningStages
<1>13. SlotOffers(r, req[r])'
  BY <1>10, <1>11, <1>12 DEF SlotOffers, OffersHeld
<1>14. QED BY <1>3, <1>6, <1>13, AsideOffers

LEMMA ClaimOrganizationOffers ==
  ASSUME TypeOK, OfferIInv, NEW r \in Requests, ClaimOrganization(r)
  PROVE  OfferIInv'
<1> DEFINE on  == [req[r] EXCEPT !.pc = "check"]
           off == [req[r] EXCEPT !.pc = "bump", !.todo = Members]
<1>1. req[r] \in Request /\ req[r].pc = "orgClaim" /\ req[r].op = "changeAccess"
  BY DEF ClaimOrganization, TypeOK, At, RequestShaped, OrgStages
<1>2. ASSUME NEW v, Update(r, Org, v), NEW q \in {on, off}, req' = [req EXCEPT ![r] = q],
             Blockers(r) = {}, db[Org].version = req[r].version
      PROVE  OfferIInv'
  <2>1. lock[Org] \in {None, r}
    <3>1. Blockers(r) = Holders(r, Org)
      BY <1>1, <1>2 DEF Blockers
    <3>2. QED BY <1>2, <3>1, OneHolder, RowKinds
  <2>2. OffersKept(r)
    BY <1>2, <2>1, WriteAsideOffers
  <2>3. q.op = "changeAccess" /\ q.pc \in {"check", "bump"} /\ req'[r] = q
    BY <1>1, <1>2 DEF Request, TypeOK
  <2>4. \A p \in Offers : lock'[p] # r
    BY <1>1, <2>2, HoldsNoOffer DEF OffersKept, EarlyStages
  <2>5. SlotOffers(r, req[r])'
    BY <2>3, <2>4 DEF SlotOffers, OfferRead, OffersHeld, AcceptHolds
  <2>6. QED BY <1>2, <2>2, <2>5, AsideOffers
<1>3. CASE Abort(r)
  BY <1>3, AbortOffers
<1>4. QED BY <1>2, <1>3 DEF ClaimOrganization

-----------------------------------------------------------------------------
(***************************************************************************)
(* The end of a transaction.                                               *)
(***************************************************************************)
\* A statement of the last stages, which leaves the rows alone.
LEMMA EndingOffers ==
  ASSUME TypeOK, OfferIInv, NEW r \in Requests, db' = db, dirty' = dirty, lock' = lock, NEW q,
         req' = [req EXCEPT ![r] = q], EndsInTurn(req[r], q),
         q.op = req[r].op, q.actor = req[r].actor, q.target = req[r].target,
         q.offer = req[r].offer,
         q.pc = "cancel" => q.op = "changeAccess", q.pc = "recheck" => q.op # "propose",
         q.op = "propose" /\ req[r].pc = "recheck" => q.pc = "commit" /\ db[Own] = q.actor
  PROVE  OfferIInv'
<1>1. SlotOffers(r, req[r])
  BY OfferParts
<1>2. OfferRead(q)
  BY <1>1 DEF SlotOffers, OfferRead, EndsInTurn, CancelOps
<1>3. ASSUME NEW p \in Offers, lock[p] = r
      PROVE  CancelledBy(q, p) \/ InsertedBy(q, p) \/ AcceptedBy(q, p)
  <2>1. CASE CancelledBy(req[r], p)
    BY <2>1 DEF CancelledBy, MayCancel, EndsInTurn
  <2>2. CASE InsertedBy(req[r], p)
    BY <2>2 DEF InsertedBy, EndsInTurn
  <2>3. CASE AcceptedBy(req[r], p)
    BY <2>3 DEF AcceptedBy, EndsInTurn, OwningStages
  <2>4. QED BY <1>3, <2>1, <2>2, <2>3, HeldOffer
<1>4. AcceptHolds(r, q)
  BY <1>1 DEF SlotOffers, AcceptHolds, EndsInTurn, OwningStages
<1>5. QED BY <1>2, <1>3, <1>4, QuietOffers DEF SlotOffers, OffersHeld

LEMMA RevokeSessionsOffers ==
  ASSUME TypeOK, OfferIInv, NEW r \in Requests, RevokeSessions(r)
  PROVE  OfferIInv'
<1> DEFINE c == [m \in Members |-> IF m \in Affected(req[r]) THEN session[m] ELSE 0]
           q == [req[r] EXCEPT !.pc = AfterRevoke(req[r]), !.cut = c]
<1>1. req[r] \in Request /\ req[r].pc = "revoke" /\ req[r].op # "propose"
  BY OfferParts DEF RevokeSessions, TypeOK, At, SlotOffers, OfferRead
<1>2. req' = [req EXCEPT ![r] = q] /\ db' = db /\ dirty' = dirty /\ lock' = lock
  BY DEF RevokeSessions, rowVars
<1>3. q.op = req[r].op /\ q.actor = req[r].actor /\ q.target = req[r].target
      /\ q.offer = req[r].offer /\ q.pc = AfterRevoke(req[r])
  BY <1>1 DEF Request
<1>4. /\ AfterRevoke(req[r]) \in {"cancel", "recheck", "check"}
      /\ AfterRevoke(req[r]) = "cancel" => req[r].op = "changeAccess"
  BY DEF AfterRevoke
<1> HIDE DEF q
<1>5. EndsInTurn(req[r], q)
  BY <1>1, <1>3, <1>4 DEF EndsInTurn
<1>6. QED BY <1>1, <1>2, <1>3, <1>4, <1>5, EndingOffers

\* The recheck finds the epoch a proposer came with: it is the owner still.
LEMMA RecheckOffers ==
  ASSUME TypeOK, OwnerIInv, OfferIInv, NEW r \in Requests, Recheck(r)
  PROVE  OfferIInv'
<1> DEFINE stage == IF FiresTrigger(r) THEN "check" ELSE "commit"
           q == [req[r] EXCEPT !.pc = stage]
           me == See(r, req[r].actor)
<1>1. req[r] \in Request /\ req[r].pc = "recheck" /\ SlotSafe(r, req[r]) /\ SlotOffers(r, req[r])
  BY OwnerParts, OfferParts DEF Recheck, TypeOK, At
<1>2. CASE me.epoch = ExpectedEpoch(req[r]) /\ Continue(r, stage)
  <2>1. q.op = req[r].op /\ q.actor = req[r].actor /\ q.target = req[r].target
        /\ q.offer = req[r].offer /\ q.pc = stage
    BY <1>1 DEF Request
  <2>2. req' = [req EXCEPT ![r] = q] /\ db' = db /\ dirty' = dirty /\ lock' = lock
    BY <1>2 DEF Continue, Goto, TypeOK, rowVars
  <2>3. stage \in {"check", "commit"} /\ (req[r].op = "propose" => stage = "commit")
    BY DEF FiresTrigger
  <2>4. ASSUME req[r].op = "propose" PROVE db[Own] = req[r].actor
    <3>1. req[r].actor \in Members
      BY <2>4, AcceptNames
    <3>2. lock[req[r].actor] # r
      BY <1>1, <2>4, <3>1 DEF SlotSafe, MemberSlot, WriterOf
    <3>3. db[req[r].actor].epoch = req[r].epoch
      BY <1>2, <2>4, <3>2 DEF See, ExpectedEpoch
    <3>4. QED BY <1>1, <2>4, <3>3 DEF SlotOffers, OfferRead
  <2> HIDE DEF q, stage
  <2>5. EndsInTurn(req[r], q)
    BY <1>1, <2>1, <2>3 DEF EndsInTurn
  <2>6. QED BY <2>1, <2>2, <2>3, <2>4, <2>5, EndingOffers
<1>3. CASE Abort(r)
  BY <1>3, AbortOffers
<1>4. QED BY <1>2, <1>3 DEF Recheck, ContinueIf

LEMMA CheckOwnerOffers ==
  ASSUME TypeOK, OfferIInv, NEW r \in Requests, CheckOwner(r)
  PROVE  OfferIInv'
<1> DEFINE q == [req[r] EXCEPT !.pc = "commit"]
<1>1. req[r] \in Request /\ req[r].pc = "check"
  BY DEF CheckOwner, TypeOK, At
<1>2. CASE Continue(r, "commit")
  <2>1. q.op = req[r].op /\ q.actor = req[r].actor /\ q.target = req[r].target
        /\ q.offer = req[r].offer /\ q.pc = "commit"
    BY <1>1 DEF Request
  <2>2. req' = [req EXCEPT ![r] = q] /\ db' = db /\ dirty' = dirty /\ lock' = lock
    BY <1>2 DEF Continue, Goto, TypeOK, rowVars
  <2> HIDE DEF q
  <2>3. EndsInTurn(req[r], q)
    BY <1>1, <2>1 DEF EndsInTurn
  <2>4. QED BY <1>1, <2>1, <2>2, <2>3, EndingOffers
<1>3. CASE Abort(r)
  BY <1>3, AbortOffers
<1>4. QED BY <1>2, <1>3 DEF CheckOwner, ContinueIf

-----------------------------------------------------------------------------
(***************************************************************************)
(* The theorems.                                                           *)
(***************************************************************************)
LEMMA StatementOffers ==
  ASSUME TypeOK, OwnerIInv, OfferIInv, NEW r \in Requests, Statement(r)
  PROVE  OfferIInv'
BY ResolveAccessOffers, ReadOwnerOffers, AcceptReadsOffers, ReadTargetOffers, ReadOfferOffers,
   PlatformReadsOffers, ClaimTargetOffers, BeginCancelOffers, CancelOfferOffers,
   InsertOfferOffers, ClaimOfferOffers, ClaimOwnershipOffers, BumpMemberOffers,
   ClaimOrganizationOffers, RevokeSessionsOffers, RecheckOffers, CheckOwnerOffers, CommitOffers
   DEF Statement

LEMMA InitOffers == Init => OfferIInv
<1> SUFFICES ASSUME Init PROVE OfferIInv
  OBVIOUS
<1>1. PICK owner \in Members, successor \in Members, role \in [Members -> StartRoles], g \in Grants :
        /\ owner # successor /\ role[owner] = role[successor]
        /\ StartPending => role[successor] = <<"ACTIVE", "Administrator">>
        /\ InitRows([x \in Rows |-> StartRow(x, owner, role, g, successor)])
        /\ revoked = [m \in Members |-> StartEpoch(m, owner, role)]
  BY DEF Init
<1>2. Own \in Rows /\ Offers \subseteq Rows /\ Own # Org /\ Own \notin Offers
  BY RowKinds
<1>3. \A x \in Rows : lock[x] = None /\ db[x] = StartRow(x, owner, role, g, successor)
                      /\ dirty[x] = db[x]
  BY <1>1 DEF InitRows
<1>4. db[Own] = owner
  BY <1>2, <1>3 DEF StartRow
<1>5. ASSUME NEW p \in Offers
      PROVE  /\ lock[p] = None /\ dirty[p] = db[p]
             /\ db[p].status = "PENDING" => /\ p = StartOffer
                                            /\ db[p].proposer = owner /\ db[p].successor = successor
  <2>1. lock[p] = None /\ dirty[p] = db[p] /\ db[p] = StartRow(p, owner, role, g, successor)
    BY <1>2, <1>3
  <2>2. \/ db[p] = NoOffer
        \/ p = StartOffer
           /\ db[p] = [status |-> "PENDING", proposer |-> owner, successor |-> successor]
    <3>1. p # Org /\ p # Own /\ p \in Offers
      BY RowKinds
    <3>2. QED BY <2>1, <3>1 DEF StartRow
  <2>3. CASE db[p] = NoOffer
    <3>1. db[p].status = "ABSENT"
      BY <2>3 DEF NoOffer
    <3>2. QED BY <3>1, <2>1
  <2>4. CASE p = StartOffer
             /\ db[p] = [status |-> "PENDING", proposer |-> owner, successor |-> successor]
    BY <2>4, <2>1
  <2>5. QED BY <2>2, <2>3, <2>4
<1>6. OfferRows
  BY <1>1, <1>4, <1>5 DEF OfferRows, OnePendingOffer, PendingOfferIsOwners, InsertedAlone,
                          CleanOffers, OffersToOthers
<1>7. ASSUME NEW r \in Requests PROVE SlotOffers(r, req[r])
  <2>1. req[r].pc = "idle"
    BY DEF Init, Idle
  <2>2. QED BY <1>5, <2>1, RowKinds DEF SlotOffers, OfferRead, OffersHeld, AcceptHolds, OwningStages
<1>8. QED BY <1>6, <1>7, OfferParts

LEMMA NextOffers == TypeOK /\ OwnerIInv /\ OfferIInv /\ [Next]_vars => OfferIInv'
<1> SUFFICES ASSUME TypeOK, OwnerIInv, OfferIInv, [Next]_vars PROVE OfferIInv'
  OBVIOUS
<1>1. ASSUME NEW r \in Requests, Arrive(r) \/ Statement(r) \/ Fail(r) \/ DeadlockVictim(r)
      PROVE  OfferIInv'
  BY <1>1, ArriveOffers, StatementOffers, AbortOffers DEF Fail, DeadlockVictim
<1>2. ASSUME NEW m \in Members, Login(m) PROVE OfferIInv'
  BY <1>2, StutterOffers DEF Login
<1>3. ASSUME NEW p \in Offers, ExpireOffer(p) PROVE OfferIInv'
  BY <1>3, StutterOffers DEF ExpireOffer
<1>4. CASE UNCHANGED vars
  BY <1>4, StutterOffers DEF vars
<1>5. QED BY <1>1, <1>2, <1>3, <1>4 DEF Next, Quiescent

\* The strengthened invariant: what a request has read of the ownership and of
\* proposals, and which of the three uncommitted values each proposal has.
THEOREM OfferInvariant == Spec => []OfferIInv
<1>1. Init /\ [][Next]_vars => []TypeOK
  BY TypeCorrect DEF Spec
<1>2. Init /\ [][Next]_vars => []OwnerIInv
  BY OwnerInvariant DEF Spec
<1>3. QED BY <1>1, <1>2, InitOffers, NextOffers, PTL DEF Spec

\* However inserts, cancellations and acceptances interleave, no two committed
\* proposals are PENDING (the insert of ownership.service.ts under the partial
\* unique index, and the cancelling UPDATE before it).
THEOREM OneProposal == Spec => []OnePendingOffer
<1>1. OfferIInv => OnePendingOffer
  BY DEF OfferIInv
<1>2. QED BY <1>1, OfferInvariant, PTL

\* A PENDING proposal is always one of the current owner: a proposal written
\* while the ownership was passing on does not survive the epoch recheck.
THEOREM ProposalIsOwners == Spec => []PendingOfferIsOwners
<1>1. OfferIInv => PendingOfferIsOwners
  BY DEF OfferIInv
<1>2. QED BY <1>1, OfferInvariant, PTL

\* What a step makes of a committed proposal.
LEMMA OfferSteps ==
  ASSUME TypeOK, OfferIInv, [Next]_vars, NEW p \in Offers, db'[p] # db[p]
  PROVE  \E r \in Requests :
           /\ Commit(r) /\ lock[p] = r /\ db'[p] = dirty[p]
           /\ CancelledBy(req[r], p) \/ InsertedBy(req[r], p) \/ AcceptedBy(req[r], p)
<1>1. PICK r \in Requests : Commit(r)
  BY OnlyCommitWrites
<1>2. p \in Rows /\ DOMAIN db = Rows
  BY RowKinds DEF TypeOK, RowsTyped
<1>3. lock[p] = r /\ db'[p] = dirty[p]
  BY <1>1, <1>2 DEF Commit, CommitRows, See
<1>4. QED BY <1>1, <1>3, HeldOffer

\* A resolved proposal is never written again: no second accept, no late
\* cancellation (the status each claim and UPDATE asks for).
THEOREM ResolvedForGood == Spec => OfferResolvedOnce
<1>1. TypeOK /\ OfferIInv /\ [Next]_vars =>
        [\A p \in Offers : db[p].status \in {"CANCELLED", "ACCEPTED"} => db'[p] = db[p]]_vars
  <2> SUFFICES ASSUME TypeOK, OfferIInv, [Next]_vars, NEW p \in Offers,
                      db[p].status \in {"CANCELLED", "ACCEPTED"}, db'[p] # db[p]
               PROVE  FALSE
    OBVIOUS
  <2>1. PICK r \in Requests : CancelledBy(req[r], p) \/ InsertedBy(req[r], p) \/ AcceptedBy(req[r], p)
    BY OfferSteps
  <2>2. QED BY <2>1 DEF CancelledBy, InsertedBy, AcceptedBy
<1>2. QED BY <1>1, TypeCorrect, OfferInvariant, PTL DEF Spec, OfferResolvedOnce

\* The commit that moves the ownership accepts the proposal that names both.
LEMMA MoveAccepts ==
  ASSUME TypeOK, OwnerIInv, OfferIInv, [Next]_vars, db'[Own] # db[Own]
  PROVE  \E p \in Offers :
           /\ db[p] = [status |-> "PENDING", proposer |-> db[Own], successor |-> db'[Own]]
           /\ db'[p] = [db[p] EXCEPT !.status = "ACCEPTED"]
<1>1. PICK r \in Requests : Commit(r)
  BY OnlyCommitWrites
<1>2. Own \in Rows /\ Offers \subseteq Rows /\ DOMAIN db = Rows /\ req[r].pc = "commit"
  BY <1>1, RowKinds DEF TypeOK, RowsTyped, Commit, At
<1>3. \A x \in Rows : db'[x] = IF lock[x] = r THEN dirty[x] ELSE db[x]
  BY <1>1, <1>2 DEF Commit, CommitRows, See
<1>4. lock[Own] = r /\ db'[Own] = dirty[Own]
  BY <1>2, <1>3
<1>5. /\ req[r].offer \in Offers /\ lock[req[r].offer] = r /\ AcceptedBy(req[r], req[r].offer)
      /\ db[Own] = req[r].target /\ db'[Own] = req[r].actor
  BY <1>2, <1>4, TransferHolds
<1>6. db'[req[r].offer] = dirty[req[r].offer]
  BY <1>2, <1>3, <1>5
<1>7. QED BY <1>5, <1>6 DEF AcceptedBy

\* The commit that accepts a proposal moves the ownership it offered.
LEMMA AcceptMoves ==
  ASSUME TypeOK, OwnerIInv, OfferIInv, [Next]_vars, NEW p \in Offers, NEW o, NEW s,
         db[p] = [status |-> "PENDING", proposer |-> o, successor |-> s],
         db'[p] = [db[p] EXCEPT !.status = "ACCEPTED"]
  PROVE  db[Own] = o /\ db'[Own] = s /\ o # s
<1>1. db'[p].status = "ACCEPTED" /\ db[p].status = "PENDING"
  OBVIOUS
<1>2. PICK r \in Requests :
        /\ Commit(r) /\ lock[p] = r /\ db'[p] = dirty[p]
        /\ CancelledBy(req[r], p) \/ InsertedBy(req[r], p) \/ AcceptedBy(req[r], p)
  BY <1>1, OfferSteps
<1>3. dirty[p].status = "ACCEPTED"
  BY <1>1, <1>2
<1>4. AcceptedBy(req[r], p)
  <2>1. db[p] \in OfferRow
    BY DEF TypeOK, RowsTyped
  <2>2. QED BY <1>2, <1>3, <2>1 DEF CancelledBy, InsertedBy, OfferRow
<1>5. req[r].pc = "commit" /\ req[r].op = "accept" /\ req[r].target = o /\ req[r].actor = s
  BY <1>2, <1>4 DEF AcceptedBy, Commit, At
<1>6. lock[Own] = r /\ db[Own] = o
  BY <1>5, OfferParts DEF SlotOffers, AcceptHolds, OwningStages
<1>7. dirty[Own] = s
  BY <1>5, <1>6, OwnerParts DEF SlotSafe, OwnerSlot
<1>8. db'[Own] = s
  BY <1>2, <1>6, <1>7, RowKinds DEF Commit, CommitRows, See, TypeOK, RowsTyped
<1>9. o # s
  BY <1>1, OfferParts DEF OfferRows, OffersToOthers
<1>10. QED BY <1>6, <1>8, <1>9

\* Ownership moves if and only if a PENDING proposal is accepted in the same
\* commit, from its proposer to its successor (accept of ownership.service.ts).
THEOREM TransfersAreAcceptances == Spec => TransferByAcceptance
<1>1. TypeOK /\ OwnerIInv /\ OfferIInv /\ [Next]_vars =>
        [\A o, s \in Members :
           (db[Own] = o /\ db'[Own] = s /\ o # s) <=>
           (\E p \in Offers : /\ db[p] = [status |-> "PENDING", proposer |-> o, successor |-> s]
                              /\ db'[p] = [db[p] EXCEPT !.status = "ACCEPTED"])]_vars
  <2> SUFFICES ASSUME TypeOK, OwnerIInv, OfferIInv, [Next]_vars, NEW o \in Members, NEW s \in Members
               PROVE  (db[Own] = o /\ db'[Own] = s /\ o # s) <=>
                      (\E p \in Offers :
                         /\ db[p] = [status |-> "PENDING", proposer |-> o, successor |-> s]
                         /\ db'[p] = [db[p] EXCEPT !.status = "ACCEPTED"])
    OBVIOUS
  <2>1. ASSUME db[Own] = o, db'[Own] = s, o # s
        PROVE  \E p \in Offers :
                 /\ db[p] = [status |-> "PENDING", proposer |-> o, successor |-> s]
                 /\ db'[p] = [db[p] EXCEPT !.status = "ACCEPTED"]
    <3>1. db'[Own] # db[Own]
      BY <2>1
    <3>2. QED BY <2>1, <3>1, MoveAccepts
  <2>2. ASSUME NEW p \in Offers,
               db[p] = [status |-> "PENDING", proposer |-> o, successor |-> s],
               db'[p] = [db[p] EXCEPT !.status = "ACCEPTED"]
        PROVE  db[Own] = o /\ db'[Own] = s /\ o # s
    BY <2>2, AcceptMoves
  <2>3. QED BY <2>1, <2>2
<1>2. QED BY <1>1, TypeCorrect, OwnerInvariant, OfferInvariant, PTL DEF Spec, TransferByAcceptance
=============================================================================
