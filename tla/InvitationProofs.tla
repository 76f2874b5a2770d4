-------------------------- MODULE InvitationProofs --------------------------
(***************************************************************************)
(* Proofs about provisioning and invitations: the lock of the Organization, *)
(* the partial unique index and the conditional UPDATEs keep               *)
(* InvitationIInv, and with it every commit is one step of InvitationBook. *)
(***************************************************************************)
EXTENDS Invitations, FiniteSetTheorems, TLAPS

\* What InvitationIInv says of the rows, of one request slot, and the rest.
RowsSafe ==
  /\ RowsTyped(db) /\ RowsTyped(dirty) /\ lock \in [Rows -> Requests \cup {None}]
  /\ CleanUnlocked /\ OneAwaits
  /\ \A i \in Invites : Addressed(db[i]) /\ Addressed(dirty[i])

SlotSafe(r, q) ==
  /\ RequestShaped(q) /\ Knows(r, q) /\ HoldsInvitations(r, q) /\ HoldsMembers(r, q)
  /\ HoldsOrganization(r, q)
  /\ q.pc = "idle" => \A x \in Rows : lock[x] # r

Around ==
  /\ share \in [Rows -> SUBSET Requests] /\ req \in [Requests -> Request]
  /\ advisory \in [People -> Requests \cup {None}]
  /\ expired \subseteq Invites /\ begun \in Nat

LEMMA Parts ==
  InvitationIInv <=> /\ RowsSafe /\ Around /\ OwnerRows /\ NothingYet /\ RoomLeft
                     /\ \A r \in Requests : SlotSafe(r, req[r])
BY DEF InvitationIInv, TypeOK, RowsSafe, SlotSafe, Around, At

LEMMA PartsNext ==
  ASSUME RowsSafe', Around', OwnerRows', NothingYet', RoomLeft',
         \A r \in Requests : SlotSafe(r, req[r])'
  PROVE  InvitationIInv'
BY DEF InvitationIInv, TypeOK, RowsSafe, SlotSafe, Around, At

-----------------------------------------------------------------------------
(***************************************************************************)
(* Rows and slots.                                                         *)
(***************************************************************************)
LEMMA RowKinds ==
  /\ People \subseteq Rows /\ Invites \subseteq Rows /\ Own \in Rows /\ Org \in Rows
  /\ \A p \in People : p \notin Invites /\ p # Own /\ p # Org /\ p # None
  /\ \A i \in Invites : i \notin People /\ i # Own /\ i # Org /\ i # None
  /\ Own # Org /\ \A x \in Rows : x \in People \cup Invites \/ x = Own \/ x = Org
  /\ None \notin Requests /\ None \notin AllOps /\ None \notin Kinds
BY InvitationAssumption DEF InvitationAssumption, Rows

LEMMA IdleFields ==
  /\ Idle.pc = "idle" /\ Idle.op = None /\ Idle.actor = None /\ Idle.epoch = 0
  /\ Idle.person = None /\ Idle.invite = None /\ Idle.found = None /\ Idle.version = 0
  /\ Idle.seen = None /\ Idle.todo = {} /\ Idle \in Request
BY DEF Idle, Request, Stages

LEMMA OpSets ==
  /\ \A op \in TenantOps : op \in {"invite", "resend", "revoke", "suspend", "reactivate", "remove"}
  /\ \A op \in JoinOps : op \in {"accept", "acceptExisting"}
  /\ \A op \in OwnerOps : op \in {"ownerAccept", "ownerAcceptExisting"}
  /\ \A op \in PlatformOps : op \in {"ownerResend", "disable"}
  /\ None \notin TenantOps /\ None \notin JoinOps /\ None \notin OwnerOps /\ None \notin PlatformOps
  /\ None \notin {"invite", "resend", "revoke", "suspend", "reactivate", "remove", "accept",
                  "acceptExisting", "ownerAccept", "ownerAcceptExisting", "ownerResend", "disable"}
BY RowKinds DEF AllOps, TenantOps, JoinOps, OwnerOps, PlatformOps

\* Which operation is at which statement.
LEMMA Stagings ==
  ASSUME NEW q, q.op \in AllOps \cup {None}, q.pc \in StageOf(q.op)
  PROVE  /\ q.op \in AllOps <=> q.pc # "idle"
         /\ q.pc = "idle" <=> q.op = None
         /\ q.pc \in {"advisory", "existing"} => q.op \in {"invite", "resend"}
         /\ q.pc = "read" => q.op = "resend"
         /\ q.pc = "claim" => q.op = "revoke"
         /\ q.pc \in {"replace", "insert"} => q.op \in {"invite", "resend", "ownerResend"}
         /\ q.pc = "recheck" => q.op \in TenantOps
         /\ q.pc \in {"member", "claimMember"} => q.op \in {"suspend", "reactivate", "remove"}
         /\ q.pc = "find" => q.op \in JoinOps
         /\ q.pc \in {"ownerFind", "provisioning", "own", "activate"} => q.op \in OwnerOps
         /\ q.pc \in {"identity", "membership", "consume", "join"} => q.op \in JoinOps \cup OwnerOps
         /\ q.pc \in {"lockOrg", "previous"} => q.op = "ownerResend"
         /\ q.pc \in {"readOrg", "members", "bump", "open", "close"} => q.op = "disable"
         /\ q.pc = "claimOrg" => q.op \in {"ownerResend", "disable"}
<1>1. CASE q.op = None
  <2>1. q.pc = "idle"
    BY <1>1, OpSets DEF StageOf
  <2>2. QED BY <1>1, <2>1, RowKinds
<1>2. CASE q.op \in {"invite", "resend", "revoke", "suspend", "reactivate", "remove"}
  BY <1>2, OpSets DEF StageOf, AllOps, TenantOps, JoinOps, OwnerOps, PlatformOps
<1>3. CASE q.op \in {"accept", "acceptExisting", "ownerAccept", "ownerAcceptExisting"}
  BY <1>3, OpSets DEF StageOf, AllOps, TenantOps, JoinOps, OwnerOps, PlatformOps
<1>4. CASE q.op \in {"ownerResend", "disable"}
  BY <1>4, OpSets DEF StageOf, AllOps, TenantOps, JoinOps, OwnerOps, PlatformOps
<1>5. QED BY <1>1, <1>2, <1>3, <1>4 DEF AllOps, TenantOps, JoinOps, OwnerOps, PlatformOps

LEMMA SlotStaging ==
  ASSUME Around, NEW r \in Requests, SlotSafe(r, req[r])
  PROVE  req[r].op \in AllOps \cup {None} /\ req[r].pc \in StageOf(req[r].op) /\ req[r] \in Request
BY DEF Around, SlotSafe, Knows, Request

\* A locked invitation is issued, or will be.
LEMMA LockedIssued ==
  ASSUME RowsSafe, NEW r, NEW q, SlotSafe(r, q), NEW i \in Invites, lock[i] = r
  PROVE  Issued(dirty[i])
<1>1. db[i] \in InviteRow
  BY DEF RowsSafe, RowsTyped
<1>2. QED BY <1>1 DEF SlotSafe, HoldsInvitations, Ends, Consumes, Inserts, Live, Issued, InviteRow

-----------------------------------------------------------------------------
(***************************************************************************)
(* The kinds of steps.                                                     *)
(***************************************************************************)
\* What no commit undoes: who an invitation is for, and that somebody is a member.
Lasting ==
  /\ \A i \in Invites : Issued(db[i]) => db'[i].kind = db[i].kind /\ db'[i].email = db[i].email
  /\ \A p \in People : db[p].status # "NONE" => db'[p].status # "NONE"

LEMMA OthersKept ==
  ASSUME InvitationIInv, NEW s \in Requests, req'[s] = req[s], Lasting,
         \A x \in Rows : lock'[x] = s <=> lock[x] = s,
         \A x \in Rows : lock[x] = s => dirty'[x] = dirty[x] /\ db'[x] = db[x],
         lock[Org] = s => OpenOwner' \subseteq OpenOwner
  PROVE  SlotSafe(s, req[s])'
<1>1. SlotSafe(s, req[s]) /\ Around
  BY Parts
<1>2. PICK q : q = req[s]
  OBVIOUS
<1>3. SlotSafe(s, q) /\ q \in Request /\ q.op \in AllOps \cup {None} /\ q.pc \in StageOf(q.op)
  BY <1>1, <1>2, SlotStaging
<1>4. Knows(s, q)'
  <2>1. /\ q.op \in {"resend", "revoke"} \cup JoinOps \cup OwnerOps => q.invite \in Invites
        /\ q.found # None => q.found \in Invites
        /\ q.pc = "claimMember" => q.person \in People
        /\ q.pc = "bump" => q.todo \subseteq People
        /\ q.pc = "close" => q.todo \subseteq Invites
    BY <1>3, Stagings DEF SlotSafe, RequestShaped, Request, AllOps, TenantOps, PlatformOps
  <2>2. /\ q.op = "ownerResend" /\ q.pc \in {"replace", "insert", "claimOrg", "commit"} =>
             lock[Org] = s
        /\ q.op = "disable" /\ q.pc \in {"close", "commit"} => lock[Org] = s
    BY <1>3 DEF SlotSafe, HoldsOrganization
  <2>3. OpenOwner \subseteq Invites
    BY DEF OpenOwner
  <2>4. Knows(s, q)
    BY <1>3 DEF SlotSafe
  <2>5. Kinds = {"INITIAL_OWNER", "COLLABORATOR"} /\ "INITIAL_OWNER" # None
        /\ "COLLABORATOR" # None
    BY RowKinds DEF Kinds
  <2>6. \A i \in Invites : db[i].kind \in {"INITIAL_OWNER", "COLLABORATOR"} => Issued(db[i])
    BY <2>5 DEF Issued
  <2>7. \A i \in Invites : Issued(db[i]) => Issued(db'[i])
    BY DEF Issued, Lasting
  <2>8. /\ q.op \in {"resend", "revoke"} \cup JoinOps =>
             db'[q.invite].kind = "COLLABORATOR" /\ db'[q.invite].email = q.person
        /\ q.op \in OwnerOps => db'[q.invite].kind = "INITIAL_OWNER"
                                /\ db'[q.invite].email = q.person
    BY <2>1, <2>4, <2>6 DEF Knows, Lasting
  <2>9. /\ q.found # None => Issued(db'[q.found])
        /\ q.pc = "claimMember" => db'[q.person].status # "NONE"
        /\ q.pc = "bump" => \A p \in q.todo : db'[p].status # "NONE"
        /\ q.pc = "close" => \A i \in q.todo : Issued(db'[i])
    BY <2>1, <2>4, <2>7 DEF Knows, Lasting
  <2>10. /\ q.op = "ownerResend" /\ q.pc \in {"replace", "insert", "claimOrg", "commit"} =>
              OpenOwner' \subseteq {q.found}
         /\ q.op = "disable" /\ q.pc \in {"close", "commit"} =>
              \A i \in OpenOwner' : lock'[i] = s \/ (q.pc = "close" /\ i \in q.todo)
    BY <2>2, <2>3, <2>4, RowKinds DEF Knows
  <2>11. QED BY <2>4, <2>8, <2>9, <2>10 DEF Knows
<1>5. HoldsInvitations(s, q)'
  <2>1. \A i \in Invites : lock[i] = s => /\ Ends(q, i)' <=> Ends(q, i)
                                          /\ Consumes(q, i)' <=> Consumes(q, i)
                                          /\ Inserts(q, i)' <=> Inserts(q, i)
    BY RowKinds DEF Ends, Consumes, Inserts
  <2>2. HoldsInvitations(s, q) /\ (q.op \in JoinOps \cup OwnerOps => q.invite \in Invites)
    BY <1>3 DEF SlotSafe, RequestShaped
  <2>3. \A i \in Invites : lock'[i] = s => Ends(q, i)' \/ Consumes(q, i)' \/ Inserts(q, i)'
    BY <2>1, <2>2, RowKinds DEF HoldsInvitations
  <2>4. \A i, j \in Invites : lock'[i] = s /\ lock'[j] = s /\ Inserts(q, i)' /\ Inserts(q, j)'
                              => i = j
    BY <2>1, <2>2, RowKinds DEF HoldsInvitations
  <2>5. /\ q.op \in JoinOps \cup OwnerOps /\ q.pc \in {"join", "own", "activate", "commit"} =>
             lock'[q.invite] = s
        /\ q.op = "ownerResend" /\ q.pc \in {"insert", "claimOrg", "commit"} =>
             q.found \in Invites /\ lock'[q.found] = s
    BY <2>2, RowKinds DEF HoldsInvitations
  <2>6. QED BY <2>3, <2>4, <2>5 DEF HoldsInvitations
<1>6. HoldsMembers(s, q)'
  BY <1>3, RowKinds DEF SlotSafe, HoldsMembers, Joined, RequestShaped, AllOps, PlatformOps,
                        JoinOps, OwnerOps, TenantOps
<1>7. HoldsOrganization(s, q)'
  BY <1>3, RowKinds DEF SlotSafe, HoldsOrganization
<1>8. RequestShaped(q) /\ (q.pc = "idle" => \A x \in Rows : lock'[x] # s)
  BY <1>3 DEF SlotSafe
<1>9. SlotSafe(s, q)'
  BY <1>4, <1>5, <1>6, <1>7, <1>8 DEF SlotSafe
<1>10. QED BY <1>2, <1>9 DEF SlotSafe

\* Once a request runs, there is an Organization.
LEMMA Running ==
  ASSUME InvitationIInv, NEW r \in Requests, ~At(r, "idle")
  PROVE  db[Org].status # "ABSENT"
BY Parts DEF NothingYet

LEMMA RoomKept ==
  ASSUME InvitationIInv, Coming' \subseteq Coming, Used' \subseteq Used, begun' = begun
  PROVE  RoomLeft'
<1>1. RoomLeft /\ Around
  BY Parts
<1>2. IsFiniteSet(Used)
  BY FS_Subset, InvitationAssumption DEF Used, InvitationAssumption
<1>3. Cardinality(Used') <= Cardinality(Used) /\ Cardinality(Used') \in Nat
      /\ Cardinality(Used) \in Nat
  BY <1>2, FS_Subset, FS_CardinalityType
<1>4. IsFiniteSet(Coming') /\ Cardinality(Coming') <= Cardinality(Coming)
      /\ Cardinality(Coming') \in Nat /\ Cardinality(Coming) \in Nat
  BY <1>1, FS_Subset, FS_CardinalityType DEF RoomLeft
<1>5. QED BY <1>1, <1>3, <1>4, InvitationAssumption DEF RoomLeft, Around, InvitationAssumption

\* The committed rows say the same of the Organization's owner.
LEMMA OwnerRowsKept ==
  ASSUME InvitationIInv, db' = db
  PROVE  OwnerRows' /\ OpenOwner' = OpenOwner /\ Lasting
<1>1. OpenOwner' = OpenOwner /\ Accepted' = Accepted
  BY DEF OpenOwner, Accepted
<1>2. OwnerRows /\ Lasting
  BY Parts DEF Lasting
<1>3. QED BY <1>1, <1>2 DEF OwnerRows

LEMMA SameRows ==
  ASSUME InvitationIInv, UNCHANGED rowVars
  PROVE  RowsSafe'
<1>1. db' = db /\ dirty' = dirty /\ lock' = lock /\ RowsSafe
  BY Parts DEF rowVars
<1>2. QED BY <1>1 DEF RowsSafe, RowsTyped, CleanUnlocked, OneAwaits

\* A slot is judged on the rows alone.
LEMMA SameSlot ==
  ASSUME UNCHANGED rowVars, NEW r, NEW q, SlotSafe(r, q)
  PROVE  SlotSafe(r, q)'
<1>1. db' = db /\ dirty' = dirty /\ lock' = lock
  BY DEF rowVars
<1>2. OpenOwner' = OpenOwner
  BY <1>1 DEF OpenOwner
<1>3. Knows(r, q)'
  BY <1>1, <1>2 DEF SlotSafe, Knows
<1>4. \A i : /\ Ends(q, i)' <=> Ends(q, i)
             /\ Consumes(q, i)' <=> Consumes(q, i)
             /\ Inserts(q, i)' <=> Inserts(q, i)
  BY <1>1 DEF Ends, Consumes, Inserts
<1>5. HoldsInvitations(r, q)'
  BY <1>1, <1>4 DEF SlotSafe, HoldsInvitations
<1>6. HoldsMembers(r, q)' /\ HoldsOrganization(r, q)'
  BY <1>1 DEF SlotSafe, HoldsMembers, HoldsOrganization
<1>7. QED BY <1>1, <1>3, <1>5, <1>6 DEF SlotSafe

\* A step that writes no row.
LEMMA QuietStep ==
  ASSUME InvitationIInv, NEW r \in Requests, UNCHANGED <<rowVars, expired>>, begun' \in Nat,
         advisory' \in [People -> Requests \cup {None}],
         NEW q \in Request, req' = [req EXCEPT ![r] = q], SlotSafe(r, q)',
         db[Org].status # "ABSENT", RoomLeft'
  PROVE  InvitationIInv'
<1>1. RowsSafe /\ Around
  BY Parts
<1>2. db' = db /\ lock' = lock /\ dirty' = dirty /\ share' = share
  BY DEF rowVars
<1>3. RowsSafe' /\ OwnerRows'
  BY <1>2, SameRows, OwnerRowsKept
<1>4. Around'
  BY <1>1, <1>2 DEF Around
<1>5. NothingYet'
  BY <1>2 DEF NothingYet
<1>6. ASSUME NEW s \in Requests PROVE SlotSafe(s, req[s])'
  <2>1. CASE s = r
    <3>1. req'[s] = q
      BY <1>1, <2>1 DEF Around
    <3>2. QED BY <2>1, <3>1 DEF SlotSafe
  <2>2. CASE s # r
    <3>1. req'[s] = req[s]
      BY <1>1, <2>2 DEF Around
    <3>2. QED BY <1>2, <3>1, OthersKept, OwnerRowsKept
  <2>3. QED BY <2>1, <2>2
<1>7. QED BY <1>3, <1>4, <1>5, <1>6, PartsNext

\* One that takes a request in its course further.
LEMMA MoveOn ==
  ASSUME InvitationIInv, NEW r \in Requests, ~At(r, "idle"), UNCHANGED <<rowVars, otherVars>>,
         advisory' \in [People -> Requests \cup {None}],
         NEW q \in Request, req' = [req EXCEPT ![r] = q], SlotSafe(r, q)',
         Coming' \subseteq Coming
  PROVE  InvitationIInv'
<1>1. Used' = Used /\ begun' = begun /\ begun' \in Nat /\ expired' = expired
  BY Parts DEF Used, rowVars, otherVars, Around
<1>2. RoomLeft'
  BY <1>1, RoomKept
<1>3. QED BY <1>1, <1>2, QuietStep, Running

LEMMA ComingKept ==
  ASSUME InvitationIInv, NEW r \in Requests, NEW q, req' = [req EXCEPT ![r] = q],
         q.pc \in {"read", "advisory", "existing", "replace", "insert", "lockOrg", "previous"} =>
           r \in Coming
  PROVE  Coming' \subseteq Coming
<1>1. ASSUME NEW s \in Coming' PROVE s \in Coming
  <2>1. s \in Requests /\ req'[s].pc \in {"read", "advisory", "existing", "replace", "insert",
                                         "lockOrg", "previous"}
    BY DEF Coming
  <2>2. req'[s] = IF s = r THEN q ELSE req[s]
    BY <2>1, Parts DEF Around
  <2>3. QED BY <2>1, <2>2 DEF Coming
<1>2. QED BY <1>1

\* An UPDATE of one row.
Writes(r, x, v) ==
  /\ lock' = [lock EXCEPT ![x] = r] /\ dirty' = [dirty EXCEPT ![x] = v] /\ db' = db
  /\ share' \in [Rows -> SUBSET Requests]
  /\ UNCHANGED <<advisory, otherVars>>

LEMMA WrittenRow ==
  ASSUME RowsSafe, NEW r, NEW x \in Rows, NEW v, Writes(r, x, v)
  PROVE  /\ lock'[x] = r /\ dirty'[x] = v /\ DOMAIN dirty' = Rows /\ DOMAIN lock' = Rows
         /\ \A y \in Rows : y # x => lock'[y] = lock[y] /\ dirty'[y] = dirty[y]
BY DEF RowsSafe, RowsTyped, Writes

RowTyped(x, v) ==
  /\ x \in People => v \in PersonRow
  /\ x \in Invites => v \in InviteRow /\ Addressed(v)
  /\ x = Own => v \in People \cup {None}
  /\ x = Org => v \in [status : OrgStates, version : Nat]

LEMMA WriteStep ==
  ASSUME InvitationIInv, NEW r \in Requests, ~At(r, "idle"), NEW x \in Rows, NEW v,
         Writes(r, x, v), lock[x] \in {None, r}, RowTyped(x, v), OneAwaits',
         NEW q \in Request, req' = [req EXCEPT ![r] = q], SlotSafe(r, q)', RoomLeft'
  PROVE  InvitationIInv'
<1>1. RowsSafe /\ Around /\ NothingYet
  BY Parts
<1>2. /\ lock'[x] = r /\ dirty'[x] = v /\ DOMAIN dirty' = Rows /\ DOMAIN lock' = Rows
      /\ \A y \in Rows : y # x => lock'[y] = lock[y] /\ dirty'[y] = dirty[y]
  BY <1>1, WrittenRow
<1>3. db' = db
  BY DEF Writes
<1>4. RowsSafe'
  <2>1. RowsTyped(db)'
    BY <1>1, <1>3 DEF RowsSafe, RowsTyped
  <2>2. RowsTyped(dirty)'
    <3>1. \A y \in Rows : dirty'[y] = IF y = x THEN v ELSE dirty[y]
      BY <1>2
    <3>2. /\ \A p \in People : dirty'[p] \in PersonRow
          /\ \A i \in Invites : dirty'[i] \in InviteRow
      BY <1>1, <3>1, RowKinds DEF RowsSafe, RowsTyped, RowTyped
    <3>3. dirty'[Own] \in People \cup {None} /\ dirty'[Org] \in [status : OrgStates, version : Nat]
      BY <1>1, <3>1, RowKinds DEF RowsSafe, RowsTyped, RowTyped
    <3>4. QED BY <1>2, <3>2, <3>3 DEF RowsTyped
  <2>3. lock' \in [Rows -> Requests \cup {None}]
    BY <1>1 DEF RowsSafe, Writes
  <2>4. CleanUnlocked'
    <3>1. DOMAIN lock = Rows
      BY <1>1 DEF RowsSafe
    <3>2. QED BY <1>1, <1>2, <1>3, <3>1, RowKinds DEF RowsSafe, CleanUnlocked
  <2>5. \A i \in Invites : Addressed(db'[i]) /\ Addressed(dirty'[i])
    BY <1>1, <1>2, <1>3, RowKinds DEF RowsSafe, RowTyped
  <2>6. QED BY <2>1, <2>2, <2>3, <2>4, <2>5 DEF RowsSafe, Addressed
<1>5. OwnerRows' /\ OpenOwner' = OpenOwner /\ Lasting
  BY <1>3, OwnerRowsKept
<1>6. Around'
  BY <1>1 DEF Around, Writes, otherVars
<1>7. NothingYet'
  BY <1>3, Running DEF NothingYet
<1>8. ASSUME NEW s \in Requests PROVE SlotSafe(s, req[s])'
  <2>1. CASE s = r
    <3>1. req'[s] = q
      BY <1>1, <2>1 DEF Around
    <3>2. QED BY <2>1, <3>1 DEF SlotSafe
  <2>2. CASE s # r
    <3>1. req'[s] = req[s]
      BY <1>1, <2>2 DEF Around
    <3>2. lock[x] # s
      BY <2>2, RowKinds
    <3>3. /\ \A y \in Rows : lock'[y] = s <=> lock[y] = s
          /\ \A y \in Rows : lock[y] = s => dirty'[y] = dirty[y] /\ db'[y] = db[y]
      BY <1>2, <1>3, <2>2, <3>2
    <3>4. QED BY <1>5, <3>1, <3>3, OthersKept
  <2>3. QED BY <2>1, <2>2
<1>9. QED BY <1>4, <1>5, <1>6, <1>7, <1>8, PartsNext

\* One live invitation per address, whatever becomes of another row, or if an
\* invitation ends.
LEMMA AwaitsElsewhere ==
  ASSUME RowsSafe, NEW r, NEW x \in Rows \ Invites, NEW v, Writes(r, x, v)
  PROVE  OneAwaits'
BY WrittenRow, RowKinds DEF RowsSafe, OneAwaits, Writes

LEMMA AwaitsEnded ==
  ASSUME RowsSafe, NEW r \in Requests, NEW x \in Invites, NEW v, Writes(r, x, v), ~Live(v),
         lock[x] \in {None, r}
  PROVE  OneAwaits'
<1>1. /\ lock'[x] = r /\ dirty'[x] = v /\ db' = db /\ x \in Rows
      /\ \A y \in Rows : y # x => lock'[y] = lock[y] /\ dirty'[y] = dirty[y]
  BY WrittenRow, RowKinds DEF Writes
<1>2. ASSUME NEW i \in Invites, NEW j \in Invites, i # j
      PROVE  /\ Live(db'[i]) /\ Live(db'[j]) => db'[i].email # db'[j].email
             /\ Live(dirty'[i]) /\ Live(dirty'[j]) => dirty'[i].email # dirty'[j].email
  BY <1>1, <1>2, RowKinds DEF RowsSafe, OneAwaits
<1>3. ASSUME NEW i \in Invites, NEW j \in Invites, i # j,
             Live(db'[i]), Live(dirty'[j]), db'[i].email = dirty'[j].email
      PROVE  lock'[i] # None /\ lock'[i] = lock'[j]
  <2>1. j # x /\ dirty'[j] = dirty[j] /\ lock'[j] = lock[j] /\ i \in Rows /\ j \in Rows
    BY <1>1, <1>3, RowKinds
  <2>2. lock[i] # None /\ lock[i] = lock[j]
    BY <1>1, <1>3, <2>1 DEF RowsSafe, OneAwaits
  <2>3. QED BY <1>1, <2>1, <2>2, RowKinds
<1>4. QED BY <1>2, <1>3 DEF OneAwaits

\* An idle slot holds nothing.
LEMMA IdleSafeNext ==
  ASSUME NEW r \in Requests, \A x \in Rows : lock'[x] # r
  PROVE  SlotSafe(r, Idle)'
<1>1. /\ Idle.pc = "idle" /\ Idle.op = None /\ Idle.found = None
      /\ Idle.person = None /\ Idle.invite = None
  BY IdleFields
<1>2. /\ None \notin AllOps /\ None \notin TenantOps /\ None \notin JoinOps
      /\ None \notin OwnerOps /\ None \notin PlatformOps
      /\ None \notin {"invite", "resend", "revoke", "suspend", "reactivate", "remove", "accept",
                      "acceptExisting", "ownerAccept", "ownerAcceptExisting", "ownerResend",
                      "disable"}
  BY OpSets, RowKinds
<1>3. RequestShaped(Idle)
  BY <1>1, <1>2 DEF RequestShaped
<1>4. Knows(r, Idle)'
  <2>1. StageOf(None) = {"idle"}
    BY <1>2 DEF StageOf
  <2>2. QED BY <1>1, <1>2, <2>1 DEF Knows
<1>5. \A i \in Invites : lock'[i] # r
  BY RowKinds
<1>6. HoldsInvitations(r, Idle)'
  BY <1>1, <1>2, <1>5 DEF HoldsInvitations
<1>7. HoldsMembers(r, Idle)'
  BY <1>1, <1>2, RowKinds DEF HoldsMembers, Joined
<1>8. HoldsOrganization(r, Idle)'
  BY <1>1, <1>2, RowKinds DEF HoldsOrganization
<1>9. QED BY <1>1, <1>3, <1>4, <1>6, <1>7, <1>8 DEF SlotSafe

LEMMA AbortStep ==
  ASSUME InvitationIInv, NEW r \in Requests, ~At(r, "idle"), Abort(r)
  PROVE  InvitationIInv'
<1>1. RowsSafe /\ Around /\ DOMAIN db = Rows /\ DOMAIN dirty = Rows /\ DOMAIN lock = Rows
  BY Parts DEF RowsSafe, RowsTyped
<1>2. /\ db' = db /\ DOMAIN dirty' = Rows /\ DOMAIN lock' = Rows
      /\ \A x \in Rows : IF lock[x] = r THEN lock'[x] = None /\ dirty'[x] = db[x]
                                        ELSE lock'[x] = lock[x] /\ dirty'[x] = dirty[x]
  BY <1>1 DEF Abort, RollbackRows, Release
<1>3. OneAwaits'
  <2>1. OneAwaits /\ CleanUnlocked
    BY <1>1 DEF RowsSafe
  <2>2. ASSUME NEW i \in Invites, NEW j \in Invites, i # j
        PROVE  /\ Live(db'[i]) /\ Live(db'[j]) => db'[i].email # db'[j].email
               /\ Live(dirty'[i]) /\ Live(dirty'[j]) => dirty'[i].email # dirty'[j].email
               /\ Live(db'[i]) /\ Live(dirty'[j]) /\ db'[i].email = dirty'[j].email =>
                    lock'[i] # None /\ lock'[i] = lock'[j]
    <3>1. i \in Rows /\ j \in Rows
      BY RowKinds
    <3>2. /\ Live(db[i]) /\ Live(db[j]) => db[i].email # db[j].email
          /\ Live(dirty[i]) /\ Live(dirty[j]) => dirty[i].email # dirty[j].email
          /\ Live(db[i]) /\ Live(dirty[j]) /\ db[i].email = dirty[j].email =>
               lock[i] # None /\ lock[i] = lock[j]
          /\ Live(db[j]) /\ Live(dirty[i]) /\ db[j].email = dirty[i].email =>
               lock[j] # None /\ lock[j] = lock[i]
      BY <2>1, <2>2 DEF OneAwaits
    <3>3. /\ IF lock[i] = r THEN lock'[i] = None /\ dirty'[i] = db[i]
                            ELSE lock'[i] = lock[i] /\ dirty'[i] = dirty[i]
          /\ IF lock[j] = r THEN lock'[j] = None /\ dirty'[j] = db[j]
                            ELSE lock'[j] = lock[j] /\ dirty'[j] = dirty[j]
          /\ db' = db
      BY <1>2, <3>1
    <3>4. QED BY <3>2, <3>3
  <2>3. QED BY <2>2 DEF OneAwaits
<1>4. RowsSafe'
  <2>1. RowsTyped(db)' /\ RowsTyped(dirty)'
    <3>1. \A x \in Rows : dirty'[x] \in {db[x], dirty[x]}
      BY <1>2
    <3>2. QED BY <1>1, <1>2, <3>1, RowKinds DEF RowsSafe, RowsTyped
  <2>2. lock' \in [Rows -> Requests \cup {None}]
    BY <1>1 DEF RowsSafe, Abort, RollbackRows, Release
  <2>3. CleanUnlocked'
    BY <1>1, <1>2 DEF RowsSafe, CleanUnlocked
  <2>4. \A i \in Invites : Addressed(db'[i]) /\ Addressed(dirty'[i])
    <3>1. \A i \in Invites : dirty'[i] \in {db[i], dirty[i]}
      BY <1>2, RowKinds
    <3>2. QED BY <1>1, <1>2, <3>1 DEF RowsSafe
  <2>5. QED BY <1>3, <2>1, <2>2, <2>3, <2>4 DEF RowsSafe, Addressed
<1>5. OwnerRows' /\ OpenOwner' = OpenOwner /\ Lasting
  BY <1>2, OwnerRowsKept
<1>6. req' = [req EXCEPT ![r] = Idle] /\ begun' = begun /\ expired' = expired
  BY DEF Abort, Become, otherVars
<1>7. Around'
  <2>1. share' \in [Rows -> SUBSET Requests]
    BY <1>1 DEF Around, Abort, RollbackRows, Release
  <2>2. advisory' \in [People -> Requests \cup {None}]
    BY <1>1 DEF Around, Abort, ReleaseAdvisory
  <2>3. QED BY <1>1, <1>6, <2>1, <2>2, IdleFields DEF Around
<1>8. NothingYet'
  BY <1>2, Running DEF NothingYet
<1>9. RoomLeft'
  <2>1. Coming' \subseteq Coming
    BY <1>6, ComingKept, IdleFields
  <2>2. Used' \subseteq Used
    <3>1. ASSUME NEW i \in Invites, dirty'[i] # Unissued PROVE dirty[i] # Unissued
      <4>1. CASE lock[i] = r
        <5>1. Issued(dirty[i])
          BY <1>1, <4>1, LockedIssued, Parts
        <5>2. QED BY <5>1 DEF Issued, Unissued
      <4>2. CASE lock[i] # r
        BY <1>2, <3>1, <4>2, RowKinds
      <4>3. QED BY <4>1, <4>2
    <3>2. QED BY <3>1 DEF Used
  <2>3. QED BY <1>6, <2>1, <2>2, RoomKept
<1>10. ASSUME NEW s \in Requests PROVE SlotSafe(s, req[s])'
  <2>1. CASE s = r
    <3>1. req'[s] = Idle /\ \A x \in Rows : lock'[x] # s
      BY <1>1, <1>2, <1>6, <2>1, RowKinds DEF Around
    <3>2. SlotSafe(s, Idle)'
      BY <3>1, IdleSafeNext
    <3>3. QED BY <3>1, <3>2 DEF SlotSafe
  <2>2. CASE s # r
    <3>1. req'[s] = req[s]
      BY <1>1, <1>6, <2>2 DEF Around
    <3>2. /\ \A y \in Rows : lock'[y] = s <=> lock[y] = s
          /\ \A y \in Rows : lock[y] = s => dirty'[y] = dirty[y] /\ db'[y] = db[y]
      BY <1>2, <2>2, RowKinds
    <3>3. QED BY <1>5, <3>1, <3>2, OthersKept
  <2>3. QED BY <2>1, <2>2
<1>11. QED BY <1>4, <1>5, <1>7, <1>8, <1>9, <1>10, PartsNext

-----------------------------------------------------------------------------
(***************************************************************************)
(* Commits.                                                                *)
(***************************************************************************)
LEMMA CommitRow ==
  ASSUME RowsSafe, NEW r, Commit(r)
  PROVE  /\ DOMAIN db' = Rows /\ DOMAIN lock' = Rows /\ dirty' = dirty
         /\ \A x \in Rows : IF lock[x] = r THEN lock'[x] = None /\ db'[x] = dirty[x]
                                           ELSE lock'[x] = lock[x] /\ db'[x] = db[x]
<1>1. DOMAIN db = Rows /\ DOMAIN lock = Rows
  BY DEF RowsSafe, RowsTyped
<1>2. QED BY <1>1 DEF Commit, CommitRows, Release, See

LEMMA CommittedInvite ==
  ASSUME InvitationIInv, NEW r \in Requests, Commit(r), NEW i \in Invites
  PROVE  /\ lock[i] # r => db'[i] = db[i]
         /\ lock[i] = r =>
              \/ /\ Ends(req[r], i) /\ db'[i] \in {db[i], [db[i] EXCEPT !.revoked = TRUE]}
                 /\ ~Live(db'[i])
              \/ /\ Consumes(req[r], i) /\ db'[i] = [db[i] EXCEPT !.consumed = TRUE]
                 /\ ~Live(db'[i]) /\ db'[i].consumed
              \/ Inserts(req[r], i) /\ db'[i] = dirty[i]
<1>1. RowsSafe /\ SlotSafe(r, req[r]) /\ i \in Rows
  BY Parts, RowKinds
<1>2. IF lock[i] = r THEN db'[i] = dirty[i] ELSE db'[i] = db[i]
  BY <1>1, CommitRow
<1>3. ASSUME Consumes(req[r], i) PROVE ~Live(dirty[i]) /\ dirty[i].consumed
  BY <1>1, <1>3 DEF Consumes, Live, RowsSafe, RowsTyped, InviteRow
<1>4. QED BY <1>1, <1>2, <1>3 DEF SlotSafe, HoldsInvitations, Ends, Consumes

LEMMA CommitLasts ==
  ASSUME InvitationIInv, NEW r \in Requests, Commit(r)
  PROVE  Lasting
<1>1. RowsSafe /\ SlotSafe(r, req[r])
  BY Parts
<1>2. ASSUME NEW i \in Invites, Issued(db[i])
      PROVE  db'[i].kind = db[i].kind /\ db'[i].email = db[i].email
  <2>1. db[i] \in InviteRow
    BY <1>1 DEF RowsSafe, RowsTyped
  <2>2. ~Inserts(req[r], i)
    BY <1>2 DEF Inserts, Issued, Unissued
  <2>3. QED BY <2>1, <2>2, CommittedInvite DEF InviteRow
<1>3. ASSUME NEW p \in People, db[p].status # "NONE" PROVE db'[p].status # "NONE"
  <2>1. IF lock[p] = r THEN db'[p] = dirty[p] ELSE db'[p] = db[p]
    BY <1>1, CommitRow, RowKinds
  <2>2. QED BY <1>1, <1>3, <2>1 DEF SlotSafe, HoldsMembers
<1>4. QED BY <1>2, <1>3 DEF Lasting

\* What a commit leaves open for an owner was open before, or it is the
\* invitation its transaction has put in the place of the other.
LEMMA OpenAfter ==
  ASSUME InvitationIInv, NEW r \in Requests, Commit(r), NEW i \in OpenOwner'
  PROVE  /\ i \in Invites
         /\ lock[i] # r => i \in OpenOwner /\ db'[i] = db[i] /\ req[r].op # "ownerResend"
         /\ lock[i] = r => Inserts(req[r], i) /\ req[r].op = "ownerResend"
<1>1. i \in Invites /\ Live(db'[i]) /\ db'[i].kind = "INITIAL_OWNER"
  BY DEF OpenOwner
<1>2. SlotSafe(r, req[r]) /\ req[r].pc = "commit"
  BY Parts DEF Commit, At
<1>3. CASE lock[i] # r
  <2>1. db'[i] = db[i] /\ i \in OpenOwner
    BY <1>1, <1>3, CommittedInvite DEF OpenOwner
  <2>2. ASSUME req[r].op = "ownerResend" PROVE FALSE
    <3>1. i = req[r].found /\ lock[req[r].found] = r
      BY <1>2, <2>1, <2>2 DEF SlotSafe, Knows, HoldsInvitations
    <3>2. QED BY <1>3, <3>1
  <2>3. QED BY <1>1, <1>3, <2>1, <2>2
<1>4. CASE lock[i] = r
  <2>1. Inserts(req[r], i) /\ db'[i] = dirty[i]
    BY <1>1, <1>4, CommittedInvite
  <2>2. req[r].op = "ownerResend"
    BY <1>1, <2>1 DEF Inserts
  <2>3. QED BY <1>1, <1>4, <2>1, <2>2
<1>5. QED BY <1>3, <1>4

\* The transactions that commit a change of the Organization or its owner.
LEMMA CommittedOwner ==
  ASSUME InvitationIInv, NEW r \in Requests, Commit(r)
  PROVE  /\ req[r].op \in OwnerOps =>
              /\ db[Own] = None /\ db'[Own] = req[r].person /\ req[r].person \in People
              /\ db[Org].status = "PROVISIONING" /\ db'[Org].status = "ACTIVE"
              /\ req[r].invite \in Invites /\ lock[req[r].invite] = r
              /\ Consumes(req[r], req[r].invite)
              /\ db[req[r].invite].kind = "INITIAL_OWNER"
              /\ db[req[r].invite].email = req[r].person
         /\ req[r].op \notin OwnerOps => db'[Own] = db[Own]
         /\ req[r].op = "ownerResend" =>
              lock[Org] = r /\ db[Org].status = "PROVISIONING" /\ db'[Org].status = "PROVISIONING"
         /\ req[r].op = "disable" => lock[Org] = r /\ db'[Org].status = "DISABLED"
         /\ req[r].op \notin OwnerOps \cup PlatformOps => lock[Org] # r /\ db'[Org] = db[Org]
<1>1. RowsSafe /\ SlotSafe(r, req[r]) /\ req[r].pc = "commit"
  BY Parts DEF Commit, At
<1>2. /\ IF lock[Own] = r THEN db'[Own] = dirty[Own] ELSE db'[Own] = db[Own]
      /\ IF lock[Org] = r THEN db'[Org] = dirty[Org] ELSE db'[Org] = db[Org]
  BY <1>1, CommitRow, RowKinds
<1>3. HoldsOrganization(r, req[r]) /\ HoldsInvitations(r, req[r]) /\ Knows(r, req[r])
      /\ RequestShaped(req[r])
  BY <1>1 DEF SlotSafe
<1>4. ASSUME req[r].op \in OwnerOps
      PROVE  /\ db[Own] = None /\ db'[Own] = req[r].person /\ req[r].person \in People
             /\ db[Org].status = "PROVISIONING" /\ db'[Org].status = "ACTIVE"
             /\ req[r].invite \in Invites /\ lock[req[r].invite] = r
             /\ Consumes(req[r], req[r].invite)
             /\ db[req[r].invite].kind = "INITIAL_OWNER"
             /\ db[req[r].invite].email = req[r].person
  <2>1. req[r].op \notin {"disable", "ownerResend", "invite", "resend", "revoke"}
        /\ req[r].op \in AllOps \ PlatformOps
    BY <1>4 DEF OwnerOps, AllOps, PlatformOps
  <2>2. lock[Own] = r /\ lock[Org] = r
    BY <1>1, <1>3, <1>4 DEF HoldsOrganization
  <2>3. db[Own] = None /\ dirty[Own] = req[r].person /\ db[Org].status = "PROVISIONING"
        /\ dirty[Org].status = "ACTIVE"
    BY <1>3, <1>4, <2>1, <2>2 DEF HoldsOrganization
  <2>4. req[r].person \in People /\ req[r].invite \in Invites /\ lock[req[r].invite] = r
    BY <1>1, <1>3, <1>4, <2>1 DEF RequestShaped, HoldsInvitations
  <2>5. Consumes(req[r], req[r].invite)
    BY <1>3, <2>1, <2>4 DEF HoldsInvitations, Ends, Inserts
  <2>6. QED BY <1>2, <1>3, <1>4, <2>2, <2>3, <2>4, <2>5 DEF Knows
<1>5. req[r].op \notin OwnerOps => lock[Own] # r
  BY <1>3 DEF HoldsOrganization
<1>6. req[r].op \in {"ownerResend", "disable"} => lock[Org] = r /\ req[r].op \notin OwnerOps
  BY <1>1, <1>3 DEF HoldsOrganization, OwnerOps
<1>7. req[r].op = "ownerResend" => db[Org].status = "PROVISIONING"
                                   /\ dirty[Org].status = "PROVISIONING"
  BY <1>3, <1>6 DEF HoldsOrganization
<1>8. req[r].op = "disable" => dirty[Org].status = "DISABLED"
  BY <1>3, <1>6 DEF HoldsOrganization
<1>9. req[r].op \notin OwnerOps \cup PlatformOps => lock[Org] # r
  BY <1>3 DEF HoldsOrganization, PlatformOps
<1>10. QED BY <1>2, <1>4, <1>5, <1>6, <1>7, <1>8, <1>9

LEMMA CollaboratorConsumed ==
  ASSUME NEW r, NEW q, SlotSafe(r, q), NEW i, Consumes(q, i), q.op \notin OwnerOps
  PROVE  db[i].kind = "COLLABORATOR" /\ db[i].email = q.person
BY DEF SlotSafe, Knows, Consumes

\* Only an owner's acceptance adds to the accepted invitations of the owner.
LEMMA AcceptedAfter ==
  ASSUME InvitationIInv, NEW r \in Requests, Commit(r), NEW i \in Invites
  PROVE  /\ i \in Accepted => i \in Accepted' /\ db'[i].email = db[i].email
         /\ i \in Accepted' /\ i \notin Accepted => req[r].op \in OwnerOps /\ i = req[r].invite
<1>1. RowsSafe /\ SlotSafe(r, req[r]) /\ db[i] \in InviteRow
  BY Parts DEF RowsSafe, RowsTyped
<1>2. PICK a : a = [db[i] EXCEPT !.revoked = TRUE]
  OBVIOUS
<1>3. PICK b : b = [db[i] EXCEPT !.consumed = TRUE]
  OBVIOUS
<1>4. /\ a.kind = db[i].kind /\ a.email = db[i].email /\ a.consumed = db[i].consumed
      /\ b.kind = db[i].kind /\ b.email = db[i].email /\ b.consumed
  BY <1>1, <1>2, <1>3 DEF InviteRow
<1>5. \/ db'[i] = db[i] \/ db'[i] = a
      \/ Consumes(req[r], i) /\ db'[i] = b
      \/ Inserts(req[r], i) /\ db'[i] = dirty[i]
  BY <1>2, <1>3, CommittedInvite
<1>6. CASE db'[i] = db[i] \/ db'[i] = a
  BY <1>4, <1>6 DEF Accepted
<1>7. CASE Consumes(req[r], i) /\ db'[i] = b
  <2>1. req[r].op \notin OwnerOps => db[i].kind = "COLLABORATOR"
    BY <1>1, <1>7, CollaboratorConsumed
  <2>2. i = req[r].invite
    BY <1>7 DEF Consumes
  <2>3. QED BY <1>4, <1>7, <2>1, <2>2 DEF Accepted
<1>8. CASE Inserts(req[r], i) /\ db'[i] = dirty[i]
  BY <1>8 DEF Accepted, Inserts, Live, Unissued
<1>9. QED BY <1>5, <1>6, <1>7, <1>8

LEMMA OwnerAcceptance ==
  ASSUME InvitationIInv, NEW r \in Requests, Commit(r), req[r].op \in OwnerOps
  PROVE  /\ req[r].invite \in Invites /\ req[r].invite \in Accepted'
         /\ db'[req[r].invite].email = req[r].person
         /\ Accepted = {} /\ OpenOwner' = {}
<1>1. /\ db[Own] = None /\ req[r].person \in People
      /\ req[r].invite \in Invites /\ lock[req[r].invite] = r
      /\ Consumes(req[r], req[r].invite)
      /\ db[req[r].invite].kind = "INITIAL_OWNER" /\ db[req[r].invite].email = req[r].person
  BY CommittedOwner
<1>2. PICK i : i = req[r].invite
  OBVIOUS
<1>3. i \in Invites /\ Live(db[i]) /\ db[i] \in InviteRow /\ i \in OpenOwner
  BY <1>1, <1>2, Parts DEF Consumes, RowsSafe, RowsTyped, OpenOwner
<1>4. ~Ends(req[r], i) /\ ~Inserts(req[r], i)
  BY <1>1, <1>2 DEF Ends, Inserts, OwnerOps
<1>5. db'[i] = [db[i] EXCEPT !.consumed = TRUE]
  BY <1>1, <1>2, <1>3, <1>4, CommittedInvite
<1>6. db'[i].kind = "INITIAL_OWNER" /\ db'[i].consumed /\ db'[i].email = req[r].person
  BY <1>1, <1>2, <1>3, <1>5 DEF InviteRow
<1>7. Accepted = {}
  <2>1. ASSUME NEW j \in Accepted PROVE FALSE
    <3>1. j \in Invites /\ db[Own] = db[j].email /\ Issued(db[j]) /\ Addressed(db[j])
      BY Parts, RowKinds DEF OwnerRows, Accepted, Issued, RowsSafe, Kinds
    <3>2. QED BY <1>1, <3>1, RowKinds DEF Addressed
  <2>2. QED BY <2>1
<1>8. OpenOwner' = {}
  <2>1. ASSUME NEW j \in OpenOwner' PROVE FALSE
    <3>1. req[r].op # "ownerResend"
      BY DEF OwnerOps
    <3>2. lock[j] # r /\ j \in OpenOwner
      BY <3>1, OpenAfter
    <3>3. j = i
      BY <1>3, <3>2, Parts DEF OwnerRows
    <3>4. QED BY <1>1, <1>2, <3>2, <3>3
  <2>2. QED BY <2>1
<1>9. QED BY <1>2, <1>3, <1>6, <1>7, <1>8 DEF Accepted

LEMMA CommitOwner ==
  ASSUME InvitationIInv, NEW r \in Requests, Commit(r)
  PROVE  OwnerRows' /\ (req[r].op # "ownerResend" => OpenOwner' \subseteq OpenOwner)
<1>1. OwnerRows /\ RowsSafe /\ SlotSafe(r, req[r]) /\ req[r].pc = "commit"
  BY Parts DEF Commit, At
<1>2. req[r].op # "ownerResend" => OpenOwner' \subseteq OpenOwner
  BY OpenAfter
<1>3. CASE req[r].op \in OwnerOps
  <2>1. /\ db'[Own] = req[r].person /\ req[r].person \in People /\ db'[Org].status = "ACTIVE"
    BY <1>3, CommittedOwner
  <2>2. /\ req[r].invite \in Accepted' /\ db'[req[r].invite].email = req[r].person
        /\ Accepted = {} /\ OpenOwner' = {}
    BY <1>3, OwnerAcceptance
  <2>3. \A j \in Accepted' : j = req[r].invite
    <3>1. Accepted' \subseteq Invites
      BY DEF Accepted
    <3>2. QED BY <2>2, <3>1, AcceptedAfter
  <2>4. QED BY <1>2, <1>3, <2>1, <2>2, <2>3, RowKinds DEF OwnerRows, OwnerOps
<1>4. CASE req[r].op \notin OwnerOps
  <2>1. db'[Own] = db[Own]
    BY <1>4, CommittedOwner
  <2>2. Accepted' = Accepted /\ \A i \in Accepted : db'[i].email = db[i].email
    <3>1. Accepted' \subseteq Invites /\ Accepted \subseteq Invites
      BY DEF Accepted
    <3>2. QED BY <1>4, <3>1, AcceptedAfter
  <2>3. /\ db'[Own] # None => Accepted' # {}
        /\ \A i \in Accepted' : db'[Own] = db'[i].email /\ \A j \in Accepted' : j = i
    BY <1>1, <2>1, <2>2 DEF OwnerRows
  <2>4. CASE req[r].op = "ownerResend"
    <3>1. db[Org].status = "PROVISIONING" /\ db'[Org].status = "PROVISIONING"
      BY <2>4, CommittedOwner
    <3>2. \A i, j \in OpenOwner' : j = i
      <4>1. \A i \in OpenOwner' : i \in Invites /\ lock[i] = r /\ Inserts(req[r], i)
        BY <2>4, OpenAfter
      <4>2. QED BY <1>1, <4>1 DEF SlotSafe, HoldsInvitations
    <3>3. db'[Own] = None
      BY <1>1, <2>1, <3>1 DEF OwnerRows
    <3>4. QED BY <1>2, <2>3, <2>4, <3>1, <3>2, <3>3 DEF OwnerRows
  <2>5. CASE req[r].op = "disable"
    <3>1. db'[Org].status = "DISABLED"
      BY <2>5, CommittedOwner
    <3>2. OpenOwner' = {}
      <4>1. ASSUME NEW i \in OpenOwner' PROVE FALSE
        <5>1. i \in OpenOwner /\ lock[i] # r
          BY <2>5, OpenAfter
        <5>2. QED BY <1>1, <2>5, <5>1 DEF SlotSafe, Knows
      <4>2. QED BY <4>1
    <3>3. QED BY <1>2, <2>3, <2>5, <3>1, <3>2 DEF OwnerRows
  <2>6. CASE req[r].op \notin PlatformOps
    <3>1. db'[Org] = db[Org] /\ OpenOwner' \subseteq OpenOwner
      BY <1>2, <1>4, <2>6, CommittedOwner DEF PlatformOps
    <3>2. QED BY <1>1, <1>2, <2>1, <2>3, <3>1 DEF OwnerRows
  <2>7. QED BY <2>4, <2>5, <2>6 DEF PlatformOps
<1>5. QED BY <1>3, <1>4

LEMMA CommitStep ==
  ASSUME InvitationIInv, NEW r \in Requests, Commit(r)
  PROVE  InvitationIInv'
<1>1. RowsSafe /\ Around /\ SlotSafe(r, req[r]) /\ ~At(r, "idle")
  BY Parts DEF Commit, At
<1>2. /\ DOMAIN db' = Rows /\ DOMAIN lock' = Rows /\ dirty' = dirty
      /\ \A x \in Rows : IF lock[x] = r THEN lock'[x] = None /\ db'[x] = dirty[x]
                                        ELSE lock'[x] = lock[x] /\ db'[x] = db[x]
  BY <1>1, CommitRow
<1>3. Lasting /\ OwnerRows' /\ (req[r].op # "ownerResend" => OpenOwner' \subseteq OpenOwner)
  BY CommitLasts, CommitOwner
<1>4. OneAwaits'
  <2>1. OneAwaits
    BY <1>1 DEF RowsSafe
  <2>2. ASSUME NEW i \in Invites, NEW j \in Invites, i # j
        PROVE  /\ Live(db'[i]) /\ Live(db'[j]) => db'[i].email # db'[j].email
               /\ Live(dirty'[i]) /\ Live(dirty'[j]) => dirty'[i].email # dirty'[j].email
               /\ Live(db'[i]) /\ Live(dirty'[j]) /\ db'[i].email = dirty'[j].email =>
                    lock'[i] # None /\ lock'[i] = lock'[j]
    <3>1. i \in Rows /\ j \in Rows
      BY RowKinds
    <3>2. /\ Live(db[i]) /\ Live(db[j]) => db[i].email # db[j].email
          /\ Live(dirty[i]) /\ Live(dirty[j]) => dirty[i].email # dirty[j].email
          /\ Live(db[i]) /\ Live(dirty[j]) /\ db[i].email = dirty[j].email =>
               lock[i] # None /\ lock[i] = lock[j]
          /\ Live(db[j]) /\ Live(dirty[i]) /\ db[j].email = dirty[i].email =>
               lock[j] # None /\ lock[j] = lock[i]
      BY <2>1, <2>2 DEF OneAwaits
    <3>3. /\ IF lock[i] = r THEN lock'[i] = None /\ db'[i] = dirty[i]
                            ELSE lock'[i] = lock[i] /\ db'[i] = db[i]
          /\ IF lock[j] = r THEN lock'[j] = None /\ db'[j] = dirty[j]
                            ELSE lock'[j] = lock[j] /\ db'[j] = db[j]
          /\ dirty' = dirty
      BY <1>2, <3>1
    <3>4. QED BY <3>2, <3>3
  <2>3. QED BY <2>2 DEF OneAwaits
<1>5. RowsSafe'
  <2>1. RowsTyped(db)' /\ RowsTyped(dirty)'
    <3>1. \A x \in Rows : db'[x] \in {db[x], dirty[x]}
      BY <1>2
    <3>2. QED BY <1>1, <1>2, <3>1, RowKinds DEF RowsSafe, RowsTyped
  <2>2. lock' \in [Rows -> Requests \cup {None}]
    <3>1. DOMAIN lock = Rows
      BY <1>1 DEF RowsSafe
    <3>2. QED BY <1>1, <3>1 DEF RowsSafe, Commit, CommitRows, Release
  <2>3. CleanUnlocked'
    BY <1>1, <1>2 DEF RowsSafe, CleanUnlocked
  <2>4. \A i \in Invites : Addressed(db'[i]) /\ Addressed(dirty'[i])
    <3>1. \A i \in Invites : db'[i] \in {db[i], dirty[i]}
      BY <1>2, RowKinds
    <3>2. QED BY <1>1, <1>2, <3>1 DEF RowsSafe
  <2>5. QED BY <1>4, <2>1, <2>2, <2>3, <2>4 DEF RowsSafe, Addressed
<1>6. req' = [req EXCEPT ![r] = Idle] /\ begun' = begun /\ expired' = expired
  BY DEF Commit, Become, otherVars
<1>7. Around'
  <2>1. share' \in [Rows -> SUBSET Requests]
    BY <1>1 DEF Around, Commit, CommitRows, Release
  <2>2. advisory' \in [People -> Requests \cup {None}]
    BY <1>1 DEF Around, Commit, ReleaseAdvisory
  <2>3. QED BY <1>1, <1>6, <2>1, <2>2, IdleFields DEF Around
<1>8. NothingYet'
  <2>1. db[Org].status # "ABSENT"
    BY <1>1, Running
  <2>2. db'[Org].status # "ABSENT"
    BY <2>1, CommittedOwner DEF PlatformOps
  <2>3. QED BY <2>2 DEF NothingYet
<1>9. RoomLeft'
  <2>1. Coming' \subseteq Coming
    BY <1>6, ComingKept, IdleFields
  <2>2. Used' \subseteq Used
    BY <1>2 DEF Used
  <2>3. QED BY <1>6, <2>1, <2>2, RoomKept
<1>10. ASSUME NEW s \in Requests PROVE SlotSafe(s, req[s])'
  <2>1. CASE s = r
    <3>1. req'[s] = Idle /\ \A x \in Rows : lock'[x] # s
      BY <1>1, <1>2, <1>6, <2>1, RowKinds DEF Around
    <3>2. SlotSafe(s, Idle)'
      BY <3>1, IdleSafeNext
    <3>3. QED BY <3>1, <3>2 DEF SlotSafe
  <2>2. CASE s # r
    <3>1. req'[s] = req[s]
      BY <1>1, <1>6, <2>2 DEF Around
    <3>2. /\ \A y \in Rows : lock'[y] = s <=> lock[y] = s
          /\ \A y \in Rows : lock[y] = s => dirty'[y] = dirty[y] /\ db'[y] = db[y]
      BY <1>2, <2>2, RowKinds
    <3>3. lock[Org] = s => OpenOwner' \subseteq OpenOwner
      BY <1>3, <2>2, CommittedOwner
    <3>4. QED BY <1>3, <3>1, <3>2, <3>3, OthersKept
  <2>3. QED BY <2>1, <2>2
<1>11. QED BY <1>3, <1>5, <1>7, <1>8, <1>9, <1>10, PartsNext

-----------------------------------------------------------------------------
(***************************************************************************)
(* Provisioning.                                                           *)
(***************************************************************************)
\* There is an unused row of Invitation for whoever may still insert one.
LEMMA RowLeft ==
  ASSUME InvitationIInv, begun < MaxBegun \/ Coming # {}
  PROVE  NewInvite(dirty) \in Invites /\ dirty[NewInvite(dirty)] = Unissued
<1>1. RoomLeft /\ Around /\ IsFiniteSet(Invites) /\ Cardinality(Invites) > MaxBegun + 1
      /\ MaxBegun \in Nat
  BY Parts, InvitationAssumption DEF InvitationAssumption
<1>2. IsFiniteSet(Used) /\ Cardinality(Used) \in Nat /\ Cardinality(Coming) \in Nat
      /\ Cardinality(Invites) \in Nat
  BY <1>1, FS_Subset, FS_CardinalityType DEF Used, RoomLeft
<1>3. Cardinality(Used) < Cardinality(Invites)
  <2>1. Coming # {} => Cardinality(Coming) > 0
    BY <1>1, <1>2, FS_EmptySet DEF RoomLeft
  <2>2. QED BY <1>1, <1>2, <2>1 DEF RoomLeft, Around
<1>4. Used # Invites
  BY <1>2, <1>3
<1>5. \E i \in Invites : dirty[i] = Unissued
  BY <1>4 DEF Used
<1>6. QED BY <1>5 DEF NewInvite

LEMMA RoomTaken ==
  ASSUME InvitationIInv, NEW i, Used' \subseteq Used \cup {i}, begun' = begun + 1, begun < MaxBegun,
         Coming' = Coming
  PROVE  RoomLeft'
<1>1. RoomLeft /\ Around /\ MaxBegun \in Nat
  BY Parts, InvitationAssumption DEF InvitationAssumption
<1>2. IsFiniteSet(Used)
  BY FS_Subset, InvitationAssumption DEF Used, InvitationAssumption
<1>3. IsFiniteSet(Used \cup {i}) /\ Cardinality(Used \cup {i}) <= Cardinality(Used) + 1
      /\ Cardinality(Used) \in Nat /\ Cardinality(Used \cup {i}) \in Nat
  <2>1. /\ IsFiniteSet(Used \cup {i})
        /\ Cardinality(Used \cup {i}) =
             IF i \in Used THEN Cardinality(Used) ELSE Cardinality(Used) + 1
    BY <1>2, FS_AddElement
  <2>2. Cardinality(Used) \in Nat /\ Cardinality(Used \cup {i}) \in Nat
    BY <1>2, <2>1, FS_CardinalityType
  <2>3. QED BY <2>1, <2>2
<1>4. Cardinality(Used') <= Cardinality(Used) + 1 /\ Cardinality(Used') \in Nat
  <2>1. IsFiniteSet(Used') /\ Cardinality(Used') <= Cardinality(Used \cup {i})
    BY <1>3, FS_Subset
  <2>2. QED BY <1>3, <2>1, FS_CardinalityType
<1>5. Cardinality(Coming) \in Nat
  BY <1>1, FS_CardinalityType DEF RoomLeft
<1>6. QED BY <1>1, <1>3, <1>4, <1>5 DEF RoomLeft, Around

LEMMA CreateStep ==
  ASSUME InvitationIInv, NEW p \in People, CreateOrganization(p)
  PROVE  InvitationIInv'
<1>1. RowsSafe /\ Around /\ OwnerRows /\ NothingYet /\ db[Org].status = "ABSENT"
      /\ begun < MaxBegun
  BY Parts DEF CreateOrganization
<1>2. /\ \A r \in Requests : At(r, "idle") /\ \A x \in Rows : lock[x] # r
      /\ \A i \in Invites : db[i] = Unissued
  BY <1>1, Parts DEF NothingYet, SlotSafe, At
<1>3. \A x \in Rows : lock[x] = None /\ dirty[x] = db[x]
  BY <1>1, <1>2 DEF RowsSafe, CleanUnlocked
<1>4. PICK i : i = NewInvite(db)
  OBVIOUS
<1>5. i \in Invites
  <2>1. \E j \in Invites : TRUE
    BY <1>1, RowLeft
  <2>2. QED BY <1>2, <1>4, <2>1 DEF NewInvite
<1>6. PICK v : v = Fresh("INITIAL_OWNER", p)
  OBVIOUS
<1>7. /\ v.kind = "INITIAL_OWNER" /\ v.email = p /\ ~v.consumed /\ ~v.revoked
      /\ v \in InviteRow /\ Live(v) /\ Addressed(v)
  <2>1. v = [kind |-> "INITIAL_OWNER", email |-> p, consumed |-> FALSE, revoked |-> FALSE]
    BY <1>6 DEF Fresh, Unissued
  <2>2. QED BY <2>1, RowKinds DEF InviteRow, Kinds, Live, Issued, Addressed
<1>8. PICK w : w = [db[Org] EXCEPT !.status = "PROVISIONING"]
  OBVIOUS
<1>9. w.status = "PROVISIONING" /\ w \in [status : OrgStates, version : Nat]
  BY <1>1, <1>8 DEF RowsSafe, RowsTyped, OrgStates
<1>10. /\ db' = [db EXCEPT ![Org] = w, ![i] = v] /\ dirty' = db' /\ lock' = lock /\ share' = share
       /\ req' = req /\ advisory' = advisory /\ expired' = expired /\ begun' = begun + 1
  BY <1>4, <1>6, <1>8 DEF CreateOrganization
<1>11. /\ DOMAIN db' = Rows /\ db'[Org] = w /\ db'[i] = v /\ dirty'[i] = v
       /\ \A x \in Rows : x # Org /\ x # i => db'[x] = db[x]
  BY <1>1, <1>5, <1>10, RowKinds DEF RowsSafe, RowsTyped
<1>12. /\ \A j \in Invites : j # i => db'[j] = Unissued /\ dirty'[j] = Unissued
       /\ ~Live(Unissued) /\ Addressed(Unissued) /\ ~Unissued.consumed
  <2>1. \A x : dirty'[x] = db'[x]
    BY <1>10
  <2>2. QED BY <1>2, <1>11, <2>1, RowKinds DEF Unissued, Live, Issued, Addressed
<1>13. RowsSafe'
  <2>1. RowsTyped(db)'
    <3>1. \A q \in People : db'[q] = db[q]
      BY <1>5, <1>11, RowKinds
    <3>2. \A j \in Invites : db'[j] \in InviteRow
      BY <1>1, <1>7, <1>11, RowKinds DEF RowsSafe, RowsTyped
    <3>3. QED BY <1>1, <1>5, <1>9, <1>11, <3>1, <3>2, RowKinds DEF RowsSafe, RowsTyped
  <2>2. RowsTyped(dirty)'
    BY <1>10, <2>1 DEF RowsTyped
  <2>3. \A j \in Invites : Addressed(db'[j]) /\ Addressed(dirty'[j])
    BY <1>7, <1>11, <1>12
  <2>4. OneAwaits'
    <3>1. \A j \in Invites : j # i => ~Live(db'[j]) /\ ~Live(dirty'[j])
      BY <1>12
    <3>2. QED BY <3>1 DEF OneAwaits
  <2>5. QED BY <1>1, <1>10, <2>1, <2>2, <2>3, <2>4 DEF RowsSafe, CleanUnlocked, Addressed
<1>14. Around'
  BY <1>1, <1>10 DEF Around
<1>15. OwnerRows'
  <2>1. OpenOwner' = {i} /\ Accepted' = {}
    BY <1>5, <1>7, <1>11, <1>12 DEF OpenOwner, Accepted
  <2>2. db'[Own] = None
    BY <1>1, <1>5, <1>11, RowKinds DEF OwnerRows
  <2>3. QED BY <1>9, <1>11, <2>1, <2>2 DEF OwnerRows
<1>16. NothingYet'
  BY <1>9, <1>11 DEF NothingYet
<1>17. RoomLeft'
  <2>1. Used' \subseteq Used \cup {i}
    BY <1>12 DEF Used
  <2>2. Coming' = Coming
    BY <1>10 DEF Coming
  <2>3. QED BY <1>1, <1>10, <2>1, <2>2, RoomTaken
<1>18. ASSUME NEW s \in Requests PROVE SlotSafe(s, req[s])'
  <2>1. req[s].op = None
    BY <1>2, Parts, SlotStaging, Stagings DEF At
  <2>2. SlotSafe(s, req[s]) /\ \A x \in Rows : lock'[x] # s
    BY <1>2, <1>10, Parts
  <2>3. req[s].found = None /\ req[s].pc = "idle"
    <3>1. req[s].found \in Invites \cup {None}
      BY <1>1 DEF Around, Request
    <3>2. req[s].found # None => Issued(db[req[s].found])
      BY <2>2 DEF SlotSafe, Knows
    <3>3. ~Issued(Unissued)
      BY DEF Issued, Unissued
    <3>4. QED BY <1>2, <3>1, <3>2, <3>3 DEF At
  <2>4. RequestShaped(req[s])' /\ Knows(s, req[s])'
    BY <1>10, <2>1, <2>2, <2>3, OpSets DEF SlotSafe, RequestShaped, Knows
  <2>5. HoldsInvitations(s, req[s])' /\ HoldsMembers(s, req[s])' /\ HoldsOrganization(s, req[s])'
    BY <1>10, <2>1, <2>2, OpSets, RowKinds
       DEF HoldsInvitations, HoldsMembers, HoldsOrganization, Joined
  <2>6. QED BY <2>2, <2>4, <2>5 DEF SlotSafe
<1>19. QED BY <1>13, <1>14, <1>15, <1>16, <1>17, <1>18, PartsNext

-----------------------------------------------------------------------------
(***************************************************************************)
(* Steps that write no row.                                                *)
(***************************************************************************)
\* q is p further on, and neither its invitations, nor its member, nor the rows
\* of the Organization are other ones.
SameInvitations(p, q) ==
  /\ q.op = p.op /\ q.invite = p.invite
  /\ q.op \in JoinOps \cup OwnerOps =>
       (q.pc \in {"join", "own", "activate", "commit"} <=>
        p.pc \in {"join", "own", "activate", "commit"})
  /\ q.op \in {"invite", "resend", "ownerResend"} =>
       (q.pc \in {"recheck", "claimOrg", "commit"} <=> p.pc \in {"recheck", "claimOrg", "commit"})
  /\ q.op = "ownerResend" /\ q.pc \in {"insert", "claimOrg", "commit"} =>
       q.found = p.found /\ p.pc \in {"insert", "claimOrg", "commit"}

SameMember(p, q) ==
  q.op = p.op /\ q.person = p.person /\ (Joined(q) <=> Joined(p))

SameOrganization(p, q) ==
  /\ q.op = p.op /\ q.person = p.person
  /\ q.op \in OwnerOps => /\ q.pc \in {"activate", "commit"} <=> p.pc \in {"activate", "commit"}
                          /\ q.pc = "commit" <=> p.pc = "commit"
  /\ q.op = "ownerResend" => (q.pc # "lockOrg" <=> p.pc # "lockOrg")
  /\ q.op = "disable" => (q.pc \in {"readOrg", "claimOrg"} <=> p.pc \in {"readOrg", "claimOrg"})

LEMMA KeepInvitations ==
  ASSUME NEW r, NEW p, NEW q, SlotSafe(r, p), SameInvitations(p, q), db' = db,
         p.op \in AllOps, \A i \in Invites : lock'[i] = lock[i] /\ dirty'[i] = dirty[i]
  PROVE  HoldsInvitations(r, q)'
<1>1. \A i \in Invites : /\ Ends(q, i)' <=> Ends(p, i)
                         /\ Inserts(q, i)' <=> Inserts(p, i)
  BY DEF Ends, Inserts, SameInvitations
<1>2. \A i \in Invites : Consumes(q, i)' <=> Consumes(p, i)
  BY DEF Consumes, SameInvitations
<1>3. HoldsInvitations(r, p)
  BY DEF SlotSafe
<1>4. q.op \in JoinOps \cup OwnerOps => p.invite \in Invites
  BY DEF SlotSafe, RequestShaped, SameInvitations
<1>5. /\ \A i \in Invites : lock'[i] = r => Ends(q, i)' \/ Consumes(q, i)' \/ Inserts(q, i)'
      /\ \A i, j \in Invites : lock'[i] = r /\ lock'[j] = r /\ Inserts(q, i)' /\ Inserts(q, j)'
                             => i = j
  BY <1>1, <1>2, <1>3 DEF HoldsInvitations
<1>6. /\ q.op \in JoinOps \cup OwnerOps /\ q.pc \in {"join", "own", "activate", "commit"} =>
           lock'[q.invite] = r
      /\ q.op = "ownerResend" /\ q.pc \in {"insert", "claimOrg", "commit"} =>
           q.found \in Invites /\ lock'[q.found] = r
  BY <1>3, <1>4 DEF HoldsInvitations, SameInvitations
<1>7. QED BY <1>5, <1>6 DEF HoldsInvitations

LEMMA KeepMembers ==
  ASSUME NEW r, NEW p, NEW q, SlotSafe(r, p), SameMember(p, q), db' = db,
         \A x \in People : lock'[x] = lock[x] /\ dirty'[x] = dirty[x]
  PROVE  HoldsMembers(r, q)'
<1>1. Joined(p) => p.person \in People
  BY DEF SlotSafe, RequestShaped, Joined, AllOps, PlatformOps, JoinOps, OwnerOps
<1>2. Joined(q)' <=> Joined(q)
  BY DEF Joined
<1>3. QED BY <1>1, <1>2 DEF SlotSafe, HoldsMembers, SameMember

LEMMA KeepOrganization ==
  ASSUME NEW r, NEW p, NEW q, SlotSafe(r, p), SameOrganization(p, q), db' = db,
         \A x \in {Own, Org} : lock'[x] = lock[x] /\ dirty'[x] = dirty[x]
  PROVE  HoldsOrganization(r, q)'
<1>1. lock'[Own] = lock[Own] /\ dirty'[Own] = dirty[Own]
      /\ lock'[Org] = lock[Org] /\ dirty'[Org] = dirty[Org]
  OBVIOUS
<1>2. HoldsOrganization(r, p)
  BY DEF SlotSafe
<1>3. q.op = p.op /\ q.person = p.person
  BY DEF SameOrganization
<1>4. /\ q.op \in OwnerOps /\ q.pc \in {"activate", "commit"} <=>
           p.op \in OwnerOps /\ p.pc \in {"activate", "commit"}
      /\ q.op = "ownerResend" /\ q.pc # "lockOrg" <=> p.op = "ownerResend" /\ p.pc # "lockOrg"
      /\ q.op = "disable" /\ q.pc \notin {"readOrg", "claimOrg"} <=>
           p.op = "disable" /\ p.pc \notin {"readOrg", "claimOrg"}
      /\ q.op \in OwnerOps /\ q.pc = "commit" <=> p.op \in OwnerOps /\ p.pc = "commit"
  BY DEF SameOrganization
<1>5. QED BY <1>1, <1>2, <1>3, <1>4 DEF HoldsOrganization

\* What is known goes on being so while r keeps its locks.
LEMMA KnowsNext ==
  ASSUME NEW r, NEW q, Knows(r, q), db' = db,
         \A i \in Invites : lock[i] = r => lock'[i] = r
  PROVE  Knows(r, q)'
<1>1. OpenOwner' = OpenOwner /\ OpenOwner \subseteq Invites
  BY DEF OpenOwner
<1>2. QED BY <1>1 DEF Knows

LEMMA MoveSafe ==
  ASSUME UNCHANGED rowVars, NEW r, NEW p, NEW q, SlotSafe(r, p), RequestShaped(q), Knows(r, q),
         p.op \in AllOps, SameInvitations(p, q), SameMember(p, q), SameOrganization(p, q),
         q.pc # "idle"
  PROVE  SlotSafe(r, q)'
<1>1. db' = db /\ lock' = lock /\ dirty' = dirty
  BY DEF rowVars
<1>2. HoldsInvitations(r, q)' /\ HoldsMembers(r, q)' /\ HoldsOrganization(r, q)'
  BY <1>1, KeepInvitations, KeepMembers, KeepOrganization
<1>3. Knows(r, q)'
  BY <1>1, KnowsNext
<1>4. QED BY <1>2, <1>3 DEF SlotSafe

\* The statements that only let the handler go on.
LEMMA ContinueStep ==
  ASSUME InvitationIInv, NEW r \in Requests, NEW stage, Goto(r, stage),
         UNCHANGED <<rowVars, otherVars>>, advisory' \in [People -> Requests \cup {None}],
         \/ At(r, "read") /\ stage = "advisory"
         \/ At(r, "advisory") /\ stage = "existing"
         \/ At(r, "find") /\ stage = "identity"
         \/ At(r, "ownerFind") /\ stage = "provisioning"
         \/ At(r, "provisioning") /\ stage = "identity"
         \/ At(r, "identity") /\ stage \in {"membership", "consume"}
         \/ At(r, "readOrg") /\ stage = "claimOrg"
         \/ At(r, "recheck") /\ stage = "commit"
  PROVE  InvitationIInv'
<1> DEFINE p == req[r]
<1>1. SlotSafe(r, p) /\ p \in Request /\ p.op \in AllOps \cup {None} /\ p.pc \in StageOf(p.op)
  BY Parts, SlotStaging
<1>2. PICK q : q = [p EXCEPT !.pc = stage]
  OBVIOUS
<1>3. /\ q.pc = stage /\ q.op = p.op /\ q.actor = p.actor /\ q.epoch = p.epoch
      /\ q.person = p.person /\ q.invite = p.invite /\ q.found = p.found
      /\ q.version = p.version /\ q.seen = p.seen /\ q.todo = p.todo /\ q \in Request
  BY <1>1, <1>2 DEF Request, Stages
<1>4. req' = [req EXCEPT ![r] = q]
  BY <1>2 DEF Goto
<1>5. /\ p.pc \in {"read", "advisory"} => p.op \in {"invite", "resend"}
      /\ p.pc = "find" => p.op \in JoinOps
      /\ p.pc \in {"ownerFind", "provisioning"} => p.op \in OwnerOps
      /\ p.pc = "identity" => p.op \in JoinOps \cup OwnerOps
      /\ p.pc = "readOrg" => p.op = "disable"
      /\ p.pc = "recheck" => p.op \in TenantOps
      /\ p.pc # "idle" => p.op \in AllOps
  BY <1>1, Stagings
<1>6. p.pc \in {"read", "advisory", "find", "ownerFind", "provisioning", "identity", "readOrg",
                "recheck"} /\ p.pc # "idle" /\ p.op \in AllOps
  BY <1>5 DEF At
<1>7. RequestShaped(q)
  <2>1. RequestShaped(p)
    BY <1>1 DEF SlotSafe
  <2>2. stage \notin {"replace", "insert", "bump", "close"}
    BY <1>6 DEF At
  <2>3. QED BY <1>3, <1>6, <2>1, <2>2 DEF RequestShaped
<1>8. Knows(r, q)
  <2>1. stage \in StageOf(p.op)
    BY <1>5 DEF At, StageOf, JoinOps, OwnerOps, TenantOps
  <2>2. Knows(r, p)
    BY <1>1 DEF SlotSafe
  <2>3. /\ stage \notin {"claimMember", "bump", "close"}
        /\ p.op = "ownerResend" => stage \notin {"replace", "insert", "claimOrg", "commit"}
        /\ p.op = "disable" => stage \notin {"close", "commit"}
    BY <1>5 DEF At, JoinOps, OwnerOps, TenantOps
  <2>4. QED BY <1>3, <2>1, <2>2, <2>3 DEF Knows
<1>9. SameInvitations(p, q) /\ SameMember(p, q) /\ SameOrganization(p, q)
  BY <1>3, <1>5 DEF At, SameInvitations, SameMember, SameOrganization, Joined, JoinOps, OwnerOps,
                    TenantOps
<1>10. Coming' \subseteq Coming
  <2>1. stage \in {"advisory", "existing"} => p.pc \in {"read", "advisory"}
    BY DEF At
  <2>2. q.pc \in {"read", "advisory", "existing", "replace", "insert", "lockOrg", "previous"} =>
          r \in Coming
    BY <1>3, <2>1 DEF At, Coming
  <2>3. QED BY <1>4, <2>2, ComingKept
<1>11. q.pc # "idle"
  BY <1>3 DEF At
<1>12. SlotSafe(r, q)'
  BY <1>1, <1>6, <1>7, <1>8, <1>9, <1>11, MoveSafe
<1>13. ~At(r, "idle")
  BY <1>6 DEF At
<1>14. QED BY <1>3, <1>4, <1>10, <1>12, <1>13, MoveOn

LEMMA SimpleStep ==
  ASSUME InvitationIInv, NEW r \in Requests,
         \/ ReadForResend(r) \/ LockAddress(r) \/ Recheck(r) \/ FindInvitation(r)
         \/ FindOwnerInvitation(r) \/ ReadProvisioning(r) \/ ReadIdentity(r) \/ ReadOrganization(r)
  PROVE  InvitationIInv'
<1>1. Around
  BY Parts
<1>2. ASSUME NEW stage, Continue(r, stage),
             \/ At(r, "read") /\ stage = "advisory"
             \/ At(r, "find") /\ stage = "identity"
             \/ At(r, "ownerFind") /\ stage = "provisioning"
             \/ At(r, "provisioning") /\ stage = "identity"
             \/ At(r, "identity") /\ stage \in {"membership", "consume"}
             \/ At(r, "readOrg") /\ stage = "claimOrg"
             \/ At(r, "recheck") /\ stage = "commit"
      PROVE  InvitationIInv'
  <2>1. Goto(r, stage) /\ UNCHANGED <<rowVars, otherVars>>
        /\ advisory' \in [People -> Requests \cup {None}]
    BY <1>1, <1>2 DEF Continue, Around
  <2>2. QED BY <1>2, <2>1, ContinueStep
<1>3. ASSUME Abort(r), ~At(r, "idle") PROVE InvitationIInv'
  BY <1>3, AbortStep
<1>4. CASE ReadForResend(r)
  BY <1>2, <1>3, <1>4 DEF ReadForResend, At
<1>5. CASE Recheck(r)
  BY <1>2, <1>3, <1>5 DEF Recheck, At
<1>6. CASE FindInvitation(r)
  BY <1>2, <1>3, <1>6 DEF FindInvitation, At
<1>7. CASE FindOwnerInvitation(r)
  BY <1>2, <1>3, <1>7 DEF FindOwnerInvitation, At
<1>8. CASE ReadProvisioning(r)
  BY <1>2, <1>3, <1>8 DEF ReadProvisioning, At
<1>9. CASE ReadIdentity(r)
  <2>1. PICK existing : existing = (req[r].op \in {"acceptExisting", "ownerAcceptExisting"})
    OBVIOUS
  <2>2. CASE Abort(r)
    BY <1>3, <1>9, <2>2 DEF ReadIdentity, At
  <2>3. CASE ~Abort(r)
    <3>1. Continue(r, "membership") \/ Continue(r, "consume")
      BY <1>9, <2>3 DEF ReadIdentity
    <3>2. At(r, "identity")
      BY <1>9 DEF ReadIdentity
    <3>3. QED BY <1>2, <3>1, <3>2
  <2>4. QED BY <2>2, <2>3
<1>10. CASE ReadOrganization(r)
  BY <1>2, <1>3, <1>10 DEF ReadOrganization, At
<1>11. CASE LockAddress(r)
  <2>1. Goto(r, "existing") /\ At(r, "advisory") /\ UNCHANGED <<rowVars, otherVars>>
    BY <1>11 DEF LockAddress
  <2>2. advisory' \in [People -> Requests \cup {None}]
    BY <1>1, <1>11 DEF LockAddress, Around
  <2>3. QED BY <2>1, <2>2, ContinueStep
<1>12. QED BY <1>4, <1>5, <1>6, <1>7, <1>8, <1>9, <1>10, <1>11

\* A slot that moves on with something more in its memory.
LEMMA ReadStep ==
  ASSUME InvitationIInv, NEW r \in Requests, NEW q \in Request, Become(r, q),
         UNCHANGED <<rowVars, advisory, otherVars>>, ~At(r, "idle"), q.pc # "idle",
         q.op = req[r].op, q.invite = req[r].invite, q.person = req[r].person,
         q.actor = req[r].actor,
         RequestShaped(q), Knows(r, q), SameInvitations(req[r], q), SameMember(req[r], q),
         SameOrganization(req[r], q),
         q.pc \in {"read", "advisory", "existing", "replace", "insert", "lockOrg", "previous"} =>
           r \in Coming
  PROVE  InvitationIInv'
<1>1. SlotSafe(r, req[r]) /\ Around /\ req[r].op \in AllOps
  BY Parts, SlotStaging, Stagings DEF At
<1>2. SlotSafe(r, q)'
  BY <1>1, MoveSafe
<1>3. req' = [req EXCEPT ![r] = q] /\ advisory' \in [People -> Requests \cup {None}]
  BY <1>1 DEF Become, Around
<1>4. Coming' \subseteq Coming
  BY <1>3, ComingKept
<1>5. QED BY <1>2, <1>3, <1>4, MoveOn

LEMMA ReadExistingStep ==
  ASSUME InvitationIInv, NEW r \in Requests, ReadExisting(r)
  PROVE  InvitationIInv'
<1> DEFINE p == req[r]
<1>1. SlotSafe(r, p) /\ p \in Request /\ p.op \in {"invite", "resend"} /\ p.pc = "existing"
      /\ ~At(r, "idle")
  BY Parts, SlotStaging, Stagings DEF ReadExisting, At
<1>2. CASE Abort(r)
  BY <1>1, <1>2, AbortStep
<1>3. CASE ~Abort(r)
  <2>1. PICK existing : existing = LiveTo(p.person)
    OBVIOUS
  <2>2. PICK found : found = IF existing = {} THEN None ELSE CHOOSE i \in existing : TRUE
    OBVIOUS
  <2> DEFINE stage == IF found = None THEN "insert" ELSE "replace"
  <2>3. PICK q : q = [p EXCEPT !.found = found, !.pc = stage]
    OBVIOUS
  <2>4. Become(r, q) /\ UNCHANGED <<rowVars, advisory, otherVars>>
        /\ (p.op = "resend" => found = p.invite)
    BY <1>3, <2>1, <2>2, <2>3 DEF ReadExisting
  <2>5. found = None \/ (found \in Invites /\ Issued(db[found]))
    <3>1. \A i \in existing : i \in Invites /\ Issued(db[i])
      BY <2>1 DEF LiveTo, Live
    <3>2. QED BY <2>2, <3>1
  <2>6. /\ q.op = p.op /\ q.actor = p.actor /\ q.epoch = p.epoch
        /\ q.person = p.person /\ q.invite = p.invite /\ q.found = found
        /\ q.version = p.version /\ q.seen = p.seen /\ q.todo = p.todo /\ q.pc = stage
    <3> HIDE DEF stage
    <3>1. QED BY <1>1, <2>3 DEF Request
  <2>7. q \in Request
    <3>1. stage \in Stages
      BY DEF Stages
    <3> HIDE DEF stage
    <3>2. QED BY <1>1, <2>3, <2>5, <3>1 DEF Request
  <2>8. RequestShaped(q)
    BY <1>1, <2>5, <2>6 DEF SlotSafe, RequestShaped
  <2>9. Knows(r, q)
    <3>1. q.pc \in StageOf(q.op)
      BY <1>1, <2>6 DEF StageOf, JoinOps, OwnerOps
    <3>2. QED BY <1>1, <2>5, <2>6, <3>1 DEF SlotSafe, Knows
  <2>10. SameInvitations(p, q) /\ SameMember(p, q) /\ SameOrganization(p, q)
    BY <1>1, <2>6 DEF SameInvitations, SameMember, SameOrganization, Joined, JoinOps, OwnerOps
  <2>11. r \in Coming /\ q.pc # "idle"
    BY <1>1, <2>6 DEF Coming
  <2>12. QED BY <1>1, <2>4, <2>6, <2>7, <2>8, <2>9, <2>10, <2>11, ReadStep
<1>4. QED BY <1>2, <1>3

LEMMA ReadMembershipStep ==
  ASSUME InvitationIInv, NEW r \in Requests, ReadMembership(r)
  PROVE  InvitationIInv'
<1> DEFINE p == req[r]
<1>1. SlotSafe(r, p) /\ p \in Request /\ p.op \in JoinOps \cup OwnerOps /\ p.pc = "membership"
      /\ ~At(r, "idle") /\ RowsSafe
  BY Parts, SlotStaging, Stagings DEF ReadMembership, At
<1>2. CASE Abort(r)
  BY <1>1, <1>2, AbortStep
<1>3. CASE ~Abort(r)
  <2>1. PICK status : status = db[p.person].status
    OBVIOUS
  <2>2. PICK q : q = [p EXCEPT !.seen = status, !.pc = "consume"]
    OBVIOUS
  <2>3. Become(r, q) /\ UNCHANGED <<rowVars, advisory, otherVars>>
    BY <1>3, <2>1, <2>2 DEF ReadMembership
  <2>4. status \in Statuses
    <3>1. p.person \in People
      BY <1>1 DEF SlotSafe, RequestShaped, AllOps, PlatformOps, JoinOps, OwnerOps
    <3>2. QED BY <1>1, <2>1, <3>1 DEF RowsSafe, RowsTyped, PersonRow
  <2>5. /\ q.op = p.op /\ q.actor = p.actor /\ q.epoch = p.epoch
        /\ q.person = p.person /\ q.invite = p.invite /\ q.found = p.found
        /\ q.version = p.version /\ q.seen = status /\ q.todo = p.todo /\ q.pc = "consume"
    BY <1>1, <2>2 DEF Request
  <2>6. q \in Request
    BY <1>1, <2>2, <2>4 DEF Request, Stages
  <2>7. RequestShaped(q)
    BY <1>1, <2>5 DEF SlotSafe, RequestShaped
  <2>8. Knows(r, q)
    <3>1. q.pc \in StageOf(q.op)
      BY <1>1, <2>5 DEF StageOf, JoinOps, OwnerOps
    <3>2. QED BY <1>1, <2>5, <3>1 DEF SlotSafe, Knows
  <2>9. SameInvitations(p, q) /\ SameMember(p, q) /\ SameOrganization(p, q)
    BY <1>1, <2>5 DEF SameInvitations, SameMember, SameOrganization, Joined, JoinOps, OwnerOps
  <2>10. QED BY <1>1, <2>3, <2>5, <2>6, <2>7, <2>8, <2>9, ReadStep
<1>4. QED BY <1>2, <1>3

LEMMA ReadPreviousStep ==
  ASSUME InvitationIInv, NEW r \in Requests, ReadPrevious(r)
  PROVE  InvitationIInv'
<1> DEFINE p == req[r]
<1>1. SlotSafe(r, p) /\ p \in Request /\ p.op = "ownerResend" /\ p.pc = "previous"
      /\ ~At(r, "idle") /\ OwnerRows
  BY Parts, SlotStaging, Stagings DEF ReadPrevious, At
<1>2. CASE Abort(r)
  BY <1>1, <1>2, AbortStep
<1>3. CASE ~Abort(r)
  <2>1. PICK i \in OpenOwner : Become(r, [p EXCEPT !.found = i, !.pc = "replace"])
    BY <1>3 DEF ReadPrevious, OpenOwner
  <2>2. PICK q : q = [p EXCEPT !.found = i, !.pc = "replace"]
    OBVIOUS
  <2>3. Become(r, q) /\ UNCHANGED <<rowVars, advisory, otherVars>>
    BY <1>3, <2>1, <2>2 DEF ReadPrevious
  <2>4. i \in Invites /\ Issued(db[i]) /\ OpenOwner \subseteq {i}
    BY <1>1 DEF OpenOwner, Live, OwnerRows
  <2>5. /\ q.op = p.op /\ q.actor = p.actor /\ q.epoch = p.epoch
        /\ q.person = p.person /\ q.invite = p.invite /\ q.found = i
        /\ q.version = p.version /\ q.seen = p.seen /\ q.todo = p.todo /\ q.pc = "replace"
    BY <1>1, <2>2 DEF Request
  <2>6. q \in Request
    BY <1>1, <2>2, <2>4 DEF Request, Stages
  <2>7. RequestShaped(q)
    BY <1>1, <2>4, <2>5 DEF SlotSafe, RequestShaped
  <2>8. Knows(r, q)
    <3>1. q.pc \in StageOf(q.op)
      BY <1>1, <2>5 DEF StageOf, JoinOps, OwnerOps
    <3>2. QED BY <1>1, <2>4, <2>5, <3>1 DEF SlotSafe, Knows
  <2>9. SameInvitations(p, q) /\ SameMember(p, q) /\ SameOrganization(p, q)
    BY <1>1, <2>5 DEF SameInvitations, SameMember, SameOrganization, Joined, JoinOps, OwnerOps
  <2>10. r \in Coming /\ q.pc # "idle"
    BY <1>1, <2>5 DEF Coming
  <2>11. QED BY <1>1, <2>3, <2>5, <2>6, <2>7, <2>8, <2>9, <2>10, ReadStep
<1>4. QED BY <1>2, <1>3

LEMMA ListMembersStep ==
  ASSUME InvitationIInv, NEW r \in Requests, ListMembers(r)
  PROVE  InvitationIInv'
<1> DEFINE p == req[r]
<1>1. SlotSafe(r, p) /\ p \in Request /\ p.op = "disable" /\ p.pc = "members" /\ ~At(r, "idle")
  BY Parts, SlotStaging, Stagings DEF ListMembers, At
<1>2. PICK members : members = {x \in People : db[x].status # "NONE"}
  OBVIOUS
<1> DEFINE stage == IF members = {} THEN "open" ELSE "bump"
<1>3. PICK q : q = [p EXCEPT !.todo = members, !.pc = stage]
  OBVIOUS
<1>4. Become(r, q) /\ UNCHANGED <<rowVars, advisory, otherVars>>
  BY <1>2, <1>3 DEF ListMembers
<1>5. /\ q.op = p.op /\ q.actor = p.actor /\ q.epoch = p.epoch
      /\ q.person = p.person /\ q.invite = p.invite /\ q.found = p.found
      /\ q.version = p.version /\ q.seen = p.seen /\ q.todo = members /\ q.pc = stage
  <2> HIDE DEF stage
  <2>1. QED BY <1>1, <1>3 DEF Request
<1>6. q \in Request
  <2>1. stage \in Stages
    BY DEF Stages
  <2> HIDE DEF stage
  <2>2. QED BY <1>1, <1>2, <1>3, <2>1 DEF Request
<1>7. RequestShaped(q)
  BY <1>1, <1>2, <1>5 DEF SlotSafe, RequestShaped
<1>8. Knows(r, q)
  <2>1. q.pc \in StageOf(q.op)
    BY <1>1, <1>5 DEF StageOf, JoinOps, OwnerOps
  <2>2. QED BY <1>1, <1>2, <1>5, <2>1 DEF SlotSafe, Knows
<1>9. SameInvitations(p, q) /\ SameMember(p, q) /\ SameOrganization(p, q)
  BY <1>1, <1>5 DEF SameInvitations, SameMember, SameOrganization, Joined, JoinOps, OwnerOps
<1>10. q.pc \in {"open", "bump"}
  BY <1>5
<1>11. QED BY <1>1, <1>4, <1>5, <1>6, <1>7, <1>8, <1>9, <1>10, ReadStep

LEMMA ListOpenStep ==
  ASSUME InvitationIInv, NEW r \in Requests, ListOpen(r)
  PROVE  InvitationIInv'
<1> DEFINE p == req[r]
<1>1. SlotSafe(r, p) /\ p \in Request /\ p.op = "disable" /\ p.pc = "open" /\ ~At(r, "idle")
  BY Parts, SlotStaging, Stagings DEF ListOpen, At
<1>2. PICK open : open = {i \in Invites : Live(db[i])}
  OBVIOUS
<1> DEFINE stage == IF open = {} THEN "commit" ELSE "close"
<1>3. PICK q : q = [p EXCEPT !.todo = open, !.pc = stage]
  OBVIOUS
<1>4. Become(r, q) /\ UNCHANGED <<rowVars, advisory, otherVars>>
  BY <1>2, <1>3 DEF ListOpen
<1>5. /\ q.op = p.op /\ q.actor = p.actor /\ q.epoch = p.epoch
      /\ q.person = p.person /\ q.invite = p.invite /\ q.found = p.found
      /\ q.version = p.version /\ q.seen = p.seen /\ q.todo = open /\ q.pc = stage
  <2> HIDE DEF stage
  <2>1. QED BY <1>1, <1>3 DEF Request
<1>6. q \in Request
  <2>1. stage \in Stages
    BY DEF Stages
  <2> HIDE DEF stage
  <2>2. QED BY <1>1, <1>2, <1>3, <2>1 DEF Request
<1>7. RequestShaped(q)
  BY <1>1, <1>2, <1>5 DEF SlotSafe, RequestShaped
<1>8. Knows(r, q)
  <2>1. q.pc \in StageOf(q.op)
    BY <1>1, <1>5 DEF StageOf, JoinOps, OwnerOps
  <2>2. OpenOwner \subseteq open /\ \A i \in open : Issued(db[i])
    BY <1>2 DEF OpenOwner, Live
  <2>3. QED BY <1>1, <1>5, <2>1, <2>2 DEF SlotSafe, Knows
<1>9. SameInvitations(p, q) /\ SameMember(p, q) /\ SameOrganization(p, q)
  BY <1>1, <1>5 DEF SameInvitations, SameMember, SameOrganization, Joined, JoinOps, OwnerOps
<1>10. q.pc \in {"commit", "close"}
  BY <1>5
<1>11. QED BY <1>1, <1>4, <1>5, <1>6, <1>7, <1>8, <1>9, <1>10, ReadStep

LEMMA ReadMemberStep ==
  ASSUME InvitationIInv, NEW r \in Requests, ReadMember(r)
  PROVE  InvitationIInv'
<1> DEFINE p == req[r]
<1>1. SlotSafe(r, p) /\ p \in Request /\ p.op \in {"suspend", "reactivate", "remove"}
      /\ p.pc = "member" /\ ~At(r, "idle") /\ RowsSafe
  BY Parts, SlotStaging, Stagings DEF ReadMember, At
<1>2. CASE Abort(r)
  BY <1>1, <1>2, AbortStep
<1>3. CASE ~Abort(r)
  <2>1. PICK row : row = db[p.person]
    OBVIOUS
  <2>2. PICK q : q = [p EXCEPT !.version = row.version, !.pc = "claimMember"]
    OBVIOUS
  <2>3. Become(r, q) /\ UNCHANGED <<rowVars, advisory, otherVars>> /\ MayChange(p.op, row.status)
    BY <1>3, <2>1, <2>2 DEF ReadMember
  <2>4. row.version \in Nat
    <3>1. p.person \in People
      BY <1>1 DEF SlotSafe, RequestShaped, AllOps, TenantOps, PlatformOps
    <3>2. QED BY <1>1, <2>1, <3>1 DEF RowsSafe, RowsTyped, PersonRow
  <2>5. row.status # "NONE"
    BY <1>1, <2>3 DEF MayChange
  <2>6. /\ q.op = p.op /\ q.actor = p.actor /\ q.epoch = p.epoch
        /\ q.person = p.person /\ q.invite = p.invite /\ q.found = p.found
        /\ q.version = row.version /\ q.seen = p.seen /\ q.todo = p.todo /\ q.pc = "claimMember"
    BY <1>1, <2>2 DEF Request
  <2>7. q \in Request
    BY <1>1, <2>2, <2>4 DEF Request, Stages
  <2>8. RequestShaped(q)
    BY <1>1, <2>6 DEF SlotSafe, RequestShaped
  <2>9. Knows(r, q)
    <3>1. q.pc \in StageOf(q.op)
      BY <1>1, <2>6 DEF StageOf, JoinOps, OwnerOps
    <3>2. QED BY <1>1, <2>1, <2>5, <2>6, <3>1 DEF SlotSafe, Knows
  <2>10. SameInvitations(p, q) /\ SameMember(p, q) /\ SameOrganization(p, q)
    BY <1>1, <2>6 DEF SameInvitations, SameMember, SameOrganization, Joined, JoinOps, OwnerOps
  <2>11. QED BY <1>1, <2>3, <2>6, <2>7, <2>8, <2>9, <2>10, ReadStep
<1>4. QED BY <1>2, <1>3

-----------------------------------------------------------------------------
(***************************************************************************)
(* Requests arriving.                                                      *)
(***************************************************************************)
LEMMA RoomAsked ==
  ASSUME InvitationIInv, NEW r, Coming' \subseteq Coming \cup {r}, Used' = Used,
         begun' = begun + 1, begun < MaxBegun
  PROVE  RoomLeft'
<1>1. RoomLeft /\ Around /\ MaxBegun \in Nat
  BY Parts, InvitationAssumption DEF InvitationAssumption
<1>2. IsFiniteSet(Used)
  BY FS_Subset, InvitationAssumption DEF Used, InvitationAssumption
<1>3. /\ IsFiniteSet(Coming \cup {r})
      /\ Cardinality(Coming \cup {r}) =
           IF r \in Coming THEN Cardinality(Coming) ELSE Cardinality(Coming) + 1
  BY <1>1, FS_AddElement DEF RoomLeft
<1>4. Cardinality(Used) \in Nat /\ Cardinality(Coming) \in Nat
      /\ Cardinality(Coming \cup {r}) \in Nat
  BY <1>1, <1>2, <1>3, FS_CardinalityType DEF RoomLeft
<1>5. IsFiniteSet(Coming') /\ Cardinality(Coming') <= Cardinality(Coming \cup {r})
  BY <1>3, FS_Subset
<1>6. Cardinality(Coming') \in Nat
  BY <1>5, FS_CardinalityType
<1>7. QED BY <1>1, <1>3, <1>4, <1>5, <1>6 DEF RoomLeft, Around

LEMMA FirstStages ==
  ASSUME NEW op \in AllOps
  PROVE  /\ FirstStage(op) \in StageOf(op) /\ FirstStage(op) \in Stages
         /\ FirstStage(op) \in {"advisory", "read", "claim", "member", "find", "ownerFind",
                                "lockOrg", "readOrg"}
         /\ op = "ownerResend" => FirstStage(op) = "lockOrg"
         /\ op = "disable" => FirstStage(op) = "readOrg"
<1>1. CASE op \in TenantOps
  BY <1>1, OpSets DEF FirstStage, StageOf, Stages, JoinOps, OwnerOps
<1>2. CASE op \in JoinOps
  BY <1>2, OpSets DEF FirstStage, StageOf, Stages, JoinOps, OwnerOps
<1>3. CASE op \in OwnerOps
  BY <1>3, OpSets DEF FirstStage, StageOf, Stages, JoinOps, OwnerOps
<1>4. CASE op \in PlatformOps
  BY <1>4, OpSets DEF FirstStage, StageOf, Stages, JoinOps, OwnerOps
<1>5. QED BY <1>1, <1>2, <1>3, <1>4 DEF AllOps

LEMMA BeginStep ==
  ASSUME InvitationIInv, NEW r \in Requests, NEW q \in Request, Begin(r, q),
         q.op \in AllOps, q.pc = FirstStage(q.op), q.found = None,
         RequestShaped(q), db[Org].status # "ABSENT",
         q.op \in {"resend", "revoke"} \cup JoinOps =>
           db[q.invite].kind = "COLLABORATOR" /\ db[q.invite].email = q.person,
         q.op \in OwnerOps =>
           db[q.invite].kind = "INITIAL_OWNER" /\ db[q.invite].email = q.person
  PROVE  InvitationIInv'
<1>1. SlotSafe(r, req[r]) /\ Around /\ At(r, "idle") /\ begun < MaxBegun
      /\ \A x \in Rows : lock[x] # r
  BY Parts DEF Begin, At, SlotSafe
<1>2. /\ req' = [req EXCEPT ![r] = q] /\ begun' = begun + 1
      /\ UNCHANGED <<rowVars, advisory, expired>>
  BY DEF Begin, Become
<1>3. /\ q.pc \in StageOf(q.op)
      /\ q.pc \in {"advisory", "read", "claim", "member", "find", "ownerFind", "lockOrg", "readOrg"}
      /\ q.op = "ownerResend" => q.pc = "lockOrg"
      /\ q.op = "disable" => q.pc = "readOrg"
  BY FirstStages
<1>4. SlotSafe(r, q)
  <2>1. Knows(r, q)
    BY <1>3 DEF Knows
  <2>2. HoldsInvitations(r, q)
    BY <1>1, <1>3, RowKinds DEF HoldsInvitations
  <2>3. HoldsMembers(r, q)
    BY <1>1, <1>3, RowKinds DEF HoldsMembers, Joined
  <2>4. HoldsOrganization(r, q)
    BY <1>1, <1>3, RowKinds DEF HoldsOrganization
  <2>5. QED BY <1>3, <2>1, <2>2, <2>3, <2>4 DEF SlotSafe
<1>5. SlotSafe(r, q)'
  BY <1>2, <1>4, SameSlot
<1>6. RoomLeft'
  <2>1. Coming' \subseteq Coming \cup {r}
    BY <1>1, <1>2 DEF Coming, Around
  <2>2. Used' = Used
    BY <1>2 DEF Used, rowVars
  <2>3. QED BY <1>1, <1>2, <2>1, <2>2, RoomAsked
<1>7. begun' \in Nat /\ advisory' \in [People -> Requests \cup {None}]
  BY <1>1, <1>2 DEF Around
<1>8. QED BY <1>2, <1>5, <1>6, <1>7, QuietStep

LEMMA Called ==
  ASSUME NEW op \in AllOps, NEW c, c = Call(op)
  PROVE  /\ c.op = op /\ c.pc = FirstStage(op) /\ c.actor = None /\ c.epoch = 0
         /\ c.person = None /\ c.invite = None /\ c.found = None /\ c.version = 0
         /\ c.seen = None /\ c.todo = {} /\ c \in Request
<1>1. PICK stage : stage = FirstStage(op)
  OBVIOUS
<1>2. stage \in Stages
  BY <1>1, FirstStages
<1>3. c = [Idle EXCEPT !.op = op, !.pc = stage]
  BY <1>1 DEF Call
<1>4. QED BY <1>1, <1>2, <1>3, IdleFields DEF Request

\* The addressee of an invitation.
LEMMA Addressee ==
  ASSUME InvitationIInv, NEW i \in Invites, db[i].kind \in Kinds
  PROVE  db[i].email \in People /\ db[Org].status # "ABSENT"
<1>1. Issued(db[i]) /\ ~Issued(Unissued)
  BY RowKinds DEF Issued, Unissued
<1>2. db[i].email \in People
  BY <1>1, Parts DEF RowsSafe, Addressed
<1>3. QED BY <1>1, <1>2, Parts DEF NothingYet

LEMMA TenantArrives ==
  ASSUME InvitationIInv, NEW r \in Requests, NEW actor \in People, NEW op, BeginTenant(r, actor, op)
  PROVE  InvitationIInv'
<1>1. op \in TenantOps /\ op \in AllOps /\ db[Org].status = "ACTIVE"
  BY DEF BeginTenant, AllOps
<1>2. PICK c : c = Call(op)
  OBVIOUS
<1>3. /\ c.op = op /\ c.pc = FirstStage(op) /\ c.actor = None /\ c.epoch = 0
      /\ c.person = None /\ c.invite = None /\ c.found = None /\ c.version = 0
      /\ c.seen = None /\ c.todo = {} /\ c \in Request
  BY <1>1, <1>2, Called
<1>4. PICK epoch : epoch = db[actor].version
  OBVIOUS
<1>5. epoch \in Nat
  BY <1>4, Parts DEF RowsSafe, RowsTyped, PersonRow
<1>6. PICK d : d = [c EXCEPT !.actor = actor, !.epoch = epoch]
  OBVIOUS
<1>7. /\ d.op = op /\ d.pc = FirstStage(op) /\ d.actor = actor /\ d.epoch = epoch
      /\ d.person = None /\ d.invite = None /\ d.found = None /\ d.version = 0
      /\ d.seen = None /\ d.todo = {} /\ d \in Request
  BY <1>3, <1>5, <1>6 DEF Request
<1>8. op \notin JoinOps /\ op \notin OwnerOps /\ op \notin PlatformOps
  BY <1>1, OpSets DEF JoinOps, OwnerOps, PlatformOps
<1>9. FirstStage(op) \notin {"replace", "insert", "bump", "close"}
  BY <1>1, FirstStages
<1>10. ASSUME op \in {"resend", "revoke"}, NEW i \in Invites, db[i].kind = "COLLABORATOR",
              Begin(r, [d EXCEPT !.invite = i, !.person = db[i].email])
       PROVE  InvitationIInv'
  <2>1. PICK e : e = db[i].email
    OBVIOUS
  <2>2. PICK q : q = [d EXCEPT !.invite = i, !.person = e]
    OBVIOUS
  <2>3. e \in People
    BY <1>10, <2>1, Addressee DEF Kinds
  <2>4. /\ q.op = op /\ q.pc = FirstStage(op) /\ q.actor = actor /\ q.person = e
        /\ q.invite = i /\ q.found = None /\ q \in Request
    BY <1>7, <2>2, <2>3 DEF Request
  <2>5. RequestShaped(q)
    BY <1>1, <1>8, <1>9, <2>3, <2>4 DEF RequestShaped
  <2>6. Begin(r, q)
    BY <1>10, <2>1, <2>2
  <2>7. QED BY <1>1, <1>8, <1>10, <2>1, <2>4, <2>5, <2>6, BeginStep
<1>11. ASSUME op \notin {"resend", "revoke"}, NEW p \in People,
              Begin(r, [d EXCEPT !.person = p])
       PROVE  InvitationIInv'
  <2>1. PICK q : q = [d EXCEPT !.person = p]
    OBVIOUS
  <2>2. /\ q.op = op /\ q.pc = FirstStage(op) /\ q.actor = actor /\ q.person = p
        /\ q.found = None /\ q \in Request
    BY <1>7, <2>1 DEF Request
  <2>3. RequestShaped(q)
    BY <1>1, <1>8, <1>9, <1>11, <2>2 DEF RequestShaped
  <2>4. Begin(r, q)
    BY <1>11, <2>1
  <2>5. QED BY <1>1, <1>8, <1>11, <2>2, <2>3, <2>4, BeginStep
<1>12. QED BY <1>2, <1>4, <1>6, <1>10, <1>11 DEF BeginTenant

LEMMA AcceptanceArrives ==
  ASSUME InvitationIInv, NEW r \in Requests, NEW op, NEW i \in Invites, BeginAcceptance(r, op, i)
  PROVE  InvitationIInv'
<1>1. op \in JoinOps \cup OwnerOps /\ op \in AllOps
      /\ db[i].kind = (IF op \in OwnerOps THEN "INITIAL_OWNER" ELSE "COLLABORATOR")
  BY DEF BeginAcceptance, AllOps
<1>2. op \notin TenantOps /\ (op \in JoinOps => op \notin OwnerOps)
  BY <1>1, OpSets DEF JoinOps, OwnerOps
<1>3. PICK c : c = Call(op)
  OBVIOUS
<1>4. /\ c.op = op /\ c.pc = FirstStage(op) /\ c.found = None /\ c \in Request
  BY <1>1, <1>3, Called
<1>5. PICK e : e = db[i].email
  OBVIOUS
<1>6. e \in People /\ db[Org].status # "ABSENT"
  BY <1>1, <1>5, Addressee DEF Kinds
<1>7. PICK q : q = [c EXCEPT !.invite = i, !.person = e]
  OBVIOUS
<1>8. /\ q.op = op /\ q.pc = FirstStage(op) /\ q.person = e /\ q.invite = i
      /\ q.found = None /\ q \in Request
  BY <1>4, <1>6, <1>7 DEF Request
<1>9. FirstStage(op) \notin {"replace", "insert", "bump", "close"}
  BY <1>1, FirstStages
<1>10. RequestShaped(q)
  BY <1>1, <1>2, <1>6, <1>8, <1>9 DEF RequestShaped
<1>11. Begin(r, q)
  BY <1>3, <1>5, <1>7 DEF BeginAcceptance
<1>12. op \notin {"resend", "revoke"}
  BY <1>1, OpSets
<1>13. QED BY <1>1, <1>2, <1>5, <1>6, <1>8, <1>10, <1>11, <1>12, BeginStep

LEMMA PlatformArrives ==
  ASSUME InvitationIInv, NEW r \in Requests, NEW op, NEW version \in Nat,
         BeginPlatform(r, op, version)
  PROVE  InvitationIInv'
<1>1. op \in PlatformOps /\ op \in AllOps /\ db[Org].status # "ABSENT"
  BY DEF BeginPlatform, AllOps
<1>2. op \notin TenantOps /\ op \notin JoinOps /\ op \notin OwnerOps
      /\ op \notin {"resend", "revoke"}
  BY <1>1, OpSets DEF JoinOps, OwnerOps, TenantOps
<1>3. PICK c : c = Call(op)
  OBVIOUS
<1>4. /\ c.op = op /\ c.pc = FirstStage(op) /\ c.found = None /\ c \in Request
  BY <1>1, <1>3, Called
<1>5. PICK q : q = [c EXCEPT !.version = version]
  OBVIOUS
<1>6. /\ q.op = op /\ q.pc = FirstStage(op) /\ q.found = None /\ q \in Request
  BY <1>4, <1>5 DEF Request
<1>7. FirstStage(op) \notin {"replace", "insert", "bump", "close"}
  BY <1>1, FirstStages
<1>8. RequestShaped(q)
  BY <1>1, <1>2, <1>6, <1>7 DEF RequestShaped
<1>9. Begin(r, q)
  BY <1>3, <1>5 DEF BeginPlatform
<1>10. QED BY <1>1, <1>2, <1>6, <1>8, <1>9, BeginStep

-----------------------------------------------------------------------------
(***************************************************************************)
(* UPDATEs.                                                                *)
(***************************************************************************)
LEMMA Unheld ==
  ASSUME NEW r, NEW x, Holders(r, x) = {} \/ Writer(r, x) = {}
  PROVE  lock[x] \in {None, r}
BY DEF Holders, Writer

LEMMA WriteWrites ==
  ASSUME Around, NEW r, NEW x, NEW v, Update(r, x, v), UNCHANGED <<advisory, otherVars>>
  PROVE  Writes(r, x, v)
BY DEF Around, Update, Writes

\* An invitation r may lock, if it is issued, stays so.
LEMMA StillIssued ==
  ASSUME InvitationIInv, NEW r \in Requests, NEW i \in Invites, lock[i] \in {None, r},
         Issued(db[i])
  PROVE  Issued(dirty[i])
<1>1. CASE lock[i] = r
  BY <1>1, LockedIssued, Parts
<1>2. CASE lock[i] = None
  <2>1. DOMAIN lock = Rows /\ i \in Rows
    BY Parts, RowKinds DEF RowsSafe
  <2>2. QED BY <1>2, <2>1, Parts DEF RowsSafe, CleanUnlocked
<1>3. QED BY <1>1, <1>2

LEMMA RoomSame ==
  ASSUME InvitationIInv, NEW r \in Requests, NEW x \in Rows, NEW v, Writes(r, x, v),
         x \in Invites => Issued(dirty[x]),
         NEW q, req' = [req EXCEPT ![r] = q],
         q.pc \in {"read", "advisory", "existing", "replace", "insert", "lockOrg", "previous"} =>
           r \in Coming
  PROVE  RoomLeft'
<1>1. Used' \subseteq Used
  <2>1. \A i \in Invites : i # x => dirty'[i] = dirty[i]
    BY Parts, WrittenRow, RowKinds
  <2>2. x \in Invites => x \in Used
    BY DEF Used, Issued, Unissued
  <2>3. QED BY <2>1, <2>2 DEF Used
<1>2. QED BY <1>1, RoomKept, ComingKept DEF Writes, otherVars

\* A row that is no invitation.
LEMMA OtherRowStep ==
  ASSUME InvitationIInv, NEW r \in Requests, ~At(r, "idle"), NEW x \in Rows \ Invites, NEW v,
         Writes(r, x, v), lock[x] \in {None, r}, RowTyped(x, v),
         NEW q \in Request, req' = [req EXCEPT ![r] = q], q.pc # "idle",
         RequestShaped(q), Knows(r, q), SameInvitations(req[r], q),
         HoldsMembers(r, q)', HoldsOrganization(r, q)',
         q.pc \in {"read", "advisory", "existing", "replace", "insert", "lockOrg", "previous"} =>
           r \in Coming
  PROVE  InvitationIInv'
<1>1. RowsSafe /\ SlotSafe(r, req[r]) /\ req[r].op \in AllOps
  BY Parts, SlotStaging, Stagings DEF At
<1>2. /\ lock'[x] = r /\ db' = db
      /\ \A y \in Rows : y # x => lock'[y] = lock[y] /\ dirty'[y] = dirty[y]
  BY <1>1, WrittenRow DEF Writes
<1>3. \A i \in Invites : lock'[i] = lock[i] /\ dirty'[i] = dirty[i]
  BY <1>2, RowKinds
<1>4. HoldsInvitations(r, q)'
  BY <1>1, <1>2, <1>3, KeepInvitations
<1>5. Knows(r, q)'
  BY <1>2, <1>3, KnowsNext
<1>6. SlotSafe(r, q)'
  BY <1>4, <1>5 DEF SlotSafe
<1>7. OneAwaits'
  BY <1>1, AwaitsElsewhere
<1>8. RoomLeft'
  BY RoomSame
<1>9. QED BY <1>6, <1>7, <1>8, WriteStep

\* A row of Invitation.
LEMMA InvitationStep ==
  ASSUME InvitationIInv, NEW r \in Requests, ~At(r, "idle"), NEW x \in Invites, NEW v,
         Writes(r, x, v), lock[x] \in {None, r}, v \in InviteRow, Addressed(v), OneAwaits',
         NEW q \in Request, req' = [req EXCEPT ![r] = q], q.pc # "idle",
         RequestShaped(q), Knows(r, q)', HoldsInvitations(r, q)',
         SameMember(req[r], q), SameOrganization(req[r], q), RoomLeft'
  PROVE  InvitationIInv'
<1>1. RowsSafe /\ SlotSafe(r, req[r]) /\ x \in Rows
  BY Parts, RowKinds
<1>2. /\ lock'[x] = r /\ db' = db
      /\ \A y \in Rows : y # x => lock'[y] = lock[y] /\ dirty'[y] = dirty[y]
  BY <1>1, WrittenRow DEF Writes
<1>3. HoldsMembers(r, q)'
  <2>1. \A y \in People : lock'[y] = lock[y] /\ dirty'[y] = dirty[y]
    BY <1>2, RowKinds
  <2>2. QED BY <1>1, <1>2, <2>1, KeepMembers
<1>4. HoldsOrganization(r, q)'
  <2>1. \A y \in {Own, Org} : lock'[y] = lock[y] /\ dirty'[y] = dirty[y]
    BY <1>2, RowKinds
  <2>2. QED BY <1>1, <1>2, <2>1, KeepOrganization
<1>5. SlotSafe(r, q)'
  BY <1>3, <1>4 DEF SlotSafe
<1>6. RowTyped(x, v)
  BY RowKinds DEF RowTyped
<1>7. QED BY <1>1, <1>5, <1>6, WriteStep

\* The invitations r holds at such a statement are those it has ended.
LEMMA HeldEnds ==
  ASSUME InvitationIInv, NEW r \in Requests, NEW i \in Invites, lock[i] = r,
         req[r].pc \in {"replace", "insert", "claim", "consume", "close"}
  PROVE  Ends(req[r], i)
BY Parts DEF SlotSafe, HoldsInvitations, Consumes, Inserts

LEMMA WrittenInvitation ==
  ASSUME InvitationIInv, NEW r \in Requests, NEW x \in Invites, NEW v, Writes(r, x, v),
         req[r].pc \in {"replace", "insert", "claim", "consume", "close"},
         NEW q, q.op = req[r].op,
         Ends(q, x)' \/ Consumes(q, x)' \/ Inserts(q, x)',
         q.op \in JoinOps \cup OwnerOps => q.invite = x,
         q.op = "ownerResend" /\ q.pc \in {"insert", "claimOrg", "commit"} =>
           q.found \in Invites /\ (q.found = x \/ lock[q.found] = r)
  PROVE  HoldsInvitations(r, q)'
<1>1. /\ lock'[x] = r /\ db' = db
      /\ \A i \in Invites : i # x => lock'[i] = lock[i] /\ dirty'[i] = dirty[i]
  BY Parts, WrittenRow, RowKinds DEF Writes
<1>2. ASSUME NEW i \in Invites, i # x, lock'[i] = r
      PROVE  Ends(q, i)' /\ Issued(db[i])
  <2>1. lock[i] = r /\ Ends(req[r], i)
    BY <1>1, <1>2, HeldEnds
  <2>2. QED BY <1>1, <1>2, <2>1 DEF Ends
<1>3. \A i \in Invites : Inserts(q, i)' => ~Issued(db[i])
  BY <1>1 DEF Inserts, Issued, Unissued
<1>4. /\ \A i \in Invites : lock'[i] = r => Ends(q, i)' \/ Consumes(q, i)' \/ Inserts(q, i)'
      /\ \A i, j \in Invites : lock'[i] = r /\ lock'[j] = r /\ Inserts(q, i)' /\ Inserts(q, j)'
                             => i = j
  BY <1>2, <1>3
<1>5. /\ q.op \in JoinOps \cup OwnerOps /\ q.pc \in {"join", "own", "activate", "commit"} =>
           lock'[q.invite] = r
      /\ q.op = "ownerResend" /\ q.pc \in {"insert", "claimOrg", "commit"} =>
           q.found \in Invites /\ lock'[q.found] = r
  BY <1>1
<1>6. QED BY <1>4, <1>5 DEF HoldsInvitations

\* The row of an invitation that r ends.
LEMMA EndedRow ==
  ASSUME InvitationIInv, NEW i \in Invites, Issued(db[i]),
         NEW v, v = [db[i] EXCEPT !.revoked = TRUE]
  PROVE  /\ v \in InviteRow /\ Addressed(v) /\ ~Live(v) /\ db[i] \in InviteRow
         /\ v.kind = db[i].kind /\ v.email = db[i].email /\ v.consumed = db[i].consumed
<1>1. db[i] \in InviteRow /\ Addressed(db[i])
  BY Parts DEF RowsSafe, RowsTyped
<1>2. v.kind = db[i].kind /\ v.email = db[i].email /\ v.consumed = db[i].consumed /\ v.revoked
      /\ v \in InviteRow
  BY <1>1 DEF InviteRow
<1>3. QED BY <1>1, <1>2 DEF Addressed, Issued, Live

\* r ends invitation i: Replace, RevokeInvitation and CloseInvitation.
LEMMA EndStep ==
  ASSUME InvitationIInv, NEW r \in Requests, NEW i \in Invites, NEW v, Writes(r, i, v),
         req[r].pc \in {"replace", "claim", "close"},
         req[r].op \in {"invite", "resend", "revoke", "ownerResend", "disable"},
         lock[i] \in {None, r}, Issued(db[i]), ~Live(v),
         v \in {db[i], [db[i] EXCEPT !.revoked = TRUE]},
         NEW q \in Request, req' = [req EXCEPT ![r] = q], q.op = req[r].op, q.pc # "idle",
         RequestShaped(q), Knows(r, q)',
         q.op = "ownerResend" /\ q.pc \in {"insert", "claimOrg", "commit"} =>
           q.found \in Invites /\ (q.found = i \/ lock[q.found] = r),
         SameMember(req[r], q), SameOrganization(req[r], q),
         q.pc \in {"read", "advisory", "existing", "replace", "insert", "lockOrg", "previous"} =>
           r \in Coming
  PROVE  InvitationIInv'
<1>1. RowsSafe /\ i \in Rows /\ ~At(r, "idle") /\ q.op \notin JoinOps \cup OwnerOps
  BY Parts, RowKinds DEF At, JoinOps, OwnerOps
<1>2. lock'[i] = r /\ dirty'[i] = v /\ db' = db
  BY <1>1, WrittenRow DEF Writes
<1>3. v \in InviteRow /\ Addressed(v)
  BY <1>1, EndedRow DEF RowsSafe, RowsTyped
<1>4. Ends(q, i)'
  BY <1>2 DEF Ends
<1>5. HoldsInvitations(r, q)'
  BY <1>1, <1>4, WrittenInvitation
<1>6. OneAwaits'
  BY <1>1, AwaitsEnded
<1>7. RoomLeft'
  <2>1. Issued(dirty[i])
    BY StillIssued
  <2>2. QED BY <1>1, <2>1, RoomSame
<1>8. QED BY <1>1, <1>3, <1>5, <1>6, <1>7, InvitationStep

LEMMA GoesTo ==
  ASSUME Around, NEW r \in Requests, NEW stage \in Stages, Goto(r, stage),
         NEW q, q = [req[r] EXCEPT !.pc = stage]
  PROVE  /\ req' = [req EXCEPT ![r] = q] /\ q \in Request
         /\ q.pc = stage /\ q.op = req[r].op /\ q.actor = req[r].actor
         /\ q.person = req[r].person /\ q.invite = req[r].invite /\ q.found = req[r].found
         /\ q.version = req[r].version /\ q.seen = req[r].seen /\ q.todo = req[r].todo
<1>1. req[r] \in Request /\ req' = [req EXCEPT ![r] = q]
  BY DEF Around, Goto
<1>2. QED BY <1>1 DEF Request

LEMMA ReplaceStep ==
  ASSUME InvitationIInv, NEW r \in Requests, Replace(r)
  PROVE  InvitationIInv'
<1> DEFINE p == req[r]
<1>1. SlotSafe(r, p) /\ p \in Request /\ p.op \in {"invite", "resend", "ownerResend"}
      /\ p.pc = "replace" /\ RowsSafe /\ Around
  BY Parts, SlotStaging, Stagings DEF Replace, At
<1>2. PICK i : i = p.found
  OBVIOUS
<1>3. i \in Invites /\ Issued(db[i]) /\ lock[i] \in {None, r}
  BY <1>1, <1>2, Unheld, RowKinds DEF SlotSafe, RequestShaped, Knows, Replace
<1>4. PICK v : v = [See(r, i) EXCEPT !.revoked = TRUE]
  OBVIOUS
<1>5. PICK w : w = [db[i] EXCEPT !.revoked = TRUE]
  OBVIOUS
<1>6. db[i] \in InviteRow /\ ~Live(w)
  BY <1>3, <1>5, EndedRow
<1>7. v = w
  <2>1. See(r, i) = db[i] \/ See(r, i) = w
    <3>1. CASE lock[i] = r
      BY <1>1, <1>3, <1>5, <3>1, HeldEnds DEF See, Ends
    <3>2. QED BY <3>1 DEF See
  <2>2. [w EXCEPT !.revoked = TRUE] = w
    BY <1>5, <1>6 DEF InviteRow
  <2>3. QED BY <1>4, <1>5, <2>1, <2>2
<1>8. PICK q : q = [p EXCEPT !.pc = "insert"]
  OBVIOUS
<1>9. Update(r, i, v) /\ Goto(r, "insert") /\ UNCHANGED <<advisory, otherVars>>
  BY <1>2, <1>4 DEF Replace, Write
<1>10. Writes(r, i, v)
  BY <1>1, <1>9, WriteWrites
<1>11. /\ req' = [req EXCEPT ![r] = q] /\ q \in Request
       /\ q.pc = "insert" /\ q.op = p.op /\ q.actor = p.actor /\ q.person = p.person
       /\ q.invite = p.invite /\ q.found = i /\ q.version = p.version /\ q.todo = p.todo
  <2>1. "insert" \in Stages
    BY DEF Stages
  <2>2. QED BY <1>1, <1>2, <1>8, <1>9, <2>1, GoesTo
<1>12. RequestShaped(q)
  BY <1>1, <1>3, <1>11 DEF SlotSafe, RequestShaped
<1>13. Knows(r, q)'
  <2>1. q.pc \in StageOf(q.op)
    BY <1>1, <1>11 DEF StageOf, JoinOps, OwnerOps
  <2>2. Knows(r, q)
    BY <1>1, <1>2, <1>11, <2>1 DEF SlotSafe, Knows
  <2>3. \A j \in Invites : lock[j] = r => lock'[j] = r
    BY <1>1, <1>3, <1>10, WrittenRow, RowKinds
  <2>4. QED BY <1>10, <2>2, <2>3, KnowsNext DEF Writes
<1>14. SameMember(p, q) /\ SameOrganization(p, q)
  BY <1>1, <1>11 DEF SameMember, SameOrganization, Joined, JoinOps, OwnerOps
<1>15. r \in Coming
  BY <1>1 DEF Coming
<1>16. QED BY <1>1, <1>3, <1>5, <1>6, <1>7, <1>10, <1>11, <1>12, <1>13, <1>14, <1>15, EndStep

LEMMA RevokeStep ==
  ASSUME InvitationIInv, NEW r \in Requests, RevokeInvitation(r)
  PROVE  InvitationIInv'
<1> DEFINE p == req[r]
<1>1. SlotSafe(r, p) /\ p \in Request /\ p.op = "revoke"
      /\ p.pc = "claim" /\ RowsSafe /\ Around /\ ~At(r, "idle")
  BY Parts, SlotStaging, Stagings DEF RevokeInvitation, At
<1>2. CASE Abort(r)
  BY <1>1, <1>2, AbortStep
<1>3. CASE ~Abort(r)
  <2>1. PICK i : i = p.invite
    OBVIOUS
  <2>2. Live(db[i]) /\ Holders(r, i) = {}
        /\ Write(r, i, [db[i] EXCEPT !.revoked = TRUE], "recheck")
    BY <1>3, <2>1 DEF RevokeInvitation
  <2>3. i \in Invites /\ Issued(db[i]) /\ lock[i] \in {None, r}
    BY <1>1, <2>1, <2>2, Unheld DEF SlotSafe, RequestShaped, Live
  <2>4. PICK v : v = [db[i] EXCEPT !.revoked = TRUE]
    OBVIOUS
  <2>5. ~Live(v)
    BY <2>3, <2>4, EndedRow
  <2>6. PICK q : q = [p EXCEPT !.pc = "recheck"]
    OBVIOUS
  <2>7. Update(r, i, v) /\ Goto(r, "recheck") /\ UNCHANGED <<advisory, otherVars>>
    BY <2>2, <2>4 DEF Write
  <2>8. Writes(r, i, v)
    BY <1>1, <2>7, WriteWrites
  <2>9. /\ req' = [req EXCEPT ![r] = q] /\ q \in Request
        /\ q.pc = "recheck" /\ q.op = p.op /\ q.actor = p.actor /\ q.person = p.person
        /\ q.invite = p.invite /\ q.found = p.found /\ q.version = p.version /\ q.todo = p.todo
    <3>1. "recheck" \in Stages
      BY DEF Stages
    <3>2. QED BY <1>1, <2>6, <2>7, <3>1, GoesTo
  <2>10. RequestShaped(q)
    BY <1>1, <2>9 DEF SlotSafe, RequestShaped
  <2>11. Knows(r, q)'
    <3>1. q.pc \in StageOf(q.op)
      BY <1>1, <2>9 DEF StageOf, JoinOps, OwnerOps
    <3>2. Knows(r, q)
      BY <1>1, <2>9, <3>1 DEF SlotSafe, Knows
    <3>3. \A j \in Invites : lock[j] = r => lock'[j] = r
      BY <1>1, <2>3, <2>8, WrittenRow, RowKinds
    <3>4. QED BY <2>8, <3>2, <3>3, KnowsNext DEF Writes
  <2>12. SameMember(p, q) /\ SameOrganization(p, q)
    BY <1>1, <2>9 DEF SameMember, SameOrganization, Joined, JoinOps, OwnerOps
  <2>13. QED BY <1>1, <2>3, <2>4, <2>5, <2>8, <2>9, <2>10, <2>11, <2>12, EndStep
<1>4. QED BY <1>2, <1>3

LEMMA CloseStep ==
  ASSUME InvitationIInv, NEW r \in Requests, NEW i \in Invites, CloseInvitation(r, i)
  PROVE  InvitationIInv'
<1> DEFINE p == req[r]
<1>1. SlotSafe(r, p) /\ p \in Request /\ p.op = "disable"
      /\ p.pc = "close" /\ RowsSafe /\ Around
  BY Parts, SlotStaging, Stagings DEF CloseInvitation, At
<1>2. PICK v : v = [db[i] EXCEPT !.revoked = @ \/ Live(db[i])]
  OBVIOUS
<1>3. PICK rest : rest = p.todo \ {i}
  OBVIOUS
<1>4. PICK stage : stage = IF rest = {} THEN "commit" ELSE "close"
  OBVIOUS
<1>5. PICK q : q = [p EXCEPT !.todo = rest, !.pc = stage]
  OBVIOUS
<1>6. /\ i \in p.todo /\ Holders(r, i) = {} /\ Update(r, i, v) /\ UNCHANGED <<advisory, otherVars>>
      /\ Become(r, q)
  BY <1>1, <1>2, <1>3, <1>4, <1>5 DEF CloseInvitation, EndOne
<1>7. Issued(db[i]) /\ lock[i] \in {None, r}
  BY <1>1, <1>6, Unheld DEF SlotSafe, Knows
<1>8. ~Live(v) /\ v \in {db[i], [db[i] EXCEPT !.revoked = TRUE]}
  <2>1. db[i] \in InviteRow
    BY <1>1 DEF RowsSafe, RowsTyped
  <2>2. CASE Live(db[i])
    <3>1. v = [db[i] EXCEPT !.revoked = TRUE]
      BY <1>2, <2>1, <2>2 DEF InviteRow
    <3>2. QED BY <1>7, <3>1, EndedRow
  <2>3. CASE ~Live(db[i])
    <3>1. v = db[i]
      BY <1>2, <2>1, <2>3 DEF InviteRow
    <3>2. QED BY <2>3, <3>1
  <2>4. QED BY <2>2, <2>3
<1>9. Writes(r, i, v)
  BY <1>1, <1>6, WriteWrites
<1>10. stage \in {"commit", "close"} /\ stage \in Stages /\ rest \in SUBSET (People \cup Invites)
       /\ (stage = "close" => rest \subseteq Invites)
  BY <1>1, <1>3, <1>4 DEF Stages, SlotSafe, RequestShaped
<1>11. /\ req' = [req EXCEPT ![r] = q] /\ q \in Request
       /\ q.pc = stage /\ q.op = p.op /\ q.actor = p.actor /\ q.person = p.person
       /\ q.invite = p.invite /\ q.found = p.found /\ q.version = p.version /\ q.todo = rest
  BY <1>1, <1>5, <1>6, <1>10 DEF Request, Become
<1>12. RequestShaped(q)
  BY <1>1, <1>10, <1>11 DEF SlotSafe, RequestShaped
<1>13. Knows(r, q)'
  <2>1. q.pc \in StageOf(q.op)
    BY <1>1, <1>10, <1>11 DEF StageOf, JoinOps, OwnerOps
  <2>2. Knows(r, p) /\ db' = db
    BY <1>1, <1>9 DEF SlotSafe, Writes
  <2>3. lock'[i] = r /\ \A j \in Invites : lock[j] = r => lock'[j] = r
    BY <1>1, <1>9, WrittenRow, RowKinds
  <2>4. OpenOwner' = OpenOwner /\ OpenOwner \subseteq Invites
    BY <2>2 DEF OpenOwner
  <2>5. \A j \in OpenOwner : lock'[j] = r \/ (q.pc = "close" /\ j \in q.todo)
    <3>1. \A j \in OpenOwner : lock[j] = r \/ j \in p.todo
      BY <1>1, <2>2 DEF Knows
    <3>2. q.pc # "close" => rest = {}
      BY <1>4, <1>11
    <3>3. QED BY <1>3, <1>10, <1>11, <2>3, <2>4, <3>1, <3>2
  <2>6. \A j \in rest : Issued(db[j])
    BY <1>1, <1>3, <2>2 DEF Knows
  <2>7. q.pc \notin {"claimMember", "bump"} /\ q.op \notin JoinOps \cup OwnerOps
    BY <1>1, <1>10, <1>11 DEF JoinOps, OwnerOps
  <2>8. QED BY <1>1, <1>11, <2>1, <2>2, <2>4, <2>5, <2>6, <2>7 DEF Knows
<1>14. SameMember(p, q) /\ SameOrganization(p, q)
  BY <1>1, <1>10, <1>11 DEF SameMember, SameOrganization, Joined, JoinOps, OwnerOps
<1>15. q.pc \in {"commit", "close"}
  BY <1>10, <1>11
<1>16. QED BY <1>1, <1>7, <1>8, <1>9, <1>11, <1>12, <1>13, <1>14, <1>15, EndStep

LEMMA ConsumeStep ==
  ASSUME InvitationIInv, NEW r \in Requests, Consume(r)
  PROVE  InvitationIInv'
<1> DEFINE p == req[r]
<1>1. SlotSafe(r, p) /\ p \in Request /\ p.op \in JoinOps \cup OwnerOps /\ p.op \in AllOps
      /\ p.pc = "consume" /\ RowsSafe /\ Around /\ ~At(r, "idle")
  BY Parts, SlotStaging, Stagings DEF Consume, At
<1>2. CASE Abort(r)
  BY <1>1, <1>2, AbortStep
<1>3. CASE ~Abort(r)
  <2>1. PICK i : i = p.invite
    OBVIOUS
  <2>2. Live(db[i]) /\ Holders(r, i) = {}
        /\ Write(r, i, [db[i] EXCEPT !.consumed = TRUE], "join")
    BY <1>3, <2>1 DEF Consume
  <2>3. i \in Invites /\ i \in Rows /\ Issued(db[i]) /\ lock[i] \in {None, r}
    BY <1>1, <2>1, <2>2, Unheld, RowKinds DEF SlotSafe, RequestShaped, Live
  <2>4. PICK v : v = [db[i] EXCEPT !.consumed = TRUE]
    OBVIOUS
  <2>5. v \in InviteRow /\ Addressed(v) /\ ~Live(v)
    <3>1. db[i] \in InviteRow /\ Addressed(db[i])
      BY <1>1, <2>3 DEF RowsSafe, RowsTyped
    <3>2. v.kind = db[i].kind /\ v.email = db[i].email /\ v.consumed /\ v \in InviteRow
      BY <2>4, <3>1 DEF InviteRow
    <3>3. QED BY <2>3, <3>1, <3>2 DEF Addressed, Issued, Live
  <2>6. PICK q : q = [p EXCEPT !.pc = "join"]
    OBVIOUS
  <2>7. Update(r, i, v) /\ Goto(r, "join") /\ UNCHANGED <<advisory, otherVars>>
    BY <2>2, <2>4 DEF Write
  <2>8. Writes(r, i, v)
    BY <1>1, <2>7, WriteWrites
  <2>9. /\ req' = [req EXCEPT ![r] = q] /\ q \in Request
        /\ q.pc = "join" /\ q.op = p.op /\ q.actor = p.actor /\ q.person = p.person
        /\ q.invite = i /\ q.found = p.found /\ q.version = p.version /\ q.todo = p.todo
    <3>1. "join" \in Stages
      BY DEF Stages
    <3>2. QED BY <1>1, <2>1, <2>6, <2>7, <3>1, GoesTo
  <2>10. RequestShaped(q)
    BY <1>1, <2>1, <2>9 DEF SlotSafe, RequestShaped
  <2>11. Knows(r, q)'
    <3>1. q.pc \in StageOf(q.op)
      BY <1>1, <2>9 DEF StageOf, JoinOps, OwnerOps
    <3>2. Knows(r, q)
      BY <1>1, <2>1, <2>9, <3>1 DEF SlotSafe, Knows
    <3>3. \A j \in Invites : lock[j] = r => lock'[j] = r
      BY <1>1, <2>3, <2>8, WrittenRow, RowKinds
    <3>4. QED BY <2>8, <3>2, <3>3, KnowsNext DEF Writes
  <2>12. SameMember(p, q) /\ SameOrganization(p, q)
    BY <1>1, <2>9 DEF SameMember, SameOrganization, Joined, JoinOps, OwnerOps
  <2>13. HoldsInvitations(r, q)'
    <3>1. Consumes(q, i)'
      <4>1. dirty'[i] = v /\ db' = db
        BY <1>1, <2>3, <2>8, WrittenRow DEF Writes
      <4>2. QED BY <1>1, <2>2, <2>4, <2>9, <4>1 DEF Consumes
    <3>2. q.op # "ownerResend"
      BY <1>1, <2>9 DEF JoinOps, OwnerOps
    <3>3. QED BY <1>1, <2>3, <2>8, <2>9, <3>1, <3>2, WrittenInvitation
  <2>14. OneAwaits'
    BY <1>1, <2>3, <2>5, <2>8, AwaitsEnded
  <2>15. RoomLeft'
    <3>1. Issued(dirty[i])
      BY <2>3, StillIssued
    <3>2. q.pc \notin {"read", "advisory", "existing", "replace", "insert", "lockOrg", "previous"}
      BY <2>9
    <3>3. QED BY <2>3, <2>8, <2>9, <3>1, <3>2, RoomSame
  <2>16. q.pc # "idle"
    BY <2>9
  <2>17. QED BY <1>1, <2>3, <2>5, <2>8, <2>9, <2>10, <2>11, <2>12, <2>13, <2>14, <2>15, <2>16,
                InvitationStep
<1>4. QED BY <1>2, <1>3

\* Whom a transaction about to insert an invitation writes it to.
LEMMA RecipientPerson ==
  ASSUME InvitationIInv, NEW r \in Requests, At(r, "insert")
  PROVE  Recipient(req[r]) \in People
<1>1. SlotSafe(r, req[r]) /\ req[r].pc = "insert"
      /\ req[r].op \in {"invite", "resend", "ownerResend"} /\ RowsSafe
  BY Parts, SlotStaging, Stagings DEF At
<1>2. CASE req[r].op = "ownerResend"
  <2>1. req[r].found \in Invites /\ lock[req[r].found] = r
    BY <1>1, <1>2 DEF SlotSafe, HoldsInvitations
  <2>2. Issued(dirty[req[r].found])
    BY <1>1, <2>1, LockedIssued
  <2>3. QED BY <1>1, <1>2, <2>1, <2>2 DEF RowsSafe, Addressed, Recipient
<1>3. CASE req[r].op # "ownerResend"
  BY <1>1, <1>3 DEF SlotSafe, RequestShaped, Recipient, AllOps, TenantOps, PlatformOps
<1>4. QED BY <1>2, <1>3

\* The partial unique index: nobody holds or awaits an invitation to the address
\* but r, who has ended it.
LEMMA AwaitsInserted ==
  ASSUME InvitationIInv, NEW r \in Requests, NEW x \in Invites, NEW v, Writes(r, x, v),
         db[x] = Unissued, IndexHolders(r, v.email) = {},
         ~\E i \in Invites : Live(See(r, i)) /\ See(r, i).email = v.email
  PROVE  OneAwaits'
<1>1. RowsSafe /\ OneAwaits /\ r # None /\ DOMAIN lock = Rows
  BY Parts, RowKinds DEF RowsSafe
<1>2. /\ lock'[x] = r /\ dirty'[x] = v /\ db' = db /\ x \in Rows
      /\ \A y \in Rows : y # x => lock'[y] = lock[y] /\ dirty'[y] = dirty[y]
  BY <1>1, WrittenRow, RowKinds DEF Writes
<1>3. ~Live(db[x])
  BY DEF Live, Issued, Unissued
<1>4. ASSUME NEW i \in Invites,
             (Live(db[i]) /\ db[i].email = v.email) \/ (Live(dirty[i]) /\ dirty[i].email = v.email)
      PROVE  lock[i] = r /\ ~(Live(dirty[i]) /\ dirty[i].email = v.email)
  <2>1. Holders(r, i) = {}
    <3>1. Holders(r, i) \subseteq IndexHolders(r, v.email)
      BY <1>4 DEF IndexHolders
    <3>2. QED BY <3>1
  <2>2. lock[i] \in {None, r} /\ i \in Rows
    BY <2>1, Unheld, RowKinds
  <2>3. ~(Live(See(r, i)) /\ See(r, i).email = v.email)
    OBVIOUS
  <2>4. lock[i] # None
    BY <1>1, <1>4, <2>2, <2>3 DEF RowsSafe, CleanUnlocked, See
  <2>5. QED BY <2>2, <2>3, <2>4 DEF See
<1>5. ASSUME NEW i \in Invites, NEW j \in Invites, i # j
      PROVE  /\ Live(db'[i]) /\ Live(db'[j]) => db'[i].email # db'[j].email
             /\ Live(dirty'[i]) /\ Live(dirty'[j]) => dirty'[i].email # dirty'[j].email
             /\ Live(db'[i]) /\ Live(dirty'[j]) /\ db'[i].email = dirty'[j].email =>
                  lock'[i] # None /\ lock'[i] = lock'[j]
  <2>1. i \in Rows /\ j \in Rows
    BY RowKinds
  <2>2. /\ Live(db[i]) /\ Live(db[j]) => db[i].email # db[j].email
        /\ Live(dirty[i]) /\ Live(dirty[j]) => dirty[i].email # dirty[j].email
        /\ Live(db[i]) /\ Live(dirty[j]) /\ db[i].email = dirty[j].email =>
             lock[i] # None /\ lock[i] = lock[j]
    BY <1>1, <1>5 DEF OneAwaits
  <2>3. CASE i = x
    <3>1. dirty'[i] = v /\ dirty'[j] = dirty[j] /\ ~Live(db'[i])
      BY <1>2, <1>3, <1>5, <2>1, <2>3
    <3>2. Live(dirty[j]) => dirty[j].email # v.email
      BY <1>4
    <3>3. QED BY <3>1, <3>2
  <2>4. CASE j = x
    <3>1. dirty'[j] = v /\ dirty'[i] = dirty[i] /\ ~Live(db'[j]) /\ db'[i] = db[i]
          /\ lock'[j] = r /\ lock'[i] = lock[i]
      BY <1>2, <1>3, <1>5, <2>1, <2>4
    <3>2. Live(dirty[i]) => dirty[i].email # v.email
      BY <1>4
    <3>3. Live(db[i]) /\ db[i].email = v.email => lock[i] = r
      BY <1>4
    <3>4. QED BY <1>1, <3>1, <3>2, <3>3
  <2>5. CASE i # x /\ j # x
    BY <1>2, <2>1, <2>2, <2>5
  <2>6. QED BY <2>3, <2>4, <2>5
<1>6. QED BY <1>5 DEF OneAwaits

\* The request that has inserted its invitation needs no other row.
LEMMA RoomUsed ==
  ASSUME InvitationIInv, NEW r \in Coming, NEW x, Used' \subseteq Used \cup {x},
         Coming' \subseteq Coming \ {r}, begun' = begun
  PROVE  RoomLeft'
<1>1. RoomLeft /\ Around /\ MaxBegun \in Nat
  BY Parts, InvitationAssumption DEF InvitationAssumption
<1>2. IsFiniteSet(Used)
  BY FS_Subset, InvitationAssumption DEF Used, InvitationAssumption
<1>3. /\ IsFiniteSet(Used \cup {x})
      /\ Cardinality(Used \cup {x}) =
             IF x \in Used THEN Cardinality(Used) ELSE Cardinality(Used) + 1
  BY <1>2, FS_AddElement
<1>4. IsFiniteSet(Used') /\ Cardinality(Used') <= Cardinality(Used \cup {x})
  BY <1>3, FS_Subset
<1>5. /\ IsFiniteSet(Coming \ {r})
      /\ Cardinality(Coming \ {r}) = Cardinality(Coming) - 1
  BY <1>1, FS_RemoveElement DEF RoomLeft
<1>6. IsFiniteSet(Coming') /\ Cardinality(Coming') <= Cardinality(Coming \ {r})
  BY <1>5, FS_Subset
<1>7. /\ Cardinality(Used) \in Nat /\ Cardinality(Coming) \in Nat /\ Cardinality(Used') \in Nat
      /\ Cardinality(Coming') \in Nat /\ Cardinality(Used \cup {x}) \in Nat
  BY <1>1, <1>2, <1>3, <1>4, <1>6, FS_CardinalityType DEF RoomLeft
<1>8. QED BY <1>1, <1>3, <1>4, <1>5, <1>6, <1>7 DEF RoomLeft, Around

LEMMA InsertStep ==
  ASSUME InvitationIInv, NEW r \in Requests, Insert(r)
  PROVE  InvitationIInv'
<1> DEFINE p == req[r]
<1>1. SlotSafe(r, p) /\ p \in Request /\ p.op \in {"invite", "resend", "ownerResend"}
      /\ p.pc = "insert" /\ RowsSafe /\ Around /\ ~At(r, "idle") /\ At(r, "insert")
  BY Parts, SlotStaging, Stagings DEF Insert, At
<1>2. CASE Abort(r)
  BY <1>1, <1>2, AbortStep
<1>3. CASE ~Abort(r)
  <2>1. PICK e : e = Recipient(p)
    OBVIOUS
  <2>2. PICK kind : kind = IF p.op = "ownerResend" THEN "INITIAL_OWNER" ELSE "COLLABORATOR"
    OBVIOUS
  <2>3. PICK stage : stage = IF p.op = "ownerResend" THEN "claimOrg" ELSE "recheck"
    OBVIOUS
  <2>4. PICK x : x = NewInvite(dirty)
    OBVIOUS
  <2>5. PICK v : v = Fresh(kind, e)
    OBVIOUS
  <2>6. /\ IndexHolders(r, e) = {}
        /\ ~\E i \in Invites : Live(See(r, i)) /\ See(r, i).email = e
        /\ Write(r, x, v, stage)
    BY <1>3, <2>1, <2>2, <2>3, <2>4, <2>5 DEF Insert
  <2>7. e \in People /\ r \in Coming
    BY <1>1, <2>1, RecipientPerson DEF Coming
  <2>8. /\ v.kind = kind /\ v.email = e /\ ~v.consumed /\ ~v.revoked
        /\ v \in InviteRow /\ Live(v) /\ Addressed(v)
    <3>1. v = [kind |-> kind, email |-> e, consumed |-> FALSE, revoked |-> FALSE]
      BY <2>5 DEF Fresh, Unissued
    <3>2. kind \in Kinds /\ kind # None
      BY <2>2, RowKinds DEF Kinds
    <3>3. QED BY <2>7, <3>1, <3>2 DEF InviteRow, Live, Issued, Addressed
  <2>9. x \in Invites /\ x \in Rows /\ dirty[x] = Unissued
    BY <2>4, <2>7, RowLeft, RowKinds
  <2>10. lock[x] = None /\ db[x] = Unissued
    <3>1. lock[x] \in Requests \cup {None} /\ DOMAIN lock = Rows
      BY <1>1, <2>9 DEF RowsSafe
    <3>2. ASSUME lock[x] # None PROVE FALSE
      <4>1. lock[x] \in Requests /\ SlotSafe(lock[x], req[lock[x]])
        BY <3>1, <3>2, Parts
      <4>2. Issued(dirty[x])
        BY <1>1, <2>9, <4>1, LockedIssued
      <4>3. QED BY <2>9, <4>2 DEF Issued, Unissued
    <3>3. QED BY <1>1, <2>9, <3>1, <3>2 DEF RowsSafe, CleanUnlocked
  <2>11. Update(r, x, v) /\ Goto(r, stage) /\ UNCHANGED <<advisory, otherVars>>
    BY <2>6 DEF Write
  <2>12. Writes(r, x, v)
    BY <1>1, <2>11, WriteWrites
  <2>13. PICK q : q = [p EXCEPT !.pc = stage]
    OBVIOUS
  <2>14. /\ req' = [req EXCEPT ![r] = q] /\ q \in Request
         /\ q.pc = stage /\ q.op = p.op /\ q.actor = p.actor /\ q.person = p.person
         /\ q.invite = p.invite /\ q.found = p.found /\ q.version = p.version /\ q.todo = p.todo
    <3>1. stage \in Stages
      BY <2>3 DEF Stages
    <3>2. QED BY <1>1, <2>11, <2>13, <3>1, GoesTo
  <2>15. RequestShaped(q)
    BY <1>1, <2>3, <2>14 DEF SlotSafe, RequestShaped
  <2>16. Knows(r, q)'
    <3>1. q.pc \in StageOf(q.op)
      BY <1>1, <2>3, <2>14 DEF StageOf, JoinOps, OwnerOps
    <3>2. Knows(r, q)
      BY <1>1, <2>3, <2>14, <3>1 DEF SlotSafe, Knows
    <3>3. \A j \in Invites : lock[j] = r => lock'[j] = r
      BY <1>1, <2>9, <2>12, WrittenRow, RowKinds
    <3>4. QED BY <2>12, <3>2, <3>3, KnowsNext DEF Writes
  <2>17. SameMember(p, q) /\ SameOrganization(p, q)
    BY <1>1, <2>3, <2>14 DEF SameMember, SameOrganization, Joined, JoinOps, OwnerOps
  <2>18. HoldsInvitations(r, q)'
    <3>1. dirty'[x] = v /\ db' = db
      BY <1>1, <2>9, <2>12, WrittenRow DEF Writes
    <3>2. Inserts(q, x)'
      BY <1>1, <2>2, <2>3, <2>8, <2>10, <2>14, <3>1 DEF Inserts
    <3>3. q.op = "ownerResend" => q.found \in Invites /\ lock[q.found] = r
      BY <1>1, <2>14 DEF SlotSafe, HoldsInvitations
    <3>4. q.op \notin JoinOps \cup OwnerOps
      BY <1>1, <2>14 DEF JoinOps, OwnerOps
    <3>5. QED BY <1>1, <2>9, <2>12, <2>14, <3>2, <3>3, <3>4, WrittenInvitation
  <2>19. OneAwaits'
    BY <2>6, <2>8, <2>9, <2>10, <2>12, AwaitsInserted
  <2>20. RoomLeft'
    <3>1. Used' \subseteq Used \cup {x}
      BY <1>1, <2>9, <2>12, WrittenRow, RowKinds DEF Used
    <3>2. Coming' \subseteq Coming \ {r}
      BY <1>1, <2>3, <2>14 DEF Coming, Around
    <3>3. begun' = begun
      BY <2>11 DEF otherVars
    <3>4. QED BY <2>7, <3>1, <3>2, <3>3, RoomUsed
  <2>21. q.pc # "idle"
    BY <2>3, <2>14
  <2>22. QED BY <1>1, <2>8, <2>9, <2>10, <2>12, <2>14, <2>15, <2>16, <2>17, <2>18, <2>19, <2>20,
                <2>21, InvitationStep
<1>4. QED BY <1>2, <1>3

\* A member's row, of somebody who has a membership: BumpMember and ClaimMember.
LEMMA MemberStep ==
  ASSUME InvitationIInv, NEW r \in Requests, ~At(r, "idle"), NEW x \in People, NEW v \in PersonRow,
         Writes(r, x, v), lock[x] \in {None, r}, db[x].status # "NONE",
         v.status # "NONE", v.version = db[x].version + 1,
         NEW q \in Request, req' = [req EXCEPT ![r] = q], q.pc # "idle", q.op = req[r].op,
         q.op \notin JoinOps \cup OwnerOps,
         RequestShaped(q), Knows(r, q), SameInvitations(req[r], q), SameOrganization(req[r], q),
         q.pc \notin {"read", "advisory", "existing", "replace", "insert", "lockOrg", "previous"}
  PROVE  InvitationIInv'
<1>1. RowsSafe /\ SlotSafe(r, req[r]) /\ x \in Rows
  BY Parts, RowKinds
<1>2. /\ lock'[x] = r /\ dirty'[x] = v /\ db' = db
      /\ \A y \in Rows : y # x => lock'[y] = lock[y] /\ dirty'[y] = dirty[y]
  <2>1. db' = db
    BY DEF Writes
  <2>2. QED BY <1>1, <2>1, WrittenRow
<1>3. HoldsMembers(r, q)'
  <2>1. ~Joined(req[r]) /\ ~Joined(q)
    BY DEF Joined
  <2>2. ASSUME NEW y \in People, lock'[y] = r
        PROVE  dirty'[y].version = db[y].version + 1 /\ dirty'[y].status # "NONE"
               /\ db[y].status # "NONE"
    <3>1. CASE y = x
      BY <1>2, <3>1
    <3>2. CASE y # x
      BY <1>1, <1>2, <2>1, <2>2, <3>2, RowKinds DEF SlotSafe, HoldsMembers
    <3>3. QED BY <3>1, <3>2
  <2>3. QED BY <1>2, <2>1, <2>2 DEF HoldsMembers, Joined
<1>4. HoldsOrganization(r, q)'
  <2>1. \A y \in {Own, Org} : lock'[y] = lock[y] /\ dirty'[y] = dirty[y]
    BY <1>2, RowKinds
  <2>2. QED BY <1>1, <1>2, <2>1, KeepOrganization
<1>5. x \in Rows \ Invites /\ RowTyped(x, v)
  BY RowKinds DEF RowTyped
<1>6. QED BY <1>3, <1>4, <1>5, OtherRowStep

LEMMA BumpStep ==
  ASSUME InvitationIInv, NEW r \in Requests, NEW x \in People, BumpMember(r, x)
  PROVE  InvitationIInv'
<1> DEFINE p == req[r]
<1>1. SlotSafe(r, p) /\ p \in Request /\ p.op = "disable"
      /\ p.pc = "bump" /\ RowsSafe /\ Around /\ ~At(r, "idle")
  BY Parts, SlotStaging, Stagings DEF BumpMember, At
<1>2. PICK v : v = [db[x] EXCEPT !.version = @ + 1]
  OBVIOUS
<1>3. PICK rest : rest = p.todo \ {x}
  OBVIOUS
<1>4. PICK stage : stage = IF rest = {} THEN "open" ELSE "bump"
  OBVIOUS
<1>5. PICK q : q = [p EXCEPT !.todo = rest, !.pc = stage]
  OBVIOUS
<1>6. /\ x \in p.todo /\ Holders(r, x) = {} /\ Update(r, x, v) /\ UNCHANGED <<advisory, otherVars>>
      /\ Become(r, q)
  BY <1>1, <1>2, <1>3, <1>4, <1>5 DEF BumpMember, EndOne
<1>7. db[x].status # "NONE" /\ lock[x] \in {None, r} /\ db[x] \in PersonRow
  BY <1>1, <1>6, Unheld DEF SlotSafe, Knows, RowsSafe, RowsTyped
<1>8. v \in PersonRow /\ v.status # "NONE" /\ v.version = db[x].version + 1
  BY <1>2, <1>7 DEF PersonRow
<1>9. Writes(r, x, v)
  BY <1>1, <1>6, WriteWrites
<1>10. stage \in {"open", "bump"} /\ stage \in Stages /\ rest \in SUBSET (People \cup Invites)
       /\ rest \subseteq People /\ rest \subseteq p.todo
  BY <1>1, <1>3, <1>4 DEF Stages, SlotSafe, RequestShaped
<1>11. /\ req' = [req EXCEPT ![r] = q] /\ q \in Request
       /\ q.pc = stage /\ q.op = p.op /\ q.actor = p.actor /\ q.person = p.person
       /\ q.invite = p.invite /\ q.found = p.found /\ q.version = p.version /\ q.todo = rest
  BY <1>1, <1>5, <1>6, <1>10 DEF Request, Become
<1>12. RequestShaped(q)
  BY <1>1, <1>10, <1>11 DEF SlotSafe, RequestShaped
<1>13. Knows(r, q)
  <2>1. q.pc \in StageOf(q.op)
    BY <1>1, <1>10, <1>11 DEF StageOf, JoinOps, OwnerOps
  <2>2. QED BY <1>1, <1>10, <1>11, <2>1 DEF SlotSafe, Knows
<1>14. SameInvitations(p, q) /\ SameOrganization(p, q) /\ q.op \notin JoinOps \cup OwnerOps
  BY <1>1, <1>10, <1>11 DEF SameInvitations, SameOrganization, JoinOps, OwnerOps
<1>15. q.pc \in {"open", "bump"}
  BY <1>10, <1>11
<1>16. QED BY <1>1, <1>7, <1>8, <1>9, <1>11, <1>12, <1>13, <1>14, <1>15, MemberStep

LEMMA ClaimMemberStep ==
  ASSUME InvitationIInv, NEW r \in Requests, ClaimMember(r)
  PROVE  InvitationIInv'
<1> DEFINE p == req[r]
<1>1. SlotSafe(r, p) /\ p \in Request /\ p.op \in {"suspend", "reactivate", "remove"}
      /\ p.pc = "claimMember" /\ RowsSafe /\ Around /\ ~At(r, "idle")
  BY Parts, SlotStaging, Stagings DEF ClaimMember, At
<1>2. CASE Abort(r)
  BY <1>1, <1>2, AbortStep
<1>3. CASE ~Abort(r)
  <2>1. PICK x : x = p.person
    OBVIOUS
  <2>2. PICK status : status = NewStatus(p.op)
    OBVIOUS
  <2>3. PICK v : v = [db[x] EXCEPT !.status = status, !.version = @ + 1]
    OBVIOUS
  <2>4. Holders(r, x) = {} /\ Write(r, x, v, "recheck")
    BY <1>3, <2>1, <2>2, <2>3 DEF ClaimMember
  <2>5. x \in People /\ db[x].status # "NONE" /\ lock[x] \in {None, r} /\ db[x] \in PersonRow
    <3>1. x \in People
      BY <1>1, <2>1 DEF SlotSafe, RequestShaped, AllOps, TenantOps, PlatformOps
    <3>2. db[x].status # "NONE"
      BY <1>1, <2>1 DEF SlotSafe, Knows
    <3>3. db[x] \in PersonRow
      BY <1>1, <3>1 DEF RowsSafe, RowsTyped
    <3>4. QED BY <2>4, <3>1, <3>2, <3>3, Unheld
  <2>6. status \in Statuses /\ status # "NONE"
    BY <2>2 DEF NewStatus, Statuses
  <2>7. v \in PersonRow /\ v.status # "NONE" /\ v.version = db[x].version + 1
    <3>1. PICK row \in PersonRow : row = db[x]
      BY <2>5
    <3>2. v = [row EXCEPT !.status = status, !.version = row.version + 1]
      BY <2>3, <3>1
    <3>3. row.version \in Nat /\ row.identity \in BOOLEAN /\ row.profile \in Profiles
      BY DEF PersonRow
    <3>4. v = [identity |-> row.identity, status |-> status, profile |-> row.profile,
               version |-> row.version + 1]
      BY <3>2 DEF PersonRow
    <3>5. v \in PersonRow
      BY <2>6, <3>3, <3>4 DEF PersonRow
    <3>6. QED BY <2>6, <3>1, <3>4, <3>5
  <2>8. Update(r, x, v) /\ Goto(r, "recheck") /\ UNCHANGED <<advisory, otherVars>>
    BY <2>4 DEF Write
  <2>9. Writes(r, x, v)
    BY <1>1, <2>8, WriteWrites
  <2>10. PICK q : q = [p EXCEPT !.pc = "recheck"]
    OBVIOUS
  <2>11. /\ req' = [req EXCEPT ![r] = q] /\ q \in Request
         /\ q.pc = "recheck" /\ q.op = p.op /\ q.actor = p.actor /\ q.person = p.person
         /\ q.invite = p.invite /\ q.found = p.found /\ q.version = p.version /\ q.todo = p.todo
    <3>1. "recheck" \in Stages
      BY DEF Stages
    <3>2. QED BY <1>1, <2>8, <2>10, <3>1, GoesTo
  <2>12. RequestShaped(q)
    BY <1>1, <2>11 DEF SlotSafe, RequestShaped
  <2>13. Knows(r, q)
    <3>1. q.pc \in StageOf(q.op)
      BY <1>1, <2>11 DEF StageOf, JoinOps, OwnerOps
    <3>2. QED BY <1>1, <2>11, <3>1 DEF SlotSafe, Knows
  <2>14. SameInvitations(p, q) /\ SameOrganization(p, q) /\ q.op \notin JoinOps \cup OwnerOps
    BY <1>1, <2>11 DEF SameInvitations, SameOrganization, JoinOps, OwnerOps
  <2>15. QED BY <1>1, <2>5, <2>7, <2>9, <2>11, <2>12, <2>13, <2>14, MemberStep
<1>4. QED BY <1>2, <1>3

LEMMA JoinStep ==
  ASSUME InvitationIInv, NEW r \in Requests, Join(r)
  PROVE  InvitationIInv'
<1> DEFINE p == req[r]
<1>1. SlotSafe(r, p) /\ p \in Request /\ p.op \in JoinOps \cup OwnerOps /\ p.op \in AllOps
      /\ p.pc = "join" /\ RowsSafe /\ Around /\ ~At(r, "idle")
  BY Parts, SlotStaging, Stagings DEF Join, At
<1>2. CASE Abort(r)
  BY <1>1, <1>2, AbortStep
<1>3. CASE ~Abort(r)
  <2>1. PICK x : x = p.person
    OBVIOUS
  <2>2. PICK profile : profile = IF p.op \in OwnerOps THEN "Administrator" ELSE db[x].profile
    OBVIOUS
  <2>3. PICK v : v = [identity |-> TRUE, status |-> "ACTIVE", version |-> db[x].version + 1,
                      profile |-> profile]
    OBVIOUS
  <2>4. PICK stage : stage = IF p.op \in OwnerOps THEN "own" ELSE "commit"
    OBVIOUS
  <2>5. /\ Holders(r, x) = {} /\ lock' = [lock EXCEPT ![x] = r] /\ dirty' = [dirty EXCEPT ![x] = v]
        /\ share' \in {[share EXCEPT ![Org] = @ \cup {r}], share}
        /\ Goto(r, stage) /\ UNCHANGED <<db, advisory, otherVars>>
    BY <1>3, <2>1, <2>2, <2>3, <2>4 DEF Join
  <2>6. x \in People /\ x \in Rows \ Invites /\ lock[x] \in {None, r} /\ db[x] \in PersonRow
    <3>1. x \in People
      BY <1>1, <2>1 DEF SlotSafe, RequestShaped, AllOps, JoinOps, OwnerOps, PlatformOps
    <3>2. QED BY <1>1, <2>5, <3>1, Unheld, RowKinds DEF RowsSafe, RowsTyped
  <2>7. v \in PersonRow /\ v.status # "NONE" /\ v.version = db[x].version + 1
    <3>1. profile \in Profiles
      BY <2>2, <2>6 DEF PersonRow, Profiles
    <3>2. QED BY <2>3, <2>6, <3>1 DEF PersonRow, Statuses
  <2>8. Writes(r, x, v)
    <3>1. share' \in [Rows -> SUBSET Requests]
      BY <1>1, <2>5, RowKinds DEF Around
    <3>2. QED BY <2>5, <3>1 DEF Writes
  <2>9. PICK q : q = [p EXCEPT !.pc = stage]
    OBVIOUS
  <2>10. /\ req' = [req EXCEPT ![r] = q] /\ q \in Request
         /\ q.pc = stage /\ q.op = p.op /\ q.actor = p.actor /\ q.person = x
         /\ q.invite = p.invite /\ q.found = p.found /\ q.version = p.version /\ q.todo = p.todo
    <3>1. stage \in Stages
      BY <2>4 DEF Stages
    <3>2. QED BY <1>1, <2>1, <2>5, <2>9, <3>1, GoesTo
  <2>11. RequestShaped(q)
    BY <1>1, <2>1, <2>4, <2>10 DEF SlotSafe, RequestShaped
  <2>12. Knows(r, q)
    <3>1. q.pc \in StageOf(q.op)
      BY <1>1, <2>4, <2>10 DEF StageOf, JoinOps, OwnerOps
    <3>2. QED BY <1>1, <2>1, <2>4, <2>10, <3>1 DEF SlotSafe, Knows, JoinOps, OwnerOps
  <2>13. SameInvitations(p, q) /\ SameOrganization(p, q)
    BY <1>1, <2>1, <2>4, <2>10 DEF SameInvitations, SameOrganization, JoinOps, OwnerOps
  <2>14. HoldsMembers(r, q)'
    <3>1. /\ lock'[x] = r /\ dirty'[x] = v /\ db' = db
          /\ \A y \in Rows : y # x => lock'[y] = lock[y] /\ dirty'[y] = dirty[y]
      BY <1>1, <2>6, <2>8, WrittenRow DEF Writes
    <3>2. Joined(q) /\ ~Joined(p)
      BY <1>1, <2>4, <2>10 DEF Joined
    <3>3. ASSUME NEW y \in People, lock'[y] = r
          PROVE  dirty'[y].version = db[y].version + 1 /\ dirty'[y].status # "NONE"
                 /\ (db[y].status = "NONE" => y = x)
      <4>1. CASE y = x
        BY <2>7, <3>1, <4>1
      <4>2. CASE y # x
        BY <1>1, <3>1, <3>2, <3>3, <4>2, RowKinds DEF SlotSafe, HoldsMembers
      <4>3. QED BY <4>1, <4>2
    <3>4. QED BY <2>10, <3>1, <3>2, <3>3 DEF HoldsMembers, Joined
  <2>15. HoldsOrganization(r, q)'
    <3>1. \A y \in {Own, Org} : lock'[y] = lock[y] /\ dirty'[y] = dirty[y]
      BY <1>1, <2>6, <2>8, WrittenRow, RowKinds
    <3>2. QED BY <1>1, <2>8, <2>13, <3>1, KeepOrganization DEF Writes
  <2>16. RowTyped(x, v)
    BY <2>6, <2>7, RowKinds DEF RowTyped
  <2>17. q.pc \in {"own", "commit"}
    BY <2>4, <2>10
  <2>18. QED BY <1>1, <2>6, <2>8, <2>10, <2>11, <2>12, <2>13, <2>14, <2>15, <2>16, <2>17,
                OtherRowStep
<1>4. QED BY <1>2, <1>3

\* A row of the Organization or of its owner.
LEMMA OrganizationRowStep ==
  ASSUME InvitationIInv, NEW r \in Requests, ~At(r, "idle"), NEW x \in {Own, Org}, NEW v,
         Writes(r, x, v), lock[x] \in {None, r}, RowTyped(x, v),
         NEW q \in Request, req' = [req EXCEPT ![r] = q], q.pc # "idle",
         RequestShaped(q), Knows(r, q), SameInvitations(req[r], q), SameMember(req[r], q),
         HoldsOrganization(r, q)',
         q.pc \in {"read", "advisory", "existing", "replace", "insert", "lockOrg", "previous"} =>
           r \in Coming
  PROVE  InvitationIInv'
<1>1. RowsSafe /\ SlotSafe(r, req[r]) /\ x \in Rows \ Invites /\ db' = db
  BY Parts, RowKinds DEF Writes
<1>2. \A y \in People : lock'[y] = lock[y] /\ dirty'[y] = dirty[y]
  BY <1>1, WrittenRow, RowKinds
<1>3. HoldsMembers(r, q)'
  BY <1>1, <1>2, KeepMembers
<1>4. QED BY <1>1, <1>3, OtherRowStep

\* What the lock of x does to the rows of the Organization.
LEMMA OrganizationRow ==
  ASSUME RowsSafe, NEW r, NEW x \in {Own, Org}, NEW v, Writes(r, x, v)
  PROVE  /\ lock'[x] = r /\ dirty'[x] = v /\ db' = db
         /\ x = Own => lock'[Org] = lock[Org] /\ dirty'[Org] = dirty[Org]
         /\ x = Org => lock'[Own] = lock[Own] /\ dirty'[Own] = dirty[Own]
<1>1. x \in Rows /\ db' = db
  BY RowKinds DEF Writes
<1>2. QED BY <1>1, WrittenRow, RowKinds

LEMMA CreateOwnershipStep ==
  ASSUME InvitationIInv, NEW r \in Requests, CreateOwnership(r)
  PROVE  InvitationIInv'
<1> DEFINE p == req[r]
<1>1. SlotSafe(r, p) /\ p \in Request /\ p.op \in OwnerOps /\ p.op \in AllOps
      /\ p.pc = "own" /\ RowsSafe /\ Around /\ ~At(r, "idle")
  BY Parts, SlotStaging, Stagings DEF CreateOwnership, At
<1>2. CASE Abort(r)
  BY <1>1, <1>2, AbortStep
<1>3. CASE ~Abort(r)
  <2>1. PICK v : v = p.person
    OBVIOUS
  <2>2. db[Own] = None /\ Holders(r, Own) = {} /\ Write(r, Own, v, "activate")
    BY <1>3, <2>1 DEF CreateOwnership
  <2>3. lock[Own] \in {None, r} /\ v \in People /\ RowTyped(Own, v)
    <3>1. v \in People
      BY <1>1, <2>1 DEF SlotSafe, RequestShaped, AllOps, OwnerOps, PlatformOps
    <3>2. QED BY <2>2, <3>1, Unheld, RowKinds DEF RowTyped
  <2>4. Update(r, Own, v) /\ Goto(r, "activate") /\ UNCHANGED <<advisory, otherVars>>
    BY <2>2 DEF Write
  <2>5. Writes(r, Own, v)
    BY <1>1, <2>4, WriteWrites
  <2>6. PICK q : q = [p EXCEPT !.pc = "activate"]
    OBVIOUS
  <2>7. /\ req' = [req EXCEPT ![r] = q] /\ q \in Request
        /\ q.pc = "activate" /\ q.op = p.op /\ q.actor = p.actor /\ q.person = v
        /\ q.invite = p.invite /\ q.found = p.found /\ q.version = p.version /\ q.todo = p.todo
    <3>1. "activate" \in Stages
      BY DEF Stages
    <3>2. QED BY <1>1, <2>1, <2>4, <2>6, <3>1, GoesTo
  <2>8. RequestShaped(q)
    BY <1>1, <2>1, <2>7 DEF SlotSafe, RequestShaped
  <2>9. Knows(r, q)
    <3>1. q.pc \in StageOf(q.op)
      BY <1>1, <2>7 DEF StageOf, JoinOps, OwnerOps
    <3>2. QED BY <1>1, <2>1, <2>7, <3>1 DEF SlotSafe, Knows, JoinOps, OwnerOps
  <2>10. SameInvitations(p, q) /\ SameMember(p, q)
    BY <1>1, <2>1, <2>7 DEF SameInvitations, SameMember, Joined, JoinOps, OwnerOps
  <2>11. HoldsOrganization(r, q)'
    <3>1. lock'[Own] = r /\ dirty'[Own] = v /\ db' = db
          /\ lock'[Org] = lock[Org] /\ dirty'[Org] = dirty[Org]
      BY <1>1, <2>5, OrganizationRow
    <3>2. lock[Org] # r
      BY <1>1 DEF SlotSafe, HoldsOrganization, OwnerOps
    <3>3. QED BY <1>1, <2>2, <2>7, <3>1, <3>2 DEF HoldsOrganization, OwnerOps
  <2>12. QED BY <1>1, <2>3, <2>5, <2>7, <2>8, <2>9, <2>10, <2>11, OrganizationRowStep
<1>4. QED BY <1>2, <1>3

LEMMA ActivateStep ==
  ASSUME InvitationIInv, NEW r \in Requests, Activate(r)
  PROVE  InvitationIInv'
<1> DEFINE p == req[r]
<1>1. SlotSafe(r, p) /\ p \in Request /\ p.op \in OwnerOps /\ p.op \in AllOps
      /\ p.pc = "activate" /\ RowsSafe /\ Around /\ ~At(r, "idle")
  BY Parts, SlotStaging, Stagings DEF Activate, At
<1>2. CASE Abort(r)
  BY <1>1, <1>2, AbortStep
<1>3. CASE ~Abort(r)
  <2>1. PICK v : v = [db[Org] EXCEPT !.status = "ACTIVE"]
    OBVIOUS
  <2>2. db[Org].status = "PROVISIONING" /\ Writer(r, Org) = {} /\ Write(r, Org, v, "commit")
    BY <1>3, <2>1 DEF Activate
  <2>3. lock[Org] \in {None, r} /\ v.status = "ACTIVE" /\ RowTyped(Org, v)
    <3>1. db[Org] \in [status : OrgStates, version : Nat]
      BY <1>1 DEF RowsSafe, RowsTyped
    <3>2. v.status = "ACTIVE" /\ v \in [status : OrgStates, version : Nat]
      BY <2>1, <3>1 DEF OrgStates
    <3>3. QED BY <2>2, <3>2, Unheld, RowKinds DEF RowTyped
  <2>4. Update(r, Org, v) /\ Goto(r, "commit") /\ UNCHANGED <<advisory, otherVars>>
    BY <2>2 DEF Write
  <2>5. Writes(r, Org, v)
    BY <1>1, <2>4, WriteWrites
  <2>6. PICK q : q = [p EXCEPT !.pc = "commit"]
    OBVIOUS
  <2>7. /\ req' = [req EXCEPT ![r] = q] /\ q \in Request
        /\ q.pc = "commit" /\ q.op = p.op /\ q.actor = p.actor /\ q.person = p.person
        /\ q.invite = p.invite /\ q.found = p.found /\ q.version = p.version /\ q.todo = p.todo
    <3>1. "commit" \in Stages
      BY DEF Stages
    <3>2. QED BY <1>1, <2>4, <2>6, <3>1, GoesTo
  <2>8. RequestShaped(q)
    BY <1>1, <2>7 DEF SlotSafe, RequestShaped
  <2>9. Knows(r, q)
    <3>1. q.pc \in StageOf(q.op)
      BY <1>1, <2>7 DEF StageOf, JoinOps, OwnerOps
    <3>2. QED BY <1>1, <2>7, <3>1 DEF SlotSafe, Knows, JoinOps, OwnerOps
  <2>10. SameInvitations(p, q) /\ SameMember(p, q)
    BY <1>1, <2>7 DEF SameInvitations, SameMember, Joined, JoinOps, OwnerOps
  <2>11. HoldsOrganization(r, q)'
    <3>1. lock'[Org] = r /\ dirty'[Org] = v /\ db' = db
          /\ lock'[Own] = lock[Own] /\ dirty'[Own] = dirty[Own]
      BY <1>1, <2>5, OrganizationRow
    <3>2. lock[Own] = r /\ db[Own] = None /\ dirty[Own] = p.person
      BY <1>1 DEF SlotSafe, HoldsOrganization
    <3>3. QED BY <1>1, <2>2, <2>3, <2>7, <3>1, <3>2 DEF HoldsOrganization, OwnerOps
  <2>12. QED BY <1>1, <2>3, <2>5, <2>7, <2>8, <2>9, <2>10, <2>11, OrganizationRowStep
<1>4. QED BY <1>2, <1>3

LEMMA LockOrganizationStep ==
  ASSUME InvitationIInv, NEW r \in Requests, LockOrganization(r)
  PROVE  InvitationIInv'
<1> DEFINE p == req[r]
<1>1. SlotSafe(r, p) /\ p \in Request /\ p.op = "ownerResend"
      /\ p.pc = "lockOrg" /\ RowsSafe /\ Around /\ ~At(r, "idle")
  BY Parts, SlotStaging, Stagings DEF LockOrganization, At
<1>2. CASE Abort(r)
  BY <1>1, <1>2, AbortStep
<1>3. CASE ~Abort(r)
  <2>1. PICK v : v = db[Org]
    OBVIOUS
  <2>2. v.status = "PROVISIONING" /\ Holders(r, Org) = {} /\ Write(r, Org, v, "previous")
    BY <1>3, <2>1 DEF LockOrganization
  <2>3. lock[Org] \in {None, r} /\ RowTyped(Org, v)
    BY <1>1, <2>1, <2>2, Unheld, RowKinds DEF RowTyped, RowsSafe, RowsTyped
  <2>4. Update(r, Org, v) /\ Goto(r, "previous") /\ UNCHANGED <<advisory, otherVars>>
    BY <2>2 DEF Write
  <2>5. Writes(r, Org, v)
    BY <1>1, <2>4, WriteWrites
  <2>6. PICK q : q = [p EXCEPT !.pc = "previous"]
    OBVIOUS
  <2>7. /\ req' = [req EXCEPT ![r] = q] /\ q \in Request
        /\ q.pc = "previous" /\ q.op = p.op /\ q.actor = p.actor /\ q.person = p.person
        /\ q.invite = p.invite /\ q.found = p.found /\ q.version = p.version /\ q.todo = p.todo
    <3>1. "previous" \in Stages
      BY DEF Stages
    <3>2. QED BY <1>1, <2>4, <2>6, <3>1, GoesTo
  <2>8. RequestShaped(q)
    BY <1>1, <2>7 DEF SlotSafe, RequestShaped
  <2>9. Knows(r, q)
    <3>1. q.pc \in StageOf(q.op)
      BY <1>1, <2>7 DEF StageOf, JoinOps, OwnerOps
    <3>2. QED BY <1>1, <2>7, <3>1 DEF SlotSafe, Knows
  <2>10. SameInvitations(p, q) /\ SameMember(p, q)
    BY <1>1, <2>7 DEF SameInvitations, SameMember, Joined, JoinOps, OwnerOps
  <2>11. HoldsOrganization(r, q)'
    <3>1. lock'[Org] = r /\ dirty'[Org] = v /\ db' = db
          /\ lock'[Own] = lock[Own] /\ dirty'[Own] = dirty[Own]
      BY <1>1, <2>5, OrganizationRow
    <3>2. lock[Own] # r
      BY <1>1 DEF SlotSafe, HoldsOrganization, OwnerOps
    <3>3. QED BY <1>1, <2>1, <2>2, <2>7, <3>1, <3>2 DEF HoldsOrganization, OwnerOps
  <2>12. r \in Coming
    BY <1>1 DEF Coming
  <2>13. QED BY <1>1, <2>3, <2>5, <2>7, <2>8, <2>9, <2>10, <2>11, <2>12, OrganizationRowStep
<1>4. QED BY <1>2, <1>3

LEMMA ClaimOrganizationStep ==
  ASSUME InvitationIInv, NEW r \in Requests, ClaimOrganization(r)
  PROVE  InvitationIInv'
<1> DEFINE p == req[r]
<1>1. SlotSafe(r, p) /\ p \in Request /\ p.op \in {"ownerResend", "disable"}
      /\ p.pc = "claimOrg" /\ RowsSafe /\ Around /\ ~At(r, "idle")
  BY Parts, SlotStaging, Stagings DEF ClaimOrganization, At
<1>2. CASE Abort(r)
  BY <1>1, <1>2, AbortStep
<1>3. CASE ~Abort(r)
  <2>1. PICK status : status = IF p.op = "disable" THEN "DISABLED" ELSE See(r, Org).status
    OBVIOUS
  <2>2. PICK v : v = [status |-> status, version |-> p.version + 1]
    OBVIOUS
  <2>3. PICK stage : stage = IF p.op = "disable" THEN "members" ELSE "commit"
    OBVIOUS
  <2>4. Writer(r, Org) = {} /\ Write(r, Org, v, stage)
    BY <1>3, <2>1, <2>2, <2>3 DEF ClaimOrganization
  <2>5. lock[Org] \in {None, r} /\ v.status = status /\ RowTyped(Org, v)
    <3>1. See(r, Org).status \in OrgStates
      BY <1>1 DEF See, RowsSafe, RowsTyped
    <3>2. status \in OrgStates /\ p.version + 1 \in Nat
      BY <1>1, <2>1, <3>1 DEF OrgStates, Request
    <3>3. QED BY <2>2, <2>4, <3>2, Unheld, RowKinds DEF RowTyped
  <2>6. p.op = "ownerResend" =>
          lock[Org] = r /\ db[Org].status = "PROVISIONING" /\ status = "PROVISIONING"
    BY <1>1, <2>1 DEF SlotSafe, HoldsOrganization, See
  <2>7. Update(r, Org, v) /\ Goto(r, stage) /\ UNCHANGED <<advisory, otherVars>>
    BY <2>4 DEF Write
  <2>8. Writes(r, Org, v)
    BY <1>1, <2>7, WriteWrites
  <2>9. PICK q : q = [p EXCEPT !.pc = stage]
    OBVIOUS
  <2>10. /\ req' = [req EXCEPT ![r] = q] /\ q \in Request
         /\ q.pc = stage /\ q.op = p.op /\ q.actor = p.actor /\ q.person = p.person
         /\ q.invite = p.invite /\ q.found = p.found /\ q.version = p.version /\ q.todo = p.todo
    <3>1. stage \in Stages
      BY <2>3 DEF Stages
    <3>2. QED BY <1>1, <2>7, <2>9, <3>1, GoesTo
  <2>11. RequestShaped(q)
    BY <1>1, <2>3, <2>10 DEF SlotSafe, RequestShaped
  <2>12. Knows(r, q)
    <3>1. q.pc \in StageOf(q.op)
      BY <1>1, <2>3, <2>10 DEF StageOf, JoinOps, OwnerOps
    <3>2. QED BY <1>1, <2>3, <2>10, <3>1 DEF SlotSafe, Knows
  <2>13. SameInvitations(p, q) /\ SameMember(p, q)
    BY <1>1, <2>3, <2>10 DEF SameInvitations, SameMember, Joined, JoinOps, OwnerOps
  <2>14. HoldsOrganization(r, q)'
    <3>1. lock'[Org] = r /\ dirty'[Org] = v /\ db' = db
          /\ lock'[Own] = lock[Own] /\ dirty'[Own] = dirty[Own]
      BY <1>1, <2>8, OrganizationRow
    <3>2. lock[Own] # r
      BY <1>1 DEF SlotSafe, HoldsOrganization, OwnerOps
    <3>3. QED BY <1>1, <2>1, <2>3, <2>5, <2>6, <2>10, <3>1, <3>2 DEF HoldsOrganization, OwnerOps
  <2>15. q.pc \in {"members", "commit"}
    BY <2>3, <2>10
  <2>16. QED BY <1>1, <2>5, <2>8, <2>10, <2>11, <2>12, <2>13, <2>14, <2>15, OrganizationRowStep
<1>4. QED BY <1>2, <1>3

-----------------------------------------------------------------------------
(***************************************************************************)
(* The whole next-state relation.                                          *)
(***************************************************************************)
\* The clock, or no step at all.
LEMMA ClockStep ==
  ASSUME InvitationIInv, UNCHANGED <<rowVars, req, advisory, begun>>,
         expired' \subseteq Invites
  PROVE  InvitationIInv'
<1>1. RowsSafe' /\ OwnerRows'
  BY SameRows, OwnerRowsKept DEF rowVars
<1>2. Around' /\ NothingYet'
  BY Parts DEF Around, NothingYet, rowVars, At
<1>3. RoomLeft'
  <2>1. Coming' = Coming /\ Used' = Used
    BY DEF Coming, Used, rowVars
  <2>2. QED BY <2>1, RoomKept
<1>4. ASSUME NEW r \in Requests PROVE SlotSafe(r, req[r])'
  <2>1. SlotSafe(r, req[r])
    BY Parts
  <2>2. PICK q : q = req[r]
    OBVIOUS
  <2>3. SlotSafe(r, q)' /\ req'[r] = q
    BY <2>1, <2>2, SameSlot
  <2>4. QED BY <2>3 DEF SlotSafe
<1>5. QED BY <1>1, <1>2, <1>3, <1>4, PartsNext

LEMMA ExpireStep ==
  ASSUME InvitationIInv, NEW i \in Invites, Expire(i)
  PROVE  InvitationIInv'
<1>1. expired' \subseteq Invites /\ UNCHANGED <<rowVars, req, advisory, begun>>
  BY Parts DEF Expire, Around
<1>2. QED BY <1>1, ClockStep

LEMMA StutterStep ==
  ASSUME InvitationIInv, UNCHANGED vars
  PROVE  InvitationIInv'
<1>1. expired' \subseteq Invites /\ UNCHANGED <<rowVars, req, advisory, begun>>
  BY Parts DEF vars, otherVars, Around
<1>2. QED BY <1>1, ClockStep

LEMMA ArriveStep ==
  ASSUME InvitationIInv, NEW r \in Requests, Arrive(r)
  PROVE  InvitationIInv'
<1>1. CASE \E actor \in People, op \in Ops : BeginTenant(r, actor, op)
  BY <1>1, TenantArrives
<1>2. CASE \E op \in Ops, i \in Invites : BeginAcceptance(r, op, i)
  BY <1>2, AcceptanceArrives
<1>3. CASE \E op \in Ops, version \in 1..MaxBegun : BeginPlatform(r, op, version)
  <2>1. PICK op \in Ops, version \in 1..MaxBegun : BeginPlatform(r, op, version)
    BY <1>3
  <2>2. version \in Nat
    BY InvitationAssumption DEF InvitationAssumption
  <2>3. QED BY <2>1, <2>2, PlatformArrives
<1>4. QED BY <1>1, <1>2, <1>3 DEF Arrive

LEMMA StatementStep ==
  ASSUME InvitationIInv, NEW r \in Requests, Statement(r)
  PROVE  InvitationIInv'
<1>1. CASE \/ ReadForResend(r) \/ LockAddress(r) \/ Recheck(r) \/ FindInvitation(r)
           \/ FindOwnerInvitation(r) \/ ReadProvisioning(r) \/ ReadIdentity(r)
           \/ ReadOrganization(r)
  BY <1>1, SimpleStep
<1>2. CASE ReadExisting(r) \/ ReadMembership(r) \/ ReadPrevious(r) \/ ListMembers(r)
           \/ ListOpen(r) \/ ReadMember(r)
  BY <1>2, ReadExistingStep, ReadMembershipStep, ReadPreviousStep, ListMembersStep,
     ListOpenStep, ReadMemberStep
<1>3. CASE Replace(r) \/ Insert(r) \/ RevokeInvitation(r) \/ Consume(r)
           \/ \E i \in Invites : CloseInvitation(r, i)
  BY <1>3, ReplaceStep, InsertStep, RevokeStep, ConsumeStep, CloseStep
<1>4. CASE Join(r) \/ ClaimMember(r) \/ \E p \in People : BumpMember(r, p)
  BY <1>4, JoinStep, ClaimMemberStep, BumpStep
<1>5. CASE CreateOwnership(r) \/ Activate(r) \/ LockOrganization(r) \/ ClaimOrganization(r)
  BY <1>5, CreateOwnershipStep, ActivateStep, LockOrganizationStep, ClaimOrganizationStep
<1>6. CASE Commit(r)
  BY <1>6, CommitStep
<1>7. QED BY <1>1, <1>2, <1>3, <1>4, <1>5, <1>6 DEF Statement

\* A victim of the deadlock detector runs a transaction.
LEMMA VictimStep ==
  ASSUME InvitationIInv, NEW r \in Requests, DeadlockVictim(r)
  PROVE  InvitationIInv'
<1>1. Abort(r) /\ Blockers(r) # {}
  BY DEF DeadlockVictim
<1>2. ~At(r, "idle")
  BY <1>1 DEF Blockers, At
<1>3. QED BY <1>1, <1>2, AbortStep

LEMMA NextSafe ==
  ASSUME InvitationIInv, [Next]_vars
  PROVE  InvitationIInv'
<1>1. CASE \E r \in Requests : Arrive(r) \/ Statement(r) \/ Fail(r) \/ DeadlockVictim(r)
  BY <1>1, ArriveStep, StatementStep, VictimStep, AbortStep DEF Fail
<1>2. CASE \E p \in People : CreateOrganization(p)
  BY <1>2, CreateStep
<1>3. CASE \E i \in Invites : Expire(i)
  BY <1>3, ExpireStep
<1>4. CASE UNCHANGED vars
  BY <1>4, StutterStep
<1>5. QED BY <1>1, <1>2, <1>3, <1>4 DEF Next, Quiescent

-----------------------------------------------------------------------------
(***************************************************************************)
(* The beginning.                                                          *)
(***************************************************************************)
LEMMA IdleSafe ==
  ASSUME NEW r \in Requests, \A x \in Rows : lock[x] # r
  PROVE  SlotSafe(r, Idle)
<1>1. /\ Idle.pc = "idle" /\ Idle.op = None /\ Idle.found = None
      /\ Idle.person = None /\ Idle.invite = None
  BY IdleFields
<1>2. /\ None \notin AllOps /\ None \notin TenantOps /\ None \notin JoinOps
      /\ None \notin OwnerOps /\ None \notin PlatformOps
      /\ None \notin {"invite", "resend", "revoke", "suspend", "reactivate", "remove", "accept",
                      "acceptExisting", "ownerAccept", "ownerAcceptExisting", "ownerResend",
                      "disable"}
  BY OpSets, RowKinds
<1>3. RequestShaped(Idle)
  BY <1>1, <1>2 DEF RequestShaped
<1>4. Knows(r, Idle)
  <2>1. StageOf(None) = {"idle"}
    BY <1>2 DEF StageOf
  <2>2. QED BY <1>1, <1>2, <2>1 DEF Knows
<1>5. \A i \in Invites : lock[i] # r
  BY RowKinds
<1>6. HoldsInvitations(r, Idle)
  BY <1>1, <1>2, <1>5 DEF HoldsInvitations
<1>7. HoldsMembers(r, Idle)
  BY <1>1, <1>2, RowKinds DEF HoldsMembers, Joined
<1>8. HoldsOrganization(r, Idle)
  BY <1>1, <1>2, RowKinds DEF HoldsOrganization
<1>9. QED BY <1>1, <1>3, <1>4, <1>6, <1>7, <1>8 DEF SlotSafe

LEMMA TwoInvites ==
  /\ FirstInvite \in Invites /\ SentInvite \in Invites /\ SentInvite # FirstInvite
<1>1. IsFiniteSet(Invites) /\ Cardinality(Invites) > MaxBegun + 1 /\ MaxBegun \in Nat
  BY InvitationAssumption DEF InvitationAssumption
<1>2. Cardinality(Invites) \in Nat
  BY <1>1, FS_CardinalityType
<1>3. Invites # {}
  BY <1>1, <1>2, FS_EmptySet
<1>4. FirstInvite \in Invites
  BY <1>3 DEF FirstInvite
<1>5. ASSUME Invites \subseteq {FirstInvite} PROVE FALSE
  <2>1. IsFiniteSet({FirstInvite}) /\ Cardinality({FirstInvite}) = 1
    BY FS_Singleton
  <2>2. Cardinality(Invites) <= 1
    BY <1>5, <2>1, FS_Subset
  <2>3. QED BY <1>1, <1>2, <2>2
<1>6. \E i \in Invites : i # FirstInvite
  BY <1>5
<1>7. QED BY <1>4, <1>6 DEF SentInvite

\* The invitations an Organization starts with.
LEMMA FirstRows ==
  ASSUME NEW start \in {"new", "open", "invited"}, NEW owner \in People, NEW guest \in People,
         NEW i \in Invites, NEW v, v = StartInvite(i, start, owner, guest)
  PROVE  /\ v \in InviteRow /\ Addressed(v)
         /\ Live(v) => i = SentInvite /\ v.kind = "COLLABORATOR"
         /\ start = "new" => v = Unissued
         /\ v.kind = "INITIAL_OWNER" <=> start # "new" /\ i = FirstInvite
         /\ v.kind = "INITIAL_OWNER" => v.consumed /\ v.email = owner
         /\ v.consumed => v.kind = "INITIAL_OWNER"
         /\ v # Unissued => i \in {FirstInvite, SentInvite}
<1>1. /\ "INITIAL_OWNER" # None /\ "COLLABORATOR" # None
      /\ Kinds = {"INITIAL_OWNER", "COLLABORATOR"}
  BY RowKinds DEF Kinds
<1>2. CASE start # "new" /\ i = FirstInvite
  <2>1. v = [Fresh("INITIAL_OWNER", owner) EXCEPT !.consumed = TRUE]
    BY <1>2, TwoInvites DEF StartInvite
  <2>2. v = [kind |-> "INITIAL_OWNER", email |-> owner, consumed |-> TRUE, revoked |-> FALSE]
    BY <2>1 DEF Fresh, Unissued
  <2>3. v.kind = "INITIAL_OWNER" /\ v.email = owner /\ v.consumed
    BY <2>2
  <2>4. v \in InviteRow
    BY <1>1, <2>2 DEF InviteRow
  <2>5. Issued(v) /\ ~Live(v) /\ Addressed(v)
    BY <1>1, <2>3 DEF Addressed, Issued, Live
  <2>6. QED BY <1>1, <1>2, <2>3, <2>4, <2>5
<1>3. CASE start = "invited" /\ i = SentInvite
  <2>1. v = [kind |-> "COLLABORATOR", email |-> guest, consumed |-> FALSE, revoked |-> FALSE]
    BY <1>3, TwoInvites DEF StartInvite, Fresh, Unissued
  <2>2. v.kind = "COLLABORATOR" /\ v.email = guest /\ ~v.consumed
    BY <2>1
  <2>3. v \in InviteRow
    BY <1>1, <2>1 DEF InviteRow
  <2>4. Issued(v) /\ Addressed(v)
    BY <1>1, <2>2 DEF Addressed, Issued
  <2>5. QED BY <1>1, <1>3, <2>2, <2>3, <2>4, TwoInvites
<1>4. CASE ~(start # "new" /\ i = FirstInvite) /\ ~(start = "invited" /\ i = SentInvite)
  <2>1. v = Unissued
    BY <1>4 DEF StartInvite
  <2>2. v.kind = None /\ v \in InviteRow /\ ~v.consumed
    BY <2>1, <1>1 DEF Unissued, InviteRow
  <2>3. QED BY <1>1, <1>4, <2>1, <2>2 DEF Addressed, Issued, Live
<1>5. QED BY <1>2, <1>3, <1>4

LEMMA FirstMember ==
  ASSUME NEW start, NEW owner \in People, NEW standing \in [People -> Standings], NEW p \in People
  PROVE  StartPerson(p, start, owner, standing) \in PersonRow
<1>1. standing[p][1] \in BOOLEAN /\ standing[p][2] \in Statuses
  BY InvitationAssumption DEF InvitationAssumption
<1>2. PICK identity \in BOOLEAN : identity = standing[p][1]
  BY <1>1
<1>3. PICK status \in Statuses : status = standing[p][2]
  BY <1>1
<1>4. CASE start = "new"
  BY <1>2, <1>4 DEF StartPerson, Nobody, PersonRow, Statuses, Profiles
<1>5. CASE start # "new" /\ p = owner
  BY <1>5 DEF StartPerson, PersonRow, Statuses, Profiles
<1>6. CASE start # "new" /\ p # owner
  <2>1. StartPerson(p, start, owner, standing) =
          [identity |-> identity, status |-> status, profile |-> "User",
           version |-> IF status = "NONE" THEN 0 ELSE 2]
    BY <1>2, <1>3, <1>6 DEF StartPerson
  <2>2. QED BY <2>1 DEF PersonRow, Profiles
<1>7. QED BY <1>4, <1>5, <1>6

LEMMA InitSafe ==
  ASSUME Init
  PROVE  InvitationIInv
<1>1. PICK start \in Starts, owner \in People, guest \in People,
          standing \in [People -> Standings] :
        InitRows([x \in Rows |-> StartRow(x, start, owner, guest, standing)])
  BY DEF Init
<1>2. start \in {"new", "open", "invited"}
  BY InvitationAssumption DEF InvitationAssumption
<1>3. /\ req = [r \in Requests |-> Idle] /\ advisory = [p \in People |-> None]
      /\ expired = {} /\ begun = 0
  BY DEF Init
<1>4. /\ DOMAIN db = Rows /\ dirty = db /\ lock = [x \in Rows |-> None]
      /\ share = [x \in Rows |-> {}]
      /\ \A x \in Rows : db[x] = StartRow(x, start, owner, guest, standing)
  BY <1>1 DEF InitRows
<1>5. /\ db[Org] = [status |-> IF start = "new" THEN "ABSENT" ELSE "ACTIVE", version |-> 1]
      /\ db[Own] = IF start = "new" THEN None ELSE owner
      /\ \A i \in Invites : db[i] = StartInvite(i, start, owner, guest)
      /\ \A p \in People : db[p] = StartPerson(p, start, owner, standing)
  BY <1>4, RowKinds DEF StartRow
<1>6. \A i \in Invites :
        /\ db[i] \in InviteRow /\ Addressed(db[i])
        /\ Live(db[i]) => i = SentInvite /\ db[i].kind = "COLLABORATOR"
        /\ start = "new" => db[i] = Unissued
        /\ db[i].kind = "INITIAL_OWNER" <=> start # "new" /\ i = FirstInvite
        /\ db[i].kind = "INITIAL_OWNER" => db[i].consumed /\ db[i].email = owner
        /\ db[i] # Unissued => i \in {FirstInvite, SentInvite}
  BY <1>2, <1>5, FirstRows
<1>7. \A p \in People : db[p] \in PersonRow
  BY <1>5, FirstMember
<1>8. RowsSafe
  <2>1. RowsTyped(db)
    BY <1>4, <1>5, <1>6, <1>7 DEF RowsTyped, OrgStates
  <2>2. RowsTyped(dirty)
    BY <1>4, <2>1
  <2>3. OneAwaits
    BY <1>4, <1>6 DEF OneAwaits
  <2>4. QED BY <1>4, <1>6, <2>1, <2>2, <2>3 DEF RowsSafe, CleanUnlocked
<1>9. Around
  BY <1>3, <1>4, IdleFields DEF Around
<1>10. OwnerRows
  <2>1. OpenOwner = {}
    BY <1>6 DEF OpenOwner
  <2>2. Accepted = IF start = "new" THEN {} ELSE {FirstInvite}
    BY <1>6, TwoInvites DEF Accepted
  <2>3. QED BY <1>5, <1>6, <2>1, <2>2, RowKinds, TwoInvites DEF OwnerRows
<1>11. NothingYet
  BY <1>3, <1>5, <1>6, IdleFields DEF NothingYet, At
<1>12. RoomLeft
  <2>1. Coming = {} /\ Used \subseteq {FirstInvite, SentInvite}
    BY <1>3, <1>4, <1>6, IdleFields DEF Coming, Used
  <2>2. IsFiniteSet({FirstInvite}) /\ Cardinality({FirstInvite}) = 1
    BY FS_Singleton
  <2>3. {FirstInvite, SentInvite} = {FirstInvite} \cup {SentInvite}
    OBVIOUS
  <2>4. IsFiniteSet({FirstInvite, SentInvite}) /\ Cardinality({FirstInvite, SentInvite}) = 2
    <3>1. SentInvite \notin {FirstInvite}
      BY TwoInvites
    <3>2. /\ IsFiniteSet({FirstInvite} \cup {SentInvite})
          /\ Cardinality({FirstInvite} \cup {SentInvite}) = Cardinality({FirstInvite}) + 1
      BY <2>2, <3>1, FS_AddElement
    <3>3. QED BY <2>2, <2>3, <3>2
  <2>5. IsFiniteSet(Used) /\ Cardinality(Used) <= 2
    BY <2>1, <2>4, FS_Subset
  <2>6. Cardinality(Used) \in Nat
    BY <2>5, FS_CardinalityType
  <2>7. IsFiniteSet(Coming) /\ Cardinality(Coming) = 0
    BY <2>1, FS_EmptySet
  <2>8. QED BY <1>3, <2>5, <2>6, <2>7, InvitationAssumption DEF RoomLeft, InvitationAssumption
<1>13. ASSUME NEW r \in Requests PROVE SlotSafe(r, req[r])
  <2>1. req[r] = Idle /\ \A x \in Rows : lock[x] # r
    BY <1>3, <1>4, RowKinds
  <2>2. QED BY <2>1, IdleSafe
<1>14. QED BY <1>8, <1>9, <1>10, <1>11, <1>12, <1>13, Parts

-----------------------------------------------------------------------------
(***************************************************************************)
(* The theorems.                                                           *)
(***************************************************************************)
\* In every reachable state the rows, the locks and what each transaction knows
\* fit together: one live invitation per address, one open invitation of an
\* owner while the Organization is PROVISIONING, and each transaction holds just
\* the rows its handler has written (collaborator-invitation.service.ts,
\* initial-owner-acceptance.service.ts, organization.service.ts).
THEOREM InvitationInvariant == Spec => []InvitationIInv
<1>1. Init => InvitationIInv
  BY InitSafe
<1>2. InvitationIInv /\ [Next]_vars => InvitationIInv'
  BY NextSafe
<1>3. QED BY <1>1, <1>2, PTL DEF Spec

\* Every row and every request slot holds what its table and handler can put there.
THEOREM InvitationsTyped == Spec => []TypeOK
<1>1. InvitationIInv => TypeOK
  BY DEF InvitationIInv
<1>2. QED BY <1>1, InvitationInvariant, PTL

\* The owner's invitation is live only in a PROVISIONING Organization, however
\* its acceptance, its resend and a disabling overlap (organization.service.ts:125-141).
THEOREM OwnerInvitationCloses == Spec => []OwnerInvitationClosed
<1>1. InvitationIInv => OwnerInvitationClosed
  BY Parts DEF OwnerRows, OpenOwner, OwnerInvitationClosed
<1>2. QED BY <1>1, InvitationInvariant, PTL

LEMMA OwnerAccepted ==
  ASSUME InvitationIInv
  PROVE  OwnerCameByInvitation
<1>1. OwnerRows /\ RowsSafe
  BY Parts
<1>2. \A i \in Accepted : i \in Invites /\ db[i].email \in People /\ db[i].email # None
  <2>1. ASSUME NEW i \in Accepted PROVE i \in Invites /\ Issued(db[i]) /\ Addressed(db[i])
    BY <1>1, RowKinds DEF Accepted, Issued, Kinds, RowsSafe
  <2>2. QED BY <2>1, RowKinds DEF Addressed
<1>3. {db[i].email : i \in Accepted} = {db[Own]} \ {None}
  <2>1. \A i \in Accepted : db[i].email = db[Own]
    BY <1>1 DEF OwnerRows
  <2>2. db[Own] # None => Accepted # {}
    BY <1>1 DEF OwnerRows
  <2>3. QED BY <1>2, <2>1, <2>2
<1>4. Cardinality(Accepted) <= 1
  <2>1. CASE Accepted = {}
    BY <2>1, FS_EmptySet
  <2>2. CASE Accepted # {}
    <3>1. PICK i : Accepted = {i}
      BY <1>1, <2>2 DEF OwnerRows
    <3>2. QED BY <3>1, FS_Singleton
  <2>3. QED BY <2>1, <2>2
<1>5. /\ db[Org].status = "PROVISIONING" => db[Own] = None
      /\ db[Org].status = "ACTIVE" => db[Own] # None
  BY <1>1 DEF OwnerRows
<1>6. QED BY <1>3, <1>4, <1>5 DEF OwnerCameByInvitation, Accepted

\* The Organization is ACTIVE only with an owner, who came by one consumed
\* invitation to that address (initial-owner-acceptance.service.ts:65-117).
THEOREM OwnerByInvitation == Spec => []OwnerCameByInvitation
<1>1. InvitationIInv => OwnerCameByInvitation
  BY OwnerAccepted
<1>2. QED BY <1>1, InvitationInvariant, PTL

\* Only a commit, or the creation of the Organization, changes a committed row.
LEMMA Commits ==
  ASSUME [Next]_vars
  PROVE  \/ db' = db
         \/ \E r \in Requests : Commit(r)
         \/ \E p \in People : CreateOrganization(p)
<1>1. ASSUME NEW r, Abort(r) PROVE db' = db
  BY <1>1 DEF Abort, RollbackRows
<1>2. ASSUME NEW r, NEW x, NEW v, Update(r, x, v) PROVE db' = db
  BY <1>2 DEF Update
<1>3. ASSUME NEW r, NEW stage, Continue(r, stage) PROVE db' = db
  BY <1>3 DEF Continue, rowVars
<1>4. ASSUME NEW r, NEW c, Begin(r, c) PROVE db' = db
  BY <1>4 DEF Begin, rowVars
<1>5. ASSUME NEW r \in Requests, Arrive(r) PROVE db' = db
  BY <1>4, <1>5 DEF Arrive, BeginTenant, BeginAcceptance, BeginPlatform
<1>6. ASSUME NEW r \in Requests, Statement(r) PROVE db' = db \/ Commit(r)
  <2>1. CASE \/ ReadForResend(r) \/ LockAddress(r) \/ ReadExisting(r) \/ Recheck(r)
             \/ FindInvitation(r) \/ FindOwnerInvitation(r) \/ ReadProvisioning(r)
             \/ ReadIdentity(r) \/ ReadMembership(r) \/ ReadPrevious(r) \/ ReadOrganization(r)
             \/ ListMembers(r) \/ ListOpen(r) \/ ReadMember(r)
    BY <1>1, <1>3, <2>1
       DEF ReadForResend, LockAddress, ReadExisting, Recheck, FindInvitation,
           FindOwnerInvitation, ReadProvisioning, ReadIdentity, ReadMembership, ReadPrevious,
           ReadOrganization, ListMembers, ListOpen, ReadMember, rowVars
  <2>2. CASE Replace(r) \/ Insert(r) \/ RevokeInvitation(r) \/ Consume(r) \/ Join(r)
             \/ CreateOwnership(r) \/ Activate(r) \/ LockOrganization(r) \/ ClaimOrganization(r)
             \/ ClaimMember(r)
    BY <1>1, <1>2, <2>2
       DEF Replace, Insert, RevokeInvitation, Consume, Join, CreateOwnership, Activate,
           LockOrganization, ClaimOrganization, ClaimMember, Write
  <2>3. CASE \/ \E p \in People : BumpMember(r, p)
             \/ \E i \in Invites : CloseInvitation(r, i)
    BY <1>2, <2>3 DEF BumpMember, CloseInvitation, EndOne
  <2>4. QED BY <1>6, <2>1, <2>2, <2>3 DEF Statement
<1>7. ASSUME NEW i \in Invites, Expire(i) PROVE db' = db
  BY <1>7 DEF Expire, rowVars
<1>8. QED BY <1>1, <1>5, <1>6, <1>7 DEF Next, Fail, DeadlockVictim, Quiescent, vars, rowVars

LEMMA CreatedRows ==
  ASSUME InvitationIInv, NEW p \in People, CreateOrganization(p)
  PROVE  /\ db[Own] = None /\ db'[Own] = db[Own] /\ \A q \in People : db'[q] = db[q]
         /\ \A i \in Invites : db[i] = Unissued
         /\ \E i \in Invites : /\ db'[i] = Fresh("INITIAL_OWNER", p)
                               /\ \A j \in Invites : j # i => db'[j] = Unissued
<1>1. db[Org].status = "ABSENT" /\ begun < MaxBegun /\ OwnerRows /\ NothingYet /\ RowsSafe
  BY Parts DEF CreateOrganization
<1>2. db[Own] = None /\ \A i \in Invites : db[i] = Unissued
  BY <1>1 DEF OwnerRows, NothingYet
<1>3. PICK i : i = NewInvite(db)
  OBVIOUS
<1>4. i \in Invites
  <2>1. \E j \in Invites : TRUE
    BY <1>1, RowLeft
  <2>2. QED BY <1>2, <1>3, <2>1 DEF NewInvite
<1>5. PICK v : v = Fresh("INITIAL_OWNER", p)
  OBVIOUS
<1>6. PICK w : w = [db[Org] EXCEPT !.status = "PROVISIONING"]
  OBVIOUS
<1>7. db' = [db EXCEPT ![Org] = w, ![i] = v] /\ DOMAIN db = Rows
  BY <1>1, <1>3, <1>5, <1>6 DEF CreateOrganization, RowsSafe, RowsTyped
<1>8. /\ db'[i] = v /\ db'[Own] = db[Own] /\ \A q \in People : db'[q] = db[q]
      /\ \A j \in Invites : j # i => db'[j] = db[j]
  BY <1>4, <1>7, RowKinds
<1>9. QED BY <1>2, <1>4, <1>5, <1>8

\* Each committed write of a membership moves its version by one, the update by
\* id of an acceptance included: no write is lost
\* (collaborator-acceptance.service.ts:113-125).
THEOREM MembershipsCounted == Spec => MembershipWritesCounted
<1>1. ASSUME InvitationIInv, [Next]_vars
      PROVE  \A p \in People : db'[p] # db[p] => db'[p].version = db[p].version + 1
  <2>1. CASE db' = db
    BY <2>1
  <2>2. CASE \E q \in People : CreateOrganization(q)
    BY <1>1, <2>2, CreatedRows
  <2>3. ASSUME NEW r \in Requests, Commit(r), NEW p \in People, db'[p] # db[p]
        PROVE  db'[p].version = db[p].version + 1
    <3>1. RowsSafe /\ SlotSafe(r, req[r])
      BY <1>1, Parts
    <3>2. IF lock[p] = r THEN db'[p] = dirty[p] ELSE db'[p] = db[p]
      BY <2>3, <3>1, CommitRow, RowKinds
    <3>3. QED BY <2>3, <3>1, <3>2 DEF SlotSafe, HoldsMembers
  <2>4. QED BY <1>1, <2>1, <2>2, <2>3, Commits
<1>2. InvitationIInv /\ [Next]_vars =>
        [\A p \in People : db'[p] # db[p] => db'[p].version = db[p].version + 1]_vars
  BY <1>1
<1>3. QED BY <1>2, InvitationInvariant, PTL DEF Spec, MembershipWritesCounted

-----------------------------------------------------------------------------
(***************************************************************************)
(* The invitation book.                                                    *)
(***************************************************************************)
Entry(v) == [shown |-> Shown(v), kind |-> v.kind, email |-> v.email]
TheBook  == [i \in Invites |-> Entry(db[i])]
Joiners  == {p \in People : db[p].status # "NONE"}

LEMMA Entries ==
  ASSUME NEW v \in InviteRow, NEW w \in InviteRow
  PROVE  /\ Shown(v) = "PENDING" <=> Live(v)
         /\ Shown(v) = "ABSENT" <=> ~Issued(v)
         /\ Shown(v) = "ACCEPTED" <=> Issued(v) /\ v.consumed
         /\ Shown(v) = "REVOKED" <=> Issued(v) /\ ~v.consumed /\ v.revoked
         /\ Shown(v) \in {"PENDING", "ABSENT", "ACCEPTED", "REVOKED"}
         /\ Entry(v).shown = Shown(v) /\ Entry(v).kind = v.kind /\ Entry(v).email = v.email
         /\ Entry(Unissued) = [shown |-> "ABSENT", kind |-> None, email |-> None]
BY DEF Shown, Live, Issued, Entry, Unissued, InviteRow

LEMMA BookPages ==
  ASSUME RowsSafe, NEW i \in Invites
  PROVE  /\ TheBook[i] = Entry(db[i]) /\ TheBook[i].shown = Shown(db[i])
         /\ TheBook[i].kind = db[i].kind /\ TheBook[i].email = db[i].email
         /\ db[i] \in InviteRow
BY DEF TheBook, Entry, RowsSafe, RowsTyped

LEMMA BookPagesNext ==
  ASSUME RowsSafe', NEW i \in Invites
  PROVE  /\ TheBook'[i] = Entry(db'[i]) /\ TheBook'[i].shown = Shown(db'[i])
         /\ TheBook'[i].kind = db'[i].kind /\ TheBook'[i].email = db'[i].email
         /\ db'[i] \in InviteRow
BY DEF TheBook, Entry, RowsSafe, RowsTyped, Shown, Issued

\* The book's steps, in the words of this module.
PendingPages == {i \in Invites : TheBook[i].shown = "PENDING"}
BlankPage    == [shown |-> "ABSENT", kind |-> None, email |-> None]
OfferedPages == [shown : {"PENDING"}, kind : {"INITIAL_OWNER", "COLLABORATOR"}, email : People]

BookChange ==
  LET S == {i \in PendingPages : TheBook'[i].shown = "REVOKED"}
      new == {i \in Invites : TheBook[i] = BlankPage /\ TheBook'[i] # BlankPage}
  IN /\ S \cup new # {}
     /\ \A i \in S : TheBook'[i] = [TheBook[i] EXCEPT !.shown = "REVOKED"]
     /\ \A i \in new : TheBook'[i] \in OfferedPages /\ new = {i}
                       /\ \A j \in PendingPages \ S : TheBook[j].email # TheBook'[i].email
     /\ \A i \in Invites \ (S \cup new) : TheBook'[i] = TheBook[i]
     /\ Joiners' = Joiners /\ db'[Own] = db[Own]

BookAccept(i) ==
  /\ TheBook[i].shown = "PENDING"
  /\ TheBook' = [TheBook EXCEPT ![i].shown = "ACCEPTED"]
  /\ Joiners' = Joiners \cup {TheBook[i].email}
  /\ IF TheBook[i].kind = "INITIAL_OWNER"
     THEN db[Own] = None /\ db'[Own] = TheBook[i].email
     ELSE db'[Own] = db[Own]

LEMMA BookUnfolds ==
  ASSUME \/ BookChange
         \/ \E i \in Invites : BookAccept(i)
         \/ TheBook' = TheBook /\ Joiners' = Joiners /\ db'[Own] = db[Own]
  PROVE  [Book!Next]_(Book!bookVars)
<1>1. CASE BookChange
  BY <1>1 DEF BookChange, TheBook, Entry, Joiners, PendingPages, BlankPage, OfferedPages,
              Book!Next, Book!Change, Book!Pending, Book!Blank, Book!Offered
<1>2. CASE \E i \in Invites : BookAccept(i)
  BY <1>2 DEF BookAccept, TheBook, Entry, Joiners, Book!Next, Book!Accept
<1>3. CASE TheBook' = TheBook /\ Joiners' = Joiners /\ db'[Own] = db[Own]
  BY <1>3 DEF TheBook, Entry, Joiners, Book!bookVars
<1>4. QED BY <1>1, <1>2, <1>3

LEMMA CommitJoiners ==
  ASSUME InvitationIInv, NEW r \in Requests, Commit(r)
  PROVE  Joiners' = Joiners \cup (IF req[r].op \in JoinOps \cup OwnerOps
                                  THEN {req[r].person} ELSE {})
<1> DEFINE q == req[r]
<1>1. RowsSafe /\ SlotSafe(r, q) /\ q.pc = "commit"
  BY Parts DEF Commit, At
<1>2. Joined(q) <=> q.op \in JoinOps \cup OwnerOps
  BY <1>1 DEF Joined
<1>3. ASSUME NEW p \in People
      PROVE  IF lock[p] = r THEN db'[p] = dirty[p] ELSE db'[p] = db[p]
  BY <1>1, CommitRow, RowKinds
<1>4. ASSUME NEW p \in People
      PROVE  p \in Joiners' <=> p \in Joiners \/ (Joined(q) /\ p = q.person)
  <2>1. p \in Joiners => p \in Joiners'
    BY CommitLasts DEF Joiners, Lasting
  <2>2. Joined(q) /\ p = q.person => p \in Joiners'
    BY <1>1, <1>3 DEF SlotSafe, HoldsMembers, Joiners
  <2>3. p \in Joiners' => p \in Joiners \/ (Joined(q) /\ p = q.person)
    BY <1>1, <1>3 DEF SlotSafe, HoldsMembers, Joiners
  <2>4. QED BY <2>1, <2>2, <2>3
<1>5. Joined(q) => q.person \in People
  BY <1>1 DEF SlotSafe, RequestShaped, Joined, AllOps, PlatformOps, JoinOps, OwnerOps
<1>6. Joiners \subseteq People /\ Joiners' \subseteq People
  BY DEF Joiners
<1>7. QED BY <1>2, <1>4, <1>5, <1>6

\* An acceptance commits the one invitation it consumes.
LEMMA AcceptanceCommits ==
  ASSUME InvitationIInv, InvitationIInv', NEW r \in Requests, Commit(r),
         req[r].op \in JoinOps \cup OwnerOps
  PROVE  req[r].invite \in Invites /\ BookAccept(req[r].invite)
<1>1. PICK q : q = req[r]
  OBVIOUS
<1>2. PICK i : i = q.invite
  OBVIOUS
<1>3. RowsSafe /\ RowsSafe' /\ SlotSafe(r, q) /\ q.pc = "commit"
  BY <1>1, Parts DEF Commit, At, InvitationIInv, TypeOK, RowsSafe
<1>4. i \in Invites /\ lock[i] = r /\ q.op \notin {"invite", "resend", "revoke", "ownerResend",
                                                  "disable"}
  BY <1>1, <1>2, <1>3, OpSets DEF SlotSafe, RequestShaped, HoldsInvitations
<1>5. \A j \in Invites : lock[j] = r => j = i /\ Consumes(q, j) /\ ~Ends(q, j) /\ ~Inserts(q, j)
  BY <1>2, <1>3, <1>4 DEF SlotSafe, HoldsInvitations, Ends, Inserts, Consumes
<1>6. Live(db[i]) /\ db'[i] = [db[i] EXCEPT !.consumed = TRUE]
  BY <1>1, <1>4, <1>5, CommittedInvite DEF Consumes
<1>7. \A j \in Invites : j # i => db'[j] = db[j]
  BY <1>5, CommittedInvite
<1>8. db[i].email = q.person /\ (db[i].kind = "INITIAL_OWNER" <=> q.op \in OwnerOps)
  BY <1>1, <1>2, <1>3, <1>4, OpSets DEF SlotSafe, Knows, JoinOps, OwnerOps
<1>9. db[i] \in InviteRow /\ db'[i] \in InviteRow
  BY <1>3, <1>4, BookPages, BookPagesNext
<1>10. /\ db'[i].kind = db[i].kind /\ db'[i].email = db[i].email /\ db'[i].consumed
  BY <1>6, <1>9 DEF InviteRow
<1>11. Shown(db[i]) = "PENDING" /\ Shown(db'[i]) = "ACCEPTED"
  BY <1>6, <1>9, <1>10, Entries DEF Live, Issued
<1>12. TheBook' = [TheBook EXCEPT ![i].shown = "ACCEPTED"]
  <2>1. Entry(db'[i]) = [Entry(db[i]) EXCEPT !.shown = "ACCEPTED"]
    BY <1>10, <1>11 DEF Entry
  <2>2. \A j \in Invites : j # i => Entry(db'[j]) = Entry(db[j])
    BY <1>7
  <2>3. TheBook' = [j \in Invites |-> Entry(db'[j])]
    BY DEF TheBook, Entry, Shown, Issued
  <2>4. QED BY <1>4, <2>1, <2>2, <2>3 DEF TheBook
<1>13. Joiners' = Joiners \cup {TheBook[i].email}
  BY <1>1, <1>3, <1>4, <1>8, BookPages, CommitJoiners
<1>14. IF TheBook[i].kind = "INITIAL_OWNER"
       THEN db[Own] = None /\ db'[Own] = TheBook[i].email
       ELSE db'[Own] = db[Own]
  BY <1>1, <1>3, <1>4, <1>8, BookPages, CommittedOwner
<1>15. TheBook[i].shown = "PENDING"
  BY <1>3, <1>4, <1>11, BookPages
<1>16. QED BY <1>1, <1>2, <1>4, <1>12, <1>13, <1>14, <1>15 DEF BookAccept

\* Any other commit revokes pending invitations and puts one in their place, or
\* leaves the book as it is.
LEMMA OtherCommits ==
  ASSUME InvitationIInv, InvitationIInv', NEW r \in Requests, Commit(r),
         req[r].op \notin JoinOps \cup OwnerOps
  PROVE  BookChange \/ (TheBook' = TheBook /\ Joiners' = Joiners /\ db'[Own] = db[Own])
<1>1. PICK q : q = req[r]
  OBVIOUS
<1>2. RowsSafe /\ RowsSafe' /\ SlotSafe(r, q)
  BY <1>1, Parts DEF InvitationIInv, TypeOK, RowsSafe
<1>3. Joiners' = Joiners /\ db'[Own] = db[Own]
  BY CommitJoiners, CommittedOwner
<1> DEFINE S == {i \in PendingPages : TheBook'[i].shown = "REVOKED"}
           new == {i \in Invites : TheBook[i] = BlankPage /\ TheBook'[i] # BlankPage}
<1>4. ASSUME NEW i \in Invites
      PROVE  \/ db'[i] = db[i]
             \/ /\ lock[i] = r /\ Issued(db[i]) /\ ~Live(db'[i])
                /\ db'[i] = [db[i] EXCEPT !.revoked = TRUE]
             \/ /\ lock[i] = r /\ Inserts(q, i) /\ db'[i] = dirty[i]
  BY <1>1, CommittedInvite DEF Ends, Consumes
<1>5. ASSUME NEW i \in Invites, db'[i] # db[i], Issued(db[i])
      PROVE  /\ db'[i].kind = db[i].kind /\ db'[i].email = db[i].email
             /\ db'[i].consumed = db[i].consumed /\ db'[i].revoked /\ Issued(db'[i])
             /\ lock[i] = r
  <2>1. ~Inserts(q, i)
    BY <1>5 DEF Inserts, Issued, Unissued
  <2>2. lock[i] = r /\ db'[i] = [db[i] EXCEPT !.revoked = TRUE] /\ db[i] \in InviteRow
    BY <1>2, <1>4, <1>5, <2>1, BookPages
  <2>3. QED BY <1>5, <2>2 DEF InviteRow, Issued
<1>6. ASSUME NEW i \in Invites, db'[i] # db[i], ~Issued(db[i])
      PROVE  /\ lock[i] = r /\ Inserts(q, i) /\ Live(db'[i]) /\ db[i] = Unissued
             /\ db'[i].kind \in {"INITIAL_OWNER", "COLLABORATOR"} /\ db'[i].email \in People
  <2>1. lock[i] = r /\ Inserts(q, i) /\ db'[i] = dirty[i]
    BY <1>4, <1>6
  <2>2. Addressed(dirty[i])
    BY <1>2 DEF RowsSafe
  <2>3. QED BY <2>1, <2>2 DEF Inserts, Live, Addressed
<1>7. \A i \in S : /\ i \in Invites /\ TheBook'[i] = [TheBook[i] EXCEPT !.shown = "REVOKED"]
  <2>1. ASSUME NEW i \in S
        PROVE  i \in Invites /\ TheBook'[i] = [TheBook[i] EXCEPT !.shown = "REVOKED"]
    <3>1. i \in Invites /\ Shown(db[i]) = "PENDING" /\ Shown(db'[i]) = "REVOKED"
          /\ db[i] \in InviteRow
      BY <1>2, BookPages, BookPagesNext DEF PendingPages
    <3>2. Issued(db[i]) /\ db'[i] # db[i]
      BY <3>1, Entries DEF Live
    <3>3. db'[i].kind = db[i].kind /\ db'[i].email = db[i].email
      BY <1>5, <3>1, <3>2
    <3>4. Entry(db'[i]) = [Entry(db[i]) EXCEPT !.shown = "REVOKED"]
      BY <3>1, <3>3 DEF Entry
    <3>5. QED BY <1>2, <3>1, <3>4, BookPages, BookPagesNext
  <2>2. QED BY <2>1
<1>8. \A i \in new : /\ i \in Invites /\ lock[i] = r /\ Inserts(q, i) /\ Live(db'[i])
                     /\ db[i] = Unissued /\ db'[i].email \in People
                     /\ db'[i].kind \in {"INITIAL_OWNER", "COLLABORATOR"}
  <2>1. ASSUME NEW i \in new PROVE i \in Invites /\ db'[i] # db[i] /\ ~Issued(db[i])
    <3>1. i \in Invites /\ TheBook[i] = BlankPage /\ TheBook'[i] # BlankPage
      OBVIOUS
    <3>2. Shown(db[i]) = "ABSENT" /\ db[i] \in InviteRow
      BY <1>2, <3>1, BookPages DEF BlankPage
    <3>3. Entry(db'[i]) # Entry(db[i])
      BY <1>2, <3>1, BookPages, BookPagesNext
    <3>4. QED BY <3>1, <3>2, <3>3, Entries
  <2>2. QED BY <1>6, <2>1
<1>9. \A i \in Invites \ (S \cup new) : TheBook'[i] = TheBook[i]
  <2>1. ASSUME NEW i \in Invites, i \notin S, i \notin new PROVE TheBook'[i] = TheBook[i]
    <3>1. db[i] \in InviteRow /\ db'[i] \in InviteRow /\ TheBook[i] = Entry(db[i])
          /\ TheBook'[i] = Entry(db'[i])
      BY <1>2, BookPages, BookPagesNext
    <3>2. CASE db'[i] = db[i]
      BY <3>1, <3>2
    <3>3. CASE db'[i] # db[i] /\ Issued(db[i])
      <4>1. ~(Shown(db[i]) = "PENDING" /\ Shown(db'[i]) = "REVOKED")
        BY <1>2, <2>1, BookPages, BookPagesNext DEF PendingPages
      <4>2. Shown(db'[i]) = Shown(db[i])
        BY <1>5, <3>1, <3>3, <4>1, Entries DEF Live
      <4>3. QED BY <1>5, <3>1, <3>3, <4>2 DEF Entry
    <3>4. CASE db'[i] # db[i] /\ ~Issued(db[i])
      <4>1. Live(db'[i]) /\ db[i] = Unissued
        BY <1>6, <3>4
      <4>2. TheBook[i] = BlankPage
        BY <3>1, <4>1, Entries DEF BlankPage
      <4>3. TheBook'[i].shown = "PENDING" /\ BlankPage.shown = "ABSENT"
        BY <1>2, <3>1, <4>1, Entries, BookPagesNext DEF BlankPage
      <4>4. QED BY <2>1, <4>2, <4>3
    <3>5. QED BY <3>2, <3>3, <3>4
  <2>2. QED BY <2>1
<1>10. ASSUME NEW i \in new
       PROVE  /\ TheBook'[i] \in OfferedPages /\ new = {i}
              /\ \A j \in PendingPages \ S : TheBook[j].email # TheBook'[i].email
  <2>1. i \in Invites /\ lock[i] = r /\ Inserts(q, i) /\ Live(db'[i]) /\ db[i] = Unissued
        /\ db'[i].email \in People /\ db'[i].kind \in {"INITIAL_OWNER", "COLLABORATOR"}
    BY <1>8
  <2>2. TheBook'[i] \in OfferedPages
    <3>1. TheBook'[i] = Entry(db'[i]) /\ Shown(db'[i]) = "PENDING"
      BY <1>2, <2>1, BookPagesNext, Entries
    <3>2. QED BY <2>1, <3>1 DEF Entry, OfferedPages
  <2>3. new = {i}
    BY <1>2, <1>8, <2>1 DEF SlotSafe, HoldsInvitations
  <2>4. ASSUME NEW j \in PendingPages \ S PROVE TheBook[j].email # TheBook'[i].email
    <3>1. j \in Invites /\ Live(db[j]) /\ db[j] \in InviteRow /\ Shown(db'[j]) # "REVOKED"
      BY <1>2, <2>4, BookPages, BookPagesNext, Entries DEF PendingPages
    <3>2. db'[j] = db[j]
      <4>1. Issued(db[j]) /\ ~db[j].consumed
        BY <3>1 DEF Live
      <4>2. ASSUME db'[j] # db[j] PROVE FALSE
        <5>1. Issued(db'[j]) /\ ~db'[j].consumed /\ db'[j].revoked
          BY <1>5, <3>1, <4>1, <4>2
        <5>2. QED BY <3>1, <5>1 DEF Shown
      <4>3. QED BY <4>2
    <3>3. j # i
      BY <2>1, <3>1 DEF Live, Issued, Unissued
    <3>4. db'[j].email # db'[i].email
      BY <1>2, <2>1, <3>1, <3>2, <3>3 DEF RowsSafe, OneAwaits
    <3>5. QED BY <1>2, <2>1, <3>1, <3>2, <3>4, BookPages, BookPagesNext
  <2>5. QED BY <2>2, <2>3, <2>4
<1>11. CASE S \cup new = {}
  <2>1. \A i \in Invites : Entry(db'[i]) = Entry(db[i])
    BY <1>2, <1>9, <1>11, BookPages, BookPagesNext
  <2>2. TheBook' = [j \in Invites |-> Entry(db'[j])]
    BY DEF TheBook, Entry, Shown, Issued
  <2>3. QED BY <1>3, <2>1, <2>2 DEF TheBook
<1>12. CASE S \cup new # {}
  BY <1>3, <1>7, <1>9, <1>10, <1>12 DEF BookChange
<1>13. QED BY <1>11, <1>12

\* A new Organization: one page more, in an empty book.
LEMMA CreationIsChange ==
  ASSUME InvitationIInv, InvitationIInv', NEW p \in People, CreateOrganization(p)
  PROVE  BookChange
<1>1. RowsSafe /\ RowsSafe'
  BY Parts DEF InvitationIInv, TypeOK, RowsSafe
<1>2. /\ db'[Own] = db[Own] /\ \A q \in People : db'[q] = db[q]
      /\ \A i \in Invites : db[i] = Unissued
  BY CreatedRows
<1>3. PICK i \in Invites : /\ db'[i] = Fresh("INITIAL_OWNER", p)
                           /\ \A j \in Invites : j # i => db'[j] = Unissued
  BY CreatedRows
<1>4. /\ db'[i].kind = "INITIAL_OWNER" /\ db'[i].email = p /\ Live(db'[i])
  <2>1. db'[i] = [kind |-> "INITIAL_OWNER", email |-> p, consumed |-> FALSE, revoked |-> FALSE]
    BY <1>3 DEF Fresh, Unissued
  <2>2. "INITIAL_OWNER" # None
    BY RowKinds DEF Kinds
  <2>3. QED BY <2>1, <2>2 DEF Live, Issued
<1>5. /\ \A j \in Invites : TheBook[j] = BlankPage
      /\ \A j \in Invites : j # i => TheBook'[j] = BlankPage
  BY <1>1, <1>2, <1>3, BookPages, BookPagesNext, Entries DEF BlankPage
<1>6. TheBook'[i] \in OfferedPages /\ TheBook'[i] # BlankPage
  <2>1. TheBook'[i] = Entry(db'[i]) /\ TheBook'[i].shown = "PENDING"
    BY <1>1, <1>4, BookPagesNext, Entries
  <2>2. Entry(db'[i]) = [shown |-> "PENDING", kind |-> "INITIAL_OWNER", email |-> p]
    BY <1>1, <1>4, <2>1, BookPagesNext DEF Entry
  <2>3. BlankPage.shown = "ABSENT"
    BY DEF BlankPage
  <2>4. QED BY <2>1, <2>2, <2>3 DEF OfferedPages
<1>7. PendingPages = {}
  BY <1>5 DEF PendingPages, BlankPage
<1>8. Joiners' = Joiners
  BY <1>2 DEF Joiners
<1>9. QED BY <1>2, <1>5, <1>6, <1>7, <1>8 DEF BookChange

LEMMA InitBook ==
  ASSUME Init
  PROVE  Book!Init
<1>1. InvitationIInv /\ RowsSafe
  BY InitSafe, Parts
<1>2. PICK start \in Starts, owner \in People, guest \in People,
          standing \in [People -> Standings] :
        InitRows([x \in Rows |-> StartRow(x, start, owner, guest, standing)])
  BY DEF Init
<1>3. start \in {"new", "open", "invited"}
  BY InvitationAssumption DEF InvitationAssumption
<1>4. /\ db[Own] = IF start = "new" THEN None ELSE owner
      /\ \A i \in Invites : db[i] = StartInvite(i, start, owner, guest)
      /\ \A p \in People : db[p] = StartPerson(p, start, owner, standing)
  BY <1>2, RowKinds DEF InitRows, StartRow
<1>5. start # "new" => owner \in Joiners
  <2>1. start # "new" => StartPerson(owner, start, owner, standing) =
          [identity |-> TRUE, status |-> "ACTIVE", profile |-> "Administrator", version |-> 1]
    BY DEF StartPerson
  <2>2. start # "new" => db[owner].status = "ACTIVE"
    BY <1>4, <2>1
  <2>3. QED BY <2>2 DEF Joiners
<1>6. \A i, j \in Invites : Shown(db[i]) = "PENDING" /\ Shown(db[j]) = "PENDING"
                            /\ db[i].email = db[j].email => i = j
  <2>1. \A i \in Invites : Shown(db[i]) = "PENDING" => Live(db[i])
    BY <1>1, Entries DEF RowsSafe, RowsTyped
  <2>2. QED BY <1>1, <2>1 DEF RowsSafe, OneAwaits
<1>7. \A i \in Invites : Shown(db[i]) = "ACCEPTED" => db[i].email \in Joiners
  <2>1. \A i \in Invites : Shown(db[i]) = "ACCEPTED" => db[i].consumed
    BY <1>1, Entries DEF RowsSafe, RowsTyped
  <2>2. \A i \in Invites : /\ db[i].consumed => db[i].kind = "INITIAL_OWNER"
                           /\ db[i].kind = "INITIAL_OWNER" => start # "new" /\ db[i].email = owner
    BY <1>3, <1>4, FirstRows
  <2>3. QED BY <1>5, <2>1, <2>2
<1>8. db[Own] # None => db[Own] \in Joiners
  BY <1>4, <1>5
<1>9. \A i \in Invites : /\ TheBook[i].shown = Shown(db[i]) /\ TheBook[i].email = db[i].email
  BY <1>1, BookPages
<1>10. /\ \A i, j \in PendingPages : TheBook[i].email = TheBook[j].email => i = j
       /\ \A i \in Invites : TheBook[i].shown = "ACCEPTED" => TheBook[i].email \in Joiners
       /\ db[Own] # None => db[Own] \in Joiners
  BY <1>6, <1>7, <1>8, <1>9 DEF PendingPages
<1>11. QED BY <1>10 DEF TheBook, Entry, Joiners, PendingPages, Book!Init, Book!Pending

\* Whatever the interleaving of acceptances, resends, revocations and disablings,
\* each commit is one step of InvitationBook: an invitation is resolved once, one
\* at most awaits an address, and only acceptances let anybody in
\* (collaborator-acceptance.service.ts, initial-owner-acceptance.service.ts).
THEOREM InvitationsAreBook == Spec => ImplementsBook
<1>1. Init => Book!Init
  BY InitBook
<1>2. InvitationIInv /\ InvitationIInv' /\ [Next]_vars => [Book!Next]_(Book!bookVars)
  <2> SUFFICES ASSUME InvitationIInv, InvitationIInv', [Next]_vars
               PROVE  [Book!Next]_(Book!bookVars)
    OBVIOUS
  <2>1. CASE db' = db
    <3>1. TheBook' = TheBook /\ Joiners' = Joiners /\ db'[Own] = db[Own]
      BY <2>1 DEF TheBook, Entry, Joiners
    <3>2. QED BY <3>1, BookUnfolds
  <2>2. ASSUME NEW r \in Requests, Commit(r) PROVE [Book!Next]_(Book!bookVars)
    <3>1. CASE req[r].op \in JoinOps \cup OwnerOps
      BY <2>2, <3>1, AcceptanceCommits, BookUnfolds
    <3>2. CASE req[r].op \notin JoinOps \cup OwnerOps
      BY <2>2, <3>2, OtherCommits, BookUnfolds
    <3>3. QED BY <3>1, <3>2
  <2>3. ASSUME NEW p \in People, CreateOrganization(p) PROVE [Book!Next]_(Book!bookVars)
    BY <2>3, CreationIsChange, BookUnfolds
  <2>4. QED BY <2>1, <2>2, <2>3, Commits
<1>3. QED BY <1>1, <1>2, InvitationInvariant, PTL DEF Spec, ImplementsBook, Book!Spec
=============================================================================
