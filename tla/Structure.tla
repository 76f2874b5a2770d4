----------------------------- MODULE Structure -----------------------------
(***************************************************************************)
(* OrganizationAdminService: the transactions that create, edit, activate  *)
(* and deactivate the Companies and Business Scopes of one Organization,   *)
(* statement by statement.                                                 *)
(*                                                                         *)
(* db has a row per Company and per Business Scope, NoCompany or NoScope   *)
(* while it does not exist.  A label stands for everything a scope is      *)
(* described by; scopes with equal Key are the same to the unique index.   *)
(***************************************************************************)
EXTENDS Handlers

CONSTANTS Companies, Scopes, Names, Labels, Key,
          Ops,       \* the operations requests may call
          MaxStart,  \* bound: Companies and Business Scopes there at the start
          MaxBegun   \* bound: requests begun in a behaviour

CompanyOps == {"renameCompany", "deactivateCompany", "reactivateCompany"}
ScopeOps   == {"updateScope", "deactivateScope", "reactivateScope"}
AllOps     == CompanyOps \cup ScopeOps \cup {"createCompany", "createScope"}
Rows       == Companies \cup Scopes

ASSUME StructureAssumption ==
  /\ Companies \cap Scopes = {}
  /\ None \notin Companies \cup Scopes \cup Names \cup Labels \cup Requests \cup AllOps
  /\ Labels = DOMAIN Key
  /\ Ops \subseteq AllOps /\ {MaxStart, MaxBegun} \subseteq Nat

VARIABLE begun

vars == <<rowVars, req, begun>>

\* The structure that is committed.
Register == INSTANCE StructureRegister
              WITH company <- [c \in Companies |-> db[c]], scope <- [s \in Scopes |-> db[s]]

NoCompany == Register!NoCompany
NoScope   == Register!NoScope

\* evidence: the AuditEvidence row the transaction inserts.
NoEvidence == [of |-> None]
Idle == [pc |-> "idle", op |-> None, company |-> None, scope |-> None, text |-> None,
         version |-> 0, seen |-> None, evidence |-> NoEvidence]

\* Whatever structure the Organization has got; nothing in it is edited yet.
Init ==
  /\ \E cs \in [Companies -> Register!StartCompanies], ss \in [Scopes -> Register!StartScopes] :
       InitRows([x \in Rows |-> IF x \in Companies THEN cs[x] ELSE ss[x]])
  /\ Register!RegisterInit
  /\ Cardinality({x \in Rows : db[x].version # 0}) <= MaxStart
  /\ req = [r \in Requests |-> Idle]
  /\ begun = 0

-----------------------------------------------------------------------------
Continue(r, stage) == Goto(r, stage) /\ UNCHANGED <<rowVars, begun>>

Abort(r) == RollbackRows(r) /\ Become(r, Idle) /\ UNCHANGED begun

\* An INSERT or UPDATE of row x and the evidence that follows it.
WriteWithEvidence(r, x, v, before, after) ==
  /\ Update(r, x, v)
  /\ Become(r, [req[r] EXCEPT !.pc = "commit",
                              !.evidence = [of |-> x, before |-> before, after |-> after]])
  /\ UNCHANGED begun

Status(op) == IF op \in {"deactivateCompany", "deactivateScope"} THEN "INACTIVE" ELSE "ACTIVE"

Exists(x) == db[x] \notin {NoCompany, NoScope}

-----------------------------------------------------------------------------
(***************************************************************************)
(* The unique indexes: on a Company's name, and on a scope's Company and   *)
(* Key.                                                                    *)
(***************************************************************************)
\* Mutation: the index is on what a scope's label says, not on its Key.
SameKeyRaw(x, v, w) ==
  IF x \in Companies THEN v.name = w.name ELSE v.company = w.company /\ v.label = w.label

SameKey(x, v, w) ==
  IF x \in Companies THEN v.name = w.name
  ELSE v.company = w.company /\ v.company # None /\ Key[v.label] = Key[w.label]

Siblings(x) == (IF x \in Companies THEN Companies ELSE Scopes) \ {x}

\* Giving row x the value v waits for whoever is writing that key elsewhere,
\* or taking it away ...
IndexHolders(r, x, v) ==
  {lock[y] : y \in {y \in Siblings(x) : /\ dirty[y] # db[y]
                                        /\ SameKey(x, db[y], v) \/ SameKey(x, dirty[y], v)}}
    \ {None, r}

\* ... and fails if the key is still there.
KeyTaken(r, x, v) == \E y \in Siblings(x) : SameKey(x, See(r, y), v)

\* What the INSERT, or the UPDATE of an edit, of request q writes: <<row, value>>.
Unused(rows, blank) == {x \in rows : dirty[x] = blank}

Intended(q) ==
  CASE q.op = "createCompany" ->
         {<<c, Register!NewCompany(q.text)>> : c \in Unused(Companies, NoCompany)}
    [] q.op = "createScope" ->
         {<<s, Register!NewScope(q.company, q.text)>> : s \in Unused(Scopes, NoScope)}
    [] q.op = "renameCompany" ->
         {<<q.company, [db[q.company] EXCEPT !.name = q.text, !.version = q.version + 1]>>}
    [] q.op = "updateScope" ->
         {<<q.scope, [db[q.scope] EXCEPT !.label = q.text, !.version = q.version + 1]>>}

WriteBlockers(r, x, v) == Holders(r, x) \cup IndexHolders(r, x, v)

\* The write, or a unique violation, once nothing is in the way.
WriteKey(r, x, v, before, after) ==
  /\ WriteBlockers(r, x, v) = {}
  /\ IF KeyTaken(r, x, v) THEN Abort(r) ELSE WriteWithEvidence(r, x, v, before, after)

-----------------------------------------------------------------------------
(***************************************************************************)
(* The calls.  An edit carries the version its editor was shown.           *)
(***************************************************************************)
FirstStage(op) ==
  CASE op \in {"createCompany"} -> "insert" [] op = "renameCompany" -> "readCompany"
    [] op \in ScopeOps -> "readScope" [] OTHER -> "lock"

Begin(r, op, call) ==
  /\ At(r, "idle") /\ begun < MaxBegun /\ op \in Ops
  /\ Become(r, [call EXCEPT !.op = op, !.pc = FirstStage(op)])
  /\ begun' = begun + 1
  /\ UNCHANGED rowVars

BeginCreation(r) ==
  \/ \E name \in Names : Begin(r, "createCompany", [Idle EXCEPT !.text = name])
  \/ \E c \in Companies, label \in Labels :
       Exists(c) /\ Begin(r, "createScope", [Idle EXCEPT !.company = c, !.text = label])

BeginEdit(r) ==
  \/ \E c \in Companies, name \in Names : \E version \in 1..db[c].version :
       Begin(r, "renameCompany", [Idle EXCEPT !.company = c, !.text = name, !.version = version])
  \/ \E s \in Scopes, label \in Labels : \E version \in 1..db[s].version :
       Begin(r, "updateScope", [Idle EXCEPT !.scope = s, !.text = label, !.version = version])

BeginChange(r) ==
  \/ \E c \in Companies, op \in {"deactivateCompany", "reactivateCompany"} :
       Exists(c) /\ Begin(r, op, [Idle EXCEPT !.company = c])
  \/ \E s \in Scopes, op \in {"deactivateScope", "reactivateScope"} :
       Exists(s) /\ Begin(r, op, [Idle EXCEPT !.scope = s])

-----------------------------------------------------------------------------
(***************************************************************************)
(* The statements.                                                         *)
(***************************************************************************)
NoFields == [x \in {} |-> None]

InsertCompany(r) ==
  /\ At(r, "insert") /\ req[r].op = "createCompany"
  /\ \E w \in Intended(req[r]) : WriteKey(r, w[1], w[2], NoFields, [name |-> req[r].text])

\* Both triggers look again whenever a status is written.
ParentGuard(r, c, status) == status = "ACTIVE" => See(r, c).status = "ACTIVE"
ChildGuard(r, c, status) ==
  status = "INACTIVE" /\ See(r, c).status # status => Register!ActiveScopes(c) = {}

\* Mutation: the query forgets to select the scope's companyId.
ReadScopeStatusOnly(r) ==
  /\ At(r, "readScope")
  /\ Become(r, [req[r] EXCEPT !.seen = db[req[r].scope].status,
                              !.pc = IF req[r].op = "updateScope" THEN "claim" ELSE "lock"])
  /\ UNCHANGED <<rowVars, begun>>

\* A scope's status is read before its Company is locked.
ReadScope(r) ==
  LET q == req[r]
      row == db[q.scope]
  IN /\ At(r, "readScope")
     /\ IF q.op = "updateScope" /\ row.version # q.version THEN Abort(r)
        ELSE /\ Become(r, [q EXCEPT !.company = row.company, !.seen = row.status,
                                    !.pc = IF q.op = "updateScope" THEN "claim" ELSE "lock"])
             /\ UNCHANGED <<rowVars, begun>>

\* What follows lockCompany, given the Company's status.
AfterLock(q, status) ==
  [q EXCEPT !.seen = IF q.op \in CompanyOps THEN status ELSE @,
            !.pc = CASE q.op = "createScope" -> "insert" [] q.op = "deactivateCompany" -> "children"
                     [] OTHER -> "set"]

Refused(q, status) == q.op \in {"createScope", "reactivateScope"} /\ status # "ACTIVE"

\* Mutation: lockCompany is a plain SELECT.
ReadCompanyOnly(r) ==
  LET q == req[r]
      status == db[q.company].status
  IN /\ At(r, "lock")
     /\ IF Refused(q, status) THEN Abort(r)
        ELSE Become(r, AfterLock(q, status)) /\ UNCHANGED <<rowVars, begun>>

\* SELECT ... FOR UPDATE of the Company.
LockCompany(r) ==
  LET q == req[r]
      status == db[q.company].status
  IN /\ At(r, "lock") /\ Holders(r, q.company) = {}
     /\ IF Refused(q, status) THEN Abort(r)
        ELSE /\ Update(r, q.company, db[q.company])
             /\ Become(r, AfterLock(q, status)) /\ UNCHANGED begun

InsertScope(r) ==
  LET q == req[r] IN
  /\ At(r, "insert") /\ q.op = "createScope"
  /\ IF ParentGuard(r, q.company, "ACTIVE")
     THEN \E w \in Intended(q) :
            WriteKey(r, w[1], w[2], NoFields, [company |-> q.company, label |-> q.text])
     ELSE Abort(r)

ReadCompany(r) ==
  /\ At(r, "readCompany")
  /\ IF db[req[r].company].version = req[r].version THEN Continue(r, "claim") ELSE Abort(r)

\* Mutation: UPDATE ... WHERE id = ... only.
ClaimById(r) ==
  /\ At(r, "claim")
  /\ \E w \in Intended(req[r]) : WriteKey(r, w[1], w[2], [version |-> req[r].version], NoFields)

\* Mutation: updateBusinessScope locks the Company when it has written the scope.
ClaimThenLockCompany(r) ==
  LET q == req[r] IN
  /\ At(r, "claim")
  /\ \E w \in Intended(q) :
       /\ WriteBlockers(r, w[1], w[2]) = {} /\ ~KeyTaken(r, w[1], w[2])
       /\ db[w[1]].version = q.version
       /\ Update(r, w[1], w[2])
       /\ Goto(r, IF q.op = "updateScope" THEN "lock" ELSE "commit") /\ UNCHANGED begun

\* UPDATE ... WHERE version = expectedVersion, of renameCompany and updateBusinessScope;
\* the evidence of the latter holds the scope as read, with its status of then.
Claim(r) ==
  LET q == req[r] IN
  /\ At(r, "claim")
  /\ \E w \in Intended(q) :
       LET x == w[1]
           v == w[2]
           before == IF q.op = "renameCompany" THEN [name |-> db[x].name, version |-> q.version]
                     ELSE [db[x] EXCEPT !.status = q.seen]
           after == IF q.op = "renameCompany" THEN [name |-> q.text]
                    ELSE [v EXCEPT !.status = q.seen]
       IN IF db[x].version = q.version THEN WriteKey(r, x, v, before, after) ELSE Abort(r)

ReadActiveScopes(r) ==
  /\ At(r, "children")
  /\ IF Register!ActiveScopes(req[r].company) = {} THEN Continue(r, "set") ELSE Abort(r)

\* Mutation: only a Company's status is compared before it is written.
UnchangedCompany(q) == q.op = "reactivateCompany" /\ q.seen = Status(q.op)

\* Returning early leaves everything as it was.
Unchanged(q) == q.op # "deactivateCompany" /\ q.seen = Status(q.op)

SetCompany(r) ==
  LET q == req[r]
      c == q.company
      status == Status(q.op)
  IN /\ At(r, "set") /\ q.op \in CompanyOps
     /\ IF Unchanged(q) THEN Continue(r, "commit")
        ELSE /\ Holders(r, c) = {}
             /\ IF ChildGuard(r, c, status)
                THEN WriteWithEvidence(r, c, [See(r, c) EXCEPT !.status = status],
                                       [status |-> q.seen], [status |-> status])
                ELSE Abort(r)

\* By id: the scope's status is the one that was read before the lock.
SetScope(r) ==
  LET q == req[r]
      s == q.scope
      status == Status(q.op)
  IN /\ At(r, "set") /\ q.op \in ScopeOps
     /\ IF Unchanged(q) THEN Continue(r, "commit")
        ELSE /\ Holders(r, s) = {}
             /\ IF ParentGuard(r, q.company, status)
                THEN WriteWithEvidence(r, s, [db[s] EXCEPT !.status = status],
                                       [status |-> q.seen], [status |-> status])
                ELSE Abort(r)

Commit(r) == At(r, "commit") /\ CommitRows(r) /\ Become(r, Idle) /\ UNCHANGED begun

\* An error, a crash, a timeout, an actor who has lost access.
Fail(r) == ~At(r, "idle") /\ Abort(r)

\* What r's next statement waits for.
Blockers(r) ==
  LET q == req[r] IN
  CASE q.pc = "lock" -> Holders(r, q.company)
    [] q.pc = "insert" -> UNION {WriteBlockers(r, w[1], w[2]) : w \in Intended(q)}
    [] q.pc = "claim" -> UNION {IF db[w[1]].version = q.version THEN WriteBlockers(r, w[1], w[2])
                                ELSE {} : w \in Intended(q)}
    [] q.pc = "set" /\ ~Unchanged(q) ->
         Holders(r, IF q.op \in ScopeOps THEN q.scope ELSE q.company)
    [] OTHER -> {}

Statement(r) ==
  \/ InsertCompany(r) \/ ReadScope(r) \/ LockCompany(r) \/ InsertScope(r) \/ ReadCompany(r)
  \/ Claim(r) \/ ReadActiveScopes(r) \/ SetCompany(r) \/ SetScope(r) \/ Commit(r)

\* A bounded behaviour is over: every request is answered and no other begins.
Quiescent == (\A r \in Requests : At(r, "idle")) /\ UNCHANGED vars

Next ==
  \/ \E r \in Requests : BeginCreation(r) \/ BeginEdit(r) \/ BeginChange(r) \/ Statement(r) \/ Fail(r)
  \/ Quiescent

Spec == Init /\ [][Next]_vars
-----------------------------------------------------------------------------
(***************************************************************************)
(* Properties.                                                             *)
(***************************************************************************)
Stages == {"idle", "insert", "readScope", "readCompany", "lock", "children", "claim", "set", "commit"}

RowsTyped(rows) ==
  /\ DOMAIN rows = Rows
  /\ \A c \in Companies : rows[c] \in Register!CompanyRow
  /\ \A s \in Scopes : rows[s] \in Register!ScopeRow

RequestTyped(q) ==
  /\ DOMAIN q = DOMAIN Idle
  /\ q.pc \in Stages /\ q.op \in AllOps \cup {None} /\ q.version \in Nat
  /\ q.company \in Companies \cup {None} /\ q.scope \in Scopes \cup {None}
  /\ q.text \in Names \cup Labels \cup {None}
  /\ q.seen \in Register!LifeStatuses \cup {None}
  /\ q.pc \in {"lock", "children", "readCompany"} => q.company \in Companies
  /\ q.pc = "readScope" \/ (q.op \in ScopeOps /\ q.pc \in {"claim", "set"}) => q.scope \in Scopes
  /\ q.pc = "set" => q.seen \in Register!LifeStatuses

\* Every row and request slot holds what its table and its handler can put there.
TypeOK ==
  /\ RowsTyped(db) /\ RowsTyped(dirty)
  /\ lock \in [Rows -> Requests \cup {None}]
  /\ DOMAIN req = Requests /\ \A r \in Requests : RequestTyped(req[r])
  /\ begun \in Nat

\* Deactivating a Company never leaves behind a Business Scope that another
\* transaction was creating or reactivating (organization-admin.service.ts:75,
\* 183, 416: each of them locks the Company first).
ActiveScopeHasActiveCompany == Register!ParentsActive

\* Two transactions never store the same Company, or the same Business Scope
\* of a Company under another spelling.
NoDuplicateStructure == Register!IdentitiesUnique

\* Each commit is one step of the register: an edit replaces exactly the version
\* its editor saw, whatever status changes commit meanwhile.
ImplementsRegister == Register!RegisterSpec

\* What the evidence tells of the row's edited fields: a Business Scope's status was
\* read before the lock, of it only EvidenceTells and StatusChangeTold hold.
Told(e, fields) == DOMAIN fields \ (IF e.of \in Scopes THEN {"status"} ELSE {})

\* A change of status that is told leaves that status, though others may have made it.
EvidenceTells(r) ==
  LET e == req[r].evidence
  IN /\ \A f \in Told(e, e.before) : db[e.of][f] = e.before[f]
     /\ \A f \in Told(e, e.after) : db'[e.of][f] = e.after[f]
     /\ req[r].op \in {"deactivateScope", "reactivateScope"} => db'[e.of].status = e.after.status

\* A change of status that is made is told.
StatusChangeTold(r) ==
  \A s \in Scopes :
    db[s] # NoScope /\ db'[s].status # db[s].status
      => req[r].evidence = [of |-> s, before |-> [status |-> db[s].status],
                                      after |-> [status |-> db'[s].status]]

\* The evidence of a commit tells what it replaced and what it left.  A Business
\* Scope's status is read before its Company is locked, so the evidence may repeat
\* what another request has committed meanwhile; but no change of a status is
\* committed without the evidence of exactly this change
\* (organization-admin.service.ts:411, 421-440).
StructureEvidence ==
  [][\A r \in Requests : Commit(r) => /\ req[r].evidence # NoEvidence => EvidenceTells(r)
                                      /\ StatusChangeTold(r)]_vars

\* The transactions never wait in a circle: they lock a Company before its
\* scopes, and hold one row when they wait for another at most this way round.
NoCircleOfWaits == \A r \in Requests : ~OnWaitCycle(r, Blockers)

-----------------------------------------------------------------------------
(***************************************************************************)
(* The inductive invariant.                                                *)
(***************************************************************************)
StageOf(op) ==
  CASE op = "createCompany" -> {"insert", "commit"}
    [] op = "createScope" -> {"lock", "insert", "commit"}
    [] op = "renameCompany" -> {"readCompany", "claim", "commit"}
    [] op = "updateScope" -> {"readScope", "claim", "commit"}
    [] op = "deactivateCompany" -> {"lock", "children", "set", "commit"}
    [] op = "reactivateCompany" -> {"lock", "set", "commit"}
    [] op \in {"deactivateScope", "reactivateScope"} -> {"readScope", "lock", "set", "commit"}
    [] OTHER -> {"idle"}

\* A request names rows that are there and stay there, and the Company of its scope.
NamesRows(q) ==
  /\ q.pc \in StageOf(q.op)
  /\ q.op \in CompanyOps \cup {"createScope"} =>
       q.company \in Companies /\ db[q.company].name # None
  /\ q.op \in ScopeOps =>
       /\ q.scope \in Scopes /\ db[q.scope].company # None
       /\ q.pc # "readScope" =>
            q.company = db[q.scope].company /\ q.seen \in Register!LifeStatuses
  /\ q.op \in {"createCompany", "renameCompany"} => q.text \in Names
  /\ q.op \in {"createScope", "updateScope"} => q.text \in Labels

\* The Company, from its lock to the end, and the row the evidence is about.
LocksCompany(q) ==
  /\ q.op \in {"createScope", "deactivateCompany", "reactivateCompany",
                "deactivateScope", "reactivateScope"}
  /\ q.pc \in {"insert", "children", "set", "commit"}

RowsOf(q) == (IF LocksCompany(q) THEN {q.company} ELSE {}) \cup ({q.evidence.of} \ {None})

\* What is to become of the row the evidence is about.
Edited(q, row) ==
  CASE q.op = "createCompany" -> Register!NewCompany(q.text)
    [] q.op = "createScope" -> Register!NewScope(q.company, q.text)
    [] q.op = "renameCompany" -> [row EXCEPT !.name = q.text, !.version = q.version + 1]
    [] q.op = "updateScope" -> [row EXCEPT !.label = q.text, !.version = q.version + 1]
    [] OTHER -> [row EXCEPT !.status = Status(q.op)]

HoldsRows(r, q) ==
  \A x \in Rows :
    /\ lock[x] = r <=> x \in RowsOf(q)
    /\ lock[x] = r => dirty[x] = IF x = q.evidence.of THEN Edited(q, db[x]) ELSE db[x]

\* Which row that is, and in which state it still is.
WritesOne(q) ==
  LET x == q.evidence.of IN
  /\ IF x = None THEN q.evidence = NoEvidence ELSE q.pc = "commit"
  /\ q.pc = "commit" /\ x = None =>
       q.op \in {"reactivateCompany", "deactivateScope", "reactivateScope"}
  /\ x # None => /\ q.op = "createCompany" => x \in Companies /\ db[x] = NoCompany
                 /\ q.op = "createScope" => x \in Scopes /\ db[x] = NoScope
                 /\ q.op \in CompanyOps => x = q.company
                 /\ q.op \in ScopeOps => x = q.scope
                 /\ q.op \in {"renameCompany", "updateScope"} => db[x].version = q.version

\* What was decided on under the Company's lock is still so.
DecidedUnderLock(q) ==
  LocksCompany(q) =>
    /\ q.op \in {"createScope", "reactivateScope"} => db[q.company].status = "ACTIVE"
    /\ q.op \in CompanyOps => q.seen = db[q.company].status
    /\ q.op = "deactivateCompany" /\ q.pc = "commit" => Register!ActiveScopes(q.company) = {}

EvidenceHolds(e) ==
  e.of # None => /\ \A f \in Told(e, e.before) : db[e.of][f] = e.before[f]
                 /\ \A f \in Told(e, e.after) : dirty[e.of][f] = e.after[f]

\* Committed or about to be, no two rows have the same key.
KeysApart ==
  \A x \in Rows : \A y \in Siblings(x) : \A v \in {db[x], dirty[x]}, w \in {db[y], dirty[y]} :
    (x \in Companies => v.name # None) => ~SameKey(x, v, w)

\* The rows, and what each transaction relies on, holds and is about to commit
\* (organization-admin.service.ts:22, 53, 120, 182, 325, 401, 442).
StructureIInv ==
  /\ TypeOK /\ Register!RegisterTypeOK /\ Register!ParentsActive /\ KeysApart /\ CleanUnlocked
  /\ \A r \in Requests : /\ NamesRows(req[r]) /\ HoldsRows(r, req[r]) /\ WritesOne(req[r])
                         /\ DecidedUnderLock(req[r]) /\ EvidenceHolds(req[r].evidence)
=============================================================================
