--------------------------- MODULE StructureProofs ---------------------------
(***************************************************************************)
(* Proofs about the Companies and Business Scopes of an Organization: the  *)
(* locks and the unique indexes keep StructureIInv, and with it every      *)
(* commit is one step of StructureRegister.                                *)
(***************************************************************************)
EXTENDS Structure, TLAPS

\* What StructureIInv says of the rows, and of one request slot.
RowsSafe ==
  /\ RowsTyped(db) /\ RowsTyped(dirty) /\ lock \in [Rows -> Requests \cup {None}]
  /\ Register!RegisterTypeOK /\ Register!ParentsActive /\ KeysApart /\ CleanUnlocked

SlotSafe(r, q) ==
  /\ RequestTyped(q) /\ NamesRows(q) /\ HoldsRows(r, q) /\ WritesOne(q)
  /\ DecidedUnderLock(q) /\ EvidenceHolds(q.evidence)

SlotsThere == DOMAIN req = Requests /\ begun \in Nat

LEMMA Parts ==
  StructureIInv <=> RowsSafe /\ SlotsThere /\ \A r \in Requests : SlotSafe(r, req[r])
BY DEF StructureIInv, TypeOK, RowsSafe, SlotsThere, SlotSafe

LEMMA PartsNext ==
  RowsSafe' /\ SlotsThere' /\ (\A r \in Requests : SlotSafe(r, req[r])') => StructureIInv'
BY DEF StructureIInv, TypeOK, RowsSafe, SlotsThere, SlotSafe

-----------------------------------------------------------------------------
(***************************************************************************)
(* Rows.                                                                   *)
(***************************************************************************)
LEMMA RowKinds ==
  /\ Companies \subseteq Rows /\ Scopes \subseteq Rows /\ Rows = Companies \cup Scopes
  /\ \A c \in Companies : c \notin Scopes /\ c # None
  /\ \A s \in Scopes : s \notin Companies /\ s # None
  /\ None \notin Rows /\ None \notin Requests /\ None \notin Names /\ None \notin Labels
  /\ None \notin AllOps
BY StructureAssumption DEF StructureAssumption, Rows

LEMMA NoRows ==
  /\ NoCompany = [name |-> None, status |-> "INACTIVE", version |-> 0]
  /\ NoScope = [company |-> None, label |-> None, status |-> "INACTIVE", version |-> 0]
BY DEF NoCompany, NoScope, Register!NoCompany, Register!NoScope

\* The register's words, said of the committed rows.
ScopesOf(c) == {s \in Scopes : db[s].company = c /\ db[s].status = "ACTIVE"}

RowsThere ==
  /\ \A c \in Companies : db[c] \in Register!CompanyRow
                          /\ (db[c].name = None => db[c] = NoCompany)
  /\ \A s \in Scopes : db[s] \in Register!ScopeRow
  /\ \A s \in Scopes : db[s].company = None => db[s] = NoScope
  /\ \A s \in Scopes : db[s].company # None =>
       db[s].company \in Companies /\ db[db[s].company].name # None /\ db[s].label # None

ActiveParents ==
  \A s \in Scopes : db[s].status = "ACTIVE" =>
    db[s].company \in Companies /\ db[db[s].company].status = "ACTIVE"

LEMMA ScopesUnfold == \A c : Register!ActiveScopes(c) = ScopesOf(c)
BY DEF Register!ActiveScopes, ScopesOf

LEMMA ScopesUnfoldNext == \A c : Register!ActiveScopes(c)' = ScopesOf(c)'
BY DEF Register!ActiveScopes, ScopesOf

LEMMA RowsUnfold == Register!RegisterTypeOK <=> RowsThere
BY NoRows DEF Register!RegisterTypeOK, RowsThere, Register!Existing, Register!Placed, NoCompany,
              NoScope, Register!ScopeRow

LEMMA RowsUnfoldNext == Register!RegisterTypeOK' <=> RowsThere'
BY NoRows DEF Register!RegisterTypeOK, RowsThere, Register!Existing, Register!Placed, NoCompany,
              NoScope, Register!ScopeRow

LEMMA ParentsUnfold ==
  ASSUME RowsThere
  PROVE  Register!ParentsActive <=> ActiveParents
<1>1. \A s \in Scopes : db[s].status = "ACTIVE" => db[s].company # None
  BY DEF RowsThere, NoScope, Register!NoScope
<1>2. QED BY <1>1 DEF Register!ParentsActive, RowsThere, ActiveParents

LEMMA ParentsUnfoldNext ==
  ASSUME RowsThere'
  PROVE  Register!ParentsActive' <=> ActiveParents'
<1>1. \A s \in Scopes : db'[s].status = "ACTIVE" => db'[s].company # None
  BY DEF RowsThere, NoScope, Register!NoScope
<1>2. QED BY <1>1 DEF Register!ParentsActive, RowsThere, ActiveParents

LEMMA StoreDomains ==
  ASSUME RowsSafe
  PROVE  DOMAIN db = Rows /\ DOMAIN dirty = Rows /\ DOMAIN lock = Rows
BY DEF RowsSafe, RowsTyped

LEMMA SafeRows ==
  RowsSafe => RowsThere /\ ActiveParents
BY RowsUnfold, ParentsUnfold DEF RowsSafe

\* What makes the next rows safe, said of the rows themselves.
LEMMA RowsNext ==
  ASSUME RowsTyped(db)', RowsTyped(dirty)', lock' \in [Rows -> Requests \cup {None}],
         RowsThere', ActiveParents', KeysApart', CleanUnlocked'
  PROVE  RowsSafe'
BY RowsUnfoldNext, ParentsUnfoldNext DEF RowsSafe

\* Which operation is at which statement.
LEMMA Stagings ==
  ASSUME NEW q, RequestTyped(q), NamesRows(q)
  PROVE  /\ q.op \in AllOps <=> q.pc # "idle"
         /\ q.op \notin AllOps => q.op = None
         /\ q.pc = "insert" => q.op \in {"createCompany", "createScope"}
         /\ q.pc = "readCompany" => q.op = "renameCompany"
         /\ q.pc = "readScope" => q.op \in ScopeOps
         /\ q.pc = "claim" => q.op \in {"renameCompany", "updateScope"}
         /\ q.pc = "children" => q.op = "deactivateCompany"
         /\ q.pc = "lock" => q.op \in {"createScope", "deactivateCompany", "reactivateCompany",
                                      "deactivateScope", "reactivateScope"}
         /\ q.pc = "set" => q.op \in {"deactivateCompany", "reactivateCompany",
                                     "deactivateScope", "reactivateScope"}
<1>1. CASE q.op \in AllOps
  BY <1>1 DEF NamesRows, StageOf, AllOps, CompanyOps, ScopeOps
<1>2. CASE q.op = None
  <2>1. None \notin AllOps
    BY RowKinds
  <2>2. q.pc = "idle"
    BY <1>2, <2>1 DEF NamesRows, StageOf, AllOps, CompanyOps, ScopeOps
  <2>3. QED BY <1>2, <2>1, <2>2
<1>3. QED BY <1>1, <1>2 DEF RequestTyped

\* A row the evidence is about is a row, and the request holds it.
LEMMA EvidenceRow ==
  ASSUME NEW r, NEW q, SlotSafe(r, q), q.evidence.of # None
  PROVE  q.evidence.of \in Rows /\ lock[q.evidence.of] = r /\ q.pc = "commit"
<1>1. q.pc = "commit"
  BY DEF SlotSafe, WritesOne
<1>2. q.op \in {"createCompany", "createScope"} \cup CompanyOps \cup ScopeOps
  BY <1>1, Stagings DEF SlotSafe, AllOps
<1>3. q.evidence.of \in Rows
  BY <1>2, RowKinds DEF SlotSafe, WritesOne, NamesRows
<1>4. QED BY <1>1, <1>3 DEF SlotSafe, HoldsRows, RowsOf

\* The rows a request has locked are its Company and the row it has written.
LEMMA HeldRows ==
  ASSUME NEW r, NEW q, SlotSafe(r, q), NEW x \in Rows, lock[x] = r
  PROVE  \/ x = q.evidence.of /\ dirty[x] = Edited(q, db[x])
         \/ x # q.evidence.of /\ LocksCompany(q) /\ x = q.company /\ dirty[x] = db[x]
BY DEF SlotSafe, HoldsRows, RowsOf

LEMMA CompanyLocked ==
  ASSUME NEW r, NEW q, SlotSafe(r, q), LocksCompany(q)
  PROVE  q.company \in Companies /\ lock[q.company] = r
<1>1. q.company \in Companies
  BY DEF SlotSafe, LocksCompany, NamesRows, RequestTyped, CompanyOps, ScopeOps, StageOf
<1>2. QED BY <1>1, RowKinds DEF SlotSafe, HoldsRows, RowsOf

-----------------------------------------------------------------------------
(***************************************************************************)
(* The kinds of steps.                                                     *)
(***************************************************************************)
LEMMA SameRows ==
  ASSUME RowsSafe, UNCHANGED rowVars
  PROVE  RowsSafe'
<1>1. db' = db /\ dirty' = dirty /\ lock' = lock
  BY DEF rowVars
<1>2. RowsThere' /\ ActiveParents'
  BY <1>1, SafeRows DEF RowsThere, ActiveParents
<1>3. KeysApart' /\ CleanUnlocked'
  BY <1>1 DEF RowsSafe, KeysApart, CleanUnlocked
<1>4. QED BY <1>1, <1>2, <1>3, RowsNext DEF RowsSafe, RowsTyped

\* The other slots, when the committed rows stay and r writes only its own.
LEMMA OthersKept ==
  ASSUME StructureIInv, NEW r \in Requests, NEW s \in Requests, s # r, req'[s] = req[s], db' = db,
         \A x \in Rows : lock'[x] = s <=> lock[x] = s,
         \A x \in Rows : lock[x] = s => dirty'[x] = dirty[x]
  PROVE  SlotSafe(s, req[s])'
<1>1. SlotSafe(s, req[s])
  BY Parts
<1>2. RequestTyped(req[s])' /\ NamesRows(req[s])' /\ WritesOne(req[s])'
  BY <1>1 DEF SlotSafe, RequestTyped, NamesRows, WritesOne
<1>3. HoldsRows(s, req[s])'
  BY <1>1 DEF SlotSafe, HoldsRows
<1>4. DecidedUnderLock(req[s])'
  BY <1>1, ScopesUnfold, ScopesUnfoldNext DEF SlotSafe, DecidedUnderLock, ScopesOf
<1>5. EvidenceHolds(req[s].evidence)'
  BY <1>1, EvidenceRow DEF SlotSafe, EvidenceHolds
<1>6. QED BY <1>2, <1>3, <1>4, <1>5 DEF SlotSafe

\* A step that writes no row.
LEMMA QuietStep ==
  ASSUME StructureIInv, NEW r \in Requests, UNCHANGED rowVars, begun' \in Nat,
         NEW q, req' = [req EXCEPT ![r] = q], SlotSafe(r, q)
  PROVE  StructureIInv'
<1>1. db' = db /\ dirty' = dirty /\ lock' = lock
  BY DEF rowVars
<1>2. RowsSafe' /\ SlotsThere'
  BY SameRows, Parts DEF SlotsThere
<1>3. ASSUME NEW s \in Requests, s # r PROVE SlotSafe(s, req[s])'
  <2>1. req'[s] = req[s]
    BY <1>3, Parts DEF SlotsThere
  <2>2. QED BY <1>1, <1>3, <2>1, OthersKept
<1>4. SlotSafe(r, req[r])'
  <2>1. req'[r] = q
    BY Parts DEF SlotsThere
  <2>2. DecidedUnderLock(q)'
    BY <1>1, ScopesUnfold, ScopesUnfoldNext DEF SlotSafe, DecidedUnderLock, ScopesOf
  <2>3. QED BY <1>1, <2>1, <2>2
            DEF SlotSafe, RequestTyped, NamesRows, WritesOne, HoldsRows, EvidenceHolds,
                DecidedUnderLock
<1>5. QED BY <1>2, <1>3, <1>4, PartsNext

LEMMA WriteStep ==
  ASSUME StructureIInv, NEW r \in Requests, NEW x \in Rows, NEW v, Update(r, x, v),
         lock[x] \in {None, r}, begun' \in Nat, RowsTyped(dirty)', KeysApart',
         NEW q, req' = [req EXCEPT ![r] = q], SlotSafe(r, req[r])'
  PROVE  StructureIInv'
<1>1. RowsSafe /\ SlotsThere
  BY Parts
<1>2. /\ db' = db /\ lock'[x] = r /\ dirty'[x] = v
      /\ \A y \in Rows : y # x => lock'[y] = lock[y] /\ dirty'[y] = dirty[y]
  BY <1>1, StoreDomains DEF Update
<1>3. RowsSafe'
  <2>1. RowsThere' /\ ActiveParents'
    BY <1>1, <1>2, SafeRows DEF RowsThere, ActiveParents
  <2>2. lock' \in [Rows -> Requests \cup {None}]
    BY <1>1 DEF RowsSafe, Update
  <2>3. CleanUnlocked'
    <3>1. DOMAIN lock' = Rows /\ DOMAIN lock = Rows
      BY <1>1, <2>2, StoreDomains
    <3>2. QED BY <1>1, <1>2, <3>1, RowKinds DEF RowsSafe, CleanUnlocked
  <2>4. RowsTyped(db)'
    BY <1>1, <1>2 DEF RowsSafe, RowsTyped
  <2>5. QED BY <2>1, <2>2, <2>3, <2>4, RowsNext
<1>4. SlotsThere'
  BY <1>1 DEF SlotsThere
<1>5. ASSUME NEW s \in Requests, s # r PROVE SlotSafe(s, req[s])'
  <2>1. req'[s] = req[s]
    BY <1>1, <1>5 DEF SlotsThere
  <2>2. lock[x] # s
    BY <1>5, RowKinds
  <2>3. /\ \A y \in Rows : lock'[y] = s <=> lock[y] = s
        /\ \A y \in Rows : lock[y] = s => dirty'[y] = dirty[y]
    BY <1>2, <1>5, <2>2
  <2>4. QED BY <1>2, <1>5, <2>1, <2>3, OthersKept
<1>6. QED BY <1>3, <1>4, <1>5, PartsNext

\* An idle slot holds nothing.
LEMMA IdleSafe ==
  ASSUME NEW r, \A x \in Rows : lock[x] # r
  PROVE  SlotSafe(r, Idle)
<1>1. /\ Idle.pc = "idle" /\ Idle.op = None /\ Idle.evidence.of = None /\ Idle.version = 0
      /\ Idle.evidence = NoEvidence
      /\ Idle.company = None /\ Idle.scope = None /\ Idle.text = None /\ Idle.seen = None
  BY DEF Idle, NoEvidence
<1>2. None \notin AllOps
  BY RowKinds
<1>3. RequestTyped(Idle)
  BY <1>1, <1>2 DEF RequestTyped, Stages, AllOps, ScopeOps
<1>4. NamesRows(Idle)
  BY <1>1, <1>2 DEF NamesRows, StageOf, AllOps, CompanyOps, ScopeOps
<1>5. ~LocksCompany(Idle)
  BY <1>1 DEF LocksCompany
<1>6. HoldsRows(r, Idle)
  BY <1>1, <1>5 DEF HoldsRows, RowsOf
<1>7. WritesOne(Idle)
  BY <1>1 DEF WritesOne
<1>8. QED BY <1>1, <1>3, <1>4, <1>5, <1>6, <1>7 DEF SlotSafe, DecidedUnderLock, EvidenceHolds

LEMMA IdleSafeNext ==
  ASSUME NEW r, \A x \in Rows : lock'[x] # r
  PROVE  SlotSafe(r, Idle)'
<1>1. /\ Idle.pc = "idle" /\ Idle.op = None /\ Idle.evidence.of = None /\ Idle.version = 0
      /\ Idle.evidence = NoEvidence
      /\ Idle.company = None /\ Idle.scope = None /\ Idle.text = None /\ Idle.seen = None
  BY DEF Idle, NoEvidence
<1>2. None \notin AllOps
  BY RowKinds
<1>3. RequestTyped(Idle)
  BY <1>1, <1>2 DEF RequestTyped, Stages, AllOps, ScopeOps
<1>4. NamesRows(Idle)'
  BY <1>1, <1>2 DEF NamesRows, StageOf, AllOps, CompanyOps, ScopeOps
<1>5. ~LocksCompany(Idle)
  BY <1>1 DEF LocksCompany
<1>6. HoldsRows(r, Idle)'
  BY <1>1, <1>5 DEF HoldsRows, RowsOf
<1>7. WritesOne(Idle)'
  BY <1>1 DEF WritesOne
<1>8. QED BY <1>1, <1>3, <1>4, <1>5, <1>6, <1>7 DEF SlotSafe, DecidedUnderLock, EvidenceHolds

\* The new rows of a transaction that ends are old ones, committed or not.
LEMMA MixedRows ==
  ASSUME RowsSafe, DOMAIN db' = Rows, DOMAIN dirty' = Rows,
         \A x \in Rows : db'[x] \in {db[x], dirty[x]} /\ dirty'[x] \in {db[x], dirty[x]}
  PROVE  RowsTyped(db)' /\ RowsTyped(dirty)' /\ KeysApart'
<1>1. RowsTyped(db') /\ RowsTyped(dirty')
  BY RowKinds DEF RowsSafe, RowsTyped
<1>2. \A x \in Rows : Siblings(x) \subseteq Rows
  BY RowKinds DEF Siblings
<1>3. KeysApart'
  <2> SUFFICES ASSUME NEW x \in Rows, NEW y \in Siblings(x), NEW v \in {db'[x], dirty'[x]},
                      NEW w \in {db'[y], dirty'[y]}, x \in Companies => v.name # None
               PROVE  ~SameKey(x, v, w)
    BY DEF KeysApart
  <2>1. v \in {db[x], dirty[x]} /\ w \in {db[y], dirty[y]}
    BY <1>2
  <2>2. QED BY <2>1 DEF RowsSafe, KeysApart
<1>4. QED BY <1>1, <1>3 DEF RowsTyped

LEMMA AbortStep ==
  ASSUME StructureIInv, NEW r \in Requests, Abort(r)
  PROVE  StructureIInv'
<1>1. RowsSafe /\ SlotsThere
  BY Parts
<1>2. /\ db' = db /\ DOMAIN dirty' = Rows /\ DOMAIN lock' = Rows
      /\ \A x \in Rows : IF lock[x] = r THEN lock'[x] = None /\ dirty'[x] = db[x]
                                        ELSE lock'[x] = lock[x] /\ dirty'[x] = dirty[x]
  BY <1>1, StoreDomains DEF Abort, RollbackRows, Release
<1>3. RowsSafe'
  <2>1. RowsThere' /\ ActiveParents'
    BY <1>1, <1>2, SafeRows DEF RowsThere, ActiveParents
  <2>2. lock' \in [Rows -> Requests \cup {None}]
    BY <1>1, StoreDomains DEF RowsSafe, Abort, RollbackRows, Release
  <2>3. CleanUnlocked'
    BY <1>1, <1>2, StoreDomains DEF RowsSafe, CleanUnlocked
  <2>4. RowsTyped(db)' /\ RowsTyped(dirty)' /\ KeysApart'
    BY <1>1, <1>2, StoreDomains, MixedRows
  <2>5. QED BY <2>1, <2>2, <2>3, <2>4, RowsNext
<1>4. SlotsThere'
  BY <1>1 DEF SlotsThere, Abort, Become
<1>5. ASSUME NEW s \in Requests, s # r PROVE SlotSafe(s, req[s])'
  <2>1. req'[s] = req[s]
    BY <1>1, <1>5 DEF SlotsThere, Abort, Become
  <2>2. /\ \A y \in Rows : lock'[y] = s <=> lock[y] = s
        /\ \A y \in Rows : lock[y] = s => dirty'[y] = dirty[y]
    BY <1>2, <1>5, RowKinds
  <2>3. QED BY <1>2, <1>5, <2>1, <2>2, OthersKept
<1>6. SlotSafe(r, req[r])'
  <2>1. req'[r] = Idle
    BY <1>1 DEF SlotsThere, Abort, Become
  <2>2. \A x \in Rows : lock'[x] # r
    BY <1>2, RowKinds
  <2>3. QED BY <2>1, <2>2, IdleSafeNext
<1>7. QED BY <1>3, <1>4, <1>5, <1>6, PartsNext

-----------------------------------------------------------------------------
(***************************************************************************)
(* The unique indexes.                                                     *)
(***************************************************************************)
LEMMA KeysSymmetric ==
  ASSUME NEW x \in Rows, NEW y \in Siblings(x), NEW v, NEW w
  PROVE  /\ x \in Siblings(y) /\ y \in Rows /\ x # y /\ (x \in Companies <=> y \in Companies)
         /\ SameKey(x, v, w) <=> SameKey(y, w, v)
         /\ SameKey(x, v, w) <=> SameKey(x, w, v)
<1>1. x \in Siblings(y) /\ y \in Rows /\ x # y /\ (x \in Companies <=> y \in Companies)
  BY RowKinds DEF Siblings
<1>2. QED BY <1>1 DEF SameKey

\* A key nobody has, committed or not, may be written.
LEMMA NewKey ==
  ASSUME RowsSafe, NEW r, NEW x \in Rows, NEW v, Update(r, x, v),
         (x \in Companies => v.name # None) =>
           \A y \in Siblings(x) : ~SameKey(x, db[y], v) /\ ~SameKey(x, dirty[y], v)
  PROVE  KeysApart'
<1>1. /\ db' = db /\ dirty'[x] = v
      /\ \A y \in Rows : y # x => dirty'[y] = dirty[y]
  BY StoreDomains DEF Update
<1>2. ASSUME NEW y \in Siblings(x), NEW w \in {db[y], dirty[y]}, x \in Companies => v.name # None
      PROVE  ~SameKey(x, v, w)
  BY <1>2, KeysSymmetric
<1> SUFFICES ASSUME NEW a \in Rows, NEW b \in Siblings(a), NEW u \in {db'[a], dirty'[a]},
                    NEW w \in {db'[b], dirty'[b]}, a \in Companies => u.name # None,
                    SameKey(a, u, w)
             PROVE  FALSE
  BY DEF KeysApart
<1>3. b \in Rows /\ a # b /\ a \in Siblings(b) /\ (a \in Companies <=> b \in Companies)
      /\ SameKey(b, w, u)
  BY KeysSymmetric
<1>4. b \in Companies => w.name # None
  BY <1>3 DEF SameKey
<1>5. CASE a = x /\ u = v
  BY <1>1, <1>2, <1>3, <1>5
<1>6. CASE b = x /\ w = v
  BY <1>1, <1>2, <1>3, <1>4, <1>6
<1>7. CASE u \in {db[a], dirty[a]} /\ w \in {db[b], dirty[b]}
  BY <1>7 DEF RowsSafe, KeysApart
<1>8. QED BY <1>1, <1>3, <1>5, <1>6, <1>7

\* What the index lets through is such a key.
LEMMA IndexChecked ==
  ASSUME RowsSafe, NEW r \in Requests, NEW x \in Rows, NEW v, WriteBlockers(r, x, v) = {},
         ~KeyTaken(r, x, v), \A y \in Siblings(x) : lock[y] = r => dirty[y] = db[y]
  PROVE  /\ lock[x] \in {None, r}
         /\ \A y \in Siblings(x) : ~SameKey(x, db[y], v) /\ ~SameKey(x, dirty[y], v)
<1>1. lock[x] \in {None, r}
  BY DEF WriteBlockers, Holders
<1>2. ASSUME NEW y \in Siblings(x), SameKey(x, db[y], v) \/ SameKey(x, dirty[y], v) PROVE FALSE
  <2>1. y \in Rows
    BY KeysSymmetric
  <2>2. CASE dirty[y] = db[y]
    BY <1>2, <2>2 DEF KeyTaken, See
  <2>3. CASE dirty[y] # db[y]
    <3>1. lock[y] \in {None, r}
      BY <1>2, <2>3 DEF WriteBlockers, IndexHolders
    <3>2. lock[y] # None
      BY <2>1, <2>3, StoreDomains DEF RowsSafe, CleanUnlocked
    <3>3. QED BY <2>3, <3>1, <3>2
  <2>4. QED BY <2>2, <2>3
<1>3. QED BY <1>1, <1>2

\* Writing a value with the key the row has anyway.
LEMMA OldKey ==
  ASSUME RowsSafe, NEW r, NEW x \in Rows, NEW v, Update(r, x, v),
         \A w : SameKey(x, w, v) <=> SameKey(x, w, db[x]),
         x \in Companies => v.name = db[x].name
  PROVE  KeysApart'
<1>1. ASSUME NEW y \in Siblings(x), NEW w \in {db[y], dirty[y]},
             x \in Companies => db[x].name # None
      PROVE  ~SameKey(x, db[x], w) /\ ~SameKey(x, w, db[x])
  <2>1. ~SameKey(x, db[x], w)
    BY <1>1 DEF RowsSafe, KeysApart
  <2>2. QED BY <1>1, <2>1, KeysSymmetric
<1>2. QED BY <1>1, NewKey

-----------------------------------------------------------------------------
(***************************************************************************)
(* Writing a row with its evidence.                                        *)
(***************************************************************************)
LEMMA EvidencedWrite ==
  ASSUME StructureIInv, NEW r \in Requests, NEW x \in Rows, NEW v, NEW before, NEW after,
         WriteWithEvidence(r, x, v, before, after), lock[x] \in {None, r},
         req[r].pc \in {"insert", "claim", "set"},
         v = Edited(req[r], db[x]),
         x \in Companies => v \in Register!CompanyRow, x \in Scopes => v \in Register!ScopeRow,
         KeysApart',
         req[r].op = "createCompany" => x \in Companies /\ db[x] = NoCompany,
         req[r].op = "createScope" => x \in Scopes /\ db[x] = NoScope,
         req[r].op \in CompanyOps => x = req[r].company,
         req[r].op \in ScopeOps => x = req[r].scope,
         req[r].op \in {"renameCompany", "updateScope"} => db[x].version = req[r].version,
         req[r].op = "deactivateCompany" => ScopesOf(req[r].company) = {},
         \A f \in DOMAIN before \ (IF x \in Scopes THEN {"status"} ELSE {}) : db[x][f] = before[f],
         \A f \in DOMAIN after \ (IF x \in Scopes THEN {"status"} ELSE {}) : v[f] = after[f]
  PROVE  StructureIInv'
<1> DEFINE q == req[r]
           e == [of |-> x, before |-> before, after |-> after]
<1>0. PICK n : n = [q EXCEPT !.pc = "commit", !.evidence = e]
  OBVIOUS
<1>1. RowsSafe /\ SlotsThere /\ SlotSafe(r, q)
  BY Parts
<1>2. /\ n.pc = "commit" /\ n.evidence = e /\ n.op = q.op /\ n.company = q.company
      /\ n.scope = q.scope /\ n.text = q.text /\ n.version = q.version /\ n.seen = q.seen
      /\ DOMAIN n = DOMAIN q /\ e.of = x /\ e.before = before /\ e.after = after
  BY <1>0, <1>1 DEF SlotSafe, RequestTyped, Idle
<1>3. Update(r, x, v) /\ req' = [req EXCEPT ![r] = n] /\ begun' \in Nat
  BY <1>0, <1>1 DEF WriteWithEvidence, Become, SlotsThere
<1>4. /\ db' = db /\ lock'[x] = r /\ dirty'[x] = v
      /\ \A y \in Rows : y # x => lock'[y] = lock[y] /\ dirty'[y] = dirty[y]
  BY <1>1, <1>3, StoreDomains DEF Update
<1>5. RowsTyped(dirty)'
  <2>1. DOMAIN dirty' = Rows
    BY <1>1, <1>3, StoreDomains DEF Update
  <2>2. QED BY <1>1, <1>4, <2>1, RowKinds DEF RowsSafe, RowsTyped
<1>6. /\ q.op \in AllOps /\ q.evidence.of = None /\ x # None
      /\ LocksCompany(n) <=> LocksCompany(q)
  <2>1. q.op \in AllOps /\ q.evidence.of = None /\ x # None
    BY <1>1, Stagings, RowKinds DEF SlotSafe, WritesOne
  <2>2. QED BY <1>1, <1>2, <2>1, Stagings DEF SlotSafe, LocksCompany, ScopeOps
<1>7. Edited(n, db[x]) = Edited(q, db[x])
  BY <1>2 DEF Edited
<1> HIDE DEF e
<1>8. RequestTyped(n)
  BY <1>1, <1>2, <1>6 DEF SlotSafe, RequestTyped, Stages
<1>9. NamesRows(n)'
  <2>1. "commit" \in StageOf(q.op)
    BY <1>6 DEF StageOf, AllOps, CompanyOps, ScopeOps
  <2>2. NamesRows(q) /\ q.pc # "readScope"
    BY <1>1 DEF SlotSafe
  <2>3. QED BY <1>2, <1>4, <2>1, <2>2 DEF NamesRows
<1>10. HoldsRows(r, n)'
  <2>1. \A y \in Rows : lock[y] = r <=> LocksCompany(q) /\ y = q.company
    BY <1>1, <1>6, RowKinds DEF SlotSafe, HoldsRows, RowsOf
  <2>2. \A y \in Rows : lock[y] = r => dirty[y] = db[y]
    BY <1>1, <1>6, RowKinds DEF SlotSafe, HoldsRows
  <2>3. \A y \in Rows : y \in RowsOf(n) <=> (LocksCompany(q) /\ y = q.company) \/ y = x
    BY <1>2, <1>6 DEF RowsOf
  <2>4. QED BY <1>2, <1>4, <1>7, <2>1, <2>2, <2>3 DEF HoldsRows
<1>11. WritesOne(n)'
  BY <1>2, <1>4, <1>6 DEF WritesOne
<1>12. DecidedUnderLock(n)'
  <2>1. Register!ActiveScopes(n.company)' = ScopesOf(q.company)
    BY <1>2, <1>4, ScopesUnfoldNext DEF ScopesOf
  <2>2. QED BY <1>1, <1>2, <1>4, <1>6, <2>1 DEF SlotSafe, DecidedUnderLock
<1>13. EvidenceHolds(n.evidence)'
  BY <1>2, <1>4 DEF EvidenceHolds, Told
<1>14. SlotSafe(r, req[r])'
  <2>1. req'[r] = n
    BY <1>1, <1>3 DEF SlotsThere
  <2>2. RequestTyped(n)'
    BY <1>8 DEF RequestTyped
  <2>3. QED BY <1>9, <1>10, <1>11, <1>12, <1>13, <2>1, <2>2 DEF SlotSafe
<1>15. QED BY <1>3, <1>5, <1>14, WriteStep

\* An INSERT, or the UPDATE of an edit.
LEMMA KeyedWrite ==
  ASSUME StructureIInv, NEW r \in Requests, NEW x \in Rows, NEW v, NEW before, NEW after,
         WriteKey(r, x, v, before, after), req[r].pc \in {"insert", "claim"},
         v = Edited(req[r], db[x]),
         x \in Companies => v \in Register!CompanyRow, x \in Scopes => v \in Register!ScopeRow,
         req[r].op = "createCompany" => x \in Companies /\ db[x] = NoCompany,
         req[r].op = "createScope" => x \in Scopes /\ db[x] = NoScope,
         req[r].op \in CompanyOps => x = req[r].company,
         req[r].op \in ScopeOps => x = req[r].scope,
         req[r].op \in {"renameCompany", "updateScope"} => db[x].version = req[r].version,
         \A f \in DOMAIN before \ (IF x \in Scopes THEN {"status"} ELSE {}) : db[x][f] = before[f],
         \A f \in DOMAIN after \ (IF x \in Scopes THEN {"status"} ELSE {}) : v[f] = after[f]
  PROVE  StructureIInv'
<1>1. RowsSafe /\ SlotSafe(r, req[r])
  BY Parts
<1>2. CASE Abort(r)
  BY <1>2, AbortStep
<1>3. CASE /\ WriteBlockers(r, x, v) = {} /\ ~KeyTaken(r, x, v)
           /\ WriteWithEvidence(r, x, v, before, after)
  <2>1. req[r].evidence.of = None /\ req[r].op # "deactivateCompany"
    BY <1>1, Stagings DEF SlotSafe, WritesOne, ScopeOps
  <2>2. \A y \in Rows : lock[y] = r => dirty[y] = db[y]
    BY <1>1, <2>1, RowKinds DEF SlotSafe, HoldsRows
  <2>3. \A y \in Siblings(x) : y \in Rows
    BY KeysSymmetric
  <2>4. /\ lock[x] \in {None, r}
        /\ \A y \in Siblings(x) : ~SameKey(x, db[y], v) /\ ~SameKey(x, dirty[y], v)
    BY <1>1, <1>3, <2>2, <2>3, IndexChecked
  <2>5. KeysApart'
    BY <1>1, <1>3, <2>4, NewKey DEF WriteWithEvidence
  <2>6. QED BY <1>3, <2>1, <2>4, <2>5, EvidencedWrite
<1>4. QED BY <1>2, <1>3 DEF WriteKey

LEMMA InsertCompanyStep ==
  ASSUME StructureIInv, NEW r \in Requests, InsertCompany(r)
  PROVE  StructureIInv'
<1> DEFINE q == req[r]
<1>1. RowsSafe /\ SlotSafe(r, q) /\ q.pc = "insert" /\ q.op = "createCompany"
  BY Parts DEF InsertCompany, At
<1>2. PICK w \in Intended(q) : WriteKey(r, w[1], w[2], NoFields, [name |-> q.text])
  BY DEF InsertCompany
<1>3. PICK c \in Companies : dirty[c] = NoCompany /\ w = <<c, Register!NewCompany(q.text)>>
  BY <1>1, <1>2 DEF Intended, Unused
<1>4. PICK v : v = Register!NewCompany(q.text)
  OBVIOUS
<1>5. WriteKey(r, c, v, NoFields, [name |-> q.text])
  BY <1>2, <1>3, <1>4
<1>6. CASE WriteBlockers(r, c, v) = {}
  <2>1. c \in Rows /\ c \notin Scopes
    BY RowKinds
  <2>2. q.text \in Names /\ ~LocksCompany(q) /\ q.evidence.of = None
    BY <1>1 DEF SlotSafe, NamesRows, LocksCompany, WritesOne
  <2>3. lock[c] # r
    BY <1>1, <2>1, <2>2 DEF SlotSafe, HoldsRows, RowsOf
  <2>4. lock[c] = None
    BY <1>6, <2>3 DEF WriteBlockers, Holders
  <2>5. db[c] = NoCompany
    BY <1>1, <1>3, <2>1, <2>4, StoreDomains DEF RowsSafe, CleanUnlocked
  <2>6. v \in Register!CompanyRow /\ v.name = q.text
    BY <1>4, <2>2 DEF Register!NewCompany, Register!CompanyRow, Register!LifeStatuses
  <2>7. v = Edited(q, db[c])
    BY <1>1, <1>4 DEF Edited
  <2>8. /\ DOMAIN NoFields = {} /\ DOMAIN [name |-> q.text] = {"name"}
        /\ [name |-> q.text].name = q.text
    BY DEF NoFields
  <2> HIDE DEF q
  <2>9. PICK after : after = [name |-> q.text]
    OBVIOUS
  <2>10. /\ \A f \in DOMAIN NoFields \ (IF c \in Scopes THEN {"status"} ELSE {}) :
              db[c][f] = NoFields[f]
         /\ \A f \in DOMAIN after \ (IF c \in Scopes THEN {"status"} ELSE {}) : v[f] = after[f]
    BY <2>1, <2>6, <2>8, <2>9
  <2> USE DEF q
  <2>11. QED BY <1>1, <1>5, <2>1, <2>5, <2>6, <2>7, <2>9, <2>10, KeyedWrite DEF CompanyOps, ScopeOps
<1>7. QED BY <1>5, <1>6 DEF WriteKey

LEMMA InsertScopeStep ==
  ASSUME StructureIInv, NEW r \in Requests, InsertScope(r)
  PROVE  StructureIInv'
<1> DEFINE q == req[r]
           after == [company |-> q.company, label |-> q.text]
<1>1. RowsSafe /\ SlotSafe(r, q) /\ q.pc = "insert" /\ q.op = "createScope"
  BY Parts DEF InsertScope, At
<1>2. CASE Abort(r)
  BY <1>2, AbortStep
<1>3. CASE \E w \in Intended(q) : WriteKey(r, w[1], w[2], NoFields, after)
  <2>1. PICK w \in Intended(q) : WriteKey(r, w[1], w[2], NoFields, after)
    BY <1>3
  <2>2. PICK s \in Scopes : dirty[s] = NoScope /\ w = <<s, Register!NewScope(q.company, q.text)>>
    BY <1>1, <2>1 DEF Intended, Unused
  <2>3. PICK v : v = Register!NewScope(q.company, q.text)
    OBVIOUS
  <2>4. WriteKey(r, s, v, NoFields, after)
    BY <2>1, <2>2, <2>3
  <2>5. CASE WriteBlockers(r, s, v) = {}
    <3>1. s \in Rows /\ s \notin Companies
      BY RowKinds
    <3>2. q.text \in Labels /\ q.company \in Companies /\ q.evidence.of = None
      BY <1>1 DEF SlotSafe, NamesRows, WritesOne
    <3>3. lock[s] = r => dirty[s] = db[s]
      BY <1>1, <3>1, <3>2, RowKinds DEF SlotSafe, HoldsRows
    <3>4. db[s] = NoScope
      BY <1>1, <2>2, <2>5, <3>1, <3>3, StoreDomains
         DEF WriteBlockers, Holders, RowsSafe, CleanUnlocked
    <3>5. v \in Register!ScopeRow /\ v.company = q.company /\ v.label = q.text
      BY <2>3, <3>2 DEF Register!NewScope, Register!ScopeRow, Register!LifeStatuses
    <3>6. v = Edited(q, db[s])
      BY <1>1, <2>3 DEF Edited
    <3>7. DOMAIN NoFields = {}
      BY DEF NoFields
    <3>8. PICK fields : fields = after
      OBVIOUS
    <3>9. /\ DOMAIN fields = {"company", "label"}
          /\ fields.company = q.company /\ fields.label = q.text
      BY <3>8
    <3>10. /\ \A f \in DOMAIN NoFields \ (IF s \in Scopes THEN {"status"} ELSE {}) :
                db[s][f] = NoFields[f]
           /\ \A f \in DOMAIN fields \ (IF s \in Scopes THEN {"status"} ELSE {}) : v[f] = fields[f]
      BY <3>5, <3>7, <3>9
    <3>11. WriteKey(r, s, v, NoFields, fields)
      BY <2>4, <3>8
    <3>12. QED BY <1>1, <3>1, <3>4, <3>5, <3>6, <3>10, <3>11, KeyedWrite DEF CompanyOps, ScopeOps
  <2>6. QED BY <2>4, <2>5 DEF WriteKey
<1>4. QED BY <1>2, <1>3 DEF InsertScope

LEMMA EditsTyped ==
  ASSUME NEW n \in Nat
  PROVE  /\ \A row \in Register!CompanyRow, name \in Names :
              [row EXCEPT !.name = name, !.version = n + 1] \in Register!CompanyRow
         /\ \A row \in Register!ScopeRow, label \in Labels :
              [row EXCEPT !.label = label, !.version = n + 1] \in Register!ScopeRow
<1>1. n + 1 \in Nat
  OBVIOUS
<1>2. PICK k \in Nat : k = n + 1
  BY <1>1
<1>3. ASSUME NEW row \in Register!CompanyRow, NEW name \in Names
      PROVE  [row EXCEPT !.name = name, !.version = k] \in Register!CompanyRow
  <2>1. [row EXCEPT !.name = name] \in Register!CompanyRow
    BY DEF Register!CompanyRow
  <2>2. \A x \in Register!CompanyRow : [x EXCEPT !.version = k] \in Register!CompanyRow
    BY DEF Register!CompanyRow
  <2>3. QED BY <2>1, <2>2
<1>4. ASSUME NEW row \in Register!ScopeRow, NEW label \in Labels
      PROVE  [row EXCEPT !.label = label, !.version = k] \in Register!ScopeRow
  <2>1. [row EXCEPT !.label = label] \in Register!ScopeRow
    BY DEF Register!ScopeRow
  <2>2. \A x \in Register!ScopeRow : [x EXCEPT !.version = k] \in Register!ScopeRow
    BY DEF Register!ScopeRow
  <2>3. QED BY <2>1, <2>2
<1>5. QED BY <1>2, <1>3, <1>4

LEMMA RenameStep ==
  ASSUME StructureIInv, NEW r \in Requests, Claim(r), req[r].op = "renameCompany"
  PROVE  StructureIInv'
<1> DEFINE q == req[r]
           c == q.company
<1>1. RowsSafe /\ SlotSafe(r, q) /\ q.pc = "claim"
  BY Parts DEF Claim, At
<1>2. PICK v : v = [db[c] EXCEPT !.name = q.text, !.version = q.version + 1]
  OBVIOUS
<1>3. PICK before : before = [name |-> db[c].name, version |-> q.version]
  OBVIOUS
<1>4. PICK after : after = [name |-> q.text]
  OBVIOUS
<1>5. IF db[c].version = q.version THEN WriteKey(r, c, v, before, after) ELSE Abort(r)
  BY <1>2, <1>3, <1>4 DEF Claim, Intended
<1>6. CASE Abort(r)
  BY <1>6, AbortStep
<1>7. CASE db[c].version = q.version /\ WriteKey(r, c, v, before, after)
  <2>1. c \in Companies /\ c \in Rows /\ c \notin Scopes /\ q.text \in Names /\ q.version \in Nat
    BY <1>1, RowKinds DEF SlotSafe, RequestTyped, NamesRows, CompanyOps
  <2>2. db[c] \in Register!CompanyRow
    BY <1>1, <2>1 DEF RowsSafe, RowsTyped
  <2>3. v \in Register!CompanyRow /\ v.name = q.text
    <3>1. v \in Register!CompanyRow
      BY <1>2, <2>1, <2>2, EditsTyped
    <3>2. QED BY <1>2, <2>2, <3>1 DEF Register!CompanyRow
  <2>4. v = Edited(q, db[c])
    BY <1>2 DEF Edited
  <2>5. /\ DOMAIN before = {"name", "version"} /\ before.name = db[c].name
        /\ before.version = q.version /\ DOMAIN after = {"name"} /\ after.name = q.text
    BY <1>3, <1>4
  <2>6. /\ \A f \in DOMAIN before \ (IF c \in Scopes THEN {"status"} ELSE {}) :
             db[c][f] = before[f]
        /\ \A f \in DOMAIN after \ (IF c \in Scopes THEN {"status"} ELSE {}) : v[f] = after[f]
    BY <1>7, <2>1, <2>3, <2>5
  <2>7. QED BY <1>1, <1>7, <2>1, <2>3, <2>4, <2>6, KeyedWrite DEF CompanyOps, ScopeOps
<1>8. QED BY <1>5, <1>6, <1>7

LEMMA UpdateScopeStep ==
  ASSUME StructureIInv, NEW r \in Requests, Claim(r), req[r].op = "updateScope"
  PROVE  StructureIInv'
<1> DEFINE q == req[r]
           s == q.scope
<1>1. RowsSafe /\ SlotSafe(r, q) /\ q.pc = "claim"
  BY Parts DEF Claim, At
<1>0. Intended(q) = {<<s, [db[s] EXCEPT !.label = q.text, !.version = q.version + 1]>>}
  BY DEF Intended
<1>2. PICK v : v = [db[s] EXCEPT !.label = q.text, !.version = q.version + 1]
  OBVIOUS
<1>3. PICK before : before = [db[s] EXCEPT !.status = q.seen]
  OBVIOUS
<1>4. PICK after : after = [v EXCEPT !.status = q.seen]
  OBVIOUS
<1>5. IF db[s].version = q.version THEN WriteKey(r, s, v, before, after) ELSE Abort(r)
  <2>1. PICK w \in Intended(q) :
             IF db[w[1]].version = q.version
               THEN WriteKey(r, w[1], w[2], [db[w[1]] EXCEPT !.status = q.seen],
                             [w[2] EXCEPT !.status = q.seen])
               ELSE Abort(r)
    BY DEF Claim
  <2>2. w = <<s, v>>
    BY <1>0, <1>2
  <2>3. w[1] = s /\ w[2] = v
    BY <2>2
  <2>4. QED BY <1>3, <1>4, <2>1, <2>3
<1>6. CASE Abort(r)
  BY <1>6, AbortStep
<1>7. CASE db[s].version = q.version /\ WriteKey(r, s, v, before, after)
  <2>1. s \in Scopes /\ s \in Rows /\ s \notin Companies /\ q.text \in Labels /\ q.version \in Nat
    BY <1>1, RowKinds DEF SlotSafe, RequestTyped, NamesRows, ScopeOps
  <2>2. db[s] \in Register!ScopeRow
    BY <1>1, <2>1 DEF RowsSafe, RowsTyped
  <2>3. v \in Register!ScopeRow
    BY <1>2, <2>1, <2>2, EditsTyped
  <2>4. v = Edited(q, db[s])
    BY <1>2 DEF Edited
  <2>5. /\ \A f \in DOMAIN before \ {"status"} : db[s][f] = before[f]
        /\ \A f \in DOMAIN after \ {"status"} : v[f] = after[f]
    BY <1>3, <1>4
  <2>6. QED BY <1>1, <1>7, <2>1, <2>3, <2>4, <2>5, KeyedWrite DEF CompanyOps, ScopeOps
<1>8. QED BY <1>5, <1>6, <1>7

LEMMA ClaimStep ==
  ASSUME StructureIInv, NEW r \in Requests, Claim(r)
  PROVE  StructureIInv'
<1>1. req[r].op \in {"renameCompany", "updateScope"}
  BY Parts, Stagings DEF Claim, At, SlotSafe
<1>2. QED BY <1>1, RenameStep, UpdateScopeStep

-----------------------------------------------------------------------------
(***************************************************************************)
(* Steps that write nothing.                                               *)
(***************************************************************************)
\* A slot that only moves on, and has neither locked nor written anything.
LEMMA MoveOn ==
  ASSUME StructureIInv, NEW r \in Requests, NEW q, req' = [req EXCEPT ![r] = q],
         UNCHANGED <<rowVars, begun>>, req[r].evidence.of = None,
         LocksCompany(q) <=> LocksCompany(req[r]), q.company = req[r].company \/ ~LocksCompany(q),
         q.evidence = req[r].evidence,
         q.pc = "commit" => q.op \in {"reactivateCompany", "deactivateScope", "reactivateScope"},
         RequestTyped(q), NamesRows(q), DecidedUnderLock(q)
  PROVE  StructureIInv'
<1>1. SlotSafe(r, req[r]) /\ begun' \in Nat
  BY Parts DEF SlotsThere
<1>2. HoldsRows(r, q)
  BY <1>1, RowKinds DEF SlotSafe, HoldsRows, RowsOf
<1>3. SlotSafe(r, q)
  BY <1>1, <1>2 DEF SlotSafe, WritesOne, EvidenceHolds
<1>4. QED BY <1>1, <1>3, QuietStep

LEMMA BeginStep ==
  ASSUME StructureIInv, NEW r \in Requests, NEW op, NEW call, Begin(r, op, call),
         DOMAIN call = DOMAIN Idle, call.evidence = NoEvidence, call.seen = None,
         call.version \in Nat, call.company \in Companies \cup {None},
         call.scope \in Scopes \cup {None},
         op \in CompanyOps \cup {"createScope"} =>
           call.company \in Companies /\ db[call.company].name # None,
         op \in ScopeOps => call.scope \in Scopes /\ db[call.scope].company # None,
         op \in AllOps,
         op \in {"createCompany", "renameCompany"} => call.text \in Names,
         op \in {"createScope", "updateScope"} => call.text \in Labels,
         call.text \in Names \cup Labels \cup {None}
  PROVE  StructureIInv'
<1>1. RowsSafe /\ SlotsThere /\ SlotSafe(r, req[r]) /\ req[r].pc = "idle"
  BY Parts DEF Begin, At
<1>2. PICK q : q = [call EXCEPT !.op = op, !.pc = FirstStage(op)]
  OBVIOUS
<1>3. /\ q.op = op /\ q.pc = FirstStage(op) /\ q.company = call.company /\ q.scope = call.scope
      /\ q.text = call.text /\ q.version = call.version /\ q.seen = None
      /\ q.evidence = NoEvidence /\ DOMAIN q = DOMAIN Idle
  BY <1>2 DEF Idle
<1>4. req' = [req EXCEPT ![r] = q] /\ UNCHANGED rowVars /\ begun' \in Nat
  BY <1>1, <1>2 DEF Begin, Become, SlotsThere
<1>5. /\ FirstStage(op) \in StageOf(op)
      /\ FirstStage(op) \in {"insert", "readCompany", "readScope", "lock"}
      /\ FirstStage(op) = "readScope" <=> op \in ScopeOps
      /\ FirstStage(op) = "insert" <=> op = "createCompany"
      /\ FirstStage(op) \in {"lock", "readCompany"} => op \in CompanyOps \cup {"createScope"}
  BY DEF FirstStage, StageOf, AllOps, CompanyOps, ScopeOps
<1>6. NamesRows(q)
  BY <1>3, <1>5 DEF NamesRows
<1>7. RequestTyped(q)
  BY <1>3, <1>5 DEF RequestTyped, Stages
<1>8. ~LocksCompany(q)
  BY <1>3, <1>5 DEF LocksCompany
<1>9. \A x \in Rows : lock[x] # r
  <2>1. req[r].evidence.of = None /\ ~LocksCompany(req[r])
    BY <1>1 DEF SlotSafe, WritesOne, LocksCompany
  <2>2. QED BY <1>1, <2>1 DEF SlotSafe, HoldsRows, RowsOf
<1>10. SlotSafe(r, q)
  <2>1. q.evidence.of = None
    BY <1>3 DEF NoEvidence
  <2>2. HoldsRows(r, q) /\ WritesOne(q)
    BY <1>3, <1>5, <1>8, <1>9, <2>1 DEF HoldsRows, RowsOf, WritesOne
  <2>3. QED BY <1>6, <1>7, <1>8, <2>1, <2>2 DEF SlotSafe, DecidedUnderLock, EvidenceHolds
<1>11. QED BY <1>4, <1>10, QuietStep

LEMMA ExistingRows ==
  ASSUME RowsSafe
  PROVE  /\ \A c \in Companies : Exists(c) \/ db[c].version # 0 => db[c].name # None
         /\ \A s \in Scopes : Exists(s) \/ db[s].version # 0 => db[s].company # None
<1>1. NoCompany.version = 0 /\ NoScope.version = 0
  BY NoRows
<1>2. QED BY <1>1, SafeRows DEF RowsThere, Exists

LEMMA BeginCreationStep ==
  ASSUME StructureIInv, NEW r \in Requests, BeginCreation(r)
  PROVE  StructureIInv'
<1>1. RowsSafe
  BY Parts
<1>2. ASSUME NEW name \in Names, Begin(r, "createCompany", [Idle EXCEPT !.text = name])
      PROVE  StructureIInv'
  <2>1. PICK call : call = [Idle EXCEPT !.text = name]
    OBVIOUS
  <2>2. /\ DOMAIN call = DOMAIN Idle /\ call.evidence = NoEvidence /\ call.seen = None
        /\ call.company = None /\ call.scope = None /\ call.text = name /\ call.version \in Nat
    BY <2>1 DEF Idle
  <2>3. QED BY <1>2, <2>1, <2>2, BeginStep DEF AllOps, CompanyOps, ScopeOps
<1>3. ASSUME NEW c \in Companies, NEW label \in Labels, Exists(c),
             Begin(r, "createScope", [Idle EXCEPT !.company = c, !.text = label])
      PROVE  StructureIInv'
  <2>1. PICK call : call = [Idle EXCEPT !.company = c, !.text = label]
    OBVIOUS
  <2>2. /\ DOMAIN call = DOMAIN Idle /\ call.evidence = NoEvidence /\ call.seen = None
        /\ call.company = c /\ call.scope = None /\ call.text = label /\ call.version \in Nat
    BY <2>1 DEF Idle
  <2>3. QED BY <1>1, <1>3, <2>1, <2>2, BeginStep, ExistingRows
            DEF AllOps, CompanyOps, ScopeOps
<1>4. QED BY <1>2, <1>3 DEF BeginCreation

LEMMA BeginEditStep ==
  ASSUME StructureIInv, NEW r \in Requests, BeginEdit(r)
  PROVE  StructureIInv'
<1>1. RowsSafe
  BY Parts
<1>2. ASSUME NEW c \in Companies, NEW name \in Names, NEW version \in 1..db[c].version,
             Begin(r, "renameCompany",
                   [Idle EXCEPT !.company = c, !.text = name, !.version = version])
      PROVE  StructureIInv'
  <2>1. PICK call : call = [Idle EXCEPT !.company = c, !.text = name, !.version = version]
    OBVIOUS
  <2>2. /\ DOMAIN call = DOMAIN Idle /\ call.evidence = NoEvidence /\ call.seen = None
        /\ call.company = c /\ call.scope = None /\ call.text = name /\ call.version = version
    BY <2>1 DEF Idle
  <2>3. db[c].version \in Nat
    BY <1>1 DEF RowsSafe, RowsTyped, Register!CompanyRow
  <2>4. version \in Nat /\ db[c].version # 0
    BY <2>3
  <2>5. QED BY <1>1, <1>2, <2>1, <2>2, <2>4, BeginStep, ExistingRows
            DEF AllOps, CompanyOps, ScopeOps
<1>3. ASSUME NEW s \in Scopes, NEW label \in Labels, NEW version \in 1..db[s].version,
             Begin(r, "updateScope",
                   [Idle EXCEPT !.scope = s, !.text = label, !.version = version])
      PROVE  StructureIInv'
  <2>1. PICK call : call = [Idle EXCEPT !.scope = s, !.text = label, !.version = version]
    OBVIOUS
  <2>2. /\ DOMAIN call = DOMAIN Idle /\ call.evidence = NoEvidence /\ call.seen = None
        /\ call.company = None /\ call.scope = s /\ call.text = label /\ call.version = version
    BY <2>1 DEF Idle
  <2>3. db[s].version \in Nat
    BY <1>1 DEF RowsSafe, RowsTyped, Register!ScopeRow
  <2>4. version \in Nat /\ db[s].version # 0
    BY <2>3
  <2>5. QED BY <1>1, <1>3, <2>1, <2>2, <2>4, BeginStep, ExistingRows
            DEF AllOps, CompanyOps, ScopeOps
<1>4. QED BY <1>2, <1>3 DEF BeginEdit

LEMMA BeginChangeStep ==
  ASSUME StructureIInv, NEW r \in Requests, BeginChange(r)
  PROVE  StructureIInv'
<1>1. RowsSafe
  BY Parts
<1>2. ASSUME NEW c \in Companies, NEW op \in {"deactivateCompany", "reactivateCompany"}, Exists(c),
             Begin(r, op, [Idle EXCEPT !.company = c])
      PROVE  StructureIInv'
  <2>1. PICK call : call = [Idle EXCEPT !.company = c]
    OBVIOUS
  <2>2. /\ DOMAIN call = DOMAIN Idle /\ call.evidence = NoEvidence /\ call.seen = None
        /\ call.company = c /\ call.scope = None /\ call.text = None /\ call.version \in Nat
    BY <2>1 DEF Idle
  <2>3. QED BY <1>1, <1>2, <2>1, <2>2, BeginStep, ExistingRows
            DEF AllOps, CompanyOps, ScopeOps
<1>3. ASSUME NEW s \in Scopes, NEW op \in {"deactivateScope", "reactivateScope"}, Exists(s),
             Begin(r, op, [Idle EXCEPT !.scope = s])
      PROVE  StructureIInv'
  <2>1. PICK call : call = [Idle EXCEPT !.scope = s]
    OBVIOUS
  <2>2. /\ DOMAIN call = DOMAIN Idle /\ call.evidence = NoEvidence /\ call.seen = None
        /\ call.company = None /\ call.scope = s /\ call.text = None /\ call.version \in Nat
    BY <2>1 DEF Idle
  <2>3. QED BY <1>1, <1>3, <2>1, <2>2, BeginStep, ExistingRows
            DEF AllOps, CompanyOps, ScopeOps
<1>4. QED BY <1>2, <1>3 DEF BeginChange

LEMMA ReadScopeStep ==
  ASSUME StructureIInv, NEW r \in Requests, ReadScope(r)
  PROVE  StructureIInv'
<1> DEFINE q == req[r]
           s == q.scope
<1>1. RowsSafe /\ SlotSafe(r, q) /\ q.pc = "readScope"
  BY Parts DEF ReadScope, At
<1>2. CASE Abort(r)
  BY <1>2, AbortStep
<1>3. CASE Become(r, [q EXCEPT !.company = db[s].company, !.seen = db[s].status,
                               !.pc = IF q.op = "updateScope" THEN "claim" ELSE "lock"])
           /\ UNCHANGED <<rowVars, begun>>
  <2>1. q.op \in ScopeOps
    BY <1>1, Stagings DEF SlotSafe
  <2>2. s \in Scopes /\ db[s].company \in Companies
    BY <1>1, <2>1, SafeRows DEF SlotSafe, NamesRows, RowsThere
  <2>3. db[s].status \in Register!LifeStatuses
    BY <1>1, <2>2 DEF RowsSafe, RowsTyped, Register!ScopeRow
  <2>4. PICK stage : stage = IF q.op = "updateScope" THEN "claim" ELSE "lock"
    OBVIOUS
  <2>5. PICK n : n = [q EXCEPT !.company = db[s].company, !.seen = db[s].status, !.pc = stage]
    OBVIOUS
  <2>6. /\ n.pc = stage /\ n.company = db[s].company /\ n.seen = db[s].status
        /\ n.op = q.op /\ n.scope = q.scope /\ n.text = q.text /\ n.version = q.version
        /\ n.evidence = q.evidence /\ DOMAIN n = DOMAIN q
    BY <1>1, <2>5 DEF SlotSafe, RequestTyped, Idle
  <2>7. stage \in StageOf(q.op) /\ stage \in {"claim", "lock"}
    BY <2>1, <2>4 DEF ScopeOps, StageOf
  <2>8. RequestTyped(n)
    BY <1>1, <2>2, <2>3, <2>6, <2>7 DEF SlotSafe, RequestTyped, Stages
  <2>9. NamesRows(n)
    BY <1>1, <2>1, <2>2, <2>3, <2>6, <2>7 DEF SlotSafe, NamesRows, CompanyOps, ScopeOps
  <2>10. ~LocksCompany(n) /\ ~LocksCompany(q)
    BY <1>1, <2>6, <2>7 DEF LocksCompany
  <2>11. q.evidence.of = None
    BY <1>1 DEF SlotSafe, WritesOne
  <2>12. req' = [req EXCEPT ![r] = n]
    BY <1>3, <2>4, <2>5 DEF Become
  <2>13. QED BY <1>3, <2>6, <2>7, <2>8, <2>9, <2>10, <2>11, <2>12, MoveOn DEF DecidedUnderLock
<1>4. QED BY <1>2, <1>3 DEF ReadScope

LEMMA ReadCompanyStep ==
  ASSUME StructureIInv, NEW r \in Requests, ReadCompany(r)
  PROVE  StructureIInv'
<1> DEFINE q == req[r]
<1>1. SlotsThere /\ SlotSafe(r, q) /\ q.pc = "readCompany"
  BY Parts DEF ReadCompany, At
<1>2. CASE Abort(r)
  BY <1>2, AbortStep
<1>3. CASE Continue(r, "claim")
  <2>1. q.op = "renameCompany"
    BY <1>1, Stagings DEF SlotSafe
  <2>2. PICK n : n = [q EXCEPT !.pc = "claim"]
    OBVIOUS
  <2>3. /\ n.pc = "claim" /\ n.company = q.company /\ n.seen = q.seen
        /\ n.op = q.op /\ n.scope = q.scope /\ n.text = q.text /\ n.version = q.version
        /\ n.evidence = q.evidence /\ DOMAIN n = DOMAIN q
    BY <1>1, <2>2 DEF SlotSafe, RequestTyped, Idle
  <2>4. RequestTyped(n) /\ NamesRows(n)
    BY <1>1, <2>1, <2>3
       DEF SlotSafe, RequestTyped, NamesRows, Stages, StageOf, CompanyOps, ScopeOps
  <2>5. ~LocksCompany(n) /\ ~LocksCompany(q) /\ q.evidence.of = None
    BY <1>1, <2>3 DEF LocksCompany, SlotSafe, WritesOne
  <2>6. req' = [req EXCEPT ![r] = n]
    BY <1>1, <1>3, <2>2 DEF Continue, Goto, SlotsThere
  <2>7. QED BY <1>3, <2>3, <2>4, <2>5, <2>6, MoveOn DEF DecidedUnderLock, Continue
<1>4. QED BY <1>2, <1>3 DEF ReadCompany

LEMMA ReadActiveScopesStep ==
  ASSUME StructureIInv, NEW r \in Requests, ReadActiveScopes(r)
  PROVE  StructureIInv'
<1> DEFINE q == req[r]
<1>1. SlotsThere /\ SlotSafe(r, q) /\ q.pc = "children"
  BY Parts DEF ReadActiveScopes, At
<1>2. CASE Abort(r)
  BY <1>2, AbortStep
<1>3. CASE Continue(r, "set")
  <2>1. q.op = "deactivateCompany"
    BY <1>1, Stagings DEF SlotSafe
  <2>2. PICK n : n = [q EXCEPT !.pc = "set"]
    OBVIOUS
  <2>3. /\ n.pc = "set" /\ n.company = q.company /\ n.seen = q.seen
        /\ n.op = q.op /\ n.scope = q.scope /\ n.text = q.text /\ n.version = q.version
        /\ n.evidence = q.evidence /\ DOMAIN n = DOMAIN q
    BY <1>1, <2>2 DEF SlotSafe, RequestTyped, Idle
  <2>4. LocksCompany(n) /\ LocksCompany(q) /\ q.evidence.of = None
    BY <1>1, <2>1, <2>3 DEF LocksCompany, SlotSafe, WritesOne
  <2>5. DecidedUnderLock(n) /\ q.seen = db[q.company].status
    BY <1>1, <2>1, <2>3, <2>4 DEF SlotSafe, DecidedUnderLock, CompanyOps
  <2>6. q.seen \in Register!LifeStatuses
    <3>1. q.company \in Companies /\ RowsSafe
      BY <1>1, <2>4, CompanyLocked, Parts
    <3>2. QED BY <2>5, <3>1 DEF RowsSafe, RowsTyped, Register!CompanyRow
  <2>7. RequestTyped(n) /\ NamesRows(n)
    BY <1>1, <2>1, <2>3, <2>6
       DEF SlotSafe, RequestTyped, NamesRows, Stages, StageOf, CompanyOps, ScopeOps
  <2>8. req' = [req EXCEPT ![r] = n]
    BY <1>1, <1>3, <2>2 DEF Continue, Goto, SlotsThere
  <2>9. QED BY <1>3, <2>3, <2>4, <2>5, <2>7, <2>8, MoveOn DEF Continue
<1>4. QED BY <1>2, <1>3 DEF ReadActiveScopes

-----------------------------------------------------------------------------
(***************************************************************************)
(* The Company's lock, and what is written under it.                       *)
(***************************************************************************)
LEMMA LockCompanyStep ==
  ASSUME StructureIInv, NEW r \in Requests, LockCompany(r)
  PROVE  StructureIInv'
<1> DEFINE q == req[r]
           c == q.company
           status == db[c].status
<1>1. RowsSafe /\ SlotsThere /\ SlotSafe(r, q) /\ q.pc = "lock"
  BY Parts DEF LockCompany, At
<1>2. CASE Abort(r)
  BY <1>2, AbortStep
<1>3. CASE /\ ~Refused(q, status) /\ Holders(r, c) = {} /\ Update(r, c, db[c])
           /\ Become(r, AfterLock(q, status)) /\ UNCHANGED begun
  <2>1. /\ q.op \in {"createScope", "deactivateCompany", "reactivateCompany",
                     "deactivateScope", "reactivateScope"}
        /\ q.op # "updateScope" /\ q.op # "renameCompany"
    BY <1>1, Stagings DEF SlotSafe
  <2>2. c \in Companies /\ c \in Rows /\ lock[c] \in {None, r} /\ c # None
    BY <1>1, <1>3, RowKinds DEF SlotSafe, RequestTyped, Holders
  <2>3. status \in Register!LifeStatuses
    BY <1>1, <2>2 DEF RowsSafe, RowsTyped, Register!CompanyRow
  <2>4. PICK n : n = AfterLock(q, status)
    OBVIOUS
  <2>5. /\ n.company = q.company /\ n.op = q.op /\ n.scope = q.scope /\ n.text = q.text
        /\ n.version = q.version /\ n.evidence = q.evidence /\ DOMAIN n = DOMAIN q
        /\ n.pc = CASE q.op = "createScope" -> "insert" [] q.op = "deactivateCompany" -> "children"
                    [] OTHER -> "set"
        /\ n.seen = IF q.op \in CompanyOps THEN status ELSE q.seen
    BY <1>1, <2>4 DEF SlotSafe, RequestTyped, Idle, AfterLock
  <2>6. /\ n.pc \in {"insert", "children", "set"} /\ n.pc \in StageOf(q.op)
        /\ q.op = "deactivateCompany" => n.pc = "children"
    BY <2>1, <2>5 DEF StageOf
  <2>7. LocksCompany(n) /\ ~LocksCompany(q) /\ q.evidence.of = None /\ q.evidence = NoEvidence
    BY <1>1, <2>1, <2>5, <2>6 DEF LocksCompany, SlotSafe, WritesOne
  <2>8. /\ db' = db /\ lock'[c] = r /\ dirty'[c] = db[c]
        /\ \A y \in Rows : y # c => lock'[y] = lock[y] /\ dirty'[y] = dirty[y]
    BY <1>1, <1>3, <2>2, StoreDomains DEF Update
  <2>9. RowsTyped(dirty)' /\ KeysApart'
    <3>1. DOMAIN db' = Rows /\ DOMAIN dirty' = Rows
      BY <1>1, <1>3, StoreDomains DEF Update
    <3>2. QED BY <1>1, <2>8, <3>1, MixedRows
  <2>10. /\ n.seen \in Register!LifeStatuses \cup {None}
         /\ q.op # "createScope" => n.seen \in Register!LifeStatuses
    BY <1>1, <2>1, <2>3, <2>5 DEF SlotSafe, RequestTyped, NamesRows, CompanyOps, ScopeOps
  <2>11. RequestTyped(n)
    BY <1>1, <2>1, <2>2, <2>5, <2>6, <2>10
       DEF SlotSafe, RequestTyped, NamesRows, Stages, StageOf, CompanyOps, ScopeOps
  <2>12. NamesRows(n)'
    BY <1>1, <2>1, <2>5, <2>6, <2>8, <2>10 DEF SlotSafe, NamesRows, CompanyOps, ScopeOps
  <2>13. HoldsRows(r, n)'
    <3>1. \A y \in Rows : lock[y] # r
      BY <1>1, <2>7 DEF SlotSafe, HoldsRows, RowsOf
    <3>2. \A y \in Rows : y \in RowsOf(n) <=> y = c
      BY <2>5, <2>7, RowKinds DEF RowsOf
    <3>3. \A y \in Rows : y # n.evidence.of
      BY <2>5, <2>7, RowKinds
    <3>4. QED BY <2>2, <2>8, <3>1, <3>2, <3>3 DEF HoldsRows
  <2>14. DecidedUnderLock(n)'
    BY <1>3, <2>1, <2>5, <2>6, <2>8 DEF DecidedUnderLock, Refused, CompanyOps
  <2>15. WritesOne(n)' /\ EvidenceHolds(n.evidence)' /\ RequestTyped(n)'
    BY <2>5, <2>6, <2>7, <2>11 DEF WritesOne, EvidenceHolds, RequestTyped
  <2>16. SlotSafe(r, req[r])'
    <3>1. req'[r] = n
      BY <1>1, <1>3, <2>4 DEF SlotsThere, Become
    <3>2. QED BY <2>12, <2>13, <2>14, <2>15, <3>1 DEF SlotSafe
  <2>17. req' = [req EXCEPT ![r] = n] /\ begun' \in Nat
    BY <1>1, <1>3, <2>4 DEF SlotsThere, Become
  <2>18. QED BY <1>3, <2>2, <2>9, <2>16, <2>17, WriteStep
<1>4. QED BY <1>2, <1>3 DEF LockCompany

LEMMA StatusTyped ==
  ASSUME NEW op
  PROVE  /\ Status(op) \in Register!LifeStatuses
         /\ \A row \in Register!CompanyRow :
              [row EXCEPT !.status = Status(op)] \in Register!CompanyRow
         /\ \A row \in Register!ScopeRow :
              [row EXCEPT !.status = Status(op)] \in Register!ScopeRow
<1>1. Status(op) \in Register!LifeStatuses
  BY DEF Status, Register!LifeStatuses
<1>2. PICK status \in Register!LifeStatuses : status = Status(op)
  BY <1>1
<1>3. \A row \in Register!CompanyRow : [row EXCEPT !.status = status] \in Register!CompanyRow
  BY DEF Register!CompanyRow
<1>4. \A row \in Register!ScopeRow : [row EXCEPT !.status = status] \in Register!ScopeRow
  BY DEF Register!ScopeRow
<1>5. QED BY <1>1, <1>2, <1>3, <1>4

\* Returning early: the Company stays locked until the COMMIT.
LEMMA NothingToSet ==
  ASSUME StructureIInv, NEW r \in Requests, At(r, "set"), Unchanged(req[r]), Continue(r, "commit")
  PROVE  StructureIInv'
<1> DEFINE q == req[r]
<1>1. RowsSafe /\ SlotsThere /\ SlotSafe(r, q) /\ q.pc = "set"
  BY Parts DEF At
<1>2. q.op \in {"reactivateCompany", "deactivateScope", "reactivateScope"}
  BY <1>1, Stagings DEF SlotSafe, Unchanged
<1>3. PICK n : n = [q EXCEPT !.pc = "commit"]
  OBVIOUS
<1>4. /\ n.pc = "commit" /\ n.company = q.company /\ n.seen = q.seen
      /\ n.op = q.op /\ n.scope = q.scope /\ n.text = q.text /\ n.version = q.version
      /\ n.evidence = q.evidence /\ DOMAIN n = DOMAIN q
  BY <1>1, <1>3 DEF SlotSafe, RequestTyped, Idle
<1>5. LocksCompany(n) /\ LocksCompany(q) /\ q.evidence.of = None
  BY <1>1, <1>2, <1>4 DEF LocksCompany, SlotSafe, WritesOne
<1>6. DecidedUnderLock(n)
  BY <1>1, <1>2, <1>4, <1>5 DEF SlotSafe, DecidedUnderLock
<1>7. RequestTyped(n) /\ NamesRows(n)
  BY <1>1, <1>2, <1>4
     DEF SlotSafe, RequestTyped, NamesRows, Stages, StageOf, CompanyOps, ScopeOps
<1>8. req' = [req EXCEPT ![r] = n]
  BY <1>1, <1>3 DEF Continue, Goto, SlotsThere
<1>9. QED BY <1>2, <1>4, <1>5, <1>6, <1>7, <1>8, MoveOn DEF Continue

LEMMA SetCompanyStep ==
  ASSUME StructureIInv, NEW r \in Requests, SetCompany(r)
  PROVE  StructureIInv'
<1> DEFINE q == req[r]
           c == q.company
           status == Status(q.op)
<1>1. RowsSafe /\ SlotSafe(r, q) /\ q.pc = "set" /\ q.op \in CompanyOps
  BY Parts DEF SetCompany, At
<1>2. CASE Abort(r)
  BY <1>2, AbortStep
<1>3. CASE Unchanged(q) /\ Continue(r, "commit")
  BY <1>3, NothingToSet DEF SetCompany
<1>4. CASE /\ ChildGuard(r, c, status)
           /\ WriteWithEvidence(r, c, [See(r, c) EXCEPT !.status = status],
                                [status |-> q.seen], [status |-> status])
  <2>1. q.op \in {"deactivateCompany", "reactivateCompany"}
    BY <1>1, Stagings DEF SlotSafe, CompanyOps, ScopeOps
  <2>2. LocksCompany(q) /\ q.evidence.of = None
    BY <1>1, <2>1 DEF LocksCompany, SlotSafe, WritesOne
  <2>3. c \in Companies /\ c \in Rows /\ c \notin Scopes /\ lock[c] = r
    BY <1>1, <2>2, CompanyLocked, RowKinds
  <2>4. See(r, c) = db[c] /\ db[c] \in Register!CompanyRow
    BY <1>1, <2>2, <2>3, RowKinds DEF SlotSafe, HoldsRows, See, RowsSafe, RowsTyped
  <2>5. q.seen = db[c].status
    BY <1>1, <2>2 DEF SlotSafe, DecidedUnderLock
  <2>6. PICK v : v = [db[c] EXCEPT !.status = status]
    OBVIOUS
  <2>7. v \in Register!CompanyRow /\ v.status = status /\ v.name = db[c].name
    BY <2>4, <2>6, StatusTyped DEF Register!CompanyRow
  <2>8. v = Edited(q, db[c])
    BY <2>1, <2>6 DEF Edited
  <2>9. PICK before : before = [status |-> q.seen]
    OBVIOUS
  <2>10. PICK after : after = [status |-> status]
    OBVIOUS
  <2>11. WriteWithEvidence(r, c, v, before, after)
    BY <1>4, <2>4, <2>6, <2>9, <2>10
  <2>12. KeysApart'
    <3>1. \A w : SameKey(c, w, v) <=> SameKey(c, w, db[c])
      BY <2>3, <2>7 DEF SameKey
    <3>2. QED BY <1>1, <2>3, <2>7, <2>11, <3>1, OldKey DEF WriteWithEvidence
  <2>13. q.op = "deactivateCompany" => ScopesOf(c) = {}
    <3>1. CASE q.op = "deactivateCompany" /\ db[c].status # "INACTIVE"
      BY <1>4, <2>4, <3>1, ScopesUnfold DEF ChildGuard, Status
    <3>2. CASE db[c].status = "INACTIVE"
      BY <1>1, <3>2, SafeRows DEF ActiveParents, ScopesOf
    <3>3. QED BY <3>1, <3>2
  <2>14. /\ \A f \in DOMAIN before \ (IF c \in Scopes THEN {"status"} ELSE {}) :
              db[c][f] = before[f]
         /\ \A f \in DOMAIN after \ (IF c \in Scopes THEN {"status"} ELSE {}) : v[f] = after[f]
    BY <2>5, <2>7, <2>9, <2>10
  <2>15. QED BY <1>1, <2>1, <2>3, <2>7, <2>8, <2>11, <2>12, <2>13, <2>14, EvidencedWrite
             DEF ScopeOps
<1>5. QED BY <1>2, <1>3, <1>4 DEF SetCompany

LEMMA SetScopeStep ==
  ASSUME StructureIInv, NEW r \in Requests, SetScope(r)
  PROVE  StructureIInv'
<1> DEFINE q == req[r]
           s == q.scope
           status == Status(q.op)
<1>1. RowsSafe /\ SlotSafe(r, q) /\ q.pc = "set" /\ q.op \in ScopeOps
  BY Parts DEF SetScope, At
<1>2. CASE Abort(r)
  BY <1>2, AbortStep
<1>3. CASE Unchanged(q) /\ Continue(r, "commit")
  BY <1>3, NothingToSet DEF SetScope
<1>4. CASE /\ Holders(r, s) = {}
           /\ WriteWithEvidence(r, s, [db[s] EXCEPT !.status = status],
                                [status |-> q.seen], [status |-> status])
  <2>1. q.op \in {"deactivateScope", "reactivateScope"}
    BY <1>1, Stagings DEF SlotSafe, CompanyOps, ScopeOps
  <2>2. s \in Scopes /\ s \in Rows /\ s \notin Companies /\ lock[s] \in {None, r}
    BY <1>1, <1>4, RowKinds DEF SlotSafe, NamesRows, Holders
  <2>3. db[s] \in Register!ScopeRow
    BY <1>1, <2>2 DEF RowsSafe, RowsTyped
  <2>4. PICK v : v = [db[s] EXCEPT !.status = status]
    OBVIOUS
  <2>5. v \in Register!ScopeRow /\ v.company = db[s].company /\ v.label = db[s].label
    BY <2>3, <2>4, StatusTyped DEF Register!ScopeRow
  <2>6. v = Edited(q, db[s])
    BY <2>1, <2>4 DEF Edited
  <2>7. PICK before : before = [status |-> q.seen]
    OBVIOUS
  <2>8. PICK after : after = [status |-> status]
    OBVIOUS
  <2>9. WriteWithEvidence(r, s, v, before, after)
    BY <1>4, <2>4, <2>7, <2>8
  <2>10. KeysApart'
    <3>1. \A w : SameKey(s, w, v) <=> SameKey(s, w, db[s])
      BY <2>2, <2>5 DEF SameKey
    <3>2. QED BY <1>1, <2>2, <2>9, <3>1, OldKey DEF WriteWithEvidence
  <2>11. DOMAIN before \ {"status"} = {} /\ DOMAIN after \ {"status"} = {}
    BY <2>7, <2>8
  <2>12. QED BY <1>1, <2>1, <2>2, <2>5, <2>6, <2>9, <2>10, <2>11, EvidencedWrite
             DEF CompanyOps
<1>5. QED BY <1>2, <1>3, <1>4 DEF SetScope

-----------------------------------------------------------------------------
(***************************************************************************)
(* COMMIT.                                                                 *)
(***************************************************************************)
\* What a commit makes of row x, operation by operation.
ChangesRow(q, x) ==
  \/ /\ x \in Companies /\ q.text \in Names
     /\ db[x] = NoCompany /\ db'[x] = Register!NewCompany(q.text)
  \/ /\ x \in Scopes /\ q.company \in Companies /\ q.text \in Labels
     /\ db[q.company].status = "ACTIVE" /\ db[q.company].name # None
     /\ db[x] = NoScope /\ db'[x] = Register!NewScope(q.company, q.text)
  \/ /\ x \in Companies /\ q.text \in Names /\ db[x].name # None /\ db[x].version = q.version
     /\ db'[x] = [db[x] EXCEPT !.name = q.text, !.version = q.version + 1]
  \/ /\ x \in Scopes /\ q.text \in Labels /\ db[x].company # None /\ db[x].version = q.version
     /\ db'[x] = [db[x] EXCEPT !.label = q.text, !.version = q.version + 1]
  \/ /\ x \in Companies /\ db[x].name # None
     /\ Status(q.op) = "INACTIVE" => ScopesOf(x) = {}
     /\ db'[x] = [db[x] EXCEPT !.status = Status(q.op)]
  \/ /\ x \in Scopes /\ db[x].company # None
     /\ Status(q.op) = "ACTIVE" => db[db[x].company].status = "ACTIVE"
     /\ db'[x] = [db[x] EXCEPT !.status = Status(q.op)]

LEMMA CommitRow ==
  ASSUME StructureIInv, NEW r \in Requests, Commit(r)
  PROVE  LET x == req[r].evidence.of
         IN /\ \A y \in Rows : y # x => db'[y] = db[y]
            /\ x # None => x \in Rows /\ lock[x] = r /\ db'[x] = dirty[x] /\ ChangesRow(req[r], x)
<1> DEFINE q == req[r]
           x == q.evidence.of
<1>1. RowsSafe /\ SlotSafe(r, q) /\ q.pc = "commit"
  BY Parts DEF Commit, At
<1>2. \A y \in Rows : db'[y] = IF lock[y] = r THEN dirty[y] ELSE db[y]
  BY <1>1, StoreDomains DEF Commit, CommitRows, See
<1>3. \A y \in Rows : y # x => db'[y] = db[y]
  BY <1>1, <1>2, HeldRows
<1>4. ASSUME x # None PROVE x \in Rows /\ lock[x] = r /\ db'[x] = dirty[x] /\ ChangesRow(q, x)
  <2>1. x \in Rows /\ lock[x] = r /\ db'[x] = dirty[x] /\ db'[x] = Edited(q, db[x])
    <3>1. x \in Rows /\ lock[x] = r
      BY <1>1, <1>4, EvidenceRow
    <3>2. QED BY <1>1, <1>2, <3>1, HeldRows
  <2>2. CASE q.op = "createCompany"
    BY <1>1, <1>4, <2>1, <2>2 DEF SlotSafe, WritesOne, NamesRows, Edited, ChangesRow
  <2>3. CASE q.op = "createScope"
    <3>1. LocksCompany(q)
      BY <1>1, <2>3 DEF LocksCompany
    <3>2. db[q.company].status = "ACTIVE"
      BY <1>1, <2>3, <3>1 DEF SlotSafe, DecidedUnderLock
    <3>3. QED BY <1>1, <1>4, <2>1, <2>3, <3>2 DEF SlotSafe, WritesOne, NamesRows, Edited, ChangesRow
  <2>4. CASE q.op = "renameCompany"
    BY <1>1, <1>4, <2>1, <2>4 DEF SlotSafe, WritesOne, NamesRows, CompanyOps, Edited, ChangesRow
  <2>5. CASE q.op = "updateScope"
    BY <1>1, <1>4, <2>1, <2>5 DEF SlotSafe, WritesOne, NamesRows, ScopeOps, Edited, ChangesRow
  <2>6. CASE q.op \in {"deactivateCompany", "reactivateCompany"}
    <3>1. LocksCompany(q)
      BY <1>1, <2>6 DEF LocksCompany
    <3>2. x = q.company /\ x \in Companies /\ db[x].name # None
      BY <1>1, <1>4, <2>6 DEF SlotSafe, WritesOne, NamesRows, CompanyOps
    <3>3. Status(q.op) = "INACTIVE" => ScopesOf(x) = {}
      BY <1>1, <2>6, <3>1, <3>2, ScopesUnfold DEF SlotSafe, DecidedUnderLock, Status
    <3>4. db'[x] = [db[x] EXCEPT !.status = Status(q.op)]
      BY <2>1, <2>6 DEF Edited
    <3>5. QED BY <2>1, <3>2, <3>3, <3>4 DEF ChangesRow
  <2>7. CASE q.op \in {"deactivateScope", "reactivateScope"}
    <3>1. LocksCompany(q)
      BY <1>1, <2>7 DEF LocksCompany
    <3>2. x = q.scope /\ x \in Scopes /\ db[x].company # None /\ q.company = db[x].company
      BY <1>1, <1>4, <2>7 DEF SlotSafe, WritesOne, NamesRows, ScopeOps
    <3>3. Status(q.op) = "ACTIVE" => db[db[x].company].status = "ACTIVE"
      BY <1>1, <2>7, <3>1, <3>2 DEF SlotSafe, DecidedUnderLock, Status
    <3>4. db'[x] = [db[x] EXCEPT !.status = Status(q.op)]
      BY <2>1, <2>7 DEF Edited
    <3>5. QED BY <2>1, <3>2, <3>3, <3>4 DEF ChangesRow
  <2>8. q.op \in AllOps
    BY <1>1, Stagings DEF SlotSafe
  <2>9. QED BY <2>2, <2>3, <2>4, <2>5, <2>6, <2>7, <2>8 DEF AllOps, CompanyOps, ScopeOps
<1>5. QED BY <1>3, <1>4

\* It is what was to become of that row.
LEMMA CommitEdits ==
  ASSUME StructureIInv, NEW r \in Requests, Commit(r), req[r].evidence.of # None
  PROVE  db'[req[r].evidence.of] = Edited(req[r], db[req[r].evidence.of])
<1>1. SlotSafe(r, req[r])
  BY Parts
<1>2. /\ req[r].evidence.of \in Rows /\ lock[req[r].evidence.of] = r
      /\ db'[req[r].evidence.of] = dirty[req[r].evidence.of]
  BY CommitRow
<1>3. QED BY <1>1, <1>2, HeldRows

\* Rows do not vanish, and a scope stays with its Company.
RowsStay ==
  /\ \A c \in Companies : db[c].name # None => db'[c].name # None
  /\ \A s \in Scopes : db[s].company # None => db'[s].company = db[s].company

LEMMA ChangedRows ==
  ASSUME RowsSafe, NEW q, NEW x \in Rows, ChangesRow(q, x), \A y \in Rows : y # x => db'[y] = db[y],
         RowsTyped(db)'
  PROVE  RowsThere' /\ ActiveParents' /\ RowsStay
<1>1. /\ RowsThere /\ ActiveParents
      /\ \A c \in Companies : db'[c] \in Register!CompanyRow
      /\ \A s \in Scopes : db'[s] \in Register!ScopeRow
  BY SafeRows DEF RowsTyped
<1>2. /\ NoCompany.name = None /\ NoScope.company = None /\ NoScope.status = "INACTIVE"
      /\ "ACTIVE" # "INACTIVE"
  BY NoRows
<1>3. CASE x \in Companies
  <2>1. \A s \in Scopes : db'[s] = db[s]
    BY <1>3, RowKinds
  <2>2. /\ db'[x].name # None
        /\ db'[x].status # "ACTIVE" => ScopesOf(x) = {} \/ db[x].status # "ACTIVE"
    <3>1. db[x] \in Register!CompanyRow
      BY <1>1, <1>3 DEF RowsThere
    <3>2. CASE db[x] = NoCompany /\ db'[x] = Register!NewCompany(q.text) /\ q.text \in Names
      BY <3>2, RowKinds DEF Register!NewCompany
    <3>3. CASE /\ q.text \in Names /\ db[x].name # None
               /\ db'[x] = [db[x] EXCEPT !.name = q.text, !.version = q.version + 1]
      BY <3>1, <3>3, RowKinds DEF Register!CompanyRow
    <3>4. CASE /\ db[x].name # None
               /\ Status(q.op) = "INACTIVE" => ScopesOf(x) = {}
               /\ db'[x] = [db[x] EXCEPT !.status = Status(q.op)]
      BY <3>1, <3>4 DEF Register!CompanyRow, Status
    <3>5. QED BY <1>3, <3>2, <3>3, <3>4, RowKinds DEF ChangesRow
  <2>3. RowsThere'
    <3>1. \A c \in Companies : db[c].name # None \/ c = x => db'[c].name # None
      BY <2>2, RowKinds
    <3>2. QED BY <1>1, <1>3, <2>1, <3>1, RowKinds DEF RowsThere
  <2>4. ActiveParents'
    <3> SUFFICES ASSUME NEW s \in Scopes, db'[s].status = "ACTIVE"
                 PROVE  db'[s].company \in Companies /\ db'[db'[s].company].status = "ACTIVE"
      BY DEF ActiveParents
    <3>1. db[s].company \in Companies /\ db[db[s].company].status = "ACTIVE"
      BY <1>1, <2>1 DEF ActiveParents
    <3>2. db[s].company = x => ScopesOf(x) # {}
      BY <2>1 DEF ScopesOf
    <3>3. QED BY <2>1, <2>2, <3>1, <3>2, RowKinds
  <2>5. QED BY <1>3, <2>1, <2>2, <2>3, <2>4, RowKinds DEF RowsStay
<1>4. CASE x \in Scopes
  <2>1. \A c \in Companies : db'[c] = db[c]
    BY <1>4, RowKinds
  <2>2. /\ db'[x].company \in Companies /\ db[db'[x].company].name # None /\ db'[x].label # None
        /\ db[x].company # None => db'[x].company = db[x].company
        /\ db'[x].status = "ACTIVE" => db[db'[x].company].status = "ACTIVE"
    <3>1. db[x] \in Register!ScopeRow
      BY <1>1, <1>4 DEF RowsThere
    <3>2. CASE /\ q.company \in Companies /\ q.text \in Labels
               /\ db[q.company].status = "ACTIVE" /\ db[q.company].name # None
               /\ db[x] = NoScope /\ db'[x] = Register!NewScope(q.company, q.text)
      BY <1>2, <3>2, RowKinds DEF Register!NewScope
    <3>3. CASE /\ q.text \in Labels /\ db[x].company # None
               /\ db'[x] = [db[x] EXCEPT !.label = q.text, !.version = q.version + 1]
      <4>1. /\ db'[x].company = db[x].company /\ db'[x].label = q.text
            /\ db'[x].status = db[x].status
        BY <3>1, <3>3 DEF Register!ScopeRow
      <4>2. QED BY <1>1, <1>4, <3>3, <4>1, RowKinds DEF RowsThere, ActiveParents
    <3>4. CASE /\ db[x].company # None
               /\ Status(q.op) = "ACTIVE" => db[db[x].company].status = "ACTIVE"
               /\ db'[x] = [db[x] EXCEPT !.status = Status(q.op)]
      <4>1. /\ db'[x].company = db[x].company /\ db'[x].label = db[x].label
            /\ db'[x].status = Status(q.op)
        BY <3>1, <3>4 DEF Register!ScopeRow
      <4>2. QED BY <1>1, <1>4, <3>4, <4>1, RowKinds DEF RowsThere
    <3>5. QED BY <1>4, <3>2, <3>3, <3>4, RowKinds DEF ChangesRow
  <2>3. RowsThere'
    BY <1>1, <1>4, <2>1, <2>2, RowKinds DEF RowsThere
  <2>4. ActiveParents'
    BY <1>1, <1>4, <2>1, <2>2, RowKinds DEF ActiveParents
  <2>5. QED BY <1>4, <2>1, <2>2, <2>3, <2>4, RowKinds DEF RowsStay
<1>5. QED BY <1>3, <1>4, RowKinds

\* Whoever makes a scope ACTIVE has locked its Company.
LEMMA ActivatedUnderLock ==
  ASSUME StructureIInv, NEW r \in Requests, Commit(r), NEW s \in Scopes,
         db'[s].status = "ACTIVE", db[s].status # "ACTIVE"
  PROVE  lock[db'[s].company] = r
<1> DEFINE q == req[r]
           x == q.evidence.of
<1>1. RowsSafe /\ SlotSafe(r, q) /\ q.pc = "commit"
  BY Parts DEF Commit, At
<1>2. s = x /\ x # None /\ db'[s] = dirty[s] /\ dirty[s] = Edited(q, db[s])
  <2>1. s = x
    BY CommitRow, RowKinds
  <2>2. QED BY <1>1, <2>1, CommitRow, HeldRows, RowKinds
<1>3. db[s] \in Register!ScopeRow /\ s \in Rows
  BY <1>1, RowKinds DEF RowsSafe, RowsTyped
<1>4. q.op \in {"createScope"} \cup ScopeOps
  BY <1>1, <1>2, Stagings, RowKinds DEF SlotSafe, WritesOne, NamesRows, AllOps
<1>5. q.op # "updateScope"
  BY <1>2, <1>3 DEF Edited, Register!ScopeRow
<1>6. LocksCompany(q)
  BY <1>1, <1>4, <1>5 DEF LocksCompany, ScopeOps
<1>7. q.company = db'[s].company
  <2>1. CASE q.op = "createScope"
    BY <1>2, <2>1 DEF Edited, Register!NewScope
  <2>2. CASE q.op \in {"deactivateScope", "reactivateScope"}
    <3>1. db'[s].company = db[s].company
      BY <1>2, <1>3, <2>2 DEF Edited, Register!ScopeRow
    <3>2. QED BY <1>1, <1>2, <2>2, <3>1 DEF SlotSafe, WritesOne, NamesRows, ScopeOps
  <2>3. QED BY <1>4, <1>5, <2>1, <2>2 DEF ScopeOps
<1>8. QED BY <1>1, <1>6, <1>7, CompanyLocked

LEMMA CommitStep ==
  ASSUME StructureIInv, NEW r \in Requests, Commit(r)
  PROVE  StructureIInv'
<1> DEFINE x == req[r].evidence.of
<1>1. RowsSafe /\ SlotsThere
  BY Parts
<1>2. /\ \A y \in Rows : y # x => db'[y] = db[y]
      /\ x # None => x \in Rows /\ lock[x] = r /\ db'[x] = dirty[x] /\ ChangesRow(req[r], x)
  BY CommitRow
<1>3. /\ DOMAIN db' = Rows /\ DOMAIN lock' = Rows /\ dirty' = dirty
      /\ \A y \in Rows : IF lock[y] = r THEN lock'[y] = None /\ db'[y] = dirty[y]
                                        ELSE lock'[y] = lock[y] /\ db'[y] = db[y]
  BY <1>1, StoreDomains DEF Commit, CommitRows, Release, See
<1>4. RowsTyped(db)' /\ RowsTyped(dirty)' /\ KeysApart'
  BY <1>1, <1>3, StoreDomains, MixedRows
<1>5. RowsThere' /\ ActiveParents' /\ RowsStay
  <2>1. CASE x # None
    BY <1>1, <1>2, <1>4, <2>1, ChangedRows
  <2>2. CASE x = None
    <3>1. \A y \in Rows : db'[y] = db[y]
      BY <1>2, <2>2, RowKinds
    <3>2. QED BY <1>1, <3>1, SafeRows, RowKinds DEF RowsThere, ActiveParents, RowsStay
  <2>3. QED BY <2>1, <2>2
<1>6. RowsSafe'
  <2>1. lock' \in [Rows -> Requests \cup {None}]
    BY <1>1, StoreDomains DEF RowsSafe, Commit, CommitRows, Release
  <2>2. CleanUnlocked'
    BY <1>1, <1>3, StoreDomains DEF RowsSafe, CleanUnlocked
  <2>3. QED BY <1>4, <1>5, <2>1, <2>2, RowsNext
<1>7. SlotsThere'
  BY <1>1 DEF SlotsThere, Commit, Become
<1>8. ASSUME NEW s \in Requests, s # r PROVE SlotSafe(s, req[s])'
  <2>1. req'[s] = req[s] /\ SlotSafe(s, req[s])
    BY <1>1, <1>8, Parts DEF SlotsThere, Commit, Become
  <2>2. PICK q : q = req[s]
    OBVIOUS
  <2>3. SlotSafe(s, q)
    BY <2>1, <2>2
  <2>4. \A y \in Rows : /\ lock'[y] = s <=> lock[y] = s
                        /\ lock[y] = s => db'[y] = db[y]
    BY <1>3, <1>8, RowKinds
  <2>5. RequestTyped(q)' /\ NamesRows(q)'
    BY <1>5, <2>3 DEF SlotSafe, RequestTyped, NamesRows, RowsStay
  <2>6. HoldsRows(s, q)'
    BY <1>3, <2>3, <2>4 DEF SlotSafe, HoldsRows
  <2>7. q.evidence.of # None => db'[q.evidence.of] = db[q.evidence.of]
    BY <2>3, <2>4, EvidenceRow
  <2>8. WritesOne(q)' /\ EvidenceHolds(q.evidence)'
    BY <1>3, <2>3, <2>7 DEF SlotSafe, WritesOne, EvidenceHolds
  <2>9. DecidedUnderLock(q)'
    <3>1. LocksCompany(q) => db'[q.company] = db[q.company] /\ lock[q.company] = s
      BY <2>3, <2>4, CompanyLocked, RowKinds
    <3>2. ASSUME LocksCompany(q), q.op = "deactivateCompany", q.pc = "commit"
          PROVE  ScopesOf(q.company)' = {}
      <4>1. ScopesOf(q.company) = {}
        BY <2>3, <3>2, ScopesUnfold DEF SlotSafe, DecidedUnderLock
      <4>2. ASSUME NEW t \in Scopes, db'[t].company = q.company, db'[t].status = "ACTIVE"
            PROVE  FALSE
        <5>1. CASE db[t].status # "ACTIVE"
          <6>1. lock[q.company] = r
            BY <4>2, <5>1, ActivatedUnderLock
          <6>2. QED BY <1>8, <3>1, <3>2, <6>1
        <5>2. CASE db[t].status = "ACTIVE"
          <6>1. db[t].company # None
            BY <1>1, <5>2, SafeRows, RowKinds DEF ActiveParents
          <6>2. db'[t].company = db[t].company
            BY <1>5, <6>1 DEF RowsStay
          <6>3. QED BY <4>1, <4>2, <5>2, <6>2 DEF ScopesOf
        <5>3. QED BY <5>1, <5>2
      <4>3. QED BY <4>2 DEF ScopesOf
    <3>3. QED BY <2>3, <3>1, <3>2, ScopesUnfoldNext DEF SlotSafe, DecidedUnderLock
  <2>10. SlotSafe(s, q)'
    BY <2>5, <2>6, <2>8, <2>9 DEF SlotSafe
  <2>11. QED BY <2>1, <2>2, <2>10 DEF SlotSafe
<1>9. SlotSafe(r, req[r])'
  <2>1. req'[r] = Idle
    BY <1>1 DEF SlotsThere, Commit, Become
  <2>2. \A y \in Rows : lock'[y] # r
    BY <1>3, RowKinds
  <2>3. QED BY <2>1, <2>2, IdleSafeNext
<1>10. QED BY <1>6, <1>7, <1>8, <1>9, PartsNext

-----------------------------------------------------------------------------
(***************************************************************************)
(* The invariant.                                                          *)
(***************************************************************************)
LEMMA InitSafe == Init => StructureIInv
<1> SUFFICES ASSUME Init PROVE StructureIInv
  OBVIOUS
<1>1. /\ DOMAIN db = Rows /\ dirty = db /\ DOMAIN lock = Rows
      /\ lock = [y \in Rows |-> None] /\ req = [r \in Requests |-> Idle] /\ begun = 0
      /\ Register!RegisterTypeOK /\ Register!ParentsActive /\ Register!IdentitiesUnique
  BY DEF Init, InitRows, Register!RegisterInit
<1>2. RowsThere
  BY <1>1, RowsUnfold
<1>3. KeysApart
  <2> SUFFICES ASSUME NEW x \in Rows, NEW y \in Siblings(x), x \in Companies => db[x].name # None,
                      SameKey(x, db[x], db[y])
               PROVE  FALSE
    BY <1>1 DEF KeysApart
  <2>1. x # y /\ y \in Rows /\ (x \in Companies <=> y \in Companies)
    BY KeysSymmetric
  <2>2. CASE x \in Companies
    BY <1>1, <2>1, <2>2 DEF Register!IdentitiesUnique, Register!Existing, SameKey
  <2>3. CASE x \notin Companies
    <3>1. x \in Scopes /\ y \in Scopes
      BY <2>1, <2>3, RowKinds
    <3>2. QED BY <1>1, <2>1, <2>3, <3>1 DEF Register!IdentitiesUnique, Register!Placed, SameKey
  <2>4. QED BY <2>2, <2>3
<1>4. RowsSafe
  <2>1. RowsTyped(db) /\ RowsTyped(dirty)
    BY <1>1, <1>2 DEF RowsTyped, RowsThere
  <2>2. lock \in [Rows -> Requests \cup {None}] /\ CleanUnlocked
    BY <1>1 DEF CleanUnlocked
  <2>3. QED BY <1>1, <1>3, <2>1, <2>2 DEF RowsSafe
<1>5. ASSUME NEW r \in Requests PROVE SlotSafe(r, req[r])
  <2>1. \A y \in Rows : lock[y] # r
    BY <1>1, RowKinds
  <2>2. QED BY <1>1, <2>1, IdleSafe
<1>6. QED BY <1>1, <1>4, <1>5, Parts DEF SlotsThere

LEMMA StatementStep ==
  ASSUME StructureIInv, NEW r \in Requests, Statement(r)
  PROVE  StructureIInv'
BY InsertCompanyStep, ReadScopeStep, LockCompanyStep, InsertScopeStep, ReadCompanyStep, ClaimStep,
   ReadActiveScopesStep, SetCompanyStep, SetScopeStep, CommitStep DEF Statement

LEMMA StutterStep ==
  ASSUME StructureIInv, UNCHANGED vars
  PROVE  StructureIInv'
<1>1. /\ db' = db /\ dirty' = dirty /\ lock' = lock /\ req' = req /\ begun' = begun
      /\ UNCHANGED rowVars
  BY DEF vars, rowVars
<1>2. RowsSafe' /\ SlotsThere'
  BY <1>1, SameRows, Parts DEF SlotsThere
<1>3. ASSUME NEW s \in Requests PROVE SlotSafe(s, req[s])'
  <2>1. SlotSafe(s, req[s])
    BY Parts
  <2>2. DecidedUnderLock(req[s])'
    BY <1>1, <2>1, ScopesUnfold, ScopesUnfoldNext
       DEF SlotSafe, DecidedUnderLock, ScopesOf, LocksCompany
  <2>3. QED BY <1>1, <2>1, <2>2
            DEF SlotSafe, RequestTyped, NamesRows, WritesOne, HoldsRows, EvidenceHolds
<1>4. QED BY <1>2, <1>3, PartsNext

LEMMA NextSafe == StructureIInv /\ [Next]_vars => StructureIInv'
<1> SUFFICES ASSUME StructureIInv, [Next]_vars PROVE StructureIInv'
  OBVIOUS
<1>1. ASSUME NEW r \in Requests, BeginCreation(r) \/ BeginEdit(r) \/ BeginChange(r)
      PROVE  StructureIInv'
  BY <1>1, BeginCreationStep, BeginEditStep, BeginChangeStep
<1>2. ASSUME NEW r \in Requests, Statement(r) PROVE StructureIInv'
  BY <1>2, StatementStep
<1>3. ASSUME NEW r \in Requests, Fail(r) PROVE StructureIInv'
  BY <1>3, AbortStep DEF Fail
<1>4. CASE UNCHANGED vars
  BY <1>4, StutterStep
<1>5. QED BY <1>1, <1>2, <1>3, <1>4 DEF Next, Quiescent

\* What each transaction read, locked and wrote agrees with the committed
\* structure until it ends (organization-admin.service.ts:22, 53, 120, 182, 325,
\* 401, 442), for any Companies, scopes, spellings and number of transactions.
THEOREM StructureInvariant == Spec => []StructureIInv
BY InitSafe, NextSafe, PTL DEF Spec

\* Rows and request slots hold what their tables and handlers can put there.
THEOREM StructureTyped == Spec => []TypeOK
<1>1. StructureIInv => TypeOK
  BY DEF StructureIInv
<1>2. QED BY <1>1, StructureInvariant, PTL

\* No transaction leaves an ACTIVE Business Scope in an INACTIVE Company: whoever
\* activates the one and whoever deactivates the other lock the Company first
\* (organization-admin.service.ts:75, 183, 416).
THEOREM ParentsStayActive == Spec => []ActiveScopeHasActiveCompany
<1>1. StructureIInv => ActiveScopeHasActiveCompany
  BY DEF StructureIInv, ActiveScopeHasActiveCompany
<1>2. QED BY <1>1, StructureInvariant, PTL

\* A Company's name and a scope's identity are stored once, whatever inserts and
\* edits run at once (the unique indexes of schema.prisma:388 and 408).
THEOREM IdentitiesStayUnique == Spec => []NoDuplicateStructure
<1>1. StructureIInv => NoDuplicateStructure
  <2> SUFFICES ASSUME StructureIInv PROVE Register!IdentitiesUnique
    BY DEF NoDuplicateStructure
  <2>1. KeysApart
    BY DEF StructureIInv
  <2>2. ASSUME NEW c \in Companies, NEW d \in Companies, db[c].name # None, db[c].name = db[d].name
        PROVE  c = d
    <3>1. SUFFICES ASSUME c # d PROVE FALSE
      OBVIOUS
    <3>2. d \in Siblings(c) /\ c \in Rows
      BY <3>1, RowKinds DEF Siblings
    <3>3. QED BY <2>1, <2>2, <3>2 DEF KeysApart, SameKey
  <2>3. ASSUME NEW s \in Scopes, NEW t \in Scopes, db[s].company # None,
               db[s].company = db[t].company, Key[db[s].label] = Key[db[t].label]
        PROVE  s = t
    <3>1. SUFFICES ASSUME s # t PROVE FALSE
      OBVIOUS
    <3>2. t \in Siblings(s) /\ s \in Rows /\ s \notin Companies
      BY <3>1, RowKinds DEF Siblings
    <3>3. QED BY <2>1, <2>3, <3>2 DEF KeysApart, SameKey
  <2>4. QED BY <2>2, <2>3 DEF Register!IdentitiesUnique, Register!Existing, Register!Placed
<1>2. QED BY <1>1, StructureInvariant, PTL

\* A request that changes a scope's status tells the one it read, another than asked for.
StatusTold(q) ==
  q.op \in {"deactivateScope", "reactivateScope"} /\ q.evidence.of # None =>
    /\ q.seen # Status(q.op)
    /\ q.evidence = [of |-> q.evidence.of, before |-> [status |-> q.seen],
                                           after |-> [status |-> Status(q.op)]]

StatusesTold == \A r \in Requests : StatusTold(req[r])

\* A slot that holds no such evidence tells nothing.
LEMMA OneSlotTold ==
  ASSUME StructureIInv, StatusesTold, NEW r \in Requests, NEW q, req' = [req EXCEPT ![r] = q],
         q.evidence.of = None \/ q.op \notin {"deactivateScope", "reactivateScope"} \/ StatusTold(q)
  PROVE  StatusesTold'
<1>1. DOMAIN req = Requests
  BY Parts DEF SlotsThere
<1>2. req'[r] = q /\ \A s \in Requests : s # r => req'[s] = req[s]
  BY <1>1
<1>3. ASSUME NEW s \in Requests PROVE StatusTold(req'[s])
  BY <1>2 DEF StatusesTold, StatusTold
<1>4. QED BY <1>3 DEF StatusesTold, StatusTold

LEMMA SlotGoesOn ==
  ASSUME StructureIInv, StatusesTold, NEW r \in Requests, NEW stage, Continue(r, stage)
  PROVE  StatusesTold'
<1>1. PICK q : q = [req[r] EXCEPT !.pc = stage]
  OBVIOUS
<1>2. req' = [req EXCEPT ![r] = q]
  BY <1>1 DEF Continue, Goto
<1>3. q.op = req[r].op /\ q.seen = req[r].seen /\ q.evidence = req[r].evidence
  BY <1>1
<1>4. StatusTold(q)
  BY <1>3 DEF StatusesTold, StatusTold
<1>5. QED BY <1>2, <1>4, OneSlotTold

LEMMA SlotEnds ==
  ASSUME StructureIInv, StatusesTold, NEW r \in Requests, Become(r, Idle)
  PROVE  StatusesTold'
<1>1. Idle.evidence.of = None
  BY DEF Idle, NoEvidence
<1>2. QED BY <1>1, OneSlotTold DEF Become

LEMMA SlotWrites ==
  ASSUME StructureIInv, StatusesTold, NEW r \in Requests, NEW x, NEW v, NEW before, NEW after,
         Abort(r) \/ WriteWithEvidence(r, x, v, before, after),
         \/ req[r].op \notin {"deactivateScope", "reactivateScope"}
         \/ /\ req[r].seen # Status(req[r].op)
            /\ before = [status |-> req[r].seen] /\ after = [status |-> Status(req[r].op)]
  PROVE  StatusesTold'
<1>1. CASE Abort(r)
  BY <1>1, SlotEnds DEF Abort
<1>2. CASE WriteWithEvidence(r, x, v, before, after)
  <2>1. PICK q : q = [req[r] EXCEPT !.pc = "commit",
                                    !.evidence = [of |-> x, before |-> before, after |-> after]]
    OBVIOUS
  <2>2. req' = [req EXCEPT ![r] = q]
    BY <1>2, <2>1 DEF WriteWithEvidence, Become
  <2>3. DOMAIN req[r] = DOMAIN Idle
    BY Parts DEF SlotSafe, RequestTyped
  <2>4. q.op = req[r].op /\ q.seen = req[r].seen
        /\ q.evidence = [of |-> x, before |-> before, after |-> after]
    BY <2>1, <2>3 DEF Idle
  <2>5. q.op \notin {"deactivateScope", "reactivateScope"} \/ StatusTold(q)
    BY <2>4 DEF StatusTold
  <2>6. QED BY <2>2, <2>5, OneSlotTold
<1>3. QED BY <1>1, <1>2

LEMMA BeginTold ==
  ASSUME StructureIInv, StatusesTold, NEW r \in Requests,
         BeginCreation(r) \/ BeginEdit(r) \/ BeginChange(r)
  PROVE  StatusesTold'
<1>1. ASSUME NEW op, NEW call, call.evidence = NoEvidence, Begin(r, op, call)
      PROVE  StatusesTold'
  <2>1. PICK q : q = [call EXCEPT !.op = op, !.pc = FirstStage(op)]
    OBVIOUS
  <2>2. req' = [req EXCEPT ![r] = q] /\ q.evidence.of = None
    BY <1>1, <2>1 DEF Begin, Become, NoEvidence
  <2>3. QED BY <2>2, OneSlotTold
<1>2. ASSUME NEW op, NEW x, NEW text, NEW version,
             \/ Begin(r, op, [Idle EXCEPT !.text = text])
             \/ Begin(r, op, [Idle EXCEPT !.company = x])
             \/ Begin(r, op, [Idle EXCEPT !.scope = x])
             \/ Begin(r, op, [Idle EXCEPT !.company = x, !.text = text])
             \/ Begin(r, op, [Idle EXCEPT !.company = x, !.text = text, !.version = version])
             \/ Begin(r, op, [Idle EXCEPT !.scope = x, !.text = text, !.version = version])
      PROVE  StatusesTold'
  <2>1. PICK a, b, c, d, e, f :
          /\ a = [Idle EXCEPT !.text = text] /\ b = [Idle EXCEPT !.company = x]
          /\ c = [Idle EXCEPT !.scope = x] /\ d = [Idle EXCEPT !.company = x, !.text = text]
          /\ e = [Idle EXCEPT !.company = x, !.text = text, !.version = version]
          /\ f = [Idle EXCEPT !.scope = x, !.text = text, !.version = version]
    OBVIOUS
  <2>2. \A call \in {a, b, c, d, e, f} : call.evidence = NoEvidence
    BY <2>1 DEF Idle
  <2>3. \E call \in {a, b, c, d, e, f} : Begin(r, op, call)
    BY <1>2, <2>1
  <2>4. QED BY <1>1, <2>2, <2>3
<1>3. CASE BeginCreation(r)
  BY <1>2, <1>3 DEF BeginCreation
<1>4. CASE BeginEdit(r)
  BY <1>2, <1>4 DEF BeginEdit
<1>5. CASE BeginChange(r)
  BY <1>2, <1>5 DEF BeginChange
<1>6. QED BY <1>3, <1>4, <1>5

LEMMA StatementTold ==
  ASSUME StructureIInv, StatusesTold, NEW r \in Requests, Statement(r)
  PROVE  StatusesTold'
<1> DEFINE q == req[r]
<1>1. SlotSafe(r, q) /\ (q.pc # "commit" => q.evidence.of = None)
  BY Parts DEF SlotSafe, WritesOne
<1>2. ASSUME NEW n, n.evidence = q.evidence, q.pc # "commit", Become(r, n) PROVE StatusesTold'
  BY <1>1, <1>2, OneSlotTold DEF Become
<1>3. ASSUME Become(r, Idle) PROVE StatusesTold'
  BY <1>3, SlotEnds
<1>4. ASSUME NEW x, NEW v, NEW before, NEW after, WriteKey(r, x, v, before, after),
             q.op \notin {"deactivateScope", "reactivateScope"}
      PROVE  StatusesTold'
  BY <1>4, SlotWrites DEF WriteKey
<1>5. CASE InsertCompany(r) \/ InsertScope(r)
  <2>1. q.op \notin {"deactivateScope", "reactivateScope"}
    BY <1>5 DEF InsertCompany, InsertScope
  <2>2. ASSUME NEW w, NEW after, WriteKey(r, w[1], w[2], NoFields, after) PROVE StatusesTold'
    BY <1>4, <2>1, <2>2
  <2>3. CASE InsertCompany(r)
    <3>1. PICK after : after = [name |-> q.text]
      OBVIOUS
    <3>2. \E w : WriteKey(r, w[1], w[2], NoFields, after)
      BY <2>3, <3>1 DEF InsertCompany
    <3>3. QED BY <2>2, <3>2
  <2>4. CASE InsertScope(r)
    <3>1. PICK after : after = [company |-> q.company, label |-> q.text]
      OBVIOUS
    <3>2. Abort(r) \/ \E w : WriteKey(r, w[1], w[2], NoFields, after)
      BY <2>4, <3>1 DEF InsertScope
    <3>3. QED BY <1>3, <2>2, <3>2 DEF Abort
  <2>5. QED BY <1>5, <2>3, <2>4
<1>6. CASE ReadScope(r)
  <2>1. CASE Abort(r)
    BY <1>3, <2>1 DEF Abort
  <2>2. ASSUME NEW c, NEW seen, NEW stage,
               Become(r, [q EXCEPT !.company = c, !.seen = seen, !.pc = stage])
        PROVE  StatusesTold'
    <3>1. PICK n : n = [q EXCEPT !.company = c, !.seen = seen, !.pc = stage]
      OBVIOUS
    <3>2. n.evidence = q.evidence /\ Become(r, n)
      BY <2>2, <3>1
    <3>3. QED BY <1>2, <1>6, <3>2 DEF ReadScope, At
  <2>3. QED BY <1>6, <2>1, <2>2 DEF ReadScope
<1>7. CASE LockCompany(r)
  <2>1. CASE Abort(r)
    BY <1>3, <2>1 DEF Abort
  <2>2. ASSUME NEW status, Become(r, AfterLock(q, status)) PROVE StatusesTold'
    <3>1. PICK n : n = AfterLock(q, status)
      OBVIOUS
    <3>2. n.evidence = q.evidence
      BY <3>1 DEF AfterLock
    <3>3. QED BY <1>2, <1>7, <2>2, <3>1, <3>2 DEF LockCompany, At
  <2>3. QED BY <1>7, <2>1, <2>2 DEF LockCompany
<1>8. CASE ReadCompany(r) \/ ReadActiveScopes(r)
  BY <1>3, <1>8, SlotGoesOn DEF ReadCompany, ReadActiveScopes, Abort
<1>9. CASE Claim(r)
  <2>1. q.op \notin {"deactivateScope", "reactivateScope"}
    BY <1>1, <1>9, Stagings DEF Claim, At, SlotSafe, NamesRows, StageOf
  <2>2. PICK w \in Intended(q) :
          LET x == w[1]
              v == w[2]
              before == IF q.op = "renameCompany" THEN [name |-> db[x].name, version |-> q.version]
                        ELSE [db[x] EXCEPT !.status = q.seen]
              after == IF q.op = "renameCompany" THEN [name |-> q.text]
                       ELSE [v EXCEPT !.status = q.seen]
          IN IF db[x].version = q.version THEN WriteKey(r, x, v, before, after) ELSE Abort(r)
    BY <1>9 DEF Claim
  <2>3. CASE Abort(r)
    BY <1>3, <2>3 DEF Abort
  <2>4. CASE ~Abort(r)
    BY <1>4, <2>1, <2>2, <2>4
  <2>5. QED BY <2>3, <2>4
<1>10. CASE SetCompany(r)
  <2>1. q.op \notin {"deactivateScope", "reactivateScope"}
    BY <1>10 DEF SetCompany, CompanyOps
  <2>2. \/ Continue(r, "commit") \/ Abort(r)
        \/ \E x, v, before, after : WriteWithEvidence(r, x, v, before, after)
    BY <1>10 DEF SetCompany
  <2>3. QED BY <2>1, <2>2, SlotWrites, SlotGoesOn
<1>11. CASE SetScope(r)
  <2>1. CASE Continue(r, "commit")
    BY <2>1, SlotGoesOn
  <2>2. CASE Abort(r)
    BY <1>3, <2>2 DEF Abort
  <2>3. CASE /\ ~Unchanged(q)
             /\ \E x, v : WriteWithEvidence(r, x, v, [status |-> q.seen], [status |-> Status(q.op)])
    <3>1. q.seen # Status(q.op)
      BY <1>11, <2>3 DEF SetScope, Unchanged, ScopeOps
    <3>2. QED BY <2>3, <3>1, SlotWrites
  <2>4. QED BY <1>11, <2>1, <2>2, <2>3 DEF SetScope
<1>12. CASE Commit(r)
  BY <1>3, <1>12 DEF Commit
<1>13. QED BY <1>5, <1>6, <1>7, <1>8, <1>9, <1>10, <1>11, <1>12 DEF Statement

LEMMA StatusesToldKept == StructureIInv /\ StatusesTold /\ [Next]_vars => StatusesTold'
<1> SUFFICES ASSUME StructureIInv, StatusesTold, [Next]_vars PROVE StatusesTold'
  OBVIOUS
<1>1. ASSUME NEW r \in Requests, Fail(r) PROVE StatusesTold'
  BY <1>1, SlotEnds DEF Fail, Abort
<1>2. CASE UNCHANGED vars
  BY <1>2 DEF vars, StatusesTold, StatusTold
<1>3. QED BY <1>1, <1>2, BeginTold, StatementTold DEF Next, Quiescent

\* The AuditEvidence of a commit tells the values it found and the values it left, but
\* for a scope's status, which was read before the lock; of that it tells every change
\* that is made (organization-admin.service.ts:37, 92, 149, 205, 379, 426, 456).
THEOREM EvidenceIsTold == Spec => StructureEvidence
<1>1. ASSUME StructureIInv, StatusesTold, NEW r \in Requests, Commit(r), req[r].evidence # NoEvidence
      PROVE  EvidenceTells(r)
  <2>1. SlotSafe(r, req[r])
    BY <1>1, Parts
  <2>2. req[r].evidence.of # None
    BY <1>1, <2>1 DEF SlotSafe, WritesOne
  <2>3. db'[req[r].evidence.of] = dirty[req[r].evidence.of]
    BY <1>1, <2>2, CommitRow
  <2>4. ASSUME req[r].op \in {"deactivateScope", "reactivateScope"}
        PROVE  db'[req[r].evidence.of].status = req[r].evidence.after.status
    <3>1. req[r].evidence.after = [status |-> Status(req[r].op)]
      <4>1. PICK x, b, a : req[r].evidence = [of |-> x, before |-> b, after |-> a]
                           /\ a = [status |-> Status(req[r].op)]
        BY <1>1, <2>2, <2>4 DEF StatusesTold, StatusTold
      <4>2. QED BY <4>1
    <3>2. req[r].evidence.of \in Scopes /\ req[r].op \in ScopeOps
      BY <2>1, <2>2, <2>4 DEF SlotSafe, WritesOne, NamesRows, ScopeOps
    <3>3. db[req[r].evidence.of] \in Register!ScopeRow
      BY <1>1, <3>2, Parts DEF RowsSafe, RowsTyped
    <3>4. db'[req[r].evidence.of] = [db[req[r].evidence.of] EXCEPT !.status = Status(req[r].op)]
      BY <1>1, <2>2, <2>4, CommitEdits DEF Edited
    <3>5. QED BY <3>1, <3>3, <3>4 DEF Register!ScopeRow
  <2>5. QED BY <2>1, <2>2, <2>3, <2>4 DEF SlotSafe, EvidenceHolds, EvidenceTells
<1>2. ASSUME StructureIInv, StatusesTold, NEW r \in Requests, Commit(r)
      PROVE  StatusChangeTold(r)
  <2> DEFINE q == req[r]
  <2> SUFFICES ASSUME NEW s \in Scopes, db[s] # NoScope, db'[s].status # db[s].status
               PROVE  q.evidence = [of |-> s, before |-> [status |-> db[s].status],
                                              after |-> [status |-> db'[s].status]]
    BY DEF StatusChangeTold
  <2>1. SlotSafe(r, q) /\ q.pc = "commit"
    BY <1>2, Parts DEF Commit, At
  <2>2. s \in Rows /\ s # None /\ s \notin Companies
    BY RowKinds
  <2>3. s = q.evidence.of
    BY <1>2, <2>2, CommitRow
  <2>4. db'[s] = Edited(q, db[s])
    BY <1>2, <2>2, <2>3, CommitEdits
  <2>5. db[s] \in Register!ScopeRow
    BY <1>2, <2>2, Parts DEF RowsSafe, RowsTyped
  <2>6. q.op \in {"deactivateScope", "reactivateScope"}
    <3>1. q.op # "createScope" /\ q.op # "createCompany" /\ q.op \notin CompanyOps
      BY <2>1, <2>2, <2>3, RowKinds DEF SlotSafe, WritesOne, NamesRows
    <3>2. q.op # "updateScope"
      BY <2>4, <2>5 DEF Edited, Register!ScopeRow
    <3>3. QED BY <2>1, <3>1, <3>2, Stagings DEF SlotSafe, AllOps, ScopeOps
  <2>7. db'[s].status = Status(q.op)
    BY <2>4, <2>5, <2>6 DEF Edited, Register!ScopeRow
  <2>8. q.seen \in Register!LifeStatuses
    BY <2>1, <2>6 DEF SlotSafe, NamesRows, ScopeOps
  <2>9. db[s].status = q.seen
    BY <1>2, <2>2, <2>3, <2>5, <2>6, <2>7, <2>8
       DEF StatusesTold, StatusTold, Status, Register!ScopeRow, Register!LifeStatuses
  <2>10. QED BY <1>2, <2>2, <2>3, <2>6, <2>7, <2>9 DEF StatusesTold, StatusTold
<1>3. Init => StatusesTold
  BY DEF Init, StatusesTold, StatusTold, Idle, NoEvidence
<1>4. StructureIInv /\ StatusesTold /\ [Next]_vars =>
        [\A r \in Requests : Commit(r) => /\ req[r].evidence # NoEvidence => EvidenceTells(r)
                                          /\ StatusChangeTold(r)]_vars
  BY <1>1, <1>2
<1>5. QED BY <1>3, <1>4, StructureInvariant, StatusesToldKept, PTL DEF Spec, StructureEvidence

-----------------------------------------------------------------------------
(***************************************************************************)
(* Every commit is one step of the register.                               *)
(***************************************************************************)
RegisterStep == [Register!RegisterNext]_(Register!structure)

\* Nothing but a commit changes what the register shows.
LEMMA SameStructure ==
  ASSUME \A x \in Rows : db'[x] = db[x]
  PROVE  RegisterStep
<1>1. \A c \in Companies : db'[c] = db[c]
  BY RowKinds
<1>2. \A s \in Scopes : db'[s] = db[s]
  BY RowKinds
<1>3. [c \in Companies |-> db'[c]] = [c \in Companies |-> db[c]]
      /\ [s \in Scopes |-> db'[s]] = [s \in Scopes |-> db[s]]
  BY <1>1, <1>2
<1>4. QED BY <1>3 DEF RegisterStep, Register!structure

\* One Company's row changes, or one scope's.
LEMMA OneCompany ==
  ASSUME NEW x \in Companies, \A y \in Rows : y # x => db'[y] = db[y]
  PROVE  /\ [c \in Companies |-> db'[c]] = [[c \in Companies |-> db[c]] EXCEPT ![x] = db'[x]]
         /\ [s \in Scopes |-> db'[s]] = [s \in Scopes |-> db[s]]
<1>1. \A c \in Companies : c # x => db'[c] = db[c]
  BY RowKinds
<1>2. \A s \in Scopes : db'[s] = db[s]
  BY RowKinds
<1>3. QED BY <1>1, <1>2

LEMMA OneScope ==
  ASSUME NEW x \in Scopes, \A y \in Rows : y # x => db'[y] = db[y]
  PROVE  /\ [s \in Scopes |-> db'[s]] = [[s \in Scopes |-> db[s]] EXCEPT ![x] = db'[x]]
         /\ [c \in Companies |-> db'[c]] = [c \in Companies |-> db[c]]
<1>1. \A s \in Scopes : s # x => db'[s] = db[s]
  BY RowKinds
<1>2. \A c \in Companies : db'[c] = db[c]
  BY RowKinds
<1>3. QED BY <1>1, <1>2

\* What is committed has a name, or a Company and Key, that no other row has.
LEMMA CommittedKeyFree ==
  ASSUME StructureIInv, NEW x \in Rows, db'[x] = dirty[x]
  PROVE  /\ x \in Companies /\ db'[x].name # None =>
              \A d \in Companies \ {x} : db[d].name # db'[x].name
         /\ x \in Scopes /\ db'[x].company # None =>
              \A t \in Scopes \ {x} : db[t].company = db'[x].company =>
                Key[db[t].label] # Key[db'[x].label]
<1>1. KeysApart
  BY DEF StructureIInv
<1>2. ASSUME x \in Companies, db'[x].name # None, NEW d \in Companies \ {x}
      PROVE  db[d].name # db'[x].name
  <2>1. d \in Siblings(x)
    BY <1>2 DEF Siblings
  <2>2. ~SameKey(x, dirty[x], db[d])
    BY <1>1, <1>2, <2>1 DEF KeysApart
  <2>3. QED BY <1>2, <2>2 DEF SameKey
<1>3. ASSUME x \in Scopes, db'[x].company # None, NEW t \in Scopes \ {x},
             db[t].company = db'[x].company
      PROVE  Key[db[t].label] # Key[db'[x].label]
  <2>1. t \in Siblings(x) /\ x \notin Companies
    BY <1>3, RowKinds DEF Siblings
  <2>2. ~SameKey(x, dirty[x], db[t])
    BY <1>1, <1>3, <2>1 DEF KeysApart
  <2>3. QED BY <1>3, <2>1, <2>2 DEF SameKey
<1>4. QED BY <1>2, <1>3

LEMMA CompanyCommitted ==
  ASSUME StructureIInv, NEW q, NEW x \in Companies, ChangesRow(q, x), db'[x] = dirty[x],
         \A y \in Rows : y # x => db'[y] = db[y]
  PROVE  Register!RegisterNext
<1>1. RowsSafe /\ x \in Rows /\ x \notin Scopes
  BY Parts, RowKinds
<1>2. db[x] \in Register!CompanyRow
  BY <1>1 DEF RowsSafe, RowsTyped
<1>3. NoCompany.name = None
  BY NoRows
<1>4. CASE /\ q.text \in Names /\ db[x] = NoCompany /\ db'[x] = Register!NewCompany(q.text)
  <2>1. db'[x].name = q.text /\ q.text # None
    BY <1>4, RowKinds DEF Register!NewCompany
  <2>2. Register!NameFree(x, q.text)
    BY <1>1, <2>1, CommittedKeyFree DEF Register!NameFree
  <2>3. Register!CreateCompany(x, q.text)
    BY <1>4, <2>2, OneCompany DEF Register!CreateCompany, NoCompany
  <2>4. QED BY <1>4, <2>3 DEF Register!RegisterNext
<1>5. CASE /\ q.text \in Names /\ db[x].name # None /\ db[x].version = q.version
           /\ db'[x] = [db[x] EXCEPT !.name = q.text, !.version = q.version + 1]
  <2>1. db'[x].name = q.text /\ q.text # None
    BY <1>2, <1>5, RowKinds DEF Register!CompanyRow
  <2>2. Register!NameFree(x, q.text)
    BY <1>1, <2>1, CommittedKeyFree DEF Register!NameFree
  <2>3. Register!MayRename(x, q.text, q.version)
    BY <1>3, <1>5, <2>2 DEF Register!MayRename, NoCompany
  <2>4. [c \in Companies |-> db'[c]] =
          [[c \in Companies |-> db[c]] EXCEPT ![x].name = q.text, ![x].version = q.version + 1]
    BY <1>5, OneCompany
  <2>5. [c \in Companies |-> db[c]][x].version = q.version
    BY <1>5
  <2>6. \E c \in Companies, name \in Names :
          Register!RenameCompany(c, name, [d \in Companies |-> db[d]][c].version)
    BY <1>5, <2>3, <2>4, <2>5, OneCompany DEF Register!RenameCompany, Register!MayRename
  <2>7. QED BY <2>6 DEF Register!RegisterNext, Register!RenameCompany, Register!MayRename
<1>6. CASE /\ db[x].name # None
           /\ Status(q.op) = "INACTIVE" => ScopesOf(x) = {}
           /\ db'[x] = [db[x] EXCEPT !.status = Status(q.op)]
  <2>1. Register!MayChangeCompany(x, Status(q.op))
    BY <1>3, <1>6, ScopesUnfold DEF Register!MayChangeCompany, NoCompany
  <2>2. [c \in Companies |-> db'[c]] =
          [[c \in Companies |-> db[c]] EXCEPT ![x].status = Status(q.op)]
    BY <1>6, OneCompany
  <2>3. Register!ChangeCompany(x, Status(q.op))
    BY <2>1, <2>2, OneCompany DEF Register!ChangeCompany
  <2>4. QED BY <2>3, StatusTyped DEF Register!RegisterNext
<1>7. QED BY <1>1, <1>4, <1>5, <1>6 DEF ChangesRow

LEMMA ScopeCommitted ==
  ASSUME StructureIInv, NEW q, NEW x \in Scopes, ChangesRow(q, x), db'[x] = dirty[x],
         \A y \in Rows : y # x => db'[y] = db[y]
  PROVE  Register!RegisterNext
<1>1. RowsSafe /\ x \in Rows /\ x \notin Companies
  BY Parts, RowKinds
<1>2. db[x] \in Register!ScopeRow
  BY <1>1 DEF RowsSafe, RowsTyped
<1>3. NoScope.company = None
  BY NoRows
<1>4. CASE /\ q.company \in Companies /\ q.text \in Labels /\ db[q.company].status = "ACTIVE"
           /\ db[x] = NoScope /\ db'[x] = Register!NewScope(q.company, q.text)
  <2>1. db'[x].company = q.company /\ db'[x].label = q.text /\ q.company # None
    BY <1>4, RowKinds DEF Register!NewScope
  <2>2. Register!KeyFree(x, q.company, q.text)
    BY <1>1, <2>1, CommittedKeyFree DEF Register!KeyFree
  <2>3. Register!CreateScope(x, q.company, q.text)
    BY <1>4, <2>2, OneScope DEF Register!CreateScope, NoScope
  <2>4. QED BY <1>4, <2>3 DEF Register!RegisterNext
<1>5. CASE /\ q.text \in Labels /\ db[x].company # None /\ db[x].version = q.version
           /\ db'[x] = [db[x] EXCEPT !.label = q.text, !.version = q.version + 1]
  <2>1. db'[x].company = db[x].company /\ db'[x].label = q.text
    BY <1>2, <1>5 DEF Register!ScopeRow
  <2>2. Register!KeyFree(x, db[x].company, q.text)
    <3>1. \A t \in Scopes \ {x} : db[t].company = db'[x].company =>
            Key[db[t].label] # Key[db'[x].label]
      <4>1. db'[x].company # None
        BY <1>5, <2>1
      <4>2. QED BY <1>1, <4>1, CommittedKeyFree
    <3>2. QED BY <2>1, <3>1 DEF Register!KeyFree
  <2>3. Register!MayUpdate(x, q.text, q.version)
    BY <1>3, <1>5, <2>2 DEF Register!MayUpdate, NoScope
  <2>4. [s \in Scopes |-> db'[s]] =
          [[s \in Scopes |-> db[s]] EXCEPT ![x].label = q.text, ![x].version = q.version + 1]
    BY <1>5, OneScope
  <2>5. [s \in Scopes |-> db[s]][x].version = q.version
    BY <1>5
  <2>6. \E s \in Scopes, label \in Labels :
          Register!UpdateScope(s, label, [t \in Scopes |-> db[t]][s].version)
    BY <1>5, <2>3, <2>4, <2>5, OneScope DEF Register!UpdateScope, Register!MayUpdate
  <2>7. QED BY <2>6 DEF Register!RegisterNext, Register!UpdateScope, Register!MayUpdate
<1>6. CASE /\ db[x].company # None
           /\ Status(q.op) = "ACTIVE" => db[db[x].company].status = "ACTIVE"
           /\ db'[x] = [db[x] EXCEPT !.status = Status(q.op)]
  <2>1. db[x].company \in Companies
    BY <1>1, <1>6, SafeRows DEF RowsThere
  <2>2. Register!MayChangeScope(x, Status(q.op))
    BY <1>3, <1>6, <2>1 DEF Register!MayChangeScope, NoScope
  <2>3. [s \in Scopes |-> db'[s]] = [[s \in Scopes |-> db[s]] EXCEPT ![x].status = Status(q.op)]
    BY <1>6, OneScope
  <2>4. Register!ChangeScope(x, Status(q.op))
    BY <2>2, <2>3, OneScope DEF Register!ChangeScope
  <2>5. QED BY <2>4, StatusTyped DEF Register!RegisterNext
<1>7. QED BY <1>1, <1>4, <1>5, <1>6 DEF ChangesRow

\* Only a commit writes committed rows.
LEMMA OnlyCommits ==
  ASSUME [Next]_vars
  PROVE  db' = db \/ \E r \in Requests : Commit(r)
<1>1. ASSUME NEW r \in Requests, BeginCreation(r) \/ BeginEdit(r) \/ BeginChange(r) PROVE db' = db
  BY <1>1 DEF BeginCreation, BeginEdit, BeginChange, Begin, rowVars
<1>2. ASSUME NEW r \in Requests, Fail(r) PROVE db' = db
  BY <1>2 DEF Fail, Abort, RollbackRows
<1>3. ASSUME NEW r \in Requests, Statement(r), ~Commit(r) PROVE db' = db
  BY <1>3 DEF Statement, InsertCompany, ReadScope, LockCompany, InsertScope, ReadCompany, Claim,
              ReadActiveScopes, SetCompany, SetScope, WriteKey, WriteWithEvidence, Update, Abort,
              RollbackRows, Continue, rowVars
<1>4. CASE UNCHANGED vars
  BY <1>4 DEF vars, rowVars
<1>5. QED BY <1>1, <1>2, <1>3, <1>4 DEF Next, Quiescent

LEMMA NextRegister == StructureIInv /\ [Next]_vars => RegisterStep
<1> SUFFICES ASSUME StructureIInv, [Next]_vars PROVE RegisterStep
  OBVIOUS
<1>1. CASE db' = db
  BY <1>1, SameStructure
<1>2. ASSUME NEW r \in Requests, Commit(r) PROVE RegisterStep
  <2> DEFINE x == req[r].evidence.of
  <2>1. /\ \A y \in Rows : y # x => db'[y] = db[y]
        /\ x # None => x \in Rows /\ db'[x] = dirty[x] /\ ChangesRow(req[r], x)
    BY <1>2, CommitRow
  <2>2. CASE x = None
    BY <2>1, <2>2, SameStructure, RowKinds
  <2>3. CASE x \in Companies
    BY <2>1, <2>3, CompanyCommitted, RowKinds DEF RegisterStep
  <2>4. CASE x \in Scopes
    BY <2>1, <2>4, ScopeCommitted, RowKinds DEF RegisterStep
  <2>5. QED BY <2>1, <2>2, <2>3, <2>4, RowKinds
<1>3. QED BY <1>1, <1>2, OnlyCommits

\* Seen from outside there are only whole creations, edits and status changes,
\* each replacing the version its editor saw (organization-admin.service.ts:22,
\* 53, 120, 174, 325, 401).
THEOREM StructureIsRegister == Spec => ImplementsRegister
<1>1. Init => Register!RegisterInit
  BY DEF Init
<1>2. StructureIInv /\ [Next]_vars => [Register!RegisterNext]_(Register!structure)
  BY NextRegister DEF RegisterStep
<1>3. QED BY <1>1, <1>2, StructureInvariant, PTL
      DEF Spec, ImplementsRegister, Register!RegisterSpec

-----------------------------------------------------------------------------
(***************************************************************************)
(* Waiting.                                                                *)
(***************************************************************************)
\* Nothing here reads FOR SHARE.
Unshared == share = [x \in Rows |-> {}]

LEMMA AlwaysUnshared == Spec => []Unshared
<1>1. Init => Unshared
  BY DEF Init, InitRows, Unshared
<1>2. Unshared /\ [Next]_vars => Unshared'
  <2> SUFFICES ASSUME Unshared, [Next]_vars PROVE Unshared'
    OBVIOUS
  <2>1. ASSUME NEW r \in Requests, Release(r) PROVE Unshared'
    BY <2>1 DEF Release, Unshared
  <2>2. ASSUME NEW r \in Requests, Abort(r) PROVE Unshared'
    BY <2>1, <2>2 DEF Abort, RollbackRows
  <2>3. ASSUME share' = share PROVE Unshared'
    BY <2>3 DEF Unshared
  <2>4. ASSUME NEW r \in Requests, BeginCreation(r) \/ BeginEdit(r) \/ BeginChange(r)
        PROVE  Unshared'
    BY <2>3, <2>4 DEF BeginCreation, BeginEdit, BeginChange, Begin, rowVars
  <2>5. ASSUME NEW r \in Requests, Statement(r) PROVE Unshared'
    <3>1. CASE Commit(r)
      BY <2>1, <3>1 DEF Commit, CommitRows
    <3>2. CASE ~Commit(r) /\ ~Abort(r)
      BY <2>3, <2>5, <3>2 DEF Statement, InsertCompany, ReadScope, LockCompany, InsertScope,
         ReadCompany, Claim, ReadActiveScopes, SetCompany, SetScope, WriteKey, WriteWithEvidence,
         Update, Continue, rowVars
    <3>3. QED BY <2>2, <3>1, <3>2
  <2>6. QED BY <2>2, <2>3, <2>4, <2>5 DEF Next, Fail, Quiescent, vars, rowVars
<1>3. QED BY <1>1, <1>2, PTL DEF Spec

\* Whoever is waited for holds a row.
LEMMA BlockersHold ==
  ASSUME StructureIInv, Unshared, NEW r \in Requests, NEW s \in Blockers(r)
  PROVE  \E x \in Rows : lock[x] = s
<1> DEFINE q == req[r]
<1>1. SlotSafe(r, q)
  BY Parts
<1>2. ASSUME NEW x \in Rows, s \in Holders(r, x) PROVE lock[x] = s
  BY <1>2 DEF Holders, Unshared
<1>3. ASSUME NEW x \in Rows, NEW v, s \in WriteBlockers(r, x, v) PROVE \E y \in Rows : lock[y] = s
  <2>1. \A y \in Siblings(x) : y \in Rows
    BY KeysSymmetric
  <2>2. QED BY <1>2, <1>3, <2>1 DEF WriteBlockers, IndexHolders
<1>4. CASE q.pc = "lock"
  <2>1. q.company \in Rows
    BY <1>1, <1>4, RowKinds DEF SlotSafe, RequestTyped
  <2>2. QED BY <1>2, <1>4, <2>1 DEF Blockers
<1>5. CASE q.pc \in {"insert", "claim"}
  <2>1. PICK w \in Intended(q) : s \in WriteBlockers(r, w[1], w[2])
    BY <1>5 DEF Blockers
  <2>2. w[1] \in Rows
    <3>1. CASE q.op = "createCompany"
      BY <2>1, <3>1, RowKinds DEF Intended, Unused
    <3>2. CASE q.op = "createScope"
      BY <2>1, <3>2, RowKinds DEF Intended, Unused
    <3>3. CASE q.op = "renameCompany"
      BY <1>1, <2>1, <3>3, RowKinds DEF Intended, SlotSafe, NamesRows, CompanyOps
    <3>4. CASE q.op = "updateScope"
      BY <1>1, <2>1, <3>4, RowKinds DEF Intended, SlotSafe, NamesRows, ScopeOps
    <3>5. QED BY <1>1, <1>5, <3>1, <3>2, <3>3, <3>4, Stagings DEF SlotSafe
  <2>3. QED BY <1>3, <2>1, <2>2
<1>6. CASE q.pc = "set" /\ ~Unchanged(q)
  <2>1. PICK x : x = IF q.op \in ScopeOps THEN q.scope ELSE q.company
    OBVIOUS
  <2>2. x \in Rows
    BY <1>1, <1>6, <2>1, Stagings, RowKinds DEF SlotSafe, NamesRows, CompanyOps, ScopeOps
  <2>3. s \in Holders(r, x)
    BY <1>6, <2>1 DEF Blockers
  <2>4. QED BY <1>2, <2>2, <2>3
<1>7. q.pc \in {"lock", "insert", "claim"} \/ (q.pc = "set" /\ ~Unchanged(q))
  BY DEF Blockers
<1>8. QED BY <1>4, <1>5, <1>6, <1>7

\* A transaction that holds a row waits for a scope only, and whoever holds a
\* scope goes on to its COMMIT.
LEMMA HoldersGoOn ==
  ASSUME StructureIInv, Unshared, NEW r \in Requests, NEW s \in Requests, s \in Blockers(r),
         NEW held \in Rows, lock[held] = r
  PROVE  Blockers(s) = {}
<1> DEFINE q == req[r]
<1>1. SlotSafe(r, q) /\ SlotSafe(s, req[s])
  BY Parts
<1>2. q.pc = "commit" \/ LocksCompany(q)
  BY <1>1, HeldRows, EvidenceRow, RowKinds
<1>3. q.pc # "commit"
  BY DEF Blockers
<1>4. LocksCompany(q) /\ lock[q.company] = r
  BY <1>1, <1>2, <1>3, CompanyLocked
<1>5. \E y \in Scopes : lock[y] = s
  <2>1. CASE q.pc = "insert"
    <3>1. q.op = "createScope"
      BY <1>1, <1>4, <2>1, Stagings DEF SlotSafe, LocksCompany
    <3>2. PICK w \in Intended(q) : s \in WriteBlockers(r, w[1], w[2])
      BY <2>1 DEF Blockers
    <3>3. w[1] \in Scopes
      BY <3>1, <3>2 DEF Intended, Unused
    <3>4. \A y \in Siblings(w[1]) : y \in Scopes
      BY <3>3, RowKinds DEF Siblings
    <3>5. QED BY <3>2, <3>3, <3>4, RowKinds DEF WriteBlockers, IndexHolders, Holders, Unshared
  <2>2. CASE q.pc = "set" /\ q.op \in ScopeOps
    <3>1. q.scope \in Scopes /\ s \in Holders(r, q.scope)
      BY <1>1, <2>2 DEF Blockers, SlotSafe, NamesRows
    <3>2. QED BY <3>1, RowKinds DEF Holders, Unshared
  <2>3. CASE q.pc = "set" /\ q.op \notin ScopeOps
    <3>1. s \in Holders(r, q.company) /\ q.company \in Rows
      BY <1>1, <1>4, <2>3, CompanyLocked, RowKinds DEF Blockers
    <3>2. QED BY <1>4, <3>1 DEF Holders, Unshared
  <2>4. q.pc \in {"insert", "set"}
    BY <1>4 DEF Blockers, LocksCompany
  <2>5. QED BY <2>1, <2>2, <2>3, <2>4
<1>6. PICK y \in Scopes : lock[y] = s
  BY <1>5
<1>7. req[s].pc = "commit"
  <2>1. y \in Rows /\ (y # req[s].company \/ ~LocksCompany(req[s]))
    BY <1>1, CompanyLocked, RowKinds
  <2>2. y = req[s].evidence.of /\ y # None
    BY <1>1, <1>6, <2>1, HeldRows, RowKinds
  <2>3. QED BY <1>1, <2>2 DEF SlotSafe, WritesOne
<1>8. QED BY <1>7 DEF Blockers

LEMMA Around ==
  ASSUME NEW n \in Nat, n >= 1
  PROVE  /\ 0 \in 0..n-1 /\ n-1 \in 0..n-1 /\ (0 + 1) % n \in 0..n-1 /\ ((n - 1) + 1) % n = 0
OBVIOUS

\* The transactions never wait in a circle, whatever they hold: whoever holds a
\* row waits only for one that waits for nobody (organization-admin.service.ts:75,
\* 183, 416, 452: lockCompany comes first).
THEOREM NobodyWaitsInCircle == Spec => []NoCircleOfWaits
<1>1. StructureIInv /\ Unshared => NoCircleOfWaits
  <2> SUFFICES ASSUME StructureIInv, Unshared, NEW r \in Requests,
                      NEW n \in 1..Cardinality(Requests),
                      NEW c \in [0..n-1 -> Requests], c[0] = r,
                      \A i \in 0..n-1 : c[(i + 1) % n] \in Blockers(c[i])
               PROVE  FALSE
    BY DEF NoCircleOfWaits, OnWaitCycle
  <2>1. n \in Nat /\ n >= 1
    OBVIOUS
  <2>2. /\ 0 \in 0..n-1 /\ n-1 \in 0..n-1 /\ (0 + 1) % n \in 0..n-1 /\ ((n - 1) + 1) % n = 0
    BY <2>1, Around
  <2>3. r \in Blockers(c[n-1]) /\ c[n-1] \in Requests
    BY <2>2
  <2>4. PICK held \in Rows : lock[held] = r
    BY <2>3, BlockersHold
  <2>5. PICK s \in Requests : s = c[(0 + 1) % n]
    BY <2>2
  <2>6. s \in Blockers(r)
    BY <2>2, <2>5
  <2>7. Blockers(s) = {}
    BY <2>4, <2>6, HoldersGoOn
  <2>8. Blockers(s) # {}
    BY <2>2, <2>5
  <2>9. QED BY <2>7, <2>8
<1>2. QED BY <1>1, StructureInvariant, AlwaysUnshared, PTL
=============================================================================
