----------------------------- MODULE PageProofs -----------------------------
(***************************************************************************)
(* Proofs about WebApp, for any structure, lists, forms, answers and       *)
(* changes by others: the companies page's inductive invariant, that it    *)
(* shows its user's own edits and overwrites nobody's unseen; that of the  *)
(* Platform's pages, that a status is changed in the state that was shown  *)
(* and an intervention stays in the Organization chosen; and what the      *)
(* companies page's server, StructureRegister, keeps.                      *)
(***************************************************************************)
EXTENDS WebApp, SequenceTheorems, FiniteSetTheorems, TLAPS

-----------------------------------------------------------------------------
(***************************************************************************)
(* The parts of PageIInv.                                                  *)
(***************************************************************************)
RowsTyped == company \in [Companies -> CompanyRow] /\ scope \in [Scopes -> ScopeRow]

ListOK(l) == \A x \in Items \cap DOMAIN l : Copied(x, l[x])

LoadsTyped ==
  /\ loads \in Seq(LoadStates) /\ loads # <<>>
  /\ \A n \in DOMAIN loads : ListOK(loads[n].companies) /\ ListOK(loads[n].scopes)

ShownOK == DOMAIN shown = Items /\ \A x \in Items : Copied(x, shown[x]) /\ Copied(x, Blank(x))

DialogsOK ==
  /\ editing \subseteq Items /\ DOMAIN forms = Items
  /\ target # None => target.row \in Items
  /\ draft # None => draft.company \in Companies /\ draft.label \in Labels

Posts == [op : Operations \cup {None}, row : Items \cup {None},
          text : Names \cup Labels \cup {None}, version : Nat,
          saw : Names \cup Labels \cup {None}, stage : {"sent", "accepted", "done", "over"}]

PostsOK == posts \in Seq(Posts) /\ \A n \in DOMAIN posts : PostFits(posts[n])

LEMMA PageParts ==
  PageIInv <=> /\ RowsTyped /\ LoadsTyped /\ LoadsFresh /\ ShownOK
               /\ DialogsOK /\ FormsShow /\ PostsOK
BY DEF PageIInv, RowsTyped, LoadsTyped, ListOK, ShownOK, DialogsOK, PostsOK, Posts

LEMMA PagePartsNext ==
  /\ RowsTyped' /\ LoadsTyped' /\ LoadsFresh' /\ ShownOK' /\ DialogsOK' /\ FormsShow' /\ PostsOK'
  => PageIInv'
BY DEF PageIInv, RowsTyped, LoadsTyped, ListOK, ShownOK, DialogsOK, PostsOK, Posts

-----------------------------------------------------------------------------
(***************************************************************************)
(* The constants, and the text of a row.                                   *)
(***************************************************************************)
LEMMA Kinds ==
  ASSUME PageAssumption, RegisterAssumption
  PROVE  /\ None \notin Items /\ None \notin Names \cup Labels
         /\ \A c \in Companies : c \in Items /\ c \notin Scopes
         /\ \A s \in Scopes : s \in Items /\ s \notin Companies
         /\ None \notin Operations
BY DEF PageAssumption, RegisterAssumption, Items

LEMMA CompanyText ==
  ASSUME NEW row \in CompanyRow PROVE Text(row) = row.name
BY DEF CompanyRow, Text

LEMMA ScopeText ==
  ASSUME NEW row \in ScopeRow PROVE Text(row) = row.label
BY DEF ScopeRow, Text

LEMMA RowKinds ==
  ASSUME PageAssumption, RegisterAssumption, RowsTyped, NEW x \in Items
  PROVE  Stored(x) \in RowsOf(x) /\ Stored(x).version \in Nat
BY DEF RowsTyped, Items, Stored, RowsOf, CompanyRow, ScopeRow

LEMMA RowFacts ==
  ASSUME PageAssumption, NEW x \in Items, NEW row \in RowsOf(x)
  PROVE  row.version \in Nat /\ Text(row) \in Names \cup Labels \cup {None}
<1>1. CASE x \in Companies
  BY <1>1, CompanyText DEF RowsOf, CompanyRow
<1>2. CASE x \notin Companies
  BY <1>2, ScopeText DEF RowsOf, ScopeRow
<1> QED
  BY <1>1, <1>2

LEMMA BlankCopied ==
  ASSUME PageAssumption, RegisterAssumption, NEW x \in Items
  PROVE  Blank(x) \in RowsOf(x) /\ Blank(x).version = 0 /\ Text(Blank(x)) = None
<1>1. CASE x \in Companies
  <2>1. NoCompany \in CompanyRow
    BY DEF NoCompany, CompanyRow, LifeStatuses
  <2> QED
    BY <1>1, <2>1, CompanyText DEF Blank, RowsOf, NoCompany
<1>2. CASE x \notin Companies
  <2>1. NoScope \in ScopeRow
    BY DEF NoScope, ScopeRow, LifeStatuses
  <2> QED
    BY <1>2, <2>1, ScopeText DEF Blank, RowsOf, NoScope
<1> QED
  BY <1>1, <1>2

-----------------------------------------------------------------------------
(***************************************************************************)
(* What the server does to its rows: no version goes back, and the text    *)
(* stays as long as the version does.                                      *)
(***************************************************************************)
MovesOn ==
  \A x \in Items :
    /\ Stored(x).version \in Nat /\ Stored(x)'.version \in Nat
    /\ Stored(x)'.version >= Stored(x).version
    /\ Stored(x)'.version = Stored(x).version => Text(Stored(x)') = Text(Stored(x))

LEMMA CompanyWritten ==
  ASSUME PageAssumption, RegisterAssumption, RowsTyped, NEW c \in Companies,
         company' \in [Companies -> CompanyRow], UNCHANGED scope,
         \A other \in Companies \ {c} : company'[other] = company[other],
         company'[c].version >= company[c].version,
         company'[c].version = company[c].version => company'[c].name = company[c].name
  PROVE  RowsTyped' /\ MovesOn
<1>1. RowsTyped'
  BY DEF RowsTyped
<1>2. ASSUME NEW x \in Items
      PROVE  /\ Stored(x).version \in Nat /\ Stored(x)'.version \in Nat
             /\ Stored(x)'.version >= Stored(x).version
             /\ Stored(x)'.version = Stored(x).version => Text(Stored(x)') = Text(Stored(x))
  <2>1. Stored(x).version \in Nat /\ Stored(x)'.version \in Nat
    BY <1>1, RowKinds DEF RowsTyped, Stored, CompanyRow, ScopeRow, Items
  <2>2. CASE x = c
    <3>1. /\ Stored(x) = company[c] /\ company[c] \in CompanyRow
          /\ Stored(x)' = company'[c] /\ company'[c] \in CompanyRow
      BY <2>2 DEF Stored, RowsTyped
    <3>2. Text(Stored(x)) = company[c].name /\ Text(Stored(x)') = company'[c].name
      BY <3>1, CompanyText
    <3> QED
      BY <2>1, <3>1, <3>2
  <2>3. CASE x # c
    <3>1. Stored(x)' = Stored(x)
      BY <2>3 DEF Stored, RowsTyped, Items
    <3> QED
      BY <2>1, <3>1
  <2> QED
    BY <2>2, <2>3
<1> QED
  BY <1>1, <1>2 DEF MovesOn

LEMMA ScopeWritten ==
  ASSUME PageAssumption, RegisterAssumption, RowsTyped, NEW s \in Scopes,
         scope' \in [Scopes -> ScopeRow], UNCHANGED company,
         \A other \in Scopes \ {s} : scope'[other] = scope[other],
         scope'[s].version >= scope[s].version,
         scope'[s].version = scope[s].version => scope'[s].label = scope[s].label
  PROVE  RowsTyped' /\ MovesOn
<1>1. RowsTyped'
  BY DEF RowsTyped
<1>2. ASSUME NEW x \in Items
      PROVE  /\ Stored(x).version \in Nat /\ Stored(x)'.version \in Nat
             /\ Stored(x)'.version >= Stored(x).version
             /\ Stored(x)'.version = Stored(x).version => Text(Stored(x)') = Text(Stored(x))
  <2>1. Stored(x).version \in Nat /\ Stored(x)'.version \in Nat
    BY <1>1, RowKinds DEF RowsTyped, Stored, CompanyRow, ScopeRow, Items
  <2>2. CASE x = s
    <3>1. /\ Stored(x) = scope[s] /\ scope[s] \in ScopeRow
          /\ Stored(x)' = scope'[s] /\ scope'[s] \in ScopeRow
      BY <2>2, Kinds DEF Stored, RowsTyped
    <3>2. Text(Stored(x)) = scope[s].label /\ Text(Stored(x)') = scope'[s].label
      BY <3>1, ScopeText
    <3> QED
      BY <2>1, <3>1, <3>2
  <2>3. CASE x # s
    <3>1. Stored(x)' = Stored(x)
      BY <2>3 DEF Stored, RowsTyped, Items
    <3> QED
      BY <2>1, <3>1
  <2> QED
    BY <2>2, <2>3
<1> QED
  BY <1>1, <1>2 DEF MovesOn

LEMMA StructureKept ==
  ASSUME PageAssumption, RegisterAssumption, RowsTyped, UNCHANGED structure
  PROVE  RowsTyped' /\ MovesOn
<1>1. ASSUME NEW x \in Items PROVE Stored(x)' = Stored(x) /\ Stored(x).version \in Nat
  BY RowKinds DEF structure, Stored
<1> QED
  BY <1>1 DEF RowsTyped, structure, MovesOn

LEMMA CompanyChanged ==
  ASSUME NEW row \in CompanyRow, NEW status \in LifeStatuses
  PROVE  /\ [row EXCEPT !.status = status] \in CompanyRow
         /\ [row EXCEPT !.status = status].version = row.version
         /\ [row EXCEPT !.status = status].name = row.name
BY DEF CompanyRow

LEMMA ScopeChanged ==
  ASSUME NEW row \in ScopeRow, NEW status \in LifeStatuses
  PROVE  /\ [row EXCEPT !.status = status] \in ScopeRow
         /\ [row EXCEPT !.status = status].version = row.version
         /\ [row EXCEPT !.status = status].label = row.label
BY DEF ScopeRow

LEMMA CreateCompanyMoves ==
  ASSUME PageAssumption, RegisterAssumption, RowsTyped, NEW c \in Companies, NEW name \in Names,
         CreateCompany(c, name)
  PROVE  RowsTyped' /\ MovesOn
<1>1. NewCompany(name) \in CompanyRow /\ NewCompany(name).version = 1
  BY DEF NewCompany, CompanyRow, LifeStatuses
<1>2. company[c].version = 0
  BY DEF CreateCompany, NoCompany
<1>3. company' = [company EXCEPT ![c] = NewCompany(name)] /\ UNCHANGED scope
  BY DEF CreateCompany
<1>5. /\ company' \in [Companies -> CompanyRow] /\ company'[c] = NewCompany(name)
      /\ \A other \in Companies \ {c} : company'[other] = company[other]
  BY <1>1, <1>2, <1>3 DEF RowsTyped
<1> QED
  BY <1>1, <1>2, <1>3, <1>5, CompanyWritten

LEMMA RenameCompanyMoves ==
  ASSUME PageAssumption, RegisterAssumption, RowsTyped, NEW c \in Companies, NEW name \in Names,
         NEW expected \in Nat, RenameCompany(c, name, expected)
  PROVE  RowsTyped' /\ MovesOn
<1>1. company[c] \in CompanyRow /\ company[c].version = expected
  BY DEF RenameCompany, MayRename, RowsTyped
<1>2. PICK next \in Nat : next = expected + 1
  OBVIOUS
<1>3. PICK row : row = [company[c] EXCEPT !.name = name, !.version = next]
  OBVIOUS
<1>4. row \in CompanyRow /\ row.version = next
  BY <1>1, <1>3 DEF CompanyRow
<1>5. company' = [company EXCEPT ![c] = row] /\ UNCHANGED scope
  BY <1>2, <1>3 DEF RenameCompany, RowsTyped
<1>6. /\ company' \in [Companies -> CompanyRow] /\ company'[c] = row
      /\ \A other \in Companies \ {c} : company'[other] = company[other]
  BY <1>4, <1>5 DEF RowsTyped
<1> QED
  BY <1>1, <1>2, <1>4, <1>5, <1>6, CompanyWritten

LEMMA ChangeCompanyMoves ==
  ASSUME PageAssumption, RegisterAssumption, RowsTyped, NEW c \in Companies,
         NEW status \in LifeStatuses, ChangeCompany(c, status)
  PROVE  RowsTyped' /\ MovesOn
<1> DEFINE row == [company[c] EXCEPT !.status = status]
<1>1. company[c] \in CompanyRow
  BY DEF RowsTyped
<1>2. /\ row \in CompanyRow /\ row.version = company[c].version /\ row.name = company[c].name
      /\ company[c].version \in Nat
  BY <1>1, CompanyChanged DEF CompanyRow
<1>3. company' = [company EXCEPT ![c] = row]
  BY DEF ChangeCompany
<1>4. UNCHANGED scope
  BY DEF ChangeCompany
<1> HIDE DEF row
<1>5. /\ company' \in [Companies -> CompanyRow] /\ company'[c] = row
      /\ \A other \in Companies \ {c} : company'[other] = company[other]
  BY <1>1, <1>2, <1>3 DEF RowsTyped
<1> QED
  BY <1>1, <1>2, <1>3, <1>4, <1>5, CompanyWritten

LEMMA CreateScopeMoves ==
  ASSUME PageAssumption, RegisterAssumption, RowsTyped, NEW s \in Scopes, NEW c \in Companies,
         NEW label \in Labels, CreateScope(s, c, label)
  PROVE  RowsTyped' /\ MovesOn
<1>1. NewScope(c, label) \in ScopeRow /\ NewScope(c, label).version = 1
  BY DEF NewScope, ScopeRow, LifeStatuses
<1>2. scope[s].version = 0
  BY DEF CreateScope, NoScope
<1>3. scope' = [scope EXCEPT ![s] = NewScope(c, label)] /\ UNCHANGED company
  BY DEF CreateScope
<1>5. /\ scope' \in [Scopes -> ScopeRow] /\ scope'[s] = NewScope(c, label)
      /\ \A other \in Scopes \ {s} : scope'[other] = scope[other]
  BY <1>1, <1>2, <1>3 DEF RowsTyped
<1> QED
  BY <1>1, <1>2, <1>3, <1>5, ScopeWritten

LEMMA UpdateScopeMoves ==
  ASSUME PageAssumption, RegisterAssumption, RowsTyped, NEW s \in Scopes, NEW label \in Labels,
         NEW expected \in Nat, UpdateScope(s, label, expected)
  PROVE  RowsTyped' /\ MovesOn
<1>1. scope[s] \in ScopeRow /\ scope[s].version = expected
  BY DEF UpdateScope, MayUpdate, RowsTyped
<1>2. PICK next \in Nat : next = expected + 1
  OBVIOUS
<1>3. PICK row : row = [scope[s] EXCEPT !.label = label, !.version = next]
  OBVIOUS
<1>4. row \in ScopeRow /\ row.version = next
  BY <1>1, <1>3 DEF ScopeRow
<1>5. scope' = [scope EXCEPT ![s] = row] /\ UNCHANGED company
  BY <1>2, <1>3 DEF UpdateScope, RowsTyped
<1>6. /\ scope' \in [Scopes -> ScopeRow] /\ scope'[s] = row
      /\ \A other \in Scopes \ {s} : scope'[other] = scope[other]
  BY <1>4, <1>5 DEF RowsTyped
<1> QED
  BY <1>1, <1>2, <1>4, <1>5, <1>6, ScopeWritten

LEMMA ChangeScopeMoves ==
  ASSUME PageAssumption, RegisterAssumption, RowsTyped, NEW s \in Scopes,
         NEW status \in LifeStatuses, ChangeScope(s, status)
  PROVE  RowsTyped' /\ MovesOn
<1> DEFINE row == [scope[s] EXCEPT !.status = status]
<1>1. scope[s] \in ScopeRow
  BY DEF RowsTyped
<1>2. /\ row \in ScopeRow /\ row.version = scope[s].version /\ row.label = scope[s].label
      /\ scope[s].version \in Nat
  BY <1>1, ScopeChanged DEF ScopeRow
<1>3. scope' = [scope EXCEPT ![s] = row]
  BY DEF ChangeScope
<1>4. UNCHANGED company
  BY DEF ChangeScope
<1> HIDE DEF row
<1>5. /\ scope' \in [Scopes -> ScopeRow] /\ scope'[s] = row
      /\ \A other \in Scopes \ {s} : scope'[other] = scope[other]
  BY <1>1, <1>2, <1>3 DEF RowsTyped
<1> QED
  BY <1>1, <1>2, <1>3, <1>4, <1>5, ScopeWritten

LEMMA OthersMove ==
  ASSUME PageAssumption, RegisterAssumption, RowsTyped, RegisterNext
  PROVE  RowsTyped' /\ MovesOn
<1>1. ASSUME NEW c \in Companies, NEW name \in Names,
             CreateCompany(c, name) \/ RenameCompany(c, name, company[c].version)
      PROVE  RowsTyped' /\ MovesOn
  <2>1. company[c].version \in Nat
    BY DEF RowsTyped, CompanyRow
  <2> QED
    BY <1>1, <2>1, CreateCompanyMoves, RenameCompanyMoves
<1>2. ASSUME NEW c \in Companies, NEW status \in LifeStatuses, ChangeCompany(c, status)
      PROVE  RowsTyped' /\ MovesOn
  BY <1>2, ChangeCompanyMoves
<1>3. ASSUME NEW s \in Scopes, NEW label \in Labels,
             \/ UpdateScope(s, label, scope[s].version)
             \/ \E c \in Companies : CreateScope(s, c, label)
      PROVE  RowsTyped' /\ MovesOn
  <2>1. scope[s].version \in Nat
    BY DEF RowsTyped, ScopeRow
  <2> QED
    BY <1>3, <2>1, CreateScopeMoves, UpdateScopeMoves
<1>4. ASSUME NEW s \in Scopes, NEW status \in LifeStatuses, ChangeScope(s, status)
      PROVE  RowsTyped' /\ MovesOn
  BY <1>4, ChangeScopeMoves
<1> QED
  BY <1>1, <1>2, <1>3, <1>4 DEF RegisterNext

\* A post that the server accepts; of an edit, that it replaces the version it names.
LEMMA PostMoves ==
  ASSUME PageAssumption, RegisterAssumption, RowsTyped, NEW p \in Posts, PostFits(p),
         p.stage = "sent", Perform(p)
  PROVE  RowsTyped' /\ MovesOn
<1> DEFINE status == IF p.op = "deactivate" THEN "INACTIVE" ELSE "ACTIVE"
<1>0. status \in LifeStatuses /\ p.version \in Nat /\ p.op # None
  BY Kinds DEF LifeStatuses, Posts, PostFits, Operations
<1>1. CASE p.op = "create"
  <2>1. PICK c \in Companies : CreateCompany(c, p.text)
    BY <1>1 DEF Perform
  <2>2. p.text \in Names
    BY <1>1 DEF PostFits
  <2> QED
    BY <2>1, <2>2, CreateCompanyMoves
<1>2. CASE p.op = "edit" /\ p.row \in Companies
  <2>1. RenameCompany(p.row, p.text, p.version)
    BY <1>2 DEF Perform
  <2>2. p.text \in Names
    BY <1>2 DEF PostFits
  <2> QED
    BY <1>0, <1>2, <2>1, <2>2, RenameCompanyMoves
<1>3. CASE p.op = "edit" /\ p.row \notin Companies
  <2>1. UpdateScope(p.row, p.text, p.version)
    BY <1>3 DEF Perform
  <2>2. p.text \in Labels /\ p.row \in Scopes
    BY <1>3 DEF PostFits, Items
  <2> QED
    BY <1>0, <1>3, <2>1, <2>2, UpdateScopeMoves
<1>4. CASE p.op = "review"
  <2>1. UNCHANGED structure
    BY <1>4 DEF Perform
  <2> QED
    BY <2>1, StructureKept
<1>5. CASE p.op = "createScope"
  <2>1. PICK s \in Scopes : CreateScope(s, p.row, p.text)
    BY <1>5 DEF Perform
  <2>2. p.row \in Companies /\ p.text \in Labels
    BY <1>5 DEF PostFits
  <2> QED
    BY <2>1, <2>2, CreateScopeMoves
<1>6. CASE p.op \in {"deactivate", "reactivate"} /\ p.row \in Companies
  <2>1. ChangeCompany(p.row, status)
    BY <1>6 DEF Perform
  <2> QED
    BY <1>0, <1>6, <2>1, ChangeCompanyMoves
<1>7. CASE p.op \in {"deactivate", "reactivate"} /\ p.row \notin Companies
  <2>1. ChangeScope(p.row, status)
    BY <1>7 DEF Perform
  <2>2. p.row \in Scopes
    BY <1>7 DEF PostFits, Items
  <2> QED
    BY <1>0, <2>1, <2>2, ChangeScopeMoves
<1> QED
  BY <1>0, <1>1, <1>2, <1>3, <1>4, <1>5, <1>6, <1>7 DEF Posts, Operations

-----------------------------------------------------------------------------
(***************************************************************************)
(* What survives a step of the server: copies, lists, requests.            *)
(***************************************************************************)
LEMMA CopyKept ==
  ASSUME MovesOn, NEW x \in Items, NEW version, NEW text, Copy(x, version, text)
  PROVE  Copy(x, version, text)'
<1>1. /\ Stored(x).version \in Nat /\ Stored(x)'.version \in Nat
      /\ Stored(x)'.version >= Stored(x).version
      /\ Stored(x)'.version = Stored(x).version => Text(Stored(x)') = Text(Stored(x))
  BY DEF MovesOn
<1>2. version \in 0..Stored(x).version /\ (version = Stored(x).version => text = Text(Stored(x)))
  BY DEF Copy
<1>3. version \in 0..Stored(x)'.version
  BY <1>1, <1>2
<1>4. version = Stored(x)'.version => text = Text(Stored(x)')
  BY <1>1, <1>2
<1> QED
  BY <1>3, <1>4 DEF Copy

LEMMA ListKept ==
  ASSUME MovesOn, NEW l, ListOK(l)
  PROVE  ListOK(l)'
BY CopyKept DEF ListOK, Copied

LEMMA LoadsKept ==
  ASSUME MovesOn, LoadsTyped, UNCHANGED loads
  PROVE  LoadsTyped'
BY ListKept DEF LoadsTyped

LEMMA BlankKept ==
  ASSUME MovesOn, ShownOK, NEW x \in Items
  PROVE  Copied(x, Blank(x))'
<1>1. Copied(x, Blank(x))
  BY DEF ShownOK
<1>2. PICK row : row = Blank(x)
  OBVIOUS
<1>3. Copied(x, row)'
  BY <1>1, <1>2, CopyKept DEF Copied
<1>4. row = Blank(x)'
  BY <1>2 DEF Blank
<1> QED
  BY <1>3, <1>4

LEMMA ShownKept ==
  ASSUME MovesOn, ShownOK, UNCHANGED shown
  PROVE  ShownOK'
<1>1. ASSUME NEW x \in Items PROVE Copied(x, shown[x])'
  <2>1. Copied(x, shown[x])
    BY DEF ShownOK
  <2> QED
    BY <2>1, CopyKept DEF Copied
<1> QED
  BY <1>1, BlankKept DEF ShownOK

LEMMA FitKept ==
  ASSUME MovesOn, NEW p \in Posts, PostFits(p)
  PROVE  PostFits(p)'
<1>1. CASE p.op = "edit"
  <2>1. p.row \in Items
    BY <1>1 DEF PostFits
  <2>2. /\ p.stage = "sent" => /\ p.text \in (IF p.row \in Companies THEN Names ELSE Labels)
                               /\ Copy(p.row, p.version, p.saw)
        /\ p.stage # "sent" => p.version \in 0..Stored(p.row).version - 1
    BY <1>1 DEF PostFits
  <2>3. p.stage = "sent" => Copy(p.row, p.version, p.saw)'
    BY <2>1, <2>2, CopyKept
  <2>4. p.stage # "sent" => p.version \in 0..Stored(p.row)'.version - 1
    BY <2>1, <2>2 DEF MovesOn
  <2> QED
    BY <1>1, <2>1, <2>2, <2>3, <2>4 DEF PostFits
<1>2. CASE p.op # "edit"
  BY <1>2 DEF PostFits
<1> QED
  BY <1>1, <1>2

LEMMA PostsKept ==
  ASSUME MovesOn, PostsOK, UNCHANGED posts
  PROVE  PostsOK'
<1>1. ASSUME NEW n \in DOMAIN posts PROVE PostFits(posts[n])'
  <2>1. posts[n] \in Posts /\ PostFits(posts[n]) /\ posts'[n] = posts[n]
    BY DEF PostsOK
  <2>2. PICK p \in Posts : p = posts[n]
    BY <2>1
  <2>3. PostFits(p)'
    BY <2>1, <2>2, FitKept
  <2> QED
    BY <2>1, <2>2, <2>3
<1> QED
  BY <1>1 DEF PostsOK, Posts

\* A new request.
LEMMA PostAdded ==
  ASSUME MovesOn, PostsOK, NEW p \in Posts, PostFits(p)', posts' = Append(posts, p)
  PROVE  /\ PostsOK'
         /\ \A n \in DOMAIN posts' : posts'[n] = p \/ (n \in DOMAIN posts /\ posts'[n] = posts[n])
<1>1. posts \in Seq(Posts) /\ posts' \in Seq(Posts)
  BY AppendProperties DEF PostsOK, Posts
<1>2. \A n \in DOMAIN posts' : posts'[n] = p \/ (n \in DOMAIN posts /\ posts'[n] = posts[n])
  BY <1>1, AppendProperties
<1>3. ASSUME NEW n \in DOMAIN posts' PROVE PostFits(posts[n])'
  <2>1. CASE posts'[n] = p
    BY <2>1
  <2>2. CASE n \in DOMAIN posts /\ posts'[n] = posts[n]
    <3>1. posts[n] \in Posts /\ PostFits(posts[n])
      BY <2>2 DEF PostsOK
    <3>2. PICK old \in Posts : old = posts[n]
      BY <3>1
    <3>3. PostFits(old)'
      BY <3>1, <3>2, FitKept
    <3> QED
      BY <2>2, <3>2, <3>3
  <2> QED
    BY <1>2, <2>1, <2>2
<1> QED
  BY <1>1, <1>2, <1>3 DEF PostsOK, Posts

\* One request changes.
LEMMA PostReplaced ==
  ASSUME MovesOn, PostsOK, NEW n \in DOMAIN posts, NEW p \in Posts, PostFits(p)',
         posts' = [posts EXCEPT ![n] = p]
  PROVE  /\ PostsOK' /\ DOMAIN posts' = DOMAIN posts /\ posts'[n] = p
         /\ \A m \in DOMAIN posts : m # n => posts'[m] = posts[m]
<1>1. posts \in Seq(Posts)
  BY DEF PostsOK
<1>2. /\ posts' \in Seq(Posts) /\ DOMAIN posts' = DOMAIN posts /\ posts'[n] = p
      /\ \A m \in DOMAIN posts : m # n => posts'[m] = posts[m]
  BY <1>1, ExceptSeq DEF Posts
<1>3. ASSUME NEW m \in DOMAIN posts' PROVE PostFits(posts[m])'
  <2>1. CASE m = n
    BY <1>2, <2>1
  <2>2. CASE m # n
    <3>1. posts[m] \in Posts /\ PostFits(posts[m]) /\ posts'[m] = posts[m]
      BY <1>2, <2>2 DEF PostsOK
    <3>2. PICK old \in Posts : old = posts[m]
      BY <3>1
    <3>3. PostFits(old)'
      BY <3>1, <3>2, FitKept
    <3> QED
      BY <3>1, <3>2, <3>3
  <2> QED
    BY <2>1, <2>2
<1> QED
  BY <1>2, <1>3 DEF PostsOK, Posts

\* What is left of a request that is over.
LEMMA SpentFits ==
  ASSUME PageAssumption, RegisterAssumption, NEW p \in Posts, PostFits(p),
         NEW stage \in {"done", "over"}, stage = "done" => p.stage = "accepted"
  PROVE  /\ Spent(p, stage) \in Posts /\ PostFits(Spent(p, stage)) /\ Spent(p, stage).stage = stage
         /\ Spent(p, stage).op = "edit" => stage = "done" /\ p.op = "edit"
<1>1. CASE stage = "done" /\ p.op = "edit"
  <2>1. PICK q : q = Post("edit", p.row, None, p.version, None)
    OBVIOUS
  <2>2. PICK s : s = [q EXCEPT !.stage = stage]
    OBVIOUS
  <2>3. p.row \in Items /\ p.version \in 0..Stored(p.row).version - 1
    BY <1>1 DEF PostFits
  <2>4. s \in Posts /\ s.stage = "done" /\ s.op = "edit" /\ s.row = p.row /\ s.version = p.version
    BY <1>1, <2>1, <2>2, <2>3 DEF Post, Posts, Operations
  <2>5. PostFits(s)
    BY <2>3, <2>4 DEF PostFits
  <2> QED
    BY <1>1, <2>1, <2>2, <2>4, <2>5 DEF Spent
<1>2. CASE ~(stage = "done" /\ p.op = "edit")
  <2>1. PICK q : q = Post(None, None, None, 0, None)
    OBVIOUS
  <2>2. PICK s : s = [q EXCEPT !.stage = stage]
    OBVIOUS
  <2>3. s \in Posts /\ s.stage = stage /\ s.op = None
    BY <2>1, <2>2 DEF Post, Posts, Operations
  <2>4. PostFits(s)
    BY <2>3, Kinds DEF PostFits, Operations
  <2> QED
    BY <1>2, <2>1, <2>2, <2>3, <2>4, Kinds DEF Spent, Operations
<1> QED
  BY <1>1, <1>2

\* The requests afterwards: none that was under way before is a new edit that is done.
NoNewEdits ==
  \A n \in DOMAIN posts' :
    posts'[n].op = "edit" /\ posts'[n].stage = "done" => n \in DOMAIN posts /\ posts'[n] = posts[n]

LEMMA OwnEditsKept ==
  ASSUME NoNewEdits, NEW l, HasOwnEdits(l)
  PROVE  HasOwnEdits(l)'
BY DEF NoNewEdits, HasOwnEdits

LEMMA FreshKept ==
  ASSUME NoNewEdits, LoadsFresh, UNCHANGED <<loads, loading, shown>>
  PROVE  LoadsFresh'
<1> DEFINE load == loads[Newest]
           cs == [c \in Companies |-> shown[c]]
           ss == [s \in Scopes |-> shown[s]]
<1>1. /\ HasOwnEdits(load.companies) => HasOwnEdits(load.companies)'
      /\ HasOwnEdits(load.scopes) => HasOwnEdits(load.scopes)'
      /\ HasOwnEdits(cs) => HasOwnEdits(cs)'
      /\ HasOwnEdits(ss) => HasOwnEdits(ss)'
  <2>1. ASSUME NEW l, HasOwnEdits(l) PROVE HasOwnEdits(l)'
    BY <2>1, OwnEditsKept
  <2>2. PICK a, b, c, d : a = load.companies /\ b = load.scopes /\ c = cs /\ d = ss
    OBVIOUS
  <2>3. a = load.companies' /\ b = load.scopes' /\ c = cs' /\ d = ss'
    BY <2>2 DEF Newest
  <2> QED
    BY <2>1, <2>2, <2>3
<1> QED
  BY <1>1 DEF LoadsFresh, Newest

LEMMA FormsKept ==
  ASSUME FormsShow, UNCHANGED <<loading, shown, editing, forms>>
  PROVE  FormsShow'
BY DEF FormsShow, Listed

-----------------------------------------------------------------------------
(***************************************************************************)
(* The lists.                                                              *)
(***************************************************************************)
\* An answer that has not come, or is an error, lists no row.
LEMMA NoRows ==
  ASSUME PageAssumption, RegisterAssumption
  PROVE  /\ Items \cap DOMAIN Sent = {} /\ Items \cap DOMAIN Refused = {}
         /\ ListOK(Sent) /\ ListOK(Refused)
         /\ \A f \in [Companies -> CompanyRow] \cup [Scopes -> ScopeRow] : f # Sent
         /\ Refused # Sent
<1>1. DOMAIN Sent = {None} /\ DOMAIN Refused = {}
  BY DEF Sent, Refused
<1>2. \A f \in [Companies -> CompanyRow] \cup [Scopes -> ScopeRow] : f # Sent
  BY <1>1, Kinds
<1> QED
  BY <1>1, <1>2, Kinds DEF ListOK

LEMMA NoRowsNext ==
  ASSUME PageAssumption, RegisterAssumption
  PROVE  (ListOK(Sent) /\ ListOK(Refused))'
<1>1. DOMAIN Sent = {None} /\ DOMAIN Refused = {}
  BY DEF Sent, Refused
<1> QED
  BY <1>1, Kinds DEF ListOK

LEMMA WithOK ==
  ASSUME ShownOK, NEW l, ListOK(l)
  PROVE  /\ DOMAIN With(l) = Items
         /\ \A x \in Items : Copied(x, With(l)[x])
         /\ \A x \in Items : With(l)[x] = IF x \in DOMAIN l THEN l[x] ELSE shown[x]
BY DEF ShownOK, ListOK, With

LEMMA LoadFields ==
  ASSUME NEW load \in LoadStates, NEW stage \in {"sent", "reading", "complete", "over"}
  PROVE  /\ [load EXCEPT !.stage = stage] \in LoadStates
         /\ [load EXCEPT !.stage = stage].stage = stage
         /\ [load EXCEPT !.stage = stage].companies = load.companies
         /\ [load EXCEPT !.stage = stage].scopes = load.scopes
BY DEF LoadStates

LEMMA NewLoads ==
  /\ NewLoad \in LoadStates /\ Gone \in LoadStates /\ Complete \in LoadStates
  /\ \A load \in {NewLoad, Gone, Complete} : load.companies = Sent /\ load.scopes = Sent
  /\ NewLoad.stage = "sent" /\ Gone.stage = "over" /\ Complete.stage = "complete"
BY DEF NewLoad, Gone, Complete, Load, LoadStates

LEMMA NewestLoad ==
  ASSUME LoadsTyped
  PROVE  /\ Newest \in DOMAIN loads /\ Newest \in Nat /\ DOMAIN loads = 1..Newest
         /\ \A n \in DOMAIN loads : loads[n] \in LoadStates
BY DEF LoadsTyped, Newest

\* One run of refresh changes.
LEMMA LoadReplaced ==
  ASSUME LoadsTyped, MovesOn, NEW n \in DOMAIN loads, NEW load \in LoadStates,
         (ListOK(load.companies) /\ ListOK(load.scopes))',
         loads' = [loads EXCEPT ![n] = load]
  PROVE  /\ LoadsTyped' /\ Newest' = Newest /\ DOMAIN loads' = DOMAIN loads /\ loads'[n] = load
         /\ \A m \in DOMAIN loads : m # n => loads'[m] = loads[m]
<1>1. loads \in Seq(LoadStates) /\ loads # <<>>
  BY DEF LoadsTyped
<1>2. /\ loads' \in Seq(LoadStates) /\ loads' # <<>> /\ Len(loads') = Len(loads)
      /\ DOMAIN loads' = DOMAIN loads /\ loads'[n] = load
      /\ \A m \in DOMAIN loads : m # n => loads'[m] = loads[m]
  BY <1>1, ExceptSeq
<1>3. ASSUME NEW m \in DOMAIN loads'
      PROVE  (ListOK(loads[m].companies) /\ ListOK(loads[m].scopes))'
  <2>1. CASE m = n
    BY <1>2, <2>1
  <2>2. CASE m # n
    <3>1. ListOK(loads[m].companies) /\ ListOK(loads[m].scopes) /\ loads'[m] = loads[m]
      BY <1>2, <2>2 DEF LoadsTyped
    <3>2. PICK a, b : a = loads[m].companies /\ b = loads[m].scopes
      OBVIOUS
    <3>3. (ListOK(a) /\ ListOK(b))'
      BY <3>1, <3>2, ListKept
    <3> QED
      BY <3>1, <3>2, <3>3
  <2> QED
    BY <2>1, <2>2
<1> QED
  BY <1>2, <1>3 DEF LoadsTyped, Newest

\* A new run, the one before aborted.
LEMMA RefreshStep ==
  ASSUME PageAssumption, RegisterAssumption, MovesOn, LoadsTyped, LoadsFresh, ShownOK,
         PostsOK', Refresh
  PROVE  LoadsTyped' /\ LoadsFresh' /\ ShownOK' /\ FormsShow' /\ DOMAIN forms' = Items
<1> DEFINE aborted == [loads EXCEPT ![Newest] = Gone]
<1>1. /\ loads' = Append(aborted, NewLoad)
      /\ shown' \in {shown} \cup {With(l) : l \in Arrived(loads[Newest])}
      /\ loading' = TRUE /\ forms' = [x \in Items |-> None]
  BY DEF Refresh, NewRun
<1>2. loads \in Seq(LoadStates) /\ Newest \in DOMAIN loads /\ Newest = Len(loads) /\ Newest \in Nat
  BY NewestLoad DEF LoadsTyped, Newest
<1>3. /\ aborted \in Seq(LoadStates) /\ Len(aborted) = Newest
      /\ aborted[Newest] = Gone /\ \A n \in DOMAIN loads : n # Newest => aborted[n] = loads[n]
  BY <1>2, NewLoads, ExceptSeq
<1> HIDE DEF aborted
<1>4. /\ loads' \in Seq(LoadStates) /\ loads' # <<>> /\ Len(loads') = Newest + 1
      /\ loads'[Newest + 1] = NewLoad /\ \A n \in 1..Newest : loads'[n] = aborted[n]
  BY <1>1, <1>2, <1>3, NewLoads, AppendProperties
<1>5. \A n \in DOMAIN loads' :
        loads'[n] \in {NewLoad, Gone} \/ (n \in DOMAIN loads /\ n # Newest /\ loads'[n] = loads[n])
  BY <1>2, <1>3, <1>4
<1>6. ASSUME NEW n \in DOMAIN loads'
      PROVE  (ListOK(loads[n].companies) /\ ListOK(loads[n].scopes))'
  <2>1. CASE loads'[n] \in {NewLoad, Gone}
    <3>1. loads'[n].companies = Sent /\ loads'[n].scopes = Sent
      BY <2>1, NewLoads
    <3> QED
      BY <3>1, NoRowsNext DEF Sent
  <2>2. CASE n \in DOMAIN loads /\ loads'[n] = loads[n]
    <3>1. ListOK(loads[n].companies) /\ ListOK(loads[n].scopes)
      BY <2>2 DEF LoadsTyped
    <3>2. PICK a, b : a = loads[n].companies /\ b = loads[n].scopes
      OBVIOUS
    <3>3. (ListOK(a) /\ ListOK(b))'
      BY <3>1, <3>2, ListKept
    <3> QED
      BY <2>2, <3>2, <3>3
  <2> QED
    BY <1>5, <2>1, <2>2
<1>7. LoadsTyped'
  BY <1>4, <1>6 DEF LoadsTyped
<1>8. LoadsFresh'
  <2>1. Newest' = Newest + 1 /\ loads'[Newest'].stage = "sent" /\ loads'[Newest'].companies = Sent
        /\ loads'[Newest'].scopes = Sent
    BY <1>4, NewLoads DEF Newest
  <2>2. ASSUME NEW n \in DOMAIN loads', loads'[n].stage \in {"sent", "reading"}
        PROVE  n = Newest'
    <3>1. CASE n = Newest + 1
      BY <2>1, <3>1
    <3>2. CASE n # Newest + 1
      <4>1. n \in 1..Newest /\ loads'[n] = aborted[n]
        BY <1>2, <1>4, <3>2
      <4>2. CASE n = Newest
        BY <1>3, <2>2, <4>1, <4>2, NewLoads
      <4>3. CASE n # Newest
        BY <1>2, <1>3, <2>2, <4>1, <4>3 DEF LoadsFresh
      <4> QED
        BY <4>2, <4>3
    <3> QED
      BY <3>1, <3>2
  <2>3. HasOwnEdits(Sent)'
    <3>1. ASSUME NEW n \in DOMAIN posts', posts'[n].op = "edit" PROVE posts'[n].row \notin DOMAIN Sent
      <4>1. posts'[n].row \in Items
        BY <3>1 DEF PostsOK, PostFits
      <4> QED
        BY <4>1, NoRows
    <3> QED
      BY <3>1 DEF HasOwnEdits, Sent
  <2>4. (loads[Newest].companies)' = Sent /\ (loads[Newest].scopes)' = Sent
    BY <2>1
  <2> QED
    BY <1>1, <2>1, <2>2, <2>3, <2>4 DEF LoadsFresh, Sent
<1>9. ShownOK'
  <2>1. CASE shown' = shown
    BY <2>1, ShownKept
  <2>2. ASSUME NEW l \in Arrived(loads[Newest]), shown' = With(l)
        PROVE  ShownOK'
    <3>1. ListOK(l)
      BY NewestLoad, <2>2 DEF Arrived, LoadsTyped
    <3>2. DOMAIN shown' = Items /\ \A x \in Items : Copied(x, shown'[x])
      BY <2>2, <3>1, WithOK
    <3>3. ASSUME NEW x \in Items PROVE Copied(x, shown[x])'
      <4>1. Copied(x, shown'[x])
        BY <3>2
      <4>2. PICK row : row = shown'[x]
        OBVIOUS
      <4>3. Copied(x, row)'
        BY <4>1, <4>2, CopyKept DEF Copied
      <4> QED
        BY <4>2, <4>3
    <3> QED
      BY <3>2, <3>3, BlankKept DEF ShownOK
  <2> QED
    BY <1>1, <2>1, <2>2
<1>10. FormsShow' /\ DOMAIN forms' = Items
  BY <1>1 DEF FormsShow
<1> QED
  BY <1>7, <1>8, <1>9, <1>10

-----------------------------------------------------------------------------
(***************************************************************************)
(* One lemma for each action of the network.                               *)
(***************************************************************************)
LEMMA StillStructure ==
  ASSUME PageAssumption, RegisterAssumption, PageIInv, UNCHANGED structure
  PROVE  RowsTyped' /\ MovesOn
BY PageParts, StructureKept

LEMMA StillPosts ==
  ASSUME PageAssumption, RegisterAssumption, PageIInv, UNCHANGED <<structure, posts>>
  PROVE  RowsTyped' /\ MovesOn /\ PostsOK' /\ NoNewEdits
<1>1. RowsTyped' /\ MovesOn
  BY StillStructure
<1> QED
  BY <1>1, PageParts, PostsKept DEF NoNewEdits

LEMMA DialogsKept ==
  ASSUME DialogsOK, UNCHANGED <<editing, target, draft>>, DOMAIN forms' = Items
  PROVE  DialogsOK'
BY DEF DialogsOK

\* What a list of now shows is what the server has, of some rows.
LEMMA AnswersFit ==
  ASSUME PageAssumption, RegisterAssumption, PageIInv,
         NEW answer \in Some(company) \cup Some(scope) \cup {Refused}
  PROVE  ListOK(answer) /\ HasOwnEdits(answer)
<1>1. ASSUME NEW x \in Items
      PROVE  Copied(x, Stored(x)) /\ Copied(x, Blank(x))
  <2>1. Stored(x) \in RowsOf(x) /\ Stored(x).version \in Nat
    BY PageParts, RowKinds
  <2>2. Copied(x, Blank(x))
    BY PageParts DEF ShownOK
  <2> QED
    BY <2>1, <2>2 DEF Copied, Copy
<1>2. \A x \in Items \cap DOMAIN answer : answer[x] \in {Stored(x), Blank(x)}
  <2>1. CASE answer = Refused
    BY <2>1, NoRows
  <2>2. CASE answer \in Some(company)
    BY <2>2, PageParts, Kinds DEF RowsTyped, Stored, Some
  <2>3. CASE answer \in Some(scope)
    BY <2>3, PageParts, Kinds DEF RowsTyped, Stored, Some
  <2> QED
    BY <2>1, <2>2, <2>3
<1>3. ListOK(answer)
  BY <1>1, <1>2 DEF ListOK
<1>4. ASSUME NEW n \in DOMAIN posts, posts[n].op = "edit", posts[n].stage = "done"
      PROVE  posts[n].row \in Items /\ Stored(posts[n].row).version > posts[n].version
  <2>1. PostFits(posts[n])
    BY PageParts DEF PostsOK
  <2>2. posts[n].row \in Items /\ posts[n].version \in 0..Stored(posts[n].row).version - 1
    BY <1>4, <2>1 DEF PostFits
  <2>3. Stored(posts[n].row).version \in Nat
    BY <2>2, PageParts, RowKinds
  <2> QED
    BY <2>2, <2>3
<1>5. HasOwnEdits(answer)
  BY <1>2, <1>4 DEF HasOwnEdits
<1> QED
  BY <1>3, <1>5

\* An answer lists rows of the kind that was asked for.
LEMMA AnswersTyped ==
  ASSUME PageAssumption, RegisterAssumption, RowsTyped
  PROVE  Some(company) \subseteq [Companies -> CompanyRow] /\ Some(scope) \subseteq [Scopes -> ScopeRow]
<1>1. (\A c \in Companies : Blank(c) \in CompanyRow) /\ (\A x \in Scopes : Blank(x) \in ScopeRow)
  BY BlankCopied, Kinds DEF RowsOf, Items
<1>2. ASSUME NEW table, NEW K, NEW Row, table \in [K -> Row], \A x \in K : Blank(x) \in Row,
             NEW answer \in Some(table)
      PROVE  answer \in [K -> Row]
  <2>1. PICK found \in SUBSET DOMAIN table :
          answer = [x \in DOMAIN table |-> IF x \in found THEN table[x] ELSE Blank(x)]
    BY <1>2 DEF Some
  <2>2. DOMAIN table = K
    BY <1>2
  <2>3. ASSUME NEW x \in K PROVE (IF x \in found THEN table[x] ELSE Blank(x)) \in Row
    BY <1>2
  <2> QED
    BY <2>1, <2>2, <2>3
<1> QED
  BY <1>1, <1>2 DEF RowsTyped

\* An answer to one of the GETs.
LEMMA Answered ==
  ASSUME PageAssumption, RegisterAssumption, PageIInv, NEW n \in DOMAIN loads,
         NEW load \in LoadStates, load.stage = "sent", loads[n].stage = "sent",
         ListOK(load.companies), ListOK(load.scopes),
         HasOwnEdits(load.companies), HasOwnEdits(load.scopes),
         loads' = [loads EXCEPT ![n] = load],
         UNCHANGED <<structure, posts, loading, shown, editing, forms, target, draft>>
  PROVE  PageIInv'
<1>1. RowsTyped' /\ MovesOn /\ PostsOK' /\ NoNewEdits
  BY StillPosts
<1>2. /\ LoadsTyped /\ LoadsFresh /\ ShownOK /\ DialogsOK /\ FormsShow
      /\ n = Newest /\ loading
  BY PageParts DEF LoadsFresh
<1>3. PICK a, b : a = load.companies /\ b = load.scopes
  OBVIOUS
<1>4. (ListOK(a) /\ ListOK(b) /\ HasOwnEdits(a) /\ HasOwnEdits(b))'
  BY <1>1, <1>3, ListKept, OwnEditsKept
<1>5. /\ LoadsTyped' /\ Newest' = Newest /\ DOMAIN loads' = DOMAIN loads /\ loads'[n] = load
      /\ \A m \in DOMAIN loads : m # n => loads'[m] = loads[m]
  BY <1>1, <1>2, <1>3, <1>4, LoadReplaced
<1>6. LoadsFresh'
  <2>1. ASSUME NEW m \in DOMAIN loads', loads'[m].stage \in {"sent", "reading"}
        PROVE  m = Newest'
    BY <1>2, <1>5, <2>1 DEF LoadsFresh
  <2>2. (loads[Newest].companies)' = a /\ (loads[Newest].scopes)' = b
        /\ (loads[Newest].stage)' = "sent"
    BY <1>2, <1>3, <1>5
  <2> QED
    BY <1>2, <1>4, <2>1, <2>2 DEF LoadsFresh
<1>7. ShownOK' /\ DialogsOK' /\ FormsShow'
  BY <1>1, <1>2, ShownKept, DialogsKept, FormsKept DEF DialogsOK
<1> QED
  BY <1>1, <1>5, <1>6, <1>7, PagePartsNext

LEMMA AnswerCompaniesStep ==
  ASSUME PageAssumption, RegisterAssumption, PageIInv, NEW n \in DOMAIN loads, AnswerCompanies(n)
  PROVE  PageIInv'
<1>1. PICK answer \in Some(company) \cup {Refused} : loads' = [loads EXCEPT ![n].companies = answer]
  BY DEF AnswerCompanies
<1>2. PICK load : load = [loads[n] EXCEPT !.companies = answer]
  OBVIOUS
<1>3. LoadsTyped /\ LoadsFresh /\ RowsTyped /\ loads[n] \in LoadStates /\ loads[n].stage = "sent"
  BY PageParts, NewestLoad DEF AnswerCompanies
<1>4. /\ load \in LoadStates /\ load.stage = "sent" /\ load.companies = answer
      /\ load.scopes = loads[n].scopes
  <2>1. answer \in {Refused} \cup [Companies -> CompanyRow]
    BY <1>1, <1>3, AnswersTyped
  <2> QED
    BY <1>2, <1>3, <2>1 DEF LoadStates
<1>5. ListOK(loads[n].scopes) /\ HasOwnEdits(loads[n].scopes)
  BY <1>3 DEF LoadsTyped, LoadsFresh
<1>6. ListOK(answer) /\ HasOwnEdits(answer)
  BY <1>1, AnswersFit
<1>7. loads' = [loads EXCEPT ![n] = load]
  BY <1>1, <1>2
<1> QED
  BY <1>3, <1>4, <1>5, <1>6, <1>7, Answered DEF AnswerCompanies

LEMMA AnswerScopesStep ==
  ASSUME PageAssumption, RegisterAssumption, PageIInv, NEW n \in DOMAIN loads, AnswerScopes(n)
  PROVE  PageIInv'
<1>1. PICK answer \in Some(scope) \cup {Refused} : loads' = [loads EXCEPT ![n].scopes = answer]
  BY DEF AnswerScopes
<1>2. PICK load : load = [loads[n] EXCEPT !.scopes = answer]
  OBVIOUS
<1>3. LoadsTyped /\ LoadsFresh /\ RowsTyped /\ loads[n] \in LoadStates /\ loads[n].stage = "sent"
  BY PageParts, NewestLoad DEF AnswerScopes
<1>4. /\ load \in LoadStates /\ load.stage = "sent" /\ load.scopes = answer
      /\ load.companies = loads[n].companies
  <2>1. answer \in {Refused} \cup [Scopes -> ScopeRow]
    BY <1>1, <1>3, AnswersTyped
  <2> QED
    BY <1>2, <1>3, <2>1 DEF LoadStates
<1>5. ListOK(loads[n].companies) /\ HasOwnEdits(loads[n].companies)
  BY <1>3 DEF LoadsTyped, LoadsFresh
<1>6. ListOK(answer) /\ HasOwnEdits(answer)
  BY <1>1, AnswersFit
<1>7. loads' = [loads EXCEPT ![n] = load]
  BY <1>1, <1>2
<1> QED
  BY <1>3, <1>4, <1>5, <1>6, <1>7, Answered DEF AnswerScopes

\* Rows that the page lists from now on.
LEMMA ListedAnew ==
  ASSUME MovesOn, ShownOK, NEW l, ListOK(l), shown' = With(l)
  PROVE  ShownOK' /\ \A x \in Items : shown'[x] = IF x \in DOMAIN l THEN l[x] ELSE shown[x]
<1>1. /\ DOMAIN shown' = Items /\ \A x \in Items : Copied(x, shown'[x])
      /\ \A x \in Items : shown'[x] = IF x \in DOMAIN l THEN l[x] ELSE shown[x]
  BY WithOK
<1>2. ASSUME NEW x \in Items PROVE Copied(x, shown[x])'
  <2>1. Copied(x, shown'[x])
    BY <1>1
  <2>2. PICK row : row = shown'[x]
    OBVIOUS
  <2>3. Copied(x, row)'
    BY <2>1, <2>2, CopyKept DEF Copied
  <2> QED
    BY <2>2, <2>3
<1> QED
  BY <1>1, <1>2, BlankKept DEF ShownOK

LEMMA ReadCompaniesStep ==
  ASSUME PageAssumption, RegisterAssumption, PageIInv, NEW n \in DOMAIN loads, ReadCompanies(n)
  PROVE  PageIInv'
<1>1. RowsTyped' /\ MovesOn /\ PostsOK' /\ NoNewEdits
  BY StillPosts DEF ReadCompanies
<1>2. /\ LoadsTyped /\ LoadsFresh /\ ShownOK /\ DialogsOK /\ FormsShow
      /\ n = Newest /\ loading /\ loads[n] \in LoadStates
  BY PageParts, NewestLoad DEF LoadsFresh, ReadCompanies
<1>3. PICK load : load = [loads[n] EXCEPT !.stage = "reading"]
  OBVIOUS
<1>4. /\ load \in LoadStates /\ load.stage = "reading" /\ load.companies = loads[n].companies
      /\ load.scopes = loads[n].scopes
  BY <1>2, <1>3, LoadFields
<1>5. PICK a, b : a = load.companies /\ b = load.scopes
  OBVIOUS
<1>6. ListOK(a) /\ ListOK(b) /\ HasOwnEdits(a) /\ HasOwnEdits(b) /\ Sent \notin {a, b}
  BY <1>2, <1>4, <1>5 DEF LoadsTyped, LoadsFresh, ReadCompanies
<1>7. (ListOK(a) /\ ListOK(b) /\ HasOwnEdits(a) /\ HasOwnEdits(b))'
  BY <1>1, <1>6, ListKept, OwnEditsKept
<1>8. /\ LoadsTyped' /\ Newest' = Newest /\ DOMAIN loads' = DOMAIN loads /\ loads'[n] = load
      /\ \A m \in DOMAIN loads : m # n => loads'[m] = loads[m]
  BY <1>1, <1>2, <1>3, <1>4, <1>5, <1>7, LoadReplaced DEF ReadCompanies
<1>9. ShownOK' /\ \A x \in Items : shown'[x] = IF x \in DOMAIN a THEN a[x] ELSE shown[x]
  BY <1>1, <1>2, <1>4, <1>5, <1>6, ListedAnew DEF ReadCompanies
<1>10. a # Refused => HasOwnEdits([c \in Companies |-> shown[c]])'
  <2>1. SUFFICES ASSUME a # Refused PROVE HasOwnEdits([c \in Companies |-> shown[c]])'
    OBVIOUS
  <2>2. DOMAIN a = Companies
    BY <1>4, <1>5, <1>6, <2>1 DEF LoadStates
  <2>3. \A c \in Companies : shown'[c] = a[c]
    BY <1>9, <2>2 DEF Items
  <2>4. HasOwnEdits(a)'
    BY <1>7
  <2> QED
    BY <2>2, <2>3, <2>4 DEF HasOwnEdits
<1>11. LoadsFresh'
  <2>1. ASSUME NEW m \in DOMAIN loads', loads'[m].stage \in {"sent", "reading"}
        PROVE  m = Newest'
    BY <1>2, <1>8, <2>1 DEF LoadsFresh
  <2>2. (loads[Newest].companies)' = a /\ (loads[Newest].scopes)' = b
        /\ (loads[Newest].stage)' = "reading"
    BY <1>2, <1>4, <1>5, <1>8
  <2>3. loading'
    BY <1>2 DEF ReadCompanies
  <2>4. (Sent \notin {loads[Newest].companies, loads[Newest].scopes})'
    BY <1>6, <2>2 DEF Sent
  <2>5. (loads[Newest].companies # Refused)' <=> a # Refused
    BY <2>2 DEF Refused
  <2> QED
    BY <1>7, <1>10, <2>1, <2>2, <2>3, <2>4, <2>5 DEF LoadsFresh
<1>12. DialogsOK'
  BY <1>2, DialogsKept DEF ReadCompanies, DialogsOK
<1>13. FormsShow'
  <2>1. \A x \in Items : forms'[x] = None
    BY <1>2 DEF FormsShow, ReadCompanies
  <2> QED
    BY <2>1 DEF FormsShow
<1> QED
  BY <1>1, <1>8, <1>9, <1>11, <1>12, <1>13, PagePartsNext

\* The newest run is over: what is still open is mounted again.
LEMMA EndedForms ==
  ASSUME PageAssumption, RegisterAssumption, DialogsOK, UNCHANGED <<editing, target, draft>>,
         ShownOK', Ended(Newest, shown')
  PROVE  DialogsOK' /\ FormsShow' /\ loading' = FALSE
<1>1. /\ loading' = FALSE
      /\ forms' = [x \in Items |-> IF x \in editing /\ shown'[x] # Blank(x) THEN shown'[x] ELSE None]
  BY DEF Ended
<1>2. DialogsOK'
  BY <1>1, DialogsKept
<1>3. FormsShow'
  BY <1>1 DEF FormsShow, Listed, Blank, NoCompany, NoScope
<1> QED
  BY <1>1, <1>2, <1>3

LEMMA ReadScopesStep ==
  ASSUME PageAssumption, RegisterAssumption, PageIInv, NEW n \in DOMAIN loads, ReadScopes(n)
  PROVE  PageIInv'
<1>1. RowsTyped' /\ MovesOn /\ PostsOK' /\ NoNewEdits
  BY StillPosts DEF ReadScopes
<1>2. /\ LoadsTyped /\ LoadsFresh /\ ShownOK /\ DialogsOK /\ FormsShow
      /\ n = Newest /\ loads[n] \in LoadStates /\ loads[n].stage = "reading"
  BY PageParts, NewestLoad DEF LoadsFresh, ReadScopes
<1>3. PICK a, b : a = loads[n].companies /\ b = loads[n].scopes
  OBVIOUS
<1>4. ListOK(b) /\ HasOwnEdits(b) /\ b # Sent
  BY <1>2, <1>3 DEF LoadsTyped, LoadsFresh
<1>5. PICK load \in {Gone, Complete} :
        /\ loads' = [loads EXCEPT ![n] = load]
        /\ load = Complete => a # Refused /\ b # Refused
  BY <1>2, <1>3, NewLoads DEF ReadScopes
<1>6. load \in LoadStates /\ load.companies = Sent /\ load.scopes = Sent
      /\ load.stage \in {"over", "complete"} /\ (load.stage = "complete" => load = Complete)
  BY <1>5, NewLoads
<1>7. (ListOK(load.companies) /\ ListOK(load.scopes))'
  BY <1>6, NoRowsNext DEF Sent
<1>8. /\ LoadsTyped' /\ Newest' = Newest /\ DOMAIN loads' = DOMAIN loads /\ loads'[n] = load
      /\ \A m \in DOMAIN loads : m # n => loads'[m] = loads[m]
  BY <1>1, <1>2, <1>5, <1>6, <1>7, LoadReplaced
<1>9. ShownOK' /\ \A x \in Items : shown'[x] = IF x \in DOMAIN b THEN b[x] ELSE shown[x]
  BY <1>1, <1>2, <1>3, <1>4, ListedAnew DEF ReadScopes
<1>10. DialogsOK' /\ FormsShow' /\ loading' = FALSE
  BY <1>2, <1>9, EndedForms DEF ReadScopes
<1>11. load = Complete => /\ HasOwnEdits([c \in Companies |-> shown[c]])'
                          /\ HasOwnEdits([s \in Scopes |-> shown[s]])'
  <2>1. SUFFICES ASSUME load = Complete
                 PROVE  /\ HasOwnEdits([c \in Companies |-> shown[c]])'
                        /\ HasOwnEdits([s \in Scopes |-> shown[s]])'
    OBVIOUS
  <2>2. DOMAIN b = Scopes
    BY <1>2, <1>3, <1>4, <1>5, <2>1 DEF LoadStates
  <2>3. (\A s \in Scopes : shown'[s] = b[s]) /\ (\A c \in Companies : shown'[c] = shown[c])
    BY <1>9, <2>2, Kinds
  <2>4. HasOwnEdits(b)'
    BY <1>1, <1>4, OwnEditsKept
  <2>5. HasOwnEdits([c \in Companies |-> shown[c]])
    BY <1>2, <1>3, <1>5, <2>1 DEF LoadsFresh
  <2>6. PICK l : l = [c \in Companies |-> shown[c]]
    OBVIOUS
  <2>7. HasOwnEdits(l)'
    BY <1>1, <2>5, <2>6, OwnEditsKept
  <2>8. [c \in Companies |-> shown[c]]' = l
    BY <2>3, <2>6
  <2>9. HasOwnEdits([s \in Scopes |-> shown[s]])'
    BY <2>2, <2>3, <2>4 DEF HasOwnEdits
  <2> QED
    BY <2>7, <2>8, <2>9
<1>12. LoadsFresh'
  <2>1. ASSUME NEW m \in DOMAIN loads', loads'[m].stage \in {"sent", "reading"}
        PROVE  FALSE
    BY <1>2, <1>6, <1>8, <2>1 DEF LoadsFresh
  <2>2. (loads[Newest].stage)' = load.stage
    BY <1>2, <1>8
  <2>3. (loads[Newest].stage)' \notin {"sent", "reading"}
    BY <1>6, <2>2
  <2>4. (loads[Newest].stage)' = "complete" => load = Complete
    BY <1>6, <2>2
  <2> QED
    BY <1>11, <2>1, <2>3, <2>4 DEF LoadsFresh
<1> QED
  BY <1>1, <1>8, <1>9, <1>10, <1>12, PagePartsNext

LEMMA LoadFailsStep ==
  ASSUME PageAssumption, RegisterAssumption, PageIInv, NEW n \in DOMAIN loads, LoadFails(n)
  PROVE  PageIInv'
<1>1. RowsTyped' /\ MovesOn /\ PostsOK' /\ NoNewEdits
  BY StillPosts DEF LoadFails
<1>2. /\ LoadsTyped /\ LoadsFresh /\ ShownOK /\ DialogsOK /\ FormsShow
      /\ n = Newest /\ loads[n] \in LoadStates
  BY PageParts, NewestLoad DEF LoadsFresh, LoadFails
<1>3. (ListOK(Gone.companies) /\ ListOK(Gone.scopes))'
  BY NewLoads, NoRowsNext DEF Sent
<1>4. /\ LoadsTyped' /\ Newest' = Newest /\ DOMAIN loads' = DOMAIN loads /\ loads'[n] = Gone
      /\ \A m \in DOMAIN loads : m # n => loads'[m] = loads[m]
  BY <1>1, <1>2, <1>3, NewLoads, LoadReplaced DEF LoadFails
<1>5. ShownOK'
  BY <1>1, <1>2, ShownKept DEF LoadFails
<1>6. DialogsOK' /\ FormsShow' /\ loading' = FALSE
  BY <1>2, <1>5, EndedForms DEF LoadFails
<1>7. LoadsFresh'
  <2>1. ASSUME NEW m \in DOMAIN loads', loads'[m].stage \in {"sent", "reading"}
        PROVE  FALSE
    BY <1>2, <1>4, <2>1, NewLoads DEF LoadsFresh
  <2>2. (loads[Newest].stage)' = "over"
    BY <1>2, <1>4, NewLoads
  <2> QED
    BY <2>1, <2>2 DEF LoadsFresh
<1> QED
  BY <1>1, <1>4, <1>5, <1>6, <1>7, PagePartsNext

-----------------------------------------------------------------------------
(***************************************************************************)
(* The user's actions.                                                     *)
(***************************************************************************)
LEMMA SearchStep ==
  ASSUME PageAssumption, RegisterAssumption, PageIInv, Search
  PROVE  PageIInv'
<1>1. RowsTyped' /\ MovesOn /\ PostsOK' /\ NoNewEdits
  BY StillPosts DEF Search
<1>2. LoadsTyped' /\ LoadsFresh' /\ ShownOK' /\ FormsShow' /\ DOMAIN forms' = Items
  BY <1>1, PageParts, RefreshStep DEF Search
<1>3. DialogsOK'
  BY <1>2, PageParts, DialogsKept DEF Search
<1> QED
  BY <1>1, <1>2, <1>3, PagePartsNext

\* A dialog is opened or closed; the lists stay.
LEMMA DialogStep ==
  ASSUME PageAssumption, RegisterAssumption, PageIInv,
         UNCHANGED <<structure, loads, posts, loading, shown>>, DialogsOK', FormsShow'
  PROVE  PageIInv'
<1>1. RowsTyped' /\ MovesOn /\ PostsOK' /\ NoNewEdits
  BY StillPosts
<1>2. LoadsTyped' /\ LoadsFresh' /\ ShownOK'
  BY <1>1, PageParts, LoadsKept, FreshKept, ShownKept
<1> QED
  BY <1>1, <1>2, PagePartsNext

LEMMA OpenEditStep ==
  ASSUME PageAssumption, RegisterAssumption, PageIInv, NEW x \in Items, OpenEdit(x)
  PROVE  PageIInv'
<1>1. DialogsOK /\ FormsShow
  BY PageParts
<1>2. PICK closed : /\ closed = editing \cap KindOf(x)
                    /\ editing' = (editing \ closed) \cup {x}
                    /\ forms' = [y \in Items |-> IF y = x THEN shown[x]
                                                 ELSE IF y \in closed THEN None ELSE forms[y]]
  BY DEF OpenEdit
<1>3. DialogsOK'
  BY <1>1, <1>2 DEF DialogsOK, OpenEdit
<1>4. \A y \in Items : y # x /\ forms'[y] # None => y \notin closed /\ forms'[y] = forms[y]
  BY <1>2
<1>5. FormsShow'
  BY <1>1, <1>2, <1>4 DEF FormsShow, OpenEdit, Listed, DialogsOK
<1> QED
  BY <1>3, <1>5, DialogStep DEF OpenEdit

LEMMA CloseEditStep ==
  ASSUME PageAssumption, RegisterAssumption, PageIInv, NEW x \in Items, CloseEdit(x)
  PROVE  PageIInv'
<1>1. DialogsOK /\ FormsShow
  BY PageParts
<1>2. \A y \in Items : forms'[y] = IF y = x THEN None ELSE forms[y]
  BY <1>1 DEF CloseEdit, DialogsOK
<1>3. DialogsOK'
  BY <1>1 DEF DialogsOK, CloseEdit
<1>4. FormsShow'
  BY <1>1, <1>2 DEF FormsShow, CloseEdit, Listed
<1> QED
  BY <1>3, <1>4, DialogStep DEF CloseEdit

LEMMA OpenLifecycleStep ==
  ASSUME PageAssumption, RegisterAssumption, PageIInv, NEW x \in Items, OpenLifecycle(x)
  PROVE  PageIInv'
<1>1. DialogsOK' /\ FormsShow'
  BY PageParts, FormsKept DEF DialogsOK, OpenLifecycle
<1> QED
  BY <1>1, DialogStep DEF OpenLifecycle

LEMMA CloseDialogsStep ==
  ASSUME PageAssumption, RegisterAssumption, PageIInv, CloseDialogs
  PROVE  PageIInv'
<1>1. DialogsOK' /\ FormsShow'
  BY PageParts, FormsKept DEF DialogsOK, CloseDialogs
<1> QED
  BY <1>1, DialogStep DEF CloseDialogs

\* A request that is sent.
LEMMA SubmitStep ==
  ASSUME PageAssumption, RegisterAssumption, PageIInv, NEW p \in Posts, PostFits(p),
         p.stage = "sent", Submit(p)
  PROVE  PageIInv'
<1>1. /\ UNCHANGED <<structure, loads, loading, shown, editing, forms, target, draft>>
      /\ posts' = Append(posts, p)
  BY DEF Submit
<1>2. RowsTyped' /\ MovesOn
  BY <1>1, StillStructure
<1>3. PostFits(p)'
  BY <1>2, FitKept
<1>4. /\ PostsOK'
      /\ \A n \in DOMAIN posts' : posts'[n] = p \/ (n \in DOMAIN posts /\ posts'[n] = posts[n])
  BY <1>1, <1>2, <1>3, PageParts, PostAdded
<1>5. NoNewEdits
  BY <1>4 DEF NoNewEdits
<1>6. LoadsTyped' /\ LoadsFresh' /\ ShownOK' /\ DialogsOK' /\ FormsShow'
  <2>1. DialogsOK'
    BY <1>1, PageParts DEF DialogsOK
  <2> QED
    BY <1>1, <1>2, <1>5, <2>1, PageParts, LoadsKept, FreshKept, ShownKept, FormsKept
<1> QED
  BY <1>2, <1>4, <1>6, PagePartsNext

LEMMA NewPost ==
  ASSUME NEW op \in Operations, NEW x \in Items \cup {None},
         NEW text \in Names \cup Labels \cup {None}, NEW version \in Nat,
         NEW saw \in Names \cup Labels \cup {None}
  PROVE  /\ Post(op, x, text, version, saw) \in Posts
         /\ Post(op, x, text, version, saw).op = op /\ Post(op, x, text, version, saw).row = x
         /\ Post(op, x, text, version, saw).text = text
         /\ Post(op, x, text, version, saw).version = version
         /\ Post(op, x, text, version, saw).saw = saw
         /\ Post(op, x, text, version, saw).stage = "sent"
BY DEF Post, Posts

LEMMA CreateCompanyFormStep ==
  ASSUME PageAssumption, RegisterAssumption, PageIInv, CreateCompanyForm
  PROVE  PageIInv'
<1>1. PICK name \in Names : Submit(Post("create", None, name, 0, None))
  BY DEF CreateCompanyForm
<1>2. PICK p : p = Post("create", None, name, 0, None)
  OBVIOUS
<1>3. p \in Posts /\ p.stage = "sent" /\ p.op = "create" /\ p.text = name
  BY <1>2, NewPost DEF Operations
<1>4. PostFits(p)
  BY <1>3 DEF PostFits
<1> QED
  BY <1>1, <1>2, <1>3, <1>4, SubmitStep

LEMMA SubmitEditStep ==
  ASSUME PageAssumption, RegisterAssumption, PageIInv, NEW x \in Items, SubmitEdit(x)
  PROVE  PageIInv'
<1>1. PICK text \in IF x \in Companies THEN Names ELSE Labels :
        Submit(Post("edit", x, text, shown[x].version, Text(forms[x])))
  BY DEF SubmitEdit
<1>2. forms[x] = shown[x] /\ Copied(x, shown[x])
  BY PageParts DEF SubmitEdit, FormsShow, ShownOK
<1>3. /\ shown[x].version \in Nat /\ Text(shown[x]) \in Names \cup Labels \cup {None}
      /\ Copy(x, shown[x].version, Text(shown[x]))
  BY <1>2, RowFacts DEF Copied
<1>4. PICK p : p = Post("edit", x, text, shown[x].version, Text(shown[x]))
  OBVIOUS
<1>5. text \in Names \cup Labels
  OBVIOUS
<1>6. /\ p \in Posts /\ p.stage = "sent" /\ p.op = "edit" /\ p.text = text /\ p.row = x
      /\ p.version = shown[x].version /\ p.saw = Text(shown[x])
  BY <1>3, <1>4, <1>5, NewPost DEF Operations
<1>7. PostFits(p)
  BY <1>3, <1>6 DEF PostFits
<1> QED
  BY <1>1, <1>2, <1>4, <1>6, <1>7, SubmitStep

LEMMA ReviewScopeStep ==
  ASSUME PageAssumption, RegisterAssumption, PageIInv, ReviewScope
  PROVE  PageIInv'
<1>1. PICK c \in Companies, label \in Labels : Submit(Post("review", c, label, 0, None))
  BY DEF ReviewScope
<1>2. PICK p : p = Post("review", c, label, 0, None)
  OBVIOUS
<1>3. /\ p \in Posts /\ p.stage = "sent" /\ p.op = "review" /\ p.row = c /\ p.text = label
  BY <1>2, NewPost DEF Operations, Items
<1>4. PostFits(p)
  BY <1>3 DEF PostFits
<1> QED
  BY <1>1, <1>2, <1>3, <1>4, SubmitStep

LEMMA ConfirmScopeStep ==
  ASSUME PageAssumption, RegisterAssumption, PageIInv, ConfirmScope
  PROVE  PageIInv'
<1>1. draft.company \in Companies /\ draft.label \in Labels
  BY PageParts DEF ConfirmScope, DialogsOK
<1>2. PICK p : p = Post("createScope", draft.company, draft.label, 0, None)
  OBVIOUS
<1>3. /\ p \in Posts /\ p.stage = "sent" /\ p.op = "createScope"
      /\ p.row = draft.company /\ p.text = draft.label
  BY <1>1, <1>2, NewPost DEF Operations, Items
<1>4. PostFits(p)
  BY <1>1, <1>3 DEF PostFits
<1> QED
  BY <1>2, <1>3, <1>4, SubmitStep DEF ConfirmScope

LEMMA ChangeLifecycleStep ==
  ASSUME PageAssumption, RegisterAssumption, PageIInv, ChangeLifecycle
  PROVE  PageIInv'
<1>1. target.row \in Items
  BY PageParts DEF ChangeLifecycle, DialogsOK
<1>2. PICK op \in {"deactivate", "reactivate"} : Submit(Post(op, target.row, None, 0, None))
  BY DEF ChangeLifecycle
<1>3. PICK p : p = Post(op, target.row, None, 0, None)
  OBVIOUS
<1>4. p \in Posts /\ p.stage = "sent" /\ p.op = op /\ p.row = target.row
  BY <1>1, <1>3, NewPost DEF Operations
<1>5. PostFits(p)
  BY <1>1, <1>4 DEF PostFits
<1> QED
  BY <1>2, <1>3, <1>4, <1>5, SubmitStep

-----------------------------------------------------------------------------
(***************************************************************************)
(* The server's actions and its answers.                                   *)
(***************************************************************************)
\* The page's lists and dialogs while the server acts.
LEMMA ServerActs ==
  ASSUME PageAssumption, RegisterAssumption, PageIInv, RowsTyped', MovesOn, PostsOK', NoNewEdits,
         UNCHANGED <<loads, loading, shown, editing, forms, target, draft>>
  PROVE  PageIInv'
<1>1. LoadsTyped' /\ LoadsFresh' /\ ShownOK' /\ FormsShow'
  BY PageParts, LoadsKept, FreshKept, ShownKept, FormsKept
<1>2. DialogsOK'
  BY PageParts DEF DialogsOK
<1> QED
  BY <1>1, <1>2, PagePartsNext

LEMMA SomebodyElseStep ==
  ASSUME PageAssumption, RegisterAssumption, PageIInv, SomebodyElse
  PROVE  PageIInv'
<1>1. RowsTyped' /\ MovesOn
  BY PageParts, OthersMove DEF SomebodyElse
<1>2. PostsOK' /\ NoNewEdits
  BY <1>1, PageParts, PostsKept DEF SomebodyElse, NoNewEdits
<1> QED
  BY <1>1, <1>2, ServerActs DEF SomebodyElse

LEMMA PostTyped ==
  ASSUME PostsOK, NEW n \in DOMAIN posts
  PROVE  posts[n] \in Posts /\ PostFits(posts[n])
BY DEF PostsOK

\* An edit that is accepted leaves its row a version behind which it was.
LEMMA AcceptedFits ==
  ASSUME PageAssumption, RegisterAssumption, RowsTyped, NEW p \in Posts, PostFits(p),
         p.stage = "sent", Perform(p), NEW q, q = [p EXCEPT !.stage = "accepted"]
  PROVE  q \in Posts /\ PostFits(q)' /\ q.stage = "accepted"
<1>1. /\ q \in Posts /\ q.stage = "accepted" /\ q.op = p.op /\ q.row = p.row /\ q.text = p.text
      /\ q.version = p.version
  BY DEF Posts
<1>2. CASE p.op = "edit"
  <2>1. p.row \in Items /\ p.version \in Nat
    BY <1>2 DEF PostFits, Posts
  <2>2. Stored(p.row)'.version = p.version + 1
    <3>1. CASE p.row \in Companies
      <4>1. RenameCompany(p.row, p.text, p.version)
        BY <1>2, <3>1 DEF Perform
      <4>2. company[p.row] \in CompanyRow
        BY <3>1 DEF RowsTyped
      <4>3. company'[p.row].version = p.version + 1
        BY <3>1, <4>1, <4>2 DEF RenameCompany, RowsTyped, CompanyRow
      <4> QED
        BY <3>1, <4>3 DEF Stored
    <3>2. CASE p.row \notin Companies
      <4>1. UpdateScope(p.row, p.text, p.version) /\ p.row \in Scopes
        BY <1>2, <2>1, <3>2 DEF Perform, Items
      <4>2. scope[p.row] \in ScopeRow
        BY <4>1 DEF RowsTyped
      <4>3. scope'[p.row].version = p.version + 1
        BY <4>1, <4>2 DEF UpdateScope, RowsTyped, ScopeRow
      <4> QED
        BY <3>2, <4>3 DEF Stored
    <3> QED
      BY <3>1, <3>2
  <2>3. q.version \in 0..Stored(q.row)'.version - 1
    BY <1>1, <2>1, <2>2
  <2> QED
    BY <1>1, <1>2, <2>1, <2>3 DEF PostFits
<1>3. CASE p.op # "edit"
  <2>1. p.op # None
    BY Kinds DEF PostFits, Operations
  <2> QED
    BY <1>1, <1>3, <2>1 DEF PostFits, Posts, Operations
<1> QED
  BY <1>1, <1>2, <1>3

LEMMA ServeStep ==
  ASSUME PageAssumption, RegisterAssumption, PageIInv, NEW n \in DOMAIN posts, Serve(n)
  PROVE  PageIInv'
<1>1. /\ RowsTyped /\ PostsOK /\ posts[n] \in Posts /\ PostFits(posts[n])
      /\ posts[n].stage = "sent"
  BY PageParts, PostTyped DEF Serve
<1>2. PICK p \in Posts : p = posts[n]
  BY <1>1
<1>3. CASE Perform(p) /\ posts' = [posts EXCEPT ![n].stage = "accepted"]
  <2>1. RowsTyped' /\ MovesOn
    BY <1>1, <1>2, <1>3, PostMoves
  <2>2. PICK q : q = [p EXCEPT !.stage = "accepted"]
    OBVIOUS
  <2>3. q \in Posts /\ PostFits(q)' /\ q.stage = "accepted"
    BY <1>1, <1>2, <1>3, <2>2, AcceptedFits
  <2>4. posts' = [posts EXCEPT ![n] = q]
    BY <1>2, <1>3, <2>2
  <2>5. /\ PostsOK' /\ DOMAIN posts' = DOMAIN posts /\ posts'[n] = q
        /\ \A m \in DOMAIN posts : m # n => posts'[m] = posts[m]
    BY <1>1, <2>1, <2>3, <2>4, PostReplaced
  <2>6. NoNewEdits
    BY <2>3, <2>5 DEF NoNewEdits
  <2> QED
    BY <2>1, <2>5, <2>6, ServerActs DEF Serve
<1>4. CASE UNCHANGED structure /\ Over(n, "over")
  <2>1. RowsTyped' /\ MovesOn
    BY <1>4, StillStructure
  <2>2. PICK q : q = Spent(p, "over")
    OBVIOUS
  <2>3. q \in Posts /\ PostFits(q) /\ q.stage = "over"
    BY <1>1, <1>2, <2>2, SpentFits
  <2>4. PostFits(q)' /\ posts' = [posts EXCEPT ![n] = q]
    BY <1>2, <1>4, <2>1, <2>2, <2>3, FitKept DEF Over
  <2>5. /\ PostsOK' /\ DOMAIN posts' = DOMAIN posts /\ posts'[n] = q
        /\ \A m \in DOMAIN posts : m # n => posts'[m] = posts[m]
    BY <1>1, <2>1, <2>3, <2>4, PostReplaced
  <2>6. NoNewEdits
    BY <2>3, <2>5 DEF NoNewEdits
  <2> QED
    BY <2>1, <2>5, <2>6, ServerActs DEF Serve
<1> QED
  BY <1>2, <1>3, <1>4 DEF Serve

\* A request that is over, while the server's rows stay.
LEMMA OverFits ==
  ASSUME PageAssumption, RegisterAssumption, PageIInv, NEW n \in DOMAIN posts,
         NEW stage \in {"done", "over"}, Over(n, stage), UNCHANGED structure,
         stage = "done" => posts[n].stage = "accepted"
  PROVE  /\ RowsTyped' /\ MovesOn /\ PostsOK' /\ DOMAIN posts' = DOMAIN posts
         /\ posts'[n].stage = stage
         /\ posts'[n].op = "edit" => stage = "done" /\ posts[n].op = "edit"
         /\ \A m \in DOMAIN posts : m # n => posts'[m] = posts[m]
<1>1. RowsTyped' /\ MovesOn /\ PostsOK /\ posts[n] \in Posts /\ PostFits(posts[n])
  BY PageParts, PostTyped, StillStructure
<1>2. PICK p \in Posts : p = posts[n]
  BY <1>1
<1>3. PICK q : q = Spent(p, stage)
  OBVIOUS
<1>4. /\ q \in Posts /\ PostFits(q) /\ q.stage = stage
      /\ q.op = "edit" => stage = "done" /\ p.op = "edit"
  BY <1>1, <1>2, <1>3, SpentFits
<1>5. PostFits(q)' /\ posts' = [posts EXCEPT ![n] = q]
  BY <1>1, <1>2, <1>3, <1>4, FitKept DEF Over
<1> QED
  BY <1>1, <1>2, <1>4, <1>5, PostReplaced

LEMMA EditSucceedsStep ==
  ASSUME PageAssumption, RegisterAssumption, PageIInv, NEW n \in DOMAIN posts, EditSucceeds(n)
  PROVE  PageIInv'
<1>1. RowsTyped' /\ MovesOn /\ PostsOK'
  BY OverFits DEF EditSucceeds
<1>2. LoadsTyped' /\ LoadsFresh' /\ ShownOK' /\ FormsShow' /\ DOMAIN forms' = Items
  BY <1>1, PageParts, RefreshStep DEF EditSucceeds
<1>3. DialogsOK'
  BY <1>2, PageParts DEF DialogsOK, EditSucceeds
<1> QED
  BY <1>1, <1>2, <1>3, PagePartsNext

LEMMA OtherSucceedsStep ==
  ASSUME PageAssumption, RegisterAssumption, PageIInv, NEW n \in DOMAIN posts, OtherSucceeds(n)
  PROVE  PageIInv'
<1>1. RowsTyped' /\ MovesOn /\ PostsOK'
  BY OverFits DEF OtherSucceeds
<1>2. LoadsTyped' /\ LoadsFresh' /\ ShownOK' /\ FormsShow' /\ DOMAIN forms' = Items
  BY <1>1, PageParts, RefreshStep DEF OtherSucceeds
<1>3. target' \in {target, None} /\ draft' \in {draft, None} /\ editing' = editing
  BY DEF OtherSucceeds
<1>4. DialogsOK'
  BY <1>2, <1>3, PageParts DEF DialogsOK
<1> QED
  BY <1>1, <1>2, <1>4, PagePartsNext

LEMMA LoseStep ==
  ASSUME PageAssumption, RegisterAssumption, PageIInv, NEW n \in DOMAIN posts, Lose(n)
  PROVE  PageIInv'
<1>1. /\ RowsTyped' /\ MovesOn /\ PostsOK' /\ DOMAIN posts' = DOMAIN posts
      /\ posts'[n].stage = "over" /\ \A m \in DOMAIN posts : m # n => posts'[m] = posts[m]
  BY OverFits DEF Lose
<1>2. NoNewEdits
  BY <1>1 DEF NoNewEdits
<1> QED
  BY <1>1, <1>2, ServerActs DEF Lose

LEMMA ReviewPassesStep ==
  ASSUME PageAssumption, RegisterAssumption, PageIInv, NEW n \in DOMAIN posts, ReviewPasses(n)
  PROVE  PageIInv'
<1>1. /\ RowsTyped' /\ MovesOn /\ PostsOK' /\ DOMAIN posts' = DOMAIN posts
      /\ posts'[n].stage = "over" /\ \A m \in DOMAIN posts : m # n => posts'[m] = posts[m]
  BY OverFits DEF ReviewPasses
<1>2. NoNewEdits
  BY <1>1 DEF NoNewEdits
<1>3. LoadsTyped' /\ LoadsFresh' /\ ShownOK' /\ FormsShow'
  BY <1>1, <1>2, PageParts, LoadsKept, FreshKept, ShownKept, FormsKept DEF ReviewPasses
<1>4. posts[n].row \in Companies /\ posts[n].text \in Labels
  BY PageParts, PostTyped DEF ReviewPasses, PostFits
<1>5. DialogsOK'
  BY <1>4, PageParts DEF DialogsOK, ReviewPasses
<1> QED
  BY <1>1, <1>3, <1>5, PagePartsNext

-----------------------------------------------------------------------------
(***************************************************************************)
(* The invariant.                                                          *)
(***************************************************************************)
LEMMA InitPage ==
  ASSUME PageAssumption, RegisterAssumption, Init
  PROVE  PageIInv
<1>1. RowsTyped
  <2>1. NoCompany \in CompanyRow /\ NoScope \in ScopeRow
    BY DEF NoCompany, NoScope, CompanyRow, ScopeRow, LifeStatuses
  <2>2. CASE CompaniesInit
    BY <2>2 DEF CompaniesInit, RegisterInit, RegisterTypeOK, RowsTyped
  <2>3. CASE CompaniesClosed
    BY <2>1, <2>3 DEF CompaniesClosed, RowsTyped
  <2> QED
    BY <2>2, <2>3 DEF Init
<1>2. PICK load \in {NewLoad, Gone} : loads = <<load>> /\ (load = NewLoad => loading)
  <2>1. CASE CompaniesInit
    BY <2>1 DEF CompaniesInit
  <2>2. CASE CompaniesClosed
    BY <2>2, NewLoads DEF CompaniesClosed
  <2> QED
    BY <2>1, <2>2 DEF Init
<1>3. /\ posts = <<>> /\ shown = [x \in Items |-> Blank(x)] /\ editing = {}
      /\ forms = [x \in Items |-> None] /\ target = None /\ draft = None
  BY DEF Init, CompaniesInit, CompaniesClosed
<1>4. /\ load \in LoadStates /\ load.companies = Sent /\ load.scopes = Sent
      /\ load.stage \in {"sent", "over"} /\ (load.stage = "sent" => loading)
  BY <1>2, NewLoads
<1>5. loads \in Seq(LoadStates) /\ loads # <<>> /\ DOMAIN loads = {1} /\ loads[1] = load
      /\ Newest = 1
  BY <1>2, <1>4 DEF Newest
<1>6. LoadsTyped
  BY <1>4, <1>5, NoRows DEF LoadsTyped
<1>7. LoadsFresh
  BY <1>3, <1>4, <1>5 DEF LoadsFresh, HasOwnEdits
<1>8. ShownOK
  <2>1. ASSUME NEW x \in Items PROVE Copied(x, Blank(x))
    <3>1. Blank(x) \in RowsOf(x) /\ Blank(x).version = 0 /\ Text(Blank(x)) = None
      BY BlankCopied
    <3>2. Stored(x).version \in Nat
      BY <1>1, RowKinds
    <3>3. Stored(x).version = 0 => Text(Stored(x)) = None
      <4>1. CASE CompaniesClosed
        BY <4>1, BlankCopied DEF CompaniesClosed, Stored, Blank, Items
      <4>2. CASE CompaniesInit /\ x \in Companies
        <5>1. company[x] = NoCompany \/ company[x].version = 1
          BY <4>2 DEF CompaniesInit, NewCompany
        <5> QED
          BY <4>2, <5>1, BlankCopied DEF Stored, Blank
      <4>3. CASE CompaniesInit /\ x \notin Companies
        <5>1. x \in Scopes /\ (scope[x] = NoScope \/ scope[x].version = 1)
          BY <4>3 DEF CompaniesInit, NewScope, Items
        <5> QED
          BY <4>3, <5>1, BlankCopied DEF Stored, Blank
      <4> QED
        BY <4>1, <4>2, <4>3 DEF Init
    <3> QED
      BY <3>1, <3>2, <3>3 DEF Copied, Copy
  <2> QED
    BY <1>3, <2>1 DEF ShownOK
<1>9. DialogsOK /\ FormsShow /\ PostsOK
  BY <1>3 DEF DialogsOK, FormsShow, PostsOK
<1> QED
  BY <1>1, <1>6, <1>7, <1>8, <1>9, PageParts

LEMMA PageStutters ==
  ASSUME PageAssumption, RegisterAssumption, PageIInv, UNCHANGED companiesVars
  PROVE  PageIInv'
<1>1. UNCHANGED <<structure, posts, loads, loading, shown, editing, forms, target, draft>>
  BY DEF companiesVars, pageVars
<1>2. RowsTyped' /\ MovesOn /\ PostsOK' /\ NoNewEdits
  BY <1>1, StillPosts
<1> QED
  BY <1>1, <1>2, ServerActs

\* A step of the page, of its server or of the Platform's pages.
LEMMA PageSteps ==
  ASSUME [Next]_vars
  PROVE  \/ UNCHANGED companiesVars
         \/ CompaniesNetwork \/ CompaniesAnswers \/ SomebodyElse \/ CompaniesUser
BY DEF Next, vars, Authorize

LEMMA NextPage ==
  ASSUME PageAssumption, RegisterAssumption, PageIInv, [Next]_vars
  PROVE  PageIInv'
<1>1. CASE UNCHANGED companiesVars
  BY <1>1, PageStutters
<1>2. CASE CompaniesNetwork
  BY <1>2, AnswerCompaniesStep, AnswerScopesStep, ReadCompaniesStep, ReadScopesStep, LoadFailsStep
     DEF CompaniesNetwork
<1>3. CASE CompaniesAnswers
  BY <1>3, ServeStep, EditSucceedsStep, OtherSucceedsStep, ReviewPassesStep, LoseStep
     DEF CompaniesAnswers
<1>4. CASE SomebodyElse
  BY <1>4, SomebodyElseStep
<1>5. CASE CompaniesUser
  BY <1>5, SearchStep, CloseDialogsStep, CreateCompanyFormStep, ReviewScopeStep,
     ConfirmScopeStep, ChangeLifecycleStep, OpenEditStep, CloseEditStep, OpenLifecycleStep,
     SubmitEditStep
     DEF CompaniesUser
<1> QED
  BY <1>1, <1>2, <1>3, <1>4, <1>5, PageSteps

\* What the companies page holds are copies of rows, never ahead of the server,
\* and it knows of its own edits (companies/page.tsx:200-280).
THEOREM PageInvariant == Spec => []PageIInv
<1>1. Init => PageIInv
  BY InitPage, PageAssumption, RegisterAssumption
<1>2. PageIInv /\ [Next]_vars => PageIInv'
  BY NextPage, PageAssumption, RegisterAssumption
<1> QED
  BY <1>1, <1>2, PTL DEF Spec

\* No row of the quiet page is older than its user's successful edits, however many
\* loads there were, in whatever order they were answered and whichever rows they
\* found (companies/page.tsx:234-273).
THEOREM OwnEditsAreShown == Spec => []OwnEditsShown
<1>1. ASSUME PageIInv PROVE OwnEditsShown
  <2>1. SUFFICES ASSUME ~loading, loads[Newest] = Complete,
                        NEW n \in DOMAIN posts, posts[n].stage = "done", posts[n].op = "edit",
                        Listed(posts[n].row)
                 PROVE  shown[posts[n].row].version > posts[n].version
    BY DEF OwnEditsShown
  <2>2. /\ HasOwnEdits([c \in Companies |-> shown[c]])
        /\ HasOwnEdits([s \in Scopes |-> shown[s]])
    BY <1>1, <2>1, PageParts, NewLoads DEF LoadsFresh
  <2>3. posts[n].row \in Items
    BY <1>1, <2>1, PageParts, PostTyped DEF PostFits
  <2> QED
    BY <2>1, <2>2, <2>3 DEF HasOwnEdits, Items, Listed
<1> QED
  BY <1>1, PageInvariant, PTL

-----------------------------------------------------------------------------
(***************************************************************************)
(* Edits overwrite what was shown.                                         *)
(***************************************************************************)
LEMMA EditStep ==
  ASSUME PageAssumption, RegisterAssumption, PageIInv, [Next]_vars, NEW n \in DOMAIN posts,
         posts[n].op = "edit", posts[n].stage = "sent", posts'[n].stage = "accepted"
  PROVE  Text(Stored(posts[n].row)) = posts[n].saw
<1>1. /\ PostsOK /\ RowsTyped /\ posts[n] \in Posts /\ PostFits(posts[n])
  BY PageParts, PostTyped
<1>2. posts' # posts
  OBVIOUS
<1>3. \A m \in DOMAIN posts : posts[m] \in Posts /\ PostFits(posts[m])
  BY <1>1, PostTyped
<1>4. ASSUME NEW m \in DOMAIN posts, NEW stage \in {"done", "over"}, Over(m, stage),
             stage = "done" => posts[m].stage = "accepted"
      PROVE  FALSE
  <2>1. posts' = [posts EXCEPT ![m] = Spent(posts[m], stage)]
    BY <1>4 DEF Over
  <2>2. Spent(posts[m], stage).stage = stage
    BY <1>3, <1>4, SpentFits
  <2>3. posts'[n].stage \in {posts[n].stage, stage}
    BY <1>1, <2>1, <2>2, <1>4
  <2> QED
    BY <2>3
<1>5. PICK m \in DOMAIN posts : Serve(m)
  <2>1. CASE CompaniesNetwork
    BY <1>2, <2>1 DEF CompaniesNetwork, AnswerCompanies, AnswerScopes, ReadCompanies, ReadScopes,
           LoadFails
  <2>2. CASE CompaniesUser
    <3>1. PICK p : posts' = Append(posts, p)
      BY <1>2, <2>2 DEF CompaniesUser, Search, CloseDialogs, CreateCompanyForm, ReviewScope,
             ConfirmScope, ChangeLifecycle, OpenEdit, CloseEdit, OpenLifecycle, SubmitEdit, Submit
    <3>2. posts \in Seq(Posts \cup {p})
      BY <1>1 DEF PostsOK
    <3> QED
      BY <3>1, <3>2, AppendProperties
  <2>3. CASE CompaniesAnswers
    BY <1>4, <2>3 DEF CompaniesAnswers, EditSucceeds, OtherSucceeds, ReviewPasses, Lose
  <2> QED
    BY <1>2, <2>1, <2>2, <2>3, PageSteps DEF SomebodyElse, companiesVars, pageVars
<1>6. Accepts(posts[m]) /\ posts' = [posts EXCEPT ![m].stage = "accepted"]
  BY <1>4, <1>5 DEF Serve
<1>7. m = n
  BY <1>1, <1>6
<1>8. PICK p \in Posts : p = posts[n]
  BY <1>1
<1>9. p.row \in Items /\ Copy(p.row, p.version, p.saw)
  BY <1>1, <1>8 DEF PostFits
<1>10. p.version = Stored(p.row).version
  BY <1>6, <1>7, <1>8, <1>9 DEF Accepts, MayRename, MayUpdate, Stored
<1> QED
  BY <1>8, <1>9, <1>10 DEF Copy

\* What an edit from this page replaces is what its form showed: the version that
\* a request names and the text its user saw belong together, although they come
\* from the list and from the form (companies/page.tsx:347-366, 814).
THEOREM EditsReplaceWhatWasShown == Spec => EditReplacesWhatWasShown
<1>1. PageIInv /\ [Next]_vars =>
        [\A n \in DOMAIN posts :
           posts[n].op = "edit" /\ posts[n].stage = "sent" /\ posts'[n].stage = "accepted"
             => Text(Stored(posts[n].row)) = posts[n].saw]_companiesVars
  BY EditStep, PageAssumption, RegisterAssumption
<1> QED
  BY <1>1, PageInvariant, PTL DEF Spec, EditReplacesWhatWasShown

-----------------------------------------------------------------------------
(***************************************************************************)
(* Interventions.  Of the Platform's pages the proof needs only the shape  *)
(* of their posts; what the posts ask for, the server judges.              *)
(***************************************************************************)
IsChange(p) ==
  p = [op |-> p.op, org |-> p.org, to |-> p.to, member |-> p.member, query |-> p.query,
       stage |-> p.stage, version |-> p.version, saw |-> p.saw]

ChangesShaped ==
  /\ changes \in Seq({changes[n] : n \in DOMAIN changes})
  /\ \A n \in DOMAIN changes : IsChange(changes[n])

LEMMA ChangeIsOne ==
  ASSUME NEW op, NEW to, NEW member
  PROVE  IsChange(Change(op, to, member))
BY DEF IsChange, Change

LEMMA Restaged ==
  ASSUME NEW p, IsChange(p), NEW stage, NEW saw
  PROVE  /\ IsChange([p EXCEPT !.stage = stage]) /\ [p EXCEPT !.stage = stage].stage = stage
         /\ IsChange([p EXCEPT !.stage = stage, !.saw = saw])
<1>1. p = [op |-> p.op, org |-> p.org, to |-> p.to, member |-> p.member, query |-> p.query,
           stage |-> p.stage, version |-> p.version, saw |-> p.saw]
  BY DEF IsChange
<1>2. PICK a, b, c, d, e, f, g, h :
        p = [op |-> a, org |-> b, to |-> c, member |-> d, query |-> e, stage |-> f, version |-> g,
             saw |-> h]
  BY <1>1
<1>3. PICK q : q = [op |-> a, org |-> b, to |-> c, member |-> d, query |-> e, stage |-> stage,
                    version |-> g, saw |-> h]
  OBVIOUS
<1>4. PICK r : r = [op |-> a, org |-> b, to |-> c, member |-> d, query |-> e, stage |-> stage,
                    version |-> g, saw |-> saw]
  OBVIOUS
<1>5. [p EXCEPT !.stage = stage] = q
  BY <1>2, <1>3
<1>6. [q EXCEPT !.saw = saw] = r
  BY <1>3, <1>4
<1>7. IsChange(q) /\ q.stage = stage /\ IsChange(r)
  BY <1>3, <1>4 DEF IsChange
<1> QED
  BY <1>5, <1>6, <1>7

\* What a step does to the posts.
LEMMA ChangesStep ==
  ASSUME [Next]_vars
  PROVE  \/ UNCHANGED changes
         \/ \E p : IsChange(p) /\ changes' = Append(changes, p)
         \/ \E n \in DOMAIN changes, stage \in {"over", "lost"} :
              changes' = [changes EXCEPT ![n].stage = stage]
         \/ \E n \in DOMAIN changes : ServeChange(n)
<1>1. CASE UNCHANGED platformVars
  BY <1>1 DEF platformVars, net
<1>2. CASE PlatformUser
  <2>1. ASSUME NEW p, SubmitChange(p) PROVE changes' = Append(changes, p)
    BY <2>1 DEF SubmitChange
  <2>2. CASE SubmitStatus \/ SubmitIntervention \/ SubmitResend
    <3>1. PICK op, to, member : SubmitChange(Change(op, to, member))
      BY <2>2 DEF SubmitStatus, SubmitIntervention, SubmitResend
    <3> QED
      BY <2>1, <3>1, ChangeIsOne
  <2>3. CASE \/ \E o \in 0..N : Choose(o)
             \/ \E m \in Staff : Pick(m)
             \/ SearchDirectory \/ LoadMore \/ ToggleResend
    BY <2>3 DEF Choose, Pick, SearchDirectory, LoadMore, ToggleResend, net
  <2> QED
    BY <1>2, <2>2, <2>3 DEF PlatformUser
<1>3. CASE Elsewhere
  BY <1>3 DEF Elsewhere, net
<1>4. ASSUME NEW g \in gets,
             AnswerGet(g) \/ ReceiveList(g) \/ ReceiveCandidates(g) \/ GetFails(g)
      PROVE  UNCHANGED changes
  BY <1>4 DEF AnswerGet, ReceiveList, ReceiveCandidates, GetFails
<1>5. ASSUME NEW n \in DOMAIN changes, StatusApplied(n) \/ Suspended(n) \/ Resent(n) \/ LoseChange(n)
      PROVE  \E stage \in {"over", "lost"} : changes' = [changes EXCEPT ![n].stage = stage]
  BY <1>5 DEF StatusApplied, Suspended, Resent, LoseChange
<1> QED
  BY <1>1, <1>2, <1>3, <1>4, <1>5 DEF Next, vars, Authorize, PlatformNetwork

LEMMA ChangesKept ==
  ASSUME ChangesShaped, [Next]_vars
  PROVE  ChangesShaped'
<1> DEFINE S == {changes[n] : n \in DOMAIN changes}
<1>1. changes \in Seq(S) /\ \A n \in DOMAIN changes : IsChange(changes[n])
  BY DEF ChangesShaped
<1>2. CASE UNCHANGED changes
  BY <1>1, <1>2 DEF ChangesShaped, IsChange
<1>3. ASSUME NEW p, IsChange(p), changes' = Append(changes, p)
      PROVE  ChangesShaped'
  <2>1. changes \in Seq(S \cup {p})
    BY <1>1
  <2>2. /\ Len(changes') = Len(changes) + 1 /\ changes' \in Seq(S \cup {p})
        /\ \A n \in 1..Len(changes) : changes'[n] = changes[n]
        /\ changes'[Len(changes) + 1] = p
    BY <1>3, <2>1, AppendProperties
  <2>3. \A n \in DOMAIN changes' : IsChange(changes'[n])
    BY <1>1, <1>3, <2>1, <2>2
  <2>4. changes' \in Seq({changes'[n] : n \in DOMAIN changes'})
    BY <2>2
  <2> QED
    BY <2>3, <2>4 DEF ChangesShaped, IsChange
<1>4. ASSUME NEW n \in DOMAIN changes, NEW p, IsChange(p), changes' = [changes EXCEPT ![n] = p]
      PROVE  ChangesShaped'
  <2>1. changes \in Seq(S \cup {p})
    BY <1>1
  <2>2. /\ changes' \in Seq(S \cup {p}) /\ DOMAIN changes' = DOMAIN changes
        /\ \A m \in DOMAIN changes : changes'[m] = IF m = n THEN p ELSE changes[m]
    BY <1>4, <2>1, ExceptSeq
  <2>3. \A m \in DOMAIN changes' : IsChange(changes'[m])
    BY <1>1, <1>4, <2>2
  <2>4. changes' \in Seq({changes'[m] : m \in DOMAIN changes'})
    BY <2>2
  <2> QED
    BY <2>3, <2>4 DEF ChangesShaped, IsChange
<1>5. ASSUME NEW n \in DOMAIN changes, NEW stage, changes' = [changes EXCEPT ![n].stage = stage]
      PROVE  ChangesShaped'
  <2>1. PICK p : p = [changes[n] EXCEPT !.stage = stage]
    OBVIOUS
  <2>2. IsChange(p) /\ changes' = [changes EXCEPT ![n] = p]
    BY <1>1, <1>5, <2>1, Restaged
  <2> QED
    BY <1>4, <2>2
<1>6. ASSUME NEW n \in DOMAIN changes, ServeChange(n)
      PROVE  ChangesShaped'
  <2>1. CASE changes' = [changes EXCEPT ![n].stage = "over"]
    BY <1>5, <2>1
  <2>2. CASE \E saw : changes' = [changes EXCEPT ![n].stage = "accepted", ![n].saw = saw]
    <3>1. PICK saw : changes' = [changes EXCEPT ![n].stage = "accepted", ![n].saw = saw]
      BY <2>2
    <3>2. PICK p : p = [changes[n] EXCEPT !.stage = "accepted", !.saw = saw]
      OBVIOUS
    <3>3. IsChange(p)
      BY <1>1, <3>2, Restaged
    <3>4. changes' = [changes EXCEPT ![n] = p]
      BY <1>1, <3>1, <3>2
    <3> QED
      BY <1>4, <3>3, <3>4
  <2> QED
    BY <1>6, <2>1, <2>2 DEF ServeChange
<1> QED
  BY <1>2, <1>3, <1>5, <1>6, ChangesStep

\* A post is accepted by the server and by nothing else.
LEMMA AcceptedIsServed ==
  ASSUME ChangesShaped, [Next]_vars, NEW n \in DOMAIN changes, ServedNow(n)
  PROVE  ServeChange(n) /\ MayApply(changes[n])
<1>1. /\ changes \in Seq({changes[m] : m \in DOMAIN changes})
      /\ \A m \in DOMAIN changes : IsChange(changes[m])
      /\ changes[n].stage = "sent" /\ changes'[n].stage = "accepted"
  BY DEF ChangesShaped, ServedNow
<1>2. ASSUME NEW p, changes' = Append(changes, p) PROVE FALSE
  <2>1. changes \in Seq({changes[m] : m \in DOMAIN changes} \cup {p})
    BY <1>1
  <2> QED
    BY <1>1, <1>2, <2>1, AppendProperties
<1>3. ASSUME NEW m \in DOMAIN changes, NEW stage \in {"over", "lost"},
             changes' = [changes EXCEPT ![m].stage = stage]
      PROVE  FALSE
  <2>1. [changes[m] EXCEPT !.stage = stage].stage = stage
    BY <1>1, Restaged
  <2>2. changes'[n].stage \in {changes[n].stage, stage}
    BY <1>3, <2>1
  <2> QED
    BY <1>1, <2>2
<1>4. PICK m \in DOMAIN changes : ServeChange(m)
  BY <1>1, <1>2, <1>3, ChangesStep
<1>5. MayApply(changes[m]) /\ m = n
  BY <1>1, <1>3, <1>4 DEF ServeChange
<1> QED
  BY <1>4, <1>5

-----------------------------------------------------------------------------
(***************************************************************************)
(* The Platform's pages: the parts of PlatformIInv, and the shape of what  *)
(* is under way (IsGet, ChangesShaped).                                    *)
(***************************************************************************)
OrgsTyped == org \in [Orgs -> OrgRow] /\ \A o \in Orgs : org[o].id = o

StaffTyped == active \subseteq Staff /\ candidates \subseteq Staff /\ picked \in Staff \cup {Nobody}

RowsListed ==
  ListOf(rows) /\ cursor \in 0..N /\ (cursor # 0 => \A i \in DOMAIN rows : rows[i].id <= cursor)

ChosenTyped ==
  query \subseteq Orgs /\ chosen \in 0..N /\ (at = "directory" => chosen \in Ids(rows) \cup {0})

IsGet(g) ==
  g = [n |-> g.n, what |-> g.what, org |-> g.org, query |-> g.query, after |-> g.after,
       base |-> g.base, closes |-> g.closes, stage |-> g.stage, answer |-> g.answer, next |-> g.next]

GetsFit == \A g \in gets : IsGet(g) /\ GetFits(g)

OneLeft ==
  at = "lifecycle" =>
    \A n, k \in DOMAIN changes : changes[n].stage # "over" /\ changes[k].stage # "over" => n = k

ChangesFit ==
  OneLeft /\ \A n \in DOMAIN changes : ChangeFits(changes[n]) /\ MergeFits(changes[n])

PlatformInv ==
  OrgsTyped /\ StaffTyped /\ RowsListed /\ ChosenTyped /\ LoadsOnce /\ GetsFit
  /\ ChangesShaped /\ ChangesFit

LEMMA PlatformParts == PlatformInv => PlatformIInv
BY DEF PlatformInv, PlatformIInv, OrgsTyped, StaffTyped, RowsListed, ChosenTyped, GetsFit, ChangesFit,
       OneLeft

-----------------------------------------------------------------------------
(***************************************************************************)
(* Sequences.                                                              *)
(***************************************************************************)
LEMMA FunctionIsSeq ==
  ASSUME NEW S, NEW n \in Nat, NEW f \in [1..n -> S]
  PROVE  f \in Seq(S) /\ Len(f) = n
OBVIOUS

-----------------------------------------------------------------------------
(***************************************************************************)
(* Rows, and how the server moves them.                                    *)
(***************************************************************************)
LEMMA Statuses ==
  /\ DOMAIN AllowedTransitions = {"PROVISIONING", "ACTIVE", "SUSPENDED", "DISABLED"}
  /\ AllowedTransitions["PROVISIONING"] = {"DISABLED"}
  /\ \A s \in DOMAIN AllowedTransitions :
       AllowedTransitions[s] \subseteq DOMAIN AllowedTransitions
BY DEF AllowedTransitions

OrgMoves ==
  /\ OrgsTyped'
  /\ \A o \in Orgs :
       /\ org[o].version <= org'[o].version
       /\ org[o].version = org'[o].version =>
            \/ org'[o] = org[o]
            \/ org[o].access = "PROVISIONING" /\ org'[o] = [org[o] EXCEPT !.access = "ACTIVE"]

LEMMA Accepted ==
  ASSUME NEW row \in OrgRow, row.access = "PROVISIONING"
  PROVE  /\ [row EXCEPT !.access = "ACTIVE"] \in OrgRow
         /\ [row EXCEPT !.access = "ACTIVE"].id = row.id
         /\ [row EXCEPT !.access = "ACTIVE"].version = row.version
         /\ [row EXCEPT !.access = "ACTIVE"].access = "ACTIVE"
         /\ [[row EXCEPT !.access = "ACTIVE"] EXCEPT !.access = "PROVISIONING"] = row
BY Statuses DEF OrgRow

\* One Organization is written.
LEMMA OrgWritten ==
  ASSUME OrgsTyped, NEW o \in Orgs, NEW row \in OrgRow, row.id = o,
         org' = [org EXCEPT ![o] = row],
         org[o].version <= row.version,
         org[o].version = row.version =>
           \/ row = org[o]
           \/ org[o].access = "PROVISIONING" /\ row = [org[o] EXCEPT !.access = "ACTIVE"]
  PROVE  OrgMoves
<1>1. \A p \in Orgs : org'[p] = IF p = o THEN row ELSE org[p]
  BY DEF OrgsTyped
<1>2. OrgsTyped'
  BY <1>1 DEF OrgsTyped
<1>3. \A p \in Orgs : org[p].version \in Nat
  BY DEF OrgsTyped, OrgRow
<1> QED
  BY <1>1, <1>2, <1>3 DEF OrgMoves

LEMMA OrgKept ==
  ASSUME OrgsTyped, UNCHANGED org
  PROVE  OrgMoves
<1>1. \A p \in Orgs : org[p].version \in Nat
  BY DEF OrgsTyped, OrgRow
<1> QED
  BY <1>1 DEF OrgsTyped, OrgMoves

\* The row a post leaves behind.
LEMMA AppliedRow ==
  ASSUME NEW row \in OrgRow, NEW p, p.op \in {"access", "commercial", "resend"},
         p.op = "access" => p.to \in DOMAIN AllowedTransitions,
         p.op = "commercial" => p.to \in Commercial
  PROVE  /\ Applied(row, p) \in OrgRow /\ Applied(row, p).id = row.id
         /\ Applied(row, p) = row \/ Applied(row, p).version = row.version + 1
         /\ p.op = "access" => /\ Applied(row, p).access = p.to
                               /\ Applied(row, p).commercial = row.commercial
         /\ p.op = "commercial" => /\ Applied(row, p).commercial = p.to
                                   /\ Applied(row, p).access = row.access
<1>1. CASE p.op = "resend"
  BY <1>1 DEF Applied, OrgRow
<1>2. CASE p.op = "access"
  <2>1. PICK to \in DOMAIN AllowedTransitions : to = p.to
    BY <1>2
  <2>2. PICK version \in Nat : version = row.version + 1
    BY DEF OrgRow
  <2>3. PICK next : next = [row EXCEPT !.access = to, !.version = version]
    OBVIOUS
  <2>4. /\ next \in OrgRow /\ next.id = row.id /\ next.version = version
        /\ next.access = to /\ next.commercial = row.commercial
    BY <2>3 DEF OrgRow
  <2>5. Applied(row, p) = IF row.access = to THEN row ELSE next
    BY <1>2, <2>1, <2>2, <2>3 DEF Applied, OrgRow
  <2> QED
    BY <1>2, <2>1, <2>2, <2>4, <2>5
<1>3. CASE p.op = "commercial"
  <2>1. PICK to \in Commercial : to = p.to
    BY <1>3
  <2>2. PICK version \in Nat : version = row.version + 1
    BY DEF OrgRow
  <2>3. PICK next : next = [row EXCEPT !.commercial = to, !.version = version]
    OBVIOUS
  <2>4. /\ next \in OrgRow /\ next.id = row.id /\ next.version = version
        /\ next.commercial = to /\ next.access = row.access
    BY <2>3 DEF OrgRow
  <2>5. Applied(row, p) = IF row.commercial = to THEN row ELSE next
    BY <1>3, <2>1, <2>2, <2>3 DEF Applied, OrgRow
  <2> QED
    BY <1>3, <2>1, <2>2, <2>4, <2>5
<1> QED
  BY <1>1, <1>2, <1>3

LEMMA ElsewhereMoves ==
  ASSUME OrgsTyped, StaffTyped, Elsewhere
  PROVE  OrgMoves /\ StaffTyped'
<1>1. ASSUME NEW o \in Orgs, OwnerAccepts(o)
      PROVE  OrgMoves /\ StaffTyped'
  <2>1. PICK row : row = [org[o] EXCEPT !.access = "ACTIVE"]
    OBVIOUS
  <2>2. org' = [org EXCEPT ![o] = row] /\ org[o].access = "PROVISIONING" /\ UNCHANGED active
    BY <1>1, <2>1 DEF OwnerAccepts
  <2>3. org[o] \in OrgRow /\ org[o].id = o
    BY DEF OrgsTyped
  <2>4. row \in OrgRow /\ row.id = o /\ row.version = org[o].version
    BY <2>1, <2>2, <2>3, Accepted
  <2>5. org[o].version <= row.version
    BY <2>3, <2>4 DEF OrgRow
  <2>6. OrgMoves
    BY <2>1, <2>2, <2>4, <2>5, OrgWritten
  <2> QED
    BY <2>2, <2>6 DEF StaffTyped, Elsewhere, people
<1>2. ASSUME NEW o \in Orgs, SomebodyChanges(o)
      PROVE  OrgMoves /\ StaffTyped'
  <2>1. org[o] \in OrgRow /\ org[o].id = o
    BY DEF OrgsTyped
  <2>2. org[o].version \in Nat
    BY <2>1 DEF OrgRow
  <2>3. PICK next \in Nat : next = org[o].version + 1
    BY <2>2
  <2>4. ASSUME NEW row \in OrgRow, row.id = o, row.version = next, org' = [org EXCEPT ![o] = row]
        PROVE  OrgMoves
    <3>1. org[o].version <= row.version /\ org[o].version # row.version
      BY <2>2, <2>3, <2>4
    <3> QED
      BY <2>4, <3>1, OrgWritten
  <2>5. ASSUME NEW to \in AllowedTransitions[org[o].access],
               org' = [org EXCEPT ![o].access = to, ![o].version = @ + 1]
        PROVE  OrgMoves
    <3>1. PICK row : row = [org[o] EXCEPT !.access = to, !.version = next]
      OBVIOUS
    <3>2. org' = [org EXCEPT ![o] = row]
      BY <2>3, <2>5, <3>1 DEF OrgsTyped
    <3>3. to \in DOMAIN AllowedTransitions
      BY <2>1, Statuses DEF OrgRow
    <3>4. row \in OrgRow /\ row.id = o /\ row.version = next
      BY <2>1, <3>1, <3>3 DEF OrgRow
    <3> QED
      BY <2>4, <3>2, <3>4
  <2>6. ASSUME NEW to \in Commercial,
               org' = [org EXCEPT ![o].commercial = to, ![o].version = @ + 1]
        PROVE  OrgMoves
    <3>1. PICK row : row = [org[o] EXCEPT !.commercial = to, !.version = next]
      OBVIOUS
    <3>2. org' = [org EXCEPT ![o] = row]
      BY <2>3, <2>6, <3>1 DEF OrgsTyped
    <3>3. row \in OrgRow /\ row.id = o /\ row.version = next
      BY <2>1, <3>1 DEF OrgRow
    <3> QED
      BY <2>4, <3>2, <3>3
  <2> QED
    BY <1>2, <2>5, <2>6 DEF SomebodyChanges, StaffTyped, Elsewhere, people
<1>3. ASSUME NEW m \in Staff, StaffChanges(m)
      PROVE  OrgMoves /\ StaffTyped'
  BY <1>3, OrgKept DEF StaffChanges, StaffTyped, Elsewhere, people
<1> QED
  BY <1>1, <1>2, <1>3 DEF Elsewhere

-----------------------------------------------------------------------------
(***************************************************************************)
(* Copies survive a step of the server.                                    *)
(***************************************************************************)
LEMMA OrgCopyKept ==
  ASSUME OrgsTyped, OrgMoves, NEW row, OrgCopy(row)
  PROVE  OrgCopy(row)'
<1>1. /\ row \in OrgRow /\ row.version <= org[row.id].version
      /\ row.version = org[row.id].version => Seen(row, org[row.id])
  BY DEF OrgCopy
<1>2. PICK o \in Orgs : o = row.id
  BY <1>1 DEF OrgRow
<1>3. PICK was \in OrgRow : was = org[o]
  BY DEF OrgsTyped
<1>4. PICK now \in OrgRow : now = org'[o]
  BY DEF OrgMoves, OrgsTyped
<1>5. /\ was.version <= now.version
      /\ was.version = now.version =>
           \/ now = was
           \/ was.access = "PROVISIONING" /\ now = [was EXCEPT !.access = "ACTIVE"]
  BY <1>3, <1>4 DEF OrgMoves
<1>6. row.version \in Nat /\ was.version \in Nat /\ now.version \in Nat
  BY <1>1 DEF OrgRow
<1>7. row.version <= now.version
  BY <1>1, <1>2, <1>3, <1>5, <1>6
<1>8. ASSUME row.version = now.version PROVE Seen(row, now)
  <2>1. row.version = was.version /\ was.version = now.version /\ Seen(row, was)
    BY <1>1, <1>2, <1>3, <1>5, <1>6, <1>8
  <2>2. CASE was.access = "PROVISIONING" /\ now = [was EXCEPT !.access = "ACTIVE"]
    BY <2>1, <2>2, Accepted DEF Seen
  <2> QED
    BY <1>5, <2>1, <2>2
<1> QED
  BY <1>1, <1>2, <1>4, <1>7, <1>8 DEF OrgCopy

LEMMA ListOfKept ==
  ASSUME OrgsTyped, OrgMoves, NEW l, ListOf(l)
  PROVE  ListOf(l)'
<1>1. l \in Seq(OrgRow) /\ \A i, j \in DOMAIN l : i < j => l[i].id < l[j].id
  BY DEF ListOf
<1>2. ASSUME NEW i \in DOMAIN l PROVE OrgCopy(l[i])'
  BY OrgCopyKept DEF ListOf
<1> QED
  BY <1>1, <1>2 DEF ListOf

LEMMA GetKept ==
  ASSUME OrgsTyped, OrgMoves, NEW g, GetFits(g)
  PROVE  GetFits(g)'
BY ListOfKept DEF GetFits

LEMMA RowsKept ==
  ASSUME OrgsTyped, OrgMoves, RowsListed, UNCHANGED <<rows, cursor>>
  PROVE  RowsListed'
<1>1. PICK l : l = rows
  OBVIOUS
<1>2. ListOf(l)'
  BY <1>1, ListOfKept DEF RowsListed
<1> QED
  BY <1>1, <1>2 DEF RowsListed

LEMMA GetsKept ==
  ASSUME OrgsTyped, OrgMoves, GetsFit, gets' \subseteq gets
  PROVE  GetsFit'
<1>1. ASSUME NEW g \in gets' PROVE IsGet(g) /\ GetFits(g)'
  BY <1>1, GetKept DEF GetsFit
<1> QED
  BY <1>1 DEF GetsFit, IsGet

LEMMA ChangeKept ==
  ASSUME OrgsTyped, OrgMoves, NEW p, UNCHANGED at, ChangeFits(p)
  PROVE  ChangeFits(p)'
BY OrgCopyKept DEF ChangeFits, Merges

LEMMA MergeKept ==
  ASSUME OrgsTyped, OrgMoves, NEW p, UNCHANGED rows, MergeFits(p)
  PROVE  MergeFits(p)'
<1>1. SUFFICES ASSUME Merges(p), p.stage \in {"sent", "accepted"}
               PROVE  MergeFits(p)'
  BY DEF MergeFits, Merges
<1>2. /\ p.org \in Ids(rows)
      /\ \A i \in DOMAIN rows : rows[i].id = p.org =>
           IF p.stage = "sent" THEN rows[i] = p.saw ELSE OrgCopy(Merged(rows[i], p))
  BY <1>1 DEF MergeFits
<1>3. ASSUME NEW i \in DOMAIN rows, rows[i].id = p.org, p.stage # "sent"
      PROVE  OrgCopy(Merged(rows[i], p))'
  <2>1. PICK row : row = Merged(rows[i], p)
    OBVIOUS
  <2>2. OrgCopy(row)'
    BY <1>2, <1>3, <2>1, OrgCopyKept
  <2>3. Merged(rows[i], p)' = row
    BY <2>1 DEF Merged
  <2> QED
    BY <2>2, <2>3 DEF OrgCopy
<1> QED
  BY <1>2, <1>3 DEF MergeFits, Ids

-----------------------------------------------------------------------------
(***************************************************************************)
(* Merging an answer into the list.                                        *)
(***************************************************************************)
LEMMA SameRow ==
  ASSUME NEW a \in OrgRow, NEW b \in OrgRow, a.id = b.id, a.access = b.access,
         a.commercial = b.commercial, a.version = b.version
  PROVE  a = b
BY DEF OrgRow

LEMMA SeenRow ==
  ASSUME NEW a \in OrgRow, NEW b \in OrgRow, a.id = b.id, a.access = "PROVISIONING",
         b.access = "ACTIVE", a.commercial = b.commercial, a.version = b.version
  PROVE  Seen(a, b)
<1>1. PICK c : c = [b EXCEPT !.access = "PROVISIONING"]
  OBVIOUS
<1>2. /\ c \in OrgRow /\ c.id = b.id /\ c.access = "PROVISIONING"
      /\ c.commercial = b.commercial /\ c.version = b.version
  BY <1>1, Statuses DEF OrgRow
<1>3. a = c
  BY <1>2, SameRow
<1> QED
  BY <1>1, <1>3 DEF Seen

LEMMA MergedRow ==
  ASSUME NEW row \in OrgRow, NEW p, Merges(p), p.saw \in OrgRow
  PROVE  /\ Merged(row, p) \in OrgRow /\ Merged(row, p).id = row.id
         /\ Merged(row, p).version = p.saw.version
         /\ p.op = "access" => /\ Merged(row, p).access = p.saw.access
                               /\ Merged(row, p).commercial = row.commercial
         /\ p.op = "commercial" => /\ Merged(row, p).commercial = p.saw.commercial
                                   /\ Merged(row, p).access = row.access
<1>1. PICK saw \in OrgRow : saw = p.saw
  OBVIOUS
<1>2. saw.access \in DOMAIN AllowedTransitions /\ saw.commercial \in Commercial /\ saw.version \in Nat
  BY DEF OrgRow
<1>3. CASE p.op = "access"
  <2>1. PICK next : next = [row EXCEPT !.access = saw.access, !.version = saw.version]
    OBVIOUS
  <2>2. /\ next \in OrgRow /\ next.id = row.id /\ next.version = saw.version
        /\ next.access = saw.access /\ next.commercial = row.commercial
    BY <1>2, <2>1 DEF OrgRow
  <2>3. Merged(row, p) = next
    BY <1>1, <1>3, <2>1 DEF Merged, OrgRow
  <2> QED
    BY <1>1, <1>3, <2>2, <2>3
<1>4. CASE p.op = "commercial"
  <2>1. PICK next : next = [row EXCEPT !.commercial = saw.commercial, !.version = saw.version]
    OBVIOUS
  <2>2. /\ next \in OrgRow /\ next.id = row.id /\ next.version = saw.version
        /\ next.commercial = saw.commercial /\ next.access = row.access
    BY <1>2, <2>1 DEF OrgRow
  <2>3. Merged(row, p) = next
    BY <1>1, <1>4, <2>1 DEF Merged, OrgRow
  <2> QED
    BY <1>1, <1>4, <2>2, <2>3
<1> QED
  BY <1>3, <1>4 DEF Merges

\* What was seen, merged with the answer, is what the server has then.
LEMMA ServedMerge ==
  ASSUME NEW row \in OrgRow, NEW saw \in OrgRow, Seen(saw, row), NEW p, Merges(p),
         p.op = "access" => /\ p.to \in AllowedTransitions[saw.access]
                            /\ p.to \in AllowedTransitions[row.access] \cup {row.access},
         p.op = "commercial" => p.to \in Commercial,
         NEW q, q.op = p.op, q.saw = Applied(row, p)
  PROVE  /\ Merged(saw, q) \in OrgRow /\ Merged(saw, q).id = row.id
         /\ Merged(saw, q).version = Applied(row, p).version
         /\ Seen(Merged(saw, q), Applied(row, p))
<1> DEFINE was == Applied(row, p)
           shownAs == Merged(saw, q)
<1>0. /\ p.op \in {"access", "commercial", "resend"}
      /\ p.op = "access" => p.to \in DOMAIN AllowedTransitions
  BY Statuses DEF Merges, OrgRow
<1>1. /\ was \in OrgRow /\ was.id = row.id
      /\ p.op = "access" => was.access = p.to /\ was.commercial = row.commercial
      /\ p.op = "commercial" => was.commercial = p.to /\ was.access = row.access
  BY <1>0, AppliedRow
<1>2. /\ shownAs \in OrgRow /\ shownAs.id = saw.id /\ shownAs.version = was.version
      /\ q.op = "access" => shownAs.access = was.access /\ shownAs.commercial = saw.commercial
      /\ q.op = "commercial" => shownAs.commercial = was.commercial /\ shownAs.access = saw.access
  BY <1>1, MergedRow DEF Merges
<1> HIDE DEF was, shownAs
<1>3. \/ saw = row
      \/ /\ row.access = "ACTIVE" /\ saw.access = "PROVISIONING"
         /\ saw.id = row.id /\ saw.commercial = row.commercial
  BY DEF Seen, OrgRow
<1>4. CASE p.op = "access"
  <2>1. shownAs = was
    BY <1>1, <1>2, <1>3, <1>4, SameRow
  <2> QED
    BY <1>1, <1>2, <1>3, <2>1 DEF Seen, was, shownAs
<1>5. CASE p.op = "commercial"
  <2>1. CASE saw = row
    <3>1. shownAs = was
      BY <1>1, <1>2, <1>5, <2>1, SameRow
    <3> QED
      BY <1>1, <1>2, <3>1 DEF Seen, was, shownAs
  <2>2. CASE /\ row.access = "ACTIVE" /\ saw.access = "PROVISIONING"
             /\ saw.id = row.id /\ saw.commercial = row.commercial
    <3>1. Seen(shownAs, was)
      BY <1>1, <1>2, <1>5, <2>2, SeenRow
    <3> QED
      BY <1>1, <1>2, <2>2, <3>1 DEF was, shownAs
  <2> QED
    BY <1>3, <2>1, <2>2
<1> QED
  BY <1>4, <1>5 DEF Merges

-----------------------------------------------------------------------------
(***************************************************************************)
(* Posts.                                                                  *)
(***************************************************************************)
WithSaw(p, stage, saw) == [p EXCEPT !.stage = stage, !.saw = saw]

LEMMA RestagedFields ==
  ASSUME NEW p, IsChange(p), NEW stage, NEW saw
  PROVE  /\ LET q == [p EXCEPT !.stage = stage] IN
            /\ q.op = p.op /\ q.org = p.org /\ q.to = p.to /\ q.query = p.query
            /\ q.stage = stage /\ q.saw = p.saw /\ q.version = p.version
         /\ LET q == WithSaw(p, stage, saw) IN
            /\ q.op = p.op /\ q.org = p.org /\ q.to = p.to /\ q.query = p.query
            /\ q.stage = stage /\ q.saw = saw /\ q.version = p.version
<1>1. p = [op |-> p.op, org |-> p.org, to |-> p.to, member |-> p.member, query |-> p.query,
           stage |-> p.stage, version |-> p.version, saw |-> p.saw]
  BY DEF IsChange
<1>2. PICK a, b, c, d, e, f, g, h :
        p = [op |-> a, org |-> b, to |-> c, member |-> d, query |-> e, stage |-> f, version |-> g,
             saw |-> h]
  BY <1>1
<1>3. PICK q : q = [op |-> a, org |-> b, to |-> c, member |-> d, query |-> e, stage |-> stage,
                    version |-> g, saw |-> h]
  OBVIOUS
<1>4. PICK r : r = [op |-> a, org |-> b, to |-> c, member |-> d, query |-> e, stage |-> stage,
                    version |-> g, saw |-> saw]
  OBVIOUS
<1>5. [p EXCEPT !.stage = stage] = q
  BY <1>2, <1>3
<1>6. [q EXCEPT !.saw = saw] = r
  BY <1>3, <1>4
<1>7. /\ a = p.op /\ b = p.org /\ c = p.to /\ e = p.query /\ h = p.saw /\ g = p.version
  BY <1>2
<1>8. /\ q.op = p.op /\ q.org = p.org /\ q.to = p.to /\ q.query = p.query
      /\ q.stage = stage /\ q.saw = p.saw /\ q.version = p.version
  BY <1>3, <1>7
<1>9. /\ r.op = p.op /\ r.org = p.org /\ r.to = p.to /\ r.query = p.query
      /\ r.stage = stage /\ r.saw = saw /\ r.version = p.version
  BY <1>4, <1>7
<1>10. WithSaw(p, stage, saw) = r
  BY <1>5, <1>6 DEF WithSaw
<1> QED
  BY <1>5, <1>8, <1>9, <1>10

LEMMA ChangesKeptFit ==
  ASSUME OrgsTyped, OrgMoves, ChangesFit, UNCHANGED <<at, rows, changes>>
  PROVE  ChangesFit'
<1>1. ASSUME NEW n \in DOMAIN changes
      PROVE  ChangeFits(changes[n])' /\ MergeFits(changes[n])'
  <2>1. PICK p : p = changes[n]
    OBVIOUS
  <2>2. ChangeFits(p)' /\ MergeFits(p)'
    BY <2>1, ChangeKept, MergeKept DEF ChangesFit
  <2>3. changes[n]' = p
    BY <2>1
  <2> QED
    BY <2>2, <2>3
<1> QED
  BY <1>1 DEF ChangesFit, OneLeft

\* One post is replaced, maybe with the rows.
LEMMA ChangeReplaced ==
  ASSUME OrgsTyped, OrgMoves, ChangesShaped, ChangesFit, UNCHANGED at,
         NEW n \in DOMAIN changes, NEW q, changes' = [changes EXCEPT ![n] = q],
         ChangeFits(q)', MergeFits(q)',
         q.stage # "over" => changes[n].stage # "over",
         \A m \in DOMAIN changes \ {n} : MergeFits(changes[m]) => MergeFits(changes[m])'
  PROVE  ChangesFit'
<1>1. /\ DOMAIN changes' = DOMAIN changes
      /\ \A m \in DOMAIN changes : changes'[m] = IF m = n THEN q ELSE changes[m]
  BY DEF ChangesShaped
<1>2. OneLeft'
  BY <1>1 DEF OneLeft, ChangesFit
<1>3. ASSUME NEW m \in DOMAIN changes
      PROVE  ChangeFits(changes[m])' /\ MergeFits(changes[m])'
  <2>1. CASE m = n
    <3>1. changes[m]' = q
      BY <1>1, <2>1
    <3> QED
      BY <3>1
  <2>2. CASE m # n
    <3>1. PICK p : p = changes[m]
      OBVIOUS
    <3>2. changes[m]' = p
      BY <1>1, <2>2, <3>1
    <3>3. ChangeFits(p)'
      BY <3>1, ChangeKept DEF ChangesFit
    <3>4. MergeFits(changes[m])'
      BY <2>2 DEF ChangesFit
    <3> QED
      BY <3>2, <3>3, <3>4
  <2> QED
    BY <2>1, <2>2
<1> QED
  BY <1>1, <1>2, <1>3 DEF ChangesFit

-----------------------------------------------------------------------------
(***************************************************************************)
(* GETs.                                                                   *)
(***************************************************************************)
LEMMA StoredCopy ==
  ASSUME OrgsTyped, NEW o \in Orgs
  PROVE  org[o] \in OrgRow /\ org[o].id = o /\ OrgCopy(org[o])
<1>1. org[o] \in OrgRow /\ org[o].id = o
  BY DEF OrgsTyped
<1>2. org[o].version \in Nat
  BY <1>1 DEF OrgRow
<1> QED
  BY <1>1, <1>2 DEF OrgCopy, Seen

LEMMA PageListed ==
  ASSUME PlatformAssumption, OrgsTyped, NEW q \in SUBSET Orgs, NEW after \in 0..N, NEW take \in Nat,
         take # 0 \/ N = 0, NEW ids \in InOrder(Matching(q, after))
  PROVE  /\ ListOf(PageOf(ids, take)) /\ NextCursor(ids, take) \in {0} \cup after..N
         /\ \A i \in DOMAIN PageOf(ids, take) :
              /\ PageOf(ids, take)[i].id > after
              /\ NextCursor(ids, take) # 0 => PageOf(ids, take)[i].id <= NextCursor(ids, take)
<1> DEFINE found == Matching(q, after)
           k == Cardinality(found)
           m == IF k < take THEN k ELSE take
           page == PageOf(ids, take)
           next == NextCursor(ids, take)
<1>1. N \in Nat /\ found \subseteq 1..N /\ \A o \in found : o > after
  BY DEF PlatformAssumption, Orgs, Matching
<1>2. k \in Nat
  <2>1. IsFiniteSet(1..N)
    BY <1>1, FS_Interval
  <2> QED
    BY <1>1, <2>1, FS_Subset, FS_CardinalityType
<1>3. /\ ids \in [1..k -> found]
      /\ \A i, j \in 1..k : i < j => ids[i] < ids[j]
  BY DEF InOrder
<1> HIDE DEF k, found
<1>4. Len(ids) = k
  BY <1>2, <1>3, FunctionIsSeq
<1>5. m \in Nat /\ m <= k /\ m <= take
  BY <1>2
<1>6. page = [i \in 1..m |-> org[ids[i]]]
  BY <1>4 DEF PageOf
<1> HIDE DEF m, page
<1>7. \A i \in 1..m : ids[i] \in found /\ ids[i] \in Orgs
  <2>1. \A i \in 1..m : i \in 1..k
    BY <1>2, <1>5
  <2>2. \A i \in 1..k : ids[i] \in found
    BY <1>3
  <2> QED
    BY <1>1, <2>1, <2>2 DEF Orgs
<1>8. \A i \in 1..m : page[i] \in OrgRow /\ page[i].id = ids[i] /\ OrgCopy(page[i])
  BY <1>6, <1>7, StoredCopy
<1>9. page \in Seq(OrgRow) /\ DOMAIN page = 1..m
  BY <1>5, <1>6, <1>8, FunctionIsSeq
<1>10. ListOf(page)
  <2>1. \A i, j \in 1..m : i < j => page[i].id < page[j].id
    BY <1>2, <1>3, <1>5, <1>8
  <2> QED
    BY <1>8, <1>9, <2>1 DEF ListOf
<1>11. \A i \in 1..m : page[i].id > after
  BY <1>1, <1>7, <1>8
<1>12. CASE k > take
  <2>1. next = ids[take] /\ m = take
    BY <1>4, <1>12, <1>2 DEF NextCursor, m
  <2>2. take # 0
    <3>1. 1 \in 1..k
      BY <1>2, <1>12
    <3>2. ids[1] \in found
      BY <1>3, <3>1
    <3>3. PICK o \in found : o = ids[1]
      BY <3>2
    <3>4. o \in 1..N
      BY <1>1
    <3> QED
      BY <1>1, <3>4
  <2>3. take \in 1..k
    BY <1>2, <1>12, <2>2
  <2>4. ids[take] \in 1..N /\ ids[take] > after
    <3>1. PICK o \in found : o = ids[take]
      BY <1>3, <2>3
    <3> QED
      BY <1>1, <3>1
  <2>5. ASSUME NEW i \in 1..m PROVE page[i].id <= next
    <3>1. i \in 1..k /\ (i < take \/ i = take)
      BY <2>1, <2>3, <1>2
    <3>2. i < take => ids[i] < ids[take]
      BY <1>3, <2>3, <3>1
    <3>3. ids[i] \in 1..N
      BY <1>1, <1>3, <3>1
    <3> QED
      BY <1>1, <1>8, <2>1, <2>4, <3>1, <3>2, <3>3
  <2> QED
    BY <1>1, <1>9, <1>10, <1>11, <2>1, <2>4, <2>5 DEF page
<1>13. CASE ~(k > take)
  <2>1. next = 0
    BY <1>4, <1>13 DEF NextCursor
  <2> QED
    BY <1>1, <1>9, <1>10, <1>11, <2>1 DEF page
<1> QED
  BY <1>12, <1>13

LEMMA GetIsOne ==
  ASSUME NEW n, NEW what, NEW of, NEW q, NEW after, NEW base, NEW closes
  PROVE  /\ IsGet(Get(n, what, of, q, after, base, closes))
         /\ LET g == Get(n, what, of, q, after, base, closes) IN
            /\ g.what = what /\ g.org = of /\ g.query = q /\ g.after = after /\ g.base = base
            /\ g.stage = "sent"
BY DEF IsGet, Get

WithAnswer(g, answer, next) == [g EXCEPT !.stage = "answered", !.answer = answer, !.next = next]

LEMMA AnsweredFields ==
  ASSUME NEW g, IsGet(g), NEW answer, NEW next
  PROVE  LET h == WithAnswer(g, answer, next) IN
         /\ IsGet(h) /\ h.what = g.what /\ h.org = g.org /\ h.query = g.query /\ h.after = g.after
         /\ h.base = g.base /\ h.stage = "answered" /\ h.answer = answer /\ h.next = next
<1>1. g = [n |-> g.n, what |-> g.what, org |-> g.org, query |-> g.query, after |-> g.after,
           base |-> g.base, closes |-> g.closes, stage |-> g.stage, answer |-> g.answer,
           next |-> g.next]
  BY DEF IsGet
<1>2. PICK a, b, c, d, e, f, i, j, k, l :
        g = [n |-> a, what |-> b, org |-> c, query |-> d, after |-> e, base |-> f, closes |-> i,
             stage |-> j, answer |-> k, next |-> l]
  BY <1>1
<1>3. PICK s : s = [n |-> a, what |-> b, org |-> c, query |-> d, after |-> e, base |-> f,
                    closes |-> i, stage |-> "answered", answer |-> k, next |-> l]
  OBVIOUS
<1>4. PICK t : t = [n |-> a, what |-> b, org |-> c, query |-> d, after |-> e, base |-> f,
                    closes |-> i, stage |-> "answered", answer |-> answer, next |-> l]
  OBVIOUS
<1>5. PICK u : u = [n |-> a, what |-> b, org |-> c, query |-> d, after |-> e, base |-> f,
                    closes |-> i, stage |-> "answered", answer |-> answer, next |-> next]
  OBVIOUS
<1>6. [g EXCEPT !.stage = "answered"] = s
  BY <1>2, <1>3
<1>7. [s EXCEPT !.answer = answer] = t
  BY <1>3, <1>4
<1>8. [t EXCEPT !.next = next] = u
  BY <1>4, <1>5
<1>9. /\ IsGet(u) /\ u.what = g.what /\ u.org = g.org /\ u.query = g.query /\ u.after = g.after
      /\ u.base = g.base /\ u.stage = "answered" /\ u.answer = answer /\ u.next = next
  BY <1>2, <1>5 DEF IsGet
<1>10. WithAnswer(g, answer, next) = u
  BY <1>6, <1>7, <1>8 DEF WithAnswer
<1> QED
  BY <1>9, <1>10

\* Some GETs go, one may come.
LEMMA GetAdded ==
  ASSUME OrgsTyped, OrgMoves, GetsFit, NEW g, IsGet(g), GetFits(g)', gets' \subseteq gets \cup {g}
  PROVE  GetsFit'
<1>1. ASSUME NEW h \in gets' PROVE IsGet(h) /\ GetFits(h)'
  <2>1. CASE h = g
    BY <2>1
  <2>2. CASE h # g
    BY <1>1, <2>2, GetKept DEF GetsFit
  <2> QED
    BY <2>1, <2>2
<1> QED
  BY <1>1 DEF GetsFit, IsGet

LEMMA EmptyList == ListOf(<<>>)
BY EmptySeq DEF ListOf

-----------------------------------------------------------------------------
(***************************************************************************)
(* Steps of the network.  ChangesKept has shown that posts keep their      *)
(* shape.                                                                  *)
(***************************************************************************)
LEMMA PlatformStutters ==
  ASSUME PlatformInv, UNCHANGED platformVars
  PROVE  PlatformInv'
<1>1. UNCHANGED <<org, active, at, gets, changes, rows, chosen, query, cursor, candidates, picked>>
  BY DEF platformVars, server, net, list, people
<1>2. OrgMoves
  BY <1>1, OrgKept DEF PlatformInv
<1>3. OrgsTyped' /\ RowsListed' /\ GetsFit' /\ ChangesFit'
  BY <1>1, <1>2, RowsKept, GetsKept, ChangesKeptFit DEF PlatformInv, OrgMoves
<1>4. StaffTyped' /\ ChosenTyped' /\ LoadsOnce' /\ ChangesShaped'
  BY <1>1 DEF PlatformInv, StaffTyped, ChosenTyped, LoadsOnce, Ids, ChangesShaped, IsChange
<1> QED
  BY <1>3, <1>4 DEF PlatformInv

LEMMA ElsewhereStep ==
  ASSUME PlatformInv, ChangesShaped', Elsewhere
  PROVE  PlatformInv'
<1>1. UNCHANGED <<at, gets, changes, rows, chosen, query, cursor>>
  BY DEF Elsewhere, net, list
<1>2. OrgMoves /\ StaffTyped'
  BY ElsewhereMoves DEF PlatformInv
<1>3. OrgsTyped' /\ RowsListed' /\ GetsFit' /\ ChangesFit'
  BY <1>1, <1>2, RowsKept, GetsKept, ChangesKeptFit DEF PlatformInv, OrgMoves
<1>4. ChosenTyped' /\ LoadsOnce'
  BY <1>1 DEF PlatformInv, ChosenTyped, LoadsOnce, Ids
<1> QED
  BY <1>2, <1>3, <1>4 DEF PlatformInv

LEMMA AnswerGetStep ==
  ASSUME PlatformAssumption, PlatformInv, ChangesShaped', NEW g \in gets, AnswerGet(g)
  PROVE  PlatformInv'
<1>1. UNCHANGED <<org, active, at, changes, rows, chosen, query, cursor, candidates, picked>>
  BY DEF AnswerGet, server, list, people
<1>2. OrgMoves
  BY <1>1, OrgKept DEF PlatformInv
<1>3. IsGet(g) /\ GetFits(g) /\ OrgsTyped /\ GetsFit /\ g.stage = "sent"
  BY DEF PlatformInv, GetsFit, AnswerGet
<1>4. PICK h : /\ IsGet(h) /\ gets' = (gets \ {g}) \cup {h} /\ h.what = g.what
               /\ GetFits(h)'
  <2>1. CASE g.what = "candidates" /\ Answer(g, Eligible(g.org), 0)
    <3>1. PICK answer : answer = Eligible(g.org)
      OBVIOUS
    <3>2. PICK h : h = WithAnswer(g, answer, 0)
      OBVIOUS
    <3>3. /\ IsGet(h) /\ h.what = "candidates" /\ h.org = g.org /\ h.answer = answer
      <4>1. IsGet(g)
        BY <1>3
      <4>2. IsGet(h) /\ h.what = g.what /\ h.org = g.org /\ h.answer = answer
        BY <3>2, <4>1, AnsweredFields
      <4> QED
        BY <2>1, <4>2
    <3>4. answer \subseteq Staff
      BY <3>1 DEF Eligible, PlatformInv, StaffTyped
    <3>5. GetFits(h)'
      BY <1>3, <2>1, <3>3, <3>4 DEF GetFits
    <3> QED
      BY <2>1, <3>1, <3>2, <3>3, <3>5 DEF Answer, WithAnswer
  <2>2. ASSUME g.what = "list", NEW ids \in InOrder(Matching(g.query, g.after)),
               Answer(g, PageOf(ids, Take), NextCursor(ids, Take))
        PROVE  \E h : /\ IsGet(h) /\ gets' = (gets \ {g}) \cup {h} /\ h.what = g.what
                      /\ GetFits(h)'
    <3>1. /\ g.query \in SUBSET Orgs /\ g.after \in 0..N /\ ListOf(g.base)
          /\ \A i \in DOMAIN g.base : g.base[i].id <= g.after
      BY <1>3, <2>2 DEF GetFits
    <3>2. Take \in Nat /\ (Take # 0 \/ N = 0)
      BY DEF Take, PlatformAssumption
    <3>3. PICK answer, next : answer = PageOf(ids, Take) /\ next = NextCursor(ids, Take)
      OBVIOUS
    <3>4. /\ ListOf(answer) /\ next \in {0} \cup g.after..N
          /\ \A i \in DOMAIN answer : answer[i].id > g.after /\ (next # 0 => answer[i].id <= next)
      BY <1>3, <2>2, <3>1, <3>2, <3>3, PageListed
    <3>5. PICK h : h = WithAnswer(g, answer, next)
      OBVIOUS
    <3>6. /\ IsGet(h) /\ h.what = "list" /\ h.query = g.query /\ h.after = g.after
          /\ h.base = g.base /\ h.answer = answer /\ h.next = next
      <4>1. IsGet(g)
        BY <1>3
      <4>2. /\ IsGet(h) /\ h.what = g.what /\ h.query = g.query /\ h.after = g.after
            /\ h.base = g.base /\ h.answer = answer /\ h.next = next
        BY <3>5, <4>1, AnsweredFields
      <4> QED
        BY <2>2, <4>2
    <3>7. GetFits(h)
      BY <3>1, <3>4, <3>6 DEF GetFits
    <3>8. GetFits(h)'
      BY <1>2, <1>3, <3>7, GetKept
    <3> QED
      BY <2>2, <3>3, <3>5, <3>6, <3>8 DEF Answer, WithAnswer
  <2> QED
    BY <2>1, <2>2 DEF AnswerGet
<1>5. GetsFit'
  BY <1>2, <1>3, <1>4, GetAdded
<1>6. LoadsOnce'
  BY <1>1, <1>4 DEF PlatformInv, LoadsOnce
<1>7. OrgsTyped' /\ RowsListed' /\ ChangesFit'
  BY <1>1, <1>2, RowsKept, ChangesKeptFit DEF PlatformInv, OrgMoves
<1>8. StaffTyped' /\ ChosenTyped'
  BY <1>1 DEF PlatformInv, StaffTyped, ChosenTyped, Ids
<1> QED
  BY <1>5, <1>6, <1>7, <1>8 DEF PlatformInv

\* What comes behind the cursor continues the list.
LEMMA Joined ==
  ASSUME PlatformAssumption, NEW a, NEW b, ListOf(a), ListOf(b), NEW after \in 0..N, NEW next \in 0..N,
         \A i \in DOMAIN a : a[i].id <= after,
         \A i \in DOMAIN b : b[i].id > after /\ (next # 0 => b[i].id <= next),
         next # 0 => after <= next
  PROVE  ListOf(a \o b) /\ (next # 0 => \A i \in DOMAIN (a \o b) : (a \o b)[i].id <= next)
<1>0. N \in Nat /\ after \in Nat /\ next \in Nat
  BY DEF PlatformAssumption
<1>1. /\ a \in Seq(OrgRow) /\ b \in Seq(OrgRow)
      /\ \A i \in DOMAIN a : OrgCopy(a[i]) /\ a[i].id \in Nat
      /\ \A i \in DOMAIN b : OrgCopy(b[i]) /\ b[i].id \in Nat
      /\ \A i, j \in DOMAIN a : i < j => a[i].id < a[j].id
      /\ \A i, j \in DOMAIN b : i < j => b[i].id < b[j].id
  <2>1. \A row \in OrgRow : row.id \in Nat
    BY <1>0 DEF OrgRow, Orgs
  <2>2. \A i \in DOMAIN a : a[i] \in OrgRow
    BY DEF ListOf
  <2>3. \A i \in DOMAIN b : b[i] \in OrgRow
    BY DEF ListOf
  <2> QED
    BY <2>1, <2>2, <2>3 DEF ListOf
<1>2. PICK c : c = a \o b
  OBVIOUS
<1>3. PICK m \in Nat, n \in Nat : m = Len(a) /\ n = Len(b)
  BY <1>1
<1>4. /\ DOMAIN a = 1..m /\ DOMAIN b = 1..n
      /\ c \in Seq(OrgRow) /\ DOMAIN c = 1..(m + n)
      /\ \A i \in 1..(m + n) : c[i] = IF i <= m THEN a[i] ELSE b[i - m]
  BY <1>1, <1>2, <1>3, ConcatProperties
<1>5. \A i \in 1..(m + n) : (i <= m /\ i \in 1..m) \/ (i > m /\ i - m \in 1..n)
  BY <1>3
<1>6. ASSUME NEW i \in 1..(m + n) PROVE OrgCopy(c[i])
  <2>1. CASE i <= m
    <3>1. c[i] = a[i] /\ i \in DOMAIN a
      BY <1>4, <1>5, <2>1
    <3> QED
      BY <1>1, <3>1
  <2>2. CASE ~(i <= m)
    <3>1. c[i] = b[i - m] /\ i - m \in DOMAIN b
      BY <1>4, <1>5, <2>2
    <3> QED
      BY <1>1, <3>1
  <2> QED
    BY <2>1, <2>2
<1>7. ASSUME NEW i \in 1..(m + n), NEW j \in 1..(m + n), i < j
      PROVE  c[i].id < c[j].id
  <2>1. CASE j <= m
    <3>1. i \in DOMAIN a /\ j \in DOMAIN a
      BY <1>4, <1>7, <2>1
    <3>2. c[i] = a[i] /\ c[j] = a[j]
      BY <1>4, <1>7, <2>1
    <3> QED
      BY <1>1, <1>7, <3>1, <3>2
  <2>2. CASE i > m
    <3>1. i - m < j - m /\ i - m \in 1..n /\ j - m \in 1..n
      BY <1>3, <1>5, <1>7, <2>2
    <3>2. c[i] = b[i - m] /\ c[j] = b[j - m]
      BY <1>4, <1>7, <2>2
    <3> QED
      BY <1>1, <1>4, <3>1, <3>2
  <2>3. CASE i <= m /\ j > m
    <3>1. i \in 1..m /\ j - m \in 1..n /\ c[i] = a[i] /\ c[j] = b[j - m]
      BY <1>4, <1>5, <2>3
    <3>2. a[i].id \in Nat /\ b[j - m].id \in Nat /\ a[i].id <= after /\ b[j - m].id > after
      BY <1>1, <1>4, <3>1
    <3> QED
      BY <3>1, <3>2
  <2> QED
    BY <2>1, <2>2, <2>3, <1>3
<1>8. ASSUME next # 0, NEW i \in 1..(m + n) PROVE c[i].id <= next
  <2>1. CASE i <= m
    <3>1. c[i] = a[i] /\ i \in 1..m
      BY <1>4, <1>5, <2>1
    <3>2. a[i].id \in Nat /\ a[i].id <= after
      BY <1>1, <1>4, <3>1
    <3> QED
      BY <1>0, <1>8, <3>1, <3>2
  <2>2. CASE i > m
    <3>1. c[i] = b[i - m] /\ i - m \in 1..n
      BY <1>4, <1>5, <2>2
    <3> QED
      BY <1>4, <1>8, <3>1
  <2> QED
    BY <2>1, <2>2, <1>3
<1> QED
  BY <1>2, <1>4, <1>6, <1>7, <1>8 DEF ListOf

\* The rows change and the posts do not.
LEMMA ChangesKeptMerging ==
  ASSUME OrgsTyped, OrgMoves, ChangesFit, UNCHANGED <<at, changes>>,
         \A n \in DOMAIN changes : MergeFits(changes[n]) => MergeFits(changes[n])'
  PROVE  ChangesFit'
<1>1. ASSUME NEW n \in DOMAIN changes
      PROVE  ChangeFits(changes[n])' /\ MergeFits(changes[n])'
  <2>1. PICK p : p = changes[n]
    OBVIOUS
  <2>2. ChangeFits(p)'
    BY <2>1, ChangeKept DEF ChangesFit
  <2>3. changes[n]' = p
    BY <2>1
  <2> QED
    BY <2>2, <2>3 DEF ChangesFit
<1> QED
  BY <1>1 DEF ChangesFit, OneLeft

LEMMA KeptIsListed ==
  ASSUME PlatformAssumption, ChosenTyped, NEW listed, ListOf(listed)
  PROVE  Kept(listed) \in 0..N /\ (at = "directory" => Kept(listed) \in Ids(listed) \cup {0})
<1>1. N \in Nat /\ chosen \in 0..N
  BY DEF PlatformAssumption, ChosenTyped
<1>2. ASSUME listed # <<>> PROVE listed[1].id \in 0..N /\ listed[1].id \in Ids(listed)
  <2>1. listed \in Seq(OrgRow)
    BY DEF ListOf
  <2>2. 1 \in DOMAIN listed /\ listed[1] \in OrgRow
    BY <1>2, <2>1, EmptySeq
  <2> QED
    BY <1>1, <2>2 DEF OrgRow, Orgs, Ids
<1> QED
  BY <1>1, <1>2 DEF Kept

LEMMA ReceiveListStep ==
  ASSUME PlatformAssumption, PlatformInv, ChangesShaped', NEW g \in gets, ReceiveList(g)
  PROVE  PlatformInv'
<1>1. /\ UNCHANGED <<org, active, at, changes, query, candidates, picked>>
      /\ gets' = gets \ {g} /\ rows' = g.base \o g.answer /\ cursor' = g.next
      /\ chosen' = IF at = "interventions" THEN chosen ELSE Kept(rows')
  BY DEF ReceiveList, server, people
<1>2. OrgMoves
  BY <1>1, OrgKept DEF PlatformInv
<1>3. GetFits(g) /\ g.what = "list" /\ g.stage = "answered"
  BY DEF PlatformInv, GetsFit, ReceiveList
<1>4. PICK after, next, base, answer :
        after = g.after /\ next = g.next /\ base = g.base /\ answer = g.answer
  OBVIOUS
<1>5. /\ after \in 0..N /\ next \in {0} \cup after..N /\ ListOf(base) /\ ListOf(answer)
      /\ \A i \in DOMAIN base : base[i].id <= after
      /\ \A i \in DOMAIN answer : answer[i].id > after /\ (next # 0 => answer[i].id <= next)
  BY <1>3, <1>4 DEF GetFits
<1>6. next \in 0..N /\ (next # 0 => after <= next)
  BY <1>5 DEF PlatformAssumption
<1>7. PICK joined : joined = base \o answer
  OBVIOUS
<1>8. ListOf(joined) /\ (next # 0 => \A i \in DOMAIN joined : joined[i].id <= next)
  BY <1>5, <1>6, <1>7, Joined
<1>9. rows' = joined /\ cursor' = next
  BY <1>1, <1>4, <1>7
<1>10. ListOf(joined)'
  BY <1>2, <1>8, ListOfKept DEF PlatformInv
<1>11. RowsListed'
  BY <1>6, <1>8, <1>9, <1>10 DEF RowsListed
<1>12. ChosenTyped'
  <2>1. Kept(joined) \in 0..N /\ (at = "directory" => Kept(joined) \in Ids(joined) \cup {0})
    BY <1>8, KeptIsListed DEF PlatformInv
  <2>2. Ids(rows)' = Ids(joined)
    BY <1>9 DEF Ids
  <2> QED
    BY <1>1, <1>9, <2>1, <2>2 DEF PlatformInv, ChosenTyped
<1>13. ASSUME at = "lifecycle" PROVE rows = <<>> /\ \A h \in gets' : h.what # "list"
  BY <1>1, <1>3, <1>13 DEF PlatformInv, LoadsOnce
<1>14. LoadsOnce'
  BY <1>1, <1>13 DEF LoadsOnce
<1>15. ASSUME NEW n \in DOMAIN changes, MergeFits(changes[n]) PROVE MergeFits(changes[n])'
  <2>1. PICK p : p = changes[n]
    OBVIOUS
  <2>2. ~(Merges(p) /\ p.stage \in {"sent", "accepted"})
    <3>1. SUFFICES ASSUME Merges(p), p.stage \in {"sent", "accepted"} PROVE FALSE
      OBVIOUS
    <3>2. at = "lifecycle" /\ p.org \in Ids(rows)
      BY <1>15, <2>1, <3>1 DEF PlatformInv, ChangesFit, ChangeFits, MergeFits
    <3> QED
      BY <1>13, <3>2 DEF Ids
  <2>3. changes[n]' = p
    BY <1>1, <2>1
  <2> QED
    BY <2>2, <2>3 DEF MergeFits, Merges
<1>16. ChangesFit'
  BY <1>1, <1>2, <1>15, ChangesKeptMerging DEF PlatformInv
<1>17. GetsFit' /\ OrgsTyped' /\ StaffTyped'
  BY <1>1, <1>2, GetsKept DEF PlatformInv, OrgMoves, StaffTyped
<1> QED
  BY <1>11, <1>12, <1>14, <1>16, <1>17 DEF PlatformInv

\* Neither the rows nor the server change.
LEMMA ListStays ==
  ASSUME PlatformInv, UNCHANGED <<org, at, rows, cursor>>
  PROVE  OrgMoves /\ OrgsTyped' /\ RowsListed' /\ (UNCHANGED changes => ChangesFit')
         /\ (gets' \subseteq gets => GetsFit' /\ LoadsOnce')
<1>1. OrgMoves
  BY OrgKept DEF PlatformInv
<1>2. gets' \subseteq gets => LoadsOnce'
  BY DEF PlatformInv, LoadsOnce
<1> QED
  BY <1>1, <1>2, RowsKept, GetsKept, ChangesKeptFit DEF PlatformInv, OrgMoves

LEMMA ChosenStays ==
  ASSUME ChosenTyped, UNCHANGED <<at, rows, chosen>>, query' = query \/ query' \subseteq Orgs
  PROVE  ChosenTyped'
BY DEF ChosenTyped, Ids

LEMMA ReceiveCandidatesStep ==
  ASSUME PlatformInv, ChangesShaped', NEW g \in gets, ReceiveCandidates(g)
  PROVE  PlatformInv'
<1>1. /\ UNCHANGED <<org, active, at, changes, rows, chosen, query, cursor, picked>>
      /\ gets' = gets \ {g} /\ candidates' = g.answer
  BY DEF ReceiveCandidates, server, list
<1>2. candidates' \subseteq Staff
  BY <1>1 DEF PlatformInv, GetsFit, GetFits, ReceiveCandidates
<1>3. OrgsTyped' /\ RowsListed' /\ ChangesFit' /\ GetsFit' /\ LoadsOnce'
  BY <1>1, ListStays
<1> QED
  BY <1>1, <1>2, <1>3, ChosenStays DEF PlatformInv, StaffTyped

LEMMA GetFailsStep ==
  ASSUME PlatformInv, ChangesShaped', NEW g \in gets, GetFails(g)
  PROVE  PlatformInv'
<1>1. /\ UNCHANGED <<org, active, at, changes, rows, chosen, query, cursor, picked>>
      /\ gets' = gets \ {g} /\ candidates' \in {candidates, {}}
  BY DEF GetFails, server, people
<1>2. OrgsTyped' /\ RowsListed' /\ ChangesFit' /\ GetsFit' /\ LoadsOnce'
  BY <1>1, ListStays
<1> QED
  BY <1>1, <1>2, ChosenStays DEF PlatformInv, StaffTyped

-----------------------------------------------------------------------------
(***************************************************************************)
(* Steps of the user.                                                      *)
(***************************************************************************)
\* A list is asked for; the lifecycle page never does.
LEMMA Asked ==
  ASSUME PlatformInv, UNCHANGED <<org, at, rows, cursor>>,
         NEW n, NEW what, NEW of, NEW q, NEW after, NEW base, NEW closes,
         gets' = gets \cup {Get(n, what, of, q, after, base, closes)},
         \/ what = "candidates" /\ of \in Orgs
         \/ /\ what = "list" /\ at # "lifecycle" /\ q \subseteq Orgs /\ after \in 0..N
            /\ ListOf(base) /\ \A i \in DOMAIN base : base[i].id <= after
  PROVE  GetsFit' /\ LoadsOnce'
<1>1. OrgMoves
  BY OrgKept DEF PlatformInv
<1>2. PICK g : g = Get(n, what, of, q, after, base, closes)
  OBVIOUS
<1>3. /\ IsGet(g) /\ g.what = what /\ g.org = of /\ g.query = q /\ g.after = after
      /\ g.base = base /\ g.stage = "sent"
  BY <1>2, GetIsOne
<1>4. GetFits(g)
  BY <1>3 DEF GetFits
<1>5. GetFits(g)'
  BY <1>1, <1>4, GetKept DEF PlatformInv
<1>6. GetsFit'
  BY <1>1, <1>2, <1>3, <1>5, GetAdded DEF PlatformInv
<1>7. LoadsOnce'
  BY <1>2, <1>3 DEF PlatformInv, LoadsOnce
<1> QED
  BY <1>6, <1>7

LEMMA ChooseStep ==
  ASSUME PlatformAssumption, PlatformInv, ChangesShaped', NEW o \in 0..N, Choose(o)
  PROVE  PlatformInv'
<1>1. /\ UNCHANGED <<org, active, at, changes, rows, query, cursor>>
      /\ chosen' = o /\ o \in Ids(rows) \cup (IF at = "directory" THEN {} ELSE {0})
      /\ picked' \in {picked, Nobody} /\ candidates' \in {candidates, {}}
  BY DEF Choose, server, people
<1>2. StaffTyped' /\ ChosenTyped'
  BY <1>1 DEF PlatformInv, StaffTyped, ChosenTyped, Ids
<1>3. GetsFit' /\ LoadsOnce'
  <2>1. CASE gets' = gets
    BY <1>1, <2>1, ListStays
  <2>2. CASE gets' # gets
    <3>1. o # 0 /\ gets' = gets \cup {Get(asked, "candidates", o, {}, 0, <<>>, FALSE)}
      BY <2>2 DEF Choose, Ask
    <3>2. o \in Orgs
      BY <3>1 DEF PlatformAssumption, Orgs
    <3> QED
      BY <1>1, <3>1, <3>2, Asked
  <2> QED
    BY <2>1, <2>2
<1> QED
  BY <1>1, <1>2, <1>3, ListStays DEF PlatformInv

LEMMA PickStep ==
  ASSUME PlatformInv, ChangesShaped', NEW m \in Staff, Pick(m)
  PROVE  PlatformInv'
<1>1. /\ UNCHANGED <<org, active, at, gets, changes, rows, chosen, query, cursor, candidates>>
      /\ picked' = m
  BY DEF Pick, server, net, list
<1> QED
  BY <1>1, ListStays, ChosenStays DEF PlatformInv, StaffTyped

LEMMA SearchDirectoryStep ==
  ASSUME PlatformAssumption, PlatformInv, ChangesShaped', SearchDirectory
  PROVE  PlatformInv'
<1>1. /\ UNCHANGED <<org, active, at, changes, rows, chosen, cursor, candidates, picked>>
      /\ at = "directory" /\ query' \subseteq Orgs
      /\ gets' = gets \cup {Get(asked, "list", 0, query', 0, <<>>, FALSE)}
  BY DEF SearchDirectory, LoadList, Ask, server, people
<1>2. 0 \in 0..N /\ \A i \in DOMAIN <<>> : <<>>[i].id <= 0
  BY DEF PlatformAssumption
<1>3. PICK q : q = query'
  OBVIOUS
<1>4. GetsFit' /\ LoadsOnce'
  BY <1>1, <1>2, <1>3, EmptyList, Asked
<1> QED
  BY <1>1, <1>4, ListStays, ChosenStays DEF PlatformInv, StaffTyped

LEMMA LoadMoreStep ==
  ASSUME PlatformInv, ChangesShaped', LoadMore
  PROVE  PlatformInv'
<1>1. /\ UNCHANGED <<org, active, at, changes, rows, chosen, query, cursor, candidates, picked>>
      /\ at = "directory" /\ cursor # 0
      /\ gets' = gets \cup {Get(asked, "list", 0, query, cursor, rows, FALSE)}
  BY DEF LoadMore, LoadList, Ask, server, people
<1>2. /\ query \subseteq Orgs /\ cursor \in 0..N /\ ListOf(rows)
      /\ \A i \in DOMAIN rows : rows[i].id <= cursor
  BY <1>1 DEF PlatformInv, ChosenTyped, RowsListed
<1>3. GetsFit' /\ LoadsOnce'
  BY <1>1, <1>2, Asked
<1> QED
  BY <1>1, <1>3, ListStays, ChosenStays DEF PlatformInv, StaffTyped

LEMMA ToggleResendStep ==
  ASSUME PlatformInv, ChangesShaped', ToggleResend
  PROVE  PlatformInv'
<1>1. UNCHANGED <<org, active, at, gets, changes, rows, chosen, query, cursor, candidates, picked>>
  BY DEF ToggleResend, server, net, list, people
<1> QED
  BY <1>1, ListStays, ChosenStays DEF PlatformInv, StaffTyped

\* Only one row is that of the Organization chosen.
LEMMA ChosenRow ==
  ASSUME RowsListed, chosen \in Ids(rows)
  PROVE  /\ chosen \in Orgs /\ OrgCopy(RowOf(chosen)) /\ RowOf(chosen).id = chosen
         /\ \A i \in DOMAIN rows : rows[i].id = chosen => rows[i] = RowOf(chosen)
<1>1. /\ rows \in Seq(OrgRow) /\ \A i \in DOMAIN rows : rows[i] \in OrgRow /\ OrgCopy(rows[i])
      /\ \A i, j \in DOMAIN rows : i < j => rows[i].id < rows[j].id
  BY DEF RowsListed, ListOf
<1>2. PICK k : k = CHOOSE i \in DOMAIN rows : rows[i].id = chosen
  OBVIOUS
<1>3. k \in DOMAIN rows /\ rows[k].id = chosen /\ RowOf(chosen) = rows[k]
  BY <1>2 DEF Ids, RowOf
<1>4. ASSUME NEW i \in DOMAIN rows, rows[i].id = chosen PROVE i = k
  <2>1. \A j \in DOMAIN rows : rows[j].id \in 1..N
    BY <1>1 DEF OrgRow, Orgs
  <2>2. ~(i < k) /\ ~(k < i)
    BY <1>1, <1>3, <1>4, <2>1
  <2>3. i \in Nat /\ k \in Nat
    BY <1>1, <1>3
  <2> QED
    BY <2>2, <2>3
<1> QED
  BY <1>1, <1>3, <1>4 DEF OrgRow

LEMMA ChangeAdded ==
  ASSUME PlatformInv, ChangesShaped', NEW p, SubmitChange(p), p.stage = "sent",
         ChangeFits(p), MergeFits(p), at = "lifecycle" => ~Submitting
  PROVE  PlatformInv'
<1>1. /\ UNCHANGED <<org, active, at, gets, rows, chosen, query, cursor, candidates, picked>>
      /\ changes' = Append(changes, p)
  BY DEF SubmitChange, server, list, people
<1>2. OrgMoves /\ OrgsTyped' /\ RowsListed' /\ GetsFit' /\ LoadsOnce'
  BY <1>1, ListStays
<1>3. PICK m \in Nat : m = Len(changes)
  BY DEF PlatformInv, ChangesShaped
<1>4. /\ DOMAIN changes = 1..m /\ DOMAIN changes' = 1..(m + 1)
      /\ changes'[m + 1] = p /\ \A n \in 1..m : changes'[n] = changes[n]
  <2>1. changes \in Seq({changes[n] : n \in DOMAIN changes} \cup {p})
    BY DEF PlatformInv, ChangesShaped
  <2>2. /\ changes' \in Seq({changes[n] : n \in DOMAIN changes} \cup {p})
        /\ Len(changes') = m + 1 /\ changes'[m + 1] = p
        /\ \A n \in 1..m : changes'[n] = changes[n]
    BY <1>1, <1>3, <2>1, AppendProperties
  <2> QED
    BY <1>3, <2>1, <2>2
<1>5. ASSUME NEW n \in 1..(m + 1)
      PROVE  ChangeFits(changes[n])' /\ MergeFits(changes[n])'
  <2>1. PICK q : q = changes'[n]
    OBVIOUS
  <2>2. ChangeFits(q) /\ MergeFits(q)
    <3>1. n \in 1..m \/ n = m + 1
      OBVIOUS
    <3> QED
      BY <1>4, <2>1, <3>1 DEF PlatformInv, ChangesFit
  <2>3. ChangeFits(q)' /\ MergeFits(q)'
    BY <1>1, <1>2, <2>2, ChangeKept, MergeKept DEF PlatformInv
  <2> QED
    BY <2>1, <2>3
<1>6. OneLeft'
  <2>1. SUFFICES ASSUME at = "lifecycle", NEW n \in 1..(m + 1), changes'[n].stage # "over"
                 PROVE  n = m + 1
    BY <1>1, <1>4 DEF OneLeft
  <2>2. \A k \in 1..m : changes[k].stage = "over"
    BY <1>4, <2>1 DEF Submitting
  <2>3. n \in 1..m \/ n = m + 1
    OBVIOUS
  <2> QED
    BY <1>4, <2>1, <2>2, <2>3
<1>7. ChangesFit'
  BY <1>4, <1>5, <1>6 DEF ChangesFit
<1> QED
  BY <1>1, <1>2, <1>7, ChosenStays DEF PlatformInv, StaffTyped

LEMMA SubmitStatusStep ==
  ASSUME PlatformInv, ChangesShaped', SubmitStatus
  PROVE  PlatformInv'
<1>1. at = "lifecycle" /\ chosen \in Ids(rows) /\ ~Submitting
  BY DEF SubmitStatus
<1>2. PICK op, to : /\ SubmitChange(Change(op, to, Nobody)) /\ op \in {"access", "commercial"}
                    /\ op = "access" => to \in AllowedTransitions[RowOf(chosen).access]
                    /\ op = "commercial" => to \in Commercial
  BY DEF SubmitStatus
<1>3. PICK p : p = Change(op, to, Nobody)
  OBVIOUS
<1>4. PICK row : row = RowOf(chosen)
  OBVIOUS
<1>5. /\ p.op = op /\ p.org = chosen /\ p.to = to /\ p.stage = "sent" /\ p.version = row.version
      /\ p.saw = row
  BY <1>2, <1>3, <1>4 DEF Change
<1>6. /\ chosen \in Orgs /\ OrgCopy(row) /\ row.id = chosen
      /\ \A i \in DOMAIN rows : rows[i].id = chosen => rows[i] = row
  BY <1>1, <1>4, ChosenRow DEF PlatformInv
<1>7. ChangeFits(p)
  BY <1>1, <1>2, <1>4, <1>5, <1>6 DEF ChangeFits, Merges
<1>8. MergeFits(p)
  BY <1>1, <1>5, <1>6 DEF MergeFits
<1> QED
  BY <1>1, <1>2, <1>3, <1>5, <1>7, <1>8, ChangeAdded

LEMMA SubmitInterventionStep ==
  ASSUME PlatformAssumption, PlatformInv, ChangesShaped', SubmitIntervention
  PROVE  PlatformInv'
<1>1. at = "interventions" /\ chosen # 0 /\ SubmitChange(Change("suspend", Nobody, picked))
  BY DEF SubmitIntervention
<1>2. PICK p : p = Change("suspend", Nobody, picked)
  OBVIOUS
<1>3. p.op = "suspend" /\ p.org = chosen /\ p.stage = "sent"
  BY <1>2 DEF Change
<1>4. chosen \in Orgs
  BY <1>1 DEF PlatformInv, ChosenTyped, PlatformAssumption, Orgs
<1>5. ChangeFits(p) /\ MergeFits(p)
  BY <1>3, <1>4 DEF ChangeFits, MergeFits, Merges
<1> QED
  BY <1>1, <1>2, <1>3, <1>5, ChangeAdded

LEMMA SubmitResendStep ==
  ASSUME PlatformInv, ChangesShaped', SubmitResend
  PROVE  PlatformInv'
<1>1. at = "directory" /\ chosen \in Ids(rows) /\ SubmitChange(Change("resend", Nobody, Nobody))
  BY DEF SubmitResend, ResendShown, PlatformInv, ChosenTyped
<1>2. PICK p : p = Change("resend", Nobody, Nobody)
  OBVIOUS
<1>3. PICK row : row = RowOf(chosen)
  OBVIOUS
<1>4. /\ p.op = "resend" /\ p.org = chosen /\ p.stage = "sent" /\ p.query = query
      /\ p.version = row.version /\ p.saw = row
  BY <1>2, <1>3 DEF Change
<1>5. chosen \in Orgs /\ OrgCopy(row) /\ row.id = chosen
  BY <1>1, <1>3, ChosenRow DEF PlatformInv
<1>6. ChangeFits(p) /\ MergeFits(p)
  BY <1>1, <1>4, <1>5 DEF PlatformInv, ChosenTyped, ChangeFits, MergeFits, Merges
<1> QED
  BY <1>1, <1>2, <1>4, <1>6, ChangeAdded

-----------------------------------------------------------------------------
(***************************************************************************)
(* Steps of the posts.                                                     *)
(***************************************************************************)
\* A post ends, or its answer is lost.
LEMMA ChangeEnds ==
  ASSUME PlatformInv, OrgMoves, UNCHANGED at, NEW n \in DOMAIN changes,
         NEW stage \in {"over", "lost"}, changes' = [changes EXCEPT ![n].stage = stage],
         changes[n].stage \in {"sent", "accepted"},
         \A m \in DOMAIN changes \ {n} : MergeFits(changes[m]) => MergeFits(changes[m])'
  PROVE  ChangesFit'
<1>1. IsChange(changes[n]) /\ ChangeFits(changes[n])
  BY DEF PlatformInv, ChangesShaped, ChangesFit
<1>2. PICK p : p = changes[n]
  OBVIOUS
<1>3. PICK q : q = [p EXCEPT !.stage = stage]
  OBVIOUS
<1>4. q.op = p.op /\ q.org = p.org /\ q.to = p.to /\ q.query = p.query /\ q.stage = stage
  BY <1>1, <1>2, <1>3, RestagedFields
<1>5. ChangeFits(q)' /\ MergeFits(q)'
  BY <1>1, <1>2, <1>4 DEF ChangeFits, MergeFits, Merges
<1>6. changes' = [changes EXCEPT ![n] = q]
  BY <1>2, <1>3
<1> QED
  BY <1>5, <1>6, ChangeReplaced DEF PlatformInv

LEMMA OthersMerge ==
  ASSUME OrgsTyped, OrgMoves, UNCHANGED rows, NEW n \in DOMAIN changes,
         \A m \in DOMAIN changes \ {n} : changes'[m] = changes[m]
  PROVE  \A m \in DOMAIN changes \ {n} : MergeFits(changes[m]) => MergeFits(changes[m])'
<1>1. SUFFICES ASSUME NEW m \in DOMAIN changes \ {n}, MergeFits(changes[m])
               PROVE  MergeFits(changes[m])'
  OBVIOUS
<1>2. PICK p : p = changes[m]
  OBVIOUS
<1>3. MergeFits(p)'
  BY <1>1, <1>2, MergeKept
<1>4. changes'[m] = p
  BY <1>2
<1> QED
  BY <1>3, <1>4

LEMMA OthersStay ==
  ASSUME ChangesShaped, NEW n \in DOMAIN changes, NEW q, changes' = [changes EXCEPT ![n] = q]
  PROVE  \A m \in DOMAIN changes \ {n} : changes'[m] = changes[m]
BY DEF ChangesShaped

\* What the server accepts, its user has seen.
LEMMA ServedSeen ==
  ASSUME OrgsTyped, NEW p, ChangeFits(p), p.stage = "sent", p.op # "suspend", MayApply(p)
  PROVE  /\ p.org \in Orgs /\ org[p.org] \in OrgRow /\ p.saw \in OrgRow
         /\ Seen(p.saw, org[p.org])
<1>1. /\ p.org \in Orgs /\ p.op \in {"access", "commercial", "resend"}
      /\ OrgCopy(p.saw) /\ p.saw.id = p.org /\ p.saw.version = p.version
  BY DEF ChangeFits
<1>2. org[p.org].version = p.version
  BY <1>1 DEF MayApply
<1> QED
  BY <1>1, <1>2 DEF OrgCopy, OrgsTyped

LEMMA ServedMoves ==
  ASSUME OrgsTyped, NEW p, ChangeFits(p), p.stage = "sent", MayApply(p),
         org' = [org EXCEPT ![p.org] = Applied(@, p)]
  PROVE  OrgMoves /\ org'[p.org] = Applied(org[p.org], p)
<1>1. PICK o \in Orgs : o = p.org
  BY DEF ChangeFits
<1>2. PICK row \in OrgRow : row = org[o] /\ row.id = o
  BY DEF OrgsTyped
<1>3. PICK next : next = Applied(row, p)
  OBVIOUS
<1>4. org' = [org EXCEPT ![o] = next] /\ org'[o] = next
  BY <1>1, <1>2, <1>3 DEF OrgsTyped
<1>5. CASE p.op = "suspend"
  <2>1. next = row
    BY <1>3, <1>5 DEF Applied
  <2>2. org' = org
    BY <1>2, <1>4, <2>1 DEF OrgsTyped
  <2> QED
    BY <1>1, <1>2, <1>3, <1>4, <2>2, OrgKept
<1>6. CASE p.op # "suspend"
  <2>1. /\ p.op \in {"access", "commercial", "resend"}
        /\ p.op = "access" => p.to \in DOMAIN AllowedTransitions
        /\ p.op = "commercial" => p.to \in Commercial
    <3>1. p.op = "access" => p.to \in AllowedTransitions[p.saw.access] /\ p.saw \in OrgRow
      BY DEF ChangeFits, OrgCopy
    <3>2. \A saw \in OrgRow : saw.access \in DOMAIN AllowedTransitions
      BY DEF OrgRow
    <3>3. p.op = "access" => p.to \in DOMAIN AllowedTransitions
      BY <3>1, <3>2, Statuses
    <3> QED
      BY <1>6, <3>3 DEF ChangeFits
  <2>2. next \in OrgRow /\ next.id = o /\ (next = row \/ next.version = row.version + 1)
    BY <1>2, <1>3, <2>1, AppliedRow
  <2>3. row.version \in Nat
    BY DEF OrgRow
  <2>4. row.version <= next.version /\ (row.version = next.version => next = row)
    BY <2>2, <2>3
  <2> QED
    BY <1>1, <1>2, <1>3, <1>4, <2>2, <2>4, OrgWritten
<1> QED
  BY <1>5, <1>6

\* The answer fits the row that was shown.
LEMMA ServedMerges ==
  ASSUME OrgsTyped, NEW p, ChangeFits(p), MergeFits(p), p.stage = "sent", MayApply(p),
         org'[p.org] = Applied(org[p.org], p), UNCHANGED rows,
         NEW q, q.op = p.op, q.org = p.org, q.saw = org'[p.org], q.stage = "accepted"
  PROVE  MergeFits(q)'
<1>1. SUFFICES ASSUME Merges(p) PROVE MergeFits(q)'
  BY DEF MergeFits, Merges
<1>2. PICK o, row, saw : o = p.org /\ row = org[o] /\ saw = p.saw
  OBVIOUS
<1>3. o \in Orgs /\ row \in OrgRow /\ row.id = o /\ saw \in OrgRow /\ Seen(saw, row)
  BY <1>1, <1>2, ServedSeen DEF Merges, OrgsTyped
<1>4. /\ p.op = "access" => /\ p.to \in AllowedTransitions[saw.access]
                            /\ p.to \in AllowedTransitions[row.access] \cup {row.access}
      /\ p.op = "commercial" => p.to \in Commercial
  BY <1>1, <1>2 DEF ChangeFits, MayApply, Merges
<1>5. q.saw = Applied(row, p) /\ org'[o] = Applied(row, p)
  BY <1>2
<1>6. /\ Merged(saw, q) \in OrgRow /\ Merged(saw, q).id = o
      /\ Merged(saw, q).version = org'[o].version /\ Seen(Merged(saw, q), org'[o])
  BY <1>1, <1>3, <1>4, <1>5, ServedMerge
<1>7. PICK merged : merged = Merged(saw, q)
  OBVIOUS
<1>8. OrgCopy(merged)'
  <2>1. merged.version \in Nat
    BY <1>6, <1>7 DEF OrgRow
  <2> QED
    BY <1>6, <1>7, <2>1 DEF OrgCopy
<1>9. o \in Ids(rows) /\ \A i \in DOMAIN rows : rows[i].id = o => rows[i] = saw
  BY <1>1, <1>2 DEF MergeFits
<1>10. ASSUME NEW i \in DOMAIN rows, rows[i].id = o
       PROVE  OrgCopy(Merged(rows[i], q))'
  <2>1. rows[i] = saw
    BY <1>9, <1>10
  <2>2. Merged(rows[i], q)' = merged
    BY <1>7, <2>1 DEF Merged
  <2> QED
    BY <1>8, <2>2 DEF OrgCopy
<1> QED
  BY <1>2, <1>9, <1>10 DEF MergeFits, Ids

LEMMA ServeChangeStep ==
  ASSUME PlatformInv, ChangesShaped', NEW n \in DOMAIN changes, ServeChange(n)
  PROVE  PlatformInv'
<1>1. UNCHANGED <<at, gets, rows, chosen, query, cursor, candidates, picked>>
  BY DEF ServeChange, list, people
<1>2. PICK p : p = changes[n]
  OBVIOUS
<1>3. /\ IsChange(p) /\ ChangeFits(p) /\ MergeFits(p) /\ p.stage = "sent"
      /\ OrgsTyped /\ ChangesShaped
  BY <1>2 DEF ServeChange, PlatformInv, ChangesShaped, ChangesFit
<1>4. OrgMoves /\ ChangesFit' /\ active' \subseteq active
  <2>1. CASE MayApply(p)
    <3>1. /\ org' = [org EXCEPT ![p.org] = Applied(@, p)] /\ active' = active \ {p.member}
          /\ changes' = [changes EXCEPT ![n].stage = "accepted", ![n].saw = org'[p.org]]
      BY <1>2, <2>1 DEF ServeChange
    <3>2. OrgMoves /\ org'[p.org] = Applied(org[p.org], p)
      BY <1>3, <2>1, <3>1, ServedMoves
    <3>3. PICK saw : saw = org'[p.org]
      OBVIOUS
    <3>4. PICK q : q = WithSaw(p, "accepted", saw)
      OBVIOUS
    <3>5. /\ q.op = p.op /\ q.org = p.org /\ q.to = p.to /\ q.query = p.query
          /\ q.stage = "accepted" /\ q.saw = saw
      BY <1>3, <3>4, RestagedFields
    <3>6. changes' = [changes EXCEPT ![n] = q]
      <4>1. changes' = [changes EXCEPT ![n].stage = "accepted", ![n].saw = saw]
        BY <3>1, <3>3
      <4>2. changes \in Seq({changes[m] : m \in DOMAIN changes})
        BY <1>3 DEF ChangesShaped
      <4>3. PICK r : r = [changes[n] EXCEPT !.stage = "accepted", !.saw = saw]
        OBVIOUS
      <4>4. changes' = [changes EXCEPT ![n] = r]
        BY <4>1, <4>2, <4>3
      <4>5. q = r
        BY <1>2, <3>4, <4>3 DEF WithSaw
      <4> QED
        BY <4>4, <4>5
    <3>7. MergeFits(q)'
      BY <1>1, <1>3, <2>1, <3>2, <3>3, <3>5, ServedMerges
    <3>8. ChangeFits(q)'
      BY <1>1, <1>3, <3>5 DEF ChangeFits, Merges
    <3>9. \A m \in DOMAIN changes \ {n} : MergeFits(changes[m]) => MergeFits(changes[m])'
      BY <1>1, <1>3, <3>2, <3>6, OthersStay, OthersMerge
    <3>10. ChangesFit'
      BY <1>1, <1>2, <1>3, <3>2, <3>6, <3>7, <3>8, <3>9, ChangeReplaced DEF PlatformInv
    <3> QED
      BY <3>1, <3>2, <3>10
  <2>2. CASE ~MayApply(p)
    <3>1. changes' = [changes EXCEPT ![n].stage = "over"] /\ UNCHANGED <<org, active>>
      BY <1>2, <2>2 DEF ServeChange
    <3>2. OrgMoves
      BY <1>3, <3>1, OrgKept
    <3>3. \A m \in DOMAIN changes \ {n} : MergeFits(changes[m]) => MergeFits(changes[m])'
      BY <1>1, <1>3, <3>1, <3>2, OthersStay, OthersMerge
    <3> QED
      BY <1>1, <1>2, <1>3, <3>1, <3>2, <3>3, ChangeEnds
  <2> QED
    BY <2>1, <2>2
<1>5. OrgsTyped' /\ RowsListed' /\ GetsFit'
  BY <1>1, <1>4, RowsKept, GetsKept DEF PlatformInv, OrgMoves
<1>6. StaffTyped' /\ ChosenTyped' /\ LoadsOnce'
  BY <1>1, <1>4, ChosenStays DEF PlatformInv, StaffTyped, LoadsOnce
<1> QED
  BY <1>4, <1>5, <1>6 DEF PlatformInv

LEMMA SuspendedStep ==
  ASSUME PlatformInv, ChangesShaped', NEW n \in DOMAIN changes, Suspended(n)
  PROVE  PlatformInv'
<1>1. /\ UNCHANGED <<org, active, at, gets, rows, chosen, query, cursor>>
      /\ candidates' \subseteq candidates /\ picked' = Nobody
      /\ changes[n].stage = "accepted" /\ changes' = [changes EXCEPT ![n].stage = "over"]
  BY DEF Suspended, server, list
<1>2. OrgMoves /\ OrgsTyped' /\ RowsListed' /\ GetsFit' /\ LoadsOnce'
  BY <1>1, ListStays
<1>3. \A m \in DOMAIN changes \ {n} : MergeFits(changes[m]) => MergeFits(changes[m])'
  BY <1>1, <1>2, OthersStay, OthersMerge DEF PlatformInv
<1>4. ChangesFit'
  BY <1>1, <1>2, <1>3, ChangeEnds
<1> QED
  BY <1>1, <1>2, <1>4, ChosenStays DEF PlatformInv, StaffTyped

LEMMA LoseChangeStep ==
  ASSUME PlatformInv, ChangesShaped', NEW n \in DOMAIN changes, LoseChange(n)
  PROVE  PlatformInv'
<1>1. /\ UNCHANGED <<org, active, at, gets, rows, chosen, query, cursor, candidates, picked>>
      /\ changes[n].stage \in {"sent", "accepted"}
      /\ changes' = [changes EXCEPT ![n].stage = "lost"]
  BY DEF LoseChange, server, list, people
<1>2. OrgMoves /\ OrgsTyped' /\ RowsListed' /\ GetsFit' /\ LoadsOnce'
  BY <1>1, ListStays
<1>3. \A m \in DOMAIN changes \ {n} : MergeFits(changes[m]) => MergeFits(changes[m])'
  BY <1>1, <1>2, OthersStay, OthersMerge DEF PlatformInv
<1>4. ChangesFit'
  BY <1>1, <1>2, <1>3, ChangeEnds
<1> QED
  BY <1>1, <1>2, <1>4, ChosenStays DEF PlatformInv, StaffTyped

LEMMA ResentStep ==
  ASSUME PlatformAssumption, PlatformInv, ChangesShaped', NEW n \in DOMAIN changes, Resent(n)
  PROVE  PlatformInv'
<1>1. PICK q : q = changes[n].query
  OBVIOUS
<1>2. /\ UNCHANGED <<org, active, at, rows, chosen, query, cursor, candidates, picked>>
      /\ changes[n].stage = "accepted" /\ changes' = [changes EXCEPT ![n].stage = "over"]
      /\ gets' = gets \cup {Get(asked, "list", 0, q, 0, <<>>, TRUE)}
  BY <1>1 DEF Resent, LoadList, Ask, server, people
<1>3. at = "directory" /\ q \subseteq Orgs
  BY <1>1 DEF Resent, PlatformInv, ChangesFit, ChangeFits
<1>4. OrgMoves /\ OrgsTyped' /\ RowsListed'
  BY <1>2, ListStays
<1>5. 0 \in 0..N /\ \A i \in DOMAIN <<>> : <<>>[i].id <= 0
  BY DEF PlatformAssumption
<1>6. GetsFit' /\ LoadsOnce'
  BY <1>2, <1>3, <1>5, EmptyList, Asked
<1>7. \A m \in DOMAIN changes \ {n} : MergeFits(changes[m]) => MergeFits(changes[m])'
  BY <1>2, <1>4, OthersStay, OthersMerge DEF PlatformInv
<1>8. ChangesFit'
  BY <1>2, <1>4, <1>7, ChangeEnds
<1> QED
  BY <1>2, <1>4, <1>6, <1>8, ChosenStays DEF PlatformInv, StaffTyped

LEMMA StatusAppliedStep ==
  ASSUME PlatformInv, ChangesShaped', NEW n \in DOMAIN changes, StatusApplied(n)
  PROVE  PlatformInv'
<1>1. PICK p : p = changes[n]
  OBVIOUS
<1>2. /\ UNCHANGED <<org, active, at, gets, chosen, query, cursor, candidates, picked>>
      /\ p.stage = "accepted" /\ p.op \in {"access", "commercial"}
      /\ rows' = [i \in DOMAIN rows |-> IF rows[i].id = p.org THEN Merged(rows[i], p) ELSE rows[i]]
      /\ changes' = [changes EXCEPT ![n].stage = "over"]
  BY <1>1 DEF StatusApplied, server, people
<1>3. OrgMoves
  BY <1>2, OrgKept DEF PlatformInv
<1>4. /\ rows \in Seq(OrgRow) /\ \A i \in DOMAIN rows : OrgCopy(rows[i])
      /\ \A i, j \in DOMAIN rows : i < j => rows[i].id < rows[j].id
  BY DEF PlatformInv, RowsListed, ListOf
<1>5. at = "lifecycle" /\ \A i \in DOMAIN rows : rows[i].id = p.org => OrgCopy(Merged(rows[i], p))
  BY <1>1, <1>2 DEF PlatformInv, ChangesFit, ChangeFits, MergeFits, Merges
<1>6. DOMAIN rows' = DOMAIN rows /\ \A i \in DOMAIN rows : OrgCopy(rows'[i]) /\ rows'[i].id = rows[i].id
  <2>1. SUFFICES ASSUME NEW i \in DOMAIN rows PROVE OrgCopy(rows'[i]) /\ rows'[i].id = rows[i].id
    BY <1>2
  <2>2. rows[i] \in OrgRow
    BY <1>4
  <2>3. Merged(rows[i], p).id = rows[i].id
    <3>1. CASE p.op = "access"
      BY <2>2, <3>1 DEF Merged, OrgRow
    <3>2. CASE p.op = "commercial"
      BY <2>2, <3>2 DEF Merged, OrgRow
    <3> QED
      BY <1>2, <3>1, <3>2
  <2> QED
    BY <1>2, <1>4, <1>5, <2>3
<1>7. PICK l : l = rows'
  OBVIOUS
<1>8. ListOf(l)
  <2>1. PICK m \in Nat : m = Len(rows) /\ DOMAIN rows = 1..m
    BY <1>4
  <2>2. \A i \in 1..m : l[i] \in OrgRow
    BY <1>6, <1>7, <2>1 DEF OrgCopy
  <2>3. l = [i \in 1..m |-> l[i]]
    BY <1>2, <1>7, <2>1
  <2>4. l \in [1..m -> OrgRow]
    BY <2>2, <2>3
  <2>5. l \in Seq(OrgRow)
    BY <2>4, FunctionIsSeq
  <2> QED
    BY <1>4, <1>6, <1>7, <2>5 DEF ListOf
<1>9. ListOf(l)'
  BY <1>3, <1>8, ListOfKept DEF PlatformInv
<1>10. RowsListed'
  BY <1>2, <1>6, <1>7, <1>9 DEF PlatformInv, RowsListed
<1>11. ChosenTyped'
  BY <1>2, <1>5 DEF PlatformInv, ChosenTyped
<1>12. LoadsOnce'
  <2>1. ASSUME NEW g \in gets, g.what = "list" PROVE rows' = <<>>
    <3>1. rows = <<>>
      BY <1>5, <2>1 DEF PlatformInv, LoadsOnce
    <3>2. DOMAIN l = {}
      BY <1>6, <1>7, <3>1
    <3>3. l \in Seq(OrgRow)
      BY <1>8 DEF ListOf
    <3> QED
      BY <1>7, <3>2, <3>3, EmptySeq
  <2> QED
    BY <1>2, <2>1 DEF PlatformInv, LoadsOnce
<1>13. ASSUME NEW m \in DOMAIN changes \ {n} PROVE MergeFits(changes[m])'
  <2>1. changes[m].stage = "over"
    BY <1>1, <1>2, <1>5, <1>13 DEF PlatformInv, ChangesFit, OneLeft
  <2>2. changes'[m] = changes[m]
    BY <1>2, <1>13, OthersStay DEF PlatformInv
  <2> QED
    BY <2>1, <2>2 DEF MergeFits, Merges
<1>14. ChangesFit'
  BY <1>1, <1>2, <1>3, <1>13, ChangeEnds
<1>15. OrgsTyped' /\ GetsFit' /\ StaffTyped'
  BY <1>2, <1>3, GetsKept DEF PlatformInv, OrgMoves, StaffTyped
<1> QED
  BY <1>10, <1>11, <1>12, <1>14, <1>15 DEF PlatformInv

-----------------------------------------------------------------------------
(***************************************************************************)
(* The invariant.                                                          *)
(***************************************************************************)
LEMMA InitPlatform ==
  ASSUME PlatformAssumption, Init
  PROVE  PlatformInv
<1>1. /\ org \in [Orgs -> OrgRow] /\ \A o \in Orgs : org[o].id = o
  <2>1. CASE PlatformInit
    <3>1. [id : Orgs, access : {"PROVISIONING", "ACTIVE"}, commercial : {"DEMO"}, version : {1}]
             \subseteq OrgRow
      BY Statuses DEF OrgRow, Commercial
    <3> QED
      BY <2>1, <3>1 DEF PlatformInit
  <2>2. CASE PlatformClosed
    <3>1. \A o \in Orgs : [id |-> o, access |-> "ACTIVE", commercial |-> "DEMO", version |-> 1]
                            \in OrgRow
      BY Statuses DEF OrgRow, Commercial
    <3> QED
      BY <2>2, <3>1 DEF PlatformClosed
  <2> QED
    BY <2>1, <2>2 DEF Init
<1>2. /\ active = Staff /\ candidates = {} /\ picked = Nobody /\ changes = <<>> /\ rows = <<>>
      /\ query = Orgs /\ cursor = 0 /\ chosen \in 0..N /\ (at = "directory" => chosen = 0)
      /\ N \in Nat
  <2>1. N \in Nat /\ 0 \in 0..N
    BY DEF PlatformAssumption
  <2>2. CASE PlatformClosed
    BY <2>1, <2>2 DEF PlatformClosed
  <2>3. CASE PlatformInit
    BY <2>1, <2>3 DEF PlatformInit
  <2> QED
    BY <2>2, <2>3 DEF Init
<1>3. /\ StaffTyped /\ ChangesShaped /\ ChangesFit
  BY <1>2, EmptySeq DEF StaffTyped, ChangesShaped, ChangesFit, OneLeft
<1>4. RowsListed /\ ChosenTyped
  BY <1>2, EmptyList DEF RowsListed, ChosenTyped
<1>5. ASSUME NEW g \in gets
      PROVE  /\ IsGet(g) /\ GetFits(g)
             /\ g.what = "list" => g = Get(0, "list", 0, Orgs, 0, <<>>, FALSE)
  <2>1. CASE g = Get(0, "list", 0, Orgs, 0, <<>>, FALSE)
    <3>1. /\ IsGet(g) /\ g.what = "list" /\ g.query = Orgs /\ g.after = 0 /\ g.base = <<>>
          /\ g.stage = "sent"
      BY <2>1 DEF Get, IsGet
    <3>2. 0 \in 0..N /\ \A i \in DOMAIN <<>> : <<>>[i].id <= 0
      BY <1>2
    <3> QED
      BY <2>1, <3>1, <3>2, EmptyList DEF GetFits
  <2>2. CASE g = Get(1, "candidates", chosen, {}, 0, <<>>, FALSE) /\ chosen # 0
    <3>1. IsGet(g) /\ g.what = "candidates" /\ g.org = chosen /\ g.stage = "sent"
      BY <2>2 DEF Get, IsGet
    <3>2. chosen \in Orgs
      BY <1>2, <2>2 DEF Orgs
    <3> QED
      BY <3>1, <3>2 DEF GetFits
  <2> QED
    BY <1>5, <2>1, <2>2 DEF Init, PlatformInit, PlatformClosed
<1>6. GetsFit /\ LoadsOnce
  BY <1>2, <1>5 DEF GetsFit, LoadsOnce
<1> QED
  BY <1>1, <1>3, <1>4, <1>6 DEF PlatformInv, OrgsTyped

LEMMA NextPlatform ==
  ASSUME PlatformAssumption, PlatformInv, [Next]_vars
  PROVE  PlatformInv'
<1>1. ChangesShaped'
  BY ChangesKept DEF PlatformInv
<1>2. CASE UNCHANGED platformVars
  BY <1>2, PlatformStutters
<1>3. CASE PlatformNetwork
  <2>1. CASE Elsewhere
    BY <1>1, <2>1, ElsewhereStep
  <2>2. ASSUME NEW g \in gets,
               AnswerGet(g) \/ ReceiveList(g) \/ ReceiveCandidates(g) \/ GetFails(g)
        PROVE  PlatformInv'
    BY <1>1, <2>2, AnswerGetStep, ReceiveListStep, ReceiveCandidatesStep, GetFailsStep
  <2>3. ASSUME NEW n \in DOMAIN changes,
               ServeChange(n) \/ StatusApplied(n) \/ Suspended(n) \/ Resent(n) \/ LoseChange(n)
        PROVE  PlatformInv'
    BY <1>1, <2>3, ServeChangeStep, StatusAppliedStep, SuspendedStep, ResentStep, LoseChangeStep
  <2> QED
    BY <1>3, <2>1, <2>2, <2>3 DEF PlatformNetwork
<1>4. CASE PlatformUser
  <2>1. ASSUME NEW o \in 0..N, Choose(o) PROVE PlatformInv'
    BY <1>1, <2>1, ChooseStep
  <2>2. ASSUME NEW m \in Staff, Pick(m) PROVE PlatformInv'
    BY <1>1, <2>2, PickStep
  <2> QED
    BY <1>1, <1>4, <2>1, <2>2, SearchDirectoryStep, LoadMoreStep, ToggleResendStep,
       SubmitStatusStep, SubmitInterventionStep, SubmitResendStep DEF PlatformUser
<1> QED
  BY <1>2, <1>3, <1>4 DEF Next, vars, Authorize

LEMMA PlatformInvHolds == Spec => []PlatformInv
<1>1. Init => PlatformInv
  BY InitPlatform, PlatformAssumption
<1>2. PlatformInv /\ [Next]_vars => PlatformInv'
  BY NextPlatform, PlatformAssumption
<1> QED
  BY <1>1, <1>2, PTL DEF Spec

\* The server's rows keep their types, what the lists, GETs and posts of a
\* Platform page hold is never ahead of the server, and a list names each
\* Organization once (organization.service.ts, web/app/platform).
THEOREM PlatformInvariant == Spec => []PlatformIInv
BY PlatformInvHolds, PlatformParts, PTL

LEMMA ServedStep ==
  ASSUME PlatformInv, [Next]_vars, NEW n \in DOMAIN changes, ServedNow(n),
         changes[n].op # "suspend"
  PROVE  Seen(changes[n].saw, org[changes[n].org])
<1>1. PICK p : p = changes[n]
  OBVIOUS
<1>2. ChangeFits(p) /\ p.stage = "sent" /\ OrgsTyped
  BY <1>1 DEF PlatformInv, ChangesFit, ServedNow
<1>3. MayApply(p)
  BY <1>1, AcceptedIsServed DEF PlatformInv
<1> QED
  BY <1>1, <1>2, <1>3, ServedSeen

\* A status is changed, and a link replaced, in the state its Administrator was
\* looking at; only the owner's acceptance may have gone unseen
\* (organization.service.ts:281, initial-owner-acceptance.service.ts:107).
THEOREM ChangesApplyToWhatWasShown == Spec => AppliedToWhatWasShown
<1>1. PlatformInv /\ [Next]_vars =>
        [\A n \in DOMAIN changes :
           ServedNow(n) /\ changes[n].op # "suspend"
             => Seen(changes[n].saw, org[changes[n].org])]_platformVars
  BY ServedStep
<1> QED
  BY <1>1, PlatformInvHolds, PTL DEF Spec, AppliedToWhatWasShown

\* Both kinds of page at once, behind the shell (components/ui.tsx: AppShell).
THEOREM WebInvariant == Spec => []WebIInv
<1> DEFINE ShellTyped == shell \in {"verifying", "authorized"}
<1>1. Init => ShellTyped
  BY DEF Init
<1>2. ShellTyped /\ [Next]_vars => ShellTyped'
  BY DEF Next, vars, Authorize
<1>3. ShellTyped /\ PageIInv /\ PlatformIInv => WebIInv
  BY DEF WebIInv
<1> QED
  BY <1>1, <1>2, <1>3, PageInvariant, PlatformInvariant, PTL DEF Spec

-----------------------------------------------------------------------------
(***************************************************************************)
(* The server of the page: what StructureRegister promises it also keeps.  *)
(***************************************************************************)
Promises == RegisterTypeOK /\ ParentsActive /\ IdentitiesUnique

\* One Company is written.
LEMMA CompanyKeepsPromises ==
  ASSUME RegisterAssumption, Promises, NEW c \in Companies, NEW row \in CompanyRow,
         row.name # None, company' = [company EXCEPT ![c] = row], UNCHANGED scope,
         \A d \in Companies \ {c} : company[d].name # row.name,
         row.status = "ACTIVE" \/ (\A s \in Scopes : scope[s].company = c => scope[s].status # "ACTIVE")
  PROVE  Promises'
<1>1. /\ company \in [Companies -> CompanyRow] /\ scope \in [Scopes -> ScopeRow]
      /\ \A d \in Companies : company[d].name = None => company[d] = NoCompany
      /\ \A s \in Scopes : IF scope[s].company # None
                           THEN company[scope[s].company].name # None /\ scope[s].label # None
                           ELSE scope[s] = NoScope
  BY DEF Promises, RegisterTypeOK, Existing, Placed
<1>2. \A d \in Companies : company'[d] = IF d = c THEN row ELSE company[d]
  BY <1>1
<1>3. ASSUME NEW s \in Scopes
      PROVE  scope[s].company = None \/ scope[s].company \in Companies
  BY <1>1 DEF ScopeRow
<1>4. RegisterTypeOK'
  <2>1. company' \in [Companies -> CompanyRow] /\ scope' \in [Scopes -> ScopeRow]
    BY <1>1
  <2>2. \A d \in Companies : company'[d].name = None => company'[d] = NoCompany
    BY <1>1, <1>2
  <2>3. ASSUME NEW s \in Scopes
        PROVE  IF scope'[s].company # None
               THEN company'[scope'[s].company].name # None /\ scope'[s].label # None
               ELSE scope'[s] = NoScope
    BY <1>1, <1>2, <1>3
  <2> QED
    BY <2>1, <2>2, <2>3 DEF RegisterTypeOK, Existing, Placed, NoCompany, NoScope
<1>5. ParentsActive'
  <2>1. SUFFICES ASSUME NEW s \in Scopes, scope[s].status = "ACTIVE"
                 PROVE  company'[scope[s].company].status = "ACTIVE"
    BY DEF ParentsActive
  <2>2. scope[s].company \in Companies
    BY <1>1, <1>3, <2>1 DEF NoScope
  <2> QED
    BY <1>2, <2>1, <2>2 DEF Promises, ParentsActive
<1>6. IdentitiesUnique'
  <2>1. ASSUME NEW d \in Companies, NEW e \in Companies, company'[d].name # None,
               company'[d].name = company'[e].name
        PROVE  d = e
    BY <1>2, <2>1 DEF Promises, IdentitiesUnique, Existing
  <2> QED
    BY <2>1 DEF Promises, IdentitiesUnique, Existing, Placed
<1> QED
  BY <1>4, <1>5, <1>6 DEF Promises

\* One Business Scope is written.
LEMMA ScopeKeepsPromises ==
  ASSUME RegisterAssumption, Promises, NEW s \in Scopes, NEW row \in ScopeRow,
         row.company \in Companies, row.label \in Labels,
         company[row.company].name # None,
         scope' = [scope EXCEPT ![s] = row], UNCHANGED company,
         row.status = "ACTIVE" => company[row.company].status = "ACTIVE",
         \A t \in Scopes \ {s} : scope[t].company = row.company => Key[scope[t].label] # Key[row.label]
  PROVE  Promises'
<1>1. /\ company \in [Companies -> CompanyRow] /\ scope \in [Scopes -> ScopeRow]
      /\ \A d \in Companies : company[d].name = None => company[d] = NoCompany
      /\ \A t \in Scopes : IF scope[t].company # None
                           THEN company[scope[t].company].name # None /\ scope[t].label # None
                           ELSE scope[t] = NoScope
  BY DEF Promises, RegisterTypeOK, Existing, Placed
<1>2. \A t \in Scopes : scope'[t] = IF t = s THEN row ELSE scope[t]
  BY <1>1
<1>3. row.company # None /\ row.label # None
  BY DEF RegisterAssumption
<1>4. RegisterTypeOK'
  <2>1. company' \in [Companies -> CompanyRow] /\ scope' \in [Scopes -> ScopeRow]
    BY <1>1
  <2>2. ASSUME NEW t \in Scopes
        PROVE  IF scope'[t].company # None
               THEN company[scope'[t].company].name # None /\ scope'[t].label # None
               ELSE scope'[t] = NoScope
    BY <1>1, <1>2, <1>3
  <2> QED
    BY <1>1, <2>1, <2>2 DEF RegisterTypeOK, Existing, Placed, NoCompany, NoScope
<1>5. ParentsActive'
  BY <1>2 DEF Promises, ParentsActive
<1>6. IdentitiesUnique'
  <2>1. ASSUME NEW t \in Scopes, NEW u \in Scopes, scope'[t].company # None,
               scope'[t].company = scope'[u].company,
               Key[scope'[t].label] = Key[scope'[u].label]
        PROVE  t = u
    <3>1. CASE t = s /\ u # s
      BY <1>2, <2>1, <3>1
    <3>2. CASE t # s /\ u = s
      BY <1>2, <2>1, <3>2
    <3>3. CASE t # s /\ u # s
      BY <1>2, <2>1, <3>3 DEF Promises, IdentitiesUnique, Placed
    <3> QED
      BY <3>1, <3>2, <3>3
  <2> QED
    BY <2>1 DEF Promises, IdentitiesUnique, Existing, Placed
<1> QED
  BY <1>4, <1>5, <1>6 DEF Promises

LEMMA RegisterStep ==
  ASSUME RegisterAssumption, Promises, [RegisterNext]_structure
  PROVE  Promises'
<1>1. /\ company \in [Companies -> CompanyRow] /\ scope \in [Scopes -> ScopeRow]
      /\ \A d \in Companies : company[d].name = None => company[d] = NoCompany
      /\ \A t \in Scopes : IF scope[t].company # None
                           THEN company[scope[t].company].name # None /\ scope[t].label # None
                           ELSE scope[t] = NoScope
  BY DEF Promises, RegisterTypeOK, Existing, Placed
<1>2. \A s \in Scopes : scope[s] # NoScope =>
        scope[s].company \in Companies /\ scope[s].label \in Labels
  BY <1>1 DEF ScopeRow
<1>3. ASSUME NEW c \in Companies, NEW name \in Names, CreateCompany(c, name)
      PROVE  Promises'
  <2>1. PICK row : row = NewCompany(name)
    OBVIOUS
  <2>2. row \in CompanyRow /\ row.name = name /\ row.status = "ACTIVE" /\ name # None
    BY <2>1 DEF NewCompany, CompanyRow, LifeStatuses, RegisterAssumption
  <2>3. /\ company' = [company EXCEPT ![c] = row] /\ UNCHANGED scope
        /\ \A d \in Companies \ {c} : company[d].name # name
    BY <1>3, <2>1 DEF CreateCompany, NameFree
  <2> QED
    BY <2>2, <2>3, CompanyKeepsPromises
<1>4. ASSUME NEW c \in Companies, NEW name \in Names, RenameCompany(c, name, company[c].version)
      PROVE  Promises'
  <2>1. PICK next \in Nat : next = company[c].version + 1
    BY <1>1 DEF CompanyRow
  <2>2. PICK row : row = [company[c] EXCEPT !.name = name, !.version = next]
    OBVIOUS
  <2>3. company[c] \in CompanyRow /\ name # None
    BY <1>1 DEF RegisterAssumption
  <2>4. row \in CompanyRow /\ row.name = name /\ row.status = company[c].status
    BY <2>2, <2>3 DEF CompanyRow
  <2>5. /\ company' = [company EXCEPT ![c] = row] /\ UNCHANGED scope
        /\ \A d \in Companies \ {c} : company[d].name # name
    BY <1>1, <1>4, <2>1, <2>2 DEF RenameCompany, MayRename, NameFree
  <2>6. row.status = "ACTIVE" \/ \A s \in Scopes : scope[s].company = c => scope[s].status # "ACTIVE"
    BY <2>4 DEF Promises, ParentsActive
  <2> QED
    BY <2>3, <2>4, <2>5, <2>6, CompanyKeepsPromises
<1>5. ASSUME NEW c \in Companies, NEW status \in LifeStatuses, ChangeCompany(c, status)
      PROVE  Promises'
  <2>1. PICK row : row = [company[c] EXCEPT !.status = status]
    OBVIOUS
  <2>2. company[c] \in CompanyRow /\ company[c].name # None
    BY <1>1, <1>5 DEF ChangeCompany, MayChangeCompany
  <2>3. row \in CompanyRow /\ row.name = company[c].name /\ row.status = status
    BY <2>1, <2>2 DEF CompanyRow
  <2>4. company' = [company EXCEPT ![c] = row] /\ UNCHANGED scope
    BY <1>5, <2>1 DEF ChangeCompany
  <2>5. \A d \in Companies \ {c} : company[d].name # row.name
    BY <2>2, <2>3 DEF Promises, IdentitiesUnique, Existing
  <2>6. row.status = "ACTIVE" \/ \A s \in Scopes : scope[s].company = c => scope[s].status # "ACTIVE"
    BY <1>5, <2>3 DEF ChangeCompany, MayChangeCompany, ActiveScopes, LifeStatuses
  <2> QED
    BY <2>2, <2>3, <2>4, <2>5, <2>6, CompanyKeepsPromises
<1>6. ASSUME NEW s \in Scopes, NEW c \in Companies, NEW label \in Labels, CreateScope(s, c, label)
      PROVE  Promises'
  <2>1. PICK row : row = NewScope(c, label)
    OBVIOUS
  <2>2. row \in ScopeRow /\ row.company = c /\ row.label = label /\ row.status = "ACTIVE"
    BY <2>1 DEF NewScope, ScopeRow, LifeStatuses
  <2>3. /\ scope' = [scope EXCEPT ![s] = row] /\ UNCHANGED company
        /\ \A t \in Scopes \ {s} : scope[t].company = c => Key[scope[t].label] # Key[label]
        /\ company[c].status = "ACTIVE"
    BY <1>6, <2>1 DEF CreateScope, KeyFree
  <2>4. company[c].name # None
    BY <1>1, <2>3 DEF NoCompany
  <2>5. /\ row \in ScopeRow /\ row.company \in Companies /\ row.label \in Labels
        /\ company[row.company].name # None /\ company[row.company].status = "ACTIVE"
    BY <2>2, <2>3, <2>4
  <2>6. \A t \in Scopes \ {s} : scope[t].company = row.company => Key[scope[t].label] # Key[row.label]
    BY <2>2, <2>3
  <2> QED
    BY <2>3, <2>5, <2>6, ScopeKeepsPromises
<1>7. ASSUME NEW s \in Scopes, NEW label \in Labels, UpdateScope(s, label, scope[s].version)
      PROVE  Promises'
  <2>1. PICK next \in Nat : next = scope[s].version + 1
    BY <1>1 DEF ScopeRow
  <2>2. PICK row : row = [scope[s] EXCEPT !.label = label, !.version = next]
    OBVIOUS
  <2>3. scope[s] \in ScopeRow /\ scope[s].company \in Companies
    BY <1>1, <1>2, <1>7 DEF UpdateScope, MayUpdate
  <2>4. /\ row \in ScopeRow /\ row.company = scope[s].company /\ row.label = label
        /\ row.status = scope[s].status
    BY <2>2, <2>3 DEF ScopeRow
  <2>5. /\ scope' = [scope EXCEPT ![s] = row] /\ UNCHANGED company
        /\ \A t \in Scopes \ {s} :
             scope[t].company = scope[s].company => Key[scope[t].label] # Key[label]
    BY <1>1, <1>7, <2>1, <2>2 DEF UpdateScope, MayUpdate, KeyFree
  <2>6. company[scope[s].company].name # None
    BY <1>1, <2>3, RegisterAssumption DEF RegisterAssumption
  <2>7. row.status = "ACTIVE" => company[row.company].status = "ACTIVE"
    BY <2>4 DEF Promises, ParentsActive
  <2>8. row \in ScopeRow /\ row.company \in Companies /\ row.label \in Labels
        /\ company[row.company].name # None
    BY <2>3, <2>4, <2>5, <2>6, <2>7
  <2>9. \A t \in Scopes \ {s} : scope[t].company = row.company => Key[scope[t].label] # Key[row.label]
    BY <2>3, <2>4, <2>5, <2>6, <2>7
  <2> QED
    BY <2>5, <2>7, <2>8, <2>9, ScopeKeepsPromises
<1>8. ASSUME NEW s \in Scopes, NEW status \in LifeStatuses, ChangeScope(s, status)
      PROVE  Promises'
  <2>1. PICK row : row = [scope[s] EXCEPT !.status = status]
    OBVIOUS
  <2>2. scope[s] \in ScopeRow /\ scope[s].company \in Companies /\ scope[s].label \in Labels
    BY <1>1, <1>2, <1>8 DEF ChangeScope, MayChangeScope
  <2>3. /\ row \in ScopeRow /\ row.company = scope[s].company /\ row.label = scope[s].label
        /\ row.status = status
    BY <2>1, <2>2 DEF ScopeRow
  <2>4. scope' = [scope EXCEPT ![s] = row] /\ UNCHANGED company
    BY <1>8, <2>1 DEF ChangeScope
  <2>5. company[scope[s].company].name # None /\ scope[s].company # None
    BY <1>1, <2>2, RegisterAssumption DEF RegisterAssumption
  <2>6. \A t \in Scopes \ {s} : scope[t].company = row.company => Key[scope[t].label] # Key[row.label]
    BY <2>3, <2>5 DEF Promises, IdentitiesUnique, Placed
  <2>7. row.status = "ACTIVE" => company[row.company].status = "ACTIVE"
    BY <1>8, <2>3 DEF ChangeScope, MayChangeScope
  <2>8. row \in ScopeRow /\ row.company \in Companies /\ row.label \in Labels
        /\ company[row.company].name # None
    BY <2>2, <2>3, <2>4, <2>5, <2>6, <2>7
  <2>9. \A t \in Scopes \ {s} : scope[t].company = row.company => Key[scope[t].label] # Key[row.label]
    BY <2>2, <2>3, <2>4, <2>5, <2>6, <2>7
  <2> QED
    BY <2>4, <2>7, <2>8, <2>9, ScopeKeepsPromises
<1>9. CASE UNCHANGED structure
  BY <1>9 DEF structure, Promises, RegisterTypeOK, ParentsActive, IdentitiesUnique, Existing, Placed
<1> QED
  BY <1>3, <1>4, <1>5, <1>6, <1>7, <1>8, <1>9 DEF RegisterNext

\* An ACTIVE Business Scope has an ACTIVE Company, and names and identities stay
\* unique, in any history of the transactions of OrganizationAdminService taken one
\* at a time; StructureProofs shows that their statements interleaved do no more.
THEOREM RegisterKeepsPromises == RegisterSpec => []Promises
<1>1. RegisterInit => Promises
  BY DEF RegisterInit, Promises
<1>2. Promises /\ [RegisterNext]_structure => Promises'
  BY RegisterStep, RegisterAssumption
<1> QED
  BY <1>1, <1>2, PTL DEF RegisterSpec
=============================================================================
