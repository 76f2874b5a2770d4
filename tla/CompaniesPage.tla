--------------------------- MODULE CompaniesPage ---------------------------
(***************************************************************************)
(* The page an Administrator manages the structure with                    *)
(* (web/app/administration/companies), against a server that keeps the     *)
(* promises of StructureRegister while others change the structure too.    *)
(*                                                                         *)
(* A load is one run of refresh: two GETs, answered at different moments;  *)
(* a newer one aborts it, which rejects whatever has not arrived.  A post  *)
(* is one mutation: it, or its answer, may get lost, and the user goes on  *)
(* meanwhile.                                                              *)
(* A list has fifty rows at most, those that match its search text: which  *)
(* rows these are is left open, any selection may be answered.             *)
(***************************************************************************)
EXTENDS StructureRegister, FiniteSets, Sequences

CONSTANTS MaxLoads, MaxPosts, MaxOthers  \* bounds: loads, posts, changes by others

Operations == {"create", "edit", "review", "createScope", "deactivate", "reactivate"}

ASSUME PageAssumption ==
  /\ Companies \cap Scopes = {} /\ None \notin Scopes \cup Operations
  /\ MaxLoads \in Nat \ {0} /\ MaxPosts \in Nat /\ MaxOthers \in Nat

VARIABLES loads,    \* the runs of refresh, oldest first
          posts,    \* the mutations submitted, oldest first
          loading,  \* the page's loading flag
          shown,    \* the rows listed
          editing,  \* the rows whose edit dialog is open: editingCompanyId, editingScopeId
          forms,    \* forms[x]: the row that the mounted edit form of x was filled from
          target,   \* lifecycleTarget: a row and its status when its dialog was opened
          draft,    \* scopeDraft: what the scope dialog shows for review
          others    \* changes by others so far

pageVars == <<loads, posts, loading, shown, editing, forms, target, draft, others>>
companiesVars == <<structure, pageVars>>

Items == Companies \cup Scopes

Stored(x) == IF x \in Companies THEN company[x] ELSE scope[x]
Text(row) == IF "name" \in DOMAIN row THEN row.name ELSE row.label
Blank(x)  == IF x \in Companies THEN NoCompany ELSE NoScope
KindOf(x) == IF x \in Companies THEN Companies ELSE Scopes
Listed(x) == shown[x] # Blank(x)

\* A list answered to a GET, or an error answer.
Refused == [x \in {} |-> None]
Sent    == [x \in {None} |-> None]
Load(stage) == [companies |-> Sent, scopes |-> Sent, stage |-> stage]
NewLoad  == Load("sent")
Complete == Load("complete")   \* it has brought both lists
Gone     == Load("over")

Newest == Len(loads)   \* activeSearch.current

Post(op, x, text, version, saw) ==
  [op |-> op, row |-> x, text |-> text, version |-> version, saw |-> saw, stage |-> "sent"]

CompaniesInit ==
  /\ company \in [Companies -> {NoCompany} \cup {NewCompany(name) : name \in Names}]
  /\ scope \in [Scopes -> {NoScope} \cup {NewScope(c, label) : c \in Companies, label \in Labels}]
  /\ RegisterInit
  /\ loads = <<NewLoad>> /\ loading = TRUE   \* useEffect: refresh() on mount
  /\ posts = <<>>
  /\ shown = [x \in Items |-> Blank(x)]
  /\ editing = {}
  /\ forms = [x \in Items |-> None]
  /\ target = None /\ draft = None
  /\ others = 0

-----------------------------------------------------------------------------
(***************************************************************************)
(* refresh.                                                                *)
(***************************************************************************)
With(list) == [x \in Items |-> IF x \in DOMAIN list THEN list[x] ELSE shown[x]]

\* What the browser has read already when a run is aborted may still be set.
Arrived(load) ==
  CASE load.stage = "sent" /\ Sent \notin {load.companies, load.scopes} -> {load.companies}
    [] load.stage = "reading" -> {load.scopes}
    [] OTHER -> {}

\* Mutation: no new run while one is under way.
NewRunUnlessLoading ==
  IF loading THEN UNCHANGED <<loads, shown>>
  ELSE loads' = Append(loads, NewLoad) /\ UNCHANGED shown

NewRun ==
  /\ Newest < MaxLoads
  /\ loads' = Append([loads EXCEPT ![Newest] = Gone], NewLoad)
  /\ shown' \in {shown} \cup {With(list) : list \in Arrived(loads[Newest])}

\* Mutation: refresh does not say that it is loading.
RefreshQuietly == NewRun /\ UNCHANGED <<loading, forms>>

\* While a run loads, the lists and the edit dialogs in them are unmounted.
Refresh == NewRun /\ loading' = TRUE /\ forms' = [x \in Items |-> None]

Search ==
  /\ ~loading /\ (\A x \in Items : forms[x] = None) /\ target = None /\ draft = None
  /\ Refresh
  /\ UNCHANGED <<structure, posts, editing, target, draft, others>>

\* The first fifty rows by name that match a search text: some of the rows.
Some(stored) ==
  {[x \in DOMAIN stored |-> IF x \in found THEN stored[x] ELSE Blank(x)] :
     found \in SUBSET DOMAIN stored}

\* The server answers one of the two GETs.
AnswerCompanies(n) ==
  /\ loads[n].stage = "sent" /\ loads[n].companies = Sent
  /\ \E answer \in Some(company) \cup {Refused} : loads' = [loads EXCEPT ![n].companies = answer]
  /\ UNCHANGED <<structure, posts, loading, shown, editing, forms, target, draft, others>>

AnswerScopes(n) ==
  /\ loads[n].stage = "sent" /\ loads[n].scopes = Sent
  /\ \E answer \in Some(scope) \cup {Refused} : loads' = [loads EXCEPT ![n].scopes = answer]
  /\ UNCHANGED <<structure, posts, loading, shown, editing, forms, target, draft, others>>

\* finally: only the newest run ends the loading; the lists are mounted again,
\* and with them the dialogs that are still open.
Ended(n, lists) ==
  IF n # Newest THEN UNCHANGED <<loading, forms>>
  ELSE /\ loading' = FALSE
       /\ forms' = [x \in Items |-> IF x \in editing /\ lists[x] # Blank(x) THEN lists[x] ELSE None]

\* Promise.all has resolved; setCompanies.
ReadCompanies(n) ==
  /\ loads[n].stage = "sent" /\ Sent \notin {loads[n].companies, loads[n].scopes}
  /\ loads' = [loads EXCEPT ![n].stage = "reading"] /\ shown' = With(loads[n].companies)
  /\ UNCHANGED <<structure, posts, loading, editing, forms, target, draft, others>>

\* setScopes.
ReadScopes(n) ==
  /\ loads[n].stage = "reading"
  /\ shown' = With(loads[n].scopes)
  /\ loads' = [loads EXCEPT ![n] = IF Refused \in {@.companies, @.scopes} THEN Gone ELSE Complete]
  /\ Ended(n, shown')
  /\ UNCHANGED <<structure, posts, editing, target, draft, others>>

\* The network fails.
LoadFails(n) ==
  /\ loads[n].stage \in {"sent", "reading"}
  /\ loads' = [loads EXCEPT ![n] = Gone]
  /\ Ended(n, shown)
  /\ UNCHANGED <<structure, posts, shown, editing, target, draft, others>>
-----------------------------------------------------------------------------
(***************************************************************************)
(* What the user does.  The lists, and the edit dialogs in them, are there *)
(* while the page is not loading; the other dialogs always.  An open       *)
(* dialog covers the page.                                                 *)
(***************************************************************************)
Covered == (\E x \in Items : forms[x] # None) \/ target # None \/ draft # None

OpenEdit(x) ==
  /\ ~loading /\ ~Covered /\ Listed(x)
  /\ LET closed == editing \cap KindOf(x) IN
     /\ editing' = (editing \ closed) \cup {x}
     /\ forms' = [y \in Items |-> IF y = x THEN shown[x] ELSE IF y \in closed THEN None ELSE forms[y]]
  /\ UNCHANGED <<structure, loads, posts, loading, shown, target, draft, others>>

CloseEdit(x) ==
  /\ x \in editing /\ ~loading
  /\ editing' = editing \ {x}
  /\ forms' = [forms EXCEPT ![x] = None]
  /\ UNCHANGED <<structure, loads, posts, loading, shown, target, draft, others>>

\* setLifecycleTarget: the status of now goes into the dialog.
OpenLifecycle(x) ==
  /\ ~loading /\ ~Covered /\ Listed(x)
  /\ target' = [row |-> x, status |-> shown[x].status]
  /\ UNCHANGED <<structure, loads, posts, loading, shown, editing, forms, draft, others>>

CloseDialogs ==
  /\ target # None \/ draft # None
  /\ target' = None /\ draft' = None
  /\ UNCHANGED <<structure, loads, posts, loading, shown, editing, forms, others>>

Submit(post) ==
  /\ Len(posts) < MaxPosts
  /\ posts' = Append(posts, post)
  /\ UNCHANGED <<structure, loads, loading, shown, editing, forms, target, draft, others>>

CreateCompanyForm == ~Covered /\ \E name \in Names : Submit(Post("create", None, name, 0, None))

\* renameCompany and updateScope: expectedVersion comes from the list, the text
\* the user edits came with the form.
SubmitEdit(x) ==
  /\ forms[x] # None
  /\ \E text \in IF x \in Companies THEN Names ELSE Labels :
       Submit(Post("edit", x, text, shown[x].version, Text(forms[x])))

\* reviewScope: an active Company is selected, and duplicates are looked for.
ReviewScope ==
  /\ ~Covered
  /\ \E c \in Companies, label \in Labels :
       shown[c].status = "ACTIVE" /\ Submit(Post("review", c, label, 0, None))

ConfirmScope == draft # None /\ Submit(Post("createScope", draft.company, draft.label, 0, None))

\* changeLifecycle: the action follows from the status in the dialog.
ChangeLifecycle ==
  /\ target # None
  /\ Submit(Post(IF target.status = "ACTIVE" THEN "deactivate" ELSE "reactivate",
                 target.row, None, 0, None))

-----------------------------------------------------------------------------
(***************************************************************************)
(* The server handles a post: it does what was asked, or answers an error. *)
(***************************************************************************)
Accepts(p) ==
  LET status == IF p.op = "deactivate" THEN "INACTIVE" ELSE "ACTIVE" IN
  CASE p.op = "create" -> \A c \in Companies : company[c].name # p.text
    [] p.op = "edit" -> IF p.row \in Companies THEN MayRename(p.row, p.text, p.version)
                                               ELSE MayUpdate(p.row, p.text, p.version)
    [] p.op = "review" -> \A s \in Scopes : scope[s].company = p.row => Key[scope[s].label] # Key[p.text]
    [] p.op = "createScope" -> /\ company[p.row].status = "ACTIVE"
                               /\ \A s \in Scopes : scope[s].company = p.row
                                                      => Key[scope[s].label] # Key[p.text]
    [] OTHER -> IF p.row \in Companies THEN MayChangeCompany(p.row, status)
                                       ELSE MayChangeScope(p.row, status)

Perform(p) ==
  LET status == IF p.op = "deactivate" THEN "INACTIVE" ELSE "ACTIVE" IN
  CASE p.op = "create" -> \E c \in Companies : CreateCompany(c, p.text)
    [] p.op = "edit" -> IF p.row \in Companies THEN RenameCompany(p.row, p.text, p.version)
                                               ELSE UpdateScope(p.row, p.text, p.version)
    [] p.op = "review" -> UNCHANGED structure
    [] p.op = "createScope" -> \E s \in Scopes : CreateScope(s, p.row, p.text)
    [] OTHER -> IF p.row \in Companies THEN ChangeCompany(p.row, status)
                                       ELSE ChangeScope(p.row, status)

Spent(p, stage) ==
  [(IF stage = "done" /\ p.op = "edit" THEN Post("edit", p.row, None, p.version, None)
    ELSE Post(None, None, None, 0, None)) EXCEPT !.stage = stage]

Over(n, stage) == posts' = [posts EXCEPT ![n] = Spent(@, stage)]

\* The server does what was asked, or its error answer is shown: the dialog stays.
Serve(n) ==
  /\ posts[n].stage = "sent"
  /\ IF Accepts(posts[n])
     THEN Perform(posts[n]) /\ posts' = [posts EXCEPT ![n].stage = "accepted"]
     ELSE UNCHANGED structure /\ Over(n, "over")
  /\ UNCHANGED <<loads, loading, shown, editing, forms, target, draft, others>>

\* Another Administrator changes the structure.
SomebodyElse ==
  /\ others < MaxOthers /\ others' = others + 1
  /\ RegisterNext /\ structure' # structure
  /\ UNCHANGED <<loads, posts, loading, shown, editing, forms, target, draft>>

-----------------------------------------------------------------------------
(***************************************************************************)
(* The answers.                                                            *)
(***************************************************************************)
\* A success closes the dialog, whichever row it shows by now, and refreshes.
EditSucceeds(n) ==
  LET gone == editing \cap KindOf(posts[n].row) IN
  /\ posts[n].stage = "accepted" /\ posts[n].op = "edit"
  /\ Over(n, "done")
  /\ editing' = editing \ gone
  /\ Refresh
  /\ UNCHANGED <<structure, target, draft, others>>

OtherSucceeds(n) ==
  /\ posts[n].stage = "accepted" /\ posts[n].op \notin {"edit", "review"}
  /\ Over(n, "done")
  /\ target' = IF posts[n].op \in {"deactivate", "reactivate"} THEN None ELSE target
  /\ draft' = IF posts[n].op = "createScope" THEN None ELSE draft
  /\ Refresh
  /\ UNCHANGED <<structure, editing, others>>

\* No duplicate: the scope is shown for review, even in a dialog opened since.
ReviewPasses(n) ==
  /\ posts[n].stage = "accepted" /\ posts[n].op = "review"
  /\ Over(n, "over")
  /\ draft' = [company |-> posts[n].row, label |-> posts[n].text]
  /\ UNCHANGED <<structure, loads, loading, shown, editing, forms, target, others>>

\* A request, or its answer, is lost.
Lose(n) ==
  /\ posts[n].stage \in {"sent", "accepted"}
  /\ Over(n, "over")
  /\ UNCHANGED <<structure, loads, loading, shown, editing, forms, target, draft, others>>
-----------------------------------------------------------------------------
CompaniesNetwork == \E n \in DOMAIN loads :
  AnswerCompanies(n) \/ AnswerScopes(n) \/ ReadCompanies(n) \/ ReadScopes(n) \/ LoadFails(n)

CompaniesUser ==
  \/ Search \/ CloseDialogs \/ CreateCompanyForm \/ ReviewScope \/ ConfirmScope \/ ChangeLifecycle
  \/ \E x \in Items : OpenEdit(x) \/ CloseEdit(x) \/ OpenLifecycle(x) \/ SubmitEdit(x)

CompaniesAnswers == \E n \in DOMAIN posts :
  Serve(n) \/ EditSucceeds(n) \/ OtherSucceeds(n) \/ ReviewPasses(n) \/ Lose(n)

-----------------------------------------------------------------------------
(***************************************************************************)
(* Properties.                                                             *)
(***************************************************************************)
\* Nobody's edit is overwritten unseen: what an edit from this page replaces is
\* what its form showed, although version and text come from two places and the
\* list is replaced under open dialogs (companies/page.tsx:347-366, 814).
EditReplacesWhatWasShown ==
  [][\A n \in DOMAIN posts :
       posts[n].op = "edit" /\ posts[n].stage = "sent" /\ posts'[n].stage = "accepted"
         => Text(Stored(posts[n].row)) = posts[n].saw]_companiesVars

\* Once the page is quiet, no row it lists is older than the user's own successful
\* edits, whichever order the answers to its loads came in; a row the user edited may
\* be out of the list (companies/page.tsx:234-238, 269-273).
OwnEditsShown ==
  ~loading /\ loads[Newest] = Complete
    => \A n \in DOMAIN posts :
         posts[n].stage = "done" /\ posts[n].op = "edit" /\ Listed(posts[n].row)
           => shown[posts[n].row].version > posts[n].version
-----------------------------------------------------------------------------
(***************************************************************************)
(* The inductive invariant.                                                *)
(***************************************************************************)
RowsOf(x) == IF x \in Companies THEN CompanyRow ELSE ScopeRow

LoadStates == [companies : {Sent, Refused} \cup [Companies -> CompanyRow],
               scopes : {Sent, Refused} \cup [Scopes -> ScopeRow],
               stage : {"sent", "reading", "complete", "over"}]

\* What was once read of x: never ahead of the server, and with the text stored
\* there while its version is the current one.
Copy(x, version, text) ==
  /\ version \in 0..Stored(x).version
  /\ version = Stored(x).version => text = Text(Stored(x))

Copied(x, row) == row \in RowsOf(x) /\ Copy(x, row.version, Text(row))

\* What a list has of a row is younger than every edit of this page that has been
\* answered.
HasOwnEdits(list) ==
  \A n \in DOMAIN posts :
    posts[n].op = "edit" /\ posts[n].stage = "done" /\ posts[n].row \in DOMAIN list
      => \/ list[posts[n].row] = Blank(posts[n].row)
         \/ list[posts[n].row].version > posts[n].version

\* Only the newest run is under way, and its answers are younger than any answer
\* to an edit; once they are set, the page shows the edits.
LoadsFresh ==
  LET load == loads[Newest] IN
  /\ \A n \in DOMAIN loads : loads[n].stage \in {"sent", "reading"} => n = Newest /\ loading
  /\ load.stage = "reading" => Sent \notin {load.companies, load.scopes}
  /\ load.stage \in {"sent", "reading"} => HasOwnEdits(load.companies) /\ HasOwnEdits(load.scopes)
  /\ \/ load.stage = "reading" /\ load.companies # Refused
     \/ load.stage = "complete"
     => HasOwnEdits([c \in Companies |-> shown[c]])
  /\ load.stage = "complete" => HasOwnEdits([s \in Scopes |-> shown[s]])

\* A form that is mounted shows what is listed; nothing is listed anew under it.
FormsShow ==
  \A x \in Items : forms[x] # None => x \in editing /\ Listed(x) /\ ~loading /\ forms[x] = shown[x]

\* What a request asks for, and what is known of the row it edits.
PostFits(p) ==
  CASE p.op = "create" -> p.text \in Names
    [] p.op \in {"review", "createScope"} -> p.row \in Companies /\ p.text \in Labels
    [] p.op \in {"deactivate", "reactivate"} -> p.row \in Items
    [] p.op = "edit" ->
         /\ p.row \in Items
         /\ p.stage = "sent" => /\ p.text \in (IF p.row \in Companies THEN Names ELSE Labels)
                                /\ Copy(p.row, p.version, p.saw)
         /\ p.stage # "sent" => p.version \in 0..Stored(p.row).version - 1
    [] OTHER -> p.op = None /\ p.stage \in {"over", "done"}

\* The server's rows, the copies of them the page and its requests hold, and what
\* its dialogs are about.
PageIInv ==
  /\ company \in [Companies -> CompanyRow] /\ scope \in [Scopes -> ScopeRow]
  /\ loads \in Seq(LoadStates) /\ loads # <<>> /\ LoadsFresh
  /\ \A n \in DOMAIN loads : \A list \in {loads[n].companies, loads[n].scopes} :
       \A x \in Items \cap DOMAIN list : Copied(x, list[x])
  /\ DOMAIN shown = Items /\ \A x \in Items : Copied(x, shown[x]) /\ Copied(x, Blank(x))
  /\ editing \subseteq Items /\ DOMAIN forms = Items /\ FormsShow
  /\ target # None => target.row \in Items
  /\ draft # None => draft.company \in Companies /\ draft.label \in Labels
  /\ posts \in Seq([op : Operations \cup {None}, row : Items \cup {None},
                    text : Names \cup Labels \cup {None}, version : Nat,
                    saw : Names \cup Labels \cup {None},
                    stage : {"sent", "accepted", "done", "over"}])
  /\ \A n \in DOMAIN posts : PostFits(posts[n])
=============================================================================
