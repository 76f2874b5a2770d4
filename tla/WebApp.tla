------------------------------- MODULE WebApp -------------------------------
(***************************************************************************)
(* The web application: one page that is open in a browser, inside the     *)
(* AppShell that verifies its user's access.  A page loads its data at     *)
(* once, but it is not shown before access has been granted.  A redirect,  *)
(* a link or a sign-out ends the behaviour: the page's state is gone.      *)
(***************************************************************************)
EXTENDS CompaniesPage, PlatformPages

VARIABLE shell   \* AppShell: "verifying" or "authorized"

vars == <<companiesVars, platformVars, shell>>

-----------------------------------------------------------------------------
(***************************************************************************)
(* The variables of pages that are not open.                               *)
(***************************************************************************)
CompaniesClosed ==
  /\ company = [c \in Companies |-> NoCompany] /\ scope = [s \in Scopes |-> NoScope]
  /\ loads = <<Gone>> /\ posts = <<>> /\ loading = FALSE
  /\ shown = [x \in Items |-> Blank(x)] /\ editing = {} /\ forms = [x \in Items |-> None]
  /\ target = None /\ draft = None /\ others = 0

PlatformClosed ==
  /\ org = [o \in Orgs |-> [id |-> o, access |-> "ACTIVE", commercial |-> "DEMO", version |-> 1]]
  /\ active = Staff /\ elsewhere = 0 /\ at = "none"
  /\ gets = {} /\ asked = 0 /\ changes = <<>>
  /\ busy = FALSE /\ rows = <<>> /\ chosen = 0 /\ query = Orgs /\ cursor = 0 /\ resending = FALSE
  /\ candidates = {} /\ picked = Nobody /\ busyCandidates = FALSE

OnPlatform == at # "none"

-----------------------------------------------------------------------------
Init ==
  /\ shell = "verifying"
  /\ \/ CompaniesInit /\ PlatformClosed
     \/ PlatformInit /\ CompaniesClosed

\* GET /api/auth/me names an Administrator of the kind the page requires.
Authorize ==
  /\ shell = "verifying" /\ shell' = "authorized"
  /\ UNCHANGED <<companiesVars, platformVars>>

Next ==
  \/ Authorize
  \/ /\ ~OnPlatform
     /\ CompaniesNetwork \/ CompaniesAnswers \/ SomebodyElse \/ (shell = "authorized" /\ CompaniesUser)
     /\ UNCHANGED <<platformVars, shell>>
  \/ /\ OnPlatform
     /\ PlatformNetwork \/ (shell = "authorized" /\ PlatformUser)
     /\ UNCHANGED <<companiesVars, shell>>

Spec == Init /\ [][Next]_vars
-----------------------------------------------------------------------------
(***************************************************************************)
(* Properties.                                                             *)
(***************************************************************************)
\* Whatever page is open: its dialogs and forms show rows it knows, what it has of
\* the server is never ahead of it, and a list names each Organization once
\* (companies/page.tsx, platform/directory/page.tsx, platform/lifecycle/page.tsx).
WebIInv ==
  /\ shell \in {"verifying", "authorized"}
  /\ PageIInv /\ PlatformIInv
=============================================================================
