---------------------------- MODULE PlatformPages ----------------------------
(***************************************************************************)
(* The pages of the Platform Administrator: the directory of Organizations *)
(* (web/app/platform/directory), the lifecycle of one (lifecycle) and the  *)
(* intervention in one (interventions), against OrganizationService, with  *)
(* other Administrators at work.                                           *)
(*                                                                         *)
(* A GET is answered from the database of one moment and received at a     *)
(* later one; nothing aborts it.  A post may be lost, or its answer.       *)
(***************************************************************************)
EXTENDS Integers, Sequences, FiniteSets

CONSTANTS N,           \* Organizations 1..N, newest first
          Staff,       \* collaborators who own nothing
          Home,        \* Home[m]: the Organization of m
          PageSize,    \* Organizations on one page of the directory
          MaxGets, MaxChanges, MaxElsewhere  \* bounds: GETs, posts, changes by others

Orgs   == 1..N
Nobody == "nobody"

ASSUME PlatformAssumption ==
  N \in Nat /\ PageSize \in Nat \ {0} /\ Home \in [Staff -> Orgs] /\ Nobody \notin Staff
  /\ {MaxGets, MaxChanges, MaxElsewhere} \subseteq Nat

VARIABLES org,         \* org[o] = [id, access, commercial, version]
          active,      \* the collaborators who are ACTIVE
          at,          \* the page that is open
          gets, asked, \* the GETs under way, and how many there have been
          changes,     \* the posts, oldest first
          elsewhere,   \* changes by others so far
          busy,        \* the flag loading, or loadingOrganizations
          rows,        \* organizations: the rows listed
          chosen,      \* organizationId or selected?.id; 0 for none
          query,       \* directory: the Organizations whose names match it
          cursor,      \* directory: nextCursor, 0 for none
          resending,   \* directory: resendOpen
          candidates, picked, busyCandidates  \* interventions: the collaborators offered

server == <<org, active, elsewhere>>
net    == <<gets, asked, changes>>
list   == <<busy, rows, chosen, query, cursor>>
people == <<candidates, picked, busyCandidates>>
platformVars == <<server, at, net, list, resending, people>>

-----------------------------------------------------------------------------
(***************************************************************************)
(* OrganizationService.                                                    *)
(***************************************************************************)
AllowedTransitions == [PROVISIONING |-> {"DISABLED"}, ACTIVE |-> {"SUSPENDED", "DISABLED"},
                       SUSPENDED |-> {"ACTIVE", "DISABLED"}, DISABLED |-> {}]
Commercial == {"DEMO", "PILOT", "ACTIVE"}

\* Mutation: the page begins with the row of the cursor (no skip: 1).
MatchingFromCursor(q, after) == {o \in q : o >= after}

\* listOrganizations: the matching ones behind a cursor, in order, `take` at most.
Matching(q, after) == {o \in q : o > after}

InOrder(found) ==
  {ids \in [1..Cardinality(found) -> found] : \A i, j \in DOMAIN ids : i < j => ids[i] < ids[j]}

PageOf(ids, take) == [i \in 1..(IF Len(ids) < take THEN Len(ids) ELSE take) |-> org[ids[i]]]

NextCursor(ids, take) == IF Len(ids) > take THEN ids[take] ELSE 0

\* listInterventionCandidates.
Eligible(o) == IF org[o].access = "ACTIVE" THEN {m \in active : Home[m] = o} ELSE {}

MaySuspend(o, m) == org[o].access = "ACTIVE" /\ m \in active /\ Home[m] = o

\* changeAccessStatus and its siblings accept a post.  That an Organization which is
\* made ACTIVE again needs an active Administrator as its owner refuses nothing:
\* the owner always is one (OwnerIsActiveAdministrator of Governance).
MayApply(p) ==
  CASE p.op = "access" -> /\ org[p.org].version = p.version
                          /\ p.to \in AllowedTransitions[org[p.org].access] \cup {org[p.org].access}
    [] p.op = "commercial" -> org[p.org].version = p.version
    [] p.op = "resend" -> org[p.org].version = p.version /\ org[p.org].access = "PROVISIONING"
    [] p.op = "suspend" -> MaySuspend(p.org, p.member)

\* The row afterwards: asking for the present status changes nothing.
Applied(row, p) ==
  CASE p.op = "suspend" -> row
    [] p.op = "resend" -> [row EXCEPT !.version = @ + 1]
    [] OTHER -> IF row[p.op] = p.to THEN row
                ELSE [row EXCEPT ![p.op] = p.to, !.version = @ + 1]

\* Initial owner acceptance moves no version; other Administrators' changes do.
OwnerAccepts(o) ==
  /\ org[o].access = "PROVISIONING"
  /\ org' = [org EXCEPT ![o].access = "ACTIVE"] /\ UNCHANGED active

SomebodyChanges(o) ==
  /\ \/ \E to \in AllowedTransitions[org[o].access] :
          org' = [org EXCEPT ![o].access = to, ![o].version = @ + 1]
     \/ \E to \in Commercial \ {org[o].commercial} :
          org' = [org EXCEPT ![o].commercial = to, ![o].version = @ + 1]
  /\ UNCHANGED active

StaffChanges(m) == active' \in {active \cup {m}, active \ {m}} \ {active} /\ UNCHANGED org

Elsewhere ==
  /\ elsewhere < MaxElsewhere /\ elsewhere' = elsewhere + 1
  /\ (\E o \in Orgs : OwnerAccepts(o) \/ SomebodyChanges(o)) \/ \E m \in Staff : StaffChanges(m)
  /\ UNCHANGED <<at, net, list, resending, people>>

-----------------------------------------------------------------------------
(***************************************************************************)
(* GETs.                                                                   *)
(***************************************************************************)
Get(n, what, of, q, after, base, closes) ==
  [n |-> n, what |-> what, org |-> of, query |-> q, after |-> after, base |-> base,
   closes |-> closes, stage |-> "sent", answer |-> <<>>, next |-> 0]

Ask(get) == asked < MaxGets /\ asked' = asked + 1 /\ gets' = gets \cup {get}

LoadList(q, after, closes) ==
  Ask(Get(asked, "list", 0, q, after, IF after = 0 THEN <<>> ELSE rows, closes)) /\ busy' = TRUE

PlatformInit ==
  /\ org \in [Orgs -> [id : Orgs, access : {"PROVISIONING", "ACTIVE"}, commercial : {"DEMO"},
                       version : {1}]]
  /\ \A o \in Orgs : org[o].id = o
  /\ active = Staff /\ elsewhere = 0
  /\ at \in {"directory", "lifecycle", "interventions"}
  /\ changes = <<>> /\ busy = TRUE /\ rows = <<>>
  /\ chosen \in IF at = "directory" THEN {0} ELSE 0..N            \* ?organizationId=
  /\ query = Orgs /\ cursor = 0 /\ resending = FALSE
  /\ candidates = {} /\ picked = Nobody /\ busyCandidates = (at = "interventions" /\ chosen # 0)
  /\ asked = IF busyCandidates THEN 2 ELSE 1                       \* on mount
  /\ gets = {Get(0, "list", 0, Orgs, 0, <<>>, FALSE)}
              \cup (IF busyCandidates THEN {Get(1, "candidates", chosen, {}, 0, <<>>, FALSE)} ELSE {})

\* The directory asks for a page; the others for a hundred, taken for all there are.
Take == IF at = "directory" THEN PageSize ELSE N

Answer(g, answer, next) ==
  gets' = (gets \ {g}) \cup {[g EXCEPT !.stage = "answered", !.answer = answer, !.next = next]}

AnswerGet(g) ==
  /\ g.stage = "sent"
  /\ \/ g.what = "candidates" /\ Answer(g, Eligible(g.org), 0)
     \/ /\ g.what = "list"
        /\ \E ids \in InOrder(Matching(g.query, g.after)) :
             Answer(g, PageOf(ids, Take), NextCursor(ids, Take))
  /\ UNCHANGED <<server, at, asked, changes, list, resending, people>>

Ids(listed) == {listed[i].id : i \in DOMAIN listed}

\* selected: the same Organization if it is still listed, or else the first one.
Kept(listed) ==
  CASE chosen \in Ids(listed) -> chosen
    [] chosen \notin Ids(listed) /\ at = "directory" /\ listed # <<>> -> listed[1].id
    [] OTHER -> 0

ReceiveList(g) ==
  /\ g.what = "list" /\ g.stage = "answered"
  /\ gets' = gets \ {g}
  /\ rows' = g.base \o g.answer /\ cursor' = g.next /\ busy' = FALSE
  /\ chosen' = IF at = "interventions" THEN chosen ELSE Kept(rows')
  /\ resending' = (resending /\ ~g.closes)
  /\ UNCHANGED <<server, at, asked, changes, query, people>>

ReceiveCandidates(g) ==
  /\ g.what = "candidates" /\ g.stage = "answered"
  /\ gets' = gets \ {g}
  /\ candidates' = g.answer /\ busyCandidates' = FALSE
  /\ UNCHANGED <<server, at, asked, changes, list, resending, picked>>

\* An error answer, or no network: the directory does not catch the latter, it
\* goes on loading for good.
GetFails(g) ==
  /\ gets' = gets \ {g}
  /\ IF g.what = "list"
     THEN /\ busy' \in {FALSE} \cup (IF at = "directory" THEN {busy} ELSE {})
          /\ resending' = (resending /\ ~(g.closes /\ ~busy'))
          /\ UNCHANGED people
     ELSE candidates' = {} /\ busyCandidates' = FALSE /\ UNCHANGED <<busy, resending, picked>>
  /\ UNCHANGED <<server, at, asked, changes, rows, chosen, query, cursor>>
-----------------------------------------------------------------------------
(***************************************************************************)
(* What the user does.                                                     *)
(***************************************************************************)
RowOf(o) == rows[CHOOSE i \in DOMAIN rows : rows[i].id = o]
ResendShown == at = "directory" /\ resending /\ chosen # 0 /\ RowOf(chosen).access = "PROVISIONING"

\* The directory's buttons for rows stay enabled while it loads; the selects do not.
Choose(o) ==
  /\ o # chosen /\ o \in Ids(rows) \cup (IF at = "directory" THEN {} ELSE {0})
  /\ IF at = "directory" THEN ~ResendShown ELSE ~busy
  /\ chosen' = o
  /\ IF at = "interventions"
     THEN /\ picked' = Nobody
          /\ IF o = 0 THEN candidates' = {} /\ UNCHANGED <<busyCandidates, gets, asked>>
             ELSE /\ Ask(Get(asked, "candidates", o, {}, 0, <<>>, FALSE)) /\ busyCandidates' = TRUE
                  /\ UNCHANGED candidates
     ELSE UNCHANGED <<people, gets, asked>>
  /\ UNCHANGED <<server, at, changes, busy, rows, query, cursor, resending>>

Pick(m) ==
  /\ at = "interventions" /\ chosen # 0 /\ ~busyCandidates /\ m \in candidates /\ m # picked
  /\ picked' = m
  /\ UNCHANGED <<server, at, net, list, resending, candidates, busyCandidates>>

SearchDirectory ==
  /\ at = "directory" /\ ~busy /\ ~ResendShown
  /\ query' \in SUBSET Orgs /\ LoadList(query', 0, FALSE)
  /\ UNCHANGED <<server, at, changes, rows, chosen, cursor, resending, people>>

LoadMore ==
  /\ at = "directory" /\ ~busy /\ ~ResendShown /\ cursor # 0
  /\ LoadList(query, cursor, FALSE)
  /\ UNCHANGED <<server, at, changes, rows, chosen, query, cursor, resending, people>>

ToggleResend ==
  /\ at = "directory" /\ chosen # 0 /\ RowOf(chosen).access = "PROVISIONING"
  /\ resending' = ~resending
  /\ UNCHANGED <<server, at, net, list, people>>

Change(op, to, member) ==
  [op |-> op, org |-> chosen, to |-> to, member |-> member, query |-> query, stage |-> "sent",
   version |-> IF op = "suspend" THEN 0 ELSE RowOf(chosen).version,
   saw     |-> IF op = "suspend" THEN member ELSE RowOf(chosen)]

Submitting == \E n \in DOMAIN changes : changes[n].stage # "over"

SubmitChange(change) ==
  /\ Len(changes) < MaxChanges /\ changes' = Append(changes, change)
  /\ UNCHANGED <<server, at, gets, asked, list, resending, people>>

\* The options offered follow the row listed.
SubmitStatus ==
  /\ at = "lifecycle" /\ chosen \in Ids(rows) /\ ~Submitting
  /\ \/ \E to \in AllowedTransitions[RowOf(chosen).access] : SubmitChange(Change("access", to, Nobody))
     \/ \E to \in Commercial \ {RowOf(chosen).commercial} : SubmitChange(Change("commercial", to, Nobody))

SubmitIntervention ==
  /\ at = "interventions" /\ chosen # 0 /\ picked # Nobody /\ ~Submitting
  /\ SubmitChange(Change("suspend", Nobody, picked))

\* Nothing keeps the user from sending the form twice.
SubmitResend == ResendShown /\ SubmitChange(Change("resend", Nobody, Nobody))

-----------------------------------------------------------------------------
(***************************************************************************)
(* The answers to posts.                                                   *)
(***************************************************************************)
ServeChange(n) ==
  LET p == changes[n] IN
  /\ p.stage = "sent"
  /\ IF MayApply(p)
     THEN /\ org' = [org EXCEPT ![p.org] = Applied(@, p)]
          /\ active' = active \ {p.member}
          /\ changes' = [changes EXCEPT ![n].stage = "accepted", ![n].saw = org'[p.org]]
     ELSE changes' = [changes EXCEPT ![n].stage = "over"] /\ UNCHANGED <<org, active>>
  /\ UNCHANGED <<elsewhere, at, gets, asked, list, resending, people>>

\* { ...organization, ...updated }; saw holds the answer by now.
\* Mutation: only the version is taken from the answer.
MergedVersion(row, p) == [row EXCEPT !.version = p.saw.version]

Merged(row, p) == [row EXCEPT ![p.op] = p.saw[p.op], !.version = p.saw.version]

StatusApplied(n) ==
  LET p == changes[n] IN
  /\ p.stage = "accepted" /\ p.op \in {"access", "commercial"}
  /\ rows' = [i \in DOMAIN rows |-> IF rows[i].id = p.org THEN Merged(rows[i], p) ELSE rows[i]]
  /\ changes' = [changes EXCEPT ![n].stage = "over"]
  /\ UNCHANGED <<server, at, gets, asked, busy, chosen, query, cursor, resending, people>>

Suspended(n) ==
  LET p == changes[n] IN
  /\ p.stage = "accepted" /\ p.op = "suspend"
  /\ candidates' = candidates \ {p.member} /\ picked' = Nobody
  /\ changes' = [changes EXCEPT ![n].stage = "over"]
  /\ UNCHANGED <<server, at, gets, asked, list, resending, busyCandidates>>

\* The dialog closes when the list has been loaded again, for the query of then.
Resent(n) ==
  LET p == changes[n] IN
  /\ p.stage = "accepted" /\ p.op = "resend"
  /\ LoadList(p.query, 0, TRUE)
  /\ changes' = [changes EXCEPT ![n].stage = "over"]
  /\ UNCHANGED <<server, at, rows, chosen, query, cursor, resending, people>>

\* Nobody catches it: the lifecycle and intervention forms submit for good.
LoseChange(n) ==
  /\ changes[n].stage \in {"sent", "accepted"}
  /\ changes' = [changes EXCEPT ![n].stage = "lost"]
  /\ UNCHANGED <<server, at, gets, asked, list, resending, people>>
-----------------------------------------------------------------------------
PlatformNetwork ==
  \/ Elsewhere
  \/ \E g \in gets : AnswerGet(g) \/ ReceiveList(g) \/ ReceiveCandidates(g) \/ GetFails(g)
  \/ \E n \in DOMAIN changes :
       ServeChange(n) \/ StatusApplied(n) \/ Suspended(n) \/ Resent(n) \/ LoseChange(n)

PlatformUser ==
  \/ \E o \in 0..N : Choose(o)
  \/ \E m \in Staff : Pick(m)
  \/ SearchDirectory \/ LoadMore \/ ToggleResend
  \/ SubmitStatus \/ SubmitIntervention \/ SubmitResend
-----------------------------------------------------------------------------
(***************************************************************************)
(* Properties.                                                             *)
(***************************************************************************)
ServedNow(n) == changes[n].stage = "sent" /\ changes'[n].stage = "accepted"

\* A row as it was shown is the row stored, but for the acceptance of its owner.
Seen(saw, row) ==
  saw = row \/ (row.access = "ACTIVE" /\ saw = [row EXCEPT !.access = "PROVISIONING"])

\* A status is changed, and a link replaced, in the state its Administrator was
\* looking at, whatever lists, merged answers and other Administrators came in
\* between; only the owner's acceptance goes unseen (organization.service.ts:281;
\* initial-owner-acceptance.service.ts:107 moves no version).
AppliedToWhatWasShown ==
  [][\A n \in DOMAIN changes :
       ServedNow(n) /\ changes[n].op # "suspend"
         => Seen(changes[n].saw, org[changes[n].org])]_platformVars

-----------------------------------------------------------------------------
(***************************************************************************)
(* Why lists and posts agree with the server.                              *)
(***************************************************************************)
OrgRow == [id : Orgs, access : DOMAIN AllowedTransitions, commercial : Commercial, version : Nat]

\* What was once read of an Organization: never ahead of the server, and as stored
\* there, but for the owner's acceptance, while its version is the current one.
OrgCopy(row) ==
  /\ row \in OrgRow /\ row.version <= org[row.id].version
  /\ row.version = org[row.id].version => Seen(row, org[row.id])

\* A list names each Organization once, in order.
ListOf(listed) ==
  /\ listed \in Seq(OrgRow) /\ \A i \in DOMAIN listed : OrgCopy(listed[i])
  /\ \A i, j \in DOMAIN listed : i < j => listed[i].id < listed[j].id

\* A GET for more of the directory appends what is behind its cursor.
GetFits(g) ==
  /\ g.what = "candidates" => g.org \in Orgs /\ (g.stage = "answered" => g.answer \subseteq Staff)
  /\ g.what = "list" =>
       /\ g.query \subseteq Orgs /\ g.after \in 0..N
       /\ ListOf(g.base) /\ \A i \in DOMAIN g.base : g.base[i].id <= g.after
       /\ g.stage = "answered" =>
            /\ ListOf(g.answer) /\ g.next \in {0} \cup g.after..N
            /\ \A i \in DOMAIN g.answer :
                 g.answer[i].id > g.after /\ (g.next # 0 => g.answer[i].id <= g.next)

\* The lifecycle page loads its list once.
LoadsOnce ==
  at = "lifecycle" =>
    \A g, h \in gets : g.what = "list" /\ h.what = "list" => g = h /\ rows = <<>>

Merges(p) == p.op \in {"access", "commercial"}

\* What a post asks for, and what its user saw.
ChangeFits(p) ==
  /\ p.org \in Orgs /\ p.op \in {"access", "commercial", "resend", "suspend"}
  /\ Merges(p) => at = "lifecycle"
  /\ p.op = "resend" => at = "directory" /\ p.query \subseteq Orgs
  /\ p.op # "suspend" /\ p.stage = "sent" =>
       OrgCopy(p.saw) /\ p.saw.id = p.org /\ p.saw.version = p.version
  /\ p.op = "access" /\ p.stage = "sent" => p.to \in AllowedTransitions[p.saw.access]
  /\ p.op = "commercial" => p.to \in Commercial

\* The row an answer is merged into is the one its user saw.
MergeFits(p) ==
  Merges(p) /\ p.stage \in {"sent", "accepted"} =>
    /\ p.org \in Ids(rows)
    /\ \A i \in DOMAIN rows : rows[i].id = p.org =>
         IF p.stage = "sent" THEN rows[i] = p.saw ELSE OrgCopy(Merged(rows[i], p))

PlatformIInv ==
  /\ org \in [Orgs -> OrgRow] /\ \A o \in Orgs : org[o].id = o
  /\ active \subseteq Staff /\ candidates \subseteq Staff /\ picked \in Staff \cup {Nobody}
  /\ ListOf(rows) /\ cursor \in 0..N /\ (cursor # 0 => \A i \in DOMAIN rows : rows[i].id <= cursor)
  /\ query \subseteq Orgs
  /\ chosen \in 0..N /\ (at = "directory" => chosen \in Ids(rows) \cup {0})
  /\ LoadsOnce /\ \A g \in gets : GetFits(g)
  /\ \A n \in DOMAIN changes : ChangeFits(changes[n]) /\ MergeFits(changes[n])
  /\ at = "lifecycle" => \A n, k \in DOMAIN changes :
                           changes[n].stage # "over" /\ changes[k].stage # "over" => n = k
=============================================================================
