-------------------------- MODULE StructureRegister --------------------------
(***************************************************************************)
(* What OrganizationAdminService promises about the Companies and Business *)
(* Scopes of one Organization, with every transaction a single step: names *)
(* and identities are unique, an edit replaces the version its editor saw, *)
(* and an ACTIVE Business Scope has an ACTIVE Company.                     *)
(***************************************************************************)
EXTENDS Integers

CONSTANTS Companies, Scopes, None,
          Names,      \* Company names, as stored: trimmed, case-sensitive
          Labels,     \* what else a Business Scope is described by: name, type, identifier, ...
          Key         \* Key[label]: its type, normalized name and normalized identifier

ASSUME RegisterAssumption ==
  /\ None \notin Companies \cup Names \cup Labels
  /\ Labels = DOMAIN Key

VARIABLES company,  \* company[c] = [name, status, version]
          scope     \* scope[s] = [company, label, status, version]

structure == <<company, scope>>

LifeStatuses == {"ACTIVE", "INACTIVE"}

NoCompany == [name |-> None, status |-> "INACTIVE", version |-> 0]
NoScope   == [company |-> None, label |-> None, status |-> "INACTIVE", version |-> 0]

NewCompany(name)    == [name |-> name, status |-> "ACTIVE", version |-> 1]
NewScope(c, label)  == [company |-> c, label |-> label, status |-> "ACTIVE", version |-> 1]

\* @@unique([organizationId, name]), and the normalized identity of a scope.
NameFree(c, name) == \A d \in Companies \ {c} : company[d].name # name
KeyFree(s, c, label) ==
  \A t \in Scopes \ {s} : scope[t].company = c => Key[scope[t].label] # Key[label]

ActiveScopes(c) == {s \in Scopes : scope[s].company = c /\ scope[s].status = "ACTIVE"}

CreateCompany(c, name) ==
  /\ company[c] = NoCompany /\ NameFree(c, name)
  /\ company' = [company EXCEPT ![c] = NewCompany(name)]
  /\ UNCHANGED scope

MayRename(c, name, expected) ==
  company[c] # NoCompany /\ company[c].version = expected /\ NameFree(c, name)

RenameCompany(c, name, expected) ==
  /\ MayRename(c, name, expected)
  /\ company' = [company EXCEPT ![c].name = name, ![c].version = expected + 1]
  /\ UNCHANGED scope

MayChangeCompany(c, status) ==
  company[c] # NoCompany /\ (status = "INACTIVE" => ActiveScopes(c) = {})

ChangeCompany(c, status) ==
  /\ MayChangeCompany(c, status)
  /\ company' = [company EXCEPT ![c].status = status]
  /\ UNCHANGED scope

CreateScope(s, c, label) ==
  /\ scope[s] = NoScope /\ company[c].status = "ACTIVE" /\ KeyFree(s, c, label)
  /\ scope' = [scope EXCEPT ![s] = NewScope(c, label)]
  /\ UNCHANGED company

MayUpdate(s, label, expected) ==
  scope[s] # NoScope /\ scope[s].version = expected /\ KeyFree(s, scope[s].company, label)

UpdateScope(s, label, expected) ==
  /\ MayUpdate(s, label, expected)
  /\ scope' = [scope EXCEPT ![s].label = label, ![s].version = expected + 1]
  /\ UNCHANGED company

MayChangeScope(s, status) ==
  scope[s] # NoScope /\ (status = "ACTIVE" => company[scope[s].company].status = "ACTIVE")

ChangeScope(s, status) ==
  /\ MayChangeScope(s, status)
  /\ scope' = [scope EXCEPT ![s].status = status]
  /\ UNCHANGED company

(***************************************************************************)
(* An Organization may have any structure that keeps the promises.         *)
(***************************************************************************)
CompanyRow == [name : Names \cup {None}, status : LifeStatuses, version : Nat]
ScopeRow   == [company : Companies \cup {None}, label : Labels \cup {None},
               status : LifeStatuses, version : Nat]

Existing(c) == company[c].name # None
Placed(s)   == scope[s].company # None

\* An ACTIVE Business Scope has an ACTIVE Company.
ParentsActive ==
  \A s \in Scopes : scope[s].status = "ACTIVE" => company[scope[s].company].status = "ACTIVE"

\* A Company name, and the identity of a scope in its Company, are unique.
IdentitiesUnique ==
  /\ \A c, d \in Companies : Existing(c) /\ company[c].name = company[d].name => c = d
  /\ \A s, t \in Scopes : Placed(s) /\ scope[s].company = scope[t].company
                            /\ Key[scope[s].label] = Key[scope[t].label] => s = t

RegisterTypeOK ==
  /\ company \in [Companies -> CompanyRow] /\ scope \in [Scopes -> ScopeRow]
  /\ \A c \in Companies : ~Existing(c) => company[c] = NoCompany
  /\ \A s \in Scopes : IF Placed(s) THEN Existing(scope[s].company) /\ scope[s].label # None
                                    ELSE scope[s] = NoScope

\* Structures in which nothing has been edited yet.
StartCompanies ==
  {NoCompany} \cup [name : Names, status : LifeStatuses, version : {1}]
StartScopes ==
  {NoScope} \cup [company : Companies, label : Labels, status : LifeStatuses, version : {1}]

RegisterInit == RegisterTypeOK /\ ParentsActive /\ IdentitiesUnique

RegisterNext ==
  \/ \E c \in Companies :
       \/ \E name \in Names : CreateCompany(c, name) \/ RenameCompany(c, name, company[c].version)
       \/ \E status \in LifeStatuses : ChangeCompany(c, status)
  \/ \E s \in Scopes :
       \/ \E label \in Labels : \/ UpdateScope(s, label, scope[s].version)
                                \/ \E c \in Companies : CreateScope(s, c, label)
       \/ \E status \in LifeStatuses : ChangeScope(s, status)

RegisterSpec == RegisterInit /\ [][RegisterNext]_structure
=============================================================================
