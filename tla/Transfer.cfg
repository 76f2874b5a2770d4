CONSTANTS
  Requests = {r1, r2}
  Members = {o, s, t}
  Offers = {p1, p2, p3, p4}
  Own = Own
  Org = Org
  None = None
  Grants = {g}
  Ops = {"propose", "accept", "demote", "suspend", "reactivate", "changeAccess", "platformSuspend"}
  StartRoles <- AdminRoles
  StartPending = TRUE
  MaxBegun = 3
  MaxAhead = 1
  MaxSessions = 1
SPECIFICATION Spec
SYMMETRY Symmetry
INVARIANTS OwnerIsActiveAdministrator RegisterIInv
PROPERTIES ImplementsRegister ChangesCounted EvidenceIsFaithful
