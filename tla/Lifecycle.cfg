CONSTANTS
  Requests = {r1, r2}
  Members = {o, s, t}
  Offers = {p1, p2, p3}
  Own = Own
  Org = Org
  None = None
  Grants = {g, h}
  Ops = {"promote", "suspend", "reactivate", "remove", "replaceGrants", "platformSuspend"}
  StartRoles <- AllRoles
  StartPending = FALSE
  MaxBegun = 2
  MaxAhead = 1
  MaxSessions = 1
SPECIFICATION Spec
SYMMETRY Symmetry
INVARIANTS TypeOK RegisterIInv
PROPERTIES EvidenceIsFaithful

