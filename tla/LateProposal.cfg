CONSTANTS
  Requests = {r1, r2}
  Members = {o, s, t}
  Offers = {p1, p2, p3, p4}
  Own = Own
  Org = Org
  None = None
  Grants = {g}
  Ops = {"suspend", "propose"}
  StartRoles <- AdminRoles
  StartPending = FALSE
  MaxBegun = 2
  MaxAhead = 0
  MaxSessions = 1
SPECIFICATION Spec

INVARIANT PendingSuccessorActive
