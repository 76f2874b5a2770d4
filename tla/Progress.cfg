CONSTANTS
  Requests = {r1, r2}
  Members = {o, s}
  Offers = {p1, p2, p3, p4}
  Own = Own
  Org = Org
  None = None
  Grants = {g}
  Ops = {"accept", "demote", "changeAccess"}
  StartRoles <- AdminRoles
  StartPending = TRUE
  MaxBegun = 3
  MaxAhead = 0
  MaxSessions = 1
SPECIFICATION FairSpec
PROPERTIES RequestsEnd
