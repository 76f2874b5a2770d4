CONSTANTS
  Requests = {r1, r2, r3}
  Members = {o, s}
  Offers = {p1, p2, p3, p4}
  Own = Own
  Org = Org
  None = None
  Grants = {g}
  Ops = {"accept", "demote", "propose"}
  StartRoles <- AdminRoles
  StartPending = TRUE
  MaxBegun = 3
  MaxAhead = 0
  MaxSessions = 2
SPECIFICATION Spec
SYMMETRY Symmetry
INVARIANTS OnePendingOffer PendingOfferIsOwners
PROPERTIES OfferResolvedOnce TransferByAcceptance SessionsEndWithChange
