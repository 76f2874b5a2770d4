CONSTANTS
  Requests = {r1, r2}
  People = {p, q}
  Invites = {i1, i2, i3, i4, i5}
  Own = Own
  Org = Org
  None = None
  Ops = {"invite", "resend", "revoke", "accept", "acceptExisting", "ownerAccept", "ownerAcceptExisting", "ownerResend", "disable", "suspend", "reactivate", "remove"}
  Starts = {"new", "invited"}
  Standings <- AnyStanding
  MaxBegun = 3
SPECIFICATION Spec
INVARIANTS TypeOK OwnerInvitationClosed OwnerCameByInvitation InvitationIInv
PROPERTIES MembershipWritesCounted ImplementsBook
SYMMETRY Symmetry
