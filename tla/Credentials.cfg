CONSTANTS
  Requests = {r1, r2}
  Sessions = {s1, s2}
  Links = {k1, k2}
  Credential = credential
  None = None
  Ops = {"login", "use", "logout", "completeRequired", "requestReset", "reset"}
  MaxFailures = 2
  Lock = 1
  Idle = 2
  Absolute = 3
  LinkLife = 1
  MaxTime = 2
  MaxBegun = 3
SPECIFICATION Spec
INVARIANTS TypeOK OnlyIssuesCircle
PROPERTIES ImplementsBook FailuresCounted RevokedForGood
SYMMETRY Symmetry
