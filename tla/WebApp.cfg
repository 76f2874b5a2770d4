CONSTANTS
  Companies = {c1}
  Scopes = {s1}
  Names = {n1, n2}
  Labels = {l1}
  Key <- OneKey
  None = None
  MaxLoads = 3
  MaxPosts = 2
  MaxOthers = 1
  N = 2
  Staff = {"ann", "ben"}
  Home <- HomeOf
  PageSize = 1
  MaxGets = 3
  MaxChanges = 2
  MaxElsewhere = 1
  MaxEvents = 5
SPECIFICATION Spec
INVARIANTS WebIInv OwnEditsShown
PROPERTIES EditReplacesWhatWasShown AppliedToWhatWasShown
SYMMETRY Symmetry
CONSTRAINT Short
CHECK_DEADLOCK FALSE
