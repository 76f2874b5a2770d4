CONSTANTS
  Requests = {r1, r2}
  Companies = {c1, c2}
  Scopes = {s1, s2}
  Names = {n1, n2}
  Labels <- Spellings
  Key <- Folded
  None = None
  Ops = {"createCompany", "renameCompany", "deactivateCompany", "reactivateCompany", "createScope", "updateScope", "deactivateScope", "reactivateScope"}
  MaxStart = 3
  MaxBegun = 3
SPECIFICATION Spec
INVARIANTS TypeOK StructureIInv ActiveScopeHasActiveCompany NoDuplicateStructure 
PROPERTIES ImplementsRegister StructureEvidence
SYMMETRY Symmetry
