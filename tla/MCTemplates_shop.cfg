SPECIFICATION Spec
CONSTANTS
  Market = {"m1"}
  Clients = {c1, c2}
  MaxTemplates = 3
  MaxBases = 1
  MaxEdits = 1
  MaxPosts = 2
  MaxMishaps = 1
  c1 = c1
  c2 = c2
SYMMETRY ClientSymmetry
CONSTRAINT AloneOrFew
INVARIANTS TypeOK ShownAsPosted FamilyTree
CHECK_DEADLOCK FALSE
