SPECIFICATION Spec
CONSTANTS
  Market = {"m1"}
  Clients = {c1}
  MaxTemplates = 4
  MaxBases = 1
  MaxEdits = 1
  MaxPosts = 1
  MaxMishaps = 0
  c1 = c1
INVARIANT OneEditable
CHECK_DEADLOCK FALSE
