CONSTANTS
  u1 = u1
  u2 = u2
  tab1 = tab1
  tab2 = tab2
  Subjects = {u1, u2}
  Sessions = {tab1, tab2}
  UserOf <- TwoUsers
  Calls = {c1, c2}
  MaxIssues = 2
  None = None
SPECIFICATION Spec
SYMMETRY CallSymmetry
INVARIANT TokenInv
PROPERTIES OwnToken FreshOrNew DeletedOnlyAfterRefusal
