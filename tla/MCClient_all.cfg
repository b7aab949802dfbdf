CONSTANTS
  Users = {u1, u2}
  Pwds = {p1, p2}
  Files = {}
  Big = {}
  Calls = {c1, c2}
  Tabs = {t1, t2}
  Plain = {u1, u2}
  None = None
  Undef = Undef
  MaxTokens = 2
  MaxSent = 2
SPECIFICATION Spec
SYMMETRY Symmetry
CHECK_DEADLOCK FALSE
INVARIANTS Consistent PagePair NoRedirectLoop RegisterStands
