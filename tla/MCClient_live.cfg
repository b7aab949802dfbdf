CONSTANTS
  Users = {u1, u2}
  Pwds = {p1}
  Files = {small, big}
  Big = {big}
  Calls = {c1, c2}
  Tabs = {t1}
  Plain = {u2}
  None = None
  Undef = Undef
  MaxTokens = 1
  MaxSent = 2
SPECIFICATION Spec
CHECK_DEADLOCK FALSE
INVARIANTS UploadAfterCheck AcceptedWasIssued
PROPERTY LoadingEnds
