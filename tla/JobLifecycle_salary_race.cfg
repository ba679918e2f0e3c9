SPECIFICATION Spec
CONSTANTS
  Jobs = {j1}
  Contents = {c1, c2}
  Publishes = {e1, e2}
  Moderators = {m1}
  Approvals = {r1, r2}
  Seekers = {}
  None = None
  Expiry = 0
  MaxTime = 0
INVARIANT
  SalaryMatches
