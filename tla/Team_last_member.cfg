SPECIFICATION Spec
CONSTANTS
  Users = {u1, u2}
  Employers = {e1}
  Sessions = {b1, b2}
  None = None
INVARIANT
  LastMemberStays
