CONSTANTS
  Users = {u1}
  Employers = {e1}
  Readers = {r1, r2}
  Ids = {i1, i2}
  Day = 2
  None = None
SPECIFICATION FairSpec
INVARIANTS
  PublicWithinADay
PROPERTIES
  StaleRefusalsEnd
  ImplementsStore
