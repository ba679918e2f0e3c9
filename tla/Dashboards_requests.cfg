\* Two employers, a job, and a job seeker with a photo.
SPECIFICATION Spec
CONSTANTS
  u1 = u1
  t1 = t1
  t2 = t2
  s1 = s1
  p1 = p1
  Users = {u1}
  Tabs = {t1, t2}
  User <- MCUser
  KindsOf <- MCKindsOf
  Employers = {e1, e2}
  Jobs = {j1}
  Seekers = {s1}
  Photos = {p1}
  By <- MCBy
  Moderators = {}
  None = None
SYMMETRY Symmetry
INVARIANTS
  ActedForOwn
  OnlyReselectionMisdirects
  ListedOpens
  SentHadMet
