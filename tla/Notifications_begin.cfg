SPECIFICATION Spec
CONSTANTS
  Notes = {n1}
  Invitations = {}
  Unrenderable = {}
  Conns = {c1, c2}
  None = None
  SlowDelivery = TRUE
  MaxFailures = 1
PROPERTY
  BeginsNewTransaction
