\* Deliveries that are slow, fail, or cannot be prepared; two failures at any
\* time.
SPECIFICATION FairSpec
CONSTANTS
  Notes = {n1, n2, n3}
  Invitations = {n1}
  Unrenderable = {n2}
  Conns = {c1, c2}
  None = None
  SlowDelivery = TRUE
  MaxFailures = 2
INVARIANTS
  PoolIsWhole
  AnsweredIsQueued
PROPERTY
  
  ImplementsOutbox
