\* Channels of capacity one; the server may crash or stop once and restart.
SPECIFICATION FairSpec
CONSTANTS
  j1 = j1
  j2 = j2
  r1 = r1
  r2 = r2
  r3 = r3
  Jobs = {j1, j2}
  Requests = {r1, r2, r3}
  Kind <- MCKind
  Shown <- MCShown
  EventsCapacity = 1
  BatchesCapacity = 1
  MaxStarts = 2
INVARIANTS
  Conservation
  ShutdownDrains
  NeverClosedOnHandlers
PROPERTIES
  ImplementsCounts
  ShutdownEnds
  EventuallySettled
