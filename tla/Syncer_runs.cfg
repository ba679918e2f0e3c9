\* Two foundations, whose tasks run at the same time.
SPECIFICATION FairSpec
CONSTANTS
  f1 = f1
  f2 = f2
  a = a
  a2 = a2
  b = b
  x = x
  y = y
  hidden = hidden
  Foundations = {f1, f2}
  Names = {a, a2, b, hidden}
  Data = {x, y, hidden}
  Stripped <- MCStripped
  NonPublic = {hidden}
  Archived = hidden
  Landscapes <- MCLandscapes
  Absent = Absent
  MaxTasks = 2
  MaxChanges = 1
  MaxFailures = 2
INVARIANTS
  OkIsSynced
PROPERTIES
  ImplementsMirror
  EventuallySynced
