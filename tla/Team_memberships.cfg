\* Two users, two employers and two sessions.
SPECIFICATION Spec
CONSTANTS
  Users = {u1, u2}
  Employers = {e1, e2}
  Sessions = {b1, b2}
  None = None
SYMMETRY Symmetry
INVARIANT
  SelectedWasMember
PROPERTY
  OnlyOvertakenEmpties
  ImplementsRoster
