CONSTANTS
  j1 = j1
  j2 = j2
  j3 = j3
  j4 = j4
  Jobs = {j1, j2, j3, j4}
  Visitors = {r1}
  Pay <- MCPay
  Ranges = {1, 2}
  Expiry = 2
  DefaultLimit = 2
  Asked <- MCAsked
  MaxDay = 2
  MaxChanges = 2
  Unset = Unset
SPECIFICATION ListingsSpec
INVARIANTS
  MissedAtMostLeft
  RepeatedAtMostCame
  LinksLand
