\* Three administrators, two fields, a rule of an organization or a global one.
CONSTANTS
  orgA = orgA
  orgB = orgB
  global = global
  none = none
  absent = absent
  impact = impact
  active = active
  old = old
  new = new
  Req = {r1, r2, r3}
  RuleId = {1, 2}
  Org = {orgA, orgB}
  Global = global
  Field = {impact, active}
  Value = {old, new}
  None = none
  Absent = absent
  Call <- MCCall
  Table <- MCTable
SPECIFICATION Spec
INVARIANTS UpdatesAreTrue
PROPERTIES ChangesAreAsked Answered
CHECK_DEADLOCK FALSE
