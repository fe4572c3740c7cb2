\* One administrator and a rule, of an organization or global.
CONSTANTS
  orgA = orgA
  orgB = orgB
  global = global
  none = none
  absent = absent
  impact = impact
  active = active
  old = old
  new = new
  Req = {r1}
  RuleId = {1, 2}
  Org = {orgA, orgB}
  Global = global
  Field = {impact, active}
  Value = {old, new}
  None = none
  Absent = absent
  Call <- MCCall
  Table <- MCTable
SPECIFICATION Spec
PROPERTIES OrgScopedOnly
CHECK_DEADLOCK FALSE
