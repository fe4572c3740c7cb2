\* Three submissions that share a key, a phone and an IP.
CONSTANTS
  r1 = r1  r2 = r2  r3 = r3  k1 = k1  o1 = o1  o2 = o2  p1 = p1  i1 = i1
  d1 = d1  reuse = reuse  format = format  local = local  foreign = foreign
  None = None  Admin = Admin  Global = Global
  Req = {r1, r2, r3}
  Key = {k1}
  KeyOrg <- OneKeyOrg
  LateKey = {}
  Org = {o1}
  RuleId = {reuse}
  RuleTable <- OneRule
  Phone = {p1}
  Ip = {i1}
  Device = {}
  Call <- CounterCalls
  PoolSize = 2
SPECIFICATION Spec
SYMMETRY ReqSymmetry
INVARIANTS KeyExclusion RecordedIsCounted ReuseSeenPerKey VelocityCap
PROPERTIES LogSpec
\* All requests may be done and every key revoked.
CHECK_DEADLOCK FALSE
