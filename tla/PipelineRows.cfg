\* Two requests and a revocation compete for two connections and a row lock,
\* while keys, organizations, rules and the blacklist change.
CONSTANTS
  r1 = r1  r2 = r2  r3 = r3  k1 = k1  o1 = o1  o2 = o2  p1 = p1  i1 = i1
  d1 = d1  reuse = reuse  format = format  local = local  foreign = foreign
  None = None  Admin = Admin  Global = Global
  Req = {r1, r2}
  Key = {k1}
  KeyOrg <- OneKeyOrg
  LateKey = {k1}
  Org = {o1, o2}
  RuleId = {format, local, foreign}
  RuleTable <- RowRules
  Phone = {}
  Ip = {}
  Device = {d1}
  Call <- RowCalls
  PoolSize = 2
SPECIFICATION Spec
INVARIANTS TypeOK OwnRulesOnly AnswerMatchesLedger AuditAgrees
PROPERTIES RevocationDrains LateRequestsRefused Answered RevocationEnds
\* All requests may be done and every key revoked.
CHECK_DEADLOCK FALSE
