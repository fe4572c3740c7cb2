\* The claim of auth_service.py:95 about a reused token.
CONSTANTS
  r1 = r1  r2 = r2  r3 = r3  t1 = t1  t2 = t2  t3 = t3  u1 = u1
  None = None
  Req = {r1, r2, r3}
  Token = {t1, t2, t3}
  User = {u1}
SPECIFICATION Spec
\* Every request may be done.
CHECK_DEADLOCK FALSE
INVARIANTS ReuseRevokesFamily
