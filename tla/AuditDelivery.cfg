\* A verification and two worker processes; the broker gives each message back once at most.
CONSTANTS
  None = None
  Req = {r1}
  Worker = {w1, w2}
  Served <- ServesAudit
  MaxReturns = 1
SPECIFICATION Spec
INVARIANTS NothingForgotten RowsExplained
PROPERTIES ResponsesAudited
CHECK_DEADLOCK FALSE
