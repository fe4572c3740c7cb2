\* The worker as docker-compose.yml starts it.
CONSTANTS
  None = None
  Req = {r1}
  Worker = {w1, w2}
  Served <- ServesDefault
  MaxReturns = 0
SPECIFICATION Spec
PROPERTIES EveryCallAudited
CHECK_DEADLOCK FALSE
