\* Four requests of one client, one allowed per window of two ticks.
CONSTANTS
  key = key
  Quota = 1
  Req = {1, 2, 3, 4}
  Bucket = {key}
  Limit <- MCLimit
  Window = 2
SPECIFICATION Spec
INVARIANTS TypeOK WindowCap RefusedOverLimit
PROPERTIES Recovers
