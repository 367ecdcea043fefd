\* One caller that manages keys, one that uses them, in either mode.
SPECIFICATION KeySpec
CONSTANTS
  MaxKeys = 2
  KeyClient = {k1}
  KeyAdmin = {k2}
INVARIANTS ExpiredRejected
CHECK_DEADLOCK FALSE
