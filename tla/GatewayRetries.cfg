\* An operation sent twice and one other request, one of which may die;
\* one request is allowed in each of two windows, and Redis goes away once.
SPECIFICATION GatewaySpec
CONSTANTS
  Keyed = {first, second}
  Unkeyed = {other}
  Limit = 1
  MaxWindows = 1
  MaxCrashes = 1
  MaxOutages = 1
  Free = Free
INVARIANTS GatewayTypeOK OneAtATime RepeatsAgree WindowIsFair
 
\* Every request is sent once: the model stops when all are answered.
CHECK_DEADLOCK FALSE
