\* Two messages to create notifications, one of them outbound, and two sweeps
\* on two workers, of which two may be lost.
SPECIFICATION Spec
CONSTANTS
  NotificationId = {n1, n2, n3}
  Dispatch = {d1, d2}
  Sweep = {s1, s2}
  Outbound = {d1}
  Workers = 2
  MaxRetries = 1
  MaxLost = 2
  Nobody = Nobody
SYMMETRY Interchangeable
INVARIANTS TypeOK SentOnce
\* Every message is sent once: the model stops when all are over.
CHECK_DEADLOCK FALSE
