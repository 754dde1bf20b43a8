\* One worker, as deployed, that may die twice; an event of each kind,
\* one more than a batch takes.
SPECIFICATION Spec
CONSTANTS
  Event = {plain, inapp, push}
  NotifyEvent = {inapp, push}
  OutboundEvent = {push}
  TopicEvent = {inapp, push}
  Worker = {w1}
  BatchSize = 2
  RedisFails = FALSE
  MaxCrashes = 2
INVARIANTS TypeOK AtLeastOnce CausesComeFirst
PROPERTIES KeepsDelivery CommittedIsConsumed
\* Every event is raised once: the model stops when all are published.
CHECK_DEADLOCK FALSE
