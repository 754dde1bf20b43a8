-------------------------- MODULE BackgroundProofs --------------------------
(***************************************************************************)
(* What is proved of the two components that run in the background:        *)
(* Notifications, for any messages, notifications, size of the pool,       *)
(* retries and lost workers, and Analytics, for any number of rebuilds and *)
(* stock rows and any bound on counts and quantities.                      *)
(***************************************************************************)
EXTENDS Notifications, Analytics, FiniteSetTheorems, TLAPS

-----------------------------------------------------------------------------
(* Notifications.                                                           *)

AtMostOne(S) == \A x, y \in S : x = y

PoolIsFinite == IsFiniteSet(Running)

\* A sweep has only what is there at hand, and what it has given to the provider
\* it still has to mark.
Listed ==
  \A s \in Sweep :
    /\ \A n \in todo[s] : notifications[n] # None
    /\ sending[s] # Nobody => sending[s] \in todo[s] /\ sent[sending[s]] # 0

Shown == \A n \in NotificationId : notifications[n].status = "sent" => sent[n] # 0

\* Unless something was run for twice: one sweep at most has it at hand, and
\* until that one calls the provider it has not been sent.
OnceFor(n) ==
  /\ sent[n] <= 1
  /\ \A s, t \in Sweep : n \in todo[s] /\ n \in todo[t] => s = t
  /\ \A s \in Sweep : n \in todo[s] /\ sending[s] # n => sent[n] = 0
  /\ notifications[n].status \in {"none", "pending"} /\ n \notin AtHand => sent[n] = 0

Once == \A n \in NotificationId \ repeated : OnceFor(n)

\* A message that was not run again has created nothing before its commit.
Before == {"unsent", "queued", "running"}

Messages ==
  \A d \in Dispatch \ repeated :
    /\ AtMostOne(CreatedBy(d))
    /\ task[d] \in Before => CreatedBy(d) = {}

NotificationsInv == TypeOK /\ PoolIsFinite /\ Listed /\ Shown /\ Once /\ Messages

-----------------------------------------------------------------------------
(* Parts that a step leaves alone.                                          *)

\* A message moves on: the pool does not exceed its size.
LEMMA TaskMoves ==
  ASSUME TypeOK, PoolIsFinite, NEW t \in Task,
         NEW state \in {"unsent", "queued", "running", "committed", "over"},
         Becomes(t, state),
         state \in {"running", "committed"} => t \in Running \/ Free
  PROVE  /\ task' \in [Task -> {"unsent", "queued", "running", "committed", "over"}]
         /\ task'[t] = state
         /\ \A u \in Task \ {t} : task'[u] = task[u]
         /\ Running' = IF state \in {"running", "committed"} THEN Running \cup {t} ELSE Running \ {t}
         /\ PoolIsFinite'
         /\ Cardinality(Running)' <= Workers
<1>1. /\ task' \in [Task -> {"unsent", "queued", "running", "committed", "over"}]
      /\ task'[t] = state
      /\ \A u \in Task \ {t} : task'[u] = task[u]
  BY DEF TypeOK, Becomes
<1>2. Running' = IF state \in {"running", "committed"} THEN Running \cup {t} ELSE Running \ {t}
  BY <1>1 DEF Running
<1>3. IsFiniteSet(Running) /\ Cardinality(Running) \in Nat /\ Cardinality(Running) <= Workers
  BY FS_CardinalityType DEF PoolIsFinite, TypeOK
<1>4. CASE state \in {"running", "committed"}
  <2>1. /\ IsFiniteSet(Running \cup {t})
        /\ t \in Running => Running \cup {t} = Running
        /\ t \notin Running => Cardinality(Running \cup {t}) = Cardinality(Running) + 1
    BY <1>3, FS_AddElement
  <2>2. Cardinality(Running \cup {t}) <= Workers
    <3>1. CASE t \in Running
      BY <1>3, <2>1, <3>1
    <3>2. CASE t \notin Running
      <4>1. Cardinality(Running) < Workers
        BY <1>4, <3>2 DEF Free
      <4> QED
        BY <1>3, <2>1, <3>2, <4>1, NotificationsAssumption
    <3> QED
      BY <3>1, <3>2
  <2> QED
    BY <1>1, <1>2, <1>4, <2>1, <2>2 DEF PoolIsFinite
<1>5. CASE state \notin {"running", "committed"}
  <2>1. IsFiniteSet(Running \ {t}) /\ Cardinality(Running \ {t}) \in Nat
    BY <1>3, FS_RemoveElement, FS_CardinalityType
  <2>2. Cardinality(Running \ {t}) <= Cardinality(Running)
    BY <1>3, FS_Subset, Running \ {t} \subseteq Running
  <2>3. Cardinality(Running \ {t}) <= Workers
    BY <1>3, <2>1, <2>2, NotificationsAssumption
  <2> QED
    BY <1>1, <1>2, <1>5, <2>1, <2>3 DEF PoolIsFinite
<1> QED
  BY <1>4, <1>5

LEMMA OnceStays ==
  ASSUME Listed, Shown, Once, UNCHANGED <<notifications, todo, sending, sent>>,
         repeated \subseteq repeated'
  PROVE  Listed' /\ Shown' /\ Once'
<1>1. \A n \in NotificationId : OnceFor(n)' <=> OnceFor(n)
  BY DEF OnceFor, AtHand
<1> QED
  BY <1>1 DEF Listed, Shown, Once

LEMMA MessagesStay ==
  ASSUME Messages, repeated \subseteq repeated',
         \A d \in Dispatch : CreatedBy(d)' = CreatedBy(d),
         \A d \in Dispatch \ repeated' : task'[d] \in Before => task[d] \in Before
  PROVE  Messages'
<1> SUFFICES ASSUME NEW d \in Dispatch \ repeated'
             PROVE  /\ AtMostOne(CreatedBy(d)')
                    /\ task'[d] \in Before => CreatedBy(d)' = {}
  BY DEF Messages, AtMostOne
<1> QED
  BY DEF Messages, AtMostOne

\* A message moves on and nothing else: what it was run for again is in repeated.
LEMMA OnlyTask ==
  ASSUME NotificationsInv, NEW t \in Task,
         NEW state \in {"unsent", "queued", "running", "committed", "over"},
         Becomes(t, state),
         state \in {"running", "committed"} => t \in Running \/ Free,
         state = "committed" => task[t] = "committed",
         t \in Sweep => state \in {"running", "committed"} \/ (todo[t] = {} /\ sending[t] = Nobody),
         t \in Dispatch => state \notin Before \/ task[t] \in Before \/ t \in repeated',
         repeated \subseteq repeated', repeated' \subseteq Dispatch \cup NotificationId,
         retries' \in [Dispatch -> 0..MaxRetries], lost' \in 0..MaxLost,
         UNCHANGED <<notifications, todo, sending, sent>>
  PROVE  NotificationsInv'
<1>1. /\ task' \in [Task -> {"unsent", "queued", "running", "committed", "over"}]
      /\ task'[t] = state
      /\ \A u \in Task \ {t} : task'[u] = task[u]
      /\ Running' = IF state \in {"running", "committed"} THEN Running \cup {t} ELSE Running \ {t}
      /\ PoolIsFinite'
      /\ Cardinality(Running)' <= Workers
  BY TaskMoves DEF NotificationsInv
<1>2. \A d \in Dispatch : CreatedBy(d)' = CreatedBy(d) /\ d \in Task
  BY DEF CreatedBy, Task
<1>3. /\ \A s \in Sweep : s \notin Running' => todo'[s] = {} /\ sending'[s] = Nobody
      /\ \A d \in Dispatch : task'[d] = "committed" => CreatedBy(d)' # {}
  BY <1>1, <1>2 DEF NotificationsInv, TypeOK
<1>4. TypeOK'
  BY <1>1, <1>3 DEF NotificationsInv, TypeOK
<1>5. Listed' /\ Shown' /\ Once'
  BY OnceStays DEF NotificationsInv
<1>6. Messages'
  BY <1>1, <1>2, MessagesStay DEF NotificationsInv
<1> QED
  BY <1>1, <1>4, <1>5, <1>6 DEF NotificationsInv

-----------------------------------------------------------------------------
(* The life of a message.                                                   *)

LEMMA InitInv == Init => NotificationsInv
<1> SUFFICES ASSUME Init PROVE NotificationsInv
  OBVIOUS
<1>1. /\ Running = {}
      /\ AtHand = {}
      /\ \A d \in Dispatch : CreatedBy(d) = {}
      /\ \A n \in NotificationId : notifications[n] = None
  BY DEF Init, Running, AtHand, CreatedBy, None
<1>2. IsFiniteSet(Running) /\ Cardinality(Running) = 0
  BY <1>1, FS_EmptySet
<1>3. TypeOK
  BY <1>2, NotificationsAssumption DEF Init, TypeOK, Task
<1>4. PoolIsFinite /\ Listed /\ Shown /\ Once /\ Messages
  BY <1>1, <1>2 DEF Init, PoolIsFinite, Listed, Shown, Once, OnceFor, Messages, AtMostOne, None
<1> QED
  BY <1>3, <1>4 DEF NotificationsInv

LEMMA SendInv ==
  ASSUME NotificationsInv, NEW t \in Task, Send(t)
  PROVE  NotificationsInv'
<1>1. /\ task[t] = "unsent" /\ Becomes(t, "queued")
      /\ UNCHANGED <<retries, lost, notifications, todo, sending, sent, repeated>>
  BY DEF Send, sweeps
<1>2. t \notin Running
  BY <1>1 DEF Running
<1> QED
  BY <1>1, <1>2, OnlyTask DEF NotificationsInv, TypeOK, Before

LEMMA StartDispatchInv ==
  ASSUME NotificationsInv, NEW d \in Dispatch, StartDispatch(d)
  PROVE  NotificationsInv'
<1>1. /\ task[d] = "queued" /\ Free /\ Becomes(d, "running")
      /\ UNCHANGED <<retries, lost, notifications, todo, sending, sent, repeated>>
  BY DEF StartDispatch, sweeps
<1>2. d \in Task /\ d \notin Sweep
  BY NotificationsAssumption DEF Task
<1> QED
  BY <1>1, <1>2, OnlyTask DEF NotificationsInv, TypeOK, Before

LEMMA AcknowledgeInv ==
  ASSUME NotificationsInv, NEW d \in Dispatch, Acknowledge(d)
  PROVE  NotificationsInv'
<1>1. /\ Becomes(d, "over")
      /\ UNCHANGED <<retries, lost, notifications, todo, sending, sent, repeated>>
  BY DEF Acknowledge, sweeps
<1>2. d \in Task /\ d \notin Sweep /\ "over" \notin Before
  BY NotificationsAssumption DEF Task, Before
<1> QED
  BY <1>1, <1>2, OnlyTask DEF NotificationsInv, TypeOK

\* A message that had committed is in repeated when it is queued again.
LEMMA RetryInv ==
  ASSUME NotificationsInv, NEW d \in Dispatch, Retry(d)
  PROVE  NotificationsInv'
<1>1. /\ d \in Running
      /\ UNCHANGED <<lost, notifications, todo, sending, sent>>
  BY DEF Retry, sweeps
<1>2. d \in Task /\ d \notin Sweep /\ "over" \notin Before
  BY NotificationsAssumption DEF Task, Before
<1>3. CASE retries[d] < MaxRetries
  <2>1. /\ Becomes(d, "queued")
        /\ retries' = [retries EXCEPT ![d] = @ + 1]
        /\ repeated' = repeated \cup Committed(d)
    BY <1>3 DEF Retry
  <2>2. retries' \in [Dispatch -> 0..MaxRetries]
    BY <1>3, <2>1, NotificationsAssumption DEF NotificationsInv, TypeOK
  <2>3. task[d] \in Before \/ d \in repeated'
    BY <1>1, <2>1 DEF Running, Committed, Before
  <2>4. repeated \subseteq repeated' /\ repeated' \subseteq Dispatch \cup NotificationId
    BY <2>1 DEF Committed, NotificationsInv, TypeOK
  <2> QED
    BY <1>1, <1>2, <2>1, <2>2, <2>3, <2>4, OnlyTask DEF NotificationsInv, TypeOK
<1>4. CASE ~(retries[d] < MaxRetries)
  <2>1. Becomes(d, "over") /\ UNCHANGED <<retries, repeated>>
    BY <1>4 DEF Retry
  <2> QED
    BY <1>1, <1>2, <2>1, OnlyTask DEF NotificationsInv, TypeOK
<1> QED
  BY <1>3, <1>4

-----------------------------------------------------------------------------
(* Notifications that are created.                                          *)

\* A row that is added is in no sweep's list and has not been sent.
LEMMA InsertKeeps ==
  ASSUME NotificationsInv, NEW n \in NotificationId, NEW outbound \in BOOLEAN,
         NEW by \in Dispatch \cup {Nobody}, Insert(n, outbound, by),
         UNCHANGED <<todo, sending, sent, repeated>>
  PROVE  /\ notifications' \in [NotificationId ->
              {None} \cup [status : {"inapp", "pending", "sent"}, by : Dispatch \cup {Nobody}]]
         /\ Listed' /\ Shown' /\ Once'
         /\ \A d \in Dispatch : CreatedBy(d)' = IF d = by THEN CreatedBy(d) \cup {n} ELSE CreatedBy(d)
<1> DEFINE row == [status |-> IF outbound THEN "pending" ELSE "inapp", by |-> by]
<1>1. /\ row \in [status : {"inapp", "pending", "sent"}, by : Dispatch \cup {Nobody}]
      /\ row # None /\ row.by = by /\ row.status \in {"inapp", "pending"}
  BY DEF None
<1>2. notifications[n] = None /\ notifications' = [notifications EXCEPT ![n] = row]
  BY DEF Insert
<1> HIDE DEF row
<1>3. notifications'[n] = row /\ \A m \in NotificationId \ {n} : notifications'[m] = notifications[m]
  BY <1>2 DEF NotificationsInv, TypeOK
<1>4. notifications' \in [NotificationId ->
              {None} \cup [status : {"inapp", "pending", "sent"}, by : Dispatch \cup {Nobody}]]
  BY <1>1, <1>2 DEF NotificationsInv, TypeOK
<1>5. Listed'
  BY <1>1, <1>2, <1>3 DEF NotificationsInv, Listed, TypeOK
<1>6. Shown'
  BY <1>1, <1>3 DEF NotificationsInv, Shown
<1>7. Once'
  <2> SUFFICES ASSUME NEW m \in NotificationId \ repeated PROVE OnceFor(m)'
    BY DEF Once
  <2>1. OnceFor(m) /\ AtHand' = AtHand
    BY DEF NotificationsInv, Once, AtHand
  <2>2. m = n => n \notin AtHand /\ notifications[m].status = "none"
    BY <1>2 DEF NotificationsInv, Listed, AtHand, None
  <2>3. notifications'[m].status \in {"none", "pending"} /\ m \notin AtHand => sent[m] = 0
    BY <1>3, <2>1, <2>2 DEF OnceFor
  <2> QED
    BY <2>1, <2>3 DEF OnceFor
<1>8. \A d \in Dispatch : CreatedBy(d)' = IF d = by THEN CreatedBy(d) \cup {n} ELSE CreatedBy(d)
  BY <1>1, <1>2, <1>3 DEF CreatedBy
<1> QED
  BY <1>4, <1>5, <1>6, <1>7, <1>8

LEMMA CreateNotificationInv ==
  ASSUME NotificationsInv, NEW n \in NotificationId, CreateNotification(n)
  PROVE  NotificationsInv'
<1>1. PICK outbound \in BOOLEAN : Insert(n, outbound, Nobody)
  BY DEF CreateNotification
<1>2. UNCHANGED <<task, retries, lost, todo, sending, sent, repeated>>
  BY DEF CreateNotification, messages, sweeps
<1>3. /\ notifications' \in [NotificationId ->
            {None} \cup [status : {"inapp", "pending", "sent"}, by : Dispatch \cup {Nobody}]]
      /\ Listed' /\ Shown' /\ Once'
      /\ \A d \in Dispatch : CreatedBy(d)' = CreatedBy(d)
  BY <1>1, <1>2, InsertKeeps, NotificationsAssumption
<1>4. Running' = Running
  BY <1>2 DEF Running
<1>5. TypeOK' /\ PoolIsFinite'
  BY <1>2, <1>3, <1>4 DEF NotificationsInv, TypeOK, PoolIsFinite
<1>6. Messages'
  BY <1>2, <1>3, MessagesStay DEF NotificationsInv
<1> QED
  BY <1>3, <1>5, <1>6 DEF NotificationsInv

LEMMA DispatchNotificationInv ==
  ASSUME NotificationsInv, NEW d \in Dispatch, DispatchNotification(d)
  PROVE  NotificationsInv'
<1>1. PICK n \in NotificationId, outbound \in BOOLEAN : Insert(n, outbound, d)
  <2>1. PICK n \in NotificationId : Insert(n, d \in Outbound, d)
    BY DEF DispatchNotification
  <2>2. CASE d \in Outbound
    <3>1. Insert(n, TRUE, d)
      BY <2>1, <2>2 DEF Insert
    <3> QED
      BY <3>1
  <2>3. CASE d \notin Outbound
    <3>1. Insert(n, FALSE, d)
      BY <2>1, <2>3 DEF Insert
    <3> QED
      BY <3>1
  <2> QED
    BY <2>2, <2>3
<1>2. /\ task[d] = "running" /\ Becomes(d, "committed")
      /\ UNCHANGED <<retries, lost, todo, sending, sent, repeated>>
  BY DEF DispatchNotification, sweeps
<1>3. d \in Task /\ d \in Running /\ d \notin Sweep
  BY <1>2, NotificationsAssumption DEF Task, Running
<1>4. /\ notifications' \in [NotificationId ->
            {None} \cup [status : {"inapp", "pending", "sent"}, by : Dispatch \cup {Nobody}]]
      /\ Listed' /\ Shown' /\ Once'
      /\ \A e \in Dispatch : CreatedBy(e)' = IF e = d THEN CreatedBy(e) \cup {n} ELSE CreatedBy(e)
  BY <1>1, <1>2, InsertKeeps
<1>5. /\ task' \in [Task -> {"unsent", "queued", "running", "committed", "over"}]
      /\ task'[d] = "committed"
      /\ \A u \in Task \ {d} : task'[u] = task[u]
      /\ Running' = Running \cup {d}
      /\ PoolIsFinite'
      /\ Cardinality(Running)' <= Workers
  BY <1>2, <1>3, TaskMoves DEF NotificationsInv
<1>6. \A s \in Sweep : s \notin Running' => todo'[s] = {} /\ sending'[s] = Nobody
  BY <1>2, <1>5 DEF NotificationsInv, TypeOK
<1>7. \A e \in Dispatch : task'[e] = "committed" => CreatedBy(e)' # {}
  BY <1>4, <1>5 DEF NotificationsInv, TypeOK, Task
<1>8. TypeOK'
  BY <1>2, <1>4, <1>5, <1>6, <1>7 DEF NotificationsInv, TypeOK
<1>9. Messages'
  <2> SUFFICES ASSUME NEW e \in Dispatch \ repeated
               PROVE  /\ AtMostOne(CreatedBy(e)')
                      /\ task'[e] \in Before => CreatedBy(e)' = {}
    BY <1>2 DEF Messages, AtMostOne
  <2>1. CASE e = d
    <3>1. CreatedBy(d) = {}
      BY <1>2, <2>1 DEF NotificationsInv, Messages, Before
    <3> QED
      BY <1>4, <1>5, <2>1, <3>1 DEF AtMostOne, Before
  <2>2. CASE e # d
    <3>1. CreatedBy(e)' = CreatedBy(e) /\ task'[e] = task[e]
      BY <1>4, <1>5, <2>2 DEF Task
    <3> QED
      BY <3>1 DEF NotificationsInv, Messages, AtMostOne
  <2> QED
    BY <2>1, <2>2
<1> QED
  BY <1>4, <1>5, <1>8, <1>9 DEF NotificationsInv

-----------------------------------------------------------------------------
(* Sweeps.                                                                  *)

\* A sweep begins with all that is pending; what another one has listed is in
\* repeated from then on.
LEMMA StartSweepInv ==
  ASSUME NotificationsInv, NEW s \in Sweep, StartSweep(s)
  PROVE  NotificationsInv'
<1>1. /\ task[s] = "queued" /\ Free /\ Becomes(s, "running")
      /\ todo' = [todo EXCEPT ![s] = Pending]
      /\ repeated' = repeated \cup (Pending \cap AtHand)
      /\ UNCHANGED <<retries, lost, notifications, sending, sent>>
  BY DEF StartSweep
<1>2. s \in Task /\ s \notin Running /\ s \notin Dispatch
  BY <1>1, NotificationsAssumption DEF Task, Running
<1>3. todo[s] = {} /\ sending[s] = Nobody
  BY <1>2 DEF NotificationsInv, TypeOK
<1>4. /\ task' \in [Task -> {"unsent", "queued", "running", "committed", "over"}]
      /\ \A u \in Task \ {s} : task'[u] = task[u]
      /\ Running' = Running \cup {s}
      /\ PoolIsFinite'
      /\ Cardinality(Running)' <= Workers
  BY <1>1, <1>2, TaskMoves DEF NotificationsInv
<1>5. Pending \subseteq NotificationId /\ \A n \in Pending : notifications[n] # None
  BY DEF Pending, None
<1>6. /\ todo' \in [Sweep -> SUBSET NotificationId]
      /\ todo'[s] = Pending
      /\ \A t \in Sweep \ {s} : todo'[t] = todo[t]
  BY <1>1, <1>5 DEF NotificationsInv, TypeOK
<1>7. \A d \in Dispatch : CreatedBy(d)' = CreatedBy(d) /\ task'[d] = task[d]
  BY <1>1, <1>2, <1>4 DEF CreatedBy, Task
<1>8. TypeOK'
  <2>1. \A t \in Sweep : t \notin Running' => todo'[t] = {} /\ sending'[t] = Nobody
    BY <1>1, <1>4, <1>6 DEF NotificationsInv, TypeOK
  <2>2. repeated' \subseteq Dispatch \cup NotificationId
    BY <1>1, <1>5 DEF NotificationsInv, TypeOK
  <2>3. \A d \in Dispatch : task'[d] = "committed" => CreatedBy(d)' # {}
    BY <1>7 DEF NotificationsInv, TypeOK
  <2> QED
    BY <1>1, <1>4, <1>6, <2>1, <2>2, <2>3 DEF NotificationsInv, TypeOK
<1>9. Listed'
  BY <1>1, <1>3, <1>5, <1>6 DEF NotificationsInv, Listed
<1>10. Shown'
  BY <1>1 DEF NotificationsInv, Shown
<1>11. Once'
  <2> SUFFICES ASSUME NEW n \in NotificationId \ repeated' PROVE OnceFor(n)'
    BY DEF Once
  <2>1. OnceFor(n) /\ (n \in Pending => n \notin AtHand)
    BY <1>1 DEF NotificationsInv, Once
  <2>2. n \in Pending => sent[n] = 0 /\ \A t \in Sweep : n \notin todo[t]
    BY <2>1 DEF OnceFor, Pending, AtHand
  <2>3. \A t, u \in Sweep : n \in todo'[t] /\ n \in todo'[u] => t = u
    <3>1. CASE n \in Pending
      BY <1>6, <2>2, <3>1
    <3>2. CASE n \notin Pending
      BY <1>6, <2>1, <3>2 DEF OnceFor
    <3> QED
      BY <3>1, <3>2
  <2>4. \A t \in Sweep : n \in todo'[t] /\ sending'[t] # n => sent[n] = 0
    BY <1>1, <1>6, <2>1, <2>2 DEF OnceFor
  <2>5. n \notin AtHand' => n \notin AtHand
    BY <1>3, <1>6 DEF AtHand
  <2> QED
    BY <1>1, <2>1, <2>3, <2>4, <2>5 DEF OnceFor
<1>12. Messages'
  BY <1>1, <1>7, MessagesStay DEF NotificationsInv
<1> QED
  BY <1>4, <1>8, <1>9, <1>10, <1>11, <1>12 DEF NotificationsInv

LEMMA CallProviderInv ==
  ASSUME NotificationsInv, NEW s \in Sweep, CallProvider(s)
  PROVE  NotificationsInv'
<1>1. PICK n \in todo[s] :
        /\ sending' = [sending EXCEPT ![s] = n]
        /\ sent' = [sent EXCEPT ![n] = IF @ = 2 THEN 2 ELSE @ + 1]
  BY DEF CallProvider
<1>2. /\ sending[s] = Nobody
      /\ UNCHANGED <<task, retries, lost, notifications, todo, repeated>>
  BY DEF CallProvider, messages
<1>3. n \in NotificationId /\ n # Nobody /\ s \in Running
  BY NotificationsAssumption DEF NotificationsInv, TypeOK
<1>4. /\ sending' \in [Sweep -> NotificationId \cup {Nobody}]
      /\ sending'[s] = n
      /\ \A t \in Sweep \ {s} : sending'[t] = sending[t]
  BY <1>1, <1>3 DEF NotificationsInv, TypeOK
<1>5. /\ sent' \in [NotificationId -> 0..2]
      /\ sent'[n] # 0
      /\ sent[n] = 0 => sent'[n] = 1
      /\ \A m \in NotificationId \ {n} : sent'[m] = sent[m]
  BY <1>1, <1>3 DEF NotificationsInv, TypeOK
<1>6. \A d \in Dispatch : CreatedBy(d)' = CreatedBy(d)
  BY <1>2 DEF CreatedBy
<1>7. Running' = Running /\ AtHand' = AtHand
  BY <1>2 DEF Running, AtHand
<1>8. TypeOK' /\ PoolIsFinite'
  BY <1>2, <1>3, <1>4, <1>5, <1>6, <1>7 DEF NotificationsInv, TypeOK, PoolIsFinite
<1>9. Listed'
  BY <1>2, <1>3, <1>4, <1>5 DEF NotificationsInv, Listed, TypeOK
<1>10. Shown'
  BY <1>2, <1>5 DEF NotificationsInv, Shown
<1>11. Once'
  <2> SUFFICES ASSUME NEW m \in NotificationId \ repeated PROVE OnceFor(m)'
    BY <1>2 DEF Once
  <2>1. OnceFor(m)
    BY DEF NotificationsInv, Once
  <2>2. CASE m = n
    <3>1. sent[n] = 0 /\ n \in AtHand /\ \A t \in Sweep : n \in todo[t] => t = s
      BY <1>2, <1>3, <2>1, <2>2 DEF OnceFor, AtHand
    <3> QED
      BY <1>2, <1>4, <1>5, <1>7, <2>1, <2>2, <3>1 DEF OnceFor
  <2>3. CASE m # n
    <3>1. \A t \in Sweep : m \in todo[t] /\ sending'[t] # m => sending[t] # m
      BY <1>2, <1>4, <2>3, NotificationsAssumption
    <3> QED
      BY <1>2, <1>5, <1>7, <2>1, <2>3, <3>1 DEF OnceFor
  <2> QED
    BY <2>2, <2>3
<1>12. Messages'
  BY <1>2, <1>6, MessagesStay DEF NotificationsInv
<1> QED
  BY <1>8, <1>9, <1>10, <1>11, <1>12 DEF NotificationsInv

LEMMA MarkDeliverySentInv ==
  ASSUME NotificationsInv, NEW s \in Sweep, MarkDeliverySent(s)
  PROVE  NotificationsInv'
<1>0. PICK n \in NotificationId : n = sending[s]
  BY DEF MarkDeliverySent, NotificationsInv, TypeOK
<1>1. /\ notifications' = [notifications EXCEPT ![n].status = "sent"]
      /\ todo' = [todo EXCEPT ![s] = @ \ {n}]
      /\ sending' = [sending EXCEPT ![s] = Nobody]
      /\ UNCHANGED <<task, retries, lost, sent, repeated>>
  BY <1>0 DEF MarkDeliverySent, messages
<1>2. /\ n \in todo[s] /\ sent[n] # 0 /\ notifications[n] # None /\ s \in Running
      /\ notifications[n] \in [status : {"inapp", "pending", "sent"}, by : Dispatch \cup {Nobody}]
  BY <1>0, NotificationsAssumption DEF NotificationsInv, Listed, TypeOK
<1>3. /\ notifications'[n] = [notifications[n] EXCEPT !.status = "sent"]
      /\ \A m \in NotificationId \ {n} : notifications'[m] = notifications[m]
  BY <1>1 DEF NotificationsInv, TypeOK
<1>4. /\ notifications'[n] \in [status : {"inapp", "pending", "sent"}, by : Dispatch \cup {Nobody}]
      /\ notifications'[n].status = "sent"
      /\ notifications'[n].by = notifications[n].by
      /\ notifications'[n] # None
  BY <1>2, <1>3 DEF None
<1>5. notifications' \in [NotificationId ->
              {None} \cup [status : {"inapp", "pending", "sent"}, by : Dispatch \cup {Nobody}]]
  BY <1>1, <1>2, <1>4 DEF NotificationsInv, TypeOK
<1>6. /\ todo' \in [Sweep -> SUBSET NotificationId]
      /\ todo'[s] = todo[s] \ {n}
      /\ \A t \in Sweep \ {s} : todo'[t] = todo[t]
      /\ sending' \in [Sweep -> NotificationId \cup {Nobody}]
      /\ sending'[s] = Nobody
      /\ \A t \in Sweep \ {s} : sending'[t] = sending[t]
  BY <1>1 DEF NotificationsInv, TypeOK
<1>7. \A d \in Dispatch : CreatedBy(d)' = CreatedBy(d)
  BY <1>2, <1>3, <1>4 DEF CreatedBy
<1>8. Running' = Running
  BY <1>1 DEF Running
<1>9. TypeOK' /\ PoolIsFinite'
  <2>1. \A t \in Sweep : t \notin Running' => todo'[t] = {} /\ sending'[t] = Nobody
    BY <1>2, <1>6, <1>8 DEF NotificationsInv, TypeOK
  <2> QED
    BY <1>1, <1>5, <1>6, <1>7, <1>8, <2>1 DEF NotificationsInv, TypeOK, PoolIsFinite
<1>10. Listed'
  BY <1>1, <1>3, <1>4, <1>6 DEF NotificationsInv, Listed
<1>11. Shown'
  BY <1>1, <1>2, <1>3 DEF NotificationsInv, Shown
<1>12. Once'
  <2> SUFFICES ASSUME NEW m \in NotificationId \ repeated PROVE OnceFor(m)'
    BY <1>1 DEF Once
  <2>1. OnceFor(m)
    BY DEF NotificationsInv, Once
  <2>2. \A t \in Sweep : todo'[t] \subseteq todo[t]
    BY <1>6
  <2>3. CASE m = n
    <3>1. \A t \in Sweep : n \notin todo'[t]
      BY <1>2, <1>6, <2>1, <2>3 DEF OnceFor
    <3> QED
      BY <1>1, <1>4, <2>1, <2>2, <2>3, <3>1 DEF OnceFor
  <2>4. CASE m # n
    <3>1. \A t \in Sweep : /\ m \in todo'[t] <=> m \in todo[t]
                           /\ sending'[t] # m <=> sending[t] # m
      BY <1>0, <1>6, <2>4, NotificationsAssumption
    <3>2. m \in AtHand' <=> m \in AtHand
      BY <3>1 DEF AtHand
    <3> QED
      BY <1>1, <1>3, <2>1, <2>4, <3>1, <3>2 DEF OnceFor
  <2> QED
    BY <2>3, <2>4
<1>13. Messages'
  BY <1>1, <1>7, MessagesStay DEF NotificationsInv
<1> QED
  BY <1>9, <1>10, <1>11, <1>12, <1>13 DEF NotificationsInv

LEMMA FinishSweepInv ==
  ASSUME NotificationsInv, NEW s \in Sweep, FinishSweep(s)
  PROVE  NotificationsInv'
<1>1. /\ todo[s] = {} /\ Becomes(s, "over")
      /\ UNCHANGED <<retries, lost, notifications, todo, sending, sent, repeated>>
  BY DEF FinishSweep, sweeps
<1>2. s \in Task /\ s \notin Dispatch
  BY NotificationsAssumption DEF Task
<1>3. sending[s] = Nobody
  BY <1>1 DEF NotificationsInv, Listed
<1> QED
  BY <1>1, <1>2, <1>3, OnlyTask DEF NotificationsInv, TypeOK

\* A task that ends in the middle: what the provider has taken and nobody has
\* marked is in repeated.
LEMMA DropInv ==
  ASSUME NotificationsInv, NEW t \in Task, NEW state \in {"queued", "over"},
         Becomes(t, state), Drops(t),
         repeated \cup Unmarked(t) \cup Committed(t) \subseteq repeated',
         repeated' \subseteq Dispatch \cup NotificationId,
         t \in Running,
         retries' = retries, lost' \in 0..MaxLost
  PROVE  NotificationsInv'
<1>1. /\ task' \in [Task -> {"unsent", "queued", "running", "committed", "over"}]
      /\ task'[t] = state
      /\ \A u \in Task \ {t} : task'[u] = task[u]
      /\ Running' = Running \ {t}
      /\ PoolIsFinite'
      /\ Cardinality(Running)' <= Workers
  BY TaskMoves DEF NotificationsInv
<1>2. /\ todo' = [s \in Sweep |-> IF s = t THEN {} ELSE todo[s]]
      /\ sending' = [s \in Sweep |-> IF s = t THEN Nobody ELSE sending[s]]
      /\ UNCHANGED <<notifications, sent>>
  BY DEF Drops
<1>3. \A d \in Dispatch : CreatedBy(d)' = CreatedBy(d) /\ d \in Task
  BY <1>2 DEF CreatedBy, Task
<1>4. /\ repeated \subseteq repeated'
      /\ Unmarked(t) \subseteq repeated'
      /\ Committed(t) \subseteq repeated'
  OBVIOUS
<1>5. TypeOK'
  <2>1. \A s \in Sweep : s \notin Running' => todo'[s] = {} /\ sending'[s] = Nobody
    BY <1>1, <1>2 DEF NotificationsInv, TypeOK
  <2>2. \A d \in Dispatch : task'[d] = "committed" => CreatedBy(d)' # {}
    BY <1>1, <1>3 DEF NotificationsInv, TypeOK
  <2>3. /\ todo' \in [Sweep -> SUBSET NotificationId]
        /\ sending' \in [Sweep -> NotificationId \cup {Nobody}]
    BY <1>2 DEF NotificationsInv, TypeOK
  <2> QED
    BY <1>1, <1>2, <1>4, <2>1, <2>2, <2>3 DEF NotificationsInv, TypeOK
<1>6. Listed' /\ Shown'
  BY <1>2 DEF NotificationsInv, Listed, Shown
<1>7. Once'
  <2> SUFFICES ASSUME NEW n \in NotificationId \ repeated' PROVE OnceFor(n)'
    BY DEF Once
  <2>1. OnceFor(n) /\ n \notin Unmarked(t)
    BY <1>4 DEF NotificationsInv, Once
  <2>2. t \in Sweep /\ n \in todo[t] => sent[n] = 0
    BY <2>1 DEF OnceFor, Unmarked
  <2>3. notifications[n].status \in {"none", "pending"} /\ n \notin AtHand' => sent[n] = 0
    <3>1. CASE t \in Sweep /\ n \in todo[t]
      BY <2>2, <3>1
    <3>2. CASE ~(t \in Sweep /\ n \in todo[t])
      BY <1>2, <2>1, <3>2 DEF OnceFor, AtHand
    <3> QED
      BY <3>1, <3>2
  <2> QED
    BY <1>2, <2>1, <2>3 DEF OnceFor
<1>8. Messages'
  <2>1. \A d \in Dispatch \ repeated' : task'[d] \in Before => task[d] \in Before
    BY <1>1, <1>3, <1>4 DEF Committed, Running, Before
  <2> QED
    BY <1>3, <1>4, <2>1, MessagesStay DEF NotificationsInv
<1> QED
  BY <1>1, <1>5, <1>6, <1>7, <1>8 DEF NotificationsInv

LEMMA LoseWorkerInv ==
  ASSUME NotificationsInv, NEW t \in Task, LoseWorker(t)
  PROVE  NotificationsInv'
<1>1. lost' \in 0..MaxLost
  BY NotificationsAssumption DEF LoseWorker, NotificationsInv, TypeOK
<1>2. /\ t \in Running /\ Becomes(t, "queued") /\ Drops(t) /\ retries' = retries
      /\ repeated' = repeated \cup Unmarked(t) \cup Committed(t)
  BY DEF LoseWorker
<1>3. repeated' \subseteq Dispatch \cup NotificationId
  BY <1>2 DEF Unmarked, Committed, NotificationsInv, TypeOK
<1>4. repeated \cup Unmarked(t) \cup Committed(t) \subseteq repeated'
  BY <1>2
<1> QED
  BY <1>1, <1>2, <1>3, <1>4, DropInv

LEMMA AbandonSweepInv ==
  ASSUME NotificationsInv, NEW s \in Sweep, AbandonSweep(s)
  PROVE  NotificationsInv'
<1>1. s \in Task /\ s \notin Dispatch /\ lost' \in 0..MaxLost
  BY NotificationsAssumption DEF AbandonSweep, NotificationsInv, TypeOK, Task
<1>2. /\ s \in Running /\ Becomes(s, "over") /\ Drops(s) /\ retries' = retries
      /\ repeated' = repeated \cup Unmarked(s)
  BY DEF AbandonSweep
<1>3. Committed(s) = {} /\ repeated' \subseteq Dispatch \cup NotificationId
  BY <1>1, <1>2 DEF Unmarked, Committed, NotificationsInv, TypeOK
<1>4. repeated \cup Unmarked(s) \cup Committed(s) \subseteq repeated'
  BY <1>2, <1>3
<1> QED
  BY <1>1, <1>2, <1>3, <1>4, DropInv

-----------------------------------------------------------------------------
(* Theorems.                                                                *)

LEMMA StutterInv == NotificationsInv /\ UNCHANGED vars => NotificationsInv'
<1> SUFFICES ASSUME NotificationsInv, UNCHANGED vars PROVE NotificationsInv'
  OBVIOUS
<1>1. UNCHANGED <<task, retries, lost, notifications, todo, sending, sent, repeated>>
  BY DEF vars
<1>2. Running' = Running /\ \A d \in Dispatch : CreatedBy(d)' = CreatedBy(d)
  BY <1>1 DEF Running, CreatedBy
<1>3. TypeOK' /\ PoolIsFinite'
  BY <1>1, <1>2 DEF NotificationsInv, TypeOK, PoolIsFinite
<1>4. Listed' /\ Shown' /\ Once' /\ Messages'
  BY <1>1, <1>2, OnceStays, MessagesStay DEF NotificationsInv
<1> QED
  BY <1>3, <1>4 DEF NotificationsInv

LEMMA NextInv == NotificationsInv /\ [Next]_vars => NotificationsInv'
<1> SUFFICES ASSUME NotificationsInv, [Next]_vars PROVE NotificationsInv'
  OBVIOUS
<1>1. ASSUME NEW t \in Task, Send(t) \/ LoseWorker(t) PROVE NotificationsInv'
  BY <1>1, SendInv, LoseWorkerInv
<1>2. ASSUME NEW n \in NotificationId, CreateNotification(n) PROVE NotificationsInv'
  BY <1>2, CreateNotificationInv
<1>3. ASSUME NEW d \in Dispatch, DispatchStep(d) PROVE NotificationsInv'
  BY <1>3, StartDispatchInv, DispatchNotificationInv, AcknowledgeInv, RetryInv DEF DispatchStep
<1>4. ASSUME NEW s \in Sweep, SweepStep(s) PROVE NotificationsInv'
  BY <1>4, StartSweepInv, CallProviderInv, MarkDeliverySentInv, FinishSweepInv, AbandonSweepInv
  DEF SweepStep
<1> QED
  BY <1>1, <1>2, <1>3, <1>4, StutterInv DEF Next

LEMMA NotificationsInvHolds == Spec => []NotificationsInv
BY InitInv, NextInv, PTL DEF Spec

\* The tables keep their types, the pool its size, and only a running sweep has
\* deliveries at hand.
THEOREM TypeCorrect == Spec => []TypeOK
<1>1. NotificationsInv => TypeOK
  BY DEF NotificationsInv
<1> QED
  BY <1>1, NotificationsInvHolds, PTL

LEMMA AtMostOneCounts ==
  ASSUME NEW S, AtMostOne(S)
  PROVE  Cardinality(S) <= 1
<1>1. CASE S = {}
  BY <1>1, FS_EmptySet
<1>2. CASE S # {}
  <2>1. PICK x \in S : TRUE
    BY <1>2
  <2>2. S = {x}
    BY <2>1 DEF AtMostOne
  <2>3. Cardinality(S) = 1
    BY <2>2, FS_Singleton
  <2> QED
    BY <2>3
<1> QED
  BY <1>1, <1>2

\* What is shown as sent has been sent, and once, and a message has created one
\* notification, unless process_deliveries listed a delivery twice, or ended
\* between the provider and the mark, or dispatch_notification ran again after
\* its commit.
THEOREM NothingIsSentTwice == Spec => []SentOnce
<1>1. NotificationsInv => SentOnce
  BY AtMostOneCounts DEF NotificationsInv, Shown, Once, OnceFor, Messages, SentOnce
<1> QED
  BY <1>1, NotificationsInvHolds, PTL

-----------------------------------------------------------------------------
(* Analytics.                                                               *)

LEMMA AnalyticsInitTyped == AnalyticsInit => AnalyticsTypeOK
<1> SUFFICES ASSUME AnalyticsInit PROVE AnalyticsTypeOK
  OBVIOUS
<1>1. 0 \in Value
  BY AnalyticsAssumption DEF Value
<1>2. Rebuilding = {}
  BY DEF AnalyticsInit, Rebuilding
<1> QED
  BY <1>1, <1>2 DEF AnalyticsInit, AnalyticsTypeOK

\* A planned row is one of Write.
LEMMA UpsertTyped ==
  ASSUME NEW fact, NEW v \in Value
  PROVE  Upsert(fact, v) \in Write
BY DEF Upsert, Write, Keep

LEMMA UpsertsTyped ==
  ASSUME AnalyticsTypeOK
  PROVE  Upserts \subseteq Write
<1>1. \A s \in Rows : stock[s] \in Value
  BY DEF AnalyticsTypeOK, Rows
<1> QED
  BY <1>1, UpsertTyped DEF Upserts, Write, Keep

LEMMA WrittenTyped ==
  ASSUME NEW write \in Write, write # Refused, NEW fact \in Value \cup {Missing}
  PROVE  Written(write, fact) \in Value \cup {Missing}
BY DEF Written, Write, Keep, Refused

\* What fits is not refused, and what is written once stays.
LEMMA FitsIsNotRefused ==
  ASSUME NEW write \in Write, NEW fact, Fits(write, fact)
  PROVE  write # Refused
BY DEF Fits, Refused

LEMMA RunningKnown ==
  ASSUME NEW r, rebuild[r].step \in {"counted", "read"}
  PROVE  rebuild[r] # Idle
BY DEF Idle

-----------------------------------------------------------------------------
(* Types.                                                                   *)

LEMMA ChangeTyped == AnalyticsTypeOK /\ Change => AnalyticsTypeOK'
<1> SUFFICES ASSUME AnalyticsTypeOK, Change PROVE AnalyticsTypeOK'
  OBVIOUS
<1>1. /\ count' \in Value
      /\ stock' \in [StockId -> Value \cup {Missing}]
      /\ Disturb
  BY DEF AnalyticsTypeOK, Change, Recount, SetStock, DropStock
<1>2. UNCHANGED <<facts, rebuild>> /\ Rebuilding' = Rebuilding /\ disturbed' = Rebuilding /\ settled' = FALSE
  BY <1>1 DEF Disturb, Rebuilding
<1> QED
  BY <1>1, <1>2 DEF AnalyticsTypeOK

\* A step of one rebuild leaves the others as they are.
LEMMA OneRebuild ==
  ASSUME AnalyticsTypeOK, NEW r \in Rebuild, NEW row \in Plan \cup {Idle},
         rebuild' = [rebuild EXCEPT ![r] = row]
  PROVE  /\ rebuild' \in [Rebuild -> Plan \cup {Idle}]
         /\ Rebuilding' = IF row = Idle THEN Rebuilding \ {r} ELSE Rebuilding \cup {r}
         /\ rebuild'[r] = row
         /\ \A q \in Rebuild \ {r} : rebuild'[q] = rebuild[q]
BY DEF Rebuilding, AnalyticsTypeOK

LEMMA CountUpTyped ==
  ASSUME AnalyticsTypeOK, NEW r \in Rebuild, CountUp(r)
  PROVE  /\ AnalyticsTypeOK'
         /\ Rebuilding' = Rebuilding \cup {r}
         /\ rebuild' = [rebuild EXCEPT ![r] =
                         [step |-> "counted", counts |-> Upsert(facts.counts, count)]]
<1> DEFINE row == [step |-> "counted", counts |-> Upsert(facts.counts, count)]
<1>1. row \in Plan
  BY UpsertTyped DEF AnalyticsTypeOK, Plan
<1>2. row # Idle
  BY DEF Idle
<1>3. rebuild' = [rebuild EXCEPT ![r] = row]
  BY DEF CountUp
<1>4. UNCHANGED <<count, stock, facts, disturbed, settled>>
  BY DEF CountUp
<1> HIDE DEF row
<1>5. Rebuilding' = Rebuilding \cup {r} /\ rebuild' \in [Rebuild -> Plan \cup {Idle}]
  BY <1>1, <1>2, <1>3, OneRebuild
<1>6. AnalyticsTypeOK'
  BY <1>4, <1>5 DEF AnalyticsTypeOK
<1> QED
  BY <1>3, <1>5, <1>6 DEF row

LEMMA ReadStockTyped ==
  ASSUME AnalyticsTypeOK, NEW r \in Rebuild, ReadStock(r)
  PROVE  /\ AnalyticsTypeOK'
         /\ Rebuilding' = Rebuilding /\ r \in Rebuilding
         /\ rebuild'[r].counts = rebuild[r].counts
         /\ rebuild'[r].stock \in Upserts
         /\ \A q \in Rebuild \ {r} : rebuild'[q] = rebuild[q]
<1>1. PICK w \in Upserts :
        rebuild' = [rebuild EXCEPT ![r] = [step |-> "read", counts |-> rebuild[r].counts, stock |-> w]]
  BY DEF ReadStock, AnalyticsTypeOK
<1> DEFINE row == [step |-> "read", counts |-> rebuild[r].counts, stock |-> w]
<1>2. rebuild[r] # Idle /\ rebuild[r] \in Plan
  BY DEF ReadStock, Idle, AnalyticsTypeOK
<1>3. row \in Plan
  BY <1>2, UpsertsTyped DEF Plan
<1>4. row # Idle
  BY DEF Idle
<1>5. UNCHANGED <<count, stock, facts, disturbed, settled>>
  BY DEF ReadStock
<1>6. rebuild' = [rebuild EXCEPT ![r] = row] /\ row.counts = rebuild[r].counts /\ row.stock = w
  BY <1>1
<1> HIDE DEF row
<1>7. /\ Rebuilding' = Rebuilding \cup {r} /\ rebuild' \in [Rebuild -> Plan \cup {Idle}]
      /\ rebuild'[r] = row
      /\ \A q \in Rebuild \ {r} : rebuild'[q] = rebuild[q]
  BY <1>3, <1>4, <1>6, OneRebuild
<1>8. r \in Rebuilding
  BY <1>2 DEF Rebuilding
<1>9. AnalyticsTypeOK'
  BY <1>5, <1>7, <1>8 DEF AnalyticsTypeOK
<1> QED
  BY <1>6, <1>7, <1>8, <1>9

\* A rebuild that ends goes idle.
LEMMA EndsTyped ==
  ASSUME AnalyticsTypeOK, NEW r \in Rebuild, Ends(r)
  PROVE  /\ Rebuilding' = Rebuilding \ {r}
         /\ rebuild' \in [Rebuild -> Plan \cup {Idle}]
         /\ \A q \in Rebuild \ {r} : rebuild'[q] = rebuild[q]
BY OneRebuild DEF Ends

\* What a rebuild has read in full.
LEMMA ReadPlan ==
  ASSUME AnalyticsTypeOK, NEW r \in Rebuild, rebuild[r].step = "read"
  PROVE  r \in Rebuilding /\ rebuild[r].counts \in Write /\ rebuild[r].stock \in Write
<1>1. rebuild[r] # Idle
  BY DEF Idle
<1> QED
  BY <1>1 DEF Rebuilding, AnalyticsTypeOK, Plan

-----------------------------------------------------------------------------
(* The invariant.                                                           *)

\* A rebuild leaves a fact of the counts alone only if there is one, and facts
\* do not go away.
Grounded == \A r \in Rebuilding : rebuild[r].counts = Keep => facts.counts # Missing

\* What an undisturbed rebuild has read is still so.
UpToDate ==
  \A r \in Rebuilding \ disturbed :
    /\ rebuild[r].counts = Upsert(facts.counts, count)
    /\ rebuild[r].step = "read" => rebuild[r].stock \in Upserts

RebuildInv == AnalyticsTypeOK /\ Grounded /\ UpToDate /\ FactsAgree

LEMMA UpsertKeeps ==
  ASSUME NEW fact, NEW v \in Value, Upsert(fact, v) = Keep
  PROVE  fact # Missing
BY AnalyticsAssumption DEF Upsert, Keep, Value

\* What is written at once is what is there.
LEMMA UpsertFits ==
  ASSUME NEW fact \in Value \cup {Missing}, NEW v \in Value
  PROVE  Fits(Upsert(fact, v), fact) /\ Written(Upsert(fact, v), fact) = v
BY AnalyticsAssumption DEF Upsert, Keep, Value, Fits, Written

LEMMA AnalyticsInitHolds == AnalyticsInit => RebuildInv
<1> SUFFICES ASSUME AnalyticsInit PROVE RebuildInv
  OBVIOUS
<1>1. Rebuilding = {} /\ settled = FALSE
  BY DEF AnalyticsInit, Rebuilding
<1> QED
  BY <1>1, AnalyticsInitTyped DEF RebuildInv, Grounded, UpToDate, FactsAgree

LEMMA ChangeHolds == RebuildInv /\ Change => RebuildInv'
<1> SUFFICES ASSUME RebuildInv, Change PROVE RebuildInv'
  OBVIOUS
<1>1. AnalyticsTypeOK'
  BY ChangeTyped DEF RebuildInv
<1>2. Disturb
  BY DEF Change, Recount, SetStock, DropStock
<1>3. UNCHANGED <<facts, rebuild>> /\ Rebuilding' = Rebuilding /\ disturbed' = Rebuilding /\ settled' = FALSE
  BY <1>2 DEF Disturb, Rebuilding
<1>4. Grounded' /\ UpToDate' /\ FactsAgree'
  BY <1>3 DEF RebuildInv, Grounded, UpToDate, FactsAgree
<1> QED
  BY <1>1, <1>4 DEF RebuildInv

LEMMA CountUpHolds ==
  ASSUME RebuildInv, NEW r \in Rebuild, CountUp(r)
  PROVE  RebuildInv'
<1> DEFINE write == Upsert(facts.counts, count)
<1>1. /\ AnalyticsTypeOK'
      /\ Rebuilding' = Rebuilding \cup {r}
      /\ rebuild' = [rebuild EXCEPT ![r] = [step |-> "counted", counts |-> write]]
  BY CountUpTyped DEF RebuildInv
<1>2. UNCHANGED <<count, stock, facts, disturbed, settled>>
  BY DEF CountUp
<1>3. count \in Value /\ rebuild \in [Rebuild -> Plan \cup {Idle}] /\ Rebuilding \subseteq Rebuild
  BY DEF RebuildInv, AnalyticsTypeOK, Rebuilding
<1> HIDE DEF write
<1>4. rebuild'[r].counts = write /\ rebuild'[r].step = "counted"
  BY <1>1, <1>3
<1>5. \A q \in Rebuild \ {r} : rebuild'[q] = rebuild[q]
  BY <1>1, <1>3
<1>6. Grounded'
  BY <1>1, <1>2, <1>3, <1>4, <1>5, UpsertKeeps DEF Grounded, RebuildInv, write
<1>7. UpToDate'
  <2> SUFFICES ASSUME NEW q \in Rebuilding' \ disturbed'
               PROVE  /\ rebuild'[q].counts = Upsert(facts.counts, count)
                      /\ rebuild'[q].step = "read" => rebuild'[q].stock \in Upserts
    BY <1>2 DEF UpToDate, Upserts, Rows
  <2>1. CASE q = r
    BY <2>1, <1>4 DEF write
  <2>2. CASE q # r
    BY <2>2, <1>1, <1>2, <1>3, <1>5 DEF UpToDate, RebuildInv
  <2> QED
    BY <2>1, <2>2
<1>8. FactsAgree'
  BY <1>2 DEF FactsAgree, RebuildInv, Rows
<1> QED
  BY <1>1, <1>6, <1>7, <1>8 DEF RebuildInv

LEMMA ReadStockHolds ==
  ASSUME RebuildInv, NEW r \in Rebuild, ReadStock(r)
  PROVE  RebuildInv'
<1>1. /\ AnalyticsTypeOK'
      /\ Rebuilding' = Rebuilding /\ r \in Rebuilding
      /\ rebuild'[r].counts = rebuild[r].counts
      /\ rebuild'[r].stock \in Upserts
      /\ \A q \in Rebuild \ {r} : rebuild'[q] = rebuild[q]
  BY ReadStockTyped DEF RebuildInv
<1>2. UNCHANGED <<count, stock, facts, disturbed, settled>>
  BY DEF ReadStock
<1>3. Rebuilding \subseteq Rebuild
  BY DEF Rebuilding
<1>4. Grounded'
  BY <1>1, <1>2, <1>3 DEF Grounded, RebuildInv
<1>5. UpToDate'
  <2> SUFFICES ASSUME NEW q \in Rebuilding' \ disturbed'
               PROVE  /\ rebuild'[q].counts = Upsert(facts.counts, count)
                      /\ rebuild'[q].step = "read" => rebuild'[q].stock \in Upserts
    BY <1>2 DEF UpToDate, Upserts, Rows
  <2> QED
    BY <1>1, <1>2, <1>3 DEF UpToDate, RebuildInv
<1>6. FactsAgree'
  BY <1>2 DEF FactsAgree, RebuildInv, Rows
<1> QED
  BY <1>1, <1>4, <1>5, <1>6 DEF RebuildInv

LEMMA CommitHolds ==
  ASSUME RebuildInv, NEW r \in Rebuild, Commit(r)
  PROVE  RebuildInv'
<1> DEFINE plan == rebuild[r]
<1>1. /\ Ends(r) /\ Passes(plan)
      /\ UNCHANGED <<count, stock>>
      /\ disturbed' = Rebuilding \ {r}
      /\ settled' = (r \notin disturbed)
      /\ facts' = [counts |-> Written(plan.counts, facts.counts),
                   stock |-> Written(plan.stock, facts.stock)]
      /\ plan.step = "read"
  BY DEF Commit
<1>2. r \in Rebuilding /\ plan.counts \in Write /\ plan.stock \in Write
  BY <1>1, ReadPlan DEF RebuildInv
<1>3. plan.counts # Refused /\ plan.stock # Refused
  BY <1>1, <1>2, FitsIsNotRefused DEF Passes
<1>4. AnalyticsTypeOK
  BY DEF RebuildInv
<1>5. Rebuilding' = Rebuilding \ {r} /\ rebuild' \in [Rebuild -> Plan \cup {Idle}]
  BY <1>1, <1>4, EndsTyped
<1>6. facts.counts \in Value \cup {Missing} /\ facts.stock \in Value \cup {Missing}
  BY <1>4 DEF AnalyticsTypeOK
<1>7. facts'.counts \in Value \cup {Missing} /\ facts'.stock \in Value \cup {Missing}
  BY <1>1, <1>2, <1>3, <1>6, WrittenTyped
<1>8. facts'.counts # Missing
  <2>1. CASE plan.counts = Keep
    BY <2>1, <1>1, <1>2 DEF RebuildInv, Grounded, Written
  <2>2. CASE plan.counts # Keep
    <3>1. plan.counts.value \in Value
      BY <2>2, <1>2, <1>3 DEF Write
    <3> QED
      BY <3>1, <2>2, <1>1, AnalyticsAssumption DEF Written, Value
  <2> QED
    BY <2>1, <2>2
<1> HIDE DEF plan
<1>9. AnalyticsTypeOK'
  <2>1. facts' \in [counts : Value \cup {Missing}, stock : Value \cup {Missing}]
    BY <1>1, <1>7
  <2> QED
    BY <2>1, <1>1, <1>4, <1>5, <1>8 DEF AnalyticsTypeOK
<1>10. Grounded'
  BY <1>8 DEF Grounded
<1>11. UpToDate'
  BY <1>1, <1>5 DEF UpToDate
<1>12. FactsAgree'
  <2> SUFFICES ASSUME r \notin disturbed
               PROVE  /\ facts'.counts = count
                      /\ Rows # {} => facts'.stock \in {stock[s] : s \in Rows}
    BY <1>1 DEF FactsAgree, Rows
  <2>1. plan.counts = Upsert(facts.counts, count) /\ plan.stock \in Upserts
    BY <1>1, <1>2 DEF RebuildInv, UpToDate, plan
  <2>2. facts'.counts = count
    BY <2>1, <1>1, <1>4, <1>6, UpsertFits DEF AnalyticsTypeOK
  <2>3. ASSUME Rows # {} PROVE facts'.stock \in {stock[s] : s \in Rows}
    <3>1. PICK s \in Rows : plan.stock = Upsert(facts.stock, stock[s])
      BY <2>1, <2>3, <1>3 DEF Upserts
    <3>2. stock[s] \in Value
      BY <1>4 DEF AnalyticsTypeOK, Rows
    <3>3. facts'.stock = stock[s]
      BY <3>1, <3>2, <1>1, <1>6, UpsertFits
    <3> QED
      BY <3>3
  <2> QED
    BY <2>2, <2>3
<1> QED
  BY <1>9, <1>10, <1>11, <1>12 DEF RebuildInv

\* An undisturbed rebuild is refused only when it has two rows for one fact.
LEMMA UndisturbedFails ==
  ASSUME RebuildInv, NEW r \in Rebuild, Fail(r), r \notin disturbed
  PROVE  facts.stock = Missing /\ Cardinality(Rows) > 1
<1>1. r \in Rebuilding /\ rebuild[r].step = "read" /\ ~Passes(rebuild[r])
  BY ReadPlan DEF Fail, RebuildInv
<1>2. rebuild[r].counts = Upsert(facts.counts, count) /\ rebuild[r].stock \in Upserts
  BY <1>1 DEF RebuildInv, UpToDate
<1>3. AnalyticsTypeOK
  BY DEF RebuildInv
<1>4. Fits(rebuild[r].counts, facts.counts)
  BY <1>2, <1>3, UpsertFits DEF AnalyticsTypeOK
<1>5. ~Fits(rebuild[r].stock, facts.stock)
  BY <1>1, <1>4 DEF Passes
<1>6. \A s \in Rows : Fits(Upsert(facts.stock, stock[s]), facts.stock)
  BY <1>3, UpsertFits DEF AnalyticsTypeOK, Rows
<1>7. Fits(Keep, facts.stock)
  BY DEF Fits, Keep
<1> QED
  BY <1>2, <1>5, <1>6, <1>7 DEF Upserts

LEMMA StopHolds ==
  ASSUME RebuildInv, NEW r \in Rebuild, Fail(r) \/ Die(r)
  PROVE  RebuildInv'
<1>1. Ends(r) /\ UNCHANGED <<count, stock, facts>> /\ disturbed' = disturbed \ {r}
  BY DEF Fail, Die
<1>2. AnalyticsTypeOK
  BY DEF RebuildInv
<1>3. /\ Rebuilding' = Rebuilding \ {r}
      /\ rebuild' \in [Rebuild -> Plan \cup {Idle}]
      /\ \A q \in Rebuild \ {r} : rebuild'[q] = rebuild[q]
  BY <1>1, <1>2, EndsTyped
<1>4. settled' \in BOOLEAN
  BY <1>2 DEF Fail, Die, AnalyticsTypeOK
<1>5. AnalyticsTypeOK'
  BY <1>1, <1>2, <1>3, <1>4 DEF AnalyticsTypeOK
<1>6. Rebuilding \subseteq Rebuild
  BY DEF Rebuilding
<1>7. Grounded'
  BY <1>1, <1>3, <1>6 DEF Grounded, RebuildInv
<1>8. UpToDate'
  <2> SUFFICES ASSUME NEW q \in Rebuilding' \ disturbed'
               PROVE  /\ rebuild'[q].counts = Upsert(facts.counts, count)
                      /\ rebuild'[q].step = "read" => rebuild'[q].stock \in Upserts
    BY <1>1 DEF UpToDate, Upserts, Rows
  <2> QED
    BY <1>1, <1>3, <1>6 DEF UpToDate, RebuildInv
<1>9. FactsAgree'
  <2> SUFFICES ASSUME settled', facts.stock # Missing \/ Cardinality(Rows) <= 1
               PROVE  /\ facts.counts = count
                      /\ Rows # {} => facts.stock \in {stock[s] : s \in Rows}
    BY <1>1 DEF FactsAgree, Rows
  <2>1. CASE settled
    BY <2>1 DEF FactsAgree, RebuildInv
  <2>2. CASE ~settled
    <3>1. Fail(r) /\ r \notin disturbed
      BY <2>2 DEF Fail, Die
    <3>2. facts.stock = Missing /\ Cardinality(Rows) > 1
      BY <3>1, UndisturbedFails
    <3>3. Cardinality(Rows) \in Nat
      BY AnalyticsAssumption, FS_Subset, FS_CardinalityType DEF Rows
    <3> QED
      BY <3>2, <3>3
  <2> QED
    BY <2>1, <2>2
<1> QED
  BY <1>5, <1>7, <1>8, <1>9 DEF RebuildInv

LEMMA RebuildStepHolds == RebuildInv /\ [AnalyticsNext]_analyticsVars => RebuildInv'
<1> SUFFICES ASSUME RebuildInv, [AnalyticsNext]_analyticsVars PROVE RebuildInv'
  OBVIOUS
<1>1. CASE Change
  BY <1>1, ChangeHolds
<1>2. ASSUME NEW r \in Rebuild, RebuildDay(r) PROVE RebuildInv'
  BY <1>2, CountUpHolds, ReadStockHolds, CommitHolds, StopHolds DEF RebuildDay
<1>3. CASE UNCHANGED analyticsVars
  <2>1. UNCHANGED <<count, stock, facts, rebuild, disturbed, settled>>
    BY <1>3 DEF analyticsVars
  <2>2. UNCHANGED <<Rebuilding, Rows, Upserts>>
    BY <2>1 DEF Rebuilding, Rows, Upserts
  <2>3. AnalyticsTypeOK'
    BY <2>1, <2>2 DEF RebuildInv, AnalyticsTypeOK
  <2>4. Grounded' /\ UpToDate' /\ FactsAgree'
    BY <2>1, <2>2 DEF RebuildInv, Grounded, UpToDate, FactsAgree
  <2> QED
    BY <2>3, <2>4 DEF RebuildInv
<1> QED
  BY <1>1, <1>2, <1>3 DEF AnalyticsNext

LEMMA RebuildInvHolds == AnalyticsSpec => []RebuildInv
BY AnalyticsInitHolds, RebuildStepHolds, PTL DEF AnalyticsSpec

-----------------------------------------------------------------------------
(* Theorems.                                                                *)

\* The tables and the rebuilds keep their types, and there are no facts of the
\* stock on a day without those of the orders.
THEOREM AnalyticsTypeCorrect == AnalyticsSpec => []AnalyticsTypeOK
<1>1. RebuildInv => AnalyticsTypeOK
  BY DEF RebuildInv
<1> QED
  BY <1>1, RebuildInvHolds, PTL

\* A rebuild that nothing was committed under leaves the facts as the tables are,
\* whatever they were, for any number of rebuilds and stock rows.
THEOREM RebuildIsIdempotent == AnalyticsSpec => []FactsAgree
<1>1. RebuildInv => FactsAgree
  BY DEF RebuildInv
<1> QED
  BY <1>1, RebuildInvHolds, PTL
=============================================================================
