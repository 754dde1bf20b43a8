---------------------------- MODULE OutboxProofs ----------------------------
(***************************************************************************)
(* Proofs about Outbox, for any events and batch sizes, whatever fails and *)
(* however often: one worker keeps the promise of EventDelivery, and what  *)
(* reaches Redis and the providers comes in order and often enough.        *)
(***************************************************************************)
EXTENDS Outbox, FiniteSetTheorems, TLAPS

Done == {e \in Event : status[e] \in {"published", "deleted"}}

\* The strengthening that is inductive: what has no stamp has no row, and what
\* the worker holds nobody else has taken up.  The second part is where one
\* worker is needed: the fetch takes no lock.
OutboxInv ==
  /\ stamp \in [Event -> Nat]
  /\ status \in [Event -> {"none", "open", "unpublished", "published", "deleted"}]
  /\ notifications \in [Event -> Nat]
  /\ batch \in [Worker -> SUBSET Event]
  /\ \A e \in Event : stamp[e] = 0 => status[e] = "none"
  /\ \A w \in Worker : batch[w] \subseteq Unpublished

LEMMA OutboxInvInit == Init => OutboxInv
BY DEF Init, OutboxInv, Unpublished

\* A new stamp is not the 0 of events that were not raised.
LEMMA StampIsPositive == Cardinality(Raised) + 1 \in Nat \ {0}
<1>1. IsFiniteSet(Raised)
    BY OutboxAssumption, FS_Subset DEF Raised
<1> QED
    BY <1>1, FS_CardinalityType

\* The invariant does not look at channel, provider, todo, pushed or crashes.
LEMMA OutboxInvKept ==
  ASSUME OutboxInv, UNCHANGED <<producerVars, status, notifications, batch>>
  PROVE  OutboxInv'
BY DEF OutboxInv, producerVars, Unpublished

\* What marking does to a row, and to what the worker holds.
LEMMA MarkedRows ==
  ASSUME OutboxInv, NEW w \in Worker, Mark(w)
  PROVE  /\ batch[w] # {}
         /\ batch[w] \subseteq Unpublished
         /\ status' = [e \in Event |-> IF e \in batch[w] THEN "published" ELSE status[e]]
         /\ notifications' = [e \in Event |-> IF e \in batch[w] \cap NotifyEvent
                                              THEN notifications[e] + 1 ELSE notifications[e]]
         /\ batch' = [batch EXCEPT ![w] = {}]
BY DEF Mark, OutboxInv, Unpublished

LEMMA OutboxInvStep ==
  ASSUME \A v, w \in Worker : v = w, OutboxInv, [Next]_vars
  PROVE  OutboxInv'
<1>1. CASE UNCHANGED vars
    BY <1>1, OutboxInvKept DEF vars, producerVars
<1>2. ASSUME NEW e \in Event, Emit(e)
      PROVE  OutboxInv'
    <2>1. /\ stamp' = [stamp EXCEPT ![e] = Cardinality(Raised) + 1]
          /\ status' = [status EXCEPT ![e] = "open"]
          /\ status[e] = "none"
          /\ UNCHANGED <<notifications, batch>>
        BY <1>2 DEF Emit, OutboxInv, effectVars, workerVars
    <2>2. \A f \in Event : stamp'[f] = 0 => status'[f] = "none"
        BY <2>1, StampIsPositive DEF OutboxInv
    <2>3. \A w \in Worker : batch'[w] \subseteq Unpublished'
        BY <2>1 DEF OutboxInv, Unpublished
    <2> QED
        BY <2>1, <2>2, <2>3, StampIsPositive DEF OutboxInv
<1>3. ASSUME NEW e \in Event, CommitEmit(e) \/ RollbackEmit(e)
      PROVE  OutboxInv'
    BY <1>3 DEF CommitEmit, RollbackEmit, OutboxInv, Unpublished,
                producerVars, effectVars, workerVars
<1>4. ASSUME NEW w \in Worker, Fetch(w)
      PROVE  OutboxInv'
    <2>1. PICK first \in SUBSET Unpublished : batch' = [batch EXCEPT ![w] = first]
        BY <1>4 DEF Fetch
    <2>2. UNCHANGED <<stamp, status, notifications>>
        BY <1>4 DEF Fetch, producerVars, effectVars
    <2> QED
        BY <2>1, <2>2 DEF OutboxInv, Unpublished
<1>5. ASSUME NEW w \in Worker, Publish(w) \/ Consume(w)
      PROVE  OutboxInv'
    BY <1>5, OutboxInvKept DEF Publish, Consume, producerVars
<1>6. ASSUME NEW w \in Worker, Mark(w)
      PROVE  OutboxInv'
    <2>1. UNCHANGED stamp
        BY <1>6 DEF Mark, producerVars
    <2>2. \A e \in Event : stamp'[e] = 0 => status'[e] = "none"
        BY <1>6, <2>1, MarkedRows DEF OutboxInv, Unpublished
    <2>3. \A v \in Worker : batch'[v] = {}
        BY <1>6, MarkedRows DEF OutboxInv
    <2> QED
        BY <1>6, <2>1, <2>2, <2>3, MarkedRows DEF OutboxInv
<1>7. ASSUME NEW w \in Worker, Crash(w)
      PROVE  OutboxInv'
    BY <1>7 DEF Crash, OutboxInv, Unpublished, producerVars, effectVars
<1>8. ASSUME NEW cutoff, CleanUp(cutoff)
      PROVE  OutboxInv'
    BY <1>8 DEF CleanUp, OutboxInv, Unpublished, producerVars, effectVars, workerVars
<1> QED
    BY <1>1, <1>2, <1>3, <1>4, <1>5, <1>6, <1>7, <1>8 DEF Next, ProducerStep, WorkerStep

-----------------------------------------------------------------------------
(* The refinement.                                                          *)

\* Rows that stay accepted or not, and done or not, and notifications that stay
\* as they are, are a stutter of the promise.
LEMMA Stutters ==
  ASSUME Committed' = Committed, Done' = Done, notifications' = notifications
  PROVE  UNCHANGED Delivery!deliveryVars
BY DEF Delivery!deliveryVars, Done

LEMMA InitDelivers == Init => Delivery!DeliveryInit
BY DEF Init, Delivery!DeliveryInit, Committed

\* Each step of the outbox is a step of the promise or a stutter: committing the
\* transaction of an event accepts it, marking a batch consumes it.
LEMMA StepDelivers ==
  ASSUME OutboxInv, [Next]_vars
  PROVE  [Delivery!DeliveryNext]_(Delivery!deliveryVars)
<1>1. CASE UNCHANGED vars
    BY <1>1, Stutters DEF vars, Committed, Done
<1>2. ASSUME NEW e \in Event, Emit(e) \/ RollbackEmit(e)
      PROVE  UNCHANGED Delivery!deliveryVars
    <2>1. status[e] \in {"none", "open"}
        BY <1>2 DEF Emit, RollbackEmit, OutboxInv
    <2>2. \/ status' = [status EXCEPT ![e] = "open"]
          \/ status' = [status EXCEPT ![e] = "none"]
        BY <1>2 DEF Emit, RollbackEmit
    <2>3. Committed' = Committed /\ Done' = Done
        BY <2>1, <2>2 DEF Committed, Done, OutboxInv
    <2> QED
        BY <1>2, <2>3, Stutters DEF Emit, RollbackEmit, effectVars
<1>3. ASSUME NEW e \in Event, CommitEmit(e)
      PROVE  Delivery!AcceptEvent(e)
    <2>1. e \notin Committed /\ Committed' = Committed \cup {e}
        BY <1>3 DEF CommitEmit, OutboxInv, Committed
    <2>2. Done' = Done /\ UNCHANGED notifications
        BY <1>3 DEF CommitEmit, OutboxInv, Done, effectVars
    <2> QED
        BY <2>1, <2>2 DEF Delivery!AcceptEvent, Done
<1>4. ASSUME NEW w \in Worker, Fetch(w) \/ Publish(w) \/ Consume(w) \/ Crash(w)
      PROVE  UNCHANGED Delivery!deliveryVars
    <2>1. UNCHANGED <<status, notifications>>
        BY <1>4 DEF Fetch, Publish, Consume, Crash, effectVars
    <2> QED
        BY <2>1, Stutters DEF Committed, Done
<1>5. ASSUME NEW w \in Worker, NEW marked, marked = batch[w], Mark(w)
      PROVE  Delivery!ConsumeEvents(marked)
    <2>1. marked # {} /\ marked \subseteq Committed \ Done
        BY <1>5, MarkedRows DEF Unpublished, Committed, Done
    <2>2. Committed' = Committed /\ Done' = Done \cup marked
        BY <1>5, <2>1, MarkedRows DEF Unpublished, Committed, Done, OutboxInv
    <2> QED
        BY <1>5, <2>1, <2>2, MarkedRows DEF Delivery!ConsumeEvents, Done
<1>6. ASSUME NEW cutoff, CleanUp(cutoff)
      PROVE  UNCHANGED Delivery!deliveryVars
    <2>1. Committed' = Committed /\ Done' = Done
        BY <1>6 DEF CleanUp, Committed, Done, OutboxInv
    <2> QED
        BY <1>6, <2>1, Stutters DEF CleanUp, effectVars
<1>7. CASE ProducerStep
    <2>1. PICK e \in Event : Emit(e) \/ CommitEmit(e) \/ RollbackEmit(e)
        BY <1>7 DEF ProducerStep
    <2> QED
        BY <2>1, <1>2, <1>3 DEF Delivery!DeliveryNext
<1>8. CASE \E w \in Worker : WorkerStep(w) \/ Crash(w)
    <2>1. PICK w \in Worker : Fetch(w) \/ Publish(w) \/ Consume(w) \/ Mark(w) \/ Crash(w)
        BY <1>8 DEF WorkerStep
    <2>2. CASE Mark(w)
        <3>1. PICK marked \in SUBSET Event : marked = batch[w]
            BY DEF OutboxInv
        <3>2. Delivery!ConsumeEvents(marked)
            BY <2>2, <3>1, <1>5
        <3> QED
            BY <3>2 DEF Delivery!DeliveryNext
    <2> QED
        BY <2>1, <2>2, <1>4
<1>9. CASE \E cutoff \in 2..(Cardinality(Event) + 1) : CleanUp(cutoff)
    BY <1>9, <1>6
<1> QED
    BY <1>1, <1>7, <1>8, <1>9 DEF Next

\* One worker, however often it dies or Redis refuses, implements the promise of
\* the outbox: an event is accepted with the transaction that raised it and
\* consumed once, with exactly one notification if it asks for one.
THEOREM OutboxDelivers ==
  ASSUME \A v, w \in Worker : v = w
  PROVE  Spec => KeepsDelivery
<1>1. OutboxInv /\ [Next]_vars => OutboxInv'
    BY OutboxInvStep
<1>2. OutboxInv /\ [Next]_vars => [Delivery!DeliveryNext]_(Delivery!deliveryVars)
    BY StepDelivers
<1> QED
    BY <1>1, <1>2, OutboxInvInit, InitDelivers, PTL
       DEF Spec, KeepsDelivery, Delivery!DeliverySpec

-----------------------------------------------------------------------------
(* Types, and the order of the stamps.                                      *)

\* Stamps grow with every event that is raised, so they order the events, and
\* what an event knows was committed and is older.
Ordered ==
  /\ \A e \in Event : stamp[e] <= Cardinality(Raised)
  /\ \A e, f \in Event : stamp[e] = stamp[f] /\ stamp[e] # 0 => e = f
  /\ \A e \in Event : stamp[e] = 0 => status[e] = "none"
  /\ \A e \in Event : \A c \in known[e] : c \in Committed /\ stamp[c] < stamp[e]

\* What a worker still has to consume is of its batch, and it has published only
\* what it has still to consume.
Working ==
  \A w \in Worker :
    /\ todo[w] \subseteq batch[w]
    /\ \A e \in batch[w] : stamp[e] # 0
    /\ pushed[w] => todo[w] # {}

Sound == TypeOK /\ Ordered /\ Working

LEMMA SoundInit == Init => Sound
<1> SUFFICES ASSUME Init PROVE Sound
    OBVIOUS
<1>1. Raised = {}
    BY DEF Init, Raised
<1>2. Cardinality(Raised) = 0 /\ Cardinality(Event) \in Nat
    BY <1>1, FS_EmptySet, FS_CardinalityType, OutboxAssumption
<1> QED
    BY <1>2, OutboxAssumption DEF Init, Sound, TypeOK, Ordered, Working

LEMMA EmitSound ==
  ASSUME Sound, NEW e \in Event, Emit(e)
  PROVE  Sound'
<1>1. /\ stamp[e] = 0
      /\ stamp' = [stamp EXCEPT ![e] = Cardinality(Raised) + 1]
      /\ status' = [status EXCEPT ![e] = "open"]
      /\ known' = [known EXCEPT ![e] = Committed]
      /\ UNCHANGED <<notifications, channel, sent, batch, todo, pushed, crashes>>
    BY DEF Emit, effectVars, workerVars
<1>2. Raised \subseteq Event /\ e \notin Raised /\ IsFiniteSet(Raised)
    BY <1>1, OutboxAssumption, FS_Subset DEF Raised
<1>3. Raised' = Raised \cup {e}
    BY <1>1, <1>2, StampIsPositive DEF Raised, Sound, TypeOK
<1>4. /\ Cardinality(Raised) \in Nat
      /\ Cardinality(Raised') = Cardinality(Raised) + 1
    BY <1>2, <1>3, FS_AddElement, FS_CardinalityType
<1>5. Cardinality(Raised') <= Cardinality(Event) /\ Cardinality(Event) \in Nat
    BY <1>2, <1>3, OutboxAssumption, FS_Subset, FS_CardinalityType
<1>6. /\ stamp'[e] = Cardinality(Raised) + 1
      /\ \A f \in Event \ {e} : stamp'[f] = stamp[f]
      /\ \A f \in Event : stamp[f] \in Nat /\ stamp[f] <= Cardinality(Raised)
    BY <1>1 DEF Sound, TypeOK, Ordered
<1>7. status[e] = "none" /\ Committed' = Committed /\ e \notin Committed
    BY <1>1 DEF Sound, TypeOK, Ordered, Committed
<1>8. Committed \subseteq Event
    BY DEF Committed
<1>9. TypeOK'
    BY <1>1, <1>4, <1>5, <1>6, <1>8 DEF Sound, TypeOK
<1>10. Ordered'
    <2>1. \A f \in Event : stamp'[f] <= Cardinality(Raised')
        BY <1>4, <1>6
    <2>2. \A f, g \in Event : stamp'[f] = stamp'[g] /\ stamp'[f] # 0 => f = g
        BY <1>4, <1>6 DEF Sound, Ordered
    <2>3. \A f \in Event : stamp'[f] = 0 => status'[f] = "none"
        BY <1>1, <1>4, <1>6 DEF Sound, Ordered, TypeOK
    <2>4. ASSUME NEW f \in Event, NEW c \in known'[f]
          PROVE  c \in Committed' /\ stamp'[c] < stamp'[f]
        <3>1. CASE f = e
            <4>1. c \in Committed
                BY <1>1, <2>4, <3>1 DEF Sound, TypeOK
            <4> QED
                BY <1>4, <1>6, <1>7, <1>8, <3>1, <4>1
        <3>2. CASE f # e
            <4>1. c \in known[f]
                BY <1>1, <2>4, <3>2 DEF Sound, TypeOK
            <4>2. c \in Committed /\ stamp[c] < stamp[f]
                BY <4>1 DEF Sound, Ordered
            <4> QED
                BY <1>6, <1>7, <1>8, <3>2, <4>2
        <3> QED
            BY <3>1, <3>2
    <2> QED
        BY <2>1, <2>2, <2>3, <2>4 DEF Ordered
<1>11. Working'
    BY <1>1, <1>6 DEF Sound, Working, TypeOK
<1> QED
    BY <1>9, <1>10, <1>11 DEF Sound

\* Steps that raise nothing: what was committed stays so.
LEMMA RestSound ==
  ASSUME Sound, TypeOK', Working', UNCHANGED producerVars, Committed \subseteq Committed',
         \A e \in Event : status[e] = "none" => status'[e] = "none"
  PROVE  Sound'
<1>1. UNCHANGED <<stamp, known>> /\ Raised' = Raised
    BY DEF producerVars, Raised
<1>2. \A e \in Event : stamp'[e] <= Cardinality(Raised')
    BY <1>1 DEF Sound, Ordered
<1> QED
    BY <1>1, <1>2 DEF Sound, Ordered

LEMMA CurrentIsOne ==
  ASSUME Sound, NEW w \in Worker, NEW e \in Event, NEW f \in Event, IsCurrent(w, e), IsCurrent(w, f)
  PROVE  e = f
<1>1. /\ e \in todo[w] /\ f \in todo[w]
      /\ stamp[e] <= stamp[f] /\ stamp[f] <= stamp[e]
      /\ stamp[e] \in Nat /\ stamp[f] \in Nat
    BY DEF IsCurrent, Sound, TypeOK
<1>2. stamp[e] # 0
    BY <1>1 DEF Sound, Working
<1>3. stamp[e] = stamp[f]
    BY <1>1
<1> QED
    BY <1>2, <1>3 DEF Sound, Ordered

LEMMA SoundStep == Sound /\ [Next]_vars => Sound'
<1> SUFFICES ASSUME Sound, [Next]_vars PROVE Sound'
    OBVIOUS
<1>1. CASE UNCHANGED vars
    <2>1. UNCHANGED <<stamp, known, status, notifications, channel, sent, batch, todo, pushed, crashes>>
        BY <1>1 DEF vars
    <2> QED
        BY <2>1, RestSound DEF Sound, TypeOK, Working, producerVars, Committed
<1>2. ASSUME NEW e \in Event, CommitEmit(e) \/ RollbackEmit(e)
      PROVE  Sound'
    <2>1. /\ status[e] = "open"
          /\ \/ status' = [status EXCEPT ![e] = "unpublished"]
             \/ status' = [status EXCEPT ![e] = "none"]
          /\ UNCHANGED <<stamp, known, notifications, channel, sent, batch, todo, pushed, crashes>>
        BY <1>2 DEF CommitEmit, RollbackEmit, producerVars, effectVars, workerVars
    <2>2. TypeOK' /\ Working'
        BY <2>1 DEF Sound, TypeOK, Working
    <2>3. Committed \subseteq Committed' /\ \A f \in Event : status[f] = "none" => status'[f] = "none"
        BY <2>1 DEF Committed, Sound, TypeOK
    <2> QED
        BY <2>1, <2>2, <2>3, RestSound DEF producerVars
<1>3. ASSUME NEW w \in Worker, Fetch(w)
      PROVE  Sound'
    <2>1. PICK first \in SUBSET Unpublished :
             batch' = [batch EXCEPT ![w] = first] /\ todo' = [todo EXCEPT ![w] = first]
        BY <1>3 DEF Fetch
    <2>2. /\ batch[w] = {}
          /\ UNCHANGED <<stamp, known, status, notifications, channel, sent, pushed, crashes>>
        BY <1>3 DEF Fetch, producerVars, effectVars
    <2>3. first \subseteq Event /\ \A e \in first : stamp[e] # 0
        BY DEF Unpublished, Sound, Ordered
    <2>4. ~pushed[w]
        BY <2>2 DEF Sound, Working
    <2>5. TypeOK' /\ Working'
        BY <2>1, <2>2, <2>3, <2>4 DEF Sound, TypeOK, Working
    <2> QED
        BY <2>2, <2>5, RestSound DEF producerVars, Committed
<1>4. ASSUME NEW w \in Worker, Publish(w)
      PROVE  Sound'
    <2>1. PICK e \in Event :
             /\ IsCurrent(w, e)
             /\ \/ e \in TopicEvent /\ channel' = Append(channel, e)
                \/ UNCHANGED channel
        BY <1>4 DEF Publish
    <2>2. /\ pushed' = [pushed EXCEPT ![w] = TRUE]
          /\ UNCHANGED <<stamp, known, status, notifications, sent, batch, todo, crashes>>
        BY <1>4 DEF Publish, producerVars
    <2>3. channel' \in Seq(TopicEvent)
        <3>1. channel \in Seq(TopicEvent)
            BY DEF Sound, TypeOK
        <3>2. CASE e \in TopicEvent /\ channel' = Append(channel, e)
            BY <3>1, <3>2
        <3>3. CASE UNCHANGED channel
            BY <3>1, <3>3
        <3> QED
            BY <2>1, <3>2, <3>3
    <2>4. todo[w] # {}
        BY <2>1 DEF IsCurrent
    <2>5. TypeOK' /\ Working'
        BY <2>2, <2>3, <2>4 DEF Sound, TypeOK, Working
    <2> QED
        BY <2>2, <2>5, RestSound DEF producerVars, Committed
<1>5. ASSUME NEW w \in Worker, Consume(w)
      PROVE  Sound'
    <2>1. PICK e \in Event :
             /\ todo' = [todo EXCEPT ![w] = @ \ {e}]
             /\ sent' = [sent EXCEPT ![e] = IF e \in OutboundEvent THEN @ + 1 ELSE @]
        BY <1>5 DEF Consume
    <2>2. /\ pushed' = [pushed EXCEPT ![w] = FALSE]
          /\ UNCHANGED <<stamp, known, status, notifications, channel, batch, crashes>>
        BY <1>5 DEF Consume, producerVars
    <2>3. TypeOK' /\ Working'
        BY <2>1, <2>2 DEF Sound, TypeOK, Working
    <2> QED
        BY <2>2, <2>3, RestSound DEF producerVars, Committed
<1>6. ASSUME NEW w \in Worker, Mark(w)
      PROVE  Sound'
    <2>1. /\ todo[w] = {}
          /\ status' = [e \in Event |-> IF e \in batch[w] /\ status[e] = "unpublished"
                                        THEN "published" ELSE status[e]]
          /\ notifications' = [e \in Event |-> IF e \in batch[w] \cap NotifyEvent
                                               THEN notifications[e] + 1 ELSE notifications[e]]
          /\ batch' = [batch EXCEPT ![w] = {}]
          /\ UNCHANGED <<stamp, known, channel, sent, todo, pushed, crashes>>
        BY <1>6 DEF Mark, producerVars
    <2>2. TypeOK' /\ Working'
        BY <2>1 DEF Sound, TypeOK, Working
    <2>3. Committed \subseteq Committed' /\ \A f \in Event : status[f] = "none" => status'[f] = "none"
        BY <2>1 DEF Committed
    <2> QED
        BY <2>1, <2>2, <2>3, RestSound DEF producerVars
<1>7. ASSUME NEW w \in Worker, Crash(w)
      PROVE  Sound'
    <2>1. /\ crashes < MaxCrashes /\ crashes' = crashes + 1
          /\ batch' = [batch EXCEPT ![w] = {}]
          /\ todo' = [todo EXCEPT ![w] = {}]
          /\ pushed' = [pushed EXCEPT ![w] = FALSE]
          /\ UNCHANGED <<stamp, known, status, notifications, channel, sent>>
        BY <1>7 DEF Crash, producerVars, effectVars
    <2>2. TypeOK' /\ Working'
        BY <2>1, OutboxAssumption DEF Sound, TypeOK, Working
    <2> QED
        BY <2>1, <2>2, RestSound DEF producerVars, Committed
<1>8. ASSUME NEW cutoff, CleanUp(cutoff)
      PROVE  Sound'
    <2>1. /\ status' = [e \in Event |-> IF status[e] = "published" /\ stamp[e] < cutoff
                                        THEN "deleted" ELSE status[e]]
          /\ UNCHANGED <<stamp, known, notifications, channel, sent, batch, todo, pushed, crashes>>
        BY <1>8 DEF CleanUp, producerVars, effectVars, workerVars
    <2>2. TypeOK' /\ Working'
        BY <2>1 DEF Sound, TypeOK, Working
    <2>3. Committed \subseteq Committed' /\ \A f \in Event : status[f] = "none" => status'[f] = "none"
        BY <2>1 DEF Committed
    <2> QED
        BY <2>1, <2>2, <2>3, RestSound DEF producerVars
<1> QED
    BY <1>1, <1>2, <1>3, <1>4, <1>5, <1>6, <1>7, <1>8, EmitSound DEF Next, ProducerStep, WorkerStep

-----------------------------------------------------------------------------
(* What has been published and called for.                                  *)

On(e) == \E i \in 1..Len(channel) : channel[i] = e

\* Consumed by the worker, in the batch that is under way.
Consumed(w) == batch[w] \ todo[w]

\* What is done or consumed has been passed on, and so has what is published and
\* about to be consumed.  As the oldest rows are fetched first and consumed in
\* order, what an event in a batch knows is in the batch with it, or on the
\* channel.
Passed ==
  /\ \A e \in OutboundEvent : e \in Done => sent[e] >= 1
  /\ \A w \in Worker : \A e \in Consumed(w) : e \in OutboundEvent => sent[e] >= 1
  /\ \A i \in 1..Len(channel) : stamp[channel[i]] # 0
  /\ ~RedisFails =>
       /\ \A e \in TopicEvent : e \in Done => On(e)
       /\ \A w \in Worker, e \in TopicEvent :
            e \in Consumed(w) \/ (pushed[w] /\ IsCurrent(w, e)) => On(e)
       /\ \A w \in Worker : \A e \in batch[w] : \A c \in known[e] \cap TopicEvent :
            c \in batch[w] \/ On(c)
       /\ CausesComeFirst

PassedInv == Sound /\ Passed

LEMMA PassedInit == Init => Passed
BY DEF Init, Passed, Done, Consumed, CausesComeFirst

\* Nothing leaves the channel.
LEMMA OnStays ==
  ASSUME channel' = channel, NEW e
  PROVE  On(e)' = On(e)
BY DEF On

LEMMA Appended ==
  ASSUME TypeOK, NEW e \in TopicEvent, channel' = Append(channel, e)
  PROVE  /\ Len(channel)' = Len(channel) + 1
         /\ Len(channel) \in Nat
         /\ channel'[Len(channel) + 1] = e
         /\ \A i \in 1..Len(channel) : channel'[i] = channel[i]
         /\ On(e)'
         /\ \A f \in Event : On(f) => On(f)'
<1>1. /\ Len(channel)' = Len(channel) + 1
      /\ Len(channel) \in Nat
      /\ channel'[Len(channel) + 1] = e
      /\ \A i \in 1..Len(channel) : channel'[i] = channel[i]
    BY DEF TypeOK
<1>2. Len(channel) + 1 \in 1..Len(channel)'
    BY <1>1
<1>3. \A i \in 1..Len(channel) : i \in 1..Len(channel)'
    BY <1>1
<1> QED
    BY <1>1, <1>2, <1>3 DEF On

\* A step that touches no worker, nor what it has passed on.
LEMMA PassedStays ==
  ASSUME PassedInv, UNCHANGED <<stamp, channel, sent, batch, todo, pushed>>,
         Done' = Done,
         ~RedisFails => \A w \in Worker : \A e \in batch[w] : known'[e] = known[e],
         ~RedisFails => CausesComeFirst'
  PROVE  Passed'
<1>1. \A e : On(e)' = On(e)
    BY OnStays
<1>2. \A w \in Worker : /\ Consumed(w)' = Consumed(w)
                        /\ \A e \in Event : IsCurrent(w, e)' = IsCurrent(w, e)
    BY DEF Consumed, IsCurrent
<1>3. TopicEvent \subseteq Event
    BY OutboxAssumption
<1> QED
    BY <1>1, <1>2, <1>3 DEF PassedInv, Passed

LEMMA EmitPassed ==
  ASSUME PassedInv, NEW e \in Event, Emit(e)
  PROVE  Passed'
<1>1. /\ stamp[e] = 0
      /\ stamp' = [stamp EXCEPT ![e] = Cardinality(Raised) + 1]
      /\ status' = [status EXCEPT ![e] = "open"]
      /\ known' = [known EXCEPT ![e] = Committed]
      /\ UNCHANGED <<channel, sent, batch, todo, pushed>>
    BY DEF Emit, effectVars, workerVars
<1>2. \A w \in Worker : e \notin batch[w] /\ todo[w] \subseteq batch[w] /\ batch[w] \subseteq Event
    BY <1>1 DEF PassedInv, Sound, Working, TypeOK
<1>3. status[e] = "none" /\ Done' = Done
    BY <1>1 DEF PassedInv, Sound, Ordered, TypeOK, Done
<1>4. \A f : On(f)' = On(f)
    BY <1>1, OnStays
<1>5. \A f \in Event \ {e} : stamp'[f] = stamp[f] /\ known'[f] = known[f]
    BY <1>1 DEF PassedInv, Sound, TypeOK
<1>6. \A w \in Worker : \A f \in Event : IsCurrent(w, f)' => IsCurrent(w, f)
    BY <1>1, <1>2, <1>5 DEF IsCurrent
<1>7. \A w \in Worker : Consumed(w)' = Consumed(w)
    BY <1>1 DEF Consumed
<1>8. \A i \in 1..Len(channel) : channel[i] \in Event /\ channel[i] # e
    BY <1>1, OutboxAssumption DEF PassedInv, Sound, TypeOK, Passed
<1>9. CausesComeFirst => CausesComeFirst'
    BY <1>1, <1>5, <1>8 DEF CausesComeFirst
<1>10. TopicEvent \subseteq Event
    BY OutboxAssumption
<1>11. /\ \A f \in OutboundEvent : f \in Done' => sent'[f] >= 1
       /\ \A w \in Worker : \A f \in Consumed(w)' : f \in OutboundEvent => sent'[f] >= 1
       /\ \A i \in 1..Len(channel') : stamp'[channel'[i]] # 0
    BY <1>1, <1>3, <1>5, <1>7, <1>8 DEF PassedInv, Passed
<1>12. ASSUME ~RedisFails
       PROVE  /\ \A f \in TopicEvent : f \in Done' => On(f)'
              /\ \A w \in Worker, f \in TopicEvent :
                   f \in Consumed(w)' \/ (pushed'[w] /\ IsCurrent(w, f)') => On(f)'
              /\ \A w \in Worker : \A f \in batch'[w] : \A c \in known'[f] \cap TopicEvent :
                   c \in batch'[w] \/ On(c)'
              /\ CausesComeFirst'
    <2>1. \A w \in Worker : \A f \in batch[w] : f \in Event \ {e}
        BY <1>2
    <2> QED
        BY <1>1, <1>3, <1>4, <1>5, <1>6, <1>7, <1>9, <1>10, <1>12, <2>1 DEF PassedInv, Passed
<1> QED
    BY <1>11, <1>12 DEF Passed

LEMMA FetchPassed ==
  ASSUME PassedInv, NEW w \in Worker, Fetch(w)
  PROVE  Passed'
<1>1. PICK first \in SUBSET Unpublished :
         /\ Oldest(first, Unpublished, BatchSize)
         /\ batch' = [batch EXCEPT ![w] = first]
         /\ todo' = [todo EXCEPT ![w] = first]
    BY DEF Fetch
<1>2. /\ batch[w] = {}
      /\ UNCHANGED <<stamp, known, status, channel, sent, pushed>>
    BY DEF Fetch, producerVars, effectVars
<1>3. /\ batch'[w] = first /\ todo'[w] = first /\ ~pushed[w]
      /\ \A v \in Worker \ {w} : batch'[v] = batch[v] /\ todo'[v] = todo[v]
    BY <1>1, <1>2 DEF PassedInv, Sound, TypeOK, Working
<1>4. /\ Consumed(w)' = {}
      /\ \A v \in Worker \ {w} : /\ Consumed(v)' = Consumed(v)
                                 /\ \A e \in Event : IsCurrent(v, e)' = IsCurrent(v, e)
    BY <1>2, <1>3 DEF Consumed, IsCurrent
<1>5. Done' = Done /\ \A e : On(e)' = On(e)
    BY <1>2, OnStays DEF Done
<1>6. ASSUME ~RedisFails, NEW e \in first, NEW c \in known[e] \cap TopicEvent
      PROVE  c \in first \/ On(c)
    <2>1. e \in Event /\ c \in Event /\ c \in Committed /\ stamp[c] < stamp[e]
        BY <1>6, OutboxAssumption DEF Unpublished, PassedInv, Sound, Ordered
    <2>2. CASE c \in Unpublished
        <3>1. c \notin first => stamp[e] < stamp[c]
            BY <1>1, <2>2 DEF Oldest
        <3>2. stamp[c] \in Nat /\ stamp[e] \in Nat
            BY <2>1 DEF PassedInv, Sound, TypeOK
        <3> QED
            BY <2>1, <3>1, <3>2
    <2>3. CASE c \notin Unpublished
        <3>1. c \in Done
            BY <2>1, <2>3 DEF Committed, Unpublished, Done
        <3> QED
            BY <1>6, <3>1 DEF PassedInv, Passed
    <2> QED
        BY <2>2, <2>3
<1>7. /\ \A e \in OutboundEvent : e \in Done' => sent'[e] >= 1
      /\ \A v \in Worker : \A e \in Consumed(v)' : e \in OutboundEvent => sent'[e] >= 1
      /\ \A i \in 1..Len(channel') : stamp'[channel'[i]] # 0
    BY <1>2, <1>4, <1>5 DEF PassedInv, Passed
<1>8. TopicEvent \subseteq Event
    BY OutboxAssumption
<1>9. ASSUME ~RedisFails
      PROVE  /\ \A e \in TopicEvent : e \in Done' => On(e)'
             /\ \A v \in Worker, e \in TopicEvent :
                  e \in Consumed(v)' \/ (pushed'[v] /\ IsCurrent(v, e)') => On(e)'
             /\ \A v \in Worker : \A e \in batch'[v] : \A c \in known'[e] \cap TopicEvent :
                  c \in batch'[v] \/ On(c)'
             /\ CausesComeFirst'
    <2>1. \A e \in TopicEvent : e \in Done' => On(e)'
        BY <1>5, <1>9 DEF PassedInv, Passed
    <2>2. \A v \in Worker, e \in TopicEvent :
            e \in Consumed(v)' \/ (pushed'[v] /\ IsCurrent(v, e)') => On(e)'
        BY <1>2, <1>3, <1>4, <1>5, <1>8, <1>9 DEF PassedInv, Passed
    <2>3. \A v \in Worker : \A e \in batch'[v] : \A c \in known'[e] \cap TopicEvent :
            c \in batch'[v] \/ On(c)'
        BY <1>2, <1>3, <1>5, <1>6, <1>9 DEF PassedInv, Passed
    <2>4. CausesComeFirst'
        BY <1>2, <1>9 DEF PassedInv, Passed, CausesComeFirst
    <2> QED
        BY <2>1, <2>2, <2>3, <2>4
<1> QED
    BY <1>7, <1>9 DEF Passed

LEMMA PublishPassed ==
  ASSUME PassedInv, NEW w \in Worker, Publish(w)
  PROVE  Passed'
<1>1. PICK e \in Event :
         /\ IsCurrent(w, e)
         /\ \/ e \in TopicEvent /\ channel' = Append(channel, e)
            \/ (e \in TopicEvent => RedisFails) /\ UNCHANGED channel
    BY DEF Publish
<1>2. /\ pushed' = [pushed EXCEPT ![w] = TRUE]
      /\ UNCHANGED <<stamp, known, status, sent, batch, todo>>
    BY DEF Publish, producerVars
<1>3. /\ Done' = Done
      /\ \A v \in Worker : Consumed(v)' = Consumed(v)
      /\ \A v \in Worker, f \in Event : IsCurrent(v, f)' = IsCurrent(v, f)
      /\ \A v \in Worker \ {w} : pushed'[v] = pushed[v]
    BY <1>2 DEF Done, Consumed, IsCurrent, PassedInv, Sound, TypeOK
<1>4. e \in todo[w] /\ e \in batch[w] /\ stamp[e] # 0
    BY <1>1 DEF IsCurrent, PassedInv, Sound, Working
<1>5. TypeOK
    BY DEF PassedInv, Sound
<1>6. \A f \in Event : On(f) => On(f)'
    BY <1>1, <1>5, Appended, OnStays
<1>7. e \in TopicEvent /\ ~RedisFails => On(e)'
    BY <1>1, <1>5, Appended
<1>8. \A i \in 1..Len(channel') : stamp'[channel'[i]] # 0
    <2>1. CASE e \in TopicEvent /\ channel' = Append(channel, e)
        <3>1. \A i \in 1..Len(channel') : i \in 1..Len(channel) \/ i = Len(channel) + 1
            BY <1>5, <2>1, Appended
        <3> QED
            BY <1>2, <1>4, <1>5, <2>1, <3>1, Appended DEF PassedInv, Passed
    <2>2. CASE UNCHANGED channel
        BY <1>2, <2>2 DEF PassedInv, Passed
    <2> QED
        BY <1>1, <2>1, <2>2
<1>9. TopicEvent \subseteq Event
    BY OutboxAssumption
<1>10. ASSUME ~RedisFails, NEW c \in known[e] \cap TopicEvent
       PROVE  On(c)
    <2>1. c \in Event /\ stamp[c] < stamp[e]
        BY <1>9 DEF PassedInv, Sound, Ordered
    <2>2. stamp[c] \in Nat /\ stamp[e] \in Nat
        BY <2>1 DEF PassedInv, Sound, TypeOK
    <2>3. c \notin todo[w]
        BY <1>1, <2>1, <2>2 DEF IsCurrent
    <2> QED
        BY <1>4, <1>10, <2>3 DEF PassedInv, Passed, Consumed
<1>11. ASSUME ~RedisFails
       PROVE  CausesComeFirst'
    <2>1. CausesComeFirst
        BY <1>11 DEF PassedInv, Passed
    <2>2. CASE e \in TopicEvent /\ channel' = Append(channel, e)
        <3> SUFFICES ASSUME NEW i \in 1..Len(channel'), NEW c \in known'[channel'[i]] \cap TopicEvent
                     PROVE  \E j \in 1..(i - 1) : channel'[j] = c
            BY DEF CausesComeFirst
        <3>1. /\ Len(channel') = Len(channel) + 1 /\ Len(channel) \in Nat
              /\ channel'[Len(channel) + 1] = e
              /\ \A j \in 1..Len(channel) : channel'[j] = channel[j]
            BY <1>5, <2>2, Appended
        <3>2. CASE i = Len(channel) + 1
            <4>1. PICK j \in 1..Len(channel) : channel[j] = c
                BY <1>2, <1>10, <1>11, <3>1, <3>2 DEF On
            <4> QED
                BY <3>1, <3>2, <4>1
        <3>3. CASE i # Len(channel) + 1
            <4>1. i \in 1..Len(channel) /\ c \in known[channel[i]] \cap TopicEvent
                BY <1>2, <3>1, <3>3
            <4>2. PICK j \in 1..(i - 1) : channel[j] = c
                BY <2>1, <4>1 DEF CausesComeFirst
            <4> QED
                BY <3>1, <4>1, <4>2
        <3> QED
            BY <3>2, <3>3
    <2>3. CASE UNCHANGED channel
        BY <1>2, <2>1, <2>3 DEF CausesComeFirst
    <2> QED
        BY <1>1, <2>2, <2>3
<1>12. /\ \A f \in OutboundEvent : f \in Done' => sent'[f] >= 1
       /\ \A v \in Worker : \A f \in Consumed(v)' : f \in OutboundEvent => sent'[f] >= 1
    BY <1>2, <1>3 DEF PassedInv, Passed
<1>13. ASSUME ~RedisFails
       PROVE  /\ \A f \in TopicEvent : f \in Done' => On(f)'
              /\ \A v \in Worker, f \in TopicEvent :
                   f \in Consumed(v)' \/ (pushed'[v] /\ IsCurrent(v, f)') => On(f)'
              /\ \A v \in Worker : \A f \in batch'[v] : \A c \in known'[f] \cap TopicEvent :
                   c \in batch'[v] \/ On(c)'
    <2>1. \A f \in TopicEvent : f \in Done' => On(f)'
        BY <1>3, <1>6, <1>9, <1>13 DEF PassedInv, Passed
    <2>2. ASSUME NEW v \in Worker, NEW f \in TopicEvent,
                 f \in Consumed(v)' \/ (pushed'[v] /\ IsCurrent(v, f)')
          PROVE  On(f)'
        <3>1. CASE f \in Consumed(v) \/ (pushed[v] /\ IsCurrent(v, f))
            BY <1>6, <1>9, <1>13, <3>1 DEF PassedInv, Passed
        <3>2. CASE v = w /\ IsCurrent(w, f)
            <4>1. f = e
                BY <1>1, <1>9, <3>2, CurrentIsOne DEF PassedInv
            <4> QED
                BY <1>7, <1>13, <4>1
        <3> QED
            BY <1>3, <1>9, <2>2, <3>1, <3>2
    <2>3. \A v \in Worker : \A f \in batch'[v] : \A c \in known'[f] \cap TopicEvent :
            c \in batch'[v] \/ On(c)'
        BY <1>2, <1>6, <1>9, <1>13 DEF PassedInv, Passed
    <2> QED
        BY <2>1, <2>2, <2>3
<1> QED
    BY <1>8, <1>11, <1>12, <1>13 DEF Passed

LEMMA ConsumePassed ==
  ASSUME PassedInv, NEW w \in Worker, Consume(w)
  PROVE  Passed'
<1>1. PICK e \in Event :
         /\ IsCurrent(w, e)
         /\ todo' = [todo EXCEPT ![w] = @ \ {e}]
         /\ sent' = [sent EXCEPT ![e] = IF e \in OutboundEvent THEN @ + 1 ELSE @]
    BY DEF Consume
<1>2. /\ pushed[w]
      /\ pushed' = [pushed EXCEPT ![w] = FALSE]
      /\ UNCHANGED <<stamp, known, status, channel, batch>>
    BY DEF Consume, producerVars
<1>3. /\ todo'[w] = todo[w] \ {e} /\ ~pushed'[w]
      /\ \A v \in Worker \ {w} : todo'[v] = todo[v] /\ pushed'[v] = pushed[v]
    BY <1>1, <1>2 DEF PassedInv, Sound, TypeOK
<1>4. /\ Done' = Done
      /\ \A f : On(f)' = On(f)
      /\ \A v \in Worker \ {w} : Consumed(v)' = Consumed(v)
      /\ Consumed(w)' \subseteq Consumed(w) \cup {e}
      /\ \A v \in Worker \ {w}, f \in Event : IsCurrent(v, f)' = IsCurrent(v, f)
    BY <1>2, <1>3, OnStays DEF Done, Consumed, IsCurrent
<1>5. \A f \in Event : /\ sent[f] \in Nat /\ sent'[f] \in Nat /\ sent[f] <= sent'[f]
                       /\ f = e /\ f \in OutboundEvent => sent'[f] >= 1
    BY <1>1 DEF PassedInv, Sound, TypeOK
<1>6. OutboundEvent \subseteq Event /\ TopicEvent \subseteq Event
    BY OutboxAssumption
<1>7. \A f \in OutboundEvent : f \in Done' => sent'[f] >= 1
    BY <1>4, <1>5, <1>6 DEF PassedInv, Passed
<1>8. \A v \in Worker : \A f \in Consumed(v)' : f \in OutboundEvent => sent'[f] >= 1
    BY <1>4, <1>5, <1>6 DEF PassedInv, Passed
<1>9. \A i \in 1..Len(channel') : stamp'[channel'[i]] # 0
    BY <1>2 DEF PassedInv, Passed
<1>10. ASSUME ~RedisFails
       PROVE  /\ \A f \in TopicEvent : f \in Done' => On(f)'
              /\ \A v \in Worker, f \in TopicEvent :
                   f \in Consumed(v)' \/ (pushed'[v] /\ IsCurrent(v, f)') => On(f)'
              /\ \A v \in Worker : \A f \in batch'[v] : \A c \in known'[f] \cap TopicEvent :
                   c \in batch'[v] \/ On(c)'
              /\ CausesComeFirst'
    <2>1. e \in TopicEvent => On(e)
        BY <1>1, <1>2, <1>10 DEF PassedInv, Passed
    <2>2. \A v \in Worker, f \in TopicEvent :
            f \in Consumed(v)' \/ (pushed'[v] /\ IsCurrent(v, f)') => On(f)'
        BY <1>3, <1>4, <1>6, <1>10, <2>1 DEF PassedInv, Passed
    <2>3. CausesComeFirst'
        BY <1>2, <1>10 DEF PassedInv, Passed, CausesComeFirst
    <2> QED
        BY <1>2, <1>4, <1>10, <2>2, <2>3 DEF PassedInv, Passed
<1> QED
    BY <1>7, <1>8, <1>9, <1>10 DEF Passed

\* A worker that ends its batch: what it has marked has been consumed.
LEMMA BatchEnds ==
  ASSUME PassedInv, NEW w \in Worker,
         UNCHANGED <<stamp, known, channel, sent>>,
         batch' = [batch EXCEPT ![w] = {}],
         \/ todo[w] = {} /\ Done' \subseteq Done \cup batch[w] /\ UNCHANGED <<todo, pushed>>
         \/ /\ todo' = [todo EXCEPT ![w] = {}]
            /\ pushed' = [pushed EXCEPT ![w] = FALSE]
            /\ Done' = Done
  PROVE  Passed'
<1>1. /\ batch'[w] = {} /\ todo'[w] = {} /\ ~pushed'[w]
      /\ \A v \in Worker \ {w} : batch'[v] = batch[v] /\ todo'[v] = todo[v] /\ pushed'[v] = pushed[v]
    BY DEF PassedInv, Sound, TypeOK, Working
<1>2. /\ \A f : On(f)' = On(f)
      /\ \A v \in Worker \ {w} : Consumed(v)' = Consumed(v)
      /\ Consumed(w)' = {}
      /\ \A v \in Worker \ {w}, f \in Event : IsCurrent(v, f)' = IsCurrent(v, f)
    BY <1>1, OnStays DEF Consumed, IsCurrent
<1>3. Done' \subseteq Done \cup Consumed(w)
    BY DEF Consumed
<1>4. /\ \A f \in OutboundEvent : f \in Done' => sent'[f] >= 1
      /\ \A v \in Worker : \A f \in Consumed(v)' : f \in OutboundEvent => sent'[f] >= 1
      /\ \A i \in 1..Len(channel') : stamp'[channel'[i]] # 0
    BY <1>2, <1>3 DEF PassedInv, Passed
<1>5. TopicEvent \subseteq Event
    BY OutboxAssumption
<1>6. ASSUME ~RedisFails
      PROVE  /\ \A f \in TopicEvent : f \in Done' => On(f)'
             /\ \A v \in Worker, f \in TopicEvent :
                  f \in Consumed(v)' \/ (pushed'[v] /\ IsCurrent(v, f)') => On(f)'
             /\ \A v \in Worker : \A f \in batch'[v] : \A c \in known'[f] \cap TopicEvent :
                  c \in batch'[v] \/ On(c)'
             /\ CausesComeFirst'
    <2>1. \A f \in TopicEvent : f \in Done' => On(f)'
        BY <1>2, <1>3, <1>6 DEF PassedInv, Passed
    <2>2. \A v \in Worker, f \in TopicEvent :
            f \in Consumed(v)' \/ (pushed'[v] /\ IsCurrent(v, f)') => On(f)'
        BY <1>1, <1>2, <1>5, <1>6 DEF PassedInv, Passed
    <2>3. CausesComeFirst'
        BY <1>6 DEF PassedInv, Passed, CausesComeFirst
    <2> QED
        BY <1>1, <1>2, <1>6, <2>1, <2>2, <2>3 DEF PassedInv, Passed
<1> QED
    BY <1>4, <1>6 DEF Passed

LEMMA PassedStep == PassedInv /\ [Next]_vars => Passed'
<1> SUFFICES ASSUME PassedInv, [Next]_vars PROVE Passed'
    OBVIOUS
<1>0. ASSUME UNCHANGED <<stamp, known, channel, sent, batch, todo, pushed>>, Done' = Done
      PROVE  Passed'
    <2>1. ~RedisFails => CausesComeFirst'
        BY <1>0 DEF PassedInv, Passed, CausesComeFirst
    <2> QED
        BY <1>0, <2>1, PassedStays
<1>1. CASE UNCHANGED vars
    BY <1>0, <1>1 DEF vars, Done
<1>2. ASSUME NEW e \in Event, CommitEmit(e) \/ RollbackEmit(e)
      PROVE  Passed'
    <2>1. Done' = Done
        BY <1>2 DEF CommitEmit, RollbackEmit, Done, PassedInv, Sound, TypeOK
    <2> QED
        BY <1>0, <1>2, <2>1 DEF CommitEmit, RollbackEmit, producerVars, effectVars, workerVars
<1>3. ASSUME NEW w \in Worker, Mark(w)
      PROVE  Passed'
    <2>1. Done' \subseteq Done \cup batch[w]
        BY <1>3 DEF Mark, Done
    <2> QED
        BY <1>3, <2>1, BatchEnds DEF Mark, producerVars
<1>4. ASSUME NEW w \in Worker, Crash(w)
      PROVE  Passed'
    <2>1. Done' = Done
        BY <1>4 DEF Crash, Done
    <2> QED
        BY <1>4, <2>1, BatchEnds DEF Crash, producerVars, effectVars
<1>5. ASSUME NEW cutoff, CleanUp(cutoff)
      PROVE  Passed'
    <2>1. Done' = Done
        BY <1>5 DEF CleanUp, Done
    <2> QED
        BY <1>0, <1>5, <2>1 DEF CleanUp, producerVars, effectVars, workerVars
<1> QED
    BY <1>1, <1>2, <1>3, <1>4, <1>5, EmitPassed, FetchPassed, PublishPassed, ConsumePassed
    DEF Next, ProducerStep, WorkerStep

-----------------------------------------------------------------------------
(* How often: once, and once more per crash.                                *)

OneWorker == \A v, w \in Worker : v = w

\* Published in this round, or for good.
Touched(e) ==
  e \in Done \/ \E w \in Worker : e \in Consumed(w) \/ (pushed[w] /\ IsCurrent(w, e))

Called(e) == e \in Done \/ \E w \in Worker : e \in Consumed(w)

\* What this round has not come to yet has been passed on once per crash at most.
CountedFor(e) ==
  /\ Pushes(e) <= 1 + crashes
  /\ ~Touched(e) => Pushes(e) <= crashes
  /\ sent[e] <= 1 + crashes
  /\ ~Called(e) => sent[e] <= crashes

Counted == \A e \in Event : CountedFor(e)

LEMMA PushesFinite ==
  ASSUME TypeOK, NEW e
  PROVE  /\ IsFiniteSet({i \in 1..Len(channel) : channel[i] = e})
         /\ Pushes(e) \in Nat
<1>1. Len(channel) \in Nat
    BY DEF TypeOK
<1>2. IsFiniteSet(1..Len(channel))
    BY <1>1, FS_Interval
<1>3. IsFiniteSet({i \in 1..Len(channel) : channel[i] = e})
    BY <1>2, FS_Subset
<1> QED
    BY <1>3, FS_CardinalityType DEF Pushes

LEMMA PushesGrow ==
  ASSUME TypeOK, NEW e \in TopicEvent, channel' = Append(channel, e), NEW f
  PROVE  Pushes(f)' = IF f = e THEN Pushes(f) + 1 ELSE Pushes(f)
<1> DEFINE S == {i \in 1..Len(channel) : channel[i] = f}
           T == {i \in 1..Len(channel') : channel'[i] = f}
           n == Len(channel) + 1
<1>1. /\ Len(channel') = n /\ Len(channel) \in Nat /\ channel'[n] = e
      /\ \A i \in 1..Len(channel) : channel'[i] = channel[i]
    BY Appended
<1>2. \A i \in 1..Len(channel') : i \in 1..Len(channel) \/ i = n
    BY <1>1
<1>3. \A i \in 1..Len(channel) : i \in 1..Len(channel')
    BY <1>1
<1>4. n \in 1..Len(channel') /\ n \notin 1..Len(channel)
    BY <1>1
<1>5. T = IF f = e THEN S \cup {n} ELSE S
    BY <1>1, <1>2, <1>3, <1>4
<1>6. IsFiniteSet(S) /\ n \notin S
    BY <1>4, PushesFinite
<1>7. Cardinality(S \cup {n}) = Cardinality(S) + 1
    BY <1>6, FS_AddElement
<1> QED
    BY <1>5, <1>7 DEF Pushes

LEMMA CountedInit == Init => Counted
<1> SUFFICES ASSUME Init, NEW e \in Event PROVE CountedFor(e)
    BY DEF Counted
<1>1. {i \in 1..Len(channel) : channel[i] = e} = {}
    BY DEF Init
<1>2. Pushes(e) = 0
    BY <1>1, FS_EmptySet DEF Pushes
<1> QED
    BY <1>2 DEF Init, CountedFor

\* A step that passes nothing on, and after which what was touched still is.
LEMMA CountedStays ==
  ASSUME Sound, Counted, UNCHANGED <<channel, sent>>,
         \/ /\ crashes' = crashes
            /\ \A e \in Event : (Touched(e) => Touched(e)') /\ (Called(e) => Called(e)')
         \/ crashes' = crashes + 1
  PROVE  Counted'
<1> SUFFICES ASSUME NEW e \in Event PROVE CountedFor(e)'
    BY DEF Counted
<1>1. Pushes(e)' = Pushes(e) /\ Pushes(e) \in Nat
    BY PushesFinite DEF Pushes, Sound
<1>2. crashes \in Nat /\ sent[e] \in Nat
    BY OutboxAssumption DEF Sound, TypeOK
<1> QED
    BY <1>1, <1>2 DEF Counted, CountedFor

LEMMA PublishCounted ==
  ASSUME OneWorker, OutboxInv, Sound, Counted, NEW w \in Worker, Publish(w)
  PROVE  Counted'
<1>1. PICK e \in Event :
         /\ IsCurrent(w, e)
         /\ \/ e \in TopicEvent /\ channel' = Append(channel, e)
            \/ UNCHANGED channel
    BY DEF Publish
<1>2. /\ ~pushed[w] /\ pushed' = [pushed EXCEPT ![w] = TRUE]
      /\ UNCHANGED <<stamp, status, sent, batch, todo, crashes>>
    BY DEF Publish, producerVars
<1>3. /\ Done' = Done
      /\ \A v \in Worker : v = w /\ Consumed(v)' = Consumed(v)
      /\ \A v \in Worker, f \in Event : IsCurrent(v, f)' = IsCurrent(v, f)
      /\ pushed'[w]
    BY <1>2 DEF OneWorker, Done, Consumed, IsCurrent, Sound, TypeOK
<1>4. \A f \in Event : (Touched(f) => Touched(f)') /\ (Called(f) => Called(f)')
    BY <1>2, <1>3 DEF Touched, Called
<1>5. e \in todo[w] /\ e \in batch[w] /\ e \notin Done
    BY <1>1 DEF IsCurrent, Sound, Working, OutboxInv, Unpublished, Done
<1>6. ~Touched(e) /\ Touched(e)'
    BY <1>1, <1>2, <1>3, <1>5 DEF Touched, Consumed
<1>7. CASE UNCHANGED channel
    BY <1>2, <1>4, <1>7, CountedStays
<1>8. CASE e \in TopicEvent /\ channel' = Append(channel, e)
    <2> SUFFICES ASSUME NEW f \in Event PROVE CountedFor(f)'
        BY DEF Counted
    <2>1. Pushes(f)' = IF f = e THEN Pushes(f) + 1 ELSE Pushes(f)
        BY <1>8, PushesGrow DEF Sound
    <2>2. crashes \in Nat /\ crashes' = crashes /\ sent' = sent
        BY <1>2, OutboxAssumption DEF Sound, TypeOK
    <2>3. Pushes(f) \in Nat
        BY PushesFinite DEF Sound
    <2>4. CountedFor(f)
        BY DEF Counted
    <2> QED
        BY <1>4, <1>6, <2>1, <2>2, <2>3, <2>4 DEF CountedFor
<1> QED
    BY <1>1, <1>7, <1>8

LEMMA ConsumeCounted ==
  ASSUME OneWorker, OutboxInv, Sound, Counted, NEW w \in Worker, Consume(w)
  PROVE  Counted'
<1>1. PICK e \in Event :
         /\ IsCurrent(w, e)
         /\ todo' = [todo EXCEPT ![w] = @ \ {e}]
         /\ sent' = [sent EXCEPT ![e] = IF e \in OutboundEvent THEN @ + 1 ELSE @]
    BY DEF Consume
<1>2. /\ pushed[w]
      /\ UNCHANGED <<stamp, status, channel, batch, crashes>>
    BY DEF Consume, producerVars
<1>3. e \in todo[w] /\ e \in batch[w] /\ e \notin Done
    BY <1>1 DEF IsCurrent, Sound, Working, OutboxInv, Unpublished, Done
<1>4. /\ Done' = Done
      /\ \A v \in Worker : v = w
      /\ Consumed(w)' = Consumed(w) \cup {e}
    BY <1>1, <1>2, <1>3 DEF OneWorker, Done, Consumed, Sound, TypeOK
<1>5. \A f \in Event : Called(f) => Called(f)'
    BY <1>4 DEF Called
<1>6. \A f \in Event : Touched(f) => Touched(f)'
    <2> SUFFICES ASSUME NEW f \in Event, Touched(f) PROVE Touched(f)'
        OBVIOUS
    <2>1. CASE f \in Done \/ f \in Consumed(w)
        BY <1>4, <2>1 DEF Touched
    <2>2. CASE IsCurrent(w, f)
        <3>1. f = e
            BY <1>1, <2>2, CurrentIsOne
        <3> QED
            BY <1>4, <3>1 DEF Touched
    <2> QED
        BY <1>4, <2>1, <2>2 DEF Touched
<1>7. ~Called(e) /\ Called(e)'
    BY <1>3, <1>4 DEF Called, Consumed
<1> SUFFICES ASSUME NEW f \in Event PROVE CountedFor(f)'
    BY DEF Counted
<1>8. /\ sent[f] \in Nat /\ crashes \in Nat
      /\ sent'[f] = sent[f] \/ (f = e /\ sent'[f] = sent[f] + 1)
    BY <1>1, OutboxAssumption DEF Sound, TypeOK
<1>9. Pushes(f)' = Pushes(f) /\ Pushes(f) \in Nat
    BY <1>2, PushesFinite DEF Pushes, Sound
<1>10. CountedFor(f)
    BY DEF Counted
<1> QED
    BY <1>2, <1>5, <1>6, <1>7, <1>8, <1>9, <1>10 DEF CountedFor

LEMMA CountedStep ==
  ASSUME OneWorker, OutboxInv, Sound, Counted, [Next]_vars
  PROVE  Counted'
<1>1. CASE UNCHANGED vars
    <2>1. UNCHANGED <<stamp, status, channel, sent, batch, todo, pushed, crashes>>
        BY <1>1 DEF vars
    <2> QED
        BY <2>1, CountedStays DEF Touched, Called, Done, Consumed, IsCurrent
<1>2. ASSUME NEW e \in Event, Emit(e)
      PROVE  Counted'
    <2>1. /\ stamp[e] = 0
          /\ stamp' = [stamp EXCEPT ![e] = Cardinality(Raised) + 1]
          /\ status' = [status EXCEPT ![e] = "open"]
          /\ UNCHANGED <<channel, sent, batch, todo, pushed, crashes>>
        BY <1>2 DEF Emit, effectVars, workerVars
    <2>2. Done' = Done
        BY <2>1 DEF Sound, Ordered, TypeOK, Done
    <2>3. \A w \in Worker : e \notin todo[w] /\ todo[w] \subseteq Event
        BY <2>1 DEF Sound, Working, TypeOK
    <2>4. \A f \in Event \ {e} : stamp'[f] = stamp[f]
        BY <2>1 DEF Sound, TypeOK
    <2>5. \A w \in Worker, f \in Event : IsCurrent(w, f) => IsCurrent(w, f)'
        BY <2>1, <2>3, <2>4 DEF IsCurrent
    <2>6. \A w \in Worker : Consumed(w)' = Consumed(w)
        BY <2>1 DEF Consumed
    <2> QED
        BY <2>1, <2>2, <2>5, <2>6, CountedStays DEF Touched, Called
<1>3. ASSUME UNCHANGED <<stamp, channel, sent, batch, todo, pushed, crashes>>, Done' = Done
      PROVE  Counted'
    <2>1. \A w \in Worker : Consumed(w)' = Consumed(w) /\ \A f \in Event : IsCurrent(w, f)' = IsCurrent(w, f)
        BY <1>3 DEF Consumed, IsCurrent
    <2> QED
        BY <1>3, <2>1, CountedStays DEF Touched, Called
<1>4. ASSUME NEW e \in Event, CommitEmit(e) \/ RollbackEmit(e)
      PROVE  Counted'
    <2>1. Done' = Done
        BY <1>4 DEF CommitEmit, RollbackEmit, Done, Sound, TypeOK
    <2> QED
        BY <1>3, <1>4, <2>1 DEF CommitEmit, RollbackEmit, producerVars, effectVars, workerVars
<1>5. ASSUME NEW cutoff, CleanUp(cutoff)
      PROVE  Counted'
    <2>1. Done' = Done
        BY <1>5 DEF CleanUp, Done
    <2> QED
        BY <1>3, <1>5, <2>1 DEF CleanUp, producerVars, effectVars, workerVars
<1>6. ASSUME NEW w \in Worker, Fetch(w)
      PROVE  Counted'
    <2>1. batch[w] = {} /\ UNCHANGED <<stamp, status, channel, sent, pushed, crashes>>
        BY <1>6 DEF Fetch, producerVars, effectVars
    <2>2. \A v \in Worker : v = w
        BY DEF OneWorker
    <2>3. Consumed(w) = {} /\ ~pushed[w]
        BY <2>1 DEF Consumed, Sound, Working
    <2>4. Done' = Done
        BY <2>1 DEF Done
    <2> QED
        BY <2>1, <2>2, <2>3, <2>4, CountedStays DEF Touched, Called
<1>7. ASSUME NEW w \in Worker, Mark(w)
      PROVE  Counted'
    <2>1. todo[w] = {} /\ UNCHANGED <<channel, sent, crashes>>
        BY <1>7 DEF Mark
    <2>2. Done' = Done \cup batch[w]
        BY <1>7, MarkedRows DEF Done, OutboxInv
    <2>3. \A v \in Worker : v = w
        BY DEF OneWorker
    <2>4. Consumed(w) \subseteq batch[w] /\ ~pushed[w]
        BY <2>1 DEF Consumed, Sound, Working
    <2> QED
        BY <2>1, <2>2, <2>3, <2>4, CountedStays DEF Touched, Called
<1>8. ASSUME NEW w \in Worker, Crash(w)
      PROVE  Counted'
    BY <1>8, CountedStays DEF Crash, effectVars
<1> QED
    BY <1>1, <1>2, <1>4, <1>5, <1>6, <1>7, <1>8, PublishCounted, ConsumeCounted
    DEF Next, ProducerStep, WorkerStep

-----------------------------------------------------------------------------
(* Theorems.                                                                *)

LEMMA SoundHolds == Spec => []Sound
BY SoundInit, SoundStep, PTL DEF Spec

LEMMA PassedHolds == Spec => []PassedInv
<1>1. Init => PassedInv
    BY SoundInit, PassedInit DEF PassedInv
<1>2. PassedInv /\ [Next]_vars => PassedInv'
    BY SoundStep, PassedStep DEF PassedInv
<1> QED
    BY <1>1, <1>2, PTL DEF Spec

LEMMA CountedHolds ==
  ASSUME OneWorker
  PROVE  Spec => []Counted
<1> DEFINE Inv == OutboxInv /\ Sound /\ Counted
<1>1. Init => Inv
    BY OutboxInvInit, SoundInit, CountedInit
<1>2. Inv /\ [Next]_vars => Inv'
    BY OutboxInvStep, SoundStep, CountedStep DEF OneWorker
<1> QED
    BY <1>1, <1>2, PTL DEF Spec

\* Rows, batches and the channel keep their types, and a stamp never exceeds the
\* number of events, for any number of workers.
THEOREM OutboxTyped == Spec => []TypeOK
<1>1. Sound => TypeOK
    BY DEF Sound
<1> QED
    BY <1>1, SoundHolds, PTL

\* While Redis accepts what it is given, causes are on the channel before their
\* effects, for any number of workers that fetch the same rows, batch sizes and
\* crashes.
THEOREM CausesFirst ==
  ASSUME ~RedisFails
  PROVE  Spec => []CausesComeFirst
<1>1. PassedInv => CausesComeFirst
    BY DEF PassedInv, Passed
<1> QED
    BY <1>1, PassedHolds, PTL

\* What is done has been published and the provider called, and one worker does
\* each again only after a crash.
THEOREM PassedOnAtLeastOnce ==
  ASSUME IsFiniteSet(Worker)
  PROVE  Spec => []AtLeastOnce
<1> DEFINE Twice == Cardinality(Worker) = 1 => Counted
<1>1. PassedInv /\ Twice => AtLeastOnce
    <2> SUFFICES ASSUME PassedInv, Twice, NEW e \in Event
                 PROVE  /\ status[e] \in {"published", "deleted"} =>
                             /\ e \in TopicEvent /\ ~RedisFails => Pushes(e) >= 1
                             /\ e \in OutboundEvent => sent[e] >= 1
                        /\ Cardinality(Worker) = 1 =>
                             Pushes(e) <= 1 + crashes /\ sent[e] <= 1 + crashes
        BY DEF AtLeastOnce
    <2>1. ASSUME On(e) PROVE Pushes(e) >= 1
        <3>1. {i \in 1..Len(channel) : channel[i] = e} # {}
            BY <2>1 DEF On
        <3>2. Pushes(e) # 0
            BY <3>1, PushesFinite, FS_EmptySet DEF Pushes, PassedInv, Sound
        <3>3. Pushes(e) \in Nat
            BY PushesFinite DEF PassedInv, Sound
        <3> QED
            BY <3>2, <3>3
    <2>2. ASSUME status[e] \in {"published", "deleted"}
          PROVE  /\ e \in TopicEvent /\ ~RedisFails => Pushes(e) >= 1
                 /\ e \in OutboundEvent => sent[e] >= 1
        BY <2>1, <2>2 DEF PassedInv, Passed, Done
    <2>3. Cardinality(Worker) = 1 => Pushes(e) <= 1 + crashes /\ sent[e] <= 1 + crashes
        BY DEF Counted, CountedFor
    <2> QED
        BY <2>2, <2>3
<1>2. Spec => []Twice
    <2>1. CASE Cardinality(Worker) = 1
        <3>1. OneWorker
            BY <2>1, FS_Singleton DEF OneWorker
        <3>2. Counted => Twice
            OBVIOUS
        <3> QED
            BY <3>1, <3>2, CountedHolds, PTL
    <2>2. CASE Cardinality(Worker) # 1
        <3>1. Twice
            BY <2>2
        <3> QED
            BY <3>1, PTL
    <2> QED
        BY <2>1, <2>2
<1> QED
    BY <1>1, <1>2, PassedHolds, PTL
=============================================================================
