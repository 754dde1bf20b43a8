---------------------------- MODULE AccessProofs ---------------------------
(***************************************************************************)
(* What is proved of the two components a request passes before it reaches *)
(* a service: Gateway, for any number of requests with and without the     *)
(* key, any limit, and any number of windows, crashes and outages, and     *)
(* Identity, for any number of users, sessions, requests and tokens.  One  *)
(* lemma per part of each invariant, with one step per action.             *)
(***************************************************************************)
EXTENDS Gateway, Identity, FiniteSetTheorems, TLAPS

-----------------------------------------------------------------------------
(* Gateway.                                                                 *)

\* Only requests with the key come to the stages around the lock; a request that
\* is done has an answer, and one that is about to store it may do so.
Placed ==
  \A r \in Attempt :
    /\ stage[r] \in {"missed", "unlocked"} => r \in Keyed
    /\ stage[r] = "done" => answer[r] \in Cacheable \cup {"failed"}
    /\ stage[r] = "unlocked" => answer[r] \in Cacheable

\* Who is behind the lock has it, unless somebody has outlived it.
LockHeld == ~outran => \A r \in Holding : lock = r

\* Requests are let through up to the limit and refused from there on.
Counted ==
  /\ count <= Limit => refused = 0 /\ admitted = count
  /\ count > Limit => admitted = Limit

\* A success has been carried out.
Effective ==
  cached = "ok" \/ (\E r \in Keyed : answer[r] = "ok") => effects >= 1

GatewayTyped == GatewayTypeOK /\ Placed

\* The effect is there once it is the answer of the request behind the lock, or
\* the stored one.
CarriedOut ==
  \/ cached = "ok"
  \/ \E r \in Keyed : stage[r] \in {"done", "unlocked"} /\ answer[r] = "ok"

\* Repeats that do not overlap and meet no fault find the lock free and the
\* answer stored.
Serial ==
  ~trouble =>
    /\ redis = "up"
    /\ \A r \in Keyed : stage[r] # "lost"
    /\ \A r, s \in Keyed \cap InFlight : r = s
    /\ lock # Free => lock \in Holding
    /\ \A r \in Keyed :
         stage[r] \in {"missed", "entering", "inside", "done", "unlocked"} => cached = "none"
    /\ \A r \in Keyed :
         stage[r] = "answered" => answer[r] = "failed" \/ (answer[r] = cached /\ cached # "none")
    /\ effects = IF CarriedOut THEN 1 ELSE 0

GatewayInv == GatewayTyped /\ LockHeld /\ Counted /\ Effective /\ Serial

\* The actions of a request, and those of nobody in particular.
Acts(r) == Send(r) \/ Serve(r) \/ Crash(r)
Passes == NextWindow \/ ExpireLock \/ ExpireAnswer \/ Outage \/ Recover

LEMMA NextIsOneOf == GatewayNext => Passes \/ \E r \in Attempt : Acts(r)
BY DEF GatewayNext, Passes, Acts, Time, Fault

LEMMA GatewayInitHolds == GatewayInit => GatewayInv
<1> SUFFICES ASSUME GatewayInit PROVE GatewayInv
  OBVIOUS
<1>1. GatewayTypeOK
  <2>1. 0 \in 0..MaxWindows /\ 0 \in 0..MaxCrashes /\ 0 \in 0..MaxOutages /\ 0 \in Nat
    BY GatewayAssumption
  <2>2. stage \in [Attempt -> Stage] /\ answer \in [Attempt -> Answer]
    BY DEF GatewayInit, Stage, Answer
  <2> QED
    BY <2>1, <2>2 DEF GatewayInit, GatewayTypeOK
<1>2. \A r \in Attempt : stage[r] = "unsent" /\ answer[r] = "none"
  BY DEF GatewayInit
<1>3. InFlight = {} /\ Holding = {}
  BY <1>2 DEF InFlight, Holding, Attempt
<1>4. Placed /\ LockHeld /\ Counted /\ Effective /\ Serial
  BY <1>2, <1>3, GatewayAssumption
     DEF GatewayInit, Placed, LockHeld, Counted, Effective, Serial, CarriedOut, Attempt
<1> QED
  BY <1>1, <1>4 DEF GatewayInv, GatewayTyped

LEMMA GatewayKeepsTypes ==
  ASSUME GatewayTyped, NEW r \in Attempt, Acts(r)
  PROVE  GatewayTypeOK'
<1> USE GatewayAssumption
    DEF GatewayTyped, GatewayTypeOK, Placed, Stage, Answer, Cacheable, Attempt, Moves,
        Answers, storeVars, limitVars, faultVars
<1>1. CASE Send(r)
  BY <1>1 DEF Send
<1>2. CASE PassBy(r)
  BY <1>2 DEF PassBy
<1>3. CASE Lookup(r)
  BY <1>3 DEF Lookup
<1>4. CASE TakeLock(r)
  BY <1>4 DEF TakeLock
<1>5. CASE Count(r)
  BY <1>5 DEF Count
<1>6. CASE Handle(r)
  BY <1>6 DEF Handle
<1>7. CASE Unlock(r)
  BY <1>7 DEF Unlock
<1>8. CASE Store(r)
  BY <1>8 DEF Store
<1>9. CASE RedisError(r)
  BY <1>9 DEF RedisError
<1>10. CASE Crash(r)
  BY <1>10 DEF Crash
<1> QED
  BY <1>1, <1>2, <1>3, <1>4, <1>5, <1>6, <1>7, <1>8, <1>9, <1>10 DEF Acts, Serve

LEMMA KeepsTypesOver ==
  ASSUME GatewayTyped, Passes
  PROVE  GatewayTypeOK'
<1> USE GatewayAssumption
    DEF GatewayTyped, GatewayTypeOK, Placed, Stage, Answer, Cacheable, Attempt, Moves,
        Answers, storeVars, limitVars, faultVars
<1>1. CASE NextWindow
  BY <1>1 DEF NextWindow
<1>2. CASE ExpireLock
  BY <1>2 DEF ExpireLock
<1>3. CASE ExpireAnswer
  BY <1>3 DEF ExpireAnswer
<1>4. CASE Outage
  BY <1>4 DEF Outage
<1>5. CASE Recover
  BY <1>5 DEF Recover
<1> QED
  BY <1>1, <1>2, <1>3, <1>4, <1>5 DEF Passes

LEMMA KeepsPlaced ==
  ASSUME GatewayTyped, NEW r \in Attempt, Acts(r)
  PROVE  Placed'
<1> USE GatewayAssumption
    DEF GatewayTyped, GatewayTypeOK, Placed, Stage, Answer, Cacheable, Attempt, Moves,
        Answers, storeVars, limitVars, faultVars
<1>1. CASE Send(r)
  BY <1>1 DEF Send
<1>2. CASE PassBy(r)
  BY <1>2 DEF PassBy
<1>3. CASE Lookup(r)
  BY <1>3 DEF Lookup
<1>4. CASE TakeLock(r)
  BY <1>4 DEF TakeLock
<1>5. CASE Count(r)
  BY <1>5 DEF Count
<1>6. CASE Handle(r)
  BY <1>6 DEF Handle
<1>7. CASE Unlock(r)
  BY <1>7 DEF Unlock
<1>8. CASE Store(r)
  BY <1>8 DEF Store
<1>9. CASE RedisError(r)
  BY <1>9 DEF RedisError
<1>10. CASE Crash(r)
  BY <1>10 DEF Crash
<1> QED
  BY <1>1, <1>2, <1>3, <1>4, <1>5, <1>6, <1>7, <1>8, <1>9, <1>10 DEF Acts, Serve

LEMMA KeepsPlacedOver ==
  ASSUME GatewayTyped, Passes
  PROVE  Placed'
<1> USE GatewayAssumption
    DEF GatewayTyped, GatewayTypeOK, Placed, Stage, Answer, Cacheable, Attempt, Moves,
        Answers, storeVars, limitVars, faultVars
<1>1. CASE NextWindow
  BY <1>1 DEF NextWindow
<1>2. CASE ExpireLock
  BY <1>2 DEF ExpireLock
<1>3. CASE ExpireAnswer
  BY <1>3 DEF ExpireAnswer
<1>4. CASE Outage
  BY <1>4 DEF Outage
<1>5. CASE Recover
  BY <1>5 DEF Recover
<1> QED
  BY <1>1, <1>2, <1>3, <1>4, <1>5 DEF Passes

LEMMA KeepsLocked ==
  ASSUME GatewayTyped, LockHeld, NEW r \in Attempt, Acts(r)
  PROVE  LockHeld'
<1> USE GatewayAssumption
    DEF GatewayTyped, GatewayTypeOK, Placed, LockHeld, Holding, Stage, Answer, Cacheable,
        Attempt, Moves, Answers, storeVars, limitVars, faultVars
<1>1. CASE Send(r)
  BY <1>1 DEF Send
<1>2. CASE PassBy(r)
  BY <1>2 DEF PassBy
<1>3. CASE Lookup(r)
  BY <1>3 DEF Lookup
<1>4. CASE TakeLock(r)
  BY <1>4 DEF TakeLock
<1>5. CASE Count(r)
  BY <1>5 DEF Count
<1>6. CASE Handle(r)
  BY <1>6 DEF Handle
<1>7. CASE Unlock(r)
  BY <1>7 DEF Unlock
<1>8. CASE Store(r)
  BY <1>8 DEF Store
<1>9. CASE RedisError(r)
  BY <1>9 DEF RedisError
<1>10. CASE Crash(r)
  BY <1>10 DEF Crash
<1> QED
  BY <1>1, <1>2, <1>3, <1>4, <1>5, <1>6, <1>7, <1>8, <1>9, <1>10 DEF Acts, Serve

LEMMA KeepsLockedOver ==
  ASSUME GatewayTyped, LockHeld, Passes
  PROVE  LockHeld'
<1> USE GatewayAssumption
    DEF GatewayTyped, GatewayTypeOK, Placed, LockHeld, Holding, Stage, Answer, Cacheable,
        Attempt, Moves, Answers, storeVars, limitVars, faultVars
<1>1. CASE NextWindow
  BY <1>1 DEF NextWindow
<1>2. CASE ExpireLock
  BY <1>2 DEF ExpireLock
<1>3. CASE ExpireAnswer
  BY <1>3 DEF ExpireAnswer
<1>4. CASE Outage
  BY <1>4 DEF Outage
<1>5. CASE Recover
  BY <1>5 DEF Recover
<1> QED
  BY <1>1, <1>2, <1>3, <1>4, <1>5 DEF Passes

LEMMA KeepsCounted ==
  ASSUME GatewayTyped, Counted, NEW r \in Attempt, Acts(r)
  PROVE  Counted'
<1> USE GatewayAssumption
    DEF GatewayTyped, GatewayTypeOK, Counted, OverLimit, Stage, Answer, Cacheable, Attempt,
        Moves, Answers, storeVars, limitVars, faultVars
<1>1. CASE Send(r)
  BY <1>1 DEF Send
<1>2. CASE PassBy(r)
  BY <1>2 DEF PassBy
<1>3. CASE Lookup(r)
  BY <1>3 DEF Lookup
<1>4. CASE TakeLock(r)
  BY <1>4 DEF TakeLock
<1>5. CASE Count(r)
  BY <1>5 DEF Count
<1>6. CASE Handle(r)
  BY <1>6 DEF Handle
<1>7. CASE Unlock(r)
  BY <1>7 DEF Unlock
<1>8. CASE Store(r)
  BY <1>8 DEF Store
<1>9. CASE RedisError(r)
  BY <1>9 DEF RedisError
<1>10. CASE Crash(r)
  BY <1>10 DEF Crash
<1> QED
  BY <1>1, <1>2, <1>3, <1>4, <1>5, <1>6, <1>7, <1>8, <1>9, <1>10 DEF Acts, Serve

LEMMA KeepsCountedOver ==
  ASSUME GatewayTyped, Counted, Passes
  PROVE  Counted'
<1> USE GatewayAssumption
    DEF GatewayTyped, GatewayTypeOK, Counted, OverLimit, Stage, Answer, Cacheable, Attempt,
        Moves, Answers, storeVars, limitVars, faultVars
<1>1. CASE NextWindow
  BY <1>1 DEF NextWindow
<1>2. CASE ExpireLock
  BY <1>2 DEF ExpireLock
<1>3. CASE ExpireAnswer
  BY <1>3 DEF ExpireAnswer
<1>4. CASE Outage
  BY <1>4 DEF Outage
<1>5. CASE Recover
  BY <1>5 DEF Recover
<1> QED
  BY <1>1, <1>2, <1>3, <1>4, <1>5 DEF Passes

LEMMA KeepsEffective ==
  ASSUME GatewayTyped, Effective, NEW r \in Attempt, Acts(r)
  PROVE  Effective'
<1> USE GatewayAssumption
    DEF GatewayTyped, GatewayTypeOK, Placed, Effective, Stage, Answer, Cacheable, Attempt,
        Moves, Answers, storeVars, limitVars, faultVars
<1>1. CASE Send(r)
  BY <1>1 DEF Send
<1>2. CASE PassBy(r)
  BY <1>2 DEF PassBy
<1>3. CASE Lookup(r)
  BY <1>3 DEF Lookup
<1>4. CASE TakeLock(r)
  BY <1>4 DEF TakeLock
<1>5. CASE Count(r)
  BY <1>5 DEF Count
<1>6. CASE Handle(r)
  BY <1>6 DEF Handle
<1>7. CASE Unlock(r)
  BY <1>7 DEF Unlock
<1>8. CASE Store(r)
  BY <1>8 DEF Store
<1>9. CASE RedisError(r)
  BY <1>9 DEF RedisError
<1>10. CASE Crash(r)
  BY <1>10 DEF Crash
<1> QED
  BY <1>1, <1>2, <1>3, <1>4, <1>5, <1>6, <1>7, <1>8, <1>9, <1>10 DEF Acts, Serve

LEMMA KeepsEffectiveOver ==
  ASSUME GatewayTyped, Effective, Passes
  PROVE  Effective'
<1> USE GatewayAssumption
    DEF GatewayTyped, GatewayTypeOK, Placed, Effective, Stage, Answer, Cacheable, Attempt,
        Moves, Answers, storeVars, limitVars, faultVars
<1>1. CASE NextWindow
  BY <1>1 DEF NextWindow
<1>2. CASE ExpireLock
  BY <1>2 DEF ExpireLock
<1>3. CASE ExpireAnswer
  BY <1>3 DEF ExpireAnswer
<1>4. CASE Outage
  BY <1>4 DEF Outage
<1>5. CASE Recover
  BY <1>5 DEF Recover
<1> QED
  BY <1>1, <1>2, <1>3, <1>4, <1>5 DEF Passes

LEMMA KeepsSerial ==
  ASSUME GatewayTyped, Serial, NEW r \in Attempt, Acts(r)
  PROVE  Serial'
<1> USE GatewayAssumption
    DEF GatewayTyped, GatewayTypeOK, Placed, Serial, CarriedOut, Holding, InFlight, Stage,
        Answer, Cacheable, Attempt, Moves, Answers, storeVars, limitVars, faultVars
<1>1. CASE Send(r)
  <2>1. CASE r \in Unkeyed
    BY <1>1, <2>1 DEF Send
  <2>2. CASE r \in Keyed /\ ~trouble'
    <3>1. \A q \in Keyed : q \notin InFlight
      BY <1>1, <2>2 DEF Send
    <3>. QED
      BY <1>1, <2>2, <3>1 DEF Send
  <2>3. CASE trouble'
    BY <2>3
  <2>. QED
    BY <2>1, <2>2, <2>3
<1>2. CASE PassBy(r)
  BY <1>2 DEF PassBy
<1>3. CASE Lookup(r)
  BY <1>3 DEF Lookup
<1>4. CASE TakeLock(r)
  BY <1>4 DEF TakeLock
<1>5. CASE Count(r)
  BY <1>5 DEF Count
<1>6. CASE Handle(r)
  BY <1>6 DEF Handle
<1>7. CASE Unlock(r)
  <2>1. CASE r \notin Keyed
    BY <2>1, <1>7 DEF Unlock
  <2> SUFFICES ASSUME r \in Keyed, ~trouble
               PROVE  Serial'
    BY <2>1, <1>7 DEF Unlock
  <2>2. \A q \in Attempt \ {r} : stage'[q] = stage[q]
    BY <1>7 DEF Unlock
  <2>3. stage'[r] = IF answer[r] \in Cacheable THEN "unlocked" ELSE "answered"
    BY <1>7 DEF Unlock
  <2>4. UNCHANGED <<answer, cached, redis, effects, trouble>> /\ lock' = Free /\ stage[r] = "done"
    BY <1>7 DEF Unlock
  <2>5. \A q \in Keyed \ {r} : stage[q] \in {"unsent", "answered"}
    BY <2>4 DEF Unlock
  <2>6. cached = "none"
    BY <2>4
  <2>7. CarriedOut <=> answer[r] = "ok"
    BY <2>4, <2>5, <2>6
  <2>8. CarriedOut' <=> answer[r] = "ok"
    BY <2>2, <2>3, <2>4, <2>5, <2>6
  <2>9. answer[r] \notin Cacheable => answer[r] = "failed"
    BY <2>4
  <2> HIDE DEF CarriedOut
  <2> QED
    BY <2>2, <2>3, <2>4, <2>5, <2>6, <2>7, <2>8, <2>9
<1>8. CASE Store(r)
  BY <1>8 DEF Store
<1>9. CASE RedisError(r)
  BY <1>9 DEF RedisError
<1>10. CASE Crash(r)
  <2> SUFFICES ASSUME r \notin Keyed, ~trouble
               PROVE  Serial'
    BY <1>10 DEF Crash
  <2>1. \A q \in Keyed : stage'[q] = stage[q]
    BY <1>10 DEF Crash
  <2>2. UNCHANGED <<answer, cached, lock, redis, effects, trouble>>
    BY <1>10 DEF Crash
  <2>3. CarriedOut' <=> CarriedOut
    BY <2>1, <2>2
  <2> HIDE DEF CarriedOut
  <2> QED
    BY <2>1, <2>2, <2>3
<1> QED
  BY <1>1, <1>2, <1>3, <1>4, <1>5, <1>6, <1>7, <1>8, <1>9, <1>10 DEF Acts, Serve

LEMMA KeepsSerialOver ==
  ASSUME GatewayTyped, Serial, Passes
  PROVE  Serial'
<1> USE GatewayAssumption
    DEF GatewayTyped, GatewayTypeOK, Placed, Serial, CarriedOut, Holding, InFlight, Stage,
        Answer, Cacheable, Attempt, Moves, Answers, storeVars, limitVars, faultVars
<1>1. CASE NextWindow
  BY <1>1 DEF NextWindow
<1>2. CASE ExpireLock
  BY <1>2 DEF ExpireLock
<1>3. CASE ExpireAnswer
  BY <1>3 DEF ExpireAnswer
<1>4. CASE Outage
  BY <1>4 DEF Outage
<1>5. CASE Recover
  BY <1>5 DEF Recover
<1> QED
  BY <1>1, <1>2, <1>3, <1>4, <1>5 DEF Passes

LEMMA GatewayStepHolds == GatewayInv /\ [GatewayNext]_gatewayVars => GatewayInv'
<1> SUFFICES ASSUME GatewayInv, [GatewayNext]_gatewayVars PROVE GatewayInv'
  OBVIOUS
<1>1. CASE GatewayNext
  <2>1. GatewayTyped /\ LockHeld /\ Counted /\ Effective /\ Serial
    BY DEF GatewayInv
  <2>2. ASSUME NEW r \in Attempt, Acts(r) PROVE GatewayInv'
    BY <2>1, <2>2, GatewayKeepsTypes, KeepsPlaced, KeepsLocked, KeepsCounted, KeepsEffective,
       KeepsSerial
       DEF GatewayInv, GatewayTyped
  <2>3. ASSUME Passes PROVE GatewayInv'
    BY <2>1, <2>3, KeepsTypesOver, KeepsPlacedOver, KeepsLockedOver, KeepsCountedOver,
       KeepsEffectiveOver, KeepsSerialOver
       DEF GatewayInv, GatewayTyped
  <2> QED
    BY <1>1, <2>2, <2>3, NextIsOneOf
<1>2. CASE UNCHANGED gatewayVars
  <2>1. UNCHANGED <<stage, answer, cached, lock, redis, window, count, effects, crashes, outages,
                    admitted, refused, outran, trouble>>
    BY <1>2 DEF gatewayVars, storeVars, limitVars, faultVars
  <2>2. UNCHANGED <<InFlight, Holding>> /\ (CarriedOut' <=> CarriedOut)
    BY <2>1 DEF InFlight, Holding, CarriedOut
  <2>3. GatewayTyped' /\ LockHeld' /\ Counted' /\ Effective'
    BY <2>1, <2>2 DEF GatewayInv, GatewayTyped, GatewayTypeOK, Placed, LockHeld, Counted, Effective
  <2>4. Serial'
    BY <2>1, <2>2 DEF GatewayInv, Serial
  <2> QED
    BY <2>3, <2>4 DEF GatewayInv
<1> QED
  BY <1>1, <1>2

LEMMA GatewayInvariance == GatewaySpec => []GatewayInv
BY GatewayInitHolds, GatewayStepHolds, PTL DEF GatewaySpec

-----------------------------------------------------------------------------
(* Theorems.                                                                *)

\* The requests, the keys in Redis and the counters keep their types; what is
\* stored is never a failure.
THEOREM GatewayTypeCorrect == GatewaySpec => []GatewayTypeOK
<1>1. GatewayInv => GatewayTypeOK
  BY DEF GatewayInv, GatewayTyped
<1> QED
  BY <1>1, GatewayInvariance, PTL

\* However many requests, processes and faults: two requests with one key are
\* behind the lock together only after a request has outlived its lock.
THEOREM LockExcludes == GatewaySpec => []OneAtATime
<1>1. ASSUME GatewayInv PROVE OneAtATime
  <2> SUFFICES ASSUME ~outran PROVE Cardinality(Holding) <= 1
    BY DEF OneAtATime
  <2>1. Holding \subseteq {lock}
    BY <1>1 DEF GatewayInv, LockHeld
  <2>2. Holding = {} \/ Holding = {lock}
    BY <2>1
  <2>3. Cardinality({}) = 0 /\ Cardinality({lock}) = 1
    BY FS_EmptySet, FS_Singleton
  <2> QED
    BY <2>2, <2>3
<1> QED
  BY <1>1, GatewayInvariance, PTL

\* For any number of repeats, each sent when the one before is answered: without
\* a fault the operation is carried out once at most, all answers but failures
\* agree, and a success is never made up.
THEOREM RepeatsRunOnce == GatewaySpec => []RepeatsAgree
<1>1. ASSUME GatewayInv PROVE RepeatsAgree
  <2>1. (\E r \in Keyed : stage[r] = "answered" /\ answer[r] = "ok") => effects >= 1
    BY <1>1 DEF GatewayInv, Effective
  <2>2. ~trouble => effects <= 1
    BY <1>1 DEF GatewayInv, Serial
  <2>3. ASSUME ~trouble, NEW r \in Keyed, NEW s \in Keyed,
               stage[r] = "answered", stage[s] = "answered"
        PROVE  answer[r] = answer[s] \/ "failed" \in {answer[r], answer[s]}
    BY <1>1, <2>3 DEF GatewayInv, Serial
  <2> QED
    BY <2>1, <2>2, <2>3 DEF RepeatsAgree
<1> QED
  BY <1>1, GatewayInvariance, PTL

\* For any limit and any number of clients' requests: never more than the limit
\* in a window, and nobody refused before.
THEOREM LimitIsExact == GatewaySpec => []WindowIsFair
<1>1. ASSUME GatewayInv PROVE WindowIsFair
  <2>1. count \in Nat /\ Limit \in Nat
    BY <1>1, GatewayAssumption DEF GatewayInv, GatewayTyped, GatewayTypeOK
  <2> QED
    BY <1>1, <2>1 DEF GatewayInv, Counted, WindowIsFair
<1> QED
  BY <1>1, GatewayInvariance, PTL

-----------------------------------------------------------------------------
(* Identity.                                                                *)

\* What a request has read is still there.
Fits ==
  \A r \in Request :
    /\ request[r].op = "rotate" => sessions[request[r].session] # None
    /\ request[r].op = "issue" /\ request[r].parent # NoSession =>
         sessions[request[r].parent] # None
    /\ request[r].op = "accept" =>
         /\ invitations[request[r].invitation] # None
         /\ invitations[request[r].invitation].user = request[r].user
    /\ request[r].op \in {"reset", "revoke"} => resets[request[r].token] # None
    /\ request[r].op = "revoke" => request[r].hit \subseteq Of(request[r].user)

\* Whoever was invited and joined did so with one invitation.
Joined ==
  \A e \in Email \ {Founder} :
    IF users[e] = "none" THEN Accepted(e) = {} ELSE \E i \in InvitationId : Accepted(e) = {i}

Rotates(r, s) == r \notin raced /\ request[r].op = "rotate" /\ request[r].session = s

Succeeds(r, s) == r \notin raced /\ request[r].op = "issue" /\ request[r].parent = s

\* The request that is about to issue the successor of a session is alone with
\* it, the session is dead by then, and it has no successor yet.
UsedOnce ==
  \A s \in SessionId :
    /\ sessions[s] # None => sessions[s].uses <= 1
    /\ s \in Live =>
         sessions[s].uses = 0 /\ \A r \in Request : ~Succeeds(r, s)
    /\ sessions[s] # None /\ sessions[s].uses >= 1 =>
         \A r \in Request : ~Rotates(r, s) /\ ~Succeeds(r, s)
    /\ \A r, q \in Request :
         Succeeds(r, s) /\ q # r => ~Rotates(q, s) /\ ~Succeeds(q, s)

\* A reset is about to revoke all sessions of the user that it has not missed.
Seen ==
  \A r \in Request :
    request[r].op = "revoke" => Of(request[r].user) \cap Live \subseteq request[r].hit \cup late

\* What stems from before a revocation was being issued at the time.
OldIsLate == old \subseteq late

Typed == TypeOK /\ Fits

IdentityInv == Typed /\ Joined /\ UsedOnce /\ Seen /\ OldIsLate

LEMMA InitHolds == Init => IdentityInv
<1> SUFFICES ASSUME Init PROVE IdentityInv
  OBVIOUS
<1>1. \A e \in Email : Accepted(e) = {}
  BY DEF Init, Accepted, None
<1>2. Live = {}
  BY DEF Init, Live, None
<1>3. TypeOK
  BY <1>1, FS_EmptySet DEF Init, TypeOK, None, Idle
<1>4. Fits /\ Seen /\ UsedOnce /\ OldIsLate
  BY <1>2 DEF Init, Fits, Seen, UsedOnce, OldIsLate, Succeeds, Rotates, None, Idle
<1>5. Joined
  BY <1>1 DEF Init, Joined
<1> QED
  BY <1>3, <1>4, <1>5 DEF IdentityInv, Typed

\* To revoke sessions that are there takes no row away and none from its user.
LEMMA KillingKeepsRows ==
  ASSUME Typed, NEW hit, \A s \in hit : s \in SessionId /\ sessions[s] # None, sessions' = Killed(hit)
  PROVE  /\ \A s \in SessionId : sessions'[s] # None <=> sessions[s] # None
         /\ \A s \in SessionId : sessions[s] # None =>
              /\ sessions'[s].user = sessions[s].user
              /\ sessions'[s].uses = sessions[s].uses
              /\ sessions'[s].state = IF s \in hit THEN "dead" ELSE sessions[s].state
         /\ sessions' \in [SessionId -> {None} \cup
              [state : {"live", "dead"}, user : Email, uses : 0..Cardinality(SessionId)]]
         /\ \A e \in Email : Of(e)' = Of(e)
         /\ Live' = Live \ hit
<1>1. sessions \in [SessionId -> {None} \cup
        [state : {"live", "dead"}, user : Email, uses : 0..Cardinality(SessionId)]]
  BY DEF Typed, TypeOK
<1>2. ASSUME NEW s \in SessionId, sessions[s] # None
      PROVE  /\ sessions'[s] # None
             /\ sessions'[s].user = sessions[s].user
             /\ sessions'[s].uses = sessions[s].uses
             /\ sessions'[s].state = IF s \in hit THEN "dead" ELSE sessions[s].state
             /\ sessions'[s] \in [state : {"live", "dead"}, user : Email, uses : 0..Cardinality(SessionId)]
  BY <1>1, <1>2 DEF Killed, None
<1>3. ASSUME NEW s \in SessionId, sessions[s] = None PROVE sessions'[s] = None
  BY <1>3 DEF Killed
<1>4. DOMAIN sessions' = SessionId /\ sessions' = [s \in SessionId |-> sessions'[s]]
  BY DEF Killed
<1>5. \A e \in Email : Of(e)' = Of(e)
  BY <1>2, <1>3 DEF Of
<1>6. Live' = Live \ hit
  BY <1>2, <1>3 DEF Live, None
<1> QED
  BY <1>2, <1>3, <1>4, <1>5, <1>6

LEMMA RowTypes ==
  ASSUME TypeOK, NEW r \in Request
  PROVE  /\ request[r] # Idle => request[r].user \in Email
         /\ request[r].op = "rotate" => request[r].session \in SessionId
         /\ request[r].op = "issue" => request[r].parent \in SessionId \cup {NoSession}
         /\ request[r].op = "accept" => request[r].invitation \in InvitationId
         /\ request[r].op \in {"reset", "revoke"} => request[r].token \in ResetId
         /\ request[r].op = "revoke" => request[r].hit \subseteq SessionId
         /\ request[r].op \in {"none", "rotate", "issue", "accept", "reset", "revoke"}
BY DEF TypeOK, RequestRow, Idle

LEMMA KeepsFits ==
  ASSUME Typed, Next
  PROVE  Fits'
<1> USE IdentityAssumption
    DEF Typed, TypeOK, accountVars, historyVars, Opens, Closes, Continues, Issue, Idle, None,
        Killed, Forget, Live, Of, RequestRow, Active, Fits
<1>1. ASSUME NEW i \in InvitationId, NEW e \in Email, InviteUser(i, e) PROVE Fits'
  BY <1>1 DEF InviteUser
<1>2. ASSUME NEW e \in Email, NEW state \in {"active", "inactive"}, SetActive(e, state) PROVE Fits'
  BY <1>2 DEF SetActive
<1>3. ASSUME NEW s \in SessionId, EndSession(s) PROVE Fits'
  BY <1>3 DEF EndSession
<1>4. ASSUME NEW t \in ResetId, NEW e \in Email, ForgotPassword(t, e) PROVE Fits'
  BY <1>4 DEF ForgotPassword
<1>5. ASSUME NEW r \in Request, Register(r) PROVE Fits'
  BY <1>5 DEF Register
<1>6. ASSUME NEW r \in Request, NEW i \in InvitationId, AcceptInvite(r, i) PROVE Fits'
  BY <1>6 DEF AcceptInvite
<1>7. ASSUME NEW r \in Request, Join(r) PROVE Fits'
  <2>1. request[r].op = "accept" /\ UNCHANGED <<sessions, resets>>
    BY <1>7 DEF Join
  <2>2. request[r].invitation \in InvitationId /\ invitations[request[r].invitation] # None
    BY <2>1, RowTypes
  <2>3. \A i \in InvitationId : invitations[i] # None =>
          invitations'[i] # None /\ invitations'[i].user = invitations[i].user
    BY <1>7, <2>2 DEF Join
  <2>4. \A q \in Request \ {r} : request'[q] = request[q]
    BY <1>7 DEF Join
  <2>5. request'[r] = Idle \/ request'[r] = Issue(request[r].user, NoSession)
    BY <1>7 DEF Join
  <2>6. \A q \in Request : request[q].op = "accept" => request[q].invitation \in InvitationId
    BY RowTypes
  <2>7. \A e : Of(e)' = Of(e)
    BY <2>1
  <2> HIDE DEF Of, TypeOK
  <2> QED
    BY <2>1, <2>3, <2>4, <2>5, <2>6, <2>7
<1>8. ASSUME NEW r \in Request, NEW e \in Email, Login(r, e) PROVE Fits'
  BY <1>8 DEF Login
<1>9. ASSUME NEW r \in Request, NEW s \in SessionId, RotateRefresh(r, s) PROVE Fits'
  BY <1>9 DEF RotateRefresh
<1>10. ASSUME NEW r \in Request, NEW s \in SessionId, DetectReuse(r, s) PROVE Fits'
  <2>1. sessions' = Killed(Of(sessions[s].user))
    BY <1>10 DEF DetectReuse, RevokedAll
  <2>2. /\ \A x \in SessionId : sessions'[x] # None <=> sessions[x] # None
        /\ \A e \in Email : Of(e)' = Of(e)
    BY <2>1, KillingKeepsRows DEF Of
  <2>3. UNCHANGED <<users, invitations, resets, request>>
    BY <1>10 DEF DetectReuse
  <2> HIDE DEF Of, Killed
  <2> QED
    BY <2>2, <2>3
<1>11. ASSUME NEW r \in Request, RevokeParent(r) PROVE Fits'
  BY <1>11 DEF RevokeParent
<1>12. ASSUME NEW r \in Request, IssueTokens(r) PROVE Fits'
  BY <1>12 DEF IssueTokens
<1>13. ASSUME NEW r \in Request, NEW t \in ResetId, ResetPassword(r, t) PROVE Fits'
  BY <1>13 DEF ResetPassword
<1>14. ASSUME NEW r \in Request, UpdateSessions(r) PROVE Fits'
  BY <1>14 DEF UpdateSessions
<1>15. ASSUME NEW r \in Request, CommitReset(r) PROVE Fits'
  <2>1. sessions' = Killed(request[r].hit) /\ request[r].op = "revoke"
    BY <1>15 DEF CommitReset, RevokedAll
  <2>2. \A x \in request[r].hit : x \in SessionId /\ sessions[x] # None
    BY <2>1
  <2>3. /\ \A x \in SessionId : sessions'[x] # None <=> sessions[x] # None
        /\ \A e \in Email : Of(e)' = Of(e)
    BY <2>1, <2>2, KillingKeepsRows
  <2>4. /\ UNCHANGED <<users, invitations>>
        /\ request' = [request EXCEPT ![r] = Idle]
        /\ resets' = [resets EXCEPT ![request[r].token].state = "closed"]
    BY <1>15 DEF CommitReset
  <2>5. \A t \in ResetId : resets[t] # None => resets'[t] # None
    BY <2>4
  <2> HIDE DEF Of, Killed
  <2> QED
    BY <2>3, <2>4, <2>5
<1>16. ASSUME NEW r \in Request, Die(r) PROVE Fits'
  BY <1>16 DEF Die
<1> HIDE DEF Typed, TypeOK, accountVars, historyVars, Opens, Closes, Continues, Issue, Idle,
             None, Killed, Forget, Live, Of, RequestRow, Active, Fits
<1> QED
  BY <1>1, <1>2, <1>3, <1>4, <1>5, <1>6, <1>7, <1>8, <1>9, <1>10, <1>11, <1>12, <1>13, <1>14,
     <1>15, <1>16
     DEF Next, AccountStep, TokenStep, JoinStep, SessionStep, ResetStep

LEMMA KeepsJoined ==
  ASSUME Typed, Joined, Next
  PROVE  Joined'
<1> USE IdentityAssumption
    DEF Typed, TypeOK, accountVars, historyVars, Opens, Closes, Continues, Issue, Idle, None,
        Killed, Forget, Live, Of, RequestRow, Active, Fits, Joined, Accepted
<1>1. ASSUME NEW i \in InvitationId, NEW e \in Email, InviteUser(i, e) PROVE Joined'
  BY <1>1 DEF InviteUser
<1>2. ASSUME NEW e \in Email, NEW state \in {"active", "inactive"}, SetActive(e, state) PROVE Joined'
  BY <1>2 DEF SetActive
<1>3. ASSUME NEW s \in SessionId, EndSession(s) PROVE Joined'
  BY <1>3 DEF EndSession
<1>4. ASSUME NEW t \in ResetId, NEW e \in Email, ForgotPassword(t, e) PROVE Joined'
  BY <1>4 DEF ForgotPassword
<1>5. ASSUME NEW r \in Request, Register(r) PROVE Joined'
  BY <1>5 DEF Register
<1>6. ASSUME NEW r \in Request, NEW i \in InvitationId, AcceptInvite(r, i) PROVE Joined'
  BY <1>6 DEF AcceptInvite
<1>7. ASSUME NEW r \in Request, Join(r) PROVE Joined'
  <2>1. PICK e, i : e = request[r].user /\ i = request[r].invitation
    OBVIOUS
  <2>2. request[r].op = "accept" /\ e \in Email /\ i \in InvitationId
    BY <1>7, <2>1, RowTypes DEF Join
  <2>3. invitations[i] # None /\ invitations[i].user = e
    BY <2>1, <2>2
  <2>4. CASE users[e] = "none"
    <3>1. users' = [users EXCEPT ![e] = "active"]
      BY <1>7, <2>1, <2>4 DEF Join
    <3>2. invitations' = [invitations EXCEPT ![i].state = "accepted"]
      BY <1>7, <2>1, <2>4 DEF Join
    <3>3. invitations'[i].state = "accepted" /\ invitations'[i].user = e
      BY <2>2, <2>3, <3>2
    <3>4. \A j \in InvitationId \ {i} : invitations'[j] = invitations[j]
      BY <3>2
    <3>5. e # Founder => Accepted(e)' = {i}
      BY <2>2, <2>4, <3>3, <3>4
    <3>6. \A x \in Email \ {e} : Accepted(x)' = Accepted(x)
      BY <2>3, <3>3, <3>4
    <3>7. \A x \in Email \ {e} : users'[x] = users[x]
      BY <3>1
    <3>8. users'[e] = "active"
      BY <2>2, <3>1
    <3> HIDE DEF Accepted
    <3> QED
      BY <2>2, <3>5, <3>6, <3>7, <3>8
  <2>5. CASE users[e] # "none"
    <3>1. UNCHANGED <<users, invitations>>
      BY <1>7, <2>1, <2>5 DEF Join
    <3> QED
      BY <3>1
  <2> QED
    BY <2>4, <2>5
<1>8. ASSUME NEW r \in Request, NEW e \in Email, Login(r, e) PROVE Joined'
  BY <1>8 DEF Login
<1>9. ASSUME NEW r \in Request, NEW s \in SessionId, RotateRefresh(r, s) PROVE Joined'
  BY <1>9 DEF RotateRefresh
<1>10. ASSUME NEW r \in Request, NEW s \in SessionId, DetectReuse(r, s) PROVE Joined'
  BY <1>10 DEF DetectReuse
<1>11. ASSUME NEW r \in Request, RevokeParent(r) PROVE Joined'
  BY <1>11 DEF RevokeParent
<1>12. ASSUME NEW r \in Request, IssueTokens(r) PROVE Joined'
  BY <1>12 DEF IssueTokens
<1>13. ASSUME NEW r \in Request, NEW t \in ResetId, ResetPassword(r, t) PROVE Joined'
  BY <1>13 DEF ResetPassword
<1>14. ASSUME NEW r \in Request, UpdateSessions(r) PROVE Joined'
  BY <1>14 DEF UpdateSessions
<1>15. ASSUME NEW r \in Request, CommitReset(r) PROVE Joined'
  BY <1>15 DEF CommitReset
<1>16. ASSUME NEW r \in Request, Die(r) PROVE Joined'
  BY <1>16 DEF Die
<1> HIDE DEF Typed, TypeOK, accountVars, historyVars, Opens, Closes, Continues, Issue, Idle,
             None, Killed, Forget, Live, Of, RequestRow, Active, Fits, Joined, Accepted
<1> QED
  BY <1>1, <1>2, <1>3, <1>4, <1>5, <1>6, <1>7, <1>8, <1>9, <1>10, <1>11, <1>12, <1>13, <1>14,
     <1>15, <1>16
     DEF Next, AccountStep, TokenStep, JoinStep, SessionStep, ResetStep

LEMMA KeepsSeen ==
  ASSUME Typed, Seen, Next
  PROVE  Seen'
<1> USE IdentityAssumption
    DEF Typed, TypeOK, accountVars, historyVars, Opens, Closes, Continues, Issue, Idle, None,
        Killed, Forget, Live, Of, RequestRow, Active, Fits, Seen, Others, RevokedAll
<1>1. ASSUME NEW i \in InvitationId, NEW e \in Email, InviteUser(i, e) PROVE Seen'
  BY <1>1 DEF InviteUser
<1>2. ASSUME NEW e \in Email, NEW state \in {"active", "inactive"}, SetActive(e, state) PROVE Seen'
  BY <1>2 DEF SetActive
<1>3. ASSUME NEW s \in SessionId, EndSession(s) PROVE Seen'
  BY <1>3 DEF EndSession
<1>4. ASSUME NEW t \in ResetId, NEW e \in Email, ForgotPassword(t, e) PROVE Seen'
  BY <1>4 DEF ForgotPassword
<1>5. ASSUME NEW r \in Request, Register(r) PROVE Seen'
  BY <1>5 DEF Register
<1>6. ASSUME NEW r \in Request, NEW i \in InvitationId, AcceptInvite(r, i) PROVE Seen'
  BY <1>6 DEF AcceptInvite
<1>7. ASSUME NEW r \in Request, Join(r) PROVE Seen'
  BY <1>7 DEF Join
<1>8. ASSUME NEW r \in Request, NEW e \in Email, Login(r, e) PROVE Seen'
  BY <1>8 DEF Login
<1>9. ASSUME NEW r \in Request, NEW s \in SessionId, RotateRefresh(r, s) PROVE Seen'
  BY <1>9 DEF RotateRefresh
<1>10. ASSUME NEW r \in Request, NEW s \in SessionId, DetectReuse(r, s) PROVE Seen'
  BY <1>10 DEF DetectReuse
<1>11. ASSUME NEW r \in Request, RevokeParent(r) PROVE Seen'
  BY <1>11 DEF RevokeParent
<1>12. ASSUME NEW r \in Request, IssueTokens(r) PROVE Seen'
  BY <1>12 DEF IssueTokens
<1>13. ASSUME NEW r \in Request, NEW t \in ResetId, ResetPassword(r, t) PROVE Seen'
  BY <1>13 DEF ResetPassword
<1>14. ASSUME NEW r \in Request, UpdateSessions(r) PROVE Seen'
  BY <1>14 DEF UpdateSessions
<1>15. ASSUME NEW r \in Request, CommitReset(r) PROVE Seen'
  BY <1>15 DEF CommitReset
<1>16. ASSUME NEW r \in Request, Die(r) PROVE Seen'
  BY <1>16 DEF Die
<1> HIDE DEF Typed, TypeOK, accountVars, historyVars, Opens, Closes, Continues, Issue, Idle,
             None, Killed, Forget, Live, Of, RequestRow, Active, Fits, Seen, Others, RevokedAll
<1> QED
  BY <1>1, <1>2, <1>3, <1>4, <1>5, <1>6, <1>7, <1>8, <1>9, <1>10, <1>11, <1>12, <1>13, <1>14,
     <1>15, <1>16
     DEF Next, AccountStep, TokenStep, JoinStep, SessionStep, ResetStep

LEMMA KeepsOldIsLate ==
  ASSUME Typed, Seen, OldIsLate, Next
  PROVE  OldIsLate'
<1> USE IdentityAssumption
    DEF Typed, TypeOK, accountVars, historyVars, Opens, Closes, Continues, Issue, Idle, None,
        Killed, Forget, Live, Of, RequestRow, Active, Fits, Seen, Others, RevokedAll, OldIsLate
<1>1. ASSUME NEW i \in InvitationId, NEW e \in Email, InviteUser(i, e) PROVE OldIsLate'
  BY <1>1 DEF InviteUser
<1>2. ASSUME NEW e \in Email, NEW state \in {"active", "inactive"}, SetActive(e, state) PROVE OldIsLate'
  BY <1>2 DEF SetActive
<1>3. ASSUME NEW s \in SessionId, EndSession(s) PROVE OldIsLate'
  BY <1>3 DEF EndSession
<1>4. ASSUME NEW t \in ResetId, NEW e \in Email, ForgotPassword(t, e) PROVE OldIsLate'
  BY <1>4 DEF ForgotPassword
<1>5. ASSUME NEW r \in Request, Register(r) PROVE OldIsLate'
  BY <1>5 DEF Register
<1>6. ASSUME NEW r \in Request, NEW i \in InvitationId, AcceptInvite(r, i) PROVE OldIsLate'
  BY <1>6 DEF AcceptInvite
<1>7. ASSUME NEW r \in Request, Join(r) PROVE OldIsLate'
  BY <1>7 DEF Join
<1>8. ASSUME NEW r \in Request, NEW e \in Email, Login(r, e) PROVE OldIsLate'
  BY <1>8 DEF Login
<1>9. ASSUME NEW r \in Request, NEW s \in SessionId, RotateRefresh(r, s) PROVE OldIsLate'
  BY <1>9 DEF RotateRefresh
<1>10. ASSUME NEW r \in Request, NEW s \in SessionId, DetectReuse(r, s) PROVE OldIsLate'
  BY <1>10 DEF DetectReuse
<1>11. ASSUME NEW r \in Request, RevokeParent(r) PROVE OldIsLate'
  BY <1>11 DEF RevokeParent
<1>12. ASSUME NEW r \in Request, IssueTokens(r) PROVE OldIsLate'
  BY <1>12 DEF IssueTokens
<1>13. ASSUME NEW r \in Request, NEW t \in ResetId, ResetPassword(r, t) PROVE OldIsLate'
  BY <1>13 DEF ResetPassword
<1>14. ASSUME NEW r \in Request, UpdateSessions(r) PROVE OldIsLate'
  BY <1>14 DEF UpdateSessions
<1>15. ASSUME NEW r \in Request, CommitReset(r) PROVE OldIsLate'
  BY <1>15 DEF CommitReset
<1>16. ASSUME NEW r \in Request, Die(r) PROVE OldIsLate'
  BY <1>16 DEF Die
<1> HIDE DEF Typed, TypeOK, accountVars, historyVars, Opens, Closes, Continues, Issue, Idle,
             None, Killed, Forget, Live, Of, RequestRow, Active, Fits, Seen, Others, RevokedAll, OldIsLate
<1> QED
  BY <1>1, <1>2, <1>3, <1>4, <1>5, <1>6, <1>7, <1>8, <1>9, <1>10, <1>11, <1>12, <1>13, <1>14,
     <1>15, <1>16
     DEF Next, AccountStep, TokenStep, JoinStep, SessionStep, ResetStep

LEMMA KeepsUsedOnce ==
  ASSUME Typed, UsedOnce, Next
  PROVE  UsedOnce'
<1> USE IdentityAssumption
    DEF Typed, TypeOK, accountVars, historyVars, Opens, Closes, Continues, Issue, Idle, None,
        Killed, Forget, Live, Of, RequestRow, Active, Fits, UsedOnce, Rotates, Succeeds,
        RevokedAll, Using
<1>1. ASSUME NEW i \in InvitationId, NEW e \in Email, InviteUser(i, e) PROVE UsedOnce'
  BY <1>1 DEF InviteUser
<1>2. ASSUME NEW e \in Email, NEW state \in {"active", "inactive"}, SetActive(e, state) PROVE UsedOnce'
  BY <1>2 DEF SetActive
<1>3. ASSUME NEW s \in SessionId, EndSession(s) PROVE UsedOnce'
  BY <1>3 DEF EndSession
<1>4. ASSUME NEW t \in ResetId, NEW e \in Email, ForgotPassword(t, e) PROVE UsedOnce'
  BY <1>4 DEF ForgotPassword
<1>5. ASSUME NEW r \in Request, Register(r) PROVE UsedOnce'
  BY <1>5 DEF Register
<1>6. ASSUME NEW r \in Request, NEW i \in InvitationId, AcceptInvite(r, i) PROVE UsedOnce'
  BY <1>6 DEF AcceptInvite
<1>7. ASSUME NEW r \in Request, Join(r) PROVE UsedOnce'
  <2>1. UNCHANGED <<sessions, raced>> /\ Live' = Live
    BY <1>7 DEF Join
  <2>2. \A s \in SessionId, q \in Request :
          /\ Rotates(q, s)' => Rotates(q, s)
          /\ Succeeds(q, s)' => Succeeds(q, s)
    BY <1>7 DEF Join
  <2> HIDE DEF Live, Rotates, Succeeds
  <2> QED
    BY <2>1, <2>2
<1>8. ASSUME NEW r \in Request, NEW e \in Email, Login(r, e) PROVE UsedOnce'
  BY <1>8 DEF Login
<1>9. ASSUME NEW r \in Request, NEW s \in SessionId, RotateRefresh(r, s) PROVE UsedOnce'
  BY <1>9 DEF RotateRefresh
<1>10. ASSUME NEW r \in Request, NEW s \in SessionId, DetectReuse(r, s) PROVE UsedOnce'
  BY <1>10 DEF DetectReuse
<1>11. ASSUME NEW r \in Request, RevokeParent(r) PROVE UsedOnce'
  BY <1>11 DEF RevokeParent
<1>12. ASSUME NEW r \in Request, IssueTokens(r) PROVE UsedOnce'
  <2>1. PICK n \in SessionId :
          /\ sessions[n] = None
          /\ sessions' = [t \in SessionId |->
               IF t = n THEN [state |-> "live", user |-> request[r].user, uses |-> 0]
               ELSE IF t = request[r].parent /\ r \notin raced THEN [sessions[t] EXCEPT !.uses = @ + 1]
               ELSE sessions[t]]
    BY <1>12 DEF IssueTokens
  <2>2. /\ request[r].op = "issue" /\ request' = [request EXCEPT ![r] = Idle]
        /\ raced' = raced \ {r}
    BY <1>12 DEF IssueTokens
  <2>3. request[r].parent # NoSession => request[r].parent \in SessionId /\ sessions[request[r].parent] # None
    BY <2>2, RowTypes
  <2>4. \A s \in SessionId, q \in Request :
          /\ Rotates(q, s)' => Rotates(q, s) /\ q # r
          /\ Succeeds(q, s)' => Succeeds(q, s) /\ q # r
    BY <2>2
  <2>5. \A q \in Request : ~Rotates(q, n) /\ ~Succeeds(q, n)
    BY <2>1
  <2>6. ASSUME NEW s \in SessionId, Succeeds(r, s)
        PROVE  /\ s # n
               /\ sessions[s].uses = 0
               /\ sessions[s] # None /\ s \notin Live
               /\ sessions'[s] # None /\ sessions'[s].uses = 1 /\ sessions'[s].state = "dead"
               /\ \A q \in Request : ~Rotates(q, s)' /\ ~Succeeds(q, s)'
    <3>1. s # n /\ request[r].parent = s /\ r \notin raced /\ sessions[s] # None
      BY <2>1, <2>3, <2>6, <2>5
    <3>2. s \notin Live /\ sessions[s].uses = 0
      BY <2>6, <3>1
    <3>3. \A q \in Request : ~Rotates(q, s)' /\ ~Succeeds(q, s)'
      BY <2>4, <2>6
    <3> QED
      <4>1. sessions[s] \in [state : {"live", "dead"}, user : Email, uses : 0..Cardinality(SessionId)]
        BY <3>1
      <4>2. sessions[s].state = "dead"
        BY <3>2, <4>1
      <4>3. sessions'[s] = [sessions[s] EXCEPT !.uses = @ + 1]
        BY <2>1, <3>1
      <4> QED
        BY <3>1, <3>2, <3>3, <4>1, <4>2, <4>3
  <2>7. ASSUME NEW s \in SessionId, ~Succeeds(r, s), s # n PROVE sessions'[s] = sessions[s]
    BY <2>1, <2>2, <2>7
  <2>8. sessions'[n] = [state |-> "live", user |-> request[r].user, uses |-> 0]
    BY <2>1
  <2>9. \A s \in SessionId : s \in Live' => s = n \/ (s \in Live /\ ~Succeeds(r, s))
    BY <2>6, <2>7
  <2> HIDE DEF Rotates, Succeeds
  <2>10. ASSUME NEW s \in SessionId
         PROVE  /\ sessions'[s] # None => sessions'[s].uses <= 1
                /\ s \in Live' =>
                     sessions'[s].uses = 0 /\ \A q \in Request : ~Succeeds(q, s)'
                /\ sessions'[s] # None /\ sessions'[s].uses >= 1 =>
                     \A q \in Request : ~Rotates(q, s)' /\ ~Succeeds(q, s)'
                /\ \A p, q \in Request :
                     Succeeds(p, s)' /\ q # p => ~Rotates(q, s)' /\ ~Succeeds(q, s)'
    <3>1. CASE s = n
      BY <2>4, <2>5, <2>8, <3>1
    <3>2. CASE Succeeds(r, s)
      <4>1. s \notin Live'
        BY <2>6, <2>9, <3>2
      <4> QED
        BY <2>6, <3>2, <4>1
    <3>3. CASE s # n /\ ~Succeeds(r, s)
      <4>1. sessions'[s] = sessions[s] /\ (s \in Live' => s \in Live)
        BY <2>7, <2>9, <3>3
      <4> HIDE DEF Live
      <4> QED
        BY <2>4, <4>1
    <3> QED
      BY <3>1, <3>2, <3>3
  <2> QED
    BY <2>10
<1>13. ASSUME NEW r \in Request, NEW t \in ResetId, ResetPassword(r, t) PROVE UsedOnce'
  BY <1>13 DEF ResetPassword
<1>14. ASSUME NEW r \in Request, UpdateSessions(r) PROVE UsedOnce'
  BY <1>14 DEF UpdateSessions
<1>15. ASSUME NEW r \in Request, CommitReset(r) PROVE UsedOnce'
  BY <1>15 DEF CommitReset
<1>16. ASSUME NEW r \in Request, Die(r) PROVE UsedOnce'
  BY <1>16 DEF Die
<1> HIDE DEF Typed, TypeOK, accountVars, historyVars, Opens, Closes, Continues, Issue, Idle,
             None, Killed, Forget, Live, Of, RequestRow, Active, Fits, UsedOnce, Rotates, Succeeds,
             RevokedAll, Using
<1> QED
  BY <1>1, <1>2, <1>3, <1>4, <1>5, <1>6, <1>7, <1>8, <1>9, <1>10, <1>11, <1>12, <1>13, <1>14,
     <1>15, <1>16
     DEF Next, AccountStep, TokenStep, JoinStep, SessionStep, ResetStep

TablesTyped ==
  /\ users \in [Email -> {"none", "active", "inactive"}]
  /\ invitations \in [InvitationId -> {None} \cup [state : {"open", "accepted"}, user : Email]]
  /\ resets \in [ResetId -> {None} \cup [state : {"open", "closed"}, user : Email]]

\* Without the bound of the uses, which is a matter of UsedOnce.
SessionsTyped ==
  sessions \in [SessionId -> {None} \cup [state : {"live", "dead"}, user : Email, uses : Nat]]

RequestsTyped ==
  /\ request \in [Request -> {Idle} \cup RequestRow]
  /\ raced \subseteq Request

HistoriesTyped == old \cup late \subseteq Live \cup Request

\* The tables of users, invitations and reset tokens.
LEMMA KeepsTables ==
  ASSUME Typed, Next
  PROVE  TablesTyped'
<1> USE IdentityAssumption
    DEF Typed, TypeOK, accountVars, historyVars, Opens, Closes, Continues, Issue, Idle, None,
        Killed, Forget, Live, Of, RequestRow, Active, Fits, TablesTyped
<1>1. ASSUME NEW i \in InvitationId, NEW e \in Email, InviteUser(i, e) PROVE TablesTyped'
  BY <1>1 DEF InviteUser
<1>2. ASSUME NEW e \in Email, NEW state \in {"active", "inactive"}, SetActive(e, state) PROVE TablesTyped'
  BY <1>2 DEF SetActive
<1>3. ASSUME NEW s \in SessionId, EndSession(s) PROVE TablesTyped'
  BY <1>3 DEF EndSession
<1>4. ASSUME NEW t \in ResetId, NEW e \in Email, ForgotPassword(t, e) PROVE TablesTyped'
  BY <1>4 DEF ForgotPassword
<1>5. ASSUME NEW r \in Request, Register(r) PROVE TablesTyped'
  BY <1>5 DEF Register
<1>6. ASSUME NEW r \in Request, NEW i \in InvitationId, AcceptInvite(r, i) PROVE TablesTyped'
  BY <1>6 DEF AcceptInvite
<1>7. ASSUME NEW r \in Request, Join(r) PROVE TablesTyped'
  BY <1>7 DEF Join
<1>8. ASSUME NEW r \in Request, NEW e \in Email, Login(r, e) PROVE TablesTyped'
  BY <1>8 DEF Login
<1>9. ASSUME NEW r \in Request, NEW s \in SessionId, RotateRefresh(r, s) PROVE TablesTyped'
  BY <1>9 DEF RotateRefresh
<1>10. ASSUME NEW r \in Request, NEW s \in SessionId, DetectReuse(r, s) PROVE TablesTyped'
  BY <1>10 DEF DetectReuse
<1>11. ASSUME NEW r \in Request, RevokeParent(r) PROVE TablesTyped'
  BY <1>11 DEF RevokeParent
<1>12. ASSUME NEW r \in Request, IssueTokens(r) PROVE TablesTyped'
  BY <1>12 DEF IssueTokens
<1>13. ASSUME NEW r \in Request, NEW t \in ResetId, ResetPassword(r, t) PROVE TablesTyped'
  BY <1>13 DEF ResetPassword
<1>14. ASSUME NEW r \in Request, UpdateSessions(r) PROVE TablesTyped'
  BY <1>14 DEF UpdateSessions
<1>15. ASSUME NEW r \in Request, CommitReset(r) PROVE TablesTyped'
  BY <1>15 DEF CommitReset
<1>16. ASSUME NEW r \in Request, Die(r) PROVE TablesTyped'
  BY <1>16 DEF Die
<1> HIDE DEF Typed, TypeOK, accountVars, historyVars, Opens, Closes, Continues, Issue, Idle,
             None, Killed, Forget, Live, Of, RequestRow, Active, Fits, TablesTyped
<1> QED
  BY <1>1, <1>2, <1>3, <1>4, <1>5, <1>6, <1>7, <1>8, <1>9, <1>10, <1>11, <1>12, <1>13, <1>14,
     <1>15, <1>16
     DEF Next, AccountStep, TokenStep, JoinStep, SessionStep, ResetStep

\* The table of sessions.
LEMMA KeepsSessions ==
  ASSUME Typed, Next
  PROVE  SessionsTyped'
<1> USE IdentityAssumption
    DEF Typed, TypeOK, accountVars, historyVars, Opens, Closes, Continues, Issue, Idle, None,
        Killed, Forget, Live, Of, RequestRow, Active, Fits, SessionsTyped, RevokedAll
<1>1. ASSUME NEW i \in InvitationId, NEW e \in Email, InviteUser(i, e) PROVE SessionsTyped'
  BY <1>1 DEF InviteUser
<1>2. ASSUME NEW e \in Email, NEW state \in {"active", "inactive"}, SetActive(e, state) PROVE SessionsTyped'
  BY <1>2 DEF SetActive
<1>3. ASSUME NEW s \in SessionId, EndSession(s) PROVE SessionsTyped'
  BY <1>3 DEF EndSession
<1>4. ASSUME NEW t \in ResetId, NEW e \in Email, ForgotPassword(t, e) PROVE SessionsTyped'
  BY <1>4 DEF ForgotPassword
<1>5. ASSUME NEW r \in Request, Register(r) PROVE SessionsTyped'
  BY <1>5 DEF Register
<1>6. ASSUME NEW r \in Request, NEW i \in InvitationId, AcceptInvite(r, i) PROVE SessionsTyped'
  BY <1>6 DEF AcceptInvite
<1>7. ASSUME NEW r \in Request, Join(r) PROVE SessionsTyped'
  BY <1>7 DEF Join
<1>8. ASSUME NEW r \in Request, NEW e \in Email, Login(r, e) PROVE SessionsTyped'
  BY <1>8 DEF Login
<1>9. ASSUME NEW r \in Request, NEW s \in SessionId, RotateRefresh(r, s) PROVE SessionsTyped'
  BY <1>9 DEF RotateRefresh
<1>10. ASSUME NEW r \in Request, NEW s \in SessionId, DetectReuse(r, s) PROVE SessionsTyped'
  BY <1>10 DEF DetectReuse
<1>11. ASSUME NEW r \in Request, RevokeParent(r) PROVE SessionsTyped'
  BY <1>11 DEF RevokeParent
<1>12. ASSUME NEW r \in Request, IssueTokens(r) PROVE SessionsTyped'
  BY <1>12 DEF IssueTokens
<1>13. ASSUME NEW r \in Request, NEW t \in ResetId, ResetPassword(r, t) PROVE SessionsTyped'
  BY <1>13 DEF ResetPassword
<1>14. ASSUME NEW r \in Request, UpdateSessions(r) PROVE SessionsTyped'
  BY <1>14 DEF UpdateSessions
<1>15. ASSUME NEW r \in Request, CommitReset(r) PROVE SessionsTyped'
  BY <1>15 DEF CommitReset
<1>16. ASSUME NEW r \in Request, Die(r) PROVE SessionsTyped'
  BY <1>16 DEF Die
<1> HIDE DEF Typed, TypeOK, accountVars, historyVars, Opens, Closes, Continues, Issue, Idle,
             None, Killed, Forget, Live, Of, RequestRow, Active, Fits, SessionsTyped, RevokedAll
<1> QED
  BY <1>1, <1>2, <1>3, <1>4, <1>5, <1>6, <1>7, <1>8, <1>9, <1>10, <1>11, <1>12, <1>13, <1>14,
     <1>15, <1>16
     DEF Next, AccountStep, TokenStep, JoinStep, SessionStep, ResetStep

\* What requests have read.
LEMMA KeepsRequests ==
  ASSUME Typed, Next
  PROVE  RequestsTyped'
<1> USE IdentityAssumption
    DEF Typed, TypeOK, accountVars, historyVars, Opens, Closes, Continues, Issue, Idle, None,
        Killed, Forget, Live, Of, RequestRow, Active, Fits, RequestsTyped, Using
<1>1. ASSUME NEW i \in InvitationId, NEW e \in Email, InviteUser(i, e) PROVE RequestsTyped'
  BY <1>1 DEF InviteUser
<1>2. ASSUME NEW e \in Email, NEW state \in {"active", "inactive"}, SetActive(e, state) PROVE RequestsTyped'
  BY <1>2 DEF SetActive
<1>3. ASSUME NEW s \in SessionId, EndSession(s) PROVE RequestsTyped'
  BY <1>3 DEF EndSession
<1>4. ASSUME NEW t \in ResetId, NEW e \in Email, ForgotPassword(t, e) PROVE RequestsTyped'
  BY <1>4 DEF ForgotPassword
<1>5. ASSUME NEW r \in Request, Register(r) PROVE RequestsTyped'
  BY <1>5 DEF Register
<1>6. ASSUME NEW r \in Request, NEW i \in InvitationId, AcceptInvite(r, i) PROVE RequestsTyped'
  BY <1>6 DEF AcceptInvite
<1>7. ASSUME NEW r \in Request, Join(r) PROVE RequestsTyped'
  BY <1>7 DEF Join
<1>8. ASSUME NEW r \in Request, NEW e \in Email, Login(r, e) PROVE RequestsTyped'
  BY <1>8 DEF Login
<1>9. ASSUME NEW r \in Request, NEW s \in SessionId, RotateRefresh(r, s) PROVE RequestsTyped'
  BY <1>9 DEF RotateRefresh
<1>10. ASSUME NEW r \in Request, NEW s \in SessionId, DetectReuse(r, s) PROVE RequestsTyped'
  BY <1>10 DEF DetectReuse
<1>11. ASSUME NEW r \in Request, RevokeParent(r) PROVE RequestsTyped'
  BY <1>11 DEF RevokeParent
<1>12. ASSUME NEW r \in Request, IssueTokens(r) PROVE RequestsTyped'
  BY <1>12 DEF IssueTokens
<1>13. ASSUME NEW r \in Request, NEW t \in ResetId, ResetPassword(r, t) PROVE RequestsTyped'
  BY <1>13 DEF ResetPassword
<1>14. ASSUME NEW r \in Request, UpdateSessions(r) PROVE RequestsTyped'
  BY <1>14 DEF UpdateSessions
<1>15. ASSUME NEW r \in Request, CommitReset(r) PROVE RequestsTyped'
  BY <1>15 DEF CommitReset
<1>16. ASSUME NEW r \in Request, Die(r) PROVE RequestsTyped'
  BY <1>16 DEF Die
<1> HIDE DEF Typed, TypeOK, accountVars, historyVars, Opens, Closes, Continues, Issue, Idle,
             None, Killed, Forget, Live, Of, RequestRow, Active, Fits, RequestsTyped, Using
<1> QED
  BY <1>1, <1>2, <1>3, <1>4, <1>5, <1>6, <1>7, <1>8, <1>9, <1>10, <1>11, <1>12, <1>13, <1>14,
     <1>15, <1>16
     DEF Next, AccountStep, TokenStep, JoinStep, SessionStep, ResetStep

\* The histories follow the sessions that are live.
LEMMA KeepsHistories ==
  ASSUME Typed, Next
  PROVE  HistoriesTyped'
<1> USE IdentityAssumption
    DEF Typed, TypeOK, accountVars, historyVars, Opens, Closes, Continues, Issue, Idle, None,
        Killed, Forget, Live, Of, RequestRow, Active, Fits, HistoriesTyped, RevokedAll, Others
<1>1. ASSUME NEW i \in InvitationId, NEW e \in Email, InviteUser(i, e) PROVE HistoriesTyped'
  BY <1>1 DEF InviteUser
<1>2. ASSUME NEW e \in Email, NEW state \in {"active", "inactive"}, SetActive(e, state) PROVE HistoriesTyped'
  BY <1>2 DEF SetActive
<1>3. ASSUME NEW s \in SessionId, EndSession(s) PROVE HistoriesTyped'
  BY <1>3 DEF EndSession
<1>4. ASSUME NEW t \in ResetId, NEW e \in Email, ForgotPassword(t, e) PROVE HistoriesTyped'
  BY <1>4 DEF ForgotPassword
<1>5. ASSUME NEW r \in Request, Register(r) PROVE HistoriesTyped'
  BY <1>5 DEF Register
<1>6. ASSUME NEW r \in Request, NEW i \in InvitationId, AcceptInvite(r, i) PROVE HistoriesTyped'
  BY <1>6 DEF AcceptInvite
<1>7. ASSUME NEW r \in Request, Join(r) PROVE HistoriesTyped'
  BY <1>7 DEF Join
<1>8. ASSUME NEW r \in Request, NEW e \in Email, Login(r, e) PROVE HistoriesTyped'
  BY <1>8 DEF Login
<1>9. ASSUME NEW r \in Request, NEW s \in SessionId, RotateRefresh(r, s) PROVE HistoriesTyped'
  BY <1>9 DEF RotateRefresh
<1>10. ASSUME NEW r \in Request, NEW s \in SessionId, DetectReuse(r, s) PROVE HistoriesTyped'
  BY <1>10 DEF DetectReuse
<1>11. ASSUME NEW r \in Request, RevokeParent(r) PROVE HistoriesTyped'
  BY <1>11 DEF RevokeParent
<1>12. ASSUME NEW r \in Request, IssueTokens(r) PROVE HistoriesTyped'
  BY <1>12 DEF IssueTokens
<1>13. ASSUME NEW r \in Request, NEW t \in ResetId, ResetPassword(r, t) PROVE HistoriesTyped'
  BY <1>13 DEF ResetPassword
<1>14. ASSUME NEW r \in Request, UpdateSessions(r) PROVE HistoriesTyped'
  BY <1>14 DEF UpdateSessions
<1>15. ASSUME NEW r \in Request, CommitReset(r) PROVE HistoriesTyped'
  BY <1>15 DEF CommitReset
<1>16. ASSUME NEW r \in Request, Die(r) PROVE HistoriesTyped'
  BY <1>16 DEF Die
<1> HIDE DEF Typed, TypeOK, accountVars, historyVars, Opens, Closes, Continues, Issue, Idle,
             None, Killed, Forget, Live, Of, RequestRow, Active, Fits, HistoriesTyped, RevokedAll, Others
<1> QED
  BY <1>1, <1>2, <1>3, <1>4, <1>5, <1>6, <1>7, <1>8, <1>9, <1>10, <1>11, <1>12, <1>13, <1>14,
     <1>15, <1>16
     DEF Next, AccountStep, TokenStep, JoinStep, SessionStep, ResetStep

\* A session has one use at most: the bound of its count is never met.
LEMMA KeepsTypes ==
  ASSUME Typed, Joined', UsedOnce', Next
  PROVE  TypeOK'
<1>1. TablesTyped' /\ SessionsTyped' /\ RequestsTyped' /\ HistoriesTyped'
  BY KeepsTables, KeepsSessions, KeepsRequests, KeepsHistories
<1>2. ASSUME NEW s \in SessionId PROVE 1 <= Cardinality(SessionId)
  <2>1. Cardinality({s}) = 1 /\ IsFiniteSet(SessionId)
    BY FS_Singleton, IdentityAssumption
  <2>2. Cardinality({s}) <= Cardinality(SessionId)
    BY <2>1, FS_Subset
  <2> QED
    BY <2>1, <2>2
<1>3. Cardinality(SessionId) \in Nat
  BY FS_CardinalityType, IdentityAssumption
<1>4. \A s \in SessionId : sessions'[s] # None => sessions'[s].uses <= 1
  BY DEF UsedOnce
<1>5. \A s \in SessionId : sessions'[s] # None => sessions'[s].uses \in 0..Cardinality(SessionId)
  BY <1>1, <1>2, <1>3, <1>4 DEF SessionsTyped
<1>6. sessions' \in [SessionId -> {None} \cup
        [state : {"live", "dead"}, user : Email, uses : 0..Cardinality(SessionId)]]
  BY <1>1, <1>5 DEF SessionsTyped
<1>7. ASSUME NEW e \in Email \ {Founder}
      PROVE  Cardinality(Accepted(e)') = IF users'[e] = "none" THEN 0 ELSE 1
  <2>1. Cardinality({}) = 0 /\ \A i \in InvitationId : Cardinality({i}) = 1
    BY FS_EmptySet, FS_Singleton
  <2>2. IF users'[e] = "none" THEN Accepted(e)' = {} ELSE \E i \in InvitationId : Accepted(e)' = {i}
    BY DEF Joined
  <2> QED
    BY <2>1, <2>2
<1> QED
  BY <1>1, <1>6, <1>7 DEF TypeOK, TablesTyped, RequestsTyped, HistoriesTyped

LEMMA StepHolds == IdentityInv /\ [Next]_vars => IdentityInv'
<1> SUFFICES ASSUME IdentityInv, [Next]_vars PROVE IdentityInv'
  OBVIOUS
<1>1. CASE Next
  <2>1. Typed /\ Joined /\ UsedOnce /\ Seen /\ OldIsLate
    BY DEF IdentityInv
  <2>2. Fits' /\ Joined' /\ UsedOnce' /\ Seen' /\ OldIsLate'
    BY <1>1, <2>1, KeepsFits, KeepsJoined, KeepsUsedOnce, KeepsSeen, KeepsOldIsLate
  <2>3. TypeOK'
    BY <1>1, <2>1, <2>2, KeepsTypes
  <2> QED
    BY <2>2, <2>3 DEF IdentityInv, Typed
<1>2. CASE UNCHANGED vars
  <2>1. UNCHANGED <<users, invitations, sessions, resets, request, raced, old, late>>
    BY <1>2 DEF vars, accountVars, historyVars
  <2>2. Live' = Live /\ (\A e : Of(e)' = Of(e) /\ Accepted(e)' = Accepted(e))
    BY <2>1 DEF Live, Of, Accepted
  <2>3. TypeOK' /\ Fits' /\ Joined'
    BY <2>1, <2>2 DEF IdentityInv, Typed, TypeOK, Fits, Joined
  <2>4. UsedOnce' /\ Seen' /\ OldIsLate'
    BY <2>1, <2>2 DEF IdentityInv, UsedOnce, Seen, OldIsLate, Rotates, Succeeds
  <2> QED
    BY <2>3, <2>4 DEF IdentityInv, Typed
<1> QED
  BY <1>1, <1>2

LEMMA Invariance == Spec => []IdentityInv
BY InitHolds, StepHolds, PTL DEF Spec

-----------------------------------------------------------------------------
(* Theorems.                                                                *)

\* Users, invitations, sessions, tokens and requests keep their types; every user
\* but the founder has come with exactly one invitation.
THEOREM TypeCorrect == Spec => []TypeOK
<1>1. IdentityInv => TypeOK
  BY DEF IdentityInv, Typed
<1> QED
  BY <1>1, Invariance, PTL

\* For any number of clients that present the same refresh token, and whatever
\* else happens to the session meanwhile: it gets one successor, and another
\* only from a use that had read it before.
THEOREM TokensUsedOnce == Spec => []SingleUse
<1>1. IdentityInv => SingleUse
  BY DEF IdentityInv, UsedOnce, SingleUse
<1> QED
  BY <1>1, Invariance, PTL

\* For any number of resets and refused repeats, and any chain of rotations: what
\* outlives a revocation was being issued while it ran.
THEOREM RevocationHolds == Spec => []RevokedForGood
<1>1. IdentityInv => RevokedForGood
  BY DEF IdentityInv, OldIsLate, RevokedForGood
<1> QED
  BY <1>1, Invariance, PTL
=============================================================================
