------------------------------ MODULE Gateway ------------------------------
(***************************************************************************)
(* What stands before the handlers of the API: core/idempotency.py, which  *)
(* answers repeated requests from Redis, and inside it core/rate_limit.py  *)
(* (main.py adds the rate limit first, so the idempotency middleware wraps *)
(* it and its refusals).                                                   *)
(*                                                                         *)
(* One client sends one operation a number of times with the same          *)
(* Idempotency-Key, and sends other requests to the same path without a    *)
(* key.  The API runs as several processes on one Redis (two or more in    *)
(* docs/11-deployment.md), so other requests come between any two commands *)
(* to Redis.                                                               *)
(***************************************************************************)
EXTENDS Naturals, FiniteSets

CONSTANTS
  Keyed,       \* the requests with the key: the first and its repeats
  Unkeyed,     \* the client's requests without a key
  Limit,       \* what the rule of the path allows in a window
  MaxWindows,  \* bounds the windows of a behaviour
  MaxCrashes,  \* bounds the requests that die with their process
  MaxOutages,  \* bounds the outages of Redis
  Free         \* no lock

Attempt == Keyed \cup Unkeyed

ASSUME GatewayAssumption ==
  /\ Keyed \cap Unkeyed = {}
  /\ Limit \in Nat
  /\ MaxWindows \in Nat
  /\ MaxCrashes \in Nat
  /\ MaxOutages \in Nat
  /\ Free \notin Attempt

VARIABLES
  stage,     \* how far each request is
  answer,    \* what it is answered
  cached,    \* the answer kept under the key
  lock,      \* the request that set the lock (Redis only knows that there is one)
  redis,     \* can Redis be reached?
  window,    \* the current bucket of the rate limit
  count,     \* the requests counted in it
  effects,   \* how often the operation has been carried out
  crashes,   \* how many requests have died
  outages,   \* how often Redis went away
  admitted,  \* history: the requests let through in this window
  refused,   \* history: the requests refused in this window
  outran,    \* history: did a request outlive its lock?
  trouble    \* history: did repeats of the key overlap, or anything go wrong?

storeVars == <<cached, lock>>
limitVars == <<window, count, admitted, refused>>
faultVars == <<redis, crashes, outages>>
gatewayVars == <<stage, answer, storeVars, limitVars, faultVars, effects, outran, trouble>>

Stage == {"unsent", "received", "missed", "entering", "inside", "done", "unlocked",
          "answered", "lost"}

\* Statuses below 500 are cached: done, refused by the handler, over the limit.
Cacheable == {"ok", "rejected", "limited"}

Answer == Cacheable \cup {"none", "failed", "busy"}

InFlight == {r \in Attempt : stage[r] \notin {"unsent", "answered", "lost"}}

\* The requests between SET NX and DEL of the lock.
Holding == {r \in Keyed : stage[r] \in {"entering", "inside", "done"}}

\* One type invariant: the answers and the lock are ones the code writes.
GatewayTypeOK ==
  /\ stage \in [Attempt -> Stage]
  /\ answer \in [Attempt -> Answer]
  /\ cached \in {"none"} \cup Cacheable
  /\ lock \in {Free} \cup Keyed
  /\ redis \in {"up", "down"}
  /\ window \in 0..MaxWindows
  /\ count \in Nat
  /\ effects \in Nat
  /\ crashes \in 0..MaxCrashes
  /\ outages \in 0..MaxOutages
  /\ admitted \in Nat
  /\ refused \in Nat
  /\ outran \in BOOLEAN
  /\ trouble \in BOOLEAN

GatewayInit ==
  /\ stage = [r \in Attempt |-> "unsent"]
  /\ answer = [r \in Attempt |-> "none"]
  /\ cached = "none"
  /\ lock = Free
  /\ redis = "up"
  /\ window = 0
  /\ count = 0
  /\ effects = 0
  /\ crashes = 0
  /\ outages = 0
  /\ admitted = 0
  /\ refused = 0
  /\ outran = FALSE
  /\ trouble = FALSE

-----------------------------------------------------------------------------
(* The client.                                                              *)

\* A repeat need not wait for the answer to the one before.
Send(r) ==
  /\ stage[r] = "unsent"
  /\ stage' = [stage EXCEPT ![r] = "received"]
  /\ trouble' = (trouble \/ (r \in Keyed /\ InFlight \cap Keyed # {}))
  /\ UNCHANGED <<answer, storeVars, limitVars, faultVars, effects, outran>>

-----------------------------------------------------------------------------
(* IdempotencyMiddleware.dispatch.                                          *)

Moves(r, next) ==
  /\ stage' = [stage EXCEPT ![r] = next]
  /\ UNCHANGED answer

Answers(r, status) ==
  /\ stage' = [stage EXCEPT ![r] = "answered"]
  /\ answer' = [answer EXCEPT ![r] = status]

\* A request without the key goes straight through.
PassBy(r) ==
  /\ r \in Unkeyed
  /\ stage[r] = "received"
  /\ Moves(r, "entering")
  /\ UNCHANGED <<storeVars, limitVars, faultVars, effects, outran, trouble>>

\* GET idem:key, and the replay of what is found.
Lookup(r) ==
  /\ r \in Keyed
  /\ stage[r] = "received"
  /\ redis = "up"
  /\ IF cached = "none" THEN Moves(r, "missed") ELSE Answers(r, cached)
  /\ UNCHANGED <<storeVars, limitVars, faultVars, effects, outran, trouble>>

\* Mutant: SET without NX, the lock is taken from whoever has it.
TakeLockAnyway(r) ==
  /\ stage[r] = "missed"
  /\ redis = "up"
  /\ lock' = r
  /\ Moves(r, "entering")
  /\ UNCHANGED <<cached, limitVars, faultVars, effects, outran, trouble>>

\* SET idem:key:lock NX EX 30: the request goes on, or is answered 409.
TakeLock(r) ==
  /\ stage[r] = "missed"
  /\ redis = "up"
  /\ IF lock = Free
     THEN lock' = r /\ Moves(r, "entering")
     ELSE UNCHANGED lock /\ Answers(r, "busy")
  /\ UNCHANGED <<cached, limitVars, faultVars, effects, outran, trouble>>

\* Mutant: failures are stored, too.
UnlockUnfiltered(r) ==
  /\ stage[r] = "done"
  /\ IF r \in Keyed
     THEN redis = "up" /\ lock' = Free
     ELSE UNCHANGED lock
  /\ Moves(r, IF r \in Keyed THEN "unlocked" ELSE "answered")
  /\ UNCHANGED <<cached, limitVars, faultVars, effects, outran, trouble>>

\* DEL idem:key:lock in the finally clause, whoever has set it.  A failure of
\* the handler is passed on; the body of any other answer is read, and stored
\* by a later command.
Unlock(r) ==
  /\ stage[r] = "done"
  /\ IF r \in Keyed
     THEN redis = "up" /\ lock' = Free
     ELSE UNCHANGED lock
  /\ Moves(r, IF r \in Keyed /\ answer[r] \in Cacheable THEN "unlocked" ELSE "answered")
  /\ UNCHANGED <<cached, limitVars, faultVars, effects, outran, trouble>>

\* Mutant: the answer is stored under the key of the lock.
StoreElsewhere(r) ==
  /\ stage[r] = "unlocked"
  /\ redis = "up"
  /\ lock' = r
  /\ Moves(r, "answered")
  /\ UNCHANGED <<cached, limitVars, faultVars, effects, outran, trouble>>

\* SET idem:key, over whatever is there.
Store(r) ==
  /\ stage[r] = "unlocked"
  /\ redis = "up"
  /\ cached' = answer[r]
  /\ Moves(r, "answered")
  /\ UNCHANGED <<lock, limitVars, faultVars, effects, outran, trouble>>

\* No command of this middleware is guarded: without Redis the request is
\* answered 500, whatever has been done for it.
RedisError(r) ==
  /\ redis = "down"
  /\ r \in Keyed
  /\ stage[r] \in {"received", "missed", "done", "unlocked"}
  /\ Answers(r, "failed")
  /\ UNCHANGED <<storeVars, limitVars, faultVars, effects, outran, trouble>>

-----------------------------------------------------------------------------
(* RateLimitMiddleware.dispatch.                                            *)

\* Mutant: the last request that is allowed is refused.
OverLimitEarly(n) == n >= Limit

OverLimit(n) == n > Limit

\* INCR of the counter of the bucket; refused requests count, too.  Without
\* Redis the request is let through.
Count(r) ==
  /\ stage[r] = "entering"
  /\ IF redis = "up" /\ OverLimit(count + 1)
     THEN /\ stage' = [stage EXCEPT ![r] = "done"]
          /\ answer' = [answer EXCEPT ![r] = "limited"]
          /\ refused' = refused + 1
          /\ UNCHANGED admitted
     ELSE /\ Moves(r, "inside")
          /\ admitted' = IF redis = "up" THEN admitted + 1 ELSE admitted
          /\ UNCHANGED refused
  /\ count' = IF redis = "up" THEN count + 1 ELSE count
  /\ UNCHANGED <<storeVars, window, faultVars, effects, outran, trouble>>

\* The next bucket has a counter of its own.
NextWindow ==
  /\ window < MaxWindows
  /\ window' = window + 1
  /\ count' = 0
  /\ admitted' = 0
  /\ refused' = 0
  /\ UNCHANGED <<stage, answer, storeVars, faultVars, effects, outran, trouble>>

-----------------------------------------------------------------------------
(* The handler behind the two, with an outcome of its own.                  *)

\* It may fail after a commit: many make several.  The outcomes of requests
\* without the key are not told apart.
Handle(r) ==
  /\ stage[r] = "inside"
  /\ \E status \in {"ok", "rejected", "failed"}, effective \in BOOLEAN :
       /\ r \in Unkeyed => status = "ok"
       /\ status = "ok" => effective
       /\ status = "rejected" => ~effective
       /\ answer' = [answer EXCEPT ![r] = status]
       /\ effects' = IF r \in Keyed /\ effective THEN effects + 1 ELSE effects
       /\ trouble' = (trouble \/ (r \in Keyed /\ effective /\ status = "failed"))
  /\ stage' = [stage EXCEPT ![r] = "done"]
  /\ UNCHANGED <<storeVars, limitVars, faultVars, outran>>

-----------------------------------------------------------------------------
(* Time and faults.                                                         *)

\* Mutant: the lock is set without EX.
ExpireLockNever ==
  /\ lock # Free
  /\ FALSE
  /\ UNCHANGED gatewayVars

\* 30 seconds are over.
ExpireLock ==
  /\ lock # Free
  /\ lock' = Free
  /\ outran' = (outran \/ lock \in Holding)
  /\ UNCHANGED <<stage, answer, cached, limitVars, faultVars, effects, trouble>>

\* 24 hours are over.
ExpireAnswer ==
  /\ cached # "none"
  /\ cached' = "none"
  /\ trouble' = TRUE
  /\ UNCHANGED <<stage, answer, lock, limitVars, faultVars, effects, outran>>

Crash(r) ==
  /\ crashes < MaxCrashes
  /\ r \in InFlight
  /\ stage' = [stage EXCEPT ![r] = "lost"]
  /\ crashes' = crashes + 1
  /\ trouble' = (trouble \/ r \in Keyed)
  /\ UNCHANGED <<answer, storeVars, limitVars, redis, outages, effects, outran>>

Outage ==
  /\ redis = "up"
  /\ outages < MaxOutages
  /\ redis' = "down"
  /\ outages' = outages + 1
  /\ trouble' = TRUE
  /\ UNCHANGED <<stage, answer, storeVars, limitVars, crashes, effects, outran>>

Recover ==
  /\ redis = "down"
  /\ redis' = "up"
  /\ UNCHANGED <<stage, answer, storeVars, limitVars, crashes, outages, effects, outran, trouble>>

-----------------------------------------------------------------------------
\* The steps of a process that serves a request.
Serve(r) ==
  PassBy(r) \/ Lookup(r) \/ TakeLock(r) \/ Count(r) \/ Handle(r) \/ Unlock(r) \/ Store(r)
    \/ RedisError(r)

Time == NextWindow \/ ExpireLock \/ ExpireAnswer

Fault == Outage \/ Recover \/ \E r \in Attempt : Crash(r)

GatewayNext == (\E r \in Attempt : Send(r) \/ Serve(r)) \/ Time \/ Fault

\* A process that does not die goes on, and keys in Redis do expire.
Fairness ==
  /\ \A r \in Attempt : WF_gatewayVars(Serve(r))
  /\ WF_gatewayVars(ExpireLock)

GatewaySpec == GatewayInit /\ [][GatewayNext]_gatewayVars /\ Fairness

-----------------------------------------------------------------------------
(* Properties.                                                              *)

\* The lock does its work as long as nobody outlives it: two requests with one
\* key are never behind it together, whatever dies and whenever Redis is away.
\* Once a request has outlived its lock, its DEL takes the lock of the next one
\* and a third goes in beside that.
OneAtATime == ~outran => Cardinality(Holding) <= 1

\* "Prevents duplicate work on retries", docs/13-glossary.md: repeats that wait for
\* the answer run once and get one answer, as long as no process dies, Redis
\* stays, no answer gets lost behind an error after a commit, and the day is not
\* over: also when the answer is that the rate was exceeded, which is cached for
\* a day like any other.  And a success is never made up.
RepeatsAgree ==
  /\ (\E r \in Keyed : stage[r] = "answered" /\ answer[r] = "ok") => effects >= 1
  /\ ~trouble =>
       /\ effects <= 1
       /\ \A r, s \in Keyed :
            stage[r] = "answered" /\ stage[s] = "answered"
              => answer[r] = answer[s] \/ "failed" \in {answer[r], answer[s]}

\* In a window the rate limit lets through what its rule says, and refuses
\* nobody before.  (Requests that find no Redis are let through uncounted.)
WindowIsFair ==
  /\ admitted <= Limit
  /\ refused > 0 => admitted = Limit

\* A key is not blocked for good by a request that died.
KeyComesFree == (lock # Free) ~> (lock = Free)
=============================================================================
