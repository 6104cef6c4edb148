--------------------------- MODULE ProviderLimiter ---------------------------
(***************************************************************************)
(* The requests of one provider scope and what they share: the concurrency *)
(* slots, the sliding window and the reactive block of GlobalRateLimiter   *)
(* (providers/rate_limit.py), and the key pool (providers/key_pool.py).    *)
(* Each request opens one upstream stream as the transports do             *)
(* (openai_compat._create_with_key_rotation and its twin in                *)
(* anthropic_messages): every key of the pool on 429, then one key with    *)
(* exponential backoff.                                                    *)
(*                                                                         *)
(* A request's code between two suspensions (the slot, a sleep, the        *)
(* upstream call, the consumer of the stream) is one action.               *)
(***************************************************************************)
EXTENDS SlidingWindow, FiniteSets, FiniteSetsExt

CONSTANTS
  Requests,
  NumKeys,         \* KeyPool.size
  MaxConcurrency,
  MaxBodies,       \* request bodies tried: 2 where _get_retry_request_body gives one
  MaxRetries,      \* max_retries of execute_with_retry
  BaseDelay, MaxDelay, Jitter,
  Cooldown,        \* of a key that hit 429
  LongBlock        \* map_error's set_blocked(60)

ASSUME PoolAssumption == NumKeys \in Nat \ {0} /\ MaxConcurrency \in Nat \ {0}
ASSUME BodiesAssumption == MaxBodies \in {1, 2}
ASSUME DelayAssumption ==
  {MaxRetries, BaseDelay, MaxDelay, Jitter, Cooldown, LongBlock} \subseteq Nat

VARIABLES
  blockedUntil,  \* _blocked_until
  pool,          \* the KeyPool: its cursor and the end of each key's cooldown
  phase,         \* where each request is suspended
  wake,          \* when the sleep it is in ends, 0 when it is in none
  mode,          \* in the rotation, or in execute_with_retry with one key
  key,           \* the key of the call, or of all calls in the retry mode
  tries,         \* calls made in this mode
  bodies,        \* bodies tried, the one in use included
  rotated,       \* history: the keys the rotation has called for the request
  calls          \* history: all calls made for the request

reqVars == <<phase, wake, mode, key, tries, bodies, rotated, calls>>
vars == <<windowVars, blockedUntil, pool, reqVars>>

PoolKeys == 0 .. NumKeys - 1

Phases == {"new", "paused", "throttled", "calling", "backoff", "streaming", "done",
           "failed"}

\* Holds a concurrency slot.
Holding(r) == phase[r] \notin {"new", "done", "failed"}

Init ==
  /\ WindowInit
  /\ blockedUntil = 0
  /\ pool = [cursor |-> 0, cooldown |-> [k \in PoolKeys |-> 0]]
  /\ phase = [r \in Requests |-> "new"]
  /\ wake = [r \in Requests |-> 0]
  /\ mode = [r \in Requests |-> "rotate"]
  /\ key = [r \in Requests |-> 0]
  /\ tries = [r \in Requests |-> 0]
  /\ bodies = [r \in Requests |-> 1]
  /\ rotated = [r \in Requests |-> {}]
  /\ calls = [r \in Requests |-> 0]

-----------------------------------------------------------------------------
(* The key pool *)

\* The distances from the cursor at which a key is not cooling.
LiveSteps(p) ==
  {i \in PoolKeys : p.cooldown[(p.cursor + i) % NumKeys] <= now}

Soonest(p) ==
  Min({k \in PoolKeys : \A j \in PoolKeys : p.cooldown[k] <= p.cooldown[j]})

\* Faulty variant: the cooldowns are not looked at.
NextInTurn(p) == p.cursor % NumKeys

NextLiveKey(p) ==
  IF LiveSteps(p) = {} THEN Soonest(p)
  ELSE (p.cursor + Min(LiveSteps(p))) % NumKeys

\* The pool after next_live_key: a whole turn leaves the cursor where it was.
Advanced(p) ==
  IF LiveSteps(p) = {} THEN p
  ELSE [p EXCEPT !.cursor = (NextLiveKey(p) + 1) % NumKeys]

\* report_rate_limit.
Cooled(p, k) == [p EXCEPT !.cooldown[k] = now + Cooldown]

-----------------------------------------------------------------------------
(* wait_if_blocked, and the call that follows it, for a request in mode m, with
   key k in the retry mode, on pool p *)

Sleep(r, why, until) ==
  /\ phase' = [phase EXCEPT ![r] = why]
  /\ wake' = [wake EXCEPT ![r] = until]

\* Next live key, unless the request keeps its key, and the upstream call.
OpenStream(r, m, k, p) ==
  LET chosen == IF m = "rotate" THEN NextLiveKey(p) ELSE k IN
  /\ phase' = [phase EXCEPT ![r] = "calling"]
  /\ key' = [key EXCEPT ![r] = chosen]
  /\ pool' = IF m = "rotate" THEN Advanced(p) ELSE p
  /\ rotated' = [rotated EXCEPT ![r] = @ \cup {x \in {chosen} : m = "rotate"}]
  /\ calls' = [calls EXCEPT ![r] = @ + 1]
  /\ wake' = [wake EXCEPT ![r] = 0]

\* Faulty variant: one sleep, then the call, without a second look.
AcquireOnce(r, m, k, p) ==
  \/ /\ Granted
     /\ OpenStream(r, m, k, p)
  \/ /\ Refused
     /\ phase[r] = "throttled"
     /\ OpenStream(r, m, k, p)
  \/ /\ Refused
     /\ phase[r] # "throttled"
     /\ Sleep(r, "throttled", WakeTime')
     /\ key' = [key EXCEPT ![r] = k]
     /\ pool' = p
     /\ UNCHANGED <<rotated, calls>>

\* Faulty variant: a refused caller books the time it will wake at.
AcquireBooks(r, m, k, p) ==
  \/ /\ Granted
     /\ OpenStream(r, m, k, p)
  \/ /\ Len(Times) >= Limit
     /\ grants' = Append(grants, WakeTime)
     /\ Sleep(r, "throttled", WakeTime)
     /\ key' = [key EXCEPT ![r] = k]
     /\ pool' = p
     /\ UNCHANGED <<evicted, rotated, calls>>

\* One pass of the limiter's acquire loop.
Acquire(r, m, k, p) ==
  \/ /\ Granted
     /\ OpenStream(r, m, k, p)
  \/ /\ Refused
     /\ Sleep(r, "throttled", WakeTime')
     /\ key' = [key EXCEPT ![r] = k]
     /\ pool' = p
     /\ UNCHANGED <<rotated, calls>>

\* Faulty variant: no reactive check.
NeverBlocked(r, m, k, p, until) == Acquire(r, m, k, p)

\* The reactive check, made once, with the block as it is in `until`.
WaitIfBlocked(r, m, k, p, until) ==
  \/ /\ now < until
     /\ Sleep(r, "paused", until)
     /\ key' = [key EXCEPT ![r] = k]
     /\ pool' = p
     /\ UNCHANGED <<grants, evicted, rotated, calls>>
  \/ /\ ~(now < until)
     /\ Acquire(r, m, k, p)

-----------------------------------------------------------------------------
(* A request *)

\* A pool of one key goes to the retry mode at once.
FirstMode == IF NumKeys = 1 THEN "retry" ELSE "rotate"

\* The slot is taken.
Enter(r) ==
  /\ phase[r] = "new"
  /\ Cardinality({q \in Requests : Holding(q)}) < MaxConcurrency
  /\ mode' = [mode EXCEPT ![r] = FirstMode]
  /\ WaitIfBlocked(r, FirstMode, 0, pool, blockedUntil)
  /\ UNCHANGED <<now, blockedUntil, tries, bodies>>

\* The reactive sleep or the sleep of the acquire loop is over.
SlotSleepOver(r) ==
  /\ phase[r] \in {"paused", "throttled"} /\ now >= wake[r]
  /\ Acquire(r, mode[r], key[r], pool)
  /\ UNCHANGED <<now, blockedUntil, mode, tries, bodies>>

\* 429 in the rotation: the key cools; the next one, or after the last the
\* fallback to execute_with_retry.
RotateOn429(r) ==
  /\ phase[r] = "calling" /\ mode[r] = "rotate"
  /\ LET p == Cooled(pool, key[r]) IN
       \/ /\ tries[r] + 1 < NumKeys
          /\ tries' = [tries EXCEPT ![r] = @ + 1]
          /\ WaitIfBlocked(r, "rotate", key[r], p, blockedUntil)
          /\ UNCHANGED mode
       \/ /\ tries[r] + 1 = NumKeys
          /\ tries' = [tries EXCEPT ![r] = 0]
          /\ mode' = [mode EXCEPT ![r] = "retry"]
          /\ WaitIfBlocked(r, "retry", NextLiveKey(p), Advanced(p), blockedUntil)
  /\ UNCHANGED <<now, blockedUntil, bodies>>

\* The exponential backoff after attempt number a, with its jitter.
Delays(a) ==
  {(IF BaseDelay * 2^a < MaxDelay THEN BaseDelay * 2^a ELSE MaxDelay) + j :
     j \in 0 .. Jitter}

\* 429 or 5xx in execute_with_retry, retries left: block everyone, sleep.
Backoff(r) ==
  /\ phase[r] = "calling" /\ mode[r] = "retry"
  /\ tries[r] < MaxRetries
  /\ \E d \in Delays(tries[r]) :
       /\ blockedUntil' = now + d
       /\ Sleep(r, "backoff", now + d)
  /\ UNCHANGED <<windowVars, pool, mode, key, tries, bodies, rotated, calls>>

\* Faulty variant: the attempt is not counted.
BackoffOverUncounted(r) ==
  /\ phase[r] = "backoff" /\ now >= wake[r]
  /\ WaitIfBlocked(r, "retry", key[r], pool, blockedUntil)
  /\ UNCHANGED <<now, blockedUntil, mode, tries, bodies>>

BackoffOver(r) ==
  /\ phase[r] = "backoff" /\ now >= wake[r]
  /\ tries' = [tries EXCEPT ![r] = @ + 1]
  /\ WaitIfBlocked(r, "retry", key[r], pool, blockedUntil)
  /\ UNCHANGED <<now, blockedUntil, mode, bodies>>

\* The stream is open, or will not be: what the request kept is of no more use.
Ends(r, how) ==
  /\ phase' = [phase EXCEPT ![r] = how]
  /\ wake' = [wake EXCEPT ![r] = 0]
  /\ mode' = [mode EXCEPT ![r] = "rotate"]
  /\ key' = [key EXCEPT ![r] = 0]
  /\ tries' = [tries EXCEPT ![r] = 0]
  /\ rotated' = [rotated EXCEPT ![r] = {}]
  /\ UNCHANGED <<windowVars, pool, bodies, calls>>

\* The retries are exhausted: a last 429 is mapped to a long block.
RetriesExhausted(r) ==
  /\ phase[r] = "calling" /\ mode[r] = "retry"
  /\ tries[r] = MaxRetries
  /\ blockedUntil' \in {blockedUntil, now + LongBlock}
  /\ Ends(r, "failed")

\* An error that is not retried: any but 429 in the rotation, any but 429 and
\* 5xx in execute_with_retry.
CallFails(r) ==
  /\ phase[r] = "calling"
  /\ Ends(r, "failed")
  /\ UNCHANGED blockedUntil

\* _create_stream: the error is one another body may avoid; all over again, in the
\* same slot.
RetryBody(r) ==
  /\ phase[r] = "calling"
  /\ bodies[r] < MaxBodies
  /\ bodies' = [bodies EXCEPT ![r] = @ + 1]
  /\ mode' = [mode EXCEPT ![r] = FirstMode]
  /\ tries' = [tries EXCEPT ![r] = 0]
  /\ WaitIfBlocked(r, FirstMode, 0, pool, blockedUntil)
  /\ UNCHANGED <<now, blockedUntil>>

Opened(r) ==
  /\ phase[r] = "calling"
  /\ Ends(r, "streaming")
  /\ UNCHANGED blockedUntil

\* The stream ends, well or not, and the slot is released.
StreamEnds(r) ==
  /\ phase[r] = "streaming"
  /\ Ends(r, "done")
  /\ UNCHANGED blockedUntil

\* The client goes away: the request is cancelled where it is suspended.
Cancelled(r) ==
  /\ phase[r] \notin {"done", "failed"}
  /\ Ends(r, "failed")
  /\ UNCHANGED blockedUntil

Passing == Tick /\ UNCHANGED <<blockedUntil, pool, reqVars>>

Next ==
  \/ Passing
  \/ \E r \in Requests :
       \/ Enter(r) \/ SlotSleepOver(r) \/ RotateOn429(r) \/ Backoff(r) \/ BackoffOver(r)
       \/ RetriesExhausted(r) \/ CallFails(r) \/ RetryBody(r) \/ Opened(r)
       \/ StreamEnds(r) \/ Cancelled(r)

Spec == Init /\ [][Next]_vars

-----------------------------------------------------------------------------
(* Properties *)

TypeOK ==
  /\ WindowTypeOK
  /\ blockedUntil \in Nat
  /\ pool \in [cursor : PoolKeys, cooldown : [PoolKeys -> Nat]]
  /\ phase \in [Requests -> Phases]
  /\ wake \in [Requests -> Nat]
  /\ mode \in [Requests -> {"rotate", "retry"}]
  /\ key \in [Requests -> PoolKeys]
  /\ tries \in [Requests -> Nat]
  /\ bodies \in [Requests -> 1 .. MaxBodies]
  /\ rotated \in [Requests -> SUBSET PoolKeys]
  /\ calls \in [Requests -> Nat]

\* Every call that reaches the provider, first, rotated or retried, has an
\* acquisition of its own, so that WindowBound is a bound on the calls: there are
\* as many as numbered calls of requests.
Made == UNION {{r} \X (1 .. calls[r]) : r \in Requests}

EveryCallGranted == Cardinality(Made) = Len(grants)

\* A request gives up: for each body one call per key, the fallback call and its
\* retries.
CallsBounded ==
  \A r \in Requests :
    calls[r] <= bodies[r] * ((IF NumKeys = 1 THEN 0 ELSE NumKeys) + 1 + MaxRetries)

CallStarts(r) == calls'[r] # calls[r]

\* The rotation calls a key that still cools, whichever request found it over
\* quota, only when every key does.
CoolingKeyLast ==
  [][\A r \in Requests : CallStarts(r) /\ mode'[r] = "rotate" =>
       \/ pool'.cooldown[key'[r]] <= now
       \/ \A k \in PoolKeys : pool'.cooldown[k] > now]_vars

\* A reactive block lets no call through but those of requests already asleep
\* in wait_if_blocked when it was set.
BlockStopsOthers ==
  [][\A r \in Requests : CallStarts(r) /\ now < blockedUntil =>
       phase[r] \in {"paused", "throttled"}]_vars

\* "Each pool key is tried at most once per request" by the rotation.
KeyTriedOnce ==
  [][\A r \in Requests : CallStarts(r) /\ mode'[r] = "rotate" => key'[r] \notin rotated[r]]_vars

\* "Pauses all requests when a 429 or 5xx retry backoff is active."
PausesAllRequests ==
  [][\A r \in Requests : CallStarts(r) => now >= blockedUntil]_vars
=============================================================================
