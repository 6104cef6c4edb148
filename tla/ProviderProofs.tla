--------------------------- MODULE ProviderProofs ---------------------------
(***************************************************************************)
(* The properties of ProviderLimiter for every set of requests, pool of    *)
(* keys and delay: the limiter keeps to its window, whoever uses it; the   *)
(* requests use it as WindowSpec says (StepKeepsWindow); each makes a      *)
(* bounded number of calls (CallsInv counts them by body, mode and         *)
(* attempt), the rotation avoids the keys that cool, a block stops the     *)
(* others.                                                                 *)
(*                                                                         *)
(* And those of Reconfigure for any providers, clients, admin pages and    *)
(* contents of the files. A provider is in the cache of one registry only  *)
(* (CacheInv), so that an apply closes none of a registry it does not      *)
(* clean up (LeftInv); settings are those in effect unless a write         *)
(* overtook the thread that read them (FreshInv).                          *)
(***************************************************************************)
EXTENDS ProviderLimiter, Reconfigure, FiniteSetTheorems, WellFoundedInduction, TLAPS

(* The limiter's promise, for every limit and window. *)

\* A pass that ends in an acquisition keeps the invariant: if the new one is
\* the Limit + 1st after some other, that one is in the evicted prefix.
LEMMA GrantedInv == WindowInv /\ Granted /\ UNCHANGED now => WindowInv'
<1> USE LimitAssumption, WindowAssumption, HorizonAssumption
<1> SUFFICES ASSUME WindowInv, UNCHANGED now,
                    NEW k \in evicted .. Len(grants), Evicts(k),
                    Len(grants) - k < Limit, evicted' = k, grants' = Append(grants, now)
             PROVE  WindowInv'
  BY DEF Granted
<1> DEFINE L == Len(grants)
<1>1. /\ L \in Nat /\ k \in Nat /\ k <= L /\ evicted \in Nat /\ evicted <= k /\ now \in Nat
      /\ grants \in Seq(Nat)
  BY DEF WindowInv, WindowTypeOK
<1>2. /\ grants' \in Seq(Nat) /\ Len(grants') = L + 1
      /\ \A i \in 1 .. L : grants'[i] = grants[i] /\ grants[i] \in Nat
      /\ grants'[L + 1] = now
  BY <1>1
<1>3. WindowTypeOK'
  BY <1>1, <1>2 DEF WindowTypeOK
<1>4. \A i \in 1 .. k : grants[i] + Window <= now
  BY <1>1 DEF WindowInv, Evicts
<1>5. \A i, j \in 1 .. L + 1 : i <= j => grants'[i] <= grants'[j]
  BY <1>1, <1>2 DEF WindowInv
<1>6. \A i \in 1 .. L + 1 : grants'[i] <= now
  BY <1>1, <1>2 DEF WindowInv
<1>7. \A i \in 1 .. k : grants'[i] + Window <= now
  BY <1>1, <1>2, <1>4
<1>8. WindowBound'
  <2> SUFFICES ASSUME NEW i \in 1 .. L + 1, NEW j \in 1 .. L + 1, j - i >= Limit
               PROVE  grants'[j] >= grants'[i] + Window
    BY <1>2 DEF WindowBound
  <2>1. CASE j = L + 1
    <3>1. i <= k
      BY <1>1, <2>1
    <3>2. grants'[i] = grants[i] /\ grants'[j] = now
      BY <1>1, <1>2, <2>1, <3>1
    <3>3. grants[i] + Window <= now
      BY <1>1, <1>4, <3>1
    <3>4. grants[i] \in Nat
      BY <1>1, <1>2, <3>1
    <3> QED
      BY <1>1, <3>2, <3>3, <3>4
  <2>2. CASE j <= L
    <3>1. i \in 1 .. L /\ j \in 1 .. L
      BY <1>1, <2>2
    <3>2. grants[j] >= grants[i] + Window
      BY <3>1 DEF WindowInv, WindowBound
    <3> QED
      BY <1>2, <3>1, <3>2
  <2>3. j = L + 1 \/ j <= L
    <3>1. L \in Nat
      BY <1>1
    <3> HIDE DEF L
    <3> QED
      BY <3>1
  <2> QED
    BY <2>1, <2>2, <2>3
<1> QED
  BY <1>1, <1>2, <1>3, <1>5, <1>6, <1>7, <1>8 DEF WindowInv

LEMMA RefusedInv ==
  ASSUME WindowInv, Refused, UNCHANGED now
  PROVE  WindowInv'
<1> USE LimitAssumption, WindowAssumption, HorizonAssumption
<1> PICK k \in evicted .. Len(grants) : Evicts(k) /\ evicted' = k /\ grants' = grants
  BY DEF Refused
<1>1. /\ Len(grants) \in Nat /\ evicted \in Nat /\ k \in Nat /\ evicted <= k
      /\ k <= Len(grants) /\ now \in Nat
  BY DEF WindowInv, WindowTypeOK
<1>2. \A i \in 1 .. k : grants[i] + Window <= now
  BY <1>1 DEF WindowInv, Evicts
<1>3. Len(grants) - k <= Limit
  BY <1>1 DEF WindowInv
<1> QED
  BY <1>1, <1>2, <1>3 DEF WindowInv, WindowTypeOK, WindowBound

LEMMA TickInv == WindowInv /\ Tick => WindowInv'
<1> USE LimitAssumption, WindowAssumption, HorizonAssumption
<1> SUFFICES ASSUME WindowInv, Tick PROVE WindowInv'
  OBVIOUS
<1>1. now' = now + 1 /\ grants' = grants /\ evicted' = evicted
  BY DEF Tick
<1>2. \A i \in 1 .. Len(grants) : grants[i] \in Nat
  BY DEF WindowInv, WindowTypeOK
<1>3. evicted \in 0 .. Len(grants) /\ Len(grants) \in Nat /\ now \in Nat
  BY DEF WindowInv, WindowTypeOK
<1> QED
  BY <1>1, <1>2, <1>3 DEF WindowInv, WindowTypeOK, WindowBound

LEMMA WindowInvInductive == WindowInv /\ [WindowNext]_windowVars => WindowInv'
<1> USE LimitAssumption, WindowAssumption, HorizonAssumption
<1> SUFFICES ASSUME WindowInv, [WindowNext]_windowVars PROVE WindowInv'
  OBVIOUS
<1>1. CASE UNCHANGED windowVars
  BY <1>1 DEF WindowInv, WindowTypeOK, WindowBound, windowVars
<1> QED
  BY <1>1, GrantedInv, RefusedInv, TickInv DEF WindowNext

LEMMA WindowInitInv == WindowInit => WindowInv
  BY LimitAssumption, WindowAssumption, HorizonAssumption
  DEF WindowInit, WindowInv, WindowTypeOK, WindowBound

\* core/rate_limit.py: "at most rate_limit acquisitions in any interval of
\* length rate_window", for every limit, window and pattern of calls.
THEOREM StrictWindow == WindowSpec => []WindowBound
<1> USE LimitAssumption, WindowAssumption, HorizonAssumption
<1>1. WindowInv => WindowBound
  BY DEF WindowInv
<1> QED
  BY <1>1, WindowInitInv, WindowInvInductive, PTL DEF WindowSpec

-----------------------------------------------------------------------------
(* The requests of a provider *)

\* Waiting for the reactive block or for a slot does nothing else to the window.
LEMMA WaitKeepsWindow ==
  ASSUME NEW r, NEW m, NEW k, NEW p, NEW until, UNCHANGED now,
         WaitIfBlocked(r, m, k, p, until) \/ Acquire(r, m, k, p)
  PROVE  [WindowNext]_windowVars
  BY DEF WaitIfBlocked, Acquire, WindowNext, windowVars

LEMMA StepKeepsWindow == [Next]_vars => [WindowNext]_windowVars
<1> SUFFICES ASSUME [Next]_vars PROVE [WindowNext]_windowVars
  OBVIOUS
<1>1. CASE Passing \/ UNCHANGED vars
  BY <1>1 DEF Passing, WindowNext, windowVars, vars
<1>2. ASSUME NEW r \in Requests,
             \/ Enter(r) \/ SlotSleepOver(r) \/ RotateOn429(r) \/ BackoffOver(r)
             \/ RetryBody(r)
      PROVE  [WindowNext]_windowVars
  BY <1>2, WaitKeepsWindow, Zenon DEF Enter, SlotSleepOver, RotateOn429,
     BackoffOver, RetryBody
<1>3. ASSUME NEW r \in Requests,
             \/ Backoff(r) \/ RetriesExhausted(r) \/ CallFails(r)
             \/ Opened(r) \/ StreamEnds(r) \/ Cancelled(r)
      PROVE  [WindowNext]_windowVars
  BY <1>3 DEF Backoff, RetriesExhausted, CallFails, Opened, StreamEnds, Cancelled, Ends
<1> QED
  BY <1>1, <1>2, <1>3 DEF Next

\* The provider's requests use the limiter as WindowSpec says.
THEOREM ProviderUsesWindow == Spec => WindowSpec
<1>1. Init => WindowInit
  BY DEF Init
<1> QED
  BY <1>1, StepKeepsWindow, PTL DEF Spec, WindowSpec

\* However requests rotate keys, back off, retry or are cancelled, at most
\* Limit acquisitions fall into any window (core/rate_limit.py).
THEOREM ProviderWithinWindow == Spec => []WindowBound
  BY ProviderUsesWindow, StrictWindow, PTL

-----------------------------------------------------------------------------
(* Minima and remainders *)

LEMMA MinFacts ==
  ASSUME NEW S \in SUBSET Nat, S # {}
  PROVE  Min(S) \in S /\ \A y \in S : Min(S) <= y
<1>1. \A x, y \in Nat : x < y => <<x, y>> \in OpToRel(<, Nat)
  BY DEF OpToRel
<1>2. \E x \in S : \A y \in S : ~(<<y, x>> \in OpToRel(<, Nat))
  BY NatLessThanWellFounded, WFMin
<1>3. PICK x \in S : \A y \in S : ~(<<y, x>> \in OpToRel(<, Nat))
  BY <1>2
<1>4. \A y \in S : x <= y
  <2> TAKE y \in S
  <2>1. x \in Nat /\ y \in Nat /\ ~(y < x)
    BY <1>1, <1>3
  <2> QED BY <2>1
<1> QED BY <1>4 DEF Min

LEMMA ModFacts ==
  ASSUME NEW c \in PoolKeys
  PROVE  /\ \A i \in Nat : i % NumKeys \in PoolKeys
         /\ \A k \in PoolKeys : \E i \in PoolKeys : (c + i) % NumKeys = k
<1> USE PoolAssumption DEF PoolKeys
<1>1. \A i \in Nat : i % NumKeys \in 0 .. NumKeys - 1
  OBVIOUS
<1>2. \A k \in PoolKeys : k % NumKeys = k /\ (k + NumKeys) % NumKeys = k
  OBVIOUS
<1>3. ASSUME NEW k \in PoolKeys PROVE \E i \in PoolKeys : (c + i) % NumKeys = k
  <2>1. CASE k >= c
    <3>1. k - c \in PoolKeys /\ c + (k - c) = k
      BY <2>1
    <3> QED BY <1>2, <3>1
  <2>2. CASE k < c
    <3>1. k - c + NumKeys \in PoolKeys /\ c + (k - c + NumKeys) = k + NumKeys
      BY <2>2
    <3> QED BY <1>2, <3>1
  <2> QED BY <2>1, <2>2
<1> QED BY <1>1, <1>3

PoolType == [cursor : PoolKeys, cooldown : [PoolKeys -> Nat]]

\* The next live key is a key of the pool; it cools only when all do.
LEMMA NextLiveKeyFacts ==
  ASSUME NEW p \in PoolType, now \in Nat
  PROVE  /\ NextLiveKey(p) \in PoolKeys
         /\ Advanced(p) \in PoolType /\ Advanced(p).cooldown = p.cooldown
         /\ \/ p.cooldown[NextLiveKey(p)] <= now
            \/ \A k \in PoolKeys : p.cooldown[k] > now
<1> USE PoolAssumption DEF PoolType
<1>1. LiveSteps(p) \in SUBSET PoolKeys /\ PoolKeys \subseteq Nat /\ 0 \in PoolKeys
  BY DEF LiveSteps, PoolKeys
<1>2. CASE LiveSteps(p) = {}
  <2>1. \A k \in PoolKeys : p.cooldown[k] > now
    <3> TAKE k \in PoolKeys
    <3>1. PICK i \in PoolKeys : (p.cursor + i) % NumKeys = k
      BY ModFacts
    <3>2. ~(p.cooldown[k] <= now)
      BY <1>2, <3>1 DEF LiveSteps
    <3> QED BY <3>2
  <2>2. Soonest(p) \in PoolKeys
    <3> DEFINE Least == {k \in PoolKeys : \A j \in PoolKeys : p.cooldown[k] <= p.cooldown[j]}
    <3>1. Least # {}
      <4> DEFINE Moments == {p.cooldown[k] : k \in PoolKeys}
      <4>1. Moments \in SUBSET Nat /\ Moments # {}
        BY <1>1
      <4>2. Min(Moments) \in Moments /\ \A y \in Moments : Min(Moments) <= y
        BY <4>1, MinFacts
      <4>3. PICK k \in PoolKeys : p.cooldown[k] = Min(Moments)
        BY <4>2
      <4>4. \A j \in PoolKeys : p.cooldown[k] <= p.cooldown[j]
        BY <4>2, <4>3
      <4> QED BY <4>4
    <3>2. Least \in SUBSET Nat /\ Least \subseteq PoolKeys
      BY <1>1
    <3>3. Soonest(p) = Min(Least)
      BY DEF Soonest
    <3> HIDE DEF Least
    <3> QED BY <3>1, <3>2, <3>3, MinFacts
  <2> QED BY <1>2, <2>1, <2>2 DEF NextLiveKey, Advanced
<1>3. CASE LiveSteps(p) # {}
  <2> DEFINE i == Min(LiveSteps(p))
  <2>1. i \in LiveSteps(p) /\ i \in Nat
    BY <1>1, <1>3, MinFacts
  <2>2. NextLiveKey(p) = (p.cursor + i) % NumKeys
    BY <1>3 DEF NextLiveKey
  <2>3. p.cooldown[NextLiveKey(p)] <= now
    BY <2>1, <2>2 DEF LiveSteps
  <2> HIDE DEF i
  <2>4. p.cursor \in Nat /\ p.cursor + i \in Nat
    <3>1. p.cursor \in Nat
      BY <1>1
    <3> QED BY <2>1, <3>1
  <2>5. NextLiveKey(p) \in PoolKeys /\ (NextLiveKey(p) + 1) % NumKeys \in PoolKeys
    <3>1. NextLiveKey(p) \in PoolKeys
      BY <2>2, <2>4, ModFacts
    <3> DEFINE n == NextLiveKey(p)
    <3>2. n \in Nat
      BY <1>1, <3>1
    <3> HIDE DEF n
    <3>3. n + 1 \in Nat
      BY <3>2
    <3> USE DEF n
    <3> QED BY <3>1, <3>3, ModFacts
  <2>6. Advanced(p) = [p EXCEPT !.cursor = (NextLiveKey(p) + 1) % NumKeys]
    BY <1>3 DEF Advanced
  <2> QED BY <2>3, <2>5, <2>6
<1> QED BY <1>2, <1>3

LEMMA CooledFacts ==
  ASSUME NEW p \in PoolType, NEW k \in PoolKeys, now \in Nat
  PROVE  Cooled(p, k) \in PoolType
<1>1. [p.cooldown EXCEPT ![k] = now + Cooldown] \in [PoolKeys -> Nat]
  BY DelayAssumption DEF PoolType
<1>2. Cooled(p, k) = [p EXCEPT !.cooldown = [p.cooldown EXCEPT ![k] = now + Cooldown]]
  BY DEF Cooled, PoolType
<1> QED BY <1>1, <1>2 DEF PoolType

-----------------------------------------------------------------------------
(* The calls made for a request *)

CallsTypeOK ==
  /\ now \in Nat
  /\ pool \in PoolType
  /\ phase \in [Requests -> Phases]
  /\ mode \in [Requests -> {"rotate", "retry"}]
  /\ key \in [Requests -> PoolKeys]
  /\ tries \in [Requests -> Nat]
  /\ bodies \in [Requests -> 1 .. MaxBodies]
  /\ calls \in [Requests -> Nat]

\* The calls a rotation makes before the fallback, and those one body may make.
InRotation == IF NumKeys = 1 THEN 0 ELSE NumKeys
PerBody == InRotation + 1 + MaxRetries

\* An upper bound on the calls of the bodies given up, and the calls of the body in use.
Before(r) == IF bodies[r] = 1 THEN 0 ELSE PerBody
Within(r) == (IF mode[r] = "retry" THEN InRotation ELSE 0) + tries[r]

\* In the middle of an attempt or of the wait for one.
Waits == {"paused", "throttled"}
Trying == {"calling", "backoff"}

\* The attempt of the request in its mode, and the calls it has made so far.
CallsOf(r) ==
  /\ phase[r] = "new" => calls[r] = 0 /\ bodies[r] = 1 /\ tries[r] = 0
  /\ phase[r] \in Waits \cup Trying =>
       /\ mode[r] = "rotate" => tries[r] + 1 <= InRotation
       /\ mode[r] = "retry" => tries[r] <= MaxRetries
  /\ phase[r] = "backoff" => mode[r] = "retry" /\ tries[r] < MaxRetries
  /\ phase[r] \in Waits => calls[r] <= Before(r) + Within(r)
  /\ phase[r] \in Trying => calls[r] <= Before(r) + Within(r) + 1
  /\ calls[r] <= Before(r) + PerBody

CallsInv == CallsTypeOK /\ \A r \in Requests : CallsOf(r)

\* One call (n = 1), or a sleep: the request is then in h, with key j.
Attempt(r, m, p, h, n, j) ==
  /\ phase' = [phase EXCEPT ![r] = h]
  /\ key' = [key EXCEPT ![r] = j]
  /\ calls' = [calls EXCEPT ![r] = @ + n]
  /\ n = 1 <=> h = "calling"
  /\ n = 1 /\ m = "rotate" => j = NextLiveKey(p) /\ pool' = Advanced(p)

\* wait_if_blocked and the call after it: the request sleeps, or makes one call.
LEMMA AttemptEffect ==
  ASSUME NEW r \in Requests, NEW m \in {"rotate", "retry"}, NEW k \in PoolKeys,
         NEW p \in PoolType, NEW until, CallsTypeOK,
         WaitIfBlocked(r, m, k, p, until) \/ Acquire(r, m, k, p)
  PROVE  /\ pool' \in PoolType
         /\ \E h \in Waits \cup {"calling"}, n \in {0, 1}, j \in PoolKeys :
              Attempt(r, m, p, h, n, j)
<1>1. NextLiveKey(p) \in PoolKeys /\ Advanced(p) \in PoolType
  BY NextLiveKeyFacts DEF CallsTypeOK
<1>2. calls = [calls EXCEPT ![r] = @ + 0]
  BY DEF CallsTypeOK
<1>3. ASSUME NEW why \in Waits, NEW w,
             Sleep(r, why, w), key' = [key EXCEPT ![r] = k], pool' = p, calls' = calls
      PROVE  /\ pool' \in PoolType
             /\ Attempt(r, m, p, why, 0, k)
  <2>1. why # "calling"
    BY DEF Waits
  <2> QED BY <1>2, <1>3, <2>1 DEF Sleep, Attempt
<1>4. ASSUME OpenStream(r, m, k, p)
      PROVE  /\ pool' \in PoolType
             /\ \E j \in PoolKeys : Attempt(r, m, p, "calling", 1, j)
  <2> DEFINE j == IF m = "rotate" THEN NextLiveKey(p) ELSE k
  <2>1. j \in PoolKeys
    BY <1>1
  <2>2. /\ phase' = [phase EXCEPT ![r] = "calling"]
        /\ key' = [key EXCEPT ![r] = j]
        /\ pool' = IF m = "rotate" THEN Advanced(p) ELSE p
        /\ calls' = [calls EXCEPT ![r] = @ + 1]
    BY <1>4 DEF OpenStream
  <2>3. pool' \in PoolType /\ (m = "rotate" => j = NextLiveKey(p) /\ pool' = Advanced(p))
    BY <1>1, <2>2
  <2> HIDE DEF j
  <2> QED BY <2>1, <2>2, <2>3 DEF Attempt
<1>5. CASE OpenStream(r, m, k, p)
  BY <1>4, <1>5, Zenon
<1>6. CASE \E why \in Waits : \E w : Sleep(r, why, w) /\ key' = [key EXCEPT ![r] = k]
                                     /\ pool' = p /\ calls' = calls
  BY <1>3, <1>6, Zenon
<1>7. \/ OpenStream(r, m, k, p)
      \/ \E why \in Waits : \E w : Sleep(r, why, w) /\ key' = [key EXCEPT ![r] = k]
                                    /\ pool' = p /\ calls' = calls
  BY Zenon DEF WaitIfBlocked, Acquire, Waits
<1> QED BY <1>5, <1>6, <1>7

LEMMA SameCalls ==
  ASSUME NEW q, CallsOf(q), phase'[q] = phase[q], mode'[q] = mode[q],
         tries'[q] = tries[q], bodies'[q] = bodies[q], calls'[q] = calls[q]
  PROVE  CallsOf(q)'
  BY Zenon DEF CallsOf, Before, Within, InRotation, PerBody

\* An attempt within the bounds of its mode keeps the invariant.
LEMMA AttemptInv ==
  ASSUME CallsInv, UNCHANGED now,
         NEW r \in Requests, NEW m \in {"rotate", "retry"}, NEW k \in PoolKeys,
         NEW p \in PoolType, NEW until, NEW t \in Nat, NEW b \in 1 .. MaxBodies,
         WaitIfBlocked(r, m, k, p, until) \/ Acquire(r, m, k, p),
         mode' = [mode EXCEPT ![r] = m], tries' = [tries EXCEPT ![r] = t],
         bodies' = [bodies EXCEPT ![r] = b],
         m = "rotate" => t + 1 <= InRotation,
         m = "retry" => t <= MaxRetries,
         calls[r] <= (IF b = 1 THEN 0 ELSE PerBody)
                       + ((IF m = "retry" THEN InRotation ELSE 0) + t)
  PROVE  CallsInv'
<1>0. InRotation \in Nat /\ PerBody \in Nat /\ MaxRetries \in Nat
      /\ PerBody = InRotation + 1 + MaxRetries
  BY PoolAssumption, DelayAssumption DEF InRotation, PerBody
<1>1. CallsTypeOK
  BY DEF CallsInv
<1>2. pool' \in PoolType
  BY <1>1, AttemptEffect, Zenon
<1>3. PICK h \in Waits \cup {"calling"}, n \in {0, 1}, j \in PoolKeys :
         Attempt(r, m, p, h, n, j)
  BY <1>1, AttemptEffect, Zenon
<1>4. /\ phase' = [phase EXCEPT ![r] = h] /\ key' = [key EXCEPT ![r] = j]
      /\ calls' = [calls EXCEPT ![r] = @ + n]
      /\ n = 1 <=> h = "calling"
  BY <1>3, Zenon DEF Attempt
<1>5. h \in Phases /\ calls[r] + n \in Nat
  BY <1>1 DEF Phases, Waits, CallsTypeOK
<1>6. CallsTypeOK'
  <2>1. now' \in Nat /\ phase' \in [Requests -> Phases] /\ key' \in [Requests -> PoolKeys]
    BY <1>4, <1>1, <1>5 DEF CallsTypeOK
  <2>2. /\ mode' \in [Requests -> {"rotate", "retry"}] /\ tries' \in [Requests -> Nat]
        /\ bodies' \in [Requests -> 1 .. MaxBodies]
    BY <1>1 DEF CallsTypeOK
  <2>3. calls' \in [Requests -> Nat]
    BY <1>4, <1>1, <1>5 DEF CallsTypeOK
  <2> QED BY <1>2, <2>1, <2>2, <2>3, Zenon DEF CallsTypeOK
<1>7. ASSUME NEW q \in Requests, q # r PROVE CallsOf(q)'
  <2>1. /\ phase'[q] = phase[q] /\ mode'[q] = mode[q] /\ tries'[q] = tries[q]
        /\ bodies'[q] = bodies[q] /\ calls'[q] = calls[q]
    BY <1>4, <1>1, <1>7 DEF CallsTypeOK
  <2>2. CallsOf(q)
    BY DEF CallsInv
  <2> QED BY <2>1, <2>2, SameCalls, Zenon
<1>8. CallsOf(r)'
  <2>1. /\ phase'[r] = h /\ mode'[r] = m /\ tries'[r] = t /\ bodies'[r] = b
        /\ calls'[r] = calls[r] + n
    BY <1>4, <1>1 DEF CallsTypeOK
  <2> DEFINE B == IF b = 1 THEN 0 ELSE PerBody
             W == (IF m = "retry" THEN InRotation ELSE 0) + t
  <2>2. Before(r)' = B /\ Within(r)' = W
    BY <2>1 DEF Before, Within, InRotation, PerBody
  <2>3. B \in Nat /\ W \in Nat /\ W + 1 <= PerBody /\ calls[r] <= B + W
    BY <1>0
  <2> HIDE DEF B, W
  <2>4. /\ h \in Waits => calls[r] + n <= B + W
        /\ calls[r] + n <= B + W + 1 /\ calls[r] + n <= B + PerBody
    BY <1>0, <1>4, <1>1, <2>3 DEF CallsTypeOK, Waits
  <2>5. h # "new" /\ h # "backoff" /\ PerBody' = PerBody /\ InRotation' = InRotation
    BY DEF Waits, PerBody, InRotation
  <2> QED BY <2>1, <2>2, <2>4, <2>5, Zenon DEF CallsOf
<1> QED BY <1>6, <1>7, <1>8, Zenon DEF CallsInv

\* The end of an attempt leaves what it has counted.
LEMMA EndsInv ==
  ASSUME CallsInv, UNCHANGED <<now, pool, bodies, calls>>, NEW r \in Requests,
         NEW how \in {"failed", "streaming", "done"},
         phase' = [phase EXCEPT ![r] = how], mode' = [mode EXCEPT ![r] = "rotate"],
         key' = [key EXCEPT ![r] = 0], tries' = [tries EXCEPT ![r] = 0]
  PROVE  CallsInv'
<1>1. CallsTypeOK
  BY DEF CallsInv
<1>2. CallsTypeOK'
  BY <1>1, PoolAssumption DEF CallsTypeOK, Phases, PoolKeys
<1>3. ASSUME NEW q \in Requests, q # r PROVE CallsOf(q)'
  <2>1. /\ phase'[q] = phase[q] /\ mode'[q] = mode[q] /\ tries'[q] = tries[q]
        /\ bodies'[q] = bodies[q] /\ calls'[q] = calls[q]
    BY <1>1, <1>3 DEF CallsTypeOK
  <2>2. CallsOf(q)
    BY DEF CallsInv
  <2> QED BY <2>1, <2>2, SameCalls, Zenon
<1>4. CallsOf(r)'
  <2>1. phase'[r] \notin Waits \cup Trying \cup {"new"}
    BY <1>1 DEF CallsTypeOK, Waits, Trying
  <2>2. calls[r] <= Before(r) + PerBody
    BY DEF CallsInv, CallsOf
  <2>3. calls'[r] = calls[r] /\ Before(r)' = Before(r) /\ PerBody' = PerBody
    BY DEF Before, PerBody, InRotation
  <2>4. phase'[r] # "backoff"
    BY <2>1 DEF Trying
  <2> QED BY <2>1, <2>2, <2>3, <2>4, Zenon DEF CallsOf
<1> QED BY <1>2, <1>3, <1>4, Zenon DEF CallsInv

LEMMA FirstModeFacts ==
  /\ FirstMode \in {"rotate", "retry"}
  /\ FirstMode = "rotate" => 0 + 1 <= InRotation
  /\ (IF FirstMode = "retry" THEN InRotation ELSE 0) + 0 = 0
  BY PoolAssumption DEF FirstMode, InRotation

LEMMA EnterCalls ==
  ASSUME CallsInv, NEW r \in Requests, Enter(r) PROVE CallsInv'
<1>1. CallsTypeOK /\ calls[r] = 0 /\ bodies[r] = 1 /\ tries[r] = 0
  BY DEF CallsInv, CallsOf, Enter
<1>2. /\ tries' = [tries EXCEPT ![r] = 0] /\ bodies' = [bodies EXCEPT ![r] = 1]
      /\ UNCHANGED now /\ mode' = [mode EXCEPT ![r] = FirstMode]
      /\ WaitIfBlocked(r, FirstMode, 0, pool, blockedUntil)
  BY <1>1 DEF Enter, CallsTypeOK
<1>3. 0 \in PoolKeys /\ 0 \in Nat /\ 1 \in 1 .. MaxBodies /\ pool \in PoolType
  BY <1>1, PoolAssumption, BodiesAssumption DEF PoolKeys, CallsTypeOK
<1>4. FirstMode = "retry" => 0 <= MaxRetries
  BY DelayAssumption
<1>5. calls[r] <= (IF 1 = 1 THEN 0 ELSE PerBody)
                    + ((IF FirstMode = "retry" THEN InRotation ELSE 0) + 0)
  BY <1>1, FirstModeFacts
<1> QED BY <1>2, <1>3, <1>4, <1>5, FirstModeFacts, AttemptInv, Zenon

LEMMA SlotSleepOverCalls ==
  ASSUME CallsInv, NEW r \in Requests, SlotSleepOver(r) PROVE CallsInv'
<1>1. CallsTypeOK /\ CallsOf(r) /\ phase[r] \in Waits
  BY DEF CallsInv, SlotSleepOver, Waits
<1>2. /\ tries' = [tries EXCEPT ![r] = tries[r]]
      /\ bodies' = [bodies EXCEPT ![r] = bodies[r]]
      /\ mode' = [mode EXCEPT ![r] = mode[r]]
      /\ UNCHANGED now /\ Acquire(r, mode[r], key[r], pool)
  BY <1>1 DEF SlotSleepOver, CallsTypeOK
<1>3. /\ mode[r] \in {"rotate", "retry"} /\ key[r] \in PoolKeys /\ pool \in PoolType
      /\ tries[r] \in Nat /\ bodies[r] \in 1 .. MaxBodies
  BY <1>1 DEF CallsTypeOK
<1>4. /\ mode[r] = "rotate" => tries[r] + 1 <= InRotation
      /\ mode[r] = "retry" => tries[r] <= MaxRetries
      /\ calls[r] <= (IF bodies[r] = 1 THEN 0 ELSE PerBody)
                       + ((IF mode[r] = "retry" THEN InRotation ELSE 0) + tries[r])
  BY <1>1, Zenon DEF CallsOf, Before, Within
<1> QED BY <1>2, <1>3, <1>4, AttemptInv, Zenon

LEMMA RotateOn429Calls ==
  ASSUME CallsInv, NEW r \in Requests, RotateOn429(r) PROVE CallsInv'
<1> DEFINE p == Cooled(pool, key[r])
<1>1. /\ CallsTypeOK /\ CallsOf(r) /\ phase[r] \in Trying
      /\ mode[r] = "rotate" /\ mode[r] # "retry"
  BY DEF CallsInv, RotateOn429, Trying
<1>2. /\ key[r] \in PoolKeys /\ pool \in PoolType /\ now \in Nat /\ calls[r] \in Nat
      /\ tries[r] \in Nat /\ bodies[r] \in 1 .. MaxBodies
  BY <1>1 DEF CallsTypeOK
<1>3. p \in PoolType
  BY <1>2, CooledFacts
<1>4. UNCHANGED now /\ bodies' = [bodies EXCEPT ![r] = bodies[r]]
  BY <1>1 DEF RotateOn429, CallsTypeOK
<1>5. calls[r] <= (IF bodies[r] = 1 THEN 0 ELSE PerBody) + (tries[r] + 1)
  <2> DEFINE B == IF bodies[r] = 1 THEN 0 ELSE PerBody
  <2>1. calls[r] <= B + (0 + tries[r]) + 1
    BY <1>1, Zenon DEF CallsOf, Before, Within
  <2>2. B \in Nat
    BY PoolAssumption, DelayAssumption DEF PerBody, InRotation
  <2> HIDE DEF B
  <2>3. calls[r] <= B + (tries[r] + 1)
    BY <1>2, <2>1, <2>2
  <2> QED BY <2>3 DEF B
<1> HIDE DEF p
<1>6. CASE /\ tries[r] + 1 < NumKeys
           /\ tries' = [tries EXCEPT ![r] = @ + 1]
           /\ WaitIfBlocked(r, "rotate", key[r], p, blockedUntil)
           /\ UNCHANGED mode
  <2>1. /\ mode' = [mode EXCEPT ![r] = "rotate"]
        /\ tries' = [tries EXCEPT ![r] = tries[r] + 1]
    BY <1>1, <1>6 DEF CallsTypeOK
  <2>2. tries[r] + 1 \in Nat /\ tries[r] + 1 + 1 <= InRotation
    BY <1>2, <1>6, PoolAssumption DEF InRotation
  <2>3. calls[r] <= (IF bodies[r] = 1 THEN 0 ELSE PerBody)
                      + ((IF "rotate" = "retry" THEN InRotation ELSE 0) + (tries[r] + 1))
    <3>1. (IF "rotate" = "retry" THEN InRotation ELSE 0) + (tries[r] + 1) = tries[r] + 1
      BY <1>2
    <3> QED BY <1>5, <3>1, Zenon
  <2>4. "rotate" \in {"rotate", "retry"} /\ "rotate" # "retry"
    OBVIOUS
  <2>5. WaitIfBlocked(r, "rotate", key[r], p, blockedUntil)
    BY <1>6
  <2> QED BY <1>2, <1>3, <1>4, <2>1, <2>2, <2>3, <2>4, <2>5, AttemptInv, Zenon
<1>7. CASE /\ tries[r] + 1 = NumKeys
           /\ tries' = [tries EXCEPT ![r] = 0]
           /\ mode' = [mode EXCEPT ![r] = "retry"]
           /\ WaitIfBlocked(r, "retry", NextLiveKey(p), Advanced(p), blockedUntil)
  <2>1. NextLiveKey(p) \in PoolKeys /\ Advanced(p) \in PoolType
    BY <1>2, <1>3, NextLiveKeyFacts
  <2>2. 0 \in Nat /\ 0 <= MaxRetries
    BY DelayAssumption
  <2>3. InRotation = NumKeys /\ InRotation + 0 = tries[r] + 1
    <3>1. tries[r] + 1 <= InRotation
      BY <1>1, Zenon DEF CallsOf
    <3> QED BY <1>2, <1>7, <3>1, PoolAssumption DEF InRotation
  <2>4. calls[r] <= (IF bodies[r] = 1 THEN 0 ELSE PerBody)
                      + ((IF "retry" = "retry" THEN InRotation ELSE 0) + 0)
    BY <1>5, <2>3, Zenon
  <2>5. "retry" \in {"rotate", "retry"} /\ "retry" # "rotate"
    OBVIOUS
  <2>6. /\ tries' = [tries EXCEPT ![r] = 0] /\ mode' = [mode EXCEPT ![r] = "retry"]
        /\ WaitIfBlocked(r, "retry", NextLiveKey(p), Advanced(p), blockedUntil)
    BY <1>7
  <2> QED BY <1>2, <1>4, <2>1, <2>2, <2>4, <2>5, <2>6, AttemptInv, Zenon
<1> QED BY <1>6, <1>7, Zenon DEF RotateOn429, p

LEMMA BackoffCalls ==
  ASSUME CallsInv, NEW r \in Requests, Backoff(r) PROVE CallsInv'
<1>1. /\ CallsTypeOK /\ phase[r] = "calling" /\ mode[r] = "retry" /\ tries[r] < MaxRetries
      /\ phase' = [phase EXCEPT ![r] = "backoff"]
      /\ UNCHANGED <<now, pool, mode, key, tries, bodies, calls>>
  BY Zenon DEF CallsInv, Backoff, Sleep, windowVars
<1>2. CallsTypeOK'
  BY <1>1 DEF CallsTypeOK, Phases
<1>3. ASSUME NEW q \in Requests, q # r PROVE CallsOf(q)'
  <2>1. phase'[q] = phase[q]
    BY <1>1, <1>3 DEF CallsTypeOK
  <2>2. CallsOf(q)
    BY DEF CallsInv
  <2> QED BY <1>1, <2>1, <2>2, SameCalls, Zenon
<1>4. CallsOf(r)'
  <2>1. phase'[r] = "backoff" /\ phase[r] \in Trying /\ phase'[r] \notin Waits
    BY <1>1 DEF CallsTypeOK, Waits, Trying
  <2>2. /\ CallsOf(r) /\ Before(r)' = Before(r) /\ Within(r)' = Within(r)
        /\ PerBody' = PerBody
    BY <1>1 DEF CallsInv, Before, Within, InRotation, PerBody
  <2>3. calls[r] <= Before(r) + Within(r) + 1 /\ calls[r] <= Before(r) + PerBody
        /\ tries[r] <= MaxRetries
    BY <1>1, <2>1, <2>2, Zenon DEF CallsOf
  <2>4. "backoff" # "new" /\ "retry" # "rotate"
    OBVIOUS
  <2> QED BY <1>1, <2>1, <2>2, <2>3, <2>4, Zenon DEF CallsOf
<1> QED BY <1>2, <1>3, <1>4, Zenon DEF CallsInv

LEMMA BackoffOverCalls ==
  ASSUME CallsInv, NEW r \in Requests, BackoffOver(r) PROVE CallsInv'
<1>1. /\ CallsTypeOK /\ CallsOf(r) /\ phase[r] = "backoff" /\ phase[r] \in Trying
      /\ WaitIfBlocked(r, "retry", key[r], pool, blockedUntil)
  BY DEF CallsInv, BackoffOver, Trying
<1>2. /\ mode[r] = "retry" /\ tries[r] < MaxRetries
      /\ calls[r] <= (IF bodies[r] = 1 THEN 0 ELSE PerBody) + (InRotation + tries[r]) + 1
  BY <1>1, Zenon DEF CallsOf, Before, Within
<1>3. /\ key[r] \in PoolKeys /\ pool \in PoolType /\ tries[r] \in Nat /\ calls[r] \in Nat
      /\ bodies[r] \in 1 .. MaxBodies /\ MaxRetries \in Nat
  BY <1>1, DelayAssumption DEF CallsTypeOK
<1>4. /\ UNCHANGED now /\ bodies' = [bodies EXCEPT ![r] = bodies[r]]
      /\ mode' = [mode EXCEPT ![r] = "retry"]
      /\ tries' = [tries EXCEPT ![r] = tries[r] + 1]
  BY <1>1, <1>2 DEF BackoffOver, CallsTypeOK
<1>5. tries[r] + 1 \in Nat /\ tries[r] + 1 <= MaxRetries
  BY <1>2, <1>3
<1>6. calls[r] <= (IF bodies[r] = 1 THEN 0 ELSE PerBody)
                    + ((IF "retry" = "retry" THEN InRotation ELSE 0) + (tries[r] + 1))
  <2> DEFINE B == IF bodies[r] = 1 THEN 0 ELSE PerBody
  <2>1. B \in Nat /\ InRotation \in Nat
    BY PoolAssumption, DelayAssumption DEF PerBody, InRotation
  <2>2. calls[r] <= B + (InRotation + tries[r]) + 1
    BY <1>2
  <2> HIDE DEF B
  <2>3. calls[r] <= B + (InRotation + (tries[r] + 1))
    BY <1>3, <2>1, <2>2
  <2>4. calls[r] <= B + ((IF "retry" = "retry" THEN InRotation ELSE 0) + (tries[r] + 1))
    BY <2>3, Zenon
  <2> QED BY <2>4 DEF B
<1>7. "retry" \in {"rotate", "retry"} /\ "retry" # "rotate"
  OBVIOUS
<1> QED BY <1>1, <1>3, <1>4, <1>5, <1>6, <1>7, AttemptInv, Zenon

LEMMA RetryBodyCalls ==
  ASSUME CallsInv, NEW r \in Requests, RetryBody(r) PROVE CallsInv'
<1>1. /\ CallsTypeOK /\ CallsOf(r) /\ bodies[r] < MaxBodies
  BY DEF CallsInv, RetryBody
<1>2. bodies[r] = 1 /\ MaxBodies = 2 /\ pool \in PoolType
  BY <1>1, BodiesAssumption DEF CallsTypeOK
<1>3. /\ UNCHANGED now /\ bodies' = [bodies EXCEPT ![r] = 2]
      /\ mode' = [mode EXCEPT ![r] = FirstMode] /\ tries' = [tries EXCEPT ![r] = 0]
      /\ WaitIfBlocked(r, FirstMode, 0, pool, blockedUntil)
  BY <1>1, <1>2 DEF RetryBody, CallsTypeOK
<1>4. 0 \in PoolKeys /\ 0 \in Nat /\ 2 \in 1 .. MaxBodies
  BY <1>2, PoolAssumption DEF PoolKeys
<1>5. FirstMode = "retry" => 0 <= MaxRetries
  BY DelayAssumption
<1>6. calls[r] <= (IF 2 = 1 THEN 0 ELSE PerBody)
                    + ((IF FirstMode = "retry" THEN InRotation ELSE 0) + 0)
  <2>1. calls[r] <= 0 + PerBody
    BY <1>1, <1>2, Zenon DEF CallsOf, Before
  <2>2. calls[r] \in Nat /\ PerBody \in Nat
    BY <1>1, PoolAssumption, DelayAssumption DEF CallsTypeOK, PerBody, InRotation
  <2> DEFINE W == (IF FirstMode = "retry" THEN InRotation ELSE 0) + 0
  <2>3. W = 0
    BY FirstModeFacts
  <2> HIDE DEF W
  <2>4. calls[r] <= (IF 2 = 1 THEN 0 ELSE PerBody) + W
    BY <2>1, <2>2, <2>3
  <2> QED BY <2>4 DEF W
<1> QED BY <1>2, <1>3, <1>4, <1>5, <1>6, FirstModeFacts, AttemptInv, Zenon

LEMMA EndingCalls ==
  ASSUME CallsInv, NEW r \in Requests,
         \/ RetriesExhausted(r) \/ CallFails(r) \/ Opened(r) \/ StreamEnds(r)
         \/ Cancelled(r)
  PROVE  CallsInv'
<1>1. \E how \in {"failed", "streaming", "done"} : Ends(r, how)
  BY DEF RetriesExhausted, CallFails, Opened, StreamEnds, Cancelled
<1> QED BY <1>1, EndsInv DEF Ends, windowVars

LEMMA CallsStep == CallsInv /\ [Next]_vars => CallsInv'
<1> SUFFICES ASSUME CallsInv, [Next]_vars PROVE CallsInv'
  OBVIOUS
<1>1. CASE Passing \/ UNCHANGED vars
  <2>1. now' \in Nat /\ UNCHANGED <<pool, phase, mode, key, tries, bodies, calls>>
    BY <1>1 DEF CallsInv, CallsTypeOK, Passing, Tick, vars, reqVars, windowVars
  <2>2. CallsTypeOK'
    BY <2>1 DEF CallsInv, CallsTypeOK
  <2>3. ASSUME NEW q \in Requests PROVE CallsOf(q)'
    BY <2>1, SameCalls DEF CallsInv
  <2> QED BY <2>2, <2>3, Zenon DEF CallsInv
<1>2. ASSUME NEW r \in Requests,
             \/ Enter(r) \/ SlotSleepOver(r) \/ RotateOn429(r) \/ Backoff(r)
             \/ BackoffOver(r) \/ RetriesExhausted(r) \/ CallFails(r) \/ RetryBody(r)
             \/ Opened(r) \/ StreamEnds(r) \/ Cancelled(r)
      PROVE  CallsInv'
  BY <1>2, EnterCalls, SlotSleepOverCalls, RotateOn429Calls, BackoffCalls,
     BackoffOverCalls, RetryBodyCalls, EndingCalls, Zenon
<1> QED BY <1>1, <1>2, Zenon DEF Next

LEMMA CallsInit == Init => CallsInv
<1> SUFFICES ASSUME Init PROVE CallsInv
  OBVIOUS
<1>1. 1 \in 1 .. MaxBodies /\ 0 \in PoolKeys
  BY PoolAssumption, BodiesAssumption DEF PoolKeys
<1>2. CallsTypeOK
  BY <1>1 DEF Init, WindowInit, CallsTypeOK, PoolType, Phases
<1>3. ASSUME NEW r \in Requests PROVE CallsOf(r)
  <2>1. phase[r] = "new" /\ calls[r] = 0 /\ bodies[r] = 1 /\ tries[r] = 0
    BY DEF Init
  <2>2. 0 <= 0 + PerBody
    BY PoolAssumption, DelayAssumption DEF PerBody, InRotation
  <2>3. "new" \notin Waits \cup Trying /\ "new" # "backoff"
    BY DEF Waits, Trying
  <2> QED BY <2>1, <2>2, <2>3 DEF CallsOf, Before
<1> QED BY <1>2, <1>3, Zenon DEF CallsInv

\* The inductive invariant: the calls of each request by body, mode and attempt.
THEOREM CallsInvariant == Spec => []CallsInv
  BY CallsInit, CallsStep, PTL DEF Spec

\* A request gives up: for each body, one call per key of the rotation, the
\* fallback call and its retries, whoever else blocks, cools keys or cancels
\* (openai_compat._create_with_key_rotation, execute_with_retry).
THEOREM CallsBoundedTheorem == Spec => []CallsBounded
<1>1. CallsInv => CallsBounded
  <2> SUFFICES ASSUME CallsInv, NEW r \in Requests
               PROVE  calls[r] <= bodies[r] * PerBody
    BY DEF CallsBounded, PerBody, InRotation
  <2>1. calls[r] <= Before(r) + PerBody /\ bodies[r] \in {1, 2}
    BY BodiesAssumption DEF CallsInv, CallsTypeOK, CallsOf
  <2>2. PerBody \in Nat
    BY PoolAssumption, DelayAssumption DEF PerBody, InRotation
  <2>3. CASE bodies[r] = 1
    BY <2>1, <2>2, <2>3 DEF Before
  <2>4. CASE bodies[r] = 2
    BY <2>1, <2>2, <2>4 DEF Before
  <2> QED BY <2>1, <2>3, <2>4
<1> QED BY <1>1, CallsInvariant, PTL

-----------------------------------------------------------------------------
(* What a call may not do *)

\* Of the actions with an attempt in them: whose call starts, and with which key.
Cools ==
  \A q \in Requests : CallStarts(q) /\ mode'[q] = "rotate" =>
    \/ pool'.cooldown[key'[q]] <= now
    \/ \A k \in PoolKeys : pool'.cooldown[k] > now

Waited ==
  \A q \in Requests : CallStarts(q) /\ now < blockedUntil => phase[q] \in Waits

LEMMA NoCall ==
  ASSUME UNCHANGED calls PROVE Cools /\ Waited
  BY Zenon DEF CallStarts, Cools, Waited

LEMMA AttemptCools ==
  ASSUME CallsTypeOK,
         NEW r \in Requests, NEW m \in {"rotate", "retry"}, NEW k \in PoolKeys,
         NEW p \in PoolType, NEW until,
         WaitIfBlocked(r, m, k, p, until) \/ Acquire(r, m, k, p), mode'[r] = m
  PROVE  Cools
<1>1. PICK h \in Waits \cup {"calling"}, n \in {0, 1}, j \in PoolKeys :
         Attempt(r, m, p, h, n, j)
  BY AttemptEffect, Zenon
<1> SUFFICES ASSUME NEW q \in Requests, CallStarts(q), mode'[q] = "rotate"
             PROVE  \/ pool'.cooldown[key'[q]] <= now
                    \/ \A i \in PoolKeys : pool'.cooldown[i] > now
  BY DEF Cools
<1>2. q = r /\ n = 1 /\ key'[r] = j
  BY <1>1 DEF CallStarts, Attempt, CallsTypeOK
<1>3. j = NextLiveKey(p) /\ pool' = Advanced(p)
  BY <1>1, <1>2 DEF Attempt
<1>4. now \in Nat
  BY DEF CallsTypeOK
<1>5. Advanced(p).cooldown = p.cooldown
  BY <1>4, NextLiveKeyFacts
<1>6. p.cooldown[j] <= now \/ \A i \in PoolKeys : p.cooldown[i] > now
  BY <1>3, <1>4, NextLiveKeyFacts
<1> QED BY <1>2, <1>3, <1>5, <1>6

LEMMA AttemptWaits ==
  ASSUME CallsTypeOK,
         NEW r \in Requests, NEW m \in {"rotate", "retry"}, NEW k \in PoolKeys,
         NEW p \in PoolType,
         \/ WaitIfBlocked(r, m, k, p, blockedUntil)
         \/ Acquire(r, m, k, p) /\ phase[r] \in Waits
  PROVE  Waited
<1>1. PICK h \in Waits \cup {"calling"}, n \in {0, 1}, j \in PoolKeys :
         Attempt(r, m, p, h, n, j)
  BY AttemptEffect, Zenon
<1>2. \A q \in Requests : CallStarts(q) => q = r /\ n = 1 /\ phase' = [phase EXCEPT ![r] = h]
                                           /\ h = "calling"
  BY <1>1 DEF CallStarts, Attempt, CallsTypeOK
<1>3. CASE Acquire(r, m, k, p) /\ phase[r] \in Waits
  BY <1>2, <1>3 DEF Waited
<1>4. CASE now < blockedUntil /\ WaitIfBlocked(r, m, k, p, blockedUntil)
  <2>1. phase' = [phase EXCEPT ![r] = "paused"]
    BY <1>4 DEF WaitIfBlocked, Sleep
  <2>2. \A q \in Requests : ~CallStarts(q)
    BY <1>2, <2>1 DEF CallsTypeOK
  <2> QED BY <2>2 DEF Waited
<1>5. CASE ~(now < blockedUntil)
  BY <1>5 DEF Waited
<1> QED BY <1>3, <1>4, <1>5

LEMMA StepCalls == CallsInv /\ [Next]_vars => Cools /\ Waited
<1> SUFFICES ASSUME CallsInv, [Next]_vars PROVE Cools /\ Waited
  OBVIOUS
<1>1. /\ CallsTypeOK /\ pool \in PoolType /\ 0 \in PoolKeys
      /\ \A r \in Requests :
           mode[r] \in {"rotate", "retry"} /\ key[r] \in PoolKeys /\ now \in Nat
  BY PoolAssumption DEF CallsInv, CallsTypeOK, PoolKeys
<1>2. FirstMode \in {"rotate", "retry"} /\ "rotate" \in {"rotate", "retry"}
      /\ "retry" \in {"rotate", "retry"}
  BY FirstModeFacts
<1>3. ASSUME NEW r \in Requests, Enter(r) \/ RetryBody(r) PROVE Cools /\ Waited
  <2>1. WaitIfBlocked(r, FirstMode, 0, pool, blockedUntil) /\ mode'[r] = FirstMode
    BY <1>1, <1>3 DEF Enter, RetryBody, CallsTypeOK
  <2> QED BY <1>1, <1>2, <2>1, AttemptCools, AttemptWaits, Zenon
<1>4. ASSUME NEW r \in Requests, SlotSleepOver(r) PROVE Cools /\ Waited
  <2>1. /\ Acquire(r, mode[r], key[r], pool) /\ mode'[r] = mode[r]
        /\ phase[r] \in Waits
    BY <1>4 DEF SlotSleepOver, Waits
  <2> QED BY <1>1, <2>1, AttemptCools, AttemptWaits, Zenon
<1>5. ASSUME NEW r \in Requests, RotateOn429(r) PROVE Cools /\ Waited
  <2> DEFINE p == Cooled(pool, key[r])
  <2>1. p \in PoolType
    BY <1>1, CooledFacts
  <2>2. NextLiveKey(p) \in PoolKeys /\ Advanced(p) \in PoolType
    BY <1>1, <2>1, NextLiveKeyFacts
  <2> HIDE DEF p
  <2>3. CASE WaitIfBlocked(r, "rotate", key[r], p, blockedUntil) /\ mode'[r] = "rotate"
    BY <1>1, <1>2, <2>1, <2>3, AttemptCools, AttemptWaits, Zenon
  <2>4. CASE /\ WaitIfBlocked(r, "retry", NextLiveKey(p), Advanced(p), blockedUntil)
             /\ mode'[r] = "retry"
    BY <1>1, <1>2, <2>2, <2>4, AttemptCools, AttemptWaits, Zenon
  <2>5. mode' = [mode EXCEPT ![r] = "retry"] => mode'[r] = "retry"
    BY <1>1 DEF CallsTypeOK
  <2> QED BY <1>5, <2>3, <2>4, <2>5, Zenon DEF RotateOn429, p
<1>6. ASSUME NEW r \in Requests, BackoffOver(r) PROVE Cools /\ Waited
  <2>1. /\ WaitIfBlocked(r, "retry", key[r], pool, blockedUntil)
        /\ mode'[r] = mode[r] /\ phase[r] = "backoff"
    BY <1>6 DEF BackoffOver
  <2>2. mode[r] = "retry"
    BY <2>1, Zenon DEF CallsInv, CallsOf
  <2> QED BY <1>1, <1>2, <2>1, <2>2, AttemptCools, AttemptWaits, Zenon
<1>7. ASSUME NEW r \in Requests,
             \/ Backoff(r) \/ RetriesExhausted(r) \/ CallFails(r)
             \/ Opened(r) \/ StreamEnds(r) \/ Cancelled(r)
      PROVE  Cools /\ Waited
  <2>1. UNCHANGED calls
    BY <1>7, Zenon DEF Backoff, RetriesExhausted, CallFails, Opened, StreamEnds, Cancelled,
       Ends
  <2> QED BY <2>1, NoCall
<1>8. CASE Passing \/ UNCHANGED vars
  BY <1>8, NoCall DEF Passing, vars, reqVars
<1> QED BY <1>3, <1>4, <1>5, <1>6, <1>7, <1>8, Zenon DEF Next

\* The rotation calls a key that still cools, whichever request found it over
\* quota, only when every key does (key_pool.py next_live_key).
THEOREM CoolingKeyLastTheorem == Spec => CoolingKeyLast
<1>1. CallsInv /\ [Next]_vars =>
        [\A r \in Requests : CallStarts(r) /\ mode'[r] = "rotate" =>
           \/ pool'.cooldown[key'[r]] <= now
           \/ \A k \in PoolKeys : pool'.cooldown[k] > now]_vars
  BY StepCalls, Zenon DEF Cools
<1> QED BY <1>1, CallsInvariant, PTL DEF Spec, CoolingKeyLast

\* A reactive block lets no call through but those of requests already asleep
\* in wait_if_blocked, or between it and the window, when it was set.
THEOREM BlockStopsOthersTheorem == Spec => BlockStopsOthers
<1>1. CallsInv /\ [Next]_vars =>
        [\A r \in Requests : CallStarts(r) /\ now < blockedUntil =>
           phase[r] \in {"paused", "throttled"}]_vars
  BY StepCalls, Zenon DEF Waited, Waits
<1> QED BY <1>1, CallsInvariant, PTL DEF Spec, BlockStopsOthers

-----------------------------------------------------------------------------
(* Calls and acquisitions *)

\* Where a request is let through the limiter it calls, and nowhere else.
LEMMA CallIsGrant ==
  ASSUME NEW r, NEW m, NEW k, NEW p, NEW until,
         WaitIfBlocked(r, m, k, p, until) \/ Acquire(r, m, k, p)
  PROVE  \/ grants' = Append(grants, now) /\ calls' = [calls EXCEPT ![r] = @ + 1]
         \/ UNCHANGED <<grants, calls>>
  BY DEF WaitIfBlocked, Acquire, Granted, Refused, OpenStream

LEMMA StepCallsGranted ==
  ASSUME [Next]_vars
  PROVE  \/ \E r \in Requests : grants' = Append(grants, now)
                                /\ calls' = [calls EXCEPT ![r] = @ + 1]
         \/ UNCHANGED <<grants, calls>>
<1>1. CASE Passing \/ UNCHANGED vars
  BY <1>1 DEF Passing, Tick, vars, windowVars, reqVars
<1>2. ASSUME NEW r \in Requests,
             \/ Enter(r) \/ SlotSleepOver(r) \/ RotateOn429(r) \/ BackoffOver(r)
             \/ RetryBody(r)
      PROVE  \/ grants' = Append(grants, now) /\ calls' = [calls EXCEPT ![r] = @ + 1]
             \/ UNCHANGED <<grants, calls>>
  BY <1>2, CallIsGrant, Zenon DEF Enter, SlotSleepOver, RotateOn429, BackoffOver, RetryBody
<1>3. ASSUME NEW r \in Requests,
             \/ Backoff(r) \/ RetriesExhausted(r) \/ CallFails(r)
             \/ Opened(r) \/ StreamEnds(r) \/ Cancelled(r)
      PROVE  UNCHANGED <<grants, calls>>
  BY <1>3 DEF Backoff, RetriesExhausted, CallFails, Opened, StreamEnds, Cancelled, Ends,
     windowVars
<1> QED BY <1>1, <1>2, <1>3 DEF Next

LEMMA MadeCalls ==
  /\ \A c : c \in Made <=> \E q \in Requests : \E i \in 1 .. calls[q] : c = <<q, i>>
  /\ \A c : c \in Made' <=> \E q \in Requests : \E i \in 1 .. calls'[q] : c = <<q, i>>
  BY DEF Made

\* The inductive invariant: as many numbered calls as acquisitions.
CallGrants ==
  /\ now \in Nat /\ grants \in Seq(Nat) /\ calls \in [Requests -> Nat]
  /\ IsFiniteSet(Made) /\ EveryCallGranted

LEMMA CallGrantsStep == WindowInv /\ WindowInv' /\ CallGrants /\ [Next]_vars => CallGrants'
<1> SUFFICES ASSUME WindowInv, WindowInv', CallGrants, [Next]_vars PROVE CallGrants'
  OBVIOUS
<1>1. now' \in Nat /\ grants' \in Seq(Nat)
  BY DEF WindowInv, WindowTypeOK
<1>2. CASE UNCHANGED <<grants, calls>>
  <2>1. Made' = Made
    BY <1>2 DEF Made
  <2> QED BY <1>1, <1>2, <2>1 DEF CallGrants, EveryCallGranted
<1>3. ASSUME NEW r \in Requests, grants' = Append(grants, now),
             calls' = [calls EXCEPT ![r] = @ + 1]
      PROVE  CallGrants'
  <2> DEFINE new == <<r, calls[r] + 1>>
  <2>1. /\ calls \in [Requests -> Nat] /\ calls[r] \in Nat
        /\ calls' \in [Requests -> Nat] /\ calls'[r] = calls[r] + 1
        /\ \A q \in Requests \ {r} : calls'[q] = calls[q]
    BY <1>3 DEF CallGrants
  <2>2. new \notin Made
    BY <2>1, MadeCalls
  <2>3. Made' = Made \cup {new}
    <3>1. ASSUME NEW c \in Made' PROVE c \in Made \cup {new}
      <4>0. PICK q \in Requests : \E i \in 1 .. calls'[q] : c = <<q, i>>
        BY <3>1, MadeCalls
      <4>1. PICK i \in 1 .. calls'[q] : c = <<q, i>>
        BY <4>0
      <4>2. i \in 1 .. calls[q] \/ (q = r /\ i = calls[r] + 1)
        BY <2>1, <4>1
      <4> QED BY <4>1, <4>2, MadeCalls
    <3>2. ASSUME NEW c \in Made PROVE c \in Made'
      <4>0. PICK q \in Requests : \E i \in 1 .. calls[q] : c = <<q, i>>
        BY <3>2, MadeCalls
      <4>1. PICK i \in 1 .. calls[q] : c = <<q, i>>
        BY <4>0
      <4>2. i \in 1 .. calls'[q]
        BY <2>1, <4>1
      <4> QED BY <4>1, <4>2, MadeCalls
    <3>3. new \in Made'
      <4>1. calls[r] + 1 \in 1 .. calls'[r]
        BY <2>1
      <4> QED BY <4>1, MadeCalls
    <3> HIDE DEF new
    <3> QED BY <3>1, <3>2, <3>3
  <2> HIDE DEF new
  <2>4. IsFiniteSet(Made) /\ Cardinality(Made) = Len(grants) /\ grants \in Seq(Nat)
    BY DEF CallGrants, EveryCallGranted
  <2>5. IsFiniteSet(Made') /\ Cardinality(Made') = Cardinality(Made) + 1
    BY <2>2, <2>3, <2>4, FS_AddElement
  <2>6. Len(grants') = Len(grants) + 1
    BY <1>3, <2>4 DEF CallGrants
  <2> QED BY <1>1, <2>1, <2>4, <2>5, <2>6 DEF CallGrants, EveryCallGranted
<1> QED BY <1>2, <1>3, StepCallsGranted

\* Every call upstream, first, rotated or retried, has an acquisition of its own
\* (providers/rate_limit.py execute_with_retry, wait_if_blocked): with
\* ProviderWithinWindow, the calls themselves keep to the window.
THEOREM EveryCallGrantedTheorem == Spec => []EveryCallGranted
<1>1. Init => CallGrants
  <2> SUFFICES ASSUME Init PROVE CallGrants
    OBVIOUS
  <2>1. now = 0 /\ grants = <<>> /\ calls = [r \in Requests |-> 0]
    BY DEF Init, WindowInit
  <2>2. Made = {}
    BY <2>1, MadeCalls
  <2> QED BY <2>1, <2>2, FS_EmptySet DEF CallGrants, EveryCallGranted
<1>2. CallGrants => EveryCallGranted
  BY DEF CallGrants
<1>3. Spec => []WindowInv
  <2>1. WindowInit => WindowInv
    BY WindowInitInv
  <2>2. WindowInv /\ [WindowNext]_windowVars => WindowInv'
    BY WindowInvInductive
  <2>3. WindowSpec => []WindowInv
    BY <2>1, <2>2, PTL DEF WindowSpec
  <2> QED BY <2>3, ProviderUsesWindow, PTL
<1> QED BY <1>1, <1>2, <1>3, CallGrantsStep, PTL DEF Spec

-----------------------------------------------------------------------------
(* Settings, registries and cached providers *)

RequestType ==
  [phase : {"idle", "reading", "called", "streaming"}, values : Files \cup {None},
   since : Nat \cup {None}, using : Nat \cup {None}]

SettingsType == [values : Files, overtaken : BOOLEAN]

ApplyType ==
  [phase : {"idle", "starting", "cleaning"}, registry : Nat, left : Seq(Nat),
   failed : BOOLEAN]

ObjectType == [values : Files \cup {None}, closed : BOOLEAN, late : BOOLEAN]

ReconfigureType ==
  /\ layers \in Layers
  /\ settings \in SettingsType \cup {None}
  /\ cache \in Seq([Providers -> Nat \cup {None}]) /\ current \in 1 .. Len(cache)
  /\ objects \in Seq(ObjectType)
  /\ request \in [Users -> RequestType]
  /\ apply \in [Admins -> ApplyType]
  /\ restarting \in BOOLEAN /\ writes \in Nat

\* A provider in a cache is one that was made, and in the cache of one registry.
CacheInv ==
  /\ \A r \in 1 .. Len(cache), p \in Providers :
       cache[r][p] # None => cache[r][p] \in 1 .. Len(objects)
  /\ \A r, s \in 1 .. Len(cache), p, q \in Providers :
       cache[r][p] = cache[s][q] /\ cache[r][p] # None => r = s

\* What an apply has still to close is in the cache of its registry, or in none.
LeftInv ==
  \A a \in Admins :
    /\ apply[a].phase # "idle" => apply[a].registry \in 1 .. Len(cache)
    /\ apply[a].left # <<>> => apply[a].phase = "cleaning"
    /\ \A i \in 1 .. Len(apply[a].left) :
         /\ apply[a].left[i] \in 1 .. Len(objects)
         /\ \A r \in 1 .. Len(cache), p \in Providers :
              cache[r][p] = apply[a].left[i] => r = apply[a].registry

\* Settings are in effect if they are cached, or were read since the last write;
\* unless the cache was filled by one a write overtook.
FreshInv ==
  /\ settings # None /\ ~settings.overtaken => settings.values = SettingsOf(layers)
  /\ \A q \in Users :
       /\ request[q].since # None => request[q].since <= writes
       /\ request[q].phase # "idle" => request[q].values \in Files
       /\ request[q].phase # "idle" /\ request[q].since = writes =>
            request[q].values = SettingsOf(layers)

ConfigInv ==
  ReconfigureType /\ CacheInv /\ LeftInv /\ FreshInv /\ ClosedOnlyInCleanup /\ InUseIsUpToDate

-----------------------------------------------------------------------------
(* The files *)

LEMMA ShownType ==
  ASSUME NEW ls \in Layers
  PROVE  /\ SettingsOf(ls) \in Files /\ Shown(ls) \in Files
         /\ \A k \in Keys : Shown(ls)[k] # Absent
<1>1. ASSUME NEW k \in Keys
      PROVE  /\ Dotenv(ls, k) \in Values \cup BadValues \cup {Masked, Absent}
             /\ ls.process[k] \in Values \cup BadValues \cup {Masked, Absent}
             /\ Template[k] \in Values /\ Defaults[k] \in Values
  BY ConfigAssumption DEF Dotenv, Or, Files, Layers
<1>2. Shown(ls) \in Files /\ \A k \in Keys : Shown(ls)[k] # Absent
  BY <1>1, ConfigAssumption DEF Shown, Or, Files
<1>3. SettingsOf(ls) \in Files
  BY <1>1, ConfigAssumption DEF SettingsOf, Or, Files
<1> QED BY <1>2, <1>3

LEMMA UpdateType ==
  ASSUME NEW updates \in Updates
  PROVE  /\ DOMAIN updates \in (SUBSET Keys) \ {{}}
         /\ updates \in [DOMAIN updates -> Values \cup BadValues \cup {Masked}]
BY DEF Updates

LEMMA TargetType ==
  ASSUME NEW ls \in Layers, NEW updates \in Updates
  PROVE  Target(ls, updates) \in Files
<1>1. Seed(ls) \in Files
  BY ShownType, ConfigAssumption DEF Seed, Or, Files, Layers
<1> QED BY <1>1, UpdateType DEF Target, Written, Files

\* What a write does to the settings.
LEMMA WriteEffect ==
  ASSUME NEW ls \in Layers, NEW updates \in Updates, Sendable(updates),
         NEW new, new = [ls EXCEPT !.managed = Target(ls, updates)],
         NEW k \in Keys
  PROVE  IF k \in DOMAIN updates /\ updates[k] # Masked /\ ~Locked(ls, k)
         THEN SettingsOf(new)[k] = updates[k]
         ELSE \/ SettingsOf(new)[k] = SettingsOf(ls)[k]
              \/ ls.managed[k] = Absent /\ SettingsOf(new)[k] = Template[k]
<1>1. /\ new.repo = ls.repo /\ new.process = ls.process /\ new.explicit = ls.explicit
      /\ new.managed = Target(ls, updates)
  BY DEF Layers
<1>2. Template[k] # Absent
  BY ConfigAssumption
<1>3. Written(ls, updates, k) <=> k \in DOMAIN updates /\ updates[k] # Masked /\ ~Locked(ls, k)
  BY DEF Written, Sendable
<1>4. CASE Written(ls, updates, k)
  <2>1. k \in DOMAIN updates /\ ls.process[k] = Absent /\ ls.explicit[k] = Absent
    BY <1>3, <1>4 DEF Locked
  <2>2. updates[k] # Absent
    BY <2>1, UpdateType, ConfigAssumption
  <2>3. new.managed[k] = updates[k]
    BY <1>1, <1>4 DEF Target
  <2>4. Dotenv(new, k) = updates[k]
    BY <1>1, <2>1, <2>2, <2>3 DEF Dotenv, Or
  <2>5. SettingsOf(new)[k] = updates[k]
    BY <1>1, <2>1, <2>2, <2>4 DEF SettingsOf, Or
  <2> QED BY <1>3, <1>4, <2>5
<1>5. CASE ~Written(ls, updates, k)
  <2>1. new.managed[k] = Seed(ls)[k]
    BY <1>1, <1>5 DEF Target
  <2>2. CASE ls.managed[k] # Absent
    <3>1. ls.managed # EmptyFile
      BY <2>2 DEF EmptyFile
    <3>2. new.managed[k] = ls.managed[k]
      BY <2>1, <2>2, <3>1 DEF Seed, Or
    <3>3. Dotenv(new, k) = Dotenv(ls, k)
      BY <1>1, <3>2 DEF Dotenv
    <3>4. SettingsOf(new)[k] = SettingsOf(ls)[k]
      BY <1>1, <3>3 DEF SettingsOf
    <3> QED BY <1>3, <1>5, <3>4
  <2>3. CASE ls.managed[k] = Absent
    <3>1. \/ new.managed[k] = Template[k]
          \/ ls.repo[k] # Absent /\ new.managed[k] = ls.repo[k]
      <4>1. CASE ls.managed # EmptyFile
        BY <2>1, <2>3, <4>1 DEF Seed, Or
      <4>2. CASE ls.managed = EmptyFile /\ Locked(ls, k)
        BY <2>1, <4>2 DEF Seed
      <4>3. CASE ls.managed = EmptyFile /\ ~Locked(ls, k)
        <5>1. new.managed[k] = Shown(ls)[k]
          BY <2>1, <4>3 DEF Seed
        <5>2. Shown(ls)[k] = Or(ls.repo[k], Template[k])
          BY <2>3, <4>3 DEF Shown, Dotenv, Or, Locked
        <5> QED BY <5>1, <5>2 DEF Or
      <4> QED BY <4>1, <4>2, <4>3
    <3>2. CASE ls.explicit[k] # Absent
      <4>1. Dotenv(new, k) = Dotenv(ls, k)
        BY <1>1, <3>2 DEF Dotenv, Or
      <4>2. SettingsOf(new)[k] = SettingsOf(ls)[k]
        BY <1>1, <4>1 DEF SettingsOf
      <4> QED BY <1>3, <1>5, <4>2
    <3>3. CASE ls.explicit[k] = Absent
      <4>1. Dotenv(new, k) = new.managed[k] /\ Dotenv(ls, k) = ls.repo[k] /\ new.managed[k] # Absent
        BY <1>1, <1>2, <2>3, <3>1, <3>3 DEF Dotenv, Or
      <4>2. CASE new.managed[k] = Template[k]
        <5>1. SettingsOf(new)[k] = Template[k] \/ SettingsOf(new)[k] = SettingsOf(ls)[k]
          BY <1>1, <1>2, <4>1, <4>2 DEF SettingsOf, Or
        <5> QED BY <1>3, <1>5, <2>3, <5>1
      <4>3. CASE new.managed[k] = ls.repo[k]
        <5>1. SettingsOf(new)[k] = SettingsOf(ls)[k]
          BY <1>1, <4>1, <4>3 DEF SettingsOf
        <5> QED BY <1>3, <1>5, <5>1
      <4> QED BY <3>1, <4>2, <4>3
    <3> QED BY <3>2, <3>3
  <2> QED BY <2>2, <2>3
<1> QED BY <1>4, <1>5

-----------------------------------------------------------------------------
(* Cleanups *)

LEMMA SetToSeqFacts ==
  ASSUME NEW S, IsFiniteSet(S)
  PROVE  /\ SetToSeq(S) \in Seq(S)
         /\ \A i \in 1 .. Len(SetToSeq(S)) : SetToSeq(S)[i] \in S
         /\ S \subseteq Nat => SetToSeq(S) \in Seq(Nat)
<1>1. Cardinality(S) \in Nat /\ \E f \in [1 .. Cardinality(S) -> S] : IsInjective(f)
  BY FS_CardinalityType DEF ExistsBijection, Bijection, Injection
<1>2. SetToSeq(S) \in [1 .. Cardinality(S) -> S]
  BY <1>1 DEF SetToSeq
<1> QED BY <1>1, <1>2

LEMMA CleanupFacts ==
  ASSUME ReconfigureType, NEW r \in 1 .. Len(cache)
  PROVE  /\ Cleanup(r) \in ApplyType
         /\ Cleanup(r).registry = r /\ Cleanup(r).phase \in {"starting", "cleaning"}
         /\ Cleanup(r).left # <<>> => Cleanup(r).phase = "cleaning"
         /\ \A i \in 1 .. Len(Cleanup(r).left) :
              \E p \in Providers : Cleanup(r).left[i] = cache[r][p] /\ cache[r][p] # None
<1> DEFINE Held == {cache[r][p] : p \in Providers}
           S == Held \ {None}
<1>0. cache[r] \in [Providers -> Nat \cup {None}]
  BY DEF ReconfigureType
<1>1. IsFiniteSet(S)
  <2>1. cache[r] \in Surjection(Providers, Held)
    BY <1>0 DEF Surjection
  <2>2. IsFiniteSet(Held)
    BY <2>1, FS_Surjection, ReconfigureAssumption
  <2> QED BY <2>2, FS_Difference
<1>2. /\ S \subseteq Nat
      /\ \A x \in S : \E p \in Providers : x = cache[r][p] /\ cache[r][p] # None
  BY <1>0
<1>3. SetToSeq(S) \in Seq(Nat) /\ \A i \in 1 .. Len(SetToSeq(S)) : SetToSeq(S)[i] \in S
  <2> HIDE DEF S
  <2> QED BY <1>1, <1>2, SetToSeqFacts
<1> HIDE DEF S
<1>4. Cleanup(r) =
        [NotApplying EXCEPT
           !.registry = r,
           !.phase = IF request[Refresh].phase = "idle" THEN "cleaning" ELSE "starting",
           !.left = IF request[Refresh].phase = "idle" THEN SetToSeq(S) ELSE <<>>]
  BY DEF Cleanup, S
<1>5. CASE request[Refresh].phase = "idle"
  <2>1. Cleanup(r) = [phase |-> "cleaning", registry |-> r, left |-> SetToSeq(S),
                      failed |-> FALSE]
    BY <1>4, <1>5 DEF NotApplying
  <2> QED BY <1>2, <1>3, <2>1 DEF ApplyType
<1>6. CASE request[Refresh].phase # "idle"
  <2>1. Cleanup(r) = [phase |-> "starting", registry |-> r, left |-> <<>>, failed |-> FALSE]
    BY <1>4, <1>6 DEF NotApplying
  <2> QED BY <2>1 DEF ApplyType
<1> QED BY <1>5, <1>6

-----------------------------------------------------------------------------
(* Steps *)

LEMMA UsingFacts ==
  ASSUME NEW r \in RequestType, NEW n \in Nat, NEW s,
         s = [r EXCEPT !.phase = "streaming", !.using = n]
  PROVE  /\ s \in RequestType
         /\ s.values = r.values /\ s.since = r.since /\ s.phase = "streaming"
<1>1. s.values = r.values /\ s.since = r.since /\ s.phase = "streaming"
  BY DEF RequestType
<1>2. s \in RequestType
  BY Zenon DEF RequestType
<1> QED BY <1>1, <1>2

LEMMA ClosedOneFacts ==
  ASSUME NEW r \in ApplyType, NEW failed \in BOOLEAN, NEW s, Tail(r.left) \in Seq(Nat),
         s = OneClosed(r, failed)
  PROVE  /\ s \in ApplyType
         /\ s.phase = r.phase /\ s.registry = r.registry /\ s.left = Tail(r.left)
<1>1. s.phase = r.phase /\ s.registry = r.registry /\ s.left = Tail(r.left)
  BY DEF ApplyType, OneClosed
<1>2. s \in ApplyType
  BY Zenon DEF ApplyType, OneClosed
<1> QED BY <1>1, <1>2

LEMMA ClosedFacts ==
  ASSUME NEW o \in ObjectType, NEW s, s = [o EXCEPT !.closed = TRUE]
  PROVE  s \in ObjectType /\ s.values = o.values /\ s.late = o.late
<1>1. s \in ObjectType
  BY Zenon DEF ObjectType
<1>2. s.values = o.values /\ s.late = o.late
  BY DEF ObjectType
<1> QED BY <1>1, <1>2

\* What a request's step leaves of the requests.
LEMMA ResolveEffect ==
  ASSUME ReconfigureType, NEW q \in Users, NEW p \in Providers, Resolve(q, p)
  PROVE  /\ request' \in [Users -> RequestType]
         /\ \A u \in Users : /\ request'[u].values = request[u].values
                             /\ request'[u].since = request[u].since
                             /\ request'[u].phase = "idle" <=> request[u].phase = "idle"
         /\ \/ UNCHANGED <<cache, objects>>
            \/ \E o : /\ objects' = Append(objects, o)
                      /\ o \in ObjectType
                      /\ o.values = request[q].values /\ ~o.closed
                      /\ o.late <=> request[q].since # writes
                      /\ cache' = [cache EXCEPT ![current][p] = Len(objects')]
                      /\ cache[current][p] = None
<1>1. /\ request[q] \in RequestType /\ request[q].phase # "idle"
      /\ cache[current][p] \in Nat \cup {None} /\ objects \in Seq(ObjectType)
  BY DEF ReconfigureType, Resolve
<1>2. ASSUME NEW n \in Nat,
             request' = [request EXCEPT ![q] = Using(q, n)]
      PROVE  /\ request' \in [Users -> RequestType]
             /\ \A u \in Users : /\ request'[u].values = request[u].values
                                 /\ request'[u].since = request[u].since
                                 /\ request'[u].phase = "idle" <=> request[u].phase = "idle"
  <2> DEFINE s == Using(q, n)
  <2>1. s = [request[q] EXCEPT !.phase = "streaming", !.using = n]
    BY DEF Using
  <2>2. request' = [request EXCEPT ![q] = s]
    BY <1>2
  <2> HIDE DEF s
  <2>3. /\ s \in RequestType /\ s.phase = "streaming"
        /\ s.values = request[q].values /\ s.since = request[q].since
    BY <1>1, <2>1, UsingFacts
  <2> QED BY <1>1, <2>2, <2>3 DEF ReconfigureType
<1>3. CASE cache[current][p] # None
  BY <1>1, <1>2, <1>3 DEF Resolve
<1>4. CASE cache[current][p] = None
  <2> DEFINE late == request[q].since # writes
             o == [values |-> request[q].values, closed |-> FALSE, late |-> late]
  <2>1. /\ objects' = Append(objects, o) /\ cache' = [cache EXCEPT ![current][p] = Len(objects')]
        /\ request' = [request EXCEPT ![q] = Using(q, Len(objects'))]
    BY <1>4 DEF Resolve
  <2>2. /\ o \in ObjectType /\ o.values = request[q].values /\ ~o.closed
        /\ o.late <=> request[q].since # writes
    <3>1. late \in BOOLEAN /\ (late <=> request[q].since # writes)
      OBVIOUS
    <3> HIDE DEF late
    <3> QED BY <1>1, <3>1 DEF RequestType, ObjectType
  <2> HIDE DEF o
  <2>3. Len(objects') \in Nat
    BY <1>1, <2>1, <2>2
  <2>4. /\ request' \in [Users -> RequestType]
        /\ \A u \in Users : /\ request'[u].values = request[u].values
                            /\ request'[u].since = request[u].since
                            /\ request'[u].phase = "idle" <=> request[u].phase = "idle"
    BY <1>2, <2>1, <2>3
  <2> QED BY <1>4, <2>1, <2>2, <2>4
<1> QED BY <1>3, <1>4

LEMMA CloseEffect ==
  ASSUME ReconfigureType, LeftInv, NEW a \in Admins, CloseNext(a)
  PROVE  /\ apply[a].left # <<>> /\ Head(apply[a].left) \in 1 .. Len(objects)
         /\ objects' \in Seq(ObjectType)
         /\ Len(objects') = Len(objects)
         /\ \A o \in 1 .. Len(objects) :
              /\ objects'[o].values = objects[o].values /\ objects'[o].late = objects[o].late
              /\ o # Head(apply[a].left) => objects'[o].closed = objects[o].closed
         /\ apply' \in [Admins -> ApplyType]
         /\ \A b \in Admins : /\ apply'[b].phase = apply[b].phase
                              /\ apply'[b].registry = apply[b].registry
                              /\ b # a => apply'[b].left = apply[b].left
         /\ apply'[a].left = Tail(apply[a].left)
<1> DEFINE h == Head(apply[a].left)
           o == [objects[h] EXCEPT !.closed = TRUE]
<1>1. /\ apply[a] \in ApplyType /\ apply[a].left \in Seq(Nat) /\ apply[a].left # <<>>
  BY DEF ReconfigureType, CloseNext, ApplyType
<1>2. h = apply[a].left[1] /\ h \in 1 .. Len(objects) /\ Tail(apply[a].left) \in Seq(Nat)
  BY <1>1 DEF LeftInv
<1>3. PICK failed \in BOOLEAN :
        apply' = [apply EXCEPT ![a] = OneClosed(@, failed)]
  BY DEF CloseNext
<1>4. /\ apply' \in [Admins -> ApplyType]
      /\ \A b \in Admins \ {a} : apply'[b] = apply[b]
      /\ apply'[a].phase = apply[a].phase /\ apply'[a].registry = apply[a].registry
      /\ apply'[a].left = Tail(apply[a].left)
  <2> DEFINE s == OneClosed(apply[a], failed)
  <2>1. s = OneClosed(apply[a], failed)
    OBVIOUS
  <2>2. apply' = [apply EXCEPT ![a] = s]
    BY <1>3
  <2> HIDE DEF s
  <2>3. /\ s \in ApplyType /\ s.phase = apply[a].phase /\ s.registry = apply[a].registry
        /\ s.left = Tail(apply[a].left)
    BY <1>1, <1>2, <2>1, ClosedOneFacts
  <2> QED BY <2>2, <2>3 DEF ReconfigureType
<1>5. o \in ObjectType /\ o.values = objects[h].values /\ o.late = objects[h].late
  <2>1. objects[h] \in ObjectType
    BY <1>2 DEF ReconfigureType
  <2> QED BY <2>1, ClosedFacts
<1>6. objects' = [objects EXCEPT ![h] = o]
  BY DEF CloseNext
<1> HIDE DEF o
<1> QED BY <1>1, <1>2, <1>4, <1>5, <1>6 DEF ReconfigureType

-----------------------------------------------------------------------------
(* The invariant *)

LEMMA CalledFacts ==
  ASSUME NEW v \in Files \cup {None}, NEW w \in Nat \cup {None}
  PROVE  /\ Called(v, w) \in RequestType /\ Idle \in RequestType
         /\ Called(v, w).values = v /\ Called(v, w).since = w
         /\ Called(v, w).phase = "called" /\ Idle.phase = "idle" /\ Idle.since = 0
BY DEF Called, Idle, RequestType

LEMMA IdleFacts ==
  /\ NotApplying \in ApplyType /\ NotApplying.phase = "idle" /\ NotApplying.left = <<>>
  /\ NoCache \in [Providers -> Nat \cup {None}] /\ \A p \in Providers : NoCache[p] = None
BY DEF NotApplying, ApplyType, NoCache

LEMMA AtStartFacts ==
  ASSUME NEW v \in Files, NEW w \in Nat
  PROVE  /\ AtStart(v, w) \in [Users -> RequestType]
         /\ \A q \in Users : /\ AtStart(v, w)[q].since <= w
                             /\ AtStart(v, w)[q].phase # "idle" => AtStart(v, w)[q].values = v
BY CalledFacts DEF AtStart

LEMMA ConfigInit == ReconfigureInit => ConfigInv
<1> SUFFICES ASSUME ReconfigureInit PROVE ConfigInv
  OBVIOUS
<1>1. /\ layers \in Layers
      /\ settings = Cached(SettingsOf(layers), FALSE) /\ SettingsOf(layers) \in Files
      /\ settings.values = SettingsOf(layers) /\ settings \in SettingsType /\ writes = 0
      /\ restarting = FALSE
  BY ShownType, ReconfigureAssumption DEF ReconfigureInit, Cached, SettingsType
<1>2. cache = <<NoCache>> /\ current = 1 /\ objects = <<>>
      /\ request = AtStart(SettingsOf(layers), writes)
      /\ apply = [a \in Admins |-> NotApplying]
  BY <1>1 DEF ReconfigureInit
<1>3. ReconfigureType
  <2>1. /\ <<NoCache>> \in Seq([Providers -> Nat \cup {None}]) /\ Len(<<NoCache>>) = 1
        /\ <<>> \in Seq(ObjectType)
    BY IdleFacts
  <2>2. request \in [Users -> RequestType] /\ apply \in [Admins -> ApplyType]
    BY <1>1, <1>2, AtStartFacts, IdleFacts
  <2>3. /\ settings \in SettingsType \cup {None} /\ writes \in Nat /\ restarting \in BOOLEAN
        /\ cache \in Seq([Providers -> Nat \cup {None}]) /\ current \in 1 .. Len(cache)
        /\ objects \in Seq(ObjectType)
    <3>1. cache \in Seq([Providers -> Nat \cup {None}]) /\ objects \in Seq(ObjectType)
      BY <1>2, <2>1, Zenon
    <3>2. current \in 1 .. Len(cache)
      BY <1>2, <2>1
    <3> QED BY <1>1, <3>1, <3>2
  <2> QED BY <1>1, <2>2, <2>3, Zenon DEF ReconfigureType
<1>4. CacheInv /\ LeftInv /\ ClosedOnlyInCleanup /\ InUseIsUpToDate
  BY <1>2, IdleFacts DEF CacheInv, LeftInv, ClosedOnlyInCleanup, InUseIsUpToDate
<1>5. FreshInv
  BY <1>1, <1>2, AtStartFacts DEF FreshInv
<1> QED BY <1>3, <1>4, <1>5 DEF ConfigInv

\* Nothing but the settings and the requests changes.
LEMMA RequestSteps ==
  ASSUME ConfigInv, NEW q \in Users, Arrive(q) \/ Store(q) \/ End(q)
  PROVE  ConfigInv'
<1> USE DEF ConfigInv
<1>1. UNCHANGED <<layers, current, cache, objects, apply, restarting, writes>>
  BY DEF Arrive, Store, End
<1> DEFINE new == SettingsOf(layers)
<1>2. new \in Files /\ writes \in Nat /\ writes # None
  BY ShownType, ReconfigureAssumption DEF ReconfigureType
<1> HIDE DEF new
<1>3. \E x \in RequestType :
        /\ request' = [request EXCEPT ![q] = x]
        /\ x.since # None => x.since <= writes
        /\ x.phase # "idle" => x.values \in Files
        /\ x.phase # "idle" /\ x.since = writes => x.values = new
  <2>1. CASE Arrive(q) /\ settings = None
    <3> DEFINE x == [Called(new, writes) EXCEPT !.phase = "reading"]
    <3>1. request' = [request EXCEPT ![q] = x]
      BY <2>1 DEF Arrive, new
    <3>2. x \in RequestType /\ x.since = writes /\ x.values = new
      BY <1>2 DEF Called, RequestType
    <3> HIDE DEF x
    <3>3. writes <= writes /\ x.values \in Files
      BY <1>2, <3>2
    <3> x \in RequestType
      BY <3>2
    <3> WITNESS x \in RequestType
    <3> QED BY <3>1, <3>2, <3>3
  <2>2. CASE Arrive(q) /\ settings # None
    <3> DEFINE since == IF settings.overtaken THEN None ELSE writes
               x == Called(settings.values, since)
    <3>1. request' = [request EXCEPT ![q] = x]
      BY <2>2 DEF Arrive
    <3>2. /\ settings.values \in Files /\ since \in Nat \cup {None}
          /\ settings.overtaken \in BOOLEAN
      BY <1>2, <2>2 DEF ReconfigureType, SettingsType
    <3>3. since = writes => settings.values = new
      BY <1>2, <2>2, <3>2 DEF FreshInv, new
    <3>4. since # None => since = writes
      OBVIOUS
    <3> HIDE DEF since
    <3>5. x \in RequestType /\ x.since = since /\ x.values = settings.values
      BY <3>2, CalledFacts
    <3> HIDE DEF x
    <3>6. (x.since # None => x.since <= writes) /\ x.values \in Files
      BY <1>2, <3>2, <3>4, <3>5
    <3>7. x.since = writes => x.values = new
      BY <3>3, <3>5
    <3> x \in RequestType
      BY <3>5
    <3> WITNESS x \in RequestType
    <3> QED BY <3>1, <3>6, <3>7
  <2>3. CASE Store(q)
    <3> DEFINE x == [request[q] EXCEPT !.phase = "called"]
    <3>1. request' = [request EXCEPT ![q] = x] /\ request[q].phase # "idle"
      BY <2>3 DEF Store
    <3>2. /\ x \in RequestType /\ x.since = request[q].since /\ x.values = request[q].values
      BY DEF ReconfigureType, RequestType
    <3> HIDE DEF x
    <3> QED BY <3>1, <3>2 DEF FreshInv, new
  <2>4. CASE End(q)
    <3>1. request' = [request EXCEPT ![q] = Idle]
      BY <2>4 DEF End
    <3>2. Idle \in RequestType /\ Idle.since = 0 /\ Idle.phase = "idle"
      BY <1>2, CalledFacts
    <3> HIDE DEF Idle
    <3> DEFINE x == Idle
    <3>3. x.since <= writes
      BY <1>2, <3>2
    <3> HIDE DEF x
    <3> x \in RequestType
      BY <3>2 DEF x
    <3> WITNESS x \in RequestType
    <3> QED BY <3>1, <3>2, <3>3 DEF x
  <2> QED BY <2>1, <2>2, <2>3, <2>4
<1>4. /\ settings' \in SettingsType \cup {None}
      /\ settings' # None /\ ~settings'.overtaken => settings'.values = new
  <2>1. CASE settings' = settings
    BY <2>1 DEF FreshInv, ReconfigureType, new
  <2>2. CASE settings' # settings
    <3>1. /\ settings' = Cached(request[q].values, request[q].since # writes)
          /\ request[q].phase = "reading"
      BY <2>2 DEF Arrive, Store, End
    <3>2. request[q].values \in Files
      BY <3>1 DEF FreshInv
    <3>3. request[q].since = writes => request[q].values = new
      BY <3>1 DEF FreshInv, new
    <3> DEFINE o == request[q].since # writes
    <3>4. o \in BOOLEAN /\ settings' = [values |-> request[q].values, overtaken |-> o]
      BY <3>1 DEF Cached
    <3>5. ~o => request[q].values = new
      BY <3>3
    <3> HIDE DEF o
    <3> QED BY <3>2, <3>4, <3>5 DEF SettingsType
  <2> QED BY <2>1, <2>2
<1>5. ReconfigureType'
  BY <1>1, <1>3, <1>4 DEF ReconfigureType
<1>6. FreshInv'
  BY <1>1, <1>3, <1>4 DEF FreshInv, ReconfigureType, new

<1>7. CacheInv' /\ LeftInv'
  BY <1>1 DEF CacheInv, LeftInv
<1>8. ClosedOnlyInCleanup' /\ InUseIsUpToDate'
  BY <1>1 DEF ClosedOnlyInCleanup, InUseIsUpToDate, CleansCurrent
<1> QED BY <1>5, <1>6, <1>7, <1>8

\* A provider is taken from the cache, or made and cached.
LEMMA ResolveStep ==
  ASSUME ConfigInv, NEW q \in Users, NEW p \in Providers, Resolve(q, p)
  PROVE  ConfigInv'
<1> USE DEF ConfigInv
<1>1. UNCHANGED <<layers, settings, current, apply, restarting, writes>>
  BY DEF Resolve
<1>2. /\ request' \in [Users -> RequestType]
      /\ \A u \in Users : /\ request'[u].values = request[u].values
                          /\ request'[u].since = request[u].since
                          /\ request'[u].phase = "idle" <=> request[u].phase = "idle"
  BY ResolveEffect
<1>3. FreshInv'
  BY <1>1, <1>2 DEF FreshInv
<1>4. CASE UNCHANGED <<cache, objects>>
  <2>1. ReconfigureType'
    BY <1>1, <1>2, <1>4 DEF ReconfigureType
  <2>2. CacheInv' /\ LeftInv' /\ ClosedOnlyInCleanup' /\ InUseIsUpToDate'
    BY <1>1, <1>4 DEF CacheInv, LeftInv, ClosedOnlyInCleanup, InUseIsUpToDate, CleansCurrent
  <2> QED BY <1>3, <2>1, <2>2
<1>5. ASSUME NEW o \in ObjectType, objects' = Append(objects, o),
             cache' = [cache EXCEPT ![current][p] = Len(objects')],
             o.values = request[q].values, ~o.closed, o.late <=> request[q].since # writes
      PROVE  ConfigInv'
  <2> DEFINE n == Len(objects) + 1
  <2>1. /\ objects' \in Seq(ObjectType) /\ Len(objects') = n /\ objects'[n] = o /\ n \in Nat
        /\ \A i \in 1 .. Len(objects) : objects'[i] = objects[i] /\ i # n /\ i \in 1 .. n
        /\ n \in 1 .. n
    BY <1>5 DEF ReconfigureType
  <2>2. cache' = [cache EXCEPT ![current] = [cache[current] EXCEPT ![p] = n]]
    BY <1>5, <2>1 DEF ReconfigureType
  <2>3. /\ cache' \in Seq([Providers -> Nat \cup {None}]) /\ Len(cache') = Len(cache)
        /\ \A r \in 1 .. Len(cache), x \in Providers :
             cache'[r][x] = IF r = current /\ x = p THEN n ELSE cache[r][x]
    <3>1. [cache[current] EXCEPT ![p] = n] \in [Providers -> Nat \cup {None}]
      BY <2>1 DEF ReconfigureType
    <3> QED BY <2>2, <3>1 DEF ReconfigureType
  <2>4. ReconfigureType'
    BY <1>1, <1>2, <2>1, <2>3 DEF ReconfigureType
  <2> HIDE DEF n
  <2>5. CacheInv'
    <3>1. \A r \in 1 .. Len(cache), x \in Providers :
            cache[r][x] # None => cache[r][x] \in 1 .. Len(objects) /\ cache[r][x] # n
      BY <2>1 DEF CacheInv
    <3>2. ASSUME NEW r \in 1 .. Len(cache), NEW x \in Providers, cache'[r][x] # None
          PROVE  cache'[r][x] \in 1 .. n
      <4>1. cache'[r][x] = IF r = current /\ x = p THEN n ELSE cache[r][x]
        BY <2>3
      <4>2. cache[r][x] # None => cache[r][x] \in 1 .. Len(objects)
        BY <3>1
      <4> QED BY <2>1, <3>2, <4>1, <4>2
    <3>3. ASSUME NEW r \in 1 .. Len(cache), NEW x \in Providers, cache'[r][x] # None,
                 NEW s \in 1 .. Len(cache), NEW y \in Providers, cache'[r][x] = cache'[s][y]
          PROVE  r = s
      <4>1. /\ cache'[r][x] = IF r = current /\ x = p THEN n ELSE cache[r][x]
            /\ cache'[s][y] = IF s = current /\ y = p THEN n ELSE cache[s][y]
        BY ONLY <2>3, <3>3
      <4>2. (cache[r][x] # None => cache[r][x] # n) /\ (cache[s][y] # None => cache[s][y] # n)
        BY ONLY <3>1, <3>3
      <4>3. cache[r][x] = cache[s][y] /\ cache[r][x] # None => r = s
        BY <3>3 DEF CacheInv
      <4> QED BY ONLY <3>3, <4>1, <4>2, <4>3
    <3>4. \A r \in 1 .. Len(cache'), x \in Providers :
            cache'[r][x] # None => cache'[r][x] \in 1 .. Len(objects')
      BY ONLY <2>1, <2>3, <3>2
    <3>5. \A r, s \in 1 .. Len(cache'), x, y \in Providers :
            cache'[r][x] = cache'[s][y] /\ cache'[r][x] # None => r = s
      <4> SUFFICES ASSUME NEW r \in 1 .. Len(cache'), NEW s \in 1 .. Len(cache'),
                          NEW x \in Providers, NEW y \in Providers,
                          cache'[r][x] = cache'[s][y], cache'[r][x] # None
                   PROVE  r = s
        OBVIOUS
      <4>1. r \in 1 .. Len(cache) /\ s \in 1 .. Len(cache)
        BY <2>3
      <4> QED BY <3>3, <4>1
    <3> QED BY ONLY <3>4, <3>5 DEF CacheInv
  <2>6. LeftInv'
    <3>1. ASSUME NEW b \in Admins, NEW i \in 1 .. Len(apply[b].left)
          PROVE  /\ apply[b].left[i] \in 1 .. n
                 /\ \A r \in 1 .. Len(cache), x \in Providers :
                      cache'[r][x] = apply[b].left[i] => r = apply[b].registry
      <4>1. /\ apply[b].left[i] \in 1 .. Len(objects)
            /\ \A r \in 1 .. Len(cache), x \in Providers :
                 cache[r][x] = apply[b].left[i] => r = apply[b].registry
        BY DEF LeftInv
      <4> QED BY ONLY <2>1, <2>3, <4>1
    <3>2. \A b \in Admins :
            /\ apply[b].phase # "idle" => apply[b].registry \in 1 .. Len(cache)
            /\ apply[b].left # <<>> => apply[b].phase = "cleaning"
      BY DEF LeftInv
    <3> QED BY ONLY <1>1, <2>1, <2>3, <3>1, <3>2 DEF LeftInv
  <2>7. ClosedOnlyInCleanup'
    BY <1>1, <1>5, <2>1, <2>3 DEF ClosedOnlyInCleanup, CleansCurrent, CacheInv, ReconfigureType
  <2>8. InUseIsUpToDate'
    <3>1. o.values = SettingsOf(layers) \/ o.late
      BY <1>5 DEF FreshInv, Resolve
    <3>2. /\ SettingsOf(layers)' = SettingsOf(layers) /\ CleansCurrent' = CleansCurrent
          /\ current \in 1 .. Len(cache)
      BY <1>1 DEF CleansCurrent, ReconfigureType
    <3>3. ASSUME NEW x \in Providers, cache'[current][x] # None, ~CleansCurrent, ~restarting
          PROVE  \/ objects'[cache'[current][x]].values = SettingsOf(layers)
                 \/ objects'[cache'[current][x]].late
      <4>1. CASE x = p
        BY <2>1, <2>3, <3>1, <3>2, <4>1
      <4>2. CASE x # p
        <5>1. cache'[current][x] = cache[current][x]
          BY <2>3, <3>2, <4>2
        <5>2. cache[current][x] \in 1 .. Len(objects)
          BY <3>2, <3>3, <5>1 DEF CacheInv
        <5> QED BY <2>1, <3>3, <5>1, <5>2 DEF InUseIsUpToDate
      <4> QED BY <4>1, <4>2
    <3> QED BY <1>1, <3>2, <3>3 DEF InUseIsUpToDate
  <2> QED BY <1>3, <2>4, <2>5, <2>6, <2>7, <2>8
<1> QED BY <1>4, <1>5, ResolveEffect

\* An apply puts the registry in use on the way to be cleaned up.
LEMMA ApplyStep ==
  ASSUME ConfigInv, NEW a \in Admins, NEW updates \in Updates, Apply(a, updates)
  PROVE  ConfigInv'
<1> USE DEF ConfigInv
<1>1. /\ UNCHANGED <<current, cache, objects, request>> /\ writes' = writes + 1
      /\ settings' = None /\ layers' = [layers EXCEPT !.managed = Target(layers, updates)]
  BY DEF Apply, ForgetSettings
<1>2. layers' \in Layers
  BY <1>1, TargetType DEF ReconfigureType, Layers
<1>3. FreshInv'
  <2>1. \A q \in Users : /\ request[q].since # None => request[q].since <= writes'
                         /\ request[q].since # writes'
    <3>1. \A q \in Users : /\ request[q].since \in Nat \cup {None}
                           /\ request[q].since # None => request[q].since <= writes
      BY DEF ReconfigureType, RequestType, FreshInv
    <3> QED BY <1>1, <3>1, ReconfigureAssumption DEF ReconfigureType
  <2> QED BY <1>1, <2>1 DEF FreshInv
<1>4. CacheInv'
  BY <1>1 DEF CacheInv
<1>5. CASE restarting' = TRUE /\ UNCHANGED apply
  <2>1. ReconfigureType'
    BY <1>1, <1>2, <1>5 DEF ReconfigureType
  <2>2. LeftInv' /\ ClosedOnlyInCleanup' /\ InUseIsUpToDate'
    BY <1>1, <1>5 DEF LeftInv, ClosedOnlyInCleanup, InUseIsUpToDate, CleansCurrent
  <2> QED BY <1>3, <1>4, <2>1, <2>2
<1>6. CASE apply' = [apply EXCEPT ![a] = Cleanup(current)] /\ UNCHANGED restarting
  <2> DEFINE c == Cleanup(current)
  <2>1. /\ c \in ApplyType /\ c.registry = current /\ c.phase \in {"starting", "cleaning"}
        /\ c.left # <<>> => c.phase = "cleaning"
        /\ \A i \in 1 .. Len(c.left) :
             \E p \in Providers : c.left[i] = cache[current][p] /\ cache[current][p] # None
    BY CleanupFacts DEF ReconfigureType
  <2>2. apply' = [apply EXCEPT ![a] = c] /\ UNCHANGED restarting
    BY <1>6
  <2> HIDE DEF c
  <2>3. ReconfigureType'
    BY <1>1, <1>2, <2>1, <2>2 DEF ReconfigureType
  <2>4. current \in 1 .. Len(cache)
    BY DEF ReconfigureType
  <2>5. ASSUME NEW i \in 1 .. Len(c.left)
        PROVE  /\ c.left[i] \in 1 .. Len(objects)
               /\ \A r \in 1 .. Len(cache), p \in Providers :
                    cache[r][p] = c.left[i] => r = c.registry
    BY <2>1, <2>4 DEF CacheInv
  <2>6. LeftInv'
    <3>1. /\ cache' = cache /\ objects' = objects
          /\ \A b \in Admins : apply'[b] = IF b = a THEN c ELSE apply[b]
      BY <1>1, <2>2 DEF ReconfigureType
    <3>2. ASSUME NEW b \in Admins, b # a
          PROVE  /\ apply'[b].phase # "idle" => apply'[b].registry \in 1 .. Len(cache')
                 /\ apply'[b].left # <<>> => apply'[b].phase = "cleaning"
                 /\ \A i \in 1 .. Len(apply'[b].left) :
                      /\ apply'[b].left[i] \in 1 .. Len(objects')
                      /\ \A r \in 1 .. Len(cache'), p \in Providers :
                           cache'[r][p] = apply'[b].left[i] => r = apply'[b].registry
      <4>1. apply'[b] = apply[b] /\ cache' = cache /\ objects' = objects
        BY <3>1, <3>2
      <4> QED BY <4>1 DEF LeftInv
    <3>3. /\ apply'[a].registry \in 1 .. Len(cache')
          /\ apply'[a].left # <<>> => apply'[a].phase = "cleaning"
          /\ \A i \in 1 .. Len(apply'[a].left) :
               /\ apply'[a].left[i] \in 1 .. Len(objects')
               /\ \A r \in 1 .. Len(cache'), p \in Providers :
                    cache'[r][p] = apply'[a].left[i] => r = apply'[a].registry
      <4>1. apply'[a] = c
        BY <3>1
      <4> QED BY ONLY <2>1, <2>4, <2>5, <3>1, <4>1
    <3> QED BY ONLY <3>2, <3>3 DEF LeftInv
  <2>7. CleansCurrent'
    BY <1>1, <2>1, <2>2 DEF CleansCurrent, ReconfigureType
  <2>8. ClosedOnlyInCleanup' /\ InUseIsUpToDate'
    BY ONLY <2>7 DEF ClosedOnlyInCleanup, InUseIsUpToDate
  <2> QED BY <1>3, <1>4, <2>3, <2>6, <2>8
<1> QED BY <1>5, <1>6 DEF Apply

\* A cleanup that has waited for Refresh looks at the cache.
LEMMA StartCleanupStep ==
  ASSUME ConfigInv, NEW a \in Admins, StartCleanup(a)
  PROVE  ConfigInv'
<1> USE DEF ConfigInv
<1> DEFINE g == apply[a].registry
           c == Cleanup(g)
<1>1. /\ UNCHANGED <<layers, settings, current, cache, objects, request, restarting, writes>>
      /\ apply[a].phase = "starting" /\ apply' = [apply EXCEPT ![a] = c]
  BY DEF StartCleanup
<1>2. g \in 1 .. Len(cache)
  BY <1>1 DEF LeftInv
<1>3. /\ c \in ApplyType /\ c.registry = g /\ c.phase \in {"starting", "cleaning"}
      /\ c.left # <<>> => c.phase = "cleaning"
      /\ \A i \in 1 .. Len(c.left) :
           \E p \in Providers : c.left[i] = cache[g][p] /\ cache[g][p] # None
  BY <1>2, CleanupFacts
<1> HIDE DEF c
<1>4. ReconfigureType'
  BY <1>1, <1>3 DEF ReconfigureType
<1>5. ASSUME NEW i \in 1 .. Len(c.left)
      PROVE  /\ c.left[i] \in 1 .. Len(objects)
             /\ \A r \in 1 .. Len(cache), p \in Providers :
                  cache[r][p] = c.left[i] => r = c.registry
  BY <1>2, <1>3 DEF CacheInv
<1>6. LeftInv'
  <2>1. apply'[a] = c /\ \A b \in Admins \ {a} : apply'[b] = apply[b]
    BY <1>1 DEF ReconfigureType
  <2>2. ASSUME NEW b \in Admins
        PROVE  /\ apply'[b].phase # "idle" => apply'[b].registry \in 1 .. Len(cache)
               /\ apply'[b].left # <<>> => apply'[b].phase = "cleaning"
               /\ \A i \in 1 .. Len(apply'[b].left) :
                    /\ apply'[b].left[i] \in 1 .. Len(objects)
                    /\ \A r \in 1 .. Len(cache), p \in Providers :
                         cache[r][p] = apply'[b].left[i] => r = apply'[b].registry
    <3>1. CASE b = a
      BY <1>2, <1>3, <1>5, <2>1, <3>1
    <3>2. CASE b # a
      BY <2>1, <3>2 DEF LeftInv
    <3> QED BY <3>1, <3>2
  <2> QED BY ONLY <1>1, <2>2 DEF LeftInv
<1>7. CleansCurrent => CleansCurrent'
  BY <1>1, <1>3 DEF CleansCurrent, ReconfigureType
<1>8. FreshInv' /\ CacheInv'
  BY <1>1 DEF FreshInv, CacheInv
<1> QED BY <1>1, <1>4, <1>6, <1>7, <1>8 DEF ClosedOnlyInCleanup, InUseIsUpToDate

\* What is closed is in no cache but that of the registry it is closed for.
LEMMA CloseStep ==
  ASSUME ConfigInv, NEW a \in Admins, CloseNext(a)
  PROVE  ConfigInv'
<1> USE DEF ConfigInv
<1> DEFINE h == Head(apply[a].left)
<1>1. UNCHANGED <<layers, settings, current, cache, request, restarting, writes>>
      /\ apply[a].phase = "cleaning"
  BY DEF CloseNext
<1>2. /\ apply[a].left # <<>> /\ h \in 1 .. Len(objects)
      /\ objects' \in Seq(ObjectType) /\ Len(objects') = Len(objects)
      /\ \A o \in 1 .. Len(objects) :
           /\ objects'[o].values = objects[o].values /\ objects'[o].late = objects[o].late
           /\ o # h => objects'[o].closed = objects[o].closed
  BY CloseEffect
<1>3. /\ apply' \in [Admins -> ApplyType]
      /\ \A b \in Admins : /\ apply'[b].phase = apply[b].phase
                           /\ apply'[b].registry = apply[b].registry
                           /\ b # a => apply'[b].left = apply[b].left
      /\ apply'[a].left = Tail(apply[a].left)
  BY CloseEffect
<1>4. /\ apply[a].left \in Seq(Nat) /\ h = apply[a].left[1] /\ 1 \in 1 .. Len(apply[a].left)
      /\ Len(apply'[a].left) = Len(apply[a].left) - 1
      /\ \A i \in 1 .. Len(apply'[a].left) : /\ apply'[a].left[i] = apply[a].left[i + 1]
                                            /\ i + 1 \in 1 .. Len(apply[a].left)
  BY <1>2, <1>3 DEF ReconfigureType, ApplyType
<1>5. ReconfigureType'
  BY <1>1, <1>2, <1>3 DEF ReconfigureType
<1>6. CacheInv' /\ FreshInv'
  BY <1>1, <1>2 DEF CacheInv, FreshInv
<1>7. LeftInv'
  <2>1. ASSUME NEW i \in 1 .. Len(apply'[a].left)
        PROVE  /\ apply'[a].left[i] \in 1 .. Len(objects)
               /\ \A r \in 1 .. Len(cache), p \in Providers :
                    cache[r][p] = apply'[a].left[i] => r = apply[a].registry
    <3>1. PICK j \in 1 .. Len(apply[a].left) : apply'[a].left[i] = apply[a].left[j]
      BY <1>4
    <3> QED BY <3>1 DEF LeftInv
  <2>2. ASSUME NEW b \in Admins
        PROVE  /\ apply'[b].phase # "idle" => apply'[b].registry \in 1 .. Len(cache')
               /\ apply'[b].left # <<>> => apply'[b].phase = "cleaning"
    BY <1>1, <1>3 DEF LeftInv
  <2>3. ASSUME NEW b \in Admins, NEW i \in 1 .. Len(apply'[b].left)
        PROVE  /\ apply'[b].left[i] \in 1 .. Len(objects')
               /\ \A r \in 1 .. Len(cache'), p \in Providers :
                    cache'[r][p] = apply'[b].left[i] => r = apply'[b].registry
    <3>1. CASE b = a
      BY <1>1, <1>2, <1>3, <2>1, <2>3, <3>1
    <3>2. CASE b # a
      <4>1. i \in 1 .. Len(apply[b].left) /\ apply'[b].left[i] = apply[b].left[i]
        BY <1>3, <2>3, <3>2
      <4>2. cache' = cache /\ Len(objects') = Len(objects) /\ apply'[b].registry = apply[b].registry
        BY <1>1, <1>2, <1>3
      <4>3. /\ apply[b].left[i] \in 1 .. Len(objects)
            /\ \A r \in 1 .. Len(cache), p \in Providers :
                 cache[r][p] = apply[b].left[i] => r = apply[b].registry
        BY <4>1 DEF LeftInv
      <4> QED BY ONLY <4>1, <4>2, <4>3
    <3> QED BY <3>1, <3>2
  <2> QED BY <2>2, <2>3 DEF LeftInv
<1>8. CleansCurrent => CleansCurrent'
  BY <1>1, <1>3 DEF CleansCurrent
<1>9. ClosedOnlyInCleanup'
  <2> SUFFICES ASSUME NEW p \in Providers, cache[current][p] # None,
                      objects'[cache[current][p]].closed
               PROVE  CleansCurrent'
    BY <1>1 DEF ClosedOnlyInCleanup
  <2>1. cache[current][p] \in 1 .. Len(objects) /\ current \in 1 .. Len(cache)
    BY DEF CacheInv, ReconfigureType
  <2>2. CASE cache[current][p] = h
    <3>1. current = apply[a].registry
      <4>1. \A r \in 1 .. Len(cache), x \in Providers :
              cache[r][x] = apply[a].left[1] => r = apply[a].registry
        BY <1>4 DEF LeftInv
      <4>2. cache[current][p] = apply[a].left[1]
        BY <1>4, <2>2
      <4> QED BY <2>1, <4>1, <4>2
    <3> QED BY <1>1, <1>3, <3>1 DEF CleansCurrent
  <2>3. CASE cache[current][p] # h
    <3>1. objects[cache[current][p]].closed
      BY <1>2, <2>1, <2>3
    <3>2. CleansCurrent
      BY <3>1 DEF ClosedOnlyInCleanup
    <3> QED BY <1>8, <3>2
  <2> QED BY <2>2, <2>3
<1>10. InUseIsUpToDate'
  <2>1. \A p \in Providers :
          cache[current][p] # None => cache[current][p] \in 1 .. Len(objects)
    BY DEF CacheInv, ReconfigureType
  <2>2. SettingsOf(layers)' = SettingsOf(layers)
    BY <1>1
  <2>3. \A p \in Providers :
          cache[current][p] # None =>
            /\ objects'[cache[current][p]].values = objects[cache[current][p]].values
            /\ objects'[cache[current][p]].late = objects[cache[current][p]].late
    BY <1>2, <2>1
  <2> QED BY <1>1, <1>8, <2>2, <2>3 DEF InUseIsUpToDate
<1> QED BY <1>5, <1>6, <1>7, <1>9, <1>10

\* The cache of the registry goes, and with it all an apply had to clean up.
LEMMA InstallStep ==
  ASSUME ConfigInv, NEW a \in Admins, Install(a)
  PROVE  ConfigInv'
<1> USE DEF ConfigInv
<1> DEFINE g == apply[a].registry
           cleared == [cache EXCEPT ![g] = NoCache]
<1>1. /\ UNCHANGED <<layers, settings, objects, request, restarting, writes>>
      /\ apply[a].phase = "cleaning" /\ apply' = [apply EXCEPT ![a] = NotApplying]
      /\ \/ cache' = cleared /\ UNCHANGED current
         \/ cache' = Append(cleared, NoCache) /\ current' = Len(cache')
  BY DEF Install
<1>2. g \in 1 .. Len(cache) /\ current \in 1 .. Len(cache)
  BY <1>1 DEF LeftInv, ReconfigureType
<1>3. /\ cleared \in Seq([Providers -> Nat \cup {None}]) /\ Len(cleared) = Len(cache)
      /\ \A r \in 1 .. Len(cache) : cleared[r] = IF r = g THEN NoCache ELSE cache[r]
  BY <1>2, IdleFacts DEF ReconfigureType
<1> HIDE DEF cleared
<1>4. /\ cache' \in Seq([Providers -> Nat \cup {None}])
      /\ current' \in 1 .. Len(cache') /\ 1 .. Len(cache) \subseteq 1 .. Len(cache')
      /\ current' = current \/ current' \notin 1 .. Len(cache)
      /\ \A r \in 1 .. Len(cache') :
           cache'[r] = IF r \in 1 .. Len(cache) /\ r # g THEN cache[r] ELSE NoCache
  <2>1. CASE cache' = cleared /\ UNCHANGED current
    BY <1>2, <1>3, <2>1
  <2>2. CASE cache' = Append(cleared, NoCache) /\ current' = Len(cache')
    <3>1. Len(cache) \in Nat
      BY DEF ReconfigureType
    <3>2. /\ cache' \in Seq([Providers -> Nat \cup {None}]) /\ Len(cache') = Len(cache) + 1
          /\ \A r \in 1 .. Len(cache) : cache'[r] = cleared[r]
          /\ cache'[Len(cache) + 1] = NoCache
      BY ONLY <1>3, <2>2, <3>1, IdleFacts
    <3>3. ASSUME NEW r \in 1 .. Len(cache')
          PROVE  cache'[r] = IF r \in 1 .. Len(cache) /\ r # g THEN cache[r] ELSE NoCache
      <4>1. CASE r \in 1 .. Len(cache)
        BY ONLY <1>3, <3>2, <4>1
      <4>2. CASE r = Len(cache) + 1
        BY ONLY <3>1, <3>2, <4>2
      <4> QED BY ONLY <3>1, <3>2, <3>3, <4>1, <4>2
    <3>4. /\ current' = Len(cache) + 1 /\ 1 .. Len(cache) \subseteq 1 .. Len(cache')
          /\ current' \in 1 .. Len(cache') /\ current' \notin 1 .. Len(cache)
      BY ONLY <2>2, <3>1, <3>2
    <3> QED BY ONLY <3>2, <3>3, <3>4
  <2> QED BY <1>1, <2>1, <2>2
<1>5. \A r \in 1 .. Len(cache'), p \in Providers :
        cache'[r][p] # None =>
          r \in 1 .. Len(cache) /\ r # g /\ cache'[r][p] = cache[r][p]
  BY <1>4, IdleFacts
<1>6. apply' \in [Admins -> ApplyType]
  BY <1>1, IdleFacts DEF ReconfigureType
<1>7. ReconfigureType'
  BY <1>1, <1>4, <1>6 DEF ReconfigureType
<1>8. CacheInv'
  BY <1>1, <1>5 DEF CacheInv
<1>9. LeftInv'
  <2>1. apply'[a] = NotApplying /\ \A b \in Admins \ {a} : apply'[b] = apply[b]
    BY <1>1 DEF ReconfigureType
  <2>2. ASSUME NEW b \in Admins \ {a}, NEW i \in 1 .. Len(apply[b].left),
               NEW r \in 1 .. Len(cache'), NEW p \in Providers, cache'[r][p] = apply[b].left[i]
        PROVE  r = apply[b].registry
    <3>1. cache'[r][p] # None
      BY <2>2, ReconfigureAssumption DEF LeftInv, ReconfigureType
    <3> QED BY <1>5, <2>2, <3>1 DEF LeftInv
  <2>3. ASSUME NEW b \in Admins \ {a}
        PROVE  /\ apply[b].phase # "idle" => apply[b].registry \in 1 .. Len(cache')
               /\ apply[b].left # <<>> => apply[b].phase = "cleaning"
               /\ \A i \in 1 .. Len(apply[b].left) : apply[b].left[i] \in 1 .. Len(objects')
    BY <1>1, <1>4 DEF LeftInv
  <2> QED BY <2>1, <2>2, <2>3, IdleFacts DEF LeftInv
<1>10. FreshInv'
  BY <1>1 DEF FreshInv
<1>11. ASSUME NEW p \in Providers, cache'[current'][p] # None
       PROVE  /\ current' = current /\ cache'[current][p] = cache[current][p]
              /\ CleansCurrent => CleansCurrent'
  <2>1. current' = current /\ current # g /\ cache'[current][p] = cache[current][p]
    BY <1>4, <1>5, <1>11
  <2> QED BY <1>1, <2>1 DEF CleansCurrent, ReconfigureType
<1>12. ClosedOnlyInCleanup' /\ InUseIsUpToDate'
  BY <1>1, <1>11 DEF ClosedOnlyInCleanup, InUseIsUpToDate
<1> QED BY <1>7, <1>8, <1>9, <1>10, <1>12

LEMMA ReadAtOnceStep ==
  ASSUME ConfigInv, ReadAtOnce
  PROVE  ConfigInv'
<1> USE DEF ConfigInv
<1>1. /\ UNCHANGED <<layers, current, cache, objects, request, apply, restarting, writes>>
      /\ settings' = Cached(SettingsOf(layers), FALSE)
  BY DEF ReadAtOnce
<1>2. settings' \in SettingsType /\ settings'.values = SettingsOf(layers)
  BY <1>1, ShownType DEF Cached, SettingsType, ReconfigureType
<1>3. ReconfigureType'
  BY <1>1, <1>2 DEF ReconfigureType
<1>4. FreshInv'
  BY <1>1, <1>2 DEF FreshInv
<1>5. CacheInv' /\ LeftInv' /\ ClosedOnlyInCleanup' /\ InUseIsUpToDate'
  BY <1>1 DEF CacheInv, LeftInv, ClosedOnlyInCleanup, InUseIsUpToDate, CleansCurrent
<1> QED BY <1>3, <1>4, <1>5

LEMMA RestartStep ==
  ASSUME ConfigInv, Restart
  PROVE  ConfigInv'
<1> USE DEF ConfigInv
<1> DEFINE v == SettingsOf(layers)
<1>1. /\ UNCHANGED <<layers, writes>> /\ settings' = Cached(v, FALSE) /\ current' = 1
      /\ cache' = <<NoCache>> /\ objects' = <<>> /\ request' = AtStart(v, writes)
      /\ apply' = [x \in Admins |-> NotApplying] /\ restarting' = FALSE
  BY DEF Restart, Started
<1>2. v \in Files /\ writes \in Nat
  BY ShownType DEF ReconfigureType
<1>0. settings' \in SettingsType /\ settings'.values = v
  BY <1>1, <1>2 DEF Cached, SettingsType
<1>3. ReconfigureType'
  <2>1. /\ <<NoCache>> \in Seq([Providers -> Nat \cup {None}]) /\ Len(<<NoCache>>) = 1
        /\ <<>> \in Seq(ObjectType)
    BY IdleFacts
  <2>2. request' \in [Users -> RequestType] /\ apply' \in [Admins -> ApplyType]
    BY <1>1, <1>2, AtStartFacts, IdleFacts
  <2>3. cache' \in Seq([Providers -> Nat \cup {None}]) /\ objects' \in Seq(ObjectType)
    BY <1>1, <2>1, Zenon
  <2>4. current' \in 1 .. Len(cache')
    BY <1>1, <2>1
  <2>5. settings' \in SettingsType \cup {None} /\ writes' \in Nat /\ restarting' \in BOOLEAN
    BY <1>0, <1>1, <1>2
  <2>6. layers' \in Layers
    BY <1>1 DEF ReconfigureType
  <2> QED BY <2>2, <2>3, <2>4, <2>5, <2>6, Zenon DEF ReconfigureType
<1>4. CacheInv' /\ LeftInv' /\ ClosedOnlyInCleanup' /\ InUseIsUpToDate'
  BY <1>1, IdleFacts DEF CacheInv, LeftInv, ClosedOnlyInCleanup, InUseIsUpToDate
<1>5. FreshInv'
  BY <1>0, <1>1, <1>2, AtStartFacts DEF FreshInv
<1> QED BY <1>3, <1>4, <1>5

\* The inductive invariant.
THEOREM ConfigInvariant == ReconfigureSpec => []ConfigInv
<1>1. ConfigInv /\ [ReconfigureNext]_reconfigureVars => ConfigInv'
  <2> SUFFICES ASSUME ConfigInv, [ReconfigureNext]_reconfigureVars PROVE ConfigInv'
    OBVIOUS
  <2>1. CASE UNCHANGED reconfigureVars
    <3>1. ReconfigureType' /\ FreshInv'
      BY <2>1 DEF reconfigureVars, ConfigInv, ReconfigureType, FreshInv
    <3>2. CacheInv' /\ LeftInv'
      BY <2>1 DEF reconfigureVars, ConfigInv, CacheInv, LeftInv
    <3>3. ClosedOnlyInCleanup' /\ InUseIsUpToDate'
      BY <2>1 DEF reconfigureVars, ConfigInv, ClosedOnlyInCleanup, InUseIsUpToDate, CleansCurrent
    <3> QED BY <3>1, <3>2, <3>3 DEF ConfigInv
  <2>2. Clients \subseteq Users
    BY DEF Users
  <2> QED
    BY <2>1, <2>2, RequestSteps, ResolveStep, ApplyStep, StartCleanupStep, CloseStep,
       InstallStep, ReadAtOnceStep, RestartStep DEF ReconfigureNext
<1> QED BY <1>1, ConfigInit, PTL DEF ReconfigureSpec

-----------------------------------------------------------------------------

\* A request is handed a closed provider only while an apply is closing those of
\* the registry in use (ProviderRegistry.cleanup), with any number of admin pages.
THEOREM ClosedOnlyInCleanupTheorem == ReconfigureSpec => []ClosedOnlyInCleanup
<1>1. ConfigInv => ClosedOnlyInCleanup
  BY DEF ConfigInv
<1> QED BY <1>1, ConfigInvariant, PTL

\* The registry in use holds no provider of older settings, unless one whose read of
\* the settings a write overtook has made it or filled the cache (get_settings,
\* resolve_provider, apply_admin_config).
THEOREM InUseIsUpToDateTheorem == ReconfigureSpec => []InUseIsUpToDate
<1>1. ConfigInv => InUseIsUpToDate
  BY DEF ConfigInv
<1> QED BY <1>1, ConfigInvariant, PTL

\* A write of the admin page gives Settings the values that were sent; what it reads
\* else stays, or is the template's (_target_values_with_updates, Settings), for any
\* keys, secrets, defaults and files.
THEOREM ChangesWhatWasSentTheorem == ReconfigureSpec => ChangesWhatWasSent
<1> DEFINE Effect(updates) ==
      \A k \in Keys :
        IF k \in DOMAIN updates /\ updates[k] # Masked /\ ~Locked(layers, k)
        THEN SettingsOf(layers')[k] = updates[k]
        ELSE \/ SettingsOf(layers')[k] = SettingsOf(layers)[k]
             \/ layers.managed[k] = Absent /\ SettingsOf(layers')[k] = Template[k]
<1>1. ASSUME ConfigInv, NEW a \in Admins, NEW updates \in Updates, Sendable(updates),
             Apply(a, updates)
      PROVE  Effect(updates)
  <2>1. layers \in Layers /\ layers' = [layers EXCEPT !.managed = Target(layers, updates)]
    BY <1>1 DEF Apply, ConfigInv, ReconfigureType
  <2> QED BY <1>1, <2>1, WriteEffect
<1>2. ConfigInv =>
        [writes' # writes => \A a \in Admins, updates \in Updates :
           Sendable(updates) /\ Apply(a, updates) => \A k \in Keys :
             IF k \in DOMAIN updates /\ updates[k] # Masked /\ ~Locked(layers, k)
             THEN SettingsOf(layers')[k] = updates[k]
             ELSE \/ SettingsOf(layers')[k] = SettingsOf(layers)[k]
                  \/ /\ layers.managed[k] = Absent
                     /\ SettingsOf(layers')[k] = Template[k]]_reconfigureVars
  BY <1>1
<1> QED BY <1>2, ConfigInvariant, PTL DEF ReconfigureSpec, ChangesWhatWasSent
=============================================================================
