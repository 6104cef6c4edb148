---------------------------- MODULE SlidingWindow ----------------------------
(***************************************************************************)
(* StrictSlidingWindowLimiter (core/rate_limit.py), which the provider and *)
(* the messaging rate limiters share.  acquire() holds its lock without    *)
(* suspending, so one pass of its loop is an action: it is granted or told *)
(* how long to sleep.  The callers, and when they try again, are in the    *)
(* modules that use it.                                                    *)
(***************************************************************************)
EXTENDS Naturals, Sequences

CONSTANTS
  Limit,    \* rate_limit
  Window,   \* rate_window, in ticks of the clock
  Horizon   \* bound of the clock in a run

ASSUME LimitAssumption == Limit \in Nat \ {0}
ASSUME WindowAssumption == Window \in Nat \ {0}
ASSUME HorizonAssumption == Horizon \in Nat

VARIABLES
  now,      \* time.monotonic()
  grants,   \* when each acquisition so far was granted, oldest first
  evicted   \* how many of them popleft() took out of _times

windowVars == <<now, grants, evicted>>

\* The deque _times.
Times == SubSeq(grants, evicted + 1, Len(grants))

WindowInit == now = 0 /\ grants = <<>> /\ evicted = 0

\* Faulty variant: a rolling counter, one popleft per pass whatever its age.
EvictsAny(k) == k \in evicted .. Len(grants) /\ k <= evicted + 1

\* The while loop: popleft as long as the oldest is out of the window.
Evicts(k) ==
  /\ k \in evicted .. Len(grants)
  /\ \A i \in evicted + 1 .. k : grants[i] + Window <= now
  /\ k < Len(grants) => grants[k + 1] + Window > now

Granted ==
  \E k \in evicted .. Len(grants) :
    /\ Evicts(k)
    /\ Len(grants) - k < Limit
    /\ evicted' = k
    /\ grants' = Append(grants, now)

\* Not granted: there are Limit acquisitions within the window already.
Refused ==
  /\ \E k \in evicted .. Len(grants) :
       /\ Evicts(k)
       /\ Len(grants) - k >= Limit
       /\ evicted' = k
  /\ UNCHANGED grants

\* When the oldest acquisition leaves the window: a refused caller sleeps until
\* then.
WakeTime == grants[evicted + 1] + Window

Tick == now < Horizon /\ now' = now + 1 /\ UNCHANGED <<grants, evicted>>

WindowNext == Tick \/ (UNCHANGED now /\ (Granted \/ Refused))

WindowSpec == WindowInit /\ [][WindowNext]_windowVars

-----------------------------------------------------------------------------
WindowTypeOK ==
  /\ now \in Nat
  /\ grants \in Seq(Nat)
  /\ evicted \in 0 .. Len(grants)

\* "At most rate_limit acquisitions in any interval of length rate_window":
\* of Limit + 1 acquisitions, the last is a whole window after the first.
WindowBound ==
  \A i, j \in 1 .. Len(grants) : j - i >= Limit => grants[j] >= grants[i] + Window

\* What makes WindowBound inductive: grants are in order, none lies in the
\* future, the evicted ones have left the window, the others fit the limit.
WindowInv ==
  /\ WindowTypeOK
  /\ \A i, j \in 1 .. Len(grants) : i <= j => grants[i] <= grants[j]
  /\ \A i \in 1 .. Len(grants) : grants[i] <= now
  /\ \A i \in 1 .. evicted : grants[i] + Window <= now
  /\ Len(grants) - evicted <= Limit
  /\ WindowBound
=============================================================================
