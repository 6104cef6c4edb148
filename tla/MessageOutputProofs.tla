------------------------- MODULE MessageOutputProofs ------------------------
(***************************************************************************)
(* The properties of MessagingOutbox for any jobs, retries and users, and  *)
(* of Transcript for any blocks, ids and lengths.                          *)
(*                                                                         *)
(* No caller is forgotten because the queue and the map agree: a key is    *)
(* queued once, and exactly where the map has a job for it; and an idle    *)
(* worker owes nobody an answer (OutboxInv). Who holds a job (HoldInv)     *)
(* ties callers to what the edits show (EditInv) and to what a /clear has  *)
(* collected and deleted (ClearInv).                                       *)
(*                                                                         *)
(* In a transcript no block is taken for a later one, the stack is that of *)
(* the running subagents as long as results are nested and empties when    *)
(* they are not, and a rendering fits.                                     *)
(***************************************************************************)
EXTENDS MessagingOutbox, Transcript, SequenceTheorems, FiniteSetTheorems,
        WellFoundedInduction, TLAPS

(* The outbox *)

WorkerStates ==
  [at : {"idle", "paused", "limiter", "sending", "backoff", "once", "stopped"},
   key : Keys, job : Jobs \cup {0}, futures : SUBSET Jobs, tries : Nat]

OutboxType ==
  /\ queue \in Seq(Keys)
  /\ pending \in [Keys -> [job : Jobs \cup {0}, futures : SUBSET Jobs]]
  /\ call \in [Jobs -> {"new", "waiting", "asleep", "done", "failed", "recorded",
                        "abandoned"}]
  /\ worker \in WorkerStates

QueuedOnce == \A i, k \in DOMAIN queue : queue[i] = queue[k] => i = k

QueueIsMap ==
  \A k \in Keys : pending[k].job # 0 <=> \E i \in DOMAIN queue : queue[i] = k

\* A caller who waits has its future with the worker or in the map.
FutureKept ==
  \A j \in Jobs : call[j] = "waiting" =>
    \/ j \in worker.futures
    \/ j \in pending[KeyOf(j)].futures /\ pending[KeyOf(j)].job # 0

IdleOwesNothing == worker.at = "idle" => worker.futures = {}

OutboxInv == OutboxType /\ QueuedOnce /\ QueueIsMap /\ FutureKept /\ IdleOwesNothing

-----------------------------------------------------------------------------
(* Every job has a key, and is not 0. *)

LEMMA JobsHaveKeys ==
  /\ \A j \in Jobs : KeyOf(j) \in Keys /\ j # 0
  /\ Jobs \subseteq Nat
BY JobsAssumption DEF Jobs, Keys, KeyOf

LEMMA QueueCounts ==
  ASSUME OutboxInv
  PROVE  NoCallerForgotten
<1> SUFFICES ASSUME NEW j \in Jobs, call[j] = "waiting", j \notin worker.futures
             PROVE  /\ j \in pending[KeyOf(j)].futures
                    /\ Cardinality({i \in DOMAIN queue : queue[i] = KeyOf(j)}) = 1
  BY DEF NoCallerForgotten
<1>1. j \in pending[KeyOf(j)].futures /\ pending[KeyOf(j)].job # 0
  BY DEF OutboxInv, FutureKept
<1>2. PICK i \in DOMAIN queue : queue[i] = KeyOf(j)
  BY <1>1, JobsHaveKeys DEF OutboxInv, QueueIsMap
<1>3. {k \in DOMAIN queue : queue[k] = KeyOf(j)} = {i}
  BY <1>2 DEF OutboxInv, QueuedOnce
<1> QED BY <1>1, <1>3, FS_Singleton

-----------------------------------------------------------------------------
(* The two ways the queue changes *)

LEMMA EnqueueKeeps ==
  ASSUME OutboxInv, NEW j \in Jobs, Enqueue(j), UNCHANGED worker
  PROVE  OutboxInv'
<1> DEFINE k == KeyOf(j)
<1> USE DEF OutboxInv
<1>1. k \in Keys /\ j # 0
  BY JobsHaveKeys
<1>2. OutboxType'
  <2>1. queue' \in Seq(Keys)
    BY <1>1 DEF Enqueue, OutboxType
  <2>2. call' \in [Jobs -> {"new", "waiting", "asleep", "done", "failed", "recorded",
                            "abandoned"}]
    BY DEF Enqueue, OutboxType
  <2>3. pending' \in [Keys -> [job : Jobs \cup {0}, futures : SUBSET Jobs]]
    BY <1>1 DEF Enqueue, OutboxType
  <2> QED BY <2>1, <2>2, <2>3 DEF OutboxType
<1>3. /\ pending'[k].job = j /\ pending'[k].futures = pending[k].futures \cup {j}
      /\ \A l \in Keys \ {k} : pending'[l] = pending[l]
  BY <1>1 DEF Enqueue, OutboxType
<1>4. CASE pending[k].job # 0
  <2>1. queue' = queue
    BY <1>4 DEF Enqueue
  <2>2. QueuedOnce' /\ QueueIsMap'
    BY <1>1, <1>3, <1>4, <2>1 DEF QueuedOnce, QueueIsMap
  <2> QED BY <1>1, <1>2, <1>3, <2>2, JobsHaveKeys
          DEF Enqueue, FutureKept, IdleOwesNothing, OutboxType
<1>5. CASE pending[k].job = 0
  <2>1. queue' = Append(queue, k)
    BY <1>5 DEF Enqueue
  <2>2. \A i \in DOMAIN queue : queue[i] # k
    BY <1>1, <1>5 DEF QueueIsMap
  <2>3. /\ DOMAIN queue' = 1 .. Len(queue) + 1 /\ DOMAIN queue = 1 .. Len(queue)
        /\ \A i \in DOMAIN queue : queue'[i] = queue[i]
        /\ queue'[Len(queue) + 1] = k /\ Len(queue) \in Nat
    BY <1>1, <2>1 DEF OutboxType
  <2>4. QueuedOnce'
    BY <2>2, <2>3 DEF QueuedOnce
  <2>5. QueueIsMap'
    <3> SUFFICES ASSUME NEW l \in Keys
                 PROVE  pending'[l].job # 0 <=> \E i \in DOMAIN queue' : queue'[i] = l
      BY DEF QueueIsMap
    <3>1. CASE l = k
      BY <1>1, <1>3, <2>3, <3>1
    <3>2. CASE l # k
      BY <1>3, <2>3, <3>2 DEF QueueIsMap
    <3> QED BY <3>1, <3>2
  <2> QED BY <1>1, <1>2, <1>3, <2>4, <2>5, JobsHaveKeys
          DEF Enqueue, FutureKept, IdleOwesNothing, OutboxType
<1> QED BY <1>4, <1>5

LEMMA TakeKeeps ==
  ASSUME OutboxInv, WorkerTakes
  PROVE  OutboxInv'
<1> DEFINE k == Head(queue)
<1> USE DEF OutboxInv
<1>1. /\ queue # <<>> /\ queue' = Tail(queue)
      /\ pending' = [pending EXCEPT ![k] = NoJob]
      /\ worker.futures = {} /\ worker'.futures = pending[k].futures
      /\ worker'.at # "idle" /\ UNCHANGED call
  BY DEF WorkerTakes, Dequeue, IdleOwesNothing
<1>2. /\ k \in Keys /\ k = queue[1] /\ Len(queue) \in Nat \ {0}
      /\ DOMAIN queue = 1 .. Len(queue) /\ DOMAIN queue' = 1 .. Len(queue) - 1
      /\ \A i \in DOMAIN queue' : queue'[i] = queue[i + 1]
      /\ queue' \in Seq(Keys)
  BY <1>1 DEF OutboxType
<1>3. OutboxType'
  <2>1. pending' \in [Keys -> [job : Jobs \cup {0}, futures : SUBSET Jobs]]
    BY <1>1, <1>2 DEF OutboxType, NoJob
  <2>2. worker' \in WorkerStates
    BY <1>2 DEF WorkerTakes, OutboxType, WorkerStates
  <2> QED BY <1>1, <1>2, <2>1, <2>2 DEF OutboxType
<1>4. QueuedOnce'
  BY <1>2 DEF QueuedOnce
<1>5. \A l \in Keys : pending'[l] = IF l = k THEN NoJob ELSE pending[l]
  BY <1>1, <1>2 DEF OutboxType
<1>6. QueueIsMap'
  <2> SUFFICES ASSUME NEW l \in Keys
               PROVE  pending'[l].job # 0 <=> \E i \in DOMAIN queue' : queue'[i] = l
    BY DEF QueueIsMap
  <2>1. CASE l = k
    <3>1. \A i \in DOMAIN queue' : queue'[i] # k
      BY <1>2 DEF QueuedOnce
    <3> QED BY <1>5, <2>1, <3>1 DEF NoJob
  <2>2. CASE l # k
    <3>1. (\E i \in DOMAIN queue : queue[i] = l) <=> \E i \in DOMAIN queue' : queue'[i] = l
      <4>1. ASSUME NEW i \in DOMAIN queue, queue[i] = l
            PROVE  \E m \in DOMAIN queue' : queue'[m] = l
        <5>1. i - 1 \in DOMAIN queue' /\ queue'[i - 1] = l
          BY <1>2, <2>2, <4>1
        <5> QED BY <5>1
      <4>2. ASSUME NEW i \in DOMAIN queue', queue'[i] = l
            PROVE  \E m \in DOMAIN queue : queue[m] = l
        <5>1. i + 1 \in DOMAIN queue /\ queue[i + 1] = l
          BY <1>2, <4>2
        <5> QED BY <5>1
      <4> QED BY <4>1, <4>2
    <3> QED BY <1>5, <2>2, <3>1 DEF QueueIsMap
  <2> QED BY <2>1, <2>2
<1>7. FutureKept'
  BY <1>1, <1>5, JobsHaveKeys DEF FutureKept
<1> QED BY <1>1, <1>3, <1>4, <1>6, <1>7 DEF IdleOwesNothing

-----------------------------------------------------------------------------
(* The other steps leave the queue alone. *)

LEMMA ResolveKeeps ==
  ASSUME OutboxInv, NEW outcome, Resolve(outcome), UNCHANGED <<queue, pending>>
  PROVE  OutboxInv'
<1> USE DEF OutboxInv
<1>1. /\ worker' = Idle
      /\ \A j \in worker.futures : call'[j] \in {"done", "asleep", "failed"}
      /\ \A j \in Jobs \ worker.futures : call'[j] = call[j]
      /\ call' \in [Jobs -> {"new", "waiting", "asleep", "done", "failed", "recorded",
                             "abandoned"}]
  <2>1. /\ worker' = Idle
        /\ call' = [j \in Jobs |->
                     CASE j \notin worker.futures -> call[j]
                       [] j \in worker.futures /\ outcome = "ok" -> "done"
                       [] OTHER -> AfterError(j, outcome = "transient")]
    BY DEF Resolve
  <2>2. \A j \in Jobs : AfterError(j, outcome = "transient") \in {"asleep", "failed"}
    BY DEF AfterError
  <2>3. worker.futures \subseteq Jobs
    BY DEF OutboxType, WorkerStates
  <2> QED BY <2>1, <2>2, <2>3 DEF OutboxType
<1>2. OutboxType'
  <2>1. 0 \in Keys
    BY DEF Keys
  <2> QED BY <1>1, <2>1 DEF OutboxType, WorkerStates, Idle
<1>3. FutureKept'
  BY <1>1 DEF FutureKept, Idle
<1> QED BY <1>1, <1>2, <1>3 DEF QueuedOnce, QueueIsMap, IdleOwesNothing, Idle

\* The worker goes on with what it holds.
LEMMA MoveKeeps ==
  ASSUME OutboxInv, UNCHANGED <<queue, pending, call>>, worker' \in WorkerStates,
         worker'.futures = worker.futures, worker'.at # "idle" \/ worker.at = "idle"
  PROVE  OutboxInv'
BY DEF OutboxInv, OutboxType, QueuedOnce, QueueIsMap, FutureKept, IdleOwesNothing

LEMMA OutboxInvInit == Init => OutboxInv
<1> SUFFICES ASSUME Init PROVE OutboxInv
  OBVIOUS
<1>1. OutboxType
  BY DEF Init, OutboxType, WorkerStates, NoJob, Idle, Keys
<1>2. QueuedOnce /\ QueueIsMap
  BY DEF Init, QueuedOnce, QueueIsMap, NoJob
<1>3. FutureKept /\ IdleOwesNothing
  BY DEF Init, FutureKept, IdleOwesNothing, Idle
<1> QED BY <1>1, <1>2, <1>3 DEF OutboxInv

LEMMA OutboxInvStep == OutboxInv /\ [Next]_vars => OutboxInv'
<1> SUFFICES ASSUME OutboxInv, [Next]_vars PROVE OutboxInv'
  OBVIOUS
<1>1. CASE WorkerTakes
  BY <1>1, TakeKeeps
<1>2. CASE \E j \in Jobs : Send(j) \/ Retry(j)
  BY <1>2, EnqueueKeeps DEF Send, Retry
<1>3. CASE Update
  <2>1. CASE Enqueue(content + 1) /\ content + 1 \in Edits /\ UNCHANGED worker
    BY <2>1, EnqueueKeeps DEF Jobs
  <2>2. CASE UNCHANGED <<queue, pending, call, worker>>
    BY <2>2 DEF OutboxInv, OutboxType, QueuedOnce, QueueIsMap, FutureKept, IdleOwesNothing
  <2> QED BY <1>3, <2>1, <2>2 DEF Update
<1>4. CASE \E c \in Clears : Clear(c)
  BY <1>4, EnqueueKeeps DEF Clear, Jobs
<1>5. CASE CallSucceeds \/ Flood \/ CallFails
  BY <1>5, ResolveKeeps DEF CallSucceeds, Flood, CallFails, unchangedQueue
<1>6. CASE NetworkError
  <2>1. CASE Resolve("transient")
    BY <1>6, <2>1, ResolveKeeps DEF NetworkError, unchangedQueue
  <2>2. CASE ~Resolve("transient")
    <3>1. /\ worker' = [worker EXCEPT !.at = "backoff", !.tries = worker.tries + 1]
          /\ UNCHANGED <<call, queue, pending>>
      BY <1>6, <2>2 DEF NetworkError, unchangedQueue
    <3>2. worker \in WorkerStates /\ worker.tries + 1 \in Nat
      BY DEF OutboxInv, OutboxType, WorkerStates
    <3>3. PICK t \in Nat : worker' = [worker EXCEPT !.at = "backoff", !.tries = t]
      BY <3>1, <3>2, Zenon
    <3>4. worker' \in WorkerStates /\ worker'.futures = worker.futures /\ worker'.at = "backoff"
      BY <3>2, <3>3 DEF WorkerStates
    <3> QED BY <3>1, <3>4, MoveKeeps
  <2> QED BY <2>1, <2>2
<1>7. CASE PauseOver \/ LimiterGrants \/ BackoffOver \/ CallOnceMore \/ Shutdown
  <2>1. UNCHANGED <<queue, pending, call>>
    BY <1>7 DEF PauseOver, LimiterGrants, BackoffOver, CallOnceMore, Shutdown,
      unchangedQueue
  <2>2. worker \in WorkerStates
    BY DEF OutboxInv, OutboxType
  <2>3. CASE PauseOver
    <3>1. worker' = [worker EXCEPT !.at = "limiter"] \/ worker' = [worker EXCEPT !.at = worker.at]
      BY <2>3 DEF PauseOver
    <3>2. /\ worker' \in WorkerStates /\ worker'.futures = worker.futures
          /\ worker'.at # "idle" \/ worker.at = "idle"
      BY <2>2, <3>1 DEF WorkerStates
    <3> QED BY <2>1, <3>2, MoveKeeps
  <2>4. CASE LimiterGrants
    <3>1. worker' = [worker EXCEPT !.at = "sending", !.tries = 1]
      BY <2>4 DEF LimiterGrants
    <3>2. worker' \in WorkerStates /\ worker'.futures = worker.futures /\ worker'.at = "sending"
      BY <2>2, <3>1 DEF WorkerStates
    <3> QED BY <2>1, <3>2, MoveKeeps
  <2>5. CASE BackoffOver \/ CallOnceMore \/ Shutdown
    <3>1. PICK a \in {"sending", "once", "stopped"} : worker' = [worker EXCEPT !.at = a]
      BY <2>5, Zenon DEF BackoffOver, CallOnceMore, Shutdown
    <3>2. worker' \in WorkerStates /\ worker'.futures = worker.futures /\ worker'.at = a
      BY <2>2, <3>1 DEF WorkerStates
    <3> QED BY <2>1, <3>2, MoveKeeps
  <2> QED BY <1>7, <2>3, <2>4, <2>5
<1>8. CASE \/ \E m \in Posts : Post(m)
           \/ \E j \in Sends : RecordOutgoing(j)
           \/ \E c \in Clears : ClearStore(c)
  <2>1. UNCHANGED <<queue, pending, worker>>
    BY <1>8 DEF Post, RecordOutgoing, ClearStore
  <2>2. \A j \in Jobs : call'[j] = "waiting" => call[j] = "waiting"
    BY <1>8 DEF Post, RecordOutgoing, ClearStore, OutboxInv, OutboxType, Jobs
  <2>3. OutboxType'
    BY <1>8 DEF Post, RecordOutgoing, ClearStore, OutboxInv, OutboxType, Jobs
  <2> QED BY <2>1, <2>2, <2>3
          DEF OutboxInv, QueuedOnce, QueueIsMap, FutureKept, IdleOwesNothing
<1>9. CASE UNCHANGED vars
  BY <1>9 DEF vars, OutboxInv, OutboxType, QueuedOnce, QueueIsMap, FutureKept,
    IdleOwesNothing
<1> QED
  BY <1>1, <1>2, <1>3, <1>4, <1>5, <1>6, <1>7, <1>8, <1>9 DEF Next, WorkerNext

\* Compaction loses no caller (MessagingRateLimiter._enqueue_internal_multi and
\* _worker), for any jobs, messages, retries and faults of the platform.
THEOREM NoCallerLost == Spec => []NoCallerForgotten
<1>1. Init => OutboxInv
  BY OutboxInvInit
<1>2. OutboxInv /\ [Next]_vars => OutboxInv'
  BY OutboxInvStep
<1>3. OutboxInv => NoCallerForgotten
  BY QueueCounts
<1> QED BY <1>1, <1>2, <1>3, PTL DEF Spec

-----------------------------------------------------------------------------
(* Who holds a job *)

Busy == {"paused", "limiter", "sending", "backoff", "once"}

\* The map has jobs and futures of its keys only; a key of one job is either
\* in the map or with the worker, and its caller waits.
MapHolds ==
  \A k \in Keys :
    /\ \A j \in pending[k].futures : KeyOf(j) = k
    /\ pending[k].job # 0 => KeyOf(pending[k].job) = k
    /\ pending[k].job = 0 => pending[k].futures = {}
    /\ k # 0 /\ pending[k].job # 0 => call[k] = "waiting" /\ worker.key # k

WorkerHolds ==
  /\ \A j \in worker.futures : KeyOf(j) = worker.key
  /\ worker.job # 0 => KeyOf(worker.job) = worker.key
  /\ worker.at \in Busy => worker.job # 0
  /\ worker.key # 0 => call[worker.key] = "waiting"

OnlyEditsSleep == \A j \in Jobs : call[j] = "asleep" => j \in Edits

Asked ==
  /\ \A k \in Keys : \A j \in pending[k].futures : call[j] # "new"
  /\ \A j \in worker.futures : call[j] # "new"

HoldInv == MapHolds /\ WorkerHolds /\ OnlyEditsSleep /\ Asked

-----------------------------------------------------------------------------
(* The versions of the edited message *)

EditsType ==
  /\ content \in Edits \cup {0}
  /\ retries \in [Jobs -> Nat]
  /\ shown \in [Keys -> Jobs \cup {0}]

LaterEditsNew == \A j \in Edits : j > content => call[j] = "new"

NoRetries == \A j \in Edits : retries[j] = 0

\* Without retries an edit is never behind the edits whose callers it answers,
\* and once the newest is with the worker or answered no older one is left.
NewestLast ==
  /\ pending[0].job <= content /\ \A i \in pending[0].futures : i <= pending[0].job
  /\ worker.key = 0 =>
       worker.job <= content /\ \A i \in worker.futures : i <= worker.job
  /\ content > 0 =>
       /\ content \in worker.futures => pending[0].job = 0
       /\ call[content] \notin {"new", "waiting"} =>
            pending[0].job = 0 /\ (worker.key = 0 => worker.job = 0)
       /\ call[content] = "done" => shown[0] = content

EditInv == EditsType /\ LaterEditsNew /\ (NoRetries => NewestLast)

-----------------------------------------------------------------------------
(* The chat and the log *)

ChatType ==
  /\ chat \in [Messages -> {"absent", "there", "deleted"}]
  /\ log \subseteq Messages /\ late \subseteq Messages
  /\ target \in [Clears -> SUBSET Messages]

\* What is in the log or in a target has been in the chat: a send's handler has
\* gone on, a post has come, a command has started.
Known(m) ==
  /\ m \in Sends => call[m] = "recorded"
  /\ m \in Posts => chat[m] # "absent"
  /\ m \in Clears => call[m] # "new"

KnownKept ==
  /\ \A m \in log : Known(m)
  /\ \A c \in Clears : \A m \in target[c] : Known(m)

\* While a /clear deletes, the log has what it deletes and what came late.
LogCollected ==
  \A c \in Clears : call[c] \in {"waiting", "done", "failed"} => log \subseteq target[c] \cup late

\* After the deletion only what the platform refuses is left of its target.
TargetDeleted ==
  \A c \in Clears : call[c] \in {"done", "recorded"} =>
    \A m \in target[c] : chat[m] = "there" => m \in Undeletable

ClearInv ==
  ChatType /\ KnownKept /\ LogCollected /\ TargetDeleted /\ ClearForgetsDeleted

-----------------------------------------------------------------------------
(* What the steps do to the queue's jobs *)

LEMMA KeyFacts ==
  /\ 0 \in Keys /\ \A j \in Jobs : KeyOf(j) \in Keys /\ j # 0
  /\ \A j \in Edits : j \in Jobs /\ KeyOf(j) = 0
  /\ \A j \in Sends \cup Clears : j \in Jobs /\ j \in Keys /\ j \notin Edits /\ KeyOf(j) = j
  /\ \A k \in Keys \ {0} : k \in Sends \cup Clears
  /\ \A j \in Jobs : j \in Edits \/ j \in Sends \cup Clears
BY JobsAssumption DEF Jobs, Keys, KeyOf

LEMMA EnqueueFacts ==
  ASSUME OutboxInv, NEW j \in Jobs, Enqueue(j)
  PROVE  /\ pending'[KeyOf(j)].job = j
         /\ pending'[KeyOf(j)].futures = pending[KeyOf(j)].futures \cup {j}
         /\ \A l \in Keys \ {KeyOf(j)} : pending'[l] = pending[l]
         /\ call'[j] = "waiting"
         /\ \A i \in Jobs \ {j} : call'[i] = call[i]
BY JobsHaveKeys DEF OutboxInv, OutboxType, Enqueue

LEMMA TakeFacts ==
  ASSUME OutboxInv, WorkerTakes
  PROVE  /\ worker'.key \in Keys /\ pending[worker'.key].job # 0
         /\ worker'.job = pending[worker'.key].job
         /\ worker'.futures = pending[worker'.key].futures
         /\ pending'[worker'.key].job = 0 /\ pending'[worker'.key].futures = {}
         /\ \A l \in Keys \ {worker'.key} : pending'[l] = pending[l]
         /\ UNCHANGED <<call, retries, shown, content, clearing>>
<1> DEFINE k == Head(queue)
<1>1. /\ queue # <<>> /\ pending' = [pending EXCEPT ![k] = NoJob]
      /\ worker'.key = k /\ worker'.job = pending[k].job
      /\ worker'.futures = pending[k].futures
      /\ UNCHANGED <<call, retries, shown, content, clearing>>
  BY DEF WorkerTakes, Dequeue
<1>2. k \in Keys /\ 1 \in DOMAIN queue /\ queue[1] = k
  BY <1>1 DEF OutboxInv, OutboxType
<1> HIDE DEF k
<1>3. pending[k].job # 0
  BY <1>2 DEF OutboxInv, QueueIsMap
<1>4. /\ pending'[k] = NoJob /\ \A l \in Keys \ {k} : pending'[l] = pending[l]
  BY <1>1, <1>2 DEF OutboxInv, OutboxType
<1> QED BY <1>1, <1>2, <1>3, <1>4 DEF NoJob

LEMMA ResolveFacts ==
  ASSUME OutboxInv, NEW outcome, Resolve(outcome)
  PROVE  /\ worker'.key = 0 /\ worker'.job = 0 /\ worker'.futures = {}
         /\ worker'.at = "idle"
         /\ \A j \in Jobs \ worker.futures : call'[j] = call[j]
         /\ \A j \in worker.futures :
              /\ call'[j] \in {"done", "asleep", "failed"}
              /\ call'[j] = "done" => outcome = "ok"
              /\ call'[j] = "asleep" => j \in Edits
<1>1. /\ worker' = Idle
      /\ call' = [j \in Jobs |->
                    CASE j \notin worker.futures -> call[j]
                      [] j \in worker.futures /\ outcome = "ok" -> "done"
                      [] OTHER -> AfterError(j, outcome = "transient")]
  BY DEF Resolve
<1>2. \A j \in Jobs : /\ AfterError(j, outcome = "transient") \in {"asleep", "failed"}
                      /\ AfterError(j, outcome = "transient") = "asleep" => j \in Edits
  BY DEF AfterError
<1>3. worker.futures \subseteq Jobs
  BY DEF OutboxInv, OutboxType, WorkerStates
<1>4. /\ worker'.key = 0 /\ worker'.job = 0 /\ worker'.futures = {} /\ worker'.at = "idle"
  BY <1>1 DEF Idle
<1>5. \A j \in Jobs \ worker.futures : call'[j] = call[j]
  BY <1>1
<1>6. ASSUME NEW j \in worker.futures
      PROVE  /\ call'[j] \in {"done", "asleep", "failed"}
             /\ call'[j] = "done" => outcome = "ok"
             /\ call'[j] = "asleep" => j \in Edits
  <2>1. CASE outcome = "ok"
    BY <1>1, <1>3, <2>1
  <2>2. CASE outcome # "ok"
    <3>1. call'[j] = AfterError(j, outcome = "transient")
      BY <1>1, <1>3, <2>2
    <3> QED BY <1>2, <1>3, <2>2, <3>1
  <2> QED BY <2>1, <2>2
<1> QED BY <1>4, <1>5, <1>6

\* The worker keeps what it holds.
WorkerGoesOn ==
  /\ worker'.key = worker.key /\ worker'.job = worker.job
  /\ worker'.futures = worker.futures
  /\ worker'.at \in Busy => worker.at \in Busy

LEMMA MoveFacts ==
  ASSUME OutboxInv,
         PauseOver \/ LimiterGrants \/ BackoffOver \/ CallOnceMore \/ Shutdown
  PROVE  /\ WorkerGoesOn
         /\ UNCHANGED <<pending, call, retries, shown, content, clearing>>
<1>1. UNCHANGED <<pending, call, retries, shown, content, clearing>>
  BY DEF PauseOver, LimiterGrants, BackoffOver, CallOnceMore, Shutdown, unchangedQueue,
     clearing
<1>2. worker \in WorkerStates
  BY DEF OutboxInv, OutboxType
<1>3. CASE PauseOver
  <2>1. \/ worker' = [worker EXCEPT !.at = "limiter"] /\ worker.at = "paused"
        \/ worker' = [worker EXCEPT !.at = worker.at]
    BY <1>3 DEF PauseOver
  <2> QED BY <1>1, <1>2, <2>1 DEF WorkerStates, WorkerGoesOn, Busy
<1>4. CASE LimiterGrants
  <2>1. worker' = [worker EXCEPT !.at = "sending", !.tries = 1] /\ worker.at = "limiter"
    BY <1>4 DEF LimiterGrants
  <2> QED BY <1>1, <1>2, <2>1 DEF WorkerStates, WorkerGoesOn, Busy
<1>5. CASE BackoffOver \/ CallOnceMore \/ Shutdown
  <2>1. PICK a \in {"sending", "once", "stopped"} :
               /\ worker' = [worker EXCEPT !.at = a]
               /\ a # "stopped" => worker.at \in {"backoff", "sending"}
    BY <1>5, Zenon DEF BackoffOver, CallOnceMore, Shutdown
  <2> QED BY <1>1, <1>2, <2>1 DEF WorkerStates, WorkerGoesOn, Busy
<1> QED BY <1>3, <1>4, <1>5

\* A call ends, or is tried once more; it was carried out or not.
LEMMA CallFacts ==
  ASSUME OutboxInv, CallSucceeds \/ NetworkError \/ Flood \/ CallFails
  PROVE  /\ worker.at \in Busy
         /\ UNCHANGED <<pending, retries, content, log, target, late>>
         /\ \/ Applied /\ Resolve("ok")
            \/ /\ Applied \/ UNCHANGED <<shown, chat>>
               /\ \/ \E outcome \in {"transient", "fatal"} : Resolve(outcome)
                  \/ WorkerGoesOn /\ UNCHANGED call
<1>1. /\ worker.at \in Busy
      /\ UNCHANGED <<pending, retries, content, log, target, late>>
  BY DEF CallSucceeds, NetworkError, Flood, CallFails, Calling, Busy, unchangedQueue
<1>2. CASE CallSucceeds
  BY <1>1, <1>2 DEF CallSucceeds
<1>3. CASE Flood \/ CallFails
  BY <1>1, <1>3, Zenon DEF Flood, CallFails
<1>4. CASE NetworkError
  <2>1. CASE Resolve("transient")
    BY <1>1, <1>4, <2>1, Zenon DEF NetworkError
  <2>2. CASE ~Resolve("transient")
    <3>1. worker' = [worker EXCEPT !.at = "backoff", !.tries = worker.tries + 1]
          /\ UNCHANGED call
      BY <1>4, <2>2 DEF NetworkError
    <3>2. worker \in WorkerStates
      BY DEF OutboxInv, OutboxType
    <3>3. WorkerGoesOn
      BY <1>1, <3>1, <3>2 DEF WorkerStates, WorkerGoesOn
    <3> QED BY <1>1, <1>4, <3>1, <3>3, Zenon DEF NetworkError
  <2> QED BY <2>1, <2>2
<1> QED BY <1>2, <1>3, <1>4

-----------------------------------------------------------------------------
(* Who holds a job: the steps *)

LEMMA HoldEnqueue ==
  ASSUME OutboxInv, HoldInv, NEW j \in Jobs, Enqueue(j), UNCHANGED worker,
         j \in Edits \/ call[j] = "new"
  PROVE  HoldInv'
<1> DEFINE k == KeyOf(j)
<1>1. /\ pending'[k].job = j /\ pending'[k].futures = pending[k].futures \cup {j}
      /\ \A l \in Keys \ {k} : pending'[l] = pending[l]
      /\ call'[j] = "waiting" /\ \A i \in Jobs \ {j} : call'[i] = call[i]
  BY EnqueueFacts
<1>2. k \in Keys /\ j # 0 /\ (k # 0 => k = j /\ j \notin Edits)
  BY KeyFacts
<1>3. MapHolds'
  <2> SUFFICES ASSUME NEW l \in Keys
               PROVE  /\ \A i \in pending'[l].futures : KeyOf(i) = l
                      /\ pending'[l].job # 0 => KeyOf(pending'[l].job) = l
                      /\ pending'[l].job = 0 => pending'[l].futures = {}
                      /\ l # 0 /\ pending'[l].job # 0 =>
                           call'[l] = "waiting" /\ worker'.key # l
    BY DEF MapHolds
  <2>1. CASE l = k
    <3>1. k # 0 => worker.key # k
      BY <1>2 DEF HoldInv, WorkerHolds
    <3> QED BY <1>1, <1>2, <2>1, <3>1 DEF HoldInv, MapHolds
  <2>2. CASE l # k
    <3>1. l # 0 => l \in Jobs /\ l # j
      BY <1>2, <2>2, KeyFacts
    <3> QED BY <1>1, <2>2, <3>1 DEF HoldInv, MapHolds
  <2> QED BY <2>1, <2>2
<1>4. WorkerHolds'
  <2>1. worker.key # 0 => worker.key \in Jobs
    BY KeyFacts DEF OutboxInv, OutboxType, WorkerStates
  <2> QED BY <1>1, <2>1 DEF HoldInv, WorkerHolds
<1>5. OnlyEditsSleep'
  BY <1>1 DEF HoldInv, OnlyEditsSleep
<1>6. Asked'
  <2>1. \A i \in Jobs : call[i] # "new" => call'[i] # "new"
    BY <1>1
  <2>2. /\ worker.futures \subseteq Jobs
        /\ \A l \in Keys : pending[l].futures \subseteq Jobs
    BY DEF OutboxInv, OutboxType, WorkerStates
  <2> QED BY <1>1, <1>2, <2>1, <2>2 DEF HoldInv, Asked
<1> QED BY <1>3, <1>4, <1>5, <1>6 DEF HoldInv

LEMMA HoldTakes ==
  ASSUME OutboxInv, HoldInv, WorkerTakes PROVE HoldInv'
<1> DEFINE k == worker'.key
<1>1. /\ k \in Keys /\ pending[k].job # 0 /\ worker'.job = pending[k].job
      /\ worker'.futures = pending[k].futures
      /\ pending'[k].job = 0 /\ pending'[k].futures = {}
      /\ \A l \in Keys \ {k} : pending'[l] = pending[l]
      /\ UNCHANGED call
  BY TakeFacts
<1>2. MapHolds'
  <2> SUFFICES ASSUME NEW l \in Keys
               PROVE  /\ \A i \in pending'[l].futures : KeyOf(i) = l
                      /\ pending'[l].job # 0 => KeyOf(pending'[l].job) = l
                      /\ pending'[l].job = 0 => pending'[l].futures = {}
                      /\ l # 0 /\ pending'[l].job # 0 =>
                           call'[l] = "waiting" /\ worker'.key # l
    BY DEF MapHolds
  <2>1. CASE l = k
    BY <1>1, <2>1
  <2>2. CASE l # k
    BY <1>1, <2>2 DEF HoldInv, MapHolds
  <2> QED BY <2>1, <2>2
<1>3. WorkerHolds'
  BY <1>1 DEF HoldInv, MapHolds, WorkerHolds
<1>4. Asked'
  BY <1>1 DEF HoldInv, Asked
<1> QED BY <1>1, <1>2, <1>3, <1>4 DEF HoldInv, OnlyEditsSleep

LEMMA HoldResolve ==
  ASSUME OutboxInv, HoldInv, NEW outcome, Resolve(outcome), UNCHANGED pending
  PROVE  HoldInv'
<1>1. /\ worker'.key = 0 /\ worker'.job = 0 /\ worker'.futures = {}
      /\ worker'.at = "idle"
      /\ \A j \in Jobs \ worker.futures : call'[j] = call[j]
      /\ \A j \in worker.futures :
           call'[j] \in {"done", "asleep", "failed"} /\ (call'[j] = "asleep" => j \in Edits)
  BY ResolveFacts
<1>2. MapHolds'
  <2> SUFFICES ASSUME NEW l \in Keys, l # 0, pending[l].job # 0
               PROVE  call'[l] = "waiting"
    BY <1>1 DEF HoldInv, MapHolds
  <2>1. call[l] = "waiting" /\ worker.key # l
    BY DEF HoldInv, MapHolds
  <2>2. l \in Jobs /\ KeyOf(l) = l
    BY KeyFacts
  <2>3. l \notin worker.futures
    BY <2>1, <2>2 DEF HoldInv, WorkerHolds
  <2> QED BY <1>1, <2>1, <2>2, <2>3
<1>3. WorkerHolds'
  BY <1>1 DEF WorkerHolds, Busy
<1>4. OnlyEditsSleep'
  BY <1>1 DEF HoldInv, OnlyEditsSleep
<1>5. Asked'
  <2>1. \A l \in Keys : pending[l].futures \subseteq Jobs
    BY DEF OutboxInv, OutboxType
  <2> QED BY <1>1, <2>1 DEF HoldInv, Asked
<1> QED BY <1>2, <1>3, <1>4, <1>5 DEF HoldInv

LEMMA HoldMove ==
  ASSUME HoldInv, WorkerGoesOn, UNCHANGED <<pending, call>> PROVE HoldInv'
BY DEF HoldInv, MapHolds, WorkerHolds, OnlyEditsSleep, Asked, WorkerGoesOn

\* A caller goes on after its answer.
LEMMA HoldAnswered ==
  ASSUME OutboxInv, HoldInv, UNCHANGED <<pending, worker>>, NEW j \in Jobs,
         NEW x \in {"recorded", "abandoned"}, call[j] \in {"done", "failed"},
         call' = [call EXCEPT ![j] = x]
  PROVE  HoldInv'
<1>1. /\ call'[j] = x /\ call[j] # "waiting"
      /\ \A i \in Jobs \ {j} : call'[i] = call[i]
  BY DEF OutboxInv, OutboxType
<1>2. \A l \in Keys : l # 0 => l \in Jobs
  BY KeyFacts
<1>3. worker.key \in Keys
  BY DEF OutboxInv, OutboxType, WorkerStates
<1>4. MapHolds'
  BY <1>1, <1>2 DEF HoldInv, MapHolds
<1>5. WorkerHolds'
  BY <1>1, <1>2, <1>3 DEF HoldInv, WorkerHolds
<1>6. OnlyEditsSleep'
  BY <1>1 DEF HoldInv, OnlyEditsSleep
<1>7. Asked'
  <2>1. /\ worker.futures \subseteq Jobs
        /\ \A l \in Keys : pending[l].futures \subseteq Jobs
    BY DEF OutboxInv, OutboxType, WorkerStates
  <2> QED BY <1>1, <2>1 DEF HoldInv, Asked
<1> QED BY <1>4, <1>5, <1>6, <1>7 DEF HoldInv

LEMMA HoldStep == OutboxInv /\ HoldInv /\ [Next]_vars => HoldInv'
<1> SUFFICES ASSUME OutboxInv, HoldInv, [Next]_vars PROVE HoldInv'
  OBVIOUS
<1>1. CASE WorkerTakes
  BY <1>1, HoldTakes
<1>2. ASSUME NEW j \in Jobs, Send(j) \/ Retry(j) PROVE HoldInv'
  <2>1. Enqueue(j) /\ UNCHANGED worker /\ (j \in Edits \/ call[j] = "new")
    BY <1>2 DEF Send, Retry, HoldInv, OnlyEditsSleep
  <2> QED BY <2>1, HoldEnqueue
<1>3. CASE Update
  <2>1. CASE Enqueue(content + 1) /\ content + 1 \in Edits /\ UNCHANGED worker
    BY <2>1, HoldEnqueue, KeyFacts
  <2>2. CASE UNCHANGED <<pending, call, worker>>
    BY <2>2, HoldMove DEF WorkerGoesOn
  <2> QED BY <1>3, <2>1, <2>2 DEF Update
<1>4. ASSUME NEW c \in Clears, Clear(c) PROVE HoldInv'
  BY <1>4, HoldEnqueue, KeyFacts DEF Clear
<1>5. CASE CallSucceeds \/ NetworkError \/ Flood \/ CallFails
  BY <1>5, CallFacts, HoldResolve, HoldMove, Zenon
<1>6. CASE PauseOver \/ LimiterGrants \/ BackoffOver \/ CallOnceMore \/ Shutdown
  BY <1>6, MoveFacts, HoldMove
<1>7. ASSUME NEW m \in Posts, Post(m) PROVE HoldInv'
  BY <1>7, HoldMove DEF Post, WorkerGoesOn
<1>8. ASSUME NEW j \in Sends, RecordOutgoing(j) PROVE HoldInv'
  <2>1. /\ call[j] \in {"done", "failed"} /\ call' = [call EXCEPT ![j] = "recorded"]
        /\ UNCHANGED <<pending, worker>> /\ j \in Jobs
    BY <1>8, KeyFacts DEF RecordOutgoing
  <2> QED BY <2>1, HoldAnswered
<1>9. ASSUME NEW c \in Clears, ClearStore(c) PROVE HoldInv'
  <2>1. PICK x \in {"recorded", "abandoned"} : call' = [call EXCEPT ![c] = x]
    BY <1>9 DEF ClearStore
  <2>2. call[c] \in {"done", "failed"} /\ UNCHANGED <<pending, worker>> /\ c \in Jobs
    BY <1>9, KeyFacts DEF ClearStore
  <2> QED BY <2>1, <2>2, HoldAnswered
<1>10. CASE UNCHANGED vars
  BY <1>10, HoldMove DEF vars, WorkerGoesOn
<1> QED
  BY <1>1, <1>2, <1>3, <1>4, <1>5, <1>6, <1>7, <1>8, <1>9, <1>10, Zenon
  DEF Next, WorkerNext

-----------------------------------------------------------------------------
(* The edited message: the steps *)

\* Steps that leave the edits' jobs and their message alone.
LEMMA EditSame ==
  ASSUME OutboxInv, EditInv, UNCHANGED <<content, retries, shown>>,
         pending'[0] = pending[0], WorkerGoesOn, \A j \in Edits : call'[j] = call[j]
  PROVE  EditInv'
<1>1. EditsType' /\ LaterEditsNew' /\ NoRetries' = NoRetries
  BY DEF EditInv, EditsType, LaterEditsNew, NoRetries
<1>2. content > 0 => call'[content] = call[content]
  BY DEF EditInv, EditsType
<1>3. NewestLast => NewestLast'
  BY <1>2 DEF NewestLast, WorkerGoesOn
<1> QED BY <1>1, <1>3 DEF EditInv

\* A job of another key.
LEMMA EditOtherKey ==
  ASSUME OutboxInv, EditInv, UNCHANGED <<content, retries, shown, worker>>,
         NEW j \in Sends \cup Clears, Enqueue(j)
  PROVE  EditInv'
<1>1. j \in Jobs /\ j \notin Edits /\ KeyOf(j) = j /\ j # 0 /\ 0 \in Keys
      /\ Edits \subseteq Jobs
  BY KeyFacts
<1>2. pending'[0] = pending[0] /\ \A i \in Edits : call'[i] = call[i]
  BY <1>1, EnqueueFacts
<1> QED BY <1>2, EditSame DEF WorkerGoesOn

LEMMA EditUpdate ==
  ASSUME OutboxInv, HoldInv, EditInv, Update PROVE EditInv'
<1> DEFINE j == content + 1
<1>1. /\ j \in Edits /\ content' = j /\ UNCHANGED <<worker, retries, shown>>
      /\ UNCHANGED <<pending, call>> \/ Enqueue(j)
  BY DEF Update
<1>2. j \in Jobs /\ KeyOf(j) = 0 /\ 0 \in Keys /\ Edits \subseteq Jobs /\ Edits \subseteq Nat
      /\ j > 0 /\ content \in Nat
  BY <1>1, KeyFacts, JobsAssumption DEF EditInv, EditsType
<1>3. j > content /\ call[j] = "new"
  BY <1>1, <1>2 DEF EditInv, LaterEditsNew
<1>4. \/ pending'[0] = pending[0] /\ call'[j] = "new"
      \/ /\ pending'[0].job = j /\ pending'[0].futures = pending[0].futures \cup {j}
         /\ call'[j] = "waiting"
  BY <1>1, <1>2, <1>3, EnqueueFacts
<1>5. \A i \in Edits : i # j => call'[i] = call[i]
  BY <1>1, <1>2, EnqueueFacts
<1>6. EditsType' /\ NoRetries' = NoRetries
  BY <1>1 DEF EditInv, EditsType, NoRetries
<1>7. LaterEditsNew'
  <2> SUFFICES ASSUME NEW i \in Edits, i > j PROVE call'[i] = "new"
    BY <1>1 DEF LaterEditsNew
  <2>1. i > content /\ i # j
    BY <1>2
  <2> QED BY <1>5, <2>1 DEF EditInv, LaterEditsNew
<1>8. ASSUME NoRetries PROVE NewestLast'
  <2>1. NewestLast
    BY <1>8 DEF EditInv
  <2>2. /\ pending[0].job \in Nat /\ pending[0].futures \subseteq Nat
        /\ worker.job \in Nat /\ worker.futures \subseteq Nat
    <3>1. Jobs \cup {0} \subseteq Nat
      BY JobsHaveKeys
    <3>2. pending[0] \in [job : Jobs \cup {0}, futures : SUBSET Jobs]
      BY <1>2 DEF OutboxInv, OutboxType
    <3>3. worker.job \in Jobs \cup {0} /\ worker.futures \subseteq Jobs
      BY DEF OutboxInv, OutboxType, WorkerStates
    <3> QED BY <3>1, <3>2, <3>3
  <2>3. j \notin worker.futures
    <3>1. \A i \in worker.futures : i \in Edits => worker.key = 0
      BY KeyFacts DEF HoldInv, WorkerHolds
    <3> QED BY <1>1, <1>2, <1>3, <2>1, <2>2, <3>1 DEF NewestLast
  <2>4. pending'[0].job <= j /\ \A i \in pending'[0].futures : i <= pending'[0].job
    BY <1>2, <1>4, <2>1, <2>2 DEF NewestLast
  <2>5. worker.key = 0 => worker.job <= j /\ \A i \in worker.futures : i <= worker.job
    BY <1>2, <2>1, <2>2 DEF NewestLast
  <2>6. call'[j] \in {"new", "waiting"}
    BY <1>4
  <2> HIDE DEF j
  <2> QED BY <1>1, <2>3, <2>4, <2>5, <2>6 DEF NewestLast
<1> QED BY <1>6, <1>7, <1>8 DEF EditInv

LEMMA EditRetry ==
  ASSUME OutboxInv, HoldInv, EditInv, NEW j \in Jobs, Retry(j) PROVE EditInv'
<1>1. /\ j \in Edits /\ call[j] = "asleep" /\ Enqueue(j)
      /\ retries' = [retries EXCEPT ![j] = @ + 1] /\ UNCHANGED <<content, shown>>
  BY DEF Retry, HoldInv, OnlyEditsSleep
<1>2. EditsType' /\ ~NoRetries'
  BY <1>1 DEF EditInv, EditsType, NoRetries
<1>3. ~(j > content)
  BY <1>1 DEF EditInv, LaterEditsNew
<1>4. \A i \in Edits : i # j => call'[i] = call[i]
  BY <1>1, EnqueueFacts, KeyFacts
<1> QED BY <1>1, <1>2, <1>3, <1>4 DEF EditInv, LaterEditsNew

LEMMA EditTakes ==
  ASSUME OutboxInv, HoldInv, EditInv, WorkerTakes PROVE EditInv'
<1> DEFINE k == worker'.key
<1>1. /\ k \in Keys /\ pending[k].job # 0 /\ worker'.job = pending[k].job
      /\ worker'.futures = pending[k].futures
      /\ pending'[k].job = 0 /\ pending'[k].futures = {}
      /\ \A l \in Keys \ {k} : pending'[l] = pending[l]
      /\ UNCHANGED <<call, retries, shown, content>>
  BY TakeFacts DEF clearing
<1>2. EditsType' /\ LaterEditsNew' /\ NoRetries' = NoRetries
  BY <1>1 DEF EditInv, EditsType, LaterEditsNew, NoRetries
<1>3. ASSUME NewestLast PROVE NewestLast'
  <2>1. content \in Nat /\ 0 \in Keys /\ (content > 0 => content \in Edits)
    BY JobsAssumption, KeyFacts DEF EditInv, EditsType
  <2>2. CASE k = 0
    <3>1. content > 0 => call[content] \in {"new", "waiting"}
      BY <1>1, <1>3, <2>2 DEF NewestLast
    <3> QED BY <1>1, <1>3, <2>1, <2>2, <3>1 DEF NewestLast
  <2>3. CASE k # 0
    <3>1. content > 0 => content \notin worker'.futures
      BY <1>1, <2>1, <2>3, KeyFacts DEF HoldInv, MapHolds
    <3> QED BY <1>1, <1>3, <2>1, <2>3, <3>1 DEF NewestLast
  <2> QED BY <2>2, <2>3
<1> QED BY <1>2, <1>3 DEF EditInv

LEMMA EditCall ==
  ASSUME OutboxInv, HoldInv, EditInv, CallSucceeds \/ NetworkError \/ Flood \/ CallFails
  PROVE  EditInv'
<1>1. /\ worker.at \in Busy /\ worker.job # 0
      /\ UNCHANGED <<pending, retries, content>>
      /\ worker.key \in Keys /\ worker.job \in Jobs \cup {0}
  BY CallFacts DEF HoldInv, WorkerHolds, OutboxInv, OutboxType, WorkerStates
<1>2. \/ shown' = shown
      \/ shown' = [shown EXCEPT ![worker.key] = worker.job]
  BY CallFacts DEF Applied
<1>3. EditsType' /\ NoRetries' = NoRetries
  BY <1>1, <1>2 DEF EditInv, EditsType, NoRetries
<1>4. content \in Nat /\ 0 \in Keys /\ (content > 0 => content \in Edits) /\ Edits \subseteq Jobs
  BY JobsAssumption, KeyFacts DEF EditInv, EditsType
<1>5. ASSUME NewestLast, content > 0, call[content] = "done"
      PROVE  shown'[0] = shown[0]
  BY <1>1, <1>2, <1>4, <1>5 DEF NewestLast, EditInv, EditsType
<1>6. CASE WorkerGoesOn /\ UNCHANGED call
  <2>1. NewestLast => NewestLast'
    BY <1>1, <1>5, <1>6 DEF NewestLast, WorkerGoesOn
  <2> QED BY <1>1, <1>3, <1>6, <2>1 DEF EditInv, LaterEditsNew
<1>7. ASSUME NEW outcome, Resolve(outcome),
             outcome = "ok" => shown' = [shown EXCEPT ![worker.key] = worker.job]
      PROVE  EditInv'
  <2>1. /\ worker'.key = 0 /\ worker'.job = 0 /\ worker'.futures = {}
        /\ \A j \in Jobs \ worker.futures : call'[j] = call[j]
        /\ \A j \in worker.futures :
             /\ call'[j] \in {"done", "asleep", "failed"}
             /\ call'[j] = "done" => outcome = "ok"
    BY <1>7, ResolveFacts
  <2>2. \A j \in worker.futures : call[j] # "new"
    BY DEF HoldInv, Asked
  <2>3. LaterEditsNew'
    BY <1>1, <1>4, <2>1, <2>2 DEF EditInv, LaterEditsNew
  <2>4. ASSUME NewestLast PROVE NewestLast'
    <3>1. CASE content = 0
      BY <1>1, <1>4, <2>1, <2>4, <3>1 DEF NewestLast
    <3>2. CASE content > 0 /\ content \in worker.futures
      <4>1. worker.key = 0 /\ pending[0].job = 0
        BY <1>4, <2>4, <3>2, KeyFacts DEF HoldInv, WorkerHolds, NewestLast
      <4>2. worker.job = content
        <5>1. content <= worker.job /\ worker.job <= content /\ worker.job \in Nat
          BY <1>1, <2>4, <3>2, <4>1, JobsHaveKeys DEF NewestLast
        <5> QED BY <1>4, <5>1
      <4>3. call'[content] = "done" => shown'[0] = content
        BY <1>4, <1>7, <2>1, <3>2, <4>1, <4>2 DEF EditInv, EditsType
      <4> QED BY <1>1, <2>1, <2>4, <4>1, <4>3 DEF NewestLast
    <3>3. CASE content > 0 /\ content \notin worker.futures
      <4>1. call'[content] = call[content]
        BY <1>4, <2>1, <3>3
      <4>2. call'[content] = "done" => shown'[0] = content
        BY <1>5, <2>4, <3>3, <4>1 DEF NewestLast
      <4> QED BY <1>1, <1>4, <2>1, <2>4, <3>3, <4>1, <4>2 DEF NewestLast
    <3> QED BY <1>4, <3>1, <3>2, <3>3
  <2> QED BY <1>3, <2>3, <2>4 DEF EditInv
<1>8. \/ WorkerGoesOn /\ UNCHANGED call
      \/ \E outcome : /\ Resolve(outcome)
                      /\ outcome = "ok" => shown' = [shown EXCEPT ![worker.key] = worker.job]
  <2>1. "transient" # "ok" /\ "fatal" # "ok"
    OBVIOUS
  <2> QED BY <2>1, CallFacts, Zenon DEF Applied
<1> QED BY <1>6, <1>7, <1>8

LEMMA EditStep == OutboxInv /\ HoldInv /\ EditInv /\ [Next]_vars => EditInv'
<1> SUFFICES ASSUME OutboxInv, HoldInv, EditInv, [Next]_vars PROVE EditInv'
  OBVIOUS
<1>1. CASE WorkerTakes
  BY <1>1, EditTakes
<1>2. ASSUME NEW j \in Sends, Send(j) PROVE EditInv'
  BY <1>2, EditOtherKey DEF Send
<1>3. ASSUME NEW j \in Jobs, Retry(j) PROVE EditInv'
  BY <1>3, EditRetry
<1>4. ASSUME NEW c \in Clears, Clear(c) PROVE EditInv'
  BY <1>4, EditOtherKey DEF Clear
<1>5. CASE CallSucceeds \/ NetworkError \/ Flood \/ CallFails
  BY <1>5, EditCall
<1>6. CASE PauseOver \/ LimiterGrants \/ BackoffOver \/ CallOnceMore \/ Shutdown
  BY <1>6, MoveFacts, EditSame
<1>7. ASSUME NEW m \in Posts, Post(m) PROVE EditInv'
  BY <1>7, EditSame DEF Post, WorkerGoesOn
<1>8. ASSUME NEW j \in Sends \cup Clears, RecordOutgoing(j) \/ ClearStore(j) PROVE EditInv'
  <2>1. /\ UNCHANGED <<content, retries, shown, pending, worker>>
        /\ \A i \in Edits : call'[i] = call[i]
    BY <1>8, KeyFacts DEF RecordOutgoing, ClearStore, OutboxInv, OutboxType
  <2> QED BY <2>1, EditSame DEF WorkerGoesOn
<1>9. CASE UNCHANGED vars
  BY <1>9, EditSame DEF vars, WorkerGoesOn
<1> QED
  BY <1>1, <1>2, <1>3, <1>4, <1>5, <1>6, <1>7, <1>8, <1>9, EditUpdate, Zenon
  DEF Next, WorkerNext, Send

-----------------------------------------------------------------------------
(* The chat and the log: the steps *)

\* Steps that change neither, nor what is known of a message.
LEMMA ClearSame ==
  ASSUME ClearInv, UNCHANGED clearing, \A c \in Clears : call'[c] = call[c],
         \A j \in Sends : call'[j] = "recorded" <=> call[j] = "recorded"
  PROVE  ClearInv'
<1>1. ChatType' /\ UNCHANGED <<chat, log, target, late>>
  BY DEF ClearInv, ChatType, clearing
<1>2. \A m : Known(m) => Known(m)'
  BY <1>1 DEF Known
<1>3. KnownKept' /\ LogCollected' /\ TargetDeleted'
  BY <1>1, <1>2 DEF ClearInv, KnownKept, LogCollected, TargetDeleted
<1>4. ClearForgetsDeleted'
  BY <1>1 DEF ClearInv, ClearForgetsDeleted
<1> QED BY <1>1, <1>3, <1>4 DEF ClearInv

LEMMA ClearEnqueue ==
  ASSUME OutboxInv, ClearInv, UNCHANGED clearing, NEW j \in Edits \cup Sends,
         Enqueue(j), j \in Edits \/ call[j] = "new"
  PROVE  ClearInv'
<1>1. /\ call'[j] = "waiting" /\ \A i \in Jobs \ {j} : call'[i] = call[i]
  BY EnqueueFacts, KeyFacts
<1>2. \A c \in Clears : c \in Jobs /\ c # j
  BY KeyFacts, JobsAssumption
<1>3. \A i \in Sends : i \in Jobs /\ i \notin Edits
  BY KeyFacts
<1>4. \A i \in Sends : call'[i] = "recorded" <=> call[i] = "recorded"
  BY <1>1, <1>3
<1> QED BY <1>1, <1>2, <1>4, ClearSame

LEMMA ClearPost ==
  ASSUME ClearInv, NEW m \in Posts, Post(m) PROVE ClearInv'
<1>1. /\ chat[m] = "absent" /\ chat' = [chat EXCEPT ![m] = "there"]
      /\ log' = log \cup {m} /\ late' = (IF Deleting THEN late \cup {m} ELSE late)
      /\ UNCHANGED <<call, target>>
  BY DEF Post, Record
<1>2. /\ m \in Messages /\ m \notin Sends /\ m \notin Clears
  BY JobsAssumption DEF Messages
<1>3. ChatType' /\ chat'[m] = "there" /\ \A i \in Messages \ {m} : chat'[i] = chat[i]
  BY <1>1, <1>2 DEF ClearInv, ChatType
<1>4. \A i \in Messages : Known(i) \/ i = m => Known(i)'
  BY <1>1, <1>2, <1>3 DEF Known
<1>5. KnownKept'
  BY <1>1, <1>2, <1>4 DEF ClearInv, ChatType, KnownKept
<1>6. LogCollected'
  BY <1>1 DEF ClearInv, LogCollected, Deleting
<1>7. \A c \in Clears : m \notin target[c]
  BY <1>1 DEF ClearInv, KnownKept, Known
<1>8. TargetDeleted'
  BY <1>1, <1>3, <1>7 DEF ClearInv, ChatType, TargetDeleted
<1>9. ClearForgetsDeleted'
  BY <1>1, <1>3 DEF ClearInv, ClearForgetsDeleted
<1> QED BY <1>3, <1>5, <1>6, <1>8, <1>9 DEF ClearInv

LEMMA ClearOutgoing ==
  ASSUME OutboxInv, ClearInv, NEW j \in Sends, RecordOutgoing(j) PROVE ClearInv'
<1>1. /\ call[j] = "done" /\ call' = [call EXCEPT ![j] = "recorded"]
      /\ log' = log \cup {j} /\ late' = (IF Deleting THEN late \cup {j} ELSE late)
      /\ UNCHANGED <<chat, target>>
  BY DEF RecordOutgoing, Record
<1>2. /\ j \in Jobs /\ j \in Messages /\ j \notin Posts /\ j \notin Clears
      /\ Clears \subseteq Jobs
  BY JobsAssumption DEF Messages, Jobs
<1>3. /\ call'[j] = "recorded" /\ \A i \in Jobs \ {j} : call'[i] = call[i]
  BY <1>1, <1>2 DEF OutboxInv, OutboxType
<1>4. ChatType'
  BY <1>1, <1>2 DEF ClearInv, ChatType
<1>5. \A i \in Messages : Known(i) \/ i = j => Known(i)'
  BY <1>1, <1>2, <1>3, KeyFacts DEF Known
<1>6. KnownKept'
  BY <1>1, <1>2, <1>5 DEF ClearInv, ChatType, KnownKept
<1>7. LogCollected' /\ TargetDeleted'
  BY <1>1, <1>2, <1>3 DEF ClearInv, LogCollected, TargetDeleted, Deleting
<1>8. ClearForgetsDeleted'
  <2> SUFFICES ASSUME NEW m \in Messages, chat[m] = "there"
               PROVE  \/ m \in log' \cup late' \cup Undeletable
                      \/ \E c \in Clears : call'[c] \in {"failed", "abandoned"} /\ m \in target[c]
                      \/ m \in Sends /\ call'[m] # "recorded"
    BY <1>1 DEF ClearForgetsDeleted
  <2>1. CASE m = j
    BY <1>1, <2>1
  <2>2. CASE m # j
    <3>1. \A c \in Clears : call'[c] = call[c]
      BY <1>2, <1>3
    <3>2. m \in Sends => call'[m] = call[m]
      BY <1>3, <2>2, KeyFacts
    <3> QED BY <1>1, <3>1, <3>2 DEF ClearInv, ClearForgetsDeleted
  <2> QED BY <2>1, <2>2
<1> QED BY <1>4, <1>6, <1>7, <1>8 DEF ClearInv

LEMMA ClearBegins ==
  ASSUME OutboxInv, ClearInv, NEW c \in Clears, Clear(c) PROVE ClearInv'
<1>1. /\ call[c] = "new" /\ chat' = [chat EXCEPT ![c] = "there"] /\ Enqueue(c)
      /\ log' = log \cup {c} /\ late' = (IF Deleting THEN late \cup {c} ELSE late)
      /\ target' = [target EXCEPT ![c] = log \cup {c}]
  BY DEF Clear, Record, Collected
<1>2. c \in Jobs /\ c \in Messages /\ c \notin Posts /\ c \notin Sends
  BY JobsAssumption, KeyFacts DEF Messages
<1>3. /\ call'[c] = "waiting" /\ \A i \in Jobs \ {c} : call'[i] = call[i]
  BY <1>1, <1>2, EnqueueFacts
<1>4. /\ chat'[c] = "there" /\ \A i \in Messages \ {c} : chat'[i] = chat[i]
      /\ target'[c] = log \cup {c} /\ \A d \in Clears \ {c} : target'[d] = target[d]
      /\ ChatType'
  BY <1>1, <1>2 DEF ClearInv, ChatType
<1>5. \A d \in Clears \ {c} : d \in Jobs /\ call'[d] = call[d]
  BY <1>3, KeyFacts
<1>6. \A i \in Messages : Known(i) \/ i = c => Known(i)'
  BY <1>2, <1>3, <1>4, KeyFacts DEF Known
<1>7. KnownKept'
  BY <1>1, <1>2, <1>4, <1>6 DEF ClearInv, ChatType, KnownKept
<1>8. LogCollected'
  <2> SUFFICES ASSUME NEW d \in Clears, call'[d] \in {"waiting", "done", "failed"}
               PROVE  log' \subseteq target'[d] \cup late'
    BY DEF LogCollected
  <2>1. CASE d = c
    BY <1>1, <1>4, <2>1
  <2>2. CASE d # c
    BY <1>1, <1>4, <1>5, <2>2 DEF ClearInv, LogCollected, Deleting
  <2> QED BY <2>1, <2>2
<1>9. TargetDeleted'
  <2>1. \A d \in Clears : c \notin target[d]
    BY <1>1 DEF ClearInv, KnownKept, Known
  <2> QED BY <1>3, <1>4, <1>5, <2>1 DEF ClearInv, ChatType, TargetDeleted
<1>10. ClearForgetsDeleted'
  <2> SUFFICES ASSUME NEW m \in Messages, chat'[m] = "there"
               PROVE  \/ m \in log' \cup late' \cup Undeletable
                      \/ \E d \in Clears : call'[d] \in {"failed", "abandoned"} /\ m \in target'[d]
                      \/ m \in Sends /\ call'[m] # "recorded"
    BY DEF ClearForgetsDeleted
  <2>1. CASE m = c
    BY <1>1, <2>1
  <2>2. CASE m # c
    <3>1. chat[m] = "there"
      BY <1>4, <2>2
    <3>2. m \in Sends => call'[m] = call[m]
      BY <1>3, <2>2, KeyFacts
    <3>3. ASSUME NEW d \in Clears, call[d] \in {"failed", "abandoned"}
          PROVE  call'[d] = call[d] /\ target'[d] = target[d]
      BY <1>1, <1>4, <1>5, <3>3
    <3> QED BY <1>1, <3>1, <3>2, <3>3 DEF ClearInv, ClearForgetsDeleted
  <2> QED BY <2>1, <2>2
<1> QED BY <1>4, <1>7, <1>8, <1>9, <1>10 DEF ClearInv

LEMMA ClearEnds ==
  ASSUME OutboxInv, ClearInv, NEW c \in Clears, ClearStore(c) PROVE ClearInv'
<1>1. /\ call[c] \in {"done", "failed"} /\ log' = {} /\ UNCHANGED <<chat, target, late>>
      /\ call' = [call EXCEPT ![c] = IF @ = "done" THEN "recorded" ELSE "abandoned"]
  BY DEF ClearStore
<1>2. c \in Jobs /\ c \notin Sends
  BY JobsAssumption, KeyFacts
<1>3. /\ call[c] = "done" => call'[c] = "recorded"
      /\ call[c] = "failed" => call'[c] = "abandoned"
      /\ \A i \in Jobs \ {c} : call'[i] = call[i]
  BY <1>1, <1>2 DEF OutboxInv, OutboxType
<1>4. ChatType'
  BY <1>1 DEF ClearInv, ChatType
<1>5. \A i \in Messages : Known(i) => Known(i)'
  BY <1>1, <1>2, <1>3, KeyFacts DEF Known
<1>6. KnownKept'
  BY <1>1, <1>5 DEF ClearInv, ChatType, KnownKept
<1>7. LogCollected'
  BY <1>1 DEF LogCollected
<1>8. TargetDeleted'
  BY <1>1, <1>3, KeyFacts DEF ClearInv, TargetDeleted
<1>9. ClearForgetsDeleted'
  <2> SUFFICES ASSUME NEW m \in Messages, chat[m] = "there"
               PROVE  \/ m \in late \cup Undeletable
                      \/ \E d \in Clears : call'[d] \in {"failed", "abandoned"} /\ m \in target[d]
                      \/ m \in Sends /\ call'[m] # "recorded"
    BY <1>1 DEF ClearForgetsDeleted
  <2>1. CASE m \in log
    <3>1. m \in target[c] \cup late
      BY <1>1, <2>1 DEF ClearInv, LogCollected
    <3>2. CASE m \in target[c] /\ call[c] = "done"
      BY <3>2 DEF ClearInv, TargetDeleted
    <3>3. CASE m \in target[c] /\ call[c] = "failed"
      BY <1>3, <3>3
    <3> QED BY <1>1, <3>1, <3>2, <3>3
  <2>2. CASE m \in Sends /\ call[m] # "recorded"
    BY <1>2, <1>3, <2>2, KeyFacts
  <2>3. CASE \E d \in Clears : call[d] \in {"failed", "abandoned"} /\ m \in target[d]
    <3>1. PICK d \in Clears : call[d] \in {"failed", "abandoned"} /\ m \in target[d]
      BY <2>3
    <3>2. call'[d] \in {"failed", "abandoned"}
      BY <1>1, <1>3, <3>1, KeyFacts
    <3> QED BY <3>1, <3>2
  <2>4. \/ m \in log \cup late \cup Undeletable
        \/ \E d \in Clears : call[d] \in {"failed", "abandoned"} /\ m \in target[d]
        \/ m \in Sends /\ call[m] # "recorded"
    BY DEF ClearInv, ClearForgetsDeleted
  <2>5. CASE m \in late \cup Undeletable
    BY <2>5
  <2> QED BY <2>1, <2>2, <2>3, <2>4, <2>5
<1> QED BY <1>4, <1>6, <1>7, <1>8, <1>9 DEF ClearInv

\* What a call may do to the chat: delete, or show the send it makes.
LEMMA AppliedChat ==
  ASSUME OutboxInv, HoldInv, ClearInv, worker.at \in Busy, Applied
  PROVE  /\ chat' \in [Messages -> {"absent", "there", "deleted"}]
         /\ \A m \in Messages : chat'[m] # "absent" \/ chat[m] = "absent"
         /\ \A m \in Messages : chat'[m] = "there" /\ chat[m] # "there" =>
              m \in Sends /\ call[m] = "waiting" /\ m = worker.job
         /\ worker.job \in Clears => \A m \in target[worker.job] :
              m \in Messages /\ chat'[m] = "there" => m \in Undeletable
<1> DEFINE j == worker.job
<1>1. /\ chat' = IF j \in Clears THEN Deleted(target[j])
                 ELSE IF j \in Sends THEN [chat EXCEPT ![j] = "there"] ELSE chat
      /\ chat \in [Messages -> {"absent", "there", "deleted"}]
  BY DEF Applied, ClearInv, ChatType
<1>2. j \in Sends => call[j] = "waiting" /\ j \in Messages /\ j \notin Clears
  <2>1. j \in Sends => KeyOf(j) = j /\ j # 0
    BY KeyFacts
  <2> QED BY <2>1, JobsAssumption DEF HoldInv, WorkerHolds, Messages
<1> HIDE DEF j
<1>3. CASE j \in Clears
  <2>1. chat' = [m \in Messages |-> IF m \in target[j] \ Undeletable /\ chat[m] = "there"
                                    THEN "deleted" ELSE chat[m]]
    BY <1>1, <1>3 DEF Deleted
  <2> QED BY <1>1, <2>1 DEF j
<1>4. CASE j \in Sends
  BY <1>1, <1>2, <1>4 DEF j
<1>5. CASE j \notin Clears /\ j \notin Sends
  BY <1>1, <1>5 DEF j
<1> QED BY <1>3, <1>4, <1>5

LEMMA ClearCall ==
  ASSUME OutboxInv, HoldInv, ClearInv, CallSucceeds \/ NetworkError \/ Flood \/ CallFails
  PROVE  ClearInv'
<1>1. /\ worker.at \in Busy /\ UNCHANGED <<log, target, late>>
      /\ \/ Applied /\ Resolve("ok")
         \/ /\ Applied \/ UNCHANGED <<shown, chat>>
            /\ \/ \E outcome \in {"transient", "fatal"} : Resolve(outcome)
               \/ WorkerGoesOn /\ UNCHANGED call
  BY CallFacts
<1>2. /\ chat' \in [Messages -> {"absent", "there", "deleted"}]
      /\ \A m \in Messages : chat'[m] # "absent" \/ chat[m] = "absent"
      /\ \A m \in Messages : chat'[m] = "there" /\ chat[m] # "there" =>
           m \in Sends /\ call[m] = "waiting" /\ m = worker.job
  <2>1. CASE Applied
    BY <1>1, <2>1, AppliedChat
  <2>2. CASE UNCHANGED chat
    BY <2>2 DEF ClearInv, ChatType
  <2> QED BY <1>1, <2>1, <2>2
<1>3. /\ \A j \in Jobs \ worker.futures : call'[j] = call[j]
      /\ \A j \in worker.futures :
           \/ call'[j] = call[j]
           \/ call'[j] \in {"done", "asleep", "failed"} /\ (call'[j] = "asleep" => j \in Edits)
      /\ \A j \in worker.futures : call'[j] = "done" /\ call[j] # "done" => Applied
  BY <1>1, ResolveFacts, Zenon
<1>4. \A j \in worker.futures : j \in Sends \cup Clears =>
        call[j] = "waiting" /\ j = worker.key /\ j = worker.job
  <2> SUFFICES ASSUME NEW j \in worker.futures, j \in Sends \cup Clears
               PROVE  call[j] = "waiting" /\ j = worker.key /\ j = worker.job
    OBVIOUS
  <2>1. worker.key = j /\ j # 0 /\ worker.job # 0
    BY <1>1, KeyFacts DEF HoldInv, WorkerHolds
  <2>2. worker.job \in Jobs /\ KeyOf(worker.job) = j
    BY <2>1 DEF HoldInv, WorkerHolds, OutboxInv, OutboxType, WorkerStates
  <2>3. worker.job = j
    BY <2>1, <2>2, KeyFacts
  <2> QED BY <2>1, <2>3 DEF HoldInv, WorkerHolds
<1>5. \A j \in Sends \cup Clears :
        \/ call'[j] = call[j]
        \/ /\ call[j] = "waiting" /\ call'[j] \in {"done", "failed"}
           /\ j = worker.job
           /\ call'[j] = "done" => Applied
  <2> TAKE j \in Sends \cup Clears
  <2>1. j \in Jobs /\ j \notin Edits
    BY KeyFacts
  <2>2. CASE j \in worker.futures
    <3>1. call[j] = "waiting" /\ j = worker.job
      BY <1>4, <2>2
    <3>2. \/ call'[j] = call[j]
          \/ call'[j] \in {"done", "failed"}
      BY <1>3, <2>1, <2>2
    <3>3. call'[j] = "done" => Applied
      BY <1>3, <2>2, <3>1
    <3> QED BY <3>1, <3>2, <3>3
  <2>3. CASE j \notin worker.futures
    BY <1>3, <2>1, <2>3
  <2> QED BY <2>2, <2>3
<1>6. ChatType'
  BY <1>1, <1>2 DEF ClearInv, ChatType
<1>7. \A m \in Messages : Known(m) => Known(m)'
  BY <1>2, <1>5 DEF Known
<1>8. KnownKept'
  BY <1>1, <1>7 DEF ClearInv, ChatType, KnownKept
<1>9. LogCollected'
  BY <1>1, <1>5 DEF ClearInv, LogCollected
<1>10. TargetDeleted'
  <2> SUFFICES ASSUME NEW c \in Clears, call'[c] \in {"done", "recorded"},
                      NEW m \in target[c], chat'[m] = "there"
               PROVE  m \in Undeletable
    BY <1>1 DEF TargetDeleted
  <2>1. m \in Messages /\ Known(m)
    BY DEF ClearInv, ChatType, KnownKept
  <2>2. CASE call'[c] = call[c]
    <3>1. chat[m] = "there"
      BY <1>2, <2>1 DEF Known
    <3> QED BY <2>2, <3>1 DEF ClearInv, TargetDeleted
  <2>3. CASE call'[c] # call[c]
    <3>1. c = worker.job /\ Applied
      BY <1>5, <2>3
    <3> QED BY <1>1, <2>1, <3>1, AppliedChat
  <2> QED BY <2>2, <2>3
<1>11. ClearForgetsDeleted'
  <2> SUFFICES ASSUME NEW m \in Messages, chat'[m] = "there"
               PROVE  \/ m \in log \cup late \cup Undeletable
                      \/ \E d \in Clears : call'[d] \in {"failed", "abandoned"} /\ m \in target[d]
                      \/ m \in Sends /\ call'[m] # "recorded"
    BY <1>1 DEF ClearForgetsDeleted
  <2>1. CASE chat[m] # "there"
    BY <1>2, <1>5, <2>1
  <2>2. CASE chat[m] = "there"
    <3>1. m \in Sends /\ call[m] # "recorded" => call'[m] # "recorded"
      BY <1>5
    <3>2. \A d \in Clears : call[d] \in {"failed", "abandoned"} => call'[d] = call[d]
      BY <1>5
    <3> QED BY <2>2, <3>1, <3>2 DEF ClearInv, ClearForgetsDeleted
  <2> QED BY <2>1, <2>2
<1> QED BY <1>6, <1>8, <1>9, <1>10, <1>11 DEF ClearInv

LEMMA ClearStep == OutboxInv /\ HoldInv /\ ClearInv /\ [Next]_vars => ClearInv'
<1> SUFFICES ASSUME OutboxInv, HoldInv, ClearInv, [Next]_vars PROVE ClearInv'
  OBVIOUS
<1>1. CASE WorkerTakes
  BY <1>1, TakeFacts, ClearSame
<1>2. ASSUME NEW j \in Jobs, Send(j) \/ Retry(j) PROVE ClearInv'
  <2>1. /\ Enqueue(j) /\ UNCHANGED clearing /\ j \in Edits \cup Sends
        /\ j \in Edits \/ call[j] = "new"
    BY <1>2 DEF Send, Retry, HoldInv, OnlyEditsSleep
  <2> QED BY <2>1, ClearEnqueue
<1>3. CASE Update
  <2>1. CASE Enqueue(content + 1) /\ content + 1 \in Edits /\ UNCHANGED clearing
    BY <2>1, ClearEnqueue
  <2>2. CASE UNCHANGED <<call, clearing>>
    BY <2>2, ClearSame
  <2> QED BY <1>3, <2>1, <2>2 DEF Update
<1>4. CASE PauseOver \/ LimiterGrants \/ BackoffOver \/ CallOnceMore \/ Shutdown
  BY <1>4, MoveFacts, ClearSame
<1>5. CASE UNCHANGED vars
  BY <1>5, ClearSame DEF vars
<1> QED
  BY <1>1, <1>2, <1>3, <1>4, <1>5, ClearPost, ClearOutgoing, ClearBegins, ClearEnds,
     ClearCall, Zenon
  DEF Next, WorkerNext

-----------------------------------------------------------------------------
(* The theorems *)

OutboxInvs == OutboxInv /\ HoldInv /\ EditInv /\ ClearInv

LEMMA OutboxInvsInit == Init => OutboxInvs
<1> SUFFICES ASSUME Init PROVE OutboxInvs
  OBVIOUS
<1>1. HoldInv
  <2>1. \A k \in Keys : pending[k].job = 0 /\ pending[k].futures = {}
    BY DEF Init, NoJob
  <2>2. worker.key = 0 /\ worker.job = 0 /\ worker.futures = {} /\ worker.at = "idle"
    BY DEF Init, Idle
  <2>3. \A j \in Jobs : call[j] = "new"
    BY DEF Init
  <2> QED BY <2>1, <2>2, <2>3
          DEF HoldInv, MapHolds, WorkerHolds, OnlyEditsSleep, Asked, Busy
<1>2. EditInv
  <2>1. EditsType /\ LaterEditsNew
    BY KeyFacts DEF Init, EditsType, LaterEditsNew
  <2>2. NewestLast
    BY KeyFacts DEF Init, NoJob, Idle, NewestLast
  <2> QED BY <2>1, <2>2 DEF EditInv
<1>3. ClearInv
  BY KeyFacts DEF Init, ClearInv, ChatType, KnownKept, LogCollected, TargetDeleted,
     ClearForgetsDeleted
<1> QED BY <1>1, <1>2, <1>3, OutboxInvInit DEF OutboxInvs

\* The inductive invariant: where each job is, the versions of the edits that
\* wait, and what the log and the deletions know of the chat.
THEOREM OutboxInvariant == Spec => []OutboxInvs
<1>1. OutboxInvs /\ [Next]_vars => OutboxInvs'
  BY OutboxInvStep, HoldStep, EditStep, ClearStep, Zenon DEF OutboxInvs
<1> QED BY <1>1, OutboxInvsInit, PTL DEF Spec

\* Without retries the message shows the last edit once that is reported sent,
\* for any number of edits and of other jobs (limiter.py, ui_updates.py).
THEOREM LastEditShownTheorem == Spec => []LastEditShown
<1>1. OutboxInvs => LastEditShown
  BY DEF OutboxInvs, EditInv, NewestLast, NoRetries, LastEditShown
<1> QED BY <1>1, OutboxInvariant, PTL

\* A global /clear forgets what it deletes and no more (commands.py
\* handle_clear_command, session.py clear_all), for any number of commands.
THEOREM ClearForgetsDeletedTheorem == Spec => []ClearForgetsDeleted
<1>1. OutboxInvs => ClearForgetsDeleted
  BY DEF OutboxInvs, ClearInv
<1> QED BY <1>1, OutboxInvariant, PTL

-----------------------------------------------------------------------------
(* The transcript *)

-----------------------------------------------------------------------------
(* Minimum and maximum of a set of natural numbers *)

LEMMA MinFacts ==
  ASSUME NEW S \in SUBSET Nat, S # {}
  PROVE  Min(S) \in S /\ \A x \in S : Min(S) <= x
<1>1. \E x \in S : \A y \in S : ~(<<y, x>> \in OpToRel(<, Nat))
  BY NatLessThanWellFounded, WFMin
<1>2. PICK x \in S : \A y \in S : ~(y < x)
  BY <1>1 DEF OpToRel
<1>3. \A y \in S : x <= y
  BY <1>2
<1> QED BY <1>3 DEF Min

LEMMA MaxFacts ==
  ASSUME NEW n \in Nat, NEW S \in SUBSET (1 .. n), S # {}
  PROVE  Max(S) \in S /\ \A x \in S : x <= Max(S)
<1> DEFINE T == {k \in Nat : \E x \in S : k = n - x}
<1>1. T \in SUBSET Nat /\ T # {}
  <2>1. PICK x \in S : TRUE
    OBVIOUS
  <2>2. n - x \in T
    BY <2>1
  <2> QED BY <2>2
<1>2. Min(T) \in T /\ \A k \in T : Min(T) <= k
  BY <1>1, MinFacts
<1>3. PICK x \in S : Min(T) = n - x
  BY <1>2
<1>4. \A y \in S : y <= x
  <2> SUFFICES ASSUME NEW y \in S PROVE y <= x
    OBVIOUS
  <2>1. n - y \in T
    OBVIOUS
  <2> QED BY <1>2, <1>3, <2>1
<1> QED BY <1>4 DEF Max

-----------------------------------------------------------------------------
(* Types, and blocks *)

Shapes == Kinds \cup {"error", "subagent", "result"}
Drawn == [kind : Shapes, size : Nat]
Entries == [kind : {"none"} \cup Kinds, segment : Nat]

TranscriptType ==
  /\ segments \in Seq(Drawn)
  /\ open \in [Blocks -> Entries]
  /\ source \in [Blocks -> {"none", "task"} \cup Kinds]
  /\ stack \in Seq(TaskIds) /\ running \in Seq(TaskIds)

\* The positions of ids that match.
Matching(id) == {i \in 1 .. Len(stack) : Matches(stack[i], id)}

LEMMA PopMatching ==
  ASSUME TranscriptType, NEW id, Matching(id) # {}
  PROVE  /\ Max(Matching(id)) \in Matching(id)
         /\ \A i \in Matching(id) : i <= Max(Matching(id))
         /\ Pop(id) = SubSeq(stack, 1, Max(Matching(id)) - 1)
<1>1. Matching(id) = {i \in DOMAIN stack : Matches(stack[i], id)}
  BY DEF Matching, TranscriptType
<1>2. Pop(id) = SubSeq(stack, 1, Max(Matching(id)) - 1)
  BY <1>1 DEF Pop
<1>3. Len(stack) \in Nat /\ Matching(id) \in SUBSET (1 .. Len(stack))
  BY DEF TranscriptType, Matching
<1> QED BY <1>2, <1>3, MaxFacts

LEMMA PopNothing ==
  ASSUME TranscriptType, NEW id, Matching(id) = {}
  PROVE  Pop(id) = IF id = <<>> /\ Last(stack) = <<>> THEN Front(stack) ELSE stack
<1>1. Matching(id) = {i \in DOMAIN stack : Matches(stack[i], id)}
  BY DEF Matching, TranscriptType
<1> QED BY <1>1 DEF Pop

\* Results leave a beginning of the stack.
LEMMA PoppedIsPrefix ==
  ASSUME TranscriptType, NEW id, NEW name
  PROVE  \E k \in 0 .. Len(stack) : Popped(id, name) = SubSeq(stack, 1, k)
<1>1. CASE stack = <<>>
  BY <1>1 DEF Popped
<1>2. CASE stack # <<>>
  <2>1. Len(stack) \in Nat \ {0} /\ stack = SubSeq(stack, 1, Len(stack))
    BY <1>2 DEF TranscriptType
  <2>2. Front(stack) = SubSeq(stack, 1, Len(stack) - 1)
    BY DEF Front
  <2>3. \E k \in 0 .. Len(stack) : Pop(id) = SubSeq(stack, 1, k)
    <3>1. CASE Matching(id) # {}
      <4>1. Max(Matching(id)) \in 1 .. Len(stack)
        BY <3>1, PopMatching DEF Matching
      <4> QED BY <2>1, <3>1, <4>1, PopMatching
    <3>2. CASE Matching(id) = {}
      BY <2>1, <2>2, <3>2, PopNothing
    <3> QED BY <3>1, <3>2
  <2>4. Popped(id, name) \in {Front(stack), Pop(id)}
    BY <1>2, Zenon DEF Popped
  <2> QED BY <2>1, <2>2, <2>3, <2>4
<1> QED BY <1>1, <1>2

\* A beginning of a sequence.
LEMMA BeginningFacts ==
  ASSUME NEW S, NEW s \in Seq(S), NEW k \in 0 .. Len(s)
  PROVE  /\ SubSeq(s, 1, k) \in Seq(S) /\ Len(SubSeq(s, 1, k)) = k
         /\ \A j \in 1 .. k : SubSeq(s, 1, k)[j] = s[j]
<1>1. Len(s) \in Nat
  OBVIOUS
<1>2. \A j \in 1 .. k : s[j] \in S
  BY <1>1
<1>3. Len(SubSeq(s, 1, k)) = k /\ \A j \in 1 .. k : SubSeq(s, 1, k)[j] = s[j]
  BY <1>1
<1> QED BY <1>1, <1>2, <1>3, SubSeqProperties

\* Taking one entry out.
LEMMA RemoveAtFacts ==
  ASSUME NEW S, NEW s \in Seq(S), NEW i \in 1 .. Len(s)
  PROVE  /\ RemoveAt(s, i) \in Seq(S) /\ Len(RemoveAt(s, i)) = Len(s) - 1
         /\ \A j \in 1 .. Len(s) - 1 :
              RemoveAt(s, i)[j] = IF j < i THEN s[j] ELSE s[j + 1]
<1> DEFINE a == SubSeq(s, 1, i - 1)
           b == SubSeq(s, i + 1, Len(s))
<1>1. /\ a \in Seq(S) /\ Len(a) = i - 1 /\ \A j \in 1 .. i - 1 : a[j] = s[j]
  BY SubSeqProperties
<1>2. /\ b \in Seq(S) /\ Len(b) = Len(s) - i /\ \A j \in 1 .. Len(s) - i : b[j] = s[i + j]
  BY SubSeqProperties
<1>3. RemoveAt(s, i) = a \o b
  BY DEF RemoveAt
<1> HIDE DEF a, b
<1>4. /\ a \o b \in Seq(S) /\ Len(a \o b) = Len(a) + Len(b)
      /\ \A j \in 1 .. Len(a) : (a \o b)[j] = a[j]
      /\ \A j \in Len(a) + 1 .. Len(a) + Len(b) : (a \o b)[j] = b[j - Len(a)]
  <2>1. a \in Seq(S) /\ b \in Seq(S)
    BY <1>1, <1>2
  <2> QED BY <2>1, ConcatProperties
<1>5. Len(a) = i - 1 /\ Len(b) = Len(s) - i /\ Len(s) \in Nat
  BY <1>1, <1>2
<1>6. RemoveAt(s, i) \in Seq(S) /\ Len(RemoveAt(s, i)) = Len(s) - 1
  BY <1>3, <1>4, <1>5
<1>7. ASSUME NEW j \in 1 .. Len(s) - 1
      PROVE  RemoveAt(s, i)[j] = IF j < i THEN s[j] ELSE s[j + 1]
  <2>1. CASE j < i
    BY <1>1, <1>3, <1>4, <1>5, <2>1
  <2>2. CASE ~(j < i)
    <3>1. j - Len(a) \in 1 .. Len(s) - i /\ j \in Len(a) + 1 .. Len(a) + Len(b)
      BY <1>5, <2>2
    <3>2. b[j - Len(a)] = s[i + (j - Len(a))]
      BY <1>2, <3>1
    <3>3. i + (j - Len(a)) = j + 1
      BY <1>5
    <3> QED BY <1>3, <1>4, <2>2, <3>1, <3>2, <3>3
  <2> QED BY <2>1, <2>2
<1> QED BY <1>6, <1>7

LEMMA TypeStep == TranscriptType /\ [TranscriptNext]_transcriptVars => TranscriptType'
<1> SUFFICES ASSUME TranscriptType, [TranscriptNext]_transcriptVars PROVE TranscriptType'
  OBVIOUS
<1>1. /\ Segment("text") \in Drawn /\ Segment("thinking") \in Drawn
      /\ Segment("tool") \in Drawn /\ Segment("subagent") \in Drawn
      /\ Segment("result") \in Drawn
  BY DEF Segment, Drawn, Shapes, Kinds
<1>c. Closed \in Entries
  BY DEF Closed, Entries
<1>2. ASSUME NEW b \in Blocks, NEW kind \in Kinds, BlockStart(b, kind) PROVE TranscriptType'
  <2>0. Segment(kind) \in Drawn
    BY <1>1 DEF Kinds
  <2>1. segments' \in Seq(Drawn)
    <3>1. segments' = segments \/ segments' = Append(segments, Segment(kind))
      BY <1>2 DEF BlockStart, StartShown
    <3>2. segments \in Seq(Drawn) /\ Append(segments, Segment(kind)) \in Seq(Drawn)
      BY <2>0, AppendProperties DEF TranscriptType
    <3> QED BY <3>1, <3>2
  <2>2. Len(segments') \in Nat
    BY <2>1
  <2>3. open' \in [Blocks -> Entries]
    <3>1. \/ open' = open
          \/ open' = [open EXCEPT ![b] = [kind |-> kind, segment |-> Len(segments')]]
      BY <1>2, Zenon DEF BlockStart, StartShown
    <3>2. [kind |-> kind, segment |-> Len(segments')] \in Entries
      BY <2>2 DEF Entries
    <3> QED BY <3>1, <3>2 DEF TranscriptType
  <2> QED BY <1>2, <2>1, <2>3 DEF TranscriptType, BlockStart
<1>3. ASSUME NEW b \in Blocks, BlockDelta(b) PROVE TranscriptType'
  <2>1. CASE UNCHANGED <<segments, open>>
    BY <1>3, <2>1 DEF TranscriptType, BlockDelta
  <2>2. ASSUME NEW all \in Seq(Drawn), NEW at \in Nat,
               segments' = [all EXCEPT ![at].size = @ + 1],
               open' = [open EXCEPT ![b] = [kind |-> source[b], segment |-> at]]
        PROVE  TranscriptType'
    <3>1. segments' \in Seq(Drawn)
      <4> DEFINE grown == [all[at] EXCEPT !.size = @ + 1]
      <4>1. segments' = [all EXCEPT ![at] = grown]
        BY <2>2, Zenon
      <4>2. CASE at \in 1 .. Len(all)
        <5>1. all[at] \in Drawn
          BY <4>2
        <5>2. grown \in Drawn
          <6>1. all[at].size + 1 \in Nat
            BY <5>1 DEF Drawn
          <6> QED BY <5>1, <6>1 DEF Drawn
        <5> HIDE DEF grown
        <5> QED BY <4>1, <4>2, <5>2
      <4>3. CASE at \notin 1 .. Len(all)
        <5> HIDE DEF grown
        <5>1. all \in [1 .. Len(all) -> Drawn]
          OBVIOUS
        <5>2. [all EXCEPT ![at] = grown] = all
          BY <4>3, <5>1
        <5> QED BY <4>1, <5>2
      <4> QED BY <4>2, <4>3
    <3>2. source[b] \in Kinds
      BY <1>3 DEF BlockDelta
    <3>3. open' \in [Blocks -> Entries]
      <4>1. [kind |-> source[b], segment |-> at] \in Entries
        BY <3>2 DEF Entries
      <4> QED BY <2>2, <4>1 DEF TranscriptType
    <3> QED BY <1>3, <3>1, <3>3 DEF TranscriptType, BlockDelta
  <2>3. CASE ~InSubagent /\ source[b] # "tool"
    <3> DEFINE known == open[b].kind = source[b]
               all == IF known THEN segments ELSE Append(segments, Segment(source[b]))
               at == IF known THEN open[b].segment ELSE Len(all)
    <3>1. all \in Seq(Drawn)
      <4>1. Segment(source[b]) \in Drawn
        BY <1>1, <1>3 DEF BlockDelta, Kinds
      <4> QED BY <4>1, AppendProperties DEF TranscriptType
    <3>2. at \in Nat
      <4>1. open[b] \in Entries /\ Len(all) \in Nat
        BY <3>1 DEF TranscriptType
      <4> QED BY <4>1 DEF Entries
    <3>3. /\ segments' = [all EXCEPT ![at].size = @ + 1]
          /\ open' = [open EXCEPT ![b] = [kind |-> source[b], segment |-> at]]
      BY <1>3, <2>3 DEF BlockDelta, DeltaShown
    <3> HIDE DEF all, at
    <3> QED BY <2>2, <3>1, <3>2, <3>3
  <2> QED BY <1>3, <2>1, <2>3 DEF BlockDelta, DeltaShown
<1>4. ASSUME NEW b \in Blocks, BlockStop(b) PROVE TranscriptType'
  BY <1>4, <1>c DEF TranscriptType, BlockStop, StopShown
<1>5. ASSUME NEW kind \in {"text", "thinking", "tool", "error"}, Chunk(kind) PROVE TranscriptType'
  <2>1. [kind |-> kind, size |-> 1] \in Drawn
    BY DEF Drawn, Shapes, Kinds
  <2>2. segments' \in Seq(Drawn)
    BY <1>5, <2>1 DEF TranscriptType, Chunk
  <2> QED BY <1>5, <2>2 DEF TranscriptType, Chunk
<1>6. ASSUME NEW id \in TaskIds, TaskStart(id) PROVE TranscriptType'
  <2>1. segments' \in Seq(Drawn) /\ stack' \in Seq(TaskIds) /\ running' \in Seq(TaskIds)
    BY <1>1, <1>6 DEF TranscriptType, TaskStart, Push
  <2>2. /\ open' \in [Blocks -> Entries]
        /\ source' \in [Blocks -> {"none", "task"} \cup Kinds]
    <3>1. \/ UNCHANGED <<source, open>>
          \/ \E b \in Blocks : /\ source' = [source EXCEPT ![b] = "task"]
                              /\ open' = [open EXCEPT ![b] = Closed]
      BY <1>6, Zenon DEF TaskStart, StopShown
    <3>2. CASE UNCHANGED <<source, open>>
      BY <3>2 DEF TranscriptType
    <3>3. ASSUME NEW b \in Blocks, source' = [source EXCEPT ![b] = "task"],
                 open' = [open EXCEPT ![b] = Closed]
          PROVE  /\ open' \in [Blocks -> Entries]
                 /\ source' \in [Blocks -> {"none", "task"} \cup Kinds]
      BY <1>c, <3>3 DEF TranscriptType
    <3> QED BY <3>1, <3>2, <3>3
  <2> QED BY <2>1, <2>2 DEF TranscriptType
<1>7. ASSUME NEW id, NEW name, stack' = Popped(id, name), ResultShown, UNCHANGED <<open, source>>,
             running' \in Seq(TaskIds)
      PROVE  TranscriptType'
  <2>1. PICK k \in 0 .. Len(stack) : stack' = SubSeq(stack, 1, k)
    BY <1>7, PoppedIsPrefix
  <2>2. stack' \in Seq(TaskIds)
    BY <2>1, SubSeqProperties DEF TranscriptType
  <2>3. segments' \in Seq(Drawn)
    BY <1>1, <1>7 DEF TranscriptType, ResultShown
  <2> QED BY <1>7, <2>2, <2>3 DEF TranscriptType
<1>8. ASSUME NEW i \in DOMAIN running, TaskResult(i) PROVE TranscriptType'
  <2>1. PICK id \in ResultIds(running[i]) : stack' = Popped(id, "Task")
    BY <1>8 DEF TaskResult
  <2>2. running' \in Seq(TaskIds)
    BY <1>8, RemoveAtFacts DEF TranscriptType, TaskResult
  <2> QED BY <1>7, <1>8, <2>1, <2>2 DEF TaskResult
<1>9. CASE ToolResult
  BY <1>7, <1>9 DEF ToolResult, TranscriptType
<1>10. CASE UNCHANGED transcriptVars
  BY <1>10 DEF TranscriptType, transcriptVars
<1> QED BY <1>2, <1>3, <1>4, <1>5, <1>6, <1>8, <1>9, <1>10 DEF TranscriptNext

\* The stack is empty at first, and so is everything else.
LEMMA TypeInit == TranscriptInit => TranscriptType
<1> SUFFICES ASSUME TranscriptInit PROVE TranscriptType
  OBVIOUS
<1>1. Closed \in Entries
  BY DEF Closed, Entries
<1> QED BY <1>1 DEF TranscriptInit, TranscriptType

\* What is done at an index: an entry, or nothing where none was.
OpenedAs(b, entry) ==
  \/ open' = [open EXCEPT ![b] = entry]
  \/ open' = open /\ open[b].kind = "none"

LEMMA NoStaleStep == TranscriptType /\ NoStaleBlock /\ [TranscriptNext]_transcriptVars => NoStaleBlock'
<1> SUFFICES ASSUME TranscriptType, NoStaleBlock, [TranscriptNext]_transcriptVars PROVE NoStaleBlock'
  OBVIOUS
<1>1. ASSUME UNCHANGED <<open, source>> PROVE NoStaleBlock'
  BY <1>1, Zenon DEF NoStaleBlock
<1>2. ASSUME NEW b \in Blocks, NEW entry, NEW kind,
             OpenedAs(b, entry), source' = [source EXCEPT ![b] = kind],
             entry.kind = "none" \/ entry.kind = kind
      PROVE  NoStaleBlock'
  <2> SUFFICES ASSUME NEW c \in Blocks PROVE open'[c].kind \in {"none", source'[c]}
    BY Zenon DEF NoStaleBlock
  <2>1. CASE c = b
    <3>1. source'[b] = kind
      BY <1>2 DEF TranscriptType
    <3>2. open'[b] = entry \/ open'[b].kind = "none"
      BY <1>2 DEF TranscriptType, OpenedAs
    <3> QED BY <1>2, <2>1, <3>1, <3>2
  <2>2. CASE c # b
    <3>1. source'[c] = source[c] /\ open'[c] = open[c]
      BY <1>2, <2>2 DEF TranscriptType, OpenedAs
    <3> QED BY <3>1 DEF NoStaleBlock
  <2> QED BY <2>1, <2>2
<1>3. ASSUME NEW b \in Blocks, NEW kind \in Kinds, BlockStart(b, kind) PROVE NoStaleBlock'
  <2>1. open[b].kind = "none"
    BY <1>3, Zenon DEF BlockStart, NoStaleBlock
  <2>2. \/ open' = open
        \/ open' = [open EXCEPT ![b] = [kind |-> kind, segment |-> Len(segments')]]
    BY <1>3, Zenon DEF BlockStart, StartShown
  <2>3. source' = [source EXCEPT ![b] = kind]
    BY <1>3, Zenon DEF BlockStart
  <2> DEFINE entry == [kind |-> kind, segment |-> Len(segments')]
  <2>4. entry.kind = kind /\ OpenedAs(b, entry)
    BY <2>1, <2>2 DEF OpenedAs
  <2> HIDE DEF entry
  <2> QED BY <1>2, <2>3, <2>4
<1>4. ASSUME NEW b \in Blocks, BlockDelta(b) PROVE NoStaleBlock'
  <2>1. source' = source /\ source' = [source EXCEPT ![b] = source[b]]
    BY <1>4 DEF BlockDelta, TranscriptType
  <2>2. \/ open' = open
        \/ \E at : open' = [open EXCEPT ![b] = [kind |-> source[b], segment |-> at]]
    BY <1>4 DEF BlockDelta, DeltaShown
  <2>3. CASE open' = open
    BY <1>1, <2>1, <2>3
  <2>4. ASSUME NEW at, open' = [open EXCEPT ![b] = [kind |-> source[b], segment |-> at]]
        PROVE  NoStaleBlock'
    <3> DEFINE entry == [kind |-> source[b], segment |-> at]
    <3>1. entry.kind = source[b] /\ OpenedAs(b, entry)
      BY <2>4 DEF OpenedAs
    <3> HIDE DEF entry
    <3> QED BY <1>2, <2>1, <3>1
  <2> QED BY <2>2, <2>3, <2>4
<1>5. ASSUME NEW b \in Blocks, NEW kind, StopShown(b), source' = [source EXCEPT ![b] = kind]
      PROVE  NoStaleBlock'
  <2>1. Closed.kind = "none" /\ OpenedAs(b, Closed)
    BY <1>5 DEF Closed, StopShown, OpenedAs
  <2> QED BY <1>2, <1>5, <2>1
<1>6. ASSUME NEW b \in Blocks, BlockStop(b) PROVE NoStaleBlock'
  BY <1>5, <1>6 DEF BlockStop
<1>7. ASSUME NEW id \in TaskIds, TaskStart(id) PROVE NoStaleBlock'
  BY <1>1, <1>5, <1>7 DEF TaskStart
<1>8. ASSUME NEW kind \in {"text", "thinking", "tool", "error"}, Chunk(kind) PROVE NoStaleBlock'
  BY <1>1, <1>8 DEF Chunk
<1>9. ASSUME NEW i \in DOMAIN running, TaskResult(i) PROVE NoStaleBlock'
  BY <1>1, <1>9, Zenon DEF TaskResult
<1>10. CASE ToolResult
  BY <1>1, <1>10 DEF ToolResult
<1>11. CASE UNCHANGED transcriptVars
  BY <1>1, <1>11 DEF transcriptVars
<1> QED BY <1>3, <1>4, <1>6, <1>7, <1>8, <1>9, <1>10, <1>11 DEF TranscriptNext

\* No block's text goes to the segment of an earlier block of its index
\* (transcript.py: apply).
THEOREM NoStaleBlockTheorem == TranscriptSpec => []NoStaleBlock
<1>1. TranscriptInit => TranscriptType /\ NoStaleBlock
  <2>1. TranscriptInit => NoStaleBlock
    BY DEF TranscriptInit, NoStaleBlock, Closed
  <2> QED BY <2>1, TypeInit
<1>2. TranscriptType /\ NoStaleBlock /\ [TranscriptNext]_transcriptVars => (TranscriptType /\ NoStaleBlock)'
  BY TypeStep, NoStaleStep
<1> QED BY <1>1, <1>2, PTL DEF TranscriptSpec

-----------------------------------------------------------------------------
(* The stack, with nested results *)

LEMMA PrefixFacts ==
  ASSUME NEW a \in Seq(STRING), NEW b \in Seq(STRING)
  PROVE  IsPrefix(a, a) /\ IsPrefix(a, a \o b)
<1>1. Len(a \o b) = Len(a) + Len(b) /\ \A i \in 1 .. Len(a) : (a \o b)[i] = a[i]
  OBVIOUS
<1>2. SubSeq(a, 1, Len(a)) = SubSeq(a \o b, 1, Len(a))
  <2>1. SubSeq(a, 1, Len(a)) = [i \in 1 .. Len(a) |-> a[i]]
    OBVIOUS
  <2>2. SubSeq(a \o b, 1, Len(a)) = [i \in 1 .. Len(a) |-> (a \o b)[i]]
    BY <1>1
  <2> QED BY <1>1, <2>1, <2>2
<1> QED BY <1>1, <1>2 DEF IsPrefix

\* What no Task is called like matches nothing; of a Task without id, the result
\* with an id of its own takes the made-up entry at the top.
LEMMA UnrelatedResult ==
  ASSUME TranscriptType, NEW id, NEW name, id \in {Foreign, ToolId}
  PROVE  Popped(id, name) = IF stack # <<>> /\ Last(stack) = <<>> /\ id = Foreign /\ name # "tool"
                            THEN Front(stack) ELSE stack
<1>1. id # <<>>
  BY IdsAssumption
<1>2. Matching(id) = {}
  <2> SUFFICES ASSUME NEW i \in 1 .. Len(stack), Matches(stack[i], id) PROVE FALSE
    BY DEF Matching
  <2>1. stack[i] \in TaskIds \ {<<>>} /\ Related(stack[i], id)
    BY DEF TranscriptType, Matches
  <2> QED BY <2>1, IdsAssumption, Zenon
<1>3. Pop(id) = stack
  BY <1>1, <1>2, PopNothing
<1> QED BY <1>3 DEF Popped

NestInv == nested => stack = running

LEMMA NestStep == TranscriptType /\ NestInv /\ [TranscriptNext]_transcriptVars => NestInv'
<1> SUFFICES ASSUME TranscriptType, NestInv, [TranscriptNext]_transcriptVars PROVE NestInv'
  OBVIOUS
<1>1. ASSUME UNCHANGED <<stack, running, nested>> PROVE NestInv'
  BY <1>1 DEF NestInv
<1>2. ASSUME NEW b \in Blocks, NEW kind \in Kinds, BlockStart(b, kind) PROVE NestInv'
  BY <1>1, <1>2, Zenon DEF BlockStart
<1>3. ASSUME NEW b \in Blocks, BlockDelta(b) PROVE NestInv'
  BY <1>1, <1>3, Zenon DEF BlockDelta
<1>4. ASSUME NEW b \in Blocks, BlockStop(b) PROVE NestInv'
  BY <1>1, <1>4, Zenon DEF BlockStop
<1>5. ASSUME NEW kind \in {"text", "thinking", "tool", "error"}, Chunk(kind) PROVE NestInv'
  BY <1>1, <1>5, Zenon DEF Chunk
<1>6. ASSUME NEW id \in TaskIds, TaskStart(id) PROVE NestInv'
  BY <1>6, Zenon DEF TaskStart, Push, NestInv
<1>7. ASSUME NEW i \in DOMAIN running, TaskResult(i), nested' PROVE stack' = running'
  <2>1. stack = running /\ i = Len(running) /\ running' = RemoveAt(running, i)
    BY <1>7, Zenon DEF TaskResult, NestInv
  <2>2. PICK id \in ResultIds(running[i]) :
          stack' = Popped(id, "Task") /\ (id = <<>> => running[i] = <<>>)
    BY <1>7, Zenon DEF TaskResult
  <2>3. /\ Len(running) \in Nat \ {0} /\ i \in 1 .. Len(running)
        /\ running[i] \in TaskIds /\ running[i] \in Seq(STRING)
    BY <2>1, IdsAssumption DEF TranscriptType
  <2>4. Last(stack) = running[i] /\ stack # <<>>
    BY <2>1, <2>3 DEF Last
  <2>5. running' = SubSeq(running, 1, Len(running) - 1)
    <3>1. running' \in Seq(TaskIds) /\ Len(running') = Len(running) - 1
          /\ \A j \in 1 .. Len(running) - 1 : running'[j] = running[j]
      <4>1. running \in Seq(TaskIds)
        BY DEF TranscriptType
      <4>2. /\ running' \in Seq(TaskIds) /\ Len(running') = Len(running) - 1
            /\ \A j \in 1 .. Len(running) - 1 :
                 running'[j] = IF j < i THEN running[j] ELSE running[j + 1]
        BY <2>1, <2>3, <4>1, RemoveAtFacts
      <4> QED BY <2>1, <2>3, <4>2
    <3>2. /\ SubSeq(running, 1, Len(running) - 1) \in Seq(TaskIds)
          /\ Len(SubSeq(running, 1, Len(running) - 1)) = Len(running) - 1
          /\ \A j \in 1 .. Len(running) - 1 :
               SubSeq(running, 1, Len(running) - 1)[j] = running[j]
      <4>1. running \in Seq(TaskIds) /\ Len(running) - 1 \in 0 .. Len(running)
        BY <2>3 DEF TranscriptType
      <4> QED BY <4>1, BeginningFacts
    <3> QED BY <3>1, <3>2, SeqEqual
  <2>6. Front(stack) = running'
    BY <2>1, <2>5 DEF Front
  <2>7. CASE running[i] = <<>>
    <3>1. CASE id = <<>>
      <4>1. Matching(id) = {}
        BY <3>1 DEF Matching, Matches
      <4>2. Pop(id) = Front(stack)
        BY <2>4, <2>7, <3>1, <4>1, PopNothing
      <4> QED BY <2>2, <2>4, <2>6, <4>2, Zenon DEF Popped
    <3>2. CASE id = Foreign
      <4>1. Popped(id, "Task") = Front(stack)
        BY <2>4, <2>7, <3>2, UnrelatedResult
      <4> QED BY <2>2, <2>6, <4>1
    <3> QED BY <2>2, <2>7, <3>1, <3>2 DEF ResultIds
  <2>8. CASE running[i] # <<>>
    <3>1. Related(running[i], id) /\ id # <<>>
      <4>1. id \in {running[i], running[i] \o Suffix}
        BY <2>2, <2>8 DEF ResultIds
      <4>2. Suffix \in Seq(STRING)
        BY IdsAssumption
      <4>3. IsPrefix(running[i], id)
        BY <2>3, <4>1, <4>2, PrefixFacts
      <4>4. Len(running[i]) # 0 /\ Len(running[i] \o Suffix) = Len(running[i]) + Len(Suffix)
        BY <2>3, <2>8, <4>2
      <4>5. Len(<<>>) = 0 /\ Len(running[i]) \in Nat /\ Len(Suffix) \in Nat
        BY <2>3, <4>2
      <4>6. id # <<>>
        BY <4>1, <4>4, <4>5
      <4> QED BY <4>3, <4>6 DEF Related
    <3>2. i \in Matching(id) /\ \A j \in Matching(id) : j <= i
      BY <2>1, <2>3, <2>8, <3>1 DEF Matching, Matches
    <3>3. Max(Matching(id)) = i
      <4>1. Max(Matching(id)) \in Matching(id) /\ i <= Max(Matching(id))
        BY <3>2, PopMatching
      <4>2. Max(Matching(id)) \in Int /\ Max(Matching(id)) <= i
        BY <3>2, <4>1 DEF Matching
      <4> QED BY <2>3, <4>1, <4>2
    <3>4. Pop(id) = running'
      <4>1. Pop(id) = SubSeq(stack, 1, i - 1)
        BY <3>2, <3>3, PopMatching
      <4> QED BY <2>1, <2>5, <4>1
    <3> QED BY <2>2, <2>4, <2>8, <3>4, Zenon DEF Popped
  <2> QED BY <2>7, <2>8
<1>8. CASE ToolResult
  <2>1. Popped(ToolId, "tool") = stack
    BY UnrelatedResult
  <2> QED BY <1>1, <1>8, <2>1, Zenon DEF ToolResult
<1>9. CASE UNCHANGED transcriptVars
  BY <1>1, <1>9 DEF transcriptVars
<1>10. ASSUME NEW i \in DOMAIN running, TaskResult(i) PROVE NestInv'
  BY <1>7, <1>10 DEF NestInv
<1> QED BY <1>2, <1>3, <1>4, <1>5, <1>6, <1>8, <1>9, <1>10 DEF TranscriptNext

\* As long as every result is that of the newest Task, and has an id if the Task has
\* one, the stack is the running Tasks (transcript.py: _subagent_push, _subagent_pop,
\* apply).
THEOREM StackIsRunningTheorem == TranscriptSpec => []StackIsRunning
<1>1. TranscriptInit => TranscriptType /\ NestInv
  <2>1. TranscriptInit => NestInv
    BY DEF TranscriptInit, NestInv
  <2> QED BY <2>1, TypeInit
<1>2. TranscriptType /\ NestInv /\ [TranscriptNext]_transcriptVars => (TranscriptType /\ NestInv)'
  BY TypeStep, NestStep
<1>3. NestInv => StackIsRunning
  BY DEF NestInv, StackIsRunning
<1> QED BY <1>1, <1>2, <1>3, PTL DEF TranscriptSpec

-----------------------------------------------------------------------------
(* The stack, with results in any order *)

\* Which entries, and which running Tasks, have an id like this one.
OnStack(x) == {i \in 1 .. Len(stack) : Related(stack[i], x)}
InRunning(x) == {i \in 1 .. Len(running) : Related(running[i], x)}

\* With an id of every Task, no id has more entries than running Tasks like it.
CountInv ==
  named =>
    /\ stack \in Seq(TaskIds \ {<<>>}) /\ running \in Seq(TaskIds \ {<<>>})
    /\ \A x \in TaskIds \ {<<>>} : Cardinality(OnStack(x)) <= Cardinality(InRunning(x))

\* An id that is a prefix of two others makes those like each other.
OnePrefix ==
  \A a, b, c \in TaskIds \ {<<>>} : Related(a, b) /\ Related(b, c) => Related(a, c)

LEMMA RelatedSymmetric == \A a, b : Related(a, b) <=> Related(b, a)
  BY Zenon DEF Related

LEMMA RelatedReflexive == \A a \in TaskIds : Related(a, a)
  BY IdsAssumption, PrefixFacts DEF Related

LEMMA PositionsFinite ==
  ASSUME TranscriptType, NEW x
  PROVE  /\ IsFiniteSet(OnStack(x)) /\ Cardinality(OnStack(x)) \in Nat
         /\ IsFiniteSet(InRunning(x)) /\ Cardinality(InRunning(x)) \in Nat
<1>1. Len(stack) \in Nat /\ Len(running) \in Nat
  BY DEF TranscriptType
<1>2. IsFiniteSet(1 .. Len(stack)) /\ IsFiniteSet(1 .. Len(running))
  BY <1>1, FS_Interval
<1>3. OnStack(x) \in SUBSET (1 .. Len(stack)) /\ InRunning(x) \in SUBSET (1 .. Len(running))
  BY DEF OnStack, InRunning
<1>4. IsFiniteSet(OnStack(x)) /\ IsFiniteSet(InRunning(x))
  BY <1>2, <1>3, FS_Subset
<1> QED BY <1>4, FS_CardinalityType

LEMMA FinitePrimed ==
  ASSUME TranscriptType', NEW x
  PROVE  Cardinality(OnStack(x)') \in Nat /\ Cardinality(InRunning(x)') \in Nat
<1>1. Len(stack') \in Nat /\ Len(running') \in Nat
  BY DEF TranscriptType
<1>2. IsFiniteSet(1 .. Len(stack')) /\ IsFiniteSet(1 .. Len(running'))
  BY <1>1, FS_Interval
<1>3. /\ OnStack(x)' \in SUBSET (1 .. Len(stack'))
      /\ InRunning(x)' \in SUBSET (1 .. Len(running'))
  BY DEF OnStack, InRunning
<1>4. IsFiniteSet(OnStack(x)') /\ IsFiniteSet(InRunning(x)')
  BY <1>2, <1>3, FS_Subset
<1> QED BY <1>4, FS_CardinalityType

\* A Task that leaves the running ones takes at most one position of each id's.
LEMMA RunningWithout ==
  ASSUME TranscriptType, TranscriptType', NEW i \in 1 .. Len(running), running' = RemoveAt(running, i), NEW x
  PROVE  Cardinality(InRunning(x) \ {i}) <= Cardinality(InRunning(x)')
<1> DEFINE P == InRunning(x) \ {i}
           Q == InRunning(x)'
           f == [j \in P |-> IF j < i THEN j ELSE j - 1]
<1>1. /\ Len(running) \in Nat /\ Len(running') = Len(running) - 1
      /\ \A j \in 1 .. Len(running) - 1 :
           running'[j] = IF j < i THEN running[j] ELSE running[j + 1]
  <2>1. running \in Seq(TaskIds) /\ Len(running) \in Nat
    BY DEF TranscriptType
  <2>2. /\ Len(RemoveAt(running, i)) = Len(running) - 1
        /\ \A j \in 1 .. Len(running) - 1 :
             RemoveAt(running, i)[j] = IF j < i THEN running[j] ELSE running[j + 1]
    BY <2>1, RemoveAtFacts
  <2> QED BY <2>1, <2>2
<1>2. ASSUME NEW j \in P PROVE f[j] \in Q
  <2>1. j \in 1 .. Len(running) /\ j # i /\ Related(running[j], x)
    BY DEF InRunning
  <2>2. CASE j < i
    <3>1. f[j] = j /\ j \in 1 .. Len(running) - 1
      BY <1>1, <2>1, <2>2
    <3>2. running'[j] = running[j]
      BY <1>1, <2>2, <3>1
    <3> QED BY <1>1, <2>1, <3>1, <3>2 DEF InRunning
  <2>3. CASE ~(j < i)
    <3>1. f[j] = j - 1 /\ j - 1 \in 1 .. Len(running) - 1 /\ ~(j - 1 < i) /\ j - 1 + 1 = j
      BY <1>1, <2>1, <2>3
    <3>2. running'[j - 1] = running[j]
      BY <1>1, <3>1
    <3> QED BY <1>1, <2>1, <3>1, <3>2 DEF InRunning
  <2> QED BY <2>2, <2>3
<1>3. ASSUME NEW j \in P, NEW k \in P, f[j] = f[k] PROVE j = k
  <2>1. j \in Int /\ k \in Int /\ j # i /\ k # i
    BY DEF InRunning
  <2> QED BY <1>3, <2>1
<1>4. f \in Injection(P, Q)
  <2> HIDE DEF P, Q
  <2>1. f \in [P -> Q]
    BY <1>2
  <2> HIDE DEF f
  <2> QED BY <1>3, <2>1 DEF Injection, IsInjective
<1>5. IsFiniteSet(Q)
  <2>1. Len(running') \in Nat
    BY DEF TranscriptType
  <2>2. IsFiniteSet(1 .. Len(running')) /\ Q \in SUBSET (1 .. Len(running'))
    BY <2>1, FS_Interval DEF InRunning
  <2> QED BY <2>2, FS_Subset
<1> HIDE DEF f, P, Q
<1> QED BY <1>4, <1>5, FS_Injection DEF P, Q

\* A beginning of the stack has no more positions than the stack.
LEMMA StackBeginning ==
  ASSUME TranscriptType, NEW k \in 0 .. Len(stack), stack' = SubSeq(stack, 1, k), NEW x
  PROVE  /\ OnStack(x)' = OnStack(x) \cap 1 .. k
         /\ Cardinality(OnStack(x)') <= Cardinality(OnStack(x))
<1>1. Len(stack') = k /\ \A j \in 1 .. k : stack'[j] = stack[j]
  <2>1. stack \in Seq(TaskIds)
    BY DEF TranscriptType
  <2> QED BY <2>1, BeginningFacts
<1>2. OnStack(x)' = OnStack(x) \cap 1 .. k
  <2>1. k \in Nat /\ Len(stack) \in Nat /\ k <= Len(stack)
    BY DEF TranscriptType
  <2> QED BY <1>1, <2>1 DEF OnStack
<1>3. IsFiniteSet(OnStack(x)) /\ OnStack(x)' \in SUBSET OnStack(x)
  BY <1>2, PositionsFinite
<1> QED BY <1>2, <1>3, FS_Subset

LEMMA CountStep == ASSUME OnePrefix PROVE TranscriptType /\ CountInv /\ [TranscriptNext]_transcriptVars => CountInv'
<1> SUFFICES ASSUME TranscriptType, CountInv, [TranscriptNext]_transcriptVars PROVE CountInv'
  OBVIOUS
<1> DEFINE Ids == TaskIds \ {<<>>}
<1>0. TranscriptType'
  BY TypeStep
<1>1. ASSUME UNCHANGED <<stack, running, named>> PROVE CountInv'
  <2>1. \A x : OnStack(x)' = OnStack(x) /\ InRunning(x)' = InRunning(x)
    BY <1>1 DEF OnStack, InRunning
  <2> QED BY <1>1, <2>1, Zenon DEF CountInv
<1>2. ASSUME NEW b \in Blocks, NEW kind \in Kinds, BlockStart(b, kind) PROVE CountInv'
  BY <1>1, <1>2, Zenon DEF BlockStart
<1>3. ASSUME NEW b \in Blocks, BlockDelta(b) PROVE CountInv'
  BY <1>1, <1>3, Zenon DEF BlockDelta
<1>4. ASSUME NEW b \in Blocks, BlockStop(b) PROVE CountInv'
  BY <1>1, <1>4, Zenon DEF BlockStop
<1>5. ASSUME NEW kind \in {"text", "thinking", "tool", "error"}, Chunk(kind) PROVE CountInv'
  BY <1>1, <1>5, Zenon DEF Chunk
<1>6. ASSUME NEW id \in TaskIds, TaskStart(id), named' PROVE CountInv'
  <2>1. /\ named /\ id \in Ids
        /\ stack' = Append(stack, id) /\ running' = Append(running, id)
    BY <1>6, Zenon DEF TaskStart, Push
  <2>2. stack \in Seq(Ids) /\ running \in Seq(Ids)
    BY <2>1, Zenon DEF CountInv
  <2>3. stack' \in Seq(Ids) /\ running' \in Seq(Ids)
    BY <2>1, <2>2, AppendProperties
  <2>4. ASSUME NEW x \in Ids
        PROVE  Cardinality(OnStack(x)') <= Cardinality(InRunning(x)')
    <3> DEFINE s == Len(stack) + 1
               r == Len(running) + 1
    <3>1. /\ Len(stack) \in Nat /\ Len(running) \in Nat
          /\ Len(stack') = s /\ Len(running') = r
          /\ stack'[s] = id /\ running'[r] = id
          /\ \A j \in 1 .. Len(stack) : stack'[j] = stack[j]
          /\ \A j \in 1 .. Len(running) : running'[j] = running[j]
      BY <2>1, <2>2
    <3>2. /\ OnStack(x)' = OnStack(x) \cup (IF Related(id, x) THEN {s} ELSE {})
          /\ InRunning(x)' = InRunning(x) \cup (IF Related(id, x) THEN {r} ELSE {})
      BY <3>1 DEF OnStack, InRunning
    <3>3. s \notin OnStack(x) /\ r \notin InRunning(x)
      BY <3>1 DEF OnStack, InRunning
    <3>4. Cardinality(OnStack(x)) <= Cardinality(InRunning(x))
      BY <2>1, Zenon DEF CountInv
    <3>5. CASE Related(id, x)
      <4>1. OnStack(x)' = OnStack(x) \cup {s} /\ InRunning(x)' = InRunning(x) \cup {r}
        BY <3>2, <3>5
      <4>2. /\ Cardinality(OnStack(x)') = Cardinality(OnStack(x)) + 1
            /\ Cardinality(InRunning(x)') = Cardinality(InRunning(x)) + 1
        BY <3>3, <4>1, PositionsFinite, FS_AddElement
      <4> QED BY <3>4, <4>2, PositionsFinite
    <3>6. CASE ~Related(id, x)
      <4>1. OnStack(x)' = OnStack(x) /\ InRunning(x)' = InRunning(x)
        BY <3>2, <3>6
      <4> QED BY <3>4, <4>1
    <3> QED BY <3>5, <3>6
  <2> QED BY <2>3, <2>4, Zenon DEF CountInv
<1>7. ASSUME NEW i \in DOMAIN running, TaskResult(i), named' PROVE CountInv'
  <2> DEFINE id == running[i]
  <2>1. PICK given \in ResultIds(id) :
          stack' = Popped(given, "Task") /\ (named' <=> named /\ given = id)
    BY <1>7, Zenon DEF TaskResult
  <2>2. named /\ stack' = Popped(id, "Task") /\ running' = RemoveAt(running, i)
    BY <1>7, <2>1, Zenon DEF TaskResult
  <2>3. stack \in Seq(Ids) /\ running \in Seq(Ids)
    BY <2>2, Zenon DEF CountInv
  <2>4. i \in 1 .. Len(running) /\ id \in Ids /\ Len(stack) \in Nat
    BY <2>3
  <2> HIDE DEF id
  <2>5. Matching(id) = OnStack(id)
    BY <2>3, <2>4 DEF Matching, OnStack, Matches
  <2>6. Popped(id, "Task") = Pop(id)
    <3>1. CASE stack = <<>>
      <4>1. Matching(id) = {}
        BY <3>1 DEF Matching
      <4>2. Pop(id) = stack
        BY <2>4, <4>1, PopNothing
      <4> QED BY <3>1, <4>2, Zenon DEF Popped
    <3>2. CASE stack # <<>>
      <4>1. Last(stack) # <<>>
        BY <2>3, <3>2 DEF Last
      <4> QED BY <3>2, <4>1, Zenon DEF Popped
    <3> QED BY <3>1, <3>2
  <2>7. PICK k \in 0 .. Len(stack) : /\ stack' = SubSeq(stack, 1, k)
                                     /\ \A j \in OnStack(id) : k < Len(stack) /\ k + 1 \in OnStack(id)
    <3>1. CASE OnStack(id) = {}
      <4>1. Pop(id) = stack
        BY <2>4, <2>5, <3>1, PopNothing
      <4>2. stack = SubSeq(stack, 1, Len(stack)) /\ Len(stack) \in 0 .. Len(stack)
        BY <2>3
      <4> QED BY <2>2, <2>6, <3>1, <4>1, <4>2
    <3>2. CASE OnStack(id) # {}
      <4>1. Max(OnStack(id)) \in OnStack(id) /\ Pop(id) = SubSeq(stack, 1, Max(OnStack(id)) - 1)
        BY <2>5, <3>2, PopMatching
      <4>2. Max(OnStack(id)) \in 1 .. Len(stack)
        BY <4>1 DEF OnStack
      <4>3. /\ Max(OnStack(id)) - 1 \in 0 .. Len(stack) /\ Max(OnStack(id)) - 1 < Len(stack)
            /\ Max(OnStack(id)) - 1 + 1 = Max(OnStack(id))
        BY <2>4, <4>2
      <4> QED BY <2>2, <2>6, <4>1, <4>3
    <3> QED BY <3>1, <3>2
  <2>8. stack' \in Seq(Ids)
    BY <2>3, <2>7, BeginningFacts
  <2>9. running' \in Seq(Ids)
    BY <2>2, <2>3, <2>4, RemoveAtFacts
  <2>10. ASSUME NEW x \in Ids
         PROVE  Cardinality(OnStack(x)') <= Cardinality(InRunning(x)')
    <3>1. Cardinality(OnStack(x)) <= Cardinality(InRunning(x))
      BY <2>2, Zenon DEF CountInv
    <3>2. /\ OnStack(x)' = OnStack(x) \cap 1 .. k
          /\ Cardinality(OnStack(x)') <= Cardinality(OnStack(x))
      BY <2>7, StackBeginning
    <3>3. Cardinality(InRunning(x) \ {i}) <= Cardinality(InRunning(x)')
      BY <1>0, <2>2, <2>4, RunningWithout
    <3>4. /\ Cardinality(OnStack(x)) \in Nat /\ Cardinality(InRunning(x)) \in Nat
          /\ IsFiniteSet(OnStack(x)) /\ IsFiniteSet(InRunning(x))
      BY PositionsFinite
    <3>5. Cardinality(InRunning(x)') \in Nat /\ Cardinality(OnStack(x)') \in Nat
      BY <1>0, FinitePrimed
    <3>6. CASE ~Related(id, x)
      <4>1. i \notin InRunning(x)
        BY <3>6 DEF InRunning, id
      <4>2. InRunning(x) \ {i} = InRunning(x)
        BY <4>1
      <4>3. Cardinality(InRunning(x)) <= Cardinality(InRunning(x)')
        BY <3>3, <4>2, Zenon
      <4>4. Cardinality(OnStack(x)') <= Cardinality(OnStack(x))
        BY <3>2
      <4> QED BY <3>1, <3>4, <3>5, <4>3, <4>4
    <3>7. CASE Related(id, x)
      <4>1. OnStack(x) = OnStack(id)
        <5>1. ASSUME NEW j \in 1 .. Len(stack)
              PROVE  Related(stack[j], x) <=> Related(stack[j], id)
          <6>1. stack[j] \in Ids
            BY <2>3
          <6>2. Related(x, id)
            BY <3>7, RelatedSymmetric, Zenon
          <6>3. Related(stack[j], x) => Related(stack[j], id)
            BY <2>4, <6>1, <6>2, <2>10, Zenon DEF OnePrefix
          <6>4. Related(stack[j], id) => Related(stack[j], x)
            BY <2>4, <3>7, <6>1, <2>10, Zenon DEF OnePrefix
          <6> QED BY <6>3, <6>4
        <5> QED BY <5>1 DEF OnStack
      <4>2. Cardinality(InRunning(x) \ {i}) = Cardinality(InRunning(x)) - 1
        <5>1. i \in InRunning(x)
          BY <2>4, <3>7 DEF InRunning, id
        <5> QED BY <3>4, <5>1, FS_RemoveElement
      <4>3. CASE OnStack(x) = {}
        <5>1. OnStack(x)' = {}
          BY <3>2, <4>3
        <5> QED BY <3>5, <5>1, FS_EmptySet
      <4>4. CASE OnStack(x) # {}
        <5>1. k + 1 \in OnStack(x)
          BY <2>7, <4>1, <4>4
        <5>2. Cardinality(OnStack(x) \ {k + 1}) = Cardinality(OnStack(x)) - 1
          BY <3>4, <5>1, FS_RemoveElement
        <5>3. IsFiniteSet(OnStack(x) \ {k + 1})
          BY <3>4, FS_RemoveElement
        <5>4. OnStack(x)' \in SUBSET (OnStack(x) \ {k + 1})
          BY <3>2
        <5>5. Cardinality(OnStack(x)') <= Cardinality(OnStack(x) \ {k + 1})
          BY <5>3, <5>4, FS_Subset
        <5> QED BY <3>1, <3>3, <3>4, <3>5, <4>2, <5>2, <5>5
      <4> QED BY <4>3, <4>4
    <3> QED BY <3>6, <3>7
  <2> QED BY <2>8, <2>9, <2>10, Zenon DEF CountInv
<1>8. CASE ToolResult
  <2>1. Popped(ToolId, "tool") = stack
    BY UnrelatedResult
  <2> QED BY <1>1, <1>8, <2>1, Zenon DEF ToolResult
<1>9. CASE UNCHANGED transcriptVars
  BY <1>1, <1>9 DEF transcriptVars
<1>10. ASSUME NEW id \in TaskIds, TaskStart(id) PROVE CountInv'
  BY <1>6, <1>10, Zenon DEF CountInv
<1>11. ASSUME NEW i \in DOMAIN running, TaskResult(i) PROVE CountInv'
  BY <1>7, <1>11, Zenon DEF CountInv
<1> QED BY <1>2, <1>3, <1>4, <1>5, <1>8, <1>9, <1>10, <1>11 DEF TranscriptNext

\* If no id is a prefix of two that differ, then once every Task has its result
\* the stack is empty, whatever order the results of parallel Tasks come in
\* (transcript.py: _subagent_pop, _ids_roughly_match).
THEOREM AllTasksClosedTheorem == ASSUME OnePrefix PROVE TranscriptSpec => []AllTasksClosed
<1>1. TranscriptInit => TranscriptType /\ CountInv
  <2>1. ASSUME TranscriptInit PROVE CountInv
    <3>1. \A x : OnStack(x) = {} /\ InRunning(x) = {}
      BY <2>1 DEF TranscriptInit, OnStack, InRunning
    <3>2. stack \in Seq(TaskIds \ {<<>>}) /\ running \in Seq(TaskIds \ {<<>>})
      BY <2>1 DEF TranscriptInit
    <3>3. Cardinality({}) <= Cardinality({})
      BY FS_EmptySet
    <3>4. \A x : Cardinality(OnStack(x)) <= Cardinality(InRunning(x))
      BY <3>1, <3>3, Zenon
    <3> QED BY <3>2, <3>4, Zenon DEF CountInv
  <2> QED BY <2>1, TypeInit
<1>2. TranscriptType /\ CountInv /\ [TranscriptNext]_transcriptVars => (TranscriptType /\ CountInv)'
  BY TypeStep, CountStep
<1>3. TranscriptType /\ CountInv => AllTasksClosed
  <2> SUFFICES ASSUME TranscriptType, CountInv, named, running = <<>>, stack # <<>> PROVE FALSE
    BY Zenon DEF AllTasksClosed
  <2>1. stack \in Seq(TaskIds \ {<<>>})
    BY Zenon DEF CountInv
  <2>2. 1 \in 1 .. Len(stack) /\ stack[1] \in TaskIds \ {<<>>}
    BY <2>1
  <2>3. 1 \in OnStack(stack[1])
    BY <2>2, RelatedReflexive DEF OnStack
  <2>4. InRunning(stack[1]) = {}
    BY DEF InRunning
  <2>5. Cardinality(OnStack(stack[1])) <= Cardinality(InRunning(stack[1]))
    BY <2>2, Zenon DEF CountInv
  <2>6. Cardinality(OnStack(stack[1])) = 0
    BY <2>4, <2>5, FS_EmptySet, PositionsFinite
  <2> QED BY <2>3, <2>6, FS_EmptySet, PositionsFinite
<1> QED BY <1>1, <1>2, <1>3, PTL DEF TranscriptSpec

-----------------------------------------------------------------------------
(* Rendering *)

\* The sum of the sizes of segments, as a fold.
Longer(n, s) == n + s.size
Sizes == INSTANCE FoldFacts WITH States <- Nat, Elements <- Drawn, Op <- Longer

\* From the newest segment shown on, nothing else has a length.
LEMMA NewestLength ==
  ASSUME TranscriptType, Shown # {}, NEW status \in Nat, StatusText(status) \in Nat
  PROVE  /\ Max(Shown) \in Shown /\ segments[Max(Shown)].size \in Nat
         /\ LengthFrom(Max(Shown), status) \in Int
         /\ LengthFrom(Max(Shown), status)
              <= segments[Max(Shown)].size + Marker + StatusText(status)
<1> DEFINE n == Max(Shown)
           len == Len(segments)
           rest == SubSeq(segments, n, len)
<1>1. /\ segments \in Seq(Drawn) /\ len \in Nat /\ Marker \in Nat
      /\ DOMAIN segments = 1 .. len /\ \A i \in 1 .. len : segments[i].size \in Nat
  <2>1. segments \in Seq(Drawn) /\ Marker \in Nat
    BY LengthAssumption DEF TranscriptType
  <2>2. len \in Nat /\ DOMAIN segments = 1 .. len /\ \A i \in 1 .. len : segments[i] \in Drawn
    BY <2>1
  <2>3. \A s \in Drawn : s.size \in Nat
    BY DEF Drawn
  <2> HIDE DEF len
  <2> QED BY <2>1, <2>2, <2>3
<1>2. n \in Shown /\ \A i \in Shown : i <= n
  <2>1. Shown \subseteq 1 .. len
    BY <1>1 DEF Shown
  <2> QED BY <1>1, <2>1, MaxFacts
<1>3. n \in 1 .. len /\ \A i \in 1 .. len : i > n => segments[i].size = 0
  <2>1. \A i \in 1 .. len : i \in Shown <=> segments[i].size > 0
    BY <1>1 DEF Shown
  <2>2. Shown \subseteq 1 .. len /\ len \in Nat
    BY <1>1 DEF Shown
  <2> HIDE DEF n, len
  <2>3. n \in 1 .. len
    BY <1>2, <2>2
  <2>4. ASSUME NEW i \in 1 .. len, i > n PROVE segments[i].size = 0
    <3>1. i \notin Shown
      BY <1>2, <2>2, <2>3, <2>4
    <3> QED BY <1>1, <2>1, <3>1 DEF len
  <2> QED BY <2>3, <2>4
<1> HIDE DEF n
<1>4. /\ rest \in Seq(Drawn) /\ Len(rest) = len - n + 1
      /\ \A i \in 1 .. Len(rest) : rest[i] = segments[n + i - 1]
  BY <1>1, <1>3
<1>5. FoldLeft(LAMBDA k, s : k + s.size, 0, rest) = segments[n].size
  <2>1. FoldLeft(LAMBDA k, s : k + s.size, 0, rest) = Sizes!Fold(0, rest)
    BY DEF FoldLeft, MapThenFoldSet, Max, Sizes!Fold, Sizes!Largest, Longer
  <2>2. \A k \in Nat, s \in Drawn : Longer(k, s) \in Nat
    BY DEF Longer, Drawn
  <2> HIDE DEF rest
  <2>3. PICK f \in [0 .. Len(rest) -> Nat] :
          /\ f[0] = 0
          /\ \A i \in 1 .. Len(rest) : f[i] = Longer(f[i - 1], rest[i])
          /\ Sizes!Fold(0, rest) = f[Len(rest)]
    BY <1>4, <2>2, Sizes!FoldSteps
  <2> DEFINE m == len - n
             A == {k \in 0 .. m : f[k + 1] = segments[n].size}
  <2>4. m \in Nat /\ Len(rest) = m + 1
    BY <1>1, <1>3, <1>4
  <2>5. 0 \in A
    <3>1. f[1] = 0 + rest[1].size /\ rest[1] = segments[n]
      BY <1>1, <1>3, <1>4, <2>3, <2>4 DEF Longer
    <3> QED BY <1>1, <1>3, <2>4, <3>1
  <2>6. \A k \in 0 .. m - 1 : k \in A => k + 1 \in A
    <3> SUFFICES ASSUME NEW k \in 0 .. m - 1, k \in A PROVE k + 1 \in A
      OBVIOUS
    <3>1. /\ k + 2 \in 1 .. Len(rest) /\ n + k + 1 \in 1 .. len /\ n + k + 1 > n
          /\ k + 2 - 1 = k + 1 /\ n + (k + 2) - 1 = n + k + 1 /\ k + 1 \in 0 .. m
          /\ k + 1 + 1 = k + 2
      <4>1. /\ len \in Nat /\ n \in 1 .. len /\ k \in 0 .. len - n - 1 /\ m = len - n
            /\ Len(rest) = len - n + 1
        BY <1>1, <1>3, <2>4
      <4> HIDE DEF A, m, len
      <4> QED BY <4>1
    <3>2. rest[k + 2] = segments[n + k + 1] /\ segments[n + k + 1].size = 0
      BY <1>3, <1>4, <3>1
    <3>3. f[k + 2] = f[k + 1] + 0
      BY <2>3, <3>1, <3>2 DEF Longer
    <3>4. f[k + 1] = segments[n].size
      OBVIOUS
    <3> QED BY <1>1, <1>3, <3>1, <3>3, <3>4
  <2> HIDE DEF A, m
  <2>7. 0 .. m \subseteq A
    BY <2>4, <2>5, <2>6, Sizes!Counting
  <2>8. f[m + 1] = segments[n].size
    BY <2>4, <2>7 DEF A
  <2> QED BY <2>1, <2>3, <2>4, <2>8
<1>6. Cardinality(Shown \cap n .. len) = 1
  <2>1. Shown \cap n .. len = {n}
    BY <1>1, <1>2, <1>3 DEF Shown
  <2> QED BY <2>1, FS_Singleton
<1>7. LengthFrom(n, status) =
        segments[n].size + 1 - 1 + (IF n = Min(Shown) THEN 0 ELSE Marker) + StatusText(status)
  BY <1>5, <1>6 DEF LengthFrom
<1>8. segments[n].size \in Nat
  BY <1>1, <1>3
<1> QED BY <1>1, <1>2, <1>7, <1>8 DEF n

\* A rendering of any transcript fits, and shows every end of it that would.
LEMMA RenderingFits == TranscriptType => RenderFits
<1> SUFFICES ASSUME TranscriptType, NEW limit \in Limits, NEW status \in Status, status <= limit
             PROVE  /\ Render(limit, status).length <= limit
                    /\ \A i \in Shown : LengthFrom(i, status) <= limit =>
                         Shown \cap i .. Len(segments) \subseteq Render(limit, status).whole
                    /\ Shown # {} /\ Render(limit, status).whole = {} =>
                         \/ /\ Render(limit, status).part > MinTail
                            /\ Render(limit, status).length = limit
                         \/ /\ Render(limit, status).part = 0
                            /\ limit <= Marker + StatusText(status) + MinTail
  BY Zenon DEF RenderFits
<1> DEFINE fits == Fits(limit, status)
           tail == NewestPart(limit, status)
<1>1. limit \in Nat /\ status \in Nat
  BY LengthAssumption
<1>2. Shown \in SUBSET Nat /\ fits = {i \in Shown : LengthFrom(i, status) <= limit}
  BY DEF Shown, TranscriptType, Fits
<1>3. CASE Shown = {}
  <2>1. \/ /\ Render(limit, status) = [whole |-> {}, part |-> 0, length |-> StatusText(status)]
           /\ StatusText(status) <= limit
        \/ Render(limit, status) = [whole |-> {}, part |-> 0, length |-> status]
    BY <1>3 DEF Render
  <2>2. Render(limit, status).length <= limit
    BY <2>1
  <2> QED BY <1>3, <2>2
<1>4. CASE Shown # {} /\ fits # {}
  <2>1. Render(limit, status) =
          [whole |-> Shown \cap Min(fits) .. Len(segments), part |-> 0,
           length |-> LengthFrom(Min(fits), status)]
    BY <1>4 DEF Render
  <2>2. Min(fits) \in fits /\ \A i \in fits : Min(fits) <= i
    <3>1. fits \in SUBSET Nat
      BY <1>2
    <3> QED BY <1>4, <3>1, MinFacts
  <2>3. Render(limit, status).length <= limit
    BY <1>2, <2>1, <2>2
  <2>4. ASSUME NEW i \in Shown, LengthFrom(i, status) <= limit
        PROVE  Shown \cap i .. Len(segments) \subseteq Render(limit, status).whole
    <3>1. Min(fits) <= i /\ Min(fits) \in Nat /\ i \in Nat /\ Len(segments) \in Nat
      <4>1. Len(segments) \in Nat
        BY DEF TranscriptType
      <4>2. i \in fits
        BY <1>2, <2>4
      <4> HIDE DEF fits
      <4> QED BY <1>2, <2>2, <4>1, <4>2
    <3>2. Shown \cap i .. Len(segments) \subseteq Shown \cap Min(fits) .. Len(segments)
      BY <3>1
    <3> QED BY <2>1, <3>2
  <2>5. Render(limit, status).whole # {}
    <3>1. Min(fits) \in Shown \cap Min(fits) .. Len(segments)
      BY <1>2, <2>2 DEF Shown, TranscriptType
    <3> QED BY <2>1, <3>1
  <2> QED BY <2>3, <2>4, <2>5
<1>5. CASE Shown # {} /\ fits = {}
  <2> DEFINE budget == limit - Marker - StatusText(status)
             n == Max(Shown)
  <2>1. /\ Marker \in Nat /\ MinTail \in Nat
        /\ StatusText(status) \in Nat /\ StatusText(status) >= status
    BY <1>1, LengthAssumption DEF StatusText
  <2>2. /\ n \in Shown /\ segments[n].size \in Nat
        /\ LengthFrom(n, status) <= segments[n].size + Marker + StatusText(status)
    BY <1>1, <1>5, <2>1, NewestLength
  <2>3. ~(LengthFrom(n, status) <= limit) /\ LengthFrom(n, status) \in Int
    BY <1>1, <1>2, <1>5, <2>1, <2>2, NewestLength
  <2> HIDE DEF n
  <2>4. budget < segments[n].size /\ budget \in Int
    BY <1>1, <2>1, <2>2, <2>3
  <2>5. tail = IF budget <= MinTail THEN 0 ELSE budget
    <3>1. \A a, b \in Int : a < b => Min({a, b}) = a
      BY DEF Min
    <3>2. Min({budget, segments[n].size}) = budget
      BY <2>2, <2>4, <3>1
    <3> QED BY <3>2 DEF NewestPart, n
  <2> HIDE DEF tail
  <2>6. CASE budget <= MinTail
    <3>1. tail = 0
      BY <2>5, <2>6
    <3>2. \/ /\ Render(limit, status) = [whole |-> {}, part |-> 0, length |-> Marker + status]
             /\ Marker + status <= limit
          \/ Render(limit, status) = [whole |-> {}, part |-> 0, length |-> status]
      BY <1>5, <3>1 DEF Render, tail
    <3>3. limit <= Marker + StatusText(status) + MinTail
      BY <1>1, <2>1, <2>6
    <3>4. Render(limit, status).length <= limit
      BY <3>2
    <3>5. Render(limit, status).part = 0
      BY <3>2
    <3> QED BY <1>2, <1>5, <3>3, <3>4, <3>5
  <2>7. CASE budget > MinTail
    <3>1. /\ tail = budget /\ tail > 0 /\ Marker + tail + StatusText(status) <= limit
          /\ Marker + tail + StatusText(status) = limit
      BY <1>1, <2>1, <2>4, <2>5, <2>7
    <3>2. Render(limit, status) =
            [whole |-> {}, part |-> tail, length |-> Marker + tail + StatusText(status)]
      BY <1>5, <3>1 DEF Render, tail
    <3>3. Render(limit, status).length = limit /\ Render(limit, status).part = tail
      BY <3>1, <3>2
    <3> QED BY <1>1, <1>2, <1>5, <2>7, <3>1, <3>2, <3>3
  <2> QED BY <2>1, <2>4, <2>6, <2>7
<1> QED BY <1>3, <1>4, <1>5

\* A rendering fits the platform's limit and shows every end of the transcript
\* that fits as a whole, or else as much of its end as fits (transcript.py: render).
THEOREM RenderFitsTheorem == TranscriptSpec => []RenderFits
<1>1. TranscriptType /\ [TranscriptNext]_transcriptVars => TranscriptType'
  BY TypeStep
<1> QED BY <1>1, TypeInit, RenderingFits, PTL DEF TranscriptSpec
=============================================================================
