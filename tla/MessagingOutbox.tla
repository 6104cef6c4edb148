--------------------------- MODULE MessagingOutbox ---------------------------
(***************************************************************************)
(* What a platform adapter sends: the queue of MessagingRateLimiter        *)
(* (messaging/limiter.py) with its worker, the Bot API calls and their     *)
(* retries (messaging/platforms/telegram.py; the Discord adapter has       *)
(* PlatformTries = 1), and the throttled editor of one status message      *)
(* (messaging/ui_updates.py). And what a chat shows: the messages of users *)
(* and the bot's, the log the store keeps of their ids                     *)
(* (messaging/session.py), and the global /clear that deletes what it      *)
(* finds there (messaging/commands.py).                                    *)
(*                                                                         *)
(* Jobs and messages are numbered. An edit's number is the version of the  *)
(* transcript it shows, a sent message has the number of its job, a /clear *)
(* that of its deletion; all edits have one key, every other job its own.  *)
(* Time is left out: a sleep, the limiter's (SlidingWindow has its bound)  *)
(* or a flood pause ends some time, and an update may or may not come      *)
(* within a second of the last.                                            *)
(***************************************************************************)
EXTENDS Naturals, Sequences, FiniteSets

CONSTANTS
  Edits, Sends, Clears,   \* job numbers: fire_and_forget edits, awaited sends,
                          \* and the awaited deletions of a global /clear
  Posts,           \* messages of the allowed user
  Undeletable,     \* messages the platform does not let the bot delete
  MaxRetries,      \* of fire_and_forget
  PlatformTries    \* max_retries of _with_retry

ASSUME JobsAssumption ==
  /\ Edits \cup Sends \cup Clears \cup Posts \subseteq Nat \ {0}
  /\ Edits \cap (Sends \cup Clears) = {} /\ Sends \cap Clears = {}
  /\ Posts \cap (Sends \cup Clears) = {}
ASSUME OutboxAssumption ==
  MaxRetries \in Nat /\ PlatformTries \in Nat \ {0}

VARIABLES
  queue,        \* _queue_list
  pending,      \* _queue_map: for each key the job to run, 0 for none, and futures
  flooded,      \* _paused_until lies in the future
  worker,       \* where it is suspended, with what it has taken from the queue
  call,         \* what the callers of the jobs are doing
  retries,      \* attempts of fire_and_forget after the first
  shown,        \* the job the platform applied last, for each key
  content,      \* the version of the transcript
  chat,         \* what the chat holds of each message
  log,          \* _message_log: the ids the store has recorded
  target,       \* the ids each /clear deletes
  late,         \* history: messages recorded while a /clear was deleting
  down          \* _shutdown

clearing == <<chat, log, target, late>>
vars == <<queue, pending, flooded, worker, call, retries, shown, content, clearing, down>>

Jobs == Edits \cup Sends \cup Clears
Keys == {0} \cup Sends \cup Clears
Messages == Posts \cup Sends \cup Clears

\* edit:<chat>:<message>, del_bulk:<chat>:<ids>, or a key no other job has.
KeyOf(j) == IF j \in Edits THEN 0 ELSE j

NoJob == [job |-> 0, futures |-> {}]

Idle == [at |-> "idle", key |-> 0, job |-> 0, futures |-> {}, tries |-> 0]

Init ==
  /\ queue = <<>> /\ pending = [k \in Keys |-> NoJob]
  /\ flooded = FALSE /\ worker = Idle
  /\ call = [j \in Jobs |-> "new"] /\ retries = [j \in Jobs |-> 0]
  /\ shown = [k \in Keys |-> 0]
  /\ content = 0
  /\ chat = [m \in Messages |-> "absent"]
  /\ log = {} /\ target = [c \in Clears |-> {}] /\ late = {}
  /\ down = FALSE

-----------------------------------------------------------------------------
(* Callers *)

\* Faulty variant: a job that waits is kept, its caller joins it.
CompactsToOldest(j) ==
  LET k == KeyOf(j) IN
  /\ call' = [call EXCEPT ![j] = "waiting"]
  /\ pending' = [pending EXCEPT ![k] =
       [job |-> IF @.job = 0 THEN j ELSE @.job, futures |-> @.futures \cup {j}]]
  /\ queue' = IF pending[k].job = 0 THEN Append(queue, k) ELSE queue

\* Faulty variant: the futures of the job that is replaced are dropped.
ReplacesFutures(j) ==
  LET k == KeyOf(j) IN
  /\ call' = [call EXCEPT ![j] = "waiting"]
  /\ pending' = [pending EXCEPT ![k] = [job |-> j, futures |-> {j}]]
  /\ queue' = IF pending[k].job = 0 THEN Append(queue, k) ELSE queue

\* _enqueue_internal_multi: a job that waits under the key is replaced, its
\* futures wait for the new one.
Enqueue(j) ==
  LET k == KeyOf(j) IN
  /\ call' = [call EXCEPT ![j] = "waiting"]
  /\ pending' = [pending EXCEPT ![k] = [job |-> j, futures |-> @.futures \cup {j}]]
  /\ queue' = IF pending[k].job = 0 THEN Append(queue, k) ELSE queue

\* queue_send_message(fire_and_forget=False).
Send(j) ==
  /\ j \in Sends /\ call[j] = "new"
  /\ Enqueue(j)
  /\ UNCHANGED <<flooded, worker, retries, shown, content, clearing, down>>

\* ThrottledTranscriptEditor.update: once a second unless forced; the last
\* update of a node is.
Update ==
  /\ content + 1 \in Edits
  /\ content' = content + 1
  /\ \/ /\ content > 0 /\ content + 2 \in Edits
        /\ UNCHANGED <<queue, pending, call>>
     \/ Enqueue(content + 1)
  /\ UNCHANGED <<flooded, worker, retries, shown, clearing, down>>

\* fire_and_forget after a transient error, its sleep over.
Retry(j) ==
  /\ call[j] = "asleep"
  /\ retries' = [retries EXCEPT ![j] = @ + 1]
  /\ Enqueue(j)
  /\ UNCHANGED <<flooded, worker, shown, content, clearing, down>>

-----------------------------------------------------------------------------
(* The chat and /clear *)

\* A /clear has collected its ids and not yet cleared the store.
Deleting == \E c \in Clears : call[c] \in {"waiting", "done", "failed"}

\* record_message_id
Record(m) ==
  /\ log' = log \cup {m}
  /\ late' = IF Deleting THEN late \cup {m} ELSE late

\* A message of the allowed user reaches the handler.
Post(m) ==
  /\ m \in Posts /\ chat[m] = "absent"
  /\ chat' = [chat EXCEPT ![m] = "there"]
  /\ Record(m)
  /\ UNCHANGED <<queue, pending, flooded, worker, call, retries, shown, content, target, down>>

\* The handler goes on after its message was sent: record_outgoing_message.
RecordOutgoing(j) ==
  /\ j \in Sends /\ call[j] = "done"
  /\ call' = [call EXCEPT ![j] = "recorded"]
  /\ Record(j)
  /\ UNCHANGED <<queue, pending, flooded, worker, retries, shown, content, chat, target, down>>

\* Faulty variant: the command itself is forgotten.
CollectedBefore(c) == log

\* get_message_ids_for_chat, of the log and of the trees: what has been recorded,
\* and the command.
Collected(c) == log \cup {c}

\* handle_clear_command, up to the deletion (of one chunk).
Clear(c) ==
  /\ c \in Clears /\ call[c] = "new"
  /\ chat' = [chat EXCEPT ![c] = "there"]
  /\ Record(c)
  /\ target' = [target EXCEPT ![c] = Collected(c)]
  /\ Enqueue(c)
  /\ UNCHANGED <<flooded, worker, retries, shown, content, down>>

\* delete_messages; what cannot be deleted is passed over.
Deleted(ids) ==
  [m \in Messages |-> IF m \in ids \ Undeletable /\ chat[m] = "there"
                      THEN "deleted" ELSE chat[m]]

\* clear_all, whether or not the deletion has failed.
ClearStore(c) ==
  /\ c \in Clears /\ call[c] \in {"done", "failed"}
  /\ call' = [call EXCEPT ![c] = IF @ = "done" THEN "recorded" ELSE "abandoned"]
  /\ log' = {}
  /\ UNCHANGED <<queue, pending, flooded, worker, retries, shown, content, chat, target,
                 late, down>>

-----------------------------------------------------------------------------
(* The worker *)

\* Faulty variant: the entry stays in the map.
DequeueKeeps ==
  /\ queue' = Tail(queue)
  /\ UNCHANGED pending

Dequeue ==
  /\ queue' = Tail(queue)
  /\ pending' = [pending EXCEPT ![Head(queue)] = NoJob]

\* A pause is looked at once, before the limiter.
WorkerTakes ==
  /\ worker.at = "idle" /\ ~down /\ queue # <<>>
  /\ Dequeue
  /\ LET k == Head(queue) IN
     worker' = [at |-> IF flooded THEN "paused" ELSE "limiter", key |-> k,
                job |-> pending[k].job, futures |-> pending[k].futures, tries |-> 0]
  /\ UNCHANGED <<flooded, call, retries, shown, content, clearing, down>>

PauseOver ==
  /\ flooded
  /\ flooded' = FALSE
  /\ worker' = [worker EXCEPT !.at = IF @ = "paused" THEN "limiter" ELSE @]
  /\ UNCHANGED <<queue, pending, call, retries, shown, content, clearing, down>>

LimiterGrants ==
  /\ worker.at = "limiter"
  /\ worker' = [worker EXCEPT !.at = "sending", !.tries = 1]
  /\ UNCHANGED <<queue, pending, flooded, call, retries, shown, content, clearing, down>>

-----------------------------------------------------------------------------
(* The platform call of the worker: _with_retry *)

Calling == worker.at \in {"sending", "once"}

\* Every future of the job gets the outcome; fire_and_forget sleeps after a
\* transient error, if it has a retry left.
AfterError(j, transient) ==
  IF transient /\ j \in Edits /\ retries[j] < MaxRetries THEN "asleep" ELSE "failed"

Resolve(outcome) ==
  /\ worker' = Idle
  /\ call' = [j \in Jobs |->
       CASE j \notin worker.futures -> call[j]
         [] j \in worker.futures /\ outcome = "ok" -> "done"
         [] OTHER -> AfterError(j, outcome = "transient")]

unchangedQueue ==
  UNCHANGED <<queue, pending, retries, content, log, target, late, down>>

\* The platform has carried out the job.
Applied ==
  /\ shown' = [shown EXCEPT ![worker.key] = worker.job]
  /\ chat' = IF worker.job \in Clears THEN Deleted(target[worker.job])
             ELSE IF worker.job \in Sends THEN [chat EXCEPT ![worker.job] = "there"]
             ELSE chat

\* Applied, or there was nothing to apply it to.
CallSucceeds ==
  /\ Calling
  /\ Applied
  /\ Resolve("ok")
  /\ UNCHANGED flooded
  /\ unchangedQueue

\* A lost answer may be one to a call that was carried out.
NetworkError ==
  /\ Calling
  /\ Applied \/ UNCHANGED <<shown, chat>>
  /\ IF worker.at = "sending" /\ worker.tries < PlatformTries
     THEN /\ worker' = [worker EXCEPT !.at = "backoff", !.tries = @ + 1]
          /\ UNCHANGED call
     ELSE Resolve("transient")
  /\ UNCHANGED flooded
  /\ unchangedQueue

BackoffOver ==
  /\ worker.at = "backoff"
  /\ worker' = [worker EXCEPT !.at = "sending"]
  /\ UNCHANGED <<flooded, shown, chat, call>>
  /\ unchangedQueue

\* RetryAfter, after its sleep, or a text the platform cannot parse: once more,
\* with no further retries.
CallOnceMore ==
  /\ worker.at = "sending"
  /\ worker' = [worker EXCEPT !.at = "once"]
  /\ UNCHANGED <<flooded, shown, chat, call>>
  /\ unchangedQueue

\* A flood wait reaches the worker: it pauses, the job is lost.
Flood ==
  /\ worker.at = "once"
  /\ flooded' = TRUE
  /\ Resolve("fatal")
  /\ UNCHANGED <<shown, chat>>
  /\ unchangedQueue

CallFails ==
  /\ Calling
  /\ Resolve("fatal")
  /\ UNCHANGED <<flooded, shown, chat>>
  /\ unchangedQueue

\* shutdown: the worker is cancelled where it is suspended; what it holds and
\* what is queued stays unanswered.
Shutdown ==
  /\ ~down
  /\ down' = TRUE
  /\ worker' = [worker EXCEPT !.at = "stopped"]
  /\ UNCHANGED <<queue, pending, flooded, call, retries, shown, content, clearing>>

WorkerNext ==
  \/ WorkerTakes \/ LimiterGrants \/ BackoffOver
  \/ CallSucceeds \/ NetworkError \/ CallOnceMore \/ Flood \/ CallFails

Next ==
  \/ WorkerNext \/ PauseOver \/ Shutdown
  \/ \E j \in Jobs : Send(j) \/ Retry(j)
  \/ Update
  \/ \E m \in Posts : Post(m)
  \/ \E j \in Sends : RecordOutgoing(j)
  \/ \E c \in Clears : Clear(c) \/ ClearStore(c)

\* The event loop runs the worker and the retries, calls return, time passes.
Fairness ==
  /\ WF_vars(WorkerNext)
  /\ WF_vars(PauseOver)
  /\ \A j \in Edits : WF_vars(Retry(j))

Spec == Init /\ [][Next]_vars /\ Fairness

-----------------------------------------------------------------------------
(* Properties *)

TypeOK ==
  /\ queue \in Seq(Keys)
  /\ pending \in [Keys -> [job : Jobs \cup {0}, futures : SUBSET Jobs]]
  /\ worker \in [at : {"idle", "paused", "limiter", "sending", "backoff", "once",
                       "stopped"},
                 key : Keys, job : Jobs \cup {0}, futures : SUBSET Jobs,
                 tries : 0 .. PlatformTries]
  /\ flooded \in BOOLEAN
  /\ call \in [Jobs -> {"new", "waiting", "asleep", "done", "failed", "recorded",
                         "abandoned"}]
  /\ retries \in [Jobs -> 0 .. MaxRetries]
  /\ shown \in [Keys -> Jobs \cup {0}]
  /\ content \in Nat /\ down \in BOOLEAN
  /\ chat \in [Messages -> {"absent", "there", "deleted"}]
  /\ log \subseteq Messages /\ late \subseteq Messages
  /\ target \in [Clears -> SUBSET Messages]

\* Compaction loses no caller: whoever waits for a future waits for one that is
\* under its key in a queue that holds the key once, or with the worker.
NoCallerForgotten ==
  \A j \in Jobs : call[j] = "waiting" =>
    \/ j \in worker.futures
    \/ /\ j \in pending[KeyOf(j)].futures
       /\ Cardinality({i \in DOMAIN queue : queue[i] = KeyOf(j)}) = 1

\* "Only the latest version of a message update is processed": when the last
\* edit is reported sent, the message shows it, if no edit of it was retried.
LastEditShown ==
  (/\ content > 0
   /\ call[content] = "done"
   /\ \A j \in Edits : retries[j] = 0 /\ call[j] # "asleep")
  => shown[0] = content

\* The same without the exception.
LatestVersionShown ==
  (/\ content > 0
   /\ call[content] = "done"
   /\ \A j \in Edits : call[j] \notin {"waiting", "asleep"})
  => shown[0] = content

\* A global /clear forgets what it deletes and no more: a message that is in the
\* chat can be deleted by the next /clear, unless it was recorded while one was
\* deleting, the platform refused or failed to delete it, or its sender never
\* learnt its id.
ClearForgetsDeleted ==
  \A m \in Messages : chat[m] = "there" =>
    \/ m \in log \cup late \cup Undeletable
    \/ \E c \in Clears : call[c] \in {"failed", "abandoned"} /\ m \in target[c]
    \/ m \in Sends /\ call[m] # "recorded"

\* Whoever waits gets an answer, whatever fails on the way, unless the limiter
\* is shut down.
EveryCallEnds ==
  \A j \in Jobs : (call[j] \in {"waiting", "asleep"})
                  ~> (call[j] \in {"done", "failed"} \/ down)
=============================================================================
