# TLA+ verification of claude-chakra

claude-chakra is a proxy that serves the Anthropic Messages API from other model
providers, with a messaging bot (Telegram, Discord) that runs Claude Code CLI
processes for the conversations users hold with it. This directory holds TLA+ models
of its stateful parts, the TLC runs that check them, and proofs for TLAPS.

Everything concurrent in the program is asyncio on one thread, except the save timers of
the session store and the reading of a request's settings, which are in threads. A handler is therefore atomic between two
*suspensions*; the models cut actions exactly there. A lock that is never held across
a suspension, as those of the tree and of the tree manager, needs no modelling.

## 1. Inventory

| Component | State | Operations | What is hard | What makes it correct | Module |
|---|---|---|---|---|---|
| Conversation queue (`messaging/trees`) | nodes and their states, queue, processing flag, current node and task, the manager's index | create, add, enqueue, process, hand over, error propagation, cancel node / branch / tree, remove branch | cancellations delivered at any suspension, commands between any two, states written by two parties | one message at a time, arrival order, nobody forgotten or run twice, stops that hold, a busy tree has a reason | `TreeQueue` |
| Message handler and commands (`messaging/handler.py`, `commands.py`, `node_event_pipeline.py`, `event_parser.py`) | local variables of each task (tree, captured session) | accept a message, run it, /stop, /clear | the parent looked up before an await and used after it; late CLI events | same; what /clear forgets it has deleted | `TreeQueue`, `MessagingOutbox` |
| Session store (`messaging/session.py`) | trees, mapping, log of message ids, dirty flag, save timer; the file | save, register, remove, record, clear, flush, timer callback, load | timers that fire late, writes outside the lock, crashes, failing writes | a change reaches the file; what is restored is whole | `SessionStore`, `MessagingOutbox` |
| Messaging limiter and platforms (`messaging/limiter.py`, `ui_updates.py`, `platforms/`) | queue with keys, futures, pause, worker; the chat | enqueue, compact, run, retry, shut down | a retry against a newer edit, lost answers, a deletion against new messages | every caller answered, the latest edit wins | `MessagingOutbox` |
| Transcript (`messaging/transcript.py`) | segments, open blocks by index, stack of subagents | apply an event, render | results in any order and without ids, reused indexes, truncation | subagents close, no text hidden or misplaced, it fits | `Transcript` |
| CLI sessions and voice notes (`cli/manager.py`, `cli/session.py`, `messaging/voice.py`) | pending and real sessions, two id maps, processes; pending notes | get or create, register, remove, stop, stop all; register, complete, cancel a note | a session shared by a parent's id, a removal that is cancelled, /clear against a transcription | a node's own session, nothing left behind, a cancelled note unheard | `ChatTurns` |
| Sliding window (`core/rate_limit.py`) | a deque of grant times | acquire | bursts at the edge of the window, woken waiters | at most N grants in any window | `SlidingWindow` |
| Provider rate limiting (`providers/rate_limit.py`, `key_pool.py`, `error_mapping.py`) | slots, window, reactive block, cursor and cooldowns of the keys | slot, wait, execute with retry, next key, report 429 | requests that change each other's block and cooldowns while asleep | every call granted, calls bounded, cooling keys last, the block stops others | `ProviderLimiter` |
| Response stream (`api/services.py`, `api/fallback.py`, `providers/openai_compat.py`, `providers/anthropic_messages.py`, `core/anthropic`) | parsers, builder, block policy, held events, committed flag | chunk by chunk; fail over | tags, names and arguments in pieces, interleaved kinds of blocks, errors before and after content | the contract of `stream_contracts.py`, one provider, no text or argument lost | `ProxyStream`, `SseBuilder`, `NativePolicy`, `TextParsers`, `SseContract` |
| Routing (`api/model_router.py`, `api/routes.py`, `api/gateway_model_ids.py`) | settings, what providers told of their models | list, decode, route | ids listed before and asked for after a change | an id leads back to its model | `ModelRouting` |
| Request conversion (`core/anthropic/conversion.py`, `native_messages_request.py`, `providers/deepseek`, `nvidia_nim`, `open_router`) | none: data to data | convert, sanitize, alias, retry body | text behind calls, missing results, thinking that cannot be replayed, names that collide | nothing lost, repeated or out of place | `ChatConversion`, `NativeRequest`, `NimTools`, `RequestBuilding` |
| Configuration and registry (`api/admin_config.py`, `admin_routes.py`, `config/settings.py`, `providers/registry.py`, `api/dependencies.py`) | layers of files, settings cache, cached providers | apply, validate, restart, get, refresh, clean up | requests between settings and provider; two applies | only what was sent changes, it takes effect, no closed provider in use | `EnvConfig`, `Reconfigure` |

The platform adapters deliver messages to the handler, which talks to the queue and,
through it, to CLI sessions; both the handler and the queue's tasks write to the
session store; all messages to the platform go through the messaging limiter. The
HTTP API routes a request to a chain of providers by the fallback; each provider opens
its stream under its limiter and converts it to SSE. The sliding window is shared by
the provider and the messaging limiters. The admin page replaces settings and registry
under all of them. `PROJECT.json` lists every component, modelled or not, and the
hazards, each at its line.

## 2. Plan

Done, in this order: `TreeQueue` with its abstract server `FifoServer`; `SlidingWindow`
and `ProviderLimiter`, which composes it with the key pool; `SessionStore`; the
response stream with its contract; the messaging limiter with the chat; transcripts;
request conversion; configuration and registry; CLI sessions with voice notes. Then
the proofs of the safety properties (section 5), those about the response stream and
the conversions last, as they need facts about folds. Still to come:

1. Proofs of `TextFaithful` and `ResultsFollowCalls` (section 5 says what is in the way).
2. The response stream over `ProviderLimiter` (today a candidate's opening is one choice
   in `ProxyStream`), and limiters that are rebuilt when settings change.

No module uses RECURSIVE, so that every one can be proved about.

## 3. The models

### TreeQueue

One conversation. `msg` follows `handle_message`, `pc` the asyncio task of each node, and
the other variables are attributes of `MessageTree`, `MessageNode`, the repository's
index (`registered`) or locals of the task (`bound`: its `tree` is not None, `captured`:
its session id). The queue is kept as an arrival number per node (`ticket`), which is
what `_SnapshotQueue` amounts to when nodes are only appended, popped or removed. A
reply to a status message is a reply to its node.

`cancelling` holds the tasks whose `Task.cancel()` has not been delivered; `DeliverCancel`
raises at the suspension the task is at. The suspensions are: sending the status
message; reading the CLI; killing it (`CLISession.stop`, shielded); draining its stderr;
removing the session in the finally; and the deletion of messages in both kinds of
/clear, which splits them in two (`ClearBranch`/`RemoveBranch`, `ClearAll`/
`ReplaceTreeQueue`). A task cancelled before its first step is `stillborn`: Python does not
enter the coroutine, so no finally runs.

`captured` may be set at the start of a reply whose parent's session is still in the CLI
manager (`MayReuseSession`), since `get_or_create_session` then hands out the real id. The
branch of the handler for a full session manager is unreachable in this code base
(`get_or_create_session` never refuses) and left out. An exception in
`_process_node_impl` is caught there, so the `except Exception` of `process_node` is too.

`FifoServer` is what the queue promises without commands: every job is served, one at
a time, in the order of arrival. `TreeQueue` maps its `arrived`, `waiting`, `serving` and
`working` to the accepted messages, the queue (`InOrder`: at each place the node with as
many tickets below its own), `_current_node_id` and the live tasks.

### SlidingWindow and ProviderLimiter

`acquire` never suspends under its lock, so a pass of its loop is an action: `Granted` or
`Refused`. `grants` is a history of all grants and `evicted` says how many have left the
deque: `Times` is the deque.

`ProviderLimiter` adds the requests of one provider scope. `phase` says where a request
is suspended: in the reactive sleep (`paused`), the sleep of the acquire loop
(`throttled`), the upstream call, a backoff, or its consumer. A request is in the
rotation over the pool or in `execute_with_retry` with a fixed key (`mode`); `RetryBody`
is `_create_stream`'s second attempt with the body `_get_retry_request_body` gives. The
semaphore is the number of requests that hold a slot. Time is the integer `now`; a sleep
may end late. `wait_if_blocked` is one operator because its branches run up to the next
suspension: with no block and a free window, the upstream call starts in the same step.
The jitter is a choice; the error that ends a call is a choice of action. Keys are taken
to be distinct. `EveryCallGranted` counts the calls of all requests as the pairs of a
request and a number (`Made`).

### SessionStore

The store with the one tree it needs to show what can go wrong, its writers and the file.
What is done under the lock is one action. The file is replaced in an action of its own
(`TimerWrites` for the timer threads; `Flushed` and `ClearAllWritten` for the event
loop, which waits for its own writes and so changes nothing in between). `slot` is
`_save_timer`: `Timer.cancel()` stops a timer that waits (`armed`), not one that has
fired (`firing` counts those waiting for the lock); `loose` counts timers that wait although
the slot was emptied by an earlier one. `Down` is any end of the process, `Up` loads the
file and restores it; where `cleanup_stale_nodes` has changed a node, the store is
saved again. `SaveProgress` is any later `save_tree`. A save by a task that outlives the
/clear of its tree is not modelled here.

### MessagingOutbox

`queue` and `pending` are `_queue_list` and `_queue_map`: a key is in the list once, its entry
holds the job to run and the futures of every job it has replaced. All edits of the one
status message have the key `edit:<chat>:<message>`; a send has a key of its own. `worker`
says where the worker is suspended: in a flood pause, the limiter, the platform call or
its backoff. `call` is what the caller of a job does: it waits for its future, sleeps before
a retry (`fire_and_forget` only), or has its answer. A network error may follow a call the
platform has carried out. The platform's `_with_retry` tries `PlatformTries` times;
`RetryAfter` sleeps inside it and tries once more, and a second one reaches the worker as
a flood (`Flood`). `Update` is the throttled editor: an edit may be skipped within a second
unless it is the last.

The chat: a user's message and the bot's are recorded in the store's log when the handler
sees them or learns their id; a global /clear collects the log, has the worker delete it
and clears the store, whatever the deletion did. `late` is history: what was recorded while
a /clear was deleting and is forgotten with the rest. `ClearForgetsDeleted` lists
every way a message stays in the chat out of reach of the next /clear: it was `late`, the
platform refuses to delete it, the deletion failed, or its sender never learnt its id.
The log's cap is off by default and left out. The status message of a voice note that
could not be transcribed is not recorded at all, which the model leaves out too.

`LatestVersionShown` states the newest version is shown also when edits are retried; the
model violates it: `fire_and_forget` puts the failed edit back under its key, where it
replaces a newer one (`limiter.py:265`).

### TextParsers, SseBuilder, NativePolicy, SseContract, ModelRouting, ProxyStream

`TextParsers` has the think-tag parser and the parser of tool calls written as text, over
tokens that are the pieces a tag can be cut into: `lt` then `think>`, `bullet` then `func` then
`param`. `SseBuilder` is the state of the builder and what each method appends to it;
`NativePolicy` the block policy of native upstreams (closing overlapping blocks,
renumbering, hiding thinking) and the tracker that ends a stream that fails. `SseContract` is
`assert_anthropic_stream_contract` turned into a machine that reads one event per step.

`ProxyStream` is one request. In `asked` the client picks a listed id, a name it knows or
a model id of its own; settings and provider answers may change in between
(`RoutedAsListed`). In the service, shortcuts and server tools are answered without a
provider. Then the candidates of `api/fallback.py` are tried: `stage` is where the
generator of the current one is, `chat` or `native` its state, `held` what the fallback
buffers, `wire` what the client has still to pull. Generators are lazy, so a chunk is
read when the events of the one before are gone. Once streaming, the routing
variables are not read again and are reset. `ContractSpec` is refined by what the client
receives, failures included.

What the model shows beside its properties: a tool's name that comes in two pieces is
shown with the first (`ToolArgsWhole` says so); a tool call written as text followed by
an error puts text behind a tool_use; the arguments of a tool without a name are lost, and
so is the beginning of a tool call in text that is never completed; a native upstream of
hidden thinking only ends without any block. A native transport yields a line at a
time, an event here. `fallback.py:99` creates a provider outside the try: a candidate
without a key ends the response, against the docstring at `fallback.py:20`. The fallbacks
of an id without thinking think as their own settings say.

The contract has a limit: a part of a block that a native upstream never started. The block
policy opens a block for a text or tool delta of that kind, but lets a thinking delta, and a
stop while thinking is shown, through as they are (`native_sse_block_policy.py:288`), under an
index the client may know as another block's or not at all. `NativeDelta` and
`NativeBlockStop` send them; `stray` says that it has happened, and from then on
`SseContract` promises nothing (`Excused`). Deltas of types the policy does not know pass raw
too and are not modelled.

### Transcript

`segments` keeps the kind and the rendered length of each segment, `open` the three maps
from block index to segment, `stack` the ids of the subagents, empty for the ids the program
makes up, which no result has. The CLI's own side is modelled with it: `source` its open
blocks, `running` its Tasks. An id is a sequence, so that one can be a prefix of another
(`_subagent_pop` matches prefixes and any id with "task" in it); that the ids of other tools
are no prefixes of a Task's is an assumption on the CLI (`IdsAssumption`). `Render` drops the
oldest segments until the rest, from one index on, fits and then takes the tail of the newest.

A result without an id, of a Task that has one, closes nothing but a made-up Task on top
(`transcript.py:319`): its own Task stays on the stack, and the text after it is hidden.
`TaskResult` has such results; `AllTasksClosed` and `StackIsRunning` leave them out.

`AllTasksClosed` does not hold when an id is a prefix of two unlike ones: of Tasks begun in
the order `t1`, `t`, `t2` whose results come in the order `t`, `t1`, `t2`, the first result
closes `t2`, the second `t`, and the third finds nothing like it: `t1` stays open. The
theorem about it takes that no id is (`OnePrefix`), as ids of one length are not.

### ChatConversion, NativeRequest, NimTools, RequestBuilding

A history is a sequence of messages of blocks; a block is its kind, its place and, for a result,
the place of its call. `ChatConversion` is the converter with what it has pending,
`NativeRequest` the thinking policies, OpenRouter's body and DeepSeek's sanitizer,
`NimTools` the renaming of unsafe property names and the bodies that are sent again.
`RequestBuilding` lets the conversation, or the schema, grow by one message or
property per step and checks all three on every one.

Noticed: a user's document blocks are dropped for chat upstreams; repeated or foreign
results give out pending text early or twice, which `SentOnce` bounds to what clients
send; a plain assistant string does not give out pending text; DeepSeek's hints are kept
where thinking is switched off by routing; OpenRouter's client may ask for thinking with
its own extra keys though it is off; a NIM error that names both fields strips only one,
and there is one retry.

### EnvConfig and Reconfigure

`EnvConfig` has the layers of a value, what the page makes of them (`Shown`) and what
Settings does (`SettingsOf`): the page's lowest layer is the template, that of Settings its own
defaults, which differ for some keys, and of `ANTHROPIC_AUTH_TOKEN` Settings takes a
file's value before the process's (`settings.py:581`), a locked one too. A managed file that
does not have a key gets the template's value at the first write
(`admin_config.py:985`), so that one changes what nobody sent: `PROVIDER_RATE_LIMIT`, for
instance, from Settings' 40 to the template's 1. `ChangesWhatWasSent` says so.

`Reconfigure` adds the server: `settings` is the cache of `get_settings`, `current` the
registry in `app.state`, `objects` every provider made, `request` and `apply` where each is
suspended. A restart-only key makes an apply restart the server, where a callback is
installed. The model refresh of a new server is a request of its own. A request reads its
settings in a worker thread (`get_settings` is a plain function under Depends): `Arrive`
takes them from the cache or reads them, `Store` is what lru_cache does when the thread is
done, though a write may have cleared the cache meanwhile. Then `overtaken` values stay in
the cache until the next write or restart, and every provider made of them is of older
settings: `late` marks those, and the ones a request makes that had its settings before
the write, and `InUseIsUpToDate` excepts them. A reading is one step: that the files change in
the middle of it, or between it and the second look for the token, is left out.

Other conditions are what the code allows: a provider created while its registry is
cleaned is dropped without being closed (`registry.py:530`); overlapping applies leave a
registry that nobody cleans, and a shutdown cleans only the one of the start
(`runtime.py:168`); a cleanup that fails leaves the old registry in place. Values that dotenv
reads back otherwise than they were written (a leading quote, `${`) are outside the model. A
limiter rebuilt by `get_scoped_instance` (`rate_limit.py:117`) forgets block, window and
slots of the old one, which open streams keep.

### ChatTurns

A turn is a message, or a voice note once it is transcribed. `sessions`, `pending` and
`temp_to_real` are the manager's maps, `lock` its asyncio lock, which is held across the kill
of a process. A CLISession is named by the turn it was made for and a real id by the turn
whose process reported it.

The tree's queue is abstracted to what the manager sees of it. A turn begins when no turn of
its tree is live but those that are `freed`, whose tree a global /stop has freed
(`queue_manager.py:568`), and when its parent is over, dropped or freed: a parent is
enqueued before its replies. `Drop` is any way a turn ends before its task does anything
(stopped or cleared while queued, or failed by its parent). So a reply may begin while its
globally stopped parent still unwinds: it then shares the parent's session, if that one has
registered it, and the parent's finally takes it away, kills the reply's process or, when that
is spawned later, leaves it running behind its turn.

`missed` marks turns whose removal was cut short by a second cancellation, found no entry
(a turn accepted between `cancel_all` and `stop_all` of a global /stop loses it) or took the
session of another turn. `LeavesNothing` excepts them. `OwnSession` says what a node may
record but its own session: the one another turn of its tree would remove (`Handle`), and only
if that one is `freed` or `missed`. A
transcription that fails leaves the note registered; a global /clear
does not cancel notes; a /clear before the registration finds nothing. Telegram's library
handles one update at a time (`telegram.py:136`), so a cancellation in the middle
happens on Discord only.

## 4. The runs

All runs but response_stream set `CHECK_DEADLOCK FALSE`: users stop writing, the clock of
a run, its faults and its histories are bounded, so the systems may really stop. A
response stream only stutters once it is over (`Over`): it never gets stuck before.

| Run | Specification and bounds | Shows |
|---|---|---|
| tree_plain | fair; a root and 3 replies, no commands | `ForkAfterParent`, and `FifoProgress`: the queue implements `FifoServer`, fairly |
| tree_reply_commands | fair; a root and 2 replies; /stop and /clear of a message | `SingleRunner`, `BusyHasReason`, `StopHolds`, `StopEnds` |
| tree_global_commands | a root and 2 replies (symmetric); /stop and /clear of everything | `NothingForgotten`, `NeverRestarted` |
| provider_limits | 3 symmetric requests, 2 keys, 2 slots, 2 calls per 2 ticks, 1 retry, 2 bodies, 4 ticks | the window, also as the property `WindowSpec`; a grant per call; `CallsBounded`; `CoolingKeyLast`; `BlockStopsOthers` |
| session_store_restarts | fair; a root and a reply, 2 timer threads, one crash or failed write | `DirtyHasTimer`, `RestoredIsIndexed`, `SavedReachesDisk` |
| response_stream | 2 providers, one of each transport, 4 settings; 3 chunks of a chat upstream, 6 events of a native one; 2 tools | `ContractSpec`, `OneProvider`, `TextFaithful`, `ToolArgsWhole`, `RoutedAsListed` |
| outbox | fair; 2 edits, a send, a user's message that cannot be deleted, a /clear; 1 retry, 2 tries | `NoCallerForgotten`, `LastEditShown`, `ClearForgetsDeleted`, `EveryCallEnds` |
| transcript | 2 indexes, 4 ids of which one is missing and one a prefix, 3 segments of length up to 3, 2 limits, with and without a status | `AllTasksClosed`, `StackIsRunning`, `NoStaleBlock`, `RenderFits` |
| requests | histories of up to 5 blocks, one of them special; schemas of up to 4 properties in 2 levels | `ResultsFollowCalls`, `SentOnce`, `NativeConsistent`, `NamesRestored` |
| reconfigure | 2 symmetric pages, a request and the refresh, 2 providers, the token, which is secret, and a restart-only key, with and without a managed file, 2 writes, 3 objects | `ClosedOnlyInCleanup`, `InUseIsUpToDate`, `ChangesWhatWasSent` |
| chat_turns | two replies to an ended root, one a voice note, and a reply below the other; /stop or /clear of that one, two global /stops | `CancelledNoteUnheard`, `OwnSession`, `LeavesNothing` |
| tree_two_runners | a root and 2 replies; global /stop; `PromptSpec` | `OneAtATime` fails |

The bounds: three messages make a running, a waiting and an arriving one, and a chain
or a fork of replies; `tree_plain` has a fourth so that the queue holds two while one
runs under a parent that fails. Commands are not bounded, only `clearing` and `wiping`
allow one of each /clear at a time. Two keys and two slots make a request find the keys
another one has cooled and the block another one has set; four ticks are two whole
windows, in which a request can go through rotation, fallback and a retry. Two timer
threads can land their writes in the wrong order; the event loop's own writes make a
third writer. One fault at each instant is what the code handles. Three chat chunks hold
every cut of a tag or a name with another delta in between; six native events are two
overlapping blocks with their deltas. Two edits are one that runs or waits and one that
replaces it; the send and the /clear are callers with keys of their own between them. Three
segments are two that are dropped and a tail; with lengths up to 3 and limits of 3 and 6 every
branch of `Render` occurs, the cut within a segment with and without a status among them. Five blocks are two calls, text behind
them and two results, with or without another message between. Four properties are a
parameter called `type` at both levels beside aliases of it. Two pages overlap in every
phase of an apply; three objects are one of the old settings, one of the new and one too
late. Two siblings resume the session of their ended parent, also beside each other, and a
reply finds its parent's while that is being stopped; the second global /stop comes when the
first has freed the tree. Turns of different trees meet only at the manager's lock; the proofs
cover them.

What the violation means: **tree_two_runners.** `cancel_tree` resets the processing flags
at once, while the cancelled task may still be killing its CLI (`queue_manager.py:568`). TLC's
trace: `n1` runs; a global /stop cancels it and frees the tree; the cancellation is delivered
and `n1` kills its CLI and drains it; `n2` arrives and, the tree being free, gets its task
beside it; `n1`'s finally finds an empty queue and frees the tree once more, under `n2`,
which runs; `n3` arrives and is started beside `n2`. Neither of these was stopped: `OneAtATime`
does not count tasks that are being cancelled. `PromptSpec` only takes steps away (a
cancellation is delivered in the loop's next pass and reaches the task at a suspension; the
removal of a session need not wait), so that the trace is one asyncio takes as it is.

Eight more formulas are stated in the modules, violated by the models, and have no run
of their own; each tells a behaviour of the code:

- `Served` with /stop (`TreeQueue`; it holds without commands, as `FifoProgress` implies). A
  /stop that reaches a task between `create_task` and its first step cancels a coroutine
  that was never entered; its finally does not run and the conversation stays busy until a
  /clear of it or a global /stop (`queue_manager.py:598`).
- `FailedNotCompleted` (`TreeQueue`). A non-zero exit is an error event followed by a complete
  event, and the latter sets COMPLETED if the session id is known
  (`node_event_pipeline.py:98`). `InProgressIsRunning`: a CLI that ends without naming a
  session leaves IN_PROGRESS.
- `ClearedIsQuiet` (`TreeQueue`). Messages accepted while a global /clear deletes messages go on
  running in a tree no command reaches.
- `KeyTriedOnce` (`ProviderLimiter`). The rotation is bounded by the size of the pool, not by
  the keys it tried: when other requests' 429s make every key cool, the soonest-free key
  may be one it tried before (`openai_compat.py:174`, against its docstring at 154).
- `PausesAllRequests` (`ProviderLimiter`). A request that was asleep when a block was set or
  replaced does not look again; `BlockStopsOthers` is what does hold.
- `ErasedStaysErased` (`SessionStore`). A timer thread that took its snapshot before `clear_all`
  may replace the file after it (`session.py:149`). Nothing is dirty then, so a restart brings
  the conversation back. `flush_pending_save` at shutdown is exposed in the same way.
- `LatestVersionShown` (`MessagingOutbox`), see section 3.

**Fairness.** `TreeQueue`: weak fairness of the event loop's own steps for each task
(asyncio runs every ready task) and of the end of each CLI process; nothing of
users, of CLI events or of the platform. A CLI that never ends keeps its tree busy: this is
an assumption on the CLI, as the code sets no time limit on a turn. `SessionStore`:
timers expire, threads get the lock, writes end and handlers go on; the process need
not restart. `MessagingOutbox`: the worker goes on (asyncio runs it, platform calls return or
time out in the libraries), a flood pause ends and a sleeping retry wakes; nothing of
the users, and the shutdown need not come.

## 5. The proofs

TLAPS checks, for every value of the constants that the named assumptions allow:

- `TreeQueueProofs`. `TypeCorrect`. `NoMessageForgotten`: `NothingForgotten` is not
  inductive: a queued node must have no task and a busy tree (`QueueWaits`), the index
  must lie within the tree (`Indexed`), only accepted nodes are queued (`OnlyAccepted`),
  cancelling the task must reach the current node's (`CancelReaches`), and a task
  cancelled before it starts must have been marked (`EarlyCancelMarked`); `QueueInv` is
  their conjunction. `NeverHandedOutTwice`: a task is created for a node that arrives or is
  taken from the queue, and neither has had one. `BusyHasReasonTheorem`, under every
  command, from `BusyInv`: while the flag is up the current node is the last task's, which
  lives or never ran, or it was cleared.
  With reply-scoped commands only (`ReplyOps`): `OneMessageAtATime`, from `RunnerInv`: a
  live task is the last one created (`OnlyTheLastTask`), and while it lives the flag is
  up or the manager has forgotten the tree (`GateShut`), so nothing lets a message in
  beside it. `StopHoldsTheorem`, from `StopInv`: what was stopped has left the queue
  (`StoppedLeft`), and the live task is the current node's while the tree is known
  (`LiveIsCurrent`), so that a /stop of a running message cancels the right task.
  `ForkAfterParentTheorem`, from `OrderInv`: a reply is queued behind its parent
  (`ParentFirst`), a parent that is neither queued nor started is stopped for good
  (`ForkSettled`); and `TreeInv`: the manager knows the whole tree or nothing of it. Global
  commands falsify each of these three; of the first tree_two_runners shows even the weaker
  `OneAtATime`.
  `FifoOrder`: without commands every step is a step of `FifoServer` or a stutter. The
  queue as a sequence is defined by ranks (`InOrder`), so that appending the newest ticket
  (`OrderAppended`), taking the smallest (`OrderTail`) and leaving out a failed parent's replies need
  no induction.
- `ProviderProofs`, of `ProviderLimiter`. `StrictWindow` (of `SlidingWindow`), from `WindowInv`: grants are in order and not in
  the future, the evicted ones have left the window and the others fit the limit.
  `ProviderUsesWindow`: every step of the requests is a step of
  `WindowSpec` or a stutter; hence `ProviderWithinWindow`. `EveryCallGrantedTheorem`: a
  step makes one call and takes one grant, or neither; with the window it bounds the
  calls. `CallsBoundedTheorem`, from `CallsInv`: what a request has called and what its
  phase still lets it call fit the budget of the body it is at (`Before`, `Within`, `PerBody`).
  `CoolingKeyLastTheorem` and `BlockStopsOthersTheorem` are action properties: whoever
  calls has taken the key `NextLiveKeyFacts` describes, and was asleep when the block was set.
- `ConversationProofs`, of `SessionStore`: `ChangesHaveTimer`. `RestoresIndexed`, from `AllIndexed`: memory,
  every snapshot on its way and the file are indexed, and a clear only ever adds to what is
  excused.
- `MessageOutputProofs`, of `MessagingOutbox`. `NoCallerLost`, from `OutboxInv`: a key is queued once
  (`QueuedOnce`) and exactly where the map has a job for it (`QueueIsMap`), a waiting
  caller's future is there or with the worker (`FutureKept`), and an idle worker owes nobody an
  answer (`IdleOwesNothing`). The other two need `HoldInv`, who holds which job: a caller with
  a key of its own waits while the map or the worker has it. `LastEditShownTheorem`, from
  `EditInv`: while no edit was retried, no edit is behind the callers it answers, and once the
  newest is with the worker nothing older is behind it (`NewestLast`).
  `ClearForgetsDeletedTheorem`, from `ClearInv`: what is in the log or in a target has been in
  the chat (`KnownKept`), while a /clear deletes the log holds its target and what is `late`
  (`LogCollected`), and afterwards the platform has only what it refuses (`TargetDeleted`).
- `MessageOutputProofs`, of `Transcript`. `NoStaleBlockTheorem`. `StackIsRunningTheorem`: while results come newest
  first, the stack *is* the running Tasks (`NestInv`): the newest entry like a result is its own.
  `AllTasksClosedTheorem`, under `OnePrefix`, from `CountInv`: for every id there are no more
  entries like it than running Tasks like it: a result takes an entry like it away if there is
  one, which under `OnePrefix` is like every id the result is like. `RenderFitsTheorem` of any segments and limit;
  `MinFacts` and `MaxFacts`, which it uses, are proved from the well-foundedness of < on sets.
- `ProviderProofs`, of `Reconfigure`, from `ConfigInv`: a provider is in the cache of one registry
  (`CacheInv`), so what an apply has still to close is in no other (`LeftInv`), and settings
  read since the last write are those in effect, in a thread, a request or the cache, unless
  they are marked as overtaken (`FreshInv`). `ClosedOnlyInCleanupTheorem`,
  `InUseIsUpToDateTheorem`, and the action property `ChangesWhatWasSentTheorem`, from what a
  write does to the layers (`WriteEffect`).
- `ConversationProofs`, of `ChatTurns`, from `TurnsInv`: a process that runs has a turn that holds the lock of
  the CLISession it is the current one of (`ProcessInv`), a reported id is in use only where
  its turn has registered it or the turn has ended (`IdsInv`), every entry is that of a turn
  that will remove it or has missed it (`EntriesInv`), ids stay in their tree (`TreesInv`), and
  a note that was cancelled is not registered (`NotesInv`). `CancelledNoteUnheardTheorem`,
  `OwnSessionTheorem`, `LeavesNothingTheorem`. The proof of the last two failed at first
  where it should: a removal takes another turn's session without being cut short, and a reply
  below a reply may record what its parent shared. The model now tells both (`missed`, and the
  second case of `OwnSession`), and the run has them in its bounds. That case is stable because a
  turn that was freed or has missed its session is past the steps that would change its id
  (`SettledInv`, `TakenOverStays`).
- `ConversationProofs`, of `RequestBuilding`. `NamesRestoredInv`: the alias that stands for
  the unsafe name is none of the schema's own, at any depth, so the table leads back.
  `NativeConsistentInv`: what a filter keeps of two lists together is what it keeps of
  each (`KeptConcat`, by `ListInduction`), hence of a whole history what it keeps of the
  messages (`FlattenKept`); a message that lost other kinds, or its attachments to the
  placeholder, has the same calls and results, and thinking that stood before a call still does
  (`ThinkingKept`). `SentOnceInv`, from `ToldInv`: of every block, what was sent and what is
  still deferred tell exactly what the messages of the history add, and what is
  deferred waits for every call that may still be answered.
- `FoldFacts`: what a fold keeps and reaches (`FoldKeeps`, `FoldReaches`), for an operation
  and a predicate that are CONSTANTS of the module. The library's induction takes operators
  as parameters, which the provers cannot instantiate; a module with operators as
  constants, whose induction goes by the least counterexample, is instantiated for each
  fold instead (`INSTANCE FoldFacts WITH Op <- ..., Good <- ...`).
- `ProxyProofs`, of `ProxyStream`. `StreamInvariant`: the records of the parsers, the
  builder, the policy and the tracker are typed; what is held back, what the client has
  still to read and what was served is of the current candidate (`Speaks`), which may
  only change while nothing was delivered; and every argument piece of a tool is in a
  buffer or sent (`Accounted`). `OneProviderInv` and `ToolArgsWholeInv` follow.
  `RoutedAsListedInv`, from `RoutingInv`: every listed id comes from the settings or from
  what a provider told, and decoding it gives back provider and model whatever slashes
  the model's own name has; the chain behind it is duplicate-free because a candidate is
  added only when it is not there.
- `BuilderProofs` and `ContractProofs`: `ContractRefined`, `ProxyStream` implements
  `SseContract`. A step of a generator yields many events, of which the client reads
  one at a time, so the argument is about sequences of events: `Path(v, events, w)` says
  that they lead a client from one view of the stream to another, each of them allowed.
  `BuilderProofs` has it for a chat answer: what the builder has yielded leads to a view
  that knows exactly the blocks the builder has open and none at or above its next index
  (`Builds`, `Shows`), which every method of the builder, every part a text parses into
  and every piece of a tool call keeps; and a message that is finished, or fails at any
  point, is whole (`Ends`). `ContractProofs` has it for a native stream: the policy knows
  what it has open and every block of the upstream has an index of its own (`Policed`), and
  the tracker has each open block once (`Tracks`), so that the tail it makes for a broken
  stream closes all of them. The invariant of the stream (`Contracted`) is that the
  events on the wire, followed by those the fallback holds, lead the client to where the
  generator at work stands (`Leads`, `Stands`). That a chat answer opens no block twice
  after text that was sent late rests on `StreamInvariant`: while a call has no block, all
  its pieces are held back (`Recording`). The invariant holds until an upstream has sent a
  part of a block it never started (`stray \/ Contracted`, `StrayKept`). The theorem takes block indexes to be
  unbounded (`Unbounded`): they are bounded only in a run.

Assumptions on constants are those of the modules, each said at its constant: finite sets
of messages, none of the markers a member, ids that are sequences. No theorem
bounds a number: retries, keys, requests, cancellations and faults are arbitrary.

Only model-checked: liveness (`StopEnds`, `SavedReachesDisk`, `EveryCallEnds`, and of
`FifoProgress` that every message is served), which the prover cannot do under fairness,
as it has no ENABLED; and a property of `ProxyStream` and one of `RequestBuilding`.
`TextFaithful` says that a parser fed in pieces agrees with one fed at once, an induction
over the text that no invariant of the stream replaces. `ResultsFollowCalls`
orders what several messages give out of each other's blocks, of which `ToldInv` only has
the number. `ProviderLimiter` has no theorem of its types, as the backoff's powers of two are
beyond the prover; its invariants do not need any.

## 6. Not modelled

The rendering of messages in a platform's markup and the small provider adapters (a base
URL, headers, a few parameters) keep no state and take no decision. Within modelled
components: status texts and /stats, token counts and usage, tracing and logging, the fetching
and parsing of web pages, the catalogue of admin fields and its page, the command line of
the CLI, start and stop of the platform libraries, launchers and the desktop shell. The
platform libraries, the providers, transcription and the CLI are external: their
behaviour is a choice of the models.
