------------------------------ MODULE ChatTurns ------------------------------
(***************************************************************************)
(* The turns of a chat as the CLI sees them: a message, or a voice note    *)
(* once it is transcribed (messaging/voice.py, platforms/discord.py), is   *)
(* processed by a task (messaging/handler.py) that takes a CLISession from *)
(* the manager (cli/manager.py), reads what its process says               *)
(* (cli/session.py) and removes the session, while /stop, /clear and a     *)
(* global /stop cancel tasks and stop processes.                           *)
(*                                                                         *)
(* A CLISession is named by the turn it was made for, a real session id by *)
(* the turn whose process reported it. TreeQueue has the queue: here turns *)
(* of a tree run one after the other, but for those a global /stop has     *)
(* freed the tree of.                                                      *)
(***************************************************************************)
EXTENDS Integers, FiniteSets, Functions

CONSTANTS
  Turns,
  Notes,         \* the turns that arrive as voice notes
  Parent, Tree,  \* [Turns -> Turns \cup {None}], [Turns -> trees]
  Ended,         \* turns that have ended before, with a session
  Stoppable,     \* bound: turns that are cancelled by a /stop or /clear of their own
  MaxStopAlls,   \* bound: global /stop
  None

\* Session ids: one a process reports, and one the manager makes up.
Real(t) == <<"real", t>>
New(t) == <<"pending_", t>>
Ids == {Real(t) : t \in Turns} \cup {New(t) : t \in Turns}

\* A reply is in the tree of what it replies to.
ASSUME TurnsAssumption ==
  /\ None \notin Turns \cup Ids \cup {"stop_all"} /\ "stop_all" \notin Turns
  /\ Notes \subseteq Turns \ Ended
  /\ Ended \subseteq Turns /\ Stoppable \subseteq Turns
  /\ Parent \in [Turns -> Turns \cup {None}]
  /\ \A t \in Turns : Parent[t] # None => Tree[Parent[t]] = Tree[t]

VARIABLES
  phase,      \* of each turn
  using,      \* the CLISession its task holds
  captured, temp,   \* captured_session_id, temp_session_id of its task
  freed,      \* a global /stop has cancelled it and freed its tree
  missed,     \* remove_session did not find its session, or was cut short
  recorded,   \* the session id in its node
  sessions, pending, temp_to_real,   \* the manager's maps
  lock,       \* who holds the manager's lock: a turn, "stop_all" or None
  process,    \* of each turn: the process it spawned
  current,    \* of each CLISession: the turn whose process it refers to
  cli_lock,   \* of each CLISession: the turn whose generator holds _cli_lock
  stop_all,   \* a global /stop: "idle", "cancelled" (the tasks), "stopping"
  to_stop,    \* the sessions it has still to stop
  voice,      \* PendingVoiceRegistry: the notes it holds
  told,       \* notes whose user was told that they are cancelled
  stop_alls   \* how often a global /stop was given

task == <<using, captured, temp, freed, missed>>
manager == <<sessions, pending, temp_to_real, lock>>
cli == <<process, current, cli_lock>>
global == <<stop_all, to_stop>>
chat == <<voice, told>>
vars == <<phase, task, recorded, manager, cli, global, chat, stop_alls>>

Init ==
  /\ phase = [t \in Turns |-> IF t \in Ended THEN "done"
                              ELSE IF t \in Notes THEN "sent" ELSE "queued"]
  /\ using = [t \in Turns |-> None]
  /\ captured = [t \in Turns |-> None] /\ temp = [t \in Turns |-> None]
  /\ freed = [t \in Turns |-> FALSE] /\ missed = [t \in Turns |-> FALSE]
  /\ recorded = [t \in Turns |-> IF t \in Ended THEN Real(t) ELSE None]
  /\ sessions = [i \in Ids |-> None] /\ pending = [i \in Ids |-> None]
  /\ temp_to_real = [i \in Ids |-> None] /\ lock = None
  /\ process = [t \in Turns |-> "none"]
  /\ current = [t \in Turns |-> None] /\ cli_lock = [t \in Turns |-> None]
  /\ stop_all = "idle" /\ to_stop = {}
  /\ voice = {} /\ told = {}
  /\ stop_alls = 0

Live(t) == phase[t] \notin {"sent", "transcribing", "dropped", "queued", "done"}
To(t, p) == phase' = [phase EXCEPT ![t] = p]

-----------------------------------------------------------------------------
(* Voice notes *)

\* The status message is sent: now the note can be cancelled.
RegisterNote(t) ==
  /\ phase[t] = "sent"
  /\ voice' = voice \cup {t} /\ To(t, "transcribing")
  /\ UNCHANGED <<task, recorded, manager, cli, global, told, stop_alls>>

\* Faulty variant: a transcript is handled whether or not its note is pending.
TranscribedAnyway(t) ==
  /\ phase[t] = "transcribing"
  /\ To(t, "queued") /\ voice' = voice \ {t}
  /\ UNCHANGED <<task, recorded, manager, cli, global, told, stop_alls>>

\* The transcript is there: it is handled like a text, unless the note was
\* cancelled. A failed transcription leaves the note registered.
Transcribed(t) ==
  /\ phase[t] = "transcribing"
  /\ \/ t \in voice /\ To(t, "queued") /\ voice' = voice \ {t}
     \/ t \notin voice /\ To(t, "dropped") /\ UNCHANGED voice
     \/ To(t, "dropped") /\ UNCHANGED voice
  /\ UNCHANGED <<task, recorded, manager, cli, global, told, stop_alls>>

\* /clear in reply to the note or to its status message, while neither is in a
\* tree (handle_clear_command).
ClearNote(t) ==
  /\ t \in voice
  /\ voice' = voice \ {t} /\ told' = told \cup {t}
  /\ UNCHANGED <<phase, task, recorded, manager, cli, global, stop_alls>>

-----------------------------------------------------------------------------
(* The manager *)

ParentSession(t) == IF Parent[t] = None THEN None ELSE recorded[Parent[t]]

Lookup(i) == IF temp_to_real[i] # None THEN temp_to_real[i] ELSE i
Found(i) == IF sessions[Lookup(i)] # None THEN sessions[Lookup(i)] ELSE pending[Lookup(i)]

\* A message is stopped or cleared before its task begins, or its parent fails
\* (cancel_tree, cancel_node, _propagate_error_to_children).
Drop(t) ==
  /\ phase[t] = "queued" /\ To(t, "dropped")
  /\ UNCHANGED <<task, recorded, manager, cli, global, chat, stop_alls>>

\* _process_node, get_or_create_session: a session that is there is shared, and
\* its id is taken for the turn's; otherwise a new one waits under the id it
\* resumes, or a fresh one. A turn waits for its tree (enqueue_and_start), and
\* so for its parent, which was enqueued before it; but the tree does not wait
\* for those that a global /stop has cancelled (cancel_tree).
Begin(t) ==
  /\ phase[t] = "queued" /\ lock = None
  /\ \A u \in Turns : Tree[u] = Tree[t] /\ Live(u) => freed[u]
  /\ Parent[t] # None => phase[Parent[t]] \in {"dropped", "done"} \/ freed[Parent[t]]
  /\ LET i == ParentSession(t) IN
     IF i # None /\ Found(i) # None
     THEN /\ using' = [using EXCEPT ![t] = Found(i)]
          /\ captured' = [captured EXCEPT ![t] = Lookup(i)]
          /\ UNCHANGED <<temp, pending>>
     ELSE LET new == IF i = None THEN New(t) ELSE i IN
          /\ using' = [using EXCEPT ![t] = t]
          /\ temp' = [temp EXCEPT ![t] = new]
          /\ pending' = [pending EXCEPT ![new] = t]
          /\ UNCHANGED captured
  /\ To(t, "locked")
  /\ UNCHANGED <<freed, missed, recorded, sessions, temp_to_real, lock, cli, global,
                 chat, stop_alls>>

\* What the task removes in the end.
Handle(t) == IF captured[t] # None THEN captured[t] ELSE temp[t]

\* The first line with a session id is read; a turn that shares a session
\* ignores it.
HasRealId(t) == phase[t] \in {"reading", "registering"} /\ temp[t] # None

\* Faulty variant: the waiting entry is kept.
RegisterKeepsPending(t) ==
  /\ HasRealId(t) /\ lock = None
  /\ IF pending[temp[t]] # None
     THEN /\ sessions' = [sessions EXCEPT ![Real(t)] = pending[temp[t]]]
          /\ temp_to_real' = [temp_to_real EXCEPT ![temp[t]] = Real(t)]
          /\ UNCHANGED pending
     ELSE UNCHANGED <<sessions, pending, temp_to_real>>
  /\ captured' = [captured EXCEPT ![t] = Real(t)] /\ temp' = [temp EXCEPT ![t] = None]
  /\ recorded' = [recorded EXCEPT ![t] = Real(t)]
  /\ To(t, "reading")
  /\ UNCHANGED <<using, freed, missed, lock, cli, global, chat, stop_alls>>

\* handle_session_info_event, register_real_session_id. A session that is no
\* longer there is not registered; the id is recorded all the same.
Register(t) ==
  /\ HasRealId(t) /\ lock = None
  /\ IF pending[temp[t]] # None
     THEN /\ sessions' = [sessions EXCEPT ![Real(t)] = pending[temp[t]]]
          /\ pending' = [pending EXCEPT ![temp[t]] = None]
          /\ temp_to_real' = [temp_to_real EXCEPT ![temp[t]] = Real(t)]
     ELSE UNCHANGED <<sessions, pending, temp_to_real>>
  /\ captured' = [captured EXCEPT ![t] = Real(t)] /\ temp' = [temp EXCEPT ![t] = None]
  /\ recorded' = [recorded EXCEPT ![t] = Real(t)]
  /\ To(t, "reading")
  /\ UNCHANGED <<using, freed, missed, lock, cli, global, chat, stop_alls>>

WaitToRegister(t) ==
  /\ HasRealId(t) /\ phase[t] = "reading" /\ lock # None
  /\ To(t, "registering")
  /\ UNCHANGED <<task, recorded, manager, cli, global, chat, stop_alls>>

Alive(s) == current[s] # None /\ process[current[s]] \in {"running", "terminated"}

\* CLISession.stop, up to its wait: the process is asked to end.
Terminated(s) ==
  IF Alive(s) THEN [process EXCEPT ![current[s]] = "terminated"] ELSE process

\* The mapping to an id, which goes with the id's registered session.
Unmapped(i) == [j \in Ids |-> IF temp_to_real[j] = i THEN None ELSE temp_to_real[j]]

\* It holds the lock while the process of a session it has taken out ends.
Killing == {"killing", "killing_pending"}

\* remove_session: its entry goes, then its process is stopped under the lock.
RemoveSession(t) ==
  /\ phase[t] \in {"unwinding", "ending", "removing"} /\ lock = None
  /\ LET i == Handle(t)
         s == IF pending[i] # None THEN pending[i] ELSE sessions[i]
     IN
     IF s = None
     THEN /\ To(t, "done") /\ missed' = [missed EXCEPT ![t] = TRUE]
          /\ UNCHANGED <<using, sessions, pending, temp_to_real, lock, process>>
     ELSE /\ IF pending[i] # None
             THEN pending' = [pending EXCEPT ![i] = None] /\ UNCHANGED sessions
             ELSE sessions' = [sessions EXCEPT ![i] = None] /\ UNCHANGED pending
          /\ process' = Terminated(s)
          /\ IF Alive(s)
             THEN /\ To(t, IF pending[i] # None THEN "killing_pending" ELSE "killing")
                  /\ using' = [using EXCEPT ![t] = s]
                  /\ lock' = t /\ UNCHANGED temp_to_real
             ELSE /\ To(t, "done")
                  /\ temp_to_real' = IF pending[i] # None THEN temp_to_real ELSE Unmapped(i)
                  /\ UNCHANGED <<using, lock>>
          /\ missed' = [missed EXCEPT ![t] = @ \/ s # using[t]]
  /\ UNCHANGED <<captured, temp, freed, recorded, current, cli_lock, global,
                 chat, stop_alls>>

\* The lock is taken: the task waits.
WaitToRemove(t) ==
  /\ phase[t] \in {"unwinding", "ending"} /\ lock # None
  /\ To(t, "removing")
  /\ UNCHANGED <<task, recorded, manager, cli, global, chat, stop_alls>>

Removed(t) ==
  /\ phase[t] \in Killing /\ ~Alive(using[t])
  /\ temp_to_real' = IF phase[t] = "killing" THEN Unmapped(Handle(t)) ELSE temp_to_real
  /\ lock' = None
  /\ To(t, "done")
  /\ UNCHANGED <<task, recorded, sessions, pending, cli, global, chat, stop_alls>>

-----------------------------------------------------------------------------
(* The session *)

\* start_task waits for the generator of another turn to end, and spawns.
Lock(t) ==
  /\ phase[t] = "locked" /\ cli_lock[using[t]] = None
  /\ cli_lock' = [cli_lock EXCEPT ![using[t]] = t]
  /\ To(t, "spawning")
  /\ UNCHANGED <<task, recorded, manager, process, current, global, chat, stop_alls>>

Spawn(t) ==
  /\ phase[t] = "spawning"
  /\ process' = [process EXCEPT ![t] = "running"]
  /\ current' = [current EXCEPT ![using[t]] = t]
  /\ To(t, "reading")
  /\ UNCHANGED <<task, recorded, manager, cli_lock, global, chat, stop_alls>>

\* A process ends by itself, when asked to, or is killed 5 s later.
ProcessEnds(t) ==
  /\ process[t] \in {"running", "terminated"}
  /\ process' = [process EXCEPT ![t] = "ended"]
  /\ UNCHANGED <<phase, task, recorded, manager, current, cli_lock, global, chat, stop_alls>>

\* Any other event: the status message is edited.
Event(t) ==
  /\ phase[t] = "reading"
  /\ To(t, "handling")
  /\ UNCHANGED <<task, recorded, manager, cli, global, chat, stop_alls>>

\* Faulty variant: a turn without a session of its own records the one it resumes.
HandledWithTemp(t) ==
  /\ phase[t] = "handling"
  /\ recorded' = [recorded EXCEPT ![t] = Handle(t)]
  /\ To(t, "reading")
  /\ UNCHANGED <<task, manager, cli, global, chat, stop_alls>>

\* process_parsed_cli_event: a complete event records the session.
Handled(t) ==
  /\ phase[t] = "handling"
  /\ \/ /\ recorded' = IF captured[t] = None THEN recorded
                       ELSE [recorded EXCEPT ![t] = captured[t]]
        /\ To(t, "reading")
     \/ UNCHANGED recorded /\ phase' \in {[phase EXCEPT ![t] = p] : p \in {"reading", "ending"}}
  /\ UNCHANGED <<task, manager, cli, global, chat, stop_alls>>

Unlocked(t) == [s \in Turns |-> IF cli_lock[s] = t THEN None ELSE cli_lock[s]]

\* The process has ended and its output is read.
EndOfOutput(t) ==
  /\ phase[t] = "reading" /\ process[t] = "ended"
  /\ cli_lock' = Unlocked(t)
  /\ To(t, "ending")
  /\ UNCHANGED <<task, recorded, manager, process, current, global, chat, stop_alls>>

\* The generator of a cancelled turn ends with its process.
Stopped(t) ==
  /\ phase[t] = "stopping" /\ process[t] = "ended"
  /\ cli_lock' = Unlocked(t)
  /\ To(t, "unwinding")
  /\ UNCHANGED <<task, recorded, manager, process, current, global, chat, stop_alls>>

\* A generator its turn has left at an event is closed once the task is done; it
\* waits for its process to end.
CloseGenerator(t) ==
  /\ phase[t] = "done" /\ \E s \in Turns : cli_lock[s] = t
  /\ process[t] = "ended"
  /\ cli_lock' = Unlocked(t)
  /\ UNCHANGED <<phase, task, recorded, manager, process, current, global, chat, stop_alls>>

-----------------------------------------------------------------------------
(* Cancellation *)

\* Where a cancellation takes a task: from its generator over the shielded stop
\* of the process, from an event to its except clause, from there to its finally,
\* and out of the finally for good.
AfterCancel(t) ==
  CASE phase[t] = "reading" -> "stopping"
    [] phase[t] \in {"locked", "spawning", "registering", "handling", "stopping"} -> "unwinding"
    [] phase[t] = "unwinding" -> "ending"
    [] phase[t] \in {"removing"} \cup Killing -> "done"
    [] OTHER -> phase[t]

\* The tasks that are cancelled at once.
Cancelled(ts) ==
  /\ phase' = [t \in Turns |-> IF t \in ts THEN AfterCancel(t) ELSE phase[t]]
  /\ process' = [t \in Turns |->
       IF t \in ts /\ phase[t] = "reading" /\ process[t] = "running"
       THEN "terminated" ELSE process[t]]
  /\ cli_lock' = [s \in Turns |->
       IF cli_lock[s] \in ts /\ phase[cli_lock[s]] \in {"spawning", "stopping"}
       THEN None ELSE cli_lock[s]]
  /\ missed' = [t \in Turns |-> missed[t] \/ (t \in ts /\ phase[t] \in {"removing"} \cup Killing)]
  /\ lock' = IF lock \in ts THEN None ELSE lock

\* /stop or /clear in reply to a turn.
Cancel(t) ==
  /\ Live(t) /\ t \in Stoppable
  /\ Cancelled({t})
  /\ UNCHANGED <<using, captured, temp, freed, recorded, sessions, pending, temp_to_real,
                 current, global, chat, stop_alls>>

\* stop_all_tasks: every task is cancelled and every tree free.
CancelAll ==
  /\ stop_alls < MaxStopAlls /\ stop_all = "idle"
  /\ stop_alls' = stop_alls + 1
  /\ stop_all' = "cancelled"
  /\ Cancelled({t \in Turns : Live(t)})
  /\ freed' = [t \in Turns |-> freed[t] \/ Live(t)]
  /\ UNCHANGED <<using, captured, temp, recorded, sessions, pending, temp_to_real,
                 current, to_stop, chat>>

\* CLISessionManager.stop_all: under the lock, one session after the other.
StopAll ==
  /\ stop_all = "cancelled" /\ lock = None
  /\ lock' = "stop_all"
  /\ stop_all' = "stopping"
  /\ to_stop' = ({sessions[i] : i \in Ids} \cup {pending[i] : i \in Ids}) \ {None}
  /\ UNCHANGED <<phase, task, recorded, sessions, pending, temp_to_real, cli, chat, stop_alls>>

StopOne(s) ==
  /\ lock = "stop_all" /\ s \in to_stop
  /\ IF Alive(s) /\ process[current[s]] = "running"
     THEN process' = Terminated(s) /\ UNCHANGED to_stop
     ELSE ~Alive(s) /\ to_stop' = to_stop \ {s} /\ UNCHANGED process
  /\ UNCHANGED <<phase, task, recorded, manager, current, cli_lock, stop_all, chat, stop_alls>>

AllStopped ==
  /\ lock = "stop_all" /\ to_stop = {}
  /\ sessions' = [i \in Ids |-> None] /\ pending' = [i \in Ids |-> None]
  /\ temp_to_real' = [i \in Ids |-> None]
  /\ lock' = None /\ stop_all' = "idle" /\ UNCHANGED to_stop
  /\ UNCHANGED <<phase, task, recorded, cli, chat, stop_alls>>

\* A task in its finally goes on to the manager's lock without an await.
Ending == \E t \in Turns : phase[t] = "ending"

Next ==
  \/ \E t \in Turns : RemoveSession(t) \/ WaitToRemove(t)
  \/ ~Ending /\ \E t \in Turns :
       \/ RegisterNote(t) \/ Transcribed(t) \/ ClearNote(t)
       \/ Drop(t) \/ Begin(t) \/ Register(t) \/ WaitToRegister(t) \/ Removed(t)
       \/ Lock(t) \/ Spawn(t) \/ ProcessEnds(t)
       \/ Event(t) \/ Handled(t) \/ EndOfOutput(t)
       \/ Stopped(t) \/ CloseGenerator(t) \/ Cancel(t) \/ StopOne(t)
  \/ ~Ending /\ (CancelAll \/ StopAll \/ AllStopped)

Spec == Init /\ [][Next]_vars

-----------------------------------------------------------------------------
(* Properties *)

\* A note whose user was told that it is cancelled never becomes a turn.
CancelledNoteUnheard == \A t \in told : phase[t] \in {"transcribing", "dropped"}

\* A turn's node never gets the session of another turn, but of one of its tree
\* that a global /stop has cancelled, beside which it may have begun, or whose
\* session was not removed; and then what that one would remove.
OwnSession ==
  \A t \in Turns :
    \/ recorded[t] \in {None, Real(t)}
    \/ \E u \in Turns \ {t} :
         /\ Tree[u] = Tree[t] /\ Handle(u) = recorded[t]
         /\ freed[u] \/ missed[u]

\* A turn leaves nothing behind: every entry of the manager will be removed by a
\* task that is still there, and a process runs only for such a task; but where
\* the removal was cut short by a second cancellation, or found no entry or the
\* session of another turn.
LeavesNothing ==
  /\ \A i \in Ids :
       sessions[i] # None \/ pending[i] # None =>
         \E t \in Turns : Handle(t) = i /\ (Live(t) \/ missed[t])
  /\ \A t \in Turns :
       process[t] = "running" => Live(t) \/ missed[t]
=============================================================================
