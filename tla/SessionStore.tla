---------------------------- MODULE SessionStore ----------------------------
(***************************************************************************)
(* The persistent session store (messaging/session.py) under its writers:  *)
(* the event loop, which accepts and clears messages of one conversation   *)
(* (handler.py, commands.py), the debounce timers, each in a thread of its *)
(* own, and the shutdown and start-up of the runtime (api/runtime.py).     *)
(*                                                                         *)
(* What is done under the store's lock is one action.  A write of the file *)
(* happens outside the lock: it starts in one action and replaces the file *)
(* (os.replace) in another.  The event loop waits for the writes it makes  *)
(* itself (clear_all, flush_pending_save); the timer threads do not wait   *)
(* for each other.                                                         *)
(***************************************************************************)
EXTENDS Naturals, FiniteSets

CONSTANTS
  Messages,     \* node ids of the conversation
  Root,         \* the first of them
  Writers,      \* timer threads that may be writing the file at the same time
  Nothing,      \* not a snapshot
  MaxFaults     \* bound: ends of the process and failed writes, together

Snapshots == [tree : SUBSET Messages, mapped : SUBSET Messages]

ASSUME MessagesAssumption == IsFiniteSet(Messages) /\ Root \in Messages
ASSUME WritersAssumption == IsFiniteSet(Writers) /\ Nothing \notin Snapshots
ASSUME BoundsAssumption == MaxFaults \in Nat

VARIABLES
  live,       \* the nodes of the tree in memory (TreeQueueManager)
  tree,       \* the nodes of the tree in _trees, {} without one
  mapped,     \* the keys of _node_to_tree
  disk,       \* the file: a tree and a mapping
  dirty,      \* _dirty
  slot,       \* _save_timer: none, a timer that waits, or one that has fired
  loose,      \* timers that wait and that _save_timer no longer refers to
  firing,     \* timers that have fired and wait for the lock
  writes,     \* the snapshot each timer thread is writing
  loop,       \* what the event loop is in the middle of
  up,         \* the process runs
  used,       \* history: the messages accepted so far
  removed,    \* history: the messages taken out by a /clear
  landed,     \* history: the messages whose tree has been in the file
  erased,     \* history: those of a global /clear that has been written
  failures, restarts  \* history: writes that failed, ends of the process

dataVars == <<live, tree, mapped>>
timerVars == <<slot, loose, firing>>
histVars == <<used, removed, landed, erased, failures, restarts>>
storeVars == <<dataVars, disk, dirty, timerVars, writes, loop, up, histVars>>

Snapshot == [tree |-> tree, mapped |-> mapped]

\* idle; saving: nodes are registered or unregistered, save_tree comes next;
\* dropping: remove_tree comes next; clearing, flushing: writing the file.
LoopStates == {"idle", "saving", "dropping", "clearing", "flushing"}

StoreInit ==
  /\ live = {} /\ tree = {} /\ mapped = {}
  /\ disk = Snapshot
  /\ dirty = FALSE
  /\ slot = "none" /\ loose = 0 /\ firing = 0
  /\ writes = [w \in Writers |-> Nothing]
  /\ loop = "idle" /\ up = TRUE
  /\ used = {} /\ removed = {} /\ landed = {} /\ erased = {}
  /\ failures = 0 /\ restarts = 0

-----------------------------------------------------------------------------
(* Debounced saving *)

\* _schedule_save: cancel the timer in the slot, if it still waits; a new one.
Schedule ==
  /\ dirty' = TRUE
  /\ slot' = "armed"
  /\ UNCHANGED <<loose, firing>>

TimerFires ==
  /\ up
  /\ \/ slot = "armed" /\ slot' = "fired" /\ UNCHANGED loose
     \/ loose > 0 /\ loose' = loose - 1 /\ UNCHANGED slot
  /\ firing' = firing + 1
  /\ UNCHANGED <<dataVars, disk, dirty, writes, loop, up, histVars>>

\* The slot is emptied without cancelling a timer set since this one fired.
EmptySlot ==
  /\ slot' = "none"
  /\ loose' = IF slot = "armed" THEN loose + 1 ELSE loose

\* _save_from_timer, under the lock: snapshot if dirty.
SaveFromTimer ==
  /\ up /\ firing > 0
  /\ firing' = firing - 1
  /\ EmptySlot
  /\ \/ ~dirty /\ UNCHANGED <<dirty, writes>>
     \/ /\ dirty /\ dirty' = FALSE
        /\ \E w \in Writers :
             /\ writes[w] = Nothing
             /\ writes' = [writes EXCEPT ![w] = Snapshot]
  /\ UNCHANGED <<dataVars, disk, loop, up, histVars>>

\* os.replace puts s in the file.
Replace(s) ==
  /\ disk' = s
  /\ landed' = landed \cup s.tree
  /\ UNCHANGED failures

\* Faulty variant: the file is opened for writing in place, so that a write that
\* fails leaves a part of it.
WriteFailsInPlace(s) ==
  /\ failures + restarts < MaxFaults
  /\ failures' = failures + 1
  /\ disk' = [s EXCEPT !.mapped = {}]
  /\ dirty' = TRUE
  /\ UNCHANGED landed

\* _write_data raises: the old file stays, the store is dirty again, and no timer
\* is set.
WriteFails(s) ==
  /\ failures + restarts < MaxFaults
  /\ failures' = failures + 1
  /\ dirty' = TRUE
  /\ UNCHANGED <<disk, landed>>

\* Faulty variant: dirty is reset once the file is written.
TimerWritesThenClean(w) ==
  /\ up /\ writes[w] # Nothing
  /\ \/ Replace(writes[w]) /\ dirty' = FALSE
     \/ WriteFails(writes[w])
  /\ writes' = [writes EXCEPT ![w] = Nothing]
  /\ UNCHANGED <<dataVars, timerVars, loop, up, used, removed, erased, restarts>>

\* The rest of _save_from_timer, outside the lock.
TimerWrites(w) ==
  /\ up /\ writes[w] # Nothing
  /\ \/ Replace(writes[w]) /\ UNCHANGED dirty
     \/ WriteFails(writes[w])
  /\ writes' = [writes EXCEPT ![w] = Nothing]
  /\ UNCHANGED <<dataVars, timerVars, loop, up, used, removed, erased, restarts>>

\* Faulty variant: the timer is cancelled, the store stays dirty.
FlushSaveStaysDirty ==
  /\ slot' = "none"
  /\ UNCHANGED <<dirty, loose, firing>>

\* _flush_save: the timer in the slot is cancelled, if it still waits.
FlushSave ==
  /\ dirty' = FALSE
  /\ slot' = "none"
  /\ UNCHANGED <<loose, firing>>

\* The event loop's own write of the snapshot it took.
LoopWrites ==
  \/ Replace(Snapshot) /\ UNCHANGED dirty
  \/ WriteFails(Snapshot)

-----------------------------------------------------------------------------
(* The event loop *)

\* A message joins the tree and is registered; save_tree comes next.
Accept(m) ==
  /\ up /\ loop = "idle"
  /\ m \notin used
  /\ m = Root \/ Root \in live
  /\ used' = used \cup {m}
  /\ live' = live \cup {m}
  /\ mapped' = mapped \cup {m}
  /\ Schedule
  /\ loop' = "saving"
  /\ UNCHANGED <<tree, disk, writes, up, removed, landed, erased, failures, restarts>>

\* save_tree(root_id, tree.to_dict()).
SaveTree ==
  /\ up /\ loop = "saving"
  /\ tree' = live
  /\ mapped' = mapped \cup live
  /\ Schedule
  /\ loop' = "idle"
  /\ UNCHANGED <<live, disk, writes, up, histVars>>

\* A node of the tree changes state and save_tree follows (node_event_pipeline.py,
\* handler.py); the guard on timers is a bound.
SaveProgress ==
  /\ up /\ loop = "idle"
  /\ live # {}
  /\ loose = 0 /\ firing = 0
  /\ tree' = live
  /\ mapped' = mapped \cup live
  /\ Schedule
  /\ UNCHANGED <<live, disk, writes, loop, up, histVars>>

\* Reply-scoped /clear of a reply: the branch S leaves the tree and the mapping.
ClearReplies(S) ==
  /\ up /\ loop = "idle"
  /\ S # {} /\ S \subseteq live \ {Root}
  /\ live' = live \ S
  /\ mapped' = mapped \ S
  /\ removed' = removed \cup S
  /\ Schedule
  /\ loop' = "saving"
  /\ UNCHANGED <<tree, disk, writes, up, used, landed, erased, failures, restarts>>

\* Reply-scoped /clear of the root: the tree leaves the manager.
ClearRoot ==
  /\ up /\ loop = "idle"
  /\ Root \in live
  /\ live' = {}
  /\ mapped' = mapped \ live
  /\ removed' = removed \cup live
  /\ Schedule
  /\ loop' = "dropping"
  /\ UNCHANGED <<tree, disk, writes, up, used, landed, erased, failures, restarts>>

\* remove_tree.
RemoveTree ==
  /\ up /\ loop = "dropping"
  /\ tree' = {}
  /\ mapped' = mapped \ tree
  /\ \/ tree # {} /\ Schedule
     \/ tree = {} /\ UNCHANGED <<dirty, timerVars>>
  /\ loop' = "idle"
  /\ UNCHANGED <<live, disk, writes, up, histVars>>

\* clear_all of a global /clear, up to its write.
ClearAll ==
  /\ up /\ loop = "idle"
  /\ Root \in used
  /\ tree' = {} /\ mapped' = {}
  /\ FlushSave
  /\ loop' = "clearing"
  /\ UNCHANGED <<live, disk, writes, up, histVars>>

\* The write of clear_all, then the handler's fresh TreeQueueManager.
ClearAllWritten ==
  /\ up /\ loop = "clearing"
  /\ LoopWrites
  /\ live' = {}
  /\ removed' = removed \cup used
  /\ erased' = IF failures' = failures THEN used ELSE erased
  /\ loop' = "idle"
  /\ UNCHANGED <<tree, mapped, timerVars, writes, up, used, restarts>>

\* runtime.shutdown: flush_pending_save, up to its write.
Flush ==
  /\ up /\ loop = "idle"
  /\ FlushSave
  /\ loop' = "flushing"
  /\ UNCHANGED <<dataVars, disk, writes, up, histVars>>

\* The platform is stopped only after the write: messages may still come.
Flushed ==
  /\ up /\ loop = "flushing"
  /\ LoopWrites
  /\ loop' = "idle"
  /\ UNCHANGED <<dataVars, timerVars, writes, up, used, removed, erased, restarts>>

\* The process ends, in good order or not: what is in memory is gone.
Down ==
  /\ up /\ failures + restarts < MaxFaults
  /\ up' = FALSE
  /\ restarts' = restarts + 1
  /\ live' = {} /\ tree' = {} /\ mapped' = {}
  /\ dirty' = FALSE
  /\ slot' = "none" /\ loose' = 0 /\ firing' = 0
  /\ writes' = [w \in Writers |-> Nothing]
  /\ loop' = "idle"
  /\ UNCHANGED <<disk, used, removed, landed, erased, failures>>

\* _load: what the file holds.
Loaded == tree' = disk.tree /\ mapped' = disk.mapped

\* _restore_tree_state: nodes that were waiting or running become ERROR, and the
\* store is told (sync_from_tree_data).
Restored ==
  /\ live' = disk.tree
  /\ \/ UNCHANGED <<dirty, timerVars>>
     \/ disk.tree # {} /\ Schedule

\* _start_message_handler
Up ==
  /\ ~up
  /\ up' = TRUE
  /\ Loaded
  /\ Restored
  /\ UNCHANGED <<disk, writes, loop, histVars>>

-----------------------------------------------------------------------------
TimerThread == TimerFires \/ SaveFromTimer \/ \E w \in Writers : TimerWrites(w)

LoopContinues == SaveTree \/ RemoveTree \/ ClearAllWritten \/ Flushed

StoreNext ==
  \/ TimerThread \/ LoopContinues
  \/ \E m \in Messages : Accept(m)
  \/ \E S \in SUBSET Messages : ClearReplies(S)
  \/ SaveProgress \/ ClearRoot \/ ClearAll \/ Flush \/ Down \/ Up

StoreSpec == StoreInit /\ [][StoreNext]_storeVars

\* Timers expire, threads get the lock, writes end, handlers go on.
Fairness ==
  /\ WF_storeVars(TimerFires) /\ WF_storeVars(SaveFromTimer)
  /\ WF_storeVars(\E w \in Writers : TimerWrites(w))
  /\ WF_storeVars(LoopContinues)

FairSpec == StoreSpec /\ Fairness

-----------------------------------------------------------------------------
(* Properties *)

StoreTypeOK ==
  /\ live \subseteq Messages /\ tree \subseteq Messages /\ mapped \subseteq Messages
  /\ disk \in Snapshots /\ writes \in [Writers -> Snapshots \cup {Nothing}]
  /\ dirty \in BOOLEAN /\ up \in BOOLEAN
  /\ slot \in {"none", "armed", "fired"}
  /\ loose \in Nat /\ firing \in Nat
  /\ loop \in LoopStates
  /\ used \subseteq Messages /\ removed \subseteq used
  /\ landed \subseteq used /\ erased \subseteq used
  /\ failures \in Nat /\ restarts \in Nat

\* A change is never left without a timer that will save it, however timers are
\* cancelled, fire late or lose their slot; only a failed write leaves one so.
DirtyHasTimer ==
  dirty => slot = "armed" \/ loose > 0 \/ firing > 0 \/ failures > 0

\* Whatever instant the process ends at, the tree it restores is indexed: a
\* reply to any of its nodes finds it, but for nodes a /clear was removing.
RestoredIsIndexed == disk.tree \ disk.mapped \subseteq removed

\* A message that joined the tree reaches the file some day, unless it is cleared
\* or the process ends first, or a write fails.
SavedReachesDisk ==
  \A m \in Messages :
    m \in live ~> (m \in landed \/ m \notin live \/ failures > 0)

\* "Clear all stored sessions/trees/mappings and persist an empty store": what a
\* global /clear has erased from the file does not come back.
ErasedStaysErased == erased \cap disk.tree = {}
=============================================================================
