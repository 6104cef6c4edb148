----------------------------- MODULE TreeQueue -----------------------------
(***************************************************************************)
(* One conversation of the messaging bot: a tree of messages with its      *)
(* queue (messaging/trees), the asyncio task that processes each message   *)
(* (queue_manager.process_node around handler._process_node_impl) and the  *)
(* commands /stop and /clear (messaging/commands.py).                      *)
(*                                                                         *)
(* An action is what the event loop runs between two suspensions.  The     *)
(* tree's and the manager's locks are never held across one, so a handler  *)
(* that takes them is atomic; the awaits that do suspend (sending the      *)
(* status message, reading the CLI, killing it, removing the session,      *)
(* deleting messages) end an action.                                       *)
(***************************************************************************)
EXTENDS Naturals, FiniteSets

CONSTANTS
  Nodes,    \* the messages of the conversation (MessageNode.node_id)
  Root,     \* the first of them
  NoNode,   \* Python's None
  Ops       \* the commands users send in this run

Commands == {"stop_task", "stop_all", "clear_branch", "clear_all"}

ASSUME NodesAssumption == IsFiniteSet(Nodes)
ASSUME RootAssumption == Root \in Nodes
ASSUME NoNodeAssumption == NoNode \notin Nodes
ASSUME OpsAssumption == Ops \subseteq Commands

VARIABLES
  msg,           \* how far handle_message is with each message
  parent,        \* MessageNode.parent_id, resolved when the message arrives
  state,         \* MessageNode.state
  inTree,        \* the keys of MessageTree._nodes
  registered,    \* the message ids the current manager maps to this tree
  ticket,        \* MessageTree._queue: the arrival number of a queued node, or 0
  isProcessing,  \* MessageTree._is_processing
  currentNode,   \* MessageTree._current_node_id
  currentTask,   \* MessageTree._current_task: the node it was created for
  pc,            \* where the task of each node is suspended
  cancelling,    \* tasks with a Task.cancel() not delivered yet
  bound,         \* tasks whose local `tree` is not None
  captured,      \* tasks whose captured_session_id is set
  clearing,      \* the branch a /clear is deleting the messages of
  wiping,        \* a global /clear is deleting messages
  stopped        \* history: nodes a user command turned to ERROR

treeVars == <<state, inTree, registered>>
queueVars == <<ticket, isProcessing, currentNode, currentTask>>
taskVars == <<pc, cancelling, bound, captured>>
cmdVars == <<clearing, wiping>>
vars == <<msg, parent, treeVars, queueVars, taskVars, cmdVars, stopped>>

MessageState == {"PENDING", "IN_PROGRESS", "COMPLETED", "ERROR"}

\* none: no task; created: create_task called, body not entered; running:
\* reading CLI events; killing, draining: cancelled, waiting for the CLI to die
\* and then for its stderr; closing: in the finally, removing the session;
\* stillborn: cancelled before its first step, so that no finally runs.
TaskState == {"none", "created", "running", "killing", "draining", "closing",
              "done", "stillborn"}

Live(n) == pc[n] \in {"created", "running", "killing", "draining", "closing"}

Accepted == {n \in Nodes : msg[n] = "accepted"}

Queued == {n \in Nodes : ticket[n] # 0}

\* Faulty variant: the newest first (pop for popleft).
NewestIsHead(n) == n \in Queued /\ \A m \in Queued : ticket[m] <= ticket[n]

\* popleft: the queued node that arrived first.
IsHead(n) == n \in Queued /\ \A m \in Queued : ticket[n] <= ticket[m]

\* Faulty variant: the queue is read but nothing is taken out of it.
WithoutNone(S) == ticket

\* The queue without the nodes of S.
Without(S) == [n \in Nodes |-> IF n \in S THEN 0 ELSE ticket[n]]

\* The smallest set that holds n and the children, taken from `via`, of its
\* members: the loops over children_ids.
Reach(n, via) ==
  {m \in Nodes :
     \A S \in SUBSET Nodes :
        (n \in S /\ \A c \in via : parent[c] \in S => c \in S) => m \in S}

Descendants(n) == IF n \in inTree THEN Reach(n, inTree) ELSE {}

PendingChildren(n) ==
  Reach(n, {m \in inTree : state[m] = "PENDING"}) \ {n}

\* The messages resolve_parent_node_id finds: the manager maps them to the tree,
\* which still holds them.
Resolvable == registered \cap inTree

Init ==
  /\ msg = [n \in Nodes |-> "new"]
  /\ parent = [n \in Nodes |-> NoNode]
  /\ state = [n \in Nodes |-> "PENDING"]
  /\ inTree = {} /\ registered = {}
  /\ ticket = [n \in Nodes |-> 0] /\ isProcessing = FALSE
  /\ currentNode = NoNode /\ currentTask = NoNode
  /\ pc = [n \in Nodes |-> "none"]
  /\ cancelling = {} /\ bound = {} /\ captured = {}
  /\ clearing = NoNode /\ wiping = FALSE
  /\ stopped = {}

-----------------------------------------------------------------------------
(* Helpers of the queue processor *)

\* set_processing_state(n, True) and create_task, given the other tasks' pcs.
StartNode(n, pcs) ==
  /\ isProcessing' = TRUE
  /\ currentNode' = n
  /\ currentTask' = n
  /\ pc' = [pcs EXCEPT ![n] = "created"]

\* MessageTree.enqueue, at the end of the queue.
PutLast(n) == ticket' = [ticket EXCEPT ![n] = Cardinality(Accepted) + 1]

EnqueueAndStart(n) ==
  \/ /\ isProcessing
     /\ PutLast(n)
     /\ UNCHANGED <<isProcessing, currentNode, currentTask, pc>>
  \/ /\ ~isProcessing
     /\ StartNode(n, pc)
     /\ UNCHANGED ticket

\* _process_next, run by a finished task: pcs is pc with that task done.
ProcessNext(pcs) ==
  \/ /\ Queued = {}
     /\ isProcessing' = FALSE
     /\ currentNode' = NoNode
     /\ pc' = pcs
     /\ UNCHANGED <<ticket, currentTask>>
  \/ \E n \in Nodes :
       /\ IsHead(n)
       /\ ticket' = Without({n})
       /\ \/ n \in inTree /\ StartNode(n, pcs)
          \/ /\ n \notin inTree   \* a removed node: no task for it
             /\ isProcessing' = TRUE
             /\ currentNode' = n
             /\ pc' = pcs
             /\ UNCHANGED currentTask

\* cancel_current_task, when `wanted`: only the last task created, if not done.
CancelCurrent(wanted) ==
  cancelling' = cancelling \cup {n \in Nodes : wanted /\ n = currentTask /\ Live(n)}

\* The nodes of S turned to ERROR by a user command.
MarkStopped(S) ==
  /\ state' = [n \in Nodes |-> IF n \in S THEN "ERROR" ELSE state[n]]
  /\ stopped' = stopped \cup S

Cancellable(n) == state[n] \in {"PENDING", "IN_PROGRESS"}

-----------------------------------------------------------------------------
(* Messages (handler._handle_message_impl) *)

\* The parent is looked up, then the status message is sent (a suspension).
ReceiveMessage(n) ==
  /\ msg[n] = "new"
  /\ msg' = [msg EXCEPT ![n] = "sending"]
  /\ \/ /\ n = Root
        /\ UNCHANGED parent
     \/ /\ n # Root
        /\ \E p \in Resolvable : parent' = [parent EXCEPT ![n] = p]
  /\ UNCHANGED <<treeVars, queueVars, taskVars, cmdVars, stopped>>

\* add_node, and the manager's entry for it.
AddNode(n) ==
  /\ inTree' = inTree \cup {n}
  /\ registered' = registered \cup {n}

\* The status message is sent: create_tree or add_to_tree, then enqueue.
AcceptMessage(n) ==
  /\ msg[n] = "sending"
  /\ n = Root \/ parent[n] \in Resolvable
  /\ msg' = [msg EXCEPT ![n] = "accepted"]
  /\ AddNode(n)
  /\ EnqueueAndStart(n)
  /\ UNCHANGED <<parent, state, cancelling, bound, captured, cmdVars, stopped>>

\* add_to_tree raises: the parent went away while the status was being sent.
RejectMessage(n) ==
  /\ msg[n] = "sending"
  /\ n # Root /\ parent[n] \notin Resolvable
  /\ msg' = [msg EXCEPT ![n] = "dropped"]
  /\ UNCHANGED <<parent, treeVars, queueVars, taskVars, cmdVars, stopped>>

\* The status message could not be sent: nothing is added to the tree.
StatusNotSent(n) ==
  /\ msg[n] = "sending"
  /\ msg' = [msg EXCEPT ![n] = "dropped"]
  /\ UNCHANGED <<parent, treeVars, queueVars, taskVars, cmdVars, stopped>>

-----------------------------------------------------------------------------
(* The task of node n (process_node around _process_node_impl) *)

\* The manager still has a session a reply to parent[n] would resume.
MayReuseSession(n) ==
  /\ parent[n] \in captured
  /\ \E m \in Nodes : m # n /\ Live(m) /\ (m = parent[n] \/ parent[m] = parent[n])

\* update_state on the task's tree; nothing if the node was removed from it.
UpdateState(n, s) ==
  state' = IF n \in bound /\ n \in inTree THEN [state EXCEPT ![n] = s] ELSE state

BeginTask(n) ==
  /\ pc[n] = "created" /\ n \notin cancelling
  /\ state[n] # "ERROR"
  /\ pc' = [pc EXCEPT ![n] = "running"]
  /\ bound' = IF n \in registered THEN bound \cup {n} ELSE bound
  /\ state' = IF n \in registered THEN [state EXCEPT ![n] = "IN_PROGRESS"] ELSE state
  /\ \/ UNCHANGED captured
     \/ /\ MayReuseSession(n) /\ n \in registered
        /\ captured' = captured \cup {n}
  /\ UNCHANGED <<msg, parent, inTree, registered, queueVars, cancelling, cmdVars,
                 stopped>>

\* Faulty variant: the early return is outside the try, so no finally runs.
SkipWithoutHandover(n) ==
  /\ pc[n] = "created" /\ n \notin cancelling
  /\ state[n] = "ERROR"
  /\ pc' = [pc EXCEPT ![n] = "done"]
  /\ UNCHANGED <<msg, parent, treeVars, queueVars, cancelling, bound, captured,
                 cmdVars, stopped>>

\* A parent's error reached the node between dequeue and this first step, or
\* before it was dequeued.
SkipTask(n) ==
  /\ pc[n] = "created" /\ n \notin cancelling
  /\ state[n] = "ERROR"
  /\ ProcessNext([pc EXCEPT ![n] = "done"])
  /\ UNCHANGED <<msg, parent, treeVars, cancelling, bound, captured, cmdVars,
                 stopped>>

CanStep(n) == pc[n] = "running" /\ n \notin cancelling

SessionInfo(n) ==
  /\ CanStep(n)
  /\ n \notin captured
  /\ captured' = captured \cup {n}
  /\ UpdateState(n, "IN_PROGRESS")
  /\ UNCHANGED <<msg, parent, inTree, registered, queueVars, pc, cancelling, bound,
                 cmdVars, stopped>>

\* mark_node_error through the manager of the moment, with its pending
\* children when the task has a tree.
Propagated(n) ==
  IF n \in bound /\ n \in registered THEN {n} \cup PendingChildren(n) ELSE {}

WithError(n) ==
  [m \in Nodes |-> IF m \in Propagated(n) THEN "ERROR" ELSE state[m]]

MarkNodeError(n) == state' = WithError(n)

ErrorEvent(n) ==
  /\ CanStep(n)
  /\ MarkNodeError(n)
  /\ UNCHANGED <<msg, parent, inTree, registered, queueVars, taskVars, cmdVars,
                 stopped>>

\* The CLI exits with code 0: one "complete" event, then the finally.
ExitSuccess(n) ==
  /\ CanStep(n)
  /\ \/ n \in captured /\ UpdateState(n, "COMPLETED")
     \/ n \notin captured /\ UNCHANGED state
  /\ pc' = [pc EXCEPT ![n] = "closing"]
  /\ UNCHANGED <<msg, parent, inTree, registered, queueVars, cancelling, bound,
                 captured, cmdVars, stopped>>

\* Non-zero exit: an "error" event followed by a "complete" event.
ExitFailure(n) ==
  /\ CanStep(n)
  /\ \/ /\ n \in captured /\ n \in bound \cap inTree
        /\ state' = [WithError(n) EXCEPT ![n] = "COMPLETED"]
     \/ /\ ~(n \in captured /\ n \in bound \cap inTree)
        /\ state' = WithError(n)
  /\ pc' = [pc EXCEPT ![n] = "closing"]
  /\ UNCHANGED <<msg, parent, inTree, registered, queueVars, cancelling, bound,
                 captured, cmdVars, stopped>>

\* Any other exception in the handler, such as a CLI that cannot be launched.
TaskException(n) ==
  /\ CanStep(n)
  /\ MarkNodeError(n)
  /\ pc' = [pc EXCEPT ![n] = "closing"]
  /\ UNCHANGED <<msg, parent, inTree, registered, queueVars, cancelling, bound,
                 captured, cmdVars, stopped>>

\* Faulty variant: a stopped task ends without starting the next one.
FinishUnlessStopped(n) ==
  \/ n \notin stopped /\ ProcessNext([pc EXCEPT ![n] = "done"])
  \/ n \in stopped /\ pc' = [pc EXCEPT ![n] = "done"] /\ UNCHANGED queueVars

\* process_node's finally: clear_current_node, then _process_next.
FinishTask(n) == ProcessNext([pc EXCEPT ![n] = "done"])

CliKilled(n) ==
  /\ pc[n] = "killing" /\ n \notin cancelling
  /\ pc' = [pc EXCEPT ![n] = "draining"]
  /\ UNCHANGED <<msg, parent, treeVars, queueVars, cancelling, bound, captured,
                 cmdVars, stopped>>

\* The handler's `except CancelledError`: it marks the node and does not raise.
HandleCancelled(n) ==
  /\ UpdateState(n, "ERROR")
  /\ pc' = [pc EXCEPT ![n] = "closing"]
  /\ UNCHANGED queueVars

\* Faulty variant: the end of stderr never comes for a process that was stopped.
DrainedUnlessStopped(n) ==
  /\ pc[n] = "draining" /\ n \notin cancelling \cup stopped
  /\ HandleCancelled(n)
  /\ UNCHANGED <<msg, parent, inTree, registered, cancelling, bound, captured,
                 cmdVars, stopped>>

Drained(n) ==
  /\ pc[n] = "draining" /\ n \notin cancelling
  /\ HandleCancelled(n)
  /\ UNCHANGED <<msg, parent, inTree, registered, cancelling, bound, captured,
                 cmdVars, stopped>>

SessionRemoved(n) ==
  /\ pc[n] = "closing" /\ n \notin cancelling
  /\ FinishTask(n)
  /\ UNCHANGED <<msg, parent, treeVars, cancelling, bound, captured, cmdVars,
                 stopped>>

\* CancelledError is raised where the task is suspended: a running CLI is
\* killed first, unless the task was launching it or draining its stderr.
DeliverCancel(n) ==
  /\ n \in cancelling
  /\ cancelling' = cancelling \ {n}
  /\ \/ /\ pc[n] = "created"
        /\ pc' = [pc EXCEPT ![n] = "stillborn"]
        /\ UNCHANGED <<state, queueVars>>
     \/ /\ pc[n] = "running"
        /\ pc' = [pc EXCEPT ![n] = "killing"]
        /\ UNCHANGED <<state, queueVars>>
     \/ /\ pc[n] = "killing"
        /\ pc' = [pc EXCEPT ![n] = "draining"]
        /\ UNCHANGED <<state, queueVars>>
     \/ /\ pc[n] \in {"running", "draining"}
        /\ HandleCancelled(n)
     \/ /\ pc[n] = "closing"
        /\ FinishTask(n)
        /\ UNCHANGED state
  /\ UNCHANGED <<msg, parent, inTree, registered, bound, captured, cmdVars, stopped>>

-----------------------------------------------------------------------------
(* Commands *)

\* handle_stop_command, in reply to n or to its status message.
StopNames(n) == "stop_task" \in Ops /\ n \in Resolvable

\* Faulty variant: the running task is left alone.
StopWithoutCancel(n) ==
  /\ StopNames(n)
  /\ Cancellable(n)
  /\ ticket' = Without({n})
  /\ MarkStopped({n})
  /\ UNCHANGED <<msg, parent, inTree, registered, isProcessing, currentNode,
                 currentTask, taskVars, cmdVars>>

\* Faulty variant: cancel_node frees the tree, as cancel_tree does.
StopFreesTree(n) ==
  /\ StopNames(n)
  /\ Cancellable(n)
  /\ CancelCurrent(currentNode = n)
  /\ ticket' = Without({n})
  /\ isProcessing' = (isProcessing /\ currentNode # n)
  /\ MarkStopped({n})
  /\ UNCHANGED <<msg, parent, inTree, registered, currentNode, currentTask, pc, bound,
                 captured, cmdVars>>

\* Reply-scoped /stop: cancel_node.
StopTask(n) ==
  /\ StopNames(n)
  /\ Cancellable(n)
  /\ CancelCurrent(currentNode = n)
  /\ ticket' = Without({n})
  /\ MarkStopped({n})
  /\ UNCHANGED <<msg, parent, inTree, registered, isProcessing, currentNode,
                 currentTask, pc, bound, captured, cmdVars>>

\* Faulty variant: the queue is emptied, its nodes are not marked.
CancelTreeForgets ==
  /\ CancelCurrent(TRUE)
  /\ ticket' = Without(Nodes)
  /\ isProcessing' = FALSE
  /\ currentNode' = NoNode
  /\ MarkStopped({n \in inTree : state[n] = "IN_PROGRESS"})

\* cancel_tree, on a tree the manager knows.
CancelTree ==
  /\ CancelCurrent(TRUE)
  /\ ticket' = Without(Nodes)
  /\ isProcessing' = FALSE
  /\ currentNode' = NoNode
  /\ MarkStopped({n \in inTree : Cancellable(n) \/ n \in Queued})

StopAll ==
  /\ "stop_all" \in Ops
  /\ Root \in registered
  /\ CancelTree
  /\ UNCHANGED <<msg, parent, inTree, registered, currentTask, pc, bound, captured,
                 cmdVars>>

\* The nodes of the subtree cancel_branch acts on.
Branch(b) == {n \in Descendants(b) : Cancellable(n)}

\* Reply-scoped /clear, first half: cancel_branch, then the messages of the
\* branch are deleted (a suspension).  One such /clear at a time.
ClearBranch(b) ==
  /\ "clear_branch" \in Ops
  /\ clearing = NoNode
  /\ b \in Resolvable
  /\ CancelCurrent(currentNode \in Branch(b))
  /\ ticket' = Without(Branch(b) \ {currentNode})
  /\ MarkStopped(Branch(b))
  /\ clearing' = b
  /\ UNCHANGED <<msg, parent, inTree, registered, isProcessing, currentNode,
                 currentTask, pc, bound, captured, wiping>>

\* MessageTree.remove_branch, and the manager's entries.
CutBranch(b) ==
  /\ inTree' = inTree \ Descendants(b)
  /\ registered' = registered \ Descendants(b)

\* Second half: remove_branch, of the branch as it is now.
RemoveBranch ==
  /\ clearing # NoNode
  /\ clearing' = NoNode
  /\ \/ /\ clearing \notin registered
        /\ UNCHANGED <<treeVars, queueVars, cancelling, stopped>>
     \/ /\ clearing = Root /\ Root \in registered
        /\ CancelTree
        /\ registered' = {}
        /\ UNCHANGED <<inTree, currentTask>>
     \/ /\ clearing # Root /\ clearing \in registered
        /\ CutBranch(clearing)
        /\ UNCHANGED <<state, queueVars, cancelling, stopped>>
  /\ UNCHANGED <<msg, parent, pc, bound, captured, wiping>>

\* Global /clear, first half: stop_all_tasks, then messages are deleted.
ClearAll ==
  /\ "clear_all" \in Ops
  /\ ~wiping
  /\ Root \in registered
  /\ CancelTree
  /\ wiping' = TRUE
  /\ UNCHANGED <<msg, parent, inTree, registered, currentTask, pc, bound, captured,
                 clearing>>

\* Second half: the handler gets a fresh, empty TreeQueueManager.
ReplaceTreeQueue ==
  /\ wiping
  /\ wiping' = FALSE
  /\ registered' = {}
  /\ UNCHANGED <<msg, parent, state, inTree, queueVars, taskVars, clearing, stopped>>

-----------------------------------------------------------------------------
Message(n) ==
  ReceiveMessage(n) \/ AcceptMessage(n) \/ RejectMessage(n) \/ StatusNotSent(n)

\* What ends a wait on the CLI process.
CliExit(n) == ExitSuccess(n) \/ ExitFailure(n) \/ TaskException(n)

CliEvent(n) == SessionInfo(n) \/ ErrorEvent(n)

\* Steps of the event loop that nothing outside the process has to allow.
LoopStep(n) ==
  \/ BeginTask(n) \/ SkipTask(n)
  \/ CliKilled(n) \/ Drained(n) \/ SessionRemoved(n) \/ DeliverCancel(n)

Command ==
  \/ \E n \in Nodes : StopTask(n) \/ ClearBranch(n)
  \/ StopAll \/ RemoveBranch \/ ClearAll \/ ReplaceTreeQueue

Next ==
  \/ \E n \in Nodes : Message(n) \/ CliExit(n) \/ CliEvent(n) \/ LoopStep(n)
  \/ Command

Spec == Init /\ [][Next]_vars

\* The loop runs what is ready, and every CLI process ends some day.
Fairness == \A n \in Nodes : WF_vars(LoopStep(n)) /\ WF_vars(CliExit(n))

FairSpec == Spec /\ Fairness

-----------------------------------------------------------------------------
(* The queue as a first-in first-out server *)

\* The members of Q by increasing t.
Rank(n, Q, t) == Cardinality({m \in Q : t[m] <= t[n]})

InOrder(Q, t) == [i \in 1 .. Cardinality(Q) |-> CHOOSE n \in Q : Rank(n, Q, t) = i]

Server == INSTANCE FifoServer WITH
  Jobs <- Nodes, NoJob <- NoNode,
  arrived <- Accepted, waiting <- InOrder(Queued, ticket), serving <- currentNode,
  working <- {n \in Nodes : Live(n)}

-----------------------------------------------------------------------------
(* Properties *)

TypeOK ==
  /\ msg \in [Nodes -> {"new", "sending", "accepted", "dropped"}]
  /\ parent \in [Nodes -> Nodes \cup {NoNode}]
  /\ state \in [Nodes -> MessageState]
  /\ inTree \subseteq Nodes /\ registered \subseteq Nodes
  /\ ticket \in [Nodes -> Nat]
  /\ isProcessing \in BOOLEAN
  /\ currentNode \in Nodes \cup {NoNode} /\ currentTask \in Nodes \cup {NoNode}
  /\ pc \in [Nodes -> TaskState]
  /\ cancelling \subseteq Nodes /\ bound \subseteq Nodes /\ captured \subseteq Nodes
  /\ clearing \in Nodes \cup {NoNode} /\ wiping \in BOOLEAN
  /\ stopped \subseteq Nodes

\* No accepted message is forgotten by a stop, a clear or a parent's error: as
\* long as the manager knows a PENDING node, it is in the queue of a busy tree
\* or its task is about to start.
NothingForgotten ==
  \A n \in registered :
    state[n] = "PENDING" =>
      \/ n \in Queued /\ isProcessing
      \/ pc[n] = "created"

\* What makes NothingForgotten inductive.
Indexed ==        \* the manager's index lies within the tree
  /\ registered \subseteq inTree
  /\ \A n \in inTree : msg[n] = "accepted"

OnlyAccepted ==   \* what was queued or started had been accepted
  \A n \in Nodes : n \in Queued \/ pc[n] # "none" \/ n = currentNode => msg[n] = "accepted"

QueueWaits ==     \* a queued node has no task, and its tree is busy
  \A n \in Queued : pc[n] = "none" /\ isProcessing

CancelReaches ==  \* cancelling the task cancels the current node's
  /\ \A n \in cancelling : pc[n] # "none"
  /\ currentNode \in inTree => currentTask = currentNode

EarlyCancelMarked == \* cancelled before it started: the node is not PENDING
  \A n \in cancelling \cap registered : pc[n] = "created" => state[n] # "PENDING"

QueueInv ==
  /\ Indexed /\ OnlyAccepted /\ QueueWaits /\ CancelReaches /\ EarlyCancelMarked
  /\ NothingForgotten

\* A tree never runs two messages at once (handler.py: "Per-tree queue ensures
\* ordered processing"), the unwinding of a cancelled one included.
SingleRunner == \A m, n \in Nodes : Live(m) /\ Live(n) => m = n

\* The messages of a tree are processed in order (handler.py: "Per-tree queue
\* ensures ordered processing"): the CLI works on one of them at a time, where
\* one that is being cancelled does not count.
OneAtATime ==
  \A m, n \in Nodes :
    pc[m] = "running" /\ pc[n] = "running" /\ {m, n} \cap cancelling = {} => m = n

\* What makes SingleRunner inductive when no command resets the whole tree.
RootStays ==      \* a tree the manager knows has its root, which has no parent
  /\ parent[Root] = NoNode
  /\ registered # {} => Root \in registered /\ msg[Root] = "accepted"

OnlyTheLastTask == \* a live task is the last one created
  \A n \in Nodes : Live(n) => n = currentTask

GateShut ==       \* while a task lives no message can be let in beside it
  \A n \in Nodes :
    Live(n) => /\ msg[Root] = "accepted"
               /\ isProcessing \/ registered = {}

RunnerInv == RootStays /\ OnlyTheLastTask /\ GateShut

\* A busy tree has a live task for its current node, unless that task was
\* cancelled before its first step or the node was cleared while queued: no
\* other interleaving of /stop and /clear wedges a conversation.
BusyHasReason ==
  isProcessing =>
    \/ currentNode = currentTask /\ Live(currentTask)
    \/ currentNode = currentTask /\ pc[currentTask] = "stillborn"
    \/ currentNode \notin inTree

\* A reply starts only when its parent is settled, whatever was stopped in
\* between: the parent's session id, which the reply forks from, is final.
ForkAfterParent ==
  \A n \in Nodes \ {Root} :
    pc[n] # "none" =>
      \/ pc[parent[n]] \in {"done", "stillborn"}
      \/ state[parent[n]] = "ERROR" /\ pc[parent[n]] = "none"

\* A message the user stopped stays stopped: nothing its task, its parent or a
\* late CLI event does takes it out of ERROR, and a task that was still to run
\* for it has its cancellation under way.
StopHolds ==
  \A n \in stopped :
    /\ state[n] = "ERROR"
    /\ pc[n] \in {"created", "running"} => n \in cancelling

\* Without commands, the queue processor implements a first-in first-out server
\* that works on one message at a time, and every message it serves ends some day
\* (queue_manager.py: enqueue, _process_next, process_node).
FifoProgress == Server!FairSpec

\* A message is given to the CLI at most once.
NeverRestarted ==
  [][\A n \in Nodes : pc[n] # "none" => pc'[n] # "created" \/ pc[n] = "created"]_pc

\* An accepted message does not wait in the queue, nor run, for ever: a failed
\* parent, a skipped node or a stop-all that resets the tree's flags under an
\* unwinding task never strands the queue.  (A /stop of one message is to leave
\* this true of the others, see queue_manager.cancel_node.)
Served ==
  \A n \in Nodes : msg[n] = "accepted" ~> (n \notin Queued /\ ~Live(n))

\* A stopped message's task, and the CLI process it holds, is let go.
StopEnds == \A n \in Nodes : n \in stopped ~> ~Live(n)

\* COMPLETED means "Processing finished successfully" (data.py).
FailedNotCompleted == [][\A n \in Nodes : ExitFailure(n) => state'[n] # "COMPLETED"]_vars

\* IN_PROGRESS means "Currently being processed by Claude" (data.py).
InProgressIsRunning ==
  \A n \in Nodes : state[n] = "IN_PROGRESS" => Live(n)

\* After a global /clear has replaced the manager, "no more work is running"
\* (commands.py) in the tree it replaced.
ClearedIsQuiet ==
  \A n \in inTree \ registered : pc[n] \in {"created", "running"} => n \in cancelling
=============================================================================
