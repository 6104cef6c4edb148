-------------------------- MODULE TreeQueueProofs --------------------------
(* Theorems about TreeQueue for every set of messages and commands. *)
EXTENDS TreeQueue, FiniteSetTheorems, SequenceTheorems, TLAPS

USE NodesAssumption, RootAssumption, NoNodeAssumption, OpsAssumption

\* The next arrival number is a natural number.
LEMMA ArrivalNumber == Cardinality(Accepted) + 1 \in Nat \ {0}
<1>1. IsFiniteSet(Accepted)
  BY FS_Subset DEF Accepted
<1>2. Cardinality(Accepted) \in Nat
  BY <1>1, FS_CardinalityType
<1> QED
  BY <1>2

-----------------------------------------------------------------------------
(* Type correctness *)

\* What starting the next node does to the types of what it touches.
LEMMA ProcessNextType ==
  ASSUME TypeOK, NEW pcs \in [Nodes -> TaskState], ProcessNext(pcs)
  PROVE  /\ ticket' \in [Nodes -> Nat] /\ isProcessing' \in BOOLEAN
         /\ currentNode' \in Nodes \cup {NoNode}
         /\ currentTask' \in Nodes \cup {NoNode}
         /\ pc' \in [Nodes -> TaskState]
<1>1. isProcessing' \in BOOLEAN
  BY Zenon DEF ProcessNext, StartNode
<1>2. CASE Queued = {} /\ UNCHANGED ticket
  BY <1>1, <1>2 DEF TypeOK, ProcessNext, StartNode, IsHead
<1>3. CASE \E n \in Nodes : ticket' = Without({n})
  BY <1>1, <1>3 DEF TypeOK, ProcessNext, StartNode, Without, TaskState
<1> QED
  BY <1>2, <1>3 DEF ProcessNext

LEMMA EnqueueType ==
  ASSUME TypeOK, NEW n \in Nodes, EnqueueAndStart(n)
  PROVE  /\ ticket' \in [Nodes -> Nat] /\ isProcessing' \in BOOLEAN
         /\ currentNode' \in Nodes \cup {NoNode}
         /\ currentTask' \in Nodes \cup {NoNode}
         /\ pc' \in [Nodes -> TaskState]
<1>1. isProcessing' \in BOOLEAN
  BY Zenon DEF EnqueueAndStart, StartNode, TypeOK, PutLast
<1>2. CASE isProcessing /\ UNCHANGED <<currentNode, currentTask, pc>>
  BY <1>1, <1>2, ArrivalNumber DEF TypeOK, EnqueueAndStart, StartNode, TaskState,
    PutLast
<1>3. CASE StartNode(n, pc) /\ UNCHANGED ticket
  BY <1>1, <1>3 DEF TypeOK, StartNode, TaskState
<1> QED
  BY <1>2, <1>3 DEF EnqueueAndStart, PutLast

\* What cancelling the whole tree does to the types of what it touches.
LEMMA CancelTreeType ==
  ASSUME TypeOK, CancelTree
  PROVE  /\ ticket' \in [Nodes -> Nat] /\ isProcessing' \in BOOLEAN
         /\ currentNode' \in Nodes \cup {NoNode}
         /\ cancelling' \subseteq Nodes
         /\ state' \in [Nodes -> MessageState]
         /\ stopped' \subseteq Nodes
  BY DEF TypeOK, CancelTree, CancelCurrent, MarkStopped, Without, MessageState

LEMMA TypeStep == TypeOK /\ [Next]_vars => TypeOK'
<1> SUFFICES ASSUME TypeOK, [Next]_vars PROVE TypeOK'
  OBVIOUS
<1> USE DEF treeVars, queueVars, taskVars, cmdVars
<1>1. ASSUME NEW n \in Nodes, Message(n) PROVE TypeOK'
  <2>1. CASE ReceiveMessage(n)
    BY <2>1 DEF TypeOK, ReceiveMessage, Resolvable
  <2>2. CASE AcceptMessage(n)
    <3>1. EnqueueAndStart(n)
      BY <2>2 DEF AcceptMessage, Resolvable, AddNode
    <3> QED
      BY <2>2, <3>1, EnqueueType DEF TypeOK, AcceptMessage, Resolvable, AddNode
  <2>3. CASE RejectMessage(n)
    BY <2>3 DEF TypeOK, RejectMessage, Resolvable
  <2>4. CASE StatusNotSent(n)
    BY <2>4 DEF TypeOK, StatusNotSent
  <2> QED
    BY <1>1, <2>1, <2>2, <2>3, <2>4 DEF Message
<1>2. ASSUME NEW n \in Nodes, CliExit(n) \/ CliEvent(n) PROVE TypeOK'
  <2>1. CASE ExitSuccess(n)
    BY <2>1 DEF TypeOK, ExitSuccess, UpdateState, MessageState, TaskState
  <2>2. CASE ExitFailure(n)
    <3>1. /\ WithError(n) \in [Nodes -> MessageState]
          /\ [WithError(n) EXCEPT ![n] = "COMPLETED"] \in [Nodes -> MessageState]
          /\ [pc EXCEPT ![n] = "closing"] \in [Nodes -> TaskState]
      BY DEF TypeOK, WithError, MessageState, TaskState
    <3> QED BY <2>2, <3>1 DEF TypeOK, ExitFailure
  <2>3. CASE TaskException(n)
    BY <2>3 DEF TypeOK, TaskException, MarkNodeError, WithError, MessageState, TaskState
  <2>4. CASE SessionInfo(n)
    BY <2>4 DEF TypeOK, SessionInfo, UpdateState, MessageState, TaskState
  <2>5. CASE ErrorEvent(n)
    BY <2>5 DEF TypeOK, ErrorEvent, MarkNodeError, WithError, MessageState
  <2> QED
    BY <1>2, <2>1, <2>2, <2>3, <2>4, <2>5 DEF CliExit, CliEvent
<1>3. ASSUME NEW n \in Nodes, LoopStep(n) PROVE TypeOK'
  <2>0. [pc EXCEPT ![n] = "done"] \in [Nodes -> TaskState]
    BY DEF TypeOK, TaskState
  <2>1. CASE BeginTask(n)
    BY <2>1 DEF TypeOK, BeginTask, MessageState, TaskState
  <2>2. CASE SkipTask(n)
    BY <2>2, <2>0, ProcessNextType DEF TypeOK, SkipTask
  <2>3. CASE CliKilled(n)
    BY <2>3 DEF TypeOK, CliKilled, TaskState
  <2>4. CASE Drained(n)
    BY <2>4 DEF TypeOK, Drained, HandleCancelled, UpdateState, MessageState, TaskState
  <2>5. CASE SessionRemoved(n)
    BY <2>5, <2>0, ProcessNextType DEF TypeOK, SessionRemoved, FinishTask
  <2>6. CASE DeliverCancel(n)
    <3>1. CASE pc[n] = "closing" /\ FinishTask(n) /\ UNCHANGED state
      BY <2>6, <3>1, <2>0, ProcessNextType DEF TypeOK, DeliverCancel, FinishTask
    <3>2. CASE HandleCancelled(n)
      BY <2>6, <3>2 DEF TypeOK, DeliverCancel, HandleCancelled, UpdateState,
        MessageState, TaskState
    <3>3. CASE UNCHANGED <<state, queueVars>> /\ pc[n] # "closing"
      BY <2>6, <3>3 DEF TypeOK, DeliverCancel, HandleCancelled, TaskState
    <3> QED
      BY <2>6, <3>1, <3>2, <3>3 DEF DeliverCancel
  <2> QED
    BY <1>3, <2>1, <2>2, <2>3, <2>4, <2>5, <2>6 DEF LoopStep
<1>4. ASSUME Command PROVE TypeOK'
  <2>1. CASE \E n \in Nodes : StopTask(n)
    BY <2>1 DEF TypeOK, StopTask, CancelCurrent, MarkStopped, Without, MessageState,
      StopNames, Resolvable
  <2>2. CASE \E n \in Nodes : ClearBranch(n)
    <3> PICK b \in Nodes : ClearBranch(b)
      BY <2>2
    <3>1. cancelling' \subseteq Nodes
      BY DEF TypeOK, ClearBranch, CancelCurrent, Resolvable
    <3>2. state' \in [Nodes -> MessageState]
      BY DEF TypeOK, ClearBranch, MarkStopped, MessageState, Resolvable
    <3>3. stopped' \subseteq Nodes
      BY DEF TypeOK, ClearBranch, MarkStopped, Branch, Descendants, Reach,
        Resolvable
    <3>4. ticket' \in [Nodes -> Nat]
      BY DEF TypeOK, ClearBranch, Without, Resolvable
    <3> QED
      BY <3>1, <3>2, <3>3, <3>4 DEF TypeOK, ClearBranch, Resolvable
  <2>3. CASE StopAll
    BY <2>3, CancelTreeType DEF TypeOK, StopAll
  <2>4. CASE RemoveBranch
    <3>1. CASE CancelTree /\ registered' = {} /\ UNCHANGED <<inTree, currentTask>>
      BY <2>4, <3>1, CancelTreeType DEF TypeOK, RemoveBranch, CutBranch
    <3>2. CASE UNCHANGED <<state, queueVars, cancelling, stopped>>
      BY <2>4, <3>2 DEF TypeOK, RemoveBranch, CutBranch
    <3> QED
      BY <2>4, <3>1, <3>2 DEF RemoveBranch, CutBranch
  <2>5. CASE ClearAll
    BY <2>5, CancelTreeType DEF TypeOK, ClearAll
  <2>6. CASE ReplaceTreeQueue
    BY <2>6 DEF TypeOK, ReplaceTreeQueue
  <2> QED
    BY <1>4, <2>1, <2>2, <2>3, <2>4, <2>5, <2>6 DEF Command
<1>5. CASE UNCHANGED vars
  BY <1>5 DEF TypeOK, vars
<1> QED
  BY <1>1, <1>2, <1>3, <1>4, <1>5 DEF Next

LEMMA TypeInit == Init => TypeOK
<1> SUFFICES ASSUME Init PROVE TypeOK
  OBVIOUS
<1>1. isProcessing \in BOOLEAN /\ wiping \in BOOLEAN
  BY Zenon DEF Init
<1>2. ticket \in [Nodes -> Nat]
  BY DEF Init
<1> QED
  BY <1>1, <1>2, SMT DEF Init, TypeOK, MessageState, TaskState

\* TypeOK holds in every conversation, whatever the commands.
THEOREM TypeCorrect == Spec => []TypeOK
  BY TypeInit, TypeStep, PTL DEF Spec

-----------------------------------------------------------------------------
(* No accepted message is forgotten *)

\* A task that ends hands over to the head of the queue without losing a node.
LEMMA ProcessNextInv ==
  ASSUME TypeOK, QueueInv, NEW t \in Nodes, pc[t] # "none",
         t \in registered /\ pc[t] = "created" => state[t] # "PENDING",
         ProcessNext([pc EXCEPT ![t] = "done"]),
         UNCHANGED <<msg, inTree, registered, state>>,
         cancelling' \subseteq cancelling
  PROVE  QueueInv'
<1> USE DEF TypeOK, QueueInv, Indexed, OnlyAccepted, QueueWaits, CancelReaches,
        EarlyCancelMarked, NothingForgotten, Queued
<1>1. CASE Queued = {} /\ isProcessing' = FALSE /\ currentNode' = NoNode
             /\ pc' = [pc EXCEPT ![t] = "done"] /\ UNCHANGED <<ticket, currentTask>>
  BY <1>1
<1>2. ASSUME NEW n \in Nodes, IsHead(n), ticket' = Without({n}), isProcessing' = TRUE,
             currentNode' = n,
             \/ n \in inTree /\ StartNode(n, [pc EXCEPT ![t] = "done"])
             \/ /\ n \notin inTree /\ pc' = [pc EXCEPT ![t] = "done"]
                /\ UNCHANGED currentTask
      PROVE  QueueInv'
  <2>1. n \in Queued /\ n # t /\ pc[n] = "none"
    BY <1>2 DEF IsHead
  <2>2. CASE n \in inTree /\ StartNode(n, [pc EXCEPT ![t] = "done"])
    BY <1>2, <2>1, <2>2 DEF Without, StartNode
  <2>3. CASE n \notin inTree /\ pc' = [pc EXCEPT ![t] = "done"] /\ UNCHANGED currentTask
    BY <1>2, <2>1, <2>3 DEF Without
  <2> QED
    BY <1>2, <2>2, <2>3
<1> QED
  BY <1>1, <1>2, Zenon DEF ProcessNext, StartNode

\* cancel_tree leaves no pending node behind.
LEMMA CancelTreeInv ==
  ASSUME TypeOK, QueueInv, CancelTree, UNCHANGED <<msg, inTree, pc, currentTask>>,
         registered' \subseteq registered
  PROVE  QueueInv'
  BY DEF TypeOK, QueueInv, Indexed, OnlyAccepted, QueueWaits, CancelReaches,
     EarlyCancelMarked, NothingForgotten, Queued, CancelTree, CancelCurrent, MarkStopped,
     Without, Live, Cancellable

\* The subtree of a node consists of nodes of the tree.
LEMMA DescendantsInTree ==
  ASSUME TypeOK, NEW b \in Nodes
  PROVE  Descendants(b) \subseteq inTree
<1> SUFFICES ASSUME NEW m \in Descendants(b) PROVE m \in inTree
  OBVIOUS
<1>1. b \in inTree /\ m \in Reach(b, inTree)
  BY DEF Descendants
<1>2. inTree \in SUBSET Nodes
  BY DEF TypeOK
<1> QED
  BY <1>1, <1>2, Zenon DEF Reach

\* What the CLI does to a node: it reads on or ends, and besides its own state only
\* ERROR is given to others.
LEMMA CliEffect ==
  ASSUME TypeOK, NEW n \in Nodes, CliExit(n) \/ CliEvent(n)
  PROVE  /\ pc[n] = "running" /\ n \notin cancelling
         /\ pc' \in {pc, [pc EXCEPT ![n] = "closing"]}
         /\ UNCHANGED <<msg, parent, inTree, registered, queueVars, cancelling, cmdVars,
                        stopped>>
         /\ \A m \in Nodes : m # n => state'[m] \in {state[m], "ERROR"}
         /\ state'[n] = "PENDING" => state[n] = "PENDING"
<1>1. state \in [Nodes -> MessageState]
  BY DEF TypeOK
<1>2. \A m \in Nodes : WithError(n)[m] \in {state[m], "ERROR"}
  BY DEF WithError
<1>3. CASE ExitSuccess(n)
  <2>1. \/ state' = state
        \/ state' = [state EXCEPT ![n] = "COMPLETED"]
    BY <1>3 DEF ExitSuccess, UpdateState
  <2> QED BY <1>1, <1>3, <2>1 DEF ExitSuccess, CanStep
<1>4. CASE ExitFailure(n)
  <2>1. \/ state' = WithError(n)
        \/ state' = [WithError(n) EXCEPT ![n] = "COMPLETED"]
    BY <1>4 DEF ExitFailure
  <2>2. \A m \in Nodes : m # n => state'[m] \in {state[m], "ERROR"}
    BY <1>2, <2>1 DEF WithError
  <2>3. state'[n] \in {state[n], "ERROR", "COMPLETED"}
    BY <1>2, <2>1 DEF WithError
  <2> QED BY <1>4, <2>2, <2>3 DEF ExitFailure, CanStep
<1>5. CASE TaskException(n) \/ ErrorEvent(n)
  <2>1. state' = WithError(n)
    BY <1>5 DEF TaskException, ErrorEvent, MarkNodeError
  <2> QED BY <1>2, <1>5, <2>1 DEF TaskException, ErrorEvent, CanStep, taskVars
<1>6. CASE SessionInfo(n)
  <2>1. \/ state' = state
        \/ state' = [state EXCEPT ![n] = "IN_PROGRESS"]
    BY <1>6 DEF SessionInfo, UpdateState
  <2> QED BY <1>1, <1>6, <2>1 DEF SessionInfo, CanStep
<1> QED BY <1>3, <1>4, <1>5, <1>6 DEF CliExit, CliEvent

LEMMA QueueStep == TypeOK /\ QueueInv /\ [Next]_vars => QueueInv'
<1> SUFFICES ASSUME TypeOK, QueueInv, [Next]_vars PROVE QueueInv'
  OBVIOUS
<1> USE DEF treeVars, queueVars, taskVars, cmdVars
<1>1. ASSUME NEW n \in Nodes, Message(n) PROVE QueueInv'
  <2>1. CASE AcceptMessage(n)
    <3> USE DEF TypeOK, QueueInv, Indexed, OnlyAccepted, QueueWaits, CancelReaches,
            EarlyCancelMarked, NothingForgotten, Queued
    <3>1. pc[n] = "none" /\ n \notin Queued /\ n # currentNode /\ n \notin cancelling
      BY <2>1 DEF AcceptMessage, Resolvable, AddNode
    <3>2. CASE isProcessing /\ ticket' = [ticket EXCEPT ![n] = Cardinality(Accepted) + 1]
               /\ UNCHANGED <<isProcessing, currentNode, currentTask, pc>>
      BY <2>1, <3>1, <3>2, ArrivalNumber DEF AcceptMessage, Resolvable, AddNode
    <3>3. CASE ~isProcessing /\ StartNode(n, pc) /\ UNCHANGED ticket
      BY <2>1, <3>1, <3>3 DEF AcceptMessage, StartNode, Resolvable, AddNode
    <3> QED
      BY <2>1, <3>2, <3>3 DEF AcceptMessage, EnqueueAndStart,
        Resolvable, AddNode, PutLast
  <2>2. CASE ReceiveMessage(n) \/ RejectMessage(n) \/ StatusNotSent(n)
    BY <2>2 DEF TypeOK, QueueInv, Indexed, OnlyAccepted, QueueWaits, CancelReaches,
      EarlyCancelMarked, NothingForgotten, Queued, ReceiveMessage, RejectMessage,
      StatusNotSent, Resolvable
  <2> QED
    BY <1>1, <2>1, <2>2 DEF Message
<1>2. ASSUME NEW n \in Nodes, CliExit(n) \/ CliEvent(n) PROVE QueueInv'
  <2>1. pc[n] = "running" /\ pc' \in {pc, [pc EXCEPT ![n] = "closing"]}
        /\ UNCHANGED <<msg, inTree, registered, queueVars, cancelling>>
    BY <1>2, CliEffect
  <2>2. \A m \in Nodes : state'[m] = "PENDING" => state[m] = "PENDING"
    BY <1>2, CliEffect
  <2> QED
    BY <2>1, <2>2 DEF TypeOK, QueueInv, Indexed, OnlyAccepted, QueueWaits,
      CancelReaches, EarlyCancelMarked, NothingForgotten, Queued
<1>3. ASSUME NEW n \in Nodes, LoopStep(n) PROVE QueueInv'
  <2>1. CASE BeginTask(n)
    BY <2>1 DEF TypeOK, QueueInv, Indexed, OnlyAccepted, QueueWaits, CancelReaches,
      EarlyCancelMarked, NothingForgotten, Queued, BeginTask
  <2>2. CASE SkipTask(n) \/ SessionRemoved(n)
    BY <2>2, ProcessNextInv DEF SkipTask, SessionRemoved, FinishTask
  <2>3. CASE CliKilled(n)
    BY <2>3 DEF TypeOK, QueueInv, Indexed, OnlyAccepted, QueueWaits, CancelReaches,
      EarlyCancelMarked, NothingForgotten, Queued, CliKilled
  <2>4. CASE Drained(n)
    BY <2>4 DEF TypeOK, QueueInv, Indexed, OnlyAccepted, QueueWaits, CancelReaches,
      EarlyCancelMarked, NothingForgotten, Queued, Drained, HandleCancelled, UpdateState
  <2>5. CASE DeliverCancel(n)
    <3>1. CASE pc[n] = "closing" /\ FinishTask(n) /\ UNCHANGED state
      BY <2>5, <3>1, ProcessNextInv DEF DeliverCancel, FinishTask
    <3>2. CASE pc[n] # "closing"
      <4>1. /\ pc[n] # "none"
            /\ pc[n] = "created" => pc'[n] = "stillborn"
            /\ \A m \in Nodes : m # n => pc'[m] = pc[m]
            /\ pc'[n] \notin {"none", "created"}
        BY <2>5, <3>2 DEF TypeOK, QueueInv, CancelReaches, DeliverCancel, HandleCancelled
      <4>2. \A m \in Nodes : state'[m] = "PENDING" => state[m] = "PENDING"
        BY <2>5, <3>2 DEF TypeOK, DeliverCancel, HandleCancelled, UpdateState
      <4>3. UNCHANGED <<msg, inTree, registered, queueVars>> /\ n \in cancelling
            /\ cancelling' = cancelling \ {n}
        BY <2>5, <3>2 DEF DeliverCancel, HandleCancelled
      <4> QED
        BY <4>1, <4>2, <4>3 DEF TypeOK, QueueInv, Indexed, OnlyAccepted, QueueWaits,
          CancelReaches, EarlyCancelMarked, NothingForgotten, Queued
    <3> QED
      BY <2>5, <3>1, <3>2 DEF DeliverCancel
  <2> QED
    BY <1>3, <2>1, <2>2, <2>3, <2>4, <2>5 DEF LoopStep
<1>4. ASSUME Command PROVE QueueInv'
  <2>1. CASE \E n \in Nodes : StopTask(n)
    BY <2>1 DEF TypeOK, QueueInv, Indexed, OnlyAccepted, QueueWaits, CancelReaches,
      EarlyCancelMarked, NothingForgotten, Queued, StopTask, CancelCurrent, MarkStopped,
      Without, Live, StopNames, Resolvable
  <2>2. ASSUME NEW b \in Nodes, ClearBranch(b) PROVE QueueInv'
    <3>0. /\ CancelCurrent(currentNode \in Branch(b))
          /\ ticket' = Without(Branch(b) \ {currentNode})
          /\ MarkStopped(Branch(b))
      BY <2>2 DEF ClearBranch, Resolvable
    <3>1. \A n \in Nodes : n \in Queued' <=> n \in Queued \ (Branch(b) \ {currentNode})
      BY <3>0 DEF TypeOK, Without, Queued
    <3>2. /\ \A n \in Branch(b) \cap Nodes : state'[n] = "ERROR"
          /\ \A n \in Nodes : n \notin Branch(b) => state'[n] = state[n]
      BY <3>0 DEF MarkStopped
    <3>3. cancelling' = cancelling \cup
             {n \in Nodes : currentNode \in Branch(b) /\ n = currentTask /\ Live(n)}
      BY <3>0, Zenon DEF CancelCurrent
    <3>4. Branch(b) \subseteq inTree
      BY <2>2, DescendantsInTree DEF Branch
    <3>5. UNCHANGED <<msg, inTree, registered, isProcessing, currentNode, currentTask, pc>>
      BY <2>2 DEF ClearBranch, Resolvable
    <3>6. Indexed' /\ OnlyAccepted' /\ QueueWaits'
      BY <3>1, <3>5 DEF QueueInv, Indexed, OnlyAccepted, QueueWaits, Queued
    <3>7. CancelReaches'
      BY <3>3, <3>5 DEF QueueInv, CancelReaches, Live
    <3>8. EarlyCancelMarked'
      <4> SUFFICES ASSUME NEW n \in cancelling', n \in registered, pc[n] = "created"
                   PROVE  state'[n] # "PENDING"
        BY <3>5 DEF EarlyCancelMarked
      <4>1. n \in Nodes /\ n \in inTree
        BY DEF TypeOK, QueueInv, Indexed
      <4>2. CASE n \in cancelling
        BY <4>1, <4>2, <3>2 DEF QueueInv, EarlyCancelMarked
      <4>3. CASE currentNode \in Branch(b) /\ n = currentTask
        BY <4>1, <4>3, <3>2, <3>4 DEF QueueInv, CancelReaches
      <4> QED
        BY <3>3, <4>2, <4>3
    <3>9. NothingForgotten'
      <4> SUFFICES ASSUME NEW n \in registered, state'[n] = "PENDING"
                   PROVE  (n \in Queued' /\ isProcessing) \/ pc[n] = "created"
        BY <3>5 DEF NothingForgotten
      <4>1. n \in Nodes
        BY DEF TypeOK
      <4>2. n \notin Branch(b) /\ state[n] = "PENDING"
        BY <4>1, <3>2
      <4> QED
        BY <4>1, <4>2, <3>1 DEF QueueInv, NothingForgotten
    <3> QED
      BY <3>6, <3>7, <3>8, <3>9 DEF QueueInv
  <2>3. CASE StopAll \/ ClearAll
    BY <2>3, CancelTreeInv DEF StopAll, ClearAll
  <2>4. CASE RemoveBranch
    <3>1. CASE CancelTree /\ registered' = {} /\ UNCHANGED <<inTree, currentTask>>
      BY <2>4, <3>1, CancelTreeInv DEF RemoveBranch, CutBranch
    <3>2. CASE /\ UNCHANGED <<msg, pc, state, queueVars, cancelling>>
               /\ inTree' \subseteq inTree
               /\ registered' \subseteq registered /\ registered' \subseteq inTree'
      BY <3>2 DEF TypeOK, QueueInv, Indexed, OnlyAccepted, QueueWaits,
        CancelReaches, EarlyCancelMarked, NothingForgotten, Queued
    <3> QED
      BY <2>4, <3>1, <3>2 DEF RemoveBranch, QueueInv, Indexed, CutBranch
  <2>5. CASE ReplaceTreeQueue
    BY <2>5 DEF TypeOK, QueueInv, Indexed, OnlyAccepted, QueueWaits, CancelReaches,
      EarlyCancelMarked, NothingForgotten, Queued, ReplaceTreeQueue
  <2> QED
    BY <1>4, <2>1, <2>2, <2>3, <2>4, <2>5 DEF Command
<1>5. CASE UNCHANGED vars
  BY <1>5 DEF TypeOK, QueueInv, Indexed, OnlyAccepted, QueueWaits, CancelReaches,
    EarlyCancelMarked, NothingForgotten, Queued, vars
<1> QED
  BY <1>1, <1>2, <1>3, <1>4, <1>5 DEF Next

LEMMA QueueInit == Init => QueueInv
<1> SUFFICES ASSUME Init PROVE QueueInv
  OBVIOUS
<1> QED
  BY TypeInit DEF Init, QueueInv, Indexed, OnlyAccepted, QueueWaits, CancelReaches,
    EarlyCancelMarked, NothingForgotten, Queued

\* No stop, clear, failed parent or early cancellation makes a conversation
\* forget a message it accepted, whatever the commands and their timing.
THEOREM NoMessageForgotten == Spec => []NothingForgotten
<1>1. Init => TypeOK /\ QueueInv
  BY TypeInit, QueueInit
<1>2. TypeOK /\ QueueInv /\ [Next]_vars => TypeOK' /\ QueueInv'
  BY TypeStep, QueueStep
<1>3. QueueInv => NothingForgotten
  BY DEF QueueInv
<1> QED
  BY <1>1, <1>2, <1>3, PTL DEF Spec

\* What a step may do to the program counter of a task: no step but the one
\* that creates it puts it at its start.
LEMMA CreatedOnce ==
  ASSUME TypeOK, QueueInv, [Next]_vars, NEW m \in Nodes, pc[m] # "none",
         pc'[m] = "created"
  PROVE  pc[m] = "created"
<1> USE DEF treeVars, queueVars, taskVars, cmdVars
<1>0. ASSUME NEW t \in Nodes, ProcessNext([pc EXCEPT ![t] = "done"])
      PROVE  pc[m] = "created"
  <2> DEFINE over == [pc EXCEPT ![t] = "done"]
  <2>1. over[m] = "created" => pc[m] = "created"
    BY DEF TypeOK
  <2>2. CASE pc' = over
    BY <2>1, <2>2
  <2>3. ASSUME NEW n \in Nodes, IsHead(n), pc' = [over EXCEPT ![n] = "created"]
        PROVE  pc[m] = "created"
    <3>1. m # n
      BY <2>3 DEF QueueInv, QueueWaits, IsHead
    <3> QED
      BY <2>1, <2>3, <3>1 DEF TypeOK
  <2> QED
    BY <1>0, <2>2, <2>3, Zenon DEF ProcessNext, StartNode
<1>1. ASSUME NEW n \in Nodes, Message(n) PROVE pc[m] = "created"
  <2>1. pc' = pc \/ (pc[n] = "none" /\ pc' = [pc EXCEPT ![n] = "created"])
    BY <1>1 DEF QueueInv, OnlyAccepted, Message, ReceiveMessage, AcceptMessage,
      RejectMessage, StatusNotSent, EnqueueAndStart, StartNode,
      Resolvable, AddNode, PutLast
  <2> QED
    BY <2>1 DEF TypeOK
<1>2. ASSUME NEW n \in Nodes, CliExit(n) \/ CliEvent(n) PROVE pc[m] = "created"
  <2>1. pc' \in {pc, [pc EXCEPT ![n] = "closing"]}
    BY <1>2 DEF CliExit, CliEvent, ExitSuccess, ExitFailure, TaskException, SessionInfo,
      ErrorEvent
  <2> QED
    BY <2>1 DEF TypeOK
<1>3. ASSUME NEW n \in Nodes, LoopStep(n) PROVE pc[m] = "created"
  <2>1. CASE SkipTask(n) \/ SessionRemoved(n)
    BY <2>1, <1>0 DEF SkipTask, SessionRemoved, FinishTask
  <2>2. CASE BeginTask(n) \/ CliKilled(n) \/ Drained(n)
    BY <2>2 DEF TypeOK, BeginTask, CliKilled, Drained, HandleCancelled
  <2>3. CASE DeliverCancel(n)
    <3>1. CASE FinishTask(n)
      BY <3>1, <1>0 DEF FinishTask
    <3>2. CASE ~FinishTask(n)
      <4>1. \E s \in {"stillborn", "killing", "draining", "closing"} :
              pc' = [pc EXCEPT ![n] = s]
        BY <2>3, <3>2 DEF DeliverCancel, HandleCancelled
      <4> QED
        BY <4>1 DEF TypeOK
    <3> QED
      BY <3>1, <3>2
  <2> QED
    BY <1>3, <2>1, <2>2, <2>3 DEF LoopStep
<1>4. CASE Command
  BY <1>4 DEF Command, StopTask, ClearBranch, StopAll, RemoveBranch, ClearAll,
    ReplaceTreeQueue, StopNames, Resolvable, CutBranch
<1>5. CASE UNCHANGED vars
  BY <1>5 DEF vars
<1> QED
  BY <1>1, <1>2, <1>3, <1>4, <1>5 DEF Next

\* A message is handed to the CLI at most once, whatever is stopped or cleared
\* while it waits, starts or runs.
THEOREM NeverHandedOutTwice == Spec => NeverRestarted
<1>1. Spec => [](TypeOK /\ QueueInv)
  <2>1. Init => TypeOK /\ QueueInv
    BY TypeInit, QueueInit
  <2>2. TypeOK /\ QueueInv /\ [Next]_vars => TypeOK' /\ QueueInv'
    BY TypeStep, QueueStep
  <2> QED
    BY <2>1, <2>2, PTL DEF Spec
<1>2. TypeOK /\ QueueInv /\ [Next]_vars =>
        [\A n \in Nodes : pc[n] # "none" => pc'[n] # "created" \/ pc[n] = "created"]_pc
  BY CreatedOnce
<1> QED
  BY <1>1, <1>2, PTL DEF Spec, NeverRestarted

-----------------------------------------------------------------------------
(* One message at a time, when users only stop messages and clear branches *)

\* A task that ends leaves at most the task it starts.
LEMMA ProcessNextRunner ==
  ASSUME TypeOK, RunnerInv, NEW t \in Nodes, Live(t),
         ProcessNext([pc EXCEPT ![t] = "done"]),
         UNCHANGED <<msg, parent, registered>>
  PROVE  RunnerInv'
<1> DEFINE over == [pc EXCEPT ![t] = "done"]
<1>1. t = currentTask /\ msg[Root] = "accepted"
  BY DEF RunnerInv, OnlyTheLastTask, GateShut
<1>2. \A m \in Nodes : over[m] \notin {"created", "running", "killing", "draining", "closing"}
  BY <1>1 DEF TypeOK, RunnerInv, OnlyTheLastTask, Live
<1>3. RootStays'
  BY DEF RunnerInv, RootStays
<1>4. CASE pc' = over
  BY <1>2, <1>3, <1>4 DEF RunnerInv, OnlyTheLastTask, GateShut, Live
<1>5. ASSUME NEW n \in Nodes, StartNode(n, over) PROVE RunnerInv'
  <2>1. isProcessing'
    BY <1>5, Zenon DEF StartNode
  <2>2. currentTask' = n /\ \A m \in Nodes : m # n => pc'[m] = over[m]
    BY <1>5 DEF StartNode, TypeOK
  <2>3. \A m \in Nodes : Live(m)' => m = n
    BY <1>2, <2>2 DEF Live
  <2> QED
    BY <1>1, <1>3, <2>1, <2>2, <2>3 DEF RunnerInv, OnlyTheLastTask, GateShut
<1> QED
  BY <1>4, <1>5, Zenon DEF ProcessNext

\* The root is in no subtree but its own.
LEMMA RootInNoOtherBranch ==
  ASSUME TypeOK, RootStays, NEW b \in Nodes, b # Root
  PROVE  Root \notin Descendants(b)
<1> SUFFICES Root \notin Reach(b, inTree)
  BY DEF Descendants
<1> DEFINE S == Nodes \ {Root}
<1>1. b \in S /\ \A c \in inTree : parent[c] \in S => c \in S
  BY DEF TypeOK, RootStays
<1>2. S \in SUBSET Nodes
  OBVIOUS
<1> QED
  BY <1>1, <1>2, Zenon DEF Reach

LEMMA RunnerStep ==
  ASSUME Ops \subseteq {"stop_task", "clear_branch"}
  PROVE  TypeOK /\ RunnerInv /\ [Next]_vars => RunnerInv'
<1> SUFFICES ASSUME TypeOK, RunnerInv, [Next]_vars PROVE RunnerInv'
  OBVIOUS
<1> USE DEF treeVars, queueVars, taskVars, cmdVars
<1>1. ASSUME NEW n \in Nodes, Message(n) PROVE RunnerInv'
  <2>1. CASE AcceptMessage(n)
    <3>1. RootStays'
      BY <2>1 DEF TypeOK, RunnerInv, RootStays, AcceptMessage, Resolvable, AddNode
    <3>2. /\ msg[n] = "sending" /\ (n = Root \/ registered # {})
          /\ msg' = [msg EXCEPT ![n] = "accepted"] /\ registered' # {}
          /\ EnqueueAndStart(n)
      BY <2>1 DEF AcceptMessage, Resolvable, AddNode
    <3>3. \A m \in Nodes : Live(m) => isProcessing
      BY <3>2 DEF RunnerInv, GateShut
    <3>4. CASE isProcessing /\ UNCHANGED <<isProcessing, currentNode, currentTask, pc>>
      BY <3>1, <3>2, <3>4 DEF TypeOK, RunnerInv, OnlyTheLastTask, GateShut, Live
    <3>5. CASE ~isProcessing /\ StartNode(n, pc)
      <4>1. isProcessing'
        BY <3>5, Zenon DEF StartNode
      <4>2. currentTask' = n /\ \A m \in Nodes : Live(m)' => m = n
        BY <3>3, <3>5 DEF StartNode, TypeOK, Live
      <4>3. msg'[Root] = "accepted"
        BY <3>2 DEF TypeOK, RunnerInv, RootStays
      <4> QED
        BY <3>1, <4>1, <4>2, <4>3 DEF RunnerInv, OnlyTheLastTask, GateShut
    <3> QED
      BY <3>2, <3>4, <3>5 DEF EnqueueAndStart, PutLast
  <2>2. CASE ReceiveMessage(n) \/ RejectMessage(n) \/ StatusNotSent(n)
    BY <2>2 DEF TypeOK, RunnerInv, RootStays, OnlyTheLastTask, GateShut, Live,
      ReceiveMessage, RejectMessage, StatusNotSent, Resolvable
  <2> QED
    BY <1>1, <2>1, <2>2 DEF Message
<1>2. ASSUME NEW n \in Nodes, CliExit(n) \/ CliEvent(n) PROVE RunnerInv'
  <2>1. Live(n) /\ pc' \in {pc, [pc EXCEPT ![n] = "closing"]}
        /\ UNCHANGED <<msg, parent, registered, queueVars>>
    BY <1>2, CliEffect DEF Live
  <2> QED
    BY <2>1 DEF TypeOK, RunnerInv, RootStays, OnlyTheLastTask, GateShut, Live
<1>3. ASSUME NEW n \in Nodes, LoopStep(n) PROVE RunnerInv'
  <2>1. CASE SkipTask(n) \/ SessionRemoved(n)
    BY <2>1, ProcessNextRunner DEF SkipTask, SessionRemoved, FinishTask, Live
  <2>2. CASE DeliverCancel(n) /\ pc[n] = "closing"
    <3>1. FinishTask(n)
      BY <2>2 DEF DeliverCancel
    <3> QED
      BY <2>2, <3>1, ProcessNextRunner DEF DeliverCancel, FinishTask, Live
  <2>3. CASE BeginTask(n) \/ CliKilled(n) \/ Drained(n)
             \/ (DeliverCancel(n) /\ pc[n] # "closing")
    <3>1. /\ UNCHANGED <<msg, parent, registered, queueVars>>
          /\ pc[n] \in {"created", "running", "killing", "draining"} \/ UNCHANGED pc
          /\ \E s \in TaskState : pc' = [pc EXCEPT ![n] = s]
      BY <2>3 DEF TypeOK, BeginTask, CliKilled, Drained, DeliverCancel, HandleCancelled,
        TaskState
    <3> QED
      BY <3>1 DEF TypeOK, RunnerInv, RootStays, OnlyTheLastTask, GateShut, Live
  <2>4. CASE DeliverCancel(n)
    BY <2>2, <2>3, <2>4
  <2> QED
    BY <1>3, <2>1, <2>3, <2>4 DEF LoopStep
<1>4. ASSUME Command PROVE RunnerInv'
  <2>1. CASE \E n \in Nodes : StopTask(n) \/ ClearBranch(n)
    BY <2>1 DEF RunnerInv, RootStays, OnlyTheLastTask, GateShut, Live, StopTask,
      ClearBranch, StopNames, Resolvable
  <2>2. CASE RemoveBranch
    <3>1. UNCHANGED <<msg, parent, pc, currentTask>>
      BY <2>2 DEF RemoveBranch, CutBranch
    <3>2. RootStays' /\ (registered' = {} \/ UNCHANGED isProcessing)
      <4>1. CASE registered' = {}
        BY <3>1, <4>1 DEF RunnerInv, RootStays
      <4>2. CASE UNCHANGED <<registered, isProcessing>>
        BY <3>1, <4>2 DEF RunnerInv, RootStays
      <4>3. CASE /\ clearing # Root /\ clearing \in registered
                 /\ registered' = registered \ Descendants(clearing)
                 /\ UNCHANGED isProcessing
        BY <3>1, <4>3, RootInNoOtherBranch DEF TypeOK, RunnerInv, RootStays
      <4> QED
        BY <2>2, <4>1, <4>2, <4>3 DEF RemoveBranch, CutBranch
    <3>3. registered = {} => registered' = {}
      BY <2>2 DEF RemoveBranch, CutBranch
    <3> QED
      BY <3>1, <3>2, <3>3 DEF RunnerInv, OnlyTheLastTask, GateShut, Live
  <2>3. CASE ReplaceTreeQueue
    BY <2>3 DEF RunnerInv, RootStays, OnlyTheLastTask, GateShut, Live, ReplaceTreeQueue
  <2> QED
    BY <1>4, <2>1, <2>2, <2>3 DEF Command, StopAll, ClearAll
<1>5. CASE UNCHANGED vars
  BY <1>5 DEF RunnerInv, RootStays, OnlyTheLastTask, GateShut, Live, vars
<1> QED
  BY <1>1, <1>2, <1>3, <1>4, <1>5 DEF Next

\* A conversation whose users only stop single messages and clear branches
\* never has two messages in the hands of the CLI (handler.py: "Per-tree queue
\* ensures ordered processing").  With /stop of everything it can.
THEOREM OneMessageAtATime ==
  ASSUME Ops \subseteq {"stop_task", "clear_branch"}
  PROVE  Spec => []SingleRunner
<1>1. Init => TypeOK /\ RunnerInv
  <2> SUFFICES ASSUME Init PROVE RunnerInv
    BY TypeInit
  <2> QED
    BY DEF Init, RunnerInv, RootStays, OnlyTheLastTask, GateShut, Live
<1>2. TypeOK /\ RunnerInv /\ [Next]_vars => TypeOK' /\ RunnerInv'
  BY TypeStep, RunnerStep
<1>3. RunnerInv => SingleRunner
  BY DEF RunnerInv, OnlyTheLastTask, SingleRunner
<1> QED
  BY <1>1, <1>2, <1>3, PTL DEF Spec

-----------------------------------------------------------------------------
(* A busy tree has a reason, whatever the commands *)

BusyInv ==
  isProcessing =>
    \/ /\ currentTask \in Nodes /\ currentNode = currentTask
       /\ Live(currentTask) \/ pc[currentTask] = "stillborn"
    \/ currentNode \notin inTree

\* A task that ends hands over, or leaves the tree idle.
LEMMA ProcessNextBusy ==
  ASSUME TypeOK, NEW t \in Nodes, ProcessNext([pc EXCEPT ![t] = "done"]), UNCHANGED inTree
  PROVE  BusyInv'
<1> DEFINE over == [pc EXCEPT ![t] = "done"]
<1>0. over \in [Nodes -> STRING \cup TaskState]
  BY DEF TypeOK, TaskState
<1>1. CASE isProcessing' = FALSE
  BY <1>1 DEF BusyInv
<1>2. ASSUME NEW n \in Nodes, StartNode(n, over) PROVE BusyInv'
  <2>1. currentNode' = n /\ currentTask' = n /\ pc' = [over EXCEPT ![n] = "created"]
    BY <1>2 DEF StartNode
  <2> HIDE DEF over
  <2>2. pc'[n] = "created"
    BY <1>0, <2>1
  <2> QED BY <2>1, <2>2 DEF BusyInv, Live
<1>3. ASSUME NEW n \in Nodes, n \notin inTree, currentNode' = n PROVE BusyInv'
  BY <1>3 DEF BusyInv
<1> QED BY <1>1, <1>2, <1>3, Zenon DEF ProcessNext

\* Steps that leave the current node its task.
LEMMA BusyKept ==
  ASSUME BusyInv, UNCHANGED <<currentNode, currentTask>>, isProcessing' => isProcessing,
         currentNode \in inTree' => currentNode \in inTree,
         \A n \in Nodes : Live(n) \/ pc[n] = "stillborn" => Live(n)' \/ pc'[n] = "stillborn"
  PROVE  BusyInv'
<1> USE DEF BusyInv
<1>1. CASE ~isProcessing
  BY <1>1
<1>2. CASE currentNode \notin inTree
  BY <1>2
<1>3. CASE /\ currentTask \in Nodes /\ currentNode = currentTask
           /\ Live(currentTask) \/ pc[currentTask] = "stillborn"
  BY <1>3, Zenon DEF Live
<1> QED BY <1>1, <1>2, <1>3

LEMMA BusyStep == TypeOK /\ QueueInv /\ BusyInv /\ [Next]_vars => BusyInv'
<1> SUFFICES ASSUME TypeOK, QueueInv, BusyInv, [Next]_vars PROVE BusyInv'
  OBVIOUS
<1> USE DEF treeVars, queueVars, taskVars, cmdVars
<1>1. ASSUME NEW n \in Nodes, Message(n) PROVE BusyInv'
  <2>1. CASE AcceptMessage(n)
    <3>1. n # currentNode /\ inTree' = inTree \cup {n} /\ EnqueueAndStart(n)
      BY <2>1 DEF AcceptMessage, AddNode, QueueInv, OnlyAccepted
    <3>2. CASE UNCHANGED <<isProcessing, currentNode, currentTask, pc>>
      BY <3>1, <3>2, BusyKept DEF Live
    <3>3. CASE StartNode(n, pc)
      <4>1. currentNode' = n /\ currentTask' = n /\ pc'[n] = "created"
        BY <3>3 DEF StartNode, TypeOK
      <4> QED BY <4>1 DEF BusyInv, Live
    <3> QED BY <3>1, <3>2, <3>3, Zenon DEF EnqueueAndStart
  <2>2. CASE ReceiveMessage(n) \/ RejectMessage(n) \/ StatusNotSent(n)
    <3>1. UNCHANGED <<inTree, isProcessing, currentNode, currentTask, pc>>
      BY <2>2 DEF ReceiveMessage, RejectMessage, StatusNotSent
    <3> QED BY <3>1, BusyKept DEF Live
  <2> QED BY <1>1, <2>1, <2>2 DEF Message
<1>2. ASSUME NEW n \in Nodes, CliExit(n) \/ CliEvent(n) PROVE BusyInv'
  <2>1. Live(n) /\ pc' \in {pc, [pc EXCEPT ![n] = "closing"]}
        /\ UNCHANGED <<inTree, isProcessing, currentNode, currentTask>>
    BY <1>2, CliEffect DEF Live
  <2>2. \A m \in Nodes : pc'[m] = pc[m] \/ (m = n /\ pc'[m] = "closing")
    BY <2>1 DEF TypeOK
  <2> QED BY <2>1, <2>2, BusyKept DEF Live
<1>3. ASSUME NEW n \in Nodes, LoopStep(n) PROVE BusyInv'
  <2>1. CASE SkipTask(n) \/ SessionRemoved(n)
    BY <2>1, ProcessNextBusy DEF SkipTask, SessionRemoved, FinishTask
  <2>2. CASE DeliverCancel(n) /\ pc[n] = "closing"
    BY <2>2, ProcessNextBusy DEF DeliverCancel, FinishTask
  <2>3. CASE BeginTask(n) \/ CliKilled(n) \/ Drained(n)
             \/ (DeliverCancel(n) /\ pc[n] # "closing")
    <3>1. /\ UNCHANGED <<inTree, isProcessing, currentNode, currentTask>>
          /\ \E s \in {"running", "draining", "closing", "stillborn", "killing"} :
               pc' = [pc EXCEPT ![n] = s]
      BY <2>3 DEF BeginTask, CliKilled, Drained, DeliverCancel, HandleCancelled
    <3>2. \A m \in Nodes : m # n => pc'[m] = pc[m]
      BY <3>1 DEF TypeOK
    <3>3. Live(n)' \/ pc'[n] = "stillborn"
      BY <3>1 DEF TypeOK, Live
    <3> QED BY <3>1, <3>2, <3>3, BusyKept DEF Live
  <2> QED BY <1>3, <2>1, <2>2, <2>3 DEF LoopStep
<1>4. ASSUME Command PROVE BusyInv'
  <2>1. CASE isProcessing' = FALSE
    BY <2>1 DEF BusyInv
  <2>2. \/ isProcessing' = FALSE
        \/ UNCHANGED <<pc, isProcessing, currentNode, currentTask>> /\ inTree' \subseteq inTree
    BY <1>4, Zenon DEF Command, StopTask, ClearBranch, StopAll, RemoveBranch, ClearAll,
       ReplaceTreeQueue, CancelTree, CutBranch
  <2>3. CASE UNCHANGED <<pc, isProcessing, currentNode, currentTask>> /\ inTree' \subseteq inTree
    <3>1. \A n \in Nodes : Live(n) \/ pc[n] = "stillborn" => Live(n)' \/ pc'[n] = "stillborn"
      BY <2>3 DEF Live
    <3> QED BY <2>3, <3>1, BusyKept
  <2> QED BY <2>1, <2>2, <2>3
<1>5. CASE UNCHANGED vars
  BY <1>5, BusyKept DEF vars, Live
<1> QED BY <1>1, <1>2, <1>3, <1>4, <1>5 DEF Next

\* A busy tree has a live task for its current node, unless that was cancelled
\* before its first step or the node was cleared while queued: whatever the
\* commands, global ones included, nothing else wedges a conversation.
THEOREM BusyHasReasonTheorem == Spec => []BusyHasReason
<1>1. Init => TypeOK /\ QueueInv /\ BusyInv
  BY TypeInit, QueueInit DEF Init, BusyInv
<1>2. TypeOK /\ QueueInv /\ BusyInv /\ [Next]_vars => TypeOK' /\ QueueInv' /\ BusyInv'
  BY TypeStep, QueueStep, BusyStep
<1>3. BusyInv => BusyHasReason
  BY DEF BusyInv, BusyHasReason
<1> QED BY <1>1, <1>2, <1>3, PTL DEF Spec

-----------------------------------------------------------------------------
(* A stopped message stays stopped, when users only stop messages and clear
   branches *)

StoppedLeft ==    \* a stopped message was accepted and has left the queue
  \A n \in stopped : msg[n] = "accepted" /\ n \notin Queued

LastTaskKnown ==  \* the last task created has started or is about to
  currentTask # NoNode => pc[currentTask] # "none"

LiveIsCurrent ==  \* the live task is the current node's, as long as the tree is known
  \A n \in Nodes : Live(n) => currentNode = n \/ registered = {}

StopInv == StopHolds /\ StoppedLeft /\ LastTaskKnown /\ LiveIsCurrent

ReplyOps == Ops \subseteq {"stop_task", "clear_branch"}

LEMMA ProcessNextStop ==
  ASSUME TypeOK, QueueInv, RunnerInv, StopInv, NEW t \in Nodes, Live(t),
         ProcessNext([pc EXCEPT ![t] = "done"]),
         UNCHANGED <<msg, state, registered, stopped>>, cancelling \ {t} \subseteq cancelling'
  PROVE  StopInv'
<1> DEFINE over == [pc EXCEPT ![t] = "done"]
<1>1. \A m \in Nodes : /\ over[m] = (IF m = t THEN "done" ELSE pc[m])
                       /\ over[m] \notin {"created", "running", "killing", "draining", "closing"}
  BY DEF TypeOK, RunnerInv, OnlyTheLastTask, Live
<1>2. over \in [Nodes -> TaskState]
  BY DEF TypeOK, TaskState
<1>3. currentTask = t
  BY DEF RunnerInv, OnlyTheLastTask
<1> HIDE DEF over
<1>4. CASE pc' = over /\ UNCHANGED currentTask /\ \A m \in Nodes : m \in Queued' => m \in Queued
  <2>1. StopHolds'
    BY <1>1, <1>4 DEF StopInv, StopHolds, TypeOK
  <2>2. LastTaskKnown' /\ LiveIsCurrent'
    BY <1>1, <1>3, <1>4 DEF LastTaskKnown, LiveIsCurrent, Live
  <2> QED BY <1>4, <2>1, <2>2 DEF StopInv, StoppedLeft, TypeOK
<1>5. ASSUME NEW n \in Nodes, n \in Queued, StartNode(n, over), ticket' = Without({n})
      PROVE  StopInv'
  <2>1. /\ currentNode' = n /\ currentTask' = n /\ pc' = [over EXCEPT ![n] = "created"]
    BY <1>5 DEF StartNode
  <2>2. /\ pc'[n] = "created" /\ \A m \in Nodes : m # n => pc'[m] = over[m]
    BY <1>2, <2>1
  <2>3. n \notin stopped
    BY <1>5 DEF StopInv, StoppedLeft
  <2>4. \A m \in Nodes : m \in Queued' => m \in Queued
    BY <1>5 DEF Without, Queued
  <2>5. StopHolds'
    BY <1>1, <2>2, <2>3 DEF StopInv, StopHolds, TypeOK
  <2>6. LastTaskKnown' /\ LiveIsCurrent'
    BY <1>1, <2>1, <2>2 DEF LastTaskKnown, LiveIsCurrent, Live
  <2> QED BY <2>4, <2>5, <2>6 DEF StopInv, StoppedLeft, TypeOK
<1>6. \A n \in Nodes : IsHead(n) => n \in Queued
  BY DEF IsHead
<1>7. CASE Queued = {} /\ pc' = over /\ UNCHANGED <<ticket, currentTask>>
  BY <1>4, <1>7 DEF Queued
<1>8. ASSUME NEW n \in Nodes, ticket' = Without({n}), pc' = over, UNCHANGED currentTask
      PROVE  StopInv'
  <2>1. \A m \in Nodes : m \in Queued' => m \in Queued
    BY <1>8 DEF Without, Queued
  <2> QED BY <1>4, <1>8, <2>1
<1> QED BY <1>5, <1>6, <1>7, <1>8, Zenon DEF ProcessNext, over

\* A command stops the nodes of S, and the running task if one of them has it.
LEMMA MarkedStop ==
  ASSUME TypeOK, StopInv, NEW S \in SUBSET Nodes, MarkStopped(S),
         NEW wanted, CancelCurrent(wanted),
         \A n \in S : pc[n] \in {"created", "running"} => wanted /\ n = currentTask
  PROVE  StopHolds' \/ ~(UNCHANGED pc)
<1> SUFFICES ASSUME UNCHANGED pc, NEW n \in stopped'
             PROVE  /\ state'[n] = "ERROR"
                    /\ pc[n] \in {"created", "running"} => n \in cancelling'
  BY DEF StopHolds
<1>1. n \in Nodes /\ n \in stopped \cup S
  BY DEF MarkStopped, TypeOK
<1>2. state'[n] = "ERROR"
  BY <1>1 DEF MarkStopped, StopInv, StopHolds
<1>3. CASE n \in stopped
  BY <1>2, <1>3 DEF CancelCurrent, StopInv, StopHolds
<1>4. CASE n \in S
  <2>1. pc[n] \in {"created", "running"} => Live(n) /\ wanted /\ n = currentTask
    BY <1>4 DEF Live
  <2> QED BY <1>1, <1>2, <2>1, Zenon DEF CancelCurrent
<1> QED BY <1>1, <1>3, <1>4

LEMMA StopStep ==
  ASSUME ReplyOps
  PROVE  TypeOK /\ QueueInv /\ RunnerInv /\ StopInv /\ [Next]_vars => StopInv'
<1> SUFFICES ASSUME TypeOK, QueueInv, RunnerInv, StopInv, [Next]_vars PROVE StopInv'
  OBVIOUS
<1> USE DEF treeVars, queueVars, taskVars, cmdVars
<1>1. ASSUME NEW n \in Nodes, Message(n) PROVE StopInv'
  <2>1. CASE AcceptMessage(n)
    <3>1. /\ msg[n] = "sending" /\ (n = Root \/ registered # {})
          /\ msg' = [msg EXCEPT ![n] = "accepted"] /\ registered' = registered \cup {n}
          /\ EnqueueAndStart(n) /\ UNCHANGED <<state, cancelling, stopped>>
      BY <2>1 DEF AcceptMessage, Resolvable, AddNode
    <3>2. n \notin stopped /\ pc[n] = "none"
      BY <3>1 DEF StopInv, StoppedLeft, QueueInv, OnlyAccepted
    <3>3. \A m \in Nodes : Live(m) => isProcessing /\ currentNode = m
      BY <3>1 DEF RunnerInv, GateShut, StopInv, LiveIsCurrent
    <3>4. CASE PutLast(n) /\ UNCHANGED <<isProcessing, currentNode, currentTask, pc>>
      <4>1. \A m \in Nodes : m # n => ticket'[m] = ticket[m]
        BY <3>4 DEF PutLast, TypeOK
      <4>2. StoppedLeft'
        BY <3>1, <3>2, <4>1 DEF StopInv, StoppedLeft, TypeOK, Queued
      <4> QED BY <3>1, <3>3, <3>4, <4>2 DEF StopInv, StopHolds, LastTaskKnown, LiveIsCurrent, Live
    <3>5. CASE ~isProcessing /\ StartNode(n, pc) /\ UNCHANGED ticket
      <4>1. /\ currentNode' = n /\ currentTask' = n /\ pc'[n] = "created"
            /\ \A m \in Nodes : m # n => pc'[m] = pc[m]
        BY <3>5 DEF StartNode, TypeOK
      <4>2. StopHolds' /\ StoppedLeft'
        BY <3>1, <3>2, <3>5, <4>1 DEF StopInv, StopHolds, StoppedLeft, TypeOK, Queued
      <4>3. LastTaskKnown' /\ LiveIsCurrent'
        BY <3>3, <3>5, <4>1 DEF LastTaskKnown, LiveIsCurrent, Live
      <4> QED BY <4>2, <4>3 DEF StopInv
    <3> QED BY <3>1, <3>4, <3>5 DEF EnqueueAndStart
  <2>2. CASE ReceiveMessage(n) \/ RejectMessage(n) \/ StatusNotSent(n)
    <3>1. /\ UNCHANGED <<state, registered, queueVars, pc, cancelling, stopped>>
          /\ msg[n] # "accepted" /\ \E s \in {"sending", "dropped"} : msg' = [msg EXCEPT ![n] = s]
      BY <2>2 DEF ReceiveMessage, RejectMessage, StatusNotSent
    <3> QED BY <3>1 DEF TypeOK, StopInv, StopHolds, StoppedLeft, LastTaskKnown, LiveIsCurrent,
            Live, Queued
  <2> QED BY <1>1, <2>1, <2>2 DEF Message
<1>2. ASSUME NEW n \in Nodes, CliExit(n) \/ CliEvent(n) PROVE StopInv'
  <2>1. /\ pc[n] = "running" /\ n \notin cancelling
        /\ pc' \in {pc, [pc EXCEPT ![n] = "closing"]}
        /\ UNCHANGED <<msg, registered, queueVars, cancelling, stopped>>
    BY <1>2, CliEffect
  <2>2. n \notin stopped
    BY <2>1 DEF StopInv, StopHolds
  <2>3. \A m \in Nodes : m # n => state'[m] \in {state[m], "ERROR"}
    BY <1>2, CliEffect
  <2>4. /\ \A m \in Nodes : m # n => pc'[m] = pc[m]
        /\ pc'[n] \in {"running", "closing"}
    BY <2>1 DEF TypeOK
  <2>5. StopHolds'
    BY <2>1, <2>2, <2>3, <2>4 DEF StopInv, StopHolds, TypeOK
  <2>6. LastTaskKnown' /\ LiveIsCurrent'
    BY <2>1, <2>4 DEF StopInv, LastTaskKnown, LiveIsCurrent, Live, TypeOK
  <2> QED BY <2>1, <2>5, <2>6 DEF StopInv, StoppedLeft, Queued
<1>3. ASSUME NEW n \in Nodes, LoopStep(n) PROVE StopInv'
  <2>1. CASE SkipTask(n) \/ SessionRemoved(n)
    BY <2>1, ProcessNextStop DEF SkipTask, SessionRemoved, FinishTask, Live
  <2>2. CASE DeliverCancel(n) /\ pc[n] = "closing"
    BY <2>2, ProcessNextStop DEF DeliverCancel, FinishTask, Live
  <2>3. CASE BeginTask(n) \/ CliKilled(n) \/ Drained(n)
             \/ (DeliverCancel(n) /\ pc[n] # "closing")
    <3>1. /\ UNCHANGED <<msg, registered, queueVars, stopped>>
          /\ \E s \in {"running", "draining", "closing", "stillborn", "killing"} :
               pc' = [pc EXCEPT ![n] = s]
          /\ cancelling \ {n} \subseteq cancelling'
      BY <2>3 DEF BeginTask, CliKilled, Drained, DeliverCancel, HandleCancelled
    <3>2. pc[n] # "none" /\ pc'[n] # "none"
      BY <2>3, <3>1 DEF TypeOK, BeginTask, CliKilled, Drained, DeliverCancel, HandleCancelled
    <3>3. \A m \in Nodes : m # n => pc'[m] = pc[m]
      BY <3>1 DEF TypeOK
    <3>4. n \in stopped => pc'[n] \notin {"created", "running"}
      BY <2>3 DEF TypeOK, StopInv, StopHolds, BeginTask, CliKilled, Drained, DeliverCancel,
         HandleCancelled
    <3>5. \A m \in Nodes : m \in stopped => state'[m] = "ERROR"
      BY <2>3 DEF TypeOK, StopInv, StopHolds, BeginTask, CliKilled, Drained, DeliverCancel,
         HandleCancelled, UpdateState
    <3>6. StopHolds'
      BY <3>1, <3>3, <3>4, <3>5 DEF TypeOK, StopInv, StopHolds
    <3>7. LastTaskKnown'
      BY <3>1, <3>2, <3>3 DEF TypeOK, StopInv, LastTaskKnown
    <3>8. Live(n)' => Live(n)
      BY <2>3, <3>1 DEF TypeOK, Live, BeginTask, CliKilled, Drained, DeliverCancel,
         HandleCancelled
    <3>9. LiveIsCurrent'
      BY <3>1, <3>3, <3>8 DEF StopInv, LiveIsCurrent, Live
    <3> QED BY <3>1, <3>6, <3>7, <3>9 DEF StopInv, StoppedLeft, Queued
  <2> QED BY <1>3, <2>1, <2>2, <2>3 DEF LoopStep
<1>4. \A n \in Nodes : Live(n) => n = currentTask
  BY DEF RunnerInv, OnlyTheLastTask
<1>5. ASSUME NEW n \in Nodes, StopTask(n) PROVE StopInv'
  <2>1. /\ CancelCurrent(currentNode = n) /\ ticket' = Without({n}) /\ MarkStopped({n})
        /\ UNCHANGED <<msg, registered, currentNode, currentTask, pc>>
        /\ n \in registered /\ n \in inTree
    BY <1>5 DEF StopTask, StopNames, Resolvable
  <2>2. pc[n] \in {"created", "running"} => currentNode = n /\ n = currentTask
    BY <1>4, <2>1 DEF StopInv, LiveIsCurrent, Live
  <2>3. StopHolds'
    <3>1. {n} \in SUBSET Nodes /\ UNCHANGED pc
      BY <2>1
    <3>2. \A m \in {n} : pc[m] \in {"created", "running"} => currentNode = n /\ m = currentTask
      BY <2>2
    <3>3. MarkStopped({n}) /\ CancelCurrent(currentNode = n)
      BY <2>1
    <3> QED BY <3>1, <3>2, <3>3, MarkedStop, Zenon
  <2>4. StoppedLeft'
    BY <2>1 DEF StopInv, StoppedLeft, MarkStopped, Without, Queued, QueueInv, Indexed, TypeOK
  <2> QED BY <2>1, <2>3, <2>4 DEF StopInv, LastTaskKnown, LiveIsCurrent, Live
<1>6. ASSUME NEW b \in Nodes, ClearBranch(b) PROVE StopInv'
  <2> DEFINE S == Branch(b)
  <2>1. /\ CancelCurrent(currentNode \in S) /\ ticket' = Without(S \ {currentNode})
        /\ MarkStopped(S) /\ b \in registered
        /\ UNCHANGED <<msg, registered, currentNode, currentTask, pc>>
    BY <1>6 DEF ClearBranch, Resolvable
  <2>2. S \subseteq inTree /\ S \subseteq Nodes
    BY DescendantsInTree DEF Branch, TypeOK
  <2> HIDE DEF S
  <2>3. \A n \in S : pc[n] \in {"created", "running"} => currentNode \in S /\ n = currentTask
    BY <1>4, <2>1, <2>2 DEF StopInv, LiveIsCurrent, Live
  <2>4. StopHolds'
    BY <2>1, <2>2, <2>3, MarkedStop
  <2>5. ASSUME NEW n \in S PROVE n \notin Queued'
    <3>1. CASE n = currentNode
      <4>1. currentTask = n /\ pc[n] # "none"
        BY <2>2, <3>1 DEF QueueInv, CancelReaches, StopInv, LastTaskKnown
      <4>2. n \notin Queued
        BY <4>1 DEF QueueInv, QueueWaits
      <4> QED BY <2>1, <2>2, <4>2 DEF Without, Queued
    <3>2. CASE n # currentNode
      BY <2>1, <2>2, <3>2 DEF Without, Queued
    <3> QED BY <3>1, <3>2
  <2>6. \A n \in Nodes : n \in Queued' => n \in Queued
    BY <2>1 DEF Without, Queued
  <2>7. StoppedLeft'
    BY <2>1, <2>2, <2>5, <2>6 DEF StopInv, StoppedLeft, MarkStopped, QueueInv, Indexed, TypeOK
  <2> QED BY <2>1, <2>4, <2>7 DEF StopInv, LastTaskKnown, LiveIsCurrent, Live
<1>7. CASE RemoveBranch
  <2>1. CASE UNCHANGED <<state, queueVars, cancelling, stopped>>
    <3>1. UNCHANGED <<msg, pc>> /\ registered' \subseteq registered
      BY <1>7 DEF RemoveBranch, CutBranch
    <3> QED BY <2>1, <3>1 DEF StopInv, StopHolds, StoppedLeft, LastTaskKnown, LiveIsCurrent,
            Live, Queued
  <2>2. CASE CancelTree /\ registered' = {} /\ UNCHANGED <<inTree, currentTask>>
    <3> DEFINE S == {n \in inTree : Cancellable(n) \/ n \in Queued}
    <3>1. /\ CancelCurrent(TRUE) /\ ticket' = Without(Nodes) /\ MarkStopped(S)
          /\ S \subseteq Nodes /\ S \subseteq inTree /\ UNCHANGED <<msg, pc>>
      BY <1>7, <2>2 DEF RemoveBranch, CancelTree, TypeOK
    <3> HIDE DEF S
    <3>2. \A n \in S : pc[n] \in {"created", "running"} => TRUE /\ n = currentTask
      BY <1>4, <3>1 DEF Live
    <3>3. StopHolds'
      BY <3>1, <3>2, MarkedStop
    <3>4. StoppedLeft'
      BY <3>1 DEF StopInv, StoppedLeft, MarkStopped, Without, Queued, QueueInv, Indexed, TypeOK
    <3> QED BY <2>2, <3>1, <3>3, <3>4 DEF StopInv, LastTaskKnown, LiveIsCurrent
  <2> QED BY <1>7, <2>1, <2>2 DEF RemoveBranch
<1>8. CASE ReplaceTreeQueue
  <2>1. /\ UNCHANGED <<msg, state, queueVars, pc, cancelling, stopped>>
        /\ registered' \subseteq registered
    BY <1>8 DEF ReplaceTreeQueue
  <2> QED BY <2>1 DEF StopInv, StopHolds, StoppedLeft, LastTaskKnown, LiveIsCurrent, Live, Queued
<1>9. CASE UNCHANGED vars
  BY <1>9 DEF vars, StopInv, StopHolds, StoppedLeft, LastTaskKnown, LiveIsCurrent, Live, Queued
<1>10. ~StopAll /\ ~ClearAll
  BY DEF ReplyOps, StopAll, ClearAll
<1> QED BY <1>1, <1>2, <1>3, <1>5, <1>6, <1>7, <1>8, <1>9, <1>10, Zenon DEF Next, Command

\* Everything proved together of a conversation of which users stop messages and
\* clear branches.
LEMMA ReplyInvariant ==
  ASSUME ReplyOps
  PROVE  Spec => [](TypeOK /\ QueueInv /\ RunnerInv /\ StopInv)
<1>1. Init => TypeOK /\ QueueInv /\ RunnerInv /\ StopInv
  <2> SUFFICES ASSUME Init PROVE RunnerInv /\ StopInv
    BY TypeInit, QueueInit
  <2> QED
    BY DEF Init, RunnerInv, RootStays, OnlyTheLastTask, GateShut, Live, StopInv, StopHolds,
       StoppedLeft, LastTaskKnown, LiveIsCurrent
<1>2. TypeOK /\ QueueInv /\ RunnerInv /\ StopInv /\ [Next]_vars =>
        TypeOK' /\ QueueInv' /\ RunnerInv' /\ StopInv'
  BY TypeStep, QueueStep, RunnerStep, StopStep DEF ReplyOps
<1> QED BY <1>1, <1>2, PTL DEF Spec

\* A message the user stopped stays stopped: nothing its task, its parent or a
\* late CLI event does takes it out of ERROR, and a task that was still to run
\* for it has its cancellation under way (queue_manager.py cancel_node,
\* cancel_branch).  A /stop of everything does not keep this.
THEOREM StopHoldsTheorem ==
  ASSUME ReplyOps
  PROVE  Spec => []StopHolds
<1>1. StopInv => StopHolds
  BY DEF StopInv
<1> QED BY <1>1, ReplyInvariant, PTL

-----------------------------------------------------------------------------
(* A reply starts after its parent, with the same commands *)

Unstartable(p) == state[p] = "ERROR" /\ pc[p] = "none" /\ p \notin Queued

ForkSettled ==    \* ForkAfterParent, of a parent that cannot start any more
  \A n \in Nodes \ {Root} :
    pc[n] # "none" => pc[parent[n]] \in {"done", "stillborn"} \/ Unstartable(parent[n])

ParentAccepted == \* a reply is let in after its parent
  \A n \in Nodes \ {Root} :
    msg[n] = "accepted" => parent[n] \in Nodes /\ msg[parent[n]] = "accepted"

ParentFirst ==    \* and waits behind it
  \A n \in Queued \ {Root} : parent[n] \in Queued => ticket[parent[n]] < ticket[n]

TicketsGiven ==   \* the next arrival number is new
  \A n \in Nodes : ticket[n] <= Cardinality(Accepted)

UnstartedState ==
  \A n \in Nodes : pc[n] = "none" => state[n] \in {"PENDING", "ERROR"}

OrderInv ==
  ForkSettled /\ ParentAccepted /\ ParentFirst /\ TicketsGiven /\ UnstartedState

Grown ==          \* the tree holds the parent of every reply it holds
  \A n \in inTree \ {Root} : parent[n] \in inTree

WholeOrGone ==    \* the manager knows all of the tree, or nothing of it
  \/ registered = inTree
  \/ registered = {} /\ Queued = {} /\ msg[Root] = "accepted"

TreeInv == ~wiping /\ Grown /\ WholeOrGone

\* Steps that start no task and queue nothing.
LEMMA OrderKept ==
  ASSUME TypeOK, QueueInv, OrderInv, UNCHANGED <<msg, parent>>,
         \A m \in Nodes : ticket'[m] \in {ticket[m], 0},
         \A m \in Nodes : pc'[m] = pc[m] \/ (Live(m) /\ pc'[m] # "none"),
         \A m \in Nodes : pc[m] = "none" => state'[m] \in {state[m], "ERROR"}
  PROVE  OrderInv'
<1>1. \A m \in Nodes : /\ pc'[m] = "none" => pc[m] = "none"
                       /\ pc[m] = "none" => pc'[m] = "none"
                       /\ pc[m] \in {"done", "stillborn"} => pc'[m] = pc[m]
                       /\ Unstartable(m) => Unstartable(m)'
  BY DEF Live, Unstartable, Queued
<1>2. ForkSettled'
  <2> SUFFICES ASSUME NEW n \in Nodes \ {Root}, pc'[n] # "none"
               PROVE  pc'[parent[n]] \in {"done", "stillborn"} \/ Unstartable(parent[n])'
    BY DEF ForkSettled, Unstartable, Queued
  <2>1. pc[n] # "none" /\ parent[n] \in Nodes
    BY <1>1 DEF QueueInv, OnlyAccepted, OrderInv, ParentAccepted
  <2> QED BY <1>1, <2>1 DEF OrderInv, ForkSettled
<1>3. ParentFirst' /\ TicketsGiven'
  <2>1. \A m \in Nodes : m \in Queued' => m \in Queued /\ ticket'[m] = ticket[m]
    BY DEF Queued
  <2>2. Accepted' = Accepted
    BY DEF Accepted
  <2>3. TicketsGiven'
    <3>1. Cardinality(Accepted) \in Nat
      BY FS_Subset, FS_CardinalityType DEF Accepted
    <3>2. \A m \in Nodes : ticket'[m] <= Cardinality(Accepted)
      BY <3>1 DEF OrderInv, TicketsGiven, TypeOK
    <3> QED BY <2>2, <3>2 DEF TicketsGiven
  <2>4. ParentFirst'
    <3> SUFFICES ASSUME NEW n \in Nodes \ {Root}, n \in Queued', parent[n] \in Queued'
                 PROVE  ticket'[parent[n]] < ticket'[n]
      BY DEF ParentFirst, Queued
    <3>1. parent[n] \in Nodes
      BY DEF Queued
    <3> QED BY <2>1, <3>1 DEF OrderInv, ParentFirst
  <2> QED BY <2>3, <2>4
<1>4. ParentAccepted' /\ UnstartedState'
  BY <1>1 DEF OrderInv, ParentAccepted, UnstartedState
<1> QED BY <1>2, <1>3, <1>4 DEF OrderInv

\* A node whose parent is neither queued nor living may start.
LEMMA OrderStarted ==
  ASSUME TypeOK, QueueInv, OrderInv, NEW n \in Nodes, pc[n] = "none",
         NEW over \in [Nodes -> TaskState], StartNode(n, over),
         msg' \in {msg, [msg EXCEPT ![n] = "accepted"]}, UNCHANGED <<parent, state>>,
         \A m \in Nodes : over[m] = pc[m] \/ (Live(m) /\ over[m] = "done"),
         \A m \in Nodes : ticket'[m] = (IF m = n THEN 0 ELSE ticket[m]),
         n \in Queued \/ msg[n] # "accepted",
         n # Root => /\ parent[n] \in Nodes /\ msg[parent[n]] = "accepted" /\ parent[n] # n
                     /\ over[parent[n]] \in {"done", "stillborn"} \/ Unstartable(parent[n])
  PROVE  OrderInv'
<1>1. pc'[n] = "created" /\ \A m \in Nodes : m # n => pc'[m] = over[m]
  BY DEF StartNode
<1>2. \A m \in Nodes : m # n => /\ pc'[m] = "none" => pc[m] = "none"
                                /\ pc[m] = "none" => pc'[m] = "none"
                                /\ pc[m] \in {"done", "stillborn"} => pc'[m] = pc[m]
                                /\ Unstartable(m) => Unstartable(m)'
  BY <1>1 DEF Live, Unstartable, Queued
<1>3. ~Unstartable(n) \/ msg[n] # "accepted"
  BY DEF Unstartable
<1>4. ForkSettled'
  <2> SUFFICES ASSUME NEW m \in Nodes \ {Root}, pc'[m] # "none"
               PROVE  pc'[parent[m]] \in {"done", "stillborn"} \/ Unstartable(parent[m])'
    BY DEF ForkSettled, Unstartable, Queued
  <2>1. CASE m = n
    <3>1. CASE over[parent[n]] \in {"done", "stillborn"}
      BY <1>1, <2>1, <3>1
    <3>2. CASE Unstartable(parent[n])
      BY <1>2, <2>1, <3>2
    <3> QED BY <2>1, <3>1, <3>2
  <2>2. CASE m # n
    <3>1. pc[m] # "none" /\ parent[m] \in Nodes /\ msg[parent[m]] = "accepted"
      BY <1>2, <2>2 DEF QueueInv, OnlyAccepted, OrderInv, ParentAccepted
    <3>2. pc[parent[m]] \in {"done", "stillborn"} \/ Unstartable(parent[m])
      BY <3>1 DEF OrderInv, ForkSettled
    <3>3. parent[m] # n
      BY <1>3, <3>1, <3>2
    <3> QED BY <1>2, <3>1, <3>2, <3>3
  <2> QED BY <2>1, <2>2
<1>5. ParentFirst'
  <2>1. \A m \in Nodes : m \in Queued' => m \in Queued /\ ticket'[m] = ticket[m]
    BY DEF Queued
  <2> SUFFICES ASSUME NEW m \in Nodes \ {Root}, m \in Queued', parent[m] \in Queued'
               PROVE  ticket'[parent[m]] < ticket'[m]
    BY DEF ParentFirst, Queued
  <2>2. parent[m] \in Nodes
    BY DEF Queued
  <2> QED BY <2>1, <2>2 DEF OrderInv, ParentFirst
<1>6. TicketsGiven'
  <2>1. Accepted \subseteq Accepted' /\ IsFiniteSet(Accepted')
    BY FS_Subset DEF Accepted, TypeOK
  <2>2. Cardinality(Accepted) <= Cardinality(Accepted')
    BY <2>1, FS_Subset
  <2>3. Cardinality(Accepted) \in Nat /\ Cardinality(Accepted') \in Nat
    BY <2>1, FS_Subset, FS_CardinalityType
  <2> QED BY <2>2, <2>3 DEF OrderInv, TicketsGiven, TypeOK
<1>7. ParentAccepted' /\ UnstartedState'
  BY <1>1, <1>2 DEF OrderInv, ParentAccepted, UnstartedState, TypeOK
<1> QED BY <1>4, <1>5, <1>6, <1>7 DEF OrderInv

\* The parent of a node that is next is settled: nothing lives beside the task t
\* that hands over, and what the manager knows is queued, started or in error.
LEMMA ParentSettled ==
  ASSUME TypeOK, QueueInv, OrderInv, TreeInv, NEW p \in registered, p \notin Queued,
         NEW over \in [Nodes -> TaskState], ~(over[p] \in
            {"created", "running", "killing", "draining", "closing"}),
         over[p] = pc[p] \/ over[p] = "done"
  PROVE  over[p] \in {"done", "stillborn"} \/ Unstartable(p)
<1>1. p \in Nodes
  BY DEF TypeOK
<1>2. CASE over[p] = "none"
  <2>1. state[p] # "PENDING"
    BY <1>2 DEF QueueInv, NothingForgotten
  <2> QED BY <1>1, <1>2, <2>1 DEF OrderInv, UnstartedState, Unstartable
<1> QED BY <1>1, <1>2 DEF TaskState

\* A node in the tree that nothing has started: its parent does not live.
LEMMA HeadsParent ==
  ASSUME TypeOK, QueueInv, OrderInv, TreeInv, NEW n \in Nodes \ {Root}, n \in inTree,
         registered # {}
  PROVE  /\ parent[n] \in Nodes /\ msg[parent[n]] = "accepted"
         /\ parent[n] \in registered
<1>1. msg[n] = "accepted" /\ registered = inTree
  BY DEF QueueInv, Indexed, TreeInv, WholeOrGone
<1> QED BY <1>1 DEF OrderInv, ParentAccepted, TreeInv, Grown

\* The last task hands over to the head of the queue, whose parent left before it.
LEMMA ProcessNextOrder ==
  ASSUME TypeOK, TypeOK', QueueInv, RunnerInv, OrderInv, TreeInv, NEW t \in Nodes, Live(t),
         ProcessNext([pc EXCEPT ![t] = "done"]),
         UNCHANGED <<msg, parent, state, inTree, registered, wiping>>
  PROVE  OrderInv' /\ TreeInv'
<1> DEFINE over == [pc EXCEPT ![t] = "done"]
<1>1. /\ over \in [Nodes -> TaskState]
      /\ \A m \in Nodes : over[m] = pc[m] \/ (Live(m) /\ over[m] = "done")
      /\ \A m \in Nodes : ~(over[m] \in {"created", "running", "killing", "draining", "closing"})
  BY DEF TypeOK, TaskState, RunnerInv, OnlyTheLastTask, Live
<1> HIDE DEF over
<1>2. ASSUME pc' = over, \A m \in Nodes : ticket'[m] \in {ticket[m], 0}
      PROVE  OrderInv' /\ TreeInv'
  <2>1. \A m \in Nodes : pc'[m] = pc[m] \/ (Live(m) /\ pc'[m] # "none")
    BY <1>1, <1>2
  <2>2. \A m \in Nodes : pc[m] = "none" => state'[m] \in {state[m], "ERROR"}
    OBVIOUS
  <2>3. OrderInv'
    BY <1>2, <2>1, <2>2, OrderKept
  <2> QED BY <1>2, <2>3 DEF TreeInv, Grown, WholeOrGone, Queued
<1>3. ASSUME NEW n \in Nodes, IsHead(n), n \in inTree, StartNode(n, over),
             ticket' = Without({n})
      PROVE  OrderInv' /\ TreeInv'
  <2>1. pc[n] = "none" /\ n \in Queued /\ registered # {}
    BY <1>3 DEF IsHead, QueueInv, QueueWaits, TreeInv, WholeOrGone
  <2>2. \A m \in Nodes : ticket'[m] = (IF m = n THEN 0 ELSE ticket[m])
    BY <1>3 DEF Without
  <2>3. ASSUME n # Root
        PROVE  /\ parent[n] \in Nodes /\ msg[parent[n]] = "accepted" /\ parent[n] # n
               /\ over[parent[n]] \in {"done", "stillborn"} \/ Unstartable(parent[n])
    <3>1. /\ parent[n] \in Nodes /\ msg[parent[n]] = "accepted"
          /\ parent[n] \in registered
      BY <1>3, <2>1, <2>3, HeadsParent
    <3>2. parent[n] \notin Queued
      BY <1>3, <2>1, <2>3, <3>1 DEF OrderInv, ParentFirst, IsHead, TypeOK
    <3>3. over[parent[n]] \in {"done", "stillborn"} \/ Unstartable(parent[n])
      BY <1>1, <3>1, <3>2, ParentSettled
    <3> QED BY <2>1, <3>1, <3>2, <3>3
  <2>4. OrderInv'
    BY <1>1, <1>3, <2>1, <2>2, <2>3, OrderStarted
  <2> QED BY <2>1, <2>4 DEF TreeInv, Grown, WholeOrGone
<1>4. CASE Queued = {} /\ pc' = over /\ UNCHANGED <<ticket, currentTask>>
  BY <1>2, <1>4
<1>5. ASSUME NEW n \in Nodes, pc' = over, ticket' = Without({n}) PROVE OrderInv' /\ TreeInv'
  BY <1>2, <1>5 DEF Without
<1> QED BY <1>3, <1>4, <1>5, Zenon DEF ProcessNext, over

\* A message is let in: behind its parent, or beside nothing.
LEMMA AcceptOrder ==
  ASSUME TypeOK, QueueInv, RunnerInv, OrderInv, TreeInv, NEW n \in Nodes, AcceptMessage(n)
  PROVE  OrderInv' /\ TreeInv'
<1>1. /\ msg[n] = "sending" /\ msg' = [msg EXCEPT ![n] = "accepted"]
      /\ inTree' = inTree \cup {n} /\ registered' = registered \cup {n}
      /\ UNCHANGED <<parent, state, wiping>> /\ EnqueueAndStart(n)
      /\ n = Root \/ parent[n] \in registered \cap inTree
  BY DEF AcceptMessage, AddNode, Resolvable, cmdVars
<1>2. pc[n] = "none" /\ n \notin Queued
  BY <1>1 DEF QueueInv, OnlyAccepted
<1>3. n # Root => /\ parent[n] \in Nodes /\ msg[parent[n]] = "accepted" /\ parent[n] # n
                  /\ parent[n] \in registered
  BY <1>1 DEF QueueInv, Indexed, TypeOK
<1>4. TreeInv' \/ ~(\A m \in Nodes : m \in Queued' => m \in Queued \/ m = n)
  <2>1. registered = inTree
    BY <1>1 DEF TreeInv, WholeOrGone
  <2> QED BY <1>1, <2>1 DEF TreeInv, Grown, WholeOrGone
<1>5. CASE PutLast(n) /\ UNCHANGED <<isProcessing, currentNode, currentTask, pc>>
  <2>1. /\ Accepted' = Accepted \cup {n} /\ n \notin Accepted
        /\ IsFiniteSet(Accepted) /\ Cardinality(Accepted) \in Nat
    BY <1>1, FS_Subset, FS_CardinalityType DEF Accepted, TypeOK
  <2>2. Cardinality(Accepted') = Cardinality(Accepted) + 1
    BY <2>1, FS_AddElement
  <2>3. ticket'[n] = Cardinality(Accepted) + 1 /\ \A m \in Nodes : m # n => ticket'[m] = ticket[m]
    BY <1>5 DEF PutLast, TypeOK
  <2>4. TicketsGiven'
    BY <2>1, <2>2, <2>3 DEF OrderInv, TicketsGiven, TypeOK
  <2>5. \A m \in Nodes \ {Root} : msg[m] = "accepted" => parent[m] \in Nodes /\ parent[m] # n
    BY <1>1 DEF OrderInv, ParentAccepted
  <2>6. ParentFirst'
    <3> SUFFICES ASSUME NEW m \in Nodes \ {Root}, m \in Queued', parent[m] \in Queued'
                 PROVE  ticket'[parent[m]] < ticket'[m]
      BY <1>1 DEF ParentFirst, Queued
    <3>1. parent[m] \in Nodes
      BY DEF Queued
    <3>2. CASE m = n
      BY <1>3, <2>1, <2>3, <3>1, <3>2 DEF OrderInv, TicketsGiven, TypeOK
    <3>3. CASE m # n
      <4>1. m \in Queued /\ msg[m] = "accepted"
        BY <2>3, <3>3 DEF Queued, QueueInv, OnlyAccepted
      <4>2. parent[m] \in Queued /\ ticket'[parent[m]] = ticket[parent[m]]
        BY <2>3, <2>5, <3>1, <4>1 DEF Queued
      <4> QED BY <2>3, <3>3, <4>1, <4>2 DEF OrderInv, ParentFirst
    <3> QED BY <3>2, <3>3
  <2>7. ForkSettled'
    <3> SUFFICES ASSUME NEW m \in Nodes \ {Root}, pc[m] # "none"
                 PROVE  pc[parent[m]] \in {"done", "stillborn"} \/ Unstartable(parent[m])'
      BY <1>1, <1>5 DEF ForkSettled, Unstartable, Queued
    <3>1. parent[m] \in Nodes /\ parent[m] # n
      BY <2>5 DEF QueueInv, OnlyAccepted
    <3>2. Unstartable(parent[m]) => Unstartable(parent[m])'
      BY <1>1, <1>5, <2>3, <3>1 DEF Unstartable, Queued
    <3> QED BY <3>2 DEF OrderInv, ForkSettled
  <2>8. ParentAccepted' /\ UnstartedState'
    BY <1>1, <1>3, <1>5 DEF OrderInv, ParentAccepted, UnstartedState, TypeOK
  <2>9. TreeInv'
    BY <1>4, <2>3 DEF Queued
  <2> QED BY <2>4, <2>6, <2>7, <2>8, <2>9 DEF OrderInv
<1>6. CASE ~isProcessing /\ StartNode(n, pc) /\ UNCHANGED ticket
  <2>1. \A m \in Nodes : ticket'[m] = (IF m = n THEN 0 ELSE ticket[m])
    BY <1>2, <1>6 DEF Queued
  <2>2. n # Root => pc[parent[n]] \in {"done", "stillborn"} \/ Unstartable(parent[n])
    <3> SUFFICES ASSUME n # Root
                 PROVE  pc[parent[n]] \in {"done", "stillborn"} \/ Unstartable(parent[n])
      OBVIOUS
    <3>1. parent[n] \notin Queued
      BY <1>6 DEF QueueInv, QueueWaits
    <3>2. ~(pc[parent[n]] \in {"created", "running", "killing", "draining", "closing"})
      BY <1>3, <1>6 DEF RunnerInv, GateShut, Live
    <3> QED BY <1>3, <3>1, <3>2, ParentSettled DEF TypeOK
  <2>3. pc \in [Nodes -> TaskState]
    BY DEF TypeOK
  <2>4. \A m \in Nodes : pc[m] = pc[m] \/ (Live(m) /\ pc[m] = "done")
    OBVIOUS
  <2>5. OrderInv'
    BY <1>1, <1>2, <1>3, <1>6, <2>1, <2>2, <2>3, <2>4, OrderStarted
  <2> QED BY <1>4, <1>6, <2>5 DEF Queued
<1> QED BY <1>1, <1>5, <1>6 DEF EnqueueAndStart

\* The branch that is cut holds the children of its members.
LEMMA CutGrown ==
  ASSUME TypeOK, NEW b \in Nodes, Grown, UNCHANGED parent, inTree' = inTree \ Descendants(b)
  PROVE  Grown'
<1> SUFFICES ASSUME NEW n \in inTree \ {Root}, n \notin Descendants(b),
                    parent[n] \in Descendants(b)
             PROVE  FALSE
  BY DEF Grown
<1>1. b \in inTree /\ parent[n] \in Reach(b, inTree)
  BY DEF Descendants
<1>2. n \in Reach(b, inTree)
  BY <1>1 DEF Reach, TypeOK
<1> QED BY <1>1, <1>2 DEF Descendants

LEMMA OrderStep ==
  ASSUME ReplyOps
  PROVE  TypeOK /\ QueueInv /\ RunnerInv /\ OrderInv /\ TreeInv /\ [Next]_vars
           => OrderInv' /\ TreeInv'
<1> SUFFICES ASSUME TypeOK, QueueInv, RunnerInv, OrderInv, TreeInv, [Next]_vars
             PROVE  OrderInv' /\ TreeInv'
  OBVIOUS
<1> USE DEF treeVars, queueVars, taskVars, cmdVars
<1>0. TypeOK'
  BY TypeStep
<1>1. ASSUME NEW n \in Nodes, Message(n) PROVE OrderInv' /\ TreeInv'
  <2>1. CASE AcceptMessage(n)
    BY <2>1, AcceptOrder
  <2>2. CASE ReceiveMessage(n) \/ RejectMessage(n) \/ StatusNotSent(n)
    <3>1. /\ UNCHANGED <<state, inTree, registered, ticket, pc, wiping>>
          /\ msg[n] # "accepted" /\ \E s \in {"sending", "dropped"} : msg' = [msg EXCEPT ![n] = s]
          /\ \A m \in Nodes : m # n => parent'[m] = parent[m]
          /\ msg[n] = "new" \/ UNCHANGED parent
      BY <2>2 DEF ReceiveMessage, RejectMessage, StatusNotSent, TypeOK
    <3>2. /\ pc[n] = "none" /\ n \notin Queued /\ n \notin inTree
          /\ \A m \in Nodes : msg'[m] = "accepted" <=> msg[m] = "accepted"
      BY <3>1 DEF QueueInv, OnlyAccepted, Indexed, TypeOK
    <3>3. Accepted' = Accepted
      BY <3>2 DEF Accepted
    <3>4. ForkSettled' /\ ParentAccepted'
      BY <3>1, <3>2 DEF OrderInv, ForkSettled, ParentAccepted, Unstartable, Queued
    <3>5. ParentFirst'
      BY <3>1, <3>2 DEF OrderInv, ParentFirst, Queued
    <3>6. TicketsGiven' /\ UnstartedState'
      BY <3>1, <3>3 DEF OrderInv, TicketsGiven, UnstartedState
    <3>7. TreeInv'
      BY <3>1, <3>2 DEF TreeInv, Grown, WholeOrGone, Queued, TypeOK
    <3> QED BY <3>4, <3>5, <3>6, <3>7 DEF OrderInv
  <2> QED BY <1>1, <2>1, <2>2 DEF Message
<1>2. ASSUME UNCHANGED <<msg, parent, inTree, registered, wiping>>,
             \A m \in Nodes : ticket'[m] \in {ticket[m], 0},
             \A m \in Nodes : pc'[m] = pc[m] \/ (Live(m) /\ pc'[m] # "none"),
             \A m \in Nodes : pc[m] = "none" => state'[m] \in {state[m], "ERROR"}
      PROVE  OrderInv' /\ TreeInv'
  <2>1. OrderInv'
    BY <1>2, OrderKept
  <2> QED BY <1>2, <2>1 DEF TreeInv, Grown, WholeOrGone, Queued
<1>3. ASSUME NEW n \in Nodes, CliExit(n) \/ CliEvent(n) PROVE OrderInv' /\ TreeInv'
  <2>1. /\ pc[n] = "running" /\ pc' \in {pc, [pc EXCEPT ![n] = "closing"]}
        /\ UNCHANGED <<msg, parent, inTree, registered, ticket, wiping>>
    BY <1>3, CliEffect DEF queueVars, cmdVars
  <2>2. \A m \in Nodes : m # n => state'[m] \in {state[m], "ERROR"}
    BY <1>3, CliEffect
  <2>3. \A m \in Nodes : pc'[m] = pc[m] \/ (Live(m) /\ pc'[m] # "none")
    BY <2>1 DEF TypeOK, Live
  <2> QED BY <1>2, <2>1, <2>2, <2>3
<1>4. ASSUME NEW n \in Nodes, LoopStep(n) PROVE OrderInv' /\ TreeInv'
  <2>1. CASE SkipTask(n) \/ SessionRemoved(n)
    BY <1>0, <2>1, ProcessNextOrder DEF SkipTask, SessionRemoved, FinishTask, Live
  <2>2. CASE DeliverCancel(n) /\ pc[n] = "closing"
    BY <1>0, <2>2, ProcessNextOrder DEF DeliverCancel, FinishTask, Live
  <2>3. CASE BeginTask(n) \/ CliKilled(n) \/ Drained(n)
             \/ (DeliverCancel(n) /\ pc[n] # "closing")
    <3>1. /\ UNCHANGED <<msg, parent, inTree, registered, ticket, wiping>>
          /\ pc[n] # "none" /\ Live(n)
          /\ \E s \in {"running", "draining", "closing", "stillborn", "killing"} :
               pc' = [pc EXCEPT ![n] = s]
      BY <2>3 DEF BeginTask, CliKilled, Drained, DeliverCancel, HandleCancelled, Live
    <3>2. \A m \in Nodes : m # n => state'[m] = state[m]
      BY <2>3 DEF TypeOK, BeginTask, CliKilled, Drained, DeliverCancel, HandleCancelled,
         UpdateState
    <3>3. \A m \in Nodes : pc'[m] = pc[m] \/ (Live(m) /\ pc'[m] # "none")
      BY <3>1 DEF TypeOK
    <3> QED BY <1>2, <3>1, <3>2, <3>3
  <2> QED BY <1>4, <2>1, <2>2, <2>3 DEF LoopStep
<1>5. ASSUME NEW n \in Nodes, StopTask(n) \/ ClearBranch(n) PROVE OrderInv' /\ TreeInv'
  <2>1. UNCHANGED <<msg, parent, inTree, registered, wiping, pc>>
    BY <1>5 DEF StopTask, ClearBranch
  <2>2. \A m \in Nodes : ticket'[m] \in {ticket[m], 0}
    BY <1>5 DEF StopTask, ClearBranch, Without
  <2>3. \A m \in Nodes : state'[m] \in {state[m], "ERROR"}
    BY <1>5 DEF StopTask, ClearBranch, MarkStopped
  <2> QED BY <1>2, <2>1, <2>2, <2>3
<1>6. CASE RemoveBranch
  <2>0. UNCHANGED <<msg, parent, pc, wiping>>
    BY <1>6 DEF RemoveBranch
  <2>1. CASE UNCHANGED <<treeVars, queueVars, cancelling, stopped>>
    BY <1>2, <2>0, <2>1
  <2>2. CASE CancelTree /\ registered' = {} /\ UNCHANGED <<inTree, currentTask>>
             /\ Root \in registered
    <3>1. /\ \A m \in Nodes : ticket'[m] = 0 /\ state'[m] \in {state[m], "ERROR"}
          /\ Queued' = {}
      BY <2>2 DEF CancelTree, MarkStopped, Without, Queued
    <3>2. OrderInv'
      BY <2>0, <3>1, OrderKept
    <3>3. msg[Root] = "accepted"
      BY <2>2 DEF QueueInv, Indexed
    <3> QED BY <2>0, <2>2, <3>1, <3>2, <3>3 DEF TreeInv, Grown, WholeOrGone
  <2>3. CASE /\ CutBranch(clearing) /\ clearing \in registered
             /\ UNCHANGED <<state, queueVars, cancelling, stopped>>
    <3>1. OrderInv'
      BY <2>0, <2>3, OrderKept
    <3>2. clearing \in Nodes
      BY <2>3 DEF TypeOK
    <3>3. Grown'
      BY <2>0, <2>3, <3>2, CutGrown DEF CutBranch, TreeInv
    <3>4. WholeOrGone'
      BY <2>0, <2>3 DEF CutBranch, TreeInv, WholeOrGone, Queued
    <3> QED BY <2>0, <3>1, <3>3, <3>4 DEF TreeInv
  <2> QED BY <1>6, <2>1, <2>2, <2>3, Zenon DEF RemoveBranch, treeVars
<1>7. CASE UNCHANGED vars
  BY <1>2, <1>7 DEF vars
<1>8. ~StopAll /\ ~ClearAll /\ ~ReplaceTreeQueue
  BY DEF ReplyOps, StopAll, ClearAll, ReplaceTreeQueue, TreeInv
<1> QED BY <1>1, <1>3, <1>4, <1>5, <1>6, <1>7, <1>8, Zenon DEF Next, Command

\* The order in which replies are let in and started is kept.
LEMMA OrderInvariant ==
  ASSUME ReplyOps
  PROVE  Spec => [](OrderInv /\ TreeInv)
<1>1. Init => OrderInv /\ TreeInv
  <2> SUFFICES ASSUME Init PROVE OrderInv /\ TreeInv
    OBVIOUS
  <2>1. Accepted = {} /\ Queued = {}
    BY DEF Init, Accepted, Queued
  <2>2. TicketsGiven
    BY <2>1, FS_EmptySet DEF Init, TicketsGiven
  <2>3. ~wiping
    BY Zenon DEF Init
  <2>4. Grown /\ WholeOrGone /\ ForkSettled /\ ParentAccepted /\ UnstartedState
    BY DEF Init, Grown, WholeOrGone, ForkSettled, ParentAccepted, UnstartedState
  <2> QED BY <2>1, <2>2, <2>3, <2>4 DEF OrderInv, TreeInv, ParentFirst
<1>2. TypeOK /\ QueueInv /\ RunnerInv /\ OrderInv /\ TreeInv /\ [Next]_vars
        => OrderInv' /\ TreeInv'
  BY OrderStep
<1>3. Spec => [](TypeOK /\ QueueInv /\ RunnerInv /\ StopInv)
  BY ReplyInvariant
<1> QED BY <1>1, <1>2, <1>3, PTL DEF Spec

\* A reply starts only when its parent is settled, whatever was stopped in
\* between: the session id it forks from is final (handler.py reads it from the
\* parent's node when the task begins).  A /stop of everything does not keep this.
THEOREM ForkAfterParentTheorem ==
  ASSUME ReplyOps
  PROVE  Spec => []ForkAfterParent
<1>1. OrderInv => ForkAfterParent
  BY DEF OrderInv, ForkSettled, ForkAfterParent, Unstartable
<1> QED BY <1>1, OrderInvariant, PTL

-----------------------------------------------------------------------------
(* Without commands the queue is a first-in first-out server *)

Numbered(Q, t) ==
  /\ IsFiniteSet(Q)
  /\ \A n \in Q : t[n] \in Nat
  /\ \A m, n \in Q : t[m] = t[n] => m = n

\* The ranks of the members are the numbers up to the cardinality, each once.
LEMMA RankFacts ==
  ASSUME NEW Q, NEW t, Numbered(Q, t)
  PROVE  /\ Cardinality(Q) \in Nat
         /\ \A n \in Q : Rank(n, Q, t) \in 1 .. Cardinality(Q)
         /\ \A m, n \in Q : Rank(m, Q, t) = Rank(n, Q, t) => m = n
         /\ \A i \in 1 .. Cardinality(Q) : \E n \in Q : Rank(n, Q, t) = i
<1> DEFINE UpTo(n) == {m \in Q : t[m] <= t[n]}
<1>1. /\ Cardinality(Q) \in Nat
      /\ \A n \in Q : IsFiniteSet(UpTo(n)) /\ Cardinality(UpTo(n)) \in 0 .. Cardinality(Q)
  BY FS_Subset, FS_CardinalityType DEF Numbered
<1>2. \A n \in Q : n \in UpTo(n)
  BY DEF Numbered
<1>3. \A n \in Q : Cardinality(UpTo(n)) # 0
  BY <1>1, <1>2, FS_EmptySet
<1>4. ASSUME NEW m \in Q, NEW n \in Q, t[m] < t[n]
      PROVE  Cardinality(UpTo(m)) # Cardinality(UpTo(n))
  <2>1. UpTo(m) \in SUBSET UpTo(n) /\ n \notin UpTo(m)
    BY <1>4 DEF Numbered
  <2> QED BY <1>1, <1>2, <2>1, FS_Subset
<1>5. ASSUME NEW m \in Q, NEW n \in Q, Cardinality(UpTo(m)) = Cardinality(UpTo(n))
      PROVE  m = n
  <2>1. ~(t[m] < t[n]) /\ ~(t[n] < t[m])
    BY <1>4, <1>5
  <2> QED BY <2>1 DEF Numbered
<1>6. \A n \in Q : Rank(n, Q, t) = Cardinality(UpTo(n))
  BY DEF Rank
<1> HIDE DEF UpTo
<1>7. /\ \A n \in Q : Rank(n, Q, t) \in 1 .. Cardinality(Q)
      /\ \A m, n \in Q : Rank(m, Q, t) = Rank(n, Q, t) => m = n
  BY <1>1, <1>3, <1>5, <1>6
<1>8. \A i \in 1 .. Cardinality(Q) : \E n \in Q : Rank(n, Q, t) = i
  <2> DEFINE f == [n \in Q |-> Rank(n, Q, t)]
             T == 1 .. Cardinality(Q)
  <2>1. f \in Injection(Q, T)
    BY <1>7 DEF Injection, IsInjective
  <2>2. IsFiniteSet(T) /\ Cardinality(T) = Cardinality(Q)
    BY <1>1, FS_Interval
  <2> HIDE DEF f, T
  <2>3. f \in Surjection(Q, T)
    BY <2>1, <2>2, FS_Injection
  <2>4. \A i \in T : \E n \in Q : f[n] = i
    BY <2>3 DEF Surjection
  <2> QED BY <2>4 DEF f, T
<1> QED BY <1>1, <1>7, <1>8

\* Each place of the order holds the member of that rank.
LEMMA InOrderFacts ==
  ASSUME NEW Q, NEW t, Numbered(Q, t)
  PROVE  /\ InOrder(Q, t) \in Seq(Q) /\ Len(InOrder(Q, t)) = Cardinality(Q)
         /\ \A i \in 1 .. Cardinality(Q) : Rank(InOrder(Q, t)[i], Q, t) = i
         /\ \A n \in Q : InOrder(Q, t)[Rank(n, Q, t)] = n
<1>1. Cardinality(Q) \in Nat /\ InOrder(Q, t) = [i \in 1 .. Cardinality(Q) |-> InOrder(Q, t)[i]]
  BY RankFacts DEF InOrder
<1>2. \A i \in 1 .. Cardinality(Q) :
        InOrder(Q, t)[i] \in Q /\ Rank(InOrder(Q, t)[i], Q, t) = i
  BY RankFacts DEF InOrder
<1>3. \A n \in Q : InOrder(Q, t)[Rank(n, Q, t)] = n
  BY <1>2, RankFacts
<1>4. InOrder(Q, t) \in [1 .. Cardinality(Q) -> Q]
  BY <1>1, <1>2
<1> QED BY <1>1, <1>2, <1>3, <1>4

\* What gets the highest number comes last.
LEMMA OrderAppended ==
  ASSUME NEW Q, NEW t, NEW u, NEW n, n \notin Q, Numbered(Q, t),
         \A m \in Q : u[m] = t[m] /\ t[m] < u[n], u[n] \in Nat
  PROVE  InOrder(Q \cup {n}, u) = Append(InOrder(Q, t), n)
<1> DEFINE R == Q \cup {n}
           k == Cardinality(Q)
<1>1. k \in Nat /\ Cardinality(R) = k + 1 /\ Numbered(R, u)
  BY FS_AddElement, FS_CardinalityType DEF Numbered
<1>2. ASSUME NEW m \in Q PROVE Rank(m, R, u) = Rank(m, Q, t)
  <2>1. {j \in R : u[j] <= u[m]} = {j \in Q : t[j] <= t[m]}
    BY DEF Numbered
  <2> QED BY <2>1 DEF Rank
<1>3. Rank(n, R, u) = k + 1
  <2>1. {j \in R : u[j] <= u[n]} = R
    BY DEF Numbered
  <2> QED BY <1>1, <2>1 DEF Rank
<1> HIDE DEF k, R
<1>4. /\ InOrder(R, u) \in Seq(R) /\ Len(InOrder(R, u)) = k + 1
      /\ \A m \in R : InOrder(R, u)[Rank(m, R, u)] = m
  BY <1>1, InOrderFacts
<1>5. /\ InOrder(Q, t) \in Seq(Q) /\ Len(InOrder(Q, t)) = k
      /\ \A i \in 1 .. k : Rank(InOrder(Q, t)[i], Q, t) = i
  BY InOrderFacts DEF k
<1>6. \A i \in 1 .. k : InOrder(R, u)[i] = InOrder(Q, t)[i]
  <2> SUFFICES ASSUME NEW i \in 1 .. k PROVE InOrder(R, u)[i] = InOrder(Q, t)[i]
    OBVIOUS
  <2>1. InOrder(Q, t)[i] \in Q
    BY <1>5
  <2>2. Rank(InOrder(Q, t)[i], R, u) = i
    BY <1>2, <1>5, <2>1
  <2> QED BY <1>4, <2>1, <2>2 DEF R
<1>7. InOrder(R, u)[k + 1] = n
  BY <1>3, <1>4 DEF R
<1>8. InOrder(R, u) \in Seq(R) /\ InOrder(Q, t) \in Seq(R) /\ n \in R
  BY <1>4, <1>5, SeqMonotonic DEF R
<1> HIDE DEF R
<1>9. InOrder(R, u) = Append(InOrder(Q, t), n)
  BY <1>1, <1>4, <1>5, <1>6, <1>7, <1>8
<1> QED BY <1>9 DEF R

\* What has the lowest number comes first, before the order of the rest.
LEMMA OrderTail ==
  ASSUME NEW Q, NEW t, NEW u, NEW n \in Q, Numbered(Q, t),
         \A m \in Q : t[n] <= t[m], \A m \in Q \ {n} : u[m] = t[m]
  PROVE  /\ InOrder(Q, t) # <<>> /\ Head(InOrder(Q, t)) = n
         /\ InOrder(Q \ {n}, u) = Tail(InOrder(Q, t))
<1> DEFINE R == Q \ {n}
           k == Cardinality(R)
<1>1. k \in Nat /\ Cardinality(Q) = k + 1 /\ Numbered(R, u) /\ IsFiniteSet(R)
  <2>1. IsFiniteSet(Q) /\ IsFiniteSet(R) /\ Cardinality(R) = Cardinality(Q) - 1
    BY FS_RemoveElement DEF Numbered
  <2>2. k \in Nat /\ Cardinality(Q) \in Nat
    BY <2>1, FS_CardinalityType
  <2>3. Numbered(R, u)
    BY <2>1 DEF Numbered
  <2> QED BY <2>1, <2>2, <2>3
<1>2. ASSUME NEW m \in R PROVE Rank(m, Q, t) = Rank(m, R, u) + 1
  <2>1. {j \in Q : t[j] <= t[m]} = {j \in R : u[j] <= u[m]} \cup {n}
    BY DEF Numbered
  <2>2. IsFiniteSet({j \in R : u[j] <= u[m]})
    BY <1>1, FS_Subset
  <2>3. n \notin {j \in R : u[j] <= u[m]}
    OBVIOUS
  <2> QED BY <2>1, <2>2, <2>3, FS_AddElement DEF Rank
<1>3. Rank(n, Q, t) = 1
  <2>1. {j \in Q : t[j] <= t[n]} = {n}
    BY DEF Numbered
  <2> QED BY <2>1, FS_Singleton DEF Rank
<1> HIDE DEF k, R
<1>4. /\ InOrder(Q, t) \in Seq(Q) /\ Len(InOrder(Q, t)) = k + 1
      /\ \A m \in Q : InOrder(Q, t)[Rank(m, Q, t)] = m
  BY <1>1, InOrderFacts
<1>5. /\ InOrder(R, u) \in Seq(R) /\ Len(InOrder(R, u)) = k
      /\ \A i \in 1 .. k : Rank(InOrder(R, u)[i], R, u) = i
  BY <1>1, InOrderFacts DEF k
<1>6. \A i \in 1 .. k : InOrder(R, u)[i] = InOrder(Q, t)[i + 1]
  <2> SUFFICES ASSUME NEW i \in 1 .. k PROVE InOrder(R, u)[i] = InOrder(Q, t)[i + 1]
    OBVIOUS
  <2>1. InOrder(R, u)[i] \in R
    BY <1>5
  <2>2. Rank(InOrder(R, u)[i], Q, t) = i + 1
    BY <1>2, <1>5, <2>1
  <2> QED BY <1>4, <2>1, <2>2 DEF R
<1>7. InOrder(Q, t)[1] = n
  BY <1>3, <1>4
<1>8. InOrder(Q, t) \in Seq(Q) /\ InOrder(R, u) \in Seq(Q) /\ InOrder(Q, t) # <<>>
  BY <1>1, <1>4, <1>5, SeqMonotonic DEF R
<1>9. InOrder(R, u) = Tail(InOrder(Q, t)) /\ Head(InOrder(Q, t)) = n
  BY <1>1, <1>4, <1>5, <1>6, <1>7, <1>8
<1> QED BY <1>8, <1>9 DEF R

LEMMA OrderEmpty == ASSUME NEW t PROVE InOrder({}, t) = <<>>
<1>1. Numbered({}, t) /\ Cardinality({}) = 0
  BY FS_EmptySet DEF Numbered
<1>2. InOrder({}, t) \in Seq({}) /\ Len(InOrder({}, t)) = 0
  BY <1>1, InOrderFacts
<1> QED BY <1>2

Idle ==
  ~isProcessing /\ currentNode = NoNode /\ Queued = {} /\ \A n \in Nodes : ~Live(n)

Working ==
  isProcessing /\ currentNode \in Nodes /\ currentNode = currentTask /\ Live(currentNode)

\* What no command has touched: a server with a job, or an idle one.
ServerInv ==
  /\ cancelling = {} /\ clearing = NoNode /\ ~wiping
  /\ registered = inTree /\ \A n \in Nodes : msg[n] = "accepted" => n \in inTree
  /\ Numbered(Queued, ticket)
  /\ Idle \/ Working

\* Between the end of a task and the next start or arrival the server is not seen
\* to do anything.
LEMMA ServerStutters ==
  ASSUME ServerInv, UNCHANGED <<ticket, isProcessing, currentNode, currentTask, inTree,
                                registered, cancelling, clearing, wiping>>,
         \A m \in Nodes : msg'[m] = "accepted" <=> msg[m] = "accepted",
         \A m \in Nodes : Live(m)' <=> Live(m)
  PROVE  ServerInv' /\ UNCHANGED Server!vars
<1>1. Queued' = Queued /\ Accepted' = Accepted
  BY DEF Queued, Accepted
<1>2. {n \in Nodes : Live(n)}' = {n \in Nodes : Live(n)}
  OBVIOUS
<1>3. InOrder(Queued, ticket)' = InOrder(Queued, ticket)
  BY <1>1 DEF InOrder, Rank
<1>4. Idle' \/ Working'
  BY <1>1, Zenon DEF ServerInv, Idle, Working
<1>5. Numbered(Queued, ticket)'
  BY <1>1 DEF ServerInv, Numbered
<1> QED BY <1>1, <1>2, <1>3, <1>4, <1>5 DEF ServerInv, Server!vars

\* A message that is let in arrives at the server.
LEMMA AcceptArrives ==
  ASSUME TypeOK, QueueInv, OrderInv, ServerInv, NEW n \in Nodes, AcceptMessage(n)
  PROVE  ServerInv' /\ Server!Arrive(n)
<1>1. /\ msg[n] = "sending" /\ msg' = [msg EXCEPT ![n] = "accepted"]
      /\ inTree' = inTree \cup {n} /\ registered' = registered \cup {n}
      /\ UNCHANGED <<cancelling, clearing, wiping>> /\ EnqueueAndStart(n)
  BY DEF AcceptMessage, AddNode, cmdVars
<1>2. pc[n] = "none" /\ n \notin Queued /\ ticket[n] = 0
  BY <1>1 DEF QueueInv, OnlyAccepted, Queued
<1>3. n \notin Accepted /\ Accepted' = Accepted \cup {n}
  BY <1>1 DEF Accepted, TypeOK
<1>4. /\ registered' = inTree' /\ \A m \in Nodes : msg'[m] = "accepted" => m \in inTree'
      /\ cancelling' = {} /\ clearing' = NoNode /\ ~wiping'
  BY <1>1 DEF ServerInv, TypeOK
<1>5. CASE isProcessing /\ PutLast(n) /\ UNCHANGED <<isProcessing, currentNode, currentTask, pc>>
  <2>1. /\ ticket'[n] = Cardinality(Accepted) + 1 /\ Cardinality(Accepted) \in Nat
        /\ \A m \in Nodes : m # n => ticket'[m] = ticket[m]
    BY <1>5, FS_Subset, FS_CardinalityType DEF PutLast, TypeOK, Accepted
  <2>2. Queued' = Queued \cup {n}
    BY <2>1 DEF Queued
  <2>3. \A m \in Queued : /\ m \in Nodes /\ m # n /\ ticket'[m] = ticket[m]
                          /\ ticket[m] \in Nat /\ ticket[m] < ticket'[n]
    BY <1>2, <2>1 DEF Queued, OrderInv, TicketsGiven, TypeOK
  <2>4. InOrder(Queued', ticket') = Append(InOrder(Queued, ticket), n)
    BY <1>2, <2>1, <2>2, <2>3, OrderAppended DEF ServerInv
  <2>5. Numbered(Queued', ticket')
    <3>1. IsFiniteSet(Queued')
      BY <2>2, FS_AddElement DEF ServerInv, Numbered
    <3> QED BY <2>1, <2>2, <2>3, <3>1 DEF ServerInv, Numbered
  <2>6. Working /\ Working'
    BY <1>5, Zenon DEF ServerInv, Idle, Working, Live
  <2>7. {m \in Nodes : Live(m)}' = {m \in Nodes : Live(m)}
    BY <1>5 DEF Live
  <2>8. currentNode # NoNode /\ UNCHANGED currentNode
    BY <1>5, <2>6 DEF Working
  <2>9. Server!Arrive(n)
    BY <1>3, <2>4, <2>7, <2>8 DEF Server!Arrive
  <2> QED BY <1>4, <2>5, <2>6, <2>9 DEF ServerInv
<1>6. CASE ~isProcessing /\ StartNode(n, pc) /\ UNCHANGED ticket
  <2>1. /\ isProcessing' = TRUE /\ currentNode' = n /\ currentTask' = n
        /\ pc' = [pc EXCEPT ![n] = "created"]
    BY <1>6 DEF StartNode
  <2>2. pc'[n] = "created" /\ \A m \in Nodes : m # n => pc'[m] = pc[m]
    BY <2>1 DEF TypeOK
  <2>3. Idle
    BY <1>6, Zenon DEF ServerInv, Working
  <2>4. {m \in Nodes : Live(m)}' = {n}
    BY <2>2, <2>3 DEF Idle, Live
  <2>5. Queued' = Queued
    BY <1>6 DEF Queued
  <2>6. InOrder(Queued, ticket)' = InOrder(Queued, ticket)
    BY <1>6, <2>5 DEF InOrder, Rank
  <2>7. Server!Arrive(n)
    BY <1>3, <2>1, <2>3, <2>4, <2>6 DEF Server!Arrive, Server!Serve, Idle
  <2>8. Numbered(Queued', ticket')
    BY <1>6, <2>5 DEF ServerInv
  <2>9. Live(n)'
    BY <2>2 DEF Live
  <2>10. Working'
    BY <2>1, <2>9, Zenon DEF Working
  <2> QED BY <1>4, <2>7, <2>8, <2>10 DEF ServerInv
<1> QED BY <1>1, <1>5, <1>6, Zenon DEF EnqueueAndStart

\* A task that ends: the server takes the oldest waiting job.
LEMMA FinishServes ==
  ASSUME TypeOK, QueueInv, RunnerInv, ServerInv, NEW t \in Nodes, Live(t),
         ProcessNext([pc EXCEPT ![t] = "done"]),
         UNCHANGED <<msg, inTree, registered, cancelling, clearing, wiping>>
  PROVE  ServerInv' /\ Server!Finish
<1> DEFINE over == [pc EXCEPT ![t] = "done"]
<1>1. /\ over \in [Nodes -> TaskState]
      /\ \A m \in Nodes : ~(over[m] \in {"created", "running", "killing", "draining", "closing"})
  BY DEF TypeOK, TaskState, RunnerInv, OnlyTheLastTask, Live
<1>2. Working /\ t = currentNode /\ {m \in Nodes : Live(m)} = {currentNode}
  BY DEF ServerInv, Idle, Working, RunnerInv, OnlyTheLastTask
<1> HIDE DEF over
<1>3. Accepted' = Accepted
  BY DEF Accepted
<1>4. CASE Queued = {} /\ isProcessing' = FALSE /\ currentNode' = NoNode /\ pc' = over
           /\ UNCHANGED <<ticket, currentTask>>
  <2>1. Queued' = {}
    BY <1>4 DEF Queued
  <2>2. InOrder(Queued, ticket) = <<>> /\ InOrder(Queued, ticket)' = <<>>
    BY <1>4, <2>1, OrderEmpty
  <2>3. {m \in Nodes : Live(m)}' = {}
    BY <1>1, <1>4 DEF Live
  <2>4. Server!Finish
    BY <1>2, <1>3, <1>4, <2>2, <2>3 DEF Server!Finish
  <2>5. Idle'
    BY <1>1, <1>4, <2>1 DEF Idle, Live
  <2>6. Numbered(Queued', ticket')
    BY <2>1, FS_EmptySet DEF Numbered
  <2> QED BY <2>4, <2>5, <2>6 DEF ServerInv
<1>5. ASSUME NEW n \in Nodes, IsHead(n), StartNode(n, over), ticket' = Without({n})
      PROVE  ServerInv' /\ Server!Finish
  <2>1. /\ isProcessing' = TRUE /\ currentNode' = n /\ currentTask' = n
        /\ pc' = [over EXCEPT ![n] = "created"]
    BY <1>5 DEF StartNode
  <2>2. pc'[n] = "created" /\ \A m \in Nodes : m # n => pc'[m] = over[m]
    BY <1>1, <2>1
  <2>3. {m \in Nodes : Live(m)}' = {n}
    BY <1>1, <2>2 DEF Live
  <2>4. /\ n \in Queued /\ \A m \in Queued : ticket[n] <= ticket[m]
        /\ Queued' = Queued \ {n} /\ \A m \in Queued \ {n} : ticket'[m] = ticket[m]
    BY <1>5 DEF IsHead, Without, Queued
  <2>5. /\ InOrder(Queued, ticket) # <<>> /\ Head(InOrder(Queued, ticket)) = n
        /\ InOrder(Queued, ticket)' = Tail(InOrder(Queued, ticket))
    BY <2>4, OrderTail DEF ServerInv
  <2>6. Server!Finish
    BY <1>2, <1>3, <2>1, <2>3, <2>5 DEF Server!Finish, Server!Serve
  <2>7. Numbered(Queued', ticket')
    BY <2>4, FS_Subset DEF ServerInv, Numbered
  <2>8. Live(n)'
    BY <2>2 DEF Live
  <2>9. Working'
    BY <2>1, <2>8, Zenon DEF Working
  <2> QED BY <2>6, <2>7, <2>9 DEF ServerInv
<1>6. \A n \in Nodes : IsHead(n) => n \in inTree
  BY DEF IsHead, QueueInv, OnlyAccepted, ServerInv
<1> QED BY <1>4, <1>5, <1>6, Zenon DEF ProcessNext, over

LEMMA ServerStep ==
  ASSUME Ops = {}
  PROVE  TypeOK /\ QueueInv /\ RunnerInv /\ OrderInv /\ ServerInv /\ [Next]_vars
           => ServerInv' /\ [Server!Next]_Server!vars
<1> SUFFICES ASSUME TypeOK, QueueInv, RunnerInv, OrderInv, ServerInv, [Next]_vars
             PROVE  ServerInv' /\ [Server!Next]_Server!vars
  OBVIOUS
<1> USE DEF treeVars, queueVars, taskVars, cmdVars
<1>1. ASSUME NEW n \in Nodes, Message(n) PROVE ServerInv' /\ [Server!Next]_Server!vars
  <2>1. CASE AcceptMessage(n)
    BY <2>1, AcceptArrives DEF Server!Next
  <2>2. CASE ReceiveMessage(n) \/ RejectMessage(n) \/ StatusNotSent(n)
    <3>1. /\ UNCHANGED <<inTree, registered, queueVars, pc, cancelling, clearing, wiping>>
          /\ msg[n] # "accepted" /\ \E s \in {"sending", "dropped"} : msg' = [msg EXCEPT ![n] = s]
      BY <2>2 DEF ReceiveMessage, RejectMessage, StatusNotSent
    <3>2. \A m \in Nodes : msg'[m] = "accepted" <=> msg[m] = "accepted"
      BY <3>1 DEF TypeOK
    <3>3. \A m \in Nodes : Live(m)' <=> Live(m)
      BY <3>1 DEF Live
    <3> QED BY <3>1, <3>2, <3>3, ServerStutters
  <2> QED BY <1>1, <2>1, <2>2 DEF Message
<1>2. ASSUME NEW n \in Nodes, CliExit(n) \/ CliEvent(n)
      PROVE  ServerInv' /\ [Server!Next]_Server!vars
  <2>1. /\ pc[n] = "running" /\ pc' \in {pc, [pc EXCEPT ![n] = "closing"]}
        /\ UNCHANGED <<msg, inTree, registered, queueVars, cancelling, clearing, wiping>>
    BY <1>2, CliEffect
  <2>2. \A m \in Nodes : Live(m)' <=> Live(m)
    BY <2>1 DEF Live, TypeOK
  <2> QED BY <2>1, <2>2, ServerStutters
<1>3. ASSUME NEW n \in Nodes, LoopStep(n) PROVE ServerInv' /\ [Server!Next]_Server!vars
  <2>1. CASE SkipTask(n) \/ SessionRemoved(n)
    BY <2>1, FinishServes DEF SkipTask, SessionRemoved, FinishTask, Live, Server!Next
  <2>2. CASE BeginTask(n) \/ CliKilled(n) \/ Drained(n)
    <3>1. /\ UNCHANGED <<msg, inTree, registered, queueVars, cancelling, clearing, wiping>>
          /\ Live(n) /\ \E s \in {"running", "draining", "closing"} : pc' = [pc EXCEPT ![n] = s]
      BY <2>2 DEF BeginTask, CliKilled, Drained, HandleCancelled, Live
    <3>2. \A m \in Nodes : Live(m)' <=> Live(m)
      BY <3>1 DEF Live, TypeOK
    <3> QED BY <3>1, <3>2, ServerStutters
  <2>3. ~DeliverCancel(n)
    BY DEF DeliverCancel, ServerInv
  <2> QED BY <1>3, <2>1, <2>2, <2>3 DEF LoopStep
<1>4. ~Command
  BY DEF Command, StopTask, StopNames, ClearBranch, StopAll, RemoveBranch, ClearAll,
     ReplaceTreeQueue, ServerInv
<1>5. CASE UNCHANGED vars
  BY <1>5, ServerStutters DEF vars, Live
<1> QED BY <1>1, <1>2, <1>3, <1>4, <1>5 DEF Next

\* Without commands the queue processor implements a first-in first-out server,
\* that works on one message at a time, of any set of messages (queue_manager.py:
\* enqueue, _process_next, process_node): the safety half of FifoProgress.
THEOREM FifoOrder ==
  ASSUME Ops = {}
  PROVE  Spec => Server!Spec
<1>1. ReplyOps
  BY DEF ReplyOps
<1>2. Init => ServerInv /\ Server!Init
  <2> SUFFICES ASSUME Init PROVE ServerInv /\ Server!Init
    OBVIOUS
  <2>1. Accepted = {} /\ Queued = {} /\ {n \in Nodes : Live(n)} = {}
    BY DEF Init, Accepted, Queued, Live
  <2>2. InOrder(Queued, ticket) = <<>> /\ Numbered(Queued, ticket)
    BY <2>1, OrderEmpty, FS_EmptySet DEF Numbered
  <2>3. ~wiping /\ ~isProcessing
    BY Zenon DEF Init
  <2>4. Server!Init
    BY <2>1, <2>2 DEF Init, Server!Init
  <2> QED BY <2>1, <2>2, <2>3, <2>4 DEF Init, ServerInv, Idle
<1>3. TypeOK /\ QueueInv /\ RunnerInv /\ OrderInv /\ ServerInv /\ [Next]_vars
        => ServerInv' /\ [Server!Next]_Server!vars
  BY ServerStep
<1>4. Spec => [](TypeOK /\ QueueInv /\ RunnerInv /\ StopInv)
  BY <1>1, ReplyInvariant
<1>5. Spec => [](OrderInv /\ TreeInv)
  BY <1>1, OrderInvariant
<1> QED BY <1>2, <1>3, <1>4, <1>5, PTL DEF Spec, Server!Spec
=============================================================================
