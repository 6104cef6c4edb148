---------------------------- MODULE MCTreeQueue ----------------------------
(* TreeQueue with small sets of messages. *)
EXTENDS TreeQueue, TLC

CONSTANTS n1, n2, n3, n4

MCNodes3 == {n1, n2, n3}
MCNodes4 == {n1, n2, n3, n4}

\* Replies are interchangeable; the root is not.
Replies == Permutations(Nodes \ {Root})

\* Of what may happen, only what surely does: a cancellation is delivered in the
\* loop's next pass, and kills the CLI of a running task; a task whose CLI is gone
\* removes its session without a wait.
Prompt ==
  /\ cancelling # {} =>
       \E n \in Nodes : DeliverCancel(n) /\ pc'[n] \in {"stillborn", "killing"}
  /\ \A n \in Nodes : pc[n] = "closing" => SessionRemoved(n)

PromptSpec == Init /\ [][Next /\ Prompt]_vars
=============================================================================
