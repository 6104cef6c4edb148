----------------------------- MODULE FifoServer -----------------------------
(***************************************************************************)
(* What the queue of a conversation promises: jobs are served one at a     *)
(* time, all of them, in the order they arrive.                            *)
(***************************************************************************)
EXTENDS Sequences

CONSTANTS Jobs, NoJob

VARIABLES
  arrived,   \* the jobs that have arrived
  waiting,   \* those not served yet, oldest first
  serving,   \* the job the server is at, or NoJob
  working    \* the jobs being worked on

vars == <<arrived, waiting, serving, working>>

Init == arrived = {} /\ waiting = <<>> /\ serving = NoJob /\ working = {}

Serve(j) == serving' = j /\ working' = {j}

Arrive(j) ==
  /\ j \notin arrived
  /\ arrived' = arrived \cup {j}
  /\ \/ serving = NoJob /\ Serve(j) /\ UNCHANGED waiting
     \/ serving # NoJob /\ waiting' = Append(waiting, j) /\ UNCHANGED <<serving, working>>

\* The job at the server is over: the oldest waiting one, if any, is next.
Finish ==
  /\ working = {serving}
  /\ \/ /\ waiting = <<>>
        /\ serving' = NoJob /\ working' = {}
        /\ UNCHANGED waiting
     \/ /\ waiting # <<>>
        /\ Serve(Head(waiting))
        /\ waiting' = Tail(waiting)
  /\ UNCHANGED arrived

Next == Finish \/ \E j \in Jobs : Arrive(j)

Spec == Init /\ [][Next]_vars

FairSpec == Spec /\ WF_vars(Finish)
=============================================================================
