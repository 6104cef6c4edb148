------------------------- MODULE ConversationProofs -------------------------
(***************************************************************************)
(* The properties of ChatTurns for any turns, trees, notes and numbers of  *)
(* cancellations, and of SessionStore, which keeps the conversation, for   *)
(* any messages, timer threads and faults; and of RequestBuilding, for any *)
(* history and any schema.                                                 *)
(*                                                                         *)
(* A process is tied to its turn through the lock of its CLISession        *)
(* (ProcessInv); an entry of the manager to a turn through the id under    *)
(* which the turn will remove it (EntriesInv), which takes that a reported *)
(* id is in use only once its turn has registered it (IdsInv) and only in  *)
(* the tree of that turn (TreesInv). What a restart restores is indexed    *)
(* because memory, file and every write under way are (AllIndexed).        *)
(***************************************************************************)
EXTENDS ChatTurns, SessionStore, RequestBuilding, SequenceTheorems, FiniteSetTheorems,
        WellFoundedInduction, TLAPS

(* The turns of a conversation *)

Unstarted == {"sent", "transcribing", "dropped", "queued"}
Holding == {"reading", "registering", "handling", "ending", "unwinding", "removing"}
Phases == Unstarted \cup Holding \cup Killing \cup {"locked", "spawning", "stopping", "done"}

RealIds == {Real(t) : t \in Turns}

TypeOK ==
  /\ phase \in [Turns -> Phases]
  /\ using \in [Turns -> Turns \cup {None}]
  /\ captured \in [Turns -> RealIds \cup {None}] /\ temp \in [Turns -> Ids \cup {None}]
  /\ freed \in [Turns -> BOOLEAN] /\ missed \in [Turns -> BOOLEAN]
  /\ recorded \in [Turns -> RealIds \cup {None}]
  /\ sessions \in [Ids -> Turns \cup {None}] /\ pending \in [Ids -> Turns \cup {None}]
  /\ temp_to_real \in [Ids -> RealIds \cup {None}]
  /\ lock \in Turns \cup {"stop_all", None}
  /\ process \in [Turns -> {"none", "running", "terminated", "ended"}]
  /\ current \in [Turns -> Turns \cup {None}] /\ cli_lock \in [Turns -> Turns \cup {None}]
  /\ to_stop \subseteq Turns

-----------------------------------------------------------------------------
(* Notes: who was told is no longer registered, and not handed on. *)

NotesInv ==
  /\ \A t \in voice \cup told : phase[t] \in {"transcribing", "dropped"}
  /\ voice \cap told = {} /\ voice \cup told \subseteq Turns

-----------------------------------------------------------------------------
(* Processes *)

\* What a turn holds before it has begun, and from then on.
StartedInv ==
  \A t \in Turns :
    /\ phase[t] \in Unstarted =>
         captured[t] = None /\ temp[t] = None /\ process[t] = "none"
    /\ Live(t) => using[t] \in Turns /\ (captured[t] # None \/ temp[t] # None)
    /\ t \in Ended => phase[t] = "done" /\ process[t] = "none"

\* While its process runs, a turn holds the lock of the CLISession that refers to
\* the process, and will remove it.
ProcessInv ==
  \A t \in Turns :
    /\ phase[t] \in {"locked", "spawning"} => process[t] = "none"
    /\ phase[t] = "spawning" => cli_lock[using[t]] = t
    /\ process[t] = "running" =>
         \/ missed[t]
         \/ /\ phase[t] \in Holding
            /\ cli_lock[using[t]] = t /\ current[using[t]] = t

-----------------------------------------------------------------------------
(* Ids and entries *)

\* A reported id is somewhere to be found.
InUse(i) ==
  \/ \E t \in Turns : i \in {captured[t], temp[t], recorded[t]}
  \/ pending[i] # None \/ temp_to_real[i] # None
  \/ \E j \in Ids : temp_to_real[j] = i

IdsInv ==
  \A t \in Turns :
    /\ InUse(Real(t)) => t \in Ended \/ captured[t] = Real(t)
    /\ temp[t] # None => captured[t] = None

\* Will remove what its id leads to, or has missed it.
Owner(t) == (Live(t) /\ phase[t] \notin Killing) \/ missed[t]

EntriesInv ==
  \A i \in Ids :
    /\ sessions[i] # None =>
         /\ \E t \in Turns : i = Real(t) /\ captured[t] = i /\ Owner(t)
         /\ pending[i] = None /\ temp_to_real[i] = None
    /\ pending[i] # None => \E t \in Turns : Handle(t) = i /\ Owner(t)

-----------------------------------------------------------------------------
(* Trees *)

\* A turn that a global /stop has cancelled, or that missed its session, keeps its
\* id from then on.
SettledInv ==
  \A t \in Turns :
    freed[t] \/ missed[t] =>
      phase[t] \in {"stopping", "unwinding", "ending", "removing", "done"} \cup Killing

\* What OwnSession excepts.
TakenOver(t, i) ==
  \E u \in Turns \ {t} : Tree[u] = Tree[t] /\ Handle(u) = i /\ (freed[u] \/ missed[u])

\* The turn an id is named after.
TurnOf(i) == i[2]

SameTree(i, t) == i # None => Tree[TurnOf(i)] = Tree[t]

TreesInv ==
  /\ \A t \in Turns :
       /\ SameTree(captured[t], t) /\ SameTree(temp[t], t) /\ SameTree(recorded[t], t)
       /\ captured[t] \in {None, Real(t)} \/ TakenOver(t, captured[t])
  /\ \A i \in Ids : SameTree(temp_to_real[i], TurnOf(i))

TurnsInv ==
  /\ TypeOK /\ NotesInv /\ StartedInv /\ ProcessInv
  /\ IdsInv /\ EntriesInv /\ SettledInv /\ TreesInv /\ OwnSession

-----------------------------------------------------------------------------
(* Facts about ids *)

LEMMA IdFacts ==
  /\ \A t \in Turns : /\ Real(t) \in RealIds /\ Real(t) \in Ids /\ New(t) \in Ids
                      /\ TurnOf(Real(t)) = t /\ TurnOf(New(t)) = t
                      /\ New(t) \notin RealIds
  /\ \A i \in Ids : TurnOf(i) \in Turns
  /\ \A i \in RealIds : i = Real(TurnOf(i)) /\ i \in Ids
  /\ None \notin Ids /\ None \notin Turns
BY TurnsAssumption DEF Real, New, Ids, RealIds, TurnOf

-----------------------------------------------------------------------------
(* Types *)

LEMMA TypeInit == Init => TypeOK
BY IdFacts, TurnsAssumption DEF Init, TypeOK, Phases, Unstarted, Holding, Killing

\* A turn that is under way has the id of an entry.
LEMMA HandleType ==
  ASSUME TypeOK, StartedInv, NEW t \in Turns, Live(t)
  PROVE  Handle(t) \in Ids
BY IdFacts DEF TypeOK, StartedInv, Handle

\* What a turn that begins takes: a session that is there, under the id it is
\* found by, or a new one, under the id it resumes or a made-up one.
Resumes(t, i) ==
  Parent[t] \in Turns /\ i = recorded[Parent[t]] /\ i \in RealIds

Shares(t, i, l) ==
  /\ Resumes(t, i)
  /\ l \in RealIds /\ (l = i \/ l = temp_to_real[i])
  /\ sessions[l] # None \/ pending[l] # None
  /\ \E s \in Turns : using' = [using EXCEPT ![t] = s]
  /\ captured' = [captured EXCEPT ![t] = l]
  /\ UNCHANGED <<temp, pending>>

Makes(t, i) ==
  /\ i \in Ids
  /\ \/ i = New(t)
     \/ Resumes(t, i) /\ (temp_to_real[i] = None => sessions[i] = None)
  /\ using' = [using EXCEPT ![t] = t]
  /\ temp' = [temp EXCEPT ![t] = i]
  /\ pending' = [pending EXCEPT ![i] = t]
  /\ UNCHANGED captured

LEMMA BeginCases ==
  ASSUME TypeOK, NEW t \in Turns, Begin(t)
  PROVE  \/ \E i \in Ids, l \in RealIds : Shares(t, i, l)
         \/ \E i \in Ids : Makes(t, i)
<1> USE IdFacts, TurnsAssumption DEF TypeOK
<1> DEFINE i == ParentSession(t)
<1>1. i \in RealIds \cup {None} /\ (i # None => Resumes(t, i))
  BY DEF ParentSession, Resumes
<1>2. CASE i # None /\ Found(i) # None
  <2>1. Lookup(i) \in RealIds /\ (Lookup(i) = i \/ Lookup(i) = temp_to_real[i])
    BY <1>1, <1>2 DEF Lookup
  <2>2. Found(i) \in Turns /\ (sessions[Lookup(i)] # None \/ pending[Lookup(i)] # None)
    BY <1>2, <2>1 DEF Found
  <2>3. /\ using' = [using EXCEPT ![t] = Found(i)]
        /\ captured' = [captured EXCEPT ![t] = Lookup(i)]
        /\ UNCHANGED <<temp, pending>>
    BY <1>2, Zenon DEF Begin
  <2>4. Shares(t, i, Lookup(i))
    BY <1>1, <1>2, <2>1, <2>2, <2>3 DEF Shares
  <2> QED BY <1>1, <1>2, <2>1, <2>4
<1>3. CASE ~(i # None /\ Found(i) # None)
  <2> DEFINE new == IF i = None THEN New(t) ELSE i
  <2>1. /\ using' = [using EXCEPT ![t] = t]
        /\ temp' = [temp EXCEPT ![t] = new]
        /\ pending' = [pending EXCEPT ![new] = t]
        /\ UNCHANGED captured
    BY <1>3, Zenon DEF Begin
  <2>2. new \in Ids
    BY <1>1
  <2>3. new = New(t) \/ (Resumes(t, new) /\ (temp_to_real[new] = None => sessions[new] = None))
    BY <1>1, <1>3 DEF Found, Lookup
  <2>4. Makes(t, new)
    BY <2>1, <2>2, <2>3 DEF Makes
  <2> QED BY <2>2, <2>4
<1> QED BY <1>2, <1>3

LEMMA BeginKeeps ==
  ASSUME NEW t \in Turns, Begin(t)
  PROVE  /\ phase[t] = "queued" /\ phase' = [phase EXCEPT ![t] = "locked"]
         /\ \A u \in Turns : Tree[u] = Tree[t] /\ Live(u) => freed[u]
         /\ UNCHANGED <<freed, missed, recorded, sessions, temp_to_real, lock, process,
                        current, cli_lock, to_stop, voice, told>>
BY DEF Begin, To, cli, global, chat

\* A removal finds nothing, or takes out an entry and stops its process, if that
\* runs.
FindsNothing(t, i) ==
  /\ pending[i] = None /\ sessions[i] = None
  /\ phase' = [phase EXCEPT ![t] = "done"]
  /\ missed' = [missed EXCEPT ![t] = TRUE]
  /\ UNCHANGED <<using, sessions, pending, temp_to_real, lock, process>>

TakesOut(t, i, s) ==
  /\ \/ /\ pending[i] = s /\ pending' = [pending EXCEPT ![i] = None] /\ UNCHANGED sessions
     \/ /\ pending[i] = None /\ UNCHANGED pending
        /\ sessions[i] = s /\ sessions' = [sessions EXCEPT ![i] = None]
  /\ temp_to_real' \in {temp_to_real, Unmapped(i)}
  /\ missed' = [missed EXCEPT ![t] = @ \/ s # using[t]]

StopsAndWaits(t, s) ==
  /\ Alive(s)
  /\ process' = [process EXCEPT ![current[s]] = "terminated"]
  /\ \E p \in Killing : phase' = [phase EXCEPT ![t] = p]
  /\ using' = [using EXCEPT ![t] = s] /\ lock' = t

NothingToStop(t, s) ==
  /\ ~Alive(s) /\ UNCHANGED <<process, using, lock>>
  /\ phase' = [phase EXCEPT ![t] = "done"]

LEMMA RemoveCases ==
  ASSUME TypeOK, StartedInv, NEW t \in Turns, RemoveSession(t)
  PROVE  \/ FindsNothing(t, Handle(t))
         \/ \E s \in Turns : /\ TakesOut(t, Handle(t), s)
                             /\ StopsAndWaits(t, s) \/ NothingToStop(t, s)
<1> DEFINE i == Handle(t)
           s == IF pending[i] # None THEN pending[i] ELSE sessions[i]
<1>1. i \in Ids /\ s \in Turns \cup {None}
  BY HandleType DEF RemoveSession, Live, TypeOK
<1>2. CASE s = None
  <2>1. FindsNothing(t, i)
    BY <1>2 DEF RemoveSession, To, FindsNothing
  <2> QED BY <2>1
<1>3. CASE s # None
  <2>1. /\ IF pending[i] # None
           THEN pending' = [pending EXCEPT ![i] = None] /\ UNCHANGED sessions
           ELSE sessions' = [sessions EXCEPT ![i] = None] /\ UNCHANGED pending
        /\ process' = Terminated(s)
        /\ missed' = [missed EXCEPT ![t] = @ \/ s # using[t]]
        /\ \/ /\ Alive(s)
              /\ To(t, IF pending[i] # None THEN "killing_pending" ELSE "killing")
              /\ using' = [using EXCEPT ![t] = s] /\ lock' = t /\ UNCHANGED temp_to_real
           \/ /\ ~Alive(s)
              /\ To(t, "done")
              /\ temp_to_real' = IF pending[i] # None THEN temp_to_real ELSE Unmapped(i)
              /\ UNCHANGED <<using, lock>>
    BY <1>3 DEF RemoveSession
  <2>2. TakesOut(t, i, s)
    BY <2>1 DEF TakesOut
  <2>3. StopsAndWaits(t, s) \/ NothingToStop(t, s)
    <3>1. CASE Alive(s)
      BY <2>1, <3>1 DEF StopsAndWaits, Terminated, To, Killing
    <3>2. CASE ~Alive(s)
      BY <2>1, <3>2 DEF NothingToStop, Terminated, To
    <3> QED BY <3>1, <3>2
  <2> QED BY <1>1, <1>3, <2>2, <2>3
<1> QED BY <1>2, <1>3

LEMMA RemoveKeeps ==
  ASSUME NEW t \in Turns, RemoveSession(t)
  PROVE  /\ phase[t] \in {"unwinding", "ending", "removing"} /\ lock = None
         /\ UNCHANGED <<captured, temp, freed, recorded, current, cli_lock, to_stop, voice, told>>
BY DEF RemoveSession, global, chat

LEMMA TypeStep == TypeOK /\ StartedInv /\ [Next]_vars => TypeOK'
<1> SUFFICES ASSUME TypeOK, StartedInv, [Next]_vars PROVE TypeOK'
  OBVIOUS
<1> USE IdFacts, TurnsAssumption DEF TypeOK, Phases, Unstarted, Holding, Killing, To
<1>1. ASSUME NEW t \in Turns, RemoveSession(t) PROVE TypeOK'
  <2>1. CASE FindsNothing(t, Handle(t))
    BY <1>1, <2>1, RemoveKeeps DEF FindsNothing
  <2>2. ASSUME NEW s \in Turns, TakesOut(t, Handle(t), s),
               StopsAndWaits(t, s) \/ NothingToStop(t, s)
        PROVE  TypeOK'
    <3>1. /\ pending' \in [Ids -> Turns \cup {None}] /\ sessions' \in [Ids -> Turns \cup {None}]
          /\ temp_to_real' \in [Ids -> RealIds \cup {None}] /\ missed' \in [Turns -> BOOLEAN]
      BY <2>2 DEF TakesOut, Unmapped
    <3>2. /\ phase' \in [Turns -> Phases] /\ using' \in [Turns -> Turns \cup {None}]
          /\ process' \in [Turns -> {"none", "running", "terminated", "ended"}]
          /\ lock' \in Turns \cup {"stop_all", None}
      BY <2>2 DEF StopsAndWaits, NothingToStop
    <3> QED BY <1>1, <3>1, <3>2, RemoveKeeps
  <2> QED BY <1>1, <2>1, <2>2, RemoveCases
<1>2. ASSUME NEW t \in Turns, WaitToRemove(t) PROVE TypeOK'
  BY <1>2 DEF WaitToRemove, task, manager, cli, global, chat
<1>3. ASSUME NEW t \in Turns, RegisterNote(t) PROVE TypeOK'
  BY <1>3 DEF RegisterNote, task, manager, cli, global
<1>4. ASSUME NEW t \in Turns, Transcribed(t) PROVE TypeOK'
  BY <1>4 DEF Transcribed, task, manager, cli, global
<1>5. ASSUME NEW t \in Turns, ClearNote(t) \/ Drop(t) PROVE TypeOK'
  BY <1>5 DEF ClearNote, Drop, task, manager, cli, global
<1>6. ASSUME NEW t \in Turns, Begin(t) PROVE TypeOK'
  <2>1. ASSUME NEW i \in Ids, NEW l \in RealIds, Shares(t, i, l) PROVE TypeOK'
    BY <1>6, <2>1, BeginKeeps DEF Shares
  <2>2. ASSUME NEW i \in Ids, Makes(t, i) PROVE TypeOK'
    BY <1>6, <2>2, BeginKeeps DEF Makes
  <2> QED BY <1>6, <2>1, <2>2, BeginCases
<1>7. ASSUME NEW t \in Turns, Register(t) PROVE TypeOK'
  BY <1>7 DEF Register, HasRealId, cli, global, chat
<1>8. ASSUME NEW t \in Turns, WaitToRegister(t) PROVE TypeOK'
  BY <1>8 DEF WaitToRegister, task, manager, cli, global, chat
<1>9. ASSUME NEW t \in Turns, Removed(t) PROVE TypeOK'
  BY <1>9 DEF Removed, Unmapped, task, cli, global, chat
<1>10. ASSUME NEW t \in Turns, Lock(t) \/ Spawn(t) \/ ProcessEnds(t) PROVE TypeOK'
  <2>1. CASE Lock(t)
    BY <2>1 DEF Lock, task, manager, global, chat
  <2>2. CASE Spawn(t)
    BY <2>2 DEF Spawn, task, manager, global, chat
  <2>3. CASE ProcessEnds(t)
    BY <2>3 DEF ProcessEnds, task, manager, cli, global, chat
  <2> QED BY <1>10, <2>1, <2>2, <2>3
<1>11. ASSUME NEW t \in Turns, Event(t) \/ Handled(t) PROVE TypeOK'
  BY <1>11 DEF Event, Handled, task, manager, cli, global, chat
<1>12. ASSUME NEW t \in Turns, EndOfOutput(t) \/ Stopped(t) \/ CloseGenerator(t) PROVE TypeOK'
  <2>1. CASE EndOfOutput(t)
    BY <2>1 DEF EndOfOutput, Unlocked, task, manager, global, chat
  <2>2. CASE Stopped(t)
    BY <2>2 DEF Stopped, Unlocked, task, manager, global, chat
  <2>3. CASE CloseGenerator(t)
    BY <2>3 DEF CloseGenerator, Unlocked, task, manager, global, chat
  <2> QED BY <1>12, <2>1, <2>2, <2>3
<1>13. ASSUME NEW ts, Cancelled(ts) PROVE
           /\ phase' \in [Turns -> Phases] /\ missed' \in [Turns -> BOOLEAN]
           /\ lock' \in Turns \cup {"stop_all", None}
           /\ process' \in [Turns -> {"none", "running", "terminated", "ended"}]
           /\ cli_lock' \in [Turns -> Turns \cup {None}]
  <2>1. \A t \in Turns : AfterCancel(t) \in Phases
    BY DEF AfterCancel
  <2>2. phase' \in [Turns -> Phases]
    BY <1>13, <2>1, Zenon DEF Cancelled
  <2>3. /\ process' \in [Turns -> {"none", "running", "terminated", "ended"}]
        /\ cli_lock' \in [Turns -> Turns \cup {None}]
    BY <1>13 DEF Cancelled
  <2>4. missed' \in [Turns -> BOOLEAN] /\ lock' \in Turns \cup {"stop_all", None}
    BY <1>13 DEF Cancelled
  <2> QED BY <2>2, <2>3, <2>4
<1>14. ASSUME NEW t \in Turns, Cancel(t) PROVE TypeOK'
  BY <1>13, <1>14 DEF Cancel, global, chat
<1>15. CASE CancelAll
  BY <1>13, <1>15 DEF CancelAll, chat
<1>16. CASE StopAll \/ AllStopped
  BY <1>16 DEF StopAll, AllStopped, task, manager, cli, chat
<1>17. ASSUME NEW t \in Turns, StopOne(t) PROVE TypeOK'
  <2>1. Terminated(t) \in [Turns -> {"none", "running", "terminated", "ended"}]
    BY DEF Terminated
  <2>2. process' \in {process, Terminated(t)} /\ to_stop' \subseteq to_stop
    BY <1>17 DEF StopOne
  <2> QED BY <1>17, <2>1, <2>2 DEF StopOne, task, manager, chat
<1>18. CASE UNCHANGED vars
  BY <1>18 DEF vars, task, manager, cli, global, chat
<1> QED
  BY <1>1, <1>2, <1>3, <1>4, <1>5, <1>6, <1>7, <1>8, <1>9, <1>10, <1>11, <1>12, <1>14, <1>15,
     <1>16, <1>17, <1>18 DEF Next

-----------------------------------------------------------------------------
(* Cancellations *)

LEMMA CancelKeeps ==
  ASSUME CancelAll \/ \E t \in Turns : Cancel(t)
  PROVE  /\ \E ts \in SUBSET Turns : Cancelled(ts)
         /\ UNCHANGED <<using, captured, temp, recorded, sessions, pending, temp_to_real,
                        current, to_stop, voice, told>>
         /\ freed' = freed \/ freed' = [t \in Turns |-> freed[t] \/ Live(t)]
<1>1. CASE CancelAll
  <2>1. {t \in Turns : Live(t)} \in SUBSET Turns
    OBVIOUS
  <2> QED BY <1>1, <2>1 DEF CancelAll, chat
<1>2. CASE \E t \in Turns : Cancel(t)
  BY <1>2 DEF Cancel, global, chat
<1> QED BY <1>1, <1>2

\* Where a cancellation takes a turn, and with what.
LEMMA CancelMoves ==
  ASSUME TypeOK, NEW ts \in SUBSET Turns, Cancelled(ts), NEW t \in Turns
  PROVE  /\ \/ phase'[t] = phase[t] /\ process'[t] = process[t]
            \/ /\ phase[t] = "reading" /\ phase'[t] = "stopping"
               /\ process'[t] # "running"
            \/ /\ phase[t] \in {"locked", "spawning", "registering", "handling", "stopping"}
               /\ phase'[t] = "unwinding" /\ process'[t] = process[t]
            \/ /\ phase[t] = "unwinding" /\ phase'[t] = "ending"
               /\ process'[t] = process[t]
            \/ /\ phase[t] \in {"removing"} \cup Killing /\ phase'[t] = "done"
               /\ missed'[t] /\ process'[t] = process[t]
         /\ missed[t] => missed'[t]
         /\ \A s \in Turns : cli_lock[s] = t =>
              \/ cli_lock'[s] = t
              \/ phase[t] \in {"spawning", "stopping"} /\ phase'[t] = "unwinding"
<1> USE DEF TypeOK
<1>0. ASSUME NEW s \in Turns, cli_lock[s] = t
      PROVE  cli_lock'[s] = t \/ (t \in ts /\ phase[t] \in {"spawning", "stopping"})
  BY <1>0, Zenon DEF Cancelled
<1>1. /\ phase'[t] = IF t \in ts THEN AfterCancel(t) ELSE phase[t]
      /\ process'[t] = IF t \in ts /\ phase[t] = "reading" /\ process[t] = "running"
                       THEN "terminated" ELSE process[t]
  BY Zenon DEF Cancelled
<1>2. missed'[t] = (missed[t] \/ (t \in ts /\ phase[t] \in {"removing"} \cup Killing))
  BY Zenon DEF Cancelled
<1>3. (missed[t] => missed'[t]) /\ (t \in ts /\ phase[t] \in {"removing"} \cup Killing => missed'[t])
  BY <1>2
<1>4. CASE t \in ts
  <2>1. CASE phase[t] = "reading"
    <3>1. AfterCancel(t) = "stopping"
      BY <2>1 DEF AfterCancel, Killing
    <3> QED BY <1>0, <1>1, <1>3, <1>4, <2>1, <3>1
  <2>2. CASE phase[t] \in {"locked", "spawning", "registering", "handling", "stopping"}
    <3>1. AfterCancel(t) = "unwinding"
      BY <2>2 DEF AfterCancel, Killing
    <3> QED BY <1>0, <1>1, <1>3, <1>4, <2>2, <3>1
  <2>3. CASE phase[t] = "unwinding"
    <3>1. AfterCancel(t) = "ending"
      BY <2>3 DEF AfterCancel, Killing
    <3> QED BY <1>0, <1>1, <1>3, <1>4, <2>3, <3>1
  <2>4. CASE phase[t] \in {"removing"} \cup Killing
    <3>1. AfterCancel(t) = "done" /\ phase[t] \notin {"reading", "spawning", "stopping"}
      BY <2>4 DEF AfterCancel, Killing
    <3> QED BY <1>0, <1>1, <1>3, <1>4, <2>4, <3>1
  <2>5. CASE phase[t] \in Unstarted \cup {"ending", "done"}
    <3>1. AfterCancel(t) = phase[t] /\ phase[t] \notin {"reading", "spawning", "stopping"}
      BY <2>5 DEF AfterCancel, Killing, Unstarted
    <3> QED BY <1>0, <1>1, <1>3, <1>4, <3>1
  <2> QED BY <2>1, <2>2, <2>3, <2>4, <2>5 DEF Phases, Unstarted, Holding, Killing
<1>5. CASE t \notin ts
  BY <1>0, <1>1, <1>3, <1>5
<1> QED BY <1>4, <1>5

-----------------------------------------------------------------------------
(* Notes *)

LEMMA NotesStep == TypeOK /\ StartedInv /\ NotesInv /\ [Next]_vars => NotesInv'
<1> SUFFICES ASSUME TypeOK, StartedInv, NotesInv, [Next]_vars PROVE NotesInv'
  OBVIOUS
<1> USE DEF NotesInv, TypeOK
<1>1. ASSUME NEW t \in Turns, RegisterNote(t) PROVE NotesInv'
  BY <1>1 DEF RegisterNote, To
<1>2. ASSUME NEW t \in Turns, Transcribed(t) PROVE NotesInv'
  BY <1>2 DEF Transcribed, To
<1>3. ASSUME NEW t \in Turns, ClearNote(t) PROVE NotesInv'
  BY <1>3 DEF ClearNote
<1>4. ASSUME UNCHANGED <<voice, told>>,
             \A t \in Turns : phase[t] \in {"transcribing", "dropped"} => phase'[t] = phase[t]
      PROVE  NotesInv'
  BY <1>4
<1>5. ASSUME NEW t \in Turns, RemoveSession(t) PROVE NotesInv'
  <2>1. \A u \in Turns \ {t} : phase'[u] = phase[u]
    BY <1>5, RemoveCases DEF FindsNothing, StopsAndWaits, NothingToStop
  <2> QED BY <1>4, <1>5, <2>1, RemoveKeeps
<1>6. ASSUME NEW t \in Turns, Begin(t) PROVE NotesInv'
  BY <1>4, <1>6, BeginKeeps
<1>7. CASE CancelAll \/ \E t \in Turns : Cancel(t)
  BY <1>4, <1>7, CancelKeeps, CancelMoves DEF Killing
<1>8. ASSUME NEW t \in Turns,
             \/ WaitToRemove(t) \/ Register(t) \/ WaitToRegister(t) \/ Removed(t)
             \/ Lock(t) \/ Spawn(t) \/ Drop(t)
      PROVE  NotesInv'
  BY <1>4, <1>8 DEF Drop, WaitToRemove, Register, HasRealId, WaitToRegister, Removed, Killing, Lock,
    Spawn, To, chat
<1>9. ASSUME NEW t \in Turns,
             Event(t) \/ Handled(t) \/ EndOfOutput(t) \/ Stopped(t)
      PROVE  NotesInv'
  BY <1>4, <1>9 DEF Event, Handled, EndOfOutput, Stopped, To, chat
<1>10. ASSUME NEW t \in Turns, ProcessEnds(t) \/ CloseGenerator(t) \/ StopOne(t)
       PROVE  NotesInv'
  BY <1>4, <1>10 DEF ProcessEnds, CloseGenerator, StopOne, chat
<1>11. CASE StopAll \/ AllStopped \/ UNCHANGED vars
  BY <1>4, <1>11 DEF StopAll, AllStopped, vars, chat
<1> QED
  BY <1>1, <1>2, <1>3, <1>5, <1>6, <1>7, <1>8, <1>9, <1>10, <1>11 DEF Next

-----------------------------------------------------------------------------
(* Turns that have begun *)

LEMMA StartedStep == TypeOK /\ StartedInv /\ NotesInv /\ [Next]_vars => StartedInv'
<1> SUFFICES ASSUME TypeOK, StartedInv, NotesInv, [Next]_vars PROVE StartedInv'
  OBVIOUS
<1> USE DEF TypeOK
<1>1. ASSUME UNCHANGED <<captured, temp>>,
             \A u \in Turns :
               /\ using'[u] = using[u] \/ using'[u] \in Turns
               /\ \/ phase'[u] = phase[u]
                  \/ phase[u] \in Unstarted /\ phase'[u] \in Unstarted
                  \/ Live(u) /\ phase'[u] \notin Unstarted
               /\ process'[u] = process[u] \/ process[u] # "none" \/ Live(u)
      PROVE  StartedInv'
  BY <1>1 DEF StartedInv, Live, Unstarted
<1>2. ASSUME NEW t \in Turns, RemoveSession(t) PROVE StartedInv'
  <2>1. CASE FindsNothing(t, Handle(t))
    BY <1>1, <1>2, <2>1, RemoveKeeps DEF FindsNothing, Live, Unstarted
  <2>2. ASSUME NEW s \in Turns, StopsAndWaits(t, s) \/ NothingToStop(t, s) PROVE StartedInv'
    <3>1. \A u \in Turns : process'[u] = process[u] \/ process[u] # "none"
      BY <2>2 DEF StopsAndWaits, NothingToStop, Alive
    <3>2. \A u \in Turns : using'[u] = using[u] \/ using'[u] \in Turns
      BY <2>2 DEF StopsAndWaits, NothingToStop
    <3>3. \A u \in Turns : phase'[u] = phase[u] \/ (u = t /\ phase'[u] \in Killing \cup {"done"})
      BY <2>2 DEF StopsAndWaits, NothingToStop
    <3> QED BY <1>1, <1>2, <3>1, <3>2, <3>3, RemoveKeeps DEF Live, Unstarted, Killing
  <2> QED BY <1>2, <2>1, <2>2, RemoveCases
<1>3. ASSUME NEW t \in Turns, Begin(t) PROVE StartedInv'
  <2>1. t \notin Ended
    BY <1>3, BeginKeeps DEF StartedInv
  <2>2. /\ using'[t] \in Turns /\ (captured'[t] # None \/ temp'[t] # None)
        /\ \A u \in Turns \ {t} :
             using'[u] = using[u] /\ captured'[u] = captured[u] /\ temp'[u] = temp[u]
    <3>1. CASE \E i \in Ids, l \in RealIds : Shares(t, i, l)
      BY <3>1, IdFacts DEF Shares
    <3>2. CASE \E i \in Ids : Makes(t, i)
      BY <3>2, IdFacts DEF Makes
    <3> QED BY <1>3, <3>1, <3>2, BeginCases
  <2> QED BY <1>3, <2>1, <2>2, BeginKeeps DEF StartedInv, Live, Unstarted
<1>4. ASSUME NEW t \in Turns, Register(t) PROVE StartedInv'
  <2>1. /\ Live(t) /\ phase' = [phase EXCEPT ![t] = "reading"]
        /\ captured' = [captured EXCEPT ![t] = Real(t)] /\ temp' = [temp EXCEPT ![t] = None]
        /\ UNCHANGED <<using, process>>
    BY <1>4 DEF Register, HasRealId, Live, To, cli
  <2> QED BY <2>1, IdFacts DEF StartedInv, Live, Unstarted
<1>5. CASE CancelAll \/ \E t \in Turns : Cancel(t)
  BY <1>1, <1>5, CancelKeeps, CancelMoves DEF Live, Killing, Unstarted
<1>6. ASSUME NEW t \in Turns, RegisterNote(t) \/ Transcribed(t) \/ ClearNote(t) \/ Drop(t)
      PROVE  StartedInv'
  BY <1>1, <1>6 DEF RegisterNote, Transcribed, ClearNote, Drop, To, task, cli, Unstarted
<1>7. ASSUME NEW t \in Turns, WaitToRemove(t) \/ WaitToRegister(t) \/ Removed(t)
      PROVE  StartedInv'
  BY <1>1, <1>7 DEF WaitToRemove, WaitToRegister, HasRealId, Removed, Killing, To, task, cli,
    Live, Unstarted
<1>8. ASSUME NEW t \in Turns, Lock(t) \/ Spawn(t) \/ Event(t) \/ Handled(t)
      PROVE  StartedInv'
  BY <1>1, <1>8 DEF Lock, Spawn, Event, Handled, To, task, cli, Live, Unstarted
<1>9. ASSUME NEW t \in Turns, EndOfOutput(t) \/ Stopped(t)
      PROVE  StartedInv'
  BY <1>1, <1>9 DEF EndOfOutput, Stopped, To, task, Live, Unstarted
<1>10. ASSUME NEW t \in Turns, ProcessEnds(t) \/ CloseGenerator(t) PROVE StartedInv'
  BY <1>1, <1>10 DEF ProcessEnds, CloseGenerator, task
<1>11. ASSUME NEW t \in Turns, StopOne(t) PROVE StartedInv'
  BY <1>1, <1>11 DEF StopOne, Terminated, Alive, task
<1>12. CASE StopAll \/ AllStopped \/ UNCHANGED vars
  BY <1>1, <1>12 DEF StopAll, AllStopped, vars, task, cli
<1> QED
  BY <1>2, <1>3, <1>4, <1>5, <1>6, <1>7, <1>8, <1>9, <1>10, <1>11, <1>12 DEF Next

-----------------------------------------------------------------------------
(* Processes *)

LEMMA ProcessStep ==
  TypeOK /\ StartedInv /\ ProcessInv /\ [Next]_vars => ProcessInv'
<1> SUFFICES ASSUME TypeOK, StartedInv, ProcessInv, [Next]_vars PROVE ProcessInv'
  OBVIOUS
<1> USE DEF TypeOK
\* Most steps move a turn on without touching locks and references.
<1>1. ASSUME UNCHANGED <<using, current, cli_lock>>,
             \A u \in Turns :
               /\ missed[u] => missed'[u]
               /\ process'[u] = process[u] \/ process'[u] \in {"terminated", "ended"}
               /\ \/ phase'[u] = phase[u]
                  \/ phase[u] \in Unstarted /\ phase'[u] \in Unstarted
                  \/ phase[u] \in Holding \cup {"locked", "spawning"} /\ phase'[u] \in Holding
                  \/ /\ process[u] = "running" => missed'[u]
                     /\ phase'[u] \notin {"locked", "spawning"}
               /\ process'[u] = process[u] \/ process[u] # "none"
      PROVE  ProcessInv'
  BY <1>1 DEF ProcessInv, Holding, Unstarted
<1>2. ASSUME NEW t \in Turns, RemoveSession(t) PROVE ProcessInv'
  <2>1. CASE FindsNothing(t, Handle(t))
    BY <1>1, <1>2, <2>1, RemoveKeeps DEF FindsNothing
  <2>2. ASSUME NEW s \in Turns, TakesOut(t, Handle(t), s),
               StopsAndWaits(t, s) \/ NothingToStop(t, s)
        PROVE  ProcessInv'
    <3>1. \A u \in Turns :
            /\ u # t => phase'[u] = phase[u] /\ using'[u] = using[u]
            /\ phase'[t] \in Killing \cup {"done"}
            /\ missed[u] => missed'[u]
            /\ process'[u] = process[u] \/ (process[u] # "none" /\ process'[u] = "terminated")
      BY <2>2 DEF TakesOut, StopsAndWaits, NothingToStop, Alive, Killing
    <3>2. ASSUME process'[t] = "running" PROVE missed'[t]
      <4>1. process[t] = "running" /\ using[t] \in Turns
        BY <1>2, <3>1, <3>2, RemoveKeeps DEF StartedInv, Live
      <4>2. CASE missed[t]
        BY <3>1, <4>2
      <4>3. CASE ~missed[t]
        <5>1. current[using[t]] = t
          BY <4>1, <4>3 DEF ProcessInv
        <5>2. s # using[t]
          BY <2>2, <3>2, <4>1, <5>1, IdFacts DEF StopsAndWaits, NothingToStop, Alive
        <5> QED BY <2>2, <5>2 DEF TakesOut
      <4> QED BY <4>2, <4>3
    <3> QED BY <1>2, <3>1, <3>2, RemoveKeeps DEF ProcessInv, Holding, Killing
  <2> QED BY <1>2, <2>1, <2>2, RemoveCases
<1>3. ASSUME NEW t \in Turns, Begin(t) PROVE ProcessInv'
  <2>1. process[t] = "none" /\ \A u \in Turns \ {t} : using'[u] = using[u]
    BY <1>3, BeginKeeps, BeginCases DEF StartedInv, Unstarted, Shares, Makes
  <2> QED BY <1>3, <2>1, BeginKeeps DEF ProcessInv, Holding
<1>4. CASE CancelAll \/ \E t \in Turns : Cancel(t)
  <2>1. PICK ts \in SUBSET Turns : Cancelled(ts)
    BY <1>4, CancelKeeps
  <2>2. UNCHANGED <<using, current>>
    BY <1>4, CancelKeeps
  <2>3. ASSUME NEW u \in Turns, process'[u] = "running", ~missed'[u]
        PROVE  phase'[u] \in Holding /\ cli_lock'[using[u]] = u /\ current[using[u]] = u
    <3>1. process[u] = "running" /\ ~missed[u]
      BY <2>1, <2>3, CancelMoves
    <3>2. phase[u] \in Holding /\ using[u] \in Turns /\ cli_lock[using[u]] = u
          /\ current[using[u]] = u
      BY <3>1 DEF ProcessInv, StartedInv, Live, Holding
    <3>3. phase'[u] \in Holding
      BY <2>1, <2>3, <3>1, <3>2, CancelMoves DEF Holding, Killing
    <3>4. cli_lock'[using[u]] = u
      BY <2>1, <3>2, CancelMoves DEF Holding
    <3> QED BY <3>2, <3>3, <3>4
  <2>4. ASSUME NEW u \in Turns, phase'[u] \in {"locked", "spawning"}
        PROVE  process'[u] = "none" /\ phase[u] = phase'[u]
    BY <2>1, <2>4, CancelMoves DEF ProcessInv
  <2>5. ASSUME NEW u \in Turns, phase'[u] = "spawning"
        PROVE  cli_lock'[using[u]] = u
    <3>1. phase[u] = "spawning" /\ using[u] \in Turns /\ cli_lock[using[u]] = u
      BY <2>4, <2>5 DEF ProcessInv, StartedInv, Live
    <3> QED BY <2>1, <2>5, <3>1, CancelMoves
  <2> QED BY <2>2, <2>3, <2>4, <2>5 DEF ProcessInv
<1>5. ASSUME NEW t \in Turns, Lock(t) PROVE ProcessInv'
  <2>1. /\ phase[t] = "locked" /\ process[t] = "none" /\ using[t] \in Turns
        /\ cli_lock[using[t]] = None /\ cli_lock' = [cli_lock EXCEPT ![using[t]] = t]
        /\ phase' = [phase EXCEPT ![t] = "spawning"]
        /\ UNCHANGED <<using, missed, process, current>>
    BY <1>5 DEF Lock, To, ProcessInv, StartedInv, Live, task
  <2> QED BY <2>1, IdFacts DEF ProcessInv, Holding
<1>6. ASSUME NEW t \in Turns, Spawn(t) PROVE ProcessInv'
  <2>1. /\ phase[t] = "spawning" /\ using[t] \in Turns /\ cli_lock[using[t]] = t
        /\ phase' = [phase EXCEPT ![t] = "reading"]
        /\ process' = [process EXCEPT ![t] = "running"]
        /\ current' = [current EXCEPT ![using[t]] = t]
        /\ UNCHANGED <<using, missed, cli_lock>>
    BY <1>6 DEF Spawn, To, ProcessInv, StartedInv, Live, task
  <2> QED BY <2>1, IdFacts DEF ProcessInv, Holding
<1>7. ASSUME NEW t \in Turns, EndOfOutput(t) \/ Stopped(t) \/ CloseGenerator(t)
      PROVE  ProcessInv'
  <2>1. /\ process[t] = "ended" /\ cli_lock' = Unlocked(t)
        /\ phase' = phase \/ phase' = [phase EXCEPT ![t] = "ending"]
           \/ phase' = [phase EXCEPT ![t] = "unwinding"]
        /\ UNCHANGED <<using, missed, process, current>>
    BY <1>7 DEF EndOfOutput, Stopped, CloseGenerator, To, task
  <2>2. \A u \in Turns \ {t}, s \in Turns : cli_lock[s] = u => cli_lock'[s] = u
    BY <2>1 DEF Unlocked
  <2>3. \A u \in Turns : Live(u) => using[u] \in Turns
    BY DEF StartedInv
  <2>4. phase[t] # "spawning" /\ \A u \in Turns \ {t} : phase'[u] = phase[u]
    BY <2>1 DEF ProcessInv
  <2>5. \A u \in Turns : phase[u] \in Holding \cup {"spawning"} => Live(u)
    BY DEF Holding, Live
  <2>6. phase'[t] \notin {"locked", "spawning"}
    BY <2>1, <2>4 DEF ProcessInv
  <2> QED BY <2>1, <2>2, <2>3, <2>4, <2>5, <2>6 DEF ProcessInv
<1>8. ASSUME NEW t \in Turns, RegisterNote(t) \/ Transcribed(t) \/ ClearNote(t) \/ Drop(t)
      PROVE  ProcessInv'
  BY <1>1, <1>8 DEF RegisterNote, Transcribed, ClearNote, Drop, To, task, cli, Unstarted
<1>9. ASSUME NEW t \in Turns, WaitToRemove(t) \/ WaitToRegister(t) \/ Register(t)
      PROVE  ProcessInv'
  BY <1>1, <1>9 DEF WaitToRemove, WaitToRegister, HasRealId, Register, To, task, cli, Holding
<1>10. ASSUME NEW t \in Turns, Removed(t) PROVE ProcessInv'
  <2>1. process[t] = "running" => missed[t]
    BY <1>10 DEF Removed, ProcessInv, Holding, Killing
  <2> QED BY <1>1, <1>10, <2>1 DEF Removed, To, task, cli
<1>11. ASSUME NEW t \in Turns, Event(t) \/ Handled(t) PROVE ProcessInv'
  BY <1>1, <1>11 DEF Event, Handled, To, task, cli, Holding
<1>12. ASSUME NEW t \in Turns, ProcessEnds(t) PROVE ProcessInv'
  BY <1>1, <1>12 DEF ProcessEnds, task
<1>13. ASSUME NEW t \in Turns, StopOne(t) PROVE ProcessInv'
  BY <1>1, <1>13 DEF StopOne, Terminated, Alive, task
<1>14. CASE StopAll \/ AllStopped \/ UNCHANGED vars
  BY <1>1, <1>14 DEF StopAll, AllStopped, vars, task, cli
<1> QED
  BY <1>2, <1>3, <1>4, <1>5, <1>6, <1>7, <1>8, <1>9, <1>10, <1>11, <1>12, <1>13, <1>14
     DEF Next

-----------------------------------------------------------------------------
(* Steps and entries *)

\* Ids stay and entries go.
Drops ==
  /\ UNCHANGED <<captured, temp>>
  /\ \A i \in Ids : /\ sessions'[i] \in {sessions[i], None}
                    /\ pending'[i] \in {pending[i], None}
                    /\ temp_to_real'[i] \in {temp_to_real[i], None}

Registers(t, i) ==
  /\ Live(t) /\ phase[t] \notin Killing /\ i = temp[t] /\ i \in Ids
  /\ \/ /\ pending[i] # None
        /\ sessions' = [sessions EXCEPT ![Real(t)] = pending[i]]
        /\ pending' = [pending EXCEPT ![i] = None]
        /\ temp_to_real' = [temp_to_real EXCEPT ![i] = Real(t)]
     \/ pending[i] = None /\ UNCHANGED <<sessions, pending, temp_to_real>>
  /\ captured' = [captured EXCEPT ![t] = Real(t)] /\ temp' = [temp EXCEPT ![t] = None]
  /\ recorded' = [recorded EXCEPT ![t] = Real(t)]

LEMMA RegisterCases ==
  ASSUME TypeOK, NEW t \in Turns, Register(t)
  PROVE  /\ \E i \in Ids : Registers(t, i)
         /\ UNCHANGED <<freed, missed>> /\ phase' = [phase EXCEPT ![t] = "reading"]
<1>1. /\ temp[t] \in Ids /\ Live(t) /\ phase[t] \notin Killing
      /\ phase' = [phase EXCEPT ![t] = "reading"] /\ UNCHANGED <<freed, missed>>
  BY DEF Register, HasRealId, TypeOK, Live, Killing, To
<1>2. Registers(t, temp[t])
  <2>1. CASE pending[temp[t]] # None
    BY <1>1, <2>1 DEF Registers, Register
  <2>2. CASE pending[temp[t]] = None
    BY <1>1, <2>2 DEF Registers, Register
  <2> QED BY <2>1, <2>2
<1> QED BY <1>1, <1>2

\* Who will remove an entry does so, or misses it.
LEMMA OwnersStay ==
  ASSUME TypeOK, StartedInv, [Next]_vars, NEW u \in Turns, Owner(u), ~RemoveSession(u)
  PROVE  Owner(u)'
<1> USE DEF TypeOK
<1>1. ASSUME missed[u] => missed'[u],
             \/ phase'[u] = phase[u]
             \/ phase[u] \in Unstarted \cup Killing \/ missed'[u]
             \/ phase'[u] \in Holding \cup {"locked", "spawning", "stopping"}
      PROVE  Owner(u)'
  BY <1>1 DEF Owner, Live, Unstarted, Killing, Holding
<1>2. ASSUME NEW t \in Turns, RemoveSession(t) PROVE Owner(u)'
  BY <1>1, <1>2, RemoveCases DEF FindsNothing, TakesOut, StopsAndWaits, NothingToStop
<1>3. ASSUME NEW t \in Turns, Begin(t) PROVE Owner(u)'
  BY <1>1, <1>3, BeginKeeps
<1>4. CASE CancelAll \/ \E t \in Turns : Cancel(t)
  BY <1>1, <1>4, CancelKeeps, CancelMoves DEF Holding
<1>5. ASSUME NEW t \in Turns, RegisterNote(t) \/ Transcribed(t) \/ ClearNote(t) \/ Drop(t)
      PROVE  Owner(u)'
  BY <1>1, <1>5 DEF RegisterNote, Transcribed, ClearNote, Drop, To, task, Unstarted
<1>6. ASSUME NEW t \in Turns, WaitToRemove(t) \/ WaitToRegister(t) \/ Register(t)
      PROVE  Owner(u)'
  BY <1>1, <1>6 DEF WaitToRemove, WaitToRegister, Register, To, task, Holding
<1>7. ASSUME NEW t \in Turns, Removed(t) PROVE Owner(u)'
  BY <1>1, <1>7 DEF Removed, To, task
<1>8. ASSUME NEW t \in Turns, Lock(t) \/ Spawn(t) \/ Event(t) \/ Handled(t)
      PROVE  Owner(u)'
  BY <1>1, <1>8 DEF Lock, Spawn, Event, Handled, To, task, Holding
<1>9. ASSUME NEW t \in Turns, EndOfOutput(t) \/ Stopped(t)
      PROVE  Owner(u)'
  BY <1>1, <1>9 DEF EndOfOutput, Stopped, To, task, Holding
<1>10. ASSUME NEW t \in Turns, ProcessEnds(t) \/ CloseGenerator(t) \/ StopOne(t)
       PROVE  Owner(u)'
  BY <1>1, <1>10 DEF ProcessEnds, CloseGenerator, StopOne, task
<1>11. CASE StopAll \/ AllStopped \/ UNCHANGED vars
  BY <1>1, <1>11 DEF StopAll, AllStopped, vars, task
<1> QED
  BY <1>2, <1>3, <1>4, <1>5, <1>6, <1>7, <1>8, <1>9, <1>10, <1>11 DEF Next

LEMMA RemoveDrops ==
  ASSUME TypeOK, StartedInv, NEW t \in Turns, RemoveSession(t)
  PROVE  /\ Drops /\ UNCHANGED <<recorded, freed>>
         /\ \A u \in Turns : missed[u] => missed'[u]
         /\ \A u \in Turns \ {t} : phase'[u] = phase[u] /\ (Owner(u) => Owner(u)')
<1> USE DEF TypeOK
<1>1. CASE FindsNothing(t, Handle(t))
  BY <1>1, RemoveKeeps DEF FindsNothing, Drops, Owner, Live
<1>2. ASSUME NEW s \in Turns, TakesOut(t, Handle(t), s),
             StopsAndWaits(t, s) \/ NothingToStop(t, s)
      PROVE  /\ Drops /\ \A u \in Turns : missed[u] => missed'[u]
             /\ \A u \in Turns \ {t} : phase'[u] = phase[u] /\ missed'[u] = missed[u]
  BY <1>2, RemoveKeeps DEF TakesOut, StopsAndWaits, NothingToStop, Drops, Unmapped
<1> QED BY <1>1, <1>2, RemoveCases, RemoveKeeps DEF Owner, Live

\* What a step does to ids and entries: but for three kinds of steps, ids stay and
\* entries go.
LEMMA StepKinds ==
  ASSUME TypeOK, StartedInv, [Next]_vars
  PROVE  /\ \/ Drops /\ UNCHANGED recorded
            \/ \E t \in Turns : Begin(t) \/ Register(t)
            \/ \E t \in Turns : /\ Drops
                                /\ recorded' = [recorded EXCEPT ![t] = captured[t]]
         /\ \A t \in Turns : (freed[t] => freed'[t]) /\ (missed[t] => missed'[t])
<1> USE DEF TypeOK
<1>1. ASSUME NEW t \in Turns, RemoveSession(t)
      PROVE  /\ Drops /\ UNCHANGED <<recorded, freed>>
             /\ \A u \in Turns : missed[u] => missed'[u]
  BY <1>1, RemoveDrops
<1>2. ASSUME NEW t \in Turns, Begin(t) \/ Register(t)
      PROVE  UNCHANGED <<freed, missed>>
  BY <1>2, BeginKeeps, RegisterCases
<1>3. CASE CancelAll \/ \E t \in Turns : Cancel(t)
  BY <1>3, CancelKeeps, CancelMoves DEF Drops
<1>4. ASSUME NEW t \in Turns, RegisterNote(t) \/ Transcribed(t) \/ ClearNote(t) \/ Drop(t)
      PROVE  Drops /\ UNCHANGED <<recorded, freed, missed>>
  BY <1>4 DEF RegisterNote, Transcribed, ClearNote, Drop, task, manager, Drops
<1>5. ASSUME NEW t \in Turns, WaitToRemove(t) \/ WaitToRegister(t)
      PROVE  Drops /\ UNCHANGED <<recorded, freed, missed>>
  BY <1>5 DEF WaitToRemove, WaitToRegister, task, manager, Drops
<1>6. ASSUME NEW t \in Turns, Removed(t)
      PROVE  Drops /\ UNCHANGED <<recorded, freed, missed>>
  BY <1>6 DEF Removed, Unmapped, task, Drops
<1>7. ASSUME NEW t \in Turns, Lock(t) \/ Spawn(t) \/ Event(t) \/ ProcessEnds(t) \/ StopOne(t)
      PROVE  Drops /\ UNCHANGED <<recorded, freed, missed>>
  BY <1>7 DEF Lock, Spawn, Event, ProcessEnds, StopOne, task, manager, Drops
<1>8. ASSUME NEW t \in Turns, Handled(t)
      PROVE  /\ Drops /\ UNCHANGED <<freed, missed>>
             /\ UNCHANGED recorded \/ recorded' = [recorded EXCEPT ![t] = captured[t]]
  BY <1>8 DEF Handled, task, manager, Drops
<1>9. ASSUME NEW t \in Turns, EndOfOutput(t) \/ Stopped(t) \/ CloseGenerator(t)
      PROVE  Drops /\ UNCHANGED <<recorded, freed, missed>>
  BY <1>9 DEF EndOfOutput, Stopped, CloseGenerator, task, manager, Drops
<1>10. CASE StopAll \/ AllStopped \/ UNCHANGED vars
  BY <1>10 DEF StopAll, AllStopped, vars, task, manager, Drops
<1> QED
  BY <1>1, <1>2, <1>3, <1>4, <1>5, <1>6, <1>7, <1>8, <1>9, <1>10 DEF Next

-----------------------------------------------------------------------------
(* Ids *)

LEMMA IdsStep ==
  TypeOK /\ StartedInv /\ IdsInv /\ EntriesInv /\ [Next]_vars => IdsInv'
<1> SUFFICES ASSUME TypeOK, StartedInv, IdsInv, EntriesInv, [Next]_vars PROVE IdsInv'
  OBVIOUS
<1> USE IdFacts DEF TypeOK
<1>1. ASSUME Drops,
             UNCHANGED recorded
             \/ \E t \in Turns : recorded' = [recorded EXCEPT ![t] = captured[t]]
      PROVE  IdsInv'
  <2>1. ASSUME NEW i \in RealIds, InUse(i)' PROVE InUse(i)
    BY <1>1, <2>1 DEF InUse, Drops
  <2> QED BY <1>1, <2>1 DEF IdsInv, Drops
<1>2. ASSUME NEW t \in Turns, NEW i \in Ids, NEW l \in RealIds, Begin(t), Shares(t, i, l)
      PROVE  IdsInv'
  <2>1. captured[t] = None /\ temp[t] = None
    BY <1>2, BeginKeeps DEF StartedInv, Unstarted
  <2>2. InUse(l)
    BY <1>2 DEF Shares, EntriesInv, InUse
  <2>3. ASSUME NEW j \in RealIds, InUse(j)' PROVE InUse(j)
    BY <1>2, <2>2, <2>3, BeginKeeps DEF InUse, Shares
  <2> QED BY <1>2, <2>1, <2>3 DEF IdsInv, Shares
<1>3. ASSUME NEW t \in Turns, NEW i \in Ids, Begin(t), Makes(t, i)
      PROVE  IdsInv'
  <2>1. captured[t] = None /\ temp[t] = None
    BY <1>3, BeginKeeps DEF StartedInv, Unstarted
  <2>2. i \in RealIds => InUse(i)
    BY <1>3 DEF Makes, Resumes, InUse
  <2>3. ASSUME NEW j \in RealIds, InUse(j)' PROVE InUse(j)
    BY <1>3, <2>2, <2>3, BeginKeeps DEF InUse, Makes
  <2> QED BY <1>3, <2>1, <2>3 DEF IdsInv, Makes
<1>4. ASSUME NEW t \in Turns, NEW i \in Ids, Registers(t, i) PROVE IdsInv'
  <2>1. ASSUME NEW j \in RealIds, InUse(j)', j # Real(t) PROVE InUse(j)
    BY <1>4, <2>1 DEF InUse, Registers
  <2> QED BY <1>4, <2>1 DEF IdsInv, Registers
<1> QED BY <1>1, <1>2, <1>3, <1>4, StepKinds, BeginCases, RegisterCases

-----------------------------------------------------------------------------
(* Entries *)

\* A reported id is not in use before its turn has registered it.
LEMMA NotYetInUse ==
  ASSUME TypeOK, StartedInv, IdsInv, NEW t \in Turns, Live(t), captured[t] = None
  PROVE  ~InUse(Real(t))
BY IdFacts DEF IdsInv, StartedInv, Live

LEMMA EntriesStep ==
  TypeOK /\ StartedInv /\ IdsInv /\ EntriesInv /\ [Next]_vars => EntriesInv'
<1> SUFFICES ASSUME TypeOK, StartedInv, IdsInv, EntriesInv, [Next]_vars PROVE EntriesInv'
  OBVIOUS
<1> USE IdFacts DEF TypeOK
<1>1. ASSUME Drops, \A u \in Turns : Owner(u) => Owner(u)' PROVE EntriesInv'
  <2>1. \A u \in Turns : Handle(u)' = Handle(u)
    BY <1>1 DEF Drops, Handle
  <2>2. ASSUME NEW i \in Ids, sessions'[i] # None
        PROVE  /\ \E u \in Turns : i = Real(u) /\ captured'[u] = i /\ Owner(u)'
               /\ pending'[i] = None /\ temp_to_real'[i] = None
    BY <1>1, <2>2 DEF Drops, EntriesInv
  <2>3. ASSUME NEW i \in Ids, pending'[i] # None
        PROVE  \E u \in Turns : Handle(u)' = i /\ Owner(u)'
    BY <1>1, <2>1, <2>3 DEF Drops, EntriesInv
  <2> QED BY <2>2, <2>3 DEF EntriesInv
<1>2. ASSUME NEW t \in Turns, RemoveSession(t), ~Owner(t)' PROVE EntriesInv'
  <2>1. /\ Drops /\ \A u \in Turns : Handle(u)' = Handle(u)
        /\ \A u \in Turns \ {t} : Owner(u) => Owner(u)'
    BY <1>2, RemoveDrops DEF Drops, Handle
  <2>2. PICK s \in Turns : TakesOut(t, Handle(t), s)
    BY <1>2, RemoveCases DEF FindsNothing, Owner
  <2>3. Handle(t) \in Ids /\ pending'[Handle(t)] = None
    BY <1>2, <2>2, HandleType DEF TakesOut, RemoveSession, Live
  <2>4. pending[Handle(t)] = None => sessions'[Handle(t)] = None
    BY <2>2, <2>3 DEF TakesOut
  <2>5. ASSUME NEW i \in Ids, sessions'[i] # None
        PROVE  /\ \E u \in Turns : i = Real(u) /\ captured'[u] = i /\ Owner(u)'
               /\ pending'[i] = None /\ temp_to_real'[i] = None
    <3>1. sessions[i] # None /\ pending[i] = None /\ temp_to_real[i] = None
      BY <2>1, <2>5 DEF Drops, EntriesInv
    <3>2. PICK u \in Turns : i = Real(u) /\ captured[u] = i /\ Owner(u)
      BY <3>1 DEF EntriesInv
    <3>3. u # t
      BY <2>4, <2>5, <3>1, <3>2 DEF Handle
    <3> QED BY <2>1, <3>1, <3>2, <3>3 DEF Drops
  <2>6. ASSUME NEW i \in Ids, pending'[i] # None
        PROVE  \E u \in Turns : Handle(u)' = i /\ Owner(u)'
    <3>1. pending[i] # None
      BY <2>1, <2>6 DEF Drops
    <3>2. PICK u \in Turns : Handle(u) = i /\ Owner(u)
      BY <3>1 DEF EntriesInv
    <3> QED BY <2>1, <2>3, <2>6, <3>2
  <2> QED BY <2>5, <2>6 DEF EntriesInv
<1>3. ASSUME NEW t \in Turns, Begin(t) PROVE EntriesInv'
  <2>1. captured[t] = None /\ temp[t] = None
    BY <1>3, BeginKeeps DEF StartedInv, Unstarted
  <2>2. Owner(t)' /\ \A u \in Turns : Owner(u) => Owner(u)'
    <3>1. phase'[t] = "locked"
      BY <1>3, BeginKeeps
    <3> QED BY <1>3, <3>1, BeginKeeps, OwnersStay DEF Owner, Live, Killing, RemoveSession
  <2>3. UNCHANGED <<sessions, temp_to_real>>
    BY <1>3, BeginKeeps
  <2>4. ASSUME NEW i \in Ids, NEW l \in RealIds, Shares(t, i, l) PROVE EntriesInv'
    <3>1. /\ \A u \in Turns \ {t} : Handle(u)' = Handle(u)
          /\ \A u \in Turns \ {t} : captured'[u] = captured[u]
          /\ Handle(t) = None /\ UNCHANGED pending
      BY <2>1, <2>4 DEF Handle, Shares
    <3>2. \A u \in Turns, j \in Ids : captured[u] = j \/ Handle(u) = j => u # t
      BY <2>1, <3>1
    <3>3. ASSUME NEW j \in Ids, sessions'[j] # None
          PROVE  /\ \E u \in Turns : j = Real(u) /\ captured'[u] = j /\ Owner(u)'
                 /\ pending'[j] = None /\ temp_to_real'[j] = None
      BY <2>2, <2>3, <3>1, <3>2, <3>3 DEF EntriesInv
    <3>4. ASSUME NEW j \in Ids, pending'[j] # None
          PROVE  \E u \in Turns : Handle(u)' = j /\ Owner(u)'
      BY <2>2, <3>1, <3>2, <3>4 DEF EntriesInv
    <3> QED BY <3>3, <3>4 DEF EntriesInv
  <2>5. ASSUME NEW i \in Ids, Makes(t, i) PROVE EntriesInv'
    <3>1. /\ \A u \in Turns \ {t} : Handle(u)' = Handle(u)
          /\ UNCHANGED captured /\ Handle(t) = None /\ Handle(t)' = i
          /\ pending' = [pending EXCEPT ![i] = t]
      BY <2>1, <2>5 DEF Handle, Makes
    <3>2. sessions[i] = None
      BY <2>5 DEF Makes, EntriesInv
    <3> QED BY <2>1, <2>2, <2>3, <3>1, <3>2 DEF EntriesInv
  <2> QED BY <1>3, <2>4, <2>5, BeginCases
<1>4. ASSUME NEW t \in Turns, Register(t) PROVE EntriesInv'
  <2>1. PICK i \in Ids : Registers(t, i)
    BY <1>4, RegisterCases
  <2>2. captured[t] = None /\ Handle(t) = i /\ ~InUse(Real(t)) /\ i # Real(t)
    <3>1. captured[t] = None /\ Handle(t) = i
      BY <2>1 DEF Registers, IdsInv, Handle
    <3>2. ~InUse(Real(t))
      BY <2>1, <3>1, NotYetInUse DEF Registers
    <3>3. i # Real(t)
      BY <2>1, <3>2 DEF Registers, InUse
    <3> QED BY <3>1, <3>2, <3>3
  <2>3. pending[Real(t)] = None /\ temp_to_real[Real(t)] = None
    BY <2>2 DEF InUse
  <2>4. Owner(t)' /\ \A u \in Turns : Owner(u) => Owner(u)'
    <3>1. phase'[t] = "reading"
      BY <1>4, RegisterCases
    <3>2. \A u \in Turns \ {t} : phase'[u] = phase[u] /\ missed'[u] = missed[u]
      BY <1>4, RegisterCases
    <3> QED BY <3>1, <3>2 DEF Owner, Live, Killing
  <2>5. /\ \A u \in Turns \ {t} : Handle(u)' = Handle(u) /\ captured'[u] = captured[u]
        /\ captured'[t] = Real(t)
    BY <2>1 DEF Handle, Registers
  <2>6. ASSUME NEW j \in Ids, sessions'[j] # None
        PROVE  /\ \E u \in Turns : j = Real(u) /\ captured'[u] = j /\ Owner(u)'
               /\ pending'[j] = None /\ temp_to_real'[j] = None
    <3>1. CASE j = Real(t)
      BY <2>1, <2>2, <2>3, <2>4, <2>5, <3>1 DEF Registers
    <3>2. CASE j # Real(t)
      <4>1. sessions[j] # None
        BY <2>1, <2>6, <3>2 DEF Registers
      <4>2. pending[j] = None /\ temp_to_real[j] = None
        BY <4>1 DEF EntriesInv
      <4>3. pending'[j] = None /\ temp_to_real'[j] = None
        BY <2>1, <4>2 DEF Registers
      <4>4. PICK u \in Turns : j = Real(u) /\ captured[u] = j /\ Owner(u)
        BY <4>1 DEF EntriesInv
      <4> QED BY <2>2, <2>4, <2>5, <4>3, <4>4
    <3> QED BY <3>1, <3>2
  <2>7. ASSUME NEW j \in Ids, pending'[j] # None
        PROVE  \E u \in Turns : Handle(u)' = j /\ Owner(u)'
    <3>1. pending[j] # None /\ j # i
      BY <2>1, <2>7 DEF Registers
    <3>2. PICK u \in Turns : Handle(u) = j /\ Owner(u)
      BY <3>1 DEF EntriesInv
    <3> QED BY <2>2, <2>4, <2>5, <3>1, <3>2
  <2> QED BY <2>6, <2>7 DEF EntriesInv
<1>5. ASSUME NEW t \in Turns, RemoveSession(t) PROVE EntriesInv'
  BY <1>1, <1>2, <1>5, RemoveDrops
<1>6. CASE \A t \in Turns : ~RemoveSession(t)
  <2>1. \A u \in Turns : Owner(u) => Owner(u)'
    BY <1>6, OwnersStay
  <2> QED BY <1>1, <1>3, <1>4, <2>1, StepKinds
<1> QED BY <1>5, <1>6

-----------------------------------------------------------------------------
(* Trees *)

LEMMA SettledStep == TypeOK /\ SettledInv /\ [Next]_vars => SettledInv'
<1> SUFFICES ASSUME TypeOK, SettledInv, [Next]_vars PROVE SettledInv'
  OBVIOUS
<1> USE DEF TypeOK
<1> DEFINE Settled == {"stopping", "unwinding", "ending", "removing", "done"} \cup Killing
<1>1. ASSUME UNCHANGED <<freed, missed>>,
             \A u \in Turns : phase'[u] = phase[u] \/ phase'[u] \in Settled
                             \/ phase[u] \notin Settled
      PROVE  SettledInv'
  BY <1>1 DEF SettledInv
<1>2. ASSUME NEW t \in Turns, RemoveSession(t) PROVE SettledInv'
  <2>1. /\ freed' = freed
        /\ \A u \in Turns \ {t} : phase'[u] = phase[u] /\ missed'[u] = missed[u]
        /\ phase'[t] \in Settled
    <3>1. freed' = freed /\ missed' \in [Turns -> BOOLEAN]
          /\ \A u \in Turns \ {t} : missed'[u] = missed[u]
      BY <1>2 DEF RemoveSession
    <3>2. /\ \A u \in Turns \ {t} : phase'[u] = phase[u]
          /\ phase'[t] \in Settled
      BY <1>2 DEF RemoveSession, To, Killing
    <3> QED BY <3>1, <3>2
  <2> QED BY <2>1 DEF SettledInv
<1>3. ASSUME NEW t \in Turns, Begin(t) PROVE SettledInv'
  BY <1>1, <1>3, BeginKeeps DEF Killing
<1>4. CASE CancelAll
  <2>1. /\ Cancelled({u \in Turns : Live(u)})
        /\ freed' = [u \in Turns |-> freed[u] \/ Live(u)]
    BY <1>4 DEF CancelAll
  <2>2. ASSUME NEW u \in Turns, Live(u) PROVE phase'[u] \in Settled
    <3>1. phase'[u] = AfterCancel(u)
      BY <2>1, <2>2 DEF Cancelled
    <3> QED BY <2>2, <3>1 DEF AfterCancel, Live, Phases, Unstarted, Holding, Killing
  <2>3. ASSUME NEW u \in Turns, ~Live(u)
        PROVE  phase'[u] = phase[u] /\ missed'[u] = missed[u] /\ freed'[u] = freed[u]
    BY <2>1, <2>3 DEF Cancelled, Live, Killing
  <2> QED BY <2>2, <2>3 DEF SettledInv
<1>5. ASSUME NEW t \in Turns, Cancel(t) PROVE SettledInv'
  <2>1. Cancelled({t}) /\ freed' = freed
    BY <1>5 DEF Cancel
  <2>2. \A u \in Turns \ {t} : phase'[u] = phase[u] /\ missed'[u] = missed[u]
    BY <2>1 DEF Cancelled
  <2>3. phase'[t] = AfterCancel(t)
    BY <2>1 DEF Cancelled
  <2>4. phase'[t] \in Settled
    BY <1>5, <2>3 DEF Cancel, AfterCancel, Live, Phases, Unstarted, Holding, Killing
  <2> QED BY <2>1, <2>2, <2>4 DEF SettledInv
<1>6. ASSUME NEW t \in Turns, RegisterNote(t) \/ Transcribed(t) \/ ClearNote(t) \/ Drop(t)
      PROVE  SettledInv'
  BY <1>1, <1>6 DEF RegisterNote, Transcribed, ClearNote, Drop, To, task, Killing
<1>7. ASSUME NEW t \in Turns, Register(t) \/ WaitToRegister(t)
      PROVE  SettledInv'
  BY <1>1, <1>7 DEF Register, WaitToRegister, HasRealId, To, task, Killing
<1>8. ASSUME NEW t \in Turns, WaitToRemove(t) \/ Removed(t)
      PROVE  SettledInv'
  BY <1>1, <1>8 DEF WaitToRemove, Removed, To, task
<1>9. ASSUME NEW t \in Turns, Lock(t) \/ Spawn(t) \/ Event(t) \/ Handled(t)
      PROVE  SettledInv'
  BY <1>1, <1>9 DEF Lock, Spawn, Event, Handled, To, task, Killing
<1>10. ASSUME NEW t \in Turns, EndOfOutput(t) \/ Stopped(t)
       PROVE  SettledInv'
  BY <1>1, <1>10 DEF EndOfOutput, Stopped, To, task
<1>11. ASSUME NEW t \in Turns, ProcessEnds(t) \/ CloseGenerator(t) \/ StopOne(t)
       PROVE  SettledInv'
  BY <1>1, <1>11 DEF ProcessEnds, CloseGenerator, StopOne, task
<1>12. CASE StopAll \/ AllStopped \/ UNCHANGED vars
  BY <1>1, <1>12 DEF StopAll, AllStopped, vars, task
<1> QED
  BY <1>2, <1>3, <1>4, <1>5, <1>6, <1>7, <1>8, <1>9, <1>10, <1>11, <1>12 DEF Next

\* What a settled turn would remove stays what it is.
LEMMA TakenOverStays ==
  ASSUME TypeOK, StartedInv, SettledInv, [Next]_vars, NEW t \in Turns, NEW i \in Ids,
         TakenOver(t, i)
  PROVE  TakenOver(t, i)'
<1> USE DEF TypeOK
<1>1. PICK u \in Turns \ {t} : Tree[u] = Tree[t] /\ Handle(u) = i /\ (freed[u] \/ missed[u])
  BY DEF TakenOver
<1>2. freed'[u] \/ missed'[u]
  BY <1>1, StepKinds
<1>3. captured'[u] = captured[u] /\ temp'[u] = temp[u]
  <2>1. CASE Drops
    BY <2>1 DEF Drops
  <2>2. ASSUME NEW b \in Turns, Begin(b) PROVE captured'[u] = captured[u] /\ temp'[u] = temp[u]
    <3>1. u # b
      BY <1>1, <2>2, BeginKeeps DEF SettledInv, Killing
    <3>2. CASE \E j \in Ids, l \in RealIds : Shares(b, j, l)
      BY <3>1, <3>2 DEF Shares
    <3>3. CASE \E j \in Ids : Makes(b, j)
      BY <3>1, <3>3 DEF Makes
    <3> QED BY <2>2, <3>2, <3>3, BeginCases
  <2>3. ASSUME NEW b \in Turns, Register(b) PROVE captured'[u] = captured[u] /\ temp'[u] = temp[u]
    <3>1. u # b
      BY <1>1, <2>3 DEF Register, HasRealId, SettledInv, Killing
    <3> QED BY <2>3, <3>1 DEF Register
  <2> QED BY <2>1, <2>2, <2>3, StepKinds
<1> QED BY <1>1, <1>2, <1>3 DEF TakenOver, Handle

LEMMA TreesStep ==
  /\ TypeOK /\ StartedInv /\ IdsInv /\ EntriesInv /\ SettledInv /\ TreesInv /\ OwnSession
  /\ [Next]_vars
  => TreesInv' /\ OwnSession'
<1> SUFFICES ASSUME TypeOK, StartedInv, IdsInv, EntriesInv, SettledInv, TreesInv, OwnSession,
                    [Next]_vars
             PROVE  TreesInv' /\ OwnSession'
  OBVIOUS
<1> USE IdFacts DEF TypeOK
<1>1. \A t \in Turns, i \in Ids : TakenOver(t, i) => TakenOver(t, i)'
  BY TakenOverStays
<1>a. OwnSession <=>
        \A t \in Turns : recorded[t] \in {None, Real(t)} \/ TakenOver(t, recorded[t])
  BY DEF OwnSession, TakenOver
<1>b. OwnSession' <=>
        \A t \in Turns : recorded'[t] \in {None, Real(t)} \/ TakenOver(t, recorded[t])'
  BY DEF OwnSession, TakenOver
<1>2. CASE Drops /\ UNCHANGED recorded
  <2>1. UNCHANGED <<captured, temp, recorded>>
    BY <1>2 DEF Drops
  <2>2. \A t \in Turns : captured'[t] \in {None, Real(t)} \/ TakenOver(t, captured[t])'
    BY <1>1, <2>1 DEF TreesInv
  <2>3. \A t \in Turns : recorded'[t] \in {None, Real(t)} \/ TakenOver(t, recorded[t])'
    BY <1>1, <1>a, <2>1
  <2> QED BY <1>2, <1>b, <2>2, <2>3 DEF Drops, TreesInv, SameTree
<1>3. ASSUME NEW t \in Turns, Drops, recorded' = [recorded EXCEPT ![t] = captured[t]]
      PROVE  TreesInv' /\ OwnSession'
  <2>1. UNCHANGED <<captured, temp>>
    BY <1>3 DEF Drops
  <2>2. \A u \in Turns : captured'[u] \in {None, Real(u)} \/ TakenOver(u, captured[u])'
    BY <1>1, <2>1 DEF TreesInv
  <2>3. \A u \in Turns : recorded'[u] = IF u = t THEN captured[t] ELSE recorded[u]
    BY <1>3
  <2>4. \A u \in Turns : recorded'[u] \in {None, Real(u)} \/ TakenOver(u, recorded[u])'
    <3>1. ASSUME NEW u \in Turns, recorded'[u] = captured'[u]
          PROVE  TakenOver(u, captured[u])' => TakenOver(u, recorded[u])'
      BY <3>1 DEF TakenOver
    <3>2. ASSUME NEW u \in Turns, recorded'[u] = recorded[u]
          PROVE  recorded'[u] \in {None, Real(u)} \/ TakenOver(u, recorded[u])'
      BY <1>1, <1>a, <3>2
    <3> QED BY <2>1, <2>2, <2>3, <3>1, <3>2
  <2> QED BY <1>3, <1>b, <2>2, <2>3, <2>4 DEF Drops, TreesInv, SameTree
<1>4. ASSUME NEW t \in Turns, NEW i \in Ids, Resumes(t, i)
      PROVE  Tree[TurnOf(i)] = Tree[t]
  BY <1>4, TurnsAssumption DEF Resumes, TreesInv, SameTree
<1>5. ASSUME NEW t \in Turns, NEW i \in Ids, NEW l \in RealIds, Begin(t), Shares(t, i, l)
      PROVE  TreesInv' /\ OwnSession'
  <2>1. captured[t] = None /\ temp[t] = None
    BY <1>5, BeginKeeps DEF StartedInv, Unstarted
  <2>2. Tree[TurnOf(l)] = Tree[t]
    BY <1>4, <1>5 DEF Shares, Resumes, TreesInv, SameTree
  <2>3. PICK u \in Turns : Handle(u) = l /\ Owner(u)
    BY <1>5 DEF Shares, EntriesInv, Handle
  <2>4. u # t /\ Tree[u] = Tree[t]
    BY <2>1, <2>2, <2>3 DEF Handle, TreesInv, SameTree
  <2>5. freed[u] \/ missed[u]
    BY <1>5, <2>3, <2>4, BeginKeeps DEF Owner
  <2>6. TakenOver(t, l)
    BY <2>3, <2>4, <2>5 DEF TakenOver
  <2>7. captured' = [captured EXCEPT ![t] = l] /\ UNCHANGED <<temp, recorded, temp_to_real>>
    BY <1>5, BeginKeeps DEF Shares
  <2>8. \A v \in Turns : captured'[v] \in {None, Real(v)} \/ TakenOver(v, captured[v])'
    <3>1. TakenOver(t, l)'
      BY <1>1, <2>6
    <3>2. ASSUME NEW v \in Turns \ {t}
          PROVE  captured'[v] \in {None, Real(v)} \/ TakenOver(v, captured[v])'
      <4>1. captured'[v] = captured[v]
        BY <2>7
      <4> QED BY <1>1, <4>1 DEF TreesInv
    <3>3. captured'[t] = l
      BY <2>7
    <3> QED BY <3>1, <3>2, <3>3
  <2>9. OwnSession'
    BY <1>1, <1>a, <1>b, <2>7
  <2> QED BY <2>2, <2>7, <2>8, <2>9 DEF TreesInv, SameTree
<1>6. ASSUME NEW t \in Turns, NEW i \in Ids, Begin(t), Makes(t, i)
      PROVE  TreesInv' /\ OwnSession'
  <2>1. Tree[TurnOf(i)] = Tree[t]
    BY <1>4, <1>6 DEF Makes
  <2>2. temp' = [temp EXCEPT ![t] = i] /\ UNCHANGED <<captured, recorded, temp_to_real>>
    BY <1>6, BeginKeeps DEF Makes
  <2>3. \A v \in Turns : captured'[v] \in {None, Real(v)} \/ TakenOver(v, captured[v])'
    BY <1>1, <2>2 DEF TreesInv
  <2>4. OwnSession'
    BY <1>1, <1>a, <1>b, <2>2
  <2> QED BY <2>1, <2>2, <2>3, <2>4 DEF TreesInv, SameTree
<1>7. ASSUME NEW t \in Turns, NEW i \in Ids, Registers(t, i)
      PROVE  TreesInv' /\ OwnSession'
  <2>1. Tree[TurnOf(i)] = Tree[t]
    BY <1>7 DEF Registers, TreesInv, SameTree
  <2>2. \A j \in Ids : temp_to_real'[j] = temp_to_real[j] \/ (j = i /\ temp_to_real'[j] = Real(t))
    BY <1>7 DEF Registers
  <2>3. \A j \in Ids : SameTree(temp_to_real'[j], TurnOf(j))
    BY <2>1, <2>2 DEF TreesInv, SameTree
  <2>4. /\ captured' = [captured EXCEPT ![t] = Real(t)] /\ temp' = [temp EXCEPT ![t] = None]
        /\ recorded' = [recorded EXCEPT ![t] = Real(t)]
    BY <1>7 DEF Registers
  <2>5. ASSUME NEW v \in Turns
        PROVE  /\ captured'[v] \in {None, Real(v)} \/ TakenOver(v, captured[v])'
               /\ recorded'[v] \in {None, Real(v)} \/ TakenOver(v, recorded[v])'
    <3>1. CASE v = t
      BY <2>4, <3>1
    <3>2. CASE v # t
      <4>1. captured'[v] = captured[v] /\ recorded'[v] = recorded[v]
        BY <2>4, <3>2
      <4>2. ASSUME NEW j \in Ids, TakenOver(v, j)
            PROVE  /\ captured[v] = j => TakenOver(v, captured[v])'
                   /\ recorded[v] = j => TakenOver(v, recorded[v])'
        <5>1. TakenOver(v, j)'
          BY <1>1, <4>2
        <5> QED BY <4>1, <5>1 DEF TakenOver
      <4>3. captured[v] \in {None, Real(v)} \/ TakenOver(v, captured[v])
        BY DEF TreesInv
      <4>4. recorded[v] \in {None, Real(v)} \/ TakenOver(v, recorded[v])
        BY <1>a
      <4>5. captured[v] \in Ids \cup {None} /\ recorded[v] \in Ids \cup {None}
        OBVIOUS
      <4> QED BY <4>1, <4>2, <4>3, <4>4, <4>5
    <3> QED BY <3>1, <3>2
  <2> QED BY <1>b, <2>3, <2>4, <2>5 DEF TreesInv, SameTree
<1> QED BY <1>2, <1>3, <1>5, <1>6, <1>7, StepKinds, BeginCases, RegisterCases

-----------------------------------------------------------------------------

LEMMA TurnsInit == Init => TurnsInv
<1> SUFFICES ASSUME Init PROVE TurnsInv
  OBVIOUS
<1> USE IdFacts, TurnsAssumption DEF Init
<1>1. TypeOK
  BY TypeInit
<1>2. NotesInv /\ StartedInv /\ ProcessInv
  BY DEF NotesInv, StartedInv, ProcessInv, Unstarted, Live
<1>3. IdsInv /\ EntriesInv
  <2>1. \A i \in RealIds : InUse(i) => \E t \in Ended : i = recorded[t]
    BY DEF InUse
  <2> QED BY <2>1 DEF IdsInv, EntriesInv
<1>4. SettledInv /\ TreesInv /\ OwnSession
  BY DEF SettledInv, TreesInv, SameTree, OwnSession
<1> QED BY <1>1, <1>2, <1>3, <1>4 DEF TurnsInv

\* The inductive invariant.
THEOREM TurnsInvariant == Spec => []TurnsInv
<1>1. TurnsInv /\ [Next]_vars => TurnsInv'
  BY TypeStep, NotesStep, StartedStep, ProcessStep, IdsStep, EntriesStep, SettledStep, TreesStep
  DEF TurnsInv
<1> QED BY <1>1, TurnsInit, PTL DEF Spec

\* A voice note whose user was told that it is cancelled never becomes a turn
\* (PendingVoiceRegistry, handle_clear_command), however the transcription and
\* the command are interleaved.
THEOREM CancelledNoteUnheardTheorem == Spec => []CancelledNoteUnheard
<1>1. TurnsInv => CancelledNoteUnheard
  BY DEF TurnsInv, NotesInv, CancelledNoteUnheard
<1> QED BY <1>1, TurnsInvariant, PTL

\* The session a node records is the one its own process reported
\* (handle_session_info_event, process_parsed_cli_event), or that of a turn of its
\* tree whose tree a global /stop has freed or whose removal missed its session.
THEOREM OwnSessionTheorem == Spec => []OwnSession
<1>1. TurnsInv => OwnSession
  BY DEF TurnsInv
<1> QED BY <1>1, TurnsInvariant, PTL

\* Every entry of the manager will be removed by a task that is still there, and a
\* process runs only for such a task (remove_session), but for a removal that was
\* cut short or took the session of another turn.
THEOREM LeavesNothingTheorem == Spec => []LeavesNothing
<1>1. TurnsInv => LeavesNothing
  <2> SUFFICES ASSUME TurnsInv PROVE LeavesNothing
    OBVIOUS
  <2>1. ASSUME NEW i \in Ids, sessions[i] # None \/ pending[i] # None
        PROVE  \E t \in Turns : Handle(t) = i /\ (Live(t) \/ missed[t])
    BY <2>1, IdFacts DEF TurnsInv, EntriesInv, Owner, Handle
  <2>2. ASSUME NEW t \in Turns, process[t] = "running"
        PROVE  Live(t) \/ missed[t]
    BY <2>2 DEF TurnsInv, ProcessInv, Holding, Live
  <2> QED BY <2>1, <2>2 DEF LeavesNothing
<1> QED BY <1>1, TurnsInvariant, PTL

-----------------------------------------------------------------------------
(* The store *)

USE DEF dataVars, timerVars, histVars

\* The part of StoreTypeOK the proofs rest on.
Types ==
  /\ firing \in Nat /\ loose \in Nat /\ failures \in Nat
  /\ writes \in [Writers -> Snapshots \cup {Nothing}]
  /\ disk \in Snapshots
  /\ live \subseteq Messages /\ tree \subseteq Messages /\ mapped \subseteq Messages

LEMMA TypesInit == StoreInit => Types
  BY DEF StoreInit, Types, Snapshot, Snapshots

LEMMA TypesStep == Types /\ [StoreNext]_storeVars => Types'
  <1> SUFFICES ASSUME Types, [StoreNext]_storeVars PROVE Types'
    OBVIOUS
  <1> USE DEF Types
  <1>s. Snapshot \in Snapshots
    BY DEF Snapshot, Snapshots
  <1>1. CASE TimerFires
    BY <1>1 DEF TimerFires
  <1>2. CASE SaveFromTimer
    <2>1. CASE ~dirty
      BY <1>2, <2>1 DEF SaveFromTimer, EmptySlot
    <2>2. CASE dirty
      BY <1>2, <2>2, <1>s DEF SaveFromTimer, EmptySlot
    <2> QED BY <2>1, <2>2
  <1>3. ASSUME NEW w \in Writers, TimerWrites(w) PROVE Types'
    BY <1>3 DEF TimerWrites, Replace, WriteFails
  <1>4. CASE SaveTree \/ SaveProgress
    BY <1>4 DEF SaveTree, SaveProgress, Schedule
  <1>5. CASE RemoveTree
    BY <1>5 DEF RemoveTree, Schedule
  <1>6. CASE ClearAll \/ Flush
    BY <1>6 DEF ClearAll, Flush, FlushSave
  <1>7. CASE ClearAllWritten \/ Flushed
    BY <1>7, <1>s DEF ClearAllWritten, Flushed, LoopWrites, Replace, WriteFails
  <1>8. ASSUME NEW m \in Messages, Accept(m) PROVE Types'
    BY <1>8 DEF Accept, Schedule
  <1>9. ASSUME NEW S \in SUBSET Messages, ClearReplies(S) PROVE Types'
    BY <1>9 DEF ClearReplies, Schedule
  <1>10. CASE ClearRoot
    BY <1>10 DEF ClearRoot, Schedule
  <1>11. CASE Down
    BY <1>11 DEF Down
  <1>12. CASE Up
    BY <1>12 DEF Up, Loaded, Restored, Schedule, Snapshots
  <1>13. CASE UNCHANGED storeVars
    BY <1>13 DEF storeVars
  <1> QED
    BY <1>1, <1>2, <1>3, <1>4, <1>5, <1>6, <1>7, <1>8, <1>9, <1>10, <1>11,
       <1>12, <1>13 DEF StoreNext, TimerThread, LoopContinues

-----------------------------------------------------------------------------
LEMMA DirtyHasTimerStep ==
  ASSUME Types, DirtyHasTimer, [StoreNext]_storeVars
  PROVE  DirtyHasTimer'
  <1> USE DEF Types, DirtyHasTimer
  <1>1. CASE TimerFires
    <2>1. firing' > 0
      BY <1>1 DEF TimerFires
    <2> QED BY <2>1
  <1>2. CASE SaveFromTimer
    <2>1. ~dirty'
      BY <1>2, Zenon DEF SaveFromTimer
    <2> QED BY <2>1, Zenon
  <1>3. ASSUME NEW w \in Writers, TimerWrites(w) PROVE DirtyHasTimer'
    <2>1. CASE UNCHANGED <<dirty, failures>>
      BY <1>3, <2>1 DEF TimerWrites
    <2>2. CASE failures' = failures + 1
      BY <2>2
    <2> QED BY <1>3, <2>1, <2>2 DEF TimerWrites, Replace, WriteFails
  <1>4. CASE SaveTree \/ SaveProgress \/ ClearRoot
    <2>1. slot' = "armed"
      BY <1>4 DEF SaveTree, SaveProgress, ClearRoot, Schedule
    <2> QED BY <2>1
  <1>5. CASE RemoveTree
    <2>1. CASE tree = {}
      BY <1>5, <2>1 DEF RemoveTree
    <2>2. CASE tree # {}
      BY <1>5, <2>2 DEF RemoveTree, Schedule
    <2> QED BY <2>1, <2>2
  <1>6. CASE ClearAll \/ Flush
    <2>1. dirty' = FALSE
      BY <1>6, Zenon DEF ClearAll, Flush, FlushSave
    <2> QED BY <2>1, Zenon
  <1>7. CASE ClearAllWritten \/ Flushed
    <2>1. CASE UNCHANGED <<dirty, failures>>
      BY <1>7, <2>1 DEF ClearAllWritten, Flushed
    <2>2. CASE failures' = failures + 1
      BY <2>2
    <2> QED
      BY <1>7, <2>1, <2>2
      DEF ClearAllWritten, Flushed, LoopWrites, Replace, WriteFails
  <1>8. ASSUME NEW m \in Messages, Accept(m) PROVE DirtyHasTimer'
    BY <1>8 DEF Accept, Schedule
  <1>9. ASSUME NEW S \in SUBSET Messages, ClearReplies(S) PROVE DirtyHasTimer'
    BY <1>9 DEF ClearReplies, Schedule
  <1>10. CASE Down
    <2>1. dirty' = FALSE
      BY <1>10, Zenon DEF Down
    <2> QED BY <2>1, Zenon
  <1>11. CASE Up
    <2>1. CASE UNCHANGED <<dirty, timerVars>>
      BY <1>11, <2>1 DEF Up, Loaded, Restored
    <2>2. CASE Schedule
      BY <2>2 DEF Schedule
    <2> QED BY <1>11, <2>1, <2>2, Zenon DEF Up, Loaded, Restored
  <1>12. CASE UNCHANGED storeVars
    BY <1>12 DEF storeVars
  <1> QED
    BY <1>1, <1>2, <1>3, <1>4, <1>5, <1>6, <1>7, <1>8, <1>9, <1>10, <1>11,
       <1>12 DEF StoreNext, TimerThread, LoopContinues

\* However many timers are armed, cancelled and late, a change of the store is never
\* left without a timer that will save it, but after a write that failed
\* (_schedule_save, _save_from_timer, _flush_save).
THEOREM ChangesHaveTimer == StoreSpec => []DirtyHasTimer
  <1>1. StoreInit => DirtyHasTimer
    BY DEF StoreInit, DirtyHasTimer
  <1>2. Types /\ DirtyHasTimer /\ [StoreNext]_storeVars => DirtyHasTimer'
    BY DirtyHasTimerStep
  <1>3. QED
    BY TypesInit, TypesStep, <1>1, <1>2, PTL DEF StoreSpec

-----------------------------------------------------------------------------
(* Every snapshot there is, in memory, on its way and in the file, is indexed. *)

Indexed(s) == s.tree \ s.mapped \subseteq removed

AllIndexed ==
  /\ Indexed(disk)
  /\ Indexed(Snapshot)
  /\ \A w \in Writers : writes[w] # Nothing => Indexed(writes[w])

\* Clears only add to removed, so what was indexed stays so.
LEMMA SameFileIndexed ==
  ASSUME AllIndexed, removed \subseteq removed', UNCHANGED <<disk, writes>>
  PROVE  /\ Indexed(disk)'
         /\ \A w \in Writers : writes'[w] # Nothing => Indexed(writes[w])'
  BY DEF AllIndexed, Indexed

LEMMA AllIndexedStep ==
  ASSUME Types, AllIndexed, [StoreNext]_storeVars
  PROVE  AllIndexed'
  <1> USE DEF Types
  <1>1. CASE TimerFires
    BY <1>1 DEF TimerFires, AllIndexed, Indexed, Snapshot
  <1>2. CASE SaveFromTimer
    <2>1. CASE ~dirty
      BY <1>2, <2>1 DEF SaveFromTimer, AllIndexed, Indexed, Snapshot
    <2>2. CASE dirty
      <3>1. PICK v \in Writers : writes' = [writes EXCEPT ![v] = Snapshot]
        BY <1>2, <2>2 DEF SaveFromTimer
      <3>2. UNCHANGED <<disk, removed, tree, mapped>>
        BY <1>2 DEF SaveFromTimer
      <3> QED BY <3>1, <3>2 DEF AllIndexed, Indexed, Snapshot
    <2> QED BY <2>1, <2>2
  <1>3. ASSUME NEW w \in Writers, TimerWrites(w) PROVE AllIndexed'
    BY <1>3 DEF TimerWrites, Replace, WriteFails, AllIndexed, Indexed, Snapshot
  <1>4. CASE SaveTree \/ SaveProgress
    BY <1>4 DEF SaveTree, SaveProgress, AllIndexed, Indexed, Snapshot
  <1>5. CASE RemoveTree
    BY <1>5 DEF RemoveTree, AllIndexed, Indexed, Snapshot
  <1>6. CASE ClearAll \/ Flush
    BY <1>6 DEF ClearAll, Flush, AllIndexed, Indexed, Snapshot
  <1>7. CASE ClearAllWritten \/ Flushed
    <2>1. disk' = Snapshot \/ disk' = disk
      BY <1>7 DEF ClearAllWritten, Flushed, LoopWrites, Replace, WriteFails
    <2>2. removed \subseteq removed' /\ UNCHANGED <<tree, mapped, writes>>
      BY <1>7 DEF ClearAllWritten, Flushed
    <2> QED BY <2>1, <2>2 DEF AllIndexed, Indexed, Snapshot
  <1>8. ASSUME NEW m \in Messages, Accept(m) PROVE AllIndexed'
    BY <1>8 DEF Accept, AllIndexed, Indexed, Snapshot
  <1>9. ASSUME NEW S \in SUBSET Messages, ClearReplies(S) PROVE AllIndexed'
    BY <1>9, SameFileIndexed DEF ClearReplies, AllIndexed, Indexed, Snapshot
  <1>10. CASE ClearRoot
    BY <1>10, SameFileIndexed DEF ClearRoot, AllIndexed, Indexed, Snapshot
  <1>11. CASE Down
    BY <1>11 DEF Down, AllIndexed, Indexed, Snapshot
  <1>12. CASE Up
    BY <1>12 DEF Up, Loaded, Restored, AllIndexed, Indexed, Snapshot
  <1>13. CASE UNCHANGED storeVars
    BY <1>13 DEF storeVars, AllIndexed, Indexed, Snapshot
  <1> QED
    BY <1>1, <1>2, <1>3, <1>4, <1>5, <1>6, <1>7, <1>8, <1>9, <1>10, <1>11,
       <1>12, <1>13 DEF StoreNext, TimerThread, LoopContinues

\* Whatever instant the process ends at, the tree the next one restores is indexed,
\* but for nodes a /clear was taking out (_snapshot under the lock, os.replace).
THEOREM RestoresIndexed == StoreSpec => []RestoredIsIndexed
  <1>1. StoreInit => AllIndexed
    BY DEF StoreInit, AllIndexed, Indexed, Snapshot
  <1>2. Types /\ AllIndexed /\ [StoreNext]_storeVars => AllIndexed'
    BY AllIndexedStep
  <1>3. AllIndexed => RestoredIsIndexed
    BY DEF AllIndexed, Indexed, RestoredIsIndexed
  <1>4. QED
    BY TypesInit, TypesStep, <1>1, <1>2, <1>3, PTL DEF StoreSpec

-----------------------------------------------------------------------------
(* The requests built of a conversation: schemas *)

\* The least of a set of natural numbers.
LEMMA MinFacts ==
  ASSUME NEW S \in SUBSET Nat, S # {}
  PROVE  Min(S) \in S /\ \A x \in S : Min(S) <= x
<1>1. \E x \in S : \A y \in S : ~(<<y, x>> \in OpToRel(<, Nat))
  BY NatLessThanWellFounded, WFMin
<1>2. PICK x \in S : \A y \in S : ~(y < x)
  BY <1>1 DEF OpToRel
<1>3. \A y \in S : x <= y
  BY <1>2
<1> QED BY <1>3 DEF Min

\* The paths of a schema's properties.
SchemaType == schema \in SUBSET Seq(ParameterNames)

\* The alias of a schema is none of its names, nor one that stands for something else.
LEMMA AliasFacts ==
  ASSUME NEW kept \in SUBSET Seq(ParameterNames)
  PROVE  /\ PropertyNames(kept) \subseteq ParameterNames
         /\ AliasOf(kept) \notin PropertyNames(kept) \cup {Unsafe, NoAlias}
<1> DEFINE I == {i \in 1 .. Len(Aliases) : Aliases[i] \notin PropertyNames(kept)}
<1>1. PropertyNames(kept) \subseteq ParameterNames
  <2> SUFFICES ASSUME NEW p \in kept, NEW i \in DOMAIN p PROVE p[i] \in ParameterNames
    BY DEF PropertyNames, ToSet
  <2>1. p \in Seq(ParameterNames)
    OBVIOUS
  <2> QED BY <2>1
<1>2. PICK j \in DOMAIN Aliases : Aliases[j] \notin ParameterNames
  BY FreshAliasAssumption DEF ToSet
<1>3. I \in SUBSET Nat /\ j \in I
  BY <1>1, <1>2, AliasAssumption
<1>4. Min(I) \in I
  BY <1>3, MinFacts
<1>5. AliasOf(kept) = Aliases[Min(I)]
  BY <1>3 DEF AliasOf, SelectInSeq
<1>6. AliasOf(kept) \notin PropertyNames(kept) /\ AliasOf(kept) \in ToSet(Aliases)
  <2> HIDE DEF I
  <2>1. Min(I) \in DOMAIN Aliases /\ Aliases[Min(I)] \notin PropertyNames(kept)
    BY <1>4, AliasAssumption DEF I
  <2> QED BY <1>5, <2>1 DEF ToSet
<1> QED BY <1>1, <1>6, AliasAssumption

\* A path under an alias has no unsafe name, and gets its own back.
LEMMA RenamedFacts ==
  ASSUME NEW p \in Seq(ParameterNames), NEW alias, alias \notin ToSet(p), alias # Unsafe
  PROVE  /\ Unsafe \notin ToSet(Renamed(p, Unsafe, alias))
         /\ Renamed(Renamed(p, Unsafe, alias), alias, Unsafe) = p
         /\ Unsafe \notin ToSet(p) => Renamed(p, Unsafe, alias) = p
<1> DEFINE q == Renamed(p, Unsafe, alias)
<1>1. p = [i \in DOMAIN p |-> p[i]] /\ \A i \in DOMAIN p : p[i] # alias
  BY DEF ToSet
<1>2. DOMAIN q = DOMAIN p /\ \A i \in DOMAIN p : q[i] = IF p[i] = Unsafe THEN alias ELSE p[i]
  BY DEF Renamed
<1>3. Unsafe \notin ToSet(p) => q = p
  BY <1>1 DEF Renamed, ToSet
<1> HIDE DEF q
<1>4. Unsafe \notin ToSet(q)
  BY <1>2 DEF ToSet
<1>5. Renamed(q, alias, Unsafe) = [i \in DOMAIN p |-> p[i]]
  BY <1>1, <1>2 DEF Renamed
<1> QED BY <1>1, <1>3, <1>4, <1>5 DEF q

\* For every schema of such paths.
LEMMA NamesRestoredFacts == SchemaType => NamesRestored
<1> SUFFICES ASSUME SchemaType, NEW given \in SUBSET {"chat_template", "reasoning_budget"},
                    NEW thinks \in BOOLEAN,
                    NEW complaint \in SUBSET {"reasoning_budget", "chat_template",
                                              "reasoning_content"}
             PROVE  LET kept == Sanitized(schema, booleans)
                        body == NimBody(kept, given, thinks)
                        again == RetryBody(body, complaint)
                    IN  /\ \A p, q \in kept : again.tools[p] = again.tools[q] => p = q
                        /\ \A p \in kept : /\ Unsafe \notin ToSet(again.tools[p])
                                           /\ WithOwnNames(body, body.tools[p]) = p
                                           /\ WithOwnNames(again, again.tools[p]) = p
                        /\ CreateBody(again).alias = NoAlias
  BY DEF NamesRestored
<1> DEFINE kept == Sanitized(schema, booleans)
           body == NimBody(kept, given, thinks)
           again == RetryBody(body, complaint)
           alias == AliasOf(kept)
<1>1. kept \in SUBSET Seq(ParameterNames)
  BY DEF SchemaType, Sanitized
<1>2. alias \notin PropertyNames(kept) \cup {Unsafe, NoAlias}
  BY <1>1, AliasFacts
<1>3. /\ body.tools = [p \in kept |-> Renamed(p, Unsafe, alias)]
      /\ body.alias = IF Unsafe \in PropertyNames(kept) THEN alias ELSE NoAlias
  BY DEF NimBody, Sent
<1>4. again.tools = body.tools /\ again.alias = body.alias /\ CreateBody(again).alias = NoAlias
  <2> DEFINE extra == given \cup IF thinks THEN {"kwargs", "kwargs.reasoning_budget"} ELSE {}
  <2>1. body = [tools |-> body.tools, extra |-> extra, reasoning |-> thinks, alias |-> body.alias]
    BY DEF NimBody
  <2>2. /\ again.tools = body.tools /\ again.alias = body.alias
        /\ \E x, r : again = [tools |-> body.tools, extra |-> x, reasoning |-> r,
                              alias |-> body.alias]
    <3> HIDE DEF body, extra
    <3> QED BY <2>1 DEF RetryBody
  <2> QED BY <2>2 DEF CreateBody
<1> HIDE DEF kept, body, again, alias
<1>5. ASSUME NEW p \in kept
      PROVE  /\ Unsafe \notin ToSet(body.tools[p])
             /\ WithOwnNames(body, body.tools[p]) = p
  <2>1. p \in Seq(ParameterNames) /\ ToSet(p) \subseteq PropertyNames(kept)
    BY <1>1 DEF PropertyNames
  <2>2. body.tools[p] = Renamed(p, Unsafe, alias)
    BY <1>3
  <2>3. alias \notin ToSet(p) /\ alias # Unsafe
    BY <1>2, <2>1
  <2>4. CASE Unsafe \in PropertyNames(kept)
    BY <1>2, <1>3, <2>1, <2>2, <2>3, <2>4, RenamedFacts DEF WithOwnNames
  <2>5. CASE Unsafe \notin PropertyNames(kept)
    BY <1>3, <2>1, <2>2, <2>3, <2>5, RenamedFacts DEF WithOwnNames
  <2> QED BY <2>4, <2>5
<1>6. \A p \in kept : WithOwnNames(again, again.tools[p]) = p
  BY <1>4, <1>5 DEF WithOwnNames
<1>7. \A p, q \in kept : again.tools[p] = again.tools[q] => p = q
  BY <1>4, <1>5
<1> QED BY <1>4, <1>5, <1>6, <1>7 DEF kept, body, again

\* A schema stays one as properties are added.
LEMMA SchemaNext == SchemaType /\ [RequestNext]_requestVars => SchemaType'
<1> SUFFICES ASSUME SchemaType, [RequestNext]_requestVars PROVE SchemaType'
  OBVIOUS
<1>1. ASSUME NEW n, AssistantSays(n) PROVE schema' = schema
  BY <1>1 DEF AssistantSays, Say
<1>2. ASSUME NEW n, UserSays(n) PROVE schema' = schema
  BY <1>2 DEF UserSays, Say
<1>3. ASSUME NEW path \in BoundedSeq(ParameterNames, 2) \ {<<>>}, NEW boolean, AddProperty(path, boolean)
      PROVE  SchemaType'
  <2>1. path \in Seq(ParameterNames)
    <3>1. PICK m \in 0 .. 2 : path \in [1 .. m -> ParameterNames]
      BY DEF BoundedSeq, SeqOf
    <3>2. m \in Nat
      OBVIOUS
    <3> QED BY <3>1, <3>2
  <2> QED BY <1>3, <2>1 DEF AddProperty, SchemaType
<1> QED BY <1>1, <1>2, <1>3 DEF RequestNext, requestVars, SchemaType

\* A tool's parameters come back under their own names from NIM, which sees no unsafe
\* one, for every schema and every name (providers/nvidia_nim/request.py).
THEOREM NamesRestoredInv == RequestSpec => []NamesRestored
<1>1. RequestInit => SchemaType
  BY DEF RequestInit, SchemaType
<1> QED BY <1>1, SchemaNext, NamesRestoredFacts, PTL DEF RequestSpec

-----------------------------------------------------------------------------
(* Lists of blocks *)

\* The blocks a conversation is made of.
AllKinds == AssistantKinds \cup UserKinds \cup {"none", "reasoning"}
HistoryBlocks == [kind : AllKinds, at : Nat \X Nat, of : Nat \X Nat]
Lists == Seq(HistoryBlocks)

\* Recursions that make a list.
Longer(s, b) == Append(s, b)
Listing == INSTANCE FoldFacts WITH
  States <- Lists, Elements <- HistoryBlocks, Op <- Longer

\* Induction along a list, for a set instead of a predicate.
LEMMA ListInduction ==
  ASSUME NEW A, <<>> \in A,
         \A s \in Lists, b \in HistoryBlocks : s \in A => Append(s, b) \in A
  PROVE  Lists \subseteq A
<1> SUFFICES ASSUME NEW s \in Lists PROVE s \in A
  OBVIOUS
<1> DEFINE n == Len(s)
           B == {k \in 0 .. n : SubSeq(s, 1, k) \in A}
<1>1. n \in Nat
  BY DEF Lists
<1>2. SubSeq(s, 1, 0) = <<>> /\ SubSeq(s, 1, n) = s
  BY DEF Lists
<1>3. 0 \in B
  <2>1. 0 \in 0 .. n
    BY <1>1
  <2> HIDE DEF n
  <2> QED BY <1>2, <2>1
<1>4. ASSUME NEW k \in 0 .. n - 1, k \in B PROVE k + 1 \in B
  <2>1. SubSeq(s, 1, k) \in Lists /\ s[k + 1] \in HistoryBlocks
    BY DEF Lists
  <2>2. SubSeq(s, 1, k + 1) = Append(SubSeq(s, 1, k), s[k + 1])
    BY DEF Lists
  <2>3. k + 1 \in 0 .. n
    BY <1>1
  <2>4. SubSeq(s, 1, k) \in A
    BY <1>4
  <2>5. SubSeq(s, 1, k + 1) \in A
    <3> HIDE DEF n, B
    <3> QED BY <2>1, <2>2, <2>4
  <2> HIDE DEF n
  <2> QED BY <2>3, <2>5
<1>5. n \in B
  <2> HIDE DEF B, n
  <2>1. \A k \in 0 .. n - 1 : k \in B => k + 1 \in B
    BY <1>4
  <2>2. 0 .. n \subseteq B
    BY ONLY <1>1, <1>3, <2>1, Listing!Counting
  <2> QED BY <1>1, <2>2
<1> QED BY <1>2, <1>5

\* OfKinds goes through a list one block after the other.
LEMMA KeptSteps ==
  ASSUME NEW s \in Lists, NEW K
  PROVE  \E f \in [0 .. Len(s) -> Lists] :
           /\ f[0] = <<>>
           /\ \A i \in 1 .. Len(s) :
                f[i] = IF s[i].kind \in K THEN Append(f[i - 1], s[i]) ELSE f[i - 1]
           /\ OfKinds(s, K) = f[Len(s)]
<1> DEFINE n == Len(s)
           step == [x \in Lists \X (1 .. n) |->
                      IF s[x[2]].kind \in K THEN Append(x[1], s[x[2]]) ELSE x[1]]
           upTo == CHOOSE f : f = [k \in 0 .. n |->
                     IF k = 0 THEN <<>>
                     ELSE IF s[k].kind \in K THEN Append(f[k - 1], s[k]) ELSE f[k - 1]]
<1>1. n \in Nat /\ \A i \in 1 .. n : s[i] \in HistoryBlocks
  BY DEF Lists
<1>2. \A x \in Lists \X (1 .. n) :
        (IF s[x[2]].kind \in K THEN Append(x[1], s[x[2]]) ELSE x[1]) \in Lists
  <2> HIDE DEF n
  <2> QED BY <1>1 DEF Lists
<1>3. step \in [Lists \X (1 .. n) -> Lists]
  BY <1>2
<1>4. <<>> \in Lists
  BY DEF Lists
<1>5. PICK f \in [0 .. n -> Lists] :
        f[0] = <<>> /\ \A i \in 1 .. n : f[i] = step[<<f[i - 1], i>>]
  <2> HIDE DEF step, n
  <2> QED BY <1>1, <1>3, <1>4, Listing!RecursionSolved
<1>6. \A i \in 1 .. n :
        f[i] = IF s[i].kind \in K THEN Append(f[i - 1], s[i]) ELSE f[i - 1]
  <2> SUFFICES ASSUME NEW i \in 1 .. n
               PROVE  f[i] = IF s[i].kind \in K THEN Append(f[i - 1], s[i]) ELSE f[i - 1]
    OBVIOUS
  <2>1. f[i - 1] \in Lists
    BY <1>1, <1>5
  <2> QED BY <2>1, <1>5
<1>7. f = [k \in 0 .. n |->
             IF k = 0 THEN <<>>
             ELSE IF s[k].kind \in K THEN Append(f[k - 1], s[k]) ELSE f[k - 1]]
  <2>1. \A k \in 0 .. n : k # 0 => k \in 1 .. n
    BY <1>1
  <2> HIDE DEF n, step
  <2> QED BY <2>1, <1>5, <1>6
<1>8. upTo = [k \in 0 .. n |->
                IF k = 0 THEN <<>>
                ELSE IF s[k].kind \in K THEN Append(upTo[k - 1], s[k]) ELSE upTo[k - 1]]
  <2> HIDE DEF n, step
  <2> QED BY <1>7
<1>9. OfKinds(s, K) = upTo[n]
  BY DEF OfKinds
<1> DEFINE A == {k \in 0 .. n : upTo[k] = f[k]}
<1>10. n \in A
  <2> HIDE DEF upTo, step
  <2>1. 0 \in A
    <3>1. 0 \in 0 .. n
      BY <1>1
    <3> HIDE DEF n
    <3> QED BY <3>1, <1>5, <1>8
  <2>2. ASSUME NEW k \in 0 .. n - 1, k \in A PROVE k + 1 \in A
    <3>1. k + 1 \in 0 .. n /\ k + 1 \in 1 .. n /\ k + 1 # 0 /\ k + 1 - 1 = k
      BY <1>1
    <3>2. upTo[k] = f[k]
      BY <2>2
    <3>3. upTo[k + 1] = IF s[k + 1].kind \in K THEN Append(upTo[k], s[k + 1]) ELSE upTo[k]
      <4> DEFINE j == k + 1
      <4>1. j \in 0 .. n /\ j # 0 /\ j - 1 = k
        BY <3>1
      <4> HIDE DEF n, j
      <4>2. upTo[j] = IF s[j].kind \in K THEN Append(upTo[j - 1], s[j]) ELSE upTo[j - 1]
        BY <4>1, <1>8
      <4> QED BY <4>1, <4>2 DEF j
    <3>4. f[k + 1] = IF s[k + 1].kind \in K THEN Append(f[k], s[k + 1]) ELSE f[k]
      <4> HIDE DEF n
      <4> QED BY <3>1, <1>6
    <3> HIDE DEF n
    <3> QED BY <3>1, <3>2, <3>3, <3>4
  <2> HIDE DEF A, n
  <2>3. \A k \in 0 .. n - 1 : k \in A => k + 1 \in A
    BY <2>2
  <2>4. 0 .. n \subseteq A
    BY ONLY <1>1, <2>1, <2>3, Listing!Counting
  <2> QED BY <1>1, <2>4
<1> HIDE DEF upTo
<1> QED BY <1>5, <1>6, <1>9, <1>10

\* What it makes is a list.
LEMMA KeptType ==
  ASSUME NEW s \in Lists, NEW K
  PROVE  OfKinds(s, K) \in Lists
<1>1. PICK f \in [0 .. Len(s) -> Lists] : OfKinds(s, K) = f[Len(s)]
  BY KeptSteps
<1>2. Len(s) \in 0 .. Len(s)
  BY DEF Lists
<1> QED BY <1>1, <1>2

\* Nothing is kept of nothing.
LEMMA KeptOfNone == ASSUME NEW K PROVE <<>> \in Lists /\ OfKinds(<<>>, K) = <<>>
<1> DEFINE e == <<>>
<1>1. e \in Lists /\ Len(e) = 0
  BY DEF Lists
<1> HIDE DEF e
<1>2. PICK h \in [0 .. Len(e) -> Lists] :
        /\ h[0] = <<>>
        /\ \A i \in 1 .. Len(e) :
             h[i] = IF e[i].kind \in K THEN Append(h[i - 1], e[i]) ELSE h[i - 1]
        /\ OfKinds(e, K) = h[Len(e)]
  BY <1>1, KeptSteps
<1> QED BY <1>1, <1>2 DEF e

\* A list with one more block.
LEMMA KeptLonger ==
  ASSUME NEW s \in Lists, NEW b \in HistoryBlocks, NEW K
  PROVE  OfKinds(Append(s, b), K) =
           IF b.kind \in K THEN Append(OfKinds(s, K), b) ELSE OfKinds(s, K)
<1> DEFINE n == Len(s)
           t == Append(s, b)
<1>1. /\ n \in Nat /\ t \in Lists /\ Len(t) = n + 1 /\ t[n + 1] = b
      /\ \A i \in 1 .. n : t[i] = s[i]
  BY DEF Lists
<1>2. PICK f \in [0 .. n -> Lists] :
        /\ f[0] = <<>>
        /\ \A i \in 1 .. n : f[i] = IF s[i].kind \in K THEN Append(f[i - 1], s[i]) ELSE f[i - 1]
        /\ OfKinds(s, K) = f[n]
  BY KeptSteps
<1>3. PICK g \in [0 .. Len(t) -> Lists] :
        /\ g[0] = <<>>
        /\ \A i \in 1 .. Len(t) :
             g[i] = IF t[i].kind \in K THEN Append(g[i - 1], t[i]) ELSE g[i - 1]
        /\ OfKinds(t, K) = g[Len(t)]
  <2> HIDE DEF t
  <2> QED BY <1>1, KeptSteps
<1> HIDE DEF n, t
<1> DEFINE A == {k \in 0 .. n : g[k] = f[k]}
<1>4. 0 \in A
  BY <1>1, <1>2, <1>3
<1>5. ASSUME NEW k \in 0 .. n - 1, k \in A PROVE k + 1 \in A
  <2> DEFINE j == k + 1
  <2>1. j \in 1 .. n /\ j \in 0 .. n /\ j \in 1 .. Len(t) /\ j - 1 = k
    BY <1>1
  <2> HIDE DEF j
  <2>2. /\ g[j] = IF t[j].kind \in K THEN Append(g[j - 1], t[j]) ELSE g[j - 1]
        /\ f[j] = IF s[j].kind \in K THEN Append(f[j - 1], s[j]) ELSE f[j - 1]
        /\ t[j] = s[j]
    BY <1>1, <1>2, <1>3, <2>1
  <2>3. g[j] = f[j]
    BY <1>5, <2>1, <2>2
  <2> QED BY <2>1, <2>3 DEF j
<1>6. n \in A
  <2> HIDE DEF A
  <2>1. \A k \in 0 .. n - 1 : k \in A => k + 1 \in A
    BY <1>5
  <2>2. 0 .. n \subseteq A
    BY ONLY <1>1, <1>4, <2>1, Listing!Counting
  <2> QED BY <1>1, <2>2
<1>7. OfKinds(t, K) = IF b.kind \in K THEN Append(OfKinds(s, K), b) ELSE OfKinds(s, K)
  <2> DEFINE m == n + 1
  <2>1. m \in 1 .. Len(t) /\ m = Len(t) /\ m - 1 = n /\ t[m] = b
    BY <1>1
  <2> HIDE DEF m
  <2>2. g[m] = IF t[m].kind \in K THEN Append(g[m - 1], t[m]) ELSE g[m - 1]
    BY <1>3, <2>1
  <2> QED BY <1>2, <1>3, <1>6, <2>1, <2>2
<1> QED BY <1>7 DEF t

\* A list and another behind it.
LEMMA KeptConcat ==
  ASSUME NEW s \in Lists, NEW t \in Lists, NEW K
  PROVE  OfKinds(s \o t, K) = OfKinds(s, K) \o OfKinds(t, K)
<1> DEFINE A == {u \in Lists : OfKinds(s \o u, K) = OfKinds(s, K) \o OfKinds(u, K)}
<1>0. OfKinds(s, K) \in Lists /\ <<>> \in Lists
  BY KeptType DEF Lists
<1>1. <<>> \in A
  <2>1. s \o <<>> = s /\ OfKinds(s, K) \o <<>> = OfKinds(s, K)
    BY <1>0 DEF Lists
  <2>2. OfKinds(<<>>, K) = <<>>
    BY KeptOfNone
  <2> QED BY <1>0, <2>1, <2>2
<1>2. ASSUME NEW u \in Lists, NEW b \in HistoryBlocks, u \in A PROVE Append(u, b) \in A
  <2>1. Append(u, b) \in Lists /\ s \o u \in Lists
    BY DEF Lists
  <2>2. s \o Append(u, b) = Append(s \o u, b)
    BY DEF Lists
  <2>3. OfKinds(u, K) \in Lists
    BY KeptType
  <2>4. OfKinds(s, K) \o Append(OfKinds(u, K), b) = Append(OfKinds(s, K) \o OfKinds(u, K), b)
    <3> DEFINE p == OfKinds(s, K)
               q == OfKinds(u, K)
    <3> HIDE DEF p, q
    <3>1. p \in Lists /\ q \in Lists
      BY <1>0, <2>3 DEF p, q
    <3>2. p \o Append(q, b) = Append(p \o q, b)
      BY <3>1 DEF Lists
    <3> QED BY <3>2 DEF p, q
  <2>5. OfKinds(Append(s \o u, b), K) =
          IF b.kind \in K THEN Append(OfKinds(s \o u, K), b) ELSE OfKinds(s \o u, K)
    BY <2>1, KeptLonger
  <2>6. OfKinds(Append(u, b), K) = IF b.kind \in K THEN Append(OfKinds(u, K), b) ELSE OfKinds(u, K)
    BY KeptLonger
  <2>7. OfKinds(s \o u, K) = OfKinds(s, K) \o OfKinds(u, K)
    BY <1>2
  <2>8. OfKinds(s \o Append(u, b), K) = OfKinds(s, K) \o OfKinds(Append(u, b), K)
    BY <2>2, <2>4, <2>5, <2>6, <2>7
  <2> QED BY <2>1, <2>8
<1> HIDE DEF A
<1>3. Lists \subseteq A
  <2>1. \A u \in Lists, b \in HistoryBlocks : u \in A => Append(u, b) \in A
    BY <1>2
  <2> QED BY <1>1, <2>1, ListInduction
<1> QED BY <1>3 DEF A

\* Keeping some of what is kept.
LEMMA KeptTwice ==
  ASSUME NEW s \in Lists, NEW J, NEW K
  PROVE  OfKinds(OfKinds(s, J), K) = OfKinds(s, J \cap K)
<1> DEFINE A == {u \in Lists : OfKinds(OfKinds(u, J), K) = OfKinds(u, J \cap K)}
<1>1. <<>> \in A
  BY KeptOfNone
<1>2. ASSUME NEW u \in Lists, NEW b \in HistoryBlocks, u \in A PROVE Append(u, b) \in A
  <2>1. Append(u, b) \in Lists /\ OfKinds(u, J) \in Lists
    BY KeptType DEF Lists
  <2>2. OfKinds(OfKinds(u, J), K) = OfKinds(u, J \cap K)
    BY <1>2
  <2>3. /\ OfKinds(Append(u, b), J) = IF b.kind \in J THEN Append(OfKinds(u, J), b) ELSE OfKinds(u, J)
        /\ OfKinds(Append(u, b), J \cap K) =
             IF b.kind \in J \cap K THEN Append(OfKinds(u, J \cap K), b) ELSE OfKinds(u, J \cap K)
        /\ OfKinds(Append(OfKinds(u, J), b), K) =
             IF b.kind \in K THEN Append(OfKinds(OfKinds(u, J), K), b) ELSE OfKinds(OfKinds(u, J), K)
    BY <2>1, KeptLonger
  <2>4. OfKinds(OfKinds(Append(u, b), J), K) = OfKinds(Append(u, b), J \cap K)
    <3> DEFINE both == J \cap K
    <3>0. b.kind \in both <=> b.kind \in J /\ b.kind \in K
      OBVIOUS
    <3> HIDE DEF both
    <3>1. CASE b.kind \in J
      <4>1. OfKinds(OfKinds(Append(u, b), J), K) = OfKinds(Append(OfKinds(u, J), b), K)
        BY <3>1, <2>3
      <4>2. CASE b.kind \in K
        BY <3>0, <3>1, <4>1, <4>2, <2>2, <2>3 DEF both
      <4>3. CASE b.kind \notin K
        BY <3>0, <3>1, <4>1, <4>3, <2>2, <2>3 DEF both
      <4> QED BY <4>2, <4>3
    <3>2. CASE b.kind \notin J
      BY <3>2, <2>2, <2>3
    <3> QED BY <3>1, <3>2
  <2> QED BY <2>1, <2>4
<1> HIDE DEF A
<1>3. Lists \subseteq A
  <2>1. \A u \in Lists, b \in HistoryBlocks : u \in A => Append(u, b) \in A
    BY <1>2
  <2> QED BY <1>1, <2>1, ListInduction
<1> QED BY <1>3 DEF A

\* Kinds the list does not have make no difference.
LEMMA KeptSame ==
  ASSUME NEW s \in Lists, NEW J, NEW K,
         \A i \in DOMAIN s : s[i].kind \in J <=> s[i].kind \in K
  PROVE  OfKinds(s, J) = OfKinds(s, K)
<1> DEFINE Alike(u) == \A i \in DOMAIN u : u[i].kind \in J <=> u[i].kind \in K
           A == {u \in Lists : Alike(u) => OfKinds(u, J) = OfKinds(u, K)}
<1>1. <<>> \in A
  BY KeptOfNone
<1>2. ASSUME NEW u \in Lists, NEW b \in HistoryBlocks, u \in A PROVE Append(u, b) \in A
  <2>1. Append(u, b) \in Lists
    BY DEF Lists
  <2>2. ASSUME Alike(Append(u, b)) PROVE OfKinds(Append(u, b), J) = OfKinds(Append(u, b), K)
    <3> DEFINE w == Append(u, b)
    <3>1. /\ Len(u) + 1 \in DOMAIN w /\ w[Len(u) + 1] = b
          /\ \A i \in DOMAIN u : i \in DOMAIN w /\ w[i] = u[i]
      BY DEF Lists
    <3>2. Alike(w)
      BY <2>2
    <3> HIDE DEF w
    <3>3. Alike(u) /\ (b.kind \in J <=> b.kind \in K)
      BY <3>1, <3>2
    <3>4. OfKinds(u, J) = OfKinds(u, K)
      BY <1>2, <3>3
    <3>5. /\ OfKinds(w, J) = IF b.kind \in J THEN Append(OfKinds(u, J), b) ELSE OfKinds(u, J)
          /\ OfKinds(w, K) = IF b.kind \in K THEN Append(OfKinds(u, K), b) ELSE OfKinds(u, K)
      BY KeptLonger DEF w
    <3> QED BY <3>3, <3>4, <3>5 DEF w
  <2> HIDE DEF Alike
  <2> QED BY <2>1, <2>2
<1> HIDE DEF A
<1>3. Lists \subseteq A
  <2>1. \A u \in Lists, b \in HistoryBlocks : u \in A => Append(u, b) \in A
    BY <1>2
  <2> QED BY <1>1, <2>1, ListInduction
<1> QED BY <1>3 DEF A

\* Nothing is kept of a list without those kinds, and of no other.
LEMMA KeptNothing ==
  ASSUME NEW s \in Lists, NEW K
  PROVE  OfKinds(s, K) = <<>> <=> ~HasKind(s, K)
<1> DEFINE A == {u \in Lists : OfKinds(u, K) = <<>> <=> ~HasKind(u, K)}
<1>1. <<>> \in A
  BY KeptOfNone DEF HasKind
<1>2. ASSUME NEW u \in Lists, NEW b \in HistoryBlocks, u \in A PROVE Append(u, b) \in A
  <2>1. Append(u, b) \in Lists /\ OfKinds(u, K) \in Lists
    BY KeptType DEF Lists
  <2>2. Append(OfKinds(u, K), b) # <<>>
    <3>1. \A v \in Seq(HistoryBlocks) : Append(v, b) # <<>>
      BY AppendProperties
    <3> QED BY <2>1, <3>1 DEF Lists
  <2>3. HasKind(Append(u, b), K) <=> HasKind(u, K) \/ b.kind \in K
    <3> DEFINE w == Append(u, b)
    <3>1. /\ DOMAIN w = DOMAIN u \cup {Len(u) + 1} /\ w[Len(u) + 1] = b
          /\ \A i \in DOMAIN u : w[i] = u[i]
      BY DEF Lists
    <3> HIDE DEF w
    <3>2. HasKind(w, K) <=> HasKind(u, K) \/ b.kind \in K
      BY <3>1 DEF HasKind
    <3> QED BY <3>2 DEF w
  <2>4. OfKinds(Append(u, b), K) = IF b.kind \in K THEN Append(OfKinds(u, K), b) ELSE OfKinds(u, K)
    BY KeptLonger
  <2> QED BY <1>2, <2>1, <2>2, <2>3, <2>4
<1> HIDE DEF A
<1>3. Lists \subseteq A
  <2>1. \A u \in Lists, b \in HistoryBlocks : u \in A => Append(u, b) \in A
    BY <1>2
  <2> QED BY <1>1, <2>1, ListInduction
<1> QED BY <1>3 DEF A

\* Lists behind each other, one after the other.
LEMMA FlattenSteps ==
  ASSUME NEW ss \in Seq(Lists)
  PROVE  \E f \in [0 .. Len(ss) -> Lists] :
           /\ f[0] = <<>>
           /\ \A i \in 1 .. Len(ss) : f[i] = f[i - 1] \o ss[i]
           /\ FlattenSeq(ss) = f[Len(ss)]
<1> DEFINE n == Len(ss)
           step == [x \in Lists \X (1 .. n) |-> x[1] \o ss[x[2]]]
           flatten == CHOOSE g : g = [i \in 1 .. n |->
                        IF i = 1 THEN ss[i] ELSE g[i - 1] \o ss[i]]
<1>1. n \in Nat /\ \A i \in 1 .. n : ss[i] \in Lists
  OBVIOUS
<1>2. \A p, q \in Lists : p \o q \in Lists /\ <<>> \o p = p /\ <<>> \in Lists
  BY DEF Lists
<1>3. step \in [Lists \X (1 .. n) -> Lists]
  <2> HIDE DEF n
  <2>1. \A x \in Lists \X (1 .. n) : x[1] \o ss[x[2]] \in Lists
    BY <1>1, <1>2
  <2> QED BY <2>1
<1>4. PICK f \in [0 .. n -> Lists] :
        f[0] = <<>> /\ \A i \in 1 .. n : f[i] = step[<<f[i - 1], i>>]
  <2>1. <<>> \in Lists
    BY DEF Lists
  <2> HIDE DEF step, n
  <2> QED BY <1>1, <1>3, <2>1, Listing!RecursionSolved
<1>5. \A i \in 1 .. n : f[i] = f[i - 1] \o ss[i]
  <2> SUFFICES ASSUME NEW i \in 1 .. n PROVE f[i] = f[i - 1] \o ss[i]
    OBVIOUS
  <2>1. f[i - 1] \in Lists
    BY <1>1, <1>4
  <2> QED BY <2>1, <1>4
<1>6. CASE n = 0
  <2>1. FlattenSeq(ss) = <<>>
    BY <1>6 DEF FlattenSeq
  <2> HIDE DEF step
  <2> QED BY <1>4, <1>5, <1>6, <2>1
<1>7. CASE n # 0
  <2> DEFINE g == [i \in 1 .. n |-> f[i]]
  <2>1. g = [i \in 1 .. n |-> IF i = 1 THEN ss[i] ELSE g[i - 1] \o ss[i]]
    <3> SUFFICES ASSUME NEW i \in 1 .. n
                 PROVE  f[i] = IF i = 1 THEN ss[i] ELSE g[i - 1] \o ss[i]
      OBVIOUS
    <3>1. CASE i = 1
      <4>1. f[1] = <<>> \o ss[1]
        <5> HIDE DEF step, n
        <5>1. 1 - 1 = 0
          OBVIOUS
        <5> QED BY <1>4, <1>5, <3>1, <5>1
      <4> HIDE DEF n
      <4> QED BY <1>1, <1>2, <3>1, <4>1
    <3>2. CASE i # 1
      <4>1. i - 1 \in 1 .. n
        BY <1>1, <3>2
      <4> HIDE DEF n, step
      <4> QED BY <1>5, <3>2, <4>1
    <3> QED BY <3>1, <3>2
  <2>2. flatten = [i \in 1 .. n |-> IF i = 1 THEN ss[i] ELSE flatten[i - 1] \o ss[i]]
    <3> HIDE DEF g, n
    <3> QED BY <2>1
  <2>3. FlattenSeq(ss) = flatten[n]
    BY <1>7 DEF FlattenSeq
  <2> HIDE DEF flatten, step
  <2> DEFINE A == {k \in 0 .. n : k # 0 => flatten[k] = f[k]}
  <2>4. 0 \in A
    BY <1>1
  <2>5. ASSUME NEW k \in 0 .. n - 1, k \in A PROVE k + 1 \in A
    <3> DEFINE j == k + 1
    <3>1. j \in 1 .. n /\ j \in 0 .. n /\ j - 1 = k /\ j # 0 /\ (j = 1 <=> k = 0)
      BY <1>1
    <3> HIDE DEF j, n
    <3>2. flatten[j] = IF j = 1 THEN ss[j] ELSE flatten[j - 1] \o ss[j]
      BY <2>2, <3>1
    <3>3. f[j] = f[j - 1] \o ss[j] /\ ss[j] \in Lists
      BY <1>1, <1>5, <3>1
    <3>4. flatten[j] = f[j]
      <4>1. CASE k = 0
        BY <1>2, <1>4, <3>1, <3>2, <3>3, <4>1
      <4>2. CASE k # 0
        BY <2>5, <3>1, <3>2, <3>3, <4>2
      <4> QED BY <4>1, <4>2
    <3> QED BY <3>1, <3>4 DEF j
  <2>6. n \in A
    <3> HIDE DEF A, n
    <3>1. \A k \in 0 .. n - 1 : k \in A => k + 1 \in A
      BY <2>5
    <3>2. 0 .. n \subseteq A
      BY ONLY <1>1, <2>4, <3>1, Listing!Counting
    <3> QED BY <1>1, <3>2
  <2>7. FlattenSeq(ss) = f[n]
    BY <1>7, <2>3, <2>6
  <2> HIDE DEF n
  <2>8. \E h \in [0 .. n -> Lists] :
          /\ h[0] = <<>>
          /\ \A i \in 1 .. n : h[i] = h[i - 1] \o ss[i]
          /\ FlattenSeq(ss) = h[n]
    BY <1>4, <1>5, <2>7
  <2> QED BY <2>8 DEF n
<1> QED BY <1>6, <1>7

\* What is kept of lists behind each other is what is kept of each.
LEMMA FlattenKept ==
  ASSUME NEW ss \in Seq(Lists), NEW tt \in Seq(Lists), Len(ss) = Len(tt), NEW K,
         \A i \in 1 .. Len(ss) : OfKinds(ss[i], K) = OfKinds(tt[i], K)
  PROVE  /\ FlattenSeq(ss) \in Lists
         /\ OfKinds(FlattenSeq(ss), K) = OfKinds(FlattenSeq(tt), K)
<1> DEFINE n == Len(ss)
<1>0. n \in Nat /\ \A i \in 1 .. n : ss[i] \in Lists /\ tt[i] \in Lists
  OBVIOUS
<1>1. PICK f \in [0 .. Len(ss) -> Lists] :
        /\ f[0] = <<>>
        /\ \A i \in 1 .. Len(ss) : f[i] = f[i - 1] \o ss[i]
        /\ FlattenSeq(ss) = f[Len(ss)]
  BY FlattenSteps
<1>2. PICK g \in [0 .. Len(tt) -> Lists] :
        /\ g[0] = <<>>
        /\ \A i \in 1 .. Len(tt) : g[i] = g[i - 1] \o tt[i]
        /\ FlattenSeq(tt) = g[Len(tt)]
  BY FlattenSteps
<1> DEFINE A == {k \in 0 .. n : OfKinds(f[k], K) = OfKinds(g[k], K)}
<1>3. 0 \in A
  BY <1>0, <1>1, <1>2
<1>4. ASSUME NEW k \in 0 .. n - 1, k \in A PROVE k + 1 \in A
  <2> DEFINE j == k + 1
  <2>1. j \in 1 .. n /\ j \in 0 .. n /\ j - 1 = k /\ k \in 0 .. n
    BY <1>0
  <2> HIDE DEF j
  <2>2. /\ f[j] = f[k] \o ss[j] /\ f[k] \in Lists /\ ss[j] \in Lists
        /\ g[j] = g[k] \o tt[j] /\ g[k] \in Lists /\ tt[j] \in Lists
    BY <1>0, <1>1, <1>2, <2>1
  <2>3. \A p, q \in Lists : OfKinds(p \o q, K) = OfKinds(p, K) \o OfKinds(q, K)
    BY KeptConcat
  <2>4. OfKinds(f[k], K) = OfKinds(g[k], K) /\ OfKinds(ss[j], K) = OfKinds(tt[j], K)
    BY <1>4, <2>1
  <2>5. OfKinds(f[j], K) = OfKinds(g[j], K)
    <3>1. /\ OfKinds(f[k] \o ss[j], K) = OfKinds(f[k], K) \o OfKinds(ss[j], K)
          /\ OfKinds(g[k] \o tt[j], K) = OfKinds(g[k], K) \o OfKinds(tt[j], K)
      BY <2>2, <2>3
    <3> QED BY <2>2, <2>4, <3>1
  <2> QED BY <2>1, <2>5 DEF j
<1>5. n \in A
  <2> HIDE DEF A, n
  <2>1. \A k \in 0 .. n - 1 : k \in A => k + 1 \in A
    BY <1>4
  <2>2. 0 .. n \subseteq A
    BY ONLY <1>0, <1>3, <2>1, Listing!Counting
  <2> QED BY <1>0, <2>2
<1> QED BY <1>0, <1>1, <1>2, <1>5

\* There is nothing of those kinds where none of the lists has any.
LEMMA FlattenNothing ==
  ASSUME NEW ss \in Seq(Lists), NEW K, \A i \in 1 .. Len(ss) : ~HasKind(ss[i], K)
  PROVE  ~HasKind(FlattenSeq(ss), K)
<1> DEFINE n == Len(ss)
<1>0. n \in Nat /\ \A i \in 1 .. n : ss[i] \in Lists /\ OfKinds(ss[i], K) = <<>>
  BY KeptNothing
<1>1. PICK f \in [0 .. Len(ss) -> Lists] :
        /\ f[0] = <<>>
        /\ \A i \in 1 .. Len(ss) : f[i] = f[i - 1] \o ss[i]
        /\ FlattenSeq(ss) = f[Len(ss)]
  BY FlattenSteps
<1> DEFINE A == {k \in 0 .. n : OfKinds(f[k], K) = <<>>}
<1>3. 0 \in A
  BY <1>0, <1>1, KeptOfNone
<1>4. ASSUME NEW k \in 0 .. n - 1, k \in A PROVE k + 1 \in A
  <2> DEFINE j == k + 1
  <2>1. j \in 1 .. n /\ j \in 0 .. n /\ j - 1 = k /\ k \in 0 .. n
    BY <1>0
  <2> HIDE DEF j
  <2>2. f[j] = f[k] \o ss[j] /\ f[k] \in Lists /\ ss[j] \in Lists
    BY <1>0, <1>1, <2>1
  <2>3. OfKinds(f[k] \o ss[j], K) = OfKinds(f[k], K) \o OfKinds(ss[j], K)
    <3>1. \A p, q \in Lists : OfKinds(p \o q, K) = OfKinds(p, K) \o OfKinds(q, K)
      BY KeptConcat
    <3> QED BY <2>2, <3>1
  <2>4. OfKinds(f[k], K) = <<>> /\ OfKinds(ss[j], K) = <<>>
    BY <1>0, <1>4, <2>1
  <2>5. OfKinds(f[j], K) = <<>>
    BY <2>2, <2>3, <2>4
  <2> QED BY <2>1, <2>5 DEF j
<1>5. n \in A
  <2> HIDE DEF A, n
  <2>1. \A k \in 0 .. n - 1 : k \in A => k + 1 \in A
    BY <1>4
  <2>2. 0 .. n \subseteq A
    BY ONLY <1>0, <1>3, <2>1, Listing!Counting
  <2> QED BY <1>0, <2>2
<1>6. FlattenSeq(ss) \in Lists /\ OfKinds(FlattenSeq(ss), K) = <<>>
  BY <1>0, <1>1, <1>5
<1> QED BY <1>6, KeptNothing

-----------------------------------------------------------------------------
(* Messages *)

\* The messages of a conversation, with the kinds of block each side has.
SaidMessages ==
  {m \in [role : {"user", "assistant"}, plain : BOOLEAN, top : Lists, blocks : Lists] :
     \A i \in DOMAIN m.blocks :
       m.blocks[i].kind \in IF m.plain THEN {"text"}
                            ELSE IF m.role = "user" THEN UserKinds ELSE AssistantKinds}

\* A list without some kinds has the rest of it, and no other.
LEMMA WithoutFacts ==
  ASSUME NEW s \in Lists, NEW J
  PROVE  /\ Without(s, J) \in Lists
         /\ Without(s, J) = OfKinds(s, AllKinds \ J)
         /\ \A K : OfKinds(Without(s, J), K) = OfKinds(s, K \ J)
         /\ \A K : HasKind(Without(s, J), K) => HasKind(s, K \ J)
<1> DEFINE M == {s[i].kind : i \in DOMAIN s} \ J
           w == Without(s, J)
<1>1. w = OfKinds(s, M)
  BY DEF Without
<1>2. w \in Lists
  <2> HIDE DEF M, w
  <2> QED BY <1>1, KeptType
<1>3. w = OfKinds(s, AllKinds \ J)
  <2>1. \A i \in DOMAIN s : s[i].kind \in AllKinds
    <3>1. \A i \in DOMAIN s : s[i] \in HistoryBlocks
      BY DEF Lists
    <3> QED BY <3>1 DEF HistoryBlocks
  <2>2. \A i \in DOMAIN s : s[i].kind \in M <=> s[i].kind \in AllKinds \ J
    BY <2>1
  <2> HIDE DEF M, w
  <2> QED BY <1>1, <2>2, KeptSame
<1>4. \A K : OfKinds(w, K) = OfKinds(s, K \ J)
  <2> TAKE K
  <2>1. \A i \in DOMAIN s : s[i].kind \in M \cap K <=> s[i].kind \in K \ J
    OBVIOUS
  <2> HIDE DEF w, M
  <2>2. OfKinds(s, M \cap K) = OfKinds(s, K \ J)
    BY <2>1, KeptSame
  <2>3. OfKinds(OfKinds(s, M), K) = OfKinds(s, M \cap K)
    BY KeptTwice
  <2> QED BY <1>1, <2>2, <2>3
<1>5. ASSUME NEW K, HasKind(w, K) PROVE HasKind(s, K \ J)
  <2> HIDE DEF w
  <2>1. OfKinds(w, K) # <<>>
    BY <1>2, <1>5, KeptNothing
  <2>2. OfKinds(s, K \ J) # <<>>
    BY <1>4, <2>1
  <2> QED BY <2>2, KeptNothing
<1> QED BY <1>2, <1>3, <1>4, <1>5

\* Its kinds are among those of the list.
LEMMA WithoutKinds ==
  ASSUME NEW s \in Lists, NEW J, NEW A, \A i \in DOMAIN s : s[i].kind \in A
  PROVE  \A i \in DOMAIN Without(s, J) : Without(s, J)[i].kind \in A \ J
<1> DEFINE w == Without(s, J)
<1>1. \A K : HasKind(w, K) => HasKind(s, K \ J)
  BY WithoutFacts
<1> HIDE DEF w
<1>2. \A i \in DOMAIN w : w[i].kind \in A \ J
  <2> TAKE i \in DOMAIN w
  <2> DEFINE K == {w[i].kind}
  <2>1. HasKind(w, K)
    BY DEF HasKind
  <2>2. HasKind(s, K \ J)
    <3> HIDE DEF K
    <3> QED BY <1>1, <2>1
  <2>3. PICK j \in DOMAIN s : s[j].kind \in K \ J
    BY <2>2 DEF HasKind
  <2> QED BY <2>3
<1> QED BY <1>2 DEF w

\* What an assistant's message without some kinds keeps and loses.
LEMMA AssistantWithoutFacts ==
  ASSUME NEW m \in SaidMessages, NEW J
  PROVE  /\ AssistantWithout(m, J) \in SaidMessages
         /\ AssistantWithout(m, J).role = m.role
         /\ \A K : K \cap J = {} => OfKinds(AssistantWithout(m, J).blocks, K) = OfKinds(m.blocks, K)
         /\ \A K : K \subseteq J /\ K \cap UserKinds = {} => ~HasKind(AssistantWithout(m, J).blocks, K)
<1> DEFINE w == Without(m.blocks, J)
           x == AssistantWithout(m, J)
<1>1. /\ m.role \in {"user", "assistant"} /\ m.plain \in BOOLEAN /\ m.top \in Lists
      /\ m.blocks \in Lists /\ m = [role |-> m.role, plain |-> m.plain, top |-> m.top, blocks |-> m.blocks]
      /\ \A i \in DOMAIN m.blocks :
           m.blocks[i].kind \in IF m.plain THEN {"text"}
                                ELSE IF m.role = "user" THEN UserKinds ELSE AssistantKinds
  BY DEF SaidMessages
<1>2. /\ w \in Lists
      /\ \A K : OfKinds(w, K) = OfKinds(m.blocks, K \ J)
      /\ \A K : HasKind(w, K) => HasKind(m.blocks, K \ J)
  BY <1>1, WithoutFacts
<1> HIDE DEF w
<1>3. CASE m.role = "user" \/ m.plain
  <2>1. x = m
    BY <1>3 DEF AssistantWithout, WithList
  <2>2. \A i \in DOMAIN m.blocks : m.blocks[i].kind \in UserKinds
    BY <1>1, <1>3 DEF UserKinds
  <2>3. \A K : K \subseteq J /\ K \cap UserKinds = {} => ~HasKind(m.blocks, K)
    BY <2>2 DEF HasKind
  <2> QED BY <2>1, <2>3
<1>4. CASE ~(m.role = "user" \/ m.plain)
  <2>1. x = [role |-> m.role, plain |-> m.plain, top |-> m.top, blocks |-> w]
    BY <1>1, <1>4 DEF AssistantWithout, WithList, w
  <2>2. x \in SaidMessages
    <3>1. \A i \in DOMAIN w : w[i].kind \in AssistantKinds
      <4>1. \A i \in DOMAIN m.blocks : m.blocks[i].kind \in AssistantKinds
        BY <1>1, <1>4
      <4> QED BY <1>1, <4>1, WithoutKinds DEF w
    <3> QED BY <1>1, <1>2, <1>4, <2>1, <3>1 DEF SaidMessages
  <2>3. ASSUME NEW K, K \cap J = {} PROVE OfKinds(w, K) = OfKinds(m.blocks, K)
    <3>1. K \ J = K
      BY <2>3
    <3> QED BY <1>2, <3>1
  <2>4. ASSUME NEW K, K \subseteq J PROVE ~HasKind(w, K)
    BY <1>2, <2>4 DEF HasKind
  <2> QED BY <2>1, <2>2, <2>3, <2>4
<1> QED BY <1>3, <1>4

\* A message without attachments keeps what is neither text nor attachment.
LEMMA StrippedFacts ==
  ASSUME NEW m \in SaidMessages
  PROVE  /\ Stripped(m) \in SaidMessages
         /\ Stripped(m).role = m.role
         /\ \A K : K \cap (Attachments \cup {"text"}) = {} =>
              OfKinds(Stripped(m).blocks, K) = OfKinds(m.blocks, K)
<1> DEFINE w == Without(m.blocks, Attachments)
           x == Stripped(m)
<1>1. /\ m.role \in {"user", "assistant"} /\ m.plain \in BOOLEAN /\ m.top \in Lists
      /\ m.blocks \in Lists /\ m = [role |-> m.role, plain |-> m.plain, top |-> m.top, blocks |-> m.blocks]
      /\ \A i \in DOMAIN m.blocks :
           m.blocks[i].kind \in IF m.plain THEN {"text"}
                                ELSE IF m.role = "user" THEN UserKinds ELSE AssistantKinds
  BY DEF SaidMessages
<1>2. /\ w \in Lists
      /\ \A K : OfKinds(w, K) = OfKinds(m.blocks, K \ Attachments)
      /\ \A K : HasKind(w, K) => HasKind(m.blocks, K \ Attachments)
  BY <1>1, WithoutFacts
<1> DEFINE note == <<Placeholder>>
<1>3. note \in Lists /\ \A i \in DOMAIN note : note[i].kind = "text"
  <2>1. Placeholder \in HistoryBlocks /\ Placeholder.kind = "text"
    BY DEF Placeholder, NoBlock, HistoryBlocks, AllKinds, UserKinds
  <2> QED BY <2>1 DEF Lists
<1>4. \A K : K \cap {"text"} = {} => OfKinds(note, K) = <<>>
  <2> HIDE DEF note
  <2>1. \A K : K \cap {"text"} = {} => ~HasKind(note, K)
    BY <1>3 DEF HasKind
  <2> QED BY <1>3, <2>1, KeptNothing
<1>5. CASE m.plain
  <2>1. x = m
    BY <1>5 DEF Stripped, WithList
  <2> QED BY <2>1
<1>6. CASE ~m.plain
  <2> DEFINE kept == IF m.blocks # <<>> /\ w = <<>> THEN note ELSE w
  <2>1. x = [role |-> m.role, plain |-> m.plain, top |-> m.top, blocks |-> kept]
    <3>1. x = [m EXCEPT !.blocks = kept]
      BY <1>6 DEF Stripped, WithList
    <3> HIDE DEF kept
    <3> QED BY <1>1, <3>1
  <2> HIDE DEF w, note
  <2>2. \A i \in DOMAIN kept : kept[i].kind \in IF m.role = "user" THEN UserKinds ELSE AssistantKinds
    <3>1. "text" \in UserKinds /\ "text" \in AssistantKinds
      BY DEF UserKinds, AssistantKinds
    <3> DEFINE A == IF m.role = "user" THEN UserKinds ELSE AssistantKinds
    <3>2. \A i \in DOMAIN w : w[i].kind \in A
      <4>1. \A i \in DOMAIN m.blocks : m.blocks[i].kind \in A
        BY <1>1, <1>6
      <4> HIDE DEF A
      <4> QED BY <1>1, <4>1, WithoutKinds DEF w
    <3>3. \A i \in DOMAIN note : note[i].kind \in A
      BY <1>3, <3>1
    <3> HIDE DEF A
    <3>4. \A i \in DOMAIN kept : kept[i].kind \in A
      BY <3>2, <3>3
    <3> QED BY <3>4 DEF A
  <2>3. kept \in Lists
    BY <1>2, <1>3
  <2>4. ASSUME NEW K, K \cap (Attachments \cup {"text"}) = {}
        PROVE  OfKinds(kept, K) = OfKinds(m.blocks, K)
    <3>1. K \ Attachments = K /\ K \cap {"text"} = {}
      BY <2>4
    <3>2. OfKinds(w, K) = OfKinds(m.blocks, K)
      BY <1>2, <3>1
    <3>3. w = <<>> => OfKinds(note, K) = OfKinds(w, K)
      BY <1>4, <3>1, KeptOfNone
    <3> QED BY <3>2, <3>3
  <2> HIDE DEF kept
  <2>5. x \in SaidMessages
    BY <1>1, <1>6, <2>1, <2>2, <2>3 DEF SaidMessages
  <2> QED BY <2>1, <2>4, <2>5
<1> QED BY <1>5, <1>6

\* Thinking stands before the first call where the blocks are two lists: thinking
\* and no call in the first, and a call in the second.
LEMMA ThinkingSplit ==
  ASSUME NEW m \in SaidMessages
  PROVE  ThinkingBeforeCall(m) <=>
           /\ m.role = "assistant"
           /\ \E s, t \in Lists :
                /\ m.blocks = s \o t
                /\ ~HasKind(s, {"tool_use"}) /\ HasKind(s, ThinkingKinds)
                /\ HasKind(t, {"tool_use"})
<1> DEFINE w == m.blocks
           I == {i \in 1 .. Len(w) : w[i].kind = "tool_use"}
           first == FirstCall(w)
<1>0. w \in Lists /\ Len(w) \in Nat /\ DOMAIN w = 1 .. Len(w) /\ m.role \in {"user", "assistant"}
  <2>1. w \in Lists
    BY DEF SaidMessages
  <2> QED BY <2>1 DEF Lists, SaidMessages
<1>1. first = IF I # {} THEN Min(I) ELSE 0
  BY DEF FirstCall, SelectInSeq
<1>2. I \in SUBSET Nat /\ (I # {} => first \in I /\ \A i \in I : first <= i)
  <2>1. I \in SUBSET Nat
    OBVIOUS
  <2>2. I # {} => Min(I) \in I /\ \A i \in I : Min(I) <= i
    <3> HIDE DEF I
    <3> QED BY <2>1, MinFacts
  <2> QED BY <1>1, <2>1, <2>2
<1> HIDE DEF w, first
<1>3. ASSUME m.role = "assistant", NEW i \in 1 .. first - 1, w[i].kind \in ThinkingKinds
      PROVE  \E s, t \in Lists :
               /\ w = s \o t
               /\ ~HasKind(s, {"tool_use"}) /\ HasKind(s, ThinkingKinds)
               /\ HasKind(t, {"tool_use"})
  <2> DEFINE s == SubSeq(w, 1, first - 1)
             t == SubSeq(w, first, Len(w))
  <2>1. first \in I
    BY <1>1, <1>2
  <2>2. /\ s \in Lists /\ t \in Lists /\ w = s \o t
        /\ Len(s) = first - 1 /\ DOMAIN s = 1 .. first - 1 /\ \A j \in 1 .. first - 1 : s[j] = w[j]
        /\ 1 \in DOMAIN t /\ t[1] = w[first]
    <3>1. first \in 1 .. Len(w)
      BY <2>1
    <3> HIDE DEF I
    <3>2. first - 1 \in 0 .. Len(w) /\ first \in 1 .. Len(w) + 1 /\ first - 1 + 1 = first /\ first \in Int
      BY <1>0, <3>1
    <3>3. \A j \in 1 .. Len(w) : w[j] \in HistoryBlocks
      BY <1>0 DEF Lists
    <3>4. /\ s \in Lists /\ Len(s) = first - 1 /\ DOMAIN s = 1 .. first - 1
          /\ \A j \in 1 .. first - 1 : s[j] = w[j]
      BY <1>0, <3>2, <3>3 DEF Lists
    <3>5. t \in Lists /\ 1 \in DOMAIN t /\ t[1] = w[first]
      BY <1>0, <3>1, <3>2, <3>3 DEF Lists
    <3>6. SubSeq(w, 1, first - 1) \o SubSeq(w, first - 1 + 1, Len(w)) = SubSeq(w, 1, Len(w))
      <4> DEFINE k == first - 1
                 n == Len(w)
      <4>1. /\ w \in Seq(HistoryBlocks) /\ 1 \in 1 .. Len(w) + 1
            /\ k \in 1 - 1 .. Len(w) /\ n \in k .. Len(w)
        BY <1>0, <3>2 DEF Lists
      <4> HIDE DEF k, n
      <4>2. SubSeq(w, 1, k) \o SubSeq(w, k + 1, n) = SubSeq(w, 1, n)
        BY <4>1, ConcatAdjacentSubSeq
      <4> QED BY <4>2 DEF k, n
    <3>7. SubSeq(w, 1, Len(w)) = w
      BY <1>0 DEF Lists
    <3> QED BY <3>2, <3>4, <3>5, <3>6, <3>7
  <2> HIDE DEF s, t
  <2>3. ~HasKind(s, {"tool_use"})
    <3> SUFFICES ASSUME NEW j \in 1 .. first - 1, w[j].kind = "tool_use" PROVE FALSE
      BY <2>2 DEF HasKind
    <3>1. j \in I
      BY <1>0, <2>1
    <3>2. first <= j /\ first \in Nat
      BY <1>2, <2>1, <3>1
    <3> QED BY <3>2
  <2>4. HasKind(s, ThinkingKinds)
    BY <1>3, <2>2 DEF HasKind
  <2>5. HasKind(t, {"tool_use"})
    BY <2>1, <2>2 DEF HasKind
  <2> QED BY <2>2, <2>3, <2>4, <2>5
<1>4. ASSUME NEW s \in Lists, NEW t \in Lists, w = s \o t,
             ~HasKind(s, {"tool_use"}), HasKind(s, ThinkingKinds), HasKind(t, {"tool_use"})
      PROVE  \E i \in 1 .. first - 1 : w[i].kind \in ThinkingKinds
  <2> DEFINE n == Len(s)
  <2>1. /\ n \in Nat /\ DOMAIN s = 1 .. n /\ DOMAIN t = 1 .. Len(t) /\ Len(t) \in Nat
        /\ Len(w) = n + Len(t)
        /\ \A i \in 1 .. n : w[i] = s[i]
        /\ \A i \in 1 .. Len(t) : w[n + i] = t[i]
    BY <1>4 DEF Lists
  <2> HIDE DEF n
  <2>2. PICK j \in 1 .. Len(t) : t[j].kind = "tool_use"
    BY <1>4, <2>1 DEF HasKind
  <2>3. n + j \in I
    BY <2>1, <2>2
  <2>4. \A i \in I : i > n
    <3> SUFFICES ASSUME NEW i \in I, i <= n PROVE FALSE
      BY <2>1
    <3>1. i \in 1 .. n /\ s[i].kind = "tool_use"
      BY <2>1
    <3> QED BY <1>4, <2>1, <3>1 DEF HasKind
  <2>5. first \in I
    BY <1>2, <2>3
  <2>6. first \in Nat /\ first > n
    BY <1>2, <2>4, <2>5
  <2>7. PICK i \in 1 .. n : s[i].kind \in ThinkingKinds
    BY <1>4, <2>1 DEF HasKind
  <2>8. i \in 1 .. first - 1 /\ w[i].kind \in ThinkingKinds
    BY <2>1, <2>6, <2>7
  <2> QED BY <2>8
<1>5. ThinkingBeforeCall(m) <=>
        m.role = "assistant" /\ \E i \in 1 .. first - 1 : w[i].kind \in ThinkingKinds
  BY DEF ThinkingBeforeCall, first, w
<1> QED BY <1>3, <1>4, <1>5 DEF w

\* Without redacted thinking, the thinking before a call is there still.
LEMMA ThinkingKept ==
  ASSUME NEW m \in SaidMessages, ThinkingBeforeCall(m)
  PROVE  ThinkingBeforeCall(AssistantWithout(m, Redacted))
<1> DEFINE x == AssistantWithout(m, Redacted)
           K == AllKinds \ Redacted
<1>1. x \in SaidMessages /\ x.role = m.role
  BY AssistantWithoutFacts
<1>2. CASE m.plain
  <2>1. x = m
    BY <1>2 DEF AssistantWithout, WithList
  <2> QED BY <2>1
<1>3. CASE ~m.plain
  <2>1. PICK s \in Lists, t \in Lists :
          /\ m.role = "assistant" /\ m.blocks = s \o t
          /\ ~HasKind(s, {"tool_use"}) /\ HasKind(s, ThinkingKinds)
          /\ HasKind(t, {"tool_use"})
    BY ThinkingSplit
  <2>2. x.blocks = Without(m.blocks, Redacted)
    <3>1. x = [m EXCEPT !.blocks = Without(m.blocks, Redacted)]
      BY <1>3, <2>1 DEF AssistantWithout, WithList
    <3> QED BY <3>1 DEF SaidMessages
  <2>3. m.blocks \in Lists
    BY DEF SaidMessages
  <2>4. x.blocks = OfKinds(m.blocks, K)
    BY <2>2, <2>3, WithoutFacts
  <2>5. {"tool_use"} \cap Redacted = {} /\ ThinkingKinds \cap Redacted = {}
        /\ {"tool_use"} \subseteq AllKinds /\ ThinkingKinds \subseteq AllKinds
    BY DEF Redacted, ThinkingKinds, AllKinds, AssistantKinds
  <2>6. K \cap {"tool_use"} = {"tool_use"} /\ K \cap ThinkingKinds = ThinkingKinds
    BY <2>5
  <2> HIDE DEF K, x
  <2> DEFINE p == OfKinds(s, K)
             q == OfKinds(t, K)
  <2>7. x.blocks = p \o q /\ p \in Lists /\ q \in Lists
    <3>1. p \in Lists /\ q \in Lists
      BY KeptType
    <3>2. OfKinds(s \o t, K) = p \o q
      BY KeptConcat
    <3> HIDE DEF p, q
    <3> QED BY <2>1, <2>4, <3>1, <3>2
  <2>8. ASSUME NEW u \in Lists, NEW J, K \cap J = J
        PROVE  HasKind(OfKinds(u, K), J) <=> HasKind(u, J)
    <3>1. OfKinds(OfKinds(u, K), J) = OfKinds(u, J)
      BY <2>8, KeptTwice
    <3>2. OfKinds(u, K) \in Lists
      BY KeptType
    <3> QED BY <3>1, <3>2, KeptNothing
  <2>9. /\ ~HasKind(p, {"tool_use"}) /\ HasKind(p, ThinkingKinds)
        /\ HasKind(q, {"tool_use"})
    BY <2>1, <2>6, <2>8
  <2> HIDE DEF p, q
  <2> QED BY <1>1, <2>1, <2>7, <2>9, ThinkingSplit DEF x
<1> QED BY <1>2, <1>3

\* The blocks of messages, message by message.
LEMMA FlatFacts ==
  ASSUME NEW ms \in Seq(SaidMessages), NEW K
  PROVE  /\ Flat(ms) \in Lists
         /\ (\A i \in DOMAIN ms : ~HasKind(ms[i].blocks, K)) => ~HasKind(Flat(ms), K)
         /\ \A ns \in Seq(SaidMessages) :
              /\ DOMAIN ns = DOMAIN ms
              /\ \A i \in DOMAIN ms : OfKinds(ns[i].blocks, K) = OfKinds(ms[i].blocks, K)
              => OfKinds(Flat(ns), K) = OfKinds(Flat(ms), K)
<1> DEFINE Parted(x) == [i \in DOMAIN x |-> x[i].blocks]
<1>1. ASSUME NEW x \in Seq(SaidMessages)
      PROVE  /\ Parted(x) \in Seq(Lists) /\ Len(Parted(x)) = Len(x) /\ DOMAIN x = 1 .. Len(x)
             /\ \A i \in DOMAIN x : Parted(x)[i] = x[i].blocks
             /\ Flat(x) = FlattenSeq(Parted(x))
  <2>1. \A i \in 1 .. Len(x) : x[i] \in SaidMessages
    OBVIOUS
  <2>2. \A i \in 1 .. Len(x) : x[i].blocks \in Lists
    BY <2>1 DEF SaidMessages
  <2>3. DOMAIN x = 1 .. Len(x) /\ Len(x) \in Nat
    OBVIOUS
  <2> QED BY <2>2, <2>3 DEF Flat
<1> HIDE DEF Parted
<1>2. Flat(ms) \in Lists
  BY <1>1, FlattenKept
<1>3. ASSUME \A i \in DOMAIN ms : ~HasKind(ms[i].blocks, K) PROVE ~HasKind(Flat(ms), K)
  <2>1. \A i \in 1 .. Len(Parted(ms)) : ~HasKind(Parted(ms)[i], K)
    BY <1>1, <1>3
  <2> QED BY <1>1, <2>1, FlattenNothing
<1>4. ASSUME NEW ns \in Seq(SaidMessages), DOMAIN ns = DOMAIN ms,
             \A i \in DOMAIN ms : OfKinds(ns[i].blocks, K) = OfKinds(ms[i].blocks, K)
      PROVE  OfKinds(Flat(ns), K) = OfKinds(Flat(ms), K)
  <2> DEFINE a == Parted(ns)
             b == Parted(ms)
  <2>1. Len(ns) = Len(ms)
    BY <1>4
  <2>2. /\ a \in Seq(Lists) /\ b \in Seq(Lists) /\ Len(a) = Len(b)
        /\ \A i \in 1 .. Len(a) : OfKinds(a[i], K) = OfKinds(b[i], K)
    BY <1>1, <1>4, <2>1
  <2>3. OfKinds(FlattenSeq(a), K) = OfKinds(FlattenSeq(b), K)
    <3> HIDE DEF a, b
    <3> QED BY <2>2, FlattenKept
  <2> QED BY <1>1, <2>3
<1> QED BY <1>2, <1>3, <1>4

\* Conversations without some of the assistant's kinds.
LEMMA WithoutAll ==
  ASSUME NEW ms \in Seq(SaidMessages), NEW J
  PROVE  LET ns == [i \in DOMAIN ms |-> AssistantWithout(ms[i], J)] IN
         /\ ns \in Seq(SaidMessages) /\ DOMAIN ns = DOMAIN ms
         /\ \A K : K \cap J = {} => OfKinds(Flat(ns), K) = OfKinds(Flat(ms), K)
         /\ \A K : K \subseteq J /\ K \cap UserKinds = {} => ~HasKind(Flat(ns), K)
<1> DEFINE ns == [i \in DOMAIN ms |-> AssistantWithout(ms[i], J)]
<1>1. DOMAIN ms = 1 .. Len(ms) /\ Len(ms) \in Nat /\ \A i \in DOMAIN ms : ms[i] \in SaidMessages
  OBVIOUS
<1>2. \A i \in DOMAIN ms : AssistantWithout(ms[i], J) \in SaidMessages
  BY <1>1, AssistantWithoutFacts
<1>3. /\ ns \in Seq(SaidMessages) /\ DOMAIN ns = DOMAIN ms
      /\ \A i \in DOMAIN ms : ns[i] = AssistantWithout(ms[i], J)
  BY <1>1, <1>2
<1> HIDE DEF ns
<1>4. ASSUME NEW K, K \cap J = {} PROVE OfKinds(Flat(ns), K) = OfKinds(Flat(ms), K)
  <2>1. \A i \in DOMAIN ms : OfKinds(ns[i].blocks, K) = OfKinds(ms[i].blocks, K)
    <3>1. \A m \in SaidMessages : OfKinds(AssistantWithout(m, J).blocks, K) = OfKinds(m.blocks, K)
      BY <1>4, AssistantWithoutFacts
    <3> QED BY <1>1, <1>3, <3>1
  <2> QED BY <1>3, <2>1, FlatFacts
<1>5. ASSUME NEW K, K \subseteq J, K \cap UserKinds = {} PROVE ~HasKind(Flat(ns), K)
  <2>1. \A i \in DOMAIN ns : ~HasKind(ns[i].blocks, K)
    <3>1. \A m \in SaidMessages : ~HasKind(AssistantWithout(m, J).blocks, K)
      BY <1>5, AssistantWithoutFacts
    <3> QED BY <1>1, <1>3, <3>1
  <2> QED BY <1>3, <2>1, FlatFacts
<1> QED BY <1>3, <1>4, <1>5 DEF ns

\* Conversations without attachments.
LEMMA StrippedAll ==
  ASSUME NEW ms \in Seq(SaidMessages)
  PROVE  LET ns == [i \in DOMAIN ms |-> Stripped(ms[i])] IN
         /\ ns \in Seq(SaidMessages) /\ DOMAIN ns = DOMAIN ms
         /\ \A K : K \cap (Attachments \cup {"text"}) = {} =>
              OfKinds(Flat(ns), K) = OfKinds(Flat(ms), K)
<1> DEFINE ns == [i \in DOMAIN ms |-> Stripped(ms[i])]
<1>1. DOMAIN ms = 1 .. Len(ms) /\ Len(ms) \in Nat /\ \A i \in DOMAIN ms : ms[i] \in SaidMessages
  OBVIOUS
<1>2. \A i \in DOMAIN ms : Stripped(ms[i]) \in SaidMessages
  BY <1>1, StrippedFacts
<1>3. /\ ns \in Seq(SaidMessages) /\ DOMAIN ns = DOMAIN ms
      /\ \A i \in DOMAIN ms : ns[i] = Stripped(ms[i])
  BY <1>1, <1>2
<1> HIDE DEF ns
<1>4. ASSUME NEW K, K \cap (Attachments \cup {"text"}) = {}
      PROVE  OfKinds(Flat(ns), K) = OfKinds(Flat(ms), K)
  <2>1. \A i \in DOMAIN ms : OfKinds(ns[i].blocks, K) = OfKinds(ms[i].blocks, K)
    BY <1>1, <1>3, <1>4, StrippedFacts
  <2> QED BY <1>3, <2>1, FlatFacts
<1> QED BY <1>3, <1>4 DEF ns

\* A conversation that has calls or results has a history of tools.
LEMMA HasToolFacts ==
  ASSUME NEW ms \in Seq(SaidMessages), ~HasToolHistory(ms)
  PROVE  OfKinds(Flat(ms), {"tool_use", "tool_result"}) = <<>>
<1>1. \A i \in DOMAIN ms : ~HasKind(ms[i].blocks, {"tool_use", "tool_result"})
  <2> SUFFICES ASSUME NEW i \in DOMAIN ms, NEW j \in DOMAIN ms[i].blocks,
                      ms[i].blocks[j].kind \in {"tool_use", "tool_result"}
               PROVE  FALSE
    BY DEF HasKind
  <2>1. ms[i] \in SaidMessages
    OBVIOUS
  <2>2. CASE ms[i].role = "user"
    <3>1. ms[i].blocks[j].kind = "tool_result"
      BY <2>1, <2>2 DEF SaidMessages, UserKinds
    <3> QED BY <2>2, <3>1 DEF HasToolHistory, HasKind
  <2>3. CASE ms[i].role # "user"
    <3>1. ms[i].blocks[j].kind = "tool_use"
      BY <2>1, <2>3 DEF SaidMessages, AssistantKinds
    <3> QED BY <2>3, <3>1 DEF HasToolHistory, HasKind
  <2> QED BY <2>2, <2>3
<1> QED BY <1>1, FlatFacts, KeptNothing

\* The history of a conversation.
HistoryType == history \in Seq(SaidMessages)

\* Any such history has consistent native bodies.
LEMMA NativeFacts == HistoryType => NativeConsistent
<1> SUFFICES ASSUME HistoryType PROVE NativeConsistent
  OBVIOUS
<1> DEFINE tools == {"tool_use", "tool_result"}
           said == OfKinds(AllBlocks, tools)
<1>1. history \in Seq(SaidMessages)
  BY DEF HistoryType
<1>2. /\ tools \cap ThinkingKinds = {} /\ tools \cap Redacted = {} /\ tools \cap {"thinking"} = {}
      /\ tools \cap (ThinkingKinds \cup Redacted) = {}
      /\ tools \cap (Attachments \cup {"text"}) = {}
      /\ (ThinkingKinds \cup Redacted) \cap UserKinds = {}
      /\ ThinkingKinds \cap UserKinds = {} /\ Redacted \cap UserKinds = {}
  BY DEF ThinkingKinds, Redacted, Attachments, UserKinds
<1>3. ASSUME NEW enabled \in BOOLEAN,
             NEW native \in {BaseBody(history, enabled, TRUE), OpenRouterBody(history, enabled, {})}
      PROVE  /\ OfKinds(Flat(native.messages), tools) = said
             /\ ~enabled => ~native.thinks /\ ~HasKind(Flat(native.messages), ThinkingKinds \cup Redacted)
  <2> DEFINE J == IF enabled THEN {"thinking"} ELSE ThinkingKinds \cup Redacted
             ns == [i \in DOMAIN history |-> AssistantWithout(history[i], J)]
  <2>1. native.messages = ns /\ native.thinks = enabled
    BY <1>3 DEF BaseBody, OpenRouterBody, ReplayPolicy
  <2>2. tools \cap J = {}
    BY <1>2
  <2>3. /\ \A K : K \cap J = {} => OfKinds(Flat(ns), K) = OfKinds(Flat(history), K)
        /\ \A K : K \subseteq J /\ K \cap UserKinds = {} => ~HasKind(Flat(ns), K)
    <3> HIDE DEF J
    <3> QED BY <1>1, WithoutAll
  <2> HIDE DEF ns
  <2>4. OfKinds(Flat(ns), tools) = said
    <3> HIDE DEF tools, J
    <3> QED BY <2>2, <2>3 DEF AllBlocks
  <2>5. ~enabled => ~HasKind(Flat(ns), ThinkingKinds \cup Redacted)
    <3> DEFINE K == ThinkingKinds \cup Redacted
    <3>1. ~enabled => K \subseteq J
      OBVIOUS
    <3> HIDE DEF J, K
    <3> QED BY <1>2, <2>3, <3>1 DEF K
  <2> HIDE DEF tools, J
  <2> QED BY <2>1, <2>4, <2>5
<1>4. ASSUME NEW enabled \in BOOLEAN, NEW given
      PROVE  LET body == DeepSeekBody(history, enabled, given)
                 sent == Flat(body.messages)
             IN  /\ OfKinds(sent, tools) = said
                 /\ body.thinks =>
                      \/ said = <<>>
                      \/ \E i \in DOMAIN body.messages : ThinkingBeforeCall(body.messages[i])
                 /\ ~body.thinks =>
                      /\ ~HasKind(sent, ThinkingKinds)
                      /\ enabled => body.hints = given \ {"effort", "clear_thinking"}
                 /\ ~HasKind(sent, Redacted)
  <2> DEFINE body == DeepSeekBody(history, enabled, given)
             ms == [i \in DOMAIN history |-> Stripped(history[i])]
             thinks == StillThinks(ms, enabled)
             J == Redacted \cup IF thinks THEN {} ELSE ThinkingKinds
             ns == [i \in DOMAIN ms |-> AssistantWithout(ms[i], J)]
  <2>1. /\ body.messages = ns /\ body.thinks = thinks
        /\ body.hints = IF enabled /\ ~thinks THEN given \ {"effort", "clear_thinking"} ELSE given
    BY DEF DeepSeekBody, DeepSeekMessages, WithoutHints
  <2>2. /\ ms \in Seq(SaidMessages) /\ DOMAIN ms = DOMAIN history
        /\ OfKinds(Flat(ms), tools) = said
    <3>1. \A K : K \cap (Attachments \cup {"text"}) = {} =>
            OfKinds(Flat(ms), K) = OfKinds(Flat(history), K)
      BY <1>1, StrippedAll
    <3>2. ms \in Seq(SaidMessages) /\ DOMAIN ms = DOMAIN history
      BY <1>1, StrippedAll
    <3> HIDE DEF ms, tools
    <3> QED BY <1>2, <3>1, <3>2 DEF AllBlocks
  <2> HIDE DEF ms
  <2>3. thinks \in BOOLEAN /\ tools \cap J = {} /\ Redacted \subseteq J /\ (~thinks => ThinkingKinds \subseteq J)
    <3>1. thinks \in BOOLEAN
      BY DEF StillThinks
    <3> HIDE DEF thinks
    <3> QED BY <1>2, <3>1
  <2> HIDE DEF J
  <2>4. /\ DOMAIN ns = DOMAIN ms
        /\ \A K : K \cap J = {} => OfKinds(Flat(ns), K) = OfKinds(Flat(ms), K)
        /\ \A K : K \subseteq J /\ K \cap UserKinds = {} => ~HasKind(Flat(ns), K)
    BY <2>2, WithoutAll
  <2>5. OfKinds(Flat(ns), tools) = said
    <3> HIDE DEF tools, ns, thinks
    <3> QED BY <2>2, <2>3, <2>4
  <2>6. ~HasKind(Flat(ns), Redacted) /\ (~thinks => ~HasKind(Flat(ns), ThinkingKinds))
    <3> HIDE DEF tools, ns, thinks
    <3> QED BY <1>2, <2>3, <2>4
  <2>7. ASSUME thinks, said # <<>> PROVE \E i \in DOMAIN ns : ThinkingBeforeCall(ns[i])
    <3>1. HasToolHistory(ms)
      BY <2>2, <2>7, HasToolFacts
    <3>2. PICK i \in DOMAIN ms : ThinkingBeforeCall(ms[i])
      BY <2>7, <3>1 DEF StillThinks
    <3>3. J = Redacted
      BY <2>7 DEF J
    <3>4. ms[i] \in SaidMessages
      BY <2>2
    <3>5. ns[i] = AssistantWithout(ms[i], Redacted)
      BY <3>3
    <3>6. ThinkingBeforeCall(ns[i])
      BY <3>2, <3>4, <3>5, ThinkingKept
    <3> HIDE DEF ns
    <3> QED BY <2>4, <3>6
  <2> HIDE DEF ns, thinks, tools, body
  <2>8. /\ OfKinds(Flat(body.messages), tools) = said
        /\ body.thinks => said = <<>> \/ \E i \in DOMAIN body.messages : ThinkingBeforeCall(body.messages[i])
        /\ ~body.thinks =>
             /\ ~HasKind(Flat(body.messages), ThinkingKinds)
             /\ enabled => body.hints = given \ {"effort", "clear_thinking"}
        /\ ~HasKind(Flat(body.messages), Redacted)
    BY <2>1, <2>5, <2>6, <2>7
  <2> QED BY <2>8 DEF body
<1> QED BY <1>3, <1>4 DEF NativeConsistent

\* The blocks of a new message, and the calls it may answer.
LEMMA PlacedType ==
  ASSUME HistoryType, NEW n \in 1 .. MaxBlocks, NEW A \in SUBSET AllKinds, NEW kinds \in [1 .. n -> A]
  PROVE  /\ Placed(kinds) \in Lists /\ DOMAIN Placed(kinds) = 1 .. n
         /\ \A i \in 1 .. n : /\ Placed(kinds)[i].kind \in A
                              /\ Placed(kinds)[i].at = <<Len(history) + 1, i>>
<1>1. n \in Nat /\ Len(history) + 1 \in Nat
  BY DEF HistoryType
<1> DEFINE place(i) == [kind |-> kinds[i], at |-> <<Len(history) + 1, i>>, of |-> <<0, 0>>]
<1>2. \A i \in 1 .. n : /\ place(i) \in HistoryBlocks /\ place(i).kind \in A
                        /\ place(i).at = <<Len(history) + 1, i>>
  BY <1>1 DEF HistoryBlocks
<1>3. Placed(kinds) = [i \in 1 .. n |-> place(i)]
  BY DEF Placed
<1> HIDE DEF place
<1> QED BY <1>1, <1>2, <1>3 DEF Lists

LEMMA UnansweredType == ASSUME HistoryType PROVE Unanswered \subseteq Nat \X Nat
<1> DEFINE m == SelectLastInSeq(history, LAMBDA x : x.role = "assistant")
           I == {i \in 1 .. Len(history) : history[i].role = "assistant"}
<1>1. m = IF I # {} THEN Max(I) ELSE 0
  BY DEF SelectLastInSeq
<1>2. m # 0 => m \in 1 .. Len(history)
  <2>1. I # {} => Max(I) \in I
    <3>1. Len(history) \in Nat /\ I \in SUBSET (1 .. Len(history))
      BY DEF HistoryType
    <3>2. I # {} => Listing!Largest(I) \in I
      <4> HIDE DEF I
      <4> QED BY <3>1, Listing!MaxFacts
    <3> QED BY <3>2 DEF Max, Listing!Largest
  <2> HIDE DEF m
  <2> QED BY <1>1, <2>1
<1>3. m # 0 => Calls(history[m].blocks) \in Lists
  <2> HIDE DEF m
  <2> SUFFICES ASSUME m # 0 PROVE Calls(history[m].blocks) \in Lists
    OBVIOUS
  <2>1. history[m] \in SaidMessages
    BY <1>2 DEF HistoryType
  <2>2. history[m].blocks \in Lists
    BY <2>1 DEF SaidMessages
  <2> QED BY <2>2, KeptType DEF Calls
<1> DEFINE calls == Calls(history[m].blocks)
<1>4. m # 0 => {b.at : b \in ToSet(calls)} \subseteq Nat \X Nat
  <2> HIDE DEF m, calls
  <2> SUFFICES ASSUME calls \in Lists, NEW b \in ToSet(calls) PROVE b.at \in Nat \X Nat
    BY <1>3 DEF calls
  <2>1. b \in HistoryBlocks
    BY DEF ToSet, Lists
  <2> QED BY <2>1 DEF HistoryBlocks
<1>5. Unanswered = IF m = 0 THEN {}
                   ELSE {b.at : b \in ToSet(calls)} \ {AllBlocks[i].of : i \in DOMAIN AllBlocks}
  BY DEF Unanswered
<1> HIDE DEF m, calls
<1> QED BY <1>4, <1>5

-----------------------------------------------------------------------------
(* How often a block is told *)

\* Nothing is told in an empty list.
LEMMA TimesOfNone == ASSUME NEW x PROVE Times(<<>>, x) = 0
<1>1. {i \in DOMAIN <<>> : <<>>[i] = x} = {}
  OBVIOUS
<1> QED BY <1>1, FS_EmptySet DEF Times

\* A list with one more block.
LEMMA TimesLonger ==
  ASSUME NEW s \in Lists, NEW b \in HistoryBlocks, NEW x
  PROVE  /\ Times(s, x) \in Nat
         /\ Times(Append(s, b), x) = Times(s, x) + IF b = x THEN 1 ELSE 0
<1> DEFINE w == Append(s, b)
           n == Len(s)
           S == {i \in DOMAIN s : s[i] = x}
           T == {i \in DOMAIN w : w[i] = x}
<1>1. /\ n \in Nat /\ DOMAIN s = 1 .. n /\ DOMAIN w = 1 .. n + 1 /\ w[n + 1] = b
      /\ \A i \in 1 .. n : w[i] = s[i]
  BY DEF Lists
<1> HIDE DEF w, n
<1>2. IsFiniteSet(S)
  <2>1. IsFiniteSet(1 .. n)
    BY <1>1, FS_Interval
  <2>2. S \in SUBSET (1 .. n)
    BY <1>1
  <2> HIDE DEF S
  <2> QED BY <2>1, <2>2, FS_Subset
<1>3. Cardinality(S) \in Nat
  <2> HIDE DEF S
  <2> QED BY <1>2, FS_CardinalityType
<1>6. Times(s, x) = Cardinality(S) /\ Times(Append(s, b), x) = Cardinality(T)
  BY DEF Times, w
<1>4. CASE b = x
  <2>1. T = S \cup {n + 1} /\ n + 1 \notin S
    BY <1>1, <1>4
  <2> HIDE DEF S, T
  <2>2. Cardinality(T) = Cardinality(S) + 1
    BY <1>2, <2>1, FS_AddElement
  <2> QED BY <1>3, <1>4, <1>6, <2>2
<1>5. CASE b # x
  <2>1. T = S
    BY <1>1, <1>5
  <2> HIDE DEF S, T
  <2> QED BY <1>3, <1>5, <1>6, <2>1
<1> QED BY <1>4, <1>5

\* A list behind another.
LEMMA TimesConcat ==
  ASSUME NEW s \in Lists, NEW t \in Lists, NEW x
  PROVE  /\ Times(s, x) \in Nat /\ Times(t, x) \in Nat
         /\ Times(s \o t, x) = Times(s, x) + Times(t, x)
<1> DEFINE A == {u \in Lists : Times(u, x) \in Nat /\ Times(s \o u, x) = Times(s, x) + Times(u, x)}
<1>0. <<>> \in Lists /\ s \o <<>> = s
  BY DEF Lists
<1>1. Times(s, x) \in Nat
  <2>1. CASE s = <<>>
    BY <2>1, TimesOfNone
  <2>2. CASE s # <<>>
    <3>1. s[1] \in HistoryBlocks
      BY <2>2 DEF Lists
    <3> QED BY <3>1, TimesLonger
  <2> QED BY <2>1, <2>2
<1>2. <<>> \in A
  BY <1>0, <1>1, TimesOfNone
<1>3. ASSUME NEW u \in Lists, NEW b \in HistoryBlocks, u \in A PROVE Append(u, b) \in A
  <2>1. Append(u, b) \in Lists /\ s \o u \in Lists /\ s \o Append(u, b) = Append(s \o u, b)
    BY DEF Lists
  <2>2. /\ Times(Append(u, b), x) = Times(u, x) + IF b = x THEN 1 ELSE 0
        /\ Times(Append(s \o u, b), x) = Times(s \o u, x) + IF b = x THEN 1 ELSE 0
    BY <2>1, TimesLonger
  <2>3. Times(u, x) \in Nat /\ Times(s \o u, x) = Times(s, x) + Times(u, x)
    BY <1>3
  <2>4. Times(Append(u, b), x) \in Nat /\ Times(s \o Append(u, b), x) = Times(s, x) + Times(Append(u, b), x)
    BY <1>1, <2>1, <2>2, <2>3
  <2> QED BY <2>1, <2>4
<1> HIDE DEF A
<1>4. Lists \subseteq A
  <2>1. \A u \in Lists, b \in HistoryBlocks : u \in A => Append(u, b) \in A
    BY <1>3
  <2> QED BY <1>2, <2>1, ListInduction
<1> QED BY <1>1, <1>4 DEF A

\* What is kept of a list.
LEMMA TimesKept ==
  ASSUME NEW s \in Lists, NEW K, NEW x
  PROVE  Times(OfKinds(s, K), x) = IF x.kind \in K THEN Times(s, x) ELSE 0
<1> DEFINE A == {u \in Lists : Times(OfKinds(u, K), x) = IF x.kind \in K THEN Times(u, x) ELSE 0}
<1>1. <<>> \in A
  BY KeptOfNone, TimesOfNone
<1>2. ASSUME NEW u \in Lists, NEW b \in HistoryBlocks, u \in A PROVE Append(u, b) \in A
  <2>1. Append(u, b) \in Lists /\ OfKinds(u, K) \in Lists
    BY KeptType DEF Lists
  <2>2. OfKinds(Append(u, b), K) = IF b.kind \in K THEN Append(OfKinds(u, K), b) ELSE OfKinds(u, K)
    BY KeptLonger
  <2>3. /\ Times(Append(u, b), x) = Times(u, x) + IF b = x THEN 1 ELSE 0
        /\ Times(Append(OfKinds(u, K), b), x) = Times(OfKinds(u, K), x) + IF b = x THEN 1 ELSE 0
        /\ Times(u, x) \in Nat
    BY <2>1, TimesLonger
  <2>4. Times(OfKinds(u, K), x) = IF x.kind \in K THEN Times(u, x) ELSE 0
    BY <1>2
  <2>5. Times(OfKinds(Append(u, b), K), x) = IF x.kind \in K THEN Times(Append(u, b), x) ELSE 0
    <3>1. CASE b.kind \in K
      <4>1. Times(OfKinds(Append(u, b), K), x) = Times(Append(OfKinds(u, K), b), x)
        BY <2>2, <3>1
      <4> QED BY <2>3, <2>4, <3>1, <4>1
    <3>2. CASE b.kind \notin K
      <4>1. Times(OfKinds(Append(u, b), K), x) = Times(OfKinds(u, K), x)
        BY <2>2, <3>2
      <4> QED BY <2>3, <2>4, <3>2, <4>1
    <3> QED BY <3>1, <3>2
  <2> QED BY <2>1, <2>5
<1> HIDE DEF A
<1>3. Lists \subseteq A
  <2>1. \A u \in Lists, b \in HistoryBlocks : u \in A => Append(u, b) \in A
    BY <1>2
  <2> QED BY <1>1, <2>1, ListInduction
<1> QED BY <1>3 DEF A

\* A list without repetition tells its blocks once.
LEMMA TimesOnce ==
  ASSUME NEW s \in Lists, NEW x, \A i, j \in DOMAIN s : s[i] = s[j] => i = j
  PROVE  Times(s, x) = IF x \in ToSet(s) THEN 1 ELSE 0
<1> DEFINE S == {i \in DOMAIN s : s[i] = x}
<1>1. CASE x \in ToSet(s)
  <2>1. PICK i \in DOMAIN s : s[i] = x
    BY <1>1 DEF ToSet
  <2>2. S = {i}
    BY <2>1
  <2>3. Cardinality(S) = 1
    <3> HIDE DEF S
    <3> QED BY <2>2, FS_Singleton
  <2> QED BY <1>1, <2>3 DEF Times
<1>2. CASE x \notin ToSet(s)
  <2>1. S = {}
    BY <1>2 DEF ToSet
  <2>2. Cardinality(S) = 0
    <3> HIDE DEF S
    <3> QED BY <2>1, FS_EmptySet
  <2> QED BY <1>2, <2>2 DEF Times
<1> QED BY <1>1, <1>2

\* A list of other kinds does not tell it.
LEMMA TimesOther ==
  ASSUME NEW s \in Lists, NEW x, ~HasKind(s, {x.kind})
  PROVE  Times(s, x) = 0
<1> DEFINE S == {i \in DOMAIN s : s[i] = x}
<1>1. S = {}
  BY DEF HasKind
<1> HIDE DEF S
<1>2. Cardinality(S) = 0
  BY <1>1, FS_EmptySet
<1> QED BY <1>2 DEF Times, S

-----------------------------------------------------------------------------
(* Lists of lists *)

\* Lists behind other lists.
LEMMA FlattenTimes ==
  ASSUME NEW ss \in Seq(Lists), NEW tt \in Seq(Lists), NEW x
  PROVE  /\ FlattenSeq(ss) \in Lists /\ FlattenSeq(tt) \in Lists
         /\ Times(FlattenSeq(ss \o tt), x) = Times(FlattenSeq(ss), x) + Times(FlattenSeq(tt), x)
<1> DEFINE n == Len(ss)
           k == Len(tt)
           uu == ss \o tt
<1>1. /\ n \in Nat /\ k \in Nat /\ uu \in Seq(Lists) /\ Len(uu) = n + k
      /\ \A i \in 1 .. n : uu[i] = ss[i] /\ ss[i] \in Lists
      /\ \A i \in 1 .. k : uu[n + i] = tt[i] /\ tt[i] \in Lists
  OBVIOUS
<1>2. PICK f \in [0 .. Len(ss) -> Lists] :
        /\ f[0] = <<>>
        /\ \A i \in 1 .. Len(ss) : f[i] = f[i - 1] \o ss[i]
        /\ FlattenSeq(ss) = f[Len(ss)]
  BY FlattenSteps
<1>3. PICK g \in [0 .. Len(tt) -> Lists] :
        /\ g[0] = <<>>
        /\ \A i \in 1 .. Len(tt) : g[i] = g[i - 1] \o tt[i]
        /\ FlattenSeq(tt) = g[Len(tt)]
  BY FlattenSteps
<1> HIDE DEF uu
<1>4. PICK h \in [0 .. Len(uu) -> Lists] :
        /\ h[0] = <<>>
        /\ \A i \in 1 .. Len(uu) : h[i] = h[i - 1] \o uu[i]
        /\ FlattenSeq(uu) = h[Len(uu)]
  BY <1>1, FlattenSteps
<1> HIDE DEF n, k
<1> DEFINE A == {i \in 0 .. n : h[i] = f[i]}
<1>5. n \in A
  <2>1. 0 \in A
    BY <1>1, <1>2, <1>4
  <2>2. ASSUME NEW i \in 0 .. n - 1, i \in A PROVE i + 1 \in A
    <3> DEFINE j == i + 1
    <3>1. j \in 1 .. n /\ j \in 0 .. n /\ j \in 1 .. Len(uu) /\ j - 1 = i
      BY <1>1
    <3> HIDE DEF j
    <3>2. h[j] = h[j - 1] \o uu[j] /\ f[j] = f[j - 1] \o ss[j] /\ uu[j] = ss[j]
      BY <1>1, <1>2, <1>4, <3>1 DEF n
    <3>3. h[j] = f[j]
      BY <2>2, <3>1, <3>2
    <3> QED BY <3>1, <3>3 DEF j
  <2> HIDE DEF A
  <2>3. \A i \in 0 .. n - 1 : i \in A => i + 1 \in A
    BY <2>2
  <2>4. 0 .. n \subseteq A
    BY ONLY <1>1, <2>1, <2>3, Listing!Counting
  <2> QED BY <1>1, <2>4
<1> DEFINE B == {i \in 0 .. k : Times(h[n + i], x) = Times(f[n], x) + Times(g[i], x)}
<1>6. /\ f[n] \in Lists /\ \A i \in 0 .. k : g[i] \in Lists
      /\ \A i \in 0 .. Len(uu) : h[i] \in Lists
  <2>1. f \in [0 .. n -> Lists] /\ g \in [0 .. k -> Lists]
    BY <1>2, <1>3 DEF n, k
  <2> QED BY <1>1, <1>4, <2>1
<1>8. \A p, q \in Lists : /\ Times(p, x) \in Nat /\ Times(q, x) \in Nat
                          /\ Times(p \o q, x) = Times(p, x) + Times(q, x)
  BY TimesConcat
<1>7. k \in B
  <2>1. 0 \in B
    <3>2. h[n] = f[n] /\ g[0] = <<>> /\ 0 \in 0 .. k /\ n + 0 = n
      BY <1>1, <1>3, <1>5
    <3>3. Times(f[n], x) = Times(f[n], x) + Times(<<>>, x)
      BY <1>6, <1>8, TimesOfNone
    <3> QED BY <3>2, <3>3
  <2>2. ASSUME NEW i \in 0 .. k - 1, i \in B PROVE i + 1 \in B
    <3> DEFINE j == i + 1
               a == n + j
    <3>1. /\ j \in 1 .. k /\ j \in 0 .. k /\ j - 1 = i /\ a \in 1 .. Len(uu) /\ a - 1 = n + i
          /\ i \in 0 .. k /\ n + i \in 0 .. Len(uu)
      BY <1>1
    <3>2. uu[a] = tt[j] /\ tt[j] \in Lists
      <4> HIDE DEF j
      <4> QED BY <1>1, <3>1
    <3> HIDE DEF j, a
    <3>3. h[a] = h[n + i] \o tt[j]
      BY <1>4, <3>1, <3>2
    <3>4. g[j] = g[i] \o tt[j]
      BY <1>3, <3>1 DEF k
    <3>5. Times(h[n + i], x) = Times(f[n], x) + Times(g[i], x)
      BY <2>2
    <3>6. Times(h[a], x) = Times(h[n + i], x) + Times(tt[j], x) /\ Times(tt[j], x) \in Nat
      BY <1>6, <1>8, <3>1, <3>2, <3>3
    <3>7. Times(g[j], x) = Times(g[i], x) + Times(tt[j], x) /\ Times(g[i], x) \in Nat
      BY <1>6, <1>8, <3>1, <3>2, <3>4
    <3>8. Times(h[a], x) = Times(f[n], x) + Times(g[j], x)
      BY <1>6, <1>8, <3>5, <3>6, <3>7
    <3> QED BY <3>1, <3>8 DEF a, j
  <2> HIDE DEF B
  <2>3. \A i \in 0 .. k - 1 : i \in B => i + 1 \in B
    BY <2>2
  <2>4. 0 .. k \subseteq B
    BY ONLY <1>1, <2>1, <2>3, Listing!Counting
  <2> QED BY <1>1, <2>4
<1>9. Times(FlattenSeq(uu), x) = Times(f[n], x) + Times(g[k], x) /\ g[k] \in Lists
  BY <1>1, <1>4, <1>6, <1>7
<1> QED BY <1>2, <1>3, <1>6, <1>9 DEF n, k, uu

\* A single list, and none.
LEMMA FlattenOne ==
  ASSUME NEW s \in Lists
  PROVE  FlattenSeq(<<s>>) = s /\ FlattenSeq(<<>>) = <<>>
BY DEF FlattenSeq

\* The blocks of two lists behind each other.
LEMMA ConcatMembers ==
  ASSUME NEW p \in Lists, NEW q \in Lists
  PROVE  ToSet(p \o q) = ToSet(p) \cup ToSet(q)
<1> DEFINE u == p \o q
           n == Len(p)
           k == Len(q)
<1>1. /\ DOMAIN p = 1 .. n /\ DOMAIN q = 1 .. k /\ n \in Nat /\ k \in Nat
      /\ DOMAIN u = 1 .. n + k
      /\ \A i \in 1 .. n : u[i] = p[i]
      /\ \A i \in 1 .. k : u[n + i] = q[i]
  BY DEF Lists
<1> HIDE DEF u, n, k
<1>2. ASSUME NEW i \in DOMAIN u PROVE u[i] \in ToSet(p) \cup ToSet(q)
  <2>1. CASE i <= n
    <3>1. i \in DOMAIN p /\ u[i] = p[i]
      BY <1>1, <2>1
    <3> QED BY <3>1 DEF ToSet
  <2>2. CASE i > n
    <3> DEFINE j == i - n
    <3>1. j \in 1 .. k /\ n + j = i
      BY <1>1, <2>2
    <3> HIDE DEF j
    <3>2. j \in DOMAIN q /\ u[i] = q[j]
      BY <1>1, <3>1
    <3> QED BY <3>2 DEF ToSet
  <2> QED BY <1>1, <2>1, <2>2
<1>3. ASSUME NEW i \in DOMAIN p PROVE p[i] \in ToSet(u)
  <2>1. i \in DOMAIN u /\ u[i] = p[i]
    BY <1>1
  <2> QED BY <2>1 DEF ToSet
<1>4. ASSUME NEW i \in DOMAIN q PROVE q[i] \in ToSet(u)
  <2>1. n + i \in DOMAIN u /\ u[n + i] = q[i]
    BY <1>1
  <2> QED BY <2>1 DEF ToSet
<1>5. ToSet(u) = ToSet(p) \cup ToSet(q)
  BY <1>2, <1>3, <1>4 DEF ToSet
<1> QED BY <1>5 DEF u

\* The blocks of the lists.
LEMMA FlattenMembers ==
  ASSUME NEW ss \in Seq(Lists), NEW x
  PROVE  x \in ToSet(FlattenSeq(ss)) <=> \E i \in 1 .. Len(ss) : x \in ToSet(ss[i])
<1> DEFINE n == Len(ss)
<1>1. n \in Nat /\ \A i \in 1 .. n : ss[i] \in Lists
  OBVIOUS
<1>2. PICK f \in [0 .. Len(ss) -> Lists] :
        /\ f[0] = <<>>
        /\ \A i \in 1 .. Len(ss) : f[i] = f[i - 1] \o ss[i]
        /\ FlattenSeq(ss) = f[Len(ss)]
  BY FlattenSteps
<1>3. \A p, q \in Lists : ToSet(p \o q) = ToSet(p) \cup ToSet(q)
  BY ConcatMembers
<1> HIDE DEF n
<1> DEFINE A == {k \in 0 .. n : x \in ToSet(f[k]) <=> \E i \in 1 .. k : x \in ToSet(ss[i])}
<1>4. n \in A
  <2>1. 0 \in A
    <3>1. ToSet(<<>>) = {} /\ 1 .. 0 = {}
      BY DEF ToSet
    <3> QED BY <1>1, <1>2, <3>1
  <2>2. ASSUME NEW k \in 0 .. n - 1, k \in A PROVE k + 1 \in A
    <3> DEFINE j == k + 1
    <3>1. j \in 1 .. n /\ j \in 0 .. n /\ j - 1 = k /\ k \in 0 .. n /\ 1 .. j = (1 .. k) \cup {j}
      BY <1>1
    <3> HIDE DEF j
    <3>2. f[j] = f[k] \o ss[j] /\ f[k] \in Lists /\ ss[j] \in Lists
      BY <1>1, <1>2, <3>1 DEF n
    <3>3. ToSet(f[j]) = ToSet(f[k]) \cup ToSet(ss[j])
      BY <1>3, <3>2
    <3>4. x \in ToSet(f[j]) <=> \E i \in 1 .. j : x \in ToSet(ss[i])
      BY <2>2, <3>1, <3>3
    <3> QED BY <3>1, <3>4 DEF j
  <2> HIDE DEF A
  <2>3. \A k \in 0 .. n - 1 : k \in A => k + 1 \in A
    BY <2>2
  <2>4. 0 .. n \subseteq A
    BY ONLY <1>1, <2>1, <2>3, Listing!Counting
  <2> QED BY <1>1, <2>4
<1> QED BY <1>2, <1>4 DEF n

-----------------------------------------------------------------------------
(* What chat messages tell *)

\* The blocks that are counted, and the reasoning beside a message, which is not.
Countable == {x \in HistoryBlocks : x.kind \notin {"none", "reasoning"}}
Tops == {s \in Lists : ~HasKind(s, AllKinds \ {"reasoning"})}

Utterances == [role : {"user", "assistant", "tool"}, words : Lists, reasoning : Lists,
               calls : Lists, answers : HistoryBlocks]

LEMMA NoBlockType == NoBlock \in HistoryBlocks /\ <<>> \in Lists /\ <<>> \in Tops
<1>1. "none" \in AllKinds /\ <<0, 0>> \in Nat \X Nat
  BY DEF AllKinds
<1>2. NoBlock \in HistoryBlocks
  BY <1>1 DEF NoBlock, HistoryBlocks
<1>3. <<>> \in Lists
  BY DEF Lists
<1> QED BY <1>2, <1>3 DEF Tops, HasKind

\* Reasoning beside a message is never one of them.
LEMMA TopUncounted == ASSUME NEW top \in Tops, NEW x \in Countable PROVE Times(top, x) = 0
<1>1. ~HasKind(top, {x.kind})
  BY DEF Tops, Countable, HasKind, HistoryBlocks
<1> QED BY <1>1, TimesOther DEF Tops

\* A chat message tells each block as often as its parts do.
LEMMA HoldsTimes ==
  ASSUME NEW u \in Utterances, NEW x \in Countable
  PROVE  /\ WhatItHolds(u) \in Lists
         /\ {Times(u.words, x), Times(u.reasoning, x), Times(u.calls, x)} \subseteq Nat
         /\ Times(WhatItHolds(u), x) =
              Times(u.words, x) + Times(u.reasoning, x) + Times(u.calls, x)
                + IF u.answers = x THEN 1 ELSE 0
<1> DEFINE last == IF u.answers = NoBlock THEN <<>> ELSE <<u.answers>>
<1>1. /\ u.words \in Lists /\ u.reasoning \in Lists /\ u.calls \in Lists
      /\ u.answers \in HistoryBlocks
  BY DEF Utterances
<1>2. last \in Lists
  BY <1>1 DEF Lists
<1>3. Times(last, x) = IF u.answers = x THEN 1 ELSE 0
  <2>1. CASE u.answers = NoBlock
    <3>1. x # NoBlock
      BY DEF Countable, NoBlock
    <3> QED BY <2>1, <3>1, TimesOfNone
  <2>2. CASE u.answers # NoBlock
    <3>1. last = Append(<<>>, u.answers)
      BY <2>2
    <3>2. Times(Append(<<>>, u.answers), x) = Times(<<>>, x) + IF u.answers = x THEN 1 ELSE 0
      BY <1>1, NoBlockType, TimesLonger
    <3>3. Times(<<>>, x) = 0
      BY TimesOfNone
    <3> HIDE DEF last
    <3> QED BY <3>1, <3>2, <3>3
  <2> QED BY <2>1, <2>2
<1>4. WhatItHolds(u) = u.words \o u.reasoning \o u.calls \o last
  BY DEF WhatItHolds
<1> HIDE DEF last
<1>5. \A p, q \in Lists : /\ p \o q \in Lists /\ Times(p, x) \in Nat /\ Times(q, x) \in Nat
                          /\ Times(p \o q, x) = Times(p, x) + Times(q, x)
  BY TimesConcat DEF Lists
<1>6. /\ u.words \o u.reasoning \in Lists
      /\ Times(u.words \o u.reasoning, x) = Times(u.words, x) + Times(u.reasoning, x)
  BY <1>1, <1>5
<1> DEFINE three == (u.words \o u.reasoning) \o u.calls
<1>7. three \in Lists /\ Times(three, x) = Times(u.words, x) + Times(u.reasoning, x) + Times(u.calls, x)
  BY <1>1, <1>5, <1>6
<1> HIDE DEF three
<1>8. /\ three \o last \in Lists
      /\ Times(three \o last, x) = Times(three, x) + Times(last, x)
  BY <1>2, <1>5, <1>7
<1>9. WhatItHolds(u) = three \o last
  BY <1>4 DEF three
<1> QED BY <1>1, <1>3, <1>5, <1>7, <1>8, <1>9

\* How often a chat tells a block.
Count(sent, x) == Times(Told(sent), x)

LEMMA CountFacts ==
  ASSUME NEW c \in Seq(Utterances), NEW d \in Seq(Utterances), NEW x \in Countable
  PROVE  /\ Count(c, x) \in Nat /\ Count(<<>>, x) = 0
         /\ Count(c \o d, x) = Count(c, x) + Count(d, x)
         /\ \A u \in Utterances : /\ Count(<<u>>, x) = Times(WhatItHolds(u), x)
                                  /\ Count(<<u>>, x) \in Nat
                                  /\ Count(Append(c, u), x) = Count(c, x) + Count(<<u>>, x)
<1> DEFINE Held(sent) == [i \in DOMAIN sent |-> WhatItHolds(sent[i])]
<1>1. \A u \in Utterances : WhatItHolds(u) \in Lists
  BY HoldsTimes
<1>2. ASSUME NEW e \in Seq(Utterances) PROVE Held(e) \in Seq(Lists) /\ Len(Held(e)) = Len(e)
  <2>1. \A i \in DOMAIN e : e[i] \in Utterances
    OBVIOUS
  <2>2. DOMAIN e = 1 .. Len(e) /\ Len(e) \in Nat
    OBVIOUS
  <2>3. \A i \in 1 .. Len(e) : WhatItHolds(e[i]) \in Lists
    BY <1>1, <2>1, <2>2
  <2>4. Held(e) = [i \in 1 .. Len(e) |-> WhatItHolds(e[i])]
    BY <2>2
  <2> QED BY <2>2, <2>3, <2>4
<1>3. ASSUME NEW e \in Seq(Utterances), NEW g \in Seq(Utterances)
      PROVE  Held(e \o g) = Held(e) \o Held(g)
  <2> DEFINE n == Len(e)
             k == Len(g)
             whole == e \o g
  <2>1. /\ n \in Nat /\ k \in Nat /\ DOMAIN whole = 1 .. n + k /\ DOMAIN e = 1 .. n /\ DOMAIN g = 1 .. k
        /\ \A i \in 1 .. n + k : whole[i] = IF i <= n THEN e[i] ELSE g[i - n]
    OBVIOUS
  <2>2. Held(e) \in Seq(Lists) /\ Held(g) \in Seq(Lists) /\ Len(Held(e)) = n /\ Len(Held(g)) = k
    BY <1>2
  <2> DEFINE parts == Held(e) \o Held(g)
  <2>3. /\ parts \in Seq(Lists) /\ Len(parts) = n + k
        /\ \A i \in 1 .. n : parts[i] = Held(e)[i]
        /\ \A i \in 1 .. k : parts[n + i] = Held(g)[i]
    <3>1. \A p, q \in Seq(Lists) :
            /\ p \o q \in Seq(Lists) /\ Len(p \o q) = Len(p) + Len(q)
            /\ \A i \in 1 .. Len(p) : (p \o q)[i] = p[i]
            /\ \A i \in 1 .. Len(q) : (p \o q)[Len(p) + i] = q[i]
      OBVIOUS
    <3> HIDE DEF Held, n, k
    <3> QED BY <2>2, <3>1
  <2>4. /\ whole \in Seq(Utterances) /\ Len(whole) = n + k
        /\ \A i \in 1 .. n : whole[i] = e[i]
        /\ \A i \in 1 .. k : whole[n + i] = g[i]
    OBVIOUS
  <2>5. Held(whole) \in Seq(Lists) /\ Len(Held(whole)) = n + k
    <3> HIDE DEF Held, whole
    <3> QED BY <1>2, <2>4
  <2>6. ASSUME NEW i \in 1 .. n + k PROVE Held(whole)[i] = parts[i]
    <3>0. Held(whole)[i] = WhatItHolds(whole[i])
      BY <2>1
    <3>1. CASE i <= n
      <4>1. i \in 1 .. n
        BY <2>1, <3>1
      <4>2. Held(e)[i] = WhatItHolds(e[i])
        BY <2>1, <4>1
      <4> HIDE DEF Held, whole, parts
      <4> QED BY <2>3, <2>4, <3>0, <4>1, <4>2
    <3>2. CASE i > n
      <4> DEFINE j == i - n
      <4>1. j \in 1 .. k /\ n + j = i
        BY <2>1, <3>2
      <4> HIDE DEF j
      <4>2. Held(g)[j] = WhatItHolds(g[j])
        BY <2>1, <4>1
      <4> HIDE DEF Held, whole, parts
      <4> QED BY <2>3, <2>4, <3>0, <4>1, <4>2
    <3> QED BY <2>1, <3>1, <3>2
  <2>7. Held(whole) = parts
    <3> HIDE DEF Held, whole, parts
    <3> QED BY <2>1, <2>3, <2>5, <2>6, SeqEqual
  <2> QED BY <2>7
<1>4. ASSUME NEW e \in Seq(Utterances), NEW g \in Seq(Utterances)
      PROVE  Count(e \o g, x) = Count(e, x) + Count(g, x) /\ Count(e, x) \in Nat
  <2>1. Held(e) \in Seq(Lists) /\ Held(g) \in Seq(Lists) /\ Held(e \o g) = Held(e) \o Held(g)
    BY <1>2, <1>3
  <2>2. \A sent : Told(sent) = FlattenSeq(Held(sent))
    BY DEF Told
  <2> HIDE DEF Held
  <2>3. Times(FlattenSeq(Held(e) \o Held(g)), x) = Times(FlattenSeq(Held(e)), x) + Times(FlattenSeq(Held(g)), x)
    BY <2>1, FlattenTimes
  <2>4. FlattenSeq(Held(e)) \in Lists
    BY <2>1, FlattenTimes
  <2>5. Times(FlattenSeq(Held(e)), x) \in Nat
    BY <2>4, TimesConcat
  <2> QED BY <2>1, <2>2, <2>3, <2>5 DEF Count
<1>5. Count(<<>>, x) = 0
  <2>1. Held(<<>>) = <<>>
    OBVIOUS
  <2>2. FlattenSeq(<<>>) = <<>>
    BY NoBlockType, FlattenOne
  <2> QED BY <2>1, <2>2, TimesOfNone DEF Count, Told
<1>6. ASSUME NEW u \in Utterances
      PROVE  /\ Count(<<u>>, x) = Times(WhatItHolds(u), x) /\ Count(<<u>>, x) \in Nat
             /\ Count(Append(c, u), x) = Count(c, x) + Count(<<u>>, x)
  <2>1. Held(<<u>>) = <<WhatItHolds(u)>>
    OBVIOUS
  <2>2. FlattenSeq(<<WhatItHolds(u)>>) = WhatItHolds(u)
    BY <1>1, FlattenOne
  <2>3. Count(<<u>>, x) = Times(WhatItHolds(u), x)
    BY <2>1, <2>2 DEF Count, Told
  <2>4. <<u>> \in Seq(Utterances) /\ Append(c, u) = c \o <<u>>
    OBVIOUS
  <2> QED BY <1>4, <2>3, <2>4
<1> QED BY <1>4, <1>5, <1>6

\* The kinds an assistant message is told of, and those of any message.
Spoken(replay, top) ==
  {"text"} \cup IF replay = "think_tags" \/ (replay = "reasoning_content" /\ top = <<>>)
                THEN ThinkingKinds ELSE {}

Sends(m, replay) ==
  IF m.role = "user" THEN {"text", "tool_result"} ELSE Spoken(replay, m.top) \cup {"tool_use"}

Pendings == [waiting : SUBSET (Nat \X Nat), blocks : Lists, top : Tops]
Converters == [sent : Seq(Utterances), pending : Pendings]

Total(c, replay, x) == Count(c.sent, x) + Count(Deferred(c.pending, replay), x)

LEMMA AssistantFacts ==
  ASSUME NEW blocks \in Lists, NEW top \in Tops, NEW replay \in Modes
  PROVE  /\ Assistant(blocks, top, replay) \in Utterances
         /\ Assistant(blocks, top, replay).calls = <<>>
         /\ Assistant(blocks, top, replay).answers = NoBlock
         /\ \A x \in Countable :
              /\ Times(Assistant(blocks, top, replay).words, x)
                   + Times(Assistant(blocks, top, replay).reasoning, x)
                   = IF x.kind \in Spoken(replay, top) THEN Times(blocks, x) ELSE 0
              /\ Times(blocks, x) \in Nat
<1> DEFINE a == Assistant(blocks, top, replay)
           W == {"text"} \cup IF replay = "think_tags" THEN ThinkingKinds ELSE {}
<1>1. /\ a.role = "assistant" /\ a.words = OfKinds(blocks, W)
      /\ a.reasoning = IF replay # "reasoning_content" THEN <<>>
                       ELSE IF top # <<>> THEN top ELSE OfKinds(blocks, ThinkingKinds)
      /\ a.calls = <<>> /\ a.answers = NoBlock
      /\ a = [role |-> a.role, words |-> a.words, reasoning |-> a.reasoning,
              calls |-> a.calls, answers |-> a.answers]
  BY DEF Assistant, Chat
<1> HIDE DEF a
<1>2. \A K : OfKinds(blocks, K) \in Lists
  BY KeptType
<1>3. top \in Lists
  BY DEF Tops
<1>4. a.words \in Lists /\ a.reasoning \in Lists
  <2>1. a.words \in Lists
    BY <1>1, <1>2
  <2>2. <<>> \in Lists /\ OfKinds(blocks, ThinkingKinds) \in Lists
    BY <1>2, NoBlockType
  <2> QED BY <1>1, <1>3, <2>1, <2>2
<1>5. a \in Utterances
  BY <1>1, <1>4, NoBlockType DEF Utterances
<1>6. ASSUME NEW x \in Countable
      PROVE  /\ Times(a.words, x) + Times(a.reasoning, x)
                   = IF x.kind \in Spoken(replay, top) THEN Times(blocks, x) ELSE 0
             /\ Times(blocks, x) \in Nat
  <2>1. Times(blocks, x) \in Nat
    BY TimesConcat
  <2>2. Times(a.words, x) = IF x.kind \in W THEN Times(blocks, x) ELSE 0
    BY <1>1, TimesKept
  <2>3. Times(OfKinds(blocks, ThinkingKinds), x) = IF x.kind \in ThinkingKinds THEN Times(blocks, x) ELSE 0
    BY TimesKept
  <2>4. Times(top, x) = 0 /\ Times(<<>>, x) = 0
    BY TopUncounted, TimesOfNone
  <2>5. replay \in {"disabled", "think_tags", "reasoning_content"} /\ "text" \notin ThinkingKinds
    BY DEF Modes, ThinkingKinds
  <2>6. CASE replay = "disabled"
    <3>1. a.reasoning = <<>> /\ W = {"text"} /\ Spoken(replay, top) = {"text"}
      BY <1>1, <2>6 DEF Spoken
    <3> HIDE DEF W
    <3> QED BY <2>1, <2>2, <2>4, <3>1
  <2>7. CASE replay = "think_tags"
    <3>1. a.reasoning = <<>> /\ Spoken(replay, top) = W
      BY <1>1, <2>7 DEF Spoken
    <3> HIDE DEF W
    <3> QED BY <2>1, <2>2, <2>4, <3>1
  <2>8. CASE replay = "reasoning_content" /\ top # <<>>
    <3>1. a.reasoning = top /\ W = {"text"} /\ Spoken(replay, top) = {"text"}
      BY <1>1, <2>8 DEF Spoken
    <3> HIDE DEF W
    <3> QED BY <2>1, <2>2, <2>4, <3>1
  <2>9. CASE replay = "reasoning_content" /\ top = <<>>
    <3>1. /\ a.reasoning = OfKinds(blocks, ThinkingKinds) /\ W = {"text"}
          /\ Spoken(replay, top) = {"text"} \cup ThinkingKinds
      BY <1>1, <2>9 DEF Spoken
    <3>2. Times(a.reasoning, x) = IF x.kind \in ThinkingKinds THEN Times(blocks, x) ELSE 0
      BY <2>3, <3>1
    <3> HIDE DEF W
    <3> QED BY <2>1, <2>2, <2>5, <3>1, <3>2
  <2> QED BY <2>1, <2>5, <2>6, <2>7, <2>8, <2>9
<1> QED BY <1>1, <1>5, <1>6 DEF a

\* One message of the assistant, with or without calls.
LEMMA AssistantTold ==
  ASSUME NEW blocks \in Lists, NEW top \in Tops, NEW replay \in Modes, NEW calls \in Lists,
         NEW x \in Countable
  PROVE  LET u == [Assistant(blocks, top, replay) EXCEPT !.calls = calls] IN
         /\ u \in Utterances
         /\ Count(<<u>>, x) = (IF x.kind \in Spoken(replay, top) THEN Times(blocks, x) ELSE 0)
                                + Times(calls, x)
         /\ Times(blocks, x) \in Nat /\ Times(calls, x) \in Nat
<1> DEFINE a == Assistant(blocks, top, replay)
           u == [a EXCEPT !.calls = calls]
<1>1. /\ a \in Utterances /\ a.calls = <<>> /\ a.answers = NoBlock
      /\ Times(a.words, x) + Times(a.reasoning, x)
           = IF x.kind \in Spoken(replay, top) THEN Times(blocks, x) ELSE 0
      /\ Times(blocks, x) \in Nat
  BY AssistantFacts
<1> HIDE DEF a
<1>2. /\ u \in Utterances /\ u.words = a.words /\ u.reasoning = a.reasoning /\ u.calls = calls
      /\ u.answers = NoBlock
  BY <1>1 DEF Utterances
<1> HIDE DEF u
<1>3. x # NoBlock
  BY DEF Countable, NoBlock
<1>4. /\ {Times(u.words, x), Times(u.reasoning, x), Times(u.calls, x)} \subseteq Nat
      /\ Times(WhatItHolds(u), x) =
           Times(u.words, x) + Times(u.reasoning, x) + Times(u.calls, x)
             + IF u.answers = x THEN 1 ELSE 0
  BY <1>2, HoldsTimes
<1>5. Times(WhatItHolds(u), x) = Times(a.words, x) + Times(a.reasoning, x) + Times(calls, x)
  BY <1>2, <1>3, <1>4
<1>6. Count(<<u>>, x) = Times(WhatItHolds(u), x)
  <2>1. <<>> \in Seq(Utterances)
    OBVIOUS
  <2> QED BY <1>2, <2>1, CountFacts
<1> QED BY <1>1, <1>2, <1>4, <1>5, <1>6 DEF u, a

LEMMA DeferredFacts ==
  ASSUME NEW p \in Pendings, NEW replay \in Modes
  PROVE  /\ Deferred(p, replay) \in Seq(Utterances)
         /\ \A x \in Countable :
              /\ Count(Deferred(p, replay), x) \in Nat
              /\ Count(Deferred(p, replay), x) =
                   IF x.kind \in Spoken(replay, p.top) THEN Times(p.blocks, x) ELSE 0
<1>1. p.blocks \in Lists /\ p.top \in Tops
  BY DEF Pendings
<1> DEFINE a == Assistant(p.blocks, p.top, replay)
<1>2. a \in Utterances /\ a.calls = <<>>
  BY <1>1, AssistantFacts
<1>3. a = [a EXCEPT !.calls = <<>>]
  <2> HIDE DEF a
  <2> QED BY <1>2 DEF Utterances
<1>4. ASSUME NEW x \in Countable
      PROVE  /\ Count(<<a>>, x) = IF x.kind \in Spoken(replay, p.top) THEN Times(p.blocks, x) ELSE 0
             /\ Times(p.blocks, x) \in Nat /\ Times(<<>>, x) = 0
             /\ Count(<<>>, x) = 0
  <2>0. Count(<<>>, x) = 0
    <3>1. <<>> \in Seq(Utterances)
      OBVIOUS
    <3> QED BY <3>1, CountFacts
  <2>1. Times(<<>>, x) = 0
    BY TimesOfNone
  <2>2. /\ Count(<<[a EXCEPT !.calls = <<>>]>>, x) =
             (IF x.kind \in Spoken(replay, p.top) THEN Times(p.blocks, x) ELSE 0) + Times(<<>>, x)
        /\ Times(p.blocks, x) \in Nat
    BY <1>1, NoBlockType, AssistantTold
  <2>3. <<[a EXCEPT !.calls = <<>>]>> = <<a>>
    BY <1>3
  <2> HIDE DEF a
  <2> QED BY <2>0, <2>1, <2>2, <2>3
<1>5. Deferred(p, replay) = IF p.blocks # <<>> THEN <<a>> ELSE <<>>
  BY DEF Deferred, NeedsDeferred
<1> HIDE DEF a
<1>6. <<a>> \in Seq(Utterances) /\ <<>> \in Seq(Utterances)
  BY <1>2
<1> QED BY <1>4, <1>5, <1>6

-----------------------------------------------------------------------------
(* Messages of the assistant *)

\* The blocks before the first call, the call and the rest are all of them.
LEMMA FirstCallFacts ==
  ASSUME NEW w \in Lists
  PROVE  LET first == FirstCall(w)
             before == SubSeq(w, 1, first - 1)
             rest == SubSeq(w, first + 1, Len(w))
         IN  /\ first = 0 => ~HasKind(w, {"tool_use"})
             /\ first # 0 =>
                  /\ w[first].kind = "tool_use" /\ before \in Lists /\ rest \in Lists
                  /\ \A x \in Countable :
                       Times(w, x) = Times(before, x) + (IF w[first] = x THEN 1 ELSE 0) + Times(rest, x)
<1> DEFINE I == {i \in 1 .. Len(w) : w[i].kind = "tool_use"}
           first == FirstCall(w)
           before == SubSeq(w, 1, first - 1)
           rest == SubSeq(w, first + 1, Len(w))
<1>0. Len(w) \in Nat /\ DOMAIN w = 1 .. Len(w) /\ \A j \in 1 .. Len(w) : w[j] \in HistoryBlocks
  BY DEF Lists
<1>1. first = IF I # {} THEN Min(I) ELSE 0
  BY DEF FirstCall, SelectInSeq
<1>2. I # {} => first \in I
  <2>1. I \in SUBSET Nat
    OBVIOUS
  <2>2. I # {} => Min(I) \in I
    <3> HIDE DEF I
    <3> QED BY <2>1, MinFacts
  <2> QED BY <1>1, <2>2
<1> HIDE DEF first
<1>3. first = 0 => ~HasKind(w, {"tool_use"})
  BY <1>0, <1>2 DEF HasKind
<1>4. ASSUME first # 0
      PROVE  /\ w[first].kind = "tool_use" /\ before \in Lists /\ rest \in Lists
             /\ \A x \in Countable :
                  Times(w, x) = Times(before, x) + (IF w[first] = x THEN 1 ELSE 0) + Times(rest, x)
  <2>1. first \in 1 .. Len(w) /\ w[first].kind = "tool_use" /\ w[first] \in HistoryBlocks
    BY <1>0, <1>1, <1>2, <1>4
  <2>2. before \in Lists /\ rest \in Lists
    BY <1>0, <2>1 DEF Lists
  <2>3. SubSeq(w, 1, first) = Append(before, w[first])
    BY <1>0, <2>1 DEF Lists
  <2>4. SubSeq(w, 1, first) \o rest = w
    <3> DEFINE n == Len(w)
    <3>1. /\ w \in Seq(HistoryBlocks) /\ 1 \in 1 .. Len(w) + 1
          /\ first \in 1 - 1 .. Len(w) /\ n \in first .. Len(w)
      BY <1>0, <2>1 DEF Lists
    <3>2. SubSeq(w, 1, n) = w
      BY <1>0 DEF Lists
    <3> HIDE DEF n
    <3>3. SubSeq(w, 1, first) \o SubSeq(w, first + 1, n) = SubSeq(w, 1, n)
      BY <3>1, ConcatAdjacentSubSeq
    <3> QED BY <3>2, <3>3 DEF n
  <2> HIDE DEF before, rest
  <2>5. ASSUME NEW x \in Countable
        PROVE  Times(w, x) = Times(before, x) + (IF w[first] = x THEN 1 ELSE 0) + Times(rest, x)
    <3>1. Append(before, w[first]) \in Lists
      BY <2>1, <2>2 DEF Lists
    <3>2. Times(Append(before, w[first]) \o rest, x) = Times(Append(before, w[first]), x) + Times(rest, x)
      BY <2>2, <3>1, TimesConcat
    <3>3. Times(Append(before, w[first]), x) = Times(before, x) + IF w[first] = x THEN 1 ELSE 0
      BY <2>1, <2>2, TimesLonger
    <3> QED BY <2>3, <2>4, <3>2, <3>3
  <2> QED BY <2>1, <2>2, <2>5
<1> QED BY <1>3, <1>4 DEF first

\* What is sent of a message with calls and what is deferred are all of it.
LEMMA SplitFacts ==
  ASSUME NEW blocks \in Lists, NEW top \in Tops, NEW replay \in Modes, NEW m,
         m.blocks = blocks, m.top = top, FirstCall(blocks) # 0
  PROVE  /\ Split(m, replay).sent \in Seq(Utterances)
         /\ Split(m, replay).pending \in Pendings
         /\ NeedsDeferred(Split(m, replay).pending) =>
              Split(m, replay).pending.waiting = {b.at : b \in ToSet(Calls(blocks))}
         /\ \A x \in Countable :
              Total(Split(m, replay), replay, x) =
                IF x.kind \in Spoken(replay, top) \cup {"tool_use"} THEN Times(blocks, x) ELSE 0
<1> DEFINE first == FirstCall(blocks)
           before == SubSeq(blocks, 1, first - 1)
           rest == SubSeq(blocks, first + 1, Len(blocks))
           behind == Without(rest, {"tool_use"})
           calls == Calls(blocks)
           u == [Assistant(before, top, replay) EXCEPT !.calls = calls]
           ats == {calls[i].at : i \in DOMAIN calls}
           left == IF behind = <<>> THEN NoPending ELSE [waiting |-> ats, blocks |-> behind, top |-> top]
<1>1. /\ before \in Lists /\ rest \in Lists /\ blocks[first].kind = "tool_use"
      /\ \A x \in Countable :
           Times(blocks, x) = Times(before, x) + (IF blocks[first] = x THEN 1 ELSE 0) + Times(rest, x)
  BY FirstCallFacts
<1>2. Split(m, replay).sent = <<u>> /\ Split(m, replay).pending = left
  BY DEF Split
<1>3. calls \in Lists /\ calls = OfKinds(blocks, {"tool_use"})
  BY KeptType DEF Calls
<1>4. behind \in Lists /\ behind = OfKinds(rest, AllKinds \ {"tool_use"})
  <2> HIDE DEF rest
  <2> QED BY <1>1, WithoutFacts
<1> HIDE DEF first, before, rest, behind, calls
<1>5. u \in Utterances
  <2>1. "tool_use" \in AllKinds
    BY DEF AllKinds, AssistantKinds
  <2>2. \E x : x \in Countable
    <3> DEFINE x == [NoBlock EXCEPT !.kind = "tool_use"]
    <3>1. x \in HistoryBlocks /\ x.kind = "tool_use"
      BY <2>1, NoBlockType DEF NoBlock, HistoryBlocks
    <3> HIDE DEF x
    <3> QED BY <3>1 DEF Countable
  <2> QED BY <1>1, <1>3, <2>2, AssistantTold
<1>6. ats \in SUBSET (Nat \X Nat) /\ ats = {b.at : b \in ToSet(calls)}
  <2>0. \A i \in DOMAIN calls : calls[i] \in HistoryBlocks
    BY <1>3 DEF Lists
  <2>1. \A i \in DOMAIN calls : calls[i].at \in Nat \X Nat
    BY <2>0 DEF HistoryBlocks
  <2> QED BY <2>1 DEF ToSet
<1> HIDE DEF ats, u
<1>7. /\ left \in Pendings /\ left.blocks = behind
      /\ left.blocks # <<>> => left.waiting = ats /\ left.top = top
  BY <1>4, <1>6, NoBlockType DEF NoPending, Pendings
<1> HIDE DEF left
<1>8. ASSUME NEW x \in Countable
      PROVE  Count(<<u>>, x) + Count(Deferred(left, replay), x) =
               IF x.kind \in Spoken(replay, top) \cup {"tool_use"} THEN Times(blocks, x) ELSE 0
  <2>1. /\ Count(<<u>>, x) = (IF x.kind \in Spoken(replay, top) THEN Times(before, x) ELSE 0) + Times(calls, x)
        /\ Times(before, x) \in Nat /\ Times(calls, x) \in Nat
    BY <1>1, <1>3, AssistantTold DEF u
  <2>2. Count(Deferred(left, replay), x) =
          IF x.kind \in Spoken(replay, top) THEN Times(behind, x) ELSE 0
    <3>1. Count(Deferred(left, replay), x) =
            IF x.kind \in Spoken(replay, left.top) THEN Times(left.blocks, x) ELSE 0
      BY <1>7, DeferredFacts
    <3>2. CASE left.blocks = <<>>
      BY <1>7, <3>1, <3>2, TimesOfNone
    <3>3. CASE left.blocks # <<>>
      BY <1>7, <3>1, <3>3
    <3> QED BY <3>2, <3>3
  <2>3. Times(calls, x) = IF x.kind = "tool_use" THEN Times(blocks, x) ELSE 0
    BY <1>3, TimesKept
  <2>4. Times(behind, x) = IF x.kind = "tool_use" THEN 0 ELSE Times(rest, x)
    <3>1. Times(behind, x) = IF x.kind \in AllKinds \ {"tool_use"} THEN Times(rest, x) ELSE 0
      BY <1>1, <1>4, TimesKept
    <3>2. x.kind \in AllKinds
      BY DEF Countable, HistoryBlocks
    <3> QED BY <3>1, <3>2
  <2>5. /\ Times(blocks, x) = Times(before, x) + (IF blocks[first] = x THEN 1 ELSE 0) + Times(rest, x)
        /\ Times(rest, x) \in Nat /\ Times(blocks, x) \in Nat
    BY <1>1, TimesConcat
  <2>6. "tool_use" \notin Spoken(replay, top)
    BY DEF Spoken, ThinkingKinds
  <2>7. CASE x.kind = "tool_use"
    BY <2>1, <2>2, <2>3, <2>5, <2>6, <2>7
  <2>8. CASE x.kind # "tool_use"
    <3>1. blocks[first] # x
      BY <1>1, <2>8
    <3> QED BY <2>1, <2>2, <2>3, <2>4, <2>5, <2>8, <3>1
  <2> QED BY <2>7, <2>8
<1>9. <<u>> \in Seq(Utterances)
  BY <1>5
<1> QED BY <1>2, <1>6, <1>7, <1>8, <1>9 DEF Total, NeedsDeferred, calls

-----------------------------------------------------------------------------
(* Messages of the user *)

LEMMA ChatFacts ==
  ASSUME NEW role \in {"user", "assistant", "tool"}, NEW words \in Lists, NEW reasoning \in Lists,
         NEW answers \in HistoryBlocks, NEW x \in Countable
  PROVE  LET u == Chat(role, words, reasoning, <<>>, answers) IN
         /\ u \in Utterances
         /\ Times(words, x) \in Nat /\ Times(reasoning, x) \in Nat
         /\ Count(<<u>>, x) = Times(words, x) + Times(reasoning, x) + IF answers = x THEN 1 ELSE 0
<1> DEFINE u == Chat(role, words, reasoning, <<>>, answers)
<1>1. /\ u \in Utterances /\ u.words = words /\ u.reasoning = reasoning /\ u.calls = <<>>
      /\ u.answers = answers
  BY NoBlockType DEF Chat, Utterances
<1> HIDE DEF u
<1>2. Times(<<>>, x) = 0
  BY TimesOfNone
<1>3. /\ {Times(u.words, x), Times(u.reasoning, x), Times(u.calls, x)} \subseteq Nat
      /\ Times(WhatItHolds(u), x) =
           Times(u.words, x) + Times(u.reasoning, x) + Times(u.calls, x)
             + IF u.answers = x THEN 1 ELSE 0
  BY <1>1, HoldsTimes
<1>4. Count(<<u>>, x) = Times(WhatItHolds(u), x)
  <2>1. <<>> \in Seq(Utterances)
    OBVIOUS
  <2> QED BY <1>1, <2>1, CountFacts
<1> QED BY <1>1, <1>2, <1>3, <1>4 DEF u

\* The states of the conversion of a user's blocks, and what one has told.
UserStates ==
  [sent : Seq(Utterances), text : Lists, pending : Pendings, cleared : BOOLEAN, mode : Modes]

Voiced(s, x) == Count(s.sent, x) + Times(s.text, x)

LEMMA FlushTextFacts ==
  ASSUME NEW s \in UserStates
  PROVE  /\ FlushText(s) \in UserStates
         /\ FlushText(s).text = <<>> /\ FlushText(s).pending = s.pending
         /\ FlushText(s).cleared = s.cleared /\ FlushText(s).mode = s.mode
         /\ \A x \in Countable : /\ Count(FlushText(s).sent, x) = Voiced(s, x)
                                 /\ Count(s.sent, x) \in Nat /\ Times(s.text, x) \in Nat
<1> DEFINE u == Chat("user", s.text, <<>>, <<>>, NoBlock)
           f == FlushText(s)
<1>1. /\ s.sent \in Seq(Utterances) /\ s.text \in Lists
  BY DEF UserStates
<1>2. ASSUME NEW x \in Countable
      PROVE  /\ u \in Utterances /\ Times(s.text, x) \in Nat /\ Count(s.sent, x) \in Nat
             /\ Count(Append(s.sent, u), x) = Count(s.sent, x) + Times(s.text, x)
  <2>1. x # NoBlock /\ Times(<<>>, x) = 0
    BY TimesOfNone DEF Countable, NoBlock
  <2>2. /\ u \in Utterances /\ Times(s.text, x) \in Nat
        /\ Count(<<u>>, x) = Times(s.text, x) + Times(<<>>, x) + IF NoBlock = x THEN 1 ELSE 0
    BY <1>1, NoBlockType, ChatFacts
  <2> HIDE DEF u
  <2>3. Count(s.sent, x) \in Nat /\ Count(Append(s.sent, u), x) = Count(s.sent, x) + Count(<<u>>, x)
    BY <1>1, <2>2, CountFacts
  <2> QED BY <2>1, <2>2, <2>3
<1>3. u \in Utterances
  BY <1>1, NoBlockType DEF Chat, Utterances
<1> HIDE DEF u
<1>4. CASE s.text = <<>>
  <2>1. f = s
    BY <1>4 DEF FlushText
  <2>2. \A x : Times(s.text, x) = 0
    BY <1>4, TimesOfNone
  <2>3. \A x \in Countable : Count(s.sent, x) + Times(s.text, x) = Count(s.sent, x)
    BY <1>2, <2>2
  <2> QED BY <1>2, <1>4, <2>1, <2>3 DEF Voiced
<1>5. CASE s.text # <<>>
  <2>1. f = [s EXCEPT !.sent = Append(s.sent, u), !.text = <<>>]
    BY <1>5 DEF FlushText, u
  <2>2. /\ f \in UserStates /\ f.sent = Append(s.sent, u) /\ f.text = <<>>
        /\ f.pending = s.pending /\ f.cleared = s.cleared /\ f.mode = s.mode
    <3>1. Append(s.sent, u) \in Seq(Utterances)
      BY <1>1, <1>3
    <3> HIDE DEF f
    <3> QED BY <2>1, <3>1, NoBlockType DEF UserStates
  <2> HIDE DEF f
  <2> QED BY <1>2, <2>2 DEF Voiced, f
<1> QED BY <1>4, <1>5

\* The last awaited result gives out what was deferred.
Completes(s, b) == NeedsDeferred(s.pending) /\ s.pending.waiting \ {b.of} = {}

LEMMA ResultFacts ==
  ASSUME NEW s \in UserStates, NEW b \in HistoryBlocks
  PROVE  /\ Result(s, b) \in UserStates /\ Result(s, b).mode = s.mode
         /\ Result(s, b).pending = [s.pending EXCEPT !.waiting = s.pending.waiting \ {b.of}]
         /\ Result(s, b).cleared <=> s.cleared \/ Completes(s, b)
         /\ \A x \in Countable :
              Voiced(Result(s, b), x) =
                Voiced(s, x) + (IF b = x THEN 1 ELSE 0)
                  + IF Completes(s, b) THEN Count(Deferred(s.pending, s.mode), x) ELSE 0
<1> DEFINE f == FlushText(s)
           r == Result(s, b)
           u == Chat("tool", <<>>, <<>>, <<>>, b)
           late == IF Completes(s, b) THEN Deferred(s.pending, s.mode) ELSE <<>>
           pending1 == [s.pending EXCEPT !.waiting = s.pending.waiting \ {b.of}]
<1>1. /\ f \in UserStates /\ f.text = <<>> /\ f.pending = s.pending
      /\ f.cleared = s.cleared /\ f.mode = s.mode
      /\ \A x \in Countable : /\ Count(f.sent, x) = Voiced(s, x)
                              /\ Count(s.sent, x) \in Nat /\ Times(s.text, x) \in Nat
  BY FlushTextFacts
<1>2. r = [f EXCEPT !.sent = Append(f.sent, u) \o late, !.pending.waiting = s.pending.waiting \ {b.of},
                    !.cleared = f.cleared \/ Completes(s, b)]
  BY <1>1 DEF Result, Completes
<1> HIDE DEF f, r
<1>3. s.pending \in Pendings /\ s.mode \in Modes /\ f.sent \in Seq(Utterances)
  BY <1>1 DEF UserStates
<1>4. late \in Seq(Utterances)
  <2>1. Deferred(s.pending, s.mode) \in Seq(Utterances) /\ <<>> \in Seq(Utterances)
    BY <1>3, DeferredFacts
  <2> QED BY <2>1
<1>5. pending1 \in Pendings
  BY <1>3 DEF Pendings
<1>6. u \in Utterances
  BY NoBlockType DEF Chat, Utterances
<1>7. Append(f.sent, u) \o late \in Seq(Utterances)
  <2> HIDE DEF u, late
  <2> QED BY <1>3, <1>4, <1>6
<1>8. /\ r \in UserStates /\ r.mode = s.mode /\ r.pending = pending1 /\ r.text = <<>>
      /\ (r.cleared <=> s.cleared \/ Completes(s, b)) /\ r.sent = Append(f.sent, u) \o late
  <2> DEFINE said == Append(f.sent, u) \o late
             last == Completes(s, b)
  <2>1. r = [f EXCEPT !.sent = said, !.pending = pending1, !.cleared = f.cleared \/ last]
    <3> HIDE DEF said, last
    <3> QED BY <1>1, <1>2 DEF UserStates, said, last
  <2>2. last \in BOOLEAN
    BY DEF Completes, NeedsDeferred
  <2> HIDE DEF said, last, pending1
  <2>3. said \in Seq(Utterances)
    BY <1>7 DEF said
  <2> QED BY <1>1, <1>5, <2>1, <2>2, <2>3 DEF UserStates, said, last
<1>9. ASSUME NEW x \in Countable
      PROVE  Voiced(r, x) = Voiced(s, x) + (IF b = x THEN 1 ELSE 0)
                              + IF Completes(s, b) THEN Count(Deferred(s.pending, s.mode), x) ELSE 0
  <2>1. Times(<<>>, x) = 0
    BY TimesOfNone
  <2>2. Count(<<u>>, x) = Times(<<>>, x) + Times(<<>>, x) + IF b = x THEN 1 ELSE 0
    BY NoBlockType, ChatFacts
  <2> DEFINE said == Append(f.sent, u)
  <2>3. said \in Seq(Utterances) /\ Count(said, x) = Count(f.sent, x) + Count(<<u>>, x)
    <3> HIDE DEF u
    <3> QED BY <1>3, <1>6, CountFacts
  <2>4. Count(late, x) = IF Completes(s, b) THEN Count(Deferred(s.pending, s.mode), x) ELSE 0
    <3>1. Count(<<>>, x) = 0
      BY <1>3, CountFacts
    <3> QED BY <3>1
  <2>5. Count(said \o late, x) = Count(said, x) + Count(late, x) /\ Count(late, x) \in Nat
    <3> HIDE DEF said, late
    <3> QED BY <1>4, <2>3, CountFacts
  <2>6. Voiced(r, x) = Count(said \o late, x) + 0
    BY <1>8, <2>1 DEF Voiced
  <2>7. Count(f.sent, x) = Voiced(s, x) /\ Voiced(s, x) \in Nat
    BY <1>1 DEF Voiced
  <2> HIDE DEF said, late, u
  <2> QED BY <2>1, <2>2, <2>3, <2>4, <2>5, <2>6, <2>7
<1> QED BY <1>8, <1>9 DEF r

\* A block of a user's message.
LEMMA UserBlockFacts ==
  ASSUME NEW s \in UserStates, NEW b \in HistoryBlocks
  PROVE  LET t == UserBlock(s, b)
             result == b.kind = "tool_result"
         IN  /\ t \in UserStates /\ t.mode = s.mode
             /\ t.pending = IF result THEN [s.pending EXCEPT !.waiting = s.pending.waiting \ {b.of}]
                            ELSE s.pending
             /\ t.cleared <=> s.cleared \/ (result /\ Completes(s, b))
             /\ \A x \in Countable :
                  Voiced(t, x) =
                    Voiced(s, x) + (IF b = x /\ b.kind \in {"text", "tool_result"} THEN 1 ELSE 0)
                      + IF result /\ Completes(s, b) THEN Count(Deferred(s.pending, s.mode), x) ELSE 0
<1> DEFINE t == UserBlock(s, b)
<1>1. CASE b.kind = "tool_result"
  <2>1. t = Result(s, b)
    BY <1>1 DEF UserBlock
  <2> HIDE DEF t
  <2> QED BY <1>1, <2>1, ResultFacts DEF t
<1>0. \A x \in Countable : Voiced(s, x) \in Nat
  <2>1. \A x \in Countable : Count(s.sent, x) \in Nat /\ Times(s.text, x) \in Nat
    BY FlushTextFacts
  <2> QED BY <2>1 DEF Voiced
<1>2. CASE b.kind = "text"
  <2>1. t = [s EXCEPT !.text = Append(s.text, b)]
    BY <1>2 DEF UserBlock
  <2>2. s.text \in Lists /\ Append(s.text, b) \in Lists
    BY DEF UserStates, Lists
  <2>3. /\ t \in UserStates /\ t.mode = s.mode /\ t.pending = s.pending /\ t.cleared = s.cleared
        /\ t.sent = s.sent /\ t.text = Append(s.text, b)
    <3> HIDE DEF t
    <3> QED BY <2>1, <2>2 DEF UserStates
  <2>4. ASSUME NEW x \in Countable PROVE Voiced(t, x) = Voiced(s, x) + IF b = x THEN 1 ELSE 0
    <3>1. Times(Append(s.text, b), x) = Times(s.text, x) + IF b = x THEN 1 ELSE 0
      BY <2>2, TimesLonger
    <3>2. Count(s.sent, x) \in Nat /\ Times(s.text, x) \in Nat
      BY FlushTextFacts
    <3> HIDE DEF t
    <3> QED BY <2>3, <3>1, <3>2 DEF Voiced
  <2> HIDE DEF t
  <2>5. \A x \in Countable :
          Voiced(t, x) =
            Voiced(s, x) + (IF b = x /\ b.kind \in {"text", "tool_result"} THEN 1 ELSE 0)
              + IF b.kind = "tool_result" /\ Completes(s, b)
                THEN Count(Deferred(s.pending, s.mode), x) ELSE 0
    BY <1>0, <1>2, <2>4
  <2> QED BY <1>2, <2>3, <2>5 DEF t
<1>3. CASE b.kind \notin {"text", "tool_result"}
  <2>1. t = s
    BY <1>3 DEF UserBlock
  <2> HIDE DEF t
  <2>2. \A x \in Countable :
          Voiced(t, x) =
            Voiced(s, x) + (IF b = x /\ b.kind \in {"text", "tool_result"} THEN 1 ELSE 0)
              + IF b.kind = "tool_result" /\ Completes(s, b)
                THEN Count(Deferred(s.pending, s.mode), x) ELSE 0
    BY <1>0, <1>3, <2>1
  <2> QED BY <1>3, <2>1, <2>2 DEF t
<1> QED BY <1>1, <1>2, <1>3

UserFold == INSTANCE FoldFacts WITH
  States <- UserStates, Elements <- HistoryBlocks, Op <- UserBlock

\* The calls that a user's blocks answer.
AnsweredBy(blocks) == {blocks[i].of : i \in {j \in DOMAIN blocks : blocks[j].kind = "tool_result"}}

\* Results of different calls that are awaited.
Awaited(blocks, p) ==
  /\ AnsweredBy(blocks) \subseteq p.waiting
  /\ \A i, j \in DOMAIN blocks :
       blocks[i].kind = "tool_result" /\ blocks[j].kind = "tool_result"
         /\ blocks[i].of = blocks[j].of => i = j

\* All blocks: the deferred ones are given out once, with the last result.
LEMMA UserBlocksFacts ==
  ASSUME NEW blocks \in Lists, NEW p \in Pendings, NEW replay \in Modes,
         NeedsDeferred(p) => Awaited(blocks, p)
  PROVE  LET s == UserBlocks(blocks, p, replay) IN
         /\ s \in UserStates
         /\ s.pending = [p EXCEPT !.waiting = p.waiting \ AnsweredBy(blocks)]
         /\ \A x \in Countable :
              Count(s.sent, x) =
                (IF x.kind \in {"text", "tool_result"} THEN Times(blocks, x) ELSE 0)
                  + IF s.cleared THEN Count(Deferred(p, replay), x) ELSE 0
<1> DEFINE base == [sent |-> <<>>, text |-> <<>>, pending |-> p, cleared |-> FALSE, mode |-> replay]
           n == Len(blocks)
           upTo(k) == SubSeq(blocks, 1, k)
           answered(k) == {blocks[i].of : i \in {j \in 1 .. k : blocks[j].kind = "tool_result"}}
           Plainly == {"text", "tool_result"}
<1>0. n \in Nat /\ DOMAIN blocks = 1 .. n /\ \A i \in 1 .. n : blocks[i] \in HistoryBlocks
  BY DEF Lists
<1>1. UserBlocks(blocks, p, replay) = FlushText(UserFold!Fold(base, blocks))
  BY DEF UserBlocks, UserBlock, FoldLeft, MapThenFoldSet, Max, UserFold!Fold, UserFold!Largest
<1>2. base \in UserStates
  <2>1. <<>> \in Seq(Utterances)
    OBVIOUS
  <2> QED BY <2>1, NoBlockType DEF UserStates
<1>3. \A s \in UserStates, b \in HistoryBlocks : UserBlock(s, b) \in UserStates
  BY UserBlockFacts
<1> HIDE DEF base
<1>4. PICK f \in [0 .. Len(blocks) -> UserStates] :
        /\ f[0] = base
        /\ \A i \in 1 .. Len(blocks) : f[i] = UserBlock(f[i - 1], blocks[i])
        /\ UserFold!Fold(base, blocks) = f[Len(blocks)]
  BY <1>2, <1>3, UserFold!FoldSteps DEF Lists
<1> DEFINE Good(s, k) ==
             /\ s.mode = replay
             /\ s.pending = [p EXCEPT !.waiting = p.waiting \ answered(k)]
             /\ s.cleared => NeedsDeferred(p) /\ p.waiting \ answered(k) = {}
             /\ \A x \in Countable :
                  Voiced(s, x) =
                    (IF x.kind \in Plainly THEN Times(upTo(k), x) ELSE 0)
                      + IF s.cleared THEN Count(Deferred(p, replay), x) ELSE 0
           A == {k \in 0 .. n : Good(f[k], k)}
<1>5. 0 \in A
  <2>1. upTo(0) = <<>> /\ answered(0) = {}
    BY <1>0 DEF Lists
  <2>2. p = [p EXCEPT !.waiting = p.waiting \ {}]
    BY DEF Pendings
  <2>3. base.mode = replay /\ base.pending = p /\ ~base.cleared
    BY DEF base
  <2>4. ASSUME NEW x \in Countable PROVE Voiced(base, x) = 0 /\ Times(<<>>, x) = 0
    <3>1. <<>> \in Seq(Utterances)
      OBVIOUS
    <3>2. Count(<<>>, x) = 0 /\ Times(<<>>, x) = 0
      BY <3>1, TimesOfNone, CountFacts
    <3> QED BY <3>2 DEF Voiced, base
  <2> HIDE DEF upTo, answered
  <2>5. Good(base, 0)
    BY <2>1, <2>2, <2>3, <2>4
  <2> QED BY <1>0, <1>4, <2>5
<1>6. ASSUME NEW k \in 0 .. n - 1, k \in A PROVE k + 1 \in A
  <2> DEFINE j == k + 1
             s == f[k]
             t == f[j]
             b == blocks[j]
             result == b.kind = "tool_result"
  <2>1. j \in 1 .. n /\ j - 1 = k /\ j \in 0 .. n /\ k \in 0 .. n
    BY <1>0
  <2>2. /\ s \in UserStates /\ b \in HistoryBlocks /\ t = UserBlock(s, b)
    <3> HIDE DEF j
    <3> QED BY <1>0, <1>4, <2>1
  <2>3. Good(s, k)
    BY <1>6
  <2>4. /\ upTo(j) = Append(upTo(k), b) /\ upTo(k) \in Lists
    BY <1>0, <2>1 DEF Lists
  <2>5. answered(j) = answered(k) \cup IF result THEN {b.of} ELSE {}
    <3>1. 1 .. j = (1 .. k) \cup {j}
      BY <2>1
    <3> HIDE DEF j
    <3> QED BY <3>1
  <2>6. ASSUME NeedsDeferred(p), result PROVE b.of \in p.waiting \ answered(k)
    <3>1. Awaited(blocks, p)
      BY <2>6
    <3>2. b.of \in p.waiting
      BY <1>0, <2>1, <2>6, <3>1 DEF Awaited, AnsweredBy
    <3>3. ASSUME NEW i \in 1 .. k, blocks[i].kind = "tool_result", blocks[i].of = b.of PROVE FALSE
      <4>1. i \in DOMAIN blocks /\ j \in DOMAIN blocks /\ i # j
        BY <1>0, <2>1
      <4> HIDE DEF j
      <4> QED BY <2>6, <3>1, <3>3, <4>1 DEF Awaited
    <3> QED BY <3>2, <3>3
  <2> HIDE DEF j, s, t, b, upTo, answered
  <2>7. /\ t \in UserStates /\ t.mode = s.mode
        /\ t.pending = IF result THEN [s.pending EXCEPT !.waiting = s.pending.waiting \ {b.of}]
                       ELSE s.pending
        /\ t.cleared <=> s.cleared \/ (result /\ Completes(s, b))
        /\ \A x \in Countable :
             Voiced(t, x) =
               Voiced(s, x) + (IF b = x /\ b.kind \in {"text", "tool_result"} THEN 1 ELSE 0)
                 + IF result /\ Completes(s, b) THEN Count(Deferred(s.pending, s.mode), x) ELSE 0
    BY <2>2, UserBlockFacts
  <2>8. /\ s.mode = replay /\ s.pending = [p EXCEPT !.waiting = p.waiting \ answered(k)]
        /\ s.cleared => NeedsDeferred(p) /\ p.waiting \ answered(k) = {}
        /\ s.pending.waiting = p.waiting \ answered(k)
        /\ s.pending.blocks = p.blocks /\ s.pending.top = p.top
    BY <2>3 DEF Pendings
  <2>9. t.pending = [p EXCEPT !.waiting = p.waiting \ answered(j)]
    <3>1. CASE result
      <4>1. (p.waiting \ answered(k)) \ {b.of} = p.waiting \ answered(j)
        BY <2>5, <3>1
      <4> QED BY <2>7, <2>8, <3>1, <4>1 DEF Pendings
    <3>2. CASE ~result
      <4>1. answered(j) = answered(k)
        BY <2>5, <3>2
      <4> QED BY <2>7, <2>8, <3>2, <4>1
    <3> QED BY <3>1, <3>2
  <2>10. Completes(s, b) <=> NeedsDeferred(p) /\ (p.waiting \ answered(k)) \ {b.of} = {}
    BY <2>8 DEF Completes, NeedsDeferred
  <2>11. Deferred(s.pending, s.mode) = Deferred(p, replay)
    BY <2>8 DEF Deferred, NeedsDeferred
  <2>12. s.cleared => ~result
    BY <2>6, <2>8
  <2>13. t.cleared => NeedsDeferred(p) /\ p.waiting \ answered(j) = {}
    BY <2>5, <2>7, <2>8, <2>10
  <2>14. ASSUME NEW x \in Countable
         PROVE  Voiced(t, x) = (IF x.kind \in Plainly THEN Times(upTo(j), x) ELSE 0)
                                 + IF t.cleared THEN Count(Deferred(p, replay), x) ELSE 0
    <3> DEFINE d == Count(Deferred(p, replay), x)
    <3>1. d \in Nat
      BY DeferredFacts
    <3>2. /\ Times(upTo(j), x) = Times(upTo(k), x) + IF b = x THEN 1 ELSE 0
          /\ Times(upTo(k), x) \in Nat
      BY <2>2, <2>4, TimesLonger
    <3>3. Voiced(s, x) = (IF x.kind \in Plainly THEN Times(upTo(k), x) ELSE 0)
                           + IF s.cleared THEN d ELSE 0
      BY <2>3
    <3>4. Voiced(t, x) =
            Voiced(s, x) + (IF b = x /\ b.kind \in Plainly THEN 1 ELSE 0)
              + IF result /\ Completes(s, b) THEN d ELSE 0
      BY <2>7, <2>11
    <3>5. (IF s.cleared THEN d ELSE 0) + (IF result /\ Completes(s, b) THEN d ELSE 0)
            = IF t.cleared THEN d ELSE 0
      <4>1. t.cleared <=> s.cleared \/ (result /\ Completes(s, b))
        BY <2>7
      <4> HIDE DEF d, result
      <4> QED BY <2>12, <3>1, <4>1
    <3>6. (IF x.kind \in Plainly THEN Times(upTo(k), x) ELSE 0)
            + (IF b = x /\ b.kind \in Plainly THEN 1 ELSE 0)
            = IF x.kind \in Plainly THEN Times(upTo(j), x) ELSE 0
      <4> HIDE DEF Plainly
      <4> QED BY <3>2
    <3> HIDE DEF d, result, Plainly
    <3> DEFINE v == IF x.kind \in Plainly THEN Times(upTo(k), x) ELSE 0
               w == IF s.cleared THEN d ELSE 0
               y == IF b = x /\ b.kind \in Plainly THEN 1 ELSE 0
               z == IF result /\ Completes(s, b) THEN d ELSE 0
    <3>7. v \in Nat /\ w \in Nat /\ y \in Nat /\ z \in Nat
      BY <3>1, <3>2
    <3>8. Voiced(t, x) = (v + w) + y + z
      BY <3>3, <3>4
    <3> HIDE DEF v, w, y, z
    <3>9. Voiced(t, x) = (v + y) + (w + z)
      BY <3>7, <3>8
    <3> QED BY <3>5, <3>6, <3>9 DEF d, v, w, y, z
  <2>15. Good(t, j)
    BY <2>7, <2>8, <2>9, <2>13, <2>14
  <2> HIDE DEF Good
  <2> QED BY <2>1, <2>15 DEF t, j
<1>7. n \in A
  <2> HIDE DEF A, n
  <2>1. \A k \in 0 .. n - 1 : k \in A => k + 1 \in A
    BY <1>6
  <2>2. 0 .. n \subseteq A
    BY ONLY <1>0, <1>5, <2>1, UserFold!Counting
  <2> QED BY <1>0, <2>2
<1> DEFINE s == f[n]
<1>8. s \in UserStates /\ Good(s, n) /\ UserBlocks(blocks, p, replay) = FlushText(s)
  <2> HIDE DEF Good
  <2> QED BY <1>0, <1>1, <1>4, <1>7
<1>9. upTo(n) = blocks /\ answered(n) = AnsweredBy(blocks)
  BY <1>0 DEF AnsweredBy, Lists
<1> HIDE DEF s, upTo, answered
<1>10. /\ FlushText(s) \in UserStates /\ FlushText(s).pending = s.pending
       /\ FlushText(s).cleared = s.cleared
       /\ \A x \in Countable : Count(FlushText(s).sent, x) = Voiced(s, x)
  BY <1>8, FlushTextFacts
<1> QED BY <1>8, <1>9, <1>10

-----------------------------------------------------------------------------
(* Messages of a history *)

\* What is pending, given out or not yet, is counted the same.
LEMMA GiveUpFacts ==
  ASSUME NEW c \in Converters, NEW replay \in Modes
  PROVE  /\ GiveUpWaiting(c, replay) \in Converters
         /\ GiveUpWaiting(c, replay).pending = NoPending
         /\ \A x \in Countable :
              /\ Total(c, replay, x) \in Nat
              /\ Total(GiveUpWaiting(c, replay), replay, x) = Total(c, replay, x)
              /\ Count(GiveUpWaiting(c, replay).sent, x) = Total(c, replay, x)
<1> DEFINE g == GiveUpWaiting(c, replay)
           late == Deferred(c.pending, replay)
<1>1. g.sent = c.sent \o late /\ g.pending = NoPending /\ g = [sent |-> g.sent, pending |-> NoPending]
  BY DEF GiveUpWaiting
<1>2. c.sent \in Seq(Utterances) /\ c.pending \in Pendings
  BY DEF Converters
<1>3. late \in Seq(Utterances)
  BY <1>2, DeferredFacts
<1>4. NoPending \in Pendings
  BY NoBlockType DEF NoPending, Pendings
<1>5. Deferred(NoPending, replay) = <<>>
  BY DEF Deferred, NeedsDeferred, NoPending
<1> HIDE DEF g, late
<1>6. c.sent \o late \in Seq(Utterances) /\ g \in Converters
  <2>1. c.sent \o late \in Seq(Utterances)
    BY <1>2, <1>3
  <2> QED BY <1>1, <1>4, <2>1 DEF Converters
<1>7. ASSUME NEW x \in Countable
      PROVE  /\ Total(c, replay, x) \in Nat
             /\ Total(g, replay, x) = Total(c, replay, x)
             /\ Count(g.sent, x) = Total(c, replay, x)
  <2>1. /\ Count(c.sent, x) \in Nat /\ Count(<<>>, x) = 0
        /\ Count(c.sent \o late, x) = Count(c.sent, x) + Count(late, x)
    BY <1>2, <1>3, CountFacts
  <2>2. Count(late, x) \in Nat
    BY <1>2, DeferredFacts DEF late
  <2> QED BY <1>1, <1>5, <2>1, <2>2 DEF Total, late
<1> QED BY <1>1, <1>6, <1>7 DEF g

\* A message told at once, before what is pending.
LEMMA AppendTold ==
  ASSUME NEW c \in Converters, NEW replay \in Modes, NEW u \in Utterances
  PROVE  LET d == [c EXCEPT !.sent = Append(@, u)] IN
         /\ d \in Converters /\ d.pending = c.pending
         /\ \A x \in Countable :
              /\ Total(d, replay, x) = Total(c, replay, x) + Count(<<u>>, x)
              /\ Total(c, replay, x) \in Nat /\ Count(<<u>>, x) \in Nat
<1> DEFINE d == [c EXCEPT !.sent = Append(@, u)]
<1>1. c.sent \in Seq(Utterances) /\ c.pending \in Pendings
  BY DEF Converters
<1>2. d \in Converters /\ d.pending = c.pending /\ d.sent = Append(c.sent, u)
  <2>1. Append(c.sent, u) \in Seq(Utterances)
    BY <1>1
  <2> QED BY <2>1 DEF Converters
<1> HIDE DEF d
<1>3. ASSUME NEW x \in Countable
      PROVE  /\ Total(d, replay, x) = Total(c, replay, x) + Count(<<u>>, x)
             /\ Total(c, replay, x) \in Nat /\ Count(<<u>>, x) \in Nat
  <2>1. /\ Count(c.sent, x) \in Nat /\ Count(<<u>>, x) \in Nat
        /\ Count(Append(c.sent, u), x) = Count(c.sent, x) + Count(<<u>>, x)
    BY <1>1, CountFacts
  <2>2. Count(Deferred(c.pending, replay), x) \in Nat
    BY <1>1, DeferredFacts
  <2> QED BY <1>2, <2>1, <2>2 DEF Total
<1> QED BY <1>2, <1>3 DEF d

\* What a message of a history adds to what the chat tells.
Adds(m, replay, x) == IF x.kind \in Sends(m, replay) THEN Times(m.blocks, x) ELSE 0

LEMMA PlainFacts ==
  ASSUME NEW c \in Converters, NEW m \in SaidMessages, m.plain, m.top \in Tops, NEW replay \in Modes
  PROVE  /\ Plain(c, m, replay) \in Converters
         /\ m.role = "user" => ~NeedsDeferred(Plain(c, m, replay).pending)
         /\ \A x \in Countable :
              Total(Plain(c, m, replay), replay, x) = Total(c, replay, x) + Adds(m, replay, x)
<1> DEFINE d == IF m.role = "user" THEN GiveUpWaiting(c, replay) ELSE c
           u == PlainMessage(m, replay)
           words == IF m.role # "user" /\ replay = "think_tags" THEN m.top \o m.blocks ELSE m.blocks
           reasoning == IF m.role # "user" /\ replay = "reasoning_content" THEN m.top ELSE <<>>
           role == IF m.role = "user" THEN "user" ELSE "assistant"
<1>1. /\ d \in Converters /\ (m.role = "user" => d.pending = NoPending)
      /\ \A x \in Countable : Total(d, replay, x) = Total(c, replay, x)
  BY GiveUpFacts
<1>2. m.blocks \in Lists /\ m.top \in Lists /\ \A i \in DOMAIN m.blocks : m.blocks[i].kind = "text"
  BY DEF SaidMessages
<1>3. u = Chat(role, words, reasoning, <<>>, NoBlock)
  <2>1. <<>> \o m.blocks = m.blocks
    BY <1>2 DEF Lists
  <2> QED BY <2>1 DEF PlainMessage
<1>4. words \in Lists /\ reasoning \in Lists /\ role \in {"user", "assistant", "tool"}
  <2>1. m.top \o m.blocks \in Lists
    BY <1>2 DEF Lists
  <2> QED BY <1>2, <2>1, NoBlockType
<1>5. ASSUME NEW x \in Countable
      PROVE  u \in Utterances /\ Count(<<u>>, x) = Adds(m, replay, x)
  <2>1. x # NoBlock /\ Times(<<>>, x) = 0 /\ Times(m.top, x) = 0
    BY TimesOfNone, TopUncounted DEF Countable, NoBlock
  <2>2. /\ Times(m.blocks, x) \in Nat
        /\ Times(m.top \o m.blocks, x) = Times(m.top, x) + Times(m.blocks, x)
    BY <1>2, TimesConcat
  <2>3. Times(words, x) = Times(m.blocks, x) /\ Times(reasoning, x) = 0
    BY <2>1, <2>2
  <2>4. /\ u \in Utterances
        /\ Count(<<u>>, x) = Times(words, x) + Times(reasoning, x) + IF NoBlock = x THEN 1 ELSE 0
    <3> HIDE DEF words, reasoning, role, u
    <3> QED BY <1>3, <1>4, NoBlockType, ChatFacts
  <2>5. x.kind # "text" => Times(m.blocks, x) = 0
    <3>1. x.kind # "text" => ~HasKind(m.blocks, {x.kind})
      BY <1>2 DEF HasKind
    <3> QED BY <1>2, <3>1, TimesOther
  <2>6. "text" \in Sends(m, replay)
    BY DEF Sends, Spoken
  <2>7. Adds(m, replay, x) = Times(m.blocks, x)
    BY <2>5, <2>6 DEF Adds
  <2> HIDE DEF words, reasoning, u
  <2> QED BY <2>1, <2>2, <2>3, <2>4, <2>7
<1>6. u \in Utterances
  <2> HIDE DEF words, reasoning, role, u
  <2> QED BY <1>3, <1>4, NoBlockType DEF Chat, Utterances
<1>7. Plain(c, m, replay) = [d EXCEPT !.sent = Append(@, u)]
  BY DEF Plain
<1> HIDE DEF d, u
<1> DEFINE e == [d EXCEPT !.sent = Append(@, u)]
<1>8. /\ e \in Converters /\ e.pending = d.pending
      /\ \A x \in Countable : Total(e, replay, x) = Total(d, replay, x) + Count(<<u>>, x)
  BY <1>1, <1>6, AppendTold
<1>9. Plain(c, m, replay) = e
  BY <1>7
<1> HIDE DEF e
<1>10. ~NeedsDeferred(NoPending)
  BY DEF NeedsDeferred, NoPending
<1>11. m.role = "user" => e.pending = NoPending
  BY <1>1, <1>8
<1>12. \A x \in Countable : Total(e, replay, x) = Total(c, replay, x) + Adds(m, replay, x)
  BY <1>1, <1>5, <1>8
<1> QED BY <1>8, <1>9, <1>10, <1>11, <1>12

LEMMA AssistantBlocksFacts ==
  ASSUME NEW c \in Converters, NEW m \in SaidMessages, m.role = "assistant", m.top \in Tops,
         NEW replay \in Modes
  PROVE  LET d == AssistantBlocks(c, m, replay) IN
         /\ d \in Converters
         /\ NeedsDeferred(d.pending) => d.pending.waiting = {b.at : b \in ToSet(Calls(m.blocks))}
         /\ \A x \in Countable : Total(d, replay, x) = Total(c, replay, x) + Adds(m, replay, x)
<1> DEFINE g == GiveUpWaiting(c, replay)
           d == AssistantBlocks(c, m, replay)
<1>1. /\ g \in Converters /\ g.pending = NoPending
      /\ \A x \in Countable : /\ Total(c, replay, x) \in Nat
                              /\ Total(g, replay, x) = Total(c, replay, x)
                              /\ Count(g.sent, x) = Total(c, replay, x)
  BY GiveUpFacts
<1>2. m.blocks \in Lists
  BY DEF SaidMessages
<1>3. \A x : Adds(m, replay, x) =
               IF x.kind \in Spoken(replay, m.top) \cup {"tool_use"} THEN Times(m.blocks, x) ELSE 0
  BY DEF Adds, Sends
<1>4. CASE FirstCall(m.blocks) = 0
  <2> DEFINE u == Assistant(m.blocks, m.top, replay)
  <2>1. ~HasKind(m.blocks, {"tool_use"})
    BY <1>2, <1>4, FirstCallFacts
  <2>2. u \in Utterances /\ u.calls = <<>>
    BY <1>2, AssistantFacts
  <2>3. u = [u EXCEPT !.calls = <<>>]
    <3> HIDE DEF u
    <3> QED BY <2>2 DEF Utterances
  <2>4. d = [g EXCEPT !.sent = Append(@, u)]
    BY <1>4 DEF AssistantBlocks
  <2>5. ASSUME NEW x \in Countable PROVE Count(<<u>>, x) = Adds(m, replay, x)
    <3>1. Times(<<>>, x) = 0
      BY TimesOfNone
    <3>2. /\ Count(<<[u EXCEPT !.calls = <<>>]>>, x) =
               (IF x.kind \in Spoken(replay, m.top) THEN Times(m.blocks, x) ELSE 0) + Times(<<>>, x)
          /\ Times(m.blocks, x) \in Nat
      BY <1>2, NoBlockType, AssistantTold
    <3>3. x.kind = "tool_use" => Times(m.blocks, x) = 0
      BY <1>2, <2>1, TimesOther
    <3>4. <<[u EXCEPT !.calls = <<>>]>> = <<u>>
      BY <2>3
    <3> HIDE DEF u
    <3> QED BY <1>3, <3>1, <3>2, <3>3, <3>4
  <2> HIDE DEF g, u, d
  <2>6. LET e == [g EXCEPT !.sent = Append(@, u)] IN
        /\ e \in Converters /\ e.pending = g.pending
        /\ \A x \in Countable : Total(e, replay, x) = Total(g, replay, x) + Count(<<u>>, x)
    BY <1>1, <2>2, AppendTold
  <2>7. ~NeedsDeferred(NoPending)
    BY DEF NeedsDeferred, NoPending
  <2> QED BY <1>1, <2>4, <2>5, <2>6, <2>7 DEF d
<1>5. CASE FirstCall(m.blocks) # 0
  <2> DEFINE s == Split(m, replay)
  <2>1. /\ s.sent \in Seq(Utterances) /\ s.pending \in Pendings
        /\ NeedsDeferred(s.pending) => s.pending.waiting = {b.at : b \in ToSet(Calls(m.blocks))}
        /\ \A x \in Countable :
             Total(s, replay, x) =
               IF x.kind \in Spoken(replay, m.top) \cup {"tool_use"} THEN Times(m.blocks, x) ELSE 0
    BY <1>2, <1>5, SplitFacts
  <2>2. d = [sent |-> g.sent \o s.sent, pending |-> s.pending]
    BY <1>5 DEF AssistantBlocks
  <2> HIDE DEF g, s, d
  <2>3. g.sent \in Seq(Utterances)
    BY <1>1 DEF Converters
  <2>4. d \in Converters /\ d.pending = s.pending /\ d.sent = g.sent \o s.sent
    <3>1. g.sent \o s.sent \in Seq(Utterances)
      BY <2>1, <2>3
    <3> QED BY <2>1, <2>2, <3>1 DEF Converters
  <2>5. ASSUME NEW x \in Countable PROVE Total(d, replay, x) = Total(c, replay, x) + Adds(m, replay, x)
    <3>1. /\ Count(g.sent \o s.sent, x) = Count(g.sent, x) + Count(s.sent, x)
          /\ Count(g.sent, x) \in Nat
      BY <2>1, <2>3, CountFacts
    <3>2. Count(s.sent, x) \in Nat
      BY <2>1, CountFacts
    <3>3. Count(Deferred(s.pending, replay), x) \in Nat
      BY <2>1, DeferredFacts
    <3>4. Total(s, replay, x) = Adds(m, replay, x)
      BY <1>3, <2>1
    <3> QED BY <1>1, <2>4, <3>1, <3>2, <3>3, <3>4 DEF Total
  <2> QED BY <2>1, <2>4, <2>5 DEF d
<1> QED BY <1>4, <1>5

LEMMA UserListFacts ==
  ASSUME NEW c \in Converters, NEW m \in SaidMessages, m.role = "user", NEW replay \in Modes,
         NeedsDeferred(c.pending) => Awaited(m.blocks, c.pending)
  PROVE  LET d == UserList(c, m, replay) IN
         /\ d \in Converters
         /\ NeedsDeferred(d.pending) =>
              /\ NeedsDeferred(c.pending)
              /\ d.pending.waiting = c.pending.waiting \ AnsweredBy(m.blocks)
         /\ \A x \in Countable : Total(d, replay, x) = Total(c, replay, x) + Adds(m, replay, x)
<1> DEFINE s == UserBlocks(m.blocks, c.pending, replay)
           d == UserList(c, m, replay)
           p == c.pending
<1>1. m.blocks \in Lists /\ c.sent \in Seq(Utterances) /\ p \in Pendings
  BY DEF SaidMessages, Converters
<1>2. /\ s \in UserStates
      /\ s.pending = [p EXCEPT !.waiting = p.waiting \ AnsweredBy(m.blocks)]
      /\ \A x \in Countable :
           Count(s.sent, x) =
             (IF x.kind \in {"text", "tool_result"} THEN Times(m.blocks, x) ELSE 0)
               + IF s.cleared THEN Count(Deferred(p, replay), x) ELSE 0
  BY <1>1, UserBlocksFacts
<1>3. d = [sent |-> c.sent \o s.sent, pending |-> IF s.cleared THEN NoPending ELSE s.pending]
  BY DEF UserList
<1> HIDE DEF s, d
<1>4. s.sent \in Seq(Utterances) /\ s.pending \in Pendings /\ s.cleared \in BOOLEAN
  BY <1>2 DEF UserStates
<1>5. /\ s.pending.waiting = p.waiting \ AnsweredBy(m.blocks)
      /\ s.pending.blocks = p.blocks /\ s.pending.top = p.top
  BY <1>1, <1>2 DEF Pendings
<1>6. d \in Converters
  <2>1. c.sent \o s.sent \in Seq(Utterances)
    BY <1>1, <1>4
  <2>2. NoPending \in Pendings
    BY NoBlockType DEF NoPending, Pendings
  <2> QED BY <1>3, <1>4, <2>1, <2>2 DEF Converters
<1>7. NeedsDeferred(d.pending) =>
        /\ NeedsDeferred(p) /\ d.pending.waiting = p.waiting \ AnsweredBy(m.blocks)
  <2>1. ~NeedsDeferred(NoPending)
    BY DEF NeedsDeferred, NoPending
  <2> QED BY <1>3, <1>4, <1>5, <2>1 DEF NeedsDeferred
<1>8. ASSUME NEW x \in Countable PROVE Total(d, replay, x) = Total(c, replay, x) + Adds(m, replay, x)
  <2>1. /\ Count(c.sent \o s.sent, x) = Count(c.sent, x) + Count(s.sent, x)
        /\ Count(c.sent, x) \in Nat /\ Count(<<>>, x) = 0
    BY <1>1, <1>4, CountFacts
  <2>2. Count(Deferred(p, replay), x) \in Nat /\ Times(m.blocks, x) \in Nat
    BY <1>1, DeferredFacts, TimesConcat
  <2>3. Deferred(d.pending, replay) = IF s.cleared THEN <<>> ELSE Deferred(p, replay)
    BY <1>3, <1>4, <1>5 DEF Deferred, NeedsDeferred, NoPending
  <2>4. Count(s.sent, x) = Adds(m, replay, x) + IF s.cleared THEN Count(Deferred(p, replay), x) ELSE 0
    BY <1>2 DEF Adds, Sends
  <2>5. Adds(m, replay, x) \in Nat
    BY <2>2 DEF Adds
  <2>6. d.sent = c.sent \o s.sent
    BY <1>3
  <2>7. CASE s.cleared
    BY <2>1, <2>2, <2>3, <2>4, <2>5, <2>6, <2>7 DEF Total
  <2>8. CASE ~s.cleared
    BY <2>1, <2>2, <2>3, <2>4, <2>5, <2>6, <2>8 DEF Total
  <2> QED BY <2>7, <2>8
<1> QED BY <1>6, <1>7, <1>8 DEF d, p

\* The next message, whoever says it.
LEMMA ConvertedFacts ==
  ASSUME NEW c \in Converters, NEW m \in SaidMessages, m.top \in Tops, NEW replay \in Modes,
         m.role = "user" /\ NeedsDeferred(c.pending) => Awaited(m.blocks, c.pending)
  PROVE  LET d == Converted(c, m, replay) IN
         /\ d \in Converters
         /\ \A x \in Countable : Total(d, replay, x) = Total(c, replay, x) + Adds(m, replay, x)
         /\ NeedsDeferred(d.pending) =>
              IF m.role = "user"
              THEN /\ NeedsDeferred(c.pending)
                   /\ d.pending.waiting = c.pending.waiting \ AnsweredBy(m.blocks)
              ELSE m.plain \/ d.pending.waiting = {b.at : b \in ToSet(Calls(m.blocks))}
<1> DEFINE d == Converted(c, m, replay)
<1>0. m.role \in {"user", "assistant"} /\ m.plain \in BOOLEAN
  BY DEF SaidMessages
<1>1. CASE m.plain
  <2>1. d = Plain(c, m, replay)
    BY <1>1 DEF Converted
  <2> HIDE DEF d
  <2> QED BY <1>1, <2>1, PlainFacts DEF d
<1>2. CASE ~m.plain /\ m.role = "user"
  <2>1. d = UserList(c, m, replay)
    BY <1>2 DEF Converted
  <2> HIDE DEF d
  <2> QED BY <1>2, <2>1, UserListFacts DEF d
<1>3. CASE ~m.plain /\ m.role = "assistant"
  <2>1. d = AssistantBlocks(c, m, replay)
    BY <1>3 DEF Converted
  <2> HIDE DEF d
  <2> QED BY <1>3, <2>1, AssistantBlocksFacts DEF d
<1> QED BY <1>0, <1>1, <1>2, <1>3

-----------------------------------------------------------------------------
(* The calls without a result *)

LEMMA FlatMembers ==
  ASSUME NEW ms \in Seq(SaidMessages)
  PROVE  \A x : x \in ToSet(Flat(ms)) <=> \E i \in DOMAIN ms : x \in ToSet(ms[i].blocks)
<1> DEFINE parts == [i \in DOMAIN ms |-> ms[i].blocks]
<1>1. DOMAIN ms = 1 .. Len(ms) /\ Len(ms) \in Nat /\ \A i \in 1 .. Len(ms) : ms[i].blocks \in Lists
  <2>1. \A i \in 1 .. Len(ms) : ms[i] \in SaidMessages
    OBVIOUS
  <2> QED BY <2>1 DEF SaidMessages
<1>2. parts = [i \in 1 .. Len(ms) |-> ms[i].blocks]
  BY <1>1
<1>3. parts \in Seq(Lists) /\ Len(parts) = Len(ms) /\ \A i \in 1 .. Len(ms) : parts[i] = ms[i].blocks
  BY <1>1, <1>2
<1>4. Flat(ms) = FlattenSeq(parts)
  BY DEF Flat
<1> HIDE DEF parts
<1> QED BY <1>1, <1>3, <1>4, FlattenMembers

\* Unanswered, of any history.
Speaker(h) == SelectLastInSeq(h, LAMBDA x : x.role = "assistant")
OpenCalls(h) ==
  IF Speaker(h) = 0 THEN {}
  ELSE {b.at : b \in ToSet(Calls(h[Speaker(h)].blocks))} \ {b.of : b \in ToSet(Flat(h))}

LEMMA UnansweredIsOpen == Unanswered = OpenCalls(history)
<1>1. {AllBlocks[i].of : i \in DOMAIN AllBlocks} = {b.of : b \in ToSet(AllBlocks)}
  BY DEF ToSet
<1> QED BY <1>1 DEF Unanswered, OpenCalls, Speaker, AllBlocks

\* The last message of the assistant.
LEMMA SpeakerFacts ==
  ASSUME NEW h \in Seq(SaidMessages), NEW m \in SaidMessages
  PROVE  /\ Speaker(h) \in 0 .. Len(h)
         /\ Speaker(Append(h, m)) = IF m.role = "assistant" THEN Len(h) + 1 ELSE Speaker(h)
<1> DEFINE n == Len(h)
           g == Append(h, m)
           I == {i \in 1 .. n : h[i].role = "assistant"}
           J == {i \in 1 .. Len(g) : g[i].role = "assistant"}
<1>1. /\ n \in Nat /\ Len(g) = n + 1 /\ g[n + 1] = m /\ \A i \in 1 .. n : g[i] = h[i]
  OBVIOUS
<1>2. /\ Speaker(h) = IF I # {} THEN Listing!Largest(I) ELSE 0
      /\ Speaker(g) = IF J # {} THEN Listing!Largest(J) ELSE 0
  BY DEF Speaker, SelectLastInSeq, Max, Listing!Largest
<1>3. J = I \cup IF m.role = "assistant" THEN {n + 1} ELSE {}
  <2> HIDE DEF g, n
  <2>1. 1 .. n + 1 = (1 .. n) \cup {n + 1} /\ n + 1 \notin 1 .. n
    BY <1>1
  <2> QED BY <1>1, <2>1 DEF n
<1>4. I \in SUBSET (1 .. n) /\ J \in SUBSET (1 .. n + 1) /\ n + 1 \in Nat
  BY <1>1
<1> HIDE DEF I, J, g, n
<1>5. I # {} => Listing!Largest(I) \in I
  BY <1>1, <1>4, Listing!MaxFacts
<1>6. Speaker(h) \in 0 .. n
  <2>1. CASE I # {}
    <3>1. Listing!Largest(I) \in 1 .. n
      BY <1>4, <1>5, <2>1
    <3>2. Speaker(h) = Listing!Largest(I)
      BY ONLY <1>2, <2>1
    <3> QED BY ONLY <1>1, <3>1, <3>2
  <2>2. CASE I = {}
    <3>1. Speaker(h) = 0
      BY ONLY <1>2, <2>2
    <3> QED BY <1>1, <3>1
  <2> QED BY <2>1, <2>2
<1>7. m.role = "assistant" => Speaker(g) = n + 1
  <2> SUFFICES ASSUME m.role = "assistant" PROVE Speaker(g) = n + 1
    OBVIOUS
  <2>1. n + 1 \in J /\ J # {}
    BY <1>3
  <2>2. Listing!Largest(J) \in J /\ n + 1 <= Listing!Largest(J)
    BY <1>4, <2>1, Listing!MaxFacts
  <2>3. Listing!Largest(J) \in 1 .. n + 1
    BY <1>4, <2>2
  <2>4. Speaker(g) = Listing!Largest(J)
    BY ONLY <1>2, <2>1
  <2> QED BY ONLY <1>1, <2>2, <2>3, <2>4
<1>8. m.role # "assistant" => J = I
  BY <1>3
<1> QED BY <1>2, <1>6, <1>7, <1>8 DEF g, n

LEMMA OpenCallsNext ==
  ASSUME NEW h \in Seq(SaidMessages), NEW m \in SaidMessages
  PROVE  OpenCalls(Append(h, m)) \subseteq
           IF m.role = "assistant" THEN {b.at : b \in ToSet(Calls(m.blocks))}
           ELSE OpenCalls(h) \ AnsweredBy(m.blocks)
<1> DEFINE g == Append(h, m)
           n == Len(h)
<1>1. /\ g \in Seq(SaidMessages) /\ n \in Nat /\ DOMAIN h = 1 .. n /\ DOMAIN g = 1 .. n + 1
      /\ g[n + 1] = m /\ \A i \in 1 .. n : g[i] = h[i]
  OBVIOUS
<1>2. /\ Speaker(h) \in 0 .. n
      /\ Speaker(g) = IF m.role = "assistant" THEN n + 1 ELSE Speaker(h)
  BY SpeakerFacts
<1> HIDE DEF g, n
<1>3. CASE m.role = "assistant"
  <2>1. Speaker(g) = n + 1 /\ n + 1 # 0
    BY <1>1, <1>2, <1>3
  <2> QED BY <1>1, <1>3, <2>1 DEF OpenCalls, g
<1>4. CASE m.role # "assistant"
  <2>1. Speaker(g) = Speaker(h)
    BY <1>2, <1>4
  <2>2. Speaker(h) # 0 => g[Speaker(h)] = h[Speaker(h)]
    BY <1>1, <1>2
  <2>3. ASSUME NEW b \in ToSet(Flat(h)) PROVE b \in ToSet(Flat(g))
    <3>1. PICK i \in 1 .. n : b \in ToSet(h[i].blocks)
      BY <1>1, <2>3, FlatMembers
    <3>2. i \in 1 .. n + 1 /\ g[i] = h[i]
      BY <1>1
    <3> QED BY <1>1, <3>1, <3>2, FlatMembers
  <2>4. ASSUME NEW b \in ToSet(m.blocks) PROVE b \in ToSet(Flat(g))
    <3>1. n + 1 \in 1 .. n + 1
      BY <1>1
    <3> QED BY <1>1, <2>4, <3>1, FlatMembers
  <2>5. AnsweredBy(m.blocks) \subseteq {b.of : b \in ToSet(Flat(g))}
    <3>1. AnsweredBy(m.blocks) \subseteq {b.of : b \in ToSet(m.blocks)}
      BY DEF AnsweredBy, ToSet
    <3> QED BY <2>4, <3>1
  <2>6. {b.of : b \in ToSet(Flat(h))} \subseteq {b.of : b \in ToSet(Flat(g))}
    BY <2>3
  <2>7. CASE Speaker(h) = 0
    BY <1>4, <2>1, <2>7 DEF OpenCalls, g
  <2>8. CASE Speaker(h) # 0
    <3> DEFINE calls == {b.at : b \in ToSet(Calls(h[Speaker(h)].blocks))}
    <3>1. OpenCalls(g) = calls \ {b.of : b \in ToSet(Flat(g))}
      BY <2>1, <2>2, <2>8 DEF OpenCalls
    <3>2. OpenCalls(h) = calls \ {b.of : b \in ToSet(Flat(h))}
      BY <2>8 DEF OpenCalls
    <3> HIDE DEF calls
    <3>3. OpenCalls(g) \subseteq OpenCalls(h) \ AnsweredBy(m.blocks)
      BY <2>5, <2>6, <3>1, <3>2
    <3> QED BY <1>4, <3>3 DEF g
  <2> QED BY <2>7, <2>8
<1> QED BY <1>3, <1>4

-----------------------------------------------------------------------------
(* The steps of a conversation *)

\* What can be said next: blocks at their places, and results of calls without one.
Sayable ==
  {m \in SaidMessages :
     /\ m.top \in Tops
     /\ \A i \in DOMAIN m.blocks : m.blocks[i].at = <<Len(history) + 1, i>>
     /\ m.role = "user" =>
          /\ AnsweredBy(m.blocks) \subseteq Unanswered
          /\ \A i, j \in DOMAIN m.blocks :
               m.blocks[i].kind = "tool_result" /\ m.blocks[j].kind = "tool_result"
                 /\ m.blocks[i].of = m.blocks[j].of => i = j}

\* A step says a message, or leaves the conversation as it is.
LEMMA SayCases ==
  ASSUME HistoryType, [RequestNext]_requestVars
  PROVE  (\E m \in Sayable : Say(m)) \/ UNCHANGED <<history, mode, converter, refused>>
<1>0. history \in Seq(SaidMessages) /\ UserKinds \subseteq AllKinds /\ AssistantKinds \subseteq AllKinds
      /\ {"text"} \subseteq AllKinds
  BY DEF HistoryType, AllKinds, UserKinds
<1> DEFINE alone == <<"text">>
           here == Len(history) + 1
<1>1. ASSUME NEW n \in 1 .. MaxBlocks, n = 1
      PROVE  /\ Placed(alone) \in Lists /\ AnsweredBy(Placed(alone)) = {}
             /\ \A i \in DOMAIN Placed(alone) : /\ Placed(alone)[i].kind = "text"
                                                /\ Placed(alone)[i].at = <<here, i>>
  <2>1. alone \in [1 .. n -> {"text"}]
    BY <1>1
  <2> DEFINE placed == Placed(alone)
  <2> HIDE DEF alone
  <2>2. /\ placed \in Lists
        /\ \A i \in DOMAIN placed : placed[i].kind \in {"text"} /\ placed[i].at = <<here, i>>
    <3>1. /\ placed \in Lists /\ DOMAIN placed = 1 .. n
          /\ \A i \in 1 .. n : placed[i].kind \in {"text"} /\ placed[i].at = <<here, i>>
      BY <1>0, <2>1, PlacedType
    <3> QED BY <3>1
  <2>3. AnsweredBy(Placed(alone)) = {}
    BY <2>2 DEF AnsweredBy
  <2> QED BY <2>2, <2>3
<1> HIDE DEF alone
<1>2. ASSUME NEW n \in 1 .. MaxBlocks, AssistantSays(n) PROVE \E m \in Sayable : Say(m)
  <2>1. PICK top \in {<<>>, <<Reasoning>>} :
          \/ n = 1 /\ Say([role |-> "assistant", plain |-> TRUE, top |-> top, blocks |-> Placed(alone)])
          \/ \E kinds \in [1 .. n -> AssistantKinds] :
               Say([role |-> "assistant", plain |-> FALSE, top |-> top, blocks |-> Placed(kinds)])
    BY <1>2 DEF AssistantSays, alone
  <2>2. top \in Tops /\ top \in Lists
    <3>1. Reasoning \in HistoryBlocks /\ Reasoning.kind = "reasoning"
      <4>1. here \in Nat
        BY <1>0
      <4> QED BY <4>1 DEF Reasoning, NoBlock, HistoryBlocks, AllKinds
    <3>2. <<Reasoning>> \in Lists /\ DOMAIN <<Reasoning>> = {1} /\ <<Reasoning>>[1] = Reasoning
      <4> HIDE DEF Reasoning
      <4> QED BY <3>1 DEF Lists
    <3>3. <<Reasoning>> \in Tops
      BY <3>1, <3>2 DEF Tops, HasKind
    <3> QED BY <3>2, <3>3, NoBlockType
  <2>3. ASSUME n = 1, Say([role |-> "assistant", plain |-> TRUE, top |-> top, blocks |-> Placed(alone)])
        PROVE  \E m \in Sayable : Say(m)
    <3> DEFINE m == [role |-> "assistant", plain |-> TRUE, top |-> top, blocks |-> Placed(alone)]
    <3>1. m \in SaidMessages
      BY <1>1, <2>2, <2>3 DEF SaidMessages
    <3>2. m.role = "assistant" /\ m.top = top /\ m.blocks = Placed(alone) /\ Say(m)
      BY <2>3
    <3> HIDE DEF m
    <3>3. m \in Sayable
      BY <1>1, <2>2, <2>3, <3>1, <3>2 DEF Sayable
    <3> QED BY <3>2, <3>3
  <2>4. ASSUME NEW kinds \in [1 .. n -> AssistantKinds],
               Say([role |-> "assistant", plain |-> FALSE, top |-> top, blocks |-> Placed(kinds)])
        PROVE  \E m \in Sayable : Say(m)
    <3> DEFINE m == [role |-> "assistant", plain |-> FALSE, top |-> top, blocks |-> Placed(kinds)]
               placed == Placed(kinds)
    <3>1. /\ placed \in Lists /\ DOMAIN placed = 1 .. n
          /\ \A i \in 1 .. n : placed[i].kind \in AssistantKinds /\ placed[i].at = <<here, i>>
      BY <1>0, PlacedType
    <3> HIDE DEF placed
    <3>2. [role |-> "assistant", plain |-> FALSE, top |-> top, blocks |-> placed] \in SaidMessages
      BY <2>2, <3>1 DEF SaidMessages
    <3>3. m \in SaidMessages /\ m.role = "assistant" /\ m.top = top /\ m.blocks = placed /\ Say(m)
      BY <2>4, <3>2 DEF placed
    <3> HIDE DEF m
    <3>4. m \in Sayable
      BY <2>2, <3>1, <3>3 DEF Sayable
    <3> QED BY <3>3, <3>4
  <2> QED BY <2>1, <2>3, <2>4
<1>3. ASSUME NEW n \in 1 .. MaxBlocks, UserSays(n) PROVE \E m \in Sayable : Say(m)
  <2>1. ASSUME n = 1, Say([role |-> "user", plain |-> TRUE, top |-> <<>>, blocks |-> Placed(alone)])
        PROVE  \E m \in Sayable : Say(m)
    <3> DEFINE m == [role |-> "user", plain |-> TRUE, top |-> <<>>, blocks |-> Placed(alone)]
    <3>1. m \in SaidMessages
      BY <1>1, <2>1, NoBlockType DEF SaidMessages
    <3>2. m.top = <<>> /\ m.blocks = Placed(alone) /\ Say(m)
      BY <2>1
    <3> HIDE DEF m
    <3>3. m \in Sayable
      BY <1>1, <2>1, <3>1, <3>2, NoBlockType DEF Sayable
    <3> QED BY <3>2, <3>3
  <2>2. ASSUME NEW kinds \in [1 .. n -> UserKinds], NEW blocks \in Answering(Placed(kinds)),
               Say([role |-> "user", plain |-> FALSE, top |-> <<>>, blocks |-> blocks])
        PROVE  \E m \in Sayable : Say(m)
    <3> DEFINE m == [role |-> "user", plain |-> FALSE, top |-> <<>>, blocks |-> blocks]
               placed == Placed(kinds)
    <3>1. /\ placed \in Lists /\ DOMAIN placed = 1 .. n
          /\ \A i \in 1 .. n : placed[i].kind \in UserKinds /\ placed[i].at = <<here, i>>
      BY <1>0, PlacedType
    <3> HIDE DEF placed
    <3>2. PICK of \in [DOMAIN placed -> Unanswered \cup {<<0, 0>>}] :
            /\ \A i \in DOMAIN of : placed[i].kind = "tool_result" <=> of[i] # <<0, 0>>
            /\ \A i, j \in DOMAIN of : i # j /\ of[i] # <<0, 0>> => of[i] # of[j]
            /\ blocks = [i \in DOMAIN placed |-> [placed[i] EXCEPT !.of = of[i]]]
      BY <2>2 DEF Answering, placed
    <3>3. \A i \in 1 .. n : /\ blocks[i] \in HistoryBlocks /\ blocks[i].kind = placed[i].kind
                            /\ blocks[i].at = <<here, i>> /\ blocks[i].of = of[i]
                            /\ of[i] \in Unanswered \cup {<<0, 0>>}
      <4> TAKE i \in 1 .. n
      <4>1. placed[i] \in HistoryBlocks
        BY <3>1 DEF Lists
      <4>2. of[i] \in Nat \X Nat /\ of[i] \in Unanswered \cup {<<0, 0>>}
        BY <3>1, <3>2, UnansweredType
      <4>3. blocks[i] = [placed[i] EXCEPT !.of = of[i]]
        BY <3>1, <3>2
      <4>4. blocks[i] \in HistoryBlocks /\ blocks[i].kind = placed[i].kind /\ blocks[i].of = of[i]
            /\ blocks[i].at = placed[i].at
        BY <4>1, <4>2, <4>3 DEF HistoryBlocks
      <4> QED BY <3>1, <4>2, <4>4
    <3>4. blocks \in Lists /\ DOMAIN blocks = 1 .. n
      <4>1. n \in Nat /\ blocks = [i \in 1 .. n |-> blocks[i]]
        BY <3>1, <3>2
      <4> QED BY <3>3, <4>1 DEF Lists
    <3>5. m \in SaidMessages
      BY <3>1, <3>3, <3>4, NoBlockType DEF SaidMessages
    <3>6. \A i \in 1 .. n : blocks[i].kind = "tool_result" =>
            of[i] # <<0, 0>> /\ blocks[i].of = of[i] /\ of[i] \in Unanswered
      BY <3>1, <3>2, <3>3
    <3>7. AnsweredBy(blocks) \subseteq Unanswered
      BY <3>4, <3>6 DEF AnsweredBy
    <3>8. \A i, j \in 1 .. n :
            blocks[i].kind = "tool_result" /\ blocks[j].kind = "tool_result"
              /\ blocks[i].of = blocks[j].of => i = j
      <4>1. DOMAIN of = 1 .. n
        BY <3>1
      <4> QED BY <3>2, <3>6, <4>1
    <3>9. m.top = <<>> /\ m.blocks = blocks /\ Say(m)
      BY <2>2
    <3> HIDE DEF m
    <3>10. m \in Sayable
      BY <3>3, <3>4, <3>5, <3>7, <3>8, <3>9, NoBlockType DEF Sayable
    <3> QED BY <3>9, <3>10
  <2> QED BY <1>3, <2>1, <2>2 DEF UserSays, alone
<1>4. ASSUME NEW path, NEW boolean, AddProperty(path, boolean)
      PROVE  UNCHANGED <<history, mode, converter, refused>>
  BY <1>4 DEF AddProperty
<1>5. CASE UNCHANGED requestVars
  BY <1>5 DEF requestVars
<1> QED BY <1>2, <1>3, <1>4, <1>5 DEF RequestNext

\* Whoever speaks says a message of its own kinds.
LEMMA HistoryNext == HistoryType /\ [RequestNext]_requestVars => HistoryType'
<1> SUFFICES ASSUME HistoryType, [RequestNext]_requestVars PROVE HistoryType'
  OBVIOUS
<1>1. ASSUME NEW m \in Sayable, Say(m) PROVE HistoryType'
  <2>1. history' = Append(history, m) /\ m \in SaidMessages
    BY <1>1 DEF Say, Sayable
  <2>2. history' \in Seq(SaidMessages)
    BY <2>1 DEF HistoryType
  <2> QED BY <2>2 DEF HistoryType
<1>2. CASE UNCHANGED <<history, mode, converter, refused>>
  BY <1>2 DEF HistoryType
<1> QED BY <1>1, <1>2, SayCases

\* The native body of a conversation keeps its calls and results, hides thinking that
\* is off or redacted, and asks for thinking only where a call can replay its own,
\* however long the conversation (providers/deepseek/request.py,
\* core/anthropic/native_messages_request.py).
THEOREM NativeConsistentInv == RequestSpec => []NativeConsistent
<1>1. RequestInit => HistoryType
  BY DEF RequestInit, HistoryType
<1> QED BY <1>1, HistoryNext, NativeFacts, PTL DEF RequestSpec

-----------------------------------------------------------------------------
(* What the converter has told *)

\* The inductive invariant of the converter: each message of the history has added its
\* own blocks to what the chat tells, and what is deferred waits for every call that
\* can still be answered.
ToldInv ==
  /\ mode \in Modes /\ converter \in Converters
  /\ \A i \in DOMAIN history :
       /\ history[i].top \in Tops
       /\ \A k \in DOMAIN history[i].blocks : history[i].blocks[k].at = <<i, k>>
  /\ NeedsDeferred(converter.pending) => OpenCalls(history) \subseteq converter.pending.waiting
  /\ \A x \in Countable :
       Total(converter, mode, x) =
         IF x.at[1] \in DOMAIN history THEN Adds(history[x.at[1]], mode, x) ELSE 0

LEMMA ToldInit == RequestInit => ToldInv
<1> SUFFICES ASSUME RequestInit PROVE ToldInv
  OBVIOUS
<1>1. history = <<>> /\ mode \in Modes /\ converter = NoChat
  BY DEF RequestInit
<1>2. converter.sent = <<>> /\ converter.pending = NoPending /\ converter \in Converters
  <2>1. <<>> \in Seq(Utterances)
    OBVIOUS
  <2> QED BY <1>1, <2>1, NoBlockType DEF NoChat, NoPending, Pendings, Converters
<1>3. ~NeedsDeferred(NoPending)
  BY DEF NeedsDeferred, NoPending
<1>4. ASSUME NEW x \in Countable PROVE Total(converter, mode, x) = 0
  <2>1. Deferred(NoPending, mode) = <<>>
    BY <1>3 DEF Deferred
  <2>2. <<>> \in Seq(Utterances)
    OBVIOUS
  <2>3. Count(<<>>, x) = 0
    BY <2>2, CountFacts
  <2> QED BY <1>2, <2>1, <2>3 DEF Total
<1>5. DOMAIN history = {}
  BY <1>1
<1> QED BY <1>1, <1>2, <1>3, <1>4, <1>5 DEF ToldInv

LEMMA ToldSay ==
  ASSUME HistoryType, ToldInv, NEW m \in Sayable, Say(m)
  PROVE  ToldInv'
<1> DEFINE n == Len(history)
           d == Converted(converter, m, mode)
<1>1. /\ history \in Seq(SaidMessages) /\ n \in Nat /\ DOMAIN history = 1 .. n
      /\ \A i \in 1 .. n : history[i] \in SaidMessages
  BY DEF HistoryType
<1>2. /\ m \in SaidMessages /\ m.top \in Tops /\ m.blocks \in Lists
      /\ m.role \in {"user", "assistant"}
      /\ \A k \in DOMAIN m.blocks : m.blocks[k].at = <<n + 1, k>>
  BY DEF Sayable, SaidMessages
<1>3. history' = Append(history, m) /\ converter' = d /\ mode' = mode
  BY DEF Say
<1>4. /\ DOMAIN history' = 1 .. n + 1 /\ history'[n + 1] = m
      /\ \A i \in 1 .. n : history'[i] = history[i]
  BY <1>1, <1>2, <1>3
<1>5. /\ mode \in Modes /\ converter \in Converters
      /\ NeedsDeferred(converter.pending) => OpenCalls(history) \subseteq converter.pending.waiting
  BY DEF ToldInv
<1>6. m.role = "user" /\ NeedsDeferred(converter.pending) => Awaited(m.blocks, converter.pending)
  BY <1>5, UnansweredIsOpen DEF Sayable, Awaited
<1>7. /\ d \in Converters
      /\ \A x \in Countable : Total(d, mode, x) = Total(converter, mode, x) + Adds(m, mode, x)
      /\ NeedsDeferred(d.pending) =>
           IF m.role = "user"
           THEN /\ NeedsDeferred(converter.pending)
                /\ d.pending.waiting = converter.pending.waiting \ AnsweredBy(m.blocks)
           ELSE m.plain \/ d.pending.waiting = {b.at : b \in ToSet(Calls(m.blocks))}
  BY <1>2, <1>5, <1>6, ConvertedFacts
<1> HIDE DEF n, d
<1>8. \A i \in DOMAIN history' :
        /\ history'[i].top \in Tops
        /\ \A k \in DOMAIN history'[i].blocks : history'[i].blocks[k].at = <<i, k>>
  <2> SUFFICES ASSUME NEW i \in 1 .. n + 1
               PROVE  /\ history'[i].top \in Tops
                      /\ \A k \in DOMAIN history'[i].blocks : history'[i].blocks[k].at = <<i, k>>
    BY <1>4
  <2>1. CASE i = n + 1
    BY <1>2, <1>4, <2>1
  <2>2. CASE i # n + 1
    <3>1. i \in 1 .. n
      BY <1>1, <2>2
    <3> QED BY <1>1, <1>4, <3>1 DEF ToldInv
  <2> QED BY <2>1, <2>2
<1>9. ASSUME NeedsDeferred(d.pending) PROVE OpenCalls(history') \subseteq d.pending.waiting
  <2>1. history' = Append(history, m)
    BY <1>3
  <2>2. OpenCalls(Append(history, m)) \subseteq
          IF m.role = "assistant" THEN {b.at : b \in ToSet(Calls(m.blocks))}
          ELSE OpenCalls(history) \ AnsweredBy(m.blocks)
    BY <1>1, <1>2, OpenCallsNext
  <2>4. CASE m.role = "user"
    BY <1>3, <1>5, <1>7, <1>9, <2>1, <2>2, <2>4
  <2>5. CASE m.role = "assistant" /\ m.plain
    <3>1. ~HasKind(m.blocks, {"tool_use"})
      BY <1>2, <2>5 DEF SaidMessages, HasKind
    <3>2. Calls(m.blocks) = <<>>
      BY <1>2, <3>1, KeptNothing DEF Calls
    <3>3. ToSet(Calls(m.blocks)) = {}
      BY <3>2 DEF ToSet
    <3> QED BY <1>3, <2>1, <2>2, <2>5, <3>3
  <2>6. CASE m.role = "assistant" /\ ~m.plain
    <3>1. d.pending.waiting = {b.at : b \in ToSet(Calls(m.blocks))}
      BY <1>7, <1>9, <2>6
    <3> QED BY <1>3, <2>1, <2>2, <2>6, <3>1
  <2> QED BY <1>2, <2>4, <2>5, <2>6
<1>10. ASSUME NEW x \in Countable
       PROVE  Total(d, mode, x) = IF x.at[1] \in DOMAIN history' THEN Adds(history'[x.at[1]], mode, x) ELSE 0
  <2> DEFINE i == x.at[1]
  <2>1. Total(d, mode, x) = Total(converter, mode, x) + Adds(m, mode, x)
    BY <1>7
  <2>2. Total(converter, mode, x) = IF i \in DOMAIN history THEN Adds(history[i], mode, x) ELSE 0
    BY DEF ToldInv
  <2>3. Times(m.blocks, x) \in Nat /\ Adds(m, mode, x) \in Nat
    <3>1. Times(m.blocks, x) \in Nat
      BY <1>2, TimesConcat
    <3> QED BY <3>1 DEF Adds
  <2>4. i # n + 1 => Adds(m, mode, x) = 0
    <3> SUFFICES ASSUME i # n + 1 PROVE Times(m.blocks, x) = 0
      BY DEF Adds
    <3> DEFINE S == {k \in DOMAIN m.blocks : m.blocks[k] = x}
    <3>1. S = {}
      <4> SUFFICES ASSUME NEW k \in DOMAIN m.blocks, m.blocks[k] = x PROVE FALSE
        OBVIOUS
      <4>1. x.at = <<n + 1, k>>
        BY <1>2
      <4> QED BY <4>1
    <3> HIDE DEF S
    <3>2. Cardinality(S) = 0
      BY <3>1, FS_EmptySet
    <3> QED BY <3>2 DEF Times, S
  <2>5. i \in DOMAIN history => Adds(history[i], mode, x) \in Nat
    <3> SUFFICES ASSUME i \in DOMAIN history PROVE Times(history[i].blocks, x) \in Nat
      BY DEF Adds
    <3>1. history[i] \in SaidMessages
      BY <1>1
    <3>2. history[i].blocks \in Lists
      BY <3>1 DEF SaidMessages
    <3> QED BY <3>2, TimesConcat
  <2> HIDE DEF i
  <2>6. CASE i = n + 1
    <3>1. i \notin DOMAIN history /\ i \in DOMAIN history' /\ history'[i] = m
      BY <1>1, <1>4, <2>6
    <3> QED BY <2>1, <2>2, <2>3, <3>1 DEF i
  <2>7. CASE i \in 1 .. n
    <3>1. i \in DOMAIN history /\ i \in DOMAIN history' /\ history'[i] = history[i] /\ i # n + 1
      BY <1>1, <1>4, <2>7
    <3> QED BY <2>1, <2>2, <2>4, <2>5, <3>1 DEF i
  <2>8. CASE i \notin 1 .. n + 1
    <3>1. i \notin DOMAIN history /\ i \notin DOMAIN history' /\ i # n + 1
      BY <1>1, <1>4, <2>8
    <3> QED BY <2>1, <2>2, <2>4, <3>1 DEF i
  <2>9. 1 .. n + 1 = (1 .. n) \cup {n + 1}
    BY <1>1
  <2> QED BY <2>6, <2>7, <2>8, <2>9
<1> QED BY <1>3, <1>5, <1>7, <1>8, <1>9, <1>10 DEF ToldInv

LEMMA ToldNext == HistoryType /\ ToldInv /\ [RequestNext]_requestVars => ToldInv'
<1> SUFFICES ASSUME HistoryType, ToldInv, [RequestNext]_requestVars PROVE ToldInv'
  OBVIOUS
<1>1. CASE \E m \in Sayable : Say(m)
  BY <1>1, ToldSay
<1>2. CASE UNCHANGED <<history, mode, converter, refused>>
  BY <1>2 DEF ToldInv
<1> QED BY <1>1, <1>2, SayCases

\* What each message adds is each of its blocks once, or never.
LEMMA SentOnceFacts == HistoryType /\ ToldInv => SentOnce
<1> SUFFICES ASSUME HistoryType, ToldInv, NEW b \in ToSet(AllBlocks)
             PROVE  LET said == Told(Request) IN
                    /\ b.kind \in {"text", "tool_use", "tool_result"} => Times(said, b) = 1
                    /\ b.kind \in ThinkingKinds =>
                         Times(said, b) = IF \/ mode = "disabled"
                                             \/ mode = "reasoning_content" /\ history[b.at[1]].top # <<>>
                                          THEN 0 ELSE 1
                    /\ b.kind = "redacted" => Times(said, b) = 0
  BY DEF SentOnce
<1>1. history \in Seq(SaidMessages) /\ \A i \in DOMAIN history : history[i] \in SaidMessages
  BY DEF HistoryType
<1>2. PICK i \in DOMAIN history : b \in ToSet(history[i].blocks)
  BY <1>1, FlatMembers DEF AllBlocks
<1> DEFINE m == history[i]
<1>3. m \in SaidMessages /\ m.blocks \in Lists /\ m.role \in {"user", "assistant"}
  <2>1. m \in SaidMessages
    BY <1>1
  <2> QED BY <2>1 DEF SaidMessages
<1>4. PICK k \in DOMAIN m.blocks : m.blocks[k] = b
  BY <1>2 DEF ToSet
<1>5. b.at = <<i, k>> /\ \A j \in DOMAIN m.blocks : m.blocks[j].at = <<i, j>>
  BY <1>4 DEF ToldInv
<1>6. /\ b \in HistoryBlocks
      /\ m.role = "user" => b.kind \in UserKinds
      /\ m.role = "assistant" => b.kind \in AssistantKinds
  <2>1. b \in HistoryBlocks
    BY <1>3, <1>4 DEF Lists
  <2> QED BY <1>3, <1>4, <2>1 DEF SaidMessages, UserKinds, AssistantKinds
<1>7. b \in Countable
  BY <1>3, <1>6 DEF Countable, UserKinds, AssistantKinds
<1>8. Times(m.blocks, b) = 1
  <2>1. \A j, l \in DOMAIN m.blocks : m.blocks[j] = m.blocks[l] => j = l
    BY <1>5
  <2> HIDE DEF m
  <2> QED BY <1>2, <1>3, <2>1, TimesOnce DEF m
<1>9. Times(Told(Request), b) = Total(converter, mode, b)
  <2>1. converter.sent \in Seq(Utterances) /\ converter.pending \in Pendings /\ mode \in Modes
    BY DEF ToldInv, Converters
  <2>2. Deferred(converter.pending, mode) \in Seq(Utterances)
    BY <2>1, DeferredFacts
  <2>3. Count(converter.sent \o Deferred(converter.pending, mode), b)
          = Count(converter.sent, b) + Count(Deferred(converter.pending, mode), b)
    BY <1>7, <2>1, <2>2, CountFacts
  <2> QED BY <2>3 DEF Count, Total, Request, ChatMessages
<1>10. Total(converter, mode, b) = Adds(m, mode, b)
  <2>1. b.at[1] = i
    BY <1>5
  <2> QED BY <1>7, <2>1 DEF ToldInv
<1> HIDE DEF m
<1>11. Times(Told(Request), b) = IF b.kind \in Sends(m, mode) THEN 1 ELSE 0
  BY <1>8, <1>9, <1>10 DEF Adds
<1>12. mode \in {"disabled", "think_tags", "reasoning_content"} /\ m.top = history[b.at[1]].top
  BY <1>5 DEF ToldInv, Modes, m
<1>13. CASE m.role = "user"
  <2>1. b.kind \notin ThinkingKinds \cup {"tool_use", "redacted"}
    BY <1>6, <1>13 DEF UserKinds, ThinkingKinds
  <2>2. Sends(m, mode) = {"text", "tool_result"}
    BY <1>13 DEF Sends
  <2> QED BY <1>11, <2>1, <2>2
<1>14. CASE m.role = "assistant"
  <2>1. b.kind # "tool_result"
    BY <1>6, <1>14 DEF AssistantKinds
  <2>2. Sends(m, mode) =
          {"text", "tool_use"}
            \cup IF mode = "think_tags" \/ (mode = "reasoning_content" /\ m.top = <<>>)
                 THEN ThinkingKinds ELSE {}
    BY <1>14 DEF Sends, Spoken
  <2>3. "text" \notin ThinkingKinds /\ "tool_use" \notin ThinkingKinds /\ "redacted" \notin ThinkingKinds
    BY DEF ThinkingKinds
  <2>4. b.kind \in {"text", "tool_use", "tool_result"} => Times(Told(Request), b) = 1
    BY <1>11, <2>1, <2>2
  <2>5. b.kind \in ThinkingKinds =>
          (b.kind \in Sends(m, mode) <=>
             ~(mode = "disabled" \/ (mode = "reasoning_content" /\ history[b.at[1]].top # <<>>)))
    BY <1>12, <2>2, <2>3
  <2>6. b.kind = "redacted" => b.kind \notin Sends(m, mode)
    BY <2>2, <2>3
  <2> QED BY <1>11, <2>4, <2>5, <2>6
<1> QED BY <1>3, <1>13, <1>14

\* Every text, call and result of a history is told once to a chat upstream, and thinking
\* once or never, whatever is missing or out of turn and however long the conversation
\* (core/anthropic/conversion.py).
THEOREM SentOnceInv == RequestSpec => []SentOnce
<1>1. RequestInit => HistoryType /\ ToldInv
  BY ToldInit DEF RequestInit, HistoryType
<1>2. HistoryType /\ ToldInv /\ [RequestNext]_requestVars => (HistoryType /\ ToldInv)'
  BY HistoryNext, ToldNext
<1> QED BY <1>1, <1>2, SentOnceFacts, PTL DEF RequestSpec
=============================================================================
