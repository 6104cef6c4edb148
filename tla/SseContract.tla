----------------------------- MODULE SseContract -----------------------------
(***************************************************************************)
(* What a client may receive: assert_anthropic_stream_contract of          *)
(* core/anthropic/stream_contracts.py as a state machine. The view is what *)
(* a client knows after the events so far. Stricter than the assertion in  *)
(* one point: message_start is the first event and comes once. Nothing is  *)
(* promised once an upstream has sent a part of a block it never started.  *)
(***************************************************************************)
EXTENDS Integers

CONSTANTS Indexes, NoDelta   \* block indexes; kinds without deltas

ASSUME IndexesAssumption == Indexes \subseteq Int
ASSUME NoDeltaAssumption ==
  /\ {"server_tool_use", "web_tool_result"} \subseteq NoDelta
  /\ {"none", "text", "thinking", "tool_use"} \cap NoDelta = {}

VARIABLES
  view,
  reading,
  stray      \* an upstream has sent, and been let through, a part of no block

contractVars == <<view, reading, stray>>

Empty == [begun |-> FALSE, kinds |-> [i \in Indexes |-> "none"], open |-> {},
          last |-> "none"]

\* The view after event e, whether the contract allows e or not.
After(v, e) ==
  [begun |-> v.begun \/ e.ev = "message_start",
   kinds |-> IF e.ev = "content_block_start"
             THEN [v.kinds EXCEPT ![e.ix] = e.kind] ELSE v.kinds,
   open  |-> CASE e.ev = "content_block_start" -> v.open \cup {e.ix}
               [] e.ev = "content_block_stop" -> v.open \ {e.ix}
               [] OTHER -> v.open,
   last  |-> e.ev]

Allowed(v, e) ==
  \/ e.ev = "message_start" /\ ~v.begun /\ v.last = "none"
  \/ e.ev = "content_block_start" /\ v.begun /\ v.kinds[e.ix] = "none"
  \/ /\ e.ev = "content_block_delta"
     /\ e.ix \in v.open
     /\ v.kinds[e.ix] = e.kind
     /\ e.kind \notin NoDelta
  \/ e.ev = "content_block_stop" /\ e.ix \in v.open
  \/ e.ev \in {"message_delta", "message_stop", "error"} /\ v.begun

Kinds == {"text", "thinking", "tool_use"} \cup NoDelta

Events ==
  [ev : {"message_start", "message_delta", "message_stop", "error"},
   ix : {-1}, kind : {""}]
  \cup [ev : {"content_block_start", "content_block_delta"}, ix : Indexes, kind : Kinds]
  \cup [ev : {"content_block_stop"}, ix : Indexes, kind : {""}]

Receive ==
  /\ reading
  /\ \E e \in Events : Allowed(view, e) /\ view' = After(view, e)
  /\ UNCHANGED <<reading, stray>>

\* The assertion holds of the whole stream.
WellFormed(v) == v.begun /\ v.last = "message_stop" /\ v.open = {}

Complete ==
  /\ reading
  /\ WellFormed(view)
  /\ reading' = FALSE
  /\ UNCHANGED <<view, stray>>

\* From here on the upstream is to blame.
Excused == stray'

ContractInit == view = Empty /\ reading = TRUE /\ stray = FALSE

ContractSpec == ContractInit /\ [][Receive \/ Complete \/ Excused]_contractVars
=============================================================================
