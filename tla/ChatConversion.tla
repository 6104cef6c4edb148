--------------------------- MODULE ChatConversion ---------------------------
(***************************************************************************)
(* AnthropicToOpenAIConverter (core/anthropic/conversion.py): a history of *)
(* messages made of blocks becomes one of chat messages, a message at a    *)
(* time. A chat message cannot hold text after its tool calls: what an     *)
(* assistant message has there is deferred until the calls are answered.   *)
(*                                                                         *)
(* A block is its kind and place; a result also names its call.            *)
(***************************************************************************)
EXTENDS Integers, Sequences, SequencesExt, FiniteSets

\* The kinds that only a native Anthropic provider takes, in either role.
ServerKinds == {"server_tool_use"}
ThinkingKinds == {"thinking", "signed"}

Modes == {"disabled", "think_tags", "reasoning_content"}

NoBlock == [kind |-> "none", at |-> <<0, 0>>, of |-> <<0, 0>>]

OfKinds(blocks, kinds) ==
  LET upTo[n \in 0 .. Len(blocks)] ==
        IF n = 0 THEN <<>>
        ELSE IF blocks[n].kind \in kinds THEN Append(upTo[n - 1], blocks[n]) ELSE upTo[n - 1]
  IN  upTo[Len(blocks)]

Without(blocks, kinds) == OfKinds(blocks, {blocks[i].kind : i \in DOMAIN blocks} \ kinds)

HasKind(blocks, kinds) == \E i \in DOMAIN blocks : blocks[i].kind \in kinds

Calls(blocks) == OfKinds(blocks, {"tool_use"})

-----------------------------------------------------------------------------
(* Messages *)

\* An Anthropic message: its content is a string or a list of blocks; reasoning
\* is the top-level reasoning_content.
\* A chat message: words and reasoning are blocks of the history.
Chat(role, words, reasoning, calls, answers) ==
  [role |-> role, words |-> words, reasoning |-> reasoning,
   calls |-> calls, answers |-> answers]

\* _convert_assistant_message, without calls.
Assistant(blocks, top, mode) ==
  Chat("assistant",
       OfKinds(blocks, {"text"} \cup IF mode = "think_tags" THEN ThinkingKinds ELSE {}),
       IF mode # "reasoning_content" THEN <<>>
       ELSE IF top # <<>> THEN top ELSE OfKinds(blocks, ThinkingKinds),
       <<>>, NoBlock)

\* Content that is a string.
PlainMessage(m, mode) ==
  IF m.role = "user" THEN Chat("user", m.blocks, <<>>, <<>>, NoBlock)
  ELSE Chat("assistant",
            (IF mode = "think_tags" THEN m.top ELSE <<>>) \o m.blocks,
            IF mode = "reasoning_content" THEN m.top ELSE <<>>, <<>>, NoBlock)

\* What the converter cannot express (OpenAIConversionError).
Refused(m) ==
  LET forbidden == {"image"} \cup IF m.role = "user" THEN {} ELSE ServerKinds IN
  \E i \in DOMAIN m.blocks : m.blocks[i].kind \in forbidden

-----------------------------------------------------------------------------
(* Deferred text *)

NoPending == [waiting |-> {}, blocks |-> <<>>, top |-> <<>>]

\* needs_deferred
NeedsDeferred(p) == p.blocks # <<>>

\* _deferred_post_tool_to_messages.
Deferred(p, mode) ==
  IF NeedsDeferred(p) THEN <<Assistant(p.blocks, p.top, mode)>> ELSE <<>>

FirstCall(blocks) ==
  SelectInSeq(blocks, LAMBDA b : b.kind = "tool_use")

\* Faulty variant: what stands behind the calls follows them at once.
SplitAtOnce(m, mode) ==
  LET first == FirstCall(m.blocks)
      Part(i, j) == Assistant(SubSeq(m.blocks, i, j), m.top, mode)
  IN  [sent |-> <<[Part(1, first - 1) EXCEPT !.calls = Calls(m.blocks)],
                  Part(first, Len(m.blocks))>>,
       pending |-> NoPending]

\* _convert_assistant_message_with_split: the blocks before the first call with
\* all calls; the others wait.
Split(m, mode) ==
  LET first == FirstCall(m.blocks)
      before == SubSeq(m.blocks, 1, first - 1)
      behind == Without(SubSeq(m.blocks, first + 1, Len(m.blocks)), {"tool_use"})
  IN  [sent |-> <<[Assistant(before, m.top, mode) EXCEPT !.calls = Calls(m.blocks)]>>,
       pending |-> IF behind = <<>> THEN NoPending
                   ELSE [waiting |-> {Calls(m.blocks)[i].at : i \in DOMAIN Calls(m.blocks)},
                         blocks |-> behind, top |-> m.top]]

-----------------------------------------------------------------------------
(* User messages *)

\* flush_text.
FlushText(s) ==
  IF s.text = <<>> THEN s
  ELSE [s EXCEPT !.sent = Append(@, Chat("user", s.text, <<>>, <<>>, NoBlock)),
                 !.text = <<>>]

\* A tool result; with the last one awaited, the deferred blocks.
Result(s, b) ==
  LET f == FlushText(s)
      told == Append(f.sent, Chat("tool", <<>>, <<>>, <<>>, b))
      waiting == f.pending.waiting \ {b.of}
      last == NeedsDeferred(f.pending) /\ waiting = {}
  IN  [f EXCEPT !.sent = told \o IF last THEN Deferred(f.pending, f.mode) ELSE <<>>,
                !.pending.waiting = waiting, !.cleared = f.cleared \/ last]

\* _convert_user_message and _convert_user_message_with_injection: texts are
\* gathered; other kinds (documents) are left out.
UserBlock(s, b) ==
  CASE b.kind = "text" -> [s EXCEPT !.text = Append(@, b)]
    [] b.kind = "tool_result" -> Result(s, b)
    [] OTHER -> s

UserBlocks(blocks, p, mode) ==
  FlushText(FoldLeft(UserBlock,
                     [sent |-> <<>>, text |-> <<>>, pending |-> p, cleared |-> FALSE,
                      mode |-> mode], blocks))

-----------------------------------------------------------------------------
(* convert_messages: one message of the history. c is the chat so far and what
   is pending. *)

NoChat == [sent |-> <<>>, pending |-> NoPending]

\* The deferred blocks, without waiting for results any longer.
GiveUpWaiting(c, mode) ==
  [sent |-> c.sent \o Deferred(c.pending, mode), pending |-> NoPending]

AssistantBlocks(c, m, mode) ==
  LET d == GiveUpWaiting(c, mode) IN
  IF FirstCall(m.blocks) = 0
  THEN [d EXCEPT !.sent = Append(@, Assistant(m.blocks, m.top, mode))]
  ELSE LET split == Split(m, mode) IN
       [sent |-> d.sent \o split.sent, pending |-> split.pending]

\* A string of the assistant does not give up what is pending.
Plain(c, m, mode) ==
  LET d == IF m.role = "user" THEN GiveUpWaiting(c, mode) ELSE c IN
  [d EXCEPT !.sent = Append(@, PlainMessage(m, mode))]

\* Faulty variant: what was pending stays so.
UserListForgetful(c, m, mode) ==
  LET s == UserBlocks(m.blocks, c.pending, mode) IN
  [sent |-> c.sent \o s.sent, pending |-> s.pending]

UserList(c, m, mode) ==
  LET s == UserBlocks(m.blocks, c.pending, mode) IN
  [sent |-> c.sent \o s.sent, pending |-> IF s.cleared THEN NoPending ELSE s.pending]

Converted(c, m, mode) ==
  IF m.plain THEN Plain(c, m, mode)
  ELSE IF m.role = "user" THEN UserList(c, m, mode)
  ELSE AssistantBlocks(c, m, mode)

\* The messages of the request: what is pending at the end comes last.
ChatMessages(c, mode) == c.sent \o Deferred(c.pending, mode)
=============================================================================
