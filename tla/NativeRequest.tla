---------------------------- MODULE NativeRequest ----------------------------
(***************************************************************************)
(* The bodies for upstreams that speak Anthropic's protocol: the thinking  *)
(* policy of core/anthropic/native_messages_request.py, and DeepSeek's     *)
(* sanitizer (providers/deepseek/request.py), over the same histories as   *)
(* ChatConversion.                                                         *)
(***************************************************************************)
EXTENDS ChatConversion

Attachments == {"image", "document"}
Redacted == {"redacted"}

\* A message, if its content is a list, with other blocks.
WithList(m, blocks) == IF m.plain THEN m ELSE [m EXCEPT !.blocks = blocks]

\* What the assistant says is sent without those kinds.
AssistantWithout(m, kinds) ==
  IF m.role = "user" THEN m ELSE WithList(m, Without(m.blocks, kinds))

-----------------------------------------------------------------------------
(* sanitize_native_messages_thinking_policy *)

\* Thinking that is not signed cannot be replayed; none is when it is off.
ReplayPolicy(history, enabled) ==
  LET hidden == IF enabled THEN {"thinking"} ELSE ThinkingKinds \cup Redacted IN
  [i \in DOMAIN history |-> AssistantWithout(history[i], hidden)]

\* build_base_native_anthropic_request_body: the client may configure thinking.
BaseBody(history, enabled, configured) ==
  [messages |-> ReplayPolicy(history, enabled), thinks |-> enabled /\ configured]

-----------------------------------------------------------------------------
(* OpenRouter: extra, the keys of the client's extra_body *)

\* validate_openrouter_extra_body
OpenRouterRefuses(extra) == "model" \in extra

\* build_openrouter_native_request_body: reasoning is asked for where thinking is
\* enabled, or by the client's own extra keys, which are sent as they are.
OpenRouterBody(history, enabled, extra) ==
  [messages |-> ReplayPolicy(history, enabled),
   thinks |-> enabled \/ extra \cap {"reasoning", "thinking"} # {}]

-----------------------------------------------------------------------------
(* DeepSeek *)

Placeholder == [NoBlock EXCEPT !.kind = "text"]

\* _strip_unsupported_attachment_blocks: a message of attachments only says so.
Stripped(m) ==
  LET kept == Without(m.blocks, Attachments) IN
  WithList(m, IF m.blocks # <<>> /\ kept = <<>> THEN <<Placeholder>> ELSE kept)

\* _validate_deepseek_native_request_dict.
DeepSeekRefuses(history) ==
  \E i \in DOMAIN history : HasKind(history[i].blocks, ServerKinds)

\* _has_tool_history.
HasToolHistory(history) ==
  \E i \in DOMAIN history :
    HasKind(history[i].blocks, {IF history[i].role = "user" THEN "tool_result" ELSE "tool_use"})

\* _has_replayable_thinking_before_tool_use.
ThinkingBeforeCall(m) ==
  /\ m.role = "assistant"
  /\ \E i \in 1 .. FirstCall(m.blocks) - 1 : m.blocks[i].kind \in ThinkingKinds

\* Faulty variant: thinking anywhere in a message with calls will do.
ThinksAnyway(history, enabled) ==
  /\ enabled
  /\ HasToolHistory(history) =>
       \E i \in DOMAIN history :
         Calls(history[i].blocks) # <<>> /\ HasKind(history[i].blocks, ThinkingKinds)

\* Thinking is not asked for where no call of the history can replay its own.
StillThinks(history, enabled) ==
  /\ enabled
  /\ HasToolHistory(history) =>
       \E i \in DOMAIN history : ThinkingBeforeCall(history[i])

\* sanitize_deepseek_messages_for_native: redacted thinking is never sent.
DeepSeekMessages(history, thinks) ==
  LET hidden == Redacted \cup IF thinks THEN {} ELSE ThinkingKinds IN
  [i \in DOMAIN history |-> AssistantWithout(history[i], hidden)]

\* _remove_deepseek_thinking_hints: other hints of the client are kept.
WithoutHints(given) == given \ {"effort", "clear_thinking"}

\* build_request_body: the messages, whether it asks for thinking, and the hints.
DeepSeekBody(history, enabled, given) ==
  LET sent == [i \in DOMAIN history |-> Stripped(history[i])]
      thinks == StillThinks(sent, enabled)
  IN  [messages |-> DeepSeekMessages(sent, thinks), thinks |-> thinks,
       hints |-> IF enabled /\ ~thinks THEN WithoutHints(given) ELSE given]
=============================================================================
