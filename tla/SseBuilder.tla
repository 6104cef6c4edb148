------------------------------ MODULE SseBuilder ------------------------------
(***************************************************************************)
(* The Anthropic events the OpenAI-compatible transport makes of a chat    *)
(* completion: SSEBuilder and ContentBlockManager (core/anthropic/sse.py)  *)
(* as OpenAIChatTransport drives them (providers/openai_compat.py).        *)
(* A builder is a record, an operation returns it with the events it       *)
(* yields appended to `out`.                                               *)
(***************************************************************************)
EXTENDS TextParsers

CONSTANTS
  ToolIndexes,   \* of the tool calls of one completion
  Aliased,       \* names of tools with aliased arguments (NIM)
  ArgPieces      \* pieces that make a tool's arguments complete JSON

ASSUME ToolAssumption ==
  ToolIndexes \subseteq Nat /\ IsFiniteSet(ToolIndexes) /\ ArgPieces \in Nat \ {0}

None == -1

Event(ev, ix, kind, what) == [ev |-> ev, ix |-> ix, kind |-> kind, what |-> what]

MessageStart == Event("message_start", None, "", <<>>)
MessageDelta == Event("message_delta", None, "", <<>>)
MessageStop == Event("message_stop", None, "", <<>>)
TopLevelError == Event("error", None, "", <<>>)
StartBlock(ix, kind) == Event("content_block_start", ix, kind, <<>>)
DeltaBlock(ix, kind, what) == Event("content_block_delta", ix, kind, what)
StopBlock(ix) == Event("content_block_stop", ix, "", <<>>)

\* Task, its name as the two fragments it may come in.
TaskName == <<"Ta", "sk">>

FreshTool ==
  [name |-> <<>>, block |-> None, shown |-> <<>>,
   pre |-> 0,        \* argument pieces received before the name
   task |-> 0,       \* task_arg_buffer
   taskDone |-> FALSE,
   alias |-> 0,      \* tool_argument_alias_buffers
   got |-> 0,        \* history: pieces received
   sent |-> 0,       \* history: pieces given to the client
   deltas |-> 0]     \* history: events that gave them

FreshBuilder ==
  [next |-> 0, thinking |-> None, text |-> None,
   texted |-> FALSE, reasoned |-> FALSE,   \* some text, some thinking was emitted
   tools |-> [i \in ToolIndexes |-> FreshTool],
   out |-> <<>>]

Yielding(b, events) == [b EXCEPT !.out = @ \o events]

-----------------------------------------------------------------------------
(* Text and thinking blocks: one of them is open at most *)

CloseThinking(b) ==
  IF b.thinking = None THEN b
  ELSE [Yielding(b, <<StopBlock(b.thinking)>>) EXCEPT !.thinking = None]

CloseText(b) ==
  IF b.text = None THEN b
  ELSE [Yielding(b, <<StopBlock(b.text)>>) EXCEPT !.text = None]

\* Faulty variant: the text block is forgotten.
CloseThinkingOnly(b) == CloseThinking(b)

CloseContent(b) == CloseText(CloseThinking(b))

\* ensure_thinking_block, emit_thinking_delta.
EmitThinking(b, what) ==
  LET c == CloseText(b)
      d == IF c.thinking # None THEN c
           ELSE [Yielding(c, <<StartBlock(c.next, "thinking")>>)
                 EXCEPT !.thinking = c.next, !.next = @ + 1]
  IN  [Yielding(d, <<DeltaBlock(d.thinking, "thinking", what)>>)
       EXCEPT !.reasoned = TRUE]

\* ensure_text_block, emit_text_delta.
EmitText(b, what) ==
  LET c == CloseThinking(b)
      d == IF c.text # None THEN c
           ELSE [Yielding(c, <<StartBlock(c.next, "text")>>)
                 EXCEPT !.text = c.next, !.next = @ + 1]
  IN  [Yielding(d, <<DeltaBlock(d.text, "text", what)>>) EXCEPT !.texted = TRUE]

\* A tool call found in text: a whole block of its own.
EmitHeuristicTool(b) ==
  LET c == CloseContent(b) IN
  [Yielding(c, <<StartBlock(c.next, "tool_use"), DeltaBlock(c.next, "tool_use", <<>>),
                 StopBlock(c.next)>>)
   EXCEPT !.next = @ + 1]

EmitHeuristicTools(b, n) ==
  FoldLeft(LAMBDA c, x : EmitHeuristicTool(c), b, [j \in 1 .. n |-> j])

-----------------------------------------------------------------------------
(* Tool calls in pieces *)

\* register_tool_name: fragments may extend the name or repeat its beginning.
MergedName(old, new) ==
  IF IsPrefix(old, new) THEN new
  ELSE IF IsPrefix(new, old) THEN old
  ELSE old \o new

\* emit_tool_delta of n argument pieces.
SendArgs(b, i, n) ==
  [Yielding(b, <<DeltaBlock(b.tools[i].block, "tool_use", <<>>)>>)
   EXCEPT !.tools[i].sent = @ + n, !.tools[i].deltas = @ + 1]

\* _emit_tool_arg_delta: a Task is sent once, when its arguments are complete;
\* aliased arguments whenever the buffer is; the others as they come.
EmitArgs(b, i, n) ==
  LET t == b.tools[i]
      task == t.task + n
      alias == t.alias + n
  IN  CASE n = 0 -> b
        [] n > 0 /\ t.name = TaskName /\ t.taskDone -> b
        [] n > 0 /\ t.name = TaskName /\ ~t.taskDone ->
             IF task # ArgPieces THEN [b EXCEPT !.tools[i].task = task]
             ELSE [SendArgs(b, i, task)
                   EXCEPT !.tools[i].task = 0, !.tools[i].taskDone = TRUE]
        [] n > 0 /\ t.name \in Aliased \ {TaskName} ->
             IF alias # ArgPieces THEN [b EXCEPT !.tools[i].alias = alias]
             ELSE [SendArgs(b, i, alias) EXCEPT !.tools[i].alias = 0]
        [] OTHER -> SendArgs(b, i, n)

\* Faulty variant: what came before the name is not sent.
StartToolEmpty(b, i) ==
  [Yielding(b, <<StartBlock(b.next, "tool_use")>>)
   EXCEPT !.next = @ + 1, !.tools[i].block = b.next,
          !.tools[i].shown = b.tools[i].name, !.tools[i].pre = 0]

\* start_tool_block, and the arguments that came before the name.
StartTool(b, i) ==
  LET t == b.tools[i]
      c == [Yielding(b, <<StartBlock(b.next, "tool_use")>>)
            EXCEPT !.next = @ + 1, !.tools[i].block = b.next,
                   !.tools[i].shown = t.name, !.tools[i].pre = 0]
  IN  EmitArgs(c, i, t.pre)

\* _process_tool_call, after the open text or thinking block is closed.
ToolDelta(b, i, name, args) ==
  LET c == [CloseContent(b) EXCEPT !.tools[i].name = MergedName(@, name),
                                   !.tools[i].got = @ + args]
      d == IF c.tools[i].block = None /\ c.tools[i].name # <<>>
           THEN StartTool(c, i) ELSE c
  IN  IF d.tools[i].block = None
      THEN [d EXCEPT !.tools[i].pre = @ + args]
      ELSE EmitArgs(d, i, args)

HasStartedTool(b) == \E i \in ToolIndexes : b.tools[i].block # None

-----------------------------------------------------------------------------
(* The end of a stream *)

\* The tools, in some order (the code: of their arrival).
EveryTool == SetToSeq(ToolIndexes)

\* _flush_tool_argument_alias_buffers: what does not parse is sent as it is.
FlushAlias(b, i) ==
  IF b.tools[i].alias = 0 \/ b.tools[i].name \notin Aliased THEN b
  ELSE [SendArgs(b, i, b.tools[i].alias) EXCEPT !.tools[i].alias = 0]

\* flush_task_arg_buffers: what does not parse becomes {}.
FlushTask(b, i) ==
  IF b.tools[i].task = 0 \/ b.tools[i].taskDone THEN b
  ELSE [SendArgs(b, i, 0) EXCEPT !.tools[i].task = 0, !.tools[i].taskDone = TRUE]

CloseTool(b, i) ==
  IF b.tools[i].block = None THEN b ELSE Yielding(b, <<StopBlock(b.tools[i].block)>>)

CloseAllBlocks(b) == FoldLeft(CloseTool, CloseContent(b), EveryTool)

\* A message without visible content gets a blank text.
EnsureContent(b) ==
  IF HasStartedTool(b) \/ b.texted THEN b ELSE EmitText(b, <<>>)

FinishMessage(b) ==
  LET flushed == FoldLeft(FlushTask, FoldLeft(FlushAlias, EnsureContent(b), EveryTool),
                          EveryTool)
  IN  Yielding(CloseAllBlocks(flushed), <<MessageDelta, MessageStop>>)

\* emit_error: a text block of its own.
ErrorBlock(ix) ==
  <<StartBlock(ix, "text"), DeltaBlock(ix, "text", <<>>), StopBlock(ix)>>

\* An error after the stream was opened (or that is to be rendered): not as text
\* behind a tool call.
FailMessage(b) ==
  LET c == CloseAllBlocks(b) IN
  Yielding(c, (IF HasStartedTool(c) THEN <<TopLevelError>> ELSE ErrorBlock(c.next))
              \o <<MessageDelta, MessageStop>>)

\* iter_provider_stream_error_sse_events.
ErrorMessage(sentAny) ==
  (IF sentAny THEN <<>> ELSE <<MessageStart>>)
  \o ErrorBlock(0) \o <<MessageDelta, MessageStop>>
=============================================================================
