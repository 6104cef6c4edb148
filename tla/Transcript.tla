----------------------------- MODULE Transcript -----------------------------
(***************************************************************************)
(* TranscriptBuffer (messaging/transcript.py): the segments a status       *)
(* message shows of what the CLI streams (messaging/event_parser.py), the  *)
(* blocks that are open by index, the stack of running subagents, whose    *)
(* text is not shown, and the rendering within a length limit.             *)
(*                                                                         *)
(* The CLI's side is modelled with it: it streams blocks as the stream     *)
(* contract allows and gives every Task a result.                          *)
(***************************************************************************)
EXTENDS Integers, Sequences, SequencesExt, FiniteSets, FiniteSetsExt

CONSTANTS
  Blocks,          \* block indexes of a streamed message
  TaskIds,         \* ids of Task calls, as sequences; <<>> where it is omitted
  Suffix,          \* what the id of a result may have at its end
  Foreign,         \* an id with "task" in it, of the result of a Task without id
  ToolId,          \* the id of an ordinary tool
  ShowResults,     \* show_tool_results
  MaxSegments,     \* bound: segments of a transcript
  MaxSize,         \* bound: length of a block's text
  Marker, MinTail, \* lengths: the truncation mark; the budget for a tail (20)
  Limits, Status   \* lengths a rendering is tried with: limit_chars, status

Related(a, b) == IsPrefix(a, b) \/ IsPrefix(b, a)

\* Other ids have nothing to do with those of Tasks.
ASSUME IdsAssumption ==
  /\ TaskIds \cup {Suffix, Foreign, ToolId} \subseteq Seq(STRING)
  /\ \A id \in TaskIds \ {<<>>} : ~Related(id, Foreign) /\ ~Related(id, ToolId)
  /\ Foreign \notin {<<>>, ToolId} /\ ToolId # <<>>
ASSUME LengthAssumption ==
  {Marker, MinTail} \cup Limits \cup Status \subseteq Nat

VARIABLES
  segments,   \* _segments: kind and length of what each renders to
  open,       \* the three _open_*_by_index: [kind, segment] by index
  stack,      \* _subagent_stack: ids, <<>> for a made-up one ("__task_1")
  source,     \* the CLI's open blocks: kind by index, "none"
  running,    \* the CLI's Tasks without a result, oldest first
  nested,     \* every result so far was that of the newest Task, with an id if the Task had one
  named       \* every Task had an id, and its result the same

transcriptVars == <<segments, open, stack, source, running, nested, named>>

Kinds == {"text", "thinking", "tool"}
Closed == [kind |-> "none", segment |-> 0]

TranscriptInit ==
  /\ segments = <<>> /\ stack = <<>>
  /\ open = [b \in Blocks |-> Closed]
  /\ source = [b \in Blocks |-> "none"]
  /\ running = <<>> /\ nested = TRUE /\ named = TRUE

InSubagent == stack # <<>>

Segment(kind) == [kind |-> kind, size |-> IF kind = "text" THEN 0 ELSE 1]

HasRoom == Len(segments) < MaxSegments

-----------------------------------------------------------------------------
(* Blocks *)

\* thinking_start, text_start, tool_use_start of an ordinary tool: whatever was
\* open at the index is closed. Text is not shown inside a subagent; a tool call
\* there is a line of the subagent's segment.
StartShown(b, kind) ==
  IF InSubagent /\ kind # "tool" THEN UNCHANGED <<segments, open>>
  ELSE /\ segments' = IF InSubagent THEN segments ELSE Append(segments, Segment(kind))
       /\ open' = [open EXCEPT ![b] = [kind |-> kind, segment |-> Len(segments')]]

BlockStart(b, kind) ==
  /\ source[b] = "none" /\ HasRoom
  /\ source' = [source EXCEPT ![b] = kind]
  /\ StartShown(b, kind)
  /\ UNCHANGED <<stack, running, nested, named>>

\* A delta of a block whose start was not shown makes a segment.
DeltaShown(b, kind) ==
  IF InSubagent \/ kind = "tool" THEN UNCHANGED <<segments, open>>
  ELSE LET known == open[b].kind = kind
           all == IF known THEN segments ELSE Append(segments, Segment(kind))
           at == IF known THEN open[b].segment ELSE Len(all)
       IN  /\ segments' = [all EXCEPT ![at].size = @ + 1]
           /\ open' = [open EXCEPT ![b] = [kind |-> kind, segment |-> at]]

BlockDelta(b) ==
  /\ source[b] \in Kinds /\ HasRoom
  /\ open[b].kind # "none" => segments[open[b].segment].size < MaxSize
  /\ DeltaShown(b, source[b])
  /\ UNCHANGED <<stack, source, running, nested, named>>

\* Faulty variant: inside a subagent a stop is not looked at.
StopUnlessSubagent(b) ==
  IF InSubagent THEN UNCHANGED open ELSE open' = [open EXCEPT ![b] = Closed]

StopShown(b) == open' = [open EXCEPT ![b] = Closed]

BlockStop(b) ==
  /\ source[b] # "none"
  /\ source' = [source EXCEPT ![b] = "none"]
  /\ StopShown(b)
  /\ UNCHANGED <<segments, stack, running, nested, named>>

\* A whole message: thinking_chunk, text_chunk, tool_use without an index; an error.
Chunk(kind) ==
  /\ HasRoom
  /\ segments' = IF InSubagent /\ kind # "error" THEN segments
                 ELSE Append(segments, [kind |-> kind, size |-> 1])
  /\ UNCHANGED <<open, stack, source, running, nested, named>>

-----------------------------------------------------------------------------
(* Subagents *)

\* _subagent_push: a task without an id gets a made-up one.
Push(id) == stack' = Append(stack, id)

\* A Task call, in a block or in one piece; its index is not opened.
TaskStart(id) ==
  /\ HasRoom
  /\ segments' = Append(segments, Segment("subagent"))
  /\ Push(id)
  /\ running' = Append(running, id)
  /\ \/ UNCHANGED <<source, open>>
     \/ \E b \in Blocks :
          /\ source[b] = "none"
          /\ source' = [source EXCEPT ![b] = "task"]
          /\ StopShown(b)
  /\ named' = (named /\ id # <<>>)
  /\ UNCHANGED nested

\* Faulty variant: ids must be equal.
MatchesExactly(entry, id) == entry # <<>> /\ entry = id

\* _ids_roughly_match: nothing matches a made-up id, which no stream has.
Matches(entry, id) == entry # <<>> /\ id # <<>> /\ Related(entry, id)

\* Faulty variant: only the newest is looked at.
PopTop(id) ==
  IF id # <<>> /\ Matches(Last(stack), id) THEN Front(stack) ELSE stack

\* _subagent_pop: to the newest entry that matches; without an id, a made-up one.
Pop(id) ==
  LET at == {i \in DOMAIN stack : Matches(stack[i], id)} IN
  IF at # {} THEN SubSeq(stack, 1, Max(at) - 1)
  ELSE IF id = <<>> /\ Last(stack) = <<>> THEN Front(stack)
  ELSE stack

\* tool_result with this id, for a tool of this name if the id is known.
Popped(id, name) ==
  IF stack = <<>> THEN <<>>
  ELSE IF Pop(id) = stack /\ Last(stack) = <<>> /\ id = Foreign /\ name # "tool"
       THEN Front(stack)
  ELSE Pop(id)

ResultShown ==
  segments' = IF ShowResults THEN Append(segments, Segment("result")) ELSE segments

\* The ids the result of a Task may come with. One without an id, of a Task that has
\* one, closes nothing, or the made-up Task on top.
ResultIds(id) == {<<>>} \cup IF id = <<>> THEN {Foreign} ELSE {id, id \o Suffix}

TaskResult(i) ==
  /\ HasRoom
  /\ \E id \in ResultIds(running[i]) :
       /\ stack' = Popped(id, "Task")
       /\ named' = (named /\ id = running[i])
       /\ nested' = (nested /\ i = Len(running) /\ (id = <<>> => running[i] = <<>>))
  /\ ResultShown
  /\ running' = RemoveAt(running, i)
  /\ UNCHANGED <<open, source>>

\* The result of an ordinary tool.
ToolResult ==
  /\ HasRoom
  /\ stack' = Popped(ToolId, "tool")
  /\ ResultShown
  /\ UNCHANGED <<open, source, running, nested, named>>

TranscriptNext ==
  \/ \E b \in Blocks :
       \/ \E kind \in Kinds : BlockStart(b, kind)
       \/ BlockDelta(b) \/ BlockStop(b)
  \/ \E kind \in {"text", "thinking", "tool", "error"} : Chunk(kind)
  \/ \E id \in TaskIds : TaskStart(id)
  \/ \E i \in DOMAIN running : TaskResult(i)
  \/ ToolResult

TranscriptSpec == TranscriptInit /\ [][TranscriptNext]_transcriptVars

-----------------------------------------------------------------------------
(* render: whole segments from the newest back, else the tail of the newest,
   else the mark and the status. Lengths; a newline is 1, the status comes after
   two of them. *)

Shown == {i \in DOMAIN segments : segments[i].size > 0}

StatusText(status) == IF status = 0 THEN 0 ELSE status + 2

\* The length of the segments from i on.
LengthFrom(i, status) ==
  FoldLeft(LAMBDA n, s : n + s.size, 0, SubSeq(segments, i, Len(segments)))
  + Cardinality(Shown \cap i .. Len(segments)) - 1
  + (IF i = Min(Shown) THEN 0 ELSE Marker) + StatusText(status)

\* The segments with which a whole tail can begin.
Fits(limit, status) == {i \in Shown : LengthFrom(i, status) <= limit}

\* Faulty variant: the status is not counted.
NewestPartUnstated(limit, status) ==
  LET budget == limit - Marker
  IN  IF budget <= MinTail THEN 0 ELSE Min({budget, segments[Max(Shown)].size})

\* The part of the newest segment shown where not even that fits.
NewestPart(limit, status) ==
  LET budget == limit - Marker - StatusText(status)
  IN  IF budget <= MinTail THEN 0 ELSE Min({budget, segments[Max(Shown)].size})

\* What is shown: whole segments, part of the newest, and the length.
Render(limit, status) ==
  LET fits == Fits(limit, status)
      tail == NewestPart(limit, status)
      Only(length) == [whole |-> {}, part |-> 0, length |-> length]
  IN  IF Shown = {}
        THEN Only(IF StatusText(status) <= limit THEN StatusText(status) ELSE status)
      ELSE IF fits # {}
        THEN [whole |-> Shown \cap Min(fits) .. Len(segments), part |-> 0,
              length |-> LengthFrom(Min(fits), status)]
      ELSE IF tail > 0 /\ Marker + tail + StatusText(status) <= limit
        THEN [whole |-> {}, part |-> tail, length |-> Marker + tail + StatusText(status)]
      ELSE Only(IF Marker + status <= limit THEN Marker + status ELSE status)

-----------------------------------------------------------------------------
(* Properties *)

\* If every Task and its result carry the same id, then once every Task has its
\* result the stack is empty and the text after it is shown: whatever order the
\* results of parallel Tasks come in, and with one id a prefix of another. An id
\* that is a prefix of two unlike ones would leave one of those on the stack.
AllTasksClosed == named /\ running = <<>> => stack = <<>>

\* As long as results come newest first and name the Task that has an id, exactly
\* the running Tasks are on the stack, also where the Task has no id, its result has
\* one all the same, or a result's has a suffix: no text of a subagent is shown, no
\* text after it is hidden. A result without the id its Task has leaves the Task on
\* the stack, and hides the text after it.
StackIsRunning == nested => Len(stack) = Len(running)

\* An index that is open here is open at the CLI, with the same kind: no segment
\* collects the text of a later block.
NoStaleBlock == \A b \in Blocks : open[b].kind \in {"none", source[b]}

\* A rendering fits the platform's limit if the status alone does, and shows
\* every segment from which on all of them would fit; where none does, it shows the
\* end of the newest and uses the limit up, unless hardly anything would be left.
RenderFits ==
  \A limit \in Limits, status \in Status : status <= limit =>
    LET r == Render(limit, status) IN
    /\ r.length <= limit
    /\ \A i \in Shown : LengthFrom(i, status) <= limit =>
         Shown \cap i .. Len(segments) \subseteq r.whole
    /\ Shown # {} /\ r.whole = {} =>
         \/ r.part > MinTail /\ r.length = limit
         \/ r.part = 0 /\ limit <= Marker + StatusText(status) + MinTail
=============================================================================
