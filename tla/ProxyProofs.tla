---------------------------- MODULE ProxyProofs -----------------------------
(***************************************************************************)
(* The properties of ProxyStream for any settings, providers, chunks and   *)
(* calls.                                                                  *)
(*                                                                         *)
(* Every action keeps the types of a request (TypeOK) and says whose       *)
(* events the client gets (Speaks); the builder accounts for every piece   *)
(* of a call's arguments (Records), on each path a piece can take until    *)
(* the message is finished. The routing rests on what a name can be        *)
(* (RoutingInv). What a fold over the chunk, the calls, the events or the  *)
(* fallbacks keeps is shown step by step, with FoldFacts.                  *)
(***************************************************************************)
EXTENDS ProxyStream, SequenceTheorems, FiniteSetTheorems,
        WellFoundedInduction, TLAPS

(* The parsers of text *)

\* The least of a set of natural numbers.
LEMMA MinFacts ==
  ASSUME NEW S \in SUBSET Nat, S # {}
  PROVE  Min(S) \in S /\ \A x \in S : Min(S) <= x
<1>1. \E x \in S : \A y \in S : ~(<<y, x>> \in OpToRel(<, Nat))
  BY NatLessThanWellFounded, WFMin
<1>2. PICK x \in S : \A y \in S : ~(y < x)
  BY <1>1 DEF OpToRel
<1>3. \A y \in S : x <= y
  BY <1>2
<1> QED BY <1>3 DEF Min

\* What the parsers pass on and keep.
Text == Seq(Symbols)
\* The parts of a text: thinking, and the rest.
Parts == [kind : {"text", "thinking"}, text : Text]
ThinkStates == [buf : Text, inside : BOOLEAN, parts : Seq(Parts)]
ToolStates == [state : {"text", "matching", "params"}, buf : Text, shown : Text, calls : Nat]

\* Nothing is a text, and a sequence of parts.
LEMMA EmptyText == <<>> \in Text /\ <<>> \in Seq(Parts)
BY DEF Text

\* A pattern that is found lies within the text.
LEMMA FindInFacts ==
  ASSUME NEW s \in Text, NEW pattern \in Text, Len(pattern) > 0
  PROVE  /\ FindIn(s, pattern) \in Nat
         /\ FindIn(s, pattern) # 0 =>
              FindIn(s, pattern) + Len(pattern) <= Len(s) + 1
<1> DEFINE at == {i \in 1 .. Len(s) - Len(pattern) + 1 :
                    SubSeq(s, i, i + Len(pattern) - 1) = pattern}
<1>1. Len(s) \in Nat /\ Len(pattern) \in Nat
  BY DEF Text
<1>2. CASE at = {}
  BY <1>2 DEF FindIn
<1>3. CASE at # {}
  <2>1. FindIn(s, pattern) = Min(at)
    BY <1>3 DEF FindIn
  <2>2. at \in SUBSET Nat
    OBVIOUS
  <2>3. Min(at) \in 1 .. Len(s) - Len(pattern) + 1
    BY <1>3, <2>2, MinFacts
  <2> QED BY <1>1, <2>1, <2>3
<1> QED BY <1>2, <1>3

\* A slice of a text is a text.
LEMMA SliceType ==
  ASSUME NEW s \in Text, NEW i \in Nat \ {0}, NEW n \in Nat, n <= Len(s)
  PROVE  SubSeq(s, i, n) \in Text
<1>1. \A j \in i .. n : s[j] \in Symbols
  BY DEF Text
<1> QED BY <1>1, SubSeqProperties DEF Text

\* So is what stands from a place on.
LEMMA FromType ==
  ASSUME NEW s \in Text, NEW i \in Nat \ {0}
  PROVE  From(s, i) \in Text
BY SliceType, LenProperties DEF From, Text

\* The think parser takes a piece off its buffer.
LEMMA TakeTextType ==
  ASSUME NEW p \in ThinkStates, NEW n \in Nat, n <= Len(p.buf), NEW drop \in Nat,
         NEW inside \in BOOLEAN
  PROVE  TakeText(p, n, drop, inside) \in ThinkStates
<1>1. p.buf \in Text /\ p.inside \in BOOLEAN /\ p.parts \in Seq(Parts)
  BY DEF ThinkStates
<1>2. From(p.buf, n + drop + 1) \in Text
  BY <1>1, FromType
<1>3. SubSeq(p.buf, 1, n) \in Text
  BY <1>1, SliceType
<1> DEFINE part == [kind |-> IF p.inside THEN "thinking" ELSE "text",
                    text |-> SubSeq(p.buf, 1, n)]
<1>4. part \in Parts
  BY <1>3 DEF Parts
<1> HIDE DEF part
<1>5. Append(p.parts, part) \in Seq(Parts)
  BY <1>1, <1>4
<1>6. (IF n = 0 THEN p.parts ELSE Append(p.parts, part)) \in Seq(Parts)
  BY <1>1, <1>5
<1>7. TakeText(p, n, drop, inside) =
        [buf |-> From(p.buf, n + drop + 1), inside |-> inside,
         parts |-> IF n = 0 THEN p.parts ELSE Append(p.parts, part)]
  BY DEF TakeText, part
<1> QED BY <1>2, <1>6, <1>7 DEF ThinkStates

\* One pass of the think parser, on every branch of it.
LEMMA ParseThinkType == \A p \in ThinkStates : ParseThink(p) \in ThinkStates
<1> SUFFICES ASSUME NEW p \in ThinkStates PROVE ParseThink(p) \in ThinkStates
  OBVIOUS
<1> DEFINE shut == FindIn(p.buf, CloseTag)
           start == FindIn(p.buf, OpenTag)
           tags == {shut} \cup (IF p.inside THEN {} ELSE {start})
           tag == IF tags = {0} THEN 0 ELSE Min(tags \ {0})
<1>1. p.buf \in Text /\ Len(p.buf) \in Nat
  BY DEF ThinkStates, Text
<1>2. /\ CloseTag \in Text /\ Len(CloseTag) = 2
      /\ OpenTag \in Text /\ Len(OpenTag) = 2
  <2>1. \A a, b \in Symbols : <<a, b>> \in Text /\ Len(<<a, b>>) = 2
    BY DEF Text
  <2>2. {"lt", "think>", "/think>"} \subseteq Symbols
    BY DEF Symbols
  <2> QED BY <2>1, <2>2 DEF CloseTag, OpenTag
<1>3. /\ shut \in Nat /\ (shut # 0 => shut + 2 <= Len(p.buf) + 1)
      /\ start \in Nat /\ (start # 0 => start + 2 <= Len(p.buf) + 1)
  <2>1. ASSUME NEW pattern \in Text, Len(pattern) = 2
        PROVE  /\ FindIn(p.buf, pattern) \in Nat
               /\ FindIn(p.buf, pattern) # 0 => FindIn(p.buf, pattern) + 2 <= Len(p.buf) + 1
    <3>1. Len(pattern) > 0
      BY <2>1
    <3> QED BY <1>1, <2>1, <3>1, FindInFacts
  <2> QED BY <1>2, <2>1
<1>4. tag # 0 => tag \in Nat /\ tag + 2 <= Len(p.buf) + 1
  <2> SUFFICES ASSUME tags # {0} PROVE Min(tags \ {0}) \in tags \ {0}
    BY <1>3
  <2>1. tags \ {0} \in SUBSET Nat
    BY <1>3
  <2>2. tags \ {0} # {}
    OBVIOUS
  <2> HIDE DEF tags
  <2> QED BY <2>1, <2>2, MinFacts
<1>5. Withheld(p.buf) \in {0, 1} /\ Withheld(p.buf) <= Len(p.buf)
  BY <1>1 DEF Withheld, Text
<1>6. ParseThink(p) = IF tag = 0
                      THEN TakeText(p, Len(p.buf) - Withheld(p.buf), 0, p.inside)
                      ELSE TakeText(p, tag - 1, 2, p.buf[tag + 1] = "think>")
  BY DEF ParseThink
<1> HIDE DEF tag
<1>7. CASE tag = 0
  <2>1. Len(p.buf) - Withheld(p.buf) \in Nat
    BY <1>1, <1>5
  <2>2. Len(p.buf) - Withheld(p.buf) <= Len(p.buf) /\ p.inside \in BOOLEAN
    BY <1>1, <1>5 DEF ThinkStates
  <2> QED BY <1>6, <1>7, <2>1, <2>2, TakeTextType
<1>8. CASE tag # 0
  <2>1. tag - 1 \in Nat /\ tag - 1 <= Len(p.buf)
    BY <1>1, <1>4, <1>8
  <2> QED BY <1>6, <1>8, <2>1, TakeTextType
<1> QED BY <1>7, <1>8
\* The passes of the think parser as a fold: an element of it stands for nothing.
ThinkPass(q, x) == ParseThink(q)
ThinkFold == INSTANCE FoldFacts WITH
  States <- ThinkStates, Elements <- Symbols, Op <- ThinkPass

\* All passes over a chunk.
LEMMA FeedThinkType ==
  ASSUME NEW p \in ThinkStates, NEW content \in Text
  PROVE  FeedThink(p, content) \in ThinkStates
<1> DEFINE all == p.buf \o content
           fed == [p EXCEPT !.buf = all, !.parts = <<>>]
<1>1. all \in Seq(Symbols)
  BY DEF ThinkStates, Text
<1>2. fed \in ThinkStates
  <2>1. all \in Text
    BY <1>1 DEF Text
  <2> HIDE DEF all
  <2> QED BY <2>1, EmptyText DEF ThinkStates
<1>3. FeedThink(p, content) = ThinkFold!Fold(fed, all)
  BY DEF FeedThink, FoldLeft, MapThenFoldSet, Max, ThinkFold!Fold, ThinkFold!Largest, ThinkPass
<1>4. \A c \in ThinkStates, e \in Symbols : ThinkPass(c, e) \in ThinkStates
  BY ParseThinkType DEF ThinkPass
<1> HIDE DEF fed, all
<1>5. PICK f \in [0 .. Len(all) -> ThinkStates] : ThinkFold!Fold(fed, all) = f[Len(all)]
  BY <1>1, <1>2, <1>4, ThinkFold!FoldSteps
<1>6. Len(all) \in 0 .. Len(all)
  BY <1>1
<1> QED BY <1>3, <1>5, <1>6

\* What the think parser holds at the end.
LEMMA FlushThinkType ==
  ASSUME NEW p \in ThinkStates
  PROVE  FlushThink(p) \in ThinkStates
<1> DEFINE q == [p EXCEPT !.parts = <<>>]
<1>1. q \in ThinkStates /\ q.buf = p.buf /\ Len(p.buf) \in Nat /\ p.inside \in BOOLEAN
  <2>1. p.buf \in Text /\ p.inside \in BOOLEAN
    BY DEF ThinkStates
  <2>2. q \in ThinkStates /\ q.buf = p.buf
    BY EmptyText DEF ThinkStates
  <2> QED BY <2>1, <2>2 DEF Text
<1> HIDE DEF q
<1>2. TakeText(q, Len(p.buf), 0, p.inside) \in ThinkStates
  BY <1>1, TakeTextType
<1> QED BY <1>2 DEF FlushThink, q

\* The tool parser shows text it holds no longer.
LEMMA ShowType ==
  ASSUME NEW h \in ToolStates, NEW n \in Nat, n <= Len(h.buf)
  PROVE  Show(h, n) \in ToolStates
<1>1. h.buf \in Text /\ h.shown \in Text
  BY DEF ToolStates
<1>2. From(h.buf, n + 1) \in Text
  BY <1>1, FromType
<1>3. SubSeq(h.buf, 1, n) \in Text
  BY <1>1, SliceType
<1>4. h.shown \o SubSeq(h.buf, 1, n) \in Text
  BY <1>1, <1>3 DEF Text
<1> QED BY <1>2, <1>4 DEF Show, ToolStates

\* One pass of the tool parser, in each of its states.
LEMMA ScanStepType == \A h \in ToolStates : ScanStep(h) \in ToolStates
<1> SUFFICES ASSUME NEW h \in ToolStates PROVE ScanStep(h) \in ToolStates
  OBVIOUS
<1>1. h.buf \in Text /\ Len(h.buf) \in Nat /\ h.calls \in Nat
  BY DEF ToolStates, Text
<1>2. ASSUME NEW a \in Symbols
      PROVE  /\ FindIn(h.buf, <<a>>) \in Nat
             /\ FindIn(h.buf, <<a>>) # 0 => FindIn(h.buf, <<a>>) <= Len(h.buf)
  <2> DEFINE mark == <<a>>
  <2>1. mark \in Text /\ Len(mark) = 1
    BY DEF Text
  <2> HIDE DEF mark
  <2>2. /\ FindIn(h.buf, mark) \in Nat
        /\ FindIn(h.buf, mark) # 0 => FindIn(h.buf, mark) + Len(mark) <= Len(h.buf) + 1
    <3>1. Len(mark) > 0
      BY <2>1
    <3> QED BY <1>1, <2>1, <3>1, FindInFacts
  <2>3. /\ FindIn(h.buf, mark) \in Nat
        /\ FindIn(h.buf, mark) # 0 => FindIn(h.buf, mark) <= Len(h.buf)
    BY <1>1, <2>1, <2>2
  <2> QED BY <2>3 DEF mark
<1>3. {"bullet", "func", "param"} \subseteq Symbols
  BY DEF Symbols
<1>4. ScanText(h) \in ToolStates
  <2> DEFINE bullet == FindIn(h.buf, <<"bullet">>)
  <2>1. bullet \in Nat /\ (bullet # 0 => bullet <= Len(h.buf))
    BY <1>2, <1>3
  <2>2. bullet = 0 => Show(h, Len(h.buf)) \in ToolStates
    BY <1>1, ShowType
  <2>3. bullet # 0 => Show(h, bullet - 1) \in ToolStates
    <3> SUFFICES ASSUME bullet # 0 PROVE Show(h, bullet - 1) \in ToolStates
      OBVIOUS
    <3>1. bullet - 1 \in Nat /\ bullet - 1 <= Len(h.buf)
      BY <1>1, <2>1
    <3> QED BY <3>1, ShowType
  <2>4. bullet # 0 => [Show(h, bullet - 1) EXCEPT !.state = "matching"] \in ToolStates
    BY <2>3 DEF ToolStates
  <2> QED BY <2>2, <2>4 DEF ScanText
<1>5. MatchFunction(h) \in ToolStates
  <2> DEFINE call == FindIn(h.buf, <<"bullet", "func">>)
  <2>1. call \in Nat
    <3>1. <<"bullet", "func">> \in Text /\ Len(<<"bullet", "func">>) > 0
      BY <1>3 DEF Text
    <3> QED BY <1>1, <3>1, FindInFacts
  <2>2. call > 0 => From(h.buf, call + 2) \in Text
    BY <1>1, <2>1, FromType
  <2>3. call > 0 =>
          [h EXCEPT !.state = "params", !.buf = From(h.buf, call + 2)] \in ToolStates
    BY <2>2 DEF ToolStates
  <2>4. Len(h.buf) > BulletWindow => Show(h, 1) \in ToolStates
    BY <1>1, ShowType, BulletWindowAssumption
  <2>5. Len(h.buf) > BulletWindow => [Show(h, 1) EXCEPT !.state = "text"] \in ToolStates
    BY <2>4 DEF ToolStates
  <2> QED BY <2>3, <2>5 DEF MatchFunction
<1>6. ParseParameters(h) \in ToolStates
  <2> DEFINE param == FindIn(h.buf, <<"param">>)
             bullet == FindIn(h.buf, <<"bullet">>)
             Done(n) == [Show(h, n) EXCEPT !.state = "text", !.calls = @ + 1]
  <2>1. /\ bullet \in Nat /\ (bullet # 0 => bullet <= Len(h.buf))
        /\ param \in Nat /\ (param # 0 => param <= Len(h.buf))
    BY <1>2, <1>3
  <2>2. \A n \in Nat : n <= Len(h.buf) => Done(n) \in ToolStates
    <3> TAKE n \in Nat
    <3> HAVE n <= Len(h.buf)
    <3>1. Show(h, n) \in ToolStates
      BY ShowType
    <3>2. Show(h, n).calls + 1 \in Nat
      BY <3>1 DEF ToolStates
    <3> QED BY <3>1, <3>2 DEF ToolStates
  <2>3. param > 0 => [Show(h, param - 1) EXCEPT !.buf = From(h.buf, param + 1)] \in ToolStates
    <3> SUFFICES ASSUME param > 0
                 PROVE [Show(h, param - 1) EXCEPT !.buf = From(h.buf, param + 1)] \in ToolStates
      OBVIOUS
    <3>1. param - 1 \in Nat /\ param - 1 <= Len(h.buf) /\ param + 1 \in Nat \ {0}
      BY <1>1, <2>1
    <3>2. Show(h, param - 1) \in ToolStates /\ From(h.buf, param + 1) \in Text
      BY <1>1, <3>1, ShowType, FromType
    <3> QED BY <3>2 DEF ToolStates
  <2>4. bullet > 0 => Done(bullet - 1) \in ToolStates
    <3> SUFFICES ASSUME bullet > 0 PROVE bullet - 1 \in Nat /\ bullet - 1 <= Len(h.buf)
      BY <2>2
    <3> QED BY <1>1, <2>1
  <2>5. Done(Len(h.buf)) \in ToolStates
    <3> HIDE DEF Done
    <3> QED BY <1>1, <2>2
  <2> HIDE DEF Done
  <2> QED BY <2>3, <2>4, <2>5 DEF ParseParameters, Done
<1> QED BY <1>4, <1>5, <1>6 DEF ScanStep, ToolStates

\* Its passes as a fold.
ToolPass(h, x) == ScanStep(h)
ToolFold == INSTANCE FoldFacts WITH
  States <- ToolStates, Elements <- Symbols \cup {"end"}, Op <- ToolPass

\* All passes over a text.
LEMMA FeedToolsType ==
  ASSUME NEW h \in ToolStates, NEW text \in Text
  PROVE  FeedTools(h, text) \in ToolStates
<1> DEFINE all == h.buf \o text
           passes == all \o all \o <<"end", "end">>
           fed == [h EXCEPT !.buf = all, !.shown = <<>>, !.calls = 0]
<1>1. all \in Text
  BY DEF ToolStates, Text
<1>2. fed \in ToolStates
  <2> HIDE DEF all
  <2> QED BY <1>1, EmptyText DEF ToolStates
<1>3. passes \in Seq(Symbols \cup {"end"})
  <2>1. all \in Seq(Symbols \cup {"end"})
    BY <1>1, SeqMonotonic DEF Text
  <2>2. <<"end", "end">> \in Seq(Symbols \cup {"end"})
    OBVIOUS
  <2> HIDE DEF all
  <2> QED BY <2>1, <2>2
<1>4. FeedTools(h, text) = ToolFold!Fold(fed, passes)
  BY DEF FeedTools, FoldLeft, MapThenFoldSet, Max, ToolFold!Fold, ToolFold!Largest, ToolPass
<1>5. \A c \in ToolStates, e \in Symbols \cup {"end"} : ToolPass(c, e) \in ToolStates
  BY ScanStepType DEF ToolPass
<1> HIDE DEF fed, passes
<1>6. PICK f \in [0 .. Len(passes) -> ToolStates] :
        ToolFold!Fold(fed, passes) = f[Len(passes)]
  BY <1>2, <1>3, <1>5, ToolFold!FoldSteps
<1>7. Len(passes) \in 0 .. Len(passes)
  BY <1>3
<1> QED BY <1>4, <1>6, <1>7

\* What the tool parser holds at the end.
LEMMA FlushToolsType == \A h : FlushTools(h) \in ToolStates
<1> TAKE h
<1>1. (IF h.state = "params" THEN 1 ELSE 0) \in Nat
  OBVIOUS
<1> QED BY <1>1, EmptyText DEF FlushTools, FreshTools, ToolStates

-----------------------------------------------------------------------------
(* The builder of a chat answer *)

\* The events of a stream.
Emitted ==
  [ev : {"message_start", "message_delta", "message_stop", "error",
         "content_block_start", "content_block_delta", "content_block_stop"},
   ix : Int,
   kind : {"", "text", "thinking", "tool_use", "server_tool_use", "web_tool_result"},
   what : Text]

\* The pieces tool names come in.
Fragments == {"Ta", "sk"} \cup UNION {ToSet(call[2]) : call \in ToolChunks}

\* What a builder keeps of a tool call, and the builder.
Tools ==
  [name : Seq(Fragments), block : Int, shown : Seq(Fragments), pre : Nat, task : Nat,
   taskDone : BOOLEAN, alias : Nat, got : Nat, sent : Nat, deltas : Nat]

Builders ==
  [next : Nat, thinking : Int, text : Int, texted : BOOLEAN, reasoned : BOOLEAN,
   tools : [ToolIndexes -> Tools], out : Seq(Emitted)]

\* Every event that is made is an event.
LEMMA EventTypes ==
  /\ MessageStart \in Emitted /\ MessageDelta \in Emitted /\ MessageStop \in Emitted
  /\ TopLevelError \in Emitted
  /\ \A ix \in Int : StopBlock(ix) \in Emitted
  /\ \A ix \in Int, kind \in {"text", "thinking", "tool_use", "server_tool_use", "web_tool_result"} :
       /\ StartBlock(ix, kind) \in Emitted
       /\ \A what \in Text : DeltaBlock(ix, kind, what) \in Emitted
BY EmptyText DEF MessageStart, MessageDelta, MessageStop, TopLevelError, StopBlock,
   StartBlock, DeltaBlock, Event, Emitted, None

\* A builder yields events.
LEMMA YieldingType ==
  ASSUME NEW b \in Builders, NEW events \in Seq(Emitted)
  PROVE  Yielding(b, events) \in Builders /\ Yielding(b, events).tools = b.tools
<1>1. b.out \o events \in Seq(Emitted)
  BY DEF Builders
<1> QED BY <1>1 DEF Yielding, Builders

\* A builder to begin with.
LEMMA FreshBuilderType == FreshBuilder \in Builders
<1>1. FreshTool \in Tools
  BY DEF FreshTool, Tools, None
<1>2. [i \in ToolIndexes |-> FreshTool] \in [ToolIndexes -> Tools]
  BY <1>1
<1> QED BY <1>2 DEF FreshBuilder, Builders, None

\* Its fields, one by one; the calls are not touched.
LEMMA BuilderUpdates ==
  ASSUME NEW b \in Builders, NEW n \in Nat, NEW x \in Int
  PROVE  /\ [b EXCEPT !.next = n] \in Builders
         /\ [b EXCEPT !.next = n].tools = b.tools
         /\ [b EXCEPT !.thinking = x] \in Builders
         /\ [b EXCEPT !.thinking = x].tools = b.tools
         /\ [b EXCEPT !.text = x] \in Builders
         /\ [b EXCEPT !.text = x].tools = b.tools
         /\ [b EXCEPT !.thinking = x, !.next = n] \in Builders
         /\ [b EXCEPT !.thinking = x, !.next = n].tools = b.tools
         /\ [b EXCEPT !.text = x, !.next = n] \in Builders
         /\ [b EXCEPT !.text = x, !.next = n].tools = b.tools
         /\ [b EXCEPT !.out = <<>>] \in Builders
         /\ [b EXCEPT !.out = <<>>].tools = b.tools
<1>1. [b EXCEPT !.next = n] \in Builders /\ [b EXCEPT !.next = n].tools = b.tools
  BY DEF Builders
<1>2. [b EXCEPT !.thinking = x] \in Builders /\ [b EXCEPT !.thinking = x].tools = b.tools
  BY DEF Builders
<1>3. [b EXCEPT !.text = x] \in Builders /\ [b EXCEPT !.text = x].tools = b.tools
  BY DEF Builders
<1>4. /\ [b EXCEPT !.thinking = x, !.next = n] \in Builders
      /\ [b EXCEPT !.thinking = x, !.next = n].tools = b.tools
  BY DEF Builders
<1>5. /\ [b EXCEPT !.text = x, !.next = n] \in Builders
      /\ [b EXCEPT !.text = x, !.next = n].tools = b.tools
  BY DEF Builders
<1>6. [b EXCEPT !.out = <<>>] \in Builders /\ [b EXCEPT !.out = <<>>].tools = b.tools
  <2>1. <<>> \in Seq(Emitted)
    OBVIOUS
  <2> QED BY <2>1 DEF Builders
<1> QED BY <1>1, <1>2, <1>3, <1>4, <1>5, <1>6

\* The next index, and the one that stands for no block.
LEMMA NextFacts ==
  ASSUME NEW b \in Builders
  PROVE  b.next \in Nat /\ b.next \in Int /\ b.next + 1 \in Nat /\ None \in Int
BY DEF Builders, None

\* The text blocks: opened, continued and closed, apart from the calls.
LEMMA CloseThinkingType ==
  ASSUME NEW b \in Builders
  PROVE  CloseThinking(b) \in Builders /\ CloseThinking(b).tools = b.tools
<1>1. <<StopBlock(b.thinking)>> \in Seq(Emitted)
  BY EventTypes DEF Builders
<1>2. Yielding(b, <<StopBlock(b.thinking)>>) \in Builders
      /\ Yielding(b, <<StopBlock(b.thinking)>>).tools = b.tools
  BY <1>1, YieldingType
<1> QED BY <1>2, NextFacts, BuilderUpdates DEF CloseThinking

LEMMA CloseTextType ==
  ASSUME NEW b \in Builders
  PROVE  CloseText(b) \in Builders /\ CloseText(b).tools = b.tools
<1>1. <<StopBlock(b.text)>> \in Seq(Emitted)
  BY EventTypes DEF Builders
<1>2. Yielding(b, <<StopBlock(b.text)>>) \in Builders
      /\ Yielding(b, <<StopBlock(b.text)>>).tools = b.tools
  BY <1>1, YieldingType
<1> QED BY <1>2, NextFacts, BuilderUpdates DEF CloseText

LEMMA CloseContentType ==
  ASSUME NEW b \in Builders
  PROVE  CloseContent(b) \in Builders /\ CloseContent(b).tools = b.tools
BY CloseThinkingType, CloseTextType DEF CloseContent

LEMMA EmitThinkingType ==
  ASSUME NEW b \in Builders, NEW what \in Text
  PROVE  EmitThinking(b, what) \in Builders /\ EmitThinking(b, what).tools = b.tools
<1> DEFINE c == CloseText(b)
           begun == Yielding(c, <<StartBlock(c.next, "thinking")>>)
           d == IF c.thinking # None THEN c
                ELSE [begun EXCEPT !.thinking = c.next, !.next = @ + 1]
           e == Yielding(d, <<DeltaBlock(d.thinking, "thinking", what)>>)
<1>1. c \in Builders /\ c.tools = b.tools
  BY CloseTextType
<1> HIDE DEF c
<1>2. c.next \in Nat /\ <<StartBlock(c.next, "thinking")>> \in Seq(Emitted)
  BY <1>1, EventTypes DEF Builders
<1>3. begun \in Builders /\ begun.tools = b.tools
  BY <1>1, <1>2, YieldingType
<1> HIDE DEF begun
<1>4. d \in Builders /\ d.tools = b.tools
  <2>1. begun.next + 1 \in Nat /\ c.next \in Int
    BY <1>1, <1>3, NextFacts
  <2> QED BY <1>1, <1>3, <2>1, BuilderUpdates
<1> HIDE DEF d
<1>5. <<DeltaBlock(d.thinking, "thinking", what)>> \in Seq(Emitted)
  BY <1>4, EventTypes DEF Builders
<1>6. e \in Builders /\ e.tools = b.tools
  BY <1>4, <1>5, YieldingType
<1> HIDE DEF e
<1>7. EmitThinking(b, what) = [e EXCEPT !.reasoned = TRUE]
  BY DEF EmitThinking, e, d, begun, c
<1> QED BY <1>6, <1>7 DEF Builders

LEMMA EmitTextType ==
  ASSUME NEW b \in Builders, NEW what \in Text
  PROVE  EmitText(b, what) \in Builders /\ EmitText(b, what).tools = b.tools
<1> DEFINE c == CloseThinking(b)
           begun == Yielding(c, <<StartBlock(c.next, "text")>>)
           d == IF c.text # None THEN c
                ELSE [begun EXCEPT !.text = c.next, !.next = @ + 1]
           e == Yielding(d, <<DeltaBlock(d.text, "text", what)>>)
<1>1. c \in Builders /\ c.tools = b.tools
  BY CloseThinkingType
<1> HIDE DEF c
<1>2. c.next \in Nat /\ <<StartBlock(c.next, "text")>> \in Seq(Emitted)
  BY <1>1, EventTypes DEF Builders
<1>3. begun \in Builders /\ begun.tools = b.tools
  BY <1>1, <1>2, YieldingType
<1> HIDE DEF begun
<1>4. d \in Builders /\ d.tools = b.tools
  <2>1. begun.next + 1 \in Nat /\ c.next \in Int
    BY <1>1, <1>3, NextFacts
  <2> QED BY <1>1, <1>3, <2>1, BuilderUpdates
<1> HIDE DEF d
<1>5. <<DeltaBlock(d.text, "text", what)>> \in Seq(Emitted)
  BY <1>4, EventTypes DEF Builders
<1>6. e \in Builders /\ e.tools = b.tools
  BY <1>4, <1>5, YieldingType
<1> HIDE DEF e
<1>7. EmitText(b, what) = [e EXCEPT !.texted = TRUE]
  BY DEF EmitText, e, d, begun, c
<1> QED BY <1>6, <1>7 DEF Builders

\* A call that was written as text is a block of its own, apart from the others.
LEMMA EmitHeuristicToolType ==
  ASSUME NEW b \in Builders
  PROVE  EmitHeuristicTool(b) \in Builders /\ EmitHeuristicTool(b).tools = b.tools
<1> DEFINE c == CloseContent(b)
           events == <<StartBlock(c.next, "tool_use"), DeltaBlock(c.next, "tool_use", <<>>),
                       StopBlock(c.next)>>
           d == Yielding(c, events)
<1>1. c \in Builders /\ c.tools = b.tools
  BY CloseContentType
<1> HIDE DEF c
<1>2. c.next \in Int
  BY <1>1 DEF Builders
<1>3. events \in Seq(Emitted)
  <2>1. \A x, y, z \in Emitted : <<x, y, z>> \in Seq(Emitted)
    OBVIOUS
  <2> QED BY <1>2, <2>1, EventTypes, EmptyText
<1> HIDE DEF events
<1>4. d \in Builders /\ d.tools = b.tools
  BY <1>1, <1>3, YieldingType
<1> HIDE DEF d
<1> DEFINE m == d.next + 1
<1>5. EmitHeuristicTool(b) = [d EXCEPT !.next = m]
  BY DEF EmitHeuristicTool, d, events, c
<1>6. m \in Nat
  BY <1>4, NextFacts
<1> HIDE DEF m
<1> QED BY <1>4, <1>5, <1>6 DEF Builders

\* Several of them as a fold.
HeuristicPass(c, x) == EmitHeuristicTool(c)
HeuristicFold == INSTANCE FoldFacts WITH
  States <- Builders, Elements <- Nat, Op <- HeuristicPass

LEMMA EmitHeuristicToolsType ==
  ASSUME NEW b \in Builders, NEW n \in Nat
  PROVE  EmitHeuristicTools(b, n) \in Builders /\ EmitHeuristicTools(b, n).tools = b.tools
<1> DEFINE seq == [j \in 1 .. n |-> j]
<1>1. seq \in Seq(Nat) /\ Len(seq) = n
  OBVIOUS
<1>2. EmitHeuristicTools(b, n) = HeuristicFold!Fold(b, seq)
  BY DEF EmitHeuristicTools, FoldLeft, MapThenFoldSet, Max, HeuristicFold!Fold,
         HeuristicFold!Largest, HeuristicPass
<1>3. \A c \in Builders, e \in Nat :
        HeuristicPass(c, e) \in Builders /\ HeuristicPass(c, e).tools = c.tools
  BY EmitHeuristicToolType DEF HeuristicPass
<1> HIDE DEF seq
<1> DEFINE Good == {c \in Builders : c.tools = b.tools}
<1>4. b \in Good /\ \A c \in Builders \cap Good, e \in Nat : HeuristicPass(c, e) \in Good
  BY <1>3
<1>5. HeuristicFold!Fold(b, seq) \in Builders \cap Good
  <2> HIDE DEF Good
  <2> QED BY <1>1, <1>3, <1>4, HeuristicFold!FoldKeeps
<1> QED BY <1>2, <1>5

-----------------------------------------------------------------------------
(* Tool calls *)

\* A call of the builder is replaced.
LEMMA ToolsUpdate ==
  ASSUME NEW b \in Builders, NEW i \in ToolIndexes, NEW t \in Tools
  PROVE  /\ [b EXCEPT !.tools[i] = t] \in Builders
         /\ [b EXCEPT !.tools[i] = t].tools = [b.tools EXCEPT ![i] = t]
BY DEF Builders

\* Pieces are sent in one delta, and counted.
LEMMA SendArgsType ==
  ASSUME NEW b \in Builders, NEW i \in ToolIndexes, NEW n \in Nat
  PROVE  /\ SendArgs(b, i, n) \in Builders
         /\ SendArgs(b, i, n).tools =
              [b.tools EXCEPT ![i] = [b.tools[i] EXCEPT !.sent = @ + n, !.deltas = @ + 1]]
<1> DEFINE t == b.tools[i]
           events == <<DeltaBlock(t.block, "tool_use", <<>>)>>
           c == Yielding(b, events)
           u == [t EXCEPT !.sent = @ + n, !.deltas = @ + 1]
<1>1. t \in Tools /\ t.block \in Int
  BY DEF Builders, Tools
<1>2. events \in Seq(Emitted)
  BY <1>1, EventTypes, EmptyText
<1>3. c \in Builders /\ c.tools = b.tools
  BY <1>2, YieldingType
<1>4. t.sent + n \in Nat /\ t.deltas + 1 \in Nat
  <2> HIDE DEF t
  <2> QED BY <1>1 DEF Tools
<1>5. u \in Tools
  BY <1>1, <1>4 DEF Tools
<1>6. SendArgs(b, i, n) = [c EXCEPT !.tools[i] = u]
  <2>1. c.tools[i] = t
    BY <1>3
  <2> HIDE DEF c
  <2>2. [c EXCEPT !.tools[i].sent = @ + n, !.tools[i].deltas = @ + 1] = [c EXCEPT !.tools[i] = u]
    BY <1>1, <1>3, <2>1 DEF Builders, Tools
  <2> QED BY <2>2 DEF SendArgs, c
<1> HIDE DEF c, u
<1>7. [c EXCEPT !.tools[i] = u].tools = [b.tools EXCEPT ![i] = u]
  BY <1>3, <1>5, ToolsUpdate
<1> QED BY <1>3, <1>5, <1>6, <1>7, ToolsUpdate DEF u

\* The calls in some order: each of them is in it.
LEMMA EveryToolFacts ==
  /\ EveryTool \in Seq(ToolIndexes)
  /\ \A i \in ToolIndexes : \E j \in 1 .. Len(EveryTool) : EveryTool[j] = i
<1> DEFINE n == Cardinality(ToolIndexes)
<1>1. n \in Nat /\ ExistsBijection(1 .. n, ToolIndexes)
  BY ToolAssumption, FS_CardinalityType
<1>2. PICK g : g \in Bijection(1 .. n, ToolIndexes)
  BY <1>1 DEF ExistsBijection
<1>3. EveryTool \in [1 .. n -> ToolIndexes] /\ IsInjective(EveryTool)
  <2>1. g \in [1 .. n -> ToolIndexes] /\ IsInjective(g)
    BY <1>2 DEF Bijection, Injection
  <2> QED BY <2>1 DEF EveryTool, SetToSeq
<1>4. EveryTool \in Injection(1 .. n, ToolIndexes)
  BY <1>3 DEF Injection
<1>5. Cardinality(1 .. n) = n
  BY <1>1, FS_Interval
<1>6. EveryTool \in Surjection(1 .. n, ToolIndexes)
  BY <1>4, <1>5, ToolAssumption, FS_Injection
<1>7. EveryTool \in Seq(ToolIndexes) /\ Len(EveryTool) = n
  BY <1>1, <1>3
<1> QED BY <1>6, <1>7 DEF Surjection

\* Where the n pieces of a call with its whole name are: sent, or with the aliases, or
\* gathered for a Task until they are complete, in one delta.
Accounted(t, n) ==
  IF t.name = TaskName
  THEN /\ t.alias = 0
       /\ IF t.taskDone
          THEN t.deltas = 1 /\ t.task = 0 /\ n >= ArgPieces /\ (n = ArgPieces => t.sent = n)
          ELSE t.deltas = 0 /\ t.sent = 0 /\ t.task = n /\ n # ArgPieces
  ELSE /\ t.task = 0 /\ ~t.taskDone
       /\ IF t.name \in Aliased THEN t.alias + t.sent = n ELSE t.alias = 0 /\ t.sent = n

\* The pieces of a call are all before its name, or accounted for.
Recorded(t) ==
  IF t.block = None
  THEN /\ t.pre = t.got /\ t.task = 0 /\ ~t.taskDone /\ t.alias = 0
       /\ t.sent = 0 /\ t.deltas = 0
  ELSE /\ t.pre = 0 /\ Len(t.shown) <= Len(t.name)
       /\ t.shown = t.name => Accounted(t, t.got)

\* Nothing but the places of the pieces has changed.
SameCall(t, u) ==
  /\ u.name = t.name /\ u.block = t.block /\ u.shown = t.shown
  /\ u.pre = t.pre /\ u.got = t.got

Recording(b) == \A i \in ToolIndexes : Recorded(b.tools[i])

\* More pieces of a started call: those accounted for still are, with them.
LEMMA EmitArgsType ==
  ASSUME NEW b \in Builders, NEW i \in ToolIndexes, NEW n \in Nat
  PROVE  /\ EmitArgs(b, i, n) \in Builders
         /\ \A j \in ToolIndexes \ {i} : EmitArgs(b, i, n).tools[j] = b.tools[j]
         /\ SameCall(b.tools[i], EmitArgs(b, i, n).tools[i])
         /\ \A k \in Nat : Accounted(b.tools[i], k) => Accounted(EmitArgs(b, i, n).tools[i], k + n)
<1> DEFINE t == b.tools[i]
           e == EmitArgs(b, i, n)
<1>1. /\ t \in Tools /\ t.task \in Nat /\ t.alias \in Nat /\ t.sent \in Nat /\ t.deltas \in Nat
      /\ t.taskDone \in BOOLEAN /\ ArgPieces \in Nat
  BY ToolAssumption DEF Builders, Tools
<1> DEFINE Goal == /\ e \in Builders
                   /\ \A j \in ToolIndexes \ {i} : e.tools[j] = b.tools[j]
                   /\ SameCall(t, e.tools[i])
                   /\ \A k \in Nat : Accounted(t, k) => Accounted(e.tools[i], k + n)
<1> SUFFICES Goal
  OBVIOUS
<1>2. ASSUME NEW c \in Builders, NEW u \in Tools, c.tools = [b.tools EXCEPT ![i] = u],
             e = c, SameCall(t, u), \A k \in Nat : Accounted(t, k) => Accounted(u, k + n)
      PROVE  Goal
  <2> HIDE DEF e
  <2>1. c.tools[i] = u
    BY <1>2 DEF Builders
  <2>2. \A j \in ToolIndexes \ {i} : c.tools[j] = b.tools[j]
    BY <1>2 DEF Builders
  <2> QED BY <1>2, <2>1, <2>2
<1>3. ASSUME NEW m \in Nat
      PROVE  /\ SendArgs(b, i, m) \in Builders
             /\ SendArgs(b, i, m).tools =
                  [b.tools EXCEPT ![i] = [t EXCEPT !.sent = @ + m, !.deltas = @ + 1]]
             /\ [t EXCEPT !.sent = @ + m, !.deltas = @ + 1] \in Tools
             /\ SendArgs(b, i, m).tools[i] = [t EXCEPT !.sent = @ + m, !.deltas = @ + 1]
  <2>1. /\ SendArgs(b, i, m) \in Builders
        /\ SendArgs(b, i, m).tools =
             [b.tools EXCEPT ![i] = [t EXCEPT !.sent = @ + m, !.deltas = @ + 1]]
    BY SendArgsType
  <2>2. t.sent + m \in Nat /\ t.deltas + 1 \in Nat
    BY <1>1
  <2> HIDE DEF t
  <2>3. [t EXCEPT !.sent = @ + m, !.deltas = @ + 1] \in Tools
    BY <1>1, <2>2 DEF Tools
  <2>4. SendArgs(b, i, m).tools[i] = [t EXCEPT !.sent = @ + m, !.deltas = @ + 1]
    BY <2>1 DEF Builders
  <2> QED BY <2>1, <2>3, <2>4
<1>4. CASE n = 0
  <2>1. e = b
    BY <1>4 DEF EmitArgs
  <2>2. SameCall(t, t) /\ b.tools = [b.tools EXCEPT ![i] = t]
    BY DEF SameCall, Builders
  <2>3. \A k \in Nat : Accounted(t, k) => Accounted(t, k + n)
    BY <1>4
  <2> QED BY <2>1, <2>2, <2>3, <1>1, <1>2
<1>5. CASE n > 0 /\ t.name = TaskName /\ t.taskDone
  <2>1. e = b
    BY <1>5 DEF EmitArgs
  <2>2. SameCall(t, t) /\ b.tools = [b.tools EXCEPT ![i] = t]
    BY DEF SameCall, Builders
  <2> HIDE DEF t
  <2>3. \A k \in Nat : Accounted(t, k) => Accounted(t, k + n)
    BY <1>5, <1>1 DEF Accounted
  <2> QED BY <2>1, <2>2, <2>3, <1>1, <1>2
<1>6. CASE n > 0 /\ t.name = TaskName /\ ~t.taskDone /\ t.task + n # ArgPieces
  <2> DEFINE m == t.task + n
             u == [t EXCEPT !.task = m]
  <2>1. e = [b EXCEPT !.tools[i] = u]
    <3>1. e = [b EXCEPT !.tools[i].task = m]
      BY <1>6 DEF EmitArgs
    <3> QED BY <3>1 DEF Builders
  <2>2. m \in Nat
    BY <1>1
  <2> HIDE DEF t, e
  <2>3. \A k \in Nat : Accounted(t, k) => Accounted(u, k + n)
    <3>1. \A k \in Nat : Accounted(t, k) => m = k + n
      BY <1>6, <1>1 DEF Accounted
    <3>2. u.task = m /\ u.name = t.name /\ u.taskDone = t.taskDone /\ u.deltas = t.deltas
          /\ u.sent = t.sent /\ u.alias = t.alias
      BY <1>1 DEF Tools
    <3>3. m # ArgPieces
      BY <1>6
    <3> HIDE DEF m, u
    <3> QED BY <1>6, <3>1, <3>2, <3>3 DEF Accounted
  <2> HIDE DEF m
  <2>4. u \in Tools
    BY <1>1, <2>2 DEF Tools
  <2>5. SameCall(t, u)
    BY <1>1 DEF Tools, SameCall
  <2> HIDE DEF u
  <2>6. [b EXCEPT !.tools[i] = u] \in Builders
        /\ [b EXCEPT !.tools[i] = u].tools = [b.tools EXCEPT ![i] = u]
    BY <2>4, ToolsUpdate
  <2> HIDE DEF Goal
  <2> QED BY <2>1, <2>3, <2>4, <2>5, <2>6, <1>2
<1>7. CASE n > 0 /\ t.name = TaskName /\ ~t.taskDone /\ t.task + n = ArgPieces
  <2> DEFINE m == t.task + n
             s == SendArgs(b, i, m)
             v == [t EXCEPT !.sent = @ + m, !.deltas = @ + 1]
             u == [v EXCEPT !.task = 0, !.taskDone = TRUE]
  <2>1. e = [s EXCEPT !.tools[i].task = 0, !.tools[i].taskDone = TRUE]
    BY <1>7 DEF EmitArgs
  <2>2. m \in Nat
    BY <1>1
  <2>3. s \in Builders /\ s.tools[i] = v /\ v \in Tools /\ s.tools = [b.tools EXCEPT ![i] = v]
    BY <2>2, <1>3
  <2> HIDE DEF s, e
  <2>4. e = [s EXCEPT !.tools[i] = u]
    <3> HIDE DEF v
    <3>1. [s EXCEPT !.tools[i].task = 0, !.tools[i].taskDone = TRUE] = [s EXCEPT !.tools[i] = u]
      BY <2>3 DEF Builders, Tools
    <3> QED BY <2>1, <3>1
  <2> HIDE DEF t
  <2>5. \A k \in Nat : Accounted(t, k) => Accounted(u, k + n)
    <3>1. \A k \in Nat : Accounted(t, k) => m = k + n /\ t.deltas = 0 /\ t.sent = 0 /\ t.alias = 0
      BY <1>7, <1>1 DEF Accounted
    <3>2. u.task = 0 /\ u.name = t.name /\ u.taskDone = TRUE /\ u.deltas = t.deltas + 1
          /\ u.sent = t.sent + m /\ u.alias = t.alias
      BY <1>1 DEF Tools
    <3>3. m = ArgPieces
      BY <1>7
    <3> HIDE DEF m, u
    <3> QED BY <1>1, <1>7, <2>2, <3>1, <3>2, <3>3 DEF Accounted
  <2>6. SameCall(t, u)
    <3> HIDE DEF m
    <3> QED BY <1>1 DEF Tools, SameCall
  <2> HIDE DEF v
  <2>7. u \in Tools
    BY <2>3 DEF Tools
  <2> HIDE DEF u, m
  <2>8. [s EXCEPT !.tools[i] = u] \in Builders
        /\ [s EXCEPT !.tools[i] = u].tools = [s.tools EXCEPT ![i] = u]
    BY <2>3, <2>7, ToolsUpdate
  <2>9. [s.tools EXCEPT ![i] = u] = [b.tools EXCEPT ![i] = u]
    BY <2>3 DEF Builders
  <2> HIDE DEF Goal
  <2> QED BY <2>4, <2>5, <2>6, <2>7, <2>8, <2>9, <1>2
<1>8. CASE n > 0 /\ t.name # TaskName /\ t.name \in Aliased /\ t.alias + n # ArgPieces
  <2> DEFINE m == t.alias + n
             u == [t EXCEPT !.alias = m]
  <2>1. e = [b EXCEPT !.tools[i] = u]
    <3>1. e = [b EXCEPT !.tools[i].alias = m]
      BY <1>8 DEF EmitArgs
    <3> QED BY <3>1 DEF Builders
  <2>2. m \in Nat
    BY <1>1
  <2> HIDE DEF t, e
  <2>3. \A k \in Nat : Accounted(t, k) => Accounted(u, k + n)
    <3>1. \A k \in Nat : Accounted(t, k) => m + t.sent = k + n
      BY <1>8, <1>1 DEF Accounted
    <3>2. u.task = t.task /\ u.name = t.name /\ u.taskDone = t.taskDone
          /\ u.sent = t.sent /\ u.alias = m
      BY <1>1 DEF Tools
    <3> HIDE DEF m, u
    <3> QED BY <1>8, <3>1, <3>2 DEF Accounted
  <2> HIDE DEF m
  <2>4. u \in Tools
    BY <1>1, <2>2 DEF Tools
  <2>5. SameCall(t, u)
    BY <1>1 DEF Tools, SameCall
  <2> HIDE DEF u
  <2>6. [b EXCEPT !.tools[i] = u] \in Builders
        /\ [b EXCEPT !.tools[i] = u].tools = [b.tools EXCEPT ![i] = u]
    BY <2>4, ToolsUpdate
  <2> HIDE DEF Goal
  <2> QED BY <2>1, <2>3, <2>4, <2>5, <2>6, <1>2
<1>9. CASE n > 0 /\ t.name # TaskName /\ t.name \in Aliased /\ t.alias + n = ArgPieces
  <2> DEFINE m == t.alias + n
             s == SendArgs(b, i, m)
             v == [t EXCEPT !.sent = @ + m, !.deltas = @ + 1]
             u == [v EXCEPT !.alias = 0]
  <2>1. e = [s EXCEPT !.tools[i].alias = 0]
    BY <1>9 DEF EmitArgs
  <2>2. m \in Nat
    BY <1>1
  <2>3. s \in Builders /\ s.tools[i] = v /\ v \in Tools /\ s.tools = [b.tools EXCEPT ![i] = v]
    BY <2>2, <1>3
  <2> HIDE DEF s, e
  <2>4. e = [s EXCEPT !.tools[i] = u]
    <3> HIDE DEF v
    <3>1. [s EXCEPT !.tools[i].alias = 0] = [s EXCEPT !.tools[i] = u]
      BY <2>3 DEF Builders, Tools
    <3> QED BY <2>1, <3>1
  <2> HIDE DEF t
  <2>5. \A k \in Nat : Accounted(t, k) => Accounted(u, k + n)
    <3>1. \A k \in Nat : Accounted(t, k) => m + t.sent = k + n
      BY <1>9, <1>1 DEF Accounted
    <3>2. u.task = t.task /\ u.name = t.name /\ u.taskDone = t.taskDone
          /\ u.sent = t.sent + m /\ u.alias = 0
      BY <1>1 DEF Tools
    <3> HIDE DEF m, u
    <3> QED BY <1>1, <1>9, <2>2, <3>1, <3>2 DEF Accounted
  <2>6. SameCall(t, u)
    <3> HIDE DEF m
    <3> QED BY <1>1 DEF Tools, SameCall
  <2> HIDE DEF v
  <2>7. u \in Tools
    BY <2>3 DEF Tools
  <2> HIDE DEF u, m
  <2>8. [s EXCEPT !.tools[i] = u] \in Builders
        /\ [s EXCEPT !.tools[i] = u].tools = [s.tools EXCEPT ![i] = u]
    BY <2>3, <2>7, ToolsUpdate
  <2>9. [s.tools EXCEPT ![i] = u] = [b.tools EXCEPT ![i] = u]
    BY <2>3 DEF Builders
  <2> HIDE DEF Goal
  <2> QED BY <2>4, <2>5, <2>6, <2>7, <2>8, <2>9, <1>2
<1>10. CASE n > 0 /\ t.name # TaskName /\ t.name \notin Aliased
  <2> DEFINE s == SendArgs(b, i, n)
             u == [t EXCEPT !.sent = @ + n, !.deltas = @ + 1]
  <2>1. e = s
    BY SMTT(30), <1>10 DEF EmitArgs
  <2>2. s \in Builders /\ u \in Tools /\ s.tools = [b.tools EXCEPT ![i] = u]
    BY <1>3
  <2> HIDE DEF s, e, t
  <2>3. \A k \in Nat : Accounted(t, k) => Accounted(u, k + n)
    <3>1. u.task = t.task /\ u.name = t.name /\ u.taskDone = t.taskDone
          /\ u.sent = t.sent + n /\ u.alias = t.alias
      BY <1>1 DEF Tools
    <3> HIDE DEF u
    <3> QED BY <1>1, <1>10, <3>1 DEF Accounted
  <2>4. SameCall(t, u)
    BY <1>1 DEF Tools, SameCall
  <2> HIDE DEF u, Goal
  <2> QED BY <2>1, <2>2, <2>3, <2>4, <1>2
<1> QED BY <1>1, <1>4, <1>5, <1>6, <1>7, <1>8, <1>9, <1>10

\* A name only grows by its fragments.
LEMMA MergedNameFacts ==
  ASSUME NEW old \in Seq(Fragments), NEW new \in Seq(Fragments)
  PROVE  /\ MergedName(old, new) \in Seq(Fragments)
         /\ MergedName(old, new) = old \/ Len(MergedName(old, new)) > Len(old)
<1>1. CASE IsPrefix(old, new)
  <2>1. Len(old) <= Len(new) /\ (Len(old) = Len(new) => old = new)
    BY <1>1 DEF IsPrefix
  <2> QED BY <1>1, <2>1 DEF MergedName
<1>2. CASE ~IsPrefix(old, new) /\ IsPrefix(new, old)
  BY <1>2 DEF MergedName
<1>3. CASE ~IsPrefix(old, new) /\ ~IsPrefix(new, old)
  <2>1. new # <<>>
    <3> SUFFICES ASSUME new = <<>> PROVE FALSE
      OBVIOUS
    <3> QED BY <1>3 DEF IsPrefix
  <2>2. Len(old \o new) > Len(old) /\ old \o new \in Seq(Fragments)
    BY <2>1
  <2> QED BY <1>3, <2>2 DEF MergedName
<1> QED BY <1>1, <1>2, <1>3

\* A call that had every piece recorded has every piece recorded after more of them.
LEMMA ArgsRecorded ==
  ASSUME NEW t \in Tools, NEW u \in Tools, NEW k \in Nat, NEW n \in Nat, SameCall(t, u),
         \A m \in Nat : Accounted(t, m) => Accounted(u, m + n),
         t.block # None, t.pre = 0, Len(t.shown) <= Len(t.name), t.got = k + n,
         t.shown = t.name => Accounted(t, k)
  PROVE  Recorded(u)
BY DEF SameCall, Recorded

\* The block of a call starts, with the pieces that came before its name.
LEMMA StartToolType ==
  ASSUME NEW b \in Builders, NEW i \in ToolIndexes, NEW n \in Nat,
         Recorded([b.tools[i] EXCEPT !.got = n]), b.tools[i].block = None,
         b.tools[i].got \in Nat
  PROVE  LET c == StartTool(b, i) IN
         /\ c \in Builders
         /\ \A j \in ToolIndexes \ {i} : c.tools[j] = b.tools[j]
         /\ c.tools[i].block # None /\ c.tools[i].pre = 0
         /\ c.tools[i].got = b.tools[i].got /\ c.tools[i].shown = c.tools[i].name
         /\ c.tools[i].shown = b.tools[i].name
         /\ Accounted(c.tools[i], n)
<1> DEFINE t == b.tools[i]
           s == [t EXCEPT !.got = n]
           x == b.next
           u == [t EXCEPT !.block = x, !.shown = t.name, !.pre = 0]
           d == Yielding(b, <<StartBlock(x, "tool_use")>>)
           m == x + 1
           e == [d EXCEPT !.next = m]
           c == [e EXCEPT !.tools[i] = u]
           f == EmitArgs(c, i, t.pre)
<1>1. t \in Tools /\ x \in Nat /\ x \in Int /\ m \in Nat /\ x # None
  BY DEF Builders, None
<1>2. <<StartBlock(x, "tool_use")>> \in Seq(Emitted)
  BY <1>1, EventTypes
<1>3. d \in Builders /\ d.tools = b.tools
  BY <1>2, YieldingType
<1> HIDE DEF d, m, x
<1>4. e \in Builders /\ e.tools = b.tools
  BY <1>1, <1>3 DEF Builders
<1>5. StartTool(b, i) = f
  <2> DEFINE t1 == [t EXCEPT !.block = x]
             t2 == [t1 EXCEPT !.shown = t.name]
             c1 == [e EXCEPT !.tools[i] = t1]
             c2 == [c1 EXCEPT !.tools[i] = t2]
             all == [d EXCEPT !.next = @ + 1, !.tools[i].block = x,
                              !.tools[i].shown = t.name, !.tools[i].pre = 0]
  <2>1. d.next + 1 = m /\ d.next = x
    <3>1. d.next = x
      BY DEF d, Yielding, Builders, x
    <3> QED BY <3>1 DEF m
  <2>2. StartTool(b, i) = EmitArgs(all, i, t.pre)
    BY DEF StartTool, d, x
  <2>3. all = [[[e EXCEPT !.tools[i].block = x] EXCEPT !.tools[i].shown = t.name]
                EXCEPT !.tools[i].pre = 0]
    <3> HIDE DEF t
    <3> QED BY <2>1
  <2> HIDE DEF e, all
  <2>4. e.tools[i] = t
    BY <1>4
  <2> HIDE DEF t
  <2>5. [e EXCEPT !.tools[i].block = x] = c1
    BY <1>1, <1>4, <2>4 DEF Builders, Tools
  <2>6. t1 \in Tools /\ t2 \in Tools
    BY <1>1 DEF Tools
  <2> HIDE DEF t1
  <2>7. c1 \in Builders /\ c1.tools[i] = t1
    <3>1. c1 \in Builders /\ c1.tools = [e.tools EXCEPT ![i] = t1]
      BY <1>4, <2>6, ToolsUpdate
    <3> QED BY <3>1, <1>4 DEF Builders
  <2> HIDE DEF c1
  <2>8. [c1 EXCEPT !.tools[i].shown = t.name] = c2
    BY <2>6, <2>7 DEF Builders, Tools
  <2> HIDE DEF t2
  <2>9. c2 \in Builders /\ c2.tools[i] = t2
    <3>1. c2 \in Builders /\ c2.tools = [c1.tools EXCEPT ![i] = t2]
      BY <2>6, <2>7, ToolsUpdate
    <3> QED BY <3>1, <2>7 DEF Builders
  <2> HIDE DEF c2
  <2>10. [c2 EXCEPT !.tools[i].pre = 0] = [c2 EXCEPT !.tools[i] = [t2 EXCEPT !.pre = 0]]
    BY <2>6, <2>9 DEF Builders, Tools
  <2>11. [t2 EXCEPT !.pre = 0] = u
    BY <1>1 DEF Tools, t1, t2
  <2>12. [c2 EXCEPT !.tools[i] = u] = c
    <3> HIDE DEF u
    <3>1. c2 = [c1 EXCEPT !.tools[i] = t2] /\ c1 = [e EXCEPT !.tools[i] = t1]
      BY DEF c1, c2
    <3> QED BY <1>4, <3>1 DEF Builders
  <2> HIDE DEF c, u
  <2> QED BY <2>2, <2>3, <2>5, <2>8, <2>10, <2>11, <2>12
<1> HIDE DEF e
<1>6. t.pre = n /\ t.task = 0 /\ ~t.taskDone /\ t.alias = 0 /\ t.sent = 0 /\ t.deltas = 0
  <2>1. s.block = None /\ s.got = n /\ s.pre = t.pre /\ s.task = t.task /\ s.alias = t.alias
        /\ s.taskDone = t.taskDone /\ s.sent = t.sent /\ s.deltas = t.deltas
    BY <1>1 DEF Tools
  <2> HIDE DEF s, t
  <2> QED BY <2>1 DEF Recorded, s, t
<1> HIDE DEF t
<1>7. u \in Tools /\ u.block = x /\ u.pre = 0 /\ u.got = t.got /\ u.name = t.name
      /\ u.shown = t.name /\ u.task = 0 /\ ~u.taskDone /\ u.alias = 0 /\ u.sent = 0 /\ u.deltas = 0
  BY <1>1, <1>6 DEF Tools
<1> HIDE DEF u
<1>8. Accounted(u, 0)
  BY <1>7, ToolAssumption DEF Accounted
<1>9. c \in Builders /\ c.tools = [b.tools EXCEPT ![i] = u] /\ c.tools[i] = u
  <2>1. c \in Builders /\ c.tools = [e.tools EXCEPT ![i] = u]
    BY <1>4, <1>7, ToolsUpdate
  <2>2. c.tools[i] = u
    BY <2>1, <1>4 DEF Builders
  <2> QED BY <2>1, <2>2, <1>4
<1>10. \A j \in ToolIndexes \ {i} : c.tools[j] = b.tools[j]
  BY <1>9 DEF Builders
<1> HIDE DEF c
<1>11. /\ f \in Builders
       /\ \A j \in ToolIndexes \ {i} : f.tools[j] = c.tools[j]
       /\ SameCall(c.tools[i], f.tools[i])
       /\ \A k \in Nat : Accounted(c.tools[i], k) => Accounted(f.tools[i], k + n)
  <2>1. f = EmitArgs(c, i, n)
    BY <1>6
  <2> HIDE DEF f
  <2>2. c \in Builders
    BY <1>9
  <2>3. /\ EmitArgs(c, i, n) \in Builders
        /\ \A j \in ToolIndexes \ {i} : EmitArgs(c, i, n).tools[j] = c.tools[j]
        /\ SameCall(c.tools[i], EmitArgs(c, i, n).tools[i])
        /\ \A k \in Nat : Accounted(c.tools[i], k) => Accounted(EmitArgs(c, i, n).tools[i], k + n)
    BY <2>2, EmitArgsType
  <2> QED BY <2>1, <2>3
<1>12. Accounted(f.tools[i], n)
  <2>1. Accounted(f.tools[i], 0 + n)
    BY <1>8, <1>9, <1>11
  <2> QED BY <2>1
<1> HIDE DEF f
<1> QED BY <1>1, <1>5, <1>7, <1>9, <1>10, <1>11, <1>12 DEF SameCall, t

\* A chunk with a piece of a call, of its name or of its arguments.
LEMMA ToolDeltaType ==
  ASSUME NEW b \in Builders, NEW i \in ToolIndexes, NEW name \in Seq(Fragments),
         NEW args \in Nat, Recording(b)
  PROVE  ToolDelta(b, i, name, args) \in Builders /\ Recording(ToolDelta(b, i, name, args))
<1> DEFINE a == CloseContent(b)
           t == b.tools[i]
           more == t.got + args
           merged == MergedName(t.name, name)
           s == [t EXCEPT !.name = merged, !.got = more]
           c == [a EXCEPT !.tools[i] = s]
           d == IF c.tools[i].block = None /\ c.tools[i].name # <<>> THEN StartTool(c, i) ELSE c
           r == ToolDelta(b, i, name, args)
<1>1. a \in Builders /\ a.tools = b.tools
  BY CloseContentType
<1>2. t \in Tools /\ Recorded(t)
  BY DEF Builders, Recording
<1> HIDE DEF a
<1>3. /\ merged \in Seq(Fragments) /\ more \in Nat
      /\ merged = t.name \/ Len(merged) > Len(t.name)
  <2>1. t.name \in Seq(Fragments) /\ t.got \in Nat
    BY <1>2 DEF Tools
  <2> QED BY <2>1, MergedNameFacts
<1>4. [a EXCEPT !.tools[i].name = MergedName(@, name), !.tools[i].got = @ + args] = c
  <2>1. a.tools[i] = t
    BY <1>1
  <2>2. [a EXCEPT !.tools[i].name = MergedName(a.tools[i].name, name),
                  !.tools[i].got = a.tools[i].got + args]
        = [a EXCEPT !.tools[i].name = merged, !.tools[i].got = more]
    BY <2>1
  <2> HIDE DEF merged, more
  <2>3. [a EXCEPT !.tools[i].name = merged, !.tools[i].got = more] = c
    BY <2>1, <1>1 DEF Builders, Tools
  <2> QED BY <2>2, <2>3
<1>5. r = IF d.tools[i].block = None THEN [d EXCEPT !.tools[i].pre = @ + args]
          ELSE EmitArgs(d, i, args)
  <2> DEFINE c0 == [a EXCEPT !.tools[i].name = MergedName(@, name), !.tools[i].got = @ + args]
             d0 == IF c0.tools[i].block = None /\ c0.tools[i].name # <<>>
                   THEN StartTool(c0, i) ELSE c0
  <2>1. r = IF d0.tools[i].block = None THEN [d0 EXCEPT !.tools[i].pre = @ + args]
            ELSE EmitArgs(d0, i, args)
    BY DEF ToolDelta, a
  <2>2. c0 = c
    BY <1>4
  <2> HIDE DEF c0, c, r
  <2>3. d0 = d
    BY <2>2
  <2> HIDE DEF d, d0
  <2> QED BY <2>1, <2>3
<1> HIDE DEF merged, r
<1>6. s \in Tools /\ s.block = t.block /\ s.got = more /\ s.name = merged /\ s.shown = t.shown
      /\ s.pre = t.pre
  BY <1>2, <1>3 DEF Tools
<1>7. c \in Builders /\ c.tools[i] = s /\ \A j \in ToolIndexes \ {i} : c.tools[j] = b.tools[j]
  <2> HIDE DEF s
  <2>1. c \in Builders /\ c.tools = [b.tools EXCEPT ![i] = s]
    BY <1>1, <1>6, ToolsUpdate
  <2> HIDE DEF c
  <2> QED BY <2>1 DEF Builders
<1>8. [s EXCEPT !.got = t.got] \in Tools /\ (t.block = None => Recorded([s EXCEPT !.got = t.got]))
  <2> DEFINE w == [s EXCEPT !.got = t.got]
  <2>1. w \in Tools /\ w.block = t.block /\ w.got = t.got /\ w.pre = t.pre /\ w.task = t.task
        /\ w.taskDone = t.taskDone /\ w.alias = t.alias /\ w.sent = t.sent /\ w.deltas = t.deltas
    <3> HIDE DEF more, t
    <3> QED BY <1>2, <1>3 DEF Tools
  <2> HIDE DEF w
  <2>2. t.block = None => Recorded(w)
    BY <1>2, <2>1 DEF Recorded
  <2> QED BY <2>1, <2>2 DEF w
<1>9. t.got \in Nat
  BY <1>2 DEF Tools
\* The tool of this call is recorded and the others are as they were.
<1>10. ASSUME r \in Builders, \A j \in ToolIndexes \ {i} : r.tools[j] = b.tools[j],
              Recorded(r.tools[i])
       PROVE  ToolDelta(b, i, name, args) \in Builders
              /\ Recording(ToolDelta(b, i, name, args))
  <2>1. \A j \in ToolIndexes : Recorded(r.tools[j])
    BY <1>10 DEF Recording
  <2> QED BY <1>10, <2>1 DEF Recording, r
<1>11. CASE t.block = None /\ s.name = <<>>
  <2> HIDE DEF s
  <2>1. d = c /\ d.tools[i].block = None
    BY <1>6, <1>7, <1>11
  <2> DEFINE p == t.pre + args
             u == [s EXCEPT !.pre = p]
  <2>2. p \in Nat
    BY SMTT(30), <1>2 DEF Tools
  <2>3. [d EXCEPT !.tools[i].pre = @ + args] = [c EXCEPT !.tools[i] = u]
    <3>1. c.tools[i].pre + args = p
      BY <1>6, <1>7
    <3> HIDE DEF c, d, p
    <3>2. [c EXCEPT !.tools[i].pre = p] = [c EXCEPT !.tools[i] = u]
      BY <1>6, <1>7 DEF Builders, Tools
    <3> QED BY <2>1, <3>1, <3>2
  <2>4. r = [c EXCEPT !.tools[i] = u]
    <3> HIDE DEF d, c, u
    <3> QED BY <1>5, <2>1, <2>3
  <2> HIDE DEF p, c, d, t
  <2>5. u \in Tools /\ u.block = None /\ u.pre = p /\ u.got = more /\ u.task = t.task
        /\ u.taskDone = t.taskDone /\ u.alias = t.alias /\ u.sent = t.sent /\ u.deltas = t.deltas
    <3>1. s.task = t.task /\ s.taskDone = t.taskDone /\ s.alias = t.alias /\ s.sent = t.sent
          /\ s.deltas = t.deltas
      BY <1>2 DEF Tools, s
    <3> HIDE DEF more
    <3> QED BY <3>1, <1>6, <1>11, <2>2 DEF Tools
  <2> HIDE DEF u
  <2>6. p = more
    BY <1>2, <1>11 DEF Recorded, p
  <2>7. Recorded(u)
    BY <1>2, <1>11, <2>5, <2>6 DEF Recorded
  <2>8. [c EXCEPT !.tools[i] = u] \in Builders
        /\ [c EXCEPT !.tools[i] = u].tools = [c.tools EXCEPT ![i] = u]
    BY <1>7, <2>5, ToolsUpdate
  <2>9. r.tools[i] = u /\ \A j \in ToolIndexes \ {i} : r.tools[j] = b.tools[j]
    BY <1>7, <2>4, <2>8 DEF Builders
  <2> QED BY <1>10, <2>4, <2>7, <2>8, <2>9
<1>12. CASE t.block = None /\ s.name # <<>>
  <2> HIDE DEF s, t, more
  <2>1. d = StartTool(c, i)
    BY <1>6, <1>7, <1>12
  <2> HIDE DEF c
  <2>2. /\ d \in Builders
        /\ \A j \in ToolIndexes \ {i} : d.tools[j] = c.tools[j]
        /\ d.tools[i].block # None /\ d.tools[i].pre = 0
        /\ d.tools[i].got = more /\ d.tools[i].shown = d.tools[i].name
        /\ Accounted(d.tools[i], t.got)
    <3>1. Recorded([c.tools[i] EXCEPT !.got = t.got]) /\ c.tools[i].block = None
          /\ c.tools[i].got \in Nat /\ c.tools[i].got = more
      BY <1>3, <1>6, <1>7, <1>8, <1>12
    <3> HIDE DEF d
    <3> QED BY <1>7, <1>9, <2>1, <3>1, StartToolType
  <2> HIDE DEF d
  <2>3. r = EmitArgs(d, i, args)
    BY <1>5, <2>2
  <2>4. /\ r \in Builders /\ \A j \in ToolIndexes \ {i} : r.tools[j] = d.tools[j]
        /\ SameCall(d.tools[i], r.tools[i])
        /\ \A k \in Nat : Accounted(d.tools[i], k) => Accounted(r.tools[i], k + args)
    BY <2>2, <2>3, EmitArgsType
  <2>5. d.tools[i] \in Tools /\ r.tools[i] \in Tools
    BY <2>2, <2>4 DEF Builders
  <2>6. d.tools[i].got = t.got + args /\ Len(d.tools[i].shown) <= Len(d.tools[i].name)
    <3>1. Len(d.tools[i].name) \in Nat
      BY SMTT(30), <2>5 DEF Tools
    <3> QED BY <2>2, <3>1 DEF more
  <2>7. Recorded(r.tools[i])
    BY <2>2, <2>4, <2>5, <2>6, <1>9, ArgsRecorded
  <2>8. \A j \in ToolIndexes \ {i} : r.tools[j] = b.tools[j]
    BY <1>7, <2>2, <2>4
  <2> QED BY <1>10, <2>4, <2>7, <2>8
<1>13. CASE t.block # None
  <2> HIDE DEF s, t, more
  <2>1. d = c
    BY <1>6, <1>7, <1>13
  <2> HIDE DEF c, d
  <2>2. r = EmitArgs(c, i, args)
    BY <1>5, <1>6, <1>7, <1>13, <2>1
  <2>3. /\ r \in Builders /\ \A j \in ToolIndexes \ {i} : r.tools[j] = c.tools[j]
        /\ SameCall(c.tools[i], r.tools[i])
        /\ \A k \in Nat : Accounted(c.tools[i], k) => Accounted(r.tools[i], k + args)
    BY <1>7, <2>2, EmitArgsType
  <2>4. r.tools[i] \in Tools
    BY <2>3 DEF Builders
  <2>5. s.pre = 0 /\ Len(s.shown) <= Len(s.name) /\ (s.shown = s.name => Accounted(s, t.got))
    <3>1. t.pre = 0 /\ Len(t.shown) <= Len(t.name) /\ (t.shown = t.name => Accounted(t, t.got))
      BY <1>2, <1>13 DEF Recorded
    <3>2. Len(t.shown) \in Nat /\ Len(t.name) \in Nat /\ Len(merged) \in Nat
      BY <1>2, <1>3 DEF Tools
    <3>3. s.task = t.task /\ s.taskDone = t.taskDone /\ s.alias = t.alias /\ s.sent = t.sent
          /\ s.deltas = t.deltas
      BY <1>2 DEF Tools, s
    <3>4. CASE merged = t.name
      BY <3>1, <3>3, <3>4, <1>6 DEF Accounted
    <3>5. CASE Len(merged) > Len(t.name)
      <4>1. s.shown # s.name
        BY <3>1, <3>2, <3>5, <1>6
      <4> QED BY <4>1, <3>1, <3>2, <3>5, <1>6
    <3> QED BY <3>4, <3>5, <1>3
  <2>6. s.got = t.got + args
    BY <1>6 DEF more
  <2>7. Recorded(r.tools[i])
    <3> QED BY <1>6, <1>7, <1>9, <1>13, <2>3, <2>4, <2>5, <2>6, ArgsRecorded
  <2>8. \A j \in ToolIndexes \ {i} : r.tools[j] = b.tools[j]
    BY <1>7, <2>3
  <2> QED BY <1>10, <2>3, <2>7, <2>8
<1> QED BY <1>11, <1>12, <1>13

-----------------------------------------------------------------------------
(* What is held back of a call's arguments *)

\* Nothing of the arguments of a call is left with the aliases ...
Unaliased(t) ==
  t.block # None /\ t.shown = t.name =>
    /\ t.alias = 0
    /\ IF t.name = TaskName
       THEN IF t.taskDone
            THEN t.deltas = 1 /\ t.task = 0 /\ t.got # 0 /\ (t.got = ArgPieces => t.sent = t.got)
            ELSE t.deltas = 0 /\ t.sent = 0 /\ t.task = t.got /\ t.got # ArgPieces
       ELSE t.sent = t.got /\ t.task = 0

\* ... or anywhere.
Whole(t) ==
  t.block # None /\ t.shown = t.name =>
    IF t.name = TaskName
    THEN t.deltas = (IF t.got = 0 THEN 0 ELSE 1) /\ (t.got = ArgPieces => t.sent = t.got)
    ELSE t.sent = t.got

\* Builders whose aliases, then whose Tasks, are being flushed; and what each flush is
\* as a fold.
Recorders ==
  {b \in Builders : \A i \in ToolIndexes : Recorded(b.tools[i]) \/ Unaliased(b.tools[i])}
Flushers == {b \in Builders : \A i \in ToolIndexes : Unaliased(b.tools[i])}
AliasFold == INSTANCE FoldFacts WITH
  States <- Recorders, Elements <- ToolIndexes, Op <- FlushAlias
TaskFold == INSTANCE FoldFacts WITH
  States <- Flushers, Elements <- ToolIndexes, Op <- FlushTask
CloseFold == INSTANCE FoldFacts WITH
  States <- Builders, Elements <- ToolIndexes, Op <- CloseTool

\* Flushing one call leaves the others alone.
LEMMA FlushAliasStep ==
  ASSUME NEW b \in Builders, NEW i \in ToolIndexes
  PROVE  /\ FlushAlias(b, i) \in Builders
         /\ \A j \in ToolIndexes \ {i} : FlushAlias(b, i).tools[j] = b.tools[j]
         /\ Recorded(b.tools[i]) \/ Unaliased(b.tools[i]) => Unaliased(FlushAlias(b, i).tools[i])
<1> DEFINE t == b.tools[i]
           e == FlushAlias(b, i)
<1>1. /\ t \in Tools /\ t.task \in Nat /\ t.alias \in Nat /\ t.sent \in Nat /\ t.deltas \in Nat
      /\ t.taskDone \in BOOLEAN /\ t.got \in Nat /\ ArgPieces \in Nat \ {0}
  BY ToolAssumption DEF Builders, Tools
<1>2. CASE t.alias = 0 \/ t.name \notin Aliased
  <2>1. e = b
    BY <1>2 DEF FlushAlias
  <2> HIDE DEF e, t
  <2>2. Recorded(t) => Unaliased(t)
    BY <1>1, <1>2 DEF Recorded, Unaliased, Accounted
  <2> QED BY <2>1, <2>2 DEF e, t
<1>3. CASE ~(t.alias = 0 \/ t.name \notin Aliased)
  <2> DEFINE m == t.alias
             s == SendArgs(b, i, m)
             v == [t EXCEPT !.sent = @ + m, !.deltas = @ + 1]
             u == [v EXCEPT !.alias = 0]
  <2>1. e = [s EXCEPT !.tools[i].alias = 0]
    BY <1>3 DEF FlushAlias
  <2>2. m \in Nat /\ m # 0
    BY <1>1, <1>3
  <2>3. s \in Builders /\ s.tools = [b.tools EXCEPT ![i] = v]
    BY <2>2, SendArgsType
  <2> HIDE DEF s, e, m
  <2>4. v \in Tools /\ s.tools[i] = v
    <3>1. s.tools[i] = v
      BY <2>3 DEF Builders
    <3>2. t.sent + m \in Nat /\ t.deltas + 1 \in Nat
      BY <1>1, <2>2
    <3> HIDE DEF t
    <3> QED BY <1>1, <3>1, <3>2 DEF Tools
  <2> HIDE DEF t
  <2>5. e = [s EXCEPT !.tools[i] = u]
    <3> HIDE DEF v
    <3>1. [s EXCEPT !.tools[i].alias = 0] = [s EXCEPT !.tools[i] = u]
      BY <2>3, <2>4 DEF Builders, Tools
    <3> QED BY <2>1, <3>1
  <2>6. Recorded(t) \/ Unaliased(t) => Unaliased(u)
    <3>1. u.task = t.task /\ u.name = t.name /\ u.taskDone = t.taskDone /\ u.got = t.got
          /\ u.sent = t.sent + m /\ u.alias = 0 /\ u.block = t.block /\ u.shown = t.shown
      BY <1>1 DEF Tools
    <3>2. m = t.alias
      BY DEF m
    <3> HIDE DEF u
    <3> QED BY <1>1, <1>3, <2>2, <3>1, <3>2 DEF Accounted, Recorded, Unaliased
  <2> HIDE DEF v
  <2>7. u \in Tools
    BY <2>4 DEF Tools
  <2> HIDE DEF u
  <2>8. [s EXCEPT !.tools[i] = u] \in Builders
        /\ [s EXCEPT !.tools[i] = u].tools = [s.tools EXCEPT ![i] = u]
    BY <2>3, <2>7, ToolsUpdate
  <2>9. e.tools[i] = u /\ \A j \in ToolIndexes \ {i} : e.tools[j] = b.tools[j]
    BY <2>3, <2>5, <2>8 DEF Builders
  <2> QED BY <2>5, <2>6, <2>8, <2>9 DEF e, t
<1> QED BY <1>2, <1>3

\* The same for a Task: then nothing of it is held back.
LEMMA FlushTaskStep ==
  ASSUME NEW b \in Builders, NEW i \in ToolIndexes
  PROVE  /\ FlushTask(b, i) \in Builders
         /\ \A j \in ToolIndexes \ {i} : FlushTask(b, i).tools[j] = b.tools[j]
         /\ Unaliased(b.tools[i]) =>
              Unaliased(FlushTask(b, i).tools[i]) /\ Whole(FlushTask(b, i).tools[i])
<1> DEFINE t == b.tools[i]
           e == FlushTask(b, i)
<1>1. /\ t \in Tools /\ t.task \in Nat /\ t.alias \in Nat /\ t.sent \in Nat /\ t.deltas \in Nat
      /\ t.taskDone \in BOOLEAN /\ t.got \in Nat /\ ArgPieces \in Nat \ {0}
  BY ToolAssumption DEF Builders, Tools
<1>2. CASE t.task = 0 \/ t.taskDone
  <2>1. e = b
    BY <1>2 DEF FlushTask
  <2> HIDE DEF e, t
  <2>2. Unaliased(t) => Whole(t)
    BY <1>1, <1>2 DEF Whole, Unaliased
  <2> QED BY <2>1, <2>2 DEF e, t
<1>3. CASE ~(t.task = 0 \/ t.taskDone)
  <2> DEFINE s == SendArgs(b, i, 0)
             v == [t EXCEPT !.sent = @ + 0, !.deltas = @ + 1]
             u == [v EXCEPT !.task = 0, !.taskDone = TRUE]
  <2>1. e = [s EXCEPT !.tools[i].task = 0, !.tools[i].taskDone = TRUE]
    BY <1>3 DEF FlushTask
  <2>3. s \in Builders /\ s.tools = [b.tools EXCEPT ![i] = v]
    BY SendArgsType
  <2> HIDE DEF s, e
  <2>4. v \in Tools /\ s.tools[i] = v
    <3>1. s.tools[i] = v
      BY <2>3 DEF Builders
    <3>2. t.sent + 0 \in Nat /\ t.deltas + 1 \in Nat
      BY <1>1
    <3> HIDE DEF t
    <3> QED BY <1>1, <3>1, <3>2 DEF Tools
  <2> HIDE DEF t
  <2>5. e = [s EXCEPT !.tools[i] = u]
    <3> HIDE DEF v
    <3>1. [s EXCEPT !.tools[i].task = 0, !.tools[i].taskDone = TRUE] = [s EXCEPT !.tools[i] = u]
      BY <2>3, <2>4 DEF Builders, Tools
    <3> QED BY <2>1, <3>1
  <2>6. Unaliased(t) => Unaliased(u) /\ Whole(u)
    <3>1. u.task = 0 /\ u.name = t.name /\ u.taskDone = TRUE /\ u.got = t.got
          /\ u.sent = t.sent + 0 /\ u.alias = t.alias /\ u.block = t.block /\ u.shown = t.shown
          /\ u.deltas = t.deltas + 1
      BY <1>1 DEF Tools
    <3> HIDE DEF u
    <3> QED BY <1>1, <1>3, <3>1 DEF Unaliased, Whole
  <2> HIDE DEF v
  <2>7. u \in Tools
    BY <2>4 DEF Tools
  <2> HIDE DEF u
  <2>8. [s EXCEPT !.tools[i] = u] \in Builders
        /\ [s EXCEPT !.tools[i] = u].tools = [s.tools EXCEPT ![i] = u]
    BY <2>3, <2>7, ToolsUpdate
  <2>9. e.tools[i] = u /\ \A j \in ToolIndexes \ {i} : e.tools[j] = b.tools[j]
    BY <2>3, <2>5, <2>8 DEF Builders
  <2> QED BY <2>5, <2>6, <2>8, <2>9 DEF e, t
<1> QED BY <1>2, <1>3

\* Closing blocks does not touch the pieces.
LEMMA CloseToolType ==
  ASSUME NEW b \in Builders, NEW i \in ToolIndexes
  PROVE  CloseTool(b, i) \in Builders /\ CloseTool(b, i).tools = b.tools
<1>1. b.tools[i].block \in Int
  BY DEF Builders, Tools
<1>2. <<StopBlock(b.tools[i].block)>> \in Seq(Emitted)
  BY <1>1, EventTypes
<1> QED BY <1>2, YieldingType DEF CloseTool

LEMMA CloseAllBlocksType ==
  ASSUME NEW b \in Builders
  PROVE  CloseAllBlocks(b) \in Builders /\ CloseAllBlocks(b).tools = b.tools
<1> DEFINE c == CloseContent(b)
           Good == {d \in Builders : d.tools = b.tools}
<1>1. c \in Good
  BY CloseContentType
<1>2. \A d \in Builders, i \in ToolIndexes : CloseTool(d, i) \in Builders
  BY CloseToolType
<1>3. \A d \in Builders \cap Good, i \in ToolIndexes : CloseTool(d, i) \in Good
  BY CloseToolType
<1>4. CloseAllBlocks(b) = CloseFold!Fold(c, EveryTool)
  BY DEF CloseAllBlocks, FoldLeft, MapThenFoldSet, Max, CloseFold!Fold, CloseFold!Largest
<1>5. c \in Builders
  BY CloseContentType
<1> HIDE DEF c
<1>6. CloseFold!Fold(c, EveryTool) \in Builders \cap Good
  <2> HIDE DEF Good
  <2> QED BY <1>1, <1>2, <1>3, <1>5, EveryToolFacts, CloseFold!FoldKeeps
<1> QED BY <1>4, <1>6

\* All calls are flushed.
LEMMA FlushAliasesType ==
  ASSUME NEW b \in Recorders
  PROVE  FoldLeft(FlushAlias, b, EveryTool) \in Flushers
<1> DEFINE r == AliasFold!Fold(b, EveryTool)
<1>1. FoldLeft(FlushAlias, b, EveryTool) = r
  BY DEF FoldLeft, MapThenFoldSet, Max, AliasFold!Fold, AliasFold!Largest
<1>2. ASSUME NEW c \in Recorders, NEW i \in ToolIndexes
      PROVE  /\ FlushAlias(c, i) \in Recorders /\ Unaliased(FlushAlias(c, i).tools[i])
             /\ \A j \in ToolIndexes \ {i} : FlushAlias(c, i).tools[j] = c.tools[j]
  <2> DEFINE e == FlushAlias(c, i)
  <2>1. c \in Builders /\ (Recorded(c.tools[i]) \/ Unaliased(c.tools[i]))
    BY DEF Recorders
  <2>2. /\ e \in Builders /\ Unaliased(e.tools[i])
        /\ \A j \in ToolIndexes \ {i} : e.tools[j] = c.tools[j]
    BY <2>1, FlushAliasStep
  <2> HIDE DEF e
  <2>3. e \in Recorders
    BY <2>2 DEF Recorders
  <2> QED BY <2>2, <2>3 DEF e
<1> HIDE DEF r
<1>3. ASSUME NEW i \in ToolIndexes PROVE r \in Recorders /\ Unaliased(r.tools[i])
  <2> DEFINE Good == {c \in Recorders : Unaliased(c.tools[i])}
  <2>1. PICK j \in 1 .. Len(EveryTool) : EveryTool[j] = i
    BY EveryToolFacts
  <2>2. \A c \in Recorders, e \in ToolIndexes : FlushAlias(c, e) \in Recorders
    BY <1>2
  <2>3. \A c \in Recorders : FlushAlias(c, EveryTool[j]) \in Good
    BY <1>2, <2>1
  <2>4. \A c \in Recorders \cap Good, e \in ToolIndexes : FlushAlias(c, e) \in Good
    <3> TAKE c \in Recorders \cap Good, e \in ToolIndexes
    <3>1. CASE e = i
      BY <3>1, <1>2
    <3>2. CASE e # i
      BY <3>2, <1>2
    <3> QED BY <3>1, <3>2
  <2>5. AliasFold!Fold(b, EveryTool) \in Recorders \cap Good
    <3> HIDE DEF Good
    <3> QED BY <2>2, <2>3, <2>4, EveryToolFacts, AliasFold!FoldReaches
  <2> QED BY <2>5 DEF r
<1>4. r \in Recorders
  <2>1. \A c \in Recorders, e \in ToolIndexes : FlushAlias(c, e) \in Recorders
    BY <1>2
  <2> DEFINE Good == Recorders
  <2>2. b \in Good /\ \A c \in Recorders \cap Good, e \in ToolIndexes : FlushAlias(c, e) \in Good
    BY <2>1
  <2>3. AliasFold!Fold(b, EveryTool) \in Recorders \cap Good
    <3> HIDE DEF Good
    <3> QED BY <2>1, <2>2, EveryToolFacts, AliasFold!FoldKeeps
  <2> QED BY <2>3 DEF r
<1> QED BY <1>1, <1>3, <1>4 DEF Recorders, Flushers

LEMMA FlushTasksType ==
  ASSUME NEW b \in Flushers
  PROVE  /\ FoldLeft(FlushTask, b, EveryTool) \in Builders
         /\ \A i \in ToolIndexes : Whole(FoldLeft(FlushTask, b, EveryTool).tools[i])
<1> DEFINE r == TaskFold!Fold(b, EveryTool)
<1>1. FoldLeft(FlushTask, b, EveryTool) = r
  BY DEF FoldLeft, MapThenFoldSet, Max, TaskFold!Fold, TaskFold!Largest
<1>2. ASSUME NEW c \in Flushers, NEW i \in ToolIndexes
      PROVE  /\ FlushTask(c, i) \in Flushers /\ Whole(FlushTask(c, i).tools[i])
             /\ \A j \in ToolIndexes \ {i} : FlushTask(c, i).tools[j] = c.tools[j]
  <2> DEFINE e == FlushTask(c, i)
  <2>1. c \in Builders /\ Unaliased(c.tools[i])
    BY DEF Flushers
  <2>2. /\ e \in Builders /\ Unaliased(e.tools[i]) /\ Whole(e.tools[i])
        /\ \A j \in ToolIndexes \ {i} : e.tools[j] = c.tools[j]
    BY <2>1, FlushTaskStep
  <2> HIDE DEF e
  <2>3. e \in Flushers
    BY <2>2 DEF Flushers
  <2> QED BY <2>2, <2>3 DEF e
<1> HIDE DEF r
<1>3. ASSUME NEW i \in ToolIndexes PROVE r \in Flushers /\ Whole(r.tools[i])
  <2> DEFINE Good == {c \in Flushers : Whole(c.tools[i])}
  <2>1. PICK j \in 1 .. Len(EveryTool) : EveryTool[j] = i
    BY EveryToolFacts
  <2>2. \A c \in Flushers, e \in ToolIndexes : FlushTask(c, e) \in Flushers
    BY <1>2
  <2>3. \A c \in Flushers : FlushTask(c, EveryTool[j]) \in Good
    BY <1>2, <2>1
  <2>4. \A c \in Flushers \cap Good, e \in ToolIndexes : FlushTask(c, e) \in Good
    <3> TAKE c \in Flushers \cap Good, e \in ToolIndexes
    <3>1. CASE e = i
      BY <3>1, <1>2
    <3>2. CASE e # i
      BY <3>2, <1>2
    <3> QED BY <3>1, <3>2
  <2>5. TaskFold!Fold(b, EveryTool) \in Flushers \cap Good
    <3> HIDE DEF Good
    <3> QED BY <2>2, <2>3, <2>4, EveryToolFacts, TaskFold!FoldReaches
  <2> QED BY <2>5 DEF r
<1>4. r \in Flushers
  <2>1. \A c \in Flushers, e \in ToolIndexes : FlushTask(c, e) \in Flushers
    BY <1>2
  <2> DEFINE Good == Flushers
  <2>2. b \in Good /\ \A c \in Flushers \cap Good, e \in ToolIndexes : FlushTask(c, e) \in Good
    BY <2>1
  <2>3. TaskFold!Fold(b, EveryTool) \in Flushers \cap Good
    <3> HIDE DEF Good
    <3> QED BY <2>1, <2>2, EveryToolFacts, TaskFold!FoldKeeps
  <2> QED BY <2>3 DEF r
<1> QED BY <1>1, <1>3, <1>4 DEF Flushers

\* A completed message has all arguments of every call.
LEMMA FinishMessageType ==
  ASSUME NEW b \in Builders, Recording(b)
  PROVE  /\ FinishMessage(b) \in Builders
         /\ \A i \in ToolIndexes : Whole(FinishMessage(b).tools[i])
<1> DEFINE c == EnsureContent(b)
           f == FoldLeft(FlushAlias, c, EveryTool)
           g == FoldLeft(FlushTask, f, EveryTool)
           d == CloseAllBlocks(g)
<1>1. c \in Builders /\ c.tools = b.tools
  BY EmptyText, EmitTextType DEF EnsureContent
<1> HIDE DEF c
<1>2. c \in Recorders
  BY <1>1 DEF Recorders, Recording
<1>3. f \in Flushers
  BY <1>2, FlushAliasesType
<1> HIDE DEF f
<1>4. g \in Builders /\ \A i \in ToolIndexes : Whole(g.tools[i])
  BY <1>3, FlushTasksType
<1> HIDE DEF g
<1>5. d \in Builders /\ d.tools = g.tools
  BY <1>4, CloseAllBlocksType
<1> HIDE DEF d
<1>6. <<MessageDelta, MessageStop>> \in Seq(Emitted)
  BY EventTypes
<1>7. Yielding(d, <<MessageDelta, MessageStop>>) \in Builders
      /\ Yielding(d, <<MessageDelta, MessageStop>>).tools = d.tools
  BY <1>5, <1>6, YieldingType
<1>8. FinishMessage(b) = Yielding(d, <<MessageDelta, MessageStop>>)
  BY DEF FinishMessage, d, g, f, c
<1> QED BY <1>4, <1>5, <1>7, <1>8

\* The events of a failure.
LEMMA ErrorEvents ==
  ASSUME NEW ix \in Int
  PROVE  /\ ErrorBlock(ix) \in Seq(Emitted)
         /\ <<MessageDelta, MessageStop>> \in Seq(Emitted)
         /\ \A sent : ErrorMessage(sent) \in Seq(Emitted)
<1>1. \A x, y, z \in Emitted : <<x, y, z>> \in Seq(Emitted) /\ <<x, y>> \in Seq(Emitted)
                               /\ <<x>> \in Seq(Emitted)
  OBVIOUS
<1>2. ASSUME NEW n \in Int PROVE ErrorBlock(n) \in Seq(Emitted)
  BY <1>1, EventTypes, EmptyText DEF ErrorBlock
<1>3. <<MessageDelta, MessageStop>> \in Seq(Emitted) /\ <<MessageStart>> \in Seq(Emitted)
  BY <1>1, EventTypes
<1>4. \A sent : ErrorMessage(sent) \in Seq(Emitted)
  <2> TAKE sent
  <2> DEFINE s == IF sent THEN <<>> ELSE <<MessageStart>>
             e == ErrorBlock(0)
             m == <<MessageDelta, MessageStop>>
  <2>1. s \in Seq(Emitted) /\ e \in Seq(Emitted) /\ m \in Seq(Emitted)
    BY <1>2, <1>3
  <2>2. ErrorMessage(sent) = s \o e \o m
    BY DEF ErrorMessage
  <2> HIDE DEF s, e, m
  <2> QED BY <2>1, <2>2
<1> QED BY <1>2, <1>3, <1>4

LEMMA ErrorMessageType == \A sent : ErrorMessage(sent) \in Seq(Emitted)
<1>1. 0 \in Int
  OBVIOUS
<1> QED BY <1>1, ErrorEvents

\* A failure after content: what is open is closed.
LEMMA FailMessageType ==
  ASSUME NEW b \in Builders
  PROVE  FailMessage(b) \in Builders /\ FailMessage(b).tools = b.tools
<1> DEFINE c == CloseAllBlocks(b)
           first == IF HasStartedTool(c) THEN <<TopLevelError>> ELSE ErrorBlock(c.next)
           rest == <<MessageDelta, MessageStop>>
<1>1. c \in Builders /\ c.tools = b.tools /\ c.next \in Int
  <2>1. c \in Builders /\ c.tools = b.tools
    BY CloseAllBlocksType
  <2> QED BY <2>1 DEF Builders
<1> HIDE DEF c
<1>2. first \in Seq(Emitted) /\ rest \in Seq(Emitted)
  BY <1>1, ErrorEvents, EventTypes
<1> HIDE DEF first, rest
<1>3. first \o rest \in Seq(Emitted)
  BY <1>2
<1>4. FailMessage(b) = Yielding(c, first \o rest)
  BY DEF FailMessage, c, first, rest
<1> QED BY <1>1, <1>3, <1>4, YieldingType

-----------------------------------------------------------------------------
(* What the parsers' parts become *)

\* A builder and the tool parser that feeds it, and the parts they are given, as folds.
Speakers == [b : Builders, tools : ToolStates]
PartFold == INSTANCE FoldFacts WITH
  States <- Speakers, Elements <- Parts, Op <- EmitPart
RestFold == INSTANCE FoldFacts WITH
  States <- Builders, Elements <- Parts, Op <- EmitRest

\* A part of a text leaves the calls alone.
LEMMA EmitPartType ==
  \A s \in Speakers, part \in Parts :
    EmitPart(s, part) \in Speakers /\ EmitPart(s, part).b.tools = s.b.tools
<1> SUFFICES ASSUME NEW s \in Speakers, NEW part \in Parts
             PROVE  EmitPart(s, part) \in Speakers /\ EmitPart(s, part).b.tools = s.b.tools
  OBVIOUS
<1> DEFINE tools == FeedTools(s.tools, part.text)
           c == IF tools.shown = <<>> THEN s.b ELSE EmitText(s.b, tools.shown)
           d == EmitHeuristicTools(c, tools.calls)
           e == EmitThinking(s.b, part.text)
<1>1. s.b \in Builders /\ s.tools \in ToolStates /\ part.text \in Text
      /\ s = [b |-> s.b, tools |-> s.tools]
  BY DEF Speakers, Parts
<1>2. tools \in ToolStates /\ tools.shown \in Text /\ tools.calls \in Nat
  <2>1. tools \in ToolStates
    BY <1>1, FeedToolsType
  <2> QED BY <2>1 DEF ToolStates
<1> HIDE DEF tools
<1>3. c \in Builders /\ c.tools = s.b.tools
  BY <1>1, <1>2, EmitTextType
<1> HIDE DEF c
<1>4. d \in Builders /\ d.tools = s.b.tools
  BY <1>2, <1>3, EmitHeuristicToolsType
<1> HIDE DEF d
<1>5. e \in Builders /\ e.tools = s.b.tools
  BY <1>1, EmitThinkingType
<1> HIDE DEF e
<1>6. EmitPart(s, part) = IF part.kind = "thinking"
                          THEN IF thinkingEnabled THEN [s EXCEPT !.b = e] ELSE s
                          ELSE [b |-> d, tools |-> tools]
  BY DEF EmitPart, tools, c, d, e
<1>7. [s EXCEPT !.b = e] = [b |-> e, tools |-> s.tools]
  BY <1>1
<1> HIDE DEF thinkingEnabled
<1> QED BY <1>1, <1>2, <1>4, <1>5, <1>6, <1>7 DEF Speakers

\* So do all parts of a chunk.
LEMMA EmitPartsType ==
  \A s \in Speakers, parts \in Seq(Parts) :
    /\ FoldLeft(EmitPart, s, parts) \in Speakers
    /\ FoldLeft(EmitPart, s, parts).b.tools = s.b.tools
<1> SUFFICES ASSUME NEW s \in Speakers, NEW parts \in Seq(Parts)
             PROVE  /\ FoldLeft(EmitPart, s, parts) \in Speakers
                    /\ FoldLeft(EmitPart, s, parts).b.tools = s.b.tools
  OBVIOUS
<1> DEFINE Good == {r \in Speakers : r.b.tools = s.b.tools}
<1>1. FoldLeft(EmitPart, s, parts) = PartFold!Fold(s, parts)
  BY DEF FoldLeft, MapThenFoldSet, Max, PartFold!Fold, PartFold!Largest
<1>2. s \in Good
  OBVIOUS
<1>3. \A r \in Speakers, part \in Parts : EmitPart(r, part) \in Speakers
  BY EmitPartType
<1>4. \A r \in Speakers \cap Good, part \in Parts : EmitPart(r, part) \in Good
  BY EmitPartType
<1>5. PartFold!Fold(s, parts) \in Speakers \cap Good
  <2> HIDE DEF Good
  <2> QED BY <1>2, <1>3, <1>4, PartFold!FoldKeeps
<1> QED BY <1>1, <1>5

\* And what the parsers still hold.
LEMMA FlushedBuilderType ==
  ASSUME chat.b \in Builders, chat.think \in ThinkStates, chat.tools \in ToolStates
  PROVE  FlushedBuilder \in Builders /\ FlushedBuilder.tools = chat.b.tools
<1> DEFINE rest == FlushThink(chat.think).parts
           n == FlushTools(chat.tools).calls
           r == RestFold!Fold(chat.b, rest)
           Good == {c \in Builders : c.tools = chat.b.tools}
<1>1. rest \in Seq(Parts) /\ n \in Nat
  <2>1. FlushThink(chat.think) \in ThinkStates /\ FlushTools(chat.tools) \in ToolStates
    BY FlushThinkType, FlushToolsType
  <2> QED BY <2>1 DEF ThinkStates, ToolStates
<1>2. ASSUME NEW c \in Builders, NEW part \in Parts
      PROVE  EmitRest(c, part) \in Builders /\ EmitRest(c, part).tools = c.tools
  <2>1. part.text \in Text
    BY DEF Parts
  <2> HIDE DEF thinkingEnabled
  <2> QED BY <2>1, EmitTextType, EmitThinkingType DEF EmitRest
<1>3. FlushedBuilder = EmitHeuristicTools(r, n)
  BY DEF FlushedBuilder, FoldLeft, MapThenFoldSet, Max, RestFold!Fold, RestFold!Largest
<1> HIDE DEF rest, n
<1>4. r \in Builders \cap Good
  <2>1. chat.b \in Good /\ \A c \in Builders, part \in Parts : EmitRest(c, part) \in Builders
    BY <1>2
  <2>2. \A c \in Builders \cap Good, part \in Parts : EmitRest(c, part) \in Good
    BY <1>2
  <2> HIDE DEF Good
  <2> QED BY <1>1, <2>1, <2>2, RestFold!FoldKeeps
<1> HIDE DEF r
<1> QED BY <1>1, <1>3, <1>4, EmitHeuristicToolsType

-----------------------------------------------------------------------------
(* The policy and the tracker of a native stream *)

\* What a native transport keeps: the policy's blocks, and the tracker of those open.
Policies ==
  [next : Nat, down : [Upstream -> Int], isOpen : [Upstream -> BOOLEAN],
   dropped : SUBSET Upstream, suppressed : SUBSET Upstream, out : Seq(Emitted)]

Trackers == [stack : Seq(Int), max : Int]

\* The kinds of an upstream's blocks.
BlockKinds == {"text", "thinking", "tool_use"}

\* The policy yields events.
LEMMA PolicyYields ==
  ASSUME NEW n \in Policies, NEW events \in Seq(Emitted)
  PROVE  Yielding(n, events) \in Policies
<1>1. n.out \o events \in Seq(Emitted)
  BY DEF Policies
<1> QED BY <1>1 DEF Yielding, Policies

\* Those of a block.
LEMMA BlockEvents ==
  ASSUME NEW ix \in Int, NEW kind \in BlockKinds
  PROVE  /\ <<StartBlock(ix, kind)>> \in Seq(Emitted)
         /\ <<DeltaBlock(ix, kind, <<>>)>> \in Seq(Emitted)
         /\ <<StartBlock(ix, kind), DeltaBlock(ix, kind, <<>>)>> \in Seq(Emitted)
         /\ <<StopBlock(ix)>> \in Seq(Emitted)
<1>1. \A x, y \in Emitted : <<x, y>> \in Seq(Emitted) /\ <<x>> \in Seq(Emitted)
  OBVIOUS
<1>2. StartBlock(ix, kind) \in Emitted /\ DeltaBlock(ix, kind, <<>>) \in Emitted
      /\ StopBlock(ix) \in Emitted
  BY EventTypes, EmptyText DEF BlockKinds
<1> QED BY <1>1, <1>2

\* An index for a block of the upstream.
LEMMA AllocateType ==
  ASSUME NEW n \in Policies, NEW u \in Upstream
  PROVE  /\ Allocate(n, u) \in Policies /\ Allocate(n, u).down[u] \in Int
         /\ Allocate(n, u).suppressed = n.suppressed
<1> DEFINE m == n.next + 1
           down == [n.down EXCEPT ![u] = n.next]
           isOpen == [n.isOpen EXCEPT ![u] = TRUE]
<1>1. m \in Nat /\ down \in [Upstream -> Int] /\ isOpen \in [Upstream -> BOOLEAN] /\ down[u] \in Int
  BY DEF Policies
<1>2. Allocate(n, u) = [n EXCEPT !.next = m, !.down = down, !.isOpen = isOpen]
  BY DEF Allocate, Policies
<1> HIDE DEF m, down, isOpen
<1> QED BY <1>1, <1>2 DEF Policies

\* A finite set in some order.
LEMMA OrderedFacts ==
  ASSUME NEW S, IsFiniteSet(S)
  PROVE  Cardinality(S) \in Nat /\ \A j \in 1 .. Cardinality(S) : SetToSeq(S)[j] \in S
<1> DEFINE n == Cardinality(S)
<1>1. n \in Nat /\ ExistsBijection(1 .. n, S)
  BY FS_CardinalityType
<1>2. PICK g : g \in Bijection(1 .. n, S)
  BY <1>1 DEF ExistsBijection
<1>3. g \in [1 .. n -> S] /\ IsInjective(g)
  BY <1>2 DEF Bijection, Injection
<1>4. SetToSeq(S) \in [1 .. n -> S]
  BY <1>3 DEF SetToSeq
<1> QED BY <1>1, <1>4

\* The blocks that are open, closed in the order of their indexes.
LEMMA CloseOthersType ==
  ASSUME NEW n \in Policies, NEW u \in Upstream
  PROVE  CloseOthers(n, u) \in Policies
<1> DEFINE others == {w \in Upstream \ {u} : n.isOpen[w]}
           events == [j \in 1 .. Cardinality(others) |-> StopBlock(n.down[SetToSeq(others)[j]])]
           isOpen == [w \in Upstream |-> n.isOpen[w] /\ w \notin others]
           suppressed == n.suppressed \cup others
           out == n.out \o events
<1>1. others \subseteq Upstream
  OBVIOUS
<1>2. IsFiniteSet(others)
  BY <1>1, UpstreamAssumption, FS_Subset
<1>3. isOpen \in [Upstream -> BOOLEAN]
  BY DEF Policies
<1>4. suppressed \in SUBSET Upstream
  BY <1>1 DEF Policies
<1>5. CloseOthers(n, u) = [n EXCEPT !.isOpen = isOpen, !.suppressed = suppressed, !.out = out]
  BY DEF CloseOthers
<1> HIDE DEF others, suppressed, isOpen
<1>6. \A j \in 1 .. Cardinality(others) : StopBlock(n.down[SetToSeq(others)[j]]) \in Emitted
  <2> TAKE j \in 1 .. Cardinality(others)
  <2>1. SetToSeq(others)[j] \in Upstream
    BY <1>1, <1>2, OrderedFacts
  <2>2. n.down[SetToSeq(others)[j]] \in Int
    BY <2>1 DEF Policies
  <2> QED BY <2>2, EventTypes
<1>7. events \in Seq(Emitted)
  <2>1. Cardinality(others) \in Nat
    BY <1>2, OrderedFacts
  <2> QED BY <1>6, <2>1
<1> HIDE DEF events
<1>8. out \in Seq(Emitted)
  BY <1>7 DEF Policies
<1> HIDE DEF out
<1> QED BY <1>3, <1>4, <1>5, <1>8 DEF Policies

\* The policy's answers to the events of an upstream's block.
LEMMA PolicyStartType ==
  ASSUME NEW n \in Policies, NEW u \in Upstream, NEW kind \in BlockKinds,
         NEW thinks
  PROVE  PolicyStart(n, u, kind, thinks) \in Policies
<1> DEFINE c == Allocate(CloseOthers(n, u), u)
<1>1. c \in Policies /\ c.down[u] \in Int
  BY CloseOthersType, AllocateType
<1>2. [n EXCEPT !.dropped = @ \cup {u}] \in Policies
  BY DEF Policies
<1> HIDE DEF c
<1>3. Yielding(c, <<StartBlock(c.down[u], kind)>>) \in Policies
  BY <1>1, BlockEvents, PolicyYields
<1> QED BY <1>2, <1>3 DEF PolicyStart, c

LEMMA PolicyDeltaType ==
  ASSUME NEW n \in Policies, NEW u \in Upstream, NEW kind \in BlockKinds,
         NEW thinks
  PROVE  PolicyDelta(n, u, kind, thinks) \in Policies
<1> DEFINE a == Allocate(n, u)
           r == Reopen(n, u)
           passes == PassesDelta(n, u, kind, thinks)
<1>1. a \in Policies /\ a.down[u] \in Int
  BY AllocateType
<1>2. r \in Policies /\ r.down[u] \in Int
  <2> HIDE DEF a
  <2>1. r = [a EXCEPT !.suppressed = @ \ {u}]
    BY DEF Reopen, a
  <2> QED BY <1>1, <2>1 DEF Policies
<1> HIDE DEF r, a
<1>3. u \in Int /\ n.down[u] \in Int
  BY UpstreamAssumption DEF Policies
<1>4. /\ Yielding(n, <<DeltaBlock(n.down[u], kind, <<>>)>>) \in Policies
      /\ Yielding(n, <<DeltaBlock(u, kind, <<>>)>>) \in Policies
      /\ Yielding(r, <<StartBlock(r.down[u], kind), DeltaBlock(r.down[u], kind, <<>>)>>) \in Policies
  BY <1>2, <1>3, BlockEvents, PolicyYields
<1> DEFINE quiet == u \in n.dropped \/ Hidden(kind, thinks)
<1>5. CASE quiet
  BY <1>5 DEF PolicyDelta
<1>6. CASE ~quiet /\ n.isOpen[u] /\ passes
  <2>1. PolicyDelta(n, u, kind, thinks) \in {Yielding(n, <<DeltaBlock(n.down[u], kind, <<>>)>>),
                                             Yielding(n, <<DeltaBlock(u, kind, <<>>)>>)}
    BY <1>6 DEF PolicyDelta
  <2> QED BY <1>4, <2>1
<1>7. CASE ~quiet /\ n.isOpen[u] /\ ~passes
  BY <1>4, <1>7 DEF PolicyDelta
<1>8. CASE ~quiet /\ ~n.isOpen[u] /\ passes
  BY <1>4, <1>8 DEF PolicyDelta
<1>9. CASE ~quiet /\ ~n.isOpen[u] /\ ~passes
  BY <1>4, <1>9 DEF PolicyDelta, r
<1> QED BY <1>5, <1>6, <1>7, <1>8, <1>9

LEMMA PolicyStopType ==
  ASSUME NEW n \in Policies, NEW u \in Upstream, NEW thinks
  PROVE  PolicyStop(n, u, thinks) \in Policies
<1> DEFINE c == [n EXCEPT !.isOpen[u] = FALSE]
           d == [n EXCEPT !.suppressed = @ \ {u}]
<1>1. c \in Policies /\ d \in Policies
  BY DEF Policies
<1>2. u \in Int /\ n.down[u] \in Int
  BY UpstreamAssumption DEF Policies
<1>3. <<StopBlock(u)>> \in Seq(Emitted) /\ <<StopBlock(n.down[u])>> \in Seq(Emitted)
  BY <1>2, BlockEvents DEF BlockKinds
<1> HIDE DEF c
<1>4. Yielding(c, <<StopBlock(n.down[u])>>) \in Policies /\ Yielding(n, <<StopBlock(u)>>) \in Policies
  BY <1>1, <1>3, PolicyYields
<1> HIDE DEF d
<1>5. PolicyStop(n, u, thinks) \in
        {n, d, Yielding(c, <<StopBlock(n.down[u])>>), Yielding(n, <<StopBlock(u)>>)}
  BY DEF PolicyStop, c, d
<1> QED BY <1>1, <1>4, <1>5

\* The tracker forgets a block, in whatever order they close.
LEMMA ClosedType ==
  ASSUME NEW stack \in Seq(Int), NEW ix
  PROVE  Closed(stack, ix) \in Seq(Int)
<1> DEFINE at == {j \in DOMAIN stack : stack[j] = ix}
           j == IF Len(stack) \in at THEN Len(stack) ELSE Min(at)
<1>1. CASE at = {}
  BY <1>1 DEF Closed
<1>2. CASE at # {}
  <2>1. at \in SUBSET Nat /\ at \subseteq 1 .. Len(stack)
    OBVIOUS
  <2>2. j \in 1 .. Len(stack)
    BY <1>2, <2>1, MinFacts
  <2>3. Closed(stack, ix) = SubSeq(stack, 1, j - 1) \o SubSeq(stack, j + 1, Len(stack))
    BY <1>2 DEF Closed, RemoveAt
  <2> HIDE DEF j
  <2> QED BY <2>2, <2>3
<1> QED BY <1>1, <1>2

\* It observes events one after the other.
ObserveFold == INSTANCE FoldFacts WITH
  States <- Trackers, Elements <- Emitted, Op <- Observe

LEMMA ObserveType ==
  \A t \in Trackers, e \in Emitted : Observe(t, e) \in Trackers
<1> SUFFICES ASSUME NEW t \in Trackers, NEW e \in Emitted PROVE Observe(t, e) \in Trackers
  OBVIOUS
<1>1. t.stack \in Seq(Int) /\ t.max \in Int /\ e.ix \in Int
  BY DEF Trackers, Emitted
<1>2. CASE e.ev = "content_block_start"
  <2>1. Append(t.stack, e.ix) \in Seq(Int)
    BY <1>1
  <2>2. Max({t.max, e.ix}) \in Int
    <3>1. \E x \in {t.max, e.ix} : \A y \in {t.max, e.ix} : x >= y
      BY <1>1
    <3>2. Max({t.max, e.ix}) \in {t.max, e.ix}
      BY <3>1 DEF Max
    <3> QED BY <1>1, <3>2
  <2>3. Observe(t, e) = [stack |-> Append(t.stack, e.ix), max |-> Max({t.max, e.ix})]
    BY <1>2 DEF Observe
  <2> QED BY <2>1, <2>2, <2>3 DEF Trackers
<1>3. CASE e.ev = "content_block_stop"
  <2>1. Closed(t.stack, e.ix) \in Seq(Int)
    BY <1>1, ClosedType
  <2>2. Observe(t, e) = [t EXCEPT !.stack = Closed(t.stack, e.ix)]
    BY <1>3 DEF Observe
  <2> QED BY <2>1, <2>2 DEF Trackers
<1>4. CASE e.ev \notin {"content_block_start", "content_block_stop"}
  BY <1>4 DEF Observe
<1> QED BY <1>2, <1>3, <1>4

LEMMA ObserveAllType ==
  ASSUME NEW t \in Trackers, NEW events \in Seq(Emitted)
  PROVE  ObserveAll(t, events) \in Trackers
<1>1. ObserveAll(t, events) = ObserveFold!Fold(t, events)
  BY DEF ObserveAll, FoldLeft, MapThenFoldSet, Max, ObserveFold!Fold, ObserveFold!Largest
<1> DEFINE Good == Trackers
<1>2. t \in Good /\ \A c \in Trackers \cap Good, e \in Emitted : Observe(c, e) \in Good
  BY ObserveType
<1>3. ObserveFold!Fold(t, events) \in Trackers \cap Good
  <2> HIDE DEF Good
  <2> QED BY <1>2, ObserveType, ObserveFold!FoldKeeps
<1> QED BY <1>1, <1>3

\* What closes a native stream that failed.
LEMMA ErrorTailType ==
  ASSUME NEW t \in Trackers
  PROVE  ErrorTail(t) \in Seq(Emitted)
<1> DEFINE n == Len(t.stack)
           stops == [j \in 1 .. n |-> StopBlock(Reverse(t.stack)[j])]
           block == ErrorBlock(t.max + 1)
           end == <<MessageDelta, MessageStop>>
<1>1. t.stack \in Seq(Int) /\ n \in Nat /\ t.max + 1 \in Int
  BY DEF Trackers
<1>2. \A j \in 1 .. n : Reverse(t.stack)[j] \in Int
  BY <1>1 DEF Reverse
<1>3. \A j \in 1 .. n : StopBlock(Reverse(t.stack)[j]) \in Emitted
  BY <1>2, EventTypes
<1>4. ErrorTail(t) = stops \o block \o end
  BY DEF ErrorTail
<1>5. block \in Seq(Emitted) /\ end \in Seq(Emitted)
  BY <1>1, ErrorEvents
<1> HIDE DEF n
<1>6. stops \in Seq(Emitted)
  BY <1>1, <1>3
<1> HIDE DEF stops, block, end
<1> QED BY <1>4, <1>5, <1>6

\* A native transport's state.
Natives ==
  [policy : Policies, tracker : Trackers, sent : BOOLEAN, stopped : BOOLEAN,
   up : [Upstream -> {"new", "closed"} \cup BlockKinds]]

LEMMA FreshNativeType == FreshNative \in Natives
<1>1. [u \in Upstream |-> None] \in [Upstream -> Int]
      /\ [u \in Upstream |-> FALSE] \in [Upstream -> BOOLEAN]
      /\ [u \in Upstream |-> "new"] \in [Upstream -> {"new", "closed"} \cup BlockKinds]
  BY DEF None
<1>2. FreshPolicy \in Policies
  BY <1>1 DEF FreshPolicy, Policies
<1>3. FreshTracker \in Trackers
  BY DEF FreshTracker, Trackers, None
<1> QED BY <1>1, <1>2, <1>3 DEF FreshNative, Natives

-----------------------------------------------------------------------------
(* The types of a request *)

\* Events of this candidate; 0 is the server.
Entries(by) == [by : {by}, event : Emitted]

\* A chat transport's state.
Chats == [b : Builders, think : ThinkStates, tools : ToolStates, fed : Text]

\* Whose events the client gets: the candidate's, or the server's own.
Speaker == IF ending = "web" THEN 0 ELSE cand

\* The types of the state of a request.
TypeOK ==
  /\ phase \in {"listing", "picked", "asked", "streaming"} \cup Final
  /\ cand \in Nat \ {0}
  /\ stage \in {"start", "opening", "open", "ended"}
  /\ chat \in Chats /\ native \in Natives
  /\ held \in Seq(Entries(Speaker)) /\ wire \in Seq(Entries(Speaker))
  /\ committed \in BOOLEAN /\ chunks \in Nat
  /\ said \in Text
  /\ ending \in {"none", "web", "normal", "error"}

\* Before the stream there is nothing of it.
Stages ==
  /\ phase \in {"listing", "picked", "asked"} =>
       /\ stage = "start" /\ cand = 1 /\ held = <<>> /\ wire = <<>>
       /\ ~committed /\ served = {}
  /\ stage # "ended" => ending = "none"

\* The client has events of one candidate. Until a candidate's generator runs it has
\* nothing of another one that it could fall back from.
Speaks ==
  /\ served \subseteq {Speaker}
  /\ stage \in {"start", "opening"} =>
       /\ committed => Len(chain) = 1
       /\ ~committed => wire = <<>> /\ served = {}
       /\ Len(chain) = 1 => cand = 1

\* No piece of a call's arguments is lost while the stream is open, and none held back
\* of a completed one.
Records ==
  /\ ending = "none" => Recording(chat.b)
  /\ ending = "normal" /\ chain[cand].by = "chat" =>
       \A i \in ToolIndexes : Whole(chat.b.tools[i])

\* A chat transport to begin with.
LEMMA FreshChatType == FreshChat \in Chats /\ Recording(FreshChat.b)
<1>1. FreshThink \in ThinkStates /\ FreshTools \in ToolStates
  BY EmptyText DEF FreshThink, FreshTools, ThinkStates, ToolStates
<1>2. FreshChat \in Chats
  BY <1>1, FreshBuilderType, EmptyText DEF FreshChat, Chats
<1>3. \A i \in ToolIndexes : Recorded(FreshTool)
  BY DEF FreshTool, Recorded, None
<1>4. Recording(FreshChat.b)
  BY <1>3 DEF Recording, FreshChat, FreshBuilder
<1> QED BY <1>2, <1>4

\* The initial states.
LEMMA TypeInit == Init => TypeOK /\ Stages /\ Speaks /\ Records
<1> SUFFICES ASSUME Init PROVE TypeOK /\ Stages /\ Speaks /\ Records
  OBVIOUS
<1> USE DEF Init
<1>1. <<>> \in Seq(Entries(Speaker))
  OBVIOUS
<1>2. TypeOK
  <2>1. chat \in Chats /\ native \in Natives
    BY FreshChatType, FreshNativeType
  <2>2. said \in Text
    BY EmptyText
  <2>3. held \in Seq(Entries(Speaker)) /\ wire \in Seq(Entries(Speaker))
    BY <1>1
  <2>4. phase \in {"listing", "picked", "asked", "streaming"} \cup Final
    OBVIOUS
  <2>5. cand \in Nat \ {0} /\ chunks \in Nat
    OBVIOUS
  <2>6. committed \in BOOLEAN
    OBVIOUS
  <2> QED BY <2>1, <2>2, <2>3, <2>4, <2>5, <2>6 DEF TypeOK
<1>3. Stages
  BY DEF Stages
<1>4. Speaks
  BY DEF Speaks
<1>5. Records
  BY FreshChatType DEF Records
<1> QED BY <1>2, <1>3, <1>4, <1>5

\* Events are the candidate's.
LEMMA TaggedType ==
  ASSUME NEW events \in Seq(Emitted), NEW c, c = cand
  PROVE  Tagged(events) \in Seq(Entries(c))
<1>1. \A j \in DOMAIN events : [by |-> cand, event |-> events[j]] \in Entries(c)
  BY DEF Entries
<1>2. DOMAIN events = 1 .. Len(events) /\ Len(events) \in Nat
  OBVIOUS
<1> DEFINE n == Len(events)
<1> HIDE DEF n
<1>3. [j \in 1 .. n |-> [by |-> cand, event |-> events[j]]] \in Seq(Entries(c))
  BY <1>1, <1>2 DEF n
<1> QED BY <1>2, <1>3 DEF Tagged, n

\* What a generator yields is its candidate's; before there is content, and another
\* candidate, the client gets nothing of it.
LEMMA YieldType ==
  ASSUME TypeOK, Stages, Speaks, NEW events \in Seq(Emitted), NEW ends \in BOOLEAN,
         Yield(events, ends), stage # "ended", cand' = cand,
         ending' \in {"none", "normal", "error"}
  PROVE  /\ held' \in Seq(Entries(Speaker')) /\ wire' \in Seq(Entries(Speaker'))
         /\ committed' \in BOOLEAN /\ Speaker' = Speaker
<1>1. Speaker = cand /\ Speaker' = cand
  BY DEF Stages, Speaker
<1>2. Tagged(events) \in Seq(Entries(Speaker))
  BY <1>1, TaggedType
<1>3. held \o Tagged(events) \in Seq(Entries(Speaker)) /\ <<>> \in Seq(Entries(Speaker))
  BY <1>2 DEF TypeOK
<1>4. Commits(events) \in BOOLEAN
  BY DEF Commits
<1> HIDE DEF Speaker
<1>5. /\ held' \in {held, <<>>, held \o Tagged(events)}
      /\ wire' \in {wire, held \o Tagged(events)}
      /\ committed' \in {committed, committed \/ Commits(events)}
  BY DEF Yield
<1>6. wire \in Seq(Entries(Speaker)) /\ held \in Seq(Entries(Speaker)) /\ committed \in BOOLEAN
  BY DEF TypeOK
<1>7. Speaker' = Speaker
  BY <1>1
<1> QED BY <1>3, <1>4, <1>5, <1>6, <1>7

\* The next candidate has a transport of its own, the last one's failure is told.
LEMMA ProviderFailsType ==
  ASSUME TypeOK, Stages, Speaks, ProviderFails, wire = <<>>, stage # "ended"
  PROVE  /\ cand' \in Nat \ {0} /\ phase' = phase
         /\ stage' \in {"start", "ended"} /\ ending' \in {"none", "error"}
         /\ chat' \in Chats /\ native' \in Natives
         /\ held' \in Seq(Entries(Speaker')) /\ wire' \in Seq(Entries(Speaker'))
         /\ committed' \in BOOLEAN
<1>1. ending = "none"
  BY DEF Stages
<1>2. CASE ~IsLast
  <2>1. <<>> \in Seq(Entries(Speaker'))
    OBVIOUS
  <2>2. /\ cand' = cand + 1 /\ stage' = "start" /\ held' = <<>>
        /\ chat' = FreshChat /\ native' = FreshNative
        /\ phase' = phase /\ wire' = wire /\ committed' = committed /\ ending' = ending
    BY <1>2 DEF ProviderFails
  <2>3. cand + 1 \in Nat \ {0}
    BY DEF TypeOK
  <2>4. chat' \in Chats /\ native' \in Natives
    BY <2>2, FreshChatType, FreshNativeType
  <2>5. held' \in Seq(Entries(Speaker')) /\ wire' \in Seq(Entries(Speaker'))
    BY <2>1, <2>2
  <2>6. committed' \in BOOLEAN
    BY <2>2 DEF TypeOK
  <2> QED BY <1>1, <2>2, <2>3, <2>4, <2>5, <2>6
<1>3. CASE IsLast
  <2>1. Yield(ErrorMessage(committed), TRUE) /\ cand' = cand /\ ending' = "error"
    BY <1>3 DEF ProviderFails
  <2>2. ErrorMessage(committed) \in Seq(Emitted)
    BY ErrorMessageType
  <2>3. /\ held' \in Seq(Entries(Speaker')) /\ wire' \in Seq(Entries(Speaker'))
        /\ committed' \in BOOLEAN
    BY <2>1, <2>2, YieldType
  <2> QED BY <1>3, <2>3 DEF ProviderFails, TypeOK
<1> QED BY <1>2, <1>3

\* The server's own events.
LEMMA WebEventsType == WebEvents \in Seq(Emitted) /\ Len(WebEvents) \in Nat
<1> DEFINE e1 == MessageStart
           e2 == StartBlock(0, "server_tool_use")
           e3 == StopBlock(0)
           e4 == StartBlock(1, "web_tool_result")
           e5 == StopBlock(1)
           e6 == StartBlock(2, "text")
           e7 == DeltaBlock(2, "text", <<>>)
           e8 == StopBlock(2)
           e9 == MessageDelta
           e10 == MessageStop
<1>1. /\ e1 \in Emitted /\ e2 \in Emitted /\ e3 \in Emitted /\ e4 \in Emitted
      /\ e5 \in Emitted /\ e6 \in Emitted /\ e7 \in Emitted /\ e8 \in Emitted
      /\ e9 \in Emitted /\ e10 \in Emitted
  BY EventTypes, EmptyText
<1>2. WebEvents = <<e1, e2, e3, e4, e5, e6, e7, e8, e9, e10>>
  BY DEF WebEvents
<1> HIDE DEF e1, e2, e3, e4, e5, e6, e7, e8, e9, e10
<1>3. <<e1, e2, e3, e4, e5, e6, e7, e8, e9, e10>> \in Seq(Emitted)
  BY <1>1
<1> QED BY <1>2, <1>3

\* The state of the stream is typed after each action of it.
StreamTyped ==
  /\ phase' \in {"streaming", "broken"} /\ cand' \in Nat \ {0}
  /\ stage' \in {"start", "opening", "open", "ended"}
  /\ chat' \in Chats /\ native' \in Natives
  /\ held' \in Seq(Entries(Speaker')) /\ wire' \in Seq(Entries(Speaker'))
  /\ committed' \in BOOLEAN /\ chunks' \in Nat
  /\ said' = said
  /\ ending' \in {"none", "normal", "error"}

LEMMA StreamTypedType ==
  ASSUME TypeOK, StreamTyped PROVE TypeOK'
BY DEF StreamTyped, TypeOK, Final

\* A stream that breaks stays as it is.
LEMMA StreamBreaksType ==
  ASSUME TypeOK, Stages, stage # "ended", StreamBreaks, chunks' = chunks, said' = said
  PROVE  TypeOK'
<1>1. Speaker' = Speaker
  BY DEF StreamBreaks, Speaker
<1> QED BY <1>1 DEF StreamBreaks, TypeOK, Final

\* A builder is drained.
LEMMA ChatEvents ==
  ASSUME NEW b \in Builders
  PROVE  b.out \in Seq(Emitted) /\ [b EXCEPT !.out = <<>>] \in Builders
         /\ [b EXCEPT !.out = <<>>].tools = b.tools
<1>1. <<>> \in Seq(Emitted)
  OBVIOUS
<1> QED BY <1>1 DEF Builders

\* The actions of a stream, one by one.
LEMMA SelectCandidateType ==
  ASSUME TypeOK, Stages, Speaks, SelectCandidate PROVE TypeOK'
<1>1. At("start") /\ stage # "ended" /\ wire = <<>> /\ phase = "streaming" /\ ending = "none"
      /\ chunks' = chunks /\ said' = said /\ chunks \in Nat
  BY DEF SelectCandidate, At, Stages, unchangedRequest, TypeOK
<1>2. ASSUME stage' = "opening", Yield(IF chain[cand].by = "chat" THEN <<MessageStart>> ELSE <<>>, FALSE),
             UNCHANGED <<phase, cand, chat, native, ending>>
      PROVE  TypeOK'
  <2> DEFINE events == IF chain[cand].by = "chat" THEN <<MessageStart>> ELSE <<>>
  <2>1. events \in Seq(Emitted)
    BY EventTypes
  <2> HIDE DEF events
  <2>2. Yield(events, FALSE)
    BY <1>2 DEF events
  <2>3. /\ held' \in Seq(Entries(Speaker')) /\ wire' \in Seq(Entries(Speaker'))
        /\ committed' \in BOOLEAN
    BY <1>1, <1>2, <2>1, <2>2, YieldType
  <2> QED BY <1>1, <1>2, <2>3 DEF TypeOK
<1>3. CASE ProviderFails
  <2>1. StreamTyped
    BY <1>1, <1>3, ProviderFailsType DEF StreamTyped
  <2> QED BY <2>1, StreamTypedType
<1>4. CASE StreamBreaks
  BY <1>1, <1>4, StreamBreaksType
<1> QED BY <1>2, <1>3, <1>4 DEF SelectCandidate

LEMMA OpenFailsType ==
  ASSUME TypeOK, Stages, Speaks, OpenFails PROVE TypeOK'
<1>1. At("opening") /\ stage # "ended" /\ wire = <<>> /\ phase = "streaming" /\ ending = "none"
      /\ chunks' = chunks /\ said' = said /\ chunks \in Nat
  BY DEF OpenFails, At, Stages, unchangedRequest, TypeOK
<1>2. CASE ProviderFails
  <2>1. StreamTyped
    BY <1>1, <1>2, ProviderFailsType DEF StreamTyped
  <2> QED BY <2>1, StreamTypedType
<1>3. CASE StreamBreaks
  BY <1>1, <1>3, StreamBreaksType
<1>4. ASSUME Yield(IF chain[cand].by = "chat" THEN FailMessage(chat.b).out
                   ELSE ErrorMessage(FALSE), TRUE),
             stage' = "ended", ending' = "error", UNCHANGED <<phase, cand, chat, native>>
      PROVE  TypeOK'
  <2> DEFINE events == IF chain[cand].by = "chat" THEN FailMessage(chat.b).out
                       ELSE ErrorMessage(FALSE)
  <2>1. events \in Seq(Emitted)
    <3>1. chat.b \in Builders
      BY DEF TypeOK, Chats
    <3>2. FailMessage(chat.b).out \in Seq(Emitted)
      BY <3>1, FailMessageType, ChatEvents
    <3>3. ErrorMessage(FALSE) \in Seq(Emitted)
      BY ErrorMessageType
    <3> QED BY <3>2, <3>3
  <2> HIDE DEF events
  <2>2. Yield(events, TRUE)
    BY <1>4 DEF events
  <2>3. /\ held' \in Seq(Entries(Speaker')) /\ wire' \in Seq(Entries(Speaker'))
        /\ committed' \in BOOLEAN
    BY <1>1, <1>4, <2>1, <2>2, YieldType
  <2> QED BY <1>1, <1>4, <2>3 DEF TypeOK
<1> QED BY <1>2, <1>3, <1>4 DEF OpenFails

\* What a chat transport yields.
LEMMA ChatYieldsType ==
  ASSUME TypeOK, Stages, Speaks, stage = "open", NEW b \in Builders, ChatYields(b),
         UNCHANGED <<cand, ending>>
  PROVE  /\ chat' \in Chats /\ native' = native /\ chat'.b.tools = b.tools
         /\ held' \in Seq(Entries(Speaker')) /\ wire' \in Seq(Entries(Speaker'))
         /\ committed' \in BOOLEAN
<1> DEFINE drained == [b EXCEPT !.out = <<>>]
<1>1. b.out \in Seq(Emitted) /\ drained \in Builders /\ drained.tools = b.tools
  BY ChatEvents
<1>2. ending = "none" /\ cand' = cand /\ ending' = "none"
  BY DEF Stages
<1>3. /\ held' \in Seq(Entries(Speaker')) /\ wire' \in Seq(Entries(Speaker'))
      /\ committed' \in BOOLEAN
  <2>1. Yield(b.out, FALSE)
    BY DEF ChatYields
  <2> QED BY <1>1, <1>2, <2>1, YieldType
<1> HIDE DEF drained
<1>4. chat' = [chat EXCEPT !.b = drained] /\ native' = native
  BY DEF ChatYields, drained
<1>5. chat' \in Chats /\ chat'.b = drained
  BY <1>1, <1>4 DEF TypeOK, Chats
<1> QED BY <1>1, <1>3, <1>4, <1>5

\* A chat chunk leaves the calls recorded, with what it brought.
LEMMA ChatTextType ==
  ASSUME TypeOK, Stages, Speaks, Records, ChatText PROVE TypeOK' /\ Recording(chat'.b)
<1>1. /\ stage = "open" /\ phase = "streaming" /\ ending = "none" /\ chunks' = chunks + 1
      /\ said' = said /\ UNCHANGED <<phase, cand, stage, ending>>
  BY DEF ChatText, ReadChunk, At, Stages
<1>2. PICK content \in Contents :
        LET think == FeedThink(chat.think, content)
            s == FoldLeft(EmitPart, [b |-> chat.b, tools |-> chat.tools], think.parts)
        IN  /\ Yield(s.b.out, FALSE)
            /\ chat' = [b |-> [s.b EXCEPT !.out = <<>>],
                        think |-> [think EXCEPT !.parts = <<>>],
                        tools |-> [s.tools EXCEPT !.shown = <<>>, !.calls = 0],
                        fed |-> chat.fed \o content]
            /\ UNCHANGED native
  BY DEF ChatText
<1> DEFINE think == FeedThink(chat.think, content)
           s0 == [b |-> chat.b, tools |-> chat.tools]
           s == FoldLeft(EmitPart, s0, think.parts)
<1>3. chat.b \in Builders /\ chat.think \in ThinkStates /\ chat.tools \in ToolStates
      /\ chat.fed \in Text /\ content \in Text
  BY ContentsAssumption DEF TypeOK, Chats, Text
<1>4. think \in ThinkStates /\ think.parts \in Seq(Parts)
  <2>1. think \in ThinkStates
    BY <1>3, FeedThinkType
  <2> QED BY <2>1 DEF ThinkStates
<1> HIDE DEF think
<1>5. s0 \in Speakers /\ s0.b = chat.b
  BY <1>3 DEF Speakers
<1> HIDE DEF s0
<1>6. s \in Speakers /\ s.b.tools = chat.b.tools
  BY <1>4, <1>5, EmitPartsType
<1> HIDE DEF s
<1>7. s.b \in Builders /\ s.tools \in ToolStates
  BY <1>6 DEF Speakers
<1> DEFINE drained == [s.b EXCEPT !.out = <<>>]
           empty == [think EXCEPT !.parts = <<>>]
           shown == [s.tools EXCEPT !.shown = <<>>, !.calls = 0]
           all == chat.fed \o content
<1>8. s.b.out \in Seq(Emitted) /\ drained \in Builders /\ drained.tools = chat.b.tools
  BY <1>6, <1>7, ChatEvents
<1>9. empty \in ThinkStates /\ shown \in ToolStates /\ all \in Text
  <2>1. empty \in ThinkStates
    BY <1>4, EmptyText DEF ThinkStates
  <2>2. shown \in ToolStates
    BY <1>7, EmptyText DEF ToolStates
  <2>3. all \in Text
    BY <1>3 DEF Text
  <2> QED BY <2>1, <2>2, <2>3
<1>10. /\ Yield(s.b.out, FALSE)
       /\ chat' = [b |-> drained, think |-> empty, tools |-> shown, fed |-> all]
       /\ native' = native
  BY <1>2 DEF think, s, s0
<1> HIDE DEF drained, empty, shown, all
<1>11. /\ held' \in Seq(Entries(Speaker')) /\ wire' \in Seq(Entries(Speaker'))
       /\ committed' \in BOOLEAN
  BY <1>1, <1>8, <1>10, YieldType
<1>12. chat' \in Chats /\ chat'.b = drained
  BY <1>8, <1>9, <1>10 DEF Chats
<1>13. chunks' \in Nat
  BY <1>1 DEF TypeOK
<1>14. TypeOK'
  BY <1>1, <1>10, <1>11, <1>12, <1>13 DEF TypeOK
<1>15. Recording(chat'.b)
  BY <1>1, <1>8, <1>12 DEF Records, Recording
<1> QED BY <1>14, <1>15

LEMMA ChatReasoningType ==
  ASSUME TypeOK, Stages, Speaks, Records, ChatReasoning PROVE TypeOK' /\ Recording(chat'.b)
<1>1. /\ stage = "open" /\ phase = "streaming" /\ ending = "none" /\ chunks' = chunks + 1
      /\ said' = said /\ UNCHANGED <<phase, cand, stage, ending>>
  BY DEF ChatReasoning, ReadChunk, At, Stages
<1>2. chunks' \in Nat
  BY <1>1 DEF TypeOK
<1>3. CASE thinkingEnabled
  <2> DEFINE b == EmitThinking(chat.b, <<"word">>)
  <2>1. <<"word">> \in Text
    BY DEF Text, Symbols
  <2>2. b \in Builders /\ b.tools = chat.b.tools
    BY <2>1, EmitThinkingType DEF TypeOK, Chats
  <2> HIDE DEF b
  <2>3. ChatYields(b)
    BY <1>3 DEF ChatReasoning, b
  <2>4. /\ chat' \in Chats /\ native' = native /\ chat'.b.tools = b.tools
        /\ held' \in Seq(Entries(Speaker')) /\ wire' \in Seq(Entries(Speaker'))
        /\ committed' \in BOOLEAN
    BY <1>1, <2>2, <2>3, ChatYieldsType
  <2>5. TypeOK'
    BY <1>1, <1>2, <2>4 DEF TypeOK
  <2>6. Recording(chat'.b)
    BY <1>1, <2>2, <2>4 DEF Records, Recording
  <2> QED BY <2>5, <2>6
<1>4. CASE ~thinkingEnabled
  <2>1. UNCHANGED <<chat, native, held, wire, committed>>
    BY <1>4 DEF ChatReasoning
  <2>2. Speaker' = Speaker
    BY <1>1 DEF Speaker
  <2>3. TypeOK'
    BY <1>1, <1>2, <2>1, <2>2 DEF TypeOK
  <2>4. Recording(chat'.b)
    BY <1>1, <2>1 DEF Records, Recording
  <2> QED BY <2>3, <2>4
<1> QED BY <1>3, <1>4

LEMMA ChatToolType ==
  ASSUME TypeOK, Stages, Speaks, Records, ChatTool PROVE TypeOK' /\ Recording(chat'.b)
<1>1. /\ stage = "open" /\ phase = "streaming" /\ ending = "none" /\ chunks' = chunks + 1
      /\ said' = said /\ UNCHANGED <<phase, cand, stage, ending>>
  BY DEF ChatTool, ReadChunk, At, Stages
<1>2. chunks' \in Nat
  BY <1>1 DEF TypeOK
<1>3. PICK call \in ToolChunks : ChatYields(ToolDelta(chat.b, call[1], call[2], call[3]))
  BY DEF ChatTool
<1>4. call[1] \in ToolIndexes /\ call[2] \in Seq(Fragments) /\ call[3] \in Nat
  <2>1. ToSet(call[2]) \subseteq Fragments /\ call[2] \in Seq(ToSet(call[2]))
    BY ToolChunksAssumption DEF Fragments
  <2>2. call[2] \in Seq(Fragments)
    <3> DEFINE S == ToSet(call[2])
    <3> HIDE DEF S
    <3>1. S \subseteq Fragments /\ call[2] \in Seq(S)
      BY <2>1 DEF S
    <3> QED BY <3>1
  <2> QED BY <2>2, ToolChunksAssumption
<1> DEFINE b == ToolDelta(chat.b, call[1], call[2], call[3])
<1>5. b \in Builders /\ Recording(b)
  <2>1. chat.b \in Builders /\ Recording(chat.b)
    BY <1>1 DEF TypeOK, Chats, Records
  <2> QED BY <1>4, <2>1, ToolDeltaType
<1>6. ChatYields(b)
  BY <1>3
<1> HIDE DEF b
<1>7. /\ chat' \in Chats /\ native' = native /\ chat'.b.tools = b.tools
      /\ held' \in Seq(Entries(Speaker')) /\ wire' \in Seq(Entries(Speaker'))
      /\ committed' \in BOOLEAN
  BY <1>1, <1>5, <1>6, ChatYieldsType
<1>8. TypeOK'
  BY <1>1, <1>2, <1>7 DEF TypeOK
<1>9. Recording(chat'.b)
  BY <1>5, <1>7 DEF Recording
<1> QED BY <1>8, <1>9

\* A generator's last events.
LEMMA GeneratorEndsType ==
  ASSUME TypeOK, Stages, Speaks, stage # "ended", NEW events \in Seq(Emitted), NEW how,
         how \in {"normal", "error"}, GeneratorEnds(events, how)
  PROVE  /\ held' \in Seq(Entries(Speaker')) /\ wire' \in Seq(Entries(Speaker'))
         /\ committed' \in BOOLEAN
         /\ stage' = "ended" /\ ending' = how /\ chunks' = chunks /\ said' = said
         /\ phase' = phase /\ cand' = cand /\ chain' = chain /\ served' = served
<1>1. /\ stage' = "ended" /\ ending' = how /\ chunks' = chunks /\ said' = said
      /\ phase' = phase /\ cand' = cand /\ chain' = chain /\ served' = served
      /\ Yield(events, TRUE)
  BY DEF GeneratorEnds, unchangedRequest
<1>2. ending' \in {"none", "normal", "error"}
  BY <1>1
<1>3. /\ held' \in Seq(Entries(Speaker')) /\ wire' \in Seq(Entries(Speaker'))
      /\ committed' \in BOOLEAN
  BY <1>1, <1>2, YieldType
<1> QED BY <1>1, <1>3

\* A chat answer that ends normally has whole calls.
LEMMA ChatEndsType ==
  ASSUME TypeOK, Stages, Speaks, Records, ChatEnds
  PROVE  TypeOK' /\ \A i \in ToolIndexes : Whole(chat'.b.tools[i])
<1> DEFINE f == FlushedBuilder
           b == FinishMessage(f)
           drained == [b EXCEPT !.out = <<>>]
<1>1. /\ stage = "open" /\ ending = "none" /\ GeneratorEnds(b.out, "normal")
      /\ chat' = [chat EXCEPT !.b = drained] /\ native' = native
  BY DEF ChatEnds, At, Stages
<1>2. f \in Builders /\ f.tools = chat.b.tools
  BY FlushedBuilderType DEF TypeOK, Chats
<1>3. Recording(f)
  BY <1>1, <1>2 DEF Records, Recording
<1> HIDE DEF f
<1>4. b \in Builders /\ \A i \in ToolIndexes : Whole(b.tools[i])
  BY <1>2, <1>3, FinishMessageType
<1> HIDE DEF b
<1>5. b.out \in Seq(Emitted) /\ drained \in Builders /\ drained.tools = b.tools
  BY <1>4, ChatEvents
<1> HIDE DEF drained
<1>6. chat' \in Chats /\ chat'.b = drained
  BY <1>1, <1>5 DEF TypeOK, Chats
<1>7. /\ held' \in Seq(Entries(Speaker')) /\ wire' \in Seq(Entries(Speaker'))
      /\ committed' \in BOOLEAN
      /\ stage' = "ended" /\ ending' = "normal" /\ chunks' = chunks /\ said' = said
      /\ phase' = phase /\ cand' = cand
  BY <1>1, <1>5, GeneratorEndsType
<1>8. TypeOK'
  BY <1>1, <1>6, <1>7 DEF TypeOK
<1> QED BY <1>4, <1>5, <1>6, <1>8

LEMMA ChatFailsType ==
  ASSUME TypeOK, Stages, Speaks, ChatFails PROVE TypeOK'
<1> DEFINE events == FailMessage(chat.b).out
<1>1. stage = "open" /\ GeneratorEnds(events, "error") /\ chat' = chat /\ native' = native
  BY DEF ChatFails, At
<1>2. events \in Seq(Emitted)
  BY FailMessageType, ChatEvents DEF TypeOK, Chats
<1> HIDE DEF events
<1>3. /\ held' \in Seq(Entries(Speaker')) /\ wire' \in Seq(Entries(Speaker'))
      /\ committed' \in BOOLEAN
      /\ stage' = "ended" /\ ending' = "error" /\ chunks' = chunks /\ said' = said
      /\ phase' = phase /\ cand' = cand
  BY <1>1, <1>2, GeneratorEndsType
<1> QED BY <1>1, <1>3 DEF TypeOK

\* What a native transport yields.
LEMMA NativeYieldsType ==
  ASSUME TypeOK, Stages, Speaks, NEW policy \in Policies,
         NEW up \in [Upstream -> {"new", "closed"} \cup BlockKinds],
         NativeReads, NativeYields(policy, up)
  PROVE  TypeOK'
<1>1. /\ stage = "open" /\ phase = "streaming" /\ ending = "none" /\ chunks' = chunks + 1
      /\ said' = said /\ UNCHANGED <<phase, cand, stage, ending>>
  BY DEF NativeReads, ReadChunk, At, Stages
<1>2. chunks' \in Nat
  BY <1>1 DEF TypeOK
<1> DEFINE drained == [policy EXCEPT !.out = <<>>]
           tracker == ObserveAll(native.tracker, policy.out)
           sent == native.sent \/ policy.out # <<>>
<1>3. policy.out \in Seq(Emitted)
  BY DEF Policies
<1>4. drained \in Policies
  <2>1. <<>> \in Seq(Emitted)
    OBVIOUS
  <2> QED BY <2>1 DEF Policies
<1>5. tracker \in Trackers
  BY <1>3, ObserveAllType DEF TypeOK, Natives
<1>6. sent \in BOOLEAN
  BY DEF TypeOK, Natives
<1>7. /\ native' = [native EXCEPT !.policy = drained, !.tracker = tracker, !.sent = sent, !.up = up]
      /\ chat' = chat /\ Yield(policy.out, FALSE)
  BY DEF NativeYields
<1> HIDE DEF drained, tracker, sent
<1>8. native' \in Natives
  BY <1>4, <1>5, <1>6, <1>7 DEF TypeOK, Natives
<1>9. /\ held' \in Seq(Entries(Speaker')) /\ wire' \in Seq(Entries(Speaker'))
      /\ committed' \in BOOLEAN
  BY <1>1, <1>3, <1>7, YieldType
<1> QED BY <1>1, <1>2, <1>7, <1>8, <1>9 DEF TypeOK

\* The parts of its state.
LEMMA NativeFacts ==
  ASSUME TypeOK
  PROVE  /\ native.policy \in Policies /\ native.tracker \in Trackers
         /\ native.up \in [Upstream -> {"new", "closed"} \cup BlockKinds]
BY DEF TypeOK, Natives

\* Its actions, one by one.
LEMMA NativeStartType ==
  ASSUME TypeOK, Stages, Speaks, NativeStart PROVE TypeOK'
<1>1. NativeReads /\ NativeYields(Yielding(native.policy, <<MessageStart>>), native.up)
  BY DEF NativeStart
<1>2. <<MessageStart>> \in Seq(Emitted)
  BY EventTypes
<1>3. Yielding(native.policy, <<MessageStart>>) \in Policies
  BY <1>2, NativeFacts, PolicyYields
<1> QED BY <1>1, <1>3, NativeFacts, NativeYieldsType

LEMMA NativeBlockStartType ==
  ASSUME TypeOK, Stages, Speaks, NativeBlockStart PROVE TypeOK'
<1>1. PICK u \in Upstream, kind \in {"text", "thinking", "tool_use"} :
        NativeYields(PolicyStart(native.policy, u, kind, thinkingEnabled),
                     [native.up EXCEPT ![u] = kind])
  BY DEF NativeBlockStart
<1> HIDE DEF thinkingEnabled
<1>2. kind \in BlockKinds /\ NativeReads
  BY DEF BlockKinds, NativeBlockStart
<1>3. PolicyStart(native.policy, u, kind, thinkingEnabled) \in Policies
  BY <1>2, NativeFacts, PolicyStartType
<1>4. [native.up EXCEPT ![u] = kind] \in [Upstream -> {"new", "closed"} \cup BlockKinds]
  BY <1>2, NativeFacts
<1> QED BY <1>1, <1>2, <1>3, <1>4, NativeYieldsType

LEMMA NativeDeltaType ==
  ASSUME TypeOK, Stages, Speaks, NativeDelta PROVE TypeOK'
<1>1. PICK u \in Upstream, kind \in {"text", "thinking", "tool_use"} :
        NativeYields(PolicyDelta(native.policy, u, kind, thinkingEnabled),
                     [native.up EXCEPT ![u] = IF kind = "thinking" THEN @ ELSE kind])
  BY DEF NativeDelta
<1>2. kind \in BlockKinds /\ NativeReads
  BY DEF BlockKinds, NativeDelta
<1>3. PolicyDelta(native.policy, u, kind, thinkingEnabled) \in Policies
  BY <1>2, NativeFacts, PolicyDeltaType
<1>4. [native.up EXCEPT ![u] = IF kind = "thinking" THEN @ ELSE kind]
        \in [Upstream -> {"new", "closed"} \cup BlockKinds]
  BY <1>2, NativeFacts
<1> QED BY <1>1, <1>2, <1>3, <1>4, NativeYieldsType

LEMMA NativeBlockStopType ==
  ASSUME TypeOK, Stages, Speaks, NativeBlockStop PROVE TypeOK'
<1>1. PICK u \in Upstream :
        NativeYields(PolicyStop(native.policy, u, thinkingEnabled),
                     [native.up EXCEPT ![u] = IF @ = "new" THEN @ ELSE "closed"])
  BY DEF NativeBlockStop
<1>2. NativeReads
  BY DEF NativeBlockStop
<1>3. PolicyStop(native.policy, u, thinkingEnabled) \in Policies
  BY NativeFacts, PolicyStopType
<1>4. [native.up EXCEPT ![u] = IF @ = "new" THEN @ ELSE "closed"]
        \in [Upstream -> {"new", "closed"} \cup BlockKinds]
  BY NativeFacts
<1> QED BY <1>1, <1>2, <1>3, <1>4, NativeYieldsType

LEMMA NativeMessageStopType ==
  ASSUME TypeOK, Stages, Speaks, NativeMessageStop PROVE TypeOK'
<1> DEFINE events == <<MessageDelta, MessageStop>>
<1>1. /\ stage = "open" /\ phase = "streaming" /\ ending = "none" /\ chunks' = chunks
      /\ said' = said /\ UNCHANGED <<phase, cand, stage, ending, chat>>
      /\ native' = [native EXCEPT !.stopped = TRUE] /\ Yield(events, FALSE)
  BY DEF NativeMessageStop, unchangedRequest, At, Stages
<1>2. events \in Seq(Emitted)
  BY EventTypes
<1> HIDE DEF events
<1>3. native' \in Natives
  BY <1>1 DEF TypeOK, Natives
<1>4. /\ held' \in Seq(Entries(Speaker')) /\ wire' \in Seq(Entries(Speaker'))
      /\ committed' \in BOOLEAN
  BY <1>1, <1>2, YieldType
<1> QED BY <1>1, <1>3, <1>4 DEF TypeOK

LEMMA NativeEndsType ==
  ASSUME TypeOK, Stages, Speaks, NativeEnds PROVE TypeOK'
<1>1. stage = "open" /\ GeneratorEnds(<<>>, "normal") /\ chat' = chat /\ native' = native
  BY DEF NativeEnds, At
<1>2. <<>> \in Seq(Emitted)
  OBVIOUS
<1>3. /\ held' \in Seq(Entries(Speaker')) /\ wire' \in Seq(Entries(Speaker'))
      /\ committed' \in BOOLEAN
      /\ stage' = "ended" /\ ending' = "normal" /\ chunks' = chunks /\ said' = said
      /\ phase' = phase /\ cand' = cand
  BY <1>1, <1>2, GeneratorEndsType
<1> QED BY <1>1, <1>3 DEF TypeOK

LEMMA NativeFailsType ==
  ASSUME TypeOK, Stages, Speaks, NativeFails PROVE TypeOK'
<1> DEFINE events == IF native.sent THEN ErrorTail(native.tracker) ELSE ErrorMessage(FALSE)
<1>1. stage = "open" /\ GeneratorEnds(events, "error") /\ chat' = chat /\ native' = native
  BY DEF NativeFails, At
<1>2. events \in Seq(Emitted)
  BY NativeFacts, ErrorTailType, ErrorMessageType
<1> HIDE DEF events
<1>3. /\ held' \in Seq(Entries(Speaker')) /\ wire' \in Seq(Entries(Speaker'))
      /\ committed' \in BOOLEAN
      /\ stage' = "ended" /\ ending' = "error" /\ chunks' = chunks /\ said' = said
      /\ phase' = phase /\ cand' = cand
  BY <1>1, <1>2, GeneratorEndsType
<1> QED BY <1>1, <1>3 DEF TypeOK

\* The client receives an event of whoever speaks.
LEMMA DeliverType ==
  ASSUME TypeOK, Deliver
  PROVE  TypeOK' /\ served' \subseteq served \cup {Speaker}
<1>1. wire # <<>> /\ wire \in Seq(Entries(Speaker))
  BY DEF Deliver, TypeOK
<1>2. Head(wire) \in Entries(Speaker) /\ Tail(wire) \in Seq(Entries(Speaker))
  <2> DEFINE S == Entries(Speaker)
  <2> HIDE DEF S
  <2>1. wire \in Seq(S)
    BY <1>1 DEF S
  <2>2. Head(wire) \in S /\ Tail(wire) \in Seq(S)
    BY <1>1, <2>1
  <2> QED BY <2>2 DEF S
<1>3. Head(wire).by = Speaker /\ Head(wire).event.what \in Text
  BY <1>2 DEF Entries, Emitted
<1>4. said' \in Text
  <2>1. said \o Head(wire).event.what \in Text
    BY <1>3 DEF TypeOK, Text
  <2> QED BY <2>1 DEF Deliver, TypeOK
<1>5. Speaker' = Speaker
  BY DEF Deliver, Speaker
<1>6. TypeOK'
  BY <1>2, <1>4, <1>5 DEF Deliver, TypeOK
<1> QED BY <1>3, <1>6 DEF Deliver

\* The steps before the stream, at its end and those of no effect on it.
QuietStep ==
  /\ phase' \in {"listing", "picked", "asked", "streaming"} \cup Final
  /\ UNCHANGED <<cand, stage, served, said, streamVars>>

LEMMA QuietSteps ==
  ASSUME TypeOK,
         Validate \/ Refresh \/ Pick \/ Apply \/ Route \/ Refuse \/ Optimize \/ StartStream
         \/ Completed \/ Disconnect \/ Over
  PROVE  QuietStep /\ (phase' \in {"listing", "picked", "asked"} => phase \in {"listing", "picked", "asked"})
         /\ (chain' # chain => phase \in {"picked", "asked"})
<1> USE DEF QuietStep, notStreaming, Final
<1>1. CASE Validate
  BY <1>1 DEF Validate, Query
<1>2. CASE Refresh
  BY <1>2 DEF Refresh, Query
<1>3. CASE Pick
  BY <1>3 DEF Pick
<1>4. CASE Apply
  BY <1>4 DEF Apply
<1>5. CASE Route
  BY <1>5 DEF Route
<1>6. CASE Refuse
  BY <1>6 DEF Refuse, Answer
<1>7. CASE Optimize
  BY <1>7 DEF Optimize, Answer
<1>8. CASE StartStream
  BY <1>8 DEF StartStream, Answer
<1>9. CASE Completed
  BY <1>9 DEF Completed, At, streamVars
<1>10. CASE Disconnect
  BY <1>10 DEF Disconnect, streamVars
<1>11. CASE Over
  BY <1>11 DEF Over, vars, TypeOK
<1> QED BY <1>1, <1>2, <1>3, <1>4, <1>5, <1>6, <1>7, <1>8, <1>9, <1>10, <1>11

-----------------------------------------------------------------------------
(* The invariant of a request *)

\* The inductive invariant of a request.
Inv == TypeOK /\ Stages /\ Speaks /\ Records

\* A step of the transport of an open stream: no other candidate is tried.
OpenStep ==
  /\ stage = "open" /\ stage' \in {"open", "ended"}
  /\ phase = "streaming" /\ UNCHANGED <<phase, cand, served, chain>>
  /\ stage' = "open" => ending' = ending
  /\ ending' \in {ending, "normal", "error"}

LEMMA OpenSteps ==
  ASSUME Stages, ChatText \/ ChatReasoning \/ ChatTool \/ ChatEnds \/ ChatFails
         \/ NativeStart \/ NativeBlockStart \/ NativeDelta \/ NativeBlockStop
         \/ NativeMessageStop \/ NativeEnds \/ NativeFails
  PROVE  OpenStep
<1> USE DEF OpenStep, At, ReadChunk, NativeReads, GeneratorEnds, unchangedRequest
<1>1. CASE ChatText \/ ChatReasoning \/ ChatTool
  BY <1>1 DEF ChatText, ChatReasoning, ChatTool
<1>2. CASE ChatEnds
  BY <1>2 DEF ChatEnds
<1>3. CASE ChatFails
  BY <1>3 DEF ChatFails
<1>4. CASE NativeStart \/ NativeBlockStart \/ NativeDelta \/ NativeBlockStop
  BY <1>4 DEF NativeStart, NativeBlockStart, NativeDelta, NativeBlockStop
<1>5. CASE NativeMessageStop
  BY <1>5 DEF NativeMessageStop
<1>6. CASE NativeEnds
  BY <1>6 DEF NativeEnds
<1>7. CASE NativeFails
  BY <1>7 DEF NativeFails
<1> QED BY <1>1, <1>2, <1>3, <1>4, <1>5, <1>6, <1>7

\* Such a step leaves it to the candidate to speak.
LEMMA OpenStepKeeps ==
  ASSUME Inv, OpenStep PROVE Stages' /\ Speaks'
<1>1. ending = "none" /\ ending' \in {"none", "normal", "error"}
  BY DEF Inv, Stages, OpenStep
<1>2. Speaker' = Speaker
  BY <1>1 DEF OpenStep, Speaker
<1>3. Stages'
  BY <1>1 DEF OpenStep, Stages
<1> QED BY <1>2, <1>3 DEF Inv, Speaks, OpenStep

\* A candidate that fails, or whose generator was not opened yet.
LEMMA FailsKeeps ==
  ASSUME Inv, ProviderFails, stage \in {"start", "opening"}, phase = "streaming",
         wire = <<>>, UNCHANGED <<chain, served>>
  PROVE  Stages' /\ Speaks' /\ Records'
<1>1. ending = "none" /\ Speaker = cand
  BY DEF Inv, Stages, Speaker
<1>2. CASE ~IsLast
  <2>1. /\ cand' = cand + 1 /\ stage' = "start" /\ held' = <<>> /\ phase' = phase
        /\ chat' = FreshChat /\ wire' = wire /\ committed' = committed /\ ending' = ending
    BY <1>2 DEF ProviderFails
  <2>2. Len(chain) # 1 /\ ~committed /\ served = {}
    BY <1>2 DEF Inv, Speaks, IsLast
  <2>3. Stages'
    BY <1>1, <2>1 DEF Stages
  <2>4. Speaks'
    BY <2>1, <2>2 DEF Speaks
  <2>5. Records'
    BY <1>1, <2>1, FreshChatType DEF Records
  <2> QED BY <2>3, <2>4, <2>5
<1>3. CASE IsLast
  <2>1. /\ cand' = cand /\ stage' = "ended" /\ phase' = phase /\ ending' = "error"
    BY <1>3 DEF ProviderFails
  <2>2. Speaker' = Speaker
    BY <1>1, <2>1 DEF Speaker
  <2>3. Stages'
    BY <2>1 DEF Stages
  <2>4. Speaks'
    BY <2>1, <2>2 DEF Speaks, Inv
  <2>5. Records'
    BY <2>1 DEF Records
  <2> QED BY <2>3, <2>4, <2>5
<1> QED BY <1>2, <1>3

\* A stream that breaks keeps the invariant.
LEMMA BreaksKeeps ==
  ASSUME Inv, StreamBreaks, UNCHANGED <<chain, served, chunks, said>>, stage # "ended"
  PROVE  Inv'
<1>1. TypeOK'
  BY StreamBreaksType DEF Inv
<1>2. Speaker' = Speaker
  BY DEF StreamBreaks, Speaker
<1>3. Stages'
  BY DEF StreamBreaks, Stages, Inv
<1>4. Speaks'
  BY <1>2 DEF StreamBreaks, Speaks, Inv
<1>5. Records'
  BY DEF StreamBreaks, Records, Recording, Inv
<1> QED BY <1>1, <1>3, <1>4, <1>5 DEF Inv

\* A candidate is tried, after another one only while nothing was delivered.
LEMMA SelectCandidateKeeps == ASSUME Inv, SelectCandidate PROVE Inv'
<1>1. /\ stage = "start" /\ wire = <<>> /\ phase = "streaming" /\ ending = "none"
      /\ UNCHANGED <<chain, served, chunks, said>>
  BY DEF SelectCandidate, At, Inv, Stages, unchangedRequest
<1>2. TypeOK'
  BY SelectCandidateType DEF Inv
<1>3. CASE ProviderFails
  BY <1>1, <1>2, <1>3, FailsKeeps DEF Inv
<1>4. CASE StreamBreaks
  BY <1>1, <1>4, BreaksKeeps
<1>5. ASSUME stage' = "opening", Yield(IF chain[cand].by = "chat" THEN <<MessageStart>> ELSE <<>>, FALSE),
             UNCHANGED <<phase, cand, chat, native, ending>>
      PROVE  Inv'
  <2> DEFINE events == IF chain[cand].by = "chat" THEN <<MessageStart>> ELSE <<>>
  <2>1. \A j \in DOMAIN events : events[j].ev \notin ContentEvents
    <3>1. MessageStart.ev \notin ContentEvents
      BY DEF MessageStart, Event, ContentEvents
    <3>2. events = <<>> \/ events = <<MessageStart>>
      OBVIOUS
    <3> HIDE DEF events
    <3> QED BY <3>1, <3>2
  <2>2. Commits(events) <=> Len(chain) = 1 \/ committed
    <3> HIDE DEF events
    <3> QED BY <2>1 DEF Commits
  <2> HIDE DEF events
  <2>3. Yield(events, FALSE)
    BY <1>5 DEF events
  <2>4. committed => Len(chain) = 1
    BY <1>1 DEF Inv, Speaks
  <2>5. committed' => Len(chain) = 1
    <3>1. CASE Commits(events)
      BY <2>2, <2>4, <3>1
    <3>2. CASE ~Commits(events)
      BY <2>3, <2>4, <3>2 DEF Yield
    <3> QED BY <3>1, <3>2
  <2>6. ~committed' => wire' = <<>> /\ ~committed
    <3>1. CASE Commits(events)
      BY <2>3, <3>1 DEF Yield
    <3>2. CASE ~Commits(events)
      BY <1>1, <2>3, <3>2 DEF Yield
    <3> QED BY <3>1, <3>2
  <2>7. Speaker' = Speaker
    BY <1>5 DEF Speaker
  <2>8. Stages'
    BY <1>1, <1>5 DEF Stages
  <2>9. Speaks'
    BY <1>1, <1>5, <2>5, <2>6, <2>7 DEF Inv, Speaks
  <2>10. Records'
    BY <1>1, <1>5 DEF Inv, Records, Recording
  <2> QED BY <1>2, <2>8, <2>9, <2>10 DEF Inv
<1> QED BY <1>3, <1>4, <1>5 DEF SelectCandidate

LEMMA OpenStreamKeeps == ASSUME Inv, OpenStream PROVE Inv'
<1>1. /\ stage = "opening" /\ stage' = "open" /\ phase = "streaming"
      /\ UNCHANGED <<chain, served, chunks, said, phase, cand, chat, native, held, wire,
                     committed, ending>>
  BY DEF OpenStream, At, unchangedRequest
<1>2. Speaker' = Speaker
  BY <1>1 DEF Speaker
<1>3. TypeOK'
  BY <1>1, <1>2 DEF Inv, TypeOK
<1>4. Stages'
  BY <1>1 DEF Inv, Stages
<1>5. Speaks'
  BY <1>1, <1>2 DEF Inv, Speaks
<1>6. Records'
  BY <1>1 DEF Inv, Records, Recording
<1> QED BY <1>3, <1>4, <1>5, <1>6 DEF Inv

LEMMA OpenFailsKeeps == ASSUME Inv, OpenFails PROVE Inv'
<1>1. /\ stage = "opening" /\ wire = <<>> /\ phase = "streaming" /\ ending = "none"
      /\ UNCHANGED <<chain, served, chunks, said>>
  BY DEF OpenFails, At, Inv, Stages, unchangedRequest
<1>2. TypeOK'
  BY OpenFailsType DEF Inv
<1>3. CASE ProviderFails
  BY <1>1, <1>2, <1>3, FailsKeeps DEF Inv
<1>4. CASE StreamBreaks
  BY <1>1, <1>4, BreaksKeeps
<1>5. ASSUME stage' = "ended", ending' = "error", UNCHANGED <<phase, cand, chat, native>>
      PROVE  Inv'
  <2>1. Speaker' = Speaker
    BY <1>1, <1>5 DEF Speaker
  <2>2. Stages' /\ Records'
    BY <1>1, <1>5 DEF Stages, Records
  <2>3. Speaks'
    BY <1>1, <1>5, <2>1 DEF Inv, Speaks
  <2> QED BY <1>2, <2>2, <2>3 DEF Inv
<1> QED BY <1>3, <1>4, <1>5 DEF OpenFails

\* What is delivered is the speaker's.
LEMMA DeliverKeeps == ASSUME Inv, Deliver PROVE Inv'
<1>1. TypeOK' /\ served' \subseteq served \cup {Speaker}
  BY DeliverType DEF Inv
<1>2. wire # <<>> /\ phase = "streaming" /\ UNCHANGED <<chain, phase, cand, stage, chat, committed, ending>>
  BY DEF Deliver
<1>3. Speaker' = Speaker
  BY <1>2 DEF Speaker
<1>4. Stages'
  BY <1>2 DEF Inv, Stages
<1>5. Speaks'
  BY <1>1, <1>2, <1>3 DEF Inv, Speaks
<1>6. Records'
  BY <1>2 DEF Inv, Records, Recording
<1> QED BY <1>1, <1>4, <1>5, <1>6 DEF Inv

\* The server speaks where no candidate did.
LEMMA WebToolKeeps == ASSUME Inv, WebTool PROVE Inv'
<1>1. /\ phase = "asked" /\ phase' = "streaming" /\ stage' = "ended" /\ ending' = "web"
      /\ wire' = [j \in DOMAIN WebEvents |-> [by |-> 0, event |-> WebEvents[j]]]
      /\ UNCHANGED <<chain, cand, served, said, chat, native, held, committed, chunks>>
  BY DEF WebTool
<1>2. held = <<>> /\ served = {}
  BY <1>1 DEF Inv, Stages
<1>3. Speaker' = 0
  BY <1>1 DEF Speaker
<1> DEFINE n == Len(WebEvents)
<1>4. n \in Nat /\ DOMAIN WebEvents = 1 .. n /\ \A j \in 1 .. n : WebEvents[j] \in Emitted
  BY WebEventsType
<1> HIDE DEF n
<1>5. \A j \in 1 .. n : [by |-> 0, event |-> WebEvents[j]] \in Entries(0)
  BY <1>4 DEF Entries
<1>6. [j \in 1 .. n |-> [by |-> 0, event |-> WebEvents[j]]] \in Seq(Entries(0))
  BY <1>4, <1>5
<1>7. wire' \in Seq(Entries(Speaker')) /\ held' \in Seq(Entries(Speaker'))
  BY <1>1, <1>2, <1>3, <1>4, <1>6
<1>8. TypeOK'
  BY <1>1, <1>7 DEF Inv, TypeOK
<1>9. Stages' /\ Speaks' /\ Records'
  BY <1>1, <1>2 DEF Stages, Speaks, Records
<1> QED BY <1>8, <1>9 DEF Inv

\* Steps that do not touch the stream.
LEMMA QuietKeeps ==
  ASSUME Inv, QuietStep,
         phase' \in {"listing", "picked", "asked"} => phase \in {"listing", "picked", "asked"},
         chain' # chain => phase \in {"picked", "asked"}
  PROVE  Inv'
<1>1. UNCHANGED <<cand, stage, served, said, chat, native, held, committed, wire, chunks, ending>>
  BY DEF QuietStep, streamVars
<1>2. Speaker' = Speaker
  BY <1>1 DEF Speaker
<1>3. TypeOK'
  BY <1>1, <1>2 DEF Inv, TypeOK, QuietStep
<1>4. Stages'
  BY <1>1 DEF Inv, Stages
<1>5. CASE phase \in {"listing", "picked", "asked"}
  <2>1. Speaks' /\ Records'
    BY <1>1, <1>2, <1>5 DEF Inv, Stages, Speaks, Records, Recording
  <2> QED BY <1>3, <1>4, <2>1 DEF Inv
<1>6. CASE chain' = chain
  <2>1. Speaks' /\ Records'
    BY <1>1, <1>2, <1>6 DEF Inv, Speaks, Records, Recording
  <2> QED BY <1>3, <1>4, <2>1 DEF Inv
<1> QED BY <1>5, <1>6

\* Every step keeps the invariant.
LEMMA InvNext == Inv /\ [Next]_vars => Inv'
<1> SUFFICES ASSUME Inv, [Next]_vars PROVE Inv'
  OBVIOUS
<1>0. TypeOK /\ Stages /\ Speaks /\ Records
  BY DEF Inv
<1>1. CASE Validate \/ Refresh \/ Pick \/ Apply \/ Route \/ Refuse \/ Optimize \/ StartStream
           \/ Completed \/ Disconnect \/ Over
  BY <1>0, <1>1, QuietSteps, QuietKeeps
<1>2. CASE WebTool
  BY <1>2, WebToolKeeps
<1>3. CASE SelectCandidate
  BY <1>3, SelectCandidateKeeps
<1>4. CASE OpenStream
  BY <1>4, OpenStreamKeeps
<1>5. CASE OpenFails
  BY <1>5, OpenFailsKeeps
<1>6. CASE ChatText \/ ChatReasoning \/ ChatTool
  <2>1. TypeOK' /\ Recording(chat'.b)
    BY <1>0, <1>6, ChatTextType, ChatReasoningType, ChatToolType
  <2>2. Stages' /\ Speaks'
    BY <1>0, <1>6, OpenSteps, OpenStepKeeps
  <2>3. ending' = "none"
    BY <1>0, <1>6 DEF ChatText, ChatReasoning, ChatTool, ReadChunk, At, Stages
  <2>4. Records'
    BY <2>1, <2>3 DEF Records, Recording
  <2> QED BY <2>1, <2>2, <2>4 DEF Inv
<1>7. CASE ChatEnds
  <2>1. TypeOK' /\ \A i \in ToolIndexes : Whole(chat'.b.tools[i])
    BY <1>0, <1>7, ChatEndsType
  <2>2. Stages' /\ Speaks'
    BY <1>0, <1>7, OpenSteps, OpenStepKeeps
  <2>3. ending' = "normal"
    BY <1>7 DEF ChatEnds, GeneratorEnds
  <2>4. Records'
    BY <2>1, <2>3 DEF Records
  <2> QED BY <2>1, <2>2, <2>4 DEF Inv
<1>8. CASE ChatFails \/ NativeFails
  <2>1. TypeOK'
    BY <1>0, <1>8, ChatFailsType, NativeFailsType
  <2>2. Stages' /\ Speaks'
    BY <1>0, <1>8, OpenSteps, OpenStepKeeps
  <2>3. ending' = "error"
    BY <1>8 DEF ChatFails, NativeFails, GeneratorEnds
  <2>4. Records'
    BY <2>3 DEF Records
  <2> QED BY <2>1, <2>2, <2>4 DEF Inv
<1>9. CASE NativeStart \/ NativeBlockStart \/ NativeDelta \/ NativeBlockStop
           \/ NativeMessageStop
  <2>1. TypeOK'
    BY <1>0, <1>9, NativeStartType, NativeBlockStartType, NativeDeltaType,
       NativeBlockStopType, NativeMessageStopType
  <2>2. Stages' /\ Speaks'
    BY <1>0, <1>9, OpenSteps, OpenStepKeeps
  <2>3. ending' = ending /\ chat' = chat /\ ending = "none"
    BY <1>0, <1>9 DEF NativeStart, NativeBlockStart, NativeDelta, NativeBlockStop,
       NativeMessageStop, NativeReads, ReadChunk, NativeYields, At, Stages
  <2>4. Records'
    BY <1>0, <2>3 DEF Records, Recording
  <2> QED BY <2>1, <2>2, <2>4 DEF Inv
<1>10. CASE NativeEnds
  <2>1. TypeOK'
    BY <1>0, <1>10, NativeEndsType
  <2>2. Stages' /\ Speaks'
    BY <1>0, <1>10, OpenSteps, OpenStepKeeps
  <2>3. ending' = "normal" /\ chain'[cand'].by = "native"
    BY <1>10 DEF NativeEnds, GeneratorEnds, unchangedRequest
  <2>4. Records'
    BY <2>3 DEF Records
  <2> QED BY <2>1, <2>2, <2>4 DEF Inv
<1>11. CASE Deliver
  BY <1>11, DeliverKeeps
<1>12. CASE UNCHANGED vars
  <2>1. QuietStep /\ phase' = phase /\ chain' = chain
    BY <1>0, <1>12 DEF vars, QuietStep, TypeOK
  <2> QED BY <2>1, QuietKeeps
<1> QED BY <1>1, <1>2, <1>3, <1>4, <1>5, <1>6, <1>7, <1>8, <1>9, <1>10, <1>11, <1>12 DEF Next

\* In every state a request is typed, one candidate speaks, and no arguments are lost
\* (api/fallback.py, core/anthropic/sse.py), for any number of candidates and chunks.
THEOREM StreamInvariant == Spec => []Inv
<1>1. Init => Inv
  BY TypeInit DEF Inv
<1> QED BY <1>1, InvNext, PTL DEF Spec

\* The client never gets events of two providers (stream_with_fallback).
THEOREM OneProviderInv == Spec => []OneProvider
<1>1. Inv => OneProvider
  <2> SUFFICES ASSUME Inv PROVE OneProvider
    OBVIOUS
  <2>1. served = {} \/ served = {Speaker}
    BY DEF Inv, Speaks
  <2>2. CASE served = {}
    BY <2>2, FS_EmptySet DEF OneProvider
  <2>3. CASE served = {Speaker}
    <3>1. Cardinality({Speaker}) = 1
      BY FS_Singleton
    <3> QED BY <2>3, <3>1 DEF OneProvider
  <2> QED BY <2>1, <2>2, <2>3
<1> QED BY <1>1, StreamInvariant, PTL

\* A completed chat answer has all arguments of its tool calls, whatever order names
\* and pieces came in (SSEBuilder, OpenAIChatTransport).
THEOREM ToolArgsWholeInv == Spec => []ToolArgsWhole
<1>1. Inv => ToolArgsWhole
  BY DEF Inv, Records, Whole, ToolArgsWhole
<1> QED BY <1>1, StreamInvariant, PTL

-----------------------------------------------------------------------------
(* Routing *)

\* The parts names and references are made of.
Segments ==
  ProviderIds \cup {Gateway, NoThinking}
  \cup (UNION {ToSet(name) : name \in Names \cup ClaudeModels})
  \cup (UNION {UNION {ToSet(ref) : ref \in ConfiguredRefs(s)} : s \in Configs})
  \cup (UNION {UNION {ToSet(item.id) : item \in items} : items \in Payloads})

\* Names, and references, as Settings accepts them.
Paths == Seq(Segments)

Refs == {ref \in Paths : Len(ref) >= 2 /\ Head(ref) \in ProviderIds}

\* Candidates, and the reference each is of.
Targets == [provider : ProviderIds, model : Paths, thinking : BOOLEAN]

RefOf(t) == <<t.provider>> \o t.model

\* A sequence of known parts is a name.
LEMMA PathOf ==
  ASSUME NEW name, name \in Seq(ToSet(name)), ToSet(name) \subseteq Segments
  PROVE  name \in Paths
BY DEF Paths

\* So are the names a client may ask for, and the references of the settings.
LEMMA NamesType == Names \cup ClaudeModels \subseteq Paths
<1> SUFFICES ASSUME NEW name \in Names \cup ClaudeModels PROVE name \in Paths
  OBVIOUS
<1>1. ToSet(name) \subseteq Segments
  BY DEF Segments
<1> HIDE DEF Segments
<1> QED BY <1>1, NamesAssumption, PathOf

LEMMA ConfiguredType ==
  ASSUME NEW s \in Configs
  PROVE  ConfiguredRefs(s) \subseteq Refs /\ s.fallbacks \in Seq(Refs)
<1>1. ASSUME NEW ref \in ConfiguredRefs(s) PROVE ref \in Refs
  <2>1. ToSet(ref) \subseteq Segments
    BY DEF Segments
  <2>2. ref \in Paths
    BY <2>1, ConfigsAssumption, PathOf
  <2> QED BY <2>2, ConfigsAssumption DEF Refs, ValidSettings
<1>2. s.fallbacks \in Seq(ConfiguredRefs(s))
  BY ConfigsAssumption
<1> QED BY <1>1, <1>2

\* A reference is its provider and its model.
LEMMA RefFacts ==
  ASSUME NEW ref \in Refs
  PROVE  /\ ref \in Paths /\ Head(ref) \in ProviderIds /\ Tail(ref) \in Paths
         /\ Tail(ref) # <<>> /\ <<Head(ref)>> \o Tail(ref) = ref
<1>1. ref \in Seq(Segments) /\ Len(ref) >= 2 /\ Head(ref) \in ProviderIds
  BY DEF Refs, Paths
<1>2. ref # <<>> /\ Tail(ref) \in Seq(Segments) /\ Len(Tail(ref)) = Len(ref) - 1
  BY <1>1
<1>3. Tail(ref) # <<>>
  <2> DEFINE tail == Tail(ref)
  <2>1. Len(tail) >= 1
    BY <1>1, <1>2
  <2> HIDE DEF tail
  <2>2. tail # <<>>
    BY <2>1
  <2> QED BY <2>2 DEF tail
<1>4. <<Head(ref)>> \o Tail(ref) = ref
  BY <1>1, <1>2
<1> QED BY <1>1, <1>2, <1>3, <1>4 DEF Paths

\* A candidate is of the reference it is made from.
LEMMA TargetFacts ==
  ASSUME NEW ref \in Refs, NEW thinking \in BOOLEAN
  PROVE  Target(ref, thinking) \in Targets /\ RefOf(Target(ref, thinking)) = ref
         /\ Target(ref, thinking).thinking = thinking
BY RefFacts DEF Target, Targets, RefOf

\* A name's tier, if it is set, or the default.
LEMMA ForTierFacts ==
  ASSUME NEW name, NEW byTier, NEW default
  PROVE  ForTier(name, byTier, default) = default
         \/ \E t \in DOMAIN byTier : ForTier(name, byTier, default) = byTier[t]
<1> DEFINE Fits(t) == t \in DOMAIN byTier /\ \E j \in DOMAIN name : t \in TiersOf[name[j]]
           I == {i \in 1 .. Len(Tiers) : Fits(Tiers[i])}
           i == IF I = {} THEN 0 ELSE Min(I)
<1>1. ForTier(name, byTier, default) = IF i = 0 THEN default ELSE byTier[Tiers[i]]
  BY DEF ForTier, SelectInSeq
<1>2. CASE I = {}
  BY <1>1, <1>2
<1>3. CASE I # {}
  <2>1. I \in SUBSET Nat
    OBVIOUS
  <2>2. i \in I
    <3> HIDE DEF I
    <3> QED BY <1>3, <2>1, MinFacts
  <2>3. Tiers[i] \in DOMAIN byTier
    <3> HIDE DEF i
    <3> QED BY <2>2
  <2> HIDE DEF i
  <2> QED BY <1>1, <2>3
<1> QED BY <1>2, <1>3

\* What a name resolves to is configured.
LEMMA ResolvedFacts ==
  ASSUME NEW s \in Configs, NEW name
  PROVE  ResolveModel(s, name) \in ConfiguredRefs(s) /\ ResolveThinking(s, name) \in BOOLEAN
<1>1. ResolveModel(s, name) \in ConfiguredRefs(s)
  BY ForTierFacts DEF ResolveModel, ConfiguredRefs
<1>2. ResolveThinking(s, name) \in BOOLEAN
  BY ForTierFacts, ConfigsAssumption DEF ResolveThinking
<1> QED BY <1>1, <1>2

\* A listed id holds the reference behind its prefix, a reference holds itself.
LEMMA DirectFacts ==
  ASSUME NEW name \in Paths
  PROVE  /\ Direct(name) # <<>> => Direct(name) \in Refs
         /\ (Len(name) >= 3 /\ name[1] \in {Gateway, NoThinking} /\ name[2] \in ProviderIds)
              => Direct(name) = Tail(name) /\ Direct(name) # <<>>
         /\ (Len(name) >= 2 /\ name[1] \in ProviderIds)
              => Direct(name) = name /\ Direct(name) # <<>>
<1>1. name \in Seq(Segments)
  BY DEF Paths
<1>2. Tail(name) \in Paths \/ name = <<>>
  BY <1>1 DEF Paths
<1>3. Decoded(name) # <<>> => Decoded(name) \in Paths /\ Decoded(name) = Tail(name)
  BY <1>1, <1>2 DEF Decoded
<1>4. Direct(name) # <<>> => Direct(name) \in Refs
  BY <1>3 DEF Direct, Refs
<1>5. ASSUME Len(name) >= 3, name[1] \in {Gateway, NoThinking}, name[2] \in ProviderIds
      PROVE  Direct(name) = Tail(name) /\ Direct(name) # <<>>
  <2>1. Len(Tail(name)) >= 2 /\ Head(Tail(name)) = name[2] /\ Tail(name) # <<>>
    <3> DEFINE tail == Tail(name)
    <3>1. name # <<>> /\ Len(name) \in Nat
      BY <1>1, <1>5
    <3>2. tail \in Seq(Segments) /\ Len(tail) = Len(name) - 1
          /\ \A i \in 1 .. Len(tail) : tail[i] = name[i + 1]
      BY <1>1, <3>1, HeadTailProperties
    <3> HIDE DEF tail
    <3>3. 1 \in 1 .. Len(tail)
      BY <1>5, <3>1, <3>2
    <3>4. tail[1] = name[2]
      BY <3>2, <3>3
    <3>5. Len(tail) >= 2
      BY <1>5, <3>1, <3>2
    <3>6. tail # <<>>
      BY <3>5
    <3>7. Head(tail) = tail[1]
      BY <3>2, <3>6
    <3> QED BY <3>4, <3>5, <3>6, <3>7 DEF tail
  <2>2. Decoded(name) = Tail(name)
    BY <1>5 DEF Decoded
  <2> QED BY <1>5, <2>1, <2>2 DEF Direct
<1>6. ASSUME Len(name) >= 2, name[1] \in ProviderIds
      PROVE  Direct(name) = name /\ Direct(name) # <<>>
  <2>1. Decoded(name) = <<>>
    BY <1>6, PrefixAssumption DEF Decoded
  <2>2. Head(name) = name[1] /\ name # <<>>
    BY <1>1, <1>6
  <2> QED BY <1>6, <2>1, <2>2 DEF Direct
<1> QED BY <1>4, <1>5, <1>6

\* The first candidate is of the reference the name holds; no thinking with that prefix.
LEMMA ResolveFacts ==
  ASSUME NEW s \in Configs, NEW name \in Paths
  PROVE  /\ Resolve(s, name) \in Targets
         /\ (Len(name) >= 3 /\ name[1] \in {Gateway, NoThinking} /\ name[2] \in ProviderIds)
              => /\ RefOf(Resolve(s, name)) = Tail(name)
                 /\ name[1] = NoThinking => ~Resolve(s, name).thinking
         /\ (Len(name) >= 2 /\ name[1] \in ProviderIds) => RefOf(Resolve(s, name)) = name
<1> DEFINE thinking == name[1] # NoThinking /\ ResolveThinking(s, Tail(Direct(name)))
<1>1. thinking \in BOOLEAN
  OBVIOUS
<1>2. CASE Direct(name) # <<>>
  <2>1. Direct(name) \in Refs /\ Resolve(s, name) = Target(Direct(name), thinking)
    BY <1>2, DirectFacts DEF Resolve
  <2>2. /\ Resolve(s, name) \in Targets /\ RefOf(Resolve(s, name)) = Direct(name)
        /\ Resolve(s, name).thinking = thinking
    <3> HIDE DEF thinking
    <3> QED BY <1>1, <2>1, TargetFacts
  <2> QED BY <2>2, DirectFacts
<1>3. CASE Direct(name) = <<>>
  <2>1. Resolve(s, name) = Target(ResolveModel(s, name), ResolveThinking(s, name))
    BY <1>3 DEF Resolve
  <2>2. Resolve(s, name) \in Targets
    BY <2>1, ResolvedFacts, ConfiguredType, TargetFacts
  <2> QED BY <1>3, <2>2, DirectFacts
<1> QED BY <1>2, <1>3

\* One fallback, as Chain adds it.
AddFallback(c, ref) ==
  IF \E i \in DOMAIN c : <<c[i].provider>> \o c[i].model = ref
  THEN c ELSE Append(c, Target(ref, ResolveThinking(settings, Tail(ref))))

\* The fallbacks are added one after the other.
Fallbacks == ToSet(settings.fallbacks)

ChainFold == INSTANCE FoldFacts WITH
  States <- Seq(Targets), Elements <- Fallbacks, Op <- AddFallback

\* Candidates that start with this one, no model among them twice, and all of these.
ChainsFrom(t, refs) ==
  {c \in Seq(Targets) :
     /\ c # <<>> /\ c[1] = t
     /\ \A i, j \in DOMAIN c : i # j => RefOf(c[i]) # RefOf(c[j])
     /\ {RefOf(c[i]) : i \in DOMAIN c} \subseteq {RefOf(t)} \cup refs}

\* Chains with a candidate of this reference.
ChainsWith(ref) == {c \in Seq(Targets) : \E i \in DOMAIN c : RefOf(c[i]) = ref}

\* A fallback is added once, and nothing is lost.
LEMMA AddFallbackFacts ==
  ASSUME settings \in Configs, NEW c \in Seq(Targets), NEW ref \in Refs
  PROVE  /\ AddFallback(c, ref) \in Seq(Targets) /\ AddFallback(c, ref) \in ChainsWith(ref)
         /\ \A other : c \in ChainsWith(other) => AddFallback(c, ref) \in ChainsWith(other)
         /\ \A t, refs : c \in ChainsFrom(t, refs) /\ ref \in refs
              => AddFallback(c, ref) \in ChainsFrom(t, refs)
<1> DEFINE t == Target(ref, ResolveThinking(settings, Tail(ref)))
           d == Append(c, t)
<1>1. t \in Targets /\ RefOf(t) = ref
  BY ResolvedFacts, TargetFacts
<1> HIDE DEF t
<1>2. CASE c \in ChainsWith(ref)
  <2>1. AddFallback(c, ref) = c
    BY <1>2 DEF AddFallback, ChainsWith, RefOf
  <2> QED BY <1>2, <2>1
<1>3. CASE c \notin ChainsWith(ref)
  <2>1. AddFallback(c, ref) = d
    BY <1>3 DEF AddFallback, ChainsWith, RefOf, t
  <2>2. \A i \in DOMAIN c : RefOf(c[i]) # ref
    BY <1>3 DEF ChainsWith
  <2>3. /\ d \in Seq(Targets) /\ d # <<>> /\ DOMAIN d = DOMAIN c \cup {Len(c) + 1}
        /\ Len(c) + 1 \notin DOMAIN c
        /\ d[Len(c) + 1] = t /\ \A i \in DOMAIN c : d[i] = c[i]
    BY <1>1
  <2> DEFINE n == Len(c) + 1
  <2> HIDE DEF d, n
  <2>4. d \in ChainsWith(ref)
    BY <1>1, <2>3 DEF ChainsWith, n
  <2>5. ASSUME NEW other, c \in ChainsWith(other) PROVE d \in ChainsWith(other)
    <3>1. PICK i \in DOMAIN c : RefOf(c[i]) = other
      BY <2>5 DEF ChainsWith
    <3>2. i \in DOMAIN d /\ d[i] = c[i]
      BY <2>3
    <3> QED BY <2>3, <3>1, <3>2 DEF ChainsWith
  <2>6. ASSUME NEW first, NEW refs, c \in ChainsFrom(first, refs), ref \in refs
        PROVE  d \in ChainsFrom(first, refs)
    <3>1. /\ c # <<>> /\ c[1] = first
          /\ \A i, j \in DOMAIN c : i # j => RefOf(c[i]) # RefOf(c[j])
          /\ {RefOf(c[i]) : i \in DOMAIN c} \subseteq {RefOf(first)} \cup refs
      BY <2>6 DEF ChainsFrom
    <3>2. d[1] = first
      <4>1. 1 \in DOMAIN c
        BY <3>1
      <4> QED BY <2>3, <3>1, <4>1
    <3>3. /\ DOMAIN d = DOMAIN c \cup {n} /\ n \notin DOMAIN c /\ RefOf(d[n]) = ref
          /\ \A i \in DOMAIN c : RefOf(d[i]) = RefOf(c[i])
      BY <1>1, <2>3 DEF n
    <3>4. \A i, j \in DOMAIN d : i # j => RefOf(d[i]) # RefOf(d[j])
      BY <2>2, <3>1, <3>3
    <3>5. {RefOf(d[i]) : i \in DOMAIN d} \subseteq {RefOf(first)} \cup refs
      BY <2>6, <3>1, <3>3
    <3> QED BY <2>3, <3>2, <3>4, <3>5 DEF ChainsFrom
  <2> QED BY <2>1, <2>3, <2>4, <2>5, <2>6
<1> QED BY <1>2, <1>3

\* The chain of a name: first its model, then the fallbacks, each once.
LEMMA ChainFacts ==
  ASSUME settings \in Configs, NEW name \in Paths
  PROVE  /\ Chain(settings, name) \in ChainsFrom(Resolve(settings, name), Fallbacks)
         /\ \A ref \in Fallbacks : Chain(settings, name) \in ChainsWith(ref)
<1> DEFINE first == Resolve(settings, name)
           refs == settings.fallbacks
<1>1. Chain(settings, name) = ChainFold!Fold(<<first>>, refs)
  BY DEF Chain, AddFallback, FoldLeft, MapThenFoldSet, Max, ChainFold!Fold, ChainFold!Largest
<1>2. first \in Targets /\ refs \in Seq(Refs)
  BY ResolveFacts, ConfiguredType
<1>3. Fallbacks = {refs[i] : i \in DOMAIN refs}
  BY DEF Fallbacks, ToSet
<1> HIDE DEF first, refs
<1>4. refs \in Seq(Fallbacks) /\ Fallbacks \subseteq Refs
  BY <1>2, <1>3
<1>5. <<first>> \in Seq(Targets) /\ <<first>> \in ChainsFrom(first, Fallbacks)
  <2>1. DOMAIN <<first>> = {1} /\ <<first>>[1] = first /\ <<first>> # <<>>
    OBVIOUS
  <2>2. <<first>> \in Seq(Targets)
    BY <1>2
  <2> QED BY <2>1, <2>2 DEF ChainsFrom
<1>6. \A c \in Seq(Targets), ref \in Fallbacks : AddFallback(c, ref) \in Seq(Targets)
  BY <1>4, AddFallbackFacts
<1>7. ChainFold!Fold(<<first>>, refs) \in Seq(Targets) \cap ChainsFrom(first, Fallbacks)
  <2> DEFINE Good == ChainsFrom(first, Fallbacks)
  <2>1. \A c \in Seq(Targets) \cap Good, ref \in Fallbacks : AddFallback(c, ref) \in Good
    BY <1>4, AddFallbackFacts
  <2> HIDE DEF Good
  <2>2. <<first>> \in Good
    BY <1>5 DEF Good
  <2>3. ChainFold!Fold(<<first>>, refs) \in Seq(Targets) \cap Good
    BY <1>4, <1>5, <1>6, <2>1, <2>2, ChainFold!FoldKeeps
  <2> QED BY <2>3 DEF Good
<1>8. ASSUME NEW ref \in Fallbacks
      PROVE  ChainFold!Fold(<<first>>, refs) \in ChainsWith(ref)
  <2>1. PICK j \in DOMAIN refs : refs[j] = ref
    BY <1>3
  <2>2. j \in 1 .. Len(refs)
    BY <1>4
  <2> DEFINE Good == ChainsWith(ref)
  <2>3. \A c \in Seq(Targets) : AddFallback(c, refs[j]) \in Good
    BY <1>4, <2>1, AddFallbackFacts
  <2>4. \A c \in Seq(Targets) \cap Good, e \in Fallbacks : AddFallback(c, e) \in Good
    BY <1>4, AddFallbackFacts
  <2> HIDE DEF Good
  <2>5. ChainFold!Fold(<<first>>, refs) \in Seq(Targets) \cap Good
    BY <1>4, <1>5, <1>6, <2>2, <2>3, <2>4, ChainFold!FoldReaches
  <2> QED BY <2>5 DEF Good
<1> QED BY <1>1, <1>7, <1>8 DEF first

-----------------------------------------------------------------------------

\* What a client may ask for: a name of its own, or an id the proxy lists.
Asks == Names \cup ClaudeModels \cup {<<prefix>> \o ref : prefix \in {Gateway, NoThinking}, ref \in Refs}

\* The providers' answers are of ids.
Known == \A p \in ProviderIds : DOMAIN infos[p] \subseteq Paths \ {<<>>}

\* The inductive invariant of the routing.
RoutingInv ==
  /\ settings \in Configs /\ Known
  /\ phase \in {"picked", "asked"} => asked \in Asks
  /\ RoutedAsListed

\* A listed id has a prefix, a provider and a model.
LEMMA AsksFacts ==
  ASSUME NEW name \in Asks
  PROVE  /\ name \in Paths
         /\ name \notin Names \cup ClaudeModels =>
              /\ Len(name) >= 3 /\ name[1] \in {Gateway, NoThinking}
              /\ name[2] \in ProviderIds
<1>1. CASE name \in Names \cup ClaudeModels
  BY <1>1, NamesType
<1>2. ASSUME NEW prefix \in {Gateway, NoThinking}, NEW ref \in Refs,
             name = <<prefix>> \o ref
      PROVE  /\ name \in Paths /\ Len(name) >= 3 /\ name[1] \in {Gateway, NoThinking}
             /\ name[2] \in ProviderIds
  <2>1. ref \in Seq(Segments) /\ Len(ref) >= 2 /\ Head(ref) \in ProviderIds
    BY DEF Refs, Paths
  <2>2. prefix \in Segments
    BY DEF Segments
  <2> HIDE DEF Segments
  <2>3. name \in Seq(Segments) /\ Len(name) = Len(ref) + 1 /\ name[1] = prefix
    BY <1>2, <2>1, <2>2
  <2>4. ref[1] = Head(ref) /\ name[2] = ref[1]
    BY <1>2, <2>1, <2>2
  <2> QED BY <2>1, <2>3, <2>4 DEF Paths
<1> QED BY <1>1, <1>2 DEF Asks

\* Everything listed can be asked for.
LEMMA ListedFacts ==
  ASSUME settings \in Configs, Known
  PROVE  Listed(settings, infos) \cup Names \subseteq Asks
<1>1. ConfiguredRefs(settings) \subseteq Refs
  BY ConfiguredType
<1>2. DiscoveredRefs(infos) \subseteq Refs
  <2> SUFFICES ASSUME NEW p \in ProviderIds, NEW m \in DOMAIN infos[p]
               PROVE  <<p>> \o m \in Refs
    <3>1. ASSUME NEW ref \in DiscoveredRefs(infos)
          PROVE  \E p \in ProviderIds : \E m \in DOMAIN infos[p] : ref = <<p>> \o m
      BY <3>1 DEF DiscoveredRefs
    <3> QED BY <3>1
  <2>1. m \in Seq(Segments) /\ m # <<>> /\ p \in Segments
    BY DEF Known, Paths, Segments
  <2> HIDE DEF Segments
  <2>2. <<p>> \o m \in Seq(Segments) /\ Len(<<p>> \o m) >= 2 /\ (<<p>> \o m)[1] = p
    BY <2>1
  <2>3. Head(<<p>> \o m) = p
    BY <2>2
  <2> QED BY <2>2, <2>3 DEF Refs, Paths
<1>3. ASSUME NEW ref \in Refs PROVE Variants(infos, ref) \subseteq Asks
  BY SMTT(30) DEF Variants, Asks
<1>4. Names \cup ClaudeModels \subseteq Asks
  BY DEF Asks
<1> QED BY <1>1, <1>2, <1>3, <1>4 DEF Listed

\* What a provider told is a name, and not an empty one.
LEMMA InfosFacts ==
  ASSUME NEW p, NEW items \in Payloads, ~Malformed(p, items)
  PROVE  DOMAIN Infos(p, items) \subseteq Paths \ {<<>>}
<1>1. ASSUME NEW item \in items PROVE item.id \in Paths \ {<<>>}
  <2>1. ToSet(item.id) \subseteq Segments
    BY DEF Segments
  <2>2. item.id # <<>>
    BY DEF Malformed
  <2> QED BY <2>1, <2>2, PayloadsAssumption, PathOf
<1> QED BY <1>1 DEF Infos

\* A request that is routed is routed as listed.
LEMMA RouteFacts ==
  ASSUME settings \in Configs, asked \in Asks, chain = Chain(settings, asked)
  PROVE  RoutedAsListed
<1> DEFINE first == Resolve(settings, asked)
<1>1. /\ chain \in ChainsFrom(first, Fallbacks)
      /\ \A ref \in Fallbacks : chain \in ChainsWith(ref)
  BY ChainFacts, AsksFacts
<1>2. /\ asked \notin Names \cup ClaudeModels =>
              /\ Len(asked) >= 3 /\ asked[1] \in {Gateway, NoThinking}
              /\ asked[2] \in ProviderIds
  BY AsksFacts
<1>3. /\ (Len(asked) >= 3 /\ asked[1] \in {Gateway, NoThinking} /\ asked[2] \in ProviderIds)
              => /\ RefOf(first) = Tail(asked)
                 /\ asked[1] = NoThinking => ~first.thinking
      /\ (Len(asked) >= 2 /\ asked[1] \in ProviderIds) => RefOf(first) = asked
  BY AsksFacts, ResolveFacts
<1> HIDE DEF first
<1>4. /\ chain \in Seq(Targets) /\ chain # <<>> /\ chain[1] = first
      /\ \A i, j \in DOMAIN chain : i # j => RefOf(chain[i]) # RefOf(chain[j])
      /\ {RefOf(chain[i]) : i \in DOMAIN chain} \subseteq {RefOf(first)} \cup Fallbacks
  BY <1>1 DEF ChainsFrom
<1>5. {RefOf(chain[i]) : i \in DOMAIN chain} = {RefOf(chain[1])} \cup ToSet(settings.fallbacks)
  <2>1. 1 \in DOMAIN chain
    BY <1>4
  <2>2. \A ref \in Fallbacks : \E i \in DOMAIN chain : RefOf(chain[i]) = ref
    BY <1>1 DEF ChainsWith
  <2> QED BY <1>4, <2>1, <2>2 DEF Fallbacks
<1>6. \A i \in DOMAIN chain : chain[i].provider \in ProviderIds
  <2> SUFFICES ASSUME NEW i \in DOMAIN chain PROVE chain[i].provider \in ProviderIds
    OBVIOUS
  <2>1. chain[i] \in Targets
    BY <1>4
  <2> QED BY <2>1 DEF Targets
<1> QED BY <1>2, <1>3, <1>4, <1>5, <1>6 DEF RoutedAsListed, RefOf

\* Every step keeps it; what is told or applied meanwhile does not matter.
LEMMA RoutingNext == RoutingInv /\ [Next]_vars => RoutingInv'
<1> SUFFICES ASSUME RoutingInv, [Next]_vars PROVE RoutingInv'
  OBVIOUS
<1> USE DEF RoutingInv
<1>1. ASSUME NEW ps, Query(ps) PROVE RoutingInv'
  <2>1. /\ phase = "listing" /\ UNCHANGED <<settings, phase>>
    BY <1>1 DEF Query
  <2>2. PICK told \in [ps -> Payloads], failed \in SUBSET ps :
       infos' = [p \in ProviderIds |->
                  IF p \in ps \ failed /\ ~Malformed(p, told[p]) THEN Infos(p, told[p])
                  ELSE infos[p]]
    BY <1>1 DEF Query
  <2>3. Known'
    <3> SUFFICES ASSUME NEW p \in ProviderIds PROVE DOMAIN infos'[p] \subseteq Paths \ {<<>>}
      BY DEF Known
    <3>1. CASE p \in ps \ failed /\ ~Malformed(p, told[p])
      <4>1. told[p] \in Payloads
        BY <3>1
      <4> QED BY <2>2, <3>1, <4>1, InfosFacts
    <3>2. CASE ~(p \in ps \ failed /\ ~Malformed(p, told[p]))
      BY <2>2, <3>2 DEF Known
    <3> QED BY <3>1, <3>2
  <2> QED BY <2>1, <2>3 DEF RoutedAsListed
<1>2. CASE Pick
  <2>1. phase' = "picked" /\ UNCHANGED <<settings, infos>> /\ asked' \in Asks
    BY <1>2, ListedFacts DEF Pick
  <2> QED BY <2>1 DEF RoutedAsListed, Known
<1>3. ASSUME infos' = NoInfos PROVE Known'
  BY <1>3 DEF NoInfos, Known
<1>4. CASE Apply
  BY <1>3, <1>4 DEF Apply, RoutedAsListed
<1>5. CASE Route
  <2>1. settings \in Configs /\ asked \in Asks /\ phase' = "asked" /\ UNCHANGED <<settings, infos, asked>>
        /\ chain' = Chain(settings, asked)
    BY <1>5 DEF Route
  <2>2. RoutedAsListed'
    <3>1. (settings \in Configs)' /\ (asked \in Asks)' /\ (chain = Chain(settings, asked))'
      BY <2>1
    <3> QED BY <3>1, RouteFacts, PTL
  <2> QED BY <2>1, <2>2 DEF Known
<1>6. ASSUME ForgetRouting, phase' \notin {"picked", "asked"} PROVE RoutingInv'
  <2>1. settings' \in Configs
    BY <1>6 DEF ForgetRouting
  <2> QED BY <1>3, <1>6, <2>1 DEF ForgetRouting, RoutedAsListed
<1>7. CASE Refuse \/ Optimize \/ StartStream \/ WebTool
  BY <1>6, <1>7 DEF Refuse, Optimize, StartStream, Answer, WebTool
<1>8. ASSUME UNCHANGED routingVars, UNCHANGED chain,
             phase' = phase \/ phase' \notin {"picked", "asked"}
      PROVE  RoutingInv'
  BY <1>8 DEF routingVars, Known, RoutedAsListed
<1>9. CASE SelectCandidate \/ OpenStream \/ OpenFails
  BY <1>8, <1>9 DEF SelectCandidate, OpenStream, OpenFails, ProviderFails, StreamBreaks,
     unchangedRequest
<1>10. CASE ChatText \/ ChatReasoning \/ ChatTool \/ NativeStart \/ NativeBlockStart
            \/ NativeDelta \/ NativeBlockStop
  <2>1. UNCHANGED <<routingVars, chain, phase>>
    BY <1>10 DEF ChatText, ChatReasoning, ChatTool, NativeStart, NativeBlockStart,
       NativeDelta, NativeBlockStop, NativeReads, ReadChunk
  <2> QED BY <1>8, <2>1
<1>11. CASE ChatEnds \/ ChatFails \/ NativeMessageStop \/ NativeEnds \/ NativeFails
  <2>1. UNCHANGED <<routingVars, chain, phase>>
    BY <1>11 DEF ChatEnds, ChatFails, NativeMessageStop, NativeEnds, NativeFails,
       GeneratorEnds, unchangedRequest
  <2> QED BY <1>8, <2>1
<1>12. CASE Deliver \/ Completed \/ Disconnect \/ Over \/ UNCHANGED vars
  BY <1>8, <1>12 DEF Deliver, Completed, Disconnect, Over, vars
<1>13. CASE Validate \/ Refresh
  BY <1>1, <1>13 DEF Validate, Refresh
<1> QED BY <1>2, <1>4, <1>5, <1>7, <1>9, <1>10, <1>11, <1>12, <1>13 DEF Next

\* An id the proxy listed is served by its provider and model, then by the fallbacks,
\* each once (model_router.py, gateway_model_ids.py), for all settings and answers.
THEOREM RoutedAsListedInv == Spec => []RoutedAsListed
<1>1. Init => RoutingInv
  BY DEF Init, RoutingInv, Known, NoInfos, RoutedAsListed
<1>2. RoutingInv => RoutedAsListed
  BY DEF RoutingInv
<1> QED BY <1>1, <1>2, RoutingNext, PTL DEF Spec
=============================================================================
