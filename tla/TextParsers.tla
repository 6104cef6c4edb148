----------------------------- MODULE TextParsers -----------------------------
(***************************************************************************)
(* The two streaming parsers a chat completion's text goes through:        *)
(* ThinkTagParser (core/anthropic/thinking.py) separates <think> sections, *)
(* HeuristicToolParser (core/anthropic/tools.py) takes tool calls written  *)
(* as text out of what is left.                                            *)
(*                                                                         *)
(* Text is a sequence of symbols: "lt" is "<" or a longer part of a tag    *)
(* that a chunk ends in, "think>" and "/think>" complete it; "bullet" is   *)
(* the mark before a call, "func" a whole <function=...>, "param" a whole  *)
(* <parameter=...>...</parameter>; anything else is "word".                *)
(***************************************************************************)
EXTENDS Integers, Sequences, SequencesExt, FiniteSetsExt

CONSTANT BulletWindow   \* symbols that may follow a bullet without a call (100)

ASSUME BulletWindowAssumption == BulletWindow \in Nat

Symbols == {"lt", "think>", "/think>", "bullet", "func", "param", "word"}

\* The first position of pattern in s, 0 where there is none.
FindIn(s, pattern) ==
  LET at == {i \in 1 .. Len(s) - Len(pattern) + 1 :
               SubSeq(s, i, i + Len(pattern) - 1) = pattern}
  IN  IF at = {} THEN 0 ELSE Min(at)

From(s, i) == SubSeq(s, i, Len(s))

-----------------------------------------------------------------------------
(* ThinkTagParser: [buf, inside], and parts, what the last feed returned *)

OpenTag == <<"lt", "think>">>
CloseTag == <<"lt", "/think>">>

FreshThink == [buf |-> <<>>, inside |-> FALSE, parts |-> <<>>]

\* The first n symbols are returned, the next `drop` are a tag.
TakeText(p, n, drop, inside) ==
  [buf    |-> From(p.buf, n + drop + 1),
   inside |-> inside,
   parts  |-> IF n = 0 THEN p.parts
              ELSE Append(p.parts,
                     [kind |-> IF p.inside THEN "thinking" ELSE "text",
                      text |-> SubSeq(p.buf, 1, n)])]

\* Faulty variant: a tag split between chunks is not waited for.
WithheldNothing(buf) == 0

\* What may be the beginning of a tag stays in the buffer.
Withheld(buf) == IF buf # <<>> /\ buf[Len(buf)] = "lt" THEN 1 ELSE 0

\* Inside, only a closing tag counts; outside, the first of both, and a closing
\* one is dropped.
ParseThink(p) ==
  LET tags == {FindIn(p.buf, CloseTag)}
              \cup (IF p.inside THEN {} ELSE {FindIn(p.buf, OpenTag)})
      tag == IF tags = {0} THEN 0 ELSE Min(tags \ {0})
  IN  IF tag = 0
      THEN TakeText(p, Len(p.buf) - Withheld(p.buf), 0, p.inside)
      ELSE TakeText(p, tag - 1, 2, p.buf[tag + 1] = "think>")

\* feed: one pass per symbol is enough, a pass without a tag is the last.
FeedThink(p, content) ==
  LET all == p.buf \o content IN
  FoldLeft(LAMBDA q, x : ParseThink(q),
           [p EXCEPT !.buf = all, !.parts = <<>>], all)

FlushThink(p) == TakeText([p EXCEPT !.parts = <<>>], Len(p.buf), 0, p.inside)

\* The text among the parts of a feed, flattened.
TextOf(parts) ==
  FoldLeft(LAMBDA t, part : IF part.kind = "text" THEN t \o part.text ELSE t,
           <<>>, parts)

-----------------------------------------------------------------------------
(* HeuristicToolParser: [state, buf], and what the last feed returned: the text
   it let through and the number of calls it found. Control tokens and web tool
   calls written as JSON are left out. *)

FreshTools == [state |-> "text", buf |-> <<>>, shown |-> <<>>, calls |-> 0]

Show(h, n) ==
  [h EXCEPT !.shown = @ \o SubSeq(h.buf, 1, n), !.buf = From(h.buf, n + 1)]

\* TEXT: up to a bullet.
ScanText(h) ==
  LET bullet == FindIn(h.buf, <<"bullet">>) IN
  IF bullet = 0 THEN Show(h, Len(h.buf))
  ELSE [Show(h, bullet - 1) EXCEPT !.state = "matching"]

\* MATCHING_FUNCTION: a bullet that no call follows in time is text.
MatchFunction(h) ==
  LET call == FindIn(h.buf, <<"bullet", "func">>) IN
  IF call > 0 THEN [h EXCEPT !.state = "params", !.buf = From(h.buf, call + 2)]
  ELSE IF Len(h.buf) > BulletWindow THEN [Show(h, 1) EXCEPT !.state = "text"]
  ELSE h

\* PARSING_PARAMETERS: the call ends at a bullet or at text that is no tag.
ParseParameters(h) ==
  LET param == FindIn(h.buf, <<"param">>)
      bullet == FindIn(h.buf, <<"bullet">>)
      Done(n) == [Show(h, n) EXCEPT !.state = "text", !.calls = @ + 1]
  IN  IF param > 0
      THEN [Show(h, param - 1) EXCEPT !.buf = From(h.buf, param + 1)]
      ELSE IF bullet > 0 THEN Done(bullet - 1)
      ELSE IF h.buf # <<>> /\ h.buf[1] \notin {"lt", "func"} THEN Done(Len(h.buf))
      ELSE h

ScanStep(h) ==
  CASE h.state = "text" -> ScanText(h)
    [] h.state = "matching" -> MatchFunction(h)
    [] h.state = "params" -> ParseParameters(h)

\* feed: every second pass at least takes a symbol.
FeedTools(h, text) ==
  LET all == h.buf \o text IN
  FoldLeft(LAMBDA g, x : ScanStep(g),
           [h EXCEPT !.buf = all, !.shown = <<>>, !.calls = 0],
           all \o all \o <<"end", "end">>)

\* Only a call whose parameters are being read is given out.
FlushTools(h) ==
  [FreshTools EXCEPT !.calls = IF h.state = "params" THEN 1 ELSE 0]
=============================================================================
