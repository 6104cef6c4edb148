----------------------------- MODULE NativePolicy -----------------------------
(***************************************************************************)
(* What the native transports make of an upstream Anthropic stream:        *)
(* transform_native_sse_block_event renumbers the blocks, keeps one block  *)
(* open at a time as far as it can and hides thinking                      *)
(* (core/anthropic/native_sse_block_policy.py); EmittedNativeSseTracker    *)
(* knows what was let through, to end the message after an error.          *)
(***************************************************************************)
EXTENDS SseBuilder

CONSTANT Upstream   \* block indexes the upstream uses

ASSUME UpstreamAssumption == Upstream \subseteq Nat /\ IsFiniteSet(Upstream)

\* by_upstream as down (None: not there), isOpen and kind.
FreshPolicy ==
  [next |-> 0,
   down |-> [u \in Upstream |-> None],
   isOpen |-> [u \in Upstream |-> FALSE],
   dropped |-> {},        \* dropped_indexes
   suppressed |-> {},     \* pending_suppressed_stops
   out |-> <<>>]

\* _allocate_new_segment.
Allocate(n, u) ==
  [n EXCEPT !.next = @ + 1, !.down[u] = n.next, !.isOpen[u] = TRUE]

\* _synthetic_close_other_open_blocks; the upstream's own stops come later.
CloseOthers(n, u) ==
  LET others == {w \in Upstream \ {u} : n.isOpen[w]} IN
  [n EXCEPT !.isOpen = [w \in Upstream |-> @[w] /\ w \notin others],
            !.suppressed = @ \cup others,
            !.out = @ \o [j \in 1 .. Cardinality(others) |->
                            StopBlock(n.down[SetToSeq(others)[j]])]]

Hidden(kind, thinkingEnabled) == kind = "thinking" /\ ~thinkingEnabled

PolicyStart(n, u, kind, thinkingEnabled) ==
  IF Hidden(kind, thinkingEnabled) THEN [n EXCEPT !.dropped = @ \cup {u}]
  ELSE LET c == Allocate(CloseOthers(n, u), u)
       IN  Yielding(c, <<StartBlock(c.down[u], kind)>>)

\* What nobody started passes as it is, under the upstream's index: thinking, and
\* the end of a block.
PassesDelta(n, u, kind, thinkingEnabled) ==
  /\ n.down[u] = None /\ u \notin n.dropped
  /\ kind = "thinking" /\ thinkingEnabled

PassesStop(n, u, thinkingEnabled) ==
  n.down[u] = None /\ u \notin n.dropped \cup n.suppressed /\ thinkingEnabled

Reopen(n, u) == [Allocate(n, u) EXCEPT !.suppressed = @ \ {u}]

\* A block closed for another one, or never started, is opened under a new
\* index.
PolicyDelta(n, u, kind, thinkingEnabled) ==
  LET reopened == Reopen(n, u)
      passes == PassesDelta(n, u, kind, thinkingEnabled)
  IN  CASE u \in n.dropped \/ Hidden(kind, thinkingEnabled) -> n
        [] u \notin n.dropped /\ ~Hidden(kind, thinkingEnabled) /\ n.isOpen[u] ->
             Yielding(n, <<DeltaBlock(n.down[u], kind, <<>>)>>)
        [] u \notin n.dropped /\ ~Hidden(kind, thinkingEnabled) /\ passes ->
             Yielding(n, <<DeltaBlock(u, kind, <<>>)>>)
        [] OTHER ->
             Yielding(reopened, <<StartBlock(reopened.down[u], kind),
                                  DeltaBlock(reopened.down[u], kind, <<>>)>>)

PolicyStop(n, u, thinkingEnabled) ==
  CASE u \in n.dropped -> n
    [] u \notin n.dropped /\ u \in n.suppressed -> [n EXCEPT !.suppressed = @ \ {u}]
    [] u \notin n.dropped \cup n.suppressed /\ n.isOpen[u] ->
         Yielding([n EXCEPT !.isOpen[u] = FALSE], <<StopBlock(n.down[u])>>)
    [] PassesStop(n, u, thinkingEnabled) -> Yielding(n, <<StopBlock(u)>>)
    [] OTHER -> n

-----------------------------------------------------------------------------
(* EmittedNativeSseTracker: the open blocks, the newest last, and the largest
   index, of the events let through *)

FreshTracker == [stack |-> <<>>, max |-> None]

\* The newest block if it is this one, else the oldest that is.
Closed(stack, ix) ==
  LET at == {j \in DOMAIN stack : stack[j] = ix} IN
  IF at = {} THEN stack
  ELSE RemoveAt(stack, IF Len(stack) \in at THEN Len(stack) ELSE Min(at))

Observe(t, e) ==
  CASE e.ev = "content_block_start" ->
         [stack |-> Append(t.stack, e.ix), max |-> Max({t.max, e.ix})]
    [] e.ev = "content_block_stop" ->
         [t EXCEPT !.stack = Closed(@, e.ix)]
    [] OTHER -> t

ObserveAll(t, events) == FoldLeft(Observe, t, events)

\* iter_close_unclosed_blocks, iter_midstream_error_tail.
ErrorTail(t) ==
  [j \in 1 .. Len(t.stack) |-> StopBlock(Reverse(t.stack)[j])]
  \o ErrorBlock(t.max + 1) \o <<MessageDelta, MessageStop>>
=============================================================================
