--------------------------- MODULE BuilderProofs ----------------------------
(***************************************************************************)
(* What a client of ProxyStream may receive of a chat answer: whatever the *)
(* builder yields leads a client, event by event as SseContract allows     *)
(* them (Path), to a view of the blocks the builder has open (Shows), and  *)
(* at the end to a whole message (Ends). Every operation of the builder    *)
(* keeps this (Builds), for any chunks, calls and parsers' states.         *)
(***************************************************************************)
EXTENDS ProxyProofs

(* What the client may receive *)

\* What a client can know: no block is open that was not begun.
Views ==
  {v \in [begun : BOOLEAN, kinds : [Indexes -> Kinds \cup {"none"}], open : SUBSET Indexes,
          last : {"none", "message_start", "message_delta", "message_stop", "error",
                  "content_block_start", "content_block_delta", "content_block_stop"}] :
     \A i \in v.open : v.kinds[i] # "none"}

\* The event as the contract reads it: without what it says.
Read(e) == [ev |-> e.ev, ix |-> e.ix, kind |-> e.kind]

Sound(v, e) == Read(e) \in Events /\ Allowed(v, e)

\* The events lead a client from one view to another, each of them allowed.
Path(v, events, w) ==
  \E f \in [0 .. Len(events) -> Views] :
    /\ f[0] = v /\ f[Len(events)] = w
    /\ \A i \in 1 .. Len(events) : Sound(f[i - 1], events[i]) /\ f[i] = After(f[i - 1], events[i])

\* An event a view allows leads to a view.
LEMMA AfterType ==
  ASSUME NEW v \in Views, NEW e \in Emitted, Sound(v, e)
  PROVE  After(v, e) \in Views
<1>1. /\ v.begun \in BOOLEAN /\ v.kinds \in [Indexes -> Kinds \cup {"none"}]
      /\ v.open \in SUBSET Indexes
      /\ e.ev \in {"message_start", "message_delta", "message_stop", "error",
                   "content_block_start", "content_block_delta", "content_block_stop"}
      /\ \A i \in v.open : v.kinds[i] # "none"
  BY DEF Views, Emitted
<1>2. CASE e.ev = "content_block_start"
  <2>1. e.ix \in Indexes /\ e.kind \in Kinds
    BY <1>2 DEF Sound, Events, Read
  <2>2. e.kind # "none"
    BY <2>1, NoDeltaAssumption DEF Kinds
  <2>3. After(v, e) = [begun |-> v.begun, kinds |-> [v.kinds EXCEPT ![e.ix] = e.kind],
                       open |-> v.open \cup {e.ix}, last |-> e.ev]
    BY <1>1, <1>2 DEF After
  <2> QED BY <1>1, <2>1, <2>2, <2>3 DEF Views
<1>3. CASE e.ev # "content_block_start"
  <2>1. \E open \in SUBSET v.open :
          After(v, e) = [begun |-> v.begun \/ e.ev = "message_start", kinds |-> v.kinds,
                         open |-> open, last |-> e.ev]
    <3>1. CASE e.ev = "content_block_stop"
      <4>1. v.open \ {e.ix} \in SUBSET v.open
        OBVIOUS
      <4> QED BY <1>3, <3>1, <4>1 DEF After
    <3>2. CASE e.ev # "content_block_stop"
      <4>1. v.open \in SUBSET v.open
        OBVIOUS
      <4> QED BY <1>3, <3>2, <4>1 DEF After
    <3> QED BY <3>1, <3>2
  <2> QED BY <1>1, <2>1 DEF Views
<1> QED BY <1>2, <1>3

\* Paths: of no event, of one, one after another, without the first.
LEMMA PathEmpty == \A v \in Views : Path(v, <<>>, v)
<1> TAKE v \in Views
<1> DEFINE f == [i \in 0 .. 0 |-> v]
<1>1. f \in [0 .. Len(<<>>) -> Views] /\ f[0] = v /\ f[Len(<<>>)] = v /\ 1 .. Len(<<>>) = {}
  OBVIOUS
<1> QED BY <1>1 DEF Path

LEMMA PathOne ==
  ASSUME NEW v \in Views, NEW e \in Emitted, Sound(v, e)
  PROVE  Path(v, <<e>>, After(v, e)) /\ After(v, e) \in Views
<1> DEFINE s == <<e>>
           w == After(v, e)
           f == [i \in 0 .. 1 |-> IF i = 0 THEN v ELSE w]
<1>1. Len(s) = 1 /\ s[1] = e /\ w \in Views
  BY AfterType
<1> HIDE DEF w
<1>2. f \in [0 .. 1 -> Views] /\ f[0] = v /\ f[1] = w
  BY <1>1
<1> HIDE DEF f
<1>3. \A i \in 1 .. 1 : Sound(f[i - 1], s[i]) /\ f[i] = After(f[i - 1], s[i])
  BY <1>1, <1>2 DEF w
<1> HIDE DEF s
<1>4. Path(v, s, w)
  BY <1>1, <1>2, <1>3 DEF Path
<1> QED BY <1>1, <1>4 DEF s, w

LEMMA PathConcat ==
  ASSUME NEW s \in Seq(Emitted), NEW t \in Seq(Emitted), NEW u, NEW v, NEW w,
         Path(u, s, v), Path(v, t, w)
  PROVE  Path(u, s \o t, w)
<1> DEFINE m == Len(s)
           n == Len(t)
           all == s \o t
<1>1. /\ m \in Nat /\ n \in Nat /\ Len(all) = m + n
      /\ \A i \in 1 .. m + n : all[i] = IF i <= m THEN s[i] ELSE t[i - m]
  OBVIOUS
<1>2. PICK f \in [0 .. m -> Views] :
        /\ f[0] = u /\ f[m] = v
        /\ \A i \in 1 .. m : Sound(f[i - 1], s[i]) /\ f[i] = After(f[i - 1], s[i])
  BY DEF Path
<1>3. PICK g \in [0 .. n -> Views] :
        /\ g[0] = v /\ g[n] = w
        /\ \A i \in 1 .. n : Sound(g[i - 1], t[i]) /\ g[i] = After(g[i - 1], t[i])
  BY DEF Path
<1> HIDE DEF m, n, all
<1> DEFINE h == [i \in 0 .. m + n |-> IF i <= m THEN f[i] ELSE g[i - m]]
<1>4. h \in [0 .. m + n -> Views] /\ h[0] = u
  <2>1. \A i \in 0 .. m + n : (i <= m => i \in 0 .. m) /\ (i > m => i - m \in 0 .. n)
    BY <1>1
  <2> QED BY <1>1, <1>2, <1>3, <2>1
<1>5. h[m + n] = w
  BY <1>1, <1>2, <1>3
<1>6. ASSUME NEW i \in 1 .. m + n
      PROVE  Sound(h[i - 1], all[i]) /\ h[i] = After(h[i - 1], all[i])
  <2>1. CASE i <= m
    <3>1. i \in 1 .. m /\ h[i - 1] = f[i - 1] /\ h[i] = f[i] /\ all[i] = s[i]
      BY <1>1, <2>1
    <3> HIDE DEF h
    <3> QED BY <1>2, <3>1
  <2>2. CASE i > m
    <3>1. i - m \in 1 .. n /\ h[i] = g[i - m] /\ all[i] = t[i - m] /\ (i - m) - 1 = (i - 1) - m
      BY <1>1, <2>2
    <3>2. h[i - 1] = g[(i - m) - 1]
      <4>1. CASE i - 1 <= m
        <5>1. i - 1 = m /\ (i - m) - 1 = 0
          BY <1>1, <2>2, <4>1
        <5> QED BY <1>1, <1>2, <1>3, <5>1
      <4>2. CASE i - 1 > m
        BY <1>1, <3>1, <4>2
      <4> QED BY <1>1, <4>1, <4>2
    <3> HIDE DEF h
    <3> QED BY <1>3, <3>1, <3>2
  <2> QED BY <1>1, <2>1, <2>2
<1> HIDE DEF h
<1> QED BY <1>1, <1>4, <1>5, <1>6 DEF Path, all

LEMMA PathHead ==
  ASSUME NEW s \in Seq(Emitted), s # <<>>, NEW v, NEW w, Path(v, s, w)
  PROVE  /\ v \in Views /\ Sound(v, Head(s))
         /\ Path(After(v, Head(s)), Tail(s), w)
<1> DEFINE n == Len(s)
           r == Tail(s)
<1>1. n \in Nat /\ n > 0 /\ Head(s) = s[1]
  OBVIOUS
<1>2. Len(r) = n - 1 /\ \A i \in 1 .. n - 1 : r[i] = s[i + 1]
  BY HeadTailProperties
<1>3. PICK f \in [0 .. n -> Views] :
        /\ f[0] = v /\ f[n] = w
        /\ \A i \in 1 .. n : Sound(f[i - 1], s[i]) /\ f[i] = After(f[i - 1], s[i])
  BY DEF Path
<1> HIDE DEF n, r
<1>4. v \in Views /\ Sound(v, s[1]) /\ f[1] = After(v, s[1])
  <2>1. 1 \in 1 .. n /\ 0 \in 0 .. n /\ 1 - 1 = 0
    BY <1>1
  <2> QED BY <1>3, <2>1
<1> DEFINE g == [i \in 0 .. n - 1 |-> f[i + 1]]
<1>5. g \in [0 .. n - 1 -> Views] /\ g[0] = f[1] /\ g[n - 1] = w
  <2>1. \A i \in 0 .. n - 1 : i + 1 \in 0 .. n
    BY <1>1
  <2>2. n - 1 \in 0 .. n - 1 /\ 0 \in 0 .. n - 1 /\ (n - 1) + 1 = n
    BY <1>1
  <2> QED BY <1>3, <2>1, <2>2
<1>6. ASSUME NEW i \in 1 .. n - 1
      PROVE  Sound(g[i - 1], r[i]) /\ g[i] = After(g[i - 1], r[i])
  <2>1. i + 1 \in 1 .. n /\ i - 1 \in 0 .. n - 1 /\ i \in 0 .. n - 1
        /\ (i - 1) + 1 = i /\ (i + 1) - 1 = i
    BY <1>1
  <2>2. g[i - 1] = f[i] /\ g[i] = f[i + 1] /\ r[i] = s[i + 1]
    BY <1>2, <2>1
  <2> HIDE DEF g
  <2> QED BY <1>3, <2>1, <2>2
<1> HIDE DEF g
<1>7. Path(f[1], r, w)
  BY <1>2, <1>5, <1>6 DEF Path
<1> QED BY <1>1, <1>4, <1>7 DEF r

LEMMA PathEnds ==
  ASSUME NEW s \in Seq(Emitted), NEW v, NEW w, Path(v, s, w)
  PROVE  v \in Views /\ w \in Views
<1>1. 0 \in 0 .. Len(s) /\ Len(s) \in 0 .. Len(s)
  OBVIOUS
<1> QED BY <1>1 DEF Path

LEMMA PathNone ==
  ASSUME NEW v, NEW w, Path(v, <<>>, w)
  PROVE  v = w
BY DEF Path

\* Block indexes are bounded in a run only.
Unbounded == Nat \subseteq Indexes

\* The kinds of the blocks that are made.
MadeKinds == {"text", "thinking", "tool_use", "server_tool_use", "web_tool_result"}

\* What a view is made of.
LEMMA ViewFacts ==
  ASSUME NEW v \in Views
  PROVE  /\ v.begun \in BOOLEAN /\ v.kinds \in [Indexes -> Kinds \cup {"none"}]
         /\ v.open \in SUBSET Indexes /\ \A i \in v.open : v.kinds[i] # "none"
BY DEF Views

\* A client that has nothing knows no block.
LEMMA EmptyFacts ==
  /\ Empty \in Views /\ ~Empty.begun /\ Empty.open = {} /\ Empty.last = "none"
  /\ \A i \in Indexes : Empty.kinds[i] = "none"
<1> DEFINE k == [i \in Indexes |-> "none"]
<1>1. k \in [Indexes -> Kinds \cup {"none"}] /\ \A i \in Indexes : k[i] = "none"
  OBVIOUS
<1>2. Empty = [begun |-> FALSE, kinds |-> k, open |-> {}, last |-> "none"]
  BY DEF Empty
<1> HIDE DEF k
<1> QED BY <1>1, <1>2 DEF Views

\* Events in a row.
LEMMA Singletons == \A e \in Emitted : <<e>> \in Seq(Emitted)
<1> HIDE DEF Emitted
<1> QED OBVIOUS

LEMMA Pairs ==
  ASSUME NEW x \in Emitted, NEW y \in Emitted
  PROVE  <<x>> \o <<y>> = <<x, y>> /\ <<x, y>> \in Seq(Emitted)
<1> HIDE DEF Emitted
<1> DEFINE s == <<x>> \o <<y>>
           t == <<x, y>>
<1>1. /\ s \in Seq(Emitted) /\ t \in Seq(Emitted) /\ Len(s) = 2 /\ Len(t) = 2
      /\ s[1] = x /\ s[2] = y /\ t[1] = x /\ t[2] = y
  OBVIOUS
<1> HIDE DEF s, t
<1>2. \A i \in 1 .. 2 : i = 1 \/ i = 2
  OBVIOUS
<1>3. \A i \in 1 .. Len(s) : s[i] = t[i]
  BY <1>1, <1>2
<1>4. s = t
  BY <1>1, <1>3, SeqEqual
<1> QED BY <1>1, <1>4 DEF s, t

LEMMA Triples ==
  ASSUME NEW x \in Emitted, NEW y \in Emitted, NEW z \in Emitted
  PROVE  (<<x>> \o <<y>>) \o <<z>> = <<x, y, z>> /\ <<x, y, z>> \in Seq(Emitted)
<1> HIDE DEF Emitted
<1> DEFINE s == <<x, y>> \o <<z>>
           t == <<x, y, z>>
<1>1. /\ s \in Seq(Emitted) /\ t \in Seq(Emitted) /\ Len(s) = 3 /\ Len(t) = 3
      /\ s[1] = x /\ s[2] = y /\ s[3] = z /\ t[1] = x /\ t[2] = y /\ t[3] = z
  OBVIOUS
<1>2. <<x>> \o <<y>> = <<x, y>>
  BY Pairs
<1> HIDE DEF s, t
<1>3. \A i \in 1 .. 3 : i = 1 \/ i = 2 \/ i = 3
  OBVIOUS
<1>4. \A i \in 1 .. Len(s) : s[i] = t[i]
  BY <1>1, <1>3
<1>5. s = t
  BY <1>1, <1>4, SeqEqual
<1> QED BY <1>1, <1>2, <1>5 DEF s, t

\* One event, from a view that allows it.
LEMMA PathStart ==
  ASSUME Unbounded, NEW v \in Views, v.begun, NEW ix \in Nat, NEW kind \in MadeKinds,
         v.kinds[ix] = "none"
  PROVE  /\ ix \notin v.open
         /\ \E w \in Views :
              /\ Path(v, <<StartBlock(ix, kind)>>, w)
              /\ w.begun /\ w.kinds = [v.kinds EXCEPT ![ix] = kind] /\ w.open = v.open \cup {ix}
<1> DEFINE e == StartBlock(ix, kind)
           w == After(v, e)
<1>1. ix \in Indexes /\ kind \in Kinds
  BY NoDeltaAssumption DEF Unbounded, MadeKinds, Kinds
<1>2. e.ev = "content_block_start" /\ e.ix = ix /\ e.kind = kind
  BY DEF StartBlock, Event
<1>3. e \in Emitted
  BY EventTypes DEF MadeKinds
<1> HIDE DEF e
<1>4. Read(e) \in Events
  BY <1>1, <1>2 DEF Read, Events
<1>5. Sound(v, e)
  BY <1>2, <1>4 DEF Sound, Allowed
<1>6. Path(v, <<e>>, w) /\ w \in Views
  BY <1>3, <1>5, PathOne
<1>7. w.kinds = [v.kinds EXCEPT ![ix] = kind]
  BY <1>2 DEF After
<1>8. w.open = v.open \cup {ix}
  BY <1>2 DEF After
<1>9. w.begun
  BY <1>2 DEF After
<1>10. ix \notin v.open
  BY ViewFacts
<1> HIDE DEF w
<1> QED BY <1>6, <1>7, <1>8, <1>9, <1>10 DEF e

\* A delta of a block that is open.
LEMMA PathDelta ==
  ASSUME NEW v \in Views, v.begun, NEW ix \in v.open, NEW kind \in BlockKinds,
         v.kinds[ix] = kind, NEW what \in Text
  PROVE  \E w \in Views :
           /\ Path(v, <<DeltaBlock(ix, kind, what)>>, w)
           /\ w.begun /\ w.kinds = v.kinds /\ w.open = v.open
<1> DEFINE e == DeltaBlock(ix, kind, what)
           w == After(v, e)
<1>1. ix \in Indexes /\ kind \in Kinds /\ kind \notin NoDelta
  BY ViewFacts, NoDeltaAssumption DEF BlockKinds, Kinds
<1>2. e.ev = "content_block_delta" /\ e.ix = ix /\ e.kind = kind
  BY DEF DeltaBlock, Event
<1>3. e \in Emitted
  BY <1>1, EventTypes, IndexesAssumption DEF BlockKinds
<1> HIDE DEF e
<1>4. Read(e) \in Events
  BY <1>1, <1>2 DEF Read, Events
<1>5. Sound(v, e)
  BY <1>1, <1>2, <1>4 DEF Sound, Allowed
<1>6. Path(v, <<e>>, w) /\ w \in Views
  BY <1>3, <1>5, PathOne
<1>7. w.kinds = v.kinds
  BY <1>2 DEF After
<1>8. w.open = v.open
  BY <1>2 DEF After
<1>9. w.begun
  BY <1>2 DEF After
<1> HIDE DEF w
<1> QED BY <1>6, <1>7, <1>8, <1>9 DEF e

\* An open block is closed.
LEMMA PathStop ==
  ASSUME NEW v \in Views, v.begun, NEW ix \in v.open
  PROVE  \E w \in Views :
           /\ Path(v, <<StopBlock(ix)>>, w)
           /\ w.begun /\ w.kinds = v.kinds /\ w.open = v.open \ {ix}
<1> DEFINE e == StopBlock(ix)
           w == After(v, e)
<1>1. ix \in Indexes
  BY ViewFacts
<1>2. e.ev = "content_block_stop" /\ e.ix = ix /\ e.kind = ""
  BY DEF StopBlock, Event
<1>3. e \in Emitted
  BY <1>1, EventTypes, IndexesAssumption
<1> HIDE DEF e
<1>4. Read(e) \in Events
  BY <1>1, <1>2 DEF Read, Events
<1>5. Sound(v, e)
  BY <1>1, <1>2, <1>4 DEF Sound, Allowed
<1>6. Path(v, <<e>>, w) /\ w \in Views
  BY <1>3, <1>5, PathOne
<1>7. w.kinds = v.kinds
  BY <1>2 DEF After
<1>8. w.open = v.open \ {ix}
  BY <1>2 DEF After
<1>9. w.begun
  BY <1>2 DEF After
<1> HIDE DEF w
<1> QED BY <1>6, <1>7, <1>8, <1>9 DEF e

\* An event that no block has.
LEMMA PathPlain ==
  ASSUME NEW v \in Views, v.begun, NEW e \in {MessageDelta, MessageStop, TopLevelError}
  PROVE  \E w \in Views :
           /\ Path(v, <<e>>, w)
           /\ w.begun /\ w.kinds = v.kinds /\ w.open = v.open /\ w.last = e.ev
<1> DEFINE w == After(v, e)
<1>1. /\ e.ev = "message_delta" \/ e.ev = "message_stop" \/ e.ev = "error"
      /\ e.ix = -1 /\ e.kind = ""
  <2>1. MessageDelta.ev = "message_delta" /\ MessageDelta.ix = -1 /\ MessageDelta.kind = ""
    BY DEF MessageDelta, Event, None
  <2>2. MessageStop.ev = "message_stop" /\ MessageStop.ix = -1 /\ MessageStop.kind = ""
    BY DEF MessageStop, Event, None
  <2>3. TopLevelError.ev = "error" /\ TopLevelError.ix = -1 /\ TopLevelError.kind = ""
    BY DEF TopLevelError, Event, None
  <2> HIDE DEF MessageDelta, MessageStop, TopLevelError
  <2> QED BY <2>1, <2>2, <2>3
<1>2. e \in Emitted
  BY EventTypes
<1>3. Read(e) \in Events
  BY <1>1 DEF Read, Events
<1>4. Sound(v, e)
  BY <1>1, <1>3 DEF Sound, Allowed
<1>5. Path(v, <<e>>, w) /\ w \in Views
  BY <1>2, <1>4, PathOne
<1>6. w.kinds = v.kinds
  BY <1>1 DEF After
<1>7. w.open = v.open
  BY <1>1 DEF After
<1>8. w.begun /\ w.last = e.ev
  BY <1>1 DEF After
<1> HIDE DEF w
<1> QED BY <1>5, <1>6, <1>7, <1>8

\* An error that belongs to no block.
LEMMA PathError ==
  ASSUME NEW v \in Views, v.begun
  PROVE  \E w \in Views : Path(v, <<TopLevelError>>, w) /\ w.begun /\ w.open = v.open
<1>1. PICK w \in Views : Path(v, <<TopLevelError>>, w) /\ w.begun /\ w.open = v.open
  BY PathPlain
<1> QED BY <1>1

\* A message begins.
LEMMA PathBegin ==
  \E w \in Views :
    /\ Path(Empty, <<MessageStart>>, w)
    /\ w.begun /\ w.kinds = Empty.kinds /\ w.open = {}
<1> DEFINE e == MessageStart
           w == After(Empty, e)
<1>1. e.ev = "message_start" /\ e.ix = -1 /\ e.kind = "" /\ e \in Emitted
  BY EventTypes DEF MessageStart, Event, None
<1> HIDE DEF e
<1>2. Read(e) \in Events
  BY <1>1 DEF Read, Events
<1>3. Sound(Empty, e)
  BY <1>1, <1>2, EmptyFacts DEF Sound, Allowed
<1>4. Path(Empty, <<e>>, w) /\ w \in Views
  BY <1>1, <1>3, EmptyFacts, PathOne
<1>5. w.kinds = Empty.kinds
  BY <1>1 DEF After
<1>6. w.open = Empty.open
  BY <1>1 DEF After
<1>7. w.begun
  BY <1>1 DEF After
<1> HIDE DEF w
<1> QED BY <1>4, <1>5, <1>6, <1>7, EmptyFacts DEF e

\* The end of a message.
LEMMA PathEnd ==
  ASSUME NEW v \in Views, v.begun
  PROVE  \E w \in Views :
           /\ Path(v, <<MessageDelta, MessageStop>>, w)
           /\ w.begun /\ w.kinds = v.kinds /\ w.open = v.open /\ w.last = "message_stop"
<1>1. PICK u \in Views : Path(v, <<MessageDelta>>, u) /\ u.begun /\ u.kinds = v.kinds /\ u.open = v.open
  BY PathPlain
<1>2. PICK w \in Views : /\ Path(u, <<MessageStop>>, w) /\ w.begun
                         /\ w.kinds = u.kinds /\ w.open = u.open /\ w.last = MessageStop.ev
  BY <1>1, PathPlain
<1>3. <<MessageDelta>> \in Seq(Emitted) /\ <<MessageStop>> \in Seq(Emitted)
  BY EventTypes, Singletons
<1>4. Path(v, <<MessageDelta>> \o <<MessageStop>>, w)
  BY <1>1, <1>2, <1>3, PathConcat
<1>6. <<MessageDelta>> \o <<MessageStop>> = <<MessageDelta, MessageStop>>
  BY Pairs, EventTypes
<1>7. MessageStop.ev = "message_stop"
  BY DEF MessageStop, Event
<1> QED BY <1>1, <1>2, <1>4, <1>6, <1>7

\* A block of its own: begun, given something, closed.
LEMMA PathBlock ==
  ASSUME Unbounded, NEW v \in Views, v.begun, NEW ix \in Nat, NEW kind \in BlockKinds,
         v.kinds[ix] = "none"
  PROVE  \E w \in Views :
           /\ Path(v, <<StartBlock(ix, kind), DeltaBlock(ix, kind, <<>>), StopBlock(ix)>>, w)
           /\ w.begun /\ w.kinds = [v.kinds EXCEPT ![ix] = kind] /\ w.open = v.open
<1> DEFINE a == StartBlock(ix, kind)
           b == DeltaBlock(ix, kind, <<>>)
           c == StopBlock(ix)
<1>1. a \in Emitted /\ b \in Emitted /\ c \in Emitted /\ kind \in MadeKinds /\ ix \in Int
      /\ ix \in Indexes
  BY EventTypes, EmptyText DEF BlockKinds, MadeKinds, Unbounded
<1>2. ix \notin v.open
  BY <1>1, PathStart
<1>3. PICK x \in Views : /\ Path(v, <<a>>, x) /\ x.begun
                         /\ x.kinds = [v.kinds EXCEPT ![ix] = kind] /\ x.open = v.open \cup {ix}
  BY <1>1, PathStart
<1>4. ix \in x.open /\ x.kinds[ix] = kind
  BY <1>1, <1>3, ViewFacts
<1>5. PICK y \in Views : Path(x, <<b>>, y) /\ y.begun /\ y.kinds = x.kinds /\ y.open = x.open
  BY <1>3, <1>4, PathDelta, EmptyText
<1>6. PICK z \in Views : Path(y, <<c>>, z) /\ z.begun /\ z.kinds = y.kinds /\ z.open = y.open \ {ix}
  BY <1>4, <1>5, PathStop
<1>7. (v.open \cup {ix}) \ {ix} = v.open
  BY <1>2
<1> HIDE DEF a, b, c
<1>8. /\ <<a>> \in Seq(Emitted) /\ <<b>> \in Seq(Emitted) /\ <<c>> \in Seq(Emitted)
      /\ <<a>> \o <<b>> \in Seq(Emitted) /\ (<<a>> \o <<b>>) \o <<c>> = <<a, b, c>>
  BY <1>1, Singletons, Pairs, Triples
<1>9. Path(v, <<a>> \o <<b>>, y)
  BY <1>1, <1>3, <1>5, <1>8, PathConcat
<1>10. Path(v, (<<a>> \o <<b>>) \o <<c>>, z)
  BY <1>1, <1>6, <1>8, <1>9, PathConcat
<1>12. Path(v, <<a, b, c>>, z)
  BY <1>8, <1>10
<1> QED BY <1>3, <1>5, <1>6, <1>7, <1>12 DEF a, b, c

-----------------------------------------------------------------------------
(* What a builder shows *)

\* The block with this index is open.
Holds(b, j) == j = b.thinking \/ j = b.text \/ \E i \in ToolIndexes : j = b.tools[i].block

\* The client knows the blocks the builder has open, and none it will begin.
Shows(b, w) ==
  /\ w.begun /\ w.open \subseteq Nat
  /\ \A j \in Nat : j \in w.open <=> Holds(b, j)
  /\ b.thinking # None => b.thinking \in Nat /\ w.kinds[b.thinking] = "thinking"
  /\ b.text # None => b.text \in Nat /\ w.kinds[b.text] = "text"
  /\ \A i \in ToolIndexes :
       b.tools[i].block # None =>
         b.tools[i].block \in Nat /\ w.kinds[b.tools[i].block] = "tool_use"
  /\ \A i, j \in ToolIndexes :
       b.tools[i].block # None /\ b.tools[i].block = b.tools[j].block => i = j
  /\ \A j \in Nat : j >= b.next => w.kinds[j] = "none"

\* From view v, what the builder has yielded leads to what it shows.
Builds(v, b) == b \in Builders /\ \E w \in Views : Path(v, b.out, w) /\ Shows(b, w)

\* The same blocks.
SameBlocks(b, c) ==
  /\ c.thinking = b.thinking /\ c.text = b.text /\ c.next = b.next
  /\ \A i \in ToolIndexes : c.tools[i].block = b.tools[i].block

\* What a builder adds leads on from what it had yielded.
LEMMA BuildsMore ==
  ASSUME NEW b \in Builders, NEW c \in Builders, NEW events \in Seq(Emitted),
         c.out = b.out \o events, NEW v, NEW w \in Views, Path(v, b.out, w),
         NEW x \in Views, Path(w, events, x), Shows(c, x)
  PROVE  Builds(v, c)
<1>1. b.out \in Seq(Emitted)
  BY DEF Builders
<1>2. Path(v, b.out \o events, x)
  BY <1>1, PathConcat
<1> QED BY <1>2 DEF Builds

\* Only the blocks of a builder show, and only what a client knows of them.
LEMMA SameShows ==
  ASSUME NEW b, NEW c, SameBlocks(b, c), NEW w, Shows(b, w)
  PROVE  Shows(c, w)
BY DEF SameBlocks, Shows, Holds

LEMMA SameKinds ==
  ASSUME NEW b, NEW w, Shows(b, w), NEW x, x.begun, x.kinds = w.kinds, x.open = w.open
  PROVE  Shows(b, x)
BY DEF Shows, Holds

\* What a builder has open is below its next index.
LEMMA ShowsNext ==
  ASSUME Unbounded, NEW b \in Builders, NEW w \in Views, Shows(b, w)
  PROVE  /\ b.next \in Nat /\ b.next \in Indexes /\ w.kinds[b.next] = "none" /\ w.begun
         /\ b.next # None /\ b.next \notin w.open /\ ~Holds(b, b.next)
<1>1. b.next \in Nat /\ b.next \in Indexes /\ b.next # None
  BY DEF Builders, Unbounded, None
<1>2. w.kinds[b.next] = "none" /\ w.begun
  BY <1>1 DEF Shows
<1>3. b.next \notin w.open
  BY <1>2, ViewFacts
<1> QED BY <1>1, <1>2, <1>3 DEF Shows

\* Text and thinking: a block of the one is closed before one of the other begins.
LEMMA CloseThinkingBuilds ==
  ASSUME NEW v, NEW b, Builds(v, b)
  PROVE  Builds(v, CloseThinking(b)) /\ CloseThinking(b).thinking = None
<1> DEFINE c == CloseThinking(b)
<1>1. b \in Builders
  BY DEF Builds
<1>2. CASE b.thinking = None
  BY <1>2 DEF CloseThinking
<1>3. CASE b.thinking # None
  <2>1. PICK w \in Views : Path(v, b.out, w) /\ Shows(b, w)
    BY DEF Builds
  <2>2. b.thinking \in w.open /\ b.thinking \in Nat /\ w.begun
    BY <1>3, <2>1 DEF Shows, Holds
  <2>3. PICK x \in Views : /\ Path(w, <<StopBlock(b.thinking)>>, x)
                           /\ x.begun /\ x.kinds = w.kinds /\ x.open = w.open \ {b.thinking}
    BY <2>2, PathStop
  <2>4. /\ c.out = b.out \o <<StopBlock(b.thinking)>> /\ c.thinking = None /\ c.text = b.text
        /\ c.next = b.next /\ c.tools = b.tools
    BY <1>1, <1>3 DEF CloseThinking, Yielding, Builders
  <2>5. c \in Builders
    BY <1>1, CloseThinkingType
  <2> HIDE DEF c
  <2>6. Shows(c, x)
    <3>1. None \notin Nat
      BY DEF None
    <3> QED BY <1>3, <2>1, <2>2, <2>3, <2>4, <3>1 DEF Shows, Holds
  <2>7. <<StopBlock(b.thinking)>> \in Seq(Emitted)
    BY <1>1, EventTypes, Singletons DEF Builders
  <2>8. Builds(v, c)
    BY <1>1, <2>1, <2>3, <2>4, <2>5, <2>6, <2>7, BuildsMore
  <2> QED BY <2>4, <2>8 DEF c
<1> QED BY <1>2, <1>3

LEMMA CloseTextBuilds ==
  ASSUME NEW v, NEW b, Builds(v, b)
  PROVE  /\ Builds(v, CloseText(b)) /\ CloseText(b).text = None
         /\ CloseText(b).thinking = b.thinking
<1> DEFINE c == CloseText(b)
<1>1. b \in Builders
  BY DEF Builds
<1>2. CASE b.text = None
  BY <1>2 DEF CloseText
<1>3. CASE b.text # None
  <2>1. PICK w \in Views : Path(v, b.out, w) /\ Shows(b, w)
    BY DEF Builds
  <2>2. b.text \in w.open /\ b.text \in Nat /\ w.begun
    BY <1>3, <2>1 DEF Shows, Holds
  <2>3. PICK x \in Views : /\ Path(w, <<StopBlock(b.text)>>, x)
                           /\ x.begun /\ x.kinds = w.kinds /\ x.open = w.open \ {b.text}
    BY <2>2, PathStop
  <2>4. /\ c.out = b.out \o <<StopBlock(b.text)>> /\ c.text = None /\ c.thinking = b.thinking
        /\ c.next = b.next /\ c.tools = b.tools
    BY <1>1, <1>3 DEF CloseText, Yielding, Builders
  <2>5. c \in Builders
    BY <1>1, CloseTextType
  <2> HIDE DEF c
  <2>6. Shows(c, x)
    <3>1. None \notin Nat
      BY DEF None
    <3> QED BY <1>3, <2>1, <2>2, <2>3, <2>4, <3>1 DEF Shows, Holds
  <2>7. <<StopBlock(b.text)>> \in Seq(Emitted)
    BY <1>1, EventTypes, Singletons DEF Builders
  <2>8. Builds(v, c)
    BY <1>1, <2>1, <2>3, <2>4, <2>5, <2>6, <2>7, BuildsMore
  <2> QED BY <2>4, <2>8 DEF c
<1> QED BY <1>2, <1>3

LEMMA CloseContentBuilds ==
  ASSUME NEW v, NEW b, Builds(v, b)
  PROVE  /\ Builds(v, CloseContent(b)) /\ CloseContent(b).text = None
         /\ CloseContent(b).thinking = None
BY CloseThinkingBuilds, CloseTextBuilds DEF CloseContent

LEMMA EmitThinkingBuilds ==
  ASSUME Unbounded, NEW v, NEW b, Builds(v, b), NEW what \in Text
  PROVE  Builds(v, EmitThinking(b, what))
<1> DEFINE c == CloseText(b)
           begun == Yielding(c, <<StartBlock(c.next, "thinking")>>)
           d == IF c.thinking # None THEN c
                ELSE [begun EXCEPT !.thinking = c.next, !.next = @ + 1]
           e == EmitThinking(b, what)
<1>1. Builds(v, c) /\ c \in Builders
  BY CloseTextBuilds DEF Builds
<1>2. /\ e.out = d.out \o <<DeltaBlock(d.thinking, "thinking", what)>>
      /\ e.thinking = d.thinking /\ e.text = d.text /\ e.next = d.next /\ e.tools = d.tools
      /\ e \in Builders
  <2>1. e \in Builders
    BY EmitThinkingType DEF Builds
  <2>2. e = [Yielding(d, <<DeltaBlock(d.thinking, "thinking", what)>>) EXCEPT !.reasoned = TRUE]
    BY DEF EmitThinking
  <2>3. d \in Builders
    <3>1. <<StartBlock(c.next, "thinking")>> \in Seq(Emitted) /\ c.next \in Nat
      BY <1>1, EventTypes, Singletons DEF Builders
    <3>2. begun \in Builders
      BY <1>1, <3>1, YieldingType
    <3>3. begun.next + 1 \in Nat /\ c.next \in Int
      BY <1>1, <3>2, NextFacts
    <3> HIDE DEF begun, c
    <3> QED BY <1>1, <3>2, <3>3, BuilderUpdates
  <2> HIDE DEF d, e
  <2> QED BY <2>1, <2>2, <2>3 DEF Yielding, Builders
<1> HIDE DEF c, e
<1>3. Builds(v, d) /\ d.thinking # None
  <2>1. CASE c.thinking # None
    BY <1>1, <2>1
  <2>2. CASE c.thinking = None
    <3>1. PICK w \in Views : Path(v, c.out, w) /\ Shows(c, w)
      BY <1>1 DEF Builds
    <3>2. /\ c.next \in Nat /\ w.kinds[c.next] = "none" /\ w.begun /\ c.next # None
          /\ c.next \in Indexes /\ ~Holds(c, c.next)
      BY <1>1, <3>1, ShowsNext
    <3>3. PICK x \in Views : /\ Path(w, <<StartBlock(c.next, "thinking")>>, x) /\ x.begun
                             /\ x.kinds = [w.kinds EXCEPT ![c.next] = "thinking"]
                             /\ x.open = w.open \cup {c.next}
      <4>1. "thinking" \in MadeKinds
        BY DEF MadeKinds
      <4> HIDE DEF c
      <4> QED BY <3>2, <4>1, PathStart
    <3>4. <<StartBlock(c.next, "thinking")>> \in Seq(Emitted)
      BY <3>2, EventTypes, Singletons
    <3>5. begun \in Builders
      BY <1>1, <3>4, YieldingType
    <3>6. d \in Builders
      <4>1. begun.next + 1 \in Nat /\ c.next \in Int
        BY <3>2, <3>5, NextFacts
      <4> HIDE DEF begun
      <4> QED BY <2>2, <3>5, <4>1, BuilderUpdates
    <3>7. /\ d.out = c.out \o <<StartBlock(c.next, "thinking")>> /\ d.thinking = c.next
          /\ d.text = c.text /\ d.next = c.next + 1 /\ d.tools = c.tools
      BY <1>1, <2>2 DEF Yielding, Builders
    <3> HIDE DEF d
    <3>8. Shows(d, x)
      <4>1. /\ w.kinds \in [Indexes -> Kinds \cup {"none"}] /\ None \notin Nat
            /\ w.open \in SUBSET Indexes /\ Nat \subseteq Indexes
        BY ViewFacts DEF None, Unbounded
      <4>2. \A j \in Nat : x.kinds[j] = IF j = c.next THEN "thinking" ELSE w.kinds[j]
        BY <3>2, <3>3, <4>1
      <4> QED BY <2>2, <3>1, <3>2, <3>3, <3>7, <4>1, <4>2 DEF Shows, Holds
    <3>9. Builds(v, d)
      BY <1>1, <3>1, <3>3, <3>4, <3>6, <3>7, <3>8, BuildsMore
    <3> QED BY <3>2, <3>7, <3>9
  <2> QED BY <2>1, <2>2
<1> HIDE DEF d
<1>4. PICK w \in Views : Path(v, d.out, w) /\ Shows(d, w)
  BY <1>3 DEF Builds
<1>5. d.thinking \in w.open /\ w.kinds[d.thinking] = "thinking" /\ w.begun
  BY <1>3, <1>4 DEF Shows, Holds
<1>6. PICK x \in Views : /\ Path(w, <<DeltaBlock(d.thinking, "thinking", what)>>, x)
                         /\ x.begun /\ x.kinds = w.kinds /\ x.open = w.open
  BY <1>5, PathDelta DEF BlockKinds
<1>7. Shows(e, x)
  <2>1. SameBlocks(d, e)
    BY <1>2 DEF SameBlocks
  <2> QED BY <1>4, <1>6, <2>1, SameShows, SameKinds
<1>8. <<DeltaBlock(d.thinking, "thinking", what)>> \in Seq(Emitted) /\ d \in Builders
  BY <1>3, EventTypes, Singletons DEF Builders, Builds
<1>9. Builds(v, e)
  BY <1>2, <1>4, <1>6, <1>7, <1>8, BuildsMore
<1> QED BY <1>9 DEF e

LEMMA EmitTextBuilds ==
  ASSUME Unbounded, NEW v, NEW b, Builds(v, b), NEW what \in Text
  PROVE  Builds(v, EmitText(b, what))
<1> DEFINE c == CloseThinking(b)
           begun == Yielding(c, <<StartBlock(c.next, "text")>>)
           d == IF c.text # None THEN c
                ELSE [begun EXCEPT !.text = c.next, !.next = @ + 1]
           e == EmitText(b, what)
<1>1. Builds(v, c) /\ c \in Builders
  BY CloseThinkingBuilds DEF Builds
<1>2. /\ e.out = d.out \o <<DeltaBlock(d.text, "text", what)>>
      /\ e.thinking = d.thinking /\ e.text = d.text /\ e.next = d.next /\ e.tools = d.tools
      /\ e \in Builders
  <2>1. e \in Builders
    BY EmitTextType DEF Builds
  <2>2. e = [Yielding(d, <<DeltaBlock(d.text, "text", what)>>) EXCEPT !.texted = TRUE]
    BY DEF EmitText
  <2>3. d \in Builders
    <3>1. <<StartBlock(c.next, "text")>> \in Seq(Emitted) /\ c.next \in Nat
      BY <1>1, EventTypes, Singletons DEF Builders
    <3>2. begun \in Builders
      BY <1>1, <3>1, YieldingType
    <3>3. begun.next + 1 \in Nat /\ c.next \in Int
      BY <1>1, <3>2, NextFacts
    <3> HIDE DEF begun, c
    <3> QED BY <1>1, <3>2, <3>3, BuilderUpdates
  <2> HIDE DEF d, e
  <2> QED BY <2>1, <2>2, <2>3 DEF Yielding, Builders
<1> HIDE DEF c, e
<1>3. Builds(v, d) /\ d.text # None
  <2>1. CASE c.text # None
    BY <1>1, <2>1
  <2>2. CASE c.text = None
    <3>1. PICK w \in Views : Path(v, c.out, w) /\ Shows(c, w)
      BY <1>1 DEF Builds
    <3>2. /\ c.next \in Nat /\ w.kinds[c.next] = "none" /\ w.begun /\ c.next # None
          /\ c.next \in Indexes /\ ~Holds(c, c.next)
      BY <1>1, <3>1, ShowsNext
    <3>3. PICK x \in Views : /\ Path(w, <<StartBlock(c.next, "text")>>, x) /\ x.begun
                             /\ x.kinds = [w.kinds EXCEPT ![c.next] = "text"]
                             /\ x.open = w.open \cup {c.next}
      <4>1. "text" \in MadeKinds
        BY DEF MadeKinds
      <4> QED BY <3>2, <4>1, PathStart
    <3>4. <<StartBlock(c.next, "text")>> \in Seq(Emitted)
      BY <3>2, EventTypes, Singletons
    <3>5. begun \in Builders
      BY <1>1, <3>4, YieldingType
    <3>6. d \in Builders
      <4>1. begun.next + 1 \in Nat /\ c.next \in Int
        BY <3>2, <3>5, NextFacts
      <4> HIDE DEF begun
      <4> QED BY <2>2, <3>5, <4>1, BuilderUpdates
    <3>7. /\ d.out = c.out \o <<StartBlock(c.next, "text")>> /\ d.text = c.next
          /\ d.thinking = c.thinking /\ d.next = c.next + 1 /\ d.tools = c.tools
      BY <1>1, <2>2 DEF Yielding, Builders
    <3> HIDE DEF d
    <3>8. Shows(d, x)
      <4>1. /\ w.kinds \in [Indexes -> Kinds \cup {"none"}] /\ None \notin Nat
            /\ w.open \in SUBSET Indexes /\ Nat \subseteq Indexes
        BY ViewFacts DEF None, Unbounded
      <4>2. \A j \in Nat : x.kinds[j] = IF j = c.next THEN "text" ELSE w.kinds[j]
        BY <3>2, <3>3, <4>1
      <4> QED BY <2>2, <3>1, <3>2, <3>3, <3>7, <4>1, <4>2 DEF Shows, Holds
    <3>9. Builds(v, d)
      BY <1>1, <3>1, <3>3, <3>4, <3>6, <3>7, <3>8, BuildsMore
    <3> QED BY <3>2, <3>7, <3>9
  <2> QED BY <2>1, <2>2
<1> HIDE DEF d
<1>4. PICK w \in Views : Path(v, d.out, w) /\ Shows(d, w)
  BY <1>3 DEF Builds
<1>5. d.text \in w.open /\ w.kinds[d.text] = "text" /\ w.begun
  BY <1>3, <1>4 DEF Shows, Holds
<1>6. PICK x \in Views : /\ Path(w, <<DeltaBlock(d.text, "text", what)>>, x)
                         /\ x.begun /\ x.kinds = w.kinds /\ x.open = w.open
  BY <1>5, PathDelta DEF BlockKinds
<1>7. Shows(e, x)
  <2>1. SameBlocks(d, e)
    BY <1>2 DEF SameBlocks
  <2> QED BY <1>4, <1>6, <2>1, SameShows, SameKinds
<1>8. <<DeltaBlock(d.text, "text", what)>> \in Seq(Emitted) /\ d \in Builders
  BY <1>3, EventTypes, Singletons DEF Builders, Builds
<1>9. Builds(v, e)
  BY <1>2, <1>4, <1>6, <1>7, <1>8, BuildsMore
<1> QED BY <1>9 DEF e

\* A call written as text.
LEMMA EmitHeuristicToolBuilds ==
  ASSUME Unbounded, NEW v, NEW b, Builds(v, b)
  PROVE  Builds(v, EmitHeuristicTool(b))
<1> DEFINE c == CloseContent(b)
           events == <<StartBlock(c.next, "tool_use"), DeltaBlock(c.next, "tool_use", <<>>),
                       StopBlock(c.next)>>
           e == EmitHeuristicTool(b)
<1>1. Builds(v, c) /\ c \in Builders /\ b \in Builders
  BY CloseContentBuilds DEF Builds
<1>2. e = [Yielding(c, events) EXCEPT !.next = @ + 1] /\ e \in Builders
  BY <1>1, EmitHeuristicToolType DEF EmitHeuristicTool
<1> HIDE DEF c, e
<1>3. PICK w \in Views : Path(v, c.out, w) /\ Shows(c, w)
  BY <1>1 DEF Builds
<1>4. /\ c.next \in Nat /\ c.next \in Int /\ w.kinds[c.next] = "none" /\ w.begun
      /\ c.next # None /\ c.next \in Indexes /\ ~Holds(c, c.next)
  BY <1>1, <1>3, ShowsNext
<1>5. PICK x \in Views : /\ Path(w, events, x) /\ x.begun
                         /\ x.kinds = [w.kinds EXCEPT ![c.next] = "tool_use"] /\ x.open = w.open
  <2>1. "tool_use" \in BlockKinds
    BY DEF BlockKinds
  <2> QED BY <1>4, <2>1, PathBlock
<1>6. events \in Seq(Emitted)
  BY <1>4, EventTypes, EmptyText, Triples
<1> HIDE DEF events
<1>7. /\ e.out = c.out \o events /\ e.next = c.next + 1 /\ e.thinking = c.thinking
      /\ e.text = c.text /\ e.tools = c.tools
  BY <1>1, <1>2 DEF Yielding, Builders
<1>8. Shows(e, x)
  <2>1. w.kinds \in [Indexes -> Kinds \cup {"none"}] /\ None \notin Nat /\ Nat \subseteq Indexes
    BY ViewFacts DEF None, Unbounded
  <2>2. \A j \in Nat : x.kinds[j] = IF j = c.next THEN "tool_use" ELSE w.kinds[j]
    BY <1>4, <1>5, <2>1
  <2> QED BY <1>3, <1>4, <1>5, <1>7, <2>1, <2>2 DEF Shows, Holds
<1>9. Builds(v, e)
  BY <1>1, <1>2, <1>3, <1>5, <1>6, <1>7, <1>8, BuildsMore
<1> QED BY <1>9 DEF e

\* Several of them.
LEMMA EmitHeuristicToolsBuilds ==
  ASSUME Unbounded, NEW v, NEW b, Builds(v, b), NEW n \in Nat
  PROVE  Builds(v, EmitHeuristicTools(b, n))
<1> DEFINE seq == [j \in 1 .. n |-> j]
           Good == {c \in Builders : Builds(v, c)}
<1>1. seq \in Seq(Nat) /\ Len(seq) = n
  OBVIOUS
<1>2. EmitHeuristicTools(b, n) = HeuristicFold!Fold(b, seq)
  BY DEF EmitHeuristicTools, FoldLeft, MapThenFoldSet, Max, HeuristicFold!Fold,
         HeuristicFold!Largest, HeuristicPass
<1>3. \A c \in Builders, e \in Nat : HeuristicPass(c, e) \in Builders
  BY EmitHeuristicToolType DEF HeuristicPass
<1>4. b \in Good /\ b \in Builders
  BY DEF Builds
<1>5. \A c \in Builders \cap Good, e \in Nat : HeuristicPass(c, e) \in Good
  BY <1>3, EmitHeuristicToolBuilds DEF HeuristicPass
<1> HIDE DEF seq
<1>6. HeuristicFold!Fold(b, seq) \in Builders \cap Good
  <2> HIDE DEF Good
  <2> QED BY <1>1, <1>3, <1>4, <1>5, HeuristicFold!FoldKeeps
<1> QED BY <1>2, <1>6

\* More arguments of a started call: at most one delta of its block.
LEMMA SendArgsBlocks ==
  ASSUME NEW b \in Builders, NEW i \in ToolIndexes, NEW n \in Nat
  PROVE  LET e == SendArgs(b, i, n) IN
         /\ SameBlocks(b, e) /\ e \in Builders
         /\ e.out = b.out \o <<DeltaBlock(b.tools[i].block, "tool_use", <<>>)>>
<1> DEFINE e == SendArgs(b, i, n)
           events == <<DeltaBlock(b.tools[i].block, "tool_use", <<>>)>>
           u == [b.tools[i] EXCEPT !.sent = @ + n, !.deltas = @ + 1]
<1>1. e \in Builders /\ e.tools = [b.tools EXCEPT ![i] = u]
  BY SendArgsType
<1>2. u.block = b.tools[i].block
  BY DEF Builders, Tools
<1>3. /\ e.thinking = b.thinking /\ e.text = b.text /\ e.next = b.next
      /\ e.out = b.out \o events
  <2> DEFINE c == Yielding(b, events)
  <2>1. e = [c EXCEPT !.tools[i].sent = @ + n, !.tools[i].deltas = @ + 1]
    BY DEF SendArgs
  <2>2. /\ c.thinking = b.thinking /\ c.text = b.text /\ c.next = b.next
        /\ c.out = b.out \o events /\ c = [b EXCEPT !.out = b.out \o events]
    BY DEF Yielding, Builders
  <2> HIDE DEF e, events
  <2> QED BY <2>1, <2>2 DEF Builders
<1> HIDE DEF e, u
<1>4. SameBlocks(b, e)
  <2>1. \A j \in ToolIndexes : e.tools[j].block = b.tools[j].block
    BY <1>1, <1>2 DEF Builders
  <2> QED BY <1>3, <2>1 DEF SameBlocks
<1> QED BY <1>1, <1>3, <1>4 DEF e, events

\* A delta of a call goes to its open block.
LEMMA ToolSent ==
  ASSUME NEW v, NEW b, Builds(v, b), NEW i \in ToolIndexes, b.tools[i].block # None,
         NEW e \in Builders, SameBlocks(b, e),
         e.out = b.out \/ e.out = b.out \o <<DeltaBlock(b.tools[i].block, "tool_use", <<>>)>>
  PROVE  Builds(v, e)
<1>1. PICK w \in Views : Path(v, b.out, w) /\ Shows(b, w)
  BY DEF Builds
<1>2. Shows(e, w)
  BY <1>1, SameShows
<1>3. CASE e.out = b.out
  BY <1>1, <1>2, <1>3 DEF Builds
<1>4. CASE e.out = b.out \o <<DeltaBlock(b.tools[i].block, "tool_use", <<>>)>>
  <2> DEFINE ix == b.tools[i].block
  <2>1. ix \in w.open /\ w.kinds[ix] = "tool_use" /\ w.begun /\ ix \in Nat
    BY <1>1 DEF Shows, Holds
  <2>2. "tool_use" \in BlockKinds /\ <<>> \in Text
    BY EmptyText DEF BlockKinds
  <2>3. PICK x \in Views : /\ Path(w, <<DeltaBlock(ix, "tool_use", <<>>)>>, x)
                           /\ x.begun /\ x.kinds = w.kinds /\ x.open = w.open
    BY <2>1, <2>2, PathDelta
  <2>4. Shows(e, x)
    BY <1>2, <2>3, SameKinds
  <2>5. <<DeltaBlock(ix, "tool_use", <<>>)>> \in Seq(Emitted) /\ b \in Builders
    BY <2>1, EventTypes, EmptyText, Singletons DEF Builds
  <2> QED BY <1>1, <1>4, <2>3, <2>4, <2>5, BuildsMore
<1> QED BY <1>3, <1>4

\* Arguments of a started call, gathered or sent.
LEMMA EmitArgsBuilds ==
  ASSUME NEW v, NEW b, Builds(v, b), NEW i \in ToolIndexes, b.tools[i].block # None,
         NEW n \in Nat
  PROVE  Builds(v, EmitArgs(b, i, n))
<1> DEFINE t == b.tools[i]
           task == t.task + n
           alias == t.alias + n
           events == <<DeltaBlock(b.tools[i].block, "tool_use", <<>>)>>
           e == EmitArgs(b, i, n)
           Sources == {b} \cup {SendArgs(b, i, m) : m \in Nat}
           Derived(c) == \/ e = c
                         \/ e = [c EXCEPT !.tools[i].task = task]
                         \/ e = [c EXCEPT !.tools[i].task = 0, !.tools[i].taskDone = TRUE]
                         \/ e = [c EXCEPT !.tools[i].alias = alias]
                         \/ e = [c EXCEPT !.tools[i].alias = 0]
<1>0. b \in Builders
  BY DEF Builds
<1>1. task \in Nat /\ alias \in Nat
  <2>1. t \in Tools
    BY <1>0 DEF Builders
  <2> HIDE DEF t
  <2> QED BY <2>1 DEF Tools
<1>2. e \in Builders /\ \A j \in ToolIndexes : e.tools[j].block = b.tools[j].block
  <2>1. /\ e \in Builders /\ \A j \in ToolIndexes \ {i} : e.tools[j] = b.tools[j]
        /\ SameCall(b.tools[i], e.tools[i])
    BY <1>0, EmitArgsType
  <2> HIDE DEF e
  <2> QED BY <2>1 DEF SameCall
<1>3. b \in Sources /\ \A m \in Nat : SendArgs(b, i, m) \in Sources
  OBVIOUS
<1>4. \E c \in Sources : Derived(c)
  <2> DEFINE Nothing == n = 0
             Done == n > 0 /\ t.name = TaskName /\ t.taskDone
             Task == n > 0 /\ t.name = TaskName /\ ~t.taskDone
             Alias == n > 0 /\ t.name \in Aliased \ {TaskName}
             gathered == [b EXCEPT !.tools[i].task = task]
             whole == [SendArgs(b, i, task) EXCEPT !.tools[i].task = 0, !.tools[i].taskDone = TRUE]
             buffered == [b EXCEPT !.tools[i].alias = alias]
             flushed == [SendArgs(b, i, alias) EXCEPT !.tools[i].alias = 0]
             Goal == \E c \in Sources : Derived(c)
  <2>1. e = CASE Nothing -> b
              [] Done -> b
              [] Task -> IF task # ArgPieces THEN gathered ELSE whole
              [] Alias -> IF alias # ArgPieces THEN buffered ELSE flushed
              [] OTHER -> SendArgs(b, i, n)
    BY DEF EmitArgs
  <2>2. /\ Nothing => ~Done /\ ~Task /\ ~Alias
        /\ Done => ~Task /\ ~Alias
        /\ Task => ~Alias
    OBVIOUS
  <2> HIDE DEF e, Sources, task, alias, t, Nothing, Done, Task, Alias
  <2>3. e = b => Goal
    BY <1>3
  <2>4. e = gathered => Goal
    BY <1>3
  <2>5. e = whole => Goal
    BY <1>1, <1>3
  <2>6. e = buffered => Goal
    BY <1>3
  <2>7. e = flushed => Goal
    BY <1>1, <1>3
  <2>8. e = SendArgs(b, i, n) => Goal
    BY <1>3
  <2> HIDE DEF gathered, whole, buffered, flushed, Goal
  <2>9. Goal
    BY ONLY <2>1, <2>2, <2>3, <2>4, <2>5, <2>6, <2>7, <2>8
  <2> QED BY <2>9 DEF Goal
<1>5. PICK c \in Sources : Derived(c)
  BY <1>4
<1>6. /\ c \in Builders /\ c.thinking = b.thinking /\ c.text = b.text /\ c.next = b.next
      /\ c.out = b.out \/ c.out = b.out \o events
  BY <1>0, SendArgsBlocks DEF SameBlocks
<1> HIDE DEF e, Sources, events, task, alias
<1>7. e.thinking = c.thinking /\ e.text = c.text /\ e.next = c.next /\ e.out = c.out
  BY <1>5, <1>6 DEF Builders
<1>8. SameBlocks(b, e)
  BY <1>2, <1>6, <1>7 DEF SameBlocks
<1>9. Builds(v, e)
  BY <1>0, <1>2, <1>6, <1>7, <1>8, ToolSent DEF events
<1> QED BY <1>9 DEF e

-----------------------------------------------------------------------------
(* Calls *)

\* A call's block is begun: before the arguments that came before its name.
LEMMA StartedTool ==
  ASSUME NEW b \in Builders, NEW i \in ToolIndexes
  PROVE  \E c \in Builders :
           /\ StartTool(b, i) = EmitArgs(c, i, b.tools[i].pre)
           /\ c.out = b.out \o <<StartBlock(b.next, "tool_use")>> /\ c.next = b.next + 1
           /\ c.thinking = b.thinking /\ c.text = b.text
           /\ c.tools[i].block = b.next
           /\ \A j \in ToolIndexes \ {i} : c.tools[j] = b.tools[j]
<1> DEFINE t == b.tools[i]
           x == b.next
           u == [t EXCEPT !.block = x, !.shown = t.name, !.pre = 0]
           d == Yielding(b, <<StartBlock(x, "tool_use")>>)
           m == x + 1
           e == [d EXCEPT !.next = m]
           c == [e EXCEPT !.tools[i] = u]
           f == EmitArgs(c, i, t.pre)
<1>1. t \in Tools /\ x \in Nat /\ x \in Int /\ m \in Nat /\ x # None
  BY DEF Builders, None
<1>2. <<StartBlock(x, "tool_use")>> \in Seq(Emitted)
  BY <1>1, EventTypes
<1>3. d \in Builders /\ d.tools = b.tools /\ d.next = x /\ d.thinking = b.thinking
      /\ d.text = b.text /\ d.out = b.out \o <<StartBlock(x, "tool_use")>>
  <2>1. d \in Builders /\ d.tools = b.tools
    BY <1>2, YieldingType
  <2> QED BY <2>1 DEF Yielding, Builders
<1> HIDE DEF d, m, x
<1>4. /\ e \in Builders /\ e.tools = b.tools /\ e.next = m /\ e.thinking = b.thinking
      /\ e.text = b.text /\ e.out = b.out \o <<StartBlock(x, "tool_use")>>
  BY <1>1, <1>3 DEF Builders
<1>5. StartTool(b, i) = f
  <2> DEFINE t1 == [t EXCEPT !.block = x]
             t2 == [t1 EXCEPT !.shown = t.name]
             c1 == [e EXCEPT !.tools[i] = t1]
             c2 == [c1 EXCEPT !.tools[i] = t2]
             all == [d EXCEPT !.next = @ + 1, !.tools[i].block = x,
                              !.tools[i].shown = t.name, !.tools[i].pre = 0]
  <2>1. d.next + 1 = m /\ d.next = x
    BY <1>3 DEF m
  <2>2. StartTool(b, i) = EmitArgs(all, i, t.pre)
    BY DEF StartTool, d, x
  <2>3. all = [[[e EXCEPT !.tools[i].block = x] EXCEPT !.tools[i].shown = t.name]
                EXCEPT !.tools[i].pre = 0]
    <3> HIDE DEF t
    <3> QED BY <2>1
  <2> HIDE DEF e, all
  <2>4. e.tools[i] = t
    BY <1>4
  <2> HIDE DEF t
  <2>5. [e EXCEPT !.tools[i].block = x] = c1
    BY <1>1, <1>4, <2>4 DEF Builders, Tools
  <2>6. t1 \in Tools /\ t2 \in Tools
    BY <1>1 DEF Tools
  <2> HIDE DEF t1
  <2>7. c1 \in Builders /\ c1.tools[i] = t1
    <3>1. c1 \in Builders /\ c1.tools = [e.tools EXCEPT ![i] = t1]
      BY <1>4, <2>6, ToolsUpdate
    <3> QED BY <3>1, <1>4 DEF Builders
  <2> HIDE DEF c1
  <2>8. [c1 EXCEPT !.tools[i].shown = t.name] = c2
    BY <2>6, <2>7 DEF Builders, Tools
  <2> HIDE DEF t2
  <2>9. c2 \in Builders /\ c2.tools[i] = t2
    <3>1. c2 \in Builders /\ c2.tools = [c1.tools EXCEPT ![i] = t2]
      BY <2>6, <2>7, ToolsUpdate
    <3> QED BY <3>1, <2>7 DEF Builders
  <2> HIDE DEF c2
  <2>10. [c2 EXCEPT !.tools[i].pre = 0] = [c2 EXCEPT !.tools[i] = [t2 EXCEPT !.pre = 0]]
    BY <2>6, <2>9 DEF Builders, Tools
  <2>11. [t2 EXCEPT !.pre = 0] = u
    BY <1>1 DEF Tools, t1, t2
  <2>12. [c2 EXCEPT !.tools[i] = u] = c
    <3> HIDE DEF u
    <3>1. c2 = [c1 EXCEPT !.tools[i] = t2] /\ c1 = [e EXCEPT !.tools[i] = t1]
      BY DEF c1, c2
    <3> QED BY <1>4, <3>1 DEF Builders
  <2> HIDE DEF c, u
  <2> QED BY <2>2, <2>3, <2>5, <2>8, <2>10, <2>11, <2>12
<1> HIDE DEF e, t
<1>6. u \in Tools /\ u.block = x
  BY <1>1 DEF Tools
<1> HIDE DEF u
<1>7. c \in Builders /\ c.tools = [b.tools EXCEPT ![i] = u]
  BY <1>4, <1>6, ToolsUpdate
<1>8. c.tools[i] = u /\ \A j \in ToolIndexes \ {i} : c.tools[j] = b.tools[j]
  BY <1>7 DEF Builders
<1>9. c.next = m /\ c.thinking = b.thinking /\ c.text = b.text
      /\ c.out = b.out \o <<StartBlock(x, "tool_use")>>
  BY <1>4 DEF Builders
<1> HIDE DEF c
<1> QED BY <1>5, <1>6, <1>7, <1>8, <1>9 DEF f, m, x, t

\* It takes an index no block has had.
LEMMA StartToolBuilds ==
  ASSUME Unbounded, NEW v, NEW b, Builds(v, b), NEW i \in ToolIndexes, b.tools[i].block = None
  PROVE  Builds(v, StartTool(b, i))
<1>1. b \in Builders
  BY DEF Builds
<1>2. PICK c \in Builders :
        /\ StartTool(b, i) = EmitArgs(c, i, b.tools[i].pre)
        /\ c.out = b.out \o <<StartBlock(b.next, "tool_use")>> /\ c.next = b.next + 1
        /\ c.thinking = b.thinking /\ c.text = b.text
        /\ c.tools[i].block = b.next
        /\ \A j \in ToolIndexes \ {i} : c.tools[j] = b.tools[j]
  BY <1>1, StartedTool
<1>3. PICK w \in Views : Path(v, b.out, w) /\ Shows(b, w)
  BY DEF Builds
<1>4. /\ b.next \in Nat /\ w.kinds[b.next] = "none" /\ w.begun /\ b.next # None
      /\ b.next \in Indexes /\ ~Holds(b, b.next)
  BY <1>1, <1>3, ShowsNext
<1>5. PICK x \in Views : /\ Path(w, <<StartBlock(b.next, "tool_use")>>, x) /\ x.begun
                         /\ x.kinds = [w.kinds EXCEPT ![b.next] = "tool_use"]
                         /\ x.open = w.open \cup {b.next}
  <2>1. "tool_use" \in MadeKinds
    BY DEF MadeKinds
  <2> QED BY <1>4, <2>1, PathStart
<1>6. Shows(c, x)
  <2>1. /\ w.kinds \in [Indexes -> Kinds \cup {"none"}] /\ None \notin Nat
        /\ w.open \in SUBSET Indexes /\ Nat \subseteq Indexes
    BY ViewFacts DEF None, Unbounded
  <2>2. \A j \in Nat : x.kinds[j] = IF j = b.next THEN "tool_use" ELSE w.kinds[j]
    BY <1>4, <1>5, <2>1
  <2>3. \A j \in ToolIndexes :
          c.tools[j].block = IF j = i THEN b.next ELSE b.tools[j].block
    BY <1>2
  <2>4. \A j \in Nat : Holds(c, j) <=> j = b.next \/ Holds(b, j)
    BY <1>2, <2>1, <2>3 DEF Holds
  <2>5. \A j \in Nat : j \in x.open <=> Holds(c, j)
    BY <1>3, <1>5, <2>4 DEF Shows
  <2>6. \A j, k \in ToolIndexes :
          c.tools[j].block # None /\ c.tools[j].block = c.tools[k].block => j = k
    BY <1>3, <1>4, <2>3 DEF Shows, Holds
  <2>7. \A j \in ToolIndexes :
          c.tools[j].block # None =>
            c.tools[j].block \in Nat /\ x.kinds[c.tools[j].block] = "tool_use"
    BY <1>3, <1>4, <2>2, <2>3 DEF Shows
  <2>8. /\ c.thinking # None => c.thinking \in Nat /\ x.kinds[c.thinking] = "thinking"
        /\ c.text # None => c.text \in Nat /\ x.kinds[c.text] = "text"
        /\ x.open \subseteq Nat
    BY <1>2, <1>3, <1>4, <1>5, <2>2 DEF Shows, Holds
  <2>9. \A j \in Nat : j >= c.next => x.kinds[j] = "none"
    BY <1>2, <1>3, <1>4, <2>2 DEF Shows
  <2> QED BY <1>5, <2>5, <2>6, <2>7, <2>8, <2>9 DEF Shows
<1>7. <<StartBlock(b.next, "tool_use")>> \in Seq(Emitted)
  BY <1>4, EventTypes, Singletons
<1>8. Builds(v, c)
  BY <1>1, <1>2, <1>3, <1>5, <1>6, <1>7, BuildsMore
<1>9. b.tools[i].pre \in Nat
  BY <1>1 DEF Builders, Tools
<1> QED BY <1>2, <1>4, <1>8, <1>9, EmitArgsBuilds

\* A chunk with a piece of a call: it may begin the block of the call.
LEMMA ToolDeltaBuilds ==
  ASSUME Unbounded, NEW v, NEW b, Builds(v, b), NEW i \in ToolIndexes,
         NEW name \in Seq(Fragments), NEW args \in Nat
  PROVE  Builds(v, ToolDelta(b, i, name, args))
<1> DEFINE a == CloseContent(b)
           t == a.tools[i]
           more == t.got + args
           merged == MergedName(t.name, name)
           s == [t EXCEPT !.name = merged, !.got = more]
           c == [a EXCEPT !.tools[i] = s]
           d == IF c.tools[i].block = None /\ c.tools[i].name # <<>> THEN StartTool(c, i) ELSE c
           r == ToolDelta(b, i, name, args)
<1>1. Builds(v, a) /\ a \in Builders
  BY CloseContentBuilds DEF Builds
<1> HIDE DEF a
<1>2. t \in Tools
  BY <1>1 DEF Builders
<1>3. merged \in Seq(Fragments) /\ more \in Nat
  <2>1. t.name \in Seq(Fragments) /\ t.got \in Nat
    <3> HIDE DEF t
    <3> QED BY <1>2 DEF Tools
  <2> QED BY <2>1, MergedNameFacts
<1>4. [a EXCEPT !.tools[i].name = MergedName(@, name), !.tools[i].got = @ + args] = c
  <2>2. [a EXCEPT !.tools[i].name = MergedName(a.tools[i].name, name),
                  !.tools[i].got = a.tools[i].got + args]
        = [a EXCEPT !.tools[i].name = merged, !.tools[i].got = more]
    OBVIOUS
  <2> HIDE DEF merged, more
  <2>3. [a EXCEPT !.tools[i].name = merged, !.tools[i].got = more] = c
    BY <1>1, <1>2 DEF Builders, Tools
  <2> QED BY <2>2, <2>3
<1>5. r = IF d.tools[i].block = None THEN [d EXCEPT !.tools[i].pre = @ + args]
          ELSE EmitArgs(d, i, args)
  <2> DEFINE c0 == [a EXCEPT !.tools[i].name = MergedName(@, name), !.tools[i].got = @ + args]
             d0 == IF c0.tools[i].block = None /\ c0.tools[i].name # <<>>
                   THEN StartTool(c0, i) ELSE c0
  <2>1. r = IF d0.tools[i].block = None THEN [d0 EXCEPT !.tools[i].pre = @ + args]
            ELSE EmitArgs(d0, i, args)
    BY DEF ToolDelta, a
  <2>2. c0 = c
    BY <1>4
  <2> HIDE DEF c0, c, r
  <2>3. d0 = d
    BY <2>2
  <2> HIDE DEF d, d0
  <2> QED BY <2>1, <2>3
<1> HIDE DEF merged, more, r
<1>6. s \in Tools /\ s.block = t.block
  <2> HIDE DEF t
  <2> QED BY <1>2, <1>3 DEF Tools
<1> HIDE DEF s
<1>7. c \in Builders /\ c.tools = [a.tools EXCEPT ![i] = s]
  BY <1>1, <1>6, ToolsUpdate
<1>8. Builds(v, c)
  <2>1. c.next = a.next /\ c.thinking = a.thinking /\ c.text = a.text /\ c.out = a.out
    BY <1>1 DEF Builders
  <2> HIDE DEF c
  <2>2. SameBlocks(a, c)
    BY <1>1, <1>6, <1>7, <2>1 DEF SameBlocks, Builders
  <2>3. PICK w \in Views : Path(v, a.out, w) /\ Shows(a, w)
    BY <1>1 DEF Builds
  <2>4. Shows(c, w)
    BY <2>2, <2>3, SameShows
  <2> QED BY <1>7, <2>1, <2>3, <2>4 DEF Builds
<1> HIDE DEF c
<1>9. Builds(v, d)
  BY <1>8, StartToolBuilds
<1> HIDE DEF d
<1>10. CASE d.tools[i].block # None
  <2>1. Builds(v, EmitArgs(d, i, args))
    BY <1>9, <1>10, EmitArgsBuilds
  <2> QED BY <1>5, <1>10, <2>1 DEF r
<1>11. CASE d.tools[i].block = None
  <2> DEFINE p == d.tools[i].pre + args
             u == [d.tools[i] EXCEPT !.pre = p]
  <2>1. d \in Builders /\ d.tools[i] \in Tools
    BY <1>9 DEF Builds, Builders
  <2>2. p \in Nat
    <3> DEFINE q == d.tools[i]
    <3>1. q \in Tools
      BY <2>1
    <3> HIDE DEF q
    <3>2. q.pre \in Nat
      BY <3>1 DEF Tools
    <3> QED BY <3>2 DEF q
  <2>3. r = [d EXCEPT !.tools[i].pre = p]
    BY <1>5, <1>11
  <2> HIDE DEF p
  <2>4. r = [d EXCEPT !.tools[i] = u]
    BY <2>1, <2>3 DEF Builders, Tools
  <2>5. u \in Tools /\ u.block = d.tools[i].block
    BY <2>1, <2>2 DEF Tools
  <2> HIDE DEF u
  <2>6. r \in Builders /\ r.tools = [d.tools EXCEPT ![i] = u]
    BY <2>1, <2>4, <2>5, ToolsUpdate
  <2>7. r.next = d.next /\ r.thinking = d.thinking /\ r.text = d.text /\ r.out = d.out
    BY <2>1, <2>4 DEF Builders
  <2>8. SameBlocks(d, r)
    BY <2>1, <2>5, <2>6, <2>7 DEF SameBlocks, Builders
  <2>9. PICK w \in Views : Path(v, d.out, w) /\ Shows(d, w)
    BY <1>9 DEF Builds
  <2>10. Shows(r, w)
    BY <2>8, <2>9, SameShows
  <2> QED BY <2>6, <2>7, <2>9, <2>10 DEF Builds, r
<1> QED BY <1>10, <1>11

-----------------------------------------------------------------------------
(* Flushing and closing *)

\* Nothing is held back of a call without a block.
Idle(b) ==
  \A i \in ToolIndexes :
    b.tools[i].block = None => b.tools[i].task = 0 /\ b.tools[i].alias = 0

\* While no piece is lost, a call without a block holds none back.
LEMMA RecordingIdle ==
  ASSUME NEW b, Recording(b)
  PROVE  Idle(b)
BY DEF Recording, Recorded, Idle

\* What was held back goes to the block of its call.
LEMMA FlushAliasBuilds ==
  ASSUME NEW v, NEW b, Builds(v, b), Idle(b), NEW i \in ToolIndexes
  PROVE  Builds(v, FlushAlias(b, i)) /\ Idle(FlushAlias(b, i))
<1> DEFINE t == b.tools[i]
           m == t.alias
           s == SendArgs(b, i, m)
           e == FlushAlias(b, i)
<1>1. b \in Builders /\ m \in Nat
  <2>1. b \in Builders
    BY DEF Builds
  <2> QED BY <2>1 DEF Builders, Tools
<1>2. CASE m = 0 \/ t.name \notin Aliased
  BY <1>2 DEF FlushAlias
<1>3. CASE ~(m = 0 \/ t.name \notin Aliased)
  <2>1. e = [s EXCEPT !.tools[i].alias = 0]
    BY <1>3 DEF FlushAlias
  <2>2. t.block # None
    BY <1>3 DEF Idle
  <2>3. /\ SameBlocks(b, s) /\ s \in Builders
        /\ s.out = b.out \o <<DeltaBlock(t.block, "tool_use", <<>>)>>
    BY <1>1, SendArgsBlocks
  <2>4. e \in Builders /\ \A j \in ToolIndexes \ {i} : e.tools[j] = b.tools[j]
    BY <1>1, FlushAliasStep
  <2> HIDE DEF s, e, m
  <2>5. e.next = s.next /\ e.thinking = s.thinking /\ e.text = s.text /\ e.out = s.out
    BY <2>1, <2>3 DEF Builders
  <2>6. e.tools[i].block = s.tools[i].block
    BY <2>1, <2>3 DEF Builders, Tools
  <2>7. SameBlocks(b, e)
    BY <2>3, <2>4, <2>5, <2>6 DEF SameBlocks
  <2>8. Builds(v, e)
    BY <1>1, <2>2, <2>3, <2>4, <2>5, <2>7, ToolSent
  <2>9. Idle(e)
    BY <2>2, <2>4, <2>7 DEF Idle, SameBlocks
  <2> QED BY <2>8, <2>9 DEF e
<1> QED BY <1>2, <1>3

LEMMA FlushTaskBuilds ==
  ASSUME NEW v, NEW b, Builds(v, b), Idle(b), NEW i \in ToolIndexes
  PROVE  Builds(v, FlushTask(b, i)) /\ Idle(FlushTask(b, i))
<1> DEFINE t == b.tools[i]
           s == SendArgs(b, i, 0)
           e == FlushTask(b, i)
<1>1. b \in Builders
  BY DEF Builds
<1>2. CASE t.task = 0 \/ t.taskDone
  BY <1>2 DEF FlushTask
<1>3. CASE ~(t.task = 0 \/ t.taskDone)
  <2>1. e = [s EXCEPT !.tools[i].task = 0, !.tools[i].taskDone = TRUE]
    BY <1>3 DEF FlushTask
  <2>2. t.block # None
    BY <1>3 DEF Idle
  <2>3. /\ SameBlocks(b, s) /\ s \in Builders
        /\ s.out = b.out \o <<DeltaBlock(t.block, "tool_use", <<>>)>>
    BY <1>1, SendArgsBlocks
  <2>4. e \in Builders /\ \A j \in ToolIndexes \ {i} : e.tools[j] = b.tools[j]
    BY <1>1, FlushTaskStep
  <2> HIDE DEF s, e
  <2>5. e.next = s.next /\ e.thinking = s.thinking /\ e.text = s.text /\ e.out = s.out
    BY <2>1, <2>3 DEF Builders
  <2>6. e.tools[i].block = s.tools[i].block
    BY <2>1, <2>3 DEF Builders, Tools
  <2>7. SameBlocks(b, e)
    BY <2>3, <2>4, <2>5, <2>6 DEF SameBlocks
  <2>8. Builds(v, e)
    BY <1>1, <2>2, <2>3, <2>4, <2>5, <2>7, ToolSent
  <2>9. Idle(e)
    BY <2>2, <2>4, <2>7 DEF Idle, SameBlocks
  <2> QED BY <2>8, <2>9 DEF e
<1> QED BY <1>2, <1>3

\* Every call is flushed.
AliasesFold == INSTANCE FoldFacts WITH
  States <- Builders, Elements <- ToolIndexes, Op <- FlushAlias
TasksFold == INSTANCE FoldFacts WITH
  States <- Builders, Elements <- ToolIndexes, Op <- FlushTask

\* All of it.
LEMMA FlushedBuilds ==
  ASSUME NEW v, NEW b, Builds(v, b), Idle(b)
  PROVE  Builds(v, FoldLeft(FlushTask, FoldLeft(FlushAlias, b, EveryTool), EveryTool))
<1> DEFINE c == AliasesFold!Fold(b, EveryTool)
           d == TasksFold!Fold(c, EveryTool)
           Good == {e \in Builders : Builds(v, e) /\ Idle(e)}
<1>1. FoldLeft(FlushAlias, b, EveryTool) = c
  BY DEF FoldLeft, MapThenFoldSet, Max, AliasesFold!Fold, AliasesFold!Largest
<1>2. \A e \in Builders : FoldLeft(FlushTask, e, EveryTool) = TasksFold!Fold(e, EveryTool)
  BY DEF FoldLeft, MapThenFoldSet, Max, TasksFold!Fold, TasksFold!Largest
<1>3. \A e \in Builders, i \in ToolIndexes : FlushAlias(e, i) \in Builders /\ FlushTask(e, i) \in Builders
  BY FlushAliasStep, FlushTaskStep
<1>4. b \in Good
  BY DEF Builds
<1>5. \A e \in Builders \cap Good, i \in ToolIndexes : FlushAlias(e, i) \in Good /\ FlushTask(e, i) \in Good
  BY <1>3, FlushAliasBuilds, FlushTaskBuilds
<1>6. b \in Builders /\ EveryTool \in Seq(ToolIndexes)
  BY EveryToolFacts DEF Builds
<1> HIDE DEF c
<1>7. c \in Builders \cap Good
  <2> HIDE DEF Good
  <2> QED BY <1>3, <1>4, <1>5, <1>6, AliasesFold!FoldKeeps DEF c
<1> HIDE DEF d
<1>8. d \in Builders \cap Good
  <2> HIDE DEF Good
  <2> QED BY <1>3, <1>5, <1>6, <1>7, TasksFold!FoldKeeps DEF d
<1> QED BY <1>1, <1>2, <1>7, <1>8 DEF d

\* Every block is closed, and the client knows none that is yet to begin.
Closes(v, b) ==
  /\ b \in Builders
  /\ \E w \in Views :
       /\ Path(v, b.out, w) /\ w.begun /\ w.open = {}
       /\ \A j \in Nat : j >= b.next => w.kinds[j] = "none"

\* Each call is in the sequence of them once.
LEMMA EveryToolOnce ==
  \A j, k \in 1 .. Len(EveryTool) : EveryTool[j] = EveryTool[k] => j = k
<1> DEFINE n == Cardinality(ToolIndexes)
<1>1. n \in Nat /\ ExistsBijection(1 .. n, ToolIndexes)
  BY ToolAssumption, FS_CardinalityType
<1>2. PICK g : g \in Bijection(1 .. n, ToolIndexes)
  BY <1>1 DEF ExistsBijection
<1>3. EveryTool \in [1 .. n -> ToolIndexes] /\ IsInjective(EveryTool)
  <2>1. g \in [1 .. n -> ToolIndexes] /\ IsInjective(g)
    BY <1>2 DEF Bijection, Injection
  <2> QED BY <2>1 DEF EveryTool, SetToSeq
<1>4. DOMAIN EveryTool = 1 .. Len(EveryTool)
  BY EveryToolFacts
<1> QED BY <1>3, <1>4 DEF IsInjective

\* Text, thinking and every call, each once: no block is left open.
LEMMA CloseAllBlocksCloses ==
  ASSUME NEW v, NEW b, Builds(v, b)
  PROVE  Closes(v, CloseAllBlocks(b))
<1> DEFINE c == CloseContent(b)
           n == Len(EveryTool)
           Left(k) == {c.tools[EveryTool[m]].block : m \in k + 1 .. n} \ {None}
<1>1. Builds(v, c) /\ c \in Builders /\ c.thinking = None /\ c.text = None
  BY CloseContentBuilds DEF Builds
<1>2. CloseAllBlocks(b) = CloseFold!Fold(c, EveryTool)
  BY DEF CloseAllBlocks, FoldLeft, MapThenFoldSet, Max, CloseFold!Fold, CloseFold!Largest
<1> HIDE DEF c
<1>3. n \in Nat /\ EveryTool \in Seq(ToolIndexes) /\ \A m \in 1 .. n : EveryTool[m] \in ToolIndexes
  BY EveryToolFacts
<1>4. \A d \in Builders, i \in ToolIndexes : CloseTool(d, i) \in Builders
  BY CloseToolType
<1>5. PICK f \in [0 .. n -> Builders] :
        /\ f[0] = c
        /\ \A k \in 1 .. n : f[k] = CloseTool(f[k - 1], EveryTool[k])
        /\ CloseFold!Fold(c, EveryTool) = f[n]
  BY <1>1, <1>3, <1>4, CloseFold!FoldSteps
<1> DEFINE A == {k \in 0 .. n :
                   /\ f[k].tools = c.tools /\ f[k].next = c.next
                   /\ \E w \in Views :
                        /\ Path(v, f[k].out, w) /\ w.begun /\ w.open = Left(k)
                        /\ \A j \in Nat : j >= c.next => w.kinds[j] = "none"}
<1>6. PICK w \in Views : Path(v, c.out, w) /\ Shows(c, w)
  BY <1>1 DEF Builds
<1>7. 0 \in A
  <2>1. w.open = Left(0)
    <3>1. \A i \in ToolIndexes : \E m \in 0 + 1 .. n : EveryTool[m] = i
      BY EveryToolFacts
    <3>2. \A j \in Left(0) : j \in w.open
      BY <1>3, <1>6 DEF Shows, Holds
    <3>3. ASSUME NEW j \in w.open PROVE j \in Left(0)
      <4>1. j \in Nat /\ j # None
        BY <1>6, <3>3 DEF Shows, None
      <4>2. PICK i \in ToolIndexes : j = c.tools[i].block
        BY <1>1, <1>6, <4>1 DEF Shows, Holds
      <4>3. PICK m \in 0 + 1 .. n : EveryTool[m] = i
        BY <3>1
      <4> QED BY <4>1, <4>2, <4>3
    <3> HIDE DEF Left
    <3> QED BY <3>2, <3>3
  <2>2. w.begun /\ \A j \in Nat : j >= c.next => w.kinds[j] = "none"
    BY <1>6 DEF Shows
  <2> HIDE DEF Left
  <2> QED BY <1>3, <1>5, <1>6, <2>1, <2>2
<1>8. ASSUME NEW k \in 0 .. n - 1, k \in A PROVE k + 1 \in A
  <2> DEFINE i == EveryTool[k + 1]
             ix == c.tools[i].block
             d == f[k]
             e == f[k + 1]
  <2>1. PICK x \in Views : /\ Path(v, d.out, x) /\ x.begun /\ x.open = Left(k)
                           /\ \A j \in Nat : j >= c.next => x.kinds[j] = "none"
    BY <1>8
  <2>2. k + 1 \in 1 .. n /\ k + 1 \in 0 .. n /\ (k + 1) - 1 = k /\ k \in 0 .. n
    BY <1>3
  <2>3. i \in ToolIndexes /\ e = CloseTool(d, i) /\ d \in Builders /\ e \in Builders
        /\ d.tools = c.tools /\ d.next = c.next
    BY <1>3, <1>5, <1>8, <2>2
  <2>4. Left(k) \ {ix} = Left(k + 1)
    <3>1. \A m \in (k + 1) + 1 .. n : m \in k + 1 .. n /\ m # k + 1
      BY <1>3
    <3>2. \A m \in k + 1 .. n : m = k + 1 \/ m \in (k + 1) + 1 .. n
      BY <1>3
    <3>3. \A m \in (k + 1) + 1 .. n :
            c.tools[EveryTool[m]].block # None => c.tools[EveryTool[m]].block # ix
      <4> TAKE m \in (k + 1) + 1 .. n
      <4>1. m \in 1 .. n /\ m # k + 1
        BY <1>3
      <4>2. EveryTool[m] # i /\ EveryTool[m] \in ToolIndexes
        BY <1>3, <2>2, <4>1, EveryToolOnce
      <4> QED BY <1>6, <2>3, <4>2 DEF Shows
    <3> HIDE DEF n
    <3> QED BY <3>1, <3>2, <3>3
  <2>5. CASE ix = None
    <3>1. e = d
      BY <2>3, <2>5 DEF CloseTool
    <3>2. Left(k) = Left(k + 1)
      <4>1. None \notin Left(k)
        OBVIOUS
      <4> HIDE DEF Left
      <4> QED BY <2>4, <2>5, <4>1
    <3> HIDE DEF Left
    <3> QED BY <1>8, <2>1, <2>2, <3>1, <3>2
  <2>6. CASE ix # None
    <3>1. ix \in x.open
      <4>1. k + 1 \in k + 1 .. n
        BY <1>3
      <4> QED BY <2>1, <2>6, <4>1
    <3> HIDE DEF Left
    <3>2. PICK y \in Views : /\ Path(x, <<StopBlock(ix)>>, y) /\ y.begun
                             /\ y.kinds = x.kinds /\ y.open = x.open \ {ix}
      BY <2>1, <3>1, PathStop
    <3>3. e = Yielding(d, <<StopBlock(ix)>>)
      BY <2>3, <2>6 DEF CloseTool
    <3>4. e.tools = d.tools /\ e.next = d.next /\ e.out = d.out \o <<StopBlock(ix)>>
      BY <2>3, <3>3 DEF Yielding, Builders
    <3>5. d.out \in Seq(Emitted) /\ <<StopBlock(ix)>> \in Seq(Emitted)
      <4>1. ix \in Int
        BY <1>1, <2>3 DEF Builders, Tools
      <4> QED BY <2>3, <4>1, EventTypes, Singletons DEF Builders
    <3>6. Path(v, e.out, y)
      <4>1. Path(v, d.out, x) /\ Path(x, <<StopBlock(ix)>>, y)
        BY <2>1, <3>2
      <4>2. Path(v, d.out \o <<StopBlock(ix)>>, y)
        <5> HIDE DEF d, ix
        <5> QED BY <3>5, <4>1, PathConcat
      <4> QED BY <3>4, <4>2
    <3>7. y.open = Left(k + 1)
      BY <2>1, <2>4, <3>2
    <3> QED BY <2>1, <2>2, <2>3, <3>2, <3>4, <3>6, <3>7
  <2> QED BY <2>5, <2>6
<1>9. n \in A
  <2> HIDE DEF A
  <2>1. 0 .. n \subseteq A
    BY <1>3, <1>7, <1>8, CloseFold!Counting
  <2> QED BY <1>3, <2>1
<1>10. Left(n) = {}
  <2>1. n + 1 .. n = {}
    BY <1>3
  <2> QED BY <2>1
<1> HIDE DEF Left
<1>11. Closes(v, f[n])
  <2>1. n \in 0 .. n
    BY <1>3
  <2> QED BY <1>9, <1>10, <2>1 DEF Closes
<1> QED BY <1>2, <1>5, <1>11

-----------------------------------------------------------------------------
(* The end of a message *)

\* The events lead from a view to the end of a message.
Ends(v, events) == \E w \in Views : Path(v, events, w) /\ WellFormed(w)

\* A builder that has closed its blocks may end the message, with or without an error.
LEMMA ClosedEnds ==
  ASSUME NEW v, NEW b, Closes(v, b)
  PROVE  Ends(v, b.out \o <<MessageDelta, MessageStop>>)
<1>1. PICK w \in Views : Path(v, b.out, w) /\ w.begun /\ w.open = {}
  BY DEF Closes
<1>2. PICK x \in Views : /\ Path(w, <<MessageDelta, MessageStop>>, x) /\ x.begun
                         /\ x.open = w.open /\ x.last = "message_stop"
  BY <1>1, PathEnd
<1>3. b.out \in Seq(Emitted) /\ <<MessageDelta, MessageStop>> \in Seq(Emitted)
  BY Pairs, EventTypes DEF Closes, Builders
<1>4. Path(v, b.out \o <<MessageDelta, MessageStop>>, x)
  BY <1>1, <1>2, <1>3, PathConcat
<1> QED BY <1>1, <1>2, <1>4 DEF Ends, WellFormed

\* A message that would be empty gets a block.
LEMMA EnsureContentBuilds ==
  ASSUME Unbounded, NEW v, NEW b, Builds(v, b)
  PROVE  Builds(v, EnsureContent(b))
BY EmitTextBuilds, EmptyText DEF EnsureContent

\* A chat answer that ends normally is a whole message ...
LEMMA FinishMessageEnds ==
  ASSUME Unbounded, NEW v, NEW b, Builds(v, b), Recording(b)
  PROVE  Ends(v, FinishMessage(b).out)
<1> DEFINE c == EnsureContent(b)
           d == FoldLeft(FlushTask, FoldLeft(FlushAlias, c, EveryTool), EveryTool)
           e == CloseAllBlocks(d)
           end == <<MessageDelta, MessageStop>>
<1>1. Builds(v, c) /\ Idle(c)
  <2>1. c.tools = b.tools
    BY EmptyText, EmitTextType DEF EnsureContent, Builds
  <2>2. Idle(c)
    BY <2>1, RecordingIdle DEF Idle
  <2> QED BY <2>2, EnsureContentBuilds
<1> HIDE DEF c
<1>2. Builds(v, d)
  BY <1>1, FlushedBuilds
<1> HIDE DEF d
<1>3. Closes(v, e)
  BY <1>2, CloseAllBlocksCloses
<1> HIDE DEF e
<1>4. FinishMessage(b) = Yielding(e, end)
  BY DEF FinishMessage, e, d, c
<1>5. FinishMessage(b).out = e.out \o end
  BY <1>3, <1>4 DEF Yielding, Closes, Builders
<1> QED BY <1>3, <1>5, ClosedEnds

\* An error block of its own.
LEMMA ErrorBlockPath ==
  ASSUME Unbounded, NEW v \in Views, v.begun, NEW ix \in Nat, v.kinds[ix] = "none"
  PROVE  \E w \in Views : Path(v, ErrorBlock(ix), w) /\ w.begun /\ w.open = v.open
<1>1. "text" \in BlockKinds
  BY DEF BlockKinds
<1>2. \E w \in Views :
        /\ Path(v, <<StartBlock(ix, "text"), DeltaBlock(ix, "text", <<>>), StopBlock(ix)>>, w)
        /\ w.begun /\ w.kinds = [v.kinds EXCEPT ![ix] = "text"] /\ w.open = v.open
  BY <1>1, PathBlock
<1> QED BY <1>2 DEF ErrorBlock

\* ... and so is one that fails, however far it got.
LEMMA FailMessageEnds ==
  ASSUME Unbounded, NEW v, NEW b, Builds(v, b)
  PROVE  Ends(v, FailMessage(b).out)
<1> DEFINE c == CloseAllBlocks(b)
           first == IF HasStartedTool(c) THEN <<TopLevelError>> ELSE ErrorBlock(c.next)
           end == <<MessageDelta, MessageStop>>
<1>1. Closes(v, c)
  BY CloseAllBlocksCloses
<1> HIDE DEF c
<1>2. PICK w \in Views : /\ Path(v, c.out, w) /\ w.begun /\ w.open = {}
                         /\ \A j \in Nat : j >= c.next => w.kinds[j] = "none"
  BY <1>1 DEF Closes
<1>3. c \in Builders /\ c.next \in Nat /\ c.next \in Int /\ c.out \in Seq(Emitted)
  BY <1>1 DEF Closes, Builders
<1>4. PICK x \in Views : Path(w, first, x) /\ x.begun /\ x.open = {}
  <2>1. CASE HasStartedTool(c)
    <3>2. \E x \in Views : Path(w, <<TopLevelError>>, x) /\ x.begun /\ x.open = w.open
      BY <1>2, PathError
    <3>3. first = <<TopLevelError>>
      BY <2>1
    <3> HIDE DEF first
    <3> QED BY <1>2, <3>2, <3>3
  <2>2. CASE ~HasStartedTool(c)
    <3>1. w.kinds[c.next] = "none"
      BY <1>2, <1>3
    <3> QED BY <1>2, <1>3, <2>2, <3>1, ErrorBlockPath
  <2> QED BY <2>1, <2>2
<1>5. first \in Seq(Emitted) /\ end \in Seq(Emitted)
  <2>1. <<TopLevelError>> \in Seq(Emitted) /\ ErrorBlock(c.next) \in Seq(Emitted)
        /\ end \in Seq(Emitted)
    BY <1>3, ErrorEvents, EventTypes, Singletons
  <2> HIDE DEF end
  <2> QED BY <2>1
<1> HIDE DEF first
<1>6. PICK y \in Views : /\ Path(x, end, y) /\ y.begun /\ y.open = x.open
                         /\ y.last = "message_stop"
  BY <1>4, PathEnd
<1> HIDE DEF end
<1>7. Path(v, c.out \o (first \o end), y)
  <2>1. Path(w, first \o end, y) /\ first \o end \in Seq(Emitted)
    BY <1>4, <1>5, <1>6, PathConcat
  <2> QED BY <1>2, <1>3, <2>1, PathConcat
<1>8. FailMessage(b) = Yielding(c, first \o end)
  BY DEF FailMessage, c, first, end
<1>9. FailMessage(b).out = c.out \o (first \o end)
  BY <1>3, <1>8 DEF Yielding, Builders
<1> QED BY <1>4, <1>6, <1>7, <1>9 DEF Ends, WellFormed

\* A message that is an error and nothing else.
LEMMA ErrorMessageEnds ==
  ASSUME Unbounded
  PROVE  Ends(Empty, ErrorMessage(FALSE))
<1> DEFINE end == <<MessageDelta, MessageStop>>
           block == ErrorBlock(0)
           start == <<MessageStart>>
<1>1. PICK w \in Views : Path(Empty, start, w) /\ w.begun /\ w.kinds = Empty.kinds /\ w.open = {}
  BY PathBegin
<1>2. w.kinds[0] = "none"
  BY <1>1, EmptyFacts DEF Unbounded
<1>3. PICK x \in Views : Path(w, block, x) /\ x.begun /\ x.open = w.open
  BY <1>1, <1>2, ErrorBlockPath
<1>4. PICK y \in Views : /\ Path(x, end, y) /\ y.begun /\ y.open = x.open
                         /\ y.last = "message_stop"
  BY <1>3, PathEnd
<1>5. start \in Seq(Emitted) /\ block \in Seq(Emitted) /\ end \in Seq(Emitted)
  BY ErrorEvents, EventTypes, Singletons
<1>6. ErrorMessage(FALSE) = (start \o block) \o end
  BY DEF ErrorMessage
<1> HIDE DEF start, block, end
<1>7. start \o block \in Seq(Emitted) /\ Path(Empty, start \o block, x)
  BY <1>1, <1>3, <1>5, PathConcat
<1>8. Path(Empty, (start \o block) \o end, y)
  BY <1>4, <1>5, <1>7, PathConcat
<1> QED BY <1>1, <1>3, <1>4, <1>6, <1>8 DEF Ends, WellFormed

\* Parts of a text.
LEMMA EmitPartBuilds ==
  ASSUME Unbounded, NEW v, NEW s \in Speakers, Builds(v, s.b), NEW part \in Parts
  PROVE  Builds(v, EmitPart(s, part).b)
<1> DEFINE tools == FeedTools(s.tools, part.text)
           c == IF tools.shown = <<>> THEN s.b ELSE EmitText(s.b, tools.shown)
           d == EmitHeuristicTools(c, tools.calls)
           e == EmitThinking(s.b, part.text)
<1>1. s.b \in Builders /\ s.tools \in ToolStates /\ part.text \in Text
      /\ s = [b |-> s.b, tools |-> s.tools]
  BY DEF Speakers, Parts
<1>2. tools.shown \in Text /\ tools.calls \in Nat
  <2>1. tools \in ToolStates
    BY <1>1, FeedToolsType
  <2> QED BY <2>1 DEF ToolStates
<1> HIDE DEF tools
<1>3. Builds(v, c)
  BY <1>2, EmitTextBuilds
<1> HIDE DEF c
<1>4. Builds(v, d)
  BY <1>2, <1>3, EmitHeuristicToolsBuilds
<1> HIDE DEF d
<1>5. Builds(v, e)
  BY <1>1, EmitThinkingBuilds
<1> HIDE DEF e
<1>6. EmitPart(s, part) = IF part.kind = "thinking"
                          THEN IF thinkingEnabled THEN [s EXCEPT !.b = e] ELSE s
                          ELSE [b |-> d, tools |-> tools]
  BY DEF EmitPart, tools, c, d, e
<1>7. [s EXCEPT !.b = e].b = e /\ [b |-> d, tools |-> tools].b = d
  BY <1>1
<1> HIDE DEF thinkingEnabled
<1> QED BY <1>4, <1>5, <1>6, <1>7

\* Whatever a chunk parses into.
LEMMA EmitPartsBuilds ==
  ASSUME Unbounded, NEW v, NEW s \in Speakers, Builds(v, s.b), NEW parts \in Seq(Parts)
  PROVE  Builds(v, FoldLeft(EmitPart, s, parts).b)
<1> DEFINE Good == {r \in Speakers : Builds(v, r.b)}
<1>1. FoldLeft(EmitPart, s, parts) = PartFold!Fold(s, parts)
  BY DEF FoldLeft, MapThenFoldSet, Max, PartFold!Fold, PartFold!Largest
<1>2. s \in Good
  OBVIOUS
<1>3. \A r \in Speakers, part \in Parts : EmitPart(r, part) \in Speakers
  BY EmitPartType
<1>4. \A r \in Speakers \cap Good, part \in Parts : EmitPart(r, part) \in Good
  BY EmitPartType, EmitPartBuilds
<1>5. PartFold!Fold(s, parts) \in Speakers \cap Good
  <2> HIDE DEF Good
  <2> QED BY <1>2, <1>3, <1>4, PartFold!FoldKeeps
<1> QED BY <1>1, <1>5

\* Whatever the parsers still hold.
LEMMA FlushedBuilderBuilds ==
  ASSUME Unbounded, NEW v, Builds(v, chat.b), chat.think \in ThinkStates,
         chat.tools \in ToolStates
  PROVE  Builds(v, FlushedBuilder)
<1> DEFINE rest == FlushThink(chat.think).parts
           n == FlushTools(chat.tools).calls
           r == RestFold!Fold(chat.b, rest)
           Good == {c \in Builders : Builds(v, c)}
<1>1. rest \in Seq(Parts) /\ n \in Nat
  <2>1. FlushThink(chat.think) \in ThinkStates /\ FlushTools(chat.tools) \in ToolStates
    BY FlushThinkType, FlushToolsType
  <2> QED BY <2>1 DEF ThinkStates, ToolStates
<1>2. ASSUME NEW c \in Builders, NEW part \in Parts
      PROVE  EmitRest(c, part) \in Builders /\ (Builds(v, c) => Builds(v, EmitRest(c, part)))
  <2>1. part.text \in Text
    BY DEF Parts
  <2> HIDE DEF thinkingEnabled
  <2> QED BY <2>1, EmitTextType, EmitThinkingType, EmitTextBuilds, EmitThinkingBuilds DEF EmitRest
<1>3. FlushedBuilder = EmitHeuristicTools(r, n)
  BY DEF FlushedBuilder, FoldLeft, MapThenFoldSet, Max, RestFold!Fold, RestFold!Largest
<1> HIDE DEF rest, n
<1>4. r \in Builders \cap Good
  <2>1. chat.b \in Builders /\ \A c \in Builders, part \in Parts : EmitRest(c, part) \in Builders
    BY <1>2 DEF Builds
  <2>2. chat.b \in Good
    BY <2>1
  <2>3. \A c \in Builders \cap Good, part \in Parts : EmitRest(c, part) \in Good
    BY <1>2
  <2> HIDE DEF Good
  <2> QED BY <1>1, <2>1, <2>2, <2>3, RestFold!FoldKeeps
<1> HIDE DEF r
<1> QED BY <1>1, <1>3, <1>4, EmitHeuristicToolsBuilds

\* A new builder shows an open message without blocks.
LEMMA FreshShows ==
  ASSUME Unbounded, NEW w \in Views, w.begun, w.open = {}, w.kinds = Empty.kinds
  PROVE  Shows(FreshBuilder, w)
<1>1. \A i \in ToolIndexes : FreshBuilder.tools[i].block = None
  BY DEF FreshBuilder, FreshTool
<1>2. FreshBuilder.thinking = None /\ FreshBuilder.text = None
  BY DEF FreshBuilder
<1>3. \A j \in Nat : w.kinds[j] = "none"
  BY EmptyFacts DEF Unbounded
<1>4. None \notin Nat
  BY DEF None
<1>5. \A j \in Nat : ~Holds(FreshBuilder, j)
  BY <1>1, <1>2, <1>4 DEF Holds
<1> QED BY <1>1, <1>2, <1>3, <1>5 DEF Shows
=============================================================================
