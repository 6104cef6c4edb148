--------------------------- MODULE ContractProofs ---------------------------
(***************************************************************************)
(* ProxyStream implements SseContract: whatever the candidates do, a       *)
(* client receives well-formed streams only.                               *)
(*                                                                         *)
(* The builder keeps to the contract by BuilderProofs. The policy of a     *)
(* native stream does, as its upstream's blocks are (Policed), and the     *)
(* tracker knows what it left open (Tracks). The events that are held or   *)
(* on their way lead the client to what the generator at work has shown    *)
(* (Leads, Stands): this holds in every state (Contracted), though the     *)
(* client is anywhere on the way, and candidates that fail are forgotten.  *)
(***************************************************************************)
EXTENDS BuilderProofs

-----------------------------------------------------------------------------
(* Blocks that are closed in a row *)

\* A finite set in order has each of its elements once.
LEMMA OrderedOnce ==
  ASSUME NEW S, IsFiniteSet(S)
  PROVE  /\ \A j, k \in 1 .. Cardinality(S) : SetToSeq(S)[j] = SetToSeq(S)[k] => j = k
         /\ \A x \in S : \E j \in 1 .. Cardinality(S) : SetToSeq(S)[j] = x
<1> DEFINE n == Cardinality(S)
           s == SetToSeq(S)
<1>1. n \in Nat /\ ExistsBijection(1 .. n, S)
  BY FS_CardinalityType
<1>2. PICK g : g \in Bijection(1 .. n, S)
  BY <1>1 DEF ExistsBijection
<1>3. s \in [1 .. n -> S] /\ IsInjective(s)
  <2>1. g \in [1 .. n -> S] /\ IsInjective(g)
    BY <1>2 DEF Bijection, Injection
  <2> QED BY <2>1 DEF SetToSeq
<1> HIDE DEF s
<1>4. s \in Injection(1 .. n, S)
  BY <1>3 DEF Injection
<1>5. Cardinality(1 .. n) = n
  BY <1>1, FS_Interval
<1>6. s \in Surjection(1 .. n, S)
  BY <1>4, <1>5, FS_Injection
<1>7. \A j, k \in 1 .. n : s[j] = s[k] => j = k
  BY <1>3 DEF IsInjective
<1>8. \A x \in S : \E j \in 1 .. n : s[j] = x
  BY <1>6 DEF Surjection
<1> QED BY <1>7, <1>8 DEF s

\* A sequence and one more.
LEMMA OneMore ==
  ASSUME NEW k \in Nat, NEW a \in Seq(Emitted), NEW b \in Seq(Emitted),
         Len(a) = k, Len(b) = k + 1, \A j \in 1 .. k : a[j] = b[j]
  PROVE  a \o <<b[k + 1]>> = b
<1> DEFINE e == b[k + 1]
           c == a \o <<e>>
<1>1. e \in Emitted
  OBVIOUS
<1> HIDE DEF e, Emitted
<1>2. c \in Seq(Emitted) /\ Len(c) = k + 1 /\ c[k + 1] = e /\ \A j \in 1 .. k : c[j] = a[j]
  BY <1>1
<1> HIDE DEF c
<1>3. \A j \in 1 .. k + 1 : j = k + 1 \/ j \in 1 .. k
  OBVIOUS
<1>4. \A j \in 1 .. k + 1 : c[j] = b[j]
  BY <1>2, <1>3 DEF e
<1>5. c = b
  BY <1>2, <1>4, SeqEqual
<1> QED BY <1>5 DEF c, e

\* The events close these blocks, open ones.
Stops(v, s, events) ==
  /\ v.begun /\ events \in Seq(Emitted)
  /\ \A j \in 1 .. Len(events) : s[j] \in v.open /\ events[j] = StopBlock(s[j])
  /\ \A j, k \in 1 .. Len(events) : s[j] = s[k] => j = k

\* Blocks that are open are closed one after the other.
LEMMA PathStops ==
  ASSUME NEW v \in Views, NEW s, NEW events, Stops(v, s, events)
  PROVE  \E w \in Views :
           /\ Path(v, events, w)
           /\ w.begun /\ w.kinds = v.kinds /\ w.open \subseteq v.open
           /\ \A i \in v.open : i \in w.open <=> \A j \in 1 .. Len(events) : s[j] # i
<1> DEFINE n == Len(events)
           Gone(k) == [j \in 1 .. k |-> StopBlock(s[j])]
           Left(k) == v.open \ {s[j] : j \in 1 .. k}
           A == {k \in 0 .. n :
                   \E w \in Views : /\ Path(v, Gone(k), w)
                                    /\ w.begun /\ w.kinds = v.kinds /\ w.open = Left(k)}
<1>0. /\ v.begun /\ n \in Nat /\ events \in Seq(Emitted)
      /\ \A j \in 1 .. n : s[j] \in v.open /\ events[j] = StopBlock(s[j])
      /\ \A j, k \in 1 .. n : s[j] = s[k] => j = k
  BY DEF Stops
<1> HIDE DEF n
<1>1. ASSUME NEW j \in 1 .. n PROVE StopBlock(s[j]) \in Emitted
  <2>1. s[j] \in Int
    BY <1>0, ViewFacts, IndexesAssumption
  <2> QED BY <2>1, EventTypes
<1>2. ASSUME NEW k \in 0 .. n PROVE Gone(k) \in Seq(Emitted) /\ Len(Gone(k)) = k
  <2>1. k \in Nat /\ \A j \in 1 .. k : StopBlock(s[j]) \in Emitted
    BY <1>0, <1>1
  <2> QED BY <2>1
<1>3. 0 \in A
  <2>1. Gone(0) = <<>>
    <3>1. 1 .. 0 = {}
      OBVIOUS
    <3> QED BY <3>1
  <2>2. Left(0) = v.open
    OBVIOUS
  <2> HIDE DEF Gone, Left
  <2> QED BY <1>0, <2>1, <2>2, PathEmpty
<1>4. ASSUME NEW k \in 0 .. n - 1, k \in A PROVE k + 1 \in A
  <2> DEFINE ix == s[k + 1]
             e == StopBlock(ix)
  <2>1. PICK w \in Views : /\ Path(v, Gone(k), w)
                           /\ w.begun /\ w.kinds = v.kinds /\ w.open = Left(k)
    BY <1>4
  <2>2. /\ k \in Nat /\ k + 1 \in 1 .. n /\ k + 1 \in 0 .. n /\ k \in 0 .. n
        /\ \A j \in 1 .. k : j \in 1 .. n /\ j # k + 1
    BY <1>0
  <2>3. ix \in w.open
    BY <1>0, <2>1, <2>2
  <2>4. PICK x \in Views : Path(w, <<e>>, x) /\ x.begun /\ x.kinds = w.kinds /\ x.open = w.open \ {ix}
    <3>1. w.begun
      BY <2>1
    <3> HIDE DEF ix
    <3> QED BY <2>3, <3>1, PathStop
  <2>5. Gone(k) \o <<e>> = Gone(k + 1)
    <3>1. /\ Gone(k) \in Seq(Emitted) /\ Len(Gone(k)) = k
          /\ Gone(k + 1) \in Seq(Emitted) /\ Len(Gone(k + 1)) = k + 1
      BY <1>2, <2>2
    <3>2. \A j \in 1 .. k : Gone(k)[j] = Gone(k + 1)[j]
      BY <2>2
    <3>3. Gone(k + 1)[k + 1] = e
      BY <2>2
    <3> HIDE DEF Gone, e
    <3> QED BY <2>2, <3>1, <3>2, <3>3, OneMore
  <2>6. Left(k) \ {ix} = Left(k + 1)
    <3>1. \A j \in 1 .. k + 1 : j = k + 1 \/ j \in 1 .. k
      BY <2>2
    <3>2. \A j \in 1 .. k : j \in 1 .. k + 1
      BY <2>2
    <3>3. k + 1 \in 1 .. k + 1
      BY <2>2
    <3> QED BY <3>1, <3>2, <3>3
  <2>7. Path(v, Gone(k) \o <<e>>, x)
    <3>1. Gone(k) \in Seq(Emitted) /\ <<e>> \in Seq(Emitted)
      BY <1>1, <1>2, <2>2, Singletons
    <3> HIDE DEF Gone, e
    <3> QED BY <2>1, <2>4, <3>1, PathConcat
  <2> HIDE DEF Gone, Left
  <2> QED BY <2>1, <2>2, <2>4, <2>5, <2>6, <2>7
<1>5. n \in A
  <2> HIDE DEF A
  <2>1. 0 .. n \subseteq A
    BY <1>0, <1>3, <1>4, CloseFold!Counting
  <2> QED BY <1>0, <2>1
<1>6. Gone(n) = events
  <2>1. n \in 0 .. n
    BY <1>0
  <2>2. Gone(n) \in Seq(Emitted) /\ Len(Gone(n)) = n
    BY <1>2, <2>1
  <2>3. \A j \in 1 .. n : Gone(n)[j] = events[j]
    BY <1>0
  <2>4. Len(events) = n
    BY DEF n
  <2> HIDE DEF Gone
  <2> QED BY <1>0, <2>2, <2>3, <2>4, SeqEqual
<1>7. PICK w \in Views : /\ Path(v, Gone(n), w)
                         /\ w.begun /\ w.kinds = v.kinds /\ w.open = Left(n)
  BY <1>5
<1>8. /\ \A i \in v.open : i \in w.open <=> \A j \in 1 .. n : s[j] # i
      /\ w.open \subseteq v.open
  BY <1>7
<1> HIDE DEF Gone
<1> QED BY <1>6, <1>7, <1>8 DEF n

-----------------------------------------------------------------------------
(* The policy of a native stream *)

\* The client knows the blocks the policy has open, as the upstream has begun them,
\* and none it will begin.
Policed(n, up, w) ==
  /\ w.begun /\ w.open \subseteq Nat
  /\ \A j \in Nat : j \in w.open <=> \E u \in Upstream : n.isOpen[u] /\ n.down[u] = j
  /\ \A u \in Upstream :
       n.isOpen[u] => /\ n.down[u] \in Nat /\ w.kinds[n.down[u]] = up[u] /\ up[u] \in BlockKinds
                      /\ u \notin n.dropped \cup n.suppressed
  /\ \A u, x \in Upstream :
       n.isOpen[u] /\ n.isOpen[x] /\ n.down[u] = n.down[x] => u = x
  /\ \A u \in n.dropped \cup n.suppressed : up[u] # "new"
  /\ \A u \in Upstream : up[u] # "new" => n.down[u] # None \/ u \in n.dropped
  /\ \A u \in Upstream : up[u] = "new" => n.down[u] = None
  /\ \A j \in Nat : j >= n.next => w.kinds[j] = "none"

\* What the policy has yielded leads to a view of what it has open.
Polices(v, n, up) == n \in Policies /\ \E w \in Views : Path(v, n.out, w) /\ Policed(n, up, w)

\* The blocks that are open are closed before another goes on.
LEMMA CloseOthersPolices ==
  ASSUME NEW v \in Views, NEW n \in Policies, n.out = <<>>, NEW up, Policed(n, up, v),
         NEW u \in Upstream
  PROVE  /\ Polices(v, CloseOthers(n, u), up)
         /\ CloseOthers(n, u).dropped = n.dropped
         /\ CloseOthers(n, u).isOpen[u] = n.isOpen[u]
<1> DEFINE others == {w \in Upstream \ {u} : n.isOpen[w]}
           m == Cardinality(others)
           s == [j \in 1 .. m |-> n.down[SetToSeq(others)[j]]]
           events == [j \in 1 .. m |-> StopBlock(s[j])]
           isOpen == [w \in Upstream |-> n.isOpen[w] /\ w \notin others]
           c == CloseOthers(n, u)
<1>1. others \subseteq Upstream /\ \A x \in others : n.isOpen[x] /\ x # u
  OBVIOUS
<1>2. IsFiniteSet(others)
  BY <1>1, UpstreamAssumption, FS_Subset
<1>3. /\ m \in Nat
      /\ \A j \in 1 .. m : SetToSeq(others)[j] \in others
      /\ \A j, k \in 1 .. m : SetToSeq(others)[j] = SetToSeq(others)[k] => j = k
      /\ \A x \in others : \E j \in 1 .. m : SetToSeq(others)[j] = x
  BY <1>2, OrderedFacts, OrderedOnce
<1>4. events = [j \in 1 .. m |-> StopBlock(n.down[SetToSeq(others)[j]])]
  OBVIOUS
<1>5. c = [n EXCEPT !.isOpen = isOpen, !.suppressed = n.suppressed \cup others,
                    !.out = n.out \o events]
  BY <1>4 DEF CloseOthers
<1>6. c \in Policies
  BY CloseOthersType
<1> HIDE DEF c
<1>7. /\ c.next = n.next /\ c.down = n.down /\ c.isOpen = isOpen /\ c.dropped = n.dropped
      /\ c.suppressed = n.suppressed \cup others
  BY <1>5 DEF Policies
<1> HIDE DEF m
<1>8. events \in Seq(Emitted)
  <2>1. \A j \in 1 .. m : StopBlock(s[j]) \in Emitted
    <3> TAKE j \in 1 .. m
    <3>1. SetToSeq(others)[j] \in Upstream
      BY <1>1, <1>3
    <3>2. s[j] \in Int
      BY <3>1 DEF Policies
    <3> QED BY <3>2, EventTypes
  <2> QED BY <1>3, <2>1
<1>9. c.out = events
  <2> HIDE DEF events
  <2>1. c.out = <<>> \o events
    BY <1>5 DEF Policies
  <2> QED BY <1>8, <2>1
<1> HIDE DEF others
<1>10. /\ v.begun /\ \A j \in 1 .. m : s[j] \in v.open
       /\ \A j, k \in 1 .. m : s[j] = s[k] => j = k
  <2>1. \A x \in others : x \in Upstream /\ n.isOpen[x] /\ n.down[x] \in v.open
    BY <1>1 DEF Policed
  <2>2. v.begun
    BY DEF Policed
  <2>3. \A j \in 1 .. m : s[j] \in v.open
    BY <1>3, <2>1
  <2>4. ASSUME NEW j \in 1 .. m, NEW k \in 1 .. m, s[j] = s[k] PROVE j = k
    <3>1. SetToSeq(others)[j] = SetToSeq(others)[k]
      BY <1>3, <2>1, <2>4 DEF Policed
    <3> QED BY <1>3, <3>1
  <2> QED BY <2>2, <2>3, <2>4
<1>11. PICK w \in Views : /\ Path(v, events, w) /\ w.begun /\ w.kinds = v.kinds
                          /\ \A i \in v.open : i \in w.open <=> \A j \in 1 .. m : s[j] # i
                          /\ w.open \subseteq v.open
  <2>1. m = Len(events) /\ \A j \in 1 .. m : events[j] = StopBlock(s[j])
    BY <1>3
  <2> HIDE DEF s, isOpen, events
  <2>2. Stops(v, s, events)
    BY <1>8, <1>10, <2>1 DEF Stops
  <2> QED BY <2>1, <2>2, PathStops
<1>12. \A i \in v.open : i \in w.open <=> \A x \in others : n.down[x] # i
  BY <1>3, <1>11
<1> HIDE DEF s, events
<1>13. ASSUME NEW j \in Nat
       PROVE  j \in w.open <=> \E x \in Upstream : c.isOpen[x] /\ c.down[x] = j
  <2>1. ASSUME j \in w.open PROVE \E x \in Upstream : c.isOpen[x] /\ c.down[x] = j
    <3>1. j \in v.open /\ \A x \in others : n.down[x] # j
      BY <1>11, <1>12, <2>1
    <3>2. PICK x \in Upstream : n.isOpen[x] /\ n.down[x] = j
      BY <3>1 DEF Policed
    <3>3. x \notin others
      BY <3>1, <3>2
    <3> QED BY <1>7, <3>2, <3>3
  <2>2. ASSUME NEW x \in Upstream, c.isOpen[x], c.down[x] = j PROVE j \in w.open
    <3>1. n.isOpen[x] /\ x \notin others /\ n.down[x] = j
      BY <1>7, <2>2
    <3>2. j \in v.open
      BY <3>1 DEF Policed
    <3>3. \A y \in others : n.down[y] # j
      BY <1>1, <3>1 DEF Policed
    <3> QED BY <1>11, <1>12, <3>2, <3>3
  <2> QED BY <2>1, <2>2
<1>14. Policed(c, up, w)
  <2>1. w.open \subseteq Nat
    BY <1>11 DEF Policed
  <2>2. ASSUME NEW x \in Upstream, c.isOpen[x]
        PROVE  /\ n.isOpen[x] /\ x \notin others
               /\ c.down[x] \in Nat /\ w.kinds[c.down[x]] = up[x] /\ up[x] \in BlockKinds
               /\ x \notin c.dropped \cup c.suppressed
    <3>1. n.isOpen[x] /\ x \notin others
      BY <1>7, <2>2
    <3> QED BY <1>7, <1>11, <3>1 DEF Policed
  <2>3. \A x, y \in Upstream : c.isOpen[x] /\ c.isOpen[y] /\ c.down[x] = c.down[y] => x = y
    BY <1>7, <2>2 DEF Policed
  <2>4. \A x \in c.dropped \cup c.suppressed : up[x] # "new"
    <3>1. \A x \in others : up[x] # "new"
      BY <1>1 DEF Policed, BlockKinds
    <3> QED BY <1>7, <3>1 DEF Policed
  <2>5. /\ \A x \in Upstream : up[x] # "new" => c.down[x] # None \/ x \in c.dropped
        /\ \A x \in Upstream : up[x] = "new" => c.down[x] = None
    BY <1>7 DEF Policed
  <2>6. \A j \in Nat : j >= c.next => w.kinds[j] = "none"
    BY <1>7, <1>11 DEF Policed
  <2> QED BY <1>11, <1>13, <2>1, <2>2, <2>3, <2>4, <2>5, <2>6 DEF Policed
<1>15. c.isOpen[u] = n.isOpen[u]
  BY <1>1, <1>7 DEF Policies
<1> QED BY <1>6, <1>7, <1>9, <1>11, <1>14, <1>15 DEF Polices, c

\* What an upstream has said of its blocks.
Ups == [Upstream -> {"new", "closed"} \cup BlockKinds]

\* The policy m is n with a block of the upstream opened.
Opens(n, m, u) ==
  /\ m.next = n.next + 1 /\ m.down = [n.down EXCEPT ![u] = n.next]
  /\ m.isOpen = [n.isOpen EXCEPT ![u] = TRUE]
  /\ m.dropped = n.dropped /\ m.suppressed = n.suppressed \ {u} /\ m.out = n.out

\* The block of the upstream gets an index of its own.
LEMMA OpensPoliced ==
  ASSUME Unbounded, NEW w \in Views, NEW n \in Policies, NEW m \in Policies,
         NEW u \in Upstream, Opens(n, m, u), NEW up \in Ups, Policed(n, up, w),
         ~n.isOpen[u], u \notin n.dropped, NEW kind \in BlockKinds
  PROVE  \E x \in Views : /\ Path(w, <<StartBlock(n.next, kind)>>, x)
                          /\ Policed(m, [up EXCEPT ![u] = kind], x)
<1> DEFINE ix == n.next
           us == [up EXCEPT ![u] = kind]
<1>1. ix \in Nat /\ ix \in Indexes /\ kind \in MadeKinds /\ w.kinds[ix] = "none" /\ w.begun
  BY DEF Policies, Unbounded, BlockKinds, MadeKinds, Policed
<1>2. ix \notin w.open
  BY <1>1, PathStart
<1>3. PICK x \in Views : /\ Path(w, <<StartBlock(ix, kind)>>, x) /\ x.begun
                         /\ x.kinds = [w.kinds EXCEPT ![ix] = kind] /\ x.open = w.open \cup {ix}
  BY <1>1, PathStart
<1>4. us[u] = kind /\ \A y \in Upstream \ {u} : us[y] = up[y]
  BY DEF Ups
<1>5. /\ m.next = ix + 1 /\ m.down[u] = ix /\ m.isOpen[u]
      /\ \A y \in Upstream \ {u} : m.down[y] = n.down[y] /\ m.isOpen[y] = n.isOpen[y]
      /\ m.dropped = n.dropped /\ m.suppressed = n.suppressed \ {u}
  BY DEF Opens, Policies
<1>6. x.kinds[ix] = kind /\ \A j \in Nat \ {ix} : x.kinds[j] = w.kinds[j]
  BY <1>1, <1>3, ViewFacts DEF Unbounded
<1> HIDE DEF us
<1>7. \A y \in Upstream : n.isOpen[y] => y # u /\ n.down[y] # ix
  <2> SUFFICES ASSUME NEW y \in Upstream, n.isOpen[y] PROVE y # u /\ n.down[y] # ix
    OBVIOUS
  <2>1. n.down[y] \in Nat
    BY DEF Policed
  <2>2. n.down[y] \in w.open
    BY <2>1 DEF Policed
  <2> QED BY <1>2, <2>2
<1> HIDE DEF ix
<1>8. ASSUME NEW j \in Nat
      PROVE  j \in x.open <=> \E y \in Upstream : m.isOpen[y] /\ m.down[y] = j
  <2>1. CASE j = ix
    BY <1>3, <1>5, <2>1
  <2>2. CASE j # ix
    <3>1. j \in x.open <=> j \in w.open
      BY <1>3, <2>2
    <3>2. ASSUME j \in w.open PROVE \E y \in Upstream : m.isOpen[y] /\ m.down[y] = j
      <4>1. PICK y \in Upstream : n.isOpen[y] /\ n.down[y] = j
        BY <3>2 DEF Policed
      <4> QED BY <1>5, <1>7, <4>1
    <3>3. ASSUME NEW y \in Upstream, m.isOpen[y], m.down[y] = j PROVE j \in w.open
      <4>1. y # u
        BY <1>5, <2>2, <3>3
      <4> QED BY <1>5, <3>3, <4>1 DEF Policed
    <3> QED BY <3>1, <3>2, <3>3
  <2> QED BY <2>1, <2>2
<1>9. ASSUME NEW y \in Upstream, m.isOpen[y]
      PROVE  /\ m.down[y] \in Nat /\ x.kinds[m.down[y]] = us[y] /\ us[y] \in BlockKinds
             /\ y \notin m.dropped \cup m.suppressed
  <2>1. CASE y = u
    BY <1>1, <1>4, <1>5, <1>6, <2>1
  <2>2. CASE y # u
    <3>1. n.isOpen[y] /\ m.down[y] = n.down[y] /\ us[y] = up[y]
      BY <1>4, <1>5, <1>9, <2>2
    <3>2. m.down[y] # ix
      BY <1>7, <3>1
    <3> QED BY <1>5, <1>6, <3>1, <3>2 DEF Policed
  <2> QED BY <2>1, <2>2
<1>10. ASSUME NEW y \in Upstream, NEW z \in Upstream,
              m.isOpen[y], m.isOpen[z], m.down[y] = m.down[z]
       PROVE  y = z
  <2>1. CASE y = u
    <3>1. z # u => n.isOpen[z] /\ n.down[z] = ix
      BY <1>5, <1>10, <2>1
    <3> QED BY <1>7, <2>1, <3>1
  <2>2. CASE z = u
    <3>1. y # u => n.isOpen[y] /\ n.down[y] = ix
      BY <1>5, <1>10, <2>2
    <3> QED BY <1>7, <2>2, <3>1
  <2>3. CASE y # u /\ z # u
    BY <1>5, <1>10, <2>3 DEF Policed
  <2> QED BY <2>1, <2>2, <2>3
<1>11. \A y \in m.dropped \cup m.suppressed : us[y] # "new"
  <2> SUFFICES ASSUME NEW y \in m.dropped \cup m.suppressed PROVE us[y] # "new"
    OBVIOUS
  <2>1. y \in n.dropped \cup n.suppressed /\ y \in Upstream /\ y # u
    BY <1>5 DEF Policies
  <2> QED BY <1>4, <2>1 DEF Policed
<1>12. /\ \A y \in Upstream : us[y] # "new" => m.down[y] # None \/ y \in m.dropped
       /\ \A y \in Upstream : us[y] = "new" => m.down[y] = None
  <2>1. ix # None /\ kind # "new"
    BY <1>1 DEF None, BlockKinds
  <2> QED BY <1>4, <1>5, <2>1 DEF Policed
<1>13. \A j \in Nat : j >= m.next => x.kinds[j] = "none"
  <2> SUFFICES ASSUME NEW j \in Nat, j >= m.next PROVE x.kinds[j] = "none"
    OBVIOUS
  <2>1. j # ix /\ j >= n.next
    BY <1>1, <1>5 DEF ix
  <2> QED BY <1>6, <2>1 DEF Policed
<1>14. x.open \subseteq Nat
  BY <1>1, <1>3 DEF Policed
<1>15. Policed(m, us, x)
  BY <1>3, <1>8, <1>9, <1>10, <1>11, <1>12, <1>13, <1>14 DEF Policed
<1> QED BY <1>3, <1>15 DEF ix, us

\* A block gets a delta.
LEMMA DeltaPoliced ==
  ASSUME NEW w \in Views, NEW n \in Policies, NEW up, Policed(n, up, w),
         NEW u \in Upstream, n.isOpen[u]
  PROVE  \E x \in Views : /\ Path(w, <<DeltaBlock(n.down[u], up[u], <<>>)>>, x)
                          /\ Policed(n, up, x)
<1> DEFINE ix == n.down[u]
           kind == up[u]
<1>1. w.begun /\ ix \in w.open /\ kind \in BlockKinds /\ w.kinds[ix] = kind
  BY DEF Policed
<1> HIDE DEF ix, kind
<1>2. PICK x \in Views : /\ Path(w, <<DeltaBlock(ix, kind, <<>>)>>, x)
                         /\ x.begun /\ x.kinds = w.kinds /\ x.open = w.open
  BY <1>1, PathDelta, EmptyText
<1>3. Policed(n, up, x)
  BY <1>2 DEF Policed
<1> QED BY <1>2, <1>3 DEF ix, kind

\* Both ways a block gets its index.
LEMMA AllocateOpens ==
  ASSUME NEW n \in Policies, NEW u \in Upstream
  PROVE  /\ Reopen(n, u) \in Policies /\ Opens(n, Reopen(n, u), u)
         /\ u \notin n.suppressed => Opens(n, Allocate(n, u), u)
<1> DEFINE a == Allocate(n, u)
           r == Reopen(n, u)
<1>1. a \in Policies
  BY AllocateType
<1>2. /\ a.next = n.next + 1 /\ a.down = [n.down EXCEPT ![u] = n.next]
      /\ a.isOpen = [n.isOpen EXCEPT ![u] = TRUE]
      /\ a.dropped = n.dropped /\ a.suppressed = n.suppressed /\ a.out = n.out
  BY DEF Allocate, Policies
<1>3. r = [a EXCEPT !.suppressed = @ \ {u}]
  BY DEF Reopen
<1> HIDE DEF a, r
<1>4. r \in Policies
  BY <1>1, <1>3 DEF Policies
<1>5. Opens(n, r, u)
  BY <1>1, <1>2, <1>3 DEF Opens, Policies
<1>6. u \notin n.suppressed => Opens(n, a, u)
  <2>1. u \notin n.suppressed => n.suppressed \ {u} = n.suppressed
    OBVIOUS
  <2> QED BY <1>2, <2>1 DEF Opens
<1> QED BY <1>4, <1>5, <1>6 DEF a, r

\* More events, from the view of those yielded.
LEMMA PolicesMore ==
  ASSUME NEW v \in Views, NEW n \in Policies, NEW events \in Seq(Emitted), NEW up,
         NEW w \in Views, Path(v, n.out, w),
         NEW x \in Views, Path(w, events, x), Policed(n, up, x)
  PROVE  Polices(v, Yielding(n, events), up)
<1> DEFINE m == Yielding(n, events)
<1>1. m \in Policies
  BY PolicyYields
<1>2. /\ m.out = n.out \o events /\ m.next = n.next /\ m.down = n.down /\ m.isOpen = n.isOpen
      /\ m.dropped = n.dropped /\ m.suppressed = n.suppressed
  BY DEF Yielding, Policies
<1> HIDE DEF m
<1>3. n.out \in Seq(Emitted)
  BY DEF Policies
<1>4. Path(v, m.out, x)
  BY <1>2, <1>3, PathConcat
<1>5. Policed(m, up, x)
  BY <1>2 DEF Policed
<1> QED BY <1>1, <1>4, <1>5 DEF Polices, m

\* What the policy makes of the upstream's events: a block begins ...
LEMMA PolicyStartPolices ==
  ASSUME Unbounded, NEW v \in Views, NEW n \in Policies, n.out = <<>>, NEW up \in Ups,
         Policed(n, up, v), NEW u \in Upstream, up[u] = "new", NEW kind \in BlockKinds,
         NEW thinks
  PROVE  Polices(v, PolicyStart(n, u, kind, thinks), [up EXCEPT ![u] = kind])
<1> DEFINE us == [up EXCEPT ![u] = kind]
           c == CloseOthers(n, u)
           m == Allocate(c, u)
<1>1. us[u] = kind /\ kind # "new" /\ \A y \in Upstream \ {u} : us[y] = up[y]
  BY DEF Ups, BlockKinds
<1>2. ~n.isOpen[u] /\ u \notin n.dropped
  BY DEF Policed, BlockKinds
<1>3. CASE Hidden(kind, thinks)
  <2> DEFINE d == [n EXCEPT !.dropped = @ \cup {u}]
  <2>1. /\ d \in Policies /\ d.out = <<>> /\ d.next = n.next /\ d.down = n.down
        /\ d.isOpen = n.isOpen /\ d.dropped = n.dropped \cup {u} /\ d.suppressed = n.suppressed
    BY DEF Policies
  <2> HIDE DEF d, us
  <2>2. Policed(d, us, v)
    <3>1. /\ v.begun /\ v.open \subseteq Nat
          /\ \A j \in Nat : j \in v.open <=> \E y \in Upstream : d.isOpen[y] /\ d.down[y] = j
          /\ \A j \in Nat : j >= d.next => v.kinds[j] = "none"
      BY <2>1 DEF Policed
    <3>2. ASSUME NEW y \in Upstream, d.isOpen[y]
          PROVE  /\ d.down[y] \in Nat /\ v.kinds[d.down[y]] = us[y] /\ us[y] \in BlockKinds
                 /\ y \notin d.dropped \cup d.suppressed
      <4>1. y # u /\ us[y] = up[y]
        BY <1>1, <1>2, <2>1, <3>2
      <4> QED BY <2>1, <3>2, <4>1 DEF Policed
    <3>3. \A x, y \in Upstream : d.isOpen[x] /\ d.isOpen[y] /\ d.down[x] = d.down[y] => x = y
      BY <2>1 DEF Policed
    <3>4. \A y \in d.dropped \cup d.suppressed : us[y] # "new"
      <4> SUFFICES ASSUME NEW y \in d.dropped \cup d.suppressed, y # u PROVE us[y] # "new"
        BY <1>1
      <4>1. y \in n.dropped \cup n.suppressed /\ y \in Upstream
        BY <2>1 DEF Policies
      <4> QED BY <1>1, <4>1 DEF Policed
    <3>5. /\ \A y \in Upstream : us[y] # "new" => d.down[y] # None \/ y \in d.dropped
          /\ \A y \in Upstream : us[y] = "new" => d.down[y] = None
      BY <1>1, <2>1 DEF Policed
    <3> QED BY <3>1, <3>2, <3>3, <3>4, <3>5 DEF Policed
  <2>3. PolicyStart(n, u, kind, thinks) = d
    BY <1>3 DEF PolicyStart, d
  <2> QED BY <2>1, <2>2, <2>3, PathEmpty DEF Polices, us
<1>4. CASE ~Hidden(kind, thinks)
  <2>1. Polices(v, c, up) /\ c.dropped = n.dropped /\ c.isOpen[u] = n.isOpen[u]
    BY CloseOthersPolices
  <2>2. c \in Policies
    BY <2>1 DEF Polices
  <2>3. PolicyStart(n, u, kind, thinks) = Yielding(m, <<StartBlock(m.down[u], kind)>>)
    BY <1>4 DEF PolicyStart
  <2> HIDE DEF c
  <2>4. PICK w \in Views : Path(v, c.out, w) /\ Policed(c, up, w)
    BY <2>1 DEF Polices
  <2>5. u \notin c.suppressed
    BY <2>4 DEF Policed
  <2>6. m \in Policies /\ Opens(c, m, u)
    BY <2>2, <2>5, AllocateOpens, AllocateType
  <2> HIDE DEF m
  <2>7. m.down[u] = c.next /\ m.out = c.out /\ c.next \in Int
    BY <2>2, <2>6 DEF Opens, Policies
  <2>8. PICK x \in Views : Path(w, <<StartBlock(c.next, kind)>>, x) /\ Policed(m, us, x)
    BY <1>2, <2>1, <2>2, <2>4, <2>6, OpensPoliced
  <2> HIDE DEF us
  <2>9. <<StartBlock(c.next, kind)>> \in Seq(Emitted)
    BY <2>7, BlockEvents
  <2>10. Polices(v, Yielding(m, <<StartBlock(c.next, kind)>>), us)
    BY <2>4, <2>6, <2>7, <2>8, <2>9, PolicesMore
  <2> QED BY <2>3, <2>7, <2>10 DEF us
<1> QED BY <1>3, <1>4

\* A block that is not closed otherwise is open or was closed for another, or nobody
\* started it; of none that nobody started thinking is let through.
LEMMA PolicyDeltaPolices ==
  ASSUME Unbounded, NEW v \in Views, NEW n \in Policies, n.out = <<>>, NEW up \in Ups,
         Policed(n, up, v), NEW u \in Upstream, NEW kind \in BlockKinds,
         up[u] \in {kind, "new"}, NEW thinks, ~PassesDelta(n, u, kind, thinks)
  PROVE  Polices(v, PolicyDelta(n, u, kind, thinks),
                 [up EXCEPT ![u] = IF kind = "thinking" THEN @ ELSE kind])
<1> DEFINE us == [up EXCEPT ![u] = kind]
           r == Reopen(n, u)
           quiet == u \in n.dropped \/ Hidden(kind, thinks)
           passes == PassesDelta(n, u, kind, thinks)
           ix == n.next
<1>0. [up EXCEPT ![u] = IF kind = "thinking" THEN @ ELSE kind]
        = IF kind = "thinking" THEN up ELSE us
  <2>1. kind = "thinking" => [up EXCEPT ![u] = up[u]] = up
    BY DEF Ups
  <2> QED BY <2>1
<1>1. up[u] = kind => us = up
  BY DEF Ups
<1>2. quiet => up[u] = kind \/ kind = "thinking"
  BY DEF Hidden, Policed
<1>3. ~quiet /\ kind = "thinking" => up[u] = kind
  <2> SUFFICES ASSUME ~quiet, kind = "thinking", up[u] = "new" PROVE FALSE
    OBVIOUS
  <2>1. n.down[u] = None
    BY DEF Policed
  <2> QED BY <2>1 DEF PassesDelta, Hidden
<1>00. ~quiet => us = [up EXCEPT ![u] = IF kind = "thinking" THEN @ ELSE kind]
  <2> HIDE DEF us, quiet
  <2> QED BY <1>0, <1>1, <1>3
<1>4. Path(v, n.out, v)
  BY PathEmpty
<1>5. CASE quiet
  <2>1. PolicyDelta(n, u, kind, thinks) = n
    BY <1>5 DEF PolicyDelta
  <2>2. Polices(v, n, up)
    BY <1>4 DEF Polices
  <2>3. [up EXCEPT ![u] = IF kind = "thinking" THEN @ ELSE kind] = up
    <3> HIDE DEF us, quiet
    <3> QED BY <1>0, <1>1, <1>2, <1>5
  <2> QED BY <2>1, <2>2, <2>3
<1>6. CASE ~quiet /\ n.isOpen[u]
  <2>1. PolicyDelta(n, u, kind, thinks) = Yielding(n, <<DeltaBlock(n.down[u], kind, <<>>)>>)
    BY <1>6 DEF PolicyDelta
  <2>2. up[u] = kind /\ n.down[u] \in Int
    BY <1>6 DEF Policed, BlockKinds
  <2>3. PICK x \in Views : Path(v, <<DeltaBlock(n.down[u], kind, <<>>)>>, x) /\ Policed(n, up, x)
    BY <1>6, <2>2, DeltaPoliced
  <2>4. <<DeltaBlock(n.down[u], kind, <<>>)>> \in Seq(Emitted)
    BY <2>2, BlockEvents
  <2>5. Polices(v, Yielding(n, <<DeltaBlock(n.down[u], kind, <<>>)>>), up)
    BY <1>4, <2>3, <2>4, PolicesMore
  <2> QED BY <1>1, <1>00, <1>6, <2>1, <2>2, <2>5
<1>7. CASE ~quiet /\ ~n.isOpen[u]
  <2> DEFINE a == StartBlock(ix, kind)
             b == DeltaBlock(ix, kind, <<>>)
  <2>1. PolicyDelta(n, u, kind, thinks)
          = Yielding(r, <<StartBlock(r.down[u], kind), DeltaBlock(r.down[u], kind, <<>>)>>)
    BY <1>7 DEF PolicyDelta
  <2>2. r \in Policies /\ Opens(n, r, u)
    BY AllocateOpens
  <2> HIDE DEF r
  <2>3. r.down[u] = ix /\ r.isOpen[u] /\ r.out = n.out /\ ix \in Int /\ us[u] = kind
    BY <2>2 DEF Opens, Policies, Ups
  <2>4. PICK x \in Views : Path(v, <<a>>, x) /\ Policed(r, us, x)
    BY <1>7, <2>2, OpensPoliced
  <2> HIDE DEF us
  <2>5. PICK y \in Views : Path(x, <<b>>, y) /\ Policed(r, us, y)
    <3>1. \E y \in Views : Path(x, <<DeltaBlock(r.down[u], us[u], <<>>)>>, y) /\ Policed(r, us, y)
      BY <2>2, <2>3, <2>4, DeltaPoliced
    <3> QED BY <2>3, <3>1
  <2>6. /\ <<a>> \in Seq(Emitted) /\ <<b>> \in Seq(Emitted) /\ <<a, b>> \in Seq(Emitted)
        /\ <<a>> \o <<b>> = <<a, b>>
    <3>1. a \in Emitted /\ b \in Emitted
      BY <2>3, EventTypes, EmptyText DEF BlockKinds
    <3> HIDE DEF a, b
    <3> QED BY <3>1, Pairs, Singletons
  <2> HIDE DEF a, b
  <2>7. Path(v, <<a, b>>, y)
    BY <2>4, <2>5, <2>6, PathConcat
  <2>8. Polices(v, Yielding(r, <<a, b>>), us)
    BY <1>4, <2>2, <2>3, <2>5, <2>6, <2>7, PolicesMore
  <2>9. us = [up EXCEPT ![u] = IF kind = "thinking" THEN @ ELSE kind]
    BY <1>00, <1>7
  <2> QED BY <2>1, <2>3, <2>8, <2>9 DEF a, b
<1> QED BY <1>5, <1>6, <1>7

\* No end of a block nobody started is let through.
LEMMA StopOfNone ==
  ASSUME NEW v \in Views, NEW n \in Policies, n.out = <<>>, NEW up \in Ups,
         Policed(n, up, v), NEW u \in Upstream, up[u] = "new", NEW thinks,
         ~PassesStop(n, u, thinks)
  PROVE  Polices(v, PolicyStop(n, u, thinks), up)
<1>1. u \notin n.dropped \cup n.suppressed /\ ~n.isOpen[u]
  BY DEF Policed, BlockKinds
<1>2. PolicyStop(n, u, thinks) = n
  BY <1>1 DEF PolicyStop
<1> QED BY <1>2, PathEmpty DEF Polices

\* A block is closed once, however often the upstream closes it.
LEMMA PolicyStopPolices ==
  ASSUME Unbounded, NEW v \in Views, NEW n \in Policies, n.out = <<>>, NEW up \in Ups,
         Policed(n, up, v), NEW u \in Upstream, up[u] # "new", NEW thinks
  PROVE  Polices(v, PolicyStop(n, u, thinks), [up EXCEPT ![u] = "closed"])
<1> DEFINE us == [up EXCEPT ![u] = "closed"]
           ix == n.down[u]
<1>1. us[u] = "closed" /\ \A y \in Upstream \ {u} : us[y] = up[y]
  BY DEF Ups
<1>2. Path(v, n.out, v)
  BY PathEmpty
<1>3. ASSUME NEW m \in Policies, NEW w \in Views, ~m.isOpen[u], w.begun, w.kinds = v.kinds,
             m.next = n.next, m.down = n.down, m.dropped = n.dropped,
             m.suppressed \subseteq n.suppressed,
             \A y \in Upstream \ {u} : m.isOpen[y] = n.isOpen[y],
             IF n.isOpen[u] THEN w.open = v.open \ {ix} ELSE w.open = v.open
      PROVE  Policed(m, us, w)
  <2> HIDE DEF us
  <2>1. \A y \in Upstream : m.isOpen[y] => n.isOpen[y] /\ y # u
    BY <1>3
  <2>2. ASSUME NEW y \in Upstream, m.isOpen[y]
        PROVE  /\ m.down[y] \in Nat /\ w.kinds[m.down[y]] = us[y] /\ us[y] \in BlockKinds
               /\ y \notin m.dropped \cup m.suppressed
    <3>1. n.isOpen[y] /\ us[y] = up[y]
      BY <1>1, <2>1, <2>2
    <3> QED BY <1>3, <3>1 DEF Policed
  <2>3. ASSUME NEW j \in Nat
        PROVE  j \in w.open <=> \E y \in Upstream : m.isOpen[y] /\ m.down[y] = j
    <3>1. ASSUME j \in w.open PROVE \E y \in Upstream : m.isOpen[y] /\ m.down[y] = j
      <4>1. j \in v.open /\ (n.isOpen[u] => j # ix)
        BY <1>3, <3>1
      <4>2. PICK y \in Upstream : n.isOpen[y] /\ n.down[y] = j
        BY <4>1 DEF Policed
      <4>3. y # u
        BY <4>1, <4>2
      <4> QED BY <1>3, <4>2, <4>3
    <3>2. ASSUME NEW y \in Upstream, m.isOpen[y], m.down[y] = j PROVE j \in w.open
      <4>1. n.isOpen[y] /\ y # u /\ n.down[y] = j
        BY <1>3, <2>1, <3>2
      <4>2. j \in v.open
        BY <4>1 DEF Policed
      <4>3. n.isOpen[u] => j # ix
        BY <4>1 DEF Policed
      <4> QED BY <1>3, <4>2, <4>3
    <3> QED BY <3>1, <3>2
  <2>4. \A x, y \in Upstream : m.isOpen[x] /\ m.isOpen[y] /\ m.down[x] = m.down[y] => x = y
    BY <1>3, <2>1 DEF Policed
  <2>5. \A y \in m.dropped \cup m.suppressed : us[y] # "new"
    <3> SUFFICES ASSUME NEW y \in m.dropped \cup m.suppressed, y # u PROVE us[y] # "new"
      BY <1>1
    <3>1. y \in n.dropped \cup n.suppressed /\ y \in Upstream
      BY <1>3 DEF Policies
    <3> QED BY <1>1, <3>1 DEF Policed
  <2>6. /\ \A y \in Upstream : us[y] # "new" => m.down[y] # None \/ y \in m.dropped
        /\ \A y \in Upstream : us[y] = "new" => m.down[y] = None
    BY <1>1, <1>3 DEF Policed
  <2>7. w.open \subseteq Nat
    BY <1>3 DEF Policed
  <2>8. \A j \in Nat : j >= m.next => w.kinds[j] = "none"
    BY <1>3 DEF Policed
  <2> QED BY <1>3, <2>2, <2>3, <2>4, <2>5, <2>6, <2>7, <2>8 DEF Policed
<1> HIDE DEF us
<1>4. CASE ~n.isOpen[u]
  <2> DEFINE d == [n EXCEPT !.suppressed = @ \ {u}]
  <2>1. u \notin n.dropped => ix # None
    BY DEF Policed
  <2>2. /\ d \in Policies /\ d.out = <<>> /\ d.isOpen = n.isOpen /\ d.next = n.next
        /\ d.down = n.down /\ d.dropped = n.dropped /\ d.suppressed \subseteq n.suppressed
    BY DEF Policies
  <2>3. PolicyStop(n, u, thinks) = n \/ PolicyStop(n, u, thinks) = d
    BY <1>4, <2>1 DEF PolicyStop, PassesStop
  <2> HIDE DEF d
  <2>4. v.begun
    BY DEF Policed
  <2>5. Policed(n, us, v) /\ Policed(d, us, v)
    <3>1. Policed(n, us, v)
      BY <1>3, <1>4, <2>4
    <3>2. Policed(d, us, v)
      BY <1>3, <1>4, <2>2, <2>4
    <3> QED BY <3>1, <3>2
  <2>6. Polices(v, n, us) /\ Polices(v, d, us)
    BY <1>2, <2>2, <2>5 DEF Polices
  <2> QED BY <2>3, <2>6 DEF us
<1>5. CASE n.isOpen[u]
  <2> DEFINE c == [n EXCEPT !.isOpen[u] = FALSE]
  <2>1. u \notin n.dropped \cup n.suppressed /\ v.begun /\ ix \in v.open /\ ix \in Int
        /\ ix # None
    BY <1>5 DEF Policed, None
  <2>2. PolicyStop(n, u, thinks) = Yielding(c, <<StopBlock(ix)>>)
    <3>1. n.down[u] # None
      BY <2>1
    <3> QED BY <1>5, <2>1, <3>1 DEF PolicyStop, PassesStop
  <2>3. /\ c \in Policies /\ c.out = n.out /\ ~c.isOpen[u] /\ c.next = n.next
        /\ c.down = n.down /\ c.dropped = n.dropped /\ c.suppressed = n.suppressed
        /\ \A y \in Upstream \ {u} : c.isOpen[y] = n.isOpen[y]
    BY DEF Policies
  <2> HIDE DEF c
  <2>4. PICK w \in Views : /\ Path(v, <<StopBlock(ix)>>, w)
                           /\ w.begun /\ w.kinds = v.kinds /\ w.open = v.open \ {ix}
    <3> HIDE DEF ix
    <3> QED BY <2>1, PathStop
  <2>5. Policed(c, us, w)
    BY <1>3, <1>5, <2>3, <2>4
  <2>6. <<StopBlock(ix)>> \in Seq(Emitted)
    BY <2>1, BlockEvents DEF BlockKinds
  <2> HIDE DEF ix
  <2>7. Polices(v, Yielding(c, <<StopBlock(ix)>>), us)
    BY <1>2, <2>3, <2>4, <2>5, <2>6, PolicesMore
  <2> QED BY <2>2, <2>7 DEF us, ix
<1> QED BY <1>4, <1>5

-----------------------------------------------------------------------------
(* The tracker *)

\* The tracker has each open block once, and no block is above its largest index.
Tracks(t, v) ==
  /\ t \in Trackers /\ t.max >= -1
  /\ \A j \in 1 .. Len(t.stack) : t.stack[j] \in v.open
  /\ \A j, k \in 1 .. Len(t.stack) : t.stack[j] = t.stack[k] => j = k
  /\ \A i \in v.open : \E j \in 1 .. Len(t.stack) : t.stack[j] = i
  /\ \A j \in Nat : j > t.max => v.kinds[j] = "none"

\* Of a sequence that has the block once, the rest.
LEMMA ClosedFacts ==
  ASSUME NEW stack \in Seq(Int), NEW p \in 1 .. Len(stack),
         \A j \in 1 .. Len(stack) : stack[j] = stack[p] => j = p
  PROVE  /\ Closed(stack, stack[p]) \in Seq(Int)
         /\ Len(Closed(stack, stack[p])) = Len(stack) - 1
         /\ \A j \in 1 .. Len(stack) - 1 :
              Closed(stack, stack[p])[j] = stack[IF j < p THEN j ELSE j + 1]
<1> DEFINE n == Len(stack)
           at == {j \in DOMAIN stack : stack[j] = stack[p]}
           a == SubSeq(stack, 1, p - 1)
           b == SubSeq(stack, p + 1, n)
           r == a \o b
<1>1. n \in Nat /\ p \in Nat /\ p >= 1 /\ p <= n /\ DOMAIN stack = 1 .. n
  OBVIOUS
<1>2. at = {p}
  BY <1>1
<1>3. Min(at) = p
  <2>1. at \in SUBSET Nat /\ at # {}
    BY <1>1, <1>2
  <2>2. Min(at) \in at
    BY <2>1, MinFacts
  <2> QED BY <1>2, <2>2
<1>4. Closed(stack, stack[p]) = RemoveAt(stack, p)
  <2>1. (IF Len(stack) \in at THEN Len(stack) ELSE Min(at)) = p
    BY <1>2, <1>3
  <2>2. Closed(stack, stack[p])
          = IF at = {} THEN stack
            ELSE RemoveAt(stack, IF Len(stack) \in at THEN Len(stack) ELSE Min(at))
    BY DEF Closed
  <2>3. at # {}
    BY <1>2
  <2> HIDE DEF at
  <2> QED BY <2>1, <2>2, <2>3
<1>5. RemoveAt(stack, p) = r
  BY DEF RemoveAt
<1> HIDE DEF n
<1>6. a \in Seq(Int) /\ Len(a) = p - 1 /\ \A j \in 1 .. p - 1 : a[j] = stack[j]
  <2>1. 1 \in Int /\ p - 1 \in Int /\ \A i \in 1 .. p - 1 : stack[i] \in Int
    BY <1>1
  <2>2. /\ a \in Seq(Int) /\ Len(a) = (IF 1 <= p - 1 THEN (p - 1) - 1 + 1 ELSE 0)
        /\ \A i \in 1 .. (p - 1) - 1 + 1 : a[i] = stack[1 + i - 1]
    BY <2>1, SubSeqProperties
  <2> HIDE DEF a
  <2>3. (p - 1) - 1 + 1 = p - 1 /\ \A i \in 1 .. p - 1 : 1 + i - 1 = i
    BY <1>1
  <2> QED BY <1>1, <2>2, <2>3
<1>7. b \in Seq(Int) /\ Len(b) = n - p /\ \A j \in 1 .. n - p : b[j] = stack[p + j]
  <2>1. p + 1 \in Int /\ n \in Int /\ \A i \in p + 1 .. n : stack[i] \in Int
    BY <1>1
  <2>2. /\ b \in Seq(Int) /\ Len(b) = (IF p + 1 <= n THEN n - (p + 1) + 1 ELSE 0)
        /\ \A i \in 1 .. n - (p + 1) + 1 : b[i] = stack[(p + 1) + i - 1]
    <3> DEFINE k == p + 1
    <3>1. k \in Int /\ n \in Int /\ \A i \in k .. n : stack[i] \in Int
      BY <2>1
    <3> HIDE DEF k, n
    <3>2. /\ SubSeq(stack, k, n) \in Seq(Int)
          /\ Len(SubSeq(stack, k, n)) = (IF k <= n THEN n - k + 1 ELSE 0)
          /\ \A i \in 1 .. n - k + 1 : SubSeq(stack, k, n)[i] = stack[k + i - 1]
      BY ONLY <3>1, SubSeqProperties
    <3> QED BY <3>2 DEF k
  <2> HIDE DEF b
  <2>3. n - (p + 1) + 1 = n - p /\ \A i \in 1 .. n - p : (p + 1) + i - 1 = p + i
    BY <1>1
  <2> QED BY <1>1, <2>2, <2>3
<1> HIDE DEF a, b
<1>8. /\ r \in Seq(Int) /\ Len(r) = n - 1
      /\ \A j \in 1 .. n - 1 : r[j] = IF j < p THEN a[j] ELSE b[j - (p - 1)]
  <2>1. /\ r \in Seq(Int) /\ Len(r) = Len(a) + Len(b)
        /\ \A j \in 1 .. Len(a) + Len(b) :
             r[j] = IF j <= Len(a) THEN a[j] ELSE b[j - Len(a)]
    BY <1>6, <1>7, ConcatProperties
  <2> HIDE DEF r
  <2>2. Len(a) + Len(b) = n - 1 /\ \A j \in 1 .. n - 1 : j <= Len(a) <=> j < p
    BY <1>1, <1>6, <1>7
  <2> QED BY <1>6, <2>1, <2>2
<1> HIDE DEF r
<1>9. ASSUME NEW j \in 1 .. n - 1 PROVE r[j] = stack[IF j < p THEN j ELSE j + 1]
  <2>1. CASE j < p
    <3>1. j \in 1 .. p - 1
      BY <1>1, <2>1
    <3> QED BY <1>6, <1>8, <2>1, <3>1
  <2>2. CASE ~(j < p)
    <3>1. j - (p - 1) \in 1 .. n - p /\ p + (j - (p - 1)) = j + 1
      BY <1>1, <2>2
    <3>2. b[j - (p - 1)] = stack[p + (j - (p - 1))]
      BY <1>7, <3>1
    <3> QED BY <1>8, <2>2, <3>1, <3>2
  <2> QED BY <2>1, <2>2
<1> QED BY <1>4, <1>5, <1>8, <1>9 DEF n

\* One event, which its view allows.
LEMMA TracksOne ==
  ASSUME Unbounded, NEW v \in Views, NEW t, Tracks(t, v), NEW e \in Emitted, Sound(v, e)
  PROVE  Tracks(Observe(t, e), After(v, e))
<1> DEFINE w == After(v, e)
           r == Observe(t, e)
           n == Len(t.stack)
<1>1. t \in Trackers /\ t.stack \in Seq(Int) /\ n \in Nat /\ t.max \in Int /\ e.ix \in Int
  <2>1. t \in Trackers
    BY DEF Tracks
  <2>2. t.stack \in Seq(Int) /\ t.max \in Int
    BY <2>1 DEF Trackers
  <2>3. e.ix \in Int
    BY DEF Emitted
  <2> QED BY <2>1, <2>2, <2>3
<1>2. r \in Trackers
  BY <1>1, ObserveType
<1>3. CASE e.ev = "content_block_start"
  <2>1. v.kinds[e.ix] = "none" /\ e.ix \in Indexes
    BY <1>3 DEF Sound, Allowed, Read, Events
  <2>2. e.ix \notin v.open
    BY <2>1, ViewFacts
  <2>3. w.open = v.open \cup {e.ix} /\ w.kinds = [v.kinds EXCEPT ![e.ix] = e.kind]
    BY <1>3 DEF After
  <2>4. r.stack = Append(t.stack, e.ix) /\ r.max = Max({t.max, e.ix})
    BY <1>3 DEF Observe
  <2>5. r.max >= t.max /\ r.max >= e.ix /\ r.max \in Int
    <3>1. \E x \in {t.max, e.ix} : \A y \in {t.max, e.ix} : x >= y
      BY <1>1
    <3> QED BY <1>1, <2>4, <3>1 DEF Max
  <2>6. Len(r.stack) = n + 1 /\ r.stack[n + 1] = e.ix /\ \A j \in 1 .. n : r.stack[j] = t.stack[j]
    BY <1>1, <2>4
  <2>7. \A j \in 1 .. n + 1 : j = n + 1 \/ j \in 1 .. n
    BY <1>1
  <2>8. \A j \in 1 .. n : j \in 1 .. n + 1 /\ n + 1 \in 1 .. n + 1
    BY <1>1
  <2>9. n + 1 \in 1 .. n + 1
    BY <1>1
  <2> HIDE DEF r, w
  <2>10. \A j \in 1 .. Len(r.stack) : r.stack[j] \in w.open
    BY <2>3, <2>6, <2>7 DEF Tracks
  <2>11. \A j, k \in 1 .. Len(r.stack) : r.stack[j] = r.stack[k] => j = k
    <3>1. \A j \in 1 .. n : t.stack[j] # e.ix
      BY <2>2 DEF Tracks
    <3> QED BY <2>6, <2>7, <3>1 DEF Tracks
  <2>12. \A i \in w.open : \E j \in 1 .. Len(r.stack) : r.stack[j] = i
    <3> TAKE i \in w.open
    <3>1. CASE i = e.ix
      BY <2>6, <2>9, <3>1
    <3>2. CASE i # e.ix
      <4>1. PICK j \in 1 .. n : t.stack[j] = i
        BY <2>3, <3>2 DEF Tracks
      <4> QED BY <2>6, <2>8, <4>1
    <3> QED BY <3>1, <3>2
  <2>13. \A j \in Nat : j > r.max => w.kinds[j] = "none"
    <3> SUFFICES ASSUME NEW j \in Nat, j > r.max PROVE w.kinds[j] = "none"
      OBVIOUS
    <3>1. j > t.max /\ j # e.ix
      BY <1>1, <2>5
    <3> QED BY <2>3, <3>1, ViewFacts DEF Tracks, Unbounded
  <2>14. r.max >= -1
    BY <1>1, <2>5 DEF Tracks
  <2> QED BY <1>2, <2>10, <2>11, <2>12, <2>13, <2>14 DEF Tracks, r, w
<1>4. CASE e.ev = "content_block_stop"
  <2>1. e.ix \in v.open
    BY <1>4 DEF Sound, Allowed
  <2>2. PICK p \in 1 .. n : t.stack[p] = e.ix
    BY <2>1 DEF Tracks
  <2>3. w.open = v.open \ {e.ix} /\ w.kinds = v.kinds
    BY <1>4 DEF After
  <2>4. r.stack = Closed(t.stack, e.ix) /\ r.max = t.max
    BY <1>1, <1>4 DEF Observe, Trackers
  <2>5. /\ Len(r.stack) = n - 1
        /\ \A j \in 1 .. n - 1 : r.stack[j] = t.stack[IF j < p THEN j ELSE j + 1]
    <3>1. \A j \in 1 .. Len(t.stack) : t.stack[j] = t.stack[p] => j = p
      BY DEF Tracks
    <3>2. /\ Len(Closed(t.stack, t.stack[p])) = n - 1
          /\ \A j \in 1 .. n - 1 :
               Closed(t.stack, t.stack[p])[j] = t.stack[IF j < p THEN j ELSE j + 1]
      BY <1>1, <3>1, ClosedFacts
    <3> HIDE DEF n, r, w
    <3> QED BY <2>2, <2>4, <3>2
  <2> HIDE DEF r, w
  <2> DEFINE Place(j) == IF j < p THEN j ELSE j + 1
  <2>6. \A j \in 1 .. n - 1 : Place(j) \in 1 .. n /\ Place(j) # p
    BY <1>1
  <2>7. \A j, k \in 1 .. n - 1 : Place(j) = Place(k) => j = k
    BY <1>1
  <2>8. \A k \in 1 .. n : k # p => \E j \in 1 .. n - 1 : Place(j) = k
    <3> SUFFICES ASSUME NEW k \in 1 .. n, k # p PROVE \E j \in 1 .. n - 1 : Place(j) = k
      OBVIOUS
    <3>1. CASE k < p
      <4>1. k \in 1 .. n - 1 /\ Place(k) = k
        BY <1>1, <3>1
      <4> QED BY <4>1
    <3>2. CASE k > p
      <4>1. k - 1 \in 1 .. n - 1 /\ Place(k - 1) = k
        BY <1>1, <3>2
      <4> QED BY <4>1
    <3> QED BY <1>1, <3>1, <3>2
  <2>9. \A j \in 1 .. n - 1 : r.stack[j] = t.stack[Place(j)]
    BY <2>5
  <2> HIDE DEF Place
  <2>10. \A k \in 1 .. n : k # p => t.stack[k] # e.ix
    BY <2>2 DEF Tracks
  <2>11. \A j \in 1 .. Len(r.stack) : r.stack[j] \in w.open
    <3> SUFFICES ASSUME NEW j \in 1 .. n - 1 PROVE r.stack[j] \in w.open
      BY <2>5
    <3>1. Place(j) \in 1 .. n /\ Place(j) # p /\ r.stack[j] = t.stack[Place(j)]
      BY <2>6, <2>9
    <3>2. t.stack[Place(j)] \in v.open /\ t.stack[Place(j)] # e.ix
      BY <2>10, <3>1 DEF Tracks
    <3> QED BY <2>3, <3>1, <3>2
  <2>12. \A j, k \in 1 .. Len(r.stack) : r.stack[j] = r.stack[k] => j = k
    <3> SUFFICES ASSUME NEW j \in 1 .. n - 1, NEW k \in 1 .. n - 1, r.stack[j] = r.stack[k]
                 PROVE  j = k
      BY <2>5
    <3>1. Place(j) \in 1 .. n /\ Place(k) \in 1 .. n
      BY <2>6
    <3>2. t.stack[Place(j)] = t.stack[Place(k)]
      BY <2>9
    <3>3. Place(j) = Place(k)
      BY <3>1, <3>2 DEF Tracks
    <3> QED BY <2>7, <3>3
  <2>13. \A i \in w.open : \E j \in 1 .. Len(r.stack) : r.stack[j] = i
    <3> TAKE i \in w.open
    <3>1. PICK k \in 1 .. n : t.stack[k] = i
      BY <2>3 DEF Tracks
    <3>2. k # p
      BY <2>2, <2>3, <3>1
    <3>3. PICK j \in 1 .. n - 1 : Place(j) = k
      BY <2>8, <3>2
    <3> QED BY <2>5, <2>9, <3>1, <3>3
  <2>14. r.max >= -1 /\ \A j \in Nat : j > r.max => w.kinds[j] = "none"
    BY <2>3, <2>4 DEF Tracks
  <2> QED BY <1>2, <2>11, <2>12, <2>13, <2>14 DEF Tracks, r, w
<1>5. CASE e.ev \notin {"content_block_start", "content_block_stop"}
  <2>1. r = t
    BY <1>5 DEF Observe
  <2>2. w.open = v.open
    BY <1>5 DEF After
  <2>3. w.kinds = v.kinds
    BY <1>5 DEF After
  <2> HIDE DEF r, w
  <2>4. Tracks(r, w)
    BY <2>1, <2>2, <2>3 DEF Tracks
  <2> QED BY <2>4 DEF r, w
<1> QED BY <1>3, <1>4, <1>5

\* Along a path.
LEMMA TracksPath ==
  ASSUME Unbounded, NEW v, NEW w, NEW s \in Seq(Emitted), Path(v, s, w), NEW t, Tracks(t, v)
  PROVE  Tracks(ObserveAll(t, s), w)
<1> DEFINE n == Len(s)
<1>1. t \in Trackers /\ n \in Nat
  BY DEF Tracks
<1>2. PICK f \in [0 .. n -> Views] :
        /\ f[0] = v /\ f[n] = w
        /\ \A i \in 1 .. n : Sound(f[i - 1], s[i]) /\ f[i] = After(f[i - 1], s[i])
  BY DEF Path
<1>3. PICK g \in [0 .. n -> Trackers] :
        /\ g[0] = t
        /\ \A i \in 1 .. n : g[i] = Observe(g[i - 1], s[i])
        /\ ObserveFold!Fold(t, s) = g[n]
  BY <1>1, ObserveType, ObserveFold!FoldSteps
<1>4. ObserveAll(t, s) = ObserveFold!Fold(t, s)
  BY DEF ObserveAll, FoldLeft, MapThenFoldSet, Max, ObserveFold!Fold, ObserveFold!Largest
<1> DEFINE A == {k \in 0 .. n : Tracks(g[k], f[k])}
<1>5. 0 \in A
  BY <1>1, <1>2, <1>3
<1>6. ASSUME NEW k \in 0 .. n - 1, k \in A PROVE k + 1 \in A
  <2>1. /\ k + 1 \in 1 .. n /\ (k + 1) - 1 = k /\ k \in 0 .. n /\ k + 1 \in 0 .. n
    BY <1>1
  <2>2. f[k] \in Views /\ s[k + 1] \in Emitted /\ Sound(f[k], s[k + 1])
        /\ f[k + 1] = After(f[k], s[k + 1]) /\ g[k + 1] = Observe(g[k], s[k + 1])
    BY <1>2, <1>3, <2>1
  <2>3. Tracks(g[k + 1], f[k + 1])
    BY <1>6, <2>2, TracksOne
  <2> QED BY <2>1, <2>3
<1>7. n \in A
  <2> HIDE DEF A, n
  <2>1. 0 .. n \subseteq A
    BY <1>1, <1>5, <1>6, CloseFold!Counting
  <2> QED BY <1>1, <2>1
<1> QED BY <1>2, <1>3, <1>4, <1>7

-----------------------------------------------------------------------------
(* A native stream *)

\* An error tail closes what is open and ends the message.
LEMMA ErrorTailEnds ==
  ASSUME Unbounded, NEW w \in Views, w.begun, NEW t, Tracks(t, w)
  PROVE  Ends(w, ErrorTail(t))
<1> DEFINE n == Len(t.stack)
           s == Reverse(t.stack)
           stops == [j \in 1 .. n |-> StopBlock(s[j])]
           ix == t.max + 1
           block == ErrorBlock(ix)
           end == <<MessageDelta, MessageStop>>
<1>1. t.stack \in Seq(Int) /\ n \in Nat /\ t.max \in Int /\ t.max >= -1
  BY DEF Tracks, Trackers
<1>2. ix \in Nat /\ ix > t.max
  BY <1>1
<1>3. w.kinds[ix] = "none"
  BY <1>2 DEF Tracks
<1>4. \A j \in 1 .. n : s[j] = t.stack[(n - j) + 1]
  BY <1>1 DEF Reverse
<1>5. ErrorTail(t) = (stops \o block) \o end
  BY DEF ErrorTail
<1> HIDE DEF s, n
<1>6. \A j \in 1 .. n : (n - j) + 1 \in 1 .. n
  BY <1>1
<1>7. /\ \A j \in 1 .. n : s[j] \in w.open
      /\ \A j, k \in 1 .. n : s[j] = s[k] => j = k
      /\ \A i \in w.open : \E j \in 1 .. n : s[j] = i
  <2>1. \A j \in 1 .. n : s[j] \in w.open
    BY <1>4, <1>6 DEF Tracks, n
  <2>2. ASSUME NEW j \in 1 .. n, NEW k \in 1 .. n, s[j] = s[k] PROVE j = k
    <3>1. t.stack[(n - j) + 1] = t.stack[(n - k) + 1]
      BY <1>4, <2>2
    <3>2. (n - j) + 1 = (n - k) + 1
      BY <1>6, <3>1 DEF Tracks, n
    <3> QED BY <1>1, <3>2
  <2>3. ASSUME NEW i \in w.open PROVE \E j \in 1 .. n : s[j] = i
    <3>1. PICK k \in 1 .. n : t.stack[k] = i
      BY DEF Tracks, n
    <3>2. (n - k) + 1 \in 1 .. n /\ (n - ((n - k) + 1)) + 1 = k
      BY <1>1
    <3> QED BY <1>4, <3>1, <3>2
  <2> QED BY <2>1, <2>2, <2>3
<1>8. stops \in Seq(Emitted) /\ Len(stops) = n
  <2>1. \A j \in 1 .. n : StopBlock(s[j]) \in Emitted
    <3> TAKE j \in 1 .. n
    <3>1. s[j] \in Int
      BY <1>7, ViewFacts, IndexesAssumption
    <3> QED BY <3>1, EventTypes
  <2> QED BY <1>1, <2>1
<1>9. PICK x \in Views : Path(w, stops, x) /\ x.begun /\ x.kinds = w.kinds /\ x.open = {}
  <2>1. \A j \in 1 .. n : stops[j] = StopBlock(s[j])
    OBVIOUS
  <2> HIDE DEF stops
  <2>2. Stops(w, s, stops)
    BY <1>7, <1>8, <2>1 DEF Stops
  <2>3. PICK x \in Views :
          /\ Path(w, stops, x)
          /\ x.begun /\ x.kinds = w.kinds /\ x.open \subseteq w.open
          /\ \A i \in w.open : i \in x.open <=> \A j \in 1 .. Len(stops) : s[j] # i
    BY <2>2, PathStops
  <2>4. x.open = {}
    BY <1>7, <1>8, <2>3
  <2> QED BY <2>3, <2>4
<1> HIDE DEF stops, ix
<1>10. PICK y \in Views : Path(x, block, y) /\ y.begun /\ y.open = x.open
  BY <1>2, <1>3, <1>9, ErrorBlockPath
<1>11. PICK z \in Views : /\ Path(y, end, z) /\ z.begun /\ z.open = y.open
                          /\ z.last = "message_stop"
  BY <1>10, PathEnd
<1>12. block \in Seq(Emitted) /\ end \in Seq(Emitted)
  BY <1>2, ErrorEvents, EventTypes, Pairs
<1> HIDE DEF block, end
<1>13. stops \o block \in Seq(Emitted) /\ Path(w, stops \o block, y)
  BY <1>8, <1>9, <1>10, <1>12, PathConcat
<1>14. Path(w, (stops \o block) \o end, z)
  BY <1>11, <1>12, <1>13, PathConcat
<1> QED BY <1>5, <1>9, <1>10, <1>11, <1>14 DEF Ends, WellFormed

\* The state of a native transport shows in what it has yielded.
NativeShows(m, w) ==
  /\ m.policy.out = <<>>
  /\ ~m.sent => m = FreshNative /\ w = Empty
  /\ m.sent => Policed(m.policy, m.up, w) /\ Tracks(m.tracker, w)
  /\ m.stopped => m.sent /\ WellFormed(w)

\* Nothing has been sent at first.
LEMMA FreshNativeShows == NativeShows(FreshNative, Empty)
BY DEF NativeShows, FreshNative, FreshPolicy

\* A message that has begun.
LEMMA BegunShows ==
  ASSUME Unbounded, NEW w \in Views, w.begun, w.kinds = Empty.kinds, w.open = {}
  PROVE  /\ Policed(FreshPolicy, [u \in Upstream |-> "new"], w)
         /\ Tracks(FreshTracker, Empty)
<1>1. \A j \in Nat : w.kinds[j] = "none" /\ Empty.kinds[j] = "none"
  BY EmptyFacts DEF Unbounded
<1>2. Policed(FreshPolicy, [u \in Upstream |-> "new"], w)
  BY <1>1 DEF Policed, FreshPolicy
<1>3. FreshTracker \in Trackers /\ FreshTracker.max = -1 /\ FreshTracker.stack = <<>>
  BY DEF FreshTracker, Trackers, None
<1>4. Tracks(FreshTracker, Empty)
  <2>1. 1 .. Len(FreshTracker.stack) = {}
    BY <1>3
  <2> QED BY <1>1, <1>3, <2>1, EmptyFacts DEF Tracks
<1> QED BY <1>2, <1>4

\* The policy has yielded, the tracker has seen it, and it is drained.
Drained(m, policy, up) ==
  [m EXCEPT !.policy = [policy EXCEPT !.out = <<>>],
            !.tracker = ObserveAll(@, policy.out),
            !.sent = @ \/ policy.out # <<>>,
            !.up = up]

\* What it is afterwards.
LEMMA DrainedFacts ==
  ASSUME NEW m \in Natives, NEW policy \in Policies, NEW up
  PROVE  /\ Drained(m, policy, up).policy = [policy EXCEPT !.out = <<>>]
         /\ Drained(m, policy, up).tracker = ObserveAll(m.tracker, policy.out)
         /\ Drained(m, policy, up).sent = (m.sent \/ policy.out # <<>>)
         /\ Drained(m, policy, up).stopped = m.stopped
         /\ Drained(m, policy, up).up = up
<1> DEFINE a == [policy EXCEPT !.out = <<>>]
           b == ObserveAll(m.tracker, policy.out)
           c == m.sent \/ policy.out # <<>>
<1>1. Drained(m, policy, up) = [m EXCEPT !.policy = a, !.tracker = b, !.sent = c, !.up = up]
  BY DEF Drained
<1> HIDE DEF a, b, c
<1> QED BY <1>1 DEF Natives, a, b, c

\* What is policed is policed when it has been drained.
LEMMA DrainedPoliced ==
  ASSUME NEW policy \in Policies, NEW up, NEW w, Policed(policy, up, w)
  PROVE  /\ [policy EXCEPT !.out = <<>>].out = <<>>
         /\ Policed([policy EXCEPT !.out = <<>>], up, w)
<1> DEFINE a == [policy EXCEPT !.out = <<>>]
<1>1. /\ a.out = <<>> /\ a.next = policy.next /\ a.down = policy.down
      /\ a.isOpen = policy.isOpen /\ a.dropped = policy.dropped
      /\ a.suppressed = policy.suppressed
  BY DEF Policies
<1> HIDE DEF a
<1>2. Policed(a, up, w)
  BY <1>1 DEF Policed
<1> QED BY <1>1, <1>2 DEF a

\* The tracker knows what the policy has yielded.
LEMMA DrainedShows ==
  ASSUME Unbounded, NEW w \in Views, NEW m \in Natives, NativeShows(m, w), m.sent, ~m.stopped,
         NEW policy, NEW up, Polices(w, policy, up)
  PROVE  \E x \in Views : Path(w, policy.out, x) /\ NativeShows(Drained(m, policy, up), x)
<1> DEFINE d == Drained(m, policy, up)
<1>1. policy \in Policies /\ policy.out \in Seq(Emitted)
  BY DEF Polices, Policies
<1>2. PICK x \in Views : Path(w, policy.out, x) /\ Policed(policy, up, x)
  BY DEF Polices
<1>3. Tracks(ObserveAll(m.tracker, policy.out), x)
  <2>1. Tracks(m.tracker, w)
    BY DEF NativeShows
  <2> QED BY <1>1, <1>2, <2>1, TracksPath
<1>4. /\ d.policy = [policy EXCEPT !.out = <<>>]
      /\ d.tracker = ObserveAll(m.tracker, policy.out) /\ d.sent /\ ~d.stopped /\ d.up = up
  <2>1. /\ d.policy = [policy EXCEPT !.out = <<>>]
        /\ d.tracker = ObserveAll(m.tracker, policy.out)
        /\ d.sent = (m.sent \/ policy.out # <<>>) /\ d.stopped = m.stopped /\ d.up = up
    BY <1>1, DrainedFacts
  <2> HIDE DEF d
  <2> QED BY <2>1
<1> HIDE DEF d
<1>5. d.policy.out = <<>> /\ Policed(d.policy, up, x)
  BY <1>1, <1>2, <1>4, DrainedPoliced
<1>6. NativeShows(d, x)
  BY <1>3, <1>4, <1>5 DEF NativeShows
<1> QED BY <1>2, <1>6 DEF d

\* The message begins.
LEMMA StartedShows ==
  ASSUME Unbounded, NEW m \in Natives, NativeShows(m, Empty), ~m.sent
  PROVE  LET policy == Yielding(m.policy, <<MessageStart>>) IN
         \E x \in Views : Path(Empty, policy.out, x) /\ NativeShows(Drained(m, policy, m.up), x)
<1> DEFINE policy == Yielding(m.policy, <<MessageStart>>)
           d == Drained(m, policy, m.up)
<1>1. m = FreshNative
  BY DEF NativeShows
<1>2. <<MessageStart>> \in Seq(Emitted) /\ <<MessageStart>> # <<>>
  BY EventTypes, Singletons
<1>3. m.policy = FreshPolicy /\ m.tracker = FreshTracker /\ ~m.stopped
      /\ m.up = [u \in Upstream |-> "new"]
  BY <1>1 DEF FreshNative
<1>4. FreshPolicy \in Policies /\ FreshPolicy.out = <<>>
  <2>1. m.policy \in Policies
    BY DEF Natives
  <2> QED BY <1>3, <2>1 DEF FreshPolicy
<1>5. policy \in Policies
  BY <1>2, <1>3, <1>4, PolicyYields
<1>6. policy.out = <<MessageStart>>
  <2>1. policy.out = <<>> \o <<MessageStart>>
    BY <1>3, <1>4 DEF Yielding, Policies
  <2> HIDE DEF policy
  <2> QED BY <1>2, <2>1, ConcatEmptySeq
<1>7. PICK x \in Views : /\ Path(Empty, <<MessageStart>>, x)
                         /\ x.begun /\ x.kinds = Empty.kinds /\ x.open = {}
  BY PathBegin
<1>8. Policed(policy, m.up, x)
  <2>1. Policed(FreshPolicy, m.up, x)
    BY <1>3, <1>7, BegunShows
  <2>2. /\ policy.next = FreshPolicy.next /\ policy.down = FreshPolicy.down
        /\ policy.isOpen = FreshPolicy.isOpen /\ policy.dropped = FreshPolicy.dropped
        /\ policy.suppressed = FreshPolicy.suppressed
    BY <1>3, <1>4 DEF Yielding, Policies
  <2> HIDE DEF policy
  <2> QED BY <2>1, <2>2 DEF Policed
<1>9. /\ d.policy = [policy EXCEPT !.out = <<>>]
      /\ d.tracker = ObserveAll(m.tracker, policy.out)
      /\ d.sent = (m.sent \/ policy.out # <<>>) /\ d.stopped = m.stopped /\ d.up = m.up
  <2> HIDE DEF policy
  <2> QED BY <1>5, DrainedFacts
<1> HIDE DEF policy, d
<1>10. Tracks(d.tracker, x)
  <2>1. Tracks(FreshTracker, Empty)
    BY <1>7, BegunShows
  <2> DEFINE start == <<MessageStart>>
  <2>2. start \in Seq(Emitted) /\ Path(Empty, start, x) /\ d.tracker = ObserveAll(FreshTracker, start)
    BY <1>2, <1>3, <1>6, <1>7, <1>9
  <2> HIDE DEF start
  <2>3. Tracks(ObserveAll(FreshTracker, start), x)
    BY <2>1, <2>2, TracksPath
  <2> QED BY <2>2, <2>3
<1>11. d.policy.out = <<>> /\ Policed(d.policy, m.up, x)
  BY <1>5, <1>8, <1>9, DrainedPoliced
<1>12. NativeShows(d, x)
  BY <1>2, <1>3, <1>6, <1>9, <1>10, <1>11 DEF NativeShows
<1> QED BY <1>6, <1>7, <1>12 DEF policy, d

\* The message ends.
LEMMA StoppedShows ==
  ASSUME Unbounded, NEW w \in Views, NEW m \in Natives, NativeShows(m, w), m.sent,
         \A u \in Upstream : m.up[u] \in {"new", "closed"}
  PROVE  \E x \in Views : /\ Path(w, <<MessageDelta, MessageStop>>, x)
                          /\ NativeShows([m EXCEPT !.stopped = TRUE], x)
<1> DEFINE d == [m EXCEPT !.stopped = TRUE]
<1>1. w.begun /\ Policed(m.policy, m.up, w) /\ Tracks(m.tracker, w)
  BY DEF NativeShows, Policed
<1>2. w.open = {}
  <2>1. \A u \in Upstream : ~m.policy.isOpen[u]
    BY <1>1 DEF Policed, BlockKinds
  <2>2. \A j \in w.open : j \in Nat
    BY <1>1 DEF Policed
  <2> QED BY <1>1, <2>1, <2>2 DEF Policed
<1>3. PICK x \in Views : /\ Path(w, <<MessageDelta, MessageStop>>, x) /\ x.begun
                         /\ x.kinds = w.kinds /\ x.open = w.open /\ x.last = "message_stop"
  BY <1>1, PathEnd
<1>4. Policed(m.policy, m.up, x) /\ Tracks(m.tracker, x)
  BY <1>1, <1>3 DEF Policed, Tracks
<1>5. /\ d.policy = m.policy /\ d.tracker = m.tracker /\ d.up = m.up /\ d.sent = m.sent
  BY DEF Natives
<1> HIDE DEF d
<1>6. WellFormed(x)
  BY <1>2, <1>3 DEF WellFormed
<1>7. NativeShows(d, x)
  BY <1>4, <1>5, <1>6 DEF NativeShows
<1> QED BY <1>3, <1>7 DEF d

\* A native stream that fails is a whole message, however far it got.
LEMMA NativeFailsEnds ==
  ASSUME Unbounded, NEW w \in Views, NEW m, NativeShows(m, w)
  PROVE  Ends(w, IF m.sent THEN ErrorTail(m.tracker) ELSE ErrorMessage(FALSE))
<1>1. CASE m.sent
  <2>1. w.begun /\ Tracks(m.tracker, w)
    BY <1>1 DEF NativeShows, Policed
  <2> QED BY <1>1, <2>1, ErrorTailEnds
<1>2. CASE ~m.sent
  <2>1. w = Empty
    BY <1>2 DEF NativeShows
  <2> QED BY <1>2, <2>1, ErrorMessageEnds
<1> QED BY <1>1, <1>2

\* A block without a delta.
LEMMA PathResult ==
  ASSUME Unbounded, NEW v \in Views, v.begun, NEW ix \in Nat, NEW kind \in MadeKinds,
         v.kinds[ix] = "none"
  PROVE  /\ <<StartBlock(ix, kind), StopBlock(ix)>> \in Seq(Emitted)
         /\ \E w \in Views : /\ Path(v, <<StartBlock(ix, kind), StopBlock(ix)>>, w)
                             /\ w.begun /\ w.kinds = [v.kinds EXCEPT ![ix] = kind]
                             /\ w.open = v.open
<1> DEFINE a == StartBlock(ix, kind)
           b == StopBlock(ix)
<1>1. a \in Emitted /\ b \in Emitted
  BY EventTypes DEF MadeKinds
<1>2. ix \notin v.open
  BY PathStart
<1>3. PICK x \in Views : /\ Path(v, <<a>>, x) /\ x.begun
                         /\ x.kinds = [v.kinds EXCEPT ![ix] = kind] /\ x.open = v.open \cup {ix}
  BY PathStart
<1>4. ix \in x.open
  BY <1>3
<1>5. PICK y \in Views : Path(x, <<b>>, y) /\ y.begun /\ y.kinds = x.kinds /\ y.open = x.open \ {ix}
  BY <1>3, <1>4, PathStop
<1> HIDE DEF a, b
<1>6. /\ <<a>> \in Seq(Emitted) /\ <<b>> \in Seq(Emitted) /\ <<a>> \o <<b>> = <<a, b>>
      /\ <<a, b>> \in Seq(Emitted)
  BY <1>1, Singletons, Pairs
<1>7. Path(v, <<a, b>>, y)
  <2>1. Path(v, <<a>> \o <<b>>, y)
    BY <1>3, <1>5, <1>6, PathConcat
  <2> QED BY <1>6, <2>1
<1>8. (v.open \cup {ix}) \ {ix} = v.open
  BY <1>2
<1> QED BY <1>3, <1>5, <1>6, <1>7, <1>8 DEF a, b

\* So is the server's own answer.
LEMMA WebEventsEnds ==
  ASSUME Unbounded
  PROVE  Ends(Empty, WebEvents)
<1> DEFINE start == <<MessageStart>>
           use == <<StartBlock(0, "server_tool_use"), StopBlock(0)>>
           result == <<StartBlock(1, "web_tool_result"), StopBlock(1)>>
           text == <<StartBlock(2, "text"), DeltaBlock(2, "text", <<>>), StopBlock(2)>>
           end == <<MessageDelta, MessageStop>>
<1>1. /\ "server_tool_use" \in MadeKinds /\ "web_tool_result" \in MadeKinds
      /\ "text" \in BlockKinds
  BY DEF MadeKinds, BlockKinds
<1>2. Empty.kinds[0] = "none" /\ Empty.kinds[1] = "none" /\ Empty.kinds[2] = "none"
      /\ 0 \in Indexes /\ 1 \in Indexes /\ 2 \in Indexes
  BY EmptyFacts DEF Unbounded
<1>3. PICK w0 \in Views : /\ Path(Empty, start, w0) /\ w0.begun /\ w0.kinds = Empty.kinds
                          /\ w0.open = {}
  BY PathBegin
<1>4. PICK w1 \in Views : /\ Path(w0, use, w1) /\ w1.begun /\ w1.open = w0.open
                          /\ w1.kinds = [w0.kinds EXCEPT ![0] = "server_tool_use"]
  BY <1>1, <1>2, <1>3, PathResult
<1>5. w1.kinds[1] = "none" /\ w1.kinds[2] = "none"
  BY <1>2, <1>3, <1>4, ViewFacts
<1>6. PICK w2 \in Views : /\ Path(w1, result, w2) /\ w2.begun /\ w2.open = w1.open
                          /\ w2.kinds = [w1.kinds EXCEPT ![1] = "web_tool_result"]
  <2>1. w1.begun /\ w1.kinds[1] = "none" /\ 1 \in Nat
    BY <1>4, <1>5
  <2>2. \E w2 \in Views :
          /\ Path(w1, <<StartBlock(1, "web_tool_result"), StopBlock(1)>>, w2)
          /\ w2.begun /\ w2.kinds = [w1.kinds EXCEPT ![1] = "web_tool_result"]
          /\ w2.open = w1.open
    BY <1>1, <2>1, PathResult
  <2> QED BY <2>2
<1>7. w2.kinds[2] = "none"
  BY <1>2, <1>5, <1>6, ViewFacts
<1>8. PICK w3 \in Views : Path(w2, text, w3) /\ w3.begun /\ w3.open = w2.open
  BY <1>1, <1>6, <1>7, PathBlock
<1>9. PICK w4 \in Views : Path(w3, end, w4) /\ w4.begun /\ w4.open = w3.open
                          /\ w4.last = "message_stop"
  BY <1>8, PathEnd
<1>10. /\ start \in Seq(Emitted) /\ use \in Seq(Emitted) /\ result \in Seq(Emitted)
       /\ text \in Seq(Emitted) /\ end \in Seq(Emitted)
  BY EventTypes, EmptyText, Singletons, Pairs, Triples
<1>11. WebEvents = start \o (use \o (result \o (text \o end)))
  BY DEF WebEvents
<1> HIDE DEF start, use, result, text, end
<1>12. text \o end \in Seq(Emitted) /\ Path(w2, text \o end, w4)
  BY <1>8, <1>9, <1>10, PathConcat
<1> DEFINE rest == text \o end
<1> HIDE DEF rest
<1>13. result \o rest \in Seq(Emitted) /\ Path(w1, result \o rest, w4)
  <2>1. Path(w1, result, w2) /\ rest \in Seq(Emitted) /\ Path(w2, rest, w4)
    BY <1>6, <1>12 DEF rest
  <2> QED BY <1>10, <2>1, PathConcat
<1> DEFINE more == result \o rest
<1> HIDE DEF more
<1>14. use \o more \in Seq(Emitted) /\ Path(w0, use \o more, w4)
  <2>1. Path(w0, use, w1) /\ more \in Seq(Emitted) /\ Path(w1, more, w4)
    BY <1>4, <1>13 DEF more
  <2> QED BY <1>10, <2>1, PathConcat
<1> DEFINE all == use \o more
<1> HIDE DEF all
<1>15. Path(Empty, start \o all, w4)
  <2>1. all \in Seq(Emitted) /\ Path(w0, all, w4)
    BY <1>14 DEF all
  <2> QED BY <1>3, <1>10, <2>1, PathConcat
<1>16. WebEvents = start \o all
  BY <1>11 DEF all, more, rest
<1> QED BY <1>3, <1>4, <1>6, <1>8, <1>9, <1>15, <1>16 DEF Ends, WellFormed

-----------------------------------------------------------------------------
(* Events on their way *)

\* The events of a sequence of entries.
EventsOf(s) == [j \in DOMAIN s |-> s[j].event]

\* They are as many, in the same order, without the candidate.
LEMMA EventsOfType ==
  ASSUME NEW c, NEW s \in Seq(Entries(c))
  PROVE  /\ EventsOf(s) \in Seq(Emitted) /\ Len(EventsOf(s)) = Len(s) /\ Len(s) \in Nat
         /\ \A j \in 1 .. Len(s) : EventsOf(s)[j] = s[j].event
<1> DEFINE n == Len(s)
           S == Entries(c)
<1>1. \A x \in S : x.event \in Emitted
  BY DEF Entries
<1> HIDE DEF S
<1>2. s \in Seq(S)
  BY DEF S
<1>3. n \in Nat /\ DOMAIN s = 1 .. n /\ \A j \in 1 .. n : s[j] \in S
  BY <1>2
<1> HIDE DEF n
<1>4. \A j \in 1 .. n : s[j].event \in Emitted
  BY <1>1, <1>3
<1>5. [j \in 1 .. n |-> s[j].event] \in Seq(Emitted)
      /\ Len([j \in 1 .. n |-> s[j].event]) = n
  BY <1>3, <1>4
<1>6. EventsOf(s) = [j \in 1 .. n |-> s[j].event]
  BY <1>3 DEF EventsOf
<1> QED BY <1>3, <1>5, <1>6 DEF n

LEMMA EventsOfConcat ==
  ASSUME NEW c, NEW s \in Seq(Entries(c)), NEW t \in Seq(Entries(c))
  PROVE  EventsOf(s \o t) = EventsOf(s) \o EventsOf(t)
<1> DEFINE S == Entries(c)
           a == EventsOf(s \o t)
           p == EventsOf(s)
           q == EventsOf(t)
           b == p \o q
           m == Len(s)
           n == Len(t)
<1>1. s \in Seq(S) /\ t \in Seq(S)
  OBVIOUS
<1>2. /\ p \in Seq(Emitted) /\ Len(p) = m /\ m \in Nat
      /\ q \in Seq(Emitted) /\ Len(q) = n /\ n \in Nat
      /\ \A j \in 1 .. m : p[j] = s[j].event
      /\ \A j \in 1 .. n : q[j] = t[j].event
  BY EventsOfType
<1>3. s \o t \in Seq(Entries(c))
  OBVIOUS
<1>4. a \in Seq(Emitted) /\ Len(a) = Len(s \o t) /\ \A j \in 1 .. Len(s \o t) : a[j] = (s \o t)[j].event
  BY <1>3, EventsOfType
<1> HIDE DEF S, a, p, q
<1>5. /\ Len(s \o t) = m + n
      /\ \A j \in 1 .. m + n : (s \o t)[j] = IF j <= m THEN s[j] ELSE t[j - m]
  BY <1>1, ConcatProperties
<1>6. /\ b \in Seq(Emitted) /\ Len(b) = m + n
      /\ \A j \in 1 .. m + n : b[j] = IF j <= m THEN p[j] ELSE q[j - m]
  <2>1. p \in Seq(Emitted) /\ q \in Seq(Emitted) /\ Len(p) = m /\ Len(q) = n
    BY <1>2
  <2> HIDE DEF m, n
  <2>2. /\ p \o q \in Seq(Emitted) /\ Len(p \o q) = Len(p) + Len(q)
        /\ \A j \in 1 .. Len(p) + Len(q) :
             (p \o q)[j] = IF j <= Len(p) THEN p[j] ELSE q[j - Len(p)]
    BY <2>1, ConcatProperties
  <2> QED BY <2>1, <2>2
<1> HIDE DEF m, n, b
<1>7. ASSUME NEW j \in 1 .. m + n PROVE a[j] = b[j]
  <2>1. CASE j <= m
    <3>1. j \in 1 .. m
      BY <1>2, <2>1
    <3>2. b[j] = p[j] /\ p[j] = s[j].event
      BY <1>2, <1>6, <2>1, <3>1
    <3>3. a[j] = (s \o t)[j].event /\ (s \o t)[j] = s[j]
      BY <1>4, <1>5, <2>1
    <3> QED BY <3>2, <3>3
  <2>2. CASE ~(j <= m)
    <3>1. j - m \in 1 .. n
      BY <1>2, <2>2
    <3>2. b[j] = q[j - m] /\ q[j - m] = t[j - m].event
      BY <1>2, <1>6, <2>2, <3>1
    <3>3. a[j] = (s \o t)[j].event /\ (s \o t)[j] = t[j - m]
      BY <1>4, <1>5, <2>2
    <3> QED BY <3>2, <3>3
  <2> QED BY <2>1, <2>2
<1>8. a = b
  BY <1>4, <1>5, <1>6, <1>7, SeqEqual
<1> QED BY <1>8 DEF a, b, p, q

LEMMA EventsOfTail ==
  ASSUME NEW c, NEW s \in Seq(Entries(c)), s # <<>>
  PROVE  /\ EventsOf(s) # <<>> /\ Head(EventsOf(s)) = Head(s).event
         /\ EventsOf(Tail(s)) = Tail(EventsOf(s))
<1> DEFINE S == Entries(c)
           p == EventsOf(s)
           r == Tail(s)
           q == EventsOf(r)
<1>1. /\ p \in Seq(Emitted) /\ Len(p) = Len(s) /\ Len(s) \in Nat
      /\ \A j \in 1 .. Len(s) : p[j] = s[j].event
  BY EventsOfType
<1>2. s \in Seq(S)
  OBVIOUS
<1>3. r \in Seq(Entries(c))
  OBVIOUS
<1>4. q \in Seq(Emitted) /\ Len(q) = Len(r) /\ \A j \in 1 .. Len(r) : q[j] = r[j].event
  BY <1>3, EventsOfType
<1> HIDE DEF S, p, q
<1>5. Len(r) = Len(s) - 1 /\ \A j \in 1 .. Len(r) : r[j] = s[j + 1]
  BY <1>2, HeadTailProperties
<1>6. Len(s) > 0 /\ Head(s) = s[1]
  BY <1>2
<1> HIDE DEF r
<1>7. p # <<>> /\ Head(p) = p[1] /\ 1 \in 1 .. Len(s)
  BY <1>1, <1>6
<1>8. Tail(p) \in Seq(Emitted) /\ Len(Tail(p)) = Len(p) - 1
      /\ \A j \in 1 .. Len(Tail(p)) : Tail(p)[j] = p[j + 1]
  BY <1>1, <1>7, HeadTailProperties
<1>9. \A j \in 1 .. Len(q) : q[j] = Tail(p)[j]
  <2> SUFFICES ASSUME NEW j \in 1 .. Len(s) - 1 PROVE q[j] = Tail(p)[j]
    BY <1>4, <1>5
  <2>1. j + 1 \in 1 .. Len(s)
    BY <1>1
  <2> QED BY <1>1, <1>4, <1>5, <1>8, <2>1
<1>10. q = Tail(p)
  BY <1>1, <1>4, <1>5, <1>8, <1>9, SeqEqual
<1> QED BY <1>1, <1>6, <1>7, <1>10 DEF p, q, r

LEMMA EventsOfTagged ==
  ASSUME NEW events \in Seq(Emitted)
  PROVE  EventsOf(Tagged(events)) = events
<1>1. Tagged(events) \in Seq(Entries(cand))
  BY TaggedType
<1>2. Len(Tagged(events)) = Len(events) /\ \A j \in 1 .. Len(events) : Tagged(events)[j].event = events[j]
  BY DEF Tagged
<1>3. EventsOf(Tagged(events)) \in Seq(Emitted) /\ Len(EventsOf(Tagged(events))) = Len(events)
      /\ \A j \in 1 .. Len(events) : EventsOf(Tagged(events))[j] = events[j]
  BY <1>1, <1>2, EventsOfType
<1> QED BY <1>3, SeqEqual

\* The events on their way lead the client to this view.
Leads(w) == Path(view, EventsOf(wire \o held), w)

\* A generator yields.
LEMMA YieldLeads ==
  ASSUME Inv, wire = <<>>, stage # "ended", view' = view, NEW events \in Seq(Emitted),
         NEW ends \in BOOLEAN, Yield(events, ends),
         NEW w, Leads(w), NEW x, Path(w, events, x)
  PROVE  Leads(x)' /\ (ends => held' = <<>>)
<1> DEFINE S == Entries(cand)
           t == Tagged(events)
<1>1. Speaker = cand
  BY DEF Inv, Stages, Speaker
<1>2. held \in Seq(S) /\ t \in Seq(S)
  BY <1>1, TaggedType DEF Inv, TypeOK
<1>3. EventsOf(held \o t) = EventsOf(held) \o events /\ EventsOf(held) \in Seq(Emitted)
  <2>1. EventsOf(t) = events
    BY EventsOfTagged
  <2> HIDE DEF t
  <2>2. EventsOf(held \o t) = EventsOf(held) \o EventsOf(t)
    BY ONLY <1>2, EventsOfConcat
  <2>3. EventsOf(held) \in Seq(Emitted)
    BY ONLY <1>2, EventsOfType
  <2> QED BY <2>1, <2>2, <2>3
<1>4. held \o t \in Seq(S)
  BY <1>2
<1> HIDE DEF S, t
<1>5. wire \o held = held
  BY <1>2, ConcatEmptySeq
<1>6. wire' \o held' = held \o t
  <2> DEFINE all == held \o t
  <2>1. \/ wire' = all /\ held' = <<>>
        \/ wire' = <<>> /\ held' = all
    BY DEF Yield, t
  <2> HIDE DEF all
  <2>2. all \o <<>> = all /\ <<>> \o all = all
    BY <1>4, ConcatEmptySeq DEF all
  <2>3. wire' \o held' = all
    BY <2>1, <2>2
  <2> QED BY <2>3 DEF all
<1>7. Path(view, EventsOf(held), w)
  BY <1>5 DEF Leads
<1>8. Path(view, EventsOf(held) \o events, x)
  BY <1>3, <1>7, PathConcat
<1>9. Path(view', EventsOf(wire' \o held'), x)
  BY <1>3, <1>6, <1>8
<1>10. ends => held' = <<>>
  BY DEF Yield
<1> QED BY <1>9, <1>10 DEF Leads

-----------------------------------------------------------------------------
(* The invariant of the contract *)

\* Where the client will stand, as the point the generator is at has it.
Stands(w) ==
  /\ stage = "start" => w = Empty
  /\ stage = "opening" =>
       IF chain[cand].by = "chat" THEN w.begun /\ w.open = {} /\ w.kinds = Empty.kinds
       ELSE w = Empty
  /\ stage = "open" =>
       IF chain[cand].by = "chat" THEN chat.b.out = <<>> /\ Shows(chat.b, w)
       ELSE NativeShows(native, w)
  /\ stage = "ended" => WellFormed(w) /\ held = <<>>

Standing == \E w \in Views : Leads(w) /\ Stands(w)

\* The inductive invariant of the refinement, beside that of the request.
Contracted ==
  /\ phase # "done" => reading = TRUE
  /\ phase \in {"listing", "picked", "asked"} => view = Empty
  /\ stage \in {"start", "opening"} =>
       chat = FreshChat /\ native = FreshNative /\ (~committed => view = Empty)
  /\ stage = "start" => ~committed /\ held = <<>>
  /\ phase = "streaming" => Standing

\* A client with nothing, and nothing on its way.
LEMMA NothingLeads ==
  ASSUME wire' = <<>>, held' = <<>>, view' = Empty
  PROVE  Leads(Empty)'
<1>1. <<>> \o <<>> = <<>>
  <2>1. <<>> \in Seq(Emitted)
    OBVIOUS
  <2> QED BY <2>1, ConcatEmptySeq
<1>2. EventsOf(<<>>) = <<>>
  BY DEF EventsOf
<1>3. Path(Empty, <<>>, Empty)
  BY EmptyFacts, PathEmpty
<1>4. Path(view', EventsOf(wire' \o held'), Empty)
  BY <1>1, <1>2, <1>3
<1> QED BY <1>4 DEF Leads

\* A generator yields the end of a message.
LEMMA EndsStands ==
  ASSUME Inv, wire = <<>>, stage # "ended", view' = view, NEW events \in Seq(Emitted),
         Yield(events, TRUE), NEW w, Leads(w), Ends(w, events), stage' = "ended"
  PROVE  Standing'
<1>1. PICK x \in Views : Path(w, events, x) /\ WellFormed(x)
  BY DEF Ends
<1>2. Leads(x)' /\ held' = <<>>
  <2>1. TRUE \in BOOLEAN
    OBVIOUS
  <2> QED BY <1>1, <2>1, YieldLeads
<1>3. Stands(x)'
  <2>1. stage' = "ended" /\ held' = <<>> /\ WellFormed(x)
    BY <1>1, <1>2
  <2> QED BY <2>1 DEF Stands
<1> QED BY <1>2, <1>3 DEF Standing

\* A chat transport yields what its builder has made, and drains it.
LEMMA ChatStands ==
  ASSUME Inv, wire = <<>>, stage = "open", chain[cand].by = "chat",
         UNCHANGED <<view, stage, cand, chain>>, NEW w, Leads(w), NEW b, Builds(w, b),
         Yield(b.out, FALSE), chat'.b = [b EXCEPT !.out = <<>>]
  PROVE  Standing'
<1>1. b \in Builders /\ b.out \in Seq(Emitted)
  BY DEF Builds, Builders
<1>2. PICK x \in Views : Path(w, b.out, x) /\ Shows(b, x)
  BY DEF Builds
<1>3. Leads(x)'
  <2>1. FALSE \in BOOLEAN /\ stage # "ended"
    OBVIOUS
  <2> QED BY <1>1, <1>2, <2>1, YieldLeads
<1>4. chat'.b.out = <<>> /\ SameBlocks(b, chat'.b)
  BY <1>1 DEF Builders, SameBlocks
<1>5. Shows(chat'.b, x)
  BY <1>2, <1>4, SameShows
<1>6. Stands(x)'
  BY <1>4, <1>5 DEF Stands
<1> QED BY <1>3, <1>6 DEF Standing

\* What the client of an open stream will know.
LEMMA OpenStands ==
  ASSUME Inv, Contracted, phase = "streaming", stage = "open"
  PROVE  \E w \in Views :
           /\ Leads(w)
           /\ chain[cand].by = "chat" => Builds(w, chat.b) /\ Shows(chat.b, w)
           /\ chain[cand].by # "chat" => NativeShows(native, w)
<1>1. PICK w \in Views : Leads(w) /\ Stands(w)
  BY DEF Contracted, Standing
<1>2. chain[cand].by # "chat" => NativeShows(native, w)
  BY <1>1 DEF Stands
<1>3. ASSUME chain[cand].by = "chat" PROVE Builds(w, chat.b) /\ Shows(chat.b, w)
  <2>1. chat.b.out = <<>> /\ Shows(chat.b, w)
    BY <1>1, <1>3 DEF Stands
  <2>2. chat.b \in Builders
    BY DEF Inv, TypeOK, Chats
  <2>3. Path(w, <<>>, w)
    BY PathEmpty
  <2> QED BY <2>1, <2>2, <2>3 DEF Builds
<1> QED BY <1>1, <1>2, <1>3

\* A step of an open stream keeps the rest of it.
LEMMA OpenContracted ==
  ASSUME Contracted, phase = "streaming", phase' = "streaming", reading' = reading,
         stage' \in {"open", "ended"}, Standing'
  PROVE  Contracted'
BY DEF Contracted

\* A chunk of a chat answer leads the client to what its builder shows.
LEMMA ChatTextContracted ==
  ASSUME Unbounded, Inv, Contracted, ChatText PROVE Contracted'
<1>1. At("open") /\ wire = <<>> /\ stage = "open" /\ phase = "streaming"
      /\ chain[cand].by = "chat"
  BY DEF ChatText, ReadChunk, At
<1>2. UNCHANGED <<view, reading, stage, cand, chain, phase>>
  BY DEF ChatText, ReadChunk
<1>3. PICK w \in Views : Leads(w) /\ Builds(w, chat.b)
  BY <1>1, OpenStands
<1>4. PICK content \in Contents :
        LET think == FeedThink(chat.think, content)
            s == FoldLeft(EmitPart, [b |-> chat.b, tools |-> chat.tools], think.parts)
        IN  /\ Yield(s.b.out, FALSE)
            /\ chat' = [b |-> [s.b EXCEPT !.out = <<>>],
                        think |-> [think EXCEPT !.parts = <<>>],
                        tools |-> [s.tools EXCEPT !.shown = <<>>, !.calls = 0],
                        fed |-> chat.fed \o content]
            /\ UNCHANGED native
  BY DEF ChatText
<1> DEFINE think == FeedThink(chat.think, content)
           s0 == [b |-> chat.b, tools |-> chat.tools]
           s == FoldLeft(EmitPart, s0, think.parts)
<1>5. chat \in Chats /\ content \in Text
  BY ContentsAssumption DEF Inv, TypeOK, Text
<1>6. s0 \in Speakers /\ s0.b = chat.b
  BY <1>5 DEF Chats, Speakers
<1>7. think.parts \in Seq(Parts)
  <2>1. FeedThink(chat.think, content) \in ThinkStates
    BY <1>5, FeedThinkType DEF Chats
  <2> QED BY <2>1 DEF ThinkStates
<1>8. Yield(s.b.out, FALSE) /\ chat'.b = [s.b EXCEPT !.out = <<>>]
  BY <1>4
<1> HIDE DEF think, s0
<1>9. Builds(w, s.b)
  BY <1>3, <1>6, <1>7, EmitPartsBuilds
<1> HIDE DEF s
<1>10. Standing'
  BY <1>1, <1>2, <1>3, <1>8, <1>9, ChatStands
<1> QED BY <1>1, <1>2, <1>10, OpenContracted

\* What a chat transport yields from its builder.
LEMMA ChatYieldsContracted ==
  ASSUME Inv, Contracted, At("open"), chain[cand].by = "chat",
         UNCHANGED <<view, reading, stage, cand, chain, phase>>,
         NEW w, Leads(w), NEW b, Builds(w, b), ChatYields(b)
  PROVE  Contracted'
<1>1. wire = <<>> /\ stage = "open" /\ phase = "streaming"
  BY DEF At
<1>2. Yield(b.out, FALSE) /\ chat'.b = [b EXCEPT !.out = <<>>]
  BY DEF ChatYields, Inv, TypeOK, Chats
<1>3. Standing'
  BY <1>1, <1>2, ChatStands
<1> QED BY <1>1, <1>3, OpenContracted

\* The other steps of a chat answer, and how it ends.
LEMMA ChatReasoningContracted ==
  ASSUME Unbounded, Inv, Contracted, ChatReasoning PROVE Contracted'
<1>1. At("open") /\ wire = <<>> /\ stage = "open" /\ phase = "streaming"
      /\ chain[cand].by = "chat"
  BY DEF ChatReasoning, ReadChunk, At
<1>2. UNCHANGED <<view, reading, stage, cand, chain, phase>>
  BY DEF ChatReasoning, ReadChunk
<1>3. PICK w \in Views : Leads(w) /\ Builds(w, chat.b) /\ Shows(chat.b, w)
  BY <1>1, OpenStands
<1>4. CASE thinkingEnabled
  <2>1. ChatYields(EmitThinking(chat.b, <<"word">>))
    BY <1>4 DEF ChatReasoning
  <2>2. <<"word">> \in Text
    BY DEF Text, Symbols
  <2>3. Builds(w, EmitThinking(chat.b, <<"word">>))
    BY <1>3, <2>2, EmitThinkingBuilds
  <2> QED BY <1>1, <1>2, <1>3, <2>1, <2>3, ChatYieldsContracted
<1>5. CASE ~thinkingEnabled
  <2>1. UNCHANGED <<chat, native, held, wire, committed>>
    BY <1>5 DEF ChatReasoning
  <2>2. Standing'
    BY <1>1, <1>2, <2>1 DEF Contracted, Standing, Leads, Stands
  <2> QED BY <1>1, <1>2, <2>2, OpenContracted
<1> QED BY <1>4, <1>5

LEMMA ChatToolContracted ==
  ASSUME Unbounded, Inv, Contracted, ChatTool PROVE Contracted'
<1>1. At("open") /\ stage = "open" /\ phase = "streaming" /\ chain[cand].by = "chat"
  BY DEF ChatTool, ReadChunk, At
<1>2. UNCHANGED <<view, reading, stage, cand, chain, phase>>
  BY DEF ChatTool, ReadChunk
<1>3. PICK w \in Views : Leads(w) /\ Builds(w, chat.b)
  BY <1>1, OpenStands
<1>4. PICK call \in ToolChunks : ChatYields(ToolDelta(chat.b, call[1], call[2], call[3]))
  BY DEF ChatTool
<1>5. call[1] \in ToolIndexes /\ call[2] \in Seq(Fragments) /\ call[3] \in Nat
  <2>1. call[1] \in ToolIndexes /\ call[2] \in Seq(ToSet(call[2])) /\ call[3] \in Nat
    BY ToolChunksAssumption
  <2>2. ToSet(call[2]) \subseteq Fragments
    BY DEF Fragments
  <2> QED BY <2>1, <2>2
<1>6. Builds(w, ToolDelta(chat.b, call[1], call[2], call[3]))
  BY <1>3, <1>5, ToolDeltaBuilds
<1> QED BY <1>1, <1>2, <1>3, <1>4, <1>6, ChatYieldsContracted

\* A generator's last events are the end of a message.
LEMMA EndsContracted ==
  ASSUME Inv, Contracted, phase = "streaming", stage # "ended", wire = <<>>,
         NEW events \in Seq(Emitted), NEW how, GeneratorEnds(events, how),
         NEW w, Leads(w), Ends(w, events)
  PROVE  Contracted'
<1>1. /\ Yield(events, TRUE) /\ stage' = "ended"
      /\ UNCHANGED <<view, reading, phase>>
  BY DEF GeneratorEnds, unchangedRequest
<1>2. Standing'
  BY <1>1, EndsStands
<1> QED BY <1>1, <1>2 DEF Contracted

LEMMA ChatEndsContracted ==
  ASSUME Unbounded, Inv, Contracted, ChatEnds PROVE Contracted'
<1>1. wire = <<>> /\ stage = "open" /\ phase = "streaming" /\ chain[cand].by = "chat"
  BY DEF ChatEnds, At
<1>2. PICK w \in Views : Leads(w) /\ Builds(w, chat.b)
  BY <1>1, OpenStands
<1> DEFINE b == FlushedBuilder
<1>3. GeneratorEnds(FinishMessage(b).out, "normal")
  BY DEF ChatEnds
<1>4. chat \in Chats /\ Recording(chat.b)
  BY <1>1 DEF Inv, TypeOK, Records, Stages
<1>5. b \in Builders /\ Recording(b)
  <2>1. b \in Builders /\ b.tools = chat.b.tools
    BY <1>4, FlushedBuilderType DEF Chats
  <2> QED BY <1>4, <2>1 DEF Recording
<1>6. Builds(w, b)
  BY <1>2, <1>4, FlushedBuilderBuilds DEF Chats
<1> HIDE DEF b
<1>7. Ends(w, FinishMessage(b).out)
  BY <1>5, <1>6, FinishMessageEnds
<1>8. FinishMessage(b).out \in Seq(Emitted)
  <2>1. FinishMessage(b) \in Builders
    BY <1>5, FinishMessageType
  <2> QED BY <2>1 DEF Builders
<1>9. stage # "ended"
  BY <1>1
<1> QED BY <1>1, <1>2, <1>3, <1>7, <1>8, <1>9, EndsContracted

\* The events of a failed answer.
LEMMA FailMessageOut ==
  ASSUME NEW b \in Builders
  PROVE  FailMessage(b).out \in Seq(Emitted)
<1>1. FailMessage(b) \in Builders
  BY FailMessageType
<1> QED BY <1>1 DEF Builders

LEMMA ChatFailsContracted ==
  ASSUME Unbounded, Inv, Contracted, ChatFails PROVE Contracted'
<1>1. wire = <<>> /\ stage = "open" /\ phase = "streaming" /\ chain[cand].by = "chat"
  BY DEF ChatFails, At
<1>2. PICK w \in Views : Leads(w) /\ Builds(w, chat.b)
  BY <1>1, OpenStands
<1>3. GeneratorEnds(FailMessage(chat.b).out, "error")
  BY DEF ChatFails
<1>4. FailMessage(chat.b).out \in Seq(Emitted)
  BY FailMessageOut DEF Inv, TypeOK, Chats
<1>5. Ends(w, FailMessage(chat.b).out)
  BY <1>2, FailMessageEnds
<1>6. stage # "ended"
  BY <1>1
<1> QED BY <1>1, <1>2, <1>3, <1>4, <1>5, <1>6, EndsContracted

\* What a native stream yields leads the client to what it shows.
LEMMA NativeStands ==
  ASSUME Inv, Contracted, At("open"), chain[cand].by = "native",
         UNCHANGED <<view, reading, stage, cand, chain, phase>>,
         NEW w, Leads(w), NEW events \in Seq(Emitted), Yield(events, FALSE),
         NEW x \in Views, Path(w, events, x), NativeShows(native', x)
  PROVE  Contracted'
<1>1. wire = <<>> /\ stage = "open" /\ stage # "ended" /\ phase = "streaming"
  BY DEF At
<1>2. Leads(x)'
  <2>1. FALSE \in BOOLEAN
    OBVIOUS
  <2> QED BY <1>1, <2>1, YieldLeads
<1>3. Stands(x)'
  <2>1. stage' = "open" /\ chain'[cand'].by = "native"
    BY <1>1
  <2> QED BY <2>1 DEF Stands
<1>4. Standing'
  BY <1>2, <1>3 DEF Standing
<1> QED BY <1>1, <1>4, OpenContracted

\* The steps of a native stream, and how it ends.
LEMMA NativeYieldsContracted ==
  ASSUME Inv, Contracted, NativeReads, NEW policy \in Policies, NEW up,
         NativeYields(policy, up), NEW w, Leads(w),
         \E x \in Views : Path(w, policy.out, x) /\ NativeShows(Drained(native, policy, up), x)
  PROVE  Contracted'
<1>1. At("open") /\ chain[cand].by = "native"
      /\ UNCHANGED <<view, reading, stage, cand, chain, phase>>
  BY DEF NativeReads, ReadChunk
<1>2. Yield(policy.out, FALSE) /\ native' = Drained(native, policy, up)
  BY DEF NativeYields, Drained
<1>3. policy.out \in Seq(Emitted)
  BY DEF Policies
<1>4. PICK x \in Views : Path(w, policy.out, x) /\ NativeShows(Drained(native, policy, up), x)
  OBVIOUS
<1> QED BY <1>1, <1>2, <1>3, <1>4, NativeStands

\* What a native stream has been told of, and will have told the client.
LEMMA NativeReading ==
  ASSUME Inv, Contracted, At("open"), chain[cand].by = "native"
  PROVE  /\ native \in Natives /\ native.policy \in Policies /\ native.up \in Ups
         /\ \E w \in Views : Leads(w) /\ NativeShows(native, w)
<1>1. stage = "open" /\ phase = "streaming" /\ chain[cand].by # "chat"
  BY DEF At
<1>2. native \in Natives
  BY DEF Inv, TypeOK
<1>3. \E w \in Views : Leads(w) /\ NativeShows(native, w)
  BY <1>1, OpenStands
<1> QED BY <1>2, <1>3 DEF Natives, Ups

LEMMA NativeStartContracted ==
  ASSUME Unbounded, Inv, Contracted, NativeStart PROVE Contracted'
<1>1. NativeReads /\ ~native.sent /\ At("open") /\ chain[cand].by = "native"
  BY DEF NativeStart, NativeReads, ReadChunk
<1>2. native \in Natives /\ native.policy \in Policies
  BY <1>1, NativeReading
<1>3. PICK w \in Views : Leads(w) /\ NativeShows(native, w)
  BY <1>1, NativeReading
<1>4. w = Empty
  BY <1>1, <1>3 DEF NativeShows
<1> DEFINE policy == Yielding(native.policy, <<MessageStart>>)
<1>5. NativeYields(policy, native.up)
  BY DEF NativeStart
<1>6. policy \in Policies
  BY <1>2, EventTypes, Singletons, PolicyYields
<1>7. \E x \in Views : Path(Empty, policy.out, x)
                      /\ NativeShows(Drained(native, policy, native.up), x)
  BY <1>1, <1>2, <1>3, <1>4, StartedShows
<1> HIDE DEF policy
<1> QED BY <1>1, <1>3, <1>4, <1>5, <1>6, <1>7, NativeYieldsContracted

\* The policy answers an event of a block.
LEMMA PolicyContracted ==
  ASSUME Unbounded, Inv, Contracted, NativeReads, native.sent, NEW policy, NEW up,
         NativeYields(policy, up), NEW w \in Views, Leads(w), NativeShows(native, w),
         Polices(w, policy, up)
  PROVE  Contracted'
<1>1. ~native.stopped /\ At("open") /\ chain[cand].by = "native"
  BY DEF NativeReads, ReadChunk
<1>2. native \in Natives
  BY <1>1, NativeReading
<1>3. policy \in Policies
  BY DEF Polices
<1>4. \E x \in Views : Path(w, policy.out, x) /\ NativeShows(Drained(native, policy, up), x)
  BY <1>1, <1>2, DrainedShows
<1> QED BY <1>3, <1>4, NativeYieldsContracted

LEMMA NativeBlockStartContracted ==
  ASSUME Unbounded, Inv, Contracted, NativeBlockStart PROVE Contracted'
<1>1. NativeReads /\ native.sent /\ At("open") /\ chain[cand].by = "native"
  BY DEF NativeBlockStart, NativeReads, ReadChunk
<1>2. native.policy \in Policies /\ native.up \in Ups
  BY <1>1, NativeReading
<1>3. PICK w \in Views : Leads(w) /\ NativeShows(native, w)
  BY <1>1, NativeReading
<1>4. native.policy.out = <<>> /\ Policed(native.policy, native.up, w)
  BY <1>1, <1>3 DEF NativeShows
<1>5. PICK u \in Upstream, kind \in {"text", "thinking", "tool_use"} :
        /\ native.up[u] = "new"
        /\ NativeYields(PolicyStart(native.policy, u, kind, thinkingEnabled),
                        [native.up EXCEPT ![u] = kind])
  BY DEF NativeBlockStart
<1>6. Polices(w, PolicyStart(native.policy, u, kind, thinkingEnabled),
              [native.up EXCEPT ![u] = kind])
  <2>1. kind \in BlockKinds
    BY DEF BlockKinds
  <2> QED BY <1>2, <1>4, <1>5, <2>1, PolicyStartPolices
<1> QED BY <1>1, <1>3, <1>5, <1>6, PolicyContracted

LEMMA NativeDeltaContracted ==
  ASSUME Unbounded, Inv, Contracted, NativeDelta, ~stray' PROVE Contracted'
<1>1. NativeReads /\ native.sent /\ At("open") /\ chain[cand].by = "native"
  BY DEF NativeDelta, NativeReads, ReadChunk
<1>2. native.policy \in Policies /\ native.up \in Ups
  BY <1>1, NativeReading
<1>3. PICK w \in Views : Leads(w) /\ NativeShows(native, w)
  BY <1>1, NativeReading
<1>4. native.policy.out = <<>> /\ Policed(native.policy, native.up, w)
  BY <1>1, <1>3 DEF NativeShows
<1>5. PICK u \in Upstream, kind \in {"text", "thinking", "tool_use"} :
        /\ native.up[u] \in {kind, "new"}
        /\ NativeYields(PolicyDelta(native.policy, u, kind, thinkingEnabled),
                        [native.up EXCEPT ![u] = IF kind = "thinking" THEN @ ELSE kind])
        /\ ~PassesDelta(native.policy, u, kind, thinkingEnabled)
  BY DEF NativeDelta
<1>6. Polices(w, PolicyDelta(native.policy, u, kind, thinkingEnabled),
              [native.up EXCEPT ![u] = IF kind = "thinking" THEN @ ELSE kind])
  <2>1. kind \in BlockKinds
    BY DEF BlockKinds
  <2> QED BY <1>2, <1>4, <1>5, <2>1, PolicyDeltaPolices
<1> QED BY <1>1, <1>3, <1>5, <1>6, PolicyContracted

LEMMA NativeBlockStopContracted ==
  ASSUME Unbounded, Inv, Contracted, NativeBlockStop, ~stray' PROVE Contracted'
<1>1. NativeReads /\ native.sent /\ At("open") /\ chain[cand].by = "native"
  BY DEF NativeBlockStop, NativeReads, ReadChunk
<1>2. native.policy \in Policies /\ native.up \in Ups
  BY <1>1, NativeReading
<1>3. PICK w \in Views : Leads(w) /\ NativeShows(native, w)
  BY <1>1, NativeReading
<1>4. native.policy.out = <<>> /\ Policed(native.policy, native.up, w)
  BY <1>1, <1>3 DEF NativeShows
<1>5. PICK u \in Upstream :
        /\ NativeYields(PolicyStop(native.policy, u, thinkingEnabled),
                        [native.up EXCEPT ![u] = IF @ = "new" THEN @ ELSE "closed"])
        /\ ~PassesStop(native.policy, u, thinkingEnabled)
  BY DEF NativeBlockStop
<1>6. Polices(w, PolicyStop(native.policy, u, thinkingEnabled),
              [native.up EXCEPT ![u] = IF @ = "new" THEN @ ELSE "closed"])
  <2>1. CASE native.up[u] = "new"
    <3>1. [native.up EXCEPT ![u] = IF @ = "new" THEN @ ELSE "closed"] = native.up
      BY <1>2, <2>1 DEF Ups
    <3> QED BY <1>2, <1>4, <1>5, <2>1, <3>1, StopOfNone
  <2>2. CASE native.up[u] # "new"
    <3>1. [native.up EXCEPT ![u] = IF @ = "new" THEN @ ELSE "closed"]
            = [native.up EXCEPT ![u] = "closed"]
      BY <2>2
    <3> QED BY <1>2, <1>4, <1>5, <2>2, <3>1, PolicyStopPolices
  <2> QED BY <2>1, <2>2
<1> QED BY <1>1, <1>3, <1>5, <1>6, PolicyContracted

LEMMA NativeMessageStopContracted ==
  ASSUME Unbounded, Inv, Contracted, NativeMessageStop PROVE Contracted'
<1>1. /\ At("open") /\ chain[cand].by = "native" /\ native.sent
      /\ \A u \in Upstream : native.up[u] \in {"new", "closed"}
      /\ UNCHANGED <<view, reading, stage, cand, chain, phase>>
      /\ Yield(<<MessageDelta, MessageStop>>, FALSE)
      /\ native' = [native EXCEPT !.stopped = TRUE]
  BY DEF NativeMessageStop, unchangedRequest
<1>2. native \in Natives
  BY <1>1, NativeReading
<1>3. PICK w \in Views : Leads(w) /\ NativeShows(native, w)
  BY <1>1, NativeReading
<1>4. PICK x \in Views : /\ Path(w, <<MessageDelta, MessageStop>>, x)
                         /\ NativeShows([native EXCEPT !.stopped = TRUE], x)
  BY <1>1, <1>2, <1>3, StoppedShows
<1>5. <<MessageDelta, MessageStop>> \in Seq(Emitted)
  BY EventTypes, Pairs
<1> QED BY <1>1, <1>3, <1>4, <1>5, NativeStands

LEMMA NativeEndsContracted ==
  ASSUME Unbounded, Inv, Contracted, NativeEnds PROVE Contracted'
<1>1. /\ At("open") /\ chain[cand].by = "native" /\ native.stopped
      /\ GeneratorEnds(<<>>, "normal")
  BY DEF NativeEnds
<1>2. wire = <<>> /\ stage = "open" /\ stage # "ended" /\ phase = "streaming"
  BY <1>1 DEF At
<1>3. PICK w \in Views : Leads(w) /\ NativeShows(native, w)
  BY <1>1, NativeReading
<1>4. Ends(w, <<>>)
  <2>1. Path(w, <<>>, w) /\ WellFormed(w)
    BY <1>1, <1>3, PathEmpty DEF NativeShows
  <2> QED BY <2>1 DEF Ends
<1>5. <<>> \in Seq(Emitted)
  OBVIOUS
<1> QED BY <1>1, <1>2, <1>3, <1>4, <1>5, EndsContracted

LEMMA NativeFailsContracted ==
  ASSUME Unbounded, Inv, Contracted, NativeFails PROVE Contracted'
<1> DEFINE events == IF native.sent THEN ErrorTail(native.tracker) ELSE ErrorMessage(FALSE)
<1>1. At("open") /\ chain[cand].by = "native" /\ GeneratorEnds(events, "error")
  BY DEF NativeFails
<1>2. wire = <<>> /\ stage = "open" /\ stage # "ended" /\ phase = "streaming"
  BY <1>1 DEF At
<1>3. PICK w \in Views : Leads(w) /\ NativeShows(native, w)
  BY <1>1, NativeReading
<1>4. Ends(w, events)
  BY <1>3, NativeFailsEnds
<1>5. events \in Seq(Emitted)
  BY <1>1, NativeReading, ErrorTailType, ErrorMessageType DEF Natives
<1> HIDE DEF events
<1> QED BY <1>1, <1>2, <1>3, <1>4, <1>5, EndsContracted

\* A candidate fails before it was opened: nothing of it is told, or an error is.
LEMMA FailsContracted ==
  ASSUME Unbounded, Inv, Contracted, phase = "streaming", stage \in {"start", "opening"},
         wire = <<>>, ProviderFails, UNCHANGED <<view, reading, chain>>,
         IsLast => stage = "start"
  PROVE  Contracted'
<1>1. CASE ~IsLast
  <2>1. /\ stage' = "start" /\ held' = <<>> /\ wire' = <<>> /\ committed' = committed
        /\ chat' = FreshChat /\ native' = FreshNative /\ phase' = phase
    BY <1>1 DEF ProviderFails
  <2>2. ~committed
    BY <1>1 DEF Inv, Speaks, IsLast
  <2>3. view' = Empty
    BY <2>2 DEF Contracted
  <2>4. Leads(Empty)'
    BY <2>1, <2>3, NothingLeads
  <2>5. Stands(Empty)'
    BY <2>1 DEF Stands
  <2>6. Standing'
    BY <2>4, <2>5, EmptyFacts DEF Standing
  <2> QED BY <2>1, <2>2, <2>3, <2>6 DEF Contracted
<1>2. CASE IsLast
  <2>1. Yield(ErrorMessage(committed), TRUE) /\ stage' = "ended" /\ phase' = phase
    BY <1>2 DEF ProviderFails
  <2>2. committed = FALSE /\ stage = "start"
    BY <1>2 DEF Contracted, Inv, TypeOK
  <2>3. PICK w \in Views : Leads(w) /\ w = Empty
    BY <2>2 DEF Contracted, Standing, Stands
  <2>4. Ends(w, ErrorMessage(committed))
    BY <2>2, <2>3, ErrorMessageEnds
  <2>5. ErrorMessage(committed) \in Seq(Emitted)
    BY ErrorMessageType
  <2>6. Standing'
    BY <2>1, <2>2, <2>3, <2>4, <2>5, EndsStands
  <2> QED BY <2>1, <2>6 DEF Contracted
<1> QED BY <1>1, <1>2

\* A stream that breaks is left as it is.
LEMMA BreaksContracted ==
  ASSUME Contracted, StreamBreaks, phase = "streaming", UNCHANGED <<view, reading>>
  PROVE  Contracted'
BY DEF Contracted, StreamBreaks

\* A candidate is tried: its message begins, or it fails, or the stream breaks.
LEMMA SelectCandidateContracted ==
  ASSUME Unbounded, Inv, Contracted, SelectCandidate PROVE Contracted'
<1>1. wire = <<>> /\ stage = "start" /\ phase = "streaming" /\ UNCHANGED <<view, reading, chain>>
  BY DEF SelectCandidate, At, unchangedRequest
<1>2. CASE cand > 1 /\ chain[cand].able /\ ProviderFails
  BY <1>1, <1>2, FailsContracted
<1>3. CASE cand > 1 /\ StreamBreaks
  BY <1>1, <1>3, BreaksContracted
<1>4. CASE /\ chain[cand].able
           /\ stage' = "opening"
           /\ Yield(IF chain[cand].by = "chat" THEN <<MessageStart>> ELSE <<>>, FALSE)
           /\ UNCHANGED <<phase, cand, chat, native, ending>>
  <2> DEFINE events == IF chain[cand].by = "chat" THEN <<MessageStart>> ELSE <<>>
  <2>1. Leads(Empty)
    BY <1>1 DEF Contracted, Standing, Stands
  <2>2. events \in Seq(Emitted)
    BY EventTypes, Singletons
  <2>3. \E x \in Views :
          /\ Path(Empty, events, x)
          /\ IF chain[cand].by = "chat"
             THEN x.begun /\ x.open = {} /\ x.kinds = Empty.kinds ELSE x = Empty
    BY PathBegin, PathEmpty, EmptyFacts
  <2>4. Yield(events, FALSE)
    BY <1>4
  <2> HIDE DEF events
  <2>5. PICK x \in Views :
          /\ Path(Empty, events, x)
          /\ IF chain[cand].by = "chat"
             THEN x.begun /\ x.open = {} /\ x.kinds = Empty.kinds ELSE x = Empty
    BY <2>3
  <2>6. Leads(x)'
    <3>1. FALSE \in BOOLEAN /\ stage # "ended"
      BY <1>1
    <3> QED BY <1>1, <2>1, <2>2, <2>4, <2>5, <3>1, YieldLeads
  <2>7. Stands(x)'
    <3>1. stage' = "opening" /\ chain'[cand'].by = chain[cand].by
      BY <1>1, <1>4
    <3> QED BY <2>5, <3>1 DEF Stands
  <2>8. ~committed /\ view = Empty /\ chat = FreshChat /\ native = FreshNative
    BY <1>1 DEF Contracted
  <2> QED BY <1>1, <1>4, <2>6, <2>7, <2>8 DEF Contracted, Standing
<1> QED BY <1>2, <1>3, <1>4 DEF SelectCandidate

\* Its stream opens.
LEMMA OpenStreamContracted ==
  ASSUME Unbounded, Inv, Contracted, OpenStream PROVE Contracted'
<1>1. /\ wire = <<>> /\ stage = "opening" /\ phase = "streaming" /\ stage' = "open"
      /\ UNCHANGED <<view, reading, chain, phase, cand, chat, native, held, wire>>
  BY DEF OpenStream, At, unchangedRequest
<1>2. PICK w \in Views : Leads(w) /\ Stands(w)
  BY <1>1 DEF Contracted, Standing
<1>3. chat = FreshChat /\ native = FreshNative
  BY <1>1 DEF Contracted
<1>4. CASE chain[cand].by = "chat"
  <2>1. w.begun /\ w.open = {} /\ w.kinds = Empty.kinds
    BY <1>1, <1>2, <1>4 DEF Stands
  <2>2. Shows(FreshBuilder, w)
    BY <2>1, FreshShows
  <2>3. chat.b = FreshBuilder /\ FreshBuilder.out = <<>>
    BY <1>3 DEF FreshChat, FreshBuilder
  <2> QED BY <1>1, <1>2, <1>4, <2>2, <2>3 DEF Contracted, Standing, Leads, Stands
<1>5. CASE chain[cand].by # "chat"
  <2>1. w = Empty
    BY <1>1, <1>2, <1>5 DEF Stands
  <2>2. NativeShows(native, w)
    BY <1>3, <2>1, FreshNativeShows
  <2> QED BY <1>1, <1>2, <1>5, <2>2 DEF Contracted, Standing, Leads, Stands
<1> QED BY <1>4, <1>5

\* It does not.
LEMMA OpenFailsContracted ==
  ASSUME Unbounded, Inv, Contracted, OpenFails PROVE Contracted'
<1>1. /\ wire = <<>> /\ stage = "opening" /\ stage # "ended" /\ phase = "streaming"
      /\ UNCHANGED <<view, reading, chain>>
  BY DEF OpenFails, At, unchangedRequest
<1>2. CASE ~IsLast /\ ProviderFails
  BY <1>1, <1>2, FailsContracted
<1>3. CASE StreamBreaks
  BY <1>1, <1>3, BreaksContracted
<1>4. CASE /\ IsLast
           /\ Yield(IF chain[cand].by = "chat" THEN FailMessage(chat.b).out
                    ELSE ErrorMessage(FALSE), TRUE)
           /\ stage' = "ended"
           /\ ending' = "error"
           /\ UNCHANGED <<phase, cand, chat, native>>
  <2> DEFINE events == IF chain[cand].by = "chat" THEN FailMessage(chat.b).out
                       ELSE ErrorMessage(FALSE)
  <2>1. PICK w \in Views : Leads(w) /\ Stands(w)
    BY <1>1 DEF Contracted, Standing
  <2>2. chat.b = FreshBuilder /\ FreshBuilder.out = <<>> /\ FreshBuilder \in Builders
    BY <1>1, FreshBuilderType DEF Contracted, FreshChat, FreshBuilder
  <2>3. events \in Seq(Emitted)
    BY <2>2, FailMessageOut, ErrorMessageType
  <2>4. ASSUME chain[cand].by = "chat" PROVE Ends(w, events)
    <3>1. w.begun /\ w.open = {} /\ w.kinds = Empty.kinds
      BY <1>1, <2>1, <2>4 DEF Stands
    <3>2. Builds(w, FreshBuilder)
      <4>1. Path(w, <<>>, w)
        BY PathEmpty
      <4> QED BY <2>2, <3>1, <4>1, FreshShows DEF Builds
    <3>3. Ends(w, FailMessage(FreshBuilder).out)
      BY <3>2, FailMessageEnds
    <3> QED BY <2>2, <2>4, <3>3
  <2>5. ASSUME chain[cand].by # "chat" PROVE Ends(w, events)
    <3>1. w = Empty
      BY <1>1, <2>1, <2>5 DEF Stands
    <3> QED BY <2>5, <3>1, ErrorMessageEnds
  <2>6. Ends(w, events)
    BY <2>4, <2>5
  <2>7. Yield(events, TRUE)
    BY <1>4
  <2> HIDE DEF events
  <2>8. Standing'
    BY <1>1, <1>4, <2>1, <2>3, <2>6, <2>7, EndsStands
  <2> QED BY <1>1, <1>4, <2>8 DEF Contracted
<1> QED BY <1>2, <1>3, <1>4 DEF OpenFails

-----------------------------------------------------------------------------
(* Every step *)

\* Before the stream, and where it was left, nothing is said to the client.
QuietContracted ==
  /\ UNCHANGED <<view, reading, stray, stage, chat, native, held, committed, wire>>
  /\ \/ phase' \in {"listing", "picked", "asked"} /\ phase \in {"listing", "picked", "asked"}
     \/ phase' = "streaming" /\ phase = "asked"
     \/ phase' \in Final \ {"done"} /\ phase # "done"
     \/ phase' = "done" /\ phase = "done"

\* The steps that do not touch the stream.
LEMMA QuietActions ==
  ASSUME Validate \/ Refresh \/ Pick \/ Apply \/ Route \/ Refuse \/ Optimize \/ StartStream
         \/ Disconnect \/ Over
  PROVE  QuietContracted
<1>1. CASE Validate
  BY <1>1 DEF QuietContracted, Validate, Query, notStreaming, streamVars
<1>2. CASE Refresh
  BY <1>2 DEF QuietContracted, Refresh, Query, notStreaming, streamVars
<1>3. CASE Pick
  BY <1>3 DEF QuietContracted, Pick, notStreaming, streamVars
<1>4. CASE Apply
  BY <1>4 DEF QuietContracted, Apply, notStreaming, streamVars
<1>5. CASE Route
  BY <1>5 DEF QuietContracted, Route, notStreaming, streamVars
<1>6. CASE Refuse
  BY <1>6 DEF QuietContracted, Refuse, Answer, notStreaming, streamVars, Final
<1>7. CASE Optimize
  BY <1>7 DEF QuietContracted, Optimize, Answer, notStreaming, streamVars, Final
<1>8. CASE StartStream
  BY <1>8 DEF QuietContracted, StartStream, Answer, notStreaming, streamVars, Final
<1>9. CASE Disconnect
  BY <1>9 DEF QuietContracted, Disconnect, streamVars, Final
<1>10. CASE Over
  BY <1>10 DEF QuietContracted, Over, vars, streamVars, Final
<1> QED BY <1>1, <1>2, <1>3, <1>4, <1>5, <1>6, <1>7, <1>8, <1>9, <1>10

\* They keep the invariant.
LEMMA QuietKept ==
  ASSUME Inv, Contracted, QuietContracted PROVE Contracted'
<1>1. ASSUME phase' = "streaming" PROVE Standing'
  <2>1. phase = "asked"
    BY <1>1 DEF QuietContracted, Final
  <2>2. stage = "start" /\ held = <<>> /\ wire = <<>> /\ view = Empty
    BY <2>1 DEF Inv, Stages, Contracted
  <2>3. stage' = "start" /\ held' = <<>> /\ wire' = <<>> /\ view' = Empty
    BY <2>2 DEF QuietContracted
  <2>4. Leads(Empty)'
    BY <2>3, NothingLeads
  <2>5. Stands(Empty)'
    BY <2>3 DEF Stands
  <2> QED BY <2>4, <2>5, EmptyFacts DEF Standing
<1> QED BY <1>1 DEF Contracted, QuietContracted, Final

\* The server's own events are a whole message.
LEMMA WebToolContracted ==
  ASSUME Unbounded, Inv, Contracted, WebTool PROVE Contracted'
<1>1. /\ phase = "asked" /\ phase' = "streaming" /\ stage' = "ended"
      /\ wire' = [j \in DOMAIN WebEvents |-> [by |-> 0, event |-> WebEvents[j]]]
      /\ UNCHANGED <<view, reading, held, committed>>
  BY DEF WebTool
<1>2. held' = <<>> /\ view' = Empty
  BY <1>1 DEF Inv, Stages, Contracted
<1>3. wire' \in Seq(Entries(0)) /\ Len(wire') = Len(WebEvents) /\ Len(WebEvents) \in Nat
      /\ \A j \in 1 .. Len(WebEvents) : wire'[j].event = WebEvents[j]
  <2>1. WebEvents \in Seq(Emitted) /\ Len(WebEvents) \in Nat
    BY WebEventsType
  <2> DEFINE n == Len(WebEvents)
             s == [j \in 1 .. n |-> [by |-> 0, event |-> WebEvents[j]]]
  <2>2. DOMAIN WebEvents = 1 .. n /\ \A j \in 1 .. n : WebEvents[j] \in Emitted
    BY <2>1
  <2>3. wire' = s
    BY <1>1, <2>2
  <2> HIDE DEF n
  <2>4. \A j \in 1 .. n : [by |-> 0, event |-> WebEvents[j]] \in Entries(0)
    BY <2>2 DEF Entries
  <2>5. s \in Seq(Entries(0)) /\ Len(s) = n /\ \A j \in 1 .. n : s[j].event = WebEvents[j]
    BY <2>1, <2>4 DEF n
  <2> QED BY <2>1, <2>3, <2>5 DEF n
<1>4. EventsOf(wire') = WebEvents
  <2>1. WebEvents \in Seq(Emitted)
    BY WebEventsType
  <2>2. EventsOf(wire') \in Seq(Emitted) /\ Len(EventsOf(wire')) = Len(WebEvents)
        /\ \A j \in 1 .. Len(WebEvents) : EventsOf(wire')[j] = wire'[j].event
    BY <1>3, EventsOfType
  <2> QED BY <1>3, <2>1, <2>2, SeqEqual
<1>5. wire' \o held' = wire'
  BY <1>2, <1>3, ConcatEmptySeq
<1>6. PICK w \in Views : Path(Empty, WebEvents, w) /\ WellFormed(w)
  BY WebEventsEnds DEF Ends
<1>7. Path(view', EventsOf(wire' \o held'), w)
  BY <1>2, <1>4, <1>5, <1>6
<1>8. Stands(w)'
  BY <1>1, <1>2, <1>6 DEF Stands
<1>9. Standing'
  BY <1>7, <1>8 DEF Standing, Leads
<1> QED BY <1>1, <1>9 DEF Contracted

\* What is delivered first, and what is left.
LEMMA FirstOf ==
  ASSUME NEW S, NEW s \in Seq(S), s # <<>>, NEW t \in Seq(S)
  PROVE  /\ s \o t \in Seq(S) /\ s \o t # <<>> /\ Head(s \o t) = Head(s)
         /\ Tail(s \o t) = Tail(s) \o t
<1> DEFINE all == s \o t
           r == Tail(s)
           m == Len(s)
           n == Len(t)
<1>1. m \in Nat /\ m > 0 /\ n \in Nat /\ r \in Seq(S)
  OBVIOUS
<1>2. /\ all \in Seq(S) /\ Len(all) = m + n
      /\ \A j \in 1 .. m + n : all[j] = IF j <= m THEN s[j] ELSE t[j - m]
  BY ConcatProperties
<1>3. Len(r) = m - 1 /\ \A j \in 1 .. m - 1 : r[j] = s[j + 1]
  BY HeadTailProperties
<1>4. /\ r \o t \in Seq(S) /\ Len(r \o t) = Len(r) + n
      /\ \A j \in 1 .. Len(r) + n : (r \o t)[j] = IF j <= Len(r) THEN r[j] ELSE t[j - Len(r)]
  BY <1>1, ConcatProperties
<1>5. Head(s) = s[1]
  BY <1>1
<1> HIDE DEF all, r, m, n
<1>6. all # <<>> /\ Head(all) = all[1] /\ 1 \in 1 .. m + n
  BY <1>1, <1>2
<1>7. Head(all) = Head(s)
  BY <1>1, <1>2, <1>5, <1>6
<1>8. /\ Tail(all) \in Seq(S) /\ Len(Tail(all)) = m + n - 1
      /\ \A j \in 1 .. m + n - 1 : Tail(all)[j] = all[j + 1]
  BY <1>1, <1>2, <1>6, HeadTailProperties
<1>9. ASSUME NEW j \in 1 .. m + n - 1 PROVE Tail(all)[j] = (r \o t)[j]
  <2>1. j + 1 \in 1 .. m + n /\ j \in 1 .. Len(r) + n
    BY <1>1, <1>3
  <2>2. CASE j <= m - 1
    <3>1. j \in 1 .. m - 1 /\ j + 1 <= m
      BY <1>1, <2>2
    <3> QED BY <1>2, <1>3, <1>4, <1>8, <2>1, <2>2, <3>1
  <2>3. CASE ~(j <= m - 1)
    <3>1. ~(j + 1 <= m) /\ (j + 1) - m = j - (m - 1)
      BY <1>1, <2>3
    <3> QED BY <1>2, <1>3, <1>4, <1>8, <2>1, <2>3, <3>1
  <2> QED BY <2>2, <2>3
<1>10. Tail(all) = r \o t
  <2>1. Len(r \o t) = m + n - 1
    BY <1>1, <1>3, <1>4
  <2> QED BY <1>4, <1>8, <1>9, <2>1, SeqEqual
<1> QED BY <1>2, <1>6, <1>7, <1>10 DEF all, r

\* The client receives what the contract allows.
LEMMA DeliverContracted ==
  ASSUME Inv, Contracted, Deliver PROVE Receive /\ Contracted'
<1> DEFINE S == Entries(Speaker)
           s == wire \o held
           e == Head(wire).event
<1>1. /\ phase = "streaming" /\ wire # <<>> /\ view' = After(view, e) /\ wire' = Tail(wire)
      /\ UNCHANGED <<reading, stray, chain, phase, cand, stage, chat, native, held, committed>>
  BY DEF Deliver
<1>2. PICK w \in Views : Leads(w) /\ Stands(w)
  BY <1>1 DEF Contracted, Standing
<1>3. wire \in Seq(S) /\ held \in Seq(S)
  BY DEF Inv, TypeOK
<1> HIDE DEF S
<1>4. s \in Seq(S) /\ s # <<>> /\ Head(s) = Head(wire) /\ Tail(s) = Tail(wire) \o held
  BY <1>1, <1>3, FirstOf
<1> HIDE DEF s
<1>5. /\ EventsOf(s) # <<>> /\ Head(EventsOf(s)) = e /\ EventsOf(Tail(s)) = Tail(EventsOf(s))
      /\ EventsOf(s) \in Seq(Emitted)
  BY <1>4, EventsOfTail, EventsOfType DEF S
<1> HIDE DEF e
<1>6. Path(view, EventsOf(s), w)
  BY <1>2 DEF Leads, s
<1>7. Sound(view, e) /\ Path(After(view, e), Tail(EventsOf(s)), w)
  BY <1>5, <1>6, PathHead
<1>8. Receive
  <2>1. Read(e) \in Events /\ Allowed(view, Read(e)) /\ view' = After(view, Read(e))
    BY <1>1, <1>7 DEF Sound, Allowed, After, Read
  <2>2. reading /\ reading' = reading /\ stray' = stray
    BY <1>1 DEF Contracted
  <2> QED BY <2>1, <2>2 DEF Receive
<1>9. Leads(w)'
  <2>1. Path(view', EventsOf(wire' \o held'), w)
    BY <1>1, <1>4, <1>5, <1>7
  <2> QED BY <2>1 DEF Leads
<1>10. Stands(w)'
  BY <1>1, <1>2 DEF Stands
<1>11. stage \in {"start", "opening"} => committed
  BY <1>1 DEF Inv, Speaks
<1> QED BY <1>1, <1>8, <1>9, <1>10, <1>11 DEF Contracted, Standing

\* A stream that is done was a whole message.
LEMMA CompletedContracted ==
  ASSUME Inv, Contracted, Completed PROVE Complete /\ Contracted'
<1>1. /\ phase = "streaming" /\ stage = "ended" /\ wire = <<>> /\ phase' = "done"
      /\ reading' = FALSE /\ UNCHANGED <<view, stray, stage>>
  BY DEF Completed, At, streamVars
<1>2. PICK w \in Views : Leads(w) /\ Stands(w)
  BY <1>1 DEF Contracted, Standing
<1>3. WellFormed(w) /\ held = <<>>
  BY <1>1, <1>2 DEF Stands
<1>4. EventsOf(wire \o held) = <<>>
  <2>1. <<>> \in Seq(Emitted)
    OBVIOUS
  <2>2. <<>> \o <<>> = <<>>
    BY <2>1, ConcatEmptySeq
  <2>3. EventsOf(<<>>) = <<>>
    BY DEF EventsOf
  <2> QED BY <1>1, <1>3, <2>2, <2>3
<1>5. view = w
  BY <1>2, <1>4, PathNone DEF Leads
<1>6. reading
  BY <1>1 DEF Contracted
<1>7. Complete
  BY <1>1, <1>3, <1>5, <1>6 DEF Complete
<1> QED BY <1>1, <1>7 DEF Contracted

\* What was let through stays so; while nothing is, the variable does not change.
StrayKept == (stray => stray') /\ (~stray' => stray' = stray)

LEMMA StrayStays ==
  ASSUME stray \in BOOLEAN, [Next]_vars PROVE StrayKept /\ stray' \in BOOLEAN
<1> USE DEF StrayKept
<1>1. CASE NativeDelta
  BY <1>1 DEF NativeDelta, PassesDelta
<1>2. CASE NativeBlockStop
  BY <1>2 DEF NativeBlockStop, PassesStop
<1>3. ASSUME UNCHANGED stray PROVE StrayKept /\ stray' \in BOOLEAN
  BY <1>3
<1>4. CASE Validate \/ Refresh \/ Pick \/ Apply \/ Route \/ Refuse \/ Optimize \/ StartStream
           \/ Disconnect \/ Over
  BY <1>3, <1>4, QuietActions DEF QuietContracted
<1>5. CASE WebTool
  BY <1>3, <1>5 DEF WebTool
<1>6. CASE SelectCandidate \/ OpenStream \/ OpenFails
  BY <1>3, <1>6 DEF SelectCandidate, OpenStream, OpenFails, unchangedRequest
<1>7. CASE ChatText \/ ChatReasoning \/ ChatTool
  BY <1>3, <1>7 DEF ChatText, ChatReasoning, ChatTool, ChatYields
<1>8. CASE ChatEnds \/ ChatFails
  BY <1>3, <1>8 DEF ChatEnds, ChatFails, GeneratorEnds, unchangedRequest
<1>9. CASE NativeStart \/ NativeBlockStart
  BY <1>3, <1>9 DEF NativeStart, NativeBlockStart
<1>10. CASE NativeMessageStop \/ NativeEnds \/ NativeFails
  BY <1>3, <1>10 DEF NativeMessageStop, NativeEnds, NativeFails, GeneratorEnds, unchangedRequest
<1>11. CASE Deliver \/ Completed
  BY <1>3, <1>11 DEF Deliver, Completed
<1>12. CASE UNCHANGED vars
  BY <1>3, <1>12 DEF vars
<1> QED BY <1>1, <1>2, <1>4, <1>5, <1>6, <1>7, <1>8, <1>9, <1>10, <1>11, <1>12 DEF Next

\* Every step is one of the contract, or says nothing to the client, while no part
\* of a block that was never started has been let through.
LEMMA ContractNext ==
  ASSUME Unbounded, Inv, Contracted, ~stray', StrayKept, [Next]_vars
  PROVE  [Receive \/ Complete]_contractVars /\ Contracted'
<1>0. stray' = stray
  BY DEF StrayKept
<1>1. CASE Validate \/ Refresh \/ Pick \/ Apply \/ Route \/ Refuse \/ Optimize \/ StartStream
           \/ Disconnect \/ Over
  <2>1. QuietContracted
    BY <1>1, QuietActions
  <2> QED BY <2>1, QuietKept DEF QuietContracted, contractVars
<1>2. CASE WebTool
  BY <1>0, <1>2, WebToolContracted DEF WebTool, contractVars
<1>3. CASE SelectCandidate
  BY <1>0, <1>3, SelectCandidateContracted DEF SelectCandidate, unchangedRequest, contractVars
<1>4. CASE OpenStream
  BY <1>0, <1>4, OpenStreamContracted DEF OpenStream, unchangedRequest, contractVars
<1>5. CASE OpenFails
  BY <1>0, <1>5, OpenFailsContracted DEF OpenFails, unchangedRequest, contractVars
<1>6. CASE ChatText
  BY <1>0, <1>6, ChatTextContracted DEF ChatText, ReadChunk, contractVars
<1>7. CASE ChatReasoning
  BY <1>0, <1>7, ChatReasoningContracted DEF ChatReasoning, ReadChunk, contractVars
<1>8. CASE ChatTool
  BY <1>0, <1>8, ChatToolContracted DEF ChatTool, ReadChunk, contractVars
<1>9. CASE ChatEnds
  BY <1>0, <1>9, ChatEndsContracted DEF ChatEnds, GeneratorEnds, unchangedRequest, contractVars
<1>10. CASE ChatFails
  BY <1>0, <1>10, ChatFailsContracted DEF ChatFails, GeneratorEnds, unchangedRequest, contractVars
<1>11. CASE NativeStart
  BY <1>0, <1>11, NativeStartContracted DEF NativeStart, NativeReads, ReadChunk, contractVars
<1>12. CASE NativeBlockStart
  BY <1>0, <1>12, NativeBlockStartContracted DEF NativeBlockStart, NativeReads, ReadChunk, contractVars
<1>13. CASE NativeDelta
  BY <1>0, <1>13, NativeDeltaContracted DEF NativeDelta, NativeReads, ReadChunk, contractVars
<1>14. CASE NativeBlockStop
  BY <1>0, <1>14, NativeBlockStopContracted DEF NativeBlockStop, NativeReads, ReadChunk, contractVars
<1>15. CASE NativeMessageStop
  BY <1>0, <1>15, NativeMessageStopContracted DEF NativeMessageStop, unchangedRequest, contractVars
<1>16. CASE NativeEnds
  BY <1>0, <1>16, NativeEndsContracted DEF NativeEnds, GeneratorEnds, unchangedRequest, contractVars
<1>17. CASE NativeFails
  BY <1>0, <1>17, NativeFailsContracted DEF NativeFails, GeneratorEnds, unchangedRequest, contractVars
<1>18. CASE Deliver
  BY <1>18, DeliverContracted
<1>19. CASE Completed
  BY <1>19, CompletedContracted
<1>20. CASE UNCHANGED vars
  <2>1. UNCHANGED <<view, reading, stray, phase, chain, cand, stage, chat, native, held, committed, wire>>
    BY <1>20 DEF vars, streamVars
  <2> QED BY <2>1 DEF Contracted, Standing, Leads, Stands, contractVars
<1> QED BY <1>1, <1>2, <1>3, <1>4, <1>5, <1>6, <1>7, <1>8, <1>9, <1>10, <1>11, <1>12, <1>13,
           <1>14, <1>15, <1>16, <1>17, <1>18, <1>19, <1>20 DEF Next

\* It holds at first.
LEMMA ContractedInit == Init => ContractInit /\ stray \in BOOLEAN /\ (stray \/ Contracted)
BY DEF Init, ContractInit, Contracted

\* Whatever chunks, failures and candidates there are, a client receives what the
\* assertion of core/anthropic/stream_contracts.py allows, and of a stream that is
\* completed a whole message (SSEBuilder, native_sse_block_policy.py, fallback.py):
\* until a native upstream sends thinking, or an end, of a block it never started.
THEOREM ContractRefined == Unbounded => (Spec => ContractSpec)
<1> SUFFICES ASSUME Unbounded PROVE Spec => ContractSpec
  OBVIOUS
<1> DEFINE Kept == stray \in BOOLEAN /\ (stray \/ Contracted)
<1>1. Init => ContractInit /\ Kept
  BY ContractedInit
<1>2. Inv /\ Kept /\ [Next]_vars => [Receive \/ Complete \/ Excused]_contractVars /\ Kept'
  <2> SUFFICES ASSUME Inv, Kept, [Next]_vars
               PROVE  [Receive \/ Complete \/ Excused]_contractVars /\ Kept'
    OBVIOUS
  <2>1. StrayKept /\ stray' \in BOOLEAN
    BY StrayStays
  <2>2. CASE stray'
    BY <2>1, <2>2 DEF Excused
  <2>3. CASE ~stray'
    <3>1. Contracted
      BY <2>1, <2>3 DEF StrayKept
    <3>2. [Receive \/ Complete]_contractVars /\ Contracted'
      BY <2>1, <2>3, <3>1, ContractNext
    <3> QED BY <2>1, <3>2
  <2> QED BY <2>2, <2>3
<1>3. Spec => []Inv
  BY StreamInvariant
<1> HIDE DEF Kept
<1> QED BY <1>1, <1>2, <1>3, PTL DEF Spec, ContractSpec
=============================================================================
