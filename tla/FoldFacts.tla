------------------------------ MODULE FoldFacts ------------------------------
(***************************************************************************)
(* What a fold over a sequence (FoldLeft) keeps and brings about.          *)
(*                                                                         *)
(* Induction over a fold needs a property of its states as a parameter.    *)
(* Here it is a set of states, Good, and the fold's operator is a          *)
(* parameter of the module: M == INSTANCE FoldFacts WITH Op <- F has the   *)
(* facts for F.                                                            *)
(***************************************************************************)
EXTENDS Integers, Sequences, FiniteSetsExt, WellFoundedInduction, TLAPS

CONSTANTS
  States,     \* of the fold
  Elements,   \* of its sequences
  Op(_, _)    \* a step: the state after an element

\* The definition of FoldLeft, unfolded to what it rests on.
Largest(S) == CHOOSE x \in S : \A y \in S : x >= y

Fold(base, seq) ==
  LET iter[s \in SUBSET (DOMAIN seq)] ==
        IF s = {} THEN base ELSE Op(iter[s \ {Largest(s)}], seq[Largest(s)])
  IN  iter[DOMAIN seq]

\* The least of a set of natural numbers.
LEMMA MinFacts ==
  ASSUME NEW S \in SUBSET Nat, S # {}
  PROVE  Min(S) \in S /\ \A x \in S : Min(S) <= x
<1>1. \E x \in S : \A y \in S : ~(<<y, x>> \in OpToRel(<, Nat))
  BY NatLessThanWellFounded, WFMin
<1>2. PICK x \in S : \A y \in S : ~(y < x)
  BY <1>1 DEF OpToRel
<1>3. \A y \in S : x <= y
  BY <1>2
<1> QED BY <1>3 DEF Min

\* Induction along 0 .. n, for a set instead of a predicate.
LEMMA Counting ==
  ASSUME NEW n \in Nat, NEW A, 0 \in A,
         \A k \in 0 .. n - 1 : k \in A => k + 1 \in A
  PROVE  0 .. n \subseteq A
<1> DEFINE Rest == (0 .. n) \ A
<1> SUFFICES ASSUME Rest # {} PROVE FALSE
  OBVIOUS
<1>1. Rest \in SUBSET Nat
  OBVIOUS
<1>2. Min(Rest) \in Rest /\ \A x \in Rest : Min(Rest) <= x
  BY <1>1, MinFacts
<1>3. Min(Rest) # 0 /\ Min(Rest) \in Nat /\ Min(Rest) <= n
  BY <1>2
<1> DEFINE m == Min(Rest) - 1
<1>4. m \in 0 .. n - 1 /\ m + 1 = Min(Rest)
  BY <1>3
<1>5. m \in A
  BY <1>2, <1>4
<1> QED BY <1>2, <1>4, <1>5

\* A recursion along 1 .. n has a solution.
LEMMA RecursionSolved ==
  ASSUME NEW base \in States, NEW n \in Nat, NEW step \in [States \X (1 .. n) -> States]
  PROVE  \E f \in [0 .. n -> States] :
           f[0] = base /\ \A i \in 1 .. n : f[i] = step[<<f[i - 1], i>>]
<1> DEFINE Solves(f, k) == /\ f \in [0 .. k -> States] /\ f[0] = base
                           /\ \A i \in 1 .. k : f[i] = step[<<f[i - 1], i>>]
           A == {k \in 0 .. n : \E f : Solves(f, k)}
<1>1. 0 \in A
  <2> DEFINE f == [i \in 0 .. 0 |-> base]
  <2>1. 0 .. 0 = {0} /\ 1 .. 0 = {}
    OBVIOUS
  <2>2. f \in [0 .. 0 -> States] /\ f[0] = base
    BY <2>1
  <2>3. Solves(f, 0)
    BY <2>1, <2>2
  <2>4. \E g : Solves(g, 0)
    <3> HIDE DEF f, Solves
    <3> QED BY <2>3
  <2> HIDE DEF f, Solves
  <2> QED BY <2>4
<1>2. ASSUME NEW k \in 0 .. n - 1, k \in A PROVE k + 1 \in A
  <2>1. PICK f : Solves(f, k)
    BY <1>2
  <2> DEFINE g == [i \in 0 .. k + 1 |-> IF i <= k THEN f[i] ELSE step[<<f[k], k + 1>>]]
  <2>2. \A i \in 0 .. k : i \in 0 .. k + 1 /\ g[i] = f[i] /\ g[i] \in States
    BY <2>1
  <2>3. k + 1 \in 0 .. k + 1 /\ g[k + 1] = step[<<f[k], k + 1>>]
    OBVIOUS
  <2>4. g[k + 1] \in States
    BY <2>1, <2>3
  <2>5. g \in [0 .. k + 1 -> States]
    <3>1. \A i \in 0 .. k + 1 : i <= k \/ i = k + 1
      OBVIOUS
    <3>2. g = [i \in 0 .. k + 1 |-> g[i]]
      OBVIOUS
    <3> HIDE DEF g
    <3>3. \A i \in 0 .. k + 1 : g[i] \in States
      BY <3>1, <2>2, <2>4
    <3> QED BY <3>2, <3>3
  <2> HIDE DEF g
  <2>6. ASSUME NEW i \in 1 .. k + 1 PROVE g[i] = step[<<g[i - 1], i>>]
    <3>1. CASE i = k + 1
      BY <3>1, <2>2, <2>3
    <3>2. CASE i <= k
      BY <3>2, <2>1, <2>2
    <3> QED BY <3>1, <3>2
  <2>7. g[0] = base
    BY <2>1, <2>2
  <2> QED BY <2>5, <2>6, <2>7
<1>3. n \in A
  <2> HIDE DEF A
  <2> QED BY <1>1, <1>2, Counting
<1> QED BY <1>3

\* The largest of a set of the numbers up to n.
LEMMA MaxFacts ==
  ASSUME NEW n \in Nat, NEW S \in SUBSET (1 .. n), S # {}
  PROVE  Largest(S) \in S /\ \A x \in S : x <= Largest(S)
<1> DEFINE T == {k \in Nat : \E x \in S : k = n - x}
<1>1. T \in SUBSET Nat /\ T # {}
  <2>1. PICK x \in S : TRUE
    OBVIOUS
  <2>2. n - x \in T
    BY <2>1
  <2> QED BY <2>2
<1>2. Min(T) \in T /\ \A k \in T : Min(T) <= k
  BY <1>1, MinFacts
<1>3. PICK x \in S : Min(T) = n - x
  BY <1>2
<1>4. \A y \in S : y <= x
  <2> SUFFICES ASSUME NEW y \in S PROVE y <= x
    OBVIOUS
  <2>1. n - y \in T
    OBVIOUS
  <2> QED BY <1>2, <1>3, <2>1
<1> QED BY <1>4 DEF Largest

\* That of an interval, and what is left without it.
LEMMA MaxOfInterval ==
  ASSUME NEW k \in Nat, k # 0
  PROVE  Largest(1 .. k) = k /\ (1 .. k) \ {k} = 1 .. k - 1
  BY DEF Largest

\* The same for a recursion over the subsets of 1 .. n, as folds are defined.
LEMMA FoldSolved ==
  ASSUME NEW base \in States, NEW n \in Nat, NEW step \in [States \X (1 .. n) -> States]
  PROVE  \E f \in [SUBSET (1 .. n) -> States] :
           \A s \in SUBSET (1 .. n) :
             f[s] = IF s = {} THEN base ELSE step[<<f[s \ {Largest(s)}], Largest(s)>>]
<1> DEFINE Solves(f, k) ==
             /\ f \in [SUBSET (1 .. k) -> States]
             /\ \A s \in SUBSET (1 .. k) :
                  f[s] = IF s = {} THEN base ELSE step[<<f[s \ {Largest(s)}], Largest(s)>>]
           A == {k \in 0 .. n : \E f : Solves(f, k)}
<1>1. 0 \in A
  <2> DEFINE f == [s \in SUBSET (1 .. 0) |-> base]
  <2>1. SUBSET (1 .. 0) = {{}}
    OBVIOUS
  <2>2. f \in [SUBSET (1 .. 0) -> States] /\ f[{}] = base
    BY <2>1
  <2>3. Solves(f, 0)
    BY <2>1, <2>2
  <2>4. \E g : Solves(g, 0)
    <3> HIDE DEF f, Solves
    <3> QED BY <2>3
  <2> HIDE DEF f, Solves
  <2> QED BY <2>4
<1>2. ASSUME NEW k \in 0 .. n - 1, k \in A PROVE k + 1 \in A
  <2>1. PICK f : Solves(f, k)
    BY <1>2
  <2> DEFINE m == k + 1
             g == [s \in SUBSET (1 .. m) |->
                     IF m \in s THEN step[<<f[s \ {m}], m>>] ELSE f[s]]
  <2>2. ASSUME NEW s \in SUBSET (1 .. m), m \notin s
        PROVE  s \in SUBSET (1 .. k) /\ g[s] = f[s] /\ g[s] \in States
    <3>1. s \in SUBSET (1 .. k)
      BY <2>2
    <3> QED BY <3>1, <2>1, <2>2
  <2>3. ASSUME NEW s \in SUBSET (1 .. m), m \in s
        PROVE  /\ s \ {m} \in SUBSET (1 .. m) /\ m \notin s \ {m} /\ Largest(s) = m
               /\ g[s] = step[<<g[s \ {m}], m>>] /\ g[s] \in States
    <3>1. s \ {m} \in SUBSET (1 .. m) /\ m \notin s \ {m}
      OBVIOUS
    <3>2. g[s \ {m}] = f[s \ {m}] /\ g[s \ {m}] \in States
      BY <3>1, <2>2
    <3>3. g[s] = step[<<f[s \ {m}], m>>]
      BY <2>3
    <3>4. m \in 1 .. n
      OBVIOUS
    <3>5. g[s] \in States
      <4> HIDE DEF g, m
      <4> QED BY <3>2, <3>3, <3>4
    <3>6. Largest(s) = m
      <4>1. \A x \in s : m >= x
        OBVIOUS
      <4>2. \A x \in s : (\A y \in s : x >= y) => x = m
        BY <2>3, <4>1
      <4> HIDE DEF m
      <4> QED BY <2>3, <4>1, <4>2 DEF Largest
    <3> QED BY <3>1, <3>2, <3>3, <3>5, <3>6
  <2>4. g \in [SUBSET (1 .. m) -> States]
    <3>1. g = [s \in SUBSET (1 .. m) |-> g[s]]
      OBVIOUS
    <3> HIDE DEF g
    <3> QED BY <3>1, <2>2, <2>3
  <2> HIDE DEF g
  <2>5. ASSUME NEW s \in SUBSET (1 .. m)
        PROVE  g[s] = IF s = {} THEN base ELSE step[<<g[s \ {Largest(s)}], Largest(s)>>]
    <3>1. CASE m \in s
      BY <3>1, <2>3
    <3>2. CASE m \notin s
      <4>1. s \in SUBSET (1 .. k) /\ g[s] = f[s]
        BY <3>2, <2>2
      <4>2. CASE s = {}
        BY <4>1, <4>2, <2>1
      <4>3. CASE s # {}
        <5>1. s \ {Largest(s)} \in SUBSET (1 .. m) /\ m \notin s \ {Largest(s)}
          BY <3>2
        <5>2. g[s \ {Largest(s)}] = f[s \ {Largest(s)}]
          BY <5>1, <2>2
        <5>3. f[s] = step[<<f[s \ {Largest(s)}], Largest(s)>>]
          BY <4>1, <4>3, <2>1
        <5> QED BY <4>1, <4>3, <5>2, <5>3
      <4> QED BY <4>2, <4>3
    <3> QED BY <3>1, <3>2
  <2>6. Solves(g, m)
    BY <2>4, <2>5
  <2>7. \E h : Solves(h, m)
    <3> HIDE DEF Solves, m
    <3> QED BY <2>6
  <2> HIDE DEF Solves
  <2> QED BY <2>7
<1>3. n \in A
  <2> HIDE DEF A
  <2> QED BY <1>1, <1>2, Counting
<1> QED BY <1>3

\* A fold goes through the sequence one element after the other.
LEMMA FoldSteps ==
  ASSUME NEW base \in States, NEW seq \in Seq(Elements),
         \A c \in States, e \in Elements : Op(c, e) \in States
  PROVE  \E f \in [0 .. Len(seq) -> States] :
           /\ f[0] = base
           /\ \A i \in 1 .. Len(seq) : f[i] = Op(f[i - 1], seq[i])
           /\ Fold(base, seq) = f[Len(seq)]
<1> DEFINE n == Len(seq)
           step == [x \in States \X (1 .. n) |-> Op(x[1], seq[x[2]])]
           iter == CHOOSE f : f = [s \in SUBSET (1 .. n) |->
                     IF s = {} THEN base ELSE Op(f[s \ {Largest(s)}], seq[Largest(s)])]
<1>0. n \in Nat /\ DOMAIN seq = 1 .. n
  OBVIOUS
<1>1. Fold(base, seq) = iter[1 .. n]
  BY <1>0 DEF Fold
<1>2. \A x \in States \X (1 .. n) : Op(x[1], seq[x[2]]) \in States
  BY <1>0
<1>3. step \in [States \X (1 .. n) -> States]
  BY <1>2
<1>4. PICK g \in [SUBSET (1 .. n) -> States] :
        \A s \in SUBSET (1 .. n) :
          g[s] = IF s = {} THEN base ELSE step[<<g[s \ {Largest(s)}], Largest(s)>>]
  <2> HIDE DEF step
  <2>1. base \in States /\ n \in Nat
    BY <1>0
  <2> HIDE DEF n
  <2> QED BY <2>1, <1>3, FoldSolved
<1>5. \A s \in SUBSET (1 .. n) : s # {} => Largest(s) \in 1 .. n
  BY MaxFacts, <1>0
<1>6. g = [s \in SUBSET (1 .. n) |->
            IF s = {} THEN base ELSE Op(g[s \ {Largest(s)}], seq[Largest(s)])]
  <2>1. \A s \in SUBSET (1 .. n) :
          g[s] = IF s = {} THEN base ELSE Op(g[s \ {Largest(s)}], seq[Largest(s)])
    BY <1>4, <1>5
  <2> HIDE DEF n
  <2> QED BY <2>1
<1>7. iter = [s \in SUBSET (1 .. n) |->
               IF s = {} THEN base ELSE Op(iter[s \ {Largest(s)}], seq[Largest(s)])]
  <2> HIDE DEF n, step
  <2> QED BY <1>6
<1> DEFINE f == [i \in 0 .. n |-> iter[1 .. i]]
<1>8. f[0] = base /\ f[n] = iter[1 .. n]
  <2>1. 1 .. 0 = {} /\ {} \in SUBSET (1 .. n) /\ 0 \in 0 .. n /\ n \in 0 .. n
    BY <1>0
  <2> HIDE DEF n, iter
  <2> QED BY <2>1, <1>7
<1>9. \A i \in 1 .. n : f[i] = Op(f[i - 1], seq[i])
  <2> SUFFICES ASSUME NEW i \in 1 .. n PROVE f[i] = Op(f[i - 1], seq[i])
    OBVIOUS
  <2>1. i \in 0 .. n /\ i - 1 \in 0 .. n /\ i \in Nat /\ i # 0
    BY <1>0
  <2>2. 1 .. i \in SUBSET (1 .. n) /\ 1 .. i # {}
    <3>1. i \in 1 .. i
      BY <2>1
    <3>2. \A j \in 1 .. i : j \in 1 .. n
      BY <1>0
    <3> QED BY <3>1, <3>2
  <2>3. Largest(1 .. i) = i /\ (1 .. i) \ {i} = 1 .. i - 1
    BY <2>1, MaxOfInterval
  <2>4. iter[1 .. i] = Op(iter[1 .. i - 1], seq[i])
    <3> HIDE DEF n, iter
    <3> QED BY <1>7, <2>2, <2>3
  <2> HIDE DEF n, iter
  <2> QED BY <2>1, <2>4
<1> DEFINE A == {k \in 0 .. n : f[k] \in States}
<1>10. 0 .. n \subseteq A
  <2> HIDE DEF f
  <2>1. \A k \in 0 .. n - 1 : f[k] \in States => f[k + 1] \in States
    <3> SUFFICES ASSUME NEW k \in 0 .. n - 1, f[k] \in States PROVE f[k + 1] \in States
      OBVIOUS
    <3>1. k + 1 \in 1 .. n /\ k + 1 - 1 = k /\ seq[k + 1] \in Elements
      BY <1>0 DEF n
    <3> QED BY <3>1, <1>9
  <2>2. \A k \in 0 .. n - 1 : k \in A => k + 1 \in A
    BY <1>0, <2>1
  <2>3. 0 \in A
    BY <1>0, <1>8
  <2> HIDE DEF n, A
  <2> QED BY <1>0, <2>2, <2>3, Counting
<1> QED BY <1>1, <1>8, <1>9, <1>10

\* What the base has and every step keeps, the fold has.
LEMMA FoldKeeps ==
  ASSUME NEW base \in States, NEW seq \in Seq(Elements),
         \A c \in States, e \in Elements : Op(c, e) \in States,
         NEW Good, base \in Good,
         \A c \in States \cap Good, e \in Elements : Op(c, e) \in Good
  PROVE  Fold(base, seq) \in States \cap Good
<1>1. PICK f \in [0 .. Len(seq) -> States] :
        /\ f[0] = base
        /\ \A i \in 1 .. Len(seq) : f[i] = Op(f[i - 1], seq[i])
        /\ Fold(base, seq) = f[Len(seq)]
  BY FoldSteps
<1> DEFINE n == Len(seq)
<1>0. n \in Nat
  OBVIOUS
<1> HIDE DEF n
<1> DEFINE A == {k \in 0 .. n : f[k] \in Good}
<1>2. 0 \in A
  BY <1>0, <1>1
<1>3. ASSUME NEW k \in 0 .. n - 1, k \in A PROVE k + 1 \in A
  <2>1. k + 1 \in 1 .. Len(seq) /\ k + 1 - 1 = k /\ seq[k + 1] \in Elements
    BY <1>0 DEF n
  <2>2. f[k + 1] = Op(f[k], seq[k + 1]) /\ f[k] \in States \cap Good
    BY <1>0, <1>1, <1>3, <2>1 DEF n
  <2> QED BY <1>0, <2>1, <2>2
<1>4. n \in A
  <2> HIDE DEF A
  <2>1. \A k \in 0 .. n - 1 : k \in A => k + 1 \in A
    BY <1>3
  <2>2. 0 .. n \subseteq A
    BY ONLY <1>0, <1>2, <2>1, Counting
  <2> QED BY <1>0, <2>2
<1> QED BY <1>0, <1>1, <1>4 DEF n

\* What the step of one element brings about and every step keeps, a fold over that
\* element has.
LEMMA FoldReaches ==
  ASSUME NEW base \in States, NEW seq \in Seq(Elements),
         \A c \in States, e \in Elements : Op(c, e) \in States,
         NEW Good, NEW j \in 1 .. Len(seq),
         \A c \in States : Op(c, seq[j]) \in Good,
         \A c \in States \cap Good, e \in Elements : Op(c, e) \in Good
  PROVE  Fold(base, seq) \in States \cap Good
<1>1. PICK f \in [0 .. Len(seq) -> States] :
        /\ f[0] = base
        /\ \A i \in 1 .. Len(seq) : f[i] = Op(f[i - 1], seq[i])
        /\ Fold(base, seq) = f[Len(seq)]
  BY FoldSteps
<1> DEFINE n == Len(seq)
<1>0. n \in Nat
  OBVIOUS
<1> HIDE DEF n
<1> DEFINE A == {k \in 0 .. n : k >= j => f[k] \in Good}
<1>2. 0 \in A
  BY <1>0
<1>3. ASSUME NEW k \in 0 .. n - 1, k \in A PROVE k + 1 \in A
  <2>1. /\ k + 1 \in 1 .. Len(seq) /\ k + 1 - 1 = k /\ seq[k + 1] \in Elements
        /\ f[k] \in States /\ j \in Int
    BY <1>0 DEF n
  <2>2. f[k + 1] = Op(f[k], seq[k + 1])
    BY <1>1, <2>1
  <2>3. CASE k + 1 = j
    BY <1>0, <2>1, <2>2, <2>3
  <2>4. CASE k + 1 # j
    BY <1>0, <1>3, <2>1, <2>2, <2>4
  <2> QED BY <2>3, <2>4
<1>4. n \in A
  <2> HIDE DEF A
  <2>1. \A k \in 0 .. n - 1 : k \in A => k + 1 \in A
    BY <1>3
  <2>2. 0 .. n \subseteq A
    BY ONLY <1>0, <1>2, <2>1, Counting
  <2> QED BY <1>0, <2>2
<1> QED BY <1>0, <1>1, <1>4 DEF n
=============================================================================
